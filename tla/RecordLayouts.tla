--------------------------- MODULE RecordLayouts ---------------------------
(***************************************************************************)
(* The layout of every structure type: what the body of lazybiosGetTypeN   *)
(* (and of the OEM getters) reads for each member of a record.  Members    *)
(* have the names of the structs in include/lazybios/structures.           *)
(***************************************************************************)
EXTENDS Fields, TLC

Type0 ==
    [vendor |-> Str(4), version |-> Str(5), release_date |-> Str(8),
     bios_starting_segment |-> Maybe(U16(6)), characteristics |-> U64(10),
     rom_size |-> Maybe(U8(9)), firmware_char_ext_bytes |-> UpTo(18, 2),
     firmware_char_ext_bytes_count |-> Derived(19)]
 @@ Since(2, 4,
      [platform_major_release |->
          Void({"platform_major_release", "platform_minor_release"}, U8(20)),
       platform_minor_release |->
          Void({"platform_major_release", "platform_minor_release"}, U8(21)),
       ec_major_release |-> Maybe(U8(22)), ec_minor_release |-> Maybe(U8(23))])
 @@ Since(3, 1,
      [extended_rom_size |-> When("rom_size", UNREACHABLE, U16(24))])
 @@ Unmarked(Since(3, 1,
      [unit |-> When("rom_size", ABSENT, Derived(26))]))

Type1 ==
    [manufacturer |-> Str(4), product_name |-> Str(5), version |-> Str(6),
     serial_number |-> Str(7)]
 @@ Since(2, 1,
      [wake_up_type |-> U8(24)])
 @@ Unmarked(Since(2, 1,
      [uuid |-> Maybe(Bytes(8, 16))]))
 @@ Since(2, 4,
      [sku_number |-> Str(25), family |-> Str(26)])

Type2 ==
    [manufacturer |-> Str(4), product |-> Str(5), version |-> Str(6),
     serial_number |-> Str(7), asset_tag |-> Str(8), feature_flags |-> U8(9),
     location_in_chassis |-> Str(10), chassis_handle |-> Maybe(U16(11)),
     board_type |-> U8(13), number_of_contained_object_handles |-> U8(14),
     contained_object_handles |->
        NoneAbsent(Items("number_of_contained_object_handles", 15, 2))]

Type3 ==
    [manufacturer |-> Str(4), type |-> U8(5), version |-> Str(6),
     serial_number |-> Str(7), asset_tag |-> Str(8)]
 @@ Since(2, 1,
      [boot_up_state |-> U8(9), power_supply_state |-> U8(10),
       thermal_state |-> U8(11), security_status |-> U8(12)])
 @@ Since(2, 3,
      [oem_defined |-> U32(13), height |-> Maybe(U8(17)),
       number_of_power_cords |-> Maybe(U8(18)),
       contained_element_count |-> U8(19),
       contained_element_record_length |-> U8(20),
       contained_elements |->
          NoneAbsent(Sized("contained_element_count",
            "contained_element_record_length", 3, 21))])
 @@ Since(2, 7, After("contained_elements", ABSENT, UNREACHABLE,
      [sku_number |-> Str(21)]))
 @@ Since(3, 9, After("contained_elements", ABSENT, UNREACHABLE,
      [rack_type |-> Maybe(U8(22)),
       rack_height |-> Void({"rack_type"}, U8(23))]))

Type4 ==
    [socket_designation |-> Str(4), processor_type |-> U8(5),
     processor_family |-> U8(6), processor_manufacturer |-> Str(7),
     processor_id |-> U64(8), processor_version |-> Str(16),
     voltage |-> U8(17), external_clock |-> U16(18), max_speed |-> U16(20),
     current_speed |-> U16(22), status |-> U8(24),
     processor_upgrade |-> U8(25)]
 @@ Since(2, 1,
      [l1_cache_handle |-> Maybe(U16(26)), l2_cache_handle |-> Maybe(U16(28)),
       l3_cache_handle |-> Maybe(U16(30))])
 @@ Since(2, 3,
      [serial_number |-> Str(32), asset_tag |-> Str(33),
       part_number |-> Str(34)])
 @@ Since(2, 5,
      [core_count |-> U8(35), core_enabled |-> U8(36),
       thread_count |-> U8(37), processor_characteristics |-> U16(38)])
 @@ Since(2, 6,
      [processor_family_2 |-> U16(40)])
 @@ Since(3, 0,
      [core_count_2 |-> U16(42), core_enabled_2 |-> U16(44),
       thread_count_2 |-> U16(46)])
 @@ Since(3, 6,
      [thread_enabled |-> U16(48)])
 @@ Since(3, 8,
      [socket_type |-> Str(50)])

Type5 ==
    [error_detecting_method |-> U8(4), error_correcting_capability |-> U8(5),
     supported_interleave |-> U8(6), current_interleave |-> U8(7),
     maximum_memory_module_size |-> U8(8), supported_speeds |-> U16(9),
     supported_memory_types |-> U16(11), memory_module_voltage |-> U8(13),
     number_of_associated_memory_slots |-> U8(14),
     memory_module_configuration_handles |->
        Items("number_of_associated_memory_slots", 15, 2)]
 @@ Since(2, 1, After("memory_module_configuration_handles",
      UNREACHABLE, ABSENT,
      [enabled_error_correcting_capabilities |-> U8(15)]))

Type6 ==
    [socket_designation |-> Str(4), bank_connections |-> U8(5),
     current_speed |-> U8(6), current_memory_type |-> U16(7),
     installed_size |-> U8(9), enabled_size |-> U8(10),
     error_status |-> U8(11)]

Type7 ==
    [socket_designation |-> Str(4), cache_configuration |-> U16(5),
     maximum_cache_size |-> U16(7), installed_size |-> U16(9),
     supported_sram_type |-> U16(11), current_sram_type |-> U16(13)]
 @@ Unmarked(Since(2, 1,
      [cache_speed |-> U8(15), error_correction_type |-> U8(16),
       system_cache_type |-> U8(17), associativity |-> U8(18)]))
 @@ Unmarked(Since(3, 1,
      [maximum_cache_size_2 |-> U32(19), installed_cache_size_2 |-> U32(23)]))

Type8 ==
    [internal_reference_designator |-> Str(4),
     internal_connector_type |-> U8(5),
     external_reference_designator |-> Str(6),
     external_connector_type |-> U8(7), port_type |-> U8(8)]

Type9 ==
    [slot_designation |-> Str(4), slot_type |-> U8(5),
     slot_data_bus_width |-> U8(6), current_usage |-> U8(7),
     slot_length |-> U8(8), slot_id |-> U16(9),
     slot_characteristics_1 |-> U8(11)]
 @@ Since(2, 1,
      [slot_characteristics_2 |-> U8(12)])
 @@ Since(2, 6,
      [segment_group_number |-> U16(13), bus_number |-> U8(15),
       device_function_number |-> U8(16)])
 @@ Since(3, 2,
      [data_bus_width |-> U8(17), peer_grouping_count |-> U8(18),
       peer_groups |-> Items("peer_grouping_count", 19, 5)])
 @@ Since(3, 4, After("peer_groups", UNREACHABLE, ABSENT,
      [slot_information |-> U8(19), slot_physical_width |-> U8(20),
       slot_pitch |-> U16(21)]))
 @@ Since(3, 5, After("peer_groups", UNREACHABLE, ABSENT,
      [slot_height |-> U8(23)]))

Type10 ==
    [device_count |-> Tally(4, 2), devices |-> Rest(4, 2)]

Type11 ==
    [string_count |-> U8(4), strings |-> Strings("string_count")]

Type12 ==
    [option_count |-> U8(4), options |-> Strings("option_count")]

Type13 ==
    [installable_languages |-> U8(4), current_language |-> Maybe(Str(21)),
     languages |-> Strings("installable_languages")]
 @@ Since(2, 1,
      [flags |-> U8(5)])

Type14 ==
    [group_name |-> Str(4), item_count |-> Tally(5, 3), items |-> Rest(5, 3)]

Type15 ==
    [log_area_length |-> U16(4), log_header_start_offset |-> U16(6),
     log_data_start_offset |-> U16(8), access_method |-> U8(10),
     log_status |-> U8(11), log_change_token |-> Maybe(U32(12)),
     access_method_address |-> U32(16)]
 @@ Since(2, 1,
      [log_header_format |-> U8(20),
       number_of_supported_log_type_descriptors |-> U8(21),
       length_of_each_log_type_descriptor |-> U8(22),
       supported_log_type_descriptors |->
          Sized("number_of_supported_log_type_descriptors",
            "length_of_each_log_type_descriptor", 2, 23)])

Type16 ==
    [location |-> U8(4), use |-> U8(5), memory_error_correction |-> U8(6),
     maximum_capacity |-> U32(7),
     memory_error_information_handle |-> Maybe(U16(11)),
     number_of_memory_devices |-> U16(13)]
 @@ Since(2, 7,
      [extended_maximum_capacity |->
          When("maximum_capacity", ABSENT, U64(15))])

Type17From21 ==
    Since(2, 1,
      [physical_memory_array_handle |-> Maybe(U16(4)),
       memory_error_information_handle |-> Maybe(U16(6)),
       total_width |-> U16(8), data_width |-> U16(10), size |-> U16(12),
       form_factor |-> U8(14), device_set |-> U8(15),
       device_locator |-> Str(16), bank_locator |-> Str(17),
       memory_type |-> U8(18), type_detail |-> U16(19)])
 @@ Since(2, 3,
      [speed |-> U16(21), manufacturer |-> Str(23), serial_number |-> Str(24),
       asset_tag |-> Str(25), part_number |-> Str(26)])
 @@ Since(2, 6,
      [attributes |-> U8(27)])
 @@ Since(2, 7,
      [extended_size |-> U32(28), configured_memory_speed |-> U16(32)])
 @@ Since(2, 8,
      [minimum_voltage |-> U16(34), maximum_voltage |-> U16(36),
       configured_voltage |-> U16(38)])

Type17From32 ==
   Since(3, 2,
      [memory_technology |-> U8(40),
       memory_operating_mode_capability |-> U16(41),
       firmware_version |-> Str(43), module_manufacturer_id |-> U16(44),
       module_product_id |-> U16(46),
       memory_subsystem_controller_manufacturer_id |-> U16(48),
       memory_subsystem_controller_product_id |-> U16(50),
       non_volatile_size |-> U64(52), volatile_size |-> U64(60),
       cache_size |-> U64(68), logical_size |-> U64(76)])
 @@ Since(3, 3,
      [extended_speed |-> U32(84),
       extended_configured_memory_speed |-> U32(88)])
 @@ Since(3, 7,
      [pmic0_manufacturer_id |-> U16(92), pmic0_revision_number |-> U16(94),
       rcd_manufacturer_id |-> U16(96), rcd_revision_number |-> U16(98)])

Type17 == Type17From21 @@ Type17From32

Type18 ==
    [error_type |-> U8(4), error_granularity |-> U8(5),
     error_operation |-> U8(6), vendor_syndrome |-> U32(7),
     memory_array_error_address |-> U32(11), device_error_address |-> U32(15),
     error_resolution |-> U32(19)]

Type19 ==
    [starting_address |-> U32(4), ending_address |-> U32(8),
     memory_array_handle |-> Maybe(U16(12)), partition_width |-> U8(14)]
 @@ Since(2, 7,
      [extended_starting_address |-> When("starting_address", ABSENT, U64(15)),
       extended_ending_address |-> When("ending_address", ABSENT, U64(23))])

Type20 ==
    [starting_address |-> U32(4), ending_address |-> U32(8),
     memory_device_handle |-> Maybe(U16(12)),
     memory_array_mapped_address_handle |-> Maybe(U16(14)),
     partition_row_position |-> Maybe(U8(16)),
     interleave_position |-> Maybe(U8(17)),
     interleaved_data_depth |-> Maybe(U8(18))]
 @@ Since(2, 7,
      [extended_starting_address |-> When("starting_address", ABSENT, U64(19)),
       extended_ending_address |-> When("ending_address", ABSENT, U64(27))])

Type21 ==
    [pointing_device_type |-> U8(4), interface |-> U8(5),
     number_of_buttons |-> U8(6)]

Type22 ==
    [location |-> Str(4), manufacturer |-> Str(5),
     manufacture_date |-> Str(6), serial_number |-> Str(7),
     device_name |-> Str(8), device_chemistry |-> U8(9),
     design_capacity |-> U16(10), design_voltage |-> U16(12),
     sbds_version_number |-> Str(14), maximum_error |-> U8(15)]
 @@ Since(2, 2,
      [sbds_serial_number |-> When("serial_number", ABSENT, U16(16)),
       sbds_manufacture_date |-> When("manufacture_date", ABSENT, U16(18)),
       sbds_device_chemistry |-> When("device_chemistry", ABSENT, Str(20)),
       design_capacity_multiplier |-> U8(21), oem_specific |-> U32(22)])

Type23 ==
    [capabilities |-> U8(4), reset_count |-> U16(5), reset_limit |-> U16(7),
     timer_interval |-> U16(9), timeout |-> U16(11)]

Type24 ==
    [hardware_security_settings |-> U8(4)]

Type25 ==
    [next_scheduled_power_on_month |-> U8(4),
     next_scheduled_power_on_day |-> U8(5),
     next_scheduled_power_on_hour |-> U8(6),
     next_scheduled_power_on_minute |-> U8(7),
     next_scheduled_power_on_second |-> U8(8)]

Type26 ==
    [description |-> Str(4), location_and_status |-> U8(5),
     maximum_value |-> U16(6), minimum_value |-> U16(8),
     resolution |-> U16(10), tolerance |-> U16(12), accuracy |-> U16(14),
     oem_defined |-> U32(16), nominal_value |-> U16(20)]

Type27 ==
    [temperature_probe_handle |-> Maybe(U16(4)),
     device_type_and_status |-> U8(6), cooling_unit_group |-> U8(7),
     oem_defined |-> U32(8), nominal_speed |-> U16(12)]
 @@ Unmarked(Since(2, 7,
      [description |-> Str(14)]))

Type28 ==
    [description |-> Str(4), location_and_status |-> U8(5),
     maximum_value |-> U16(6), resolution |-> U16(10), tolerance |-> U16(12),
     accuracy |-> U16(14), oem_defined |-> U32(16), nominal_value |-> U16(20),
     minimum_value |-> U16(8)]

Type29 ==
    [description |-> Str(4), location_and_status |-> U8(5),
     maximum_value |-> U16(6), minimum_value |-> U16(8),
     resolution |-> U16(10), tolerance |-> U16(12), accuracy |-> U16(14),
     oem_defined |-> U32(16), nominal_value |-> U16(20)]

Type30 ==
    [manufacturer_name |-> Str(4), connections |-> U8(5)]

Type31 ==
    [checksum |-> U8(4), reserved_1 |-> U8(5), reserved_2 |-> U16(6),
     bis_entry_point_16 |-> U32(8), bis_entry_point_32 |-> U32(12),
     reserved_3 |-> U64(16), reserved_4 |-> U32(24),
     checksum_valid |-> Derived(28)]

Type32 ==
    [boot_status |-> U8(10), reserved |-> Bytes(4, 6),
     additional_data |-> Rest(11, 1), additional_data_size |-> Derived(11)]

Type33 ==
    [error_type |-> U8(4), error_granularity |-> U8(5),
     error_operation |-> U8(6), vendor_syndrome |-> U32(7),
     memory_array_error_address |-> U64(11), device_error_address |-> U64(19),
     error_resolution |-> U32(27)]

Type34 ==
    [description |-> Str(4), device_type |-> U8(5), address |-> U32(6),
     address_type |-> U8(10)]

Type35 ==
    [description |-> Str(4), management_device_handle |-> Maybe(U16(5)),
     component_handle |-> Maybe(U16(7)), threshold_handle |-> Maybe(U16(9))]

Type36 ==
    [lower_threshold_non_critical |-> Maybe(U16(4)),
     upper_threshold_non_critical |-> Maybe(U16(6)),
     lower_threshold_critical |-> Maybe(U16(8)),
     upper_threshold_critical |-> Maybe(U16(10)),
     lower_threshold_non_recoverable |-> Maybe(U16(12)),
     upper_threshold_non_recoverable |-> Maybe(U16(14))]

Type37 ==
    [channel_type |-> U8(4), maximum_channel_load |-> U8(5),
     memory_device_count |-> U8(6),
     memory_devices |-> Items("memory_device_count", 7, 3)]

Type38 ==
    [interface_type |-> U8(4), ipmi_specification_revision |-> U8(5),
     i2c_target_address |-> U8(6), nv_storage_device_address |-> Maybe(U8(7)),
     base_address |-> U64(8), base_address_modifier_interrupt_info |-> U8(16),
     interrupt_number |-> U8(17)]

Type39 ==
    [power_unit_group |-> U8(4), location |-> Str(5), device_name |-> Str(6),
     manufacturer |-> Str(7), serial_number |-> Str(8),
     asset_tag_number |-> Str(9), model_part_number |-> Str(10),
     revision_level |-> Str(11), max_power_capacity |-> U16(12),
     power_supply_characteristics |-> U16(14),
     input_voltage_probe_handle |-> Maybe(U16(16)),
     cooling_device_handle |-> Maybe(U16(18)),
     input_current_probe_handle |-> Maybe(U16(20))]

Type40 ==
    [additional_information_entry_count |-> U8(4),
     additional_information_entries |->
        Sized("additional_information_entry_count", "entry_length", 6, 5)]

Type41 ==
    [reference_designation |-> Str(4), device_type_and_status |-> U8(5),
     device_type_instance |-> U8(6), segment_group_number |-> U16(7),
     bus_number |-> U8(9), device_function_number |-> U8(10)]

(* A table older than 3.2: the interface type, and the byte it is followed *)
(* by for a vendor-specific one.                                           *)
Type42Before32 ==
    [interface_type |-> U8(4),
     interface_type_specific_data |->
        When("interface_type", ABSENT, Bytes(5, 4))]

Type42 ==
    [interface_type |-> U8(4)]
 @@ Unmarked(Since(3, 2,
      [interface_type_specific_data_length |-> U8(5),
       interface_type_specific_data |->
          Items("interface_type_specific_data_length", 6, 1)]))
 @@ Unmarked(Since(3, 2, After("interface_type_specific_data", ABSENT, ABSENT,
      [number_of_protocol_records |-> U8(6),
       protocol_records |->
          Headed(4, Sized("number_of_protocol_records",
            "protocol_record_length", 2, 7))])))

Type43 ==
    [major_spec_version |-> U8(8), minor_spec_version |-> U8(9),
     firmware_version_1 |-> U32(10), firmware_version_2 |-> U32(14),
     description |-> Str(18), characteristics |-> U64(19),
     oem_defined |-> U32(27), vendor_id |-> Bytes(4, 4)]

Type44 ==
    [referenced_handle |-> Maybe(U16(4)), block_length |-> U8(6),
     processor_type |-> U8(7),
     processor_specific_data |-> Items("block_length", 8, 1)]

Type45 ==
    [firmware_component_name |-> Str(4), firmware_version |-> Str(5),
     version_format |-> U8(6), firmware_id |-> Str(7),
     firmware_id_format |-> U8(8), release_date |-> Str(9),
     manufacturer |-> Str(10), lowest_supported_firmware_version |-> Str(11),
     image_size |-> Maybe(U64(12)), characteristics |-> U16(20),
     state |-> U8(22), number_of_associated_components |-> U8(23),
     associated_component_handles |->
        Items("number_of_associated_components", 24, 2)]

Type46 ==
    [string_property_id |-> U16(4), string_property_value |-> Str(6),
     parent_handle |-> Maybe(U16(7))]

HpType204 ==
    [rack_name |-> Str(4), enclosure_name |-> Str(5),
     enclosure_model |-> Str(6), enclosure_bays |-> U8(7),
     enclosure_serial |-> Str(8), server_bay |-> Str(8),
     bays_filled |-> U8(9)]

DellType177 ==
    [bios_flags |-> U64(4), acpi_wmi_supported |-> Derived(12)]

DellType212 ==
    [index_port |-> U16(4), data_port |-> U16(6), start_index |-> U8(9),
     end_index |-> U8(10), value_index |-> U8(11), checksum_type |-> U8(8),
     tokens |-> Elements(12, 5)]

DellType218 ==
    [command_io_address |-> U16(4), command_io_code |-> U8(6),
     supported_command_classes_bitmap |-> U32(7), tokens |-> Elements(11, 6)]

-----------------------------------------------------------------------------
Layouts ==
  [Type0 |-> Type0, Type1 |-> Type1, Type2 |-> Type2, Type3 |-> Type3,
   Type4 |-> Type4, Type5 |-> Type5, Type6 |-> Type6, Type7 |-> Type7,
   Type8 |-> Type8, Type9 |-> Type9, Type10 |-> Type10, Type11 |-> Type11,
   Type12 |-> Type12, Type13 |-> Type13, Type14 |-> Type14,
   Type15 |-> Type15, Type16 |-> Type16, Type17 |-> Type17,
   Type18 |-> Type18, Type19 |-> Type19, Type20 |-> Type20,
   Type21 |-> Type21, Type22 |-> Type22, Type23 |-> Type23,
   Type24 |-> Type24, Type25 |-> Type25, Type26 |-> Type26,
   Type27 |-> Type27, Type28 |-> Type28, Type29 |-> Type29,
   Type30 |-> Type30, Type31 |-> Type31, Type32 |-> Type32,
   Type33 |-> Type33, Type34 |-> Type34, Type35 |-> Type35,
   Type36 |-> Type36, Type37 |-> Type37, Type38 |-> Type38,
   Type39 |-> Type39, Type40 |-> Type40, Type41 |-> Type41,
   Type42 |-> Type42, Type43 |-> Type43, Type44 |-> Type44,
   Type45 |-> Type45, Type46 |-> Type46, HpType204 |-> HpType204,
   DellType177 |-> DellType177, DellType212 |-> DellType212,
   DellType218 |-> DellType218]

Types == DOMAIN Layouts

(* lazybiosGetType42 takes another path below SMBIOS 3.2. *)
Layout(type, version) ==
  IF type = "Type42" /\ ~IsVersionPlus(version, <<3, 2>>)
  THEN Type42Before32 ELSE Layouts[type]

=============================================================================
