--------------------------- MODULE RecordStructs ---------------------------
(***************************************************************************)
(* The structs of include/lazybios/structures: how wide each member of a   *)
(* record is and which parts of the record are blocks of its own.          *)
(*   u8 .. u64   integers of that many bits                                *)
(*   bytes       arrays of that many bytes inside the struct               *)
(*   text        pointers to a string inside the table                     *)
(*   heap        pointers to an array, with the bytes one element comes    *)
(*               from in the table                                         *)
(*   size        what the table holds no byte of, lengths for the most part *)
(*   decoded     decoded forms that are allocated (the others are static)  *)
(*   each        parts the elements of an array own                        *)
(***************************************************************************)
EXTENDS Naturals, TLC

NoMembers ==
  [u8 |-> {}, u16 |-> {}, u32 |-> {}, u64 |-> {}, bytes |-> <<>>, text |-> {},
   heap |-> <<>>, size |-> {}, decoded |-> {}, each |-> <<>>]

StructType0 ==
  [u8 |->
     {"platform_major_release", "platform_minor_release",
      "ec_major_release", "ec_minor_release"},
   u16 |-> {"bios_starting_segment", "extended_rom_size"},
   u32 |-> {"rom_size"},
   u64 |-> {"characteristics"},
   bytes |-> [unit |-> 4],
   text |-> {"vendor", "version", "release_date"},
   heap |-> [firmware_char_ext_bytes |-> 1],
   size |-> {"firmware_char_ext_bytes_count"},
   decoded |->
     {"decoded.characteristics", "decoded.characteristics_ext_byte1",
      "decoded.characteristics_ext_byte2"}] @@ NoMembers

StructType1 ==
  [u8 |-> {"wake_up_type"},
   bytes |-> [uuid |-> 16],
   text |->
     {"manufacturer", "product_name", "version", "serial_number",
      "sku_number", "family"}] @@ NoMembers

StructType2 ==
  [u8 |->
     {"feature_flags", "board_type",
      "number_of_contained_object_handles"},
   u16 |-> {"chassis_handle"},
   text |->
     {"manufacturer", "product", "version", "serial_number",
      "asset_tag", "location_in_chassis"},
   heap |-> [contained_object_handles |-> 2],
   decoded |-> {"decoded.feature_flags"}] @@ NoMembers

StructType3 ==
  [u8 |->
     {"type", "boot_up_state", "power_supply_state", "thermal_state",
      "security_status", "height", "number_of_power_cords",
      "contained_element_count", "contained_element_record_length",
      "rack_type", "rack_height"},
   u32 |-> {"oem_defined"},
   text |->
     {"manufacturer", "version", "serial_number", "asset_tag",
      "sku_number"},
   heap |-> [contained_elements |-> 1],
   decoded |-> {"decoded.type", "decoded.contained_elements"},
   each |->
     "decoded.contained_elements[]" :> "decoded.contained_elements"] @@
      NoMembers

StructType4 ==
  [u8 |->
     {"processor_type", "processor_family", "voltage", "status",
      "processor_upgrade", "core_count", "core_enabled",
      "thread_count"},
   u16 |->
     {"external_clock", "max_speed", "current_speed", "l1_cache_handle",
      "l2_cache_handle", "l3_cache_handle", "processor_characteristics",
      "processor_family_2", "core_count_2", "core_enabled_2",
      "thread_count_2", "thread_enabled"},
   u64 |-> {"processor_id"},
   text |->
     {"socket_designation", "processor_manufacturer",
      "processor_version", "serial_number", "asset_tag", "part_number",
      "socket_type"},
   decoded |->
     {"decoded.voltage", "decoded.status",
      "decoded.processor_characteristics"}] @@ NoMembers

StructType5 ==
  [u8 |->
     {"error_detecting_method", "error_correcting_capability",
      "supported_interleave", "current_interleave",
      "maximum_memory_module_size", "memory_module_voltage",
      "number_of_associated_memory_slots",
      "enabled_error_correcting_capabilities"},
   u16 |-> {"supported_speeds", "supported_memory_types"},
   heap |-> [memory_module_configuration_handles |-> 2],
   decoded |->
     {"decoded.error_correcting_capability",
      "decoded.enabled_error_correcting_capabilities",
      "decoded.supported_speeds", "decoded.supported_memory_types",
      "decoded.memory_module_voltage"}] @@ NoMembers

StructType6 ==
  [u8 |->
     {"bank_connections", "current_speed", "installed_size",
      "enabled_size", "error_status"},
   u16 |-> {"current_memory_type"},
   text |-> {"socket_designation"},
   decoded |->
     {"decoded.bank_connections", "decoded.current_memory_type",
      "decoded.installed_size", "decoded.enabled_size",
      "decoded.error_status"}] @@ NoMembers

StructType7 ==
  [u8 |->
     {"cache_speed", "error_correction_type", "system_cache_type",
      "associativity"},
   u16 |->
     {"cache_configuration", "maximum_cache_size", "installed_size",
      "supported_sram_type", "current_sram_type"},
   u32 |-> {"maximum_cache_size_2", "installed_cache_size_2"},
   text |-> {"socket_designation"},
   decoded |->
     {"decoded.cache_configuration", "decoded.supported_sram_type"}] @@
      NoMembers

StructType8 ==
  [u8 |-> {"internal_connector_type", "external_connector_type", "port_type"},
   text |->
     {"internal_reference_designator", "external_reference_designator"}]
      @@ NoMembers

StructType9 ==
  [u8 |->
     {"slot_type", "slot_data_bus_width", "current_usage",
      "slot_length", "slot_characteristics_1", "slot_characteristics_2",
      "bus_number", "device_function_number", "data_bus_width",
      "peer_grouping_count", "slot_information", "slot_physical_width",
      "slot_height"},
   u16 |-> {"slot_id", "segment_group_number", "slot_pitch"},
   text |-> {"slot_designation"},
   heap |-> [peer_groups |-> 5],
   decoded |->
     {"decoded.slot_characteristics_1",
      "decoded.slot_characteristics_2",
      "decoded.device_function_number"},
   each |-> "peer_groups[]" :> "peer_groups"] @@ NoMembers

StructType10 ==
  [heap |-> [devices |-> 2],
   size |-> {"device_count"}] @@ NoMembers

StructType11 ==
  [u8 |-> {"string_count"},
   heap |-> [strings |-> 0]] @@ NoMembers

StructType12 ==
  [u8 |-> {"option_count"},
   heap |-> [options |-> 0]] @@ NoMembers

StructType13 ==
  [u8 |-> {"installable_languages", "flags"},
   text |-> {"current_language"},
   heap |-> [languages |-> 0]] @@ NoMembers

StructType14 ==
  [text |-> {"group_name"},
   heap |-> [items |-> 3],
   size |-> {"item_count"}] @@ NoMembers

StructType15 ==
  [u8 |->
     {"access_method", "log_status", "log_header_format",
      "number_of_supported_log_type_descriptors",
      "length_of_each_log_type_descriptor"},
   u16 |->
     {"log_area_length", "log_header_start_offset",
      "log_data_start_offset"},
   u32 |-> {"log_change_token", "access_method_address"},
   heap |-> [supported_log_type_descriptors |-> 2],
   decoded |-> {"decoded.log_status"}] @@ NoMembers

StructType16 ==
  [u8 |-> {"location", "use", "memory_error_correction"},
   u16 |-> {"memory_error_information_handle", "number_of_memory_devices"},
   u32 |-> {"maximum_capacity"},
   u64 |-> {"extended_maximum_capacity"}] @@ NoMembers

StructType17 ==
  [u8 |->
     {"form_factor", "device_set", "memory_type", "attributes",
      "memory_technology"},
   u16 |->
     {"physical_memory_array_handle", "memory_error_information_handle",
      "total_width", "data_width", "size", "type_detail", "speed",
      "configured_memory_speed", "minimum_voltage", "maximum_voltage",
      "configured_voltage", "memory_operating_mode_capability",
      "module_manufacturer_id", "module_product_id",
      "memory_subsystem_controller_manufacturer_id",
      "memory_subsystem_controller_product_id", "pmic0_manufacturer_id",
      "pmic0_revision_number", "rcd_manufacturer_id",
      "rcd_revision_number"},
   u32 |->
     {"extended_size", "extended_speed",
      "extended_configured_memory_speed"},
   u64 |->
     {"non_volatile_size", "volatile_size", "cache_size",
      "logical_size"},
   text |->
     {"device_locator", "bank_locator", "manufacturer", "serial_number",
      "asset_tag", "part_number", "firmware_version"},
   decoded |->
     {"decoded.type_detail", "decoded.extended_size",
      "decoded.memory_operating_mode_capability",
      "decoded.module_manufacturer_id", "decoded.non_volatile_size",
      "decoded.volatile_size", "decoded.cache_size",
      "decoded.extended_speed", "decoded.pmic0_manufacturer_id",
      "decoded.pmic0_revision_number", "decoded.rcd_manufacturer_id",
      "decoded.rcd_revision_number"}] @@ NoMembers

StructType18 ==
  [u8 |-> {"error_type", "error_granularity", "error_operation"},
   u32 |->
     {"vendor_syndrome", "memory_array_error_address",
      "device_error_address", "error_resolution"}] @@ NoMembers

StructType19 ==
  [u8 |-> {"partition_width"},
   u16 |-> {"memory_array_handle"},
   u32 |-> {"starting_address", "ending_address"},
   u64 |->
     {"extended_starting_address", "extended_ending_address"}] @@
      NoMembers

StructType20 ==
  [u8 |->
     {"partition_row_position", "interleave_position",
      "interleaved_data_depth"},
   u16 |-> {"memory_device_handle", "memory_array_mapped_address_handle"},
   u32 |-> {"starting_address", "ending_address"},
   u64 |->
     {"extended_starting_address", "extended_ending_address"}] @@
      NoMembers

StructType21 ==
  [u8 |->
     {"pointing_device_type", "interface", "number_of_buttons"}] @@
      NoMembers

StructType22 ==
  [u8 |-> {"device_chemistry", "maximum_error", "design_capacity_multiplier"},
   u16 |->
     {"design_capacity", "design_voltage", "sbds_serial_number",
      "sbds_manufacture_date"},
   u32 |-> {"oem_specific"},
   text |->
     {"location", "manufacturer", "manufacture_date", "serial_number",
      "device_name", "sbds_version_number", "sbds_device_chemistry"},
   decoded |-> {"decoded.sbds_manufacture_date"}] @@ NoMembers

StructType23 ==
  [u8 |-> {"capabilities"},
   u16 |-> {"reset_count", "reset_limit", "timer_interval", "timeout"},
   decoded |-> {"decoded.capabilities"}] @@ NoMembers

StructType24 ==
  [u8 |-> {"hardware_security_settings"}] @@ NoMembers

StructType25 ==
  [u8 |->
     {"next_scheduled_power_on_month", "next_scheduled_power_on_day",
      "next_scheduled_power_on_hour", "next_scheduled_power_on_minute",
      "next_scheduled_power_on_second"},
   decoded |-> {"decoded.next_scheduled_power_on"}] @@ NoMembers

StructType26 ==
  [u8 |-> {"location_and_status"},
   u16 |->
     {"maximum_value", "minimum_value", "resolution", "tolerance",
      "accuracy", "nominal_value"},
   u32 |-> {"oem_defined"},
   text |-> {"description"}] @@ NoMembers

StructType27 ==
  [u8 |-> {"device_type_and_status", "cooling_unit_group"},
   u16 |-> {"temperature_probe_handle", "nominal_speed"},
   u32 |-> {"oem_defined"},
   text |-> {"description"}] @@ NoMembers

StructType28 ==
  [u8 |-> {"location_and_status"},
   u16 |->
     {"maximum_value", "resolution", "tolerance", "accuracy",
      "nominal_value", "minimum_value"},
   u32 |-> {"oem_defined"},
   text |-> {"description"}] @@ NoMembers

StructType29 ==
  [u8 |-> {"location_and_status"},
   u16 |->
     {"maximum_value", "minimum_value", "resolution", "tolerance",
      "accuracy", "nominal_value"},
   u32 |-> {"oem_defined"},
   text |-> {"description"}] @@ NoMembers

StructType30 ==
  [u8 |-> {"connections"},
   text |-> {"manufacturer_name"}] @@ NoMembers

StructType31 ==
  [u8 |-> {"checksum", "reserved_1", "checksum_valid"},
   u16 |-> {"reserved_2"},
   u32 |-> {"bis_entry_point_16", "bis_entry_point_32", "reserved_4"},
   u64 |-> {"reserved_3"}] @@ NoMembers

StructType32 ==
  [u8 |-> {"boot_status"},
   bytes |-> [reserved |-> 6],
   heap |-> [additional_data |-> 1],
   size |-> {"additional_data_size"}] @@ NoMembers

StructType33 ==
  [u8 |-> {"error_type", "error_granularity", "error_operation"},
   u32 |-> {"vendor_syndrome", "error_resolution"},
   u64 |->
     {"memory_array_error_address", "device_error_address"}] @@
      NoMembers

StructType34 ==
  [u8 |-> {"device_type", "address_type"},
   u32 |-> {"address"},
   text |-> {"description"}] @@ NoMembers

StructType35 ==
  [u16 |->
     {"management_device_handle", "component_handle",
      "threshold_handle"},
   text |-> {"description"}] @@ NoMembers

StructType36 ==
  [u16 |->
     {"lower_threshold_non_critical", "upper_threshold_non_critical",
      "lower_threshold_critical", "upper_threshold_critical",
      "lower_threshold_non_recoverable",
      "upper_threshold_non_recoverable"}] @@ NoMembers

StructType37 ==
  [u8 |-> {"channel_type", "maximum_channel_load", "memory_device_count"},
   heap |-> [memory_devices |-> 3]] @@ NoMembers

StructType38 ==
  [u8 |->
     {"interface_type", "ipmi_specification_revision",
      "i2c_target_address", "nv_storage_device_address",
      "base_address_modifier_interrupt_info", "interrupt_number"},
   u64 |-> {"base_address"},
   decoded |->
     {"decoded.ipmi_specification_revision",
      "decoded.base_address_modifier_interrupt_info"}] @@ NoMembers

StructType39 ==
  [u8 |-> {"power_unit_group"},
   u16 |->
     {"max_power_capacity", "power_supply_characteristics",
      "input_voltage_probe_handle", "cooling_device_handle",
      "input_current_probe_handle"},
   text |->
     {"location", "device_name", "manufacturer", "serial_number",
      "asset_tag_number", "model_part_number", "revision_level"},
   decoded |-> {"decoded.power_supply_characteristics"}] @@ NoMembers

StructType40 ==
  [u8 |-> {"additional_information_entry_count"},
   heap |-> [additional_information_entries |-> 6],
   each |->
     "additional_information_entries[]" :>
      "additional_information_entries"] @@ NoMembers

StructType41 ==
  [u8 |->
     {"device_type_and_status", "device_type_instance", "bus_number",
      "device_function_number"},
   u16 |-> {"segment_group_number"},
   text |-> {"reference_designation"},
   decoded |-> {"decoded.device_function_number"}] @@ NoMembers

StructType42 ==
  [u8 |->
     {"interface_type", "interface_type_specific_data_length",
      "number_of_protocol_records"},
   heap |-> [interface_type_specific_data |-> 1, protocol_records |-> 2],
   size |-> {"interface_type_specific_data_size"},
   each |-> "protocol_records[]" :> "protocol_records"] @@ NoMembers

StructType43 ==
  [u8 |-> {"major_spec_version", "minor_spec_version"},
   u32 |-> {"firmware_version_1", "firmware_version_2", "oem_defined"},
   u64 |-> {"characteristics"},
   bytes |-> [vendor_id |-> 4],
   text |-> {"description"},
   decoded |->
     {"decoded.major_spec_version", "decoded.characteristics"}] @@
      NoMembers

StructType44 ==
  [u8 |-> {"block_length", "processor_type"},
   u16 |-> {"referenced_handle"},
   heap |-> [processor_specific_data |-> 1]] @@ NoMembers

StructType45 ==
  [u8 |->
     {"version_format", "firmware_id_format", "state",
      "number_of_associated_components"},
   u16 |-> {"characteristics"},
   u64 |-> {"image_size"},
   text |->
     {"firmware_component_name", "firmware_version", "firmware_id",
      "release_date", "manufacturer",
      "lowest_supported_firmware_version"},
   heap |-> [associated_component_handles |-> 2],
   decoded |-> {"decoded.characteristics"}] @@ NoMembers

StructType46 ==
  [u16 |-> {"string_property_id", "parent_handle"},
   text |-> {"string_property_value"}] @@ NoMembers

StructHpType204 ==
  [u8 |-> {"enclosure_bays", "bays_filled"},
   text |->
     {"rack_name", "enclosure_name", "enclosure_model",
      "enclosure_serial", "server_bay"}] @@ NoMembers

StructDellType177 ==
  [u64 |-> {"bios_flags"},
   size |-> {"acpi_wmi_supported"}] @@ NoMembers

StructDellType212 ==
  [u8 |-> {"checksum_type", "start_index", "end_index", "value_index"},
   u16 |-> {"index_port", "data_port"},
   heap |-> [tokens |-> 5],
   size |-> {"token_count"}] @@ NoMembers

StructDellType218 ==
  [u8 |-> {"command_io_code"},
   u16 |-> {"command_io_address"},
   u32 |-> {"supported_command_classes_bitmap"},
   heap |-> [tokens |-> 6],
   size |-> {"token_count"}] @@ NoMembers

-----------------------------------------------------------------------------
Structs ==
  [Type0 |-> StructType0, Type1 |-> StructType1, Type2 |-> StructType2,
   Type3 |-> StructType3, Type4 |-> StructType4, Type5 |-> StructType5,
   Type6 |-> StructType6, Type7 |-> StructType7, Type8 |-> StructType8,
   Type9 |-> StructType9, Type10 |-> StructType10, Type11 |-> StructType11,
   Type12 |-> StructType12, Type13 |-> StructType13, Type14 |-> StructType14,
   Type15 |-> StructType15, Type16 |-> StructType16, Type17 |-> StructType17,
   Type18 |-> StructType18, Type19 |-> StructType19, Type20 |-> StructType20,
   Type21 |-> StructType21, Type22 |-> StructType22, Type23 |-> StructType23,
   Type24 |-> StructType24, Type25 |-> StructType25, Type26 |-> StructType26,
   Type27 |-> StructType27, Type28 |-> StructType28, Type29 |-> StructType29,
   Type30 |-> StructType30, Type31 |-> StructType31, Type32 |-> StructType32,
   Type33 |-> StructType33, Type34 |-> StructType34, Type35 |-> StructType35,
   Type36 |-> StructType36, Type37 |-> StructType37, Type38 |-> StructType38,
   Type39 |-> StructType39, Type40 |-> StructType40, Type41 |-> StructType41,
   Type42 |-> StructType42, Type43 |-> StructType43, Type44 |-> StructType44,
   Type45 |-> StructType45, Type46 |-> StructType46,
   HpType204 |-> StructHpType204, DellType177 |-> StructDellType177,
   DellType212 |-> StructDellType212, DellType218 |-> StructDellType218]

Members(s) ==
  s.u8 \union s.u16 \union s.u32 \union s.u64 \union DOMAIN s.bytes
    \union s.text \union DOMAIN s.heap \union s.size

(* The bytes a member stands for in the table; 0 for what is not there. *)
Bytewide(s, x) ==
  CASE x \in s.u8 \union s.text -> 1
    [] x \in s.u16 -> 2
    [] x \in s.u32 -> 4
    [] x \in s.u64 -> 8
    [] x \in DOMAIN s.bytes -> s.bytes[x]
    [] x \in DOMAIN s.heap  -> s.heap[x]
    [] OTHER -> 0

(* The blocks a record may own besides itself. *)
Blocks(s) == DOMAIN s.heap \union s.decoded \union DOMAIN s.each

=============================================================================
