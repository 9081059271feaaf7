----------------------------- MODULE RecordJson -----------------------------
(***************************************************************************)
(* What lazybiosExtJSONAddTypeN writes of a parsed record.                 *)
(*                                                                         *)
(* A record becomes a JSON object with a nested object "decoded".  A write *)
(* says which key of which of the two a member is written under, and what  *)
(* is written when the member is not PRESENT; TypeNJson is the set of the  *)
(* writes of one type, besides the handle and the length.  Written gives   *)
(* the keys that result for a record r (see module Fields) with a status   *)
(* for each of its members.                                                *)
(***************************************************************************)
EXTENDS Fields, TLC

Write ==
  [of |-> "",             \* the member whose status decides
   shows |-> "",          \* the member whose value is written
   in |-> "record",       \* the object the value goes to, under the key
   key |-> "",
   form |-> "raw",        \* the encoding itself, a "text", or "decoded"
   second |-> "",         \* the member to fall back to
   silent |-> "both",     \* UNREACHABLE members that silence a fallback
   gap |-> "record",      \* the object a null goes to, under gapKey
   gapKey |-> "",
   absent |-> "null", unreachable |-> "null",   \* written then
   count |-> "",          \* an array of that many elements
   none |-> "empty",      \* written for no elements
   oddKey |-> "",         \* the key of a value that is special
   needs |-> 0]           \* bytes of the record behind the value

Forms(S, form, in, gap) ==
  {[Write EXCEPT !.of = x, !.shows = x, !.key = x, !.gapKey = x,
                 !.form = form, !.in = in, !.gap = gap] : x \in S}

(* The value of the member, or null. *)
Raw(S)   == Forms(S, "raw", "record", "record")

(* A text or an adjusted number made of it. *)
Text(S)  == Forms(S, "text", "record", "record")

(* The decoded value, beside the encoded ones. *)
Worked(S) == Forms(S, "decoded", "record", "record")

(* cjson_add_str: a string pointer, "" when it is NULL. *)
Plain(S) == {[w EXCEPT !.absent = "empty", !.unreachable = "empty"] :
               w \in Raw(S)}

(* The decoded name of the value, or a null beside the value's own. *)
Named(S) == Forms(S, "decoded", "decoded", "record")

(* The decoded name of the value, or a null in its place. *)
Label(S) == Forms(S, "decoded", "decoded", "decoded")

(* Nothing at all for an UNREACHABLE member. *)
Quiet(W) == {[w EXCEPT !.unreachable = "nothing"] : w \in W}

(* Nothing at all unless the member is PRESENT. *)
Rarely(W) == {[w EXCEPT !.absent = "nothing"] : w \in Quiet(W)}

(* An array of `count` elements; `none` is written for an array of none. *)
Listed(count, none, W) ==
  {[w EXCEPT !.count = count, !.none = none] : w \in W}

As(key, W)     == {[w EXCEPT !.key = key, !.gapKey = key] : w \in W}
Odd(key, W)    == {[w EXCEPT !.oddKey = key] : w \in W}
GapAs(key, W)  == {[w EXCEPT !.gapKey = key] : w \in W}

(* The value of another member. *)
Instead(shown, W) == {[w EXCEPT !.shows = shown, !.key = shown] : w \in W}

(* The second member when the first is not PRESENT. *)
Preferred(second, silent, W) ==
  {[w EXCEPT !.second = second, !.silent = silent] : w \in W}

(* "" or an empty array when the record is shorter than that. *)
Behind(needs, W) == {[w EXCEPT !.needs = needs] : w \in W}

-----------------------------------------------------------------------------
(* The types.                                                              *)

Type0Json ==
  Plain({"vendor", "version", "release_date"})
  \union Raw({"bios_starting_segment", "extended_rom_size",
              "platform_major_release", "platform_minor_release",
              "ec_major_release", "ec_minor_release"})
  \union Label({"characteristics"})
  \union As("characteristics_ext_byte1",
           Behind(19, Named({"firmware_char_ext_bytes"})))
  \union As("characteristics_ext_byte2",
           Behind(20, Named({"firmware_char_ext_bytes"})))
  \union As("rom_size",
           Preferred("rom_size", "both", Text({"extended_rom_size"})))

Type1Json ==
  Plain({"manufacturer", "product_name", "version", "serial_number"})
  \union Raw({"wake_up_type", "uuid", "sku_number", "family"})
  \union Named({"wake_up_type"})

Type2Json ==
  Raw({"manufacturer", "product", "version", "serial_number", "asset_tag",
       "location_in_chassis", "chassis_handle", "board_type"})
  \union Label({"feature_flags"}) \union Named({"board_type"})
  \union Listed("number_of_contained_object_handles", "null",
                Raw({"contained_object_handles"}))

Type3Json ==
  Raw({"manufacturer", "version", "serial_number", "asset_tag",
       "boot_up_state", "power_supply_state", "thermal_state",
       "security_status", "oem_defined", "height", "number_of_power_cords",
       "sku_number", "rack_type", "rack_height"})
  \union Label({"type"})
  \union Named({"boot_up_state", "power_supply_state", "thermal_state",
                "security_status"})
  \union Listed("contained_element_count", "null",
                Raw({"contained_elements"}))

(* Three counts of a processor have a wider member to replace them. *)
Type4Counts ==
  As("core_count", Preferred("core_count", "either", Raw({"core_count_2"})))
  \union As("core_enabled",
           Preferred("core_enabled", "either", Raw({"core_enabled_2"})))
  \union As("thread_count",
           Preferred("thread_count", "either", Raw({"thread_count_2"})))

Type4Json ==
  Raw({"socket_designation", "processor_type", "processor_family",
       "processor_manufacturer", "processor_id", "processor_version",
       "processor_upgrade", "l1_cache_handle", "l2_cache_handle",
       "l3_cache_handle", "serial_number", "asset_tag", "part_number",
       "processor_family_2", "thread_enabled", "socket_type"})
  \union As("external_clock_mhz", Raw({"external_clock"}))
  \union As("max_speed_mhz", Raw({"max_speed"}))
  \union As("current_speed_mhz", Raw({"current_speed"}))
  \union Named({"processor_type", "processor_upgrade"})
  \union Label({"voltage", "status", "processor_characteristics"})
  \union GapAs("processor_family",
           Preferred("processor_family", "either",
                     Named({"processor_family_2"})))
  \union Type4Counts

Type5Json ==
  Raw({"error_detecting_method", "supported_interleave",
       "current_interleave", "number_of_associated_memory_slots"})
  \union Text({"maximum_memory_module_size"})
  \union Named({"error_detecting_method", "supported_interleave",
                "current_interleave"})
  \union Label({"error_correcting_capability", "supported_speeds",
                "supported_memory_types", "memory_module_voltage"})
  \union Listed("number_of_associated_memory_slots", "empty",
                Quiet(Raw({"memory_module_configuration_handles"})))
  \union Instead("error_correcting_capability",
                 Label({"enabled_error_correcting_capabilities"}))

Type6Json ==
  Raw({"socket_designation"}) \union Text({"current_speed"})
  \union Label({"bank_connections", "current_memory_type", "installed_size",
                "enabled_size", "error_status"})

Type7Json ==
  Raw({"socket_designation", "maximum_cache_size", "installed_size",
       "error_correction_type", "system_cache_type", "associativity",
       "maximum_cache_size_2", "installed_cache_size_2"})
  \union Text({"cache_speed"})
  \union Label({"cache_configuration", "supported_sram_type"})
  \union Instead("supported_sram_type", Named({"current_sram_type"}))
  \union Named({"error_correction_type", "system_cache_type",
                "associativity"})
  \union As("maximum_cache_size_kb",
           Preferred("maximum_cache_size", "both",
                     Worked({"maximum_cache_size_2"})))
  \union As("installed_cache_size_kb",
           Preferred("installed_size", "both",
                     Worked({"installed_cache_size_2"})))

Type8Json ==
  LET types == {"internal_connector_type", "external_connector_type",
                "port_type"}
  IN  Raw({"internal_reference_designator", "external_reference_designator"}
            \union types)
      \union Named(types)

(* A slot that says it has no peers gets no array of them. *)
Type9Json ==
  LET names == {"slot_type", "slot_data_bus_width", "current_usage",
                "slot_length", "slot_physical_width", "slot_height"}
  IN  Raw({"slot_designation", "slot_id", "segment_group_number",
           "bus_number", "data_bus_width"} \union names)
      \union Named(names) \union Text({"slot_pitch"})
      \union Label({"slot_characteristics_1", "slot_characteristics_2"})
      \union GapAs("device_function", Named({"device_function_number"}))
      \union Listed("peer_grouping_count", "nothing",
                    Quiet(Raw({"peer_groups"})))

Type10Json == Behind(6, Quiet(Raw({"devices"})))

Type11Json ==
  Raw({"string_count"})
  \union Listed("string_count", "empty", Quiet(Raw({"strings"})))

Type12Json ==
  Raw({"option_count"})
  \union Listed("option_count", "empty", Quiet(Raw({"options"})))

Type13Json ==
  Plain({"current_language"}) \union Raw({"flags", "installable_languages"})
  \union GapAs("language_description_format", Named({"flags"}))
  \union Listed("installable_languages", "empty",
                Quiet(Raw({"languages"})))

Type14Json ==
  Plain({"group_name"}) \union Raw({"item_count"})
  \union Behind(8, Quiet(Raw({"items"})))

Type15Json ==
  Raw({"log_area_length", "log_header_start_offset",
       "log_data_start_offset", "access_method", "log_change_token",
       "access_method_address", "log_header_format"})
  \union Named({"access_method", "log_header_format"})
  \union Label({"log_status"})
  \union As("supported_log_type_descriptor_count",
            Raw({"number_of_supported_log_type_descriptors"}))
  \union As("log_type_descriptor_length",
            Raw({"length_of_each_log_type_descriptor"}))
  \union Listed("number_of_supported_log_type_descriptors", "empty",
                Quiet(Raw({"supported_log_type_descriptors"})))

Type16Json ==
  LET names == {"location", "use", "memory_error_correction"}
  IN  Raw({"maximum_capacity", "number_of_memory_devices",
           "extended_maximum_capacity"} \union names)
      \union Named(names)
      \union Text({"memory_error_information_handle"})
      \union As("maximum_capacity_bytes", Worked({"maximum_capacity"}))

Type17From21Json ==
  LET names == {"form_factor", "memory_type"}
  IN  Raw({"physical_memory_array_handle",
           "memory_error_information_handle", "device_set"} \union names)
      \union Named(names) \union Text({"size"}) \union Label({"type_detail"})
      \union Plain({"device_locator", "bank_locator", "manufacturer",
                    "serial_number", "asset_tag", "part_number"})
      \union As("total_width_bits", Text({"total_width"}))
      \union As("data_width_bits", Text({"data_width"}))
      \union As("speed_mts", Text({"speed"}))
      \union As("ranks", Text({"attributes"}))

Type17From27Json ==
  Raw({"memory_technology"}) \union Named({"memory_technology"})
  \union Plain({"firmware_version"})
  \union As("configured_memory_speed_mts", Text({"configured_memory_speed"}))
  \union As("minimum_voltage_mv", Raw({"minimum_voltage"}))
  \union As("maximum_voltage_mv", Raw({"maximum_voltage"}))
  \union As("configured_voltage_mv", Raw({"configured_voltage"}))
  \union As("logical_size_bytes", Raw({"logical_size"}))
  \union Label({"extended_size", "memory_operating_mode_capability",
                "module_manufacturer_id", "non_volatile_size",
                "volatile_size", "cache_size", "extended_speed",
                "pmic0_manufacturer_id", "pmic0_revision_number",
                "rcd_manufacturer_id", "rcd_revision_number"})
  \union Instead("module_manufacturer_id",
           Named({"module_product_id",
                  "memory_subsystem_controller_manufacturer_id",
                  "memory_subsystem_controller_product_id"}))
  \union Instead("extended_speed",
                 Named({"extended_configured_memory_speed"}))

Type17Json == Type17From21Json \union Type17From27Json

(* The error's place and extent, or "Unknown" for a value that says so. *)
ErrorJson ==
  LET names == {"error_type", "error_granularity", "error_operation"}
  IN  Raw(names) \union Named(names)
      \union Text({"vendor_syndrome", "memory_array_error_address",
                   "device_error_address"})
      \union Odd("error_resolution",
                 As("error_resolution_bytes", Text({"error_resolution"})))

Type18Json == ErrorJson

Type19Json ==
  Raw({"starting_address", "ending_address", "memory_array_handle",
       "partition_width", "extended_starting_address",
       "extended_ending_address"})
  \union As("starting_address_bytes", Worked({"starting_address"}))
  \union As("ending_address_bytes", Worked({"ending_address"}))

Type20Json ==
  Raw({"starting_address", "ending_address", "memory_device_handle",
       "memory_array_mapped_address_handle", "partition_row_position",
       "interleave_position", "interleaved_data_depth",
       "extended_starting_address", "extended_ending_address"})
  \union As("starting_address_bytes", Worked({"starting_address"}))
  \union As("ending_address_bytes", Worked({"ending_address"}))

Type21Json ==
  Raw({"pointing_device_type", "interface", "number_of_buttons"})
  \union Named({"pointing_device_type", "interface"})

Type22Json ==
  Raw({"location", "manufacturer", "manufacture_date", "serial_number",
       "device_name", "device_chemistry", "design_capacity",
       "design_voltage", "sbds_version_number", "sbds_serial_number",
       "sbds_manufacture_date", "sbds_device_chemistry",
       "design_capacity_multiplier", "oem_specific"})
  \union As("maximum_error_percent", Raw({"maximum_error"}))
  \union Named({"device_chemistry"})

Type23Json ==
  Raw({"capabilities", "reset_count", "reset_limit", "timer_interval",
       "timeout"})

Type24Json == Raw({"hardware_security_settings"})

Type25Json ==
  Raw({"next_scheduled_power_on_month", "next_scheduled_power_on_hour",
       "next_scheduled_power_on_minute", "next_scheduled_power_on_second"})
  \union As("next_scheduled_power_on_day_of_month",
            Raw({"next_scheduled_power_on_day"}))

(* One byte that holds two values, each with a decoded name. *)
TwoNames(x, first, second, gap) ==
  Quiet(As(first, Named({x})) \union GapAs(gap, As(second, Label({x}))))

ProbeJson ==
  Raw({"description", "maximum_value", "minimum_value", "resolution",
       "tolerance", "accuracy", "oem_defined", "nominal_value"})
  \union TwoNames("location_and_status", "location", "status", "status")

Type26Json == ProbeJson

Type27Json ==
  Raw({"temperature_probe_handle", "cooling_unit_group", "oem_defined",
       "nominal_speed", "description"})
  \union TwoNames("device_type_and_status", "device_type", "status", "status")

Type28Json == ProbeJson

Type29Json == ProbeJson

Type30Json == Raw({"manufacturer_name", "connections"})

Type31Json ==
  Raw({"checksum", "bis_entry_point_16", "bis_entry_point_32"})
  \union As("reserved1", Raw({"reserved_1"}))
  \union As("reserved2", Raw({"reserved_2"}))

Type32Json ==
  Raw({"boot_status"}) \union Named({"boot_status"})
  \union Rarely(Raw({"reserved"}))

Type33Json == ErrorJson

Type34Json ==
  Raw({"description", "device_type", "address", "address_type"})
  \union Named({"device_type", "address_type"})

Type35Json ==
  Raw({"description", "management_device_handle", "component_handle",
       "threshold_handle"})

Type36Json ==
  Raw({"lower_threshold_non_critical", "upper_threshold_non_critical",
       "lower_threshold_critical", "upper_threshold_critical",
       "lower_threshold_non_recoverable",
       "upper_threshold_non_recoverable"})

Type37Json ==
  Raw({"channel_type", "maximum_channel_load", "memory_device_count"})
  \union Named({"channel_type"})
  \union Listed("memory_device_count", "nothing",
                Rarely(Raw({"memory_devices"})))

Type38Json ==
  Raw({"interface_type", "ipmi_specification_revision",
       "i2c_target_address", "nv_storage_device_address", "base_address",
       "base_address_modifier_interrupt_info", "interrupt_number"})
  \union Named({"interface_type"})

Type39Json ==
  Raw({"power_unit_group", "location", "device_name", "manufacturer",
       "serial_number", "asset_tag_number", "model_part_number",
       "revision_level", "max_power_capacity",
       "power_supply_characteristics", "input_voltage_probe_handle",
       "cooling_device_handle", "input_current_probe_handle"})

Type40Json ==
  Raw({"additional_information_entry_count"})
  \union Listed("additional_information_entry_count", "nothing",
                Rarely(Raw({"additional_information_entries"})))

Type41Json ==
  Raw({"reference_designation", "device_type_instance",
       "segment_group_number", "bus_number", "device_function_number"})
  \union TwoNames("device_type_and_status", "device_type", "device_status",
                  "status")

Type42Json ==
  Raw({"interface_type"}) \union Named({"interface_type"})
  \union Listed("interface_type_specific_data_length", "nothing",
                Rarely(Raw({"interface_type_specific_data"})))
  \union Listed("number_of_protocol_records", "nothing",
                Rarely(Raw({"protocol_records"})))

Type43Json ==
  Raw({"vendor_id", "major_spec_version", "minor_spec_version",
       "firmware_version_1", "firmware_version_2", "description",
       "characteristics", "oem_defined"})

Type44Json ==
  Raw({"referenced_handle", "processor_type"})
  \union Named({"processor_type"})
  \union Listed("block_length", "nothing",
                Rarely(Raw({"processor_specific_data"})))

Type45Json ==
  LET names == {"version_format", "firmware_id_format", "state"}
  IN  Raw({"firmware_component_name", "firmware_version", "firmware_id",
           "release_date", "manufacturer",
           "lowest_supported_firmware_version", "image_size",
           "characteristics"} \union names)
      \union Named(names)
      \union Listed("number_of_associated_components", "nothing",
                    Rarely(Raw({"associated_component_handles"})))

Type46Json ==
  Raw({"string_property_id", "string_property_value", "parent_handle"})
  \union Named({"string_property_id"})

DellType177Json == Raw({"bios_flags"}) \union Label({"acpi_wmi_supported"})

DellType212Json ==
  Raw({"index_port", "data_port", "checksum_type", "start_index",
       "end_index", "value_index"})
  \union Label({"checksum_type"}) \union Quiet(Raw({"tokens"}))

DellType218Json ==
  Raw({"command_io_address", "command_io_code",
       "supported_command_classes_bitmap"})
  \union Quiet(Raw({"tokens"}))

HpType204Json ==
  Raw({"rack_name", "enclosure_name", "enclosure_model", "enclosure_bays",
       "enclosure_serial", "server_bay", "bays_filled"})

-----------------------------------------------------------------------------
Jsons ==
  [Type0 |-> Type0Json, Type1 |-> Type1Json, Type2 |-> Type2Json,
   Type3 |-> Type3Json, Type4 |-> Type4Json, Type5 |-> Type5Json,
   Type6 |-> Type6Json, Type7 |-> Type7Json, Type8 |-> Type8Json,
   Type9 |-> Type9Json, Type10 |-> Type10Json, Type11 |-> Type11Json,
   Type12 |-> Type12Json, Type13 |-> Type13Json, Type14 |-> Type14Json,
   Type15 |-> Type15Json, Type16 |-> Type16Json, Type17 |-> Type17Json,
   Type18 |-> Type18Json, Type19 |-> Type19Json, Type20 |-> Type20Json,
   Type21 |-> Type21Json, Type22 |-> Type22Json, Type23 |-> Type23Json,
   Type24 |-> Type24Json, Type25 |-> Type25Json, Type26 |-> Type26Json,
   Type27 |-> Type27Json, Type28 |-> Type28Json, Type29 |-> Type29Json,
   Type30 |-> Type30Json, Type31 |-> Type31Json, Type32 |-> Type32Json,
   Type33 |-> Type33Json, Type34 |-> Type34Json, Type35 |-> Type35Json,
   Type36 |-> Type36Json, Type37 |-> Type37Json, Type38 |-> Type38Json,
   Type39 |-> Type39Json, Type40 |-> Type40Json, Type41 |-> Type41Json,
   Type42 |-> Type42Json, Type43 |-> Type43Json, Type44 |-> Type44Json,
   Type45 |-> Type45Json, Type46 |-> Type46Json,
   DellType177 |-> DellType177Json, DellType212 |-> DellType212Json,
   DellType218 |-> DellType218Json, HpType204 |-> HpType204Json]

-----------------------------------------------------------------------------
(* The keys of a record.                                                   *)

Sources(w) == {w.of, w.second} \ {""}

(* Mutant: the wider member decides even when it is not PRESENT. *)
AnswerWidest(L, w, status, r) ==
  LET said == {status[w.of]}
  IN  IF PRESENT \in said
        THEN IF w.count \in DOMAIN L /\ r.value[w.count] = 0 THEN w.none
             ELSE IF r.length < w.needs THEN "empty"
             ELSE "value"
      ELSE IF said = {UNREACHABLE} THEN w.unreachable ELSE w.absent

(* What is written: the value, nothing, or something in its place. *)
Answer(L, w, status, r) ==
  LET said == {status[x] : x \in Sources(w)}
  IN  IF PRESENT \in said
        THEN IF w.count \in DOMAIN L /\ r.value[w.count] = 0 THEN w.none
             ELSE IF r.length < w.needs THEN "empty"
             ELSE "value"
      ELSE IF w.second # ""
        THEN IF \/ said = {UNREACHABLE}
                \/ w.silent = "either" /\ UNREACHABLE \in said
             THEN "nothing" ELSE "null"
      ELSE IF said = {UNREACHABLE} THEN w.unreachable ELSE w.absent

(* The member whose value it is. *)
Shown(w, status) == IF status[w.of] = PRESENT THEN w.shows ELSE w.second

ValueKey(w, status, r) ==
  IF w.oddKey # "" /\ w.of \in r.special THEN w.oddKey
  ELSE IF w.second # "" /\ w.key = w.of THEN Shown(w, status)
  ELSE w.key

(* Mutant: a decoded value goes to the record's own object. *)
EntryUndecoded(L, w, status, r) ==
  LET says == Answer(L, w, status, r)
  IN  [says |-> says, of |-> w.of, form |-> w.form,
       in |-> IF says = "value" THEN "record" ELSE w.gap,
       key |-> IF says = "value" THEN ValueKey(w, status, r) ELSE w.gapKey,
       shows |-> IF says = "value" THEN Shown(w, status) ELSE ""]

Entry(L, w, status, r) ==
  LET says == Answer(L, w, status, r)
  IN  [says |-> says, of |-> w.of, form |-> w.form,
       in |-> IF says = "value" THEN w.in ELSE w.gap,
       key |-> IF says = "value" THEN ValueKey(w, status, r) ELSE w.gapKey,
       shows |-> IF says = "value" THEN Shown(w, status) ELSE ""]

Written(W, L, status, r) ==
  {Entry(L, w, status, r) :
     w \in {v \in W : Answer(L, v, status, r) # "nothing"}}

=============================================================================
