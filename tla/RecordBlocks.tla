---------------------------- MODULE RecordBlocks ----------------------------
(***************************************************************************)
(* The blocks lazybiosGetTypeN allocates for one record, in the order of   *)
(* the code, and those lazybiosFreeTypeN frees again, in its order.  A     *)
(* block is named after the member that points to it; "x[]" stands for     *)
(* the blocks the elements of the array x point to.  The other types have  *)
(* no block besides the records themselves.                                *)
(***************************************************************************)
EXTENDS Sequences

(* The getter gives up when it cannot have this block. *)
Must(block) == [block |-> block, fatal |-> TRUE]

(* The getter goes on without it. *)
May(block) == [block |-> block, fatal |-> FALSE]

(* The array whose elements point to these blocks; "" for the others, which *)
(* the record itself points to.                                            *)
Holder(block) ==
  IF block = "peer_groups[]" THEN "peer_groups"
  ELSE IF block = "protocol_records[]" THEN "protocol_records"
  ELSE IF block = "decoded.contained_elements[]"
    THEN "decoded.contained_elements"
  ELSE IF block = "additional_information_entries[]"
    THEN "additional_information_entries"
  ELSE ""

AllocsType0 ==
  << May("firmware_char_ext_bytes"), May("decoded.characteristics"),
     May("decoded.characteristics_ext_byte1"),
     May("decoded.characteristics_ext_byte2") >>

FreesType0 ==
  << "decoded.characteristics", "decoded.characteristics_ext_byte1",
     "decoded.characteristics_ext_byte2", "firmware_char_ext_bytes" >>

AllocsType2 ==
  << May("contained_object_handles"), May("decoded.feature_flags") >>

FreesType2 ==
  << "decoded.feature_flags", "contained_object_handles" >>

AllocsType3 ==
  << May("contained_elements"), May("decoded.contained_elements"),
     May("decoded.contained_elements[]"), May("decoded.type") >>

FreesType3 ==
  << "decoded.type", "decoded.contained_elements[]",
     "decoded.contained_elements", "contained_elements" >>

AllocsType4 ==
  << May("decoded.voltage"), May("decoded.status"),
     May("decoded.processor_characteristics") >>

FreesType4 ==
  << "decoded.voltage", "decoded.status",
     "decoded.processor_characteristics" >>

AllocsType5 ==
  << Must("memory_module_configuration_handles"),
     May("decoded.error_correcting_capability"),
     May("decoded.enabled_error_correcting_capabilities"),
     May("decoded.supported_speeds"), May("decoded.supported_memory_types"),
     May("decoded.memory_module_voltage") >>

FreesType5 ==
  << "decoded.error_correcting_capability", "decoded.supported_speeds",
     "decoded.supported_memory_types", "decoded.memory_module_voltage",
     "decoded.enabled_error_correcting_capabilities",
     "memory_module_configuration_handles" >>

AllocsType6 ==
  << May("decoded.bank_connections"), May("decoded.current_memory_type"),
     May("decoded.installed_size"), May("decoded.enabled_size"),
     May("decoded.error_status") >>

FreesType6 ==
  << "decoded.bank_connections", "decoded.current_memory_type",
     "decoded.installed_size", "decoded.enabled_size",
     "decoded.error_status" >>

AllocsType7 ==
  << May("decoded.cache_configuration"),
     May("decoded.supported_sram_type") >>

FreesType7 ==
  << "decoded.cache_configuration", "decoded.supported_sram_type" >>

AllocsType9 ==
  << Must("peer_groups"), May("peer_groups[]"),
     May("decoded.slot_characteristics_1"),
     May("decoded.slot_characteristics_2"),
     May("decoded.device_function_number") >>

FreesType9 ==
  << "decoded.slot_characteristics_1", "decoded.slot_characteristics_2",
     "decoded.device_function_number", "peer_groups[]", "peer_groups" >>

AllocsType10 ==
  << Must("devices") >>

FreesType10 ==
  << "devices" >>

AllocsType11 ==
  << Must("strings") >>

FreesType11 ==
  << "strings" >>

AllocsType12 ==
  << Must("options") >>

FreesType12 ==
  << "options" >>

AllocsType13 ==
  << Must("languages") >>

FreesType13 ==
  << "languages" >>

AllocsType14 ==
  << Must("items") >>

FreesType14 ==
  << "items" >>

AllocsType15 ==
  << Must("supported_log_type_descriptors"), May("decoded.log_status") >>

FreesType15 ==
  << "decoded.log_status", "supported_log_type_descriptors" >>

AllocsType17 ==
  << May("decoded.type_detail"), May("decoded.extended_size"),
     May("decoded.memory_operating_mode_capability"),
     May("decoded.module_manufacturer_id"), May("decoded.non_volatile_size"),
     May("decoded.volatile_size"), May("decoded.cache_size"),
     May("decoded.extended_speed"), May("decoded.pmic0_manufacturer_id"),
     May("decoded.pmic0_revision_number"),
     May("decoded.rcd_manufacturer_id"),
     May("decoded.rcd_revision_number") >>

FreesType17 ==
  << "decoded.type_detail", "decoded.extended_size",
     "decoded.memory_operating_mode_capability",
     "decoded.module_manufacturer_id", "decoded.non_volatile_size",
     "decoded.volatile_size", "decoded.cache_size", "decoded.extended_speed",
     "decoded.pmic0_manufacturer_id", "decoded.pmic0_revision_number",
     "decoded.rcd_manufacturer_id", "decoded.rcd_revision_number" >>

AllocsType22 ==
  << May("decoded.sbds_manufacture_date") >>

FreesType22 ==
  << "decoded.sbds_manufacture_date" >>

AllocsType23 ==
  << May("decoded.capabilities") >>

FreesType23 ==
  << "decoded.capabilities" >>

AllocsType25 ==
  << May("decoded.next_scheduled_power_on") >>

FreesType25 ==
  << "decoded.next_scheduled_power_on" >>

AllocsType32 ==
  << Must("additional_data") >>

FreesType32 ==
  << "additional_data" >>

AllocsType37 ==
  << Must("memory_devices") >>

FreesType37 ==
  << "memory_devices" >>

AllocsType38 ==
  << May("decoded.ipmi_specification_revision"),
     May("decoded.base_address_modifier_interrupt_info") >>

FreesType38 ==
  << "decoded.ipmi_specification_revision",
     "decoded.base_address_modifier_interrupt_info" >>

AllocsType39 ==
  << May("decoded.power_supply_characteristics") >>

FreesType39 ==
  << "decoded.power_supply_characteristics" >>

AllocsType40 ==
  << Must("additional_information_entries"),
     Must("additional_information_entries[]") >>

FreesType40 ==
  << "additional_information_entries[]", "additional_information_entries" >>

AllocsType41 ==
  << May("decoded.device_function_number") >>

FreesType41 ==
  << "decoded.device_function_number" >>

AllocsType42 ==
  << Must("interface_type_specific_data"), Must("protocol_records"),
     Must("protocol_records[]") >>

FreesType42 ==
  << "interface_type_specific_data", "protocol_records[]",
     "protocol_records" >>

AllocsType43 ==
  << May("decoded.major_spec_version"), May("decoded.characteristics") >>

FreesType43 ==
  << "decoded.major_spec_version", "decoded.characteristics" >>

AllocsType44 ==
  << Must("processor_specific_data") >>

FreesType44 ==
  << "processor_specific_data" >>

AllocsType45 ==
  << Must("associated_component_handles"), May("decoded.characteristics") >>

FreesType45 ==
  << "decoded.characteristics", "associated_component_handles" >>

AllocsDellType212 ==
  << May("tokens") >>

FreesDellType212 ==
  << "tokens" >>

AllocsDellType218 ==
  << May("tokens") >>

FreesDellType218 ==
  << "tokens" >>

-----------------------------------------------------------------------------
AllocsOf ==
  [Type0 |-> AllocsType0, Type2 |-> AllocsType2, Type3 |-> AllocsType3,
   Type4 |-> AllocsType4, Type5 |-> AllocsType5, Type6 |-> AllocsType6,
   Type7 |-> AllocsType7, Type9 |-> AllocsType9, Type10 |-> AllocsType10,
   Type11 |-> AllocsType11, Type12 |-> AllocsType12, Type13 |-> AllocsType13,
   Type14 |-> AllocsType14, Type15 |-> AllocsType15, Type17 |-> AllocsType17,
   Type22 |-> AllocsType22, Type23 |-> AllocsType23, Type25 |-> AllocsType25,
   Type32 |-> AllocsType32, Type37 |-> AllocsType37, Type38 |-> AllocsType38,
   Type39 |-> AllocsType39, Type40 |-> AllocsType40, Type41 |-> AllocsType41,
   Type42 |-> AllocsType42, Type43 |-> AllocsType43, Type44 |-> AllocsType44,
   Type45 |-> AllocsType45, DellType212 |-> AllocsDellType212,
   DellType218 |-> AllocsDellType218]

FreesOf ==
  [Type0 |-> FreesType0, Type2 |-> FreesType2, Type3 |-> FreesType3,
   Type4 |-> FreesType4, Type5 |-> FreesType5, Type6 |-> FreesType6,
   Type7 |-> FreesType7, Type9 |-> FreesType9, Type10 |-> FreesType10,
   Type11 |-> FreesType11, Type12 |-> FreesType12, Type13 |-> FreesType13,
   Type14 |-> FreesType14, Type15 |-> FreesType15, Type17 |-> FreesType17,
   Type22 |-> FreesType22, Type23 |-> FreesType23, Type25 |-> FreesType25,
   Type32 |-> FreesType32, Type37 |-> FreesType37, Type38 |-> FreesType38,
   Type39 |-> FreesType39, Type40 |-> FreesType40, Type41 |-> FreesType41,
   Type42 |-> FreesType42, Type43 |-> FreesType43, Type44 |-> FreesType44,
   Type45 |-> FreesType45, DellType212 |-> FreesDellType212,
   DellType218 |-> FreesDellType218]

Allocs(type) == IF type \in DOMAIN AllocsOf THEN AllocsOf[type] ELSE <<>>
Frees(type)  == IF type \in DOMAIN FreesOf THEN FreesOf[type] ELSE <<>>

BlocksOf(type) == {Allocs(type)[k].block : k \in DOMAIN Allocs(type)}

=============================================================================
