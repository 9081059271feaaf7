---------------------------- MODULE RecordExport ----------------------------
(***************************************************************************)
(* From the table to JSON: what lazybiosExtJSONAddTypeN writes of the      *)
(* record that lazybiosGetTypeN parsed.                                    *)
(***************************************************************************)
EXTENDS RecordParse, RecordJson

VARIABLE json     \* the keys of the record's object

(* The keys a write may put a value under. *)
ValueKeys(w) ==
  {w.key} \union ({w.oddKey} \ {""})
  \union (IF w.second # "" /\ w.key = w.of THEN {w.shows, w.second} ELSE {})

(* Whenever x is read, y is: it is a plain number that ends no later and    *)
(* came with no later version.                                             *)
Sooner(L, y, x) ==
  LET f == L[y] IN
  /\ {x, y} \subseteq DOMAIN L
  /\ f.kind = "number" /\ ~f.maybe /\ f.void = {} /\ f.when = ""
  /\ f.after = ""
  /\ L[x].kind \in {"number", "string", "bytes"}
  /\ IsVersionPlus(L[x].since, f.since)
  /\ f.at + f.width <= L[x].at + L[x].width

(* Whenever the write w has a value, v has one, too. *)
Follows(L, w, v) ==
  /\ \A x \in Sources(w) : \E y \in Sources(v) : y = x \/ Sooner(L, y, x)
  /\ v.count \in {"", w.count} /\ v.needs <= w.needs

(* All that is written in place of a value is null. *)
NullOnly(w) ==
  /\ {w.absent, w.unreachable} \subseteq {"null", "nothing"}
  /\ w.count = "" \/ w.none \in {"null", "nothing"}
  /\ w.needs = 0

(* What is written in place of a value is the same. *)
SameGaps(w, v) ==
  \A field \in {"of", "second", "silent", "absent", "unreachable", "count",
                "none", "needs"} : w[field] = v[field]

(* Two writes of a serializer that may meet under one key. *)
Agree(L, w, v) ==
  /\ w.in = v.in /\ ValueKeys(w) \cap ValueKeys(v) # {} =>
       /\ w.second = "" /\ v.second = ""
       /\ w.shows = v.shows /\ w.form = v.form
  /\ w.in = v.gap /\ v.gapKey \in ValueKeys(w) => Follows(L, w, v)
  /\ w.gap = v.gap /\ w.gapKey = v.gapKey =>
       SameGaps(w, v) \/ (NullOnly(w) /\ NullOnly(v))

(* Null for an array of none: the getter has it ABSENT then. *)
NullArrayOK(L, w) ==
  /\ w.count # "" /\ w.none = "null" /\ w.of \in DOMAIN L =>
       /\ L[w.of].kind = "items" /\ L[w.of].count = w.count
       /\ L[w.of].empty = ABSENT

(* The write shows the member x, if none before it does. *)
MeantFor(w, x) ==
  \/ w.of = x /\ w.shows = x
  \/ w.count = x
  \/ w.second = x /\ w.count = "" /\ w.needs = 0


(* Members that no key is for: lengths the length of an array shows, values *)
(* that are checked and not shown, and those for which a copied line shows *)
(* another member.                                                         *)
NeverShown ==
  {"firmware_char_ext_bytes_count", "unit", "contained_element_record_length",
   "slot_information", "device_count", "reserved_3", "reserved_4",
   "checksum_valid", "additional_data", "additional_data_size",
   "interface_type_specific_data_size"}
  \union
  {"enabled_error_correcting_capabilities", "current_sram_type",
   "module_product_id", "memory_subsystem_controller_manufacturer_id",
   "memory_subsystem_controller_product_id",
   "extended_configured_memory_speed"}

(* What every serializer of a struct with members S keeps to. *)
WritesOK(L, W, S) ==
  /\ \A w \in W :
       /\ Sources(w) \subseteq S /\ w.needs \in Nat /\ NullArrayOK(L, w)
       /\ {w.absent, w.unreachable, w.none}
            \subseteq {"null", "nothing", "empty"}
  /\ \A w, v \in W : w # v => Agree(L, w, v)
  /\ \A x \in DOMAIN L \ NeverShown : \E w \in W : MeantFor(w, x)

ASSUME WritesAssumption ==
  \A t \in Parsed : \A v \in Versions(t) :
    WritesOK(Layout(t, v), Jsons[t], MembersOf(t))

-----------------------------------------------------------------------------
ExportInit == Init /\ json = {}

Export ==
  /\ pc = "parsed" /\ json = {}
  /\ json' = Written(Jsons[type], TheLayout, status, record)
  /\ UNCHANGED vars

ExportNext ==
  \/ Next /\ json' = {}
  \/ Export

ExportSpec == ExportInit /\ [][ExportNext]_<<vars, json>>

-----------------------------------------------------------------------------
PresentMembers == {x \in MembersOf(type) : status[x] = PRESENT}

(* No key of an object has a value here and a null there, the values of    *)
(* two members, or a value raw and decoded: several writes share a key,    *)
(* and which of them are made depends on the version and the length of the *)
(* structure.                                                              *)
NoContradiction ==
  \A e, f \in json :
    e.in = f.in /\ e.key = f.key =>
      /\ e.says = f.says /\ e.shows = f.shows
      /\ e.says = "value" => e.form = f.form

(* What is there is not said to be missing, also when it is an array of    *)
(* none or is written by way of a member that is not.                      *)
PresentNeverNull ==
  \A e \in json : e.says = "null" => e.of \notin PresentMembers

(* An array of none, which may be left out. *)
HasNone(w) == w.count \in DOMAIN TheLayout /\ record.value[w.count] = 0

(* Whatever is PRESENT is in the JSON object, or a wider member is that    *)
(* says the same.                                                          *)
PresentIsShown ==
  json # {} =>
    \A x \in PresentMembers \ NeverShown :
      \/ \E e \in json : e.shows = x \/ (e.of = x /\ e.says = "empty")
      \/ \E w \in Jsons[type] : w.second = x /\ status[w.of] = PRESENT
      \/ \E w \in Jsons[type] : w.count = x     \* the length of an array
      \/ \E w \in Jsons[type] : w.of = x /\ HasNone(w)

(* extensions.dox: "LAZYBIOS_FIELD_PRESENT values are serialized". *)
AllPresentSerialized ==
  json # {} =>
    \A w \in Jsons[type] : w.of \in PresentMembers /\ ~HasNone(w) =>
      \E e \in json : e.shows = w.of \/ (e.of = w.of /\ e.says = "empty")

=============================================================================
