---------------------------- MODULE PlatformInfo ----------------------------
(***************************************************************************)
(* The parser of the platform information file (audio/qcom/hal/            *)
(* platform_info.c).  Expat calls it for every tag; a global section says  *)
(* which table an entry belongs to, and in_snd_device which input device   *)
(* the microphones that follow are mapped to.  The sound card search reads *)
(* the file once for config_params only, platform_init once in full.       *)
(*                                                                         *)
(* A document is any tree of section elements, with entries anywhere: the  *)
(* file is edited by hand.  An entry is its tag, the list of its attribute *)
(* names ("form"), and whether its values are acceptable: the device or    *)
(* use case is known, numbers and lists are as the table wants them.  The  *)
(* tables themselves are platform.c's.                                     *)
(***************************************************************************)
EXTENDS Integers, Sequences, FiniteSets

CONSTANTS
  InputDevices, \* input sound devices the platform knows
  MaxParses     \* bound: calls of platform_info_init

NoDevice == "NONE"

VARIABLES
  pi_parsing,     \* my_data.lock is held by a parse
  do_full_parse,
  section,
  in_snd_device,
  pi_open,        \* the open elements, outermost first
  pi_stored,      \* the entry stored last: [table, form, device], or empty
  pi_parses,      \* parses started
  pi_dead         \* the process has aborted or called through NULL

piVars == <<pi_parsing, do_full_parse, section, in_snd_device, pi_open, pi_stored,
            pi_parses, pi_dead>>

---------------------------------------------------------------------------
(* Tags.                                                                   *)

\* Elements that select a section whatever the section was.
TopSections ==
  [acdb_ids |-> "ACDB", module_ids |-> "MODULE", pcm_ids |-> "PCM_ID",
   backend_names |-> "BACKEND_NAME", config_params |-> "CONFIG_PARAMS",
   operator_specific |-> "OPERATOR_SPECIFIC",
   gain_db_to_level_mapping |-> "GAIN_LEVEL_MAPPING", app_types |-> "APP_TYPE",
   microphone_characteristics |-> "MICROPHONE_CHARACTERISTIC",
   snd_devices |-> "SND_DEVICES", acdb_metainfo_key |-> "ACDB_METAINFO_KEY",
   external_specific_dev |-> "EXTERNAL_DEVICE_SPECIFIC",
   audio_input_source_delay |-> "AUDIO_SOURCE_DELAY",
   audio_output_usecase_delay |-> "AUDIO_OUTPUT_USECASE_DELAY"]

\* Elements that select a section only inside another one.
InnerSections ==
  [aec |-> [in |-> "MODULE", to |-> "AEC"], ns |-> [in |-> "MODULE", to |-> "NS"],
   input_snd_device |-> [in |-> "SND_DEVICES", to |-> "INPUT_SND_DEVICE"],
   input_snd_device_mic_mapping |->
     [in |-> "INPUT_SND_DEVICE", to |-> "INPUT_SND_DEVICE_TO_MIC_MAPPING"]]

\* The sections an entry's tag is accepted in; the last three are not tested.
AcceptedIn ==
  [device |-> {"ACDB", "AEC", "NS", "BACKEND_NAME", "OPERATOR_SPECIFIC"},
   usecase |-> {"PCM_ID"}, param |-> {"CONFIG_PARAMS", "ACDB_METAINFO_KEY"},
   gain_level_map |-> {"GAIN_LEVEL_MAPPING"}, app |-> {"APP_TYPE"},
   microphone |-> {"MICROPHONE_CHARACTERISTIC"},
   snd_dev |-> {"INPUT_SND_DEVICE_TO_MIC_MAPPING"},
   mic_info |-> {"INPUT_SND_DEVICE_TO_MIC_MAPPING"}]

Untested == {"ext_device", "audio_source_delay", "audio_usecase_delay"}

\* section_table: the form each section's function insists on.  The sections
\* that only contain others have no function.  Both delay functions want name and
\* delay; the two forms stand for a name of a use case and one of a source, since
\* each function refuses a name of the other's kind.
FormOf ==
  [ACDB |-> "name,acdb_id", AEC |-> "name,module_id", NS |-> "name,module_id",
   PCM_ID |-> "name,type,id", BACKEND_NAME |-> "name,backend",
   CONFIG_PARAMS |-> "key,value", OPERATOR_SPECIFIC |-> "name,operator",
   GAIN_LEVEL_MAPPING |-> "db,level", APP_TYPE |-> "uc_type",
   MICROPHONE_CHARACTERISTIC |-> "device_id", ACDB_METAINFO_KEY |-> "name,value",
   EXTERNAL_DEVICE_SPECIFIC |-> "name,usbid", AUDIO_SOURCE_DELAY |-> "name,delay",
   AUDIO_OUTPUT_USECASE_DELAY |-> "usecase,delay", ROOT |-> ""]

Tags == DOMAIN AcceptedIn \cup Untested

\* What an author writes in a tag: the attributes one of its sections wants, or
\* something else.
FormsOf(tag) ==
  {"other"} \cup
  CASE tag = "ext_device" -> {"name,usbid"}
    [] tag = "audio_source_delay" -> {"name,delay"}
    [] tag = "audio_usecase_delay" -> {"usecase,delay"}
    [] tag = "snd_dev" -> {"in_snd_device"}
    [] tag = "mic_info" -> {"mic_device_id"}
    [] OTHER -> {FormOf[s] : s \in AcceptedIn[tag]}

---------------------------------------------------------------------------
(* Entries.                                                                *)

NotStored == [table |-> "none", form |-> "", device |-> NoDevice]

Store(table, form) == pi_stored' = [table |-> table, form |-> form, device |-> NoDevice]

\* process_acdb_id, process_pcm_id, process_backend_name and the others: the
\* attribute names are compared one by one, then the values are looked up.
process_entry(form, valid) ==
  /\ IF form = FormOf[section] /\ valid THEN Store(section, form)
                                        ELSE pi_stored' = NotStored
  /\ UNCHANGED <<in_snd_device, pi_dead>>

\* CHECK(level > 0) aborts.
process_gain_db_to_level_map(form, valid) ==
  /\ IF form = FormOf[section] /\ valid THEN Store(section, form)
                                        ELSE pi_stored' = NotStored
  /\ pi_dead' = (form = FormOf[section] /\ ~valid)
  /\ UNCHANGED in_snd_device

\* Unknown attributes are skipped.  Without num_frequency_responses an
\* uninitialized count decides whether the entry is stored.
process_microphone_characteristic(form, valid) ==
  /\ IF form = FormOf[section] THEN IF valid THEN Store(section, form)
                                             ELSE pi_stored' = NotStored
     ELSE Store(section, form) \/ pi_stored' = NotStored
  /\ UNCHANGED <<in_snd_device, pi_dead>>

\* Mutant: a device that is not known leaves the one before it in place.
process_snd_dev_keeps(form, valid, device) ==
  /\ in_snd_device' = IF form = "in_snd_device" /\ valid THEN device ELSE in_snd_device
  /\ pi_stored' = NotStored
  /\ UNCHANGED pi_dead

process_snd_dev(form, valid, device) ==
  /\ in_snd_device' = IF form = "in_snd_device" /\ valid THEN device ELSE NoDevice
  /\ pi_stored' = NotStored
  /\ UNCHANGED pi_dead

\* An error stops the microphones of this device, not of the next.
process_mic_info(form, valid) ==
  /\ IF form = "mic_device_id" /\ valid
       THEN /\ pi_stored' = [table |-> "MIC_INFO", form |-> form, device |-> in_snd_device]
            /\ UNCHANGED in_snd_device
       ELSE pi_stored' = NotStored /\ in_snd_device' = NoDevice
  /\ UNCHANGED pi_dead

\* A section without a function is a call through NULL.
CallSection(form, valid) ==
  CASE section = "GAIN_LEVEL_MAPPING" -> process_gain_db_to_level_map(form, valid)
    [] section = "MICROPHONE_CHARACTERISTIC" ->
         process_microphone_characteristic(form, valid)
    [] section = "ROOT" -> pi_stored' = NotStored /\ UNCHANGED <<in_snd_device, pi_dead>>
    [] section \notin DOMAIN FormOf ->
         /\ pi_dead' = TRUE /\ pi_stored' = NotStored
         /\ UNCHANGED in_snd_device
    [] OTHER -> process_entry(form, valid)

Ignored == pi_stored' = NotStored /\ UNCHANGED <<in_snd_device, pi_dead>>

\* The config-only parse looks at param in CONFIG_PARAMS and at nothing else.
Considered(tag) ==
  IF do_full_parse THEN tag \in Untested \/ section \in AcceptedIn[tag]
                   ELSE tag = "param" /\ section = "CONFIG_PARAMS"

Entry(tag, form, valid, device) ==
  IF ~Considered(tag) \/ (tag = "mic_info" /\ in_snd_device = NoDevice) THEN Ignored
  ELSE CASE tag = "snd_dev" -> process_snd_dev(form, valid, device)
         [] tag = "mic_info" -> process_mic_info(form, valid)
         [] OTHER -> CallSection(form, valid)

---------------------------------------------------------------------------
(* Steps.                                                                  *)

SectionElements == DOMAIN TopSections \cup DOMAIN InnerSections

SectionElement(name) == [name |-> name, device |-> NoDevice]

OpenNames == {pi_open[i].name : i \in 1 .. Len(pi_open)}

Live == pi_parsing /\ ~pi_dead

SectionAfter(name) ==
  IF name \in DOMAIN TopSections
    THEN IF do_full_parse \/ name = "config_params" THEN TopSections[name] ELSE section
    ELSE IF do_full_parse /\ section = InnerSections[name].in
           THEN InnerSections[name].to ELSE section

\* start_tag of a section element.
OpenSection(name) ==
  /\ Live /\ Len(pi_open) < 4 /\ "snd_dev" \notin OpenNames
  /\ name \in DOMAIN TopSections => pi_open = <<>>
  /\ name \in DOMAIN InnerSections => pi_open # <<>> /\ name \notin OpenNames
  /\ pi_open' = Append(pi_open, SectionElement(name)) /\ section' = SectionAfter(name)
  /\ pi_stored' = NotStored
  /\ UNCHANGED <<pi_parsing, do_full_parse, in_snd_device, pi_parses, pi_dead>>

\* start_tag of an entry; snd_dev stays open around its microphones, the others
\* end at once and their end_tag changes nothing.
StartEntry(tag, form, valid, device) ==
  /\ Live /\ (tag = "snd_dev" => "snd_dev" \notin OpenNames)
  /\ Entry(tag, form, valid, device)
  /\ pi_open' = IF tag = "snd_dev" /\ "input_snd_device_mic_mapping" \in OpenNames
                  THEN Append(pi_open, [name |-> "snd_dev",
                         device |-> IF form # "other" /\ valid THEN device ELSE NoDevice])
                  ELSE pi_open
  /\ UNCHANGED <<pi_parsing, do_full_parse, section, pi_parses>>

\* The two delay sections have no case of their own: they stay selected.
end_section(name) ==
  CASE name \in {"aec", "ns"} -> "MODULE"
    [] name = "input_snd_device" -> "SND_DEVICES"
    [] name = "input_snd_device_mic_mapping" -> "INPUT_SND_DEVICE"
    [] name \in {"audio_input_source_delay", "audio_output_usecase_delay"} -> section
    [] OTHER -> "ROOT"

EndElement ==
  /\ Live /\ pi_open # <<>>
  /\ LET name == pi_open[Len(pi_open)].name
     IN  section' = IF name \in SectionElements THEN end_section(name) ELSE section
  /\ pi_open' = SubSeq(pi_open, 1, Len(pi_open) - 1)
  /\ pi_stored' = NotStored
  /\ UNCHANGED <<pi_parsing, do_full_parse, in_snd_device, pi_parses, pi_dead>>

\* A missing file leaves the lock alone.
platform_info_init(full) ==
  /\ ~pi_parsing /\ ~pi_dead /\ pi_parses < MaxParses
  /\ pi_parsing' = TRUE /\ do_full_parse' = full /\ section' = "ROOT"
  /\ pi_open' = <<>> /\ pi_stored' = NotStored /\ pi_parses' = pi_parses + 1
  /\ UNCHANGED <<in_snd_device, pi_dead>>

\* The end of the file, or expat's error anywhere in it.
ParseReturns ==
  /\ Live
  /\ pi_parsing' = FALSE /\ pi_open' = <<>> /\ pi_stored' = NotStored
  /\ UNCHANGED <<do_full_parse, section, in_snd_device, pi_parses, pi_dead>>

PiInit ==
  /\ pi_parsing = FALSE /\ do_full_parse = TRUE /\ section = "ROOT"
  /\ in_snd_device = NoDevice /\ pi_open = <<>> /\ pi_stored = NotStored
  /\ pi_parses = 0 /\ pi_dead = FALSE

PiNext ==
  \/ \E full \in BOOLEAN : platform_info_init(full)
  \/ \E name \in SectionElements : OpenSection(name)
  \/ \E tag \in Tags : \E form \in FormsOf(tag), valid \in BOOLEAN :
       \E device \in (IF tag = "snd_dev" THEN InputDevices ELSE {NoDevice}) :
         StartEntry(tag, form, valid, device)
  \/ EndElement \/ ParseReturns

PiSpec == PiInit /\ [][PiNext]_piVars

---------------------------------------------------------------------------
(* Properties.                                                             *)

EnclosingDevice ==
  {pi_open[i].device : i \in {j \in 1 .. Len(pi_open) : pi_open[j].name = "snd_dev"}}

\* An entry that ended up in a table has the attributes of that table, however
\* it was misplaced: the tags no test guards are caught by their attributes.
\* Microphone characteristics ignore what they do not know
\* (platform_info.c:1000, 1023, 1029).
NothingMisfiled ==
  pi_stored.table \notin {"none", "MIC_INFO", "MICROPHONE_CHARACTERISTIC"} =>
    pi_stored.form = FormOf[pi_stored.table]

\* A microphone listed under a device is mapped to that device: neither an
\* earlier device nor an earlier error leaks into it (platform_info.c:807, 826).
MicsOfTheirDevice ==
  pi_stored.table = "MIC_INFO" =>
    pi_stored.device # NoDevice /\ EnclosingDevice \subseteq {pi_stored.device}

\* A device name read while only config_params is parsed is never stored, and a
\* full parse stores only inside an element (or after a delay element, whose
\* section stays selected).
StoredInside ==
  /\ ~do_full_parse /\ pi_stored # NotStored => pi_stored.table = "CONFIG_PARAMS"
  /\ pi_stored # NotStored /\ pi_open = <<>> =>
       pi_stored.table \in {"AUDIO_SOURCE_DELAY", "AUDIO_OUTPUT_USECASE_DELAY"}

\* The three together.
EntriesInPlace == NothingMisfiled /\ MicsOfTheirDevice /\ StoredInside

=============================================================================
