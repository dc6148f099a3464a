------------------------------ MODULE RomeInit ------------------------------
(***************************************************************************)
(* rome_soc_init (hw_rome.c): the ROME controller is asked for its version *)
(* and loaded with its patch and its NVM, segment by segment.              *)
(*                                                                         *)
(* Which events answer a segment depends on the controller's version and   *)
(* on the event handling its patch file asks for.  The loader keeps that   *)
(* in two flags: wait_cc_evt, local to one file, and wait_vsc_evt, global  *)
(* to the library.  The controller's side is modelled from the comments in *)
(* rome_tlv_dnld_req and marked external.                                  *)
(*                                                                         *)
(* A version stands for its class: "1.0", "1.1" for 1.1 to 2.1, "3.0",     *)
(* "3.2", and "other" for one the library does not know.  The event        *)
(* handling of a patch is "NONE", "VSE_CC" or "OTHER", the ones that       *)
(* rome_tlv_dnld_req reports as unsupported before it goes on.             *)
(***************************************************************************)
EXTENDS BtUart

CONSTANTS
    TAGS,           \* entries of the built-in tag table (cmds)
    MaxSegments,    \* bound on the full segments of a file
    MaxFaults       \* bound on the faults of one behaviour

ASSUME RomeAssumption == TAGS \in Nat \ {0} /\ MaxSegments \in Nat \ {0} /\ MaxFaults \in Nat

VARIABLES
    version,                \* the controller's version
    chipset_ver,            \* the version the library has read
    wait_vsc_evt, wait_cc_evt, patch_dnld_pending,
    wipower_flag,           \* the controller charges in embedded mode
    tlv,                    \* the file: its kind, event handling, what is left
    faults,                 \* faults that have happened
    clean                   \* history: nothing that the loader cannot cope with has
                            \* happened in this initialisation

romeVars == <<version, chipset_ver, wait_vsc_evt, wait_cc_evt, patch_dnld_pending,
              wipower_flag, tlv, faults, clean>>
flags == <<wait_vsc_evt, wait_cc_evt, patch_dnld_pending>>
session == <<version, chipset_ver, wipower_flag>>

Versions == {"1.0", "1.1", "3.0", "3.2", "other"}
Handlings == {"NONE", "VSE_CC", "OTHER"}

NoFile == [type |-> "NONE", cfg |-> "NONE", full |-> 0, rest |-> FALSE]

RomeTypeOK ==
    /\ version \in Versions /\ chipset_ver \in Versions \cup {"none"}
    /\ wait_vsc_evt \in BOOLEAN /\ wait_cc_evt \in BOOLEAN
    /\ patch_dnld_pending \in BOOLEAN /\ wipower_flag \in BOOLEAN
    /\ tlv \in [type : {"NONE", "PATCH", "NVM"}, cfg : Handlings,
                full : 0..MaxSegments \cup 0..(TAGS - 1), rest : BOOLEAN]
    /\ faults \in 0..MaxFaults /\ clean \in BOOLEAN

\* A process that has just loaded the library.
RomeFresh ==
    /\ chipset_ver = "none" /\ wait_vsc_evt = TRUE /\ wait_cc_evt = TRUE
    /\ patch_dnld_pending = FALSE /\ wipower_flag = FALSE /\ tlv = NoFile

RomeInitial ==
    /\ RomeFresh /\ version \in Versions
    /\ faults = 0 /\ clean = TRUE

Fault == faults < MaxFaults /\ faults' = faults + 1
-----------------------------------------------------------------------------
(* Reading. *)

\* Where a failed command leads: the caller ignores the failures of the wipower
\* query and handoff, of the build information and of the LDO command.
AfterFailure(s) == IF s \in {"begin", "ver", "ldo", "reset"} THEN s ELSE "failed"

Fails == step' = AfterFailure(step) /\ waits' = <<>> /\ patch_dnld_pending' = FALSE

\* The event decides.  A stray event is skipped during a download: the event
\* after it is read in its place, and what that one says is lost.
get_vs_hci_event ==
    \/ /\ Head(rx) \in {"VSE", "VERSION"}
       /\ rx' = Tail(rx) /\ waits' = Tail(waits)
       /\ chipset_ver' = IF Head(rx) = "VERSION" THEN version ELSE chipset_ver
       /\ UNCHANGED <<step, patch_dnld_pending, clean>>
    \/ /\ Head(rx) \in {"CCE", "ERR"} \/ (Head(rx) = "STRAY" /\ ~patch_dnld_pending)
       /\ rx' = Tail(rx) /\ Fails
       /\ UNCHANGED <<chipset_ver, clean>>
    \/ /\ Head(rx) = "STRAY" /\ patch_dnld_pending /\ Len(rx) > 1
       /\ rx' = Tail(Tail(rx)) /\ waits' = Tail(waits)
       /\ UNCHANGED <<step, patch_dnld_pending, chipset_ver, clean>>

read_vs_hci_event ==
    /\ waits # <<>> /\ Head(waits) = "VSE" /\ rx # <<>>
    /\ get_vs_hci_event
    /\ UNCHANGED <<soc, baud, version, wait_vsc_evt, wait_cc_evt, wipower_flag, tlv, faults>>

RomeReadsEvent ==
    /\ read_hci_event
    /\ UNCHANGED <<soc, baud, step, romeVars>>

\* do_write or a read of the UART reports an error; a command that could not be
\* written is not answered.
RomeIoFails ==
    /\ waits # <<>> \/ step \in {"segment", "tags"}
    /\ Fault /\ Fails
    /\ rx' \in {rx, <<>>} /\ clean' = FALSE
    /\ UNCHANGED <<soc, baud, session, wait_vsc_evt, wait_cc_evt, tlv>>
-----------------------------------------------------------------------------
(* Commands. *)

\* hci_send_vs_cmd reads the vendor event if the global flag says so; its
\* callers read the command-complete event after it.
hci_send_vs_cmd(answer, next) ==
    Command(answer, (IF wait_vsc_evt THEN <<"VSE">> ELSE <<>>) \o <<"CCE">>, next)

Plain == UNCHANGED <<soc, baud, session, flags, tlv, faults, clean>>

\* hci_send_wipower_vs_cmd reads the command-complete event first, its callers
\* the vendor event after it.
hci_send_wipower_vs_cmd(answer, reads, next) == Command(answer, <<"CCE">> \o reads, next)

\* With the wireless charging property set the charging state is asked for; a
\* controller that is not in embedded mode sends one more event.
rome_wipower_current_charging_status_req(charging) ==
    IF charging THEN hci_send_wipower_vs_cmd(<<"CCE", "VSE">>, <<"VSE">>, "begin")
    ELSE hci_send_wipower_vs_cmd(<<"CCE", "VSE", "CCE">>, <<"VSE", "CCE">>, "begin")

check_embedded_mode ==
    /\ step = "embedded"
    /\ \E charging \in BOOLEAN :
        /\ rome_wipower_current_charging_status_req(charging)
        /\ wipower_flag' = (charging /\ Heard)
    /\ UNCHANGED <<soc, baud, version, chipset_ver, flags, tlv, faults, clean>>

rome_wipower_forward_handoff_req ==
    /\ step = "handoff"
    /\ hci_send_wipower_vs_cmd(<<"CCE", "VSE">>, <<"VSE">>, "ver")
    /\ wipower_flag' = FALSE
    /\ UNCHANGED <<soc, baud, version, chipset_ver, flags, tlv, faults, clean>>

rome_patch_ver_req ==
    /\ step = "ver"
    /\ hci_send_vs_cmd(<<"VERSION", "CCE">>, "choose")
    /\ Plain

\* The switch of rome_soc_init on the version.
ChooseFirmware ==
    /\ step = "choose" /\ waits = <<>>
    /\ step' = CASE chipset_ver = "1.0"                 -> "rampatch_1_0"
                 [] chipset_ver \in {"1.1", "3.0", "3.2"} -> "baud"
                 [] OTHER                               -> "failed"
    /\ UNCHANGED <<rx, waits>> /\ Plain

\* Mutant: the host stays at its old speed.
rome_set_baudrate_req_soc_only ==
    /\ step = "baud"
    /\ Command(<<"VSE", "CCE">>, <<"VSE", "CCE">>, "rampatch")
    /\ soc' = IF Heard THEN [soc EXCEPT !.baud = Fast] ELSE soc
    /\ UNCHANGED <<baud, session, flags, tlv, faults, clean>>

\* Both sides change speed between the command and its answer.
rome_set_baudrate_req ==
    /\ step = "baud"
    /\ Command(<<"VSE", "CCE">>, <<"VSE", "CCE">>, "rampatch")
    /\ soc' = IF Heard THEN [soc EXCEPT !.baud = Fast] ELSE soc
    /\ userial_vendor_set_baud(Fast)
    /\ UNCHANGED <<session, flags, tlv, faults, clean>>

\* A file of any length; only a patch names an event handling.
Files(type) ==
    {f \in [type : {type}, cfg : IF type = "PATCH" THEN Handlings ELSE {"NONE"},
            full : 0..MaxSegments, rest : BOOLEAN] : f.full > 0 \/ f.rest}

\* The handlings that loader and controller agree on: skipping both events came
\* with version 3.2.
Supported(f) == f.cfg = "NONE" \/ (f.cfg = "VSE_CC" /\ version = "3.2")

\* A file is read, and rome_tlv_dnld_req starts on it with the flags that its
\* kind and its event handling ask for; a handling it does not support leaves
\* wait_vsc_evt as it was.
rome_get_tlv_file ==
    /\ step \in {"rampatch", "nvm"} /\ waits = <<>>
    /\ \E f \in Files(IF step = "rampatch" THEN "PATCH" ELSE "NVM") :
        /\ tlv' = f
        /\ wait_vsc_evt' = (f.cfg = "NONE" \/ (f.cfg = "OTHER" /\ wait_vsc_evt))
        /\ wait_cc_evt' = (f.cfg # "VSE_CC")
        /\ IF Supported(f) THEN UNCHANGED <<faults, clean>> ELSE Fault /\ clean' = FALSE
    /\ step' = "segment"
    /\ UNCHANGED <<soc, rx, baud, waits, session, patch_dnld_pending>>

\* A file that cannot be read: fatal for the patch, while the NVM is then left
\* out and rome_download_tlv_file returns what the patch returned.
NoTlvFile ==
    /\ step \in {"rampatch", "nvm"} /\ waits = <<>> /\ Fault
    /\ step' = IF step = "rampatch" THEN "failed" ELSE "build"
    /\ clean' = FALSE
    /\ UNCHANGED <<soc, rx, baud, waits, session, flags, tlv>>

\* The last segment of a patch is treated apart, by the version that was read:
\* as of 3.2 a patch that skips both events has its vendor event there only, and
\* every other patch ends without a command-complete event.
Quiet == tlv.type = "PATCH" /\ chipset_ver = "3.2" /\ tlv.cfg = "VSE_CC"
Spoken == tlv.type = "PATCH"
          /\ (chipset_ver \in {"1.1", "3.0"} \/ (chipset_ver = "3.2" /\ tlv.cfg = "NONE"))

\* External: the controller's answer to a segment, by the rules quoted in
\* rome_tlv_dnld_req.
SegmentAnswer(last) ==
    CASE tlv.type = "NVM"   -> <<"VSE", "CCE">>
      [] tlv.cfg = "VSE_CC" -> IF last THEN <<"VSE">> ELSE <<>>
      [] OTHER              -> IF last THEN <<"VSE">> ELSE <<"VSE", "CCE">>

\* Where they do not agree on the handling the controller may answer anything.
AnyAnswer == {<<>>, <<"VSE">>, <<"CCE">>, <<"VSE", "CCE">>}

\* The same answer with a refusal in it, or with a stray event before it.
Refused(answer) == [i \in DOMAIN answer |-> IF answer[i] = "VSE" THEN "ERR" ELSE answer[i]]

SegmentAnswers(last) ==
    LET a == SegmentAnswer(last) IN
    IF ~Supported(tlv) THEN AnyAnswer
    ELSE IF a = <<>> THEN {a}
    ELSE {a, <<"STRAY">> \o a}
         \cup (IF tlv.type = "PATCH" THEN {Refused(a), <<"STRAY">> \o Refused(a)} ELSE {})

\* What the controller has once the last segment is in.
Loaded(last, answer) ==
    soc' = IF last /\ Heard /\ "ERR" \notin {answer[i] : i \in DOMAIN answer}
           THEN [soc EXCEPT !.fw = IF tlv.type = "NVM" THEN "loaded" ELSE "half"]
           ELSE soc

\* rome_tlv_dnld_segment: one segment is sent with the flags as they now are.
rome_tlv_dnld_segment(vsc, cc, last, next) ==
    \E a \in SegmentAnswers(last) :
        /\ Command(a, (IF vsc THEN <<"VSE">> ELSE <<>>) \o (IF cc THEN <<"CCE">> ELSE <<>>),
                   next)
        /\ IF a = SegmentAnswer(last) \/ ~Supported(tlv) THEN UNCHANGED <<faults, clean>>
           ELSE Fault /\ clean' = (clean /\ a[1] # "STRAY")
        /\ Loaded(last, a)

\* Mutant: the last segment's command-complete event is not read.
rest_flags_no_cc == <<IF Quiet THEN tlv.rest ELSE wait_vsc_evt, ~tlv.rest>>

\* wait_vsc_evt and wait_cc_evt for a full segment and for what is left.
full_flags == <<IF Quiet /\ tlv.full = 1 THEN ~tlv.rest ELSE wait_vsc_evt,
                IF Spoken /\ tlv.full = 1 THEN tlv.rest ELSE wait_cc_evt>>
rest_flags == <<IF Quiet THEN tlv.rest ELSE wait_vsc_evt,
                IF Spoken THEN ~tlv.rest ELSE wait_cc_evt>>

AfterFile == IF tlv.type = "PATCH" THEN "nvm" ELSE "build"

\* rome_tlv_dnld_req: the full segments, then the flags once more, then the rest.
SendFullSegment ==
    /\ step = "segment" /\ waits = <<>> /\ tlv.full > 0
    /\ rome_tlv_dnld_segment(full_flags[1], full_flags[2], tlv.full = 1 /\ ~tlv.rest, "segment")
    /\ wait_vsc_evt' = full_flags[1] /\ wait_cc_evt' = full_flags[2]
    /\ patch_dnld_pending' = TRUE
    /\ tlv' = [tlv EXCEPT !.full = @ - 1]
    /\ UNCHANGED <<baud, session>>

SendRest ==
    /\ step = "segment" /\ waits = <<>> /\ tlv.full = 0
    /\ IF tlv.rest
       THEN /\ rome_tlv_dnld_segment(rest_flags[1], rest_flags[2], TRUE, AfterFile)
            /\ patch_dnld_pending' = TRUE
       ELSE /\ step' = AfterFile /\ patch_dnld_pending' = FALSE
            /\ UNCHANGED <<soc, rx, waits, faults, clean>>
    /\ wait_vsc_evt' = rest_flags[1] /\ wait_cc_evt' = rest_flags[2]
    /\ UNCHANGED <<baud, session, tlv>>

\* The build label, whose failure is ignored.
rome_get_build_info_req ==
    /\ step = "build"
    /\ hci_send_vs_cmd(<<"VSE", "CCE">>, "ldo")
    /\ patch_dnld_pending' = FALSE
    /\ UNCHANGED <<soc, baud, session, wait_vsc_evt, wait_cc_evt, tlv, faults, clean>>

\* Only with an external LDO; a failure is overwritten.
disable_internal_ldo ==
    /\ step = "ldo"
    /\ \/ Command(<<"CCE">>, <<"CCE">>, "reset")
       \/ Command(<<>>, <<>>, "reset")
    /\ Plain

rome_hci_reset ==
    /\ step = "reset"
    /\ Command(<<"CCE">>, <<"CCE">>, "done")
    /\ Plain
-----------------------------------------------------------------------------
(* ROME 1.0: another format, and tags instead of an NVM file. *)

\* What the header of the file says: the length of its payload.
rome_extract_patch_header_info == {f \in Files("PATCH") : f.cfg = "NONE"}

\* A file that cannot be read is fatal.
rome_download_rampatch ==
    /\ step = "rampatch_1_0" /\ waits = <<>>
    /\ \/ step' = "set_patch" /\ tlv' \in rome_extract_patch_header_info /\ UNCHANGED faults
       \/ Fault /\ step' = "failed" /\ UNCHANGED tlv
    /\ UNCHANGED <<soc, rx, waits, baud, session, flags, clean>>

rome_edl_set_patch_request ==
    /\ step = "set_patch"
    /\ hci_send_vs_cmd(<<"VSE", "CCE">>, "segment_1_0")
    /\ Plain

\* The full segments, then the rest if there is one.
rome_edl_patch_download_request ==
    /\ step = "segment_1_0" /\ waits = <<>>
    /\ \/ /\ tlv.full > 0 \/ tlv.rest
          /\ hci_send_vs_cmd(<<"VSE", "CCE">>, "segment_1_0")
          /\ tlv' = IF tlv.full > 0 THEN [tlv EXCEPT !.full = @ - 1]
                    ELSE [tlv EXCEPT !.rest = FALSE]
       \/ /\ tlv.full = 0 /\ ~tlv.rest
          /\ step' = "attach" /\ UNCHANGED <<rx, waits, tlv>>
    /\ UNCHANGED <<soc, baud, session, flags, faults, clean>>

rome_attach_rampatch ==
    /\ step = "attach"
    /\ hci_send_vs_cmd(<<"VSE", "CCE">>, "rampatch_reset")
    /\ soc' = IF Heard THEN [soc EXCEPT !.fw = "half"] ELSE soc
    /\ UNCHANGED <<baud, session, flags, tlv, faults, clean>>

\* No answer; the library sleeps 100 ms.
rome_rampatch_reset ==
    /\ step = "rampatch_reset"
    /\ Command(<<>>, <<>>, "tags")
    /\ Plain

\* The tags of the built-in table, each answered twice.
rome_1_0_nvm_tag_dnld ==
    /\ step = "tags"
    /\ hci_send_vs_cmd(<<"VSE", "CCE">>, IF tlv.full < TAGS - 1 THEN "tags" ELSE "reset_req")
    /\ tlv' = [tlv EXCEPT !.full = IF @ < TAGS - 1 THEN @ + 1 ELSE 0]
    /\ soc' = IF Heard /\ tlv.full = TAGS - 1 THEN [soc EXCEPT !.fw = "loaded"] ELSE soc
    /\ UNCHANGED <<baud, session, flags, faults, clean>>

\* The reset also takes both sides to 3 Mbaud.
rome_hci_reset_req ==
    /\ step = "reset_req"
    /\ Command(<<"CCE">>, <<"CCE">>, "done")
    /\ soc' = IF Heard THEN [soc EXCEPT !.baud = Fast] ELSE soc
    /\ userial_vendor_set_baud(Fast)
    /\ UNCHANGED <<session, flags, tlv, faults, clean>>
-----------------------------------------------------------------------------
\* One step of the initialisation of a ROME controller.
RomeStep ==
    \/ read_vs_hci_event \/ RomeReadsEvent
    \/ check_embedded_mode \/ rome_wipower_forward_handoff_req \/ rome_patch_ver_req
    \/ ChooseFirmware \/ rome_set_baudrate_req \/ rome_get_tlv_file \/ NoTlvFile
    \/ SendFullSegment \/ SendRest
    \/ rome_get_build_info_req \/ disable_internal_ldo \/ rome_hci_reset
    \/ rome_download_rampatch \/ rome_edl_set_patch_request
    \/ rome_edl_patch_download_request \/ rome_attach_rampatch
    \/ rome_rampatch_reset \/ rome_1_0_nvm_tag_dnld \/ rome_hci_reset_req

\* rome_soc_init starts: a controller charging in embedded mode is handed over
\* first.
rome_soc_init ==
    /\ step = "begin" /\ waits = <<>>
    /\ step' = IF wipower_flag THEN "handoff" ELSE "ver"
    /\ UNCHANGED <<soc, rx, baud, waits, session, flags, tlv, faults, clean>>
=============================================================================
