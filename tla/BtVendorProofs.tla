--------------------------- MODULE BtVendorProofs ---------------------------
(***************************************************************************)
(* Proofs about the Bluetooth vendor library, for every set of             *)
(* controllers, every number of sessions and faults, firmware files of any *)
(* length and AR3K tag tables of any size.                                 *)
(*                                                                         *)
(* What the library believes about a controller (soc_initialized, an open  *)
(* transport) rests on the loaders having read exactly the events the      *)
(* controller sent.  So the invariant follows the UART: which reads are    *)
(* outstanding, which events answer them, and what the controller has      *)
(* done once they are read.                                                *)
(***************************************************************************)
EXTENDS BtVendor, SequenceTheorems, TLAPS

BtTypes ==
    /\ soc \in [power : BOOLEAN, fw : {"rom", "half", "loaded"}, baud : {Slow, Fast}]
    /\ baud \in {Slow, Fast} /\ uart \in BOOLEAN
    /\ tlv \in [type : {"NONE", "PATCH", "NVM"}, cfg : Handlings,
                full : Nat, rest : BOOLEAN]
    /\ wait_vsc_evt \in BOOLEAN /\ wait_cc_evt \in BOOLEAN /\ clean \in BOOLEAN
    /\ soc_type \in {"ROME", "AR3K", "CHEROKEE", "DEFAULT"}
    /\ pw \in [en : BOOLEAN, phase : {"none", "enter", "ask", "wait", "rfkill", "ret"}]
    /\ soc_initialized \in BOOLEAN /\ fresh \in BOOLEAN

-----------------------------------------------------------------------------
(* The calls. *)

Powering == {"on_off", "on", "off", "filter_fail"}
Filtering == {"filter", "filter_wait", "filter_late", "connect", "addon", "log", "connected",
              "open", "epilog"}
Asking == {"addon", "log", "connected"}

\* Which controllers a call is for, and what else is going on in it.
CallKnown ==
    /\ pc # "init" => step = "none"
    /\ pc = "smd_ready" => soc_type = "DEFAULT"
    /\ pc = "init" => soc_type \in {"ROME", "AR3K"}
    /\ pc \in {"filter", "filter_wait", "filter_late", "filter_fail", "connect"} \cup Asking =>
         soc_type \in {"ROME", "CHEROKEE"}
    /\ pw.phase # "none" => pc \in Powering
    /\ pw.phase # "none" => (pw.en <=> pc = "on")

\* A controller switched on in this session is powered and still at its first
\* speed when the open begins.
FreshKnown ==
    /\ pc = "on_off" \/ (pc = "on" /\ pw.phase # "ret") => ~fresh
    /\ soc_type # "DEFAULT" /\ fresh /\ pc \in {"on", "powered"} =>
         soc.power /\ soc.baud = Slow

\* The flag belongs to a ROME controller that is not being loaded and that no
\* power-off is about to reach.
FlagKnown ==
    /\ soc_initialized => soc_type = "ROME" /\ pc # "init"
    /\ soc_initialized /\ clean => soc.power /\ soc.fw = "loaded"
    /\ pw.phase = "rfkill" /\ ~pw.en => ~soc_initialized
    /\ soc_type = "ROME" /\ pc \in Filtering => soc_initialized

TransportKnown ==
    /\ soc_type \in {"ROME", "CHEROKEE"} /\ pc \in {"open", "epilog"} =>
         vnd_fd = "sock" /\ ~uart
    /\ pc \in Asking => vnd_fd = "sock"
    /\ soc_type = "AR3K" /\ pc \in {"init", "open", "epilog"} => vnd_fd = "uart" /\ uart
    /\ soc_type = "AR3K" /\ pc \in {"open", "epilog"} /\ clean /\ fresh =>
         soc.baud = baud /\ soc.fw = "loaded"
    /\ soc_type = "DEFAULT" /\ pc \in {"open", "epilog"} =>
         \A i \in 1..2 : q_fd[i] = "open"
-----------------------------------------------------------------------------
(* The UART. *)

\* Nothing will answer the read in progress: the command was not heard.
Stuck == waits # <<>> /\ rx = <<>>

Quiescent == waits = <<>> /\ rx = <<>>

\* The reads still to be done are answered by the events still to be read.
RomeAnswered ==
    \/ waits = <<"VSE", "CCE">> /\ rx \in {<<"VSE", "CCE">>, <<"VERSION", "CCE">>}
    \/ waits = <<"CCE", "VSE", "CCE">> /\ rx = <<"CCE", "VSE", "CCE">>
    \/ waits = <<"CCE", "VSE">> /\ rx = <<"CCE", "VSE">>
    \/ waits = <<"VSE">> /\ rx = <<"VSE">>
    \/ waits = <<"CCE">> /\ rx = <<"CCE">>

\* A segment of a patch was refused; the loader is about to notice.
RomeRefused ==
    /\ step \in {"segment", "nvm"}
    /\ \/ waits = <<"VSE", "CCE">> /\ rx = <<"ERR", "CCE">>
       \/ waits = <<"VSE">> /\ rx = <<"ERR">>

Ar3kAnswered ==
    \/ waits = <<"CCE">> /\ rx = <<"CCE">>
    \/ waits = <<"PS">> /\ rx \in {<<"CCE">>, <<"ERR">>}

\* A loader that nothing has disturbed and that has not given up.
Loading(type) == pc = "init" /\ soc_type = type /\ clean /\ step # "failed"

FailedIsQuiet == step = "failed" => waits = <<>>

RomeLine == Loading("ROME") => Quiescent \/ Stuck \/ RomeAnswered \/ RomeRefused

\* Inside a file the flags are what the file's kind and event handling ask for.
FileFlags ==
    /\ tlv.type # "NONE" /\ tlv.cfg # "OTHER"
    /\ tlv.type = "NVM" => tlv.cfg = "NONE" /\ wait_cc_evt
    /\ tlv.cfg = "NONE" => wait_vsc_evt /\ (tlv.full > 0 => wait_cc_evt)
    /\ tlv.cfg = "VSE_CC" => /\ version = "3.2" /\ chipset_ver = "3.2"
                            /\ ~wait_cc_evt /\ (tlv.full > 0 => ~wait_vsc_evt)

\* The versions that are loaded from a patch file and an NVM file.
Filed == {"1.1", "3.0", "3.2"}
Picked == {"baud", "rampatch", "segment", "nvm"}

\* The vendor-event flag is on wherever hci_send_vs_cmd reads it.
RomeFlags ==
    Loading("ROME") =>
      /\ step \notin {"segment", "nvm"} => wait_vsc_evt
      /\ step \in Picked => chipset_ver \in Filed
      /\ step = "segment" => FileFlags
      /\ step \in {"attach", "rampatch_reset"} => tlv.full = 0
      /\ step = "tags" => tlv.full < TAGS

\* Once the last segment of the NVM, or the last tag, has been answered the
\* controller runs the whole firmware.
RomeFirmware ==
    (/\ Loading("ROME") /\ ~Stuck
     /\ \/ step \in {"build", "ldo", "reset", "done", "reset_req"}
        \/ step = "segment" /\ tlv.type = "NVM" /\ tlv.full = 0 /\ ~tlv.rest)
      => soc.power /\ soc.fw = "loaded"

\* Both ends of a controller that this session switched on run at one speed.
RomeSpeed == Loading("ROME") /\ fresh => Heard /\ ~Stuck

Checked == {"a_ver", "a_crc", "a_crc_read", "a_da", "a_write", "a_ps_reset", "a_tags", "a_addr"}

Ar3kLine ==
    Loading("AR3K") =>
      /\ Quiescent \/ Stuck \/ Ar3kAnswered
      /\ waits = <<"PS">> => step \in Checked

\* Nothing leads to the reset of an AR3K but a checksum that was right or tags
\* that were taken.
Ar3kFirmware ==
    Loading("AR3K") /\ ~Stuck =>
      /\ step \in {"a_hci_reset", "a_baud2", "done"} => soc.fw = "loaded"
      /\ step = "a_addr" => soc.fw = "loaded" \/ (waits = <<"PS">> /\ rx = <<"ERR">>)
      /\ step = "a_crc_read" =>
           waits = <<"PS">> /\ (rx = <<"ERR">> \/ soc.fw = "loaded")

Ar3kSpeed ==
    Loading("AR3K") /\ fresh =>
      /\ soc.power /\ ~Stuck
      /\ baud = IF step \in {"a_rts", "a_baud", "a_speed"} THEN Slow ELSE Fast
      /\ soc.baud = IF step \in {"a_rts", "a_baud", "a_back_speed"} THEN Slow ELSE Fast

Calls == CallKnown /\ FreshKnown /\ FlagKnown /\ TransportKnown /\ FailedIsQuiet
Rome == RomeLine /\ RomeFlags /\ RomeFirmware /\ RomeSpeed
Ar3k == Ar3kLine /\ Ar3kFirmware /\ Ar3kSpeed

IInv == BtTypes /\ Calls /\ Rome /\ Ar3k

\* The library never takes a controller for a version that it is not.
VersionKnown == chipset_ver \in {"none", version}
-----------------------------------------------------------------------------
(* Sequences of at most three events. *)

Event == {"CCE", "VSE", "ERR", "VERSION", "STRAY", "PS"}

\* The first event of a sequence, and what is left of it.
LEMMA HeadTail ==
    ASSUME NEW a, NEW b, NEW c
    PROVE  /\ <<a>> # <<>> /\ Head(<<a>>) = a /\ Tail(<<a>>) = <<>>
           /\ <<a, b>> # <<>> /\ Head(<<a, b>>) = a /\ Tail(<<a, b>>) = <<b>>
           /\ <<a, b, c>> # <<>> /\ Head(<<a, b, c>>) = a /\ Tail(<<a, b, c>>) = <<b, c>>
  OBVIOUS

\* Sequences of different lengths differ.
LEMMA Lengths ==
    ASSUME NEW a, NEW b, NEW c, NEW d, NEW e, NEW f
    PROVE  /\ <<a>> # <<b, c>> /\ <<a>> # <<b, c, d>> /\ <<a, b>> # <<c, d, e>>
           /\ <<a>> = <<b>> => a = b
           /\ <<a, b>> = <<c, d>> => a = c /\ b = d
  OBVIOUS

\* An event in front of one or two others.
LEMMA Prepend ==
    ASSUME NEW a \in Event, NEW b \in Event, NEW c \in Event
    PROVE  <<a>> \o <<b>> = <<a, b>> /\ <<a>> \o <<b, c>> = <<a, b, c>>
<1>1. /\ <<a>> \in Seq(Event) /\ <<b>> \in Seq(Event) /\ <<a, b>> \in Seq(Event)
      /\ <<b, c>> \in Seq(Event) /\ <<a, b, c>> \in Seq(Event)
      /\ Len(<<a>>) = 1 /\ Len(<<b>>) = 1 /\ Len(<<a, b>>) = 2 /\ Len(<<b, c>>) = 2
      /\ Len(<<a, b, c>>) = 3
      /\ <<a>>[1] = a /\ <<b>>[1] = b /\ <<b, c>>[1] = b /\ <<b, c>>[2] = c
      /\ <<a, b>>[1] = a /\ <<a, b>>[2] = b
      /\ <<a, b, c>>[1] = a /\ <<a, b, c>>[2] = b /\ <<a, b, c>>[3] = c
  OBVIOUS
<1>2. <<a>> \o <<b>> = <<a, b>>
  <2> DEFINE s == <<a>> \o <<b>>
  <2>1. /\ s \in Seq(Event) /\ Len(s) = 2
        /\ \A i \in 1 .. 2 : s[i] = IF i <= 1 THEN <<a>>[i] ELSE <<b>>[i - 1]
    BY <1>1, ConcatProperties
  <2>2. \A i \in 1 .. 2 : s[i] = <<a, b>>[i]
    BY <1>1, <2>1
  <2> HIDE DEF s
  <2>3. s = <<a, b>>
    BY <1>1, <2>1, <2>2, SeqEqual
  <2> QED  BY <2>3 DEF s
<1>3. <<a>> \o <<b, c>> = <<a, b, c>>
  <2> DEFINE s == <<a>> \o <<b, c>>
  <2>1. /\ s \in Seq(Event) /\ Len(s) = 3
        /\ \A i \in 1 .. 3 : s[i] = IF i <= 1 THEN <<a>>[i] ELSE <<b, c>>[i - 1]
    BY <1>1, ConcatProperties
  <2>2. \A i \in 1 .. 3 : s[i] = <<a, b, c>>[i]
    BY <1>1, <2>1
  <2> HIDE DEF s
  <2>3. s = <<a, b, c>>
    BY <1>1, <2>1, <2>2, SeqEqual
  <2> QED  BY <2>3 DEF s
<1> QED  BY <1>2, <1>3

\* What the commands' reads and answers are put together from.
LEMMA Concatenations ==
    /\ \A s \in Seq(Event) : <<>> \o s = s /\ s \o <<>> = s
    /\ <<"VSE">> \o <<"CCE">> = <<"VSE", "CCE">>
    /\ <<"CCE">> \o <<"VSE">> = <<"CCE", "VSE">>
    /\ <<"CCE">> \o <<"VSE", "CCE">> = <<"CCE", "VSE", "CCE">>
<1>1. \A s \in Seq(Event) : <<>> \o s = s /\ s \o <<>> = s
  BY ConcatEmptySeq
<1>2. "VSE" \in Event /\ "CCE" \in Event
  BY DEF Event
<1> QED  BY <1>1, <1>2, Prepend

\* They are sequences of events.
LEMMA EventSequences ==
    /\ <<>> \in Seq(Event)
    /\ \A a \in Event : <<a>> \in Seq(Event)
    /\ \A a, b \in Event : <<a, b>> \in Seq(Event)
    /\ \A a, b, c \in Event : <<a, b, c>> \in Seq(Event)
  OBVIOUS

\* A refusal replaces the vendor event.
LEMMA RefusedAnswers ==
    /\ Refused(<<"VSE">>) = <<"ERR">>
    /\ Refused(<<"VSE", "CCE">>) = <<"ERR", "CCE">>
  BY DEF Refused

\* A stray event in front makes an answer begin with it.
LEMMA StrayFirst ==
    ASSUME NEW s \in Seq(Event)
    PROVE  (<<"STRAY">> \o s)[1] = "STRAY" /\ <<"STRAY">> \o s # s
  BY DEF Event
-----------------------------------------------------------------------------
(* The ROME loader. *)

\* What a step of a loader leaves alone.
LoaderFrame == UNCHANGED <<pc, soc_type, fresh>>

\* The reads and the answer of a command fit each other.
Fitting(w, a) ==
    \/ w = <<>> /\ a = <<>>
    \/ w = <<"VSE", "CCE">> /\ a \in {<<"VSE", "CCE">>, <<"VERSION", "CCE">>}
    \/ w = <<"CCE", "VSE", "CCE">> /\ a = <<"CCE", "VSE", "CCE">>
    \/ w = <<"CCE", "VSE">> /\ a = <<"CCE", "VSE">>
    \/ w = <<"VSE">> /\ a = <<"VSE">>
    \/ w = <<"CCE">> /\ a = <<"CCE">>

\* No reads outstanding means no events unread.
LEMMA RomeQuiescent ==
    ASSUME Loading("ROME"), RomeLine, waits = <<>>
    PROVE  Quiescent
  BY HeadTail DEF RomeLine, RomeAnswered, RomeRefused, Stuck

\* A command on a quiet line is answered if the controller hears it.
LEMMA Sent ==
    ASSUME Quiescent, NEW a \in Seq(Event), NEW w, NEW n, Command(a, w, n)
    PROVE  waits' = w /\ step' = n /\ rx' = IF Heard THEN a ELSE <<>>
  BY Concatenations DEF Command, Quiescent

\* A command whose reads fit its answer keeps the line of a ROME loader; it
\* gets stuck only where the controller does not hear it.
LEMMA RomeSends ==
    ASSUME Loading("ROME"), RomeLine, NEW a, NEW w, NEW n, Command(a, w, n), Fitting(w, a)
    PROVE  /\ waits' = w /\ step' = n
           /\ (Quiescent \/ Stuck \/ RomeAnswered)'
           /\ Stuck' <=> ~Heard /\ w # <<>>
<1>1. Quiescent
  BY RomeQuiescent DEF Command
<1>2. a \in Seq(Event)
  <2>1. "CCE" \in Event /\ "VSE" \in Event /\ "VERSION" \in Event
    BY DEF Event
  <2> QED  BY <2>1, EventSequences DEF Fitting
<1>3. waits' = w /\ step' = n /\ rx' = IF Heard THEN a ELSE <<>>
  BY <1>1, <1>2, Sent
<1>4. a = <<>> <=> w = <<>>
  BY HeadTail DEF Fitting
<1>5. Stuck' <=> ~Heard /\ w # <<>>
  BY <1>3, <1>4 DEF Stuck
<1>6. ASSUME Heard PROVE (Quiescent \/ RomeAnswered)'
  <2>1. waits' = w /\ rx' = a
    BY <1>3, <1>6
  <2> QED  BY <2>1 DEF Fitting, Quiescent, RomeAnswered
<1>7. ASSUME ~Heard PROVE (Quiescent \/ Stuck)'
  BY <1>3, <1>7 DEF Stuck, Quiescent
<1> QED  BY <1>3, <1>5, <1>6, <1>7

\* A loader that has given up, or that something has disturbed, owes nothing.
LEMMA RomeGivesUp ==
    ASSUME ~clean' \/ step' = "failed"
    PROVE  Rome'
  BY DEF Rome, RomeLine, RomeFlags, RomeFirmware, RomeSpeed, Loading

\* What a command that is no segment has to show.
LEMMA RomeCommandKeeps ==
    ASSUME Loading("ROME"), Rome, LoaderFrame,
           UNCHANGED <<clean, wait_vsc_evt, wait_cc_evt, version, chipset_ver>>,
           NEW a, NEW w, NEW n, Command(a, w, n), Fitting(w, a),
           n \notin {"segment", "nvm", "failed"}, step \notin {"segment", "nvm"},
           n \in Picked => step \in Picked,
           n \in {"attach", "rampatch_reset"} => tlv'.full = 0,
           n = "tags" => tlv'.full < TAGS,
           n \in {"build", "ldo", "reset", "done", "reset_req"} /\ (Heard \/ w = <<>>) =>
             soc'.power /\ soc'.fw = "loaded",
           Heard => Heard'
    PROVE  Rome'
<1>1. /\ waits' = w /\ step' = n
      /\ (Quiescent \/ Stuck \/ RomeAnswered)'
      /\ Stuck' <=> ~Heard /\ w # <<>>
  BY RomeSends DEF Rome
<1>2. RomeLine'
  BY <1>1 DEF RomeLine
<1>3. RomeFlags'
  BY <1>1 DEF RomeFlags, Rome, Picked
<1>4. RomeFirmware'
  BY <1>1 DEF RomeFirmware
<1>5. RomeSpeed'
  BY <1>1 DEF RomeSpeed, Rome, LoaderFrame, Loading
<1> QED  BY <1>2, <1>3, <1>4, <1>5 DEF Rome

\* A step that gives up leaves no read outstanding, and none starts again.
LEMMA RomeFailsQuiet ==
    ASSUME FailedIsQuiet, RomeStep \/ RomeIoFails \/ rome_soc_init
    PROVE  FailedIsQuiet' /\ step # "failed" /\ (clean' => clean)
<1> USE DEF FailedIsQuiet
<1>1. ASSUME NEW a, NEW w, NEW n, Command(a, w, n), n # "failed" PROVE FailedIsQuiet'
  BY <1>1 DEF Command
<1>2. CASE read_vs_hci_event
  BY <1>2 DEF read_vs_hci_event, get_vs_hci_event, Fails
<1>3. CASE RomeReadsEvent
  BY <1>3 DEF RomeReadsEvent, read_hci_event, romeVars
<1>4. CASE check_embedded_mode
  BY <1>1, <1>4 DEF check_embedded_mode, rome_wipower_current_charging_status_req,
                    hci_send_wipower_vs_cmd
<1>5. CASE rome_wipower_forward_handoff_req
  BY <1>1, <1>5 DEF rome_wipower_forward_handoff_req, hci_send_wipower_vs_cmd
<1>6. CASE rome_patch_ver_req
  BY <1>1, <1>6 DEF rome_patch_ver_req, hci_send_vs_cmd, Plain
<1>7. CASE ChooseFirmware
  BY <1>7 DEF ChooseFirmware, Plain
<1>8. CASE rome_set_baudrate_req
  BY <1>1, <1>8 DEF rome_set_baudrate_req
<1>9. CASE rome_get_tlv_file
  BY <1>9 DEF rome_get_tlv_file
<1>10. CASE NoTlvFile
  BY <1>10 DEF NoTlvFile
<1>11. ASSUME NEW vsc, NEW cc, NEW last, NEW n, n # "failed",
              rome_tlv_dnld_segment(vsc, cc, last, n)
       PROVE  FailedIsQuiet' /\ (clean' => clean)
  BY <1>1, <1>11 DEF rome_tlv_dnld_segment
<1>12. CASE SendFullSegment
  BY <1>11, <1>12 DEF SendFullSegment
<1>13. CASE SendRest
  BY <1>11, <1>13 DEF SendRest, AfterFile
<1>14. CASE rome_get_build_info_req
  BY <1>1, <1>14 DEF rome_get_build_info_req, hci_send_vs_cmd
<1>15. CASE disable_internal_ldo
  BY <1>1, <1>15 DEF disable_internal_ldo, Plain
<1>16. CASE rome_hci_reset
  BY <1>1, <1>16 DEF rome_hci_reset, Plain
<1>17. CASE rome_download_rampatch
  BY <1>17 DEF rome_download_rampatch
<1>18. CASE rome_edl_set_patch_request
  BY <1>1, <1>18 DEF rome_edl_set_patch_request, hci_send_vs_cmd, Plain
<1>19. CASE rome_edl_patch_download_request
  BY <1>1, <1>19 DEF rome_edl_patch_download_request, hci_send_vs_cmd
<1>20. CASE rome_attach_rampatch
  BY <1>1, <1>20 DEF rome_attach_rampatch, hci_send_vs_cmd
<1>21. CASE rome_rampatch_reset
  BY <1>1, <1>21 DEF rome_rampatch_reset, Plain
<1>22. CASE rome_1_0_nvm_tag_dnld
  <2>1. PICK n \in {"tags", "reset_req"} : hci_send_vs_cmd(<<"VSE", "CCE">>, n)
    BY <1>22 DEF rome_1_0_nvm_tag_dnld
  <2> QED  BY <1>1, <1>22, <2>1 DEF rome_1_0_nvm_tag_dnld, hci_send_vs_cmd
<1>23. CASE rome_hci_reset_req
  BY <1>1, <1>23 DEF rome_hci_reset_req
<1>24. CASE RomeIoFails
  BY <1>24 DEF RomeIoFails, Fails
<1>25. CASE rome_soc_init
  BY <1>25 DEF rome_soc_init
<1> QED
  BY <1>2, <1>3, <1>4, <1>5, <1>6, <1>7, <1>8, <1>9, <1>10, <1>12, <1>13, <1>14,
     <1>15, <1>16, <1>17, <1>18, <1>19, <1>20, <1>21, <1>22, <1>23, <1>24, <1>25 DEF RomeStep

\* An answer that is all there is not stuck.
LEMMA RomeNotStuck == (Quiescent \/ RomeAnswered \/ RomeRefused) => ~Stuck
  BY HeadTail DEF Quiescent, RomeAnswered, RomeRefused, Stuck

\* Reading the event that was waited for keeps the rest; a refusal ends the
\* download.
LEMMA RomeReadKeeps ==
    ASSUME VersionKnown, Loading("ROME"), Rome, LoaderFrame,
           read_vs_hci_event \/ RomeReadsEvent
    PROVE  Rome'
<1>1. /\ waits # <<>> /\ rx # <<>>
      /\ UNCHANGED <<soc, baud, clean, wait_vsc_evt, wait_cc_evt, tlv, version>>
      /\ chipset_ver' \in {chipset_ver, version}
  BY DEF read_vs_hci_event, get_vs_hci_event, RomeReadsEvent, read_hci_event, romeVars
<1>2. ~Stuck /\ (RomeAnswered \/ RomeRefused)
  BY <1>1 DEF Rome, RomeLine, Stuck, Quiescent
<1>3. ASSUME UNCHANGED step, (Quiescent \/ RomeAnswered)' PROVE Rome'
  <2>1. ~Stuck'
    BY <1>3, RomeNotStuck, PTL
  <2>2. Heard' <=> Heard
    BY <1>1 DEF Heard
  <2>3. step \in Picked => UNCHANGED chipset_ver
    BY <1>1 DEF Rome, RomeFlags, Filed, VersionKnown
  <2>4. step = "segment" => FileFlags /\ FileFlags'
    BY <1>1, <2>3 DEF Rome, RomeFlags, FileFlags, Picked
  <2>5. RomeFlags'
    BY <1>1, <1>3, <2>3, <2>4 DEF Rome, RomeFlags, Loading, LoaderFrame
  <2> QED
    BY <1>1, <1>2, <1>3, <2>1, <2>2, <2>5
       DEF Rome, RomeLine, RomeFirmware, RomeSpeed, Loading, LoaderFrame
<1>4. CASE RomeReadsEvent
  <2>1. Head(waits) = "CCE" /\ waits' = Tail(waits) /\ rx' = Tail(rx) /\ UNCHANGED step
    BY <1>4 DEF RomeReadsEvent, read_hci_event
  <2>2. CASE waits = <<"CCE", "VSE", "CCE">> /\ rx = <<"CCE", "VSE", "CCE">>
    BY <1>3, <2>1, <2>2, HeadTail DEF RomeAnswered
  <2>3. CASE waits = <<"CCE", "VSE">> /\ rx = <<"CCE", "VSE">>
    BY <1>3, <2>1, <2>3, HeadTail DEF RomeAnswered
  <2>4. CASE waits = <<"CCE">> /\ rx = <<"CCE">>
    BY <1>3, <2>1, <2>4, HeadTail DEF Quiescent
  <2>5. waits # <<"VSE", "CCE">> /\ waits # <<"VSE">>
    BY <2>1, HeadTail
  <2> QED  BY <1>2, <2>2, <2>3, <2>4, <2>5 DEF RomeAnswered, RomeRefused
<1>5. CASE read_vs_hci_event
  <2>1. Head(waits) = "VSE" /\ get_vs_hci_event
    BY <1>5 DEF read_vs_hci_event
  <2>2. /\ waits # <<"CCE", "VSE", "CCE">> /\ waits # <<"CCE", "VSE">> /\ waits # <<"CCE">>
    BY <2>1, HeadTail
  <2>3. ASSUME Head(rx) \in {"VSE", "VERSION"}
        PROVE  rx' = Tail(rx) /\ waits' = Tail(waits) /\ UNCHANGED step
    BY <2>1, <2>3 DEF get_vs_hci_event
  <2>4. CASE waits = <<"VSE", "CCE">> /\ rx \in {<<"VSE", "CCE">>, <<"VERSION", "CCE">>}
    <3>1. CASE rx = <<"VSE", "CCE">>
      <4>1. Head(rx) = "VSE" /\ Tail(rx) = <<"CCE">> /\ Tail(waits) = <<"CCE">>
        BY <2>4, <3>1, HeadTail
      <4> QED  BY <1>3, <2>3, <4>1 DEF RomeAnswered
    <3>2. CASE rx = <<"VERSION", "CCE">>
      <4>1. Head(rx) = "VERSION" /\ Tail(rx) = <<"CCE">> /\ Tail(waits) = <<"CCE">>
        BY <2>4, <3>2, HeadTail
      <4> QED  BY <1>3, <2>3, <4>1 DEF RomeAnswered
    <3> QED  BY <2>4, <3>1, <3>2
  <2>5. CASE waits = <<"VSE">> /\ rx = <<"VSE">>
    <3>1. Head(rx) = "VSE" /\ Tail(rx) = <<>> /\ Tail(waits) = <<>>
      BY <2>5, HeadTail
    <3> QED  BY <1>3, <2>3, <3>1 DEF Quiescent
  <2>6. CASE RomeRefused
    <3>1. Head(rx) = "ERR" /\ step \in {"segment", "nvm"}
      BY <2>6, HeadTail DEF RomeRefused
    <3>2. step' = "failed"
      BY <2>1, <3>1 DEF get_vs_hci_event, Fails, AfterFailure
    <3> QED  BY <3>2, RomeGivesUp
  <2> QED  BY <1>2, <2>2, <2>4, <2>5, <2>6 DEF RomeAnswered
<1> QED  BY <1>4, <1>5

\* With the vendor-event flag on a vendor command waits for both its events.
LEMMA VendorCommand ==
    ASSUME NEW n, NEW a, hci_send_vs_cmd(a, n), a \in {<<"VSE", "CCE">>, <<"VERSION", "CCE">>},
           wait_vsc_evt
    PROVE  Command(a, <<"VSE", "CCE">>, n) /\ Fitting(<<"VSE", "CCE">>, a)
  BY Concatenations DEF hci_send_vs_cmd, Fitting

\* The commands that open rome_soc_init.
LEMMA RomeCommandsKeep ==
    ASSUME BtTypes, Loading("ROME"), Rome, LoaderFrame,
           \/ check_embedded_mode \/ rome_wipower_forward_handoff_req \/ rome_patch_ver_req
           \/ rome_set_baudrate_req
    PROVE  Rome'
<1> USE DEF Picked
<1>1. UNCHANGED <<clean, wait_vsc_evt, wait_cc_evt, tlv, version, chipset_ver>>
  BY DEF check_embedded_mode, rome_wipower_forward_handoff_req, rome_patch_ver_req,
         rome_set_baudrate_req, Plain, flags, session
<1>2. ASSUME UNCHANGED <<soc, baud>> PROVE Heard => Heard'
  BY <1>2 DEF Heard
<1>3. CASE check_embedded_mode
  <2>1. UNCHANGED <<soc, baud>> /\ step = "embedded"
    BY <1>3 DEF check_embedded_mode
  <2>2. PICK w : Command(w, w, "begin") /\ Fitting(w, w)
    BY <1>3, Concatenations
       DEF check_embedded_mode, rome_wipower_current_charging_status_req,
           hci_send_wipower_vs_cmd, Fitting
  <2> QED  BY <1>1, <1>2, <2>1, <2>2, RomeCommandKeeps
<1>4. CASE rome_wipower_forward_handoff_req
  <2>1. UNCHANGED <<soc, baud>> /\ step = "handoff"
    BY <1>4 DEF rome_wipower_forward_handoff_req
  <2>2. PICK w : Command(w, w, "ver") /\ Fitting(w, w)
    BY <1>4, Concatenations
       DEF rome_wipower_forward_handoff_req, hci_send_wipower_vs_cmd, Fitting
  <2> QED  BY <1>1, <1>2, <2>1, <2>2, RomeCommandKeeps
<1>6. CASE rome_patch_ver_req
  <2>1. UNCHANGED <<soc, baud>> /\ step = "ver"
    BY <1>6 DEF rome_patch_ver_req, Plain
  <2>2. wait_vsc_evt
    BY <2>1 DEF Rome, RomeFlags
  <2>3. /\ Command(<<"VERSION", "CCE">>, <<"VSE", "CCE">>, "choose")
        /\ Fitting(<<"VSE", "CCE">>, <<"VERSION", "CCE">>)
    BY <1>6, <2>2, VendorCommand DEF rome_patch_ver_req
  <2> QED  BY <1>1, <1>2, <2>1, <2>3, RomeCommandKeeps
<1>7. CASE rome_set_baudrate_req
  <2>1. /\ step = "baud" /\ Command(<<"VSE", "CCE">>, <<"VSE", "CCE">>, "rampatch")
        /\ soc' = IF Heard THEN [soc EXCEPT !.baud = Fast] ELSE soc
        /\ baud' = Fast
    BY <1>7 DEF rome_set_baudrate_req, userial_vendor_set_baud, userial_to_tcio_baud,
                Speeds, Fast
  <2>2. Fitting(<<"VSE", "CCE">>, <<"VSE", "CCE">>)
    BY DEF Fitting
  <2>3. Heard => Heard'
    BY <2>1 DEF Heard, BtTypes
  <2> QED  BY <1>1, <2>1, <2>2, <2>3, RomeCommandKeeps
<1> QED  BY <1>3, <1>4, <1>6, <1>7

\* Where a step begins with a command nothing is stuck, so the firmware is known.
LEMMA RomeRunning ==
    ASSUME Loading("ROME"), Rome, waits = <<>>,
           step \in {"build", "ldo", "reset", "done", "reset_req"}
    PROVE  soc.power /\ soc.fw = "loaded"
  BY DEF Rome, RomeFirmware, Stuck

\* The commands that end it once the files are in.
LEMMA RomeLastCommandsKeep ==
    ASSUME BtTypes, Loading("ROME"), Rome, LoaderFrame,
           \/ rome_get_build_info_req \/ disable_internal_ldo \/ rome_hci_reset
           \/ rome_hci_reset_req
    PROVE  Rome'
<1> USE DEF Picked
<1>1. /\ UNCHANGED <<clean, wait_vsc_evt, wait_cc_evt, tlv, version, chipset_ver>>
      /\ waits = <<>> /\ step \in {"build", "ldo", "reset", "reset_req"}
  BY DEF rome_get_build_info_req, disable_internal_ldo, rome_hci_reset, rome_hci_reset_req,
         Plain, flags, session, hci_send_vs_cmd, Command
<1>2. soc.power /\ soc.fw = "loaded" /\ wait_vsc_evt
  BY <1>1, RomeRunning DEF Rome, RomeFlags
<1>3. ASSUME UNCHANGED <<soc, baud>> PROVE Heard => Heard'
  BY <1>3 DEF Heard
<1>4. CASE rome_get_build_info_req
  <2>1. UNCHANGED <<soc, baud>> /\ step = "build"
    BY <1>4 DEF rome_get_build_info_req
  <2>2. /\ Command(<<"VSE", "CCE">>, <<"VSE", "CCE">>, "ldo")
        /\ Fitting(<<"VSE", "CCE">>, <<"VSE", "CCE">>)
    BY <1>2, <1>4, VendorCommand DEF rome_get_build_info_req
  <2> QED  BY <1>1, <1>2, <1>3, <2>1, <2>2, RomeCommandKeeps
<1>5. CASE disable_internal_ldo
  <2>1. UNCHANGED <<soc, baud>> /\ step = "ldo"
    BY <1>5 DEF disable_internal_ldo, Plain
  <2>2. PICK w : Command(w, w, "reset") /\ Fitting(w, w)
    BY <1>5 DEF disable_internal_ldo, Fitting
  <2> QED  BY <1>1, <1>2, <1>3, <2>1, <2>2, RomeCommandKeeps
<1>6. CASE rome_hci_reset
  <2>1. UNCHANGED <<soc, baud>> /\ step = "reset"
    BY <1>6 DEF rome_hci_reset, Plain
  <2>2. Command(<<"CCE">>, <<"CCE">>, "done") /\ Fitting(<<"CCE">>, <<"CCE">>)
    BY <1>6 DEF rome_hci_reset, Fitting
  <2> QED  BY <1>1, <1>2, <1>3, <2>1, <2>2, RomeCommandKeeps
<1>7. CASE rome_hci_reset_req
  <2>1. /\ step = "reset_req" /\ Command(<<"CCE">>, <<"CCE">>, "done")
        /\ soc' = IF Heard THEN [soc EXCEPT !.baud = Fast] ELSE soc
        /\ baud' = Fast
    BY <1>7 DEF rome_hci_reset_req, userial_vendor_set_baud, userial_to_tcio_baud,
                Speeds, Fast
  <2>2. Fitting(<<"CCE">>, <<"CCE">>)
    BY DEF Fitting
  <2>3. Heard => Heard'
    BY <2>1 DEF Heard, BtTypes
  <2>4. soc'.power /\ soc'.fw = "loaded"
    BY <1>2, <2>1 DEF BtTypes
  <2> QED  BY <1>1, <2>1, <2>2, <2>3, <2>4, RomeCommandKeeps
<1> QED  BY <1>4, <1>5, <1>6, <1>7

\* The commands of ROME 1.0.
LEMMA RomeOneCommandsKeep ==
    ASSUME BtTypes, Loading("ROME"), Rome, LoaderFrame,
           \/ rome_edl_set_patch_request \/ rome_attach_rampatch \/ rome_rampatch_reset
           \/ rome_1_0_nvm_tag_dnld
    PROVE  Rome'
<1> USE DEF Picked
<1>1. /\ UNCHANGED <<clean, wait_vsc_evt, wait_cc_evt, baud, version, chipset_ver>>
      /\ step \in {"set_patch", "attach", "rampatch_reset", "tags"}
  BY DEF rome_edl_set_patch_request, rome_attach_rampatch, rome_rampatch_reset,
         rome_1_0_nvm_tag_dnld, Plain, flags, session
<1>2. wait_vsc_evt
  BY <1>1 DEF Rome, RomeFlags
<1>3. ASSUME soc'.power = soc.power, soc'.baud = soc.baud PROVE Heard => Heard'
  BY <1>1, <1>3 DEF Heard
<1>4. CASE rome_edl_set_patch_request
  <2>1. UNCHANGED soc /\ step = "set_patch"
    BY <1>4 DEF rome_edl_set_patch_request, Plain
  <2>2. /\ Command(<<"VSE", "CCE">>, <<"VSE", "CCE">>, "segment_1_0")
        /\ Fitting(<<"VSE", "CCE">>, <<"VSE", "CCE">>)
    BY <1>2, <1>4, VendorCommand DEF rome_edl_set_patch_request
  <2> QED  BY <1>1, <1>3, <2>1, <2>2, RomeCommandKeeps
<1>5. CASE rome_attach_rampatch
  <2>1. /\ UNCHANGED tlv /\ step = "attach"
        /\ soc' = IF Heard THEN [soc EXCEPT !.fw = "half"] ELSE soc
    BY <1>5 DEF rome_attach_rampatch
  <2>2. /\ Command(<<"VSE", "CCE">>, <<"VSE", "CCE">>, "rampatch_reset")
        /\ Fitting(<<"VSE", "CCE">>, <<"VSE", "CCE">>)
    BY <1>2, <1>5, VendorCommand DEF rome_attach_rampatch
  <2>3. soc'.power = soc.power /\ soc'.baud = soc.baud
    BY <2>1 DEF BtTypes
  <2>4. tlv'.full = 0
    BY <2>1 DEF Rome, RomeFlags
  <2> QED  BY <1>1, <1>3, <2>1, <2>2, <2>3, <2>4, RomeCommandKeeps
<1>6. CASE rome_rampatch_reset
  <2>1. UNCHANGED <<soc, tlv>> /\ step = "rampatch_reset"
    BY <1>6 DEF rome_rampatch_reset, Plain
  <2>2. Command(<<>>, <<>>, "tags") /\ Fitting(<<>>, <<>>)
    BY <1>6 DEF rome_rampatch_reset, Fitting
  <2>3. tlv'.full < TAGS
    BY <2>1, RomeAssumption DEF Rome, RomeFlags
  <2> QED  BY <1>1, <1>3, <2>1, <2>2, <2>3, RomeCommandKeeps
<1>7. CASE rome_1_0_nvm_tag_dnld
  <2>1. /\ step = "tags" /\ tlv.full < TAGS
        /\ tlv' = [tlv EXCEPT !.full = IF @ < TAGS - 1 THEN @ + 1 ELSE 0]
        /\ soc' = IF Heard /\ tlv.full = TAGS - 1 THEN [soc EXCEPT !.fw = "loaded"] ELSE soc
    BY <1>7 DEF rome_1_0_nvm_tag_dnld, Rome, RomeFlags
  <2>2. soc'.power = soc.power /\ soc'.baud = soc.baud
    BY <2>1 DEF BtTypes
  <2>3. CASE tlv.full < TAGS - 1
    <3>1. hci_send_vs_cmd(<<"VSE", "CCE">>, "tags")
      BY <1>7, <2>3 DEF rome_1_0_nvm_tag_dnld
    <3>2. /\ Command(<<"VSE", "CCE">>, <<"VSE", "CCE">>, "tags")
          /\ Fitting(<<"VSE", "CCE">>, <<"VSE", "CCE">>)
      BY <1>2, <3>1, VendorCommand
    <3>3. tlv'.full < TAGS
      BY <2>1, <2>3, RomeAssumption DEF BtTypes
    <3> QED  BY <1>1, <1>3, <2>1, <2>2, <3>2, <3>3, RomeCommandKeeps
  <2>4. CASE ~(tlv.full < TAGS - 1)
    <3>1. hci_send_vs_cmd(<<"VSE", "CCE">>, "reset_req")
      BY <1>7, <2>4 DEF rome_1_0_nvm_tag_dnld
    <3>2. /\ Command(<<"VSE", "CCE">>, <<"VSE", "CCE">>, "reset_req")
          /\ Fitting(<<"VSE", "CCE">>, <<"VSE", "CCE">>)
      BY <1>2, <3>1, VendorCommand
    <3>3. tlv.full = TAGS - 1
      BY <2>1, <2>4, RomeAssumption DEF BtTypes
    <3>4. Heard => soc'.power /\ soc'.fw = "loaded"
      BY <2>1, <3>3 DEF BtTypes, Heard
    <3>5. <<"VSE", "CCE">> # <<>>
      BY HeadTail
    <3> QED  BY <1>1, <1>3, <2>1, <2>2, <3>2, <3>4, <3>5, RomeCommandKeeps
  <2> QED  BY <2>3, <2>4
<1> QED  BY <1>4, <1>5, <1>6, <1>7

\* What a step that sends nothing has to show.
LEMMA RomeMoveKeeps ==
    ASSUME Loading("ROME"), Rome, LoaderFrame, waits = <<>>,
           UNCHANGED <<soc, baud, rx, waits, clean>>,
           RomeFlags', RomeFirmware'
    PROVE  Rome'
<1>1. Quiescent'
  BY RomeQuiescent DEF Rome, Quiescent
<1>2. RomeLine'
  BY <1>1 DEF RomeLine
<1>3. ~Stuck'
  BY <1>1 DEF Quiescent, Stuck
<1>4. RomeSpeed'
  BY <1>3 DEF RomeSpeed, Rome, Loading, LoaderFrame, Heard
<1> QED  BY <1>2, <1>4 DEF Rome

\* The steps that send nothing: the choice of the firmware, a file that is opened
\* or missing, the last full segment of a 1.0 patch.
LEMMA RomeMovesKeep ==
    ASSUME BtTypes, VersionKnown, Loading("ROME"), Rome, LoaderFrame,
           \/ ChooseFirmware \/ rome_get_tlv_file \/ NoTlvFile \/ rome_download_rampatch
           \/ rome_edl_patch_download_request \/ rome_soc_init
    PROVE  Rome'
<1> USE DEF Picked
<1>1. CASE ChooseFirmware
  <2>1. /\ step = "choose" /\ waits = <<>>
        /\ step' \in {"rampatch_1_0", "baud", "failed"}
        /\ step' = "baud" => chipset_ver \in Filed
        /\ UNCHANGED <<soc, baud, rx, waits, clean, wait_vsc_evt, wait_cc_evt, tlv, chipset_ver>>
    BY <1>1 DEF ChooseFirmware, Plain, flags, session, Filed
  <2>2. RomeFlags' /\ RomeFirmware'
    BY <2>1 DEF Rome, RomeFlags, RomeFirmware, Loading
  <2> QED  BY <2>1, <2>2, RomeMoveKeeps
<1>2. CASE rome_get_tlv_file
  <2>0. SUFFICES ASSUME clean' PROVE Rome'
    BY RomeGivesUp
  <2>1. PICK f \in Files(IF step = "rampatch" THEN "PATCH" ELSE "NVM") :
          /\ tlv' = f /\ Supported(f) /\ UNCHANGED clean
          /\ wait_vsc_evt' = (f.cfg = "NONE" \/ (f.cfg = "OTHER" /\ wait_vsc_evt))
          /\ wait_cc_evt' = (f.cfg # "VSE_CC")
    BY <1>2, <2>0 DEF rome_get_tlv_file
  <2>2. /\ step' = "segment" /\ waits = <<>> /\ chipset_ver \in Filed
        /\ UNCHANGED <<soc, baud, rx, waits, clean, version, chipset_ver>>
    BY <1>2, <2>1 DEF rome_get_tlv_file, session, Rome, RomeFlags
  <2>3. /\ tlv'.type \in {"PATCH", "NVM"}
        /\ tlv'.type = "NVM" => tlv'.cfg = "NONE"
        /\ tlv'.full > 0 \/ tlv'.rest
        /\ tlv'.full \in Nat
    BY <2>1, RomeAssumption DEF Files
  <2>4. tlv'.cfg = "NONE" \/ (tlv'.cfg = "VSE_CC" /\ version = "3.2")
    BY <2>1 DEF Supported
  <2>5. /\ tlv'.cfg = "NONE" => wait_vsc_evt' /\ wait_cc_evt'
        /\ tlv'.cfg = "VSE_CC" => ~wait_vsc_evt' /\ ~wait_cc_evt'
    BY <2>1
  <2>6. RomeFlags'
    <3>1. version = "3.2" => chipset_ver = "3.2"
      BY <2>2 DEF VersionKnown, Filed
    <3>2. FileFlags'
      BY <2>2, <2>3, <2>4, <2>5, <3>1 DEF FileFlags
    <3> QED  BY <2>2, <3>2 DEF RomeFlags
  <2>7. RomeFirmware'
    BY <2>2, <2>3 DEF RomeFirmware
  <2> QED  BY <2>2, <2>6, <2>7, RomeMoveKeeps
<1>3. CASE NoTlvFile
  BY <1>3, RomeGivesUp DEF NoTlvFile
<1>4. CASE rome_download_rampatch
  <2>1. /\ step = "rampatch_1_0" /\ waits = <<>>
        /\ step' \in {"set_patch", "failed"}
        /\ UNCHANGED <<soc, baud, rx, waits, clean, wait_vsc_evt, wait_cc_evt, chipset_ver>>
    BY <1>4 DEF rome_download_rampatch, flags, session
  <2>2. RomeFlags' /\ RomeFirmware'
    BY <2>1 DEF Rome, RomeFlags, RomeFirmware, Loading
  <2> QED  BY <2>1, <2>2, RomeMoveKeeps
<1>5. CASE rome_edl_patch_download_request
  <2>1. /\ step = "segment_1_0" /\ waits = <<>>
        /\ UNCHANGED <<soc, baud, clean, wait_vsc_evt, wait_cc_evt, version, chipset_ver>>
    BY <1>5 DEF rome_edl_patch_download_request, flags, session
  <2>2. wait_vsc_evt
    BY <2>1 DEF Rome, RomeFlags
  <2>3. CASE hci_send_vs_cmd(<<"VSE", "CCE">>, "segment_1_0")
    <3>1. /\ Command(<<"VSE", "CCE">>, <<"VSE", "CCE">>, "segment_1_0")
          /\ Fitting(<<"VSE", "CCE">>, <<"VSE", "CCE">>)
      BY <2>2, <2>3, VendorCommand
    <3>2. Heard => Heard'
      BY <2>1 DEF Heard
    <3> QED  BY <2>1, <3>1, <3>2, RomeCommandKeeps
  <2>4. CASE tlv.full = 0 /\ step' = "attach" /\ UNCHANGED <<rx, waits, tlv>>
    <3>1. RomeFlags' /\ RomeFirmware'
      BY <2>1, <2>2, <2>4 DEF RomeFlags, RomeFirmware
    <3> QED  BY <2>1, <2>4, <3>1, RomeMoveKeeps
  <2> QED  BY <1>5, <2>3, <2>4 DEF rome_edl_patch_download_request
<1>6. CASE rome_soc_init
  <2>1. /\ step = "begin" /\ waits = <<>>
        /\ step' \in {"handoff", "ver"}
        /\ UNCHANGED <<soc, baud, rx, waits, clean, wait_vsc_evt, wait_cc_evt, tlv, chipset_ver>>
    BY <1>6 DEF rome_soc_init, flags, session
  <2>2. RomeFlags' /\ RomeFirmware'
    BY <2>1 DEF Rome, RomeFlags, RomeFirmware, Loading
  <2> QED  BY <2>1, <2>2, RomeMoveKeeps
<1> QED  BY <1>1, <1>2, <1>3, <1>4, <1>5, <1>6

\* What the flags make a segment wait for.
Reads(vsc, cc) == (IF vsc THEN <<"VSE">> ELSE <<>>) \o (IF cc THEN <<"CCE">> ELSE <<>>)

\* The files whose segments are sent in a clean download.
LEMMA FileKinds ==
    ASSUME BtTypes, FileFlags
    PROVE  /\ tlv.type \in {"PATCH", "NVM"} /\ tlv.cfg \in {"NONE", "VSE_CC"}
           /\ tlv.cfg = "VSE_CC" => tlv.type = "PATCH" /\ chipset_ver = "3.2"
           /\ Supported(tlv)
  BY DEF BtTypes, FileFlags, Handlings, Supported

\* The flags of a full segment ask for exactly its events.
LEMMA FullSegmentReads ==
    ASSUME BtTypes, FileFlags, chipset_ver \in Filed, tlv.full > 0
    PROVE  Reads(full_flags[1], full_flags[2]) = SegmentAnswer(tlv.full = 1 /\ ~tlv.rest)
<1> DEFINE last == tlv.full = 1 /\ ~tlv.rest
<1>1. CASE tlv.cfg = "VSE_CC"
  <2>1. Quiet /\ ~Spoken /\ tlv.type # "NVM"
    BY <1>1, FileKinds DEF Quiet, Spoken
  <2>2. full_flags[1] <=> last
    BY <1>1, <2>1 DEF full_flags, FileFlags
  <2>3. ~full_flags[2]
    BY <1>1, <2>1 DEF full_flags, FileFlags
  <2>4. SegmentAnswer(last) = IF last THEN <<"VSE">> ELSE <<>>
    BY <1>1, <2>1 DEF SegmentAnswer
  <2> QED  BY <2>2, <2>3, <2>4, Concatenations, EventSequences DEF Reads, Event
<1>2. CASE tlv.cfg = "NONE" /\ tlv.type = "PATCH"
  <2>1. Spoken /\ ~Quiet
    BY <1>2 DEF Quiet, Spoken, Filed
  <2>2. full_flags[1]
    BY <1>2, <2>1 DEF full_flags, FileFlags
  <2>3. full_flags[2] <=> ~last
    BY <1>2, <2>1 DEF full_flags, FileFlags
  <2>4. SegmentAnswer(last) = IF last THEN <<"VSE">> ELSE <<"VSE", "CCE">>
    BY <1>2 DEF SegmentAnswer
  <2> QED  BY <2>2, <2>3, <2>4, Concatenations, EventSequences, ZenonT(60) DEF Reads, Event
<1>3. CASE tlv.type = "NVM"
  <2>1. full_flags[1] /\ full_flags[2]
    BY <1>3 DEF full_flags, FileFlags, Quiet, Spoken
  <2>2. SegmentAnswer(last) = <<"VSE", "CCE">>
    BY <1>3 DEF SegmentAnswer, FileFlags
  <2> QED  BY <2>1, <2>2, Concatenations DEF Reads
<1> QED  BY <1>1, <1>2, <1>3, FileKinds

\* So do the flags of what is left of the file.
LEMMA RestReads ==
    ASSUME BtTypes, FileFlags, chipset_ver \in Filed, tlv.rest
    PROVE  Reads(rest_flags[1], rest_flags[2]) = SegmentAnswer(TRUE)
<1>1. CASE tlv.type = "PATCH"
  <2>1. rest_flags[1] /\ ~rest_flags[2]
    BY <1>1, FileKinds DEF rest_flags, FileFlags, Quiet, Spoken, Filed
  <2>2. SegmentAnswer(TRUE) = <<"VSE">>
    BY <1>1 DEF SegmentAnswer
  <2> QED  BY <2>1, <2>2, Concatenations, EventSequences, ZenonT(60) DEF Reads, Event
<1>2. CASE tlv.type = "NVM"
  <2>1. rest_flags[1] /\ rest_flags[2]
    BY <1>2 DEF rest_flags, FileFlags, Quiet, Spoken
  <2>2. SegmentAnswer(TRUE) = <<"VSE", "CCE">>
    BY <1>2 DEF SegmentAnswer, FileFlags
  <2> QED  BY <2>1, <2>2, Concatenations DEF Reads
<1> QED  BY <1>1, <1>2, FileKinds

\* The three answers to a segment.
LEMMA SegmentAnswerKinds ==
    ASSUME FileFlags, NEW last
    PROVE  /\ SegmentAnswer(last) \in {<<>>, <<"VSE">>, <<"VSE", "CCE">>}
           /\ tlv.type = "NVM" => SegmentAnswer(last) = <<"VSE", "CCE">>
  BY DEF SegmentAnswer, FileFlags

\* A segment that nothing disturbs is answered, or refused where it belongs to a
\* patch; the last one of the NVM leaves the whole firmware behind.
LEMMA SegmentSent ==
    ASSUME BtTypes, Loading("ROME"), Rome, FileFlags,
           NEW vsc, NEW cc, NEW last \in BOOLEAN, NEW n,
           rome_tlv_dnld_segment(vsc, cc, last, n), Reads(vsc, cc) = SegmentAnswer(last),
           tlv.type = "PATCH" => n \in {"segment", "nvm"}, clean'
    PROVE  /\ step' = n
           /\ (Quiescent \/ Stuck \/ RomeAnswered \/ RomeRefused)'
           /\ Heard => ~Stuck'
           /\ soc'.power = soc.power /\ soc'.baud = soc.baud
           /\ last /\ tlv.type = "NVM" /\ ~Stuck' => soc'.power /\ soc'.fw = "loaded"
<1> DEFINE s == SegmentAnswer(last)
<1>1. PICK a \in SegmentAnswers(last) :
        /\ Command(a, s, n)
        /\ IF a = s THEN UNCHANGED <<faults, clean>>
           ELSE Fault /\ clean' = (clean /\ a[1] # "STRAY")
        /\ Loaded(last, a)
  BY FileKinds DEF rome_tlv_dnld_segment, Reads
<1>2. Quiescent
  BY <1>1, RomeQuiescent DEF Rome, Command
<1>3. /\ s \in {<<>>, <<"VSE">>, <<"VSE", "CCE">>}
      /\ tlv.type = "NVM" => s = <<"VSE", "CCE">>
  BY SegmentAnswerKinds
<1>4. /\ soc'.power = soc.power /\ soc'.baud = soc.baud
      /\ UNCHANGED soc \/ soc'.fw = IF tlv.type = "NVM" THEN "loaded" ELSE "half"
  BY <1>1 DEF Loaded, BtTypes
<1> HIDE DEF s
<1>5. a = s \/ (tlv.type = "PATCH" /\ s # <<>> /\ a = Refused(s))
  <2>1. SUFFICES ASSUME s # <<>>, NEW t \in {s, Refused(s)}, a = <<"STRAY">> \o t
                 PROVE  FALSE
    BY <1>1, FileKinds DEF SegmentAnswers, s
  <2>2. s \in {<<"VSE">>, <<"VSE", "CCE">>}
    BY <1>3, <2>1
  <2>3. "VSE" \in Event /\ "CCE" \in Event /\ "ERR" \in Event
    BY DEF Event
  <2>4. t \in Seq(Event)
    BY <2>2, <2>3, RefusedAnswers, EventSequences
  <2>5. a[1] = "STRAY"
    BY <2>1, <2>4, StrayFirst
  <2>6. s[1] = "VSE"
    BY <2>2
  <2>7. a # s
    BY <2>5, <2>6
  <2> QED  BY <1>1, <2>5, <2>7
<1>6. CASE a = s
  <2>1. Fitting(s, a)
    BY <1>3, <1>6 DEF Fitting
  <2>2. /\ waits' = s /\ step' = n
        /\ (Quiescent \/ Stuck \/ RomeAnswered)'
        /\ Stuck' <=> ~Heard /\ s # <<>>
    BY <1>1, <2>1, RomeSends DEF Rome
  <2>3. ASSUME last, tlv.type = "NVM", ~Stuck' PROVE soc'.power /\ soc'.fw = "loaded"
    <3>1. s = <<"VSE", "CCE">> /\ Heard
      BY <1>3, <2>2, <2>3, HeadTail
    <3>2. "ERR" \notin {a[i] : i \in DOMAIN a}
      BY <1>6, <3>1
    <3> QED  BY <1>1, <1>4, <2>3, <3>1, <3>2 DEF Loaded, BtTypes, Heard
  <2> QED  BY <1>4, <2>2, <2>3
<1>7. CASE tlv.type = "PATCH" /\ s # <<>> /\ a = Refused(s)
  <2>1. \/ s = <<"VSE">> /\ a = <<"ERR">>
        \/ s = <<"VSE", "CCE">> /\ a = <<"ERR", "CCE">>
    BY <1>3, <1>7, RefusedAnswers
  <2>2. a \in Seq(Event)
    BY <2>1, EventSequences DEF Event
  <2>3. waits' = s /\ step' = n /\ rx' = IF Heard THEN a ELSE <<>>
    BY <1>1, <1>2, <2>2, Sent
  <2>4. a # <<>>
    BY <2>1, HeadTail
  <2>5. Heard => ~Stuck'
    BY <2>3, <2>4 DEF Stuck
  <2>6. (Stuck \/ RomeRefused)'
    BY <1>7, <2>1, <2>3 DEF Stuck, RomeRefused
  <2> QED  BY <1>4, <1>7, <2>3, <2>5, <2>6
<1> QED  BY <1>5, <1>6, <1>7

\* The segments of a file.
LEMMA RomeSegmentsKeep ==
    ASSUME BtTypes, Loading("ROME"), Rome, LoaderFrame, SendFullSegment \/ SendRest
    PROVE  Rome'
<1>0. SUFFICES ASSUME clean' PROVE Rome'
  BY RomeGivesUp
<1>1. /\ step = "segment" /\ waits = <<>> /\ UNCHANGED <<baud, version, chipset_ver>>
      /\ tlv'.type = tlv.type /\ tlv'.cfg = tlv.cfg /\ tlv'.rest = tlv.rest
  BY DEF SendFullSegment, SendRest, BtTypes, session
<1>2. FileFlags /\ chipset_ver \in Filed
  BY <1>1 DEF Rome, RomeFlags, Picked
<1>6. /\ tlv.type \in {"PATCH", "NVM"} /\ tlv.cfg \in {"NONE", "VSE_CC"}
      /\ tlv.cfg = "VSE_CC" => tlv.type = "PATCH" /\ chipset_ver = "3.2"
  BY <1>2, FileKinds
<1>3. ASSUME soc'.power = soc.power, soc'.baud = soc.baud, Heard => ~Stuck'
      PROVE  RomeSpeed'
  BY <1>1, <1>3 DEF RomeSpeed, Rome, Loading, LoaderFrame, Heard
<1>4. CASE SendFullSegment
  <2> DEFINE last == tlv.full = 1 /\ ~tlv.rest
  <2>1. /\ rome_tlv_dnld_segment(full_flags[1], full_flags[2], last, "segment")
        /\ wait_vsc_evt' = full_flags[1] /\ wait_cc_evt' = full_flags[2]
        /\ tlv.full > 0 /\ tlv'.full = tlv.full - 1
    BY <1>4 DEF SendFullSegment, BtTypes
  <2>2. Reads(full_flags[1], full_flags[2]) = SegmentAnswer(last)
    BY <1>2, <2>1, FullSegmentReads
  <2>3. last \in BOOLEAN
    OBVIOUS
  <2> HIDE DEF last
  <2>4. /\ step' = "segment"
        /\ (Quiescent \/ Stuck \/ RomeAnswered \/ RomeRefused)'
        /\ Heard => ~Stuck'
        /\ soc'.power = soc.power /\ soc'.baud = soc.baud
        /\ last /\ tlv.type = "NVM" /\ ~Stuck' => soc'.power /\ soc'.fw = "loaded"
    BY <1>0, <1>2, <2>1, <2>2, <2>3, SegmentSent
  <2>5. RomeLine'
    BY <2>4 DEF RomeLine
  <2>6. /\ tlv.cfg = "NONE" => wait_vsc_evt' /\ (tlv'.full > 0 => wait_cc_evt')
        /\ tlv.cfg = "VSE_CC" => ~wait_cc_evt' /\ (tlv'.full > 0 => ~wait_vsc_evt')
        /\ tlv.type = "NVM" => wait_cc_evt'
    BY <1>2, <1>6, <2>1 DEF full_flags, Quiet, Spoken, FileFlags, BtTypes
  <2>7. RomeFlags'
    <3>1. FileFlags'
      BY <1>1, <1>2, <2>6 DEF FileFlags
    <3> QED  BY <1>1, <1>2, <2>4, <3>1 DEF RomeFlags
  <2>8. tlv'.full = 0 /\ ~tlv'.rest => last
    BY <1>1, <2>1 DEF last, BtTypes
  <2>9. RomeFirmware'
    BY <1>1, <2>4, <2>8 DEF RomeFirmware
  <2> QED  BY <1>3, <2>4, <2>5, <2>7, <2>9 DEF Rome
<1>5. CASE SendRest
  <2>1. /\ wait_vsc_evt' = rest_flags[1] /\ wait_cc_evt' = rest_flags[2]
        /\ tlv.full = 0 /\ UNCHANGED tlv
    BY <1>5 DEF SendRest
  <2>2. AfterFile = IF tlv.type = "PATCH" THEN "nvm" ELSE "build"
    BY DEF AfterFile
  <2>3. tlv.type = "NVM" => wait_vsc_evt'
    BY <1>2, <2>1 DEF rest_flags, Quiet, Spoken, FileFlags
  <2>4. step' = AfterFile => RomeFlags'
    BY <1>1, <1>2, <1>6, <2>2, <2>3 DEF RomeFlags, Picked
  <2>5. CASE tlv.rest
    <3>1. rome_tlv_dnld_segment(rest_flags[1], rest_flags[2], TRUE, AfterFile)
      BY <1>5, <2>5 DEF SendRest
    <3>2. Reads(rest_flags[1], rest_flags[2]) = SegmentAnswer(TRUE)
      BY <1>2, <2>5, RestReads
    <3>3. /\ step' = AfterFile
          /\ (Quiescent \/ Stuck \/ RomeAnswered \/ RomeRefused)'
          /\ Heard => ~Stuck'
          /\ soc'.power = soc.power /\ soc'.baud = soc.baud
          /\ tlv.type = "NVM" /\ ~Stuck' => soc'.power /\ soc'.fw = "loaded"
      BY <1>0, <1>2, <2>2, <3>1, <3>2, SegmentSent
    <3>4. RomeLine'
      BY <3>3 DEF RomeLine
    <3>5. RomeFirmware'
      BY <1>6, <2>2, <3>3 DEF RomeFirmware
    <3> QED  BY <1>3, <2>4, <3>3, <3>4, <3>5 DEF Rome
  <2>6. CASE ~tlv.rest
    <3>1. step' = AfterFile /\ UNCHANGED <<soc, rx, waits, clean>>
      BY <1>5, <2>6 DEF SendRest
    <3>2. tlv.type = "NVM" => soc.power /\ soc.fw = "loaded"
      BY <1>1, <2>1, <2>6 DEF Rome, RomeFirmware, Stuck
    <3>3. RomeFirmware'
      BY <1>6, <2>2, <3>1, <3>2 DEF RomeFirmware
    <3> QED  BY <1>1, <2>4, <3>1, <3>3, RomeMoveKeeps
  <2> QED  BY <2>5, <2>6
<1> QED  BY <1>4, <1>5

\* Every step of the ROME loader.
LEMMA RomeStepKeeps ==
    ASSUME BtTypes, VersionKnown, Loading("ROME"), Rome, LoaderFrame,
           RomeStep \/ RomeIoFails \/ rome_soc_init
    PROVE  Rome'
<1>1. RomeIoFails => Rome'
  BY RomeGivesUp DEF RomeIoFails
<1> QED
  BY <1>1, RomeReadKeeps, RomeCommandsKeep, RomeLastCommandsKeep, RomeOneCommandsKeep,
     RomeMovesKeep, RomeSegmentsKeep DEF RomeStep
-----------------------------------------------------------------------------
(* The AR3K loader. *)

\* The reads and the answer of a command of this loader.
Ar3kFitting(w, a) ==
    \/ w = <<>> /\ a = <<>>
    \/ w = <<"CCE">> /\ a = <<"CCE">>
    \/ w = <<"PS">> /\ a \in {<<"CCE">>, <<"ERR">>}

\* The steps at which the two ends may differ in speed, and those before.
Shifting == {"a_rts", "a_baud", "a_speed", "a_back_speed"}

\* No reads outstanding means no events unread.
LEMMA Ar3kQuiescent ==
    ASSUME Loading("AR3K"), Ar3kLine, waits = <<>>
    PROVE  Quiescent
  BY HeadTail DEF Ar3kLine, Ar3kAnswered, Stuck

\* A command on a quiet line is answered if it is heard.
LEMMA Ar3kSends ==
    ASSUME Loading("AR3K"), Ar3kLine, NEW a, NEW w, NEW n, Command(a, w, n), Ar3kFitting(w, a)
    PROVE  /\ waits' = w /\ step' = n /\ rx' = IF Heard THEN a ELSE <<>>
           /\ (Quiescent \/ Stuck \/ Ar3kAnswered)'
           /\ Stuck' <=> ~Heard /\ w # <<>>
<1>1. Quiescent
  BY Ar3kQuiescent DEF Command
<1>2. a \in Seq(Event)
  <2>1. "CCE" \in Event /\ "ERR" \in Event
    BY DEF Event
  <2> QED  BY <2>1, EventSequences DEF Ar3kFitting
<1>3. waits' = w /\ step' = n /\ rx' = IF Heard THEN a ELSE <<>>
  BY <1>1, <1>2, Sent
<1>4. a = <<>> <=> w = <<>>
  BY HeadTail DEF Ar3kFitting
<1>5. Stuck' <=> ~Heard /\ w # <<>>
  BY <1>3, <1>4 DEF Stuck
<1>6. (Quiescent \/ Stuck \/ Ar3kAnswered)'
  BY <1>3 DEF Ar3kFitting, Quiescent, Stuck, Ar3kAnswered
<1> QED  BY <1>3, <1>5, <1>6

\* What a command has to show.
LEMMA Ar3kCommandKeeps ==
    ASSUME Loading("AR3K"), Ar3k, NEW a, NEW w, NEW n, Command(a, w, n), Ar3kFitting(w, a),
           w = <<"PS">> => n \in Checked,
           n \in {"a_hci_reset", "a_baud2", "done"} => soc'.fw = "loaded",
           n = "a_addr" => w = <<"PS">> /\ (a = <<"ERR">> \/ (Heard => soc'.fw = "loaded")),
           n = "a_crc_read" => w = <<"PS">> /\ (a = <<"ERR">> \/ (Heard => soc'.fw = "loaded")),
           (Heard => ~Stuck') => Ar3kSpeed'
    PROVE  Ar3k'
<1>1. /\ waits' = w /\ step' = n /\ rx' = IF Heard THEN a ELSE <<>>
      /\ (Quiescent \/ Stuck \/ Ar3kAnswered)'
      /\ Stuck' <=> ~Heard /\ w # <<>>
  BY Ar3kSends DEF Ar3k
<1>2. Ar3kLine'
  BY <1>1 DEF Ar3kLine
<1>3. <<"PS">> # <<>>
  BY HeadTail
<1>4. Ar3kFirmware'
  BY <1>1, <1>3 DEF Ar3kFirmware
<1>5. Ar3kSpeed'
  BY <1>1
<1> QED  BY <1>2, <1>4, <1>5 DEF Ar3k

\* Away from the speed changes the speeds stay.
LEMMA Ar3kSpeedStays ==
    ASSUME Loading("AR3K"), Ar3k, LoaderFrame, step \notin Shifting, step' \notin Shifting,
           soc'.power = soc.power, soc'.baud = soc.baud, UNCHANGED <<baud, clean>>,
           Heard => ~Stuck'
    PROVE  Ar3kSpeed'
<1>1. fresh => soc.power /\ baud = Fast /\ soc.baud = Fast
  BY DEF Ar3k, Ar3kSpeed, Shifting
<1>2. fresh => Heard
  BY <1>1 DEF Heard
<1> QED  BY <1>1, <1>2 DEF Ar3kSpeed, Shifting, LoaderFrame

\* A loader that has given up, or that something has disturbed, owes nothing.
LEMMA Ar3kGivesUp ==
    ASSUME ~clean' \/ step' = "failed"
    PROVE  Ar3k'
  BY DEF Ar3k, Ar3kLine, Ar3kFirmware, Ar3kSpeed, Loading

\* The checked commands: carried out or refused.
LEMMA Ar3kCheckedKeeps ==
    ASSUME BtTypes, Loading("AR3K"), Ar3k, LoaderFrame, UNCHANGED <<baud, clean>>,
           NEW n, NEW fw \in {"rom", "half", "loaded"}, write_cmd(n, fw),
           step \notin Shifting, n \in Checked \ {"a_crc_read"}, n = "a_addr" => fw = "loaded"
    PROVE  Ar3k'
<1>1. PICK a \in {<<"CCE">>, <<"ERR">>} :
        /\ Command(a, <<"PS">>, n)
        /\ a = <<"ERR">> \/ soc' = IF Heard THEN [soc EXCEPT !.fw = fw] ELSE soc
        /\ soc' \in {soc, [soc EXCEPT !.fw = fw]}
  BY DEF write_cmd
<1>2. soc'.power = soc.power /\ soc'.baud = soc.baud
  BY <1>1 DEF BtTypes
<1>3. Ar3kFitting(<<"PS">>, a)
  BY <1>1 DEF Ar3kFitting
<1>4. a = <<"ERR">> \/ (Heard => soc'.fw = fw)
  BY <1>1 DEF BtTypes
<1>5. step' = n /\ n \notin Shifting /\ n \notin {"a_hci_reset", "a_baud2", "done", "a_crc_read"}
  BY <1>1 DEF Command, Shifting, Checked
<1>6. (Heard => ~Stuck') => Ar3kSpeed'
  BY <1>2, <1>5, Ar3kSpeedStays
<1> QED  BY <1>1, <1>3, <1>4, <1>5, <1>6, Ar3kCommandKeeps

\* The commands whose answer is checked, the checksum's excepted.
LEMMA Ar3kCheckedCommandsKeep ==
    ASSUME BtTypes, Loading("AR3K"), Ar3k, LoaderFrame,
           \/ get_device_type \/ read_ath3k_version \/ set_patch_ram
           \/ ps_patch_download \/ ps_config_download
    PROVE  Ar3k'
<1> USE DEF Shifting, Checked
<1>1. UNCHANGED <<baud, clean>>
  BY DEF get_device_type, read_ath3k_version, set_patch_ram, ps_patch_download,
         ps_config_download, Ar3kPlain
<1>2. soc.fw \in {"rom", "half", "loaded"}
  BY DEF BtTypes
<1>3. CASE get_device_type
  BY <1>1, <1>2, <1>3, Ar3kCheckedKeeps DEF get_device_type
<1>4. CASE read_ath3k_version
  BY <1>1, <1>2, <1>4, Ar3kCheckedKeeps DEF read_ath3k_version
<1>5. CASE set_patch_ram
  BY <1>1, <1>2, <1>5, Ar3kCheckedKeeps DEF set_patch_ram
<1>6. CASE ps_patch_download
  <2>1. step = "a_write" /\ (write_cmd("a_write", soc.fw) \/ write_cmd("a_ps_reset", "half"))
    BY <1>6 DEF ps_patch_download, write_ps_cmd
  <2> QED  BY <1>1, <1>2, <2>1, Ar3kCheckedKeeps
<1>7. CASE ps_config_download
  <2>1. /\ step \in {"a_ps_reset", "a_tags"}
        /\ write_cmd("a_tags", soc.fw) \/ write_cmd("a_addr", "loaded")
    BY <1>7 DEF ps_config_download, write_ps_cmd
  <2> QED  BY <1>1, <1>2, <2>1, Ar3kCheckedKeeps
<1> QED  BY <1>3, <1>4, <1>5, <1>6, <1>7

\* The other commands.
LEMMA Ar3kCommandsKeep ==
    ASSUME BtTypes, Loading("AR3K"), Ar3k, LoaderFrame,
           \/ get_ath3k_crc \/ write_bdaddr_from_file \/ Ar3kReset \/ RepeatSpeed
           \/ RaiseControllerSpeed \/ LowerControllerSpeed
    PROVE  Ar3k'
<1> USE DEF Shifting
<1>1. UNCHANGED <<baud, clean>> /\ waits = <<>>
  BY DEF get_ath3k_crc, write_bdaddr_from_file, Ar3kReset, RepeatSpeed, RaiseControllerSpeed,
         LowerControllerSpeed, Ar3kPlain, Command, set_cntrlr_baud
<1>2. ~Stuck
  BY <1>1 DEF Stuck
<1>3. <<"CCE">> # <<"PS">> /\ <<>> # <<"PS">>
  BY Lengths, HeadTail
<1>4. Ar3kFitting(<<"CCE">>, <<"CCE">>) /\ Ar3kFitting(<<>>, <<>>)
  BY DEF Ar3kFitting
<1>5. CASE get_ath3k_crc
  <2>1. PICK a \in {<<"CCE">>, <<"ERR">>} :
          /\ Command(a, <<"PS">>, "a_crc_read")
          /\ soc.fw # "loaded" => a = <<"ERR">>
    BY <1>5 DEF get_ath3k_crc
  <2>2. UNCHANGED soc /\ step = "a_crc"
    BY <1>5 DEF get_ath3k_crc
  <2>3. Ar3kFitting(<<"PS">>, a)
    BY DEF Ar3kFitting
  <2>4. (Heard => ~Stuck') => Ar3kSpeed'
    BY <1>1, <2>1, <2>2, Ar3kSpeedStays DEF Command
  <2> QED  BY <2>1, <2>2, <2>3, <2>4, Ar3kCommandKeeps DEF Checked
<1>6. CASE write_bdaddr_from_file
  <2>1. UNCHANGED soc /\ step = "a_addr"
    BY <1>6 DEF write_bdaddr_from_file
  <2>2. soc.fw = "loaded"
    BY <1>1, <1>2, <1>3, <2>1 DEF Ar3k, Ar3kFirmware
  <2>3. PICK w : Command(w, w, "a_hci_reset") /\ Ar3kFitting(w, w) /\ w # <<"PS">>
    BY <1>3, <1>4, <1>6 DEF write_bdaddr_from_file
  <2>4. (Heard => ~Stuck') => Ar3kSpeed'
    BY <1>1, <2>1, <2>3, Ar3kSpeedStays DEF Command
  <2> QED  BY <2>1, <2>2, <2>3, <2>4, Ar3kCommandKeeps
<1>7. CASE Ar3kReset
  <2>1. UNCHANGED soc /\ step = "a_hci_reset" /\ Command(<<"CCE">>, <<"CCE">>, "a_baud2")
    BY <1>7 DEF Ar3kReset
  <2>2. soc.fw = "loaded"
    BY <1>2, <2>1 DEF Ar3k, Ar3kFirmware
  <2>3. (Heard => ~Stuck') => Ar3kSpeed'
    BY <1>1, <2>1, Ar3kSpeedStays DEF Command
  <2> QED  BY <1>3, <1>4, <2>1, <2>2, <2>3, Ar3kCommandKeeps
<1>8. CASE RepeatSpeed
  <2>1. /\ step = "a_baud2" /\ Command(<<"CCE">>, <<"CCE">>, "done")
        /\ soc' = IF Heard THEN [soc EXCEPT !.baud = Fast] ELSE soc
    BY <1>8 DEF RepeatSpeed, set_cntrlr_baud
  <2>2. soc.fw = "loaded" /\ soc'.fw = soc.fw /\ soc'.power = soc.power
    BY <1>2, <2>1 DEF Ar3k, Ar3kFirmware, BtTypes
  <2>3. fresh => soc.power /\ baud = Fast /\ soc.baud = Fast
    BY <2>1 DEF Ar3k, Ar3kSpeed
  <2>4. fresh => Heard /\ soc'.baud = Fast
    BY <2>1, <2>3 DEF Heard, BtTypes
  <2>5. (Heard => ~Stuck') => Ar3kSpeed'
    BY <1>1, <2>1, <2>2, <2>3, <2>4 DEF Ar3kSpeed, LoaderFrame, Command
  <2> QED  BY <1>3, <1>4, <2>1, <2>2, <2>5, Ar3kCommandKeeps
<1>9. CASE RaiseControllerSpeed
  <2>1. /\ step = "a_baud" /\ Command(<<"CCE">>, <<"CCE">>, "a_speed")
        /\ soc' = IF Heard THEN [soc EXCEPT !.baud = Fast] ELSE soc
    BY <1>9 DEF RaiseControllerSpeed, set_cntrlr_baud
  <2>2. fresh => soc.power /\ baud = Slow /\ soc.baud = Slow
    BY <2>1 DEF Ar3k, Ar3kSpeed
  <2>3. fresh => Heard /\ soc'.baud = Fast /\ soc'.power
    BY <2>1, <2>2 DEF Heard, BtTypes
  <2>4. (Heard => ~Stuck') => Ar3kSpeed'
    BY <1>1, <2>1, <2>2, <2>3 DEF Ar3kSpeed, LoaderFrame, Command
  <2> QED  BY <1>3, <1>4, <2>1, <2>4, Ar3kCommandKeeps
<1>10. CASE LowerControllerSpeed
  <2>1. /\ step = "a_back" /\ Command(<<"CCE">>, <<"CCE">>, "a_back_speed")
        /\ soc' = IF Heard THEN [soc EXCEPT !.baud = Slow] ELSE soc
    BY <1>10 DEF LowerControllerSpeed, set_cntrlr_baud
  <2>2. fresh => soc.power /\ baud = Fast /\ soc.baud = Fast
    BY <2>1 DEF Ar3k, Ar3kSpeed
  <2>3. fresh => Heard /\ soc'.baud = Slow /\ soc'.power
    BY <2>1, <2>2 DEF Heard, BtTypes
  <2>4. (Heard => ~Stuck') => Ar3kSpeed'
    BY <1>1, <2>1, <2>2, <2>3 DEF Ar3kSpeed, LoaderFrame, Command
  <2> QED  BY <1>3, <1>4, <2>1, <2>4, Ar3kCommandKeeps
<1> QED  BY <1>5, <1>6, <1>7, <1>8, <1>9, <1>10

\* What a step that sends nothing has to show.
LEMMA Ar3kMoveKeeps ==
    ASSUME Loading("AR3K"), Ar3k, waits = <<>>, UNCHANGED <<rx, waits>>,
           step' \notin {"a_hci_reset", "a_baud2", "done", "a_addr", "a_crc_read"},
           ~Stuck' => Ar3kSpeed'
    PROVE  Ar3k'
<1>1. Quiescent'
  BY Ar3kQuiescent DEF Ar3k, Quiescent
<1>2. waits' # <<"PS">> /\ ~Stuck'
  BY <1>1, HeadTail DEF Quiescent, Stuck
<1> QED  BY <1>1, <1>2 DEF Ar3k, Ar3kLine, Ar3kFirmware

\* The steps that send nothing.
LEMMA Ar3kMovesKeep ==
    ASSUME BtTypes, Loading("AR3K"), Ar3k, LoaderFrame,
           \/ FlowControlOn \/ RaiseHostSpeed \/ OpenPsFile \/ ath_parse_ps
           \/ OpenPatchFile \/ AddressLinesEnd \/ LowerHostSpeed
    PROVE  Ar3k'
<1> USE DEF Shifting
<1>0. SUFFICES ASSUME clean', step' # "failed" PROVE Ar3k'
  BY Ar3kGivesUp
<1>1. waits = <<>> /\ UNCHANGED <<rx, waits, soc, clean>>
  BY <1>0 DEF FlowControlOn, RaiseHostSpeed, OpenPsFile, ath_parse_ps, OpenPatchFile,
              AddressLinesEnd, LowerHostSpeed, Ar3kPlain
<1>2. CASE FlowControlOn
  <2>1. step = "a_rts" /\ step' = "a_baud" /\ UNCHANGED baud
    BY <1>0, <1>2 DEF FlowControlOn, Ar3kPlain
  <2>2. ~Stuck' => Ar3kSpeed'
    BY <1>1, <2>1 DEF Ar3k, Ar3kSpeed, LoaderFrame
  <2> QED  BY <1>1, <2>1, <2>2, Ar3kMoveKeeps
<1>3. CASE RaiseHostSpeed
  <2>1. step = "a_speed" /\ step' = "a_dev" /\ baud' = Fast
    BY <1>0, <1>3 DEF RaiseHostSpeed, set_speed, userial_vendor_set_baud,
                      userial_to_tcio_baud, Speeds, Fast
  <2>2. ~Stuck' => Ar3kSpeed'
    BY <1>1, <2>1 DEF Ar3k, Ar3kSpeed, LoaderFrame
  <2> QED  BY <1>1, <2>1, <2>2, Ar3kMoveKeeps
<1>4. ASSUME UNCHANGED baud, step \in {"a_files", "a_parse", "a_patch", "a_da"},
             step' \in {"a_parse", "a_back", "a_patch", "a_ps_reset", "a_da", "a_write"}
      PROVE  Ar3k'
  <2>1. ~Stuck' => Ar3kSpeed'
    BY <1>1, <1>4 DEF Ar3k, Ar3kSpeed, LoaderFrame
  <2> QED  BY <1>1, <1>4, <2>1, Ar3kMoveKeeps
<1>5. CASE OpenPsFile
  BY <1>0, <1>4, <1>5 DEF OpenPsFile
<1>6. CASE ath_parse_ps
  BY <1>4, <1>6 DEF ath_parse_ps
<1>7. CASE OpenPatchFile
  BY <1>4, <1>7 DEF OpenPatchFile
<1>8. CASE AddressLinesEnd
  BY <1>4, <1>8 DEF AddressLinesEnd, Ar3kPlain
<1>9. CASE LowerHostSpeed
  BY <1>0, <1>9 DEF LowerHostSpeed
<1> QED  BY <1>2, <1>3, <1>5, <1>6, <1>7, <1>8, <1>9

\* Reading an answer.
LEMMA Ar3kReadKeeps ==
    ASSUME Loading("AR3K"), Ar3k, LoaderFrame, read_ps_event \/ Ar3kReadsEvent
    PROVE  Ar3k'
<1>1. /\ waits # <<>> /\ rx # <<>> /\ UNCHANGED <<soc, baud, clean>>
  BY DEF read_ps_event, Ar3kReadsEvent, read_hci_event, Ar3kPlain
<1>2. ~Stuck /\ Ar3kAnswered
  BY <1>1 DEF Ar3k, Ar3kLine, Stuck, Quiescent
<1>3. CASE Ar3kReadsEvent
  <2>1. Head(waits) = "CCE" /\ waits' = Tail(waits) /\ rx' = Tail(rx) /\ UNCHANGED step
    BY <1>3 DEF Ar3kReadsEvent, read_hci_event
  <2>2. waits = <<"CCE">> /\ rx = <<"CCE">>
    BY <1>2, <2>1, HeadTail DEF Ar3kAnswered
  <2>3. waits' = <<>> /\ rx' = <<>> /\ waits # <<"PS">>
    BY <2>1, <2>2, HeadTail, Lengths
  <2>4. waits' # <<"PS">> /\ ~Stuck' /\ Quiescent'
    BY <2>3, HeadTail DEF Stuck, Quiescent
  <2>5. Ar3kSpeed'
    BY <1>1, <2>1, <2>4 DEF Ar3k, Ar3kSpeed, Loading, LoaderFrame
  <2>6. Ar3kFirmware'
    BY <1>1, <1>2, <2>1, <2>3 DEF Ar3k, Ar3kFirmware, Loading, LoaderFrame
  <2> QED  BY <2>4, <2>5, <2>6 DEF Ar3k, Ar3kLine
<1>4. CASE read_ps_event
  <2>1. /\ Head(waits) = "PS" /\ waits' = <<>> /\ rx' = Tail(rx)
        /\ step' = IF step = "a_crc_read"
                   THEN IF Head(rx) = "CCE" THEN "a_addr" ELSE "a_files"
                   ELSE IF Head(rx) = "CCE" THEN step ELSE Ar3kAfterFailure(step)
    BY <1>4 DEF read_ps_event
  <2>2. waits = <<"PS">> /\ rx \in {<<"CCE">>, <<"ERR">>}
    BY <1>2, <2>1, HeadTail DEF Ar3kAnswered
  <2>3. step \in Checked
    BY <2>2 DEF Ar3k, Ar3kLine
  <2>4. Tail(rx) = <<>> /\ (Head(rx) = "CCE" <=> rx # <<"ERR">>)
    <3>1. CASE rx = <<"CCE">>
      BY <3>1, HeadTail, Lengths
    <3>2. CASE rx = <<"ERR">>
      BY <3>2, HeadTail
    <3> QED  BY <2>2, <3>1, <3>2
  <2>5. waits' # <<"PS">> /\ ~Stuck' /\ Quiescent'
    BY <2>1, <2>4, HeadTail DEF Stuck, Quiescent
  <2>6. step \notin Shifting /\ step' \notin Shifting
    BY <2>1, <2>3 DEF Checked, Shifting, Ar3kAfterFailure
  <2>7. Ar3kSpeed'
    BY <1>1, <2>5, <2>6, Ar3kSpeedStays
  <2>8. step' \notin {"a_hci_reset", "a_baud2", "done", "a_crc_read"}
    BY <2>1, <2>3 DEF Checked, Ar3kAfterFailure
  <2>9. step' = "a_addr" => soc.fw = "loaded"
    <3>1. step' = "a_addr" => rx # <<"ERR">> /\ step \in {"a_addr", "a_crc_read"}
      BY <2>1, <2>3, <2>4 DEF Checked, Ar3kAfterFailure
    <3> QED  BY <1>2, <3>1 DEF Ar3k, Ar3kFirmware
  <2> QED  BY <1>1, <2>5, <2>7, <2>8, <2>9 DEF Ar3k, Ar3kLine, Ar3kFirmware
<1> QED  BY <1>3, <1>4

\* Every step of the AR3K loader.
LEMMA Ar3kStepKeeps ==
    ASSUME BtTypes, Loading("AR3K"), Ar3k, LoaderFrame, Ar3kStep \/ Ar3kIoFails
    PROVE  Ar3k'
<1>1. Ar3kIoFails => Ar3k'
  BY Ar3kGivesUp DEF Ar3kIoFails
<1> QED
  BY <1>1, Ar3kReadKeeps, Ar3kCheckedCommandsKeep, Ar3kCommandsKeep, Ar3kMovesKeep DEF Ar3kStep

\* A step that gives up leaves no read outstanding, and none starts again.
LEMMA Ar3kFailsQuiet ==
    ASSUME FailedIsQuiet, Ar3kStep \/ Ar3kIoFails
    PROVE  FailedIsQuiet' /\ step # "failed" /\ (clean' => clean)
<1> USE DEF FailedIsQuiet
<1>1. ASSUME NEW a, NEW w, NEW n, Command(a, w, n), n # "failed" PROVE FailedIsQuiet'
  BY <1>1 DEF Command
<1>2. ASSUME NEW n, NEW fw, write_cmd(n, fw), n # "failed" PROVE FailedIsQuiet'
  BY <1>1, <1>2 DEF write_cmd
<1>3. CASE read_ps_event \/ Ar3kReadsEvent
  BY <1>3 DEF read_ps_event, Ar3kReadsEvent, read_hci_event, Ar3kPlain
<1>4. CASE FlowControlOn \/ RaiseHostSpeed \/ OpenPsFile \/ ath_parse_ps \/ OpenPatchFile
           \/ AddressLinesEnd \/ LowerHostSpeed
  <2>1. waits = <<>> /\ UNCHANGED waits
    BY <1>4 DEF FlowControlOn, RaiseHostSpeed, OpenPsFile, ath_parse_ps, OpenPatchFile,
                AddressLinesEnd, LowerHostSpeed
  <2>2. step # "failed" /\ (clean' => clean)
    BY <1>4 DEF FlowControlOn, RaiseHostSpeed, OpenPsFile, ath_parse_ps, OpenPatchFile,
                AddressLinesEnd, LowerHostSpeed, Ar3kPlain
  <2> QED  BY <2>1, <2>2
<1>5. CASE get_device_type \/ read_ath3k_version \/ set_patch_ram
  BY <1>2, <1>5 DEF get_device_type, read_ath3k_version, set_patch_ram, Ar3kPlain
<1>6. CASE ps_patch_download
  BY <1>2, <1>6 DEF ps_patch_download, write_ps_cmd
<1>7. CASE ps_config_download
  <2>1. /\ step \in {"a_ps_reset", "a_tags"} /\ UNCHANGED clean
        /\ write_cmd("a_tags", soc.fw) \/ write_cmd("a_addr", "loaded")
    BY <1>7 DEF ps_config_download, write_ps_cmd
  <2> QED  BY <1>2, <2>1
<1>8. CASE get_ath3k_crc \/ write_bdaddr_from_file \/ Ar3kReset
  BY <1>1, <1>8 DEF get_ath3k_crc, write_bdaddr_from_file, Ar3kReset, Ar3kPlain
<1>9. CASE RaiseControllerSpeed \/ RepeatSpeed \/ LowerControllerSpeed
  BY <1>1, <1>9 DEF RaiseControllerSpeed, RepeatSpeed, LowerControllerSpeed, set_cntrlr_baud,
                    Ar3kPlain
<1>10. CASE Ar3kIoFails
  BY <1>10 DEF Ar3kIoFails
<1> QED
  BY <1>3, <1>4, <1>5, <1>6, <1>7, <1>8, <1>9, <1>10 DEF Ar3kStep
-----------------------------------------------------------------------------
(* Types. *)

\* What a loader changes.
LoaderTypes ==
    /\ soc \in [power : BOOLEAN, fw : {"rom", "half", "loaded"}, baud : {Slow, Fast}]
    /\ baud \in {Slow, Fast}
    /\ tlv \in [type : {"NONE", "PATCH", "NVM"}, cfg : Handlings,
                full : Nat, rest : BOOLEAN]
    /\ wait_vsc_evt \in BOOLEAN /\ wait_cc_evt \in BOOLEAN /\ clean \in BOOLEAN

\* The steps of the ROME loader keep their types.
LEMMA RomeTypesKept ==
    ASSUME LoaderTypes, RomeStep \/ RomeIoFails \/ rome_soc_init
    PROVE  LoaderTypes'
<1> DEFINE S == [power : BOOLEAN, fw : {"rom", "half", "loaded"}, baud : {Slow, Fast}]
           F == [type : {"NONE", "PATCH", "NVM"}, cfg : Handlings,
                 full : Nat, rest : BOOLEAN]
<1>1. /\ \A fw \in {"rom", "half", "loaded"} : [soc EXCEPT !.fw = fw] \in S
      /\ [soc EXCEPT !.baud = Fast] \in S
  BY DEF LoaderTypes
<1>2. ASSUME UNCHANGED <<soc, baud, tlv, wait_vsc_evt, wait_cc_evt>>, clean' \in {clean, FALSE}
      PROVE  LoaderTypes'
  BY <1>2, ZenonT(60) DEF LoaderTypes
<1>3. CASE \/ read_vs_hci_event \/ RomeReadsEvent \/ check_embedded_mode
           \/ rome_wipower_forward_handoff_req \/ rome_patch_ver_req \/ ChooseFirmware
           \/ NoTlvFile \/ rome_get_build_info_req \/ disable_internal_ldo \/ rome_hci_reset
           \/ rome_edl_set_patch_request \/ rome_rampatch_reset \/ RomeIoFails
           \/ rome_soc_init
  <2>1. /\ UNCHANGED <<soc, baud, tlv, wait_vsc_evt, wait_cc_evt>>
        /\ clean' \in {clean, FALSE}
    BY <1>3
       DEF read_vs_hci_event, get_vs_hci_event, RomeReadsEvent, check_embedded_mode,
           rome_wipower_forward_handoff_req, rome_patch_ver_req, ChooseFirmware, NoTlvFile,
           rome_get_build_info_req, disable_internal_ldo, rome_hci_reset,
           rome_edl_set_patch_request, rome_rampatch_reset, RomeIoFails, rome_soc_init,
           Plain, flags, romeVars
  <2> QED  BY <1>2, <2>1
<1>4. CASE rome_set_baudrate_req \/ rome_hci_reset_req
  <2>1. /\ soc' \in {soc, [soc EXCEPT !.baud = Fast]} /\ baud' = Fast
        /\ UNCHANGED <<tlv, wait_vsc_evt, wait_cc_evt, clean>>
    BY <1>4 DEF rome_set_baudrate_req, rome_hci_reset_req, userial_vendor_set_baud,
                userial_to_tcio_baud, Speeds, Fast, flags
  <2> QED  BY <1>1, <2>1 DEF LoaderTypes
<1>5. \A type \in {"PATCH", "NVM"} : Files(type) \subseteq F
  BY RomeAssumption DEF Files, Handlings
<1>6. CASE rome_get_tlv_file
  <2>1. PICK f \in F :
          /\ tlv' = f
          /\ wait_vsc_evt' = (f.cfg = "NONE" \/ (f.cfg = "OTHER" /\ wait_vsc_evt))
          /\ wait_cc_evt' = (f.cfg # "VSE_CC")
    BY <1>5, <1>6 DEF rome_get_tlv_file
  <2>2. UNCHANGED <<soc, baud>> /\ clean' \in {clean, FALSE}
    BY <1>6 DEF rome_get_tlv_file
  <2> QED  BY <2>1, <2>2 DEF LoaderTypes
<1>7. CASE rome_download_rampatch
  <2>1. tlv' \in F
    BY <1>5, <1>7 DEF rome_download_rampatch, rome_extract_patch_header_info, LoaderTypes
  <2>2. UNCHANGED <<soc, baud, clean, wait_vsc_evt, wait_cc_evt>>
    BY <1>7 DEF rome_download_rampatch, flags
  <2> QED  BY <2>1, <2>2 DEF LoaderTypes
<1>8. CASE rome_edl_patch_download_request
  <2>1. tlv' \in F
    <3>1. \/ UNCHANGED tlv
          \/ tlv' = [tlv EXCEPT !.rest = FALSE]
          \/ tlv.full > 0 /\ tlv' = [tlv EXCEPT !.full = @ - 1]
      BY <1>8 DEF rome_edl_patch_download_request
    <3>2. tlv \in F /\ [tlv EXCEPT !.rest = FALSE] \in F
      BY DEF LoaderTypes
    <3>3. ASSUME tlv.full > 0 PROVE [tlv EXCEPT !.full = @ - 1] \in F
      BY <3>3 DEF LoaderTypes
    <3> QED  BY <3>1, <3>2, <3>3
  <2>2. UNCHANGED <<soc, baud, clean, wait_vsc_evt, wait_cc_evt>>
    BY <1>8 DEF rome_edl_patch_download_request, flags
  <2> QED  BY <2>1, <2>2 DEF LoaderTypes
<1>9. CASE rome_attach_rampatch
  <2>1. soc' \in {soc, [soc EXCEPT !.fw = "half"]}
    BY <1>9 DEF rome_attach_rampatch
  <2>2. UNCHANGED <<baud, tlv, clean, wait_vsc_evt, wait_cc_evt>>
    BY <1>9 DEF rome_attach_rampatch, flags
  <2> QED  BY <1>1, <2>1, <2>2 DEF LoaderTypes
<1>10. CASE rome_1_0_nvm_tag_dnld
  <2>1. soc' \in {soc, [soc EXCEPT !.fw = "loaded"]}
    BY <1>10 DEF rome_1_0_nvm_tag_dnld
  <2>2. tlv' \in F
    BY <1>10 DEF rome_1_0_nvm_tag_dnld, LoaderTypes
  <2>3. UNCHANGED <<baud, clean, wait_vsc_evt, wait_cc_evt>>
    BY <1>10 DEF rome_1_0_nvm_tag_dnld, flags
  <2> QED  BY <1>1, <2>1, <2>2, <2>3 DEF LoaderTypes
<1>11. ASSUME NEW vsc, NEW cc, NEW last, NEW n, rome_tlv_dnld_segment(vsc, cc, last, n)
       PROVE  soc' \in S /\ clean' \in BOOLEAN
  BY <1>1, <1>11 DEF rome_tlv_dnld_segment, Loaded, LoaderTypes
<1>12. full_flags[1] \in BOOLEAN /\ full_flags[2] \in BOOLEAN
       /\ rest_flags[1] \in BOOLEAN /\ rest_flags[2] \in BOOLEAN
  BY DEF full_flags, rest_flags, LoaderTypes
<1>13. CASE SendFullSegment
  <2>1. tlv' \in F
    BY <1>13 DEF SendFullSegment, LoaderTypes
  <2>2. /\ wait_vsc_evt' \in BOOLEAN /\ wait_cc_evt' \in BOOLEAN /\ UNCHANGED baud
    BY <1>12, <1>13 DEF SendFullSegment
  <2>3. soc' \in S /\ clean' \in BOOLEAN
    BY <1>11, <1>13 DEF SendFullSegment
  <2> QED  BY <2>1, <2>2, <2>3 DEF LoaderTypes
<1>14. CASE SendRest
  <2>1. /\ wait_vsc_evt' \in BOOLEAN /\ wait_cc_evt' \in BOOLEAN /\ UNCHANGED <<baud, tlv>>
    BY <1>12, <1>14 DEF SendRest
  <2>2. soc' \in S /\ clean' \in BOOLEAN
    BY <1>11, <1>14 DEF SendRest, LoaderTypes
  <2> QED  BY <2>1, <2>2 DEF LoaderTypes
<1> QED
  BY <1>3, <1>4, <1>6, <1>7, <1>8, <1>9, <1>10, <1>13, <1>14 DEF RomeStep

\* So do those of the AR3K loader.
LEMMA Ar3kTypesKept ==
    ASSUME LoaderTypes, Ar3kStep \/ Ar3kIoFails
    PROVE  LoaderTypes'
<1> DEFINE S == [power : BOOLEAN, fw : {"rom", "half", "loaded"}, baud : {Slow, Fast}]
           F == [type : {"NONE", "PATCH", "NVM"}, cfg : Handlings,
                 full : Nat, rest : BOOLEAN]
<1>1. UNCHANGED <<wait_vsc_evt, wait_cc_evt>>
  BY DEF Ar3kStep, Ar3kIoFails, read_ps_event, Ar3kReadsEvent, FlowControlOn,
         RaiseControllerSpeed, RaiseHostSpeed, get_device_type, read_ath3k_version,
         get_ath3k_crc, OpenPsFile, ath_parse_ps, OpenPatchFile, set_patch_ram,
         AddressLinesEnd, ps_patch_download, ps_config_download, write_bdaddr_from_file,
         Ar3kReset, RepeatSpeed, LowerControllerSpeed, LowerHostSpeed, Ar3kPlain, Ar3kFrame,
         flags
<1>2. clean' \in {clean, FALSE}
  BY DEF Ar3kStep, Ar3kIoFails, read_ps_event, Ar3kReadsEvent, FlowControlOn,
         RaiseControllerSpeed, RaiseHostSpeed, get_device_type, read_ath3k_version,
         get_ath3k_crc, OpenPsFile, ath_parse_ps, OpenPatchFile, set_patch_ram,
         AddressLinesEnd, ps_patch_download, ps_config_download, write_bdaddr_from_file,
         Ar3kReset, RepeatSpeed, LowerControllerSpeed, LowerHostSpeed, Ar3kPlain
<1>3. /\ \A fw \in {"rom", "half", "loaded"} : [soc EXCEPT !.fw = fw] \in S
      /\ \A b \in {Slow, Fast} : [soc EXCEPT !.baud = b] \in S
      /\ soc.fw \in {"rom", "half", "loaded"} /\ soc \in S
  BY DEF LoaderTypes
<1>4. ASSUME NEW n, NEW fw \in {"rom", "half", "loaded"}, write_cmd(n, fw) PROVE soc' \in S
  BY <1>3, <1>4 DEF write_cmd
<1>5. SUFFICES baud' \in {Slow, Fast} /\ tlv' \in F /\ soc' \in S
  BY <1>1, <1>2 DEF LoaderTypes
<1>6. CASE \/ read_ps_event \/ Ar3kReadsEvent \/ FlowControlOn \/ get_ath3k_crc \/ OpenPsFile
           \/ ath_parse_ps \/ AddressLinesEnd \/ write_bdaddr_from_file \/ Ar3kReset
           \/ Ar3kIoFails
  <2>1. UNCHANGED <<soc, baud, tlv>>
    BY <1>6 DEF read_ps_event, Ar3kReadsEvent, FlowControlOn, get_ath3k_crc, OpenPsFile,
                ath_parse_ps, AddressLinesEnd, write_bdaddr_from_file, Ar3kReset, Ar3kIoFails,
                Ar3kPlain
  <2> QED  BY <2>1 DEF LoaderTypes
<1>7. CASE get_device_type \/ read_ath3k_version
  <2>1. soc' \in S /\ UNCHANGED <<baud, tlv>>
    BY <1>3, <1>4, <1>7 DEF get_device_type, read_ath3k_version, Ar3kPlain
  <2> QED  BY <2>1 DEF LoaderTypes
<1>8. CASE RaiseControllerSpeed \/ RepeatSpeed \/ LowerControllerSpeed
  <2>1. soc' \in S /\ UNCHANGED <<baud, tlv>>
    BY <1>3, <1>8 DEF RaiseControllerSpeed, RepeatSpeed, LowerControllerSpeed,
                      set_cntrlr_baud, Ar3kPlain
  <2> QED  BY <2>1 DEF LoaderTypes
<1>9. CASE RaiseHostSpeed
  <2>1. baud' \in {baud, Fast} /\ UNCHANGED <<soc, tlv>>
    BY <1>9 DEF RaiseHostSpeed, set_speed, userial_vendor_set_baud, userial_to_tcio_baud,
                Speeds, Fast
  <2> QED  BY <2>1 DEF LoaderTypes
<1>10. CASE LowerHostSpeed
  <2>1. baud' = Slow /\ tlv' \in F /\ UNCHANGED soc
    BY <1>10 DEF LowerHostSpeed, set_speed, userial_vendor_set_baud, userial_to_tcio_baud,
                 NoFile, Slow, Handlings
  <2> QED  BY <2>1 DEF LoaderTypes
<1>11. CASE OpenPatchFile
  <2>1. UNCHANGED <<soc, baud>>
    BY <1>11 DEF OpenPatchFile
  <2>2. tlv' \in {tlv} \cup Files("PATCH")
    BY <1>11 DEF OpenPatchFile
  <2>3. Files("PATCH") \subseteq F
    BY RomeAssumption DEF Files, Handlings
  <2> QED  BY <2>1, <2>2, <2>3 DEF LoaderTypes
<1>12. CASE set_patch_ram
  <2>1. soc' \in S /\ UNCHANGED baud
    BY <1>3, <1>4, <1>12 DEF set_patch_ram
  <2>2. tlv' \in F
    BY <1>12 DEF set_patch_ram, LoaderTypes
  <2> QED  BY <2>1, <2>2 DEF LoaderTypes
<1>13. CASE ps_patch_download
  <2>1. soc' \in S /\ UNCHANGED baud
    BY <1>3, <1>4, <1>13 DEF ps_patch_download, write_ps_cmd
  <2>2. tlv' \in F
    BY <1>13 DEF ps_patch_download, LoaderTypes, NoFile, Handlings
  <2> QED  BY <2>1, <2>2 DEF LoaderTypes
<1>14. CASE ps_config_download
  <2>1. write_cmd("a_tags", soc.fw) \/ write_cmd("a_addr", "loaded")
    BY <1>14 DEF ps_config_download, write_ps_cmd
  <2>2. soc' \in S /\ UNCHANGED <<baud, tlv>>
    BY <1>3, <1>4, <1>14, <2>1 DEF ps_config_download
  <2> QED  BY <2>2 DEF LoaderTypes
<1> QED
  BY <1>6, <1>7, <1>8, <1>9, <1>10, <1>11, <1>12, <1>13, <1>14 DEF Ar3kStep
-----------------------------------------------------------------------------
(* The calls. *)

\* No loader is at work outside of an open.
LEMMA NotLoading ==
    ASSUME pc' # "init"
    PROVE  Rome' /\ Ar3k'
  BY DEF Rome, Ar3k, RomeLine, RomeFlags, RomeFirmware, RomeSpeed, Ar3kLine, Ar3kFirmware,
         Ar3kSpeed, Loading

\* What the invariant is about.
Known == <<soc, baud, rx, uart, tlv, wait_vsc_evt, wait_cc_evt, clean, soc_type, pw,
           soc_initialized, fresh, vnd_fd, q_fd, step, waits, pc, version, chipset_ver>>

\* Init's triggers, the filter and the hciattach daemon touch none of it.
LEMMA OthersKeep ==
    ASSUME IInv, UNCHANGED Known
    PROVE  IInv'
<1>1. BtTypes'
  BY DEF IInv, BtTypes, Known
<1>2. Calls'
  BY DEF IInv, Calls, CallKnown, FreshKnown, FlagKnown, TransportKnown, FailedIsQuiet, Known
<1>3. Rome'
  BY DEF IInv, Rome, RomeLine, RomeFlags, FileFlags, RomeFirmware, RomeSpeed, Loading,
         Quiescent, Stuck, RomeAnswered, RomeRefused, Heard, Known
<1>4. Ar3k'
  BY DEF IInv, Ar3k, Ar3kLine, Ar3kFirmware, Ar3kSpeed, Loading, Quiescent, Stuck,
         Ar3kAnswered, Known
<1> QED  BY <1>1, <1>2, <1>3, <1>4 DEF IInv

\* One step of a loader.
LEMMA LoaderKeeps ==
    ASSUME IInv, VersionKnown, LoaderStep
    PROVE  IInv'
<1>1. /\ pc = "init" /\ LoaderFrame /\ ~soc_initialized
      /\ UNCHANGED <<uart, vnd_fd, pc, soc_type, fresh, pw, q_fd>>
      /\ pw.phase = "none" /\ FailedIsQuiet /\ LoaderTypes /\ BtTypes
  BY DEF LoaderStep, IInv, Calls, CallKnown, FlagKnown, Powering, LoaderFrame, Session, channels,
         LoaderTypes, BtTypes
<1>2. ASSUME LoaderTypes', soc_initialized' = FALSE PROVE BtTypes'
  BY <1>1, <1>2 DEF LoaderTypes, BtTypes
<1>3. ASSUME FailedIsQuiet', soc_initialized' = FALSE PROVE Calls'
  BY <1>1, <1>3 DEF IInv, Calls, CallKnown, FreshKnown, FlagKnown, TransportKnown, Filtering
<1>4. CASE soc_type = "ROME"
  <2>1. (RomeStep \/ RomeIoFails \/ rome_soc_init) /\ soc_initialized' = FALSE
    BY <1>1, <1>4 DEF LoaderStep, BtTypes
  <2>2. FailedIsQuiet' /\ step # "failed" /\ (clean' => clean)
    BY <1>1, <2>1, RomeFailsQuiet
  <2>3. LoaderTypes'
    BY <1>1, <2>1, RomeTypesKept
  <2>4. Rome'
    <3>1. CASE clean
      BY <1>1, <1>4, <2>1, <2>2, <3>1, RomeStepKeeps DEF IInv, Loading
    <3>2. CASE ~clean
      BY <2>2, <3>2, RomeGivesUp
    <3> QED  BY <3>1, <3>2
  <2>5. Ar3k'
    BY <1>1, <1>4 DEF Ar3k, Ar3kLine, Ar3kFirmware, Ar3kSpeed, Loading
  <2> QED  BY <1>2, <1>3, <2>1, <2>2, <2>3, <2>4, <2>5 DEF IInv
<1>5. CASE soc_type = "AR3K"
  <2>1. (Ar3kStep \/ Ar3kIoFails) /\ soc_initialized' = FALSE
    BY <1>1, <1>5 DEF LoaderStep, BtTypes
  <2>2. FailedIsQuiet' /\ step # "failed" /\ (clean' => clean)
    BY <1>1, <2>1, Ar3kFailsQuiet
  <2>3. LoaderTypes'
    BY <1>1, <2>1, Ar3kTypesKept
  <2>4. Ar3k'
    <3>1. CASE clean
      BY <1>1, <1>5, <2>1, <2>2, <3>1, Ar3kStepKeeps DEF IInv, Loading
    <3>2. CASE ~clean
      BY <2>2, <3>2, Ar3kGivesUp
    <3> QED  BY <3>1, <3>2
  <2>5. Rome'
    BY <1>1, <1>5 DEF Rome, RomeLine, RomeFlags, RomeFirmware, RomeSpeed, Loading
  <2> QED  BY <1>2, <1>3, <2>1, <2>2, <2>3, <2>4, <2>5 DEF IInv
<1> QED  BY <1>1, <1>4, <1>5 DEF IInv, Calls, CallKnown

\* The steps of bt_powerup.
LEMMA PowerupKeeps ==
    ASSUME IInv, bt_powerup
    PROVE  IInv'
<1> USE DEF Calls, CallKnown, FreshKnown, FlagKnown, TransportKnown, FailedIsQuiet,
            Powering, Filtering, Asking
<1>1. pw.phase # "none"
  BY DEF bt_powerup, bt_powerup_enters, bt_powerup_switches, stop_hci_filter
<1>2. pc \in Powering /\ UNCHANGED <<pc, soc_type, vnd_fd, uart, q_fd, step, waits, rx, clean>>
  BY <1>1 DEF IInv, bt_powerup, bt_powerup_enters, bt_powerup_switches, stop_hci_filter,
         Loaders, uartVars, romeVars, Session, channels, World, flags, props
<1>3. UNCHANGED <<baud, tlv, wait_vsc_evt, wait_cc_evt>>
  BY DEF bt_powerup, bt_powerup_enters, bt_powerup_switches, stop_hci_filter,
         Loaders, uartVars, romeVars, flags
<1>4. pc' # "init" /\ BtTypes /\ Calls
  BY <1>2 DEF IInv
<1>5. Rome' /\ Ar3k'
  BY <1>4, NotLoading
<1>6. CASE bt_powerup_enters
  <2>1. /\ UNCHANGED <<soc, fresh, soc_initialized>>
        /\ pw' \in {[pw EXCEPT !.phase = IF pw.en THEN "rfkill" ELSE "ask"],
                    [pw EXCEPT !.phase = "ret"]}
        /\ pw.phase = "enter"
    BY <1>6 DEF bt_powerup_enters, uartVars, Session, props
  <2>2. /\ pw' \in [en : BOOLEAN, phase : {"ask", "rfkill", "ret"}] /\ pw'.en = pw.en
        /\ pw'.phase = "rfkill" => pw.en
    BY <1>4, <2>1 DEF BtTypes
  <2>3. BtTypes'
    BY <1>2, <1>3, <1>4, <2>1, <2>2 DEF BtTypes
  <2>4. Calls'
    BY <1>2, <1>4, <2>1, <2>2
  <2> QED  BY <1>5, <2>3, <2>4 DEF IInv
<1>7. CASE bt_powerup_switches
  <2>1. /\ UNCHANGED soc_initialized /\ pw.phase = "rfkill"
        /\ pw' = [pw EXCEPT !.phase = "ret"]
        /\ \/ PowerSwitch(pw.en) /\ fresh' = (pw.en /\ ~soc.power)
           \/ UNCHANGED <<soc, fresh>>
    BY <1>7 DEF bt_powerup_switches, World, props
  <2>2. pw' \in [en : BOOLEAN, phase : {"ret"}] /\ pw'.en = pw.en
    BY <1>4, <2>1 DEF BtTypes
  <2>3. CASE PowerSwitch(pw.en) /\ fresh' = (pw.en /\ ~soc.power)
    <3>1. soc' = IF pw.en = soc.power THEN soc
                 ELSE [power |-> pw.en, fw |-> "rom", baud |-> Slow]
      BY <2>3 DEF PowerSwitch
    <3>2. /\ soc' \in [power : BOOLEAN, fw : {"rom", "half", "loaded"}, baud : {Slow, Fast}]
          /\ fresh' \in BOOLEAN
      BY <1>4, <2>3, <3>1 DEF BtTypes
    <3>3. BtTypes'
      BY <1>2, <1>3, <1>4, <2>1, <2>2, <3>2 DEF BtTypes
    <3>4. fresh' => pw.en /\ ~soc.power
      BY <2>3
    <3>5. fresh' => soc'.power /\ soc'.baud = Slow
      BY <1>4, <3>1, <3>4 DEF BtTypes
    <3>6. soc_initialized /\ clean => soc'.power /\ soc'.fw = "loaded"
      BY <1>4, <2>1, <3>1 DEF BtTypes
    <3>7. Calls'
      BY <1>2, <1>4, <2>1, <2>2, <3>4, <3>5, <3>6
    <3> QED  BY <1>5, <3>3, <3>7 DEF IInv
  <2>4. CASE UNCHANGED <<soc, fresh>>
    <3>1. BtTypes'
      BY <1>2, <1>3, <1>4, <2>1, <2>2, <2>4 DEF BtTypes
    <3>2. Calls'
      BY <1>2, <1>4, <2>1, <2>2, <2>4
    <3> QED  BY <1>5, <3>1, <3>2 DEF IInv
  <2> QED  BY <2>1, <2>3, <2>4
<1>8. CASE stop_hci_filter /\ UNCHANGED <<Loaders, pc, Session, filter, channels, rfkill>>
  <2>1. /\ UNCHANGED <<soc, fresh>> /\ pw.phase \in {"ask", "wait"}
        /\ pw' = [pw EXCEPT !.phase = IF @ = "ask" THEN "wait" ELSE "rfkill"]
        /\ soc_initialized' = IF pw.phase = "ask" THEN soc_initialized ELSE FALSE
    BY <1>8 DEF stop_hci_filter, Loaders, uartVars, Session, props
  <2>2. /\ pw' \in [en : BOOLEAN, phase : {"wait", "rfkill"}] /\ pw'.en = pw.en
        /\ pw'.phase = "rfkill" => soc_initialized' = FALSE
        /\ soc_initialized' \in BOOLEAN /\ (soc_initialized' => soc_initialized)
    BY <1>4, <2>1 DEF BtTypes
  <2>3. BtTypes'
    <3>1. UNCHANGED <<soc, fresh>>
      BY <2>1
    <3> QED  BY <1>2, <1>3, <1>4, <2>2, <3>1 DEF BtTypes
  <2>4. Calls'
    BY <1>2, <1>4, <2>1, <2>2
  <2> QED  BY <1>5, <2>3, <2>4 DEF IInv
<1> QED  BY <1>6, <1>7, <1>8 DEF bt_powerup

\* Loading, unloading and switching the power.
LEMMA PowerCallsKeep ==
    ASSUME IInv, \/ init \/ cleanup \/ PowerOn \/ PowerReturns \/ PowerOff \/ hw_config
                 \/ is_hw_ready
    PROVE  IInv'
<1> USE DEF Calls, CallKnown, FreshKnown, FlagKnown, TransportKnown, FailedIsQuiet,
            Powering, Filtering, Asking
<1>0. BtTypes
  BY DEF IInv
<1>1. Calls
  BY DEF IInv
<1>2. /\ UNCHANGED <<soc, baud, uart, tlv, wait_vsc_evt, wait_cc_evt, clean, soc_type,
                    soc_initialized, step, waits>>
  BY DEF init, cleanup, PowerOn, PowerReturns, PowerOff, hw_config, is_hw_ready, Loaders,
         uartVars, romeVars, Session, World, props
<1>3. CASE init
  <2>1. pc = "none" /\ pc' = "ready" /\ UNCHANGED <<pw, fresh>>
    BY <1>3 DEF init
  <2>2. BtTypes' /\ pc' # "init"
    BY <1>0, <1>2, <2>1 DEF BtTypes
  <2>3. Calls'
    BY <1>1, <1>2, <2>1
  <2> QED  BY <2>2, <2>3, NotLoading DEF IInv
<1>4. CASE cleanup \/ hw_config
  <2>1. /\ \/ pc = "off" /\ pw.phase = "none" /\ pc' = "none"
           \/ pc = "ready" /\ pc' = "smd_ready" /\ soc_type = "DEFAULT"
        /\ UNCHANGED <<pw, fresh>>
    BY <1>4 DEF cleanup, hw_config, Session
  <2>2. BtTypes' /\ pc' # "init"
    BY <1>0, <1>2, <2>1 DEF BtTypes
  <2>3. Calls'
    BY <1>1, <1>2, <2>1
  <2> QED  BY <2>2, <2>3, NotLoading DEF IInv
<1>5. CASE PowerOn
  <2>1. /\ pc = "ready" /\ pc' = IF soc_type = "ROME" THEN "on_off" ELSE "on"
        /\ fresh' = FALSE /\ pw' = [en |-> soc_type # "ROME", phase |-> "enter"]
    BY <1>5 DEF PowerOn, PowerCall
  <2>2. /\ pw'.phase = "enter" /\ (pw'.en <=> soc_type # "ROME") /\ ~fresh'
        /\ pw' \in [en : BOOLEAN, phase : {"enter"}] /\ fresh' \in BOOLEAN
    BY <2>1
  <2>3. BtTypes' /\ pc' # "init"
    <3>1. BtTypes'
      BY <1>0, <1>2, <2>2 DEF BtTypes
    <3> QED  BY <2>1, <3>1
  <2>4. Calls'
    BY <1>1, <1>2, <2>1, <2>2
  <2> QED  BY <2>3, <2>4, NotLoading DEF IInv
<1>6. CASE PowerReturns
  <2>1. /\ pw.phase = "ret" /\ UNCHANGED fresh
        /\ \/ /\ pc = "on_off" /\ pc' = "on" /\ pw' = [en |-> TRUE, phase |-> "enter"]
           \/ /\ pc = "on" /\ pc' = "powered" /\ pw' = [en |-> FALSE, phase |-> "none"]
           \/ /\ pc = "off" /\ pc' = "off" /\ pw' = [en |-> FALSE, phase |-> "none"]
    BY <1>6 DEF PowerReturns, PowerCall, NoPower, Session
  <2> DEFINE P == [en : BOOLEAN, phase : {"enter", "none"}]
  <2>2. pw' \in P
    <3>1. [en |-> TRUE, phase |-> "enter"] \in P /\ [en |-> FALSE, phase |-> "none"] \in P
      OBVIOUS
    <3> HIDE DEF P
    <3> QED  BY <2>1, <3>1
  <2>3. BtTypes' /\ pc' # "init"
    <3>1. UNCHANGED fresh /\ pc' # "init"
      BY <2>1
    <3> QED  BY <1>0, <1>2, <2>2, <3>1 DEF BtTypes
  <2>4. Calls'
    BY <1>1, <1>2, <2>1, <2>2
  <2> QED  BY <2>3, <2>4, NotLoading DEF IInv
<1>7. CASE PowerOff
  <2>1. /\ pc = "closed" /\ pc' = "off" /\ UNCHANGED fresh
        /\ UNCHANGED pw \/ pw' = [en |-> FALSE, phase |-> "enter"]
    BY <1>7 DEF PowerOff, PowerCall, Session
  <2>2. pw.phase = "none"
    BY <1>1, <2>1
  <2>3. /\ pw'.phase \in {"none", "enter"} /\ (pw'.phase = "enter" => ~pw'.en)
        /\ pw' \in [en : BOOLEAN, phase : {"none", "enter", "ask", "wait", "rfkill", "ret"}]
    <3>1. CASE UNCHANGED pw
      BY <1>0, <2>2, <3>1 DEF BtTypes
    <3>2. CASE pw' = [en |-> FALSE, phase |-> "enter"]
      BY <3>2
    <3> QED  BY <2>1, <3>1, <3>2
  <2>4. BtTypes' /\ pc' # "init"
    <3>1. UNCHANGED fresh /\ pc' # "init"
      BY <2>1
    <3> QED  BY <1>0, <1>2, <2>3, <3>1 DEF BtTypes
  <2>5. Calls'
    BY <1>1, <1>2, <2>1, <2>3
  <2> QED  BY <2>4, <2>5, NotLoading DEF IInv
<1>8. CASE is_hw_ready
  <2>1. pc = "smd_ready" /\ pc' = "powered" /\ UNCHANGED pw /\ fresh' = (bt_status = "on")
    BY <1>8 DEF is_hw_ready, readTrpState
  <2>2. BtTypes' /\ pc' # "init"
    BY <1>0, <1>2, <2>1 DEF BtTypes
  <2>3. Calls'
    BY <1>1, <1>2, <2>1
  <2> QED  BY <2>2, <2>3, NotLoading DEF IInv
<1> QED  BY <1>3, <1>4, <1>5, <1>6, <1>7, <1>8

\* An open that starts a loader: the port is flushed and at its first speed, and
\* the loader begins with nothing outstanding.
LEMMA LoaderBegins ==
    ASSUME IInv, OpenRome \/ OpenAr3k, pc' = "init"
    PROVE  Rome' /\ Ar3k'
<1>1. /\ pc = "powered" /\ waits' = <<>> /\ rx' = <<>> /\ baud' = Slow
      /\ UNCHANGED <<soc, fresh, soc_type, wait_vsc_evt, tlv>>
      /\ \/ soc_type = "ROME" /\ step' \in {"embedded", "begin"} /\ clean' = wait_vsc_evt
         \/ soc_type = "AR3K" /\ step' = "a_rts"
  BY DEF OpenRome, OpenAr3k, userial_vendor_open, userial_to_tcio_baud, Speeds, Slow, flags,
         Session, Picked
<1>2. /\ Quiescent' /\ ~Stuck' /\ waits' # <<"PS">>
  BY <1>1, HeadTail DEF Quiescent, Stuck
<1>3. fresh => soc.power /\ soc.baud = Slow
  BY <1>1 DEF IInv, Calls, FreshKnown
<1>4. fresh' => Heard'
  BY <1>1, <1>3 DEF Heard
<1>5. CASE soc_type = "ROME"
  <2>1. clean' => wait_vsc_evt'
    BY <1>1, <1>5
  <2>2. Rome'
    BY <1>1, <1>2, <1>4, <1>5, <2>1
       DEF Rome, RomeLine, RomeFlags, RomeFirmware, RomeSpeed, Loading, Picked
  <2>3. Ar3k'
    BY <1>1, <1>5 DEF Ar3k, Ar3kLine, Ar3kFirmware, Ar3kSpeed, Loading
  <2> QED  BY <2>2, <2>3
<1>6. CASE soc_type = "AR3K"
  <2>1. Rome'
    BY <1>1, <1>6 DEF Rome, RomeLine, RomeFlags, RomeFirmware, RomeSpeed, Loading
  <2>2. Ar3kLine' /\ Ar3kFirmware'
    BY <1>1, <1>2, <1>6 DEF Ar3kLine, Ar3kFirmware
  <2>3. Ar3kSpeed'
    BY <1>1, <1>2, <1>3, <1>6 DEF Ar3kSpeed
  <2> QED  BY <2>1, <2>2, <2>3 DEF Ar3k
<1> QED  BY <1>1, <1>5, <1>6

\* Whether the port could be opened.
LEMMA LoaderOpens ==
    ASSUME BtTypes, OpenRome \/ OpenAr3k
    PROVE  /\ soc_type \in {"ROME", "AR3K"} /\ (soc_type = "ROME" => ~soc_initialized)
           /\ pc' \in {"init", "open_failed"}
           /\ pc' = "init" => uart' /\ vnd_fd' = "uart" /\ waits' = <<>>
           /\ pc' = "open_failed" => UNCHANGED <<step, waits, clean>>
           /\ baud' \in {Slow, Fast} /\ uart' \in BOOLEAN /\ clean' \in BOOLEAN
<1>1. /\ soc_type \in {"ROME", "AR3K"} /\ (soc_type = "ROME" => ~soc_initialized)
      /\ pc' \in {"init", "open_failed"}
  BY DEF OpenRome, OpenAr3k, is_soc_initialized
<1>2. pc' = "init" => userial_vendor_open /\ waits' = <<>>
  BY DEF OpenRome, OpenAr3k
<1>3. pc' = "open_failed" => userial_vendor_open_fails /\ UNCHANGED <<step, waits, clean>>
  BY DEF OpenRome, OpenAr3k
<1>4. pc' = "init" => clean' = wait_vsc_evt \/ clean' = TRUE
  BY DEF OpenRome, OpenAr3k
<1>5. userial_vendor_open => uart' = TRUE /\ vnd_fd' = "uart" /\ baud' = Slow
  BY DEF userial_vendor_open, userial_to_tcio_baud, Speeds, Slow
<1>6. userial_vendor_open_fails => UNCHANGED <<uart, baud>>
  BY DEF userial_vendor_open_fails
<1>7. baud' \in {Slow, Fast} /\ uart' \in BOOLEAN
  BY <1>1, <1>2, <1>3, <1>5, <1>6 DEF BtTypes
<1>8. clean' \in BOOLEAN
  BY <1>1, <1>3, <1>4 DEF BtTypes
<1> QED  BY <1>1, <1>2, <1>3, <1>5, <1>7, <1>8

\* The opens up to the loader or the filter.
LEMMA OpensKeep ==
    ASSUME IInv, \/ OpenRome \/ OpenRomeAgain \/ OpenAr3k \/ OpenCherokee
                 \/ bt_hci_init_transport
    PROVE  IInv'
<1> USE DEF Calls, CallKnown, FreshKnown, FlagKnown, TransportKnown, FailedIsQuiet,
            Powering, Filtering, Asking
<1>0. BtTypes
  BY DEF IInv
<1>1. Calls
  BY DEF IInv
<1>2. /\ UNCHANGED <<soc, tlv, wait_vsc_evt, wait_cc_evt, soc_type, soc_initialized, pw, fresh>>
      /\ pc = "powered" /\ pw.phase = "none" /\ step = "none"
  BY <1>1 DEF OpenRome, OpenRomeAgain, OpenAr3k, OpenCherokee, bt_hci_init_transport, Loaders,
         uartVars, romeVars, flags, Session, World, props
<1>3. CASE OpenRome \/ OpenAr3k
  <2>1. /\ soc_type \in {"ROME", "AR3K"} /\ (soc_type = "ROME" => ~soc_initialized)
        /\ pc' \in {"init", "open_failed"}
        /\ pc' = "init" => uart' /\ vnd_fd' = "uart" /\ waits' = <<>>
        /\ pc' = "open_failed" => UNCHANGED <<step, waits, clean>>
        /\ baud' \in {Slow, Fast} /\ uart' \in BOOLEAN /\ clean' \in BOOLEAN
    BY <1>0, <1>3, LoaderOpens
  <2>2. BtTypes'
    BY <1>0, <1>2, <2>1 DEF BtTypes
  <2>3. CASE pc' = "init"
    <3>1. ~soc_initialized
      BY <1>1, <2>1
    <3>2. Calls'
      BY <1>1, <1>2, <2>1, <2>3, <3>1
    <3>3. Rome' /\ Ar3k'
      BY <1>3, <2>3, LoaderBegins
    <3> QED  BY <2>2, <3>2, <3>3 DEF IInv
  <2>4. CASE pc' = "open_failed"
    <3>1. Calls'
      BY <1>1, <1>2, <2>1, <2>4
    <3> QED  BY <2>2, <2>4, <3>1, NotLoading DEF IInv
  <2> QED  BY <2>1, <2>3, <2>4
<1>4. CASE OpenRomeAgain \/ OpenCherokee
  <2>1. /\ pc' = "filter" /\ UNCHANGED <<baud, uart, vnd_fd, step, waits, clean>>
        /\ \/ soc_type = "ROME" /\ soc_initialized
           \/ soc_type = "CHEROKEE"
    BY <1>4 DEF OpenRomeAgain, OpenCherokee, Loaders, uartVars, romeVars, is_soc_initialized
  <2>2. BtTypes' /\ pc' # "init"
    BY <1>0, <1>2, <2>1 DEF BtTypes
  <2>3. Calls'
    BY <1>1, <1>2, <2>1
  <2> QED  BY <2>2, <2>3, NotLoading DEF IInv
<1>5. CASE bt_hci_init_transport
  <2>1. /\ soc_type = "DEFAULT" /\ UNCHANGED <<baud, uart, vnd_fd, step, waits, clean>>
        /\ \/ pc' = "open" /\ q_fd' = [i \in 1..2 |-> "open"]
           \/ pc' = "open_failed"
    BY <1>5 DEF bt_hci_init_transport, uartVars
  <2>2. BtTypes' /\ pc' # "init"
    BY <1>0, <1>2, <2>1 DEF BtTypes
  <2>3. pc' = "open" => \A i \in 1..2 : q_fd'[i] = "open"
    BY <2>1
  <2>4. Calls'
    BY <1>1, <1>2, <2>1, <2>3
  <2> QED  BY <2>2, <2>4, NotLoading DEF IInv
<1> QED  BY <1>3, <1>4, <1>5

\* The loader's result is taken.
LEMMA LoaderEnds ==
    ASSUME IInv, RomeLoaded \/ RomeNotLoaded \/ Ar3kLoaded
    PROVE  IInv'
<1> USE DEF Calls, CallKnown, FreshKnown, FlagKnown, TransportKnown, FailedIsQuiet,
            Powering, Filtering, Asking
<1>0. BtTypes
  BY DEF IInv
<1>1. Calls
  BY DEF IInv
<1>2. /\ UNCHANGED <<soc, baud, tlv, wait_vsc_evt, wait_cc_evt, clean, soc_type, pw, fresh>>
      /\ pc = "init" /\ pw.phase = "none" /\ ~soc_initialized /\ step' = "none"
  BY <1>1 DEF RomeLoaded, RomeNotLoaded, Ar3kLoaded, romeVars, Session
<1>3. CASE RomeLoaded
  <2>1. /\ soc_type = "ROME" /\ step = "done" /\ waits = <<>> /\ pc' = "filter"
        /\ soc_initialized' = TRUE /\ UNCHANGED <<uart, vnd_fd>>
    BY <1>3 DEF RomeLoaded
  <2>2. clean => soc.power /\ soc.fw = "loaded"
    BY <1>2, <2>1, RomeRunning DEF IInv, Loading
  <2>3. BtTypes' /\ pc' # "init"
    BY <1>0, <1>2, <2>1 DEF BtTypes
  <2>4. Calls'
    BY <1>1, <1>2, <2>1, <2>2
  <2> QED  BY <2>3, <2>4, NotLoading DEF IInv
<1>4. CASE RomeNotLoaded
  <2>1. pc' = "open_failed" /\ uart' = FALSE /\ UNCHANGED soc_initialized
    BY <1>4 DEF RomeNotLoaded
  <2>2. BtTypes' /\ pc' # "init"
    <3>1. uart' \in BOOLEAN /\ UNCHANGED soc_initialized /\ pc' # "init"
      BY <2>1
    <3> QED  BY <1>0, <1>2, <3>1 DEF BtTypes
  <2>3. Calls'
    BY <1>1, <1>2, <2>1
  <2> QED  BY <2>2, <2>3, NotLoading DEF IInv
<1>5. CASE Ar3kLoaded
  <2>1. /\ soc_type = "AR3K" /\ waits = <<>> /\ UNCHANGED <<uart, vnd_fd, soc_initialized>>
        /\ \/ step = "done" /\ pc' = "open"
           \/ pc' = "open_failed"
    BY <1>5 DEF Ar3kLoaded, World, props
  <2>2. ASSUME clean, fresh, step = "done" PROVE soc.baud = baud /\ soc.fw = "loaded"
    <3>1. Loading("AR3K") /\ ~Stuck
      BY <1>2, <2>1, <2>2 DEF Loading, Stuck
    <3> QED  BY <2>2, <3>1 DEF IInv, Ar3k, Ar3kFirmware, Ar3kSpeed
  <2>3. BtTypes' /\ pc' # "init"
    BY <1>0, <1>2, <2>1 DEF BtTypes
  <2>4. Calls'
    BY <1>1, <1>2, <2>1, <2>2
  <2> QED  BY <2>3, <2>4, NotLoading DEF IInv
<1> QED  BY <1>3, <1>4, <1>5

\* The filter.
LEMMA FilterCallsKeep ==
    ASSUME IInv, \/ start_hci_filter \/ FilterAnswers \/ FilterLate \/ FilterTimesOut
                 \/ FilterGivenUp \/ ConnectFilter
    PROVE  IInv'
<1> USE DEF Calls, CallKnown, FreshKnown, FlagKnown, TransportKnown, FailedIsQuiet,
            Powering, Filtering, Asking
<1>0. BtTypes
  BY DEF IInv
<1>1. Calls
  BY DEF IInv
<1>2. UNCHANGED <<soc, baud, tlv, wait_vsc_evt, wait_cc_evt, clean, soc_type,
                  soc_initialized, fresh, step, waits>>
  BY DEF start_hci_filter, FilterAnswers, FilterLate, FilterTimesOut, FilterGivenUp,
         ConnectFilter, Loaders, uartVars, romeVars, Session, World, props
<1>3. CASE start_hci_filter \/ FilterAnswers \/ FilterLate
  <2>1. /\ \/ pc = "filter" /\ pc' = "filter_wait"
           \/ pc = "filter_wait" /\ pc' \in {"connect", "filter_late"}
        /\ UNCHANGED <<uart, vnd_fd, pw>>
    BY <1>3 DEF start_hci_filter, FilterAnswers, FilterLate, Loaders, uartVars
  <2>2. BtTypes' /\ pc' # "init"
    BY <1>0, <1>2, <2>1 DEF BtTypes
  <2>3. Calls'
    BY <1>1, <1>2, <2>1
  <2> QED  BY <2>2, <2>3, NotLoading DEF IInv
<1>4. CASE FilterTimesOut
  <2>1. /\ pc = "filter_late" /\ pc' = "filter_fail" /\ UNCHANGED <<uart, vnd_fd>>
        /\ pw' = [en |-> FALSE, phase |-> "enter"]
    BY <1>4 DEF FilterTimesOut, Loaders, uartVars, PowerCall
  <2>2. pw' \in [en : BOOLEAN, phase : {"enter"}] /\ ~pw'.en
    BY <2>1
  <2>3. BtTypes' /\ pc' # "init"
    BY <1>0, <1>2, <2>1, <2>2 DEF BtTypes
  <2>4. Calls'
    BY <1>1, <1>2, <2>1, <2>2
  <2> QED  BY <2>3, <2>4, NotLoading DEF IInv
<1>5. CASE FilterGivenUp
  <2>1. /\ pc = "filter_fail" /\ pc' = "open_failed" /\ uart' = FALSE
        /\ pw' = [en |-> FALSE, phase |-> "none"]
    BY <1>5 DEF FilterGivenUp, NoPower
  <2>2. pw' \in [en : BOOLEAN, phase : {"none"}]
    BY <2>1
  <2>3. BtTypes' /\ pc' # "init"
    <3>1. uart' \in BOOLEAN /\ pc' # "init"
      BY <2>1
    <3> QED  BY <1>0, <1>2, <2>2, <3>1 DEF BtTypes
  <2>4. Calls'
    BY <1>1, <1>2, <2>1, <2>2
  <2> QED  BY <2>3, <2>4, NotLoading DEF IInv
<1>6. CASE ConnectFilter
  <2>1. /\ pc = "connect" /\ UNCHANGED pw
        /\ \/ pc' \in {"addon", "connected"} /\ vnd_fd' = "sock" /\ UNCHANGED uart
           \/ pc' = "open_failed" /\ uart' = FALSE
    BY <1>6 DEF ConnectFilter
  <2>2. uart' \in BOOLEAN
    BY <1>0, <2>1 DEF BtTypes
  <2>3. BtTypes' /\ pc' # "init"
    <3>1. UNCHANGED pw /\ pc' # "init"
      BY <2>1
    <3> QED  BY <1>0, <1>2, <2>2, <3>1 DEF BtTypes
  <2>4. Calls'
    BY <1>1, <1>2, <2>1
  <2> QED  BY <2>3, <2>4, NotLoading DEF IInv
<1> QED  BY <1>3, <1>4, <1>5, <1>6

\* The commands on the filter's socket, and the end of an open.
LEMMA SocketCallsKeep ==
    ASSUME IInv, \/ rome_get_addon_feature_list \/ enable_controller_log \/ ReadsSocket
                 \/ OpenEnds
    PROVE  IInv'
<1> USE DEF Calls, CallKnown, FreshKnown, FlagKnown, TransportKnown, FailedIsQuiet,
            Powering, Filtering, Asking
<1>0. BtTypes
  BY DEF IInv
<1>1. Calls
  BY DEF IInv
<1>2. /\ UNCHANGED <<soc, baud, tlv, wait_cc_evt, clean, soc_type, soc_initialized, fresh,
                    step, vnd_fd, pw>>
      /\ pc \in Asking /\ step = "none"
  BY <1>1 DEF rome_get_addon_feature_list, enable_controller_log, ReadsSocket, OpenEnds,
              SocketFrame, props
<1>3. /\ pc' \in {"log", "connected"} => UNCHANGED uart
      /\ pc' = "open" => uart' = FALSE
      /\ pc' \in {"log", "connected", "open"}
      /\ wait_vsc_evt' \in {wait_vsc_evt, wait_vsc_evt \/ ~skip_init}
  BY DEF rome_get_addon_feature_list, enable_controller_log, ReadsSocket, OpenEnds
<1>4. BtTypes' /\ pc' # "init"
  <2>1. uart' \in BOOLEAN /\ wait_vsc_evt' \in BOOLEAN /\ pc' # "init"
    BY <1>0, <1>3 DEF BtTypes
  <2> QED  BY <1>0, <1>2, <2>1 DEF BtTypes
<1>5. Calls'
  BY <1>1, <1>2, <1>3
<1> QED  BY <1>4, <1>5, NotLoading DEF IInv

\* Calls on an open transport, its end, and the end of the HAL.
LEMMA OpenCallsKeep ==
    ASSUME IInv, \/ LpmSet \/ hw_epilog_process \/ hw_epilog_cback \/ CloseUserial \/ HalDies
    PROVE  IInv'
<1> USE DEF Calls, CallKnown, FreshKnown, FlagKnown, TransportKnown, FailedIsQuiet,
            Powering, Filtering, Asking
<1>0. BtTypes
  BY DEF IInv
<1>1. Calls
  BY DEF IInv
<1>2. UNCHANGED <<soc, baud, clean, soc_type, soc_initialized, fresh>>
  BY DEF LpmSet, hw_epilog_process, hw_epilog_cback, CloseUserial, HalDies, Loaders, uartVars,
         romeVars, Session, World, props
<1>3. CASE LpmSet \/ hw_epilog_process \/ hw_epilog_cback
  <2>1. /\ pc \in {"open", "epilog"} /\ pc' \in {"open", "epilog"}
        /\ UNCHANGED <<uart, vnd_fd, pw, wait_vsc_evt, wait_cc_evt, tlv, step, waits, q_fd>>
    BY <1>3 DEF LpmSet, hw_epilog_process, hw_epilog_cback, Loaders, uartVars, romeVars, flags,
                World, channels
  <2>2. BtTypes' /\ pc' # "init"
    BY <1>0, <1>2, <2>1 DEF BtTypes
  <2>3. Calls'
    BY <1>1, <1>2, <2>1
  <2> QED  BY <2>2, <2>3, NotLoading DEF IInv
<1>4. CASE CloseUserial
  <2>1. /\ pc \in {"open", "epilog", "open_failed"} /\ pc' = "closed"
        /\ UNCHANGED <<pw, wait_vsc_evt, wait_cc_evt, tlv, step, waits>>
        /\ UNCHANGED uart \/ uart' = (uart /\ vnd_fd # "uart")
    BY <1>4 DEF CloseUserial, userial_vendor_close, romeVars
  <2>2. uart' \in BOOLEAN
    BY <1>0, <2>1 DEF BtTypes
  <2>3. UNCHANGED <<pw, wait_vsc_evt, wait_cc_evt, tlv>> /\ pc' = "closed"
    BY <2>1
  <2>4. BtTypes' /\ pc' # "init"
    BY <1>0, <1>2, <2>2, <2>3 DEF BtTypes
  <2>5. Calls'
    BY <1>1, <1>2, <2>1
  <2> QED  BY <2>4, <2>5, NotLoading DEF IInv
<1>5. CASE HalDies
  <2>1. /\ pc' = "none" /\ pw' = [en |-> FALSE, phase |-> "none"] /\ step' = "none"
        /\ uart' = FALSE /\ wait_vsc_evt' = TRUE /\ wait_cc_evt' = TRUE
        /\ tlv' = [type |-> "NONE", cfg |-> "NONE", full |-> 0, rest |-> FALSE]
    BY <1>5 DEF HalDies, NoPower, NoFile
  <2>2. BtTypes' /\ pc' # "init"
    BY <1>0, <1>2, <2>1 DEF BtTypes, Handlings
  <2>3. pw'.phase = "none"
    BY <2>1
  <2>4. Calls'
    BY <1>1, <1>2, <2>1, <2>3
  <2> QED  BY <2>2, <2>4, NotLoading DEF IInv
<1> QED  BY <1>3, <1>4, <1>5
-----------------------------------------------------------------------------
(* The version. *)

\* Only the answer to the version request, and the end of the process, change
\* the version that the library goes by.
LEMMA VersionKept ==
    ASSUME [Next]_vars
    PROVE  UNCHANGED version /\ chipset_ver' \in {chipset_ver, version, "none"}
<1>1. CASE LoaderStep /\ soc_type = "ROME" /\ RomeStep
  <2>1. CASE read_vs_hci_event \/ RomeReadsEvent
    BY <2>1 DEF read_vs_hci_event, get_vs_hci_event, RomeReadsEvent, romeVars
  <2>2. CASE \/ check_embedded_mode \/ rome_wipower_forward_handoff_req \/ rome_patch_ver_req
             \/ ChooseFirmware \/ rome_set_baudrate_req \/ rome_get_tlv_file \/ NoTlvFile
             \/ SendFullSegment \/ SendRest
    BY <2>2 DEF check_embedded_mode, rome_wipower_forward_handoff_req, rome_patch_ver_req,
                ChooseFirmware, rome_set_baudrate_req, rome_get_tlv_file, NoTlvFile,
                SendFullSegment, SendRest, Plain, session
  <2>3. CASE \/ rome_get_build_info_req \/ disable_internal_ldo \/ rome_hci_reset
             \/ rome_download_rampatch \/ rome_edl_set_patch_request
             \/ rome_edl_patch_download_request \/ rome_attach_rampatch
             \/ rome_rampatch_reset \/ rome_1_0_nvm_tag_dnld \/ rome_hci_reset_req
    BY <2>3 DEF rome_get_build_info_req, disable_internal_ldo, rome_hci_reset,
                rome_download_rampatch, rome_edl_set_patch_request,
                rome_edl_patch_download_request, rome_attach_rampatch, rome_rampatch_reset,
                rome_1_0_nvm_tag_dnld, rome_hci_reset_req, Plain, session
  <2> QED  BY <1>1, <2>1, <2>2, <2>3 DEF RomeStep
<1>2. CASE RomeIoFails \/ rome_soc_init
  BY <1>2 DEF RomeIoFails, rome_soc_init, session
<1>3. CASE Ar3kStep \/ Ar3kIoFails
  BY <1>3 DEF Ar3kStep, Ar3kIoFails, read_ps_event, Ar3kReadsEvent, FlowControlOn,
         RaiseControllerSpeed, RaiseHostSpeed, get_device_type, read_ath3k_version,
         get_ath3k_crc, OpenPsFile, ath_parse_ps, OpenPatchFile, set_patch_ram,
         AddressLinesEnd, ps_patch_download, ps_config_download, write_bdaddr_from_file,
         Ar3kReset, RepeatSpeed, LowerControllerSpeed, LowerHostSpeed, Ar3kPlain, Ar3kFrame
<1>4. CASE HalDies
  BY <1>4 DEF HalDies
<1>5. CASE \/ bt_powerup \/ PowerReturns \/ is_hw_ready \/ OpenRome \/ OpenRomeAgain
           \/ OpenAr3k \/ OpenCherokee \/ bt_hci_init_transport
  BY <1>5 DEF bt_powerup, bt_powerup_enters, bt_powerup_switches, PowerReturns, is_hw_ready,
              OpenRome, OpenRomeAgain, OpenAr3k, OpenCherokee, bt_hci_init_transport, Loaders,
              romeVars
<1>6. CASE \/ RomeLoaded \/ RomeNotLoaded \/ Ar3kLoaded \/ start_hci_filter \/ FilterAnswers
           \/ FilterLate \/ FilterTimesOut \/ FilterGivenUp \/ ConnectFilter
  BY <1>6 DEF RomeLoaded, RomeNotLoaded, Ar3kLoaded, start_hci_filter, FilterAnswers,
              FilterLate, FilterTimesOut, FilterGivenUp, ConnectFilter, Loaders, romeVars
<1>7. CASE \/ rome_get_addon_feature_list \/ enable_controller_log \/ ReadsSocket
           \/ OpenEnds
  BY <1>7 DEF rome_get_addon_feature_list, enable_controller_log, ReadsSocket, OpenEnds,
              SocketFrame
<1>8. CASE Hal
  BY <1>8 DEF Hal, init, PowerOn, hw_config, LpmSet, hw_epilog_process, CloseUserial,
              PowerOff, cleanup, Loaders, romeVars
<1>9. CASE External \/ Finished \/ UNCHANGED vars
  BY <1>9 DEF External, RunTrigger, FilterReady, FilterStops, hciattach, hw_epilog_cback,
              Finished, vars, Loaders, romeVars
<1> QED
  BY <1>1, <1>2, <1>3, <1>4, <1>5, <1>6, <1>7, <1>8, <1>9 DEF Next, Library, LoaderStep

\* So it is the controller's, once it is known.
LEMMA VersionStays == Spec => []VersionKnown
<1>1. Init => VersionKnown
  BY DEF Init, RomeInitial, RomeFresh, VersionKnown
<1>2. VersionKnown /\ [Next]_vars => VersionKnown'
  BY VersionKept DEF VersionKnown
<1> QED  BY <1>1, <1>2, PTL DEF Spec
-----------------------------------------------------------------------------
(* The invariant. *)

\* The library starts with the controller off and nothing loaded.
LEMMA Begins == Init => IInv
<1>1. SUFFICES ASSUME Init PROVE IInv
  OBVIOUS
<1>2. BtTypes
  BY <1>1, VendorAssumption
     DEF Init, UartInit, RomeInitial, RomeFresh, NoFile, NoPower, BtTypes, Handlings
<1>3. pc = "none" /\ step = "none" /\ pw.phase = "none" /\ soc_initialized = FALSE
  BY <1>1 DEF Init, UartInit, NoPower
<1>4. Calls
  BY <1>3 DEF Calls, CallKnown, FreshKnown, FlagKnown, TransportKnown, FailedIsQuiet, Filtering,
              Asking
<1>5. Rome /\ Ar3k
  BY <1>3 DEF Rome, Ar3k, RomeLine, RomeFlags, RomeFirmware, RomeSpeed, Ar3kLine,
              Ar3kFirmware, Ar3kSpeed, Loading
<1> QED  BY <1>2, <1>4, <1>5 DEF IInv

\* Every step keeps the invariant.
LEMMA Keeps == IInv /\ VersionKnown /\ [Next]_vars => IInv'
<1>1. SUFFICES ASSUME IInv, VersionKnown, [Next]_vars PROVE IInv'
  OBVIOUS
<1>2. ASSUME RunTrigger \/ FilterReady \/ FilterStops \/ hciattach \/ Finished \/ UNCHANGED vars
      PROVE  IInv'
  <2>1. UNCHANGED Known
    BY <1>2 DEF RunTrigger, FilterReady, FilterStops, hciattach, Finished, vars, Known, Loaders,
                uartVars, romeVars, Session, props, channels
  <2> QED  BY <1>1, <2>1, OthersKeep
<1>3. Library => IInv'
  BY <1>1, PowerupKeeps, PowerCallsKeep, OpensKeep, LoaderKeeps, LoaderEnds, FilterCallsKeep,
     SocketCallsKeep DEF Library
<1>4. Hal => IInv'
  BY <1>1, PowerCallsKeep, OpenCallsKeep DEF Hal
<1>5. External => IInv'
  BY <1>1, <1>2, OpenCallsKeep DEF External
<1> QED  BY <1>1, <1>2, <1>3, <1>4, <1>5, OpenCallsKeep DEF Next

\* The invariant of the whole library.
LEMMA Invariant == Spec => []IInv
  BY Begins, Keeps, VersionStays, PTL DEF Spec

-----------------------------------------------------------------------------
(* The filter's socket. *)

\* The calls in which the library may hold a filter's socket.
Connected == {"addon", "log", "connected", "open", "epilog"}

\* The reads still to be done on the socket are answered by the events on it, or
\* by its end.
SocketAnswered ==
    \/ waits = <<>> /\ sock.rx = <<>>
    \/ waits = <<"VSE", "CCE">> /\ sock.rx = <<"VSE", "CCE">>
    \/ waits = <<"CCE">> /\ sock.rx = <<"CCE">>
    \/ ~sock.up /\ sock.rx = <<>>

\* Where reads may be outstanding, and events unread, and that a command to an
\* initialised controller asks for its vendor event.
SocketKnown ==
    /\ sock \in [up : BOOLEAN, rx : Seq(Event)]
    /\ pc \in {"addon", "log"} => soc_type = "ROME"
    /\ pc \notin {"init", "log", "connected"} => waits = <<>>
    /\ pc \notin Connected \/ pc = "addon" \/ soc_type # "ROME" => sock.rx = <<>>
    /\ soc_initialized /\ clean => wait_vsc_evt

SocketLine == pc \in Connected /\ clean => SocketAnswered

SInv == SocketKnown /\ SocketLine

\* A step that leaves the call, the reads and the socket alone.
LEMMA SocketRests ==
    ASSUME SInv, UNCHANGED <<pc, soc_type, waits, sock, wait_vsc_evt, clean>>,
           soc_initialized' => soc_initialized
    PROVE  SInv'
  BY DEF SInv, SocketKnown, SocketLine, SocketAnswered

\* A call without a socket that ends, or goes on to another.
LEMMA SocketIdle ==
    ASSUME SInv, UNCHANGED <<soc_type, sock>>, pc \notin Connected,
           pc' \notin Connected \/ (pc' \in {"connected", "open"} /\ waits' = <<>>),
           pc' # "init" => waits' = <<>>,
           soc_initialized' /\ clean' => wait_vsc_evt'
    PROVE  SInv'
<1>1. sock.rx = <<>> /\ sock' = sock
  BY DEF SInv, SocketKnown
<1>2. SocketKnown'
  BY <1>1 DEF SInv, SocketKnown, Connected
<1>3. SocketLine'
  BY <1>1 DEF SocketLine, SocketAnswered
<1> QED  BY <1>2, <1>3 DEF SInv

\* The calls up to the loader, and the loader itself.
LEMMA LoadingKeepsSocket ==
    ASSUME IInv, SInv,
           \/ init \/ cleanup \/ PowerOn \/ PowerReturns \/ PowerOff \/ hw_config \/ is_hw_ready
           \/ OpenRome \/ OpenRomeAgain \/ OpenAr3k \/ OpenCherokee \/ bt_hci_init_transport
           \/ LoaderStep
    PROVE  SInv'
<1> USE DEF Connected
<1>1. SocketKnown /\ CallKnown /\ FlagKnown
  BY DEF IInv, Calls, SInv
<1>2. CASE init \/ cleanup \/ PowerOn \/ PowerOff \/ hw_config \/ is_hw_ready
  <2>1. /\ UNCHANGED <<soc_type, sock, waits, soc_initialized, clean, wait_vsc_evt>>
        /\ pc \in {"none", "ready", "off", "closed", "smd_ready"}
        /\ pc' \in {"none", "ready", "on_off", "on", "off", "smd_ready", "powered"}
    BY <1>2 DEF init, cleanup, PowerOn, PowerOff, hw_config, is_hw_ready, Loaders, uartVars,
                romeVars, Session, World, props, channels
  <2> QED  BY <1>1, <2>1, SocketIdle DEF SocketKnown
<1>3. CASE PowerReturns
  <2>1. /\ UNCHANGED <<soc_type, sock, waits, soc_initialized, clean, wait_vsc_evt>>
        /\ pc \in {"on_off", "on", "off"} /\ pc' \in {"on", "powered", "off"}
    BY <1>3 DEF PowerReturns, Loaders, uartVars, romeVars, Session, World, props, channels
  <2> QED  BY <1>1, <2>1, SocketIdle DEF SocketKnown
<1>4. CASE OpenRome \/ OpenAr3k
  <2>1. /\ UNCHANGED <<soc_type, sock>> /\ pc = "powered" /\ ~soc_initialized'
        /\ pc' \in {"init", "open_failed"} /\ (pc' = "open_failed" => UNCHANGED waits)
    BY <1>1, <1>4 DEF OpenRome, OpenAr3k, is_soc_initialized, Session, World, props, channels,
                      FlagKnown
  <2> QED  BY <1>1, <2>1, SocketIdle DEF SocketKnown
<1>5. CASE OpenRomeAgain \/ OpenCherokee
  <2>1. /\ UNCHANGED <<soc_type, sock, waits, soc_initialized, clean, wait_vsc_evt>>
        /\ pc = "powered" /\ pc' = "filter"
    BY <1>5 DEF OpenRomeAgain, OpenCherokee, Loaders, uartVars, romeVars, Session, World, props,
                channels
  <2> QED  BY <1>1, <2>1, SocketIdle DEF SocketKnown
<1>6. CASE bt_hci_init_transport
  <2>1. /\ UNCHANGED <<soc_type, sock, waits, soc_initialized, clean, wait_vsc_evt>>
        /\ pc = "powered" /\ pc' \in {"open", "open_failed"}
    BY <1>6 DEF bt_hci_init_transport, uartVars, flags, Session, props
  <2> QED  BY <1>1, <2>1, SocketIdle DEF SocketKnown
<1>7. CASE LoaderStep
  <2>1. /\ UNCHANGED <<soc_type, sock, pc>> /\ pc = "init" /\ ~soc_initialized'
    BY <1>1, <1>7 DEF LoaderStep, Session, channels, FlagKnown
  <2> QED  BY <2>1, SocketIdle
<1> QED  BY <1>2, <1>3, <1>4, <1>5, <1>6, <1>7

\* The loader's result, and the filter up to the connection.
LEMMA FilterKeepsSocket ==
    ASSUME IInv, SInv,
           \/ RomeLoaded \/ RomeNotLoaded \/ Ar3kLoaded \/ start_hci_filter \/ FilterAnswers
           \/ FilterLate \/ FilterTimesOut \/ FilterGivenUp \/ ConnectFilter
    PROVE  SInv'
<1> USE DEF Connected
<1>1. SocketKnown /\ CallKnown /\ FlagKnown /\ FailedIsQuiet
  BY DEF IInv, Calls, SInv
<1>2. UNCHANGED <<soc_type, waits, clean, wait_vsc_evt>>
  BY DEF RomeLoaded, RomeNotLoaded, Ar3kLoaded, start_hci_filter, FilterAnswers, FilterLate,
         FilterTimesOut, FilterGivenUp, ConnectFilter, Loaders, uartVars, romeVars, Session
<1>3. CASE RomeLoaded
  <2>1. /\ UNCHANGED sock /\ pc = "init" /\ pc' = "filter" /\ waits = <<>>
        /\ soc_type = "ROME" /\ step = "done"
    BY <1>3 DEF RomeLoaded, channels
  <2>2. clean => wait_vsc_evt
    BY <2>1 DEF IInv, Rome, RomeFlags, Loading
  <2> QED  BY <1>2, <2>1, <2>2, SocketIdle
<1>4. CASE RomeNotLoaded \/ Ar3kLoaded
  <2>1. /\ UNCHANGED <<sock, soc_initialized>> /\ pc = "init" /\ waits = <<>>
        /\ pc' \in {"open", "open_failed"}
    BY <1>1, <1>4 DEF RomeNotLoaded, Ar3kLoaded, FailedIsQuiet, World, props, channels
  <2> QED  BY <1>1, <1>2, <2>1, SocketIdle DEF SocketKnown
<1>5. CASE \/ start_hci_filter \/ FilterAnswers \/ FilterLate \/ FilterTimesOut
           \/ FilterGivenUp
  <2>1. /\ UNCHANGED <<sock, soc_initialized>>
        /\ pc \in {"filter", "filter_wait", "filter_late", "filter_fail"}
        /\ pc' \in {"filter_wait", "connect", "filter_late", "filter_fail", "open_failed"}
    BY <1>5 DEF start_hci_filter, FilterAnswers, FilterLate, FilterTimesOut, FilterGivenUp,
                World, props, channels
  <2> QED  BY <1>1, <1>2, <2>1, SocketIdle DEF SocketKnown
<1>6. CASE ConnectFilter
  <2>1. /\ UNCHANGED soc_initialized /\ pc = "connect"
        /\ \/ /\ pc' = (IF soc_type = "ROME" THEN "addon" ELSE "connected")
              /\ sock' = [up |-> TRUE, rx |-> <<>>]
           \/ pc' = "open_failed" /\ UNCHANGED sock
    BY <1>6 DEF ConnectFilter, props
  <2>2. CASE pc' = "open_failed" /\ UNCHANGED sock
    BY <1>1, <1>2, <2>1, <2>2, SocketIdle DEF SocketKnown
  <2>3. CASE /\ pc' = (IF soc_type = "ROME" THEN "addon" ELSE "connected")
             /\ sock' = [up |-> TRUE, rx |-> <<>>]
    <3>1. sock' \in [up : BOOLEAN, rx : Seq(Event)] /\ sock'.rx = <<>>
      BY <2>3, EventSequences
    <3>2. waits' = <<>>
      BY <1>1, <1>2, <2>1 DEF SocketKnown
    <3>3. SocketKnown'
      BY <1>1, <1>2, <2>1, <2>3, <3>1, <3>2 DEF SocketKnown
    <3>4. SocketLine'
      BY <3>1, <3>2 DEF SocketLine, SocketAnswered
    <3> QED  BY <3>3, <3>4 DEF SInv
  <2> QED  BY <2>1, <2>2, <2>3
<1> QED  BY <1>3, <1>4, <1>5, <1>6

\* A command to a controller that runs its firmware is answered as it is read; on
\* a socket that has ended nothing is.
LEMMA SocketCommandAnswered ==
    ASSUME SInv, waits = <<>>, clean, wait_vsc_evt, soc.power, soc.fw = "loaded",
           pc \in Connected, NEW else, SocketCommand(else)
    PROVE  SocketAnswered' /\ sock' \in [up : BOOLEAN, rx : Seq(Event)]
<1>1. sock \in [up : BOOLEAN, rx : Seq(Event)] /\ sock.rx = <<>>
  BY HeadTail DEF SInv, SocketKnown, SocketLine, SocketAnswered
<1>2. "VSE" \in Event /\ "CCE" \in Event
  BY DEF Event
<1>3. CASE sock.up
  <2>1. waits' = <<"VSE", "CCE">>
    BY <1>3, Concatenations DEF SocketCommand
  <2>2. sock' = [sock EXCEPT !.rx = @ \o <<"VSE", "CCE">>]
    BY <1>3 DEF SocketCommand
  <2>3. sock.rx \o <<"VSE", "CCE">> = <<"VSE", "CCE">> /\ <<"VSE", "CCE">> \in Seq(Event)
    BY <1>1, <1>2, Concatenations, EventSequences
  <2>4. sock' = [up |-> sock.up, rx |-> <<"VSE", "CCE">>]
    BY <1>1, <2>2, <2>3
  <2> QED  BY <1>1, <2>1, <2>3, <2>4 DEF SocketAnswered
<1>4. CASE ~sock.up
  <2>1. UNCHANGED sock
    BY <1>4 DEF SocketCommand
  <2> QED  BY <1>1, <1>4, <2>1 DEF SocketAnswered
<1> QED  BY <1>3, <1>4

\* Whatever the controller is, a command only adds events.
LEMMA SocketCommandTyped ==
    ASSUME NEW else, sock \in [up : BOOLEAN, rx : Seq(Event)], SocketCommand(else)
    PROVE  sock' \in [up : BOOLEAN, rx : Seq(Event)]
<1>1. <<"VSE", "CCE">> \in Seq(Event)
  BY EventSequences DEF Event
<1>2. sock.rx \o <<"VSE", "CCE">> \in Seq(Event)
  BY <1>1, ConcatProperties
<1>3. [sock EXCEPT !.rx = @ \o <<"VSE", "CCE">>] \in [up : BOOLEAN, rx : Seq(Event)]
  BY <1>2
<1> QED  BY <1>3 DEF SocketCommand

\* The commands on the socket, their reads, and the end of the open.
LEMMA AskingKeepsSocket ==
    ASSUME IInv, SInv,
           \/ rome_get_addon_feature_list \/ enable_controller_log \/ ReadsSocket \/ OpenEnds
    PROVE  SInv'
<1> USE DEF Connected
<1>1. SocketKnown /\ SocketLine /\ FlagKnown
  BY DEF IInv, Calls, SInv
<1>2. UNCHANGED <<soc, soc_type, clean, soc_initialized>>
  BY DEF rome_get_addon_feature_list, enable_controller_log, ReadsSocket, OpenEnds,
         SocketFrame, props
<1>3. CASE rome_get_addon_feature_list \/ enable_controller_log
  <2>1. /\ \/ pc = "addon" /\ pc' = "log"
           \/ pc = "log" /\ pc' = "connected" /\ waits = <<>>
        /\ UNCHANGED wait_vsc_evt
        /\ UNCHANGED <<waits, sock>> \/ \E else : SocketCommand(else)
    BY <1>3 DEF rome_get_addon_feature_list, enable_controller_log
  <2>2. waits = <<>> /\ soc_type = "ROME"
    BY <1>1, <2>1 DEF SocketKnown
  <2>3. clean => soc.power /\ soc.fw = "loaded" /\ wait_vsc_evt
    BY <1>1, <2>1, <2>2 DEF FlagKnown, Filtering, SocketKnown
  <2>4. CASE UNCHANGED <<waits, sock>>
    BY <1>1, <1>2, <2>1, <2>2, <2>4 DEF SInv, SocketKnown, SocketLine, SocketAnswered
  <2>5. ASSUME NEW else, SocketCommand(else) PROVE SInv'
    <3>1. sock' \in [up : BOOLEAN, rx : Seq(Event)]
      BY <1>1, <2>5, SocketCommandTyped DEF SocketKnown
    <3>2. clean => SocketAnswered'
      BY <2>1, <2>2, <2>3, <2>5, SocketCommandAnswered
    <3>3. SocketKnown'
      BY <1>1, <1>2, <2>1, <2>2, <3>1 DEF SocketKnown
    <3> QED  BY <1>2, <3>2, <3>3 DEF SInv, SocketLine
  <2> QED  BY <2>1, <2>4, <2>5
<1>4. CASE ReadsSocket
  <2>1. /\ pc \in {"log", "connected"} /\ waits # <<>> /\ UNCHANGED <<pc, wait_vsc_evt>>
        /\ \/ /\ sock.rx # <<>> /\ waits' = Tail(waits)
              /\ sock' = [sock EXCEPT !.rx = Tail(@)]
           \/ sock = NoSocket /\ waits' = <<>> /\ UNCHANGED sock
    BY <1>4 DEF ReadsSocket
  <2>2. CASE sock = NoSocket /\ waits' = <<>> /\ UNCHANGED sock
    <3>1. sock'.rx = <<>>
      BY <2>2 DEF NoSocket
    <3> QED  BY <1>1, <1>2, <2>1, <2>2, <3>1 DEF SInv, SocketKnown, SocketLine, SocketAnswered
  <2>3. CASE /\ sock.rx # <<>> /\ waits' = Tail(waits)
             /\ sock' = [sock EXCEPT !.rx = Tail(@)]
    <3>1. soc_type = "ROME"
      BY <1>1, <2>3 DEF SocketKnown
    <3>2. Tail(sock.rx) \in Seq(Event)
      BY <1>1, <2>3 DEF SocketKnown
    <3>3. sock' \in [up : BOOLEAN, rx : Seq(Event)] /\ sock'.rx = Tail(sock.rx)
      BY <1>1, <2>3, <3>2 DEF SocketKnown
    <3>4. SocketKnown'
      BY <1>1, <1>2, <2>1, <3>1, <3>3 DEF SocketKnown
    <3>5. clean => SocketAnswered'
      <4>1. SUFFICES ASSUME clean PROVE SocketAnswered'
        OBVIOUS
      <4>2. CASE waits = <<"VSE", "CCE">> /\ sock.rx = <<"VSE", "CCE">>
        <5>1. waits' = <<"CCE">> /\ sock'.rx = <<"CCE">>
          BY <2>3, <3>3, <4>2, HeadTail
        <5> QED  BY <5>1 DEF SocketAnswered
      <4>3. CASE waits = <<"CCE">> /\ sock.rx = <<"CCE">>
        <5>1. waits' = <<>> /\ sock'.rx = <<>>
          BY <2>3, <3>3, <4>3, HeadTail
        <5> QED  BY <5>1 DEF SocketAnswered
      <4> QED  BY <1>1, <2>1, <2>3, <4>1, <4>2, <4>3 DEF SocketLine, SocketAnswered
    <3> QED  BY <1>2, <3>4, <3>5 DEF SInv, SocketLine
  <2> QED  BY <2>1, <2>2, <2>3
<1>5. CASE OpenEnds
  <2>1. /\ pc = "connected" /\ pc' = "open" /\ waits = <<>> /\ UNCHANGED <<waits, sock>>
        /\ wait_vsc_evt => wait_vsc_evt'
    BY <1>5 DEF OpenEnds
  <2> QED  BY <1>1, <1>2, <2>1 DEF SInv, SocketKnown, SocketLine, SocketAnswered
<1> QED  BY <1>3, <1>4, <1>5

\* What runs beside the library, and what ends a connection.
LEMMA EndsKeepSocket ==
    ASSUME IInv, SInv,
           \/ bt_powerup \/ LpmSet \/ hw_epilog_process \/ hw_epilog_cback \/ CloseUserial
           \/ HalDies \/ External \/ Finished \/ UNCHANGED vars
    PROVE  SInv'
<1> USE DEF Connected
<1>1. SocketKnown /\ SocketLine
  BY DEF SInv
<1>2. CASE LpmSet \/ RunTrigger \/ FilterReady \/ hciattach \/ Finished \/ UNCHANGED vars
  <2>1. UNCHANGED <<pc, soc_type, waits, sock, wait_vsc_evt, clean, soc_initialized>>
    BY <1>2 DEF LpmSet, RunTrigger, FilterReady, hciattach, Finished, vars, Loaders, uartVars,
                romeVars, flags, Session, World, props, channels
  <2> QED  BY <2>1, SocketRests
<1>7. CASE bt_powerup
  <2>1. UNCHANGED <<pc, soc_type, waits, sock, wait_vsc_evt, clean>>
    BY <1>7 DEF bt_powerup, bt_powerup_enters, bt_powerup_switches, stop_hci_filter, Loaders,
                uartVars, romeVars, flags, Session, World, channels
  <2>2. soc_initialized' => soc_initialized
    BY <1>7 DEF bt_powerup, bt_powerup_enters, bt_powerup_switches, stop_hci_filter, World,
                props
  <2> QED  BY <2>1, <2>2, SocketRests
<1>3. CASE hw_epilog_process \/ hw_epilog_cback
  <2>1. /\ UNCHANGED <<soc_type, waits, sock, wait_vsc_evt, clean, soc_initialized>>
        /\ pc \in {"open", "epilog"} /\ pc' \in {"open", "epilog"}
    BY <1>3 DEF hw_epilog_process, hw_epilog_cback, Loaders, uartVars, romeVars, Session, World,
                props, channels
  <2> QED  BY <1>1, <2>1 DEF SInv, SocketKnown, SocketLine, SocketAnswered
<1>4. CASE FilterStops
  <2>1. /\ UNCHANGED <<pc, soc_type, waits, wait_vsc_evt, clean, soc_initialized>>
        /\ sock' = [sock EXCEPT !.up = FALSE]
    BY <1>4 DEF FilterStops, Loaders, uartVars, romeVars, Session, props
  <2>2. sock' \in [up : BOOLEAN, rx : Seq(Event)] /\ sock'.rx = sock.rx /\ ~sock'.up
    BY <1>1, <2>1 DEF SocketKnown
  <2> QED  BY <1>1, <2>1, <2>2 DEF SInv, SocketKnown, SocketLine, SocketAnswered
<1>5. CASE CloseUserial
  <2>1. /\ UNCHANGED <<soc_type, waits, wait_vsc_evt, clean, soc_initialized>>
        /\ pc \in {"open", "epilog", "open_failed"} /\ pc' = "closed"
        /\ sock' = NoSocket \/ (soc_type = "DEFAULT" /\ UNCHANGED sock)
    BY <1>5 DEF CloseUserial, romeVars, Session
  <2>2. sock' \in [up : BOOLEAN, rx : Seq(Event)] /\ sock'.rx = <<>>
    <3>1. CASE sock' = NoSocket
      BY <3>1, EventSequences DEF NoSocket
    <3>2. CASE soc_type = "DEFAULT" /\ UNCHANGED sock
      BY <1>1, <3>2 DEF SocketKnown
    <3> QED  BY <2>1, <3>1, <3>2
  <2> QED  BY <1>1, <2>1, <2>2 DEF SInv, SocketKnown, SocketLine
<1>6. CASE HalDies
  <2>1. /\ pc' = "none" /\ waits' = <<>> /\ sock' = NoSocket /\ wait_vsc_evt' = TRUE
    BY <1>6 DEF HalDies
  <2>2. sock' \in [up : BOOLEAN, rx : Seq(Event)] /\ sock'.rx = <<>>
    BY <2>1, EventSequences DEF NoSocket
  <2> QED  BY <2>1, <2>2 DEF SInv, SocketKnown, SocketLine
<1> QED  BY <1>2, <1>3, <1>4, <1>5, <1>6, <1>7 DEF External

\* The socket's part of the invariant.
LEMMA SocketInvariant == Spec => []SInv
<1>1. Init => SInv
  <2>1. SUFFICES ASSUME Init PROVE SInv
    OBVIOUS
  <2>2. /\ pc = "none" /\ waits = <<>> /\ sock = NoSocket /\ soc_initialized = FALSE
    BY <2>1 DEF Init, UartInit
  <2>3. sock \in [up : BOOLEAN, rx : Seq(Event)] /\ sock.rx = <<>>
    BY <2>2, EventSequences DEF NoSocket
  <2> QED  BY <2>2, <2>3 DEF SInv, SocketKnown, SocketLine, Connected
<1>2. IInv /\ SInv /\ [Next]_vars => SInv'
  BY LoadingKeepsSocket, FilterKeepsSocket, AskingKeepsSocket, EndsKeepSocket
     DEF Next, Library, Hal
<1> QED  BY <1>1, <1>2, Invariant, PTL DEF Spec
-----------------------------------------------------------------------------
(* The theorems. *)

\* In a clean initialisation a loader that reports success has read every event
\* its controller sent, for every length of the files and each event handling
\* that loader and controller agree on; and no answer to the library's own
\* commands is left on the socket that the Bluetooth stack is given.
THEOREM AllEventsRead == Spec => []EventsConsumed
<1>1. IInv /\ SInv => EventsConsumed
  <2>1. SUFFICES ASSUME IInv, SInv, clean
                 PROVE  /\ step = "done" /\ waits = <<>> => rx = <<>>
                        /\ pc \in {"open", "epilog"} => sock.rx = <<>>
    BY DEF EventsConsumed
  <2>2. ASSUME step = "done", waits = <<>> PROVE rx = <<>>
    <3>1. pc = "init" /\ soc_type \in {"ROME", "AR3K"}
      BY <2>1, <2>2 DEF IInv, Calls, CallKnown
    <3>2. CASE soc_type = "ROME"
      BY <2>1, <2>2, <3>1, <3>2, RomeQuiescent DEF IInv, Rome, Loading, Quiescent
    <3>3. CASE soc_type = "AR3K"
      BY <2>1, <2>2, <3>1, <3>3, Ar3kQuiescent DEF IInv, Ar3k, Loading, Quiescent
    <3> QED  BY <3>1, <3>2, <3>3
  <2>3. ASSUME pc \in {"open", "epilog"} PROVE sock.rx = <<>>
    BY <2>1, <2>3, HeadTail DEF SInv, SocketKnown, SocketLine, SocketAnswered, Connected
  <2> QED  BY <2>2, <2>3
<1> QED  BY <1>1, Invariant, SocketInvariant, PTL

\* After a clean download soc_initialized never outlives the firmware it stands
\* for: not across a failed power switch, a refused segment, a crash of the HAL or
\* a second open.
THEOREM FlagStaysTruthful == Spec => []FlagTruthful
<1>1. IInv => FlagTruthful
  BY DEF IInv, Calls, FlagKnown, FlagTruthful
<1> QED  BY <1>1, Invariant, PTL

\* In a clean initialisation the library never waits for an event that will not
\* come: not in the download to a controller that this session has switched on,
\* at any file length, any version and each event handling that loader and
\* controller agree on; and not on the filter's socket.
THEOREM ReadsAreAnswered == Spec => []ReadAnswered
<1>1. IInv /\ SInv => ReadAnswered
  <2>0. ASSUME SInv, waits # <<>>, clean, pc # "init" PROVE sock.rx # <<>> \/ ~sock.up
    BY <2>0, HeadTail DEF SInv, SocketKnown, SocketLine, SocketAnswered, Connected
  <2>1. SUFFICES ASSUME IInv, pc = "init", waits # <<>>, fresh, clean
                 PROVE  rx # <<>> /\ rx[1] # "STRAY"
    BY <2>0 DEF ReadAnswered
  <2>2. step # "failed" /\ soc_type \in {"ROME", "AR3K"}
    BY <2>1 DEF IInv, Calls, CallKnown, FailedIsQuiet
  <2>3. CASE soc_type = "ROME"
    <3>1. Loading("ROME") /\ ~Stuck
      BY <2>1, <2>2, <2>3 DEF Loading, IInv, Rome, RomeSpeed
    <3>2. rx # <<>> /\ (RomeAnswered \/ RomeRefused)
      BY <2>1, <3>1 DEF IInv, Rome, RomeLine, Quiescent, Stuck
    <3>3. rx[1] \in {"VSE", "VERSION", "CCE", "ERR"}
      BY <3>2 DEF RomeAnswered, RomeRefused
    <3> QED  BY <3>2, <3>3
  <2>4. CASE soc_type = "AR3K"
    <3>1. Loading("AR3K") /\ ~Stuck
      BY <2>1, <2>2, <2>4 DEF Loading, IInv, Ar3k, Ar3kSpeed
    <3>2. rx # <<>> /\ Ar3kAnswered
      BY <2>1, <3>1 DEF IInv, Ar3k, Ar3kLine, Quiescent, Stuck
    <3>3. rx[1] \in {"CCE", "ERR"}
      BY <3>2 DEF Ar3kAnswered
    <3> QED  BY <3>2, <3>3
  <2> QED  BY <2>2, <2>3, <2>4
<1> QED  BY <1>1, Invariant, SocketInvariant, PTL

\* A transport that is reported open is the right descriptor, with the UART let
\* go where the filter has it, and a controller that can be used behind it.
THEOREM OpenStaysUsable == Spec => []OpenIsUsable
<1>1. IInv => OpenIsUsable
  <2>1. SUFFICES ASSUME IInv, pc \in {"open", "epilog"} PROVE OpenIsUsable
    BY DEF OpenIsUsable
  <2>2. soc_type \in {"ROME", "AR3K", "CHEROKEE", "DEFAULT"}
    BY <2>1 DEF IInv, BtTypes
  <2>3. TransportKnown /\ (soc_type = "ROME" => soc_initialized)
    BY <2>1 DEF IInv, Calls, FlagKnown, Filtering
  <2> QED  BY <2>1, <2>2, <2>3 DEF TransportKnown, OpenIsUsable
<1> QED  BY <1>1, Invariant, PTL
=============================================================================
