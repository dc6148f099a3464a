------------------------------ MODULE Ar3kInit ------------------------------
(***************************************************************************)
(* ath3k_init (hw_ar3k.c): an AR3K controller is taken to 3 Mbaud, asked   *)
(* for its type, version and checksum, given the patch and the persistent- *)
(* storage tags of its ROM version, and reset.                             *)
(*                                                                         *)
(* The tags come from a text file that ath_parse_ps reads line by line.    *)
(* Its progress is kept in ps: the section, the data lines still to come,  *)
(* whether they are read as an array of hex digits, and the tags so far.   *)
(*                                                                         *)
(* Every answer is a command-complete event.  A plain read takes any event *)
(* ("CCE" in waits); a checked one ("PS") also wants its status to be      *)
(* success.  The controller's own checksum succeeds once it has been       *)
(* configured since its last power cycle (external).                       *)
(***************************************************************************)
EXTENDS RomeInit

CONSTANT MAX_TAGS       \* entries of ps_list

ASSUME Ar3kAssumption == MAX_TAGS \in Nat \ {0}

VARIABLES
    ps,                 \* the parser of the tag file
    lines,              \* lines it has read
    upio_state          \* what the low-power pins were last set to

ar3kVars == <<ps, lines, upio_state>>

NoSection == [section |-> "UNDEF", left |-> 0, hex |-> TRUE, tags |-> 0]
MaxLines == 3 * MAX_TAGS + 2    \* bound on the lines of a tag file

Ar3kTypeOK ==
    /\ ps \in [section : {"UNDEF", "ID", "LEN", "DATA"}, left : 0..2, hex : BOOLEAN,
               tags : 0..MAX_TAGS]
    /\ lines \in 0..MaxLines
    /\ upio_state \in [{"LPM_MODE", "BT_WAKE"} -> {"UNKNOWN", "ASSERT", "DEASSERT"}]

Ar3kFresh ==
    /\ ps = NoSection /\ lines = 0
    /\ upio_state = [p \in {"LPM_MODE", "BT_WAKE"} |-> "UNKNOWN"]

\* What this module never touches, and what a plain command leaves alone too.
Ar3kFrame == UNCHANGED <<version, chipset_ver, flags, wipower_flag, upio_state>>
Ar3kPlain == Ar3kFrame /\ UNCHANGED <<baud, tlv, clean, ps, lines>>
-----------------------------------------------------------------------------
(* Commands and answers. *)

\* Where a failure leads, by the step that was to follow: the checksum's is
\* taken for a checksum that is right, the address command's is ignored, and
\* after the first speed change everything goes back to the first speed.
Ar3kAfterFailure(s) ==
    CASE s = "a_speed"      -> "failed"
      [] s = "a_crc_read"   -> "a_addr"
      [] s \in {"a_hci_reset", "a_back_speed"} -> s
      [] OTHER              -> "a_back"

\* A command whose answer is checked: it is carried out, and the firmware is
\* then fw, or refused.
write_cmd(next, fw) ==
    \/ /\ Command(<<"CCE">>, <<"PS">>, next)
       /\ soc' = IF Heard THEN [soc EXCEPT !.fw = fw] ELSE soc
       /\ UNCHANGED faults
    \/ /\ Fault /\ Command(<<"ERR">>, <<"PS">>, next)
       /\ UNCHANGED soc

\* The persistent-storage commands, one of which is a list of tags.
write_ps_cmd(next, fw) == write_cmd(next, fw)

read_ps_event ==
    /\ waits # <<>> /\ Head(waits) = "PS" /\ rx # <<>>
    /\ waits' = <<>> /\ rx' = Tail(rx)
    /\ step' = IF step = "a_crc_read"
               THEN IF Head(rx) = "CCE" THEN "a_addr" ELSE "a_files"
               ELSE IF Head(rx) = "CCE" THEN step ELSE Ar3kAfterFailure(step)
    /\ Ar3kPlain /\ UNCHANGED <<soc, faults>>

Ar3kReadsEvent ==
    /\ read_hci_event
    /\ Ar3kPlain /\ UNCHANGED <<soc, step, faults>>

\* A write or a read reports an error.
Ar3kIoFails ==
    /\ waits # <<>> /\ Fault
    /\ step' = Ar3kAfterFailure(step) /\ waits' = <<>>
    /\ rx' \in {rx, <<>>} /\ clean' = FALSE
    /\ Ar3kFrame /\ UNCHANGED <<soc, baud, tlv, ps, lines>>

\* The controller answers at the speed it is about to leave.
set_cntrlr_baud(speed, next) ==
    /\ Command(<<"CCE">>, <<"CCE">>, next)
    /\ soc' = IF Heard THEN [soc EXCEPT !.baud = speed] ELSE soc
    /\ UNCHANGED faults

\* set_speed with uart_speed: the host's side; an unknown speed becomes 115200.
set_speed(speed) == userial_vendor_set_baud(speed)
-----------------------------------------------------------------------------
(* ath3k_init *)

\* Hardware flow control; either ioctl may fail.
FlowControlOn ==
    /\ step = "a_rts" /\ waits = <<>>
    /\ \/ step' = "a_baud" /\ UNCHANGED faults
       \/ Fault /\ step' = "failed"
    /\ Ar3kPlain /\ UNCHANGED <<soc, rx, waits>>

RaiseControllerSpeed ==
    /\ step = "a_baud"
    /\ set_cntrlr_baud(Fast, "a_speed")
    /\ Ar3kPlain

RaiseHostSpeed ==
    /\ step = "a_speed" /\ waits = <<>>
    /\ \/ set_speed(Fast) /\ step' = "a_dev" /\ UNCHANGED faults
       \/ Fault /\ step' = "failed" /\ UNCHANGED baud
    /\ Ar3kFrame /\ UNCHANGED <<soc, rx, waits, tlv, clean, ps, lines>>

get_device_type == step = "a_dev" /\ write_cmd("a_ver", soc.fw) /\ Ar3kPlain

read_ath3k_version == step = "a_ver" /\ write_cmd("a_crc", soc.fw) /\ Ar3kPlain

\* A checksum that is right is answered with success.
get_ath3k_crc ==
    /\ step = "a_crc"
    /\ Command(IF soc.fw = "loaded" THEN <<"CCE">> ELSE <<"ERR">>, <<"PS">>, "a_crc_read")
    /\ Ar3kPlain /\ UNCHANGED <<soc, faults>>

\* The tag file of this type and ROM version.  One ROM version may do without.
OpenPsFile ==
    /\ step = "a_files" /\ waits = <<>>
    /\ \/ step' = "a_parse" /\ ps' = NoSection /\ lines' = 0 /\ UNCHANGED <<faults, clean>>
       \/ Fault /\ step' \in {"a_addr", "a_back"} /\ clean' = FALSE /\ UNCHANGED <<ps, lines>>
    /\ Ar3kFrame /\ UNCHANGED <<soc, rx, waits, baud, tlv>>
-----------------------------------------------------------------------------
(* ath_parse_ps *)

\* One line that is neither comment nor '#', in each section: an identifier; a
\* length of so many data lines; data, which counts only as an array of hex
\* digits.
PsLine(p) ==
    CASE p.section = "ID"   -> {[p EXCEPT !.section = "LEN"]}
      [] p.section = "LEN"  -> {[p EXCEPT !.section = "DATA", !.left = n] : n \in 0..2}
      [] p.section = "DATA" ->
            {IF p.left = 0 \/ (hex /\ p.left = 1)
             THEN [NoSection EXCEPT !.tags = p.tags + 1]
             ELSE [p EXCEPT !.hex = hex, !.left = IF hex THEN @ - 1 ELSE @]
                : hex \in IF p.hex THEN BOOLEAN ELSE {FALSE}}
      [] OTHER              -> {p}

\* A line that cannot be read, a '#' inside an entry and a full table are
\* errors; the end of the file is not, whatever section it falls in.
ath_parse_ps ==
    /\ step = "a_parse" /\ waits = <<>>
    /\ \/ /\ lines < MaxLines /\ ps.section = "UNDEF"           \* a '#' line
          /\ lines' = lines + 1 /\ step' = step
          /\ ps' = [ps EXCEPT !.section = "ID"]
       \/ /\ lines < MaxLines                                   \* any other line
          /\ \E p \in PsLine(ps) :
              IF p.tags = MAX_TAGS THEN step' = "a_back" /\ ps' = NoSection /\ lines' = 0
              ELSE step' = step /\ ps' = p /\ lines' = lines + 1
       \/ /\ ps.section # "UNDEF" /\ step' = "a_back"            \* '#' or a bad preamble
          /\ ps' = NoSection /\ lines' = 0
       \/ /\ step' = "a_patch" /\ lines' = 0                     \* the end
          /\ ps' = [NoSection EXCEPT !.tags = ps.tags]
    /\ Ar3kFrame /\ UNCHANGED <<soc, rx, waits, baud, tlv, faults, clean>>
-----------------------------------------------------------------------------
(* ps_patch_download and ps_config_download *)

\* A patch file may be missing.  Its "DA:" lines set the address; a line of
\* another kind is an error.
OpenPatchFile ==
    /\ step = "a_patch" /\ waits = <<>>
    /\ \/ step' = "a_ps_reset" /\ UNCHANGED tlv
       \/ step' = "a_da" /\ tlv' \in {f \in Files("PATCH") : f.cfg = "NONE"}
    /\ Ar3kFrame /\ UNCHANGED <<soc, rx, waits, baud, faults, clean, ps, lines>>

set_patch_ram ==
    /\ step = "a_da" /\ tlv.rest
    /\ write_cmd("a_da", soc.fw)
    /\ tlv' = [tlv EXCEPT !.rest = FALSE]
    /\ Ar3kFrame /\ UNCHANGED <<baud, clean, ps, lines>>

AddressLinesEnd ==
    /\ step = "a_da" /\ waits = <<>>
    /\ step' \in {"a_back", "a_write"}
    /\ Ar3kPlain /\ UNCHANGED <<soc, rx, waits, faults>>

\* The patch in pieces, then ENABLE_PATCH.
ps_patch_download ==
    /\ step = "a_write"
    /\ IF tlv.full > 0 THEN write_cmd("a_write", soc.fw) ELSE write_ps_cmd("a_ps_reset", "half")
    /\ tlv' = IF tlv.full > 0 THEN [tlv EXCEPT !.full = @ - 1] ELSE NoFile
    /\ Ar3kFrame /\ UNCHANGED <<baud, clean, ps, lines>>

\* PS_RESET, then PS_WRITE for every tag.
ps_config_download ==
    /\ \/ step = "a_ps_reset" /\ UNCHANGED ps
       \/ step = "a_tags" /\ ps' = [ps EXCEPT !.tags = @ - 1]
    /\ IF ps'.tags > 0 THEN write_ps_cmd("a_tags", soc.fw) ELSE write_ps_cmd("a_addr", "loaded")
    /\ Ar3kFrame /\ UNCHANGED <<baud, tlv, clean, lines>>
-----------------------------------------------------------------------------
\* The address, if there is a file of it; the answer is not looked at.
write_bdaddr_from_file ==
    /\ step = "a_addr"
    /\ \/ Command(<<>>, <<>>, "a_hci_reset")
       \/ Command(<<"CCE">>, <<"CCE">>, "a_hci_reset")
    /\ Ar3kPlain /\ UNCHANGED <<soc, faults>>

Ar3kReset ==
    /\ step = "a_hci_reset"
    /\ Command(<<"CCE">>, <<"CCE">>, "a_baud2")
    /\ Ar3kPlain /\ UNCHANGED <<soc, faults>>

\* The speed once more; its result is what ath3k_init returns.
RepeatSpeed ==
    /\ step = "a_baud2"
    /\ set_cntrlr_baud(Fast, "done")
    /\ Ar3kPlain

\* The failure path: both sides back to 115200.
LowerControllerSpeed ==
    /\ step = "a_back"
    /\ set_cntrlr_baud(Slow, "a_back_speed")
    /\ Ar3kPlain

LowerHostSpeed ==
    /\ step = "a_back_speed" /\ waits = <<>>
    /\ set_speed(Slow) /\ step' = "failed"
    /\ tlv' = NoFile /\ ps' = NoSection
    /\ Ar3kFrame /\ UNCHANGED <<soc, rx, waits, faults, clean, lines>>

Ar3kStep ==
    \/ read_ps_event \/ Ar3kReadsEvent \/ FlowControlOn \/ RaiseControllerSpeed
    \/ RaiseHostSpeed \/ get_device_type \/ read_ath3k_version \/ get_ath3k_crc
    \/ OpenPsFile \/ ath_parse_ps \/ OpenPatchFile \/ set_patch_ram \/ AddressLinesEnd
    \/ ps_patch_download \/ ps_config_download \/ write_bdaddr_from_file
    \/ Ar3kReset \/ RepeatSpeed \/ LowerControllerSpeed \/ LowerHostSpeed
-----------------------------------------------------------------------------
(* The pins of an AR3K controller (lpm_set_ar3k). *)

\* A mode that is set already, and a wake that is asserted already, are left;
\* the state follows only a write that succeeded.
lpm_set_ar3k(pio, action) ==
    \/ /\ upio_state[pio] # action \/ (pio = "BT_WAKE" /\ action = "DEASSERT")
       /\ upio_state' = [upio_state EXCEPT ![pio] = action]
       /\ UNCHANGED faults
    \/ /\ upio_state[pio] = action /\ ~(pio = "BT_WAKE" /\ action = "DEASSERT")
       /\ UNCHANGED <<upio_state, faults>>
    \/ Fault /\ UNCHANGED upio_state
=============================================================================
