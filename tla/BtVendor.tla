------------------------------ MODULE BtVendor ------------------------------
(***************************************************************************)
(* The Bluetooth vendor library (bt_vendor_qcom.c, hardware.c, hci_smd.c)  *)
(* between the Bluetooth HAL, which calls it, and the controller: power,   *)
(* opening of the transport with the firmware download of RomeInit and     *)
(* Ar3kInit, closing, and the start and stop of wcnss_filter, the process  *)
(* that owns the UART of a ROME controller once it is initialised.         *)
(*                                                                         *)
(* Library and filter talk through system properties under two names: init *)
(* copies the library's start_hci to the name the filter knows, and the    *)
(* filter's status to the name the library knows                           *)
(* (init.fujisan.bluetooth.rc).  Both copies are triggers, run one after   *)
(* the other and later than the write that caused them.                    *)
(*                                                                         *)
(* The HAL may die at any step; properties, filter and controller go on.   *)
(* HAL, filter, the hciattach daemon and init are external.  ANT, FM and   *)
(* the Wi-Fi synchronisation are not compiled in.                          *)
(***************************************************************************)
EXTENDS Ar3kInit

CONSTANTS
    SocTypes,       \* the controllers considered, of ROME, AR3K, CHEROKEE, DEFAULT
    MaxSessions     \* bound on the times the HAL loads the library

ASSUME VendorAssumption ==
    SocTypes \subseteq {"ROME", "AR3K", "CHEROKEE", "DEFAULT"} /\ MaxSessions \in Nat

VARIABLES
    soc_type,
    emb_wp_mode,        \* ro.vendor.bluetooth.emb_wp_mode
    pc,                 \* where the library's current call is
    pw,                 \* bt_powerup under way: what it does, how far it is
    rfkill,             \* the rfkill and LDO nodes can be used
    sessions,           \* times the library has been loaded
    soc_initialized, patch_dnld_inprog, clean_up,   \* properties
    start_hci, hci_filter_status,                   \* vendor.wc_transport.*
    bridge,             \* init: triggers not yet run
    filter, asked,      \* wcnss_filter, and whether it was told to stop
    skip_init,          \* __op: this open has not loaded the controller
    fresh,              \* history: this session switched the controller on
    bt_status,          \* vendor.bluetooth.status (SMD)
    q_fd,               \* q->fd (SMD): the two channels
    sock                \* the connection to the filter: up, and its unread events

props == <<soc_initialized, patch_dnld_inprog, clean_up, start_hci, hci_filter_status>>
channels == <<bt_status, q_fd, sock>>
vars == <<uartVars, romeVars, ar3kVars, soc_type, emb_wp_mode, pc, pw, rfkill, sessions,
          props, bridge, filter, asked, skip_init, fresh, channels>>

\* Everything but the call and the power sequence.
Loaders == <<uartVars, romeVars, ar3kVars>>
World == <<props, bridge, filter, asked, channels, rfkill>>
Session == <<soc_type, emb_wp_mode, sessions, skip_init, fresh>>

NoSocket == [up |-> FALSE, rx |-> <<>>]
NoPower == [en |-> FALSE, phase |-> "none"]
PowerCall(en) == pw' = [en |-> en, phase |-> "enter"]

TypeOK ==
    /\ UartTypeOK /\ RomeTypeOK /\ Ar3kTypeOK
    /\ soc_type \in SocTypes /\ emb_wp_mode \in BOOLEAN
    /\ pc \in {"none", "ready", "on_off", "on", "powered", "init", "filter", "filter_wait",
               "filter_late", "filter_fail", "connect", "addon", "log", "connected", "open",
               "epilog", "open_failed", "closed", "off", "smd_ready"}
    /\ pw \in [en : BOOLEAN, phase : {"none", "enter", "ask", "wait", "rfkill", "ret"}]
    /\ sessions \in 0..MaxSessions /\ rfkill \in BOOLEAN
    /\ soc_initialized \in BOOLEAN /\ patch_dnld_inprog \in {"null", "bt"}
    /\ clean_up \in BOOLEAN /\ start_hci \in BOOLEAN
    /\ hci_filter_status \in {"0", "1", "-1"}
    /\ bridge \in Seq({"start", "stop", "0", "1"})
    /\ filter \in {"off", "starting", "ready"} /\ asked \in BOOLEAN
    /\ skip_init \in BOOLEAN /\ fresh \in BOOLEAN
    /\ bt_status \in {"", "on", "off"}
    /\ q_fd \in [1..2 -> {"zero", "open", "closed"}]
    /\ sock \in [up : BOOLEAN, rx : Seq({"CCE", "VSE"})]

Init ==
    /\ UartInit /\ RomeInitial /\ Ar3kFresh
    /\ soc_type \in SocTypes /\ (soc_type # "ROME" => version = "other")
    /\ emb_wp_mode \in BOOLEAN /\ (soc_type # "ROME" => ~emb_wp_mode)
    /\ pc = "none" /\ pw = NoPower /\ rfkill = TRUE /\ sessions = 0
    /\ soc_initialized = FALSE /\ patch_dnld_inprog = "null" /\ clean_up = FALSE
    /\ start_hci = FALSE /\ hci_filter_status = "0" /\ bridge = <<>>
    /\ filter = "off" /\ asked = FALSE /\ skip_init = TRUE /\ fresh = FALSE
    /\ bt_status = "" /\ q_fd = [i \in 1..2 |-> "zero"] /\ sock = NoSocket
-----------------------------------------------------------------------------
(* init: the bridge of the two property names. *)

\* property_set of start_hci queues a trigger, whatever the old value was.
SetStartHci(b) ==
    /\ start_hci' = b
    /\ bridge' = Append(bridge, IF b THEN "start" ELSE "stop")

\* One trigger runs.  The filter's service follows its own start_hci.
RunTrigger ==
    /\ bridge # <<>> /\ bridge' = Tail(bridge)
    /\ \/ /\ Head(bridge) = "start"
          /\ filter' = IF filter = "off" THEN "starting" ELSE filter
          /\ UNCHANGED <<hci_filter_status, asked>>
       \/ /\ Head(bridge) = "stop"
          /\ asked' = (asked \/ filter # "off")
          /\ UNCHANGED <<hci_filter_status, filter>>
       \/ /\ Head(bridge) \in {"0", "1"}
          /\ hci_filter_status' = Head(bridge)
          /\ UNCHANGED <<filter, asked>>
    /\ UNCHANGED <<Loaders, pc, pw, Session, channels, start_hci, soc_initialized,
                   patch_dnld_inprog, clean_up, rfkill>>

\* wcnss_filter comes up, or goes down when told to, and reports it; who is
\* connected to it then finds the end of the connection.
FilterReady ==
    /\ filter = "starting" /\ ~asked
    /\ filter' = "ready" /\ bridge' = Append(bridge, "1")
    /\ UNCHANGED <<Loaders, pc, pw, Session, channels, props, asked, rfkill>>

FilterStops ==
    /\ filter # "off" /\ asked
    /\ filter' = "off" /\ asked' = FALSE /\ bridge' = Append(bridge, "0")
    /\ sock' = [sock EXCEPT !.up = FALSE]
    /\ UNCHANGED <<Loaders, pc, pw, Session, bt_status, q_fd, props, rfkill>>
-----------------------------------------------------------------------------
(* bt_powerup *)

\* rfkill disabled, its node or the external LDO's unreadable, for good: nothing
\* is done.  The memory of an external LDO is in disable_internal_ldo's choice.
bt_powerup_enters ==
    /\ pw.phase = "enter"
    /\ \/ /\ rfkill /\ pw' = [pw EXCEPT !.phase = IF pw.en THEN "rfkill" ELSE "ask"]
          /\ UNCHANGED <<rfkill, faults>>
       \/ /\ ~rfkill \/ faults < MaxFaults
          /\ rfkill' = FALSE /\ faults' = IF rfkill THEN faults + 1 ELSE faults
          /\ pw' = [pw EXCEPT !.phase = "ret"]
    /\ UNCHANGED <<uartVars, version, chipset_ver, flags, wipower_flag, tlv, clean,
                   ar3kVars, pc, Session, props, bridge, filter, asked, channels>>

\* Mutant: a power-off leaves the flag of the controller.
stop_hci_filter_keeps_flag ==
    \/ /\ pw.phase = "ask"
       /\ pw' = [pw EXCEPT !.phase = "wait"]
       /\ asked' = (asked \/ (hci_filter_status # "0" /\ filter # "off"))
       /\ UNCHANGED <<props, bridge>>
    \/ /\ pw.phase = "wait"
       /\ pw' = [pw EXCEPT !.phase = "rfkill"]
       /\ SetStartHci(FALSE)
       /\ UNCHANGED <<soc_initialized, asked, hci_filter_status, patch_dnld_inprog, clean_up>>

\* stop_hci_filter asks a filter that is believed to run, over its control
\* socket, and then waits for start_hci to become false, 500 ms at most.
stop_hci_filter ==
    \/ /\ pw.phase = "ask"
       /\ pw' = [pw EXCEPT !.phase = "wait"]
       /\ asked' = (asked \/ (hci_filter_status # "0" /\ filter # "off"))
       /\ UNCHANGED <<props, bridge>>
    \/ /\ pw.phase = "wait"
       /\ pw' = [pw EXCEPT !.phase = "rfkill"]
       /\ SetStartHci(FALSE)
       /\ soc_initialized' = FALSE
       /\ UNCHANGED <<asked, hci_filter_status, patch_dnld_inprog, clean_up>>

\* The rfkill state, or the power driver of a CHEROKEE; either may fail.
bt_powerup_switches ==
    /\ pw.phase = "rfkill"
    /\ pw' = [pw EXCEPT !.phase = "ret"]
    /\ \/ PowerSwitch(pw.en) /\ fresh' = (pw.en /\ ~soc.power) /\ UNCHANGED faults
       \/ Fault /\ UNCHANGED <<soc, fresh>>
    /\ UNCHANGED <<rx, baud, uart, vnd_fd, step, waits, version, chipset_ver, flags,
                   wipower_flag, tlv, clean, ar3kVars, pc, soc_type, emb_wp_mode, sessions,
                   skip_init, World>>

bt_powerup ==
    \/ bt_powerup_enters \/ bt_powerup_switches
    \/ stop_hci_filter /\ UNCHANGED <<Loaders, pc, Session, filter, channels, rfkill>>
-----------------------------------------------------------------------------
(* init, cleanup and power. *)

init ==
    /\ pc = "none" /\ sessions < MaxSessions
    /\ pc' = "ready" /\ sessions' = sessions + 1
    /\ vnd_fd' = IF soc_type = "DEFAULT" THEN vnd_fd ELSE "none"
    /\ q_fd' = [i \in 1..2 |-> "zero"]
    /\ UNCHANGED <<soc, rx, baud, uart, step, waits, romeVars, ar3kVars, pw, soc_type,
                   emb_wp_mode, skip_init, fresh, props, bridge, filter, asked, bt_status, sock,
                   rfkill>>

cleanup ==
    /\ pc = "off" /\ pw.phase = "none"
    /\ pc' = "none"
    /\ UNCHANGED <<Loaders, pw, Session, World>>

\* A ROME controller is always switched off before it is switched on.
PowerOn ==
    /\ pc = "ready" /\ soc_type # "DEFAULT"
    /\ pc' = IF soc_type = "ROME" THEN "on_off" ELSE "on"
    /\ PowerCall(soc_type # "ROME")
    /\ fresh' = FALSE
    /\ UNCHANGED <<Loaders, soc_type, emb_wp_mode, sessions, skip_init, World>>

PowerReturns ==
    /\ pw.phase = "ret"
    /\ \/ pc = "on_off" /\ pc' = "on" /\ PowerCall(TRUE)
       \/ pc = "on" /\ pc' = "powered" /\ pw' = NoPower
       \/ pc = "off" /\ pc' = "off" /\ pw' = NoPower
    /\ UNCHANGED <<Loaders, Session, World>>

PowerOff ==
    /\ pc = "closed"
    /\ pc' = "off"
    /\ IF soc_type = "DEFAULT" THEN UNCHANGED pw ELSE PowerCall(FALSE)
    /\ UNCHANGED <<Loaders, Session, World>>

\* The hciattach daemon is told unless the status is on, and the power-on waits
\* five seconds for it to be on.
readTrpState == bt_status = "on"

hw_config ==
    /\ pc = "ready" /\ soc_type = "DEFAULT"
    /\ pc' = "smd_ready"
    /\ UNCHANGED <<Loaders, pw, Session, World>>

hciattach ==
    /\ soc_type = "DEFAULT" /\ pc \in {"smd_ready", "powered"} /\ bt_status # "on"
    /\ bt_status' = "on"
    /\ UNCHANGED <<Loaders, pc, pw, Session, props, bridge, filter, asked, q_fd, sock,
                   rfkill>>

is_hw_ready ==
    /\ pc = "smd_ready"
    /\ pc' = "powered"
    /\ fresh' = readTrpState
    /\ UNCHANGED <<Loaders, pw, soc_type, emb_wp_mode, sessions, skip_init, World>>
-----------------------------------------------------------------------------
(* BT_VND_OP_USERIAL_OPEN *)

is_soc_initialized == soc_initialized

\* wait_for_patch_download waits for the other client, ANT, which is not there.
wait_for_patch_download == patch_dnld_inprog # "ant"

\* A ROME controller that is not initialised: the download is announced, and
\* the UART opened.
OpenRome ==
    /\ pc = "powered" /\ soc_type = "ROME"
    /\ wait_for_patch_download /\ ~is_soc_initialized
    /\ patch_dnld_inprog' = "bt"
    /\ skip_init' = TRUE
    /\ \/ /\ userial_vendor_open /\ pc' = "init"
          /\ step' \in {"begin"} \cup (IF emb_wp_mode THEN {"embedded"} ELSE {})
          /\ waits' = <<>> /\ clean' = wait_vsc_evt /\ UNCHANGED faults
       \/ /\ Fault /\ userial_vendor_open_fails /\ pc' = "open_failed"
          /\ UNCHANGED <<step, waits, clean>>
    /\ UNCHANGED <<soc, version, chipset_ver, flags, wipower_flag, tlv, ar3kVars, pw,
                   soc_type, emb_wp_mode, sessions, fresh, soc_initialized, clean_up, start_hci,
                   hci_filter_status, bridge, filter, asked, channels, rfkill>>

\* One that is: only the filter is needed.
OpenRomeAgain ==
    /\ pc = "powered" /\ soc_type = "ROME"
    /\ wait_for_patch_download /\ is_soc_initialized
    /\ pc' = "filter"
    /\ patch_dnld_inprog' = "null" /\ clean_up' = FALSE /\ skip_init' = TRUE
    /\ UNCHANGED <<Loaders, pw, soc_type, emb_wp_mode, sessions, fresh, soc_initialized, start_hci,
                   hci_filter_status, bridge, filter, asked, channels, rfkill>>

OpenAr3k ==
    /\ pc = "powered" /\ soc_type = "AR3K"
    /\ \/ userial_vendor_open /\ pc' = "init" /\ step' = "a_rts" /\ waits' = <<>>
          /\ clean' = TRUE /\ UNCHANGED faults
       \/ Fault /\ userial_vendor_open_fails /\ pc' = "open_failed"
          /\ UNCHANGED <<step, waits, clean>>
    /\ UNCHANGED <<soc, version, chipset_ver, flags, wipower_flag, tlv, ar3kVars, pw,
                   Session, World>>

OpenCherokee ==
    /\ pc = "powered" /\ soc_type = "CHEROKEE"
    /\ pc' = "filter"
    /\ UNCHANGED <<Loaders, pw, Session, World>>

\* One step of the loader.  rome_soc_init clears the flag as it starts.
LoaderStep ==
    /\ pc = "init"
    /\ \/ /\ soc_type = "ROME"
          /\ \/ RomeStep /\ UNCHANGED soc_initialized
             \/ RomeIoFails /\ UNCHANGED soc_initialized
             \/ rome_soc_init /\ soc_initialized' = FALSE
          /\ UNCHANGED ar3kVars
       \/ /\ soc_type = "AR3K"
          /\ Ar3kStep \/ Ar3kIoFails
          /\ UNCHANGED soc_initialized
    /\ UNCHANGED <<uart, vnd_fd, pc, pw, Session, patch_dnld_inprog, clean_up, start_hci,
                   hci_filter_status, bridge, filter, asked, channels, rfkill>>

\* The loader's result.  A ROME controller goes on to the filter; the UART is
\* closed behind a failure, and vnd_userial keeps its number.
Closed(fd) == IF fd = "uart" THEN "stale" ELSE fd

RomeLoaded ==
    /\ pc = "init" /\ soc_type = "ROME" /\ step = "done" /\ waits = <<>>
    /\ pc' = "filter"
    /\ soc_initialized' = TRUE /\ skip_init' = FALSE
    /\ patch_dnld_inprog' = "null" /\ clean_up' = FALSE
    /\ step' = "none"
    /\ UNCHANGED <<soc, rx, baud, uart, vnd_fd, waits, romeVars, ar3kVars, pw, soc_type,
                   emb_wp_mode, sessions, fresh, start_hci, hci_filter_status, bridge, filter,
                   asked, channels, rfkill>>

RomeNotLoaded ==
    /\ pc = "init" /\ soc_type = "ROME" /\ step = "failed"
    /\ pc' = "open_failed"
    /\ patch_dnld_inprog' = "null" /\ clean_up' = FALSE
    /\ uart' = FALSE /\ vnd_fd' = Closed(vnd_fd) /\ step' = "none"
    /\ UNCHANGED <<soc, rx, baud, waits, romeVars, ar3kVars, pw, Session, soc_initialized,
                   start_hci, hci_filter_status, bridge, filter, asked, channels, rfkill>>

Ar3kLoaded ==
    /\ pc = "init" /\ soc_type = "AR3K" /\ waits = <<>>
    /\ \/ step = "done" /\ pc' = "open"
       \/ step = "failed" /\ pc' = "open_failed"
    /\ step' = "none"
    /\ UNCHANGED <<soc, rx, baud, uart, vnd_fd, waits, romeVars, ar3kVars, pw, Session, World>>

\* start_hci_filter: a filter that was started already is only waited for.
start_hci_filter ==
    /\ pc = "filter"
    /\ pc' = "filter_wait"
    /\ IF start_hci THEN UNCHANGED <<clean_up, hci_filter_status, start_hci, bridge>>
       ELSE clean_up' = FALSE /\ hci_filter_status' = "0" /\ SetStartHci(TRUE)
    /\ UNCHANGED <<Loaders, pw, Session, soc_initialized, patch_dnld_inprog, filter, asked,
                   channels, rfkill>>

\* Its status is looked at for nine seconds at most.
FilterAnswers ==
    /\ pc = "filter_wait" /\ hci_filter_status = "1"
    /\ pc' = "connect"
    /\ UNCHANGED <<Loaders, pw, Session, World>>

\* The last look.
FilterLate ==
    /\ pc = "filter_wait" /\ hci_filter_status # "1"
    /\ pc' = "filter_late"
    /\ UNCHANGED <<Loaders, pw, Session, World>>

\* Mutant: a late filter is waited for again.
FilterTimesOut_retries ==
    /\ pc = "filter_late"
    /\ pc' = "filter"
    /\ UNCHANGED <<Loaders, pw, Session, World>>

\* A filter that was late is told to stop, whatever it has reported since, and
\* the controller is switched off.
FilterTimesOut ==
    /\ pc = "filter_late"
    /\ pc' = "filter_fail" /\ PowerCall(FALSE)
    /\ hci_filter_status' = "-1" /\ SetStartHci(FALSE)
    /\ UNCHANGED <<Loaders, Session, soc_initialized, patch_dnld_inprog, clean_up,
                   filter, asked, channels, rfkill>>

FilterGivenUp ==
    /\ pc = "filter_fail" /\ pw.phase = "ret"
    /\ pc' = "open_failed" /\ pw' = NoPower
    /\ uart' = FALSE /\ vnd_fd' = IF soc_type = "ROME" /\ uart THEN Closed(vnd_fd) ELSE vnd_fd
    /\ UNCHANGED <<soc, rx, baud, step, waits, romeVars, ar3kVars, Session, World>>

\* The filter's socket exists while the filter is ready.
connect_to_local_socket == filter = "ready"

\* The filter's socket becomes the transport.
ConnectFilter ==
    /\ pc = "connect"
    /\ IF connect_to_local_socket
       THEN /\ pc' = (IF soc_type = "ROME" THEN "addon" ELSE "connected") /\ vnd_fd' = "sock"
            /\ sock' = [up |-> TRUE, rx |-> <<>>] /\ UNCHANGED uart
       ELSE /\ pc' = "open_failed" /\ vnd_fd' = "none" /\ uart' = FALSE /\ UNCHANGED sock
    /\ UNCHANGED <<soc, rx, baud, step, waits, romeVars, ar3kVars, pw, Session, props, bridge,
                   filter, asked, bt_status, q_fd, rfkill>>

\* hci_send_vs_cmd on that socket: the filter passes the command on, and the
\* answer of a controller that runs its firmware back.  A filter that has gone
\* fails the write, and only the reads in "else" are then still made.
SocketCommand(else) ==
    /\ waits' = IF sock.up THEN (IF wait_vsc_evt THEN <<"VSE">> ELSE <<>>) \o <<"CCE">> ELSE else
    /\ sock' = IF sock.up /\ soc.power /\ soc.fw = "loaded"
               THEN [sock EXCEPT !.rx = @ \o <<"VSE", "CCE">>] ELSE sock

SocketFrame ==
    UNCHANGED <<soc, rx, baud, vnd_fd, step, version, chipset_ver, wait_cc_evt,
                patch_dnld_pending, wipower_flag, tlv, faults, clean, ar3kVars, pw, soc_type,
                emb_wp_mode, sessions, fresh, props, bridge, filter, asked, bt_status, q_fd,
                rfkill>>

\* In embedded mode a controller of version 3.0 or later is asked for its add-on
\* features; a failure is ignored.
rome_get_addon_feature_list ==
    /\ pc = "addon"
    /\ pc' = "log"
    /\ IF emb_wp_mode /\ chipset_ver \in {"3.0", "3.2"} THEN SocketCommand(<<>>)
       ELSE UNCHANGED <<waits, sock>>
    /\ UNCHANGED <<uart, wait_vsc_evt, skip_init>> /\ SocketFrame

\* A controller that this open has loaded is told whether to log.
enable_controller_log ==
    /\ pc = "log" /\ waits = <<>>
    /\ pc' = "connected"
    /\ IF skip_init THEN UNCHANGED <<waits, sock>> ELSE SocketCommand(<<"CCE">>)
    /\ UNCHANGED <<uart, wait_vsc_evt, skip_init>> /\ SocketFrame

\* Their reads block as those of the UART do, unless the connection has ended.
ReadsSocket ==
    /\ pc \in {"log", "connected"} /\ waits # <<>>
    /\ \/ /\ sock.rx # <<>>
          /\ waits' = Tail(waits) /\ sock' = [sock EXCEPT !.rx = Tail(@)]
       \/ sock = NoSocket /\ waits' = <<>> /\ UNCHANGED sock
    /\ UNCHANGED <<pc, uart, wait_vsc_evt, skip_init>> /\ SocketFrame

\* Mutant: the UART stays open beside the filter.
OpenEnds_keeps_uart ==
    /\ pc = "connected" /\ waits = <<>>
    /\ pc' = "open"
    /\ wait_vsc_evt' = (wait_vsc_evt \/ ~skip_init) /\ skip_init' = TRUE
    /\ UNCHANGED <<uart, waits, sock>> /\ SocketFrame

\* The open returns: the log command has set the vendor-event flag again, and
\* the UART is closed.
OpenEnds ==
    /\ pc = "connected" /\ waits = <<>>
    /\ pc' = "open"
    /\ wait_vsc_evt' = (wait_vsc_evt \/ ~skip_init) /\ skip_init' = TRUE
    /\ uart' = FALSE
    /\ UNCHANGED <<waits, sock>> /\ SocketFrame

\* bt_hci_init_transport: channel by channel, each tried for 14 seconds; the
\* first stays open when the second cannot be opened.
bt_hci_init_transport ==
    /\ pc = "powered" /\ soc_type = "DEFAULT"
    /\ \/ pc' = "open" /\ q_fd' = [i \in 1..2 |-> "open"] /\ UNCHANGED faults
       \/ /\ Fault /\ pc' = "open_failed"
          /\ \/ UNCHANGED q_fd
             \/ q_fd' = [q_fd EXCEPT ![1] = "open"]
    /\ UNCHANGED <<uartVars, version, chipset_ver, flags, wipower_flag, tlv, clean, ar3kVars,
                   pw, Session, props, bridge, filter, asked, bt_status, sock,
                   rfkill>>
-----------------------------------------------------------------------------
(* Calls on an open transport, and its end. *)

\* The AR3K's pins.  The modes of the others only choose a callback's result.
LpmSet ==
    /\ pc = "open" /\ soc_type = "AR3K"
    /\ \E pio \in {"LPM_MODE", "BT_WAKE"}, action \in {"ASSERT", "DEASSERT"} :
        lpm_set_ar3k(pio, action)
    /\ UNCHANGED <<uartVars, version, chipset_ver, flags, wipower_flag, tlv, clean, ps, lines,
                   pc, pw, Session, World>>

\* BT_VND_OP_EPILOG sends an HCI reset if the controller can be reached, and
\* reports when its answer comes; else it reports at once.
hw_epilog_process ==
    /\ pc = "open"
    /\ soc_type \in {"ROME", "CHEROKEE"} => soc_initialized /\ hci_filter_status = "1"
    /\ pc' = "epilog"
    /\ UNCHANGED <<Loaders, pw, Session, World>>

hw_epilog_cback ==
    /\ pc = "epilog"
    /\ pc' = "open"
    /\ UNCHANGED <<Loaders, pw, Session, World>>

\* BT_VND_OP_USERIAL_CLOSE, which the HAL also calls after a failed open and
\* after an epilog that was not answered in time.
CloseUserial ==
    /\ pc \in {"open", "epilog", "open_failed"}
    /\ pc' = "closed"
    /\ IF soc_type = "DEFAULT"
       THEN /\ q_fd' = [i \in 1..2 |-> "closed"]
            /\ UNCHANGED <<uart, vnd_fd, clean_up, sock>>
       ELSE /\ userial_vendor_close /\ clean_up' = TRUE /\ sock' = NoSocket
            /\ UNCHANGED q_fd
    /\ UNCHANGED <<soc, rx, baud, step, waits, romeVars, ar3kVars, pw, Session,
                   soc_initialized, patch_dnld_inprog, start_hci, hci_filter_status,
                   bridge, filter, asked, bt_status, rfkill>>

\* The HAL's process dies and takes the library's memory with it: a fault, or
\* the end of an open that is blocked in a read for good.
Blocked ==
    /\ waits # <<>>
    /\ \/ pc = "init" /\ (rx = <<>> \/ rx = <<"STRAY">>)
       \/ pc # "init" /\ sock = [up |-> TRUE, rx |-> <<>>]

HalDies ==
    /\ pc # "none"
    /\ Fault \/ (Blocked /\ UNCHANGED faults)
    /\ pc' = "none" /\ pw' = NoPower /\ step' = "none" /\ waits' = <<>>
    /\ sock' = NoSocket /\ uart' = FALSE /\ vnd_fd' = "none" /\ skip_init' = TRUE
    /\ chipset_ver' = "none" /\ wait_vsc_evt' = TRUE /\ wait_cc_evt' = TRUE
    /\ patch_dnld_pending' = FALSE /\ wipower_flag' = FALSE /\ tlv' = NoFile
    /\ ps' = NoSection /\ lines' = 0
    /\ upio_state' = [p \in {"LPM_MODE", "BT_WAKE"} |-> "UNKNOWN"]
    /\ UNCHANGED <<soc, rx, baud, version, clean, soc_type, emb_wp_mode, sessions, fresh,
                   props, bridge, filter, asked, bt_status, q_fd, rfkill>>
-----------------------------------------------------------------------------
Library ==
    \/ bt_powerup \/ PowerReturns \/ is_hw_ready
    \/ OpenRome \/ OpenRomeAgain \/ OpenAr3k \/ OpenCherokee \/ bt_hci_init_transport
    \/ LoaderStep \/ RomeLoaded \/ RomeNotLoaded \/ Ar3kLoaded
    \/ start_hci_filter \/ FilterAnswers \/ FilterLate \/ FilterTimesOut \/ FilterGivenUp
    \/ ConnectFilter \/ rome_get_addon_feature_list \/ enable_controller_log
    \/ ReadsSocket \/ OpenEnds

Hal ==
    \/ init \/ PowerOn \/ hw_config \/ LpmSet \/ hw_epilog_process \/ CloseUserial
    \/ PowerOff \/ cleanup

External == RunTrigger \/ FilterReady \/ FilterStops \/ hciattach \/ hw_epilog_cback

\* The last session has ended and every trigger has run.
Finished ==
    /\ pc = "none" /\ sessions = MaxSessions /\ bridge = <<>>
    /\ UNCHANGED vars

Next == Library \/ Hal \/ External \/ HalDies \/ Finished

\* The library's thread runs, init runs its triggers, and the filter does what
\* it is told.
Spec == Init /\ [][Next]_vars /\ WF_vars(Library) /\ WF_vars(External)
-----------------------------------------------------------------------------
(* Properties.                                                             *)
(*                                                                         *)
(* clean says that since the last download began none of this happened,    *)
(* with which the loaders cannot cope:                                     *)
(*   - a patch whose event handling the loader reports as unsupported, or  *)
(*     the controller does not know: the download goes on, and may wait    *)
(*     for an event that is never sent;                                    *)
(*   - a stray event: the event behind it is read in its place;            *)
(*   - an NVM or tag file that cannot be read: the load counts as done;    *)
(*   - an error of the UART: answers may stay behind in it;                *)
(*   - a vendor-event flag left off by an earlier download of the same     *)
(*     process that was torn off between segments.                         *)
(* fresh says that this session has switched the controller on, from off.  *)
(* Without it the controller may still run at the speed that a session     *)
(* which crashed had taken it to: an AR3K is not switched off first.       *)

\* soc_initialized says that the controller can be used without a download: it
\* is powered and runs the whole firmware, through crashes of the HAL, failed
\* power switches, refused segments and repeated opens, as long as the download
\* was clean.
FlagTruthful == soc_initialized /\ clean => soc.power /\ soc.fw = "loaded"

\* In a clean initialisation every answer is read by the command that it
\* belongs to: when a loader reports success nothing is left unread in the UART,
\* for files of any length and each event handling that loader and controller
\* agree on; and the Bluetooth stack that is given the filter's socket finds no
\* answer on it to a command of the library.
EventsConsumed ==
    /\ step = "done" /\ waits = <<>> /\ clean => rx = <<>>
    /\ pc \in {"open", "epilog"} /\ clean => sock.rx = <<>>

\* In a clean initialisation the library never blocks in a read that nothing
\* will answer.  For the UART of a controller switched on in this session: both
\* ends run at the same speed whenever a command is sent, and the loader waits
\* for no event that the controller does not send.  For the filter's socket, of
\* any initialised controller: the answer is there, or the end of the connection.
ReadAnswered ==
    waits # <<>> /\ clean =>
        /\ pc = "init" /\ fresh => rx # <<>> /\ (Len(rx) > 1 \/ rx[1] # "STRAY")
        /\ pc # "init" => sock.rx # <<>> \/ ~sock.up

\* An open transport that the controller carries: the filter's socket for a
\* ROME or CHEROKEE, whose UART the library has let go of (and for a ROME the
\* flag that the firmware configuration and the line speed are answered from),
\* and the UART itself for an AR3K, at the controller's speed.  That the filter
\* behind the socket still runs is not part of it: it may stop at any time.
OpenIsUsable ==
    pc \in {"open", "epilog"} =>
        CASE soc_type = "ROME"     -> vnd_fd = "sock" /\ ~uart /\ soc_initialized
          [] soc_type = "CHEROKEE" -> vnd_fd = "sock" /\ ~uart
          [] soc_type = "AR3K" -> vnd_fd = "uart" /\ uart
                                  /\ (clean /\ fresh => soc.baud = baud /\ soc.fw = "loaded")
          [] OTHER -> \A i \in 1..2 : q_fd[i] = "open"

\* Every open returns, from its first read to its last, whatever is refused,
\* missing or late, as long as the initialisation stays clean; the download
\* itself, of a controller that this session has switched on.
OpenReturns ==
    (/\ pc \in {"init", "filter", "filter_wait", "filter_late", "filter_fail", "connect",
                 "addon", "log", "connected"}
     /\ clean /\ (pc = "init" => fresh))
        ~> (pc \in {"open", "open_failed", "none"} \/ ~clean)

\* The filter has let go of the UART before the controller is switched off.
FilterClosedFirst == [][soc.power /\ ~soc'.power => filter = "off"]_vars
=============================================================================
