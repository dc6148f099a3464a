------------------------------- MODULE BtUart -------------------------------
(***************************************************************************)
(* The UART of the Bluetooth vendor library (hci_uart.c) and the           *)
(* controller behind it, as the two firmware loaders see them: the library *)
(* writes one HCI command after another and reads the events that come     *)
(* back, in the order the controller sent them.                            *)
(*                                                                         *)
(* Reads block: nothing in the library limits how long it waits for an     *)
(* event.  An event is a model value: "CCE" a command-complete event,      *)
(* "VSE" a vendor-specific event reporting success, "ERR" one reporting a  *)
(* failure, "VERSION" the answer to the version request and "STRAY" the    *)
(* Power Apply event a ROME controller may send unasked.                   *)
(*                                                                         *)
(* The controller is external: it answers what reaches it at its own line  *)
(* speed, and a power cycle takes it back to its ROM and to 115200 baud.   *)
(***************************************************************************)
EXTENDS Naturals, Sequences

VARIABLES
    soc,        \* the controller: powered, what it runs, its line speed
    rx,         \* the events not yet read from the UART
    baud,       \* the speed of the host's side
    uart,       \* the library has the UART open
    vnd_fd,     \* vnd_userial.fd
    step,       \* the next step of the initialisation under way
    waits       \* the events that the last command still waits for

uartVars == <<soc, rx, baud, uart, vnd_fd, step, waits>>

Slow == 115200
Fast == 3000000

UartTypeOK ==
    /\ soc \in [power : BOOLEAN, fw : {"rom", "half", "loaded"}, baud : {Slow, Fast}]
    /\ rx \in Seq({"CCE", "VSE", "ERR", "VERSION", "STRAY"})
    /\ baud \in {Slow, Fast} /\ uart \in BOOLEAN
    /\ vnd_fd \in {"none", "uart", "sock", "stale"}
    /\ waits \in Seq({"CCE", "VSE", "PS"})

UartInit ==
    /\ soc = [power |-> FALSE, fw |-> "rom", baud |-> Slow]
    /\ rx = <<>> /\ baud = Slow /\ uart = FALSE /\ vnd_fd = "none"
    /\ step = "none" /\ waits = <<>>

\* What the rfkill switch does to the controller.
PowerSwitch(on) ==
    soc' = IF on = soc.power THEN soc
           ELSE [power |-> on, fw |-> "rom", baud |-> Slow]

Heard == soc.power /\ soc.baud = baud
-----------------------------------------------------------------------------
(* hci_uart.c *)

\* The speeds a configuration can name; an index that is none of them is
\* refused, and the port is then left at 115200.
Speeds == {600, 1200, 9600, 19200, 57600, 115200, 230400, 460800, 921600,
           1000000, 2000000, 3000000, 4000000}

userial_to_tcio_baud(b) == IF b \in Speeds THEN b ELSE Slow

\* The library's configuration asks for 115200 8N1, so that only the device
\* node can fail.  The port is flushed and set up; a descriptor that
\* vnd_userial still named is forgotten.
userial_vendor_open ==
    /\ uart' = TRUE /\ vnd_fd' = "uart"
    /\ baud' = userial_to_tcio_baud(115200)
    /\ rx' = <<>>

userial_vendor_open_fails ==
    /\ vnd_fd' = "none"
    /\ UNCHANGED <<uart, baud, rx>>

\* Closes whatever descriptor vnd_userial names.
userial_vendor_close ==
    /\ vnd_fd' = "none"
    /\ uart' = (uart /\ vnd_fd # "uart")

userial_vendor_set_baud(b) == baud' = userial_to_tcio_baud(b)

userial_vendor_get_baud == IF vnd_fd = "none" THEN 0 ELSE baud

\* A command is written and the reads to come are noted; step' is where the
\* initialisation goes on once they are done.  The controller sees the command
\* only at its own speed.
Command(answer, reads, next) ==
    /\ waits = <<>>
    /\ rx' = IF Heard THEN rx \o answer ELSE rx
    /\ waits' = reads
    /\ step' = next

\* read_hci_event takes the next event, whatever event it is.
read_hci_event ==
    /\ waits # <<>> /\ Head(waits) = "CCE" /\ rx # <<>>
    /\ waits' = Tail(waits) /\ rx' = Tail(rx)
=============================================================================
