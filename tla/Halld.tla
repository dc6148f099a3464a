------------------------------- MODULE Halld -------------------------------
(***************************************************************************)
(* The hall topology publisher, dualscreen/hall/fujisan_halld.cpp, with    *)
(* the init triggers of rootdir/init.fujisan.hall.rc.                      *)
(*                                                                         *)
(* fujisan_halld reads the hinge posture and the persisted A/B choice and  *)
(* publishes the properties the HWC wrapper and the apps consume.  It is   *)
(* one thread; what interleaves with it is the hinge driver, the clients   *)
(* of its control socket (the quick-settings tile and the camera bridge),  *)
(* init, which runs property triggers from a queue and restarts the daemon *)
(* at boot completion, and the display power path.  Each property, sysfs   *)
(* or socket access of the daemon is a step.                               *)
(*                                                                         *)
(* External, modelled from their use: the m1120 driver (status before the  *)
(* event; events are kept only for open descriptors), init's FIFO queue of *)
(* triggers, the kernel's socket backlog, SIGPIPE.                         *)
(***************************************************************************)
EXTENDS Naturals, Sequences, FiniteSets

CONSTANTS Clients,        \* clients of the control socket; one request each
          MaxMoves,       \* bound on hinge movements
          MaxPower,       \* bound on screen power changes
          SensorMayMiss   \* the m1120 node may be absent when it is opened

ASSUME ClientsAssumption == IsFiniteSet(Clients)
ASSUME BoundsAssumption == MaxMoves \in Nat /\ MaxPower \in Nat
ASSUME SensorAssumption == SensorMayMiss \in BOOLEAN

VARIABLES
    hall,      \* external: the driver's hall_status, 1 folded, 2 and 3 unfolded
    moves,     \* hinge movements so far
    hinge,     \* the descriptor of the event node: "closed", "open" or "event"
    prop,      \* the system properties
    trig,      \* external: init's queue of triggered actions
    halld,     \* the daemon: its program point and locals
    client,    \* the clients: what each has done, and the answer it got
    hung,      \* the clients that hung up before an answer
    backlog,   \* external: connections the daemon has not accepted yet
    lit,       \* external: lcd-backlight is non-zero
    awake,     \* external: fb0 is powered
    power      \* screen power changes so far

vars == <<hall, moves, hinge, prop, trig, halld, client, hung, backlog, lit, awake,
          power>>

Requests == {"toggle", "set a", "set b", "other"}
Pending == {"connected"} \cup Requests
Answers == {"ok", "unavailable", "error", "closed"}
NoClient == "none"

\* The point after which the daemon has no locals but g_last_wide_topology.
At(pc, lastWide) ==
    [pc |-> pc, lastWide |-> lastWide, hall |-> 1, boot |-> "0", panel |-> "a",
     force |-> "0", ready |-> {}, client |-> NoClient, sel |-> "none"]

Goto(pc) == halld' = [halld EXCEPT !.pc = pc]

Init ==
    /\ hall \in 1..3
    /\ moves = 0
    /\ hinge = "closed"
    /\ prop \in [panel : {"a", "b"}, force : {"0", "1"}, boot : {"0"}, hall : {1},
                 state : {"closed_a"}, mode : {"single"}, active : {"a"}]
    /\ trig = <<>>
    /\ halld = At("start", FALSE)
    /\ client = [c \in Clients |-> "out"]
    /\ hung = {}
    /\ backlog = <<>>
    /\ lit = TRUE
    /\ awake = TRUE
    /\ power = 0
-----------------------------------------------------------------------------
(* The environment. *)

\* The driver updates hall_status and reports an input event, which a closed
\* descriptor never sees.
HingeMove(h) ==
    /\ moves < MaxMoves /\ h # hall
    /\ hall' = h
    /\ moves' = moves + 1
    /\ hinge' = IF hinge = "closed" THEN "closed" ELSE "event"
    /\ UNCHANGED <<prop, trig, halld, client, hung, backlog, lit, awake, power>>

\* A property whose new value has a trigger queues the trigger's action.
Triggered(name, value) ==
    IF <<name, value>> \in {<<"panel", "a">>, <<"force", "0">>} THEN <<"active_a">>
    ELSE IF <<name, value>> = <<"boot", "1">> THEN <<"restart">>
    ELSE <<>>

BootCompleted ==
    /\ prop.boot = "0"
    /\ prop' = [prop EXCEPT !.boot = "1"]
    /\ trig' = trig \o Triggered("boot", "1")
    /\ UNCHANGED <<hall, moves, hinge, halld, client, hung, backlog, lit, awake, power>>

\* The daemon dies and init starts it again: descriptors and locals are lost, and
\* whoever waits for an answer sees its connection closed.
Restarted ==
    /\ halld' = At("start", FALSE)
    /\ hinge' = "closed"
    /\ backlog' = <<>>
    /\ client' = [c \in Clients |-> IF client[c] \in Pending THEN "closed" ELSE client[c]]

\* init runs the oldest triggered action.
InitAction ==
    /\ trig # <<>>
    /\ trig' = Tail(trig)
    /\ \/ /\ Head(trig) = "active_a"
          /\ prop' = [prop EXCEPT !.active = "a"]
          /\ UNCHANGED <<halld, hinge, backlog, client>>
       \/ /\ Head(trig) = "restart"
          /\ Restarted
          /\ UNCHANGED prop
    /\ UNCHANGED <<hall, moves, hung, lit, awake, power>>

\* A client connects (listen(fd, 4)), sends its request, hangs up with or without
\* having sent one; one that does neither just stays connected.
Connect(c) ==
    /\ client[c] = "out" /\ halld.pc # "start" /\ Len(backlog) < 4
    /\ client' = [client EXCEPT ![c] = "connected"]
    /\ backlog' = Append(backlog, c)
    /\ UNCHANGED <<hall, moves, hinge, prop, trig, halld, hung, lit, awake, power>>

Send(c, request) ==
    /\ client[c] = "connected" /\ c \notin hung
    /\ client' = [client EXCEPT ![c] = request]
    /\ UNCHANGED <<hall, moves, hinge, prop, trig, halld, hung, backlog, lit, awake,
                   power>>

HangUp(c) ==
    /\ client[c] \in Pending /\ c \notin hung
    /\ hung' = hung \cup {c}
    /\ UNCHANGED <<hall, moves, hinge, prop, trig, halld, client, backlog, lit, awake,
                   power>>

\* The display power path: power-off zeroes the backlight, wake relights it, and
\* a Small to Wide handoff may leave it zeroed while the screen is on.
ScreenPower(on, level) ==
    /\ power < MaxPower
    /\ ~on => ~level
    /\ <<on, level>> # <<awake, lit>>
    /\ awake' = on /\ lit' = level
    /\ power' = power + 1
    /\ UNCHANGED <<hall, moves, hinge, prop, trig, halld, client, hung, backlog>>
-----------------------------------------------------------------------------
(* publish_topology. *)

UnchangedByPublish ==
    UNCHANGED <<hall, moves, trig, client, hung, backlog, awake, power>>

\* main: enable the sensor, listen on the control socket.
MainStart ==
    /\ halld.pc = "start"
    /\ Goto("hall")
    /\ UNCHANGED <<hinge, prop, lit>>
    /\ UnchangedByPublish

ReadHallStatus ==
    /\ halld.pc = "hall"
    /\ halld' = [halld EXCEPT !.pc = "pubHall", !.hall = hall]
    /\ UNCHANGED <<hinge, prop, lit>>
    /\ UnchangedByPublish

\* set_property_if_changed is one step: the only other writer of a property the
\* daemon publishes is init, writing "a" to active, which commutes with the read.
PublishHall ==
    /\ halld.pc = "pubHall"
    /\ prop' = [prop EXCEPT !.hall = halld.hall]
    /\ Goto("boot")
    /\ UNCHANGED <<hinge, lit>>
    /\ UnchangedByPublish

ReadBootCompleted ==
    /\ halld.pc = "boot"
    /\ halld' = [halld EXCEPT !.pc = "panel", !.boot = prop.boot]
    /\ UNCHANGED <<hinge, prop, lit>>
    /\ UnchangedByPublish

\* The persisted pair; only the daemon writes it, so the two reads are one step.
ReadSelection ==
    /\ halld.pc = "panel"
    /\ halld' = [halld EXCEPT !.pc = "state", !.panel = prop.panel, !.force = prop.force]
    /\ UNCHANGED <<hinge, prop, lit>>
    /\ UnchangedByPublish

Wide == halld.boot = "1" /\ halld.hall \in {2, 3}

\* Mutant: the boot gate on the B route is missing.
PrimaryBUngated == ~Wide /\ halld.force = "1" /\ halld.panel = "b"

PrimaryB ==
    halld.boot = "1" /\ ~Wide /\ halld.force = "1" /\ halld.panel = "b"

PublishState ==
    /\ halld.pc = "state"
    /\ prop' = [prop EXCEPT !.state = IF Wide THEN "open"
                                      ELSE IF halld.boot = "1" THEN "closed_a"
                                      ELSE "boot_single"]
    /\ Goto("mode")
    /\ UNCHANGED <<hinge, lit>>
    /\ UnchangedByPublish

PublishMode ==
    /\ halld.pc = "mode"
    /\ prop' = [prop EXCEPT !.mode = IF Wide THEN "zoom" ELSE "single"]
    /\ Goto("active")
    /\ UNCHANGED <<hinge, lit>>
    /\ UnchangedByPublish

\* Mutant: active_primary is written only when B is wanted.
PublishPrimaryBOnly ==
    /\ halld.pc = "active"
    /\ prop' = [prop EXCEPT !.active = IF PrimaryB THEN "b" ELSE @]
    /\ halld' = IF Wide /\ ~halld.lastWide THEN [halld EXCEPT !.pc = "restore"]
                                            ELSE At("open", Wide)
    /\ UNCHANGED <<hinge, lit>>
    /\ UnchangedByPublish

\* Publish A or B; a first Wide topology waits 700 ms for the handoff.
PublishPrimary ==
    /\ halld.pc = "active"
    /\ prop' = [prop EXCEPT !.active = IF PrimaryB THEN "b" ELSE "a"]
    /\ halld' = IF Wide /\ ~halld.lastWide THEN [halld EXCEPT !.pc = "restore"]
                                            ELSE At("open", Wide)
    /\ UNCHANGED <<hinge, lit>>
    /\ UnchangedByPublish

\* restore_primary_brightness_after_wide_handoff: display_power is 1 from
\* system.prop on and nothing sets it again, so only the level decides.
ReadBacklight ==
    /\ halld.pc = "restore"
    /\ halld' = IF lit THEN At("open", TRUE) ELSE [halld EXCEPT !.pc = "relight"]
    /\ UNCHANGED <<hinge, prop, lit>>
    /\ UnchangedByPublish

WriteBacklight ==
    /\ halld.pc = "relight"
    /\ lit' = TRUE
    /\ halld' = At("open", TRUE)
    /\ UNCHANGED <<hinge, prop>>
    /\ UnchangedByPublish
-----------------------------------------------------------------------------
(* wait_for_hinge_or_primary_request and handle_primary_request. *)

UnchangedByWait == UNCHANGED <<hall, moves, hung, lit, awake, power>>

\* open_m1120_event; without the node, poll only the socket, for a second.
OpenEvent ==
    /\ halld.pc = "open"
    /\ \/ hinge' = "open" /\ Goto("poll")
       \/ SensorMayMiss /\ hinge' = "closed" /\ Goto("pollSocket")
    /\ UNCHANGED <<prop, trig, client, backlog>>
    /\ UnchangedByWait

Ready ==
    (IF hinge = "event" THEN {"hinge"} ELSE {})
        \cup (IF backlog # <<>> THEN {"control"} ELSE {})

\* poll returns: with the event node it blocks until something is ready.
PollReturns ==
    /\ \/ halld.pc = "poll" /\ Ready # {}
       \/ halld.pc = "pollSocket"
    /\ halld' = [halld EXCEPT !.pc = IF "control" \in Ready THEN "accept" ELSE "event",
                              !.ready = Ready]
    /\ UNCHANGED <<hinge, prop, trig, client, backlog>>
    /\ UnchangedByWait

Accept ==
    /\ halld.pc = "accept"
    /\ halld' = [halld EXCEPT !.pc = "wait", !.client = Head(backlog)]
    /\ backlog' = Tail(backlog)
    /\ UNCHANGED <<hinge, prop, trig, client>>
    /\ UnchangedByWait

Answer(answer) ==
    /\ client' = [client EXCEPT ![halld.client] = answer]
    /\ halld' = [At("event", halld.lastWide) EXCEPT !.ready = halld.ready]

\* Mutant: no timeout on the accepted client.
AwaitRequestForever ==
    /\ halld.pc = "wait"
    /\ \/ /\ client[halld.client] = "connected" /\ halld.client \in hung
          /\ Answer("closed")
       \/ /\ client[halld.client] \in Requests
          /\ Goto("select")
          /\ UNCHANGED client
    /\ UNCHANGED <<hinge, prop, trig, backlog>>
    /\ UnchangedByWait

\* poll(client, 1000) and read: no request in time, or end of file, closes.
AwaitRequest ==
    /\ halld.pc = "wait"
    /\ \/ /\ client[halld.client] = "connected"
          /\ Answer("closed")
       \/ /\ client[halld.client] \in Requests
          /\ Goto("select")
          /\ UNCHANGED client
    /\ UNCHANGED <<hinge, prop, trig, backlog>>
    /\ UnchangedByWait

Selected(request) ==
    CASE request = "toggle" -> IF prop.panel = "b" THEN "a" ELSE "b"
      [] request = "set a" -> "a"
      [] request = "set b" -> "b"
      [] OTHER -> "error"

\* Read the preference and the posture: a selection is taken only while folded.
Select ==
    /\ halld.pc = "select"
    /\ LET s == Selected(client[halld.client]) IN
       halld' = [halld EXCEPT
                   !.pc = IF s # "error" /\ hall = 1 THEN "setPanel" ELSE "reply",
                   !.sel = IF s # "error" /\ hall # 1 THEN "unavailable" ELSE s]
    /\ UNCHANGED <<hinge, prop, trig, client, backlog>>
    /\ UnchangedByWait

SetPanel ==
    /\ halld.pc = "setPanel"
    /\ prop' = [prop EXCEPT !.panel = halld.sel]
    /\ trig' = trig \o Triggered("panel", halld.sel)
    /\ Goto("setForce")
    /\ UNCHANGED <<hinge, client, backlog>>
    /\ UnchangedByWait

SetForce ==
    /\ halld.pc = "setForce"
    /\ LET force == IF halld.sel = "b" THEN "1" ELSE "0" IN
       /\ prop' = [prop EXCEPT !.force = force]
       /\ trig' = trig \o Triggered("force", force)
    /\ halld' = [halld EXCEPT !.pc = "reply", !.sel = "ok"]
    /\ UNCHANGED <<hinge, client, backlog>>
    /\ UnchangedByWait

\* Write the response and close.  A client that is gone fails the write: EPIPE
\* where SIGPIPE is ignored, the end of this daemon where it is not.
Reply ==
    /\ halld.pc = "reply"
    /\ \/ /\ Answer(IF halld.client \in hung THEN "closed" ELSE halld.sel)
          /\ UNCHANGED <<hinge, backlog>>
       \/ /\ halld.client \in hung
          /\ Restarted
    /\ UNCHANGED <<prop, trig>>
    /\ UnchangedByWait

\* Mutant: the event is read and the node reopened without publishing again.
CloseEventUnpublished ==
    /\ halld.pc = "event"
    /\ hinge' = "closed"
    /\ halld' = At("open", halld.lastWide)
    /\ UNCHANGED <<prop, trig, client, backlog>>
    /\ UnchangedByWait

\* Read one event if poll reported one, close the node, publish again.
CloseEvent ==
    /\ halld.pc = "event"
    /\ hinge' = "closed"
    /\ halld' = At("hall", halld.lastWide)
    /\ UNCHANGED <<prop, trig, client, backlog>>
    /\ UnchangedByWait
-----------------------------------------------------------------------------
Publish ==
    \/ MainStart \/ ReadHallStatus \/ PublishHall \/ ReadBootCompleted \/ ReadSelection
    \/ PublishState \/ PublishMode \/ PublishPrimary \/ ReadBacklight \/ WriteBacklight

Wait ==
    \/ OpenEvent \/ PollReturns \/ Accept \/ AwaitRequest \/ Select \/ SetPanel
    \/ SetForce \/ Reply \/ CloseEvent

HalldStep == Publish \/ Wait

Environment ==
    \/ \E h \in 1..3 : HingeMove(h)
    \/ BootCompleted
    \/ \E c \in Clients : Connect(c)
    \/ \E c \in Clients, request \in Requests : Send(c, request)
    \/ \E c \in Clients : HangUp(c)
    \/ \E on, level \in BOOLEAN : ScreenPower(on, level)

Next == HalldStep \/ InitAction \/ Environment

Spec == Init /\ [][Next]_vars

\* The daemon and init are scheduled; nobody has to move the hinge, answer, send
\* or finish booting.
FairSpec == Spec /\ WF_vars(HalldStep) /\ WF_vars(InitAction)
-----------------------------------------------------------------------------
(* Properties. *)

TypeOK ==
    /\ hall \in 1..3
    /\ moves \in 0..MaxMoves
    /\ hinge \in {"closed", "open", "event"}
    /\ prop \in [panel : {"a", "b"}, force : {"0", "1"}, boot : {"0", "1"},
                 hall : 1..3, state : {"closed_a", "open", "boot_single"},
                 mode : {"single", "zoom"}, active : {"a", "b"}]
    /\ trig \in Seq({"active_a", "restart"})
    /\ halld.pc \in {"start", "hall", "pubHall", "boot", "panel", "state", "mode",
                     "active", "restore", "relight", "open", "poll", "pollSocket",
                     "accept", "wait", "select", "setPanel", "setForce", "reply",
                     "event"}
    /\ halld.client \in Clients \cup {NoClient}
    /\ client \in [Clients -> {"out"} \cup Pending \cup Answers]
    /\ hung \subseteq Clients
    /\ backlog \in Seq(Clients)
    /\ lit \in BOOLEAN /\ awake \in BOOLEAN
    /\ power \in 0..MaxPower

Waiting == halld.pc \in {"poll", "pollSocket"}

\* fujisan_halld.cpp:271, boot stays on physical A and on the single topology
\* whatever the last session persisted and wherever the hinge is.
BootOnA == prop.boot = "0" => prop.active = "a" /\ prop.mode = "single"

\* When the daemon blocks, B is published only where it is the whole selection
\* and the device is folded: not after a restart between the two writes of a
\* selection, and not next to the zoom topology.
BIsSelected ==
    (Waiting /\ prop.active = "b")
        => prop.panel = "b" /\ prop.force = "1" /\ prop.mode = "single"

\* A hinge event that poll can see is published: the property and the topology
\* follow, unless the hinge moves on first.
EventPublished ==
    \A h \in 1..3 :
        (hinge = "event" /\ hall = h)
            ~> (hall # h \/ (prop.hall = h /\ (prop.boot = "1" =>
                                (prop.mode = "zoom" <=> h \in {2, 3}))))

\* No client of the control socket waits for ever, not even in the backlog behind
\* a silent one: its connection is answered or closed.
ClientServed == \A c \in Clients : (client[c] \in Pending) ~> (client[c] \in Answers)

\* init.fujisan.hall.rc:40, "fujisan_halld blocks on the m1120 input event in
\* steady state.  Only boot completion needs a reconciliation": when it blocks
\* with no event to read, it has published the posture.
BlocksInSync == (halld.pc = "poll" /\ hinge = "open") => prop.hall = hall
=============================================================================
