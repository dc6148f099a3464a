---------------------------- MODULE HalldProofs ----------------------------
(***************************************************************************)
(* Proofs about the hall topology daemon (Halld): boot stays on A, and B   *)
(* is published only where it is selected, for any number of clients, any  *)
(* hinge movements and any order of init's actions.                        *)
(***************************************************************************)
EXTENDS Halld, TLAPS

Points == {"start", "hall", "pubHall", "boot", "panel", "state", "mode", "active",
           "restore", "relight", "open", "poll", "pollSocket", "accept", "wait",
           "select", "setPanel", "setForce", "reply", "event"}

\* The daemon's point and locals.
Locals ==
    [pc : Points, lastWide : BOOLEAN, hall : 1..3, boot : {"0", "1"},
     panel : {"a", "b"}, force : {"0", "1"}, ready : SUBSET {"hinge", "control"},
     client : Clients \cup {NoClient},
     sel : {"none", "a", "b", "ok", "unavailable", "error"}]

\* What the daemon holds where it uses it: a connection to accept, the client it
\* serves, the panel it is about to persist, the answer it is about to send.
HeldAtPoint ==
    /\ halld.pc = "accept" => backlog # <<>>
    /\ halld.pc \in {"wait", "select", "setPanel", "setForce", "reply"}
          => halld.client \in Clients
    /\ halld.pc \in {"setPanel", "setForce"} => halld.sel \in {"a", "b"}
    /\ halld.pc = "reply" => halld.sel \in {"ok", "unavailable", "error"}

IndTypes == TypeOK /\ halld \in Locals /\ HeldAtPoint

\* The daemon never believes boot completed before it did.
BootNotAhead == prop.boot = "0" => halld.boot = "0"

\* While it publishes, the daemon's copy of the selection is the persisted one,
\* and the topology it has published is the one it is publishing.
CopyIsCurrent ==
    /\ halld.pc \in {"state", "mode", "active"}
          => halld.panel = prop.panel /\ halld.force = prop.force
    /\ halld.pc = "active" => prop.mode = IF Wide THEN "zoom" ELSE "single"

\* From the publication to the next poll, B is the whole selection, folded.
PublishedB ==
    (halld.pc \in {"restore", "relight", "open", "poll", "pollSocket"} /\ prop.active = "b")
        => prop.panel = "b" /\ prop.force = "1" /\ prop.mode = "single"

Truthful == BootOnA /\ BootNotAhead /\ CopyIsCurrent /\ PublishedB

IInv == IndTypes /\ Truthful
-----------------------------------------------------------------------------
(* Sequences. *)

\* The head and the tail of a queue.
LEMMA HeadTail ==
    ASSUME NEW S, NEW s \in Seq(S), s # <<>>
    PROVE  Head(s) \in S /\ Tail(s) \in Seq(S)
  OBVIOUS

\* A queue that grows.
LEMMA Grown ==
    ASSUME NEW S, NEW s \in Seq(S), NEW x \in S
    PROVE  Append(s, x) \in Seq(S) /\ Append(s, x) # <<>>
  BY SMTT(60)

\* A property write queues at most one of init's two actions.
LEMMA TriggeredSeq ==
    ASSUME NEW name, NEW value, NEW s \in Seq({"active_a", "restart"})
    PROVE  s \o Triggered(name, value) \in Seq({"active_a", "restart"})
  <1>1. Triggered(name, value) \in Seq({"active_a", "restart"})
    <2>1. /\ <<"active_a">> \in Seq({"active_a", "restart"})
          /\ <<"restart">> \in Seq({"active_a", "restart"})
          /\ <<>> \in Seq({"active_a", "restart"})
      OBVIOUS
    <2>2. Triggered(name, value) \in {<<"active_a">>, <<"restart">>, <<>>}
      BY Zenon DEF Triggered
    <2> QED
      BY <2>1, <2>2
  <1> QED
    BY <1>1
-----------------------------------------------------------------------------
(* Types. *)

\* The type invariant in four parts: the surroundings, the properties, the queues
\* and the clients, the daemon's locals.
EnvTypes ==
    /\ hall \in 1..3 /\ moves \in 0..MaxMoves
    /\ hinge \in {"closed", "open", "event"}
    /\ hung \subseteq Clients
    /\ lit \in BOOLEAN /\ awake \in BOOLEAN /\ power \in 0..MaxPower

Properties ==
    [panel : {"a", "b"}, force : {"0", "1"}, boot : {"0", "1"}, hall : 1..3,
     state : {"closed_a", "open", "boot_single"}, mode : {"single", "zoom"},
     active : {"a", "b"}]

QueueTypes ==
    /\ trig \in Seq({"active_a", "restart"})
    /\ backlog \in Seq(Clients)
    /\ client \in [Clients -> {"out"} \cup Pending \cup Answers]

\* The parts make up the type invariant.
LEMMA TypeParts ==
    IndTypes <=> EnvTypes /\ prop \in Properties /\ QueueTypes /\ halld \in Locals /\ HeldAtPoint
  BY DEF IndTypes, TypeOK, EnvTypes, Properties, QueueTypes, Locals, Points

\* A daemon that has just started, or published, has its initial locals.
LEMMA AtLocals ==
    ASSUME NEW pc \in Points, NEW w \in BOOLEAN
    PROVE  At(pc, w) \in Locals /\ At(pc, w).pc = pc /\ At(pc, w).boot = "0"
  BY DEF At, Locals, NoClient

\* The initial state is well typed.
LEMMA InitTypes == Init => IndTypes
  <1> SUFFICES ASSUME Init PROVE IndTypes
    OBVIOUS
  <1>1. EnvTypes
    BY BoundsAssumption DEF Init, EnvTypes
  <1>2. prop \in Properties
    BY DEF Init, Properties
  <1>3. QueueTypes
    BY DEF Init, QueueTypes
  <1>4. halld \in Locals /\ HeldAtPoint
    <2>1. "start" \in Points
      BY DEF Points
    <2> QED
      BY <2>1, AtLocals DEF Init, HeldAtPoint
  <1> QED
    BY <1>1, <1>2, <1>3, <1>4, TypeParts

\* What surrounds the daemon keeps its types.
LEMMA EnvTypesKept == IndTypes /\ [Next]_vars => EnvTypes'
  <1> SUFFICES ASSUME IndTypes, [Next]_vars PROVE EnvTypes'
    OBVIOUS
  <1> USE TypeParts DEF EnvTypes
  <1>1. ASSUME NEW h \in 1..3, HingeMove(h) PROVE EnvTypes'
    BY <1>1, BoundsAssumption DEF HingeMove
  <1>2. CASE \/ BootCompleted
             \/ \E c \in Clients : Connect(c)
             \/ \E c \in Clients, request \in Requests : Send(c, request)
    BY <1>2 DEF BootCompleted, Connect, Send
  <1>3. ASSUME NEW c \in Clients, HangUp(c) PROVE EnvTypes'
    BY <1>3 DEF HangUp
  <1>4. ASSUME NEW on \in BOOLEAN, NEW level \in BOOLEAN, ScreenPower(on, level)
        PROVE EnvTypes'
    BY <1>4, BoundsAssumption DEF ScreenPower
  <1>5. CASE InitAction
    BY <1>5 DEF InitAction, Restarted
  <1>6. CASE Publish
    BY <1>6 DEF Publish, MainStart, ReadHallStatus, PublishHall, ReadBootCompleted,
                ReadSelection, PublishState, PublishMode, PublishPrimary, ReadBacklight,
                WriteBacklight, UnchangedByPublish
  <1>7. CASE Wait
    BY <1>7 DEF Wait, OpenEvent, PollReturns, Accept, AwaitRequest, Select, SetPanel, SetForce,
                Reply, CloseEvent, UnchangedByWait, Restarted
  <1>8. CASE UNCHANGED vars
    BY <1>8 DEF vars
  <1> QED
    BY <1>1, <1>2, <1>3, <1>4, <1>5, <1>6, <1>7, <1>8 DEF Next, HalldStep, Environment

\* The properties keep their types.
LEMMA PropTypesKept == IndTypes /\ [Next]_vars => prop' \in Properties
  <1> SUFFICES ASSUME IndTypes, [Next]_vars PROVE prop' \in Properties
    OBVIOUS
  <1> USE TypeParts
  <1>1. CASE UNCHANGED prop
    BY <1>1
  <1>2. CASE BootCompleted
    BY <1>2 DEF BootCompleted, Properties
  <1>3. CASE InitAction
    BY <1>3 DEF InitAction, Properties
  <1>4. CASE PublishHall
    BY <1>4 DEF PublishHall, Properties, Locals
  <1>5. CASE PublishState
    BY <1>5 DEF PublishState, Properties
  <1>6. CASE PublishMode
    BY <1>6 DEF PublishMode, Properties
  <1>7. CASE PublishPrimary
    BY <1>7 DEF PublishPrimary, Properties
  <1>8. CASE SetPanel
    BY <1>8 DEF SetPanel, HeldAtPoint, Properties
  <1>9. CASE SetForce
    BY <1>9 DEF SetForce, Properties
  <1> QED
    BY <1>1, <1>2, <1>3, <1>4, <1>5, <1>6, <1>7, <1>8, <1>9
    DEF Next, HalldStep, Environment, Publish, Wait, vars, HingeMove, Connect, Send, HangUp,
        ScreenPower, MainStart, ReadHallStatus, ReadBootCompleted, ReadSelection,
        ReadBacklight, WriteBacklight, OpenEvent, PollReturns, Accept, AwaitRequest, Select,
        Reply, CloseEvent

\* The queues and the clients keep their types: what the daemon accepts was
\* queued, and what it answers is an answer.
LEMMA QueueTypesKept == IndTypes /\ [Next]_vars => QueueTypes'
  <1> SUFFICES ASSUME IndTypes, [Next]_vars PROVE QueueTypes'
    OBVIOUS
  <1> USE TypeParts
  <1>1. CASE UNCHANGED <<trig, backlog, client>>
    BY <1>1 DEF QueueTypes
  <1>2. CASE BootCompleted
    BY <1>2, TriggeredSeq DEF BootCompleted, QueueTypes
  <1>3. Restarted => backlog' \in Seq(Clients)
                     /\ client' \in [Clients -> {"out"} \cup Pending \cup Answers]
    BY DEF Restarted, QueueTypes, Answers
  <1>4. CASE InitAction
    <2>1. trig' \in Seq({"active_a", "restart"})
      BY <1>4, HeadTail DEF InitAction, QueueTypes
    <2> QED
      BY <1>3, <1>4, <2>1 DEF InitAction, QueueTypes
  <1>5. ASSUME NEW c \in Clients, Connect(c) PROVE QueueTypes'
    BY <1>5, Grown DEF Connect, QueueTypes, Pending
  <1>6. ASSUME NEW c \in Clients, NEW request \in Requests, Send(c, request)
        PROVE QueueTypes'
    BY <1>6 DEF Send, QueueTypes, Pending
  <1>7. CASE Accept
    BY <1>7, HeadTail DEF Accept, QueueTypes, HeldAtPoint
  <1>8. CASE AwaitRequest
    BY <1>8 DEF AwaitRequest, Answer, QueueTypes, HeldAtPoint, Answers
  <1>9. CASE SetPanel \/ SetForce
    <2>1. \E name, value : trig' = trig \o Triggered(name, value)
      BY <1>9 DEF SetPanel, SetForce
    <2>2. UNCHANGED <<backlog, client>>
      BY <1>9 DEF SetPanel, SetForce
    <2> QED
      BY <2>1, <2>2, TriggeredSeq DEF QueueTypes
  <1>10. CASE Reply
    BY <1>3, <1>10 DEF Reply, Answer, QueueTypes, HeldAtPoint, Answers
  <1> QED
    BY <1>1, <1>2, <1>4, <1>5, <1>6, <1>7, <1>8, <1>9, <1>10
    DEF Next, HalldStep, Environment, Publish, Wait, vars, HingeMove, HangUp, ScreenPower,
        MainStart, ReadHallStatus, PublishHall, ReadBootCompleted, ReadSelection,
        PublishState, PublishMode, PublishPrimary, ReadBacklight, WriteBacklight,
        UnchangedByPublish, OpenEvent, PollReturns, Select, CloseEvent

\* The daemon's locals keep their types and fit the point it is at.
LEMMA LocalsKept == IndTypes /\ [Next]_vars => halld' \in Locals /\ HeldAtPoint'
  <1> SUFFICES ASSUME IndTypes, [Next]_vars PROVE halld' \in Locals /\ HeldAtPoint'
    OBVIOUS
  <1> USE TypeParts
  <1>0. Restarted => halld' \in Locals /\ HeldAtPoint'
    <2>1. "start" \in Points
      BY DEF Points
    <2> QED
      BY <2>1, AtLocals DEF Restarted, HeldAtPoint
  <1> DEFINE Rest == {"open", "hall", "event"}
  <1>a. ASSUME NEW pc \in Rest, NEW w \in BOOLEAN, halld' = At(pc, w)
        PROVE  halld' \in Locals /\ HeldAtPoint'
    <2>1. pc \in Points /\ pc \notin {"accept", "wait", "select", "setPanel", "setForce", "reply"}
      BY DEF Points
    <2> QED
      BY <1>a, <2>1, AtLocals DEF HeldAtPoint
  <1>1. CASE UNCHANGED <<halld, backlog>>
    BY <1>1 DEF HeldAtPoint
  <1>2. CASE InitAction
    BY <1>0, <1>2 DEF InitAction, HeldAtPoint
  <1>3. ASSUME NEW c \in Clients, Connect(c) PROVE halld' \in Locals /\ HeldAtPoint'
    BY <1>3, Grown DEF Connect, HeldAtPoint, QueueTypes
  <1>4. CASE MainStart \/ ReadHallStatus \/ PublishHall
    BY <1>4, ZenonT(60) DEF MainStart, ReadHallStatus, PublishHall, Goto, Locals, Points, EnvTypes,
                HeldAtPoint
  <1>5. CASE ReadBootCompleted \/ ReadSelection
    BY <1>5, ZenonT(60) DEF ReadBootCompleted, ReadSelection, Locals, Points, Properties, HeldAtPoint
  <1>6. CASE PublishState \/ PublishMode
    BY <1>6 DEF PublishState, PublishMode, Goto, Locals, Points, HeldAtPoint
  <1>7. CASE PublishPrimary
    <2>1. CASE halld' = [halld EXCEPT !.pc = "restore"]
      BY <1>7, <2>1 DEF PublishPrimary, Locals, Points, HeldAtPoint
    <2>2. Wide \in BOOLEAN
      BY DEF Wide
    <2> QED
      BY <1>7, <1>a, <2>1, <2>2 DEF PublishPrimary
  <1>8. CASE ReadBacklight \/ WriteBacklight
    <2>1. CASE halld' = [halld EXCEPT !.pc = "relight"]
      BY <1>8, <2>1 DEF Locals, Points, HeldAtPoint
    <2> QED
      BY <1>8, <1>a, <2>1 DEF ReadBacklight, WriteBacklight
  <1>9. CASE OpenEvent
    BY <1>9 DEF OpenEvent, Goto, Locals, Points, HeldAtPoint
  <1>10. CASE PollReturns
    BY <1>10 DEF PollReturns, Ready, Locals, Points, HeldAtPoint
  <1>11. CASE Accept
    BY <1>11, HeadTail DEF Accept, Locals, Points, HeldAtPoint, QueueTypes
  <1>12. ASSUME NEW answer, Answer(answer) PROVE halld' \in Locals /\ HeldAtPoint'
    <2>1. At("event", halld.lastWide) \in Locals /\ At("event", halld.lastWide).pc = "event"
      BY AtLocals DEF Locals, Points
    <2>2. halld' = [At("event", halld.lastWide) EXCEPT !.ready = halld.ready]
      BY <1>12 DEF Answer
    <2>3. halld' \in Locals /\ halld'.pc = "event"
      BY <2>1, <2>2 DEF Locals
    <2> QED
      BY <2>3 DEF HeldAtPoint
  <1>13. CASE AwaitRequest
    BY <1>12, <1>13 DEF AwaitRequest, Goto, Locals, Points, HeldAtPoint
  <1>14. CASE Select
    BY <1>14, ZenonT(60) DEF Select, Selected, Locals, Points, HeldAtPoint
  <1>15. CASE SetPanel \/ SetForce
    BY <1>15 DEF SetPanel, SetForce, Goto, Locals, Points, HeldAtPoint
  <1>16. CASE Reply
    BY <1>0, <1>12, <1>16 DEF Reply
  <1>17. CASE CloseEvent
    BY <1>a, <1>17 DEF CloseEvent, Locals
  <1> QED
    BY <1>1, <1>2, <1>3, <1>4, <1>5, <1>6, <1>7, <1>8, <1>9, <1>10, <1>11, <1>13, <1>14, <1>15,
       <1>16, <1>17
    DEF Next, HalldStep, Environment, Publish, Wait, vars, HingeMove, BootCompleted, Send,
        HangUp, ScreenPower

\* Every step keeps the types.
LEMMA TypesKept == IndTypes /\ [Next]_vars => IndTypes'
  <1>1. (EnvTypes /\ prop \in Properties /\ QueueTypes /\ halld \in Locals /\ HeldAtPoint
            => IndTypes)'
    BY TypeParts, PTL
  <1> QED
    BY <1>1, EnvTypesKept, PropTypesKept, QueueTypesKept, LocalsKept

\* Type correctness of the daemon, its clients and the properties.
THEOREM TypeCorrect == Spec => []TypeOK
  <1>1. IndTypes => TypeOK
    BY DEF IndTypes
  <1> QED
    BY <1>1, InitTypes, TypesKept, PTL DEF Spec
-----------------------------------------------------------------------------
(* What is published. *)

\* A daemon at a point where it holds no copy, with the properties unchanged,
\* publishes nothing that was not published before.
LEMMA NoCopy ==
    ASSUME Truthful, UNCHANGED prop, halld'.boot \in {"0", halld.boot},
           halld'.pc \notin {"state", "mode", "active"},
           halld'.pc \in {"restore", "relight", "open", "poll", "pollSocket"}
               => halld.pc \in {"restore", "relight", "open", "poll", "pollSocket"}
    PROVE  Truthful'
  BY DEF Truthful, BootOnA, BootNotAhead, CopyIsCurrent, PublishedB

\* The daemon starts without a copy, and boot starts on A.
LEMMA InitTruthful == Init => Truthful
  BY DEF Init, At, Truthful, BootOnA, BootNotAhead, CopyIsCurrent, PublishedB

\* A restart, at whatever point it strikes, leaves what is published alone.
LEMMA RestartTruthful == ASSUME Truthful, Restarted, UNCHANGED prop PROVE Truthful'
  <1>1. halld'.pc = "start" /\ halld'.boot = "0"
    BY DEF Restarted, At
  <1> QED
    BY <1>1, NoCopy

\* The steps that only read or wait.
LEMMA WaitTruthful == ASSUME IInv, Wait PROVE Truthful'
  <1> USE DEF IInv
  <1>0. halld \in Locals
    BY DEF IndTypes
  <1>1. CASE OpenEvent
    BY <1>0, <1>1, NoCopy DEF OpenEvent, Goto, Locals
  <1>2. CASE PollReturns
    BY <1>0, <1>2, NoCopy DEF PollReturns, Locals
  <1>3. CASE Accept
    BY <1>0, <1>3, NoCopy DEF Accept, Locals
  <1>4. ASSUME NEW answer, Answer(answer), UNCHANGED prop PROVE Truthful'
    <2>1. halld'.pc = "event" /\ halld'.boot = "0"
      BY <1>4 DEF Answer, At
    <2> QED
      BY <1>4, <2>1, NoCopy
  <1>5. CASE AwaitRequest
    <2>1. CASE Goto("select")
      BY <1>0, <1>5, <2>1, NoCopy DEF AwaitRequest, Goto, Locals
    <2> QED
      BY <1>4, <1>5, <2>1 DEF AwaitRequest
  <1>6. CASE Select
    BY <1>0, <1>6, NoCopy DEF Select, Locals
  <1>7. CASE SetPanel \/ SetForce
    <2>1. /\ halld'.pc \in {"setForce", "reply"} /\ halld'.boot = halld.boot
          /\ prop'.boot = prop.boot /\ prop'.active = prop.active /\ prop'.mode = prop.mode
      BY <1>0, <1>7, TypeParts DEF SetPanel, SetForce, Goto, Locals, Properties
    <2> QED
      BY <2>1 DEF Truthful, BootOnA, BootNotAhead, CopyIsCurrent, PublishedB
  <1>8. CASE Reply
    BY <1>4, <1>8, RestartTruthful DEF Reply
  <1>9. CASE CloseEvent
    <2>1. halld'.pc = "hall" /\ halld'.boot = "0" /\ UNCHANGED prop
      BY <1>9 DEF CloseEvent, At
    <2> QED
      BY <2>1, NoCopy
  <1> QED
    BY <1>1, <1>2, <1>3, <1>5, <1>6, <1>7, <1>8, <1>9 DEF Wait

\* The steps of publish_topology.
LEMMA PublishTruthful == ASSUME IInv, Publish PROVE Truthful'
  <1> USE DEF IInv
  <1>0. halld \in Locals /\ prop \in Properties
    BY TypeParts
  <1>1. CASE MainStart
    BY <1>0, <1>1, NoCopy DEF MainStart, Goto, Locals
  <1>2. CASE ReadHallStatus
    BY <1>0, <1>2, NoCopy DEF ReadHallStatus, Locals
  <1>3. CASE PublishHall
    <2>1. /\ halld'.pc = "boot" /\ halld'.boot = halld.boot
          /\ prop'.boot = prop.boot /\ prop'.active = prop.active /\ prop'.mode = prop.mode
      BY <1>0, <1>3 DEF PublishHall, Goto, Locals, Properties
    <2> QED
      BY <2>1 DEF Truthful, BootOnA, BootNotAhead, CopyIsCurrent, PublishedB
  <1>4. CASE ReadBootCompleted
    BY <1>0, <1>4
    DEF ReadBootCompleted, Locals, Truthful, BootOnA, BootNotAhead, CopyIsCurrent, PublishedB
  <1>5. CASE ReadSelection
    BY <1>0, <1>5
    DEF ReadSelection, Locals, Truthful, BootOnA, BootNotAhead, CopyIsCurrent, PublishedB
  <1>6. CASE PublishState
    BY <1>0, <1>6
    DEF PublishState, Goto, Locals, Properties, Truthful, BootOnA, BootNotAhead,
        CopyIsCurrent, PublishedB
  <1>7. CASE PublishMode
    BY <1>0, <1>7
    DEF PublishMode, Goto, Locals, Properties, Truthful, BootOnA, BootNotAhead,
        CopyIsCurrent, PublishedB, Wide
  <1>8. CASE PublishPrimary
    <2>1. /\ prop'.boot = prop.boot /\ prop'.mode = prop.mode /\ prop'.panel = prop.panel
          /\ prop'.force = prop.force /\ prop'.active = IF PrimaryB THEN "b" ELSE "a"
      BY <1>0, <1>8 DEF PublishPrimary, Properties
    <2>2. halld'.pc \in {"restore", "open"} /\ halld'.boot \in {"0", halld.boot}
      BY <1>0, <1>8 DEF PublishPrimary, Locals, At
    <2>3. PrimaryB => /\ prop.boot = "1" /\ prop.panel = "b" /\ prop.force = "1"
                      /\ prop.mode = "single"
      BY <1>0, <1>8
      DEF PublishPrimary, PrimaryB, Properties, Truthful, BootNotAhead, CopyIsCurrent
    <2> QED
      BY <2>1, <2>2, <2>3 DEF Truthful, BootOnA, BootNotAhead, CopyIsCurrent, PublishedB
  <1>9. CASE ReadBacklight \/ WriteBacklight
    <2>1. /\ halld'.pc \in {"open", "relight"} /\ halld'.boot \in {"0", halld.boot}
          /\ halld.pc \in {"restore", "relight"} /\ UNCHANGED prop
      BY <1>0, <1>9 DEF ReadBacklight, WriteBacklight, Locals, At
    <2> QED
      BY <2>1, NoCopy
  <1> QED
    BY <1>1, <1>2, <1>3, <1>4, <1>5, <1>6, <1>7, <1>8, <1>9 DEF Publish

\* The steps of init and of the environment.
LEMMA OthersTruthful == ASSUME IInv, InitAction \/ Environment PROVE Truthful'
  <1> USE DEF IInv
  <1>0. prop \in Properties
    BY TypeParts
  <1>1. CASE UNCHANGED <<halld, prop>>
    BY <1>1
    DEF Truthful, BootOnA, BootNotAhead, CopyIsCurrent, PublishedB, Wide
  <1>2. CASE BootCompleted
    BY <1>0, <1>2
    DEF BootCompleted, Properties, Truthful, BootOnA, BootNotAhead, CopyIsCurrent,
        PublishedB, Wide
  <1>3. CASE InitAction /\ UNCHANGED halld
    BY <1>0, <1>3
    DEF InitAction, Properties, Truthful, BootOnA, BootNotAhead, CopyIsCurrent, PublishedB,
        Wide
  <1>4. CASE Restarted /\ UNCHANGED prop
    BY <1>4, RestartTruthful
  <1> QED
    BY <1>1, <1>2, <1>3, <1>4
    DEF InitAction, Environment, HingeMove, Connect, Send, HangUp, ScreenPower

\* The inductive invariant of the daemon.
LEMMA Invariant == Spec => []IInv
  <1>1. Init => IInv
    BY InitTypes, InitTruthful DEF IInv
  <1>2. ASSUME IInv, [Next]_vars PROVE Truthful'
    <2>1. CASE UNCHANGED vars
      BY <1>2, <2>1
      DEF vars, IInv, Truthful, BootOnA, BootNotAhead, CopyIsCurrent, PublishedB, Wide
    <2> QED
      BY <1>2, <2>1, WaitTruthful, PublishTruthful, OthersTruthful DEF Next, HalldStep
  <1>3. IInv /\ [Next]_vars => IInv'
    BY <1>2, TypesKept DEF IInv
  <1> QED
    BY <1>1, <1>3, PTL DEF Spec

\* Boot stays on physical A and on the single topology, whatever the last session
\* persisted, wherever the hinge is and however often the daemon is restarted.
THEOREM BootStaysOnA == Spec => []BootOnA
  BY Invariant, PTL DEF IInv, Truthful

\* Whenever the daemon blocks, a published B is the whole selection and the device
\* is folded: a restart between the two writes of a selection is repaired first.
THEOREM BIsTheSelection == Spec => []BIsSelected
  <1>1. IInv => BIsSelected
    BY DEF IInv, Truthful, PublishedB, BIsSelected, Waiting
  <1> QED
    BY <1>1, Invariant, PTL
=============================================================================
