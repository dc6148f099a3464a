--------------------------- MODULE HwcPowerProofs ---------------------------
(***************************************************************************)
(* Proofs about HwcPower, for every set of brightness arguments, every     *)
(* bound on the calls and every choice of what may fail.                   *)
(***************************************************************************)
EXTENDS HwcPower, TLAPS

\* BrightnessToLevel answers -1 or a level of the 8-bit backlight node.
LEMMA BrightnessToLevelRange ==
    ASSUME NEW b \in Int
    PROVE  BrightnessToLevel(b) \in -1..255
  BY DEF BrightnessToLevel

\* A step of a deferred thread changes its own record and, at most, clears the
\* run flag, powers fb0 down or records the composer's refusal.
LEMMA ThreadStepShape ==
    ASSUME NEW t \in threads, t \in Thread, generation \in Nat, ThreadStep(t)
    PROVE  /\ threads' \subseteq threads \cup Thread
           /\ UNCHANGED <<power_on, brightness, generation, created, caller, calls,
                          last_on, shown>>
           /\ thread_run' \in {thread_run, FALSE}
           /\ real_on' \in {real_on, FALSE}
           /\ backlight' \in {backlight, 0}
           /\ failed' \in {failed, TRUE}
<1> USE DEF Move, UnchangedByThread, Thread, ThreadPC
<1>1. CASE LoadGeneration(t)
  BY <1>1 DEF LoadGeneration
<1>2. CASE GraceSleep(t)
  BY <1>2 DEF GraceSleep
<1>3. CASE TestRun(t)
  BY <1>3 DEF TestRun
<1>4. CASE CompareGeneration(t)
  BY <1>4 DEF CompareGeneration
<1>5. CASE ReadSmall(t)
  BY <1>5 DEF ReadSmall
<1>6. CASE ReadWide(t)
  BY <1>6 DEF ReadWide
<1>7. CASE ForwardOff(t)
  BY <1>7 DEF ForwardOff
<1>8. CASE ExitThread(t)
  BY <1>8 DEF ExitThread
<1> QED
  BY <1>1, <1>2, <1>3, <1>4, <1>5, <1>6, <1>7, <1>8 DEF ThreadStep

\* The caller's arguments and program point never leave their types: the write
\* step carries a level of the node, a call carries its display.
LEMMA TypeStep == IndTypes /\ [Next]_vars => IndTypes'
<1> SUFFICES ASSUME IndTypes, [Next]_vars PROVE IndTypes'
  OBVIOUS
<1> USE DEF IndTypes, TypeOK, CallerArgs, Caller, CallerPC, Displays, NoDisplay,
            At, Idle
<1>1. ASSUME NEW d \in Displays, NEW on \in BOOLEAN, SetPowerMode(d, on)
      PROVE  IndTypes'
  BY <1>1 DEF SetPowerMode
<1>2. ASSUME NEW d \in Displays, NEW b \in Brightness, SetDisplayBrightness(d, b)
      PROVE  IndTypes'
  <2> DEFINE level == BrightnessToLevel(b)
  <2>1. level \in -1..255
    BY BrightnessToLevelRange, BrightnessAssumption
  <2> HIDE DEF level
  <2>2. CASE level <= 0
    BY <1>2, <2>1, <2>2 DEF SetDisplayBrightness, level
  <2>3. CASE level > 0
    <3>1. /\ brightness' = [brightness EXCEPT ![d] = level]
          /\ caller' = IF power_on[d] THEN At("write", d, TRUE, level) ELSE Idle
      BY <1>2, <2>1, <2>3 DEF SetDisplayBrightness, level
    <3>2. brightness' \in [Displays -> {-1} \cup 1..255]
      BY <3>1, <2>1, <2>3
    <3>3. caller' \in Caller /\ CallerArgs'
      BY <3>1, <2>1, <2>3
    <3>4. calls' \in Nat
      BY <1>2 DEF SetDisplayBrightness
    <3> QED  BY <3>2, <3>3, <3>4, <1>2 DEF SetDisplayBrightness
  <2> QED  BY <2>1, <2>2, <2>3
<1>3. CASE HwcClose
  <2>1. caller' \in Caller /\ CallerArgs'
    BY <1>3 DEF HwcClose
  <2>2. thread_run' \in BOOLEAN
    BY <1>3 DEF HwcClose
  <2> QED  BY <1>3, <2>1, <2>2 DEF HwcClose
<1>4. CASE BumpGeneration
  BY <1>4 DEF BumpGeneration
<1>5. CASE CheckBothOff
  BY <1>5 DEF CheckBothOff
<1>6. CASE ScheduleSharedPowerOff
  BY <1>6 DEF ScheduleSharedPowerOff
<1>7. CASE ClaimThread
  BY <1>7 DEF ClaimThread
<1>8. CASE CreateThread
  <2>1. caller' \in Caller /\ CallerArgs'
    BY <1>8 DEF CreateThread
  <2>2. threads' \subseteq Thread
    BY <1>8 DEF CreateThread, Thread, ThreadPC
  <2>3. created' \in Nat
    BY <1>8 DEF CreateThread
  <2>4. thread_run' \in BOOLEAN
    BY <1>8, Zenon DEF CreateThread
  <2> QED  BY <1>8, <2>1, <2>2, <2>3, <2>4 DEF CreateThread
<1>9. CASE ForwardOn
  <2>1. ASSUME caller' = [caller EXCEPT !.pc = "restore"]
        PROVE  caller' \in Caller /\ CallerArgs'
    BY <1>9, <2>1 DEF ForwardOn
  <2>2. ASSUME caller' = Idle
        PROVE  caller' \in Caller /\ CallerArgs'
    BY <2>2
  <2>3. last_on' \in Displays /\ shown' \in Displays
    BY <1>9 DEF ForwardOn
  <2>4. real_on' \in BOOLEAN
    BY <1>9, Zenon DEF ForwardOn
  <2>5. failed' \in BOOLEAN
    BY <1>9, Zenon DEF ForwardOn
  <2> QED  BY <1>9, <2>1, <2>2, <2>3, <2>4, <2>5 DEF ForwardOn
<1>10. CASE RestoreBrightness
  <2> DEFINE level == brightness[caller.display]
  <2>1. level \in {-1} \cup 1..255
    BY <1>10 DEF RestoreBrightness
  <2>2. CASE level > 0
    <3>1. caller' = At("write", caller.display, TRUE, level)
      BY <1>10, <2>2 DEF RestoreBrightness
    <3>2. level \in 1..255 /\ level \in -1..255 /\ caller.display \in Displays
      BY <1>10, <2>1, <2>2 DEF RestoreBrightness
    <3> HIDE DEF level
    <3>3. caller' \in Caller
      BY <3>1, <3>2
    <3>4. CallerArgs'
      BY <3>1, <3>2
    <3> QED  BY <1>10, <3>3, <3>4 DEF RestoreBrightness
  <2>3. CASE ~(level > 0)
    BY <1>10, <2>3 DEF RestoreBrightness
  <2> QED  BY <2>2, <2>3
<1>11. CASE WritePrimaryBacklightLevel
  <2>1. caller' \in Caller /\ CallerArgs' /\ backlight' \in 0..255
    BY <1>11 DEF WritePrimaryBacklightLevel
  <2>2. failed' \in BOOLEAN
    BY <1>11, Zenon DEF WritePrimaryBacklightLevel
  <2> QED  BY <1>11, <2>1, <2>2 DEF WritePrimaryBacklightLevel
<1>12. CASE CloseBump
  BY <1>12 DEF CloseBump
<1>13. CASE JoinThread
  BY <1>13 DEF JoinThread
<1>14. ASSUME NEW t \in threads, ThreadStep(t) PROVE IndTypes'
  <2>1. t \in Thread
    OBVIOUS
  <2>2. /\ threads' \subseteq threads \cup Thread
        /\ UNCHANGED <<power_on, brightness, generation, created, caller, calls,
                       last_on, shown>>
        /\ thread_run' \in {thread_run, FALSE}
        /\ real_on' \in {real_on, FALSE}
        /\ backlight' \in {backlight, 0}
        /\ failed' \in {failed, TRUE}
    BY <1>14, <2>1, ThreadStepShape
  <2>3. /\ thread_run' \in BOOLEAN /\ real_on' \in BOOLEAN
        /\ failed' \in BOOLEAN
    BY <2>2, Zenon
  <2> QED  BY <2>2, <2>3
<1>15. CASE UNCHANGED vars
  BY <1>15 DEF vars
<1> HIDE DEF IndTypes, Caller, CallerArgs
<1> QED
  BY <1>1, <1>2, <1>3, <1>4, <1>5, <1>6, <1>7, <1>8, <1>9, <1>10, <1>11, <1>12,
     <1>13, <1>14, <1>15
     DEF Next, StartCall, CallerStep, SomeThreadStep

\* The initial state of a freshly opened device.
LEMMA InitTypes == ASSUME Init PROVE IndTypes
<1> USE DEF Init, Displays, NoDisplay, At, Idle
<1>1. power_on \in [Displays -> BOOLEAN]
  OBVIOUS
<1>2. caller \in Caller /\ CallerArgs
  BY DEF Caller, CallerPC, CallerArgs
<1>3. /\ brightness \in [Displays -> {-1} \cup 1..255]
      /\ generation \in Nat /\ threads \subseteq Thread /\ created \in Nat
      /\ calls \in Nat /\ backlight \in 0..255
  OBVIOUS
<1>4. /\ thread_run \in BOOLEAN /\ real_on \in BOOLEAN /\ failed \in BOOLEAN
      /\ last_on \in Displays /\ shown \in Displays
  OBVIOUS
<1> QED  BY <1>1, <1>2, <1>3, <1>4 DEF IndTypes, TypeOK

\* Every value HwcPower keeps stays in its type; in particular nothing but a
\* level of 0..255 is ever cached or written to the backlight node.
THEOREM TypeCorrect == Spec => []TypeOK
<1>1. Init => IndTypes
  BY InitTypes
<1>2. IndTypes => TypeOK
  BY DEF IndTypes
<1> QED
  BY <1>1, <1>2, TypeStep, PTL DEF Spec

Safe ==
    /\ AtMostOneThread /\ FlagCoversThread /\ ClaimIsExclusive /\ HandleIsNewest
    /\ NoThreadOutlivesDevice
    /\ SleptOnPast /\ SmallStillOff /\ OffWindow

\* A step of the only deferred thread keeps the safety part of the invariant.
LEMMA SafeThreadStep ==
    ASSUME IndTypes, Safe, NEW t \in threads, ThreadStep(t)
    PROVE  Safe'
<1> USE DEF Safe, Closing
<1>1. threads = {t} /\ t \in Thread /\ t.id = created - 1 /\ t.gen <= generation
      /\ generation \in Nat /\ caller.pc # "create" /\ caller.pc # "closed"
  BY DEF AtMostOneThread, IndTypes, TypeOK, HandleIsNewest, SleptOnPast,
         ClaimIsExclusive, NoThreadOutlivesDevice
<1>2. UNCHANGED <<power_on, generation, created, caller>>
  BY <1>1, ThreadStepShape
<1>3. ASSUME NEW pc \in ThreadPC, NEW g \in Nat, g <= generation,
             threads' = {[t EXCEPT !.pc = pc, !.gen = g]}, UNCHANGED thread_run,
             pc = "wide" => ~power_on["small"] \/ g # generation \/ caller.pc = "bump",
             pc = "off" => BothOff \/ g # generation \/ caller.pc = "bump"
      PROVE  Safe'
  BY <1>1, <1>2, <1>3
     DEF AtMostOneThread, FlagCoversThread, ClaimIsExclusive, HandleIsNewest,
         NoThreadOutlivesDevice, SleptOnPast, SmallStillOff, OffWindow, BothOff, Thread
<1>4. CASE LoadGeneration(t)
  <2>1. threads' = {[t EXCEPT !.pc = "sleep", !.gen = generation]}
    BY <1>1, <1>4 DEF LoadGeneration
  <2>2. generation <= generation /\ UNCHANGED thread_run /\ "sleep" \in ThreadPC
    BY <1>1, <1>4 DEF LoadGeneration, ThreadPC
  <2> QED  BY <1>1, <1>3, <2>1, <2>2
<1>5. ASSUME NEW pc \in ThreadPC, Move(t, pc), UNCHANGED thread_run,
             pc = "wide" => ~power_on["small"] \/ t.gen # generation \/ caller.pc = "bump",
             pc = "off" => BothOff \/ t.gen # generation \/ caller.pc = "bump"
      PROVE  Safe'
  <2>1. threads' = {[t EXCEPT !.pc = pc, !.gen = t.gen]}
    BY <1>1, <1>5 DEF Move, Thread
  <2> QED  BY <1>1, <1>3, <1>5, <2>1 DEF Thread
<1>6. CASE GraceSleep(t)
  BY <1>5, <1>6 DEF GraceSleep, ThreadPC
<1>7. CASE TestRun(t)
  BY <1>5, <1>7 DEF TestRun, ThreadPC
<1>8. CASE CompareGeneration(t)
  BY <1>5, <1>8 DEF CompareGeneration, ThreadPC
<1>9. CASE ReadSmall(t)
  BY <1>5, <1>9 DEF ReadSmall, ThreadPC
<1>10. CASE ReadWide(t)
  <2>1. ~power_on["small"] \/ t.gen # generation \/ caller.pc = "bump"
    BY <1>10 DEF ReadWide, SmallStillOff
  <2>2. ~power_on["wide"] => BothOff \/ t.gen # generation \/ caller.pc = "bump"
    BY <2>1 DEF BothOff, Displays
  <2>3. CASE power_on["wide"]
    BY <1>5, <1>10, <2>3 DEF ReadWide, ThreadPC
  <2>4. CASE ~power_on["wide"]
    BY <1>5, <1>10, <2>2, <2>4 DEF ReadWide, ThreadPC
  <2> QED  BY <2>3, <2>4
<1>11. CASE ForwardOff(t)
  BY <1>5, <1>11 DEF ForwardOff, ThreadPC
<1>12. CASE ExitThread(t)
  <2>1. threads' = {}
    BY <1>1, <1>12 DEF ExitThread
  <2> QED
    BY <1>1, <1>2, <2>1
       DEF AtMostOneThread, FlagCoversThread, ClaimIsExclusive, HandleIsNewest,
           NoThreadOutlivesDevice, SleptOnPast, SmallStillOff, OffWindow
<1> QED
  BY <1>4, <1>6, <1>7, <1>8, <1>9, <1>10, <1>11, <1>12 DEF ThreadStep

\* A step of the caller keeps it: the exchange claims an empty house, the bump
\* outdates every sleeping thread, the join waits for the one thread there is.
LEMMA SafeCallerStep ==
    ASSUME IndTypes, Safe, StartCall \/ CallerStep
    PROVE  Safe'
<1> USE DEF Safe, Closing, At, Idle
<1>1. /\ threads \subseteq Thread /\ generation \in Nat /\ created \in Nat
      /\ caller \in Caller
  BY DEF IndTypes, TypeOK
<1> USE DEF AtMostOneThread, FlagCoversThread, ClaimIsExclusive, HandleIsNewest,
            NoThreadOutlivesDevice, SleptOnPast, SmallStillOff, OffWindow
<1>2. ASSUME NEW d \in Displays, NEW on \in BOOLEAN, SetPowerMode(d, on)
      PROVE  Safe'
  BY <1>1, <1>2 DEF SetPowerMode
<1>3. ASSUME NEW d \in Displays, NEW b \in Brightness, SetDisplayBrightness(d, b)
      PROVE  Safe'
  BY <1>1, <1>3 DEF SetDisplayBrightness, BothOff
<1>4. CASE HwcClose
  BY <1>1, <1>4 DEF HwcClose, BothOff
<1>5. ASSUME generation' = generation + 1, UNCHANGED <<threads, created>>,
             FlagCoversThread', ClaimIsExclusive', NoThreadOutlivesDevice'
      PROVE  Safe'
  <2>1. \A t \in threads : t.gen \in Nat
    BY <1>1 DEF Thread
  <2> QED  BY <1>1, <1>5, <2>1
<1>6. CASE BumpGeneration
  BY <1>1, <1>5, <1>6 DEF BumpGeneration, Caller
<1>7. CASE CheckBothOff
  BY <1>1, <1>7 DEF CheckBothOff, BothOff, Caller
<1>8. CASE ScheduleSharedPowerOff
  BY <1>1, <1>5, <1>8 DEF ScheduleSharedPowerOff, Caller
<1>9. CASE ClaimThread
  BY <1>1, <1>9 DEF ClaimThread, BothOff, Caller
<1>10. CASE CreateThread
  <2>1. threads = {} /\ thread_run /\ caller' = Idle
    BY <1>10 DEF CreateThread
  <2>2. CASE threads' = {}
    BY <2>1, <2>2
  <2>3. CASE /\ threads' = {[id |-> created, pc |-> "load", gen |-> 0]}
             /\ created' = created + 1 /\ UNCHANGED <<thread_run, generation>>
    <3>1. \A t \in threads' : t.id = created /\ t.pc = "load" /\ t.gen = 0
      BY <2>3
    <3>2. AtMostOneThread' /\ HandleIsNewest' /\ SleptOnPast'
      BY <1>1, <2>3, <3>1
    <3> QED  BY <2>1, <2>3, <3>1, <3>2
  <2> QED  BY <1>10, <2>1, <2>2, <2>3 DEF CreateThread
<1>11. CASE ForwardOn
  BY <1>1, <1>11 DEF ForwardOn, BothOff, Caller
<1>12. CASE RestoreBrightness
  BY <1>1, <1>12 DEF RestoreBrightness, BothOff
<1>13. CASE WritePrimaryBacklightLevel
  BY <1>1, <1>13 DEF WritePrimaryBacklightLevel, BothOff
<1>14. CASE CloseBump
  BY <1>1, <1>5, <1>14 DEF CloseBump, Caller
<1>15. CASE JoinThread
  <2>1. threads = {}
    BY <1>1, <1>15 DEF JoinThread
  <2> QED  BY <1>1, <1>15, <2>1 DEF JoinThread, Caller
<1> QED
  BY <1>2, <1>3, <1>4, <1>6, <1>7, <1>8, <1>9, <1>10, <1>11, <1>12, <1>13, <1>14,
     <1>15 DEF StartCall, CallerStep

\* The inductive invariant of HwcPower holds in every reachable state.
LEMMA Invariant == Spec => []IInv
<1>1. Init => IInv
  <2> SUFFICES ASSUME Init PROVE Safe
    BY InitTypes DEF IInv, Safe
  <2> QED
    BY DEF Init, Idle, At, Safe, AtMostOneThread, FlagCoversThread,
           ClaimIsExclusive, HandleIsNewest, NoThreadOutlivesDevice, SleptOnPast,
           SmallStillOff, OffWindow
<1>2. IInv /\ [Next]_vars => IInv'
  <2> SUFFICES ASSUME IInv, [Next]_vars PROVE IInv'
    OBVIOUS
  <2>1. IndTypes'
    BY TypeStep DEF IInv
  <2>2. IndTypes /\ Safe
    BY DEF IInv, Safe
  <2>3. ASSUME StartCall \/ CallerStep PROVE Safe'
    BY <2>2, <2>3, SafeCallerStep
  <2>4. ASSUME NEW t \in threads, ThreadStep(t) PROVE Safe'
    BY <2>2, <2>4, SafeThreadStep
  <2>5. ASSUME UNCHANGED vars PROVE Safe'
    BY <2>2, <2>5
       DEF vars, Safe, Closing, AtMostOneThread, FlagCoversThread, ClaimIsExclusive,
           HandleIsNewest, NoThreadOutlivesDevice, SleptOnPast, SmallStillOff,
           OffWindow, BothOff
  <2>6. Safe'
    BY <2>3, <2>4, <2>5 DEF Next, SomeThreadStep
  <2> QED  BY <2>1, <2>6 DEF IInv, Safe
<1> QED
  BY <1>1, <1>2, PTL DEF Spec

\* The exchange of ScheduleSharedPowerOff and the store at the end of
\* SharedPowerOffThreadMain admit one deferred thread at a time.
THEOREM OneThread == Spec => []AtMostOneThread
<1>1. IInv => AtMostOneThread
  BY DEF IInv
<1> QED  BY <1>1, Invariant, PTL

\* HwcClose deletes the Device after its one deferred thread has returned: the
\* handle it joins is that of the live thread.
THEOREM DeviceOutlivesThread == Spec => []NoThreadOutlivesDevice
<1>1. IInv => NoThreadOutlivesDevice
  BY DEF IInv
<1> QED  BY <1>1, Invariant, PTL

\* A deferred thread is about to power fb0 down under a powered endpoint only if
\* a SetPowerMode arrived after it compared the generation.
THEOREM OffWindowIsNarrow == Spec => []OffWindow
<1>1. IInv => OffWindow
  BY DEF IInv
<1> QED  BY <1>1, Invariant, PTL
-----------------------------------------------------------------------------
(* Brightness across a handoff. *)

\* An ON on its way to its backlight write: until then fb0 may be lit and dark.
Lighting ==
    \/ caller.pc = "bump" /\ caller.on
    \/ caller.pc \in {"realOn", "restore", "write"}

\* Outside such a call the endpoint that lit fb0 last has a lit panel, and the one
\* that claimed the glass last its own level.
LitUnlessLighting ==
    (~failed /\ real_on /\ ~Lighting) =>
        /\ (power_on[last_on] /\ brightness[last_on] > 0) => backlight > 0
        /\ (power_on[shown] /\ brightness[shown] > 0) => backlight = brightness[shown]

\* An ON restores the level of the endpoint it switched on, and the level on its
\* way to the node is the one remembered for the endpoint that claimed the glass.
WritesShown ==
    /\ caller.pc = "restore" => caller.display = last_on /\ caller.display = shown
    /\ caller.pc = "write" => caller.level = brightness[shown]

LitInv == LitUnlessLighting /\ WritesShown

\* Every step keeps a lit panel lit: only an ON lights fb0, and it ends with the
\* write of the cached level or with a refusal; OFF darkens it with fb0.
LEMMA LitStep == ASSUME IndTypes, LitInv, [Next]_vars PROVE LitInv'
<1> USE DEF LitInv, LitUnlessLighting, WritesShown, Lighting, At, Idle
<1>1. /\ power_on \in [Displays -> BOOLEAN]
      /\ last_on \in Displays /\ shown \in Displays
      /\ brightness \in [Displays -> {-1} \cup 1..255] /\ caller \in Caller
      /\ caller.pc = "write" => caller.level \in 1..255
      /\ caller.pc \in {"bump", "realOn", "restore"} => caller.display \in Displays
  BY DEF IndTypes, TypeOK, CallerArgs
<1>2. ASSUME NEW d \in Displays, NEW on \in BOOLEAN, SetPowerMode(d, on)
      PROVE  LitInv'
  BY <1>1, <1>2 DEF SetPowerMode
<1>3. ASSUME NEW d \in Displays, NEW b \in Brightness, SetDisplayBrightness(d, b)
      PROVE  LitInv'
  BY <1>1, <1>3 DEF SetDisplayBrightness
<1>4. CASE HwcClose
  BY <1>1, <1>4 DEF HwcClose
<1>5. CASE BumpGeneration
  BY <1>1, <1>5 DEF BumpGeneration, Caller
<1>6. CASE CheckBothOff
  BY <1>1, <1>6 DEF CheckBothOff, Caller
<1>7. CASE ScheduleSharedPowerOff
  BY <1>1, <1>7 DEF ScheduleSharedPowerOff, Caller
<1>8. CASE ClaimThread
  BY <1>1, <1>8 DEF ClaimThread, Caller
<1>9. CASE CreateThread
  BY <1>1, <1>9 DEF CreateThread
<1>10. CASE ForwardOn
  BY <1>1, <1>10 DEF ForwardOn, Caller
<1>11. CASE RestoreBrightness
  BY <1>1, <1>11 DEF RestoreBrightness
<1>12. CASE WritePrimaryBacklightLevel
  BY <1>1, <1>12 DEF WritePrimaryBacklightLevel
<1>13. CASE CloseBump
  BY <1>1, <1>13 DEF CloseBump, Caller
<1>14. CASE JoinThread
  BY <1>1, <1>14 DEF JoinThread, Caller
<1>15. ASSUME NEW t \in threads, ThreadStep(t) PROVE LitInv'
  <2>1. /\ UNCHANGED <<power_on, brightness, caller, last_on, shown>>
        /\ \/ UNCHANGED <<real_on, backlight, failed>>
           \/ real_on' = FALSE
           \/ failed' = TRUE
    BY <1>15 DEF ThreadStep, LoadGeneration, GraceSleep, TestRun, CompareGeneration,
                 ReadSmall, ReadWide, ForwardOff, ExitThread, UnchangedByThread
  <2> QED  BY <2>1
<1>16. CASE UNCHANGED vars
  BY <1>16 DEF vars
<1> QED
  BY <1>2, <1>3, <1>4, <1>5, <1>6, <1>7, <1>8, <1>9, <1>10, <1>11, <1>12, <1>13,
     <1>14, <1>15, <1>16 DEF Next, StartCall, CallerStep, SomeThreadStep

\* A handoff never leaves the lit panel dark or at a foreign level: between calls,
\* and unless the composer or the backlight node refused, fb0 is lit under the
\* endpoint that was switched on last, if a brightness is remembered for it, and
\* shows the level remembered for the endpoint that claimed it last, by such an ON
\* or by a level of its own.
THEOREM NeverDark == Spec => []NeverLeftDark
<1>1. Init => IndTypes /\ LitInv
  <2> SUFFICES ASSUME Init PROVE LitInv
    BY InitTypes
  <2>1. /\ caller.pc = "idle" /\ last_on \in Displays /\ brightness[last_on] = -1
        /\ shown \in Displays /\ brightness[shown] = -1
    BY DEF Init, Idle, At, Displays
  <2> QED  BY <2>1 DEF LitInv, LitUnlessLighting, WritesShown
<1>2. IndTypes /\ LitInv /\ [Next]_vars => (IndTypes /\ LitInv)'
  BY TypeStep, LitStep
<1>3. LitInv => NeverLeftDark
  BY DEF LitInv, LitUnlessLighting, Lighting, NeverLeftDark
<1> QED
  BY <1>1, <1>2, <1>3, PTL DEF Spec
=============================================================================
