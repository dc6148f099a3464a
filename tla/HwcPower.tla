------------------------------ MODULE HwcPower ------------------------------
(***************************************************************************)
(* Power and brightness of the Fujisan HWC2 wrapper                        *)
(* (dualscreen/hwcomposer/hwc2_fujisan.cpp).                               *)
(*                                                                         *)
(* The framework sees two displays, Small and Wide; the hardware has one   *)
(* framebuffer, fb0, behind the wrapped CAF composer.  SetPowerMode stores *)
(* the endpoint's state and forwards ON at once; OFF is left to a deferred *)
(* thread that sleeps one second, compares a generation counter and only   *)
(* then powers fb0 down.                                                   *)
(*                                                                         *)
(* Processes: the caller (SurfaceFlinger's main thread issues every HWC2   *)
(* call modelled here, one at a time) and the deferred power-off threads.  *)
(* Every access to an atomic that the other process can see is a step.     *)
(***************************************************************************)
EXTENDS Integers, FiniteSets

CONSTANTS Brightness,     \* brightness arguments, in thousandths; negative: < 0 or NaN
          MaxCalls,       \* bound on the number of HWC2 calls
          CafMayFail,     \* the wrapped composer may return an error
          CreateMayFail,  \* pthread_create may fail
          WriteMayFail    \* the backlight node may refuse a write

ASSUME BrightnessAssumption == Brightness \subseteq Int
ASSUME MaxCallsAssumption == MaxCalls \in Nat
ASSUME FailAssumption == {CafMayFail, CreateMayFail, WriteMayFail} \subseteq BOOLEAN

Displays == {"small", "wide"}

VARIABLES
    power_on,    \* small_power_on, wide_power_on
    brightness,  \* small_brightness, wide_brightness: last non-zero level, or -1
    generation,  \* shared_power_generation
    thread_run,  \* shared_power_off_thread_run
    threads,     \* the deferred power-off threads that have not returned yet
    created,     \* pthreads created so far
    caller,      \* the HWC2 call in progress: its program point and arguments
    calls,       \* calls started so far (bounded by MaxCalls)
    real_on,     \* external: fb0 is powered in the wrapped composer
    backlight,   \* external: /sys/class/leds/lcd-backlight/brightness
    last_on,     \* history: the endpoint of the last ON the composer accepted
    shown,       \* history: the endpoint that claimed the glass last, by such an ON
                 \* or by a level set while it was powered
    failed       \* history: the composer or the backlight node has refused a call

vars == <<power_on, brightness, generation, thread_run, threads, created,
          caller, calls, real_on, backlight, last_on, shown, failed>>

NoDisplay == "none"

\* Points of the caller between two shared accesses.
CallerPC == {"idle", "bump", "check", "schedule", "cas", "create", "realOn",
             "restore", "write", "closeBump", "join", "closed"}
\* Points of a deferred power-off thread.
ThreadPC == {"load", "sleep", "run", "cmp", "small", "wide", "off", "clear"}

At(pc, d, on, level) == [pc |-> pc, display |-> d, on |-> on, level |-> level]
Idle == At("idle", NoDisplay, FALSE, -1)

\* Mutant: no clamp at full brightness.
BrightnessToLevelUnclamped(b) == IF b < 0 THEN -1 ELSE (510 * b + 1000) \div 2000

\* The level WritePrimaryBacklightLevel writes and SetDisplayBrightness caches:
\* round(255 * b), -1 for a negative argument or NaN, at most 255.
BrightnessToLevel(b) ==
    IF b < 0 THEN -1
    ELSE IF b > 1000 THEN 255
    ELSE (510 * b + 1000) \div 2000

BothOff == \A d \in Displays : ~power_on[d]

Init ==
    /\ power_on = [d \in Displays |-> d = "small"]
    /\ brightness = [d \in Displays |-> -1]
    /\ generation = 0
    /\ thread_run = FALSE
    /\ threads = {}
    /\ created = 0
    /\ caller = Idle
    /\ calls = 0
    /\ real_on = TRUE
    /\ backlight = 0
    /\ last_on = "small"
    /\ shown = "small"
    /\ failed = FALSE
-----------------------------------------------------------------------------
(* The caller. *)

\* SetPowerMode, first shared access: store the endpoint's state.
SetPowerMode(d, on) ==
    /\ caller.pc = "idle"
    /\ calls < MaxCalls
    /\ calls' = calls + 1
    /\ power_on' = [power_on EXCEPT ![d] = on]
    /\ caller' = At("bump", d, on, -1)
    /\ UNCHANGED <<brightness, generation, thread_run, threads, created,
                   real_on, backlight, last_on, shown, failed>>

\* Mutant: the generation is bumped only by ScheduleSharedPowerOff.
BumpGenerationNot ==
    /\ caller.pc = "bump"
    /\ caller' = [caller EXCEPT !.pc = IF caller.on THEN "realOn" ELSE "check"]
    /\ UNCHANGED <<power_on, brightness, generation, thread_run, threads, created,
                   calls, real_on, backlight, last_on, shown, failed>>

\* shared_power_generation.fetch_add(1), in SetPowerMode.
BumpGeneration ==
    /\ caller.pc = "bump"
    /\ generation' = generation + 1
    /\ caller' = [caller EXCEPT !.pc = IF caller.on THEN "realOn" ELSE "check"]
    /\ UNCHANGED <<power_on, brightness, thread_run, threads, created, calls,
                   real_on, backlight, last_on, shown, failed>>

\* OFF: schedule the shared power-off only when no endpoint remains powered.
CheckBothOff ==
    /\ caller.pc = "check"
    /\ caller' = IF BothOff THEN [caller EXCEPT !.pc = "schedule"] ELSE Idle
    /\ UNCHANGED <<power_on, brightness, generation, thread_run, threads, created,
                   calls, real_on, backlight, last_on, shown, failed>>

\* ScheduleSharedPowerOff bumps the generation once more.
ScheduleSharedPowerOff ==
    /\ caller.pc = "schedule"
    /\ generation' = generation + 1
    /\ caller' = [caller EXCEPT !.pc = "cas"]
    /\ UNCHANGED <<power_on, brightness, thread_run, threads, created, calls,
                   real_on, backlight, last_on, shown, failed>>

\* Mutant: the run flag is stored without looking at its old value.
ClaimThreadBlindly ==
    /\ caller.pc = "cas"
    /\ thread_run' = TRUE
    /\ caller' = [caller EXCEPT !.pc = "create"]
    /\ UNCHANGED <<power_on, brightness, generation, threads, created, calls,
                   real_on, backlight, last_on, shown, failed>>

\* compare_exchange_strong(false, true): a run flag already set ends the call.
ClaimThread ==
    /\ caller.pc = "cas"
    /\ thread_run' = TRUE
    /\ caller' = IF thread_run THEN Idle ELSE [caller EXCEPT !.pc = "create"]
    /\ UNCHANGED <<power_on, brightness, generation, threads, created, calls,
                   real_on, backlight, last_on, shown, failed>>

CreateThread ==
    /\ caller.pc = "create"
    /\ caller' = Idle
    /\ \/ /\ created' = created + 1
          /\ threads' = threads \cup {[id |-> created, pc |-> "load", gen |-> 0]}
          /\ UNCHANGED thread_run
       \/ /\ CreateMayFail
          /\ thread_run' = FALSE
          /\ UNCHANGED <<created, threads>>
    /\ UNCHANGED <<power_on, brightness, generation, calls, real_on, backlight,
                   last_on, shown, failed>>

\* ON is forwarded at once; an error of the composer is returned as it is.
ForwardOn ==
    /\ caller.pc = "realOn"
    /\ \/ /\ real_on' = TRUE
          /\ last_on' = caller.display
          /\ shown' = caller.display
          /\ caller' = [caller EXCEPT !.pc = "restore"]
          /\ UNCHANGED failed
       \/ /\ CafMayFail
          /\ caller' = Idle
          /\ failed' = TRUE
          /\ UNCHANGED <<real_on, last_on, shown>>
    /\ UNCHANGED <<power_on, brightness, generation, thread_run, threads, created,
                   calls, backlight>>

\* Mutant: the cached level of the other endpoint is restored.
RestoreBrightnessOfOther ==
    /\ caller.pc = "restore"
    /\ LET level == brightness[CHOOSE d \in Displays : d # caller.display] IN
       caller' = IF level > 0 THEN At("write", caller.display, TRUE, level) ELSE Idle
    /\ UNCHANGED <<power_on, brightness, generation, thread_run, threads, created,
                   calls, real_on, backlight, last_on, shown, failed>>

\* After ON: read the cached level of this endpoint, restore it when it is set.
RestoreBrightness ==
    /\ caller.pc = "restore"
    /\ LET level == brightness[caller.display] IN
       caller' = IF level > 0 THEN At("write", caller.display, TRUE, level) ELSE Idle
    /\ UNCHANGED <<power_on, brightness, generation, thread_run, threads, created,
                   calls, real_on, backlight, last_on, shown, failed>>

\* SetDisplayBrightness up to the write: level 0 of an outgoing endpoint and a
\* bad argument leave everything alone; a level for an endpoint that is not
\* powered is only cached.
SetDisplayBrightness(d, b) ==
    /\ caller.pc = "idle"
    /\ calls < MaxCalls
    /\ calls' = calls + 1
    /\ LET level == BrightnessToLevel(b) IN
       IF level <= 0
       THEN UNCHANGED <<brightness, caller, shown>>
       ELSE /\ brightness' = [brightness EXCEPT ![d] = level]
            /\ caller' = IF power_on[d] THEN At("write", d, TRUE, level) ELSE Idle
            /\ shown' = IF power_on[d] THEN d ELSE shown
    /\ UNCHANGED <<power_on, generation, thread_run, threads, created, real_on,
                   backlight, last_on, failed>>

\* WritePrimaryBacklightLevel(level), the last step of both calls.
WritePrimaryBacklightLevel ==
    /\ caller.pc = "write"
    /\ \/ backlight' = caller.level /\ UNCHANGED failed
       \/ WriteMayFail /\ failed' = TRUE /\ UNCHANGED backlight
    /\ caller' = Idle
    /\ UNCHANGED <<power_on, brightness, generation, thread_run, threads, created,
                   calls, real_on, last_on, shown>>

\* HwcClose: stop the deferred thread, bump the generation, join, delete.
HwcClose ==
    /\ caller.pc = "idle"
    /\ thread_run' = FALSE
    /\ caller' = At("closeBump", NoDisplay, FALSE, -1)
    /\ UNCHANGED <<power_on, brightness, generation, threads, created, calls,
                   real_on, backlight, last_on, shown, failed>>

CloseBump ==
    /\ caller.pc = "closeBump"
    /\ generation' = generation + 1
    /\ caller' = [caller EXCEPT !.pc = "join"]
    /\ UNCHANGED <<power_on, brightness, thread_run, threads, created, calls,
                   real_on, backlight, last_on, shown, failed>>

\* Mutant: the device is deleted without joining the deferred thread.
JoinThreadNot ==
    /\ caller.pc = "join"
    /\ caller' = [caller EXCEPT !.pc = "closed"]
    /\ UNCHANGED <<power_on, brightness, generation, thread_run, threads, created,
                   calls, real_on, backlight, last_on, shown, failed>>

\* pthread_join on shared_power_off_thread, the handle of the newest thread.
JoinThread ==
    /\ caller.pc = "join"
    /\ ~ \E t \in threads : t.id = created - 1
    /\ caller' = [caller EXCEPT !.pc = "closed"]
    /\ UNCHANGED <<power_on, brightness, generation, thread_run, threads, created,
                   calls, real_on, backlight, last_on, shown, failed>>
-----------------------------------------------------------------------------
(* A deferred power-off thread: SharedPowerOffThreadMain. *)

Move(t, pc) == threads' = (threads \ {t}) \cup {[t EXCEPT !.pc = pc]}

UnchangedByThread == UNCHANGED <<power_on, brightness, generation, created,
                                 caller, calls, last_on, shown>>

LoadGeneration(t) ==
    /\ t.pc = "load"
    /\ threads' = (threads \ {t}) \cup {[t EXCEPT !.pc = "sleep", !.gen = generation]}
    /\ UnchangedByThread
    /\ UNCHANGED <<thread_run, real_on, backlight, failed>>

\* usleep(1000 * 1000): the grace interval.
GraceSleep(t) ==
    /\ t.pc = "sleep"
    /\ Move(t, "run")
    /\ UnchangedByThread
    /\ UNCHANGED <<thread_run, real_on, backlight, failed>>

\* Mutant: the run flag only counts once fb0 is off, so HwcClose is ignored.
TestRunIgnored(t) ==
    /\ t.pc = "run"
    /\ Move(t, IF thread_run \/ real_on THEN "load" ELSE "clear")
    /\ UnchangedByThread
    /\ UNCHANGED <<thread_run, real_on, backlight, failed>>

TestRun(t) ==
    /\ t.pc = "run"
    /\ Move(t, IF thread_run THEN "cmp" ELSE "clear")
    /\ UnchangedByThread
    /\ UNCHANGED <<thread_run, real_on, backlight, failed>>

\* Mutant: a moved generation ends the thread instead of another sleep.
CompareGenerationOnce(t) ==
    /\ t.pc = "cmp"
    /\ Move(t, IF t.gen # generation THEN "clear" ELSE "small")
    /\ UnchangedByThread
    /\ UNCHANGED <<thread_run, real_on, backlight, failed>>

\* A generation that moved during the sleep starts another grace interval.
CompareGeneration(t) ==
    /\ t.pc = "cmp"
    /\ Move(t, IF t.gen # generation THEN "load" ELSE "small")
    /\ UnchangedByThread
    /\ UNCHANGED <<thread_run, real_on, backlight, failed>>

\* !small_power_on && !wide_power_on, read one after the other.
ReadSmall(t) ==
    /\ t.pc = "small"
    /\ Move(t, IF power_on["small"] THEN "clear" ELSE "wide")
    /\ UnchangedByThread
    /\ UNCHANGED <<thread_run, real_on, backlight, failed>>

ReadWide(t) ==
    /\ t.pc = "wide"
    /\ Move(t, IF power_on["wide"] THEN "clear" ELSE "off")
    /\ UnchangedByThread
    /\ UNCHANGED <<thread_run, real_on, backlight, failed>>

\* The physical OFF.  CAF zeroes both panel backlights; its result is ignored.
ForwardOff(t) ==
    /\ t.pc = "off"
    /\ Move(t, "clear")
    /\ \/ real_on' = FALSE /\ backlight' = 0 /\ UNCHANGED failed
       \/ CafMayFail /\ failed' = TRUE /\ UNCHANGED <<real_on, backlight>>
    /\ UnchangedByThread
    /\ UNCHANGED thread_run

\* shared_power_off_thread_run.store(false), then the thread returns.
ExitThread(t) ==
    /\ t.pc = "clear"
    /\ thread_run' = FALSE
    /\ threads' = threads \ {t}
    /\ UnchangedByThread
    /\ UNCHANGED <<real_on, backlight, failed>>
-----------------------------------------------------------------------------
CallerStep ==
    \/ BumpGeneration \/ CheckBothOff \/ ScheduleSharedPowerOff \/ ClaimThread
    \/ CreateThread \/ ForwardOn \/ RestoreBrightness \/ WritePrimaryBacklightLevel
    \/ CloseBump \/ JoinThread

StartCall ==
    \/ \E d \in Displays, on \in BOOLEAN : SetPowerMode(d, on)
    \/ \E d \in Displays, b \in Brightness : SetDisplayBrightness(d, b)
    \/ HwcClose

ThreadStep(t) ==
    \/ LoadGeneration(t) \/ GraceSleep(t) \/ TestRun(t) \/ CompareGeneration(t)
    \/ ReadSmall(t) \/ ReadWide(t) \/ ForwardOff(t) \/ ExitThread(t)

SomeThreadStep == \E t \in threads : ThreadStep(t)

Next == StartCall \/ CallerStep \/ SomeThreadStep

Spec == Init /\ [][Next]_vars

\* The scheduler runs every thread that is not blocked; no fairness is asked of
\* the framework, which may stop calling at any time.
FairSpec == Spec /\ WF_vars(CallerStep) /\ WF_vars(SomeThreadStep)
-----------------------------------------------------------------------------
(* Properties. *)

Closing == caller.pc \in {"closeBump", "join", "closed"}

Thread == [id : Nat, pc : ThreadPC, gen : Nat]
Caller == [pc : CallerPC, display : Displays \cup {NoDisplay}, on : BOOLEAN,
           level : -1..255]

TypeOK ==
    /\ power_on \in [Displays -> BOOLEAN]
    /\ brightness \in [Displays -> {-1} \cup 1..255]
    /\ generation \in Nat
    /\ thread_run \in BOOLEAN
    /\ threads \subseteq Thread
    /\ created \in Nat
    /\ caller \in Caller
    /\ calls \in Nat
    /\ real_on \in BOOLEAN
    /\ backlight \in 0..255
    /\ last_on \in Displays
    /\ shown \in Displays
    /\ failed \in BOOLEAN

\* What the caller carries from one step to the next.
CallerArgs ==
    /\ caller.pc \in {"bump", "check", "schedule", "cas", "create", "realOn",
                      "restore", "write"} => caller.display \in Displays
    /\ caller.pc = "write" => caller.level \in 1..255

IndTypes == TypeOK /\ CallerArgs

\* The run flag admits one deferred thread at a time: no two threads can race
\* each other to power fb0 down (compare_exchange_strong in
\* ScheduleSharedPowerOff against the store in SharedPowerOffThreadMain).
AtMostOneThread == \A s, t \in threads : s = t

\* A physical OFF can reach a powered endpoint only through a SetPowerMode that
\* began after the thread compared the generation: while the generation is the
\* one the thread slept on and no SetPowerMode is between its store and its
\* bump, both endpoints are still off.
OffWindow ==
    \A t \in threads :
        (t.pc = "off" /\ t.gen = generation /\ caller.pc # "bump") => BothOff

\* HwcClose deletes the Device only after the thread that reads it has left.
NoThreadOutlivesDevice == caller.pc = "closed" => threads = {}

\* Brightness over handoffs.  Between calls, and as long as the composer and the
\* backlight node accepted what they were asked, a lit fb0 is not left dark under
\* the endpoint that was switched on last and has a remembered brightness; and it
\* shows the very level remembered for the endpoint that claimed the glass last,
\* by being switched on or by a level of its own, as long as that is powered.
NeverLeftDark ==
    (caller.pc = "idle" /\ ~failed /\ real_on) =>
        /\ (power_on[last_on] /\ brightness[last_on] > 0) => backlight > 0
        /\ (power_on[shown] /\ brightness[shown] > 0) => backlight = brightness[shown]

\* Why those hold.  A live thread keeps the run flag set until it leaves, except
\* that HwcClose clears it under the thread.
FlagCoversThread == threads # {} => thread_run \/ Closing

\* Between the exchange and pthread_create the flag alone holds the claim.
ClaimIsExclusive == caller.pc = "create" => threads = {} /\ thread_run

\* The pthread handle HwcClose joins is the one of the live thread.
HandleIsNewest == \A t \in threads : t.id = created - 1

SleptOnPast == \A t \in threads : t.gen <= generation

\* Half of the guard: Small was off when the thread read it.
SmallStillOff ==
    \A t \in threads :
        (t.pc = "wide" /\ t.gen = generation /\ caller.pc # "bump")
            => ~power_on["small"]

\* The inductive invariant behind the safety theorem.
IInv ==
    /\ IndTypes
    /\ AtMostOneThread /\ FlagCoversThread /\ ClaimIsExclusive /\ HandleIsNewest
    /\ NoThreadOutlivesDevice
    /\ SleptOnPast /\ SmallStillOff /\ OffWindow

\* A screen-off whose request the running thread can still see is carried out:
\* fb0 goes off, unless an endpoint is powered again, the device is closed or the
\* composer refuses.
\* (The compare against a moved generation must lead to another sleep, not out.)
ScheduledOffHappens ==
    (caller.pc = "idle" /\ BothOff
        /\ \E t \in threads : t.pc \in {"load", "sleep", "run", "cmp"})
      ~> (~real_on \/ ~BothOff \/ Closing \/ failed)

\* hwc2_fujisan.cpp:1783-1784, "an actual screen-off remains OFF after the grace
\* interval": with both endpoints off, fb0 goes off in the end.
ScreenOffHappens ==
    (caller.pc = "idle" /\ BothOff) ~> (~real_on \/ ~BothOff \/ Closing \/ failed)

\* HwcClose returns: its join always finds the thread on its way out.
CloseReturns == (caller.pc = "closeBump") ~> (caller.pc = "closed")

\* hwc2_fujisan.cpp:1824-1826, "forward OFF only when neither endpoint remains
\* powered": no physical OFF while an endpoint is powered.
OffOnlyWhenUnpowered == [][(real_on /\ ~real_on') => BothOff]_vars
=============================================================================
