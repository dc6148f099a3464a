------------------------------ MODULE HwcRoute ------------------------------
(***************************************************************************)
(* The frame path of the Fujisan HWC2 wrapper (hwc2_fujisan.cpp): client   *)
(* targets, the Wide route on fb0 and the drain that must precede a Small  *)
(* frame, with every descriptor the path owns.                             *)
(*                                                                         *)
(* SurfaceFlinger issues one call at a time, so a call is one step; the    *)
(* kernel runs beside it and completes Wide transactions in the order of   *)
(* their timeline.  sync_wait is a step that finds the fence signalled, or *)
(* gives up after its second.  active_config is left out: every writer     *)
(* stores the endpoint's only configuration and nothing reads it.          *)
(***************************************************************************)
EXTENDS Naturals, FiniteSets

CONSTANTS MaxCalls,       \* bound on HWC2 calls
          DrainMayFail,   \* a fence may outlast sync_wait's second
          SubmitMayFail,  \* open or the atomic commit may fail
          DupMayFail      \* the new fence may not be duplicated, or be missing

ASSUME RouteBounds == MaxCalls \in Nat
ASSUME RouteFaults == {DrainMayFail, SubmitMayFail, DupMayFail} \subseteq BOOLEAN

Displays == {"small", "wide"}

VARIABLES
    target,     \* client_target of each endpoint: none, its geometry, or another
    acquire,    \* client_acquire_fence of each endpoint, 0 for -1
    wide_open,  \* wide_fd is open
    wide_route_active,
    wide_drain_fence,  \* the transaction it completes with, 0 for -1
    fds,        \* external: the descriptors the process has open on this path
    next_fd,    \* the number of the next acquire fence
    submitted,  \* external: Wide transactions committed so far
    done,       \* external: Wide transactions completed so far
    singles,    \* external: single-panel frames committed so far
    calls,      \* calls made so far
    closed,     \* HwcClose has returned
    orphans,    \* history: Wide transactions whose fence could not be kept
    refused     \* history: acquire fences a failed SetClientTarget was given

vars == <<target, acquire, wide_open, wide_route_active, wide_drain_fence, fds,
          next_fd, submitted, done, singles, calls, closed, orphans, refused>>

AcquireFd(n) == <<"acquire", n>>
DrainFd(n) == <<"drain", n>>
Fb0Fd == <<"fb0", 0>>

Init ==
    /\ target = [d \in Displays |-> "none"]
    /\ acquire = [d \in Displays |-> 0]
    /\ wide_open = FALSE
    /\ wide_route_active = FALSE
    /\ wide_drain_fence = 0
    /\ fds = {}
    /\ next_fd = 1
    /\ submitted = 0
    /\ done = 0
    /\ singles = 0
    /\ calls = 0
    /\ closed = FALSE
    /\ orphans = {} /\ refused = {}

Call == ~closed /\ calls < MaxCalls /\ calls' = calls + 1 /\ UNCHANGED closed

\* External: the kernel completes transactions in timeline order.
KernelCompletes ==
    /\ done < submitted
    /\ done' \in (done + 1)..submitted
    /\ UNCHANGED <<target, acquire, wide_open, wide_route_active, wide_drain_fence, fds,
                   next_fd, submitted, singles, calls, closed, orphans, refused>>
-----------------------------------------------------------------------------
(* DrainWideRoute. *)

\* Mutant: the route counts as drained when the fence is merely there.
DrainSucceedsUnwaited == ~wide_route_active \/ wide_drain_fence # 0

DrainSucceeds == ~wide_route_active \/ (wide_drain_fence # 0 /\ done >= wide_drain_fence)

DrainFails ==
    /\ wide_route_active
    /\ wide_drain_fence = 0 \/ (DrainMayFail /\ done < wide_drain_fence)

\* Mutant: the route flag stays set when the framebuffer is closed.
CloseWideFramebufferFlagKept(closes) ==
    /\ fds' = fds \ (closes \cup {DrainFd(wide_drain_fence), Fb0Fd})
    /\ wide_drain_fence' = 0
    /\ wide_open' = FALSE
    /\ UNCHANGED wide_route_active

\* CloseWideFramebuffer, together with other descriptors the call closes.
CloseWideFramebuffer(closes) ==
    /\ fds' = fds \ (closes \cup {DrainFd(wide_drain_fence), Fb0Fd})
    /\ wide_drain_fence' = 0
    /\ wide_route_active' = FALSE
    /\ wide_open' = FALSE

\* The state after a successful drain: the route is closed if it was active.
Drained(closes) ==
    IF wide_route_active THEN CloseWideFramebuffer(closes)
    ELSE fds' = fds \ closes /\ UNCHANGED <<wide_drain_fence, wide_route_active, wide_open>>
-----------------------------------------------------------------------------
(* The calls. *)

\* SetClientTarget; on a failed drain the new fence is neither kept nor closed.
SetClientTarget(d, geometry, fenced) ==
    LET n == IF fenced THEN next_fd ELSE 0
        received == IF fenced THEN {AcquireFd(n)} ELSE {}
    IN  /\ Call
        /\ next_fd' = next_fd + 1
        /\ \/ /\ d = "wide" \/ DrainSucceeds
              /\ target' = [target EXCEPT ![d] = geometry]
              /\ acquire' = [acquire EXCEPT ![d] = n]
              /\ UNCHANGED refused
              /\ LET old == {AcquireFd(acquire[d])}
                     drain == d = "small" /\ wide_route_active
                 IN  /\ fds' = (fds \ (old \cup (IF drain THEN {DrainFd(wide_drain_fence), Fb0Fd}
                                                         ELSE {}))) \cup received
                     /\ wide_drain_fence' = IF drain THEN 0 ELSE wide_drain_fence
                     /\ wide_route_active' = (wide_route_active /\ ~drain)
                     /\ wide_open' = (wide_open /\ ~drain)
           \/ /\ d = "small" /\ DrainFails
              /\ fds' = fds \cup received
              /\ refused' = refused \cup received
              /\ UNCHANGED <<target, acquire, wide_drain_fence, wide_route_active, wide_open>>
        /\ UNCHANGED <<submitted, done, singles, orphans>>

\* SetActiveConfig and SetActiveConfigWithConstraints with the endpoint's own
\* configuration: Small drains the Wide route, Wide changes nothing here.
SetActiveConfig(d) ==
    /\ Call
    /\ \/ d = "small" /\ DrainSucceeds /\ Drained({})
       \/ /\ d = "wide" \/ DrainFails
          /\ UNCHANGED <<fds, wide_drain_fence, wide_route_active, wide_open>>
    /\ UNCHANGED <<target, acquire, next_fd, submitted, done, singles, orphans, refused>>

\* PresentDisplay hands the acquire fence out of the endpoint first; every path
\* closes it, the commit included.
TakeFence(d) == acquire' = [acquire EXCEPT ![d] = 0]
Taken(d) == {AcquireFd(acquire[d])}

\* No client target yet, or an interim one of another geometry.
Skips(d) == target[d] # d

PresentNothing(d) ==
    /\ Call /\ Skips(d)
    /\ \/ d = "wide" /\ fds' = fds \ Taken(d)
                     /\ UNCHANGED <<wide_drain_fence, wide_route_active, wide_open>>
       \/ d = "small" /\ DrainSucceeds /\ Drained(Taken(d))
    /\ TakeFence(d)
    /\ UNCHANGED <<target, next_fd, submitted, done, singles, orphans, refused>>

\* A Small frame that finds the Wide route undrained is dropped.
PresentUndrained ==
    /\ Call /\ DrainFails
    /\ TakeFence("small")
    /\ fds' = fds \ Taken("small")
    /\ UNCHANGED <<target, wide_open, wide_route_active, wide_drain_fence, next_fd,
                   submitted, done, singles, orphans, refused>>

\* PresentDisplay on Small: drain, then SubmitSingleClientTarget, which reopens
\* fb0 when the drain closed it.
PresentSmall ==
    /\ Call /\ ~Skips("small") /\ DrainSucceeds
    /\ TakeFence("small")
    /\ \/ /\ singles' = singles + 1
          /\ fds' = (fds \ (Taken("small") \cup {DrainFd(wide_drain_fence)})) \cup {Fb0Fd}
          /\ wide_open' = TRUE
       \/ /\ SubmitMayFail
          /\ UNCHANGED singles
          /\ \/ /\ fds' = fds \ (Taken("small") \cup {DrainFd(wide_drain_fence)}
                                     \cup (IF wide_route_active THEN {Fb0Fd} ELSE {}))
                /\ wide_open' = (wide_open /\ ~wide_route_active)
             \/ /\ fds' = (fds \ (Taken("small") \cup {DrainFd(wide_drain_fence)}))
                             \cup {Fb0Fd}
                /\ wide_open' = TRUE
    /\ wide_drain_fence' = 0
    /\ wide_route_active' = FALSE
    /\ UNCHANGED <<target, next_fd, submitted, done, orphans, refused>>

\* Mutant: the fence that the new one replaces is not closed.
PresentWideFenceLeaked ==
    /\ Call /\ ~Skips("wide")
    /\ TakeFence("wide")
    /\ submitted' = submitted + 1
    /\ wide_open' = TRUE
    /\ fds' = (fds \ Taken("wide")) \cup {Fb0Fd, DrainFd(submitted + 1)}
    /\ wide_drain_fence' = submitted + 1
    /\ wide_route_active' = TRUE
    /\ UNCHANGED <<target, next_fd, done, singles, orphans, refused>>

\* PresentDisplay on Wide: SubmitWideClientTarget.  A commit whose fence cannot be
\* retained is in flight all the same.
PresentWide ==
    /\ Call /\ ~Skips("wide")
    /\ TakeFence("wide")
    /\ \/ /\ submitted' = submitted + 1
          /\ wide_open' = TRUE
          /\ \/ /\ fds' = (fds \ (Taken("wide") \cup {DrainFd(wide_drain_fence)}))
                             \cup {Fb0Fd, DrainFd(submitted + 1)}
                /\ wide_drain_fence' = submitted + 1
                /\ wide_route_active' = TRUE
                /\ UNCHANGED orphans
             \/ /\ DupMayFail
                /\ orphans' = orphans \cup {submitted + 1}
                /\ fds' = (fds \ Taken("wide")) \cup {Fb0Fd}
                /\ UNCHANGED <<wide_drain_fence, wide_route_active>>
       \/ /\ SubmitMayFail
          /\ \/ fds' = fds \ Taken("wide") /\ UNCHANGED wide_open
             \/ fds' = (fds \ Taken("wide")) \cup {Fb0Fd} /\ wide_open' = TRUE
          /\ UNCHANGED <<submitted, wide_drain_fence, wide_route_active, orphans>>
    /\ UNCHANGED <<target, next_fd, done, singles, refused>>

\* HwcClose, as far as this path goes.
HwcClose ==
    /\ ~closed
    /\ closed' = TRUE
    /\ CloseWideFramebuffer({AcquireFd(acquire[d]) : d \in Displays})
    /\ acquire' = [d \in Displays |-> 0]
    /\ UNCHANGED <<target, next_fd, submitted, done, singles, calls, orphans, refused>>
-----------------------------------------------------------------------------
Next ==
    \/ KernelCompletes
    \/ \E d \in Displays, g \in Displays, fenced \in BOOLEAN : SetClientTarget(d, g, fenced)
    \/ \E d \in Displays : SetActiveConfig(d) \/ PresentNothing(d)
    \/ PresentUndrained \/ PresentSmall \/ PresentWide
    \/ HwcClose

Spec == Init /\ [][Next]_vars
-----------------------------------------------------------------------------
(* Properties. *)

TypeOK ==
    /\ target \in [Displays -> {"none"} \cup Displays]
    /\ acquire \in [Displays -> Nat]
    /\ wide_open \in BOOLEAN /\ wide_route_active \in BOOLEAN
    /\ wide_drain_fence \in 0..submitted
    /\ fds \subseteq ({"acquire", "drain", "fb0"} \X Nat)
    /\ next_fd \in Nat \ {0}
    /\ submitted \in Nat /\ done \in 0..submitted /\ singles \in Nat
    /\ calls \in 0..MaxCalls /\ closed \in BOOLEAN
    /\ orphans \subseteq 1..submitted /\ refused \subseteq fds

\* An active Wide route always has the fence of its newest transaction, so the
\* "no merged completion fence" failure of DrainWideRoute, which would refuse
\* every later Small frame, cannot happen.
RouteIsDrainable ==
    wide_route_active <=> wide_drain_fence # 0

\* The wrapper implements Fb0Transactions: no Small frame is committed while a
\* Wide transaction whose fence the wrapper holds is in flight ("CAF must not
\* reclaim fb0 until that transaction ends").  An orphan, whose fence was missing
\* or could not be duplicated, is beyond what DrainWideRoute can wait for.
InFlight == ((done + 1)..submitted) \ orphans
Fb0 == INSTANCE Fb0Transactions WITH wide <- InFlight, single <- singles
ImplementsFb0 == Fb0!Spec

\* Every descriptor that is open is one the device still refers to: no path of
\* the frame loses an acquire fence, a drain fence or fb0.  The fence given to a
\* SetClientTarget that could not drain is the one exception the code has.
FdsAccounted ==
    fds = refused \cup {AcquireFd(acquire[d]) : d \in {e \in Displays : acquire[e] # 0}}
            \cup {DrainFd(n) : n \in {wide_drain_fence} \ {0}}
            \cup (IF wide_open THEN {Fb0Fd} ELSE {})
=============================================================================
