--------------------------- MODULE HwcRouteProofs ---------------------------
(***************************************************************************)
(* Proofs about the frame path (HwcRoute): its type invariant, that an     *)
(* active Wide route can always be drained, that every descriptor is       *)
(* accounted for, and that the path implements Fb0Transactions.            *)
(***************************************************************************)
EXTENDS HwcRoute, TLAPS

\* The acquire fences the process was given are all different: none is younger
\* than next_fd, the endpoints never hold the same one, and a refused fence is
\* not one an endpoint holds.
FencesDistinct ==
    /\ \A d \in Displays : acquire[d] < next_fd
    /\ acquire["small"] = acquire["wide"] => acquire["small"] = 0
    /\ \A f \in refused : \E n \in 1..(next_fd - 1) : f = AcquireFd(n)
    /\ \A d \in Displays : AcquireFd(acquire[d]) \notin refused

\* While the device is open, a transaction that is neither done nor an orphan is
\* covered by the drain fence: waiting for it waits for every one of them.
FenceCovers ==
    ~closed => \A n \in 1..submitted : n \in orphans \/ n <= done \/ n <= wide_drain_fence

\* The type invariant but for the descriptors: what an endpoint holds, the flags
\* and the counters.
HeldTypes == target \in [Displays -> {"none"} \cup Displays] /\ acquire \in [Displays -> Nat]

FlagTypes == wide_open \in BOOLEAN /\ wide_route_active \in BOOLEAN /\ closed \in BOOLEAN

CounterTypes ==
    /\ next_fd \in Nat \ {0}
    /\ submitted \in Nat /\ done \in 0..submitted /\ singles \in Nat
    /\ wide_drain_fence \in 0..submitted
    /\ calls \in 0..MaxCalls
    /\ orphans \subseteq 1..submitted

PlainTypes == HeldTypes /\ FlagTypes /\ CounterTypes

IInv == TypeOK /\ RouteIsDrainable /\ FdsAccounted /\ FencesDistinct /\ FenceCovers
-----------------------------------------------------------------------------
(* The names of descriptors. *)

\* A descriptor's name tells its kind and, for a fence, its number.
LEMMA FdNames ==
    /\ \A m, n \in Nat : AcquireFd(m) = AcquireFd(n) => m = n
    /\ \A m, n \in Nat : DrainFd(m) = DrainFd(n) => m = n
    /\ \A m, n : AcquireFd(m) # DrainFd(n) /\ AcquireFd(m) # Fb0Fd /\ DrainFd(n) # Fb0Fd
    /\ \A n \in Nat : AcquireFd(n) \in {"acquire", "drain", "fb0"} \X Nat
    /\ \A n \in Nat : DrainFd(n) \in {"acquire", "drain", "fb0"} \X Nat
    /\ Fb0Fd \in {"acquire", "drain", "fb0"} \X Nat
  BY DEF AcquireFd, DrainFd, Fb0Fd

\* A descriptor the device refers to, by one of its four owners.
Owned(f) ==
    \/ f \in refused
    \/ \E d \in Displays : acquire[d] # 0 /\ f = AcquireFd(acquire[d])
    \/ wide_drain_fence # 0 /\ f = DrainFd(wide_drain_fence)
    \/ wide_open /\ f = Fb0Fd

\* FdsAccounted, one descriptor at a time.
LEMMA AccountedByMembers == FdsAccounted <=> \A f : f \in fds <=> Owned(f)
  <1>1. \A f : f \in {AcquireFd(acquire[d]) : d \in {e \in Displays : acquire[e] # 0}}
               <=> \E d \in Displays : acquire[d] # 0 /\ f = AcquireFd(acquire[d])
    OBVIOUS
  <1>2. \A f : f \in {DrainFd(n) : n \in {wide_drain_fence} \ {0}}
               <=> wide_drain_fence # 0 /\ f = DrainFd(wide_drain_fence)
    OBVIOUS
  <1>3. \A f : f \in (IF wide_open THEN {Fb0Fd} ELSE {}) <=> wide_open /\ f = Fb0Fd
    OBVIOUS
  <1> QED
    BY <1>1, <1>2, <1>3 DEF FdsAccounted, Owned

\* What is accounted for is a descriptor, and a refused fence stays open.
LEMMA TypedByOwners == PlainTypes /\ FdsAccounted /\ FencesDistinct => TypeOK
  <1> DEFINE Kinds == {"acquire", "drain", "fb0"} \X Nat
  <1> SUFFICES ASSUME PlainTypes, FdsAccounted, FencesDistinct
               PROVE  refused \subseteq fds /\ fds \subseteq Kinds
    BY DEF PlainTypes, HeldTypes, FlagTypes, CounterTypes, TypeOK
  <1> USE DEF PlainTypes, HeldTypes, CounterTypes
  <1>1. \A f : f \in fds <=> Owned(f)
    BY AccountedByMembers
  <1>2. \A f \in refused : f \in Kinds
    BY FdNames DEF FencesDistinct
  <1>3. \A d \in Displays : AcquireFd(acquire[d]) \in Kinds
    BY FdNames
  <1>4. wide_drain_fence \in Nat /\ Fb0Fd \in Kinds
    BY FdNames
  <1>5. DrainFd(wide_drain_fence) \in Kinds
    BY <1>4, FdNames
  <1> HIDE DEF Kinds
  <1> QED
    BY <1>1, <1>2, <1>3, <1>4, <1>5 DEF Owned

\* Both facts in the state after a step: the types,
LEMMA TypedByOwnersNext == PlainTypes' /\ FdsAccounted' /\ FencesDistinct' => TypeOK'
  BY TypedByOwners, PTL

\* and the accounting of descriptors.
LEMMA AccountedByMembersNext == FdsAccounted' <=> (\A f : f \in fds <=> Owned(f))'
  BY AccountedByMembers, PTL
-----------------------------------------------------------------------------
(* The invariant holds initially, and every step keeps it. *)

\* The frame path starts with nothing open and nothing submitted.
LEMMA InitIInv == Init => IInv
  <1> SUFFICES ASSUME Init PROVE IInv
    OBVIOUS
  <1>1. HeldTypes
    BY DEF Init, HeldTypes
  <1>2. FlagTypes
    BY DEF Init, FlagTypes
  <1>3. CounterTypes
    BY RouteBounds DEF Init, CounterTypes
  <1>4. RouteIsDrainable /\ FencesDistinct /\ FenceCovers
    BY DEF Init, RouteIsDrainable, FencesDistinct, FenceCovers, Displays
  <1>5. FdsAccounted
    BY AccountedByMembers DEF Init, Owned, Displays
  <1> QED
    BY <1>1, <1>2, <1>3, <1>4, <1>5, TypedByOwners DEF IInv, PlainTypes

\* The kernel's own step moves the timeline only.
LEMMA KernelKeeps == IInv /\ KernelCompletes => IInv'
  <1> SUFFICES ASSUME IInv, KernelCompletes PROVE IInv'
    OBVIOUS
  <1>1. PlainTypes'
    BY DEF IInv, TypeOK, KernelCompletes, PlainTypes, HeldTypes, FlagTypes, CounterTypes
  <1>2. RouteIsDrainable' /\ FencesDistinct' /\ FdsAccounted'
    BY DEF IInv, KernelCompletes, RouteIsDrainable, FencesDistinct, FdsAccounted
  <1>3. FenceCovers'
    BY DEF IInv, TypeOK, KernelCompletes, FenceCovers
  <1> QED
    BY <1>1, <1>2, <1>3, TypedByOwnersNext DEF IInv

\* The parts of the invariant make the invariant of the next state.
LEMMA Conjoined ==
    /\ HeldTypes' /\ FlagTypes' /\ CounterTypes'
    /\ FenceCovers' /\ RouteIsDrainable' /\ FencesDistinct'
    /\ (\A f : f \in fds <=> Owned(f))'
    => IInv'
  BY TypedByOwnersNext, AccountedByMembersNext DEF IInv, PlainTypes

\* What the invariant says of the two endpoints' fences and of each descriptor.
LEMMA HeldFacts ==
    IInv => /\ acquire["small"] \in Nat /\ acquire["wide"] \in Nat
            /\ wide_drain_fence \in Nat
            /\ AcquireFd(acquire["small"]) \notin refused
            /\ AcquireFd(acquire["wide"]) \notin refused
            /\ AcquireFd(acquire["small"]) = AcquireFd(acquire["wide"])
               => acquire["small"] = 0
            /\ \A f \in refused : f # Fb0Fd /\ (\A n : f # DrainFd(n))
            /\ \A f \in refused : f # AcquireFd(0) /\ f # AcquireFd(next_fd)
            /\ \A f : f \in fds <=>
                   \/ f \in refused
                   \/ acquire["small"] # 0 /\ f = AcquireFd(acquire["small"])
                   \/ acquire["wide"] # 0 /\ f = AcquireFd(acquire["wide"])
                   \/ wide_drain_fence # 0 /\ f = DrainFd(wide_drain_fence)
                   \/ wide_open /\ f = Fb0Fd
  <1> SUFFICES ASSUME IInv PROVE HeldFacts!2
    OBVIOUS
  <1>1. acquire["small"] \in Nat /\ acquire["wide"] \in Nat /\ wide_drain_fence \in Nat
    BY DEF IInv, TypeOK, Displays
  <1>2. \A d \in Displays : AcquireFd(acquire[d]) \notin refused
    BY DEF IInv, FencesDistinct
  <1>3. AcquireFd(acquire["small"]) = AcquireFd(acquire["wide"]) => acquire["small"] = 0
    BY <1>1, FdNames DEF IInv, FencesDistinct
  <1>4. ASSUME NEW f \in refused
        PROVE  /\ f # Fb0Fd /\ \A n : f # DrainFd(n)
               /\ f # AcquireFd(0) /\ f # AcquireFd(next_fd)
    <2>1. PICK n \in 1..(next_fd - 1) : f = AcquireFd(n)
      BY DEF IInv, FencesDistinct
    <2>2. n \in Nat /\ next_fd \in Nat /\ n # 0 /\ n # next_fd
      BY DEF IInv, TypeOK
    <2> QED
      BY <2>1, <2>2, FdNames
  <1>5. \A f : f \in fds <=> Owned(f)
    BY AccountedByMembers DEF IInv
  <1> QED
    BY <1>1, <1>2, <1>3, <1>4, <1>5 DEF Owned, Displays

\* SetClientTarget: a new fence comes in, the old one or the refused one is kept
\* account of, and Small may close the drained route.
LEMMA SetClientTargetKeeps ==
    ASSUME NEW d \in Displays, NEW g \in Displays, NEW fenced \in BOOLEAN,
           IInv, SetClientTarget(d, g, fenced)
    PROVE  IInv'
  <1> DEFINE n == IF fenced THEN next_fd ELSE 0
  <1> DEFINE received == IF fenced THEN {AcquireFd(n)} ELSE {}
  <1> DEFINE drain == d = "small" /\ wide_route_active
  <1> DEFINE closing == IF drain THEN {DrainFd(wide_drain_fence), Fb0Fd} ELSE {}
  <1>1. HeldTypes'
    BY DEF IInv, TypeOK, SetClientTarget, HeldTypes
  <1>2. FlagTypes'
    BY DEF IInv, TypeOK, SetClientTarget, Call, FlagTypes
  <1>3. CounterTypes'
    BY RouteBounds DEF IInv, TypeOK, SetClientTarget, Call, CounterTypes
  <1>4. FenceCovers'
    BY DEF IInv, TypeOK, SetClientTarget, Call, DrainSucceeds, FenceCovers, RouteIsDrainable
  <1>5. n \in Nat /\ n < next_fd + 1 /\ AcquireFd(n) \notin refused
        /\ \A e \in Displays : n = acquire[e] => n = 0
    BY HeldFacts DEF IInv, TypeOK, FencesDistinct
  <1>6. next_fd \in Nat /\ next_fd' = next_fd + 1
    BY DEF IInv, TypeOK, SetClientTarget
  <1>7. CASE /\ acquire' = [acquire EXCEPT ![d] = n]
             /\ refused' = refused
             /\ fds' = (fds \ ({AcquireFd(acquire[d])} \cup closing)) \cup received
             /\ wide_drain_fence' = IF drain THEN 0 ELSE wide_drain_fence
             /\ wide_route_active' = (wide_route_active /\ ~drain)
             /\ wide_open' = (wide_open /\ ~drain)
    <2>1. RouteIsDrainable'
      BY <1>7 DEF IInv, TypeOK, RouteIsDrainable
    <2>2. FencesDistinct'
      BY <1>5, <1>6, <1>7 DEF IInv, TypeOK, FencesDistinct, Displays
    <2>3. (\A f : f \in fds <=> Owned(f))'
      <3>1. ASSUME NEW f PROVE (f \in fds <=> Owned(f))'
        <4>1. CASE d = "wide"
          BY <4>1, <1>5, <1>7, HeldFacts, FdNames, ZenonT(60) DEF Owned, Displays, IInv, TypeOK
        <4>2. CASE d = "small"
          BY <4>2, <1>5, <1>7, HeldFacts, FdNames, ZenonT(60) DEF Owned, Displays, IInv, TypeOK
        <4> QED
          BY <4>1, <4>2 DEF Displays
      <3> QED
        BY <3>1
    <2> QED
      BY <1>1, <1>2, <1>3, <1>4, <2>1, <2>2, <2>3, Conjoined
  <1>8. CASE /\ fds' = fds \cup received
             /\ refused' = refused \cup received
             /\ UNCHANGED <<target, acquire, wide_drain_fence, wide_route_active, wide_open>>
    <2>1. RouteIsDrainable'
      BY <1>8 DEF IInv, RouteIsDrainable
    <2>2. FencesDistinct'
      <3>1. \A f \in received : fenced /\ f = AcquireFd(next_fd)
        OBVIOUS
      <3>2. next_fd \in 1..(next_fd' - 1)
        BY <1>6 DEF IInv, TypeOK
      <3>3. \A f \in refused' : \E m \in 1..(next_fd' - 1) : f = AcquireFd(m)
        BY <1>6, <1>8, <3>1, <3>2 DEF IInv, FencesDistinct
      <3>4. \A e \in Displays : AcquireFd(acquire[e]) # AcquireFd(next_fd)
        BY FdNames DEF IInv, TypeOK, FencesDistinct
      <3>5. \A e \in Displays : acquire[e] < next_fd'
        BY <1>6 DEF IInv, TypeOK, FencesDistinct
      <3> QED
        BY <1>8, <3>1, <3>3, <3>4, <3>5 DEF IInv, FencesDistinct
    <2>3. (\A f : f \in fds <=> Owned(f))'
      BY <1>8, AccountedByMembers DEF IInv, Owned
    <2> QED
      BY <1>1, <1>2, <1>3, <1>4, <2>1, <2>2, <2>3, Conjoined
  <1> QED
    BY <1>7, <1>8 DEF SetClientTarget

\* A call that takes an endpoint's acquire fence, or leaves both, keeps the
\* fences apart.
LEMMA TakenApart ==
    ASSUME IInv, NEW d \in Displays,
           acquire' = acquire \/ TakeFence(d), UNCHANGED <<next_fd, refused>>
    PROVE  FencesDistinct' /\ acquire' \in [Displays -> Nat]
  BY HeldFacts DEF IInv, TypeOK, FencesDistinct, TakeFence, Displays

\* SetActiveConfig: no more than the drain on Small.
LEMMA SetActiveConfigKeeps ==
    ASSUME NEW d \in Displays, IInv, SetActiveConfig(d) PROVE IInv'
  <1>1. HeldTypes'
    BY DEF IInv, TypeOK, SetActiveConfig, HeldTypes
  <1>2. FlagTypes'
    BY DEF IInv, TypeOK, SetActiveConfig, Call, Drained, CloseWideFramebuffer, FlagTypes
  <1>3. CounterTypes'
    BY RouteBounds
    DEF IInv, TypeOK, SetActiveConfig, Call, Drained, CloseWideFramebuffer, CounterTypes
  <1>4. FenceCovers'
    BY DEF IInv, TypeOK, SetActiveConfig, Call, DrainSucceeds, Drained, CloseWideFramebuffer,
           FenceCovers
  <1>5. RouteIsDrainable'
    BY DEF IInv, SetActiveConfig, Drained, CloseWideFramebuffer, RouteIsDrainable
  <1>6. FencesDistinct'
    BY TakenApart DEF SetActiveConfig
  <1>7. ASSUME NEW f PROVE (f \in fds <=> Owned(f))'
    <2>1. CASE d = "small" /\ DrainSucceeds /\ Drained({}) /\ wide_route_active
      <3>1. /\ wide_drain_fence' = 0 /\ wide_open' = FALSE
            /\ fds' = fds \ {DrainFd(wide_drain_fence), Fb0Fd}
            /\ UNCHANGED <<acquire, refused>>
        BY <2>1 DEF SetActiveConfig, Drained, CloseWideFramebuffer
      <3> QED
        BY <3>1, HeldFacts, FdNames DEF Owned, Displays
    <2>2. CASE d = "small" /\ DrainSucceeds /\ Drained({}) /\ ~wide_route_active
      BY <2>2, AccountedByMembers DEF IInv, SetActiveConfig, Drained, Owned
    <2>3. CASE UNCHANGED <<fds, wide_drain_fence, wide_route_active, wide_open>>
      BY <2>3, AccountedByMembers DEF IInv, SetActiveConfig, Owned
    <2> QED
      BY <2>1, <2>2, <2>3 DEF SetActiveConfig
  <1> QED
    BY <1>1, <1>2, <1>3, <1>4, <1>5, <1>6, <1>7, Conjoined

\* PresentDisplay with nothing to show: the fence is closed, the route drained.
LEMMA PresentNothingKeeps ==
    ASSUME NEW d \in Displays, IInv, PresentNothing(d) PROVE IInv'
  <1>1. HeldTypes'
    BY TakenApart DEF IInv, TypeOK, PresentNothing, HeldTypes
  <1>2. FlagTypes'
    BY DEF IInv, TypeOK, PresentNothing, Call, Drained, CloseWideFramebuffer, FlagTypes
  <1>3. CounterTypes'
    BY RouteBounds
    DEF IInv, TypeOK, PresentNothing, Call, Drained, CloseWideFramebuffer, CounterTypes
  <1>4. FenceCovers'
    BY DEF IInv, TypeOK, PresentNothing, Call, DrainSucceeds, Drained, CloseWideFramebuffer,
           FenceCovers
  <1>5. RouteIsDrainable'
    BY DEF IInv, PresentNothing, Drained, CloseWideFramebuffer, RouteIsDrainable
  <1>6. FencesDistinct'
    BY TakenApart DEF PresentNothing
  <1>7. ASSUME NEW f PROVE (f \in fds <=> Owned(f))'
    <2>1. \A e \in Displays : acquire'[e] = IF e = d THEN 0 ELSE acquire[e]
      BY DEF IInv, TypeOK, PresentNothing, TakeFence
    <2>2. CASE d = "small" /\ DrainSucceeds /\ Drained(Taken(d)) /\ wide_route_active
      <3>1. /\ wide_drain_fence' = 0 /\ wide_open' = FALSE /\ UNCHANGED refused
            /\ fds' = fds \ {AcquireFd(acquire["small"]), DrainFd(wide_drain_fence), Fb0Fd}
        BY <2>2 DEF PresentNothing, Taken, Drained, CloseWideFramebuffer
      <3> QED
        BY <2>1, <2>2, <3>1, HeldFacts, FdNames DEF Owned, Displays
    <2>3. CASE d = "small" /\ DrainSucceeds /\ Drained(Taken(d)) /\ ~wide_route_active
      <3>1. /\ UNCHANGED <<wide_drain_fence, wide_open, refused>>
            /\ fds' = fds \ {AcquireFd(acquire["small"])}
        BY <2>3 DEF PresentNothing, Taken, Drained
      <3> QED
        BY <2>1, <2>3, <3>1, HeldFacts, FdNames DEF Owned, Displays
    <2>4. CASE /\ d = "wide" /\ fds' = fds \ Taken(d)
               /\ UNCHANGED <<wide_drain_fence, wide_route_active, wide_open>>
      BY <2>1, <2>4, HeldFacts, FdNames DEF PresentNothing, Taken, Owned, Displays
    <2> QED
      BY <2>2, <2>3, <2>4 DEF PresentNothing
  <1> QED
    BY <1>1, <1>2, <1>3, <1>4, <1>5, <1>6, <1>7, Conjoined

\* A dropped Small frame costs its fence only.
LEMMA PresentUndrainedKeeps == ASSUME IInv, PresentUndrained PROVE IInv'
  <1> USE DEF PresentUndrained, Displays
  <1>1. HeldTypes'
    BY TakenApart DEF IInv, TypeOK, HeldTypes
  <1>2. FlagTypes'
    BY DEF IInv, TypeOK, Call, FlagTypes
  <1>3. CounterTypes'
    BY RouteBounds DEF IInv, TypeOK, Call, CounterTypes
  <1>4. FenceCovers' /\ RouteIsDrainable'
    BY DEF IInv, Call, FenceCovers, RouteIsDrainable
  <1>5. FencesDistinct'
    BY TakenApart
  <1>6. ASSUME NEW f PROVE (f \in fds <=> Owned(f))'
    BY HeldFacts, FdNames DEF IInv, TypeOK, TakeFence, Taken, Owned
  <1> QED
    BY <1>1, <1>2, <1>3, <1>4, <1>5, <1>6, Conjoined

\* A Small frame: the route is drained and fb0 serves the single panel.
LEMMA PresentSmallKeeps == ASSUME IInv, PresentSmall PROVE IInv'
  <1> USE DEF PresentSmall, Displays
  <1>1. HeldTypes'
    BY TakenApart DEF IInv, TypeOK, HeldTypes
  <1>2. FlagTypes'
    BY DEF IInv, TypeOK, Call, FlagTypes
  <1>3. CounterTypes'
    BY RouteBounds DEF IInv, TypeOK, Call, CounterTypes
  <1>4. FenceCovers'
    BY DEF IInv, TypeOK, Call, DrainSucceeds, FenceCovers, RouteIsDrainable
  <1>5. RouteIsDrainable'
    BY DEF RouteIsDrainable
  <1>6. FencesDistinct'
    BY TakenApart
  <1>7. ASSUME NEW f PROVE (f \in fds <=> Owned(f))'
    <2>1. /\ acquire'["small"] = 0 /\ acquire'["wide"] = acquire["wide"]
          /\ refused' = refused /\ wide_drain_fence' = 0
      BY DEF IInv, TypeOK, TakeFence
    <2>2. f \in fds' <=> \/ /\ f \in fds /\ f # AcquireFd(acquire["small"])
                            /\ f # DrainFd(wide_drain_fence) /\ f # Fb0Fd
                         \/ wide_open' /\ f = Fb0Fd
      BY HeldFacts, FdNames DEF Taken
    <2> QED
      BY <2>1, <2>2, HeldFacts, FdNames, ZenonT(60) DEF Owned
  <1> QED
    BY <1>1, <1>2, <1>3, <1>4, <1>5, <1>6, <1>7, Conjoined

\* A Wide frame: the new transaction's fence replaces the old one, or the
\* transaction becomes an orphan, or nothing is committed.
LEMMA PresentWideKeeps == ASSUME IInv, PresentWide PROVE IInv'
  <1> USE DEF PresentWide, Displays
  <1>1. HeldTypes'
    BY TakenApart DEF IInv, TypeOK, HeldTypes
  <1>2. FlagTypes'
    BY DEF IInv, TypeOK, Call, FlagTypes
  <1>3. CounterTypes'
    <2>1. calls' \in 0..MaxCalls /\ UNCHANGED <<next_fd, done, singles>>
      BY RouteBounds DEF IInv, TypeOK, Call
    <2>2. submitted \in Nat /\ submitted' \in {submitted, submitted + 1}
      BY DEF IInv, TypeOK
    <2>3. wide_drain_fence' \in {wide_drain_fence, submitted'}
      OBVIOUS
    <2>4. /\ orphans' \subseteq orphans \cup {submitted'}
          /\ orphans' # orphans => submitted' = submitted + 1
      OBVIOUS
    <2> QED
      BY <2>1, <2>2, <2>3, <2>4 DEF IInv, TypeOK, CounterTypes
  <1>4. FenceCovers'
    BY DEF IInv, TypeOK, Call, FenceCovers
  <1>5. RouteIsDrainable'
    BY DEF IInv, TypeOK, RouteIsDrainable
  <1>6. FencesDistinct'
    BY TakenApart
  <1>7. ASSUME NEW f PROVE (f \in fds <=> Owned(f))'
    <2>1. /\ acquire'["wide"] = 0 /\ acquire'["small"] = acquire["small"]
          /\ refused' = refused
      BY DEF IInv, TypeOK, TakeFence
    <2>2. submitted + 1 \in Nat /\ submitted + 1 # 0
      BY DEF IInv, TypeOK
    <2>3. f \in fds' <=> \/ /\ f \in fds /\ f # AcquireFd(acquire["wide"])
                            /\ f # DrainFd(wide_drain_fence) /\ f # Fb0Fd
                         \/ wide_drain_fence' # 0 /\ f = DrainFd(wide_drain_fence')
                         \/ wide_open' /\ f = Fb0Fd
      <3>1. CASE /\ fds' = (fds \ (Taken("wide") \cup {DrainFd(wide_drain_fence)}))
                             \cup {Fb0Fd, DrainFd(submitted + 1)}
                 /\ wide_drain_fence' = submitted + 1 /\ wide_open' = TRUE
        BY <2>2, <3>1, HeldFacts, FdNames DEF Taken
      <3>2. CASE /\ fds' = (fds \ Taken("wide")) \cup {Fb0Fd}
                 /\ UNCHANGED wide_drain_fence /\ wide_open' = TRUE
        BY <3>2, HeldFacts, FdNames DEF Taken
      <3>3. CASE fds' = fds \ Taken("wide") /\ UNCHANGED <<wide_drain_fence, wide_open>>
        BY <3>3, HeldFacts, FdNames DEF Taken
      <3> QED
        BY <3>1, <3>2, <3>3
    <2> QED
      BY <2>1, <2>3, HeldFacts, FdNames, ZenonT(60) DEF Owned
  <1> QED
    BY <1>1, <1>2, <1>3, <1>4, <1>5, <1>6, <1>7, Conjoined

\* HwcClose: both acquire fences, the drain fence and fb0 go; refused ones stay.
LEMMA HwcCloseKeeps == ASSUME IInv, HwcClose PROVE IInv'
  <1> USE DEF HwcClose, CloseWideFramebuffer, Displays
  <1>1. HeldTypes'
    BY DEF IInv, TypeOK, HeldTypes
  <1>2. FlagTypes'
    BY DEF IInv, TypeOK, FlagTypes
  <1>3. CounterTypes'
    BY RouteBounds DEF IInv, TypeOK, CounterTypes
  <1>4. FenceCovers' /\ RouteIsDrainable'
    BY DEF FenceCovers, RouteIsDrainable
  <1>5. FencesDistinct'
    BY HeldFacts DEF IInv, TypeOK, FencesDistinct
  <1>6. ASSUME NEW f PROVE (f \in fds <=> Owned(f))'
    <2>1. f \in fds' <=> /\ f \in fds /\ f # DrainFd(wide_drain_fence) /\ f # Fb0Fd
                         /\ f # AcquireFd(acquire["small"]) /\ f # AcquireFd(acquire["wide"])
      OBVIOUS
    <2>2. Owned(f)' <=> f \in refused
      BY DEF Owned
    <2>3. f \in refused => /\ f # DrainFd(wide_drain_fence) /\ f # Fb0Fd
                           /\ f # AcquireFd(acquire["small"]) /\ f # AcquireFd(acquire["wide"])
      BY HeldFacts
    <2>4. f \in fds <=> \/ f \in refused
                        \/ acquire["small"] # 0 /\ f = AcquireFd(acquire["small"])
                        \/ acquire["wide"] # 0 /\ f = AcquireFd(acquire["wide"])
                        \/ wide_drain_fence # 0 /\ f = DrainFd(wide_drain_fence)
                        \/ wide_open /\ f = Fb0Fd
      BY HeldFacts
    <2> HIDE DEF HwcClose
    <2> QED
      BY <2>1, <2>2, <2>3, <2>4
  <1> QED
    BY <1>1, <1>2, <1>3, <1>4, <1>5, <1>6, Conjoined

\* Every step of the frame path keeps the invariant.
LEMMA NextIInv == IInv /\ [Next]_vars => IInv'
  <1>1. ASSUME IInv, UNCHANGED vars PROVE IInv'
    BY <1>1 DEF vars, IInv, TypeOK, RouteIsDrainable, FdsAccounted, FencesDistinct, FenceCovers
  <1> QED
    BY <1>1, KernelKeeps, SetClientTargetKeeps, SetActiveConfigKeeps, PresentNothingKeeps,
       PresentUndrainedKeeps, PresentSmallKeeps, PresentWideKeeps, HwcCloseKeeps DEF Next
-----------------------------------------------------------------------------
(* The theorems. *)

\* IInv is an invariant of the frame path.
LEMMA Invariant == Spec => []IInv
  BY InitIInv, NextIInv, PTL DEF Spec

\* Type correctness of the frame path: in particular the drain fence always names
\* a transaction that was submitted, and a refused fence stays open.
THEOREM TypeCorrect == Spec => []TypeOK
  BY Invariant, PTL DEF IInv

\* DrainWideRoute never meets an active route without a fence, so its "no merged
\* completion fence" failure cannot happen, however many frames are presented.
THEOREM RouteDrainable == Spec => []RouteIsDrainable
  BY Invariant, PTL DEF IInv

\* No path of a frame loses an acquire fence, a drain fence or fb0, but for the
\* fence of a SetClientTarget that could not drain.
THEOREM NoFdLost == Spec => []FdsAccounted
  BY Invariant, PTL DEF IInv
-----------------------------------------------------------------------------
(* The refinement of Fb0Transactions. *)

\* Nothing is in flight at the start.
LEMMA InitRefined == Init => Fb0!Init
  BY DEF Init, Fb0!Init, InFlight

\* A drained route has no transaction left that its fence covers.
LEMMA DrainedIsIdle == IInv /\ ~closed /\ DrainSucceeds => InFlight = {}
  BY DEF IInv, TypeOK, FenceCovers, RouteIsDrainable, DrainSucceeds, InFlight

\* Every step is one of Fb0Transactions, or leaves it alone: the kernel completes
\* transactions, a Small frame commits when none is in flight, and a Wide frame
\* adds its transaction unless that is an orphan.
LEMMA StepRefined == IInv /\ [Next]_vars => [Fb0!Next]_(Fb0!vars)
  <1> SUFFICES ASSUME IInv, [Next]_vars PROVE [Fb0!Next]_(Fb0!vars)
    OBVIOUS
  <1> USE DEF Fb0!Next, Fb0!vars
  <1>1. ASSUME UNCHANGED <<submitted, done, orphans, singles>> PROVE UNCHANGED Fb0!vars
    BY <1>1 DEF InFlight
  <1>2. CASE KernelCompletes
    <2>1. InFlight' \subseteq InFlight
      <3>1. /\ done \in Nat /\ submitted \in Nat /\ done' \in Nat /\ done < done'
            /\ UNCHANGED <<submitted, orphans>>
        BY <1>2 DEF KernelCompletes, IInv, TypeOK
      <3> QED
        BY <3>1 DEF InFlight
    <2> QED
      BY <1>2, <2>1 DEF KernelCompletes, Fb0!Complete
  <1>3. CASE PresentSmall
    <2>1. UNCHANGED InFlight
      BY <1>3 DEF PresentSmall, InFlight
    <2>2. InFlight = {}
      BY <1>3, DrainedIsIdle DEF PresentSmall, Call
    <2> QED
      BY <1>3, <2>1, <2>2 DEF PresentSmall, Fb0!CommitSingle
  <1>4. CASE PresentWide
    <2>1. UNCHANGED singles
      BY <1>4 DEF PresentWide
    <2>2. CASE UNCHANGED submitted
      BY <1>4, <1>1, <2>2 DEF PresentWide, IInv, TypeOK
    <2>3. CASE submitted' = submitted + 1 /\ orphans' = orphans \cup {submitted + 1}
      <3>1. UNCHANGED InFlight
        BY <1>4, <2>3 DEF PresentWide, InFlight, IInv, TypeOK
      <3> QED
        BY <2>1, <3>1
    <2>4. CASE submitted' = submitted + 1 /\ UNCHANGED orphans
      <3>1. InFlight' = InFlight \cup {submitted + 1} /\ submitted + 1 \notin InFlight
        BY <1>4, <2>4 DEF PresentWide, InFlight, IInv, TypeOK
      <3> QED
        BY <2>1, <3>1 DEF Fb0!CommitWide
    <2> QED
      BY <1>4, <2>2, <2>3, <2>4 DEF PresentWide
  <1>5. CASE \/ \E d \in Displays, g \in Displays, fenced \in BOOLEAN :
                   SetClientTarget(d, g, fenced)
             \/ \E d \in Displays : SetActiveConfig(d) \/ PresentNothing(d)
             \/ PresentUndrained \/ HwcClose \/ UNCHANGED vars
    <2>1. UNCHANGED <<submitted, done, orphans, singles>>
      BY <1>5 DEF SetClientTarget, SetActiveConfig, PresentNothing, PresentUndrained, HwcClose,
                  vars
    <2> QED
      BY <1>1, <2>1
  <1> QED
    BY <1>2, <1>3, <1>4, <1>5 DEF Next

\* The wrapper implements Fb0Transactions: in every behaviour, no Small frame is
\* committed while a Wide transaction whose fence the wrapper holds is in flight.
THEOREM Refinement == Spec => ImplementsFb0
  BY Invariant, InitRefined, StepRefined, PTL DEF Spec, ImplementsFb0, Fb0!Spec
=============================================================================
