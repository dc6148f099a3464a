--------------------------- MODULE RoutingProofs ---------------------------
(***************************************************************************)
(* Proofs about the routing of streams and calls.                          *)
(*                                                                         *)
(* For any streams, sessions, devices, sources and modes the framework     *)
(* uses, and any order of its calls, with starts that fail and calls that  *)
(* crash: every reference of a sound device has its owner, the mixer paths *)
(* that are on are those of the use cases listed, what is listed is what   *)
(* runs, use cases that capture over one backend are on one device, and    *)
(* calls are where the primary output is, with their sidetone.             *)
(*                                                                         *)
(* Each function of the code gets a lemma about the adev it returns.  The  *)
(* loops over the use-case list go through states that are not consistent: *)
(* a use case in them is off its mixer path and off one or both of its     *)
(* devices.  So a separate function r says which device each use case      *)
(* holds on each side, and the lemmas follow r, the entries of the list    *)
(* and the set P of the use cases whose path is on.                        *)
(*                                                                         *)
(* Each lemma also says what became of the calls: no stream moves a call   *)
(* from the device of the primary output (Steady), a change of that device *)
(* takes every call along before the loop ends (Moving), and what ends the *)
(* call mode leaves no call behind or was noted in strayed (Tidy).         *)
(***************************************************************************)
EXTENDS AudioRouting, SequenceTheorems, FiniteSetTheorems, WellFoundedInduction, TLAPS

-----------------------------------------------------------------------------
(* Least and greatest members, and loops, which are functions over 0..n. *)

\* A set of natural numbers that is not empty has its minimum.
LEMMA LeastIsMember ==
    ASSUME NEW S, S \subseteq Nat, S # {}
    PROVE  Min(S) \in S /\ \A y \in S : Min(S) <= y
<1> DEFINE Less == {ss \in Nat \X Nat : ss[1] < ss[2]}
<1>1. IsWellFoundedOn(Less, Nat)
  BY NatLessThanWellFounded, Zenon DEF OpToRel
<1>2. PICK x \in S : \A y \in S : ~ (<<y, x>> \in Less)
  <2> HIDE DEF Less
  <2> QED  BY <1>1, WFMin
<1>3. ASSUME NEW y \in S PROVE x =< y
  <2>1. <<y, x>> \in Nat \X Nat /\ <<y, x>>[1] = y /\ <<y, x>>[2] = x
    OBVIOUS
  <2> QED  BY <1>2, <2>1
<1> QED  BY <1>3, Zenon DEF Min

\* The values of a loop after each of its rounds.
IsLoop(g, n, V, a, body) ==
  /\ g \in [0..n -> V]
  /\ g[0] = a
  /\ \A i \in 1..n : g[i] = body[i][g[i - 1]]

\* A loop whose body is a function of the round and the value so far has a value
\* after every round.
LEMMA LoopRuns ==
    ASSUME NEW n \in Nat, NEW V, NEW a \in V, NEW body \in [1..n -> [V -> V]]
    PROVE  \E g : IsLoop(g, n, V, a, body)
<1> DEFINE Runs(k, g) == g[0] = a /\ \A i \in 1..k : g[i] = body[i][g[i - 1]]
<1> DEFINE Bad == {k \in 0..n : ~ \E g \in [0..k -> V] : Runs(k, g)}
<1>1. SUFFICES ASSUME Bad # {} PROVE FALSE
  <2>1. n \notin Bad
    BY <1>1
  <2>2. PICK g \in [0..n -> V] : Runs(n, g)
    BY <2>1
  <2> QED  BY <2>2 DEF IsLoop
<1> DEFINE m == Min(Bad)
<1>2. m \in Bad /\ \A k \in Bad : m <= k
  <2>1. Bad \subseteq Nat
    OBVIOUS
  <2> HIDE DEF Bad
  <2> QED  BY <1>1, <2>1, LeastIsMember
<1> HIDE DEF m
<1>3. m \in 0..n /\ ~ \E g \in [0..m -> V] : Runs(m, g)
  BY <1>2
<1>4. CASE m = 0
  <2> DEFINE g == [i \in 0..0 |-> a]
  <2>1. g \in [0..0 -> V] /\ g[0] = a
    OBVIOUS
  <2>2. \A i \in 1..0 : g[i] = body[i][g[i - 1]]
    OBVIOUS
  <2>3. ~ \E q \in [0..0 -> V] : Runs(0, q)
    BY <1>3, <1>4
  <2> HIDE DEF g
  <2> QED  BY <2>1, <2>2, <2>3
<1>5. CASE m # 0
  <2>0. m - 1 \in 0..n /\ ~ (m <= m - 1)
    BY <1>3, <1>5
  <2>1. m - 1 \notin Bad
    <3> HIDE DEF Bad
    <3> QED  BY <1>2, <2>0
  <2>2. PICK g \in [0..(m - 1) -> V] : Runs(m - 1, g)
    <3> HIDE DEF Runs
    <3> QED  BY <2>0, <2>1
  <2>3. g[m - 1] \in V /\ m \in 1..n
    BY <1>3, <1>5
  <2>4. body[m][g[m - 1]] \in V
    BY <2>3
  <2> DEFINE h == [i \in 0..m |-> IF i = m THEN body[m][g[m - 1]] ELSE g[i]]
  <2>5. ASSUME NEW i \in 0..m PROVE h[i] \in V
    <3>1. i # m => i \in 0..(m - 1)
      BY <1>3
    <3> QED  BY <2>4, <3>1
  <2>6. h \in [0..m -> V]
    BY <2>5
  <2>7. h[0] = a
    BY <1>3, <1>5, <2>2
  <2>8. ASSUME NEW i \in 1..m PROVE h[i] = body[i][h[i - 1]]
    <3>1. i \in 0..m /\ i - 1 \in 0..m /\ i - 1 # m
      BY <1>3
    <3>2. h[i - 1] = g[i - 1]
      BY <3>1
    <3>3. CASE i = m
      BY <3>1, <3>2, <3>3
    <3>4. CASE i # m
      <4>1. i \in 1..(m - 1)
        BY <1>3, <3>4
      <4>2. h[i] = g[i]
        BY <3>1, <3>4
      <4> QED  BY <2>2, <3>2, <4>1, <4>2
    <3> QED  BY <3>3, <3>4
  <2> HIDE DEF h
  <2> QED  BY <1>3, <2>6, <2>7, <2>8
<1> QED  BY <1>4, <1>5

\* Induction along the rounds of a loop.
LEMMA RoundByRound ==
    ASSUME NEW n \in Nat, NEW Fine, 0 \in Fine,
           \A i \in 1..n : i - 1 \in Fine => i \in Fine
    PROVE  \A i \in 0..n : i \in Fine
<1> DEFINE Bad == (0..n) \ Fine
<1>1. SUFFICES ASSUME Bad # {} PROVE FALSE
  BY <1>1
<1> DEFINE m == Min(Bad)
<1>2. m \in Bad /\ \A k \in Bad : m <= k
  <2>1. Bad \subseteq Nat
    OBVIOUS
  <2> HIDE DEF Bad
  <2> QED  BY <1>1, <2>1, LeastIsMember
<1> HIDE DEF m
<1>3. m \in 1..n /\ m - 1 \in 0..n /\ ~ (m <= m - 1)
  BY <1>2
<1>4. m - 1 \notin Bad
  <2> HIDE DEF Bad
  <2> QED  BY <1>2, <1>3
<1> QED  BY <1>2, <1>3, <1>4

\* The greatest member of a bounded set.
LEMMA GreatestIsMember ==
    ASSUME NEW S, S \subseteq Nat, S # {}, NEW b \in Nat, \A x \in S : x <= b
    PROVE  Max(S) \in S /\ \A y \in S : y <= Max(S)
<1> DEFINE T == {b - x : x \in S}
<1>1. T \subseteq Nat /\ T # {}
  <2>1. ASSUME NEW x \in S PROVE b - x \in Nat
    <3>1. x \in Nat /\ x <= b
      OBVIOUS
    <3> QED  BY <3>1
  <2> QED  BY <2>1
<1>2. Min(T) \in T /\ \A y \in T : Min(T) <= y
  <2> HIDE DEF T
  <2> QED  BY <1>1, LeastIsMember
<1>3. PICK x \in S : Min(T) = b - x
  BY <1>2
<1>4. ASSUME NEW y \in S PROVE x >= y
  <2>1. b - y \in T
    OBVIOUS
  <2>2. b - x <= b - y
    BY <1>2, <1>3, <2>1
  <2>3. x \in Nat /\ y \in Nat
    OBVIOUS
  <2> QED  BY <2>2, <2>3
<1>5. Max(S) \in S /\ \A y \in S : Max(S) >= y
  BY <1>4 DEF Max
<1>6. ASSUME NEW y \in S PROVE y <= Max(S)
  <2>1. y \in Nat /\ Max(S) \in Nat /\ Max(S) >= y
    BY <1>5
  <2> QED  BY <2>1
<1> QED  BY <1>5, <1>6

-----------------------------------------------------------------------------
(* Loops in stages, and what adev may be. *)

\* The values of a loop after each of its rounds, each in its set of W.
Leads(g, a, n, step, W) ==
  /\ g = [i \in 0..n |-> IF i = 0 THEN a ELSE step[i][g[i - 1]]]
  /\ \A i \in 0..n : g[i] \in W[i]

\* A loop whose rounds lead from each of the sets W to the next.
LEMMA LoopEnds ==
    ASSUME NEW n \in Nat, NEW W, NEW a \in W[0], NEW step,
           \A i \in 1..n : \A q \in W[i - 1] : step[i][q] \in W[i]
    PROVE  \E g : Leads(g, a, n, step, W)
<1> DEFINE V == UNION {W[i] : i \in 0..n} \cup {a}
<1> DEFINE body == [i \in 1..n |-> [q \in V |-> IF q \in W[i - 1] THEN step[i][q] ELSE q]]
<1>1. ASSUME NEW i \in 1..n, NEW q \in V
      PROVE  (IF q \in W[i - 1] THEN step[i][q] ELSE q) \in V
  <2>1. i \in 0..n
    OBVIOUS
  <2>2. q \in W[i - 1] => step[i][q] \in V
    BY <2>1
  <2> HIDE DEF V
  <2> QED  BY <2>2
<1>2. body \in [1..n -> [V -> V]]
  <2> HIDE DEF V
  <2> QED  BY <1>1
<1>3. /\ \A i \in 1..n : \A q \in V :
           body[i][q] = IF q \in W[i - 1] THEN step[i][q] ELSE q
      /\ a \in V
  OBVIOUS
<1> HIDE DEF body, V
<1>4. PICK g : IsLoop(g, n, V, a, body)
  BY <1>2, <1>3, LoopRuns
<1>5. /\ g \in [0..n -> V] /\ g[0] = a
      /\ \A i \in 1..n : g[i] = body[i][g[i - 1]]
  BY <1>4 DEF IsLoop
<1> DEFINE Ends == {i \in 0..n : g[i] \in W[i]}
<1>6. 0 \in Ends
  BY <1>5
<1>7. ASSUME NEW i \in 1..n, i - 1 \in Ends PROVE i \in Ends
  <2>1. i - 1 \in 0..n /\ i \in 0..n /\ g[i - 1] \in W[i - 1] /\ g[i - 1] \in V
    BY <1>5, <1>7
  <2>2. g[i] = step[i][g[i - 1]]
    BY <1>3, <1>5, <2>1
  <2> QED  BY <2>1, <2>2
<1>8. \A i \in 0..n : i \in Ends
  <2> HIDE DEF Ends
  <2> QED  BY <1>6, <1>7, RoundByRound
<1>9. ASSUME NEW i \in 0..n PROVE g[i] = IF i = 0 THEN a ELSE step[i][g[i - 1]]
  <2>1. CASE i = 0
    BY <1>5, <2>1
  <2>2. CASE i # 0
    <3>1. i \in 1..n /\ i - 1 \in 0..n
      BY <2>2
    <3>2. g[i - 1] \in W[i - 1] /\ g[i - 1] \in V
      BY <1>5, <1>8, <3>1
    <3> QED  BY <1>3, <1>5, <2>2, <3>1, <3>2
  <2> QED  BY <2>1, <2>2
<1>10. g = [i \in 0..n |-> IF i = 0 THEN a ELSE step[i][g[i - 1]]]
  BY <1>5, <1>9
<1> QED  BY <1>8, <1>10 DEF Leads

\* Use cases by their identifiers.
Playbacks == {"LOW_LATENCY", "DEEP_BUFFER", "VOIP"}
Captures == {"RECORD", "RECORD_VOIP"}
VoiceCalls == {"VOICE_CALL", "VOICE2_CALL"}
Ids == (Playbacks \cup Captures) \cup VoiceCalls
TypeOf(i) == IF i \in Playbacks THEN "PCM_PLAYBACK"
             ELSE IF i \in Captures THEN "PCM_CAPTURE" ELSE "VOICE_CALL"

Sides == {"out_snd_device", "in_snd_device"}
Keys(D) == D \X Sides
Key(i, side) == <<i, side>>
NoDevice == "NONE"
DevicesOn(side) == IF side = "out_snd_device" THEN OutSndDevices ELSE InSndDevices
InputDevices == {"MIC", "HEADSET_MIC", "SCO_MIC"}
Modes == {"NORMAL", "RINGTONE", "IN_CALL", "IN_COMMUNICATION"}
CallStates == {"INACTIVE", "ACTIVE", "HOLD", "LOCAL_HOLD"}

UseCaseRecords ==
  [id : Ids, type : {"PCM_PLAYBACK", "PCM_CAPTURE", "VOICE_CALL"},
   devices : OutputSets \cup {{d} : d \in InputDevices},
   out_snd_device : OutSndDevices \cup {NoDevice}, in_snd_device : InSndDevices \cup {NoDevice}]

\* The structures of the use cases D, each under its identifier.
Tables(D) ==
  {f \in [D -> UseCaseRecords] : \A i \in D : f[i].id = i /\ f[i].type = TypeOf(i)}

\* The lists that have each of D once.
Orders(D) ==
  {list \in Seq(D) : /\ \A n, m \in DOMAIN list : list[n] = list[m] => n = m
                     /\ \A i \in D : \E n \in DOMAIN list : list[n] = i}

Outputs == [devices : OutputSets, standby : BOOLEAN]
Inputs == [device : InputDevices, standby : BOOLEAN, source : {"MIC", "VOICE_COMMUNICATION"}]
Sessions == [current : CallStates, new : CallStates]

MixerPaths == Ids \X {"", "bt-sco"}

\* What adev may be with the use cases D listed.
Adevs(D) ==
  [usecase_list : Orders(D), usecase : Tables(D),
   snd_dev_ref_cnt : [SndDevices -> Nat], paths : SUBSET MixerPaths,
   sidetone : SUBSET {"sidetone-handset", "sidetone-headphones"}, bit_width : {16, 24},
   out : [setup.outputs -> Outputs], in : [setup.inputs -> Inputs],
   mode : Modes, in_call : BOOLEAN, current_call_output : {"NULL", primary_output},
   session : [ToSet(setup.sessions) -> Sessions]]

\* Fields that routing leaves alone.
Frame(a, b) ==
  /\ b.usecase_list = a.usecase_list /\ b.out = a.out /\ b.in = a.in /\ b.mode = a.mode
  /\ b.in_call = a.in_call /\ b.current_call_output = a.current_call_output
  /\ b.session = a.session

-----------------------------------------------------------------------------
(* References. *)

\* The use cases of T hold what their entries say on one side.
SitsOn(r, f, T, side) == \A i \in T : r[Key(i, side)] = f[i][side]

\* References held: for each side of each use case the device it holds, or none.
Counted(cnt, r) ==
  \A d \in SndDevices :
    cnt[d] = Cardinality({k \in DOMAIN r : r[k] = d})
             + IF d \in {"SPEAKER", "BT_SCO"} /\ cnt["SPEAKER_AND_BT_SCO"] > 0 THEN 1 ELSE 0

Free(r, k) == r[k] = NoDevice
Holdings(E) == [E -> SndDevices \cup {NoDevice}]

\* r after k has taken d; the counts after a device came on or went off.
Put(r, k, d) == [r EXCEPT ![k] = d]

Took(cnt, d) ==
  LET taken == IF cnt[d] = 0 THEN platform_can_split_snd_device(d) \cup {d} ELSE {d}
  IN  [e \in SndDevices |-> IF e \in taken THEN cnt[e] + 1 ELSE cnt[e]]

Gave(cnt, d) ==
  LET given == IF cnt[d] = 1 THEN platform_can_split_snd_device(d) \cup {d} ELSE {d}
  IN  [e \in SndDevices |-> IF e \in given /\ cnt[e] > 0 THEN cnt[e] - 1 ELSE cnt[e]]

\* One key of r takes or gives up a device.
LEMMA HoldersChange ==
    ASSUME NEW E, IsFiniteSet(E), NEW r \in Holdings(E), NEW k \in E,
           NEW e \in SndDevices \cup {NoDevice}, NEW q, q = Put(r, k, e)
    PROVE  /\ q \in Holdings(E)
           /\ \A d \in SndDevices :
                 /\ Cardinality({x \in DOMAIN r : r[x] = d}) \in Nat
                 /\ Cardinality({x \in DOMAIN q : q[x] = d}) \in Nat
                 /\ Cardinality({x \in DOMAIN q : q[x] = d})
                      = IF e = d /\ r[k] # d THEN Cardinality({x \in DOMAIN r : r[x] = d}) + 1
                        ELSE IF e # d /\ r[k] = d
                        THEN Cardinality({x \in DOMAIN r : r[x] = d}) - 1
                        ELSE Cardinality({x \in DOMAIN r : r[x] = d})
<1>1. q \in Holdings(E) /\ DOMAIN q = E /\ DOMAIN r = E /\ q[k] = e
      /\ \A x \in E : x # k => q[x] = r[x]
  BY DEF Holdings, Put
<1>2. SUFFICES ASSUME NEW d \in SndDevices
               PROVE  /\ Cardinality({x \in E : r[x] = d}) \in Nat
                      /\ Cardinality({x \in E : q[x] = d}) \in Nat
                      /\ Cardinality({x \in E : q[x] = d})
                           = IF e = d /\ r[k] # d THEN Cardinality({x \in E : r[x] = d}) + 1
                             ELSE IF e # d /\ r[k] = d
                             THEN Cardinality({x \in E : r[x] = d}) - 1
                             ELSE Cardinality({x \in E : r[x] = d})
  BY <1>1
<1> DEFINE U == {x \in E : r[x] = d}
<1> DEFINE Q == {x \in E : q[x] = d}
<1>3. IsFiniteSet(U) /\ IsFiniteSet(Q)
  <2>1. U \subseteq E /\ Q \subseteq E
    OBVIOUS
  <2> HIDE DEF U, Q
  <2> QED  BY <2>1, FS_Subset
<1>4. Cardinality(U) \in Nat /\ Cardinality(Q) \in Nat
  <2> HIDE DEF U, Q
  <2> QED  BY <1>3, FS_CardinalityType
<1>5. ASSUME e = d, r[k] # d PROVE Cardinality(Q) = Cardinality(U) + 1
  <2>1. Q = U \cup {k} /\ k \notin U
    BY <1>1, <1>5
  <2> HIDE DEF U, Q
  <2> QED  BY <1>3, <2>1, FS_AddElement
<1>6. ASSUME e # d, r[k] = d PROVE Cardinality(Q) = Cardinality(U) - 1
  <2>1. Q = U \ {k} /\ k \in U
    BY <1>1, <1>6
  <2> HIDE DEF U, Q
  <2> QED  BY <1>3, <2>1, FS_RemoveElement
<1>7. ASSUME e = d <=> r[k] = d PROVE Cardinality(Q) = Cardinality(U)
  <2>1. Q = U
    BY <1>1, <1>7
  <2> QED  BY <2>1
<1> QED  BY <1>4, <1>5, <1>6, <1>7

LEMMA SplitFacts ==
    /\ NoDevice \notin SndDevices
    /\ {"SPEAKER", "BT_SCO", "SPEAKER_AND_BT_SCO"} \subseteq SndDevices
    /\ \A d : platform_can_split_snd_device(d) =
                IF d = "SPEAKER_AND_BT_SCO" THEN {"SPEAKER", "BT_SCO"} ELSE {}
  BY DEF SndDevices, OutSndDevices, InSndDevices, NoDevice,
         platform_can_split_snd_device

\* A device that comes on is held by the use case that takes it.
LEMMA TakeCounted ==
    ASSUME NEW E, IsFiniteSet(E), NEW r \in Holdings(E), NEW k \in E, Free(r, k),
           NEW cnt \in [SndDevices -> Nat], Counted(cnt, r), NEW d \in SndDevices
    PROVE  /\ Took(cnt, d) \in [SndDevices -> Nat] /\ Put(r, k, d) \in Holdings(E)
           /\ Counted(Took(cnt, d), Put(r, k, d))
<1> DEFINE taken == IF cnt[d] = 0 THEN platform_can_split_snd_device(d) \cup {d} ELSE {d}
<1> DEFINE c == Took(cnt, d)
<1> DEFINE q == Put(r, k, d)
<1> DEFINE U(e) == Cardinality({x \in DOMAIN r : r[x] = e})
<1> DEFINE Q(e) == Cardinality({x \in DOMAIN q : q[x] = e})
<1> DEFINE part(b, e) == IF e \in {"SPEAKER", "BT_SCO"} /\ b["SPEAKER_AND_BT_SCO"] > 0
                         THEN 1 ELSE 0
<1>0. q \in Holdings(E)
  BY HoldersChange
<1>1. ASSUME NEW e \in SndDevices
      PROVE  U(e) \in Nat /\ Q(e) = IF e = d THEN U(e) + 1 ELSE U(e)
  <2>1. /\ U(e) \in Nat /\ Q(e) \in Nat
        /\ Q(e) = IF d = e /\ r[k] # e THEN U(e) + 1
                  ELSE IF d # e /\ r[k] = e THEN U(e) - 1 ELSE U(e)
    BY HoldersChange
  <2>2. e # NoDevice
    BY SplitFacts
  <2> HIDE DEF U, Q
  <2> QED  BY <2>1, <2>2 DEF Free
<1>2. \A e \in SndDevices : cnt[e] = U(e) + part(cnt, e) /\ cnt[e] \in Nat
  BY DEF Counted
<1>3. \A e \in SndDevices : c[e] = IF e \in taken THEN cnt[e] + 1 ELSE cnt[e]
  BY DEF Took
<1>4. c \in [SndDevices -> Nat]
  BY <1>2 DEF Took
<1>5. taken = IF d = "SPEAKER_AND_BT_SCO" /\ cnt[d] = 0
              THEN {"SPEAKER", "BT_SCO", "SPEAKER_AND_BT_SCO"} ELSE {d}
  BY SplitFacts
<1> HIDE DEF U, Q, c, q, taken
<1>6. ASSUME NEW e \in SndDevices PROVE c[e] = Q(e) + part(c, e)
  <2>1. "SPEAKER_AND_BT_SCO" \in SndDevices /\ U("SPEAKER_AND_BT_SCO") \in Nat
        /\ cnt["SPEAKER_AND_BT_SCO"] \in Nat
    BY <1>1, <1>2, SplitFacts
  <2>2. U(e) \in Nat /\ Q(e) = (IF e = d THEN U(e) + 1 ELSE U(e))
        /\ cnt[e] = U(e) + part(cnt, e) /\ c[e] = (IF e \in taken THEN cnt[e] + 1 ELSE cnt[e])
        /\ c["SPEAKER_AND_BT_SCO"] = (IF "SPEAKER_AND_BT_SCO" \in taken
             THEN cnt["SPEAKER_AND_BT_SCO"] + 1 ELSE cnt["SPEAKER_AND_BT_SCO"])
    BY <1>1, <1>2, <1>3, <2>1
  <2>3. CASE d = "SPEAKER_AND_BT_SCO" /\ cnt[d] = 0
    BY <1>5, <2>1, <2>2, <2>3
  <2>4. CASE d = "SPEAKER_AND_BT_SCO" /\ cnt[d] # 0
    BY <1>5, <2>1, <2>2, <2>4
  <2>5. CASE d # "SPEAKER_AND_BT_SCO"
    BY <1>5, <2>1, <2>2, <2>5
  <2> QED  BY <2>3, <2>4, <2>5
<1> QED  BY <1>0, <1>4, <1>6 DEF Counted, Q, c, q

\* A device that goes off is given back by the use case that held it.
LEMMA GiveCounted ==
    ASSUME NEW E, IsFiniteSet(E), NEW r \in Holdings(E), NEW k \in E, NEW d \in SndDevices,
           r[k] = d, NEW cnt \in [SndDevices -> Nat], Counted(cnt, r)
    PROVE  /\ cnt[d] # 0 /\ Gave(cnt, d) \in [SndDevices -> Nat]
           /\ Put(r, k, NoDevice) \in Holdings(E) /\ Counted(Gave(cnt, d), Put(r, k, NoDevice))
<1> DEFINE given == IF cnt[d] = 1 THEN platform_can_split_snd_device(d) \cup {d} ELSE {d}
<1> DEFINE c == Gave(cnt, d)
<1> DEFINE q == Put(r, k, NoDevice)
<1> DEFINE U(e) == Cardinality({x \in DOMAIN r : r[x] = e})
<1> DEFINE Q(e) == Cardinality({x \in DOMAIN q : q[x] = e})
<1> DEFINE part(b, e) == IF e \in {"SPEAKER", "BT_SCO"} /\ b["SPEAKER_AND_BT_SCO"] > 0
                         THEN 1 ELSE 0
<1>0. q \in Holdings(E)
  BY HoldersChange
<1>1. ASSUME NEW e \in SndDevices
      PROVE  U(e) \in Nat /\ Q(e) \in Nat /\ Q(e) = IF e = d THEN U(e) - 1 ELSE U(e)
  <2>1. /\ U(e) \in Nat /\ Q(e) \in Nat
        /\ Q(e) = IF NoDevice = e /\ r[k] # e THEN U(e) + 1
                  ELSE IF NoDevice # e /\ r[k] = e THEN U(e) - 1 ELSE U(e)
    <3>1. NoDevice \in SndDevices \cup {NoDevice}
      OBVIOUS
    <3> QED  BY <3>1, HoldersChange
  <2>2. e # NoDevice
    BY SplitFacts
  <2> HIDE DEF U, Q
  <2> QED  BY <2>1, <2>2
<1>2. \A e \in SndDevices : cnt[e] = U(e) + part(cnt, e) /\ cnt[e] \in Nat
  BY DEF Counted
<1>3. \A e \in SndDevices :
        c[e] = IF e \in given /\ cnt[e] > 0 THEN cnt[e] - 1 ELSE cnt[e]
  BY DEF Gave
<1>4. ASSUME NEW e \in SndDevices
      PROVE  (IF e \in given /\ cnt[e] > 0 THEN cnt[e] - 1 ELSE cnt[e]) \in Nat
  <2>1. cnt[e] \in Nat
    OBVIOUS
  <2> QED  BY <2>1
<1>5. c \in [SndDevices -> Nat]
  BY <1>4 DEF Gave
<1>6. given = IF d = "SPEAKER_AND_BT_SCO" /\ cnt[d] = 1
              THEN {"SPEAKER", "BT_SCO", "SPEAKER_AND_BT_SCO"} ELSE {d}
  BY SplitFacts
<1> HIDE DEF U, Q, c, q, given
<1>7. ASSUME NEW e \in SndDevices PROVE c[e] = Q(e) + part(c, e)
  <2>1. "SPEAKER_AND_BT_SCO" \in SndDevices /\ cnt["SPEAKER_AND_BT_SCO"] \in Nat
        /\ cnt["SPEAKER_AND_BT_SCO"] = U("SPEAKER_AND_BT_SCO")
        /\ U("SPEAKER_AND_BT_SCO") \in Nat
    BY <1>1, <1>2, SplitFacts
  <2>2. U(e) \in Nat /\ Q(e) \in Nat /\ Q(e) = (IF e = d THEN U(e) - 1 ELSE U(e))
        /\ cnt[e] = U(e) + part(cnt, e)
        /\ c[e] = (IF e \in given /\ cnt[e] > 0 THEN cnt[e] - 1 ELSE cnt[e])
        /\ c["SPEAKER_AND_BT_SCO"] =
             (IF "SPEAKER_AND_BT_SCO" \in given /\ cnt["SPEAKER_AND_BT_SCO"] > 0
              THEN cnt["SPEAKER_AND_BT_SCO"] - 1 ELSE cnt["SPEAKER_AND_BT_SCO"])
    BY <1>1, <1>2, <1>3, <2>1
  <2>3. CASE d = "SPEAKER_AND_BT_SCO" /\ cnt[d] = 1
    BY <1>6, <2>1, <2>2, <2>3
  <2>4. CASE d = "SPEAKER_AND_BT_SCO" /\ cnt[d] # 1
    BY <1>6, <2>1, <2>2, <2>4
  <2>5. CASE d # "SPEAKER_AND_BT_SCO"
    BY <1>6, <2>1, <2>2, <2>5
  <2> QED  BY <2>3, <2>4, <2>5
<1>8. cnt[d] # 0
  <2>1. U(d) \in Nat /\ Q(d) \in Nat /\ Q(d) = U(d) - 1 /\ cnt[d] = U(d) + part(cnt, d)
    BY <1>1, <1>2
  <2> QED  BY <2>1
<1> QED  BY <1>0, <1>5, <1>7, <1>8 DEF Counted, Q, c, q
-----------------------------------------------------------------------------
(* Single steps of the routing. *)

LEMMA IdsFinite ==
    ASSUME NEW D, D \subseteq Ids
    PROVE  IsFiniteSet(D) /\ IsFiniteSet(Keys(D))
<1>1. IsFiniteSet(Ids)
  <2>1. IsFiniteSet(Playbacks) /\ IsFiniteSet(Captures) /\ IsFiniteSet(VoiceCalls)
    <3>1. IsFiniteSet({})
      BY FS_EmptySet
    <3>2. \A S, x : IsFiniteSet(S) => IsFiniteSet(S \cup {x})
      BY FS_AddElement
    <3>3. /\ Playbacks = (({} \cup {"LOW_LATENCY"}) \cup {"DEEP_BUFFER"}) \cup {"VOIP"}
          /\ Captures = ({} \cup {"RECORD"}) \cup {"RECORD_VOIP"}
          /\ VoiceCalls = ({} \cup {"VOICE_CALL"}) \cup {"VOICE2_CALL"}
      BY DEF Playbacks, Captures, VoiceCalls
    <3> QED  BY <3>1, <3>2, <3>3, Zenon
  <2>2. IsFiniteSet(Playbacks \cup Captures)
    BY <2>1, FS_Union
  <2> QED  BY <2>1, <2>2, FS_Union DEF Ids
<1>2. IsFiniteSet(D)
  BY <1>1, FS_Subset
<1>3. IsFiniteSet(Sides)
  <2>1. Sides = ({} \cup {"out_snd_device"}) \cup {"in_snd_device"}
    BY DEF Sides
  <2> QED  BY <2>1, FS_EmptySet, FS_AddElement
<1> QED  BY <1>2, <1>3, FS_Product DEF Keys

\* An assignment to one field of adev.
LEMMA AssignUsecase ==
    ASSUME NEW D, NEW a \in Adevs(D), NEW v \in Tables(D),
           NEW b, b = [a EXCEPT !.usecase = v]
    PROVE  /\ b \in Adevs(D) /\ Frame(a, b)
           /\ b.usecase = v /\ b.snd_dev_ref_cnt = a.snd_dev_ref_cnt
           /\ b.paths = a.paths /\ b.bit_width = a.bit_width /\ b.sidetone = a.sidetone
  BY DEF Adevs, Frame

LEMMA AssignCounts ==
    ASSUME NEW D, NEW a \in Adevs(D), NEW v \in [SndDevices -> Nat],
           NEW b, b = [a EXCEPT !.snd_dev_ref_cnt = v]
    PROVE  /\ b \in Adevs(D) /\ Frame(a, b)
           /\ b.snd_dev_ref_cnt = v /\ b.usecase = a.usecase
           /\ b.paths = a.paths /\ b.bit_width = a.bit_width /\ b.sidetone = a.sidetone
  BY DEF Adevs, Frame

LEMMA AssignPaths ==
    ASSUME NEW D, NEW a \in Adevs(D), NEW v \in SUBSET MixerPaths,
           NEW b, b = [a EXCEPT !.paths = v]
    PROVE  /\ b \in Adevs(D) /\ Frame(a, b)
           /\ b.paths = v /\ b.usecase = a.usecase /\ b.sidetone = a.sidetone
           /\ b.snd_dev_ref_cnt = a.snd_dev_ref_cnt /\ b.bit_width = a.bit_width
  BY DEF Adevs, Frame

LEMMA AssignSidetone ==
    ASSUME NEW D, NEW a \in Adevs(D), NEW v \in SUBSET {"sidetone-handset", "sidetone-headphones"},
           NEW b, b = [a EXCEPT !.sidetone = v]
    PROVE  /\ b \in Adevs(D) /\ Frame(a, b)
           /\ b.usecase = a.usecase /\ b.snd_dev_ref_cnt = a.snd_dev_ref_cnt
           /\ b.paths = a.paths /\ b.bit_width = a.bit_width /\ b.sidetone = v
  BY DEF Adevs, Frame

LEMMA AssignWidth ==
    ASSUME NEW D, NEW a \in Adevs(D), NEW v \in {16, 24},
           NEW b, b = [a EXCEPT !.bit_width = v]
    PROVE  /\ b \in Adevs(D) /\ Frame(a, b)
           /\ b.bit_width = v /\ b.usecase = a.usecase /\ b.sidetone = a.sidetone
           /\ b.snd_dev_ref_cnt = a.snd_dev_ref_cnt /\ b.paths = a.paths
  BY DEF Adevs, Frame

LEMMA AdevFields ==
    ASSUME NEW D, NEW a \in Adevs(D)
    PROVE  /\ a.usecase_list \in Orders(D) /\ a.usecase \in Tables(D)
           /\ a.snd_dev_ref_cnt \in [SndDevices -> Nat]
           /\ a.paths \in SUBSET MixerPaths
           /\ a.sidetone \in SUBSET {"sidetone-handset", "sidetone-headphones"}
           /\ a.bit_width \in {16, 24} /\ a.mode \in Modes /\ a.in_call \in BOOLEAN
           /\ a.out \in [setup.outputs -> Outputs] /\ a.in \in [setup.inputs -> Inputs]
           /\ a.current_call_output \in {"NULL", primary_output}
           /\ a.session \in [ToSet(setup.sessions) -> Sessions]
  BY DEF Adevs

\* A record of the table.
LEMMA TableFields ==
    ASSUME NEW D, NEW a \in Adevs(D), NEW i \in D
    PROVE  /\ DOMAIN a.usecase = D /\ a.usecase[i] \in UseCaseRecords
           /\ a.usecase[i].id = i /\ a.usecase[i].type = TypeOf(i)
           /\ a.usecase[i].out_snd_device \in OutSndDevices \cup {NoDevice}
           /\ a.usecase[i].in_snd_device \in InSndDevices \cup {NoDevice}
           /\ a.usecase[i].devices \in OutputSets \cup {{d} : d \in InputDevices}
<1>1. a.usecase \in Tables(D)
  BY AdevFields
<1>2. DOMAIN a.usecase = D /\ a.usecase[i] \in UseCaseRecords
      /\ a.usecase[i].id = i /\ a.usecase[i].type = TypeOf(i)
  BY <1>1 DEF Tables
<1> QED  BY <1>2 DEF UseCaseRecords

\* What is held and on: the devices r and the paths of the use cases P.
Held(a, D, r, P) ==
  /\ a \in Adevs(D) /\ r \in Holdings(Keys(D)) /\ Counted(a.snd_dev_ref_cnt, r)
  /\ a.paths = {route_path(a.usecase[j]) : j \in P} /\ P \subseteq D

\* Only references and paths are different, or the sidetone is as well.
Rewired(a, b) ==
  /\ Frame(a, b) /\ b.usecase = a.usecase /\ b.bit_width = a.bit_width
  /\ b.sidetone = a.sidetone
Retoned(a, b) == Frame(a, b) /\ b.usecase = a.usecase /\ b.bit_width = a.bit_width

LEMMA Enabled ==
    ASSUME NEW D, D \subseteq Ids, NEW a, NEW r, NEW P, Held(a, D, r, P),
           NEW k \in Keys(D), Free(r, k), NEW d \in SndDevices \cup {NoDevice}
    PROVE  /\ Held(enable_snd_device(a, d), D, Put(r, k, d), P)
           /\ Rewired(a, enable_snd_device(a, d))
<1>0. /\ a.snd_dev_ref_cnt \in [SndDevices -> Nat] /\ IsFiniteSet(Keys(D))
      /\ Counted(a.snd_dev_ref_cnt, r) /\ r \in Holdings(Keys(D)) /\ a \in Adevs(D)
  BY AdevFields, IdsFinite DEF Held
<1>1. CASE d = NoDevice
  <2>1. Put(r, k, d) = r /\ enable_snd_device(a, d) = a
    BY <1>1 DEF Held, Holdings, enable_snd_device, Put, NoDevice, Free
  <2> QED  BY <2>1 DEF Rewired, Frame
<1>2. CASE d \in SndDevices
  <2>1. enable_snd_device(a, d) = [a EXCEPT !.snd_dev_ref_cnt = Took(a.snd_dev_ref_cnt, d)]
    <3>1. d # NoDevice
      BY <1>2, SplitFacts
    <3> QED  BY <1>0, <3>1 DEF enable_snd_device, Took, Adevs, NoDevice
  <2>2. /\ Took(a.snd_dev_ref_cnt, d) \in [SndDevices -> Nat]
        /\ Put(r, k, d) \in Holdings(Keys(D))
        /\ Counted(Took(a.snd_dev_ref_cnt, d), Put(r, k, d))
    BY <1>0, <1>2, TakeCounted
  <2>3. PICK b : b = enable_snd_device(a, d)
    OBVIOUS
  <2>4. /\ b \in Adevs(D) /\ Frame(a, b) /\ b.snd_dev_ref_cnt = Took(a.snd_dev_ref_cnt, d)
        /\ b.usecase = a.usecase /\ b.paths = a.paths /\ b.bit_width = a.bit_width
        /\ b.sidetone = a.sidetone
    BY <1>0, <2>1, <2>2, <2>3, AssignCounts
  <2>5. Held(b, D, Put(r, k, d), P) /\ Rewired(a, b)
    BY <2>2, <2>4 DEF Held, Rewired
  <2> QED  BY <2>3, <2>5
<1> QED  BY <1>1, <1>2

LEMMA Disabled ==
    ASSUME NEW D, D \subseteq Ids, NEW a, NEW r, NEW P, Held(a, D, r, P),
           NEW k \in Keys(D), NEW d, r[k] = d
    PROVE  /\ Held(disable_snd_device(a, d), D, Put(r, k, NoDevice), P)
           /\ Rewired(a, disable_snd_device(a, d))
<1>0. /\ a.snd_dev_ref_cnt \in [SndDevices -> Nat] /\ IsFiniteSet(Keys(D))
      /\ Counted(a.snd_dev_ref_cnt, r) /\ r \in Holdings(Keys(D)) /\ a \in Adevs(D)
  BY AdevFields, IdsFinite DEF Held
<1>1. CASE d = NoDevice
  <2>1. Put(r, k, NoDevice) = r /\ disable_snd_device(a, d) = a
    BY <1>1 DEF Held, Holdings, disable_snd_device, Put, NoDevice
  <2> QED  BY <2>1 DEF Rewired, Frame
<1>2. CASE d # NoDevice
  <2>0. d \in SndDevices
    BY <1>0, <1>2 DEF Holdings
  <2>1. /\ Gave(a.snd_dev_ref_cnt, d) \in [SndDevices -> Nat]
        /\ Put(r, k, NoDevice) \in Holdings(Keys(D)) /\ a.snd_dev_ref_cnt[d] # 0
        /\ Counted(Gave(a.snd_dev_ref_cnt, d), Put(r, k, NoDevice))
    BY <1>0, <2>0, GiveCounted
  <2>2. disable_snd_device(a, d) = [a EXCEPT !.snd_dev_ref_cnt = Gave(a.snd_dev_ref_cnt, d)]
    BY <1>0, <1>2, <2>1 DEF disable_snd_device, Gave, Adevs, NoDevice
  <2>3. PICK b : b = disable_snd_device(a, d)
    OBVIOUS
  <2>4. /\ b \in Adevs(D) /\ Frame(a, b) /\ b.snd_dev_ref_cnt = Gave(a.snd_dev_ref_cnt, d)
        /\ b.usecase = a.usecase /\ b.paths = a.paths /\ b.bit_width = a.bit_width
        /\ b.sidetone = a.sidetone
    BY <1>0, <2>1, <2>2, <2>3, AssignCounts
  <2>5. Held(b, D, Put(r, k, NoDevice), P) /\ Rewired(a, b)
    BY <2>1, <2>4 DEF Held, Rewired
  <2> QED  BY <2>3, <2>5
<1> QED  BY <1>1, <1>2
\* A mixer path tells its use case.
LEMMA PathsDiffer ==
    ASSUME NEW D, NEW a \in Adevs(D), NEW i \in D, NEW j \in D,
           route_path(a.usecase[i]) = route_path(a.usecase[j])
    PROVE  i = j
<1>1. a.usecase[i].id = i /\ a.usecase[j].id = j
  BY TableFields
<1> QED  BY <1>1 DEF route_path

LEMMA PathTyped ==
    ASSUME NEW D, D \subseteq Ids, NEW a \in Adevs(D), NEW i \in D
    PROVE  route_path(a.usecase[i]) \in MixerPaths
<1>1. a.usecase[i].id = i
  BY TableFields
<1> QED  BY <1>1 DEF route_path, backend_tag, MixerPaths

LEMMA RouteOn ==
    ASSUME NEW D, D \subseteq Ids, NEW a, NEW r, NEW P, Held(a, D, r, P), NEW i \in D
    PROVE  /\ Held(enable_audio_route(a, i), D, r, P \cup {i})
           /\ Rewired(a, enable_audio_route(a, i))
<1> DEFINE v == a.paths \cup {route_path(a.usecase[i])}
<1>1. /\ a \in Adevs(D) /\ a.paths \in SUBSET MixerPaths
      /\ a.paths = {route_path(a.usecase[j]) : j \in P} /\ P \subseteq D
  BY AdevFields DEF Held
<1>2. v \in SUBSET MixerPaths
  BY <1>1, PathTyped
<1>3. v = {route_path(a.usecase[j]) : j \in P \cup {i}}
  BY <1>1
<1>4. enable_audio_route(a, i) = [a EXCEPT !.paths = v]
  BY <1>1 DEF enable_audio_route, Adevs
<1> HIDE DEF v
<1>5. PICK b : b = enable_audio_route(a, i)
  OBVIOUS
<1>6. /\ b \in Adevs(D) /\ Frame(a, b) /\ b.paths = v /\ b.usecase = a.usecase
      /\ b.snd_dev_ref_cnt = a.snd_dev_ref_cnt /\ b.bit_width = a.bit_width
      /\ b.sidetone = a.sidetone
  BY <1>1, <1>2, <1>4, <1>5, AssignPaths
<1>7. Held(b, D, r, P \cup {i}) /\ Rewired(a, b)
  BY <1>3, <1>6 DEF Held, Rewired
<1> QED  BY <1>5, <1>7

LEMMA RouteOffOf ==
    ASSUME NEW D, NEW a, NEW r, NEW P, Held(a, D, r, P), NEW i \in D
    PROVE  /\ Held(disable_audio_route(a, i), D, r, P \ {i})
           /\ Rewired(a, disable_audio_route(a, i))
<1> DEFINE v == a.paths \ {route_path(a.usecase[i])}
<1>1. /\ a \in Adevs(D) /\ a.paths \in SUBSET MixerPaths
      /\ a.paths = {route_path(a.usecase[j]) : j \in P} /\ P \subseteq D
  BY AdevFields DEF Held
<1>2. v \in SUBSET MixerPaths
  BY <1>1
<1>3. v = {route_path(a.usecase[j]) : j \in P \ {i}}
  <2>1. \A j \in P : route_path(a.usecase[j]) = route_path(a.usecase[i]) <=> j = i
    BY <1>1, PathsDiffer
  <2> QED  BY <1>1, <2>1
<1>4. disable_audio_route(a, i) = [a EXCEPT !.paths = v]
  BY <1>1 DEF disable_audio_route, Adevs
<1> HIDE DEF v
<1>5. PICK b : b = disable_audio_route(a, i)
  OBVIOUS
<1>6. /\ b \in Adevs(D) /\ Frame(a, b) /\ b.paths = v /\ b.usecase = a.usecase
      /\ b.snd_dev_ref_cnt = a.snd_dev_ref_cnt /\ b.bit_width = a.bit_width
      /\ b.sidetone = a.sidetone
  <2>1. a \in Adevs(D) /\ b = [a EXCEPT !.paths = v]
    BY <1>1, <1>4, <1>5
  <2> QED  BY <1>2, <2>1 DEF Adevs, Frame
<1>7. Held(b, D, r, P \ {i}) /\ Rewired(a, b)
  BY <1>3, <1>6 DEF Held, Rewired
<1> QED  BY <1>5, <1>7

\* A use case on another device of one side.
Seated(u, side, d) == IF side = "out_snd_device" THEN [u EXCEPT !.out_snd_device = d]
                      ELSE [u EXCEPT !.in_snd_device = d]

LEMMA SeatedFields ==
    ASSUME NEW u \in UseCaseRecords, NEW side \in Sides,
           NEW d \in DevicesOn(side) \cup {NoDevice}
    PROVE  LET v == Seated(u, side, d)
           IN  /\ v \in UseCaseRecords /\ v.id = u.id /\ v.type = u.type
               /\ v.devices = u.devices /\ v[side] = d
               /\ side = "out_snd_device" => v.in_snd_device = u.in_snd_device
               /\ side = "in_snd_device" => v.out_snd_device = u.out_snd_device
               /\ [u EXCEPT ![side] = d] = v
<1>1. CASE side = "out_snd_device"
  BY <1>1 DEF Seated, UseCaseRecords, DevicesOn
<1>2. CASE side = "in_snd_device"
  BY <1>2 DEF Seated, UseCaseRecords, DevicesOn
<1> QED  BY <1>1, <1>2 DEF Sides

\* The table after the use cases T moved to the devices new.
Reseated(f, T, side, new) ==
  [i \in DOMAIN f |-> IF i \in T THEN Seated(f[i], side, new[i]) ELSE f[i]]

MovedTo(a, b, T, side, new) ==
  /\ Frame(a, b) /\ b.bit_width = a.bit_width /\ b.sidetone = a.sidetone
  /\ b.usecase = Reseated(a.usecase, T, side, new)

LEMMA ReseatedTable ==
    ASSUME NEW D, NEW f \in Tables(D), NEW T, NEW side \in Sides, NEW new,
           \A i \in T \cap D : new[i] \in DevicesOn(side) \cup {NoDevice}
    PROVE  Reseated(f, T, side, new) \in Tables(D)
<1>1. ASSUME NEW i \in D
      PROVE  /\ Reseated(f, T, side, new)[i] \in UseCaseRecords
             /\ Reseated(f, T, side, new)[i].id = i
             /\ Reseated(f, T, side, new)[i].type = TypeOf(i)
  <2>1. f[i] \in UseCaseRecords /\ f[i].id = i /\ f[i].type = TypeOf(i) /\ DOMAIN f = D
    BY DEF Tables
  <2>2. CASE i \in T
    <3>1. Reseated(f, T, side, new)[i] = Seated(f[i], side, new[i])
      BY <2>1, <2>2 DEF Reseated
    <3> QED  BY <2>1, <2>2, <3>1, SeatedFields
  <2>3. CASE i \notin T
    BY <2>1, <2>3 DEF Reseated
  <2> QED  BY <2>2, <2>3
<1>2. DOMAIN f = D /\ DOMAIN Reseated(f, T, side, new) = D
  BY DEF Tables, Reseated
<1>3. Reseated(f, T, side, new) = [i \in D |-> Reseated(f, T, side, new)[i]]
  BY <1>2 DEF Reseated
<1> QED  BY <1>1, <1>3 DEF Tables
\* The holdings r after the use cases T of one side took the devices new.
Over(r, T, side, new) ==
  [k \in DOMAIN r |-> IF k[1] \in T /\ k[2] = side THEN new[k[1]] ELSE r[k]]

LEMMA KeyParts ==
    ASSUME NEW D, NEW k \in Keys(D)
    PROVE  k[1] \in D /\ k[2] \in Sides /\ k = Key(k[1], k[2])
  BY DEF Keys, Key

LEMMA KeyOf ==
    ASSUME NEW D, NEW i \in D, NEW side \in Sides
    PROVE  Key(i, side) \in Keys(D) /\ Key(i, side)[1] = i /\ Key(i, side)[2] = side
  BY DEF Keys, Key

LEMMA OverStep ==
    ASSUME NEW D, NEW r \in Holdings(Keys(D)), NEW T, NEW j \in D, NEW side \in Sides, NEW new
    PROVE  Over(r, T \cup {j}, side, new) = Put(Over(r, T, side, new), Key(j, side), new[j])
<1>1. DOMAIN r = Keys(D)
  BY DEF Holdings
<1>2. ASSUME NEW k \in Keys(D)
      PROVE  (IF k[1] \in T \cup {j} /\ k[2] = side THEN new[k[1]] ELSE r[k])
             = IF k = Key(j, side) THEN new[j]
               ELSE IF k[1] \in T /\ k[2] = side THEN new[k[1]] ELSE r[k]
  <2>1. k = Key(j, side) <=> k[1] = j /\ k[2] = side
    BY KeyParts, KeyOf
  <2> QED  BY <2>1
<1>3. Over(r, T \cup {j}, side, new) =
        [k \in Keys(D) |-> IF k = Key(j, side) THEN new[j]
                           ELSE IF k[1] \in T /\ k[2] = side THEN new[k[1]] ELSE r[k]]
  BY <1>1, <1>2 DEF Over
<1>4. Put(Over(r, T, side, new), Key(j, side), new[j]) =
        [k \in Keys(D) |-> IF k = Key(j, side) THEN new[j]
                           ELSE IF k[1] \in T /\ k[2] = side THEN new[k[1]] ELSE r[k]]
  <2> DEFINE q == [k \in Keys(D) |-> IF k[1] \in T /\ k[2] = side THEN new[k[1]] ELSE r[k]]
  <2>1. Over(r, T, side, new) = q
    BY <1>1 DEF Over
  <2>2. DOMAIN q = Keys(D) /\ Key(j, side) \in Keys(D)
    BY KeyOf
  <2>3. \A k \in Keys(D) : q[k] = IF k[1] \in T /\ k[2] = side THEN new[k[1]] ELSE r[k]
    OBVIOUS
  <2> HIDE DEF q
  <2>4. Put(q, Key(j, side), new[j]) = [k \in Keys(D) |-> IF k = Key(j, side) THEN new[j] ELSE q[k]]
    BY <2>2 DEF Put
  <2> QED  BY <2>1, <2>3, <2>4
<1> QED  BY <1>3, <1>4

LEMMA OverNobody ==
    ASSUME NEW D, NEW r \in Holdings(Keys(D)), NEW side, NEW new
    PROVE  Over(r, {}, side, new) = r
  BY DEF Over, Holdings

LEMMA OverAt ==
    ASSUME NEW D, NEW r \in Holdings(Keys(D)), NEW T, NEW side \in Sides, NEW new,
           NEW j \in D, NEW s \in Sides
    PROVE  Over(r, T, side, new)[Key(j, s)] = IF j \in T /\ s = side THEN new[j] ELSE r[Key(j, s)]
<1>1. DOMAIN r = Keys(D) /\ Key(j, s) \in Keys(D) /\ Key(j, s)[1] = j /\ Key(j, s)[2] = s
  BY KeyOf DEF Holdings
<1> QED  BY <1>1 DEF Over

\* One use case moves to a new device, as its part of the last loop.
LEMMA MoveKeeps ==
    ASSUME NEW D, D \subseteq Ids, NEW a, NEW r, NEW P, Held(a, D, r, P), NEW i \in D, i \notin P,
           NEW side \in Sides, Free(r, Key(i, side)), NEW new, new[i] \in DevicesOn(side)
    PROVE  /\ Held(Move(a, i, side, new[i]), D, Put(r, Key(i, side), new[i]), P \cup {i})
           /\ MovedTo(a, Move(a, i, side, new[i]), {i}, side, new)
<1> DEFINE b == enable_snd_device(a, new[i])
<1> DEFINE v == Reseated(a.usecase, {i}, side, new)
<1> DEFINE q == Put(r, Key(i, side), new[i])
<1>1. Held(b, D, q, P) /\ Rewired(a, b)
  <2>1. new[i] \in SndDevices \cup {NoDevice}
    BY DEF DevicesOn, SndDevices
  <2> QED  BY <2>1, Enabled, KeyOf
<1>2. b \in Adevs(D) /\ b.usecase = a.usecase /\ Frame(a, b) /\ b.bit_width = a.bit_width
      /\ b.sidetone = a.sidetone
  BY <1>1 DEF Held, Rewired
<1>3. a.usecase \in Tables(D) /\ v \in Tables(D) /\ DOMAIN a.usecase = D
  <2>1. a.usecase \in Tables(D)
    BY AdevFields DEF Held
  <2>2. v \in Tables(D)
    BY <2>1, ReseatedTable
  <2> QED  BY <2>1, <2>2 DEF Tables
<1>4. \E c : c = [b EXCEPT !.usecase[i][side] = new[i]]
  OBVIOUS
<1>5. PICK c : c = [b EXCEPT !.usecase[i][side] = new[i]]
  BY <1>4
<1>6. c = [b EXCEPT !.usecase = v]
  <2>1. a.usecase[i] \in UseCaseRecords
    BY <1>3 DEF Tables
  <2>2. [a.usecase[i] EXCEPT ![side] = new[i]] = Seated(a.usecase[i], side, new[i])
    BY <2>1, SeatedFields
  <2>3. [a.usecase EXCEPT ![i] = Seated(a.usecase[i], side, new[i])] = v
    BY <1>3 DEF Reseated
  <2>4. c = [b EXCEPT !.usecase = [b.usecase EXCEPT ![i] = [b.usecase[i] EXCEPT ![side] = new[i]]]]
    BY <1>5
  <2> QED  BY <1>2, <2>2, <2>3, <2>4
<1> HIDE DEF b, v
<1>7. /\ c \in Adevs(D) /\ Frame(b, c) /\ c.usecase = v /\ c.paths = b.paths
      /\ c.snd_dev_ref_cnt = b.snd_dev_ref_cnt /\ c.bit_width = b.bit_width
      /\ c.sidetone = b.sidetone
  BY <1>2, <1>3, <1>6, AssignUsecase
<1>8. \A j \in P : c.usecase[j] = b.usecase[j]
  <2>1. \A j \in P : j # i
    OBVIOUS
  <2>2. P \subseteq D
    BY DEF Held
  <2> QED  BY <1>2, <1>3, <1>7, <2>1, <2>2 DEF v, Reseated
<1>9. Held(c, D, q, P)
  BY <1>1, <1>7, <1>8 DEF Held
<1>10. /\ Held(enable_audio_route(c, i), D, q, P \cup {i})
       /\ Rewired(c, enable_audio_route(c, i))
  BY <1>9, RouteOn
<1>11. Move(a, i, side, new[i]) = enable_audio_route(c, i)
  BY <1>5 DEF Move, b
<1>12. MovedTo(a, enable_audio_route(c, i), {i}, side, new)
  BY <1>2, <1>7, <1>10 DEF Frame, Rewired, v, MovedTo
<1> QED  BY <1>10, <1>11, <1>12
-----------------------------------------------------------------------------
(* The loops over the list. *)

\* Which of T a loop has passed after i rounds.
Past(list, T, i) == {j \in T : \E m \in 1..i : list[m] = j}

LEMMA PastFacts ==
    ASSUME NEW D, NEW list \in Orders(D), NEW T, T \subseteq D
    PROVE  /\ Len(list) \in Nat /\ Past(list, T, 0) = {} /\ Past(list, T, Len(list)) = T
           /\ \A i \in 1..Len(list) :
                 /\ list[i] \in D
                 /\ list[i] \in T => /\ Past(list, T, i) = Past(list, T, i - 1) \cup {list[i]}
                                     /\ list[i] \notin Past(list, T, i - 1)
                 /\ list[i] \notin T => Past(list, T, i) = Past(list, T, i - 1)
<1>1. /\ list \in Seq(D) /\ Len(list) \in Nat /\ DOMAIN list = 1..Len(list)
      /\ \A n, m \in 1..Len(list) : list[n] = list[m] => n = m
      /\ \A i \in D : \E n \in 1..Len(list) : list[n] = i
      /\ \A n \in 1..Len(list) : list[n] \in D
  BY DEF Orders
<1>2. Past(list, T, 0) = {}
  BY DEF Past
<1>3. Past(list, T, Len(list)) = T
  BY <1>1 DEF Past
<1>4. ASSUME NEW i \in 1..Len(list)
      PROVE  /\ list[i] \in D
             /\ list[i] \in T => /\ Past(list, T, i) = Past(list, T, i - 1) \cup {list[i]}
                                 /\ list[i] \notin Past(list, T, i - 1)
             /\ list[i] \notin T => Past(list, T, i) = Past(list, T, i - 1)
  <2>1. \A m : m \in 1..i <=> m \in 1..(i - 1) \/ m = i
    BY <1>1
  <2>2. \A m \in 1..(i - 1) : m \in 1..Len(list) /\ m # i
    BY <1>1
  <2> QED  BY <1>1, <2>1, <2>2 DEF Past
<1> QED  BY <1>1, <1>2, <1>3, <1>4

LEMMA RoutesOffKeeps ==
    ASSUME NEW D, D \subseteq Ids, NEW a, NEW r, NEW P, Held(a, D, r, P), NEW T, T \subseteq D
    PROVE  Held(RoutesOff(a, T), D, r, P \ T) /\ Rewired(a, RoutesOff(a, T))
<1> DEFINE list == a.usecase_list
<1> DEFINE n == Len(list)
<1> DEFINE W == [i \in 0..n |-> {q \in Adevs(D) : Held(q, D, r, P \ Past(list, T, i)) /\ Rewired(a, q)}]
<1> DEFINE Round(q, i) == IF list[i] \in T THEN disable_audio_route(q, list[i]) ELSE q
<1> DEFINE F(g) == [i \in 0..n |-> IF i = 0 THEN a ELSE Round(g[i - 1], i)]
<1> DEFINE after == CHOOSE g : g = F(g)
<1>1. RoutesOff(a, T) = after[n]
  BY DEF RoutesOff, list_for_each
<1>2. list \in Orders(D) /\ n \in Nat
  BY AdevFields, PastFacts DEF Held
<1>3. \A i \in 0..n : \A q : q \in W[i] <=> q \in Adevs(D) /\ Held(q, D, r, P \ Past(list, T, i)) /\ Rewired(a, q)
  OBVIOUS
<1>4. /\ Past(list, T, 0) = {} /\ Past(list, T, n) = T
      /\ \A i \in 1..n :
            /\ list[i] \in D
            /\ list[i] \in T => /\ Past(list, T, i) = Past(list, T, i - 1) \cup {list[i]}
                                /\ list[i] \notin Past(list, T, i - 1)
            /\ list[i] \notin T => Past(list, T, i) = Past(list, T, i - 1)
  <2>1. list \in Orders(D)
    BY <1>2
  <2> HIDE DEF W, list
  <2> QED  BY <2>1, PastFacts
<1> HIDE DEF W, n, list
<1>5. a \in W[0]
  <2>1. P \ Past(list, T, 0) = P /\ Rewired(a, a) /\ a \in Adevs(D)
    BY <1>4 DEF Rewired, Frame, Held
  <2> QED  BY <1>2, <1>3, <2>1
<1>6. ASSUME NEW i \in 1..n, NEW q \in W[i - 1] PROVE Round(q, i) \in W[i]
  <2>0. i - 1 \in 0..n /\ i \in 0..n
    BY <1>2
  <2>1. Held(q, D, r, P \ Past(list, T, i - 1)) /\ Rewired(a, q) /\ list[i] \in D
    BY <1>3, <1>4, <2>0
  <2>2. CASE list[i] \in T
    <3>1. /\ Held(Round(q, i), D, r, (P \ Past(list, T, i - 1)) \ {list[i]})
          /\ Rewired(q, Round(q, i))
      BY <2>1, <2>2, RouteOffOf
    <3>2. (P \ Past(list, T, i - 1)) \ {list[i]} = P \ Past(list, T, i)
      BY <1>4, <2>2
    <3> HIDE DEF Round
    <3>3. Rewired(a, Round(q, i)) /\ Round(q, i) \in Adevs(D)
      BY <2>1, <3>1 DEF Rewired, Frame, Held
    <3> QED  BY <1>3, <2>0, <3>1, <3>2, <3>3
  <2>3. CASE list[i] \notin T
    <3>1. Past(list, T, i - 1) = Past(list, T, i) /\ Round(q, i) = q
      BY <1>4, <2>3
    <3> QED  BY <1>3, <2>0, <2>1, <3>1
  <2> QED  BY <2>2, <2>3
<1> HIDE DEF Round
<1> DEFINE step == [i \in 1..n |-> [q \in W[i - 1] |-> Round(q, i)]]
<1>7. \A i \in 1..n : \A q \in W[i - 1] : step[i][q] = Round(q, i) /\ step[i][q] \in W[i]
  BY <1>6
<1> HIDE DEF step
<1>8. PICK g : Leads(g, a, n, step, W)
  <2>1. \A i \in 1..n : \A q \in W[i - 1] : step[i][q] \in W[i]
    BY <1>7
  <2> HIDE DEF after, F
  <2> QED  BY <1>2, <1>5, <2>1, LoopEnds
<1>9. after = F(after)
  <2>1. ASSUME NEW i \in 0..n, i # 0 PROVE step[i][g[i - 1]] = Round(g[i - 1], i)
    <3>1. i \in 1..n /\ i - 1 \in 0..n
      BY <1>2, <2>1
    <3> QED  BY <1>7, <1>8, <3>1 DEF Leads
  <2>2. g = F(g)
    BY <1>8, <2>1 DEF Leads
  <2> HIDE DEF F
  <2> QED  BY <2>2
<1> HIDE DEF after
<1>10. after[n] \in W[n]
  <2> DEFINE Good == {i \in 0..n : after[i] \in W[i]}
  <2>1. 0 \in Good /\ after[0] = a
    BY <1>2, <1>5, <1>9
  <2>2. ASSUME NEW i \in 1..n, i - 1 \in Good PROVE i \in Good
    <3>1. i \in 0..n /\ after[i] = Round(after[i - 1], i) /\ after[i - 1] \in W[i - 1]
      BY <1>2, <1>9, <2>2
    <3> QED  BY <1>6, <3>1
  <2>3. \A i \in 0..n : i \in Good
    <3> HIDE DEF Good
    <3> QED  BY <1>2, <2>1, <2>2, RoundByRound
  <2> QED  BY <1>2, <2>3
<1>11. Held(after[n], D, r, P \ Past(list, T, n)) /\ Rewired(a, after[n])
  BY <1>2, <1>3, <1>10
<1> QED  BY <1>1, <1>4, <1>11


LEMMA DevicesOffKeeps ==
    ASSUME NEW D, D \subseteq Ids, NEW a, NEW r, NEW P, Held(a, D, r, P), NEW T, T \subseteq D,
           NEW side \in Sides, SitsOn(r, a.usecase, T, side),
           NEW new, \A i \in T : new[i] = NoDevice
    PROVE  /\ Held(DevicesOff(a, T, side), D, Over(r, T, side, new), P)
           /\ Rewired(a, DevicesOff(a, T, side))
<1> DEFINE list == a.usecase_list
<1> DEFINE n == Len(list)
<1> DEFINE W == [i \in 0..n |-> {q \in Adevs(D) : Held(q, D, Over(r, Past(list, T, i), side, new), P) /\ Rewired(a, q)}]
<1> DEFINE Round(q, i) == IF list[i] \in T THEN disable_snd_device(q, q.usecase[list[i]][side]) ELSE q
<1> DEFINE F(g) == [i \in 0..n |-> IF i = 0 THEN a ELSE Round(g[i - 1], i)]
<1> DEFINE after == CHOOSE g : g = F(g)
<1>1. DevicesOff(a, T, side) = after[n]
  BY DEF DevicesOff, list_for_each
<1>2. list \in Orders(D) /\ n \in Nat
  BY AdevFields, PastFacts DEF Held
<1>3. \A i \in 0..n : \A q : q \in W[i] <=> q \in Adevs(D) /\ Held(q, D, Over(r, Past(list, T, i), side, new), P) /\ Rewired(a, q)
  OBVIOUS
<1>4. /\ Past(list, T, 0) = {} /\ Past(list, T, n) = T
      /\ \A i \in 1..n :
            /\ list[i] \in D
            /\ list[i] \in T => /\ Past(list, T, i) = Past(list, T, i - 1) \cup {list[i]}
                                /\ list[i] \notin Past(list, T, i - 1)
            /\ list[i] \notin T => Past(list, T, i) = Past(list, T, i - 1)
  <2>1. list \in Orders(D)
    BY <1>2
  <2> HIDE DEF W, list
  <2> QED  BY <2>1, PastFacts
<1> HIDE DEF W, n, list
<1>5. a \in W[0]
  <2>1. Over(r, {}, side, new) = r /\ a \in Adevs(D) /\ Rewired(a, a)
    BY OverNobody DEF Rewired, Frame, Held
  <2>2. Held(a, D, Over(r, Past(list, T, 0), side, new), P)
    BY <1>4, <2>1
  <2> QED  BY <1>2, <1>3, <2>1, <2>2
<1>6. ASSUME NEW i \in 1..n, NEW q \in W[i - 1] PROVE Round(q, i) \in W[i]
  <2>0. i - 1 \in 0..n /\ i \in 0..n
    BY <1>2
  <2>1. /\ Held(q, D, Over(r, Past(list, T, i - 1), side, new), P) /\ Rewired(a, q)
        /\ list[i] \in D /\ r \in Holdings(Keys(D))
    BY <1>3, <1>4, <2>0 DEF Held
  <2>2. CASE list[i] \in T
    <3> DEFINE j == list[i]
    <3> DEFINE s == Over(r, Past(list, T, i - 1), side, new)
    <3>1. s[Key(j, side)] = q.usecase[j][side]
      <4>1. s[Key(j, side)] = r[Key(j, side)]
        BY <1>4, <2>1, <2>2, OverAt
      <4>2. q.usecase = a.usecase
        BY <2>1 DEF Rewired
      <4> QED  BY <2>2, <4>1, <4>2 DEF SitsOn
    <3>2. Key(j, side) \in Keys(D)
      BY <2>1, KeyOf
    <3>3. Put(s, Key(j, side), NoDevice) = Over(r, Past(list, T, i), side, new)
      <4>1. new[j] = NoDevice /\ Past(list, T, i) = Past(list, T, i - 1) \cup {j}
        BY <1>4, <2>2
      <4>2. Over(r, Past(list, T, i - 1) \cup {j}, side, new) = Put(s, Key(j, side), new[j])
        <5>1. PICK p : p = Past(list, T, i - 1)
          OBVIOUS
        <5>2. j \in D /\ r \in Holdings(Keys(D))
          BY <2>1
        <5> HIDE DEF j
        <5>3. Over(r, p \cup {j}, side, new) = Put(Over(r, p, side, new), Key(j, side), new[j])
          BY <5>2, OverStep
        <5> QED  BY <5>1, <5>3
      <4> QED  BY <4>1, <4>2
    <3> HIDE DEF s
    <3>4. /\ Held(disable_snd_device(q, q.usecase[j][side]), D, Put(s, Key(j, side), NoDevice), P)
          /\ Rewired(q, disable_snd_device(q, q.usecase[j][side]))
      BY <2>1, <3>1, <3>2, Disabled DEF s
    <3>5. Round(q, i) = disable_snd_device(q, q.usecase[j][side])
      BY <2>2
    <3> HIDE DEF Round, j
    <3>6. Rewired(a, Round(q, i)) /\ Round(q, i) \in Adevs(D)
      BY <2>1, <3>4, <3>5 DEF Rewired, Frame, Held
    <3> QED  BY <1>3, <2>0, <3>3, <3>4, <3>5, <3>6
  <2>3. CASE list[i] \notin T
    <3>1. Past(list, T, i - 1) = Past(list, T, i) /\ Round(q, i) = q
      BY <1>4, <2>3
    <3> QED  BY <1>3, <2>0, <2>1, <3>1
  <2> QED  BY <2>2, <2>3
<1> HIDE DEF Round
<1> DEFINE step == [i \in 1..n |-> [q \in W[i - 1] |-> Round(q, i)]]
<1>7. \A i \in 1..n : \A q \in W[i - 1] : step[i][q] = Round(q, i) /\ step[i][q] \in W[i]
  BY <1>6
<1> HIDE DEF step
<1>8. PICK g : Leads(g, a, n, step, W)
  <2>1. \A i \in 1..n : \A q \in W[i - 1] : step[i][q] \in W[i]
    BY <1>7
  <2> HIDE DEF after, F
  <2> QED  BY <1>2, <1>5, <2>1, LoopEnds
<1>9. after = F(after)
  <2>1. ASSUME NEW i \in 0..n, i # 0 PROVE step[i][g[i - 1]] = Round(g[i - 1], i)
    <3>1. i \in 1..n /\ i - 1 \in 0..n
      BY <1>2, <2>1
    <3> QED  BY <1>7, <1>8, <3>1 DEF Leads
  <2>2. g = F(g)
    BY <1>8, <2>1 DEF Leads
  <2> HIDE DEF F
  <2> QED  BY <2>2
<1> HIDE DEF after
<1>10. after[n] \in W[n]
  <2> DEFINE Good == {i \in 0..n : after[i] \in W[i]}
  <2>1. 0 \in Good /\ after[0] = a
    BY <1>2, <1>5, <1>9
  <2>2. ASSUME NEW i \in 1..n, i - 1 \in Good PROVE i \in Good
    <3>1. i \in 0..n /\ after[i] = Round(after[i - 1], i) /\ after[i - 1] \in W[i - 1]
      BY <1>2, <1>9, <2>2
    <3> QED  BY <1>6, <3>1
  <2>3. \A i \in 0..n : i \in Good
    <3> HIDE DEF Good
    <3> QED  BY <1>2, <2>1, <2>2, RoundByRound
  <2> QED  BY <1>2, <2>3
<1>11. /\ Held(after[n], D, Over(r, Past(list, T, n), side, new), P)
       /\ Rewired(a, after[n])
  BY <1>2, <1>3, <1>10
<1> QED  BY <1>1, <1>4, <1>11


LEMMA MovedKeeps ==
    ASSUME NEW D, D \subseteq Ids, NEW a, NEW r, NEW P, Held(a, D, r, P), NEW T, T \subseteq D,
           T \cap P = {}, NEW side \in Sides, \A i \in T : Free(r, Key(i, side)),
           NEW new, \A i \in T : new[i] \in DevicesOn(side)
    PROVE  /\ Held(Moved(a, T, side, new), D, Over(r, T, side, new), P \cup T)
           /\ MovedTo(a, Moved(a, T, side, new), T, side, new)
<1> DEFINE list == a.usecase_list
<1> DEFINE n == Len(list)
<1> DEFINE Reached(q, i) == /\ Held(q, D, Over(r, Past(list, T, i), side, new), P \cup Past(list, T, i))
                            /\ MovedTo(a, q, Past(list, T, i), side, new)
<1> DEFINE W == [i \in 0..n |-> {q \in Adevs(D) : Reached(q, i)}]
<1> DEFINE Round(q, i) == IF list[i] \in T THEN Move(q, list[i], side, new[list[i]]) ELSE q
<1> DEFINE F(g) == [i \in 0..n |-> IF i = 0 THEN a ELSE Round(g[i - 1], i)]
<1> DEFINE after == CHOOSE g : g = F(g)
<1>1. Moved(a, T, side, new) = after[n]
  BY DEF Moved, list_for_each
<1>2. list \in Orders(D) /\ n \in Nat
  BY AdevFields, PastFacts DEF Held
<1>3. \A i \in 0..n : \A q : q \in W[i] <=> q \in Adevs(D) /\ Reached(q, i)
  OBVIOUS
<1>4. /\ Past(list, T, 0) = {} /\ Past(list, T, n) = T
      /\ \A i \in 1..n :
            /\ list[i] \in D
            /\ list[i] \in T => /\ Past(list, T, i) = Past(list, T, i - 1) \cup {list[i]}
                                /\ list[i] \notin Past(list, T, i - 1)
            /\ list[i] \notin T => Past(list, T, i) = Past(list, T, i - 1)
  <2>1. list \in Orders(D)
    BY <1>2
  <2> HIDE DEF W, list
  <2> QED  BY <2>1, PastFacts
<1> HIDE DEF W, n, list
<1>5. a \in W[0]
  <2>1. Over(r, {}, side, new) = r /\ MovedTo(a, a, {}, side, new)
        /\ a \in Adevs(D) /\ P \cup {} = P
    BY OverNobody, AdevFields DEF Frame, Held, Reseated, Tables, MovedTo
  <2>2. Reached(a, 0)
    BY <1>4, <2>1
  <2> HIDE DEF Reached
  <2> QED  BY <1>2, <1>3, <2>1, <2>2
<1>6. ASSUME NEW i \in 1..n, NEW q \in W[i - 1] PROVE Round(q, i) \in W[i]
  <2>0. i - 1 \in 0..n /\ i \in 0..n
    BY <1>2
  <2>1. Reached(q, i - 1) /\ list[i] \in D /\ r \in Holdings(Keys(D))
    <3> HIDE DEF Reached
    <3> QED  BY <1>3, <1>4, <2>0 DEF Held
  <2> HIDE DEF Reached
  <2>2. CASE list[i] \in T
    <3> DEFINE j == list[i]
    <3> DEFINE p == Past(list, T, i - 1)
    <3> DEFINE s == Over(r, p, side, new)
    <3>1. j \in D /\ j \notin P \cup p /\ new[j] \in DevicesOn(side) /\ j \notin p
          /\ Free(r, Key(j, side)) /\ r \in Holdings(Keys(D))
      BY <1>4, <2>1, <2>2
    <3>0. Past(list, T, i) = p \cup {j}
      BY <1>4, <2>2
    <3> HIDE DEF j, p
    <3>2. Free(s, Key(j, side))
      BY <3>1, OverAt DEF Free
    <3> HIDE DEF s
    <3> DEFINE b == Move(q, j, side, new[j])
    <3>3. /\ Held(q, D, s, P \cup p) /\ MovedTo(a, q, p, side, new)
      BY <2>1 DEF p, s, Reached
    <3>4. /\ Held(b, D, Put(s, Key(j, side), new[j]), (P \cup p) \cup {j})
          /\ MovedTo(q, b, {j}, side, new)
      <4>1. PICK e : e = P \cup p
        OBVIOUS
      <4>2. j \in D /\ j \notin e /\ new[j] \in DevicesOn(side) /\ Held(q, D, s, e)
        BY <3>1, <3>3, <4>1
      <4>3. /\ Held(b, D, Put(s, Key(j, side), new[j]), e \cup {j})
            /\ MovedTo(q, b, {j}, side, new)
        BY <3>2, <4>2, MoveKeeps
      <4> QED  BY <4>1, <4>3
    <3>5. Put(s, Key(j, side), new[j]) = Over(r, p \cup {j}, side, new)
      <4>1. j \in D /\ r \in Holdings(Keys(D))
        BY <3>1
      <4> QED  BY <4>1, OverStep DEF s
    <3>7. (P \cup p) \cup {j} = P \cup (p \cup {j})
      OBVIOUS
    <3> HIDE DEF b
    <3>8. MovedTo(a, b, p \cup {j}, side, new)
      <4>1. DOMAIN a.usecase = D /\ j \notin p /\ j \in D
        BY <3>1, AdevFields DEF Held, Tables
      <4>2. Reseated(q.usecase, {j}, side, new) = Reseated(a.usecase, p \cup {j}, side, new)
        BY <3>3, <4>1 DEF MovedTo, Reseated
      <4>3. /\ Frame(a, q) /\ q.bit_width = a.bit_width /\ Frame(q, b)
            /\ b.bit_width = q.bit_width /\ b.usecase = Reseated(q.usecase, {j}, side, new)
            /\ q.sidetone = a.sidetone /\ b.sidetone = q.sidetone
        BY <3>3, <3>4 DEF MovedTo
      <4> QED  BY <4>2, <4>3 DEF MovedTo, Frame
    <3>9. Reached(b, i) /\ b \in Adevs(D)
      BY <3>0, <3>4, <3>5, <3>7, <3>8 DEF Reached, Held
    <3>10. Round(q, i) = b
      BY <2>2 DEF b, j
    <3> QED  BY <1>3, <2>0, <3>9, <3>10
  <2>3. CASE list[i] \notin T
    <3>1. Past(list, T, i - 1) = Past(list, T, i) /\ Round(q, i) = q
      BY <1>4, <2>3
    <3>2. Reached(q, i) /\ q \in Adevs(D)
      BY <2>1, <3>1 DEF Held, Reached
    <3> QED  BY <1>3, <2>0, <3>1, <3>2
  <2> QED  BY <2>2, <2>3
<1> HIDE DEF Round, Reached
<1> DEFINE step == [i \in 1..n |-> [q \in W[i - 1] |-> Round(q, i)]]
<1>7. \A i \in 1..n : \A q \in W[i - 1] : step[i][q] = Round(q, i) /\ step[i][q] \in W[i]
  BY <1>6
<1> HIDE DEF step
<1>8. PICK g : Leads(g, a, n, step, W)
  <2>1. \A i \in 1..n : \A q \in W[i - 1] : step[i][q] \in W[i]
    BY <1>7
  <2> HIDE DEF after, F
  <2> QED  BY <1>2, <1>5, <2>1, LoopEnds
<1>9. after = F(after)
  <2>1. ASSUME NEW i \in 0..n, i # 0 PROVE step[i][g[i - 1]] = Round(g[i - 1], i)
    <3>1. i \in 1..n /\ i - 1 \in 0..n
      BY <1>2, <2>1
    <3> QED  BY <1>7, <1>8, <3>1 DEF Leads
  <2>2. g = F(g)
    BY <1>8, <2>1 DEF Leads
  <2> HIDE DEF F
  <2> QED  BY <2>2
<1> HIDE DEF after
<1>10. after[n] \in W[n]
  <2> DEFINE Good == {i \in 0..n : after[i] \in W[i]}
  <2>1. 0 \in Good /\ after[0] = a
    BY <1>2, <1>5, <1>9
  <2>2. ASSUME NEW i \in 1..n, i - 1 \in Good PROVE i \in Good
    <3>1. i \in 0..n /\ after[i] = Round(after[i - 1], i) /\ after[i - 1] \in W[i - 1]
      BY <1>2, <1>9, <2>2
    <3> QED  BY <1>6, <3>1
  <2>3. \A i \in 0..n : i \in Good
    <3> HIDE DEF Good
    <3> QED  BY <1>2, <2>1, <2>2, RoundByRound
  <2> QED  BY <1>2, <2>3
<1>11. Reached(after[n], n)
  BY <1>2, <1>3, <1>10
<1> QED  BY <1>1, <1>4, <1>11 DEF Reached
-----------------------------------------------------------------------------
(* Making room. *)

LEMMA OverAgain ==
    ASSUME NEW D, NEW r \in Holdings(Keys(D)), NEW T, NEW side, NEW none, NEW new
    PROVE  Over(Over(r, T, side, none), T, side, new) = Over(r, T, side, new)
<1>1. DOMAIN r = Keys(D) /\ DOMAIN Over(r, T, side, none) = Keys(D)
  BY DEF Over, Holdings
<1>2. \A k \in Keys(D) : Over(r, T, side, none)[k] =
         IF k[1] \in T /\ k[2] = side THEN none[k[1]] ELSE r[k]
  BY <1>1 DEF Over
<1> QED  BY <1>1, <1>2 DEF Over

LEMMA RerouteKeeps ==
    ASSUME NEW D, D \subseteq Ids, NEW a, NEW r, NEW P, Held(a, D, r, P), NEW T, T \subseteq P,
           NEW side \in Sides, SitsOn(r, a.usecase, T, side),
           NEW new, \A i \in T : new[i] \in DevicesOn(side)
    PROVE  /\ Held(Reroute(a, T, side, new), D, Over(r, T, side, new), P)
           /\ MovedTo(a, Reroute(a, T, side, new), T, side, new)
<1> DEFINE x == RoutesOff(a, T)
<1> DEFINE y == DevicesOff(x, T, side)
<1> DEFINE z == Moved(y, T, side, new)
<1>1. P \subseteq D /\ T \subseteq D /\ r \in Holdings(Keys(D)) /\ a \in Adevs(D)
  BY DEF Held
<1>2. Held(x, D, r, P \ T) /\ Rewired(a, x)
  BY <1>1, RoutesOffKeeps
<1>3. SitsOn(r, x.usecase, T, side)
  BY <1>2 DEF Rewired
<1> HIDE DEF x
<1>4. PICK none : none = [i \in T |-> NoDevice]
  OBVIOUS
<1>5. \A i \in T : none[i] = NoDevice
  BY <1>4
<1>6. /\ Held(y, D, Over(r, T, side, none), P \ T) /\ Rewired(x, y)
  BY <1>1, <1>2, <1>3, <1>5, DevicesOffKeeps
<1> HIDE DEF y
<1>7. ASSUME NEW i \in T PROVE Free(Over(r, T, side, none), Key(i, side))
  BY <1>1, <1>5, OverAt DEF Free
<1>8. /\ Held(z, D, Over(Over(r, T, side, none), T, side, new), (P \ T) \cup T)
      /\ MovedTo(y, z, T, side, new)
  <2>1. PICK p : p = P \ T
    OBVIOUS
  <2>2. p \cap T = {} /\ Held(y, D, Over(r, T, side, none), p)
    BY <1>6, <2>1
  <2>3. \A i \in T : Free(Over(r, T, side, none), Key(i, side))
    BY <1>7
  <2>4. /\ Held(z, D, Over(Over(r, T, side, none), T, side, new), p \cup T)
        /\ MovedTo(y, z, T, side, new)
    BY <1>1, <2>2, <2>3, MovedKeeps
  <2> QED  BY <2>1, <2>4
<1> HIDE DEF z
<1>9. (P \ T) \cup T = P
  OBVIOUS
<1>10. Over(Over(r, T, side, none), T, side, new) = Over(r, T, side, new)
  BY <1>1, OverAgain
<1>11. MovedTo(a, z, T, side, new)
  BY <1>2, <1>6, <1>8 DEF MovedTo, Rewired, Frame
<1>12. Reroute(a, T, side, new) = z
  BY DEF Reroute, x, y, z
<1> QED  BY <1>8, <1>9, <1>10, <1>11, <1>12
-----------------------------------------------------------------------------
(* A use case changes its devices. *)

\* A use case on devices that fit its type; one on none.
Placed(u) ==
  /\ u.out_snd_device = NoDevice <=> u.type = "PCM_CAPTURE"
  /\ u.type = "PCM_CAPTURE" => u.in_snd_device # NoDevice
  /\ u.type = "PCM_PLAYBACK" => u.in_snd_device = NoDevice
Unplaced(u) == u.out_snd_device = NoDevice /\ u.in_snd_device = NoDevice

\* Of the use cases S those of P are placed and the others are not.
Seating(f, P, S) == \A j \in S : IF j \in P THEN Placed(f[j]) ELSE Unplaced(f[j])

\* The use cases S that capture over one backend do so on one device.
Sharing(f, S) ==
  \A j, k \in S : platform_check_backends_match(f[j].in_snd_device, f[k].in_snd_device)
                    => f[j].in_snd_device = f[k].in_snd_device

Holds(r, k, d) == r[k] = d
Sits(r, f, S) == SitsOn(r, f, S, "out_snd_device") /\ SitsOn(r, f, S, "in_snd_device")

\* The use case i is off its path and holds the devices o and n, the others
\* have the devices of their entries.
OpenWith(a, D, r, P, i, o, n) ==
  /\ Held(a, D, r, P) /\ i \in D /\ i \notin P
  /\ Sits(r, a.usecase, D \ {i}) /\ Seating(a.usecase, P, D \ {i})
  /\ Sharing(a.usecase, D \ {i})
  /\ Holds(r, Key(i, "out_snd_device"), o) /\ Holds(r, Key(i, "in_snd_device"), n)
OpenAt(a, D, P, i, o, n) == \E r : OpenWith(a, D, r, P, i, o, n)

LEMMA EntryFields ==
    ASSUME NEW D, NEW a, NEW r, NEW P, Held(a, D, r, P), NEW j \in D
    PROVE  /\ a.usecase[j] \in UseCaseRecords /\ DOMAIN a.usecase = D
           /\ a.usecase[j].id = j /\ a.usecase[j].type = TypeOf(j)
           /\ a.usecase[j].out_snd_device \in OutSndDevices \cup {NoDevice}
           /\ a.usecase[j].in_snd_device \in InSndDevices \cup {NoDevice}
  BY TableFields DEF Held

\* A loop of check_and_route_*_usecases as the other use cases see it.
LEMMA RoomMade ==
    ASSUME NEW D, D \subseteq Ids, NEW a, NEW P, NEW i, NEW o, NEW n,
           OpenAt(a, D, P, i, o, n), NEW T, T \subseteq P, NEW side \in Sides,
           NEW new, \A j \in T : new[j] \in DevicesOn(side) /\ new[j] # NoDevice,
           \A j \in T : Placed(Seated(a.usecase[j], side, new[j])),
           Sharing(Reseated(a.usecase, T, side, new), D \ {i})
    PROVE  /\ OpenAt(Reroute(a, T, side, new), D, P, i, o, n)
           /\ MovedTo(a, Reroute(a, T, side, new), T, side, new)
<1> DEFINE b == Reroute(a, T, side, new)
<1> DEFINE v == Reseated(a.usecase, T, side, new)
<1>1. PICK r : OpenWith(a, D, r, P, i, o, n)
  BY DEF OpenAt
<1>2. /\ Held(a, D, r, P) /\ i \in D /\ i \notin P /\ P \subseteq D /\ T \subseteq D \ {i}
      /\ Sits(r, a.usecase, D \ {i}) /\ Seating(a.usecase, P, D \ {i})
      /\ r \in Holdings(Keys(D)) /\ DOMAIN a.usecase = D
  BY <1>1, EntryFields DEF OpenWith, Held
<1>3. SitsOn(r, a.usecase, T, side)
  BY <1>2 DEF Sits, SitsOn, Sides
<1>4. Held(b, D, Over(r, T, side, new), P) /\ MovedTo(a, b, T, side, new)
  BY <1>2, <1>3, RerouteKeeps
<1>5. b.usecase = v
  BY <1>4 DEF MovedTo
<1>6. \A j \in D : v[j] = IF j \in T THEN Seated(a.usecase[j], side, new[j]) ELSE a.usecase[j]
  BY <1>2 DEF Reseated
<1> HIDE DEF b, v
<1>7. Seating(v, P, D \ {i})
  BY <1>2, <1>6 DEF Seating
<1>8. ASSUME NEW j \in D \ {i}, NEW s \in Sides
      PROVE  Over(r, T, side, new)[Key(j, s)] = v[j][s]
  <2>1. Over(r, T, side, new)[Key(j, s)] = IF j \in T /\ s = side THEN new[j] ELSE r[Key(j, s)]
    BY <1>2, OverAt
  <2>2. r[Key(j, s)] = a.usecase[j][s]
    BY <1>2 DEF Sits, SitsOn, Sides
  <2>3. CASE j \notin T
    BY <1>6, <2>1, <2>2, <2>3
  <2>4. CASE j \in T
    <3>1. v[j] = Seated(a.usecase[j], side, new[j])
      BY <1>6, <2>4
    <3>2. a.usecase[j] \in UseCaseRecords
      BY <1>2, EntryFields
    <3>3. /\ v[j][side] = new[j]
          /\ side = "out_snd_device" => v[j].in_snd_device = a.usecase[j].in_snd_device
          /\ side = "in_snd_device" => v[j].out_snd_device = a.usecase[j].out_snd_device
      BY <2>4, <3>1, <3>2, SeatedFields
    <3>4. s # side => v[j][s] = a.usecase[j][s]
      BY <3>3 DEF Sides
    <3> QED  BY <2>1, <2>2, <2>4, <3>3, <3>4
  <2> QED  BY <2>3, <2>4
<1>9. Sits(Over(r, T, side, new), v, D \ {i})
  BY <1>8 DEF Sits, SitsOn, Sides
<1>10. ASSUME NEW s \in Sides PROVE Over(r, T, side, new)[Key(i, s)] = r[Key(i, s)]
  BY <1>2, OverAt
<1>11. /\ Holds(Over(r, T, side, new), Key(i, "out_snd_device"), o)
       /\ Holds(Over(r, T, side, new), Key(i, "in_snd_device"), n)
  BY <1>1, <1>10 DEF OpenWith, Holds, Sides
<1>12. OpenWith(b, D, Over(r, T, side, new), P, i, o, n)
  BY <1>2, <1>4, <1>5, <1>7, <1>9, <1>11 DEF OpenWith, v
<1> QED  BY <1>4, <1>12 DEF OpenAt, b

LEMMA SideNames ==
    /\ "out_snd_device" \in Sides /\ "in_snd_device" \in Sides
    /\ DevicesOn("out_snd_device") = OutSndDevices /\ DevicesOn("in_snd_device") = InSndDevices
    /\ NoDevice \notin OutSndDevices /\ NoDevice \notin InSndDevices
    /\ OutSndDevices \subseteq SndDevices /\ InSndDevices \subseteq SndDevices
  BY DEF Sides, DevicesOn, NoDevice, OutSndDevices, InSndDevices, SndDevices

LEMMA PutAt ==
    ASSUME NEW D, NEW r \in Holdings(Keys(D)), NEW i \in D, NEW s \in Sides, NEW d,
           NEW j \in D, NEW t \in Sides
    PROVE  Put(r, Key(i, s), d)[Key(j, t)] = IF j = i /\ t = s THEN d ELSE r[Key(j, t)]
<1>1. DOMAIN r = Keys(D) /\ Key(i, s) \in Keys(D) /\ Key(j, t) \in Keys(D)
  BY KeyOf DEF Holdings
<1>2. Key(j, t) = Key(i, s) <=> j = i /\ t = s
  BY DEF Key
<1> QED  BY <1>1, <1>2 DEF Put

LEMMA PutElsewhere ==
    ASSUME NEW D, NEW r \in Holdings(Keys(D)), NEW i \in D, NEW s \in Sides, NEW d, NEW f
    PROVE  /\ Sits(r, f, D \ {i}) => Sits(Put(r, Key(i, s), d), f, D \ {i})
           /\ Holds(Put(r, Key(i, s), d), Key(i, s), d)
           /\ \A t \in Sides : \A e : t # s /\ Holds(r, Key(i, t), e)
                                    => Holds(Put(r, Key(i, s), d), Key(i, t), e)
<1>1. \A j \in D \ {i}, t \in Sides : Put(r, Key(i, s), d)[Key(j, t)] = r[Key(j, t)]
  BY PutAt
<1>2. \A t \in Sides : t # s => Put(r, Key(i, s), d)[Key(i, t)] = r[Key(i, t)]
  BY PutAt
<1>3. Put(r, Key(i, s), d)[Key(i, s)] = d
  BY PutAt
<1>4. Sits(r, f, D \ {i}) => Sits(Put(r, Key(i, s), d), f, D \ {i})
  BY <1>1 DEF Sits, SitsOn, Sides
<1> QED  BY <1>2, <1>3, <1>4 DEF Holds

\* The devices of the stream a use case plays for.
StreamOf(i) == IF TypeOf(i) = "VOICE_CALL" THEN primary_output ELSE i
Asked(a, i) == a.out[StreamOf(i)].devices

\* The use cases kept their microphones, and their outputs but for those that had
\* to make room for i on d.
MadeRoom(a, b, D, i, d) ==
  /\ b.sidetone = a.sidetone
  /\ \A j \in D :
        /\ b.usecase[j].devices = a.usecase[j].devices
        /\ b.usecase[j].in_snd_device = a.usecase[j].in_snd_device
        /\ \/ b.usecase[j].out_snd_device = a.usecase[j].out_snd_device
           \/ b.usecase[j].out_snd_device =
                SharedSndDevice(a.usecase[j].out_snd_device, d, Asked(a, j), Asked(a, i))

\* check_and_route_playback_usecases moves other use cases that play.
LEMMA PlaybackRoom ==
    ASSUME NEW D, D \subseteq Ids, NEW a, NEW P, NEW i, NEW o, NEW n,
           OpenAt(a, D, P, i, o, n), D \ {i} \subseteq P, NEW d \in OutSndDevices
    PROVE  LET b == check_and_route_playback_usecases(a, i, d)
           IN  OpenAt(b, D, P, i, o, n) /\ Frame(a, b) /\ MadeRoom(a, b, D, i, d)
<1> DEFINE x == platform_check_and_set_playback_backend_cfg(a, d)
<1>1. PICK r : OpenWith(a, D, r, P, i, o, n)
  BY DEF OpenAt
<1>2. a \in Adevs(D) /\ i \in D /\ i \notin P /\ P \subseteq D
  BY <1>1 DEF OpenWith, Held
<1>3. x \in Adevs(D) /\ Frame(a, x) /\ x.usecase = a.usecase /\ x.paths = a.paths
      /\ x.snd_dev_ref_cnt = a.snd_dev_ref_cnt /\ x.sidetone = a.sidetone
  <2>1. CASE x = a
    BY <1>2, <2>1 DEF Frame
  <2>2. CASE x # a
    <3>1. PICK w \in {16, 24} : x = [a EXCEPT !.bit_width = w]
      BY <2>2 DEF platform_check_and_set_playback_backend_cfg, backend_bit_width
    <3> HIDE DEF x
    <3> QED  BY <1>2, <3>1, AssignWidth
  <2> QED  BY <2>1, <2>2
<1> HIDE DEF x
<1>4. OpenWith(x, D, r, P, i, o, n)
  BY <1>1, <1>3 DEF OpenWith, Held
<1>5. OpenAt(x, D, P, i, o, n) /\ Held(x, D, r, P)
  BY <1>4 DEF OpenAt, OpenWith
<1>6. PICK force : force = (x.bit_width # a.bit_width)
  OBVIOUS
<1> DEFINE T == PlaybackTargets(x, i, d, force)
<1> DEFINE new == [j \in T |->
                     derive_playback_snd_device(x, x.usecase[j], x.usecase[i], d)]
<1>7. T \subseteq P /\ i \notin T /\ \A j \in T : j \in D /\ ~ IsCapture(x.usecase[j])
  <2>1. DOMAIN x.usecase = D
    BY <1>2, <1>5, EntryFields
  <2> QED  BY <2>1 DEF PlaybackTargets
<1>8. ASSUME NEW j \in T
      PROVE  /\ new[j] \in OutSndDevices
             /\ Placed(Seated(x.usecase[j], "out_snd_device", new[j]))
  <2>1. Placed(x.usecase[j]) /\ x.usecase[j] \in UseCaseRecords
        /\ x.usecase[j].out_snd_device \in OutSndDevices \cup {NoDevice}
        /\ x.usecase[j].type # "PCM_CAPTURE"
    BY <1>4, <1>5, <1>7, EntryFields DEF OpenWith, Seating, IsCapture
  <2>2. x.usecase[j].out_snd_device \in OutSndDevices
    BY <2>1 DEF Placed
  <2>3. new[j] \in {x.usecase[j].out_snd_device, d}
    BY DEF derive_playback_snd_device, SharedSndDevice
  <2>4. new[j] \in OutSndDevices
    BY <2>2, <2>3
  <2> HIDE DEF new
  <2>5. /\ Seated(x.usecase[j], "out_snd_device", new[j]).out_snd_device = new[j]
        /\ Seated(x.usecase[j], "out_snd_device", new[j]).in_snd_device
             = x.usecase[j].in_snd_device
        /\ Seated(x.usecase[j], "out_snd_device", new[j]).type = x.usecase[j].type
    BY <2>1, <2>4, SeatedFields, SideNames, SMTT(20)
  <2> QED  BY <2>1, <2>4, <2>5, SideNames DEF Placed
<1>14. ASSUME NEW j \in T
       PROVE  new[j] = SharedSndDevice(a.usecase[j].out_snd_device, d, Asked(a, j), Asked(a, i))
  <2>1. /\ x.usecase[j].id = j /\ x.usecase[j].type = TypeOf(j)
        /\ x.usecase[i].id = i /\ x.usecase[i].type = TypeOf(i)
    BY <1>2, <1>5, <1>7, EntryFields
  <2>2. x.usecase = a.usecase /\ x.out = a.out
    BY <1>3 DEF Frame
  <2>3. out_devices(x, x.usecase[j]) = Asked(a, j) /\ out_devices(x, x.usecase[i]) = Asked(a, i)
    BY <2>1, <2>2 DEF out_devices, Asked, StreamOf
  <2>4. new[j] = SharedSndDevice(x.usecase[j].out_snd_device, d, out_devices(x, x.usecase[j]),
                                 out_devices(x, x.usecase[i]))
    BY DEF derive_playback_snd_device
  <2> QED  BY <2>2, <2>3, <2>4
<1> HIDE DEF T, new
<1>9. Sharing(Reseated(x.usecase, T, "out_snd_device", new), D \ {i})
  <2>1. ASSUME NEW j \in D
        PROVE  Reseated(x.usecase, T, "out_snd_device", new)[j].in_snd_device
                 = x.usecase[j].in_snd_device
    <3>1. x.usecase[j] \in UseCaseRecords /\ DOMAIN x.usecase = D
      BY <1>5, EntryFields
    <3>2. j \in T => /\ new[j] \in OutSndDevices
                     /\ Reseated(x.usecase, T, "out_snd_device", new)[j]
                          = Seated(x.usecase[j], "out_snd_device", new[j])
      BY <1>8, <3>1 DEF Reseated
    <3>3. j \in T => Seated(x.usecase[j], "out_snd_device", new[j]).in_snd_device
                       = x.usecase[j].in_snd_device
      BY <3>1, <3>2, SeatedFields, SideNames
    <3>4. j \notin T => Reseated(x.usecase, T, "out_snd_device", new)[j] = x.usecase[j]
      BY <3>1 DEF Reseated
    <3> QED  BY <3>2, <3>3, <3>4
  <2>2. Sharing(x.usecase, D \ {i})
    BY <1>4 DEF OpenWith
  <2> QED  BY <2>1, <2>2 DEF Sharing
<1>10. \A j \in T : /\ new[j] \in DevicesOn("out_snd_device") /\ new[j] # NoDevice
                    /\ Placed(Seated(x.usecase[j], "out_snd_device", new[j]))
  BY <1>8, SideNames
<1>11. /\ OpenAt(Reroute(x, T, "out_snd_device", new), D, P, i, o, n)
       /\ MovedTo(x, Reroute(x, T, "out_snd_device", new), T, "out_snd_device", new)
  BY <1>5, <1>7, <1>9, <1>10, SideNames, RoomMade
<1>12. check_and_route_playback_usecases(a, i, d) = Reroute(x, T, "out_snd_device", new)
  BY <1>6 DEF check_and_route_playback_usecases, MakeRoomOut, x, T, new
<1>13. Frame(a, Reroute(x, T, "out_snd_device", new))
  BY <1>3, <1>11 DEF MovedTo, Frame
<1>15. MadeRoom(a, Reroute(x, T, "out_snd_device", new), D, i, d)
  <2>1. PICK b : b = Reroute(x, T, "out_snd_device", new)
    OBVIOUS
  <2>2. b.sidetone = a.sidetone /\ b.usecase = Reseated(a.usecase, T, "out_snd_device", new)
    BY <1>3, <1>11, <2>1 DEF MovedTo
  <2>3. ASSUME NEW j \in D
        PROVE  /\ b.usecase[j].devices = a.usecase[j].devices
               /\ b.usecase[j].in_snd_device = a.usecase[j].in_snd_device
               /\ b.usecase[j].out_snd_device = IF j \in T THEN new[j]
                                                ELSE a.usecase[j].out_snd_device
    <3>1. a.usecase[j] \in UseCaseRecords /\ DOMAIN a.usecase = D
      BY <1>3, <1>5, EntryFields
    <3>2. b.usecase[j] = IF j \in T THEN Seated(a.usecase[j], "out_snd_device", new[j])
                         ELSE a.usecase[j]
      BY <2>2, <3>1 DEF Reseated
    <3>3. CASE j \in T
      <4>1. new[j] \in DevicesOn("out_snd_device")
        BY <1>10, <3>3
      <4> QED  BY <3>1, <3>2, <3>3, <4>1, SeatedFields, SideNames
    <3>4. CASE j \notin T
      BY <3>2, <3>4
    <3> QED  BY <3>3, <3>4
  <2>4. MadeRoom(a, b, D, i, d)
    BY <1>14, <2>2, <2>3 DEF MadeRoom
  <2> QED  BY <2>1, <2>4
<1> QED  BY <1>11, <1>12, <1>13, <1>15

LEMMA OutTaken ==
    ASSUME NEW D, D \subseteq Ids, NEW a, NEW P, NEW u,
           OpenAt(a, D, P, u.id, NoDevice, NoDevice),
           NEW out \in OutSndDevices \cup {NoDevice}, out # NoDevice => D \ {u.id} \subseteq P
    PROVE  /\ OpenAt(TakeOut(a, u, out), D, P, u.id, out, NoDevice)
           /\ Frame(a, TakeOut(a, u, out))
           /\ out = NoDevice => TakeOut(a, u, out) = a
           /\ MadeRoom(a, TakeOut(a, u, out), D, u.id, out)
<1>1. CASE out = NoDevice
  <2>1. TakeOut(a, u, out) = a
    BY <1>1 DEF TakeOut, enable_snd_device, NoDevice
  <2> QED  BY <1>1, <2>1 DEF Frame, MadeRoom
<1>2. CASE out # NoDevice
  <2>1. out \in OutSndDevices /\ D \ {u.id} \subseteq P /\ out \in SndDevices
    BY <1>2, SideNames
  <2> DEFINE x == IF out = "NONE" \/ u.devices \cap CodecBackend = {} THEN a
                  ELSE check_and_route_playback_usecases(a, u.id, out)
  <2>2. OpenAt(x, D, P, u.id, NoDevice, NoDevice) /\ Frame(a, x) /\ MadeRoom(a, x, D, u.id, out)
    <3>1. Frame(a, a) /\ MadeRoom(a, a, D, u.id, out)
      BY DEF Frame, MadeRoom
    <3> QED  BY <2>1, <3>1, PlaybackRoom
  <2>3. TakeOut(a, u, out) = enable_snd_device(x, out)
    BY DEF TakeOut
  <2> HIDE DEF x
  <2>4. PICK i : i = u.id
    OBVIOUS
  <2>5. PICK r : OpenWith(x, D, r, P, i, NoDevice, NoDevice)
    BY <2>2, <2>4 DEF OpenAt
  <2> DEFINE k == Key(i, "out_snd_device")
  <2> DEFINE b == enable_snd_device(x, out)
  <2>6. Held(x, D, r, P) /\ i \in D /\ k \in Keys(D) /\ Free(r, k)
    BY <2>5, KeyOf, SideNames DEF OpenWith, Free, Holds
  <2>7. Held(b, D, Put(r, k, out), P) /\ Rewired(x, b)
    <3>1. out \in SndDevices \cup {NoDevice}
      BY <2>1
    <3> HIDE DEF k
    <3> QED  BY <2>6, <3>1, Enabled
  <2>8. b.usecase = x.usecase /\ Frame(x, b) /\ b.sidetone = x.sidetone
    BY <2>7 DEF Rewired
  <2> HIDE DEF b
  <2>9. OpenWith(b, D, Put(r, k, out), P, i, out, NoDevice)
    <3>1. r \in Holdings(Keys(D)) /\ i \in D
      BY <2>6 DEF Held
    <3>2. /\ Sits(r, x.usecase, D \ {i}) => Sits(Put(r, k, out), x.usecase, D \ {i})
          /\ Holds(Put(r, k, out), k, out)
          /\ Holds(r, Key(i, "in_snd_device"), NoDevice)
               => Holds(Put(r, k, out), Key(i, "in_snd_device"), NoDevice)
      BY <3>1, PutElsewhere, SideNames
    <3> QED  BY <2>5, <2>7, <2>8, <3>2 DEF OpenWith
  <2>10. Frame(a, b) /\ MadeRoom(a, b, D, u.id, out)
    BY <2>2, <2>8 DEF Frame, MadeRoom
  <2> QED  BY <1>2, <2>3, <2>4, <2>9, <2>10 DEF OpenAt, b
<1> QED  BY <1>1, <1>2

LEMMA MatchFacts ==
    ASSUME NEW d, NEW e
    PROVE  /\ platform_check_backends_match(d, e) <=> platform_check_backends_match(e, d)
           /\ platform_check_backends_match(d, e) => d # NoDevice /\ e # NoDevice
  BY DEF platform_check_backends_match, NoDevice

\* Every one of S that captures over the backend of d is on d.
Joined(f, S, d) ==
  \A j \in S : platform_check_backends_match(d, f[j].in_snd_device) => f[j].in_snd_device = d
PlaybacksKept(f, g, S) == \A j \in S : f[j].type = "PCM_PLAYBACK" => g[j] = f[j]

\* The use cases kept their outputs, and a microphone if they had one.
MicsMoved(a, b, D) ==
  /\ b.sidetone = a.sidetone
  /\ \A j \in D :
        /\ b.usecase[j].devices = a.usecase[j].devices
        /\ b.usecase[j].out_snd_device = a.usecase[j].out_snd_device
        /\ a.usecase[j].in_snd_device # NoDevice => b.usecase[j].in_snd_device # NoDevice

\* check_and_route_capture_usecases moves other use cases that capture.
LEMMA CaptureRoom ==
    ASSUME NEW D, D \subseteq Ids, NEW a, NEW P, NEW i, NEW o, NEW n,
           OpenAt(a, D, P, i, o, n), NEW d \in InSndDevices
    PROVE  LET b == check_and_route_capture_usecases(a, i, d)
           IN  /\ OpenAt(b, D, P, i, o, n) /\ Frame(a, b)
               /\ Joined(b.usecase, D \ {i}, d)
               /\ PlaybacksKept(a.usecase, b.usecase, D \ {i}) /\ MicsMoved(a, b, D)
<1> DEFINE S == D \ {i}
<1> DEFINE T == CaptureTargets(a, i, d)
<1> DEFINE new == [j \in T |-> d]
<1> DEFINE v == Reseated(a.usecase, T, "in_snd_device", new)
<1> DEFINE b == Reroute(a, T, "in_snd_device", new)
<1>1. PICK r : OpenWith(a, D, r, P, i, o, n)
  BY DEF OpenAt
<1>2. /\ Held(a, D, r, P) /\ a \in Adevs(D) /\ i \in D /\ i \notin P /\ P \subseteq D
      /\ Seating(a.usecase, P, S) /\ Sharing(a.usecase, S)
  BY <1>1 DEF OpenWith, Held
<1>3. DOMAIN a.usecase = D
  BY <1>2, EntryFields
<1>4. \A j : j \in T <=> /\ j \in S /\ a.usecase[j].type # "PCM_PLAYBACK"
                         /\ a.usecase[j].in_snd_device # d
                         /\ platform_check_backends_match(d, a.usecase[j].in_snd_device)
  BY <1>3 DEF CaptureTargets
<1>5. \A j \in T : new[j] = d
  OBVIOUS
<1>6. check_and_route_capture_usecases(a, i, d) = b
  BY DEF check_and_route_capture_usecases
<1> HIDE DEF T, new
<1>7. ASSUME NEW j \in T
      PROVE  j \in P /\ Placed(Seated(a.usecase[j], "in_snd_device", new[j]))
  <2>1. j \in S /\ a.usecase[j].in_snd_device # NoDevice /\ a.usecase[j] \in UseCaseRecords
        /\ a.usecase[j].type # "PCM_PLAYBACK"
    BY <1>2, <1>4, MatchFacts, EntryFields
  <2>2. j \in P /\ Placed(a.usecase[j])
    BY <1>2, <2>1 DEF Seating, Unplaced
  <2>3. /\ Seated(a.usecase[j], "in_snd_device", new[j]).in_snd_device = d
        /\ Seated(a.usecase[j], "in_snd_device", new[j]).out_snd_device
             = a.usecase[j].out_snd_device
        /\ Seated(a.usecase[j], "in_snd_device", new[j]).type = a.usecase[j].type
    BY <1>5, <2>1, SeatedFields, SideNames
  <2> QED  BY <2>1, <2>2, <2>3, SideNames DEF Placed
<1>8. ASSUME NEW j \in S
      PROVE  /\ v[j].in_snd_device = IF j \in T THEN d ELSE a.usecase[j].in_snd_device
             /\ j \notin T => v[j] = a.usecase[j]
  <2>1. a.usecase[j] \in UseCaseRecords
    BY <1>2, EntryFields
  <2>2. v[j] = IF j \in T THEN Seated(a.usecase[j], "in_snd_device", new[j]) ELSE a.usecase[j]
    BY <1>3 DEF Reseated
  <2>3. j \in T => Seated(a.usecase[j], "in_snd_device", new[j]).in_snd_device = d
    BY <1>5, <2>1, SeatedFields, SideNames
  <2> QED  BY <2>2, <2>3
<1>14. ASSUME NEW j \in D
       PROVE  /\ v[j].devices = a.usecase[j].devices
              /\ v[j].out_snd_device = a.usecase[j].out_snd_device
              /\ v[j].in_snd_device \in {a.usecase[j].in_snd_device, d}
  <2>1. a.usecase[j] \in UseCaseRecords
    BY <1>2, EntryFields
  <2>2. v[j] = IF j \in T THEN Seated(a.usecase[j], "in_snd_device", new[j]) ELSE a.usecase[j]
    BY <1>3 DEF Reseated
  <2>3. j \in T => LET w == Seated(a.usecase[j], "in_snd_device", new[j])
                   IN  /\ w.in_snd_device = d /\ w.devices = a.usecase[j].devices
                       /\ w.out_snd_device = a.usecase[j].out_snd_device
    BY <1>5, <2>1, SeatedFields, SideNames
  <2> QED  BY <2>2, <2>3
<1> HIDE DEF S
<1>9. Joined(v, S, d)
  <2> SUFFICES ASSUME NEW j \in S, platform_check_backends_match(d, v[j].in_snd_device)
               PROVE  v[j].in_snd_device = d
    BY DEF Joined
  <2>1. CASE j \in T
    BY <1>8, <2>1
  <2>2. CASE j \notin T
    <3>1. platform_check_backends_match(d, a.usecase[j].in_snd_device)
          /\ v[j].in_snd_device = a.usecase[j].in_snd_device
      BY <1>8, <2>2
    <3>2. a.usecase[j].in_snd_device # NoDevice
      BY <3>1, MatchFacts
    <3>3. a.usecase[j].type # "PCM_PLAYBACK"
      BY <1>2, <3>2 DEF Seating, Placed, Unplaced
    <3> QED  BY <1>4, <2>2, <3>1, <3>3
  <2> QED  BY <2>1, <2>2
<1>10. Sharing(v, S)
  <2> SUFFICES ASSUME NEW j \in S, NEW k \in S,
                      platform_check_backends_match(v[j].in_snd_device, v[k].in_snd_device)
               PROVE  v[j].in_snd_device = v[k].in_snd_device
    BY DEF Sharing
  <2>1. CASE j \in T
    BY <1>8, <1>9, <2>1 DEF Joined
  <2>2. CASE k \in T
    BY <1>8, <1>9, <2>2, MatchFacts DEF Joined
  <2>3. CASE j \notin T /\ k \notin T
    BY <1>2, <1>8, <2>3 DEF Sharing
  <2> QED  BY <2>1, <2>2, <2>3
<1> HIDE DEF v, b
<1>11. /\ OpenAt(b, D, P, i, o, n) /\ MovedTo(a, b, T, "in_snd_device", new)
  <2>1. \A j \in T : new[j] \in DevicesOn("in_snd_device") /\ new[j] # NoDevice
    BY <1>5, SideNames
  <2>2. Sharing(Reseated(a.usecase, T, "in_snd_device", new), D \ {i}) /\ T \subseteq P
    BY <1>7, <1>10 DEF v, S
  <2> QED  BY <1>7, <2>1, <2>2, SideNames, RoomMade DEF b
<1>12. b.usecase = v /\ Frame(a, b) /\ b.sidetone = a.sidetone
  BY <1>11 DEF MovedTo, v
<1>13. PlaybacksKept(a.usecase, b.usecase, S)
  BY <1>4, <1>8, <1>12 DEF PlaybacksKept
<1>15. MicsMoved(a, b, D)
  BY <1>12, <1>14, SideNames DEF MicsMoved
<1> QED  BY <1>6, <1>9, <1>11, <1>12, <1>13, <1>15 DEF S

LEMMA InTaken ==
    ASSUME NEW D, D \subseteq Ids, NEW a, NEW P, NEW u, NEW o,
           OpenAt(a, D, P, u.id, o, NoDevice), NEW in \in InSndDevices \cup {NoDevice}
    PROVE  LET b == TakeIn(a, u, in)
           IN  /\ OpenAt(b, D, P, u.id, o, in) /\ Frame(a, b)
               /\ Joined(b.usecase, D \ {u.id}, in)
               /\ PlaybacksKept(a.usecase, b.usecase, D \ {u.id}) /\ MicsMoved(a, b, D)
<1>1. CASE in = NoDevice
  <2>1. TakeIn(a, u, in) = a
    BY <1>1 DEF TakeIn, NoDevice
  <2>2. Joined(a.usecase, D \ {u.id}, in)
    BY <1>1, MatchFacts DEF Joined
  <2> QED  BY <1>1, <2>1, <2>2 DEF Frame, PlaybacksKept, MicsMoved
<1>2. CASE in # NoDevice
  <2>1. in \in InSndDevices /\ in \in SndDevices
    BY <1>2, SideNames
  <2> DEFINE x == check_and_route_capture_usecases(a, u.id, in)
  <2>2. /\ OpenAt(x, D, P, u.id, o, NoDevice) /\ Frame(a, x)
        /\ Joined(x.usecase, D \ {u.id}, in) /\ PlaybacksKept(a.usecase, x.usecase, D \ {u.id})
        /\ MicsMoved(a, x, D)
    BY <2>1, CaptureRoom
  <2>3. TakeIn(a, u, in) = enable_snd_device(x, in)
    BY <1>2 DEF TakeIn, NoDevice
  <2> HIDE DEF x
  <2>4. PICK i : i = u.id
    OBVIOUS
  <2>5. PICK r : OpenWith(x, D, r, P, i, o, NoDevice)
    BY <2>2, <2>4 DEF OpenAt
  <2> DEFINE k == Key(i, "in_snd_device")
  <2> DEFINE b == enable_snd_device(x, in)
  <2>6. Held(x, D, r, P) /\ i \in D /\ k \in Keys(D) /\ Free(r, k)
    BY <2>5, KeyOf, SideNames DEF OpenWith, Free, Holds
  <2>7. Held(b, D, Put(r, k, in), P) /\ Rewired(x, b)
    <3>1. in \in SndDevices \cup {NoDevice}
      BY <2>1
    <3> HIDE DEF k
    <3> QED  BY <2>6, <3>1, Enabled
  <2>8. b.usecase = x.usecase /\ Frame(x, b) /\ b.sidetone = x.sidetone
    BY <2>7 DEF Rewired
  <2> HIDE DEF b
  <2>9. OpenWith(b, D, Put(r, k, in), P, i, o, in)
    <3>1. r \in Holdings(Keys(D)) /\ i \in D
      BY <2>6 DEF Held
    <3>2. /\ Sits(r, x.usecase, D \ {i}) => Sits(Put(r, k, in), x.usecase, D \ {i})
          /\ Holds(Put(r, k, in), k, in)
          /\ Holds(r, Key(i, "out_snd_device"), o)
               => Holds(Put(r, k, in), Key(i, "out_snd_device"), o)
      BY <3>1, PutElsewhere, SideNames
    <3> QED  BY <2>5, <2>7, <2>8, <3>2 DEF OpenWith
  <2>10. Frame(a, b) /\ MicsMoved(a, b, D)
    BY <2>2, <2>8 DEF Frame, MicsMoved
  <2> QED  BY <2>2, <2>3, <2>4, <2>8, <2>9, <2>10 DEF OpenAt, b
<1> QED  BY <1>1, <1>2

\* The use cases of P are on, with the devices of their entries, the others are
\* on no device.
GoodWith(a, D, r, P) ==
  /\ Held(a, D, r, P) /\ Sits(r, a.usecase, D) /\ Seating(a.usecase, P, D)
  /\ Sharing(a.usecase, D)
Good(a, D, P) == \E r : GoodWith(a, D, r, P)

\* The sidetone of d was turned on or off, and nothing else was changed.
Sounding(a, b, d) == Retoned(a, b) /\ b.sidetone = a.sidetone \cup sidetone_path(d)
Silenced(a, b, d) == Retoned(a, b) /\ b.sidetone = a.sidetone \ sidetone_path(d)

LEMMA SidetoneNames ==
    ASSUME NEW d
    PROVE  sidetone_path(d) \subseteq {"sidetone-handset", "sidetone-headphones"}
<1>1. CASE d = "VOICE_HANDSET"
  BY <1>1 DEF sidetone_path
<1>2. CASE d = "VOICE_HEADSET"
  BY <1>2 DEF sidetone_path
<1>3. CASE d # "VOICE_HANDSET" /\ d # "VOICE_HEADSET"
  BY <1>3 DEF sidetone_path
<1> QED  BY <1>1, <1>2, <1>3

LEMMA SidetoneKeeps ==
    ASSUME NEW D, NEW a, NEW r, NEW P, Held(a, D, r, P), NEW d
    PROVE  /\ Held(voice_set_sidetone(a, d, TRUE), D, r, P)
           /\ Sounding(a, voice_set_sidetone(a, d, TRUE), d)
           /\ Held(voice_set_sidetone(a, d, FALSE), D, r, P)
           /\ Silenced(a, voice_set_sidetone(a, d, FALSE), d)
<1>1. a \in Adevs(D) /\ a.sidetone \in SUBSET {"sidetone-handset", "sidetone-headphones"}
  BY AdevFields DEF Held
<1>2. sidetone_path(d) \subseteq {"sidetone-handset", "sidetone-headphones"}
  BY SidetoneNames
<1>3. ASSUME NEW w \in SUBSET {"sidetone-handset", "sidetone-headphones"},
             NEW b, b = [a EXCEPT !.sidetone = w]
      PROVE  Held(b, D, r, P) /\ Retoned(a, b) /\ b.sidetone = w
  <2>1. /\ b \in Adevs(D) /\ Frame(a, b) /\ b.paths = a.paths /\ b.usecase = a.usecase
        /\ b.snd_dev_ref_cnt = a.snd_dev_ref_cnt /\ b.bit_width = a.bit_width
        /\ b.sidetone = w
    BY <1>1, <1>3, AssignSidetone
  <2> QED  BY <2>1 DEF Held, Retoned
<1>4. /\ voice_set_sidetone(a, d, TRUE) = [a EXCEPT !.sidetone = a.sidetone \cup sidetone_path(d)]
      /\ voice_set_sidetone(a, d, FALSE) = [a EXCEPT !.sidetone = a.sidetone \ sidetone_path(d)]
  BY <1>1 DEF voice_set_sidetone, Adevs
<1>5. PICK b, c : b = voice_set_sidetone(a, d, TRUE) /\ c = voice_set_sidetone(a, d, FALSE)
  OBVIOUS
<1>6. PICK v, w : v = a.sidetone \cup sidetone_path(d) /\ w = a.sidetone \ sidetone_path(d)
  OBVIOUS
<1>7. /\ v \in SUBSET {"sidetone-handset", "sidetone-headphones"}
      /\ w \in SUBSET {"sidetone-handset", "sidetone-headphones"}
      /\ b = [a EXCEPT !.sidetone = v] /\ c = [a EXCEPT !.sidetone = w]
  BY <1>1, <1>2, <1>4, <1>5, <1>6
<1>8. Held(b, D, r, P) /\ Retoned(a, b) /\ b.sidetone = v
  BY <1>3, <1>7
<1>9. Held(c, D, r, P) /\ Retoned(a, c) /\ c.sidetone = w
  BY <1>3, <1>7
<1> QED  BY <1>5, <1>6, <1>8, <1>9 DEF Sounding, Silenced

\* A use case that is off its path gives up its devices.
LEMMA DevicesLeft ==
    ASSUME NEW D, D \subseteq Ids, NEW a, NEW r, NEW P, GoodWith(a, D, r, P), NEW i \in D,
           NEW u, u = a.usecase[i],
           NEW y, Held(y, D, r, P \ {i}), Retoned(a, y)
    PROVE  LET b == disable_snd_device(disable_snd_device(y, u.out_snd_device),
                                       u.in_snd_device)
           IN  OpenAt(b, D, P \ {i}, i, NoDevice, NoDevice) /\ Retoned(a, b)
               /\ b.sidetone = y.sidetone
<1> DEFINE ko == Key(i, "out_snd_device")
<1> DEFINE kn == Key(i, "in_snd_device")
<1>2. /\ Held(a, D, r, P) /\ Sits(r, a.usecase, D) /\ Seating(a.usecase, P, D)
      /\ Sharing(a.usecase, D)
  BY DEF GoodWith
<1>3. r[ko] = u.out_snd_device /\ r[kn] = u.in_snd_device
  BY <1>2 DEF Sits, SitsOn
<1>4. ko \in Keys(D) /\ kn \in Keys(D)
  BY KeyOf, SideNames
<1> DEFINE z == disable_snd_device(y, u.out_snd_device)
<1>7. Held(z, D, Put(r, ko, NoDevice), P \ {i}) /\ Rewired(y, z)
  <2>1. PICK p : p = P \ {i}
    OBVIOUS
  <2>2. Held(y, D, r, p)
    BY <2>1
  <2>3. PICK d : d = u.out_snd_device
    OBVIOUS
  <2>4. r[ko] = d
    BY <1>3, <2>3
  <2> HIDE DEF ko
  <2>5. Held(disable_snd_device(y, d), D, Put(r, ko, NoDevice), p)
        /\ Rewired(y, disable_snd_device(y, d))
    BY <1>4, <2>2, <2>4, Disabled
  <2> QED  BY <2>1, <2>3, <2>5
<1> HIDE DEF z
<1> DEFINE s == Put(r, ko, NoDevice)
<1> DEFINE b == disable_snd_device(z, u.in_snd_device)
<1>8. Held(b, D, Put(s, kn, NoDevice), P \ {i}) /\ Rewired(z, b)
  <2>1. PICK p : p = P \ {i}
    OBVIOUS
  <2>2. Held(z, D, s, p)
    BY <1>7, <2>1
  <2>3. PICK d : d = u.in_snd_device
    OBVIOUS
  <2>4. s[kn] = d
    <3>1. s[kn] = r[kn]
      <4>1. r \in Holdings(Keys(D))
        BY <1>2 DEF Held
      <4>2. "in_snd_device" # "out_snd_device"
        OBVIOUS
      <4> QED  BY <4>1, <4>2, PutAt, SideNames
    <3> QED  BY <1>3, <2>3, <3>1
  <2> HIDE DEF kn, s
  <2>5. Held(disable_snd_device(z, d), D, Put(s, kn, NoDevice), p)
        /\ Rewired(z, disable_snd_device(z, d))
    BY <1>4, <2>2, <2>4, Disabled
  <2> QED  BY <2>1, <2>3, <2>5
<1> HIDE DEF b
<1>9. Retoned(a, b) /\ b.sidetone = y.sidetone
  BY <1>7, <1>8 DEF Rewired, Retoned, Frame
<1>10. OpenWith(b, D, Put(s, kn, NoDevice), P \ {i}, i, NoDevice, NoDevice)
  <2>1. r \in Holdings(Keys(D)) /\ s \in Holdings(Keys(D))
    BY <1>2, <1>7 DEF Held
  <2>2. Sits(r, a.usecase, D \ {i})
    BY <1>2 DEF Sits, SitsOn
  <2>3. Sits(s, a.usecase, D \ {i}) /\ Holds(s, ko, NoDevice)
    BY <2>1, <2>2, PutElsewhere, SideNames
  <2>4. Sits(Put(s, kn, NoDevice), a.usecase, D \ {i})
        /\ Holds(Put(s, kn, NoDevice), kn, NoDevice)
        /\ Holds(Put(s, kn, NoDevice), ko, NoDevice)
    <3> HIDE DEF s
    <3>1. "out_snd_device" # "in_snd_device"
      OBVIOUS
    <3> QED  BY <2>1, <2>3, <3>1, PutElsewhere, SideNames
  <2>5. Seating(a.usecase, P \ {i}, D \ {i}) /\ Sharing(a.usecase, D \ {i})
    BY <1>2 DEF Seating, Sharing
  <2>6. b.usecase = a.usecase /\ i \notin P \ {i}
    BY <1>9 DEF Retoned
  <2> QED  BY <1>8, <2>4, <2>5, <2>6 DEF OpenWith
<1>11. b = disable_snd_device(disable_snd_device(y, u.out_snd_device), u.in_snd_device)
  BY DEF b, z
<1> QED  BY <1>9, <1>10, <1>11 DEF OpenAt

\* A call that is on left its sidetone, if it had devices.
Hushed(a, b, u) ==
  b.sidetone = IF on_call(a, u) /\ u.out_snd_device # NoDevice /\ u.in_snd_device # NoDevice
               THEN a.sidetone \ sidetone_path(u.out_snd_device) ELSE a.sidetone

\* A use case gives up its path and its devices.
LEMMA Left ==
    ASSUME NEW D, D \subseteq Ids, NEW a, NEW P, Good(a, D, P), NEW i \in D,
           NEW u, u = a.usecase[i]
    PROVE  /\ OpenAt(Leave(a, u), D, P \ {i}, i, NoDevice, NoDevice)
           /\ Frame(a, Leave(a, u)) /\ Leave(a, u).usecase = a.usecase
           /\ Hushed(a, Leave(a, u), u)
<1> DEFINE tone ==
      IF on_call(a, u) /\ u.out_snd_device # NoDevice /\ u.in_snd_device # NoDevice
      THEN a.sidetone \ sidetone_path(u.out_snd_device) ELSE a.sidetone
<1>1. PICK r : GoodWith(a, D, r, P)
  BY DEF Good
<1>2. /\ Held(a, D, r, P) /\ Seating(a.usecase, P, D) /\ u.id = i
  BY <1>1, EntryFields DEF GoodWith
<1> DEFINE x == QuietCall(a, u)
<1>3. Held(x, D, r, P) /\ Retoned(a, x) /\ x.sidetone = tone
  <2>1. Retoned(a, a)
    BY DEF Retoned, Frame
  <2>2. PICK c : c = voice_set_sidetone(a, u.out_snd_device, FALSE)
    OBVIOUS
  <2>3. /\ Held(c, D, r, P) /\ Retoned(a, c)
        /\ c.sidetone = a.sidetone \ sidetone_path(u.out_snd_device)
    <3>1. PICK d : d = u.out_snd_device
      OBVIOUS
    <3>2. Held(c, D, r, P) /\ Silenced(a, c, d)
      BY <1>2, <2>2, <3>1, SidetoneKeeps
    <3> QED  BY <3>1, <3>2 DEF Silenced
  <2>4. x = IF on_call(a, u) /\ u.out_snd_device # NoDevice /\ u.in_snd_device # NoDevice
            THEN c ELSE a
    BY <2>2 DEF QuietCall, NoDevice
  <2>5. CASE on_call(a, u) /\ u.out_snd_device # NoDevice /\ u.in_snd_device # NoDevice
    <3>1. x = c /\ tone = a.sidetone \ sidetone_path(u.out_snd_device)
      BY <2>4, <2>5
    <3> HIDE DEF x, tone
    <3> QED  BY <2>3, <3>1
  <2>6. CASE ~ (on_call(a, u) /\ u.out_snd_device # NoDevice /\ u.in_snd_device # NoDevice)
    <3>1. x = a /\ tone = a.sidetone
      BY <2>4, <2>6
    <3> HIDE DEF x, tone
    <3> QED  BY <1>2, <2>1, <3>1
  <2> HIDE DEF x, tone
  <2> QED  BY <2>5, <2>6
<1> HIDE DEF x, tone
<1> DEFINE y == RouteOff(x, u)
<1>4. Held(y, D, r, P \ {i}) /\ Rewired(x, y)
  <2>1. CASE u.out_snd_device = NoDevice /\ u.in_snd_device = NoDevice
    <3>1. y = x
      BY <2>1 DEF RouteOff, NoDevice
    <3>2. i \notin P
      BY <1>2, <2>1 DEF Seating, Placed
    <3>3. P \ {i} = P
      BY <3>2
    <3> QED  BY <1>3, <3>1, <3>3 DEF Rewired, Frame
  <2>2. CASE u.out_snd_device # NoDevice \/ u.in_snd_device # NoDevice
    <3>1. y = disable_audio_route(x, i)
      BY <1>2, <2>2 DEF RouteOff, NoDevice
    <3> QED  BY <1>3, <3>1, RouteOffOf
  <2> QED  BY <2>1, <2>2
<1> HIDE DEF y
<1> DEFINE b == disable_snd_device(disable_snd_device(y, u.out_snd_device), u.in_snd_device)
<1>5. OpenAt(b, D, P \ {i}, i, NoDevice, NoDevice) /\ Retoned(a, b) /\ b.sidetone = tone
  <2>1. Retoned(a, y) /\ y.sidetone = tone
    BY <1>3, <1>4 DEF Rewired, Retoned, Frame
  <2> QED  BY <1>1, <1>4, <2>1, DevicesLeft
<1>6. Leave(a, u) = b
  <2>1. y = RouteOff(QuietCall(a, u), u)
    BY DEF y, x
  <2> QED  BY <2>1 DEF Leave, b
<1> QED  BY <1>5, <1>6 DEF Retoned, Hushed, tone

\* Devices that fit a type of use case.
Fits(type, out, in) ==
  /\ out = NoDevice <=> type = "PCM_CAPTURE"
  /\ type = "PCM_CAPTURE" => in # NoDevice
  /\ type = "PCM_PLAYBACK" => in = NoDevice

\* The entry u of a table after it took both devices.
TakenBy(u, out, in) == Seated(Seated(u, "out_snd_device", out), "in_snd_device", in)

LEMMA TakenFields ==
    ASSUME NEW u \in UseCaseRecords, NEW out \in OutSndDevices \cup {NoDevice},
           NEW in \in InSndDevices \cup {NoDevice}
    PROVE  LET v == TakenBy(u, out, in)
           IN  /\ v \in UseCaseRecords /\ v.id = u.id /\ v.type = u.type
               /\ v.devices = u.devices /\ v.out_snd_device = out /\ v.in_snd_device = in
<1> DEFINE x == Seated(u, "out_snd_device", out)
<1>1. /\ x \in UseCaseRecords /\ x.id = u.id /\ x.type = u.type /\ x.devices = u.devices
      /\ x.out_snd_device = out
  BY SeatedFields, SideNames
<1> HIDE DEF x
<1> DEFINE v == Seated(x, "in_snd_device", in)
<1>3. /\ v \in UseCaseRecords /\ v.id = x.id /\ v.type = x.type /\ v.devices = x.devices
      /\ v.in_snd_device = in /\ v.out_snd_device = x.out_snd_device
  BY <1>1, SeatedFields, SideNames
<1> HIDE DEF v
<1>5. v = TakenBy(u, out, in)
  BY DEF v, x, TakenBy
<1> QED  BY <1>1, <1>3, <1>5

LEMMA TakenAtOnce ==
    ASSUME NEW u \in UseCaseRecords, NEW out, NEW in
    PROVE  [[u EXCEPT !.out_snd_device = out] EXCEPT !.in_snd_device = in]
             = TakenBy(u, out, in)
  BY DEF TakenBy, Seated

KeptBut(f, g, D, i) == \A j \in D \ {i} : g[j] = f[j]

\* A use case has the devices out and in, for the same devices of its stream.
SatDown(a, b, i, out, in) ==
  /\ b.usecase[i].out_snd_device = out /\ b.usecase[i].in_snd_device = in
  /\ b.usecase[i].devices = a.usecase[i].devices

\* A call that is on has its sidetone on out.
Toned(a, b, u, out) ==
  /\ on_call(a, u) => b.sidetone = a.sidetone \cup sidetone_path(out)
  /\ ~ on_call(a, u) => b.sidetone = a.sidetone

\* A use case takes the devices that were made ready for it.
LEMMA Arrived ==
    ASSUME NEW D, D \subseteq Ids, NEW a, NEW P, NEW u,
           NEW out \in OutSndDevices \cup {NoDevice}, NEW in \in InSndDevices \cup {NoDevice},
           OpenAt(a, D, P, u.id, out, in), Joined(a.usecase, D \ {u.id}, in),
           Fits(TypeOf(u.id), out, in)
    PROVE  LET b == Arrive(a, u, out, in)
           IN  /\ Good(b, D, P \cup {u.id}) /\ Frame(a, b)
               /\ KeptBut(a.usecase, b.usecase, D, u.id) /\ SatDown(a, b, u.id, out, in)
               /\ Toned(a, b, u, out)
<1>1. PICK i : i = u.id
  OBVIOUS
<1>2. PICK r : OpenWith(a, D, r, P, i, out, in)
  BY <1>1 DEF OpenAt
<1>3. /\ Held(a, D, r, P) /\ a \in Adevs(D) /\ i \in D /\ i \notin P /\ P \subseteq D
      /\ Sits(r, a.usecase, D \ {i}) /\ Seating(a.usecase, P, D \ {i})
      /\ Sharing(a.usecase, D \ {i})
      /\ Joined(a.usecase, D \ {i}, in) /\ Fits(TypeOf(i), out, in)
  BY <1>1, <1>2 DEF OpenWith, Held
<1>4. a.usecase \in Tables(D) /\ DOMAIN a.usecase = D
  BY <1>3, AdevFields, EntryFields
<1>0. a.usecase[i] \in UseCaseRecords
  BY <1>3, EntryFields
<1> DEFINE e == TakenBy(a.usecase[i], out, in)
<1> DEFINE v == [a.usecase EXCEPT ![i] = e]
<1>5. /\ e \in UseCaseRecords /\ e.id = i /\ e.type = TypeOf(i)
      /\ e.out_snd_device = out /\ e.in_snd_device = in /\ e.devices = a.usecase[i].devices
  <2>1. /\ e \in UseCaseRecords /\ e.id = a.usecase[i].id /\ e.type = a.usecase[i].type
        /\ e.out_snd_device = out /\ e.in_snd_device = in /\ e.devices = a.usecase[i].devices
    BY <1>0, TakenFields
  <2> HIDE DEF e
  <2>2. a.usecase[i].id = i /\ a.usecase[i].type = TypeOf(i)
    BY <1>3, EntryFields
  <2> QED  BY <2>1, <2>2
<1>6. [[a.usecase[i] EXCEPT !.out_snd_device = out] EXCEPT !.in_snd_device = in] = e
  BY <1>0, TakenAtOnce
<1> HIDE DEF e
<1>7. v \in Tables(D) /\ v[i] = e /\ \A j \in D \ {i} : v[j] = a.usecase[j]
  <2>1. PICK f : f = a.usecase
    OBVIOUS
  <2>2. /\ f \in [D -> UseCaseRecords] /\ i \in D
        /\ \A j \in D : f[j].id = j /\ f[j].type = TypeOf(j)
    BY <1>3, <1>4, <2>1 DEF Tables
  <2>3. \A k : k = i => e.id = k /\ e.type = TypeOf(k)
    BY <1>5
  <2>4. PICK g : g = [f EXCEPT ![i] = e]
    OBVIOUS
  <2>5. /\ g \in [D -> UseCaseRecords] /\ g[i] = e
        /\ \A j \in D \ {i} : g[j] = f[j]
    BY <1>5, <2>2, <2>4
  <2>6. \A j \in D : g[j].id = j /\ g[j].type = TypeOf(j)
    BY <2>2, <2>3, <2>5
  <2>7. g \in Tables(D)
    BY <2>5, <2>6 DEF Tables
  <2> QED  BY <2>1, <2>4, <2>5, <2>7
<1>8. PICK x : x = [a EXCEPT !.usecase[i].out_snd_device = out,
                             !.usecase[i].in_snd_device = in]
  OBVIOUS
<1>9. x = [a EXCEPT !.usecase = v]
  BY <1>3, <1>4, <1>6, <1>8 DEF Adevs
<1> HIDE DEF v
<1>10. /\ x \in Adevs(D) /\ Frame(a, x) /\ x.usecase = v /\ x.paths = a.paths
       /\ x.snd_dev_ref_cnt = a.snd_dev_ref_cnt /\ x.sidetone = a.sidetone
  BY <1>3, <1>7, <1>9, AssignUsecase
<1>11. Held(x, D, r, P)
  <2>1. \A j \in P : v[j] = a.usecase[j]
    BY <1>3, <1>7
  <2> QED  BY <1>3, <1>10, <2>1 DEF Held
<1>12. Held(enable_audio_route(x, i), D, r, P \cup {i}) /\ Rewired(x, enable_audio_route(x, i))
  BY <1>3, <1>11, RouteOn
<1> DEFINE b == Arrive(a, u, out, in)
<1>13. /\ Held(b, D, r, P \cup {i}) /\ Retoned(x, b)
       /\ on_call(a, u) => b.sidetone = x.sidetone \cup sidetone_path(out)
       /\ ~ on_call(a, u) => b.sidetone = x.sidetone
  <2> DEFINE y == enable_audio_route(x, i)
  <2>1. b = IF on_call(a, u) THEN voice_set_sidetone(y, out, TRUE) ELSE y
    BY <1>1, <1>8 DEF Arrive
  <2>2. PICK p : p = P \cup {i}
    OBVIOUS
  <2>3. Held(y, D, r, p) /\ Rewired(x, y)
    BY <1>12, <2>2
  <2> HIDE DEF y, b
  <2>4. /\ Held(b, D, r, p) /\ Retoned(x, b)
        /\ on_call(a, u) => b.sidetone = x.sidetone \cup sidetone_path(out)
        /\ ~ on_call(a, u) => b.sidetone = x.sidetone
    <3>1. CASE ~ on_call(a, u)
      BY <2>1, <2>3, <3>1 DEF Rewired, Retoned
    <3>2. CASE on_call(a, u)
      <4>1. PICK c : c = voice_set_sidetone(y, out, TRUE)
        OBVIOUS
      <4>2. Held(c, D, r, p) /\ Sounding(y, c, out)
        BY <2>3, <4>1, SidetoneKeeps
      <4>3. b = c
        BY <2>1, <3>2, <4>1
      <4> QED  BY <2>3, <3>2, <4>2, <4>3 DEF Rewired, Retoned, Sounding, Frame
    <3> QED  BY <3>1, <3>2
  <2> QED  BY <2>2, <2>4
<1> HIDE DEF b
<1>14. /\ b.usecase = v /\ Frame(a, b)
       /\ on_call(a, u) => b.sidetone = a.sidetone \cup sidetone_path(out)
       /\ ~ on_call(a, u) => b.sidetone = a.sidetone
  BY <1>10, <1>13 DEF Retoned, Frame
<1>15. Sits(r, v, D)
  <2>1. r[Key(i, "out_snd_device")] = e.out_snd_device
        /\ r[Key(i, "in_snd_device")] = e.in_snd_device
    BY <1>2, <1>5 DEF OpenWith, Holds
  <2> QED  BY <1>3, <1>7, <2>1 DEF Sits, SitsOn
<1>16. Seating(v, P \cup {i}, D)
  <2>1. Placed(e)
    BY <1>3, <1>5 DEF Placed, Fits
  <2> QED  BY <1>3, <1>7, <2>1 DEF Seating
<1>17. Sharing(v, D)
  <2> SUFFICES ASSUME NEW j \in D, NEW k \in D,
                      platform_check_backends_match(v[j].in_snd_device, v[k].in_snd_device)
               PROVE  v[j].in_snd_device = v[k].in_snd_device
    BY DEF Sharing
  <2>1. CASE j = i
    BY <1>3, <1>5, <1>7, <2>1 DEF Joined
  <2>2. CASE k = i
    BY <1>3, <1>5, <1>7, <2>2, MatchFacts DEF Joined
  <2>3. CASE j # i /\ k # i
    BY <1>3, <1>7, <2>3 DEF Sharing
  <2> QED  BY <2>1, <2>2, <2>3
<1>18. GoodWith(b, D, r, P \cup {i})
  BY <1>13, <1>14, <1>15, <1>16, <1>17 DEF GoodWith
<1>19. KeptBut(a.usecase, b.usecase, D, i)
  BY <1>7, <1>14 DEF KeptBut
<1>20. SatDown(a, b, i, out, in)
  BY <1>5, <1>7, <1>14 DEF SatDown
<1>21. Toned(a, b, u, out)
  BY <1>14 DEF Toned
<1> QED  BY <1>1, <1>14, <1>18, <1>19, <1>20, <1>21 DEF Good, b

\* The other use cases stay or make room for a use case that moved to out.
Displaced(a, b, D, i, out) ==
  \A j \in D \ {i} :
    /\ b.usecase[j].devices = a.usecase[j].devices
    /\ a.usecase[j].in_snd_device # NoDevice => b.usecase[j].in_snd_device # NoDevice
    /\ \/ b.usecase[j].out_snd_device = a.usecase[j].out_snd_device
       \/ /\ out # NoDevice
          /\ b.usecase[j].out_snd_device =
               SharedSndDevice(a.usecase[j].out_snd_device, out, Asked(a, j), Asked(a, i))

\* A call that is on takes its sidetone along.
ToneMoved(a, b, u, out) ==
  /\ ~ on_call(a, u) => b.sidetone = a.sidetone
  /\ on_call(a, u) /\ (u.out_snd_device = NoDevice \/ u.in_snd_device # NoDevice) =>
       \/ b.sidetone = (a.sidetone \ sidetone_path(u.out_snd_device)) \cup sidetone_path(out)
       \/ out = u.out_snd_device /\ b.sidetone = a.sidetone

\* The rest of select_devices, for devices that fit.
LEMMA Switched ==
    ASSUME NEW D, D \subseteq Ids, NEW a, NEW P, Good(a, D, P), NEW i \in D,
           NEW u, u = a.usecase[i],
           NEW out \in OutSndDevices \cup {NoDevice}, NEW in \in InSndDevices \cup {NoDevice},
           Fits(TypeOf(i), out, in), out # NoDevice => D \ {i} \subseteq P, NEW force
    PROVE  LET b == SwitchDevices(a, u, out, in, force)
           IN  /\ Good(b, D, P \cup {i}) /\ Frame(a, b)
               /\ out = NoDevice => PlaybacksKept(a.usecase, b.usecase, D \ {i})
               /\ SatDown(a, b, i, out, in) /\ Displaced(a, b, D, i, out)
               /\ ToneMoved(a, b, u, out)
<1>1. PICK r : GoodWith(a, D, r, P)
  BY DEF Good
<1>2. /\ Held(a, D, r, P) /\ Seating(a.usecase, P, D)
  BY <1>1 DEF GoodWith
<1>3. u.id = i /\ u.type = TypeOf(i)
  BY <1>2, EntryFields
<1>4. CASE SwitchDevices(a, u, out, in, force) = a
           /\ out = u.out_snd_device /\ in = u.in_snd_device
  <2>1. i \in P
    BY <1>2, <1>3, <1>4 DEF Seating, Unplaced, Fits
  <2>2. P \cup {i} = P
    BY <2>1
  <2>3. SatDown(a, a, i, out, in) /\ Displaced(a, a, D, i, out) /\ ToneMoved(a, a, u, out)
    BY <1>4 DEF SatDown, Displaced, ToneMoved
  <2>4. Good(a, D, P \cup {i}) /\ Frame(a, a) /\ PlaybacksKept(a.usecase, a.usecase, D \ {i})
    BY <2>2 DEF Frame, PlaybacksKept
  <2> QED  BY <1>4, <2>3, <2>4
<1>5. CASE SwitchDevices(a, u, out, in, force)
             = Arrive(TakeIn(TakeOut(Leave(a, u), u, out), u, in), u, out, in)
  <2> DEFINE x == Leave(a, u)
  <2> DEFINE y == TakeOut(x, u, out)
  <2> DEFINE z == TakeIn(y, u, in)
  <2> DEFINE b == Arrive(z, u, out, in)
  <2>0. PICK p : p = P \ {i}
    OBVIOUS
  <2>1. /\ OpenAt(x, D, p, i, NoDevice, NoDevice) /\ Frame(a, x) /\ x.usecase = a.usecase
        /\ Hushed(a, x, u)
    BY <2>0, Left
  <2>2. \A k : k = i => u.id = k
    BY <1>3
  <2>3. OpenAt(x, D, p, u.id, NoDevice, NoDevice)
    BY <2>1, <2>2
  <2>4. out # NoDevice => D \ {u.id} \subseteq p
    BY <1>3, <2>0
  <2> HIDE DEF x
  <2>5. OpenAt(y, D, p, u.id, out, NoDevice) /\ Frame(x, y) /\ (out = NoDevice => y = x)
        /\ MadeRoom(x, y, D, u.id, out)
    BY <2>3, <2>4, OutTaken
  <2> HIDE DEF y
  <2>6. /\ OpenAt(z, D, p, u.id, out, in) /\ Frame(y, z)
        /\ Joined(z.usecase, D \ {u.id}, in) /\ PlaybacksKept(y.usecase, z.usecase, D \ {u.id})
        /\ MicsMoved(y, z, D)
    BY <2>5, InTaken
  <2> HIDE DEF z
  <2>7. Fits(TypeOf(u.id), out, in)
    BY <2>2
  <2>8. /\ Good(b, D, p \cup {u.id}) /\ Frame(z, b) /\ KeptBut(z.usecase, b.usecase, D, u.id)
        /\ SatDown(z, b, u.id, out, in)
        /\ Toned(z, b, u, out)
    BY <2>6, <2>7, Arrived
  <2> HIDE DEF b
  <2>9. p \cup {u.id} = P \cup {i}
    BY <1>3, <2>0
  <2>10. Frame(a, b)
    BY <2>1, <2>5, <2>6, <2>8 DEF Frame
  <2>11. ASSUME out = NoDevice PROVE PlaybacksKept(a.usecase, b.usecase, D \ {i})
    <3>1. y.usecase = a.usecase
      BY <2>1, <2>5, <2>11
    <3>2. D \ {u.id} = D \ {i}
      BY <1>3
    <3>3. PlaybacksKept(a.usecase, z.usecase, D \ {i}) /\ KeptBut(z.usecase, b.usecase, D, i)
      BY <2>2, <2>6, <2>8, <3>1, <3>2
    <3> QED  BY <3>3 DEF PlaybacksKept, KeptBut
  <2>12. b = SwitchDevices(a, u, out, in, force)
    BY <1>5 DEF b, z, y, x
  <2>13. Good(b, D, P \cup {i})
    BY <2>8, <2>9
  <2>14. /\ MadeRoom(x, y, D, i, out) /\ SatDown(z, b, i, out, in)
         /\ KeptBut(z.usecase, b.usecase, D, i)
    BY <2>2, <2>5, <2>8
  <2>15. z.usecase[i].devices = a.usecase[i].devices
    BY <2>1, <2>6, <2>14 DEF MadeRoom, MicsMoved
  <2>16. SatDown(a, b, i, out, in)
    BY <2>14, <2>15 DEF SatDown
  <2>17. ASSUME NEW j \in D \ {i}
         PROVE  /\ b.usecase[j].devices = a.usecase[j].devices
                /\ a.usecase[j].in_snd_device # NoDevice => b.usecase[j].in_snd_device # NoDevice
                /\ \/ b.usecase[j].out_snd_device = a.usecase[j].out_snd_device
                   \/ /\ out # NoDevice
                      /\ b.usecase[j].out_snd_device =
                           SharedSndDevice(a.usecase[j].out_snd_device, out, Asked(a, j),
                                           Asked(a, i))
    <3>1. b.usecase[j] = z.usecase[j]
      BY <2>14 DEF KeptBut
    <3>2. Asked(x, j) = Asked(a, j) /\ Asked(x, i) = Asked(a, i)
      BY <2>1 DEF Asked, Frame
    <3>3. /\ z.usecase[j].devices = y.usecase[j].devices
          /\ z.usecase[j].out_snd_device = y.usecase[j].out_snd_device
          /\ y.usecase[j].in_snd_device # NoDevice => z.usecase[j].in_snd_device # NoDevice
      BY <2>6 DEF MicsMoved
    <3>4. /\ y.usecase[j].devices = a.usecase[j].devices
          /\ y.usecase[j].in_snd_device = a.usecase[j].in_snd_device
          /\ \/ y.usecase[j].out_snd_device = a.usecase[j].out_snd_device
             \/ y.usecase[j].out_snd_device =
                  SharedSndDevice(a.usecase[j].out_snd_device, out, Asked(a, j), Asked(a, i))
      BY <2>1, <2>14, <3>2 DEF MadeRoom
    <3>5. out = NoDevice => y.usecase[j] = a.usecase[j]
      BY <2>1, <2>5
    <3> QED  BY <3>1, <3>3, <3>4, <3>5
  <2>18. Displaced(a, b, D, i, out)
    BY <2>17 DEF Displaced
  <2>19. ToneMoved(a, b, u, out)
    <3>1. on_call(z, u) <=> on_call(a, u)
      BY <2>1, <2>5, <2>6 DEF on_call, voice_is_call_state_active, Frame
    <3>2. z.sidetone = x.sidetone
      BY <2>5, <2>6 DEF MadeRoom, MicsMoved
    <3>3. sidetone_path(NoDevice) = {}
      BY DEF sidetone_path, NoDevice
    <3>4. CASE ~ on_call(a, u)
      BY <2>1, <2>8, <3>1, <3>2, <3>4 DEF ToneMoved, Hushed, Toned
    <3>5. CASE on_call(a, u)
      <4>1. b.sidetone = x.sidetone \cup sidetone_path(out)
        BY <2>8, <3>1, <3>2, <3>5 DEF Toned
      <4>2. u.out_snd_device = NoDevice \/ u.in_snd_device # NoDevice
              => x.sidetone = a.sidetone \ sidetone_path(u.out_snd_device)
        BY <2>1, <3>3, <3>5 DEF Hushed
      <4> QED  BY <3>5, <4>1, <4>2 DEF ToneMoved
    <3> QED  BY <3>4, <3>5
  <2> QED  BY <2>10, <2>11, <2>12, <2>13, <2>16, <2>18, <2>19
<1>6. (\/ /\ SwitchDevices(a, u, out, in, force) = a
          /\ out = u.out_snd_device /\ in = u.in_snd_device
       \/ SwitchDevices(a, u, out, in, force)
             = Arrive(TakeIn(TakeOut(Leave(a, u), u, out), u, in), u, out, in))
  BY DEF SwitchDevices
<1> QED  BY <1>4, <1>5, <1>6

-----------------------------------------------------------------------------
(* The devices a use case gets. *)

\* The use cases the framework has a stream or a session for.
Used == (setup.outputs \cup setup.inputs) \cup ToSet(setup.sessions)

LEMMA UsedFacts ==
    ASSUME setup \in Setups
    PROVE  /\ Used \subseteq Ids /\ primary_output \in setup.outputs
           /\ setup.outputs \subseteq Playbacks /\ setup.inputs \subseteq Captures
           /\ ToSet(setup.sessions) \subseteq VoiceCalls
           /\ setup.out_devices \subseteq OutputSets /\ setup.in_devices \subseteq InputDevices
           /\ setup.modes \subseteq Modes /\ setup.call_states \subseteq CallStates
           /\ setup.sources \subseteq {"MIC", "VOICE_COMMUNICATION"}
           /\ setup.sessions \in Seq(ToSet(setup.sessions))
<1>1. /\ primary_output \in setup.outputs
      /\ setup.outputs \subseteq Playbacks /\ setup.inputs \subseteq Captures
      /\ ToSet(setup.sessions) \subseteq VoiceCalls
      /\ setup.out_devices \subseteq OutputSets /\ setup.in_devices \subseteq InputDevices
      /\ setup.modes \subseteq Modes /\ setup.call_states \subseteq CallStates
      /\ setup.sources \subseteq {"MIC", "VOICE_COMMUNICATION"}
      /\ setup.sessions \in Seq({"VOICE_CALL", "VOICE2_CALL"})
  BY SetupsAssumption
     DEF Playbacks, Captures, VoiceCalls, InputDevices, Modes, CallStates, ToSet
<1>2. setup.sessions \in Seq(ToSet(setup.sessions))
  BY <1>1 DEF ToSet
<1>3. Used \subseteq Ids
  BY <1>1 DEF Used, Ids
<1> QED  BY <1>1, <1>2, <1>3

LEMMA TypesOfUsed ==
    ASSUME setup \in Setups, NEW i \in Used
    PROVE  /\ TypeOf(i) = "PCM_PLAYBACK" <=> i \in setup.outputs
           /\ TypeOf(i) = "PCM_CAPTURE" <=> i \in setup.inputs
           /\ TypeOf(i) = "VOICE_CALL" <=> i \in ToSet(setup.sessions)
           /\ TypeOf(i) \in {"PCM_PLAYBACK", "PCM_CAPTURE", "VOICE_CALL"}
<1>1. /\ setup.outputs \subseteq Playbacks /\ setup.inputs \subseteq Captures
      /\ ToSet(setup.sessions) \subseteq VoiceCalls
  BY UsedFacts
<1>2. \A x \in Captures : x \notin Playbacks
  BY DEF Captures, Playbacks
<1>3. \A x \in VoiceCalls : x \notin Playbacks /\ x \notin Captures
  BY DEF VoiceCalls, Captures, Playbacks
<1> QED  BY <1>1, <1>2, <1>3 DEF Used, TypeOf

LEMMA FirstAndLast ==
    ASSUME NEW D, D \subseteq Ids, NEW a \in Adevs(D), NEW ids, ids \subseteq D
    PROVE  /\ ids = {} => FirstOf(a, ids) = NoDevice /\ LastOf(a, ids) = NoDevice
           /\ ids # {} => FirstOf(a, ids) \in ids /\ LastOf(a, ids) \in ids
           /\ NoDevice \notin ids
<1> DEFINE list == a.usecase_list
<1> DEFINE S == Places(a, ids)
<1>1. /\ list \in Seq(D) /\ Len(list) \in Nat /\ DOMAIN list = 1..Len(list)
      /\ \A i \in D : \E n \in DOMAIN list : list[n] = i
  BY AdevFields DEF Orders
<1>2. S = {n \in 1..Len(list) : list[n] \in ids}
  BY <1>1 DEF Places
<1>3. NoDevice \notin ids
  BY DEF Ids, Playbacks, Captures, VoiceCalls, NoDevice
<1>4. ASSUME ids = {} PROVE FirstOf(a, ids) = NoDevice /\ LastOf(a, ids) = NoDevice
  <2>1. S = {}
    BY <1>2, <1>4
  <2> QED  BY <2>1 DEF FirstOf, LastOf, NoDevice
<1>5. ASSUME ids # {} PROVE FirstOf(a, ids) \in ids /\ LastOf(a, ids) \in ids
  <2>1. S # {} /\ S \subseteq Nat /\ \A n \in S : n <= Len(list)
    <3> HIDE DEF S
    <3> QED  BY <1>1, <1>2, <1>5
  <2>2. FirstOf(a, ids) = list[Min(S)] /\ LastOf(a, ids) = list[Max(S)]
    BY <2>1 DEF FirstOf, LastOf
  <2> HIDE DEF S, list
  <2>3. Min(S) \in S
    BY <2>1, LeastIsMember
  <2>4. Max(S) \in S
    <3>1. PICK b \in Nat : \A n \in S : n <= b
      BY <1>1, <2>1
    <3> QED  BY <2>1, <3>1, GreatestIsMember
  <2> QED  BY <1>2, <2>2, <2>3, <2>4
<1> QED  BY <1>3, <1>4, <1>5

LEMMA OutputTyped ==
    ASSUME NEW a, NEW devices \in OutputSets
    PROVE  platform_get_output_snd_device(a, devices) \in OutSndDevices
<1>1. CASE devices = {"EARPIECE"}
  BY <1>1 DEF platform_get_output_snd_device, OutSndDevices
<1>2. CASE devices = {"SPEAKER"}
  BY <1>2 DEF platform_get_output_snd_device, OutSndDevices
<1>3. CASE devices = {"WIRED_HEADSET"}
  BY <1>3 DEF platform_get_output_snd_device, OutSndDevices
<1>4. CASE devices = {"SCO"}
  BY <1>4 DEF platform_get_output_snd_device, OutSndDevices
<1>5. CASE devices = {"SPEAKER", "WIRED_HEADSET"}
  BY <1>5 DEF platform_get_output_snd_device, OutSndDevices
<1>6. CASE devices = {"SPEAKER", "SCO"}
  BY <1>6 DEF platform_get_output_snd_device, OutSndDevices
<1> QED  BY <1>1, <1>2, <1>3, <1>4, <1>5, <1>6 DEF OutputSets

LEMMA MicTyped ==
    ASSUME NEW S, NEW headset \in InSndDevices, NEW other \in InSndDevices
    PROVE  MicOf(S, headset, other) \in InSndDevices
<1>1. CASE "EARPIECE" \in S
  BY <1>1 DEF MicOf, InSndDevices
<1>2. CASE "EARPIECE" \notin S /\ "WIRED_HEADSET" \in S
  BY <1>2 DEF MicOf
<1>3. CASE S \cap {"EARPIECE", "WIRED_HEADSET"} = {} /\ "SCO" \in S
  BY <1>3 DEF MicOf, InSndDevices
<1>4. CASE "EARPIECE" \notin S /\ "WIRED_HEADSET" \notin S /\ "SCO" \notin S
  BY <1>4 DEF MicOf
<1> QED  BY <1>1, <1>2, <1>3, <1>4

LEMMA InputMicTyped ==
    ASSUME NEW d \in InputDevices \cup {NoDevice}, NEW voice_comm, NEW S
    PROVE  /\ InputMic(d, voice_comm, S) \in InSndDevices \cup {NoDevice}
           /\ d # NoDevice => InputMic(d, voice_comm, S) \in InSndDevices
<1>1. {"HANDSET_MIC", "HEADSET_MIC", "BT_SCO_MIC", "SPEAKER_MIC"} \subseteq InSndDevices
  BY DEF InSndDevices
<1>2. MicOf(S, "HEADSET_MIC", "HANDSET_MIC") \in InSndDevices
  BY <1>1, MicTyped
<1>3. CASE d = "MIC"
  BY <1>1, <1>3 DEF InputMic
<1>4. CASE d = "HEADSET_MIC"
  BY <1>1, <1>4 DEF InputMic
<1>5. CASE d = "SCO_MIC"
  BY <1>1, <1>5 DEF InputMic
<1>6. CASE d = NoDevice
  BY <1>1, <1>2, <1>6 DEF InputMic, NoDevice
<1> QED  BY <1>3, <1>4, <1>5, <1>6 DEF InputDevices

LEMMA InputTyped ==
    ASSUME NEW D, D \subseteq Ids, NEW a \in Adevs(D),
           NEW in \in setup.inputs \cup {NoDevice}, NEW S
    PROVE  /\ InputSndDevice(a, in, S) \in InSndDevices \cup {NoDevice}
           /\ in # NoDevice => InputSndDevice(a, in, S) \in InSndDevices
<1> DEFINE d == IF in = "NONE" THEN "NONE" ELSE a.in[in].device
<1>1. d \in InputDevices \cup {NoDevice} /\ (in # NoDevice => d # NoDevice)
  <2>1. CASE in = NoDevice
    BY <2>1 DEF NoDevice
  <2>2. CASE in # NoDevice
    <3>1. a.in \in [setup.inputs -> Inputs] /\ in \in setup.inputs
      BY <2>2, AdevFields
    <3>2. a.in[in].device \in InputDevices
      BY <3>1 DEF Inputs
    <3>3. NoDevice \notin InputDevices
      BY DEF NoDevice, InputDevices
    <3> QED  BY <2>2, <3>2, <3>3 DEF NoDevice
  <2> QED  BY <2>1, <2>2
<1> HIDE DEF d
<1>2. CASE S # {} /\ a.in_call
  <2>1. InputSndDevice(a, in, S) = MicOf(S, "VOICE_HEADSET_MIC", "VOICE_SPEAKER_MIC")
    BY <1>2 DEF InputSndDevice
  <2>2. {"VOICE_HEADSET_MIC", "VOICE_SPEAKER_MIC"} \subseteq InSndDevices
    BY DEF InSndDevices
  <2> QED  BY <2>1, <2>2, MicTyped
<1>3. CASE ~ (S # {} /\ a.in_call)
  <2>1. PICK c : InputSndDevice(a, in, S) = InputMic(d, c, S)
    BY <1>3 DEF InputSndDevice, d
  <2> QED  BY <1>1, <2>1, InputMicTyped
<1> QED  BY <1>2, <1>3

\* The streams and calls of the list.
LEMMA ActiveFacts ==
    ASSUME setup \in Setups, NEW D, D \subseteq Used, NEW a \in Adevs(D)
    PROVE  /\ D \subseteq Ids /\ ActiveCalls(a) = D \cap ToSet(setup.sessions)
           /\ ActiveInputs(a) = D \cap setup.inputs /\ VoipInputs(a) \subseteq D \cap setup.inputs
<1>1. D \subseteq Ids
  BY UsedFacts
<1>2. \A i \in D : /\ i \in Used
                   /\ IsCall(a.usecase[i]) <=> i \in ToSet(setup.sessions)
                   /\ IsCapture(a.usecase[i]) <=> i \in setup.inputs
  BY TableFields, TypesOfUsed DEF IsCall, IsCapture
<1>3. a.usecase \in Tables(D) /\ DOMAIN a.usecase = D
  BY AdevFields DEF Tables
<1> QED  BY <1>1, <1>2, <1>3 DEF ActiveCalls, ActiveInputs, VoipInputs

Found(x, S) == x \in S \cup {NoDevice}

LEMMA InputsFound ==
    ASSUME setup \in Setups, NEW D, D \subseteq Used, NEW a \in Adevs(D)
    PROVE  /\ Found(adev_get_active_input(a), D \cap setup.inputs)
           /\ Found(get_voice_communication_input(a), D \cap setup.inputs)
           /\ Found(get_priority_input(a), D \cap setup.inputs)
           /\ D \cap setup.inputs # {} => get_priority_input(a) # NoDevice
<1> DEFINE S == D \cap setup.inputs
<1>1. /\ D \subseteq Ids /\ ActiveInputs(a) = S /\ VoipInputs(a) \subseteq S /\ S \subseteq D
  BY ActiveFacts
<1> HIDE DEF S
<1>2. \A ids : ids \subseteq S => /\ Found(FirstOf(a, ids), ids) /\ Found(LastOf(a, ids), ids)
                                  /\ ids # {} => FirstOf(a, ids) # NoDevice
  BY <1>1, FirstAndLast DEF Found
<1>3. Found(adev_get_active_input(a), S)
  BY <1>1, <1>2 DEF adev_get_active_input
<1>4. Found(get_voice_communication_input(a), S)
  <2>1. Found(FirstOf(a, VoipInputs(a)), S)
    BY <1>1, <1>2 DEF Found
  <2> QED  BY <1>3, <2>1 DEF get_voice_communication_input, Found, NoDevice
<1>5. /\ Found(get_priority_input(a), S)
      /\ S # {} => get_priority_input(a) # NoDevice
  <2> DEFINE ids == IF VoipInputs(a) # {} THEN VoipInputs(a) ELSE ActiveInputs(a)
  <2>1. ids \subseteq S /\ (S # {} => ids # {})
    BY <1>1
  <2>2. get_priority_input(a) = FirstOf(a, ids)
    BY DEF get_priority_input
  <2> HIDE DEF ids
  <2> QED  BY <1>2, <2>1, <2>2 DEF Found
<1> QED  BY <1>3, <1>4, <1>5 DEF S

LEMMA Followed ==
    ASSUME setup \in Setups, NEW D, D \subseteq Used, NEW a \in Adevs(D)
    PROVE  /\ FollowedCall(a).out_snd_device \in OutSndDevices \cup {NoDevice}
           /\ FollowedCall(a).in_snd_device \in InSndDevices \cup {NoDevice}
<1>1. D \subseteq Ids /\ ActiveCalls(a) \subseteq D
  BY ActiveFacts
<1> DEFINE first == FirstOf(a, ActiveCalls(a))
<1>2. first # "NONE" => first \in D
  BY <1>1, FirstAndLast DEF NoDevice
<1> HIDE DEF first
<1>3. CASE FollowedCall(a) = a.usecase[first] /\ first # "NONE"
  BY <1>2, <1>3, TableFields
<1>4. CASE FollowedCall(a) = [out_snd_device |-> "NONE", in_snd_device |-> "NONE"]
  BY <1>4 DEF NoDevice
<1>5. \/ FollowedCall(a) = a.usecase[first] /\ first # "NONE"
      \/ FollowedCall(a) = [out_snd_device |-> "NONE", in_snd_device |-> "NONE"]
  BY DEF FollowedCall, first
<1> QED  BY <1>3, <1>4, <1>5

\* u is an entry for i.
EntryFor(u, i) == u.id = i /\ u.type = TypeOf(i)

LEMMA OutDevicesTyped ==
    ASSUME setup \in Setups, NEW D, D \subseteq Used, NEW a \in Adevs(D), NEW i \in D,
           NEW u, EntryFor(u, i), TypeOf(i) # "PCM_CAPTURE"
    PROVE  out_devices(a, u) \in OutputSets
<1>1. a.out \in [setup.outputs -> Outputs] /\ primary_output \in setup.outputs
  BY AdevFields, UsedFacts
<1>2. \A o \in setup.outputs : a.out[o].devices \in OutputSets
  BY <1>1 DEF Outputs
<1>3. i \in setup.outputs \/ TypeOf(i) = "VOICE_CALL"
  BY TypesOfUsed
<1> QED  BY <1>1, <1>2, <1>3 DEF out_devices, EntryFor

LEMMA Wanted ==
    ASSUME setup \in Setups, NEW D, D \subseteq Used, NEW a \in Adevs(D), NEW i \in D,
           NEW u, EntryFor(u, i)
    PROVE  LET out == WantedOut(a, u, FollowedCall(a))
               in == WantedIn(a, u, FollowedCall(a))
           IN  /\ out \in OutSndDevices \cup {NoDevice} /\ in \in InSndDevices \cup {NoDevice}
               /\ Fits(TypeOf(i), out, in)
<1>1. PICK call : call = FollowedCall(a)
  OBVIOUS
<1>2. /\ call.out_snd_device \in OutSndDevices \cup {NoDevice}
      /\ call.in_snd_device \in InSndDevices \cup {NoDevice}
  BY <1>1, Followed
<1>3. D \subseteq Ids /\ NoDevice \notin OutSndDevices /\ NoDevice \notin InSndDevices
  BY ActiveFacts, SideNames
<1>4. \A in \in setup.inputs \cup {NoDevice} : \A S :
        /\ InputSndDevice(a, in, S) \in InSndDevices \cup {NoDevice}
        /\ in # NoDevice => InputSndDevice(a, in, S) \in InSndDevices
  BY <1>3, InputTyped
<1>5. /\ Found(adev_get_active_input(a), D \cap setup.inputs)
      /\ Found(get_voice_communication_input(a), D \cap setup.inputs)
      /\ Found(get_priority_input(a), D \cap setup.inputs)
      /\ D \cap setup.inputs # {} => get_priority_input(a) # NoDevice
  BY InputsFound
<1>6. CASE TypeOf(i) = "PCM_CAPTURE"
  <2>1. u.type = "PCM_CAPTURE" /\ i \in setup.inputs
    BY <1>6, TypesOfUsed DEF EntryFor
  <2>2. WantedOut(a, u, call) = NoDevice
    BY <2>1 DEF WantedOut, IsCapture, NoDevice
  <2>4. CaptureIn(a, get_voice_communication_input(a)) \in InSndDevices
    <3> DEFINE v == get_voice_communication_input(a)
    <3> DEFINE p == get_priority_input(a)
    <3>1. CASE v # NoDevice
      <4>1. CaptureIn(a, v) = InputSndDevice(a, v, VoipOutDevices(a))
        BY <3>1 DEF CaptureIn, platform_get_input_snd_device, NoDevice
      <4>2. v \in setup.inputs
        BY <1>5, <3>1 DEF Found
      <4>3. InputSndDevice(a, v, VoipOutDevices(a)) \in InSndDevices
        <5> HIDE DEF v
        <5> QED  BY <1>4, <3>1, <4>2
      <4> QED  BY <4>1, <4>3
    <3>2. CASE v = NoDevice
      <4>1. p # NoDevice /\ p \in setup.inputs
        BY <1>5, <2>1 DEF Found
      <4>2. CaptureIn(a, v) = InputSndDevice(a, p, {})
        BY <3>2, <4>1 DEF CaptureIn, platform_get_input_snd_device, NoDevice
      <4>3. InputSndDevice(a, p, {}) \in InSndDevices
        <5> HIDE DEF p
        <5> QED  BY <1>4, <4>1
      <4> QED  BY <4>2, <4>3
    <3> QED  BY <3>1, <3>2
  <2>5. WantedIn(a, u, call) \in InSndDevices
    <3>1. \/ WantedIn(a, u, call) = call.in_snd_device /\ call.in_snd_device # NoDevice
          \/ WantedIn(a, u, call) = CaptureIn(a, get_voice_communication_input(a))
      BY <2>1 DEF WantedIn, IsCall, IsCapture, NoDevice
    <3> QED  BY <1>2, <2>4, <3>1
  <2> QED  BY <1>1, <1>3, <1>6, <2>2, <2>5 DEF Fits
<1>7. CASE TypeOf(i) = "PCM_PLAYBACK"
  <2>1. u.type = "PCM_PLAYBACK"
    BY <1>7 DEF EntryFor
  <2>2. platform_get_output_snd_device(a, out_devices(a, u)) \in OutSndDevices
    BY <1>7, OutDevicesTyped, OutputTyped
  <2>3. WantedIn(a, u, call) = NoDevice
    BY <2>1 DEF WantedIn, IsCall, IsCapture, NoDevice
  <2>4. WantedOut(a, u, call) \in OutSndDevices
    <3>1. \/ WantedOut(a, u, call) = call.out_snd_device /\ call.out_snd_device # NoDevice
          \/ WantedOut(a, u, call) = platform_get_output_snd_device(a, out_devices(a, u))
      BY <2>1 DEF WantedOut, IsCapture, IsCall, NoDevice
    <3> QED  BY <1>2, <2>2, <3>1
  <2> QED  BY <1>1, <1>3, <1>7, <2>3, <2>4 DEF Fits
<1>8. CASE TypeOf(i) = "VOICE_CALL"
  <2>1. u.type = "VOICE_CALL"
    BY <1>8 DEF EntryFor
  <2>2. platform_get_output_snd_device(a, out_devices(a, u)) \in OutSndDevices
    BY <1>8, OutDevicesTyped, OutputTyped
  <2>3. WantedOut(a, u, call) \in OutSndDevices
    BY <2>1, <2>2 DEF WantedOut, IsCapture, IsCall
  <2>4. WantedIn(a, u, call) = InputSndDevice(a, adev_get_active_input(a), out_devices(a, u))
    BY <2>1 DEF WantedIn, IsCall, IsCapture, platform_get_input_snd_device
  <2>5. WantedIn(a, u, call) \in InSndDevices \cup {NoDevice}
    <3>1. adev_get_active_input(a) \in setup.inputs \cup {NoDevice}
      BY <1>5 DEF Found
    <3> QED  BY <1>4, <2>4, <3>1
  <2> QED  BY <1>1, <1>3, <1>8, <2>3, <2>5 DEF Fits
<1> QED  BY <1>6, <1>7, <1>8, TypesOfUsed

-----------------------------------------------------------------------------
(* Where the calls are. *)

\* The calls of the list, the sessions that are on, and the device the framework
\* routed the primary output to.
Calls(D) == D \cap ToSet(setup.sessions)
OnCall(a) == {s \in ToSet(setup.sessions) : a.session[s].current # "INACTIVE"}
Home(a) == platform_get_output_snd_device(a, a.out[primary_output].devices)

\* Calls on the device of the primary output, with a microphone.
AtHome(a, S) ==
  \A j \in S : /\ a.usecase[j].out_snd_device = Home(a)
               /\ a.usecase[j].devices = a.out[primary_output].devices
               /\ a.usecase[j].in_snd_device # NoDevice

LEMMA HomeTyped ==
    ASSUME setup \in Setups, NEW D, NEW a \in Adevs(D)
    PROVE  /\ a.out[primary_output].devices \in OutputSets
           /\ Home(a) \in OutSndDevices /\ Home(a) # NoDevice
<1>1. a.out \in [setup.outputs -> Outputs] /\ primary_output \in setup.outputs
  BY AdevFields, UsedFacts
<1>2. a.out[primary_output].devices \in OutputSets
  BY <1>1 DEF Outputs
<1>3. Home(a) \in OutSndDevices
  BY <1>2, OutputTyped DEF Home
<1> QED  BY <1>2, <1>3, SideNames

LEMMA SameHome ==
    ASSUME NEW a, NEW b, b.out = a.out, b.in_call = a.in_call
    PROVE  Home(b) = Home(a)
  BY DEF Home, platform_get_output_snd_device

LEMMA CallFacts ==
    ASSUME setup \in Setups, NEW D, D \subseteq Used, NEW a \in Adevs(D)
    PROVE  /\ ActiveCalls(a) = Calls(D) /\ Calls(D) \subseteq D
           /\ \A i \in D : i \in Calls(D) <=> TypeOf(i) = "VOICE_CALL"
           /\ \A i \in Calls(D) : Asked(a, i) = a.out[primary_output].devices
<1>1. \A i \in D : i \in Calls(D) <=> TypeOf(i) = "VOICE_CALL"
  BY TypesOfUsed DEF Calls
<1>2. Calls(D) \subseteq D /\ ActiveCalls(a) = Calls(D)
  BY ActiveFacts DEF Calls
<1> QED  BY <1>1, <1>2 DEF Asked, StreamOf

LEMMA AskedIs ==
    ASSUME NEW a, NEW u, NEW i, EntryFor(u, i)
    PROVE  out_devices(a, u) = Asked(a, i)
  BY DEF EntryFor, out_devices, Asked, StreamOf

\* Room is made among calls and for a stream on their device.
LEMMA SharedFacts ==
    ASSUME NEW d, NEW e, NEW S, NEW T
    PROVE  /\ SharedSndDevice(d, e, S, S) \in {d, e}
           /\ SharedSndDevice(d, d, S, T) = d
  BY DEF SharedSndDevice

LEMMA SplitOf ==
    ASSUME NEW d
    PROVE  platform_can_split_snd_device(d) = {} <=> d # "SPEAKER_AND_BT_SCO"
  BY DEF platform_can_split_snd_device

\* A call on the headset's own backend stays for any other stream.
LEMMA ScoStays ==
    ASSUME NEW a, NEW S \in OutputSets
    PROVE  SharedSndDevice("BT_SCO", platform_get_output_snd_device(a, S), {"SCO"}, S) = "BT_SCO"
<1> DEFINE d == platform_get_output_snd_device(a, S)
<1>1. Cardinality({"SCO"}) = 1
  BY FS_Singleton
<1>2. \A e \in {"HANDSET", "VOICE_HANDSET", "SPEAKER", "VOICE_SPEAKER", "HEADPHONES",
                "VOICE_HEADSET", "SPEAKER_AND_HEADPHONES"} :
        ~ platform_check_backends_match("BT_SCO", e)
  BY DEF platform_check_backends_match, hw_interface_table, SndDevices, OutSndDevices,
         InSndDevices
<1>3. CASE S = {"SCO"}
  <2>1. d = "BT_SCO"
    BY <1>3 DEF platform_get_output_snd_device
  <2> QED  BY <2>1, SharedFacts
<1>4. CASE S = {"SPEAKER", "SCO"}
  <2>1. d = "SPEAKER_AND_BT_SCO"
    BY <1>4 DEF platform_get_output_snd_device
  <2>2. S # {"SCO"} /\ {"SCO"} \cap S # {}
    BY <1>4
  <2>3. platform_can_split_snd_device(d) # {}
    BY <2>1, SplitOf
  <2> HIDE DEF d
  <2> QED  BY <1>1, <2>2, <2>3 DEF SharedSndDevice, d
<1>5. CASE S # {"SCO"} /\ S # {"SPEAKER", "SCO"}
  <2>1. {"SCO"} \cap S = {}
    BY <1>5 DEF OutputSets
  <2>2. d \in {"HANDSET", "VOICE_HANDSET", "SPEAKER", "VOICE_SPEAKER", "HEADPHONES",
               "VOICE_HEADSET", "SPEAKER_AND_HEADPHONES"}
    <3>1. CASE S = {"EARPIECE"}
      BY <3>1 DEF platform_get_output_snd_device
    <3>2. CASE S = {"SPEAKER"}
      BY <3>2 DEF platform_get_output_snd_device
    <3>3. CASE S = {"WIRED_HEADSET"}
      BY <3>3 DEF platform_get_output_snd_device
    <3>4. CASE S = {"SPEAKER", "WIRED_HEADSET"}
      BY <3>4 DEF platform_get_output_snd_device
    <3> QED  BY <1>5, <3>1, <3>2, <3>3, <3>4 DEF OutputSets
  <2>3. ~ platform_check_backends_match("BT_SCO", d)
    BY <1>2, <2>2
  <2> HIDE DEF d
  <2> QED  BY <2>1, <2>3 DEF SharedSndDevice, d
<1> QED  BY <1>3, <1>4, <1>5

LEMMA CallWants ==
    ASSUME setup \in Setups, NEW D, D \subseteq Used, NEW a \in Adevs(D), NEW i \in D,
           NEW u, EntryFor(u, i), TypeOf(i) = "VOICE_CALL"
    PROVE  /\ WantedOut(a, u, FollowedCall(a)) = Home(a)
           /\ a.in_call => WantedIn(a, u, FollowedCall(a)) # NoDevice
<1>1. u.type = "VOICE_CALL"
  BY DEF EntryFor
<1>2. out_devices(a, u) = a.out[primary_output].devices
  BY <1>1 DEF out_devices
<1>3. WantedOut(a, u, FollowedCall(a)) = Home(a)
  BY <1>1, <1>2 DEF WantedOut, IsCapture, IsCall, Home
<1>4. ASSUME a.in_call PROVE WantedIn(a, u, FollowedCall(a)) # NoDevice
  <2>1. out_devices(a, u) # {}
    <3>1. PICK S : S = a.out[primary_output].devices
      OBVIOUS
    <3>2. S \in OutputSets
      BY <3>1, HomeTyped
    <3>3. S # {}
      BY <3>2 DEF OutputSets
    <3> QED  BY <1>2, <3>1, <3>3
  <2>2. WantedIn(a, u, FollowedCall(a))
          = MicOf(out_devices(a, u), "VOICE_HEADSET_MIC", "VOICE_SPEAKER_MIC")
    BY <1>1, <1>4, <2>1
       DEF WantedIn, IsCall, IsCapture, platform_get_input_snd_device, InputSndDevice
  <2>3. {"VOICE_HEADSET_MIC", "VOICE_SPEAKER_MIC"} \subseteq InSndDevices
    BY DEF InSndDevices
  <2>4. MicOf(out_devices(a, u), "VOICE_HEADSET_MIC", "VOICE_SPEAKER_MIC") \in InSndDevices
    BY <2>3, MicTyped
  <2> QED  BY <2>2, <2>4, SideNames
<1> QED  BY <1>3, <1>4

\* The calls stay home when a stream that plays takes its device.
LEMMA PlaybackLeavesCalls ==
    ASSUME setup \in Setups, NEW D, D \subseteq Used, NEW a \in Adevs(D), NEW i \in D,
           NEW u, EntryFor(u, i), TypeOf(i) = "PCM_PLAYBACK",
           a.in_call, AtHome(a, Calls(D)), NEW j \in Calls(D)
    PROVE  SharedSndDevice(Home(a), WantedOut(a, u, FollowedCall(a)), Asked(a, j), Asked(a, i))
             = Home(a)
<1> DEFINE first == FirstOf(a, ActiveCalls(a))
<1>1. /\ D \subseteq Ids /\ ActiveCalls(a) = Calls(D) /\ Calls(D) \subseteq D
      /\ Asked(a, j) = a.out[primary_output].devices
  BY CallFacts, UsedFacts
<1>2. first \in Calls(D) /\ first # NoDevice
  <2>1. \A ids : ids \subseteq D => /\ ids # {} => FirstOf(a, ids) \in ids
                                    /\ NoDevice \notin ids
    BY <1>1, FirstAndLast
  <2> QED  BY <1>1, <2>1
<1> HIDE DEF first
<1>3. /\ a.usecase[first].out_snd_device = Home(a)
      /\ a.usecase[first].devices = a.out[primary_output].devices
  BY <1>2 DEF AtHome
<1>4. a.out[primary_output].devices \in OutputSets /\ Home(a) # NoDevice
  BY HomeTyped
<1>5. u.type = "PCM_PLAYBACK"
  BY DEF EntryFor
<1>6. CASE a.out[primary_output].devices \cap CodecBackend # {}
  <2>1. FollowedCall(a).out_snd_device = Home(a)
    BY <1>2, <1>3, <1>6 DEF FollowedCall, first, NoDevice
  <2>2. WantedOut(a, u, FollowedCall(a)) = Home(a)
    BY <1>4, <1>5, <2>1 DEF WantedOut, IsCapture, IsCall, NoDevice
  <2> QED  BY <2>2, SharedFacts
<1>7. CASE a.out[primary_output].devices \cap CodecBackend = {}
  <2>1. a.out[primary_output].devices = {"SCO"}
    BY <1>4, <1>7 DEF OutputSets, CodecBackend
  <2>2. Home(a) = "BT_SCO"
    BY <2>1 DEF Home, platform_get_output_snd_device
  <2>3. FollowedCall(a).out_snd_device = "NONE"
    BY <1>2, <1>3, <1>7 DEF FollowedCall, first, NoDevice
  <2>4. WantedOut(a, u, FollowedCall(a)) = platform_get_output_snd_device(a, Asked(a, i))
    BY <1>5, <2>3, AskedIs DEF WantedOut, IsCapture, IsCall
  <2>5. Asked(a, i) \in OutputSets
    BY AskedIs, OutDevicesTyped
  <2> QED  BY <1>1, <2>1, <2>2, <2>4, <2>5, ScoStays
<1> QED  BY <1>6, <1>7

-----------------------------------------------------------------------------
(* select_devices. *)

\* The same use case on the same devices.
SameSeat(u, w) ==
  /\ u.id = w.id /\ u.type = w.type
  /\ u.out_snd_device = w.out_snd_device /\ u.in_snd_device = w.in_snd_device

LEMMA SameSeatFacts ==
    ASSUME NEW u, NEW w, SameSeat(u, w)
    PROVE  /\ route_path(u) = route_path(w) /\ (Placed(u) <=> Placed(w))
           /\ (Unplaced(u) <=> Unplaced(w))
  BY DEF SameSeat, route_path, Placed, Unplaced, IsCapture

\* A table whose use cases are on the same devices.
LEMMA GoodOnTable ==
    ASSUME NEW D, NEW a, NEW P, Good(a, D, P), NEW f \in Tables(D),
           \A j \in D : SameSeat(f[j], a.usecase[j]), NEW b, b = [a EXCEPT !.usecase = f]
    PROVE  Good(b, D, P) /\ Frame(a, b) /\ b.usecase = f /\ b.sidetone = a.sidetone
<1>1. PICK r : GoodWith(a, D, r, P)
  BY DEF Good
<1>2. /\ Held(a, D, r, P) /\ Sits(r, a.usecase, D) /\ Seating(a.usecase, P, D)
      /\ Sharing(a.usecase, D) /\ a \in Adevs(D) /\ P \subseteq D
  BY <1>1 DEF GoodWith, Held
<1>3. /\ b \in Adevs(D) /\ Frame(a, b) /\ b.usecase = f /\ b.paths = a.paths
      /\ b.snd_dev_ref_cnt = a.snd_dev_ref_cnt /\ b.sidetone = a.sidetone
  BY <1>2, AssignUsecase
<1>4. \A j \in D : /\ route_path(f[j]) = route_path(a.usecase[j])
                   /\ Placed(f[j]) <=> Placed(a.usecase[j])
                   /\ Unplaced(f[j]) <=> Unplaced(a.usecase[j])
  BY SameSeatFacts
<1>5. Held(b, D, r, P)
  BY <1>2, <1>3, <1>4 DEF Held
<1>6. Seating(f, P, D)
  BY <1>2, <1>4 DEF Seating
<1>7. Sits(r, f, D) /\ Sharing(f, D)
  BY <1>2 DEF Sits, SitsOn, Sharing, SameSeat
<1> QED  BY <1>3, <1>5, <1>6, <1>7 DEF Good, GoodWith

LEMMA GoodFacts ==
    ASSUME NEW D, NEW a, NEW P, Good(a, D, P)
    PROVE  /\ a \in Adevs(D) /\ P \subseteq D /\ DOMAIN a.usecase = D /\ a.usecase \in Tables(D)
           /\ \A j \in D : a.usecase[j] \in UseCaseRecords /\ EntryFor(a.usecase[j], j)
<1>1. a \in Adevs(D) /\ P \subseteq D
  BY DEF Good, GoodWith, Held
<1>2. a.usecase \in Tables(D)
  BY <1>1, AdevFields
<1> QED  BY <1>1, <1>2 DEF Tables, EntryFor

\* The entry of i with the devices of its stream.
LEMMA RefreshedFacts ==
    ASSUME setup \in Setups, NEW D, D \subseteq Used, NEW a, NEW P, Good(a, D, P), NEW i \in D
    PROVE  /\ Refreshed(a, i) \in UseCaseRecords /\ EntryFor(Refreshed(a, i), i)
           /\ SameSeat(Refreshed(a, i), a.usecase[i])
           /\ TypeOf(i) # "PCM_CAPTURE" => Refreshed(a, i).devices = Asked(a, i)
<1>1. /\ a \in Adevs(D) /\ a.usecase[i] \in UseCaseRecords
      /\ EntryFor(a.usecase[i], i)
  BY GoodFacts
<1> DEFINE s == IF IsCapture(a.usecase[i]) THEN {a.in[i].device}
                ELSE out_devices(a, a.usecase[i])
<1>2. s \in OutputSets \cup {{d} : d \in InputDevices}
  <2>1. CASE TypeOf(i) = "PCM_CAPTURE"
    <3>1. a.in \in [setup.inputs -> Inputs] /\ i \in setup.inputs
      BY <1>1, <2>1, AdevFields, TypesOfUsed
    <3>2. a.in[i].device \in InputDevices
      BY <3>1 DEF Inputs
    <3>3. s = {a.in[i].device}
      BY <1>1, <2>1 DEF IsCapture, EntryFor
    <3> QED  BY <3>2, <3>3
  <2>2. CASE TypeOf(i) # "PCM_CAPTURE"
    <3>1. s = out_devices(a, a.usecase[i])
      BY <1>1, <2>2 DEF IsCapture, EntryFor
    <3>2. out_devices(a, a.usecase[i]) \in OutputSets
      BY <1>1, <2>2, OutDevicesTyped
    <3> QED  BY <3>1, <3>2
  <2> QED  BY <2>1, <2>2
<1>3. Refreshed(a, i) = [a.usecase[i] EXCEPT !.devices = s]
  BY DEF Refreshed
<1> HIDE DEF s
<1>4. PICK w : w = a.usecase[i]
  OBVIOUS
<1>5. PICK u : u = [w EXCEPT !.devices = s]
  OBVIOUS
<1>6. u \in UseCaseRecords /\ SameSeat(u, w) /\ u.devices = s
  BY <1>1, <1>2, <1>4, <1>5 DEF UseCaseRecords, SameSeat
<1>7. EntryFor(u, i)
  BY <1>1, <1>4, <1>6 DEF EntryFor, SameSeat
<1>8. TypeOf(i) # "PCM_CAPTURE" => s = Asked(a, i)
  BY <1>1, AskedIs DEF s, IsCapture, EntryFor
<1> QED  BY <1>3, <1>4, <1>5, <1>6, <1>7, <1>8

\* A call that is on takes its sidetone from the device of u to h.
CallTone(a, b, u, h) ==
  /\ ~ voice_is_call_state_active(a) => b.sidetone = a.sidetone
  /\ u.out_snd_device = NoDevice \/ u.in_snd_device # NoDevice =>
       \/ b.sidetone = (a.sidetone \ sidetone_path(u.out_snd_device)) \cup sidetone_path(h)
       \/ h = u.out_snd_device /\ b.sidetone = a.sidetone
       \/ ~ voice_is_call_state_active(a)

\* What it does to the calls when select_devices places a stream, and a call.
StreamPlaced(a, b, D) ==
  /\ b.sidetone = a.sidetone
  /\ a.in_call /\ AtHome(a, Calls(D)) => AtHome(b, Calls(D))
CallPlaced(a, b, D, i) ==
  /\ AtHome(b, {i}) /\ CallTone(a, b, a.usecase[i], Home(a))
  /\ \A j \in Calls(D) :
       /\ b.usecase[j].out_snd_device \in {a.usecase[j].out_snd_device, Home(a)}
       /\ j # i => b.usecase[j].devices = a.usecase[j].devices
       /\ a.usecase[j].in_snd_device # NoDevice => b.usecase[j].in_snd_device # NoDevice
Effect(a, b, D, i) ==
  /\ TypeOf(i) # "VOICE_CALL" => StreamPlaced(a, b, D)
  /\ TypeOf(i) = "VOICE_CALL" /\ a.in_call => CallPlaced(a, b, D, i)

\* x has the entry u for i, and b is x with i on out and in.
SwitchedTo(a, x, b, D, i, u, out, in) ==
  /\ Frame(a, x) /\ x.sidetone = a.sidetone
  /\ x.usecase[i] = u /\ \A j \in D \ {i} : x.usecase[j] = a.usecase[j]
  /\ Frame(x, b) /\ SatDown(x, b, i, out, in) /\ Displaced(x, b, D, i, out)
  /\ ToneMoved(x, b, u, out)

LEMMA StreamEffect ==
    ASSUME setup \in Setups, NEW D, D \subseteq Used, NEW a \in Adevs(D), NEW i \in D,
           NEW u, EntryFor(u, i), TypeOf(i) # "VOICE_CALL", NEW x, NEW b, NEW in,
           NEW out, out = WantedOut(a, u, FollowedCall(a)),
           out = NoDevice <=> TypeOf(i) = "PCM_CAPTURE",
           SwitchedTo(a, x, b, D, i, u, out, in)
    PROVE  StreamPlaced(a, b, D)
<1>1. b.sidetone = a.sidetone
  BY DEF SwitchedTo, ToneMoved, on_call, IsCall, EntryFor
<1>2. /\ b.out = a.out /\ x.out = a.out /\ b.in_call = a.in_call /\ Home(b) = Home(a)
  BY SameHome DEF SwitchedTo, Frame
<1>3. ASSUME a.in_call, AtHome(a, Calls(D)), NEW j \in Calls(D)
      PROVE  /\ b.usecase[j].out_snd_device = Home(a)
             /\ b.usecase[j].devices = a.out[primary_output].devices
             /\ b.usecase[j].in_snd_device # NoDevice
  <2>1. j \in D \ {i}
    BY CallFacts
  <2>2. /\ x.usecase[j].out_snd_device = Home(a)
        /\ x.usecase[j].devices = a.out[primary_output].devices
        /\ x.usecase[j].in_snd_device # NoDevice
    BY <1>3, <2>1 DEF SwitchedTo, AtHome
  <2>3. Asked(x, j) = Asked(a, j) /\ Asked(x, i) = Asked(a, i)
    BY <1>2 DEF Asked
  <2>4. /\ b.usecase[j].devices = x.usecase[j].devices
        /\ b.usecase[j].in_snd_device # NoDevice
        /\ \/ b.usecase[j].out_snd_device = Home(a)
           \/ /\ out # NoDevice
              /\ b.usecase[j].out_snd_device =
                   SharedSndDevice(Home(a), out, Asked(a, j), Asked(a, i))
    BY <2>1, <2>2, <2>3 DEF SwitchedTo, Displaced
  <2>5. CASE TypeOf(i) = "PCM_CAPTURE"
    BY <2>2, <2>4, <2>5
  <2>6. CASE TypeOf(i) # "PCM_CAPTURE"
    <3>1. TypeOf(i) = "PCM_PLAYBACK"
      BY <2>6, TypesOfUsed
    <3>2. SharedSndDevice(Home(a), out, Asked(a, j), Asked(a, i)) = Home(a)
      BY <1>3, <3>1, PlaybackLeavesCalls
    <3> QED  BY <2>2, <2>4, <3>2
  <2> QED  BY <2>5, <2>6
<1>4. a.in_call /\ AtHome(a, Calls(D)) => AtHome(b, Calls(D))
  BY <1>2, <1>3 DEF AtHome
<1> QED  BY <1>1, <1>4 DEF StreamPlaced

LEMMA CallEffect ==
    ASSUME setup \in Setups, NEW D, D \subseteq Used, NEW a \in Adevs(D), NEW i \in D,
           NEW u, EntryFor(u, i), TypeOf(i) = "VOICE_CALL", a.in_call,
           SameSeat(u, a.usecase[i]), u.devices = Asked(a, i), NEW x, NEW b,
           NEW out, out = WantedOut(a, u, FollowedCall(a)),
           NEW in, in = WantedIn(a, u, FollowedCall(a)),
           SwitchedTo(a, x, b, D, i, u, out, in)
    PROVE  CallPlaced(a, b, D, i)
<1>1. out = Home(a) /\ in # NoDevice
  BY CallWants
<1>2. /\ b.out = a.out /\ x.out = a.out /\ x.session = a.session /\ Home(b) = Home(a)
  BY SameHome DEF SwitchedTo, Frame
<1>3. i \in Calls(D) /\ \A j \in Calls(D) : j \in D /\ Asked(a, j) = a.out[primary_output].devices
  BY CallFacts
<1>4. /\ b.usecase[i].out_snd_device = Home(a) /\ b.usecase[i].in_snd_device # NoDevice
      /\ b.usecase[i].devices = a.out[primary_output].devices
  BY <1>1, <1>3 DEF SwitchedTo, SatDown
<1>5. AtHome(b, {i})
  BY <1>2, <1>4 DEF AtHome
<1>6. ASSUME NEW j \in Calls(D)
      PROVE  /\ b.usecase[j].out_snd_device \in {a.usecase[j].out_snd_device, Home(a)}
             /\ j # i => b.usecase[j].devices = a.usecase[j].devices
             /\ a.usecase[j].in_snd_device # NoDevice => b.usecase[j].in_snd_device # NoDevice
  <2>1. CASE j = i
    BY <1>4, <2>1
  <2>2. CASE j # i
    <3>1. j \in D \ {i} /\ x.usecase[j] = a.usecase[j]
      BY <1>3, <2>2 DEF SwitchedTo
    <3>2. Asked(x, j) = Asked(x, i)
      BY <1>2, <1>3 DEF Asked
    <3>3. \/ b.usecase[j].out_snd_device = a.usecase[j].out_snd_device
          \/ b.usecase[j].out_snd_device =
               SharedSndDevice(a.usecase[j].out_snd_device, Home(a), Asked(x, i), Asked(x, i))
      BY <1>1, <3>1, <3>2 DEF SwitchedTo, Displaced
    <3>4. /\ b.usecase[j].devices = a.usecase[j].devices
          /\ a.usecase[j].in_snd_device # NoDevice => b.usecase[j].in_snd_device # NoDevice
      BY <3>1 DEF SwitchedTo, Displaced
    <3> QED  BY <3>3, <3>4, SharedFacts
  <2> QED  BY <2>1, <2>2
<1>7. CallTone(a, b, a.usecase[i], Home(a))
  <2>1. /\ u.out_snd_device = a.usecase[i].out_snd_device
        /\ u.in_snd_device = a.usecase[i].in_snd_device /\ IsCall(u)
    BY DEF SameSeat, EntryFor, IsCall
  <2>2. on_call(x, u) <=> voice_is_call_state_active(a)
    BY <1>2, <2>1 DEF on_call, voice_is_call_state_active
  <2>3. ToneMoved(x, b, u, Home(a)) /\ x.sidetone = a.sidetone
    BY <1>1 DEF SwitchedTo
  <2> QED  BY <2>1, <2>2, <2>3 DEF ToneMoved, CallTone
<1> QED  BY <1>5, <1>6, <1>7 DEF CallPlaced

LEMMA SelectedOne ==
    ASSUME setup \in Setups, NEW D, D \subseteq Used, NEW a, NEW P, Good(a, D, P),
           NEW i \in D, TypeOf(i) # "PCM_CAPTURE" => D \ {i} \subseteq P, NEW force
    PROVE  LET b == SelectOne(a, Refreshed(a, i), force)
           IN  /\ Good(b, D, P \cup {i}) /\ Frame(a, b)
               /\ TypeOf(i) = "PCM_CAPTURE" => PlaybacksKept(a.usecase, b.usecase, D \ {i})
               /\ Effect(a, b, D, i)
<1>1. PICK u : u = Refreshed(a, i)
  OBVIOUS
<1>2. /\ u \in UseCaseRecords /\ EntryFor(u, i) /\ SameSeat(u, a.usecase[i])
      /\ TypeOf(i) # "PCM_CAPTURE" => u.devices = Asked(a, i)
  BY <1>1, RefreshedFacts
<1>3. a \in Adevs(D) /\ a.usecase \in Tables(D) /\ D \subseteq Ids
  BY GoodFacts, UsedFacts
<1> DEFINE f == [a.usecase EXCEPT ![i] = u]
<1>4. /\ f \in Tables(D) /\ f[i] = u /\ \A j \in D \ {i} : f[j] = a.usecase[j]
  <2>1. PICK g : g = a.usecase
    OBVIOUS
  <2>2. g \in [D -> UseCaseRecords] /\ \A j \in D : g[j].id = j /\ g[j].type = TypeOf(j)
    BY <1>3, <2>1 DEF Tables
  <2>3. PICK h : h = [g EXCEPT ![i] = u]
    OBVIOUS
  <2>4. /\ h \in [D -> UseCaseRecords] /\ h[i] = u /\ \A j \in D \ {i} : h[j] = g[j]
    BY <1>2, <2>2, <2>3
  <2>5. \A j \in D : h[j].id = j /\ h[j].type = TypeOf(j)
    BY <1>2, <2>2, <2>4 DEF EntryFor
  <2>6. h \in Tables(D)
    BY <2>4, <2>5 DEF Tables
  <2> QED  BY <2>1, <2>3, <2>4, <2>6
<1>5. PICK x : x = [a EXCEPT !.usecase = f]
  OBVIOUS
<1>6. [a EXCEPT !.usecase[u.id] = u] = x
  BY <1>2, <1>5 DEF EntryFor
<1> HIDE DEF f
<1>7. \A j \in D : SameSeat(f[j], a.usecase[j])
  BY <1>2, <1>4 DEF SameSeat
<1>8. Good(x, D, P) /\ Frame(a, x) /\ x.usecase = f /\ x.sidetone = a.sidetone
  BY <1>4, <1>5, <1>7, GoodOnTable
<1>9. PICK out, in : out = WantedOut(a, u, FollowedCall(a)) /\ in = WantedIn(a, u, FollowedCall(a))
  OBVIOUS
<1>10. /\ out \in OutSndDevices \cup {NoDevice} /\ in \in InSndDevices \cup {NoDevice}
       /\ Fits(TypeOf(i), out, in)
  BY <1>2, <1>3, <1>9, Wanted
<1>11. u = x.usecase[i]
  BY <1>4, <1>8
<1>12. out # NoDevice => D \ {i} \subseteq P
  BY <1>10 DEF Fits
<1> DEFINE b == SwitchDevices(x, u, out, in, force)
<1>13. /\ Good(b, D, P \cup {i}) /\ Frame(x, b)
       /\ out = NoDevice => PlaybacksKept(x.usecase, b.usecase, D \ {i})
       /\ SatDown(x, b, i, out, in) /\ Displaced(x, b, D, i, out) /\ ToneMoved(x, b, u, out)
  <2> HIDE DEF b
  <2> QED  BY <1>3, <1>8, <1>10, <1>11, <1>12, Switched DEF b
<1> HIDE DEF b
<1>14. Frame(a, b)
  BY <1>8, <1>13 DEF Frame
<1>15. ASSUME TypeOf(i) = "PCM_CAPTURE" PROVE PlaybacksKept(a.usecase, b.usecase, D \ {i})
  <2>1. out = NoDevice
    BY <1>10, <1>15 DEF Fits
  <2> QED  BY <1>4, <1>8, <1>13, <2>1 DEF PlaybacksKept
<1>16. SelectOne(a, u, force) = b
  BY <1>6, <1>9 DEF SelectOne, b
<1>17. SwitchedTo(a, x, b, D, i, u, out, in)
  BY <1>4, <1>8, <1>13 DEF SwitchedTo
<1>18. TypeOf(i) # "VOICE_CALL" => StreamPlaced(a, b, D)
  <2>1. out = NoDevice <=> TypeOf(i) = "PCM_CAPTURE"
    BY <1>10 DEF Fits
  <2> QED  BY <1>2, <1>3, <1>9, <1>17, <2>1, StreamEffect
<1>19. TypeOf(i) = "VOICE_CALL" /\ a.in_call => CallPlaced(a, b, D, i)
  BY <1>2, <1>3, <1>9, <1>17, CallEffect
<1> QED  BY <1>1, <1>13, <1>14, <1>15, <1>16, <1>18, <1>19 DEF Effect

\* select_devices places a use case when the others are placed.
LEMMA Selected ==
    ASSUME setup \in Setups, NEW D, D \subseteq Used, NEW a, NEW P, Good(a, D, P),
           NEW i \in D, D \ {i} \subseteq P, NEW force
    PROVE  LET b == select_devices_with_force_switch(a, i, force)
           IN  Good(b, D, D) /\ Frame(a, b) /\ Effect(a, b, D, i)
<1>1. /\ a \in Adevs(D) /\ P \subseteq D /\ D \subseteq Ids
      /\ EntryFor(a.usecase[i], i)
  BY GoodFacts, UsedFacts
<1>2. PICK v : v = get_voice_communication_input(a)
  OBVIOUS
<1>3. v # NoDevice => v \in D /\ TypeOf(v) = "PCM_CAPTURE"
  <2>1. Found(v, D \cap setup.inputs)
    BY <1>1, <1>2, InputsFound
  <2>2. v # NoDevice => v \in D /\ v \in setup.inputs
    BY <2>1 DEF Found
  <2> QED  BY <2>2, TypesOfUsed
<1>4. PICK x : x = WithVoipInput(a, a.usecase[i], v)
  OBVIOUS
<1>5. /\ Good(x, D, P) /\ Frame(a, x) /\ Refreshed(x, i) = Refreshed(a, i)
      /\ x = a \/ (TypeOf(i) = "PCM_PLAYBACK" /\ StreamPlaced(a, x, D))
  <2>1. CASE x = a
    BY <2>1 DEF Frame
  <2>2. CASE x = SelectOne(a, Refreshed(a, v), FALSE) /\ v # NoDevice
             /\ TypeOf(i) = "PCM_PLAYBACK"
    <3>1. v \in D /\ TypeOf(v) = "PCM_CAPTURE" /\ v # i /\ v \in P
      BY <1>3, <2>2
    <3>2. Good(x, D, P \cup {v}) /\ Frame(a, x) /\ PlaybacksKept(a.usecase, x.usecase, D \ {v})
          /\ Effect(a, x, D, v)
      BY <2>2, <3>1, SelectedOne
    <3>3. P \cup {v} = P
      BY <3>1
    <3>4. x.usecase[i] = a.usecase[i]
      BY <1>1, <2>2, <3>1, <3>2 DEF PlaybacksKept, EntryFor
    <3>5. x.out = a.out /\ x.in = a.in
      BY <3>2 DEF Frame
    <3>6. Refreshed(x, i) = Refreshed(a, i)
      BY <3>4, <3>5 DEF Refreshed, out_devices
    <3>7. StreamPlaced(a, x, D)
      BY <3>1, <3>2 DEF Effect
    <3> QED  BY <2>2, <3>2, <3>3, <3>6, <3>7
  <2>3. \/ x = a
        \/ x = SelectOne(a, Refreshed(a, v), FALSE) /\ v # NoDevice
             /\ TypeOf(i) = "PCM_PLAYBACK"
    BY <1>1, <1>4 DEF WithVoipInput, NoDevice, EntryFor
  <2> QED  BY <2>1, <2>2, <2>3
<1> DEFINE b == SelectOne(x, Refreshed(x, i), force)
<1>6. Good(b, D, P \cup {i}) /\ Frame(x, b) /\ Effect(x, b, D, i)
  <2> HIDE DEF b
  <2> QED  BY <1>5, SelectedOne DEF b
<1>7. P \cup {i} = D
  BY <1>1
<1>8. select_devices_with_force_switch(a, i, force) = b
  BY <1>2, <1>4, <1>5 DEF select_devices_with_force_switch
<1> HIDE DEF b
<1>9. Frame(a, b)
  BY <1>5, <1>6 DEF Frame
<1>10. Effect(a, b, D, i)
  <2>1. CASE x = a
    BY <1>6, <2>1
  <2>2. CASE TypeOf(i) = "PCM_PLAYBACK" /\ StreamPlaced(a, x, D)
    BY <1>5, <1>6, <2>2 DEF Effect, StreamPlaced, Frame
  <2> QED  BY <1>5, <2>1, <2>2
<1> QED  BY <1>6, <1>7, <1>8, <1>9, <1>10

-----------------------------------------------------------------------------
(* The list. *)

\* Everything but the use cases, their paths and their devices.
Settings(a, b) ==
  /\ b.out = a.out /\ b.in = a.in /\ b.mode = a.mode /\ b.in_call = a.in_call
  /\ b.current_call_output = a.current_call_output /\ b.session = a.session

LEMMA OrderAppended ==
    ASSUME NEW D, NEW list \in Orders(D), NEW i, i \notin D
    PROVE  Append(list, i) \in Orders(D \cup {i})
<1>1. /\ list \in Seq(D) /\ Len(list) \in Nat /\ DOMAIN list = 1..Len(list)
      /\ \A n, m \in 1..Len(list) : list[n] = list[m] => n = m
      /\ \A j \in D : \E n \in 1..Len(list) : list[n] = j
      /\ \A n \in 1..Len(list) : list[n] \in D
  BY DEF Orders
<1>2. PICK q : q = Append(list, i)
  OBVIOUS
<1>3. /\ q \in Seq(D \cup {i}) /\ Len(q) = Len(list) + 1 /\ DOMAIN q = 1..Len(q)
      /\ q[Len(list) + 1] = i /\ \A n \in 1..Len(list) : q[n] = list[n]
  BY <1>1, <1>2
<1>4. ASSUME NEW n \in DOMAIN q, NEW m \in DOMAIN q, q[n] = q[m] PROVE n = m
  <2>1. \A k \in DOMAIN q : k \in 1..Len(list) \/ k = Len(list) + 1
    BY <1>1, <1>3
  <2> QED  BY <1>1, <1>3, <1>4, <2>1
<1>5. ASSUME NEW j \in D \cup {i} PROVE \E n \in DOMAIN q : q[n] = j
  <2>1. Len(list) + 1 \in DOMAIN q /\ \A n \in 1..Len(list) : n \in DOMAIN q
    BY <1>1, <1>3
  <2> QED  BY <1>1, <1>3, <2>1
<1> QED  BY <1>2, <1>3, <1>4, <1>5 DEF Orders

LEMMA OrderRemoved ==
    ASSUME NEW D, NEW list \in Orders(D), NEW i \in D
    PROVE  RemoveAt(list, CHOOSE n \in DOMAIN list : list[n] = i) \in Orders(D \ {i})
<1>1. /\ list \in Seq(D) /\ Len(list) \in Nat /\ DOMAIN list = 1..Len(list)
      /\ \A n, m \in 1..Len(list) : list[n] = list[m] => n = m
      /\ \A j \in D : \E n \in 1..Len(list) : list[n] = j
      /\ \A n \in 1..Len(list) : list[n] \in D
  BY DEF Orders
<1>2. PICK n : n = CHOOSE m \in DOMAIN list : list[m] = i
  OBVIOUS
<1>3. n \in 1..Len(list) /\ list[n] = i
  BY <1>1, <1>2
<1> DEFINE l == Len(list)
<1> DEFINE s == SubSeq(list, 1, n - 1)
<1> DEFINE t == SubSeq(list, n + 1, l)
<1>4. s \in Seq(D) /\ Len(s) = n - 1 /\ \A m \in 1..(n - 1) : s[m] = list[m]
  <2>1. n - 1 \in Nat /\ 1 \in Int /\ \A m \in 1..(n - 1) : m \in 1..l
    BY <1>1, <1>3
  <2> QED  BY <1>1, <1>3, <2>1
<1>5. t \in Seq(D) /\ Len(t) = l - n /\ \A m \in 1..(l - n) : t[m] = list[n + m]
  <2>0. n \in 1..l /\ l \in Nat
    BY <1>1, <1>3
  <2>1. n + 1 \in Int /\ l \in Int /\ \A m \in (n + 1)..l : m \in 1..l
    BY <1>1, <1>3
  <2>2. \A m \in (n + 1)..l : list[m] \in D
    BY <1>1, <2>1
  <2>3. /\ t \in Seq(D) /\ Len(t) = (IF n + 1 <= l THEN l - (n + 1) + 1 ELSE 0)
        /\ \A m \in 1..(l - (n + 1) + 1) : t[m] = list[n + 1 + m - 1]
    BY <2>1, <2>2, SubSeqProperties
  <2> HIDE DEF t
  <2>4. l - (n + 1) + 1 = l - n /\ \A m \in 1..(l - n) : n + 1 + m - 1 = n + m
    BY <2>0
  <2>5. Len(t) = l - n
    <3>1. CASE n + 1 <= l
      BY <2>3, <2>4, <3>1
    <3>2. CASE ~ (n + 1 <= l)
      <4>1. l - n = 0
        BY <2>0, <3>2
      <4> QED  BY <2>3, <3>2, <4>1
    <3> QED  BY <3>1, <3>2
  <2>6. ASSUME NEW m \in 1..(l - n) PROVE t[m] = list[n + m]
    <3>1. m \in 1..(l - (n + 1) + 1) /\ n + 1 + m - 1 = n + m
      BY <2>0, <2>4
    <3> QED  BY <2>3, <3>1
  <2> QED  BY <2>3, <2>5, <2>6
<1> HIDE DEF s, t
<1>6. PICK q : q = s \o t
  OBVIOUS
<1>7. /\ q \in Seq(D) /\ Len(q) = l - 1 /\ DOMAIN q = 1..(l - 1)
      /\ \A m \in 1..(l - 1) : q[m] = IF m < n THEN list[m] ELSE list[m + 1]
  <2>1. /\ q \in Seq(D) /\ Len(q) = Len(s) + Len(t) /\ DOMAIN q = 1..Len(q)
        /\ \A m \in 1..(Len(s) + Len(t)) : q[m] = IF m <= Len(s) THEN s[m] ELSE t[m - Len(s)]
    BY <1>4, <1>5, <1>6, ConcatProperties, LenProperties
  <2>2. ASSUME NEW m \in 1..(l - 1) PROVE q[m] = IF m < n THEN list[m] ELSE list[m + 1]
    <3>1. CASE m < n
      <4>1. m \in 1..(n - 1) /\ m <= Len(s) /\ m \in 1..(Len(s) + Len(t))
        BY <1>1, <1>3, <1>4, <1>5, <3>1
      <4> QED  BY <1>4, <2>1, <3>1, <4>1
    <3>2. CASE ~ (m < n)
      <4>1. m - (n - 1) \in 1..(l - n) /\ ~ (m <= Len(s)) /\ m \in 1..(Len(s) + Len(t))
            /\ n + (m - (n - 1)) = m + 1 /\ m - Len(s) = m - (n - 1)
        BY <1>1, <1>3, <1>4, <1>5, <3>2
      <4> QED  BY <1>5, <2>1, <3>2, <4>1
    <3> QED  BY <3>1, <3>2
  <2>3. Len(q) = l - 1
    BY <1>1, <1>3, <1>4, <1>5, <2>1
  <2> QED  BY <2>1, <2>2, <2>3
<1> DEFINE at(m) == IF m < n THEN m ELSE m + 1
<1>8. /\ \A m \in 1..(l - 1) : /\ at(m) \in 1..l /\ at(m) # n /\ q[m] = list[at(m)]
      /\ \A m, k \in 1..(l - 1) : at(m) = at(k) => m = k
      /\ \A k \in 1..l : k # n => \E m \in 1..(l - 1) : at(m) = k
  <2>1. ASSUME NEW m \in 1..(l - 1) PROVE at(m) \in 1..l /\ at(m) # n /\ q[m] = list[at(m)]
    BY <1>1, <1>3, <1>7
  <2>2. ASSUME NEW m \in 1..(l - 1), NEW k \in 1..(l - 1), at(m) = at(k) PROVE m = k
    BY <1>1, <1>3, <2>2
  <2>3. ASSUME NEW k \in 1..l, k # n PROVE \E m \in 1..(l - 1) : at(m) = k
    <3>1. CASE k < n
      <4>1. k \in 1..(l - 1) /\ at(k) = k
        BY <1>1, <1>3, <3>1
      <4> QED  BY <4>1
    <3>2. CASE n < k
      <4>1. k - 1 \in 1..(l - 1) /\ at(k - 1) = k
        BY <1>1, <1>3, <3>2
      <4> QED  BY <4>1
    <3> QED  BY <1>3, <2>3, <3>1, <3>2
  <2> QED  BY <2>1, <2>2, <2>3
<1> HIDE DEF at, l
<1>9. ASSUME NEW m \in DOMAIN q PROVE q[m] \in D \ {i}
  <2>1. at(m) \in 1..l /\ at(m) # n /\ q[m] = list[at(m)]
    BY <1>7, <1>8
  <2>2. list[at(m)] \in D /\ list[at(m)] # list[n]
    BY <1>1, <1>3, <2>1 DEF l
  <2> QED  BY <1>3, <2>1, <2>2
<1>10. q \in Seq(D \ {i})
  <2>1. Len(q) \in Nat /\ q = [m \in 1..Len(q) |-> q[m]] /\ DOMAIN q = 1..Len(q)
    BY <1>7
  <2>2. \A m \in 1..Len(q) : q[m] \in D \ {i}
    BY <1>9, <2>1
  <2>3. q \in [1..Len(q) -> D \ {i}]
    BY <2>1, <2>2, SMTT(20)
  <2>4. q \in UNION {[1..m -> D \ {i}] : m \in Nat}
    BY <2>1, <2>3
  <2> QED  BY <2>4, SeqDef, Zenon
<1>11. ASSUME NEW m \in DOMAIN q, NEW k \in DOMAIN q, q[m] = q[k] PROVE m = k
  <2>1. /\ m \in 1..(l - 1) /\ k \in 1..(l - 1) /\ at(m) \in 1..l /\ at(k) \in 1..l
        /\ q[m] = list[at(m)] /\ q[k] = list[at(k)]
    BY <1>7, <1>8
  <2>2. at(m) = at(k)
    BY <1>1, <1>11, <2>1 DEF l
  <2> QED  BY <1>8, <2>1, <2>2
<1>12. ASSUME NEW j \in D \ {i} PROVE \E m \in DOMAIN q : q[m] = j
  <2>1. PICK k \in 1..l : list[k] = j
    BY <1>1 DEF l
  <2>2. k # n
    BY <1>3, <2>1
  <2> QED  BY <1>7, <1>8, <2>1, <2>2
<1>13. q \in Orders(D \ {i})
  BY <1>10, <1>11, <1>12 DEF Orders
<1>14. q = RemoveAt(list, n)
  BY <1>6 DEF RemoveAt, s, t, l
<1> QED  BY <1>2, <1>13, <1>14

\* Keys on no device do not count.
LEMMA SameCount ==
    ASSUME NEW r, NEW q, NEW cnt, Counted(cnt, r),
           \A d \in SndDevices : \A k : (k \in DOMAIN r /\ r[k] = d) <=> (k \in DOMAIN q /\ q[k] = d)
    PROVE  Counted(cnt, q)
<1> SUFFICES ASSUME NEW d \in SndDevices
             PROVE  {k \in DOMAIN q : q[k] = d} = {k \in DOMAIN r : r[k] = d}
  BY DEF Counted
<1> QED  OBVIOUS

LEMMA HoldingsGrown ==
    ASSUME NEW E, NEW F, E \subseteq F, NEW r \in Holdings(E),
           NEW cnt, Counted(cnt, r), NEW q, q = [k \in F |-> IF k \in E THEN r[k] ELSE NoDevice]
    PROVE  q \in Holdings(F) /\ Counted(cnt, q)
<1>1. DOMAIN r = E /\ DOMAIN q = F /\ \A k \in E : r[k] \in SndDevices \cup {NoDevice}
  BY DEF Holdings
<1>2. \A k \in F : q[k] = IF k \in E THEN r[k] ELSE NoDevice
  OBVIOUS
<1>3. q \in Holdings(F)
  BY <1>1 DEF Holdings
<1>4. ASSUME NEW d \in SndDevices, NEW k
      PROVE  (k \in E /\ r[k] = d) <=> (k \in F /\ q[k] = d)
  <2>1. d # NoDevice
    BY SplitFacts
  <2> QED  BY <1>2, <2>1
<1> QED  BY <1>1, <1>3, <1>4, SameCount

LEMMA HoldingsShrunk ==
    ASSUME NEW E, NEW F, E \subseteq F, NEW r \in Holdings(F), \A k \in F \ E : Free(r, k),
           NEW cnt, Counted(cnt, r), NEW q, q = [k \in E |-> r[k]]
    PROVE  q \in Holdings(E) /\ Counted(cnt, q)
<1>1. DOMAIN r = F /\ DOMAIN q = E /\ \A k \in F : r[k] \in SndDevices \cup {NoDevice}
  BY DEF Holdings
<1>2. \A k \in E : q[k] = r[k]
  OBVIOUS
<1>3. q \in Holdings(E)
  BY <1>1 DEF Holdings
<1>4. ASSUME NEW d \in SndDevices, NEW k
      PROVE  (k \in F /\ r[k] = d) <=> (k \in E /\ q[k] = d)
  <2>1. d # NoDevice
    BY SplitFacts
  <2> QED  BY <1>2, <2>1 DEF Free
<1> QED  BY <1>1, <1>3, <1>4, SameCount

\* adev with another list.
RelistedTo(a, b, list, f) == b = [a EXCEPT !.usecase_list = list, !.usecase = f]

LEMMA Relisted ==
    ASSUME NEW D, NEW a \in Adevs(D), NEW E, NEW list \in Orders(E), NEW f \in Tables(E),
           NEW b, RelistedTo(a, b, list, f)
    PROVE  /\ b \in Adevs(E) /\ Settings(a, b) /\ b.usecase = f /\ b.usecase_list = list
           /\ b.paths = a.paths /\ b.snd_dev_ref_cnt = a.snd_dev_ref_cnt
           /\ b.sidetone = a.sidetone
  BY DEF Adevs, Settings, RelistedTo

DevicesOfStreams == OutputSets \cup {{d} : d \in InputDevices}

\* The use cases E are as they were.
Undisturbed(a, b, E) ==
  b.sidetone = a.sidetone /\ \A j \in E : b.usecase[j] = a.usecase[j]

\* A new use case is on no device.
LEMMA Added ==
    ASSUME NEW D, D \subseteq Ids, NEW a, NEW P, Good(a, D, P), NEW i \in Ids, i \notin D,
           NEW devices \in DevicesOfStreams
    PROVE  LET b == list_add_tail(a, i, TypeOf(i), devices)
           IN  /\ Good(b, D \cup {i}, P) /\ Settings(a, b) /\ Undisturbed(a, b, D)
               /\ Unplaced(b.usecase[i])
<1>1. PICK r : GoodWith(a, D, r, P)
  BY DEF Good
<1>2. /\ a \in Adevs(D) /\ Held(a, D, r, P) /\ Sits(r, a.usecase, D)
      /\ Seating(a.usecase, P, D) /\ Sharing(a.usecase, D) /\ P \subseteq D
      /\ r \in Holdings(Keys(D)) /\ Counted(a.snd_dev_ref_cnt, r)
      /\ a.paths = {route_path(a.usecase[j]) : j \in P}
  BY <1>1 DEF GoodWith, Held
<1>3. /\ DOMAIN a.usecase = D
      /\ \A j \in D : /\ a.usecase[j] \in UseCaseRecords
                      /\ a.usecase[j].id = j /\ a.usecase[j].type = TypeOf(j)
  BY GoodFacts DEF EntryFor
<1> DEFINE u == [id |-> i, type |-> TypeOf(i), devices |-> devices,
                 out_snd_device |-> NoDevice, in_snd_device |-> NoDevice]
<1> DEFINE f == [j \in D \cup {i} |-> IF j # i THEN a.usecase[j] ELSE u]
<1>4. u \in UseCaseRecords /\ Unplaced(u) /\ u.in_snd_device = NoDevice
      /\ u.out_snd_device = NoDevice /\ u.id = i /\ u.type = TypeOf(i)
  BY DEF UseCaseRecords, DevicesOfStreams, TypeOf, Unplaced
<1> HIDE DEF u
<1>5. \A j \in D \cup {i} : f[j] = IF j # i THEN a.usecase[j] ELSE u
  OBVIOUS
<1>6. f \in Tables(D \cup {i})
  <2>1. ASSUME NEW j \in D \cup {i}
        PROVE  f[j] \in UseCaseRecords /\ f[j].id = j /\ f[j].type = TypeOf(j)
    BY <1>3, <1>4
  <2>2. f = [j \in D \cup {i} |-> f[j]]
    OBVIOUS
  <2> HIDE DEF f
  <2> QED  BY <2>1, <2>2 DEF Tables
<1>7. Append(a.usecase_list, i) \in Orders(D \cup {i})
  BY <1>2, AdevFields, OrderAppended
<1>8. PICK b : b = list_add_tail(a, i, TypeOf(i), devices)
  OBVIOUS
<1>9. b = [a EXCEPT !.usecase_list = Append(a.usecase_list, i), !.usecase = f]
  BY <1>2, <1>3, <1>8 DEF list_add_tail, Adevs, NoDevice, u
<1> HIDE DEF f
<1>10. /\ b \in Adevs(D \cup {i}) /\ Settings(a, b) /\ b.usecase = f
       /\ b.paths = a.paths /\ b.snd_dev_ref_cnt = a.snd_dev_ref_cnt
       /\ b.sidetone = a.sidetone
  <2>1. PICK S, list : S = D \cup {i} /\ list = Append(a.usecase_list, i)
    OBVIOUS
  <2>2. list \in Orders(S) /\ f \in Tables(S)
    BY <1>6, <1>7, <2>1
  <2>3. RelistedTo(a, b, list, f)
    BY <1>9, <2>1 DEF RelistedTo
  <2>4. /\ b \in Adevs(S) /\ Settings(a, b) /\ b.usecase = f
        /\ b.paths = a.paths /\ b.snd_dev_ref_cnt = a.snd_dev_ref_cnt
        /\ b.sidetone = a.sidetone
    BY <1>2, <2>2, <2>3, Relisted
  <2> QED  BY <2>1, <2>4
<1> DEFINE E == Keys(D)
<1> DEFINE F == Keys(D \cup {i})
<1>11. PICK q : q = [k \in F |-> IF k \in E THEN r[k] ELSE NoDevice]
  OBVIOUS
<1>12. q \in Holdings(F) /\ Counted(a.snd_dev_ref_cnt, q)
  <2>1. E \subseteq F
    BY DEF Keys
  <2> HIDE DEF E, F
  <2> QED  BY <1>2, <1>11, <2>1, HoldingsGrown DEF E
<1>13. ASSUME NEW j \in D, NEW s \in Sides PROVE q[Key(j, s)] = r[Key(j, s)]
  BY <1>11, KeyOf
<1>14. ASSUME NEW s \in Sides PROVE q[Key(i, s)] = NoDevice
  <2>1. Key(i, s) \in F /\ Key(i, s)[1] = i
    BY KeyOf
  <2>2. Key(i, s) \notin E
    BY <2>1, KeyParts
  <2> QED  BY <1>11, <2>1, <2>2
<1> HIDE DEF E, F
<1>15. Held(b, D \cup {i}, q, P)
  <2>1. \A j \in P : f[j] = a.usecase[j]
    BY <1>2, <1>5
  <2> QED  BY <1>2, <1>10, <1>12, <2>1 DEF Held, F
<1>16. Sits(q, f, D \cup {i})
  <2>1. ASSUME NEW j \in D \cup {i}, NEW s \in Sides PROVE q[Key(j, s)] = f[j][s]
    <3>1. CASE j = i
      BY <1>4, <1>5, <1>14, <3>1 DEF Sides
    <3>2. CASE j # i
      BY <1>2, <1>5, <1>13, <3>2 DEF Sits, SitsOn, Sides
    <3> QED  BY <3>1, <3>2
  <2> QED  BY <2>1, SideNames DEF Sits, SitsOn
<1>17. Seating(f, P, D \cup {i})
  BY <1>2, <1>4, <1>5 DEF Seating
<1>18. Sharing(f, D \cup {i})
  <2> SUFFICES ASSUME NEW j \in D \cup {i}, NEW k \in D \cup {i},
                      platform_check_backends_match(f[j].in_snd_device, f[k].in_snd_device)
               PROVE  f[j].in_snd_device = f[k].in_snd_device
    BY DEF Sharing
  <2>1. f[j].in_snd_device # NoDevice /\ f[k].in_snd_device # NoDevice
    BY MatchFacts
  <2>2. j # i /\ k # i
    BY <1>4, <1>5, <2>1
  <2> QED  BY <1>2, <1>5, <2>2 DEF Sharing
<1>19. GoodWith(b, D \cup {i}, q, P)
  BY <1>10, <1>15, <1>16, <1>17, <1>18 DEF GoodWith
<1>20. Undisturbed(a, b, D) /\ Unplaced(b.usecase[i])
  BY <1>4, <1>5, <1>10 DEF Undisturbed
<1> QED  BY <1>8, <1>10, <1>19, <1>20 DEF Good

\* A use case that gave up its devices leaves the list.
LEMMA Removed ==
    ASSUME NEW D, D \subseteq Ids, NEW a, NEW P, NEW i, OpenAt(a, D, P, i, NoDevice, NoDevice)
    PROVE  /\ Good(list_remove(a, i), D \ {i}, P) /\ Settings(a, list_remove(a, i))
           /\ Undisturbed(a, list_remove(a, i), D \ {i})
<1> DEFINE E == D \ {i}
<1>1. PICK r : OpenWith(a, D, r, P, i, NoDevice, NoDevice)
  BY DEF OpenAt
<1>2. /\ a \in Adevs(D) /\ Held(a, D, r, P) /\ Sits(r, a.usecase, E)
      /\ Seating(a.usecase, P, E) /\ Sharing(a.usecase, E) /\ P \subseteq E
      /\ r \in Holdings(Keys(D)) /\ Counted(a.snd_dev_ref_cnt, r) /\ i \in D
      /\ a.paths = {route_path(a.usecase[j]) : j \in P}
  BY <1>1 DEF OpenWith, Held
<1>3. a.usecase \in Tables(D) /\ DOMAIN a.usecase = D
  BY <1>2, AdevFields DEF Tables
<1> DEFINE f == [j \in E |-> a.usecase[j]]
<1>4. f \in Tables(E) /\ \A j \in E : f[j] = a.usecase[j]
  <2>1. \A j \in E : /\ a.usecase[j] \in UseCaseRecords
                     /\ a.usecase[j].id = j /\ a.usecase[j].type = TypeOf(j)
    BY <1>3 DEF Tables
  <2> HIDE DEF E
  <2> QED  BY <2>1 DEF Tables
<1> DEFINE list == RemoveAt(a.usecase_list, CHOOSE n \in DOMAIN a.usecase_list :
                                               a.usecase_list[n] = i)
<1>5. list \in Orders(E)
  BY <1>2, AdevFields, OrderRemoved
<1>6. PICK b : b = list_remove(a, i)
  OBVIOUS
<1>7. RelistedTo(a, b, list, f)
  <2>1. Restrict(a.usecase, DOMAIN a.usecase \ {i}) = f
    BY <1>3 DEF Restrict
  <2> HIDE DEF f
  <2> QED  BY <1>2, <1>6, <2>1 DEF list_remove, Adevs, RelistedTo
<1> HIDE DEF f, list
<1>8. /\ b \in Adevs(E) /\ Settings(a, b) /\ b.usecase = f
      /\ b.paths = a.paths /\ b.snd_dev_ref_cnt = a.snd_dev_ref_cnt
      /\ b.sidetone = a.sidetone
  <2>1. PICK S : S = E
    OBVIOUS
  <2>2. list \in Orders(S) /\ f \in Tables(S)
    BY <1>4, <1>5, <2>1
  <2> HIDE DEF E
  <2>3. /\ b \in Adevs(S) /\ Settings(a, b) /\ b.usecase = f
        /\ b.paths = a.paths /\ b.snd_dev_ref_cnt = a.snd_dev_ref_cnt
        /\ b.sidetone = a.sidetone
    BY <1>2, <1>7, <2>2, Relisted
  <2> QED  BY <2>1, <2>3
<1>9. PICK q : q = [k \in Keys(E) |-> r[k]]
  OBVIOUS
<1>10. q \in Holdings(Keys(E)) /\ Counted(a.snd_dev_ref_cnt, q)
  <2>1. PICK S, T : S = Keys(E) /\ T = Keys(D)
    OBVIOUS
  <2>2. S \subseteq T
    BY <2>1 DEF Keys
  <2>3. ASSUME NEW k \in T \ S PROVE Free(r, k)
    <3>1. k[1] = i /\ k[2] \in Sides /\ k = Key(k[1], k[2])
      BY <2>1, <2>3, KeyParts DEF Keys
    <3>2. Free(r, Key(i, "out_snd_device")) /\ Free(r, Key(i, "in_snd_device"))
      BY <1>1 DEF OpenWith, Holds, Free
    <3> QED  BY <3>1, <3>2 DEF Sides
  <2>4. r \in Holdings(T) /\ q = [k \in S |-> r[k]]
    BY <1>2, <1>9, <2>1
  <2>5. q \in Holdings(S) /\ Counted(a.snd_dev_ref_cnt, q)
    BY <1>2, <2>2, <2>3, <2>4, HoldingsShrunk
  <2> QED  BY <2>1, <2>5
<1>11. Held(b, E, q, P)
  <2>1. \A j \in P : f[j] = a.usecase[j]
    BY <1>2, <1>4
  <2> QED  BY <1>2, <1>8, <1>10, <2>1 DEF Held
<1>12. Sits(q, f, E)
  <2>1. ASSUME NEW j \in E, NEW s \in Sides PROVE q[Key(j, s)] = r[Key(j, s)]
    BY <1>9, KeyOf
  <2> QED  BY <1>2, <1>4, <2>1, SideNames DEF Sits, SitsOn
<1>13. Seating(f, P, E) /\ Sharing(f, E)
  BY <1>2, <1>4 DEF Seating, Sharing
<1>14. GoodWith(b, E, q, P)
  BY <1>8, <1>11, <1>12, <1>13 DEF GoodWith
<1>15. Undisturbed(a, b, E)
  BY <1>4, <1>8 DEF Undisturbed
<1> QED  BY <1>6, <1>8, <1>14, <1>15 DEF Good

LEMMA Withdrawn ==
    ASSUME NEW D, D \subseteq Ids, NEW a, NEW P, Good(a, D, P), NEW i \in D,
           NEW u, u = a.usecase[i]
    PROVE  /\ Good(Withdraw(a, u), D \ {i}, P \ {i}) /\ Settings(a, Withdraw(a, u))
           /\ Undisturbed(a, Withdraw(a, u), D \ {i})
<1>1. PICK r : GoodWith(a, D, r, P)
  BY DEF Good
<1>2. /\ Held(a, D, r, P) /\ \A k : k = i => u.id = k
  BY <1>1, EntryFields DEF GoodWith
<1> DEFINE y == disable_audio_route(a, i)
<1>3. Held(y, D, r, P \ {i}) /\ Rewired(a, y)
  BY <1>2, RouteOffOf
<1> HIDE DEF y
<1> DEFINE z == disable_snd_device(disable_snd_device(y, u.out_snd_device), u.in_snd_device)
<1>4. /\ OpenAt(z, D, P \ {i}, i, NoDevice, NoDevice) /\ Retoned(a, z)
      /\ z.sidetone = a.sidetone
  <2>1. Retoned(a, y) /\ y.sidetone = a.sidetone
    BY <1>3 DEF Rewired, Retoned
  <2> QED  BY <1>1, <1>3, <2>1, DevicesLeft
<1> HIDE DEF z
<1>5. /\ Good(list_remove(z, i), D \ {i}, P \ {i}) /\ Settings(z, list_remove(z, i))
      /\ Undisturbed(z, list_remove(z, i), D \ {i})
  <2>1. PICK p : p = P \ {i}
    OBVIOUS
  <2>2. OpenAt(z, D, p, i, NoDevice, NoDevice)
    BY <1>4, <2>1
  <2>3. /\ Good(list_remove(z, i), D \ {i}, p) /\ Settings(z, list_remove(z, i))
        /\ Undisturbed(z, list_remove(z, i), D \ {i})
    BY <2>2, Removed
  <2> QED  BY <2>1, <2>3
<1>6. Withdraw(a, u) = list_remove(z, i)
  BY <1>2 DEF Withdraw, y, z
<1>7. Settings(a, list_remove(z, i)) /\ Undisturbed(a, list_remove(z, i), D \ {i})
  BY <1>4, <1>5 DEF Retoned, Frame, Settings, Undisturbed
<1> QED  BY <1>5, <1>6, <1>7

\* A loop that selects the devices of some use cases anew.
SelectAll(a, ids, force) ==
  list_for_each(a, ids, LAMBDA b, id : select_devices_with_force_switch(b, id, force))

\* The rounds of the loop lead from each of the sets W to the next.
Reselected(q, i, T, force) ==
  IF i \in T THEN select_devices_with_force_switch(q, i, force) ELSE q

LEMMA SelectLoop ==
    ASSUME NEW a, NEW T, NEW force, NEW n \in Nat, n = Len(a.usecase_list), NEW W, a \in W[0],
           \A i \in 1..n : \A q \in W[i - 1] : Reselected(q, a.usecase_list[i], T, force) \in W[i]
    PROVE  SelectAll(a, T, force) \in W[n]
<1> DEFINE list == a.usecase_list
<1> DEFINE Round(q, i) ==
             IF list[i] \in T THEN select_devices_with_force_switch(q, list[i], force) ELSE q
<1> DEFINE F(g) == [i \in 0..n |-> IF i = 0 THEN a ELSE Round(g[i - 1], i)]
<1> DEFINE after == CHOOSE g : g = F(g)
<1>1. SelectAll(a, T, force) = after[n]
  BY DEF SelectAll, list_for_each
<1>2. \A i \in 1..n : \A q \in W[i - 1] : Round(q, i) \in W[i]
  BY DEF Reselected
<1> HIDE DEF Round, list
<1> DEFINE step == [i \in 1..n |-> [q \in W[i - 1] |-> Round(q, i)]]
<1>3. \A i \in 1..n : \A q \in W[i - 1] : step[i][q] = Round(q, i) /\ step[i][q] \in W[i]
  BY <1>2
<1> HIDE DEF step
<1>4. PICK g : Leads(g, a, n, step, W)
  <2> HIDE DEF after, F
  <2> QED  BY <1>3, LoopEnds
<1>5. after = F(after)
  <2>1. ASSUME NEW i \in 0..n, i # 0 PROVE step[i][g[i - 1]] = Round(g[i - 1], i)
    <3>1. i \in 1..n /\ i - 1 \in 0..n
      BY <2>1
    <3> QED  BY <1>3, <1>4, <3>1 DEF Leads
  <2>2. g = F(g)
    BY <1>4, <2>1 DEF Leads
  <2> HIDE DEF F
  <2> QED  BY <2>2
<1> HIDE DEF after
<1> DEFINE Ends == {i \in 0..n : after[i] \in W[i]}
<1>6. 0 \in Ends
  BY <1>5
<1>7. ASSUME NEW i \in 1..n, i - 1 \in Ends PROVE i \in Ends
  <2>1. i \in 0..n /\ after[i] = Round(after[i - 1], i) /\ after[i - 1] \in W[i - 1]
    BY <1>5, <1>7
  <2> QED  BY <1>2, <2>1
<1>8. \A i \in 0..n : i \in Ends
  <2> HIDE DEF Ends
  <2> QED  BY <1>6, <1>7, RoundByRound
<1> QED  BY <1>1, <1>8

-----------------------------------------------------------------------------
(* What calls there are stay where they are. *)

\* No call, or calls in the call mode that are where the primary output is.
Quiet(a) == OnCall(a) = {} \/ (a.in_call /\ AtHome(a, OnCall(a)))
\* The sidetone of these calls.
Tuned(a) == a.sidetone = IF OnCall(a) = {} THEN {} ELSE sidetone_path(Home(a))
Steady(a, b) == Quiet(a) => Quiet(b) /\ (Tuned(a) => Tuned(b))

LEMMA SteadyFacts ==
    ASSUME NEW a, NEW b, NEW c
    PROVE  /\ Steady(a, a)
           /\ Steady(a, b) /\ Steady(b, c) => Steady(a, c)
  BY DEF Steady

LEMMA CallsActive ==
    ASSUME NEW D, NEW a \in Adevs(D)
    PROVE  voice_is_call_state_active(a) <=> OnCall(a) # {}
  BY AdevFields DEF voice_is_call_state_active, OnCall

LEMMA SameCalls ==
    ASSUME NEW a, NEW b, b.session = a.session
    PROVE  OnCall(b) = OnCall(a)
  BY DEF OnCall

LEMMA SteadyWhen ==
    ASSUME NEW a, NEW b, Settings(a, b), Undisturbed(a, b, OnCall(a))
    PROVE  Steady(a, b)
<1>1. /\ OnCall(b) = OnCall(a) /\ Home(b) = Home(a) /\ b.sidetone = a.sidetone
      /\ b.in_call = a.in_call /\ b.out = a.out
  BY SameCalls, SameHome DEF Settings, Undisturbed
<1>2. AtHome(a, OnCall(a)) => AtHome(b, OnCall(b))
  BY <1>1 DEF AtHome, Undisturbed
<1> QED  BY <1>1, <1>2 DEF Steady, Quiet, Tuned

LEMMA SelectSteady ==
    ASSUME setup \in Setups, NEW D, D \subseteq Used, NEW a \in Adevs(D), NEW i \in D,
           Calls(D) = OnCall(a), NEW b, Frame(a, b), Effect(a, b, D, i)
    PROVE  Steady(a, b)
<1>1. /\ OnCall(b) = OnCall(a) /\ Home(b) = Home(a)
      /\ b.in_call = a.in_call /\ b.out = a.out
  BY SameCalls, SameHome DEF Frame
<1>2. TypeOf(i) = "VOICE_CALL" => i \in OnCall(a)
  BY CallFacts
<1> SUFFICES ASSUME Quiet(a) PROVE Quiet(b) /\ (Tuned(a) => Tuned(b))
  BY DEF Steady
<1>3. CASE TypeOf(i) # "VOICE_CALL"
  <2>1. b.sidetone = a.sidetone /\ (a.in_call /\ AtHome(a, OnCall(a)) => AtHome(b, OnCall(a)))
    BY <1>3 DEF Effect, StreamPlaced
  <2> QED  BY <1>1, <2>1 DEF Quiet, Tuned
<1>4. CASE TypeOf(i) = "VOICE_CALL"
  <2>1. i \in OnCall(a) /\ a.in_call /\ AtHome(a, OnCall(a))
    BY <1>2, <1>4 DEF Quiet
  <2>2. CallPlaced(a, b, D, i)
    BY <1>4, <2>1 DEF Effect
  <2>3. ASSUME NEW j \in OnCall(a)
        PROVE  /\ b.usecase[j].out_snd_device = Home(b)
               /\ b.usecase[j].devices = b.out[primary_output].devices
               /\ b.usecase[j].in_snd_device # NoDevice
    <3>1. CASE j = i
      BY <2>2, <3>1 DEF CallPlaced, AtHome
    <3>2. CASE j # i
      BY <1>1, <2>1, <2>2, <3>2 DEF CallPlaced, AtHome
    <3> QED  BY <3>1, <3>2
  <2>4. AtHome(b, OnCall(b))
    BY <1>1, <2>3 DEF AtHome
  <2>5. ASSUME Tuned(a) PROVE Tuned(b)
    <3>1. /\ a.usecase[i].out_snd_device = Home(a) /\ a.usecase[i].in_snd_device # NoDevice
          /\ a.sidetone = sidetone_path(Home(a)) /\ voice_is_call_state_active(a)
      BY <2>1, <2>5, CallsActive DEF AtHome, Tuned
    <3>2. CallTone(a, b, a.usecase[i], Home(a))
      BY <2>2 DEF CallPlaced
    <3>3. \/ b.sidetone = (a.sidetone \ sidetone_path(Home(a))) \cup sidetone_path(Home(a))
          \/ b.sidetone = a.sidetone
      BY <3>1, <3>2 DEF CallTone
    <3>4. b.sidetone = sidetone_path(Home(a))
      BY <3>1, <3>3
    <3> QED  BY <1>1, <2>1, <3>4 DEF Tuned
  <2> QED  BY <1>1, <2>1, <2>4, <2>5 DEF Quiet
<1> QED  BY <1>3, <1>4

LEMMA AllSelected ==
    ASSUME setup \in Setups, NEW D, D \subseteq Used, NEW a, Good(a, D, D), NEW T, NEW force
    PROVE  /\ Good(SelectAll(a, T, force), D, D) /\ Frame(a, SelectAll(a, T, force))
           /\ Calls(D) = OnCall(a) => Steady(a, SelectAll(a, T, force))
<1> DEFINE list == a.usecase_list
<1> DEFINE n == Len(list)
<1> DEFINE V == {q \in Adevs(D) : /\ Good(q, D, D) /\ Frame(a, q)
                                  /\ Calls(D) = OnCall(a) => Steady(a, q)}
<1> DEFINE W == [i \in 0..n |-> V]
<1>1. list \in Seq(D) /\ n \in Nat /\ DOMAIN list = 1..n
  BY GoodFacts, AdevFields DEF Orders
<1>2. \A q : q \in V <=> /\ Good(q, D, D) /\ Frame(a, q)
                         /\ Calls(D) = OnCall(a) => Steady(a, q)
  BY GoodFacts
<1>3. \A i \in 0..n : W[i] = V
  OBVIOUS
<1>4. \A i \in 1..n : list[i] \in D
  BY <1>1
<1> HIDE DEF W, V, n
<1>5. a \in V
  BY <1>2, SteadyFacts DEF Frame
<1>6. ASSUME NEW i \in D, NEW q \in V PROVE Reselected(q, i, T, force) \in V
  <2>1. Good(q, D, D) /\ Frame(a, q) /\ q \in Adevs(D)
    BY <1>2, GoodFacts
  <2>2. CASE i \in T
    <3>1. D \ {i} \subseteq D
      OBVIOUS
    <3>2. PICK b : b = select_devices_with_force_switch(q, i, force)
      OBVIOUS
    <3>3. Good(b, D, D) /\ Frame(q, b) /\ Effect(q, b, D, i)
      BY <2>1, <3>1, <3>2, Selected
    <3>4. Frame(a, b)
      BY <2>1, <3>3 DEF Frame
    <3>5. ASSUME Calls(D) = OnCall(a) PROVE Steady(a, b)
      <4>1. Calls(D) = OnCall(q) /\ Steady(a, q)
        BY <1>2, <2>1, <3>5, SameCalls DEF Frame
      <4>2. Steady(q, b)
        BY <2>1, <3>3, <4>1, SelectSteady
      <4> QED  BY <4>1, <4>2, SteadyFacts
    <3> QED  BY <1>2, <2>2, <3>2, <3>3, <3>4, <3>5 DEF Reselected
  <2>3. CASE i \notin T
    BY <2>3 DEF Reselected
  <2> QED  BY <2>2, <2>3
<1>7. SelectAll(a, T, force) \in W[n]
  <2>1. a \in W[0] /\ n = Len(a.usecase_list)
    BY <1>1, <1>3, <1>5 DEF n
  <2>2. \A i \in 1..n : \A q \in W[i - 1] : Reselected(q, a.usecase_list[i], T, force) \in W[i]
    BY <1>1, <1>3, <1>4, <1>6
  <2> QED  BY <1>1, <2>1, <2>2, SelectLoop
<1> QED  BY <1>1, <1>2, <1>3, <1>7
\* The calls D on the way from o to the primary output's device: those of S are
\* there.
Moving(a, q, D, o, S) ==
  /\ AtHome(q, S)
  /\ \A j \in Calls(D) : /\ q.usecase[j].out_snd_device \in {o, Home(a)}
                         /\ q.usecase[j].in_snd_device # NoDevice
  /\ S = {} => /\ q.sidetone = a.sidetone
               /\ \A j \in Calls(D) : q.usecase[j].out_snd_device = o
  /\ S # {} => (a.sidetone = sidetone_path(o) => q.sidetone = sidetone_path(Home(a)))

LEMMA CallMoves ==
    ASSUME setup \in Setups, NEW D, D \subseteq Used, NEW a, Calls(D) = OnCall(a), a.in_call,
           NEW q \in Adevs(D), Frame(a, q), NEW o, NEW S, S \subseteq Calls(D),
           Moving(a, q, D, o, S), NEW i \in Calls(D), NEW b, Frame(q, b), Effect(q, b, D, i)
    PROVE  Moving(a, b, D, o, S \cup {i})
<1>1. /\ Home(q) = Home(a) /\ Home(b) = Home(a) /\ q.in_call /\ b.out = a.out /\ q.out = a.out
      /\ OnCall(q) = OnCall(a)
  BY SameCalls, SameHome DEF Frame
<1>2. TypeOf(i) = "VOICE_CALL" /\ OnCall(q) # {}
  BY <1>1, CallFacts
<1>3. CallPlaced(q, b, D, i)
  BY <1>1, <1>2 DEF Effect
<1>4. ASSUME NEW j \in S \cup {i}
      PROVE  /\ b.usecase[j].out_snd_device = Home(b)
             /\ b.usecase[j].devices = b.out[primary_output].devices
             /\ b.usecase[j].in_snd_device # NoDevice
  <2>1. CASE j = i
    BY <1>3, <2>1 DEF CallPlaced, AtHome
  <2>2. CASE j # i
    <3>1. /\ q.usecase[j].out_snd_device = Home(a) /\ q.usecase[j].in_snd_device # NoDevice
          /\ q.usecase[j].devices = a.out[primary_output].devices
      BY <1>1, <2>2 DEF Moving, AtHome
    <3> QED  BY <1>1, <1>3, <2>2, <3>1 DEF CallPlaced
  <2> QED  BY <2>1, <2>2
<1>5. AtHome(b, S \cup {i})
  BY <1>4 DEF AtHome
<1>6. ASSUME NEW j \in Calls(D)
      PROVE  /\ b.usecase[j].out_snd_device \in {o, Home(a)}
             /\ b.usecase[j].in_snd_device # NoDevice
  BY <1>1, <1>3 DEF CallPlaced, Moving
<1>7. ASSUME a.sidetone = sidetone_path(o) PROVE b.sidetone = sidetone_path(Home(a))
  <2>1. PICK e : e = q.usecase[i].out_snd_device
    OBVIOUS
  <2>2. /\ e \in {o, Home(a)} /\ q.usecase[i].in_snd_device # NoDevice
        /\ S = {} => e = o /\ q.sidetone = sidetone_path(o)
        /\ S # {} => q.sidetone = sidetone_path(Home(a))
    BY <1>7, <2>1 DEF Moving
  <2>3. voice_is_call_state_active(q)
    BY <1>2, CallsActive
  <2>4. \/ b.sidetone = (q.sidetone \ sidetone_path(e)) \cup sidetone_path(Home(a))
        \/ Home(a) = e /\ b.sidetone = q.sidetone
    <3>1. CallTone(q, b, q.usecase[i], Home(a))
      BY <1>1, <1>3 DEF CallPlaced
    <3> QED  BY <2>1, <2>2, <2>3, <3>1 DEF CallTone
  <2>5. CASE S = {}
    BY <2>2, <2>4, <2>5
  <2>6. CASE S # {}
    BY <2>2, <2>4, <2>6
  <2> QED  BY <2>5, <2>6
<1> QED  BY <1>5, <1>6, <1>7 DEF Moving

\* The calls follow the primary output.
LEMMA CallsMoved ==
    ASSUME setup \in Setups, NEW D, D \subseteq Used, NEW a, Good(a, D, D),
           Calls(D) = OnCall(a), OnCall(a) # {}, a.in_call, NEW o,
           \A j \in OnCall(a) : /\ a.usecase[j].out_snd_device = o
                                /\ a.usecase[j].in_snd_device # NoDevice
    PROVE  LET b == SelectAll(a, Calls(D), FALSE)
           IN  Quiet(b) /\ (a.sidetone = sidetone_path(o) => Tuned(b))
<1> DEFINE list == a.usecase_list
<1> DEFINE n == Len(list)
<1> DEFINE T == Calls(D)
<1> DEFINE W == [i \in 0..n |-> {q \in Adevs(D) : /\ Good(q, D, D) /\ Frame(a, q)
                                                  /\ Moving(a, q, D, o, Past(list, T, i))}]
<1>1. /\ n \in Nat /\ Past(list, T, 0) = {} /\ Past(list, T, n) = T
      /\ \A i \in 1..n :
            /\ list[i] \in D
            /\ list[i] \in T => Past(list, T, i) = Past(list, T, i - 1) \cup {list[i]}
            /\ list[i] \notin T => Past(list, T, i) = Past(list, T, i - 1)
      /\ \A i : Past(list, T, i) \subseteq T
  <2>1. list \in Orders(D) /\ T \subseteq D
    BY GoodFacts, AdevFields, CallFacts
  <2>2. \A i : Past(list, T, i) \subseteq T
    BY DEF Past
  <2> HIDE DEF T, list
  <2> QED  BY <2>1, <2>2, PastFacts DEF n
<1>2. \A i \in 0..n : \A q : q \in W[i] <=> /\ Good(q, D, D) /\ Frame(a, q)
                                            /\ Moving(a, q, D, o, Past(list, T, i))
  BY GoodFacts
<1> HIDE DEF W, n, list, T
<1>3. a \in W[0]
  <2>1. Moving(a, a, D, o, {})
    BY DEF Moving, AtHome
  <2>2. Moving(a, a, D, o, Past(list, T, 0))
    BY <1>1, <2>1
  <2>3. n \in Nat
    BY <1>1
  <2>4. 0 \in 0..n
    BY <2>3
  <2>5. Frame(a, a)
    BY DEF Frame
  <2> QED  BY <1>2, <2>2, <2>4, <2>5
<1>4. ASSUME NEW i \in 1..n, NEW q \in W[i - 1] PROVE Reselected(q, list[i], T, FALSE) \in W[i]
  <2>1. i - 1 \in 0..n /\ i \in 0..n /\ list[i] \in D
    BY <1>1
  <2>2. PICK S, j : S = Past(list, T, i - 1) /\ j = list[i]
    OBVIOUS
  <2>3. /\ Good(q, D, D) /\ Frame(a, q) /\ Moving(a, q, D, o, S) /\ q \in Adevs(D) /\ j \in D
        /\ S \subseteq T
    BY <1>1, <1>2, <2>1, <2>2, GoodFacts
  <2>4. CASE j \in T
    <3>1. D \ {j} \subseteq D
      OBVIOUS
    <3>2. PICK b : b = select_devices_with_force_switch(q, j, FALSE)
      OBVIOUS
    <3>3. Good(b, D, D) /\ Frame(q, b) /\ Effect(q, b, D, j)
      BY <2>3, <3>1, <3>2, Selected
    <3>4. Moving(a, b, D, o, S \cup {j})
      BY <2>3, <2>4, <3>3, CallMoves DEF T
    <3>5. Frame(a, b)
      BY <2>3, <3>3 DEF Frame
    <3>6. Past(list, T, i) = S \cup {j}
      BY <1>1, <2>2, <2>4
    <3> QED  BY <1>2, <2>1, <2>2, <2>4, <3>2, <3>3, <3>4, <3>5, <3>6 DEF Reselected
  <2>5. CASE j \notin T
    <3>1. Past(list, T, i) = S
      BY <1>1, <2>2, <2>5
    <3> QED  BY <1>2, <2>1, <2>2, <2>3, <2>5, <3>1 DEF Reselected
  <2> QED  BY <2>4, <2>5
<1>5. SelectAll(a, T, FALSE) \in W[n]
  <2>1. n = Len(a.usecase_list)
    BY DEF n, list
  <2>2. \A i \in 1..n : \A q \in W[i - 1] : Reselected(q, a.usecase_list[i], T, FALSE) \in W[i]
    BY <1>4 DEF list
  <2> QED  BY <1>1, <1>3, <2>1, <2>2, SelectLoop
<1>6. PICK b : b = SelectAll(a, T, FALSE)
  OBVIOUS
<1>7. Frame(a, b) /\ Moving(a, b, D, o, T)
  <2>1. n \in 0..n /\ b \in W[n]
    <3>1. n \in 0..n
      <4>1. n \in Nat
        BY <1>1
      <4> QED  BY <4>1
    <3> QED  BY <1>5, <1>6, <3>1
  <2>2. PICK S : S = Past(list, T, n)
    OBVIOUS
  <2>3. Frame(a, b) /\ Moving(a, b, D, o, S)
    BY <1>2, <2>1, <2>2
  <2>4. S = T
    BY <1>1, <2>2
  <2> QED  BY <2>3, <2>4
<1>8. OnCall(b) = T /\ Home(b) = Home(a) /\ b.in_call /\ T # {}
  BY <1>7, SameCalls, SameHome DEF Frame, T
<1>9. Quiet(b)
  BY <1>7, <1>8 DEF Moving, Quiet
<1>10. a.sidetone = sidetone_path(o) => Tuned(b)
  BY <1>7, <1>8 DEF Moving, Tuned
<1> QED  BY <1>6, <1>9, <1>10 DEF T

-----------------------------------------------------------------------------
(* Voice sessions. *)

\* Settings that routing does not see may change.
LEMMA GoodCarried ==
    ASSUME NEW D, NEW a, NEW P, Good(a, D, P), NEW b \in Adevs(D), b.usecase = a.usecase,
           b.snd_dev_ref_cnt = a.snd_dev_ref_cnt, b.paths = a.paths
    PROVE  Good(b, D, P)
<1>1. PICK r : GoodWith(a, D, r, P)
  BY DEF Good
<1>2. GoodWith(b, D, r, P)
  BY <1>1 DEF GoodWith, Held
<1> QED  BY <1>2 DEF Good

LEMMA GoodSidetone ==
    ASSUME NEW D, NEW a, NEW P, Good(a, D, P), NEW d
    PROVE  /\ Good(voice_set_sidetone(a, d, TRUE), D, P)
           /\ Sounding(a, voice_set_sidetone(a, d, TRUE), d)
           /\ Good(voice_set_sidetone(a, d, FALSE), D, P)
           /\ Silenced(a, voice_set_sidetone(a, d, FALSE), d)
<1>1. PICK r : GoodWith(a, D, r, P)
  BY DEF Good
<1>2. PICK b, c : b = voice_set_sidetone(a, d, TRUE) /\ c = voice_set_sidetone(a, d, FALSE)
  OBVIOUS
<1>3. Held(b, D, r, P) /\ Sounding(a, b, d) /\ Held(c, D, r, P) /\ Silenced(a, c, d)
  BY <1>1, <1>2, SidetoneKeeps DEF GoodWith
<1>4. GoodWith(b, D, r, P) /\ GoodWith(c, D, r, P)
  BY <1>1, <1>3 DEF GoodWith, Sounding, Silenced, Retoned
<1> QED  BY <1>2, <1>3, <1>4 DEF Good

\* The session s changes its state.
SessionAt(a, s, state) == [a.session EXCEPT ![s].current = state]

LEMMA GoodSession ==
    ASSUME NEW D, NEW a, NEW P, Good(a, D, P), NEW s \in ToSet(setup.sessions),
           NEW state \in CallStates
    PROVE  LET b == [a EXCEPT !.session[s].current = state]
           IN  /\ Good(b, D, P) /\ b.session = SessionAt(a, s, state)
               /\ b.usecase = a.usecase /\ b.out = a.out /\ b.in = a.in /\ b.mode = a.mode
               /\ b.in_call = a.in_call /\ b.current_call_output = a.current_call_output
               /\ b.sidetone = a.sidetone
<1>1. a \in Adevs(D) /\ a.session \in [ToSet(setup.sessions) -> Sessions]
  BY GoodFacts, AdevFields
<1>2. PICK b : b = [a EXCEPT !.session[s].current = state]
  OBVIOUS
<1> DEFINE v == SessionAt(a, s, state)
<1>3. v \in [ToSet(setup.sessions) -> Sessions]
  BY <1>1 DEF Sessions, SessionAt
<1>4. b = [a EXCEPT !.session = v]
  BY <1>1, <1>2 DEF Adevs, SessionAt
<1> HIDE DEF v
<1>5. /\ b \in Adevs(D) /\ b.session = v /\ b.usecase = a.usecase
      /\ b.snd_dev_ref_cnt = a.snd_dev_ref_cnt /\ b.paths = a.paths
      /\ b.out = a.out /\ b.in = a.in /\ b.mode = a.mode /\ b.in_call = a.in_call
      /\ b.current_call_output = a.current_call_output /\ b.sidetone = a.sidetone
  BY <1>1, <1>3, <1>4 DEF Adevs
<1>6. Good(b, D, P)
  BY <1>5, GoodCarried
<1> QED  BY <1>2, <1>5, <1>6 DEF v

\* The streams out of standby.
Streams(a) == {o \in setup.outputs : ~a.out[o].standby} \cup {i \in setup.inputs : ~a.in[i].standby}

\* A call can be started, or there is none to start.
CanStart(a) ==
  \/ a.current_call_output = primary_output
  \/ \A s \in ToSet(setup.sessions) :
        ~ (a.session[s].new = "ACTIVE" /\ a.session[s].current = "INACTIVE")

Serves(a, B) == Good(a, B \cup OnCall(a), B \cup OnCall(a))

\* What an update of the calls leaves alone.
CallsOnly(a, b) ==
  /\ b.out = a.out /\ b.in = a.in /\ b.mode = a.mode /\ b.in_call = a.in_call
  /\ b.current_call_output = a.current_call_output
  /\ \A s \in ToSet(setup.sessions) : b.session[s].new = a.session[s].new

LEMMA SessionFacts ==
    ASSUME NEW D, NEW a, NEW P, Good(a, D, P), NEW s \in ToSet(setup.sessions),
           NEW state \in CallStates, NEW b, b.session = SessionAt(a, s, state)
    PROVE  /\ OnCall(b) = IF state = "INACTIVE" THEN OnCall(a) \ {s} ELSE OnCall(a) \cup {s}
           /\ \A t \in ToSet(setup.sessions) :
                 /\ b.session[t].new = a.session[t].new
                 /\ b.session[t].current = IF t = s THEN state ELSE a.session[t].current
<1>1. a.session \in [ToSet(setup.sessions) -> Sessions]
  BY GoodFacts, AdevFields
<1>2. \A t \in ToSet(setup.sessions) :
        /\ b.session[t].new = a.session[t].new
        /\ b.session[t].current = IF t = s THEN state ELSE a.session[t].current
  BY <1>1 DEF Sessions, SessionAt
<1> QED  BY <1>2 DEF OnCall

\* The call of s is gone, the other use cases are as they were; the last call
\* took its sidetone along.
HungUp(a, b, D, s) ==
  /\ \A j \in D \ {s} : b.usecase[j] = a.usecase[j]
  /\ OnCall(a) \ {s} = {} => b.sidetone = a.sidetone \ sidetone_path(a.usecase[s].out_snd_device)
  /\ OnCall(a) \ {s} # {} => b.sidetone = a.sidetone

\* A session's call ends.
LEMMA CallStopped ==
    ASSUME setup \in Setups, NEW D, D \subseteq Used, NEW a, Good(a, D, D),
           NEW s \in ToSet(setup.sessions), s \in D
    PROVE  LET b == voice_stop_usecase(a, s)
           IN  /\ Good(b, D \ {s}, D \ {s}) /\ b.session = SessionAt(a, s, "INACTIVE")
               /\ b.out = a.out /\ b.in = a.in /\ b.mode = a.mode
               /\ b.in_call = a.in_call /\ b.current_call_output = a.current_call_output
               /\ HungUp(a, b, D, s)
<1>1. D \subseteq Ids /\ "INACTIVE" \in CallStates
  BY UsedFacts DEF CallStates
<1>2. PICK x : x = [a EXCEPT !.session[s].current = "INACTIVE"]
  OBVIOUS
<1>3. /\ Good(x, D, D) /\ x.session = SessionAt(a, s, "INACTIVE")
      /\ x.usecase = a.usecase /\ x.out = a.out /\ x.in = a.in /\ x.mode = a.mode
      /\ x.in_call = a.in_call /\ x.current_call_output = a.current_call_output
      /\ x.sidetone = a.sidetone
  BY <1>1, <1>2, GoodSession
<1>4. PICK u : u = a.usecase[s]
  OBVIOUS
<1>5. PICK y : y = SidetoneOff(x, u)
  OBVIOUS
<1>6. /\ Good(y, D, D) /\ Retoned(x, y)
      /\ OnCall(x) = {} => y.sidetone = x.sidetone \ sidetone_path(u.out_snd_device)
      /\ OnCall(x) # {} => y.sidetone = x.sidetone
  <2>1. voice_is_call_state_active(x) <=> OnCall(x) # {}
    BY <1>3, GoodFacts, CallsActive
  <2>2. CASE OnCall(x) # {}
    BY <1>3, <1>5, <2>1, <2>2 DEF SidetoneOff, Retoned, Frame
  <2>3. CASE OnCall(x) = {}
    <3>1. PICK d : d = u.out_snd_device
      OBVIOUS
    <3>2. PICK z : z = voice_set_sidetone(x, d, FALSE)
      OBVIOUS
    <3>3. Good(z, D, D) /\ Silenced(x, z, d)
      BY <1>3, <3>2, GoodSidetone
    <3>4. y = z
      BY <1>5, <2>1, <2>3, <3>1, <3>2 DEF SidetoneOff
    <3> QED  BY <2>3, <3>1, <3>3, <3>4 DEF Silenced
  <2> QED  BY <2>2, <2>3
<1>7. u = y.usecase[s] /\ Frame(x, y) /\ y.usecase = a.usecase
  BY <1>3, <1>4, <1>6 DEF Retoned
<1>8. PICK z : z = Withdraw(y, u)
  OBVIOUS
<1>9. Good(z, D \ {s}, D \ {s}) /\ Settings(y, z) /\ Undisturbed(y, z, D \ {s})
  BY <1>1, <1>6, <1>7, <1>8, Withdrawn
<1>10. z = voice_stop_usecase(a, s)
  BY <1>2, <1>4, <1>5, <1>8 DEF voice_stop_usecase
<1>11. HungUp(a, z, D, s)
  <2>1. OnCall(x) = OnCall(a) \ {s}
    BY <1>1, <1>3, SessionFacts
  <2>2. \A j \in D \ {s} : z.usecase[j] = a.usecase[j]
    BY <1>7, <1>9 DEF Undisturbed
  <2>3. z.sidetone = y.sidetone /\ x.sidetone = a.sidetone
    BY <1>3, <1>9 DEF Undisturbed
  <2> QED  BY <1>4, <1>6, <2>1, <2>2, <2>3 DEF HungUp
<1> QED  BY <1>3, <1>7, <1>9, <1>10, <1>11 DEF Frame, Settings

\* The calls are on o, with its sidetone.
Level(a, o) ==
  /\ \A j \in OnCall(a) : a.usecase[j].out_snd_device = o
  /\ a.sidetone = IF OnCall(a) = {} THEN {} ELSE sidetone_path(o)

\* A call that ends leaves the others where they are.
LEMMA CallLeaves ==
    ASSUME NEW a, NEW b, NEW D, OnCall(a) \subseteq D, NEW s \in OnCall(a), HungUp(a, b, D, s),
           OnCall(b) = OnCall(a) \ {s}, b.out = a.out, b.in_call = a.in_call
    PROVE  Steady(a, b) /\ \A o : Level(a, o) => Level(b, o)
<1>1. Home(b) = Home(a) /\ \A j \in OnCall(b) : b.usecase[j] = a.usecase[j]
  BY SameHome DEF HungUp
<1>2. ASSUME NEW o, Level(a, o) PROVE Level(b, o)
  <2>1. /\ a.usecase[s].out_snd_device = o /\ a.sidetone = sidetone_path(o)
        /\ \A j \in OnCall(b) : b.usecase[j].out_snd_device = o
    BY <1>1, <1>2 DEF Level
  <2>2. b.sidetone = IF OnCall(b) = {} THEN {} ELSE sidetone_path(o)
    BY <2>1 DEF HungUp
  <2> QED  BY <2>1, <2>2 DEF Level
<1>3. ASSUME Quiet(a) PROVE Quiet(b) /\ (Tuned(a) => Tuned(b))
  <2>1. a.in_call /\ AtHome(a, OnCall(a))
    BY <1>3 DEF Quiet
  <2>2. AtHome(b, OnCall(b))
    BY <1>1, <2>1 DEF AtHome
  <2>3. ASSUME Tuned(a) PROVE Tuned(b)
    <3>1. Level(a, Home(a))
      BY <2>1, <2>3 DEF Level, Tuned, AtHome
    <3>2. Level(b, Home(a))
      BY <1>2, <3>1
    <3> QED  BY <1>1, <3>2 DEF Level, Tuned
  <2> QED  BY <2>1, <2>2, <2>3 DEF Quiet
<1> QED  BY <1>2, <1>3 DEF Steady

\* A call that is placed while the others are home comes home.
LEMMA CallArrives ==
    ASSUME setup \in Setups, NEW D, NEW s \in ToSet(setup.sessions), D \cup {s} \subseteq Used,
           NEW a, Calls(D) = OnCall(a), a.in_call, Quiet(a), NEW y,
           NEW x \in Adevs(D \cup {s}), Settings(a, x), Undisturbed(a, x, D),
           Unplaced(x.usecase[s]), Frame(x, y), Effect(x, y, D \cup {s}, s)
    PROVE  AtHome(y, OnCall(a) \cup {s}) /\ (Tuned(a) => Tuned(y))
<1>1. /\ OnCall(y) = OnCall(a) /\ Home(y) = Home(a) /\ Home(x) = Home(a) /\ x.in_call
      /\ OnCall(x) = OnCall(a) /\ y.out = a.out /\ x.out = a.out
  BY SameCalls, SameHome DEF Frame, Settings
<1>2. TypeOf(s) = "VOICE_CALL" /\ Calls(D \cup {s}) = OnCall(a) \cup {s}
  BY TypesOfUsed DEF Calls
<1>3. CallPlaced(x, y, D \cup {s}, s)
  BY <1>1, <1>2 DEF Effect
<1>4. \A j \in OnCall(a) : x.usecase[j] = a.usecase[j]
  BY DEF Undisturbed, Calls
<1>5. ASSUME NEW j \in OnCall(a) \cup {s}
      PROVE  /\ y.usecase[j].out_snd_device = Home(y)
             /\ y.usecase[j].devices = y.out[primary_output].devices
             /\ y.usecase[j].in_snd_device # NoDevice
  <2>1. CASE j = s
    BY <1>3, <2>1 DEF CallPlaced, AtHome
  <2>2. CASE j # s
    <3>1. /\ a.usecase[j].out_snd_device = Home(a) /\ a.usecase[j].in_snd_device # NoDevice
          /\ a.usecase[j].devices = a.out[primary_output].devices
      BY <2>2 DEF Quiet, AtHome
    <3> QED  BY <1>1, <1>2, <1>3, <1>4, <2>2, <3>1 DEF CallPlaced
  <2> QED  BY <2>1, <2>2
<1>6. ASSUME Tuned(a) PROVE Tuned(y)
  <2>1. x.sidetone = a.sidetone /\ x.usecase[s].out_snd_device = NoDevice
    BY DEF Undisturbed, Unplaced
  <2>2. CallTone(x, y, x.usecase[s], Home(a))
    BY <1>1, <1>3 DEF CallPlaced
  <2>3. voice_is_call_state_active(x) <=> OnCall(a) # {}
    BY <1>1, CallsActive
  <2>4. Home(a) # NoDevice
    BY <1>1, HomeTyped
  <2>5. CASE OnCall(a) = {}
    BY <1>1, <1>6, <2>1, <2>2, <2>3, <2>5 DEF CallTone, Tuned
  <2>6. CASE OnCall(a) # {}
    <3>1. y.sidetone = (x.sidetone \ sidetone_path(NoDevice)) \cup sidetone_path(Home(a))
      BY <2>1, <2>2, <2>3, <2>4, <2>6 DEF CallTone
    <3>2. x.sidetone = sidetone_path(Home(a))
      BY <1>6, <2>1, <2>6 DEF Tuned
    <3>3. y.sidetone = sidetone_path(Home(a))
      BY <3>1, <3>2
    <3> QED  BY <1>1, <2>6, <3>3 DEF Tuned
  <2> QED  BY <2>5, <2>6
<1> QED  BY <1>5, <1>6 DEF AtHome

\* A session's call starts, or fails to and ends.
LEMMA CallStarted ==
    ASSUME setup \in Setups, NEW B, B \subseteq setup.outputs \cup setup.inputs,
           NEW a, Serves(a, B), NEW s \in ToSet(setup.sessions),
           a.session[s].current = "INACTIVE", a.current_call_output = primary_output, NEW fails
    PROVE  LET b == voice_start_usecase(a, s, fails)
           IN  Serves(b, B) /\ CallsOnly(a, b) /\ (a.in_call => Steady(a, b))
<1>1. PICK D : D = B \cup OnCall(a)
  OBVIOUS
<1>2. /\ Good(a, D, D) /\ D \subseteq Used /\ D \cup {s} \subseteq Used /\ D \subseteq Ids
      /\ s \in Ids /\ TypeOf(s) = "VOICE_CALL" /\ s \notin D /\ Calls(D) = OnCall(a)
  <2>1. Good(a, D, D) /\ D \subseteq Used /\ s \in Used /\ Used \subseteq Ids
    BY <1>1, UsedFacts DEF Serves, OnCall, Used
  <2>2. TypeOf(s) = "VOICE_CALL" /\ s \notin setup.outputs \cup setup.inputs
    BY <2>1, TypesOfUsed
  <2>3. \A i \in B : i \notin ToSet(setup.sessions)
    <3>1. \A i \in B : i \in Used
      BY DEF Used
    <3> QED  BY <3>1, TypesOfUsed
  <2> QED  BY <1>1, <2>1, <2>2, <2>3 DEF OnCall, Calls
<1>3. PICK devices : devices = a.out[a.current_call_output].devices
  OBVIOUS
<1>4. devices \in DevicesOfStreams
  <2>1. a.out \in [setup.outputs -> Outputs] /\ a.current_call_output \in setup.outputs
    BY <1>2, GoodFacts, AdevFields, UsedFacts
  <2>2. a.out[a.current_call_output] \in Outputs
    BY <2>1
  <2> QED  BY <1>3, <2>2 DEF Outputs, DevicesOfStreams
<1>5. PICK x : x = list_add_tail(a, s, TypeOf(s), devices)
  OBVIOUS
<1>6. /\ Good(x, D \cup {s}, D) /\ Settings(a, x) /\ Undisturbed(a, x, D)
      /\ Unplaced(x.usecase[s])
  BY <1>2, <1>4, <1>5, Added
<1>7. PICK y : y = select_devices(x, s)
  OBVIOUS
<1>8. Good(y, D \cup {s}, D \cup {s}) /\ Frame(x, y) /\ Effect(x, y, D \cup {s}, s)
  <2>1. PICK E : E = D \cup {s}
    OBVIOUS
  <2>2. Good(x, E, D) /\ E \subseteq Used /\ s \in E /\ E \ {s} \subseteq D
    BY <1>2, <1>6, <2>1
  <2>3. y = select_devices_with_force_switch(x, s, FALSE)
    BY <1>7 DEF select_devices
  <2>4. Good(y, E, E) /\ Frame(x, y) /\ Effect(x, y, E, s)
    BY <2>2, <2>3, Selected
  <2> QED  BY <2>1, <2>4
<1>9. voice_start_usecase(a, s, fails) = OpenCall(y, s, fails)
  BY <1>2, <1>3, <1>5, <1>7 DEF voice_start_usecase
<1>10. y.out = a.out /\ y.in = a.in /\ y.mode = a.mode /\ y.in_call = a.in_call
       /\ y.current_call_output = a.current_call_output /\ y.session = a.session
  BY <1>6, <1>8 DEF Frame, Settings
<1>13. a.in_call /\ Quiet(a) => AtHome(y, OnCall(a) \cup {s}) /\ (Tuned(a) => Tuned(y))
  <2>1. x \in Adevs(D \cup {s})
    BY <1>6, GoodFacts
  <2> QED  BY <1>2, <1>6, <1>8, <2>1, CallArrives
<1>14. OnCall(y) = OnCall(a) /\ Home(y) = Home(a)
  BY <1>10, SameCalls, SameHome
<1>11. CASE s \in fails
  <2>1. PICK b : b = voice_stop_usecase(y, s)
    OBVIOUS
  <2>2. PICK E : E = D \cup {s}
    OBVIOUS
  <2>3. Good(y, E, E) /\ E \subseteq Used /\ s \in E
    BY <1>2, <1>8, <2>2
  <2>4. /\ Good(b, E \ {s}, E \ {s}) /\ b.session = SessionAt(y, s, "INACTIVE")
        /\ b.out = y.out /\ b.in = y.in /\ b.mode = y.mode
        /\ b.in_call = y.in_call /\ b.current_call_output = y.current_call_output
        /\ HungUp(y, b, E, s)
    <3>1. LET c == voice_stop_usecase(y, s)
          IN  /\ Good(c, E \ {s}, E \ {s}) /\ c.session = SessionAt(y, s, "INACTIVE")
              /\ c.out = y.out /\ c.in = y.in /\ c.mode = y.mode
              /\ c.in_call = y.in_call /\ c.current_call_output = y.current_call_output
              /\ HungUp(y, c, E, s)
      BY <2>3, CallStopped
    <3> QED  BY <2>1, <3>1
  <2>5. E \ {s} = D
    BY <1>2, <2>2
  <2>6. b.session = SessionAt(a, s, "INACTIVE") /\ "INACTIVE" \in CallStates
    BY <1>10, <2>4 DEF SessionAt, CallStates
  <2>7. /\ OnCall(b) = OnCall(a) \ {s}
        /\ \A t \in ToSet(setup.sessions) : b.session[t].new = a.session[t].new
    BY <1>2, <2>6, SessionFacts
  <2>8. OnCall(b) = OnCall(a)
    BY <2>7 DEF OnCall
  <2>9. Serves(b, B) /\ CallsOnly(a, b)
    BY <1>1, <1>10, <2>4, <2>5, <2>7, <2>8 DEF Serves, CallsOnly
  <2>10. ASSUME a.in_call PROVE Steady(a, b)
    <3> SUFFICES ASSUME Quiet(a) PROVE Quiet(b) /\ (Tuned(a) => Tuned(b))
      BY DEF Steady
    <3>1. \A j \in OnCall(a) : b.usecase[j] = y.usecase[j]
      BY <1>2, <2>2, <2>4 DEF HungUp, Calls
    <3>2. AtHome(y, OnCall(a) \cup {s}) /\ Home(b) = Home(a) /\ b.out = y.out
      BY <1>10, <1>13, <2>4, <2>10, SameHome
    <3>3. AtHome(b, OnCall(b))
      BY <1>14, <2>8, <3>1, <3>2 DEF AtHome
    <3>4. b.in_call
      BY <1>10, <2>4, <2>10
    <3>5. ASSUME Tuned(a) PROVE Tuned(b)
      <4>1. Tuned(y) /\ OnCall(y) \ {s} = OnCall(a)
        BY <1>1, <1>2, <1>13, <1>14, <2>10, <3>5
      <4>2. CASE OnCall(a) = {}
        BY <1>14, <2>4, <2>8, <4>1, <4>2 DEF HungUp, Tuned
      <4>3. CASE OnCall(a) # {}
        <5>1. b.sidetone = y.sidetone
          BY <2>4, <4>1, <4>3 DEF HungUp
        <5> QED  BY <1>14, <2>8, <3>2, <4>1, <5>1 DEF Tuned
      <4> QED  BY <4>2, <4>3
    <3> QED  BY <3>3, <3>4, <3>5 DEF Quiet
  <2> QED  BY <1>9, <1>11, <2>1, <2>9, <2>10 DEF OpenCall
<1>12. CASE s \notin fails
  <2>1. PICK w : w = SidetoneOn(y, y.usecase[s])
    OBVIOUS
  <2>2. /\ Good(w, D \cup {s}, D \cup {s}) /\ Retoned(y, w)
        /\ OnCall(a) # {} => w.sidetone = y.sidetone
        /\ OnCall(a) = {} => w.sidetone = y.sidetone \cup sidetone_path(y.usecase[s].out_snd_device)
    <3>1. PICK E, d : E = D \cup {s} /\ d = y.usecase[s].out_snd_device
      OBVIOUS
    <3>2. Good(y, E, E) /\ Retoned(y, y)
      BY <1>8, <3>1 DEF Retoned, Frame
    <3>3. PICK z : z = voice_set_sidetone(y, d, TRUE)
      OBVIOUS
    <3>4. Good(z, E, E) /\ Sounding(y, z, d)
      BY <3>2, <3>3, GoodSidetone
    <3>5. voice_is_call_state_active(y) <=> OnCall(a) # {}
      BY <1>14, <3>2, GoodFacts, CallsActive
    <3>6. w = IF OnCall(a) # {} THEN y ELSE z
      BY <2>1, <3>1, <3>3, <3>5 DEF SidetoneOn
    <3> QED  BY <3>1, <3>2, <3>4, <3>6 DEF Sounding
  <2>3. PICK b : b = [w EXCEPT !.session[s].current = "ACTIVE"]
    OBVIOUS
  <2>4. /\ Good(b, D \cup {s}, D \cup {s}) /\ b.session = SessionAt(w, s, "ACTIVE")
        /\ b.out = w.out /\ b.in = w.in /\ b.mode = w.mode
        /\ b.in_call = w.in_call /\ b.current_call_output = w.current_call_output
        /\ b.usecase = w.usecase /\ b.sidetone = w.sidetone
    <3>1. PICK E : E = D \cup {s}
      OBVIOUS
    <3>2. "ACTIVE" \in CallStates /\ Good(w, E, E)
      BY <2>2, <3>1 DEF CallStates
    <3>3. /\ Good(b, E, E) /\ b.session = SessionAt(w, s, "ACTIVE")
          /\ b.out = w.out /\ b.in = w.in /\ b.mode = w.mode
          /\ b.in_call = w.in_call /\ b.current_call_output = w.current_call_output
          /\ b.usecase = w.usecase /\ b.sidetone = w.sidetone
      BY <2>3, <3>2, GoodSession
    <3> QED  BY <3>1, <3>3
  <2>5. w.out = a.out /\ w.in = a.in /\ w.mode = a.mode /\ w.in_call = a.in_call
        /\ w.current_call_output = a.current_call_output /\ w.session = a.session
    BY <1>10, <2>2 DEF Retoned, Frame
  <2>6. b.session = SessionAt(a, s, "ACTIVE") /\ "ACTIVE" \in CallStates
        /\ "ACTIVE" # "INACTIVE"
    BY <2>4, <2>5 DEF SessionAt, CallStates
  <2>7. /\ OnCall(b) = OnCall(a) \cup {s}
        /\ \A t \in ToSet(setup.sessions) : b.session[t].new = a.session[t].new
    BY <1>2, <2>6, SessionFacts
  <2>8. B \cup OnCall(b) = D \cup {s}
    BY <1>1, <2>7
  <2>9. Serves(b, B) /\ CallsOnly(a, b)
    BY <2>4, <2>5, <2>7, <2>8 DEF Serves, CallsOnly
  <2>10. OpenCall(y, s, fails) = b
    BY <1>12, <2>1, <2>3 DEF OpenCall
  <2>11. ASSUME a.in_call PROVE Steady(a, b)
    <3> SUFFICES ASSUME Quiet(a) PROVE Quiet(b) /\ (Tuned(a) => Tuned(b))
      BY DEF Steady
    <3>1. b.usecase = y.usecase /\ b.out = y.out
      BY <1>10, <2>2, <2>4, <2>5 DEF Retoned
    <3>2. AtHome(y, OnCall(a) \cup {s}) /\ Home(b) = Home(a) /\ b.in_call
      BY <1>10, <1>13, <2>4, <2>5, <2>11, SameHome
    <3>3. AtHome(b, OnCall(b))
      BY <1>14, <2>7, <3>1, <3>2 DEF AtHome
    <3>4. ASSUME Tuned(a) PROVE Tuned(b)
      <4>1. Tuned(y) /\ y.usecase[s].out_snd_device = Home(a) /\ b.sidetone = w.sidetone
        BY <1>13, <1>14, <2>4, <2>11, <3>2, <3>4 DEF AtHome
      <4>2. w.sidetone = sidetone_path(Home(a))
        <5>1. CASE OnCall(a) = {}
          BY <1>14, <2>2, <4>1, <5>1 DEF Tuned
        <5>2. CASE OnCall(a) # {}
          BY <1>14, <2>2, <4>1, <5>2 DEF Tuned
        <5> QED  BY <5>1, <5>2
      <4>3. OnCall(b) # {}
        BY <2>7
      <4> QED  BY <3>2, <4>1, <4>2, <4>3 DEF Tuned
    <3> QED  BY <3>2, <3>3, <3>4 DEF Quiet
  <2> QED  BY <1>9, <2>9, <2>10, <2>11
<1> QED  BY <1>11, <1>12

\* No call comes, s goes, the others stay where they are.
Fewer(a, b, s) ==
  /\ s \notin OnCall(b) /\ OnCall(b) \subseteq OnCall(a)
  /\ \A o : Level(a, o) => Level(b, o)
Updated(a, b, s) ==
  /\ a.in_call => Steady(a, b)
  /\ a.session[s].new = "INACTIVE" => Fewer(a, b, s)

\* One session of update_calls.
LEMMA CallUpdated ==
    ASSUME setup \in Setups, NEW B, B \subseteq setup.outputs \cup setup.inputs,
           NEW a, Serves(a, B), CanStart(a), NEW s \in ToSet(setup.sessions), NEW fails
    PROVE  LET b == UpdateCall(a, s, fails)
           IN  Serves(b, B) /\ CanStart(b) /\ CallsOnly(a, b) /\ Updated(a, b, s)
<1> DEFINE current == a.session[s].current
<1> DEFINE new == a.session[s].new
<1>1. PICK D : D = B \cup OnCall(a)
  OBVIOUS
<1>2. /\ Good(a, D, D) /\ D \subseteq Used /\ s \notin B
      /\ current \in CallStates /\ new \in CallStates
  <2>1. Good(a, D, D) /\ D \subseteq Used /\ s \in Used
    BY <1>1, UsedFacts DEF Serves, OnCall, Used
  <2>2. s \notin setup.outputs \cup setup.inputs
    BY <2>1, TypesOfUsed
  <2>3. a.session \in [ToSet(setup.sessions) -> Sessions]
    BY <2>1, GoodFacts, AdevFields
  <2> QED  BY <2>1, <2>2, <2>3 DEF Sessions
<1>3. PICK b : b = UpdateCall(a, s, fails)
  OBVIOUS
<1>4. b = Session(a, s, current, new, fails)
  BY <1>3 DEF UpdateCall
<1>9. \/ b = a /\ (new = "INACTIVE" => current = "INACTIVE")
      \/ current = "INACTIVE" /\ new = "ACTIVE" /\ b = voice_start_usecase(a, s, fails)
      \/ current # "INACTIVE" /\ new = "INACTIVE" /\ b = voice_stop_usecase(a, s)
      \/ current # "INACTIVE" /\ new # "INACTIVE" /\ b = [a EXCEPT !.session[s].current = new]
  <2> HIDE DEF current, new
  <2>1. CASE current = "INACTIVE"
    BY <1>4, <2>1 DEF Session
  <2>2. CASE current # "INACTIVE" /\ new = "INACTIVE"
    BY <1>4, <2>2 DEF Session
  <2>3. CASE current # "INACTIVE" /\ new # "INACTIVE"
    BY <1>4, <2>3 DEF Session
  <2> QED  BY <2>1, <2>2, <2>3
<1>5. CASE b = a /\ (new = "INACTIVE" => current = "INACTIVE")
  <2>1. new = "INACTIVE" => s \notin OnCall(a)
    BY <1>5 DEF OnCall
  <2>2. Steady(a, a)
    BY SteadyFacts
  <2>3. Updated(a, a, s)
    BY <2>1, <2>2 DEF Updated, Fewer
  <2> QED  BY <1>3, <1>5, <2>3 DEF CallsOnly
<1>6. CASE current = "INACTIVE" /\ new = "ACTIVE" /\ b = voice_start_usecase(a, s, fails)
  <2>1. a.current_call_output = primary_output
    BY <1>6 DEF CanStart
  <2>2. Serves(b, B) /\ CallsOnly(a, b) /\ (a.in_call => Steady(a, b))
    BY <1>6, <2>1, CallStarted
  <2>3. CanStart(b)
    BY <2>1, <2>2 DEF CanStart, CallsOnly
  <2>4. Updated(a, b, s)
    BY <1>6, <2>2 DEF Updated
  <2> QED  BY <1>3, <2>2, <2>3, <2>4
<1>7. CASE current # "INACTIVE" /\ new = "INACTIVE" /\ b = voice_stop_usecase(a, s)
  <2>1. s \in D /\ s \in OnCall(a)
    BY <1>1, <1>7 DEF OnCall
  <2>2. /\ Good(b, D \ {s}, D \ {s}) /\ b.session = SessionAt(a, s, "INACTIVE")
        /\ b.out = a.out /\ b.in = a.in /\ b.mode = a.mode
        /\ b.in_call = a.in_call /\ b.current_call_output = a.current_call_output
        /\ HungUp(a, b, D, s)
    BY <1>2, <1>7, <2>1, CallStopped
  <2>3. "INACTIVE" \in CallStates
    BY DEF CallStates
  <2>4. /\ OnCall(b) = OnCall(a) \ {s}
        /\ \A t \in ToSet(setup.sessions) :
              /\ b.session[t].new = a.session[t].new
              /\ b.session[t].current = IF t = s THEN "INACTIVE" ELSE a.session[t].current
    BY <1>2, <2>2, <2>3, SessionFacts
  <2>5. B \cup OnCall(b) = D \ {s}
    BY <1>1, <1>2, <2>4
  <2>6. CanStart(b)
    BY <1>7, <2>2, <2>4 DEF CanStart
  <2>7. Steady(a, b) /\ \A o : Level(a, o) => Level(b, o)
    BY <1>1, <2>1, <2>2, <2>4, CallLeaves
  <2>8. Updated(a, b, s)
    BY <2>4, <2>7 DEF Updated, Fewer
  <2> QED  BY <1>3, <2>2, <2>4, <2>5, <2>6, <2>8 DEF Serves, CallsOnly
<1>8. CASE current # "INACTIVE" /\ new # "INACTIVE" /\ b = [a EXCEPT !.session[s].current = new]
  <2>1. PICK state : state = new
    OBVIOUS
  <2>2. state \in CallStates /\ state # "INACTIVE"
    BY <1>2, <1>8, <2>1
  <2>3. /\ Good(b, D, D) /\ b.session = SessionAt(a, s, state)
        /\ b.out = a.out /\ b.in = a.in /\ b.mode = a.mode
        /\ b.in_call = a.in_call /\ b.current_call_output = a.current_call_output
        /\ b.usecase = a.usecase /\ b.sidetone = a.sidetone
    <3>1. b = [a EXCEPT !.session[s].current = state]
      BY <1>8, <2>1
    <3> QED  BY <1>2, <2>2, <3>1, GoodSession
  <2>4. /\ OnCall(b) = OnCall(a) \cup {s}
        /\ \A t \in ToSet(setup.sessions) :
              /\ b.session[t].new = a.session[t].new
              /\ b.session[t].current = IF t = s THEN state ELSE a.session[t].current
    BY <1>2, <2>2, <2>3, SessionFacts
  <2>5. OnCall(b) = OnCall(a)
    BY <1>8, <2>4 DEF OnCall
  <2>6. CanStart(b)
    BY <2>2, <2>3, <2>4 DEF CanStart
  <2>7. Steady(a, b)
    <3>1. Home(b) = Home(a)
      BY <2>3, SameHome
    <3> QED  BY <2>3, <2>5, <3>1 DEF Steady, Quiet, Tuned, AtHome
  <2>8. Updated(a, b, s)
    BY <1>8, <2>7 DEF Updated
  <2> QED  BY <1>1, <1>3, <2>3, <2>4, <2>5, <2>6, <2>8 DEF Serves, CallsOnly
<1> QED  BY <1>5, <1>6, <1>7, <1>8, <1>9

\* When every call is to end, the first k of the sessions have none.
Ended(a, q, k) ==
  (\A s \in ToSet(setup.sessions) : a.session[s].new = "INACTIVE") =>
      /\ \A m \in 1..k : setup.sessions[m] \notin OnCall(q)
      /\ \A o : Level(a, o) => Level(q, o)

\* After k rounds.
InRound(a, q, B, k) ==
  /\ Serves(q, B) /\ CanStart(q) /\ CallsOnly(a, q) /\ Ended(a, q, k)
  /\ a.in_call => Steady(a, q)

LEMMA CallsUpdated ==
    ASSUME setup \in Setups, NEW B, B \subseteq setup.outputs \cup setup.inputs,
           NEW a, Serves(a, B), CanStart(a), NEW fails
    PROVE  LET b == update_calls(a, fails)
           IN  /\ Serves(b, B) /\ CallsOnly(a, b) /\ (a.in_call => Steady(a, b))
               /\ (\A s \in ToSet(setup.sessions) : a.session[s].new = "INACTIVE") =>
                      OnCall(b) = {} /\ \A o : Level(a, o) => Level(b, o)
<1> DEFINE list == setup.sessions
<1> DEFINE n == Len(list)
<1> DEFINE D == setup.outputs \cup setup.inputs \cup ToSet(setup.sessions)
<1> DEFINE V == UNION {Adevs(E) : E \in SUBSET D}
<1> DEFINE W == [i \in 0..n |-> {q \in V : InRound(a, q, B, i)}]
<1> DEFINE Round(q, i) == UpdateCall(q, list[i], fails)
<1> DEFINE F(g) == [i \in 0..n |-> IF i = 0 THEN a ELSE Round(g[i - 1], i)]
<1> DEFINE after == CHOOSE g : g = F(g)
<1>1. update_calls(a, fails) = after[n]
  BY DEF update_calls
<1>2. n \in Nat /\ \A i \in 1..n : list[i] \in ToSet(setup.sessions)
  BY UsedFacts
<1>3. \A i \in 0..n : \A q : q \in W[i] <=> InRound(a, q, B, i)
  <2>1. ASSUME NEW q, Serves(q, B) PROVE q \in V
    <3>1. PICK E : E = B \cup OnCall(q)
      OBVIOUS
    <3>2. q \in Adevs(E) /\ E \subseteq D
      BY <2>1, <3>1, GoodFacts DEF Serves, OnCall
    <3> QED  BY <3>2
  <2> HIDE DEF D, V
  <2> QED  BY <2>1 DEF InRound
<1> HIDE DEF W, V, n, D
<1>5. a \in W[0]
  <2>1. InRound(a, a, B, 0)
    BY SteadyFacts DEF InRound, CallsOnly, Ended
  <2> QED  BY <1>2, <1>3, <2>1
<1>6. ASSUME NEW i \in 1..n, NEW q \in W[i - 1] PROVE Round(q, i) \in W[i]
  <2>0. i - 1 \in 0..n /\ i \in 0..n
    BY <1>2
  <2>1. InRound(a, q, B, i - 1) /\ list[i] \in ToSet(setup.sessions)
    BY <1>2, <1>3, <2>0
  <2>2. PICK s, b : s = list[i] /\ b = UpdateCall(q, s, fails)
    OBVIOUS
  <2>3. Serves(b, B) /\ CanStart(b) /\ CallsOnly(q, b) /\ Updated(q, b, s)
    BY <2>1, <2>2, CallUpdated DEF InRound
  <2>4. CallsOnly(a, b)
    BY <2>1, <2>3 DEF InRound, CallsOnly
  <2>5. ASSUME a.in_call PROVE Steady(a, b)
    <3>1. Steady(a, q) /\ Steady(q, b)
      BY <2>1, <2>3, <2>5 DEF InRound, Updated, CallsOnly
    <3> QED  BY <3>1, SteadyFacts
  <2>6. Ended(a, b, i)
    <3> SUFFICES ASSUME \A t \in ToSet(setup.sessions) : a.session[t].new = "INACTIVE"
                 PROVE  /\ \A m \in 1..i : setup.sessions[m] \notin OnCall(b)
                        /\ \A o : Level(a, o) => Level(b, o)
      BY DEF Ended
    <3>1. /\ \A m \in 1..(i - 1) : setup.sessions[m] \notin OnCall(q)
          /\ \A o : Level(a, o) => Level(q, o)
      BY <2>1 DEF InRound, Ended
    <3>2. q.session[s].new = "INACTIVE"
      BY <2>1, <2>2 DEF InRound, CallsOnly
    <3>3. Fewer(q, b, s)
      BY <2>3, <3>2 DEF Updated
    <3>4. ASSUME NEW m \in 1..i PROVE setup.sessions[m] \notin OnCall(b)
      <4>1. CASE m = i
        BY <2>2, <3>3, <4>1 DEF Fewer
      <4>2. CASE m # i
        <5>1. m \in 1..(i - 1)
          BY <1>2, <4>2
        <5> QED  BY <3>1, <3>3, <5>1 DEF Fewer
      <4> QED  BY <4>1, <4>2
    <3> QED  BY <3>1, <3>3, <3>4 DEF Fewer
  <2>7. InRound(a, b, B, i)
    BY <2>3, <2>4, <2>5, <2>6 DEF InRound
  <2> QED  BY <1>3, <2>0, <2>2, <2>7
<1> HIDE DEF Round
<1> DEFINE step == [i \in 1..n |-> [q \in W[i - 1] |-> Round(q, i)]]
<1>7. \A i \in 1..n : \A q \in W[i - 1] : step[i][q] = Round(q, i) /\ step[i][q] \in W[i]
  BY <1>6
<1> HIDE DEF step
<1>8. PICK g : Leads(g, a, n, step, W)
  <2> HIDE DEF after, F
  <2> QED  BY <1>2, <1>5, <1>7, LoopEnds
<1>9. after = F(after)
  <2>1. ASSUME NEW i \in 0..n, i # 0 PROVE step[i][g[i - 1]] = Round(g[i - 1], i)
    <3>1. i \in 1..n /\ i - 1 \in 0..n
      BY <1>2, <2>1
    <3> QED  BY <1>7, <1>8, <3>1 DEF Leads
  <2>2. g = F(g)
    BY <1>8, <2>1 DEF Leads
  <2> HIDE DEF F
  <2> QED  BY <2>2
<1> HIDE DEF after
<1>10. after[n] \in W[n]
  <2> DEFINE Ends == {i \in 0..n : after[i] \in W[i]}
  <2>1. 0 \in Ends
    BY <1>2, <1>5, <1>9
  <2>2. ASSUME NEW i \in 1..n, i - 1 \in Ends PROVE i \in Ends
    <3>1. i \in 0..n /\ after[i] = Round(after[i - 1], i) /\ after[i - 1] \in W[i - 1]
      BY <1>2, <1>9, <2>2
    <3> QED  BY <1>6, <3>1
  <2>3. \A i \in 0..n : i \in Ends
    <3> HIDE DEF Ends
    <3> QED  BY <1>2, <2>1, <2>2, RoundByRound
  <2> QED  BY <1>2, <2>3
<1>11. InRound(a, after[n], B, n)
  BY <1>2, <1>3, <1>10
<1>12. \A s \in ToSet(setup.sessions) : \E m \in 1..n : setup.sessions[m] = s
  <2>1. DOMAIN setup.sessions = 1..n
    BY UsedFacts DEF n, list
  <2> QED  BY <2>1 DEF ToSet
<1>13. PICK b : b = after[n]
  OBVIOUS
<1>14. ASSUME \A s \in ToSet(setup.sessions) : a.session[s].new = "INACTIVE"
       PROVE  OnCall(b) = {} /\ \A o : Level(a, o) => Level(b, o)
  <2>1. /\ \A m \in 1..n : setup.sessions[m] \notin OnCall(b)
        /\ \A o : Level(a, o) => Level(b, o)
    BY <1>11, <1>13, <1>14 DEF InRound, Ended
  <2>2. \A s \in OnCall(b) : s \in ToSet(setup.sessions)
    BY DEF OnCall
  <2> QED  BY <1>12, <2>1, <2>2
<1> QED  BY <1>1, <1>11, <1>13, <1>14 DEF InRound

-----------------------------------------------------------------------------
(* Streams. *)

\* A stream among the use cases D, whose calls are the sessions that are on.
Aside(a, D, i) == Calls(D) = OnCall(a) /\ i \notin ToSet(setup.sessions)

LEMMA AsideFacts ==
    ASSUME NEW D, NEW i, NEW a, Aside(a, D, i), NEW b, b.session = a.session
    PROVE  /\ OnCall(a) \subseteq D /\ OnCall(a) \subseteq D \ {i} /\ OnCall(b) = OnCall(a)
           /\ Calls(D \ {i}) = OnCall(b) /\ Calls(D \cup {i}) = OnCall(b)
           /\ Aside(b, D \cup {i}, i) /\ Aside(b, D, i)
  BY DEF Aside, Calls, OnCall

LEMMA OutputStopped ==
    ASSUME setup \in Setups, NEW D, D \subseteq Used, NEW a, Good(a, D, D), NEW o \in D
    PROVE  LET b == stop_output_stream(a, o)
           IN  /\ Good(b, D \ {o}, D \ {o}) /\ Settings(a, b)
               /\ Aside(a, D, o) => Steady(a, b)
<1>1. PICK b, u : u = a.usecase[o] /\ b = Withdraw(a, u)
  OBVIOUS
<1>2. PICK E : E = D \ {o}
  OBVIOUS
<1>3. /\ Good(b, E, E) /\ Settings(a, b) /\ E \subseteq Used
      /\ Undisturbed(a, b, E)
  <2>1. D \subseteq Ids /\ u = a.usecase[o]
    BY <1>1, UsedFacts
  <2>2. /\ Good(Withdraw(a, u), D \ {o}, D \ {o}) /\ Settings(a, Withdraw(a, u))
        /\ Undisturbed(a, Withdraw(a, u), D \ {o})
    BY <2>1, Withdrawn
  <2> QED  BY <1>1, <1>2, <2>2
<1>4. PICK T : T = DOMAIN b.usecase \ (ActiveInputs(b) \ {"RECORD_VOIP"})
  OBVIOUS
<1>5. PICK c : c = SelectAll(b, T, FALSE)
  OBVIOUS
<1>6. /\ Good(c, E, E) /\ Frame(b, c)
      /\ Calls(E) = OnCall(b) => Steady(b, c)
  BY <1>3, <1>5, AllSelected
<1>7. stop_output_stream(a, o) = b \/ stop_output_stream(a, o) = c
  <2>1. c = list_for_each(b, T, select_devices)
    BY <1>5 DEF SelectAll, list_for_each, select_devices
  <2> QED  BY <1>1, <1>4, <2>1 DEF stop_output_stream
<1>8. Settings(a, c)
  BY <1>3, <1>6 DEF Settings, Frame
<1>9. ASSUME Aside(a, D, o) PROVE Steady(a, b) /\ Steady(a, c)
  <2>1. b.session = a.session
    BY <1>3 DEF Settings
  <2>2. OnCall(a) \subseteq E /\ Calls(E) = OnCall(b)
    BY <1>2, <1>9, <2>1, AsideFacts
  <2>3. Undisturbed(a, b, OnCall(a))
    BY <1>3, <2>2 DEF Undisturbed
  <2>4. Steady(a, b)
    BY <1>3, <2>3, SteadyWhen
  <2> QED  BY <1>6, <2>2, <2>4, SteadyFacts
<1> QED  BY <1>2, <1>3, <1>6, <1>7, <1>8, <1>9

\* A new use case is listed and placed.
LEMMA Started ==
    ASSUME setup \in Setups, NEW D, D \subseteq Used, NEW a, Good(a, D, D),
           NEW i \in Used, i \notin D, NEW devices \in DevicesOfStreams
    PROVE  LET b == select_devices(list_add_tail(a, i, TypeOf(i), devices), i)
           IN  /\ Good(b, D \cup {i}, D \cup {i}) /\ Settings(a, b)
               /\ Aside(a, D, i) => Steady(a, b)
<1>1. PICK x : x = list_add_tail(a, i, TypeOf(i), devices)
  OBVIOUS
<1>2. PICK E : E = D \cup {i}
  OBVIOUS
<1>3. Good(x, D \cup {i}, D) /\ Settings(a, x) /\ Undisturbed(a, x, D)
  BY <1>1, UsedFacts, Added
<1>4. Good(x, E, D) /\ E \subseteq Used /\ i \in E /\ E \ {i} \subseteq D
  BY <1>2, <1>3
<1>5. PICK y : y = select_devices_with_force_switch(x, i, FALSE)
  OBVIOUS
<1>6. Good(y, E, E) /\ Frame(x, y) /\ Effect(x, y, E, i)
  BY <1>4, <1>5, Selected
<1>7. y = select_devices(list_add_tail(a, i, TypeOf(i), devices), i)
  BY <1>1, <1>5 DEF select_devices
<1>8. Settings(a, y)
  BY <1>3, <1>6 DEF Settings, Frame
<1>9. ASSUME Aside(a, D, i) PROVE Steady(a, y)
  <2>1. x.session = a.session
    BY <1>3 DEF Settings
  <2>2. OnCall(a) \subseteq D /\ Calls(E) = OnCall(x)
    BY <1>2, <1>9, <2>1, AsideFacts
  <2>3. Undisturbed(a, x, OnCall(a))
    BY <1>3, <2>2 DEF Undisturbed
  <2>4. Steady(a, x)
    BY <1>3, <2>3, SteadyWhen
  <2>5. x \in Adevs(E)
    BY <1>4, GoodFacts
  <2>6. Steady(x, y)
    BY <1>4, <1>6, <2>2, <2>5, SelectSteady
  <2> QED  BY <2>4, <2>6, SteadyFacts
<1> QED  BY <1>2, <1>6, <1>7, <1>8, <1>9

LEMMA OutputStarted ==
    ASSUME setup \in Setups, NEW D, D \subseteq Used, NEW a, Good(a, D, D),
           NEW o \in setup.outputs, o \notin D, NEW opened \in BOOLEAN
    PROVE  LET b == start_output_stream(a, o, opened)
           IN  /\ Good(b, IF opened THEN D \cup {o} ELSE D, IF opened THEN D \cup {o} ELSE D)
               /\ Settings(a, b) /\ (Calls(D) = OnCall(a) => Steady(a, b))
<1>1. PICK devices : devices = a.out[o].devices
  OBVIOUS
<1>2. devices \in DevicesOfStreams
  <2>1. a.out \in [setup.outputs -> Outputs]
    BY GoodFacts, AdevFields
  <2> QED  BY <1>1, <2>1 DEF Outputs, DevicesOfStreams
<1>3. o \in Used /\ TypeOf(o) = "PCM_PLAYBACK"
  <2>1. o \in Used
    BY DEF Used
  <2> QED  BY <2>1, TypesOfUsed
<1>4. PICK y : y = select_devices(list_add_tail(a, o, TypeOf(o), devices), o)
  OBVIOUS
<1>5. PICK E : E = D \cup {o}
  OBVIOUS
<1>6. /\ Good(y, E, E) /\ Settings(a, y) /\ E \subseteq Used /\ o \in E /\ E \ {o} = D
      /\ Aside(a, D, o) => Steady(a, y)
  <2>1. /\ Good(y, D \cup {o}, D \cup {o}) /\ Settings(a, y)
        /\ Aside(a, D, o) => Steady(a, y)
    BY <1>2, <1>3, <1>4, Started
  <2> QED  BY <1>3, <1>5, <2>1
<1>7. start_output_stream(a, o, opened) = OpenOutput(y, o, opened)
  BY <1>1, <1>3, <1>4 DEF start_output_stream
<1>10. Calls(D) = OnCall(a) => Aside(a, D, o)
  BY <1>3, TypesOfUsed DEF Aside
<1>8. CASE opened
  BY <1>5, <1>6, <1>7, <1>8, <1>10 DEF OpenOutput
<1>9. CASE ~ opened
  <2>1. PICK z : z = stop_output_stream(y, o)
    OBVIOUS
  <2>2. /\ Good(z, E \ {o}, E \ {o}) /\ Settings(y, z)
        /\ Aside(y, E, o) => Steady(y, z)
    BY <1>6, <2>1, OutputStopped
  <2>3. Good(z, D, D) /\ Settings(a, z)
    BY <1>6, <2>2 DEF Settings
  <2>4. ASSUME Calls(D) = OnCall(a) PROVE Steady(a, z)
    <3>1. y.session = a.session
      BY <1>6 DEF Settings
    <3>2. Aside(y, E, o)
      BY <1>5, <1>10, <2>4, <3>1, AsideFacts
    <3> QED  BY <1>6, <1>10, <2>2, <2>4, <3>2, SteadyFacts
  <2> QED  BY <1>7, <1>9, <2>1, <2>3, <2>4 DEF OpenOutput
<1> QED  BY <1>8, <1>9

LEMMA InputStopped ==
    ASSUME setup \in Setups, NEW D, D \subseteq Used, NEW a, Good(a, D, D), NEW i \in D
    PROVE  LET b == stop_input_stream(a, i)
           IN  /\ Good(b, D \ {i}, D \ {i}) /\ Settings(a, b)
               /\ Aside(a, D, i) => Steady(a, b)
<1>1. PICK b, u : u = a.usecase[i] /\ b = Withdraw(a, u)
  OBVIOUS
<1>2. PICK E : E = D \ {i}
  OBVIOUS
<1>3. /\ Good(b, E, E) /\ Settings(a, b) /\ E \subseteq Used
      /\ Undisturbed(a, b, E)
  <2>1. D \subseteq Ids /\ u = a.usecase[i]
    BY <1>1, UsedFacts
  <2>2. /\ Good(Withdraw(a, u), D \ {i}, D \ {i}) /\ Settings(a, Withdraw(a, u))
        /\ Undisturbed(a, Withdraw(a, u), D \ {i})
    BY <2>1, Withdrawn
  <2> QED  BY <1>1, <1>2, <2>2
<1>4. PICK j : j = get_priority_input(b)
  OBVIOUS
<1>5. j # NoDevice => j \in E
  <2>1. b \in Adevs(E)
    BY <1>3, GoodFacts
  <2> QED  BY <1>3, <1>4, <2>1, InputsFound DEF Found
<1>6. PICK c : c = stop_input_stream(a, i)
  OBVIOUS
<1>7. c = b \/ (j # NoDevice /\ c = select_devices_with_force_switch(b, j, FALSE))
  BY <1>1, <1>4, <1>6 DEF stop_input_stream, SelectNext, select_devices, NoDevice
<1>9. b.session = a.session /\ b \in Adevs(E)
  BY <1>3, GoodFacts DEF Settings
<1>10. ASSUME Aside(a, D, i) PROVE Steady(a, b) /\ Calls(E) = OnCall(b)
  <2>1. OnCall(a) \subseteq E /\ Calls(E) = OnCall(b)
    BY <1>2, <1>9, <1>10, AsideFacts
  <2>2. Undisturbed(a, b, OnCall(a))
    BY <1>3, <2>1 DEF Undisturbed
  <2> QED  BY <1>3, <2>1, <2>2, SteadyWhen
<1>8. Good(c, E, E) /\ Settings(a, c) /\ (Aside(a, D, i) => Steady(a, c))
  <2>1. CASE c = b
    BY <1>3, <1>10, <2>1
  <2>2. CASE j # NoDevice /\ c = select_devices_with_force_switch(b, j, FALSE)
    <3>1. j \in E /\ E \ {j} \subseteq E
      BY <1>5, <2>2
    <3>2. Good(c, E, E) /\ Frame(b, c) /\ Effect(b, c, E, j)
      BY <1>3, <2>2, <3>1, Selected
    <3>3. Calls(E) = OnCall(b) => Steady(b, c)
      BY <1>3, <1>9, <3>1, <3>2, SelectSteady
    <3>4. Aside(a, D, i) => Steady(a, c)
      BY <1>10, <3>3, SteadyFacts
    <3>5. Settings(a, c)
      BY <1>3, <3>2 DEF Settings, Frame
    <3> QED  BY <3>2, <3>4, <3>5
  <2> QED  BY <1>7, <2>1, <2>2
<1> QED  BY <1>2, <1>6, <1>8

LEMMA InputStarted ==
    ASSUME setup \in Setups, NEW D, D \subseteq Used, NEW a, Good(a, D, D),
           NEW i \in setup.inputs, i \notin D, NEW opened \in BOOLEAN
    PROVE  LET b == start_input_stream(a, i, opened)
           IN  /\ Good(b, IF opened THEN D \cup {i} ELSE D, IF opened THEN D \cup {i} ELSE D)
               /\ Settings(a, b) /\ (Calls(D) = OnCall(a) => Steady(a, b))
<1>1. PICK devices : devices = {a.in[i].device}
  OBVIOUS
<1>2. devices \in DevicesOfStreams
  <2>1. a.in \in [setup.inputs -> Inputs]
    BY GoodFacts, AdevFields
  <2> QED  BY <1>1, <2>1 DEF Inputs, DevicesOfStreams
<1>3. i \in Used /\ TypeOf(i) = "PCM_CAPTURE"
  <2>1. i \in Used
    BY DEF Used
  <2> QED  BY <2>1, TypesOfUsed
<1>4. PICK y : y = select_devices(list_add_tail(a, i, TypeOf(i), devices), i)
  OBVIOUS
<1>5. PICK E : E = D \cup {i}
  OBVIOUS
<1>6. /\ Good(y, E, E) /\ Settings(a, y) /\ E \subseteq Used /\ i \in E /\ E \ {i} = D
      /\ Aside(a, D, i) => Steady(a, y)
  <2>1. /\ Good(y, D \cup {i}, D \cup {i}) /\ Settings(a, y)
        /\ Aside(a, D, i) => Steady(a, y)
    BY <1>2, <1>3, <1>4, Started
  <2> QED  BY <1>3, <1>5, <2>1
<1>7. start_input_stream(a, i, opened) = OpenInput(y, i, opened)
  BY <1>1, <1>3, <1>4 DEF start_input_stream
<1>10. Calls(D) = OnCall(a) => Aside(a, D, i)
  BY <1>3, TypesOfUsed DEF Aside
<1>8. CASE opened
  BY <1>5, <1>6, <1>7, <1>8, <1>10 DEF OpenInput
<1>9. CASE ~ opened
  <2>1. PICK z : z = stop_input_stream(y, i)
    OBVIOUS
  <2>2. /\ Good(z, E \ {i}, E \ {i}) /\ Settings(y, z)
        /\ Aside(y, E, i) => Steady(y, z)
    BY <1>6, <2>1, InputStopped
  <2>3. Good(z, D, D) /\ Settings(a, z)
    BY <1>6, <2>2 DEF Settings
  <2>4. ASSUME Calls(D) = OnCall(a) PROVE Steady(a, z)
    <3>1. y.session = a.session
      BY <1>6 DEF Settings
    <3>2. Aside(y, E, i)
      BY <1>5, <1>10, <2>4, <3>1, AsideFacts
    <3> QED  BY <1>6, <1>10, <2>2, <2>4, <3>2, SteadyFacts
  <2> QED  BY <1>7, <1>9, <2>1, <2>3, <2>4 DEF OpenInput
<1> QED  BY <1>8, <1>9

-----------------------------------------------------------------------------
(* The calls of the framework. *)

\* The use cases of the streams out of standby and of the calls are listed and
\* placed.
Sound(a) == Serves(a, Streams(a))

Running(a) == Streams(a) \cup OnCall(a)

LEMMA RunningUsed ==
    ASSUME setup \in Setups, NEW a
    PROVE  /\ Running(a) \subseteq Used /\ Streams(a) \subseteq setup.outputs \cup setup.inputs
           /\ \A i \in setup.outputs \cup setup.inputs : i \in Used /\ i \notin OnCall(a)
           /\ \A o \in setup.outputs : o \notin setup.inputs
           /\ Calls(Running(a)) = OnCall(a)
<1>1. \A i \in setup.outputs \cup setup.inputs : i \in Used
  BY DEF Used
<1>2. \A i \in setup.outputs \cup setup.inputs : i \notin ToSet(setup.sessions)
  BY <1>1, TypesOfUsed
<1>3. \A o \in setup.outputs : o \notin setup.inputs
  BY <1>1, TypesOfUsed
<1> QED  BY <1>1, <1>2, <1>3 DEF Running, Streams, OnCall, Used, Calls

LEMMA SoundAgain ==
    ASSUME NEW a, NEW b, Good(b, Running(a), Running(a)), Settings(a, b)
    PROVE  Sound(b) /\ Running(b) = Running(a) /\ Streams(b) = Streams(a)
<1>1. Streams(b) = Streams(a) /\ OnCall(b) = OnCall(a)
  BY DEF Settings, Streams, OnCall
<1> QED  BY <1>1 DEF Sound, Serves, Running

\* The calls stay where they are, in the same mode.
Standing(a, b) == b.in_call = a.in_call /\ b.mode = a.mode /\ Steady(a, b)

LEMMA StandingFacts ==
    ASSUME NEW a, NEW b, NEW c
    PROVE  /\ Standing(a, a)
           /\ Standing(a, b) /\ Standing(b, c) => Standing(a, c)
           /\ Settings(a, b) /\ Steady(a, b) => Standing(a, b)
  BY SteadyFacts DEF Standing, Settings

LEMMA StandingWhen ==
    ASSUME NEW a, NEW b, b.usecase = a.usecase, b.session = a.session, b.sidetone = a.sidetone,
           b.in_call = a.in_call, b.mode = a.mode,
           b.out[primary_output].devices = a.out[primary_output].devices
    PROVE  Standing(a, b)
<1>1. Home(b) = Home(a)
  BY DEF Home, platform_get_output_snd_device
<1>2. OnCall(b) = OnCall(a)
  BY SameCalls
<1>3. AtHome(a, OnCall(a)) => AtHome(b, OnCall(b))
  BY <1>1, <1>2 DEF AtHome
<1> QED  BY <1>1, <1>2, <1>3 DEF Standing, Steady, Quiet, Tuned

\* A stream goes to standby or leaves it.
OutParked(a, o, v) == [a EXCEPT !.out[o].standby = v]
InParked(a, i, v) == [a EXCEPT !.in[i].standby = v]
Toggled(a, b, i, v) ==
  /\ OnCall(b) = OnCall(a)
  /\ Streams(b) = IF v THEN Streams(a) \ {i} ELSE Streams(a) \cup {i}

LEMMA OutputStandby ==
    ASSUME setup \in Setups, NEW D, NEW a, NEW P, Good(a, D, P), NEW o \in setup.outputs,
           NEW v \in BOOLEAN
    PROVE  LET b == OutParked(a, o, v)
           IN  Good(b, D, P) /\ Toggled(a, b, o, v) /\ Standing(a, b)
<1>1. a \in Adevs(D) /\ a.out \in [setup.outputs -> Outputs]
  BY GoodFacts, AdevFields
<1>2. PICK b : b = OutParked(a, o, v)
  OBVIOUS
<1> DEFINE f == [a.out EXCEPT ![o].standby = v]
<1>3. /\ f \in [setup.outputs -> Outputs]
      /\ \A q \in setup.outputs : /\ f[q].standby = IF q = o THEN v ELSE a.out[q].standby
                                  /\ f[q].devices = a.out[q].devices
  BY <1>1 DEF Outputs
<1>4. b = [a EXCEPT !.out = f]
  BY <1>1, <1>2 DEF Adevs, OutParked
<1> HIDE DEF f
<1>5. /\ b \in Adevs(D) /\ b.out = f /\ b.in = a.in /\ b.session = a.session
      /\ b.usecase = a.usecase /\ b.snd_dev_ref_cnt = a.snd_dev_ref_cnt /\ b.paths = a.paths
      /\ b.sidetone = a.sidetone /\ b.in_call = a.in_call /\ b.mode = a.mode
  BY <1>1, <1>3, <1>4 DEF Adevs
<1>6. Good(b, D, P)
  BY <1>5, GoodCarried
<1>7. o \notin setup.inputs
  BY RunningUsed
<1>8. Streams(b) = IF v THEN Streams(a) \ {o} ELSE Streams(a) \cup {o}
  BY <1>3, <1>5, <1>7 DEF Streams
<1>9. OnCall(b) = OnCall(a)
  BY <1>5 DEF OnCall
<1>10. Standing(a, b)
  BY <1>3, <1>5, StandingWhen, UsedFacts
<1> QED  BY <1>2, <1>6, <1>8, <1>9, <1>10 DEF Toggled

LEMMA InputStandby ==
    ASSUME setup \in Setups, NEW D, NEW a, NEW P, Good(a, D, P), NEW i \in setup.inputs,
           NEW v \in BOOLEAN
    PROVE  LET b == InParked(a, i, v)
           IN  Good(b, D, P) /\ Toggled(a, b, i, v) /\ Standing(a, b)
<1>1. a \in Adevs(D) /\ a.in \in [setup.inputs -> Inputs]
  BY GoodFacts, AdevFields
<1>2. PICK b : b = InParked(a, i, v)
  OBVIOUS
<1> DEFINE f == [a.in EXCEPT ![i].standby = v]
<1>3. /\ f \in [setup.inputs -> Inputs]
      /\ \A q \in setup.inputs : f[q].standby = IF q = i THEN v ELSE a.in[q].standby
  BY <1>1 DEF Inputs
<1>4. b = [a EXCEPT !.in = f]
  BY <1>1, <1>2 DEF Adevs, InParked
<1> HIDE DEF f
<1>5. /\ b \in Adevs(D) /\ b.in = f /\ b.out = a.out /\ b.session = a.session
      /\ b.usecase = a.usecase /\ b.snd_dev_ref_cnt = a.snd_dev_ref_cnt /\ b.paths = a.paths
      /\ b.sidetone = a.sidetone /\ b.in_call = a.in_call /\ b.mode = a.mode
  BY <1>1, <1>3, <1>4 DEF Adevs
<1>6. Good(b, D, P)
  BY <1>5, GoodCarried
<1>7. i \notin setup.outputs
  BY RunningUsed
<1>8. Streams(b) = IF v THEN Streams(a) \ {i} ELSE Streams(a) \cup {i}
  BY <1>3, <1>5, <1>7 DEF Streams
<1>9. OnCall(b) = OnCall(a)
  BY <1>5 DEF OnCall
<1>10. Standing(a, b)
  BY <1>3, <1>5, StandingWhen, UsedFacts
<1> QED  BY <1>2, <1>6, <1>8, <1>9, <1>10 DEF Toggled

LEMMA OutWritten ==
    ASSUME setup \in Setups, NEW a, Sound(a), NEW o \in setup.outputs, NEW opened \in BOOLEAN,
           a.out[o].standby
    PROVE  LET b == [start_output_stream([a EXCEPT !.out[o].standby = FALSE], o, opened)
                       EXCEPT !.out[o].standby = ~opened]
           IN  Sound(b) /\ Standing(a, b)
<1>1. PICK D, S : D = Running(a) /\ S = Streams(a)
  OBVIOUS
<1>2. /\ Good(a, D, D) /\ D \subseteq Used /\ o \notin OnCall(a) /\ o \notin S /\ o \notin D
      /\ D = S \cup OnCall(a) /\ Calls(D) = OnCall(a)
  <2>1. o \notin Streams(a)
    BY RunningUsed DEF Streams
  <2> QED  BY <1>1, <2>1, RunningUsed DEF Sound, Serves, Running
<1>3. PICK x : x = OutParked(a, o, FALSE)
  OBVIOUS
<1>4. Good(x, D, D) /\ OnCall(x) = OnCall(a) /\ Streams(x) = S \cup {o} /\ Standing(a, x)
  <2>1. Good(x, D, D) /\ Toggled(a, x, o, FALSE) /\ Standing(a, x)
    BY <1>2, <1>3, OutputStandby
  <2> QED  BY <1>1, <2>1 DEF Toggled
<1>5. PICK y : y = start_output_stream(x, o, opened)
  OBVIOUS
<1>6. PICK E : E = IF opened THEN D \cup {o} ELSE D
  OBVIOUS
<1>7. Good(y, E, E) /\ Settings(x, y) /\ (Calls(D) = OnCall(x) => Steady(x, y))
  BY <1>2, <1>4, <1>5, <1>6, OutputStarted
<1>8. OnCall(y) = OnCall(a) /\ Streams(y) = S \cup {o}
  BY <1>4, <1>7 DEF OnCall, Streams, Settings
<1>9. PICK v \in BOOLEAN : v = ~opened
  OBVIOUS
<1>10. PICK b : b = OutParked(y, o, v)
  OBVIOUS
<1>11. Good(b, E, E) /\ Toggled(y, b, o, v) /\ Standing(y, b)
  BY <1>7, <1>10, OutputStandby
<1>12. Streams(b) \cup OnCall(b) = E
  BY <1>2, <1>6, <1>8, <1>9, <1>11 DEF Toggled
<1>13. Sound(b)
  BY <1>11, <1>12 DEF Sound, Serves
<1>14. Standing(a, b)
  BY <1>2, <1>4, <1>7, <1>11, StandingFacts
<1> QED  BY <1>3, <1>5, <1>9, <1>10, <1>13, <1>14 DEF OutParked

LEMMA InRead ==
    ASSUME setup \in Setups, NEW a, Sound(a), NEW i \in setup.inputs, NEW opened \in BOOLEAN,
           a.in[i].standby
    PROVE  LET b == [start_input_stream(a, i, opened) EXCEPT !.in[i].standby = ~opened]
           IN  Sound(b) /\ Standing(a, b)
<1>1. PICK D, S : D = Running(a) /\ S = Streams(a)
  OBVIOUS
<1>2. /\ Good(a, D, D) /\ D \subseteq Used /\ i \notin OnCall(a) /\ i \notin S /\ i \notin D
      /\ D = S \cup OnCall(a) /\ Calls(D) = OnCall(a)
  <2>1. i \notin Streams(a)
    BY RunningUsed DEF Streams
  <2> QED  BY <1>1, <2>1, RunningUsed DEF Sound, Serves, Running
<1>5. PICK y : y = start_input_stream(a, i, opened)
  OBVIOUS
<1>6. PICK E : E = IF opened THEN D \cup {i} ELSE D
  OBVIOUS
<1>7. Good(y, E, E) /\ Settings(a, y) /\ (Calls(D) = OnCall(a) => Steady(a, y))
  BY <1>2, <1>5, <1>6, InputStarted
<1>8. OnCall(y) = OnCall(a) /\ Streams(y) = S
  BY <1>1, <1>7 DEF OnCall, Streams, Settings
<1>9. PICK v \in BOOLEAN : v = ~opened
  OBVIOUS
<1>10. PICK b : b = InParked(y, i, v)
  OBVIOUS
<1>11. Good(b, E, E) /\ Toggled(y, b, i, v) /\ Standing(y, b)
  BY <1>7, <1>10, InputStandby
<1>12. Streams(b) \cup OnCall(b) = E
  BY <1>2, <1>6, <1>8, <1>9, <1>11 DEF Toggled
<1>13. Sound(b)
  BY <1>11, <1>12 DEF Sound, Serves
<1>14. Standing(a, b)
  BY <1>2, <1>7, <1>11, StandingFacts
<1> QED  BY <1>5, <1>9, <1>10, <1>13, <1>14 DEF InParked

LEMMA OutStopped ==
    ASSUME setup \in Setups, NEW a, Sound(a), NEW o \in setup.outputs, ~ a.out[o].standby
    PROVE  LET b == stop_output_stream([a EXCEPT !.out[o].standby = TRUE], o)
           IN  Sound(b) /\ Standing(a, b)
<1>1. PICK D, S : D = Running(a) /\ S = Streams(a)
  OBVIOUS
<1>2. /\ Good(a, D, D) /\ D \subseteq Used /\ o \notin OnCall(a) /\ o \in D
      /\ D = S \cup OnCall(a) /\ Calls(D) = OnCall(a)
  BY <1>1, RunningUsed DEF Sound, Serves, Running, Streams
<1>3. PICK x : x = OutParked(a, o, TRUE)
  OBVIOUS
<1>4. Good(x, D, D) /\ OnCall(x) = OnCall(a) /\ Streams(x) = S \ {o} /\ Standing(a, x)
  <2>1. Good(x, D, D) /\ Toggled(a, x, o, TRUE) /\ Standing(a, x)
    BY <1>2, <1>3, OutputStandby
  <2> QED  BY <1>1, <2>1 DEF Toggled
<1>5. PICK b : b = stop_output_stream(x, o)
  OBVIOUS
<1>6. PICK E : E = D \ {o}
  OBVIOUS
<1>7. Good(b, E, E) /\ Settings(x, b) /\ (Aside(x, D, o) => Steady(x, b))
  BY <1>2, <1>4, <1>5, <1>6, OutputStopped
<1>8. Streams(b) \cup OnCall(b) = E
  <2>1. OnCall(b) = OnCall(a) /\ Streams(b) = S \ {o}
    BY <1>4, <1>7 DEF OnCall, Streams, Settings
  <2> QED  BY <1>2, <1>6, <2>1
<1>9. Sound(b)
  BY <1>7, <1>8 DEF Sound, Serves
<1>10. Standing(a, b)
  <2>1. Aside(x, D, o)
    BY <1>2, <1>4, RunningUsed, TypesOfUsed DEF Aside
  <2> QED  BY <1>4, <1>7, <2>1, StandingFacts
<1> QED  BY <1>3, <1>5, <1>9, <1>10 DEF OutParked

LEMMA InStopped ==
    ASSUME setup \in Setups, NEW a, Sound(a), NEW i \in setup.inputs, ~ a.in[i].standby
    PROVE  LET b == stop_input_stream([a EXCEPT !.in[i].standby = TRUE], i)
           IN  Sound(b) /\ Standing(a, b)
<1>1. PICK D, S : D = Running(a) /\ S = Streams(a)
  OBVIOUS
<1>2. /\ Good(a, D, D) /\ D \subseteq Used /\ i \notin OnCall(a) /\ i \in D
      /\ D = S \cup OnCall(a) /\ Calls(D) = OnCall(a)
  BY <1>1, RunningUsed DEF Sound, Serves, Running, Streams
<1>3. PICK x : x = InParked(a, i, TRUE)
  OBVIOUS
<1>4. Good(x, D, D) /\ OnCall(x) = OnCall(a) /\ Streams(x) = S \ {i} /\ Standing(a, x)
  <2>1. Good(x, D, D) /\ Toggled(a, x, i, TRUE) /\ Standing(a, x)
    BY <1>2, <1>3, InputStandby
  <2> QED  BY <1>1, <2>1 DEF Toggled
<1>5. PICK b : b = stop_input_stream(x, i)
  OBVIOUS
<1>6. PICK E : E = D \ {i}
  OBVIOUS
<1>7. Good(b, E, E) /\ Settings(x, b) /\ (Aside(x, D, i) => Steady(x, b))
  BY <1>2, <1>4, <1>5, <1>6, InputStopped
<1>8. Streams(b) \cup OnCall(b) = E
  <2>1. OnCall(b) = OnCall(a) /\ Streams(b) = S \ {i}
    BY <1>4, <1>7 DEF OnCall, Streams, Settings
  <2> QED  BY <1>2, <1>6, <2>1
<1>9. Sound(b)
  BY <1>7, <1>8 DEF Sound, Serves
<1>10. Standing(a, b)
  <2>1. Aside(x, D, i)
    BY <1>2, <1>4, RunningUsed, TypesOfUsed DEF Aside
  <2> QED  BY <1>4, <1>7, <2>1, StandingFacts
<1> QED  BY <1>3, <1>5, <1>9, <1>10 DEF InParked

\* A setting routing reads changes: the use cases stay as they are.
Untouched(a, b) ==
  /\ b.usecase_list = a.usecase_list /\ b.usecase = a.usecase
  /\ b.snd_dev_ref_cnt = a.snd_dev_ref_cnt /\ b.paths = a.paths
SameRunning(a, b) == Streams(b) = Streams(a) /\ OnCall(b) = OnCall(a)

LEMMA SettingKept ==
    ASSUME NEW a, Sound(a), NEW b \in Adevs(Running(a)), Untouched(a, b), SameRunning(a, b)
    PROVE  Sound(b)
<1>1. PICK D : D = Running(a)
  OBVIOUS
<1>2. Good(a, D, D) /\ b \in Adevs(D)
  BY <1>1 DEF Sound, Serves, Running
<1>3. Good(b, D, D)
  BY <1>2, GoodCarried DEF Untouched
<1>4. Streams(b) \cup OnCall(b) = D
  BY <1>1 DEF SameRunning, Running
<1> QED  BY <1>3, <1>4 DEF Sound, Serves

LEMMA SoundFields ==
    ASSUME NEW a, Sound(a)
    PROVE  a \in Adevs(Running(a)) /\ Good(a, Running(a), Running(a))
  BY GoodFacts DEF Sound, Serves, Running

\* In a call mode the calls are at home; unless they strayed from it, calls there
\* are only in it and the sidetone is theirs.
Tidy(a, st) ==
  /\ a.in_call => a.mode \in {"RINGTONE", "IN_CALL"} /\ AtHome(a, OnCall(a))
  /\ ~st => (OnCall(a) # {} => a.in_call) /\ Tuned(a)

LEMMA TidyKept ==
    ASSUME NEW a, NEW st, Tidy(a, st), NEW b, Standing(a, b), NEW st2, st => st2
    PROVE  Tidy(b, st2)
<1>1. Quiet(a) => Quiet(b) /\ (Tuned(a) => Tuned(b))
  BY DEF Standing, Steady
<1>2. b.in_call = a.in_call /\ b.mode = a.mode
  BY DEF Standing
<1>3. ASSUME b.in_call PROVE b.mode \in {"RINGTONE", "IN_CALL"} /\ AtHome(b, OnCall(b))
  <2>1. Quiet(a)
    BY <1>2, <1>3 DEF Tidy, Quiet
  <2>2. Quiet(b)
    BY <1>1, <2>1
  <2> QED  BY <1>2, <1>3, <2>2 DEF Tidy, Quiet, AtHome
<1>4. ASSUME ~st2 PROVE (OnCall(b) # {} => b.in_call) /\ Tuned(b)
  <2>1. ~st
    BY <1>4
  <2>2. Quiet(a) /\ Tuned(a)
    BY <2>1 DEF Tidy, Quiet
  <2> QED  BY <1>1, <2>2 DEF Quiet
<1> QED  BY <1>3, <1>4 DEF Tidy

\* Out of the call mode.
LEMMA Rested ==
    ASSUME NEW b, ~b.in_call, NEW st, ~st => OnCall(b) = {} /\ b.sidetone = {}
    PROVE  Tidy(b, st)
  BY DEF Tidy, Tuned

LEMMA SoundSelected ==
    ASSUME setup \in Setups, NEW a, Sound(a), NEW i \in Running(a), NEW force
    PROVE  LET b == select_devices_with_force_switch(a, i, force)
           IN  Sound(b) /\ Frame(a, b) /\ Standing(a, b)
<1>1. PICK D : D = Running(a)
  OBVIOUS
<1>2. /\ Good(a, D, D) /\ D \subseteq Used /\ i \in D /\ D \ {i} \subseteq D
      /\ Calls(D) = OnCall(a) /\ a \in Adevs(D)
  BY <1>1, SoundFields, RunningUsed
<1>3. PICK b : b = select_devices_with_force_switch(a, i, force)
  OBVIOUS
<1>4. Good(b, D, D) /\ Frame(a, b) /\ Effect(a, b, D, i)
  BY <1>2, <1>3, Selected
<1>5. Good(b, Running(a), Running(a)) /\ Settings(a, b)
  BY <1>1, <1>4 DEF Frame, Settings
<1>6. Steady(a, b)
  BY <1>2, <1>4, SelectSteady
<1> QED  BY <1>3, <1>4, <1>5, <1>6, SoundAgain, StandingFacts

LEMMA SoundAllSelected ==
    ASSUME setup \in Setups, NEW a, Sound(a), NEW T, NEW force
    PROVE  /\ Sound(SelectAll(a, T, force)) /\ Frame(a, SelectAll(a, T, force))
           /\ Standing(a, SelectAll(a, T, force))
<1>1. PICK D : D = Running(a)
  OBVIOUS
<1>2. Good(a, D, D) /\ D \subseteq Used /\ Calls(D) = OnCall(a)
  BY <1>1, SoundFields, RunningUsed
<1>3. PICK b : b = SelectAll(a, T, force)
  OBVIOUS
<1>4. Good(b, D, D) /\ Frame(a, b) /\ Steady(a, b)
  BY <1>2, <1>3, AllSelected
<1>5. Good(b, Running(a), Running(a)) /\ Settings(a, b)
  BY <1>1, <1>4 DEF Frame, Settings
<1> QED  BY <1>3, <1>4, <1>5, SoundAgain, StandingFacts

LEMMA SoundCalls ==
    ASSUME setup \in Setups, NEW a, Sound(a), CanStart(a), NEW fails
    PROVE  LET b == update_calls(a, fails)
           IN  /\ Sound(b) /\ CallsOnly(a, b) /\ Streams(b) = Streams(a)
               /\ a.in_call => Standing(a, b)
               /\ (\A s \in ToSet(setup.sessions) : a.session[s].new = "INACTIVE") =>
                      OnCall(b) = {} /\ \A o : Level(a, o) => Level(b, o)
<1>1. PICK B : B = Streams(a)
  OBVIOUS
<1>2. B \subseteq setup.outputs \cup setup.inputs /\ Serves(a, B)
  BY <1>1 DEF Streams, Sound
<1>3. PICK b : b = update_calls(a, fails)
  OBVIOUS
<1>4. /\ Serves(b, B) /\ CallsOnly(a, b) /\ (a.in_call => Steady(a, b))
      /\ (\A s \in ToSet(setup.sessions) : a.session[s].new = "INACTIVE") =>
             OnCall(b) = {} /\ \A o : Level(a, o) => Level(b, o)
  BY <1>2, <1>3, CallsUpdated
<1>5. Streams(b) = Streams(a)
  BY <1>4 DEF CallsOnly, Streams
<1>6. a.in_call => Standing(a, b)
  BY <1>4 DEF CallsOnly, Standing
<1>7. Sound(b)
  BY <1>1, <1>4, <1>5 DEF Sound
<1> QED  BY <1>3, <1>4, <1>5, <1>6, <1>7

\* The settings the framework changes, one lemma each.
LEMMA OutRouted ==
    ASSUME setup \in Setups, NEW a, Sound(a), NEW o \in setup.outputs,
           NEW devices \in setup.out_devices
    PROVE  LET b == [a EXCEPT !.out[o].devices = devices]
           IN  /\ Sound(b) /\ SameRunning(a, b) /\ b.session = a.session
               /\ b.in_call = a.in_call /\ b.mode = a.mode
               /\ b.usecase = a.usecase /\ b.sidetone = a.sidetone
               /\ b.out[o].standby = a.out[o].standby
               /\ o # primary_output => Standing(a, b)
<1>1. PICK D : D = Running(a)
  OBVIOUS
<1>2. a \in Adevs(D) /\ a.out \in [setup.outputs -> Outputs]
  BY <1>1, SoundFields, AdevFields
<1>3. devices \in OutputSets
  BY SetupsAssumption
<1>4. PICK b : b = [a EXCEPT !.out[o].devices = devices]
  OBVIOUS
<1> DEFINE f == [a.out EXCEPT ![o].devices = devices]
<1>5. /\ f \in [setup.outputs -> Outputs] /\ \A q \in setup.outputs : f[q].standby = a.out[q].standby
      /\ \A q \in setup.outputs : q # o => f[q].devices = a.out[q].devices
  BY <1>2, <1>3 DEF Outputs
<1>6. b = [a EXCEPT !.out = f]
  BY <1>2, <1>4 DEF Adevs
<1> HIDE DEF f
<1>7. /\ b \in Adevs(D) /\ b.out = f /\ b.in = a.in /\ b.session = a.session
      /\ b.in_call = a.in_call /\ b.mode = a.mode /\ Untouched(a, b)
      /\ b.sidetone = a.sidetone
  BY <1>2, <1>5, <1>6 DEF Adevs, Untouched
<1>8. SameRunning(a, b) /\ b.out[o].standby = a.out[o].standby
  BY <1>5, <1>7 DEF SameRunning, Streams, OnCall
<1>9. Sound(b)
  BY <1>1, <1>7, <1>8, SettingKept
<1>10. ASSUME o # primary_output PROVE Standing(a, b)
  <2>1. b.out[primary_output].devices = a.out[primary_output].devices
    BY <1>5, <1>7, <1>10, UsedFacts
  <2> QED  BY <1>7, <2>1, StandingWhen DEF Untouched
<1> QED  BY <1>4, <1>7, <1>8, <1>9, <1>10 DEF Untouched

LEMMA InRouted ==
    ASSUME setup \in Setups, NEW a, Sound(a), NEW i \in setup.inputs,
           NEW source \in setup.sources, NEW device \in setup.in_devices
    PROVE  LET b == [a EXCEPT !.in[i].source = source, !.in[i].device = device]
           IN  /\ Sound(b) /\ SameRunning(a, b) /\ b.in[i].standby = a.in[i].standby
               /\ Standing(a, b)
<1>1. PICK D : D = Running(a)
  OBVIOUS
<1>2. a \in Adevs(D) /\ a.in \in [setup.inputs -> Inputs]
  BY <1>1, SoundFields, AdevFields
<1>3. device \in InputDevices /\ source \in {"MIC", "VOICE_COMMUNICATION"}
  BY SetupsAssumption DEF InputDevices
<1>4. PICK b : b = [a EXCEPT !.in[i].source = source, !.in[i].device = device]
  OBVIOUS
<1> DEFINE f == [a.in EXCEPT ![i] = [a.in[i] EXCEPT !.source = source, !.device = device]]
<1>5. f \in [setup.inputs -> Inputs] /\ \A q \in setup.inputs : f[q].standby = a.in[q].standby
  BY <1>2, <1>3 DEF Inputs
<1>6. b = [a EXCEPT !.in = f]
  BY <1>2, <1>4 DEF Adevs
<1> HIDE DEF f
<1>7. /\ b \in Adevs(D) /\ b.in = f /\ b.out = a.out /\ b.session = a.session /\ Untouched(a, b)
      /\ b.in_call = a.in_call /\ b.mode = a.mode /\ b.sidetone = a.sidetone
  BY <1>2, <1>5, <1>6 DEF Adevs, Untouched
<1>8. SameRunning(a, b) /\ b.in[i].standby = a.in[i].standby
  BY <1>5, <1>7 DEF SameRunning, Streams, OnCall
<1>9. Sound(b)
  BY <1>1, <1>7, <1>8, SettingKept
<1>10. Standing(a, b)
  BY <1>7, StandingWhen DEF Untouched
<1> QED  BY <1>4, <1>7, <1>8, <1>9, <1>10

\* What telephony wants of the sessions.
LEMMA SessionsWanted ==
    ASSUME NEW a, Sound(a), NEW f \in [ToSet(setup.sessions) -> Sessions],
           \A s \in ToSet(setup.sessions) : f[s].current = a.session[s].current,
           NEW b, b = [a EXCEPT !.session = f]
    PROVE  /\ Sound(b) /\ SameRunning(a, b) /\ b.session = f /\ b.out = a.out /\ b.in = a.in
           /\ b.current_call_output = a.current_call_output
           /\ b.usecase = a.usecase /\ b.sidetone = a.sidetone
           /\ b.in_call = a.in_call /\ b.mode = a.mode /\ Standing(a, b)
<1>1. PICK D : D = Running(a)
  OBVIOUS
<1>2. a \in Adevs(D)
  BY <1>1, SoundFields
<1>3. /\ b \in Adevs(D) /\ b.out = a.out /\ b.in = a.in /\ b.session = f
      /\ b.current_call_output = a.current_call_output /\ Untouched(a, b)
      /\ b.sidetone = a.sidetone /\ b.in_call = a.in_call /\ b.mode = a.mode
  BY <1>2 DEF Adevs, Untouched
<1>4. SameRunning(a, b)
  BY <1>3 DEF SameRunning, Streams, OnCall
<1>5. Sound(b)
  BY <1>1, <1>3, <1>4, SettingKept
<1>6. Standing(a, b)
  <2>1. /\ OnCall(b) = OnCall(a) /\ Home(b) = Home(a) /\ b.usecase = a.usecase
    BY <1>3, <1>4, SameHome DEF SameRunning, Untouched
  <2>2. AtHome(a, OnCall(a)) => AtHome(b, OnCall(b))
    BY <1>3, <2>1 DEF AtHome
  <2> QED  BY <1>3, <2>1, <2>2 DEF Standing, Steady, Quiet, Tuned
<1> QED  BY <1>3, <1>4, <1>5, <1>6 DEF Untouched

\* The call settings.
LEMMA OutputOfCalls ==
    ASSUME NEW a, Sound(a), NEW c \in {"NULL", primary_output}
    PROVE  LET b == [a EXCEPT !.current_call_output = c]
           IN  /\ Sound(b) /\ SameRunning(a, b) /\ b.out = a.out /\ b.in = a.in
               /\ b.session = a.session /\ b.current_call_output = c
               /\ b.in_call = a.in_call /\ b.mode = a.mode /\ b.usecase = a.usecase
               /\ b.sidetone = a.sidetone /\ Standing(a, b)
<1>1. PICK D : D = Running(a)
  OBVIOUS
<1>2. a \in Adevs(D)
  BY <1>1, SoundFields
<1>3. PICK b : b = [a EXCEPT !.current_call_output = c]
  OBVIOUS
<1>4. /\ b \in Adevs(D) /\ b.out = a.out /\ b.in = a.in /\ b.session = a.session
      /\ b.current_call_output = c /\ Untouched(a, b)
      /\ b.in_call = a.in_call /\ b.mode = a.mode /\ b.sidetone = a.sidetone
  BY <1>2, <1>3 DEF Adevs, Untouched
<1>5. SameRunning(a, b)
  BY <1>4 DEF SameRunning, Streams, OnCall
<1>6. Sound(b)
  BY <1>1, <1>4, <1>5, SettingKept
<1>7. Standing(a, b)
  BY <1>4, StandingWhen DEF Untouched
<1> QED  BY <1>3, <1>4, <1>5, <1>6, <1>7 DEF Untouched

LEMMA CallBegun ==
    ASSUME NEW a, Sound(a), NEW v \in BOOLEAN
    PROVE  LET b == [a EXCEPT !.in_call = v]
           IN  /\ Sound(b) /\ SameRunning(a, b) /\ b.out = a.out /\ b.in = a.in
               /\ b.session = a.session /\ b.current_call_output = a.current_call_output
               /\ b.in_call = v /\ b.mode = a.mode /\ b.usecase = a.usecase
               /\ b.sidetone = a.sidetone
<1>1. PICK D : D = Running(a)
  OBVIOUS
<1>2. a \in Adevs(D)
  BY <1>1, SoundFields
<1>3. PICK b : b = [a EXCEPT !.in_call = v]
  OBVIOUS
<1>4. /\ b \in Adevs(D) /\ b.out = a.out /\ b.in = a.in /\ b.session = a.session
      /\ b.current_call_output = a.current_call_output /\ Untouched(a, b)
      /\ b.in_call = v /\ b.mode = a.mode /\ b.sidetone = a.sidetone
  BY <1>2, <1>3 DEF Adevs, Untouched
<1>5. SameRunning(a, b)
  BY <1>4 DEF SameRunning, Streams, OnCall
<1>6. Sound(b)
  BY <1>1, <1>4, <1>5, SettingKept
<1> QED  BY <1>3, <1>4, <1>5, <1>6 DEF Untouched

LEMMA ModeSet ==
    ASSUME NEW a, Sound(a), NEW m \in Modes
    PROVE  LET b == [a EXCEPT !.mode = m]
           IN  /\ Sound(b) /\ SameRunning(a, b) /\ b.out = a.out /\ b.in = a.in
               /\ b.session = a.session /\ b.current_call_output = a.current_call_output
               /\ b.in_call = a.in_call /\ b.mode = m /\ b.usecase = a.usecase
               /\ b.sidetone = a.sidetone
<1>1. PICK D : D = Running(a)
  OBVIOUS
<1>2. a \in Adevs(D)
  BY <1>1, SoundFields
<1>3. PICK b : b = [a EXCEPT !.mode = m]
  OBVIOUS
<1>4. /\ b \in Adevs(D) /\ b.out = a.out /\ b.in = a.in /\ b.session = a.session
      /\ b.current_call_output = a.current_call_output /\ b.in_call = a.in_call
      /\ b.mode = m /\ b.sidetone = a.sidetone /\ Untouched(a, b)
  BY <1>2, <1>3 DEF Adevs, Untouched
<1>5. SameRunning(a, b)
  BY <1>4 DEF SameRunning, Streams, OnCall
<1>6. Sound(b)
  BY <1>1, <1>4, <1>5, SettingKept
<1> QED  BY <1>3, <1>4, <1>5, <1>6 DEF Untouched

\* The primary output takes the calls along, or starts them.
CalledBy(a, fails) ==
  LET b == [a EXCEPT !.current_call_output = primary_output]
  IN  IF voice_is_call_state_active(a) THEN voice_update_devices_for_all_voice_usecases(b)
      ELSE IF a.mode = "IN_CALL" THEN update_calls([b EXCEPT !.in_call = TRUE], fails)
      ELSE a

\* The calls are still on o, which the primary output may have left.
Trailing(a, st, o) ==
  /\ a.in_call => /\ a.mode \in {"RINGTONE", "IN_CALL"}
                  /\ \A j \in OnCall(a) : /\ a.usecase[j].out_snd_device = o
                                          /\ a.usecase[j].in_snd_device # NoDevice
  /\ ~st => /\ OnCall(a) # {} => a.in_call
            /\ a.sidetone = IF OnCall(a) = {} THEN {} ELSE sidetone_path(o)

LEMMA CallsTrail ==
    ASSUME NEW a, NEW st, Tidy(a, st), NEW b, OnCall(b) = OnCall(a), b.usecase = a.usecase,
           b.sidetone = a.sidetone, b.in_call = a.in_call, b.mode = a.mode, NEW o, o = Home(a)
    PROVE  Trailing(b, st, o)
  BY DEF Tidy, Trailing, Tuned, AtHome

\* The calls that trailed behind are taken along.
LEMMA CallsCaughtUp ==
    ASSUME setup \in Setups, NEW a, Sound(a), NEW st, NEW o, Trailing(a, st, o),
           voice_is_call_state_active(a)
    PROVE  Tidy(SelectAll(a, ActiveCalls(a), FALSE), st)
<1>1. PICK D : D = Running(a)
  OBVIOUS
<1>2. /\ Good(a, D, D) /\ D \subseteq Used /\ Calls(D) = OnCall(a) /\ a \in Adevs(D)
  BY <1>1, SoundFields, RunningUsed
<1>3. ActiveCalls(a) = Calls(D) /\ OnCall(a) # {}
  BY <1>2, CallFacts, CallsActive
<1>4. PICK b : b = SelectAll(a, Calls(D), FALSE)
  OBVIOUS
<1>5. Frame(a, b)
  BY <1>2, <1>4, AllSelected
<1>6. CASE a.in_call
  <2>1. \A j \in OnCall(a) : /\ a.usecase[j].out_snd_device = o
                             /\ a.usecase[j].in_snd_device # NoDevice
    BY <1>6 DEF Trailing
  <2>2. Quiet(b) /\ (a.sidetone = sidetone_path(o) => Tuned(b))
    BY <1>2, <1>3, <1>4, <1>6, <2>1, CallsMoved
  <2>3. b.in_call /\ b.mode \in {"RINGTONE", "IN_CALL"}
    BY <1>5, <1>6 DEF Frame, Trailing
  <2>4. AtHome(b, OnCall(b))
    BY <2>2 DEF Quiet, AtHome
  <2>5. ~st => Tuned(b)
    BY <1>3, <2>2 DEF Trailing
  <2>6. Tidy(b, st)
    BY <2>3, <2>4, <2>5 DEF Tidy
  <2> QED  BY <1>3, <1>4, <2>6
<1>7. CASE ~a.in_call
  <2>1. st /\ ~b.in_call
    BY <1>3, <1>5, <1>7 DEF Trailing, Frame
  <2>2. Tidy(b, st)
    BY <2>1 DEF Tidy
  <2> QED  BY <1>3, <1>4, <2>2
<1> QED  BY <1>6, <1>7

LEMMA SoundCalled ==
    ASSUME setup \in Setups, NEW a, Sound(a), NEW fails
    PROVE  /\ Sound(CalledBy(a, fails)) /\ Streams(CalledBy(a, fails)) = Streams(a)
           /\ \A st, o : Trailing(a, st, o) => Tidy(CalledBy(a, fails), st)
<1>1. PICK b : b = [a EXCEPT !.current_call_output = primary_output]
  OBVIOUS
<1>2. /\ Sound(b) /\ SameRunning(a, b) /\ b.current_call_output = primary_output
      /\ b.in_call = a.in_call /\ b.mode = a.mode /\ b.usecase = a.usecase
      /\ b.sidetone = a.sidetone /\ b.session = a.session
  BY <1>1, OutputOfCalls
<1>3. PICK T : T = ActiveCalls(b)
  OBVIOUS
<1>4. PICK c : c = SelectAll(b, T, FALSE)
  OBVIOUS
<1>5. Sound(c) /\ Frame(b, c)
  BY <1>2, <1>4, SoundAllSelected
<1>6. c = voice_update_devices_for_all_voice_usecases(b)
  BY <1>3, <1>4 DEF SelectAll, list_for_each, select_devices,
                    voice_update_devices_for_all_voice_usecases
<1>7. Streams(c) = Streams(a)
  BY <1>2, <1>5 DEF Frame, Streams, SameRunning
<1>8. PICK d : d = [b EXCEPT !.in_call = TRUE]
  OBVIOUS
<1>9. /\ Sound(d) /\ Streams(d) = Streams(a) /\ CanStart(d)
      /\ d.in_call /\ d.mode = a.mode /\ d.sidetone = a.sidetone /\ OnCall(d) = OnCall(a)
  BY <1>2, <1>8, CallBegun DEF SameRunning, CanStart
<1>10. PICK e : e = update_calls(d, fails)
  OBVIOUS
<1>11. Sound(e) /\ Streams(e) = Streams(a) /\ Standing(d, e)
  BY <1>9, <1>10, SoundCalls
<1>12. PICK f : f = CalledBy(a, fails)
  OBVIOUS
<1>13. /\ f = c \/ f = e \/ f = a
       /\ f = IF voice_is_call_state_active(a) THEN c ELSE IF a.mode = "IN_CALL" THEN e ELSE a
  BY <1>1, <1>6, <1>8, <1>10, <1>12 DEF CalledBy
<1>14. ASSUME NEW st, NEW o, Trailing(a, st, o) PROVE Tidy(f, st)
  <2>1. voice_is_call_state_active(a) <=> OnCall(a) # {}
    BY SoundFields, CallsActive
  <2>2. CASE voice_is_call_state_active(a)
    <3>1. Trailing(b, st, o) /\ voice_is_call_state_active(b)
      BY <1>2, <1>14, <2>2 DEF Trailing, SameRunning, voice_is_call_state_active
    <3>2. Tidy(c, st)
      BY <1>2, <1>3, <1>4, <3>1, CallsCaughtUp
    <3> QED  BY <1>13, <2>2, <3>2
  <2>3. CASE ~voice_is_call_state_active(a) /\ a.mode = "IN_CALL"
    <3>1. Tidy(d, st)
      BY <1>9, <1>14, <2>1, <2>3 DEF Trailing, Tidy, Tuned, AtHome
    <3>2. Tidy(e, st)
      BY <1>11, <3>1, TidyKept
    <3> QED  BY <1>13, <2>3, <3>2
  <2>4. CASE ~voice_is_call_state_active(a) /\ a.mode # "IN_CALL"
    <3>1. Tidy(a, st)
      BY <1>14, <2>1, <2>4 DEF Trailing, Tidy, Tuned, AtHome
    <3> QED  BY <1>13, <2>4, <3>1
  <2> QED  BY <2>2, <2>3, <2>4
<1> QED  BY <1>5, <1>7, <1>11, <1>12, <1>13, <1>14

LEMMA OutSet ==
    ASSUME setup \in Setups, NEW a, Sound(a), NEW o \in setup.outputs,
           NEW devices \in setup.out_devices, NEW fails
    PROVE  LET x == [a EXCEPT !.out[o].devices = devices]
               y == IF ~output_drives_call(o) THEN x ELSE CalledBy(x, fails)
               z == IF x.out[o].standby THEN y ELSE select_devices(y, o)
           IN  Sound(z) /\ \A st : Tidy(a, st) => Tidy(z, st)
<1>1. PICK x : x = [a EXCEPT !.out[o].devices = devices]
  OBVIOUS
<1>2. /\ Sound(x) /\ SameRunning(a, x) /\ x.in_call = a.in_call /\ x.mode = a.mode
      /\ x.usecase = a.usecase /\ x.sidetone = a.sidetone
      /\ o # primary_output => Standing(a, x)
  BY <1>1, OutRouted
<1>3. PICK y : y = IF ~output_drives_call(o) THEN x ELSE CalledBy(x, fails)
  OBVIOUS
<1>4. /\ Sound(y) /\ Streams(y) = Streams(x)
      /\ \A st : Tidy(a, st) => Tidy(y, st)
  <2>1. CASE o # primary_output
    BY <1>2, <1>3, <2>1, TidyKept DEF output_drives_call
  <2>2. CASE o = primary_output
    <3>1. y = CalledBy(x, fails)
      BY <1>3, <2>2 DEF output_drives_call
    <3>2. ASSUME NEW st, Tidy(a, st) PROVE Tidy(y, st)
      <4>1. PICK h : h = Home(a)
        OBVIOUS
      <4>2. Trailing(x, st, h)
        BY <1>2, <3>2, <4>1, CallsTrail DEF SameRunning
      <4> QED  BY <1>2, <3>1, <4>2, SoundCalled
    <3> QED  BY <1>2, <3>1, <3>2, SoundCalled
  <2> QED  BY <2>1, <2>2
<1>5. CASE x.out[o].standby
  BY <1>1, <1>3, <1>4, <1>5
<1>6. CASE ~x.out[o].standby
  <2>1. o \in Running(y)
    BY <1>4, <1>6 DEF Streams, Running
  <2>2. PICK z : z = select_devices_with_force_switch(y, o, FALSE)
    OBVIOUS
  <2>3. Sound(z) /\ \A st : Tidy(a, st) => Tidy(z, st)
    <3>1. Sound(z) /\ Standing(y, z)
      BY <1>4, <2>1, <2>2, SoundSelected
    <3> QED  BY <1>4, <3>1, TidyKept
  <2> QED  BY <1>1, <1>3, <1>6, <2>2, <2>3 DEF select_devices
<1> QED  BY <1>5, <1>6

LEMMA InSet ==
    ASSUME setup \in Setups, NEW a, Sound(a), NEW i \in setup.inputs,
           NEW source \in setup.sources, NEW device \in setup.in_devices
    PROVE  LET x == [a EXCEPT !.in[i].source = source, !.in[i].device = device]
           IN  /\ Sound(x) /\ Standing(a, x)
               /\ ~x.in[i].standby => /\ Sound(select_devices(x, i))
                                      /\ Standing(a, select_devices(x, i))
<1>1. PICK x : x = [a EXCEPT !.in[i].source = source, !.in[i].device = device]
  OBVIOUS
<1>2. Sound(x) /\ Standing(a, x)
  BY <1>1, InRouted
<1>3. ASSUME ~x.in[i].standby
      PROVE  Sound(select_devices(x, i)) /\ Standing(a, select_devices(x, i))
  <2>1. i \in Running(x)
    BY <1>3 DEF Streams, Running
  <2>2. PICK z : z = select_devices_with_force_switch(x, i, FALSE)
    OBVIOUS
  <2>3. Sound(z) /\ Standing(a, z)
    BY <1>2, <2>1, <2>2, SoundSelected, StandingFacts
  <2> QED  BY <2>2, <2>3 DEF select_devices
<1> QED  BY <1>1, <1>2, <1>3

\* The calls end.
LEMMA CallsEnded ==
    ASSUME setup \in Setups, NEW a, Sound(a)
    PROVE  LET b == voice_stop_call(a)
           IN  /\ Sound(b) /\ ~b.in_call /\ b.mode = a.mode
               /\ \A o : Level(a, o) => Level(b, o)
               /\ a.mode = "NORMAL" => OnCall(b) = {}
<1>1. PICK b : b = [a EXCEPT !.in_call = FALSE]
  OBVIOUS
<1>2. /\ Sound(b) /\ b.session = a.session /\ SameRunning(a, b) /\ ~b.in_call /\ b.mode = a.mode
      /\ b.usecase = a.usecase /\ b.sidetone = a.sidetone
  BY <1>1, CallBegun
<1>3. PICK f : f = [s \in DOMAIN a.session |-> [a.session[s] EXCEPT !.new = "INACTIVE"]]
  OBVIOUS
<1>4. /\ f \in [ToSet(setup.sessions) -> Sessions]
      /\ \A s \in ToSet(setup.sessions) :
            f[s].current = b.session[s].current /\ f[s].new = "INACTIVE"
  <2>1. b.session \in [ToSet(setup.sessions) -> Sessions]
    BY <1>2, SoundFields, AdevFields
  <2> QED  BY <1>2, <1>3, <2>1 DEF Sessions, CallStates
<1>5. PICK c : c = [b EXCEPT !.session = f]
  OBVIOUS
<1>6. /\ Sound(c) /\ c.session = f /\ SameRunning(b, c) /\ ~c.in_call /\ c.mode = a.mode
      /\ c.usecase = a.usecase /\ c.sidetone = a.sidetone
  BY <1>2, <1>4, <1>5, SessionsWanted
<1>7. CanStart(c)
  BY <1>4, <1>6 DEF CanStart
<1>8. PICK fails : fails = {}
  OBVIOUS
<1>9. PICK d : d = update_calls(c, fails)
  OBVIOUS
<1>10. /\ Sound(d) /\ CallsOnly(c, d) /\ OnCall(d) = {}
       /\ \A o : Level(c, o) => Level(d, o)
  <2>1. \A s \in ToSet(setup.sessions) : c.session[s].new = "INACTIVE"
    BY <1>4, <1>6
  <2> QED  BY <1>6, <1>7, <1>9, <2>1, SoundCalls
<1>11. PICK e : e = voice_stop_call(a)
  OBVIOUS
<1>12. e = IF a.mode = "NORMAL" THEN d ELSE b
  BY <1>1, <1>3, <1>5, <1>8, <1>9, <1>11 DEF voice_stop_call
<1>13. \A o : Level(a, o) => Level(b, o) /\ Level(c, o)
  BY <1>2, <1>6 DEF Level, SameRunning
<1>14. CASE a.mode = "NORMAL"
  <2>1. ~d.in_call /\ d.mode = a.mode
    BY <1>6, <1>10 DEF CallsOnly
  <2> QED  BY <1>10, <1>11, <1>12, <1>13, <1>14, <2>1
<1>15. CASE a.mode # "NORMAL"
  BY <1>2, <1>11, <1>12, <1>13, <1>15
<1> QED  BY <1>14, <1>15

\* The end of the call mode, as adev_set_mode has it.
CallModeLeft(a) ==
  LET stopped == [voice_stop_call(a) EXCEPT !.current_call_output = "NULL"]
  IN  list_for_each(stopped, ActiveInputs(stopped), select_with_force)

LEMMA ModeLeft ==
    ASSUME setup \in Setups, NEW a, Sound(a)
    PROVE  LET left == CallModeLeft(a)
           IN  /\ Sound(left) /\ left.mode = a.mode
               /\ \A st, o : /\ a.mode \in {"NORMAL", "IN_COMMUNICATION"}
                             /\ ~st => Level(a, o)
                             /\ a.mode = "IN_COMMUNICATION" /\ voice_is_call_state_active(left)
                                   => st
                             => Tidy(left, st)
<1>1. PICK b : b = voice_stop_call(a)
  OBVIOUS
<1>2. PICK null : null = "NULL"
  OBVIOUS
<1>3. PICK c : c = [b EXCEPT !.current_call_output = null]
  OBVIOUS
<1>4. /\ Sound(c) /\ ~c.in_call /\ c.mode = a.mode /\ \A o : Level(a, o) => Level(c, o)
      /\ a.mode = "NORMAL" => OnCall(c) = {}
  <2>1. /\ Sound(b) /\ ~b.in_call /\ b.mode = a.mode /\ \A o : Level(a, o) => Level(b, o)
        /\ a.mode = "NORMAL" => OnCall(b) = {}
    BY <1>1, CallsEnded
  <2>2. /\ Sound(c) /\ SameRunning(b, c) /\ c.in_call = b.in_call /\ c.usecase = b.usecase
        /\ c.sidetone = b.sidetone /\ c.mode = b.mode
    BY <1>2, <1>3, <2>1, OutputOfCalls
  <2>3. \A o : Level(b, o) => Level(c, o)
    BY <2>2 DEF Level, SameRunning
  <2> QED  BY <2>1, <2>2, <2>3 DEF SameRunning
<1>5. PICK T : T = ActiveInputs(c)
  OBVIOUS
<1>6. PICK d : d = SelectAll(c, T, TRUE)
  OBVIOUS
<1>7. Sound(d) /\ Frame(c, d) /\ Standing(c, d)
  BY <1>4, <1>6, SoundAllSelected
<1>8. d = list_for_each(c, T, select_with_force)
  BY <1>6 DEF SelectAll, list_for_each, select_with_force
<1>9. ASSUME NEW st, NEW o, a.mode \in {"NORMAL", "IN_COMMUNICATION"}, ~st => Level(a, o),
             a.mode = "IN_COMMUNICATION" /\ voice_is_call_state_active(d) => st
      PROVE  Tidy(d, st)
  <2>1. ~d.in_call /\ OnCall(d) = OnCall(c)
    BY <1>4, <1>7, SameCalls DEF Frame
  <2>2. voice_is_call_state_active(d) <=> OnCall(d) # {}
    BY <1>7, SoundFields, CallsActive
  <2>3. ASSUME ~st PROVE OnCall(d) = {} /\ d.sidetone = {}
    <3>1. OnCall(d) = {}
      BY <1>4, <1>9, <2>1, <2>2, <2>3
    <3>2. Level(c, o)
      BY <1>4, <1>9, <2>3
    <3>3. OnCall(c) = {} /\ c.sidetone = {}
      BY <2>1, <3>1, <3>2 DEF Level
    <3>4. Tuned(d)
      BY <1>7, <3>3 DEF Standing, Steady, Quiet, Tuned
    <3> QED  BY <3>1, <3>4 DEF Tuned
  <2> QED  BY <2>1, <2>3, Rested
<1>10. d.mode = a.mode
  BY <1>4, <1>7 DEF Frame
<1> QED  BY <1>1, <1>2, <1>3, <1>5, <1>7, <1>8, <1>9, <1>10 DEF CallModeLeft

-----------------------------------------------------------------------------
(* Opening the HAL. *)

LEMMA SoundOpened ==
    ASSUME setup \in Setups, NEW devices \in [setup.outputs -> OutputSets]
    PROVE  /\ Sound(Opened(devices)) /\ Running(Opened(devices)) = {}
           /\ \A st : Tidy(Opened(devices), st)
<1>1. PICK b : b = Opened(devices)
  OBVIOUS
<1>2. PICK E : E = {}
  OBVIOUS
<1>3. /\ b.usecase_list = <<>> /\ b.usecase = <<>>
      /\ b.snd_dev_ref_cnt = [d \in SndDevices |-> 0] /\ b.paths = {}
      /\ \A o \in setup.outputs : b.out[o].standby
      /\ \A i \in setup.inputs : b.in[i].standby
      /\ \A s \in ToSet(setup.sessions) : b.session[s].current = "INACTIVE"
  BY <1>1 DEF Opened
<1>4. b \in Adevs(E)
  <2>1. b.usecase_list \in Orders(E)
    BY <1>2, <1>3 DEF Orders
  <2>2. b.usecase \in Tables(E)
    <3>1. DOMAIN b.usecase = E
      BY <1>2, <1>3
    <3>2. b.usecase = [i \in E |-> b.usecase[i]]
      BY <1>2, <1>3
    <3>3. b.usecase \in [E -> UseCaseRecords]
      BY <1>2, <3>2
    <3> QED  BY <1>2, <3>3 DEF Tables
  <2>3. /\ b.snd_dev_ref_cnt \in [SndDevices -> Nat] /\ b.paths \in SUBSET MixerPaths
        /\ b.sidetone \in SUBSET {"sidetone-handset", "sidetone-headphones"}
        /\ b.bit_width \in {16, 24} /\ b.mode \in Modes /\ b.in_call \in BOOLEAN
        /\ b.current_call_output \in {"NULL", primary_output}
    BY <1>1 DEF Opened, Modes
  <2>4. b.out \in [setup.outputs -> Outputs]
    BY <1>1 DEF Opened, Outputs
  <2>5. b.in \in [setup.inputs -> Inputs]
    BY <1>1 DEF Opened, Inputs, InputDevices
  <2>6. b.session \in [ToSet(setup.sessions) -> Sessions]
    BY <1>1 DEF Opened, Sessions, CallStates
  <2>7. b = [usecase_list |-> b.usecase_list, usecase |-> b.usecase,
             snd_dev_ref_cnt |-> b.snd_dev_ref_cnt, paths |-> b.paths,
             sidetone |-> b.sidetone, bit_width |-> b.bit_width, out |-> b.out,
             in |-> b.in, mode |-> b.mode, in_call |-> b.in_call,
             current_call_output |-> b.current_call_output, session |-> b.session]
    BY <1>1 DEF Opened
  <2> QED  BY <2>1, <2>2, <2>3, <2>4, <2>5, <2>6, <2>7 DEF Adevs
<1>5. Good(b, E, E)
  <2>1. PICK r : r = [k \in Keys(E) |-> NoDevice]
    OBVIOUS
  <2>2. \A k : k \notin Keys(E)
    BY <1>2 DEF Keys
  <2>3. r \in Holdings(Keys(E)) /\ DOMAIN r = Keys(E)
    BY <2>1 DEF Holdings
  <2>4. Counted(b.snd_dev_ref_cnt, r)
    <3>1. ASSUME NEW d \in SndDevices PROVE Cardinality({k \in DOMAIN r : r[k] = d}) = 0
      <4>1. {k \in DOMAIN r : r[k] = d} = {}
        BY <2>2, <2>3
      <4> QED  BY <4>1, FS_EmptySet
    <3>2. \A d \in SndDevices : b.snd_dev_ref_cnt[d] = 0
      BY <1>3
    <3>3. ASSUME NEW d \in SndDevices
          PROVE  b.snd_dev_ref_cnt[d] = Cardinality({k \in DOMAIN r : r[k] = d})
            + IF d \in {"SPEAKER", "BT_SCO"} /\ b.snd_dev_ref_cnt["SPEAKER_AND_BT_SCO"] > 0
              THEN 1 ELSE 0
      <4>1. "SPEAKER_AND_BT_SCO" \in SndDevices
        BY DEF SndDevices, OutSndDevices
      <4> QED  BY <3>1, <3>2, <4>1
    <3> QED  BY <3>3 DEF Counted
  <2>5. Held(b, E, r, E)
    BY <1>2, <1>3, <1>4, <2>3, <2>4 DEF Held
  <2>6. Sits(r, b.usecase, E) /\ Seating(b.usecase, E, E) /\ Sharing(b.usecase, E)
    BY <1>2 DEF Sits, SitsOn, Seating, Sharing
  <2> QED  BY <2>5, <2>6 DEF Good, GoodWith
<1>6. Running(b) = E
  BY <1>2, <1>3 DEF Running, Streams, OnCall
<1>7. Sound(b)
  <2>1. Streams(b) \cup OnCall(b) = E
    BY <1>6 DEF Running
  <2> QED  BY <1>5, <2>1 DEF Sound, Serves
<1>8. \A st : Tidy(b, st)
  <2>1. ~b.in_call /\ b.sidetone = {}
    BY <1>1 DEF Opened
  <2>2. OnCall(b) = {}
    BY <1>3 DEF OnCall
  <2> QED  BY <2>1, <2>2, Rested
<1> QED  BY <1>1, <1>2, <1>6, <1>7, <1>8

LEMMA StateAnnounced ==
    ASSUME setup \in Setups, NEW a, Sound(a), NEW s \in ToSet(setup.sessions),
           NEW state \in setup.call_states, NEW fails
    PROVE  LET x == [a EXCEPT !.session[s].new = state]
               acts == voice_is_call_state_active(x) \/ (x.in_call /\ x.mode = "IN_CALL")
               crashes == /\ x.current_call_output = "NULL"
                          /\ \E t \in DOMAIN x.session : x.session[t].new = "ACTIVE"
                                                         /\ x.session[t].current = "INACTIVE"
               opened == Opened([o \in setup.outputs |-> x.out[o].devices])
               updated == update_calls(x, fails)
           IN  /\ Sound(x) /\ Standing(a, x) /\ Sound(opened) /\ \A st : Tidy(opened, st)
               /\ ~crashes => Sound(updated)
               /\ ~crashes /\ acts => \A st : Tidy(x, st) => Tidy(updated, st)
<1>1. PICK D : D = Running(a)
  OBVIOUS
<1>2. /\ a \in Adevs(D) /\ a.session \in [ToSet(setup.sessions) -> Sessions]
      /\ state \in CallStates
  BY <1>1, SoundFields, AdevFields, SetupsAssumption DEF CallStates
<1>3. PICK x : x = [a EXCEPT !.session[s].new = state]
  OBVIOUS
<1>4. PICK f : f = [a.session EXCEPT ![s].new = state]
  OBVIOUS
<1>5. /\ f \in [ToSet(setup.sessions) -> Sessions]
      /\ \A t \in ToSet(setup.sessions) : f[t].current = a.session[t].current
  BY <1>2, <1>4 DEF Sessions
<1>6. x = [a EXCEPT !.session = f]
  BY <1>2, <1>3, <1>4 DEF Adevs
<1>7. Sound(x) /\ x.session = f /\ Standing(a, x)
  BY <1>5, <1>6, SessionsWanted
<1>8. PICK E : E = Running(x)
  OBVIOUS
<1>9. /\ x.out \in [setup.outputs -> Outputs]
      /\ x.current_call_output \in {"NULL", primary_output}
      /\ x.session \in [ToSet(setup.sessions) -> Sessions]
  BY <1>7, <1>8, SoundFields, AdevFields
<1>10. /\ Sound(Opened([o \in setup.outputs |-> x.out[o].devices]))
       /\ \A st : Tidy(Opened([o \in setup.outputs |-> x.out[o].devices]), st)
  <2>1. PICK devices : devices = [o \in setup.outputs |-> x.out[o].devices]
    OBVIOUS
  <2>2. devices \in [setup.outputs -> OutputSets]
    BY <1>9, <2>1 DEF Outputs
  <2> QED  BY <2>1, <2>2, SoundOpened
<1>11. ASSUME ~ (/\ x.current_call_output = "NULL"
                 /\ \E t \in DOMAIN x.session : x.session[t].new = "ACTIVE"
                                                /\ x.session[t].current = "INACTIVE")
       PROVE  /\ Sound(update_calls(x, fails))
              /\ voice_is_call_state_active(x) \/ (x.in_call /\ x.mode = "IN_CALL")
                    => \A st : Tidy(x, st) => Tidy(update_calls(x, fails), st)
  <2>1. CanStart(x)
    BY <1>9, <1>11 DEF CanStart
  <2>2. PICK y : y = update_calls(x, fails)
    OBVIOUS
  <2>3. Sound(y) /\ CallsOnly(x, y) /\ (x.in_call => Standing(x, y))
    BY <1>7, <2>1, <2>2, SoundCalls
  <2>4. ASSUME voice_is_call_state_active(x) \/ (x.in_call /\ x.mode = "IN_CALL"),
               NEW st, Tidy(x, st)
        PROVE  Tidy(y, st)
    <3>1. CASE x.in_call
      BY <2>3, <2>4, <3>1, TidyKept
    <3>2. CASE ~x.in_call
      <4>1. OnCall(x) # {}
        BY <1>7, <2>4, <3>2, SoundFields, CallsActive
      <4>2. st
        BY <2>4, <3>2, <4>1 DEF Tidy
      <4>3. ~y.in_call
        BY <2>3, <3>2 DEF CallsOnly
      <4> QED  BY <4>2, <4>3, Rested
    <3> QED  BY <3>1, <3>2
  <2> QED  BY <2>2, <2>3, <2>4
<1> QED  BY <1>3, <1>7, <1>10, <1>11

-----------------------------------------------------------------------------
(* The invariant. *)

IInv == setup \in Setups /\ Sound(adev) /\ Tidy(adev, strayed)

LEMMA Begins == Init => IInv
<1> SUFFICES ASSUME Init PROVE IInv
  OBVIOUS
<1>1. setup \in Setups
  BY DEF Init
<1>2. PICK devices \in [setup.outputs -> setup.out_devices] : adev = Opened(devices)
  BY DEF Init
<1>3. devices \in [setup.outputs -> OutputSets]
  BY <1>1, SetupsAssumption
<1>4. Sound(adev) /\ Tidy(adev, strayed)
  <2>1. PICK b : b = Opened(devices)
    OBVIOUS
  <2>2. Sound(b) /\ \A st : Tidy(b, st)
    BY <1>1, <1>3, <2>1, SoundOpened
  <2> QED  BY <1>2, <2>1, <2>2
<1> QED  BY <1>1, <1>4 DEF IInv

\* setup does not change, so what is sound of the next adev stays sound.
LEMMA SetupStays ==
    ASSUME Sound(adev'), setup' = setup
    PROVE  Sound(adev)'
  BY DEF Sound, Serves, Good, GoodWith, Held, Adevs, OnCall, Streams, Outputs, Inputs, Sessions

LEMMA SetupStaysTidy ==
    ASSUME Tidy(adev', strayed'), setup' = setup
    PROVE  Tidy(adev, strayed)'
  BY DEF Tidy, OnCall, AtHome, Tuned, Home

LEMMA TidyLater ==
    ASSUME NEW a, NEW st, Tidy(a, st), NEW st2, st => st2
    PROVE  Tidy(a, st2)
  BY DEF Tidy

LEMMA Steps ==
    ASSUME IInv, Next
    PROVE  Sound(adev') /\ Tidy(adev', strayed')
<1>1. PICK a, st : a = adev /\ st = strayed
  OBVIOUS
<1>2. setup \in Setups /\ Sound(a) /\ Tidy(a, st)
  BY <1>1 DEF IInv
<1>3. PICK b : b = adev'
  OBVIOUS
<1> DEFINE strays == a.in_call /\ b.mode = "IN_COMMUNICATION" /\ voice_is_call_state_active(b)
<1>4. PICK st2 : st2 = strayed'
  OBVIOUS
<1>5. (st => st2) /\ (strays => st2)
  BY <1>1, <1>3, <1>4 DEF Next
<1> DEFINE Holding == Sound(b) /\ Tidy(b, st2)
<1>6. Sound(b) /\ Standing(a, b) => Holding
  BY <1>2, <1>5, TidyKept
<1>7. ASSUME NEW o \in setup.outputs, NEW opened \in BOOLEAN, out_write(o, opened)
      PROVE  Holding
  <2>1. Sound(b) /\ Standing(a, b)
    BY <1>1, <1>2, <1>3, <1>7, OutWritten DEF out_write
  <2> QED  BY <1>6, <2>1
<1>8. ASSUME NEW o \in setup.outputs, out_standby(o) PROVE Holding
  <2>1. Sound(b) /\ Standing(a, b)
    BY <1>1, <1>2, <1>3, <1>8, OutStopped DEF out_standby
  <2> QED  BY <1>6, <2>1
<1>9. ASSUME NEW o \in setup.outputs, NEW devices \in setup.out_devices, NEW fails,
             out_set_parameters(o, devices, fails)
      PROVE  Holding
  <2>1. PICK x : x = [a EXCEPT !.out[o].devices = devices]
    OBVIOUS
  <2>2. PICK y : y = IF ~output_drives_call(o) THEN x ELSE CalledBy(x, fails)
    OBVIOUS
  <2>3. PICK z : z = IF x.out[o].standby THEN y ELSE select_devices(y, o)
    OBVIOUS
  <2>4. Sound(z) /\ Tidy(z, st)
    BY <1>2, <2>1, <2>2, <2>3, OutSet
  <2>5. b = z
    BY <1>1, <1>3, <1>9, <2>1, <2>2, <2>3
       DEF out_set_parameters, CalledBy, output_drives_call
  <2> QED  BY <1>5, <2>4, <2>5, TidyLater
<1>10. ASSUME NEW i \in setup.inputs, NEW opened \in BOOLEAN, in_read(i, opened)
      PROVE  Holding
  <2>1. Sound(b) /\ Standing(a, b)
    BY <1>1, <1>2, <1>3, <1>10, InRead DEF in_read
  <2> QED  BY <1>6, <2>1
<1>11. ASSUME NEW i \in setup.inputs, in_standby(i) PROVE Holding
  <2>1. Sound(b) /\ Standing(a, b)
    BY <1>1, <1>2, <1>3, <1>11, InStopped DEF in_standby
  <2> QED  BY <1>6, <2>1
<1>12. ASSUME NEW i \in setup.inputs, NEW source \in setup.sources,
             NEW device \in setup.in_devices, in_set_parameters(i, source, device)
      PROVE  Holding
  <2>1. Sound(b) /\ Standing(a, b)
    BY <1>1, <1>2, <1>3, <1>12, InSet DEF in_set_parameters
  <2> QED  BY <1>6, <2>1
<1>13. ASSUME NEW mode \in setup.modes, adev_set_mode(mode) PROVE Holding
  <2>1. mode \in Modes
    BY <1>2, SetupsAssumption DEF Modes
  <2>2. PICK x : x = [a EXCEPT !.mode = mode]
    OBVIOUS
  <2>3. /\ Sound(x) /\ SameRunning(a, x) /\ x.in_call = a.in_call /\ x.mode = mode
        /\ x.usecase = a.usecase /\ x.sidetone = a.sidetone /\ x.out = a.out
    BY <1>2, <2>1, <2>2, ModeSet
  <2>4. PICK left : left = CallModeLeft(x)
    OBVIOUS
  <2>5. b = IF mode \in {"NORMAL", "IN_COMMUNICATION"} /\ a.in_call THEN left ELSE x
    BY <1>1, <1>3, <1>13, <2>2, <2>4 DEF adev_set_mode, CallModeLeft
  <2>6. CASE mode \in {"NORMAL", "IN_COMMUNICATION"} /\ a.in_call
    <3>1. PICK o : o = Home(a)
      OBVIOUS
    <3>2. ~st2 => Level(x, o)
      <4>1. AtHome(a, OnCall(a)) /\ (~st2 => Tuned(a))
        BY <1>2, <1>5, <2>6 DEF Tidy
      <4> QED  BY <2>3, <3>1, <4>1 DEF AtHome, Tuned, Level, SameRunning
    <3>3. Sound(left)
      BY <1>2, <2>3, <2>4, ModeLeft
    <3>4. x.mode = "IN_COMMUNICATION" /\ voice_is_call_state_active(left) => st2
      <4>1. left.mode = x.mode
        BY <1>2, <2>3, <2>4, ModeLeft
      <4> QED  BY <1>5, <2>5, <2>6, <4>1
    <3>5. Tidy(left, st2)
      <4>1. x.mode \in {"NORMAL", "IN_COMMUNICATION"}
        BY <2>3, <2>6
      <4>2. \A t, h : /\ x.mode \in {"NORMAL", "IN_COMMUNICATION"} /\ (~t => Level(x, h))
                      /\ x.mode = "IN_COMMUNICATION" /\ voice_is_call_state_active(left) => t
                      => Tidy(left, t)
        BY <1>2, <2>3, <2>4, ModeLeft
      <4>3. \A h : (~st2 => Level(x, h)) => Tidy(left, st2)
        BY <3>4, <4>1, <4>2
      <4> QED  BY <3>2, <4>3
    <3> QED  BY <2>5, <2>6, <3>3, <3>5
  <2>7. CASE ~ (mode \in {"NORMAL", "IN_COMMUNICATION"} /\ a.in_call)
    <3>1. Home(x) = Home(a)
      BY <2>3, SameHome
    <3>2. mode \in {"NORMAL", "IN_COMMUNICATION", "RINGTONE", "IN_CALL"}
      BY <2>1 DEF Modes
    <3>3. Tidy(x, st)
      BY <1>2, <2>3, <2>7, <3>1, <3>2 DEF Tidy, AtHome, Tuned, SameRunning
    <3> QED  BY <1>5, <2>3, <2>5, <2>7, <3>3, TidyLater
  <2> QED  BY <2>6, <2>7
<1>14. ASSUME NEW s \in ToSet(setup.sessions), NEW state \in setup.call_states, NEW fails,
              update_call_states(s, state, fails)
       PROVE  Holding
  <2>1. PICK x : x = [a EXCEPT !.session[s].new = state]
    OBVIOUS
  <2>2. PICK opened : opened = Opened([o \in setup.outputs |-> x.out[o].devices])
    OBVIOUS
  <2>3. PICK updated : updated = update_calls(x, fails)
    OBVIOUS
  <2> DEFINE acts == voice_is_call_state_active(x) \/ (x.in_call /\ x.mode = "IN_CALL")
  <2> DEFINE crashes == /\ x.current_call_output = "NULL"
                        /\ \E t \in DOMAIN x.session : x.session[t].new = "ACTIVE"
                                                       /\ x.session[t].current = "INACTIVE"
  <2>4. /\ Sound(x) /\ Standing(a, x) /\ Sound(opened) /\ \A t : Tidy(opened, t)
    BY <1>2, <2>1, <2>2, StateAnnounced
  <2>5. ~crashes => Sound(updated)
    BY <1>2, <2>1, <2>3, StateAnnounced
  <2>6. ~crashes /\ acts => \A t : Tidy(x, t) => Tidy(updated, t)
    BY <1>2, <2>1, <2>3, StateAnnounced
  <2>7. Tidy(x, st2)
    BY <1>2, <1>5, <2>4, TidyKept
  <2>8. b = CASE ~acts -> x [] acts /\ crashes -> opened [] acts /\ ~crashes -> updated
    BY <1>1, <1>3, <1>14, <2>1, <2>2, <2>3 DEF update_call_states
  <2> HIDE DEF acts, crashes
  <2> QED  BY <2>4, <2>5, <2>6, <2>7, <2>8
<1>15. CASE Output
  BY <1>3, <1>4, <1>7, <1>8, <1>9, <1>15 DEF Output
<1>16. CASE Input
  BY <1>3, <1>4, <1>10, <1>11, <1>12, <1>16 DEF Input
<1>17. CASE Device
  BY <1>3, <1>4, <1>13, <1>14, <1>17 DEF Device
<1> QED  BY <1>3, <1>4, <1>15, <1>16, <1>17 DEF Next

LEMMA IInvStays == IInv /\ [Next]_vars => IInv'
<1> SUFFICES ASSUME IInv, [Next]_vars PROVE IInv'
  OBVIOUS
<1>1. CASE Next
  <2>1. setup' = setup /\ Sound(adev') /\ Tidy(adev', strayed')
    BY <1>1, Steps DEF Next
  <2>2. Sound(adev)' /\ Tidy(adev, strayed)'
    BY <2>1, SetupStays, SetupStaysTidy
  <2> QED  BY <2>1, <2>2 DEF IInv
<1>2. CASE UNCHANGED vars
  <2>1. setup' = setup /\ Sound(adev') /\ Tidy(adev', strayed')
    BY <1>2 DEF IInv, vars
  <2>2. Sound(adev)' /\ Tidy(adev, strayed)'
    BY <2>1, SetupStays, SetupStaysTidy
  <2> QED  BY <2>1, <2>2 DEF IInv
<1> QED  BY <1>1, <1>2

LEMMA AlwaysSound == Spec => []IInv
  BY Begins, IInvStays, PTL DEF Spec

-----------------------------------------------------------------------------
(* What is sound is consistent. *)

LEMMA OnePerElement ==
    ASSUME NEW S, NEW T, NEW f \in [S -> T],
           \A x, y \in S : f[x] = f[y] => x = y, \A t \in T : \E x \in S : f[x] = t
    PROVE  ExistsBijection(S, T)
<1>1. f \in Injection(S, T) /\ f \in Surjection(S, T)
  BY DEF Injection, IsInjective, Surjection
<1> QED  BY <1>1 DEF ExistsBijection, Bijection

\* A use case is on a device by one of its sides.
LEMMA UsersCounted ==
    ASSUME NEW D, D \subseteq Ids, NEW f \in Tables(D), NEW r \in Holdings(Keys(D)),
           Sits(r, f, D), NEW d \in SndDevices
    PROVE  Cardinality({u \in Range(f) : d \in {u.out_snd_device, u.in_snd_device}})
             = Cardinality({k \in DOMAIN r : r[k] = d})
<1> DEFINE U == {u \in Range(f) : d \in {u.out_snd_device, u.in_snd_device}}
<1> DEFINE K == {k \in Keys(D) : r[k] = d}
<1> DEFINE side(u) == IF u.out_snd_device = d THEN "out_snd_device" ELSE "in_snd_device"
<1> DEFINE g == [u \in U |-> Key(u.id, side(u))]
<1>1. /\ DOMAIN f = D /\ DOMAIN r = Keys(D)
      /\ \A i \in D : f[i] \in UseCaseRecords /\ f[i].id = i
  BY DEF Tables, Holdings
<1>2. \A i \in D : r[Key(i, "out_snd_device")] = f[i].out_snd_device
                   /\ r[Key(i, "in_snd_device")] = f[i].in_snd_device
  <2>1. \A h : h.out_snd_device = h["out_snd_device"] /\ h.in_snd_device = h["in_snd_device"]
    OBVIOUS
  <2> QED  BY <2>1 DEF Sits, SitsOn
<1>3. \A u : u \in U <=> \E i \in D : u = f[i] /\ d \in {f[i].out_snd_device, f[i].in_snd_device}
  BY <1>1 DEF Range
<1>4. \A u \in U : u.id \in D /\ u = f[u.id] /\ d \in {u.out_snd_device, u.in_snd_device}
  BY <1>1, <1>3
<1>5. \A u \in U : side(u) \in Sides /\ (side(u) = "out_snd_device" <=> u.out_snd_device = d)
                   /\ (side(u) = "in_snd_device" => u.in_snd_device = d)
  BY <1>4, SideNames
<1> HIDE DEF side, U
<1>6. \A u \in U : Key(u.id, side(u)) \in K
  <2> SUFFICES ASSUME NEW u \in U PROVE Key(u.id, side(u)) \in K
    OBVIOUS
  <2>1. PICK i : i = u.id
    OBVIOUS
  <2>2. i \in D /\ u = f[i]
    BY <1>4, <2>1
  <2>3. Key(i, side(u)) \in Keys(D)
    BY <1>5, <2>2, KeyOf
  <2>4. side(u) = "out_snd_device" \/ side(u) = "in_snd_device"
    BY <1>5, SideNames DEF Sides
  <2>5. r[Key(i, side(u))] = d
    <3>1. CASE side(u) = "out_snd_device"
      BY <1>2, <1>5, <2>2, <3>1
    <3>2. CASE side(u) = "in_snd_device"
      BY <1>2, <1>5, <2>2, <3>2
    <3> QED  BY <2>4, <3>1, <3>2
  <2> QED  BY <2>1, <2>3, <2>5
<1>7. \A u, v \in U : g[u] = g[v] => u = v
  <2> SUFFICES ASSUME NEW u \in U, NEW v \in U, g[u] = g[v] PROVE u = v
    OBVIOUS
  <2>1. Key(u.id, side(u)) = Key(v.id, side(v))
    OBVIOUS
  <2>2. Key(u.id, side(u))[1] = u.id /\ Key(v.id, side(v))[1] = v.id
    BY <1>4, <1>5, KeyOf
  <2>3. u.id = v.id
    BY <2>1, <2>2
  <2> QED  BY <1>4, <2>3
<1>8. \A k \in K : \E u \in U : g[u] = k
  <2> SUFFICES ASSUME NEW k \in K PROVE \E u \in U : g[u] = k
    OBVIOUS
  <2>1. PICK i \in D, s \in Sides : k = Key(i, s)
    BY DEF Keys, Key
  <2>2. r[Key(i, s)] = d
    BY <2>1
  <2>3. s = "out_snd_device" \/ s = "in_snd_device"
    BY DEF Sides
  <2>4. d \in {f[i].out_snd_device, f[i].in_snd_device} /\ f[i].id = i
        /\ (s = "out_snd_device" <=> f[i].out_snd_device = d)
    <3>1. ~ (f[i].out_snd_device = d /\ f[i].in_snd_device = d)
      <4>1. f[i].out_snd_device \in OutSndDevices \cup {NoDevice}
            /\ f[i].in_snd_device \in InSndDevices \cup {NoDevice}
        BY <1>1 DEF UseCaseRecords
      <4>2. (OutSndDevices \cup {NoDevice}) \cap (InSndDevices \cup {NoDevice}) = {NoDevice}
            /\ d # NoDevice
        BY SplitFacts DEF OutSndDevices, InSndDevices, NoDevice
      <4> QED  BY <4>1, <4>2
    <3>2. CASE s = "out_snd_device"
      BY <1>1, <1>2, <2>2, <3>1, <3>2
    <3>3. CASE s = "in_snd_device"
      BY <1>1, <1>2, <2>2, <3>1, <3>3
    <3> QED  BY <2>3, <3>2, <3>3
  <2>5. f[i] \in U
    BY <1>3, <2>4
  <2>6. side(f[i]) = s
    BY <1>5, <2>3, <2>4, <2>5, SideNames DEF Sides
  <2>7. PICK u : u = f[i]
    OBVIOUS
  <2>8. u \in U /\ side(u) = s /\ u.id = i
    BY <2>4, <2>5, <2>6, <2>7
  <2>9. g[u] = k
    BY <2>1, <2>8
  <2> QED  BY <2>8, <2>9
<1>9. g \in [U -> K]
  BY <1>6
<1> HIDE DEF g, K
<1>10. ExistsBijection(U, K)
  BY <1>7, <1>8, <1>9, OnePerElement
<1>11. IsFiniteSet(U)
  <2>1. IsFiniteSet(D)
    BY IdsFinite
  <2>2. Range(f) = {f[i] : i \in D}
    BY <1>1 DEF Range
  <2>3. IsFiniteSet(Range(f))
    <3>1. f = [i \in D |-> f[i]]
      BY <1>1 DEF Tables
    <3>2. f \in [D -> Range(f)] /\ \A t \in Range(f) : \E i \in D : f[i] = t
      BY <2>2, <3>1
    <3>3. f \in Surjection(D, Range(f))
      BY <3>2 DEF Surjection
    <3> QED  BY <2>1, <3>3, FS_Surjection
  <2>4. U \subseteq Range(f)
    BY DEF U
  <2> QED  BY <2>3, <2>4, FS_Subset
<1>12. Cardinality(K) = Cardinality(U)
  BY <1>10, <1>11, FS_Bijection
<1> QED  BY <1>1, <1>12 DEF U, K

LEMMA ListCounted ==
    ASSUME NEW D, NEW list \in Orders(D)
    PROVE  /\ ToSet(list) = D /\ Len(list) = Cardinality(D)
<1>1. /\ list \in Seq(D) /\ Len(list) \in Nat /\ DOMAIN list = 1..Len(list)
      /\ \A n, m \in 1..Len(list) : list[n] = list[m] => n = m
      /\ \A i \in D : \E n \in 1..Len(list) : list[n] = i
      /\ \A n \in 1..Len(list) : list[n] \in D
  BY DEF Orders
<1>2. ToSet(list) = D
  BY <1>1 DEF ToSet
<1>3. list \in [1..Len(list) -> D]
  BY <1>1
<1>4. ExistsBijection(1..Len(list), D)
  BY <1>1, <1>3, OnePerElement
<1> QED  BY <1>1, <1>2, <1>4, FS_CountingElements

\* A combination that is on has its parts.
LEMMA PartsCounted ==
    ASSUME NEW cnt, NEW d \in SndDevices
    PROVE  Cardinality({c \in SndDevices : d \in platform_can_split_snd_device(c) /\ cnt[c] > 0})
             = IF d \in {"SPEAKER", "BT_SCO"} /\ cnt["SPEAKER_AND_BT_SCO"] > 0 THEN 1 ELSE 0
<1> DEFINE C == {c \in SndDevices : d \in platform_can_split_snd_device(c) /\ cnt[c] > 0}
<1>1. CASE d \in {"SPEAKER", "BT_SCO"} /\ cnt["SPEAKER_AND_BT_SCO"] > 0
  <2>1. C = {"SPEAKER_AND_BT_SCO"}
    BY <1>1, SplitFacts
  <2>2. Cardinality(C) = 1
    <3> HIDE DEF C
    <3> QED  BY <2>1, FS_Singleton
  <2> QED  BY <1>1, <2>2
<1>2. CASE ~ (d \in {"SPEAKER", "BT_SCO"} /\ cnt["SPEAKER_AND_BT_SCO"] > 0)
  <2>1. C = {}
    BY <1>2, SplitFacts
  <2>2. Cardinality(C) = 0
    <3> HIDE DEF C
    <3> QED  BY <2>1, FS_EmptySet
  <2> QED  BY <1>2, <2>2
<1> QED  BY <1>1, <1>2

LEMMA SoundIsConsistent ==
    ASSUME IInv
    PROVE  Consistent /\ InputsShareDevice
<1>1. PICK D, r : /\ D = Running(adev) /\ Held(adev, D, r, D) /\ Sits(r, adev.usecase, D)
                  /\ Sharing(adev.usecase, D)
  BY SoundFields DEF IInv, Good, GoodWith
<1>2. /\ adev \in Adevs(D) /\ r \in Holdings(Keys(D)) /\ Counted(adev.snd_dev_ref_cnt, r)
      /\ adev.paths = {route_path(adev.usecase[j]) : j \in D}
  BY <1>1 DEF Held
<1>3. D \subseteq Used /\ D \subseteq Ids
  BY <1>1, RunningUsed, UsedFacts DEF IInv
<1>4. /\ DOMAIN adev.usecase = D
      /\ \A i \in D : /\ adev.usecase[i] \in UseCaseRecords /\ adev.usecase[i].id = i
  BY <1>2, AdevFields DEF Tables
<1>5. ToSet(adev.usecase_list) = D /\ Len(adev.usecase_list) = Cardinality(D)
  BY <1>2, AdevFields, ListCounted
<1>6. UseCases = {adev.usecase[i] : i \in D}
  BY <1>4 DEF UseCases, Range
<1>7. TypeOK
  <2>1. /\ adev.snd_dev_ref_cnt \in [SndDevices -> Nat] /\ adev.bit_width \in {16, 24}
        /\ adev.in_call \in BOOLEAN /\ adev.current_call_output \in {"NULL", primary_output}
    BY <1>2, AdevFields
  <2>2. ASSUME NEW i \in D
        PROVE  /\ adev.usecase[i].out_snd_device \in OutSndDevices \cup {"NONE"}
               /\ adev.usecase[i].in_snd_device \in InSndDevices \cup {"NONE"}
               /\ adev.usecase[i].id = i
               /\ adev.usecase[i].type \in {"PCM_PLAYBACK", "PCM_CAPTURE", "VOICE_CALL"}
    BY <1>4 DEF UseCaseRecords, NoDevice
  <2> QED  BY <1>4, <1>5, <2>1, <2>2 DEF TypeOK
<1>8. RefCounts
  <2> SUFFICES ASSUME NEW d \in SndDevices
               PROVE  adev.snd_dev_ref_cnt[d] =
                  Cardinality({u \in UseCases : d \in {u.out_snd_device, u.in_snd_device}})
                  + Cardinality({c \in SndDevices : d \in platform_can_split_snd_device(c)
                                                    /\ adev.snd_dev_ref_cnt[c] > 0})
    BY DEF RefCounts
  <2>1. PICK f, cnt : f = adev.usecase /\ cnt = adev.snd_dev_ref_cnt
    OBVIOUS
  <2>2. Cardinality({u \in Range(f) : d \in {u.out_snd_device, u.in_snd_device}})
          = Cardinality({k \in DOMAIN r : r[k] = d})
    BY <1>1, <1>2, <1>3, <2>1, AdevFields, UsersCounted
  <2>3. Cardinality({c \in SndDevices : d \in platform_can_split_snd_device(c) /\ cnt[c] > 0})
          = IF d \in {"SPEAKER", "BT_SCO"} /\ cnt["SPEAKER_AND_BT_SCO"] > 0 THEN 1 ELSE 0
    BY PartsCounted
  <2>4. cnt[d] = Cardinality({k \in DOMAIN r : r[k] = d})
            + IF d \in {"SPEAKER", "BT_SCO"} /\ cnt["SPEAKER_AND_BT_SCO"] > 0 THEN 1 ELSE 0
    BY <1>2, <2>1 DEF Counted
  <2> QED  BY <2>1, <2>2, <2>3, <2>4 DEF UseCases
<1>9. PathsMatch
  BY <1>2, <1>6 DEF PathsMatch
<1>10. ListMatches
  <2>1. /\ DOMAIN adev.out = setup.outputs /\ DOMAIN adev.in = setup.inputs
        /\ DOMAIN adev.session = ToSet(setup.sessions)
    BY <1>2, AdevFields
  <2>2. PICK ids : ids = {o \in DOMAIN adev.out : ~adev.out[o].standby}
                         \cup {i \in DOMAIN adev.in : ~adev.in[i].standby}
                         \cup {s \in DOMAIN adev.session : adev.session[s].current # "INACTIVE"}
    OBVIOUS
  <2>3. ids = D
    BY <1>1, <2>1, <2>2 DEF Running, Streams, OnCall
  <2> QED  BY <1>4, <1>5, <2>2, <2>3 DEF ListMatches
<1>11. InputsShareDevice
  BY <1>1, <1>6 DEF InputsShareDevice, Sharing
<1> QED  BY <1>7, <1>8, <1>9, <1>10, <1>11 DEF Consistent

\* The reference counts, the mixer paths and the use-case list agree with each
\* other and with the streams and sessions, for every framework and after every
\* sequence of calls, failed starts and crashes.
THEOREM RoutingStaysConsistent == Spec => []Consistent
<1>1. IInv => Consistent
  BY SoundIsConsistent
<1> QED  BY <1>1, AlwaysSound, PTL

\* Use cases that capture over one backend are on one device.
THEOREM InputsStayOnOneDevice == Spec => []InputsShareDevice
<1>1. IInv => InputsShareDevice
  BY SoundIsConsistent
<1> QED  BY <1>1, AlwaysSound, PTL

LEMMA TidyIsInPlace ==
    ASSUME IInv
    PROVE  CallsInPlace
<1>1. PICK D : D = Running(adev)
  OBVIOUS
<1>2. /\ setup \in Setups /\ adev \in Adevs(D) /\ D \subseteq Used /\ DOMAIN adev.usecase = D
      /\ Calls(D) = OnCall(adev) /\ Tidy(adev, strayed)
  <2>1. setup \in Setups /\ Sound(adev) /\ Tidy(adev, strayed)
    BY DEF IInv
  <2>2. Good(adev, D, D)
    BY <1>1, <2>1, SoundFields
  <2> QED  BY <1>1, <2>1, <2>2, GoodFacts, RunningUsed
<1>3. \A u : u \in UseCases /\ IsCall(u) <=> \E j \in OnCall(adev) : u = adev.usecase[j]
  <2>1. ActiveCalls(adev) = OnCall(adev) /\ OnCall(adev) \subseteq D
    BY <1>2, CallFacts
  <2>2. \A j : j \in OnCall(adev) <=> j \in D /\ IsCall(adev.usecase[j])
    BY <1>2, <2>1 DEF ActiveCalls
  <2>3. \A u : u \in UseCases <=> \E j \in D : u = adev.usecase[j]
    BY <1>2 DEF UseCases, Range
  <2> QED  BY <2>2, <2>3
<1>4. voice_is_call_state_active(adev) <=> OnCall(adev) # {}
  BY <1>2, CallsActive
<1>5. CallsFollowPrimary
  <2> SUFFICES ASSUME NEW u \in UseCases, IsCall(u), adev.in_call
               PROVE  u.out_snd_device
                        = platform_get_output_snd_device(adev, out_devices(adev, u))
    BY DEF CallsFollowPrimary
  <2>1. PICK j \in OnCall(adev) : u = adev.usecase[j]
    BY <1>3
  <2>2. u.out_snd_device = Home(adev)
    BY <1>2, <2>1 DEF Tidy, AtHome
  <2>3. out_devices(adev, u) = adev.out[primary_output].devices
    BY DEF out_devices, IsCall
  <2> QED  BY <2>2, <2>3 DEF Home
<1>6. SidetoneMatches
  <2> SUFFICES ASSUME ~strayed
               PROVE  adev.sidetone = UNION {sidetone_path(u.out_snd_device) :
                                                u \in {v \in UseCases : IsCall(v)}}
    BY DEF SidetoneMatches
  <2>1. PICK C : C = {v \in UseCases : IsCall(v)}
    OBVIOUS
  <2>2. \A u : u \in C <=> \E j \in OnCall(adev) : u = adev.usecase[j]
    BY <1>3, <2>1
  <2>3. PICK h : h = Home(adev)
    OBVIOUS
  <2>4. /\ OnCall(adev) # {} => adev.in_call
        /\ adev.sidetone = IF OnCall(adev) = {} THEN {} ELSE sidetone_path(h)
    BY <1>2, <2>3 DEF Tidy, Tuned
  <2>5. CASE OnCall(adev) = {}
    <3>1. C = {}
      BY <2>2, <2>5
    <3> QED  BY <2>1, <2>4, <2>5, <3>1
  <2>6. CASE OnCall(adev) # {}
    <3>1. \A u \in C : u.out_snd_device = h
      BY <1>2, <2>2, <2>3, <2>4, <2>6 DEF Tidy, AtHome
    <3>2. C # {}
      BY <2>2, <2>6
    <3>3. UNION {sidetone_path(u.out_snd_device) : u \in C} = sidetone_path(h)
      <4>1. {sidetone_path(u.out_snd_device) : u \in C} = {sidetone_path(h)}
        BY <3>1, <3>2
      <4> QED  BY <4>1
    <3> QED  BY <2>1, <2>4, <2>6, <3>3
  <2> QED  BY <2>5, <2>6
<1>7. NormalModeHasNoCall
  BY <1>2, <1>4 DEF Tidy, NormalModeHasNoCall
<1> QED  BY <1>5, <1>6, <1>7 DEF CallsInPlace

\* In a call every call is where the framework routed the primary output, with
\* the sidetone of its device, and the normal mode has no call left unless the
\* HAL strayed from the call mode into communication: for every framework and
\* after every sequence of calls, failed starts and crashes.
THEOREM CallsStayInPlace == Spec => []CallsInPlace
<1>1. IInv => CallsInPlace
  BY TidyIsInPlace
<1> QED  BY <1>1, AlwaysSound, PTL
=============================================================================
