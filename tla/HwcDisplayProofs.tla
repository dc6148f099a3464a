-------------------------- MODULE HwcDisplayProofs --------------------------
(***************************************************************************)
(* Proofs about what SurfaceFlinger is told of the two displays            *)
(* (HwcCallbacks) and about the layers, fences and vsync they share        *)
(* (HwcLayers), for every bound on instances, events, layers and fences.   *)
(***************************************************************************)
EXTENDS HwcCallbacks, HwcLayers, FiniteSetTheorems, WellFoundedInduction, TLAPS

\* A set of natural numbers that is not empty has its minimum: Min is no choice
\* from nothing.
LEMMA MinIsMember ==
    ASSUME NEW S, S \subseteq Nat, S # {}
    PROVE  Min(S) \in S
<1> DEFINE Less == {ss \in Nat \X Nat : ss[1] < ss[2]}
<1>1. IsWellFoundedOn(Less, Nat)
  BY NatLessThanWellFounded, Zenon DEF OpToRel
<1>2. PICK x \in S : \A y \in S : ~ (<<y, x>> \in Less)
  <2> HIDE DEF Less
  <2> QED  BY <1>1, WFMin
<1>3. ASSUME NEW y \in S PROVE x =< y
  <2>1. <<y, x>> \in Nat \X Nat /\ <<y, x>>[1] = y /\ <<y, x>>[2] = x
    OBVIOUS
  <2> QED  BY <1>2, <2>1
<1> QED  BY <1>3, Zenon DEF Min
-----------------------------------------------------------------------------
(* Layers, fences and vsync. *)

ZoomLayer == [owner : Endpoints, requested : {"DEVICE", "CLIENT"},
              validated : {"CLIENT"}, changed : BOOLEAN,
              acquire_fence : {NoFence} \cup 1 .. MaxFences]

\* Handles come from a counter that never returns to one in use.
LayersTyped ==
    /\ zoom_layers \in [Layers -> ZoomLayer]
    /\ next_primary_layer \in Nat
    /\ \A l \in Layers : l \in Nat /\ l < next_primary_layer

\* The layers marked as changed are the ones nobody has accepted yet.
ChangedUnaccepted ==
    \A l : l \in unaccepted <=> l \in Layers /\ zoom_layers[l].changed

\* FencesOwned, by members.
FencesByMember ==
    /\ fence_fds \subseteq 1 .. MaxFences
    /\ \A f : f \in fence_fds <=>
         \/ f \in stray_fences
         \/ \E l \in Layers : f = zoom_layers[l].acquire_fence /\ f # NoFence
    /\ \A l \in Layers : zoom_layers[l].acquire_fence \notin stray_fences
    /\ \A k, l \in Layers :
         k # l /\ zoom_layers[k].acquire_fence # NoFence =>
           zoom_layers[k].acquire_fence # zoom_layers[l].acquire_fence

\* fb0 was told to deliver vsync exactly when an endpoint wants it.
VsyncTold ==
    /\ vsync_enabled \in [Endpoints -> BOOLEAN]
    /\ "setVsyncEnabled" \in fns => (real_vsync <=> \E d \in Endpoints : vsync_enabled[d])

\* A closed device has no layers, so opening one forgets no fence.
ClosedHasNone == hw_open \in BOOLEAN /\ (~hw_open => Layers = {})

LayersInv == LayersTyped /\ ClosedHasNone /\ ChangedUnaccepted /\ FencesByMember /\ VsyncTold

\* Opening and closing leave no layer behind and every fence accounted for.
LEMMA DeviceKeepsLayers ==
    ASSUME LayersInv, HwcOpen \/ HwcCloseLayers
    PROVE  LayersInv'
<1> USE DEF LayersInv, NoLayers, Layers
<1>1. Layers' = {} /\ unaccepted' = {} /\ zoom_layers' = NoLayers
  BY DEF HwcOpen, HwcCloseLayers
<1>2. LayersTyped'
  BY <1>1 DEF LayersTyped, HwcOpen, HwcCloseLayers
<1>3. ChangedUnaccepted'
  BY <1>1 DEF ChangedUnaccepted
<1>4. FencesByMember'
  <2>1. CASE HwcOpen
    BY <1>1, <2>1 DEF FencesByMember, ClosedHasNone, HwcOpen
  <2>2. CASE HwcCloseLayers
    BY <1>1, <2>2 DEF FencesByMember, HwcCloseLayers, Held
  <2> QED  BY <2>1, <2>2
<1>5. VsyncTold'
  BY DEF VsyncTold, HwcOpen, HwcCloseLayers, LoadRealFns
<1>6. ClosedHasNone'
  BY <1>1 DEF ClosedHasNone, HwcOpen, HwcCloseLayers
<1> QED  BY <1>2, <1>3, <1>4, <1>5, <1>6

\* What a layer call has to show: the fields it writes stay in their types, the
\* marks agree with unaccepted and the fences are accounted for.
LEMMA LayerCallKeeps ==
    ASSUME LayersInv, hw_open, UNCHANGED <<hw_open, fns, vsync_enabled, real_vsync>>,
           LayersTyped', ChangedUnaccepted', FencesByMember'
    PROVE  LayersInv'
  BY DEF LayersInv, VsyncTold, ClosedHasNone

\* A new handle names a new layer, without fence and without a change to report.
LEMMA CreateKeeps ==
    ASSUME LayersInv, NEW d \in Endpoints, CreateLayer(d)
    PROVE  LayersInv'
<1> DEFINE n == next_primary_layer
<1> DEFINE new == [owner |-> d, requested |-> "DEVICE", validated |-> "CLIENT",
                   changed |-> FALSE, acquire_fence |-> NoFence]
<1>1. n \notin Layers /\ new \in ZoomLayer
  BY DEF LayersInv, LayersTyped, ZoomLayer
<1>2. /\ zoom_layers' = [l \in Layers \cup {n} |-> IF l \in Layers THEN zoom_layers[l] ELSE new]
      /\ UNCHANGED <<fence_fds, stray_fences, unaccepted>> /\ n' = n + 1
      /\ hw_open /\ UNCHANGED <<hw_open, fns, vsync_enabled, real_vsync>>
  BY DEF CreateLayer, LayerVars
<1>3. new.changed = FALSE /\ new.acquire_fence = NoFence
  OBVIOUS
<1> HIDE DEF new, n
<1>4. /\ Layers' = Layers \cup {n} /\ zoom_layers'[n] = new
      /\ \A l \in Layers : zoom_layers'[l] = zoom_layers[l]
  BY <1>1, <1>2 DEF Layers
<1>5. LayersTyped'
  BY <1>1, <1>2, <1>4 DEF LayersInv, LayersTyped, n
<1>6. ChangedUnaccepted'
  BY <1>1, <1>2, <1>3, <1>4 DEF LayersInv, ChangedUnaccepted
<1>7. FencesByMember'
  <2>1. NoFence \notin stray_fences /\ NoFence \notin 1 .. MaxFences
    BY DEF LayersInv, FencesByMember, NoFence
  <2>2. \A l \in Layers' :
          zoom_layers'[l].acquire_fence =
            IF l = n THEN NoFence ELSE zoom_layers[l].acquire_fence
    BY <1>1, <1>3, <1>4
  <2>3. ASSUME NEW f
        PROVE  f \in fence_fds' <=>
                 \/ f \in stray_fences
                 \/ \E l \in Layers' : f = zoom_layers'[l].acquire_fence /\ f # NoFence
    BY <1>1, <1>2, <1>4, <2>2 DEF LayersInv, FencesByMember
  <2>4. \A k, l \in Layers' :
          k # l /\ zoom_layers'[k].acquire_fence # NoFence =>
            zoom_layers'[k].acquire_fence # zoom_layers'[l].acquire_fence
    BY <1>1, <1>4, <2>2 DEF LayersInv, FencesByMember
  <2>5. \A l \in Layers' : zoom_layers'[l].acquire_fence \notin stray_fences
    BY <1>4, <2>1, <2>2 DEF LayersInv, FencesByMember
  <2>6. stray_fences' = stray_fences /\ fence_fds' \subseteq 1 .. MaxFences
    BY <1>2 DEF LayersInv, FencesByMember
  <2> QED  BY <2>3, <2>4, <2>5, <2>6 DEF FencesByMember
<1> QED  BY <1>2, <1>5, <1>6, <1>7, LayerCallKeeps

\* Destroying a layer closes its fence and only that one.
LEMMA DestroyKeeps ==
    ASSUME LayersInv, NEW d \in Endpoints, NEW layer, DestroyLayer(d, layer)
    PROVE  LayersInv'
<1>1. /\ layer \in Layers /\ hw_open
      /\ fence_fds' = fence_fds \ {zoom_layers[layer].acquire_fence}
      /\ zoom_layers' = [l \in Layers \ {layer} |-> zoom_layers[l]]
      /\ unaccepted' = unaccepted \ {layer}
      /\ UNCHANGED <<hw_open, fns, vsync_enabled, real_vsync, next_primary_layer, stray_fences>>
  BY DEF DestroyLayer, Known, LayersOf, LayerVars
<1>2. /\ Layers' = Layers \ {layer}
      /\ \A l \in Layers' : zoom_layers'[l] = zoom_layers[l]
  BY <1>1 DEF Layers
<1>3. LayersTyped'
  BY <1>1, <1>2 DEF LayersInv, LayersTyped
<1>4. ChangedUnaccepted'
  BY <1>1, <1>2 DEF LayersInv, ChangedUnaccepted
<1>5. FencesByMember'
  BY <1>1, <1>2, ZenonT(60) DEF LayersInv, FencesByMember
<1> QED  BY <1>1, <1>3, <1>4, <1>5, LayerCallKeeps

\* A new buffer closes the held fence before it keeps the duplicate of its own.
LEMMA BufferKeeps ==
    ASSUME LayersInv, NEW d \in Endpoints, NEW layer \in Layers,
           NEW fence \in {NoFence} \cup 1 .. MaxFences, SetLayerBuffer(d, layer, fence)
    PROVE  LayersInv'
<1> DEFINE left == fence_fds \ {zoom_layers[layer].acquire_fence}
<1>1. /\ hw_open
      /\ fence # NoFence => fence \notin left
      /\ fence_fds' = left \cup ({fence} \ {NoFence})
      /\ zoom_layers' = [zoom_layers EXCEPT ![layer].acquire_fence = fence]
      /\ UNCHANGED <<hw_open, fns, vsync_enabled, real_vsync, next_primary_layer,
                     stray_fences, unaccepted>>
  BY DEF SetLayerBuffer, Known, LayerVars
<1>2. zoom_layers \in [Layers -> ZoomLayer]
  BY DEF LayersInv, LayersTyped
<1>3. /\ Layers' = Layers /\ zoom_layers' \in [Layers -> ZoomLayer]
      /\ \A l \in Layers \ {layer} : zoom_layers'[l] = zoom_layers[l]
      /\ zoom_layers'[layer].acquire_fence = fence
      /\ zoom_layers'[layer].changed = zoom_layers[layer].changed
  BY <1>1, <1>2 DEF Layers, ZoomLayer
<1>4. LayersTyped'
  BY <1>1, <1>3 DEF LayersInv, LayersTyped
<1>5. ChangedUnaccepted'
  BY <1>1, <1>3 DEF LayersInv, ChangedUnaccepted
<1>6. FencesByMember'
  <2>1. NoFence \notin stray_fences /\ NoFence \notin 1 .. MaxFences
    BY DEF LayersInv, FencesByMember, NoFence
  <2>2. fence_fds' \subseteq 1 .. MaxFences
    BY <1>1 DEF LayersInv, FencesByMember
  <2>3. fence \notin stray_fences
    BY <1>1, <2>1 DEF LayersInv, FencesByMember
  <2>4. \A l \in Layers \ {layer} : fence # NoFence => zoom_layers[l].acquire_fence # fence
    BY <1>1 DEF LayersInv, FencesByMember
  <2>5. ASSUME NEW f
        PROVE  f \in fence_fds' <=>
                 \/ f \in stray_fences
                 \/ \E l \in Layers : f = zoom_layers'[l].acquire_fence /\ f # NoFence
    <3>1. f \in fence_fds <=>
            \/ f \in stray_fences
            \/ \E l \in Layers : f = zoom_layers[l].acquire_fence /\ f # NoFence
      BY DEF LayersInv, FencesByMember
    <3>2. f \in left <=>
            \/ f \in stray_fences
            \/ \E l \in Layers \ {layer} : f = zoom_layers[l].acquire_fence /\ f # NoFence
      BY <3>1 DEF LayersInv, FencesByMember
    <3> QED  BY <1>1, <1>3, <3>2
  <2>6. \A l \in Layers' : zoom_layers'[l].acquire_fence \notin stray_fences
    BY <1>3, <2>3 DEF LayersInv, FencesByMember
  <2>7. \A k, l \in Layers' :
          k # l /\ zoom_layers'[k].acquire_fence # NoFence =>
            zoom_layers'[k].acquire_fence # zoom_layers'[l].acquire_fence
    BY <1>3, <2>4 DEF LayersInv, FencesByMember
  <2> QED  BY <1>1, <1>3, <2>2, <2>5, <2>6, <2>7 DEF FencesByMember
<1> QED  BY <1>1, <1>4, <1>5, <1>6, LayerCallKeeps

\* A refused buffer leaves its fence open, under a number nobody has.
LEMMA RefusedKeeps ==
    ASSUME LayersInv, NEW d, NEW layer, SetLayerBufferRefused(d, layer)
    PROVE  LayersInv'
<1>1. /\ hw_open /\ Cardinality(fence_fds) < MaxFences
      /\ fence_fds' = fence_fds \cup {FreeFd} /\ stray_fences' = stray_fences \cup {FreeFd}
      /\ UNCHANGED <<hw_open, fns, vsync_enabled, real_vsync, zoom_layers,
                     next_primary_layer, unaccepted>>
  BY DEF SetLayerBufferRefused, LayerVars
<1>2. FreeFd \in 1 .. MaxFences /\ FreeFd \notin fence_fds
  <2>1. MaxFences \in Nat /\ fence_fds \subseteq 1 .. MaxFences
    BY LayerBounds DEF LayersInv, FencesByMember
  <2>2. Cardinality(1 .. MaxFences) = MaxFences
    BY <2>1, FS_Interval
  <2>3. fence_fds # 1 .. MaxFences
    BY <1>1, <2>1, <2>2
  <2>4. PICK f \in 1 .. MaxFences : f \notin fence_fds
    BY <2>1, <2>3, Zenon
  <2>5. (1 .. MaxFences) \ fence_fds # {} /\ (1 .. MaxFences) \ fence_fds \subseteq Nat
    BY <2>1, <2>4
  <2> QED  BY <2>5, MinIsMember DEF FreeFd
<1>3. Layers' = Layers
  BY <1>1 DEF Layers
<1>4. LayersTyped' /\ ChangedUnaccepted'
  BY <1>1, <1>3 DEF LayersInv, LayersTyped, ChangedUnaccepted
<1>5. FencesByMember'
  <2>1. NoFence \notin 1 .. MaxFences
    BY DEF NoFence
  <2>2. \A l \in Layers : zoom_layers[l].acquire_fence # FreeFd
    BY <1>2, <2>1 DEF LayersInv, FencesByMember
  <2> HIDE DEF FreeFd
  <2> QED  BY <1>1, <1>2, <1>3, <2>2 DEF LayersInv, FencesByMember
<1> QED  BY <1>1, <1>4, <1>5, LayerCallKeeps

\* Calls that rewrite some layers' types and marks leave the fences alone.
LEMMA MarksKeepFences ==
    ASSUME LayersInv, Layers' = Layers, UNCHANGED <<fence_fds, stray_fences>>,
           \A l \in Layers : zoom_layers'[l].acquire_fence = zoom_layers[l].acquire_fence
    PROVE  FencesByMember'
  BY DEF LayersInv, FencesByMember

\* The requested type of a layer is no change until the next validation.
LEMMA TypeKeeps ==
    ASSUME LayersInv, NEW d, NEW layer, NEW type \in {"DEVICE", "CLIENT"},
           SetLayerCompositionType(d, layer, type)
    PROVE  LayersInv'
<1>1. /\ hw_open /\ layer \in Layers
      /\ zoom_layers' = [zoom_layers EXCEPT ![layer].requested = type]
      /\ UNCHANGED <<hw_open, fns, vsync_enabled, real_vsync, next_primary_layer,
                     fence_fds, stray_fences, unaccepted>>
  BY DEF SetLayerCompositionType, Known, LayersOf, LayerVars
<1>2. zoom_layers \in [Layers -> ZoomLayer]
  BY DEF LayersInv, LayersTyped
<1>3. /\ Layers' = Layers /\ zoom_layers' \in [Layers -> ZoomLayer]
      /\ \A l \in Layers : /\ zoom_layers'[l].acquire_fence = zoom_layers[l].acquire_fence
                           /\ zoom_layers'[l].changed = zoom_layers[l].changed
  BY <1>1, <1>2 DEF Layers, ZoomLayer
<1>4. LayersTyped' /\ ChangedUnaccepted'
  BY <1>1, <1>3 DEF LayersInv, LayersTyped, ChangedUnaccepted
<1> QED  BY <1>1, <1>3, <1>4, MarksKeepFences, LayerCallKeeps

\* A validation marks the display's own layers whose type it changes, and those
\* are the ones that wait to be accepted; the other display's stay as they were.
LEMMA ValidateKeeps ==
    ASSUME LayersInv, NEW d, ValidateDisplay(d)
    PROVE  LayersInv'
<1>1. /\ hw_open
      /\ zoom_layers' = [l \in Layers |->
           IF zoom_layers[l].owner = d
             THEN [zoom_layers[l] EXCEPT !.validated = "CLIENT",
                                         !.changed = zoom_layers[l].requested # "CLIENT"]
             ELSE zoom_layers[l]]
      /\ unaccepted' = {l \in unaccepted : l \notin LayersOf(d)}
                       \cup {l \in LayersOf(d) : zoom_layers[l].requested # "CLIENT"}
      /\ UNCHANGED <<hw_open, fns, vsync_enabled, real_vsync, next_primary_layer,
                     fence_fds, stray_fences>>
  BY DEF ValidateDisplay, LayerVars
<1>2. zoom_layers \in [Layers -> ZoomLayer]
  BY DEF LayersInv, LayersTyped
<1>3. Layers' = Layers
  BY <1>1 DEF Layers
<1>4. ASSUME NEW l \in Layers
      PROVE  /\ zoom_layers'[l] \in ZoomLayer
             /\ zoom_layers'[l].acquire_fence = zoom_layers[l].acquire_fence
             /\ zoom_layers'[l].changed <=>
                  IF zoom_layers[l].owner = d THEN zoom_layers[l].requested # "CLIENT"
                                              ELSE zoom_layers[l].changed
  BY <1>1, <1>2 DEF ZoomLayer
<1>5. LayersTyped'
  BY <1>1, <1>3, <1>4 DEF LayersInv, LayersTyped
<1>6. ChangedUnaccepted'
  BY <1>1, <1>3, <1>4 DEF LayersInv, ChangedUnaccepted, LayersOf
<1> QED  BY <1>1, <1>3, <1>4, <1>5, <1>6, MarksKeepFences, LayerCallKeeps

\* Accepting takes the validated types over and clears the display's own marks.
LEMMA AcceptKeeps ==
    ASSUME LayersInv, NEW d, AcceptDisplayChanges(d)
    PROVE  LayersInv'
<1>1. /\ hw_open
      /\ zoom_layers' = [l \in Layers |->
           IF zoom_layers[l].owner = d
             THEN [zoom_layers[l] EXCEPT !.requested = zoom_layers[l].validated,
                                         !.changed = FALSE]
             ELSE zoom_layers[l]]
      /\ unaccepted' = unaccepted \ LayersOf(d)
      /\ UNCHANGED <<hw_open, fns, vsync_enabled, real_vsync, next_primary_layer,
                     fence_fds, stray_fences>>
  BY DEF AcceptDisplayChanges, LayerVars
<1>2. zoom_layers \in [Layers -> ZoomLayer]
  BY DEF LayersInv, LayersTyped
<1>3. Layers' = Layers
  BY <1>1 DEF Layers
<1>4. ASSUME NEW l \in Layers
      PROVE  /\ zoom_layers'[l] \in ZoomLayer
             /\ zoom_layers'[l].acquire_fence = zoom_layers[l].acquire_fence
             /\ zoom_layers'[l].changed <=> zoom_layers[l].owner # d /\ zoom_layers[l].changed
  BY <1>1, <1>2 DEF ZoomLayer
<1>5. LayersTyped'
  BY <1>1, <1>3, <1>4 DEF LayersInv, LayersTyped
<1>6. ChangedUnaccepted'
  BY <1>1, <1>3, <1>4 DEF LayersInv, ChangedUnaccepted, LayersOf
<1> QED  BY <1>1, <1>3, <1>4, <1>5, <1>6, MarksKeepFences, LayerCallKeeps

\* The flag CAF is given is the disjunction of both endpoints', so neither can
\* silence the other.
LEMMA VsyncKeeps ==
    ASSUME LayersInv, NEW d \in Endpoints, NEW enabled \in BOOLEAN,
           SetVsyncEnabled(d, enabled)
    PROVE  LayersInv'
<1> DEFINE flags == [vsync_enabled EXCEPT ![d] = enabled]
<1>1. /\ vsync_enabled' = flags
      /\ real_vsync' = IF "setVsyncEnabled" \in fns THEN \E e \in Endpoints : flags[e]
                                                    ELSE real_vsync
      /\ UNCHANGED EndpointVars
  BY DEF SetVsyncEnabled
<1>2. flags \in [Endpoints -> BOOLEAN]
  BY DEF LayersInv, VsyncTold
<1> HIDE DEF flags
<1>3. VsyncTold'
  BY <1>1, <1>2 DEF VsyncTold, EndpointVars
<1>4. (LayersTyped /\ ClosedHasNone /\ ChangedUnaccepted /\ FencesByMember)'
  BY <1>1 DEF LayersInv, EndpointVars, Layers, LayersTyped, ClosedHasNone,
              ChangedUnaccepted, FencesByMember
<1> QED  BY <1>3, <1>4 DEF LayersInv

\* A configuration call, an attribute and an output buffer touch none of this.
LEMMA ConfigKeeps ==
    ASSUME LayersInv, UNCHANGED <<EndpointVars, vsync_enabled, real_vsync>>
    PROVE  LayersInv'
  BY DEF LayersInv, EndpointVars, Layers, LayersTyped, ClosedHasNone,
         ChangedUnaccepted, FencesByMember, VsyncTold

\* The invariant of the shared layer map, fence table and vsync.
LEMMA LayersInvariant == HlSpec => []LayersInv
<1>1. HlInit => LayersInv
  <2> SUFFICES ASSUME HlInit PROVE LayersInv
    OBVIOUS
  <2>1. Layers = {}
    BY DEF HlInit, NoLayers, Layers
  <2> QED
    BY <2>1 DEF HlInit, NoLayers, LayersInv, LayersTyped, ClosedHasNone,
                ChangedUnaccepted, FencesByMember, VsyncTold
<1>2. LayersInv /\ [HlNext]_hlVars => LayersInv'
  <2> SUFFICES ASSUME LayersInv, [HlNext]_hlVars PROVE LayersInv'
    OBVIOUS
  <2>1. CASE HwcOpen \/ HwcCloseLayers
    BY <2>1, DeviceKeepsLayers
  <2>2. CASE SetOutputBuffer
    BY <2>2, ConfigKeeps DEF SetOutputBuffer, hlVars, EndpointVars
  <2>3. ASSUME NEW d \in Endpoints,
               CreateLayer(d) \/ ValidateDisplay(d) \/ AcceptDisplayChanges(d)
        PROVE  LayersInv'
    BY <2>3, CreateKeeps, ValidateKeeps, AcceptKeeps
  <2>4. ASSUME NEW d \in Endpoints, GetActiveConfig(d) PROVE LayersInv'
    BY <2>4, ConfigKeeps DEF GetActiveConfig
  <2>5. ASSUME NEW d \in Endpoints, NEW config \in 0 .. 1,
               SetActiveConfigWithConstraints(d, config)
        PROVE  LayersInv'
    BY <2>5, ConfigKeeps DEF SetActiveConfigWithConstraints
  <2>6. ASSUME NEW d \in Endpoints, NEW enabled \in BOOLEAN, SetVsyncEnabled(d, enabled)
        PROVE  LayersInv'
    BY <2>6, VsyncKeeps
  <2>7. ASSUME NEW d \in Endpoints, NEW layer,
               \/ DestroyLayer(d, layer) \/ SetLayerAttribute(d, layer)
               \/ SetLayerBufferRefused(d, layer)
               \/ \E type \in {"DEVICE", "CLIENT"} : SetLayerCompositionType(d, layer, type)
        PROVE  LayersInv'
    <3>1. CASE SetLayerAttribute(d, layer)
      BY <3>1, ConfigKeeps DEF SetLayerAttribute, hlVars, EndpointVars
    <3> QED  BY <2>7, <3>1, DestroyKeeps, RefusedKeeps, TypeKeeps
  <2>8. ASSUME NEW d \in Endpoints, NEW layer \in Layers,
               NEW fence \in {NoFence} \cup 1 .. MaxFences, SetLayerBuffer(d, layer, fence)
        PROVE  LayersInv'
    BY <2>8, BufferKeeps
  <2>9. CASE UNCHANGED hlVars
    BY <2>9, ConfigKeeps DEF hlVars, EndpointVars
  <2> QED
    BY <2>1, <2>2, <2>3, <2>4, <2>5, <2>6, <2>7, <2>8, <2>9 DEF HlNext
<1> QED  BY <1>1, <1>2, PTL DEF HlSpec

\* Whatever the two endpoints do, each reports its own unaccepted changes, every
\* fence has one owner, both get their vsync and each composes into the buffers
\* its configuration announces.
THEOREM EndpointsStayIndependent == HlSpec => []EndpointsIndependent
<1>1. LayersInv => ChangesReported
  BY DEF LayersInv, LayersTyped, ZoomLayer, ChangedUnaccepted, ChangesReported,
         GetChangedCompositionTypes, LayersOf
<1>2. LayersInv => FencesOwned
  <2> SUFFICES ASSUME LayersInv PROVE FencesOwned
    OBVIOUS
  <2>1. \A f : f \in Held <=>
          \E l \in Layers : f = zoom_layers[l].acquire_fence /\ f # NoFence
    BY DEF Held
  <2> QED  BY <2>1 DEF LayersInv, FencesByMember, FencesOwned
<1>3. LayersInv => VsyncShared
  BY DEF LayersInv, VsyncTold, VsyncShared, PrimaryVsyncTrampoline
<1>4. ConfigUsable
  BY DEF ConfigUsable, GetDisplayConfigs, ConfigForDisplay, GetDisplayAttribute,
         IsConfigForDisplay, GetClientTargetSupport, Endpoints, SmallDisplay, WideDisplay
<1>5. LayersInv => EndpointsIndependent
  BY <1>1, <1>2, <1>3, <1>4 DEF EndpointsIndependent
<1> QED  BY <1>5, LayersInvariant, PTL
-----------------------------------------------------------------------------
(* What the first SurfaceFlinger knows. *)

Tramp == [pc : {"none", "read", "small", "announce", "readWide", "withdraw", "wide"},
          fn : Sf \cup {NoSf}, connected : BOOLEAN]

CallbackTypes ==
    /\ sf \in Sf /\ hotplug_fn \in Sf \cup {NoSf} /\ events \in Nat
    /\ announced \in BOOLEAN
    /\ tramp \in [Threads -> Tramp]
    /\ known \in [Sf -> SUBSET BothDisplays]

\* How far a running trampoline has come with its news.
Telling(t) ==
    \/ /\ tramp[t].connected /\ tramp[t].pc \in {"read", "small"}
       /\ known[1] = {} /\ ~announced
    \/ /\ tramp[t].connected /\ tramp[t].pc = "announce"
       /\ known[1] = {"small"} /\ ~announced
    \/ /\ tramp[t].connected /\ tramp[t].pc \in {"readWide", "wide"}
       /\ known[1] = {"small"} /\ announced
    \/ /\ ~tramp[t].connected /\ tramp[t].pc \in {"read", "small"}
       /\ known[1] = BothDisplays /\ announced
    \/ /\ ~tramp[t].connected /\ tramp[t].pc = "withdraw"
       /\ known[1] = {"wide"} /\ announced
    \/ /\ ~tramp[t].connected /\ tramp[t].pc = "wide"
       /\ known[1] = {"wide"} /\ ~announced

\* It calls the first instance, and no other.
TellsFirst(t) == tramp[t].pc \in {"small", "withdraw", "wide"} => tramp[t].fn = 1

Rests(t) == tramp[t] = NotRunning

\* CAF's events alternate, the first one a disconnect.
EventsEven == events % 2 = 0

NotYetRegistered ==
    /\ registered = "no" /\ known[1] = {} /\ ~announced /\ events = 0
    /\ Rests("register") /\ Rests("event")

Registering ==
    /\ registered = "hotplug" /\ hotplug_fn = 1 /\ events = 0
    /\ Rests("event") /\ tramp["register"].connected
    /\ Telling("register") /\ TellsFirst("register")

Registered ==
    /\ registered = "yes" /\ hotplug_fn = 1 /\ Rests("register")
    /\ \/ Rests("event") /\ known[1] = BothDisplays /\ announced /\ EventsEven
       \/ Rests("event") /\ known[1] = {} /\ ~announced /\ ~EventsEven
       \/ Telling("event") /\ TellsFirst("event") /\ (tramp["event"].connected <=> EventsEven)

\* While the first instance lives one trampoline runs at a time, and the
\* announced flag and the instance's displays move with it.
FirstKnows == sf = 1 => NotYetRegistered \/ Registering \/ Registered

CallbackInv == CallbackTypes /\ FirstKnows

\* The steps of a trampoline keep the types.
LEMMA TrampolineTypes ==
    ASSUME CallbackTypes, NEW t \in Threads, Trampoline(t)
    PROVE  CallbackTypes'
<1>1. /\ UNCHANGED <<sf, hotplug_fn, events>>
      /\ announced' \in BOOLEAN
  BY DEF CallbackTypes, Trampoline, TrampolineRead, TrampolineSmall, AnnounceWideDisplay,
         AnnounceRead, TrampolineWithdraw, TrampolineWide, hotplugVars
<1>2. tramp' \in [Threads -> Tramp]
  <2>1. ASSUME NEW pc \in {"announce", "withdraw", "readWide", "wide"}, Step(t, pc)
        PROVE  tramp' \in [Threads -> Tramp]
    BY <2>1 DEF Step, Tramp, CallbackTypes
  <2>2. ASSUME Return(t) PROVE tramp' \in [Threads -> Tramp]
    BY <2>2 DEF Return, NotRunning, Tramp, CallbackTypes, Sf, NoSf
  <2>3. CASE TrampolineRead(t)
    BY <2>3 DEF TrampolineRead, Tramp, CallbackTypes
  <2>4. CASE AnnounceRead(t)
    BY <2>4 DEF AnnounceRead, Tramp, CallbackTypes
  <2> QED
    BY <2>1, <2>2, <2>3, <2>4
       DEF Trampoline, TrampolineSmall, AnnounceWideDisplay, TrampolineWithdraw, TrampolineWide
<1>3. known' \in [Sf -> SUBSET BothDisplays]
  <2>1. ASSUME NEW d \in BothDisplays, Tell(tramp[t].fn, d, tramp[t].connected)
        PROVE  known' \in [Sf -> SUBSET BothDisplays]
    BY <2>1 DEF Tell, CallbackTypes
  <2> QED
    BY <2>1 DEF CallbackTypes, Trampoline, TrampolineRead, TrampolineSmall,
                AnnounceWideDisplay, AnnounceRead, TrampolineWithdraw, TrampolineWide, BothDisplays
<1> QED  BY <1>1, <1>2, <1>3 DEF CallbackTypes

\* A trampoline for the first instance either goes on with its news or returns
\* with both displays told.
LEMMA TellingStep ==
    ASSUME CallbackTypes, sf = 1, hotplug_fn = 1, NEW t \in Threads,
           Telling(t), TellsFirst(t), Trampoline(t)
    PROVE  /\ UNCHANGED <<sf, hotplug_fn, events>>
           /\ \A u \in Threads : u # t => tramp'[u] = tramp[u]
           /\ \/ /\ Telling(t)' /\ TellsFirst(t)' /\ UNCHANGED registered
                 /\ tramp'[t].connected = tramp[t].connected
              \/ /\ Return(t) /\ Rests(t)'
                 /\ IF tramp[t].connected THEN known'[1] = BothDisplays /\ announced'
                                          ELSE known'[1] = {} /\ ~announced'
<1>1. /\ 1 \in Sf /\ tramp \in [Threads -> Tramp] /\ tramp[t] \in Tramp
      /\ known \in [Sf -> SUBSET BothDisplays] /\ announced \in BOOLEAN
  BY DEF CallbackTypes
<1>2. UNCHANGED <<sf, hotplug_fn, events>>
  BY DEF Trampoline, TrampolineRead, TrampolineSmall, AnnounceWideDisplay,
         AnnounceRead, TrampolineWithdraw, TrampolineWide
<1>3. ASSUME NEW pc, Step(t, pc)
      PROVE  /\ tramp'[t].pc = pc /\ tramp'[t].fn = tramp[t].fn
             /\ tramp'[t].connected = tramp[t].connected
             /\ \A u \in Threads : u # t => tramp'[u] = tramp[u]
  BY <1>1, <1>3 DEF Step, Tramp
<1>4. ASSUME Return(t)
      PROVE  Rests(t)' /\ \A u \in Threads : u # t => tramp'[u] = tramp[u]
  BY <1>1, <1>4 DEF Return, Rests
<1>5. ASSUME NEW pc, tramp' = [tramp EXCEPT ![t].fn = hotplug_fn, ![t].pc = pc]
      PROVE  /\ tramp'[t].pc = pc /\ tramp'[t].fn = 1
             /\ tramp'[t].connected = tramp[t].connected
             /\ \A u \in Threads : u # t => tramp'[u] = tramp[u]
  BY <1>1, <1>5 DEF Tramp
<1>6. ASSUME NEW d, Tell(tramp[t].fn, d, tramp[t].connected), tramp[t].fn = 1
      PROVE  known'[1] = IF tramp[t].connected THEN known[1] \cup {d} ELSE known[1] \ {d}
  BY <1>1, <1>6 DEF Tell
<1>7. CASE TrampolineRead(t)
  BY <1>2, <1>5, <1>7 DEF TrampolineRead, Telling, TellsFirst
<1>8. CASE TrampolineSmall(t)
  <2>1. /\ tramp[t].pc = "small" /\ tramp[t].fn = 1 /\ UNCHANGED <<registered, announced>>
        /\ Step(t, IF tramp[t].connected THEN "announce" ELSE "withdraw")
        /\ known'[1] = IF tramp[t].connected THEN known[1] \cup {"small"}
                                             ELSE known[1] \ {"small"}
    BY <1>6, <1>8 DEF TrampolineSmall, TellsFirst
  <2>2. CASE tramp[t].connected
    <3>1. known'[1] = {"small"} /\ ~announced
      BY <2>1, <2>2 DEF Telling
    <3> QED  BY <1>2, <1>3, <2>1, <2>2, <3>1 DEF Telling, TellsFirst
  <2>3. CASE ~tramp[t].connected
    <3>1. known'[1] = {"wide"} /\ announced
      BY <2>1, <2>3 DEF Telling, BothDisplays
    <3> QED  BY <1>2, <1>3, <2>1, <2>3, <3>1 DEF Telling, TellsFirst
  <2> QED  BY <2>2, <2>3
<1>9. CASE AnnounceWideDisplay(t)
  <2>1. tramp[t].connected /\ known[1] = {"small"} /\ ~announced
    BY <1>9 DEF AnnounceWideDisplay, Telling
  <2>2. Step(t, "readWide") /\ announced' /\ UNCHANGED <<registered, known>>
    BY <1>9, <2>1 DEF AnnounceWideDisplay
  <2>3. /\ tramp'[t].pc = "readWide" /\ tramp'[t].connected = tramp[t].connected
        /\ \A u \in Threads : u # t => tramp'[u] = tramp[u]
    BY <1>3, <2>2
  <2>4. Telling(t)' /\ TellsFirst(t)'
    BY <2>1, <2>2, <2>3 DEF Telling, TellsFirst
  <2> QED  BY <1>2, <2>2, <2>3, <2>4
<1>10. CASE AnnounceRead(t)
  BY <1>2, <1>5, <1>10 DEF AnnounceRead, Telling, TellsFirst
<1>11. CASE TrampolineWithdraw(t)
  <2>1. ~tramp[t].connected /\ known[1] = {"wide"} /\ announced /\ tramp[t].fn = 1
    BY <1>11 DEF TrampolineWithdraw, Telling, TellsFirst
  <2>2. Step(t, "wide") /\ ~announced' /\ UNCHANGED <<registered, known>>
    BY <1>11, <2>1 DEF TrampolineWithdraw, NoSf
  <2> QED  BY <1>2, <1>3, <2>1, <2>2 DEF Telling, TellsFirst
<1>12. CASE TrampolineWide(t)
  <2>1. /\ tramp[t].pc = "wide" /\ tramp[t].fn = 1 /\ UNCHANGED announced /\ Return(t)
        /\ known'[1] = IF tramp[t].connected THEN known[1] \cup {"wide"}
                                             ELSE known[1] \ {"wide"}
    BY <1>6, <1>12 DEF TrampolineWide, TellsFirst
  <2>2. CASE tramp[t].connected
    BY <1>2, <1>4, <2>1, <2>2 DEF Telling, BothDisplays
  <2>3. CASE ~tramp[t].connected
    BY <1>2, <1>4, <2>1, <2>3 DEF Telling, BothDisplays
  <2> QED  BY <2>2, <2>3
<1> QED  BY <1>7, <1>8, <1>9, <1>10, <1>11, <1>12 DEF Trampoline

\* The first SurfaceFlinger's trampolines never overlap: its registration runs
\* one before CAF's events can start another.
LEMMA TrampolineKnows ==
    ASSUME CallbackInv, NEW t \in Threads, Trampoline(t)
    PROVE  FirstKnows'
<1> SUFFICES ASSUME sf' = 1 PROVE (NotYetRegistered \/ Registering \/ Registered)'
  BY DEF FirstKnows
<1>1. sf = 1 /\ tramp[t] # NotRunning
  BY DEF Trampoline, TrampolineRead, TrampolineSmall, AnnounceWideDisplay,
         AnnounceRead, TrampolineWithdraw, TrampolineWide, NotRunning
<1>2. CASE Registering
  <2>1. t = "register"
    BY <1>1, <1>2 DEF Registering, Rests, Threads
  <2>2. hotplug_fn = 1 /\ Telling(t) /\ TellsFirst(t) /\ tramp[t].connected
    BY <1>2, <2>1 DEF Registering
  <2>3. /\ UNCHANGED <<sf, hotplug_fn, events>> /\ tramp'["event"] = tramp["event"]
        /\ \/ /\ Telling(t)' /\ TellsFirst(t)' /\ UNCHANGED registered
              /\ tramp'[t].connected = tramp[t].connected
           \/ Return(t) /\ Rests(t)' /\ known'[1] = BothDisplays /\ announced'
    BY <1>1, <2>1, <2>2, TellingStep DEF CallbackInv, Threads
  <2>4. CASE /\ Telling(t)' /\ TellsFirst(t)' /\ UNCHANGED registered
             /\ tramp'[t].connected = tramp[t].connected
    BY <1>2, <2>1, <2>3, <2>4 DEF Registering, Rests
  <2>5. CASE Return(t) /\ Rests(t)' /\ known'[1] = BothDisplays /\ announced'
    BY <1>2, <2>1, <2>3, <2>5 DEF Registering, Registered, Rests, Return, EventsEven
  <2> QED  BY <2>3, <2>4, <2>5
<1>3. CASE Registered
  <2>1. t = "event"
    BY <1>1, <1>3 DEF Registered, Rests, Threads
  <2>2. /\ hotplug_fn = 1 /\ Telling(t) /\ TellsFirst(t)
        /\ tramp[t].connected <=> EventsEven
    BY <1>1, <1>3, <2>1 DEF Registered, Rests
  <2>3. /\ UNCHANGED <<sf, hotplug_fn, events>> /\ tramp'["register"] = tramp["register"]
        /\ \/ /\ Telling(t)' /\ TellsFirst(t)' /\ UNCHANGED registered
              /\ tramp'[t].connected = tramp[t].connected
           \/ /\ Return(t) /\ Rests(t)'
              /\ IF tramp[t].connected THEN known'[1] = BothDisplays /\ announced'
                                       ELSE known'[1] = {} /\ ~announced'
    BY <1>1, <2>1, <2>2, TellingStep DEF CallbackInv, Threads
  <2>4. EventsEven' <=> EventsEven
    BY <2>3 DEF EventsEven
  <2>5. CASE /\ Telling(t)' /\ TellsFirst(t)' /\ UNCHANGED registered
             /\ tramp'[t].connected = tramp[t].connected
    BY <1>3, <2>1, <2>2, <2>3, <2>4, <2>5 DEF Registered, Rests
  <2>6. CASE /\ Return(t) /\ Rests(t)'
             /\ IF tramp[t].connected THEN known'[1] = BothDisplays /\ announced'
                                      ELSE known'[1] = {} /\ ~announced'
    <3>1. registered' = registered
      BY <2>1, <2>6 DEF Return
    <3> QED  BY <1>3, <2>1, <2>2, <2>3, <2>4, <2>6, <3>1 DEF Registered, Rests
  <2> QED  BY <2>3, <2>5, <2>6
<1>4. ~NotYetRegistered
  BY <1>1 DEF NotYetRegistered, Rests, Threads
<1> QED  BY <1>1, <1>2, <1>3, <1>4 DEF CallbackInv, FirstKnows

\* A step that leaves the hotplug state and SurfaceFlinger alone.
LEMMA HotplugUnchanged ==
    ASSUME CallbackInv, UNCHANGED <<sf, hotplugVars>>
    PROVE  CallbackInv'
  BY DEF CallbackInv, hotplugVars, CallbackTypes, FirstKnows, NotYetRegistered,
         Registering, Registered, Rests, Telling, TellsFirst, EventsEven

\* Registration, CAF's events, a restart of SurfaceFlinger and everything the
\* watcher does keep the invariant too.
LEMMA CallbackStep == CallbackInv /\ [CbNext]_cbVars => CallbackInv'
<1> SUFFICES ASSUME CallbackInv, [CbNext]_cbVars PROVE CallbackInv'
  OBVIOUS
<1>1. /\ CallbackTypes /\ FirstKnows /\ tramp \in [Threads -> Tramp] /\ sf \in 1 .. MaxSf
      /\ events \in Nat /\ MaxSf \in Nat
  BY CallbackBounds DEF CallbackInv, CallbackTypes, Sf
<1>2. ASSUME NEW t \in Threads, NEW c \in BOOLEAN,
             tramp' = [tramp EXCEPT ![t] = [pc |-> "read", fn |-> NoSf, connected |-> c]]
      PROVE  /\ tramp' \in [Threads -> Tramp]
             /\ tramp'[t].pc = "read" /\ (tramp'[t].connected <=> c)
             /\ \A u \in Threads : u # t => tramp'[u] = tramp[u]
  BY <1>1, <1>2 DEF Tramp
<1>3. CASE RegisterHotplug
  <2>1. /\ registered = "no" /\ registered' = "hotplug" /\ hotplug_fn' = sf
        /\ tramp' = [tramp EXCEPT !["register"] = [pc |-> "read", fn |-> NoSf, connected |-> TRUE]]
        /\ UNCHANGED <<sf, announced, known, events>>
    BY <1>3 DEF RegisterHotplug
  <2>2. /\ tramp' \in [Threads -> Tramp] /\ tramp'["register"].pc = "read"
        /\ tramp'["register"].connected /\ tramp'["event"] = tramp["event"]
    BY <1>2, <2>1 DEF Threads
  <2>3. CallbackTypes'
    BY <1>1, <2>1, <2>2 DEF CallbackTypes
  <2>4. sf = 1 => Registering'
    BY <1>1, <2>1, <2>2 DEF FirstKnows, NotYetRegistered, Registering, Registered,
                            Rests, Telling, TellsFirst
  <2> QED  BY <2>1, <2>3, <2>4 DEF CallbackInv, FirstKnows
<1>4. CASE HotplugEvent
  <2>1. /\ registered = "yes" /\ Rests("event") /\ events' = events + 1
        /\ tramp' = [tramp EXCEPT !["event"] =
                        [pc |-> "read", fn |-> NoSf, connected |-> (events % 2 = 1)]]
        /\ UNCHANGED <<sf, registered, hotplug_fn, announced, known>>
    BY <1>4 DEF HotplugEvent, Rests
  <2>2. /\ tramp' \in [Threads -> Tramp] /\ tramp'["event"].pc = "read"
        /\ tramp'["event"].connected <=> events % 2 = 1
        /\ tramp'["register"] = tramp["register"]
    BY <1>2, <2>1 DEF Threads
  <2>3. /\ EventsEven' <=> events % 2 = 1
        /\ EventsEven <=> events % 2 # 1
    BY <1>1, <2>1 DEF EventsEven
  <2>4. CallbackTypes'
    BY <1>1, <2>1, <2>2 DEF CallbackTypes
  <2>5. sf = 1 => Registered'
    <3> SUFFICES ASSUME sf = 1 PROVE Registered'
      OBVIOUS
    <3>1. /\ hotplug_fn = 1 /\ Rests("register")
          /\ \/ known[1] = BothDisplays /\ announced /\ EventsEven
             \/ known[1] = {} /\ ~announced /\ ~EventsEven
      BY <1>1, <2>1 DEF FirstKnows, NotYetRegistered, Registering, Registered, Rests,
                        Telling, NotRunning
    <3>2. Telling("event")'
      BY <2>1, <2>2, <2>3, <3>1 DEF Telling
    <3> QED  BY <2>1, <2>2, <2>3, <3>1, <3>2 DEF Registered, Rests, TellsFirst
  <2> QED  BY <2>1, <2>4, <2>5 DEF CallbackInv, FirstKnows
<1>5. CASE SfRestarts
  <2>1. /\ sf' = sf + 1 /\ sf < MaxSf /\ hotplug_fn' = NoSf
        /\ tramp' = [tramp EXCEPT !["register"] = [pc |-> "read", fn |-> NoSf, connected |-> TRUE]]
        /\ UNCHANGED <<announced, known, events>>
    BY <1>5 DEF SfRestarts
  <2>2. sf' \in Sf /\ sf' # 1
    BY <1>1, <2>1 DEF Sf
  <2>3. tramp' \in [Threads -> Tramp]
    BY <1>2, <2>1 DEF Threads
  <2> QED  BY <1>1, <2>1, <2>2, <2>3 DEF CallbackInv, CallbackTypes, FirstKnows
<1>6. ASSUME NEW t \in Threads, Trampoline(t) PROVE CallbackInv'
  BY <1>1, <1>6, TrampolineTypes, TrampolineKnows DEF CallbackInv
<1>7. ASSUME \/ RegisterRefresh \/ BootCompleted \/ PresentSmall \/ Watch
             \/ \E p \in {"a", "b"} : SetActivePrimary(p)
             \/ CloseWatcher \/ JoinWatcher
      PROVE  UNCHANGED <<sf, hotplugVars>>
  BY <1>7 DEF RegisterRefresh, BootCompleted, PresentSmall, Watch, WatchFirst, WatchWait,
              WatchRead, WatchCall, UnchangedByWatcher, SetActivePrimary, CloseWatcher, JoinWatcher
<1>8. CASE UNCHANGED cbVars
  BY <1>8, HotplugUnchanged DEF cbVars, hotplugVars
<1> QED
  BY <1>3, <1>4, <1>5, <1>6, <1>7, <1>8, HotplugUnchanged DEF CbNext

\* Whenever no trampoline runs, the first SurfaceFlinger knows both displays or
\* neither, over any number of disconnects and reconnects.
THEOREM LifecyclesStaySymmetric == CbSpec => []LifecyclesSymmetric
<1>1. CbInit => CallbackInv
  <2> SUFFICES ASSUME CbInit PROVE CallbackInv
    OBVIOUS
  <2>1. 1 \in Sf /\ \A t \in Threads : tramp[t] = NotRunning
    BY CallbackBounds DEF CbInit, Sf
  <2>2. NotRunning \in Tramp
    BY DEF NotRunning, Tramp
  <2>3. CallbackTypes
    BY <2>1, <2>2 DEF CbInit, CallbackTypes, NoSf
  <2>4. NotYetRegistered
    BY <2>1 DEF CbInit, NotYetRegistered, Rests, Threads
  <2> QED  BY <2>3, <2>4 DEF CallbackInv, FirstKnows
<1>2. CallbackInv => LifecyclesSymmetric
  <2> SUFFICES ASSUME CallbackInv, sf = 1, \A t \in Threads : tramp[t] = NotRunning
               PROVE  known[1] \in {{}, BothDisplays}
    BY DEF LifecyclesSymmetric
  <2>1. tramp["register"].pc = "none" /\ tramp["event"].pc = "none"
    BY DEF Threads, NotRunning
  <2> QED
    BY <2>1 DEF CallbackInv, FirstKnows, NotYetRegistered, Registering, Registered, Telling
<1> QED  BY <1>1, <1>2, CallbackStep, PTL DEF CbSpec
=============================================================================
