------------------------------ MODULE HwcLayers ------------------------------
(***************************************************************************)
(* Layers, validation, configurations and vsync of the HWC2 wrapper        *)
(* (dualscreen/hwcomposer/hwc2_fujisan.cpp).  The wrapper keeps the layers *)
(* of its two endpoints in one map, asks SurfaceFlinger to compose every   *)
(* layer itself, and owns the fence of each layer's buffer.  Both          *)
(* endpoints share the vsync of fb0.  Calls for any other display go to    *)
(* the wrapped CAF composer, if it has the function.                       *)
(*                                                                         *)
(* The attributes that only describe a layer (crop, frame, alpha, blend,   *)
(* colour, transform, order, dataspace, sideband) are stored and never     *)
(* read, so setting one is a single action.  Geometry is the endpoint's    *)
(* own or another's.                                                       *)
(***************************************************************************)
EXTENDS Integers, FiniteSets, FiniteSetsExt

CONSTANTS
  MaxLayers,   \* bound: layers created since the open
  MaxFences,   \* bound: fence descriptors
  RealFns      \* functions a CAF composer may lack

ASSUME LayerBounds == {MaxLayers, MaxFences} \subseteq Nat

SmallDisplay == "small"

WideDisplay == "wide"

Endpoints == {SmallDisplay, WideDisplay}

NoFence == -1

VARIABLES
  hw_open,               \* the device is open
  fns,                   \* the functions LoadRealFns found
  zoom_layers,           \* [live layers -> ZoomLayer]
  next_primary_layer,
  active_config,         \* EndpointState.active_config
  vsync_enabled,         \* small_vsync_enabled, wide_vsync_enabled
  real_vsync,            \* what CAF was last told
  fence_fds,             \* fence descriptors open in the process
  stray_fences,          \* those no layer holds and nobody will close
  unaccepted             \* layers a validation reported and nobody accepted

hlVars == <<hw_open, fns, zoom_layers, next_primary_layer, active_config,
            vsync_enabled, real_vsync, fence_fds, stray_fences, unaccepted>>

Layers == DOMAIN zoom_layers

LayersOf(display) == {l \in Layers : zoom_layers[l].owner = display}

Held == {zoom_layers[l].acquire_fence : l \in Layers} \ {NoFence}

FreeFd == Min((1 .. MaxFences) \ fence_fds)

---------------------------------------------------------------------------
(* Queries.                                                                *)

ConfigForDisplay(display) == IF display = WideDisplay THEN 1 ELSE 0

IsConfigForDisplay(display, config) == config = ConfigForDisplay(display)

GetDisplayConfigs(display) == {ConfigForDisplay(display)}

\* Width and height; a configuration of the other endpoint is BAD_CONFIG.
GetDisplayAttribute(display, config) ==
  IF ~IsConfigForDisplay(display, config) THEN <<>>
  ELSE IF display = WideDisplay THEN <<2160, 1915>> ELSE <<1080, 1920>>

GetClientTargetSupport(display, width, height, format) ==
  /\ format \in {"RGBA_8888", "RGBX_8888"}
  /\ <<width, height>> = IF display = WideDisplay THEN <<2160, 1915>> ELSE <<1080, 1920>>

\* The layers whose type the last validation changed.
GetChangedCompositionTypes(display) == {l \in LayersOf(display) : zoom_layers[l].changed}

---------------------------------------------------------------------------
(* The device.                                                             *)

NoLayers == [l \in {} |-> {}]

\* A CAF composer has the function or answers with a null pointer.
LoadRealFns == {RealFns, {}}

\* OpenRealComposer fails (no library, no HMI, no device): nothing is kept.
HwcOpen ==
  /\ ~hw_open /\ hw_open' = TRUE
  /\ fns' \in LoadRealFns
  /\ zoom_layers' = NoLayers /\ next_primary_layer' = 1
  /\ active_config' = [d \in Endpoints |-> 0]
  /\ vsync_enabled' = [d \in Endpoints |-> FALSE] /\ real_vsync' = FALSE
  /\ unaccepted' = {}
  /\ UNCHANGED <<fence_fds, stray_fences>>

\* The layers go with the device; their fences stay open.
HwcCloseLayers ==
  /\ hw_open /\ hw_open' = FALSE
  /\ fns' = {} /\ zoom_layers' = NoLayers /\ unaccepted' = {}
  /\ stray_fences' = stray_fences \cup Held
  /\ real_vsync' = FALSE /\ vsync_enabled' = [d \in Endpoints |-> FALSE]
  /\ UNCHANGED <<next_primary_layer, active_config, fence_fds>>

---------------------------------------------------------------------------
(* Layers.                                                                 *)

LayerVars == <<hw_open, fns, active_config, vsync_enabled, real_vsync>>

CreateLayer(display) ==
  /\ hw_open /\ next_primary_layer <= MaxLayers
  /\ zoom_layers' = [l \in Layers \cup {next_primary_layer} |->
       IF l \in Layers THEN zoom_layers[l]
       ELSE [owner |-> display, requested |-> "DEVICE", validated |-> "CLIENT",
             changed |-> FALSE, acquire_fence |-> NoFence]]
  /\ next_primary_layer' = next_primary_layer + 1
  /\ UNCHANGED <<LayerVars, fence_fds, stray_fences, unaccepted>>

\* Every layer call looks the layer up among the display's own.
Known(display, layer) == hw_open /\ layer \in LayersOf(display)

DestroyLayer(display, layer) ==
  /\ Known(display, layer)
  /\ fence_fds' = fence_fds \ {zoom_layers[layer].acquire_fence}
  /\ zoom_layers' = [l \in Layers \ {layer} |-> zoom_layers[l]]
  /\ unaccepted' = unaccepted \ {layer}
  /\ UNCHANGED <<LayerVars, next_primary_layer, stray_fences>>

\* The held fence is closed, the given one duplicated and closed; a duplicate
\* that fails leaves the layer without one.
SetLayerBuffer(display, layer, fence) ==
  LET left == fence_fds \ {zoom_layers[layer].acquire_fence}
  IN  /\ Known(display, layer)
      /\ fence # NoFence => fence \in 1 .. MaxFences /\ fence \notin left
      /\ fence_fds' = left \cup ({fence} \ {NoFence})
      /\ zoom_layers' = [zoom_layers EXCEPT ![layer].acquire_fence = fence]
      /\ UNCHANGED <<LayerVars, next_primary_layer, stray_fences, unaccepted>>

\* BAD_LAYER returns before the fence it was handed is closed.
SetLayerBufferRefused(display, layer) ==
  /\ hw_open /\ ~Known(display, layer)
  /\ Cardinality(fence_fds) < MaxFences
  /\ fence_fds' = fence_fds \cup {FreeFd} /\ stray_fences' = stray_fences \cup {FreeFd}
  /\ UNCHANGED <<LayerVars, zoom_layers, next_primary_layer, unaccepted>>

SetLayerCompositionType(display, layer, type) ==
  /\ Known(display, layer)
  /\ zoom_layers' = [zoom_layers EXCEPT ![layer].requested = type]
  /\ UNCHANGED <<LayerVars, next_primary_layer, fence_fds, stray_fences, unaccepted>>

\* Dataspace, frame, alpha, sideband, crop, transform, order; damage and
\* visible region are ignored.
SetLayerAttribute(display, layer) == Known(display, layer) /\ UNCHANGED hlVars

\* The release fence of an output buffer is closed at once.
SetOutputBuffer == hw_open /\ UNCHANGED hlVars

ValidateDisplay(display) ==
  /\ hw_open
  /\ zoom_layers' = [l \in Layers |->
       IF zoom_layers[l].owner = display
         THEN [zoom_layers[l] EXCEPT !.validated = "CLIENT",
                                     !.changed = zoom_layers[l].requested # "CLIENT"]
         ELSE zoom_layers[l]]
  /\ unaccepted' = {l \in unaccepted : l \notin LayersOf(display)}
                   \cup {l \in LayersOf(display) : zoom_layers[l].requested # "CLIENT"}
  /\ UNCHANGED <<LayerVars, next_primary_layer, fence_fds, stray_fences>>

AcceptDisplayChanges(display) ==
  /\ hw_open
  /\ zoom_layers' = [l \in Layers |->
       IF zoom_layers[l].owner = display
         THEN [zoom_layers[l] EXCEPT !.requested = zoom_layers[l].validated,
                                     !.changed = FALSE]
         ELSE zoom_layers[l]]
  /\ unaccepted' = unaccepted \ LayersOf(display)
  /\ UNCHANGED <<LayerVars, next_primary_layer, fence_fds, stray_fences>>

---------------------------------------------------------------------------
(* Configurations and vsync.                                               *)

EndpointVars == <<hw_open, fns, zoom_layers, next_primary_layer, fence_fds, stray_fences,
                  unaccepted>>

GetActiveConfig(display) ==
  /\ hw_open
  /\ active_config' = [active_config EXCEPT ![display] = ConfigForDisplay(display)]
  /\ UNCHANGED <<EndpointVars, vsync_enabled, real_vsync>>

\* BAD_CONFIG, an undrained Wide route (Small only) and a refusal by CAF are
\* errors; the refusal comes after the configuration was stored.
SetActiveConfigWithConstraints(display, config) ==
  /\ hw_open /\ IsConfigForDisplay(display, config)
  /\ active_config' = [active_config EXCEPT ![display] = ConfigForDisplay(display)]
  /\ UNCHANGED <<EndpointVars, vsync_enabled, real_vsync>>

\* Mutant: CAF is told what this endpoint wants.
SetVsyncEnabled_own(display, enabled) ==
  /\ hw_open /\ vsync_enabled' = [vsync_enabled EXCEPT ![display] = enabled]
  /\ real_vsync' = IF "setVsyncEnabled" \in fns THEN enabled ELSE real_vsync
  /\ UNCHANGED <<EndpointVars, active_config>>

\* One step although the lock is released before CAF is called: SurfaceFlinger
\* switches vsync from one thread.
SetVsyncEnabled(display, enabled) ==
  LET flags == [vsync_enabled EXCEPT ![display] = enabled]
  IN  /\ hw_open /\ vsync_enabled' = flags
      /\ real_vsync' = IF "setVsyncEnabled" \in fns THEN \E d \in Endpoints : flags[d]
                                                    ELSE real_vsync
      /\ UNCHANGED <<EndpointVars, active_config>>

\* The endpoints a vsync of fb0 is fanned out to.
PrimaryVsyncTrampoline == {d \in Endpoints : real_vsync /\ vsync_enabled[d]}

---------------------------------------------------------------------------

HlInit ==
  /\ hw_open = FALSE /\ fns = {} /\ zoom_layers = NoLayers /\ next_primary_layer = 1
  /\ active_config = [d \in Endpoints |-> 0]
  /\ vsync_enabled = [d \in Endpoints |-> FALSE] /\ real_vsync = FALSE
  /\ fence_fds = {} /\ stray_fences = {} /\ unaccepted = {}

HlNext ==
  \/ HwcOpen \/ HwcCloseLayers \/ SetOutputBuffer
  \/ \E display \in Endpoints :
       \/ CreateLayer(display) \/ ValidateDisplay(display) \/ AcceptDisplayChanges(display)
       \/ GetActiveConfig(display)
       \/ \E config \in 0 .. 1 : SetActiveConfigWithConstraints(display, config)
       \/ \E enabled \in BOOLEAN : SetVsyncEnabled(display, enabled)
       \/ \E layer \in 1 .. MaxLayers :
            \/ DestroyLayer(display, layer) \/ SetLayerAttribute(display, layer)
            \/ SetLayerBufferRefused(display, layer)
            \/ \E type \in {"DEVICE", "CLIENT"} : SetLayerCompositionType(display, layer, type)
       \/ \E layer \in Layers, fence \in {NoFence} \cup 1 .. MaxFences :
            SetLayerBuffer(display, layer, fence)

HlSpec == HlInit /\ [][HlNext]_hlVars

---------------------------------------------------------------------------
(* Properties.                                                             *)

\* What a display asks SurfaceFlinger to change is what its own last validation
\* found and it has not accepted, whatever the other endpoint did meanwhile.
ChangesReported ==
  hw_open => UNION {GetChangedCompositionTypes(d) : d \in Endpoints} = unaccepted

\* Every open fence descriptor is held by one layer, or was left behind by a
\* refused call or a close.
FencesOwned ==
  /\ fence_fds = Held \cup stray_fences /\ Held \cap stray_fences = {}
  /\ \A k, l \in Layers : k # l /\ zoom_layers[k].acquire_fence # NoFence =>
       zoom_layers[k].acquire_fence # zoom_layers[l].acquire_fence

\* fb0 delivers vsync while either endpoint wants it: switching one endpoint
\* off does not silence the other.
VsyncShared ==
  "setVsyncEnabled" \in fns => PrimaryVsyncTrampoline = {d \in Endpoints : vsync_enabled[d]}

\* The configuration an endpoint reports is one it lists, and it composes into
\* buffers of the size that configuration announces.
ConfigUsable ==
  \A d \in Endpoints : \A config \in GetDisplayConfigs(d) :
    LET size == GetDisplayAttribute(d, config)
    IN  /\ config = ConfigForDisplay(d) /\ size # <<>>
        /\ GetClientTargetSupport(d, size[1], size[2], "RGBA_8888")

\* The two endpoints share a layer map, a vsync and the fence table without
\* disturbing each other (hwc2_fujisan.cpp:1010, 1569, 1853, 1872).
EndpointsIndependent == ChangesReported /\ FencesOwned /\ VsyncShared /\ ConfigUsable

=============================================================================
