---------------------------- MODULE CameraPanel ----------------------------
(***************************************************************************)
(* CameraPanelService: while an app holds a camera the folded device shows *)
(* the picture on the panel that faces the right way (rear camera: B,      *)
(* front camera: A), and after the session the user's panel comes back.    *)
(*                                                                         *)
(* Everything runs on the main handler, one message at a time, except the  *)
(* property-change callback, which a binder thread runs.  postDelayed is   *)
(* modelled without clocks: a posted runnable may run at any later time    *)
(* until it is removed.  The panel daemon is fujisan_halld (see Halld),    *)
(* seen from its socket: it takes a selection while folded and publishes   *)
(* the active panel a little later.                                        *)
(***************************************************************************)
EXTENDS Naturals, FiniteSets

CONSTANTS Cameras,        \* camera ids; "0" is the rear one, "1" the front one
          MaxOpens,       \* bound on camera opens
          MaxFolds,       \* bound on folds and unfolds
          MaxToggles,     \* bound on panel toggles by the user's tile
          MaxRestarts,    \* bound on service restarts (START_STICKY)
          SocketMayFail   \* the daemon may be unreachable

ASSUME CamerasAssumption == Cameras \subseteq STRING
ASSUME CameraBounds ==
    {MaxOpens, MaxFolds, MaxToggles, MaxRestarts} \subseteq Nat
ASSUME SocketAssumption == SocketMayFail \in BOOLEAN

VARIABLES
    held,       \* external: the cameras apps hold
    mode,       \* external: vendor.fujisan.display_mode
    active,     \* external: vendor.fujisan.active_primary
    preferred,  \* external: persist.vendor.fujisan.primary_panel
    userPanel,  \* history: the panel the user last chose
    notify,     \* a property changed and the change callback has not run yet
    posted,     \* handleSystemPropertyChanged is in the main handler's queue
    svc,        \* the fields of CameraPanelService
    budget      \* what is left of each bound

vars == <<held, mode, active, preferred, userPanel, notify, posted, svc, budget>>

None == "none"
Panels == {"a", "b"}

\* The service's fields; pc is the point of a handler between two reads of the
\* display mode, panelSwitch the pending runnable of either kind and its target.
NoSwitch == [kind |-> None, target |-> "a"]
Created ==
    [mUnavailable |-> {}, mOriginalPanel |-> None, mActiveFacing |-> None,
     mAwaitingFold |-> FALSE, mPendingPanelSwitch |-> NoSwitch,
     mPendingSessionEnd |-> FALSE, mPendingFoldCheck |-> FALSE, pc |-> "idle"]

logicalFacing(id) == IF id = "0" THEN "back" ELSE IF id = "1" THEN "front" ELSE None
isHandledFacing(f) == f \in {"back", "front"}
panelForFacing(f) == IF f = "back" THEN "b" ELSE "a"

Init ==
    /\ held = {}
    /\ mode \in {"single", "zoom"}
    /\ preferred \in Panels
    /\ active = IF mode = "zoom" THEN "a" ELSE preferred
    /\ userPanel = preferred
    /\ notify = FALSE
    /\ posted = FALSE
    /\ svc = Created
    /\ budget = [opens |-> MaxOpens, folds |-> MaxFolds, toggles |-> MaxToggles,
                 restarts |-> MaxRestarts]

Spend(what) == budget[what] > 0 /\ budget' = [budget EXCEPT ![what] = @ - 1]
-----------------------------------------------------------------------------
(* The environment. *)

OpenCamera(id) ==
    /\ id \notin held /\ Spend("opens")
    /\ held' = held \cup {id}
    /\ UNCHANGED <<mode, active, preferred, userPanel, notify, posted, svc>>

CloseCamera(id) ==
    /\ id \in held
    /\ held' = held \ {id}
    /\ UNCHANGED <<mode, active, preferred, userPanel, notify, posted, svc, budget>>

\* The hinge moves and the daemon publishes the new topology.
Fold ==
    /\ Spend("folds")
    /\ mode' = IF mode = "zoom" THEN "single" ELSE "zoom"
    /\ active' = IF mode = "zoom" THEN preferred ELSE "a"
    /\ notify' = TRUE
    /\ UNCHANGED <<held, preferred, userPanel, posted, svc>>

\* The user's tile selects the other panel.
TileToggle ==
    /\ mode = "single" /\ Spend("toggles")
    /\ preferred' = IF preferred = "b" THEN "a" ELSE "b"
    /\ userPanel' = preferred'
    /\ UNCHANGED <<held, mode, active, notify, posted, svc>>

\* The daemon publishes the folded selection.
PublishActive ==
    /\ mode = "single" /\ active # preferred
    /\ active' = preferred
    /\ notify' = TRUE
    /\ UNCHANGED <<held, mode, preferred, userPanel, posted, svc, budget>>
-----------------------------------------------------------------------------
(* The service.  Each operator below yields the fields after the Java method. *)

cancelPendingSessionEnd(s) == [s EXCEPT !.mPendingSessionEnd = FALSE]
cancelPendingPanelSwitch(s) == [s EXCEPT !.mPendingPanelSwitch = NoSwitch]
cancelPendingFoldCheck(s) == [s EXCEPT !.mPendingFoldCheck = FALSE]

beginCameraSessionIfNeeded(s) ==
    IF s.mOriginalPanel # None THEN s
    ELSE [s EXCEPT !.mOriginalPanel = IF mode = "zoom" THEN preferred ELSE active]

\* The last reads of switchPanelForActiveCamera, on a folded device.
schedulePanelSwitch(s) ==
    LET target == panelForFacing(s.mActiveFacing)
    IN  [s EXCEPT !.mPendingPanelSwitch =
            IF active = target THEN NoSwitch ELSE [kind |-> "camera", target |-> target]]

\* Unfolded: continue at "await", which sets mAwaitingFold and looks again.
switchPanelForActiveCamera(s) ==
    IF s.mOriginalPanel = None \/ ~isHandledFacing(s.mActiveFacing) THEN s
    ELSE IF mode = "zoom" THEN [s EXCEPT !.pc = "await"]
    ELSE schedulePanelSwitch(s)

\* Mutant: nothing is posted after the wait began.
handleSystemPropertyChangedNot(s) == s

\* handleSystemPropertyChanged with scheduleFoldedPanelCheck.
handleSystemPropertyChanged(s) ==
    IF s.mAwaitingFold /\ s.mOriginalPanel # None /\ s.mUnavailable # {} /\ mode # "zoom"
    THEN [s EXCEPT !.mPendingFoldCheck = TRUE]
    ELSE s

\* Mutant: a pending restore survives the next release.
scheduleCameraStopUncancelled(s) ==
    IF s.mOriginalPanel = None \/ s.mPendingSessionEnd THEN s
    ELSE cancelPendingFoldCheck([s EXCEPT !.mPendingSessionEnd = TRUE])

scheduleCameraStop(s) ==
    IF s.mOriginalPanel = None \/ s.mPendingSessionEnd THEN s
    ELSE cancelPendingPanelSwitch(cancelPendingFoldCheck(
            [s EXCEPT !.mPendingSessionEnd = TRUE]))

\* Mutant: an unfolded session is skipped before its fields are reset.
finishCameraSessionSkipped(s) ==
    LET restore == s.mOriginalPanel IN
    IF mode = "zoom" THEN s
    ELSE [s EXCEPT !.mAwaitingFold = FALSE, !.mOriginalPanel = None,
                   !.mActiveFacing = None, !.mPendingFoldCheck = FALSE,
                   !.mPendingPanelSwitch =
                        IF active = restore THEN NoSwitch
                        ELSE [kind |-> "restore", target |-> restore]]

finishCameraSession(s) ==
    LET restore == s.mOriginalPanel
        t == cancelPendingPanelSwitch(cancelPendingFoldCheck(
                [s EXCEPT !.mAwaitingFold = FALSE, !.mOriginalPanel = None,
                          !.mActiveFacing = IF restore = None THEN @ ELSE None]))
    IN  IF restore = None \/ mode = "zoom" \/ active = restore THEN t
        ELSE [t EXCEPT !.mPendingPanelSwitch = [kind |-> "restore", target |-> restore]]

\* A handler leaves everything outside the service alone.
Handler(s) ==
    /\ svc' = s
    /\ UNCHANGED <<held, mode, active, preferred, userPanel, notify, posted, budget>>

\* AvailabilityCallback.onCameraUnavailable; only the first id starts a session.
onCameraUnavailable(id) ==
    /\ svc.pc = "idle" /\ id \in held \ svc.mUnavailable
    /\ LET s == [svc EXCEPT !.mUnavailable = @ \cup {id}]
           f == logicalFacing(id)
       IN  Handler(IF Cardinality(s.mUnavailable) # 1 \/ ~isHandledFacing(f) THEN s
                   ELSE [beginCameraSessionIfNeeded(cancelPendingSessionEnd(s))
                            EXCEPT !.mActiveFacing = f, !.pc = "started"])

\* The rest of handleCameraStart, which reads the display mode again.
handleCameraStart ==
    /\ svc.pc = "started"
    /\ Handler(IF mode = "zoom" THEN [svc EXCEPT !.pc = "await"]
               ELSE switchPanelForActiveCamera(cancelPendingFoldCheck(
                        [svc EXCEPT !.mAwaitingFold = FALSE, !.pc = "idle"])))

awaitFold ==
    /\ svc.pc = "await"
    /\ Handler(handleSystemPropertyChanged(
                    [svc EXCEPT !.mAwaitingFold = TRUE, !.pc = "idle"]))

onCameraAvailable(id) ==
    /\ svc.pc = "idle" /\ id \in svc.mUnavailable \ held
    /\ LET s == [svc EXCEPT !.mUnavailable = @ \ {id}]
       IN  Handler(IF s.mUnavailable = {} THEN scheduleCameraStop(s) ELSE s)

\* mSystemPropertyChanged, on a binder thread at any time.
mSystemPropertyChanged ==
    /\ notify
    /\ notify' = FALSE
    /\ posted' = (posted \/ svc.mAwaitingFold)
    /\ UNCHANGED <<held, mode, active, preferred, userPanel, svc, budget>>

runPropertyChanged ==
    /\ svc.pc = "idle" /\ posted
    /\ posted' = FALSE
    /\ svc' = handleSystemPropertyChanged(svc)
    /\ UNCHANGED <<held, mode, active, preferred, userPanel, notify, budget>>

runFoldCheck ==
    /\ svc.pc = "idle" /\ svc.mPendingFoldCheck
    /\ LET s == [svc EXCEPT !.mPendingFoldCheck = FALSE]
       IN  Handler(IF s.mOriginalPanel = None \/ s.mUnavailable = {} \/ ~s.mAwaitingFold
                      \/ mode = "zoom"
                   THEN s
                   ELSE switchPanelForActiveCamera([s EXCEPT !.mAwaitingFold = FALSE]))

runSessionEnd ==
    /\ svc.pc = "idle" /\ svc.mPendingSessionEnd
    /\ LET s == [svc EXCEPT !.mPendingSessionEnd = FALSE]
       IN  Handler(IF s.mUnavailable # {} THEN s ELSE finishCameraSession(s))

\* requestPanel: the daemon takes the selection only while folded.
requestPanel(target) ==
    \/ mode = "single" /\ preferred' = target
    \/ (SocketMayFail \/ mode # "single") /\ UNCHANGED preferred

runPanelSwitch ==
    /\ svc.pc = "idle" /\ svc.mPendingPanelSwitch # NoSwitch
    /\ LET p == svc.mPendingPanelSwitch
           fires == /\ mode = "single"
                    /\ \/ /\ p.kind = "camera"
                          /\ svc.mUnavailable # {} /\ svc.mOriginalPanel # None
                          /\ p.target = panelForFacing(svc.mActiveFacing)
                       \/ /\ p.kind = "restore"
                          /\ svc.mUnavailable = {}
       IN  IF fires THEN requestPanel(p.target) ELSE UNCHANGED preferred
    /\ svc' = cancelPendingPanelSwitch(svc)
    /\ UNCHANGED <<held, mode, active, userPanel, notify, posted, budget>>

\* The service is destroyed and, START_STICKY, created again: a new object, which
\* the registration tells of every camera that is held.
Restart ==
    /\ svc.pc = "idle" /\ Spend("restarts")
    /\ svc' = Created /\ posted' = FALSE
    /\ UNCHANGED <<held, mode, active, preferred, userPanel, notify>>
-----------------------------------------------------------------------------
MainThread ==
    \/ \E id \in Cameras : onCameraUnavailable(id) \/ onCameraAvailable(id)
    \/ handleCameraStart \/ awaitFold \/ runPropertyChanged \/ runFoldCheck
    \/ runSessionEnd \/ runPanelSwitch

Environment ==
    \/ \E id \in Cameras : OpenCamera(id) \/ CloseCamera(id)
    \/ Fold \/ TileToggle \/ Restart

Next == MainThread \/ mSystemPropertyChanged \/ PublishActive \/ Environment

Spec == Init /\ [][Next]_vars

\* Every message of the main handler is handled; the callback and the daemon run.
FairSpec ==
    /\ Spec
    /\ \A id \in Cameras : WF_vars(onCameraUnavailable(id)) /\ WF_vars(onCameraAvailable(id))
    /\ WF_vars(handleCameraStart) /\ WF_vars(awaitFold)
    /\ SF_vars(runPropertyChanged) /\ SF_vars(runFoldCheck)
    /\ SF_vars(runSessionEnd) /\ SF_vars(runPanelSwitch)
    /\ WF_vars(mSystemPropertyChanged) /\ WF_vars(PublishActive)
-----------------------------------------------------------------------------
(* Properties. *)

TypeOK ==
    /\ held \subseteq Cameras /\ svc.mUnavailable \subseteq Cameras
    /\ mode \in {"single", "zoom"}
    /\ {active, preferred, userPanel} \subseteq Panels
    /\ notify \in BOOLEAN /\ posted \in BOOLEAN
    /\ svc.mOriginalPanel \in Panels \cup {None}
    /\ svc.mActiveFacing \in {"back", "front", None}
    /\ svc.mPendingPanelSwitch \in [kind : {"camera", "restore", None}, target : Panels]
    /\ svc.pc \in {"idle", "started", "await"}

\* The runnable that restores the user's panel never runs to effect inside a new
\* session: whenever it asks the daemon for a panel, no session is open (its own
\* test only looks at the cameras, which are all free for a while in a session).
RestoreOutsideSession ==
    [][(svc.mPendingPanelSwitch.kind = "restore" /\ svc'.mPendingPanelSwitch = NoSwitch
            /\ preferred' # preferred)
        => svc.mOriginalPanel = None]_vars

\* A camera session whose cameras stay free ends.
SessionEnds ==
    (svc.mOriginalPanel # None /\ held = {})
        ~> (svc.mOriginalPanel = None \/ held # {})

\* CameraPanelService.java:135, a session that began unfolded notices the fold,
\* whatever the order of the display-mode reads, the callback and the fold, while
\* only the two logical cameras are in use.  (A third id that turns up within the
\* stop debounce keeps the session of a released camera open, fold check cancelled.)
Logical == held # {} /\ held \subseteq {"0", "1"}
FoldNoticed ==
    (svc.mAwaitingFold /\ svc.mOriginalPanel # None /\ Logical /\ mode = "single")
        ~> (~svc.mAwaitingFold \/ mode = "zoom" \/ ~Logical)

\* CameraPanelService.java:28-31, the session snapshot is kept "so a front/back
\* switch cannot become a new session with the already-flipped panel as its
\* restore target".
OriginalIsUsers == svc.mOriginalPanel \in {None, userPanel}
=============================================================================
