-------------------------- MODULE CameraPanelProofs --------------------------
(***************************************************************************)
(* Proofs about the camera panel bridge, for every set of cameras and any  *)
(* number of opens, folds, toggles and restarts of the service.            *)
(*                                                                         *)
(* The runnable that gives the user's panel back tests only that no camera *)
(* is in use.  A session may be open then: it ends a second after its last *)
(* camera.  What keeps the runnable out of it is what every handler does   *)
(* to the pending runnables before a camera is let go.                     *)
(***************************************************************************)
EXTENDS CameraPanel, TLAPS

\* The fields of the service.
Switches == [kind : {"camera", "restore", None}, target : Panels]

Fields ==
    [mUnavailable : SUBSET Cameras, mOriginalPanel : Panels \cup {None},
     mActiveFacing : {"back", "front", None}, mAwaitingFold : BOOLEAN,
     mPendingPanelSwitch : Switches, mPendingSessionEnd : BOOLEAN,
     mPendingFoldCheck : BOOLEAN, pc : {"idle", "started", "await"}]

Surroundings ==
    /\ held \subseteq Cameras /\ mode \in {"single", "zoom"}
    /\ active \in Panels /\ preferred \in Panels /\ userPanel \in Panels
    /\ notify \in BOOLEAN /\ posted \in BOOLEAN

\* A restore that is still pending in a session has met a camera that is held,
\* and the end of the session is not pending beside it.
RestoreKnown(s) ==
    s.mPendingPanelSwitch.kind = "restore" /\ s.mOriginalPanel # None =>
        s.mUnavailable # {} /\ ~s.mPendingSessionEnd

IInv == Surroundings /\ svc \in Fields /\ RestoreKnown(svc)

\* The fields that a handler may leave behind.
Sound(s) == s \in Fields /\ RestoreKnown(s)
-----------------------------------------------------------------------------
(* The operators of the service. *)

\* No switch is no restore.
LEMMA NoSwitchKind == NoSwitch \in Switches /\ NoSwitch.kind = None /\ None # "restore"
  BY DEF NoSwitch, Switches, Panels, None

\* A switch is scheduled for the camera, or none is left.
LEMMA ScheduleSound ==
    ASSUME NEW s \in Fields
    PROVE  schedulePanelSwitch(s) \in Fields /\ RestoreKnown(schedulePanelSwitch(s))
<1> DEFINE target == panelForFacing(s.mActiveFacing)
           p == IF active = target THEN NoSwitch ELSE [kind |-> "camera", target |-> target]
<1>1. schedulePanelSwitch(s) = [s EXCEPT !.mPendingPanelSwitch = p]
  BY DEF schedulePanelSwitch
<1>2. target \in Panels
  BY DEF panelForFacing, Panels
<1>3. p \in Switches /\ p.kind # "restore"
  BY <1>2, NoSwitchKind DEF Switches
<1> HIDE DEF p
<1> QED  BY <1>1, <1>3 DEF Fields, RestoreKnown

\* The switch of a session goes on, or waits for the fold.
LEMMA SwitchSound ==
    ASSUME NEW s, Sound(s)
    PROVE  Sound(switchPanelForActiveCamera(s))
<1>1. Sound([s EXCEPT !.pc = "await"])
  BY DEF Sound, Fields, RestoreKnown
<1> QED  BY <1>1, ScheduleSound DEF Sound, switchPanelForActiveCamera

\* A fold check is posted, or nothing is.
LEMMA PropertySound ==
    ASSUME NEW s, Sound(s)
    PROVE  Sound(handleSystemPropertyChanged(s))
<1>1. Sound([s EXCEPT !.mPendingFoldCheck = TRUE])
  BY DEF Sound, Fields, RestoreKnown
<1> QED  BY <1>1 DEF handleSystemPropertyChanged

\* The last camera of a session takes a pending restore with it.
LEMMA StopSound ==
    ASSUME NEW s \in Fields, s.mPendingPanelSwitch.kind = "restore" /\ s.mOriginalPanel # None
                                => ~s.mPendingSessionEnd
    PROVE  Sound(scheduleCameraStop(s))
<1>1. CASE s.mOriginalPanel = None \/ s.mPendingSessionEnd
  BY <1>1 DEF scheduleCameraStop, Sound, RestoreKnown
<1>2. CASE ~(s.mOriginalPanel = None \/ s.mPendingSessionEnd)
  <2> DEFINE t == [s EXCEPT !.mPendingSessionEnd = TRUE]
             u == [t EXCEPT !.mPendingFoldCheck = FALSE]
             v == [u EXCEPT !.mPendingPanelSwitch = NoSwitch]
  <2>1. scheduleCameraStop(s) = v
    BY <1>2 DEF scheduleCameraStop, cancelPendingPanelSwitch, cancelPendingFoldCheck
  <2>2. v \in Fields /\ v.mPendingPanelSwitch = NoSwitch
    BY NoSwitchKind DEF Fields
  <2> HIDE DEF v
  <2> QED  BY <2>1, <2>2, NoSwitchKind DEF Sound, RestoreKnown
<1> QED  BY <1>1, <1>2

\* A session that ends leaves none open.
LEMMA FinishSound ==
    ASSUME NEW s \in Fields
    PROVE  Sound(finishCameraSession(s))
<1> DEFINE restore == s.mOriginalPanel
           r == [s EXCEPT !.mAwaitingFold = FALSE, !.mOriginalPanel = None,
                          !.mActiveFacing = IF restore = None THEN @ ELSE None]
           t == [[r EXCEPT !.mPendingFoldCheck = FALSE] EXCEPT !.mPendingPanelSwitch = NoSwitch]
<1>1. t \in Fields /\ t.mOriginalPanel = None
  BY NoSwitchKind DEF Fields
<1>2. \/ finishCameraSession(s) = t
      \/ /\ restore # None
         /\ finishCameraSession(s) =
              [t EXCEPT !.mPendingPanelSwitch = [kind |-> "restore", target |-> restore]]
  BY DEF finishCameraSession, cancelPendingPanelSwitch, cancelPendingFoldCheck
<1>3. restore # None => [kind |-> "restore", target |-> restore] \in Switches
  BY DEF Fields, Switches
<1> HIDE DEF t, restore
<1>4. restore # None =>
        /\ [t EXCEPT !.mPendingPanelSwitch = [kind |-> "restore", target |-> restore]] \in Fields
        /\ [t EXCEPT !.mPendingPanelSwitch = [kind |-> "restore", target |-> restore]]
             .mOriginalPanel = None
  BY <1>1, <1>3 DEF Fields
<1> QED  BY <1>1, <1>2, <1>4 DEF Sound, RestoreKnown
-----------------------------------------------------------------------------
(* The inductive invariant, handler by handler. *)

\* A handler that leaves its fields sound keeps the invariant.
LEMMA HandlerKeeps ==
    ASSUME IInv, NEW s, Handler(s), Sound(s)
    PROVE  IInv'
  BY DEF IInv, Handler, Sound, Surroundings, RestoreKnown, Fields, Switches, Panels

\* A step that leaves the service alone keeps what is known of it.
LEMMA OutsideKeeps ==
    ASSUME IInv, UNCHANGED svc, Surroundings'
    PROVE  IInv'
  BY DEF IInv, RestoreKnown

\* A camera that is taken, in a session or as its first, is held when a restore pends.
LEMMA UnavailableKeeps ==
    ASSUME IInv, NEW id \in Cameras, onCameraUnavailable(id)
    PROVE  IInv'
<1> DEFINE s == [svc EXCEPT !.mUnavailable = @ \cup {id}]
           f == logicalFacing(id)
           b == beginCameraSessionIfNeeded(cancelPendingSessionEnd(s))
           n == [b EXCEPT !.mActiveFacing = f, !.pc = "started"]
<1>1. /\ s \in Fields /\ s.mUnavailable # {}
      /\ s.mPendingPanelSwitch = svc.mPendingPanelSwitch
      /\ s.mOriginalPanel = svc.mOriginalPanel
      /\ s.mPendingSessionEnd = svc.mPendingSessionEnd
  BY DEF IInv, Fields
<1>2. Sound(s)
  BY <1>1 DEF IInv, Sound, RestoreKnown
<1> HIDE DEF s
<1>3. ASSUME isHandledFacing(f)
      PROVE  Sound(n)
  <2>1. b \in Fields /\ b.mUnavailable # {} /\ ~b.mPendingSessionEnd
    BY <1>1 DEF beginCameraSessionIfNeeded, cancelPendingSessionEnd, Fields, IInv, Surroundings
  <2> HIDE DEF b
  <2>2. n \in Fields /\ n.mUnavailable # {} /\ ~n.mPendingSessionEnd
    BY <1>3, <2>1 DEF Fields, isHandledFacing
  <2> HIDE DEF n
  <2> QED  BY <2>2 DEF Sound, RestoreKnown
<1>4. Handler(s) \/ (isHandledFacing(f) /\ Handler(n))
  BY DEF onCameraUnavailable, s
<1> HIDE DEF f, n
<1> QED  BY <1>2, <1>3, <1>4, HandlerKeeps

\* A camera that is let go is the last, and stops the session, or is not.
LEMMA AvailableKeeps ==
    ASSUME IInv, NEW id \in Cameras, onCameraAvailable(id)
    PROVE  IInv'
<1> DEFINE s == [svc EXCEPT !.mUnavailable = @ \ {id}]
<1>1. /\ s \in Fields
      /\ s.mPendingPanelSwitch = svc.mPendingPanelSwitch
      /\ s.mOriginalPanel = svc.mOriginalPanel
      /\ s.mPendingSessionEnd = svc.mPendingSessionEnd
  BY DEF IInv, Fields
<1>2. Handler(IF s.mUnavailable = {} THEN scheduleCameraStop(s) ELSE s)
  BY DEF onCameraAvailable
<1> HIDE DEF s
<1>3. s.mPendingPanelSwitch.kind = "restore" /\ s.mOriginalPanel # None => ~s.mPendingSessionEnd
  BY <1>1 DEF IInv, RestoreKnown
<1>4. CASE s.mUnavailable = {}
  BY <1>1, <1>2, <1>3, <1>4, StopSound, HandlerKeeps
<1>5. CASE s.mUnavailable # {}
  <2>1. Sound(s)
    BY <1>1, <1>3, <1>5 DEF Sound, RestoreKnown
  <2> QED  BY <1>2, <1>5, <2>1, HandlerKeeps
<1> QED  BY <1>4, <1>5

\* The rest of the start of a session.
LEMMA StartKeeps ==
    ASSUME IInv, handleCameraStart
    PROVE  IInv'
<1> DEFINE s == cancelPendingFoldCheck([svc EXCEPT !.mAwaitingFold = FALSE, !.pc = "idle"])
           w == [svc EXCEPT !.pc = "await"]
<1>1. Sound(w)
  BY DEF IInv, Sound, Fields, RestoreKnown
<1>2. Sound(s)
  BY DEF IInv, Sound, Fields, RestoreKnown, cancelPendingFoldCheck
<1>3. Handler(w) \/ Handler(switchPanelForActiveCamera(s))
  BY DEF handleCameraStart
<1> HIDE DEF s, w
<1> QED  BY <1>1, <1>2, <1>3, SwitchSound, HandlerKeeps

\* The wait for a fold begins and looks again.
LEMMA AwaitKeeps ==
    ASSUME IInv, awaitFold
    PROVE  IInv'
<1> DEFINE s == [svc EXCEPT !.mAwaitingFold = TRUE, !.pc = "idle"]
<1>1. Sound(s)
  BY DEF IInv, Sound, Fields, RestoreKnown
<1>2. Handler(handleSystemPropertyChanged(s))
  BY DEF awaitFold
<1> HIDE DEF s
<1> QED  BY <1>1, <1>2, PropertySound, HandlerKeeps

\* The posted property change, on the main thread.
LEMMA PropertyKeeps ==
    ASSUME IInv, runPropertyChanged
    PROVE  IInv'
<1>1. Sound(svc')
  BY PropertySound DEF IInv, Sound, runPropertyChanged
<1> QED  BY <1>1 DEF IInv, Surroundings, Sound, RestoreKnown, runPropertyChanged

\* The fold check, which may switch the panel.
LEMMA FoldCheckKeeps ==
    ASSUME IInv, runFoldCheck
    PROVE  IInv'
<1> DEFINE s == [svc EXCEPT !.mPendingFoldCheck = FALSE]
           t == [s EXCEPT !.mAwaitingFold = FALSE]
<1>1. Sound(s)
  BY DEF IInv, Sound, Fields, RestoreKnown
<1>2. Sound(t)
  BY DEF IInv, Sound, Fields, RestoreKnown
<1>3. Handler(s) \/ Handler(switchPanelForActiveCamera(t))
  BY DEF runFoldCheck
<1> HIDE DEF s, t
<1> QED  BY <1>1, <1>2, <1>3, SwitchSound, HandlerKeeps

\* The end of a session, unless a camera was taken meanwhile.
LEMMA SessionEndKeeps ==
    ASSUME IInv, runSessionEnd
    PROVE  IInv'
<1> DEFINE s == [svc EXCEPT !.mPendingSessionEnd = FALSE]
<1>1. Sound(s)
  BY DEF IInv, Sound, Fields, RestoreKnown
<1>2. Handler(s) \/ Handler(finishCameraSession(s))
  BY DEF runSessionEnd
<1> HIDE DEF s
<1> QED  BY <1>1, <1>2, FinishSound, HandlerKeeps DEF Sound

\* A switch that has run is pending no more.
LEMMA PanelSwitchKeeps ==
    ASSUME IInv, runPanelSwitch
    PROVE  IInv'
<1>1. svc' \in Fields /\ svc'.mPendingPanelSwitch = NoSwitch
  BY NoSwitchKind DEF IInv, Fields, runPanelSwitch, cancelPendingPanelSwitch
<1>2. RestoreKnown(svc')
  BY <1>1, NoSwitchKind DEF RestoreKnown
<1>3. svc.mPendingPanelSwitch.target \in Panels
  BY DEF IInv, Fields, Switches
<1>4. preferred' \in Panels
  BY <1>3 DEF IInv, Surroundings, runPanelSwitch, requestPanel
<1>5. Surroundings'
  BY <1>4 DEF IInv, Surroundings, runPanelSwitch
<1> QED  BY <1>1, <1>2, <1>5 DEF IInv, RestoreKnown

\* A new service object has nothing pending.
LEMMA CreatedSound == Sound(Created)
<1>1. Created \in Fields
  BY NoSwitchKind DEF Created, Fields, None
<1>2. Created.mPendingPanelSwitch = NoSwitch
  BY DEF Created
<1> QED  BY <1>1, <1>2, NoSwitchKind DEF Sound, RestoreKnown

\* The apps, the hinge, the tile and the daemon leave the service alone; a restart
\* replaces it.
LEMMA EnvironmentKeeps ==
    ASSUME IInv, Environment \/ PublishActive \/ mSystemPropertyChanged
    PROVE  IInv'
<1>1. ASSUME NEW id \in Cameras, OpenCamera(id) \/ CloseCamera(id)
      PROVE  IInv'
  BY <1>1, OutsideKeeps DEF IInv, Surroundings, OpenCamera, CloseCamera
<1>2. CASE Fold \/ TileToggle \/ PublishActive
  BY <1>2, OutsideKeeps DEF IInv, Surroundings, Fold, TileToggle, PublishActive, Panels
<1>3. CASE mSystemPropertyChanged
  <2>1. posted' \in BOOLEAN
    BY <1>3 DEF IInv, Surroundings, Fields, mSystemPropertyChanged
  <2> QED  BY <1>3, <2>1, OutsideKeeps DEF IInv, Surroundings, mSystemPropertyChanged
<1>4. CASE Restart
  BY <1>4, CreatedSound DEF IInv, Surroundings, Sound, RestoreKnown, Restart
<1> QED  BY <1>1, <1>2, <1>3, <1>4 DEF Environment

\* Every state of the service and its surroundings meets the invariant.
LEMMA Invariant == Spec => []IInv
<1>1. Init => IInv
  BY CreatedSound DEF Init, IInv, Surroundings, Sound, Panels
<1>2. IInv /\ [Next]_vars => IInv'
  <2> SUFFICES ASSUME IInv, [Next]_vars PROVE IInv'
    OBVIOUS
  <2>1. CASE UNCHANGED vars
    BY <2>1 DEF IInv, Surroundings, RestoreKnown, vars
  <2>2. CASE MainThread
    BY <2>2, UnavailableKeeps, AvailableKeeps, StartKeeps, AwaitKeeps, PropertyKeeps,
       FoldCheckKeeps, SessionEndKeeps, PanelSwitchKeeps DEF MainThread
  <2> QED  BY <2>1, <2>2, EnvironmentKeeps DEF Next
<1> QED  BY <1>1, <1>2, PTL DEF Spec
-----------------------------------------------------------------------------
(* Theorems. *)

\* CameraPanelService, every field and property has its type.
THEOREM TypeCorrect == Spec => []TypeOK
<1>1. IInv => TypeOK
  BY DEF IInv, TypeOK, Surroundings, Fields, Switches
<1> QED  BY <1>1, Invariant, PTL

\* CameraPanelService.requestPanel, a switch that moves the panel was the camera's or ran with
\* no camera in use; only runPanelSwitch asks the daemon for one.
LEMMA RestoreStep ==
    ASSUME IInv, Next, svc.mPendingPanelSwitch.kind = "restore",
           svc'.mPendingPanelSwitch = NoSwitch, preferred' # preferred
    PROVE  svc.mOriginalPanel = None
<1>1. svc' # svc
  BY NoSwitchKind
<1>2. CASE runPanelSwitch
  <2>1. svc.mUnavailable = {}
    BY <1>2 DEF runPanelSwitch
  <2> QED  BY <2>1 DEF IInv, RestoreKnown
<1>3. CASE \/ \E id \in Cameras : onCameraUnavailable(id) \/ onCameraAvailable(id)
           \/ handleCameraStart \/ awaitFold \/ runPropertyChanged \/ runFoldCheck
           \/ runSessionEnd
  BY <1>3 DEF onCameraUnavailable, onCameraAvailable, handleCameraStart, awaitFold,
       runPropertyChanged, runFoldCheck, runSessionEnd, Handler
<1>4. CASE mSystemPropertyChanged \/ PublishActive \/ Environment
  BY <1>1, <1>4 DEF mSystemPropertyChanged, PublishActive, Environment, OpenCamera,
       CloseCamera, Fold, TileToggle, Restart
<1> QED  BY <1>2, <1>3, <1>4 DEF Next, MainThread

\* CameraPanelService.finishCameraSession, the runnable that gives the panel back
\* never asks the daemon for it inside a later session, although it only tests that
\* no camera is in use.
THEOREM RestoreStaysOutside == Spec => RestoreOutsideSession
<1>1. IInv /\ [Next]_vars =>
        [(svc.mPendingPanelSwitch.kind = "restore" /\ svc'.mPendingPanelSwitch = NoSwitch
            /\ preferred' # preferred) => svc.mOriginalPanel = None]_vars
  BY RestoreStep DEF vars
<1> QED  BY <1>1, Invariant, PTL DEF Spec, RestoreOutsideSession
=============================================================================
