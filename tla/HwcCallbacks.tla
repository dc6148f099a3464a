---------------------------- MODULE HwcCallbacks ----------------------------
(***************************************************************************)
(* Callbacks of the Fujisan HWC2 wrapper (hwc2_fujisan.cpp): registration, *)
(* the hotplug trampoline that announces the two displays, and the watcher *)
(* that turns a change of active_primary into a refresh so that the next   *)
(* Small frame goes to the other panel.                                    *)
(*                                                                         *)
(* Processes: SurfaceFlinger's registrations (a restarted SurfaceFlinger   *)
(* registers again on the same device, after the composer service          *)
(* unregistered the old one), CAF's hotplug event thread, and the watcher. *)
(* A step is one access under cb_lock, one atomic, or one call out.        *)
(*                                                                         *)
(* External: CAF reports display 0 connected when HOTPLUG is registered;   *)
(* system property serials; SurfaceFlinger answers a refresh with a frame. *)
(***************************************************************************)
EXTENDS Naturals, FiniteSets

CONSTANTS MaxSf,       \* SurfaceFlinger instances, 1..MaxSf
          MaxEvents,   \* bound on CAF disconnect and connect events
          MaxSwitches  \* bound on changes of active_primary

ASSUME CallbackBounds == MaxSf \in Nat \ {0} /\ {MaxEvents, MaxSwitches} \subseteq Nat

Sf == 1..MaxSf
BothDisplays == {"small", "wide"}
NoSf == 0

VARIABLES
    sf,          \* the SurfaceFlinger instance that is alive
    registered,  \* HOTPLUG is registered for it: "no", "yes", or "hotplug" or
                 \* "leaving" while (un)registering runs the trampoline
    hotplug_fn,  \* the instance hotplug_fn calls, or NoSf
    refresh_fn,  \* the instance refresh_fn calls, or NoSf
    announced,   \* physical_displays_announced
    tramp,       \* the hotplug trampoline on the thread that runs it
    known,       \* the displays each instance believes connected
    events,      \* CAF events so far
    prop,        \* external: active_primary, its serial
    boot,        \* external: sys.boot_completed
    watcher,     \* the watcher: its point, the serial and the value it last saw
    refresh,     \* SurfaceFlinger has a refresh to answer
    lit_panel,   \* external: the panel the last Small frame was committed to
    device       \* "open", "closing" or "closed"

cbVars == <<sf, registered, hotplug_fn, refresh_fn, announced, tramp, known, events,
            prop, boot, watcher, refresh, lit_panel, device>>

hotplugVars == <<registered, hotplug_fn, announced, tramp, known, events>>
watchVars == <<refresh_fn, prop, boot, watcher, refresh, lit_panel, device>>

\* The trampoline runs on SurfaceFlinger's registering thread or on CAF's.
Threads == {"register", "event"}
NotRunning == [pc |-> "none", fn |-> NoSf, connected |-> TRUE]

CbInit ==
    /\ sf = 1
    /\ registered = "no"
    /\ hotplug_fn = NoSf /\ refresh_fn = NoSf
    /\ announced = FALSE
    /\ tramp = [t \in Threads |-> NotRunning]
    /\ known = [s \in Sf |-> {}]
    /\ events = 0
    /\ prop = [value |-> "a", serial |-> 0]
    /\ boot = FALSE
    /\ watcher = [pc |-> "none", serial |-> 0, last |-> "a"]
    /\ refresh = FALSE
    /\ lit_panel = "a"
    /\ device = "open"
-----------------------------------------------------------------------------
(* Hotplug. *)

\* RegisterCallback(HOTPLUG): store the listener; CAF then runs the trampoline
\* for display 0 on this thread.
RegisterHotplug ==
    /\ device = "open" /\ registered = "no"
    /\ registered' = "hotplug"
    /\ hotplug_fn' = sf
    /\ tramp' = [tramp EXCEPT !["register"] =
                    [pc |-> "read", fn |-> NoSf, connected |-> TRUE]]
    /\ UNCHANGED <<sf, announced, known, events, watchVars>>

\* CAF's own event: the first one is a disconnect, then they alternate.
HotplugEvent ==
    /\ device = "open" /\ registered = "yes" /\ events < MaxEvents
    /\ tramp["event"] = NotRunning
    /\ events' = events + 1
    /\ tramp' = [tramp EXCEPT !["event"] =
                    [pc |-> "read", fn |-> NoSf, connected |-> (events % 2 = 1)]]
    /\ UNCHANGED <<sf, registered, hotplug_fn, announced, known, watchVars>>

\* A call of the listener; an instance that died hears nothing.
Tell(fn, d, connected) ==
    known' = IF fn = sf
             THEN [known EXCEPT ![fn] = IF connected THEN @ \cup {d} ELSE @ \ {d}]
             ELSE known

Step(t, pc) == tramp' = [tramp EXCEPT ![t].pc = pc]
Return(t) ==
    /\ tramp' = [tramp EXCEPT ![t] = NotRunning]
    /\ registered' = IF t # "register" THEN registered
                     ELSE IF registered = "leaving" THEN "no" ELSE "yes"

\* HotplugTrampoline: the listener is read under cb_lock, called outside it.
TrampolineRead(t) ==
    /\ tramp[t].pc = "read"
    /\ tramp' = [tramp EXCEPT ![t].fn = hotplug_fn, ![t].pc = "small"]
    /\ UNCHANGED <<sf, registered, hotplug_fn, announced, known, events, watchVars>>

TrampolineSmall(t) ==
    /\ tramp[t].pc = "small"
    /\ Tell(tramp[t].fn, "small", tramp[t].connected)
    /\ Step(t, IF tramp[t].connected THEN "announce" ELSE "withdraw")
    /\ UNCHANGED <<sf, registered, hotplug_fn, announced, events, watchVars>>

\* Mutant: the announced flag is stored but its old value is not looked at.
AnnounceWideDisplayAgain(t) ==
    /\ tramp[t].pc = "announce"
    /\ announced' = TRUE
    /\ Step(t, "readWide")
    /\ UNCHANGED <<sf, registered, hotplug_fn, known, events, watchVars>>

\* AnnounceWideDisplay: exchange the flag, read the listener again, tell it.
AnnounceWideDisplay(t) ==
    /\ tramp[t].pc = "announce"
    /\ announced' = TRUE
    /\ IF announced THEN Return(t) ELSE Step(t, "readWide") /\ UNCHANGED registered
    /\ UNCHANGED <<sf, hotplug_fn, known, events, watchVars>>

AnnounceRead(t) ==
    /\ tramp[t].pc = "readWide"
    /\ tramp' = [tramp EXCEPT ![t].fn = hotplug_fn, ![t].pc = "wide"]
    /\ UNCHANGED <<sf, registered, hotplug_fn, announced, known, events, watchVars>>

\* Mutant: a disconnect leaves the announced flag set.
TrampolineWithdrawKept(t) ==
    /\ tramp[t].pc = "withdraw"
    /\ IF announced /\ tramp[t].fn # NoSf
       THEN Step(t, "wide") /\ UNCHANGED registered ELSE Return(t)
    /\ UNCHANGED <<sf, hotplug_fn, announced, known, events, watchVars>>

TrampolineWithdraw(t) ==
    /\ tramp[t].pc = "withdraw"
    /\ announced' = FALSE
    /\ IF announced /\ tramp[t].fn # NoSf
       THEN Step(t, "wide") /\ UNCHANGED registered ELSE Return(t)
    /\ UNCHANGED <<sf, hotplug_fn, known, events, watchVars>>

TrampolineWide(t) ==
    /\ tramp[t].pc = "wide"
    /\ Tell(tramp[t].fn, "wide", tramp[t].connected)
    /\ Return(t)
    /\ UNCHANGED <<sf, hotplug_fn, announced, events, watchVars>>

Trampoline(t) ==
    \/ TrampolineRead(t) \/ TrampolineSmall(t) \/ AnnounceWideDisplay(t)
    \/ AnnounceRead(t) \/ TrampolineWithdraw(t) \/ TrampolineWide(t)

\* EnsurePrimaryPanelWatchThread: started once (compare_exchange).
EnsurePrimaryPanelWatchThread ==
    watcher' = IF watcher.pc = "none" THEN [watcher EXCEPT !.pc = "first"] ELSE watcher

\* External: SurfaceFlinger dies and the next instance starts. The composer
\* service registers null pointers for the old one: CAF is given the trampoline
\* once more and runs it, and the watcher is started if it was not.
SfRestarts ==
    /\ device = "open" /\ registered = "yes" /\ sf < MaxSf
    /\ sf' = sf + 1
    /\ registered' = "leaving"
    /\ hotplug_fn' = NoSf /\ refresh_fn' = NoSf
    /\ tramp' = [tramp EXCEPT !["register"] =
                    [pc |-> "read", fn |-> NoSf, connected |-> TRUE]]
    /\ EnsurePrimaryPanelWatchThread
    /\ refresh' = FALSE
    /\ UNCHANGED <<announced, known, events, prop, boot, lit_panel, device>>
-----------------------------------------------------------------------------
(* The watcher of active_primary and the frames it causes. *)

\* RegisterCallback(REFRESH).
RegisterRefresh ==
    /\ device = "open" /\ registered = "yes" /\ refresh_fn = NoSf
    /\ refresh_fn' = sf
    /\ EnsurePrimaryPanelWatchThread
    /\ UNCHANGED <<sf, hotplugVars, prop, boot, refresh, lit_panel, device>>

\* External: fujisan_halld publishes active_primary, B only after boot.
SetActivePrimary(p) ==
    /\ prop.serial < MaxSwitches /\ (p = "b" => boot)
    /\ p # prop.value
    /\ prop' = [value |-> p, serial |-> prop.serial + 1]
    /\ UNCHANGED <<sf, hotplugVars, refresh_fn, boot, watcher, refresh, lit_panel,
                   device>>

BootCompleted ==
    /\ ~boot /\ boot' = TRUE
    /\ UNCHANGED <<sf, hotplugVars, refresh_fn, prop, watcher, refresh, lit_panel,
                   device>>

UnchangedByWatcher ==
    UNCHANGED <<sf, hotplugVars, refresh_fn, prop, boot, lit_panel, device>>

\* The first read, before the loop.
WatchFirst ==
    /\ watcher.pc = "first"
    /\ watcher' = [pc |-> "wait", serial |-> prop.serial, last |-> prop.value]
    /\ UNCHANGED refresh
    /\ UnchangedByWatcher

\* Mutant: the run flag is tested only after the serial moved.
WatchWaitUntested ==
    /\ watcher.pc = "wait" /\ prop.serial # watcher.serial
    /\ watcher' = [watcher EXCEPT !.pc = IF device # "open" THEN "exited" ELSE "read"]
    /\ UNCHANGED refresh
    /\ UnchangedByWatcher

\* __system_property_wait returns when the serial moved, or after 30 s; the run
\* flag is tested on both ways round the loop.
WatchWait ==
    /\ watcher.pc = "wait"
    /\ \/ /\ device # "open"
          /\ watcher' = [watcher EXCEPT !.pc = "exited"]
       \/ /\ device = "open" /\ prop.serial # watcher.serial
          /\ watcher' = [watcher EXCEPT !.pc = "read"]
    /\ UNCHANGED refresh
    /\ UnchangedByWatcher

\* Mutant: the serial is taken over but the value is compared with the old one
\* and the new one forgotten.
WatchReadStale ==
    /\ watcher.pc = "read"
    /\ watcher' = [watcher EXCEPT !.serial = prop.serial,
                                  !.pc = IF prop.value # watcher.last THEN "call" ELSE "wait"]
    /\ UNCHANGED refresh
    /\ UnchangedByWatcher

\* Read value and serial together; an unchanged value needs no frame.
WatchRead ==
    /\ watcher.pc = "read"
    /\ watcher' = [pc |-> IF prop.value # watcher.last THEN "call" ELSE "wait",
                   serial |-> prop.serial, last |-> prop.value]
    /\ UNCHANGED refresh
    /\ UnchangedByWatcher

\* RequestPrimaryFrame.
WatchCall ==
    /\ watcher.pc = "call"
    /\ refresh' = (refresh \/ (refresh_fn # NoSf /\ refresh_fn = sf))
    /\ watcher' = [watcher EXCEPT !.pc = "wait"]
    /\ UnchangedByWatcher

Watch == WatchFirst \/ WatchWait \/ WatchRead \/ WatchCall

\* Mutant: the boot gate is missing and the panel preference is ignored.
PresentSmallOnA ==
    /\ device = "open" /\ registered = "yes" /\ "small" \in known[sf]
    /\ lit_panel' = "a"
    /\ refresh' = FALSE
    /\ UNCHANGED <<sf, hotplugVars, refresh_fn, prop, boot, watcher, device>>

\* A Small frame: WantSingleBPanel chooses the panel when it is committed.
PresentSmall ==
    /\ device = "open" /\ registered = "yes" /\ "small" \in known[sf]
    /\ lit_panel' = IF boot THEN prop.value ELSE "a"
    /\ refresh' = FALSE
    /\ UNCHANGED <<sf, hotplugVars, refresh_fn, prop, boot, watcher, device>>

\* HwcClose for this part: stop the watcher and join it.
CloseWatcher ==
    /\ device = "open" /\ registered = "yes" /\ \A t \in Threads : tramp[t] = NotRunning
    /\ device' = "closing"
    /\ UNCHANGED <<sf, hotplugVars, refresh_fn, prop, boot, watcher, refresh, lit_panel>>

JoinWatcher ==
    /\ device = "closing" /\ watcher.pc \in {"none", "exited"}
    /\ device' = "closed"
    /\ UNCHANGED <<sf, hotplugVars, refresh_fn, prop, boot, watcher, refresh, lit_panel>>
-----------------------------------------------------------------------------
CbNext ==
    \/ RegisterHotplug \/ HotplugEvent \/ SfRestarts
    \/ \E t \in Threads : Trampoline(t)
    \/ RegisterRefresh \/ BootCompleted \/ PresentSmall \/ Watch
    \/ \E p \in {"a", "b"} : SetActivePrimary(p)
    \/ CloseWatcher \/ JoinWatcher

CbSpec == CbInit /\ [][CbNext]_cbVars
-----------------------------------------------------------------------------
(* Properties. *)

CbTypeOK ==
    /\ sf \in 1..MaxSf
    /\ registered \in {"no", "hotplug", "yes", "leaving"}
    /\ {hotplug_fn, refresh_fn} \subseteq Sf \cup {NoSf}
    /\ announced \in BOOLEAN
    /\ tramp \in [Threads -> [pc : {"none", "read", "small", "announce", "readWide",
                                   "withdraw", "wide"},
                              fn : Sf \cup {NoSf}, connected : BOOLEAN]]
    /\ known \in [Sf -> SUBSET BothDisplays]
    /\ prop \in [value : {"a", "b"}, serial : 0..MaxSwitches]
    /\ watcher.serial \in 0..prop.serial /\ watcher.last \in {"a", "b"}
    /\ watcher.pc \in {"none", "first", "wait", "read", "call", "exited"}
    /\ boot \in BOOLEAN /\ refresh \in BOOLEAN
    /\ lit_panel \in {"a", "b"}
    /\ device \in {"open", "closing", "closed"}

\* HotplugTrampoline and AnnounceWideDisplay keep the two lifecycles symmetric
\* (hwc2_fujisan.cpp:952) over disconnects and reconnects: whenever no trampoline
\* runs, the first SurfaceFlinger knows both displays or neither.  (The announced
\* flag outlives it, so a second instance is told of Small alone.)
LifecyclesSymmetric ==
    (sf = 1 /\ \A t \in Threads : tramp[t] = NotRunning) => known[sf] \in {{}, BothDisplays}

\* A change of active_primary reaches the glass (PrimaryPanelWatchThreadMain): once
\* the watcher knows the panel that is lit, a Small frame moves to the published
\* panel, as long as the property stays and a SurfaceFlinger with a refresh callback
\* is there. A change before the watcher's first read is not covered: it waits for
\* SurfaceFlinger's own next frame.
PanelShown ==
    \A p \in {"a", "b"} :
        (prop.value = p /\ prop.value # lit_panel /\ boot /\ watcher.pc = "wait"
            /\ prop.serial # watcher.serial /\ refresh_fn = sf /\ registered = "yes"
            /\ "small" \in known[sf] /\ watcher.last = lit_panel)
          ~> (lit_panel = p \/ prop.value # p \/ device # "open" \/ refresh_fn # sf
                \/ "small" \notin known[sf])

\* HwcClose returns: the watcher leaves its wait.
WatcherJoined == (device = "closing") ~> (device = "closed")
=============================================================================
