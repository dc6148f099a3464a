------------------------------- MODULE MCHwc -------------------------------
(***************************************************************************)
(* Power and callbacks of the HWC2 wrapper share no state and are checked  *)
(* in one run: the part that moves is chosen at the start, the other       *)
(* stands still.                                                           *)
(***************************************************************************)
EXTENDS MCHwcPower, HwcCallbacks

VARIABLE part

HwcInit == part \in {"power", "callbacks"} /\ Init /\ CbInit

HwcNext ==
    \/ part = "power" /\ Next /\ UNCHANGED <<part, cbVars>>
    \/ part = "callbacks" /\ CbNext /\ UNCHANGED <<part, vars>>

Calls == part = "callbacks"

\* The fairness of HwcPower: where it stands still it has no thread and no call
\* under way, and nothing is asked of it.  Of the callbacks: threads are
\* scheduled, a SurfaceFlinger finishes its registrations and answers a refresh
\* with a frame.
HwcSpec ==
    /\ HwcInit /\ [][HwcNext]_<<part, vars, cbVars>>
    /\ WF_vars(CallerStep) /\ WF_vars(SomeThreadStep)
    /\ WF_cbVars(Calls /\ Watch) /\ WF_cbVars(Calls /\ JoinWatcher)
    /\ WF_cbVars(Calls /\ RegisterHotplug) /\ WF_cbVars(Calls /\ RegisterRefresh)
    /\ \A t \in Threads : WF_cbVars(Calls /\ Trampoline(t))
    /\ WF_cbVars(Calls /\ refresh /\ PresentSmall)
=============================================================================
