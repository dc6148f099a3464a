-------------------------- MODULE Fb0Transactions --------------------------
(***************************************************************************)
(* What the HWC2 wrapper promises about fb0: a Wide transaction drives     *)
(* both panels until it completes, and no single-panel frame is committed  *)
(* before every Wide transaction has ended (the comment above              *)
(* DrainWideRoute in hwc2_fujisan.cpp).                                    *)
(***************************************************************************)
EXTENDS Naturals

VARIABLES wide,    \* the Wide transactions in flight
          single   \* single-panel frames committed so far

vars == <<wide, single>>

Init == wide = {} /\ single = 0

CommitWide == \E n \in wide' : n \notin wide /\ wide' = wide \cup {n} /\ UNCHANGED single

\* The timeline completes some of the transactions in flight.
Complete == wide' \subseteq wide /\ UNCHANGED single

CommitSingle == wide = {} /\ single' = single + 1 /\ UNCHANGED wide

Next == CommitWide \/ Complete \/ CommitSingle

Spec == Init /\ [][Next]_vars
=============================================================================
