------------------------------ MODULE MCHalld ------------------------------
(* Bounded instances of Halld for TLC. *)
EXTENDS Halld

CONSTANTS c1, c2

MCClients == {c1}
MCTwoClients == {c1, c2}

\* Two clients, the second of which can queue behind the first: it comes only
\* after the first and where hinge and screen stand still, which keeps the
\* instance small.
MCNext ==
    \/ HalldStep \/ InitAction
    \/ /\ Environment
       /\ client'[c2] # "out" => client'[c1] # "out" /\ moves' = 0 /\ power' = 0

MCFairSpec ==
    Init /\ [][MCNext]_vars /\ WF_vars(HalldStep) /\ WF_vars(InitAction)
=============================================================================
