---------------------------- MODULE MCHwcPower ----------------------------
(* Bounded instances of HwcPower for TLC. *)
EXTENDS HwcPower

\* A negative argument (or NaN), one that rounds to level 0, an ordinary one
\* and one above 1.0.
MCBrightness == {-1, 1, 400, 1200}

\* Where brightness plays no part.
MCNoBrightness == {}
=============================================================================
