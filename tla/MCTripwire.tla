----------------------------- MODULE MCTripwire -----------------------------
(***************************************************************************)
(* Values of the constants of Tripwire for TLC: two processes, each of     *)
(* which checks or resets any number of times.                             *)
(***************************************************************************)
EXTENDS Tripwire, TLC

CONSTANTS r1, r2

MCContent == Gen \cup {Bad}

\* Nothing fails and nobody touches a canary: all that can go wrong is order.
Calm == [jobs |-> {"reset"}, faults |-> FALSE, tamper |-> FALSE]

\* Checks while somebody changes the canaries, checks and resets that fail and
\* die, and the two together.
MCSetting == {[Calm EXCEPT !.jobs = {}, !.faults = TRUE, !.tamper = TRUE],
              [Calm EXCEPT !.faults = TRUE],
              [Calm EXCEPT !.tamper = TRUE]}

\* Two first checks.
FirstRuns == {[Calm EXCEPT !.jobs = {}]}

Symmetry == Permutations({r1, r2})
=============================================================================
