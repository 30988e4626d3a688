--------------------------- MODULE CommandContract --------------------------
(***************************************************************************)
(* What a command of the panel or the dashboard promises whoever ran it    *)
(* (src/src/kernel/intervention.rs), however it reaches root: it tells one *)
(* outcome.  A success is told of an effect it has had, a failure or a     *)
(* refused prompt of one it has not had; a timeout leaves that open.  But  *)
(* once it has told, nothing of it is still to come.  A command that dies  *)
(* tells nothing, and what it has started may act without it.              *)
(*                                                                         *)
(* Prompts, helpers, processes and the ruleset are the implementation's.   *)
(***************************************************************************)
CONSTANTS
  Caller,       \* commands
  Op,           \* what may be asked
  Measured,     \* operations judged by a count, and not by what they did
  None

VARIABLES
  phase,        \* "idle", "working", "told", or "orphaned": dead, but not over
  asked,        \* the operation asked for
  outcome,      \* what was told
  acted         \* the command has had an effect

contractVars == <<phase, asked, outcome, acted>>

Init ==
  /\ phase = [c \in Caller |-> "idle"]
  /\ asked = [c \in Caller |-> None]
  /\ outcome = [c \in Caller |-> None]
  /\ acted = [c \in Caller |-> FALSE]

Ask(c) ==
  /\ phase[c] \in {"idle", "told"}
  /\ phase' = [phase EXCEPT ![c] = "working"]
  /\ \E op \in Op : asked' = [asked EXCEPT ![c] = op]
  /\ outcome' = [outcome EXCEPT ![c] = None]
  /\ acted' = [acted EXCEPT ![c] = FALSE]

Act(c) ==
  /\ phase[c] \in {"working", "orphaned"}
  /\ acted' = [acted EXCEPT ![c] = TRUE]
  /\ UNCHANGED <<phase, asked, outcome>>

\* The last effect may come with the outcome, in one step.
Tell(c) ==
  /\ phase[c] = "working"
  /\ phase' = [phase EXCEPT ![c] = "told"]
  /\ acted' \in {acted, [acted EXCEPT ![c] = TRUE]}
  /\ \E o \in {"ok", "failed", "cancelled", "timeout"} :
       /\ outcome' = [outcome EXCEPT ![c] = o]
       /\ o = "ok" => acted'[c] \/ asked[c] \in Measured
       /\ o \in {"failed", "cancelled"} => ~acted'[c]
  /\ UNCHANGED asked

Die(c) ==
  /\ phase[c] = "working"
  /\ \E p \in {"orphaned", "idle"} : phase' = [phase EXCEPT ![c] = p]
  /\ asked' = [asked EXCEPT ![c] = None]
  /\ UNCHANGED <<outcome, acted>>

Finish(c) ==
  /\ phase[c] = "orphaned"
  /\ phase' = [phase EXCEPT ![c] = "idle"]
  /\ UNCHANGED <<asked, outcome, acted>>

Restart ==
  /\ phase' = [c \in Caller |-> "idle"]
  /\ asked' = [c \in Caller |-> None]
  /\ outcome' = [c \in Caller |-> None]
  /\ acted' = [c \in Caller |-> FALSE]

Next ==
  \/ \E c \in Caller : Ask(c) \/ Act(c) \/ Tell(c) \/ Die(c) \/ Finish(c)
  \/ Restart

Spec == Init /\ [][Next]_contractVars
=============================================================================
