----------------------------- MODULE Escalation -----------------------------
(***************************************************************************)
(* How a command of the panel or the dashboard reaches root:               *)
(* src/src/kernel/intervention.rs, escalate_via_helper and the callers of  *)
(* it, and the dispatch in src/src/main.rs.                                *)
(*                                                                         *)
(* A command c is a process without privileges, run[c].user.  Where it may *)
(* not act itself it starts pkexec, run[c].root: a password prompt, and    *)
(* once approved the same operation by the same function as root (route    *)
(* "helper"), or the system tool alone (route "legacy").  The two are      *)
(* processes of their own: the command dies with the panel that started    *)
(* it, while the prompt and the operation behind it go on.                 *)
(***************************************************************************)
EXTENDS Naturals, FiniteSets

CONSTANTS
  Caller,      \* commands that may run at once
  None,        \* no value (Option::None)
  Setting      \* the circumstances a behaviour may run in

VARIABLES
  setting,     \* the one chosen
  run,         \* run[c].user, run[c].root: the command and its helper
  acted,       \* acted[c]: a signal or a change of the ruleset by c (history)
  smooth       \* since boot no two commands overlapped, none timed out or
               \* died (history)

escVars == <<setting, run, acted, smooth>>

SignalOp == {"stop", "terminate", "continue"}
RulesetOp == {"apply", "clear", "quarantine"}
Op == SignalOp \cup RulesetOp \cup {"sever"}

Level == {"user", "root"}

FirstStep(op) == IF op \in SignalOp THEN "open"
                 ELSE IF op = "sever" THEN "count" ELSE "nft"

\* The local variables of a runner: the pidfd and the start time it has read,
\* the looks taken, the connections counted, the evidence filed.
Idle == [at |-> "idle", op |-> None, arg |-> None, want |-> None,
         handle |-> None, start |-> None, tries |-> 0, counted |-> {},
         outcome |-> None, filed |-> None]

At(c, l, label) == run[c][l].at = label

\* Runner l of c moves to a label, or ends with an outcome.
Goes(c, l, label) == run' = [run EXCEPT ![c][l].at = label]
Ends(c, l, o) == run' = [run EXCEPT ![c][l].at = "done", ![c][l].outcome = o]

\* The command is over, or never ran, and so is its helper.
Quiet(c) == run[c].user.at \in {"idle", "done"} /\ run[c].root.at = "idle"
AllQuiet == \A c \in Caller : Quiet(c)

EscInit ==
  /\ setting \in Setting
  /\ run = [c \in Caller |-> [user |-> Idle, root |-> Idle]]
  /\ acted = [c \in Caller |-> FALSE]
  /\ smooth = TRUE

(***************************************************************************)
(* main: a command starts, with one operation and its target.  A job's     *)
(* want is the start time behind "<pid>:" if the caller gives it.          *)
(***************************************************************************)
Request(c, job) ==
  /\ c \in setting.callers /\ Quiet(c)
  /\ run' = [run EXCEPT ![c] =
       [user |-> [Idle EXCEPT !.at = FirstStep(job.op), !.op = job.op,
                              !.arg = job.arg, !.want = job.want],
        root |-> Idle]]
  /\ acted' = [acted EXCEPT ![c] = FALSE]
  /\ smooth' = (smooth /\ \A d \in Caller \ {c} : Quiet(d))
  /\ UNCHANGED setting

(***************************************************************************)
(* What a runner does that lacks the privilege.  The helper itself never   *)
(* escalates, and signals have no legacy way: a bare kill <pid> would not  *)
(* show, nor pin, the process it is for.  The identity sent is the start   *)
(* time the command has just read.                                         *)
(***************************************************************************)
Prompt(r) == [Idle EXCEPT !.at = "prompt", !.op = r.op, !.arg = r.arg, !.want = r.start]

Escalates(c, l) ==
  LET r == run[c][l] IN
  IF \/ l = "root"
     \/ setting.route = "none"
     \/ setting.route = "legacy" /\ r.op \in SignalOp
  THEN Ends(c, l, "failed")
  ELSE run' = [run EXCEPT ![c] = [user |-> [r EXCEPT !.at = "await"], root |-> Prompt(r)]]

Approve(c) ==
  /\ At(c, "root", "prompt")
  /\ Goes(c, "root", IF setting.route = "legacy" /\ run[c].root.op = "sever"
                     THEN "kill" ELSE FirstStep(run[c].root.op))
  /\ UNCHANGED <<setting, acted, smooth>>

Deny(c) ==
  /\ At(c, "root", "prompt")
  /\ LET u == run[c].user IN
     run' = [run EXCEPT ![c] =
       [user |-> IF u.at = "await" THEN [u EXCEPT !.at = "done", !.outcome = "cancelled"]
               ELSE u,
        root |-> Idle]]
  /\ UNCHANGED <<setting, acted, smooth>>

\* Mutant: what follows a success follows whatever the helper says.
AfterHelperAnyway(r, o) ==
  CASE r.op = "stop" -> "capture" [] r.op = "apply" -> "mark"
    [] r.op = "clear" -> "unmark" [] OTHER -> "done"

\* What the command does with the helper's result before it prints it.
AfterHelper(r, o) ==
  IF o = "ok" /\ r.op = "stop" THEN "capture"
  ELSE IF o = "ok" /\ r.op = "apply" THEN "mark"
  ELSE IF o = "ok" /\ r.op = "clear" THEN "unmark"
  ELSE IF o = "ok" /\ r.op = "sever" /\ setting.route = "legacy" THEN "recount"
  ELSE "done"

Return(c) ==
  /\ At(c, "root", "done")
  /\ LET u == run[c].user
         o == run[c].root.outcome IN
     run' = [run EXCEPT ![c] =
       [user |-> IF u.at = "await"
                 THEN [u EXCEPT !.at = AfterHelper(u, o), !.outcome = o, !.tries = 1]
                 ELSE IF u.at = "overdue"
                 THEN [u EXCEPT !.at = "done", !.outcome = "timeout"]
                 ELSE u,
        root |-> Idle]]
  /\ UNCHANGED <<setting, acted, smooth>>

\* Mutant: the command does not wait for a helper it cannot kill.
TimeOutAtOnce(c) ==
  /\ setting.faults
  /\ At(c, "user", "await")
  /\ run' = [run EXCEPT ![c] =
       [user |-> [@.user EXCEPT !.at = "done", !.outcome = "timeout"],
        root |-> IF @.root.at = "prompt" THEN Idle ELSE @.root]]
  /\ smooth' = FALSE
  /\ UNCHANGED <<setting, acted>>

\* PKEXEC_TIMEOUT.  A prompt that still waits for its password is killed.  A
\* helper that runs as root cannot be: the command waits for it to end (the
\* wait in reap_process_group), and drops its result.
TimeOut(c) ==
  /\ setting.faults
  /\ At(c, "user", "await")
  /\ run' = [run EXCEPT ![c] =
       IF @.root.at = "prompt"
       THEN [user |-> [@.user EXCEPT !.at = "done", !.outcome = "timeout"], root |-> Idle]
       ELSE [@ EXCEPT !.user.at = "overdue"]]
  /\ smooth' = FALSE
  /\ UNCHANGED <<setting, acted>>

\* The panel is closed, and its command with it.
Crash(c) ==
  /\ setting.faults
  /\ run[c].user.at \notin {"idle", "done"}
  /\ run' = [run EXCEPT ![c].user = Idle]
  /\ smooth' = FALSE
  /\ UNCHANGED <<setting, acted>>

EscNext ==
  \E c \in Caller :
    \/ \E job \in setting.jobs : Request(c, job)
    \/ Approve(c) \/ Deny(c) \/ Return(c) \/ TimeOut(c) \/ Crash(c)
=============================================================================
