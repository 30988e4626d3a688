-------------------------- MODULE MCIntervention ---------------------------
(***************************************************************************)
(* Values of the constants of Intervention for TLC.  Each setting asks one *)
(* family of commands; what it does not ask stays as it is.                *)
(***************************************************************************)
EXTENDS Intervention

CONSTANTS c1, c2, a, b

MCPid == {2, 3, 4}
MCAddress == {a, b}

Job(op, arg, want) == [op |-> op, arg |-> arg, want |-> want]
Table(second, third) == [p \in MCPid |-> CASE p = 3 -> second [] p = 4 -> third [] OTHER -> None]

(***************************************************************************)
(* One process of the user's; commands by PID and start time.              *)
(***************************************************************************)
Plain == [jobs |-> {}, route |-> "helper", faults |-> FALSE, pidfd |-> TRUE,
          procs |-> {Table(None, None)}, programs |-> {}, callers |-> {c1},
          conns |-> 0, flush |-> FALSE, boots |-> 1]

Programs == {<<"plain", "user">>, <<"daemon", "root">>, <<"impostor", "root">>}

\* One command at a time, on a PID that changes hands while it runs.
Reuse ==
  [Plain EXCEPT
     !.jobs = {Job(op, 3, w) : op \in {"stop", "terminate"}, w \in {1, None}},
     !.faults = TRUE,
     !.procs = {Table(New(1, "plain", o), None) : o \in Level},
     !.programs = Programs]

\* The same without pidfd, the kill(2) fallback; nothing fails.
ReuseOldKernel ==
  [Reuse EXCEPT !.pidfd = FALSE, !.faults = FALSE,
                !.programs = {<<"plain", "user">>, <<"daemon", "root">>}]

\* Two commands on one process, and a process of root; who may not be asked for.
Contended ==
  [Plain EXCEPT
     !.callers = {c1, c2},
     !.jobs = {Job("stop", 3, 1), Job("terminate", 3, 1), Job("continue", 3, 1), Job("stop", 2, None)},
     !.procs = {Table(New(1, "plain", o), None) : o \in Level}]

Untouchable ==
  [Plain EXCEPT
     !.jobs = {Job(op, p, None) : op \in SignalOp, p \in {3, 4}},
     !.faults = TRUE,
     !.procs = {Table(New(1, k, "root"), New(2, "impostor", o)) : k \in {"daemon", "kthread"}, o \in Level}]

\* Without the helper: signals end there, the ruleset goes through the tool.
Unpackaged(r) ==
  [Plain EXCEPT
     !.jobs = {Job("stop", 3, 1), Job("apply", None, None), Job("clear", None, None),
               Job("sever", None, None)},
     !.route = r, !.conns = 1, !.faults = TRUE,
     !.procs = {Table(New(1, "plain", o), None) : o \in Level}]

\* Blackouts that overlap, time out and die with the panel; reboots.
Blackout ==
  [Plain EXCEPT
     !.callers = {c1, c2}, !.faults = TRUE, !.flush = TRUE, !.boots = 2,
     !.jobs = {Job("apply", None, None), Job("clear", None, None)}]

Sever ==
  [Plain EXCEPT
     !.callers = {c1}, !.faults = TRUE, !.conns = 2,
     !.jobs = {Job("sever", None, None), Job("quarantine", a, None), Job("quarantine", b, None)}]

MCSetting == {Reuse, ReuseOldKernel, Contended, Untouchable, Unpackaged("legacy"),
              Unpackaged("none"), Blackout, Sever}

StuckMarker ==
  {[Plain EXCEPT !.flush = TRUE, !.jobs = {Job("apply", None, None), Job("clear", None, None)}]}
=============================================================================
