--------------------------- MODULE ProcessSignal ----------------------------
(***************************************************************************)
(* Freezing, terminating and resuming a process: the signal half of        *)
(* src/src/kernel/intervention.rs.                                         *)
(*                                                                         *)
(* A runner opens a pidfd, looks at /proc/<pid> twice, signals, and may    *)
(* have to start over as root after a password prompt.  Meanwhile          *)
(* processes exit, new ones take their PIDs, and a process becomes another *)
(* program by exec.  A process is named by its start time: no two in the   *)
(* table ever have the same.                                               *)
(***************************************************************************)
EXTENDS Escalation

CONSTANTS
  Pid,
  Reserved,    \* the PIDs of init and the kernel thread manager, 1 and 2
  MaxBorn,     \* bound: processes ever started
  Grace        \* bound: looks at a terminated process (10 in the code)

ASSUME ProcessAssumption ==
  Reserved \subseteq Pid /\ MaxBorn \in Nat /\ Grace \in Nat \ {0} /\ None \notin Nat

VARIABLES
  procs,       \* the process table
  born,        \* start times given so far
  hit,         \* the last signal delivered (history)
  shielded     \* immune ever since this runner opened its target (history)

procVars == <<procs, born, hit, shielded>>

\* "daemon": a name of IMMUNE_PROCESSES and the executable that goes with it;
\* "impostor": the name alone; "kthread": no command line.
Kind == {"plain", "daemon", "impostor", "kthread"}
Process == [start : 1..MaxBorn, kind : Kind, owner : Level,
            stopped : BOOLEAN, doomed : BOOLEAN]

ASSUME NobodyAssumption == None \notin Process

New(s, kind, owner) ==
  [start |-> s, kind |-> kind, owner |-> owner, stopped |-> FALSE, doomed |-> FALSE]

Hit == [to : 1..MaxBorn, named : BOOLEAN, right : BOOLEAN, spared : BOOLEAN]

\* The processes nobody may signal, whoever asks.
Immune(t) == {t[p].start : p \in {q \in Pid : t[q] # None /\ t[q].kind \in {"daemon", "kthread"}}}

\* The processes of a table, which have the first start times.
Started(t) == Cardinality({p \in Pid : t[p] # None})

ProcInit ==
  /\ procs \in setting.procs
  /\ born = Started(procs)
  /\ hit = None
  /\ shielded = [c \in Caller |-> [l \in Level |-> {}]]

-----------------------------------------------------------------------------
(***************************************************************************)
(* Opening the target, the safety gate, the identity.                      *)
(***************************************************************************)

\* ProcessHandle::open: no handle for a PID nobody has, or without pidfd.
Open(c, l) ==
  /\ At(c, l, "open")
  /\ LET t == procs[run[c][l].arg] IN
     run' = [run EXCEPT ![c][l].at = "check",
                        ![c][l].handle = IF setting.pidfd /\ t # None THEN t.start ELSE None]
  /\ shielded' = [shielded EXCEPT ![c][l] = Immune(procs)]
  /\ UNCHANGED <<setting, acted, smooth, procs, born, hit>>

\* immune_process_name: the name counts with its executable, or when the
\* executable cannot be read, which only root can of a process of root.
LooksImmune(t, l) ==
  t.kind = "daemon" \/ (t.kind = "impostor" /\ t.owner = "root" /\ l = "user")

\* Mutant: root trusts the check the command has made.
RefusedOnce(p, l) == procs[p] = None \/ (l = "user" /\ LooksImmune(procs[p], l))

\* validate_signal_target
Refused(p, l) ==
  \/ p \in Reserved
  \/ procs[p] = None
  \/ procs[p].kind = "kthread"
  \/ LooksImmune(procs[p], l)

Check(c, l) ==
  /\ At(c, l, "check")
  /\ IF Refused(run[c][l].arg, l) THEN Ends(c, l, "failed") ELSE Goes(c, l, "pin")
  /\ UNCHANGED <<setting, acted, smooth, procVars>>

\* Mutant: the PID alone is enough.
MismatchNever(want, start) == FALSE

\* The start time wanted is the report's, or the one the command pinned.
Mismatch(want, start) == want # None /\ want # start

Pin(c, l) ==
  /\ At(c, l, "pin")
  /\ LET r == run[c][l]
         t == procs[r.arg] IN
     IF t = None \/ Mismatch(r.want, t.start) THEN Ends(c, l, "failed")
     ELSE run' = [run EXCEPT ![c][l].at = "send", ![c][l].start = t.start]
  /\ UNCHANGED <<setting, acted, smooth, procVars>>

-----------------------------------------------------------------------------
(***************************************************************************)
(* The signals.                                                            *)
(***************************************************************************)

\* ProcessHandle::signal: with a pidfd the process it was opened for or
\* nobody (ESRCH), without one whoever has the PID.
Target(r) ==
  LET t == procs[r.arg] IN
  IF t # None /\ (r.handle = None \/ r.handle = t.start) THEN t ELSE None

MaySignal(l, t) == l = "root" \/ t.owner = "user"

Delivered(c, l, t) ==
  /\ hit' = [to |-> t.start,
             named |-> setting.pidfd /\ run[c][l].want # None,
             right |-> t.start = run[c][l].want,
             spared |-> t.start \in shielded[c][l]]
  /\ acted' = [acted EXCEPT ![c] = TRUE]

\* SIGTERM changes nothing by itself: the process exits, or does not.
Signalled(op, t) ==
  CASE op = "stop" -> [t EXCEPT !.stopped = TRUE]
    [] op = "continue" -> [t EXCEPT !.stopped = FALSE]
    [] OTHER -> t

AfterSignal(op, l) ==
  CASE op = "terminate" -> "grace"
    [] op = "stop" /\ l = "user" -> "capture"   \* the helper files no evidence
    [] OTHER -> "done"

Send(c, l) ==
  /\ At(c, l, "send")
  /\ LET r == run[c][l]
         t == Target(r) IN
     IF t = None
     THEN /\ Ends(c, l, "failed")
          /\ UNCHANGED <<procs, hit, acted>>
     ELSE IF ~MaySignal(l, t)
     THEN /\ Escalates(c, l)
          /\ UNCHANGED <<procs, hit, acted>>
     ELSE /\ Delivered(c, l, t)
          /\ procs' = [procs EXCEPT ![r.arg] = Signalled(r.op, t)]
          /\ run' = [run EXCEPT ![c][l].at = AfterSignal(r.op, l), ![c][l].outcome = "ok"]
  /\ UNCHANGED <<setting, smooth, born, shielded>>

\* Mutant: no SIGKILL.
GraceNoKill(c, l) ==
  /\ At(c, l, "grace")
  /\ Ends(c, l, "ok")
  /\ UNCHANGED <<setting, acted, smooth, procVars>>

\* Mutant: one look too many.
GraceForEver(c, l) ==
  /\ At(c, l, "grace")
  /\ run' = [run EXCEPT ![c][l].tries = @ + 1]
  /\ UNCHANGED <<setting, acted, smooth, procVars>>

\* After SIGTERM: look, sleep, look again, and SIGKILL what is still there.
\* A process that may no longer be signalled reads as gone.
GraceStep(c, l) ==
  /\ At(c, l, "grace")
  /\ LET r == run[c][l]
         t == Target(r)
         alive == t # None /\ MaySignal(l, t) IN
     \/ /\ ~alive
        /\ Ends(c, l, "ok")
        /\ UNCHANGED <<procs, hit, acted>>
     \/ /\ alive /\ r.tries < Grace
        /\ run' = [run EXCEPT ![c][l].tries = @ + 1]
        /\ UNCHANGED <<procs, hit, acted>>
     \/ /\ alive /\ r.tries = Grace
        /\ Delivered(c, l, t)
        /\ procs' = [procs EXCEPT ![r.arg].doomed = TRUE]
        /\ Ends(c, l, "ok")
  /\ UNCHANGED <<setting, smooth, born, shielded>>

\* capture_forensic_evidence, if it has a directory to write to.  It reads
\* /proc by the bare PID, file by file: whose evidence it is is not modelled.
Capture(c) ==
  /\ At(c, "user", "capture")
  /\ \/ run' = [run EXCEPT ![c].user.at = "done", ![c].user.filed = "evidence"]
     \/ setting.faults /\ Goes(c, "user", "done")
  /\ UNCHANGED <<setting, acted, smooth, procVars>>

-----------------------------------------------------------------------------
(***************************************************************************)
(* The processes themselves.                                               *)
(***************************************************************************)
Becomes(t) ==
  /\ procs' = t
  /\ shielded' = [c \in Caller |-> [l \in Level |-> shielded[c][l] \cap Immune(t)]]
  /\ UNCHANGED <<escVars, hit>>

Exit(p) ==
  /\ procs[p] # None
  /\ Becomes([procs EXCEPT ![p] = None])
  /\ UNCHANGED born

Spawn(p, kind, owner) ==
  /\ procs[p] = None /\ born < MaxBorn
  /\ Becomes([procs EXCEPT ![p] = New(born + 1, kind, owner)])
  /\ born' = born + 1

\* A set-user-id program makes the process root's.
Exec(p, kind, owner) ==
  /\ procs[p] # None /\ ~procs[p].stopped /\ procs[p].kind # "kthread"
  /\ procs[p].owner = "root" => owner = "root"
  /\ Becomes([procs EXCEPT ![p].kind = kind, ![p].owner = owner])
  /\ UNCHANGED born

ProcEnv ==
  \E p \in Pid :
    \/ Exit(p)
    \/ \E prog \in setting.programs : Spawn(p, prog[1], prog[2]) \/ Exec(p, prog[1], prog[2])

ProcNext ==
  \/ \E c \in Caller : Capture(c)
  \/ \E c \in Caller, l \in Level :
       Open(c, l) \/ Check(c, l) \/ Pin(c, l) \/ Send(c, l) \/ GraceStep(c, l)
  \/ ProcEnv
=============================================================================
