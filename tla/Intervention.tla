---------------------------- MODULE Intervention ----------------------------
(***************************************************************************)
(* The commands of the panel and the dashboard against the kernel: signals *)
(* and the network guard behind one way to root, run_privileged_operation  *)
(* in src/src/kernel/intervention.rs.                                      *)
(***************************************************************************)
EXTENDS ProcessSignal, NetworkGuard

CONSTANT Address   \* addresses to quarantine

Command == [op : Op, arg : Pid \cup Address \cup {None}, want : 1..MaxBorn \cup {None}]

SettingType ==
  [jobs : SUBSET Command, route : {"helper", "legacy", "none"}, faults : BOOLEAN, pidfd : BOOLEAN,
   procs : SUBSET [Pid -> Process \cup {None}], programs : SUBSET (Kind \X Level),
   callers : SUBSET Caller, conns : 0..MaxConn, flush : BOOLEAN, boots : Nat \ {0}]

\* An operation has the kind of target it needs.
Aimed(s) ==
  \A j \in s.jobs : /\ j.op \in SignalOp => j.arg \in Pid
                    /\ j.op = "quarantine" => j.arg \in Address

\* Start times tell processes apart, and a report names one it has seen.
Told(s) ==
  \A t \in s.procs :
    /\ Started(t) \in 0..MaxBorn
    /\ \A p \in Pid : t[p] # None => t[p].start <= Started(t)
    /\ \A p, q \in Pid : t[p] # None /\ t[q] # None /\ t[p].start = t[q].start => p = q
    /\ \A j \in s.jobs : j.want # None => j.want <= Started(t)

ASSUME SettingAssumption == \A s \in Setting : s \in SettingType /\ Aimed(s) /\ Told(s)

vars == <<escVars, procVars, netVars>>

Init == EscInit /\ ProcInit /\ NetInit

\* No process of this boot is there in the next.
RebootAll ==
  /\ Reboot
  /\ procs' = [p \in Pid |-> None]
  /\ shielded' = [c \in Caller |-> [l \in Level |-> {}]]
  /\ UNCHANGED <<born, hit>>

Next ==
  \/ EscNext /\ UNCHANGED <<procVars, netVars>>
  \/ ProcNext /\ UNCHANGED netVars
  \/ NetNext /\ UNCHANGED procVars
  \/ RebootAll

Spec == Init /\ [][Next]_vars

-----------------------------------------------------------------------------
Label == {"idle", "open", "check", "pin", "send", "grace", "capture",
          "nft", "mark", "write", "unmark", "count", "kill", "recount",
          "prompt", "await", "overdue", "done"}

Runner == [at : Label, op : Op \cup {None}, arg : Pid \cup Address \cup {None},
           want : 1..MaxBorn \cup {None}, handle : 1..MaxBorn \cup {None},
           start : 1..MaxBorn \cup {None}, tries : 0..Grace,
           counted : SUBSET (1..MaxConn),
           outcome : {None, "ok", "failed", "cancelled", "timeout"},
           filed : {None, "evidence"}]

TypeOK ==
  /\ setting \in Setting
  /\ run \in [Caller -> [Level -> Runner]]
  /\ acted \in [Caller -> BOOLEAN] /\ smooth \in BOOLEAN
  /\ procs \in [Pid -> Process \cup {None}] /\ born \in 0..MaxBorn
  /\ hit \in Hit \cup {None}
  /\ shielded \in [Caller -> [Level -> SUBSET (1..MaxBorn)]]
  /\ table \in BOOLEAN /\ quarantined \in SUBSET Address
  /\ conns \in SUBSET (1..MaxConn) /\ opened \in 0..MaxConn
  /\ marker \in {None, Torn} \cup 1..setting.boots /\ boot \in 1..setting.boots
  /\ engaged \in BOOLEAN /\ flushed \in BOOLEAN /\ astray \in BOOLEAN

Over(c) == run[c].user.at = "done"

\* "A PID reused since the scan is refused": with pidfd, a signal asked for by
\* PID and start time, or sent by the helper after a prompt of any length,
\* reaches that process and no other, whoever has its PID by then.
OnlyTheNamed == hit # None /\ hit.named => hit.right

\* A process that has been an immune daemon or a kernel thread ever since the
\* runner opened it is not signalled, by the command or by the helper, one
\* that became so while the prompt was open included.
ImmuneSpared == hit # None => ~hit.spared

\* A command that reports a failure has signalled nobody and has changed no
\* ruleset, at either level.  One that timed out may have.  ContractKept says
\* more; this part of it has a theorem of its own.
FailedIsHarmless ==
  \A c \in Caller :
    Over(c) /\ run[c].user.outcome \in {"failed", "cancelled"} => ~acted[c]

\* A process reported terminated is gone, or killed, stopped or not; but for
\* one that became root's since, which the command can no longer signal.
TerminatedIsDoomed ==
  \A c \in Caller : LET u == run[c].user IN
    Over(c) /\ u.op = "terminate" /\ u.outcome = "ok" =>
      \A p \in Pid : procs[p] # None /\ procs[p].start = u.start =>
        procs[p].doomed \/ procs[p].owner = "root"

\* Evidence is filed by commands alone that have frozen a process, themselves
\* or through the helper, and that say so: not after a refused prompt, nor by
\* one that waited for an overdue helper.
EvidenceOfFreezes ==
  \A c \in Caller : LET u == run[c].user IN
    u.filed # None => u.op = "stop" /\ u.outcome = "ok" /\ acted[c]

\* Once all commands are over a report shows a blackout if and only if the
\* table is there; unless, since boot, commands overlapped, timed out or died,
\* or root has emptied the ruleset behind the program's back, or the marker
\* could not be written or removed.  A command that can do it again sets that
\* right, whatever the failed one has left.
ShownIsTrue == AllQuiet /\ smooth /\ ~flushed /\ ~astray => (Shown <=> table)

\* A blackout is never shown that was not engaged since this boot, whatever
\* timed out, died or overlapped: the marker of an earlier boot is void.
ShownWasEngaged == Shown => engaged

\* A sever reported as done has reset every connection it counted at first.
SeveredAreGone ==
  \A c \in Caller : LET u == run[c].user IN
    Over(c) /\ u.op = "sever" /\ u.outcome = "ok" => u.counted \cap conns = {}

\* "Clears the emergency network blackout, restoring normal networking": after
\* a resume that ran to its end no blackout is shown that is not there.
ResumeSettles ==
  \A c \in Caller : LET u == run[c].user IN
    /\ AllQuiet /\ Over(c) /\ smooth /\ ~astray
    /\ u.op = "clear" /\ u.outcome \in {"ok", "failed"} /\ setting.route # "none"
    => (Shown => table)

-----------------------------------------------------------------------------
\* A command that has died is over when its helper is.
Phase(c) ==
  LET u == run[c].user IN
  IF u.at = "done" THEN "told" ELSE IF u.at # "idle" THEN "working"
  ELSE IF run[c].root.at # "idle" THEN "orphaned" ELSE "idle"

Asked(c) == IF run[c].user.at = "idle" THEN None ELSE run[c].user.op

\* Until a command is over it has told nobody.
Answer(c) == IF Over(c) THEN run[c].user.outcome ELSE None

Contract == INSTANCE CommandContract WITH
  Measured <- {"sever"},
  phase <- [c \in Caller |-> Phase(c)],
  asked <- [c \in Caller |-> Asked(c)],
  outcome <- [c \in Caller |-> Answer(c)]

\* A command keeps its contract, whichever way it reaches root: no success
\* without an effect, no failure with one, and no effect after the outcome,
\* a timeout included.
ContractKept == Contract!Spec
=============================================================================
