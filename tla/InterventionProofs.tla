------------------------- MODULE InterventionProofs -------------------------
(***************************************************************************)
(* The type of a command and of its root-side helper, for any callers,     *)
(* processes, addresses, settings and bounds.                              *)
(*                                                                         *)
(* TypeOK is not inductive: that the PID a signal is sent to is one of     *)
(* Pid, or that a helper's start is a start time, follows from the         *)
(* operation a runner is at work on and from what the two runners of a     *)
(* caller tell each other. IInv adds both: where a runner may be for its   *)
(* operation (Placed), and what holds between a command and its helper     *)
(* (Paired): the helper runs what the command asked for, and only while    *)
(* the command waits or has gone.                                          *)
(*                                                                         *)
(* The second half says what each step does to the runners, for the proofs *)
(* in OutcomeProofs.                                                       *)
(***************************************************************************)
EXTENDS Intervention, TLAPS

\* The runners, one as the user and one as root for each caller.
Runs == [Caller -> [Level -> Runner]]

\* The argument fits the operation (intervention.rs parses it before it acts).
ArgOK(r) ==
  /\ r.op \in Op
  /\ r.op \in SignalOp => r.arg \in Pid
  /\ r.op = "quarantine" => r.arg \in Address

\* The labels of freeze_process, resume_process and terminate_process.
Signalling == {"open", "check", "pin", "send", "grace"}

\* Where a runner may be, by its operation.
Placed(r) ==
  /\ r.at # "idle" => ArgOK(r)
  /\ r.at \in Signalling => r.op \in SignalOp
  /\ r.at = "nft" => r.op \in RulesetOp
  /\ r.at \in {"count", "kill", "recount"} => r.op = "sever"
  /\ r.at = "capture" => r.op = "stop"
  /\ r.at \in {"mark", "write"} => r.op = "apply"
  /\ r.at = "unmark" => r.op = "clear"
  /\ r.at \in {"send", "grace"} => r.start # None

\* A command and its helper: a helper runs what its command waits for, with
\* the start time the command pinned, or what a command that has died asked for.
Paired(u, h) ==
  /\ u.at # "prompt"
  /\ h.at \notin {"capture", "mark", "write", "unmark", "await", "overdue"}
  /\ h.at # "idle" => u.at \in {"await", "overdue", "idle"}
  /\ u.at \in {"await", "overdue"} =>
       h.at # "idle" /\ h.op = u.op /\ h.arg = u.arg /\ h.want = u.start
  /\ u.at = "overdue" => h.at # "prompt"
  /\ u.filed # None => u.at = "done"

\* The three parts of the state other than the runners.
Stage == setting \in Setting /\ acted \in [Caller -> BOOLEAN] /\ smooth \in BOOLEAN

Population ==
  /\ procs \in [Pid -> Process \cup {None}] /\ born \in 0..MaxBorn
  /\ hit \in Hit \cup {None}
  /\ shielded \in [Caller -> [Level -> SUBSET (1..MaxBorn)]]

Network ==
  /\ table \in BOOLEAN /\ quarantined \in SUBSET Address
  /\ conns \in SUBSET (1..MaxConn) /\ opened \in 0..MaxConn
  /\ boot \in 1..setting.boots
  /\ marker \in {None, Torn} \cup 1..boot
  /\ engaged \in BOOLEAN /\ flushed \in BOOLEAN /\ astray \in BOOLEAN

World == Stage /\ Population /\ Network

\* The runners' part of the invariant.
Shaped ==
  /\ run \in Runs
  /\ \A c \in Caller, l \in Level : Placed(run[c][l])
  /\ \A c \in Caller : Paired(run[c].user, run[c].root)

IInv == World /\ Shaped

-----------------------------------------------------------------------------
(***************************************************************************)
(* The constants, and the fields of a runner.                              *)
(***************************************************************************)

LEMMA ConstantFacts ==
  /\ MaxBorn \in Nat /\ Grace \in Nat \ {0} /\ MaxConn \in Nat /\ None \notin Nat
  /\ Setting \subseteq SettingType
  BY ProcessAssumption, NetworkAssumption, SettingAssumption

LEMMA AtType == ASSUME NEW r \in Runner, NEW x \in Label PROVE [r EXCEPT !.at = x] \in Runner
  BY Zenon DEF Runner, Label

LEMMA OpType == ASSUME NEW r \in Runner, NEW x \in Op \cup {None}
  PROVE [r EXCEPT !.op = x] \in Runner
  BY Zenon DEF Runner

LEMMA ArgType == ASSUME NEW r \in Runner, NEW x \in Pid \cup Address \cup {None}
  PROVE [r EXCEPT !.arg = x] \in Runner
  BY Zenon DEF Runner

LEMMA WantType == ASSUME NEW r \in Runner, NEW x \in 1..MaxBorn \cup {None}
  PROVE [r EXCEPT !.want = x] \in Runner
  BY Zenon DEF Runner

LEMMA HandleType == ASSUME NEW r \in Runner, NEW x \in 1..MaxBorn \cup {None}
  PROVE [r EXCEPT !.handle = x] \in Runner
  BY Zenon DEF Runner

LEMMA StartType == ASSUME NEW r \in Runner, NEW x \in 1..MaxBorn \cup {None}
  PROVE [r EXCEPT !.start = x] \in Runner
  BY Zenon DEF Runner

LEMMA TriesType == ASSUME NEW r \in Runner, NEW x \in 0..Grace
  PROVE [r EXCEPT !.tries = x] \in Runner
  BY Zenon DEF Runner

LEMMA CountedType == ASSUME NEW r \in Runner, NEW x \in SUBSET (1..MaxConn)
  PROVE [r EXCEPT !.counted = x] \in Runner
  BY Zenon DEF Runner

LEMMA OutcomeType == ASSUME NEW r \in Runner, NEW x \in {None, "ok", "failed", "cancelled",
         "timeout"} PROVE [r EXCEPT !.outcome = x] \in Runner
  BY Zenon DEF Runner

LEMMA FiledType == ASSUME NEW r \in Runner, NEW x \in {None, "evidence"}
  PROVE [r EXCEPT !.filed = x] \in Runner
  BY Zenon DEF Runner

LEMMA IdleType == Idle \in Runner
  <1>1. 0 \in 0..Grace
    BY ConstantFacts
  <1> QED BY <1>1 DEF Idle, Runner, Label

LEMMA BothRunners ==
  ASSUME run \in Runs, NEW c \in Caller, NEW u \in Runner, NEW h \in Runner,
         run' = [run EXCEPT ![c] = [user |-> u, root |-> h]]
  PROVE  /\ run' \in Runs /\ run'[c].user = u /\ run'[c].root = h
         /\ run'[c]["user"] = u /\ run'[c]["root"] = h
         /\ \A d \in Caller \ {c} : run'[d] = run[d]
  BY SMTT(30) DEF Runs, Level

LEMMA TypeOf ==
  ASSUME run \in Runs, NEW c \in Caller
  PROVE  /\ \A l \in Level : run[c][l] \in Runner
         /\ run[c].user \in Runner /\ run[c].root \in Runner
         /\ run[c]["user"] = run[c].user /\ run[c]["root"] = run[c].root
  BY SMTT(30) DEF Runs, Level

LEMMA ShapedOne ==
  ASSUME Shaped, NEW c \in Caller, NEW l \in Level, NEW r \in Runner,
         run' = [run EXCEPT ![c][l] = r], Placed(r),
         l = "user" => Paired(r, run[c].root), l = "root" => Paired(run[c].user, r)
  PROVE  Shaped'
<1>0. run \in Runs
  BY DEF Shaped
<1>1. /\ run' \in Runs /\ run'[c][l] = r
      /\ \A d \in Caller, k \in Level : d # c \/ k # l => run'[d][k] = run[d][k]
  BY <1>0 DEF Runs
<1>2. \A d \in Caller, k \in Level : Placed(run'[d][k])
  BY <1>1 DEF Shaped
<1>3. \A d \in Caller : Paired(run'[d].user, run'[d].root)
  <2> TAKE d \in Caller
  <2>1. run'[d]["user"] = run'[d].user /\ run'[d]["root"] = run'[d].root
    BY <1>1 DEF Runs, Level
  <2>2. run[d]["user"] = run[d].user /\ run[d]["root"] = run[d].root
    BY TypeOf DEF Shaped
  <2>3. CASE d # c
    BY <1>1, <2>1, <2>2, <2>3 DEF Shaped, Level
  <2>4. CASE d = c /\ l = "user"
    BY <1>1, <2>1, <2>2, <2>4 DEF Shaped, Level
  <2>5. CASE d = c /\ l = "root"
    BY <1>1, <2>1, <2>2, <2>5 DEF Shaped, Level
  <2> QED BY <2>3, <2>4, <2>5 DEF Level
<1> QED BY <1>1, <1>2, <1>3 DEF Shaped, Placed, Paired, ArgOK

LEMMA ShapedBoth ==
  ASSUME Shaped, NEW c \in Caller, NEW u \in Runner, NEW h \in Runner,
         run' = [run EXCEPT ![c] = [user |-> u, root |-> h]],
         Placed(u), Placed(h), Paired(u, h)
  PROVE  Shaped'
<1>1. /\ run' \in Runs /\ run'[c].user = u /\ run'[c].root = h
      /\ run'[c]["user"] = u /\ run'[c]["root"] = h
      /\ \A d \in Caller \ {c} : run'[d] = run[d]
  BY BothRunners DEF Shaped
<1>2. \A d \in Caller, k \in Level : Placed(run'[d][k])
  BY <1>1 DEF Shaped, Level
<1>3. \A d \in Caller : Paired(run'[d].user, run'[d].root)
  BY <1>1 DEF Shaped
<1> QED BY <1>1, <1>2, <1>3 DEF Shaped, Placed, Paired, ArgOK

-----------------------------------------------------------------------------
(***************************************************************************)
(* A step of one runner keeps the invariant of the runners.                *)
(***************************************************************************)

LEMMA OneStep ==
  ASSUME Shaped, NEW c \in Caller, NEW l \in Level, NEW r \in Runner,
         run' = [run EXCEPT ![c][l] = r], Placed(r),
         run[c][l].at \notin {"idle", "prompt", "await", "overdue", "done"},
         r.op = run[c][l].op, r.arg = run[c][l].arg, r.want = run[c][l].want,
         r.at \notin {"idle", "prompt", "await", "overdue"},
         l = "root" => r.at \notin {"capture", "mark", "write", "unmark"},
         r.filed # None => l = "root" \/ r.at = "done"
  PROVE  Shaped'
<1>1. run[c]["user"] = run[c].user /\ run[c]["root"] = run[c].root /\ Paired(run[c].user, run[c].root)
  BY TypeOf DEF Shaped
<1>2. l = "user" => Paired(r, run[c].root)
  BY <1>1 DEF Paired
<1>3. l = "root" => Paired(run[c].user, r)
  BY <1>1 DEF Paired
<1> QED BY <1>2, <1>3, ShapedOne

LEMMA GoesStep ==
  ASSUME Shaped, NEW c \in Caller, NEW l \in Level, NEW x \in Label, Goes(c, l, x),
         Placed([run[c][l] EXCEPT !.at = x]),
         run[c][l].at \notin {"idle", "prompt", "await", "overdue", "done"},
         x \notin {"idle", "prompt", "await", "overdue"},
         l = "root" => x \notin {"capture", "mark", "write", "unmark"}
  PROVE  Shaped'
<1>1. run[c][l] \in Runner
  BY TypeOf DEF Shaped
<1>2. PICK r : r = [run[c][l] EXCEPT !.at = x]
  OBVIOUS
<1>3. /\ r.at = x /\ r.op = run[c][l].op /\ r.arg = run[c][l].arg
      /\ r.want = run[c][l].want /\ r.filed = run[c][l].filed
  BY <1>1, <1>2 DEF Runner
<1>7. r \in Runner
  BY <1>1, <1>2, AtType
<1>4. run' = [run EXCEPT ![c][l] = r]
  BY <1>1, <1>2 DEF Goes, Shaped, Runs
<1>5. l = "user" => run[c][l].filed = None
  BY TypeOf DEF Shaped, Paired
<1>6. Placed(r)
  BY <1>2
<1> QED BY <1>3, <1>4, <1>5, <1>6, <1>7, OneStep DEF Level

LEMMA EndsStep ==
  ASSUME Shaped, NEW c \in Caller, NEW l \in Level,
         NEW o \in {None, "ok", "failed", "cancelled", "timeout"}, Ends(c, l, o),
         run[c][l].at \notin {"idle", "prompt", "await", "overdue", "done"}
  PROVE  Shaped'
<1>1. run[c][l] \in Runner /\ Placed(run[c][l]) /\ "done" \in Label
  BY TypeOf DEF Shaped, Label
<1>2. PICK r : r = [run[c][l] EXCEPT !.at = "done", !.outcome = o]
  OBVIOUS
<1>3. /\ r.at = "done" /\ r.op = run[c][l].op /\ r.arg = run[c][l].arg
      /\ r.want = run[c][l].want
  BY <1>1, <1>2 DEF Runner
<1>6. r \in Runner
  BY <1>1, <1>2, AtType, OutcomeType
<1>4. run' = [run EXCEPT ![c][l] = r]
  BY <1>1, <1>2 DEF Ends, Shaped, Runs
<1>5. Placed(r)
  BY <1>1, <1>3 DEF Placed, ArgOK, Signalling
<1> QED BY <1>3, <1>4, <1>5, <1>6, OneStep

LEMMA EscalatesStep ==
  ASSUME Shaped, NEW c \in Caller, NEW l \in Level, Escalates(c, l),
         run[c][l].at \in {"send", "nft", "recount"}
  PROVE  Shaped'
<1>1. CASE Ends(c, l, "failed")
  BY <1>1, EndsStep
<1>2. CASE ~Ends(c, l, "failed")
  <2>1. PICK o, u, h : o = run[c].user /\ u = [o EXCEPT !.at = "await"] /\ h = Prompt(o)
    OBVIOUS
  <2>2. l = "user" /\ run' = [run EXCEPT ![c] = [user |-> u, root |-> h]]
    BY <1>2, <2>1, TypeOf DEF Escalates, Level, Shaped
  <2>3. o \in Runner /\ Placed(o) /\ Paired(o, run[c].root) /\ o.at \in {"send", "nft", "recount"}
    BY <2>1, <2>2, TypeOf DEF Shaped
  <2>4. "await" \in Label /\ "prompt" \in Label
    BY DEF Label
  <2>5. u.at = "await" /\ u.op = o.op /\ u.arg = o.arg /\ u.start = o.start /\ u.filed = o.filed
    BY <2>1, <2>3 DEF Runner
  <2>14. u \in Runner
    BY <2>1, <2>3, <2>4, AtType
  <2>6. o.op \in Op \cup {None} /\ o.arg \in Pid \cup Address \cup {None} /\ o.start \in 1..MaxBorn \cup {None}
    BY <2>3 DEF Runner
  <2>7. h = [Idle EXCEPT !.at = "prompt", !.op = o.op, !.arg = o.arg, !.want = o.start]
    BY <2>1 DEF Prompt
  <2>8. h.at = "prompt" /\ h.op = o.op /\ h.arg = o.arg /\ h.want = o.start
    BY <2>7 DEF Idle
  <2>13. h \in Runner
    BY <2>4, <2>6, <2>7, IdleType, AtType, OpType, ArgType, WantType
  <2>9. Placed(u)
    BY <2>3, <2>5 DEF Placed, ArgOK, Signalling
  <2>10. Placed(h)
    BY <2>3, <2>8 DEF Placed, ArgOK, Signalling
  <2>11. o.filed = None
    BY <2>3 DEF Paired
  <2>12. Paired(u, h)
    BY <2>5, <2>8, <2>11 DEF Paired
  <2> QED BY <2>2, <2>5, <2>8, <2>13, <2>14, <2>9, <2>10, <2>12, ShapedBoth
<1> QED BY <1>1, <1>2

-----------------------------------------------------------------------------
(***************************************************************************)
(* Each action of Escalation.                                              *)
(***************************************************************************)

LEMMA RequestShaped ==
  ASSUME Shaped, setting \in Setting, NEW c \in Caller, NEW job \in setting.jobs, Request(c, job)
  PROVE  Shaped'
<1>1. setting \in SettingType /\ job \in Command
  BY SettingAssumption DEF SettingType
<1>2. /\ job.op \in Op /\ job.op \in Op \cup {None} /\ job.arg \in Pid \cup Address \cup {None}
      /\ job.want \in 1..MaxBorn \cup {None}
  BY <1>1 DEF Command
<1>3. /\ job.op \in SignalOp => job.arg \in Pid
      /\ job.op = "quarantine" => job.arg \in Address
  BY SettingAssumption DEF Aimed
<1>4. PICK f, u : /\ f = FirstStep(job.op)
                  /\ u = [Idle EXCEPT !.at = f, !.op = job.op, !.arg = job.arg, !.want = job.want]
  OBVIOUS
<1>5. f \in Label /\ f \in {"open", "nft", "count"}
  BY <1>4 DEF FirstStep, Label
<1>6. /\ f = "open" => job.op \in SignalOp
      /\ f = "nft" => job.op \in RulesetOp
      /\ f = "count" => job.op = "sever"
  BY <1>2, <1>4 DEF FirstStep, Op
<1>7. u \in Runner
  BY <1>2, <1>4, <1>5, IdleType, AtType, OpType, ArgType, WantType
<1>8. u.at = f /\ u.op = job.op /\ u.arg = job.arg /\ u.filed = None
  BY <1>4 DEF Idle
<1>9. run' = [run EXCEPT ![c] = [user |-> u, root |-> Idle]]
  BY <1>4 DEF Request
<1>10. Idle.at = "idle" /\ Idle.filed = None
  BY DEF Idle
<1>11. Placed(u)
  BY <1>2, <1>3, <1>5, <1>6, <1>8 DEF Placed, ArgOK, Signalling
<1>12. Placed(Idle) /\ Paired(u, Idle)
  BY <1>5, <1>8, <1>10 DEF Placed, Paired, Signalling
<1> QED BY <1>7, <1>9, <1>11, <1>12, IdleType, ShapedBoth

LEMMA ApproveShaped == ASSUME Shaped, NEW c \in Caller, Approve(c) PROVE Shaped'
<1>1. PICK x, h, r : /\ x = IF setting.route = "legacy" /\ run[c].root.op = "sever"
                            THEN "kill" ELSE FirstStep(run[c].root.op)
                     /\ h = run[c].root /\ r = [h EXCEPT !.at = x]
  OBVIOUS
<1>2. h \in Runner /\ Placed(h) /\ Paired(run[c].user, h) /\ h.at = "prompt" /\ run[c]["root"] = h
  BY <1>1, TypeOf DEF Shaped, Approve, At, Level
<1>3. h.op \in Op
  BY <1>2 DEF Placed, ArgOK
<1>4. /\ x \in Label /\ x \in {"open", "nft", "count", "kill"}
      /\ x = "open" => h.op \in SignalOp
      /\ x = "nft" => h.op \in RulesetOp
      /\ x \in {"count", "kill"} => h.op = "sever"
  BY <1>1, <1>3 DEF FirstStep, Label, Op
<1>5. r \in Runner
  BY <1>1, <1>2, <1>4, AtType
<1>6. r.at = x /\ r.op = h.op /\ r.arg = h.arg /\ r.want = h.want
  BY <1>1, <1>2 DEF Runner
<1>7. run' = [run EXCEPT ![c]["root"] = r]
  BY <1>1, <1>2 DEF Approve, Goes, Shaped, Runs
<1>8. Placed(r)
  BY <1>2, <1>4, <1>6 DEF Placed, ArgOK, Signalling
<1>9. Paired(run[c].user, r)
  BY <1>2, <1>4, <1>6 DEF Paired
<1> QED BY <1>5, <1>7, <1>8, <1>9, ShapedOne DEF Level

\* The command of c changes, or ends, and its helper is over.
LEMMA HelperGone ==
  ASSUME Shaped, NEW c \in Caller, NEW u \in Runner, Placed(u), u.at \notin {"prompt", "await",
         "overdue"},
         u.filed # None => u.at = "done",
         run' = [run EXCEPT ![c] = [user |-> u, root |-> Idle]]
  PROVE  Shaped'
<1>1. Idle.at = "idle" /\ Idle.filed = None
  BY DEF Idle
<1>2. Placed(Idle) /\ Paired(u, Idle)
  BY <1>1 DEF Placed, Paired, Signalling
<1> QED BY <1>2, IdleType, ShapedBoth

\* A command that waits, or waited too long, ends with an outcome.
LEMMA OverType ==
  ASSUME NEW u \in Runner, Placed(u), u.at # "idle", NEW o \in {None, "ok", "failed", "cancelled",
         "timeout"},
         NEW w, w = [u EXCEPT !.at = "done", !.outcome = o]
  PROVE  w \in Runner /\ Placed(w) /\ w.at = "done"
<1>1. "done" \in Label
  BY DEF Label
<1>2. w \in Runner
  BY <1>1, AtType, OutcomeType
<1>3. w.at = "done" /\ w.op = u.op /\ w.arg = u.arg
  BY DEF Runner
<1> QED BY <1>2, <1>3 DEF Placed, ArgOK, Signalling

LEMMA DenyShaped == ASSUME Shaped, NEW c \in Caller, Deny(c) PROVE Shaped'
<1>1. PICK u, w : u = run[c].user /\ w = [u EXCEPT !.at = "done", !.outcome = "cancelled"]
  OBVIOUS
<1>2. /\ u \in Runner /\ Placed(u) /\ Paired(u, run[c].root) /\ run[c].root.at = "prompt"
  BY <1>1, TypeOf DEF Shaped, Deny, At, Level
<1>4. CASE u.at = "await"
  <2>2. w \in Runner /\ Placed(w) /\ w.at = "done"
    BY <1>1, <1>2, <1>4, OverType
  <2>1. run' = [run EXCEPT ![c] = [user |-> w, root |-> Idle]]
    BY <1>1, <1>4 DEF Deny
  <2> QED BY <2>1, <2>2, HelperGone
<1>5. CASE u.at # "await"
  <2>1. run' = [run EXCEPT ![c] = [user |-> u, root |-> Idle]]
    BY <1>1, <1>5 DEF Deny
  <2>2. u.at \notin {"prompt", "await"} /\ (u.filed # None => u.at = "done")
    BY <1>2, <1>5 DEF Paired
  <2>3. u.at # "overdue"
    BY <1>2 DEF Paired
  <2> QED BY <1>2, <2>1, <2>2, <2>3, HelperGone
<1> QED BY <1>4, <1>5

LEMMA ReturnShaped == ASSUME Shaped, NEW c \in Caller, Return(c) PROVE Shaped'
<1>1. PICK u, o, x : u = run[c].user /\ o = run[c].root.outcome /\ x = AfterHelper(u, o)
  OBVIOUS
<1>2. PICK v, w : /\ v = [u EXCEPT !.at = x, !.outcome = o, !.tries = 1]
                  /\ w = [u EXCEPT !.at = "done", !.outcome = "timeout"]
  OBVIOUS
<1>3. /\ u \in Runner /\ run[c].root \in Runner /\ Placed(u) /\ Paired(u, run[c].root)
      /\ run[c].root.at = "done"
  BY <1>1, TypeOf DEF Shaped, Return, At, Level
<1>4. o \in {None, "ok", "failed", "cancelled", "timeout"}
  BY <1>1, <1>3 DEF Runner
<1>5. CASE u.at = "await"
  <2>1. run' = [run EXCEPT ![c] = [user |-> v, root |-> Idle]]
    BY <1>1, <1>2, <1>5 DEF Return
  <2>2. /\ x \in Label /\ x \in {"capture", "mark", "unmark", "recount", "done"}
        /\ x = "capture" => u.op = "stop"
        /\ x = "mark" => u.op = "apply"
        /\ x = "unmark" => u.op = "clear"
        /\ x = "recount" => u.op = "sever"
    BY <1>1 DEF AfterHelper, Label
  <2>3. 1 \in 0..Grace
    BY ConstantFacts
  <2>4. v \in Runner
    BY <1>2, <1>3, <1>4, <2>2, <2>3, AtType, OutcomeType, TriesType
  <2>5. v.at = x /\ v.op = u.op /\ v.arg = u.arg /\ v.filed = u.filed
    BY <1>2, <1>3 DEF Runner
  <2>6. Placed(v)
    BY <1>3, <1>5, <2>2, <2>5 DEF Placed, ArgOK, Signalling
  <2>7. v.filed = None
    BY <1>3, <1>5, <2>5 DEF Paired
  <2> QED BY <2>1, <2>2, <2>4, <2>5, <2>6, <2>7, HelperGone
<1>6. CASE u.at = "overdue"
  <2>1. run' = [run EXCEPT ![c] = [user |-> w, root |-> Idle]]
    BY <1>1, <1>2, <1>6 DEF Return
  <2>2. w \in Runner /\ Placed(w) /\ w.at = "done"
    BY <1>2, <1>3, <1>6, OverType
  <2> QED BY <2>1, <2>2, HelperGone
<1>7. CASE u.at \notin {"await", "overdue"}
  <2>1. run' = [run EXCEPT ![c] = [user |-> u, root |-> Idle]]
    BY <1>1, <1>7 DEF Return
  <2> QED BY <1>3, <1>7, <2>1, HelperGone DEF Paired
<1> QED BY <1>5, <1>6, <1>7

LEMMA TimeOutShaped == ASSUME Shaped, NEW c \in Caller, TimeOut(c) PROVE Shaped'
<1>1. PICK u, h, w, v : /\ u = run[c].user /\ h = run[c].root
                        /\ w = [u EXCEPT !.at = "done", !.outcome = "timeout"]
                        /\ v = [u EXCEPT !.at = "overdue"]
  OBVIOUS
<1>2. /\ u \in Runner /\ h \in Runner /\ Placed(u) /\ Paired(u, h) /\ u.at = "await"
      /\ run[c]["user"] = u
  BY <1>1, TypeOf DEF Shaped, TimeOut, At, Level
<1>3. CASE h.at = "prompt"
  <2>1. run' = [run EXCEPT ![c] = [user |-> w, root |-> Idle]]
    BY <1>1, <1>3 DEF TimeOut, Shaped, Runs
  <2>2. w \in Runner /\ Placed(w) /\ w.at = "done"
    BY <1>1, <1>2, OverType
  <2> QED BY <2>1, <2>2, HelperGone
<1>4. CASE h.at # "prompt"
  <2>1. run' = [run EXCEPT ![c]["user"] = v]
    BY <1>1, <1>2, <1>4 DEF TimeOut, Shaped, Runs
  <2>2. "overdue" \in Label
    BY DEF Label
  <2>3. v \in Runner
    BY <1>1, <1>2, <2>2, AtType
  <2>4. /\ v.at = "overdue" /\ v.op = u.op /\ v.arg = u.arg /\ v.start = u.start
        /\ v.filed = u.filed
    BY <1>1, <1>2 DEF Runner
  <2>5. Placed(v)
    BY <1>2, <2>4 DEF Placed, ArgOK, Signalling
  <2>6. Paired(v, h)
    BY <1>2, <1>4, <2>4 DEF Paired
  <2> QED BY <1>1, <2>1, <2>3, <2>5, <2>6, ShapedOne DEF Level
<1> QED BY <1>3, <1>4

LEMMA CrashShaped == ASSUME Shaped, NEW c \in Caller, Crash(c) PROVE Shaped'
<1>1. run' = [run EXCEPT ![c]["user"] = Idle]
  BY DEF Crash, Shaped, Runs
<1>2. Idle.at = "idle" /\ Idle.filed = None
  BY DEF Idle
<1>3. Placed(Idle)
  BY <1>2 DEF Placed, Signalling
<1>4. Paired(Idle, run[c].root)
  BY <1>2 DEF Shaped, Paired
<1> QED BY <1>1, <1>3, <1>4, IdleType, ShapedOne DEF Level

-----------------------------------------------------------------------------
(***************************************************************************)
(* Each action of ProcessSignal.                                           *)
(***************************************************************************)

LEMMA ProcessType ==
  ASSUME World, NEW p \in Pid, procs[p] # None
  PROVE  procs[p] \in Process /\ procs[p].start \in 1..MaxBorn
  BY DEF World, Population, Process

LEMMA ArgIsPid ==
  ASSUME Shaped, NEW c \in Caller, NEW l \in Level, run[c][l].at \in Signalling \cup {"capture"}
  PROVE  run[c][l].arg \in Pid /\ run[c][l].op \in SignalOp
  BY DEF Shaped, Placed, ArgOK, Signalling, SignalOp

LEMMA OpenShaped ==
  ASSUME World, Shaped, NEW c \in Caller, NEW l \in Level, Open(c, l)
  PROVE  Shaped'
<1>1. PICK r, h, n : /\ r = run[c][l] /\ n = [r EXCEPT !.at = "check", !.handle = h]
                     /\ h = IF setting.pidfd /\ procs[r.arg] # None
                            THEN procs[r.arg].start ELSE None
  OBVIOUS
<1>2. r \in Runner /\ Placed(r) /\ r.at = "open" /\ r.arg \in Pid
  BY <1>1, TypeOf, ArgIsPid DEF Shaped, Open, At, Signalling
<1>3. h \in 1..MaxBorn \cup {None} /\ "check" \in Label
  BY <1>1, <1>2, ProcessType DEF Label
<1>4. n \in Runner
  BY <1>1, <1>2, <1>3, AtType, HandleType
<1>5. n.at = "check" /\ n.op = r.op /\ n.arg = r.arg /\ n.want = r.want /\ n.filed = r.filed
  BY <1>1, <1>2 DEF Runner
<1>6. run' = [run EXCEPT ![c][l] = n]
  BY <1>1, <1>2 DEF Open, Shaped, Runs
<1>7. Placed(n)
  BY <1>2, <1>5 DEF Placed, ArgOK, Signalling
<1>8. l = "user" => r.filed = None
  BY <1>1, <1>2, TypeOf DEF Shaped, Paired
<1> QED BY <1>1, <1>2, <1>4, <1>5, <1>6, <1>7, <1>8, OneStep DEF Level

LEMMA CheckShaped ==
  ASSUME Shaped, NEW c \in Caller, NEW l \in Level, Check(c, l)
  PROVE  Shaped'
<1>1. run[c][l] \in Runner /\ Placed(run[c][l]) /\ run[c][l].at = "check"
  BY TypeOf DEF Shaped, Check, At
<1>2. CASE Ends(c, l, "failed")
  BY <1>1, <1>2, EndsStep
<1>3. CASE Goes(c, l, "pin")
  <2>1. PICK n : n = [run[c][l] EXCEPT !.at = "pin"]
    OBVIOUS
  <2>2. n.at = "pin" /\ n.op = run[c][l].op /\ n.arg = run[c][l].arg
    BY <1>1, <2>1 DEF Runner
  <2>3. Placed(n)
    BY <1>1, <2>2 DEF Placed, ArgOK, Signalling
  <2>4. "pin" \in Label
    BY DEF Label
  <2> QED BY <1>1, <1>3, <2>1, <2>3, <2>4, GoesStep
<1> QED BY <1>2, <1>3 DEF Check

LEMMA PinShaped ==
  ASSUME World, Shaped, NEW c \in Caller, NEW l \in Level, Pin(c, l)
  PROVE  Shaped'
<1>1. PICK r, n : r = run[c][l] /\ n = [r EXCEPT !.at = "send", !.start = procs[r.arg].start]
  OBVIOUS
<1>2. r \in Runner /\ Placed(r) /\ r.at = "pin" /\ r.arg \in Pid
  BY <1>1, TypeOf, ArgIsPid DEF Shaped, Pin, At, Signalling
<1>3. CASE Ends(c, l, "failed")
  BY <1>1, <1>2, <1>3, EndsStep
<1>4. CASE ~Ends(c, l, "failed")
  <2>1. /\ procs[r.arg] # None
        /\ run' = [run EXCEPT ![c][l].at = "send", ![c][l].start = procs[r.arg].start]
    BY <1>1, <1>4 DEF Pin
  <2>2. procs[r.arg].start \in 1..MaxBorn /\ procs[r.arg].start # None
    BY <1>2, <2>1, ProcessType, ConstantFacts
  <2>3. "send" \in Label /\ procs[r.arg].start \in 1..MaxBorn \cup {None}
    BY <2>2 DEF Label
  <2>4. n \in Runner
    BY <1>1, <1>2, <2>3, AtType, StartType
  <2>5. /\ n.at = "send" /\ n.op = r.op /\ n.arg = r.arg /\ n.want = r.want /\ n.filed = r.filed
        /\ n.start # None
    BY <1>1, <1>2, <2>2 DEF Runner
  <2>6. run' = [run EXCEPT ![c][l] = n]
    BY <1>1, <1>2, <2>1 DEF Shaped, Runs
  <2>7. Placed(n)
    BY <1>2, <2>5 DEF Placed, ArgOK, Signalling
  <2>8. l = "user" => r.filed = None
    BY <1>1, <1>2, TypeOf DEF Shaped, Paired
  <2> QED BY <1>1, <1>2, <2>4, <2>5, <2>6, <2>7, <2>8, OneStep DEF Level
<1> QED BY <1>3, <1>4

LEMMA SendShaped ==
  ASSUME World, Shaped, NEW c \in Caller, NEW l \in Level, Send(c, l)
  PROVE  Shaped'
<1>1. PICK r, x, n : /\ r = run[c][l] /\ x = AfterSignal(r.op, l)
                     /\ n = [r EXCEPT !.at = x, !.outcome = "ok"]
  OBVIOUS
<1>2. r \in Runner /\ Placed(r) /\ r.at = "send" /\ r.arg \in Pid /\ r.op \in SignalOp
  BY <1>1, TypeOf, ArgIsPid DEF Shaped, Send, At, Signalling
<1>3. CASE Ends(c, l, "failed")
  BY <1>1, <1>2, <1>3, EndsStep
<1>4. CASE Escalates(c, l)
  BY <1>1, <1>2, <1>4, EscalatesStep
<1>5. CASE run' = [run EXCEPT ![c][l].at = x, ![c][l].outcome = "ok"]
  <2>1. /\ x \in Label /\ x \in {"grace", "capture", "done"}
        /\ x = "capture" => r.op = "stop" /\ l = "user"
    BY <1>1 DEF AfterSignal, Label
  <2>2. n \in Runner
    BY <1>1, <1>2, <2>1, AtType, OutcomeType
  <2>3. /\ n.at = x /\ n.op = r.op /\ n.arg = r.arg /\ n.want = r.want /\ n.filed = r.filed
        /\ n.start = r.start
    BY <1>1, <1>2 DEF Runner
  <2>4. run' = [run EXCEPT ![c][l] = n]
    BY <1>1, <1>2, <1>5 DEF Shaped, Runs
  <2>5. Placed(n)
    BY <1>2, <2>1, <2>3 DEF Placed, ArgOK, Signalling
  <2>6. l = "user" => r.filed = None
    BY <1>1, <1>2, TypeOf DEF Shaped, Paired
  <2>7. l = "root" => x # "capture"
    BY <2>1
  <2> QED BY <1>1, <1>2, <2>1, <2>2, <2>3, <2>4, <2>5, <2>6, <2>7, OneStep DEF Level
<1> QED BY <1>1, <1>3, <1>4, <1>5 DEF Send

LEMMA GraceShaped ==
  ASSUME World, Shaped, NEW c \in Caller, NEW l \in Level, GraceStep(c, l)
  PROVE  Shaped'
<1>1. PICK r, n : r = run[c][l] /\ n = [r EXCEPT !.tries = r.tries + 1]
  OBVIOUS
<1>2. r \in Runner /\ Placed(r) /\ r.at = "grace"
  BY <1>1, TypeOf DEF Shaped, GraceStep, At
<1>3. CASE Ends(c, l, "ok")
  BY <1>1, <1>2, <1>3, EndsStep
<1>4. CASE ~Ends(c, l, "ok")
  <2>1. r.tries < Grace /\ run' = [run EXCEPT ![c][l].tries = @ + 1]
    BY <1>1, <1>4 DEF GraceStep
  <2>2. r.tries \in 0..Grace
    BY <1>2 DEF Runner
  <2>3. r.tries + 1 \in 0..Grace
    BY <2>1, <2>2, ConstantFacts
  <2>4. n \in Runner
    BY <1>1, <1>2, <2>3, TriesType
  <2>5. /\ n.at = "grace" /\ n.op = r.op /\ n.arg = r.arg /\ n.want = r.want /\ n.filed = r.filed
        /\ n.start = r.start
    BY <1>1, <1>2 DEF Runner
  <2>6. run' = [run EXCEPT ![c][l] = n]
    BY <1>1, <1>2, <2>1 DEF Shaped, Runs
  <2>7. Placed(n)
    BY <1>2, <2>5 DEF Placed, ArgOK, Signalling
  <2>8. l = "user" => r.filed = None
    BY <1>1, <1>2, TypeOf DEF Shaped, Paired
  <2> QED BY <1>1, <1>2, <2>4, <2>5, <2>6, <2>7, <2>8, OneStep DEF Level
<1> QED BY <1>3, <1>4

LEMMA CaptureShaped ==
  ASSUME World, Shaped, NEW c \in Caller, Capture(c)
  PROVE  Shaped'
<1>1. PICK r, n : r = run[c]["user"] /\ n = [r EXCEPT !.at = "done", !.filed = "evidence"]
  OBVIOUS
<1>2. r \in Runner /\ Placed(r) /\ r.at = "capture" /\ r.arg \in Pid /\ run[c].user = r
  BY <1>1, TypeOf, ArgIsPid DEF Shaped, Capture, At, Level
<1>3. "done" \in Label
  BY DEF Label
<1>4. CASE run' = [run EXCEPT ![c].user.at = "done", ![c].user.filed = "evidence"]
  <2>1. n \in Runner
    BY <1>1, <1>2, <1>3, AtType, FiledType
  <2>2. n.at = "done" /\ n.op = r.op /\ n.arg = r.arg /\ n.want = r.want
    BY <1>1, <1>2 DEF Runner
  <2>3. run' = [run EXCEPT ![c]["user"] = n]
    BY <1>1, <1>2, <1>4 DEF Shaped, Runs
  <2>4. Placed(n)
    BY <1>2, <2>2 DEF Placed, ArgOK, Signalling
  <2> QED BY <1>1, <1>2, <2>1, <2>2, <2>3, <2>4, OneStep DEF Level
<1>5. CASE Goes(c, "user", "done")
  <2>1. PICK m : m = [r EXCEPT !.at = "done"]
    OBVIOUS
  <2>2. m.at = "done" /\ m.op = r.op /\ m.arg = r.arg
    BY <1>2, <2>1 DEF Runner
  <2>3. Placed(m)
    BY <1>2, <2>2 DEF Placed, ArgOK, Signalling
  <2> QED BY <1>1, <1>2, <1>3, <1>5, <2>1, <2>3, GoesStep DEF Level
<1> QED BY <1>4, <1>5 DEF Capture

-----------------------------------------------------------------------------
(***************************************************************************)
(* Each action of NetworkGuard.                                            *)
(***************************************************************************)

\* A runner of an operation on the network moves on.
LEMMA NetGoes ==
  ASSUME Shaped, NEW c \in Caller, NEW l \in Level, NEW x \in {"done", "write", "kill", "recount"},
         Goes(c, l, x), run[c][l].at \in {"mark", "write", "unmark", "count", "kill"},
         x = "write" => run[c][l].at = "mark" /\ l = "user",
         x \in {"kill", "recount"} => run[c][l].at \in {"count", "kill"}
  PROVE  Shaped'
<1>1. run[c][l] \in Runner /\ Placed(run[c][l])
  BY TypeOf DEF Shaped
<1>2. PICK n : n = [run[c][l] EXCEPT !.at = x]
  OBVIOUS
<1>3. n.at = x /\ n.op = run[c][l].op /\ n.arg = run[c][l].arg
  BY <1>1, <1>2 DEF Runner
<1>4. Placed(n)
  BY <1>1, <1>3 DEF Placed, ArgOK, Signalling
<1>5. x \in Label
  BY DEF Label
<1> QED BY <1>1, <1>2, <1>4, <1>5, GoesStep

LEMMA NftShaped ==
  ASSUME Shaped, NEW c \in Caller, NftAsUser(c) \/ NftAsRoot(c) \/ NftFails(c)
  PROVE  Shaped'
<1>1. CASE NftAsUser(c)
  BY <1>1, EscalatesStep DEF NftAsUser, At, Level
<1>2. CASE NftAsRoot(c)
  BY <1>2, EndsStep DEF NftAsRoot, At, Level
<1>3. CASE NftFails(c)
  BY <1>3, EscalatesStep DEF NftFails, At, Level
<1> QED BY <1>1, <1>2, <1>3

LEMMA MarkerShaped ==
  ASSUME Shaped, NEW c \in Caller, Mark(c) \/ WriteMarker(c) \/ Unmark(c)
  PROVE  Shaped'
<1>1. run[c]["user"] = run[c].user /\ "user" \in Level
  BY TypeOf DEF Shaped, Level
<1>2. CASE Mark(c)
  BY <1>1, <1>2, NetGoes DEF Mark, Leaves, At
<1>3. CASE WriteMarker(c)
  BY <1>1, <1>3, NetGoes DEF WriteMarker, Leaves, At
<1>4. CASE Unmark(c)
  BY <1>1, <1>4, NetGoes DEF Unmark, Leaves, At
<1> QED BY <1>2, <1>3, <1>4

LEMMA CountShaped ==
  ASSUME World, Shaped, NEW c \in Caller, NEW l \in Level, Count(c, l)
  PROVE  Shaped'
<1>1. PICK r, n : r = run[c][l] /\ n = [r EXCEPT !.at = "kill", !.counted = conns]
  OBVIOUS
<1>2. r \in Runner /\ Placed(r) /\ r.at = "count"
  BY <1>1, TypeOf DEF Shaped, Count, At
<1>3. CASE Ends(c, l, "failed")
  BY <1>1, <1>2, <1>3, EndsStep
<1>4. CASE ~Ends(c, l, "failed")
  <2>1. run' = [run EXCEPT ![c][l].at = "kill", ![c][l].counted = conns]
    BY <1>4 DEF Count
  <2>2. "kill" \in Label /\ conns \in SUBSET (1..MaxConn)
    BY DEF Label, World, Network
  <2>3. n \in Runner
    BY <1>1, <1>2, <2>2, AtType, CountedType
  <2>4. n.at = "kill" /\ n.op = r.op /\ n.arg = r.arg /\ n.want = r.want /\ n.filed = r.filed
    BY <1>1, <1>2 DEF Runner
  <2>5. run' = [run EXCEPT ![c][l] = n]
    BY <1>1, <1>2, <2>1 DEF Shaped, Runs
  <2>6. Placed(n)
    BY <1>2, <2>4 DEF Placed, ArgOK, Signalling
  <2>7. l = "user" => r.filed = None
    BY <1>1, <1>2, TypeOf DEF Shaped, Paired
  <2> QED BY <1>1, <1>2, <2>3, <2>4, <2>5, <2>6, <2>7, OneStep DEF Level
<1> QED BY <1>3, <1>4

LEMMA SeverShaped ==
  ASSUME Shaped, NEW c \in Caller, NEW l \in Level, Kill(c, l) \/ Recount(c, l)
  PROVE  Shaped'
<1>1. CASE Kill(c, l)
  <2>1. run[c][l].at = "kill"
    BY <1>1 DEF Kill, At
  <2>2. Ends(c, l, "ok") \/ Ends(c, l, "failed") \/ Goes(c, l, "recount")
    BY <1>1 DEF Kill
  <2> QED BY <2>1, <2>2, EndsStep, NetGoes
<1>2. CASE Recount(c, l)
  <2>1. run[c][l].at = "recount"
    BY <1>2 DEF Recount, At
  <2>2. Ends(c, l, "ok") \/ Ends(c, l, "failed") \/ Escalates(c, l)
    BY <1>2 DEF Recount
  <2> QED BY <2>1, <2>2, EndsStep, EscalatesStep
<1> QED BY <1>1, <1>2

-----------------------------------------------------------------------------
(***************************************************************************)
(* Every step keeps the invariant.                                         *)
(***************************************************************************)

LEMMA AllIdle ==
  ASSUME run' = [c \in Caller |-> [user |-> Idle, root |-> Idle]]
  PROVE  Shaped'
<1>1. run' \in Runs
  BY IdleType, SMT DEF Runs, Level
<1>2. \A c \in Caller : run'[c].user = Idle /\ run'[c].root = Idle
  OBVIOUS
<1>3. \A c \in Caller, l \in Level : run'[c][l] = Idle
  BY <1>1, <1>2, SMT DEF Runs, Level
<1>4. Idle.at = "idle" /\ Idle.filed = None
  BY DEF Idle
<1>5. \A c \in Caller, l \in Level : Placed(run'[c][l])
  BY <1>3, <1>4 DEF Placed, Signalling
<1>6. \A c \in Caller : Paired(run'[c].user, run'[c].root)
  BY <1>2, <1>4 DEF Paired
<1> QED BY <1>1, <1>5, <1>6 DEF Shaped, Placed, Paired, ArgOK

LEMMA SameShape == ASSUME Shaped, UNCHANGED run PROVE Shaped'
  BY DEF Shaped, Placed, Paired, ArgOK

LEMMA NextShaped == ASSUME IInv, [Next]_vars PROVE Shaped'
<1>0. World /\ Shaped /\ setting \in Setting
  BY DEF IInv, World, Stage
<1>1. ASSUME NEW c \in Caller, NEW job \in setting.jobs, Request(c, job) PROVE Shaped'
  BY <1>0, <1>1, RequestShaped
<1>2. ASSUME NEW c \in Caller, Approve(c) \/ Deny(c) \/ Return(c) \/ TimeOut(c) \/ Crash(c)
  PROVE Shaped'
  BY <1>0, <1>2, ApproveShaped, DenyShaped, ReturnShaped, TimeOutShaped, CrashShaped
<1>3. ASSUME NEW c \in Caller, NEW l \in Level,
             Open(c, l) \/ Check(c, l) \/ Pin(c, l) \/ Send(c, l) \/ GraceStep(c, l)
      PROVE  Shaped'
  BY <1>0, <1>3, OpenShaped, CheckShaped, PinShaped, SendShaped, GraceShaped
<1>4. ASSUME NEW c \in Caller, Capture(c) PROVE Shaped'
  BY <1>0, <1>4, CaptureShaped
<1>5. ASSUME ProcEnv PROVE Shaped'
  BY <1>0, <1>5, SameShape DEF ProcEnv, Exit, Spawn, Exec, Becomes, escVars
<1>6. ASSUME NEW c \in Caller, NEW l \in Level, Count(c, l) \/ Kill(c, l) \/ Recount(c, l)
      PROVE  Shaped'
  BY <1>0, <1>6, CountShaped, SeverShaped
<1>7. ASSUME NEW c \in Caller,
             \/ NftAsUser(c) \/ NftAsRoot(c) \/ NftFails(c)
             \/ Mark(c) \/ WriteMarker(c) \/ Unmark(c)
      PROVE  Shaped'
  BY <1>0, <1>7, NftShaped, MarkerShaped
<1>8. ASSUME OpenConn \/ (\E k \in conns : CloseConn(k)) \/ Flush PROVE Shaped'
  BY <1>0, <1>8, SameShape DEF OpenConn, CloseConn, Flush, escVars
<1>9. ASSUME RebootAll PROVE Shaped'
  BY <1>9, AllIdle DEF RebootAll, Reboot
<1>10. ASSUME UNCHANGED vars PROVE Shaped'
  BY <1>0, <1>10, SameShape DEF vars, escVars
<1>11. ASSUME EscNext PROVE Shaped'
  BY <1>1, <1>2, <1>11 DEF EscNext
<1>12. ASSUME ProcNext PROVE Shaped'
  BY <1>3, <1>4, <1>5, <1>12 DEF ProcNext
<1>13. ASSUME NetNext PROVE Shaped'
  BY <1>6, <1>7, <1>8, <1>13 DEF NetNext
<1> QED BY <1>9, <1>10, <1>11, <1>12, <1>13 DEF Next

-----------------------------------------------------------------------------
(***************************************************************************)
(* The rest of the state keeps its type.                                   *)
(***************************************************************************)

LEMMA StageStep == ASSUME IInv, [Next]_vars PROVE Stage'
<1>0. setting \in Setting /\ acted \in [Caller -> BOOLEAN] /\ smooth \in BOOLEAN
  BY DEF IInv, World, Stage
<1>1. ASSUME NEW c \in Caller, NEW job \in setting.jobs, Request(c, job) PROVE Stage'
  BY <1>0, <1>1 DEF Request, Stage
<1>2. ASSUME NEW c \in Caller, Approve(c) \/ Deny(c) \/ Return(c) \/ TimeOut(c) \/ Crash(c)
  PROVE Stage'
  BY <1>0, <1>2 DEF Approve, Deny, Return, TimeOut, Crash, Stage
<1>3. ASSUME NEW c \in Caller, NEW l \in Level,
             Open(c, l) \/ Check(c, l) \/ Pin(c, l) \/ Send(c, l) \/ GraceStep(c, l)
      PROVE  Stage'
  BY <1>0, <1>3 DEF Open, Check, Pin, Send, GraceStep, Delivered, Stage
<1>4. ASSUME ProcEnv \/ \E c \in Caller : Capture(c) PROVE Stage'
  BY <1>0, <1>4 DEF Capture, ProcEnv, Exit, Spawn, Exec, Becomes, escVars, Stage
<1>5. ASSUME NetNext PROVE Stage'
  BY <1>0, <1>5 DEF NetNext, NftAsUser, NftAsRoot, NftFails, Mark, WriteMarker, Unmark, Leaves,
       Count, Kill, Recount, OpenConn, CloseConn, Flush, escVars, Stage
<1>6. ASSUME RebootAll PROVE Stage'
  BY <1>0, <1>6 DEF RebootAll, Reboot, Stage
<1>7. ASSUME UNCHANGED vars PROVE Stage'
  BY <1>0, <1>7 DEF vars, escVars, Stage
<1> QED BY <1>1, <1>2, <1>3, <1>4, <1>5, <1>6, <1>7 DEF Next, EscNext, ProcNext

LEMMA NewType ==
  ASSUME NEW s \in 1..MaxBorn, NEW kind \in Kind, NEW owner \in Level
  PROVE  New(s, kind, owner) \in Process
  BY DEF New, Process

LEMMA SignalledType ==
  ASSUME NEW t \in Process, NEW op PROVE Signalled(op, t) \in Process
  BY DEF Signalled, Process

LEMMA BecomesType ==
  ASSUME Population, NEW t \in [Pid -> Process \cup {None}], Becomes(t)
  PROVE  /\ procs' \in [Pid -> Process \cup {None}] /\ hit' \in Hit \cup {None}
         /\ shielded' \in [Caller -> [Level -> SUBSET (1..MaxBorn)]]
  BY DEF Population, Becomes

LEMMA SignalType ==
  ASSUME IInv, NEW c \in Caller, NEW l \in Level, Send(c, l) \/ GraceStep(c, l)
  PROVE  Population'
<1>1. PICK r, t : r = run[c][l] /\ t = Target(r)
  OBVIOUS
<1>2. Population /\ World /\ r \in Runner /\ r.arg \in Pid
  BY <1>1, TypeOf, ArgIsPid DEF IInv, World, Shaped, Send, GraceStep, At, Signalling
<1>3. t # None => t \in Process /\ t.start \in 1..MaxBorn
  BY <1>1, <1>2, ProcessType DEF Target
<1>4. Delivered(c, l, t) /\ t # None => hit' \in Hit
  <2>1. (setting.pidfd /\ run[c][l].want # None) \in BOOLEAN
    OBVIOUS
  <2> QED BY <1>3, <2>1 DEF Delivered, Hit
<1>5. CASE UNCHANGED <<procs, hit>>
  BY <1>2, <1>5 DEF Population, Send, GraceStep
<1>6. CASE /\ t # None /\ Delivered(c, l, t)
           /\ procs' = [procs EXCEPT ![r.arg] = Signalled(r.op, t)]
  BY <1>2, <1>3, <1>4, <1>6, SignalledType DEF Population, Send, GraceStep
<1>7. CASE t # None /\ Delivered(c, l, t) /\ procs' = [procs EXCEPT ![r.arg].doomed = TRUE]
  <2>1. procs[r.arg] = t
    BY <1>1, <1>7 DEF Target
  <2>2. [procs[r.arg] EXCEPT !.doomed = TRUE] \in Process
    BY <1>3, <1>7, <2>1 DEF Process
  <2> QED BY <1>2, <1>4, <1>7, <2>2 DEF Population, Send, GraceStep
<1> QED BY <1>1, <1>5, <1>6, <1>7 DEF Send, GraceStep

LEMMA PopulationStep == ASSUME IInv, [Next]_vars PROVE Population'
<1>0. Population /\ setting \in Setting
  BY DEF IInv, World, Stage
<1>1. setting.programs \in SUBSET (Kind \X Level)
  BY <1>0, SettingAssumption DEF SettingType
<1>2. ASSUME NEW c \in Caller, NEW l \in Level, Open(c, l) PROVE Population'
  <2>1. Immune(procs) \in SUBSET (1..MaxBorn)
    BY <1>0 DEF Immune, Population, Process
  <2> QED BY <1>0, <1>2, <2>1 DEF Open, Population
<1>3. ASSUME NEW c \in Caller, NEW l \in Level, Send(c, l) \/ GraceStep(c, l) PROVE Population'
  BY <1>3, SignalType
<1>4. ASSUME NEW c \in Caller, NEW l \in Level, Check(c, l) \/ Pin(c, l) \/ Capture(c)
  PROVE Population'
  BY <1>0, <1>4 DEF Check, Pin, Capture, procVars, Population
<1>5. ASSUME NEW p \in Pid, Exit(p) PROVE Population'
  BY <1>0, <1>5, BecomesType DEF Exit, Population
<1>6. ASSUME NEW p \in Pid, NEW prog \in setting.programs, Spawn(p, prog[1], prog[2])
  PROVE Population'
  <2>1. born + 1 \in 1..MaxBorn /\ prog[1] \in Kind /\ prog[2] \in Level
    BY <1>0, <1>1, <1>6, ConstantFacts DEF Spawn, Population
  <2>2. New(born + 1, prog[1], prog[2]) \in Process
    BY <2>1, NewType
  <2>3. [procs EXCEPT ![p] = New(born + 1, prog[1], prog[2])] \in [Pid -> Process \cup {None}]
    BY <1>0, <2>2 DEF Population
  <2>4. born' \in 0..MaxBorn
    BY <1>6, <2>1, ConstantFacts DEF Spawn
  <2>5. Becomes([procs EXCEPT ![p] = New(born + 1, prog[1], prog[2])])
    BY <1>6 DEF Spawn
  <2> QED BY <1>0, <2>3, <2>4, <2>5, BecomesType DEF Population
<1>7. ASSUME NEW p \in Pid, NEW prog \in setting.programs, Exec(p, prog[1], prog[2])
  PROVE Population'
  <2>1. prog[1] \in Kind /\ prog[2] \in Level /\ procs[p] \in Process
    BY <1>0, <1>1, <1>7 DEF Exec, Population
  <2>2. [procs[p] EXCEPT !.kind = prog[1], !.owner = prog[2]] \in Process
    BY <2>1 DEF Process
  <2>3. [procs EXCEPT ![p].kind = prog[1], ![p].owner = prog[2]] \in [Pid -> Process \cup {None}]
    BY <1>0, <2>2 DEF Population
  <2> QED BY <1>0, <1>7, <2>3, BecomesType DEF Exec, Population
<1>8. ASSUME UNCHANGED procVars PROVE Population'
  BY <1>0, <1>8 DEF procVars, Population
<1>9. ASSUME RebootAll PROVE Population'
  BY <1>0, <1>9 DEF RebootAll, Population
<1>10. ASSUME ProcEnv PROVE Population'
  BY <1>5, <1>6, <1>7, <1>10 DEF ProcEnv
<1>11. ASSUME ProcNext PROVE Population'
  BY <1>2, <1>3, <1>4, <1>10, <1>11 DEF ProcNext, Level
<1> QED BY <1>8, <1>9, <1>11 DEF Next, vars

LEMMA SameSetting == ASSUME [Next]_vars PROVE setting' = setting
<1>1. EscNext => setting' = setting
  BY DEF EscNext, Request, Approve, Deny, Return, TimeOut, Crash
<1>2. ProcNext => setting' = setting
  <2>1. ASSUME NEW c \in Caller, NEW l \in Level,
               Open(c, l) \/ Check(c, l) \/ Pin(c, l) \/ Send(c, l) \/ GraceStep(c, l) \/ Capture(c)
        PROVE  setting' = setting
    BY <2>1 DEF Open, Check, Pin, Send, GraceStep, Capture
  <2>2. ProcEnv => setting' = setting
    BY DEF ProcEnv, Exit, Spawn, Exec, Becomes, escVars
  <2> QED BY <2>1, <2>2 DEF ProcNext, Level
<1>3. NetNext => setting' = setting
  BY DEF NetNext, NftAsUser, NftAsRoot, NftFails, Mark, WriteMarker, Unmark, Leaves, Count, Kill,
     Recount, OpenConn, CloseConn, Flush, escVars
<1>4. RebootAll \/ UNCHANGED vars => setting' = setting
  BY DEF RebootAll, Reboot, vars, escVars
<1> QED BY <1>1, <1>2, <1>3, <1>4 DEF Next, vars

LEMMA NetworkStep == ASSUME IInv, [Next]_vars PROVE Network'
<1>0. Network /\ setting \in Setting /\ setting' = setting
  BY SameSetting DEF IInv, World, Stage
<1>9. setting.boots \in Nat \ {0}
  BY <1>0, SettingAssumption DEF SettingType
<1>1. ASSUME NEW c \in Caller, NftAsRoot(c) PROVE Network'
  <2>1. run[c].root.op = "quarantine" => run[c].root.arg \in Address
    BY <1>1, TypeOf DEF IInv, Shaped, Placed, ArgOK, NftAsRoot, At, Level
  <2> QED BY <1>0, <1>1, <2>1 DEF NftAsRoot, Nft, Network
<1>2. ASSUME NEW c \in Caller, Mark(c) \/ WriteMarker(c) \/ Unmark(c) PROVE Network'
  <2>1. /\ marker' \in {None, Torn, boot, marker} /\ boot' = boot
        /\ astray' \in {TRUE, FALSE, astray}
        /\ UNCHANGED <<table, quarantined, conns, opened, engaged, flushed>>
    BY <1>2 DEF Mark, WriteMarker, Unmark, Leaves
  <2>2. boot \in 1..boot
    BY <1>0, <1>9 DEF Network
  <2> QED BY <1>0, <2>1, <2>2 DEF Network
<1>3. ASSUME NEW c \in Caller, NEW l \in Level, Kill(c, l) PROVE Network'
  BY <1>0, <1>3 DEF Kill, Network
<1>4. ASSUME OpenConn \/ (\E k \in conns : CloseConn(k)) \/ Flush PROVE Network'
  <2>1. CASE OpenConn
    BY <1>0, <2>1, ConstantFacts DEF OpenConn, Network
  <2>2. CASE \E k \in conns : CloseConn(k)
    BY <1>0, <2>2 DEF CloseConn, Network
  <2>3. CASE Flush
    BY <1>0, <2>3 DEF Flush, Network
  <2> QED BY <1>4, <2>1, <2>2, <2>3
<1>5. ASSUME RebootAll PROVE Network'
  <2>1. /\ boot < setting.boots /\ boot' = boot + 1 /\ marker' = marker
        /\ table' = FALSE /\ quarantined' = {} /\ conns' = {} /\ opened' = opened
        /\ engaged' = FALSE /\ flushed' = FALSE /\ astray' = FALSE
    BY <1>5 DEF RebootAll, Reboot
  <2>2. boot' \in 1..setting.boots /\ 1..boot \subseteq 1..boot'
    BY <1>0, <1>9, <2>1 DEF Network
  <2> QED BY <1>0, <2>1, <2>2 DEF Network
<1>6. ASSUME UNCHANGED netVars PROVE Network'
  BY <1>0, <1>6 DEF netVars, Network
<1>7. ASSUME NetNext PROVE Network'
  BY <1>1, <1>2, <1>3, <1>4, <1>6, <1>7 DEF NetNext, NftAsUser, NftFails, Count, Recount
<1> QED BY <1>5, <1>6, <1>7 DEF Next, vars

-----------------------------------------------------------------------------
(***************************************************************************)
(* The theorems.                                                           *)
(***************************************************************************)

LEMMA InitIInv == ASSUME Init PROVE IInv
<1>1. setting \in Setting /\ setting \in SettingType /\ Told(setting)
  BY SettingAssumption DEF Init, EscInit
<1>2. Stage
  BY <1>1 DEF Init, EscInit, Stage
<1>3. Population
  <2>1. procs \in [Pid -> Process \cup {None}]
    BY <1>1 DEF Init, ProcInit, SettingType
  <2>2. born \in 0..MaxBorn
    BY <1>1 DEF Init, ProcInit, Told
  <2> QED BY <2>1, <2>2 DEF Init, ProcInit, Population
<1>4. Network
  <2>1. setting.conns \in 0..MaxConn /\ setting.boots \in Nat \ {0}
    BY <1>1 DEF SettingType
  <2>2. setting.conns \in 0..MaxConn /\ 1..setting.conns \subseteq 1..MaxConn /\ 1 \in 1..setting.boots
    BY <2>1, ConstantFacts
  <2>3. /\ table = FALSE /\ quarantined = {} /\ conns = 1..setting.conns /\ opened = setting.conns
        /\ marker = None /\ boot = 1 /\ engaged = FALSE /\ flushed = FALSE /\ astray = FALSE
    BY DEF Init, NetInit
  <2> QED BY <2>2, <2>3 DEF Network
<1>5. Shaped
  <2>1. run = [c \in Caller |-> [user |-> Idle, root |-> Idle]]
    BY DEF Init, EscInit
  <2>2. run \in Runs
    BY <2>1, IdleType, SMT DEF Runs, Level
  <2>3. \A c \in Caller : run[c].user = Idle /\ run[c].root = Idle
    BY <2>1
  <2>4. \A c \in Caller, l \in Level : run[c][l] = Idle
    BY <2>2, <2>3, TypeOf DEF Level
  <2>5. Idle.at = "idle" /\ Idle.filed = None
    BY DEF Idle
  <2>6. Placed(Idle) /\ Paired(Idle, Idle)
    BY <2>5 DEF Placed, Paired, Signalling
  <2> QED BY <2>2, <2>3, <2>4, <2>6 DEF Shaped
<1> QED BY <1>2, <1>3, <1>4, <1>5 DEF IInv, World

\* The invariant holds in every state a command, its helper, the process
\* table and the ruleset can reach.
THEOREM Inductive == Spec => []IInv
<1>1. IInv /\ [Next]_vars => IInv'
  BY NextShaped, StageStep, PopulationStep, NetworkStep DEF IInv, World
<1> QED BY <1>1, InitIInv, PTL DEF Spec

\* The invariant is stronger than the type.
LEMMA IInvTyped == IInv => TypeOK
<1> SUFFICES ASSUME IInv PROVE TypeOK
  OBVIOUS
<1>1. setting.boots \in Nat /\ boot \in 1..setting.boots
  BY SettingAssumption DEF IInv, World, Stage, Network, SettingType
<1>2. 1..boot \subseteq 1..setting.boots
  BY <1>1
<1>3. marker \in {None, Torn} \cup 1..setting.boots
  BY <1>2 DEF IInv, World, Network
<1> QED BY <1>1, <1>3 DEF IInv, World, Stage, Population, Network, Shaped, Runs, TypeOK

\* For any constants the state keeps its type: no runner of
\* run_privileged_operation is ever somewhere its operation does not lead.
THEOREM Typed == Spec => []TypeOK
BY Inductive, IInvTyped, PTL

(***************************************************************************)
(* What a step does to the runners, field by field.                        *)
(***************************************************************************)

-----------------------------------------------------------------------------
(***************************************************************************)
(* What a step does to the runners.                                        *)
(***************************************************************************)

\* The step leaves whom a runner acts on.
Target5(n, r) ==
  n.op = r.op /\ n.arg = r.arg /\ n.want = r.want /\ n.handle = r.handle /\ n.start = r.start

Core(n, r) == Target5(n, r) /\ n.counted = r.counted

\* The other runners stay as they are.
Others(c, l) == \A d \in Caller, k \in Level : d # c \/ k # l => run'[d][k] = run[d][k]

OtherCallers(c) == \A d \in Caller \ {c}, k \in Level : run'[d][k] = run[d][k]

LEMMA OneRun ==
  ASSUME Shaped, NEW c \in Caller, NEW l \in Level, NEW r, run' = [run EXCEPT ![c][l] = r]
  PROVE  run'[c][l] = r /\ Others(c, l)
  BY DEF Shaped, Runs, Others

LEMMA PairRun ==
  ASSUME Shaped, NEW c \in Caller, NEW u \in Runner, NEW h \in Runner,
         run' = [run EXCEPT ![c] = [user |-> u, root |-> h]]
  PROVE  run'[c]["user"] = u /\ run'[c]["root"] = h /\ OtherCallers(c)
<1>1. run'[c]["user"] = u /\ run'[c]["root"] = h /\ \A d \in Caller \ {c} : run'[d] = run[d]
  BY BothRunners DEF Shaped
<1> QED BY <1>1 DEF OtherCallers

LEMMA GoesRun ==
  ASSUME Shaped, NEW c \in Caller, NEW l \in Level, NEW x, Goes(c, l, x)
  PROVE  /\ run'[c][l].at = x /\ Core(run'[c][l], run[c][l]) /\ Others(c, l)
         /\ run'[c][l].outcome = run[c][l].outcome /\ run'[c][l].filed = run[c][l].filed
         /\ run'[c][l].tries = run[c][l].tries
<1>1. run[c][l] \in Runner
  BY TypeOf DEF Shaped
<1>2. PICK r : r = [run[c][l] EXCEPT !.at = x]
  OBVIOUS
<1>3. run' = [run EXCEPT ![c][l] = r]
  BY <1>1, <1>2 DEF Goes, Shaped, Runs
<1>4. run'[c][l] = r /\ Others(c, l)
  BY <1>3, OneRun
<1>5. /\ r.at = x /\ Core(r, run[c][l])
      /\ r.outcome = run[c][l].outcome /\ r.filed = run[c][l].filed /\ r.tries = run[c][l].tries
  BY <1>1, <1>2 DEF Runner, Core, Target5
<1> QED BY <1>4, <1>5

LEMMA EndsRun ==
  ASSUME Shaped, NEW c \in Caller, NEW l \in Level, NEW o, Ends(c, l, o)
  PROVE  /\ run'[c][l].at = "done" /\ run'[c][l].outcome = o
         /\ Core(run'[c][l], run[c][l]) /\ Others(c, l) /\ run'[c][l].filed = run[c][l].filed
<1>1. run[c][l] \in Runner
  BY TypeOf DEF Shaped
<1>2. PICK r : r = [run[c][l] EXCEPT !.at = "done", !.outcome = o]
  OBVIOUS
<1>3. run' = [run EXCEPT ![c][l] = r]
  BY <1>1, <1>2 DEF Ends, Shaped, Runs
<1>4. run'[c][l] = r /\ Others(c, l)
  BY <1>3, OneRun
<1>5. r.at = "done" /\ r.outcome = o /\ Core(r, run[c][l]) /\ r.filed = run[c][l].filed
  BY <1>1, <1>2 DEF Runner, Core, Target5
<1> QED BY <1>4, <1>5

LEMMA IdleFields ==
  /\ Idle.at = "idle" /\ Idle.op = None /\ Idle.arg = None /\ Idle.want = None /\ Idle.handle = None
  /\ Idle.start = None /\ Idle.counted = {} /\ Idle.outcome = None /\ Idle.filed = None
  BY DEF Idle

\* A runner that has just been given its operation.
Fresh(r, at, op, arg, want) ==
  /\ r.at = at /\ r.op = op /\ r.arg = arg /\ r.want = want
  /\ r.handle = None /\ r.start = None /\ r.counted = {} /\ r.outcome = None /\ r.filed = None

\* A command that has asked its helper and waits.
Waits(c) ==
  /\ run'[c]["user"].at = "await" /\ Core(run'[c]["user"], run[c]["user"])
  /\ run'[c]["user"].outcome = run[c]["user"].outcome
  /\ LET u == run[c]["user"] IN Fresh(run'[c]["root"], "prompt", u.op, u.arg, u.start)
  /\ OtherCallers(c)

LEMMA EscalatesRun ==
  ASSUME Shaped, NEW c \in Caller, NEW l \in Level, Escalates(c, l)
  PROVE  Ends(c, l, "failed") \/ (l = "user" /\ Waits(c))
<1>1. CASE ~Ends(c, l, "failed")
  <2>1. PICK o, u, h : o = run[c]["user"] /\ u = [o EXCEPT !.at = "await"] /\ h = Prompt(o)
    OBVIOUS
  <2>2. l = "user" /\ run' = [run EXCEPT ![c] = [user |-> u, root |-> h]]
    BY <1>1, <2>1 DEF Escalates, Level
  <2>3. o \in Runner /\ "await" \in Label /\ "prompt" \in Label
    BY <2>1, TypeOf DEF Shaped, Level, Label
  <2>4. u.at = "await" /\ Core(u, o) /\ u.outcome = o.outcome
    BY <2>1, <2>3 DEF Runner, Core, Target5
  <2>5. u \in Runner
    BY <2>1, <2>3, AtType
  <2>6. o.op \in Op \cup {None} /\ o.arg \in Pid \cup Address \cup {None} /\ o.start \in 1..MaxBorn \cup {None}
    BY <2>3 DEF Runner
  <2>7. h = [Idle EXCEPT !.at = "prompt", !.op = o.op, !.arg = o.arg, !.want = o.start]
    BY <2>1 DEF Prompt
  <2>8. Fresh(h, "prompt", o.op, o.arg, o.start)
    BY <2>7 DEF Idle, Fresh
  <2>9. h \in Runner
    BY <2>3, <2>6, <2>7, IdleType, AtType, OpType, ArgType, WantType
  <2>10. run'[c]["user"] = u /\ run'[c]["root"] = h /\ OtherCallers(c)
    BY <2>2, <2>5, <2>9, PairRun
  <2> QED BY <2>1, <2>2, <2>4, <2>8, <2>10 DEF Waits
<1> QED BY <1>1

LEMMA RequestRun ==
  ASSUME IInv, NEW c \in Caller, NEW job \in setting.jobs, Request(c, job)
  PROVE  /\ Fresh(run'[c]["user"], FirstStep(job.op), job.op, job.arg, job.want)
         /\ run'[c]["root"] = Idle /\ OtherCallers(c)
         /\ job \in Command
<1>1. setting \in SettingType /\ job \in Command
  BY SettingAssumption DEF SettingType, IInv, World, Stage
<1>2. /\ job.op \in Op /\ job.op \in Op \cup {None} /\ job.arg \in Pid \cup Address \cup {None}
      /\ job.want \in 1..MaxBorn \cup {None}
  BY <1>1 DEF Command
<1>3. PICK f, u : /\ f = FirstStep(job.op)
                  /\ u = [Idle EXCEPT !.at = f, !.op = job.op, !.arg = job.arg, !.want = job.want]
  OBVIOUS
<1>4. f \in Label
  BY <1>3 DEF FirstStep, Label
<1>5. u \in Runner
  BY <1>2, <1>3, <1>4, IdleType, AtType, OpType, ArgType, WantType
<1>6. Fresh(u, f, job.op, job.arg, job.want)
  BY <1>3 DEF Idle, Fresh
<1>7. run' = [run EXCEPT ![c] = [user |-> u, root |-> Idle]]
  BY <1>3 DEF Request
<1>8. run'[c]["user"] = u /\ run'[c]["root"] = Idle /\ OtherCallers(c)
  BY <1>5, <1>7, IdleType, PairRun DEF IInv
<1> QED BY <1>1, <1>3, <1>6, <1>8

\* The helper goes; the command keeps its fields.
Answered(c) ==
  /\ run'[c]["root"] = Idle /\ OtherCallers(c)
  /\ Core(run'[c]["user"], run[c]["user"]) /\ run'[c]["user"].filed = run[c]["user"].filed

LEMMA AnsweredRun ==
  ASSUME IInv, NEW c \in Caller, NEW u \in Runner, run' = [run EXCEPT ![c] = [user |-> u,
         root |-> Idle]],
         Core(u, run[c]["user"]), u.filed = run[c]["user"].filed
  PROVE  Answered(c) /\ run'[c]["user"] = u
<1>1. run'[c]["user"] = u /\ run'[c]["root"] = Idle /\ OtherCallers(c)
  BY IdleType, PairRun DEF IInv
<1> QED BY <1>1 DEF Answered

LEMMA DenyRun ==
  ASSUME IInv, NEW c \in Caller, Deny(c)
  PROVE  /\ Answered(c)
         /\ \/ run'[c]["user"] = run[c]["user"] /\ run[c]["user"].at # "await"
            \/ /\ run'[c]["user"].at = "done" /\ run'[c]["user"].outcome = "cancelled"
               /\ run[c]["user"].at = "await"
<1>1. PICK u, w : u = run[c]["user"] /\ w = [u EXCEPT !.at = "done", !.outcome = "cancelled"]
  OBVIOUS
<1>2. u \in Runner /\ run[c].user = u /\ "done" \in Label
  BY <1>1, TypeOf DEF IInv, Shaped, Level, Label
<1>3. w \in Runner
  BY <1>1, <1>2, AtType, OutcomeType
<1>4. w.at = "done" /\ w.outcome = "cancelled" /\ Core(w, u) /\ w.filed = u.filed /\ Core(u, u)
  BY <1>1, <1>2 DEF Runner, Core, Target5
<1>5. CASE u.at = "await"
  <2>1. run' = [run EXCEPT ![c] = [user |-> w, root |-> Idle]]
    BY <1>1, <1>2, <1>5 DEF Deny
  <2> QED BY <1>1, <1>3, <1>4, <1>5, <2>1, AnsweredRun
<1>6. CASE u.at # "await"
  <2>1. run' = [run EXCEPT ![c] = [user |-> u, root |-> Idle]]
    BY <1>1, <1>2, <1>6 DEF Deny
  <2> QED BY <1>1, <1>2, <1>4, <1>6, <2>1, AnsweredRun
<1> QED BY <1>5, <1>6

LEMMA ReturnRun ==
  ASSUME IInv, NEW c \in Caller, Return(c)
  PROVE  LET u == run[c]["user"]
             n == run'[c]["user"]
             o == run[c]["root"].outcome IN
         /\ Answered(c) /\ run[c]["root"].at = "done"
         /\ \/ n = u /\ u.at # "await"
            \/ u.at = "overdue" /\ n.at = "done" /\ n.outcome = "timeout"
            \/ u.at = "await" /\ n.at = AfterHelper(u, o) /\ n.outcome = o /\ n.tries = 1
<1>1. PICK u, o, x : u = run[c]["user"] /\ o = run[c]["root"].outcome /\ x = AfterHelper(u, o)
  OBVIOUS
<1>2. PICK v, w : /\ v = [u EXCEPT !.at = x, !.outcome = o, !.tries = 1]
                  /\ w = [u EXCEPT !.at = "done", !.outcome = "timeout"]
  OBVIOUS
<1>3. /\ u \in Runner /\ run[c]["root"] \in Runner /\ run[c].user = u
      /\ run[c].root = run[c]["root"]
      /\ run[c]["root"].at = "done"
  BY <1>1, TypeOf DEF IInv, Shaped, Level, Return, At
<1>4. o \in {None, "ok", "failed", "cancelled", "timeout"} /\ 1 \in 0..Grace
  BY <1>1, <1>3, ConstantFacts DEF Runner
<1>5. x \in Label /\ "done" \in Label
  BY <1>1 DEF AfterHelper, Label
<1>6. v \in Runner
  BY <1>2, <1>3, <1>4, <1>5, AtType, OutcomeType, TriesType
<1>7. w \in Runner
  BY <1>2, <1>3, <1>5, AtType, OutcomeType
<1>8. /\ v.at = x /\ v.outcome = o /\ v.tries = 1 /\ Core(v, u) /\ v.filed = u.filed
      /\ w.at = "done" /\ w.outcome = "timeout" /\ Core(w, u) /\ w.filed = u.filed /\ Core(u, u)
  BY <1>2, <1>3 DEF Runner, Core, Target5
<1>9. CASE u.at = "await"
  <2>1. run' = [run EXCEPT ![c] = [user |-> v, root |-> Idle]]
    BY <1>1, <1>2, <1>3, <1>9 DEF Return
  <2> QED BY <1>1, <1>3, <1>6, <1>8, <1>9, <2>1, AnsweredRun
<1>10. CASE u.at = "overdue"
  <2>1. run' = [run EXCEPT ![c] = [user |-> w, root |-> Idle]]
    BY <1>1, <1>2, <1>3, <1>10 DEF Return
  <2> QED BY <1>1, <1>3, <1>7, <1>8, <1>10, <2>1, AnsweredRun
<1>11. CASE u.at \notin {"await", "overdue"}
  <2>1. run' = [run EXCEPT ![c] = [user |-> u, root |-> Idle]]
    BY <1>1, <1>3, <1>11 DEF Return
  <2> QED BY <1>1, <1>3, <1>8, <1>11, <2>1, AnsweredRun
<1> QED BY <1>9, <1>10, <1>11

LEMMA TimeOutRun ==
  ASSUME IInv, NEW c \in Caller, TimeOut(c)
  PROVE  /\ OtherCallers(c) /\ Core(run'[c]["user"], run[c]["user"]) /\ run[c]["user"].at = "await"
         /\ run'[c]["user"].filed = run[c]["user"].filed
         /\ \/ /\ run'[c]["user"].at = "done" /\ run'[c]["user"].outcome = "timeout"
               /\ run'[c]["root"] = Idle
            \/ /\ run'[c]["user"].at = "overdue" /\ run'[c]["root"] = run[c]["root"]
<1>1. PICK u, h, w, v : /\ u = run[c]["user"] /\ h = run[c]["root"]
                        /\ w = [u EXCEPT !.at = "done", !.outcome = "timeout"]
                        /\ v = [u EXCEPT !.at = "overdue"]
  OBVIOUS
<1>2. /\ u \in Runner /\ u.at = "await" /\ run[c].user = u /\ run[c].root = h
      /\ "done" \in Label /\ "overdue" \in Label
  BY <1>1, TypeOf DEF IInv, Shaped, TimeOut, At, Level, Label
<1>3. /\ w.at = "done" /\ w.outcome = "timeout" /\ Core(w, u) /\ w.filed = u.filed
      /\ v.at = "overdue" /\ Core(v, u) /\ v.filed = u.filed
  BY <1>1, <1>2 DEF Runner, Core, Target5
<1>4. w \in Runner
  BY <1>1, <1>2, AtType, OutcomeType
<1>5. CASE h.at = "prompt"
  <2>1. run' = [run EXCEPT ![c] = [user |-> w, root |-> Idle]]
    BY <1>1, <1>2, <1>5 DEF TimeOut, IInv, Shaped, Runs
  <2>3. Core(w, run[c]["user"]) /\ w.filed = run[c]["user"].filed
    BY <1>1, <1>3
  <2>2. Answered(c) /\ run'[c]["user"] = w
    BY <1>4, <2>1, <2>3, AnsweredRun
  <2> QED BY <1>1, <1>2, <1>3, <2>2 DEF Answered
<1>6. CASE h.at # "prompt"
  <2>1. run' = [run EXCEPT ![c]["user"] = v]
    BY <1>1, <1>2, <1>6 DEF TimeOut, IInv, Shaped, Runs
  <2>2. run'[c]["user"] = v /\ Others(c, "user")
    BY <2>1, OneRun DEF IInv, Level
  <2> QED BY <1>1, <1>2, <1>3, <2>2 DEF Others, OtherCallers, Level
<1> QED BY <1>5, <1>6

LEMMA CrashRun ==
  ASSUME IInv, NEW c \in Caller, Crash(c)
  PROVE  run'[c]["user"] = Idle /\ Others(c, "user")
<1>1. run' = [run EXCEPT ![c]["user"] = Idle]
  BY DEF Crash, IInv, Shaped, Runs
<1> QED BY <1>1, OneRun DEF IInv, Level

LEMMA RebootRun ==
  ASSUME RebootAll PROVE \A c \in Caller, l \in Level : run'[c][l] = Idle
<1>1. run' = [c \in Caller |-> [user |-> Idle, root |-> Idle]]
  BY DEF RebootAll, Reboot
<1>2. run' \in Runs
  BY <1>1, IdleType, SMT DEF Runs, Level
<1>3. \A c \in Caller : run'[c].user = Idle /\ run'[c].root = Idle
  BY <1>1
<1> QED BY <1>2, <1>3, SMT DEF Runs, Level

LEMMA OpenRun ==
  ASSUME Shaped, NEW c \in Caller, NEW l \in Level, Open(c, l)
  PROVE  LET r == run[c][l]
             n == run'[c][l] IN
         /\ Others(c, l)
         /\ n.at = "check" /\ n.op = r.op /\ n.arg = r.arg /\ n.want = r.want /\ n.start = r.start
         /\ n.handle = IF setting.pidfd /\ procs[r.arg] # None THEN procs[r.arg].start ELSE None
         /\ n.counted = r.counted /\ n.outcome = r.outcome /\ n.filed = r.filed
<1>1. run[c][l] \in Runner /\ l \in Level
  BY TypeOf DEF Shaped, Level
<1>2. PICK r, n : /\ r = run[c][l]
                  /\ n = [r EXCEPT !.at = "check",
                           !.handle = IF setting.pidfd /\ procs[r.arg] # None
                                      THEN procs[r.arg].start ELSE None]
  OBVIOUS
<1>3. run' = [run EXCEPT ![c][l] = n]
  BY <1>1, <1>2, TypeOf DEF Open, Shaped, Runs
<1>4. run'[c][l] = n /\ Others(c, l)
  BY <1>1, <1>3, OneRun
<1>5. /\ n.at = "check" /\ n.op = r.op /\ n.arg = r.arg /\ n.want = r.want /\ n.start = r.start
      /\ n.handle = IF setting.pidfd /\ procs[r.arg] # None THEN procs[r.arg].start ELSE None
      /\ n.counted = r.counted /\ n.outcome = r.outcome /\ n.filed = r.filed
  BY <1>1, <1>2 DEF Runner, Core, Target5
<1> QED BY <1>2, <1>4, <1>5

LEMMA PinRun ==
  ASSUME Shaped, NEW c \in Caller, NEW l \in Level, Pin(c, l), ~Ends(c, l, "failed")
  PROVE  LET r == run[c][l]
             n == run'[c][l] IN
         /\ Others(c, l)
         /\ n.at = "send" /\ n.op = r.op /\ n.arg = r.arg /\ n.want = r.want /\ n.handle = r.handle
         /\ n.start = procs[r.arg].start
         /\ n.counted = r.counted /\ n.outcome = r.outcome /\ n.filed = r.filed
<1>1. run[c][l] \in Runner /\ l \in Level
  BY TypeOf DEF Shaped, Level
<1>2. PICK r, n : r = run[c][l] /\ n = [r EXCEPT !.at = "send", !.start = procs[r.arg].start]
  OBVIOUS
<1>3. run' = [run EXCEPT ![c][l] = n]
  BY <1>1, <1>2, TypeOf DEF Pin, Shaped, Runs
<1>4. run'[c][l] = n /\ Others(c, l)
  BY <1>1, <1>3, OneRun
<1>5. /\ n.at = "send" /\ n.op = r.op /\ n.arg = r.arg /\ n.want = r.want /\ n.handle = r.handle
      /\ n.start = procs[r.arg].start
      /\ n.counted = r.counted /\ n.outcome = r.outcome /\ n.filed = r.filed
  BY <1>1, <1>2 DEF Runner, Core, Target5
<1> QED BY <1>2, <1>4, <1>5

LEMMA SentRun ==
  ASSUME Shaped, NEW c \in Caller, NEW l \in Level,
         run' = [run EXCEPT ![c][l].at = AfterSignal(run[c][l].op, l), ![c][l].outcome = "ok"]
  PROVE  LET r == run[c][l]
             n == run'[c][l] IN
         /\ Others(c, l)
         /\ n.at = AfterSignal(r.op, l) /\ n.outcome = "ok" /\ n.filed = r.filed /\ Core(n, r)
<1>1. run[c][l] \in Runner /\ l \in Level
  BY TypeOf DEF Shaped, Level
<1>2. PICK r, n : r = run[c][l] /\ n = [r EXCEPT !.at = AfterSignal(r.op, l), !.outcome = "ok"]
  OBVIOUS
<1>3. run' = [run EXCEPT ![c][l] = n]
  BY <1>1, <1>2, TypeOf DEF Shaped, Runs
<1>4. run'[c][l] = n /\ Others(c, l)
  BY <1>1, <1>3, OneRun
<1>5. n.at = AfterSignal(r.op, l) /\ n.outcome = "ok" /\ n.filed = r.filed /\ Core(n, r)
  BY <1>1, <1>2 DEF Runner, Core, Target5
<1> QED BY <1>2, <1>4, <1>5

LEMMA TriedRun ==
  ASSUME Shaped, NEW c \in Caller, NEW l \in Level, run' = [run EXCEPT ![c][l].tries = @ + 1]
  PROVE  LET r == run[c][l]
             n == run'[c][l] IN
         /\ Others(c, l)
         /\ n.at = r.at /\ n.outcome = r.outcome /\ n.filed = r.filed /\ Core(n, r)
<1>1. run[c][l] \in Runner /\ l \in Level
  BY TypeOf DEF Shaped, Level
<1>2. PICK r, n : r = run[c][l] /\ n = [r EXCEPT !.tries = r.tries + 1]
  OBVIOUS
<1>3. run' = [run EXCEPT ![c][l] = n]
  BY <1>1, <1>2, TypeOf DEF Shaped, Runs
<1>4. run'[c][l] = n /\ Others(c, l)
  BY <1>1, <1>3, OneRun
<1>5. n.at = r.at /\ n.outcome = r.outcome /\ n.filed = r.filed /\ Core(n, r)
  BY <1>1, <1>2 DEF Runner, Core, Target5
<1> QED BY <1>2, <1>4, <1>5

LEMMA CaptureRun ==
  ASSUME Shaped, NEW c \in Caller, Capture(c)
  PROVE  LET r == run[c]["user"]
             n == run'[c]["user"] IN
         /\ Others(c, "user")
         /\ n.at = "done" /\ n.outcome = r.outcome /\ Core(n, r)
<1>1. run[c]["user"] \in Runner /\ "user" \in Level
  BY TypeOf DEF Shaped, Level
<1>2. CASE run' = [run EXCEPT ![c].user.at = "done", ![c].user.filed = "evidence"]
  <2>1. PICK r, n : r = run[c]["user"] /\ n = [r EXCEPT !.at = "done", !.filed = "evidence"]
    OBVIOUS
  <2>2. run' = [run EXCEPT ![c]["user"] = n]
    BY <1>1, <1>2, <2>1, TypeOf DEF Shaped, Runs
  <2>3. run'[c]["user"] = n /\ Others(c, "user")
    BY <1>1, <2>2, OneRun
  <2>4. n.at = "done" /\ n.outcome = r.outcome /\ Core(n, r)
    BY <1>1, <2>1 DEF Runner, Core, Target5
  <2> QED BY <2>1, <2>3, <2>4
<1>3. CASE Goes(c, "user", "done")
  BY <1>1, <1>3, GoesRun
<1> QED BY <1>2, <1>3 DEF Capture

LEMMA CountRun ==
  ASSUME Shaped, NEW c \in Caller, NEW l \in Level, Count(c, l), ~Ends(c, l, "failed")
  PROVE  LET r == run[c][l]
             n == run'[c][l] IN
         /\ Others(c, l)
         /\ n.at = "kill" /\ n.counted = conns /\ n.outcome = r.outcome /\ n.filed = r.filed
         /\ Target5(n, r)
<1>1. run[c][l] \in Runner /\ l \in Level
  BY TypeOf DEF Shaped, Level
<1>2. PICK r, n : r = run[c][l] /\ n = [r EXCEPT !.at = "kill", !.counted = conns]
  OBVIOUS
<1>3. run' = [run EXCEPT ![c][l] = n]
  BY <1>1, <1>2, TypeOf DEF Count, Shaped, Runs
<1>4. run'[c][l] = n /\ Others(c, l)
  BY <1>1, <1>3, OneRun
<1>5. n.at = "kill" /\ n.counted = conns /\ n.outcome = r.outcome /\ n.filed = r.filed /\ Target5(n, r)
  BY <1>1, <1>2 DEF Runner, Core, Target5
<1> QED BY <1>2, <1>4, <1>5

=============================================================================

