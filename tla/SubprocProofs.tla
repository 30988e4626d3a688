--------------------------- MODULE SubprocProofs ---------------------------
(***************************************************************************)
(* Theorems of Subproc, for every size of pipe, chunk and buffer.          *)
(*                                                                         *)
(* The inductive invariant says where the bytes are (Conserved), what a    *)
(* pipe taken for closed means (NobodyWrites), whose the exit code is      *)
(* (Collected), why the loop was left (Judged), who is left after SIGKILL  *)
(* (Reaped), when the PID is free (Recycled), and what an answer is, from  *)
(* the verdict on (Answered).  Without Conserved and NobodyWrites an       *)
(* answer could miss what was written last; without Collected it could be  *)
(* that of a child the call has killed itself.                             *)
(***************************************************************************)
EXTENDS Subproc, TLAPS

\* Nobody can write; nobody is left whom a signal would reach.
Shut == \A p \in Proc : ~procs[p].holds
Tamed == \A p \in Proc : Live(p) /\ procs[p].ours => procs[p].root

Conserved == ~overrun => sent = buffer + pipe

NobodyWrites ==
  /\ closed => pipe = 0 /\ Shut
  /\ (pc = "read" /\ hup) \/ pc = "drain" => Shut

Collected ==
  /\ status # None => procs["child"].how = status /\ procs["child"].at = "gone"
  /\ procs["child"].at = "gone" /\ pc # "done" => status # None
  /\ procs["child"].at = "zombie" => procs["child"].how \in Ended
  /\ pc = "done" => procs["child"].at \in {"none", "gone"}

Judged ==
  /\ pc = "verdict" => late \/ overrun \/ (status # None /\ (closed \/ call = "stdin"))
  /\ overrun => pc \in {"verdict", "term", "kill", "wait", "done"}

Unstarted == pc = "start" => (\A p \in Proc : procs[p] = Nobody) /\ status = None /\ ~closed

Reaped == pc \in {"wait", "done"} => Tamed

Recycled == stranger => procs["child"].at = "gone"

Answered ==
  result # None =>
    /\ procs["child"].how = result.code
    /\ procs["child"].at = "gone"
    /\ call = "output" => result.out = sent /\ Shut
    /\ pc \in {"term", "kill", "wait", "done"}

Rest ==
  /\ Conserved /\ NobodyWrites /\ Collected /\ Judged /\ Unstarted
  /\ Reaped /\ Recycled /\ Answered

IInv == TypeOK /\ Rest

-----------------------------------------------------------------------------
(***************************************************************************)
(* Processes stay processes.                                               *)
(***************************************************************************)
LEMMA OursType ==
  ASSUME NEW r \in Process
  PROVE  [r EXCEPT !.ours = FALSE] \in Process
  BY Zenon DEF Process

LEMMA RootType ==
  ASSUME NEW r \in Process
  PROVE  [r EXCEPT !.root = TRUE] \in Process
  BY Zenon DEF Process

LEMMA HoldsType ==
  ASSUME NEW r \in Process, NEW b \in BOOLEAN
  PROVE  [r EXCEPT !.holds = b] \in Process
  BY Zenon DEF Process

LEMMA BornType ==
  ASSUME NEW b \in BOOLEAN
  PROVE  [Nobody EXCEPT !.at = "live", !.ours = TRUE, !.holds = b] \in Process
<1>1. Nobody \in Process
  BY ZenonT(20) DEF Nobody, Process
<1> DEFINE r == [Nobody EXCEPT !.at = "live", !.ours = TRUE]
<1>2. r \in Process
  BY <1>1, ZenonT(20) DEF Process
<1>3. [r EXCEPT !.holds = b] \in Process
  BY <1>2, HoldsType
<1>4. [r EXCEPT !.holds = b] = [Nobody EXCEPT !.at = "live", !.ours = TRUE, !.holds = b]
  BY ZenonT(20) DEF Nobody
<1> QED BY <1>3, <1>4

LEMMA DeadType ==
  ASSUME NEW r \in Process, NEW p \in Proc, NEW how \in Ended
  PROVE  Dead(p, r, how) \in Process
<1>1. CASE p = "child" BY <1>1, ZenonT(30) DEF Dead, Process
<1>2. CASE p # "child" BY <1>2, ZenonT(30) DEF Dead, Process
<1> QED BY <1>1, <1>2

LEMMA DieType ==
  ASSUME procs \in [Proc -> Process], NEW dead, Die(dead)
  PROVE  procs' \in [Proc -> Process]
<1>1. "signal" \in Ended
  BY DEF Ended
<1>2. \A p \in Proc :
        (IF p \in dead THEN Dead(p, procs[p], "signal") ELSE procs[p]) \in Process
  BY <1>1, DeadType, Zenon
<1> QED BY <1>2, Zenon DEF Die

-----------------------------------------------------------------------------
(***************************************************************************)
(* The invariant holds at first, and every step keeps it.                  *)
(***************************************************************************)
LEMMA InitHolds == Init => IInv
<1> SUFFICES ASSUME Init PROVE IInv
  OBVIOUS
<1>1. Nobody \in Process
  BY Zenon DEF Nobody, Process
<1>2. procs \in [Proc -> Process]
  BY <1>1, Zenon DEF Init
<1>3. TypeOK
  <2>1. late \in BOOLEAN BY DEF Init
  <2>2. pipe \in 0..PipeSize /\ sent \in 0..MaxSent /\ buffer \in 0..MaxOut
    BY SubprocAssumption, SMTT(20) DEF Init
  <2>3. pc = "start" /\ call \in Call /\ stranger = FALSE /\ status = None /\ result = None
        /\ closed = FALSE /\ hup = FALSE /\ overrun = FALSE
    BY DEF Init
  <2> QED BY <1>2, <2>1, <2>2, <2>3 DEF TypeOK
<1>4. Rest
  BY SMTT(20) DEF Init, Nobody, Rest, Conserved, NobodyWrites, Collected, Judged, Unstarted, Reaped,
     Recycled, Answered, Proc
<1> QED BY <1>3, <1>4 DEF IInv

LEMMA StartKeeps ==
  ASSUME IInv, Start
  PROVE  IInv'
<1>1. procs' \in [Proc -> Process]
  BY BornType, Zenon DEF Start, IInv, TypeOK
<1>2. TypeOK'
  BY <1>1, SMTT(20) DEF Start, IInv, TypeOK
<1>3. Rest'
  <2>1. Conserved'
    BY SMTT(20) DEF Start, IInv, Rest, Conserved
  <2>2. NobodyWrites'
    BY SMTT(20) DEF Start, IInv, Rest, NobodyWrites, Unstarted
  <2>3. Collected'
    <3>1. status = None /\ status' = None /\ procs["child"].at = "none"
      BY DEF Start, IInv, Rest, Unstarted, Proc, Nobody
    <3>2. CASE pc' = "done" /\ procs' = procs
      BY <3>1, <3>2 DEF Collected
    <3>3. CASE pc' = "look" /\ procs'["child"].at = "live"
      BY <3>1, <3>3 DEF Collected
    <3>4. (pc' = "done" /\ procs' = procs) \/ (pc' = "look" /\ procs'["child"].at = "live")
      <4> DEFINE born == [Nobody EXCEPT !.at = "live", !.ours = TRUE, !.holds = (call = "output")]
      <4>1. born.at = "live"
        BY ZenonT(20) DEF Nobody
      <4>3. "child" \in DOMAIN procs
        BY DEF IInv, TypeOK, Proc
      <4> HIDE DEF born
      <4>4. procs' = [procs EXCEPT !["child"] = born] => procs'["child"] = born
        BY <4>3
      <4>5. (pc' = "done" /\ procs' = procs) \/ (pc' = "look" /\ procs' = [procs EXCEPT !["child"] = born])
        BY Zenon DEF Start, born
      <4> QED BY <4>1, <4>4, <4>5
    <3> QED BY <3>2, <3>3, <3>4
  <2>4. Judged'
    BY SMTT(20) DEF Start, IInv, Rest, Judged
  <2>5. Unstarted'
    BY SMTT(20) DEF Start, IInv, Unstarted
  <2>6. Reaped'
    BY SMTT(20) DEF Start, IInv, Rest, Unstarted, Reaped, Tamed, Nobody
  <2>7. Recycled'
    BY SMTT(20) DEF Start, IInv, Rest, Collected, Unstarted, Recycled
  <2>8. Answered'
    BY SMTT(20) DEF Start, IInv, Rest, Answered
  <2> QED BY <2>1, <2>2, <2>3, <2>4, <2>5, <2>6, <2>7, <2>8 DEF Rest
<1> QED BY <1>2, <1>3 DEF IInv

LEMMA LookKeeps ==
  ASSUME IInv, Look
  PROVE  IInv'
<1>1. procs' \in [Proc -> Process]
  BY SMTT(20) DEF Look, IInv, TypeOK, Process
<1>2. TypeOK'
  BY <1>1, SMTT(20) DEF Look, IInv, Rest, TypeOK, Collected
<1>3. Rest'
  BY SubprocAssumption, SMTT(20) DEF Look, IInv, Rest, TypeOK, Conserved, NobodyWrites, Collected,
     Judged, Unstarted, Reaped, Recycled, Answered, Shut, Proc, Process
<1> QED BY <1>2, <1>3 DEF IInv

LEMMA PollKeeps ==
  ASSUME IInv, Poll
  PROVE  IInv'
<1>1. procs' \in [Proc -> Process]
  BY SMTT(20) DEF Poll, IInv, TypeOK
<1>2. TypeOK'
  BY SMTT(20) DEF Poll, IInv, TypeOK
<1>3. Rest'
  BY SMTT(20) DEF Poll, IInv, Rest, TypeOK, Conserved, NobodyWrites, Collected, Judged, Unstarted,
     Reaped, Recycled, Answered, Shut, Holders
<1> QED BY <1>2, <1>3 DEF IInv

LEMMA ReadChunkKeeps ==
  ASSUME IInv, NEW l \in {"read", "drain"}, ReadChunk(l)
  PROVE  IInv'
<1>1. procs' \in [Proc -> Process]
  BY SMTT(20) DEF ReadChunk, IInv, TypeOK
<1>2. TypeOK'
  BY SubprocAssumption, SMTT(20) DEF ReadChunk, IInv, TypeOK
<1>3. Rest'
  <2>1. Conserved'
    <3> DEFINE n == IF pipe < Chunk THEN pipe ELSE Chunk
    <3>1. pipe \in Nat /\ sent \in Nat /\ buffer \in Nat /\ n \in Nat
      BY SubprocAssumption, SMTT(20) DEF IInv, TypeOK
    <3>2. /\ pipe' = pipe - n /\ sent' = sent
          /\ ~overrun' => buffer' = buffer + n
          /\ ~overrun
      BY Zenon DEF ReadChunk, IInv, Rest, Judged
    <3> HIDE DEF n
    <3> QED BY <3>1, <3>2 DEF IInv, Rest, Conserved
  <2>2. NobodyWrites'
    BY SubprocAssumption, SMTT(20) DEF ReadChunk, IInv, Rest, TypeOK, NobodyWrites, Shut, Holders
  <2>3. Collected'
    <3>1. UNCHANGED <<procs, status>> /\ pc # "done" /\ pc' # "done"
      BY Zenon DEF ReadChunk
    <3> QED BY <3>1 DEF IInv, Rest, Collected
  <2>4. Judged'
    <3>1. overrun' => pc' = "verdict"
      BY Zenon DEF ReadChunk
    <3>2. ~overrun' => pc' \in {l, "drain", "look"}
      BY Zenon DEF ReadChunk
    <3> QED BY <3>1, <3>2 DEF Judged
  <2>5. Unstarted'
    BY SMTT(20) DEF ReadChunk, IInv, Unstarted
  <2>6. Reaped'
    BY SMTT(20) DEF ReadChunk, IInv, Reaped
  <2>7. Recycled'
    BY SMTT(20) DEF ReadChunk, IInv, Rest, Recycled
  <2>8. Answered'
    BY SMTT(20) DEF ReadChunk, IInv, Rest, Answered
  <2> QED BY <2>1, <2>2, <2>3, <2>4, <2>5, <2>6, <2>7, <2>8 DEF Rest
<1> QED BY <1>2, <1>3 DEF IInv

LEMMA VerdictKeeps ==
  ASSUME IInv, Verdict
  PROVE  IInv'
<1>1. procs' \in [Proc -> Process]
  BY SMTT(20) DEF Verdict, IInv, TypeOK
<1>2. TypeOK'
  BY SMTT(20) DEF Verdict, IInv, TypeOK, Outcome
<1>3. Rest'
  BY SMTT(20) DEF Verdict, IInv, Rest, TypeOK, Conserved, NobodyWrites, Collected, Judged,
     Unstarted, Reaped, Recycled, Answered, Shut
<1> QED BY <1>2, <1>3 DEF IInv

LEMMA TermKeeps ==
  ASSUME IInv, Term
  PROVE  IInv'
<1>1. procs' \in [Proc -> Process]
  BY DieType DEF Term, IInv, TypeOK
<1>2. TypeOK'
  BY <1>1, SMTT(20) DEF Term, IInv, TypeOK
<1>3. Rest'
  BY SMTT(20) DEF Term, IInv, Rest, Conserved, NobodyWrites, Collected, Judged, Unstarted, Reaped,
     Recycled, Answered, Shut, Live, Proc, Ended, Die, Dead, Killable, Members
<1> QED BY <1>2, <1>3 DEF IInv

LEMMA Kill9Keeps ==
  ASSUME IInv, Kill9
  PROVE  IInv'
<1>1. procs' \in [Proc -> Process]
  BY DieType DEF Kill9, IInv, TypeOK
<1>2. TypeOK'
  BY <1>1, SMTT(20) DEF Kill9, IInv, TypeOK
<1>3. Rest'
  BY SMTT(20) DEF Kill9, IInv, Rest, Conserved, NobodyWrites, Collected, Judged, Unstarted, Reaped,
     Recycled, Answered, Shut, Tamed, Live, Proc, Ended, Die, Dead, Killable, Members
<1> QED BY <1>2, <1>3 DEF IInv

LEMMA WaitKeeps ==
  ASSUME IInv, Wait
  PROVE  IInv'
<1>1. procs' \in [Proc -> Process]
  BY SMTT(20) DEF Wait, IInv, TypeOK, Process, Proc
<1>2. TypeOK'
  BY <1>1, SMTT(20) DEF Wait, IInv, TypeOK
<1>3. Rest'
  BY SMTT(20) DEF Wait, IInv, Rest, TypeOK, Conserved, NobodyWrites, Collected, Judged, Unstarted,
     Reaped, Recycled, Answered, Shut, Tamed, Live, Proc
<1> QED BY <1>2, <1>3 DEF IInv

LEMMA ClockKeeps ==
  ASSUME IInv, Clock
  PROVE  IInv'
<1>1. procs' \in [Proc -> Process]
  BY SMTT(20) DEF Clock, IInv, TypeOK
<1>2. TypeOK'
  BY SMTT(20) DEF Clock, IInv, TypeOK
<1>3. Rest'
  BY SMTT(20) DEF Clock, IInv, Rest, Conserved, NobodyWrites, Collected, Judged, Unstarted, Reaped,
     Recycled, Answered, Shut, Tamed, Live
<1> QED BY <1>2, <1>3 DEF IInv

LEMMA WriteKeeps ==
  ASSUME IInv, NEW p \in Proc, Write(p)
  PROVE  IInv'
<1>1. procs' \in [Proc -> Process]
  BY SMTT(20) DEF Write, IInv, TypeOK
<1>2. TypeOK'
  BY SubprocAssumption, SMTT(20) DEF Write, IInv, TypeOK, Quietly
<1>3. Rest'
  BY SMTT(20) DEF Write, IInv, Rest, TypeOK, Conserved, NobodyWrites, Collected, Judged, Unstarted,
     Reaped, Recycled, Answered, Shut, Tamed, Live, Quietly
<1> QED BY <1>2, <1>3 DEF IInv

LEMMA CloseKeeps ==
  ASSUME IInv, NEW p \in Proc, Close(p)
  PROVE  IInv'
<1>1. procs' \in [Proc -> Process]
  BY HoldsType, Zenon DEF Close, IInv, TypeOK
<1>2. TypeOK'
  BY <1>1, SMTT(20) DEF Close, IInv, TypeOK, Quietly
<1>3. Rest'
  <2>1. Conserved'
    BY SMTT(20) DEF Close, IInv, Rest, Conserved, Quietly
  <2>2. NobodyWrites'
    BY SMTT(20) DEF Close, IInv, Rest, NobodyWrites, Shut, Quietly
  <2>3. Collected'
    BY SMTT(20) DEF Close, IInv, Rest, Collected, Quietly
  <2>4. Judged'
    BY SMTT(20) DEF Close, IInv, Rest, Judged, Quietly
  <2>5. Unstarted'
    <3>1. procs[p] # Nobody
      BY SMTT(20) DEF Close, Live, Nobody
    <3>2. pc' # "start"
      BY <3>1, SMTT(20) DEF Close, Quietly, IInv, Rest, Unstarted
    <3> QED BY <3>2 DEF Unstarted
  <2>6. Reaped'
    BY SMTT(20) DEF Close, IInv, Rest, Reaped, Tamed, Live, Quietly
  <2>7. Recycled'
    BY SMTT(20) DEF Close, IInv, Rest, Recycled, Quietly
  <2>8. Answered'
    BY SMTT(20) DEF Close, IInv, Rest, Answered, Shut, Quietly
  <2> QED BY <2>1, <2>2, <2>3, <2>4, <2>5, <2>6, <2>7, <2>8 DEF Rest
<1> QED BY <1>2, <1>3 DEF IInv

LEMMA ExitKeeps ==
  ASSUME IInv, NEW p \in Proc, Exit(p)
  PROVE  IInv'
<1>a. PICK how \in Ended : procs' = [procs EXCEPT ![p] = Dead(p, procs[p], how)]
  BY DEF Exit
<1>b. Dead(p, procs[p], how) \in Process
  BY DeadType, Zenon DEF IInv, TypeOK
<1>1. procs' \in [Proc -> Process]
  BY <1>a, <1>b, Zenon DEF IInv, TypeOK
<1>2. TypeOK'
  BY <1>1, SMTT(20) DEF Exit, IInv, TypeOK, Quietly
<1>3. Rest'
  <2>1. Conserved'
    BY SMTT(20) DEF Exit, IInv, Rest, Conserved, Quietly
  <2>2. NobodyWrites'
    BY SMTT(20) DEF Exit, IInv, Rest, NobodyWrites, Shut, Dead, Quietly
  <2>3. Collected'
    BY SMTT(20) DEF Exit, IInv, Rest, Collected, Live, Dead, Quietly
  <2>4. Judged'
    BY SMTT(20) DEF Exit, IInv, Rest, Judged, Quietly
  <2>5. Unstarted'
    <3>1. procs[p] # Nobody
      BY SMTT(20) DEF Exit, Live, Nobody
    <3>2. pc' # "start"
      BY <3>1, SMTT(20) DEF Exit, Quietly, IInv, Rest, Unstarted
    <3> QED BY <3>2 DEF Unstarted
  <2>6. Reaped'
    BY SMTT(20) DEF Exit, IInv, Rest, Reaped, Tamed, Live, Dead, Quietly
  <2>7. Recycled'
    BY SMTT(20) DEF Exit, IInv, Rest, Recycled, Live, Quietly
  <2>8. Answered'
    BY SMTT(20) DEF Exit, IInv, Rest, Answered, Shut, Live, Dead, Quietly
  <2> QED BY <2>1, <2>2, <2>3, <2>4, <2>5, <2>6, <2>7, <2>8 DEF Rest
<1> QED BY <1>2, <1>3 DEF IInv

LEMMA ForkKeeps ==
  ASSUME IInv, Fork
  PROVE  IInv'
<1>1. procs' \in [Proc -> Process]
  BY SMTT(20) DEF Fork, IInv, TypeOK, Proc
<1>2. TypeOK'
  BY <1>1, SMTT(20) DEF Fork, IInv, TypeOK, Quietly
<1>3. Rest'
  BY SMTT(20) DEF Fork, IInv, Rest, TypeOK, Conserved, NobodyWrites, Collected, Judged, Unstarted,
     Reaped, Recycled, Answered, Shut, Tamed, Proc, Quietly
<1> QED BY <1>2, <1>3 DEF IInv

LEMMA LeaveKeeps ==
  ASSUME IInv, Leave
  PROVE  IInv'
<1>1. procs' \in [Proc -> Process]
  BY OursType, Zenon DEF Leave, IInv, TypeOK, Proc
<1>2. TypeOK'
  BY <1>1, SMTT(20) DEF Leave, IInv, TypeOK, Quietly
<1>3. Rest'
  <2>1. Conserved'
    BY SMTT(20) DEF Leave, IInv, Rest, Conserved, Quietly
  <2>2. NobodyWrites'
    BY SMTT(20) DEF Leave, IInv, Rest, NobodyWrites, Shut, Quietly
  <2>3. Collected'
    BY SMTT(20) DEF Leave, IInv, Rest, Collected, Quietly
  <2>4. Judged'
    BY SMTT(20) DEF Leave, IInv, Rest, Judged, Quietly
  <2>5. Unstarted'
    <3>1. procs["forked"] # Nobody
      BY SMTT(20) DEF Leave, Live, Nobody
    <3>2. pc' # "start"
      BY <3>1, SMTT(20) DEF Leave, Quietly, IInv, Rest, Unstarted, Proc
    <3> QED BY <3>2 DEF Unstarted
  <2>6. Reaped'
    BY SMTT(20) DEF Leave, IInv, Rest, Reaped, Tamed, Live, Quietly
  <2>7. Recycled'
    BY SMTT(20) DEF Leave, IInv, Rest, Recycled, Quietly
  <2>8. Answered'
    BY SMTT(20) DEF Leave, IInv, Rest, Answered, Shut, Quietly
  <2> QED BY <2>1, <2>2, <2>3, <2>4, <2>5, <2>6, <2>7, <2>8 DEF Rest
<1> QED BY <1>2, <1>3 DEF IInv

LEMMA BecomeRootKeeps ==
  ASSUME IInv, BecomeRoot
  PROVE  IInv'
<1>1. procs' \in [Proc -> Process]
  BY RootType, Zenon DEF BecomeRoot, IInv, TypeOK, Proc
<1>2. TypeOK'
  BY <1>1, SMTT(20) DEF BecomeRoot, IInv, TypeOK, Quietly
<1>3. Rest'
  <2>1. Conserved'
    BY SMTT(20) DEF BecomeRoot, IInv, Rest, Conserved, Quietly
  <2>2. NobodyWrites'
    BY SMTT(20) DEF BecomeRoot, IInv, Rest, NobodyWrites, Shut, Quietly
  <2>3. Collected'
    BY SMTT(20) DEF BecomeRoot, IInv, Rest, Collected, Quietly
  <2>4. Judged'
    BY SMTT(20) DEF BecomeRoot, IInv, Rest, Judged, Quietly
  <2>5. Unstarted'
    <3>1. procs["child"] # Nobody
      BY SMTT(20) DEF BecomeRoot, Live, Nobody
    <3>2. pc' # "start"
      BY <3>1, SMTT(20) DEF BecomeRoot, Quietly, IInv, Rest, Unstarted, Proc
    <3> QED BY <3>2 DEF Unstarted
  <2>6. Reaped'
    BY SMTT(20) DEF BecomeRoot, IInv, Rest, Reaped, Tamed, Live, Quietly
  <2>7. Recycled'
    BY SMTT(20) DEF BecomeRoot, IInv, Rest, Recycled, Quietly
  <2>8. Answered'
    BY SMTT(20) DEF BecomeRoot, IInv, Rest, Answered, Shut, Quietly
  <2> QED BY <2>1, <2>2, <2>3, <2>4, <2>5, <2>6, <2>7, <2>8 DEF Rest
<1> QED BY <1>2, <1>3 DEF IInv

LEMMA RecycleKeeps ==
  ASSUME IInv, Recycle
  PROVE  IInv'
<1>1. procs' \in [Proc -> Process]
  BY SMTT(20) DEF Recycle, IInv, TypeOK
<1>2. TypeOK'
  BY SMTT(20) DEF Recycle, IInv, TypeOK
<1>3. Rest'
  BY SMTT(20) DEF Recycle, IInv, Rest, Conserved, NobodyWrites, Collected, Judged, Unstarted,
     Reaped, Recycled, Answered, Shut, Tamed, Live
<1> QED BY <1>2, <1>3 DEF IInv

-----------------------------------------------------------------------------
LEMMA NextKeeps == IInv /\ [Next]_vars => IInv'
<1> SUFFICES ASSUME IInv, [Next]_vars PROVE IInv'
  OBVIOUS
<1>1. CASE Caller
  BY <1>1, StartKeeps, LookKeeps, PollKeeps, ReadChunkKeeps, VerdictKeeps, TermKeeps,
     Kill9Keeps, WaitKeeps, Zenon DEF Caller
<1>2. CASE Clock
  BY <1>2, ClockKeeps
<1>3. CASE Children
  BY <1>3, WriteKeeps, CloseKeeps, ExitKeeps, ForkKeeps, LeaveKeeps, BecomeRootKeeps,
     RecycleKeeps, Zenon DEF Children
<1>4. CASE UNCHANGED vars
  <2>1. TypeOK'
    BY <1>4 DEF vars, IInv, TypeOK
  <2>2. Conserved' /\ NobodyWrites' /\ Collected' /\ Judged'
    BY <1>4 DEF vars, IInv, Rest, Conserved, NobodyWrites, Shut, Collected, Judged
  <2>3. Unstarted' /\ Reaped' /\ Recycled' /\ Answered'
    BY <1>4 DEF vars, IInv, Rest, Unstarted, Reaped, Tamed, Live, Recycled, Answered, Shut
  <2> QED BY <2>1, <2>2, <2>3 DEF IInv, Rest
<1> QED BY <1>1, <1>2, <1>3, <1>4 DEF Next

LEMMA InvariantHolds == Spec => []IInv
BY InitHolds, NextKeeps, PTL DEF Spec

\* Every variable keeps its type: neither the pipe nor the buffer outgrows its
\* bound, whatever the sizes of the two and of a chunk.
THEOREM Typed == Spec => []TypeOK
<1>1. IInv => TypeOK
  BY DEF IInv
<1> QED BY <1>1, InvariantHolds, PTL

\* An answer of run_cmd_bounded_status is the exit code of a child no signal
\* was sent to, and all the output there will ever be.
THEOREM AnswersAreWhole == Spec => []WholeOutput
<1>1. IInv => WholeOutput
  BY SMTT(20) DEF IInv, Rest, Answered, WholeOutput, Shut, Holders
<1> QED BY <1>1, InvariantHolds, PTL

\* reap_process_group on every way out: a call that is over leaves no zombie
\* and nobody in the child's group whom it may signal.
THEOREM NobodySurvives == Spec => []NothingSurvives
<1>1. IInv => NothingSurvives
  BY SMTT(20) DEF IInv, Rest, Reaped, Collected, Tamed, NothingSurvives, Killable, Members
<1> QED BY <1>1, InvariantHolds, PTL

\* A signal of reap_process_group can reach a stranger only in a call whose
\* child try_wait has already collected.
THEOREM StrangersOnlyIfCollected == Spec => []StrangerOnlyIfCollected
<1>1. IInv => StrangerOnlyIfCollected
  BY SMTT(20) DEF IInv, Rest, Collected, Recycled, StrangerOnlyIfCollected
<1> QED BY <1>1, InvariantHolds, PTL
=============================================================================
