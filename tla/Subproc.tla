------------------------------ MODULE Subproc ------------------------------
(***************************************************************************)
(* A subprocess with a deadline: src/src/subproc.rs.                       *)
(*                                                                         *)
(* One call of run_cmd_bounded_status ("output") or of                     *)
(* run_cmd_write_stdin_bounded ("stdin"): the child leads a process group  *)
(* of its own, and may fork.  The caller polls the pipe and the child      *)
(* until both have ended, the output is too long or the deadline has       *)
(* passed, and then kills the group, whatever the outcome.                 *)
(*                                                                         *)
(* Bytes are counted, not told apart: the pipe keeps them in order.        *)
(***************************************************************************)
EXTENDS Integers, FiniteSets

CONSTANTS
  Call,        \* the functions called, of {"output", "stdin"}
  MaxOut,      \* max_output_bytes
  Chunk,       \* bytes of one read (4096)
  PipeSize,    \* bytes the pipe holds
  MaxSent,     \* bound: bytes the children ever write
  None

\* How a process may end: exit code 0, another, or none (-1).
Ended == {"zero", "nonzero", "signal"}

ASSUME SubprocAssumption ==
  /\ Call \subseteq {"output", "stdin"}
  /\ MaxOut \in Nat /\ Chunk \in Nat \ {0} /\ PipeSize \in Nat /\ MaxSent \in Nat
  /\ None \notin Ended

VARIABLES
  call,        \* the function called
  pc,          \* where it is
  late,        \* the deadline has passed
  procs,       \* the child and what it forked
  stranger,    \* the child's PID now names a process group of somebody else
  pipe,        \* bytes in the pipe
  sent,        \* bytes written to it (history)
  buffer,      \* bytes read
  status,      \* exit_code, once try_wait has given it
  closed,      \* stdout_closed
  hup,         \* POLLHUP of the last poll
  overrun,
  result       \* None or Some of exit code and bytes; for "stdin" the code alone

vars == <<call, pc, late, procs, stranger, pipe, sent, buffer, status, closed, hup, overrun, result>>

Proc == {"child", "forked"}

\* ours: in the group of the child; root: runs a set-user-id program (pkexec),
\* which this user may not signal; how: the way it ended.
Process == [at : {"none", "live", "zombie", "gone"}, holds : BOOLEAN, ours : BOOLEAN,
            root : BOOLEAN, how : Ended \cup {None}]

Nobody == [at |-> "none", holds |-> FALSE, ours |-> FALSE, root |-> FALSE, how |-> None]

Holders == {p \in Proc : procs[p].holds}
Live(p) == procs[p].at = "live"
Members == {p \in Proc : Live(p) /\ procs[p].ours}
Killable == {p \in Members : ~procs[p].root}

\* A dead child stays a zombie until it is waited for; what it forked is
\* adopted, and waited for, by somebody else.
Dead(p, r, how) == [r EXCEPT !.at = IF p = "child" THEN "zombie" ELSE "gone",
                             !.holds = FALSE, !.how = how]
Die(dead) == procs' = [p \in Proc |-> IF p \in dead THEN Dead(p, procs[p], "signal") ELSE procs[p]]

Init ==
  /\ call \in Call
  /\ pc = "start" /\ late \in BOOLEAN
  /\ procs = [p \in Proc |-> Nobody] /\ stranger = FALSE
  /\ pipe = 0 /\ sent = 0 /\ buffer = 0
  /\ status = None /\ closed = FALSE /\ hup = FALSE /\ overrun = FALSE
  /\ result = None

-----------------------------------------------------------------------------
(***************************************************************************)
(* The caller.                                                             *)
(***************************************************************************)

\* The deadline may have passed before the call, and the program be missing.
\* The child starts in a group of its own, its stdout a pipe or /dev/null.
Start ==
  /\ pc = "start"
  /\ \/ /\ pc' = "done"
        /\ UNCHANGED procs
     \/ /\ ~late
        /\ pc' = "look"
        /\ procs' = [procs EXCEPT !["child"] =
             [Nobody EXCEPT !.at = "live", !.ours = TRUE, !.holds = (call = "output")]]
  /\ UNCHANGED <<call, late, stranger, pipe, sent, buffer, status, closed, hup, overrun, result>>

\* Mutant: the deadline is not looked at.
LookForEver ==
  /\ pc = "look"
  /\ IF procs["child"].at = "zombie"
     THEN /\ status' = procs["child"].how
          /\ procs' = [procs EXCEPT !["child"].at = "gone"]
     ELSE UNCHANGED <<status, procs>>
  /\ pc' = IF status' # None /\ (closed \/ call = "stdin") THEN "verdict"
           ELSE IF closed \/ call = "stdin" THEN "look" ELSE "poll"
  /\ UNCHANGED <<call, late, stranger, pipe, sent, buffer, closed, hup, overrun, result>>

\* The head of the loop: the deadline, try_wait, and whether all is over; if
\* only the pipe is closed, a short sleep and around again.
Look ==
  /\ pc = "look"
  /\ IF ~late /\ procs["child"].at = "zombie"
     THEN /\ status' = procs["child"].how
          /\ procs' = [procs EXCEPT !["child"].at = "gone"]
     ELSE UNCHANGED <<status, procs>>
  /\ pc' = IF late \/ (status' # None /\ (closed \/ call = "stdin")) THEN "verdict"
           ELSE IF closed \/ call = "stdin" THEN "look" ELSE "poll"
  /\ UNCHANGED <<call, late, stranger, pipe, sent, buffer, closed, hup, overrun, result>>

\* poll(2), at most 50 ms.  A pipe nobody can write to any more is POLLHUP,
\* with POLLIN as long as bytes are left; a signal or the time ends it empty.
Poll ==
  /\ pc = "poll"
  /\ hup' = (Holders = {})
  /\ pc' = IF pipe > 0 THEN "read" ELSE IF Holders = {} THEN "drain" ELSE "look"
  /\ UNCHANGED <<call, late, procs, stranger, pipe, sent, buffer, status, closed, overrun, result>>

\* Mutant: a pipe that hangs up is closed, whatever is left in it.
ReadUndrained(l) ==
  /\ pc = l
  /\ LET n == IF pipe < Chunk THEN pipe ELSE Chunk
         fits == buffer + n <= MaxOut
         more == pipe > 0 /\ ~hup IN
     /\ pipe' = pipe - n
     /\ buffer' = IF fits THEN buffer + n ELSE MaxOut
     /\ overrun' = ~fits
     /\ closed' = (closed \/ hup)
     /\ pc' = IF ~fits THEN "verdict" ELSE IF more THEN l ELSE "look"
  /\ UNCHANGED <<call, late, procs, stranger, sent, status, hup, result>>

\* Mutant: the cap is looked at after the chunk was taken.
ReadUncapped(l) ==
  /\ pc = l
  /\ LET n == IF pipe < Chunk THEN pipe ELSE Chunk IN
     /\ pipe' = pipe - n
     /\ buffer' = buffer + n
     /\ overrun' = (buffer > MaxOut)
     /\ closed' = (closed \/ (pipe = 0 /\ Holders = {}))
     /\ pc' = IF overrun' THEN "verdict" ELSE IF pipe > 0 THEN l ELSE "look"
  /\ UNCHANGED <<call, late, procs, stranger, sent, status, hup, result>>

\* One read of either inner loop, which do not look at the deadline.  A chunk
\* that does not fit ends the call.  An empty pipe is the end of the output
\* if nobody can write, WouldBlock if somebody can; after POLLHUP it is read
\* once more until empty, and then closed in either case.
ReadChunk(l) ==
  /\ pc = l
  /\ LET n == IF pipe < Chunk THEN pipe ELSE Chunk
         fits == buffer + n <= MaxOut IN
     /\ pipe' = pipe - n
     /\ buffer' = IF fits THEN buffer + n ELSE MaxOut
     /\ overrun' = ~fits
     /\ closed' = (closed \/ (pipe = 0 /\ (l = "drain" \/ Holders = {})))
     /\ pc' = IF ~fits THEN "verdict"
              ELSE IF pipe > 0 THEN l
              ELSE IF l = "read" /\ hup THEN "drain" ELSE "look"
  /\ UNCHANGED <<call, late, procs, stranger, sent, status, hup, result>>

\* Mutant: a command that has ended leaves nothing to kill.
VerdictNoReap ==
  /\ pc = "verdict"
  /\ result' = IF overrun \/ status = None \/ late THEN None
               ELSE [code |-> status, out |-> buffer]
  /\ pc' = IF result' # None THEN "done" ELSE "term"
  /\ UNCHANGED <<call, late, procs, stranger, pipe, sent, buffer, status, closed, hup, overrun>>

\* After the loop.  Only the output call looks at the deadline once more.
Verdict ==
  /\ pc = "verdict"
  /\ result' = IF overrun \/ status = None \/ (late /\ call = "output") THEN None
               ELSE [code |-> status, out |-> buffer]
  /\ pc' = "term"
  /\ UNCHANGED <<call, late, procs, stranger, pipe, sent, buffer, status, closed, hup, overrun>>

\* Mutant: the child is waited for before its group is killed.
TermCollected ==
  /\ pc = "term"
  /\ procs' = [procs EXCEPT !["child"].at = IF @ = "zombie" THEN "gone" ELSE @]
  /\ pc' = "kill"
  /\ UNCHANGED <<call, late, stranger, pipe, sent, buffer, status, closed, hup, overrun, result>>

\* reap_process_group: SIGTERM to the group, which ends who does not ignore
\* it; 5 ms; SIGKILL; wait.
Term ==
  /\ pc = "term"
  /\ \E dead \in SUBSET Killable : Die(dead)
  /\ pc' = "kill"
  /\ UNCHANGED <<call, late, stranger, pipe, sent, buffer, status, closed, hup, overrun, result>>

Kill9 ==
  /\ pc = "kill"
  /\ Die(Killable)
  /\ pc' = "wait"
  /\ UNCHANGED <<call, late, stranger, pipe, sent, buffer, status, closed, hup, overrun, result>>

\* child.wait(): no deadline holds here.  A child of root has to end by itself.
Wait ==
  /\ pc = "wait"
  /\ ~Live("child")
  /\ procs' = [procs EXCEPT !["child"].at = "gone"]
  /\ pc' = "done"
  /\ UNCHANGED <<call, late, stranger, pipe, sent, buffer, status, closed, hup, overrun, result>>

Caller ==
  \/ Start \/ Look \/ Poll \/ ReadChunk("read") \/ ReadChunk("drain")
  \/ Verdict \/ Term \/ Kill9 \/ Wait

-----------------------------------------------------------------------------
(***************************************************************************)
(* The clock, the child and what it forks.                                 *)
(***************************************************************************)
Clock ==
  /\ ~late /\ late' = TRUE
  /\ UNCHANGED <<call, pc, procs, stranger, pipe, sent, buffer, status, closed, hup, overrun, result>>

Quietly == UNCHANGED <<call, pc, late, stranger, buffer, status, closed, hup, overrun, result>>

Write(p) ==
  /\ procs[p].holds /\ pipe < PipeSize /\ sent < MaxSent
  /\ pipe' = pipe + 1 /\ sent' = sent + 1
  /\ Quietly /\ UNCHANGED procs

Close(p) ==
  /\ procs[p].holds
  /\ procs' = [procs EXCEPT ![p].holds = FALSE]
  /\ Quietly /\ UNCHANGED <<pipe, sent>>

Exit(p) ==
  /\ Live(p)
  /\ \E how \in Ended : procs' = [procs EXCEPT ![p] = Dead(p, procs[p], how)]
  /\ Quietly /\ UNCHANGED <<pipe, sent>>

\* What is forked shares the pipe and the group, and may leave the group.
Fork ==
  /\ Live("child") /\ procs["forked"].at = "none"
  /\ procs' = [procs EXCEPT !["forked"] = procs["child"]]
  /\ Quietly /\ UNCHANGED <<pipe, sent>>

Leave ==
  /\ Live("forked") /\ procs["forked"].ours
  /\ procs' = [procs EXCEPT !["forked"].ours = FALSE]
  /\ Quietly /\ UNCHANGED <<pipe, sent>>

BecomeRoot ==
  /\ Live("child") /\ ~procs["child"].root
  /\ procs' = [procs EXCEPT !["child"].root = TRUE]
  /\ Quietly /\ UNCHANGED <<pipe, sent>>

\* A PID is free again once its process has been waited for and its group is
\* empty.
Recycle ==
  /\ procs["child"].at = "gone" /\ Members = {} /\ ~stranger
  /\ stranger' = TRUE
  /\ UNCHANGED <<call, pc, late, procs, pipe, sent, buffer, status, closed, hup, overrun, result>>

Children ==
  \/ \E p \in Proc : Write(p) \/ Close(p) \/ Exit(p)
  \/ Fork \/ Leave \/ BecomeRoot \/ Recycle

Next == Caller \/ Clock \/ Children

\* The caller's thread runs and time passes.  Nothing is assumed of the child.
Spec == Init /\ [][Next]_vars /\ WF_vars(Caller) /\ WF_vars(Clock)

-----------------------------------------------------------------------------
Outcome == [code : Ended, out : 0..MaxOut]

TypeOK ==
  /\ call \in Call
  /\ pc \in {"start", "look", "poll", "read", "drain", "verdict", "term", "kill", "wait", "done"}
  /\ late \in BOOLEAN /\ procs \in [Proc -> Process] /\ stranger \in BOOLEAN
  /\ pipe \in 0..PipeSize /\ sent \in 0..MaxSent /\ buffer \in 0..MaxOut
  /\ status \in Ended \cup {None}
  /\ closed \in BOOLEAN /\ hup \in BOOLEAN /\ overrun \in BOOLEAN
  /\ result \in Outcome \cup {None}

\* "Returns stdout only when the command exits": an answer is the child's own
\* exit code, given before any signal was sent to it, and all the output there
\* will ever be: every byte written by the child and by what it forked, whose
\* ends of the pipe are closed, the ones outside its group included.
WholeOutput ==
  result # None =>
    /\ procs["child"].how = result.code
    /\ procs["child"].at = "gone"
    /\ call = "output" => result.out = sent /\ Holders = {}

\* A call that is over leaves no zombie, and of the child's group nobody it
\* may signal.
NothingSurvives == pc = "done" => Killable = {} /\ procs["child"].at \in {"none", "gone"}

\* The PID a signal goes to is still the child's, or its group's, unless
\* try_wait has already collected the child: the signals of a call that was
\* cut short never reach a stranger.
StrangerOnlyIfCollected == stranger /\ pc \in {"term", "kill"} => status # None

\* "Monotonic deadline enforcement": a call ends, unless its child is root's,
\* which it cannot kill and waits for.
Ends == [](Live("child") => ~procs["child"].root) => <>(pc = "done")
=============================================================================
