----------------------------- MODULE AtomicFile -----------------------------
(***************************************************************************)
(* What src/src/engine/state.rs promises of a state file: it holds the     *)
(* whole content of one write or nothing of it, whenever it is read, and   *)
(* whether the writes that follow succeed, fail, or die half-way.          *)
(***************************************************************************)
EXTENDS Naturals, Sequences

CONSTANTS Runner, Path, Content, Missing

VARIABLES
  disk,    \* disk[p]: what a reader of p gets
  todo     \* todo[r]: the writes r has still to do, in order

fileVars == <<disk, todo>>

Write == [path : Path, data : Content]

Init ==
  /\ disk \in [Path -> Content \cup {Missing}]
  /\ todo = [r \in Runner |-> <<>>]

Ask(r) ==
  /\ todo[r] = <<>>
  /\ todo'[r] \in Seq(Write)
  /\ todo' = [todo EXCEPT ![r] = todo'[r]]
  /\ UNCHANGED disk

\* The next write, done as a whole.
Commit(r) ==
  /\ todo[r] # <<>>
  /\ disk' = [disk EXCEPT ![Head(todo[r]).path] = Head(todo[r]).data]
  /\ todo' = [todo EXCEPT ![r] = Tail(@)]

\* The next write, not done.
Skip(r) ==
  /\ todo[r] # <<>>
  /\ todo' = [todo EXCEPT ![r] = Tail(@)]
  /\ UNCHANGED disk

Die(r) ==
  /\ todo' = [todo EXCEPT ![r] = <<>>]
  /\ UNCHANGED disk

\* Somebody else removes or replaces a file.
Meddle(p) ==
  /\ \E d \in Content \cup {Missing} : disk' = [disk EXCEPT ![p] = d]
  /\ UNCHANGED todo

Next ==
  \/ \E r \in Runner : Ask(r) \/ Commit(r) \/ Skip(r) \/ Die(r)
  \/ \E p \in Path : Meddle(p)

Spec == Init /\ [][Next]_fileVars
=============================================================================
