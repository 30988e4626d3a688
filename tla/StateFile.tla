----------------------------- MODULE StateFile -----------------------------
(***************************************************************************)
(* Writing and reading the per-user state files: src/src/engine/state.rs.  *)
(*                                                                         *)
(* A write goes to a temporary file of the writer's own, and takes the     *)
(* place of the state file by rename once it is complete.  What a runner   *)
(* has to write is a queue, todo[r]; it goes on when that is empty.        *)
(***************************************************************************)
EXTENDS Naturals, Sequences

CONSTANTS
  Runner,      \* processes: a daemon, a report for the panel, a command
  Path, Content,
  Missing,     \* no such file
  Torn         \* a file cut short

ASSUME FileAssumption == Missing \notin Content /\ Torn \notin Content \cup {Missing}

VARIABLES
  disk, todo,
  tmp          \* tmp[r]: r's temporary file, Missing, Torn or the content

fileVars == <<disk, todo, tmp>>

FileInit ==
  /\ disk = [p \in Path |-> Missing]
  /\ todo = [r \in Runner |-> <<>>]
  /\ tmp = [r \in Runner |-> Missing]

Writing(r) == todo[r] # <<>>
Next1(r) == Head(todo[r])

\* write_secure_state_file: create_new, then write_all and sync_all.
CreateTmp(r) ==
  /\ Writing(r) /\ tmp[r] = Missing
  /\ tmp' = [tmp EXCEPT ![r] = Torn]
  /\ UNCHANGED <<disk, todo>>

FillTmp(r) ==
  /\ Writing(r) /\ tmp[r] = Torn
  /\ tmp' = [tmp EXCEPT ![r] = Next1(r).data]
  /\ UNCHANGED <<disk, todo>>

\* Mutant: neither the write nor the size of the file is looked at.
RenameUnchecked(r) ==
  /\ Writing(r) /\ tmp[r] # Missing
  /\ disk' = [disk EXCEPT ![Next1(r).path] = tmp[r]]
  /\ todo' = [todo EXCEPT ![r] = Tail(@)]
  /\ tmp' = [tmp EXCEPT ![r] = Missing]

\* The size is right, the target is no symlink: rename.
RenameTmp(r) ==
  /\ Writing(r) /\ tmp[r] \notin {Missing, Torn}
  /\ disk' = [disk EXCEPT ![Next1(r).path] = tmp[r]]
  /\ todo' = [todo EXCEPT ![r] = Tail(@)]
  /\ tmp' = [tmp EXCEPT ![r] = Missing]

\* Any step may fail; the guard removes the temporary file.
WriteFails(r) ==
  /\ Writing(r)
  /\ todo' = [todo EXCEPT ![r] = Tail(@)]
  /\ tmp' = [tmp EXCEPT ![r] = Missing]
  /\ UNCHANGED disk

\* The process dies.  Its temporary file stays, under a name nobody reads.
FileCrash(r) ==
  /\ todo' = [todo EXCEPT ![r] = <<>>]
  /\ tmp' = [tmp EXCEPT ![r] = Missing]
  /\ UNCHANGED disk

\* read_secure_state_file: the content, of the one file that had the name when
\* it was opened, or an error.
Readable(p) == disk[p] # Missing

Abstract == INSTANCE AtomicFile WITH disk <- disk, todo <- todo
=============================================================================
