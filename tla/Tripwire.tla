------------------------------ MODULE Tripwire ------------------------------
(***************************************************************************)
(* The canaries: src/src/engine/tripwire.rs over the state files.          *)
(*                                                                         *)
(* A check reads a token and a hash sealed earlier, and a decoy in /tmp;   *)
(* the first check arms the tripwire.  A reset seals a new token.  Checks  *)
(* run in the daemon and in every report asked for by hand, resets in a    *)
(* command of their own, and nothing keeps them apart.                     *)
(*                                                                         *)
(* A token is told by the reset that made it, 0 for the one of a first     *)
(* run, and a hash by the token it is of.                                  *)
(***************************************************************************)
EXTENDS StateFile, FiniteSets

CONSTANTS
  MaxGen,      \* bound: seconds in which resets run
  Bad,         \* what somebody else has written
  None,
  Setting

Gen == 0..MaxGen

ASSUME TripwireAssumption ==
  /\ MaxGen \in Nat
  /\ Path = {"token", "hash", "armed"} /\ Content = Gen \cup {Bad}
  /\ Bad \notin Gen \cup {None} /\ None \notin Gen
  /\ None \notin {"secure", "warning", "alert"}
  /\ {Bad, Missing} \cap {"empty", "ours", "theirs"} = {}

VARIABLES
  setting,
  run,         \* run[r]: the check or the reset r performs
  decoy,       \* the file in /tmp: Missing, "empty", "ours", "theirs" or Bad
  tampered,    \* the sealed token or its hash was changed since (history)
  meddled,     \* somebody else has ever changed a canary, as in AlertMeansTamper (history)
  smooth       \* no two ran at once, none died, no write failed (history)

vars == <<fileVars, setting, run, decoy, tampered, meddled, smooth>>

\* known: the token was changed before this check began.
Idle == [at |-> "idle", token |-> FALSE, hash |-> FALSE, seal |-> None,
         expected |-> None, verdict |-> None, known |-> FALSE]

At(r, label) == run[r].at = label /\ ~Writing(r)
Forgets(c, label) == [c EXCEPT !.at = label, !.token = FALSE, !.hash = FALSE, !.expected = None]
Goes(r, label) == run' = [run EXCEPT ![r].at = label]
Quiet(r) == run[r].at \in {"idle", "done"}
Arming(r) == run[r].at \in {"token", "hash", "armed", "reset"} \/ Writing(r)

Init ==
  /\ FileInit
  /\ setting \in Setting
  /\ run = [r \in Runner |-> Idle]
  /\ decoy = Missing
  /\ tampered = FALSE /\ meddled = FALSE /\ smooth = TRUE

Overlaps(r) == smooth' = (smooth /\ \A q \in Runner \ {r} : Quiet(q))
Others == <<setting, decoy, tampered, meddled>>

-----------------------------------------------------------------------------
(***************************************************************************)
(* primary_seal.                                                           *)
(***************************************************************************)
StartCheck(r) ==
  /\ Quiet(r)
  /\ run' = [run EXCEPT ![r] = [Idle EXCEPT !.at = "token", !.known = tampered]]
  /\ Overlaps(r)
  /\ UNCHANGED <<fileVars, Others>>

SeeToken(r) ==
  /\ At(r, "token")
  /\ run' = [run EXCEPT ![r].at = "hash", ![r].token = Readable("token")]
  /\ UNCHANGED <<fileVars, Others, smooth>>

SeeHash(r) ==
  /\ At(r, "hash")
  /\ run' = [run EXCEPT ![r].at = "armed", ![r].hash = Readable("hash")]
  /\ UNCHANGED <<fileVars, Others, smooth>>

Seal(g) == << [path |-> "token", data |-> g], [path |-> "hash", data |-> g] >>
Arm == << [path |-> "armed", data |-> 0] >>

\* Mutant: a missing canary is made again, armed or not.
SeeArmedRemake(r) ==
  /\ At(r, "armed")
  /\ todo' = [todo EXCEPT ![r] =
               (IF run[r].token /\ run[r].hash THEN <<>> ELSE Seal(0)) \o Arm]
  /\ run' = [run EXCEPT ![r] = Forgets(@, "seal")]
  /\ UNCHANGED <<disk, tmp, Others, smooth>>

\* The first run arms the tripwire, over a pair that is there or a new one; an
\* armed canary that was not there is missing.
SeeArmed(r) ==
  /\ At(r, "armed")
  /\ \/ /\ ~Readable("armed")
        /\ todo' = [todo EXCEPT ![r] =
                     (IF run[r].token /\ run[r].hash THEN <<>> ELSE Seal(0)) \o Arm]
        /\ run' = [run EXCEPT ![r] = Forgets(@, "seal")]
     \/ /\ Readable("armed")
        /\ run' = [run EXCEPT ![r] =
             IF @.token /\ @.hash THEN Forgets(@, "seal")
             ELSE [Forgets(@, "decoy") EXCEPT !.seal = "missing"]]
        /\ UNCHANGED todo
  /\ UNCHANGED <<disk, tmp, Others, smooth>>

ReadHash(r) ==
  /\ At(r, "seal")
  /\ run' = [run EXCEPT ![r].at = "compare",
                        ![r].expected = IF Readable("hash") THEN disk["hash"] ELSE None]
  /\ UNCHANGED <<fileVars, Others, smooth>>

\* An empty or unreadable hash matches nothing.
ReadToken(r) ==
  /\ At(r, "compare")
  /\ LET expected == run[r].expected IN
     run' = [run EXCEPT ![r] = [Forgets(@, "decoy") EXCEPT
       !.seal = IF expected \in Gen /\ expected = disk["token"] THEN "intact" ELSE "mismatch"]]
  /\ UNCHANGED <<fileVars, Others, smooth>>

-----------------------------------------------------------------------------
(***************************************************************************)
(* decoy_state: the decoy is created, with O_EXCL, and then written.       *)
(***************************************************************************)
\* Mutant: a decoy somebody else holds is an alert.
JudgeAnyDecoy(seal, d) == IF seal # "intact" \/ d # "ours" THEN "alert" ELSE "secure"

\* check_tripwire_in: a mismatch of either is an alert; a decoy that is somebody
\* else's says nothing about ours.
Judged(seal, d) ==
  IF seal # "intact" \/ d = Bad THEN "alert"
  ELSE IF d = "ours" THEN "secure" ELSE "warning"

Conclude(r, d) ==
  run' = [run EXCEPT ![r] = [Idle EXCEPT !.at = "done", !.verdict = Judged(run[r].seal, d),
                                         !.known = run[r].known]]

SeeDecoy(r) ==
  /\ At(r, "decoy")
  /\ Goes(r, IF decoy = Missing THEN "create" ELSE "judge")
  /\ UNCHANGED <<fileVars, Others, smooth>>

CreateDecoy(r) ==
  /\ At(r, "create")
  /\ IF decoy = Missing
     THEN decoy' = "empty" /\ Goes(r, "fill")
     ELSE UNCHANGED decoy /\ Conclude(r, "theirs")
  /\ UNCHANGED <<fileVars, setting, tampered, meddled, smooth>>

FillDecoy(r) ==
  /\ At(r, "fill")
  /\ \/ /\ decoy' = IF decoy = "empty" THEN "ours" ELSE decoy
        /\ Goes(r, "judge") /\ UNCHANGED smooth
     \/ /\ setting.faults
        /\ Conclude(r, "theirs")
        /\ smooth' = FALSE /\ UNCHANGED decoy
  /\ UNCHANGED <<fileVars, setting, tampered, meddled>>

\* The first look: whose file it is.
JudgeDecoy(r) ==
  /\ At(r, "judge")
  /\ IF decoy \in {Missing, "theirs"} THEN Conclude(r, "theirs") ELSE Goes(r, "read")
  /\ UNCHANGED <<fileVars, Others, smooth>>

\* The second: what it holds; a file that is gone by now, or another's, is wiped.
ReadDecoy(r) ==
  /\ At(r, "read")
  /\ Conclude(r, IF decoy = "ours" THEN "ours" ELSE Bad)
  /\ UNCHANGED <<fileVars, Others, smooth>>

-----------------------------------------------------------------------------
(***************************************************************************)
(* reset_canaries.  The token carries the second it is made in.            *)
(***************************************************************************)
Reset(r, g) ==
  /\ Quiet(r) /\ "reset" \in setting.jobs
  /\ todo' = [todo EXCEPT ![r] = Seal(g) \o Arm]
  /\ run' = [q \in Runner |-> IF q = r THEN [Idle EXCEPT !.at = "reset"]
                              ELSE [run[q] EXCEPT !.known = FALSE]]
  /\ tampered' = FALSE
  /\ Overlaps(r)
  /\ UNCHANGED <<disk, tmp, setting, decoy, meddled>>

ResetDone(r) ==
  /\ At(r, "reset")
  /\ Goes(r, "done")
  /\ UNCHANGED <<fileVars, Others, smooth>>

-----------------------------------------------------------------------------
WriteStep(r) ==
  /\ \/ CreateTmp(r) /\ UNCHANGED smooth
     \/ FillTmp(r) /\ UNCHANGED smooth
     \/ RenameTmp(r) /\ UNCHANGED smooth
     \/ setting.faults /\ WriteFails(r) /\ smooth' = FALSE
  /\ UNCHANGED <<run, Others>>

Crash(r) ==
  /\ setting.faults /\ ~Quiet(r)
  /\ FileCrash(r)
  /\ run' = [run EXCEPT ![r] = Idle]
  /\ smooth' = FALSE
  /\ UNCHANGED Others

\* Somebody else wipes or removes a token or a hash; armed, and no runner about
\* to write one, or nobody could tell.
Tamper(p, d) ==
  /\ setting.tamper
  /\ disk[p] \notin {d, Missing}
  /\ disk' = [disk EXCEPT ![p] = d]
  /\ tampered' = (tampered \/ (Readable("armed") /\ \A r \in Runner : ~Arming(r)))
  /\ meddled' = TRUE
  /\ UNCHANGED <<todo, tmp, setting, run, decoy, smooth>>

\* /tmp is anybody's: a file of another user's has the decoy's name, or the
\* decoy is wiped, or removed (and made again in silence, unless that happens
\* between the two looks of a check).
TamperDecoy(d) ==
  /\ setting.tamper /\ decoy # d
  /\ d = "theirs" => decoy = Missing
  /\ d = Bad => decoy \in {"ours", "empty"}
  /\ decoy' = d
  /\ meddled' = (meddled \/ d = Bad \/ \E r \in Runner : At(r, "read"))
  /\ UNCHANGED <<fileVars, setting, run, tampered, smooth>>

Next ==
  \/ \E r \in Runner :
       \/ StartCheck(r) \/ SeeToken(r) \/ SeeHash(r) \/ SeeArmed(r)
       \/ ReadHash(r) \/ ReadToken(r) \/ SeeDecoy(r) \/ CreateDecoy(r) \/ FillDecoy(r)
       \/ JudgeDecoy(r) \/ ReadDecoy(r)
       \/ (\E g \in Gen \ {0} : Reset(r, g)) \/ ResetDone(r)
       \/ WriteStep(r) \/ Crash(r)
  \/ \E p \in {"token", "hash"}, d \in {Bad, Missing} : Tamper(p, d)
  \/ \E d \in {Bad, Missing, "theirs"} : TamperDecoy(d)

Spec == Init /\ [][Next]_vars

-----------------------------------------------------------------------------
Check == [at : {"idle", "token", "hash", "armed", "seal", "compare", "decoy", "create", "fill",
                "judge", "read", "reset", "done"},
          token : BOOLEAN, hash : BOOLEAN, seal : {None, "intact", "mismatch", "missing"},
          expected : Gen \cup {Bad, None},
          verdict : {None, "secure", "warning", "alert"}, known : BOOLEAN]

TypeOK ==
  /\ disk \in [Path -> Content \cup {Missing}]
  /\ tmp \in [Runner -> Content \cup {Missing, Torn}]
  /\ \A r \in Runner : Len(todo[r]) <= 3
  /\ setting \in Setting /\ run \in [Runner -> Check]
  /\ decoy \in {Missing, "empty", "ours", "theirs", Bad}
  /\ tampered \in BOOLEAN /\ meddled \in BOOLEAN /\ smooth \in BOOLEAN

\* The state files are atomic registers: through failures, crashes and writers
\* at once no reader finds a part of a write, or two writes in one file.
FilesAreAtomic == Abstract!Spec

\* "A deleted tripwire canary is an alert, not silently re-created": once the
\* sealed token or hash is changed or removed every check that begins after it
\* raises the alert, until a reset, whoever else checks, fails or dies.
TamperIsSeen ==
  \A r \in Runner : LET v == run[r].verdict IN
    run[r].known /\ v # None => v = "alert"

\* "Canary token modified or wiped by untrusted process!": no alert where nobody
\* has changed a canary, removed one of the pair, or taken the decoy away from a
\* check that has just seen it.
AlertMeansTamper == \A r \in Runner : run[r].verdict = "alert" => meddled

\* The same of runs that do not overlap, fail or die.
SmoothAlertMeansTamper == smooth => AlertMeansTamper
=============================================================================
