--------------------------- MODULE TripwireProofs ---------------------------
(***************************************************************************)
(* Proofs about the canaries and the state files they live in, for any     *)
(* number of processes that check and reset them, for any settings.        *)
(*                                                                         *)
(* TamperIsSeen speaks of a finished check, so it is not inductive.  The   *)
(* strengthening follows a tampered pair through the check: while no       *)
(* runner has a write to do, the pair on the disk is broken (Broken) and   *)
(* an armed marker is there to tell, and every check that began after it   *)
(* is bound to conclude "alert" from whatever step it is at (Doomed).  No  *)
(* new write can be queued meanwhile but by a reset: SeeArmed seals only   *)
(* where the marker is not there.                                          *)
(*                                                                         *)
(* SmoothAlertMeansTamper needs the opposite, what holds while nothing     *)
(* goes wrong (Undisturbed): one runner at a time is busy, what is left of *)
(* its queue tells which of the three files it has written (Halfway), and  *)
(* what a check has read so far is what is on the disk (Steady).           *)
(***************************************************************************)
EXTENDS Tripwire, SequenceTheorems, TLAPS

\* The steps a check or a reset can be at.
Label == {"idle", "token", "hash", "armed", "seal", "compare", "decoy", "create", "fill",
          "judge", "read", "reset", "done"}

Queues == Seq(Abstract!Write)

\* A complete temporary file holds the write at the head of its writer's queue.
FilesOK ==
  /\ disk \in [Path -> Content \cup {Missing}]
  /\ todo \in [Runner -> Queues]
  /\ tmp \in [Runner -> Content \cup {Missing, Torn}]
  /\ \A r \in Runner : Len(todo[r]) <= 3
  /\ \A r \in Runner : tmp[r] \notin {Missing, Torn} => todo[r] # <<>> /\ tmp[r] = Head(todo[r]).data

\* Only a first check and a reset write, and they do nothing else meanwhile.
RunsOK ==
  /\ setting \in Setting /\ run \in [Runner -> Check]
  /\ decoy \in {Missing, "empty", "ours", "theirs", Bad}
  /\ tampered \in BOOLEAN /\ meddled \in BOOLEAN /\ smooth \in BOOLEAN
  /\ \A r \in Runner : todo[r] # <<>> => run[r].at \in {"seal", "reset"}

\* A token or a hash that no reset has made.
Broken == disk["token"] \notin Gen \/ disk["hash"] \notin Gen

\* From where it is, c concludes "alert" over a broken pair.
Doomed(c) ==
  /\ c.at = "compare" => c.expected \notin Gen \/ disk["token"] \notin Gen
  /\ c.at \in {"decoy", "create", "fill", "judge", "read"} => c.seal \in {"mismatch", "missing"}
  /\ c.verdict # None => c.verdict = "alert"

Alarmed ==
  /\ tampered => disk["armed"] # Missing /\ Broken /\ \A r \in Runner : todo[r] = <<>>
  /\ \A r \in Runner : run[r].known => tampered /\ Doomed(run[r])

IInv == FilesOK /\ RunsOK /\ Alarmed

-----------------------------------------------------------------------------
\* What a change of one field leaves of the type of a check.
LEMMA AtType ==
  ASSUME NEW c \in Check, NEW l \in Label
  PROVE  [c EXCEPT !.at = l] \in Check
  BY Zenon DEF Check, Label

LEMMA KnownType ==
  ASSUME NEW c \in Check, NEW b \in BOOLEAN
  PROVE  [c EXCEPT !.known = b] \in Check
  BY Zenon DEF Check

LEMMA TokenType ==
  ASSUME NEW c \in Check, NEW b \in BOOLEAN
  PROVE  [c EXCEPT !.token = b] \in Check
  BY Zenon DEF Check

LEMMA HashType ==
  ASSUME NEW c \in Check, NEW b \in BOOLEAN
  PROVE  [c EXCEPT !.hash = b] \in Check
  BY Zenon DEF Check

LEMMA SealType ==
  ASSUME NEW c \in Check, NEW s \in {None, "intact", "mismatch", "missing"}
  PROVE  [c EXCEPT !.seal = s] \in Check
  BY Zenon DEF Check

LEMMA ExpectedType ==
  ASSUME NEW c \in Check, NEW e \in Gen \cup {Bad, None}
  PROVE  [c EXCEPT !.expected = e] \in Check
  BY Zenon DEF Check

LEMMA VerdictType ==
  ASSUME NEW c \in Check, NEW v \in {None, "secure", "warning", "alert"}
  PROVE  [c EXCEPT !.verdict = v] \in Check
  BY Zenon DEF Check

LEMMA IdleType == Idle \in Check
  BY ZenonT(30) DEF Idle, Check

LEMMA ForgetsType ==
  ASSUME NEW c \in Check, NEW l \in Label
  PROVE  Forgets(c, l) \in Check
<1>1. [c EXCEPT !.at = l] \in Check
  BY AtType
<1>2. [[c EXCEPT !.at = l] EXCEPT !.token = FALSE] \in Check
  BY <1>1, TokenType
<1>3. [[[c EXCEPT !.at = l] EXCEPT !.token = FALSE] EXCEPT !.hash = FALSE] \in Check
  BY <1>2, HashType
<1>4. [[[[c EXCEPT !.at = l] EXCEPT !.token = FALSE] EXCEPT !.hash = FALSE] EXCEPT !.expected = None] \in Check
  BY <1>3, ExpectedType
<1> QED BY <1>4 DEF Forgets
-----------------------------------------------------------------------------
\* A step of one runner that writes no file keeps the invariant when it leaves
\* the runner well formed and, if it knew of a tampering, bound to tell.
LEMMA RunStep ==
  ASSUME IInv, NEW r \in Runner, NEW c \in Check,
         run' = [run EXCEPT ![r] = c],
         UNCHANGED <<fileVars, setting, tampered, meddled>>,
         decoy' \in {Missing, "empty", "ours", "theirs", Bad}, smooth' \in BOOLEAN,
         todo[r] = <<>>,
         c.known => tampered /\ Doomed(c)
  PROVE  IInv'
<1>1. /\ run' \in [Runner -> Check] /\ run'[r] = c
      /\ \A q \in Runner \ {r} : run'[q] = run[q]
  BY DEF IInv, RunsOK
<1>2. FilesOK'
  BY DEF IInv, FilesOK, fileVars
<1>3. RunsOK'
  BY <1>1 DEF IInv, RunsOK, fileVars
<1>4. Alarmed'
  <2>1. \A q \in Runner : run'[q].known => tampered /\ Doomed(run'[q])
    BY <1>1 DEF IInv, Alarmed
  <2>2. \A q \in Runner : run'[q].known => tampered' /\ Doomed(run[q])'
    BY <2>1 DEF Doomed, fileVars
  <2> QED BY <2>2 DEF IInv, Alarmed, Broken, fileVars
<1> QED BY <1>2, <1>3, <1>4 DEF IInv

LEMMA StartCheckKeeps ==
  ASSUME IInv, NEW r \in Runner, StartCheck(r)
  PROVE  IInv'
<1> DEFINE c == [Idle EXCEPT !.at = "token", !.known = tampered]
<1>1. c \in Check
  <2>1. [Idle EXCEPT !.at = "token"] \in Check
    BY IdleType, AtType DEF Label
  <2>2. [[Idle EXCEPT !.at = "token"] EXCEPT !.known = tampered] \in Check
    BY <2>1, KnownType DEF IInv, RunsOK
  <2> QED BY <2>2
<1>2. c.at = "token" /\ c.verdict = None
  BY DEF Idle
<1>3. todo[r] = <<>>
  BY DEF StartCheck, Quiet, IInv, RunsOK
<1>4. c.known => tampered /\ Doomed(c)
  BY <1>2, Zenon DEF Doomed, Idle
<1> QED BY <1>1, <1>3, <1>4, RunStep DEF StartCheck, Overlaps, Others, fileVars, IInv, RunsOK

LEMMA SeeTokenKeeps ==
  ASSUME IInv, NEW r \in Runner, SeeToken(r)
  PROVE  IInv'
<1> DEFINE c == [run[r] EXCEPT !.at = "hash", !.token = Readable("token")]
<1>0. run[r] \in Check
  BY DEF IInv, RunsOK
<1>1. c \in Check
  <2>1. [run[r] EXCEPT !.at = "hash"] \in Check
    BY <1>0, AtType DEF Label
  <2> QED BY <2>1, TokenType DEF Readable
<1>2. c.known => tampered /\ Doomed(c)
  BY <1>0 DEF IInv, Alarmed, Doomed, Check
<1>3. run' = [run EXCEPT ![r] = c]
  BY DEF SeeToken, IInv, RunsOK
<1> HIDE DEF c
<1> QED BY <1>1, <1>2, <1>3, RunStep DEF SeeToken, At, Writing, Others, fileVars, IInv, RunsOK

LEMMA SeeHashKeeps ==
  ASSUME IInv, NEW r \in Runner, SeeHash(r)
  PROVE  IInv'
<1> DEFINE c == [run[r] EXCEPT !.at = "armed", !.hash = Readable("hash")]
<1>0. run[r] \in Check
  BY DEF IInv, RunsOK
<1>1. c \in Check
  <2>1. [run[r] EXCEPT !.at = "armed"] \in Check
    BY <1>0, AtType DEF Label
  <2> QED BY <2>1, HashType DEF Readable
<1>2. c.known => tampered /\ Doomed(c)
  BY <1>0 DEF IInv, Alarmed, Doomed, Check
<1>3. run' = [run EXCEPT ![r] = c]
  BY DEF SeeHash, IInv, RunsOK
<1> HIDE DEF c
<1> QED BY <1>1, <1>2, <1>3, RunStep DEF SeeHash, At, Writing, Others, fileVars, IInv, RunsOK

LEMMA SeeDecoyKeeps ==
  ASSUME IInv, NEW r \in Runner, SeeDecoy(r)
  PROVE  IInv'
<1> DEFINE c == [run[r] EXCEPT !.at = IF decoy = Missing THEN "create" ELSE "judge"]
<1>0. run[r] \in Check
  BY DEF IInv, RunsOK
<1>1. c \in Check
  BY <1>0, AtType DEF Label
<1>2. c.known => tampered /\ Doomed(c)
  BY <1>0 DEF IInv, Alarmed, Doomed, Check, SeeDecoy, At
<1>3. run' = [run EXCEPT ![r] = c]
  BY DEF SeeDecoy, IInv, RunsOK, Goes
<1> HIDE DEF c
<1> QED BY <1>1, <1>2, <1>3, RunStep DEF SeeDecoy, At, Writing, Others, fileVars, IInv, RunsOK

LEMMA ResetDoneKeeps ==
  ASSUME IInv, NEW r \in Runner, ResetDone(r)
  PROVE  IInv'
<1> DEFINE c == [run[r] EXCEPT !.at = "done"]
<1>0. run[r] \in Check
  BY DEF IInv, RunsOK
<1>1. c \in Check
  BY <1>0, AtType DEF Label
<1>2. c.known => tampered /\ Doomed(c)
  BY <1>0 DEF IInv, Alarmed, Doomed, Check
<1>3. run' = [run EXCEPT ![r] = c]
  BY DEF ResetDone, IInv, RunsOK, Goes
<1> HIDE DEF c
<1> QED BY <1>1, <1>2, <1>3, RunStep DEF ResetDone, At, Writing, Others, fileVars, IInv, RunsOK

LEMMA ReadHashKeeps ==
  ASSUME IInv, NEW r \in Runner, ReadHash(r)
  PROVE  IInv'
<1> DEFINE e == IF Readable("hash") THEN disk["hash"] ELSE None
           c == [run[r] EXCEPT !.at = "compare", !.expected = e]
<1>0. run[r] \in Check
  BY DEF IInv, RunsOK
<1>1. c \in Check
  <2>1. [run[r] EXCEPT !.at = "compare"] \in Check
    BY <1>0, AtType DEF Label
  <2>2. e \in Gen \cup {Bad, None}
    BY TripwireAssumption DEF IInv, FilesOK, Readable
  <2> HIDE DEF e
  <2> QED BY <2>1, <2>2, ExpectedType
<1>2. c.known => tampered /\ Doomed(c)
  <2>1. c.at = "compare" /\ c.expected = e /\ c.verdict = run[r].verdict /\ c.known = run[r].known
    BY <1>0 DEF Check
  <2>2. run[r].known => Broken /\ tampered /\ (run[r].verdict # None => run[r].verdict = "alert")
    BY DEF IInv, Alarmed, Doomed
  <2>3. Broken => e \notin Gen \/ disk["token"] \notin Gen
    BY TripwireAssumption DEF Broken
  <2> HIDE DEF c, e
  <2> QED BY <2>1, <2>2, <2>3 DEF Doomed
<1>3. run' = [run EXCEPT ![r] = c]
  BY DEF ReadHash, IInv, RunsOK
<1> HIDE DEF c
<1> QED BY <1>1, <1>2, <1>3, RunStep DEF ReadHash, At, Writing, Others, fileVars, IInv, RunsOK

LEMMA ReadTokenKeeps ==
  ASSUME IInv, NEW r \in Runner, ReadToken(r)
  PROVE  IInv'
<1> DEFINE e == run[r].expected
           s == IF e \in Gen /\ e = disk["token"] THEN "intact" ELSE "mismatch"
           c == [Forgets(run[r], "decoy") EXCEPT !.seal = s]
<1>0. run[r] \in Check
  BY DEF IInv, RunsOK
<1>1. Forgets(run[r], "decoy") \in Check /\ c \in Check
  <2>1. Forgets(run[r], "decoy") \in Check
    BY <1>0, ForgetsType DEF Label
  <2> QED BY <2>1, SealType
<1>2. c.known => tampered /\ Doomed(c)
  <2>1. c.at = "decoy" /\ c.seal = s /\ c.verdict = run[r].verdict /\ c.known = run[r].known
    BY <1>0 DEF Check, Forgets
  <2>2. run[r].known => tampered /\ s = "mismatch" /\ (run[r].verdict # None => run[r].verdict = "alert")
    BY DEF ReadToken, At, IInv, Alarmed, Doomed
  <2> HIDE DEF c
  <2> QED BY <2>1, <2>2 DEF Doomed
<1>3. run' = [run EXCEPT ![r] = c]
  BY DEF ReadToken, IInv, RunsOK
<1> HIDE DEF c
<1> QED BY <1>1, <1>2, <1>3, RunStep DEF ReadToken, At, Writing, Others, fileVars, IInv, RunsOK

LEMMA ConcludeType ==
  ASSUME IInv, NEW r \in Runner, NEW d \in {Missing, "empty", "ours", "theirs", Bad},
         run[r].at \in {"create", "fill", "judge", "read"}
  PROVE  LET c == [Idle EXCEPT !.at = "done", !.verdict = Judged(run[r].seal, d),
                               !.known = run[r].known] IN
         c \in Check /\ (c.known => tampered /\ Doomed(c))
<1> DEFINE v == Judged(run[r].seal, d)
           c == [Idle EXCEPT !.at = "done", !.verdict = v, !.known = run[r].known]
<1>0. run[r] \in Check
  BY DEF IInv, RunsOK
<1>1. v \in {"secure", "warning", "alert"}
  BY DEF Judged
<1> HIDE DEF v
<1>2. c \in Check
  <2>1. [Idle EXCEPT !.at = "done"] \in Check
    BY IdleType, AtType DEF Label
  <2>2. [[Idle EXCEPT !.at = "done"] EXCEPT !.verdict = v] \in Check
    BY <1>1, <2>1, VerdictType
  <2>3. run[r].known \in BOOLEAN
    BY <1>0 DEF Check
  <2> QED BY <2>2, <2>3, KnownType
<1>3. c.at = "done" /\ c.verdict = v /\ c.known = run[r].known
  BY Zenon DEF Idle
<1>4. run[r].known => tampered /\ v = "alert"
  BY DEF IInv, Alarmed, Doomed, Judged, v
<1> HIDE DEF c
<1>5. c.known => tampered /\ Doomed(c)
  BY <1>3, <1>4 DEF Doomed
<1> QED BY <1>2, <1>5 DEF c, v

LEMMA ConcludeKeeps ==
  ASSUME IInv, NEW r \in Runner, NEW d \in {Missing, "empty", "ours", "theirs", Bad},
         run[r].at \in {"create", "fill", "judge", "read"}, Conclude(r, d),
         UNCHANGED <<fileVars, setting, tampered, meddled>>,
         decoy' \in {Missing, "empty", "ours", "theirs", Bad}, smooth' \in BOOLEAN
  PROVE  IInv'
<1> DEFINE c == [Idle EXCEPT !.at = "done", !.verdict = Judged(run[r].seal, d), !.known = run[r].known]
<1>1. c \in Check /\ (c.known => tampered /\ Doomed(c))
  BY ConcludeType
<1>2. run' = [run EXCEPT ![r] = c]
  BY DEF Conclude
<1>3. todo[r] = <<>>
  BY DEF IInv, RunsOK
<1> HIDE DEF c
<1> QED BY <1>1, <1>2, <1>3, RunStep

LEMMA JudgeDecoyKeeps ==
  ASSUME IInv, NEW r \in Runner, JudgeDecoy(r)
  PROVE  IInv'
<1>1. CASE Conclude(r, "theirs")
  BY <1>1, ConcludeKeeps DEF JudgeDecoy, At, Others, IInv, RunsOK
<1>2. CASE Goes(r, "read")
  <2> DEFINE c == [run[r] EXCEPT !.at = "read"]
  <2>0. run[r] \in Check
    BY DEF IInv, RunsOK
  <2>1. c \in Check
    BY <2>0, AtType DEF Label
  <2>2. c.known => tampered /\ Doomed(c)
    BY <2>0 DEF IInv, Alarmed, Doomed, Check, JudgeDecoy, At
  <2>3. run' = [run EXCEPT ![r] = c]
    BY <1>2 DEF Goes, IInv, RunsOK
  <2> HIDE DEF c
  <2> QED BY <1>2, <2>1, <2>2, <2>3, RunStep
    DEF JudgeDecoy, At, Others, Writing, fileVars, IInv, RunsOK
<1> QED BY <1>1, <1>2 DEF JudgeDecoy

LEMMA ReadDecoyKeeps ==
  ASSUME IInv, NEW r \in Runner, ReadDecoy(r)
  PROVE  IInv'
  BY ConcludeKeeps DEF ReadDecoy, At, Others, IInv, RunsOK

LEMMA CreateDecoyKeeps ==
  ASSUME IInv, NEW r \in Runner, CreateDecoy(r)
  PROVE  IInv'
<1>1. CASE decoy # Missing
  BY <1>1, ConcludeKeeps DEF CreateDecoy, At, IInv, RunsOK
<1>2. CASE decoy = Missing
  <2> DEFINE c == [run[r] EXCEPT !.at = "fill"]
  <2>0. run[r] \in Check
    BY DEF IInv, RunsOK
  <2>1. c \in Check
    BY <2>0, AtType DEF Label
  <2>2. c.known => tampered /\ Doomed(c)
    BY <2>0 DEF IInv, Alarmed, Doomed, Check, CreateDecoy, At
  <2>3. run' = [run EXCEPT ![r] = c]
    BY <1>2 DEF CreateDecoy, Goes, IInv, RunsOK
  <2> HIDE DEF c
  <2> QED BY <1>2, <2>1, <2>2, <2>3, RunStep
    DEF CreateDecoy, At, Writing, fileVars, IInv, RunsOK
<1> QED BY <1>1, <1>2

LEMMA FillDecoyKeeps ==
  ASSUME IInv, NEW r \in Runner, FillDecoy(r)
  PROVE  IInv'
<1>1. CASE Conclude(r, "theirs") /\ smooth' = FALSE /\ UNCHANGED decoy
  BY <1>1, ConcludeKeeps DEF FillDecoy, At, IInv, RunsOK
<1>2. CASE decoy' = (IF decoy = "empty" THEN "ours" ELSE decoy) /\ Goes(r, "judge") /\ UNCHANGED smooth
  <2> DEFINE c == [run[r] EXCEPT !.at = "judge"]
  <2>0. run[r] \in Check
    BY DEF IInv, RunsOK
  <2>1. c \in Check
    BY <2>0, AtType DEF Label
  <2>2. c.known => tampered /\ Doomed(c)
    BY <2>0 DEF IInv, Alarmed, Doomed, Check, FillDecoy, At
  <2>3. run' = [run EXCEPT ![r] = c]
    BY <1>2 DEF Goes, IInv, RunsOK
  <2> HIDE DEF c
  <2> QED BY <1>2, <2>1, <2>2, <2>3, RunStep
    DEF FillDecoy, At, Writing, fileVars, IInv, RunsOK
<1> QED BY <1>1, <1>2 DEF FillDecoy

-----------------------------------------------------------------------------
\* The queues that arming and a reset make.
LEMMA EntryType ==
  ASSUME NEW p \in Path, NEW g \in Gen
  PROVE  [path |-> p, data |-> g] \in Abstract!Write
  BY TripwireAssumption DEF Abstract!Write

LEMMA ArmQueueType == Arm \in Queues /\ Len(Arm) = 1 /\ <<>> \o Arm = Arm
<1>1. 0 \in Gen /\ "armed" \in Path
  BY TripwireAssumption DEF Gen
<1> QED BY <1>1, EntryType DEF Arm, Queues

LEMMA ResetQueueType ==
  ASSUME NEW g \in Gen
  PROVE  Seal(g) \o Arm \in Queues /\ Len(Seal(g) \o Arm) = 3
<1>1. "token" \in Path /\ "hash" \in Path
  BY TripwireAssumption
<1>2. Seal(g) \in Queues /\ Len(Seal(g)) = 2
  BY <1>1, EntryType DEF Seal, Queues
<1> HIDE DEF Queues
<1>3. Seal(g) \in Seq(Abstract!Write) /\ Arm \in Seq(Abstract!Write)
  BY <1>2, ArmQueueType DEF Queues
<1>4. Seal(g) \o Arm \in Seq(Abstract!Write) /\ Len(Seal(g) \o Arm) = Len(Seal(g)) + Len(Arm)
  BY <1>3, ConcatProperties
<1> QED BY <1>2, <1>4, ArmQueueType DEF Queues

LEMMA RestType ==
  ASSUME NEW q \in Queues, q # <<>>
  PROVE  Tail(q) \in Queues /\ Head(q) \in Abstract!Write /\ Len(Tail(q)) = Len(q) - 1
  BY DEF Queues

LEMMA SeeArmedKeeps ==
  ASSUME IInv, NEW r \in Runner, SeeArmed(r)
  PROVE  IInv'
<1>0. run[r] \in Check /\ todo[r] = <<>> /\ run[r].at = "armed"
  BY DEF IInv, RunsOK, SeeArmed, At, Writing
<1>1. CASE Readable("armed")
  <2> DEFINE c == IF run[r].token /\ run[r].hash THEN Forgets(run[r], "seal")
                  ELSE [Forgets(run[r], "decoy") EXCEPT !.seal = "missing"]
  <2>1. Forgets(run[r], "seal") \in Check /\ Forgets(run[r], "decoy") \in Check
    BY <1>0, ForgetsType DEF Label
  <2>2. [Forgets(run[r], "decoy") EXCEPT !.seal = "missing"] \in Check
    BY <2>1, SealType
  <2>3. /\ Forgets(run[r], "seal").at = "seal"
        /\ Forgets(run[r], "seal").verdict = run[r].verdict
        /\ Forgets(run[r], "seal").known = run[r].known
    BY <1>0 DEF Check, Forgets
  <2>4. LET x == [Forgets(run[r], "decoy") EXCEPT !.seal = "missing"] IN
        x.at = "decoy" /\ x.seal = "missing" /\ x.verdict = run[r].verdict /\ x.known = run[r].known
    BY <1>0 DEF Check, Forgets
  <2>5. run[r].known => tampered /\ (run[r].verdict # None => run[r].verdict = "alert")
    BY DEF IInv, Alarmed, Doomed
  <2>6. run' = [run EXCEPT ![r] = c] /\ UNCHANGED todo
    BY <1>1 DEF SeeArmed, IInv, RunsOK
  <2>7. c.known => tampered /\ Doomed(c)
    BY <2>3, <2>4, <2>5 DEF Doomed
  <2>8. c \in Check
    BY <2>1, <2>2
  <2> HIDE DEF c
  <2> QED BY <1>0, <2>6, <2>7, <2>8, RunStep DEF SeeArmed, Others, fileVars, IInv, RunsOK
<1>2. CASE ~Readable("armed")
  <2> DEFINE q == (IF run[r].token /\ run[r].hash THEN <<>> ELSE Seal(0)) \o Arm
             c == Forgets(run[r], "seal")
  <2>1. q \in Queues /\ Len(q) <= 3
    <3>1. 0 \in Gen
      BY TripwireAssumption DEF Gen
    <3>2. q = Arm \/ q = Seal(0) \o Arm
      BY ArmQueueType
    <3> HIDE DEF q
    <3> HIDE DEF Queues
    <3>3. Seal(0) \o Arm \in Queues /\ Len(Seal(0) \o Arm) = 3
      BY <3>1, ResetQueueType
    <3>4. CASE q = Arm
      BY <3>4, ArmQueueType
    <3>5. CASE q = Seal(0) \o Arm
      BY <3>3, <3>5
    <3> QED BY <3>2, <3>4, <3>5
  <2>2. c \in Check
    BY <1>0, ForgetsType DEF Label
  <2>3. c.at = "seal" /\ c.known = run[r].known
    BY <1>0 DEF Check, Forgets
  <2>4. /\ todo' = [todo EXCEPT ![r] = q]
        /\ run' = [run EXCEPT ![r] = c]
        /\ UNCHANGED <<disk, tmp, Others, smooth>>
    BY <1>2 DEF SeeArmed, IInv, RunsOK
  <2>5. ~tampered /\ \A p \in Runner : ~run[p].known
    BY <1>2 DEF IInv, Alarmed, Readable
  <2> HIDE DEF q, c
  <2>6. /\ todo' \in [Runner -> Queues] /\ todo'[r] = q
        /\ \A p \in Runner \ {r} : todo'[p] = todo[p]
    BY <2>1, <2>4 DEF IInv, FilesOK
  <2>7. /\ run' \in [Runner -> Check] /\ run'[r] = c
        /\ \A p \in Runner \ {r} : run'[p] = run[p]
    BY <2>2, <2>4 DEF IInv, RunsOK
  <2>8. FilesOK'
    BY <1>0, <2>1, <2>4, <2>6 DEF IInv, FilesOK
  <2>9. RunsOK'
    BY <2>3, <2>4, <2>6, <2>7 DEF IInv, RunsOK, Others
  <2>10. Alarmed'
    BY <2>3, <2>4, <2>5, <2>7 DEF Alarmed, Others
  <2> QED BY <2>8, <2>9, <2>10 DEF IInv
<1> QED BY <1>1, <1>2

LEMMA ResetKeeps ==
  ASSUME IInv, NEW r \in Runner, NEW g \in Gen, Reset(r, g)
  PROVE  IInv'
<1> DEFINE q == Seal(g) \o Arm
           c == [Idle EXCEPT !.at = "reset"]
<1>1. q \in Queues /\ Len(q) <= 3
  BY ResetQueueType
<1>2. c \in Check
  BY IdleType, AtType DEF Label
<1>3. c.at = "reset" /\ c.known = FALSE
  BY Zenon DEF Idle
<1>4. todo[r] = <<>>
  BY DEF Reset, Quiet, IInv, RunsOK
<1>5. /\ todo' = [todo EXCEPT ![r] = q]
      /\ run' = [p \in Runner |-> IF p = r THEN c ELSE [run[p] EXCEPT !.known = FALSE]]
      /\ tampered' = FALSE
      /\ UNCHANGED <<disk, tmp, setting, decoy, meddled>>
      /\ smooth' \in BOOLEAN
  BY DEF Reset, Overlaps, IInv, RunsOK
<1> HIDE DEF q, c
<1>6. /\ todo' \in [Runner -> Queues] /\ todo'[r] = q
      /\ \A p \in Runner \ {r} : todo'[p] = todo[p]
  BY <1>1, <1>5 DEF IInv, FilesOK
<1>7. \A p \in Runner \ {r} : run'[p] = [run[p] EXCEPT !.known = FALSE]
  BY <1>5
<1>8. \A p \in Runner \ {r} : run'[p] \in Check /\ run'[p].at = run[p].at /\ run'[p].known = FALSE
  <2> TAKE p \in Runner \ {r}
  <2>1. run[p] \in Check
    BY DEF IInv, RunsOK
  <2>2. [run[p] EXCEPT !.known = FALSE] \in Check
    BY <2>1, KnownType
  <2>3. run[p].at = [run[p] EXCEPT !.known = FALSE].at /\ [run[p] EXCEPT !.known = FALSE].known = FALSE
    BY <2>1 DEF Check
  <2> QED BY <1>7, <2>2, <2>3
<1>9. run' \in [Runner -> Check] /\ run'[r] = c /\ \A p \in Runner : run'[p].known = FALSE
  BY <1>2, <1>3, <1>5, <1>8
<1>10. FilesOK'
  BY <1>1, <1>4, <1>5, <1>6 DEF IInv, FilesOK
<1>11. RunsOK'
  BY <1>3, <1>5, <1>6, <1>8, <1>9 DEF IInv, RunsOK
<1>12. Alarmed'
  BY <1>5, <1>9 DEF Alarmed
<1> QED BY <1>10, <1>11, <1>12 DEF IInv

-----------------------------------------------------------------------------
LEMMA Rest ==
  ASSUME FilesOK, NEW r \in Runner, Writing(r)
  PROVE  /\ Tail(todo[r]) \in Queues /\ Len(Tail(todo[r])) <= 3
         /\ Next1(r).path \in Path /\ Next1(r).data \in Content
<1>1. todo[r] \in Queues /\ todo[r] # <<>> /\ Len(todo[r]) <= 3
  BY DEF FilesOK, Writing
<1>2. Len(todo[r]) \in Nat
  BY <1>1 DEF Queues
<1>3. Head(todo[r]) \in Abstract!Write /\ Tail(todo[r]) \in Queues /\ Len(Tail(todo[r])) = Len(todo[r]) - 1
  BY <1>1, RestType
<1>4. Head(todo[r]).path \in Path /\ Head(todo[r]).data \in Content
  BY <1>3 DEF Abstract!Write
<1> QED BY <1>1, <1>2, <1>3, <1>4 DEF Next1

LEMMA AlarmedHolds ==
  ASSUME IInv, ~tampered', \A r \in Runner : ~run[r].known, UNCHANGED run
  PROVE  Alarmed'
  BY DEF Alarmed

LEMMA DoomedHolds ==
  ASSUME IInv, UNCHANGED <<disk, run, tampered>>, tampered => todo' = todo
  PROVE  Alarmed'
<1>1. \A r \in Runner : Doomed(run[r]) => Doomed(run[r])'
  BY DEF Doomed
<1> QED BY <1>1 DEF IInv, Alarmed, Broken

\* While anybody writes, nothing is held to be tampered with: a tampered pair
\* counts only where nobody is about to make it anew.
LEMMA Untold ==
  ASSUME IInv, NEW r \in Runner, Writing(r)
  PROVE  ~tampered /\ \A q \in Runner : ~run[q].known
  BY DEF IInv, Alarmed, Writing

LEMMA WriteStepKeeps ==
  ASSUME IInv, NEW r \in Runner, WriteStep(r)
  PROVE  IInv'
<1>1. Writing(r)
  BY DEF WriteStep, CreateTmp, FillTmp, RenameTmp, WriteFails
<1>2. Alarmed'
  BY <1>1, Untold, AlarmedHolds DEF WriteStep, Others
<1>3. todo[r] \in Queues /\ Tail(todo[r]) \in Queues /\ Len(Tail(todo[r])) <= 3
      /\ Next1(r).path \in Path /\ Next1(r).data \in Content
  BY <1>1, Rest DEF IInv, FilesOK
<1> HIDE DEF Queues
<1>4. FilesOK'
  <2>1. CASE CreateTmp(r)
    BY <2>1 DEF CreateTmp, IInv, FilesOK
  <2>2. CASE FillTmp(r)
    BY <2>2, <1>1, <1>3 DEF FillTmp, IInv, FilesOK, Next1, Writing
  <2>3. CASE RenameTmp(r)
    <3>1. tmp[r] \in Content
      BY <2>3 DEF RenameTmp, IInv, FilesOK
    <3>2. disk' \in [Path -> Content \cup {Missing}]
      BY <3>1, <2>3, <1>3 DEF RenameTmp, IInv, FilesOK
    <3>3. todo' \in [Runner -> Queues] /\ todo'[r] = Tail(todo[r])
          /\ \A q \in Runner \ {r} : todo'[q] = todo[q]
      BY <2>3, <1>3 DEF RenameTmp, IInv, FilesOK
    <3>4. tmp' \in [Runner -> Content \cup {Missing, Torn}] /\ tmp'[r] = Missing
          /\ \A q \in Runner \ {r} : tmp'[q] = tmp[q]
      BY <2>3 DEF RenameTmp, IInv, FilesOK
    <3> QED BY <3>2, <3>3, <3>4, <1>3 DEF IInv, FilesOK
  <2>4. CASE WriteFails(r)
    <3>3. todo' \in [Runner -> Queues] /\ todo'[r] = Tail(todo[r])
          /\ \A q \in Runner \ {r} : todo'[q] = todo[q]
      BY <2>4, <1>3 DEF WriteFails, IInv, FilesOK
    <3>4. tmp' \in [Runner -> Content \cup {Missing, Torn}] /\ tmp'[r] = Missing
          /\ \A q \in Runner \ {r} : tmp'[q] = tmp[q]
      BY <2>4 DEF WriteFails, IInv, FilesOK
    <3> QED BY <2>4, <3>3, <3>4, <1>3 DEF WriteFails, IInv, FilesOK
  <2> QED BY <2>1, <2>2, <2>3, <2>4 DEF WriteStep
<1>5. RunsOK'
  <2>1. run[r].at \in {"seal", "reset"}
    BY <1>1 DEF IInv, RunsOK, Writing
  <2>2. \A q \in Runner \ {r} : todo'[q] = todo[q]
    BY DEF WriteStep, CreateTmp, FillTmp, RenameTmp, WriteFails, IInv, FilesOK
  <2>3. smooth' \in BOOLEAN
    BY DEF WriteStep, IInv, RunsOK
  <2> QED BY <2>1, <2>2, <2>3 DEF WriteStep, Others, IInv, RunsOK
<1> QED BY <1>2, <1>4, <1>5 DEF IInv

LEMMA CrashKeeps ==
  ASSUME IInv, NEW r \in Runner, Crash(r)
  PROVE  IInv'
<1>1. Idle.known = FALSE /\ Idle.at = "idle"
  BY Zenon DEF Idle
<1>2. <<>> \in Queues /\ Len(<<>>) = 0
  BY DEF Queues
<1> HIDE DEF Queues
<1>3. todo' \in [Runner -> Queues] /\ todo'[r] = <<>> /\ \A q \in Runner \ {r} : todo'[q] = todo[q]
  BY <1>2 DEF Crash, FileCrash, IInv, FilesOK
<1>4. tmp' \in [Runner -> Content \cup {Missing, Torn}] /\ tmp'[r] = Missing
      /\ \A q \in Runner \ {r} : tmp'[q] = tmp[q]
  BY DEF Crash, FileCrash, IInv, FilesOK
<1>5. run' \in [Runner -> Check] /\ run'[r] = Idle /\ \A q \in Runner \ {r} : run'[q] = run[q]
  BY IdleType DEF Crash, IInv, RunsOK
<1>6. UNCHANGED <<disk, setting, decoy, tampered, meddled>> /\ smooth' = FALSE
  BY DEF Crash, FileCrash, Others
<1>7. FilesOK'
  BY <1>2, <1>3, <1>4, <1>6 DEF IInv, FilesOK
<1>8. RunsOK'
  BY <1>3, <1>5, <1>6 DEF IInv, RunsOK
<1>9. Alarmed'
  <2>1. \A q \in Runner : run'[q].known => run[q].known /\ run'[q] = run[q]
    BY <1>1, <1>5
  <2>2. \A q \in Runner : run'[q].known => Doomed(run[q])'
    BY <2>1, <1>6 DEF IInv, Alarmed, Doomed
  <2>3. tampered => \A q \in Runner : todo'[q] = <<>>
    BY <1>3 DEF IInv, Alarmed
  <2> QED BY <2>1, <2>2, <2>3, <1>6 DEF IInv, Alarmed, Broken
<1> QED BY <1>7, <1>8, <1>9 DEF IInv

LEMMA TamperKeeps ==
  ASSUME IInv, NEW p \in {"token", "hash"}, NEW d \in {Bad, Missing}, Tamper(p, d)
  PROVE  IInv'
<1>0. p \in Path /\ p # "armed" /\ d \in Content \cup {Missing} /\ d \notin Gen
  BY TripwireAssumption, FileAssumption
<1>1. /\ disk' \in [Path -> Content \cup {Missing}] /\ disk'[p] = d
      /\ \A x \in Path \ {p} : disk'[x] = disk[x]
  BY <1>0 DEF Tamper, IInv, FilesOK
<1>2. /\ tampered' = (tampered \/ (disk["armed"] # Missing /\ \A r \in Runner : ~Arming(r)))
      /\ meddled' = TRUE
      /\ UNCHANGED <<todo, tmp, setting, run, decoy, smooth>>
  BY DEF Tamper, Readable
<1>3. FilesOK'
  BY <1>1, <1>2 DEF IInv, FilesOK
<1>4. RunsOK'
  BY <1>2 DEF IInv, RunsOK
<1>5. Alarmed'
  <2>1. Broken'
    BY <1>0, <1>1 DEF Broken
  <2>2. disk'["armed"] = disk["armed"]
    BY <1>0, <1>1, TripwireAssumption
  <2>3. tampered' => \A r \in Runner : todo[r] = <<>>
    BY <1>2 DEF IInv, Alarmed, Arming, Writing
  <2>4. \A r \in Runner : Doomed(run[r]) => Doomed(run[r])'
    <3>1. disk["token"] \notin Gen => disk'["token"] \notin Gen
      BY <1>0, <1>1, TripwireAssumption
    <3> QED BY <1>2, <3>1 DEF Doomed
  <2>5. tampered' => disk'["armed"] # Missing
    BY <1>2, <2>2 DEF IInv, Alarmed
  <2> QED BY <1>2, <2>1, <2>3, <2>4, <2>5 DEF IInv, Alarmed
<1> QED BY <1>3, <1>4, <1>5 DEF IInv

LEMMA TamperDecoyKeeps ==
  ASSUME IInv, NEW d \in {Bad, Missing, "theirs"}, TamperDecoy(d)
  PROVE  IInv'
<1>1. FilesOK' /\ RunsOK'
  BY DEF TamperDecoy, fileVars, IInv, FilesOK, RunsOK
<1>2. Alarmed'
  BY DoomedHolds DEF TamperDecoy, fileVars
<1> QED BY <1>1, <1>2 DEF IInv

-----------------------------------------------------------------------------
\* IInv is inductive.
LEMMA InitHolds == Init => IInv
<1> SUFFICES ASSUME Init PROVE IInv
  OBVIOUS
<1>1. <<>> \in Queues /\ Len(<<>>) = 0
  BY DEF Queues
<1> HIDE DEF Queues
<1>2. FilesOK
  BY <1>1 DEF Init, FileInit, FilesOK
<1>3. Idle.known = FALSE
  BY Zenon DEF Idle
<1>4. RunsOK
  BY IdleType DEF Init, FileInit, RunsOK
<1>5. Alarmed
  BY <1>3 DEF Init, Alarmed
<1> QED BY <1>2, <1>4, <1>5 DEF IInv

LEMMA NextKeeps == IInv /\ [Next]_vars => IInv'
<1> SUFFICES ASSUME IInv, [Next]_vars PROVE IInv'
  OBVIOUS
<1>1. CASE UNCHANGED vars
  <2>1. FilesOK' /\ RunsOK'
    BY <1>1 DEF vars, fileVars, IInv, FilesOK, RunsOK
  <2>2. Alarmed'
    BY <1>1, DoomedHolds DEF vars, fileVars
  <2> QED BY <2>1, <2>2 DEF IInv
<1>2. CASE Next
  <2>1. ASSUME NEW r \in Runner, StartCheck(r) \/ SeeToken(r) \/ SeeHash(r) \/ SeeArmed(r)
        PROVE  IInv'
    BY <2>1, StartCheckKeeps, SeeTokenKeeps, SeeHashKeeps, SeeArmedKeeps
  <2>2. ASSUME NEW r \in Runner,
               ReadHash(r) \/ ReadToken(r) \/ SeeDecoy(r) \/ CreateDecoy(r) \/ FillDecoy(r) \/ JudgeDecoy(r)
               \/ ReadDecoy(r)
        PROVE  IInv'
    BY <2>2, ReadHashKeeps, ReadTokenKeeps, SeeDecoyKeeps, CreateDecoyKeeps, FillDecoyKeeps,
       JudgeDecoyKeeps, ReadDecoyKeeps
  <2>3. ASSUME NEW r \in Runner, (\E g \in Gen \ {0} : Reset(r, g)) \/ ResetDone(r)
        PROVE  IInv'
    BY <2>3, ResetKeeps, ResetDoneKeeps
  <2>4. ASSUME NEW r \in Runner, WriteStep(r) \/ Crash(r) PROVE IInv'
    BY <2>4, WriteStepKeeps, CrashKeeps
  <2>5. ASSUME NEW p \in {"token", "hash"}, NEW d \in {Bad, Missing}, Tamper(p, d) PROVE IInv'
    BY <2>5, TamperKeeps
  <2>6. ASSUME NEW d \in {Bad, Missing, "theirs"}, TamperDecoy(d) PROVE IInv'
    BY <2>6, TamperDecoyKeeps
  <2> QED BY <1>2, <2>1, <2>2, <2>3, <2>4, <2>5, <2>6 DEF Next
<1> QED BY <1>1, <1>2

LEMMA Inductive == Spec => []IInv
<1>1. Init => IInv
  BY InitHolds
<1>2. IInv /\ [Next]_vars => IInv'
  BY NextKeeps
<1> QED BY <1>1, <1>2, PTL DEF Spec

-----------------------------------------------------------------------------
\* The state is well formed, whatever runs at once, dies or fails: no file ever
\* holds a torn write, and no runner has more than a reset's three writes to do.
THEOREM Typed == Spec => []TypeOK
<1>1. IInv => TypeOK
  BY DEF IInv, FilesOK, RunsOK, TypeOK
<1> QED BY <1>1, Inductive, PTL

\* check_tripwire: once the sealed token or its hash was changed or removed,
\* every check that begins raises the alert until a reset, for any number of
\* processes that check, reset, fail or die, in any order.
THEOREM TamperRaisesTheAlert == Spec => []TamperIsSeen
<1>1. IInv => TamperIsSeen
  BY DEF IInv, Alarmed, Doomed, TamperIsSeen
<1> QED BY <1>1, Inductive, PTL

\* Creating and filling the temporary file are no steps of the abstract file:
\* the rename is the whole write.
LEMMA WritesAreAtomic ==
  ASSUME IInv, NEW r \in Runner, WriteStep(r)
  PROVE  [Abstract!Next]_<<disk, todo>>
<1>1. CASE CreateTmp(r) \/ FillTmp(r)
  BY <1>1 DEF CreateTmp, FillTmp
<1>2. CASE RenameTmp(r)
  <2>1. todo[r] # <<>> /\ tmp[r] = Head(todo[r]).data
    BY <1>2 DEF RenameTmp, Writing, IInv, FilesOK
  <2>2. Abstract!Commit(r)
    BY <1>2, <2>1 DEF RenameTmp, Next1, Abstract!Commit
  <2> QED BY <2>2 DEF Abstract!Next
<1>3. CASE WriteFails(r)
  BY <1>3 DEF WriteFails, Writing, Abstract!Skip, Abstract!Next
<1> QED BY <1>1, <1>2, <1>3 DEF WriteStep

LEMMA AsksAreAtomic ==
  ASSUME IInv, NEW r \in Runner, NEW q \in Queues,
         todo[r] = <<>>, todo' = [todo EXCEPT ![r] = q], UNCHANGED disk
  PROVE  [Abstract!Next]_<<disk, todo>>
<1>1. todo'[r] = q
  BY DEF IInv, FilesOK
<1>2. Abstract!Ask(r)
  BY <1>1 DEF Abstract!Ask, Queues
<1> QED BY <1>2 DEF Abstract!Next

LEMMA StepsAreAtomic == IInv /\ [Next]_vars => [Abstract!Next]_<<disk, todo>>
<1> SUFFICES ASSUME IInv, [Next]_vars PROVE [Abstract!Next]_<<disk, todo>>
  OBVIOUS
<1> USE DEF fileVars
<1>1. CASE UNCHANGED vars
  BY <1>1 DEF vars
<1>2. CASE Next
  <2>1. ASSUME NEW r \in Runner, StartCheck(r) \/ SeeToken(r) \/ SeeHash(r) \/ ReadHash(r) \/ ReadToken(r)
        PROVE  UNCHANGED <<disk, todo>>
    BY <2>1 DEF StartCheck, SeeToken, SeeHash, ReadHash, ReadToken
  <2>2. ASSUME NEW r \in Runner, SeeDecoy(r) \/ CreateDecoy(r) \/ FillDecoy(r) \/ JudgeDecoy(r)
                                    \/ ReadDecoy(r) \/ ResetDone(r)
        PROVE  UNCHANGED <<disk, todo>>
    BY <2>2 DEF SeeDecoy, CreateDecoy, FillDecoy, JudgeDecoy, ReadDecoy, ResetDone
  <2>3. ASSUME NEW r \in Runner, SeeArmed(r) PROVE [Abstract!Next]_<<disk, todo>>
    <3>1. CASE UNCHANGED todo
      BY <2>3, <3>1 DEF SeeArmed
    <3>2. CASE todo' # todo
      <4> DEFINE q == (IF run[r].token /\ run[r].hash THEN <<>> ELSE Seal(0)) \o Arm
      <4>1. todo' = [todo EXCEPT ![r] = q] /\ todo[r] = <<>> /\ UNCHANGED disk
        BY <2>3, <3>2 DEF SeeArmed, At, Writing
      <4>2. 0 \in Gen
        BY TripwireAssumption DEF Gen
      <4>3. Seal(0) \o Arm \in Queues /\ Arm \in Queues /\ (q = Arm \/ q = Seal(0) \o Arm)
        BY <4>2, ResetQueueType, ArmQueueType
      <4>4. q \in Queues
        BY <4>3
      <4> HIDE DEF q
      <4> QED BY <4>1, <4>4, AsksAreAtomic
    <3> QED BY <3>1, <3>2
  <2>4. ASSUME NEW r \in Runner, NEW g \in Gen, Reset(r, g) PROVE [Abstract!Next]_<<disk, todo>>
    <3>1. todo[r] = <<>>
      BY <2>4 DEF Reset, Quiet, IInv, RunsOK
    <3>2. Seal(g) \o Arm \in Queues
      BY ResetQueueType
    <3> QED BY <2>4, <3>1, <3>2, AsksAreAtomic DEF Reset
  <2>5. ASSUME NEW r \in Runner, Crash(r) PROVE [Abstract!Next]_<<disk, todo>>
    BY <2>5 DEF Crash, FileCrash, Abstract!Die, Abstract!Next
  <2>6. ASSUME NEW p \in {"token", "hash"}, NEW d \in {Bad, Missing}, Tamper(p, d)
        PROVE  [Abstract!Next]_<<disk, todo>>
    <3>1. p \in Path /\ d \in Content \cup {Missing}
      BY TripwireAssumption
    <3>2. Abstract!Meddle(p)
      BY <2>6, <3>1 DEF Tamper, Abstract!Meddle
    <3> QED BY <3>1, <3>2 DEF Abstract!Next
  <2>7. ASSUME NEW d \in {Bad, Missing, "theirs"}, TamperDecoy(d) PROVE UNCHANGED <<disk, todo>>
    BY <2>7 DEF TamperDecoy
  <2>8. ASSUME NEW r \in Runner, WriteStep(r) PROVE [Abstract!Next]_<<disk, todo>>
    BY <2>8, WritesAreAtomic
  <2> QED BY <1>2, <2>1, <2>2, <2>3, <2>4, <2>5, <2>6, <2>7, <2>8 DEF Next
<1> QED BY <1>1, <1>2

\* write_secure_state_file keeps the promise of AtomicFile: a reader finds the
\* whole content of one write, of whichever process, or nothing of it.
THEOREM FilesImplementAtomicFiles == Spec => FilesAreAtomic
<1>1. Init => Abstract!Init
  BY DEF Init, FileInit, Abstract!Init
<1>2. IInv /\ [Next]_vars => [Abstract!Next]_(Abstract!fileVars)
  BY StepsAreAtomic DEF Abstract!fileVars
<1> QED BY <1>1, <1>2, Inductive, PTL DEF Spec, FilesAreAtomic, Abstract!Spec

-----------------------------------------------------------------------------
(***************************************************************************)
(* Runs that do not overlap, fail or die, over files nobody else touches.  *)
(***************************************************************************)
Alone == \A q, r \in Runner : ~Quiet(q) /\ ~Quiet(r) => q = r

\* A token with its hash, and either no canary at all or an armed one.
Whole == disk["token"] \in Gen /\ disk["hash"] = disk["token"]

Sound == \/ Whole /\ Readable("armed")
         \/ ~Readable("token") /\ ~Readable("hash") /\ ~Readable("armed")

Entry(p, g) == [path |-> p, data |-> g]
Writes(g) == <<Entry("token", g), Entry("hash", g), Entry("armed", 0)>>

\* What is left of the writes tells what is on the disk.
Halfway(q) ==
  \/ Sound /\ \E g \in Gen : q = Writes(g)
  \/ \E g \in Gen : q = <<Entry("hash", g), Entry("armed", 0)>> /\ disk["token"] = g
  \/ Whole /\ q = <<Entry("armed", 0)>>

\* What c has read is what is there.
Steady(c) ==
  /\ c.at \in {"hash", "armed"} => c.token = Readable("token")
  /\ c.at = "armed" => c.hash = Readable("hash")
  /\ c.at \in {"seal", "compare"} => Whole
  /\ c.at = "compare" => c.expected = disk["hash"]
  /\ c.at \in {"decoy", "create", "fill", "judge", "read"} => c.seal = "intact"

\* An empty decoy is one its maker is about to fill, and one that a check has
\* seen is there.
DecoyCalm ==
  /\ decoy # Bad
  /\ \A r \in Runner : run[r].at = "read" => decoy = "ours"
  /\ decoy = "empty" => \E r \in Runner : run[r].at = "fill"

Undisturbed ==
  /\ Alone
  /\ (\A r \in Runner : ~Writing(r)) => Sound
  /\ \A r \in Runner : Writing(r) => Halfway(todo[r])
  /\ \A r \in Runner : (~Writing(r) => Steady(run[r])) /\ run[r].verdict # "alert"
  /\ DecoyCalm

\* No two ran at once, none died or failed, and nobody has touched a canary.
Smooth == smooth /\ ~meddled
CalmOK == Smooth => Undisturbed

\* A reset's queue, and a first check's, entry by entry.
LEMMA WritesAll ==
  ASSUME NEW g \in Gen
  PROVE  Seal(g) \o Arm = Writes(g)
<1>1. Entry("token", g) \in Abstract!Write /\ Entry("hash", g) \in Abstract!Write
  BY EntryType, TripwireAssumption DEF Entry
<1>2. Entry("armed", 0) \in Abstract!Write
  BY EntryType, TripwireAssumption DEF Entry, Gen
<1> DEFINE s == <<Entry("token", g), Entry("hash", g)>>
           t == <<Entry("armed", 0)>>
<1>3. s \in Seq(Abstract!Write) /\ t \in Seq(Abstract!Write) /\ Writes(g) \in Seq(Abstract!Write)
  BY <1>1, <1>2 DEF Writes
<1>4. /\ Len(s) = 2 /\ s[1] = Entry("token", g) /\ s[2] = Entry("hash", g)
      /\ Len(t) = 1 /\ t[1] = Entry("armed", 0)
      /\ Len(Writes(g)) = 3 /\ Writes(g)[1] = Entry("token", g)
      /\ Writes(g)[2] = Entry("hash", g) /\ Writes(g)[3] = Entry("armed", 0)
  BY DEF Writes
<1>5. Seal(g) = s /\ Arm = t
  BY DEF Seal, Arm, Entry
<1> HIDE DEF s, t
<1>6. /\ s \o t \in Seq(Abstract!Write)
      /\ Len(s \o t) = 3
      /\ (s \o t)[1] = Entry("token", g) /\ (s \o t)[2] = Entry("hash", g)
      /\ (s \o t)[3] = Entry("armed", 0)
  <2>1. /\ s \o t \in Seq(Abstract!Write)
        /\ Len(s \o t) = Len(s) + Len(t)
        /\ \A i \in 1 .. Len(s) + Len(t) : (s \o t)[i] = IF i <= Len(s) THEN s[i] ELSE t[i - Len(s)]
    BY <1>3, ConcatProperties, ZenonT(30)
  <2>2. \A i \in 1..3 : (s \o t)[i] = IF i <= 2 THEN s[i] ELSE t[i - 2]
    BY <1>4, <2>1
  <2> QED BY <1>4, <2>1, <2>2
<1>7. \A i \in 1..3 : (s \o t)[i] = Writes(g)[i]
  BY <1>4, <1>6
<1> QED BY <1>3, <1>4, <1>5, <1>6, <1>7, SeqEqual

\* Whoever runs is alone.
LEMMA RestQuiet ==
  ASSUME IInv, Undisturbed, NEW r \in Runner, ~Quiet(r) \/ Writing(r)
  PROVE  \A q \in Runner \ {r} : Quiet(q)
  BY DEF Undisturbed, Alone, IInv, RunsOK, Writing, Quiet

LEMMA QuietWrites ==
  ASSUME IInv, NEW r \in Runner, Quiet(r)
  PROVE  ~Writing(r)
  BY DEF IInv, RunsOK, Writing, Quiet

LEMMA DecoyMade ==
  ASSUME Undisturbed, NEW r \in Runner, \A q \in Runner \ {r} : Quiet(q), run[r].at # "fill"
  PROVE  decoy # "empty"
  BY DEF Undisturbed, DecoyCalm, Quiet

\* A step of r's that writes no file.
LEMMA CalmStep ==
  ASSUME IInv, Undisturbed, NEW r \in Runner, \A q \in Runner \ {r} : Quiet(q), ~Writing(r),
         NEW c \in Check, run' = [run EXCEPT ![r] = c], UNCHANGED fileVars,
         Steady(c), c.verdict # "alert",
         decoy' # Bad, decoy' = "empty" => c.at = "fill", c.at = "read" => decoy' = "ours"
  PROVE  Undisturbed'
<1>1. /\ run'[r] = c /\ \A q \in Runner \ {r} : run'[q] = run[q]
  BY DEF IInv, RunsOK
<1>2. UNCHANGED <<disk, todo>>
  BY DEF fileVars
<1>3. Alone'
  BY <1>1 DEF Alone, Quiet
<1>4. (Sound <=> Sound') /\ (Whole <=> Whole')
  BY <1>2 DEF Sound, Whole, Readable
<1>5. \A q \in Runner : ~Writing(q)
  BY QuietWrites
<1>6. \A q \in Runner : ~Writing(q)'
  BY <1>2, <1>5 DEF Writing
<1>7. Steady(run[r])'
  BY <1>1, <1>2, <1>4 DEF Steady, Readable
<1>8. \A q \in Runner \ {r} : Steady(run[q])'
  BY <1>1 DEF Steady, Quiet
<1>9. DecoyCalm'
  BY <1>1 DEF DecoyCalm, Quiet
<1>10. Sound'
  BY <1>4, <1>5 DEF Undisturbed
<1>11. \A q \in Runner : run'[q].verdict # "alert"
  BY <1>1 DEF Undisturbed
<1> QED BY <1>3, <1>6, <1>7, <1>8, <1>9, <1>10, <1>11 DEF Undisturbed

\* r begins to seal.
LEMMA CalmAsk ==
  ASSUME IInv, Undisturbed, NEW r \in Runner, \A q \in Runner \ {r} : Quiet(q), ~Writing(r),
         NEW g \in Gen, todo' = [todo EXCEPT ![r] = Seal(g) \o Arm], UNCHANGED <<disk, decoy>>,
         run'[r].verdict # "alert", run[r].at # "fill", run'[r].at # "read",
         \A q \in Runner \ {r} : run'[q].at = run[q].at /\ run'[q].verdict = run[q].verdict
  PROVE  Undisturbed'
<1>1. /\ todo'[r] = Writes(g)
      /\ \A q \in Runner \ {r} : todo'[q] = <<>>
  BY WritesAll, QuietWrites DEF IInv, FilesOK, Writing
<1>2. Sound
  BY QuietWrites DEF Undisturbed
<1>3. Sound'
  BY <1>2 DEF Sound, Whole, Readable
<1>4. Alone'
  BY DEF Alone, Quiet
<1>5. Writing(r)'
  BY <1>1 DEF Writing, Writes
<1>6. \A q \in Runner \ {r} : ~Writing(q)' /\ Steady(run[q])'
  BY <1>1 DEF Writing, Steady, Quiet
<1>7. \A q \in Runner : run'[q].verdict # "alert"
  BY DEF Undisturbed
<1>8. DecoyCalm'
  BY DecoyMade DEF DecoyCalm, Undisturbed, Quiet
<1>9. Halfway(todo[r])'
  BY <1>1, <1>3 DEF Halfway
<1> QED BY <1>4, <1>5, <1>6, <1>7, <1>8, <1>9 DEF Undisturbed

LEMMA StartCheckCalm ==
  ASSUME IInv, CalmOK, NEW r \in Runner, StartCheck(r), Smooth'
  PROVE  Undisturbed'
<1> DEFINE c == [Idle EXCEPT !.at = "token", !.known = tampered]
<1>1. Undisturbed /\ \A q \in Runner \ {r} : Quiet(q)
  BY DEF StartCheck, Overlaps, Others, Smooth, CalmOK
<1>2. c \in Check
  <2>1. [Idle EXCEPT !.at = "token"] \in Check
    BY IdleType, AtType DEF Label
  <2>2. [[Idle EXCEPT !.at = "token"] EXCEPT !.known = tampered] \in Check
    BY <2>1, KnownType DEF IInv, RunsOK
  <2> QED BY <2>2
<1>3. c.at = "token" /\ c.verdict = None
  BY Zenon DEF Idle
<1>4. ~Writing(r) /\ decoy # "empty" /\ decoy # Bad
  BY <1>1, QuietWrites, DecoyMade DEF StartCheck, Quiet, Undisturbed, DecoyCalm
<1>5. Steady(c) /\ c.verdict # "alert" /\ c.at # "read"
  BY <1>3, TripwireAssumption DEF Steady
<1>6. run' = [run EXCEPT ![r] = c] /\ UNCHANGED <<fileVars, decoy>>
  BY DEF StartCheck, Others
<1> HIDE DEF c
<1> QED BY <1>1, <1>2, <1>4, <1>5, <1>6, CalmStep

\* What a step of a runner that is not quiet may assume of the rest.
LEMMA CalmRun ==
  ASSUME IInv, CalmOK, NEW r \in Runner, ~Quiet(r), ~Writing(r), Smooth
  PROVE  /\ Undisturbed /\ (\A q \in Runner \ {r} : Quiet(q)) /\ Sound
         /\ run[r] \in Check /\ Steady(run[r]) /\ run[r].verdict # "alert"
         /\ decoy # Bad /\ (run[r].at # "fill" => decoy # "empty")
<1>1. Undisturbed
  BY DEF CalmOK
<1>2. \A q \in Runner \ {r} : Quiet(q)
  BY <1>1, RestQuiet
<1>3. Sound
  BY <1>1, <1>2, QuietWrites DEF Undisturbed
<1>4. decoy # Bad /\ (run[r].at # "fill" => decoy # "empty")
  BY <1>1, <1>2, DecoyMade DEF Undisturbed, DecoyCalm
<1> QED BY <1>1, <1>2, <1>3, <1>4 DEF Undisturbed, IInv, RunsOK

LEMMA ReadsCalm ==
  ASSUME IInv, CalmOK, NEW r \in Runner, SeeToken(r) \/ SeeHash(r) \/ ReadHash(r), Smooth'
  PROVE  Undisturbed'
<1>1. /\ UNCHANGED <<fileVars, Others, smooth>> /\ Smooth /\ ~Writing(r) /\ ~Quiet(r)
      /\ run[r].at \in {"token", "hash", "seal"}
  <2>1. UNCHANGED <<fileVars, Others, smooth>>
    BY DEF SeeToken, SeeHash, ReadHash
  <2>2. At(r, "token") \/ At(r, "hash") \/ At(r, "seal")
    BY DEF SeeToken, SeeHash, ReadHash
  <2> QED BY <2>1, <2>2 DEF Others, Smooth, At, Quiet
<1>2. /\ Undisturbed /\ (\A q \in Runner \ {r} : Quiet(q)) /\ Sound
      /\ run[r] \in Check /\ Steady(run[r]) /\ run[r].verdict # "alert"
      /\ decoy # Bad /\ decoy # "empty"
  BY <1>1, CalmRun
<1>3. ASSUME NEW c \in Check, run' = [run EXCEPT ![r] = c], Steady(c), c.verdict # "alert",
             c.at # "read"
      PROVE  Undisturbed'
  BY <1>1, <1>2, <1>3, CalmStep DEF Others
<1>4. CASE SeeToken(r)
  <2> DEFINE c == [run[r] EXCEPT !.at = "hash", !.token = Readable("token")]
  <2>1. c \in Check
    <3>1. [run[r] EXCEPT !.at = "hash"] \in Check
      BY <1>2, AtType DEF Label
    <3> QED BY <3>1, TokenType DEF Readable
  <2>2. c.at = "hash" /\ c.token = Readable("token") /\ c.verdict = run[r].verdict
    BY <1>2 DEF Check
  <2>3. run' = [run EXCEPT ![r] = c]
    BY <1>4 DEF SeeToken, IInv, RunsOK
  <2> HIDE DEF c
  <2>4. Steady(c)
    BY <2>2 DEF Steady
  <2> QED BY <1>2, <1>3, <2>1, <2>2, <2>3, <2>4
<1>5. CASE SeeHash(r)
  <2> DEFINE c == [run[r] EXCEPT !.at = "armed", !.hash = Readable("hash")]
  <2>1. c \in Check
    <3>1. [run[r] EXCEPT !.at = "armed"] \in Check
      BY <1>2, AtType DEF Label
    <3> QED BY <3>1, HashType DEF Readable
  <2>2. /\ c.at = "armed" /\ c.hash = Readable("hash") /\ c.verdict = run[r].verdict
        /\ c.token = run[r].token
    BY <1>2 DEF Check
  <2>3. run' = [run EXCEPT ![r] = c]
    BY <1>5 DEF SeeHash, IInv, RunsOK
  <2>4. run[r].token = Readable("token")
    BY <1>2, <1>5 DEF Steady, SeeHash, At
  <2> HIDE DEF c
  <2>5. Steady(c)
    BY <2>2, <2>4 DEF Steady
  <2> QED BY <1>2, <1>3, <2>1, <2>2, <2>3, <2>5
<1>6. CASE ReadHash(r)
  <2> DEFINE e == IF Readable("hash") THEN disk["hash"] ELSE None
             c == [run[r] EXCEPT !.at = "compare", !.expected = e]
  <2>1. Whole
    BY <1>2, <1>6 DEF Steady, ReadHash, At
  <2>2. e = disk["hash"]
    BY <2>1, FileAssumption, TripwireAssumption DEF Whole, Readable
  <2>3. c \in Check
    <3>1. [run[r] EXCEPT !.at = "compare"] \in Check
      BY <1>2, AtType DEF Label
    <3>2. e \in Gen \cup {Bad, None}
      BY <2>1, <2>2 DEF Whole
    <3> HIDE DEF e
    <3> QED BY <3>1, <3>2, ExpectedType
  <2>4. c.at = "compare" /\ c.expected = e /\ c.verdict = run[r].verdict
    BY <1>2 DEF Check
  <2>5. run' = [run EXCEPT ![r] = c]
    BY <1>6 DEF ReadHash, IInv, RunsOK
  <2> HIDE DEF c, e
  <2>6. Steady(c)
    BY <2>1, <2>2, <2>4 DEF Steady
  <2> QED BY <1>2, <1>3, <2>3, <2>4, <2>5, <2>6
<1> QED BY <1>4, <1>5, <1>6

LEMMA SeeArmedCalm ==
  ASSUME IInv, CalmOK, NEW r \in Runner, SeeArmed(r), Smooth'
  PROVE  Undisturbed'
<1>1. /\ UNCHANGED <<disk, tmp, Others, smooth>> /\ Smooth /\ ~Writing(r) /\ ~Quiet(r)
      /\ run[r].at = "armed"
  BY DEF SeeArmed, Others, Smooth, At, Quiet
<1>2. /\ Undisturbed /\ (\A q \in Runner \ {r} : Quiet(q)) /\ Sound
      /\ run[r] \in Check /\ Steady(run[r]) /\ run[r].verdict # "alert"
      /\ decoy # Bad /\ decoy # "empty"
  BY <1>1, CalmRun
<1>3. run[r].token = Readable("token") /\ run[r].hash = Readable("hash")
  BY <1>1, <1>2 DEF Steady
<1> DEFINE c == Forgets(run[r], "seal")
<1>4. c \in Check /\ c.at = "seal" /\ c.verdict = run[r].verdict
  <2>1. c \in Check
    BY <1>2, ForgetsType DEF Label
  <2>2. c.at = "seal" /\ c.verdict = run[r].verdict
    BY <1>2 DEF Check, Forgets
  <2> QED BY <2>1, <2>2
<1>5. CASE Readable("armed")
  <2>1. Whole
    BY <1>2, <1>5 DEF Sound
  <2>2. run[r].token /\ run[r].hash
    BY <1>3, <2>1, FileAssumption, TripwireAssumption DEF Whole, Readable
  <2>3. run' = [run EXCEPT ![r] = c] /\ UNCHANGED fileVars
    BY <1>1, <1>5, <2>2 DEF SeeArmed, fileVars, IInv, RunsOK
  <2> HIDE DEF c
  <2>4. Steady(c)
    BY <1>4, <2>1 DEF Steady
  <2> QED BY <1>1, <1>2, <1>4, <2>3, <2>4, CalmStep DEF Others
<1>6. CASE ~Readable("armed")
  <2>1. ~run[r].token
    BY <1>2, <1>3, <1>6 DEF Sound
  <2>2. todo' = [todo EXCEPT ![r] = Seal(0) \o Arm]
    BY <1>6, <2>1 DEF SeeArmed
  <2>3. /\ run'[r] = c
        /\ \A q \in Runner \ {r} : run'[q] = run[q]
    BY <1>6 DEF SeeArmed, IInv, RunsOK
  <2>4. 0 \in Gen
    BY TripwireAssumption DEF Gen
  <2> HIDE DEF c
  <2> QED BY <1>1, <1>2, <1>4, <2>2, <2>3, <2>4, CalmAsk DEF Others
<1> QED BY <1>5, <1>6

LEMMA ReadTokenCalm ==
  ASSUME IInv, CalmOK, NEW r \in Runner, ReadToken(r), Smooth'
  PROVE  Undisturbed'
<1>1. /\ UNCHANGED <<fileVars, Others, smooth>> /\ Smooth /\ ~Writing(r) /\ ~Quiet(r)
      /\ run[r].at = "compare"
  BY DEF ReadToken, Others, Smooth, At, Quiet
<1>2. /\ Undisturbed /\ (\A q \in Runner \ {r} : Quiet(q)) /\ Sound
      /\ run[r] \in Check /\ Steady(run[r]) /\ run[r].verdict # "alert"
      /\ decoy # Bad /\ decoy # "empty"
  BY <1>1, CalmRun
<1>3. Whole /\ run[r].expected = disk["hash"]
  BY <1>1, <1>2 DEF Steady
<1> DEFINE c == [Forgets(run[r], "decoy") EXCEPT !.seal = "intact"]
<1>4. run' = [run EXCEPT ![r] = c]
  BY <1>3 DEF ReadToken, Whole, IInv, RunsOK
<1>5. c \in Check
  <2>1. Forgets(run[r], "decoy") \in Check
    BY <1>2, ForgetsType DEF Label
  <2> QED BY <2>1, SealType
<1>6. c.at = "decoy" /\ c.seal = "intact" /\ c.verdict = run[r].verdict
  BY <1>2 DEF Check, Forgets
<1> HIDE DEF c
<1>7. Steady(c)
  BY <1>6 DEF Steady
<1> QED BY <1>1, <1>2, <1>4, <1>5, <1>6, <1>7, CalmStep DEF Others

\* A verdict over an intact seal, and a decoy nobody has wiped.
LEMMA ConcludeCalm ==
  ASSUME IInv, CalmOK, Smooth, NEW r \in Runner, NEW d \in {Missing, "ours", "theirs"},
         ~Writing(r), run[r].at \in {"create", "judge", "read"}, Conclude(r, d),
         UNCHANGED <<fileVars, decoy>>
  PROVE  Undisturbed'
<1>1. ~Quiet(r)
  BY DEF Quiet
<1>2. /\ Undisturbed /\ (\A q \in Runner \ {r} : Quiet(q))
      /\ run[r] \in Check /\ Steady(run[r])
      /\ decoy # Bad /\ decoy # "empty"
  BY <1>1, CalmRun
<1>3. Judged(run[r].seal, d) \in {"secure", "warning"}
  BY <1>2, FileAssumption, TripwireAssumption DEF Steady, Judged
<1> DEFINE v == Judged(run[r].seal, d)
           c == [Idle EXCEPT !.at = "done", !.verdict = v, !.known = run[r].known]
<1>4. c \in Check
  BY ConcludeType
<1>5. c.at = "done" /\ c.verdict = v
  BY Zenon DEF Idle
<1>6. run' = [run EXCEPT ![r] = c]
  BY DEF Conclude
<1> HIDE DEF c
<1>7. Steady(c) /\ c.verdict # "alert" /\ c.at # "read"
  BY <1>3, <1>5 DEF Steady
<1> QED BY <1>2, <1>4, <1>6, <1>7, CalmStep

LEMMA DecoyStepsCalm ==
  ASSUME IInv, CalmOK, NEW r \in Runner,
         SeeDecoy(r) \/ CreateDecoy(r) \/ FillDecoy(r) \/ JudgeDecoy(r) \/ ReadDecoy(r)
         \/ ResetDone(r), Smooth'
  PROVE  Undisturbed'
<1>1. /\ UNCHANGED <<fileVars, meddled>> /\ Smooth /\ ~Writing(r) /\ ~Quiet(r)
      /\ run[r].at \in {"decoy", "create", "fill", "judge", "read", "reset"}
  BY DEF SeeDecoy, CreateDecoy, FillDecoy, JudgeDecoy, ReadDecoy, ResetDone, Others, Smooth, At, Quiet, IInv, RunsOK
<1>2. /\ Undisturbed /\ (\A q \in Runner \ {r} : Quiet(q)) /\ Sound
      /\ run[r] \in Check /\ Steady(run[r]) /\ run[r].verdict # "alert"
      /\ decoy # Bad /\ (run[r].at # "fill" => decoy # "empty")
  BY <1>1, CalmRun
<1>3. ASSUME NEW l \in {"create", "judge", "read", "fill", "done"},
             run' = [run EXCEPT ![r].at = l], run[r].at = "reset" => l = "done",
             decoy' # Bad, decoy' = "empty" => l = "fill", l = "read" => decoy' = "ours"
      PROVE  Undisturbed'
  <2> DEFINE c == [run[r] EXCEPT !.at = l]
  <2>1. c \in Check
    BY <1>2, AtType DEF Label
  <2>2. c.at = l /\ c.seal = run[r].seal /\ c.verdict = run[r].verdict
    BY <1>2 DEF Check
  <2>3. run' = [run EXCEPT ![r] = c]
    BY <1>3 DEF IInv, RunsOK
  <2>4. run[r].at # "reset" => run[r].seal = "intact"
    BY <1>1, <1>2 DEF Steady
  <2> HIDE DEF c
  <2>5. Steady(c)
    BY <1>3, <2>2, <2>4 DEF Steady
  <2> QED BY <1>1, <1>2, <1>3, <2>1, <2>2, <2>3, <2>5, CalmStep
<1>4. CASE SeeDecoy(r)
  BY <1>2, <1>3, <1>4 DEF SeeDecoy, At, Goes, Others
<1>5. CASE CreateDecoy(r)
  <2>1. CASE decoy = Missing
    BY <1>3, <1>5, <2>1, TripwireAssumption DEF CreateDecoy, At, Goes
  <2>2. CASE decoy # Missing
    BY <1>1, <1>5, <2>2, ConcludeCalm DEF CreateDecoy, At
  <2> QED BY <2>1, <2>2
<1>6. CASE FillDecoy(r)
  <2>1. decoy' = (IF decoy = "empty" THEN "ours" ELSE decoy) /\ Goes(r, "judge")
    BY <1>6 DEF FillDecoy, Smooth
  <2> QED BY <1>2, <1>3, <1>6, <2>1, TripwireAssumption DEF FillDecoy, At, Goes
<1>7. CASE JudgeDecoy(r)
  <2>1. CASE decoy \in {Missing, "theirs"}
    BY <1>1, <1>7, <2>1, ConcludeCalm DEF JudgeDecoy, At, Others
  <2>2. CASE decoy \notin {Missing, "theirs"}
    <3>1. decoy = "ours"
      BY <1>2, <1>7, <2>2 DEF JudgeDecoy, At, IInv, RunsOK
    <3> QED BY <1>2, <1>3, <1>7, <2>2, <3>1 DEF JudgeDecoy, At, Goes, Others
  <2> QED BY <2>1, <2>2
<1>9. CASE ReadDecoy(r)
  <2>1. decoy = "ours"
    BY <1>2, <1>9 DEF ReadDecoy, At, Undisturbed, DecoyCalm
  <2> QED BY <1>1, <1>9, <2>1, ConcludeCalm DEF ReadDecoy, At, Others
<1>8. CASE ResetDone(r)
  BY <1>2, <1>3, <1>8 DEF ResetDone, At, Goes, Others
<1> QED BY <1>4, <1>5, <1>6, <1>7, <1>8, <1>9

LEMMA ResetCalm ==
  ASSUME IInv, CalmOK, NEW r \in Runner, NEW g \in Gen, Reset(r, g), Smooth'
  PROVE  Undisturbed'
<1>1. /\ Undisturbed /\ \A q \in Runner \ {r} : Quiet(q)
      /\ Quiet(r) /\ ~Writing(r) /\ UNCHANGED <<disk, decoy>>
  BY QuietWrites DEF Reset, Overlaps, Smooth, CalmOK
<1>2. run'[r] = [Idle EXCEPT !.at = "reset"]
  BY DEF Reset
<1>3. run'[r].verdict = None
  BY <1>2, Zenon DEF Idle
<1>4. \A q \in Runner \ {r} : run'[q].at = run[q].at /\ run'[q].verdict = run[q].verdict
  <2> TAKE q \in Runner \ {r}
  <2>1. run'[q] = [run[q] EXCEPT !.known = FALSE] /\ run[q] \in Check
    BY DEF Reset, IInv, RunsOK
  <2> QED BY <2>1 DEF Check
<1>5. todo' = [todo EXCEPT ![r] = Seal(g) \o Arm] /\ run[r].at # "fill"
      /\ run'[r].verdict # "alert" /\ run'[r].at = "reset"
  BY <1>1, <1>2, <1>3, TripwireAssumption, Zenon DEF Reset, Quiet, Idle
<1> QED BY <1>1, <1>4, <1>5, CalmAsk

LEMMA RenameCalm ==
  ASSUME IInv, CalmOK, Smooth, NEW r \in Runner, RenameTmp(r), UNCHANGED <<run, decoy>>
  PROVE  Undisturbed'
<1>1. Writing(r) /\ Undisturbed /\ Halfway(todo[r])
  BY DEF RenameTmp, CalmOK, Undisturbed
<1>2. \A q \in Runner \ {r} : Quiet(q) /\ todo[q] = <<>>
  BY <1>1, RestQuiet, QuietWrites DEF Writing
<1>3. /\ run[r].at \in {"seal", "reset"} /\ tmp[r] = Head(todo[r]).data
  BY <1>1 DEF IInv, RunsOK, FilesOK, RenameTmp, Writing
<1>4. /\ disk' = [disk EXCEPT ![Head(todo[r]).path] = Head(todo[r]).data]
      /\ todo'[r] = Tail(todo[r])
      /\ \A q \in Runner \ {r} : todo'[q] = <<>>
  BY <1>2, <1>3 DEF RenameTmp, Next1, IInv, FilesOK
<1>5. disk \in [Path -> Content \cup {Missing}] /\ {"token", "hash", "armed"} = Path
  BY TripwireAssumption DEF IInv, FilesOK
<1>6. \/ Writing(r)' /\ Halfway(todo[r])'
      \/ ~Writing(r)' /\ Sound' /\ Whole'
  <2>1. CASE Sound /\ \E g \in Gen : todo[r] = Writes(g)
    <3>1. PICK g \in Gen : todo[r] = Writes(g)
      BY <2>1
    <3>2. Head(todo[r]) = Entry("token", g) /\ Tail(todo[r]) = <<Entry("hash", g), Entry("armed", 0)>>
      BY <3>1 DEF Writes
    <3>3. todo'[r] = <<Entry("hash", g), Entry("armed", 0)>> /\ disk'["token"] = g
      BY <1>4, <1>5, <3>2 DEF Entry
    <3>4. Writing(r)'
      BY <3>3 DEF Writing
    <3> QED BY <3>3, <3>4 DEF Halfway
  <2>2. CASE \E g \in Gen : todo[r] = <<Entry("hash", g), Entry("armed", 0)>> /\ disk["token"] = g
    <3>1. PICK g \in Gen : todo[r] = <<Entry("hash", g), Entry("armed", 0)>> /\ disk["token"] = g
      BY <2>2
    <3>2. Head(todo[r]) = Entry("hash", g) /\ Tail(todo[r]) = <<Entry("armed", 0)>>
      BY <3>1
    <3>3. todo'[r] = <<Entry("armed", 0)>> /\ disk'["hash"] = g /\ disk'["token"] = g
      BY <1>4, <1>5, <3>1, <3>2 DEF Entry
    <3>4. Writing(r)' /\ Whole'
      BY <3>3 DEF Writing, Whole
    <3> QED BY <3>3, <3>4 DEF Halfway
  <2>3. CASE Whole /\ todo[r] = <<Entry("armed", 0)>>
    <3>1. Head(todo[r]) = Entry("armed", 0) /\ Tail(todo[r]) = <<>>
      BY <2>3
    <3>2. todo'[r] = <<>> /\ disk'["armed"] = 0
          /\ disk'["token"] = disk["token"] /\ disk'["hash"] = disk["hash"]
      BY <1>4, <1>5, <3>1 DEF Entry
    <3>3. 0 # Missing
      BY FileAssumption, TripwireAssumption DEF Gen
    <3> QED BY <2>3, <3>2, <3>3 DEF Whole, Sound, Readable, Writing
  <2> QED BY <1>1, <2>1, <2>2, <2>3 DEF Halfway
<1>7. \A q \in Runner \ {r} : ~Writing(q)' /\ Steady(run[q])'
  BY <1>2, <1>4 DEF Writing, Steady, Quiet
<1>8. ~Writing(r)' => Steady(run[r])'
  BY <1>3, <1>6 DEF Steady
<1>9. Alone' /\ DecoyCalm'
  BY <1>1 DEF Undisturbed, Alone, Quiet, DecoyCalm
<1> QED BY <1>1, <1>6, <1>7, <1>8, <1>9 DEF Undisturbed

LEMMA InitCalm == Init => CalmOK
<1> SUFFICES ASSUME Init PROVE Undisturbed
  BY DEF CalmOK
<1>1. Idle.at = "idle" /\ Idle.verdict = None
  BY Zenon DEF Idle
<1>2. \A r \in Runner : run[r] = Idle /\ ~Writing(r)
  BY DEF Init, FileInit, Writing
<1>3. Sound
  BY TripwireAssumption DEF Init, FileInit, Sound, Readable
<1>4. DecoyCalm
  BY <1>1, <1>2, FileAssumption, TripwireAssumption DEF Init, DecoyCalm
<1>5. \A r \in Runner : Steady(run[r]) /\ run[r].verdict # "alert" /\ Quiet(r)
  BY <1>1, <1>2, TripwireAssumption DEF Steady, Quiet
<1> QED BY <1>2, <1>3, <1>4, <1>5 DEF Undisturbed, Alone

LEMMA NextCalm == IInv /\ CalmOK /\ [Next]_vars => CalmOK'
<1> SUFFICES ASSUME IInv, CalmOK, [Next]_vars, Smooth'
             PROVE  Undisturbed'
  BY DEF CalmOK
<1>0. ASSUME Smooth, UNCHANGED <<disk, todo, run>>, DecoyCalm'
      PROVE  Undisturbed'
  BY <1>0 DEF CalmOK, Undisturbed, Alone, Quiet, Writing, Sound, Whole, Readable, Halfway, Steady
<1>1. CASE UNCHANGED vars
  <2>1. DecoyCalm'
    BY <1>1 DEF vars, Smooth, CalmOK, Undisturbed, DecoyCalm
  <2> QED BY <1>0, <1>1, <2>1 DEF vars, fileVars, Smooth
<1>2. CASE Next
  <2>1. ASSUME NEW r \in Runner, StartCheck(r) \/ SeeToken(r) \/ SeeHash(r) \/ SeeArmed(r)
        PROVE  Undisturbed'
    BY <2>1, StartCheckCalm, ReadsCalm, SeeArmedCalm
  <2>2. ASSUME NEW r \in Runner,
               ReadHash(r) \/ ReadToken(r) \/ SeeDecoy(r) \/ CreateDecoy(r) \/ FillDecoy(r) \/ JudgeDecoy(r)
               \/ ReadDecoy(r)
        PROVE  Undisturbed'
    BY <2>2, ReadsCalm, ReadTokenCalm, DecoyStepsCalm
  <2>3. ASSUME NEW r \in Runner, (\E g \in Gen \ {0} : Reset(r, g)) \/ ResetDone(r)
        PROVE  Undisturbed'
    BY <2>3, ResetCalm, DecoyStepsCalm
  <2>4. ASSUME NEW r \in Runner, WriteStep(r)
        PROVE  Undisturbed'
    <3>1. UNCHANGED <<run, decoy, meddled>> /\ smooth' => smooth
      BY <2>4 DEF WriteStep, Others
    <3>2. CASE CreateTmp(r) \/ FillTmp(r)
      <4>1. UNCHANGED <<disk, todo>> /\ Smooth /\ DecoyCalm'
        BY <2>4, <3>2 DEF CreateTmp, FillTmp, WriteStep, Others, Smooth, CalmOK, Undisturbed, DecoyCalm
      <4> QED BY <1>0, <2>4, <4>1 DEF WriteStep
    <3>3. CASE RenameTmp(r) /\ UNCHANGED smooth
      BY <2>4, <3>3, RenameCalm DEF WriteStep, Others, Smooth
    <3> QED BY <2>4, <3>2, <3>3 DEF WriteStep, Smooth
  <2>5. ASSUME NEW r \in Runner, Crash(r) PROVE Undisturbed'
    BY <2>5 DEF Crash, Smooth
  <2>6. ASSUME NEW p \in {"token", "hash"}, NEW d \in {Bad, Missing}, Tamper(p, d)
        PROVE  Undisturbed'
    BY <2>6 DEF Tamper, Smooth
  <2>7. ASSUME NEW d \in {Bad, Missing, "theirs"}, TamperDecoy(d) PROVE Undisturbed'
    <3>1. /\ Smooth /\ d # Bad /\ decoy' = d /\ UNCHANGED <<disk, todo, run>>
          /\ \A r \in Runner : ~At(r, "read")
      BY <2>7 DEF TamperDecoy, fileVars, Smooth, IInv, RunsOK
    <3>2. \A r \in Runner : run[r].at # "read"
      BY <3>1 DEF At, Writing, IInv, RunsOK
    <3>3. DecoyCalm'
      BY <3>1, <3>2, FileAssumption, TripwireAssumption DEF DecoyCalm
    <3> QED BY <1>0, <3>1, <3>3
  <2> QED BY <1>2, <2>1, <2>2, <2>3, <2>4, <2>5, <2>6, <2>7 DEF Next
<1> QED BY <1>1, <1>2

\* "Canary token modified or wiped by untrusted process!" is never raised over
\* canaries nobody has changed or taken from under a check, by checks and resets
\* that do not overlap, fail or die, however many there are: what a check reads in
\* several steps is a pair as a reset left it, and the decoy is its own.
THEOREM NoFalseAlert == Spec => []SmoothAlertMeansTamper
<1>1. CalmOK => SmoothAlertMeansTamper
  <2> SUFFICES ASSUME CalmOK, smooth, NEW r \in Runner, run[r].verdict = "alert", ~meddled
               PROVE  FALSE
    BY DEF SmoothAlertMeansTamper, AlertMeansTamper
  <2> QED BY DEF CalmOK, Smooth, Undisturbed
<1> QED BY <1>1, InitCalm, NextCalm, Inductive, PTL DEF Spec
=============================================================================
