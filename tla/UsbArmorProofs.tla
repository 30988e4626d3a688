--------------------------- MODULE UsbArmorProofs ---------------------------
(***************************************************************************)
(* Theorems about UsbArmor, for any processes, ports, devices, baselines   *)
(* and retry window.                                                       *)
(***************************************************************************)
EXTENDS UsbArmor, TLAPS

-----------------------------------------------------------------------------
(* What the operators on stores, listings and failures return. *)

\* Upgrading a store from a list of fingerprints yields a store.
LEMMA UpgradeType ==
  ASSUME NEW S \in SUBSET Fingerprint, NEW D \in SUBSET Fingerprint
  PROVE  Upgrade(S, D) \in SUBSET Fingerprint
BY DEF Upgrade, Upgradable, FullEntries

\* Trusting a fingerprint yields a store.
LEMMA TrustType ==
  ASSUME NEW S \in SUBSET Fingerprint, NEW d \in Fingerprint
  PROVE  Trust(S, d) \in SUBSET Fingerprint
BY UpgradeType DEF Trust

\* The flag upgrade_legacy returns is a Boolean.
LEMMA UpgradeFlag ==
  ASSUME NEW S, NEW D
  PROVE  UpgradeChanges(S, D) \in BOOLEAN
BY DEF UpgradeChanges

\* What the baseline on disk yields when it is loaded is a store.
LEMMA LoadedType ==
  ASSUME baseline \in Baseline
  PROVE  Loaded \in SUBSET Fingerprint
BY DEF Loaded, Baseline, Parsed, Fingerprint

\* A listing holds fingerprints of connected ports.
LEMMA ListedType ==
  ASSUME port \in [Port -> PortState]
  PROVE  /\ ListedNow \in SUBSET [port : Port, fp : Fingerprint]
         /\ Connected \in SUBSET Port
<1>1. ASSUME NEW p \in Connected
      PROVE  ReadFingerprint(p) \in Fingerprint
  <2>1. port[p].dev \in Fingerprint /\ port[p].ifs \in {NoIfs} \cup SUBSET Interface
    BY <1>1, ArmorAssumption DEF Connected, PortState
  <2> QED BY <2>1 DEF ReadFingerprint, Fingerprint
<1> QED BY <1>1 DEF ListedNow, Connected

\* Saving a store leaves a readable baseline, no scan with a valid stamp, and no
\* port steady that was not.
LEMMA SaveType ==
  ASSUME steady \in [Scanner -> SUBSET Port], NEW S \in SUBSET Fingerprint, SaveBaseline(S)
  PROVE  /\ baseline' \in Baseline /\ stampOk' \in [Scanner -> BOOLEAN]
         /\ steady' \in [Scanner -> SUBSET Port]
BY DEF SaveBaseline, Saved, Baseline

\* Disturbing a port leaves the others.
LEMMA DisturbType ==
  ASSUME steady \in [Scanner -> SUBSET Port], NEW p, Disturb(p)
  PROVE  steady' \in [Scanner -> SUBSET Port]
BY DEF Disturb

\* A clock reading that gets older stays within the retry window.
LEMMA OlderType ==
  ASSUME NEW n \in 0..Retry
  PROVE  Older(n) \in 0..Retry
BY ArmorAssumption DEF Older

\* Ageing failures keeps their types.
LEMMA AgedType ==
  ASSUME NEW F \in SUBSET Failure
  PROVE  Aged(F) \in SUBSET Failure
BY OlderType DEF Aged, Failure

-----------------------------------------------------------------------------
(* Type correctness *)

\* A step that moves one scanner to a scan label, and leaves it with memory of the
\* right type, keeps control and memories well typed.
LEMMA ScanControl ==
  ASSUME ControlTypeOK, NEW s \in Scanner, NEW m \in Memory, NEW l \in ScanLabels,
         Remember(s, m) \/ UNCHANGED mem,
         Goto(s, l) \/ UNCHANGED pc
  PROVE  ControlTypeOK'
BY ArmorAssumption DEF ControlTypeOK, Remember, Goto, Proc

\* The same of a truster: a step that moves it to a trust label keeps control typed.
LEMMA TrustControl ==
  ASSUME ControlTypeOK, NEW t \in Truster, NEW m \in Memory, NEW l \in TrustLabels,
         Remember(t, m) \/ UNCHANGED mem,
         Goto(t, l) \/ UNCHANGED pc
  PROVE  ControlTypeOK'
BY ArmorAssumption DEF ControlTypeOK, Remember, Goto, Proc

\* What a process forgets its pass for is a memory, too.
LEMMA NoMemoryType == NoMemory \in Memory
BY DEF NoMemory, Memory

\* Every behaviour starts with the right types.
LEMMA TypeInit == Init => TypeOK
<1> SUFFICES ASSUME Init PROVE TypeOK
  OBVIOUS
<1>1. ControlTypeOK
  BY NoMemoryType DEF Init, ControlTypeOK, Proc, ScanLabels, TrustLabels
<1>2. SharedTypeOK
  <2>1. Around \in SettingType
    BY ArmorAssumption DEF Init, Around
  <2>2. /\ port \in [Port -> PortState] /\ baseline \in Baseline
        /\ armor \in BOOLEAN
    BY <2>1 DEF Init, SettingType
  <2> QED BY <2>2 DEF Init, SharedTypeOK
<1> QED BY <1>1, <1>2, ArmorAssumption DEF Init, TypeOK


\* A scanner's step keeps every type.
LEMMA TypeScan ==
  ASSUME TypeOK, NEW s \in Scanner, ScanStep(s)
  PROVE  TypeOK'
<1> USE DEF TypeOK
<1> DEFINE m == mem[s]
<1>0. m \in Memory /\ pc[s] \in ScanLabels /\ ListedNow \in SUBSET [port : Port, fp : Fingerprint]
      /\ Connected \in SUBSET Port
  BY ListedType DEF ControlTypeOK, SharedTypeOK, Proc
<1>1. CASE StartScan(s)
  <2>1. [m EXCEPT !.existed = baseline.state # "absent"] \in Memory
    BY <1>0 DEF Memory
  <2>2. ControlTypeOK'
    BY <1>1, <2>1, ScanControl DEF StartScan, ScanLabels
  <2>3. steady' \in [Scanner -> SUBSET Port]
    BY <1>1 DEF StartScan, SteadyNow, Connected
  <2> QED BY <1>1, <2>2, <2>3 DEF StartScan, SharedTypeOK, files, outside
<1>2. CASE TakeStamp(s)
  <2>2. ControlTypeOK'
    BY <1>0, <1>2, ScanControl DEF TakeStamp, ScanLabels
  <2> QED BY <1>2, <2>2 DEF TakeStamp, SharedTypeOK, files, outside
<1>3. CASE LoadBaseline(s)
  <2> DEFINE n == [m EXCEPT !.corrupt = m.existed /\ baseline.state # "readable",
                            !.store = IF m.existed THEN Loaded ELSE {}]
  <2>1. n \in Memory
    BY <1>0, LoadedType DEF Memory, SharedTypeOK
  <2>2. ControlTypeOK'
    BY <1>3, <2>1, ScanControl DEF LoadBaseline, ScanLabels
  <2> QED BY <1>3, <2>2 DEF LoadBaseline, SharedTypeOK, files, scanVars, outside
<1>4. CASE ListDevices(s)
  <2>1. [m EXCEPT !.listed = ListedNow, !.todo = Connected] \in Memory
    BY <1>0 DEF Memory
  <2>2. ControlTypeOK'
    BY <1>4, <2>1, ScanControl DEF ListDevices, ScanLabels
  <2> QED BY <1>4, <2>2 DEF ListDevices, SharedTypeOK, files, scanVars, outside
<1>5. CASE MigrateLegacy(s)
  <2> DEFINE settled == SettledOf(m.listed)
             n == [m EXCEPT !.store = Upgrade(m.store, settled),
                            !.changed = UpgradeChanges(m.store, settled)]
  <2>1. m.store \in SUBSET Fingerprint /\ settled \in SUBSET Fingerprint
    BY <1>0 DEF Memory, SettledOf
  <2>2. n \in Memory
    <3> DEFINE store == Upgrade(m.store, settled)
               changed == UpgradeChanges(m.store, settled)
    <3>1. store \in SUBSET Fingerprint
      BY <2>1, UpgradeType
    <3>2. changed \in BOOLEAN
      BY UpgradeFlag
    <3>3. [m EXCEPT !.store = store, !.changed = changed] \in Memory
      <4> HIDE DEF store, changed
      <4> QED BY <1>0, <3>1, <3>2 DEF Memory
    <3> QED BY <3>3
  <2>3. Remember(s, n) \/ UNCHANGED mem
    BY <1>5 DEF MigrateLegacy
  <2>4. Goto(s, "ready") \/ Goto(s, "judge")
    BY <1>5 DEF MigrateLegacy, Loop
  <2>5. ControlTypeOK'
    BY <2>2, <2>3, <2>4, ScanControl DEF ScanLabels
  <2> QED BY <1>5, <2>5 DEF MigrateLegacy, SharedTypeOK, files, scanVars, outside
<1>6. CASE SkipEnumerating(s)
  <2>1. PICK p \in m.todo : Remember(s, [m EXCEPT !.todo = @ \ {p}, !.pending = TRUE])
    BY <1>6 DEF SkipEnumerating
  <2>2. [m EXCEPT !.todo = @ \ {p}, !.pending = TRUE] \in Memory
    BY <1>0 DEF Memory
  <2>3. Goto(s, "ready") \/ Goto(s, "judge")
    BY <1>6 DEF SkipEnumerating, Loop
  <2>4. ControlTypeOK'
    BY <2>1, <2>2, <2>3, ScanControl DEF ScanLabels
  <2> QED BY <1>6, <2>4 DEF SkipEnumerating, SharedTypeOK, files, scanVars, outside
<1>7. CASE JudgeDevice(s)
  <2>1. PICK l \in m.listed, target \in BOOLEAN :
          /\ Remember(s, [m EXCEPT
               !.store = Learnt(m, l.fp),
               !.todo = @ \ {l.port},
               !.targets = IF target
                             THEN @ \cup {[port |-> l.port, model |-> l.fp.model]}
                             ELSE @])
    BY <1>7 DEF JudgeDevice
  <2>2. l.fp \in Fingerprint /\ l.port \in Port /\ l.fp.model \in Model
    BY <1>0, <2>1 DEF Memory, Fingerprint
  <2>3. Learnt(m, l.fp) \in SUBSET Fingerprint
    BY <1>0, <2>2, TrustType DEF Memory, Learnt
  <2>4. [m EXCEPT !.store = Learnt(m, l.fp),
                  !.todo = @ \ {l.port},
                  !.targets = IF target
                                THEN @ \cup {[port |-> l.port, model |-> l.fp.model]}
                                ELSE @] \in Memory
    <3> DEFINE store == Learnt(m, l.fp)
               todo == m.todo \ {l.port}
               targets == IF target
                            THEN m.targets \cup {[port |-> l.port, model |-> l.fp.model]}
                            ELSE m.targets
    <3>1. store \in SUBSET Fingerprint /\ todo \in SUBSET Port
      BY <1>0, <2>3 DEF Memory
    <3>2. targets \in SUBSET Target
      BY <1>0, <2>2 DEF Memory, Target
    <3>3. [m EXCEPT !.store = store, !.todo = todo, !.targets = targets] \in Memory
      <4> HIDE DEF store, todo, targets
      <4> QED BY <1>0, <3>1, <3>2 DEF Memory
    <3> QED BY <3>3
  <2>5. Goto(s, "ready") \/ Goto(s, "judge")
    BY <1>7 DEF JudgeDevice, Loop
  <2>6. ControlTypeOK'
    BY <2>1, <2>4, <2>5, ScanControl DEF ScanLabels
  <2> QED BY <1>7, <2>6 DEF JudgeDevice, SharedTypeOK, files, scanVars, outside
<1>8. CASE Prune(s)
  <2> DEFINE fresh == Fresh(declined, Ports(m.listed))
  <2>2. Goto(s, "lock") \/ Goto(s, "savePruned")
    BY <1>8 DEF Prune
  <2>3. ControlTypeOK'
    BY <1>0, <1>8, <2>2, ScanControl DEF Prune, ScanLabels
  <2>4. fresh \in SUBSET Failure
    BY DEF Fresh, SharedTypeOK
  <2>5. kept' \in [Scanner -> SUBSET Failure]
    BY <1>8, <2>4 DEF Prune
  <2> QED BY <1>8, <2>3, <2>5 DEF Prune, SharedTypeOK, files, outside
<1>9. CASE SavePruned(s)
  <2>1. ControlTypeOK'
    BY <1>0, <1>9, ScanControl DEF SavePruned, ScanLabels
  <2> QED BY <1>9, <2>1 DEF SavePruned, SharedTypeOK, outside
<1>10. CASE SkipLock(s)
  <2>1. ControlTypeOK'
    BY <1>10, ScanControl, NoMemoryType DEF SkipLock, Forget, ScanLabels
  <2> QED BY <1>10, <2>1 DEF SkipLock, SharedTypeOK, files, scanVars, outside
<1>11. CASE TakeLock(s)
  <2>1. BlockMemory(m) \in Memory
    BY <1>0, NoMemoryType DEF BlockMemory, NoMemory, Memory
  <2>2. ControlTypeOK'
    <3>1. CASE WantsBlock(s)
      BY <1>11, <2>1, <3>1, ScanControl DEF TakeLock, ScanLabels
    <3>2. CASE ~WantsBlock(s)
      BY <1>11, <3>2, ScanControl, NoMemoryType DEF TakeLock, Forget, ScanLabels
    <3> QED BY <3>1, <3>2
  <2>3. /\ baseline' \in Baseline /\ stampOk' \in [Scanner -> BOOLEAN]
        /\ steady' \in [Scanner -> SUBSET Port]
    <3>1. m.store \in SUBSET Fingerprint
      BY <1>0 DEF Memory
    <3>2. CASE SaveBaseline(m.store)
      BY <3>1, <3>2, SaveType
    <3>3. CASE UNCHANGED <<baseline, stampOk, steady>>
      BY <3>3 DEF SharedTypeOK
    <3> QED BY <1>11, <3>2, <3>3 DEF TakeLock
  <2> QED BY <1>11, <2>2, <2>3 DEF TakeLock, SharedTypeOK, Proc, outside
<1>12. CASE ReadDeclined(s)
  <2>1. Goto(s, "block") \/ Goto(s, "saveFresh")
    BY <1>12 DEF ReadDeclined
  <2>2. ControlTypeOK'
    BY <1>0, <1>12, <2>1, ScanControl DEF ReadDeclined, ScanLabels
  <2>3. Fresh(declined, Ports(m.listed)) \in SUBSET Failure
    BY DEF Fresh, SharedTypeOK
  <2> QED BY <1>12, <2>2, <2>3, ArmorAssumption DEF ReadDeclined, SharedTypeOK, files, outside
<1>13. CASE SaveFresh(s)
  <2>1. ControlTypeOK'
    BY <1>0, <1>13, ScanControl DEF SaveFresh, ScanLabels
  <2> QED BY <1>13, <2>1 DEF SaveFresh, SharedTypeOK, scanVars, outside
<1>14. CASE BlockNext(s)
  <2>1. PICK t \in m.targets : \/ Remember(s, [m EXCEPT !.targets = @ \ {t}]) /\ UNCHANGED pc
                               \/ Goto(s, "deauth") /\ UNCHANGED mem
    BY <1>14 DEF BlockNext
  <2>2. [m EXCEPT !.targets = @ \ {t}] \in Memory
    BY <1>0 DEF Memory
  <2>3. ControlTypeOK'
    BY <1>0, <2>1, <2>2, ScanControl DEF ScanLabels
  <2> QED BY <1>14, <2>3 DEF BlockNext, SharedTypeOK, files, scanVars, outside
<1>15. CASE Deauthorize(s)
  <2>1. PICK t \in m.targets :
          /\ port' = [port EXCEPT ![t.port].auth = FALSE, ![t.port].ifs = NoIfs]
          /\ Remember(s, [m EXCEPT !.targets = @ \ {t}])
    BY <1>15 DEF Deauthorize, NextTarget
  <2>2. [m EXCEPT !.targets = @ \ {t}] \in Memory
    BY <1>0 DEF Memory
  <2>3. ControlTypeOK'
    BY <1>15, <2>1, <2>2, ScanControl DEF Deauthorize, ScanLabels
  <2>4. port' \in [Port -> PortState]
    <3> DEFINE new == [port[t.port] EXCEPT !.auth = FALSE, !.ifs = NoIfs]
    <3>1. t.port \in Port /\ port[t.port] \in PortState
      BY <1>0 DEF Memory, Target, SharedTypeOK
    <3>2. new \in PortState
      BY <3>1 DEF PortState
    <3>3. port' = [port EXCEPT ![t.port] = new]
      BY <2>1, <3>1 DEF SharedTypeOK
    <3> HIDE DEF new
    <3> QED BY <3>2, <3>3 DEF SharedTypeOK
  <2>5. steady' \in [Scanner -> SUBSET Port]
    BY <1>15, DisturbType DEF Deauthorize
  <2> QED BY <1>15, <2>3, <2>4, <2>5 DEF Deauthorize, SharedTypeOK, files, outside
<1>16. CASE DeauthFails(s)
  <2>1. PICK t \in m.targets :
          LET f == [port |-> t.port, model |-> t.model, age |-> readAge[s]] IN
            /\ kept' = [kept EXCEPT ![s] = @ \cup {f}]
            /\ failures' = failures \cup (IF f.age < Retry THEN {f} ELSE {})
            /\ Remember(s, [m EXCEPT !.targets = @ \ {t}, !.failed = TRUE])
    BY <1>16 DEF DeauthFails, NextTarget
  <2>2. [m EXCEPT !.targets = @ \ {t}, !.failed = TRUE] \in Memory
    BY <1>0 DEF Memory
  <2>3. ControlTypeOK'
    BY <1>16, <2>1, <2>2, ScanControl DEF DeauthFails, ScanLabels
  <2>4. [port |-> t.port, model |-> t.model, age |-> readAge[s]] \in Failure
    BY <1>0 DEF Memory, Target, Failure
  <2>5. kept' \in [Scanner -> SUBSET Failure] /\ failures' \in SUBSET Failure
    BY <2>1, <2>4 DEF SharedTypeOK
  <2> QED BY <1>16, <2>3, <2>5 DEF DeauthFails, SharedTypeOK, files, outside
<1>17. CASE EndBlocks(s)
  <2>1. ControlTypeOK'
    BY <1>0, <1>17, ScanControl DEF EndBlocks, ScanLabels
  <2> QED BY <1>17, <2>1, ArmorAssumption DEF EndBlocks, SharedTypeOK, outside
<1>18. CASE EndScan(s)
  <2>1. ControlTypeOK'
    BY <1>18, ScanControl, NoMemoryType DEF EndScan, Forget, ScanLabels
  <2> QED BY <1>18, <2>1 DEF EndScan, SharedTypeOK, files, outside
<1>19. CASE FirstRunReady(s)
  <2>1. [m EXCEPT !.wantsSave = WantsSave(m)] \in Memory
    BY <1>0 DEF Memory, WantsSave
  <2>2. ControlTypeOK'
    BY <1>19, <2>1, ScanControl DEF FirstRunReady, ScanLabels
  <2> QED BY <1>19, <2>2 DEF FirstRunReady, SharedTypeOK, files, scanVars, outside
<1>20. CASE CheckHub(s)
  <2>1. ControlTypeOK'
    BY <1>0, <1>20, ScanControl DEF CheckHub, ScanLabels
  <2> QED BY <1>20, <2>1 DEF CheckHub, SharedTypeOK, files, scanVars, outside
<1> QED
  BY <1>1, <1>2, <1>3, <1>4, <1>5, <1>6, <1>7, <1>8, <1>9, <1>10, <1>11, <1>12,
     <1>13, <1>14, <1>15, <1>16, <1>17, <1>18, <1>19, <1>20 DEF ScanStep

\* A truster's step keeps every type.
LEMMA TypeTrust ==
  ASSUME TypeOK, NEW t \in Truster, StartTrust(t) \/ TrustStep(t)
  PROVE  TypeOK'
<1> USE DEF TypeOK
<1> DEFINE m == mem[t]
<1>0. m \in Memory /\ ListedNow \in SUBSET [port : Port, fp : Fingerprint]
  BY ListedType DEF ControlTypeOK, SharedTypeOK, Proc
<1>1. CASE StartTrust(t)
  <2>1. ControlTypeOK'
    BY <1>0, <1>1, TrustControl DEF StartTrust, TrustLabels
  <2> QED BY <1>1, <2>1 DEF StartTrust, SharedTypeOK, files, scanVars, outside
<1>2. CASE LockForTrust(t)
  <2>1. ControlTypeOK'
    BY <1>0, <1>2, TrustControl DEF LockForTrust, TrustLabels
  <2> QED BY <1>2, <2>1 DEF LockForTrust, SharedTypeOK, files, scanVars, Proc, outside
<1>3. CASE FindBlocked(t)
  <2> DEFINE blocked == {p \in Port : IsDeauthorized(p)}
  <2>1. [m EXCEPT !.todo = blocked] \in Memory
    BY <1>0 DEF Memory
  <2>2. Goto(t, "reauth") \/ Goto(t, "listTrust")
    BY <1>3 DEF FindBlocked, Loop
  <2>3. ControlTypeOK'
    BY <1>3, <2>1, <2>2, TrustControl DEF FindBlocked, TrustLabels
  <2> QED BY <1>3, <2>3 DEF FindBlocked, SharedTypeOK, files, scanVars, outside
<1>4. CASE ReauthorizeNext(t)
  <2>1. PICK p \in m.todo :
          /\ \/ port' = [port EXCEPT ![p].auth = TRUE]
             \/ UNCHANGED port
          /\ Remember(t, [m EXCEPT !.todo = @ \ {p}])
    BY <1>4 DEF ReauthorizeNext, IsNext
  <2>2. [m EXCEPT !.todo = @ \ {p}] \in Memory
    BY <1>0 DEF Memory
  <2>3. Goto(t, "reauth") \/ Goto(t, "listTrust")
    BY <1>4 DEF ReauthorizeNext, Loop
  <2>4. ControlTypeOK'
    BY <2>1, <2>2, <2>3, TrustControl DEF TrustLabels
  <2>5. port' \in [Port -> PortState]
    <3> DEFINE new == [port[p] EXCEPT !.auth = TRUE]
    <3>1. p \in Port
      BY <1>0, <2>1 DEF Memory
    <3>2. new \in PortState
      BY <3>1 DEF SharedTypeOK, PortState
    <3>3. port' = [port EXCEPT ![p] = new] \/ UNCHANGED port
      BY <2>1
    <3> HIDE DEF new
    <3> QED BY <3>2, <3>3 DEF SharedTypeOK
  <2> QED BY <1>4, <2>4, <2>5 DEF ReauthorizeNext, SharedTypeOK, files, scanVars, outside
<1>5. CASE ListForTrust(t)
  <2>1. [m EXCEPT !.listed = ListedNow] \in Memory
    BY <1>0 DEF Memory
  <2>2. ControlTypeOK'
    BY <1>5, <2>1, TrustControl DEF ListForTrust, TrustLabels
  <2> QED BY <1>5, <2>2 DEF ListForTrust, SharedTypeOK, files, scanVars, outside
<1>6. CASE LoadForTrust(t)
  <2>1. [m EXCEPT !.store = Loaded] \in Memory
    BY <1>0, LoadedType DEF Memory, SharedTypeOK
  <2>2. ControlTypeOK'
    BY <1>6, <2>1, TrustControl DEF LoadForTrust, TrustLabels
  <2> QED BY <1>6, <2>2 DEF LoadForTrust, SharedTypeOK, files, scanVars, outside
<1>7. CASE Observe(t)
  <2> DEFINE store == Upgrade(m.store, SettledOf(m.listed))
             merged == {p \in Ports(m.listed) : IsDeauthorized(p) \/ ~IsEnumerating(p)}
  <2>1. store \in SUBSET Fingerprint
    <3>1. m.store \in SUBSET Fingerprint /\ SettledOf(m.listed) \in SUBSET Fingerprint
      BY <1>0 DEF Memory, SettledOf
    <3> QED BY <3>1, UpgradeType
  <2>2. merged \in SUBSET Port
    BY <1>0 DEF Memory, Ports
  <2>3. [m EXCEPT !.store = store, !.todo = merged] \in Memory
    <3> HIDE DEF store, merged
    <3> QED BY <1>0, <2>1, <2>2 DEF Memory
  <2>4. Goto(t, "merge") \/ Goto(t, "save")
    BY <1>7 DEF Observe, Loop
  <2>5. ControlTypeOK'
    BY <1>7, <2>3, <2>4, TrustControl DEF Observe, TrustLabels
  <2> QED BY <1>7, <2>5 DEF Observe, SharedTypeOK, files, scanVars, outside
<1>8. CASE MergeNext(t)
  <2>1. PICK l \in m.listed : Remember(t, [m EXCEPT !.store = Trust(@, l.fp),
                                                    !.todo = @ \ {l.port}])
    BY <1>8 DEF MergeNext
  <2> DEFINE store == Trust(m.store, l.fp)
  <2>2. store \in SUBSET Fingerprint
    <3>1. m.store \in SUBSET Fingerprint /\ l.fp \in Fingerprint
      BY <1>0, <2>1 DEF Memory
    <3> QED BY <3>1, TrustType
  <2>3. [m EXCEPT !.store = store, !.todo = @ \ {l.port}] \in Memory
    <3> HIDE DEF store
    <3> QED BY <1>0, <2>2 DEF Memory
  <2>4. Goto(t, "merge") \/ Goto(t, "save")
    BY <1>8 DEF MergeNext, Loop
  <2>5. ControlTypeOK'
    BY <2>1, <2>3, <2>4, TrustControl DEF TrustLabels
  <2> QED BY <1>8, <2>5 DEF MergeNext, SharedTypeOK, files, scanVars, outside
<1>9. CASE SaveTrust(t)
  <2>1. ControlTypeOK'
    BY <1>9, TrustControl, NoMemoryType DEF SaveTrust, Forget, TrustLabels
  <2>2. /\ baseline' \in Baseline /\ stampOk' \in [Scanner -> BOOLEAN]
        /\ steady' \in [Scanner -> SUBSET Port]
    <3>1. m.store \in SUBSET Fingerprint
      BY <1>0 DEF Memory
    <3> QED BY <1>9, <3>1, SaveType DEF SaveTrust
  <2> QED BY <1>9, <2>1, <2>2 DEF SaveTrust, SharedTypeOK, outside
<1>10. CASE SaveTrustFails(t)
  <2>1. ControlTypeOK'
    BY <1>10, TrustControl, NoMemoryType DEF SaveTrustFails, Forget, TrustLabels
  <2> QED BY <1>10, <2>1 DEF SaveTrustFails, SharedTypeOK, files, scanVars, outside
<1>11. CASE ClearDeclined(t)
  <2>1. ControlTypeOK'
    BY <1>0, <1>11, TrustControl DEF ClearDeclined, TrustLabels
  <2> QED BY <1>11, <2>1 DEF ClearDeclined, SharedTypeOK, scanVars, outside
<1> QED
  BY <1>1, <1>2, <1>3, <1>4, <1>5, <1>6, <1>7, <1>8, <1>9, <1>10, <1>11 DEF TrustStep

\* What the user, the kernel and the clock do keeps every type.
LEMMA TypeEnvironment ==
  ASSUME TypeOK, Environment
  PROVE  TypeOK'
<1> USE DEF TypeOK
<1>1. ASSUME NEW p \in Port, NEW d \in Device, Plug(p, d)
      PROVE  TypeOK'
  <2>1. port' \in [Port -> PortState]
    BY <1>1 DEF Plug, Empty, SharedTypeOK, PortState
  <2> QED BY <1>1, <2>1 DEF Plug, ControlTypeOK, SharedTypeOK, files, scanVars, outside
<1>2. ASSUME NEW p \in Port, Unplug(p)
      PROVE  TypeOK'
  <2>1. port' \in [Port -> PortState]
    BY <1>2 DEF Unplug, Empty, SharedTypeOK, PortState
  <2>2. steady' \in [Scanner -> SUBSET Port]
    BY <1>2, DisturbType DEF Unplug
  <2> QED BY <1>2, <2>1, <2>2 DEF Unplug, ControlTypeOK, SharedTypeOK, files, outside
<1>3. ASSUME NEW p \in Port, Enumerate(p)
      PROVE  TypeOK'
  <2>0. port[p] \in PortState
    BY DEF SharedTypeOK
  <2>1. CASE port' = [port EXCEPT ![p].ifs = {}]
    <3>1. port' \in [Port -> PortState]
      BY <2>1 DEF SharedTypeOK, PortState
    <3> QED BY <1>3, <3>1 DEF Enumerate, ControlTypeOK, SharedTypeOK, files, scanVars, outside
  <2>2. CASE port[p].ifs # NoIfs
    <3>1. CASE port' = [port EXCEPT ![p].ifs = {}]
      BY <2>1, <3>1
    <3>2. CASE \E i \in port[p].dev.ifs \ port[p].ifs :
                 port' = [port EXCEPT ![p].ifs = @ \cup {i}]
      <4>1. PICK i \in port[p].dev.ifs \ port[p].ifs :
              port' = [port EXCEPT ![p].ifs = @ \cup {i}]
        BY <3>2
      <4>2. port[p].dev \in Device
        BY <1>3, <2>0 DEF Enumerate, Connected, PortState
      <4>3. port[p].dev.ifs \in SUBSET Interface
        BY <4>2, ArmorAssumption DEF KnownIfs, IsLegacy, Fingerprint
      <4>4. port[p].ifs \cup {i} \in SUBSET Interface
        BY <2>0, <2>2, <4>1, <4>3 DEF PortState
      <4>5. port' \in [Port -> PortState]
        BY <4>1, <4>4 DEF SharedTypeOK, PortState
      <4> QED BY <1>3, <4>5 DEF Enumerate, ControlTypeOK, SharedTypeOK, files, scanVars, outside
    <3> QED BY <1>3, <2>2, <3>1, <3>2 DEF Enumerate
  <2> QED BY <1>3, <2>1, <2>2 DEF Enumerate
<1>4. ASSUME ToggleArmor
      PROVE  TypeOK'
  BY <1>4 DEF ToggleArmor, ControlTypeOK, SharedTypeOK, files, scanVars
<1>5. ASSUME Tick
      PROVE  TypeOK'
  <2>1. declined' \in SUBSET Failure /\ failures' \in SUBSET Failure
    <3>1. Aged(declined) \in SUBSET Failure /\ Aged(failures) \in SUBSET Failure
      BY AgedType DEF SharedTypeOK
    <3> QED BY <1>5, <3>1 DEF Tick
  <2>2. kept' \in [Scanner -> SUBSET Failure]
    <3>1. \A s \in Scanner : Aged(kept[s]) \in SUBSET Failure
      BY AgedType
    <3> QED BY <1>5, <3>1 DEF Tick
  <2>3. readAge' \in [Scanner -> 0..Retry]
    <3>1. \A s \in Scanner : Older(readAge[s]) \in 0..Retry
      BY OlderType
    <3> QED BY <1>5, <3>1 DEF Tick
  <2> QED BY <1>5, <2>1, <2>2, <2>3 DEF Tick, ControlTypeOK, SharedTypeOK, outside
<1> QED BY <1>1, <1>2, <1>3, <1>4, <1>5 DEF Environment

(***************************************************************************)
(* Every variable keeps its type, whatever the processes, ports, devices   *)
(* and initial baselines are: in particular a scan never judges, trusts or *)
(* saves anything but fingerprints, and a failure never outgrows the retry *)
(* window.                                                                 *)
(***************************************************************************)
THEOREM TypeCorrect == Spec => []TypeOK
<1>1. TypeOK /\ [Next]_vars => TypeOK'
  <2> SUFFICES ASSUME TypeOK, [Next]_vars
               PROVE  TypeOK'
    OBVIOUS
  <2>1. CASE Next
    BY <2>1, TypeScan, TypeTrust, TypeEnvironment DEF Next
  <2>2. CASE UNCHANGED vars
    BY <2>2 DEF vars, files, scanVars, outside, TypeOK, ControlTypeOK, SharedTypeOK
  <2> QED BY <2>1, <2>2
<1> QED BY TypeInit, <1>1, PTL DEF Spec

-----------------------------------------------------------------------------
(* Mutual exclusion *)

\* Whoever relies on the lock holds it, from the moment it is taken to the end of
\* the step that drops it.
LockHeld == \A x \in Proc : NeedsLock(x) => lock = x

\* A step that moves one process, and leaves the lock with its holder unless that
\* is the process, keeps LockHeld if it holds of that process.
LEMMA LockStep ==
  ASSUME TypeOK, LockHeld, NEW x \in Proc, NEW l,
         Goto(x, l),
         lock' # lock => lock \in {x, Nobody} /\ lock' \in {x, Nobody},
         NeedsLock(x)' => lock' = x
  PROVE  LockHeld'
<1> SUFFICES ASSUME NEW y \in Proc, y # x, NeedsLock(y)'
             PROVE  lock' = y
  BY DEF LockHeld
<1>1. pc'[y] = pc[y]
  BY DEF Goto, TypeOK, ControlTypeOK
<1>2. lock = y
  BY <1>1 DEF LockHeld, NeedsLock
<1> QED BY <1>2, ArmorAssumption

\* A step that moves no process and leaves the lock alone keeps LockHeld.
LEMMA LockIdle ==
  ASSUME LockHeld, UNCHANGED <<pc, lock>>
  PROVE  LockHeld'
BY DEF LockHeld, NeedsLock

\* A scanner's step keeps LockHeld: only TakeLock brings it to a label that relies
\* on the lock, and only EndScan, at a label that does not, drops the lock.
LEMMA LockScan ==
  ASSUME TypeOK, LockHeld, NEW s \in Scanner, ScanStep(s)
  PROVE  LockHeld'
<1>0. s \in Proc /\ pc \in [Proc -> ScanLabels \cup TrustLabels]
  BY DEF Proc, TypeOK, ControlTypeOK
<1>1. ASSUME NEW l \in {"stamp", "load", "list", "migrate", "judge", "ready", "prune",
                        "savePruned", "lock"},
             Goto(s, l), UNCHANGED lock
      PROVE  LockHeld'
  <2>1. ~NeedsLock(s)'
    BY <1>0, <1>1 DEF Goto, NeedsLock, TrustLabels
  <2> QED BY <1>0, <1>1, <2>1, LockStep
<1>2. ASSUME NEW l \in {"readDeclined", "saveFresh", "block", "deauth", "write", "report"},
             Goto(s, l), lock' = s, lock \in {s, Nobody}
      PROVE  LockHeld'
  BY <1>0, <1>2, LockStep
<1>3. ASSUME NeedsLock(s)
      PROVE  lock = s
  BY <1>0, <1>3 DEF LockHeld
<1>4. CASE \/ StartScan(s) \/ TakeStamp(s) \/ LoadBaseline(s) \/ ListDevices(s)
           \/ MigrateLegacy(s) \/ SkipEnumerating(s) \/ JudgeDevice(s)
           \/ FirstRunReady(s) \/ Prune(s) \/ SavePruned(s)
  <2>1. CASE StartScan(s)
    BY <1>1, <2>1 DEF StartScan
  <2>2. CASE TakeStamp(s)
    BY <1>1, <2>2 DEF TakeStamp
  <2>3. CASE LoadBaseline(s)
    BY <1>1, <2>3 DEF LoadBaseline
  <2>4. CASE ListDevices(s)
    BY <1>1, <2>4 DEF ListDevices
  <2>5. CASE MigrateLegacy(s)
    BY <1>1, <2>5 DEF MigrateLegacy, Loop
  <2>6. CASE SkipEnumerating(s)
    BY <1>1, <2>6 DEF SkipEnumerating, Loop
  <2>7. CASE JudgeDevice(s)
    BY <1>1, <2>7 DEF JudgeDevice, Loop
  <2>8. CASE Prune(s)
    BY <1>1, <2>8 DEF Prune
  <2>9. CASE SavePruned(s)
    BY <1>1, <2>9 DEF SavePruned
  <2>10. CASE FirstRunReady(s)
    BY <1>1, <2>10 DEF FirstRunReady
  <2> QED BY <1>4, <2>1, <2>2, <2>3, <2>4, <2>5, <2>6, <2>7, <2>8, <2>9, <2>10
<1>5. CASE SkipLock(s)
  <2>1. ~NeedsLock(s)'
    BY <1>0, <1>5 DEF SkipLock, Goto, NeedsLock, TrustLabels
  <2>2. Goto(s, "report") /\ UNCHANGED lock
    BY <1>5 DEF SkipLock
  <2> QED BY <1>0, <2>1, <2>2, LockStep
<1>6. CASE TakeLock(s)
  BY <1>2, <1>6 DEF TakeLock
<1>7. CASE ReadDeclined(s)
  <2>1. lock = s
    BY <1>3, <1>7 DEF ReadDeclined, NeedsLock
  <2> QED BY <1>2, <1>7, <2>1 DEF ReadDeclined
<1>8. CASE SaveFresh(s)
  <2>1. lock = s
    BY <1>3, <1>8 DEF SaveFresh, NeedsLock
  <2> QED BY <1>2, <1>8, <2>1 DEF SaveFresh
<1>9. CASE BlockNext(s)
  <2>1. lock = s /\ UNCHANGED lock
    BY <1>3, <1>9 DEF BlockNext, NeedsLock
  <2>2. UNCHANGED pc \/ Goto(s, "deauth")
    BY <1>9 DEF BlockNext
  <2> QED BY <1>2, <2>1, <2>2, LockIdle
<1>10. CASE Deauthorize(s)
  <2>1. lock = s
    BY <1>3, <1>10 DEF Deauthorize, NeedsLock
  <2> QED BY <1>2, <1>10, <2>1 DEF Deauthorize
<1>11. CASE DeauthFails(s)
  <2>1. lock = s
    BY <1>3, <1>11 DEF DeauthFails, NeedsLock
  <2> QED BY <1>2, <1>11, <2>1 DEF DeauthFails, files
<1>12. CASE EndBlocks(s)
  <2>1. lock = s
    BY <1>3, <1>12 DEF EndBlocks, NeedsLock
  <2> QED BY <1>2, <1>12, <2>1 DEF EndBlocks
<1>13. CASE EndScan(s)
  <2>1. ~NeedsLock(s)'
    BY <1>0, <1>13 DEF EndScan, Goto, NeedsLock, TrustLabels
  <2>2. lock' # lock => lock = s /\ lock' = Nobody
    BY <1>13 DEF EndScan
  <2>3. Goto(s, "idle")
    BY <1>13 DEF EndScan
  <2> QED BY <1>0, <2>1, <2>2, <2>3, LockStep
<1>14. CASE CheckHub(s)
  <2>1. lock = s
    BY <1>3, <1>14 DEF CheckHub, NeedsLock
  <2> QED BY <1>2, <1>14, <2>1 DEF CheckHub
<1> QED
  BY <1>4, <1>5, <1>6, <1>7, <1>8, <1>9, <1>10, <1>11, <1>12, <1>13, <1>14 DEF ScanStep

\* A truster's step keeps LockHeld: it takes the lock first and drops it last.
LEMMA LockTrust ==
  ASSUME TypeOK, LockHeld, NEW t \in Truster, StartTrust(t) \/ TrustStep(t)
  PROVE  LockHeld'
<1>0. t \in Proc /\ pc \in [Proc -> ScanLabels \cup TrustLabels]
  BY DEF Proc, TypeOK, ControlTypeOK
<1>1. ASSUME NEW l \in {"wait", "idle"}, Goto(t, l),
             lock' # lock => lock = t /\ lock' = Nobody
      PROVE  LockHeld'
  <2>1. ~NeedsLock(t)'
    BY <1>0, <1>1 DEF Goto, NeedsLock
  <2> QED BY <1>0, <1>1, <2>1, LockStep
<1>2. ASSUME NEW l, Goto(t, l), lock' = t, lock \in {t, Nobody}
      PROVE  LockHeld'
  BY <1>0, <1>2, LockStep
<1>3. ASSUME NeedsLock(t)
      PROVE  lock = t
  BY <1>0, <1>3 DEF LockHeld
<1>4. CASE StartTrust(t)
  <2>1. Goto(t, "wait") /\ UNCHANGED lock
    BY <1>4 DEF StartTrust
  <2> QED BY <1>1, <2>1
<1>5. CASE LockForTrust(t)
  BY <1>2, <1>5 DEF LockForTrust
<1>6. CASE SaveTrustFails(t) \/ ClearDeclined(t)
  <2>1. lock = t
    BY <1>3, <1>6 DEF SaveTrustFails, ClearDeclined, NeedsLock, TrustLabels
  <2> QED BY <1>1, <1>6, <2>1 DEF SaveTrustFails, ClearDeclined
<1>7. CASE \/ FindBlocked(t) \/ ReauthorizeNext(t) \/ ListForTrust(t) \/ LoadForTrust(t)
           \/ Observe(t) \/ MergeNext(t) \/ SaveTrust(t)
  <2>1. NeedsLock(t)
    BY <1>7 DEF FindBlocked, ReauthorizeNext, ListForTrust, LoadForTrust, Observe,
                MergeNext, SaveTrust, NeedsLock, TrustLabels
  <2>2. lock = t
    BY <1>3, <2>1
  <2>3. UNCHANGED lock
    BY <1>7 DEF FindBlocked, ReauthorizeNext, ListForTrust, LoadForTrust, Observe,
                MergeNext, SaveTrust
  <2>4. \E l \in TrustLabels : Goto(t, l)
    BY <1>7 DEF FindBlocked, ReauthorizeNext, ListForTrust, LoadForTrust, Observe,
                MergeNext, SaveTrust, Loop, TrustLabels
  <2> QED BY <1>2, <2>2, <2>3, <2>4
<1> QED BY <1>4, <1>5, <1>6, <1>7 DEF TrustStep

\* Every process at a label that relies on the lock holds it: the invariant behind
\* the exclusion of the armor's critical sections.
THEOREM LockKept == Spec => []LockHeld
<1>1. Init => LockHeld
  BY DEF Init, LockHeld, NeedsLock, TrustLabels
<1>2. TypeOK /\ LockHeld /\ [Next]_vars => LockHeld'
  <2> SUFFICES ASSUME TypeOK, LockHeld, [Next]_vars
               PROVE  LockHeld'
    OBVIOUS
  <2>1. CASE Environment
    BY <2>1, LockIdle DEF Environment, Plug, Unplug, Enumerate, ToggleArmor, Tick
  <2>2. CASE UNCHANGED vars
    BY <2>2, LockIdle DEF vars
  <2> QED BY <2>1, <2>2, LockScan, LockTrust DEF Next
<1> QED BY <1>1, <1>2, TypeCorrect, PTL DEF Spec

(***************************************************************************)
(* Blocking and trusting exclude one another, for any number of processes: *)
(* of all scans that block devices and all trusts at most one is at work.  *)
(***************************************************************************)
THEOREM LockExclusion == Spec => []ArmorLockExcludes
<1>1. LockHeld => ArmorLockExcludes
  BY DEF LockHeld, ArmorLockExcludes
<1> QED BY <1>1, LockKept, PTL

\* A step of one process leaves the others where they are, with their memory.
LEMMA OthersStay ==
  ASSUME TypeOK, NEW x \in Proc, NEW l, NEW m,
         Goto(x, l) \/ UNCHANGED pc, Remember(x, m) \/ UNCHANGED mem
  PROVE  \A y \in Proc : y # x => pc'[y] = pc[y] /\ mem'[y] = mem[y]
BY DEF Goto, Remember, TypeOK, ControlTypeOK

\* What a truster does concerns where it is and what it has in memory.
LEMMA TrustMoves ==
  ASSUME NEW t \in Truster, StartTrust(t) \/ TrustStep(t)
  PROVE  /\ \E l \in TrustLabels : Goto(t, l)
         /\ UNCHANGED mem \/ \E m : Remember(t, m)
<1>1. \E l \in TrustLabels : Goto(t, l)
  BY DEF StartTrust, TrustStep, LockForTrust, FindBlocked, ReauthorizeNext, ListForTrust,
         LoadForTrust, Observe, MergeNext, SaveTrust, SaveTrustFails, ClearDeclined, Loop,
         TrustLabels
<1>2. UNCHANGED mem \/ \E m : Remember(t, m)
  BY DEF StartTrust, TrustStep, LockForTrust, FindBlocked, ReauthorizeNext, ListForTrust,
         LoadForTrust, Observe, MergeNext, SaveTrust, SaveTrustFails, ClearDeclined, Forget
<1> QED BY <1>1, <1>2

-----------------------------------------------------------------------------
(* Hubs *)

\* What a scan is about to write to is no hub, unless it came late.
LooksHeld ==
  \A s \in Scanner : pc[s] = "write" =>
    \A t \in mem[s].targets : NextTarget(s, t) =>
      /\ t.port \notin RootPort
      /\ t.port \in Connected /\ IsHub(port[t.port].dev) => t.port \in late

HubsSpared == HubsStayAuthorized /\ LooksHeld

\* A step of one process that brings no scan to a write keeps LooksHeld, if every
\* port keeps its device and late its ports.
LEMMA LooksElse ==
  ASSUME TypeOK, LooksHeld, NEW x \in Proc, NEW l, NEW m,
         Goto(x, l) \/ UNCHANGED pc, Remember(x, m) \/ UNCHANGED mem,
         x \in Scanner => pc'[x] # "write",
         \A p \in Port : port'[p].dev = port[p].dev, UNCHANGED late
  PROVE  LooksHeld'
<1> SUFFICES ASSUME NEW s \in Scanner, pc'[s] = "write",
                    NEW t \in mem'[s].targets, NextTarget(s, t)'
             PROVE  /\ t.port \notin RootPort
                    /\ (t.port \in Connected /\ IsHub(port[t.port].dev) => t.port \in late)'
  BY DEF LooksHeld
<1>1. s # x
  OBVIOUS
<1>2. pc'[s] = pc[s] /\ mem'[s] = mem[s]
  BY <1>1, OthersStay DEF Proc
<1>3. NextTarget(s, t)
  BY <1>2 DEF NextTarget
<1> QED BY <1>2, <1>3 DEF LooksHeld, Connected

\* A step that leaves the ports alone keeps HubsStayAuthorized.
LEMMA HubIdle ==
  ASSUME HubsStayAuthorized, UNCHANGED <<port, late>>
  PROVE  HubsStayAuthorized'
BY DEF HubsStayAuthorized, Connected

\* A step keeps HubsStayAuthorized if the only port it changes ends up authorized or
\* empty, is among the late ones, or holds no hub.
LEMMA HubStep ==
  ASSUME HubsStayAuthorized, port \in [Port -> PortState],
         NEW p \in Port, NEW new \in PortState,
         port' = [port EXCEPT ![p] = new], late \ {p} \subseteq late',
         \/ new.auth \/ new.dev = NoDevice \/ p \in late'
         \/ p \notin RootPort /\ ~IsHub(new.dev)
  PROVE  HubsStayAuthorized'
<1> SUFFICES ASSUME NEW q \in Port, port'[q].dev # NoDevice,
                    IsHub(port'[q].dev) \/ q \in RootPort
             PROVE  port'[q].auth \/ q \in late'
  BY DEF HubsStayAuthorized, Connected
<1>1. CASE q = p
  BY <1>1
<1>2. CASE q # p
  BY <1>2 DEF HubsStayAuthorized, Connected
<1> QED BY <1>1, <1>2

\* Blocks leave hubs alone that were there when the scan looked.
LEMMA HubsScan ==
  ASSUME TypeOK, HubsSpared, NEW s \in Scanner, ScanStep(s)
  PROVE  HubsSpared'
<1>0. /\ s \in Proc /\ mem[s] \in Memory /\ port \in [Port -> PortState]
      /\ pc \in [Proc -> ScanLabels \cup TrustLabels]
  BY DEF TypeOK, SharedTypeOK, ControlTypeOK, Proc
<1>1. CASE Deauthorize(s)
  <2>1. PICK t \in mem[s].targets :
          /\ NextTarget(s, t) /\ t.port \in Connected
          /\ port' = [port EXCEPT ![t.port].auth = FALSE, ![t.port].ifs = NoIfs]
          /\ Remember(s, [mem[s] EXCEPT !.targets = @ \ {t}])
    BY <1>1 DEF Deauthorize
  <2> DEFINE p == t.port
             new == [port[p] EXCEPT !.auth = FALSE, !.ifs = NoIfs]
  <2>2. p \in Port /\ p \notin RootPort /\ (IsHub(port[p].dev) => p \in late)
    BY <1>1, <2>1 DEF HubsSpared, LooksHeld, Connected, Deauthorize
  <2>3. new \in PortState /\ new.dev = port[p].dev
    BY <1>0, <2>2 DEF PortState
  <2>4. port' = [port EXCEPT ![p] = new]
    BY <1>0, <2>1, <2>2
  <2>5. UNCHANGED late /\ Goto(s, "block") /\ pc'[s] = "block"
    BY <1>0, <1>1 DEF Deauthorize, outside, Goto
  <2> HIDE DEF p, new
  <2>6. HubsStayAuthorized'
    BY <1>0, <2>2, <2>3, <2>4, <2>5, HubStep DEF HubsSpared
  <2>7. \A q \in Port : port'[q].dev = port[q].dev
    BY <1>0, <2>2, <2>3, <2>4
  <2>8. LooksHeld'
    BY <1>0, <2>1, <2>5, <2>7, LooksElse DEF HubsSpared
  <2> QED BY <2>6, <2>8 DEF HubsSpared
<1>2. CASE CheckHub(s)
  <2>1. /\ UNCHANGED <<port, mem, late>> /\ Goto(s, "write")
        /\ \E t \in mem[s].targets : NextTarget(s, t) /\ ~IsUsbHub(t.port)
    BY <1>2 DEF CheckHub, outside
  <2>2. PICK t \in mem[s].targets : NextTarget(s, t) /\ ~IsUsbHub(t.port)
    BY <2>1
  <2>3. \A u \in mem[s].targets : NextTarget(s, u) => u.port = t.port
    <3> SUFFICES ASSUME NEW u \in mem[s].targets, NextTarget(s, u)
                 PROVE  u.port = t.port
      OBVIOUS
    <3>1. u.port <= t.port /\ t.port <= u.port
      BY <2>2 DEF NextTarget, IsNext, Ports
    <3>2. u.port \in Nat /\ t.port \in Nat
      BY <1>0, ArmorAssumption DEF Memory, Target
    <3> QED BY <3>1, <3>2
  <2>4. \A x \in Scanner : x # s => pc'[x] = pc[x]
    BY <1>0, <2>1 DEF Goto, Proc
  <2>5. LooksHeld'
    <3> SUFFICES ASSUME NEW x \in Scanner, pc'[x] = "write",
                        NEW u \in mem[x].targets, NextTarget(x, u)
                 PROVE  /\ u.port \notin RootPort
                        /\ u.port \in Connected /\ IsHub(port[u.port].dev) => u.port \in late
      BY <2>1 DEF LooksHeld, NextTarget, Connected
    <3>1. CASE x = s
      BY <2>2, <2>3, <3>1 DEF IsUsbHub
    <3>2. CASE x # s
      BY <2>4, <3>2 DEF HubsSpared, LooksHeld
    <3> QED BY <3>1, <3>2
  <2> QED BY <2>1, <2>5, HubIdle DEF HubsSpared
<1>3. CASE ~Deauthorize(s) /\ ~CheckHub(s)
  <2>1. UNCHANGED <<port, late>>
    BY <1>3 DEF ScanStep, StartScan, TakeStamp, LoadBaseline, ListDevices, MigrateLegacy,
                SkipEnumerating, JudgeDevice, FirstRunReady, Prune, SavePruned, SkipLock,
                TakeLock, ReadDeclined, SaveFresh, BlockNext, DeauthFails, EndBlocks,
                EndScan, outside
  <2>2. pc'[s] # "write"
    <3>1. \/ \E l \in ScanLabels \ {"write"} : Goto(s, l)
          \/ UNCHANGED pc /\ pc[s] = "block"
      BY <1>3 DEF ScanStep, StartScan, TakeStamp, LoadBaseline, ListDevices, MigrateLegacy,
                SkipEnumerating, JudgeDevice, FirstRunReady, Prune, SavePruned, SkipLock,
                TakeLock, ReadDeclined, SaveFresh, BlockNext, DeauthFails, EndBlocks,
                EndScan, Loop, ScanLabels
    <3> QED BY <1>0, <3>1 DEF Goto
  <2>3. (\E l : Goto(s, l)) \/ UNCHANGED pc
    BY <1>3 DEF ScanStep, StartScan, TakeStamp, LoadBaseline, ListDevices, MigrateLegacy,
                SkipEnumerating, JudgeDevice, FirstRunReady, Prune, SavePruned, SkipLock,
                TakeLock, ReadDeclined, SaveFresh, BlockNext, DeauthFails, EndBlocks,
                EndScan, Loop
  <2>4. (\E m : Remember(s, m)) \/ UNCHANGED mem
    BY <1>3 DEF ScanStep, StartScan, TakeStamp, LoadBaseline, ListDevices, MigrateLegacy,
                SkipEnumerating, JudgeDevice, FirstRunReady, Prune, SavePruned, SkipLock,
                TakeLock, ReadDeclined, SaveFresh, BlockNext, DeauthFails, EndBlocks,
                EndScan, Forget
  <2>5. LooksHeld'
    BY <1>0, <2>1, <2>2, <2>3, <2>4, LooksElse DEF HubsSpared
  <2> QED BY <2>1, <2>5, HubIdle DEF HubsSpared
<1> QED BY <1>1, <1>2, <1>3

\* Trusting gives devices back, and cuts off none.
LEMMA HubsTrust ==
  ASSUME TypeOK, HubsSpared, NEW t \in Truster, StartTrust(t) \/ TrustStep(t)
  PROVE  HubsSpared'
<1>0. port \in [Port -> PortState] /\ t \in Proc /\ t \notin Scanner
  BY ArmorAssumption DEF TypeOK, SharedTypeOK, Proc
<1>1. UNCHANGED late
  BY DEF TrustStep, StartTrust, LockForTrust, FindBlocked, ReauthorizeNext, ListForTrust,
         LoadForTrust, Observe, MergeNext, SaveTrust, SaveTrustFails, ClearDeclined, outside
<1>2. CASE UNCHANGED port
  BY <1>0, <1>1, <1>2, TrustMoves, LooksElse, HubIdle DEF HubsSpared
<1>3. CASE ~UNCHANGED port
  <2>1. ReauthorizeNext(t)
    BY <1>3 DEF TrustStep, StartTrust, LockForTrust, FindBlocked, ListForTrust,
                LoadForTrust, Observe, MergeNext, SaveTrust, SaveTrustFails, ClearDeclined
  <2>2. PICK p \in Connected : port' = [port EXCEPT ![p].auth = TRUE]
    BY <1>3, <2>1 DEF ReauthorizeNext
  <2> DEFINE new == [port[p] EXCEPT !.auth = TRUE]
  <2>3. p \in Port /\ new \in PortState /\ new.auth /\ new.dev = port[p].dev
    BY <1>0, <2>2 DEF Connected, PortState
  <2>4. port' = [port EXCEPT ![p] = new]
    BY <1>0, <2>2, <2>3
  <2> HIDE DEF new
  <2>5. HubsStayAuthorized'
    BY <1>0, <1>1, <2>3, <2>4, HubStep DEF HubsSpared
  <2>6. \A q \in Port : port'[q].dev = port[q].dev
    BY <1>0, <2>3, <2>4
  <2>7. LooksHeld'
    BY <1>0, <1>1, <2>6, TrustMoves, LooksElse DEF HubsSpared
  <2> QED BY <2>5, <2>7 DEF HubsSpared
<1> QED BY <1>2, <1>3

\* A hub that takes the port of what was looked at comes late.
LEMMA HubsAround ==
  ASSUME TypeOK, HubsSpared, Environment
  PROVE  HubsSpared'
<1>0. port \in [Port -> PortState]
  BY DEF TypeOK, SharedTypeOK
<1>1. ASSUME NEW p \in Port, NEW d \in Device, Plug(p, d)
      PROVE  HubsSpared'
  <2> DEFINE new == [Empty EXCEPT !.dev = d]
  <2>1. new \in PortState /\ new.auth
    BY DEF Empty, PortState
  <2>2. port' = [port EXCEPT ![p] = new] /\ late' = late \cup ({p} \cap Aimed)
        /\ UNCHANGED <<pc, mem>>
    BY <1>1 DEF Plug
  <2> HIDE DEF new
  <2>3. HubsStayAuthorized'
    BY <1>0, <2>1, <2>2, HubStep DEF HubsSpared
  <2>4. LooksHeld'
    <3> SUFFICES ASSUME NEW s \in Scanner, pc[s] = "write",
                        NEW t \in mem[s].targets, NextTarget(s, t)
                 PROVE  /\ t.port \notin RootPort
                        /\ (t.port \in Connected /\ IsHub(port[t.port].dev) => t.port \in late)'
      BY <2>2 DEF LooksHeld, NextTarget
    <3>1. CASE t.port = p
      BY <2>2, <3>1 DEF HubsSpared, LooksHeld, Aimed
    <3>2. CASE t.port # p
      BY <1>0, <2>2, <3>2 DEF HubsSpared, LooksHeld, Connected
    <3> QED BY <3>1, <3>2
  <2> QED BY <2>3, <2>4 DEF HubsSpared
<1>2. ASSUME NEW p \in Port, Unplug(p)
      PROVE  HubsSpared'
  <2>1. /\ Empty \in PortState /\ Empty.auth /\ Empty.dev = NoDevice
    BY DEF Empty, PortState
  <2>2. port' = [port EXCEPT ![p] = Empty] /\ late' = late \ {p} /\ UNCHANGED <<pc, mem>>
    BY <1>2 DEF Unplug
  <2>3. HubsStayAuthorized'
    BY <1>0, <2>1, <2>2, HubStep DEF HubsSpared
  <2>4. LooksHeld'
    <3> SUFFICES ASSUME NEW s \in Scanner, pc[s] = "write",
                        NEW t \in mem[s].targets, NextTarget(s, t)
                 PROVE  /\ t.port \notin RootPort
                        /\ (t.port \in Connected /\ IsHub(port[t.port].dev) => t.port \in late)'
      BY <2>2 DEF LooksHeld, NextTarget
    <3>1. CASE t.port = p
      BY <1>0, <2>1, <2>2, <3>1 DEF HubsSpared, LooksHeld, Connected
    <3>2. CASE t.port # p
      BY <1>0, <2>2, <3>2 DEF HubsSpared, LooksHeld, Connected
    <3> QED BY <3>1, <3>2
  <2> QED BY <2>3, <2>4 DEF HubsSpared
<1>3. ASSUME NEW p \in Port, Enumerate(p)
      PROVE  HubsSpared'
  <2>1. /\ \A q \in Port : port'[q].dev = port[q].dev /\ port'[q].auth = port[q].auth
        /\ UNCHANGED <<pc, mem, late>>
    BY <1>0, <1>3 DEF Enumerate, PortState, outside
  <2>2. HubsStayAuthorized'
    BY <2>1 DEF HubsSpared, HubsStayAuthorized, Connected
  <2>3. LooksHeld'
    BY <2>1 DEF HubsSpared, LooksHeld, NextTarget, Connected
  <2> QED BY <2>2, <2>3 DEF HubsSpared
<1>4. CASE ToggleArmor \/ Tick
  BY <1>4, HubIdle DEF ToggleArmor, Tick, HubsSpared, LooksHeld, NextTarget, Connected, outside
<1> QED BY <1>1, <1>2, <1>3, <1>4 DEF Environment

(***************************************************************************)
(* If no hub is blocked to begin with, none that a scan could see is ever, *)
(* whatever the scan took for its target before and however many scans and *)
(* trusts there are: a hub that is cut off took its port after the look.   *)
(***************************************************************************)
THEOREM HubsNeverBlocked == Spec /\ HubsStayAuthorized => []HubsStayAuthorized
<1>1. Init => LooksHeld
  BY DEF Init, LooksHeld, Proc
<1>2. TypeOK /\ HubsSpared /\ [Next]_vars => HubsSpared'
  <2> SUFFICES ASSUME TypeOK, HubsSpared, [Next]_vars
               PROVE  HubsSpared'
    OBVIOUS
  <2>1. CASE UNCHANGED vars
    BY <2>1, HubIdle DEF vars, outside, HubsSpared, LooksHeld, NextTarget, Connected
  <2> QED BY <2>1, HubsScan, HubsTrust, HubsAround DEF Next
<1>3. HubsSpared => HubsStayAuthorized
  BY DEF HubsSpared
<1>4. HubsStayAuthorized /\ LooksHeld => HubsSpared
  BY DEF HubsSpared
<1> QED BY <1>1, <1>2, <1>3, <1>4, TypeCorrect, PTL DEF Spec

-----------------------------------------------------------------------------
(* The retry window *)

\* A scan has no target before it judges devices, later at most one on each port, and
\* none on a port it has not judged yet.
ScanTargets(s) ==
  /\ pc[s] \in {"idle", "stamp", "load", "list", "migrate"} => mem[s].targets = {}
  /\ pc[s] = "judge" => \A t \in mem[s].targets : t.port \notin mem[s].todo
  /\ \A t, u \in mem[s].targets : t.port = u.port => t = u

OneTargetPerPort == \A s \in Scanner : ScanTargets(s)

\* It holds after a step of one process if it holds of that one.
LEMMA TargetsElse ==
  ASSUME TypeOK, OneTargetPerPort, NEW x \in Proc, NEW l, NEW m,
         Goto(x, l) \/ UNCHANGED pc, Remember(x, m) \/ UNCHANGED mem,
         x \in Scanner => ScanTargets(x)'
  PROVE  OneTargetPerPort'
<1> SUFFICES ASSUME NEW s \in Scanner, s # x
             PROVE  ScanTargets(s)'
  BY DEF OneTargetPerPort
<1>1. pc'[s] = pc[s] /\ mem'[s] = mem[s]
  BY OthersStay DEF Proc
<1> QED BY <1>1 DEF OneTargetPerPort, ScanTargets

\* A scan keeps to one target per port as long as it adds none to those it judged.
LEMMA TargetsFewer ==
  ASSUME TypeOK, OneTargetPerPort, NEW s \in Scanner, NEW l, Goto(s, l) \/ UNCHANGED pc,
         NEW m, Remember(s, m), m.targets \subseteq mem[s].targets,
         \/ mem[s].targets = {}
         \/ pc'[s] \notin {"idle", "stamp", "load", "list", "migrate", "judge"}
         \/ pc[s] = "judge" /\ pc'[s] = "judge" /\ m.todo \subseteq mem[s].todo
  PROVE  OneTargetPerPort'
<1>1. s \in Proc /\ mem'[s] = m
  BY DEF Proc, Remember, TypeOK, ControlTypeOK
<1>2. ScanTargets(s)'
  BY <1>1 DEF OneTargetPerPort, ScanTargets
<1> QED BY <1>1, <1>2, TargetsElse

\* A scan that leaves its memory alone keeps to it, too.
LEMMA TargetsSame ==
  ASSUME TypeOK, OneTargetPerPort, NEW s \in Scanner, NEW l, Goto(s, l), UNCHANGED mem,
         \/ mem[s].targets = {}
         \/ l \notin {"idle", "stamp", "load", "list", "migrate", "judge"}
  PROVE  OneTargetPerPort'
<1>1. s \in Proc /\ pc'[s] = l
  BY DEF Proc, Goto, TypeOK, ControlTypeOK
<1>2. ScanTargets(s)'
  BY <1>1 DEF OneTargetPerPort, ScanTargets
<1> QED BY <1>1, <1>2, TargetsElse

\* So does one that forgets its pass.
LEMMA TargetsForgotten ==
  ASSUME TypeOK, OneTargetPerPort, NEW s \in Scanner, NEW l, Goto(s, l), Forget(s)
  PROVE  OneTargetPerPort'
<1>1. s \in Proc /\ mem'[s].targets = {}
  BY DEF Proc, Forget, Remember, NoMemory, TypeOK, ControlTypeOK
<1>2. ScanTargets(s)'
  BY <1>1 DEF ScanTargets
<1> QED BY <1>1, <1>2, TargetsElse DEF Forget

\* A scanner's step keeps to one target per port.
LEMMA TargetsScan ==
  ASSUME TypeOK, OneTargetPerPort, NEW s \in Scanner, ScanStep(s)
  PROVE  OneTargetPerPort'
<1> DEFINE m == mem[s]
<1>0. /\ s \in Proc /\ m \in Memory /\ ScanTargets(s)
      /\ pc \in [Proc -> ScanLabels \cup TrustLabels] /\ mem \in [Proc -> Memory]
  BY DEF Proc, TypeOK, ControlTypeOK, OneTargetPerPort
<1>1. CASE StartScan(s)
  <2> DEFINE n == [m EXCEPT !.existed = baseline.state # "absent"]
  <2>1. n.targets = m.targets /\ m.targets = {}
    BY <1>0, <1>1 DEF Memory, ScanTargets, StartScan
  <2>2. Remember(s, n) /\ Goto(s, "stamp")
    BY <1>1 DEF StartScan
  <2> QED BY <2>1, <2>2, TargetsFewer
<1>2. CASE TakeStamp(s)
  BY <1>0, <1>2, TargetsSame DEF TakeStamp, ScanTargets
<1>3. CASE LoadBaseline(s)
  <2> DEFINE n == [m EXCEPT !.corrupt = m.existed /\ baseline.state # "readable",
                            !.store = IF m.existed THEN Loaded ELSE {}]
  <2>1. n.targets = m.targets /\ m.targets = {}
    BY <1>0, <1>3 DEF Memory, ScanTargets, LoadBaseline
  <2>2. Remember(s, n) /\ Goto(s, "list")
    BY <1>3 DEF LoadBaseline
  <2> QED BY <2>1, <2>2, TargetsFewer
<1>4. CASE ListDevices(s)
  <2> DEFINE n == [m EXCEPT !.listed = ListedNow, !.todo = Connected]
  <2>1. n.targets = m.targets /\ m.targets = {}
    BY <1>0, <1>4 DEF Memory, ScanTargets, ListDevices
  <2>2. Remember(s, n) /\ Goto(s, "migrate")
    BY <1>4 DEF ListDevices
  <2> QED BY <2>1, <2>2, TargetsFewer
<1>5. CASE MigrateLegacy(s)
  <2> DEFINE settled == SettledOf(m.listed)
             n == [m EXCEPT !.store = Upgrade(m.store, settled),
                            !.changed = UpgradeChanges(m.store, settled)]
             next == IF m.todo = {} THEN "ready" ELSE "judge"
  <2>1. n.targets = m.targets /\ m.targets = {}
    BY <1>0, <1>5 DEF Memory, ScanTargets, MigrateLegacy
  <2>2. (Remember(s, n) \/ UNCHANGED mem) /\ Goto(s, next)
    BY <1>5 DEF MigrateLegacy, Loop
  <2> HIDE DEF n, next
  <2> QED BY <2>1, <2>2, TargetsFewer, TargetsSame
<1>6. CASE SkipEnumerating(s)
  <2>1. PICK p \in m.todo : /\ Remember(s, [m EXCEPT !.todo = @ \ {p}, !.pending = TRUE])
                            /\ Loop(s, m.todo \ {p}, "judge", "ready")
    BY <1>6 DEF SkipEnumerating
  <2> DEFINE n == [m EXCEPT !.todo = @ \ {p}, !.pending = TRUE]
             next == IF m.todo \ {p} = {} THEN "ready" ELSE "judge"
  <2>2. n.targets = m.targets /\ n.todo \subseteq m.todo
    BY <1>0 DEF Memory
  <2>3. pc[s] = "judge" /\ pc'[s] \in {"judge", "ready"} /\ Goto(s, next) /\ Remember(s, n)
    BY <1>0, <1>6, <2>1 DEF SkipEnumerating, Loop, Goto
  <2> HIDE DEF n, next
  <2> QED BY <2>2, <2>3, TargetsFewer
<1>7. CASE JudgeDevice(s)
  <2>1. PICK l \in m.listed, b \in BOOLEAN :
          /\ l.port \in m.todo
          /\ Remember(s, [m EXCEPT !.store = Learnt(m, l.fp), !.todo = @ \ {l.port},
                            !.targets = IF b
                              THEN @ \cup {[port |-> l.port, model |-> l.fp.model]}
                              ELSE @])
          /\ Loop(s, m.todo \ {l.port}, "judge", "ready")
    <3>1. PICK l \in m.listed :
            LET p == l.port
                S == Learnt(m, l.fp)
                target == /\ ~IsTrusted(m.corrupt, S, l.fp)
                          /\ IsDeauthTarget(p, l.fp, IsDeauthorized(p))
            IN  /\ IsNext(p, m.todo)
                /\ Remember(s, [m EXCEPT
                     !.store = S,
                     !.todo = @ \ {p},
                     !.targets = IF target
                                   THEN @ \cup {[port |-> p, model |-> l.fp.model]}
                                   ELSE @])
                /\ Loop(s, m.todo \ {p}, "judge", "ready")
      BY <1>7 DEF JudgeDevice
    <3> DEFINE b == /\ ~IsTrusted(m.corrupt, Learnt(m, l.fp), l.fp)
                    /\ IsDeauthTarget(l.port, l.fp, IsDeauthorized(l.port))
    <3>2. b \in BOOLEAN
      BY DEF IsTrusted, IsDeauthTarget
    <3>3. l.port \in m.todo
      BY <3>1 DEF IsNext
    <3> QED BY <3>1, <3>2, <3>3
  <2> DEFINE new == [port |-> l.port, model |-> l.fp.model]
             T == IF b THEN m.targets \cup {new} ELSE m.targets
             n == [m EXCEPT !.store = Learnt(m, l.fp), !.todo = @ \ {l.port}, !.targets = T]
             next == IF m.todo \ {l.port} = {} THEN "ready" ELSE "judge"
  <2>2. n.targets = T /\ n.todo = m.todo \ {l.port}
    BY <1>0 DEF Memory
  <2>3. pc[s] = "judge" /\ Goto(s, next) /\ Remember(s, n)
    BY <1>7, <2>1 DEF JudgeDevice, Loop
  <2>4. mem'[s] = n /\ pc'[s] \in {"judge", "ready"}
    BY <1>0, <2>3 DEF Remember, Goto
  <2>5. \A t \in m.targets : t.port # l.port /\ t.port \notin n.todo
    BY <1>0, <2>1, <2>2, <2>3 DEF ScanTargets
  <2>6. new.port = l.port
    OBVIOUS
  <2> HIDE DEF new, n, next
  <2>7. ScanTargets(s)'
    BY <1>0, <2>2, <2>4, <2>5, <2>6 DEF ScanTargets
  <2> QED BY <1>0, <2>3, <2>7, TargetsElse
<1>8. CASE Prune(s)
  <2>1. UNCHANGED mem /\ (Goto(s, "lock") \/ Goto(s, "savePruned"))
    BY <1>8 DEF Prune
  <2> QED BY <2>1, TargetsSame
<1>9. CASE SavePruned(s)
  BY <1>9, TargetsSame DEF SavePruned
<1>10. CASE SkipLock(s)
  BY <1>10, TargetsForgotten DEF SkipLock
<1>11. CASE TakeLock(s)
  <2> DEFINE n == BlockMemory(m)
  <2>1. n.targets = m.targets
    BY DEF BlockMemory, NoMemory
  <2>2. CASE Remember(s, n) /\ Goto(s, "readDeclined")
    <3>1. pc'[s] = "readDeclined"
      BY <1>0, <2>2 DEF Goto
    <3> HIDE DEF n
    <3> QED BY <2>1, <2>2, <3>1, TargetsFewer
  <2>3. CASE Forget(s) /\ Goto(s, "report")
    BY <2>3, TargetsForgotten
  <2> QED BY <1>11, <2>2, <2>3 DEF TakeLock
<1>12. CASE ReadDeclined(s)
  <2>1. UNCHANGED mem /\ (Goto(s, "block") \/ Goto(s, "saveFresh"))
    BY <1>12 DEF ReadDeclined
  <2> QED BY <2>1, TargetsSame
<1>13. CASE SaveFresh(s)
  BY <1>13, TargetsSame DEF SaveFresh
<1>14. CASE BlockNext(s)
  <2>1. CASE Goto(s, "deauth") /\ UNCHANGED mem
    BY <2>1, TargetsSame
  <2>2. CASE \E t \in m.targets : Remember(s, [m EXCEPT !.targets = @ \ {t}]) /\ UNCHANGED pc
    <3>1. PICK t : Remember(s, [m EXCEPT !.targets = @ \ {t}]) /\ UNCHANGED pc
      BY <2>2
    <3>2. [m EXCEPT !.targets = @ \ {t}].targets \subseteq m.targets
      BY <1>0 DEF Memory
    <3>3. pc'[s] = "block"
      BY <1>14, <3>1 DEF BlockNext
    <3> QED BY <3>1, <3>2, <3>3, TargetsFewer
  <2> QED BY <1>14, <2>1, <2>2 DEF BlockNext
<1>15. CASE Deauthorize(s)
  <2>1. PICK t : Remember(s, [m EXCEPT !.targets = @ \ {t}])
    BY <1>15 DEF Deauthorize
  <2>2. [m EXCEPT !.targets = @ \ {t}].targets \subseteq m.targets
    BY <1>0 DEF Memory
  <2>3. pc'[s] = "block" /\ Goto(s, "block")
    BY <1>0, <1>15 DEF Deauthorize, Goto
  <2> QED BY <2>1, <2>2, <2>3, TargetsFewer
<1>16. CASE DeauthFails(s)
  <2>1. PICK t : Remember(s, [m EXCEPT !.targets = @ \ {t}, !.failed = TRUE])
    BY <1>16 DEF DeauthFails
  <2>2. [m EXCEPT !.targets = @ \ {t}, !.failed = TRUE].targets \subseteq m.targets
    BY <1>0 DEF Memory
  <2>3. pc'[s] = "block" /\ Goto(s, "block")
    BY <1>0, <1>16 DEF DeauthFails, Goto
  <2> QED BY <2>1, <2>2, <2>3, TargetsFewer
<1>17. CASE EndBlocks(s)
  BY <1>17, TargetsSame DEF EndBlocks
<1>18. CASE EndScan(s)
  BY <1>18, TargetsForgotten DEF EndScan
<1>19. CASE FirstRunReady(s)
  <2> DEFINE n == [m EXCEPT !.wantsSave = WantsSave(m)]
  <2>1. n.targets = m.targets
    BY <1>0 DEF Memory
  <2>2. Remember(s, n) /\ Goto(s, "prune") /\ pc'[s] = "prune"
    BY <1>0, <1>19 DEF FirstRunReady, Goto
  <2> HIDE DEF n
  <2> QED BY <2>1, <2>2, TargetsFewer
<1>20. CASE CheckHub(s)
  BY <1>20, TargetsSame DEF CheckHub
<1> QED BY <1>1, <1>2, <1>3, <1>4, <1>5, <1>6, <1>7, <1>8, <1>9, <1>10, <1>11, <1>12,
           <1>13, <1>14, <1>15, <1>16, <1>17, <1>18, <1>19, <1>20 DEF ScanStep

\* A truster has no targets of its own to keep.
LEMMA TargetsTrust ==
  ASSUME TypeOK, OneTargetPerPort, NEW t \in Truster, StartTrust(t) \/ TrustStep(t)
  PROVE  OneTargetPerPort'
<1>1. t \in Proc /\ t \notin Scanner
  BY ArmorAssumption DEF Proc
<1> QED BY <1>1, TrustMoves, TargetsElse

\* Every scan keeps to one target per port.
LEMMA TargetsKept == Spec => []OneTargetPerPort
<1>1. Init => OneTargetPerPort
  BY DEF Init, OneTargetPerPort, ScanTargets, NoMemory, Proc
<1>2. TypeOK /\ OneTargetPerPort /\ [Next]_vars => OneTargetPerPort'
  <2> SUFFICES ASSUME TypeOK, OneTargetPerPort, [Next]_vars
               PROVE  OneTargetPerPort'
    OBVIOUS
  <2>1. ASSUME UNCHANGED <<pc, mem>>
        PROVE  OneTargetPerPort'
    BY <2>1 DEF OneTargetPerPort, ScanTargets
  <2>2. CASE Environment
    BY <2>1, <2>2 DEF Environment, Plug, Unplug, Enumerate, ToggleArmor, Tick
  <2> QED BY <2>1, <2>2, TargetsScan, TargetsTrust DEF Next, vars
<1> QED BY <1>1, <1>2, TypeCorrect, PTL DEF Spec

Blocking(s) == pc[s] \in {"block", "deauth", "write"}

\* What holds of a scan while it blocks: it knows every failure within the window, and
\* the target whose dialog is open is none of those it knows.
ScanRecords(s) ==
  /\ Blocking(s) => failures \subseteq kept[s]
  /\ pc[s] \in {"deauth", "write"} =>
       \A t \in mem[s].targets, f \in kept[s] :
         NextTarget(s, t) => ~(f.port = t.port /\ f.model = t.model)

\* The failures within the window are in the file, unless a scan is blocking devices,
\* has added to them, and will write what it knows.
Recorded ==
  /\ \A f \in failures : f.age < Retry
  /\ \/ failures \subseteq declined
     \/ \E s \in Scanner : Blocking(s) /\ mem[s].failed
  /\ \A s \in Scanner : ScanRecords(s)

\* What a process does that is not blocking keeps it, if no failure is lost from the file.
LEMMA RecordedElse ==
  ASSUME TypeOK, Recorded, NEW x \in Proc, NEW l, NEW m,
         Goto(x, l) \/ UNCHANGED pc, Remember(x, m) \/ UNCHANGED mem,
         ~Blocking(x), ~Blocking(x)',
         \A y \in Scanner : y # x => kept'[y] = kept[y],
         failures' \subseteq failures,
         failures \subseteq declined => failures' \subseteq declined'
  PROVE  Recorded'
<1>1. \A y \in Scanner : y # x => pc'[y] = pc[y] /\ mem'[y] = mem[y]
  BY OthersStay DEF Proc
<1>2. ASSUME NEW s \in Scanner
      PROVE  ScanRecords(s)'
  <2>1. CASE s = x
    BY <2>1 DEF ScanRecords, Blocking
  <2>2. CASE s # x
    BY <1>1, <2>2 DEF Recorded, ScanRecords, Blocking, NextTarget
  <2> QED BY <2>1, <2>2
<1>3. ASSUME NEW s \in Scanner, Blocking(s), mem[s].failed
      PROVE  (Blocking(s) /\ mem[s].failed)'
  BY <1>1, <1>3 DEF Blocking
<1> QED BY <1>2, <1>3 DEF Recorded

\* So does what happens around the processes, if it leaves the file and what scans know
\* alone.
LEMMA RecordedIdle ==
  ASSUME Recorded, UNCHANGED <<pc, mem, kept, declined>>, failures' \subseteq failures
  PROVE  Recorded'
BY DEF Recorded, ScanRecords, Blocking, NextTarget

\* While one process holds the lock no other blocks devices, so what is not in the file
\* is what this one has added.
LEMMA HolderRecords ==
  ASSUME LockHeld, Recorded, NEW s \in Scanner, NeedsLock(s)
  PROVE  /\ \A y \in Scanner : Blocking(y) => y = s
         /\ failures \subseteq declined \/ (Blocking(s) /\ mem[s].failed)
<1>1. ASSUME NEW y \in Scanner, Blocking(y)
      PROVE  y = s
  BY <1>1 DEF LockHeld, Blocking, NeedsLock, Proc
<1>2. failures \subseteq declined \/ \E y \in Scanner : Blocking(y) /\ mem[y].failed
  BY DEF Recorded
<1>3. CASE \E y \in Scanner : Blocking(y) /\ mem[y].failed
  <2>1. PICK y \in Scanner : Blocking(y) /\ mem[y].failed
    BY <1>3
  <2>2. y = s
    BY <1>1, <2>1
  <2> QED BY <1>1, <2>1, <2>2, Zenon
<1> QED BY <1>1, <1>2, <1>3, Zenon

\* A step of the scan that holds the lock keeps the record if it does so for this scan.
LEMMA RecordedHolder ==
  ASSUME TypeOK, LockHeld, Recorded, NEW s \in Scanner, NeedsLock(s), NEW l, NEW m,
         Goto(s, l) \/ UNCHANGED pc, Remember(s, m) \/ UNCHANGED mem,
         \A f \in failures' : f.age < Retry,
         failures' \subseteq declined' \/ (Blocking(s) /\ mem[s].failed)',
         ScanRecords(s)'
  PROVE  Recorded'
<1>1. \A y \in Scanner : y # s => pc'[y] = pc[y]
  BY OthersStay DEF Proc
<1>2. ASSUME NEW y \in Scanner, y # s
      PROVE  ScanRecords(y)'
  <2>1. ~Blocking(y) /\ pc'[y] = pc[y]
    BY <1>1, <1>2, HolderRecords
  <2> QED BY <2>1 DEF Blocking, ScanRecords
<1> QED BY <1>2 DEF Recorded

\* There is one next target.
LEMMA NextIsOne ==
  ASSUME TypeOK, OneTargetPerPort, NEW s \in Scanner,
         NEW t, NEW u, NextTarget(s, t), NextTarget(s, u)
  PROVE  t = u
<1>1. t \in mem[s].targets /\ u \in mem[s].targets
  BY DEF NextTarget
<1>2. t.port \in Nat /\ u.port \in Nat
  <2>1. mem[s].targets \subseteq Target
    BY DEF TypeOK, ControlTypeOK, Memory, Proc
  <2> QED BY <1>1, <2>1, ArmorAssumption DEF Target
<1>3. t.port <= u.port /\ u.port <= t.port
  BY <1>1 DEF NextTarget, IsNext, Ports
<1> QED BY <1>1, <1>2, <1>3 DEF OneTargetPerPort, ScanTargets
\* A scanner's step keeps the record.
LEMMA RecordedScan ==
  ASSUME TypeOK, LockHeld, OneTargetPerPort, Recorded, NEW s \in Scanner, ScanStep(s)
  PROVE  Recorded'
<1> DEFINE m == mem[s]
<1>0. /\ s \in Proc /\ m \in Memory
      /\ pc \in [Proc -> ScanLabels \cup TrustLabels] /\ mem \in [Proc -> Memory]
      /\ kept \in [Scanner -> SUBSET Failure] /\ failures \in SUBSET Failure
      /\ readAge \in [Scanner -> 0..Retry] /\ declined \in SUBSET Failure
  BY DEF Proc, TypeOK, ControlTypeOK, SharedTypeOK
<1>1. ASSUME NEW l \in ScanLabels \ {"block", "deauth", "write"}, Goto(s, l), ~Blocking(s),
             UNCHANGED mem \/ \E n : Remember(s, n),
             \A y \in Scanner : y # s => kept'[y] = kept[y],
             failures' \subseteq failures,
             failures \subseteq declined => failures' \subseteq declined'
      PROVE  Recorded'
  <2>1. ~Blocking(s)'
    BY <1>0, <1>1 DEF Goto, Blocking
  <2> QED BY <1>0, <1>1, <2>1, RecordedElse
<1>2. CASE \/ StartScan(s) \/ TakeStamp(s) \/ LoadBaseline(s) \/ ListDevices(s)
           \/ MigrateLegacy(s) \/ SkipEnumerating(s) \/ JudgeDevice(s)
           \/ FirstRunReady(s) \/ SkipLock(s) \/ TakeLock(s) \/ EndScan(s)
  <2>1. UNCHANGED <<kept, failures, declined>> /\ ~Blocking(s)
    BY <1>2 DEF StartScan, TakeStamp, LoadBaseline, ListDevices, MigrateLegacy,
                SkipEnumerating, JudgeDevice, FirstRunReady, SkipLock, TakeLock, EndScan, Blocking,
                files, scanVars
  <2>2. \E l \in ScanLabels \ {"block", "deauth", "write"} : Goto(s, l)
    BY <1>2 DEF StartScan, TakeStamp, LoadBaseline, ListDevices, MigrateLegacy,
                SkipEnumerating, JudgeDevice, FirstRunReady, SkipLock, TakeLock, EndScan, Loop, ScanLabels
  <2>3. UNCHANGED mem \/ \E n : Remember(s, n)
    BY <1>2 DEF StartScan, TakeStamp, LoadBaseline, ListDevices, MigrateLegacy,
                SkipEnumerating, JudgeDevice, FirstRunReady, SkipLock, TakeLock, EndScan, Forget
  <2> QED BY <1>1, <2>1, <2>2, <2>3
<1>3. CASE Prune(s)
  <2>1. UNCHANGED <<failures, declined>> /\ ~Blocking(s)
    BY <1>3 DEF Prune, files, Blocking
  <2>2. \A y \in Scanner : y # s => kept'[y] = kept[y]
    BY <1>0, <1>3 DEF Prune
  <2>3. /\ \E l \in ScanLabels \ {"block", "deauth", "write"} : Goto(s, l)
        /\ UNCHANGED mem
    BY <1>3 DEF Prune, ScanLabels
  <2> QED BY <1>1, <2>1, <2>2, <2>3
<1>4. CASE SavePruned(s)
  <2>1. /\ failures' \subseteq failures
        /\ failures \subseteq declined => failures' \subseteq declined'
        /\ \A y \in Scanner : y # s => kept'[y] = kept[y]
    BY <1>0, <1>4 DEF SavePruned
  <2>2. Goto(s, "lock") /\ UNCHANGED mem /\ ~Blocking(s)
    BY <1>4 DEF SavePruned, Blocking
  <2> QED BY <1>1, <2>1, <2>2 DEF ScanLabels
<1>5. CASE ReadDeclined(s)
  <2> DEFINE fresh == Fresh(declined, Ports(m.listed))
  <2>1. NeedsLock(s) /\ ~Blocking(s)
    BY <1>5 DEF ReadDeclined, NeedsLock, Blocking
  <2>2. failures \subseteq declined
    BY <2>1, HolderRecords
  <2>3. CASE fresh = declined
    <3>1. kept'[s] = declined /\ Goto(s, "block") /\ UNCHANGED <<mem, failures, declined>>
      BY <1>0, <1>5, <2>3 DEF ReadDeclined, files
    <3>2. pc'[s] = "block"
      BY <1>0, <3>1 DEF Goto
    <3>3. ScanRecords(s)' /\ failures' \subseteq declined' /\ \A f \in failures' : f.age < Retry
      BY <2>2, <3>1, <3>2 DEF ScanRecords, Recorded
    <3> QED BY <2>1, <3>1, <3>3, RecordedHolder
  <2>4. CASE fresh # declined
    <3>1. /\ Goto(s, "saveFresh") /\ UNCHANGED <<mem, failures, declined>>
          /\ \A y \in Scanner : y # s => kept'[y] = kept[y]
      BY <1>0, <1>5, <2>4 DEF ReadDeclined, files
    <3> QED BY <1>1, <2>1, <3>1 DEF ScanLabels
  <2> QED BY <2>3, <2>4
<1>6. CASE SaveFresh(s)
  <2>1. NeedsLock(s) /\ ~Blocking(s)
    BY <1>6 DEF SaveFresh, NeedsLock, Blocking
  <2>2. failures \subseteq declined
    BY <2>1, HolderRecords
  <2>3. /\ failures' \subseteq failures /\ failures' \subseteq declined'
        /\ declined' = kept'[s] /\ Goto(s, "block") /\ UNCHANGED mem
    BY <1>6, <2>2 DEF SaveFresh, scanVars
  <2>4. pc'[s] = "block"
    BY <1>0, <2>3 DEF Goto
  <2>5. ScanRecords(s)' /\ \A f \in failures' : f.age < Retry
    BY <2>3, <2>4 DEF ScanRecords, Recorded
  <2> QED BY <2>1, <2>3, <2>5, RecordedHolder
<1>7. CASE BlockNext(s)
  <2>1. /\ NeedsLock(s) /\ Blocking(s) /\ UNCHANGED <<kept, failures, declined>>
    BY <1>7 DEF BlockNext, NeedsLock, Blocking, files, scanVars
  <2>2. failures \subseteq kept[s] /\ \A f \in failures : f.age < Retry
    BY <2>1 DEF Recorded, ScanRecords
  <2>3. failures \subseteq declined \/ m.failed
    BY <2>1, HolderRecords
  <2>4. PICK t \in m.targets :
          /\ NextTarget(s, t)
          /\ \/ Remember(s, [m EXCEPT !.targets = @ \ {t}]) /\ UNCHANGED pc
             \/ ~PassedOver(s, t) /\ Goto(s, "deauth") /\ UNCHANGED mem
    BY <1>7 DEF BlockNext
  <2>5. CASE Remember(s, [m EXCEPT !.targets = @ \ {t}]) /\ UNCHANGED pc
    <3> DEFINE n == [m EXCEPT !.targets = @ \ {t}]
    <3>1. n.failed = m.failed /\ mem'[s] = n /\ pc'[s] = "block"
      BY <1>0, <1>7, <2>5 DEF Remember, Memory, BlockNext
    <3> HIDE DEF n
    <3>2. failures' \subseteq declined' \/ (Blocking(s) /\ mem[s].failed)'
      BY <2>1, <2>3, <3>1 DEF Blocking
    <3>3. ScanRecords(s)' /\ \A f \in failures' : f.age < Retry
      BY <2>1, <2>2, <3>1 DEF ScanRecords
    <3> QED BY <2>1, <2>5, <3>2, <3>3, RecordedHolder
  <2>6. CASE ~PassedOver(s, t) /\ Goto(s, "deauth") /\ UNCHANGED mem
    <3>1. mem'[s] = m /\ pc'[s] = "deauth"
      BY <1>0, <2>6 DEF Goto
    <3>2. failures' \subseteq declined' \/ (Blocking(s) /\ mem[s].failed)'
      BY <2>1, <2>3, <3>1 DEF Blocking
    <3>3. \A u \in m.targets, f \in kept[s] :
            NextTarget(s, u) => ~(f.port = u.port /\ f.model = u.model)
      BY <2>4, <2>6, NextIsOne DEF PassedOver
    <3>4. ScanRecords(s)' /\ \A f \in failures' : f.age < Retry
      BY <2>1, <2>2, <3>1, <3>3 DEF ScanRecords, NextTarget
    <3> QED BY <2>1, <2>6, <3>2, <3>4, RecordedHolder
  <2> QED BY <2>4, <2>5, <2>6
<1>8. CASE Deauthorize(s)
  <2>1. NeedsLock(s) /\ Blocking(s) /\ UNCHANGED <<kept, failures, declined>>
    BY <1>8 DEF Deauthorize, NeedsLock, Blocking, files
  <2>2. failures \subseteq kept[s] /\ \A f \in failures : f.age < Retry
    BY <2>1 DEF Recorded, ScanRecords
  <2>3. failures \subseteq declined \/ m.failed
    BY <2>1, HolderRecords
  <2>4. PICK t : Remember(s, [m EXCEPT !.targets = @ \ {t}])
    BY <1>8 DEF Deauthorize
  <2> DEFINE n == [m EXCEPT !.targets = @ \ {t}]
  <2>5. n.failed = m.failed /\ mem'[s] = n /\ pc'[s] = "block" /\ Goto(s, "block")
    BY <1>0, <1>8, <2>4 DEF Remember, Goto, Memory, Deauthorize
  <2> HIDE DEF n
  <2>6. failures' \subseteq declined' \/ (Blocking(s) /\ mem[s].failed)'
    BY <2>1, <2>3, <2>5 DEF Blocking
  <2>7. ScanRecords(s)' /\ \A f \in failures' : f.age < Retry
    BY <2>1, <2>2, <2>5 DEF ScanRecords
  <2> QED BY <2>1, <2>4, <2>5, <2>6, <2>7, RecordedHolder
<1>9. CASE DeauthFails(s)
  <2>1. NeedsLock(s) /\ Blocking(s) /\ pc'[s] = "block" /\ Goto(s, "block")
    BY <1>0, <1>9 DEF DeauthFails, NeedsLock, Blocking, Goto
  <2>2. failures \subseteq kept[s] /\ \A f \in failures : f.age < Retry
    BY <2>1 DEF Recorded, ScanRecords
  <2>3. PICK t \in m.targets :
          LET f == [port |-> t.port, model |-> t.model, age |-> readAge[s]] IN
            /\ kept' = [kept EXCEPT ![s] = @ \cup {f}]
            /\ failures' = failures \cup (IF f.age < Retry THEN {f} ELSE {})
            /\ Remember(s, [m EXCEPT !.targets = @ \ {t}, !.failed = TRUE])
    BY <1>9 DEF DeauthFails
  <2> DEFINE f == [port |-> t.port, model |-> t.model, age |-> readAge[s]]
             n == [m EXCEPT !.targets = @ \ {t}, !.failed = TRUE]
  <2>4. n.failed /\ mem'[s] = n /\ Remember(s, n)
    BY <1>0, <2>3 DEF Remember, Memory
  <2>5. kept'[s] = kept[s] \cup {f}
    BY <1>0, <2>3
  <2>6. failures' \subseteq kept'[s] /\ \A g \in failures' : g.age < Retry
    BY <2>2, <2>3, <2>5
  <2> HIDE DEF f, n
  <2>7. (Blocking(s) /\ mem[s].failed)'
    BY <2>1, <2>4 DEF Blocking
  <2>8. ScanRecords(s)'
    BY <2>1, <2>6 DEF ScanRecords
  <2> QED BY <2>1, <2>4, <2>6, <2>7, <2>8, RecordedHolder
<1>10. CASE EndBlocks(s)
  <2>1. /\ NeedsLock(s) /\ Blocking(s) /\ pc'[s] = "report" /\ Goto(s, "report")
        /\ UNCHANGED <<mem, failures>>
        /\ declined' = IF m.failed THEN kept[s] ELSE declined
    BY <1>0, <1>10 DEF EndBlocks, NeedsLock, Blocking, Goto
  <2>2. failures \subseteq kept[s] /\ \A f \in failures : f.age < Retry
    BY <2>1 DEF Recorded, ScanRecords
  <2>3. failures \subseteq declined \/ m.failed
    BY <2>1, HolderRecords
  <2>4. failures' \subseteq declined'
    BY <2>1, <2>2, <2>3
  <2>5. ScanRecords(s)' /\ \A f \in failures' : f.age < Retry
    BY <2>1, <2>2 DEF ScanRecords, Blocking
  <2> QED BY <2>1, <2>4, <2>5, RecordedHolder
<1>11. CASE CheckHub(s)
  <2>1. /\ NeedsLock(s) /\ Blocking(s) /\ pc[s] = "deauth"
        /\ UNCHANGED <<mem, kept, failures, declined>> /\ Goto(s, "write")
    BY <1>11 DEF CheckHub, NeedsLock, Blocking, files, scanVars
  <2>2. pc'[s] = "write"
    BY <1>0, <2>1 DEF Goto
  <2>3. failures' \subseteq declined' \/ (Blocking(s) /\ mem[s].failed)'
    BY <2>1, <2>2, HolderRecords DEF Blocking
  <2>4. ScanRecords(s)' /\ \A f \in failures' : f.age < Retry
    BY <2>1, <2>2 DEF Recorded, ScanRecords, Blocking, NextTarget
  <2> QED BY <2>1, <2>3, <2>4, RecordedHolder
<1> QED BY <1>2, <1>3, <1>4, <1>5, <1>6, <1>7, <1>8, <1>9, <1>10, <1>11 DEF ScanStep

\* A truster's step keeps the record: it either leaves it alone or forgets all of it.
LEMMA RecordedTrust ==
  ASSUME TypeOK, Recorded, NEW t \in Truster, StartTrust(t) \/ TrustStep(t)
  PROVE  Recorded'
<1>1. t \in Proc /\ t \notin Scanner /\ pc[t] \in TrustLabels
  BY ArmorAssumption DEF Proc, TypeOK, ControlTypeOK
<1>2. \E l \in TrustLabels : Goto(t, l)
  BY TrustMoves
<1>3. UNCHANGED mem \/ \E m : Remember(t, m)
  BY TrustMoves
<1>4. /\ UNCHANGED kept
      /\ \/ UNCHANGED <<failures, declined>>
         \/ failures' = {}
  BY DEF StartTrust, TrustStep, LockForTrust, FindBlocked, ReauthorizeNext, ListForTrust,
         LoadForTrust, Observe, MergeNext, SaveTrust, SaveTrustFails, ClearDeclined,
         files, scanVars
<1>5. ~Blocking(t) /\ ~Blocking(t)'
  BY <1>1, <1>2 DEF Blocking, TrustLabels, Goto, TypeOK, ControlTypeOK
<1> QED BY <1>1, <1>2, <1>3, <1>4, <1>5, RecordedElse

\* The clock ages all records alike.
LEMMA RecordedTick ==
  ASSUME TypeOK, Recorded, Tick
  PROVE  Recorded'
<1>0. /\ failures \in SUBSET Failure /\ kept \in [Scanner -> SUBSET Failure]
  BY DEF TypeOK, SharedTypeOK
<1>1. ASSUME NEW F, NEW G, F \subseteq G
      PROVE  Aged(F) \subseteq Aged(G)
  BY <1>1 DEF Aged
<1>2. /\ failures' \subseteq Aged(failures) /\ \A f \in failures' : f.age < Retry
      /\ declined' = Aged(declined) /\ \A s \in Scanner : kept'[s] = Aged(kept[s])
      /\ UNCHANGED <<pc, mem>>
  BY DEF Tick
<1>3. ASSUME NEW s \in Scanner
      PROVE  ScanRecords(s)'
  <2>1. Blocking(s)' => failures' \subseteq kept'[s]
    BY <1>1, <1>2 DEF Recorded, ScanRecords, Blocking
  <2>2. ASSUME pc[s] \in {"deauth", "write"}, NEW t \in mem[s].targets, NEW g \in kept'[s],
               NextTarget(s, t)
        PROVE  ~(g.port = t.port /\ g.model = t.model)
    <3>1. PICK f \in kept[s] : g = [f EXCEPT !.age = Older(f.age)]
      BY <1>2 DEF Aged
    <3>2. g.port = f.port /\ g.model = f.model
      BY <1>0, <3>1 DEF Failure
    <3> QED BY <2>2, <3>2 DEF Recorded, ScanRecords
  <2> QED BY <1>2, <2>1, <2>2 DEF ScanRecords, NextTarget
<1>4. \/ failures' \subseteq declined'
      \/ \E s \in Scanner : (Blocking(s) /\ mem[s].failed)'
  BY <1>1, <1>2 DEF Recorded, Blocking
<1> QED BY <1>2, <1>3, <1>4 DEF Recorded

\* The record is kept by every step.
LEMMA RecordedStep ==
  TypeOK /\ LockHeld /\ OneTargetPerPort /\ Recorded /\ [Next]_vars => Recorded'
<1> SUFFICES ASSUME TypeOK, LockHeld, OneTargetPerPort, Recorded, [Next]_vars
             PROVE  Recorded'
  OBVIOUS
<1>1. CASE Environment
  <2>1. ASSUME ~Tick
        PROVE  UNCHANGED <<pc, mem, kept, declined>> /\ failures' \subseteq failures
    BY <1>1, <2>1 DEF Environment, Plug, Unplug, Enumerate, ToggleArmor, files, scanVars
  <2> QED BY <2>1, RecordedIdle, RecordedTick
<1>2. CASE UNCHANGED vars
  BY <1>2, RecordedIdle DEF vars, files, scanVars
<1> QED BY <1>1, <1>2, RecordedScan, RecordedTrust DEF Next

(***************************************************************************)
(* For any number of scans and trusts, and any window: while a dialog asks *)
(* to block a device, no block of it that failed within the window is on   *)
(* record, nor was when it opened.                                         *)
(***************************************************************************)
THEOREM FailuresHeldBack == Spec => []RetryWindow
<1>1. Init => Recorded
  BY DEF Init, Recorded, ScanRecords, Blocking, Proc
<1>2. Recorded => RetryWindow
  BY DEF Recorded, ScanRecords, Blocking, RetryWindow
<1> QED BY <1>1, <1>2, RecordedStep, TypeCorrect, LockKept, TargetsKept, PTL DEF Spec

=============================================================================
