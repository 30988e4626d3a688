--------------------------- MODULE UsbTrustProofs ----------------------------
(***************************************************************************)
(* What the scans and "Trust Devices" may do to the baseline of UsbArmor,  *)
(* proved for any processes, ports, devices and settings.                  *)
(***************************************************************************)
EXTENDS UsbArmorProofs

-----------------------------------------------------------------------------
(* What parsing, upgrading and trusting keep of a store, and add to it. *)

\* Parsing keeps the entries of approved devices.
LEMMA ParsedKeeps ==
  ASSUME NEW S \in SUBSET Fingerprint
  PROVE  Approved(S) \subseteq Parsed(S)
BY DEF Approved, Parsed, KnownIfs

\* A store that was parsed has no empty interface set left to parse.
LEMMA ParsedTwice ==
  ASSUME NEW S \in SUBSET Fingerprint
  PROVE  Parsed(Parsed(S)) = Parsed(S)
<1>1. NoIfs # {}
  BY FingerprintAssumption
<1>2. \A e \in Fingerprint : [e EXCEPT !.ifs = NoIfs].ifs = NoIfs
  BY DEF Fingerprint
<1> QED BY <1>1, <1>2 DEF Parsed

\* Upgrading keeps the entries of approved devices: it drops legacy entries only.
LEMMA UpgradeKeeps ==
  ASSUME NEW S \in SUBSET Fingerprint, NEW D
  PROVE  Approved(S) \subseteq Upgrade(S, D)
BY DEF Approved, Upgrade, Upgradable, KnownIfs

\* Trusting keeps the entries of approved devices.
LEMMA TrustKeeps ==
  ASSUME NEW S \in SUBSET Fingerprint, NEW d
  PROVE  Approved(S) \subseteq Trust(S, d)
BY UpgradeKeeps DEF Trust, Approved

\* What a device read as an entry vouches for, the legacy entry that vouches for
\* the device vouches for, too, even if the entry is read as a legacy one.
LEMMA LegacyCovers ==
  ASSUME NEW e \in Fingerprint, NEW n \in Fingerprint, NEW d \in Fingerprint,
         IsLegacy(e), Matches(e, n),
         \/ Matches(n, d)
         \/ Matches([n EXCEPT !.ifs = NoIfs], d)
  PROVE  Matches(e, d)
<1>1. n.model = d.model /\ (n.serial # NoSerial => d.serial = n.serial)
  <2> DEFINE bare == [n EXCEPT !.ifs = NoIfs]
  <2>1. bare.model = n.model /\ bare.serial = n.serial
    BY DEF Fingerprint
  <2> QED BY <2>1 DEF Matches, SameModel
<1> QED BY <1>1 DEF Matches, SameModel

\* Upgrading vouches for no device, on disk, that the store did not vouch for.
LEMMA UpgradeNarrows ==
  ASSUME NEW S \in SUBSET Fingerprint, NEW D \in SUBSET Fingerprint,
         NEW d \in Fingerprint, Vouched(Parsed(Upgrade(S, D)), d)
  PROVE  Vouched(Parsed(S), d)
<1>1. PICK n \in Upgrade(S, D) : \/ n.ifs # {} /\ Matches(n, d)
                                 \/ n.ifs = {} /\ Matches([n EXCEPT !.ifs = NoIfs], d)
  BY DEF Vouched, Parsed
<1>2. CASE n \in S
  BY <1>1, <1>2 DEF Vouched, Parsed
<1>3. CASE n \notin S
  <2>1. n \in D /\ Vouched(Upgradable(S, D), n)
    BY <1>1, <1>3 DEF Upgrade, FullEntries
  <2>2. PICK e \in Upgradable(S, D) : Matches(e, n)
    BY <2>1 DEF Vouched
  <2>3. e \in S /\ IsLegacy(e) /\ e.ifs # {}
    BY <2>2, FingerprintAssumption DEF Upgradable, IsLegacy
  <2>4. Matches(e, d)
    BY <1>1, <2>1, <2>2, <2>3, LegacyCovers
  <2>5. e \in Parsed(S)
    BY <2>3 DEF Parsed
  <2> QED BY <2>4, <2>5 DEF Vouched
<1> QED BY <1>2, <1>3

-----------------------------------------------------------------------------
(* What a process that may save has in memory. *)

\* The labels at which a scan's store is the one it loaded, or made of it.
HasStore(s) == pc[s] \in {"list", "migrate", "judge", "ready", "prune", "savePruned", "lock"}

\* A scan that found a file nobody has written since has every approved device of
\* the file, and trusts none that the file does not.
ScanFaithful(s) ==
  HasStore(s) /\ mem[s].existed /\ stampOk[s] =>
    /\ Approved(baseline.entries) \subseteq mem[s].store
    /\ \A d \in Fingerprint : Vouched(Parsed(mem[s].store), d) => TrustedOnDisk(d)

\* A trust that has loaded the file has every approved device of it.
MergeFaithful(t) ==
  pc[t] \in {"observe", "merge", "save"} =>
    Approved(baseline.entries) \subseteq mem[t].store

Faithful ==
  /\ \A s \in Scanner : ScanFaithful(s)
  /\ \A t \in Truster : MergeFaithful(t)

\* What a process loads has every approved device of the file, and trusts no other.
LEMMA LoadedFaithful ==
  ASSUME TypeOK
  PROVE  /\ Approved(baseline.entries) \subseteq Loaded
         /\ \A d \in Fingerprint : Vouched(Parsed(Loaded), d) => TrustedOnDisk(d)
<1>1. baseline \in Baseline /\ baseline.entries \in SUBSET Fingerprint
  BY DEF TypeOK, SharedTypeOK, Baseline
<1>2. CASE baseline.state = "readable"
  BY <1>1, <1>2, ParsedKeeps, ParsedTwice DEF Loaded, TrustedOnDisk
<1>3. CASE baseline.state # "readable"
  <2>1. baseline.entries = {} /\ Loaded = {}
    BY <1>1, <1>3 DEF Baseline, Loaded
  <2> QED BY <2>1 DEF Approved, Vouched, Parsed
<1> QED BY <1>2, <1>3

\* A process that a step leaves where it is, with its memory, stays faithful as long
\* as the file stays the same.
LEMMA FaithfulElse ==
  ASSUME TypeOK, Faithful, NEW x \in Proc, NEW l, NEW m,
         UNCHANGED baseline,
         Goto(x, l) \/ UNCHANGED pc, Remember(x, m) \/ UNCHANGED mem,
         \A s \in Scanner : s # x => stampOk'[s] = stampOk[s],
         x \in Scanner => ScanFaithful(x)',
         x \in Truster => MergeFaithful(x)'
  PROVE  Faithful'
<1>1. \A y \in Proc : y # x => pc'[y] = pc[y] /\ mem'[y] = mem[y]
  BY DEF Goto, Remember, TypeOK, ControlTypeOK
<1>2. ASSUME NEW s \in Scanner, s # x
      PROVE  ScanFaithful(s)'
  <2>1. s \in Proc
    BY DEF Proc
  <2> QED BY <1>1, <1>2, <2>1 DEF Faithful, ScanFaithful, HasStore, TrustedOnDisk
<1>3. ASSUME NEW t \in Truster, t # x
      PROVE  MergeFaithful(t)'
  <2>1. t \in Proc
    BY DEF Proc
  <2> QED BY <1>1, <1>3, <2>1 DEF Faithful, MergeFaithful
<1> QED BY <1>2, <1>3 DEF Faithful

\* A step that moves no process and writes no file keeps them faithful.
LEMMA FaithfulIdle ==
  ASSUME Faithful, UNCHANGED <<baseline, pc, mem, stampOk>>
  PROVE  Faithful'
BY DEF Faithful, ScanFaithful, MergeFaithful, HasStore, TrustedOnDisk

\* A save leaves nobody unfaithful: every scan's stamp is void, and no trust but the
\* one that saves is between loading and saving, since it would hold the lock.
LEMMA FaithfulSave ==
  ASSUME TypeOK, LockHeld, NEW x \in Proc, NEW S, NEW l,
         lock \in {x, Nobody}, SaveBaseline(S), Goto(x, l),
         l \notin {"observe", "merge", "save"}
  PROVE  Faithful'
<1>1. \A s \in Scanner : ScanFaithful(s)'
  BY DEF SaveBaseline, ScanFaithful
<1>2. ASSUME NEW t \in Truster
      PROVE  MergeFaithful(t)'
  <2>1. t \in Proc
    BY DEF Proc
  <2>2. CASE t = x
    BY <2>1, <2>2 DEF Goto, MergeFaithful, TypeOK, ControlTypeOK
  <2>3. CASE t # x
    <3>1. ~NeedsLock(t)
      BY <2>1, <2>3, ArmorAssumption DEF LockHeld
    <3>2. pc'[t] = pc[t]
      BY <2>1, <2>3 DEF Goto, TypeOK, ControlTypeOK
    <3> QED BY <3>1, <3>2 DEF NeedsLock, TrustLabels, MergeFaithful
  <2> QED BY <2>2, <2>3
<1> QED BY <1>1, <1>2 DEF Faithful

\* A scan without a store, before it has loaded one or after it has let go of it.
LEMMA FaithfulWithout ==
  ASSUME TypeOK, Faithful, NEW s \in Scanner, NEW l, Goto(s, l),
         l \notin {"list", "migrate", "judge", "ready", "prune", "savePruned", "lock"},
         NEW m, Remember(s, m) \/ UNCHANGED mem, UNCHANGED baseline,
         \A y \in Scanner : y # s => stampOk'[y] = stampOk[y]
  PROVE  Faithful'
<1>1. s \in Proc /\ s \notin Truster
  BY ArmorAssumption DEF Proc
<1>2. ScanFaithful(s)'
  BY <1>1 DEF Goto, TypeOK, ControlTypeOK, ScanFaithful, HasStore
<1> QED BY <1>1, <1>2, FaithfulElse

\* A scan whose step keeps the approved devices of its store, and makes it vouch for
\* no other, stays faithful.
LEMMA FaithfulWith ==
  ASSUME TypeOK, Faithful, NEW s \in Scanner, HasStore(s), NEW l, Goto(s, l),
         NEW m, Remember(s, m), UNCHANGED <<baseline, stampOk>>,
         m.existed = mem[s].existed,
         m.existed =>
           /\ Approved(mem[s].store) \subseteq m.store
           /\ \A d \in Fingerprint :
                Vouched(Parsed(m.store), d) => Vouched(Parsed(mem[s].store), d)
  PROVE  Faithful'
<1>1. s \in Proc /\ s \notin Truster
  BY ArmorAssumption DEF Proc
<1>2. mem'[s] = m
  BY <1>1 DEF Remember, TypeOK, ControlTypeOK
<1>3. ScanFaithful(s)'
  <2> SUFFICES ASSUME m.existed, stampOk[s]
               PROVE  /\ Approved(baseline.entries) \subseteq m.store
                      /\ \A d \in Fingerprint :
                           Vouched(Parsed(m.store), d) => TrustedOnDisk(d)
    BY <1>2 DEF ScanFaithful, TrustedOnDisk
  <2>1. /\ Approved(baseline.entries) \subseteq mem[s].store
        /\ \A d \in Fingerprint : Vouched(Parsed(mem[s].store), d) => TrustedOnDisk(d)
    BY DEF Faithful, ScanFaithful
  <2>2. Approved(baseline.entries) \subseteq Approved(mem[s].store)
    BY <2>1 DEF Approved
  <2> QED BY <2>1, <2>2
<1> QED BY <1>1, <1>3, FaithfulElse

\* A scanner's step keeps everybody faithful.
LEMMA FaithfulScan ==
  ASSUME TypeOK, LockHeld, Faithful, NEW s \in Scanner, ScanStep(s)
  PROVE  Faithful'
<1> DEFINE m == mem[s]
<1>0. /\ s \in Proc /\ s \notin Truster /\ m \in Memory
      /\ pc \in [Proc -> ScanLabels \cup TrustLabels] /\ mem \in [Proc -> Memory]
      /\ m.store \in SUBSET Fingerprint
  BY ArmorAssumption DEF Proc, TypeOK, ControlTypeOK, Memory
<1>1. CASE StartScan(s)
  BY <1>1, FaithfulWithout DEF StartScan, files
<1>2. CASE TakeStamp(s)
  <2>1. \A y \in Scanner : y # s => stampOk'[y] = stampOk[y]
    BY <1>2 DEF TakeStamp, TypeOK
  <2> QED BY <1>2, <2>1, FaithfulWithout DEF TakeStamp, files
<1>3. CASE LoadBaseline(s)
  <2>1. mem'[s].existed = m.existed /\ (m.existed => mem'[s].store = Loaded)
    BY <1>0, <1>3 DEF LoadBaseline, Remember, Memory
  <2>2. ScanFaithful(s)'
    BY <1>3, <2>1, LoadedFaithful DEF LoadBaseline, files, ScanFaithful, TrustedOnDisk
  <2> QED BY <1>0, <1>3, <2>2, FaithfulElse DEF LoadBaseline, files, scanVars
<1>4. CASE ListDevices(s)
  <2> DEFINE n == [m EXCEPT !.listed = ListedNow, !.todo = Connected]
  <2>1. n.existed = m.existed /\ n.store = m.store
    BY <1>0 DEF Memory
  <2>2. HasStore(s) /\ Goto(s, "migrate") /\ Remember(s, n)
        /\ UNCHANGED <<baseline, stampOk>>
    BY <1>4 DEF ListDevices, HasStore, files, scanVars
  <2> HIDE DEF n
  <2> QED BY <2>1, <2>2, FaithfulWith DEF Approved
<1>5. CASE MigrateLegacy(s)
  <2> DEFINE settled == SettledOf(m.listed)
             n == [m EXCEPT !.store = Upgrade(m.store, settled),
                            !.changed = UpgradeChanges(m.store, settled)]
  <2>1. settled \in SUBSET Fingerprint
    BY <1>0 DEF Memory, SettledOf
  <2>2. HasStore(s) /\ UNCHANGED <<baseline, stampOk>>
        /\ (Goto(s, "judge") \/ Goto(s, "ready"))
    BY <1>5 DEF MigrateLegacy, Loop, HasStore, files, scanVars
  <2>3. CASE UNCHANGED mem
    <3>1. Remember(s, m)
      BY <1>0, <2>3 DEF Remember
    <3> QED BY <2>2, <3>1, FaithfulWith DEF Approved
  <2>4. CASE Remember(s, n)
    <3>1. n.existed = m.existed /\ n.store = Upgrade(m.store, settled)
      BY <1>0 DEF Memory
    <3>2. Approved(m.store) \subseteq n.store
      BY <1>0, <3>1, UpgradeKeeps
    <3>3. \A d \in Fingerprint : Vouched(Parsed(n.store), d) => Vouched(Parsed(m.store), d)
      BY <1>0, <2>1, <3>1, UpgradeNarrows
    <3> HIDE DEF n, settled
    <3> QED BY <2>2, <2>4, <3>1, <3>2, <3>3, FaithfulWith
  <2> QED BY <1>5, <2>3, <2>4 DEF MigrateLegacy
<1>6. CASE SkipEnumerating(s)
  <2>1. PICK p \in m.todo : Remember(s, [m EXCEPT !.todo = @ \ {p}, !.pending = TRUE])
    BY <1>6 DEF SkipEnumerating
  <2> DEFINE n == [m EXCEPT !.todo = @ \ {p}, !.pending = TRUE]
  <2>2. n.existed = m.existed /\ n.store = m.store
    BY <1>0 DEF Memory
  <2>3. HasStore(s) /\ UNCHANGED <<baseline, stampOk>>
        /\ (Goto(s, "judge") \/ Goto(s, "ready"))
    BY <1>6 DEF SkipEnumerating, Loop, HasStore, files, scanVars
  <2>4. Remember(s, n)
    BY <2>1
  <2> HIDE DEF n
  <2> QED BY <2>2, <2>3, <2>4, FaithfulWith DEF Approved
<1>7. CASE JudgeDevice(s)
  <2>1. PICK l, targets :
          Remember(s, [m EXCEPT !.store = Learnt(m, l.fp), !.todo = @ \ {l.port},
                                !.targets = targets])
    BY <1>7 DEF JudgeDevice
  <2> DEFINE n == [m EXCEPT !.store = Learnt(m, l.fp), !.todo = @ \ {l.port},
                            !.targets = targets]
  <2>2. n.existed = m.existed /\ (m.existed => n.store = m.store)
    BY <1>0 DEF Memory, Learnt
  <2>3. HasStore(s) /\ UNCHANGED <<baseline, stampOk>>
        /\ (Goto(s, "judge") \/ Goto(s, "ready"))
    BY <1>7 DEF JudgeDevice, Loop, HasStore, files, scanVars
  <2>4. Remember(s, n)
    BY <2>1
  <2> HIDE DEF n
  <2> QED BY <2>2, <2>3, <2>4, FaithfulWith DEF Approved
<1>8. CASE FirstRunReady(s)
  <2> DEFINE n == [m EXCEPT !.wantsSave = WantsSave(m)]
  <2>1. n.existed = m.existed /\ n.store = m.store
    BY <1>0 DEF Memory
  <2>2. HasStore(s) /\ UNCHANGED <<baseline, stampOk>> /\ Remember(s, n)
        /\ Goto(s, "prune")
    BY <1>8 DEF FirstRunReady, HasStore, files, scanVars
  <2> HIDE DEF n
  <2> QED BY <2>1, <2>2, FaithfulWith DEF Approved
<1>9. CASE Prune(s) \/ SavePruned(s)
  <2>1. HasStore(s) /\ UNCHANGED <<baseline, stampOk>>
        /\ (Goto(s, "lock") \/ Goto(s, "savePruned"))
    BY <1>9 DEF Prune, SavePruned, HasStore, files
  <2>2. Remember(s, m)
    BY <1>0, <1>9 DEF Prune, SavePruned, Remember
  <2> QED BY <2>1, <2>2, FaithfulWith DEF Approved
<1>10. CASE SkipLock(s)
  BY <1>10, FaithfulWithout DEF SkipLock, Forget, files, scanVars
<1>11. CASE TakeLock(s)
  <2>1. PICK l \in {"readDeclined", "report"} : Goto(s, l)
    BY <1>11 DEF TakeLock
  <2>2. Remember(s, BlockMemory(m)) \/ Remember(s, NoMemory)
    BY <1>11 DEF TakeLock, Forget
  <2>3. CASE SaveBaseline(m.store)
    BY <1>0, <1>11, <2>1, <2>3, FaithfulSave DEF TakeLock
  <2>4. CASE UNCHANGED <<baseline, stampOk, steady>>
    BY <2>1, <2>2, <2>4, FaithfulWithout
  <2> QED BY <1>11, <2>3, <2>4 DEF TakeLock
<1>12. CASE ReadDeclined(s) \/ SaveFresh(s) \/ BlockNext(s) \/ CheckHub(s) \/ EndBlocks(s)
  <2>1. UNCHANGED <<baseline, stampOk>> /\ \E n : Remember(s, n) \/ UNCHANGED mem
    BY <1>12 DEF ReadDeclined, SaveFresh, BlockNext, CheckHub, EndBlocks, files, scanVars
  <2>2. \/ Goto(s, "block") \/ Goto(s, "saveFresh") \/ Goto(s, "deauth") \/ Goto(s, "write")
        \/ Goto(s, "report")
    BY <1>0, <1>12 DEF ReadDeclined, SaveFresh, BlockNext, CheckHub, EndBlocks, Goto
  <2> QED BY <2>1, <2>2, FaithfulWithout
<1>13. CASE Deauthorize(s) \/ DeauthFails(s)
  <2>1. UNCHANGED <<baseline, stampOk>> /\ Goto(s, "block")
    BY <1>13 DEF Deauthorize, DeauthFails, files
  <2>2. \E n : Remember(s, n)
    BY <1>13 DEF Deauthorize, DeauthFails
  <2> QED BY <2>1, <2>2, FaithfulWithout
<1>14. CASE EndScan(s)
  <2>1. \A y \in Scanner : y # s => stampOk'[y] = stampOk[y]
    BY <1>14 DEF EndScan, TypeOK
  <2> QED BY <1>14, <2>1, FaithfulWithout DEF EndScan, Forget, files
<1> QED
  BY <1>1, <1>2, <1>3, <1>4, <1>5, <1>6, <1>7, <1>8, <1>9, <1>10, <1>11, <1>12,
     <1>13, <1>14 DEF ScanStep

\* A truster's step keeps everybody faithful.
LEMMA FaithfulTrust ==
  ASSUME TypeOK, LockHeld, Faithful, NEW t \in Truster, StartTrust(t) \/ TrustStep(t)
  PROVE  Faithful'
<1> DEFINE m == mem[t]
<1>0. /\ t \in Proc /\ t \notin Scanner /\ m \in Memory
      /\ pc \in [Proc -> ScanLabels \cup TrustLabels] /\ mem \in [Proc -> Memory]
      /\ m.store \in SUBSET Fingerprint
  BY ArmorAssumption DEF Proc, TypeOK, ControlTypeOK, Memory
\* It does not keep what the file holds before "observe" or after "save".
<1>1. ASSUME UNCHANGED <<baseline, stampOk>>, NEW l, Goto(t, l),
             l \notin {"observe", "merge", "save"},
             NEW n, Remember(t, n) \/ UNCHANGED mem
      PROVE  Faithful'
  <2>1. MergeFaithful(t)'
    BY <1>0, <1>1 DEF Goto, MergeFaithful
  <2> QED BY <1>0, <1>1, <2>1, FaithfulElse
\* In between its store has every approved device of the file.
<1>2. ASSUME UNCHANGED <<baseline, stampOk>>, NEW l, Goto(t, l), NEW n, Remember(t, n),
             Approved(baseline.entries) \subseteq n.store
      PROVE  Faithful'
  <2>1. MergeFaithful(t)'
    BY <1>0, <1>2 DEF Remember, MergeFaithful
  <2> QED BY <1>0, <1>2, <2>1, FaithfulElse
<1>3. CASE StartTrust(t) \/ LockForTrust(t) \/ ClearDeclined(t)
  <2>1. UNCHANGED <<baseline, stampOk, mem>>
    BY <1>3 DEF StartTrust, LockForTrust, ClearDeclined, files, scanVars
  <2>2. Goto(t, "wait") \/ Goto(t, "find") \/ Goto(t, "idle")
    BY <1>3 DEF StartTrust, LockForTrust, ClearDeclined
  <2> QED BY <1>1, <2>1, <2>2
<1>4. CASE FindBlocked(t) \/ ReauthorizeNext(t) \/ ListForTrust(t) \/ SaveTrustFails(t)
  <2>1. UNCHANGED <<baseline, stampOk>> /\ \E n : Remember(t, n)
    BY <1>4 DEF FindBlocked, ReauthorizeNext, ListForTrust, SaveTrustFails, Forget, files,
                scanVars
  <2>2. \/ Goto(t, "reauth") \/ Goto(t, "listTrust") \/ Goto(t, "loadTrust")
        \/ Goto(t, "idle")
    BY <1>4 DEF FindBlocked, ReauthorizeNext, ListForTrust, SaveTrustFails, Loop
  <2> QED BY <1>1, <2>1, <2>2
<1>5. CASE LoadForTrust(t)
  <2> DEFINE n == [m EXCEPT !.store = Loaded]
  <2>1. n.store = Loaded
    BY <1>0 DEF Memory
  <2>2. Remember(t, n) /\ Goto(t, "observe") /\ UNCHANGED <<baseline, stampOk>>
    BY <1>5 DEF LoadForTrust, files, scanVars
  <2> HIDE DEF n
  <2> QED BY <1>2, <2>1, <2>2, LoadedFaithful
<1>6. ASSUME pc[t] \in {"observe", "merge"}
      PROVE  Approved(baseline.entries) \subseteq Approved(m.store)
  BY <1>6 DEF Faithful, MergeFaithful, Approved
<1>7. CASE Observe(t)
  <2> DEFINE settled == SettledOf(m.listed)
  <2>1. PICK merged : Remember(t, [m EXCEPT !.store = Upgrade(m.store, settled),
                                            !.todo = merged])
    BY <1>7 DEF Observe
  <2> DEFINE n == [m EXCEPT !.store = Upgrade(m.store, settled), !.todo = merged]
  <2>2. n.store = Upgrade(m.store, settled)
    BY <1>0 DEF Memory
  <2>3. Approved(baseline.entries) \subseteq n.store
    BY <1>0, <1>6, <1>7, <2>2, UpgradeKeeps DEF Observe
  <2>4. /\ Remember(t, n) /\ UNCHANGED <<baseline, stampOk>>
        /\ Goto(t, "merge") \/ Goto(t, "save")
    BY <1>7, <2>1 DEF Observe, Loop, files, scanVars
  <2> HIDE DEF n
  <2> QED BY <1>2, <2>3, <2>4
<1>8. CASE MergeNext(t)
  <2>1. PICK l \in m.listed : Remember(t, [m EXCEPT !.store = Trust(@, l.fp),
                                                    !.todo = @ \ {l.port}])
    BY <1>8 DEF MergeNext
  <2> DEFINE n == [m EXCEPT !.store = Trust(m.store, l.fp), !.todo = @ \ {l.port}]
  <2>2. n.store = Trust(m.store, l.fp)
    BY <1>0 DEF Memory
  <2>3. Approved(baseline.entries) \subseteq n.store
    BY <1>0, <1>6, <1>8, <2>2, TrustKeeps DEF MergeNext
  <2>4. /\ Remember(t, n) /\ UNCHANGED <<baseline, stampOk>>
        /\ Goto(t, "merge") \/ Goto(t, "save")
    BY <1>8, <2>1 DEF MergeNext, Loop, files, scanVars
  <2> HIDE DEF n
  <2> QED BY <1>2, <2>3, <2>4
<1>9. CASE SaveTrust(t)
  <2>1. lock = t
    BY <1>0, <1>9 DEF SaveTrust, NeedsLock, TrustLabels, LockHeld
  <2> QED BY <1>0, <1>9, <2>1, FaithfulSave DEF SaveTrust
<1> QED BY <1>3, <1>4, <1>5, <1>7, <1>8, <1>9 DEF TrustStep

-----------------------------------------------------------------------------
(* The theorems. *)

\* Everybody is faithful at the start, when nobody has loaded anything.
LEMMA FaithfulInit == Init => Faithful
BY DEF Init, Faithful, ScanFaithful, MergeFaithful, HasStore, Proc

\* Nor does what the user, the kernel and the clock do concern the file or anybody's
\* memory.
LEMMA FaithfulStep == TypeOK /\ LockHeld /\ Faithful /\ [Next]_vars => Faithful'
<1> SUFFICES ASSUME TypeOK, LockHeld, Faithful, [Next]_vars
             PROVE  Faithful'
  OBVIOUS
<1>1. CASE Environment
  BY <1>1, FaithfulIdle
     DEF Environment, Plug, Unplug, Enumerate, ToggleArmor, Tick, files, scanVars
<1>2. CASE UNCHANGED vars
  BY <1>2, FaithfulIdle DEF vars, files, scanVars
<1> QED BY <1>1, <1>2, FaithfulScan, FaithfulTrust DEF Next

(***************************************************************************)
(* Whoever may save is faithful, at every moment: what a scan that found a *)
(* file, still unwritten since, has in memory neither lacks an approved    *)
(* device of the file nor trusts another; what a trust merges lacks none.  *)
(***************************************************************************)
THEOREM SaversFaithful == Spec => []Faithful
<1>1. TypeOK /\ LockHeld /\ Faithful /\ [Next]_vars => Faithful'
  BY FaithfulStep
<1> QED BY <1>1, FaithfulInit, TypeCorrect, LockKept, PTL DEF Spec

\* The file changes in two actions only.
LEMMA WhoSaves ==
  ASSUME Next, baseline' # baseline
  PROVE  \/ \E s \in Scanner : TakeLock(s) /\ MaySave(s) /\ SaveBaseline(mem[s].store)
         \/ \E t \in Truster : SaveTrust(t)
<1>1. ASSUME NEW s \in Scanner, ScanStep(s)
      PROVE  TakeLock(s) /\ MaySave(s) /\ SaveBaseline(mem[s].store)
  BY <1>1 DEF ScanStep, StartScan, TakeStamp, LoadBaseline, ListDevices, MigrateLegacy,
              SkipEnumerating, JudgeDevice, FirstRunReady, Prune, SavePruned, SkipLock,
              TakeLock, CheckHub,
              ReadDeclined, SaveFresh, BlockNext, Deauthorize, DeauthFails, EndBlocks,
              EndScan, files
<1>2. ASSUME NEW t \in Truster, StartTrust(t) \/ TrustStep(t)
      PROVE  SaveTrust(t)
  BY <1>2 DEF StartTrust, TrustStep, LockForTrust, FindBlocked, ReauthorizeNext,
              ListForTrust, LoadForTrust, Observe, MergeNext, SaveTrustFails,
              ClearDeclined, files
<1>3. ~Environment
  BY DEF Environment, Plug, Unplug, Enumerate, ToggleArmor, Tick, files
<1> QED BY <1>1, <1>2, <1>3 DEF Next

(***************************************************************************)
(* For any number of scans and trusts: the file loses an approved device   *)
(* only to a scan that found no file when it started.                      *)
(***************************************************************************)
THEOREM ApprovalsKept == Spec => FullEntriesKept
<1> DEFINE FirstScan == \E s \in Scanner : lock # s /\ lock' = s /\ ~mem[s].existed
<1>1. TypeOK /\ Faithful /\ [Next]_vars => [Dropped # {} => FirstScan]_vars
  <2> SUFFICES ASSUME TypeOK, Faithful, Next, Dropped # {}
               PROVE  FirstScan
    OBVIOUS
  <2>1. baseline' # baseline
    BY DEF Dropped, Approved
  <2>2. ASSUME NEW s \in Scanner, TakeLock(s), MaySave(s), SaveBaseline(mem[s].store)
        PROVE  FirstScan
    <3>1. HasStore(s) /\ stampOk[s] /\ lock # s /\ lock' = s
      BY <2>2, ArmorAssumption DEF TakeLock, HasStore, MaySave, Proc
    <3>2. mem[s].existed => Approved(baseline.entries) \subseteq baseline'.entries
      BY <2>2, <3>1 DEF Faithful, ScanFaithful, SaveBaseline, Saved
    <3> QED BY <3>1, <3>2 DEF Dropped
  <2>3. ASSUME NEW t \in Truster, SaveTrust(t)
        PROVE  FALSE
    BY <2>3 DEF SaveTrust, SaveBaseline, Saved, Faithful, MergeFaithful, Dropped
  <2> QED BY <2>1, <2>2, <2>3, WhoSaves
<1> QED BY <1>1, TypeCorrect, SaversFaithful, PTL DEF Spec, FullEntriesKept

(***************************************************************************)
(* For any number of scans and trusts: a scan that found a file adds no    *)
(* device to the trusted ones, whatever it upgrades and whatever is        *)
(* plugged, half enumerated or blocked while it does.                      *)
(***************************************************************************)
THEOREM TrustNotWidened == Spec => ScansNeverWidenTrust
<1> DEFINE Narrow(s) == \A d \in Fingerprint :
                          KnownIfs(d) # {} /\ TrustedOnDisk(d)' => TrustedOnDisk(d)
           Narrows == \A s \in Scanner :
                        lock # s /\ lock' = s /\ mem[s].existed => Narrow(s)
<1>1. TypeOK /\ LockHeld /\ Faithful /\ [Next]_vars => [Narrows]_vars
  <2> SUFFICES ASSUME TypeOK, LockHeld, Faithful, Next,
                      NEW s \in Scanner, lock # s, lock' = s, mem[s].existed,
                      NEW d \in Fingerprint, TrustedOnDisk(d)'
               PROVE  TrustedOnDisk(d)
    OBVIOUS
  <2>1. CASE baseline' = baseline
    BY <2>1 DEF TrustedOnDisk
  <2>2. ASSUME NEW x \in Scanner, TakeLock(x), MaySave(x), SaveBaseline(mem[x].store)
        PROVE  TrustedOnDisk(d)
    <3>1. x = s /\ HasStore(s) /\ stampOk[s]
      BY <2>2 DEF TakeLock, HasStore, MaySave
    <3>2. Vouched(Parsed(mem[s].store), d)
      BY <2>2, <3>1 DEF TrustedOnDisk, SaveBaseline, Saved
    <3> QED BY <3>1, <3>2 DEF Faithful, ScanFaithful
  <2>3. ASSUME NEW t \in Truster, SaveTrust(t)
        PROVE  FALSE
    BY <2>3 DEF SaveTrust
  <2> QED BY <2>1, <2>2, <2>3, WhoSaves
<1> QED BY <1>1, TypeCorrect, LockKept, SaversFaithful, PTL DEF Spec, ScansNeverWidenTrust

-----------------------------------------------------------------------------
(* An unreadable baseline *)

\* What holds of a scan while the file is unreadable: it knows that there is a file,
\* once it has loaded it also that it cannot be read, and so it judges no device a
\* target and has nothing to save.
ScanSuspended(s) ==
  /\ pc[s] \in {"stamp", "load"} => mem[s].existed
  /\ HasStore(s) => mem[s].existed /\ mem[s].corrupt
  /\ mem[s].targets = {} /\ ~mem[s].changed /\ ~mem[s].wantsSave

Suspended == baseline.state = "corrupt" => \A s \in Scanner : ScanSuspended(s)

\* The other scans stay suspended when a process moves and the file stays the same.
LEMMA SuspendedElse ==
  ASSUME TypeOK, Suspended, UNCHANGED baseline, NEW x \in Proc, NEW l, NEW m,
         Goto(x, l) \/ UNCHANGED pc, Remember(x, m) \/ UNCHANGED mem,
         baseline.state = "corrupt" /\ x \in Scanner => ScanSuspended(x)'
  PROVE  Suspended'
<1> SUFFICES ASSUME baseline.state = "corrupt", NEW s \in Scanner, s # x
             PROVE  ScanSuspended(s)'
  BY DEF Suspended
<1>1. s \in Proc
  BY DEF Proc
<1>2. pc'[s] = pc[s] /\ mem'[s] = mem[s]
  BY <1>1 DEF Goto, Remember, TypeOK, ControlTypeOK
<1> QED BY <1>2 DEF Suspended, ScanSuspended, HasStore

\* A scan that has let go of its memory of the baseline, or goes on blocking, is
\* suspended if it has no target.
LEMMA SuspendedWithout ==
  ASSUME TypeOK, Suspended, UNCHANGED baseline, NEW s \in Scanner, NEW l,
         Goto(s, l) \/ UNCHANGED pc,
         pc'[s] \notin {"stamp", "load", "list", "migrate", "judge", "ready", "prune",
                        "savePruned", "lock"},
         NEW m, Remember(s, m) \/ UNCHANGED mem,
         baseline.state = "corrupt" /\ mem[s].targets = {}
           /\ ~mem[s].changed /\ ~mem[s].wantsSave =>
             mem'[s].targets = {} /\ ~mem'[s].changed /\ ~mem'[s].wantsSave
  PROVE  Suspended'
<1>1. s \in Proc
  BY DEF Proc
<1>2. baseline.state = "corrupt" => ScanSuspended(s)'
  BY DEF Suspended, ScanSuspended, HasStore
<1> QED BY <1>1, <1>2, SuspendedElse

\* A scanner's step that leaves the file alone keeps all scans suspended.
LEMMA SuspendedScan ==
  ASSUME TypeOK, Suspended, UNCHANGED baseline, NEW s \in Scanner, ScanStep(s)
  PROVE  Suspended'
<1> DEFINE m == mem[s]
           n == mem'[s]
<1>0. /\ s \in Proc /\ m \in Memory
      /\ pc \in [Proc -> ScanLabels \cup TrustLabels] /\ mem \in [Proc -> Memory]
  BY DEF Proc, TypeOK, ControlTypeOK
<1>1. CASE StartScan(s) \/ TakeStamp(s)
  <2>1. PICK l \in {"stamp", "load"} : Goto(s, l)
    BY <1>1 DEF StartScan, TakeStamp
  <2>2. PICK r : Remember(s, r) \/ UNCHANGED mem
    BY <1>1 DEF StartScan, TakeStamp
  <2>3. pc'[s] \in {"stamp", "load"}
    BY <1>0, <2>1 DEF Goto
  <2>4. /\ n.targets = m.targets /\ n.changed = m.changed /\ n.wantsSave = m.wantsSave
        /\ baseline.state = "corrupt" => n.existed
    <3>1. CASE StartScan(s)
      <4> DEFINE found == baseline.state # "absent"
      <4>1. n = [m EXCEPT !.existed = found]
        BY <1>0, <3>1 DEF StartScan, Remember
      <4>2. n.existed = found
        BY <1>0, <4>1 DEF Memory
      <4>3. n.targets = m.targets /\ n.changed = m.changed /\ n.wantsSave = m.wantsSave
        BY <1>0, <4>1 DEF Memory
      <4> QED BY <4>2, <4>3
    <3>2. CASE TakeStamp(s)
      BY <3>2 DEF TakeStamp, Suspended, ScanSuspended
    <3> QED BY <1>1, <3>1, <3>2
  <2>5. baseline.state = "corrupt" => ScanSuspended(s)'
    BY <2>3, <2>4 DEF Suspended, ScanSuspended, HasStore
  <2> QED BY <1>0, <2>1, <2>2, <2>5, SuspendedElse
<1>2. CASE LoadBaseline(s) \/ ListDevices(s)
  <2>1. PICK l \in {"list", "migrate"} : Goto(s, l)
    BY <1>2 DEF LoadBaseline, ListDevices
  <2>2. PICK r : Remember(s, r)
    BY <1>2 DEF LoadBaseline, ListDevices
  <2>3. pc'[s] \in {"list", "migrate"}
    BY <1>0, <2>1 DEF Goto
  <2>4. /\ n.targets = m.targets /\ n.changed = m.changed /\ n.wantsSave = m.wantsSave
        /\ n.existed = m.existed
        /\ pc[s] = "load" \/ (HasStore(s) /\ n.corrupt = m.corrupt)
        /\ baseline.state = "corrupt" /\ pc[s] = "load" /\ m.existed => n.corrupt
    <3>1. CASE LoadBaseline(s)
      <4> DEFINE damaged == m.existed /\ baseline.state # "readable"
                 store == IF m.existed THEN Loaded ELSE {}
      <4>1. n = [m EXCEPT !.corrupt = damaged, !.store = store] /\ pc[s] = "load"
        BY <1>0, <3>1 DEF LoadBaseline, Remember
      <4> HIDE DEF store
      <4>2. n.corrupt = damaged
        BY <1>0, <4>1 DEF Memory
      <4>3. /\ n.targets = m.targets /\ n.changed = m.changed
            /\ n.wantsSave = m.wantsSave /\ n.existed = m.existed
        BY <1>0, <4>1 DEF Memory
      <4>4. baseline.state = "corrupt" /\ m.existed => damaged
        OBVIOUS
      <4> HIDE DEF damaged
      <4>5. baseline.state = "corrupt" /\ m.existed => n.corrupt
        BY <4>2, <4>4
      <4> HIDE DEF m, n
      <4> QED BY <4>1, <4>3, <4>5
    <3>2. CASE ListDevices(s)
      BY <1>0, <3>2 DEF ListDevices, Remember, Memory, HasStore
    <3> QED BY <1>2, <3>1, <3>2
  <2>5. baseline.state = "corrupt" => ScanSuspended(s)'
    BY <2>3, <2>4 DEF Suspended, ScanSuspended
  <2> QED BY <1>0, <2>1, <2>2, <2>5, SuspendedElse
<1>3. CASE MigrateLegacy(s) \/ SkipEnumerating(s)
  <2>1. PICK l \in {"judge", "ready"} : Goto(s, l)
    BY <1>3 DEF MigrateLegacy, SkipEnumerating, Loop
  <2>2. PICK r : Remember(s, r) \/ UNCHANGED mem
    BY <1>3 DEF MigrateLegacy, SkipEnumerating
  <2>3. HasStore(s) /\ pc'[s] = l
    BY <1>0, <1>3, <2>1 DEF MigrateLegacy, SkipEnumerating, HasStore, Goto
  <2>4. m.existed /\ m.corrupt =>
          /\ n.existed /\ n.corrupt
          /\ n.targets = m.targets /\ n.changed = m.changed /\ n.wantsSave = m.wantsSave
    BY <1>0, <1>3 DEF MigrateLegacy, SkipEnumerating, Remember, Memory
  <2>5. baseline.state = "corrupt" => ScanSuspended(s)'
    BY <2>3, <2>4 DEF Suspended, ScanSuspended
  <2> QED BY <1>0, <2>1, <2>2, <2>5, SuspendedElse
<1>4. CASE JudgeDevice(s)
  <2>1. PICK l \in m.listed :
          /\ Remember(s, [m EXCEPT
               !.store = Learnt(m, l.fp), !.todo = @ \ {l.port},
               !.targets = IF /\ ~IsTrusted(m.corrupt, Learnt(m, l.fp), l.fp)
                              /\ IsDeauthTarget(l.port, l.fp, IsDeauthorized(l.port))
                             THEN @ \cup {[port |-> l.port, model |-> l.fp.model]}
                             ELSE @])
          /\ Loop(s, m.todo \ {l.port}, "judge", "ready")
    BY <1>4 DEF JudgeDevice
  <2>2. HasStore(s) /\ pc'[s] \in {"judge", "ready"}
    BY <1>0, <1>4, <2>1 DEF JudgeDevice, HasStore, Loop, Goto
  <2>3. m.corrupt =>
          /\ n.existed = m.existed /\ n.corrupt
          /\ n.targets = m.targets /\ n.changed = m.changed /\ n.wantsSave = m.wantsSave
    BY <1>0, <2>1 DEF Remember, Memory, IsTrusted
  <2>4. baseline.state = "corrupt" => ScanSuspended(s)'
    BY <2>2, <2>3 DEF Suspended, ScanSuspended
  <2> QED BY <1>0, <2>1, <2>4, SuspendedElse DEF Loop
<1>5. CASE FirstRunReady(s)
  <2>1. Goto(s, "prune")
    BY <1>5 DEF FirstRunReady
  <2>2. HasStore(s) /\ Remember(s, [m EXCEPT !.wantsSave = WantsSave(m)])
    BY <1>5 DEF FirstRunReady, HasStore
  <2>3. baseline.state = "corrupt" => ScanSuspended(s)'
    BY <1>0, <2>1, <2>2
       DEF Goto, Remember, Memory, WantsSave, Suspended, ScanSuspended, HasStore
  <2> QED BY <1>0, <2>1, <2>2, <2>3, SuspendedElse
<1>6. CASE Prune(s) \/ SavePruned(s)
  <2>1. PICK l \in {"lock", "savePruned"} : Goto(s, l)
    BY <1>6 DEF Prune, SavePruned
  <2>2. HasStore(s) /\ UNCHANGED mem
    BY <1>6 DEF Prune, SavePruned, HasStore
  <2>3. baseline.state = "corrupt" => ScanSuspended(s)'
    BY <1>0, <2>1, <2>2 DEF Goto, Suspended, ScanSuspended, HasStore
  <2> QED BY <1>0, <2>1, <2>2, <2>3, SuspendedElse
<1>7. CASE SkipLock(s) \/ EndScan(s)
  <2>1. PICK l \in {"report", "idle"} : Goto(s, l)
    BY <1>7 DEF SkipLock, EndScan
  <2>2. Remember(s, NoMemory)
    BY <1>7 DEF SkipLock, EndScan, Forget
  <2>3. n.targets = {} /\ ~n.changed /\ ~n.wantsSave
    BY <1>0, <2>2 DEF Remember, NoMemory
  <2> QED BY <1>0, <2>1, <2>2, <2>3, SuspendedWithout DEF Goto
<1>8. CASE TakeLock(s)
  <2>1. PICK l \in {"readDeclined", "report"} : Goto(s, l)
    BY <1>8 DEF TakeLock
  <2>2. PICK r \in {BlockMemory(m), NoMemory} : Remember(s, r)
    BY <1>8 DEF TakeLock, Forget
  <2>3. n = r
    BY <1>0, <2>2 DEF Remember
  <2>4. n.targets \in {m.targets, {}} /\ ~n.changed /\ ~n.wantsSave
    <3>1. CASE r = NoMemory
      BY <2>3, <3>1 DEF NoMemory
    <3>2. CASE r = BlockMemory(m)
      BY <2>3, <3>2 DEF BlockMemory, NoMemory
    <3> QED BY <2>2, <3>1, <3>2
  <2> QED BY <1>0, <2>1, <2>2, <2>4, SuspendedWithout DEF Goto
<1>9. CASE ReadDeclined(s) \/ SaveFresh(s) \/ CheckHub(s) \/ EndBlocks(s)
  <2>1. PICK l \in {"saveFresh", "block", "write", "report"} : Goto(s, l)
    BY <1>9 DEF ReadDeclined, SaveFresh, CheckHub, EndBlocks
  <2>2. UNCHANGED mem
    BY <1>9 DEF ReadDeclined, SaveFresh, CheckHub, EndBlocks
  <2> QED BY <1>0, <2>1, <2>2, SuspendedWithout DEF Goto
<1>10. CASE BlockNext(s) \/ Deauthorize(s) \/ DeauthFails(s)
  <2>1. \E t : t \in m.targets
    BY <1>10 DEF BlockNext, Deauthorize, DeauthFails
  <2>2. baseline.state # "corrupt"
    BY <2>1 DEF Suspended, ScanSuspended
  <2> QED BY <2>2 DEF Suspended
<1> QED BY <1>1, <1>2, <1>3, <1>4, <1>5, <1>6, <1>7, <1>8, <1>9, <1>10 DEF ScanStep

\* Whatever happens, all scans stay suspended as long as the file is unreadable.
LEMMA SuspendedStep == TypeOK /\ Suspended /\ [Next]_vars => Suspended'
<1> SUFFICES ASSUME TypeOK, Suspended, [Next]_vars
             PROVE  Suspended'
  OBVIOUS
<1>1. CASE baseline' # baseline
  BY <1>1, WhoSaves DEF SaveTrust, SaveBaseline, Saved, Suspended, vars, files
<1>2. CASE UNCHANGED <<baseline, pc, mem>>
  BY <1>2 DEF Suspended, ScanSuspended, HasStore
<1>3. ASSUME UNCHANGED baseline, NEW t \in Truster, StartTrust(t) \/ TrustStep(t)
      PROVE  Suspended'
  <2>1. t \in Proc /\ t \notin Scanner
    BY ArmorAssumption DEF Proc
  <2>2. PICK l : Goto(t, l)
    BY <1>3 DEF StartTrust, TrustStep, LockForTrust, FindBlocked, ReauthorizeNext,
                ListForTrust, LoadForTrust, Observe, MergeNext, SaveTrust,
                SaveTrustFails, ClearDeclined, Loop
  <2>3. PICK m : Remember(t, m) \/ UNCHANGED mem
    BY <1>3 DEF StartTrust, TrustStep, LockForTrust, FindBlocked, ReauthorizeNext,
                ListForTrust, LoadForTrust, Observe, MergeNext, SaveTrust,
                SaveTrustFails, ClearDeclined, Forget
  <2> QED BY <1>3, <2>1, <2>2, <2>3, SuspendedElse
<1>4. CASE Environment
  BY <1>1, <1>2, <1>4
     DEF Environment, Plug, Unplug, Enumerate, ToggleArmor, Tick, files
<1> QED BY <1>1, <1>2, <1>3, <1>4, SuspendedScan DEF Next, vars

\* Only the block of a scan's target takes a device's authorization away.
LEMMA WhoBlocks ==
  ASSUME TypeOK, Next, NEW p \in Port, Blocks(p)
  PROVE  \E s \in Scanner : Deauthorize(s)
<1>0. port \in [Port -> PortState]
  BY DEF TypeOK, SharedTypeOK
<1>1. ASSUME NEW s \in Scanner, ScanStep(s), ~Deauthorize(s)
      PROVE  UNCHANGED port
  BY <1>1 DEF ScanStep, StartScan, TakeStamp, LoadBaseline, ListDevices, MigrateLegacy,
              SkipEnumerating, JudgeDevice, FirstRunReady, Prune, SavePruned, SkipLock,
              TakeLock, CheckHub,
              ReadDeclined, SaveFresh, BlockNext, DeauthFails, EndBlocks, EndScan
<1>2. ASSUME NEW t \in Truster, StartTrust(t) \/ TrustStep(t)
      PROVE  UNCHANGED port \/ \E q \in Port : port' = [port EXCEPT ![q].auth = TRUE]
  BY <1>2 DEF TrustStep, StartTrust, LockForTrust, FindBlocked, ReauthorizeNext,
              ListForTrust, LoadForTrust, Observe, MergeNext, SaveTrust, SaveTrustFails,
              ClearDeclined, Connected
<1>3. ASSUME NEW q \in Port, port' = [port EXCEPT ![q].auth = TRUE]
      PROVE  FALSE
  BY <1>0, <1>3 DEF Blocks, PortState
<1>4. ASSUME NEW q \in Port, NEW d \in Device, Plug(q, d)
      PROVE  FALSE
  <2>1. p = q => port'[p].auth
    BY <1>0, <1>4 DEF Plug, Empty
  <2> QED BY <1>0, <1>4, <2>1 DEF Plug, Blocks
<1>5. ASSUME NEW q \in Port, Unplug(q) \/ Enumerate(q)
      PROVE  FALSE
  BY <1>0, <1>5 DEF Unplug, Enumerate, Blocks, Empty, PortState
<1>6. ~UNCHANGED port
  BY DEF Blocks
<1> QED BY <1>1, <1>2, <1>3, <1>4, <1>5, <1>6 DEF Next, Environment, ToggleArmor, Tick

(***************************************************************************)
(* For any number of scans and trusts: while the baseline cannot be read   *)
(* no device is blocked, and nothing but a trust replaces it.              *)
(***************************************************************************)
THEOREM CorruptSuspends == Spec => CorruptIsHarmless
<1>1. Init => Suspended
  BY DEF Init, Suspended, ScanSuspended, HasStore, NoMemory, Proc
<1>2. TypeOK /\ Suspended /\ [Next]_vars =>
        [baseline.state = "corrupt" =>
           /\ \A p \in Port : ~Blocks(p)
           /\ baseline' # baseline => \E t \in Truster : pc[t] = "save"]_vars
  <2> SUFFICES ASSUME TypeOK, Suspended, Next, baseline.state = "corrupt"
               PROVE  /\ \A p \in Port : ~Blocks(p)
                      /\ baseline' # baseline => \E t \in Truster : pc[t] = "save"
    OBVIOUS
  <2>1. \A s \in Scanner : mem[s].targets = {} /\ ~mem[s].wantsSave
    BY DEF Suspended, ScanSuspended
  <2>2. baseline' # baseline => \E t \in Truster : pc[t] = "save"
    BY <2>1, WhoSaves DEF MaySave, SaveTrust
  <2>3. \A p \in Port : ~Blocks(p)
    BY <2>1, WhoBlocks DEF Deauthorize
  <2> QED BY <2>2, <2>3
<1> QED BY <1>1, <1>2, SuspendedStep, TypeCorrect, PTL DEF Spec, CorruptIsHarmless

-----------------------------------------------------------------------------
(* The first baseline *)

\* What a store has to hold of a listed fingerprint: an entry of its model, and if its
\* interfaces are known a full entry that vouches for it.
Holds(S, fp) ==
  /\ \E e \in S : SameModel(e, fp)
  /\ ~IsLegacy(fp) => Vouched(FullEntries(S), fp)

\* Trusting a fingerprint takes no full entry away, and leaves a model that had one
\* with an entry.
LEMMA TrustKeepsFull ==
  ASSUME NEW S \in SUBSET Fingerprint, NEW d \in Fingerprint
  PROVE  /\ FullEntries(S) \subseteq FullEntries(Trust(S, d))
         /\ \A e \in S : e \in Trust(S, d) \/ Matches(e, d)
<1>1. \A e \in Upgradable(S, {d}) : IsLegacy(e) /\ Matches(e, d)
  BY DEF Upgradable, FullEntries
<1>2. S \ Upgradable(S, {d}) \subseteq Trust(S, d)
  BY DEF Trust, Upgrade
<1> QED BY <1>1, <1>2 DEF FullEntries

\* A store holds what it has just been made to trust.
LEMMA TrustHolds ==
  ASSUME NEW S \in SUBSET Fingerprint, NEW d \in Fingerprint
  PROVE  Holds(Trust(S, d), d)
<1>1. Matches(d, d)
  BY DEF Matches, SameModel
<1>2. ASSUME ~IsLegacy(d)
      PROVE  Vouched(FullEntries(Trust(S, d)), d)
  <2>1. CASE d \in Trust(S, d)
    BY <1>1, <1>2, <2>1 DEF Vouched, FullEntries
  <2>2. CASE Vouched(FullEntries(S), d)
    BY <2>2, TrustKeepsFull DEF Vouched
  <2>3. CASE UpgradeChanges(S, {d}) /\ ~Vouched(FullEntries(S), d)
    <3>1. Vouched(Upgradable(S, {d}), d)
      BY <1>2, <2>3 DEF UpgradeChanges, Upgradable, Vouched, FullEntries
    <3>2. d \in Trust(S, d)
      BY <1>2, <2>3, <3>1 DEF Trust, Upgrade, FullEntries
    <3> QED BY <2>1, <3>2
  <2>4. CASE ~UpgradeChanges(S, {d}) /\ ~Vouched(FullEntries(S), d)
    <3>1. ~Vouched(S, d)
      <4> SUFFICES ASSUME NEW e \in S, Matches(e, d)
                   PROVE  FALSE
        BY DEF Vouched
      <4>1. IsLegacy(e)
        BY <2>4 DEF Vouched, FullEntries
      <4> QED BY <1>2, <2>4, <4>1 DEF UpgradeChanges, Upgradable, FullEntries
    <3> QED BY <2>1, <2>4, <3>1 DEF Trust
  <2> QED BY <2>2, <2>3, <2>4
<1>3. \E e \in Trust(S, d) : SameModel(e, d)
  <2>1. CASE IsLegacy(d)
    <3>1. ~UpgradeChanges(S, {d})
      BY <2>1 DEF UpgradeChanges, Upgradable, FullEntries
    <3>2. CASE Vouched(S, d)
      BY <3>1, <3>2 DEF Trust, Vouched, Matches
    <3>3. CASE ~Vouched(S, d)
      BY <1>1, <3>1, <3>3 DEF Trust, Matches
    <3> QED BY <3>2, <3>3
  <2>2. CASE ~IsLegacy(d)
    BY <1>2, <2>2 DEF Vouched, FullEntries, Matches
  <2> QED BY <2>1, <2>2
<1> QED BY <1>2, <1>3 DEF Holds

\* And what it held before.
LEMMA TrustStillHolds ==
  ASSUME NEW S \in SUBSET Fingerprint, NEW d \in Fingerprint, NEW fp, Holds(S, fp)
  PROVE  Holds(Trust(S, d), fp)
<1>1. ~IsLegacy(fp) => Vouched(FullEntries(Trust(S, d)), fp)
  BY TrustKeepsFull DEF Holds, Vouched
<1>2. \E e \in Trust(S, d) : SameModel(e, fp)
  <2>1. PICK e \in S : SameModel(e, fp)
    BY DEF Holds
  <2>2. CASE e \in Trust(S, d)
    BY <2>1, <2>2
  <2>3. CASE Matches(e, d)
    <3>1. PICK n \in Trust(S, d) : SameModel(n, d)
      BY TrustHolds DEF Holds
    <3> QED BY <2>1, <2>3, <3>1 DEF Matches, SameModel
  <2> QED BY <2>2, <2>3, TrustKeepsFull
<1> QED BY <1>1, <1>2 DEF Holds

\* The labels at which a scan has a list of devices and a store.
HasList(s) == pc[s] \in {"migrate", "judge", "ready", "prune", "savePruned", "lock"}

\* A scan lists each port once, and goes through all of them; one that found no file
\* holds what it has gone through, unless it left a device that was enumerating, and
\* then it does not want to save.
ScanHolds(s) ==
  HasList(s) =>
    /\ \A k, l \in mem[s].listed : k.port = l.port => k = l
    /\ pc[s] = "migrate" => mem[s].todo = Ports(mem[s].listed)
    /\ pc[s] \in {"ready", "prune", "savePruned", "lock"} => mem[s].todo = {}
    /\ ~mem[s].existed /\ ~mem[s].pending =>
         \A l \in mem[s].listed : l.port \notin mem[s].todo => Holds(mem[s].store, l.fp)
    /\ ~mem[s].existed /\ pc[s] \in {"prune", "savePruned", "lock"} /\ mem[s].wantsSave =>
         ~mem[s].pending

FirstScansHold == \A s \in Scanner : ScanHolds(s)

\* It holds after a step of one process if it holds of that one.
LEMMA HoldsElse ==
  ASSUME TypeOK, FirstScansHold, NEW x \in Proc, NEW l, NEW m,
         Goto(x, l) \/ UNCHANGED pc, Remember(x, m) \/ UNCHANGED mem,
         x \in Scanner => ScanHolds(x)'
  PROVE  FirstScansHold'
<1> SUFFICES ASSUME NEW s \in Scanner, s # x
             PROVE  ScanHolds(s)'
  BY DEF FirstScansHold
<1>1. pc'[s] = pc[s] /\ mem'[s] = mem[s]
  BY OthersStay DEF Proc
<1> QED BY <1>1 DEF FirstScansHold, ScanHolds, HasList

\* A scan that does not have its list yet, or any more, holds nothing.
LEMMA HoldsWithout ==
  ASSUME TypeOK, FirstScansHold, NEW s \in Scanner, NEW l, NEW m,
         Goto(s, l) \/ (UNCHANGED pc /\ ~HasList(s)), Remember(s, m) \/ UNCHANGED mem,
         l \notin {"migrate", "judge", "ready", "prune", "savePruned", "lock"}
  PROVE  FirstScansHold'
<1>1. s \in Proc
  BY DEF Proc
<1>2. ScanHolds(s)'
  BY <1>1 DEF ScanHolds, HasList, Goto, TypeOK, ControlTypeOK
<1> QED BY <1>1, <1>2, HoldsElse

\* A listing has one entry for each connected port.
LEMMA ListsEach ==
  /\ Ports(ListedNow) = Connected
  /\ \A k, l \in ListedNow : k.port = l.port => k = l
<1>1. \A l \in ListedNow : \E p \in Connected : l = [port |-> p, fp |-> ReadFingerprint(p)]
  BY DEF ListedNow
<1>2. ASSUME NEW p \in Connected
      PROVE  \E l \in ListedNow : l.port = p
  <2>1. [port |-> p, fp |-> ReadFingerprint(p)] \in ListedNow
    BY DEF ListedNow
  <2> QED BY <2>1
<1>3. Ports(ListedNow) = Connected
  BY <1>1, <1>2 DEF Ports
<1>4. ASSUME NEW k \in ListedNow, NEW l \in ListedNow, k.port = l.port
      PROVE  k = l
  <2>1. PICK p \in Connected : k = [port |-> p, fp |-> ReadFingerprint(p)]
    BY <1>1
  <2>2. PICK q \in Connected : l = [port |-> q, fp |-> ReadFingerprint(q)]
    BY <1>1
  <2>3. p = q
    BY <1>4, <2>1, <2>2
  <2> QED BY <2>1, <2>2, <2>3
<1> QED BY <1>3, <1>4

\* A scanner's step keeps it.
LEMMA HoldsScan ==
  ASSUME TypeOK, FirstScansHold, NEW s \in Scanner, ScanStep(s)
  PROVE  FirstScansHold'
<1> DEFINE m == mem[s]
<1>0. /\ s \in Proc /\ m \in Memory /\ ScanHolds(s) /\ m.store \in SUBSET Fingerprint
      /\ m.listed \in SUBSET [port : Port, fp : Fingerprint]
      /\ pc \in [Proc -> ScanLabels \cup TrustLabels] /\ mem \in [Proc -> Memory]
      /\ port \in [Port -> PortState]
  BY DEF Proc, TypeOK, ControlTypeOK, SharedTypeOK, FirstScansHold, Memory
<1>1. CASE StartScan(s) \/ TakeStamp(s) \/ LoadBaseline(s)
  <2>1. /\ UNCHANGED mem \/ \E n : Remember(s, n)
        /\ \E l \in {"stamp", "load", "list"} : Goto(s, l)
    BY <1>1 DEF StartScan, TakeStamp, LoadBaseline
  <2> QED BY <2>1, HoldsWithout
<1>2. CASE ListDevices(s)
  <2> DEFINE n == [m EXCEPT !.listed = ListedNow, !.todo = Connected]
  <2>1. n.listed = ListedNow /\ n.todo = Connected
    BY <1>0 DEF Memory
  <2>2. mem'[s] = n /\ pc'[s] = "migrate" /\ Remember(s, n) /\ Goto(s, "migrate")
    BY <1>0, <1>2 DEF ListDevices, Remember, Goto
  <2> HIDE DEF n
  <2>3. Ports(ListedNow) = Connected /\ \A k, l \in ListedNow : k.port = l.port => k = l
    BY ListsEach
  <2>4. ScanHolds(s)'
    BY <2>1, <2>2, <2>3 DEF ScanHolds, Ports
  <2> QED BY <1>0, <2>2, <2>4, HoldsElse
<1>3. CASE MigrateLegacy(s)
  <2> DEFINE settled == SettledOf(m.listed)
             n == [m EXCEPT !.store = Upgrade(m.store, settled),
                            !.changed = UpgradeChanges(m.store, settled)]
             next == IF m.todo = {} THEN "ready" ELSE "judge"
  <2>1. n.listed = m.listed /\ n.todo = m.todo /\ n.existed = m.existed /\ n.pending = m.pending
    BY <1>0 DEF Memory
  <2>2. /\ m.todo = Ports(m.listed) /\ HasList(s)
        /\ (m.existed /\ Remember(s, n)) \/ UNCHANGED mem
        /\ Goto(s, next)
    BY <1>0, <1>3 DEF MigrateLegacy, ScanHolds, HasList, Loop
  <2>3. mem'[s] \in {m, n} /\ pc'[s] = next
    BY <1>0, <2>2 DEF Remember, Goto
  <2> HIDE DEF n
  <2>4. \A l \in m.listed : l.port \in m.todo
    BY <2>2 DEF Ports
  <2>5. ScanHolds(s)'
    BY <1>0, <2>1, <2>2, <2>3, <2>4 DEF ScanHolds, HasList
  <2> QED BY <1>0, <2>2, <2>5, HoldsElse
<1>4. CASE SkipEnumerating(s)
  <2>1. PICK p \in m.todo : /\ Remember(s, [m EXCEPT !.todo = @ \ {p}, !.pending = TRUE])
                            /\ Loop(s, m.todo \ {p}, "judge", "ready")
    BY <1>4 DEF SkipEnumerating
  <2> DEFINE n == [m EXCEPT !.todo = @ \ {p}, !.pending = TRUE]
             next == IF m.todo \ {p} = {} THEN "ready" ELSE "judge"
  <2>2. n.listed = m.listed /\ n.todo = m.todo \ {p} /\ n.pending
    BY <1>0 DEF Memory
  <2>3. HasList(s) /\ Remember(s, n) /\ Goto(s, next) /\ mem'[s] = n /\ pc'[s] = next
    BY <1>0, <1>4, <2>1 DEF SkipEnumerating, HasList, Loop, Goto, Remember
  <2> HIDE DEF n
  <2>4. ScanHolds(s)'
    BY <1>0, <2>2, <2>3 DEF ScanHolds, HasList
  <2> QED BY <1>0, <2>3, <2>4, HoldsElse
<1>5. CASE JudgeDevice(s)
  <2>0. PICK l \in m.listed : \E T :
          /\ Remember(s, [m EXCEPT !.store = Learnt(m, l.fp), !.todo = @ \ {l.port},
                                   !.targets = T])
          /\ Loop(s, m.todo \ {l.port}, "judge", "ready")
    BY <1>5 DEF JudgeDevice
  <2>1. PICK T :
          /\ Remember(s, [m EXCEPT !.store = Learnt(m, l.fp), !.todo = @ \ {l.port},
                                   !.targets = T])
          /\ Loop(s, m.todo \ {l.port}, "judge", "ready")
    BY <2>0
  <2> DEFINE n == [m EXCEPT !.store = Learnt(m, l.fp), !.todo = @ \ {l.port}, !.targets = T]
             next == IF m.todo \ {l.port} = {} THEN "ready" ELSE "judge"
  <2>2. /\ n.listed = m.listed /\ n.todo = m.todo \ {l.port} /\ n.store = Learnt(m, l.fp)
        /\ n.existed = m.existed /\ n.pending = m.pending
    BY <1>0 DEF Memory
  <2>3. HasList(s) /\ Remember(s, n) /\ Goto(s, next) /\ mem'[s] = n /\ pc'[s] = next
    BY <1>0, <1>5, <2>1 DEF JudgeDevice, HasList, Loop, Goto, Remember
  <2> HIDE DEF n
  <2>4. ASSUME ~m.existed, ~m.pending, NEW k \in m.listed, k.port \notin n.todo
        PROVE  Holds(n.store, k.fp)
    <3>1. l.fp \in Fingerprint /\ n.store = Trust(m.store, l.fp)
      BY <1>0, <2>2, <2>4 DEF Learnt
    <3>2. CASE k.port = l.port
      <4>1. k = l
        BY <1>0, <2>3, <3>2 DEF ScanHolds
      <4> QED BY <1>0, <3>1, <4>1, TrustHolds
    <3>3. CASE k.port \notin m.todo
      <4>1. Holds(m.store, k.fp)
        BY <1>0, <2>3, <2>4, <3>3 DEF ScanHolds
      <4> QED BY <1>0, <3>1, <4>1, TrustStillHolds
    <3> QED BY <2>2, <2>4, <3>2, <3>3
  <2>5. ScanHolds(s)'
    BY <1>0, <2>2, <2>3, <2>4 DEF ScanHolds, HasList
  <2> QED BY <1>0, <2>3, <2>5, HoldsElse
<1>6. CASE FirstRunReady(s)
  <2> DEFINE n == [m EXCEPT !.wantsSave = WantsSave(m)]
  <2>1. /\ n.listed = m.listed /\ n.todo = m.todo /\ n.store = m.store
        /\ n.existed = m.existed /\ n.pending = m.pending /\ n.wantsSave = WantsSave(m)
    BY <1>0 DEF Memory
  <2>2. Goto(s, "prune") /\ Remember(s, n) /\ pc[s] = "ready"
    BY <1>6 DEF FirstRunReady
  <2>3. mem'[s] = n /\ pc'[s] = "prune" /\ HasList(s)
    BY <1>0, <2>2 DEF Remember, Goto, HasList
  <2> HIDE DEF n
  <2>4. ~m.existed /\ WantsSave(m) => ~m.pending
    BY DEF WantsSave
  <2>5. ScanHolds(s)'
    BY <1>0, <2>1, <2>2, <2>3, <2>4 DEF ScanHolds
  <2> QED BY <1>0, <2>2, <2>5, HoldsElse
<1>7. CASE Prune(s) \/ SavePruned(s)
  <2>1. /\ pc[s] \in {"prune", "savePruned"} /\ pc'[s] \in {"lock", "savePruned"}
        /\ UNCHANGED mem /\ Goto(s, pc'[s])
    BY <1>0, <1>7 DEF Prune, SavePruned, Goto
  <2>2. ScanHolds(s)'
    BY <1>0, <2>1 DEF ScanHolds, HasList
  <2> QED BY <1>0, <2>1, <2>2, HoldsElse
<1>8. CASE SkipLock(s) \/ TakeLock(s) \/ EndScan(s)
  BY <1>8, HoldsWithout DEF SkipLock, TakeLock, EndScan, Forget
<1>9. CASE \/ ReadDeclined(s) \/ SaveFresh(s) \/ BlockNext(s) \/ Deauthorize(s)
           \/ CheckHub(s) \/ DeauthFails(s) \/ EndBlocks(s)
  <2>1. /\ UNCHANGED mem \/ \E n : Remember(s, n)
        /\ \/ UNCHANGED pc
           \/ \E l \in {"saveFresh", "block", "deauth", "write", "report"} : Goto(s, l)
    BY <1>9 DEF ReadDeclined, SaveFresh, BlockNext, CheckHub, Deauthorize, DeauthFails,
                EndBlocks, HasList
  <2>2. ~HasList(s)
    BY <1>9 DEF ReadDeclined, SaveFresh, BlockNext, CheckHub, Deauthorize, DeauthFails,
                EndBlocks, HasList
  <2> QED BY <2>1, <2>2, HoldsWithout
<1> QED BY <1>1, <1>2, <1>3, <1>4, <1>5, <1>6, <1>7, <1>8, <1>9 DEF ScanStep

\* A truster has no list of this kind.
LEMMA HoldsTrust ==
  ASSUME TypeOK, FirstScansHold, NEW t \in Truster, StartTrust(t) \/ TrustStep(t)
  PROVE  FirstScansHold'
<1>1. t \in Proc /\ t \notin Scanner
  BY ArmorAssumption DEF Proc
<1>2. /\ \E l : Goto(t, l)
      /\ UNCHANGED mem \/ \E m : Remember(t, m)
  BY TrustMoves
<1> QED BY <1>1, <1>2, HoldsElse

\* Every scan on a first run holds what it has gone through.
LEMMA HoldsKept == Spec => []FirstScansHold
<1>1. Init => FirstScansHold
  BY DEF Init, FirstScansHold, ScanHolds, HasList, Proc
<1>2. TypeOK /\ FirstScansHold /\ [Next]_vars => FirstScansHold'
  <2> SUFFICES ASSUME TypeOK, FirstScansHold, [Next]_vars
               PROVE  FirstScansHold'
    OBVIOUS
  <2>1. ASSUME UNCHANGED <<pc, mem>>
        PROVE  FirstScansHold'
    BY <2>1 DEF FirstScansHold, ScanHolds, HasList
  <2>2. CASE Environment
    BY <2>1, <2>2 DEF Environment, Plug, Unplug, Enumerate, ToggleArmor, Tick
  <2> QED BY <2>1, <2>2, HoldsScan, HoldsTrust DEF Next, vars
<1> QED BY <1>1, <1>2, TypeCorrect, PTL DEF Spec

(***************************************************************************)
(* For any devices, settled, arriving or blocked, and any other processes: *)
(* the baseline a scan saves on a first run has every model it listed, and *)
(* vouches for every device that was complete on its list.                 *)
(***************************************************************************)
THEOREM FirstBaselineWhole == Spec => FirstBaselineComplete
<1> DEFINE Whole(s) == \A l \in mem[s].listed :
                         /\ \E e \in baseline'.entries : SameModel(e, l.fp)
                         /\ l.fp \in Device => Vouched(baseline'.entries, l.fp)
           Wholes == \A s \in Scanner :
                       lock # s /\ lock' = s /\ ~mem[s].existed /\ baseline' # baseline => Whole(s)
<1>1. FirstScansHold /\ [Next]_vars => [Wholes]_vars
  <2> SUFFICES ASSUME FirstScansHold, Next, NEW s \in Scanner,
                      lock # s, lock' = s, ~mem[s].existed, baseline' # baseline,
                      NEW l \in mem[s].listed
               PROVE  /\ \E e \in baseline'.entries : SameModel(e, l.fp)
                      /\ l.fp \in Device => Vouched(baseline'.entries, l.fp)
    OBVIOUS
  <2>1. ~\E t \in Truster : SaveTrust(t)
    BY DEF SaveTrust
  <2>2. TakeLock(s) /\ MaySave(s) /\ SaveBaseline(mem[s].store)
    BY <2>1, WhoSaves DEF TakeLock
  <2>3. pc[s] = "lock" /\ mem[s].wantsSave /\ baseline'.entries = mem[s].store
    BY <2>2 DEF TakeLock, MaySave, SaveBaseline, Saved
  <2>4. Holds(mem[s].store, l.fp)
    BY <2>3 DEF FirstScansHold, ScanHolds, HasList
  <2>5. l.fp \in Device => ~IsLegacy(l.fp)
    BY ArmorAssumption DEF KnownIfs
  <2> QED BY <2>3, <2>4, <2>5 DEF Holds, Vouched, FullEntries
<1> QED BY <1>1, HoldsKept, PTL DEF Spec, FirstBaselineComplete

-----------------------------------------------------------------------------
(* Steady devices *)

\* What makes a device steady: it is there, authorized, settled and trusted by the file.
SteadyDevice(p) ==
  /\ p \in Connected /\ port[p].auth
  /\ port[p].ifs = port[p].dev.ifs
  /\ TrustedOnDisk(port[p].dev)

\* The ports steady for a scan hold steady devices, and none of its targets is on one.
\* It judged none untrusted: unless it found the file unreadable, its store vouches for
\* them all, the list shows them as they are, and a first run has none.
ScanSpares(s) ==
  /\ \A p \in steady[s] : SteadyDevice(p)
  /\ pc[s] = "idle" => mem[s].targets = {}
  /\ \A t \in mem[s].targets : t.port \notin steady[s]
  /\ pc[s] \in {"stamp", "load"} \/ HasStore(s) =>
       mem[s].existed \/ steady[s] = {}
  /\ HasStore(s) =>
       mem[s].corrupt \/ \A p \in steady[s] : Vouched(mem[s].store, port[p].dev)
  /\ HasList(s) =>
       \A l \in mem[s].listed : l.port \in steady[s] => l.fp = port[l.port].dev
  /\ pc[s] = "migrate" => steady[s] \subseteq Ports(mem[s].listed)

Spared == \A s \in Scanner : ScanSpares(s)

\* What is steady for a scan stays as it is, or is steady no longer.
Stays(s) ==
  /\ steady'[s] \subseteq steady[s]
  /\ \A p \in steady'[s] : SteadyDevice(p)' /\ port'[p].dev = port[p].dev

\* Nothing steady is touched by a step that leaves devices and file alone.
LEMMA StaysSame ==
  ASSUME Spared, NEW s \in Scanner, UNCHANGED <<port, baseline>>,
         steady'[s] \subseteq steady[s]
  PROVE  Stays(s)
<1>1. \A p \in steady[s] : SteadyDevice(p)
  BY DEF Spared, ScanSpares
<1> QED BY <1>1 DEF Stays, SteadyDevice, TrustedOnDisk, Connected

\* A save takes what it does not vouch for off the steady ports.
LEMMA StaysSave ==
  ASSUME TypeOK, Spared, NEW s \in Scanner, NEW S, SaveBaseline(S), UNCHANGED port
  PROVE  Stays(s)
<1>1. /\ steady'[s] = {p \in steady[s] : Vouched(Parsed(S), port[p].dev)}
      /\ baseline'.entries = S
  BY DEF SaveBaseline, Saved
<1>2. \A p \in steady[s] : SteadyDevice(p)
  BY DEF Spared, ScanSpares
<1> QED BY <1>1, <1>2 DEF Stays, SteadyDevice, TrustedOnDisk, Connected

\* What changes one port, and takes it off the steady ones, leaves the others steady.
LEMMA StaysElse ==
  ASSUME TypeOK, Spared, NEW s \in Scanner, NEW p \in Port, NEW new,
         port' = [port EXCEPT ![p] = new], UNCHANGED baseline,
         steady'[s] \subseteq steady[s] \ {p}
  PROVE  Stays(s)
<1>1. \A q \in steady[s] : SteadyDevice(q)
  BY DEF Spared, ScanSpares
<1>2. \A q \in Port : q # p => port'[q] = port[q]
  BY DEF TypeOK, SharedTypeOK
<1>3. steady[s] \subseteq Port
  BY DEF TypeOK
<1> QED BY <1>1, <1>2, <1>3 DEF Stays, SteadyDevice, TrustedOnDisk, Connected

\* A scan that a step leaves alone spares what stays.
LEMMA SparesStays ==
  ASSUME Spared, NEW s \in Scanner, Stays(s), pc'[s] = pc[s], mem'[s] = mem[s]
  PROVE  ScanSpares(s)'
<1>1. ScanSpares(s) /\ steady'[s] \subseteq steady[s]
  BY DEF Spared, Stays
<1>2. \A p \in steady'[s] : SteadyDevice(p)' /\ port'[p].dev = port[p].dev
  BY DEF Stays
<1>3. /\ \A p \in steady'[s] : SteadyDevice(p)'
      /\ pc'[s] = "idle" => mem'[s].targets = {}
      /\ \A t \in mem'[s].targets : t.port \notin steady'[s]
      /\ pc'[s] = "migrate" => steady'[s] \subseteq Ports(mem'[s].listed)
      /\ pc'[s] \in {"stamp", "load"} \/ HasStore(s)' =>
           mem'[s].existed \/ steady'[s] = {}
  BY <1>1, <1>2 DEF ScanSpares, HasStore
<1>4. HasStore(s)' =>
        mem'[s].corrupt \/ \A p \in steady'[s] : Vouched(mem'[s].store, port'[p].dev)
  BY <1>1, <1>2 DEF ScanSpares, HasStore
<1>5. HasList(s)' =>
        \A l \in mem'[s].listed : l.port \in steady'[s] => l.fp = port'[l.port].dev
  BY <1>1, <1>2 DEF ScanSpares, HasList
<1> QED BY <1>3, <1>4, <1>5 DEF ScanSpares

\* A step of one process spares what stays for the others, and what that one spares.
LEMMA SparesElse ==
  ASSUME TypeOK, Spared, NEW x \in Proc, NEW l, NEW m,
         Goto(x, l) \/ UNCHANGED pc, Remember(x, m) \/ UNCHANGED mem,
         \A s \in Scanner : s # x => Stays(s),
         x \in Scanner => ScanSpares(x)'
  PROVE  Spared'
<1> SUFFICES ASSUME NEW s \in Scanner, s # x
             PROVE  ScanSpares(s)'
  BY DEF Spared
<1>1. pc'[s] = pc[s] /\ mem'[s] = mem[s]
  BY OthersStay DEF Proc
<1> QED BY <1>1, SparesStays

\* A scan done with its store spares what stays as long as it has no new targets.
LEMMA SparesLate ==
  ASSUME TypeOK, Spared, NEW s \in Scanner, NEW l, NEW m,
         Goto(s, l) \/ UNCHANGED pc, Remember(s, m) \/ (UNCHANGED mem /\ m = mem[s]),
         pc'[s] \in {"readDeclined", "saveFresh", "block", "deauth", "write", "report"},
         m.targets \subseteq mem[s].targets,
         \A y \in Scanner : Stays(y)
  PROVE  Spared'
<1>1. s \in Proc /\ mem'[s] = m
  BY DEF Proc, Remember, TypeOK, ControlTypeOK
<1>2. \A t \in m.targets : t.port \notin steady'[s]
  BY DEF Spared, ScanSpares, Stays
<1>3. \A p \in steady'[s] : SteadyDevice(p)'
  BY DEF Stays
<1>4. ScanSpares(s)'
  BY <1>1, <1>2, <1>3 DEF ScanSpares, HasStore, HasList
<1> QED BY <1>1, <1>4, SparesElse

\* A scan that keeps its store and its list spares what stays, with no new targets.
LEMMA SparesWith ==
  ASSUME TypeOK, Spared, NEW s \in Scanner, NEW l, NEW m,
         Goto(s, l), Remember(s, m) \/ (UNCHANGED mem /\ m = mem[s]),
         HasList(s), l \in {"judge", "ready", "prune", "savePruned", "lock"},
         m.existed = mem[s].existed, m.corrupt = mem[s].corrupt,
         m.store = mem[s].store, m.listed = mem[s].listed,
         m.targets = mem[s].targets, UNCHANGED <<port, baseline, steady>>
  PROVE  Spared'
<1>1. s \in Proc /\ mem'[s] = m /\ pc'[s] = l
  BY DEF Proc, Remember, Goto, TypeOK, ControlTypeOK
<1>2. \A y \in Scanner : Stays(y)
  BY StaysSame
<1>3. ScanSpares(s) /\ HasStore(s)
  BY DEF Spared, HasList, HasStore
<1>4. \A p \in steady[s] : SteadyDevice(p)'
  BY <1>2 DEF Stays
<1>5. ScanSpares(s)'
  BY <1>1, <1>3, <1>4 DEF ScanSpares, HasStore, HasList
<1> QED BY <1>1, <1>2, <1>5, SparesElse

\* Upgrading a store from devices it vouches for goes on vouching for them.
LEMMA UpgradeVouches ==
  ASSUME NEW S \in SUBSET Fingerprint, NEW D \in SUBSET Fingerprint,
         NEW d \in D, ~IsLegacy(d), Vouched(S, d)
  PROVE  Vouched(Upgrade(S, D), d)
<1>1. PICK e \in S : Matches(e, d)
  BY DEF Vouched
<1>2. CASE ~IsLegacy(e)
  BY <1>1, <1>2 DEF Vouched, Upgrade, Upgradable
<1>3. CASE IsLegacy(e)
  <2>1. Vouched(Upgradable(S, D), d) /\ d \in FullEntries(D)
    BY <1>1, <1>3 DEF Upgradable, FullEntries, Vouched
  <2>2. CASE Vouched(FullEntries(S), d)
    BY <2>2 DEF Vouched, Upgrade, Upgradable, FullEntries
  <2>3. CASE ~Vouched(FullEntries(S), d)
    <3>1. d \in Upgrade(S, D) /\ Matches(d, d)
      BY <2>1, <2>3 DEF Upgrade, Matches, SameModel
    <3> QED BY <3>1 DEF Vouched
  <2> QED BY <2>2, <2>3
<1> QED BY <1>2, <1>3

\* What is listed of a steady device is the device.
LEMMA ReadSteady ==
  ASSUME TypeOK, NEW p \in Port, SteadyDevice(p)
  PROVE  ReadFingerprint(p) = port[p].dev /\ ~IsLegacy(port[p].dev) /\ ~IsEnumerating(p)
<1>1. port[p].dev \in Device
  BY DEF TypeOK, SharedTypeOK, PortState, SteadyDevice, Connected
<1>2. port[p].dev \in Fingerprint /\ KnownIfs(port[p].dev) # {}
  BY <1>1, ArmorAssumption
<1>3. [port[p].dev EXCEPT !.ifs = port[p].dev.ifs] = port[p].dev
  BY <1>2 DEF Fingerprint
<1> QED BY <1>2, <1>3 DEF ReadFingerprint, SteadyDevice, IsEnumerating, KnownIfs

\* A scan that upgrades its store from its list spares what is steady.
LEMMA SparesMigrate ==
  ASSUME TypeOK, Spared, NEW s \in Scanner, MigrateLegacy(s)
  PROVE  Spared'
<1> DEFINE m == mem[s]
           settled == SettledOf(m.listed)
           n == [m EXCEPT !.store = Upgrade(m.store, settled),
                          !.changed = UpgradeChanges(m.store, settled)]
           next == IF m.todo = {} THEN "ready" ELSE "judge"
<1>0. /\ s \in Proc /\ m \in Memory /\ ScanSpares(s) /\ m.store \in SUBSET Fingerprint
      /\ m.listed \in SUBSET [port : Port, fp : Fingerprint]
      /\ pc \in [Proc -> ScanLabels \cup TrustLabels] /\ mem \in [Proc -> Memory]
      /\ steady[s] \subseteq Port
  BY DEF Proc, TypeOK, ControlTypeOK, Memory, Spared
<1>1. HasList(s) /\ HasStore(s) /\ pc[s] = "migrate"
  BY DEF MigrateLegacy, HasList, HasStore
<1>2. Goto(s, next) /\ next \in {"judge", "ready"} /\ UNCHANGED <<port, baseline, steady>>
  BY DEF MigrateLegacy, Loop, files, scanVars
<1>3. CASE UNCHANGED mem
  BY <1>1, <1>2, <1>3, SparesWith
<1>4. CASE Remember(s, n)
  <2>1. /\ n.listed = m.listed /\ n.existed = m.existed /\ n.corrupt = m.corrupt
        /\ n.targets = m.targets /\ n.store = Upgrade(m.store, settled)
    BY <1>0 DEF Memory
  <2>2. mem'[s] = n /\ pc'[s] = next
    BY <1>0, <1>2, <1>4 DEF Remember, Goto
  <2> HIDE DEF n
  <2>3. ASSUME NEW p \in steady[s], ~m.corrupt
        PROVE  Vouched(n.store, port[p].dev)
    <3>1. SteadyDevice(p) /\ Vouched(m.store, port[p].dev) /\ p \in Ports(m.listed)
      BY <1>0, <1>1, <2>3 DEF ScanSpares
    <3>2. PICK l \in m.listed : l.port = p
      BY <3>1 DEF Ports
    <3>3. l.fp = port[p].dev /\ ~IsLegacy(l.fp) /\ ~IsEnumerating(l.port)
      BY <1>0, <1>1, <2>3, <3>1, <3>2, ReadSteady DEF ScanSpares
    <3>4. l.fp \in settled /\ settled \in SUBSET Fingerprint
      BY <1>0, <3>2, <3>3 DEF SettledOf
    <3> HIDE DEF settled
    <3> QED BY <1>0, <2>1, <3>1, <3>3, <3>4, UpgradeVouches
  <2>4. \A y \in Scanner : Stays(y)
    BY <1>2, StaysSame
  <2>5. \A p \in steady[s] : SteadyDevice(p)'
    BY <1>2, <2>4 DEF Stays
  <2>6. ScanSpares(s)'
    BY <1>0, <1>1, <1>2, <2>1, <2>2, <2>3, <2>5 DEF ScanSpares, HasStore, HasList
  <2> QED BY <1>0, <1>2, <1>4, <2>4, <2>6, SparesElse
<1> QED BY <1>3, <1>4 DEF MigrateLegacy

\* An entry that vouches for a device is of its model, so the verdict is clear.
LEMMA VouchedIsTrusted ==
  ASSUME NEW S, NEW d, Vouched(S, d)
  PROVE  Verdict(S, d) = "Trusted"
<1>1. \E e \in S : SameModel(e, d)
  BY DEF Vouched, Matches
<1> QED BY <1>1 DEF Verdict

\* A scan that judges a device makes no steady one its target.
LEMMA SparesJudge ==
  ASSUME TypeOK, Spared, NEW s \in Scanner, JudgeDevice(s)
  PROVE  Spared'
<1> DEFINE m == mem[s]
<1>0. /\ s \in Proc /\ m \in Memory /\ ScanSpares(s)
      /\ pc \in [Proc -> ScanLabels \cup TrustLabels] /\ mem \in [Proc -> Memory]
  BY DEF Proc, TypeOK, ControlTypeOK, Spared
<1>1. HasList(s) /\ HasStore(s) /\ UNCHANGED <<port, baseline, steady>>
  BY DEF JudgeDevice, HasList, HasStore, files, scanVars
<1>11. PICK l \in m.listed : \E T :
        /\ \/ T = m.targets
           \/ /\ ~IsTrusted(m.corrupt, Learnt(m, l.fp), l.fp)
              /\ T = m.targets \cup {[port |-> l.port, model |-> l.fp.model]}
        /\ Remember(s, [m EXCEPT !.store = Learnt(m, l.fp), !.todo = @ \ {l.port},
                                 !.targets = T])
        /\ Loop(s, m.todo \ {l.port}, "judge", "ready")
  <2>1. PICK l \in m.listed :
          LET p == l.port
              S == Learnt(m, l.fp)
              target == /\ ~IsTrusted(m.corrupt, S, l.fp)
                        /\ IsDeauthTarget(p, l.fp, IsDeauthorized(p))
          IN  /\ Remember(s, [m EXCEPT
                   !.store = S,
                   !.todo = @ \ {p},
                   !.targets = IF target
                                 THEN @ \cup {[port |-> p, model |-> l.fp.model]}
                                 ELSE @])
              /\ Loop(s, m.todo \ {p}, "judge", "ready")
    BY DEF JudgeDevice
  <2> QED BY <2>1
<1>2. PICK T :
        /\ \/ T = m.targets
           \/ /\ ~IsTrusted(m.corrupt, Learnt(m, l.fp), l.fp)
              /\ T = m.targets \cup {[port |-> l.port, model |-> l.fp.model]}
        /\ Remember(s, [m EXCEPT !.store = Learnt(m, l.fp), !.todo = @ \ {l.port},
                                 !.targets = T])
        /\ Loop(s, m.todo \ {l.port}, "judge", "ready")
  BY <1>11
<1> DEFINE n == [m EXCEPT !.store = Learnt(m, l.fp), !.todo = @ \ {l.port}, !.targets = T]
           next == IF m.todo \ {l.port} = {} THEN "ready" ELSE "judge"
<1>3. /\ n.listed = m.listed /\ n.existed = m.existed /\ n.corrupt = m.corrupt
      /\ n.targets = T /\ n.store = Learnt(m, l.fp)
  BY <1>0 DEF Memory
<1>4. mem'[s] = n /\ pc'[s] = next /\ Remember(s, n) /\ Goto(s, next)
  BY <1>0, <1>2 DEF Remember, Goto, Loop
<1> HIDE DEF n
<1>5. steady[s] # {} => m.existed /\ n.store = m.store
  BY <1>0, <1>1, <1>3 DEF ScanSpares, Learnt
<1>6. \A t \in T : t.port \notin steady[s]
  <2> SUFFICES ASSUME l.port \in steady[s], ~IsTrusted(m.corrupt, Learnt(m, l.fp), l.fp)
               PROVE  FALSE
    BY <1>0, <1>2 DEF ScanSpares
  <2>1. l.fp = port[l.port].dev /\ (m.corrupt \/ Vouched(m.store, l.fp))
    BY <1>0, <1>1 DEF ScanSpares
  <2>2. Learnt(m, l.fp) = m.store
    BY <1>3, <1>5
  <2>3. Vouched(m.store, l.fp) => Verdict(m.store, l.fp) = "Trusted"
    BY VouchedIsTrusted
  <2>4. m.corrupt \/ Verdict(Learnt(m, l.fp), l.fp) = "Trusted"
    BY <2>1, <2>2, <2>3, Zenon
  <2> QED BY <2>4, Zenon DEF IsTrusted
<1>7. \A y \in Scanner : Stays(y)
  BY <1>1, StaysSame
<1>8. \A p \in steady[s] : SteadyDevice(p)'
  BY <1>1, <1>7 DEF Stays
<1>9. ScanSpares(s)'
  BY <1>0, <1>1, <1>3, <1>4, <1>5, <1>6, <1>8 DEF ScanSpares, HasStore, HasList
<1> QED BY <1>0, <1>4, <1>7, <1>9, SparesElse

\* A scanner's step spares what is steady.
LEMMA SparesScan ==
  ASSUME TypeOK, Spared, NEW s \in Scanner, ScanStep(s)
  PROVE  Spared'
<1> DEFINE m == mem[s]
<1>0. /\ s \in Proc /\ m \in Memory /\ ScanSpares(s)
      /\ pc \in [Proc -> ScanLabels \cup TrustLabels] /\ mem \in [Proc -> Memory]
      /\ port \in [Port -> PortState] /\ steady \in [Scanner -> SUBSET Port]
      /\ baseline \in Baseline
  BY DEF Proc, TypeOK, ControlTypeOK, SharedTypeOK, Spared
<1>1. CASE StartScan(s)
  <2> DEFINE n == [m EXCEPT !.existed = baseline.state # "absent"]
  <2>1. n.existed = (baseline.state # "absent") /\ n.targets = {}
    BY <1>0, <1>1 DEF Memory, StartScan, ScanSpares
  <2>2. /\ Remember(s, n) /\ Goto(s, "stamp") /\ mem'[s] = n /\ pc'[s] = "stamp"
        /\ UNCHANGED <<port, baseline>> /\ steady'[s] = SteadyNow
        /\ \A y \in Scanner : y # s => steady'[y] = steady[y]
    BY <1>0, <1>1 DEF StartScan, Remember, Goto, files
  <2> HIDE DEF n
  <2>3. \A y \in Scanner : y # s => Stays(y)
    BY <2>2, StaysSame
  <2>4. \A p \in SteadyNow : SteadyDevice(p)'
    BY <2>2 DEF SteadyNow, SteadyDevice, IsEnumerating, TrustedOnDisk, Connected
  <2>5. baseline.state = "absent" => SteadyNow = {}
    BY <1>0 DEF Baseline, SteadyNow, TrustedOnDisk, Vouched, Parsed
  <2>6. ScanSpares(s)'
    BY <2>1, <2>2, <2>4, <2>5 DEF ScanSpares, HasStore, HasList
  <2> QED BY <1>0, <2>2, <2>3, <2>6, SparesElse
<1>2. CASE TakeStamp(s)
  <2>1. /\ Goto(s, "load") /\ pc'[s] = "load" /\ UNCHANGED <<mem, port, baseline, steady>>
        /\ pc[s] = "stamp"
    BY <1>0, <1>2 DEF TakeStamp, Goto, files
  <2>2. \A y \in Scanner : Stays(y)
    BY <2>1, StaysSame
  <2>3. ScanSpares(s)'
    BY <1>0, <2>1, <2>2 DEF ScanSpares, HasStore, HasList, Stays
  <2> QED BY <1>0, <2>1, <2>2, <2>3, SparesElse
<1>3. CASE LoadBaseline(s)
  <2> DEFINE n == [m EXCEPT !.corrupt = m.existed /\ baseline.state # "readable",
                            !.store = IF m.existed THEN Loaded ELSE {}]
  <2>1. /\ n.existed = m.existed /\ n.targets = m.targets
        /\ n.corrupt = (m.existed /\ baseline.state # "readable")
        /\ n.store = IF m.existed THEN Loaded ELSE {}
    BY <1>0 DEF Memory
  <2>2. /\ Remember(s, n) /\ Goto(s, "list") /\ mem'[s] = n /\ pc'[s] = "list"
        /\ UNCHANGED <<port, baseline, steady>> /\ pc[s] = "load"
    BY <1>0, <1>3 DEF LoadBaseline, Remember, Goto, files, scanVars
  <2> HIDE DEF n
  <2>3. \A y \in Scanner : Stays(y)
    BY <2>2, StaysSame
  <2>4. \A p \in steady[s] : SteadyDevice(p) /\ SteadyDevice(p)'
    BY <1>0, <2>2, <2>3 DEF ScanSpares, Stays
  <2>5. m.existed \/ steady[s] = {}
    BY <1>0, <2>2 DEF ScanSpares
  <2>6. \A p \in steady[s] : n.corrupt \/ Vouched(n.store, port[p].dev)
    BY <2>1, <2>4, <2>5 DEF SteadyDevice, TrustedOnDisk, Loaded
  <2>7. ScanSpares(s)'
    BY <1>0, <2>1, <2>2, <2>4, <2>5, <2>6 DEF ScanSpares, HasStore, HasList
  <2> QED BY <1>0, <2>2, <2>3, <2>7, SparesElse
<1>4. CASE ListDevices(s)
  <2> DEFINE n == [m EXCEPT !.listed = ListedNow, !.todo = Connected]
  <2>1. /\ n.existed = m.existed /\ n.targets = m.targets /\ n.corrupt = m.corrupt
        /\ n.store = m.store /\ n.listed = ListedNow
    BY <1>0 DEF Memory
  <2>2. /\ Remember(s, n) /\ Goto(s, "migrate") /\ mem'[s] = n /\ pc'[s] = "migrate"
        /\ UNCHANGED <<port, baseline, steady>> /\ HasStore(s)
    BY <1>0, <1>4 DEF ListDevices, Remember, Goto, files, scanVars, HasStore
  <2> HIDE DEF n
  <2>3. \A y \in Scanner : Stays(y)
    BY <2>2, StaysSame
  <2>4. \A p \in steady[s] : SteadyDevice(p) /\ SteadyDevice(p)'
    BY <1>0, <2>2, <2>3 DEF ScanSpares, Stays
  <2>5. steady[s] \subseteq Ports(ListedNow)
    BY <2>4, ListsEach DEF SteadyDevice
  <2>6. ASSUME NEW l \in ListedNow, l.port \in steady[s]
        PROVE  l.fp = port[l.port].dev
    <3>1. PICK p \in Connected : l = [port |-> p, fp |-> ReadFingerprint(p)]
      BY <2>6 DEF ListedNow
    <3>2. p \in Port /\ SteadyDevice(p)
      BY <1>0, <2>4, <2>6, <3>1
    <3> QED BY <3>1, <3>2, ReadSteady
  <2>7. ScanSpares(s)'
    BY <1>0, <2>1, <2>2, <2>4, <2>5, <2>6 DEF ScanSpares, HasStore, HasList
  <2> QED BY <1>0, <2>2, <2>3, <2>7, SparesElse
<1>5. CASE SkipEnumerating(s)
  <2>1. PICK p \in m.todo : /\ Remember(s, [m EXCEPT !.todo = @ \ {p}, !.pending = TRUE])
                            /\ Loop(s, m.todo \ {p}, "judge", "ready")
    BY <1>5 DEF SkipEnumerating
  <2> DEFINE n == [m EXCEPT !.todo = @ \ {p}, !.pending = TRUE]
             next == IF m.todo \ {p} = {} THEN "ready" ELSE "judge"
  <2>2. /\ n.existed = m.existed /\ n.targets = m.targets /\ n.corrupt = m.corrupt
        /\ n.store = m.store /\ n.listed = m.listed
    BY <1>0 DEF Memory
  <2>3. /\ HasList(s) /\ Remember(s, n) /\ Goto(s, next) /\ next \in {"judge", "ready"}
        /\ UNCHANGED <<port, baseline, steady>>
    BY <1>5, <2>1 DEF SkipEnumerating, HasList, Loop, files, scanVars
  <2> HIDE DEF n, next
  <2> QED BY <2>2, <2>3, SparesWith
<1>6. CASE FirstRunReady(s)
  <2> DEFINE n == [m EXCEPT !.wantsSave = WantsSave(m)]
  <2>1. /\ n.existed = m.existed /\ n.targets = m.targets /\ n.corrupt = m.corrupt
        /\ n.store = m.store /\ n.listed = m.listed
    BY <1>0 DEF Memory
  <2>2. /\ HasList(s) /\ Remember(s, n) /\ UNCHANGED <<port, baseline, steady>>
        /\ Goto(s, "prune")
    BY <1>6 DEF FirstRunReady, HasList, files, scanVars
  <2> HIDE DEF n
  <2> QED BY <2>1, <2>2, SparesWith
<1>7. CASE Prune(s) \/ SavePruned(s)
  <2>1. /\ HasList(s) /\ UNCHANGED <<mem, port, baseline, steady>>
        /\ \E l \in {"savePruned", "lock"} : Goto(s, l)
    BY <1>7 DEF Prune, SavePruned, HasList, files
  <2> QED BY <2>1, SparesWith
<1>8. CASE SkipLock(s)
  <2>1. /\ Goto(s, "report") /\ pc'[s] = "report" /\ UNCHANGED <<port, baseline, steady>>
        /\ Remember(s, NoMemory) /\ NoMemory.targets = {}
    BY <1>0, <1>8 DEF SkipLock, Forget, NoMemory, Goto, files, scanVars
  <2> QED BY <2>1, StaysSame, SparesLate
<1>9. CASE TakeLock(s)
  <2>1. UNCHANGED port /\ (SaveBaseline(m.store) \/ UNCHANGED <<baseline, steady>>)
    BY <1>9 DEF TakeLock
  <2>2. \A y \in Scanner : Stays(y)
    BY <2>1, StaysSame, StaysSave
  <2>3. PICK n : /\ Remember(s, n) /\ n \in {BlockMemory(m), NoMemory}
                 /\ \E l \in {"readDeclined", "report"} : Goto(s, l)
    <3>1. CASE WantsBlock(s)
      BY <1>9, <3>1 DEF TakeLock
    <3>2. CASE ~WantsBlock(s)
      BY <1>9, <3>2 DEF TakeLock, Forget
    <3> QED BY <3>1, <3>2
  <2>4. BlockMemory(m).targets = m.targets /\ NoMemory.targets = {}
    BY DEF BlockMemory, NoMemory
  <2>5. pc'[s] \in {"readDeclined", "report"}
    BY <1>0, <2>3 DEF Goto
  <2> QED BY <2>2, <2>3, <2>4, <2>5, SparesLate
<1>10. CASE ReadDeclined(s) \/ SaveFresh(s) \/ CheckHub(s) \/ EndBlocks(s)
  <2>1. /\ UNCHANGED <<mem, port, baseline, steady>>
        /\ \E l \in {"saveFresh", "block", "write", "report"} : Goto(s, l)
    BY <1>10 DEF ReadDeclined, SaveFresh, CheckHub, EndBlocks, files, scanVars
  <2>2. pc'[s] \in {"saveFresh", "block", "write", "report"}
    BY <1>0, <2>1 DEF Goto
  <2> QED BY <2>1, <2>2, StaysSame, SparesLate
<1>11. CASE BlockNext(s)
  <2>1. UNCHANGED <<port, baseline, steady>> /\ pc[s] = "block"
    BY <1>11 DEF BlockNext, files, scanVars
  <2>2. CASE Goto(s, "deauth") /\ UNCHANGED mem
    <3>1. pc'[s] = "deauth"
      BY <1>0, <2>2 DEF Goto
    <3> QED BY <2>1, <2>2, <3>1, StaysSame, SparesLate
  <2>3. CASE \E t \in m.targets : Remember(s, [m EXCEPT !.targets = @ \ {t}]) /\ UNCHANGED pc
    <3>1. PICK t : Remember(s, [m EXCEPT !.targets = @ \ {t}]) /\ UNCHANGED pc
      BY <2>3
    <3>2. [m EXCEPT !.targets = @ \ {t}].targets \subseteq m.targets
      BY <1>0 DEF Memory
    <3> QED BY <2>1, <3>1, <3>2, StaysSame, SparesLate
  <2> QED BY <1>11, <2>2, <2>3 DEF BlockNext
<1>12. CASE Deauthorize(s)
  <2>1. PICK t \in m.targets :
          /\ t.port \in Connected
          /\ port' = [port EXCEPT ![t.port].auth = FALSE, ![t.port].ifs = NoIfs]
          /\ Disturb(t.port)
          /\ Remember(s, [m EXCEPT !.targets = @ \ {t}])
    BY <1>12 DEF Deauthorize
  <2> DEFINE p == t.port
             new == [port[p] EXCEPT !.auth = FALSE, !.ifs = NoIfs]
             n == [m EXCEPT !.targets = @ \ {t}]
  <2>2. p \in Port /\ port' = [port EXCEPT ![p] = new] /\ UNCHANGED baseline
    BY <1>0, <1>12, <2>1 DEF Connected, Deauthorize, files
  <2>3. \A y \in Scanner : steady'[y] \subseteq steady[y] \ {p}
    BY <2>1 DEF Disturb
  <2>4. n.targets \subseteq m.targets
    BY <1>0 DEF Memory
  <2>5. Goto(s, "block") /\ pc'[s] = "block"
    BY <1>0, <1>12 DEF Deauthorize, Goto
  <2> HIDE DEF p, new, n
  <2>6. \A y \in Scanner : Stays(y)
    BY <2>2, <2>3, StaysElse
  <2>7. Remember(s, n)
    BY <2>1 DEF n
  <2> QED BY <2>4, <2>5, <2>6, <2>7, SparesLate
<1>13. CASE DeauthFails(s)
  <2>1. PICK t : Remember(s, [m EXCEPT !.targets = @ \ {t}, !.failed = TRUE])
    BY <1>13 DEF DeauthFails
  <2>2. [m EXCEPT !.targets = @ \ {t}, !.failed = TRUE].targets \subseteq m.targets
    BY <1>0 DEF Memory
  <2>3. pc'[s] = "block" /\ Goto(s, "block") /\ UNCHANGED <<port, baseline, steady>>
    BY <1>0, <1>13 DEF DeauthFails, Goto, files
  <2> QED BY <2>1, <2>2, <2>3, StaysSame, SparesLate
<1>14. CASE EndScan(s)
  <2>1. /\ Goto(s, "idle") /\ pc'[s] = "idle" /\ UNCHANGED <<port, baseline>>
        /\ Remember(s, NoMemory) /\ mem'[s].targets = {}
        /\ steady'[s] = {} /\ \A y \in Scanner : steady'[y] \subseteq steady[y]
    BY <1>0, <1>14 DEF EndScan, Forget, Remember, NoMemory, Goto, files
  <2>2. \A y \in Scanner : Stays(y)
    BY <2>1, StaysSame
  <2>3. ScanSpares(s)'
    BY <2>1 DEF ScanSpares, HasStore, HasList
  <2> QED BY <1>0, <2>1, <2>2, <2>3, SparesElse
<1> QED BY <1>1, <1>2, <1>3, <1>4, <1>5, <1>6, <1>7, <1>8, <1>9, <1>10, <1>11, <1>12,
           <1>13, <1>14, SparesMigrate, SparesJudge DEF ScanStep

\* A truster gives devices back and saves; a steady device has nothing to get back.
LEMMA SparesTrust ==
  ASSUME TypeOK, Spared, NEW t \in Truster, StartTrust(t) \/ TrustStep(t)
  PROVE  Spared'
<1>1. t \in Proc /\ t \notin Scanner
  BY ArmorAssumption DEF Proc
<1>2. CASE UNCHANGED <<port, baseline, steady>>
  BY <1>1, <1>2, TrustMoves, StaysSame, SparesElse
<1>3. CASE ReauthorizeNext(t)
  <2>1. CASE UNCHANGED port
    BY <1>2, <1>3, <2>1 DEF ReauthorizeNext, files, scanVars
  <2>2. CASE \E p \in Connected : port' = [port EXCEPT ![p].auth = TRUE]
    <3>1. PICK p \in Connected : port' = [port EXCEPT ![p].auth = TRUE]
      BY <2>2
    <3>2. \A q \in Port : /\ port'[q].dev = port[q].dev /\ port'[q].ifs = port[q].ifs
                          /\ port[q].auth => port'[q].auth
      BY <3>1 DEF TypeOK, SharedTypeOK, PortState
    <3>3. UNCHANGED <<baseline, steady>>
      BY <1>3 DEF ReauthorizeNext, files, scanVars
    <3>4. \A s \in Scanner : Stays(s)
      <4> SUFFICES ASSUME NEW s \in Scanner, NEW q \in steady[s]
                   PROVE  SteadyDevice(q)' /\ port'[q].dev = port[q].dev
        BY <3>3 DEF Stays
      <4>1. SteadyDevice(q)
        BY DEF Spared, ScanSpares
      <4> QED BY <3>2, <3>3, <4>1 DEF SteadyDevice, TrustedOnDisk, Connected
    <3> QED BY <1>1, <3>4, TrustMoves, SparesElse
  <2> QED BY <1>3, <2>1, <2>2 DEF ReauthorizeNext
<1>4. CASE SaveTrust(t)
  <2>1. SaveBaseline(mem[t].store) /\ UNCHANGED port
    BY <1>4 DEF SaveTrust
  <2> QED BY <1>1, <2>1, TrustMoves, StaysSave, SparesElse
<1>5. ASSUME ~ReauthorizeNext(t), ~SaveTrust(t)
      PROVE  UNCHANGED <<port, baseline, steady>>
  BY <1>5 DEF StartTrust, TrustStep, LockForTrust, FindBlocked, ListForTrust,
              LoadForTrust, Observe, MergeNext, SaveTrustFails, ClearDeclined,
              files, scanVars
<1> QED BY <1>2, <1>3, <1>4, <1>5

\* Plugging needs an empty port, and a device that has settled has nothing left to
\* enumerate; unplugging ends its being steady.
LEMMA SparesEnvironment ==
  ASSUME TypeOK, Spared, Environment
  PROVE  Spared'
<1>0. UNCHANGED <<pc, mem, baseline>>
  BY DEF Environment, Plug, Unplug, Enumerate, ToggleArmor, Tick, files
<1>1. SUFFICES \A s \in Scanner : Stays(s)
  BY <1>0, SparesStays DEF Spared
<1>2. \A s \in Scanner : steady[s] \subseteq Port /\ \A p \in steady[s] : SteadyDevice(p)
  BY DEF Spared, ScanSpares, TypeOK
<1>3. ASSUME NEW p \in Port, NEW d \in Device, Plug(p, d)
      PROVE  \A s \in Scanner : Stays(s)
  <2>1. \A s \in Scanner : steady'[s] \subseteq steady[s] \ {p}
    BY <1>2, <1>3 DEF Plug, scanVars, SteadyDevice
  <2> QED BY <1>0, <1>3, <2>1, StaysElse DEF Plug
<1>4. ASSUME NEW p \in Port, Unplug(p)
      PROVE  \A s \in Scanner : Stays(s)
  <2>1. \A s \in Scanner : steady'[s] \subseteq steady[s] \ {p}
    BY <1>4 DEF Unplug, Disturb
  <2> QED BY <1>0, <1>4, <2>1, StaysElse DEF Unplug
<1>5. ASSUME NEW p \in Port, Enumerate(p)
      PROVE  \A s \in Scanner : Stays(s)
  <2>1. port' = [port EXCEPT ![p] = port'[p]] /\ UNCHANGED steady
    BY <1>5 DEF Enumerate, TypeOK, SharedTypeOK, scanVars
  <2>2. ASSUME NEW s \in Scanner, p \in steady[s]
        PROVE  FALSE
    <3>1. ~IsLegacy(port[p].dev) /\ port[p].ifs = port[p].dev.ifs
      BY <1>2, <2>2, ReadSteady DEF SteadyDevice
    <3> QED BY <1>5, <3>1 DEF Enumerate, IsLegacy
  <2>3. \A s \in Scanner : steady'[s] \subseteq steady[s] \ {p}
    BY <2>1, <2>2
  <2> QED BY <1>0, <2>1, <2>3, StaysElse
<1>6. CASE ToggleArmor \/ Tick
  BY <1>0, <1>6, StaysSame DEF ToggleArmor, Tick, scanVars
<1> QED BY <1>3, <1>4, <1>5, <1>6 DEF Environment

\* Every scan spares what is steady for it.
LEMMA SparedKept == Spec => []Spared
<1>1. Init => Spared
  BY DEF Init, Spared, ScanSpares, HasStore, HasList, NoMemory, Proc
<1>2. TypeOK /\ Spared /\ [Next]_vars => Spared'
  <2> SUFFICES ASSUME TypeOK, Spared, [Next]_vars
               PROVE  Spared'
    OBVIOUS
  <2>1. CASE UNCHANGED vars
    BY <2>1, StaysSame, SparesStays DEF Spared, vars, files, scanVars
  <2> QED BY <2>1, SparesScan, SparesTrust, SparesEnvironment DEF Next
<1> QED BY <1>1, <1>2, TypeCorrect, PTL DEF Spec

(***************************************************************************)
(* For any devices and processes: a device that has been settled, in place *)
(* and trusted by the file ever since a scan started is not blocked by it, *)
(* whatever it migrates, fails to save or is overtaken by.                 *)
(***************************************************************************)
THEOREM SteadySpared == Spec => SteadyNeverBlocked
<1> DEFINE Spares(s) == pc[s] = "write" => \A p \in steady[s] : ~Blocks(p)
           AllSpare == \A s \in Scanner : Spares(s)
<1>1. TypeOK /\ LockHeld /\ Spared /\ [Next]_vars => [AllSpare]_vars
  <2> SUFFICES ASSUME TypeOK, LockHeld, Spared, Next, NEW s \in Scanner, pc[s] = "write",
                      NEW p \in steady[s], Blocks(p)
               PROVE  FALSE
    OBVIOUS
  <2>1. p \in Port /\ s \in Proc
    BY DEF TypeOK, Proc
  <2>2. PICK x \in Scanner : Deauthorize(x)
    BY <2>1, WhoBlocks
  <2>3. x = s
    BY <2>1, <2>2 DEF Deauthorize, LockHeld, NeedsLock, Proc
  <2>4. PICK t \in mem[s].targets :
          port' = [port EXCEPT ![t.port].auth = FALSE, ![t.port].ifs = NoIfs]
    BY <2>2, <2>3 DEF Deauthorize
  <2>5. t.port # p
    BY <2>4 DEF Spared, ScanSpares
  <2>6. port'[p] = port[p]
    BY <2>1, <2>4, <2>5 DEF TypeOK, SharedTypeOK
  <2> QED BY <2>6 DEF Blocks
<1> QED BY <1>1, SparedKept, TypeCorrect, LockKept, PTL DEF Spec, SteadyNeverBlocked

-----------------------------------------------------------------------------
(* What the operators of the store promise, of any store *)

(***************************************************************************)
(* "The migration never widens trust beyond what was connected": upgrading *)
(* the legacy entries of a store makes no device trusted, in whatever      *)
(* state of enumeration, and keeps every trusted device it upgrades from.  *)
(***************************************************************************)
THEOREM MigrationExact ==
  ASSUME NEW S \in SUBSET Fingerprint, NEW D \in SUBSET Fingerprint
  PROVE  /\ \A d \in Fingerprint : Vouched(Parsed(Upgrade(S, D)), d) => Vouched(Parsed(S), d)
         /\ \A d \in FullEntries(D) : Vouched(Upgrade(S, D), d) <=> Vouched(S, d)
<1>1. \A d \in Fingerprint : Vouched(Parsed(Upgrade(S, D)), d) => Vouched(Parsed(S), d)
  BY UpgradeNarrows
<1>2. ASSUME NEW d \in FullEntries(D), Vouched(Upgrade(S, D), d)
      PROVE  Vouched(S, d)
  <2>1. PICK e \in Upgrade(S, D) : Matches(e, d)
    BY <1>2 DEF Vouched
  <2>2. CASE e \in S
    BY <2>1, <2>2 DEF Vouched
  <2>3. CASE e \in FullEntries(D) /\ Vouched(Upgradable(S, D), e)
    <3>1. PICK o \in S : IsLegacy(o) /\ Matches(o, e)
      BY <2>3 DEF Vouched, Upgradable
    <3>2. o \in Fingerprint /\ e \in Fingerprint /\ d \in Fingerprint
      BY <2>3 DEF FullEntries
    <3>3. Matches(o, d)
      BY <2>1, <3>1, <3>2, LegacyCovers
    <3> QED BY <3>3 DEF Vouched
  <2> QED BY <2>1, <2>2, <2>3 DEF Upgrade
<1>3. ASSUME NEW d \in FullEntries(D), Vouched(S, d)
      PROVE  Vouched(Upgrade(S, D), d)
  BY <1>3, UpgradeVouches DEF FullEntries
<1> QED BY <1>1, <1>2, <1>3

(***************************************************************************)
(* Trusting a device whose interfaces are known leaves an entry with its   *)
(* interfaces that vouches for it, takes such an entry from nobody, and    *)
(* makes nobody trusted whom that device, as an entry, does not match.     *)
(***************************************************************************)
THEOREM TrustExact ==
  ASSUME NEW S \in SUBSET Fingerprint, NEW d \in Fingerprint, ~IsLegacy(d)
  PROVE  /\ Vouched(FullEntries(Trust(S, d)), d)
         /\ \A e : Vouched(FullEntries(S), e) => Vouched(FullEntries(Trust(S, d)), e)
         /\ \A e : Vouched(Trust(S, d), e) => Vouched(S, e) \/ Matches(d, e)
<1>1. Vouched(FullEntries(Trust(S, d)), d)
  BY TrustHolds DEF Holds
<1>2. FullEntries(S) \subseteq FullEntries(Trust(S, d))
  BY TrustKeepsFull
<1>3. Trust(S, d) \subseteq S \cup {d}
  BY DEF Trust, Upgrade, FullEntries
<1> QED BY <1>1, <1>2, <1>3 DEF Vouched

-----------------------------------------------------------------------------
(* The baseline as a ledger *)

\* A scan that found a file is right for good: nobody removes it.
FoundIsThere == \A s \in Scanner : mem[s].existed => baseline.state # "absent"

\* Most steps of a scan keep what it believes of the file.
LEMMA KeepsExisted ==
  ASSUME TypeOK, NEW s \in Scanner, ScanStep(s),
         ~StartScan(s), ~TakeLock(s), ~SkipLock(s), ~EndScan(s)
  PROVE  mem'[s].existed = mem[s].existed
<1> DEFINE m == mem[s]
           n == mem'[s]
<1>1. m \in Memory /\ mem \in [Proc -> Memory] /\ s \in Proc
  BY DEF Proc, TypeOK, ControlTypeOK
<1>2. CASE \/ TakeStamp(s) \/ Prune(s) \/ SavePruned(s) \/ ReadDeclined(s)
           \/ SaveFresh(s) \/ CheckHub(s) \/ EndBlocks(s)
  BY <1>2 DEF TakeStamp, Prune, SavePruned, ReadDeclined, SaveFresh, CheckHub, EndBlocks
<1>3. CASE LoadBaseline(s)
  <2>1. n = [m EXCEPT !.corrupt = m.existed /\ baseline.state # "readable",
                      !.store = IF m.existed THEN Loaded ELSE {}]
    BY <1>1, <1>3 DEF LoadBaseline, Remember
  <2> QED BY <1>1, <2>1 DEF Memory
<1>4. CASE ListDevices(s)
  <2>1. PICK L, T : n = [m EXCEPT !.listed = L, !.todo = T]
    BY <1>1, <1>4 DEF ListDevices, Remember
  <2> QED BY <1>1, <2>1 DEF Memory
<1>5. CASE MigrateLegacy(s)
  <2>1. n = m \/ \E S, c : n = [m EXCEPT !.store = S, !.changed = c]
    BY <1>1, <1>5 DEF MigrateLegacy, Remember
  <2> QED BY <1>1, <2>1 DEF Memory
<1>6. CASE SkipEnumerating(s)
  <2>1. PICK p : n = [m EXCEPT !.todo = @ \ {p}, !.pending = TRUE]
    BY <1>1, <1>6 DEF SkipEnumerating, Remember
  <2> QED BY <1>1, <2>1 DEF Memory
<1>7. CASE JudgeDevice(s)
  <2>1. PICK l, T : Remember(s, [m EXCEPT !.store = Learnt(m, l.fp),
                                          !.todo = @ \ {l.port}, !.targets = T])
    BY <1>7 DEF JudgeDevice
  <2> QED BY <1>1, <2>1 DEF Memory, Remember
<1>8. CASE FirstRunReady(s)
  <2>1. n = [m EXCEPT !.wantsSave = WantsSave(m)]
    BY <1>1, <1>8 DEF FirstRunReady, Remember
  <2> QED BY <1>1, <2>1 DEF Memory
<1>9. CASE BlockNext(s) \/ Deauthorize(s)
  <2>1. n = m \/ \E t : n = [m EXCEPT !.targets = @ \ {t}]
    BY <1>1, <1>9 DEF BlockNext, Deauthorize, Remember
  <2> QED BY <1>1, <2>1 DEF Memory
<1>10. CASE DeauthFails(s)
  <2>1. PICK t : n = [m EXCEPT !.targets = @ \ {t}, !.failed = TRUE]
    BY <1>1, <1>10 DEF DeauthFails, Remember
  <2> QED BY <1>1, <2>1 DEF Memory
<1> QED BY <1>2, <1>3, <1>4, <1>5, <1>6, <1>7, <1>8, <1>9, <1>10 DEF ScanStep

\* Only the look for the file makes a scan believe in one.
LEMMA WhoFinds ==
  ASSUME TypeOK, NEW s \in Scanner, ScanStep(s), mem'[s].existed, ~mem[s].existed
  PROVE  baseline.state # "absent"
<1> DEFINE m == mem[s]
           n == mem'[s]
<1>1. m \in Memory /\ mem \in [Proc -> Memory] /\ s \in Proc
  BY DEF Proc, TypeOK, ControlTypeOK
<1>2. CASE StartScan(s)
  <2>1. n = [m EXCEPT !.existed = baseline.state # "absent"]
    BY <1>1, <1>2 DEF StartScan, Remember
  <2> QED BY <1>1, <2>1 DEF Memory
<1>3. CASE SkipLock(s) \/ EndScan(s) \/ TakeLock(s)
  <2>1. n = NoMemory \/ n = BlockMemory(m)
    BY <1>1, <1>3 DEF SkipLock, EndScan, TakeLock, Forget, Remember
  <2>2. NoMemory.existed = FALSE /\ BlockMemory(m).existed = FALSE
    BY DEF NoMemory, BlockMemory
  <2> QED BY <2>1, <2>2
<1> QED BY <1>2, <1>3, KeepsExisted

\* What a scan does concerns where it is and what it has in memory, too.
LEMMA ScanMoves ==
  ASSUME NEW s \in Scanner, ScanStep(s)
  PROVE  /\ UNCHANGED pc \/ \E l \in ScanLabels : Goto(s, l)
         /\ UNCHANGED mem \/ \E m : Remember(s, m)
<1>1. UNCHANGED mem \/ \E m : Remember(s, m)
  BY DEF ScanStep, StartScan, TakeStamp, LoadBaseline, ListDevices, MigrateLegacy,
         SkipEnumerating, JudgeDevice, FirstRunReady, Prune, SavePruned, SkipLock,
         TakeLock, CheckHub,
         ReadDeclined, SaveFresh, BlockNext, Deauthorize, DeauthFails, EndBlocks,
         EndScan, Forget
<1>2. \E l \in ScanLabels : Goto(s, l) \/ UNCHANGED pc
  BY DEF ScanStep, StartScan, TakeStamp, LoadBaseline, ListDevices, MigrateLegacy,
         SkipEnumerating, JudgeDevice, FirstRunReady, Prune, SavePruned, SkipLock,
         TakeLock, CheckHub,
         ReadDeclined, SaveFresh, BlockNext, Deauthorize, DeauthFails, EndBlocks,
         EndScan, Loop, ScanLabels
<1> QED BY <1>1, <1>2

LEMMA FoundStep == TypeOK /\ FoundIsThere /\ [Next]_vars => FoundIsThere'
<1> SUFFICES ASSUME TypeOK, FoundIsThere, [Next]_vars, NEW s \in Scanner, mem'[s].existed
             PROVE  (baseline.state # "absent")'
  BY DEF FoundIsThere
<1>1. CASE UNCHANGED vars
  BY <1>1 DEF vars, files, FoundIsThere
<1>2. CASE Next
  <2>1. baseline' = baseline \/ baseline'.state = "readable"
    <3>1. ASSUME NEW x \in Scanner, SaveBaseline(mem[x].store)
          PROVE  baseline'.state = "readable"
      BY <3>1 DEF SaveBaseline, Saved
    <3>2. ASSUME NEW t \in Truster, SaveTrust(t)
          PROVE  baseline'.state = "readable"
      BY <3>2 DEF SaveTrust, SaveBaseline, Saved
    <3> QED BY <1>2, <3>1, <3>2, WhoSaves
  <2>2. mem[s].existed \/ baseline.state # "absent"
    <3>1. ASSUME NEW x \in Scanner, ScanStep(x)
          PROVE  mem[s].existed \/ baseline.state # "absent"
      <4>1. CASE x = s
        BY <3>1, <4>1, WhoFinds
      <4>2. CASE x # s
        <5>1. /\ UNCHANGED pc \/ \E l \in ScanLabels : Goto(x, l)
              /\ UNCHANGED mem \/ \E m : Remember(x, m)
          BY <3>1, ScanMoves
        <5> QED BY <4>2, <5>1, OthersStay DEF Proc
      <4> QED BY <4>1, <4>2
    <3>2. ASSUME NEW t \in Truster, StartTrust(t) \/ TrustStep(t)
          PROVE  mem[s].existed
      <4>1. UNCHANGED mem \/ \E m : Remember(t, m)
        BY <3>2, TrustMoves
      <4>2. \E l : Goto(t, l)
        BY <3>2, TrustMoves
      <4> QED BY <4>1, <4>2, OthersStay, ArmorAssumption DEF Proc
    <3>3. Environment => UNCHANGED mem
      BY DEF Environment, Plug, Unplug, Enumerate, ToggleArmor, Tick
    <3> QED BY <1>2, <3>1, <3>2, <3>3 DEF Next
  <2> QED BY <2>1, <2>2 DEF FoundIsThere
<1> QED BY <1>1, <1>2

-----------------------------------------------------------------------------
\* A store vouches for what it has as approved.
LEMMA ApprovedTrusted ==
  ASSUME NEW S \in SUBSET Fingerprint
  PROVE  /\ Approved(S) \in SUBSET Fingerprint
         /\ Approved(S) \subseteq {d \in Fingerprint : Vouched(Parsed(S), d)}
<1>1. \A e \in Approved(S) : Matches(e, e)
  BY DEF Approved, Matches, SameModel
<1> QED BY <1>1, ParsedKeeps DEF Vouched, Approved

\* A save writes a ledger.
LEMMA SaveWrites ==
  ASSUME NEW S \in SUBSET Fingerprint, SaveBaseline(S)
  PROVE  Ledger!Write
<1>1. baseline'.state = "readable" /\ baseline'.entries = S
  BY DEF SaveBaseline, Saved
<1>2. Founders' = {}
  BY DEF SaveBaseline, Founders
<1> QED BY <1>1, <1>2, ApprovedTrusted DEF Ledger!Write, TrustedOnDisk

\* What concerns one scan and not the file leaves the rest of the ledger as it is.
LEMMA LedgerScan ==
  ASSUME TypeOK, NEW s \in Scanner, NEW l, NEW m,
         Goto(s, l) \/ UNCHANGED pc, Remember(s, m) \/ UNCHANGED mem,
         \A y \in Scanner : y # s => stampOk'[y] = stampOk[y]
  PROVE  /\ UNCHANGED Approvers
         /\ \A y \in Scanner : y # s => /\ y \in Newcomers' <=> y \in Newcomers
                                        /\ y \in Founders' <=> y \in Founders
<1>1. \A y \in Proc : y # s => pc'[y] = pc[y] /\ mem'[y] = mem[y]
  BY OthersStay DEF Proc
<1>2. UNCHANGED Approvers
  BY <1>1, ArmorAssumption DEF Approvers, Proc
<1>3. ASSUME NEW y \in Scanner, y # s
      PROVE  /\ y \in Newcomers' <=> y \in Newcomers
             /\ y \in Founders' <=> y \in Founders
  BY <1>1, <1>3 DEF Newcomers, Founders, Proc
<1> QED BY <1>2, <1>3

\* The file is what the ledger has and vouches for.
LEMMA LedgerFile == UNCHANGED baseline => UNCHANGED Ledger!ledger
BY DEF Ledger!ledger, TrustedOnDisk

\* A scan that is no newcomer, and no founder any more, gives up.
LEMMA LedgerGivesUp ==
  ASSUME TypeOK, NEW s \in Scanner, NEW l, NEW m, UNCHANGED baseline,
         Goto(s, l), Remember(s, m) \/ UNCHANGED mem,
         \A y \in Scanner : y # s => stampOk'[y] = stampOk[y],
         pc[s] # "stamp", l \in {"readDeclined", "saveFresh", "block", "deauth", "write",
                                "report", "idle"}
  PROVE  Ledger!Next
<1>1. pc'[s] = l
  BY DEF Goto, TypeOK, ControlTypeOK, Proc
<1>2. s \notin Newcomers /\ s \notin Newcomers' /\ s \notin Founders'
  BY <1>1 DEF Newcomers, Founders
<1>3. Newcomers' = Newcomers /\ Founders' = Founders \ {s} /\ UNCHANGED Approvers
  BY <1>2, LedgerScan DEF Newcomers, Founders
<1>4. Ledger!GiveUp(s)
  BY <1>3, LedgerFile DEF Ledger!GiveUp
<1> QED BY <1>4 DEF Ledger!Next

\* A scan that goes on is the founder it was.
LEMMA LedgerGoesOn ==
  ASSUME TypeOK, NEW s \in Scanner, NEW l, NEW m,
         UNCHANGED <<baseline, stampOk>>,
         pc[s] \in {"load", "list", "migrate", "judge", "ready", "prune", "savePruned"},
         Goto(s, l),
         l \in {"list", "migrate", "judge", "ready", "prune", "savePruned", "lock"},
         Remember(s, m) \/ UNCHANGED mem, mem'[s].existed = mem[s].existed
  PROVE  UNCHANGED Ledger!ledgerVars
<1>1. pc'[s] = l
  BY DEF Goto, TypeOK, ControlTypeOK, Proc
<1>2. /\ s \notin Newcomers /\ s \notin Newcomers'
      /\ s \in Founders' <=> s \in Founders
  BY <1>1 DEF Newcomers, Founders
<1>3. UNCHANGED <<Newcomers, Founders, Approvers>>
  BY <1>2, LedgerScan DEF Newcomers, Founders
<1> QED BY <1>3, LedgerFile DEF Ledger!ledgerVars

\* A step of a scan is a step of the ledger, or none.
LEMMA LedgerScans ==
  ASSUME TypeOK, LockHeld, Faithful, Suspended, FoundIsThere,
         NEW s \in Scanner, ScanStep(s)
  PROVE  [Ledger!Next]_Ledger!ledgerVars
<1> DEFINE m == mem[s]
           n == mem'[s]
<1>0. /\ s \in Proc /\ m \in Memory /\ m.store \in SUBSET Fingerprint
      /\ pc \in [Proc -> ScanLabels \cup TrustLabels] /\ mem \in [Proc -> Memory]
      /\ stampOk \in [Scanner -> BOOLEAN]
  BY DEF Proc, TypeOK, ControlTypeOK, Memory
<1>1. CASE StartScan(s)
  <2>1. PICK k : Remember(s, k) /\ Goto(s, "stamp") /\ UNCHANGED <<baseline, stampOk>>
    BY <1>1 DEF StartScan, files
  <2>2. /\ pc[s] = "idle" /\ pc'[s] = "stamp"
        /\ n = [m EXCEPT !.existed = baseline.state # "absent"]
    BY <1>0, <1>1 DEF StartScan, Goto, Remember
  <2>3. n.existed <=> baseline.state # "absent"
    BY <1>0, <2>2 DEF Memory
  <2>4. s \notin Newcomers /\ s \notin Founders /\ s \notin Founders'
    BY <2>2 DEF Newcomers, Founders
  <2>5. s \in Newcomers' <=> baseline.state = "absent"
    BY <2>2, <2>3 DEF Newcomers
  <2>6. Founders' = Founders /\ UNCHANGED Approvers
    BY <2>1, <2>4, LedgerScan DEF Founders
  <2>7. CASE baseline.state = "absent"
    <3>1. Newcomers' = Newcomers \cup {s}
      BY <2>1, <2>5, <2>7, LedgerScan DEF Newcomers
    <3>2. Ledger!FindNone(s)
      BY <2>1, <2>6, <2>7, <3>1, LedgerFile DEF Ledger!FindNone
    <3> QED BY <3>2 DEF Ledger!Next
  <2>8. CASE baseline.state # "absent"
    <3>1. Newcomers' = Newcomers
      BY <2>1, <2>4, <2>5, <2>8, LedgerScan DEF Newcomers
    <3> QED BY <2>1, <2>6, <3>1, LedgerFile DEF Ledger!ledgerVars
  <2> QED BY <2>7, <2>8
<1>2. CASE TakeStamp(s)
  <2>1. /\ Goto(s, "load") /\ UNCHANGED <<baseline, mem>>
        /\ stampOk' = [stampOk EXCEPT ![s] = TRUE]
    BY <1>2 DEF TakeStamp, files
  <2>2. pc[s] = "stamp" /\ pc'[s] = "load" /\ stampOk'[s] = TRUE
    BY <1>0, <1>2, <2>1 DEF TakeStamp, Goto
  <2>3. \A y \in Scanner : y # s => stampOk'[y] = stampOk[y]
    BY <1>0, <2>1
  <2>4. /\ s \notin Newcomers' /\ s \notin Founders
        /\ s \in Newcomers <=> ~m.existed
        /\ s \in Founders' <=> ~m.existed
    BY <2>1, <2>2 DEF Newcomers, Founders
  <2>5. /\ UNCHANGED Approvers
        /\ \A y \in Scanner : y # s => /\ y \in Newcomers' <=> y \in Newcomers
                                       /\ y \in Founders' <=> y \in Founders
    BY <2>1, <2>3, LedgerScan
  <2>6. CASE m.existed
    <3>1. Newcomers' = Newcomers /\ Founders' = Founders
      BY <2>4, <2>5, <2>6 DEF Newcomers, Founders
    <3> QED BY <2>1, <2>5, <3>1, LedgerFile DEF Ledger!ledgerVars
  <2>7. CASE ~m.existed
    <3>1. Newcomers' = Newcomers \ {s} /\ Founders' = Founders \cup {s}
      BY <2>4, <2>5, <2>7 DEF Newcomers, Founders
    <3>2. Ledger!LookAgain(s)
      BY <2>1, <2>4, <2>5, <2>7, <3>1, LedgerFile DEF Ledger!LookAgain
    <3> QED BY <3>2 DEF Ledger!Next
  <2> QED BY <2>6, <2>7
<1>3. CASE TakeLock(s) /\ MaySave(s) /\ SaveBaseline(m.store)
  <2>1. /\ pc[s] = "lock" /\ Goto(s, pc'[s]) /\ pc'[s] \in {"readDeclined", "report"}
        /\ \E k : Remember(s, k)
        /\ stampOk[s] /\ m.wantsSave
    BY <1>0, <1>3 DEF TakeLock, MaySave, Goto, Forget
  <2>2. \A y \in Scanner : y # s => (y \in Newcomers' <=> y \in Newcomers)
    BY <1>0, <2>1, OthersStay DEF Newcomers, Proc
  <2>3. Newcomers' = Newcomers
    BY <2>1, <2>2 DEF Newcomers
  <2>4. UNCHANGED Approvers
    BY <1>0, <2>1, OthersStay, ArmorAssumption DEF Approvers, Proc
  <2>5. Ledger!Write /\ baseline'.entries = m.store
    BY <1>0, <1>3, SaveWrites DEF SaveBaseline, Saved
  <2>6. CASE ~m.existed
    <3>1. s \in Founders
      BY <2>1, <2>6 DEF Founders
    <3>2. Ledger!Found(s)
      BY <2>3, <2>4, <2>5, <3>1 DEF Ledger!Found
    <3> QED BY <3>2 DEF Ledger!Next
  <2>7. CASE m.existed
    <3>1. baseline.state = "readable"
      <4>1. baseline.state \in {"absent", "corrupt", "readable"}
        BY DEF TypeOK, SharedTypeOK, Baseline
      <4> QED BY <2>1, <2>7, <4>1 DEF FoundIsThere, Suspended, ScanSuspended
    <3>2. /\ Approved(baseline.entries) \subseteq m.store
          /\ \A d \in Fingerprint : Vouched(Parsed(m.store), d) => TrustedOnDisk(d)
      BY <2>1, <2>7 DEF Faithful, ScanFaithful, HasStore
    <3>3. Approved(baseline.entries) \subseteq Approved(baseline'.entries)
      BY <2>5, <3>2 DEF Approved
    <3>4. {d \in Fingerprint : TrustedOnDisk(d)}'
            \subseteq {d \in Fingerprint : TrustedOnDisk(d)}
      BY <2>5, <3>2 DEF TrustedOnDisk
    <3>5. Ledger!Copy
      BY <2>3, <2>4, <2>5, <3>1, <3>3, <3>4 DEF Ledger!Copy
    <3> QED BY <3>5 DEF Ledger!Next
  <2> QED BY <2>6, <2>7
<1>4. CASE TakeLock(s) /\ UNCHANGED <<baseline, stampOk, steady>>
  BY <1>0, <1>4, LedgerGivesUp DEF TakeLock, Forget
<1>5. CASE SkipLock(s) \/ EndScan(s)
  BY <1>0, <1>5, LedgerGivesUp DEF SkipLock, EndScan, Forget, scanVars, files
<1>6. CASE ReadDeclined(s) \/ SaveFresh(s) \/ BlockNext(s) \/ CheckHub(s) \/ EndBlocks(s)
  <2>1. CASE UNCHANGED pc
    <3>1. UNCHANGED <<baseline, stampOk>> /\ pc[s] = "block"
      BY <1>0, <1>6, <2>1
         DEF ReadDeclined, SaveFresh, BlockNext, CheckHub, EndBlocks, scanVars, files, Goto
    <3>2. Goto(s, "block")
      BY <1>0, <2>1, <3>1 DEF Goto
    <3> QED BY <1>6, <3>1, <3>2, LedgerGivesUp
            DEF ReadDeclined, SaveFresh, BlockNext, CheckHub, EndBlocks
  <2>2. CASE ~UNCHANGED pc
    BY <1>6, <2>2, LedgerGivesUp
       DEF ReadDeclined, SaveFresh, BlockNext, CheckHub, EndBlocks, scanVars, files
  <2> QED BY <2>1, <2>2
<1>7. CASE Deauthorize(s) \/ DeauthFails(s)
  BY <1>7, LedgerGivesUp DEF Deauthorize, DeauthFails, files
<1>8. CASE \/ LoadBaseline(s) \/ ListDevices(s) \/ MigrateLegacy(s) \/ SkipEnumerating(s)
           \/ JudgeDevice(s) \/ FirstRunReady(s) \/ Prune(s) \/ SavePruned(s)
  <2>1. /\ UNCHANGED <<baseline, stampOk>>
        /\ UNCHANGED mem \/ \E k : Remember(s, k)
    BY <1>8 DEF LoadBaseline, ListDevices, MigrateLegacy, SkipEnumerating, JudgeDevice,
                FirstRunReady, Prune, SavePruned, scanVars, files
  <2>2. PICK l \in {"list", "migrate", "judge", "ready", "prune", "savePruned", "lock"} :
          Goto(s, l)
    BY <1>8 DEF LoadBaseline, ListDevices, MigrateLegacy, SkipEnumerating, JudgeDevice,
                FirstRunReady, Prune, SavePruned, Loop
  <2>3. pc[s] \in {"load", "list", "migrate", "judge", "ready", "prune", "savePruned"}
    BY <1>8 DEF LoadBaseline, ListDevices, MigrateLegacy, SkipEnumerating, JudgeDevice,
                FirstRunReady, Prune, SavePruned
  <2>4. n.existed = m.existed
    <3>1. ~StartScan(s) /\ ~TakeLock(s) /\ ~SkipLock(s) /\ ~EndScan(s)
      BY <2>3 DEF StartScan, TakeLock, SkipLock, EndScan
    <3> QED BY <3>1, KeepsExisted
  <2> QED BY <2>1, <2>2, <2>3, <2>4, LedgerGoesOn
<1>9. TakeLock(s) => \/ MaySave(s) /\ SaveBaseline(m.store)
                     \/ UNCHANGED <<baseline, stampOk, steady>>
  BY DEF TakeLock
<1> QED BY <1>1, <1>2, <1>3, <1>4, <1>5, <1>6, <1>7, <1>8, <1>9 DEF ScanStep

LEMMA LedgerTrusts ==
  ASSUME TypeOK, Faithful, NEW t \in Truster, StartTrust(t) \/ TrustStep(t)
  PROVE  [Ledger!Next]_Ledger!ledgerVars
<1>0. /\ t \in Proc /\ t \notin Scanner /\ mem \in [Proc -> Memory]
      /\ mem[t].store \in SUBSET Fingerprint
  BY ArmorAssumption DEF Proc, TypeOK, ControlTypeOK, Memory
<1>1. PICK l \in TrustLabels : Goto(t, l)
  BY TrustMoves
<1>2. UNCHANGED mem \/ \E m : Remember(t, m)
  BY TrustMoves
<1>3. \A y \in Proc : y # t => pc'[y] = pc[y] /\ mem'[y] = mem[y]
  BY <1>0, <1>1, <1>2, OthersStay
<1>4. Newcomers' = Newcomers
  BY <1>0, <1>3 DEF Newcomers, Proc
<1>5. Approvers' = Approvers \cup {t} \/ Approvers' = Approvers \ {t}
  BY <1>3, ArmorAssumption DEF Approvers, Proc
<1>6. CASE SaveTrust(t)
  <2>1. /\ SaveBaseline(mem[t].store) /\ pc[t] = "save" /\ Goto(t, "clear")
        /\ baseline'.entries = mem[t].store
    BY <1>6 DEF SaveTrust, SaveBaseline, Saved
  <2>2. pc'[t] = "clear"
    BY <1>0, <2>1 DEF Goto, TypeOK, ControlTypeOK
  <2>3. t \in Approvers /\ t \notin Approvers'
    BY <2>1, <2>2 DEF Approvers, TrustLabels
  <2>4. Approved(baseline.entries) \subseteq Approved(baseline'.entries)
    BY <2>1 DEF Faithful, MergeFaithful, Approved
  <2>5. Ledger!Write
    BY <1>0, <2>1, SaveWrites
  <2>6. Ledger!Approve(t)
    BY <1>4, <1>5, <2>3, <2>4, <2>5 DEF Ledger!Approve
  <2> QED BY <2>6 DEF Ledger!Next
<1>7. CASE ~SaveTrust(t)
  <2>1. UNCHANGED <<baseline, stampOk>>
    BY <1>7 DEF StartTrust, TrustStep, LockForTrust, FindBlocked, ReauthorizeNext,
                ListForTrust, LoadForTrust, Observe, MergeNext, SaveTrustFails,
                ClearDeclined, files, scanVars
  <2>2. Founders' = Founders
    BY <1>0, <1>3, <2>1 DEF Founders, Proc
  <2>3. Ledger!Ask(t) \/ Ledger!Withdraw(t)
    BY <1>4, <1>5, <2>1, <2>2, LedgerFile DEF Ledger!Ask, Ledger!Withdraw
  <2> QED BY <2>3 DEF Ledger!Next
<1> QED BY <1>6, <1>7

(***************************************************************************)
(* The baseline file is a ledger, for any number of scans and trusts.      *)
(***************************************************************************)
THEOREM FileImplementsLedger == Spec => BaselineIsALedger
<1>1. Init => Ledger!Init
  <2> SUFFICES ASSUME Init PROVE Ledger!Init
    OBVIOUS
  <2>1. TypeOK
    BY TypeInit
  <2>2. /\ baseline.state \in {"absent", "corrupt", "readable"}
        /\ baseline.entries \in SUBSET Fingerprint
    BY <2>1 DEF TypeOK, SharedTypeOK, Baseline
  <2>3. Newcomers = {} /\ Founders = {} /\ Approvers = {}
    BY DEF Init, Newcomers, Founders, Approvers, Proc
  <2> QED BY <2>2, <2>3, ApprovedTrusted DEF Ledger!Init
<1>2. TypeOK /\ LockHeld /\ Faithful /\ Suspended /\ FoundIsThere /\ [Next]_vars =>
        [Ledger!Next]_Ledger!ledgerVars
  <2> SUFFICES ASSUME TypeOK, LockHeld, Faithful, Suspended, FoundIsThere, [Next]_vars
               PROVE  [Ledger!Next]_Ledger!ledgerVars
    OBVIOUS
  <2>1. CASE Environment \/ UNCHANGED vars
    <3>1. UNCHANGED <<baseline, pc, mem, stampOk>>
      BY <2>1 DEF Environment, Plug, Unplug, Enumerate, ToggleArmor, Tick, files, scanVars,
                  vars
    <3>2. UNCHANGED <<Newcomers, Founders, Approvers>>
      BY <3>1 DEF Newcomers, Founders, Approvers
    <3> QED BY <3>1, <3>2, LedgerFile DEF Ledger!ledgerVars
  <2> QED BY <2>1, LedgerScans, LedgerTrusts DEF Next
<1>3. Init => Suspended /\ FoundIsThere
  BY DEF Init, Suspended, ScanSuspended, HasStore, FoundIsThere, NoMemory, Proc
<1>4. Spec => [](TypeOK /\ LockHeld /\ Faithful /\ Suspended /\ FoundIsThere)
  <2>1. TypeOK /\ Suspended /\ FoundIsThere /\ [Next]_vars => Suspended' /\ FoundIsThere'
    BY SuspendedStep, FoundStep
  <2> QED BY <1>3, <2>1, TypeCorrect, LockKept, SaversFaithful, PTL DEF Spec
<1> QED BY <1>1, <1>2, <1>4, PTL DEF Spec, BaselineIsALedger, Ledger!Spec

(***************************************************************************)
(* Once there is a file, and no scan under way that found none and may     *)
(* still save, that is so for good, and no approved device is ever lost    *)
(* from it: only a race on the first run can break NothingOverwritten.     *)
(***************************************************************************)
THEOREM ClosedForGood == Spec => [](Ledger!Closed => []Ledger!Closed /\ NothingOverwritten)
<1>1. Ledger!Closed /\ [Ledger!Next]_Ledger!ledgerVars =>
        Ledger!Closed' /\ [Dropped = {}]_vars
  <2> SUFFICES ASSUME Ledger!Closed, [Ledger!Next]_Ledger!ledgerVars
               PROVE  Ledger!Closed' /\ Dropped = {}
    OBVIOUS
  <2>1. Approved(baseline.entries) \subseteq Approved(baseline'.entries) => Dropped = {}
    BY DEF Dropped, Approved
  <2>2. CASE UNCHANGED Ledger!ledgerVars
    BY <2>1, <2>2 DEF Ledger!Closed, Ledger!ledgerVars, Ledger!ledger
  <2>3. CASE Ledger!Next
    BY <2>1, <2>3 DEF Ledger!Closed, Ledger!Next, Ledger!FindNone, Ledger!LookAgain,
                      Ledger!GiveUp, Ledger!Found, Ledger!Copy, Ledger!Ask,
                      Ledger!Withdraw, Ledger!Approve, Ledger!Write, Ledger!ledger
  <2> QED BY <2>2, <2>3
<1> QED BY <1>1, FileImplementsLedger, PTL
        DEF BaselineIsALedger, Ledger!Spec, NothingOverwritten
=============================================================================
