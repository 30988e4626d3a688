----------------------------- MODULE TrustVector ----------------------------
(***************************************************************************)
(* The baseline as src/src/usb.rs keeps it, a vector changed by loops over *)
(* its entries and over the connected devices, next to the set of          *)
(* fingerprints of TrustStore, which the model of USB Armor uses.  Every   *)
(* operation is applied to both; SetVouches and SameVerdicts say how far a *)
(* device can tell them apart.                                             *)
(*                                                                         *)
(* The state is what the file holds.  Each operation of the program reads  *)
(* it again, an empty interface set as an unknown one: the migration of a  *)
(* scan, and the merge of "Trust Devices".  (A first scan trusts each      *)
(* device in turn, as a merge into an empty baseline does.)                *)
(***************************************************************************)
EXTENDS TrustStore, SequencesExt

CONSTANTS
  Listed,        \* what a listing may show: bare, in part, or complete
  FileEntry,     \* the entries a file of an older release may hold
  MaxFileLen,    \* bound: entries in that file
  MaxConnected   \* bound: devices connected at once

ASSUME VectorAssumption ==
  /\ Listed \subseteq Fingerprint
  /\ FileEntry \subseteq Fingerprint
  /\ MaxFileLen \in Nat
  /\ MaxConnected \in Nat

VARIABLES
  vec,    \* the file: TrustStore::devices as it was saved
  store,  \* the same baseline as a set
  twins   \* a file with twins (see there) has been read

vars == <<vec, store, twins>>

-----------------------------------------------------------------------------
(* upgrade_legacy, loop by loop. *)

\* Some connected device with known interfaces is vouched for by entry e.
Seen(e, devs) == \E d \in Range(devs) : ~IsLegacy(d) /\ Matches(e, d)

\* Mutant: the legacy entry itself, and any other, counts as covering.
CoveredByAny(v, upgraded, d) == Vouched(Range(v) \cup Range(upgraded), d)

\* A full entry of the vector, or one added for the same legacy entry, covers d.
Covered(v, upgraded, d) == Vouched(FullEntries(Range(v) \cup Range(upgraded)), d)

\* The fingerprints that replace legacy entry e, in the order of devs.
Replacements(v, e, devs) ==
  FoldLeft(LAMBDA upgraded, d :
             IF IsLegacy(d) \/ ~Matches(e, d) \/ Covered(v, upgraded, d)
               THEN upgraded
               ELSE Append(upgraded, d),
           <<>>, devs)

\* The vector without entry e.  (Remove of SequencesExt is made of SelectSeq, of which
\* the prover knows nothing.)
Without(v, e) ==
  FoldLeft(LAMBDA w, x : IF x = e THEN w ELSE Append(w, x), <<>>, v)

\* Mutant: an entry whose devices are covered already is left in place.
VecUpgradeKeepsCovered(v, devs) ==
  FoldLeft(LAMBDA w, e : IF IsLegacy(e) /\ Replacements(w, e, devs) # <<>>
                           THEN Without(w, e) \o Replacements(w, e, devs)
                           ELSE w,
           v, v)

\* The loop goes through the entries of v: what replaces them goes to the end and is
\* not legacy.  A second entry like e would go at its own turn, replaced by nothing.
VecUpgrade(v, devs) ==
  FoldLeft(LAMBDA w, e : IF IsLegacy(e) /\ Seen(e, devs)
                           THEN Without(w, e) \o Replacements(w, e, devs)
                           ELSE w,
           v, v)

VecUpgradeChanges(v, devs) == \E e \in Range(v) : IsLegacy(e) /\ Seen(e, devs)

\* Mutant: a legacy entry that vouches for the device already is kept.
VecTrustNoUpgrade(v, d) == IF Vouched(Range(v), d) THEN v ELSE Append(v, d)

VecTrust(v, d) ==
  IF VecUpgradeChanges(v, <<d>>) THEN VecUpgrade(v, <<d>>)
  ELSE IF Vouched(Range(v), d) THEN v
  ELSE Append(v, d)

\* Mutant: an empty interface set is taken for what the device has.
VecParsedVerbatim(raw) == raw

VecParsed(raw) ==
  [i \in DOMAIN raw |-> IF raw[i].ifs = {} THEN [raw[i] EXCEPT !.ifs = NoIfs]
                                           ELSE raw[i]]

-----------------------------------------------------------------------------
(***************************************************************************)
(* merge_into_baseline.  The fingerprint of an observation was read when   *)
(* the devices were listed; whether the device is blocked and whether it   *)
(* is enumerating is asked later, when it may have its first interfaces,   *)
(* all of them, or none any more: each combination is possible.            *)
(***************************************************************************)
Observation == [fp : Listed, blocked : BOOLEAN, enumerating : BOOLEAN]

Settled(obs) == {o.fp : o \in {x \in Range(obs) : ~x.enumerating}}
SettledSeq(obs) ==
  FoldLeft(LAMBDA settled, o : IF o.enumerating THEN settled ELSE Append(settled, o.fp),
           <<>>, obs)

\* Only a device that is enumerating, and not blocked, is skipped.
Merged(o) == o.blocked \/ ~o.enumerating

VecMerge(v, obs) ==
  FoldLeft(LAMBDA w, o : IF Merged(o) THEN VecTrust(w, o.fp) ELSE w,
           VecUpgrade(v, SettledSeq(obs)), obs)

SetMerge(S, obs) ==
  FoldLeft(LAMBDA T, o : IF Merged(o) THEN Trust(T, o.fp) ELSE T,
           Upgrade(S, Settled(obs)), obs)

-----------------------------------------------------------------------------
(***************************************************************************)
(* An entry saved with an empty interface set, beside another one that it  *)
(* covers: of units listed when they had no interface yet, one without a   *)
(* serial and one with.  The vector keeps the second if it comes first,    *)
(* the set always; both read it back as an entry that vouches for more.    *)
(***************************************************************************)
Twins(S) ==
  \E e, f \in S : e # f /\ e.ifs = {} /\ f.ifs = {} /\ Matches(e, f)

Init ==
  /\ vec \in SeqOf(FileEntry, MaxFileLen)
  /\ store = Range(vec)
  /\ twins = FALSE

\* A scan migrates the legacy entries from every device that it takes for settled.
Scan(devs) ==
  /\ vec' = VecUpgrade(VecParsed(vec), devs)
  /\ store' = Upgrade(Parsed(store), Range(devs))
  /\ twins' = (twins \/ Twins(store))

TrustDevices(obs) ==
  /\ vec' = VecMerge(VecParsed(vec), obs)
  /\ store' = SetMerge(Parsed(store), obs)
  /\ twins' = (twins \/ Twins(store))

Next ==
  \/ \E devs \in SeqOf(Listed, MaxConnected) : Scan(devs)
  \/ \E obs \in SeqOf(Observation, MaxConnected) : TrustDevices(obs)

Spec == Init /\ [][Next]_vars

-----------------------------------------------------------------------------
TypeOK ==
  /\ vec \in Seq(Fingerprint)
  /\ store \in SUBSET Fingerprint
  /\ twins \in BOOLEAN

(***************************************************************************)
(* Whatever fingerprints are listed, saved and read back: a device that    *)
(* the vector vouches for the set vouches for too, and one without a       *)
(* serial it vouches for only if the vector does.                          *)
(***************************************************************************)
SetVouches ==
  \A fp \in Fingerprint :
    /\ Vouched(Range(vec), fp) => Vouched(store, fp)
    /\ Vouched(store, fp) /\ fp.serial = NoSerial => Vouched(Range(vec), fp)

(***************************************************************************)
(* As long as no file with twins has been read, the vector and the set     *)
(* give every device, in every state of enumeration, the same verdict: the *)
(* order of the entries and the entries another one already covers do not  *)
(* matter to TrustStore::verdict.                                          *)
(***************************************************************************)
SameVerdicts ==
  ~twins =>
    \A fp \in Fingerprint : Verdict(Range(vec), fp) = Verdict(store, fp)

(***************************************************************************)
(* "The migration never widens trust beyond what was connected": after a   *)
(* scan no device is trusted that was not before, and the devices listed   *)
(* with interfaces that were trusted still are, identical units included.  *)
(***************************************************************************)
MigrationIsExact ==
  \A devs \in SeqOf(Listed, MaxConnected) :
    LET loaded == VecParsed(vec)
        after == Range(VecUpgrade(loaded, devs)) IN
      /\ \A fp \in Fingerprint : Vouched(after, fp) => Vouched(Range(loaded), fp)
      /\ \A d \in FullEntries(Range(devs)) :
           Vouched(Range(loaded), d) => Vouched(after, d)

Trusted(obs) == {o.fp : o \in {x \in Range(obs) : Merged(x)}}

(***************************************************************************)
(* "Trust Devices" leaves every device that it did not skip, and that was  *)
(* listed with interfaces, trusted by an entry that has these; and the     *)
(* only legacy entries left that would vouch for a clone of it are of      *)
(* devices listed without a configuration in that pass: blocked, or        *)
(* configured between the listing and the question whether they have       *)
(* settled (badusb.rs:524 and 534).                                        *)
(***************************************************************************)
MergedAreTrusted ==
  \A obs \in SeqOf(Observation, MaxConnected) :
    LET after == Range(VecMerge(VecParsed(vec), obs)) IN
      \A d \in FullEntries(Trusted(obs)) :
        /\ Vouched(FullEntries(after), d)
        /\ \A e \in after : IsLegacy(e) /\ Matches(e, d) => e \in Trusted(obs)

(***************************************************************************)
(* "A device still blocked is trusted with its interfaces unknown; the     *)
(* entry is completed the next time it is seen authorized": after "Trust   *)
(* Devices" every device it did not skip is vouched for.                   *)
(***************************************************************************)
BlockedAreTrusted ==
  \A obs \in SeqOf(Observation, MaxConnected) :
    LET after == Range(VecMerge(VecParsed(vec), obs)) IN
      \A d \in Trusted(obs) : Vouched(after, d)

=============================================================================
