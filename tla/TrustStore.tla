----------------------------- MODULE TrustStore -----------------------------
(***************************************************************************)
(* USB fingerprints and the baseline of trusted ones: src/src/usb.rs.      *)
(*                                                                         *)
(* A fingerprint is what sysfs tells about a device: its model (VID:PID),  *)
(* its serial if it reports one, and the set of interface triplets of its  *)
(* active configuration, unknown while there is none.  The product string  *)
(* is never used for matching and is left out.                             *)
(*                                                                         *)
(* The store is a SET of fingerprints.  usb.rs keeps a vector; TrustVector *)
(* models the vector and its loops step for step, and says in which one    *)
(* case a device can tell them apart.                                      *)
(***************************************************************************)
EXTENDS FiniteSets

CONSTANTS
  Model,         \* VID:PID pairs, equal up to ASCII case
  Serial,        \* serial numbers
  Interface,     \* class:subclass:protocol triplets
  HidInterface,  \* the triplets of class 03
  HubInterface,  \* the triplets of class 09
  NoSerial,      \* `None`: the device (or the entry) has no serial
  NoIfs          \* `None`: the interface set is unknown

ASSUME FingerprintAssumption ==
  /\ HidInterface \subseteq Interface
  /\ HubInterface \subseteq Interface
  /\ HidInterface \cap HubInterface = {}
  /\ NoSerial \notin Serial
  /\ \A ifs \in SUBSET Interface : ifs # NoIfs

Fingerprint == [model  : Model,
                serial : Serial \cup {NoSerial},
                ifs    : {NoIfs} \cup SUBSET Interface]

IsLegacy(fp) == fp.ifs = NoIfs

\* The interfaces a fingerprint is known to have.
KnownIfs(fp) == IF IsLegacy(fp) THEN {} ELSE fp.ifs

IsHid(fp) == KnownIfs(fp) \cap HidInterface # {}

\* Only hub interfaces, and at least one.
IsHub(fp) == KnownIfs(fp) # {} /\ KnownIfs(fp) \subseteq HubInterface

SameModel(e, d) == e.model = d.model

\* Entry e vouches for device d: what e does not know is not required to match.
Matches(e, d) ==
  /\ SameModel(e, d)
  /\ e.serial # NoSerial => d.serial = e.serial
  /\ ~IsLegacy(e) => d.ifs = e.ifs

Vouched(S, d) == \E e \in S : Matches(e, d)

Verdict(S, d) ==
  CASE Vouched(S, d)                    -> "Trusted"
    [] ~\E e \in S : SameModel(e, d)    -> "Unknown"
    [] OTHER ->
         IF IsHid(d) /\ \A e \in S : SameModel(e, d) => ~IsHid(e)
           THEN "MismatchGainedHid"
           ELSE "Mismatch"

-----------------------------------------------------------------------------
(***************************************************************************)
(* Parsing a version 2 file.  Older releases recorded blocked devices with *)
(* an empty interface set, which no configured device has: such entries    *)
(* are read as unknown and learnt again.                                   *)
(***************************************************************************)
Parsed(S) ==
  {IF e.ifs = {} THEN [e EXCEPT !.ifs = NoIfs] ELSE e : e \in S}

(***************************************************************************)
(* upgrade_legacy: every legacy entry that vouches for a connected device  *)
(* with known interfaces gives way to the full fingerprints of those       *)
(* devices, unless a full entry of the store covers them already.          *)
(***************************************************************************)
FullEntries(S) == {e \in S : ~IsLegacy(e)}

Upgradable(S, D) ==
  {e \in S : IsLegacy(e) /\ \E d \in FullEntries(D) : Matches(e, d)}

\* Mutant: of several identical units only one keeps its trust.
UpgradeFirstOnly(S, D) ==
  (S \ Upgradable(S, D)) \cup
  {CHOOSE d \in FullEntries(D) : Matches(e, d) : e \in Upgradable(S, D)}

Upgrade(S, D) ==
  (S \ Upgradable(S, D)) \cup
  {d \in FullEntries(D) : /\ Vouched(Upgradable(S, D), d)
                          /\ ~Vouched(FullEntries(S), d)}

\* The Boolean upgrade_legacy returns.
UpgradeChanges(S, D) == Upgradable(S, D) # {}

(***************************************************************************)
(* trust: upgrade the legacy entries covering d; failing that, add d when  *)
(* no entry vouches for it.                                                *)
(***************************************************************************)
Trust(S, d) ==
  IF UpgradeChanges(S, {d}) THEN Upgrade(S, {d})
  ELSE IF Vouched(S, d) THEN S
  ELSE S \cup {d}

=============================================================================
