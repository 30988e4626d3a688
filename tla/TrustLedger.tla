----------------------------- MODULE TrustLedger ----------------------------
(***************************************************************************)
(* What USB Armor promises of the baseline it keeps of trusted devices     *)
(* (src/src/engine/badusb.rs): a ledger of the devices the user approved,  *)
(* in which only "Trust Devices" enters a device, and which a scan may     *)
(* copy out anew, but never add to.  Only a scan that found no ledger may  *)
(* start one of its own; it must look once more first, and whatever is     *)
(* written after that look forbids it.                                     *)
(*                                                                         *)
(* Entries, legacy or not, what a file looks like, who holds which lock    *)
(* and what is connected are the implementation's.                         *)
(***************************************************************************)
CONSTANTS
  Scan, User,   \* scans, and runs of "Trust Devices"
  Thing         \* what may be approved or trusted

VARIABLES
  state,        \* "absent", "corrupt" or "readable"
  approved,     \* what the ledger has as it was approved
  trusted,      \* what the ledger vouches for
  newcomers,    \* scans that found no ledger and have not looked again yet
  founders,     \* scans that have, and may start one
  approvers     \* runs of "Trust Devices" that may still write

ledger == <<state, approved, trusted>>
ledgerVars == <<newcomers, founders, approvers, ledger>>

Init ==
  /\ state \in {"absent", "corrupt", "readable"}
  /\ approved \in SUBSET Thing /\ trusted \in SUBSET Thing
  /\ newcomers = {} /\ founders = {} /\ approvers = {}

\* Whoever writes, writes a whole ledger, and no founder may start another one.
Write ==
  /\ state' = "readable"
  /\ approved' \in SUBSET Thing /\ trusted' \in SUBSET Thing
  /\ approved' \subseteq trusted'
  /\ founders' = {}

FindNone(s) ==
  /\ state = "absent"
  /\ newcomers' = newcomers \cup {s}
  /\ UNCHANGED <<founders, approvers, ledger>>

LookAgain(s) ==
  /\ s \in newcomers
  /\ newcomers' = newcomers \ {s}
  /\ founders' = founders \cup {s}
  /\ UNCHANGED <<approvers, ledger>>

GiveUp(s) ==
  /\ founders' = founders \ {s}
  /\ UNCHANGED <<newcomers, approvers, ledger>>

Found(s) ==
  /\ s \in founders
  /\ Write
  /\ UNCHANGED <<newcomers, approvers>>

\* A scan copies the ledger out: it loses nothing approved and trusts nothing more.
Copy ==
  /\ state = "readable"
  /\ Write
  /\ approved \subseteq approved'
  /\ trusted' \subseteq trusted
  /\ UNCHANGED <<newcomers, approvers>>

Ask(t) ==
  /\ approvers' = approvers \cup {t}
  /\ UNCHANGED <<newcomers, founders, ledger>>

Withdraw(t) ==
  /\ approvers' = approvers \ {t}
  /\ UNCHANGED <<newcomers, founders, ledger>>

Approve(t) ==
  /\ t \in approvers
  /\ Write
  /\ approved \subseteq approved'
  /\ approvers' = approvers \ {t}
  /\ UNCHANGED newcomers

Next ==
  \/ \E s \in Scan : FindNone(s) \/ LookAgain(s) \/ GiveUp(s) \/ Found(s)
  \/ Copy
  \/ \E t \in User : Ask(t) \/ Withdraw(t) \/ Approve(t)

Spec == Init /\ [][Next]_ledgerVars

\* There is a ledger, and nobody left who may start another one.
Closed == state # "absent" /\ newcomers = {} /\ founders = {}
=============================================================================
