---------------------------- MODULE NetworkGuard ----------------------------
(***************************************************************************)
(* The blackout, the quarantine and the severing of connections: the       *)
(* network half of src/src/kernel/intervention.rs.                         *)
(*                                                                         *)
(* The ruleset and the connections are the kernel's, and only root changes *)
(* them; whoever is not root knows of a blackout by a marker file alone,   *)
(* written by the command once its helper has reported success.            *)
(***************************************************************************)
EXTENDS Escalation

CONSTANTS
  MaxConn,     \* bound: connections ever opened
  Torn         \* the marker between truncation and write

ASSUME NetworkAssumption == MaxConn \in Nat /\ None \notin Nat /\ Torn \notin Nat \cup {None}

VARIABLES
  table,       \* the table sentinel_blackout is in the ruleset
  quarantined, \* the addresses in the sets of sentinel_quarantine
  conns,       \* open connections to the target of a sever
  opened,      \* connections opened so far
  marker,      \* None, Torn, or the boot id in network_blackout.active
  boot,        \* /proc/sys/kernel/random/boot_id
  engaged,     \* a blackout was engaged since boot (history)
  flushed,     \* root has emptied the ruleset since boot (history)
  astray       \* the last write or removal of the marker failed (history)

netVars == <<table, quarantined, conns, opened, marker, boot, engaged, flushed, astray>>

NetInit ==
  /\ table = FALSE /\ quarantined = {}
  /\ conns = 1..setting.conns /\ opened = setting.conns
  /\ marker = None /\ boot = 1
  /\ engaged = FALSE /\ flushed = FALSE /\ astray = FALSE

\* Mutant: any marker will do.
ShownByAnyMarker == marker \notin {None, Torn}

\* blackout_marker_matches_boot, which decides what an unprivileged report shows.
Shown == marker = boot

-----------------------------------------------------------------------------
(***************************************************************************)
(* Blackout and quarantine: one nft transaction each.                      *)
(***************************************************************************)

\* Deleting a table that is not there fails; declaring one again does not.
Nft(op, arg) ==
  \/ /\ op = "apply"
     /\ table' = TRUE /\ engaged' = TRUE
     /\ UNCHANGED quarantined
  \/ /\ op = "clear" /\ table
     /\ table' = FALSE
     /\ UNCHANGED <<quarantined, engaged>>
  \/ /\ op = "quarantine"
     /\ quarantined' = quarantined \cup {arg}
     /\ UNCHANGED <<table, engaged>>

NftAsUser(c) ==
  /\ At(c, "user", "nft")
  /\ Escalates(c, "user")
  /\ UNCHANGED <<setting, acted, smooth, netVars>>

NftAsRoot(c) ==
  /\ At(c, "root", "nft")
  /\ Nft(run[c].root.op, run[c].root.arg)
  /\ Ends(c, "root", "ok")
  /\ acted' = [acted EXCEPT ![c] = TRUE]
  /\ UNCHANGED <<setting, smooth, conns, opened, marker, boot, flushed, astray>>

\* The table to delete is missing, or nft is, or it runs into its deadline.
NftFails(c) ==
  /\ At(c, "root", "nft")
  /\ setting.faults \/ (run[c].root.op = "clear" /\ ~table)
  /\ Escalates(c, "root")
  /\ UNCHANGED <<setting, acted, smooth, netVars>>

\* What record_blackout_marker and clear_blackout_marker cannot do, for want of
\* the directory, the boot id or the disk, they leave and do not tell.
Leaves(c) ==
  /\ setting.faults
  /\ Goes(c, "user", "done")
  /\ astray' = TRUE
  /\ UNCHANGED marker

\* record_blackout_marker: write_private_file truncates, then writes.
Mark(c) ==
  /\ At(c, "user", "mark")
  /\ \/ /\ marker' = Torn
        /\ Goes(c, "user", "write")
        /\ UNCHANGED astray
     \/ Leaves(c)
  /\ UNCHANGED <<setting, acted, smooth, table, quarantined, conns, opened, boot, engaged, flushed>>

WriteMarker(c) ==
  /\ At(c, "user", "write")
  /\ \/ /\ marker' = boot /\ astray' = FALSE
        /\ Goes(c, "user", "done")
     \/ Leaves(c)
  /\ UNCHANGED <<setting, acted, smooth, table, quarantined, conns, opened, boot, engaged, flushed>>

\* clear_blackout_marker
Unmark(c) ==
  /\ At(c, "user", "unmark")
  /\ \/ /\ marker' = None /\ astray' = FALSE
        /\ Goes(c, "user", "done")
     \/ Leaves(c)
  /\ UNCHANGED <<setting, acted, smooth, table, quarantined, conns, opened, boot, engaged, flushed>>

-----------------------------------------------------------------------------
(***************************************************************************)
(* kernel_sever_socket: count, kill, count again.  A count may fail.       *)
(***************************************************************************)
Count(c, l) ==
  /\ At(c, l, "count")
  /\ \/ /\ conns # {}
        /\ run' = [run EXCEPT ![c][l].at = "kill", ![c][l].counted = conns]
     \/ /\ setting.faults \/ conns = {}
        /\ Ends(c, l, "failed")
  /\ UNCHANGED <<setting, acted, smooth, netVars>>

\* Mutant: a helper that has run ss -K has severed.
KillIsEnough(c, l) ==
  /\ At(c, l, "kill")
  /\ conns' \in IF l = "root" THEN SUBSET conns ELSE {conns}
  /\ IF l = "root" THEN Ends(c, l, "ok") ELSE Goes(c, l, "recount")
  /\ UNCHANGED <<setting, acted, smooth, table, quarantined, opened, marker, boot, engaged, flushed,
                 astray>>

\* ss -K exits 0 whether or not it may destroy sockets, and whether or not the
\* kernel can; a deadline may stop it half-way.  As the legacy tool, run as
\* root by pkexec, it is all that pkexec runs.
Kill(c, l) ==
  /\ At(c, l, "kill")
  /\ conns' \in IF l = "root" THEN SUBSET conns ELSE {conns}
  /\ IF l = "root" /\ setting.route = "legacy"
     THEN \/ Ends(c, l, "ok")
          \/ setting.faults /\ Ends(c, l, "failed")
     ELSE Goes(c, l, "recount")
  /\ UNCHANGED <<setting, acted, smooth, table, quarantined, opened, marker, boot, engaged, flushed,
                 astray>>

\* What the code takes for the number left: a count that fails is no zero.
NoneRemain(counts) == counts /\ conns = {}

Recount(c, l) ==
  /\ At(c, l, "recount")
  /\ \E counts \in (IF setting.faults THEN BOOLEAN ELSE {TRUE}) :
       IF NoneRemain(counts) THEN Ends(c, l, "ok")
       ELSE IF run[c][l].tries = 1 THEN Ends(c, l, "failed")
       ELSE Escalates(c, l)
  /\ UNCHANGED <<setting, acted, smooth, netVars>>

-----------------------------------------------------------------------------
(***************************************************************************)
(* Around the commands.                                                    *)
(***************************************************************************)
OpenConn ==
  /\ opened < MaxConn /\ setting.conns > 0
  /\ opened' = opened + 1
  /\ conns' = conns \cup {opened + 1}
  /\ UNCHANGED <<escVars, table, quarantined, marker, boot, engaged, flushed, astray>>

CloseConn(k) ==
  /\ k \in conns
  /\ conns' = conns \ {k}
  /\ UNCHANGED <<escVars, table, quarantined, opened, marker, boot, engaged, flushed, astray>>

\* nft flush ruleset: a firewall reload, or root's own --resume-network.
Flush ==
  /\ setting.flush /\ ~flushed
  /\ table' = FALSE /\ quarantined' = {} /\ flushed' = TRUE
  /\ UNCHANGED <<escVars, conns, opened, marker, boot, engaged, astray>>

\* The ruleset does not survive a boot, the marker does.
Reboot ==
  /\ boot < setting.boots
  /\ boot' = boot + 1
  /\ table' = FALSE /\ quarantined' = {} /\ conns' = {}
  /\ engaged' = FALSE /\ flushed' = FALSE /\ astray' = FALSE
  /\ run' = [c \in Caller |-> [user |-> Idle, root |-> Idle]]
  /\ acted' = [c \in Caller |-> FALSE]
  /\ smooth' = TRUE
  /\ UNCHANGED <<setting, opened, marker>>

NetNext ==
  \/ \E c \in Caller :
       \/ NftAsUser(c) \/ NftAsRoot(c) \/ NftFails(c)
       \/ Mark(c) \/ WriteMarker(c) \/ Unmark(c)
       \/ \E l \in Level : Count(c, l) \/ Kill(c, l) \/ Recount(c, l)
  \/ OpenConn \/ (\E k \in conns : CloseConn(k)) \/ Flush
=============================================================================
