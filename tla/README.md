# A verification project for Omarchy Security Sentinel

TLA+ models of the program's logic, model-checked with TLC, with theorems
checked by TLAPS. The program is a Rust binary (daemon, one-shot commands and a
`--json` report), a QML panel and a dashboard that call it. What makes it hard is
that all of them run at once, as separate processes, around the same few files
in the state and run-time directories, and around kernel state (sysfs, nftables,
process ids) that the user and the hardware change at any time.

Paths below are relative to the repository (`src/src/engine/badusb.rs` is the
file `src/engine/badusb.rs` of the crate).

## 1. Inventory

### The parts, their state and their operations

| Part | Source | State | Operations | What makes it correct | Module |
|---|---|---|---|---|---|
| USB trust store | `usb.rs` | a vector of fingerprints (model, serial, interfaces) | `parse`, `to_json`, `verdict`, `upgrade_legacy`, `trust` | migration trusts exactly what was trusted; trusting a device makes it trusted; the order of entries is irrelevant | `TrustStore`, `TrustVector` |
| BadUSB scan and USB Armor | `engine/badusb.rs` | `trusted_usb.json`, `usb_deauth_declined`, `usb_armor.enabled`, `usb_armor.lock`; the devices in sysfs | `scan_badusb`, `trust_all_usb`, `toggle_usb_armor` | trusted devices and hubs are never cut off; untrusted ones are in the end; approved devices are never lost; no scan adds trust; one dialog per device and window | `UsbArmor` |
| Way to root | `kernel/intervention.rs` | a command and its helper | ask for a password, act, return; time out, die | a failure has done nothing; what is reported done was done | `Escalation` |
| Process signalling | `kernel/intervention.rs` | `/proc`, a pidfd, start times | freeze, resume, terminate, file evidence | a signal hits the process the user saw, and no immune one | `ProcessSignal` |
| Network guard | `kernel/intervention.rs` | nftables tables, the blackout's marker, connections | blackout, resume, quarantine, sever | what is shown is what is there; a severed connection is gone | `NetworkGuard` |
| Bounded subprocesses | `subproc.rs` | child, its process group, a pipe | run with deadline and output limit | an answer is whole; nobody outlives a refusal; every call ends | `Subproc` |
| State files | `engine/state.rs` | files in the state directory | read, write through a temporary file and rename | a reader finds one whole write, whatever crashes | `StateFile`, `AtomicFile` |
| Tripwire | `engine/tripwire.rs` | token, hash, marker, decoy | arm, check, reset | an alarm is neither lost nor raised by arming | `Tripwire` |
| Daemon | `engine/daemon.rs`, `uevent.rs` | deadlines, burst, recheck count, socket, worker | debounce uevents, scan, publish reports | a burst cannot postpone a scan for ever; a lost event delays, never prevents, a scan | `Daemon` |
| Panel and dashboard | `Panel.qml`, `qml/MainWindow.qml`, `main.rs`, `dns.rs` | last report, switches in flight, queued scan; the cache | timers, clicks, process exits, `--json` | a stale report never undoes a click for good; no request is forgotten; there is a daemon | `Panel` |
| CVE radar | `engine/cve_radar.rs`, `cve.rs` | two caches with time stamps | scan, cache | no answer outlives its inputs | none |
| Report | `engine/report.rs`, `types.rs` | none | threat level, JSON | the level follows the modules' states | none |
| Heuristics, scrubber | `ai/behavior_analyzer.rs`, `engine/opsec.rs` | none; the file scrubbed | score a process; strip metadata | bounded scores; the picture survives | none |
| Radars (network, authentication), Ghost MAC, self-defence | `engine/network.rs`, `net.rs`, `auth.rs`, `ghost_mac.rs`, `kernel/self_defense.rs` | none of their own | read system state, call tools | Ghost MAC's rollback | none |

### How they interact

* The **daemon** scans on a timer and on uevents; the **panel** and the
  **dashboard** run `--json` and one-shot commands, each a process of its own.
  Every one of them runs `scan_badusb`; `trust_all_usb` runs in a command of the
  panel or the dashboard.
* A **command** that may not act itself starts `pkexec`, which runs the same
  operation as root; the two are processes of their own, and the command is run by
  the same bounded-subprocess code as every other tool.
* They share **files** (replaced by rename, never locked for reading), one
  **advisory lock** (`flock` on `usb_armor.lock`), and the **kernel's** state.
* Privileged writes go through `pkexec` and this same binary as helper; a dialog
  may wait up to 120 s and be refused, cancelled or time out.
* Devices announce themselves through netlink uevents, which may be lost, and
  take time to enumerate: the kernel shows a device first without a
  configuration, then adds its interfaces one by one.

### What is hard

Steps of two processes in an order nobody tests; a scan that judged by a file
that has been replaced since; a device that changes state, or is another one,
between being read and being acted upon; files that cannot be read or saved;
retries and their window; devices that must be blocked in the end. The full
list, each at its line and with the properties that watch it, is `hazards` in
`PROJECT.json`. Around the kernel: a PID that changes hands while a password
dialog is open; a helper that outlives the command that asked for it; a ruleset
others change; a child process that forks, writes and dies as it likes.

## 2. The modules

| Module | Models | Extends |
|---|---|---|
| `TrustStore` | `usb.rs`: fingerprints, `matches`, `verdict`, `parse`, `upgrade_legacy`, `trust`, over a **set** of entries | |
| `TrustVector` | the same operations over the **vector**, loop by loop, and `merge_into_baseline`, side by side with the set | `TrustStore` |
| `TrustLedger` | what `engine/badusb.rs` promises of the baseline: the abstract specification | |
| `UsbArmor` | `engine/badusb.rs`: scans, Trust Devices, the lock, the files, the devices, the clock | `TrustStore` |
| `Escalation` | `intervention.rs`: a command, its prompt and its helper, whatever the operation | |
| `ProcessSignal` | `intervention.rs`: the signals, and the process table they act on | `Escalation` |
| `NetworkGuard` | `intervention.rs`: blackout, quarantine, sever, and the ruleset | `Escalation` |
| `CommandContract` | what a command of `intervention.rs` promises whoever ran it: the abstract specification | |
| `Intervention` | the composition of the two halves of `intervention.rs`; the properties, the refinement | `ProcessSignal`, `NetworkGuard` |
| `Subproc` | `subproc.rs` | |
| `AtomicFile` | what `state.rs` promises of a file: the abstract specification | |
| `StateFile` | `state.rs`: the write through a temporary file | |
| `Tripwire` | `engine/tripwire.rs` over the state files | `StateFile` |
| `Daemon` | `engine/daemon.rs`, `uevent.rs` | |
| `Panel` | the clients, `--json`, the cache and the DNS switch, with the daemon | `Daemon` |
| `TrustVectorProofs` | theorems about `TrustVector`: how far it agrees with `TrustStore`, and what migration and merge do, for vectors of any length | `TrustVector`, `WellFoundedInduction`, `SequenceTheorems`, `TLAPS` |
| `UsbArmorProofs`, `UsbTrustProofs` | theorems about `UsbArmor`: its type, the lock and the failures; the baseline, with `TrustStore` and `TrustLedger` | `UsbArmor`, `TLAPS` |
| `InterventionProofs`, `OutcomeProofs` | theorems about `Intervention`: its type; then the network, the signals and, with `CommandContract`, the outcomes | `Intervention`, `TLAPS` |
| `SubprocProofs`, `TripwireProofs` | theorems about `Subproc`, and about `Tripwire` with `StateFile` and `AtomicFile` | |
| `PanelProofs` | theorems about `Panel` with `Daemon` | `Panel`, `TLAPS` |
| `MCTrustVector`, `MCUsbArmor`, `MCIntervention`, `MCTripwire`, `MCPanel` | constants for TLC | the module each checks |

### TrustStore and TrustVector

A fingerprint is a record of a model (`vid:pid` up to case), a serial or
`NoSerial` (`None`), and a set of interface triplets or `NoIfs` (`None`). The
product string takes no part in matching and is left out. Of a triplet only the
class matters: HID, hub or another.

`TrustStore` takes the baseline for a set, which makes `upgrade_legacy` two set
expressions: legacy entries that vouch for a connected device leave, and the full
fingerprints of those devices, unless covered already, enter. `TrustVector`
keeps the loops: it goes through the legacy entries of the vector, collects
replacements in the order of the devices, checks each against the entries and the
replacements so far, and appends them. Each `for` loop is a `FoldLeft`,
`self.devices.remove(i)` too (`Without`): the prover knows what a fold is, and nothing of
`SelectSeq`.

A listing shows a device bare (no configuration), with no interface yet, with some or with
all of them, and whether it has settled is asked later: `Scan` and `Observation` pass any
fingerprint of `Listed` as settled or as enumerating. An empty interface set can
thereby be trusted and saved. The file is read again by every operation, and reading
turns an empty set into an unknown one (`VecParsed`, `Parsed`).

The two may end up with different entries, so the claim is not equality. `SetVouches`
holds without exception: whatever the vector vouches for the set vouches for, and the
set vouches for more only among units with a serial. `SameVerdicts`, that nobody who
asks `verdict` can tell them apart, holds until a file with *twins* is read: two entries
saved with empty interface sets, of one model, one without a serial and one with, where
the first covers the second. The vector has both or one of them, depending on their
order; the set has both; and as both read back as legacy entries, the second may outlive
the first in the set alone. `UsbArmor` uses the set. No setting of its runs has units of a
model with and without a serial, so there the two agree; its theorems, which allow such
units, are about the set, which in that one case vouches for more than the vector does.

### UsbArmor

Processes in `Scanner` run `scan_badusb`, again and again; those in `Truster` run
`trust_all_usb` when the user asks. `pc` is where each is, `mem` its local
variables, under the source's names where it has them (`existed` is
`file_existed`, `corrupt` `baseline_corrupt`, `changed` `store_changed`,
`pending` `pending_enumeration`, `targets` `deauth_targets`, `failed`
`declined_changed`).

| Label | Action | Code (`badusb.rs`) |
|---|---|---|
| `idle` | `StartScan`: does the file exist | 98-99 |
| `stamp` | `TakeStamp` | 100 |
| `load` | `LoadBaseline` | 103-109 |
| `list` | `ListDevices` | 117 |
| `migrate` | `MigrateLegacy` | 124-131 |
| `judge` | `SkipEnumerating`, `JudgeDevice`: one turn of the loop | 133-195 |
| `ready` | `FirstRunReady`: the second look at what is blocked | 197-204 |
| `prune`, `savePruned` | `Prune`, `SavePruned` | 206-209, 403-408 |
| `lock` | `SkipLock`, `TakeLock` (with the stamp and the save) | 218-231 |
| `readDeclined`, `saveFresh` | `ReadDeclined`, `SaveFresh` | 238-239 |
| `block` | `BlockNext`, `EndBlocks` | 241-251, 257 |
| `deauth` | `CheckHub`, `DeauthFails`: is it a hub | 252; `intervention.rs` 815-822 |
| `write` | `Deauthorize`, `DeauthFails`: the dialog, the write | 252-254; `intervention.rs` 824-868 |
| `report` | `EndScan`: the lock is dropped | 262-369 |
| `idle`, `wait` | `StartTrust`, `LockForTrust` | 494 |
| `find`, `reauth` | `FindBlocked`, `ReauthorizeNext` | 500-508 |
| `listTrust` ... `merge` | `ListForTrust`, `LoadForTrust`, `Observe`, `MergeNext` | 510-537 |
| `save`, `clear` | `SaveTrust`, `SaveTrustFails`, `ClearDeclined` | 538-547 |

**Devices.** `port[p]` holds the device on bus id `p`, sysfs's `authorized`, and
the interfaces sysfs lists: `NoIfs` before there is a configuration, then a
growing subset of the device's. `IsEnumerating` is `usb::is_enumerating`. A
device that is de-authorized loses its configuration; re-authorized, it
enumerates again. `Plug`, `Unplug`, `Enumerate`, `ToggleArmor` and `Tick` may
happen between any two steps of any process.

**Grain of atomicity.** Each file access is a step, and so is each look at the
devices: a scan lists the fingerprints (`ListDevices`), later asks which devices
have settled (`MigrateLegacy`), later again, device by device, whether it is
blocked or enumerating (`JudgeDevice`), and much later writes to sysfs. Anything
may happen in between; two of the findings live there. Looks at several devices
within one pass are one step. Taking the lock, comparing the stamp and saving are
one step, because nobody writes the baseline without the lock.

**The stamp.** `baseline_stamp` is modelled by what it is compared for:
`stampOk[s]` becomes TRUE when scan `s` takes the stamp and FALSE whenever
anybody writes the file.

**Failures and the clock.** A line of `usb_deauth_declined` is a port, a model
and its age in ticks, capped at `Retry` (the 60 s window): older ones are equal.
`readAge` is the age of the clock reading a pass stamps its failures with.

**History.** Three variables are used by properties only. `late` are the ports whose
device came after a scan, now about to write there, had looked for a hub. `failures` are the blocks
that failed within the window, whatever the file says, but for those a stale prune
lost: by `SavePruned`, without the lock, or by `SaveFresh`, under the lock but of a scan
that listed the devices before they came (section 5). `steady[s]` are the ports
whose device has been settled, in place and trusted by the file ever since scan
`s` started.

**Settings.** The constant `Setting` names the situations to start from: which
devices are where and may be plugged, which baselines, who is active, whether
Armor is toggled, the clock moves and blocks may fail. The variable `setting` is
the one chosen, and never changes. One run thereby covers several situations, and
a theorem, which speaks of any `Setting` of `SettingType`, covers all of them.

**The ledger.** `TrustLedger` is the baseline without entries, locks and devices: what
was approved, what is trusted, and who may write. `Ledger` maps it: `approved` are the
full entries of devices of known interfaces, `trusted` all fingerprints the file
vouches for; `newcomers` are the scans at `stamp` that found no file, `founders` those
past it whose stamp is still good, `approvers` the trusts that have not saved. A ledger
changes by an approval, by a copy that loses nothing approved and trusts nothing more
(`TakeLock` of a scan that found the file), or by being founded (`TakeLock` of one that
did not). Everything else a scan or a trust does is a stutter or a change of who may write.

**What may fail.** The baseline's save (in `TakeLock` and `SaveTrustFails`), each
block (a hub found, refused, cancelled, timed out or the device gone: `DeauthFails`), and each
re-authorization. The load of the baseline does not fail by chance: a file is unreadable
from the start (`corrupt`), for every process, until Trust Devices replaces it.

### Escalation, ProcessSignal, NetworkGuard, Intervention

`run[c].user` is a command the panel or the dashboard has started, `run[c].root`
the `pkexec` it may start: a record each, with the label it is at and the local
variables of the function it is in. Both run the same actions, as the two
processes run the same functions; `l` says which.

| Label | Action | Code (`intervention.rs`) |
|---|---|---|
| `idle` | `Request` | the dispatch in `main.rs` |
| `open`, `check`, `pin`, `send` | `Open`, `Check`, `Pin`, `Send` | `ProcessHandle::open`, `validate_signal_target`, `pin_signal_target`, `ProcessHandle::signal` |
| `grace` | `GraceStep`: look, sleep, look again, SIGKILL | `terminate_process` |
| `capture` | `Capture` | `capture_forensic_evidence` |
| `nft` | `NftAsUser`, `NftAsRoot`, `NftFails` | `kernel_apply_network_blackout`, `kernel_clear_network_blackout`, `kernel_quarantine_ip` |
| `mark`, `write`, `unmark` | `Mark`, `WriteMarker`, `Unmark` | `record_blackout_marker`, `clear_blackout_marker` |
| `count`, `kill`, `recount` | `Count`, `Kill`, `Recount` | `kernel_sever_socket` |
| `await`, `overdue` | `Return`, `TimeOut`, `Crash` | `escalate_via_helper` |
| `prompt` (root) | `Approve`, `Deny` | `pkexec` |

**Identity.** A process is its start time: `procs[p]` is what has PID `p` now, and
start times are given once. A pidfd is the start time it was opened for; a signal
through it reaches that process or nobody. `setting.pidfd` FALSE is the kernel
without it, where the signal goes to whoever has the PID. `Exit`, `Spawn` and `Exec`
happen between any two steps, so a PID changes hands, and a process becomes an
immune daemon, while the dialog is open.

**Routes.** `setting.route` says how a command reaches root: by the packaged helper,
by the bare tool (`legacy`, never for signals), or not at all. A time-out kills a
prompt that still waits for its password; a helper that runs as root cannot be
killed, so the command waits for it and drops its result (`overdue`). `Crash` is the
panel closed: the command dies, the helper goes on.

**What may fail.** Besides prompts and signals: the write and the removal of the
blackout's marker, whose failure the code ignores (`Leaves`: a torn marker, or none, or the
old one stays, and the command still succeeds); nft; counting the connections, and
destroying them: as root `Kill` destroys any of them or none, since `ss -K` exits 0 on a
kernel without `CONFIG_INET_DIAG_DESTROY`, and only the recount tells. Evidence is filed
or not (`Capture`); whose process it describes is not modelled (section 7).

**Contract.** `CommandContract` forgets the prompt, the helper, the labels and what is
acted on: a command is idle, working, told or orphaned (dead, while its helper is not),
and has had an effect or not. `Phase`, `Asked` and `Answer` read that off the two runners.

**History.** `acted`, `hit`, `shielded`, `engaged`, `flushed`, `smooth`, `astray` are used by
properties only. `smooth`, `flushed` and `astray` are how a property says "unless commands
overlapped, timed out or died", "unless root emptied the ruleset" and "unless the
marker's last write or removal failed".

### Subproc

One call of `run_cmd_bounded_status` or `run_cmd_write_stdin_bounded`: `Start`, the
loop (`Look`, `Poll`, `ReadChunk`), `Verdict`, and `reap_process_group` (`Term`,
`Kill9`, `Wait`). The child may fork, write, close, exit, become root's; what it
forked may leave the group; once the child is collected and its group empty, its PID
may be another group's (`Recycle`). Bytes are counted: the pipe keeps their order.

### StateFile, AtomicFile, Tripwire

A runner's writes are a queue; each is `CreateTmp`, `FillTmp`, `RenameTmp`, or
`WriteFails`, and `FileCrash` leaves the temporary file behind under a name nobody
reads. `AtomicFile` knows no temporary file: a write is done as a whole or not.
`Tripwire` queues the writes of a first check and of a reset, and reads the files one
by one, as `primary_seal` and `decoy_state` do. A token is told by the reset that
made it, a hash by the token it is of: SHA-256 is taken for injective. `Tamper` is
somebody else at the token or the hash, `TamperDecoy` at the decoy, which a check looks at
(`JudgeDecoy`) and then reads (`ReadDecoy`): one that is removed in between alerts, as one
that was changed does. `meddled` remembers what properties excuse: a changed canary, or a
decoy touched between those two steps. `known` remembers, for a check, that it began
after a tampering of an armed tripwire at rest.

### Daemon and Panel

`loop` holds the locals of `run_daemon`, its deadlines as ticks left. `queue` is the
netlink socket: so many messages, one about USB among them or not, some lost or not.
The loop takes no time when something is due; a scan takes any number of ticks (it may
hang on a dialog). `waited` counts, for properties, how long the bus has been changed
and unread. The worker takes the newest scan (`WorkerTake`), reads the other modules,
here DNS (`WorkerRead`; `CheckDnsLeak` shows a provider that cannot be read as
off), and writes the cache (`WorkerPublishes`). A client reloads
the cache on change and every 20 s, scans and starts a daemon when it is old (`Load`),
asks for another scan while one runs (`again`), and flips its switch before the engine
has answered (`Toggle`, `ToggleActs`, `ToggleEnds`).

## 3. What the runs check

| Run | Instance | Shows |
|---|---|---|
| `vector` | every file of up to two of three entries; six fingerprints that a listing may show, one or two of them at once, each settled or enumerating, blocked or not; any number of scans and trusts | `SetVouches`, `SameVerdicts`; `MigrationIsExact`: "the migration never widens trust beyond what was connected", and loses none of what was listed with interfaces, identical units included; `MergedAreTrusted` |
| `safety` | six settings: two scans and legacy baselines whose migration may fail to be saved (`Migration`); a hub and a stick that take each other's port below a root hub (`Hubs`); a scan, a trust and an unreadable file, Armor toggled (`CorruptFile`); no file: two scans, devices settled, arriving and blocked (`FirstRun`), a scan and a trust, a device blocked (`FirstTrust`); two scans and the clock, a keyboard that comes and goes beside a stick, blocks that fail (`TwoPorts`) | `ArmorLockExcludes`, `HubsStayAuthorized`, `RetryWindow`, `SteadyNeverBlocked`, `FullEntriesKept`, `CorruptIsHarmless`, `FirstBaselineComplete`; `BaselineIsALedger`, the refinement |
| `hotplug` | a scan, a trust, a keyboard and its clone plugged and unplugged at any moment (`HotPlug`); two scans and a trust around one file (`Trusting`) | `SteadyNeverBlocked`, `FullEntriesKept`, `ScansNeverWidenTrust` |
| `live` | two fair scans, the clock, a keyboard that comes and goes, blocks that fail | `ExposureEnds` |
| `intervention` | eight settings: a PID that changes hands under a freeze or a terminate, with pidfd (`Reuse`) and without (`ReuseOldKernel`); two commands on one process (`Contended`); daemons, kernel threads and impostors (`Untouchable`); no helper, with the bare tool or without (`Unpackaged`); blackouts of two callers, flushes and reboots (`Blackout`); severs and quarantines (`Sever`) | `OnlyTheNamed`, `ImmuneSpared`, `TerminatedIsDoomed`, `EvidenceOfFreezes`, `ShownIsTrue`, `ShownWasEngaged`, `SeveredAreGone`; `ContractKept`, the refinement: no success without an effect, no failure with one, and nothing still to come once an outcome is told, a timeout included |
| `subproc` | both functions, two bytes kept of three, a pipe of two, reads of one, a child that forks once | `WholeOutput`, `NothingSurvives`, `StrangerOnlyIfCollected`, `Ends` |
| `tripwire` | two processes that check, or check and reset, each any number of times: with failures and tampering, with failures and resets, with resets and tampering | `TamperIsSeen`, `SmoothAlertMeansTamper`; `FilesAreAtomic`, the refinement |
| `panel` | a port with one device and a socket; a port with two devices that replace each other and no socket; a client, its switch, a daemon it or another client owns | `ReadInTime`, `PendingHolds`, `ReportSettles`, `DaemonReturns` |

`stale_block`, `first_run_race`, `stuck_marker` and `stale_toggle` are the runs of
section 5.

`subproc` (57,000 states), `tripwire` (259,000) and `panel` (169,000) take seconds;
`vector` (1,041, each with thousands of steps and checks) and `live` (109,000) one to two minutes;
`safety` (997,000), `intervention` (737,000) and `hotplug` (three million) two to three.

**Bounds of the USB runs, and why they are enough.** Two scans and one trust are every kind of
pair: scan and scan, scan and trust (two trusts exclude each other from their
first step to their last). There are three ports, one of them a root hub's. A
setting uses one port where the question is about one device, two where the order
of the loop or identical units matter, and the root port where hubs do. The
devices cover every verdict: a keyboard; a clone of it with
one more interface (same model, so a mismatch, and a look-alike while half
enumerated); a storage stick; a hub of the stick's model. Baselines cover: absent,
corrupt, empty, a full entry, a legacy entry, a legacy entry next to a full one of
the same model, and entries of other devices. A window of one tick (`Retry` = 1)
separates "inside" from "outside". Where Armor is not toggled it is on, since off it
blocks nothing. The fingerprints of `vector` are one model bare, with no
interface yet, with one and with two, and a unit with a serial with none and one: identical
units, clones, units told apart by a serial, a partial listing of a complete device, and
twins. The vector is bounded by
`MaxFileLen` = 2 entries at the start, and grows from there through any number of
scans and merges of up to `MaxConnected` = 2 devices; TLC explores it to the
fixed point. Symmetry is used for the two scans only, in `safety` and `hotplug`, which check no
liveness. `TwoPorts` has two devices because a scan can record a failure for one that
another scan, which listed the devices earlier, then prunes. In `safety` only two
processes meet: `BaselineIsALedger` is proved for any number (section 6).

**Bounds of the others.**

* `intervention`: three PIDs, one of them reserved; `MaxBorn` = 3 start times, so a
  PID can be taken over twice while one dialog is open; `Grace` = 1 look between
  SIGTERM and SIGKILL (ten in the code: the steps are alike); `MaxConn` = 3
  connections, one of which opens between the counts of a sever; two boots, so a
  marker can outlive its own. `Kill` may destroy any part of the connections, none
  included. Callers repeat their commands without bound. Two of
  them act in the settings where sharing is the question (`Contended`, `Blackout`).
* `subproc`: with `MaxOut` = 2 an output can be short, exact and too long; `Chunk` = 1
  makes a read of several rounds; a pipe of 2 can fill up.
* `tripwire`: `MaxGen` = 1 reset token besides the first one. Two processes overlap
  in every way two can; both repeat without bound. Symmetry between them; no liveness.
* `panel`: `MaxDelay` = 3 ticks above `Settle` = 2 lets a burst hit the bound; a
  `QueueSize` of 1 overflows; `Interval` = 5 is longer than both; one recheck is
  enough to use them up. `events` = 3 bounds what happens outside the program
  (plugging, clicks, clients, dying daemons); after it nothing happens, which is what
  `ReportSettles` is about. `timed` FALSE makes the report due at any time, in place
  of counting: the client's setting thereby covers every phase of the two timers.

**Deadlock** is checked in every run but two: a scan can always start again, a command
be asked for again. `subproc` stops when its call is over and its children are, and
`panel` when nothing is left to happen and no daemon runs.

## 4. Fairness

`UsbArmor`'s `FairSpec` assumes weak fairness of each process's steps (threads are
scheduled; nothing in a scan waits), of each port's enumeration (the kernel
finishes) and of the clock, and strong fairness of `Deauthorize`: a block may be
cancelled or fail any number of times, but not for ever, each time it is tried.
Without the last the property is the user's to break, by cancelling each dialog.
A new scan is always started: `StartScan` is a step of `ScanStep`, and the daemon
scans on a timer. Nothing is assumed of users.

`live` has no trust in it. `trust_all_usb` waits for the lock, and scans never
do; a trust whose save fails each time, asked for again and again, may hold the
lock at each moment a scan tries it. That takes a user who clicks for ever, and
excluding it would need fairness on what the user does.

`Subproc` assumes that the caller's thread runs and that time passes; nothing of the
child, which may block, write or live as long as it likes. `Ends` excepts a child that
becomes root's: the call cannot kill it, and `child.wait()` has no deadline.

`Panel`'s `FairSpec` assumes that the daemon's loop and its worker run, time passes, the
clients' timers fire, scans and toggles end, and that a cache nobody renews becomes
old. Nothing is assumed of the user, of the life of a daemon or of a client, or of the
kernel, which may never finish configuring a device.

`Intervention` and `Tripwire` state no fairness: a user may leave a password dialog open,
and their properties are about what must not happen.

## 5. Disagreements between code and its comments

### With a run

In each TLC finds a behaviour of the model that breaks what a line of the repository
says; `findings` in `PROJECT.json` quotes it.

| Run | What happens |
|---|---|
| `stale_block` | A scan compares the stamp before it saves, not before it blocks: one that judged before Trust Devices saved, and gets the lock next, blocks a device just trusted. |
| `first_run_race` | On a first run, `exists` comes before the stamp. A file Trust Devices saves in between has its stamp taken, and is overwritten. |
| `stuck_marker` | The blackout's marker is removed only if deleting the table succeeded. When a firewall reload has emptied the ruleset, every resume fails and the blackout stays shown until the next boot. |
| `stale_toggle` | `finishToggle` drops the snapshot when the engine has answered; a `--json` scan started before the toggle acted ends later, and its report flips the switch back until the next scan ends. |

### Without a run

The property and the setting are kept in the modules; a configuration with that
`Setting` and that property alone shows each.

| Setting, property | What happens |
|---|---|
| `MCTrustVector`, `BlockedAreTrusted` | Trust Devices with a blocked device and a settled one of the same model: the first adds an entry of unknown interfaces, the second, through `trust` and `upgrade_legacy`, replaces it by its own. The blocked device is not trusted after all. |
| `HalfEnumerated`, `TrustedNeverBlocked` | The fingerprint is read in `connected_usb_devices`, whether it was complete is asked later: a device that settles in between is judged by a partial fingerprint. |
| `LostFailure`, `PruningKeepsFresh` | Pruning the failed blocks is a read and a write without the lock; a failure recorded in between is lost, and asked again at once. Under the lock (line 239) the prune is by the devices listed before the lock was taken: a failure for a device that came later is lost as well. |
| `LongDialog`, `FailureHeldBack` | A failure is stamped with the time its pass began: after a dialog of 120 s it is past its window of 60 s when it is written. |
| `Hubs`, `HubsNeverCut` | "Root hubs and hubs are never blocked" (`intervention.rs`, the comment at 817): the port is looked at before the write, on the legacy route before a password dialog, and not again. A hub that takes the port meanwhile is cut off. |
| `FirstRuns`, `AlertMeansTamper` | `primary_seal` looks for the token and the hash before the marker, and the decoy is created before it is filled: of two first checks at once one takes what the other is about to write for a deletion, or an empty decoy for a wiped one. If the process that creates the decoy dies in between, the empty decoy stays, and a reset does not clear it. |

One more is read off the source alone: `capture_forensic_evidence` says it captures
evidence "of a frozen process" (`intervention.rs:1166`), but opens `/proc` by the bare PID, after the
signal and again for each file. A process killed while it is frozen may have
given its PID to another by then.

### What remains true beside them

Only the first-run scan may drop an approval (`FullEntriesKept` against
`NothingOverwritten`), and once there is a file and no such scan is left, that is over
for good (`ClosedForGood`, section 6). A device that has been settled and trusted on disk since a
scan started is never blocked by it (`SteadyNeverBlocked`), while one that is
settled or trusted only since then may be (`TrustedNeverBlocked`). A hub that was there
when the code looked is never cut off (`HubsStayAuthorized` against `HubsNeverCut`). Failures are
held back for the window, counted from the clock reading of their pass and but for
those a prune loses (`RetryWindow` against `FailureHeldBack` and
`PruningKeepsFresh`). A blackout that is shown was engaged since this boot
(`ShownWasEngaged`), and is there as long as nobody else empties the ruleset and
commands run one at a time and the marker can be written and removed (`ShownIsTrue`). No report moves a switch in flight
(`PendingHolds`), and in the end every client shows what is there (`ReportSettles`).
Runs of the tripwire that do not overlap, fail or die raise no false alarm
(`SmoothAlertMeansTamper`), and no true one is lost in any case (`TamperIsSeen`).

## 6. What is proved

Each theorem holds for any value of the constants its module's assumptions allow:
any sets of processes, ports, callers and files, any bounds, any settings of the
right type. The assumptions say no more than that bounds are numbers, that
non-values are not values, that settings are of their type and consistent
(`Told`: start times tell processes apart), and that the daemon's delays are ordered as
its constants are (a burst settles within its bound, and both within the interval).

### `TrustVectorProofs`

* **`AlwaysAgree`**: `Spec => []IInv`, for files, vectors and lists of devices of any
  length. That vector and set give the same verdicts is not inductive: a migration reads
  the legacy entries themselves. The invariant, `Agree`, has two parts. `Within` holds
  always: the vector's entries are among the set's, and an entry that only the set
  has is of a unit with a serial. `SameTrust` holds until a file with twins is read: both have the *same* legacy
  entries, and full entries that vouch for the same devices. Each operation keeps them
  (`AgreeAfterUpgrade`, `AgreeAfterTrust`, `AgreeAfterMerge`), and so does reading the file
  (`AgreeAfterLoad`, the step at which twins matter: `SameRead`).
* **`VectorWithinSet`** and **`VerdictsSame`** (`SetVouches`, `SameVerdicts`) follow: the first without
  exception, the second as long as no file with twins has been read.
* **`MigrationExact`** is what `usb.rs` says of `upgrade_legacy`, for what a listing may show, complete or not.
  **`MergedTrusted`** (`MergedAreTrusted`) is what Trust Devices is for: whatever was not
  skipped and showed interfaces is trusted by them, and the legacy entries left that would
  vouch for a clone are those of devices the same pass listed without a configuration.
* **How a loop is proved.** No induction theorem of the library can be used, because each
  takes the predicate as a parameter. `Induction` is derived from `WFMin`: a non-empty
  set of exceptions would have a least element. `FoldRuns` then says that a `FoldLeft`
  goes through the states of a loop, one round for each element (`WithoutLoop`,
  `ReplacementsLoop`, `VecUpgradeLoop`, `SettledLoop`, `VecMergeLoop`, `SetMergeLoop`), and each
  loop has an invariant that `RoundInduction` carries through its rounds. The one that takes
  thought is `upgrade_legacy`, which changes the vector it goes through: after `k`
  rounds the vector has what it had, less the legacy entries among the first `k` that
  vouch for a connected device, plus full fingerprints of such devices that cover
  all that those entries vouched for (`VecUpgradeRange`).

### `UsbArmorProofs`

* **`TypeCorrect`**: `Spec => []TypeOK`. One lemma per kind of actor, one step per
  action; `UpgradeType`, `TrustType`, `LoadedType`, `ListedType` and `AgedType`
  say what the operators on stores, listings and failures return, `ScanControl`
  and `TrustControl` what a step that moves one process does.
* **`LockKept`** and **`LockExclusion`**: `Spec => []ArmorLockExcludes`. Exclusion is
  not inductive: nothing in it ties the processes to the lock. The inductive
  invariant, kept by `LockKept`, is `LockHeld`: whoever is at a label that relies on the lock is its holder. It
  implies exclusion because the lock has one holder. A scan drops the lock at
  `report`, which is not such a label, whether it holds it or not; the proof
  needs that a scan without the lock does not drop another's
  (`IF lock = s THEN Nobody`).
* **`HubsNeverBlocked`**: `Spec /\ HubsStayAuthorized => []HubsStayAuthorized`. Only
  `Deauthorize` takes authorization away, and it trusts a look that is over. The inductive
  invariant, `HubsSpared`, adds `LooksHeld`: of a scan about to write, the target's port has no hub, or
  a device that came since (`late`). The look holds across the other steps because a
  device changes its kind only by being another device, and `Plug` then counts the port
  as late. The scan's own judgement is of no use: the target may have been replaced between
  judging and looking.
* **`FailuresHeldBack`**: `Spec => []RetryWindow`. The dialog asks about a target; the
  failures are in the file, in `failures` and in what the scan has read. `Recorded` ties
  them: a failure within the window is in the file, unless a scan is blocking, and then
  it is among those that scan knows and will write (`ScanRecords`). That the failure a
  scan has just added is not about its next target needs `OneTargetPerPort`. The first
  attempt at this proof failed at `SaveFresh`: a prune under the lock loses failures as
  the one without the lock does, which the history variable did not account for
  (section 5). TLC confirmed it in the setting `TwoPorts`, written for that.

### `UsbTrustProofs`

* **`SaversFaithful`**: `Spec => []Faithful`, the inductive invariant behind the next
  two. What a process has in memory is worth something only as long as the file is
  as it was: `ScanFaithful` says of a scan that found a file *and whose stamp is
  still good* that its store keeps every approved device of the file and
  vouches for no device the file does not; `MergeFaithful` says of a trust between
  loading and saving that its store keeps the approved ones. A save by anybody voids
  all stamps, which settles the scans; that no trust is then in the middle of its
  merge needs `LockHeld`. The lemmas `Parsed...`, `Upgrade...` and `Trust...` say what the operators
  of `TrustStore` keep of a store and add to it.
* **`ApprovalsKept`**: `Spec => FullEntriesKept`, and **`TrustNotWidened`**:
  `Spec => ScansNeverWidenTrust`. By `WhoSaves` only `TakeLock` and `SaveTrust` change the
  file; `Faithful` says what they write. That a first-run scan is excepted is no
  weakness of the proof: it does overwrite (section 5).
* **`CorruptSuspends`**: `Spec => CorruptIsHarmless`. The invariant `Suspended` follows a
  scan from `exists` to the lock: while the file is unreadable each scan knows it
  exists, then that it is corrupt, and so has no target and nothing to save. By
  `WhoBlocks` a block needs a target.
* **`FirstBaselineWhole`**: `Spec => FirstBaselineComplete`, from `FirstScansHold`: what a
  first scan has gone through is in its store, unless it met a device that was
  enumerating, and then it does not save. Adding a later device takes an earlier one
  out of no store (`TrustHolds`).
* **`SteadySpared`**: `Spec => SteadyNeverBlocked`, from `Spared`: while a device is steady
  for a scan (settled, in place and trusted on disk since it started), the scan's list
  has it as it is and the scan's store vouches for it, so no target is on its port. A
  migration keeps that because a settled device keeps its trust (`UpgradeVouches`).
* **`MigrationExact`**, **`TrustExact`**: what `upgrade_legacy` and `trust` do to any store and
  any devices, the set-level counterpart of the run `vector`.
* **`FileImplementsLedger`**: `Spec => BaselineIsALedger`, the refinement of `TrustLedger`,
  action by action. `TakeLock` is `Copy` by `Faithful`, `LockHeld` and
  `Suspended` (a scan that found a file saves over a readable one: `FoundIsThere`), or
  `Found`: a scan that saves has a good stamp, so it is a founder. That nobody founds a second ledger
  needs no invariant of the scans: a save voids every stamp.
* **`ClosedForGood`**: once there is a file and neither newcomer nor founder is left, there
  never will be one again (a file is never removed), and then no save loses an
  approved device, whoever makes it: only a race on the first run can
  (`first_run_race`).

### `InterventionProofs`

* **`Inductive`** and **`Typed`**: `Spec => []TypeOK`. The type alone is not inductive:
  a signal is sent to `procs[run[c][l].arg]`, and that `arg` is a PID follows from the
  operation. `IInv` adds where a runner may be for its operation (`Placed`) and what
  holds between a command and its helper (`Paired`): the helper runs what the command
  asked for, with the start time the command pinned, while the command waits or has
  gone. The second half of the module says, action by action, what a step does to
  the runners; the next two rest on it.

### `OutcomeProofs`

* **`ShownGuarded`**, **`SeveredGuarded`**, **`FailedGuarded`** (`ShownWasEngaged`,
  `SeveredAreGone`, `FailedIsHarmless`) follow from `Guards`, which carries what a helper
  has done until its command has told the user: `Engagement` for the marker (whoever
  is about to write it has seen an engagement of this boot), `Severance` for the
  counts (connections get new numbers, so what was counted and has gone does not come
  back; a kill is taken to have destroyed anything or nothing, so what a success says
  comes from the recount alone), `Harmless` for outcomes (a command that acted is past every step that can
  still fail).
* **`ShownTrue`**: `Spec => []ShownIsTrue`, from `Truth`: the phases of one blackout or
  resume, while commands run one at a time; at each phase whether the table, the marker
  or both are there. A marker that could not be written or removed (`astray`) breaks the tie until
  a later command writes or removes it.
* **`NamedOnly`**, **`ImmunesSpared`**, **`TerminatedDoomed`**, **`EvidenceTrue`** (`OnlyTheNamed`,
  `ImmuneSpared`, `TerminatedIsDoomed`, `EvidenceOfFreezes`). Whatever processes do between two
  steps of a runner, start times only grow: a PID names what it named, or something
  younger (`Evolves`). So what a runner learned stays true, and `Marked`, kept by
  `MarksHold`, says what that is: where the process it pinned can be (`Known`), that it
  is none of the ones immune all the while (`Sheltered`), what an outcome tells (`Fate`).
  The order of the calls is what the proof turns on: the handle is opened before
  `/proc` is read, so a handle that still works is of the process that was read.
* **`ContractHonoured`**: `Spec => ContractKept`, the refinement of `CommandContract`,
  action by action: each step of a command or its helper is a `Turn` (a command is
  asked, works, dies, or is outlived by its helper), and each turn a step of the
  contract or a stutter. That nothing is still to come is `Paired`: a helper that is
  not idle has a command that waits for it, or none, so a command that tells its outcome has
  no helper left. That a failure is true is `Harmless`; that a success is, `Earned`: a
  command or helper is at a label that only success leads to (`capture`, `mark`,
  `unmark`, an `ok`) if it has acted, or if it is a sever, which `SeveredAreGone` judges by
  its count. `FailedIsHarmless` is a part of the contract with a theorem of its own.

### `SubprocProofs`

* **`Typed`**, **`AnswersAreWhole`**, **`NobodySurvives`**, **`StrangersOnlyIfCollected`**. The
  invariant says where the bytes are (`Conserved`: sent = read + in the pipe), what a
  pipe taken for closed means (`NobodyWrites`), whose the exit code is (`Collected`), why
  the loop was left (`Judged`), who is left after SIGKILL (`Reaped`), when the PID is free
  (`Recycled`), and what an answer is from the verdict on (`Answered`).

### `TripwireProofs`

* **`TamperRaisesTheAlert`**: `Spec => []TamperIsSeen`. The property speaks of a finished
  check; the invariant `Alarmed` follows a tampered pair: while it is there, nobody has
  a write to do, the marker is there to tell, and every check that began after the
  tampering is bound to conclude "alert" from whatever step it is at (`Doomed`).
* **`FilesImplementAtomicFiles`**: `Spec => Abstract!Spec`. `disk` and `todo` are shared;
  `RenameTmp` is the abstract `Commit` because a complete temporary file holds the write
  at the head of its writer's queue; the other steps of a write stutter.
* **`NoFalseAlert`**: `Spec => []SmoothAlertMeansTamper`. `Undisturbed` describes a history
  in which runs did not overlap, fail or die and nobody touched a canary: at most one
  runner is at work; between writes the files are a pair as a reset left it; during
  writes the queue is a tail of a reset's, and the files are as far as it says
  (`Halfway`); and what a check has read so far is what is there (`Steady`).
* **`Typed`**: `Spec => []TypeOK`.

### `PanelProofs`

* **`Inductive`** and **`TypeCorrect`**: `Spec => []TypeOK`, with `ScanOK`: what a `--json` run
  writes to the cache is a whole report.
* **`Timely`**: `Spec => []ReadInTime`. The bound on how long the bus may be changed and
  unread follows from who answers for it: the socket, a burst, or the next report
  (`WaitOK`). A burst keeps its check within `MaxDelay` of its first message
  (`BurstOK`: `check + burst <= MaxDelay`), although each message puts the check off; without a
  socket the loop sleeps no longer than to the next thing due (`NapOK`). The assumptions
  order the delays as the code's constants are.
* **`TogglesHold`**: `Spec => PendingHolds`. By `StepHolds` the only steps that move a switch
  in flight are the click that starts it and the answer that ends it.

### Only model-checked

Liveness under fairness: `ExposureEnds`, `Ends`, `ReportSettles` and `DaemonReturns`. The
provers have no rule for `WF` and no `ENABLED`. Every other property of a passing run,
each safety invariant, action property and refinement, is a theorem.

## 7. What is abstracted and what is not modelled

In `TrustStore`, `TrustVector` and `UsbArmor`:

* JSON, string cleaning, wording of the report, status and counts of a scan.
* A lock file that cannot be opened (`armor_lock` then returns `None`, and
  `trust_all_usb` goes on without it).
* Failing or partial writes of `usb_deauth_declined`; each write replaces it.
* `toggle_usb_armor` is one step; two toggles at once are not interleaved.
* The clock only moves forward.
* The helper's protocol: a block is the look for a hub and the write or failure, as in
  `kernel_set_usb_authorized`, with anything in between (`Escalation` models the
  protocol for the other operations). Of the two looks, the command's and the helper's, the
  last before the write counts. A device's `bDeviceClass`
  is taken to agree with its interfaces.
* In `UsbArmor`, a device that reports no interfaces at all (`bNumInterfaces` 0): it never
  settles to a different state, and `Device` has known interfaces only. (`TrustVector` has
  devices with an empty interface set.)
* The user re-authorizing devices behind the program's back.

In `Intervention`:

* The text of nft's scripts and the addresses' validation.
* The contents of evidence, and so whose process it describes: the code reads `/proc` by the
  bare PID (section 5). `EvidenceOfFreezes` is about when evidence is filed, not of what.
* A helper that dies by itself (killed by root, out of memory); it always returns.
* A kernel that answers `pidfd_send_signal` with ENOSYS after `pidfd_open` worked.
* nft is taken not to commit after its own deadline has expired.
* A process is immune by its kind; the list of names and executables is not spelled out.

In `Subproc`: the data for stdin fits the pipe, so writing it never blocks; read errors
of the pipe; more than one forked process.

In `Tripwire`: somebody who removes `canary.armed` (which is a first run to the code);
symlinks and permissions of the files, whose refusal is a failed write. Somebody who
writes a token and the hash of it: the seal is a hash without a key, so
`primary_seal` takes a consistent pair for its own (`tripwire.rs:51`). `TamperIsSeen` is about all other
changes of the pair.

In `Daemon` and `Panel`: one USB port; the loop takes no time between scans;
two clients that switch at the same moment, and the other switches, which go through
the same functions; the dashboard's queue of actions; how the provider is told from the
resolver's files. In the client's setting the port does not change.

Not modelled, each with its reason in `components` of `PROJECT.json`: the CVE radar's
caches, judged by age, which processes that fill them at once overwrite with equally fresh answers; the behaviour heuristics, a pure
scoring whose weights are its specification; the metadata scrubber, parsing of bytes;
the network and authentication radars, parsing of `/proc/net` and `journalctl`; Ghost
MAC, nmcli calls with a rollback of another program's state; notifications, hardening
calls, packaging and policy files: pure I/O with no protocol to get wrong.

## 8. Plan

1. `UsbArmor`'s blocks through `Escalation`, so that a dialog's time-out and an orphaned
   helper meet the interleavings of scans.
2. `toggle_usb_armor` in its two steps, with two clients; the lock that cannot be
   opened; a clock set back.
3. The dashboard's queue of actions, and Ghost MAC's rollback.
4. Pure functions: threat level, scores, the JPEG and PNG strippers against a
   reference definition.
