------------------------------ MODULE UsbArmor ------------------------------
(***************************************************************************)
(* USB Armor: src/src/engine/badusb.rs and the sysfs writes it makes       *)
(* through src/src/kernel/intervention.rs.                                 *)
(*                                                                         *)
(* Scanners (the daemon, the panel's and the dashboard's --json) run       *)
(* scan_badusb; trusters run trust_all_usb.  They are threads of different *)
(* processes that share four things: the baseline file, the file of failed *)
(* blocks, the advisory lock, and the devices themselves through sysfs.    *)
(* A step ends at the next access another process could fall in before:    *)
(* reading what is connected, what has settled, what is blocked, each file *)
(* and each write are steps of their own.  Reads of one pass over all      *)
(* devices are one step, and so are taking the lock, comparing the stamp   *)
(* and saving: nobody writes the baseline without the lock.  Everything    *)
(* else a process reads or writes is its own memory.  Users plug and       *)
(* unplug devices and toggle Armor at any time.                            *)
(***************************************************************************)
EXTENDS TrustStore, Naturals

CONSTANTS
  Scanner, Truster,   \* processes running scan_badusb, trust_all_usb
  Port,               \* bus ids, in the order connected_usb_devices sorts them
  RootPort,           \* the ports whose bus id starts with "usb"
  Device,             \* what may be plugged: the fingerprints of settled devices
  NoDevice,           \* an empty port
  Nobody,             \* the lock is free
  Retry,              \* DEAUTH_RETRY_SECS in ticks of the clock
  Setting             \* the circumstances a behaviour may run in, by name

Proc == Scanner \cup Truster

PortState == [dev  : {NoDevice} \cup Device,
              auth : BOOLEAN,                          \* sysfs "authorized"
              ifs  : {NoIfs} \cup SUBSET Interface]    \* interfaces sysfs lists

\* Absent, unreadable or not parsed, or a list of fingerprints.
Baseline == [state : {"absent", "corrupt"}, entries : {{}}] \cup
            [state : {"readable"}, entries : SUBSET Fingerprint]

\* A failed block: its key and the clock ticks since its timestamp, up to Retry.
Failure == [port : Port, model : Model, age : 0..Retry]

(***************************************************************************)
(* How a behaviour starts and what may happen around the processes.        *)
(***************************************************************************)
SettingType ==
  [ports     : SUBSET [Port -> PortState],    \* connected at the start
   baselines : SUBSET Baseline,               \* on disk at the start
   armor     : SUBSET BOOLEAN,                \* on at the start
   active    : SUBSET Proc,                   \* who runs
   plugs     : SUBSET ((Port \ RootPort) \X Device),   \* what comes and goes
   toggles   : BOOLEAN,                       \* Armor is toggled
   clock     : BOOLEAN,                       \* time passes
   fails     : BOOLEAN]                       \* a block that is possible may fail

ASSUME ArmorAssumption ==
  /\ Scanner \cap Truster = {}
  /\ Nobody \notin Proc
  /\ Port \subseteq Nat
  /\ RootPort \subseteq Port
  /\ Device \subseteq {fp \in Fingerprint : KnownIfs(fp) # {}}
  /\ NoDevice \notin Device
  /\ Retry \in Nat
  /\ \A w \in DOMAIN Setting : Setting[w] \in SettingType

VARIABLES
  port,      \* the devices as sysfs shows them
  baseline,  \* trusted_usb.json
  declined,  \* usb_deauth_declined
  armor,     \* usb_armor.enabled exists
  lock,      \* who holds usb_armor.lock
  pc,        \* the next step of every process
  mem,       \* the local variables of every process
  stampOk,   \* the baseline is still the one whose stamp the scan took
  kept,      \* the failed blocks a scan has in memory
  readAge,   \* ticks since a scan read the clock for its blocks
  steady,    \* history: the settled devices trusted ever since a scan started
  failures,  \* history: the blocks that failed within the retry window
  late,      \* history: the ports that got their device after the check for a hub
  setting    \* the name of the circumstances, fixed at the start

files == <<baseline, declined>>
\* What may happen around the processes of this behaviour.
Around == Setting[setting]

\* What the processes leave alone.
outside == <<armor, setting, late>>
scanVars == <<stampOk, kept, readAge, steady>>
vars == <<port, files, outside, lock, pc, mem, scanVars, failures>>

-----------------------------------------------------------------------------
(* sysfs *)

Empty == [dev |-> NoDevice, auth |-> TRUE, ifs |-> NoIfs]

Connected == {p \in Port : port[p].dev # NoDevice}

\* read_fingerprint: the interfaces sysfs lists now, none without a configuration.
ReadFingerprint(p) == [port[p].dev EXCEPT !.ifs = port[p].ifs]

IsDeauthorized(p) == p \in Connected /\ ~port[p].auth

\* No configuration, or fewer interfaces than it declares; so is an empty port.
IsEnumerating(p) == p \in Connected => port[p].ifs # port[p].dev.ifs

\* Mutant: directories that are no devices are listed, too.
ListedNowAny == {[port |-> p, fp |-> IF p \in Connected THEN ReadFingerprint(p)
                                     ELSE port[p].dev] : p \in Port}

\* connected_usb_devices
ListedNow == {[port |-> p, fp |-> ReadFingerprint(p)] : p \in Connected}

-----------------------------------------------------------------------------
(* Local memory *)

Target == [port : Port, model : Model]

Memory == [existed   : BOOLEAN,          \* file_existed
           corrupt   : BOOLEAN,          \* baseline_corrupt
           store     : SUBSET Fingerprint,
           changed   : BOOLEAN,          \* store_changed
           pending   : BOOLEAN,          \* pending_enumeration
           wantsSave : BOOLEAN,
           listed    : SUBSET [port : Port, fp : Fingerprint],
           todo      : SUBSET Port,      \* what is left of the loop
           targets   : SUBSET Target,    \* deauth_targets not yet handled
           failed    : BOOLEAN]          \* declined_changed

NoMemory == [existed |-> FALSE, corrupt |-> FALSE, store |-> {},
             changed |-> FALSE, pending |-> FALSE, wantsSave |-> FALSE,
             listed |-> {}, todo |-> {}, targets |-> {}, failed |-> FALSE]

Ports(listed) == {l.port : l \in listed}

\* Loops go through the ports in order.
IsNext(p, S) == p \in S /\ \A q \in S : p <= q

Goto(x, label) == pc' = [pc EXCEPT ![x] = label]

\* The loop at label `loop` goes on while something is left of it.
Loop(x, left, loop, after) == Goto(x, IF left = {} THEN after ELSE loop)

Remember(x, m) == mem' = [mem EXCEPT ![x] = m]

Forget(x) == Remember(x, NoMemory)

Saved(S) == [state |-> "readable", entries |-> S]

\* Every write of the baseline gives it a new stamp.
SaveBaseline(S) ==
  /\ baseline' = Saved(S)
  /\ stampOk' = [s \in Scanner |-> FALSE]
  /\ steady' = [s \in Scanner |->
                  {p \in steady[s] : Vouched(Parsed(S), port[p].dev)}]

\* Mutant: the baseline is made anew from what is connected.
LoadedAfresh == {}

\* The store a process gets from the file; the default one when it has none.
Loaded == IF baseline.state = "readable" THEN Parsed(baseline.entries) ELSE {}

\* Mutant: a failure is remembered until the device is unplugged.
FreshForEver(F, ports) == {f \in F : f.port \in ports}

\* parse_declined: connected, and inside the retry window.
Fresh(F, ports) == {f \in F : f.port \in ports /\ f.age < Retry}

-----------------------------------------------------------------------------
Init ==
  /\ setting \in DOMAIN Setting
  /\ port \in Around.ports
  /\ baseline \in Around.baselines
  /\ declined = {}
  /\ armor \in Around.armor
  /\ lock = Nobody
  /\ pc = [x \in Proc |-> "idle"]
  /\ mem = [x \in Proc |-> NoMemory]
  /\ stampOk = [s \in Scanner |-> FALSE]
  /\ kept = [s \in Scanner |-> {}]
  /\ readAge = [s \in Scanner |-> 0]
  /\ steady = [s \in Scanner |-> {}]
  /\ failures = {}
  /\ late = {}

-----------------------------------------------------------------------------
(* scan_badusb *)

\* What the baseline on disk says of a settled device.
TrustedOnDisk(d) == Vouched(Parsed(baseline.entries), d)

\* Connected, settled, and vouched for by the file.
SteadyNow == {p \in Connected : /\ port[p].auth /\ ~IsEnumerating(p)
                                /\ TrustedOnDisk(port[p].dev)}

\* No longer steady for any scan.
Disturb(p) == steady' = [s \in Scanner |-> steady[s] \ {p}]

\* file_existed
StartScan(s) ==
  /\ s \in Around.active
  /\ pc[s] = "idle"
  /\ Remember(s, [mem[s] EXCEPT !.existed = baseline.state # "absent"])
  /\ steady' = [steady EXCEPT ![s] = SteadyNow]
  /\ Goto(s, "stamp")
  /\ UNCHANGED <<port, files, outside, lock, stampOk, kept, readAge, failures>>

\* loaded_stamp, taken after the file was found
TakeStamp(s) ==
  /\ pc[s] = "stamp"
  /\ stampOk' = [stampOk EXCEPT ![s] = TRUE]
  /\ Goto(s, "load")
  /\ UNCHANGED <<port, files, outside, lock, mem, kept, readAge, steady, failures>>

\* A file that exists and does not load is a corrupt baseline, not an empty one.
LoadBaseline(s) ==
  /\ pc[s] = "load"
  /\ LET m == mem[s] IN
       Remember(s, [m EXCEPT
         !.corrupt = m.existed /\ baseline.state # "readable",
         !.store = IF m.existed THEN Loaded ELSE {}])
  /\ Goto(s, "list")
  /\ UNCHANGED <<port, files, outside, lock, scanVars, failures>>

ListDevices(s) ==
  /\ pc[s] = "list"
  /\ Remember(s, [mem[s] EXCEPT !.listed = ListedNow, !.todo = Connected])
  /\ Goto(s, "migrate")
  /\ UNCHANGED <<port, files, outside, lock, scanVars, failures>>

\* The legacy entries are upgraded from every device that has settled by now.
SettledOf(listed) == {l.fp : l \in {k \in listed : ~IsEnumerating(k.port)}}

MigrateLegacy(s) ==
  /\ pc[s] = "migrate"
  /\ LET m == mem[s]
         settled == SettledOf(m.listed)
     IN  IF m.existed /\ ~m.corrupt
           THEN Remember(s, [m EXCEPT !.store = Upgrade(m.store, settled),
                                      !.changed = UpgradeChanges(m.store, settled)])
           ELSE UNCHANGED mem
  /\ Loop(s, mem[s].todo, "judge", "ready")
  /\ UNCHANGED <<port, files, outside, lock, scanVars, failures>>

\* A device that is neither blocked nor settled is left for a later pass.
SkipEnumerating(s) ==
  /\ pc[s] = "judge"
  /\ \E p \in mem[s].todo :
       /\ IsNext(p, mem[s].todo)
       /\ ~IsDeauthorized(p) /\ IsEnumerating(p)
       /\ Remember(s, [mem[s] EXCEPT !.todo = @ \ {p}, !.pending = TRUE])
       /\ Loop(s, mem[s].todo \ {p}, "judge", "ready")
  /\ UNCHANGED <<port, files, outside, lock, scanVars, failures>>

IsDeauthTarget(p, fp, blocked) == ~blocked /\ p \notin RootPort /\ ~IsHub(fp)

\* Mutant: nothing is trusted while the baseline cannot be read.
IsTrustedUnverified(corrupt, S, fp) == Verdict(S, fp) = "Trusted"

\* baseline_verdict: a corrupt baseline judges nothing.
IsTrusted(corrupt, S, fp) == corrupt \/ Verdict(S, fp) = "Trusted"

\* Mutant: what a pass sees is trusted on every pass, not on the first one.
LearntAlways(m, fp) == Trust(m.store, fp)

\* Trust on first use.
Learnt(m, fp) == IF m.existed THEN m.store ELSE Trust(m.store, fp)

JudgeDevice(s) ==
  /\ pc[s] = "judge"
  /\ \E l \in mem[s].listed :
       LET m == mem[s]
           p == l.port
           S == Learnt(m, l.fp)
           target == /\ ~IsTrusted(m.corrupt, S, l.fp)
                     /\ IsDeauthTarget(p, l.fp, IsDeauthorized(p))
       IN  /\ IsNext(p, m.todo)
           /\ IsDeauthorized(p) \/ ~IsEnumerating(p)
           /\ Remember(s, [m EXCEPT
                !.store = S,
                !.todo = @ \ {p},
                !.targets = IF target
                              THEN @ \cup {[port |-> p, model |-> l.fp.model]}
                              ELSE @])
           /\ Loop(s, m.todo \ {p}, "judge", "ready")
  /\ UNCHANGED <<port, files, outside, lock, scanVars, failures>>

\* Mutant: a first baseline does not wait for devices that are enumerating.
WantsSaveEarly(m) ==
  \/ m.changed /\ m.existed
  \/ /\ ~m.existed /\ ~m.corrupt
     /\ \A p \in Ports(m.listed) : ~IsDeauthorized(p)

\* A first baseline waits until nothing is enumerating and nothing is blocked.
WantsSave(m) ==
  \/ m.changed /\ m.existed
  \/ /\ ~m.existed /\ ~m.corrupt /\ ~m.pending
     /\ \A p \in Ports(m.listed) : ~IsDeauthorized(p)

\* The second look at what is blocked.
FirstRunReady(s) ==
  /\ pc[s] = "ready"
  /\ Remember(s, [mem[s] EXCEPT !.wantsSave = WantsSave(mem[s])])
  /\ Goto(s, "prune")
  /\ UNCHANGED <<port, files, outside, lock, scanVars, failures>>

\* load_deauth_declined without the lock: read, and write back what is pruned.
Prune(s) ==
  /\ pc[s] = "prune"
  /\ LET fresh == Fresh(declined, Ports(mem[s].listed)) IN
       IF fresh = declined
         THEN /\ Goto(s, "lock")
              /\ UNCHANGED kept
         ELSE /\ Goto(s, "savePruned")
              /\ kept' = [kept EXCEPT ![s] = fresh]
  /\ UNCHANGED <<port, files, outside, lock, mem, stampOk, readAge, steady, failures>>

\* What was recorded since the file was read is lost.
SavePruned(s) ==
  /\ pc[s] = "savePruned"
  /\ declined' = kept[s]
  /\ failures' = failures \ (declined \ kept[s])
  /\ kept' = [kept EXCEPT ![s] = {}]
  /\ Goto(s, "lock")
  /\ UNCHANGED <<port, baseline, outside, lock, mem, stampOk, readAge, steady>>

-----------------------------------------------------------------------------
WantsBlock(s) == armor /\ mem[s].targets # {}

\* What a scan still needs once it is done with the baseline.
BlockMemory(m) == [NoMemory EXCEPT !.listed = m.listed, !.targets = m.targets]

\* Nothing to save or block, or somebody else holds the lock: neither is done.
SkipLock(s) ==
  /\ pc[s] = "lock"
  /\ (mem[s].wantsSave \/ WantsBlock(s)) => lock # Nobody
  /\ Forget(s)
  /\ Goto(s, "report")
  /\ UNCHANGED <<port, files, outside, lock, scanVars, failures>>

\* Mutant: the lock alone decides, not the stamp.
MaySaveAnyway(s) == mem[s].wantsSave

\* May this scan, holding the lock, overwrite the baseline?
MaySave(s) == mem[s].wantsSave /\ stampOk[s]

\* The save may fail; the scan goes on as if it had not.
TakeLock(s) ==
  /\ pc[s] = "lock"
  /\ mem[s].wantsSave \/ WantsBlock(s)
  /\ lock = Nobody
  /\ lock' = s
  /\ \/ MaySave(s) /\ SaveBaseline(mem[s].store)
     \/ UNCHANGED <<baseline, stampOk, steady>>
  /\ IF WantsBlock(s)
       THEN Remember(s, BlockMemory(mem[s])) /\ Goto(s, "readDeclined")
       ELSE Forget(s) /\ Goto(s, "report")
  /\ UNCHANGED <<port, declined, outside, kept, readAge, failures>>

\* The clock and the failed blocks, read again under the lock.
ReadDeclined(s) ==
  /\ pc[s] = "readDeclined"
  /\ LET fresh == Fresh(declined, Ports(mem[s].listed)) IN
       /\ kept' = [kept EXCEPT ![s] = fresh]
       /\ Goto(s, IF fresh = declined THEN "block" ELSE "saveFresh")
  /\ readAge' = [readAge EXCEPT ![s] = 0]
  /\ UNCHANGED <<port, files, outside, lock, mem, stampOk, steady, failures>>

\* What failed since this scan listed the devices, on a port it did not list, is lost.
SaveFresh(s) ==
  /\ pc[s] = "saveFresh"
  /\ declined' = kept[s]
  /\ failures' = failures \ (declined \ kept[s])
  /\ Goto(s, "block")
  /\ UNCHANGED <<port, baseline, outside, lock, mem, scanVars>>

\* Mutant: every pass asks again.
PassedOverBlocked(s, t) == IsDeauthorized(t.port)

\* A recent failure, or a device that another scan has blocked, is passed over.
PassedOver(s, t) ==
  \/ \E f \in kept[s] : f.port = t.port /\ f.model = t.model
  \/ IsDeauthorized(t.port)

NextTarget(s, t) == t \in mem[s].targets /\ IsNext(t.port, Ports(mem[s].targets))

BlockNext(s) ==
  /\ pc[s] = "block"
  /\ \E t \in mem[s].targets :
       /\ NextTarget(s, t)
       /\ IF PassedOver(s, t)
            THEN /\ Remember(s, [mem[s] EXCEPT !.targets = @ \ {t}])
                 /\ UNCHANGED pc
            ELSE /\ Goto(s, "deauth")
                 /\ UNCHANGED mem
  /\ UNCHANGED <<port, files, outside, lock, scanVars, failures>>

\* Mutant: the class of what is on the port is not read again.
IsUsbHubByName(p) == p \in RootPort

\* is_usb_hub: by its name, or by the class of what is on the port now.
IsUsbHub(p) == p \in RootPort \/ (p \in Connected /\ IsHub(port[p].dev))

\* kernel_deauth_usb refuses hubs, as it begins and again in the helper; the last
\* such look is the one that counts.
CheckHub(s) ==
  /\ pc[s] = "deauth"
  /\ \E t \in mem[s].targets : NextTarget(s, t) /\ ~IsUsbHub(t.port)
  /\ Goto(s, "write")
  /\ UNCHANGED <<port, files, outside, lock, mem, scanVars, failures>>

\* "0" is written to whatever is on the port by then, at once or, by the tool
\* that helpers replaced, after its dialog.
Deauthorize(s) ==
  /\ pc[s] = "write"
  /\ \E t \in mem[s].targets :
       LET p == t.port IN
         /\ NextTarget(s, t)
         /\ p \in Connected
         /\ port' = [port EXCEPT ![p].auth = FALSE, ![p].ifs = NoIfs]
         /\ Disturb(p)
         /\ Remember(s, [mem[s] EXCEPT !.targets = @ \ {t}])
  /\ Goto(s, "block")
  /\ UNCHANGED <<files, outside, lock, stampOk, kept, readAge, failures>>

\* A hub, cancelled, timed out, refused or gone: recorded with the time of the pass.
DeauthFails(s) ==
  /\ pc[s] \in {"deauth", "write"}
  /\ \E t \in mem[s].targets :
       LET f == [port |-> t.port, model |-> t.model, age |-> readAge[s]] IN
         /\ NextTarget(s, t)
         /\ IF pc[s] = "deauth" THEN IsUsbHub(t.port)
                               ELSE Around.fails \/ t.port \notin Connected
         /\ kept' = [kept EXCEPT ![s] = @ \cup {f}]
         /\ failures' = failures \cup (IF f.age < Retry THEN {f} ELSE {})
         /\ Remember(s, [mem[s] EXCEPT !.targets = @ \ {t}, !.failed = TRUE])
  /\ Goto(s, "block")
  /\ UNCHANGED <<port, files, outside, lock, stampOk, readAge, steady>>

EndBlocks(s) ==
  /\ pc[s] = "block"
  /\ mem[s].targets = {}
  /\ declined' = IF mem[s].failed THEN kept[s] ELSE declined
  /\ kept' = [kept EXCEPT ![s] = {}]
  /\ readAge' = [readAge EXCEPT ![s] = 0]
  /\ Goto(s, "report")
  /\ UNCHANGED <<port, baseline, outside, lock, mem, stampOk, steady, failures>>

\* The report is made, then the lock dropped.
EndScan(s) ==
  /\ pc[s] = "report"
  /\ lock' = IF lock = s THEN Nobody ELSE lock
  /\ stampOk' = [stampOk EXCEPT ![s] = FALSE]
  /\ steady' = [steady EXCEPT ![s] = {}]
  /\ Forget(s)
  /\ Goto(s, "idle")
  /\ UNCHANGED <<port, files, outside, kept, readAge, failures>>

-----------------------------------------------------------------------------
(* trust_all_usb *)

StartTrust(t) ==
  /\ t \in Around.active
  /\ pc[t] = "idle"
  /\ Goto(t, "wait")
  /\ UNCHANGED <<port, files, outside, lock, mem, scanVars, failures>>

\* Mutant: "Trust Devices" goes on without the lock.
LockForTrustAnyway(t) ==
  /\ pc[t] = "wait"
  /\ lock' = t
  /\ Goto(t, "find")
  /\ UNCHANGED <<port, files, outside, mem, scanVars, failures>>

LockForTrust(t) ==
  /\ pc[t] = "wait"
  /\ lock = Nobody
  /\ lock' = t
  /\ Goto(t, "find")
  /\ UNCHANGED <<port, files, outside, mem, scanVars, failures>>

FindBlocked(t) ==
  /\ pc[t] = "find"
  /\ LET blocked == {p \in Port : IsDeauthorized(p)} IN
       /\ Remember(t, [mem[t] EXCEPT !.todo = blocked])
       /\ Loop(t, blocked, "reauth", "listTrust")
  /\ UNCHANGED <<port, files, outside, lock, scanVars, failures>>

\* kernel_reauth_usb, which may be cancelled or find the device gone
ReauthorizeNext(t) ==
  /\ pc[t] = "reauth"
  /\ \E p \in mem[t].todo :
       /\ IsNext(p, mem[t].todo)
       /\ \/ /\ p \in Connected
             /\ port' = [port EXCEPT ![p].auth = TRUE]
          \/ UNCHANGED port
       /\ Remember(t, [mem[t] EXCEPT !.todo = @ \ {p}])
       /\ Loop(t, mem[t].todo \ {p}, "reauth", "listTrust")
  /\ UNCHANGED <<files, outside, lock, scanVars, failures>>

\* The wait for restored devices ends when they have settled or after 5 s, so the
\* list may be taken at any moment.
ListForTrust(t) ==
  /\ pc[t] = "listTrust"
  /\ Remember(t, [mem[t] EXCEPT !.listed = ListedNow])
  /\ Goto(t, "loadTrust")
  /\ UNCHANGED <<port, files, outside, lock, scanVars, failures>>

LoadForTrust(t) ==
  /\ pc[t] = "loadTrust"
  /\ Remember(t, [mem[t] EXCEPT !.store = Loaded])
  /\ Goto(t, "observe")
  /\ UNCHANGED <<port, files, outside, lock, scanVars, failures>>

\* The state of every listed device is read, and the merge starts by upgrading
\* the legacy entries; devices still enumerating, blocked ones apart, are skipped.
Observe(t) ==
  /\ pc[t] = "observe"
  /\ LET m == mem[t]
         merged == {p \in Ports(m.listed) : IsDeauthorized(p) \/ ~IsEnumerating(p)}
     IN  /\ Remember(t, [m EXCEPT !.store = Upgrade(m.store, SettledOf(m.listed)),
                                  !.todo = merged])
         /\ Loop(t, merged, "merge", "save")
  /\ UNCHANGED <<port, files, outside, lock, scanVars, failures>>

MergeNext(t) ==
  /\ pc[t] = "merge"
  /\ \E l \in mem[t].listed :
       /\ IsNext(l.port, mem[t].todo)
       /\ Remember(t, [mem[t] EXCEPT !.store = Trust(@, l.fp),
                                     !.todo = @ \ {l.port}])
       /\ Loop(t, mem[t].todo \ {l.port}, "merge", "save")
  /\ UNCHANGED <<port, files, outside, lock, scanVars, failures>>

SaveTrust(t) ==
  /\ pc[t] = "save"
  /\ SaveBaseline(mem[t].store)
  /\ Forget(t)
  /\ Goto(t, "clear")
  /\ UNCHANGED <<port, declined, outside, lock, kept, readAge, failures>>

SaveTrustFails(t) ==
  /\ pc[t] = "save"
  /\ lock' = Nobody
  /\ Forget(t)
  /\ Goto(t, "idle")
  /\ UNCHANGED <<port, files, outside, scanVars, failures>>

\* Failed blocks are forgotten, and the lock dropped.
ClearDeclined(t) ==
  /\ pc[t] = "clear"
  /\ declined' = {}
  /\ failures' = {}
  /\ lock' = Nobody
  /\ Goto(t, "idle")
  /\ UNCHANGED <<port, baseline, outside, mem, scanVars>>

-----------------------------------------------------------------------------
(* The kernel, the user and the clock *)

\* The ports that scans are about to write to, what is there having been looked at.
Aimed == {p \in Port : \E s \in Scanner : /\ pc[s] = "write"
                                         /\ \E t \in mem[s].targets : NextTarget(s, t) /\ t.port = p}

Plug(p, d) ==
  /\ <<p, d>> \in Around.plugs
  /\ p \notin Connected
  /\ port' = [port EXCEPT ![p] = [Empty EXCEPT !.dev = d]]
  /\ late' = late \cup ({p} \cap Aimed)
  /\ UNCHANGED <<files, armor, setting, lock, pc, mem, scanVars, failures>>

Unplug(p) ==
  /\ \E d \in Device : <<p, d>> \in Around.plugs
  /\ p \in Connected
  /\ port' = [port EXCEPT ![p] = Empty]
  /\ Disturb(p)
  /\ failures' = {f \in failures : f.port # p}
  /\ late' = late \ {p}
  /\ UNCHANGED <<files, armor, setting, lock, pc, mem, stampOk, kept, readAge>>

\* An authorized device gets its configuration, then its interfaces one by one.
Enumerate(p) ==
  /\ p \in Connected /\ port[p].auth
  /\ \/ /\ port[p].ifs = NoIfs
        /\ port' = [port EXCEPT ![p].ifs = {}]
     \/ /\ port[p].ifs # NoIfs
        /\ \E i \in port[p].dev.ifs \ port[p].ifs :
             port' = [port EXCEPT ![p].ifs = @ \cup {i}]
  /\ UNCHANGED <<files, outside, lock, pc, mem, scanVars, failures>>

ToggleArmor ==
  /\ Around.toggles
  /\ armor' = ~armor
  /\ UNCHANGED <<port, files, setting, late, lock, pc, mem, scanVars, failures>>

Older(n) == IF n < Retry THEN n + 1 ELSE n

Aged(F) == {[f EXCEPT !.age = Older(f.age)] : f \in F}

Tick ==
  /\ Around.clock
  /\ declined' = Aged(declined)
  /\ kept' = [s \in Scanner |-> Aged(kept[s])]
  /\ readAge' = [s \in Scanner |-> IF pc[s] \in {"saveFresh", "block", "deauth", "write"}
                                     THEN Older(readAge[s]) ELSE readAge[s]]
  /\ failures' = {f \in Aged(failures) : f.age < Retry}
  /\ UNCHANGED <<port, baseline, outside, lock, pc, mem, stampOk, steady>>

ScanStep(s) ==
  \/ StartScan(s) \/ TakeStamp(s) \/ LoadBaseline(s) \/ ListDevices(s)
  \/ MigrateLegacy(s) \/ SkipEnumerating(s) \/ JudgeDevice(s)
  \/ FirstRunReady(s) \/ Prune(s) \/ SavePruned(s) \/ SkipLock(s) \/ TakeLock(s)
  \/ ReadDeclined(s) \/ SaveFresh(s) \/ BlockNext(s)
  \/ CheckHub(s) \/ Deauthorize(s) \/ DeauthFails(s) \/ EndBlocks(s) \/ EndScan(s)

TrustStep(t) ==
  \/ LockForTrust(t) \/ FindBlocked(t) \/ ReauthorizeNext(t)
  \/ ListForTrust(t) \/ LoadForTrust(t) \/ Observe(t) \/ MergeNext(t)
  \/ SaveTrust(t) \/ SaveTrustFails(t) \/ ClearDeclined(t)

Environment ==
  \/ \E p \in Port, d \in Device : Plug(p, d)
  \/ \E p \in Port : Unplug(p) \/ Enumerate(p)
  \/ ToggleArmor
  \/ Tick

Next ==
  \/ \E s \in Scanner : ScanStep(s)
  \/ \E t \in Truster : StartTrust(t) \/ TrustStep(t)
  \/ Environment

Spec == Init /\ [][Next]_vars

\* Threads are scheduled, the clock ticks, the kernel finishes enumerating.  The
\* helper that blocks a device may fail, but not for ever.
Fairness ==
  /\ \A s \in Scanner : WF_vars(ScanStep(s)) /\ SF_vars(Deauthorize(s))
  /\ \A t \in Truster : WF_vars(TrustStep(t))
  /\ \A p \in Port : WF_vars(Enumerate(p))
  /\ WF_vars(Tick)

FairSpec == Spec /\ Fairness

-----------------------------------------------------------------------------
(* Type invariant *)

ScanLabels == {"idle", "stamp", "load", "list", "migrate", "judge", "ready", "prune",
               "savePruned", "lock", "readDeclined", "saveFresh", "block",
               "deauth", "write", "report"}

TrustLabels == {"idle", "wait", "find", "reauth", "listTrust", "loadTrust",
                "observe", "merge", "save", "clear"}

ControlTypeOK ==
  /\ pc \in [Proc -> ScanLabels \cup TrustLabels]
  /\ \A s \in Scanner : pc[s] \in ScanLabels
  /\ \A t \in Truster : pc[t] \in TrustLabels
  /\ mem \in [Proc -> Memory]

SharedTypeOK ==
  /\ port \in [Port -> PortState]
  /\ baseline \in Baseline
  /\ declined \in SUBSET Failure
  /\ armor \in BOOLEAN
  /\ lock \in Proc \cup {Nobody}
  /\ failures \in SUBSET Failure
  /\ late \in SUBSET Port

TypeOK ==
  /\ ControlTypeOK
  /\ SharedTypeOK
  /\ stampOk \in [Scanner -> BOOLEAN]
  /\ kept \in [Scanner -> SUBSET Failure]
  /\ readAge \in [Scanner -> 0..Retry]
  /\ steady \in [Scanner -> SUBSET Port]

-----------------------------------------------------------------------------
(* Properties *)

Blocks(p) ==
  /\ p \in Connected /\ port[p].auth
  /\ port'[p].dev = port[p].dev /\ ~port'[p].auth

\* The labels at which a process relies on the lock: blocking devices, and
\* everything "Trust Devices" does.
NeedsLock(x) == pc[x] \in {"readDeclined", "saveFresh", "block", "deauth", "write"} \cup
                          (TrustLabels \ {"idle", "wait"})

(***************************************************************************)
(* No scan raises a block while "Trust Devices" has given devices back and *)
(* not yet approved them, nor while another scan is at it: of all scans    *)
(* and trusts at most one is between taking and dropping the lock.         *)
(***************************************************************************)
ArmorLockExcludes ==
  \A x, y \in Proc : NeedsLock(x) /\ NeedsLock(y) => x = y

\* The entries of devices approved with their interfaces.
Approved(S) == {e \in S : KnownIfs(e) # {}}

\* Those that a step drops from the file.
Dropped == Approved(baseline.entries) \ baseline'.entries

(***************************************************************************)
(* The baseline never loses a device approved with its interfaces, however *)
(* many scans and trusts load it and save it around one another, except to *)
(* a scan that found no file and takes its run for the first one.          *)
(***************************************************************************)
FullEntriesKept ==
  [][Dropped # {} =>
       \E s \in Scanner : lock # s /\ lock' = s /\ ~mem[s].existed]_vars

\* Scans that found no file, before they take the stamp, and after it while nobody has
\* saved a file since.
Newcomers == {s \in Scanner : pc[s] = "stamp" /\ ~mem[s].existed}

Founders ==
  {s \in Scanner : /\ pc[s] \in {"load", "list", "migrate", "judge", "ready", "prune",
                                "savePruned", "lock"}
                   /\ ~mem[s].existed /\ stampOk[s]}

\* Runs of "Trust Devices" that have not saved yet.
Approvers == {t \in Truster : pc[t] \in TrustLabels \ {"idle", "clear"}}

Ledger == INSTANCE TrustLedger WITH
  Scan <- Scanner, User <- Truster, Thing <- Fingerprint,
  state <- baseline.state,
  approved <- Approved(baseline.entries),
  trusted <- {d \in Fingerprint : TrustedOnDisk(d)},
  newcomers <- Newcomers, founders <- Founders, approvers <- Approvers

(***************************************************************************)
(* The baseline file is a ledger: whatever scans and trusts load, migrate, *)
(* judge and save around one another, each write of it is an approval of   *)
(* the user's, a copy that neither loses nor widens trust, or the first    *)
(* one, by a scan after whose stamp nobody has written another.            *)
(***************************************************************************)
BaselineIsALedger == Ledger!Spec

(***************************************************************************)
(* "A scan can no longer overwrite the baseline that Trust Devices just    *)
(* saved", not even a scan that found no file.                             *)
(***************************************************************************)
NothingOverwritten == [][Dropped = {}]_vars

(***************************************************************************)
(* A scan that found a baseline never adds trust: no device is trusted     *)
(* after its save that the file did not vouch for just before.             *)
(***************************************************************************)
ScansNeverWidenTrust ==
  [][\A s \in Scanner :
       lock # s /\ lock' = s /\ mem[s].existed =>
         \A d \in Fingerprint :
           KnownIfs(d) # {} /\ TrustedOnDisk(d)' => TrustedOnDisk(d)]_vars

(***************************************************************************)
(* A corrupt baseline suspends Armor: while it is on disk no device is     *)
(* blocked, and only "Trust Devices" replaces it.                          *)
(***************************************************************************)
CorruptIsHarmless ==
  [][baseline.state = "corrupt" =>
       /\ \A p \in Port : ~Blocks(p)
       /\ baseline' # baseline => \E t \in Truster : pc[t] = "save"]_vars

(***************************************************************************)
(* Hubs are never cut off, whatever a scan believed about them when it     *)
(* judged: all the devices behind a hub would go with it.  Only one that   *)
(* takes a port between the last look at what is there and the write may   *)
(* be.                                                                     *)
(***************************************************************************)
HubsStayAuthorized ==
  \A p \in Connected :
    IsHub(port[p].dev) \/ p \in RootPort => port[p].auth \/ p \in late

(***************************************************************************)
(* "Root hubs and hubs are never blocked".                                 *)
(***************************************************************************)
HubsNeverCut ==
  \A p \in Connected : IsHub(port[p].dev) \/ p \in RootPort => port[p].auth

(***************************************************************************)
(* A first baseline leaves nobody out: when a scan that found no file      *)
(* writes one, it holds every model the scan listed, and vouches for every *)
(* device that had settled when it was listed.                             *)
(***************************************************************************)
FirstBaselineComplete ==
  [][\A s \in Scanner :
       lock # s /\ lock' = s /\ ~mem[s].existed /\ baseline' # baseline =>
         \A l \in mem[s].listed :
           /\ \E e \in baseline'.entries : SameModel(e, l.fp)
           /\ l.fp \in Device => Vouched(baseline'.entries, l.fp)]_vars

(***************************************************************************)
(* A scan never de-authorizes a device that has been settled, on its port  *)
(* and trusted by the file ever since the scan started: neither saves nor  *)
(* failed saves, migrations, trusts or other devices get it blocked.       *)
(***************************************************************************)
SteadyNeverBlocked ==
  [][\A s \in Scanner : pc[s] = "write" => \A p \in steady[s] : ~Blocks(p)]_vars

(***************************************************************************)
(* Armor never de-authorizes a device the baseline on disk trusts.         *)
(***************************************************************************)
TrustedNeverBlocked ==
  [][\A p \in Port : Blocks(p) => ~TrustedOnDisk(port[p].dev)]_vars

(***************************************************************************)
(* A block that failed is not tried again inside the retry window, counted *)
(* from the clock reading of the pass that failed, unless the device was   *)
(* unplugged, the user trusted devices, or a prune lost the failure.       *)
(***************************************************************************)
RetryWindow ==
  \A s \in Scanner : pc[s] \in {"deauth", "write"} =>
    \A t \in mem[s].targets, f \in failures :
      NextTarget(s, t) => ~(f.port = t.port /\ f.model = t.model)

(***************************************************************************)
(* Pruning the failures keeps those of connected devices inside the retry  *)
(* window.                                                                 *)
(***************************************************************************)
PruningKeepsFresh ==
  [][\A s \in Scanner : SavePruned(s) =>
       Fresh(declined, Connected) \subseteq declined']_vars

(***************************************************************************)
(* A block that fails is held back for the retry window from then on.      *)
(***************************************************************************)
FailureHeldBack ==
  [][\A s \in Scanner : DeauthFails(s) => readAge[s] < Retry]_vars

\* A settled device on a port Armor may block, that no entry vouches for.
Exposed(p) ==
  /\ armor /\ baseline.state = "readable"
  /\ p \in Connected \ RootPort /\ port[p].auth /\ port[p].ifs = port[p].dev.ifs
  /\ ~IsHub(port[p].dev) /\ ~TrustedOnDisk(port[p].dev)

(***************************************************************************)
(* With Armor on, no untrusted device that has settled stays authorized    *)
(* for ever: cancelled and failed blocks are tried again.                  *)
(***************************************************************************)
ExposureEnds == \A p \in Port : Exposed(p) ~> ~Exposed(p)

=============================================================================
