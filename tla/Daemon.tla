------------------------------- MODULE Daemon -------------------------------
(***************************************************************************)
(* The monitor of a session: src/src/engine/daemon.rs, and the socket it   *)
(* listens on, src/src/uevent.rs.                                          *)
(*                                                                         *)
(* The loop scans when a check is due or the report is, and sends what it  *)
(* found to a worker that builds the report and writes the cache.  Between *)
(* scans it waits for USB events, or without a socket compares the list of *)
(* bus ids every two seconds.  Time is counted in ticks; the loop itself   *)
(* takes none (it waits whenever nothing is due), a scan any number: it    *)
(* may hang on a password dialog.                                          *)
(*                                                                         *)
(* There is one USB port.                                                  *)
(***************************************************************************)
EXTENDS Naturals

CONSTANTS
  Settle, MaxDelay, Recheck, Interval, Nap,  \* DAEMON_USB_SETTLE, .._USB_MAX_DELAY,
             \* .._ENUMERATION_RECHECK, .._REPORT_INTERVAL, .._USB_POLL_FALLBACK
  MaxRechecks,   \* DAEMON_MAX_ENUMERATION_RECHECKS
  QueueSize,     \* messages the socket's buffer holds
  Device,
  Client,        \* panels and dashboards
  Provider,      \* DNS providers: "DoT", "DHCP", "Custom"
  None,
  Setting

ASSUME DaemonAssumption ==
  /\ Settle \in Nat /\ Recheck \in Nat /\ Nap \in Nat /\ QueueSize \in Nat /\ MaxRechecks \in Nat
  /\ MaxDelay \in Nat /\ Interval \in Nat
  /\ Settle <= MaxDelay /\ MaxDelay <= Interval /\ Recheck <= Interval
  /\ None \notin Client \cup Device \cup Nat \cup BOOLEAN
  /\ Provider = {"DoT", "DHCP", "Custom"}

\* What is on the port.
Bus == {None} \cup [dev : Device, settled : BOOLEAN]

ASSUME SettingAssumption ==
  \A s \in Setting :
    /\ s.events \in Nat /\ s.socket \in BOOLEAN
    /\ s.bus \subseteq Bus /\ s.devices \subseteq Device /\ s.dns \subseteq Provider
    /\ s.owner \subseteq Client \cup {None}

VARIABLES
  setting,       \* what there is, and events, the bound on them
  left,          \* bound: things that may still happen outside the program
  bus,           \* the port: None or [dev, settled]
  dns,           \* the provider in force
  cache,         \* report.json: None or [usb, dot]
  aged,          \* it is older than reportMaxAgeSec
  client,        \* see Panel
  owner,         \* the client whose daemon holds daemon.lock, or None
  loop,          \* the locals of run_daemon
  queue,         \* the socket: messages, one about USB among them, some lost
  queued,        \* the newest scan sent to the worker and not yet received
  work,          \* the report the worker builds: None or [usb, dot]
  waited         \* ticks since the bus last changed unread (history), or None

daemonVars == <<loop, queue, queued, work, waited>>
worldVars == <<setting, left, bus, dns>>

EmptyQueue == [size |-> 0, usb |-> FALSE, lost |-> FALSE]

\* report, check: next_report and usb_check_at, as ticks left; burst: ticks since
\* burst_start; seen: the bus as the scan in progress has read it; ids: the
\* signature; nap: what is left of a sleep.
FreshLoop(b) == [at |-> "loop", report |-> 0, check |-> None, burst |-> None, rechecks |-> 0,
                 seen |-> None, ids |-> (b # None), nap |-> None]

DaemonInit ==
  /\ setting \in Setting
  /\ left = setting.events
  /\ bus \in setting.bus /\ dns \in setting.dns
  /\ cache = None /\ aged = TRUE
  /\ owner \in setting.owner /\ loop = FreshLoop(bus) /\ queue = EmptyQueue
  /\ queued = None /\ work = None /\ waited = None

Happens == left > 0 /\ left' = left - 1

\* What the switch of the DNS leak guard should show.
DotEnabled == dns = "DoT"

\* check_dns_leak: off, too, if omarchy-dns fails or takes too long.
CheckDnsLeak(dot) ==
  \/ dot = DotEnabled /\ UNCHANGED left
  \/ ~dot /\ setting.faults /\ Happens

Running == owner # None
Least(a, b) == IF a < b THEN a ELSE b
Due == loop.check = 0 \/ loop.report = 0
Lost == queue.lost
Silent == queue.size = 0 /\ ~Lost

\* The lock is free: the client's daemon takes it and starts from nothing.
\* Held, the daemon just started exits.
DaemonStarts(c) ==
  IF Running THEN UNCHANGED <<owner, daemonVars>>
  ELSE /\ owner' = c /\ loop' = FreshLoop(bus) /\ queue' = EmptyQueue
       /\ queued' = None /\ work' = None /\ waited' = None

\* It exits, is killed, or dies with its client.
DaemonEnds ==
  /\ owner' = None /\ loop' = FreshLoop(None) /\ queue' = EmptyQueue
  /\ queued' = None /\ work' = None /\ waited' = None

-----------------------------------------------------------------------------
(***************************************************************************)
(* The loop.                                                               *)
(***************************************************************************)
BeginScan ==
  /\ Running /\ loop.at = "loop" /\ Due
  /\ loop' = [loop EXCEPT !.at = "scan", !.burst = None, !.seen = bus]
  /\ waited' = None
  /\ UNCHANGED <<worldVars, cache, aged, client, owner, queue, queued, work>>

Wait ==
  /\ Running /\ loop.at = "loop" /\ ~Due
  /\ loop' = [loop EXCEPT !.at = "wait",
       !.nap = IF setting.socket THEN None
               ELSE Least(Nap, IF loop.check = None THEN loop.report
                               ELSE Least(loop.check, loop.report))]
  /\ UNCHANGED <<worldVars, cache, aged, client, owner, queue, queued, work, waited>>

\* poll(2) has timed out.
WakeUp ==
  /\ Running /\ loop.at = "wait" /\ setting.socket /\ Silent /\ Due
  /\ loop' = [loop EXCEPT !.at = "loop"]
  /\ UNCHANGED <<worldVars, cache, aged, client, owner, queue, queued, work, waited>>

Enumerating(b) == b # None /\ ~b.settled

\* Mutant: a device that never settles is looked at again for ever.
EndScanForEver ==
  /\ Running /\ loop.at = "scan"
  /\ LET again == Enumerating(loop.seen) IN
     loop' = [loop EXCEPT !.at = "loop", !.report = IF setting.timed THEN Interval ELSE 0,
                          !.seen = None, !.check = IF again THEN Recheck ELSE None,
                          !.rechecks = IF again THEN @ + 1 ELSE 0]
  /\ queued' = [usb |-> loop.seen]
  /\ UNCHANGED <<worldVars, cache, aged, client, owner, queue, work, waited>>

\* A device still enumerating is looked at again, a bounded number of times.
EndScan ==
  /\ Running /\ loop.at = "scan"
  /\ LET again == Enumerating(loop.seen) /\ loop.rechecks < MaxRechecks IN
     loop' = [loop EXCEPT !.at = "loop", !.report = IF setting.timed THEN Interval ELSE 0, !.seen = None,
                          !.check = IF again THEN Recheck ELSE None,
                          !.rechecks = IF again THEN @ + 1 ELSE 0]
  /\ queued' = [usb |-> loop.seen]
  /\ UNCHANGED <<worldVars, cache, aged, client, owner, queue, work, waited>>

\* Mutant: every event of a burst postpones the check by the whole settle time.
NoticedUncapped(l) ==
  [l EXCEPT !.burst = IF @ = None THEN 0 ELSE @, !.check = Settle, !.rechecks = 0]

\* usb_changed: the check is settled for, but no later than MaxDelay after the
\* first event of the burst.
Noticed(l) ==
  LET first == IF l.burst = None THEN 0 ELSE l.burst IN
  [l EXCEPT !.burst = first, !.check = Least(Settle, MaxDelay - first), !.rechecks = 0]

\* wait_lossy: an overrun is told first, by an error, and the messages that had
\* room are left for the next call.
Receive ==
  /\ Running /\ loop.at = "wait" /\ setting.socket /\ ~Silent
  /\ queue' = IF Lost THEN [queue EXCEPT !.lost = FALSE] ELSE EmptyQueue
  /\ loop' = LET l == [loop EXCEPT !.at = "loop"] IN
             IF Lost \/ queue.usb THEN Noticed(l) ELSE l
  /\ UNCHANGED <<worldVars, cache, aged, client, owner, queued, work, waited>>

\* The fallback: bus ids tell that a port is taken, not by what.
Compare ==
  /\ Running /\ loop.at = "wait" /\ ~setting.socket /\ loop.nap = 0
  /\ LET ids == bus # None
         l == [loop EXCEPT !.at = "loop", !.ids = ids, !.nap = None] IN
     loop' = IF ids # loop.ids THEN Noticed(l) ELSE l
  /\ UNCHANGED <<worldVars, cache, aged, client, owner, queue, queued, work, waited>>

\* The worker takes the newest of what was sent, builds the report and writes
\* the cache; the modules are read one after another.
WorkerTake ==
  /\ work = None /\ queued # None
  /\ work' = [usb |-> queued.usb, dot |-> None] /\ queued' = None
  /\ UNCHANGED <<worldVars, cache, aged, client, owner, loop, queue, waited>>

WorkerRead ==
  /\ work # None /\ work.dot = None
  /\ \E dot \in BOOLEAN : CheckDnsLeak(dot) /\ work' = [work EXCEPT !.dot = dot]
  /\ UNCHANGED <<setting, bus, dns, cache, aged, client, owner, loop, queue, queued, waited>>

-----------------------------------------------------------------------------
(***************************************************************************)
(* Time and the bus.                                                       *)
(***************************************************************************)
Earlier(t) == IF t = None \/ t = 0 THEN t ELSE t - 1
Later(t, bound) == IF t = None THEN t ELSE Least(t + 1, bound)

\* The loop wakes up at once; what happens while it scans waits for its end.
Tick ==
  /\ Running
  /\ \/ loop.at = "scan"
     \/ loop.at = "wait" /\ IF setting.socket THEN Silent /\ ~Due ELSE loop.nap > 0
  /\ loop' = [loop EXCEPT !.report = Earlier(@), !.check = Earlier(@), !.nap = Earlier(@),
                          !.burst = Later(@, MaxDelay)]
  /\ waited' = IF loop.at = "scan" THEN waited ELSE Later(waited, Interval + 1)
  /\ UNCHANGED <<worldVars, cache, aged, client, owner, queue, queued, work>>

\* A message of the kernel's, about USB or not.
Message(usb) ==
  IF ~Running \/ ~setting.socket THEN queue
  ELSE IF queue.size < QueueSize
  THEN [queue EXCEPT !.size = @ + 1, !.usb = @ \/ usb]
  ELSE [queue EXCEPT !.lost = TRUE]

BusChanges(b) ==
  /\ bus' = b
  /\ queue' = Message(TRUE)
  /\ waited' = IF Running /\ waited = None THEN 0 ELSE waited
  /\ UNCHANGED <<setting, dns, cache, aged, client, owner, loop, queued, work>>

Plug(d) ==
  /\ setting.usb /\ bus = None /\ Happens
  /\ BusChanges([dev |-> d, settled |-> FALSE])

\* The kernel reads the descriptors and binds the interfaces.
Configure ==
  /\ setting.usb /\ Enumerating(bus) /\ UNCHANGED left
  /\ BusChanges([bus EXCEPT !.settled = TRUE])

Unplug ==
  /\ setting.usb /\ bus # None /\ Happens
  /\ BusChanges(None)

Noise ==
  /\ setting.usb /\ setting.socket /\ Running /\ Happens
  /\ queue' = Message(FALSE)
  /\ UNCHANGED <<setting, bus, dns, cache, aged, client, owner, loop, queued, work, waited>>

DaemonNext ==
  \/ BeginScan \/ EndScan \/ Wait \/ WakeUp \/ Receive \/ Compare \/ WorkerTake \/ WorkerRead \/ Tick
  \/ (\E d \in setting.devices : Plug(d)) \/ Configure \/ Unplug \/ Noise
=============================================================================
