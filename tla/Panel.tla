------------------------------- MODULE Panel -------------------------------
(***************************************************************************)
(* What the user sees: the panel and the dashboard (src/Panel.qml and      *)
(* src/qml/MainWindow.qml), the reports they ask for with --json           *)
(* (src/src/main.rs), and the cache they share with the daemon.            *)
(*                                                                         *)
(* A client shows the cached report.  If that is missing or old it starts  *)
(* a daemon of its own and scans meanwhile.  A switch flips as soon as it  *)
(* is clicked; a report that arrives before the engine has answered leaves *)
(* it alone.                                                               *)
(***************************************************************************)
EXTENDS Daemon

vars == <<setting, left, bus, dns, cache, aged, client, owner, loop, queue, queued, work, waited>>

\* on, usb: what is shown; before: the snapshot of a toggle in flight; code: its
\* exit code; scan: the --json run; again: rescanPending; reload: onFileChanged
\* or the timer.
Closed == [open |-> FALSE, on |-> None, usb |-> None, before |-> None, code |-> None,
           scan |-> None, again |-> FALSE, reload |-> FALSE]

Opened == [Closed EXCEPT !.open = TRUE, !.reload = TRUE]

Init ==
  /\ DaemonInit
  /\ client = [c \in Client |-> IF c \in setting.opened THEN Opened ELSE Closed]

Open(c) == client[c].open
Toggling(r) == r.before # None

\* Mutant: a report is shown as it is.
AppliedAtOnce(r, report) == [r EXCEPT !.usb = report.usb, !.on = report.dot]

\* applyReport, withPendingToggles
Applied(r, report) ==
  [r EXCEPT !.usb = report.usb, !.on = IF Toggling(r) THEN @ ELSE report.dot]

NewScan == [at |-> "new", usb |-> None, dot |-> None]
ScanAt(c, label) == client[c].scan # None /\ client[c].scan.at = label

\* scanNow: a scan that runs is followed by another.
ScanNow(r) == IF r.scan # None THEN [r EXCEPT !.again = TRUE] ELSE [r EXCEPT !.scan = NewScan]

\* Whoever writes the cache, every client is told.
Published(report) == cache' = report /\ aged' = FALSE
Told(f) == [c \in Client |-> IF f[c].open THEN [f[c] EXCEPT !.reload = TRUE] ELSE f[c]]

-----------------------------------------------------------------------------
OpenClient(c) ==
  /\ c \in setting.clients /\ ~Open(c) /\ Happens
  /\ client' = [client EXCEPT ![c] = Opened]
  /\ UNCHANGED <<setting, bus, dns, cache, aged, owner, daemonVars>>

\* Its daemon goes with it, and so do its other processes.
CloseClient(c) ==
  /\ Open(c) /\ Happens
  /\ client' = [client EXCEPT ![c] = Closed]
  /\ IF owner = c THEN DaemonEnds ELSE UNCHANGED <<owner, daemonVars>>
  /\ UNCHANGED <<setting, bus, dns, cache, aged>>

DaemonDies ==
  /\ Running /\ Happens
  /\ DaemonEnds
  /\ UNCHANGED <<setting, bus, dns, cache, aged, client>>

\* The 20 s timer.
Refresh(c) ==
  /\ Open(c) /\ ~client[c].reload
  /\ client' = [client EXCEPT ![c].reload = TRUE]
  /\ UNCHANGED <<worldVars, cache, aged, owner, daemonVars>>

\* Mutant: an old cache is scanned for, and no daemon started.
LoadNoDaemon(c) ==
  /\ Open(c) /\ client[c].reload
  /\ LET r == [client[c] EXCEPT !.reload = FALSE] IN
     client' = [client EXCEPT ![c] = IF cache = None \/ aged THEN ScanNow(r) ELSE Applied(r, cache)]
  /\ UNCHANGED <<worldVars, cache, aged, owner, daemonVars>>

\* onLoaded, onLoadFailed: a fresh report is applied, else cacheIsStale.
Load(c) ==
  /\ Open(c) /\ client[c].reload
  /\ LET r == [client[c] EXCEPT !.reload = FALSE] IN
     \/ /\ cache # None /\ ~aged
        /\ client' = [client EXCEPT ![c] = Applied(r, cache)]
        /\ UNCHANGED <<owner, daemonVars>>
     \/ /\ cache = None \/ aged
        /\ client' = [client EXCEPT ![c] = ScanNow(r)]
        /\ DaemonStarts(c)
  /\ UNCHANGED <<worldVars, cache, aged>>

-----------------------------------------------------------------------------
(***************************************************************************)
(* --json: the modules are read, the cache is written, the report printed. *)
(***************************************************************************)
ScanReads(c) ==
  /\ ScanAt(c, "new")
  /\ \E dot \in BOOLEAN :
       /\ CheckDnsLeak(dot)
       /\ client' = [client EXCEPT ![c].scan = [at |-> "read", usb |-> bus, dot |-> dot]]
  /\ UNCHANGED <<setting, bus, dns, cache, aged, owner, daemonVars>>

ScanSaves(c) ==
  /\ ScanAt(c, "read")
  /\ LET s == client[c].scan IN
     /\ Published([usb |-> s.usb, dot |-> s.dot])
     /\ client' = Told([client EXCEPT ![c].scan.at = "saved"])
  /\ UNCHANGED <<worldVars, owner, daemonVars>>

ScanEnds(c) ==
  /\ ScanAt(c, "saved")
  /\ LET r == Applied([client[c] EXCEPT !.scan = None], client[c].scan) IN
     client' = [client EXCEPT ![c] = IF r.again THEN ScanNow([r EXCEPT !.again = FALSE]) ELSE r]
  /\ UNCHANGED <<worldVars, cache, aged, owner, daemonVars>>

WorkerPublishes ==
  /\ work # None /\ work.dot # None
  /\ Published(work) /\ client' = Told(client)
  /\ work' = None
  /\ UNCHANGED <<worldVars, owner, loop, queue, queued, waited>>

\* Nothing has been published for a minute: no daemon, or a slow one.
CacheAges ==
  /\ cache # None /\ ~aged /\ aged' = TRUE
  /\ UNCHANGED <<worldVars, cache, client, owner, daemonVars>>

-----------------------------------------------------------------------------
(***************************************************************************)
(* The switch of the DNS leak guard.                                       *)
(***************************************************************************)

\* optimisticToggle
Toggle(c) ==
  /\ Open(c) /\ client[c].on # None /\ ~Toggling(client[c]) /\ Happens
  /\ client' = [client EXCEPT ![c].before = client[c].on, ![c].on = ~client[c].on]
  /\ UNCHANGED <<setting, bus, dns, cache, aged, owner, daemonVars>>

\* toggle_dns flips what is in force, whatever the switch showed, but never a
\* resolver the user chose.  omarchy-dns may fail, before or after it acted.
ToggleActs(c) ==
  /\ Open(c) /\ Toggling(client[c]) /\ client[c].code = None
  /\ LET flipped == IF dns = "DoT" THEN "DHCP" ELSE "DoT" IN
     \/ /\ dns # "Custom" /\ dns' = flipped
        /\ \E ok \in IF setting.faults THEN BOOLEAN ELSE {TRUE} :
             client' = [client EXCEPT ![c].code = IF ok THEN 0 ELSE 1]
     \/ /\ dns = "Custom" \/ setting.faults
        /\ client' = [client EXCEPT ![c].code = 1]
        /\ UNCHANGED dns
  /\ UNCHANGED <<setting, left, bus, cache, aged, owner, daemonVars>>

\* Mutant: the snapshot of a toggle is not dropped.
ToggleEndsKept(c) ==
  /\ Open(c) /\ client[c].code # None
  /\ LET r == client[c] IN
     client' = [client EXCEPT ![c] =
       ScanNow([r EXCEPT !.on = IF r.code = 0 THEN @ ELSE r.before, !.code = None])]
  /\ UNCHANGED <<worldVars, cache, aged, owner, daemonVars>>

\* finishToggle
ToggleEnds(c) ==
  /\ Open(c) /\ client[c].code # None
  /\ LET r == client[c] IN
     client' = [client EXCEPT ![c] =
       ScanNow([r EXCEPT !.on = IF r.code = 0 THEN @ ELSE r.before,
                         !.before = None, !.code = None])]
  /\ UNCHANGED <<worldVars, cache, aged, owner, daemonVars>>

\* The user runs omarchy dns.
SetDns(p) ==
  /\ setting.faults /\ p # dns /\ Happens
  /\ dns' = p
  /\ UNCHANGED <<setting, bus, cache, aged, client, owner, daemonVars>>

UserNext ==
  \/ \E c \in Client :
       \/ OpenClient(c) \/ CloseClient(c) \/ Refresh(c) \/ Load(c)
       \/ ScanReads(c) \/ ScanSaves(c) \/ ScanEnds(c)
       \/ Toggle(c) \/ ToggleActs(c) \/ ToggleEnds(c)
  \/ DaemonDies \/ CacheAges
  \/ \E p \in Provider : SetDns(p)

Next == DaemonNext \/ WorkerPublishes \/ (setting.ui /\ UserNext)

Spec == Init /\ [][Next]_vars

\* Processes run, time passes, timers fire and scans end.  Nothing is assumed
\* of the user, of a daemon's life, nor of the kernel.
Fairness ==
  /\ WF_vars(BeginScan \/ EndScan \/ Wait \/ WakeUp \/ Receive \/ Compare)
  /\ WF_vars(WorkerTake) /\ WF_vars(WorkerRead) /\ WF_vars(WorkerPublishes)
  /\ WF_vars(Tick) /\ WF_vars(~Running /\ CacheAges)
  /\ \A c \in Client :
       /\ WF_vars(Refresh(c)) /\ WF_vars(Load(c))
       /\ WF_vars(ScanReads(c)) /\ WF_vars(ScanSaves(c)) /\ WF_vars(ScanEnds(c))
       /\ WF_vars(ToggleActs(c)) /\ WF_vars(ToggleEnds(c))

FairSpec == Spec /\ Fairness

-----------------------------------------------------------------------------
Report == [usb : Bus, dot : BOOLEAN]
Timer == 0..Interval \cup {None}

Loop == [at : {"loop", "wait", "scan"}, report : Timer, check : Timer, nap : Timer,
         burst : 0..MaxDelay \cup {None}, rechecks : 0..MaxRechecks, seen : Bus, ids : BOOLEAN]

Queue == [size : 0..QueueSize, usb : BOOLEAN, lost : BOOLEAN]

Scan == [at : {"new", "read", "saved"}, usb : Bus, dot : BOOLEAN \cup {None}]

View == [open : BOOLEAN, on : BOOLEAN \cup {None}, usb : Bus, before : BOOLEAN \cup {None},
         code : {0, 1, None}, again : BOOLEAN, reload : BOOLEAN, scan : Scan \cup {None}]

TypeOK ==
  /\ setting \in Setting /\ left \in 0..setting.events
  /\ bus \in Bus /\ dns \in Provider
  /\ cache \in Report \cup {None} /\ aged \in BOOLEAN
  /\ owner \in Client \cup {None}
  /\ loop \in Loop
  /\ queue \in Queue
  /\ queued \in [usb : Bus] \cup {None}
  /\ work \in [usb : Bus, dot : BOOLEAN \cup {None}] \cup {None}
  /\ waited \in 0..(Interval + 1) \cup {None}
  /\ client \in [Client -> View]

\* A device that comes, goes or settles is read by a scan within the largest
\* delay (scans in progress apart), however many events follow it and whatever
\* the socket loses; without a socket, within the interval of the reports.
ReadInTime == waited # None => waited <= IF setting.socket THEN MaxDelay ELSE Interval

\* "Modules with a toggle in flight keep their optimistic state": no report
\* moves a switch between the click and the engine's answer.
PendingHolds ==
  [][\A c \in Client :
       Toggling(client[c]) /\ Toggling(client'[c]) => client'[c].on = client[c].on]_vars

\* Once nothing happens any more, a daemon that runs has reported the device
\* that is there, and every open client shows it, and its switch the provider
\* in force: through stale reports that overtake newer ones, scans asked for
\* while one runs, daemons that died, events lost.
ReportSettles ==
  <>[](/\ Running => cache # None /\ cache.usb = bus
       /\ \A c \in Client :
            Open(c) => client[c].on = DotEnabled /\ client[c].usb = bus)

\* Whoever owned the daemon may be closed, or the daemon die: as long as a
\* client is open there is a daemon again.
DaemonReturns == \A c \in Client : <>[]Open(c) => []<>Running

\* "A report built before a toggle finished must not flip its switch back":
\* with one client, and nothing else that sets the provider.
NotFlippedBack ==
  \A c \in Client :
    /\ Open(c) /\ client[c].on # None /\ ~Toggling(client[c])
    => client[c].on = DotEnabled
=============================================================================
