---------------------------- MODULE PanelProofs ----------------------------
(***************************************************************************)
(* Theorems of Panel, and of the Daemon it extends, for every setting,     *)
(* every set of clients, and every length of the timers and the socket.    *)
(*                                                                         *)
(* ReadInTime bounds a number no action bounds by itself: waited grows     *)
(* with every tick until a scan begins.  The inductive invariant says who  *)
(* answers for it.  WaitOK: a change nobody has read is in the socket, and *)
(* no tick comes before it is received, or its burst has begun no later;   *)
(* without a socket what is left of the interval shrinks as it grows.      *)
(* BurstOK: the check a burst has settled for comes within what is left of *)
(* the largest delay.  NapOK: the fallback never sleeps past a timer.      *)
(***************************************************************************)
EXTENDS Panel, TLAPS

\* A --json run that has read the modules has a report.
ScanOK ==
  \A c \in Client : client[c].scan # None /\ client[c].scan.at # "new" => client[c].scan.dot \in BOOLEAN

\* A check that is due answers the first message of its burst in time.
BurstOK ==
  /\ loop.report # None
  /\ queue.usb => queue.size # 0
  /\ loop.burst # None => /\ loop.at # "scan" /\ loop.check # None
                          /\ loop.check + loop.burst <= MaxDelay

\* What has waited is in the socket, or in the burst; or the report comes first.
WaitOK ==
  waited # None =>
    /\ loop.at = "scan" => waited = 0
    /\ setting.socket => IF loop.burst = None THEN waited = 0 /\ (queue.usb \/ queue.lost)
                         ELSE waited <= loop.burst
    /\ ~setting.socket => waited + loop.report <= Interval

NapOK ==
  loop.at = "wait" /\ ~setting.socket =>
    /\ loop.nap # None /\ loop.nap <= loop.report
    /\ loop.check # None => loop.nap <= loop.check

Timing == BurstOK /\ WaitOK /\ NapOK

IInv == TypeOK /\ ScanOK /\ Timing

-----------------------------------------------------------------------------
(***************************************************************************)
(* Types: timers, the loop, the socket, what a client shows.               *)
(***************************************************************************)
LEMMA NotNone ==
  /\ \A n \in Nat : n # None
  /\ \A b \in BOOLEAN : b # None
  BY DaemonAssumption

LEMMA SettingType ==
  ASSUME NEW s \in Setting
  PROVE  /\ s.events \in Nat /\ s.socket \in BOOLEAN
         /\ s.bus \subseteq Bus /\ s.devices \subseteq Device /\ s.dns \subseteq Provider
         /\ s.owner \subseteq Client \cup {None}
  BY SettingAssumption

LEMMA LeastType ==
  ASSUME NEW a \in Nat, NEW b \in Nat
  PROVE  /\ Least(a, b) \in Nat /\ Least(a, b) <= a /\ Least(a, b) <= b
         /\ Least(a, b) \in {a, b}
  BY DEF Least

LEMMA EarlierType ==
  ASSUME NEW t \in Timer
  PROVE  Earlier(t) \in Timer
  BY DaemonAssumption DEF Earlier, Timer

LEMMA LaterType ==
  ASSUME NEW bound \in Nat, NEW t \in 0..bound \cup {None}
  PROVE  Later(t, bound) \in 0..bound \cup {None}
  BY DaemonAssumption DEF Later, Least

LEMMA FreshType ==
  ASSUME NEW b
  PROVE  FreshLoop(b) \in Loop
  BY DaemonAssumption DEF FreshLoop, Loop, Timer, Bus

LEMMA EmptyType == EmptyQueue \in Queue
  BY DaemonAssumption DEF EmptyQueue, Queue

LEMMA NoticedType ==
  ASSUME NEW l \in Loop
  PROVE  Noticed(l) \in Loop
<1> DEFINE first == IF l.burst = None THEN 0 ELSE l.burst
<1>1. first \in 0..MaxDelay
  BY DaemonAssumption DEF Loop
<1>2. Least(Settle, MaxDelay - first) \in Timer
  BY <1>1, DaemonAssumption DEF Least, Timer
<1>3. Noticed(l) = [l EXCEPT !.burst = first, !.check = Least(Settle, MaxDelay - first),
                             !.rechecks = 0]
  BY DEF Noticed
<1>4. 0 \in 0..MaxRechecks
  BY DaemonAssumption
<1> HIDE DEF first
<1>5. QED
  BY <1>1, <1>2, <1>3, <1>4 DEF Loop

LEMMA MessageType ==
  ASSUME NEW usb \in BOOLEAN, queue \in Queue
  PROVE  Message(usb) \in Queue
<1>1. CASE ~Running \/ ~setting.socket
  BY <1>1 DEF Message
<1>2. CASE ~(~Running \/ ~setting.socket) /\ queue.size < QueueSize
  <2> DEFINE n == queue.size + 1
             u == queue.usb \/ usb
  <2>1. n \in 0..QueueSize
    BY <1>2, DaemonAssumption DEF Queue
  <2>2. u \in BOOLEAN
    BY DEF Queue
  <2>3. Message(usb) = [queue EXCEPT !.size = n, !.usb = u]
    BY <1>2 DEF Message
  <2> HIDE DEF n, u
  <2>4. QED
    BY <2>1, <2>2, <2>3, Zenon DEF Queue
<1>3. CASE ~(~Running \/ ~setting.socket) /\ ~(queue.size < QueueSize)
  <2>1. Message(usb) = [queue EXCEPT !.lost = TRUE]
    BY <1>3 DEF Message
  <2>2. QED
    BY <2>1, Zenon DEF Queue
<1>4. QED
  BY <1>1, <1>2, <1>3

-----------------------------------------------------------------------------
LEMMA ClosedType == Closed \in View /\ Opened \in View
  BY DEF Closed, Opened, View, Bus

LEMMA AppliedType ==
  ASSUME NEW r \in View, NEW rep, rep.usb \in Bus, rep.dot \in BOOLEAN
  PROVE  Applied(r, rep) \in View
  BY DEF Applied, View

LEMMA ScanNowType ==
  ASSUME NEW r \in View
  PROVE  ScanNow(r) \in View
<1>1. NewScan \in Scan
  BY DEF NewScan, Scan, Bus
<1>2. QED
  BY <1>1 DEF ScanNow, View

LEMMA ToldType ==
  ASSUME NEW f \in [Client -> View]
  PROVE  Told(f) \in [Client -> View]
  BY DEF Told, View

-----------------------------------------------------------------------------
(***************************************************************************)
(* Init, and the steps of the loop and the worker.                         *)
(***************************************************************************)
LEMMA InitHolds == Init => IInv
<1> SUFFICES ASSUME Init PROVE IInv
  OBVIOUS
<1>1. /\ setting.events \in Nat /\ bus \in Bus /\ dns \in Provider /\ owner \in Client \cup {None}
  BY SettingType DEF Init, DaemonInit
<1>2. /\ loop \in Loop /\ queue \in Queue
  BY FreshType, EmptyType DEF Init, DaemonInit
<1>3. client \in [Client -> View]
  BY ClosedType DEF Init
<1>4. left \in 0..setting.events
  BY <1>1 DEF Init, DaemonInit
<1>5. TypeOK
  BY <1>1, <1>2, <1>3, <1>4 DEF TypeOK, Init, DaemonInit
<1>6. ScanOK
  BY DEF ScanOK, Init, Closed, Opened
<1>7. Timing
  BY DaemonAssumption DEF Timing, BurstOK, WaitOK, NapOK, Init, DaemonInit, FreshLoop, EmptyQueue
<1>8. QED
  BY <1>5, <1>6, <1>7 DEF IInv

LEMMA DaemonType ==
  ASSUME TypeOK, UNCHANGED <<setting, left, bus, dns, cache, aged, client, owner, work>>,
         loop' \in Loop, queue' \in Queue, queued' \in [usb : Bus] \cup {None},
         waited' \in 0..(Interval + 1) \cup {None}
  PROVE  TypeOK'
  BY DEF TypeOK

LEMMA BeginScanKeeps ==
  ASSUME IInv, BeginScan
  PROVE  IInv'
<1>1. loop' \in Loop
  BY DEF BeginScan, IInv, TypeOK, Loop
<1>2. TypeOK'
  BY <1>1, DaemonType DEF BeginScan, IInv, TypeOK, worldVars
<1>3. ScanOK'
  BY DEF BeginScan, IInv, ScanOK
<1>4. Timing'
  BY DEF BeginScan, IInv, TypeOK, Loop, Timing, BurstOK, WaitOK, NapOK, worldVars
<1>5. QED
  BY <1>2, <1>3, <1>4 DEF IInv

LEMMA WaitKeeps ==
  ASSUME IInv, Wait
  PROVE  IInv'
<1> DEFINE n == Least(Nap, IF loop.check = None THEN loop.report
                           ELSE Least(loop.check, loop.report))
<1>1. /\ loop.report \in 0..Interval /\ (loop.check # None => loop.check \in 0..Interval)
  BY DEF IInv, TypeOK, Loop, Timer, Timing, BurstOK
<1>2. n \in 0..Interval /\ n <= loop.report /\ (loop.check # None => n <= loop.check)
  BY <1>1, DaemonAssumption DEF Least
<1>3. n \in Timer /\ None \in Timer /\ n # None
  BY <1>2, NotNone DEF Timer
<1> HIDE DEF n
<1>4. /\ loop' = [loop EXCEPT !.at = "wait", !.nap = IF setting.socket THEN None ELSE n]
      /\ UNCHANGED <<setting, left, bus, dns, cache, aged, client, owner, queue, queued, work, waited>>
  BY DEF Wait, worldVars, n
<1>5. loop' \in Loop
  BY <1>3, <1>4 DEF IInv, TypeOK, Loop
<1>6. TypeOK'
  BY <1>4, <1>5, DaemonType DEF IInv, TypeOK
<1>7. ScanOK'
  BY <1>4 DEF IInv, ScanOK
<1>8. Timing'
  BY <1>2, <1>3, <1>4 DEF IInv, TypeOK, Loop, Timing, BurstOK, WaitOK, NapOK
<1>9. QED
  BY <1>6, <1>7, <1>8 DEF IInv

LEMMA WakeUpKeeps ==
  ASSUME IInv, WakeUp
  PROVE  IInv'
<1>1. loop' \in Loop
  BY DEF WakeUp, IInv, TypeOK, Loop
<1>2. TypeOK'
  BY <1>1, DaemonType DEF WakeUp, IInv, TypeOK, worldVars
<1>3. ScanOK'
  BY DEF WakeUp, IInv, ScanOK
<1>4. Timing'
  BY DEF WakeUp, IInv, TypeOK, Loop, Timing, BurstOK, WaitOK, NapOK, worldVars
<1>5. QED
  BY <1>2, <1>3, <1>4 DEF IInv

LEMMA EndScanKeeps ==
  ASSUME IInv, EndScan
  PROVE  IInv'
<1> DEFINE again == Enumerating(loop.seen) /\ loop.rechecks < MaxRechecks
           report == IF setting.timed THEN Interval ELSE 0
           check == IF again THEN Recheck ELSE None
           rechecks == IF again THEN loop.rechecks + 1 ELSE 0
<1>1. report \in 0..Interval /\ check \in Timer /\ rechecks \in 0..MaxRechecks
  BY DaemonAssumption DEF IInv, TypeOK, Loop, Timer
<1> HIDE DEF again
<1>2. /\ loop' = [loop EXCEPT !.at = "loop", !.report = report, !.seen = None,
                              !.check = check, !.rechecks = rechecks]
      /\ queued' = [usb |-> loop.seen]
      /\ UNCHANGED <<setting, left, bus, dns, cache, aged, client, owner, queue, work, waited>>
  BY DEF EndScan, worldVars, again
<1>3. loop.at = "scan"
  BY DEF EndScan
<1> HIDE DEF report, check, rechecks
<1>4. loop' \in Loop
  BY <1>1, <1>2 DEF IInv, TypeOK, Loop, Timer, Bus
<1>5. TypeOK'
  BY <1>2, <1>4, DaemonType DEF IInv, TypeOK, Loop
<1>6. ScanOK'
  BY <1>2 DEF IInv, ScanOK
<1>7. /\ loop'.at = "loop" /\ loop'.report = report /\ loop'.burst = None
  BY <1>2, <1>3 DEF IInv, TypeOK, Loop, Timing, BurstOK
<1>8. Timing'
  BY <1>1, <1>2, <1>3, <1>7, NotNone DEF IInv, TypeOK, Timing, BurstOK, WaitOK, NapOK
<1>9. QED
  BY <1>5, <1>6, <1>8 DEF IInv

\* usb_changed settles for a check within the largest delay of the burst.
LEMMA NoticedInTime ==
  ASSUME NEW l \in Loop
  PROVE  /\ Noticed(l).at = l.at /\ Noticed(l).report = l.report /\ Noticed(l).nap = l.nap
         /\ Noticed(l).burst = IF l.burst = None THEN 0 ELSE l.burst
         /\ Noticed(l).burst # None /\ Noticed(l).check # None
         /\ Noticed(l).check + Noticed(l).burst <= MaxDelay
<1> DEFINE first == IF l.burst = None THEN 0 ELSE l.burst
           check == Least(Settle, MaxDelay - first)
<1>1. first \in 0..MaxDelay
  BY DaemonAssumption DEF Loop
<1>2. check \in Nat /\ check + first <= MaxDelay
  BY <1>1, DaemonAssumption DEF Least
<1>3. Noticed(l) = [l EXCEPT !.burst = first, !.check = check, !.rechecks = 0]
  BY DEF Noticed
<1>4. first # None /\ check # None
  BY <1>1, <1>2, NotNone
<1> HIDE DEF first, check
<1>5. /\ Noticed(l).at = l.at /\ Noticed(l).report = l.report /\ Noticed(l).nap = l.nap
      /\ Noticed(l).burst = first /\ Noticed(l).check = check
  BY <1>3 DEF Loop
<1>6. QED
  BY <1>2, <1>4, <1>5 DEF first

LEMMA ReceiveKeeps ==
  ASSUME IInv, Receive
  PROVE  IInv'
<1> DEFINE l == [loop EXCEPT !.at = "loop"]
<1>1. /\ l \in Loop /\ l.at = "loop" /\ l.report = loop.report /\ l.burst = loop.burst
      /\ l.check = loop.check
  BY DEF IInv, TypeOK, Loop
<1>2. /\ setting.socket
      /\ queue' = IF queue.lost THEN [queue EXCEPT !.lost = FALSE] ELSE EmptyQueue
      /\ loop' = IF queue.lost \/ queue.usb THEN Noticed(l) ELSE l
      /\ UNCHANGED <<setting, left, bus, dns, cache, aged, client, owner, queued, work, waited>>
  BY DEF Receive, Lost, worldVars
<1> HIDE DEF l
<1>3. queue' \in Queue
  BY <1>2, EmptyType DEF IInv, TypeOK, Queue
<1>4. loop' \in Loop
  BY <1>1, <1>2, NoticedType
<1>5. TypeOK'
  BY <1>2, <1>3, <1>4, DaemonType DEF IInv, TypeOK
<1>6. ScanOK'
  BY <1>2 DEF IInv, ScanOK
<1>7. queue'.usb => queue'.size # 0
  BY <1>2 DEF IInv, TypeOK, Queue, EmptyQueue, Timing, BurstOK
<1>8. CASE queue.lost \/ queue.usb
  <2>1. /\ loop'.at = "loop" /\ loop'.report = loop.report /\ loop'.burst # None
        /\ loop'.burst = IF loop.burst = None THEN 0 ELSE loop.burst
        /\ loop'.check # None /\ loop'.check + loop'.burst <= MaxDelay
    BY <1>1, <1>2, <1>8, NoticedInTime
  <2>2. BurstOK'
    BY <1>7, <2>1 DEF IInv, Timing, BurstOK
  <2>3. WaitOK'
    BY <1>2, <2>1 DEF IInv, TypeOK, Loop, Timing, WaitOK
  <2>4. QED
    BY <1>2, <1>5, <1>6, <2>1, <2>2, <2>3 DEF IInv, Timing, NapOK
<1>9. CASE ~(queue.lost \/ queue.usb)
  <2>1. BurstOK' /\ WaitOK'
    BY <1>1, <1>2, <1>7, <1>9 DEF IInv, Timing, BurstOK, WaitOK
  <2>2. QED
    BY <1>1, <1>2, <1>5, <1>6, <1>9, <2>1 DEF IInv, Timing, NapOK
<1>10. QED
  BY <1>8, <1>9

LEMMA CompareKeeps ==
  ASSUME IInv, Compare
  PROVE  IInv'
<1> DEFINE l == [loop EXCEPT !.at = "loop", !.ids = (bus # None), !.nap = None]
<1>1. /\ l \in Loop /\ l.at = "loop" /\ l.report = loop.report /\ l.burst = loop.burst
      /\ l.check = loop.check
  BY DEF IInv, TypeOK, Loop, Timer
<1>2. /\ ~setting.socket
      /\ loop' = Noticed(l) \/ loop' = l
      /\ UNCHANGED <<setting, left, bus, dns, cache, aged, client, owner, queue, queued, work, waited>>
  BY DEF Compare, worldVars
<1> HIDE DEF l
<1>3. loop' \in Loop
  BY <1>1, <1>2, NoticedType
<1>4. TypeOK'
  BY <1>2, <1>3, DaemonType DEF IInv, TypeOK
<1>5. ScanOK'
  BY <1>2 DEF IInv, ScanOK
<1>6. loop'.at = "loop" /\ loop'.report = loop.report
  BY <1>1, <1>2, NoticedInTime
<1>7. BurstOK'
  <2>1. CASE loop' = l
    BY <1>1, <1>2, <2>1 DEF IInv, Timing, BurstOK
  <2>2. CASE loop' = Noticed(l)
    BY <1>1, <1>2, <1>6, <2>2, NoticedInTime DEF IInv, Timing, BurstOK
  <2>3. QED
    BY <1>2, <2>1, <2>2
<1>8. WaitOK' /\ NapOK'
  BY <1>2, <1>6 DEF IInv, Timing, WaitOK, NapOK
<1>9. QED
  BY <1>4, <1>5, <1>7, <1>8 DEF IInv, Timing

LEMMA WorkerTakeKeeps ==
  ASSUME IInv, WorkerTake
  PROVE  IInv'
<1>1. TypeOK'
  BY DEF WorkerTake, IInv, TypeOK, worldVars
<1>2. QED
  BY <1>1 DEF WorkerTake, IInv, ScanOK, Timing, BurstOK, WaitOK, NapOK, worldVars

LEMMA HappensType ==
  ASSUME TypeOK, Happens
  PROVE  left' \in 0..setting.events
  BY SettingType DEF TypeOK, Happens

LEMMA CheckType ==
  ASSUME TypeOK, NEW dot \in BOOLEAN, CheckDnsLeak(dot)
  PROVE  left' \in 0..setting.events
BY HappensType DEF CheckDnsLeak, TypeOK

LEMMA WorkerReadKeeps ==
  ASSUME IInv, WorkerRead
  PROVE  IInv'
<1>1. PICK dot \in BOOLEAN : CheckDnsLeak(dot) /\ work' = [work EXCEPT !.dot = dot]
  BY DEF WorkerRead
<1>2. left' \in 0..setting.events
  BY <1>1, CheckType DEF IInv
<1>3. TypeOK'
  BY <1>1, <1>2 DEF WorkerRead, IInv, TypeOK
<1>4. QED
  BY <1>3 DEF WorkerRead, IInv, ScanOK, Timing, BurstOK, WaitOK, NapOK

\* No tick comes between a message and its receipt, nor past a timer.
LEMMA TickKeeps ==
  ASSUME IInv, Tick
  PROVE  IInv'
<1> DEFINE report == Earlier(loop.report)
           check == Earlier(loop.check)
           nap == Earlier(loop.nap)
           burst == Later(loop.burst, MaxDelay)
<1>1. /\ report \in Timer /\ check \in Timer /\ nap \in Timer
      /\ burst \in 0..MaxDelay \cup {None}
  BY EarlierType, LaterType, DaemonAssumption DEF IInv, TypeOK, Loop
<1>2. /\ loop' = [loop EXCEPT !.report = report, !.check = check, !.nap = nap, !.burst = burst]
      /\ waited' = IF loop.at = "scan" THEN waited ELSE Later(waited, Interval + 1)
      /\ UNCHANGED <<setting, left, bus, dns, cache, aged, client, owner, queue, queued, work>>
  BY DEF Tick, worldVars
<1>3. \/ loop.at = "scan"
      \/ loop.at = "wait" /\ setting.socket /\ Silent /\ ~Due
      \/ loop.at = "wait" /\ ~setting.socket /\ loop.nap > 0
  BY DEF Tick
<1> HIDE DEF report, check, nap, burst
<1>4. loop' \in Loop
  BY <1>1, <1>2 DEF IInv, TypeOK, Loop
<1>5. waited' \in 0..(Interval + 1) \cup {None}
  BY <1>2, LaterType, DaemonAssumption DEF IInv, TypeOK
<1>6. TypeOK'
  BY <1>2, <1>4, <1>5, DaemonType DEF IInv, TypeOK
<1>7. ScanOK'
  BY <1>2 DEF IInv, ScanOK
<1>8. /\ loop'.at = loop.at /\ loop'.report = report /\ loop'.check = check
      /\ loop'.nap = nap /\ loop'.burst = burst
  BY <1>2 DEF IInv, TypeOK, Loop
<1>9. /\ loop.report \in 0..Interval /\ loop.check \in Timer /\ loop.nap \in Timer
      /\ loop.burst \in 0..MaxDelay \cup {None} /\ waited \in 0..(Interval + 1) \cup {None}
  BY DEF IInv, TypeOK, Loop, Timer, Timing, BurstOK
<1>10. /\ report = IF loop.report = 0 THEN 0 ELSE loop.report - 1
       /\ report # None
  BY <1>9, NotNone, DaemonAssumption DEF report, Earlier
<1>11. CASE loop.at = "scan"
  <2>1. loop.burst = None /\ burst = None
    BY <1>11 DEF IInv, Timing, BurstOK, burst, Later
  <2>2. QED
    BY <1>2, <1>6, <1>7, <1>8, <1>9, <1>10, <1>11, <2>1, DaemonAssumption
    DEF IInv, Timing, BurstOK, WaitOK, NapOK
<1>12. CASE loop.at = "wait" /\ setting.socket /\ Silent /\ ~Due
  <2>1. ~queue.usb /\ ~queue.lost /\ loop.check # 0
    BY <1>12 DEF Silent, Lost, Due, IInv, Timing, BurstOK
  <2>2. CASE loop.burst = None
    <3>1. waited = None /\ burst = None /\ waited' = None
      BY <1>2, <1>12, <2>1, <2>2 DEF IInv, Timing, WaitOK, burst, Later
    <3>2. QED
      BY <1>2, <1>6, <1>7, <1>8, <1>10, <1>12, <2>1, <3>1 DEF IInv, Timing, BurstOK, WaitOK, NapOK
  <2>3. CASE loop.burst # None
    <3>1. /\ loop.check \in Nat \ {0} /\ loop.burst \in Nat
          /\ loop.check + loop.burst <= MaxDelay
      BY <1>9, <2>1, <2>3 DEF IInv, Timing, BurstOK, Timer
    <3>2. check = loop.check - 1 /\ burst = loop.burst + 1
      BY <2>3, <3>1, NotNone, DaemonAssumption DEF check, burst, Earlier, Later, Least
    <3>3. check # None /\ burst # None /\ check + burst <= MaxDelay
      BY <3>1, <3>2, NotNone
    <3>4. waited # None => waited' = waited + 1 /\ waited <= loop.burst
      BY <1>2, <1>9, <1>12, <2>3, <3>1, DaemonAssumption
      DEF IInv, Timing, WaitOK, Later, Least
    <3>5. waited = None => waited' = None
      BY <1>2, <1>12 DEF Later
    <3>6. BurstOK'
      BY <1>2, <1>8, <1>10, <1>12, <2>1, <3>3 DEF BurstOK
    <3>7. WaitOK' /\ NapOK'
      BY <1>2, <1>8, <1>9, <1>12, <3>1, <3>2, <3>3, <3>4, <3>5 DEF WaitOK, NapOK
    <3>8. QED
      BY <1>6, <1>7, <3>6, <3>7 DEF IInv, Timing
  <2>4. QED
    BY <2>2, <2>3
<1>13. CASE loop.at = "wait" /\ ~setting.socket /\ loop.nap > 0
  <2>1. /\ loop.nap # None /\ loop.nap \in Nat \ {0} /\ loop.nap <= loop.report
        /\ loop.check # None => loop.nap <= loop.check
    BY <1>9, <1>13 DEF IInv, Timing, NapOK, Timer
  <2>2. nap = loop.nap - 1 /\ report = loop.report - 1 /\ nap # None
    BY <1>9, <1>10, <2>1, NotNone, DaemonAssumption DEF nap, Earlier
  <2>3. waited # None => waited' = waited + 1
    BY <1>2, <1>9, <1>13, <2>1, DaemonAssumption DEF IInv, Timing, WaitOK, Later, Least
  <2>4. waited = None => waited' = None
    BY <1>2, <1>13 DEF Later
  <2>5. loop.burst # None => /\ check # None /\ burst # None
                             /\ check + burst <= MaxDelay
    <3> SUFFICES ASSUME loop.burst # None
                 PROVE  check # None /\ burst # None /\ check + burst <= MaxDelay
      OBVIOUS
    <3>1. /\ loop.check \in Nat \ {0} /\ loop.burst \in Nat
          /\ loop.check + loop.burst <= MaxDelay
      BY <1>9, <2>1 DEF IInv, Timing, BurstOK, Timer
    <3>2. QED
      BY <3>1, NotNone, DaemonAssumption DEF check, burst, Earlier, Later, Least
  <2>6. loop.check # None => check # None /\ nap <= check
    BY <1>9, <2>1, <2>2, NotNone, DaemonAssumption DEF check, Earlier, Timer
  <2>7. loop.check = None => check = None
    BY DEF check, Earlier
  <2>8. loop.burst = None => burst = None
    BY DEF burst, Later
  <2>9. BurstOK'
    BY <1>2, <1>8, <1>10, <1>13, <2>5, <2>8 DEF IInv, Timing, BurstOK
  <2>10. WaitOK'
    BY <1>2, <1>8, <1>9, <1>13, <2>1, <2>2, <2>3, <2>4 DEF IInv, Timing, WaitOK
  <2>11. NapOK'
    BY <1>2, <1>8, <1>9, <2>1, <2>2, <2>6, <2>7 DEF NapOK
  <2>12. QED
    BY <1>6, <1>7, <2>9, <2>10, <2>11 DEF IInv, Timing
<1>14. QED
  BY <1>3, <1>11, <1>12, <1>13

-----------------------------------------------------------------------------
(***************************************************************************)
(* The port and the socket.                                                *)
(***************************************************************************)
\* A message about USB is in the socket, or is told as lost.
LEMMA MessageStays ==
  ASSUME IInv, NEW usb \in BOOLEAN
  PROVE  /\ Message(usb).usb => Message(usb).size # 0
         /\ queue.usb \/ queue.lost => Message(usb).usb \/ Message(usb).lost
         /\ Running /\ setting.socket /\ usb => Message(usb).usb \/ Message(usb).lost
<1>1. queue \in Queue /\ (queue.usb => queue.size # 0)
  BY DEF IInv, TypeOK, Timing, BurstOK
<1>2. CASE ~Running \/ ~setting.socket
  BY <1>1, <1>2 DEF Message
<1>3. CASE ~(~Running \/ ~setting.socket) /\ queue.size < QueueSize
  BY <1>1, <1>3, DaemonAssumption DEF Message, Queue
<1>4. CASE ~(~Running \/ ~setting.socket) /\ ~(queue.size < QueueSize)
  BY <1>1, <1>4 DEF Message, Queue
<1>5. QED
  BY <1>2, <1>3, <1>4

LEMMA BusKeeps ==
  ASSUME IInv, NEW b \in Bus, BusChanges(b), left' \in 0..setting.events
  PROVE  IInv'
<1>1. queue' \in Queue
  BY MessageType DEF BusChanges, IInv, TypeOK
<1>2. waited' = (IF Running /\ waited = None THEN 0 ELSE waited)
  BY DEF BusChanges
<1>3. waited' \in 0..(Interval + 1) \cup {None}
  BY <1>2, DaemonAssumption DEF IInv, TypeOK
<1>4. TypeOK'
  BY <1>1, <1>3 DEF BusChanges, IInv, TypeOK
<1>5. ScanOK'
  BY DEF BusChanges, IInv, ScanOK
<1>6. UNCHANGED <<loop, setting>>
  BY DEF BusChanges
<1>7. /\ queue'.usb => queue'.size # 0
      /\ queue.usb \/ queue.lost => queue'.usb \/ queue'.lost
      /\ Running /\ setting.socket => queue'.usb \/ queue'.lost
  BY MessageStays DEF BusChanges
<1>8. BurstOK' /\ NapOK'
  BY <1>6, <1>7 DEF IInv, Timing, BurstOK, NapOK
<1>9. WaitOK'
  <2>1. CASE Running /\ waited = None
    <3>1. /\ loop.report \in 0..Interval
          /\ loop.burst # None => loop.burst \in Nat
      BY DEF IInv, TypeOK, Loop, Timer, Timing, BurstOK
    <3>2. QED
      BY <1>2, <1>6, <1>7, <2>1, <3>1 DEF WaitOK
  <2>2. CASE ~(Running /\ waited = None)
    BY <1>2, <1>6, <1>7, <2>2 DEF IInv, Timing, WaitOK
  <2>3. QED
    BY <2>1, <2>2
<1>10. QED
  BY <1>4, <1>5, <1>8, <1>9 DEF IInv, Timing

LEMMA PortKeeps ==
  ASSUME IInv, (\E d \in setting.devices : Plug(d)) \/ Configure \/ Unplug
  PROVE  IInv'
<1>1. ASSUME NEW d \in setting.devices, Plug(d)
      PROVE  IInv'
  <2>1. [dev |-> d, settled |-> FALSE] \in Bus
    BY SettingType DEF IInv, TypeOK, Bus
  <2>2. QED
    BY <1>1, <2>1, HappensType, BusKeeps DEF Plug, IInv
<1>2. ASSUME Configure
      PROVE  IInv'
  <2>1. [bus EXCEPT !.settled = TRUE] \in Bus
    BY <1>2 DEF Configure, Enumerating, IInv, TypeOK, Bus
  <2>2. left' \in 0..setting.events
    BY <1>2 DEF Configure, IInv, TypeOK
  <2>3. QED
    BY <1>2, <2>1, <2>2, BusKeeps DEF Configure
<1>3. ASSUME Unplug
      PROVE  IInv'
  BY <1>3, HappensType, BusKeeps DEF Unplug, IInv, Bus
<1>4. QED
  BY <1>1, <1>2, <1>3

LEMMA NoiseKeeps ==
  ASSUME IInv, Noise
  PROVE  IInv'
<1>1. queue' \in Queue /\ left' \in 0..setting.events
  BY MessageType, HappensType DEF Noise, IInv, TypeOK
<1>2. TypeOK'
  BY <1>1 DEF Noise, IInv, TypeOK
<1>3. /\ queue'.usb => queue'.size # 0
      /\ queue.usb \/ queue.lost => queue'.usb \/ queue'.lost
  BY MessageStays DEF Noise
<1>4. Timing'
  BY <1>3 DEF Noise, IInv, Timing, BurstOK, WaitOK, NapOK
<1>5. QED
  BY <1>2, <1>4 DEF Noise, IInv, ScanOK

-----------------------------------------------------------------------------
(***************************************************************************)
(* The clients, and the daemons they start and take with them.             *)
(***************************************************************************)
LEMMA TimingAnew ==
  ASSUME NEW b, loop' = FreshLoop(b), queue' = EmptyQueue, waited' = None
  PROVE  Timing'
  BY DaemonAssumption DEF Timing, BurstOK, WaitOK, NapOK, FreshLoop, EmptyQueue

LEMMA TimingSame ==
  ASSUME Timing, UNCHANGED <<setting, loop, queue, waited>>
  PROVE  Timing'
  BY DEF Timing, BurstOK, WaitOK, NapOK

\* The daemon goes, or one comes, or nothing becomes of it.
LEMMA OwnerKeeps ==
  ASSUME IInv, UNCHANGED setting,
         \/ DaemonEnds
         \/ \E c \in Client : DaemonStarts(c)
         \/ UNCHANGED <<owner, daemonVars>>
  PROVE  /\ owner' \in Client \cup {None}
         /\ loop' \in Loop
         /\ queue' \in Queue
         /\ queued' \in [usb : Bus] \cup {None}
         /\ work' \in [usb : Bus, dot : BOOLEAN \cup {None}] \cup {None}
         /\ waited' \in 0..(Interval + 1) \cup {None}
         /\ Timing'
<1>1. CASE DaemonEnds
  BY <1>1, FreshType, EmptyType, TimingAnew DEF DaemonEnds
<1>2. CASE UNCHANGED <<owner, daemonVars>>
  BY <1>2, TimingSame DEF daemonVars, IInv, TypeOK
<1>3. ASSUME NEW c \in Client, DaemonStarts(c), ~UNCHANGED <<owner, daemonVars>>
      PROVE  /\ owner' = c /\ loop' = FreshLoop(bus) /\ queue' = EmptyQueue
             /\ queued' = None /\ work' = None /\ waited' = None
  BY <1>3 DEF DaemonStarts
<1>4. CASE (\E c \in Client : DaemonStarts(c)) /\ ~UNCHANGED <<owner, daemonVars>>
  BY <1>3, <1>4, FreshType, EmptyType, TimingAnew
<1>5. QED
  BY <1>1, <1>2, <1>4

\* ScanOK of one client.
Reads(r) == r.scan # None /\ r.scan.at # "new" => r.scan.dot \in BOOLEAN

\* One client's view is replaced by another that has its report if it needs one.
LEMMA ViewKeeps ==
  ASSUME IInv, NEW c \in Client, NEW r \in View, Reads(r), client' = [client EXCEPT ![c] = r]
  PROVE  client' \in [Client -> View] /\ ScanOK'
  BY DEF IInv, TypeOK, ScanOK, Reads

LEMMA OpenKeeps ==
  ASSUME IInv, NEW c \in Client, OpenClient(c)
  PROVE  IInv'
<1>1. Reads(Opened)
  BY DEF Reads, Opened, Closed
<1>2. client' \in [Client -> View] /\ ScanOK'
  BY <1>1, ClosedType, ViewKeeps DEF OpenClient
<1>3. left' \in 0..setting.events
  BY HappensType DEF OpenClient, IInv
<1>4. Timing'
  BY TimingSame DEF OpenClient, daemonVars, IInv
<1>5. QED
  BY <1>2, <1>3, <1>4 DEF OpenClient, daemonVars, IInv, TypeOK

LEMMA CloseKeeps ==
  ASSUME IInv, NEW c \in Client, CloseClient(c)
  PROVE  IInv'
<1>1. Reads(Closed)
  BY DEF Reads, Closed
<1>2. client' \in [Client -> View] /\ ScanOK'
  BY <1>1, ClosedType, ViewKeeps DEF CloseClient
<1>3. left' \in 0..setting.events
  BY HappensType DEF CloseClient, IInv
<1>4. DaemonEnds \/ UNCHANGED <<owner, daemonVars>>
  BY DEF CloseClient
<1>5. UNCHANGED <<setting, bus, dns, cache, aged>>
  BY DEF CloseClient
<1>6. QED
  BY <1>2, <1>3, <1>4, <1>5, OwnerKeeps DEF IInv, TypeOK

LEMMA DiesKeeps ==
  ASSUME IInv, DaemonDies
  PROVE  IInv'
<1>1. left' \in 0..setting.events
  BY HappensType DEF DaemonDies, IInv
<1>2. DaemonEnds /\ UNCHANGED <<setting, bus, dns, cache, aged, client>>
  BY DEF DaemonDies
<1>3. QED
  BY <1>1, <1>2, OwnerKeeps DEF IInv, TypeOK, ScanOK

\* A step of one client that leaves the daemon, the port and the cache alone.
LEMMA ClientKeeps ==
  ASSUME IInv, NEW c \in Client, NEW r \in View, Reads(r), client' = [client EXCEPT ![c] = r],
         UNCHANGED <<setting, bus, cache, aged, owner, daemonVars>>,
         left' \in 0..setting.events, dns' \in Provider
  PROVE  IInv'
<1>1. client' \in [Client -> View] /\ ScanOK'
  BY ViewKeeps
<1>2. Timing'
  BY TimingSame DEF daemonVars, IInv
<1>3. QED
  BY <1>1, <1>2 DEF IInv, TypeOK, daemonVars

LEMMA RefreshKeeps ==
  ASSUME IInv, NEW c \in Client, Refresh(c)
  PROVE  IInv'
<1> DEFINE r == [client[c] EXCEPT !.reload = TRUE]
<1>1. r \in View /\ Reads(r)
  BY DEF IInv, TypeOK, ScanOK, View, Reads
<1>2. client' = [client EXCEPT ![c] = r]
  BY DEF Refresh, IInv, TypeOK
<1>3. QED
  BY <1>1, <1>2, ClientKeeps DEF Refresh, worldVars, IInv, TypeOK

LEMMA LoadKeeps ==
  ASSUME IInv, NEW c \in Client, Load(c)
  PROVE  IInv'
<1> DEFINE r == [client[c] EXCEPT !.reload = FALSE]
<1>1. r \in View /\ Reads(r)
  BY DEF IInv, TypeOK, ScanOK, View, Reads
<1>2. UNCHANGED <<setting, left, bus, dns, cache, aged>>
  BY DEF Load, worldVars
<1>3. CASE /\ cache # None /\ client' = [client EXCEPT ![c] = Applied(r, cache)]
           /\ UNCHANGED <<owner, daemonVars>>
  <2>1. cache.usb \in Bus /\ cache.dot \in BOOLEAN
    BY <1>3 DEF IInv, TypeOK, Report
  <2>2. Applied(r, cache) \in View
    BY <1>1, <2>1, AppliedType
  <2>3. Reads(Applied(r, cache))
    BY <1>1 DEF Applied, Reads, View
  <2>4. QED
    BY <1>2, <1>3, <2>2, <2>3, ClientKeeps DEF IInv, TypeOK
<1>4. CASE client' = [client EXCEPT ![c] = ScanNow(r)] /\ DaemonStarts(c)
  <2>1. ScanNow(r) \in View /\ Reads(ScanNow(r))
    BY <1>1, ScanNowType DEF ScanNow, Reads, NewScan, View
  <2>2. client' \in [Client -> View] /\ ScanOK'
    BY <1>4, <2>1, ViewKeeps
  <2>3. QED
    BY <1>2, <1>4, <2>2, OwnerKeeps DEF IInv, TypeOK
<1>5. QED
  BY <1>3, <1>4 DEF Load

LEMMA ScanReadsKeeps ==
  ASSUME IInv, NEW c \in Client, ScanReads(c)
  PROVE  IInv'
<1>0. PICK dot \in BOOLEAN :
        /\ CheckDnsLeak(dot)
        /\ client' = [client EXCEPT ![c].scan = [at |-> "read", usb |-> bus, dot |-> dot]]
  BY DEF ScanReads
<1> DEFINE scan == [at |-> "read", usb |-> bus, dot |-> dot]
           r == [client[c] EXCEPT !.scan = scan]
<1>1. scan \in Scan /\ scan.dot \in BOOLEAN
  BY DEF Scan, IInv, TypeOK
<1>2. r \in View /\ r.scan = scan
  BY <1>1 DEF IInv, TypeOK, View
<1>3. client' = [client EXCEPT ![c] = r]
  BY <1>0 DEF IInv, TypeOK
<1>4. Reads(r) /\ left' \in 0..setting.events
  BY <1>0, <1>1, <1>2, CheckType DEF Reads, IInv
<1>5. UNCHANGED <<setting, bus, dns, cache, aged, owner, daemonVars>>
  BY DEF ScanReads
<1>6. QED
  BY <1>2, <1>3, <1>4, <1>5, ClientKeeps DEF IInv, TypeOK

LEMMA ToldReads ==
  ASSUME NEW f \in [Client -> View], \A c \in Client : Reads(f[c])
  PROVE  \A c \in Client : Reads(Told(f)[c])
  BY DEF Told, Reads, View

LEMMA ScanSavesKeeps ==
  ASSUME IInv, NEW c \in Client, ScanSaves(c)
  PROVE  IInv'
<1> DEFINE s == client[c].scan
           saved == [s EXCEPT !.at = "saved"]
           r == [client[c] EXCEPT !.scan = saved]
           f == [client EXCEPT ![c] = r]
<1>1. s # None /\ s.at = "read" /\ s \in Scan /\ s.dot \in BOOLEAN
  BY DEF ScanSaves, ScanAt, IInv, TypeOK, ScanOK, View
<1>2. saved \in Scan /\ saved.dot \in BOOLEAN
  BY <1>1 DEF Scan
<1>3. r \in View /\ r.scan = saved
  BY <1>2 DEF IInv, TypeOK, View
<1>4. f \in [Client -> View] /\ \A d \in Client : Reads(f[d])
  BY <1>2, <1>3 DEF IInv, TypeOK, ScanOK, Reads
<1>5. [client EXCEPT ![c].scan.at = "saved"] = f
  BY DEF IInv, TypeOK
<1>6. /\ client' = Told(f) /\ cache' = [usb |-> s.usb, dot |-> s.dot] /\ aged' = FALSE
      /\ UNCHANGED <<worldVars, owner, daemonVars>>
  BY <1>5 DEF ScanSaves, Published
<1> HIDE DEF f, r, saved
<1>7. client' \in [Client -> View] /\ ScanOK'
  BY <1>4, <1>6, ToldType, ToldReads DEF ScanOK, Reads
<1>8. cache' \in Report
  BY <1>1, <1>6 DEF Report, Scan
<1>9. Timing'
  BY <1>6, TimingSame DEF worldVars, daemonVars, IInv
<1>10. QED
  BY <1>6, <1>7, <1>8, <1>9 DEF IInv, TypeOK, worldVars, daemonVars

LEMMA ScanEndsKeeps ==
  ASSUME IInv, NEW c \in Client, ScanEnds(c)
  PROVE  IInv'
<1> DEFINE s == client[c].scan
           q == [client[c] EXCEPT !.scan = None]
           r == Applied(q, s)
           n == [r EXCEPT !.again = FALSE]
<1>1. s # None /\ s.at = "saved" /\ s \in Scan /\ s.dot \in BOOLEAN
  BY DEF ScanEnds, ScanAt, IInv, TypeOK, ScanOK, View
<1>2. q \in View /\ q.scan = None
  BY DEF IInv, TypeOK, View
<1>3. s.usb \in Bus
  BY <1>1 DEF Scan
<1> HIDE DEF q, s
<1>4. r \in View
  BY <1>1, <1>2, <1>3, AppliedType
<1>5. r.scan = None
  BY <1>2 DEF Applied, View
<1>6. client' = [client EXCEPT ![c] = IF r.again THEN ScanNow(n) ELSE r]
  BY DEF ScanEnds, q, s
<1>7. n \in View /\ n.scan = None
  BY <1>4, <1>5 DEF View
<1> HIDE DEF n, r
<1>8. ScanNow(n) \in View /\ Reads(ScanNow(n))
  <2>1. ScanNow(n) = [n EXCEPT !.scan = NewScan]
    BY <1>7 DEF ScanNow
  <2>2. ScanNow(n).scan = NewScan
    BY <1>7, <2>1 DEF View
  <2>3. QED
    BY <1>7, <2>2, ScanNowType DEF Reads, NewScan
<1>9. Reads(r)
  BY <1>5 DEF Reads
<1>10. QED
  BY <1>4, <1>6, <1>8, <1>9, ClientKeeps DEF ScanEnds, worldVars, IInv, TypeOK

LEMMA PublishesKeeps ==
  ASSUME IInv, WorkerPublishes
  PROVE  IInv'
<1>1. /\ work # None /\ work.dot # None /\ cache' = work /\ aged' = FALSE
      /\ client' = Told(client) /\ work' = None
      /\ UNCHANGED <<worldVars, owner, loop, queue, queued, waited>>
  BY DEF WorkerPublishes, Published
<1>2. cache' \in Report
  BY <1>1 DEF IInv, TypeOK, Report
<1>3. client' \in [Client -> View] /\ ScanOK'
  BY <1>1, ToldType, ToldReads DEF IInv, TypeOK, ScanOK, Reads
<1>4. Timing'
  BY <1>1, TimingSame DEF worldVars, IInv
<1>5. QED
  BY <1>1, <1>2, <1>3, <1>4 DEF IInv, TypeOK, worldVars

LEMMA AgesKeeps ==
  ASSUME IInv, CacheAges
  PROVE  IInv'
<1>1. Timing' /\ ScanOK'
  BY TimingSame DEF CacheAges, worldVars, daemonVars, IInv, ScanOK
<1>2. QED
  BY <1>1 DEF CacheAges, worldVars, daemonVars, IInv, TypeOK

LEMMA ToggleKeeps ==
  ASSUME IInv, NEW c \in Client, Toggle(c)
  PROVE  IInv'
<1> DEFINE before == client[c].on
           on == ~client[c].on
           r == [client[c] EXCEPT !.before = before, !.on = on]
<1>1. before \in BOOLEAN /\ on \in BOOLEAN
  BY DEF Toggle, IInv, TypeOK, View
<1>2. client' = [client EXCEPT ![c] = r]
  BY DEF Toggle, IInv, TypeOK
<1> HIDE DEF before, on
<1>3. r \in View
  BY <1>1, Zenon DEF IInv, TypeOK, View
<1>4. Reads(r)
  BY DEF IInv, TypeOK, ScanOK, Reads, View
<1>5. left' \in 0..setting.events /\ UNCHANGED <<setting, bus, dns, cache, aged, owner, daemonVars>>
  BY HappensType DEF Toggle, IInv
<1>6. QED
  BY <1>2, <1>3, <1>4, <1>5, ClientKeeps DEF IInv, TypeOK

LEMMA ToggleActsKeeps ==
  ASSUME IInv, NEW c \in Client, ToggleActs(c)
  PROVE  IInv'
<1>1. PICK code \in {0, 1} : client' = [client EXCEPT ![c].code = code]
  BY DEF ToggleActs
<1> DEFINE r == [client[c] EXCEPT !.code = code]
<1>2. client' = [client EXCEPT ![c] = r]
  BY <1>1 DEF IInv, TypeOK
<1>3. r \in View /\ Reads(r)
  BY DEF IInv, TypeOK, ScanOK, Reads, View
<1>4. dns' \in Provider
  BY DaemonAssumption DEF ToggleActs, IInv, TypeOK
<1>5. UNCHANGED <<setting, left, bus, cache, aged, owner, daemonVars>>
  BY DEF ToggleActs
<1>6. QED
  BY <1>2, <1>3, <1>4, <1>5, ClientKeeps DEF IInv, TypeOK

LEMMA ToggleEndsKeeps ==
  ASSUME IInv, NEW c \in Client, ToggleEnds(c)
  PROVE  IInv'
<1> DEFINE on == IF client[c].code = 0 THEN client[c].on ELSE client[c].before
           r == [client[c] EXCEPT !.on = on, !.before = None, !.code = None]
<1>1. on \in BOOLEAN \cup {None}
  BY DEF IInv, TypeOK, View
<1>2. client' = [client EXCEPT ![c] = ScanNow(r)]
  BY DEF ToggleEnds
<1> HIDE DEF on
<1>3. r \in View
  BY <1>1, Zenon DEF IInv, TypeOK, View
<1>4. r.scan = client[c].scan
  BY DEF IInv, TypeOK, View
<1> HIDE DEF r
<1>5. ScanNow(r) \in View /\ Reads(ScanNow(r))
  BY <1>3, <1>4, ScanNowType DEF ScanNow, Reads, NewScan, View, IInv, ScanOK
<1>6. QED
  BY <1>2, <1>5, ClientKeeps DEF ToggleEnds, worldVars, IInv, TypeOK

LEMMA SetDnsKeeps ==
  ASSUME IInv, NEW p \in Provider, SetDns(p)
  PROVE  IInv'
<1>1. left' \in 0..setting.events
  BY HappensType DEF SetDns, IInv
<1>2. Timing' /\ ScanOK'
  BY TimingSame DEF SetDns, daemonVars, IInv, ScanOK
<1>3. QED
  BY <1>1, <1>2 DEF SetDns, daemonVars, IInv, TypeOK

-----------------------------------------------------------------------------
(***************************************************************************)
(* The theorems.                                                           *)
(***************************************************************************)
LEMMA NextKeeps ==
  ASSUME IInv, [Next]_vars
  PROVE  IInv'
<1>1. CASE BeginScan \/ EndScan \/ Wait \/ WakeUp
  BY <1>1, BeginScanKeeps, EndScanKeeps, WaitKeeps, WakeUpKeeps
<1>2. CASE Receive \/ Compare \/ WorkerTake \/ WorkerRead \/ Tick
  BY <1>2, ReceiveKeeps, CompareKeeps, WorkerTakeKeeps, WorkerReadKeeps, TickKeeps
<1>3. CASE (\E d \in setting.devices : Plug(d)) \/ Configure \/ Unplug \/ Noise
  BY <1>3, PortKeeps, NoiseKeeps
<1>4. CASE WorkerPublishes
  BY <1>4, PublishesKeeps
<1>5. CASE UserNext
  <2>1. ASSUME NEW c \in Client, OpenClient(c) \/ CloseClient(c) \/ Refresh(c) \/ Load(c)
        PROVE  IInv'
    BY <2>1, OpenKeeps, CloseKeeps, RefreshKeeps, LoadKeeps
  <2>2. ASSUME NEW c \in Client, ScanReads(c) \/ ScanSaves(c) \/ ScanEnds(c)
        PROVE  IInv'
    BY <2>2, ScanReadsKeeps, ScanSavesKeeps, ScanEndsKeeps
  <2>3. ASSUME NEW c \in Client, Toggle(c) \/ ToggleActs(c) \/ ToggleEnds(c)
        PROVE  IInv'
    BY <2>3, ToggleKeeps, ToggleActsKeeps, ToggleEndsKeeps
  <2>4. CASE DaemonDies \/ CacheAges \/ (\E p \in Provider : SetDns(p))
    BY <2>4, DiesKeeps, AgesKeeps, SetDnsKeeps
  <2>5. QED
    BY <1>5, <2>1, <2>2, <2>3, <2>4 DEF UserNext
<1>6. CASE UNCHANGED vars
  BY <1>6 DEF vars, IInv, TypeOK, ScanOK, Timing, BurstOK, WaitOK, NapOK
<1>7. QED
  BY <1>1, <1>2, <1>3, <1>4, <1>5, <1>6 DEF Next, DaemonNext

\* In every reachable state who answers for a change nobody has read is known:
\* the socket, the check of a burst, or the next report.
THEOREM Inductive == Spec => []IInv
  BY InitHolds, NextKeeps, PTL DEF Spec

\* The daemon's locals, its socket and worker, and what the clients show have
\* their types; what a --json run writes to the cache is a whole report.
THEOREM TypeCorrect == Spec => []TypeOK
<1>1. IInv => TypeOK
  BY DEF IInv
<1>2. QED
  BY <1>1, Inductive, PTL

\* A device that comes, goes or settles is read by a scan within MaxDelay,
\* however the events come and whatever the socket has lost; without a socket
\* within Interval.  Scans in progress are not counted.
THEOREM Timely == Spec => []ReadInTime
<1>1. IInv => ReadInTime
  <2> SUFFICES ASSUME IInv, waited # None
               PROVE  waited <= IF setting.socket THEN MaxDelay ELSE Interval
    BY DEF ReadInTime
  <2>1. /\ waited \in Nat /\ loop.report \in 0..Interval
        /\ loop.burst # None => loop.burst \in 0..MaxDelay
    BY DEF IInv, TypeOK, Loop, Timer, Timing, BurstOK
  <2>2. QED
    BY <2>1, DaemonAssumption DEF IInv, Timing, WaitOK
<1>2. QED
  BY <1>1, Inductive, PTL

\* No step moves a switch whose toggle is in flight and stays so.
LEMMA StepHolds ==
  ASSUME IInv, [Next]_vars, NEW c \in Client, Toggling(client[c]), Toggling(client'[c])
  PROVE  client'[c].on = client[c].on
<1>1. client \in [Client -> View]
  BY DEF IInv, TypeOK
<1>2. CASE UNCHANGED client
  BY <1>2
<1>3. CASE client' = Told(client)
  BY <1>1, <1>3 DEF Told, View
<1>4. ASSUME NEW d \in Client, NEW r, client' = [client EXCEPT ![d] = r],
             c = d /\ Toggling(r) => r.on = client[c].on
      PROVE  client'[c].on = client[c].on
  BY <1>1, <1>4
<1>5. ASSUME NEW d \in Client, OpenClient(d) \/ CloseClient(d)
      PROVE  client'[c].on = client[c].on
  <2>1. ~Toggling(Opened) /\ ~Toggling(Closed)
    BY DEF Opened, Closed, Toggling
  <2>2. QED
    BY <1>4, <1>5, <2>1 DEF OpenClient, CloseClient
<1>6. ASSUME NEW d \in Client, Refresh(d) \/ ScanReads(d) \/ ToggleActs(d)
      PROVE  client'[c].on = client[c].on
  <2>1. CASE Refresh(d)
    BY <1>1, <2>1 DEF Refresh, View
  <2>2. CASE ScanReads(d)
    <3>1. PICK scan : client' = [client EXCEPT ![d].scan = scan]
      BY <2>2 DEF ScanReads
    <3>2. QED
      BY <1>1, <3>1 DEF View
  <2>3. CASE ToggleActs(d)
    <3>1. PICK code : client' = [client EXCEPT ![d].code = code]
      BY <2>3 DEF ToggleActs
    <3>2. QED
      BY <1>1, <3>1 DEF View
  <2>4. QED
    BY <1>6, <2>1, <2>2, <2>3
<1>7. ASSUME NEW d \in Client, Load(d)
      PROVE  client'[c].on = client[c].on
  <2> DEFINE r == [client[d] EXCEPT !.reload = FALSE]
  <2>1. r \in View /\ r.on = client[d].on /\ r.before = client[d].before
    BY <1>1 DEF View
  <2>2. client' = [client EXCEPT ![d] = Applied(r, cache)]
        \/ client' = [client EXCEPT ![d] = ScanNow(r)]
    BY <1>7 DEF Load
  <2> HIDE DEF r
  <2>3. c = d => Applied(r, cache).on = client[c].on
    BY <2>1 DEF Applied, Toggling, View
  <2>4. ScanNow(r).on = client[d].on
    BY <2>1 DEF ScanNow, View
  <2>5. QED
    BY <1>4, <2>2, <2>3, <2>4
<1>8. ASSUME NEW d \in Client, ScanSaves(d)
      PROVE  client'[c].on = client[c].on
  BY <1>1, <1>8 DEF ScanSaves, Told, View
<1>9. ASSUME NEW d \in Client, ScanEnds(d)
      PROVE  client'[c].on = client[c].on
  BY <1>1, <1>9 DEF ScanEnds, Applied, ScanNow, Toggling, View
<1>10. ASSUME NEW d \in Client, Toggle(d) \/ ToggleEnds(d)
      PROVE  client'[c].on = client[c].on
  <2>1. CASE Toggle(d)
    BY <1>1, <2>1 DEF Toggle, Toggling
  <2>2. CASE ToggleEnds(d)
    <3> DEFINE on == IF client[d].code = 0 THEN client[d].on ELSE client[d].before
               r == [client[d] EXCEPT !.on = on, !.before = None, !.code = None]
    <3>1. r.before = None
      BY <1>1 DEF View
    <3>2. ~Toggling(ScanNow(r))
      BY <1>1, <3>1 DEF ScanNow, Toggling, View
    <3>3. client' = [client EXCEPT ![d] = ScanNow(r)]
      BY <2>2 DEF ToggleEnds
    <3>4. QED
      BY <1>4, <3>2, <3>3
  <2>3. QED
    BY <1>10, <2>1, <2>2
<1>11. \/ UNCHANGED client \/ client' = Told(client)
       \/ \E d \in Client : \/ OpenClient(d) \/ CloseClient(d) \/ Refresh(d) \/ Load(d)
                            \/ ScanReads(d) \/ ScanSaves(d) \/ ScanEnds(d)
                            \/ Toggle(d) \/ ToggleActs(d) \/ ToggleEnds(d)
  BY DEF Next, DaemonNext, UserNext, vars, BeginScan, EndScan, Wait, WakeUp, Receive, Compare,
         WorkerTake, WorkerRead, Tick, Plug, Configure, Unplug, BusChanges, Noise,
         WorkerPublishes, DaemonDies, CacheAges, SetDns
<1>12. QED
  BY <1>2, <1>3, <1>5, <1>6, <1>7, <1>8, <1>9, <1>10, <1>11

\* withPendingToggles: from the click to the engine's answer no report moves the
\* switch, whoever wrote it and whenever it was read.
THEOREM TogglesHold == Spec => PendingHolds
<1>1. IInv /\ [Next]_vars =>
        [\A c \in Client :
           Toggling(client[c]) /\ Toggling(client'[c]) => client'[c].on = client[c].on]_vars
  BY StepHolds
<1>2. QED
  BY <1>1, Inductive, PTL DEF Spec, PendingHolds
=============================================================================
