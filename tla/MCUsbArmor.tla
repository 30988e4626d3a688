----------------------------- MODULE MCUsbArmor -----------------------------
(***************************************************************************)
(* Values of the constants of UsbArmor for TLC: two scans and a trust; two *)
(* ports and a root hub's; a keyboard, a clone of it that is also a        *)
(* storage device (same model), a storage stick and a hub that passes for  *)
(* the same model.  Each setting asks something else of them.              *)
(***************************************************************************)
EXTENDS UsbArmor, TLC

CONSTANTS s1, s2, t1

MCScanner == {s1, s2}
MCTruster == {t1}
Symmetry == Permutations({s1, s2})

MCPort == {1, 2, 3}
MCRootPort == {3}

MCModel == {"m1", "m2"}
MCInterface == {"hid", "storage", "hub"}
MCHid == {"hid"}
MCHub == {"hub"}

Dev(m, ifs) == [model |-> m, serial |-> NoSerial, ifs |-> ifs]

Keyboard == Dev("m1", {"hid"})
Clone == Dev("m1", {"hid", "storage"})
Stick == Dev("m2", {"storage"})
Hub == Dev("m2", {"hub"})
Legacy(m) == Dev(m, NoIfs)

MCDevice == {Keyboard, Clone, Stick, Hub}

Settled(d) == [dev |-> d, auth |-> TRUE, ifs |-> d.ifs]
JustPlugged(d) == [dev |-> d, auth |-> TRUE, ifs |-> NoIfs]
Blocked(d) == [dev |-> d, auth |-> FALSE, ifs |-> NoIfs]

Absent == [state |-> "absent", entries |-> {}]
Corrupt == [state |-> "corrupt", entries |-> {}]

-----------------------------------------------------------------------------
(***************************************************************************)
(* Settings.  The plain one: a scan with Armor on, a keyboard that nobody  *)
(* has approved, a block that may fail; nothing comes or goes.             *)
(***************************************************************************)
Plain == [ports     |-> {<<Settled(Keyboard), Empty, Empty>>},
          baselines |-> {Saved({})},
          armor     |-> {TRUE},
          active    |-> {s1},
          plugs     |-> {},
          toggles   |-> FALSE,
          clock     |-> FALSE,
          fails     |-> TRUE]

\* Two scans migrate and block, identical units among the devices.
Migration ==
  [Plain EXCEPT
     !.active = {s1, s2},
     !.baselines = {Saved({Legacy("m1")}), Saved({Legacy("m1"), Keyboard}),
                    Saved({Legacy("m1"), Stick}), Saved({Clone})},
     !.ports = {<<a, b, Empty>> : a, b \in {Settled(d) : d \in {Keyboard, Clone, Stick}}}]

\* Two scans and a trust around one file.
Trusting ==
  [Plain EXCEPT
     !.active = {s1, s2, t1}, !.fails = FALSE,
     !.baselines = {Saved({Clone}), Saved({Legacy("m1"), Clone})}]

\* A keyboard and its clone come and go around a scan and a trust.
HotPlug ==
  [Plain EXCEPT
     !.active = {s1, t1}, !.fails = FALSE,
     !.plugs = {1} \X {Keyboard, Clone},
     !.ports = {<<Empty, Empty, Empty>>},
     !.baselines = {Saved({Legacy("m1"), Clone})}]

\* A file that cannot be read.
CorruptFile ==
  [Plain EXCEPT
     !.active = {s1, t1}, !.toggles = TRUE,
     !.baselines = {Corrupt}]

\* A hub and a stick take each other's port, below a root hub.
Hubs ==
  [Plain EXCEPT
     !.toggles = TRUE,
     !.plugs = {1} \X {Hub, Stick},
     !.ports = {<<Empty, Empty, Settled(Hub)>>},
     !.baselines = {Saved({}), Saved({Stick}), Saved({Legacy("m2")})}]

\* No file yet, and devices that settle late or are blocked.
FirstRun ==
  [Plain EXCEPT
     !.active = {s1, s2}, !.fails = FALSE,
     !.ports = {<<a, b, Empty>> :
                  a, b \in {Settled(Keyboard), JustPlugged(Stick), Blocked(Stick)}},
     !.baselines = {Absent}]

\* A first scan around a trust, a device blocked before it starts.
FirstTrust ==
  [FirstRun EXCEPT
     !.active = {s1, t1},
     !.ports = {<<Settled(Keyboard), Blocked(Stick), Empty>>}]

\* Two scans each meet a device the other did not list, and failures of both.
TwoPorts ==
  [Plain EXCEPT
     !.active = {s1, s2}, !.clock = TRUE,
     !.plugs = {1} \X {Keyboard},
     !.ports = {<<Empty, Settled(Stick), Empty>>,
                <<Settled(Keyboard), Settled(Stick), Empty>>}]

SafetySettings ==
  "migration" :> Migration @@ "hubs" :> Hubs @@
  "corruptFile" :> CorruptFile @@ "firstRun" :> FirstRun @@
  "firstTrust" :> FirstTrust @@ "twoPorts" :> TwoPorts

HotPlugSettings == "hotPlug" :> HotPlug @@ "trusting" :> Trusting

\* Two scans, a keyboard that comes and goes, and the clock.
LiveSettings ==
  "live" :> [Plain EXCEPT !.active = {s1, s2}, !.plugs = {1} \X {Keyboard},
                          !.clock = TRUE]

-----------------------------------------------------------------------------
(* Settings in which the code breaks what its comments say. *)

StaleBlock == "staleBlock" :> [Plain EXCEPT !.active = {s1, t1}]

HalfEnumerated ==
  "halfEnumerated" :> [Plain EXCEPT !.ports = {<<JustPlugged(Clone), Empty, Empty>>},
                                    !.baselines = {Saved({Clone})}]

FirstRunRace ==
  "firstRunRace" :> [Plain EXCEPT !.active = {s1, t1},
                                  !.plugs = {1} \X {Keyboard, Clone},
                                  !.ports = {<<Empty, Empty, Empty>>},
                                  !.baselines = {Absent}]

LostFailure == "lostFailure" :> [Plain EXCEPT !.active = {s1, s2}, !.clock = TRUE]

LongDialog == "longDialog" :> [Plain EXCEPT !.clock = TRUE]

=============================================================================
