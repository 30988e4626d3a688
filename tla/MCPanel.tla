------------------------------ MODULE MCPanel ------------------------------
(***************************************************************************)
(* Values of the constants of Panel for TLC.  A tick is some 0.4 seconds   *)
(* of the daemon's settle time and its bound; the recheck, the interval of *)
(* the reports and the number of rechecks are cut to the shortest that     *)
(* keep their order.                                                       *)
(***************************************************************************)
EXTENDS Panel

CONSTANTS c1, c2, d1, d2

Stick(settled) == [dev |-> d1, settled |-> settled]

\* A daemon, and a port that changes; nobody looks.
Usb == [socket |-> TRUE, timed |-> TRUE, usb |-> TRUE, ui |-> FALSE, faults |-> FALSE, events |-> 3,
        bus |-> {Stick(TRUE)}, devices |-> {d1}, dns |-> {"DoT"}, owner |-> {c1},
        clients |-> {}, opened |-> {}]

Polled == [Usb EXCEPT !.socket = FALSE, !.devices = {d1, d2}]

\* A client with its switch and its daemon, or one that another owns and takes
\* away; the daemon reports at any time, and the port does not change.
Ui == [Usb EXCEPT !.timed = FALSE, !.usb = FALSE, !.ui = TRUE, !.faults = TRUE, !.events = 3,
                  !.dns = {"DHCP", "Custom"}, !.owner = {None, c2}, !.clients = {c1}]

MCSetting == {Usb, Polled, Ui}

\* One client, and one switch that is clicked.
StaleToggle == {[Ui EXCEPT !.faults = FALSE, !.dns = {"DHCP"}, !.owner = {None}, !.opened = {c1}, !.events = 1]}
=============================================================================
