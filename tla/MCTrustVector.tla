---------------------------- MODULE MCTrustVector ----------------------------
(***************************************************************************)
(* One model listed bare, with no interface yet, and complete, with and    *)
(* without a serial: identical units, clones, twins, and units told apart  *)
(* by their serial alone; a second model nobody has.                       *)
(***************************************************************************)
EXTENDS TrustVector

MCModel == {"m1", "m2"}
MCSerial == {"s"}
MCInterface == {"hid", "storage"}
MCHid == {"hid"}
MCHub == {}

Dev(m, s, ifs) == [model |-> m, serial |-> s, ifs |-> ifs]

MCListed == {Dev("m1", NoSerial, NoIfs), Dev("m1", NoSerial, {}),
             Dev("m1", NoSerial, {"hid"}), Dev("m1", NoSerial, {"hid", "storage"}),
             Dev("m1", "s", {}), Dev("m1", "s", {"hid"})}

\* A version 1 entry, a blocked device as older releases recorded it, a full entry.
MCFileEntry == {Dev("m1", NoSerial, NoIfs), Dev("m1", "s", {}),
                Dev("m1", NoSerial, {"hid"})}
=============================================================================
