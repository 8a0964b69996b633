---------------------------- MODULE MCParkingLot ----------------------------
(***************************************************************************)
(* Two addresses that collide in tables of one and two slots and not in    *)
(* one of three; load and growth factors of one, so that every new thread  *)
(* resizes the table.  Init chooses who calls what:                        *)
(*   "addresses"  the constants of the .cfg;                               *)
(*   "order"      three threads that park on one address, and two that     *)
(*                lock the whole table.                                    *)
(***************************************************************************)
EXTENDS ParkingLot

CONSTANTS t1, t2, t3

MCThreads == {t1, t2, t3}
MCAddresses == {"a", "b"}
MCHash == [a |-> 0, b |-> 2]

VARIABLE calls

O == INSTANCE ParkingLot WITH
       Parkers <- MCThreads, Unparkers <- {t2}, Walkers <- {t1, t2}, Timeouts <- {t3},
       Addresses <- {"b"}

MCInit == Init /\ calls \in {"addresses", "order"}

MCNext ==
    /\ UNCHANGED calls
    /\ \/ calls = "addresses" /\ Next
       \/ calls = "order" /\ O!Next

MCSpec == MCInit /\ [][MCNext]_<<vars, calls>>
====
