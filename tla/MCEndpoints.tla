---------------------------- MODULE MCEndpoints ----------------------------
(***************************************************************************)
(* Instance of Endpoints for TLC: three browsers, two of them of one       *)
(* account, and two callbacks, which may be of one flow; three calls on    *)
(* the storage, where an unsubscribe may name the id of a subscribe or     *)
(* another, for two events, and set-storage the key of a subscribe.        *)
(***************************************************************************)
EXTENDS Endpoints

CONSTANTS f1, f2, f3, A, B, i1

MCAccountOf == [f \in Flows |-> IF f = f3 THEN B ELSE A]

MCStorageKeys == {<<"create_calendar_event", i1>>}
=============================================================================
