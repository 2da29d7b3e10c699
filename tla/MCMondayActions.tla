-------------------------- MODULE MCMondayActions --------------------------
(***************************************************************************)
(* Instance of MondayActions for TLC: a board of two rows on two pages     *)
(* with two subitems each, a schedule board with the items of two days,    *)
(* two people who send an item to their calendar.  The days 3 and 4 of a   *)
(* month tell the forms of a date apart.                                   *)
(***************************************************************************)
EXTENDS MondayActions

CONSTANTS r1, r2, u1, u2

MCPageOf == [r \in Rows |-> IF r = r1 THEN 1 ELSE 2]

MCScheduled == <<0, 1>>

MCRequests == {<<u1, 1>>, <<u2, 1>>}

MCTime(form) == [form |-> form, first |-> 3, second |-> 4]

MCTimes == {<<MCTime("dmy"), MCTime("iso")>>, <<MCTime("monthName"), MCTime("other")>>}
=============================================================================
