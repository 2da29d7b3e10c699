--------------------------- MODULE MCCalendarSync ---------------------------
(***************************************************************************)
(* Instances of CalendarSync for TLC.                                      *)
(***************************************************************************)
EXTENDS CalendarSync

CONSTANTS u1, u2, a1, a2, e1, e2, t1, t2

OneUser == {u1}
TwoUsers == {u1, u2}
OneAccount == {a1}
TwoAccounts == {a1, a2}
OneEvent == {e1}
TwoEvents == {e1, e2}
OneTask == {t1}
TwoTasks == {t1, t2}

ConnectedUser == {<<u1, a1>>}
ConnectedUsers == {<<u1, a1>>, <<u2, a1>>}

(***************************************************************************)
(* Connects of a user that has a channel already: with a state token that  *)
(* names no account, or another account.                                   *)
(***************************************************************************)
SecondChannel == {<<u1, NoAccount, 1>>}
SecondAccount == {<<u1, a2, 1>>}
NoChannel == {}
=============================================================================
