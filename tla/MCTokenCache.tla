---------------------------- MODULE MCTokenCache ----------------------------
(***************************************************************************)
(* Instance of TokenCache for TLC: two concurrent calls on two accounts,   *)
(* two tokens, an entry that lives for one tick.                           *)
(***************************************************************************)
EXTENDS TokenCache

CONSTANTS a1, a2, m1, m2, c1, c2

MCAccounts == {a1, a2}
MCTokens == {m1, m2}
MCCalls == {c1, c2}
=============================================================================
