---------------------------- MODULE MCSyncQueue ----------------------------
(***************************************************************************)
(* Instance of SyncQueue for TLC: three notifications over two queue keys, *)
(* at most one restart.                                                    *)
(***************************************************************************)
EXTENDS SyncQueue

CONSTANTS t1, t2, t3, k1, k2

MCTasks == {t1, t2, t3}
MCKeys == {k1, k2}
=============================================================================
