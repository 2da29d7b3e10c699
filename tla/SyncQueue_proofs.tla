-------------------------- MODULE SyncQueue_proofs --------------------------
(***************************************************************************)
(* Proofs about SyncQueue, for any set of tasks and of keys: its type      *)
(* invariant, the per-key order FifoPerKey, ReadyTaskMayStart, and that    *)
(* every step implements a step of SerialExecutor.                         *)
(***************************************************************************)
EXTENDS SyncQueue, TLAPS

(***************************************************************************)
(* The strengthening.  FifoPerKey alone is not inductive: that the promise *)
(* a chain was built on belongs to the last sync before it, and that the   *)
(* Map always holds the promise of the last sync enqueued, is what makes   *)
(* "previous has settled" mean "everything before me is over".             *)
(***************************************************************************)
Ended(t) == stage[t] \in {"finished", "lost"}

TicketsInv ==
    /\ \A t \in Tasks : stage[t] = "new" <=> key[t] = NoKey
    /\ \A t \in Tasks : stage[t] # "new" => ticket[t] \in 1..calls
    /\ \A t, u \in Tasks :
          (stage[t] # "new" /\ stage[u] # "new" /\ ticket[t] = ticket[u]) => t = u

IsLastOf(p, k) ==
    /\ key[p] = k
    /\ stage[p] # "lost"
    /\ \A u \in Tasks : key[u] = k => ticket[u] <= ticket[p]

QueueInv ==
    \A k \in Keys : \/ /\ syncQueue[k] = NoPromise
                       /\ \A t \in Tasks : key[t] = k => Ended(t)
                    \/ \E p \in Tasks : syncQueue[k] = <<"finally", p>> /\ IsLastOf(p, k)

IsLastBefore(p, t) ==
    /\ p \in Earlier(t)
    /\ stage[p] # "lost"
    /\ \A u \in Earlier(t) : ticket[u] <= ticket[p]

ChainInv ==
    \A t \in Tasks : stage[t] = "waiting" =>
        \/ /\ prev[t] = NoPromise
           /\ \A u \in Earlier(t) : Ended(u)
        \/ \E p \in Tasks : prev[t] = <<"finally", p>> /\ IsLastBefore(p, t)

ResultInv == \A t \in Tasks : stage[t] \in {"settled", "finished"} => result[t] = "fulfilled"

IInv == TypeOK /\ TicketsInv /\ QueueInv /\ ChainInv /\ ResultInv /\ FifoPerKey

----------------------------------------------------------------------------
(***************************************************************************)
(* TypeOK is inductive by itself.                                          *)
(***************************************************************************)
LEMMA TypeStep == TypeOK /\ [Next]_vars => TypeOK'
<1> SUFFICES ASSUME TypeOK, [Next]_vars PROVE TypeOK'
  OBVIOUS
<1> USE DEF TypeOK, Promises, Stages, Results
<1>1. ASSUME NEW t \in Tasks, NEW k \in Keys, EnqueueSync(t, k) PROVE TypeOK'
  <2>1. StoredPromise(t) \in Promises
    BY DEF StoredPromise
  <2> QED BY <1>1, <2>1 DEF EnqueueSync
<1>2. ASSUME NEW t \in Tasks, StartTask(t) PROVE TypeOK'
  BY <1>2 DEF StartTask
<1>3. ASSUME NEW t \in Tasks, NEW r \in {"fulfilled", "rejected"}, SettleTask(t, r)
      PROVE  TypeOK'
  BY <1>3 DEF SettleTask, Caught
<1>4. ASSUME NEW t \in Tasks, RunFinally(t) PROVE TypeOK'
  BY <1>4 DEF RunFinally
<1>5. CASE Crash
  BY <1>5, MaxCrashesAssumption DEF Crash
<1>6. CASE UNCHANGED vars
  BY <1>6 DEF vars
<1> QED BY <1>1, <1>2, <1>3, <1>4, <1>5, <1>6 DEF Next

(***************************************************************************)
(* The Map, the promises and the history keep their types in every         *)
(* reachable state.                                                        *)
(***************************************************************************)
THEOREM TypeCorrect == Spec => []TypeOK
<1>1. Init => TypeOK
  BY MaxCrashesAssumption DEF Init, TypeOK, Promises, Stages, Results
<1> QED BY <1>1, TypeStep, PTL DEF Spec

----------------------------------------------------------------------------
LEMMA InitIInv == Init => IInv
<1> SUFFICES ASSUME Init PROVE IInv
  OBVIOUS
<1>1. TypeOK
  BY MaxCrashesAssumption DEF Init, TypeOK, Promises, Stages, Results
<1>2. TicketsInv
  BY DEF Init, TicketsInv
<1>3. QueueInv
  BY NoKeyNotKey DEF Init, QueueInv, Ended
<1>4. ChainInv /\ ResultInv /\ FifoPerKey
  BY DEF Init, ChainInv, ResultInv, FifoPerKey
<1> QED BY <1>1, <1>2, <1>3, <1>4 DEF IInv

(***************************************************************************)
(* A new sync is the last of its key and of all: nothing that was there is *)
(* disturbed, and its chain is built on the last sync before it.           *)
(***************************************************************************)
LEMMA EnqueueStep ==
  ASSUME IInv, NEW t \in Tasks, NEW k \in Keys, EnqueueSync(t, k)
  PROVE  TicketsInv' /\ QueueInv' /\ ChainInv' /\ ResultInv' /\ FifoPerKey'
<1> USE DEF IInv
<1>0. /\ key[t] = NoKey
      /\ k # NoKey
      /\ calls \in Nat
      /\ \A u \in Tasks : ticket[u] \in Nat
  BY NoKeyNotKey DEF TypeOK, TicketsInv, EnqueueSync
<1>1. /\ stage' = [stage EXCEPT ![t] = "waiting"]
      /\ key' = [key EXCEPT ![t] = k]
      /\ ticket' = [ticket EXCEPT ![t] = calls + 1]
      /\ stage'[t] = "waiting" /\ key'[t] = k /\ ticket'[t] = calls + 1
      /\ prev'[t] = syncQueue[k]
      /\ \A u \in Tasks \ {t} : /\ stage'[u] = stage[u] /\ key'[u] = key[u]
                                /\ ticket'[u] = ticket[u] /\ prev'[u] = prev[u]
      /\ \A j \in Keys \ {k} : syncQueue'[j] = syncQueue[j]
      /\ syncQueue'[k] = <<"finally", t>>
      /\ calls' = calls + 1
      /\ result' = result
  BY DEF EnqueueSync, TypeOK, StoredPromise
<1>2. \A u \in Tasks : key[u] # NoKey => stage[u] # "new" /\ ticket[u] \in 1..calls
  BY DEF TicketsInv
<1>3. TicketsInv'
  BY <1>0, <1>1, <1>2 DEF TicketsInv
<1>4. Earlier(t)' = {u \in Tasks : key[u] = k}
  BY <1>0, <1>1, <1>2 DEF Earlier
<1>5. \A u \in Tasks \ {t} : stage[u] # "new" => Earlier(u)' = Earlier(u)
  <2> SUFFICES ASSUME NEW u \in Tasks \ {t}, stage[u] # "new" PROVE Earlier(u)' = Earlier(u)
    OBVIOUS
  <2>1. key[u] # NoKey /\ ticket[u] \in 1..calls
    BY DEF TicketsInv
  <2>2. t \notin Earlier(u) /\ t \notin Earlier(u)'
    BY <1>0, <1>1, <2>1 DEF Earlier
  <2> QED BY <1>1, <2>2 DEF Earlier
<1>6. QueueInv'
  <2> SUFFICES ASSUME NEW j \in Keys
               PROVE  \/ /\ syncQueue'[j] = NoPromise
                         /\ \A u \in Tasks : key'[u] = j => Ended(u)'
                      \/ \E p \in Tasks : syncQueue'[j] = <<"finally", p>> /\ IsLastOf(p, j)'
    BY DEF QueueInv
  <2>1. CASE j = k
    BY <1>0, <1>1, <1>2, <2>1 DEF IsLastOf
  <2>2. CASE j # k
    <3>1. CASE syncQueue[j] = NoPromise /\ \A u \in Tasks : key[u] = j => Ended(u)
      BY <1>1, <2>2, <3>1 DEF Ended
    <3>2. CASE \E p \in Tasks : syncQueue[j] = <<"finally", p>> /\ IsLastOf(p, j)
      <4> PICK p \in Tasks : syncQueue[j] = <<"finally", p>> /\ IsLastOf(p, j)
        BY <3>2
      <4>1. p # t
        BY <1>0, NoKeyNotKey DEF IsLastOf
      <4>2. IsLastOf(p, j)'
        BY <1>1, <2>2, <4>1 DEF IsLastOf
      <4> QED BY <1>1, <2>2, <4>2
    <3> QED BY <3>1, <3>2 DEF QueueInv
  <2> QED BY <2>1, <2>2
<1>7. ChainInv'
  <2> SUFFICES ASSUME NEW u \in Tasks, stage'[u] = "waiting"
               PROVE  \/ prev'[u] = NoPromise /\ \A v \in Earlier(u)' : Ended(v)'
                      \/ \E p \in Tasks : prev'[u] = <<"finally", p>> /\ IsLastBefore(p, u)'
    BY DEF ChainInv
  <2>1. CASE u = t
    <3>1. CASE syncQueue[k] = NoPromise /\ \A v \in Tasks : key[v] = k => Ended(v)
      BY <1>0, <1>1, <1>4, <2>1, <3>1 DEF Ended
    <3>2. CASE \E p \in Tasks : syncQueue[k] = <<"finally", p>> /\ IsLastOf(p, k)
      <4> PICK p \in Tasks : syncQueue[k] = <<"finally", p>> /\ IsLastOf(p, k)
        BY <3>2
      <4>1. p # t /\ p \in Earlier(t)'
        BY <1>0, <1>4 DEF IsLastOf
      <4>2. IsLastBefore(p, u)'
        BY <1>0, <1>1, <1>4, <2>1, <4>1 DEF IsLastBefore, IsLastOf
      <4> QED BY <1>1, <2>1, <4>2
    <3> QED BY <3>1, <3>2 DEF QueueInv
  <2>2. CASE u # t
    <3>0. stage[u] = "waiting" /\ Earlier(u)' = Earlier(u) /\ t \notin Earlier(u)
      <4>1. stage[u] = "waiting"
        BY <1>1, <2>2
      <4>2. key[u] # NoKey
        BY <4>1 DEF TicketsInv
      <4> QED BY <1>0, <1>5, <2>2, <4>1, <4>2 DEF Earlier
    <3>1. CASE prev[u] = NoPromise /\ \A v \in Earlier(u) : Ended(v)
      BY <1>1, <2>2, <3>0, <3>1 DEF Ended, Earlier
    <3>2. CASE \E p \in Tasks : prev[u] = <<"finally", p>> /\ IsLastBefore(p, u)
      <4> PICK p \in Tasks : prev[u] = <<"finally", p>> /\ IsLastBefore(p, u)
        BY <3>2
      <4>1. IsLastBefore(p, u)'
        <5>1. p \in Earlier(u)' /\ p # t
          BY <3>0 DEF IsLastBefore
        <5>2. \A v \in Earlier(u)' : ticket'[v] <= ticket'[p]
          BY <1>1, <3>0, <5>1 DEF IsLastBefore, Earlier
        <5> QED BY <1>1, <5>1, <5>2 DEF IsLastBefore
      <4> QED BY <1>1, <2>2, <4>1
    <3> QED BY <3>0, <3>1, <3>2 DEF ChainInv
  <2> QED BY <2>1, <2>2
<1>8. ResultInv'
  BY <1>1 DEF ResultInv
<1>9. FifoPerKey'
  <2> SUFFICES ASSUME NEW u \in Tasks, stage'[u] \in {"running", "settled", "finished"},
                      NEW v \in Earlier(u)'
               PROVE  Over(v)'
    BY DEF FifoPerKey
  <2>1. u # t /\ stage[u] = stage'[u] /\ stage[u] # "new"
    BY <1>1
  <2>2. v \in Earlier(u) /\ v # t
    <3>1. key[u] # NoKey
      BY <2>1 DEF TicketsInv
    <3> QED BY <1>0, <1>5, <2>1, <3>1 DEF Earlier
  <2> QED BY <1>1, <2>1, <2>2 DEF FifoPerKey, Over, Earlier
<1> QED BY <1>3, <1>6, <1>7, <1>8, <1>9

(***************************************************************************)
(* A started sync found its predecessor finished, and by FifoPerKey for    *)
(* the predecessor all the earlier ones over.                              *)
(***************************************************************************)
LEMMA StartStep ==
  ASSUME IInv, NEW t \in Tasks, StartTask(t)
  PROVE  TicketsInv' /\ QueueInv' /\ ChainInv' /\ ResultInv' /\ FifoPerKey'
<1> USE DEF IInv
<1>1. /\ stage[t] = "waiting" /\ stage'[t] = "running"
      /\ \A u \in Tasks \ {t} : stage'[u] = stage[u]
      /\ UNCHANGED <<syncQueue, prev, result, key, ticket, calls>>
  BY DEF StartTask, TypeOK
<1>2. TicketsInv'
  BY <1>1 DEF TicketsInv
<1>3. QueueInv'
  BY <1>1 DEF QueueInv, Ended, IsLastOf
<1>4. \A u \in Tasks : Earlier(u)' = Earlier(u)
  BY <1>1 DEF Earlier
<1>5. ChainInv'
  <2> SUFFICES ASSUME NEW u \in Tasks, stage'[u] = "waiting"
               PROVE  \/ prev'[u] = NoPromise /\ \A v \in Earlier(u)' : Ended(v)'
                      \/ \E p \in Tasks : prev'[u] = <<"finally", p>> /\ IsLastBefore(p, u)'
    BY DEF ChainInv
  <2>1. u # t /\ stage[u] = "waiting"
    BY <1>1
  <2>2. CASE prev[u] = NoPromise /\ \A v \in Earlier(u) : Ended(v)
    BY <1>1, <1>4, <2>2 DEF Ended, Earlier
  <2>3. CASE \E p \in Tasks : prev[u] = <<"finally", p>> /\ IsLastBefore(p, u)
    BY <1>1, <1>4, <2>3 DEF IsLastBefore
  <2> QED BY <2>1, <2>2, <2>3 DEF ChainInv
<1>6. ResultInv'
  BY <1>1 DEF ResultInv
<1>7. \A v \in Earlier(t) : Over(v)
  <2>1. CASE prev[t] = NoPromise /\ \A v \in Earlier(t) : Ended(v)
    BY <2>1 DEF Ended, Over
  <2>2. CASE \E p \in Tasks : prev[t] = <<"finally", p>> /\ IsLastBefore(p, t)
    <3> PICK p \in Tasks : prev[t] = <<"finally", p>> /\ IsLastBefore(p, t)
      BY <2>2
    <3>1. stage[p] = "finished"
      BY NoPromiseAssumption DEF StartTask, Settled
    <3>2. ASSUME NEW v \in Earlier(t) PROVE v = p \/ v \in Earlier(p)
      <4>1. /\ key[v] = key[t] /\ key[p] = key[t]
            /\ ticket[v] <= ticket[p]
            /\ v \in Tasks /\ p \in Tasks
        BY <3>2 DEF IsLastBefore, Earlier
      <4>2. stage[t] # "new" /\ stage[v] # "new" /\ stage[p] # "new"
        BY <1>1, <4>1 DEF TicketsInv
      <4>3. ticket[v] \in Nat /\ ticket[p] \in Nat
        BY <4>1 DEF TypeOK
      <4> QED BY <4>1, <4>2, <4>3 DEF TicketsInv, Earlier
    <3> QED BY <3>1, <3>2 DEF FifoPerKey, Over
  <2> QED BY <1>1, <2>1, <2>2 DEF ChainInv
<1>8. FifoPerKey'
  <2> SUFFICES ASSUME NEW u \in Tasks, stage'[u] \in {"running", "settled", "finished"},
                      NEW v \in Earlier(u)'
               PROVE  Over(v)'
    BY DEF FifoPerKey
  <2>1. Over(v)
    BY <1>1, <1>4, <1>7 DEF FifoPerKey
  <2> QED BY <1>1, <2>1 DEF Over, Earlier
<1> QED BY <1>2, <1>3, <1>5, <1>6, <1>8

(***************************************************************************)
(* The end of a task and its finally callback only make more of the past   *)
(* over; the callback leaves the Map alone, because the Map never holds a  *)
(* "next" promise.                                                         *)
(***************************************************************************)
LEMMA AdvanceStep ==
  ASSUME IInv, NEW t \in Tasks,
         (\E r \in {"fulfilled", "rejected"} : SettleTask(t, r)) \/ RunFinally(t)
  PROVE  TicketsInv' /\ QueueInv' /\ ChainInv' /\ ResultInv' /\ FifoPerKey'
<1> USE DEF IInv
<1>1. /\ stage[t] \in {"running", "settled"}
      /\ stage'[t] \in {"settled", "finished"}
      /\ \A u \in Tasks \ {t} : stage'[u] = stage[u] /\ result'[u] = result[u]
      /\ UNCHANGED <<prev, key, ticket, calls>>
  BY DEF SettleTask, RunFinally, TypeOK
<1>2. result'[t] = "fulfilled"
  BY DEF SettleTask, RunFinally, TypeOK, Caught, ResultInv
<1>3. syncQueue' = syncQueue
  <2>1. CASE \E r \in {"fulfilled", "rejected"} : SettleTask(t, r)
    BY <2>1 DEF SettleTask
  <2>2. CASE RunFinally(t)
    <3>1. \A k \in Keys : syncQueue[k] # <<"next", t>>
      BY NoPromiseAssumption DEF QueueInv
    <3>2. syncQueue' = [k \in Keys |-> syncQueue[k]]
      BY <2>2, <3>1 DEF RunFinally
    <3> QED BY <3>2 DEF TypeOK
  <2> QED BY <2>1, <2>2
<1>4. TicketsInv'
  BY <1>1 DEF TicketsInv
<1>5. \A u \in Tasks : Ended(u) => Ended(u)'
  BY <1>1 DEF Ended
<1>6. QueueInv'
  BY <1>1, <1>3, <1>5 DEF QueueInv, IsLastOf
<1>7. \A u \in Tasks : Earlier(u)' = Earlier(u)
  BY <1>1 DEF Earlier
<1>8. ChainInv'
  <2> SUFFICES ASSUME NEW u \in Tasks, stage'[u] = "waiting"
               PROVE  \/ prev'[u] = NoPromise /\ \A v \in Earlier(u)' : Ended(v)'
                      \/ \E p \in Tasks : prev'[u] = <<"finally", p>> /\ IsLastBefore(p, u)'
    BY DEF ChainInv
  <2>1. u # t /\ stage[u] = "waiting"
    BY <1>1
  <2>2. CASE prev[u] = NoPromise /\ \A v \in Earlier(u) : Ended(v)
    BY <1>1, <1>5, <1>7, <2>2 DEF Earlier
  <2>3. CASE \E p \in Tasks : prev[u] = <<"finally", p>> /\ IsLastBefore(p, u)
    BY <1>1, <1>7, <2>3 DEF IsLastBefore
  <2> QED BY <2>1, <2>2, <2>3 DEF ChainInv
<1>9. ResultInv'
  BY <1>1, <1>2 DEF ResultInv
<1>10. FifoPerKey'
  BY <1>1, <1>7 DEF FifoPerKey, Over, Earlier
<1> QED BY <1>4, <1>6, <1>8, <1>9, <1>10

(***************************************************************************)
(* A restart ends or drops every sync there was.                           *)
(***************************************************************************)
LEMMA CrashStep ==
  ASSUME IInv, Crash
  PROVE  TicketsInv' /\ QueueInv' /\ ChainInv' /\ ResultInv' /\ FifoPerKey'
<1> USE DEF IInv
<1>1. /\ \A t \in Tasks : /\ stage[t] # "new" => stage'[t] \in {"finished", "lost"}
                          /\ stage[t] = "new" => stage'[t] = "new"
                          /\ stage'[t] = "finished" => stage[t] \in {"settled", "finished"}
      /\ \A k \in Keys : syncQueue'[k] = NoPromise
      /\ UNCHANGED <<prev, result, key, ticket, calls>>
  BY DEF Crash, TypeOK, Stages
<1>2. TicketsInv'
  BY <1>1 DEF TicketsInv
<1>3. QueueInv'
  BY <1>1, NoKeyNotKey DEF QueueInv, Ended, TicketsInv
<1>4. ChainInv' /\ ResultInv'
  BY <1>1 DEF ChainInv, ResultInv, TypeOK, Stages
<1>5. FifoPerKey'
  BY <1>1 DEF FifoPerKey, Over, Earlier, TypeOK, Stages
<1> QED BY <1>2, <1>3, <1>4, <1>5

LEMMA NextIInv == IInv /\ [Next]_vars => IInv'
<1> SUFFICES ASSUME IInv, [Next]_vars PROVE IInv'
  OBVIOUS
<1>1. TypeOK'
  BY TypeStep DEF IInv
<1>2. TicketsInv' /\ QueueInv' /\ ChainInv' /\ ResultInv' /\ FifoPerKey'
  <2>1. ASSUME NEW t \in Tasks, NEW k \in Keys, EnqueueSync(t, k)
        PROVE  TicketsInv' /\ QueueInv' /\ ChainInv' /\ ResultInv' /\ FifoPerKey'
    BY <2>1, EnqueueStep
  <2>2. ASSUME NEW t \in Tasks, StartTask(t)
        PROVE  TicketsInv' /\ QueueInv' /\ ChainInv' /\ ResultInv' /\ FifoPerKey'
    BY <2>2, StartStep
  <2>3. ASSUME NEW t \in Tasks, NEW r \in {"fulfilled", "rejected"}, SettleTask(t, r)
        PROVE  TicketsInv' /\ QueueInv' /\ ChainInv' /\ ResultInv' /\ FifoPerKey'
    BY <2>3, AdvanceStep
  <2>4. ASSUME NEW t \in Tasks, RunFinally(t)
        PROVE  TicketsInv' /\ QueueInv' /\ ChainInv' /\ ResultInv' /\ FifoPerKey'
    BY <2>4, AdvanceStep
  <2>5. CASE Crash
    BY <2>5, CrashStep
  <2>6. CASE UNCHANGED vars
    BY <2>6 DEF vars, IInv, TicketsInv, QueueInv, ChainInv, ResultInv, FifoPerKey,
                Ended, Over, Earlier, IsLastOf, IsLastBefore
  <2> QED BY <2>1, <2>2, <2>3, <2>4, <2>5, <2>6 DEF Next
<1> QED BY <1>1, <1>2 DEF IInv

(***************************************************************************)
(* IInv holds in every reachable state.                                    *)
(***************************************************************************)
THEOREM Invariance == Spec => []IInv
  BY InitIInv, NextIInv, PTL DEF Spec

(***************************************************************************)
(* Syncs of one user, calendar and account never overlap and run in the    *)
(* order of the notifications, whatever the tasks do and across restarts.  *)
(***************************************************************************)
THEOREM PerKeyOrder == Spec => []FifoPerKey
<1>1. IInv => FifoPerKey
  BY DEF IInv
<1> QED BY <1>1, Invariance, PTL

(***************************************************************************)
(* No sync is held back by anything but an earlier sync of its own key.    *)
(***************************************************************************)
THEOREM NoSpuriousWait == Spec => []ReadyTaskMayStart
<1>1. ASSUME IInv PROVE ReadyTaskMayStart
  <2> SUFFICES ASSUME NEW u \in Tasks, stage[u] = "waiting",
                      \A t \in Earlier(u) : stage[t] \in {"finished", "lost"}
               PROVE  Settled(prev[u]) /\ ResultOf(prev[u]) = "fulfilled"
    BY DEF ReadyTaskMayStart
  <2>1. CASE prev[u] = NoPromise
    BY <2>1 DEF Settled, ResultOf
  <2>2. CASE \E p \in Tasks : prev[u] = <<"finally", p>> /\ IsLastBefore(p, u)
    <3> PICK p \in Tasks : prev[u] = <<"finally", p>> /\ IsLastBefore(p, u)
      BY <2>2
    <3>1. stage[p] = "finished" /\ result[p] = "fulfilled"
      BY <1>1 DEF IsLastBefore, IInv, ResultInv
    <3> QED BY <3>1 DEF Settled, ResultOf
  <2> QED BY <1>1, <2>1, <2>2 DEF IInv, ChainInv
<1> QED BY <1>1, Invariance, PTL

----------------------------------------------------------------------------
(***************************************************************************)
(* Refinement: each step of SyncQueue is, through phaseBar, a step of      *)
(* SerialExecutor or leaves it unchanged.                                  *)
(***************************************************************************)
LEMMA InitRefines == Init => Abs!SEInit
  BY DEF Init, Abs!SEInit, phaseBar

LEMMA EnqueueRefines ==
  ASSUME TypeOK, NEW t \in Tasks, NEW k \in Keys, EnqueueSync(t, k)
  PROVE  Abs!Submit(t, k)
<1>1. phaseBar[t] = "idle"
  BY DEF EnqueueSync, phaseBar
<1>2. phaseBar' = [phaseBar EXCEPT ![t] = "queued"]
  BY DEF EnqueueSync, phaseBar, TypeOK
<1> QED BY <1>1, <1>2 DEF EnqueueSync, Abs!Submit

LEMMA StartRefines ==
  ASSUME IInv, NEW t \in Tasks, StartTask(t)
  PROVE  Abs!Begin(t)
<1>1. phaseBar[t] = "queued"
  BY DEF StartTask, phaseBar
<1>2. phaseBar' = [phaseBar EXCEPT ![t] = "running"]
  BY DEF StartTask, phaseBar, IInv, TypeOK
<1>3. \A u \in Abs!Before(t) : phaseBar[u] \in {"ended", "dropped"}
  <2> SUFFICES ASSUME NEW u \in Abs!Before(t) PROVE phaseBar[u] \in {"ended", "dropped"}
    OBVIOUS
  <2>1. u \in Tasks /\ u \in Earlier(t)'
    BY DEF Abs!Before, Earlier, StartTask
  <2>2. stage'[t] = "running" /\ FifoPerKey'
    BY StartStep DEF StartTask, IInv, TypeOK
  <2>3. Over(u)'
    BY <2>1, <2>2 DEF FifoPerKey
  <2>4. u # t
    BY DEF Abs!Before, IInv, TypeOK
  <2>5. Over(u)
    BY <2>1, <2>3, <2>4 DEF Over, StartTask, IInv, TypeOK
  <2> QED BY <2>1, <2>5 DEF Over, phaseBar
<1> QED BY <1>1, <1>2, <1>3 DEF StartTask, Abs!Begin

LEMMA SettleRefines ==
  ASSUME TypeOK, NEW t \in Tasks, NEW r \in {"fulfilled", "rejected"}, SettleTask(t, r)
  PROVE  Abs!End(t)
<1>1. phaseBar[t] = "running"
  BY DEF SettleTask, phaseBar
<1>2. phaseBar' = [phaseBar EXCEPT ![t] = "ended"]
  BY DEF SettleTask, phaseBar, TypeOK
<1> QED BY <1>1, <1>2 DEF SettleTask, Abs!End

LEMMA FinallyRefines ==
  ASSUME TypeOK, NEW t \in Tasks, RunFinally(t)
  PROVE  UNCHANGED Abs!seVars
<1>1. phaseBar' = phaseBar
  BY DEF RunFinally, phaseBar, TypeOK
<1> QED BY <1>1 DEF RunFinally, Abs!seVars

LEMMA CrashRefines == TypeOK /\ Crash => Abs!Restart
<1> SUFFICES ASSUME TypeOK, Crash PROVE Abs!Restart
  OBVIOUS
<1>1. \A t \in Tasks : phaseBar'[t] = IF phaseBar[t] \in {"queued", "running"}
                                      THEN "dropped" ELSE phaseBar[t]
  BY DEF Crash, phaseBar, TypeOK, Stages
<1>2. phaseBar' = [t \in Tasks |-> IF phaseBar[t] \in {"queued", "running"}
                                   THEN "dropped" ELSE phaseBar[t]]
  BY <1>1 DEF phaseBar
<1> QED BY <1>2 DEF Crash, Abs!Restart

LEMMA NextRefines == IInv /\ [Next]_vars => [Abs!SENext]_(Abs!seVars)
<1> SUFFICES ASSUME IInv, [Next]_vars PROVE Abs!SENext \/ UNCHANGED Abs!seVars
  OBVIOUS
<1>0. TypeOK
  BY DEF IInv
<1>1. ASSUME NEW t \in Tasks, NEW k \in Keys, EnqueueSync(t, k) PROVE Abs!SENext
  BY <1>0, <1>1, EnqueueRefines DEF Abs!SENext
<1>2. ASSUME NEW t \in Tasks, StartTask(t) PROVE Abs!SENext
  BY <1>2, StartRefines DEF Abs!SENext
<1>3. ASSUME NEW t \in Tasks, NEW r \in {"fulfilled", "rejected"}, SettleTask(t, r)
      PROVE  Abs!SENext
  BY <1>0, <1>3, SettleRefines DEF Abs!SENext
<1>4. ASSUME NEW t \in Tasks, RunFinally(t) PROVE UNCHANGED Abs!seVars
  BY <1>0, <1>4, FinallyRefines
<1>5. CASE Crash
  BY <1>0, <1>5, CrashRefines DEF Abs!SENext
<1>6. CASE UNCHANGED vars
  BY <1>6 DEF vars, Abs!seVars, phaseBar
<1> QED BY <1>1, <1>2, <1>3, <1>4, <1>5, <1>6 DEF Next

(***************************************************************************)
(* The queue of CalendarWebhookService is a serial executor per key.       *)
(***************************************************************************)
THEOREM Refinement == Spec => Abs!SESpec
  BY InitRefines, NextRefines, Invariance, PTL DEF Spec, Abs!SESpec
=============================================================================
