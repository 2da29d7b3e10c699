----------------------------- MODULE SyncQueue -----------------------------
(***************************************************************************)
(* The per-key queue of CalendarWebhookService: enqueueSync chains each    *)
(* task behind the promise the Map holds for its key.  One promise chain   *)
(* per task; its observable promises are                                   *)
(*    <<"next", t>>     previous.catch().then(task).catch(log)             *)
(*    <<"finally", t>>  next.finally(cleanup), the one the Map stores      *)
(* Node runs the callbacks of settled promises as microtasks; any number   *)
(* of other callbacks may run between the steps below.                     *)
(***************************************************************************)
EXTENDS Naturals

CONSTANTS Tasks, Keys, NoKey,
          NoPromise,   \* the Map has no entry: Promise.resolve() is used
          MaxCrashes   \* bound on process restarts

ASSUME NoKeyNotKey == NoKey \notin Keys
ASSUME NoPromiseAssumption == NoPromise \notin {"next", "finally"} \X Tasks
ASSUME MaxCrashesAssumption == MaxCrashes \in Nat

VARIABLES syncQueue, \* this.syncQueue: key -> promise, or NoPromise
          prev,      \* the promise each chain was built on
          stage,     \* progress of the chain of each task
          result,    \* how the promises of a settled chain settled
          key,       \* key a task was enqueued under
          ticket,    \* history: position of a task in the order of enqueueSync calls
          calls,     \* history: number of enqueueSync calls
          crashes    \* number of restarts so far

vars == <<syncQueue, prev, stage, result, key, ticket, calls, crashes>>

Promises == {"next", "finally"} \X Tasks
Stages == {"new", "waiting", "running", "settled", "finished", "lost"}
Results == {"pending", "fulfilled", "rejected"}

TypeOK == /\ syncQueue \in [Keys -> Promises \cup {NoPromise}]
          /\ prev \in [Tasks -> Promises \cup {NoPromise}]
          /\ stage \in [Tasks -> Stages]
          /\ result \in [Tasks -> Results]
          /\ key \in [Tasks -> Keys \cup {NoKey}]
          /\ ticket \in [Tasks -> Nat]
          /\ calls \in Nat
          /\ crashes \in 0..MaxCrashes

Init == /\ syncQueue = [k \in Keys |-> NoPromise]
        /\ prev = [t \in Tasks |-> NoPromise]
        /\ stage = [t \in Tasks |-> "new"]
        /\ result = [t \in Tasks |-> "pending"]
        /\ key = [t \in Tasks |-> NoKey]
        /\ ticket = [t \in Tasks |-> 0]
        /\ calls = 0
        /\ crashes = 0

----------------------------------------------------------------------------
(***************************************************************************)
(* Mutant of Caught: no catch, the derived promise rejects as well.        *)
(***************************************************************************)
CaughtNot(r) == r

(***************************************************************************)
(* Promise.prototype.catch with a handler that returns: whatever the       *)
(* promise it is attached to does, the derived promise fulfils.            *)
(***************************************************************************)
Caught(r) == "fulfilled"

(***************************************************************************)
(* Mutant of Settled: then(task()) in place of then(task), the task does   *)
(* not wait.                                                               *)
(***************************************************************************)
SettledAtOnce(p) == TRUE

(***************************************************************************)
(* p has settled: the callbacks attached to it may run.                    *)
(***************************************************************************)
Settled(p) == \/ p = NoPromise
              \/ \E t \in Tasks : p = <<"next", t>> /\ stage[t] \in {"settled", "finished"}
              \/ \E t \in Tasks : p = <<"finally", t>> /\ stage[t] = "finished"

ResultOf(p) == IF p = NoPromise THEN "fulfilled" ELSE result[p[2]]

(***************************************************************************)
(* Mutant of StoredPromise: the Map keeps the promise of the bare task.    *)
(***************************************************************************)
StoredTask(t) == <<"task", t>>

(***************************************************************************)
(* The promise put in the Map: the one finally() returns, not next.        *)
(***************************************************************************)
StoredPromise(t) == <<"finally", t>>

(***************************************************************************)
(* Mutant of EnqueueSync: the Map entry is replaced before it is read.     *)
(***************************************************************************)
EnqueueSyncSelf(t, k) ==
    /\ stage[t] = "new"
    /\ prev' = [prev EXCEPT ![t] = StoredPromise(t)]
    /\ syncQueue' = [syncQueue EXCEPT ![k] = StoredPromise(t)]
    /\ stage' = [stage EXCEPT ![t] = "waiting"]
    /\ key' = [key EXCEPT ![t] = k]
    /\ ticket' = [ticket EXCEPT ![t] = calls + 1]
    /\ calls' = calls + 1
    /\ UNCHANGED <<result, crashes>>

(***************************************************************************)
(* Mutant of EnqueueSync: the chain starts from Promise.resolve() every    *)
(* time.                                                                   *)
(***************************************************************************)
EnqueueSyncUnchained(t, k) ==
    /\ stage[t] = "new"
    /\ prev' = [prev EXCEPT ![t] = NoPromise]
    /\ syncQueue' = [syncQueue EXCEPT ![k] = StoredPromise(t)]
    /\ stage' = [stage EXCEPT ![t] = "waiting"]
    /\ key' = [key EXCEPT ![t] = k]
    /\ ticket' = [ticket EXCEPT ![t] = calls + 1]
    /\ calls' = calls + 1
    /\ UNCHANGED <<result, crashes>>

EnqueueSync(t, k) ==
    /\ stage[t] = "new"
    /\ prev' = [prev EXCEPT ![t] = syncQueue[k]]
    /\ syncQueue' = [syncQueue EXCEPT ![k] = StoredPromise(t)]
    /\ stage' = [stage EXCEPT ![t] = "waiting"]
    /\ key' = [key EXCEPT ![t] = k]
    /\ ticket' = [ticket EXCEPT ![t] = calls + 1]
    /\ calls' = calls + 1
    /\ UNCHANGED <<result, crashes>>

(***************************************************************************)
(* previous.catch(() => undefined).then(task): the task starts once the    *)
(* previous promise has settled, whatever its result.                      *)
(***************************************************************************)
StartTask(t) ==
    /\ stage[t] = "waiting"
    /\ Settled(prev[t])
    /\ Caught(ResultOf(prev[t])) = "fulfilled"
    /\ stage' = [stage EXCEPT ![t] = "running"]
    /\ UNCHANGED <<syncQueue, prev, result, key, ticket, calls, crashes>>

(***************************************************************************)
(* The task returns or throws; the second catch logs what it threw.        *)
(***************************************************************************)
SettleTask(t, r) ==
    /\ stage[t] = "running"
    /\ stage' = [stage EXCEPT ![t] = "settled"]
    /\ result' = [result EXCEPT ![t] = Caught(r)]
    /\ UNCHANGED <<syncQueue, prev, key, ticket, calls, crashes>>

(***************************************************************************)
(* The callback given to finally: it deletes the Map entry if the entry is *)
(* the promise next of this very task.                                     *)
(***************************************************************************)
RunFinally(t) ==
    /\ stage[t] = "settled"
    /\ stage' = [stage EXCEPT ![t] = "finished"]
    /\ syncQueue' = [k \in Keys |-> IF k = key[t] /\ syncQueue[k] = <<"next", t>>
                                    THEN NoPromise ELSE syncQueue[k]]
    /\ UNCHANGED <<prev, result, key, ticket, calls, crashes>>

(***************************************************************************)
(* process.exit(1) on an uncaught exception, and the container's restart:  *)
(* the Map and every pending chain live in memory only.                    *)
(***************************************************************************)
Crash ==
    /\ crashes < MaxCrashes
    /\ crashes' = crashes + 1
    /\ syncQueue' = [k \in Keys |-> NoPromise]
    /\ stage' = [t \in Tasks |-> IF stage[t] \in {"waiting", "running"}
                                 THEN "lost"
                                 ELSE IF stage[t] = "settled" THEN "finished" ELSE stage[t]]
    /\ UNCHANGED <<prev, result, key, ticket, calls>>

Next == \/ \E t \in Tasks : \/ \E k \in Keys : EnqueueSync(t, k)
                            \/ StartTask(t)
                            \/ \E r \in {"fulfilled", "rejected"} : SettleTask(t, r)
                            \/ RunFinally(t)
        \/ Crash

Spec == Init /\ [][Next]_vars

(***************************************************************************)
(* The event loop runs the callbacks of settled promises, and every task   *)
(* settles: the HTTP calls it awaits answer or fail.                       *)
(***************************************************************************)
Fairness == \A t \in Tasks : /\ WF_vars(StartTask(t))
                             /\ WF_vars(\E r \in {"fulfilled", "rejected"} : SettleTask(t, r))
                             /\ WF_vars(RunFinally(t))

FairSpec == Spec /\ Fairness
----------------------------------------------------------------------------
(***************************************************************************)
(* The task of t is over: it returned, threw, or was dropped by a restart. *)
(***************************************************************************)
Over(t) == stage[t] \in {"settled", "finished", "lost"}

Earlier(t) == {u \in Tasks : key[u] = key[t] /\ ticket[u] < ticket[t]}

(***************************************************************************)
(* enqueueSync serialises the syncs of a key in call order: when a sync    *)
(* runs or has run, every sync enqueued before it under the same key is    *)
(* over.  Two syncs of one key never overlap and never swap.               *)
(***************************************************************************)
FifoPerKey ==
    \A u \in Tasks : stage[u] \in {"running", "settled", "finished"}
                       => \A t \in Earlier(u) : Over(t)

(***************************************************************************)
(* Nothing but an earlier sync of the same key holds a sync back: not a    *)
(* sync of another key, not a sync that threw, not one that a restart      *)
(* dropped.                                                                *)
(***************************************************************************)
ReadyTaskMayStart ==
    \A u \in Tasks :
        (stage[u] = "waiting" /\ \A t \in Earlier(u) : stage[t] \in {"finished", "lost"})
            => Settled(prev[u]) /\ ResultOf(prev[u]) = "fulfilled"

(***************************************************************************)
(* Every enqueued sync is eventually over, even when syncs before it throw:*)
(* a rejected task does not break the chain of its key.                    *)
(***************************************************************************)
EveryTaskEnds == \A t \in Tasks : (stage[t] = "waiting") ~> Over(t)

(***************************************************************************)
(* The callback of finally is there to delete the entry of a key whose     *)
(* last sync has ended (the Map would otherwise grow by one entry per      *)
(* user, calendar and account ever seen).                                  *)
(***************************************************************************)
IdleKeyHasNoEntry ==
    \A k \in Keys : (\A t \in Tasks : key[t] = k => stage[t] \in {"finished", "lost"})
                     => syncQueue[k] = NoPromise

----------------------------------------------------------------------------
(***************************************************************************)
(* The refinement mapping to SerialExecutor.  A chain whose task is over   *)
(* but whose finally callback has not run yet is already "ended".          *)
(***************************************************************************)
phaseBar == [t \in Tasks |-> CASE stage[t] = "new" -> "idle"
                               [] stage[t] = "waiting" -> "queued"
                               [] stage[t] = "running" -> "running"
                               [] stage[t] = "lost" -> "dropped"
                               [] OTHER -> "ended"]

Abs == INSTANCE SerialExecutor WITH phase <- phaseBar, submitted <- calls

(***************************************************************************)
(* enqueueSync implements the serial executor, fairness included.          *)
(***************************************************************************)
ImplementsSerialExecutor == Abs!SEFairSpec
=============================================================================
