------------------------------ MODULE BatchRun ------------------------------
(***************************************************************************)
(* BatchRunUtils.runBatch over the Monday mutations: the items of a batch  *)
(* are sent at once, the next batch starts when all of them have settled.  *)
(* Two retryMondayApi loops are nested: the one of runBatch around the     *)
(* item's function, and the one of updateItemColumns inside it around each *)
(* request.  Both retry a "socket hang up" and nothing else.               *)
(*                                                                         *)
(* Delays are not measured: a timer that has been set fires some time.     *)
(***************************************************************************)
EXTENDS Naturals, FiniteSets

CONSTANTS MaxItems,    \* bound on the number of items
          Concurrency, \* size of a batch
          Retries,     \* attempts of runBatch's loop
          CallRetries  \* attempts of the loop around each request

ASSUME ConfigAssumption == /\ MaxItems \in Nat
                           /\ Concurrency \in Nat \ {0}
                           /\ Retries \in Nat \ {0}
                           /\ CallRetries \in Nat \ {0}

VARIABLES n,           \* items.length
          stopOnError, \* config.stopOnError
          pc,          \* runBatch: about to send a batch, awaiting one, or returned
          batch,       \* batchIndex
          op,          \* the operation of each item and both its attempt counters
          results,     \* results, sorted by index
          applied,     \* Monday (external): times the mutation of an item took effect
          hung         \* history: items one of whose requests hung up

vars == <<n, stopOnError, pc, batch, op, results, applied, hung>>

AllItems == 0..MaxItems - 1
Items == {i \in AllItems : i < n}
Op == [st : {"idle", "sent", "backoff", "ok", "failed"}, outer : 0..Retries, inner : 0..CallRetries]
BatchResult == [index : AllItems, success : BOOLEAN, retryAttempts : 0..Retries]
Errors == {"socket hang up", "other"}

TypeOK == /\ n \in 0..MaxItems
          /\ stopOnError \in BOOLEAN
          /\ pc \in {"send", "await", "done"}
          /\ batch \in 0..MaxItems
          /\ op \in [AllItems -> Op]
          /\ results \subseteq BatchResult
          /\ applied \in [AllItems -> 0..Retries * CallRetries]
          /\ hung \subseteq AllItems

Init == /\ n \in 0..MaxItems
        /\ stopOnError \in BOOLEAN
        /\ pc = IF n = 0 THEN "done" ELSE "send"
        /\ batch = 0
        /\ op = [i \in AllItems |-> [st |-> "idle", outer |-> 0, inner |-> 0]]
        /\ results = {}
        /\ applied = [i \in AllItems |-> 0]
        /\ hung = {}

----------------------------------------------------------------------------
(***************************************************************************)
(* Mutant of BatchItems: the upper bound is included.                      *)
(***************************************************************************)
BatchItemsOneMore(b) == {i \in Items : b * Concurrency <= i /\ i <= (b + 1) * Concurrency}

(***************************************************************************)
(* createBatches: batch b holds the items whose index divides to b.        *)
(***************************************************************************)
BatchItems(b) == {i \in Items : b * Concurrency <= i /\ i < (b + 1) * Concurrency}

SendBatch ==
    /\ pc = "send"
    /\ op' = [i \in AllItems |-> IF i \in BatchItems(batch)
                                 THEN [st |-> "sent", outer |-> 1, inner |-> 1] ELSE op[i]]
    /\ pc' = "await"
    /\ UNCHANGED <<n, stopOnError, batch, results, applied, hung>>

(***************************************************************************)
(* Monday (external) has or has not carried the request out.               *)
(***************************************************************************)
TakesEffect(i) == applied' = [applied EXCEPT ![i] = @ + 1]

Succeed(i) ==
    /\ op[i].st = "sent"
    /\ op' = [op EXCEPT ![i].st = "ok"]
    /\ TakesEffect(i)
    /\ UNCHANGED <<n, stopOnError, pc, batch, results, hung>>

(***************************************************************************)
(* Mutant of Retryable: every error is retried.                            *)
(***************************************************************************)
RetryableAny(e) == TRUE

Retryable(e) == e = "socket hang up"

(***************************************************************************)
(* Mutant of AttemptsLeft: one attempt too many.                           *)
(***************************************************************************)
AttemptsLeftOneMore(o) == o.inner < CallRetries \/ o.outer <= Retries

(***************************************************************************)
(* i < retries - 1, in either loop; the inner one rethrows to the outer.   *)
(***************************************************************************)
AttemptsLeft(o) == o.inner < CallRetries \/ o.outer < Retries

(***************************************************************************)
(* The request rejects, or answers with errors, from which the item's      *)
(* function throws.                                                        *)
(***************************************************************************)
Fail(i, e) ==
    /\ op[i].st = "sent"
    /\ op' = [op EXCEPT ![i].st = IF Retryable(e) /\ AttemptsLeft(op[i])
                                  THEN "backoff" ELSE "failed"]
    /\ hung' = IF e = "socket hang up" THEN hung \cup {i} ELSE hung
    /\ TakesEffect(i) \/ UNCHANGED applied
    /\ UNCHANGED <<n, stopOnError, pc, batch, results>>

Retry(i) ==
    LET o == op[i]
    IN  /\ o.st = "backoff"
        /\ op' = [op EXCEPT ![i] =
                     IF o.inner < CallRetries
                     THEN [st |-> "sent", outer |-> o.outer, inner |-> o.inner + 1]
                     ELSE [st |-> "sent", outer |-> o.outer + 1, inner |-> 1]]
        /\ UNCHANGED <<n, stopOnError, pc, batch, results, applied, hung>>

----------------------------------------------------------------------------
(***************************************************************************)
(* Mutant of Settled: only successes are waited for.                       *)
(***************************************************************************)
SettledOk(i) == op[i].st = "ok"

(***************************************************************************)
(* Promise.allSettled on the batch.                                        *)
(***************************************************************************)
Settled(i) == op[i].st \in {"ok", "failed"}

(***************************************************************************)
(* Mutant of Pushed: results are dropped from the first failure on,        *)
(* whatever the configuration.                                             *)
(***************************************************************************)
PushedUpToFailure(b) == {i \in BatchItems(b) :
                            \A j \in BatchItems(b) : j < i => op[j].st = "ok"}

(***************************************************************************)
(* The items whose result is pushed: stopOnError leaves the loop over the  *)
(* batch at its first failure.                                             *)
(***************************************************************************)
Pushed(b) == {i \in BatchItems(b) : stopOnError =>
                 \A j \in BatchItems(b) : j < i => op[j].st = "ok"}

Result(i) == [index |-> i, success |-> op[i].st = "ok",
              retryAttempts |-> IF op[i].st = "ok" THEN op[i].outer ELSE Retries]

(***************************************************************************)
(* Mutant of StopsAfter: stopOnError only leaves the loop over the batch.  *)
(***************************************************************************)
StopsAfterNever(rs) == FALSE

StopsAfter(rs) == stopOnError /\ \E r \in rs : ~r.success

CollectBatch ==
    LET rs == results \cup {Result(i) : i \in Pushed(batch)}
        more == (batch + 1) * Concurrency < n
    IN  /\ pc = "await"
        /\ \A i \in BatchItems(batch) : Settled(i)
        /\ results' = rs
        /\ IF more /\ ~StopsAfter(rs)
           THEN pc' = "send" /\ batch' = batch + 1
           ELSE pc' = "done" /\ UNCHANGED batch
        /\ UNCHANGED <<n, stopOnError, op, applied, hung>>

Next == \/ SendBatch
        \/ \E i \in AllItems : \/ Succeed(i)
                               \/ \E e \in Errors : Fail(i, e)
                               \/ Retry(i)
        \/ CollectBatch

Spec == Init /\ [][Next]_vars

(***************************************************************************)
(* Every request is answered or rejected, every timer fires.               *)
(***************************************************************************)
Fairness == /\ WF_vars(SendBatch)
            /\ WF_vars(CollectBatch)
            /\ \A i \in AllItems : WF_vars(Succeed(i) \/ (\E e \in Errors : Fail(i, e)) \/ Retry(i))

FairSpec == Spec /\ Fairness

----------------------------------------------------------------------------
(* createSummary and createEmptySummary                                    *)

Summary == [total      |-> Cardinality(results),
            successful |-> Cardinality({r \in results : r.success}),
            failed     |-> Cardinality({r \in results : ~r.success})]

Executed == {i \in Items : op[i].st # "idle"}

(***************************************************************************)
(* Items whose outcome stopOnError leaves out: one before them in their    *)
(* batch failed.                                                           *)
(***************************************************************************)
LeftOut == {i \in Executed : stopOnError /\ \E j \in Executed :
               j < i /\ j \div Concurrency = i \div Concurrency /\ op[j].st = "failed"}

(***************************************************************************)
(* What runBatch returns accounts for the executed items, each once and    *)
(* with its own outcome, save those stopOnError leaves out; without it     *)
(* every item is executed.  The counts of the summary add up.              *)
(***************************************************************************)
SummaryMatchesOutcomes ==
    pc = "done" =>
        /\ {r.index : r \in results} = Executed \ LeftOut
        /\ \A r \in results : r.success <=> op[r.index].st = "ok"
        /\ Summary.successful + Summary.failed = Summary.total
        /\ Summary.total = Cardinality(Executed \ LeftOut)
        /\ ~stopOnError => Executed = Items

(***************************************************************************)
(* At most Concurrency operations are under way, retries and their delays  *)
(* included, and none while an item of an earlier batch is.                *)
(***************************************************************************)
UnderWay == {i \in AllItems : op[i].st \in {"sent", "backoff"}}

BoundedConcurrency ==
    /\ Cardinality(UnderWay) <= Concurrency
    /\ \A i, j \in UnderWay : i \div Concurrency = j \div Concurrency

(***************************************************************************)
(* With stopOnError nothing is sent after the batch of the first failure.  *)
(***************************************************************************)
NothingSentAfterFailure ==
    stopOnError => \A i, j \in Executed :
        op[i].st = "failed" => j \div Concurrency <= i \div Concurrency

(***************************************************************************)
(* A mutation takes effect more than once only after a hang-up, the one    *)
(* error that is retried although the request may have been carried out;   *)
(* an item reported as a success took effect.                              *)
(***************************************************************************)
OnlyHangUpsRepeat ==
    /\ \A i \in AllItems : applied[i] > 1 => i \in hung
    /\ \A r \in results : r.success => applied[r.index] > 0

(***************************************************************************)
(* runBatch returns.                                                       *)
(***************************************************************************)
Returns == <>(pc = "done")

(***************************************************************************)
(* What the comment of BatchResult.retryAttempts says: the number of       *)
(* attempts made.                                                          *)
(***************************************************************************)
RetryAttemptsAreThoseMade ==
    \A r \in results : r.retryAttempts = op[r.index].outer
=============================================================================
