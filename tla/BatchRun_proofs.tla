-------------------------- MODULE BatchRun_proofs --------------------------
(***************************************************************************)
(* Proofs about BatchRun, for any number of items, batch size and number   *)
(* of attempts.                                                            *)
(***************************************************************************)
EXTENDS BatchRun, WellFoundedInduction, FiniteSetTheorems, TLAPS

(***************************************************************************)
(* The requests of item i so far, when the outer loop is at its o-th       *)
(* attempt and the inner one at its k-th.                                  *)
(***************************************************************************)
Requests(o, k) == IF o = 0 THEN 0 ELSE (o - 1) * CallRetries + k

(***************************************************************************)
(* Types are inductive with this: an item that was not sent has done       *)
(* nothing, a request on its way has no effect yet, and a timer is set     *)
(* only while an attempt is left.                                          *)
(***************************************************************************)
AttemptsInv ==
    \A i \in AllItems :
        /\ op[i].st = "idle" => applied[i] = 0 /\ op[i].outer = 0
        /\ op[i].st # "idle" => op[i].outer \in 1..Retries /\ op[i].inner \in 1..CallRetries
        /\ op[i].st = "sent" => applied[i] < Requests(op[i].outer, op[i].inner)
        /\ applied[i] <= Requests(op[i].outer, op[i].inner)
        /\ op[i].st = "backoff" => AttemptsLeft(op[i])

(***************************************************************************)
(* How far the batches have come.                                          *)
(***************************************************************************)
ProgressInv ==
    /\ pc # "done" => batch * Concurrency < n
    /\ \A i \in AllItems : op[i].st # "idle" =>
          /\ i < n
          /\ i < (batch + 1) * Concurrency
          /\ pc = "send" => i < batch * Concurrency
    /\ \A i \in UnderWay : pc = "await" /\ batch * Concurrency <= i

TInv == TypeOK /\ AttemptsInv /\ ProgressInv

(***************************************************************************)
(* With stopOnError a failed item belongs to the last batch sent.          *)
(***************************************************************************)
StopInv ==
    stopOnError => \A i \in AllItems : op[i].st = "failed" =>
        batch * Concurrency <= i /\ pc # "send"

(***************************************************************************)
(* An item that has never hung up has sent one request.                    *)
(***************************************************************************)
RepeatInv ==
    /\ \A i \in AllItems \ hung : /\ applied[i] <= 1
                                  /\ op[i].st = "sent" => applied[i] = 0
                                  /\ op[i].st # "backoff"
    /\ \A i \in AllItems : op[i].st = "ok" => applied[i] > 0
    /\ \A r \in results : r.success => op[r.index].st = "ok"

(***************************************************************************)
(* What the results are about.  Collected bounds the items of the batches  *)
(* whose outcome has been looked at; an item that stopOnError skips comes  *)
(* after a failed one of its batch.                                        *)
(***************************************************************************)
Collected == (IF pc = "done" THEN batch + 1 ELSE batch) * Concurrency

Skipped(i) == stopOnError /\ \E j \in AllItems :
                 j < i /\ j \div Concurrency = i \div Concurrency /\ op[j].st = "failed"

Reported == {i \in Items : i < Collected /\ ~Skipped(i)}

(***************************************************************************)
(* The results are those of the reported items, which have settled; every  *)
(* item up to the current batch has been sent; without stopOnError the     *)
(* last batch is the one that ends the items.                              *)
(***************************************************************************)
OutcomeInv ==
    /\ \A i \in Items : i < batch * Concurrency => op[i].st # "idle"
    /\ pc # "send" => \A i \in Items : i < (batch + 1) * Concurrency => op[i].st # "idle"
    /\ \A i \in Items : i < Collected => Settled(i)
    /\ results = {Result(i) : i \in Reported}
    /\ pc = "done" /\ ~stopOnError => n <= (batch + 1) * Concurrency

----------------------------------------------------------------------------
(* Arithmetic *)

LEMMA TimesMono ==
  ASSUME NEW a \in Nat, NEW b \in Nat, NEW c \in Nat, a <= b
  PROVE  a * c <= b * c /\ a * c \in Nat /\ b * c \in Nat
<1>1. b * c = a * c + (b - a) * c
  BY SMT
<1>2. (b - a) * c \in Nat /\ a * c \in Nat
  BY SMT
<1> QED BY <1>1, <1>2

LEMMA TimesSucc ==
  ASSUME NEW a \in Int, NEW c \in Int
  PROVE  (a + 1) * c = a * c + c /\ (a - 1) * c = a * c - c
  BY SMT

LEMMA BelowProduct ==
  ASSUME NEW a \in Nat, NEW c \in Nat \ {0}
  PROVE  a <= a * c
  BY SMT

(***************************************************************************)
(* The batch of an item is the quotient of its index.                      *)
(***************************************************************************)
LEMMA Quotient ==
  ASSUME NEW i \in Nat, NEW q \in Nat, NEW c \in Nat \ {0}
  PROVE  /\ q * c <= i => q <= i \div c
         /\ i < (q + 1) * c => i \div c <= q
<1>1. /\ i \div c \in Nat
      /\ (i \div c) * c <= i
      /\ i < ((i \div c) + 1) * c
  BY SMT
<1> DEFINE d == i \div c
<1>2. ASSUME q * c <= i, ~(q <= d) PROVE FALSE
  <2>1. (d + 1) * c <= q * c
    BY <1>1, <1>2, TimesMono
  <2> QED BY <1>1, <1>2, <2>1, TimesMono
<1>3. ASSUME i < (q + 1) * c, ~(d <= q) PROVE FALSE
  <2>1. (q + 1) * c <= d * c
    BY <1>1, <1>3, TimesMono
  <2> QED BY <1>1, <1>3, <2>1, TimesMono
<1> QED BY <1>1, <1>2, <1>3

(***************************************************************************)
(* A set of naturals that is not empty has a least member.                 *)
(***************************************************************************)
LEMMA Least ==
  ASSUME NEW S, S \subseteq Nat, S # {}
  PROVE  \E x \in S : \A y \in S : ~(y < x)
<1> DEFINE Lt == {ss \in Nat \X Nat : ss[1] < ss[2]}
<1>1. IsWellFoundedOn(Lt, Nat)
  BY NatLessThanWellFounded DEF OpToRel
<1> HIDE DEF Lt
<1>2. PICK x \in S : \A y \in S : ~(<<y, x>> \in Lt)
  BY <1>1, WFMin
<1> QED BY <1>2 DEF Lt

----------------------------------------------------------------------------
(* Types, attempts and progress *)

LEMMA OpFields ==
  ASSUME TypeOK, NEW i \in AllItems
  PROVE  /\ op[i] \in Op
         /\ op[i].st \in {"idle", "sent", "backoff", "ok", "failed"}
         /\ op[i].outer \in 0..Retries
         /\ op[i].inner \in 0..CallRetries
         /\ applied[i] \in Nat
         /\ i \in Nat /\ i < MaxItems
  BY ConfigAssumption, TimesMono DEF TypeOK, Op, AllItems

(***************************************************************************)
(* The requests of an item are at most as many as both loops allow.        *)
(***************************************************************************)
LEMMA RequestsBound ==
  ASSUME NEW o \in 0..Retries, NEW k \in 0..CallRetries
  PROVE  Requests(o, k) \in 0..Retries * CallRetries
<1>1. CASE o = 0
  BY <1>1, ConfigAssumption, TimesMono DEF Requests
<1>2. CASE o # 0
  <2>1. o * CallRetries <= Retries * CallRetries /\ (o - 1) * CallRetries \in Nat
    BY <1>2, ConfigAssumption, TimesMono
  <2>2. (o - 1) * CallRetries = o * CallRetries - CallRetries
    BY ConfigAssumption, TimesSucc
  <2>3. o * CallRetries \in Nat /\ Retries * CallRetries \in Nat
    BY ConfigAssumption, TimesMono
  <2> QED BY <1>2, <2>1, <2>2, <2>3, ConfigAssumption DEF Requests
<1> QED BY <1>1, <1>2

(***************************************************************************)
(* The next attempt of either loop is one request more.                    *)
(***************************************************************************)
LEMMA NextRequest ==
  ASSUME NEW o \in 1..Retries, NEW k \in 1..CallRetries
  PROVE  /\ Requests(o, k) \in Nat
         /\ Requests(o, k + 1) = Requests(o, k) + 1
         /\ Requests(o + 1, 1) = Requests(o, CallRetries) + 1
<1>1. (o - 1) * CallRetries \in Nat /\ o * CallRetries \in Nat
  BY ConfigAssumption, TimesMono
<1>2. (o - 1) * CallRetries = o * CallRetries - CallRetries
  BY ConfigAssumption, TimesSucc
<1> QED BY <1>1, <1>2, ConfigAssumption DEF Requests

LEMMA InitTInv == Init => TInv
<1> SUFFICES ASSUME Init PROVE TInv
  OBVIOUS
<1>1. \A i \in AllItems : op[i] = [st |-> "idle", outer |-> 0, inner |-> 0] /\ applied[i] = 0
  BY DEF Init
<1>2. 0 \in 0..Retries * CallRetries
  BY RequestsBound, ConfigAssumption, TimesMono
<1>3. TypeOK
  BY <1>2, ConfigAssumption DEF Init, TypeOK, Op
<1>4. AttemptsInv
  BY <1>1 DEF AttemptsInv, Requests
<1>5. ProgressInv
  <2>1. 0 * Concurrency = 0
    BY ConfigAssumption
  <2> QED BY <1>1, <2>1, ConfigAssumption DEF Init, ProgressInv, UnderWay
<1> QED BY <1>3, <1>4, <1>5 DEF TInv

LEMMA BatchItemsIn ==
  ASSUME TypeOK, NEW i \in BatchItems(batch)
  PROVE  /\ i \in AllItems /\ i < n
         /\ batch * Concurrency <= i /\ i < (batch + 1) * Concurrency
  BY DEF BatchItems, Items

LEMMA SendBatchTInv == TInv /\ SendBatch => TInv'
<1> SUFFICES ASSUME TInv, SendBatch PROVE TInv'
  OBVIOUS
<1> DEFINE r == [st |-> "sent", outer |-> 1, inner |-> 1]
<1>1. \A i \in AllItems : op'[i] = IF i \in BatchItems(batch) THEN r ELSE op[i]
  BY DEF SendBatch
<1>2. r \in Op
  BY ConfigAssumption DEF Op
<1>3. TypeOK'
  BY <1>1, <1>2 DEF TInv, TypeOK, SendBatch
<1>4. ASSUME NEW i \in BatchItems(batch) PROVE op[i].st = "idle"
  BY <1>4, BatchItemsIn, ConfigAssumption, TimesMono
     DEF TInv, ProgressInv, SendBatch, TypeOK, AllItems
<1>5. Requests(1, 1) = 1
  BY ConfigAssumption DEF Requests
<1>6. AttemptsInv'
  <2> SUFFICES ASSUME NEW i \in AllItems
               PROVE  /\ op'[i].st = "idle" => applied'[i] = 0 /\ op'[i].outer = 0
                      /\ op'[i].st # "idle" => op'[i].outer \in 1..Retries
                                               /\ op'[i].inner \in 1..CallRetries
                      /\ op'[i].st = "sent" => applied'[i] < Requests(op'[i].outer, op'[i].inner)
                      /\ applied'[i] <= Requests(op'[i].outer, op'[i].inner)
                      /\ op'[i].st = "backoff" => AttemptsLeft(op'[i])
    BY DEF AttemptsInv, AttemptsLeft, Requests
  <2>1. applied' = applied
    BY DEF SendBatch
  <2>2. CASE i \in BatchItems(batch)
    <3>1. op'[i] = r /\ applied[i] = 0
      BY <1>1, <1>4, <2>2 DEF TInv, AttemptsInv
    <3> QED BY <1>5, <2>1, <3>1, ConfigAssumption
  <2>3. CASE i \notin BatchItems(batch)
    BY <1>1, <2>1, <2>3 DEF TInv, AttemptsInv
  <2> QED BY <2>2, <2>3
<1>7. ProgressInv'
  <2>1. \A i \in AllItems : i \in BatchItems(batch) \/ op'[i] = op[i]
    BY <1>1
  <2>2. \A i \in UnderWay' : i \in BatchItems(batch)
    BY <2>1 DEF TInv, ProgressInv, SendBatch, UnderWay
  <2> QED BY <1>1, <2>2, BatchItemsIn, ConfigAssumption DEF TInv, ProgressInv, SendBatch
<1> QED BY <1>3, <1>6, <1>7 DEF TInv

(***************************************************************************)
(* A step of one item keeps TInv if the item's record and count are right. *)
(***************************************************************************)
LEMMA ItemTInv ==
  ASSUME TInv, NEW i \in AllItems, NEW r \in Op, NEW m \in Nat,
         op' = [op EXCEPT ![i] = r], applied' = [applied EXCEPT ![i] = m],
         UNCHANGED <<n, stopOnError, pc, batch, results>>, hung' \subseteq AllItems,
         i \in UnderWay, r.st # "idle",
         r.outer \in 1..Retries, r.inner \in 1..CallRetries,
         m <= Requests(r.outer, r.inner),
         r.st = "sent" => m < Requests(r.outer, r.inner),
         r.st = "backoff" => AttemptsLeft(r)
  PROVE  TInv'
<1>1. /\ op'[i] = r /\ applied'[i] = m
      /\ \A j \in AllItems \ {i} : op'[j] = op[j] /\ applied'[j] = applied[j]
  BY DEF TInv, TypeOK
<1>2. m \in 0..Retries * CallRetries
  BY RequestsBound, ConfigAssumption, TimesMono
<1>3. TypeOK'
  BY <1>2 DEF TInv, TypeOK
<1>4. AttemptsInv'
  <2> SUFFICES ASSUME NEW j \in AllItems
               PROVE  /\ op'[j].st = "idle" => applied'[j] = 0 /\ op'[j].outer = 0
                      /\ op'[j].st # "idle" => op'[j].outer \in 1..Retries
                                               /\ op'[j].inner \in 1..CallRetries
                      /\ op'[j].st = "sent" => applied'[j] < Requests(op'[j].outer, op'[j].inner)
                      /\ applied'[j] <= Requests(op'[j].outer, op'[j].inner)
                      /\ op'[j].st = "backoff" => AttemptsLeft(op'[j])
    BY DEF AttemptsInv, AttemptsLeft, Requests
  <2>1. CASE j = i
    BY <1>1, <2>1
  <2>2. CASE j # i
    BY <1>1, <2>2 DEF TInv, AttemptsInv
  <2> QED BY <2>1, <2>2
<1>5. ProgressInv'
  BY <1>1 DEF TInv, ProgressInv, UnderWay
<1> QED BY <1>3, <1>4, <1>5 DEF TInv

LEMMA SucceedTInv == ASSUME TInv, NEW i \in AllItems, Succeed(i) PROVE TInv'
<1> DEFINE r == [op[i] EXCEPT !.st = "ok"]
<1>1. r \in Op /\ r.st = "ok" /\ r.outer = op[i].outer /\ r.inner = op[i].inner
  BY OpFields DEF TInv, Op
<1>2. op' = [op EXCEPT ![i] = r] /\ applied' = [applied EXCEPT ![i] = applied[i] + 1]
  BY DEF Succeed, TakesEffect, TInv, TypeOK
<1>3. /\ op[i].outer \in 1..Retries /\ op[i].inner \in 1..CallRetries
      /\ applied[i] < Requests(op[i].outer, op[i].inner)
      /\ Requests(op[i].outer, op[i].inner) \in Nat
  BY NextRequest DEF Succeed, TInv, AttemptsInv
<1>4. applied[i] + 1 \in Nat /\ applied[i] + 1 <= Requests(r.outer, r.inner)
  BY <1>1, <1>3, OpFields DEF TInv
<1> HIDE DEF r
<1> QED BY <1>1, <1>2, <1>3, <1>4, ItemTInv DEF Succeed, TInv, TypeOK, UnderWay

LEMMA FailTInv == ASSUME TInv, NEW i \in AllItems, NEW e \in Errors, Fail(i, e) PROVE TInv'
<1> DEFINE s == IF Retryable(e) /\ AttemptsLeft(op[i]) THEN "backoff" ELSE "failed"
           r == [op[i] EXCEPT !.st = s]
<1>1. r \in Op /\ r.st = s /\ r.outer = op[i].outer /\ r.inner = op[i].inner
  BY OpFields DEF TInv, Op
<1>2. PICK m \in {applied[i], applied[i] + 1} :
         op' = [op EXCEPT ![i] = r] /\ applied' = [applied EXCEPT ![i] = m]
  BY DEF Fail, TakesEffect, TInv, TypeOK
<1>3. /\ op[i].outer \in 1..Retries /\ op[i].inner \in 1..CallRetries
      /\ applied[i] < Requests(op[i].outer, op[i].inner)
      /\ Requests(op[i].outer, op[i].inner) \in Nat
  BY NextRequest DEF Fail, TInv, AttemptsInv
<1>4. m \in Nat /\ m <= Requests(r.outer, r.inner)
  BY <1>1, <1>2, <1>3, OpFields DEF TInv
<1>5. r.st # "idle" /\ r.st # "sent" /\ (r.st = "backoff" => AttemptsLeft(r))
  BY <1>1 DEF AttemptsLeft
<1>6. hung' \subseteq AllItems
  BY DEF Fail, TInv, TypeOK
<1> HIDE DEF r
<1> QED BY <1>1, <1>2, <1>3, <1>4, <1>5, <1>6, ItemTInv DEF Fail, UnderWay

LEMMA RetryTInv == ASSUME TInv, NEW i \in AllItems, Retry(i) PROVE TInv'
<1> DEFINE o == op[i]
           r == IF o.inner < CallRetries
                THEN [st |-> "sent", outer |-> o.outer, inner |-> o.inner + 1]
                ELSE [st |-> "sent", outer |-> o.outer + 1, inner |-> 1]
<1>1. /\ o \in Op /\ o.outer \in 1..Retries /\ o.inner \in 1..CallRetries
      /\ applied[i] \in Nat /\ applied[i] <= Requests(o.outer, o.inner)
      /\ o.inner < CallRetries \/ o.outer < Retries
  BY OpFields DEF Retry, TInv, AttemptsInv, AttemptsLeft
<1>2. /\ r \in Op /\ r.st = "sent"
      /\ r.outer \in 1..Retries /\ r.inner \in 1..CallRetries
      /\ \/ o.inner < CallRetries /\ r.outer = o.outer /\ r.inner = o.inner + 1
         \/ o.inner = CallRetries /\ r.outer = o.outer + 1 /\ r.inner = 1
  BY <1>1, ConfigAssumption DEF Op
<1>3. Requests(r.outer, r.inner) = Requests(o.outer, o.inner) + 1
      /\ Requests(o.outer, o.inner) \in Nat
  BY <1>1, <1>2, NextRequest
<1>4. op' = [op EXCEPT ![i] = r]
  BY DEF Retry
<1>5. applied' = [applied EXCEPT ![i] = applied[i]]
  BY DEF Retry, TInv, TypeOK
<1>6. applied[i] < Requests(r.outer, r.inner)
  BY <1>1, <1>3
<1>7. Requests(r.outer, r.inner) \in Nat
  BY <1>3
<1>8. i \in UnderWay /\ hung' \subseteq AllItems
      /\ UNCHANGED <<n, stopOnError, pc, batch, results>>
  BY DEF Retry, TInv, TypeOK, UnderWay
<1>9. /\ r \in Op /\ r.outer \in 1..Retries /\ r.inner \in 1..CallRetries
      /\ r.st = "sent" /\ applied[i] \in Nat
  BY <1>1, <1>2
<1>10. applied[i] <= Requests(r.outer, r.inner)
  BY <1>6, <1>7, <1>9
<1>11. r.st # "idle" /\ (r.st = "backoff" => AttemptsLeft(r))
  BY <1>9
<1> HIDE DEF r, o
<1> QED BY <1>4, <1>5, <1>6, <1>8, <1>9, <1>10, <1>11, ItemTInv

----------------------------------------------------------------------------
(* Collecting a batch *)

LEMMA CollectTInv == TInv /\ CollectBatch => TInv'
<1> SUFFICES ASSUME TInv, CollectBatch PROVE TInv'
  OBVIOUS
<1> DEFINE rs == results \cup {Result(i) : i \in Pushed(batch)}
           more == (batch + 1) * Concurrency < n
<1>1. /\ pc = "await" /\ results' = rs
      /\ UNCHANGED <<n, stopOnError, op, applied, hung>>
      /\ \/ more /\ ~StopsAfter(rs) /\ pc' = "send" /\ batch' = batch + 1
         \/ pc' = "done" /\ batch' = batch
  BY DEF CollectBatch
<1>2. ASSUME NEW i \in Pushed(batch) PROVE Result(i) \in BatchResult
  <2>1. i \in AllItems
    BY BatchItemsIn DEF Pushed, TInv
  <2>2. op[i].outer \in 0..Retries /\ Retries \in 0..Retries
    BY <2>1, OpFields, ConfigAssumption DEF TInv
  <2> QED BY <2>1, <2>2 DEF Result, BatchResult
<1>3. results' \subseteq BatchResult
  BY <1>1, <1>2 DEF TInv, TypeOK
<1>4. more => batch + 1 <= MaxItems
  BY BelowProduct, ConfigAssumption DEF TInv, TypeOK
<1>5. TypeOK'
  BY <1>1, <1>3, <1>4, ConfigAssumption DEF TInv, TypeOK
<1>6. AttemptsInv'
  BY <1>1 DEF TInv, AttemptsInv, AttemptsLeft, Requests
<1>7. ProgressInv'
  <2>1. /\ batch * Concurrency <= (batch + 1) * Concurrency
        /\ (batch + 1) * Concurrency <= (batch + 2) * Concurrency
        /\ batch + 2 = (batch + 1) + 1
    BY ConfigAssumption, TimesMono DEF TInv, TypeOK
  <2>2. /\ (batch + 1) * Concurrency \in Nat /\ (batch + 2) * Concurrency \in Nat
    BY ConfigAssumption, TimesMono DEF TInv, TypeOK
  <2>3. \A i \in AllItems : i \in Nat
    BY DEF AllItems
  <2>6. UnderWay = {}
    <3> SUFFICES ASSUME NEW i \in UnderWay PROVE FALSE
      OBVIOUS
    <3>1. i \in BatchItems(batch)
      BY DEF TInv, ProgressInv, UnderWay, BatchItems, Items
    <3> QED BY <3>1 DEF CollectBatch, Settled, UnderWay
  <2>7. UnderWay' = {}
    BY <1>1, <2>6 DEF UnderWay
  <2>4. CASE pc' = "send" /\ batch' = batch + 1 /\ more
    BY <1>1, <2>1, <2>2, <2>3, <2>4, <2>7 DEF TInv, ProgressInv, TypeOK
  <2>5. CASE pc' = "done" /\ batch' = batch
    BY <1>1, <2>5, <2>7 DEF TInv, ProgressInv
  <2> QED BY <1>1, <2>4, <2>5
<1> QED BY <1>5, <1>6, <1>7 DEF TInv

LEMMA NextTInv == TInv /\ [Next]_vars => TInv'
<1> SUFFICES ASSUME TInv, [Next]_vars PROVE TInv'
  OBVIOUS
<1>1. CASE SendBatch
  BY <1>1, SendBatchTInv
<1>2. ASSUME NEW i \in AllItems, Succeed(i) PROVE TInv'
  BY <1>2, SucceedTInv
<1>3. ASSUME NEW i \in AllItems, NEW e \in Errors, Fail(i, e) PROVE TInv'
  BY <1>3, FailTInv
<1>4. ASSUME NEW i \in AllItems, Retry(i) PROVE TInv'
  BY <1>4, RetryTInv
<1>5. CASE CollectBatch
  BY <1>5, CollectTInv
<1>6. CASE UNCHANGED vars
  BY <1>6 DEF vars, TInv, TypeOK, AttemptsInv, AttemptsLeft, Requests, ProgressInv, UnderWay
<1> QED BY <1>1, <1>2, <1>3, <1>4, <1>5, <1>6 DEF Next

LEMMA Types == Spec => []TInv
<1> QED BY InitTInv, NextTInv, PTL DEF Spec

(***************************************************************************)
(* The state of the batch runner is well typed; in particular an item is   *)
(* sent, and takes effect, at most Retries * CallRetries times.            *)
(***************************************************************************)
THEOREM TypeCorrect == Spec => []TypeOK
<1>1. TInv => TypeOK
  BY DEF TInv
<1> QED BY <1>1, Types, PTL

----------------------------------------------------------------------------
(* The stop on error *)

(***************************************************************************)
(* A batch with a failed item stops the run: its first failure is pushed.  *)
(***************************************************************************)
LEMMA FailureStops ==
  ASSUME TInv, stopOnError, \A i \in BatchItems(batch) : Settled(i),
         NEW f \in BatchItems(batch), op[f].st = "failed"
  PROVE  StopsAfter(results \cup {Result(i) : i \in Pushed(batch)})
<1> DEFINE F == {i \in BatchItems(batch) : op[i].st = "failed"}
<1>1. F # {} /\ F \subseteq Nat
  BY DEF BatchItems, Items, AllItems
<1>2. PICK g \in F : \A i \in F : ~(i < g)
  BY <1>1, Least
<1>3. \A j \in BatchItems(batch) : j < g => op[j].st = "ok"
  BY <1>2 DEF Settled
<1>4. g \in Pushed(batch) /\ ~Result(g).success
  BY <1>2, <1>3 DEF Pushed, Result
<1> QED BY <1>4 DEF StopsAfter

LEMMA StopStep == TInv /\ StopInv /\ [Next]_vars => StopInv'
<1> SUFFICES ASSUME TInv, StopInv, [Next]_vars, stopOnError',
                    NEW i \in AllItems, op'[i].st = "failed"
             PROVE  batch' * Concurrency <= i /\ pc' # "send"
  BY DEF StopInv
<1>0. stopOnError
  BY DEF Next, vars, SendBatch, Succeed, Fail, Retry, CollectBatch
<1>1. CASE SendBatch
  <2>1. op[i].st = "failed"
    BY <1>1 DEF SendBatch, TInv, TypeOK
  <2> QED BY <1>0, <1>1, <2>1 DEF SendBatch, StopInv
<1>2. ASSUME NEW j \in AllItems, Succeed(j) \/ Retry(j)
      PROVE  batch' * Concurrency <= i /\ pc' # "send"
  <2>1. op'[j].st # "failed" /\ \A k \in AllItems \ {j} : op'[k] = op[k]
    <3>1. CASE Succeed(j)
      BY <3>1 DEF Succeed, TInv, TypeOK, Op
    <3>2. CASE Retry(j)
      BY <3>2 DEF Retry, TInv, TypeOK
    <3> QED BY <1>2, <3>1, <3>2
  <2>2. op[i].st = "failed" /\ batch' = batch /\ pc' = pc
    BY <1>2, <2>1 DEF Succeed, Retry
  <2> QED BY <1>0, <2>2 DEF StopInv
<1>3. ASSUME NEW j \in AllItems, NEW e \in Errors, Fail(j, e)
      PROVE  batch' * Concurrency <= i /\ pc' # "send"
  <2>1. CASE i = j
    BY <1>3, <2>1 DEF Fail, TInv, ProgressInv, UnderWay
  <2>2. CASE i # j
    <3>1. op[i].st = "failed"
      BY <1>3, <2>2 DEF Fail, TInv, TypeOK
    <3> QED BY <1>0, <1>3, <3>1 DEF Fail, StopInv
  <2> QED BY <2>1, <2>2
<1>4. CASE CollectBatch
  <2> DEFINE rs == results \cup {Result(j) : j \in Pushed(batch)}
  <2>1. op[i].st = "failed" /\ pc = "await" /\ \A j \in BatchItems(batch) : Settled(j)
    BY <1>4 DEF CollectBatch
  <2>2. batch * Concurrency <= i
    BY <1>0, <2>1 DEF StopInv
  <2>3. i \in BatchItems(batch)
    BY <2>1, <2>2 DEF TInv, ProgressInv, BatchItems, Items
  <2>4. StopsAfter(rs)
    BY <1>0, <2>1, <2>3, FailureStops
  <2>5. pc' = "done" /\ batch' = batch
    BY <1>4, <2>4 DEF CollectBatch
  <2> QED BY <2>2, <2>5
<1>5. CASE UNCHANGED vars
  BY <1>0, <1>5 DEF vars, StopInv
<1> QED BY <1>1, <1>2, <1>3, <1>4, <1>5 DEF Next

LEMMA StopImplies == TInv /\ StopInv => NothingSentAfterFailure
<1> SUFFICES ASSUME TInv, StopInv, stopOnError, NEW i \in Executed, NEW j \in Executed,
                    op[i].st = "failed"
             PROVE  j \div Concurrency <= i \div Concurrency
  BY DEF NothingSentAfterFailure
<1>1. /\ i \in AllItems /\ j \in AllItems /\ i \in Nat /\ j \in Nat
      /\ batch \in Nat /\ op[j].st # "idle"
  BY DEF Executed, Items, AllItems, TInv, TypeOK
<1>2. batch * Concurrency <= i
  BY <1>1 DEF StopInv
<1>3. j < (batch + 1) * Concurrency
  BY <1>1 DEF TInv, ProgressInv
<1>4. batch <= i \div Concurrency /\ j \div Concurrency <= batch
  BY <1>1, <1>2, <1>3, Quotient, ConfigAssumption
<1>5. i \div Concurrency \in Int /\ j \div Concurrency \in Int
  BY <1>1, ConfigAssumption
<1> QED BY <1>1, <1>4, <1>5

(***************************************************************************)
(* With stopOnError nothing is sent after the batch of the first failure.  *)
(***************************************************************************)
THEOREM Barrier == Spec => []NothingSentAfterFailure
<1>1. Init => StopInv
  BY DEF Init, StopInv
<1> QED BY <1>1, Types, StopStep, StopImplies, PTL DEF Spec

----------------------------------------------------------------------------
(* Concurrency *)

(***************************************************************************)
(* At most Concurrency operations are under way, all of one batch.         *)
(***************************************************************************)
THEOREM Concurrent == Spec => []BoundedConcurrency
<1>1. TInv => BoundedConcurrency
  <2> SUFFICES ASSUME TInv PROVE BoundedConcurrency
    OBVIOUS
  <2> DEFINE lo == batch * Concurrency
             hi == (batch + 1) * Concurrency
  <2>1. lo \in Nat /\ hi \in Nat /\ hi = lo + Concurrency /\ batch \in Nat
    BY ConfigAssumption, TimesMono, TimesSucc DEF TInv, TypeOK
  <2>2. \A i \in UnderWay : i \in Nat /\ lo <= i /\ i < hi
    BY DEF UnderWay, AllItems, TInv, ProgressInv
  <2>3. ASSUME NEW i \in UnderWay PROVE i \div Concurrency = batch
    <3>1. batch <= i \div Concurrency /\ i \div Concurrency <= batch
      BY <2>1, <2>2, Quotient, ConfigAssumption
    <3>2. i \div Concurrency \in Int
      BY <2>2, ConfigAssumption
    <3> QED BY <2>1, <3>1, <3>2
  <2> HIDE DEF lo, hi
  <2>4. UnderWay \subseteq lo..(hi - 1)
    BY <2>1, <2>2
  <2>5. /\ IsFiniteSet(lo..(hi - 1))
        /\ Cardinality(lo..(hi - 1)) = Concurrency
    BY <2>1, FS_Interval, ConfigAssumption
  <2>6. Cardinality(UnderWay) <= Concurrency
    BY <2>4, <2>5, FS_Subset
  <2> QED BY <2>3, <2>6 DEF BoundedConcurrency
<1> QED BY <1>1, Types, PTL

----------------------------------------------------------------------------
(* Repetition *)

LEMMA RepeatStep == TInv /\ RepeatInv /\ [Next]_vars => RepeatInv'
<1> SUFFICES ASSUME TInv, RepeatInv, [Next]_vars PROVE RepeatInv'
  OBVIOUS
<1>0. \A i \in AllItems : applied[i] \in Nat /\ op[i].st \in {"idle", "sent", "backoff", "ok", "failed"}
  BY OpFields DEF TInv
<1>a. \A r \in results : r.index \in AllItems
  BY DEF TInv, TypeOK, BatchResult
<1>1. CASE SendBatch
  <2>1. \A i \in AllItems : i \in BatchItems(batch) \/ op'[i] = op[i]
    BY <1>1 DEF SendBatch
  <2>2. \A i \in BatchItems(batch) : i \in AllItems /\ op[i].st = "idle"
    BY <1>1, BatchItemsIn, ConfigAssumption, TimesMono
       DEF TInv, ProgressInv, SendBatch, TypeOK, AllItems
  <2>3. \A i \in BatchItems(batch) : op'[i].st = "sent" /\ applied[i] = 0
    BY <1>1, <2>2 DEF SendBatch, TInv, AttemptsInv
  <2> QED BY <1>0, <1>a, <1>1, <2>1, <2>2, <2>3 DEF SendBatch, RepeatInv
<1>2. ASSUME NEW i \in AllItems, Succeed(i) PROVE RepeatInv'
  <2>1. /\ op'[i].st = "ok" /\ applied'[i] = applied[i] + 1
        /\ \A j \in AllItems \ {i} : op'[j] = op[j] /\ applied'[j] = applied[j]
    BY <1>2 DEF Succeed, TakesEffect, TInv, TypeOK, Op
  <2> QED BY <1>0, <1>a, <1>2, <2>1 DEF Succeed, RepeatInv
<1>3. ASSUME NEW i \in AllItems, NEW e \in Errors, Fail(i, e) PROVE RepeatInv'
  <2>1. /\ op'[i].st \in {"backoff", "failed"}
        /\ op'[i].st = "backoff" => e = "socket hang up"
        /\ applied'[i] \in {applied[i], applied[i] + 1}
        /\ \A j \in AllItems \ {i} : op'[j] = op[j] /\ applied'[j] = applied[j]
    BY <1>3 DEF Fail, TakesEffect, Retryable, TInv, TypeOK, Op
  <2>2. hung \subseteq hung' /\ (e = "socket hang up" => i \in hung') /\ op[i].st = "sent"
        /\ results' = results
    BY <1>3 DEF Fail
  <2>3. \A r \in results' : r.success => op'[r.index].st = "ok"
    BY <1>a, <2>1, <2>2 DEF RepeatInv
  <2>4. \A j \in AllItems : op'[j].st = "ok" => applied'[j] > 0
    BY <2>1 DEF RepeatInv
  <2>5. ASSUME NEW j \in AllItems \ hung'
        PROVE  applied'[j] <= 1 /\ (op'[j].st = "sent" => applied'[j] = 0) /\ op'[j].st # "backoff"
    <3>1. CASE j = i
      <4>1. e # "socket hang up" /\ i \notin hung
        BY <2>2, <2>5, <3>1
      <4>2. op'[i].st = "failed"
        BY <2>1, <4>1
      <4>3. applied[i] = 0
        BY <2>2, <4>1 DEF RepeatInv
      <4> QED BY <2>1, <3>1, <4>2, <4>3
    <3>2. CASE j # i
      BY <2>1, <2>2, <3>2 DEF RepeatInv
    <3> QED BY <3>1, <3>2
  <2> QED BY <2>3, <2>4, <2>5 DEF RepeatInv
<1>4. ASSUME NEW i \in AllItems, Retry(i) PROVE RepeatInv'
  <2>1. /\ op'[i].st = "sent" /\ op[i].st = "backoff" /\ applied' = applied
        /\ \A j \in AllItems \ {i} : op'[j] = op[j]
    BY <1>4 DEF Retry, TInv, TypeOK
  <2> QED BY <1>0, <1>a, <1>4, <2>1 DEF Retry, RepeatInv
<1>5. CASE CollectBatch
  <2>1. ASSUME NEW i \in Pushed(batch), Result(i).success
        PROVE  op[Result(i).index].st = "ok"
    BY <2>1 DEF Result
  <2> QED BY <1>5, <2>1 DEF CollectBatch, RepeatInv
<1>6. CASE UNCHANGED vars
  BY <1>6 DEF vars, RepeatInv
<1> QED BY <1>1, <1>2, <1>3, <1>4, <1>5, <1>6 DEF Next

(***************************************************************************)
(* A mutation takes effect more than once only after a hang-up, and a      *)
(* reported success took effect.                                           *)
(***************************************************************************)
THEOREM Repetition == Spec => []OnlyHangUpsRepeat
<1>1. Init => RepeatInv
  BY DEF Init, RepeatInv
<1>2. TInv /\ RepeatInv => OnlyHangUpsRepeat
  <2> SUFFICES ASSUME TInv, RepeatInv PROVE OnlyHangUpsRepeat
    OBVIOUS
  <2>1. \A i \in AllItems : applied[i] \in Nat
    BY OpFields DEF TInv
  <2>2. \A r \in results : r.index \in AllItems
    BY DEF TInv, TypeOK, BatchResult
  <2> QED BY <2>1, <2>2 DEF OnlyHangUpsRepeat, RepeatInv
<1> QED BY <1>1, <1>2, Types, RepeatStep, PTL DEF Spec

----------------------------------------------------------------------------
(* The summary *)

(***************************************************************************)
(* Two items are of one batch when their indices divide to the same.       *)
(***************************************************************************)
LEMMA SameBatch ==
  ASSUME NEW i \in Nat, NEW j \in Nat, NEW q \in Nat, NEW c \in Nat \ {0},
         q * c <= i, i < (q + 1) * c
  PROVE  j \div c = i \div c <=> q * c <= j /\ j < (q + 1) * c
<1>1. /\ i \div c \in Nat /\ j \div c \in Nat
      /\ (j \div c) * c <= j
      /\ j < ((j \div c) + 1) * c
  BY SMT
<1>2. q <= i \div c /\ i \div c <= q
  BY Quotient
<1>3. i \div c = q
  BY <1>1, <1>2
<1>4. ASSUME q * c <= j, j < (q + 1) * c PROVE j \div c = q
  <2>1. q <= j \div c /\ j \div c <= q
    BY <1>4, Quotient
  <2> QED BY <1>1, <2>1
<1> QED BY <1>1, <1>3, <1>4

LEMMA InitOutcome == Init => OutcomeInv
<1> SUFFICES ASSUME Init PROVE OutcomeInv
  OBVIOUS
<1>1. 0 * Concurrency = 0 /\ (0 + 1) * Concurrency = Concurrency
  BY ConfigAssumption
<1>2. \A i \in Items : i \in Nat /\ i < n
  BY DEF Items, AllItems
<1>3. n \in Nat /\ batch = 0 /\ pc = (IF n = 0 THEN "done" ELSE "send") /\ results = {}
  BY ConfigAssumption DEF Init
<1>4. \A i \in Items : ~(i < Collected)
  <2>1. CASE n = 0
    BY <1>2, <2>1
  <2>2. CASE n # 0
    BY <1>1, <1>2, <1>3, <2>2 DEF Collected
  <2> QED BY <2>1, <2>2
<1>5. Reported = {}
  BY <1>4 DEF Reported
<1>6. \A i \in Items : ~(i < batch * Concurrency)
  BY <1>1, <1>2, <1>3
<1>7. pc # "send" => Items = {}
  BY <1>2, <1>3
<1>8. pc = "done" => n <= (batch + 1) * Concurrency
  BY <1>1, <1>3, ConfigAssumption
<1> QED BY <1>3, <1>4, <1>5, <1>6, <1>7, <1>8 DEF OutcomeInv

(***************************************************************************)
(* A step that leaves the items of the collected batches as they are       *)
(* leaves what is reported about them as it is.                            *)
(***************************************************************************)
LEMMA SameReported ==
  ASSUME TInv, OutcomeInv, UNCHANGED <<n, stopOnError, results>>, Collected' = Collected,
         \A i \in Items : i < Collected => op'[i] = op[i]
  PROVE  /\ results' = {Result(i)' : i \in Reported'}
         /\ \A i \in Items : i < Collected => Settled(i)'
<1>1. Items' = Items /\ Collected \in Int /\ \A i \in Items : i \in AllItems /\ i \in Nat
  BY ConfigAssumption, TimesMono DEF Items, AllItems, TInv, TypeOK, Collected
<1>2. \A i \in Items : i < Collected => Result(i)' = Result(i) /\ (Settled(i)' <=> Settled(i))
  BY DEF Result, Settled
<1>3. ASSUME NEW i \in Items, i < Collected PROVE Skipped(i)' <=> Skipped(i)
  <2>1. ASSUME NEW j \in AllItems, j < i, op[j].st = "failed" \/ op'[j].st = "failed"
        PROVE  op'[j] = op[j]
    <3>1. j \in Nat /\ n \in Nat /\ i < n /\ i \in Nat
      BY <1>1, ConfigAssumption DEF AllItems, Items, TInv, TypeOK
    <3>2. j \in Items
      BY <2>1, <3>1 DEF Items
    <3>3. j < Collected
      BY <1>1, <1>3, <2>1, <3>1
    <3> QED BY <3>2, <3>3
  <2> QED BY <2>1 DEF Skipped
<1>4. Reported' = Reported
  BY <1>1, <1>3 DEF Reported
<1>5. {Result(i)' : i \in Reported'} = {Result(i) : i \in Reported}
  BY <1>2, <1>4 DEF Reported
<1> QED BY <1>2, <1>5 DEF OutcomeInv

LEMMA SendOutcome == TInv /\ OutcomeInv /\ SendBatch => OutcomeInv'
<1> SUFFICES ASSUME TInv, OutcomeInv, SendBatch PROVE OutcomeInv'
  OBVIOUS
<1> DEFINE lo == batch * Concurrency
           hi == (batch + 1) * Concurrency
<1>1. /\ pc = "send" /\ pc' = "await" /\ UNCHANGED <<n, stopOnError, results, batch>>
      /\ Collected' = Collected /\ Collected = lo /\ Items' = Items
      /\ lo' = lo /\ hi' = hi
  BY DEF SendBatch, Collected, Items
<1>2. lo \in Nat /\ hi \in Nat /\ \A i \in Items : i \in AllItems /\ i \in Nat
  BY ConfigAssumption, TimesMono DEF Items, AllItems, TInv, TypeOK
<1>3. \A i \in Items : IF lo <= i /\ i < hi THEN op'[i].st = "sent" ELSE op'[i] = op[i]
  BY <1>2 DEF SendBatch, BatchItems
<1>4. \A i \in Items : i < lo => op[i].st # "idle"
  BY DEF OutcomeInv
<1> HIDE DEF lo, hi
<1>5. \A i \in Items : i < Collected => op'[i] = op[i]
  BY <1>1, <1>2, <1>3
<1>6. /\ results' = {Result(i)' : i \in Reported'}
      /\ \A i \in Items : i < Collected => Settled(i)'
  BY <1>1, <1>5, SameReported
<1>7. \A i \in Items : i < hi => op'[i].st # "idle"
  BY <1>2, <1>3, <1>4
<1>8. \A i \in Items : i < lo => op'[i].st # "idle"
  BY <1>2, <1>3, <1>4
<1> QED BY <1>1, <1>6, <1>7, <1>8 DEF OutcomeInv, lo, hi

(***************************************************************************)
(* An item that is under way is of no collected batch.                     *)
(***************************************************************************)
LEMMA ItemOutcome ==
  ASSUME TInv, OutcomeInv, NEW k \in UnderWay, NEW r, r.st # "idle",
         op' = [op EXCEPT ![k] = r], UNCHANGED <<n, stopOnError, pc, batch, results>>
  PROVE  OutcomeInv'
<1>1. k \in AllItems /\ k \in Nat /\ pc = "await" /\ batch * Concurrency <= k
  BY DEF UnderWay, AllItems, TInv, ProgressInv
<1>2. Collected = batch * Concurrency /\ Collected' = Collected /\ Items' = Items
      /\ batch * Concurrency \in Nat
  BY <1>1, ConfigAssumption, TimesMono DEF Collected, Items, TInv, TypeOK
<1>3. op'[k] = r /\ \A i \in AllItems \ {k} : op'[i] = op[i]
  BY <1>1 DEF TInv, TypeOK
<1>4. \A i \in Items : i \in AllItems /\ i \in Nat
  BY DEF Items, AllItems
<1>5. \A i \in Items : i < Collected => op'[i] = op[i]
  BY <1>1, <1>2, <1>3, <1>4
<1>6. /\ results' = {Result(i)' : i \in Reported'}
      /\ \A i \in Items : i < Collected => Settled(i)'
  BY <1>2, <1>5, SameReported
<1>7. \A i \in Items : op[i].st # "idle" => op'[i].st # "idle"
  BY <1>3, <1>4
<1>8. /\ \A i \in Items : i < batch * Concurrency => op'[i].st # "idle"
      /\ \A i \in Items : i < (batch + 1) * Concurrency => op'[i].st # "idle"
  BY <1>1, <1>7 DEF OutcomeInv
<1> QED BY <1>1, <1>2, <1>6, <1>8 DEF OutcomeInv

LEMMA CollectOutcome == TInv /\ OutcomeInv /\ CollectBatch => OutcomeInv'
<1> SUFFICES ASSUME TInv, OutcomeInv, CollectBatch PROVE OutcomeInv'
  OBVIOUS
<1> DEFINE rs == results \cup {Result(i) : i \in Pushed(batch)}
           more == (batch + 1) * Concurrency < n
           lo == batch * Concurrency
           hi == (batch + 1) * Concurrency
<1>1. /\ pc = "await" /\ results' = rs
      /\ UNCHANGED <<n, stopOnError, op>>
      /\ \/ more /\ ~StopsAfter(rs) /\ pc' = "send" /\ batch' = batch + 1
         \/ ~(more /\ ~StopsAfter(rs)) /\ pc' = "done" /\ batch' = batch
  BY DEF CollectBatch
<1>2. /\ lo \in Nat /\ hi \in Nat /\ lo <= hi /\ Items' = Items
      /\ n \in Nat /\ batch \in Nat
      /\ \A i \in Items : i \in AllItems /\ i \in Nat /\ i < n
  BY <1>1, ConfigAssumption, TimesMono DEF Items, AllItems, TInv, TypeOK
<1>3. Collected = lo /\ Collected' = hi
  BY <1>1 DEF Collected
<1>4. /\ \A i \in Items : i < hi => op[i].st # "idle"
      /\ \A i \in Items : i < lo => Settled(i)
      /\ \A i \in Items : lo <= i /\ i < hi => Settled(i)
      /\ \A i \in Items : i \in BatchItems(batch) <=> lo <= i /\ i < hi
  BY <1>1, <1>2, <1>3 DEF OutcomeInv, CollectBatch, BatchItems
<1>5. \A i \in Items : i < hi => Settled(i)
  BY <1>2, <1>4
<1>6. ASSUME NEW i \in Items PROVE Skipped(i)' <=> Skipped(i)
  BY <1>1 DEF Skipped
<1>7. \A i \in Items : Result(i)' = Result(i) /\ (Settled(i)' <=> Settled(i))
  BY <1>1 DEF Result, Settled
<1>8. ASSUME NEW i \in BatchItems(batch) PROVE i \in Pushed(batch) <=> ~Skipped(i)
  <2>1. /\ i \in Items /\ i \in Nat /\ i < n
        /\ batch * Concurrency <= i /\ i < (batch + 1) * Concurrency
    BY <1>2, <1>8 DEF BatchItems
  <2>2. ASSUME NEW j \in AllItems, j < i
        PROVE  j \in BatchItems(batch) <=> j \div Concurrency = i \div Concurrency
    <3>1. j \in Nat
      BY DEF AllItems
    <3>2. j \div Concurrency = i \div Concurrency
            <=> batch * Concurrency <= j /\ j < (batch + 1) * Concurrency
      BY <1>2, <2>1, <3>1, SameBatch, ConfigAssumption
    <3>3. j \in Items
      BY <1>2, <2>1, <2>2, <3>1 DEF Items
    <3> QED BY <3>2, <3>3 DEF BatchItems
  <2>3. \A j \in BatchItems(batch) : j \in AllItems /\ (op[j].st = "ok" <=> op[j].st # "failed")
    BY <1>4, BatchItemsIn DEF TInv, Settled, BatchItems
  <2> QED BY <1>8, <2>2, <2>3 DEF Pushed, Skipped
<1>9. Reported' = Reported \cup Pushed(batch)
  <2>1. ASSUME NEW i \in Items
        PROVE  i < hi /\ ~Skipped(i) <=> (i < lo /\ ~Skipped(i)) \/ i \in Pushed(batch)
    <3>1. i < hi <=> i < lo \/ i \in BatchItems(batch)
      BY <1>2, <1>4
    <3>2. i \in Pushed(batch) => i \in BatchItems(batch)
      BY DEF Pushed
    <3> QED BY <1>8, <3>1, <3>2
  <2>2. Pushed(batch) \subseteq Items
    BY DEF Pushed, BatchItems
  <2> HIDE DEF lo, hi
  <2> QED BY <1>2, <1>3, <1>6, <2>1, <2>2 DEF Reported
<1>10. results' = {Result(i)' : i \in Reported'}
  <2>1. Reported \subseteq Items /\ Pushed(batch) \subseteq Items
    BY DEF Reported, Pushed, BatchItems
  <2>2. results = {Result(i) : i \in Reported}
    BY DEF OutcomeInv
  <2> QED BY <1>1, <1>7, <1>9, <2>1, <2>2
<1>11. pc' = "done" /\ ~stopOnError' => n' <= (batch' + 1) * Concurrency
  BY <1>1, <1>2 DEF StopsAfter
<1>12. /\ \A i \in Items : i < batch' * Concurrency => op[i].st # "idle"
       /\ pc' # "send" => \A i \in Items : i < (batch' + 1) * Concurrency => op[i].st # "idle"
  <2>1. CASE pc' = "send" /\ batch' = batch + 1
    BY <1>4, <2>1
  <2>2. CASE pc' = "done" /\ batch' = batch
    BY <1>2, <1>4, <2>2
  <2> QED BY <1>1, <2>1, <2>2
<1>13. \A i \in Items : i < Collected' => Settled(i)'
  BY <1>3, <1>5, <1>7
<1> HIDE DEF lo, hi
<1> QED BY <1>1, <1>2, <1>10, <1>11, <1>12, <1>13 DEF OutcomeInv

LEMMA OutcomeStep == TInv /\ OutcomeInv /\ [Next]_vars => OutcomeInv'
<1> SUFFICES ASSUME TInv, OutcomeInv, [Next]_vars PROVE OutcomeInv'
  OBVIOUS
<1>1. CASE SendBatch
  BY <1>1, SendOutcome
<1>2. ASSUME NEW i \in AllItems, Succeed(i) PROVE OutcomeInv'
  <2> DEFINE r == [op[i] EXCEPT !.st = "ok"]
  <2>1. r.st = "ok" /\ op' = [op EXCEPT ![i] = r] /\ i \in UnderWay
    BY <1>2, OpFields DEF Succeed, TInv, Op, UnderWay
  <2> HIDE DEF r
  <2> QED BY <1>2, <2>1, ItemOutcome DEF Succeed
<1>3. ASSUME NEW i \in AllItems, NEW e \in Errors, Fail(i, e) PROVE OutcomeInv'
  <2> DEFINE s == IF Retryable(e) /\ AttemptsLeft(op[i]) THEN "backoff" ELSE "failed"
             r == [op[i] EXCEPT !.st = s]
  <2>1. r.st # "idle" /\ op' = [op EXCEPT ![i] = r] /\ i \in UnderWay
    BY <1>3, OpFields DEF Fail, TInv, Op, UnderWay
  <2> HIDE DEF r
  <2> QED BY <1>3, <2>1, ItemOutcome DEF Fail
<1>4. ASSUME NEW i \in AllItems, Retry(i) PROVE OutcomeInv'
  <2> DEFINE o == op[i]
             r == IF o.inner < CallRetries
                  THEN [st |-> "sent", outer |-> o.outer, inner |-> o.inner + 1]
                  ELSE [st |-> "sent", outer |-> o.outer + 1, inner |-> 1]
  <2>1. r.st # "idle" /\ op' = [op EXCEPT ![i] = r] /\ i \in UnderWay
    BY <1>4 DEF Retry, UnderWay
  <2> HIDE DEF r
  <2> QED BY <1>4, <2>1, ItemOutcome DEF Retry
<1>5. CASE CollectBatch
  BY <1>5, CollectOutcome
<1>6. CASE UNCHANGED vars
  BY <1>6 DEF vars, OutcomeInv, Collected, Items, Settled, Result, Reported, Skipped
<1> QED BY <1>1, <1>2, <1>3, <1>4, <1>5, <1>6 DEF Next

(***************************************************************************)
(* The results are as many as the items they are about.                    *)
(***************************************************************************)
LEMMA Counts ==
  ASSUME OutcomeInv
  PROVE  /\ IsFiniteSet(results)
         /\ Cardinality(results) = Cardinality(Reported)
         /\ Summary.successful + Summary.failed = Summary.total
<1> DEFINE f == [i \in Reported |-> Result(i)]
           good == {r \in results : r.success}
           bad == {r \in results : ~r.success}
<1>1. Reported \subseteq 0..MaxItems - 1 /\ MaxItems - 1 \in Int
  BY ConfigAssumption DEF Reported, Items, AllItems
<1>2. IsFiniteSet(Reported)
  <2>1. IsFiniteSet(0..MaxItems - 1)
    BY <1>1, FS_Interval
  <2> QED BY <1>1, <2>1, FS_Subset
<1>3. results = {Result(i) : i \in Reported}
  BY DEF OutcomeInv
<1>4. \A i \in Reported : Result(i).index = i
  BY DEF Result
<1>5. f \in Bijection(Reported, results)
  BY <1>3, <1>4 DEF Bijection, Injection, Surjection, IsInjective
<1>6. /\ IsFiniteSet(results)
      /\ Cardinality(results) = Cardinality(Reported)
  BY <1>2, <1>5, FS_Bijection DEF ExistsBijection
<1>7. IsFiniteSet(good) /\ IsFiniteSet(bad)
  BY <1>6, FS_Subset
<1>8. results = good \cup bad /\ good \cap bad = {}
  OBVIOUS
<1> HIDE DEF good, bad
<1>9. Cardinality(good \cup bad) =
        Cardinality(good) + Cardinality(bad) - Cardinality(good \cap bad)
  BY <1>7, FS_Union
<1>10. /\ Cardinality(good) \in Nat /\ Cardinality(bad) \in Nat
       /\ Cardinality(good \cap bad) = 0
  BY <1>7, <1>8, FS_CardinalityType, FS_EmptySet
<1>11. Cardinality(good) + Cardinality(bad) = Cardinality(results)
  BY <1>8, <1>9, <1>10
<1>12. /\ Summary.successful = Cardinality(good) /\ Summary.failed = Cardinality(bad)
       /\ Summary.total = Cardinality(results)
  BY DEF Summary, good, bad
<1> QED BY <1>6, <1>11, <1>12

LEMMA OutcomeImplies == TInv /\ OutcomeInv => SummaryMatchesOutcomes
<1> SUFFICES ASSUME TInv, OutcomeInv, pc = "done" PROVE
       /\ {r.index : r \in results} = Executed \ LeftOut
       /\ \A r \in results : r.success <=> op[r.index].st = "ok"
       /\ Summary.successful + Summary.failed = Summary.total
       /\ Summary.total = Cardinality(Executed \ LeftOut)
       /\ ~stopOnError => Executed = Items
  BY DEF SummaryMatchesOutcomes
<1> DEFINE hi == (batch + 1) * Concurrency
<1>1. /\ hi \in Nat /\ Collected = hi /\ n \in Nat
      /\ \A i \in Items : i \in AllItems /\ i \in Nat /\ i < n
  BY ConfigAssumption, TimesMono DEF Items, AllItems, TInv, TypeOK, Collected
<1>2. \A i \in Items : i < hi <=> op[i].st # "idle"
  BY <1>1 DEF TInv, ProgressInv, OutcomeInv
<1>3. Executed = {i \in Items : i < hi}
  BY <1>2 DEF Executed
<1>4. \A j \in AllItems : op[j].st = "failed" => j \in Executed
  BY DEF TInv, ProgressInv, Executed, Items
<1>5. \A i \in Executed : i \in LeftOut <=> Skipped(i)
  BY <1>4 DEF LeftOut, Skipped, Executed, Items
<1>6. Reported = Executed \ LeftOut
  BY <1>1, <1>3, <1>5 DEF Reported
<1>7. results = {Result(i) : i \in Reported}
  BY DEF OutcomeInv
<1>8. \A i \in Reported : Result(i).index = i /\ (Result(i).success <=> op[i].st = "ok")
  BY DEF Result
<1>9. {r.index : r \in results} = Reported
  BY <1>7, <1>8
<1>10. \A r \in results : r.success <=> op[r.index].st = "ok"
  BY <1>7, <1>8
<1>11. ~stopOnError => Executed = Items
  BY <1>1, <1>3 DEF OutcomeInv
<1>12. Summary.total = Cardinality(results)
  BY DEF Summary
<1> QED BY <1>6, <1>9, <1>10, <1>11, <1>12, Counts

(***************************************************************************)
(* What runBatch returns accounts for the executed items, each once and    *)
(* with its own outcome, save those stopOnError leaves out, and its counts *)
(* add up.                                                                 *)
(***************************************************************************)
THEOREM SummaryIsTrue == Spec => []SummaryMatchesOutcomes
<1> QED BY InitOutcome, Types, OutcomeStep, OutcomeImplies, PTL DEF Spec
=============================================================================
