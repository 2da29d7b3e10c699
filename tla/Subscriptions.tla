--------------------------- MODULE Subscriptions ----------------------------
(***************************************************************************)
(* TriggerController over TriggerService, and set-storage of               *)
(* MondayController: the calls that write Monday's storage.  A storage     *)
(* call answers with success or failure, or rejects; what the client is    *)
(* told of it differs from call to call.                                   *)
(*                                                                         *)
(* A subscribe names a record by payload.subscriptionId, an unsubscribe by *)
(* payload.webhookId, and set-storage by whatever key its client sends.    *)
(* subscribe answers with nothing, so a client learns no webhookId of it:  *)
(* that the two ids of one subscription are equal is not in this code, and *)
(* is not assumed here.  The storage is that of one account.               *)
(*                                                                         *)
(* Requests that a guard refuses, or whose session has no token, change    *)
(* nothing: Endpoints has them.  getSubscription and listSubscriptions     *)
(* read, and have no caller.                                               *)
(***************************************************************************)
EXTENDS Naturals, FiniteSets

CONSTANTS EventTypes,
          SubscriptionIds, \* that a subscribe may name
          WebhookIds,      \* that an unsubscribe may name, the same ones or others
          StorageKeys,     \* that a set-storage may name, keys of records or others
          MaxCalls,        \* bounds
          MaxCallRestarts,
          NoKey

ASSUME CallBoundsAssumption == MaxCalls \in Nat /\ MaxCallRestarts \in Nat

VARIABLES record,    \* Monday's storage, by key
          call,      \* the requests
          after,     \* history: the calls on its key that had ended when a call came
          callRestarts

subscriptionVars == <<record, call, after, callRestarts>>

(***************************************************************************)
(* Mutant of KeyOf: the key is made of the id alone.                       *)
(***************************************************************************)
KeyOfId(event, id) == <<CHOOSE e \in EventTypes : TRUE, id>>

(***************************************************************************)
(* trigger_<event>_<id>: ids are numbers, so no two pairs of an event and  *)
(* an id share a key.  saveSubscription builds it of a subscriptionId,     *)
(* deleteSubscription of the webhookId that it is given.                   *)
(***************************************************************************)
KeyOf(event, id) == <<event, id>>

Calls == 1..MaxCalls \* requests, numbered as they come

Keys == (EventTypes \X (SubscriptionIds \cup WebhookIds)) \cup StorageKeys

Operations == {"subscribe", "unsubscribe", "set-storage"}

(***************************************************************************)
(* What the storage holds under the key of a call that was carried out.    *)
(***************************************************************************)
Effect == [o \in Operations |-> CASE o = "subscribe" -> "subscription"
                                  [] o = "unsubscribe" -> "absent"
                                  [] o = "set-storage" -> "value"]

Records == {"subscription", "absent", "value"}

CallPC == {"idle", "sent", "applied", "answered", "lost"}

Ended(c) == call[c].pc \in {"answered", "lost"}

SubscriptionsTypeOK ==
    /\ record \in [Keys -> Records]
    /\ call \in [Calls -> [pc : CallPC, op : Operations, about : Keys \cup {NoKey},
                           key : Keys \cup {NoKey},
                           storage : {"none", "success", "failure", "rejected"},
                           answer : {"none", "success", "failure"}]]
    /\ after \in [Calls -> SUBSET Calls]
    /\ callRestarts \in 0..MaxCallRestarts

SubscriptionsInit ==
    /\ record = [k \in Keys |-> "absent"]
    /\ call = [c \in Calls |-> [pc |-> "idle", op |-> "subscribe", about |-> NoKey,
                                key |-> NoKey, storage |-> "none", answer |-> "none"]]
    /\ after = [c \in Calls |-> {}]
    /\ callRestarts = 0

CallTo(c, d) == call' = [call EXCEPT ![c] = d]

(***************************************************************************)
(* A request about a record reaches its handler, which asks the storage to *)
(* write under the key it makes.                                           *)
(***************************************************************************)
StartCall(c, op, about, key) ==
    /\ call[c].pc = "idle" /\ \A d \in 1..(c - 1) : call[d].pc # "idle"
    /\ CallTo(c, [pc |-> "sent", op |-> op, about |-> about, key |-> key,
                  storage |-> "none", answer |-> "none"])
    /\ after' = [after EXCEPT ![c] = {d \in Calls : call[d].about = about /\ Ended(d)}]
    /\ UNCHANGED <<record, callRestarts>>

Subscribe(c, event, subscriptionId) ==
    StartCall(c, "subscribe", <<event, subscriptionId>>, KeyOf(event, subscriptionId))

Unsubscribe(c, event, webhookId) ==
    StartCall(c, "unsubscribe", <<event, webhookId>>, KeyOf(event, webhookId))

SetStorage(c, key) == StartCall(c, "set-storage", key, key)

Write(c) == record' = [record EXCEPT ![call[c].key] = Effect[call[c].op]]

(***************************************************************************)
(* Monday's storage (external) carries the call out, or not, or may have   *)
(* when the call rejects.                                                  *)
(***************************************************************************)
StorageSucceeds(c) ==
    /\ call[c].pc = "sent"
    /\ Write(c)
    /\ CallTo(c, [call[c] EXCEPT !.pc = "applied", !.storage = "success"])
    /\ UNCHANGED <<after, callRestarts>>

StorageFails(c) ==
    /\ call[c].pc = "sent"
    /\ CallTo(c, [call[c] EXCEPT !.pc = "applied", !.storage = "failure"])
    /\ UNCHANGED <<record, after, callRestarts>>

StorageRejects(c) ==
    /\ call[c].pc = "sent"
    /\ Write(c) \/ UNCHANGED record
    /\ CallTo(c, [call[c] EXCEPT !.pc = "applied", !.storage = "rejected"])
    /\ UNCHANGED <<after, callRestarts>>

(***************************************************************************)
(* What the client is told.  subscribe does not look at what               *)
(* saveSubscription returns; deleteSubscription takes a failure for a key  *)
(* that is not there; setStorage does not look at what set returns.        *)
(***************************************************************************)
ToldOfSubscribe == "success"

ToldOfUnsubscribe(storage) == IF storage = "rejected" THEN "failure" ELSE "success"

ToldOfSetStorage(storage) == IF storage = "rejected" THEN "failure" ELSE "success"

(***************************************************************************)
(* Mutant of Told: the client is told what the storage answered.           *)
(***************************************************************************)
ToldAsItIs(op, storage) == storage

Told(op, storage) == CASE op = "subscribe" -> ToldOfSubscribe
                       [] op = "unsubscribe" -> ToldOfUnsubscribe(storage)
                       [] op = "set-storage" -> ToldOfSetStorage(storage)

Answer(c) ==
    /\ call[c].pc = "applied"
    /\ CallTo(c, [call[c] EXCEPT !.pc = "answered",
                                 !.answer = Told(call[c].op, call[c].storage)])
    /\ UNCHANGED <<record, after, callRestarts>>

(***************************************************************************)
(* The calls under way are lost; those that were sent may be carried out.  *)
(***************************************************************************)
RestartCalls ==
    LET sent == {c \in Calls : call[c].pc = "sent"}
    IN  /\ callRestarts < MaxCallRestarts
        /\ callRestarts' = callRestarts + 1
        /\ \E landed \in SUBSET sent :
              record' \in {r \in [Keys -> Records] : \A k \in Keys :
                  LET on == {c \in landed : call[c].key = k}
                  IN  IF on = {} THEN r[k] = record[k] ELSE \E c \in on : r[k] = Effect[call[c].op]}
        /\ call' = [c \in Calls |-> IF call[c].pc \in {"sent", "applied"}
                                    THEN [call[c] EXCEPT !.pc = "lost"] ELSE call[c]]
        /\ UNCHANGED after

SubscriptionsNext ==
    \/ \E c \in Calls :
          \/ \E event \in EventTypes :
                \/ \E id \in SubscriptionIds : Subscribe(c, event, id)
                \/ \E id \in WebhookIds : Unsubscribe(c, event, id)
          \/ \E key \in StorageKeys : SetStorage(c, key)
          \/ StorageSucceeds(c) \/ StorageFails(c) \/ StorageRejects(c) \/ Answer(c)
    \/ RestartCalls

----------------------------------------------------------------------------
MayHaveWritten(c) == \/ call[c].storage \in {"success", "rejected"}
                     \/ call[c].storage = "none" /\ call[c].pc = "lost"

(***************************************************************************)
(* A record is what a call about it left: under every key there is         *)
(* nothing, and no call about it has succeeded, or what some call about it *)
(* writes that may have been carried out, and no call that came after the  *)
(* end of that one has succeeded since.  So neither calls about another    *)
(* event or id, nor calls that overlap, fail, reject or are lost in a      *)
(* restart bring back or remove a record that was replaced.  It is about   *)
(* the key that a request names: that an unsubscribe removes the record of *)
(* the subscription it ends would need its webhookId to be the             *)
(* subscriptionId.                                                         *)
(***************************************************************************)
RecordsOfLatestCalls ==
    \A k \in Keys :
        \/ record[k] = "absent"
           /\ \A c \in Calls : call[c].about = k => call[c].storage # "success"
        \/ \E c \in Calls :
              /\ call[c].about = k /\ MayHaveWritten(c)
              /\ record[k] = Effect[call[c].op]
              /\ \A d \in Calls : c \in after[d] => call[d].storage # "success"
=============================================================================
