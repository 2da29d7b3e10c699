--------------------------- MODULE SerialExecutor ---------------------------
(***************************************************************************)
(* What CalendarWebhookService.enqueueSync promises to its caller: tasks   *)
(* submitted under one key run one at a time and in the order in which     *)
(* they were submitted, tasks of different keys run independently, and a   *)
(* restart of the process drops what has not ended.  There is no promise   *)
(* and no Map here: SyncQueue shows how the code implements this.          *)
(***************************************************************************)
EXTENDS Naturals

CONSTANTS Tasks,    \* the tasks that may be submitted, each at most once
          Keys,     \* the queue keys, user:calendar:account
          NoKey     \* the key of a task that has not been submitted

VARIABLES phase,    \* where each task is
          key,      \* the key a task was submitted under
          ticket,   \* the position of a task in the order of submissions
          submitted \* how many tasks have been submitted

seVars == <<phase, key, ticket, submitted>>

Phases == {"idle", "queued", "running", "ended", "dropped"}

SETypeOK == /\ phase \in [Tasks -> Phases]
            /\ key \in [Tasks -> Keys \cup {NoKey}]
            /\ ticket \in [Tasks -> Nat]
            /\ submitted \in Nat

SEInit == /\ phase = [t \in Tasks |-> "idle"]
          /\ key = [t \in Tasks |-> NoKey]
          /\ ticket = [t \in Tasks |-> 0]
          /\ submitted = 0

(***************************************************************************)
(* The tasks submitted under the key of t before t.                        *)
(***************************************************************************)
Before(t) == {u \in Tasks : key[u] = key[t] /\ ticket[u] < ticket[t]}

Submit(t, k) == /\ phase[t] = "idle"
                /\ phase' = [phase EXCEPT ![t] = "queued"]
                /\ key' = [key EXCEPT ![t] = k]
                /\ ticket' = [ticket EXCEPT ![t] = submitted + 1]
                /\ submitted' = submitted + 1

Begin(t) == /\ phase[t] = "queued"
            /\ \A u \in Before(t) : phase[u] \in {"ended", "dropped"}
            /\ phase' = [phase EXCEPT ![t] = "running"]
            /\ UNCHANGED <<key, ticket, submitted>>

End(t) == /\ phase[t] = "running"
          /\ phase' = [phase EXCEPT ![t] = "ended"]
          /\ UNCHANGED <<key, ticket, submitted>>

Restart == /\ phase' = [t \in Tasks |-> IF phase[t] \in {"queued", "running"}
                                        THEN "dropped" ELSE phase[t]]
           /\ UNCHANGED <<key, ticket, submitted>>

SENext == \/ \E t \in Tasks : \/ \E k \in Keys : Submit(t, k)
                              \/ Begin(t)
                              \/ End(t)
          \/ Restart

SESpec == SEInit /\ [][SENext]_seVars

(***************************************************************************)
(* A task whose predecessors are over is begun, and a begun task ends.     *)
(***************************************************************************)
SEFairSpec == SESpec /\ \A t \in Tasks : WF_seVars(Begin(t)) /\ WF_seVars(End(t))
=============================================================================
