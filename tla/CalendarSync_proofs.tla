------------------------ MODULE CalendarSync_proofs ------------------------
(***************************************************************************)
(* Proofs about CalendarSync, for any users, accounts, events, connects,   *)
(* notifications, page size and bounds: the syncs use the queue as         *)
(* SerialExecutor allows, no sync token runs ahead of what was fetched, no *)
(* sync token moves back unless two syncs of a user overlapped, no item is *)
(* deleted whose event was not cancelled, and no cancellation gets lost    *)
(* that no sync let go of.                                                 *)
(***************************************************************************)
EXTENDS CalendarSync, TLAPS

(***************************************************************************)
(* The queue: a running sync has none before it under its key.             *)
(***************************************************************************)
Awaiting == RunPC \ {"idle", "failed"}

OrderInv ==
    /\ \A t \in Tasks : /\ phase[t] = "idle" => key[t] = NoKey
                        /\ phase[t] # "idle" => key[t] \in QueueKeys
                        /\ ticket[t] <= submitted
    /\ \A s, t \in Tasks : phase[s] # "idle" /\ phase[t] # "idle" /\ ticket[s] = ticket[t] => s = t
    /\ \A t \in Tasks : phase[t] = "running" =>
          \A u \in Queue!Before(t) : phase[u] \in {"ended", "dropped"}

(***************************************************************************)
(* Every change of the calendar up to pos was sent to a sync of the user.  *)
(***************************************************************************)
Covered(u, pos) == \A n \in 1..pos : n \in fetched[u]

CancelledOnce(e) == \E n \in ChangesOf({e}) : log[n].cancelled

(***************************************************************************)
(* A sync that lists, saves or deletes goes by what was fetched.           *)
(***************************************************************************)
TaskInv(t) ==
    LET r == run[t]
    IN  /\ r.pc \in Awaiting <=> phase[t] = "running"
        /\ r.pc = "list" => r.token <= Len(log) /\ Covered(UserOf(t), r.token)
        /\ r.pc = "save" => /\ r.next \in 0..Len(log)
                            /\ Covered(UserOf(t), r.next)
                            /\ r.cancelled => r.first \in Events /\ CancelledOnce(r.first)
        /\ r.pc \in {"mondayToken", "delete"} =>
              r.first \in Linked /\ CancelledOnce(r.first)

ConnInv(x) ==
    conn[x].pc = "save" => conn[x].next \in 0..Len(log) /\ Covered(x[1], conn[x].next)

(***************************************************************************)
(* While no two syncs of a user have overlapped, one at most is between    *)
(* reading a sync token and storing the next, which is no older.           *)
(***************************************************************************)
OneSyncOf(u) ==
    /\ \A s, t \in SyncingTask(u) : s = t
    /\ \A x, y \in SyncingConn(u) : x = y
    /\ SyncingTask(u) = {} \/ SyncingConn(u) = {}
    /\ \A t \in SyncingTask(u) : run[t].pc = "save" => syncToken[u] <= run[t].next
    /\ \A x \in SyncingConn(u) : conn[x].pc = "save" => syncToken[u] <= conn[x].next

UserInv(u) ==
    /\ syncToken[u] <= Len(log)
    /\ fetched[u] \subseteq 1..Len(log)
    /\ Covered(u, syncToken[u])
    /\ u \notin overlapped => OneSyncOf(u)

(***************************************************************************)
(* An event has a last change; that it was cancelled is on its way to      *)
(* Monday once it was fetched, unless a sync let go of it.                 *)
(***************************************************************************)
Deleting(t, e) ==
    /\ run[t].first = e
    /\ run[t].pc \in {"save", "mondayToken", "delete"}
    /\ run[t].pc = "save" => run[t].cancelled
    /\ AccountOf(t) \in Authorized

HasLastChange(e) ==
    ChangesOf({e}) # {} => \E n \in ChangesOf({e}) : \A m \in ChangesOf({e}) : m <= n

OnItsWay(e) ==
    e \notin dropped /\ CancellationFetched(e) =>
        e \notin items \/ \E t \in Tasks : Deleting(t, e)

SyncInv ==
    /\ TypeOK
    /\ OrderInv
    /\ \A t \in Tasks : TaskInv(t)
    /\ \A x \in Connects : ConnInv(x)
    /\ \A u \in Users : UserInv(u)
    /\ \A e \in Events : HasLastChange(e)
    /\ OnlyCancelledItemsDeleted
    /\ \A e \in Linked : OnItsWay(e)

----------------------------------------------------------------------------
(* The queue                                                               *)

LEMMA QueueTypeStep ==
  ASSUME Queue!SETypeOK, [Queue!SENext]_queueVars
  PROVE  Queue!SETypeOK'
<1> USE DEF Queue!SETypeOK, Queue!Phases
<1>1. CASE UNCHANGED queueVars
  BY <1>1 DEF queueVars
<1>2. ASSUME NEW t \in Tasks, NEW k \in QueueKeys, Queue!Submit(t, k) PROVE Queue!SETypeOK'
  BY <1>2 DEF Queue!Submit
<1>3. ASSUME NEW t \in Tasks, Queue!Begin(t) PROVE Queue!SETypeOK'
  BY <1>3 DEF Queue!Begin
<1>4. ASSUME NEW t \in Tasks, Queue!End(t) PROVE Queue!SETypeOK'
  BY <1>4 DEF Queue!End
<1>5. CASE Queue!Restart
  BY <1>5 DEF Queue!Restart
<1> QED BY <1>1, <1>2, <1>3, <1>4, <1>5 DEF Queue!SENext

(***************************************************************************)
(* A task that is submitted comes after all others of its key, so that the *)
(* tasks before one never change and stay over once they are.              *)
(***************************************************************************)
LEMMA OrderStep ==
  ASSUME Queue!SETypeOK, OrderInv, [Queue!SENext]_queueVars
  PROVE  OrderInv'
<1> USE DEF Queue!SETypeOK, OrderInv, Queue!Before
<1>1. CASE UNCHANGED queueVars
  BY <1>1 DEF queueVars
<1>2. ASSUME NEW t \in Tasks, NEW k \in QueueKeys, Queue!Submit(t, k) PROVE OrderInv'
  <2>1. /\ phase[t] = "idle" /\ phase'[t] = "queued" /\ key'[t] = k
        /\ ticket'[t] = submitted + 1 /\ submitted' = submitted + 1 /\ submitted \in Nat
        /\ \A u \in Tasks \ {t} : /\ phase'[u] = phase[u] /\ key'[u] = key[u]
                                  /\ ticket'[u] = ticket[u]
    BY <1>2 DEF Queue!Submit
  <2>2. \A u \in Tasks : /\ ticket[u] \in Nat /\ ticket[u] <= submitted
                         /\ phase[u] = "idle" => key[u] = NoKey
    OBVIOUS
  <2>3. k # NoKey
    BY NoneAssumption DEF QueueKeys
  <2>4. \A u \in Tasks : /\ phase'[u] = "idle" => key'[u] = NoKey
                         /\ phase'[u] # "idle" => key'[u] \in QueueKeys
                         /\ ticket'[u] <= submitted'
    BY <2>1, <2>2
  <2>5. \A s, u \in Tasks :
           phase'[s] # "idle" /\ phase'[u] # "idle" /\ ticket'[s] = ticket'[u] => s = u
    BY <2>1, <2>2
  <2>6. ASSUME NEW u \in Tasks, phase'[u] = "running", NEW s \in Tasks,
               key'[s] = key'[u], ticket'[s] < ticket'[u]
        PROVE  phase'[s] \in {"ended", "dropped"}
    <3>1. u # t /\ phase[u] = "running" /\ ticket'[u] = ticket[u] /\ ticket[u] <= submitted
      BY <2>1, <2>2, <2>6
    <3>2. s # t
      BY <2>1, <2>2, <2>6, <3>1
    <3> QED BY <2>1, <2>6, <3>1, <3>2
  <2> QED BY <2>4, <2>5, <2>6
<1>3. ASSUME NEW t \in Tasks, Queue!Begin(t) PROVE OrderInv'
  BY <1>3 DEF Queue!Begin
<1>4. ASSUME NEW t \in Tasks, Queue!End(t) PROVE OrderInv'
  BY <1>4 DEF Queue!End
<1>5. CASE Queue!Restart
  BY <1>5 DEF Queue!Restart
<1> QED BY <1>1, <1>2, <1>3, <1>4, <1>5 DEF Queue!SENext

LEMMA OneRunning ==
  ASSUME Queue!SETypeOK, OrderInv, NEW s \in Tasks, NEW t \in Tasks,
         phase[s] = "running", phase[t] = "running", key[s] = key[t]
  PROVE  s = t
<1>1. ticket[s] \in Nat /\ ticket[t] \in Nat
  BY DEF Queue!SETypeOK
<1>2. ~(ticket[s] < ticket[t]) /\ ~(ticket[t] < ticket[s])
  BY DEF OrderInv, Queue!Before
<1>3. ticket[s] = ticket[t]
  BY <1>1, <1>2
<1> QED BY <1>3 DEF OrderInv

(***************************************************************************)
(* The syncs use the queue as SerialExecutor allows.                       *)
(***************************************************************************)
LEMMA FinishEnds ==
  ASSUME NEW t \in Tasks, Finish(t)
  PROVE  [Queue!SENext]_queueVars
  BY DEF Finish, Queue!SENext

LEMMA QueueStep == [Next]_vars => [Queue!SENext]_queueVars
<1> SUFFICES ASSUME [Next]_vars PROVE [Queue!SENext]_queueVars
  OBVIOUS
<1>1. CASE UNCHANGED vars
  BY <1>1 DEF vars
<1>2. ASSUME NEW e \in Events, NEW c \in BOOLEAN, ChangeEvent(e, c)
      PROVE  UNCHANGED queueVars
  BY <1>2 DEF ChangeEvent
<1>3. ASSUME NEW t \in Tasks, NEW k \in QueueKeys, Notify(t, k)
      PROVE  Queue!SENext
  BY <1>3 DEF Notify, Queue!SENext
<1>4. ASSUME NEW t \in Tasks, SyncStep(t)
      PROVE  [Queue!SENext]_queueVars
  <2>1. CASE BeginSync(t)
    BY <2>1 DEF BeginSync, Queue!SENext
  <2>2. CASE GotTokens(t)
    BY <2>2, FinishEnds DEF GotTokens
  <2>3. CASE GotSyncToken(t)
    BY <2>3 DEF GotSyncToken
  <2>4. CASE \E P \in SUBSET Events, e \in Events \cup {NoEvent} : Listed(t, P, e)
    BY <2>4, FinishEnds DEF Listed, HandleFirst
  <2>5. CASE SavedSyncToken(t)
    BY <2>5, FinishEnds DEF SavedSyncToken, HandleFirst
  <2>6. CASE GotMondayToken(t)
    BY <2>6, FinishEnds DEF GotMondayToken
  <2>7. CASE DeletedItem(t)
    BY <2>7, FinishEnds DEF DeletedItem
  <2> QED BY <1>4, <2>1, <2>2, <2>3, <2>4, <2>5, <2>6, <2>7 DEF SyncStep
<1>5. ASSUME NEW t \in Tasks, SyncTokenGone(t) \/ SyncFails(t)
      PROVE  [Queue!SENext]_queueVars
  BY <1>5 DEF SyncTokenGone, SyncFails, Queue!SENext
<1>6. ASSUME NEW x \in Connects, Connect(x) \/ ConnectStep(x) \/ ConnectFails(x)
      PROVE  UNCHANGED queueVars
  BY <1>6 DEF Connect, ConnectStep, ConnectFails, Exchanged, StoredTokens, StartInitialSync,
              InitialListed, InitialSaved, Watched, StoredChannel
<1>7. ASSUME NEW u \in Users, OtherRequest(u)
      PROVE  UNCHANGED queueVars
  BY <1>7 DEF OtherRequest
<1>8. CASE Crash
  BY <1>8 DEF Crash, Queue!SENext
<1> QED
  BY <1>1, <1>2, <1>3, <1>4, <1>5, <1>6, <1>7, <1>8 DEF Next

----------------------------------------------------------------------------
(* Runs and connects                                                       *)

LEMMA LogLength ==
  ASSUME TypeOK
  PROVE  /\ Len(log) \in Nat /\ Len(log) \in 0..MaxChanges /\ MaxChanges \in Nat
         /\ DOMAIN log = 1..Len(log)
         /\ \A n \in 1..Len(log) : log[n] \in Change
         /\ 0..Len(log) \subseteq Positions /\ NoPosition \in Positions
  BY NumbersAssumption DEF TypeOK, Positions, NoPosition

LEMMA RunFields ==
  ASSUME NEW r \in Run
  PROVE  /\ r.pc \in RunPC /\ r.token \in Positions /\ r.next \in Positions
         /\ r.by \in Users \cup {NoUser} /\ r.first \in Events \cup {NoEvent}
         /\ r.cancelled \in BOOLEAN
  BY DEF Run

LEMMA IdleRunType ==
  /\ IdleRun \in Run /\ IdleRun.pc = "idle" /\ IdleRun.first = NoEvent
  /\ IdleRun.cancelled = FALSE
<1>1. NoPosition \in Positions /\ "idle" \in RunPC
  BY NumbersAssumption DEF Positions, NoPosition, RunPC
<1> QED BY <1>1 DEF IdleRun, Run

LEMMA PcEffect ==
  ASSUME NEW r \in Run, NEW pc \in RunPC
  PROVE  LET s == [r EXCEPT !.pc = pc]
         IN  /\ s \in Run /\ s.pc = pc /\ s.token = r.token /\ s.next = r.next
             /\ s.first = r.first /\ s.cancelled = r.cancelled
  BY DEF Run

(***************************************************************************)
(* Only the run of t is another one.                                       *)
(***************************************************************************)
OnlyRunOf(t) == /\ run' \in [Tasks -> Run]
                /\ \A s \in Tasks : s # t => run'[s] = run[s]

LEMMA GotoEffect ==
  ASSUME TypeOK, NEW t \in Tasks, NEW r \in Run, Goto(t, r)
  PROVE  OnlyRunOf(t) /\ run'[t] = r
  BY DEF TypeOK, Goto, OnlyRunOf

LEMMA FinishEffect ==
  ASSUME TypeOK, NEW t \in Tasks, Finish(t)
  PROVE  OnlyRunOf(t) /\ run'[t] = IdleRun /\ Queue!End(t)
  BY IdleRunType, GotoEffect DEF Finish

LEMMA EndEffect ==
  ASSUME TypeOK, NEW t \in Tasks, Queue!End(t)
  PROVE  /\ phase[t] = "running" /\ phase'[t] = "ended" /\ UNCHANGED key
         /\ \A s \in Tasks : s # t => phase'[s] = phase[s]
  BY DEF TypeOK, Queue!SETypeOK, Queue!End

LEMMA HandleEffect ==
  ASSUME TypeOK, NEW t \in Tasks, NEW e \in Events \cup {NoEvent}, NEW c \in BOOLEAN,
         HandleFirst(t, e, c)
  PROVE  /\ OnlyRunOf(t)
         /\ \/ /\ Deletes(t, e, c) /\ UNCHANGED queueVars
               /\ run'[t].pc = "mondayToken" /\ run'[t].first = e
            \/ /\ ~Deletes(t, e, c) /\ Queue!End(t)
               /\ run'[t].pc = "idle"
<1>1. CASE Deletes(t, e, c)
  <2> DEFINE r == [IdleRun EXCEPT !.pc = "mondayToken", !.first = e, !.cancelled = TRUE]
  <2>1. r \in Run /\ r.pc = "mondayToken" /\ r.first = e
    BY IdleRunType DEF Run, RunPC
  <2>2. Goto(t, r) /\ UNCHANGED queueVars
    BY <1>1 DEF HandleFirst
  <2> HIDE DEF r
  <2> QED BY <1>1, <2>1, <2>2, GotoEffect
<1>2. CASE ~Deletes(t, e, c)
  BY <1>2, FinishEffect, IdleRunType DEF HandleFirst
<1> QED BY <1>1, <1>2

LEMMA RunningUser ==
  ASSUME SyncInv, NEW t \in Tasks, run[t].pc \in Awaiting
  PROVE  /\ phase[t] = "running" /\ key[t] \in QueueKeys
         /\ UserOf(t) \in Users /\ AccountOf(t) \in Accounts \cup {NoAccount}
  BY DEF SyncInv, TaskInv, OrderInv, QueueKeys, UserOf, AccountOf

LEMMA ConnUser ==
  ASSUME NEW x \in Connects
  PROVE  x[1] \in Users /\ <<x[1], x[2]>> \in QueueKeys
  BY SetsAssumption DEF QueueKeys

LEMMA ConnEffect ==
  ASSUME TypeOK, NEW x \in Connects, NEW pc \in ConnPC, NEW p \in Positions,
         conn' = [conn EXCEPT ![x] = [pc |-> pc, next |-> p]]
  PROVE  /\ conn' \in [Connects -> Conn]
         /\ conn'[x].pc = pc /\ conn'[x].next = p
         /\ \A y \in Connects : y # x => conn'[y] = conn[y]
  BY DEF TypeOK, Conn

LEMMA ConnGotoEffect ==
  ASSUME TypeOK, NEW x \in Connects, NEW pc \in ConnPC, ConnGoto(x, pc)
  PROVE  /\ conn' \in [Connects -> Conn]
         /\ conn'[x].pc = pc
         /\ \A y \in Connects : y # x => conn'[y] = conn[y]
  BY LogLength, ConnEffect DEF ConnGoto

----------------------------------------------------------------------------
(* What a step that does not concern a part of the invariant leaves of it  *)

(***************************************************************************)
(* The log and what the users have been sent only grow.                    *)
(***************************************************************************)
Grows == /\ Len(log) <= Len(log') /\ Len(log') \in Nat
         /\ \A n \in 1..Len(log) : log'[n] = log[n]
         /\ \A u \in Users : fetched[u] \subseteq fetched'[u]

LEMMA CoveredGrows ==
  ASSUME Grows, NEW u \in Users, NEW pos, Covered(u, pos)
  PROVE  Covered(u, pos)'
  BY DEF Grows, Covered

LEMMA CancelledOnceGrows ==
  ASSUME TypeOK, Grows, NEW e, CancelledOnce(e)
  PROVE  CancelledOnce(e)'
  BY LogLength DEF Grows, CancelledOnce, ChangesOf

LEMMA TaskStays ==
  ASSUME SyncInv, Grows, NEW t \in Tasks, run'[t] = run[t],
         phase'[t] = "running" <=> phase[t] = "running",
         run[t].pc \in Awaiting => key'[t] = key[t]
  PROVE  TaskInv(t)'
<1>1. TypeOK /\ TaskInv(t) /\ run[t] \in Run
  BY DEF SyncInv, TypeOK
<1>2. CASE run[t].pc \notin Awaiting
  BY <1>1, <1>2 DEF TaskInv, Awaiting, RunPC
<1>3. CASE run[t].pc \in Awaiting
  <2>1. UserOf(t)' = UserOf(t) /\ UserOf(t) \in Users
    BY <1>3, RunningUser DEF UserOf
  <2> DEFINE r == run[t]
  <2>2. r.pc = "list" => r.token <= Len(log') /\ Covered(UserOf(t), r.token)'
    BY <1>1, <2>1, CoveredGrows, LogLength, RunFields DEF TaskInv, Grows, Positions, NoPosition
  <2>3. r.pc = "save" => r.next \in 0..Len(log') /\ Covered(UserOf(t), r.next)'
    BY <1>1, <2>1, CoveredGrows, LogLength DEF TaskInv, Grows
  <2>4. \A e : CancelledOnce(e) => CancelledOnce(e)'
    BY <1>1, CancelledOnceGrows
  <2> QED BY <1>1, <2>1, <2>2, <2>3, <2>4 DEF TaskInv
<1> QED BY <1>2, <1>3

LEMMA ConnStays ==
  ASSUME SyncInv, Grows, NEW x \in Connects, conn'[x] = conn[x] \/ conn'[x].pc # "save"
  PROVE  ConnInv(x)'
<1>1. TypeOK /\ ConnInv(x) /\ x[1] \in Users
  BY ConnUser DEF SyncInv
<1>2. CASE conn'[x] = conn[x]
  BY <1>1, <1>2, CoveredGrows, LogLength DEF ConnInv, Grows
<1>3. CASE conn'[x].pc # "save"
  BY <1>3 DEF ConnInv
<1> QED BY <1>2, <1>3

LEMMA OnItsWayStays ==
  ASSUME NEW e \in Linked, OnItsWay(e), UNCHANGED <<log, fetched>>,
         dropped \subseteq dropped', items' \subseteq items,
         \A t \in Tasks : Deleting(t, e) => Deleting(t, e)' \/ e \notin items' \/ e \in dropped'
  PROVE  OnItsWay(e)'
<1>1. CancellationFetched(e)' <=> CancellationFetched(e)
  BY DEF CancellationFetched, Cancelled, LastChange, ChangesOf
<1> QED BY <1>1 DEF OnItsWay

LEMMA OnlyCancelledStays ==
  ASSUME TypeOK, Grows, OnlyCancelledItemsDeleted,
         \A e \in items \ items' : CancelledOnce(e)
  PROVE  OnlyCancelledItemsDeleted'
<1> SUFFICES ASSUME NEW e \in Linked \ items'
    PROVE  CancelledOnce(e)'
  BY DEF OnlyCancelledItemsDeleted, CancelledOnce
<1>1. CancelledOnce(e)
  BY DEF OnlyCancelledItemsDeleted, CancelledOnce
<1> QED BY <1>1, CancelledOnceGrows

LEMMA LastChangeStays ==
  ASSUME UNCHANGED log, NEW e, HasLastChange(e)
  PROVE  HasLastChange(e)'
  BY DEF HasLastChange, ChangesOf

LEMMA UserStays ==
  ASSUME SyncInv, TypeOK', Grows, NEW u \in Users,
         fetched'[u] \subseteq 1..Len(log'), syncToken'[u] = syncToken[u],
         overlapped \subseteq overlapped',
         u \notin overlapped' => /\ SyncingTask(u)' \subseteq SyncingTask(u)
                                 /\ SyncingConn(u)' \subseteq SyncingConn(u),
         \A t \in Tasks : run'[t].pc = "save" => run'[t] = run[t] \/ run'[t].next = Len(log),
         \A x \in Connects : conn'[x].pc = "save" => conn'[x] = conn[x] \/ conn'[x].next = Len(log)
  PROVE  UserInv(u)'
<1>1. TypeOK /\ UserInv(u) /\ syncToken[u] \in Positions
  BY DEF SyncInv, TypeOK
<1>2. syncToken'[u] <= Len(log')
  BY <1>1, LogLength DEF UserInv, Grows, Positions, NoPosition
<1>3. Covered(u, syncToken[u])'
  BY <1>1, CoveredGrows DEF UserInv
<1>4. ASSUME u \notin overlapped'
      PROVE  OneSyncOf(u)'
  <2>1. OneSyncOf(u) /\ syncToken[u] <= Len(log)
    BY <1>1, <1>4 DEF UserInv
  <2>2. \A t \in SyncingTask(u)' : run'[t].pc = "save" => syncToken'[u] <= run'[t].next
    <3> SUFFICES ASSUME NEW t \in SyncingTask(u)', run'[t].pc = "save"
        PROVE  syncToken'[u] <= run'[t].next
      OBVIOUS
    <3>1. t \in SyncingTask(u) /\ t \in Tasks
      BY <1>4 DEF SyncingTask
    <3> QED BY <2>1, <3>1 DEF OneSyncOf
  <2>3. \A x \in SyncingConn(u)' : conn'[x].pc = "save" => syncToken'[u] <= conn'[x].next
    <3> SUFFICES ASSUME NEW x \in SyncingConn(u)', conn'[x].pc = "save"
        PROVE  syncToken'[u] <= conn'[x].next
      OBVIOUS
    <3>1. x \in SyncingConn(u) /\ x \in Connects
      BY <1>4 DEF SyncingConn
    <3> QED BY <2>1, <3>1 DEF OneSyncOf
  <2> QED BY <1>4, <2>1, <2>2, <2>3 DEF OneSyncOf
<1> QED BY <1>2, <1>3, <1>4 DEF UserInv, Covered

(***************************************************************************)
(* A sync that stores its token is the only one of the user, or the user   *)
(* is among those whose syncs overlapped.                                  *)
(***************************************************************************)
LEMMA UserSaves ==
  ASSUME SyncInv, NEW u \in Users, NEW p \in 0..Len(log), Covered(u, p),
         UNCHANGED <<log, fetched, overlapped>>, syncToken'[u] = p,
         u \notin overlapped => SyncingTask(u)' = {} /\ SyncingConn(u)' = {}
  PROVE  UserInv(u)'
<1>1. UserInv(u) /\ TypeOK /\ p <= Len(log)
  BY LogLength DEF SyncInv
<1>2. Covered(u, syncToken[u])'
  BY DEF Covered
<1>3. u \notin overlapped => OneSyncOf(u)'
  BY DEF OneSyncOf
<1> QED BY <1>1, <1>2, <1>3 DEF UserInv, Covered

(***************************************************************************)
(* A sync of t moves on; it does not begin to list and does not fetch.     *)
(***************************************************************************)
TokenSaved(t) == /\ run[t].pc = "save" /\ run'[t].pc \notin {"list", "save"}
                 /\ syncToken' = [syncToken EXCEPT ![UserOf(t)] = run[t].next]

LEMMA TaskMoves ==
  ASSUME SyncInv, [Queue!SENext]_queueVars, NEW t \in Tasks, OnlyRunOf(t),
         UNCHANGED <<log, channels, tokens, conn, crashes, seen, fetched, overlapped, key>>,
         client' \in Users \cup {NoUser},
         syncToken' = syncToken \/ TokenSaved(t),
         run'[t].pc # "save", run'[t].pc = "list" => run[t].pc = "list",
         \A s \in Tasks : s # t => phase'[s] = phase[s],
         TaskInv(t)',
         items' \subseteq items, \A e \in items \ items' : CancelledOnce(e),
         dropped \subseteq dropped', dropped' \subseteq Events,
         \A e \in Linked : Deleting(t, e) => Deleting(t, e)' \/ e \notin items' \/ e \in dropped'
  PROVE  SyncInv'
<1>1. TypeOK /\ OrderInv /\ Queue!SETypeOK /\ Queue!SETypeOK'
  BY QueueTypeStep DEF SyncInv, TypeOK
<1>2. syncToken' \in [Users -> Positions]
  BY <1>1, RunFields DEF TypeOK, TokenSaved
<1>3. TypeOK'
  BY <1>1, <1>2 DEF TypeOK, OnlyRunOf
<1>4. OrderInv'
  BY <1>1, OrderStep
<1>5. Grows
  BY <1>1, LogLength DEF Grows
<1>6. \A s \in Tasks : TaskInv(s)'
  BY <1>5, TaskStays DEF OnlyRunOf
<1>7. \A x \in Connects : ConnInv(x)'
  BY <1>5, ConnStays
<1>8. ASSUME NEW u \in Users
      PROVE  UserInv(u)'
  <2>1. /\ fetched'[u] \subseteq 1..Len(log')
        /\ SyncingTask(u)' \subseteq SyncingTask(u) /\ SyncingConn(u)' = SyncingConn(u)
    BY DEF SyncInv, UserInv, SyncingTask, SyncingConn, UserOf, OnlyRunOf
  <2>2. \A s \in Tasks : run'[s].pc = "save" => run'[s] = run[s]
    BY DEF OnlyRunOf
  <2>3. CASE syncToken'[u] = syncToken[u]
    BY <1>3, <1>5, <2>1, <2>2, <2>3, UserStays
  <2>4. CASE TokenSaved(t) /\ u = UserOf(t)
    <3>1. run[t].next \in 0..Len(log) /\ Covered(u, run[t].next)
      BY <2>4 DEF SyncInv, TaskInv, TokenSaved
    <3>2. syncToken'[u] = run[t].next
      BY <1>1, <2>4 DEF TypeOK, TokenSaved
    <3>3. t \in SyncingTask(u) /\ t \notin SyncingTask(u)'
      BY <2>4 DEF TokenSaved, SyncingTask
    <3>4. u \notin overlapped => SyncingTask(u)' = {} /\ SyncingConn(u)' = {}
      BY <2>1, <3>3 DEF SyncInv, UserInv, OneSyncOf
    <3> QED BY <3>1, <3>2, <3>4, UserSaves
  <2>5. syncToken'[u] = syncToken[u] \/ (TokenSaved(t) /\ u = UserOf(t))
    BY <1>1 DEF TypeOK, TokenSaved
  <2> QED BY <2>3, <2>4, <2>5
<1>9. \A e \in Events : HasLastChange(e)'
  BY LastChangeStays DEF SyncInv
<1>10. OnlyCancelledItemsDeleted'
  BY <1>1, <1>5, OnlyCancelledStays DEF SyncInv
<1>11. ASSUME NEW e \in Linked
       PROVE  OnItsWay(e)'
  <2>1. \A s \in Tasks : s # t => (Deleting(s, e) => Deleting(s, e)')
    BY DEF Deleting, OnlyRunOf, AccountOf
  <2> QED BY <2>1, OnItsWayStays DEF SyncInv
<1> QED BY <1>3, <1>4, <1>6, <1>7, <1>8, <1>9, <1>10, <1>11 DEF SyncInv

(***************************************************************************)
(* A connect moves on; it does not list and does not fetch.                *)
(***************************************************************************)
InitialTokenSaved(x) ==
    /\ conn[x].pc = "save" /\ conn'[x].pc \notin {"list", "save"}
    /\ syncToken' = [syncToken EXCEPT ![x[1]] = conn[x].next]

LEMMA ConnMoves ==
  ASSUME SyncInv, NEW x \in Connects, conn' \in [Connects -> Conn],
         \A y \in Connects : y # x => conn'[y] = conn[y],
         conn'[x].pc \notin {"list", "save"},
         UNCHANGED <<log, items, queueVars, run, crashes, seen, fetched, overlapped, dropped>>,
         channels' \subseteq QueueKeys, tokens' \subseteq Users,
         client' \in Users \cup {NoUser},
         syncToken' = syncToken \/ InitialTokenSaved(x)
  PROVE  SyncInv'
<1>1. TypeOK /\ OrderInv /\ UNCHANGED <<phase, key, ticket, submitted>>
  BY DEF SyncInv, queueVars
<1>2. syncToken' \in [Users -> Positions]
  BY <1>1 DEF TypeOK, Conn, InitialTokenSaved
<1>3. TypeOK'
  BY <1>1, <1>2 DEF TypeOK, Queue!SETypeOK
<1>4. OrderInv'
  BY <1>1 DEF OrderInv, Queue!Before
<1>5. Grows
  BY <1>1, LogLength DEF Grows
<1>6. \A t \in Tasks : TaskInv(t)'
  BY <1>1, <1>5, TaskStays
<1>7. \A y \in Connects : ConnInv(y)'
  BY <1>5, ConnStays
<1>8. ASSUME NEW u \in Users
      PROVE  UserInv(u)'
  <2>1. /\ fetched'[u] \subseteq 1..Len(log')
        /\ SyncingTask(u)' = SyncingTask(u) /\ SyncingConn(u)' \subseteq SyncingConn(u)
    BY <1>1 DEF SyncInv, UserInv, SyncingTask, SyncingConn, UserOf
  <2>2. \A y \in Connects : conn'[y].pc = "save" => conn'[y] = conn[y]
    OBVIOUS
  <2>3. CASE syncToken'[u] = syncToken[u]
    BY <1>3, <1>5, <2>1, <2>2, <2>3, UserStays
  <2>4. CASE InitialTokenSaved(x) /\ u = x[1]
    <3>1. conn[x].next \in 0..Len(log) /\ Covered(u, conn[x].next)
      BY <2>4 DEF SyncInv, ConnInv, InitialTokenSaved
    <3>2. syncToken'[u] = conn[x].next
      BY <1>1, <2>4 DEF TypeOK, InitialTokenSaved
    <3>3. x \in SyncingConn(u) /\ x \notin SyncingConn(u)'
      BY <2>4 DEF InitialTokenSaved, SyncingConn
    <3>4. u \notin overlapped => SyncingTask(u)' = {} /\ SyncingConn(u)' = {}
      BY <2>1, <3>3 DEF SyncInv, UserInv, OneSyncOf
    <3> QED BY <3>1, <3>2, <3>4, UserSaves
  <2>5. syncToken'[u] = syncToken[u] \/ (InitialTokenSaved(x) /\ u = x[1])
    BY <1>1 DEF TypeOK, InitialTokenSaved
  <2> QED BY <2>3, <2>4, <2>5
<1>9. \A e \in Events : HasLastChange(e)'
  BY LastChangeStays DEF SyncInv
<1>10. OnlyCancelledItemsDeleted'
  BY <1>1, <1>5, OnlyCancelledStays DEF SyncInv
<1>11. ASSUME NEW e \in Linked
       PROVE  OnItsWay(e)'
  <2>1. \A s \in Tasks : Deleting(s, e) => Deleting(s, e)'
    BY <1>1 DEF Deleting, AccountOf
  <2> QED BY <2>1, OnItsWayStays DEF SyncInv
<1> QED BY <1>3, <1>4, <1>6, <1>7, <1>8, <1>9, <1>10, <1>11 DEF SyncInv

(***************************************************************************)
(* Nothing but the credentials of the client is another one.               *)
(***************************************************************************)
LEMMA ClientSet ==
  ASSUME SyncInv, client' \in Users \cup {NoUser},
         UNCHANGED <<log, channels, items, tokens, syncToken, phase, key, ticket, submitted,
                     run, conn, crashes, seen, fetched, overlapped, dropped>>
  PROVE  SyncInv'
<1>1. TypeOK'
  BY DEF SyncInv, TypeOK, Queue!SETypeOK
<1>2. OrderInv'
  BY DEF SyncInv, OrderInv, Queue!Before
<1>3. \A e : CancelledOnce(e)' <=> CancelledOnce(e)
  BY DEF CancelledOnce, ChangesOf
<1>4. \A t \in Tasks : TaskInv(t)'
  BY <1>3 DEF SyncInv, TaskInv, Covered, UserOf
<1>5. \A x \in Connects : ConnInv(x)'
  BY DEF SyncInv, ConnInv, Covered
<1>6. \A u \in Users : UserInv(u)'
  BY DEF SyncInv, UserInv, Covered, OneSyncOf, SyncingTask, SyncingConn, UserOf
<1>7. \A e \in Events : HasLastChange(e)'
  BY LastChangeStays DEF SyncInv
<1>8. OnlyCancelledItemsDeleted'
  BY DEF SyncInv, OnlyCancelledItemsDeleted, ChangesOf
<1>9. \A e \in Linked : OnItsWay(e)'
  BY OnItsWayStays DEF SyncInv, Deleting, AccountOf
<1> QED BY <1>1, <1>2, <1>4, <1>5, <1>6, <1>7, <1>8, <1>9 DEF SyncInv

----------------------------------------------------------------------------
(* The OAuth callback                                                      *)

LEMMA ConnPCs == {"exchange", "store", "mondayToken", "list", "save", "watch", "channel",
                  "done"} \subseteq ConnPC
  BY DEF ConnPC

LEMMA StartWatchEffect ==
  ASSUME TypeOK, NEW x \in Connects, StartWatch(x)
  PROVE  /\ conn' \in [Connects -> Conn] /\ conn'[x].pc = "watch"
         /\ \A y \in Connects : y # x => conn'[y] = conn[y]
         /\ client' \in Users
  BY ConnGotoEffect, ConnUser, ConnPCs DEF StartWatch

LEMMA PlainConnectInv ==
  ASSUME SyncInv, NEW x \in Connects,
         Connect(x) \/ Exchanged(x) \/ StoredTokens(x) \/ Watched(x) \/ StoredChannel(x)
  PROVE  SyncInv'
<1>1. /\ TypeOK /\ tokens \subseteq Users /\ channels \subseteq QueueKeys
      /\ client \in Users \cup {NoUser} /\ x[1] \in Users /\ <<x[1], x[2]>> \in QueueKeys
  BY ConnUser DEF SyncInv, TypeOK
<1>2. PICK pc \in {"exchange", "store", "mondayToken", "channel", "done"} : ConnGoto(x, pc)
  BY DEF Connect, Exchanged, StoredTokens, Watched, StoredChannel
<1>3. /\ conn' \in [Connects -> Conn] /\ conn'[x].pc = pc
      /\ \A y \in Connects : y # x => conn'[y] = conn[y]
  BY <1>1, <1>2, ConnGotoEffect, ConnPCs
<1>4. /\ channels' \subseteq QueueKeys /\ tokens' \subseteq Users
      /\ client' \in Users \cup {NoUser}
      /\ UNCHANGED <<log, items, syncToken, queueVars, run, crashes, seen, fetched, overlapped,
                     dropped>>
  BY <1>1 DEF Connect, Exchanged, StoredTokens, Watched, StoredChannel, googleVars, historyVars
<1> QED BY <1>2, <1>3, <1>4, ConnMoves

LEMMA InitialSavedInv ==
  ASSUME SyncInv, NEW x \in Connects, InitialSaved(x)
  PROVE  SyncInv'
<1>1. TypeOK
  BY DEF SyncInv
<1>2. /\ conn' \in [Connects -> Conn] /\ conn'[x].pc = "watch" /\ client' \in Users
      /\ \A y \in Connects : y # x => conn'[y] = conn[y]
  BY <1>1, StartWatchEffect DEF InitialSaved
<1>3. InitialTokenSaved(x)
  BY <1>2 DEF InitialSaved, InitialTokenSaved
<1> QED BY <1>1, <1>2, <1>3, ConnMoves DEF InitialSaved, googleVars, historyVars, TypeOK

LEMMA ConnectFailsInv ==
  ASSUME SyncInv, NEW x \in Connects, ConnectFails(x)
  PROVE  SyncInv'
<1>1. /\ TypeOK /\ tokens \subseteq Users /\ channels \subseteq QueueKeys
      /\ client \in Users \cup {NoUser} /\ x[1] \in Users /\ <<x[1], x[2]>> \in QueueKeys
  BY ConnUser DEF SyncInv, TypeOK
<1>2. /\ conn' \in [Connects -> Conn] /\ conn'[x].pc \in {"watch", "done"}
      /\ \A y \in Connects : y # x => conn'[y] = conn[y]
      /\ client' \in Users \cup {NoUser}
  BY <1>1, StartWatchEffect, ConnGotoEffect, ConnPCs DEF ConnectFails
<1>3. channels' \subseteq QueueKeys /\ tokens' \subseteq Users
  BY <1>1 DEF ConnectFails
<1>4. syncToken' = syncToken \/ InitialTokenSaved(x)
  BY <1>2 DEF ConnectFails, InitialTokenSaved
<1>5. UNCHANGED <<log, items, queueVars, run, crashes, seen, fetched, overlapped, dropped>>
  BY DEF ConnectFails, historyVars
<1> QED BY <1>2, <1>3, <1>4, <1>5, ConnMoves

(***************************************************************************)
(* An initial sync begins: if another sync of the user is on its way, the  *)
(* user is from now on among those whose syncs overlapped.                 *)
(***************************************************************************)
LEMMA StartInitialSyncInv ==
  ASSUME SyncInv, NEW x \in Connects, StartInitialSync(x)
  PROVE  SyncInv'
<1> DEFINE w == x[1]
<1>1. /\ TypeOK /\ OrderInv /\ w \in Users /\ conn[x].pc = "mondayToken"
      /\ UNCHANGED <<log, channels, items, tokens, syncToken, phase, key, ticket, submitted,
                     run, crashes, seen, fetched, dropped>>
  BY ConnUser DEF SyncInv, StartInitialSync, googleVars, queueVars
<1>2. /\ conn' \in [Connects -> Conn] /\ conn'[x].pc = "list"
      /\ \A y \in Connects : y # x => conn'[y] = conn[y]
  BY <1>1, ConnGotoEffect, ConnPCs DEF StartInitialSync
<1>3. /\ overlapped' = IF SyncingTask(w) \cup SyncingConn(w) = {} THEN overlapped
                       ELSE overlapped \cup {w}
      /\ client' = w
  BY DEF StartInitialSync, NoteOverlap
<1>4. TypeOK'
  BY <1>1, <1>2, <1>3 DEF TypeOK, Queue!SETypeOK
<1>5. OrderInv'
  BY <1>1 DEF OrderInv, Queue!Before
<1>6. Grows
  BY <1>1, LogLength DEF Grows
<1>7. \A t \in Tasks : TaskInv(t)'
  BY <1>1, <1>6, TaskStays
<1>8. \A y \in Connects : ConnInv(y)'
  BY <1>2, <1>6, ConnStays
<1>9. ASSUME NEW u \in Users
      PROVE  UserInv(u)'
  <2>1. fetched'[u] \subseteq 1..Len(log') /\ SyncingTask(u)' = SyncingTask(u)
    BY <1>1 DEF SyncInv, UserInv, SyncingTask, UserOf
  <2>2. \A y \in Connects : conn'[y].pc = "save" => conn'[y] = conn[y]
    BY <1>2
  <2>3. CASE u # w \/ u \in overlapped'
    <3>1. u \notin overlapped' => SyncingConn(u)' \subseteq SyncingConn(u)
      BY <1>2, <2>3 DEF SyncingConn
    <3>2. overlapped \subseteq overlapped'
      BY <1>3
    <3> QED BY <1>1, <1>4, <1>6, <2>1, <2>2, <3>1, <3>2, UserStays
  <2>4. CASE u = w /\ u \notin overlapped'
    <3>1. SyncingTask(u)' = {} /\ SyncingConn(u) = {} /\ u \notin overlapped
      BY <1>3, <2>1, <2>4
    <3>2. SyncingConn(u)' = {x}
      BY <1>2, <2>4, <3>1 DEF SyncingConn
    <3>3. OneSyncOf(u)'
      BY <1>2, <3>1, <3>2 DEF OneSyncOf
    <3> QED BY <1>1, <3>1, <3>3 DEF SyncInv, UserInv, Covered
  <2> QED BY <2>3, <2>4
<1>10. \A e \in Events : HasLastChange(e)'
  BY <1>1, LastChangeStays DEF SyncInv
<1>11. OnlyCancelledItemsDeleted'
  BY <1>1, <1>6, OnlyCancelledStays DEF SyncInv
<1>12. \A e \in Linked : OnItsWay(e)'
  BY <1>1, OnItsWayStays DEF SyncInv, Deleting, AccountOf
<1> QED BY <1>4, <1>5, <1>7, <1>8, <1>9, <1>10, <1>11, <1>12 DEF SyncInv

----------------------------------------------------------------------------
(* What a listing has sent                                                 *)

(***************************************************************************)
(* After the last page of a listing every change up to the next sync token *)
(* has been sent to the user.                                              *)
(***************************************************************************)
LEMMA ListedCovers ==
  ASSUME TypeOK, NEW u \in Users, NEW pos \in Positions, NEW P,
         Covered(u, pos), Sent(u, pos, P), UNCHANGED log,
         NextSyncToken(pos, P) # NoPosition
  PROVE  NextSyncToken(pos, P) = Len(log) /\ Covered(u, Len(log))'
<1>1. P = ChangedSince(pos) /\ NextSyncToken(pos, P) = Len(log)
  BY DEF NextSyncToken
<1>2. fetched'[u] = fetched[u] \cup {n \in ChangesOf(P) : n > pos}
  BY DEF TypeOK, Sent
<1>3. ASSUME NEW n \in 1..Len(log)
      PROVE  n \in fetched'[u]
  <2>1. log[n].ev \in Events /\ pos \in Int
    BY LogLength DEF Change, Positions, NoPosition
  <2>2. CASE n > pos
    <3>1. n \in ChangesOf({log[n].ev})
      BY DEF ChangesOf
    <3>2. log[n].ev \in P
      BY <1>1, <2>1, <2>2, <3>1 DEF ChangedSince
    <3> QED BY <1>2, <2>2, <3>2 DEF ChangesOf
  <2>3. CASE ~(n > pos)
    <3>1. n \in 1..pos
      BY <2>1, <2>3, LogLength
    <3> QED BY <1>2, <3>1 DEF Covered
  <2> QED BY <2>2, <2>3
<1> QED BY <1>1, <1>3 DEF Covered

LEMMA SentEffect ==
  ASSUME SyncInv, NEW u \in Users, NEW pos, NEW P, Sent(u, pos, P), UNCHANGED log
  PROVE  /\ fetched' \in [Users -> SUBSET (1..MaxChanges)]
         /\ Grows
         /\ \A v \in Users : fetched'[v] \subseteq 1..Len(log')
         /\ \A v \in Users : v # u => fetched'[v] = fetched[v]
         /\ fetched'[u] = fetched[u] \cup {n \in ChangesOf(P) : n > pos}
<1>1. TypeOK /\ \A v \in Users : fetched[v] \subseteq 1..Len(log)
  BY DEF SyncInv, UserInv
<1> DEFINE new == {n \in ChangesOf(P) : n > pos}
<1>2. new \subseteq 1..Len(log) /\ 1..Len(log) \subseteq 1..MaxChanges
  BY <1>1, LogLength DEF ChangesOf
<1>3. fetched' = [fetched EXCEPT ![u] = fetched[u] \cup new]
  BY DEF Sent
<1> HIDE DEF new
<1>4. /\ fetched' \in [Users -> SUBSET (1..MaxChanges)]
      /\ fetched'[u] = fetched[u] \cup new
      /\ \A v \in Users : v # u => fetched'[v] = fetched[v]
  BY <1>1, <1>2, <1>3 DEF TypeOK
<1> QED BY <1>1, <1>2, <1>4, LogLength DEF Grows, new

(***************************************************************************)
(* A cancellation that is fetched now is on an event of the page.          *)
(***************************************************************************)
LEMMA FetchedNow ==
  ASSUME SyncInv, NEW u \in Users, NEW pos, NEW P, Sent(u, pos, P), UNCHANGED log,
         NEW e \in Events, CancellationFetched(e)'
  PROVE  /\ Cancelled(e)
         /\ CancellationFetched(e) \/ e \in P
<1>1. Cancelled(e) /\ LastChange(e)' = LastChange(e)
  BY DEF CancellationFetched, Cancelled, LastChange, ChangesOf
<1>2. PICK v \in Users : LastChange(e) \in fetched'[v]
  BY <1>1 DEF CancellationFetched
<1>3. LastChange(e) \in ChangesOf({e})
  <2>1. \E n \in ChangesOf({e}) : \A m \in ChangesOf({e}) : m <= n
    BY <1>1 DEF SyncInv, HasLastChange, Cancelled
  <2> QED BY <2>1 DEF LastChange
<1>4. CASE LastChange(e) \in fetched[v]
  BY <1>1, <1>4 DEF CancellationFetched
<1>5. CASE LastChange(e) \notin fetched[v]
  <2>1. LastChange(e) \in ChangesOf(P)
    BY <1>2, <1>5, SentEffect
  <2> QED BY <1>1, <1>3, <2>1 DEF ChangesOf
<1> QED BY <1>1, <1>4, <1>5

LEMMA PageOf ==
  ASSUME NEW pos, NEW P, Page(pos, P)
  PROVE  P \subseteq Events
  BY DEF Page, Pages, ChangedSince

(***************************************************************************)
(* The initial sync handles no event: it drops all of its page.            *)
(***************************************************************************)
LEMMA InitialListedInv ==
  ASSUME SyncInv, NEW x \in Connects, NEW P \in SUBSET Events, InitialListed(x, P)
  PROVE  SyncInv'
<1> DEFINE w == x[1]
           next == NextSyncToken(NoPosition, P)
<1>1. /\ TypeOK /\ OrderInv /\ w \in Users /\ conn[x].pc = "list" /\ Sent(w, NoPosition, P)
      /\ dropped' = dropped \cup P
      /\ UNCHANGED <<log, channels, items, tokens, syncToken, phase, key, ticket, submitted,
                     run, crashes, seen, overlapped>>
  BY ConnUser DEF SyncInv, InitialListed, googleVars, queueVars
<1>2. /\ Grows /\ fetched' \in [Users -> SUBSET (1..MaxChanges)]
      /\ \A v \in Users : fetched'[v] \subseteq 1..Len(log')
  BY <1>1, SentEffect
<1>3. Covered(w, NoPosition)
  BY DEF Covered, NoPosition
<1>4. NoPosition \in Positions /\ Len(log) \in Positions /\ Len(log) \in Nat
  BY <1>1, LogLength
<1>5. next # NoPosition => next = Len(log) /\ Covered(w, Len(log))'
  BY <1>1, <1>3, <1>4, ListedCovers
<1> HIDE DEF next
<1>6. /\ conn' \in [Connects -> Conn] /\ client' \in Users \cup {NoUser}
      /\ \A y \in Connects : y # x => conn'[y] = conn[y]
      /\ \/ conn'[x].pc = "watch"
         \/ /\ conn'[x].pc = "save" /\ conn'[x].next = Len(log)
            /\ Covered(w, Len(log))'
  <2>1. CASE next # NoPosition /\ UNCHANGED client
             /\ conn' = [conn EXCEPT ![x] = [pc |-> "save", next |-> next]]
    BY <1>1, <1>4, <1>5, <2>1, ConnEffect, ConnPCs DEF TypeOK
  <2>2. CASE StartWatch(x)
    BY <1>1, <2>2, StartWatchEffect
  <2> QED BY <2>1, <2>2 DEF InitialListed, next
<1>7. TypeOK'
  BY <1>1, <1>2, <1>6 DEF TypeOK, Queue!SETypeOK
<1>8. OrderInv'
  BY <1>1 DEF OrderInv, Queue!Before
<1>9. \A t \in Tasks : TaskInv(t)'
  BY <1>1, <1>2, TaskStays
<1>10. \A y \in Connects : ConnInv(y)'
  <2>1. \A y \in Connects : y # x => ConnInv(y)'
    BY <1>2, <1>6, ConnStays
  <2>2. ConnInv(x)'
    BY <1>1, <1>4, <1>6 DEF ConnInv, Covered
  <2> QED BY <2>1, <2>2
<1>11. ASSUME NEW u \in Users
       PROVE  UserInv(u)'
  <2>1. SyncingTask(u)' = SyncingTask(u) /\ SyncingConn(u)' \subseteq SyncingConn(u)
    BY <1>1, <1>6 DEF SyncingTask, SyncingConn, UserOf
  <2>2. \A y \in Connects :
           conn'[y].pc = "save" => conn'[y] = conn[y] \/ conn'[y].next = Len(log)
    BY <1>6
  <2> QED BY <1>1, <1>2, <1>7, <2>1, <2>2, UserStays
<1>12. \A e \in Events : HasLastChange(e)'
  BY <1>1, LastChangeStays DEF SyncInv
<1>13. OnlyCancelledItemsDeleted'
  BY <1>1, <1>2, OnlyCancelledStays DEF SyncInv
<1>14. ASSUME NEW e \in Linked, e \notin dropped', CancellationFetched(e)'
       PROVE  e \notin items' \/ \E t \in Tasks : Deleting(t, e)'
  <2>1. CancellationFetched(e) /\ e \notin dropped
    BY <1>1, <1>14, FetchedNow, SetsAssumption
  <2>2. e \notin items \/ \E t \in Tasks : Deleting(t, e)
    BY <2>1 DEF SyncInv, OnItsWay
  <2> QED BY <1>1, <2>2 DEF Deleting, AccountOf
<1>15. \A e \in Linked : OnItsWay(e)'
  BY <1>14 DEF OnItsWay
<1> QED BY <1>7, <1>8, <1>9, <1>10, <1>11, <1>12, <1>13, <1>15 DEF SyncInv

----------------------------------------------------------------------------
(* The calendar and its notifications                                      *)

LEMMA LogAppended ==
  ASSUME TypeOK, NEW e \in Events, NEW c \in BOOLEAN, ChangeEvent(e, c)
  PROVE  /\ log' \in Seq(Change) /\ Len(log') = Len(log) + 1 /\ Len(log') <= MaxChanges
         /\ \A n \in 1..Len(log) : log'[n] = log[n]
         /\ log'[Len(log')].ev = e
<1> DEFINE ch == [ev |-> e, cancelled |-> c]
<1>1. ch \in Change /\ ch.ev = e
  BY DEF Change
<1>2. log' = Append(log, ch) /\ Len(log) < MaxChanges
  BY DEF ChangeEvent
<1> HIDE DEF ch
<1> QED BY <1>1, <1>2, LogLength DEF TypeOK

LEMMA ChangeEventInv ==
  ASSUME SyncInv, NEW e \in Events, NEW c \in BOOLEAN, ChangeEvent(e, c)
  PROVE  SyncInv'
<1> DEFINE N == Len(log')
<1>1. /\ TypeOK /\ OrderInv /\ Len(log) \in Nat /\ MaxChanges \in Nat
      /\ UNCHANGED <<channels, items, tokens, syncToken, client, phase, key, ticket, submitted,
                     run, conn, crashes, seen, fetched, overlapped, dropped>>
  BY LogLength DEF SyncInv, ChangeEvent, queueVars, historyVars
<1>2. /\ log' \in Seq(Change) /\ N = Len(log) + 1 /\ N <= MaxChanges
      /\ \A n \in 1..Len(log) : log'[n] = log[n]
      /\ log'[N].ev = e
  BY <1>1, LogAppended
<1> HIDE DEF N
<1>3. TypeOK'
  BY <1>1, <1>2 DEF TypeOK, Queue!SETypeOK, N
<1>4. OrderInv'
  BY <1>1 DEF OrderInv, Queue!Before
<1>5. Grows
  BY <1>1, <1>2 DEF Grows, N
<1>6. \A t \in Tasks : TaskInv(t)'
  BY <1>1, <1>5, TaskStays
<1>7. \A x \in Connects : ConnInv(x)'
  BY <1>1, <1>5, ConnStays
<1>8. ASSUME NEW u \in Users
      PROVE  UserInv(u)'
  <2>1. fetched'[u] \subseteq 1..Len(log')
    BY <1>1, <1>2 DEF SyncInv, UserInv, N
  <2>2. SyncingTask(u)' = SyncingTask(u) /\ SyncingConn(u)' = SyncingConn(u)
    BY <1>1 DEF SyncingTask, SyncingConn, UserOf
  <2> QED BY <1>1, <1>3, <1>5, <2>1, <2>2, UserStays
<1>9. \A f : ChangesOf({f})' = ChangesOf({f}) \cup (IF f = e THEN {N} ELSE {})
  BY <1>1, <1>2 DEF ChangesOf, N
<1>10. ASSUME NEW f \in Events
       PROVE  HasLastChange(f)'
  <2>1. CASE f = e
    <3>1. N \in ChangesOf({f})' /\ \A m \in ChangesOf({f})' : m <= N
      BY <1>1, <1>2, <1>9, <2>1 DEF ChangesOf, N
    <3> QED BY <3>1 DEF HasLastChange
  <2>2. CASE f # e
    BY <1>9, <2>2 DEF SyncInv, HasLastChange
  <2> QED BY <2>1, <2>2
<1>11. OnlyCancelledItemsDeleted'
  BY <1>1, <1>5, OnlyCancelledStays DEF SyncInv
<1>12. ASSUME NEW f \in Linked, f \notin dropped', CancellationFetched(f)'
       PROVE  f \notin items' \/ \E t \in Tasks : Deleting(t, f)'
  <2>1. CASE f = e
    <3>1. N \in ChangesOf({f})' /\ \A m \in ChangesOf({f})' : m <= N /\ m \in Nat /\ N \in Nat
      BY <1>1, <1>2, <1>9, <2>1 DEF ChangesOf, N
    <3>2. LastChange(f)' = N
      BY <3>1 DEF LastChange
    <3>3. \A u \in Users : N \notin fetched'[u]
      BY <1>1, <1>2 DEF SyncInv, UserInv
    <3> QED BY <1>12, <3>2, <3>3 DEF CancellationFetched
  <2>2. CASE f # e
    <3>1. ChangesOf({f})' = ChangesOf({f})
      BY <1>9, <2>2
    <3>2. LastChange(f)' = LastChange(f)
      BY <3>1 DEF LastChange
    <3>3. ChangesOf({f}) # {}
      BY <1>12, <3>1 DEF CancellationFetched, Cancelled
    <3>4. LastChange(f) \in ChangesOf({f})
      <4>1. \E n \in ChangesOf({f}) : \A m \in ChangesOf({f}) : m <= n
        BY <3>3, SetsAssumption DEF SyncInv, HasLastChange
      <4> QED BY <4>1 DEF LastChange
    <3>5. log'[LastChange(f)] = log[LastChange(f)]
      BY <1>2, <3>4 DEF ChangesOf
    <3>6. CancellationFetched(f) /\ f \notin dropped
      BY <1>1, <1>12, <3>1, <3>2, <3>3, <3>5 DEF CancellationFetched, Cancelled
    <3>7. f \notin items \/ \E t \in Tasks : Deleting(t, f)
      BY <3>6 DEF SyncInv, OnItsWay
    <3> QED BY <1>1, <3>7 DEF Deleting, AccountOf
  <2> QED BY <2>1, <2>2
<1>13. \A f \in Linked : OnItsWay(f)'
  BY <1>12 DEF OnItsWay
<1> QED BY <1>3, <1>4, <1>6, <1>7, <1>8, <1>10, <1>11, <1>13 DEF SyncInv

LEMMA NotifyInv ==
  ASSUME SyncInv, [Queue!SENext]_queueVars, NEW t \in Tasks, NEW k \in QueueKeys, Notify(t, k)
  PROVE  SyncInv'
<1>1. /\ TypeOK /\ OrderInv /\ Queue!SETypeOK' /\ OrderInv'
      /\ UNCHANGED <<log, channels, items, tokens, syncToken, client, run, conn, crashes,
                     fetched, overlapped, dropped>>
  BY QueueTypeStep, OrderStep DEF SyncInv, TypeOK, Notify, googleVars
<1>2. /\ phase[t] = "idle" /\ phase'[t] = "queued"
      /\ \A s \in Tasks : s # t => phase'[s] = phase[s] /\ key'[s] = key[s]
      /\ run[t].pc \in {"idle", "failed"}
  BY <1>1 DEF TypeOK, Run, Queue!SETypeOK, Notify, Queue!Submit, SyncInv, TaskInv, Awaiting
<1>3. seen' \in [Tasks -> 0..MaxChanges]
  BY <1>1, LogLength DEF TypeOK, Notify
<1>4. TypeOK'
  BY <1>1, <1>3 DEF TypeOK
<1>5. Grows
  BY <1>1, LogLength DEF Grows
<1>6. \A s \in Tasks : TaskInv(s)'
  <2>1. \A s \in Tasks : phase'[s] = "running" <=> phase[s] = "running"
    BY <1>2
  <2>2. \A s \in Tasks : run[s].pc \in Awaiting => key'[s] = key[s]
    BY <1>2 DEF Awaiting
  <2> QED BY <1>1, <1>5, <2>1, <2>2, TaskStays
<1>7. \A x \in Connects : ConnInv(x)'
  BY <1>1, <1>5, ConnStays
<1>8. ASSUME NEW u \in Users
      PROVE  UserInv(u)'
  <2>1. /\ fetched'[u] \subseteq 1..Len(log')
        /\ SyncingTask(u)' = SyncingTask(u) /\ SyncingConn(u)' = SyncingConn(u)
    BY <1>1, <1>2 DEF SyncInv, UserInv, SyncingTask, SyncingConn, UserOf
  <2> QED BY <1>1, <1>4, <1>5, <2>1, UserStays
<1>9. \A e \in Events : HasLastChange(e)'
  BY <1>1, LastChangeStays DEF SyncInv
<1>10. OnlyCancelledItemsDeleted'
  BY <1>1, <1>5, OnlyCancelledStays DEF SyncInv
<1>11. ASSUME NEW e \in Linked
       PROVE  OnItsWay(e)'
  <2>1. \A s \in Tasks : Deleting(s, e) => Deleting(s, e)'
    BY <1>1, <1>2 DEF Deleting, AccountOf
  <2> QED BY <1>1, <2>1, OnItsWayStays DEF SyncInv
<1> QED BY <1>1, <1>4, <1>6, <1>7, <1>8, <1>9, <1>10, <1>11 DEF SyncInv

----------------------------------------------------------------------------
(* The queued syncs                                                        *)

LEMMA BeginSyncInv ==
  ASSUME SyncInv, [Queue!SENext]_queueVars, NEW t \in Tasks, BeginSync(t)
  PROVE  SyncInv'
<1>1. /\ TypeOK /\ phase[t] = "queued" /\ phase'[t] = "running" /\ UNCHANGED key
      /\ \A s \in Tasks : s # t => phase'[s] = phase[s]
      /\ UNCHANGED <<log, channels, items, tokens, syncToken, client, conn, crashes, seen,
                     fetched, overlapped, dropped>>
  BY DEF SyncInv, TypeOK, Queue!SETypeOK, BeginSync, Queue!Begin, googleVars, historyVars
<1> DEFINE r == [IdleRun EXCEPT !.pc = "tokens"]
<1>2. r \in Run /\ r.pc = "tokens"
  BY IdleRunType, PcEffect DEF RunPC
<1>3. Goto(t, r)
  BY DEF BeginSync
<1> HIDE DEF r
<1>4. OnlyRunOf(t) /\ run'[t] = r
  BY <1>1, <1>2, <1>3, GotoEffect
<1>5. run[t].pc \notin Awaiting
  BY <1>1 DEF SyncInv, TaskInv
<1>6. TaskInv(t)'
  BY <1>1, <1>2, <1>4 DEF TaskInv, Awaiting, RunPC
<1>7. \A e \in Linked : ~Deleting(t, e)
  BY <1>5 DEF Deleting, Awaiting, RunPC
<1> QED BY <1>1, <1>2, <1>4, <1>6, <1>7, TaskMoves DEF TypeOK

(***************************************************************************)
(* A sync that neither holds a cancelled event nor writes goes on or ends. *)
(***************************************************************************)
LEMMA PlainStep ==
  ASSUME SyncInv, [Queue!SENext]_queueVars, NEW t \in Tasks, OnlyRunOf(t),
         \/ UNCHANGED queueVars /\ run'[t].pc = "syncToken" /\ phase[t] = "running"
         \/ Queue!End(t) /\ run'[t].pc = "idle",
         UNCHANGED <<log, channels, items, tokens, syncToken, conn, crashes, seen, fetched,
                     overlapped, dropped>>,
         client' \in Users \cup {NoUser},
         \A e \in Linked : ~Deleting(t, e)
  PROVE  SyncInv'
<1>1. TypeOK /\ UNCHANGED key /\ \A s \in Tasks : s # t => phase'[s] = phase[s]
  BY EndEffect DEF SyncInv, queueVars
<1>2. TaskInv(t)'
  BY <1>1, EndEffect DEF TaskInv, Awaiting, RunPC, queueVars
<1> QED BY <1>1, <1>2, TaskMoves DEF TypeOK

LEMMA GotTokensInv ==
  ASSUME SyncInv, [Queue!SENext]_queueVars, NEW t \in Tasks, GotTokens(t)
  PROVE  SyncInv'
<1>1. /\ TypeOK /\ run[t] \in Run /\ run[t].pc = "tokens" /\ client \in Users \cup {NoUser}
      /\ UNCHANGED <<log, channels, items, tokens, syncToken, conn, crashes, seen, fetched,
                     overlapped, dropped>>
  BY DEF SyncInv, TypeOK, GotTokens, googleVars, historyVars
<1>2. phase[t] = "running" /\ UserOf(t) \in Users
  BY <1>1, RunningUser DEF Awaiting, RunPC
<1>3. \A e \in Linked : ~Deleting(t, e)
  BY <1>1 DEF Deleting
<1>4. CASE client' = UserOf(t) /\ Goto(t, [run[t] EXCEPT !.pc = "syncToken"]) /\ UNCHANGED queueVars
  <2> DEFINE r == [run[t] EXCEPT !.pc = "syncToken"]
  <2>1. r \in Run /\ r.pc = "syncToken" /\ Goto(t, r)
    BY <1>1, <1>4, PcEffect DEF RunPC
  <2> HIDE DEF r
  <2>2. OnlyRunOf(t) /\ run'[t].pc = "syncToken"
    BY <1>1, <2>1, GotoEffect
  <2> QED BY <1>1, <1>2, <1>3, <1>4, <2>2, PlainStep
<1>5. CASE Finish(t) /\ UNCHANGED client
  <2>1. OnlyRunOf(t) /\ run'[t].pc = "idle" /\ Queue!End(t)
    BY <1>1, <1>5, FinishEffect, IdleRunType
  <2> QED BY <1>1, <1>3, <1>5, <2>1, PlainStep
<1> QED BY <1>4, <1>5 DEF GotTokens

(***************************************************************************)
(* A sync reads the sync token.  No other sync of its key runs, so that    *)
(* any other that is between reading and storing counts as an overlap.     *)
(***************************************************************************)
LEMMA GotSyncTokenInv ==
  ASSUME SyncInv, NEW t \in Tasks, GotSyncToken(t)
  PROVE  SyncInv'
<1> DEFINE w == UserOf(t)
           others == {s \in SyncingTask(w) : key[s] # key[t]} \cup SyncingConn(w)
           pos == syncToken[w]
           r == [run[t] EXCEPT !.pc = "list", !.token = pos, !.by = client]
<1>1. /\ TypeOK /\ OrderInv /\ Queue!SETypeOK /\ run[t] \in Run /\ run[t].pc = "syncToken"
      /\ client \in Users \cup {NoUser}
      /\ UNCHANGED <<log, channels, items, tokens, syncToken, client, phase, key, ticket,
                     submitted, conn, crashes, seen, fetched, dropped>>
  BY DEF SyncInv, TypeOK, GotSyncToken, googleVars, queueVars
<1>2. phase[t] = "running" /\ w \in Users
  BY <1>1, RunningUser DEF Awaiting, RunPC
<1>3. pos \in Positions /\ pos <= Len(log) /\ Covered(w, pos)
  BY <1>1, <1>2 DEF SyncInv, UserInv, TypeOK
<1>4. overlapped' = IF others = {} THEN overlapped ELSE overlapped \cup {w}
  BY DEF GotSyncToken, NoteOverlap
<1>5. Goto(t, r)
  BY DEF GotSyncToken
<1>6. r \in Run /\ r.pc = "list" /\ r.token = pos
  <2> HIDE DEF pos
  <2> QED BY <1>1, <1>3 DEF Run, RunPC
<1> HIDE DEF r
<1>7. OnlyRunOf(t) /\ run'[t] = r
  BY <1>1, <1>5, <1>6, GotoEffect
<1>8. overlapped \subseteq overlapped' /\ overlapped' \subseteq Users
  BY <1>1, <1>2, <1>4 DEF TypeOK
<1>9. TypeOK'
  BY <1>1, <1>7, <1>8 DEF TypeOK, OnlyRunOf, Queue!SETypeOK
<1>10. OrderInv'
  BY <1>1 DEF OrderInv, Queue!Before
<1>11. Grows
  BY <1>1, LogLength DEF Grows
<1>12. ASSUME NEW s \in Tasks
       PROVE  TaskInv(s)'
  <2>1. CASE s # t
    BY <1>1, <1>7, <1>11, <2>1, TaskStays DEF OnlyRunOf
  <2>2. CASE s = t
    BY <1>1, <1>2, <1>3, <1>6, <1>7, <2>2 DEF TaskInv, Awaiting, RunPC, Covered, UserOf
  <2> QED BY <2>1, <2>2
<1>13. \A x \in Connects : ConnInv(x)'
  BY <1>1, <1>11, ConnStays
<1>14. ASSUME NEW u \in Users
       PROVE  UserInv(u)'
  <2>1. fetched'[u] \subseteq 1..Len(log') /\ SyncingConn(u)' = SyncingConn(u)
    BY <1>1 DEF SyncInv, UserInv, SyncingConn
  <2>2. \A s \in Tasks : run'[s].pc = "save" => run'[s] = run[s]
    BY <1>6, <1>7 DEF OnlyRunOf
  <2>3. CASE u # w \/ u \in overlapped'
    <3>1. u \notin overlapped' => SyncingTask(u)' \subseteq SyncingTask(u)
      BY <1>1, <1>7, <2>3 DEF SyncingTask, OnlyRunOf, UserOf
    <3> QED BY <1>1, <1>8, <1>9, <1>11, <2>1, <2>2, <3>1, UserStays
  <2>4. CASE u = w /\ u \notin overlapped'
    <3>1. others = {} /\ u \notin overlapped
      BY <1>4, <2>4
    <3>2. SyncingConn(u)' = {}
      BY <2>1, <2>4, <3>1
    <3>3. ASSUME NEW s \in SyncingTask(u)
          PROVE  FALSE
      <4>1. s \in Tasks /\ run[s].pc \in {"list", "save"} /\ key[s] = key[t]
        BY <2>4, <3>1 DEF SyncingTask
      <4>2. phase[s] = "running"
        BY <4>1, RunningUser DEF Awaiting, RunPC
      <4>3. s = t
        BY <1>1, <1>2, <4>1, <4>2, OneRunning
      <4> QED BY <1>1, <4>1, <4>3
    <3>4. SyncingTask(u)' \subseteq {t}
      BY <1>1, <1>7, <3>3 DEF SyncingTask, OnlyRunOf, UserOf
    <3>5. OneSyncOf(u)'
      BY <1>6, <1>7, <3>2, <3>4 DEF OneSyncOf
    <3> QED BY <1>1, <3>1, <3>5 DEF SyncInv, UserInv, Covered
  <2> QED BY <2>3, <2>4
<1>15. \A e \in Events : HasLastChange(e)'
  BY <1>1, LastChangeStays DEF SyncInv
<1>16. OnlyCancelledItemsDeleted'
  BY <1>1, <1>11, OnlyCancelledStays DEF SyncInv
<1>17. ASSUME NEW e \in Linked
       PROVE  OnItsWay(e)'
  <2>1. \A s \in Tasks : Deleting(s, e) => Deleting(s, e)'
    BY <1>1, <1>7 DEF Deleting, AccountOf, OnlyRunOf
  <2> QED BY <1>1, <2>1, OnItsWayStays DEF SyncInv
<1> QED BY <1>9, <1>10, <1>12, <1>13, <1>14, <1>15, <1>16, <1>17 DEF SyncInv

LEMMA SyncTokenGoneInv ==
  ASSUME SyncInv, [Queue!SENext]_queueVars, NEW t \in Tasks, SyncTokenGone(t)
  PROVE  SyncInv'
<1>1. /\ TypeOK /\ run[t] \in Run /\ run[t].pc = "list" /\ client \in Users \cup {NoUser}
      /\ UNCHANGED <<log, channels, items, tokens, syncToken, client, queueVars, conn, crashes,
                     seen, fetched, overlapped, dropped>>
      /\ UNCHANGED <<key, phase>>
  BY DEF SyncInv, TypeOK, SyncTokenGone, googleVars, historyVars, queueVars
<1>2. phase[t] = "running" /\ NoPosition \in Positions /\ NoPosition <= Len(log)
  BY <1>1, RunningUser, LogLength DEF Awaiting, RunPC, NoPosition
<1> DEFINE r == [run[t] EXCEPT !.token = NoPosition, !.by = client]
<1>3. r \in Run /\ r.pc = "list" /\ r.token = NoPosition
  BY <1>1, <1>2 DEF Run
<1>4. Goto(t, r)
  BY DEF SyncTokenGone
<1> HIDE DEF r
<1>5. OnlyRunOf(t) /\ run'[t] = r
  BY <1>1, <1>3, <1>4, GotoEffect
<1>6. \A u : Covered(u, NoPosition)'
  BY DEF Covered, NoPosition
<1>7. TaskInv(t)'
  BY <1>1, <1>2, <1>3, <1>5, <1>6 DEF TaskInv, Awaiting, RunPC
<1>8. \A e \in Linked : ~Deleting(t, e)
  BY <1>1 DEF Deleting
<1> QED BY <1>1, <1>3, <1>5, <1>7, <1>8, TaskMoves DEF TypeOK

(***************************************************************************)
(* events.list answers: the next sync token, of the last page only, covers *)
(* what the user has been sent by now, and a cancellation that is fetched  *)
(* is on its way or dropped.                                               *)
(***************************************************************************)
LEMMA ListedRun ==
  ASSUME SyncInv, NEW t \in Tasks, NEW P \in SUBSET Events, NEW e \in Events \cup {NoEvent},
         Listed(t, P, e)
  PROVE  LET c == e # NoEvent /\ Cancelled(e)
         IN  /\ OnlyRunOf(t)
             /\ \A s \in Tasks : s # t => phase'[s] = phase[s]
             /\ UNCHANGED key
             /\ \/ /\ run'[t].pc = "save" /\ run'[t].next = Len(log)
                   /\ run'[t].first = e /\ run'[t].cancelled = c
                   /\ Covered(UserOf(t), Len(log))'
                   /\ phase'[t] = "running"
                \/ /\ run'[t].pc = "mondayToken" /\ run'[t].first = e
                   /\ Deletes(t, e, c) /\ phase'[t] = "running"
                \/ run'[t].pc = "idle" /\ ~Deletes(t, e, c) /\ phase'[t] = "ended"
<1> DEFINE c == e # NoEvent /\ Cancelled(e)
           pos == run[t].token
           next == NextSyncToken(pos, P)
           w == UserOf(t)
<1>1. /\ TypeOK /\ run[t].pc = "list" /\ pos \in Positions /\ Sent(w, pos, P) /\ UNCHANGED log
  BY RunFields DEF SyncInv, TypeOK, Listed, googleVars
<1>2. phase[t] = "running" /\ w \in Users /\ Covered(w, pos)
  BY <1>1, RunningUser DEF Awaiting, RunPC, SyncInv, TaskInv
<1>3. c \in BOOLEAN
  OBVIOUS
<1>4. next # NoPosition => next = Len(log) /\ Covered(w, Len(log))'
  <2>1. \A u \in Users : u = w /\ next # NoPosition =>
                            next = Len(log) /\ \A n \in 1..Len(log) : n \in fetched'[u]
    BY <1>1, <1>2, ListedCovers DEF Covered
  <2>2. UserOf(t)' = UserOf(t)
    BY DEF Listed, HandleFirst, Finish, Queue!End, queueVars, UserOf
  <2> HIDE DEF next
  <2> QED BY <1>1, <1>2, <2>1, <2>2 DEF Covered
<1>5. Len(log) \in Positions
  BY <1>1, LogLength
<1>6. \/ /\ next # NoPosition /\ UNCHANGED queueVars
         /\ Goto(t, [IdleRun EXCEPT !.pc = "save", !.next = next, !.first = e,
                                    !.cancelled = c])
      \/ HandleFirst(t, e, c)
  BY DEF Listed
<1> HIDE DEF next, c
<1>7. CASE /\ next # NoPosition /\ UNCHANGED queueVars
           /\ Goto(t, [IdleRun EXCEPT !.pc = "save", !.next = next, !.first = e,
                                      !.cancelled = c])
  <2> DEFINE r == [IdleRun EXCEPT !.pc = "save", !.next = next, !.first = e, !.cancelled = c]
  <2>1. /\ r \in Run /\ r.pc = "save" /\ r.next = next /\ r.first = e /\ r.cancelled = c
    BY <1>3, <1>4, <1>5, <1>7, IdleRunType DEF Run, RunPC
  <2>2. Goto(t, r)
    BY <1>7
  <2> HIDE DEF r
  <2>3. OnlyRunOf(t) /\ run'[t] = r
    BY <1>1, <2>1, <2>2, GotoEffect
  <2> QED BY <1>2, <1>4, <1>7, <2>1, <2>3 DEF queueVars, c
<1>8. CASE HandleFirst(t, e, c)
  <2>1. /\ OnlyRunOf(t)
        /\ \/ /\ Deletes(t, e, c) /\ UNCHANGED queueVars
              /\ run'[t].pc = "mondayToken" /\ run'[t].first = e
           \/ ~Deletes(t, e, c) /\ Queue!End(t) /\ run'[t].pc = "idle"
    BY <1>1, <1>3, <1>8, HandleEffect
  <2> QED BY <1>1, <1>2, <2>1, EndEffect DEF queueVars, c
<1> QED BY <1>6, <1>7, <1>8

LEMMA CancelledBefore ==
  ASSUME SyncInv, NEW e \in Events, Cancelled(e)
  PROVE  CancelledOnce(e)
<1>1. \E n \in ChangesOf({e}) : \A m \in ChangesOf({e}) : m <= n
  BY DEF SyncInv, HasLastChange, Cancelled
<1>2. LastChange(e) \in ChangesOf({e})
  BY <1>1 DEF LastChange
<1> QED BY <1>2 DEF Cancelled, CancelledOnce

LEMMA ListedInv ==
  ASSUME SyncInv, [Queue!SENext]_queueVars, NEW t \in Tasks, NEW P \in SUBSET Events,
         NEW e \in Events \cup {NoEvent}, Listed(t, P, e)
  PROVE  SyncInv'
<1> DEFINE c == e # NoEvent /\ Cancelled(e)
           w == UserOf(t)
           pos == run[t].token
<1>1. /\ TypeOK /\ OrderInv /\ run[t].pc = "list" /\ Sent(w, pos, P)
      /\ dropped' = dropped \cup Unhandled(t, P, e)
      /\ UNCHANGED <<log, channels, items, tokens, syncToken, client, conn, crashes, seen,
                     overlapped>>
  BY DEF SyncInv, Listed, googleVars
<1>2. phase[t] = "running" /\ w \in Users
  BY <1>1, RunningUser DEF Awaiting, RunPC
<1>3. /\ OnlyRunOf(t) /\ UNCHANGED key /\ c \in BOOLEAN
      /\ \A s \in Tasks : s # t => phase'[s] = phase[s]
      /\ \/ /\ run'[t].pc = "save" /\ run'[t].next = Len(log)
            /\ run'[t].first = e /\ run'[t].cancelled = c
            /\ Covered(w, Len(log))' /\ phase'[t] = "running"
         \/ /\ run'[t].pc = "mondayToken" /\ run'[t].first = e
            /\ Deletes(t, e, c) /\ phase'[t] = "running"
         \/ run'[t].pc = "idle" /\ ~Deletes(t, e, c) /\ phase'[t] = "ended"
  BY ListedRun
<1>4. c => e \in Events /\ CancelledOnce(e)
  BY CancelledBefore
<1> HIDE DEF c
<1>5. /\ Grows /\ fetched' \in [Users -> SUBSET (1..MaxChanges)]
      /\ \A v \in Users : fetched'[v] \subseteq 1..Len(log')
  BY <1>1, <1>2, SentEffect
<1>6. Queue!SETypeOK' /\ OrderInv'
  BY <1>1, QueueTypeStep, OrderStep DEF TypeOK
<1>7. dropped' \subseteq Events
  BY <1>1 DEF TypeOK, Unhandled
<1>8. TypeOK'
  BY <1>1, <1>3, <1>5, <1>6, <1>7 DEF TypeOK, OnlyRunOf
<1>9. ASSUME NEW s \in Tasks
      PROVE  TaskInv(s)'
  <2>1. CASE s # t
    BY <1>3, <1>5, <2>1, TaskStays DEF OnlyRunOf
  <2>2. CASE s = t
    <3>1. CancelledOnce(e) => CancelledOnce(e)'
      BY <1>1, <1>5, CancelledOnceGrows
    <3>2. Len(log) \in 0..Len(log') /\ UserOf(t)' = w
      BY <1>1, <1>3, LogLength DEF UserOf
    <3> QED BY <1>1, <1>3, <1>4, <2>2, <3>1, <3>2
            DEF TaskInv, Awaiting, RunPC, Deletes, Covered
  <2> QED BY <2>1, <2>2
<1>10. \A x \in Connects : ConnInv(x)'
  BY <1>1, <1>5, ConnStays
<1>11. ASSUME NEW u \in Users
       PROVE  UserInv(u)'
  <2>1. SyncingTask(u)' \subseteq SyncingTask(u) /\ SyncingConn(u)' = SyncingConn(u)
    BY <1>1, <1>3 DEF SyncingTask, SyncingConn, UserOf, OnlyRunOf
  <2>2. \A s \in Tasks : run'[s].pc = "save" => run'[s] = run[s] \/ run'[s].next = Len(log)
    BY <1>3 DEF OnlyRunOf
  <2> QED BY <1>1, <1>5, <1>8, <2>1, <2>2, UserStays
<1>12. \A f \in Events : HasLastChange(f)'
  BY <1>1, LastChangeStays DEF SyncInv
<1>13. OnlyCancelledItemsDeleted'
  BY <1>1, <1>5, OnlyCancelledStays DEF SyncInv
<1>14. ASSUME NEW f \in Linked, f \notin dropped', CancellationFetched(f)'
       PROVE  f \notin items' \/ \E s \in Tasks : Deleting(s, f)'
  <2>1. f \in Events /\ Cancelled(f) /\ f \notin dropped /\ (CancellationFetched(f) \/ f \in P)
    BY <1>1, <1>2, <1>14, FetchedNow, SetsAssumption
  <2>2. CASE CancellationFetched(f)
    <3>1. f \notin items \/ \E s \in Tasks : Deleting(s, f)
      BY <2>1, <2>2 DEF SyncInv, OnItsWay
    <3>2. \A s \in Tasks : Deleting(s, f) => Deleting(s, f)'
      BY <1>1, <1>3 DEF Deleting, AccountOf, OnlyRunOf
    <3> QED BY <1>1, <3>1, <3>2
  <2>3. CASE f \in P
    <3>1. f = e /\ AccountOf(t) \in Authorized
      BY <1>1, <1>14, <2>3 DEF Unhandled
    <3>2. c
      BY <2>1, <3>1, NoneAssumption DEF c
    <3>3. Deletes(t, e, c)
      BY <3>1, <3>2, SetsAssumption DEF Deletes
    <3>4. Deleting(t, f)'
      BY <1>3, <3>1, <3>2, <3>3 DEF Deleting, AccountOf
    <3> QED BY <3>4
  <2> QED BY <2>1, <2>2, <2>3
<1>15. \A f \in Linked : OnItsWay(f)'
  BY <1>14 DEF OnItsWay
<1> QED BY <1>6, <1>8, <1>9, <1>10, <1>11, <1>12, <1>13, <1>15 DEF SyncInv

LEMMA SavedSyncTokenInv ==
  ASSUME SyncInv, [Queue!SENext]_queueVars, NEW t \in Tasks, SavedSyncToken(t)
  PROVE  SyncInv'
<1> DEFINE e == run[t].first
           c == run[t].cancelled
<1>1. /\ TypeOK /\ run[t].pc = "save" /\ e \in Events \cup {NoEvent} /\ c \in BOOLEAN
      /\ UNCHANGED <<log, channels, items, tokens, client, conn, crashes, seen, fetched,
                     overlapped, dropped>>
      /\ c => CancelledOnce(e)
      /\ phase[t] = "running"
  BY RunFields, RunningUser
  DEF SyncInv, TypeOK, SavedSyncToken, googleVars, historyVars, TaskInv, Awaiting, RunPC
<1>2. /\ OnlyRunOf(t)
      /\ \/ /\ Deletes(t, e, c) /\ UNCHANGED queueVars
            /\ run'[t].pc = "mondayToken" /\ run'[t].first = e
         \/ ~Deletes(t, e, c) /\ Queue!End(t) /\ run'[t].pc = "idle"
  BY <1>1, HandleEffect DEF SavedSyncToken
<1>3. TokenSaved(t)
  BY <1>2 DEF SavedSyncToken, TokenSaved
<1>4. /\ UNCHANGED key /\ \A s \in Tasks : s # t => phase'[s] = phase[s]
      /\ run'[t].pc \in Awaiting <=> phase'[t] = "running"
  BY <1>1, <1>2, EndEffect DEF queueVars, Awaiting, RunPC
<1>5. \A f : CancelledOnce(f) => CancelledOnce(f)'
  BY <1>1 DEF CancelledOnce, ChangesOf
<1>6. TaskInv(t)'
  BY <1>1, <1>2, <1>4, <1>5 DEF TaskInv, Deletes
<1>7. ASSUME NEW f \in Linked, Deleting(t, f)
      PROVE  Deleting(t, f)'
  <2>1. Deletes(t, e, c) /\ f = e
    BY <1>1, <1>7, SetsAssumption DEF Deleting, Deletes
  <2> QED BY <1>2, <1>4, <1>7, <2>1 DEF Deleting, AccountOf
<1> QED BY <1>1, <1>2, <1>3, <1>4, <1>6, <1>7, TaskMoves DEF TypeOK

LEMMA GotMondayTokenInv ==
  ASSUME SyncInv, [Queue!SENext]_queueVars, NEW t \in Tasks, GotMondayToken(t)
  PROVE  SyncInv'
<1>1. /\ TypeOK /\ run[t] \in Run /\ run[t].pc = "mondayToken" /\ TaskInv(t)
      /\ UNCHANGED <<log, channels, items, tokens, syncToken, client, conn, crashes, seen,
                     fetched, overlapped, dropped>>
  BY DEF SyncInv, TypeOK, GotMondayToken, googleVars, historyVars
<1>2. phase[t] = "running"
  BY <1>1, RunningUser DEF Awaiting, RunPC
<1>3. CASE AccountOf(t) \in Authorized
  <2> DEFINE r == [run[t] EXCEPT !.pc = "delete"]
  <2>1. r \in Run /\ r.pc = "delete" /\ r.first = run[t].first
    BY <1>1, PcEffect DEF RunPC
  <2>2. Goto(t, r) /\ UNCHANGED <<phase, key>>
    BY <1>3 DEF GotMondayToken, queueVars
  <2> HIDE DEF r
  <2>3. OnlyRunOf(t) /\ run'[t] = r
    BY <1>1, <2>1, <2>2, GotoEffect
  <2>4. TaskInv(t)'
    BY <1>1, <1>2, <2>1, <2>2, <2>3 DEF TaskInv, Awaiting, RunPC, CancelledOnce, ChangesOf
  <2>5. \A e \in Linked : Deleting(t, e) => Deleting(t, e)'
    BY <1>3, <2>1, <2>2, <2>3 DEF Deleting, AccountOf
  <2> QED BY <1>1, <2>1, <2>2, <2>3, <2>4, <2>5, TaskMoves DEF TypeOK
<1>4. CASE AccountOf(t) \notin Authorized
  <2>1. OnlyRunOf(t) /\ run'[t].pc = "idle" /\ Queue!End(t)
    BY <1>1, <1>4, FinishEffect, IdleRunType DEF GotMondayToken
  <2>2. \A e \in Linked : ~Deleting(t, e)
    BY <1>4 DEF Deleting
  <2> QED BY <1>1, <2>1, <2>2, PlainStep DEF TypeOK
<1> QED BY <1>3, <1>4

LEMMA EndsInv ==
  ASSUME SyncInv, [Queue!SENext]_queueVars, NEW t \in Tasks, Queue!End(t), OnlyRunOf(t),
         run'[t].pc \in {"idle", "failed"},
         UNCHANGED <<log, channels, tokens, client, conn, crashes, seen, fetched, overlapped>>,
         syncToken' = syncToken \/ TokenSaved(t),
         items' = items \/ (run[t].pc = "delete" /\ items' = items \ {run[t].first}),
         dropped \subseteq dropped', dropped' \subseteq Events,
         run[t].first \in dropped' \/ run[t].first \notin items' \/ \A e \in Linked : ~Deleting(t, e)
  PROVE  SyncInv'
<1>1. /\ TypeOK /\ UNCHANGED key /\ phase'[t] = "ended"
      /\ \A s \in Tasks : s # t => phase'[s] = phase[s]
  BY EndEffect DEF SyncInv
<1>2. TaskInv(t)'
  BY <1>1 DEF TaskInv, Awaiting
<1>3. items' \subseteq items /\ \A e \in items \ items' : CancelledOnce(e)
  BY DEF SyncInv, TaskInv
<1>4. \A e \in Linked : Deleting(t, e) => e \notin items' \/ e \in dropped'
  BY DEF Deleting
<1> QED BY <1>1, <1>2, <1>3, <1>4, TaskMoves DEF TypeOK

LEMMA DeletedItemInv ==
  ASSUME SyncInv, [Queue!SENext]_queueVars, NEW t \in Tasks, DeletedItem(t)
  PROVE  SyncInv'
<1>1. TypeOK
  BY DEF SyncInv
<1>2. OnlyRunOf(t) /\ run'[t].pc = "idle" /\ Queue!End(t)
  BY <1>1, FinishEffect, IdleRunType DEF DeletedItem
<1> QED BY <1>1, <1>2, EndsInv DEF DeletedItem, googleVars, historyVars, TypeOK

LEMMA SyncFailsInv ==
  ASSUME SyncInv, [Queue!SENext]_queueVars, NEW t \in Tasks, SyncFails(t)
  PROVE  SyncInv'
<1>1. /\ TypeOK /\ run[t].first \in Events \cup {NoEvent} /\ Queue!End(t)
      /\ dropped' = dropped \cup ({run[t].first} \cap Events)
      /\ UNCHANGED <<log, channels, tokens, client, conn, crashes, seen, fetched, overlapped>>
  BY RunFields DEF SyncInv, TypeOK, SyncFails, googleVars
<1> DEFINE r == [IdleRun EXCEPT !.pc = "failed"]
<1>2. r \in Run /\ r.pc = "failed" /\ Goto(t, r)
  BY IdleRunType, PcEffect DEF RunPC, SyncFails
<1> HIDE DEF r
<1>3. OnlyRunOf(t) /\ run'[t] = r
  BY <1>1, <1>2, GotoEffect
<1>4. syncToken' = syncToken \/ TokenSaved(t)
  BY <1>2, <1>3 DEF SyncFails, TokenSaved
<1>5. items' = items \/ (run[t].pc = "delete" /\ items' = items \ {run[t].first})
  BY DEF SyncFails
<1>6. run[t].first \in dropped' \/ \A e \in Linked : ~Deleting(t, e)
  BY <1>1, SetsAssumption DEF Deleting
<1>7. dropped \subseteq dropped' /\ dropped' \subseteq Events
  BY <1>1 DEF TypeOK
<1> QED BY <1>1, <1>2, <1>3, <1>4, <1>5, <1>6, <1>7, EndsInv

----------------------------------------------------------------------------
(* The process exits                                                       *)

LEMMA CrashTypes ==
  ASSUME SyncInv, Crash
  PROVE  /\ TypeOK'
         /\ \A t \in Tasks : run'[t].pc \in {"idle", "failed"} /\ phase'[t] # "running"
         /\ \A x \in Connects : conn'[x].pc \in {"idle", "done"}
<1>1. TypeOK /\ Queue!Restart /\ Landing /\ UNCHANGED <<log, seen, fetched, overlapped>>
  BY DEF SyncInv, Crash
<1>2. Queue!SETypeOK'
  BY <1>1, QueueTypeStep DEF TypeOK, Queue!SENext
<1>3. \A t \in Tasks : run'[t] = IF phase[t] = "running" THEN IdleRun ELSE run[t]
  BY DEF Crash
<1>4. \A t \in Tasks : run'[t] \in Run /\ run'[t].pc \in {"idle", "failed"}
  <2> SUFFICES ASSUME NEW t \in Tasks
      PROVE  run'[t] \in Run /\ run'[t].pc \in {"idle", "failed"}
    OBVIOUS
  <2>1. CASE phase[t] = "running"
    BY <1>3, <2>1, IdleRunType
  <2>2. CASE phase[t] # "running"
    <3>1. run[t] \in Run /\ run[t].pc \in RunPC /\ run[t].pc \notin Awaiting
      BY <1>1, <2>2, RunFields DEF SyncInv, TaskInv, TypeOK
    <3> QED BY <1>3, <2>2, <3>1 DEF Awaiting
  <2> QED BY <2>1, <2>2
<1>5. run' \in [Tasks -> Run]
  BY <1>4 DEF Crash
<1>6. /\ conn' \in [Connects -> Conn]
      /\ \A x \in Connects : conn'[x].pc \in {"idle", "done"}
  <2>1. [pc |-> "done", next |-> NoPosition] \in Conn
    BY <1>1, LogLength, ConnPCs DEF Conn
  <2> QED BY <1>1, <2>1 DEF Crash, TypeOK
<1>7. channels' \subseteq QueueKeys /\ tokens' \subseteq Users /\ items' \subseteq Linked
  <2>1. PICK X \in SUBSET {x \in Connects : conn[x].pc \in {"store", "watch"}} :
           /\ tokens' = tokens \cup {x[1] : x \in {y \in X : conn[y].pc = "store"}}
           /\ channels' = channels \cup {<<x[1], x[2]>> : x \in {y \in X : conn[y].pc = "watch"}}
    BY <1>1 DEF Landing
  <2>2. \A x \in X : x[1] \in Users /\ <<x[1], x[2]>> \in QueueKeys
    BY ConnUser
  <2>3. tokens' \subseteq Users
    BY <1>1, <2>1, <2>2 DEF TypeOK
  <2>4. channels' \subseteq QueueKeys
    BY <1>1, <2>1, <2>2 DEF TypeOK
  <2> QED BY <1>1, <2>3, <2>4 DEF Landing, TypeOK
<1>8. dropped' \subseteq Events /\ client' \in Users \cup {NoUser} /\ crashes' \in 0..MaxCrashes
  BY <1>1, NumbersAssumption DEF Crash, TypeOK
<1>9. \A t \in Tasks : phase'[t] # "running"
  BY <1>1 DEF Queue!Restart
<1> QED BY <1>1, <1>2, <1>4, <1>5, <1>6, <1>7, <1>8, <1>9 DEF TypeOK, Landing

LEMMA CrashInv ==
  ASSUME SyncInv, [Queue!SENext]_queueVars, Crash
  PROVE  SyncInv'
<1>1. /\ TypeOK /\ OrderInv' /\ Landing /\ UNCHANGED <<log, fetched, overlapped, key>>
      /\ dropped' = dropped \cup ({run[t].first : t \in Tasks} \cap Events)
  BY OrderStep DEF SyncInv, TypeOK, Crash, Queue!Restart
<1>2. /\ TypeOK'
      /\ \A t \in Tasks : run'[t].pc \in {"idle", "failed"} /\ phase'[t] # "running"
      /\ \A x \in Connects : conn'[x].pc \in {"idle", "done"}
  BY CrashTypes
<1>3. Grows
  BY <1>1, LogLength DEF Grows
<1>4. \A t \in Tasks : TaskInv(t)'
  BY <1>2 DEF TaskInv, Awaiting
<1>5. \A x \in Connects : ConnInv(x)'
  BY <1>2 DEF ConnInv
<1>6. ASSUME NEW u \in Users
      PROVE  UserInv(u)'
  <2>1. SyncingTask(u)' = {} /\ SyncingConn(u)' = {}
    BY <1>2 DEF SyncingTask, SyncingConn
  <2>2. CASE syncToken'[u] = syncToken[u]
    BY <1>1, <2>1, <2>2 DEF SyncInv, UserInv, Covered, OneSyncOf
  <2>3. ASSUME NEW t \in SyncingTask(u), run[t].pc = "save", syncToken'[u] = run[t].next
        PROVE  UserInv(u)'
    <3>1. run[t].next \in 0..Len(log) /\ Covered(u, run[t].next)
      BY <2>3 DEF SyncInv, TaskInv, SyncingTask
    <3> QED BY <1>1, <2>1, <2>3, <3>1, UserSaves
  <2>4. ASSUME NEW x \in SyncingConn(u), conn[x].pc = "save", syncToken'[u] = conn[x].next
        PROVE  UserInv(u)'
    <3>1. conn[x].next \in 0..Len(log) /\ Covered(u, conn[x].next)
      BY <2>4 DEF SyncInv, ConnInv, SyncingConn
    <3> QED BY <1>1, <2>1, <2>4, <3>1, UserSaves
  <2> QED BY <1>1, <2>2, <2>3, <2>4 DEF Landing
<1>7. \A e \in Events : HasLastChange(e)'
  BY <1>1, LastChangeStays DEF SyncInv
<1>8. OnlyCancelledItemsDeleted'
  <2>1. \A e \in items \ items' : CancelledOnce(e)
    BY <1>1 DEF SyncInv, TaskInv, Landing
  <2> QED BY <1>1, <1>3, <2>1, OnlyCancelledStays DEF SyncInv
<1>9. ASSUME NEW e \in Linked
      PROVE  OnItsWay(e)'
  <2>1. items' \subseteq items
    BY <1>1 DEF Landing
  <2>2. \A t \in Tasks : Deleting(t, e) => e \in dropped'
    BY <1>1, SetsAssumption DEF Deleting
  <2> QED BY <1>1, <2>1, <2>2, OnItsWayStays DEF SyncInv
<1> QED BY <1>1, <1>2, <1>4, <1>5, <1>6, <1>7, <1>8, <1>9 DEF SyncInv

----------------------------------------------------------------------------
(* The synchronization                                                     *)

LEMMA InitInv == Init => SyncInv
<1> SUFFICES ASSUME Init PROVE SyncInv
  OBVIOUS
<1>1. /\ 0 \in 0..MaxChanges /\ 0 \in 0..MaxCrashes /\ 0 \in Positions /\ NoPosition \in Positions
      /\ "idle" \in ConnPC
  BY NumbersAssumption DEF Positions, NoPosition, ConnPC
<1>2. log \in Seq(Change) /\ Len(log) = 0 /\ DOMAIN log = {} /\ 1..Len(log) = {}
  BY DEF Init
<1>3. /\ tokens \subseteq Users /\ channels \subseteq QueueKeys
      /\ \A u \in Users : syncToken[u] \in {0, NoPosition}
  BY SetsAssumption DEF Init, QueueKeys
<1>4. Queue!SETypeOK
  BY DEF Init, Queue!SEInit, Queue!SETypeOK, Queue!Phases
<1>5. /\ \A t \in Tasks : run[t] = IdleRun /\ phase[t] = "idle" /\ key[t] = NoKey /\ ticket[t] = 0
      /\ \A x \in Connects : conn[x] \in Conn /\ conn[x].pc = "idle"
  BY <1>1 DEF Init, Queue!SEInit, Conn
<1>6. TypeOK
  <2>1. run \in [Tasks -> Run] /\ conn \in [Connects -> Conn]
    BY <1>5, IdleRunType DEF Init
  <2>2. syncToken \in [Users -> Positions]
    BY <1>1, <1>3 DEF Init
  <2>3. Len(log) <= MaxChanges
    BY <1>2, NumbersAssumption
  <2> QED BY <1>1, <1>2, <1>3, <1>4, <2>1, <2>2, <2>3 DEF Init, TypeOK
<1>7. OrderInv
  BY <1>5 DEF Init, Queue!SEInit, OrderInv, Queue!Before
<1>8. \A t \in Tasks : TaskInv(t)
  BY <1>5, IdleRunType DEF TaskInv, Awaiting
<1>9. \A x \in Connects : ConnInv(x)
  BY <1>5 DEF ConnInv
<1>10. ASSUME NEW u \in Users
       PROVE  UserInv(u)
  <2>1. SyncingTask(u) = {} /\ SyncingConn(u) = {}
    BY <1>5, IdleRunType DEF SyncingTask, SyncingConn
  <2>2. fetched[u] \subseteq 1..Len(log)
    BY DEF Init
  <2>3. syncToken[u] <= Len(log) /\ 1..syncToken[u] = {}
    BY <1>2, <1>3 DEF NoPosition
  <2> QED BY <2>1, <2>2, <2>3 DEF UserInv, Covered, OneSyncOf
<1>11. \A e : ChangesOf({e}) = {}
  BY <1>2 DEF ChangesOf
<1>12. \A e \in Linked : OnItsWay(e)
  BY <1>11 DEF OnItsWay, CancellationFetched, Cancelled
<1>13. OnlyCancelledItemsDeleted
  BY DEF Init, OnlyCancelledItemsDeleted
<1>14. \A e \in Events : HasLastChange(e)
  BY <1>11 DEF HasLastChange
<1> QED BY <1>6, <1>7, <1>8, <1>9, <1>10, <1>12, <1>13, <1>14 DEF SyncInv

LEMMA SyncStepInv ==
  ASSUME SyncInv, [Queue!SENext]_queueVars, NEW t \in Tasks, SyncStep(t)
  PROVE  SyncInv'
<1>1. CASE BeginSync(t)
  BY <1>1, BeginSyncInv
<1>2. CASE GotTokens(t)
  BY <1>2, GotTokensInv
<1>3. CASE GotSyncToken(t)
  BY <1>3, GotSyncTokenInv
<1>4. CASE \E P \in SUBSET Events, e \in Events \cup {NoEvent} : Listed(t, P, e)
  BY <1>4, ListedInv
<1>5. CASE SavedSyncToken(t)
  BY <1>5, SavedSyncTokenInv
<1>6. CASE GotMondayToken(t)
  BY <1>6, GotMondayTokenInv
<1>7. CASE DeletedItem(t)
  BY <1>7, DeletedItemInv
<1> QED BY <1>1, <1>2, <1>3, <1>4, <1>5, <1>6, <1>7 DEF SyncStep

LEMMA ConnectsInv ==
  ASSUME SyncInv, NEW x \in Connects, Connect(x) \/ ConnectStep(x) \/ ConnectFails(x)
  PROVE  SyncInv'
<1>1. CASE Connect(x) \/ Exchanged(x) \/ StoredTokens(x) \/ Watched(x) \/ StoredChannel(x)
  BY <1>1, PlainConnectInv
<1>2. CASE StartInitialSync(x)
  BY <1>2, StartInitialSyncInv
<1>3. CASE \E P \in SUBSET Events : InitialListed(x, P)
  BY <1>3, InitialListedInv
<1>4. CASE InitialSaved(x)
  BY <1>4, InitialSavedInv
<1>5. CASE ConnectFails(x)
  BY <1>5, ConnectFailsInv
<1> QED BY <1>1, <1>2, <1>3, <1>4, <1>5 DEF ConnectStep

LEMMA NextInv ==
  ASSUME SyncInv, [Next]_vars
  PROVE  SyncInv'
<1>1. [Queue!SENext]_queueVars
  BY QueueStep
<1>2. CASE UNCHANGED vars
  <2>1. UNCHANGED <<log, channels, items, tokens, syncToken, phase, key, ticket, submitted,
                    run, conn, crashes, seen, fetched, overlapped, dropped>>
        /\ client' = client
    BY <1>2 DEF vars, queueVars, historyVars
  <2> QED BY <2>1, ClientSet DEF SyncInv, TypeOK
<1>3. CASE \E e \in Events, c \in BOOLEAN : ChangeEvent(e, c)
  BY <1>3, ChangeEventInv
<1>4. CASE \E t \in Tasks : \E k \in QueueKeys : Notify(t, k)
  BY <1>1, <1>4, NotifyInv
<1>5. CASE \E t \in Tasks : SyncStep(t)
  BY <1>1, <1>5, SyncStepInv
<1>6. CASE \E t \in Tasks : SyncTokenGone(t) \/ SyncFails(t)
  BY <1>1, <1>6, SyncTokenGoneInv, SyncFailsInv
<1>7. CASE \E x \in Connects : Connect(x) \/ ConnectStep(x) \/ ConnectFails(x)
  BY <1>7, ConnectsInv
<1>8. CASE \E u \in Users : OtherRequest(u)
  <2>1. PICK u \in Users : OtherRequest(u)
    BY <1>8
  <2> QED BY <2>1, ClientSet DEF OtherRequest, googleVars, queueVars, historyVars
<1>9. CASE Crash
  BY <1>1, <1>9, CrashInv
<1> QED
  BY <1>2, <1>3, <1>4, <1>5, <1>6, <1>7, <1>8, <1>9 DEF Next

(***************************************************************************)
(* The invariant of the synchronization.                                   *)
(***************************************************************************)
THEOREM SyncInvariant == Spec => []SyncInv
<1>1. Init => SyncInv
  BY InitInv
<1>2. SyncInv /\ [Next]_vars => SyncInv'
  BY NextInv
<1> QED BY <1>1, <1>2, PTL DEF Spec

(***************************************************************************)
(* The variables of the synchronization keep their types.                  *)
(***************************************************************************)
THEOREM SyncTypes == Spec => []TypeOK
<1>1. SyncInv => TypeOK
  BY DEF SyncInv
<1> QED BY <1>1, SyncInvariant, PTL

(***************************************************************************)
(* The webhook and its syncs use the queue as SerialExecutor allows; that  *)
(* the code's queue implements SerialExecutor is proved in                 *)
(* SyncQueue_proofs.                                                       *)
(***************************************************************************)
THEOREM UsesQueue == Spec => Queue!SESpec
<1>1. Init => Queue!SEInit
  BY DEF Init
<1>2. [Next]_vars => [Queue!SENext]_(Queue!seVars)
  BY QueueStep DEF queueVars, Queue!seVars
<1> QED BY <1>1, <1>2, PTL DEF Spec, Queue!SESpec

(***************************************************************************)
(* A stored sync token never runs ahead of what was fetched under it.      *)
(***************************************************************************)
THEOREM TokenCoversFetched == Spec => []SyncTokenCoversFetched
<1>1. SyncInv => SyncTokenCoversFetched
  BY DEF SyncInv, UserInv, Covered, SyncTokenCoversFetched
<1> QED BY <1>1, SyncInvariant, PTL

(***************************************************************************)
(* A Monday item is deleted only if its calendar event was cancelled.      *)
(***************************************************************************)
THEOREM DeletedWereCancelled == Spec => []OnlyCancelledItemsDeleted
<1>1. SyncInv => OnlyCancelledItemsDeleted
  BY DEF SyncInv
<1> QED BY <1>1, SyncInvariant, PTL

(***************************************************************************)
(* Once the syncs are over, the item of an event that was fetched as       *)
(* cancelled is gone, unless a sync let go of the event.                   *)
(***************************************************************************)
THEOREM DeletionsPropagate == Spec => []HandledDeletionsPropagate
<1>1. SyncInv => HandledDeletionsPropagate
  <2> SUFFICES ASSUME SyncInv, Quiet, NEW e \in Linked \ dropped, CancellationFetched(e)
      PROVE  e \notin items
    BY DEF HandledDeletionsPropagate
  <2>1. \A t \in Tasks : run[t].pc \notin Awaiting
    BY DEF SyncInv, TaskInv, Quiet
  <2>2. \A t \in Tasks : ~Deleting(t, e)
    BY <2>1 DEF Deleting, Awaiting, RunPC
  <2> QED BY <2>2 DEF SyncInv, OnItsWay
<1> QED BY <1>1, SyncInvariant, PTL

----------------------------------------------------------------------------
(* Sync tokens                                                             *)

(***************************************************************************)
(* A sync token changes only to the next token of a sync that is saving.   *)
(***************************************************************************)
SavingNext(u, p) ==
    \/ \E t \in SyncingTask(u) : run[t].pc = "save" /\ p = run[t].next
    \/ \E x \in SyncingConn(u) : conn[x].pc = "save" /\ p = conn[x].next

LEMMA TaskSaves ==
  ASSUME TypeOK, NEW t \in Tasks, run[t].pc = "save",
         syncToken' = [syncToken EXCEPT ![UserOf(t)] = run[t].next], NEW u \in Users
  PROVE  syncToken'[u] = syncToken[u] \/ SavingNext(u, syncToken'[u])
<1>1. CASE u = UserOf(t)
  BY <1>1 DEF TypeOK, SavingNext, SyncingTask
<1>2. CASE u # UserOf(t)
  BY <1>2 DEF TypeOK
<1> QED BY <1>1, <1>2

LEMMA ConnSaves ==
  ASSUME TypeOK, NEW x \in Connects, conn[x].pc = "save",
         syncToken' = [syncToken EXCEPT ![x[1]] = conn[x].next], NEW u \in Users
  PROVE  syncToken'[u] = syncToken[u] \/ SavingNext(u, syncToken'[u])
<1>1. CASE u = x[1]
  BY <1>1 DEF TypeOK, SavingNext, SyncingConn
<1>2. CASE u # x[1]
  BY <1>2 DEF TypeOK
<1> QED BY <1>1, <1>2

LEMMA TokenWriters ==
  ASSUME TypeOK, [Next]_vars, NEW u \in Users
  PROVE  syncToken'[u] = syncToken[u] \/ SavingNext(u, syncToken'[u])
<1>1. CASE UNCHANGED syncToken
  BY <1>1
<1>2. ASSUME NEW t \in Tasks, SyncStep(t)
      PROVE  syncToken'[u] = syncToken[u] \/ SavingNext(u, syncToken'[u])
  <2>1. CASE SavedSyncToken(t)
    BY <2>1, TaskSaves DEF SavedSyncToken
  <2>2. CASE ~SavedSyncToken(t)
    BY <1>2, <2>2 DEF SyncStep, BeginSync, GotTokens, GotSyncToken, Listed, GotMondayToken,
                      DeletedItem
  <2> QED BY <2>1, <2>2
<1>3. ASSUME NEW t \in Tasks, SyncFails(t)
      PROVE  syncToken'[u] = syncToken[u] \/ SavingNext(u, syncToken'[u])
  BY <1>3, TaskSaves DEF SyncFails
<1>4. ASSUME NEW x \in Connects, ConnectStep(x)
      PROVE  syncToken'[u] = syncToken[u] \/ SavingNext(u, syncToken'[u])
  <2>1. CASE InitialSaved(x)
    BY <2>1, ConnSaves DEF InitialSaved
  <2>2. CASE ~InitialSaved(x)
    BY <1>4, <2>2 DEF ConnectStep, Exchanged, StoredTokens, StartInitialSync, InitialListed,
                      Watched, StoredChannel, googleVars
  <2> QED BY <2>1, <2>2
<1>5. ASSUME NEW x \in Connects, ConnectFails(x)
      PROVE  syncToken'[u] = syncToken[u] \/ SavingNext(u, syncToken'[u])
  BY <1>5, ConnSaves DEF ConnectFails
<1>6. CASE Crash
  BY <1>6 DEF Crash, Landing, SavingNext
<1>7. ASSUME NEW e \in Events, NEW c \in BOOLEAN, ChangeEvent(e, c)
      PROVE  UNCHANGED syncToken
  BY <1>7 DEF ChangeEvent
<1>8. ASSUME NEW t \in Tasks, NEW k \in QueueKeys, Notify(t, k)
      PROVE  UNCHANGED syncToken
  BY <1>8 DEF Notify
<1>9. ASSUME NEW t \in Tasks, SyncTokenGone(t)
      PROVE  UNCHANGED syncToken
  BY <1>9 DEF SyncTokenGone
<1>10. ASSUME NEW x \in Connects, Connect(x)
       PROVE  UNCHANGED syncToken
  BY <1>10 DEF Connect
<1>11. ASSUME NEW v \in Users, OtherRequest(v)
       PROVE  UNCHANGED syncToken
  BY <1>11 DEF OtherRequest
<1>12. CASE UNCHANGED vars
  BY <1>12 DEF vars
<1> QED
  BY <1>1, <1>2, <1>3, <1>4, <1>5, <1>6, <1>7, <1>8, <1>9, <1>10, <1>11, <1>12 DEF Next

(***************************************************************************)
(* The queue keeps a user's sync token from moving back, unless a sync of  *)
(* the user overlapped one that the queue does not order with it.          *)
(***************************************************************************)
THEOREM TokenMovesForward == Spec => SyncTokenMovesBackOnlyByOverlap
<1>1. SyncInv /\ [Next]_vars =>
          [\A u \in Users : syncToken'[u] < syncToken[u] => u \in overlapped]_vars
  <2> SUFFICES ASSUME SyncInv, [Next]_vars, NEW u \in Users, syncToken'[u] < syncToken[u],
                      u \notin overlapped
      PROVE  FALSE
    OBVIOUS
  <2>1. TypeOK /\ syncToken[u] \in Int
    BY DEF SyncInv, TypeOK, Positions, NoPosition
  <2>2. SavingNext(u, syncToken'[u])
    BY <2>1, TokenWriters
  <2>3. OneSyncOf(u) /\ syncToken[u] <= syncToken'[u]
    BY <2>2 DEF SavingNext, SyncInv, UserInv, OneSyncOf
  <2>4. syncToken'[u] \in Int
    BY <2>1, <2>2, RunFields DEF SavingNext, SyncingTask, SyncingConn, TypeOK, Conn, Positions,
                                 NoPosition
  <2> QED BY <2>1, <2>3, <2>4
<1> QED BY <1>1, SyncInvariant, PTL DEF Spec, SyncTokenMovesBackOnlyByOverlap
=============================================================================
