---------------------------- MODULE CalendarSync ----------------------------
(***************************************************************************)
(* From a change in Google Calendar to the deletion of an item in Monday:  *)
(*   - Google (external): the change log of the one calendar all users     *)
(*     watch (its id is a literal in handleOAuthCallback), the channels    *)
(*     that notify the service, and incremental sync.  A sync token is a   *)
(*     position in the log.                                                *)
(*   - the OAuth callback of a user: tokens, initial sync, channel;        *)
(*   - the webhook, which queues one sync per notification; the queue is   *)
(*     SerialExecutor, which SyncQueue implements;                         *)
(*   - the sync itself, one action per await of processCalendarWebhook;    *)
(*   - the single OAuth client that every Google call of the process uses. *)
(***************************************************************************)
EXTENDS Integers, Sequences, FiniteSets

CONSTANTS Users,
          Accounts,    \* Monday accounts that a channel token can name
          NoAccount,   \* a channel token without a numeric account id
          Authorized,  \* accounts for which a Monday access token is found, or
                       \* all of them where LOCAL_ACCESS_TOKEN is set
          Events,      \* events of the calendar
          Linked,      \* those with a Monday item id in extendedProperties
          Tasks,       \* notifications, each queued as one task
          Connects,    \* Google OAuth callbacks that may arrive, <<user, account, n>>
          Connected,   \* channels set up before the first change, <<user, account>>
          NoKey, NoUser, NoEvent,
          PageSize,    \* maxResults of events.list
          MaxChanges,  \* bound on the change log
          MaxCrashes   \* bound on process restarts

ASSUME NoneAssumption == /\ NoUser \notin Users /\ NoEvent \notin Events
                         /\ NoKey \notin Users \X (Accounts \cup {NoAccount})
ASSUME SetsAssumption == /\ Linked \subseteq Events
                         /\ Authorized \subseteq Accounts
                         /\ NoAccount \notin Accounts
                         /\ Connected \subseteq Users \X (Accounts \cup {NoAccount})
                         /\ Connects \subseteq Users \X (Accounts \cup {NoAccount}) \X Nat
ASSUME NumbersAssumption == /\ PageSize \in Nat \ {0}
                            /\ MaxChanges \in Nat /\ MaxCrashes \in Nat

QueueKeys == Users \X (Accounts \cup {NoAccount})

VARIABLES log,         \* Google: the changes of the calendar, oldest first
          channels,    \* Google: channels <<user, account>> being notified
          items,       \* Monday: linked items that exist
          tokens,      \* secure storage google-calendar-tokens: users that have some
          syncToken,   \* secure storage calendar-sync-token: per user, or NoPosition
          client,      \* user whose credentials the shared oauth2Client carries
          phase, key, ticket, submitted, \* the queue, see SerialExecutor
          run,         \* processCalendarWebhook of each task
          conn,        \* handleOAuthCallback of each connect
          crashes,
          seen,        \* history: length of the log when a task was notified
          fetched,     \* history: changes each user's syncs have been sent
          overlapped,  \* history: users of whom two syncs outside one queue overlapped
          dropped      \* history: events fetched by a sync that did not go on to handle them

queueVars == <<phase, key, ticket, submitted>>
googleVars == <<log, channels>>
historyVars == <<seen, fetched, overlapped, dropped>>
vars == <<log, channels, items, tokens, syncToken, client, queueVars, run, conn, crashes,
          historyVars>>

Queue == INSTANCE SerialExecutor WITH Keys <- QueueKeys

NoPosition == -1
Positions == NoPosition..MaxChanges
Change == [ev : Events, cancelled : BOOLEAN]

RunPC == {"idle", "tokens", "syncToken", "list", "save", "mondayToken", "delete", "failed"}
Run == [pc : RunPC, token : Positions, next : Positions, by : Users \cup {NoUser},
        first : Events \cup {NoEvent}, cancelled : BOOLEAN]
IdleRun == [pc |-> "idle", token |-> NoPosition, next |-> NoPosition, by |-> NoUser,
            first |-> NoEvent, cancelled |-> FALSE]

ConnPC == {"idle", "exchange", "store", "mondayToken", "list", "save", "watch", "channel", "done"}
Conn == [pc : ConnPC, next : Positions]

TypeOK == /\ log \in Seq(Change) /\ Len(log) <= MaxChanges
          /\ channels \subseteq QueueKeys
          /\ items \subseteq Linked
          /\ tokens \subseteq Users
          /\ syncToken \in [Users -> Positions]
          /\ client \in Users \cup {NoUser}
          /\ Queue!SETypeOK
          /\ run \in [Tasks -> Run]
          /\ conn \in [Connects -> Conn]
          /\ crashes \in 0..MaxCrashes
          /\ seen \in [Tasks -> 0..MaxChanges]
          /\ fetched \in [Users -> SUBSET (1..MaxChanges)]
          /\ overlapped \subseteq Users
          /\ dropped \subseteq Events

(***************************************************************************)
(* The log starts empty.  A user connected by then has tokens, a channel   *)
(* and the sync token of the empty log.                                    *)
(***************************************************************************)
Init == /\ log = <<>>
        /\ channels = Connected
        /\ items = Linked
        /\ tokens = {k[1] : k \in Connected}
        /\ syncToken = [u \in Users |-> IF u \in tokens THEN 0 ELSE NoPosition]
        /\ client = NoUser
        /\ Queue!SEInit
        /\ run = [t \in Tasks |-> IdleRun]
        /\ conn = [x \in Connects |-> [pc |-> "idle", next |-> NoPosition]]
        /\ crashes = 0
        /\ seen = [t \in Tasks |-> 0]
        /\ fetched = [u \in Users |-> {}]
        /\ overlapped = {}
        /\ dropped = {}

----------------------------------------------------------------------------
(* Google Calendar (external)                                              *)

ChangeEvent(e, cancelled) ==
    /\ Len(log) < MaxChanges
    /\ log' = Append(log, [ev |-> e, cancelled |-> cancelled])
    /\ UNCHANGED <<channels, items, tokens, syncToken, client, queueVars, run, conn, crashes,
                   historyVars>>

ChangesOf(E) == {n \in 1..Len(log) : log[n].ev \in E}

(***************************************************************************)
(* Status of an event: that of its last change.                            *)
(***************************************************************************)
LastChange(e) == CHOOSE n \in ChangesOf({e}) : \A m \in ChangesOf({e}) : m <= n
Cancelled(e) == ChangesOf({e}) # {} /\ log[LastChange(e)].cancelled

(***************************************************************************)
(* events.list with showDeleted: the events changed after the sync token,  *)
(* all of them without one, at most maxResults, in no promised order.  The *)
(* code asks for one page; only the last page carries a next sync token.   *)
(***************************************************************************)
ChangedSince(pos) == {e \in Events : \E n \in ChangesOf({e}) : n > pos}

Pages(pos) == {P \in SUBSET ChangedSince(pos) :
                  P = ChangedSince(pos) \/ Cardinality(P) = PageSize}

Page(pos, P) == P \in Pages(pos) /\ Cardinality(P) <= PageSize

(***************************************************************************)
(* Mutant of NextSyncToken: one past the last change.                      *)
(***************************************************************************)
NextSyncTokenOffByOne(pos, P) == IF P = ChangedSince(pos) THEN Len(log) + 1 ELSE NoPosition

(***************************************************************************)
(* Mutant of NextSyncToken: a token is taken from a page that is not the   *)
(* last.                                                                   *)
(***************************************************************************)
NextSyncTokenAnyPage(pos, P) == Len(log)

NextSyncToken(pos, P) == IF P = ChangedSince(pos) THEN Len(log) ELSE NoPosition

Sent(u, pos, P) ==
    fetched' = [fetched EXCEPT ![u] = @ \cup {n \in ChangesOf(P) : n > pos}]

----------------------------------------------------------------------------
(* The webhook: handleCalendarWebhook and triggerSync                      *)

(***************************************************************************)
(* A channel notifies, possibly more than once per change; the service     *)
(* answers 200 and queues a sync under the user and account of the token.  *)
(***************************************************************************)
Notify(t, k) ==
    /\ k \in channels
    /\ log # <<>>
    /\ Queue!Submit(t, k)
    /\ seen' = [seen EXCEPT ![t] = Len(log)]
    /\ UNCHANGED <<googleVars, items, tokens, syncToken, client, run, conn, crashes, fetched,
                   overlapped, dropped>>

----------------------------------------------------------------------------
(* processCalendarWebhook: one action per await                            *)

UserOf(t) == key[t][1]
AccountOf(t) == key[t][2]

Goto(t, r) == run' = [run EXCEPT ![t] = r]

Finish(t) == /\ Queue!End(t)
             /\ Goto(t, IdleRun)

(***************************************************************************)
(* Between reading a sync token and storing the next one.                  *)
(***************************************************************************)
SyncingTask(u) == {t \in Tasks : run[t].pc \in {"list", "save"} /\ UserOf(t) = u}
SyncingConn(u) == {x \in Connects : conn[x].pc \in {"list", "save"} /\ x[1] = u}

NoteOverlap(u, others) ==
    overlapped' = IF others = {} THEN overlapped ELSE overlapped \cup {u}

(***************************************************************************)
(* Mutant of BeginSync: the syncs of a key are not queued.                 *)
(***************************************************************************)
BeginSyncUnordered(t) ==
    /\ phase[t] = "queued"
    /\ phase' = [phase EXCEPT ![t] = "running"]
    /\ Goto(t, [IdleRun EXCEPT !.pc = "tokens"])
    /\ UNCHANGED <<key, ticket, submitted, googleVars, items, tokens, syncToken, client, conn,
                   crashes, historyVars>>

BeginSync(t) ==
    /\ Queue!Begin(t)
    /\ Goto(t, [IdleRun EXCEPT !.pc = "tokens"])
    /\ UNCHANGED <<googleVars, items, tokens, syncToken, client, conn, crashes, historyVars>>

(***************************************************************************)
(* The user's stored tokens arrive and become the credentials of the       *)
(* shared client; without tokens the sync returns.                         *)
(***************************************************************************)
GotTokens(t) ==
    /\ run[t].pc = "tokens"
    /\ \/ /\ UserOf(t) \in tokens
          /\ client' = UserOf(t)
          /\ Goto(t, [run[t] EXCEPT !.pc = "syncToken"])
          /\ UNCHANGED queueVars
       \/ /\ UserOf(t) \notin tokens
          /\ Finish(t)
          /\ UNCHANGED client
    /\ UNCHANGED <<googleVars, items, tokens, syncToken, conn, crashes, historyVars>>

(***************************************************************************)
(* The stored sync token arrives; events.list is sent with the credentials *)
(* the client carries by now.                                              *)
(***************************************************************************)
GotSyncToken(t) ==
    LET u == UserOf(t)
    IN  /\ run[t].pc = "syncToken"
        /\ Goto(t, [run[t] EXCEPT !.pc = "list", !.token = syncToken[u], !.by = client])
        /\ NoteOverlap(u, {s \in SyncingTask(u) : key[s] # key[t]} \cup SyncingConn(u))
        /\ UNCHANGED <<googleVars, items, tokens, syncToken, client, queueVars, conn, crashes,
                       seen, fetched, dropped>>

(***************************************************************************)
(* Mutant of Deletes: the change type is not looked at.                    *)
(***************************************************************************)
DeletesAny(t, e, cancelled) == e \in Linked /\ AccountOf(t) # NoAccount

(***************************************************************************)
(* Mutant of Deletes: the status is read the wrong way round.              *)
(***************************************************************************)
DeletesAlive(t, e, cancelled) == e \in Linked /\ ~cancelled /\ AccountOf(t) # NoAccount

(***************************************************************************)
(* syncEventsInMonday: only events[0] is looked at, and only a deletion    *)
(* with an item id and an account id goes on.                              *)
(***************************************************************************)
Deletes(t, e, cancelled) == e \in Linked /\ cancelled /\ AccountOf(t) # NoAccount

HandleFirst(t, e, cancelled) ==
    IF Deletes(t, e, cancelled)
    THEN /\ Goto(t, [IdleRun EXCEPT !.pc = "mondayToken", !.first = e, !.cancelled = TRUE])
         /\ UNCHANGED queueVars
    ELSE Finish(t)

(***************************************************************************)
(* History: the events of a page other than the handled one are dropped,   *)
(* and so is a linked deletion that the account of the task cannot do.     *)
(***************************************************************************)
Unhandled(t, P, e) == (P \ {e}) \cup (IF AccountOf(t) \in Authorized THEN {} ELSE P)

Listed(t, P, e) ==
    LET r == run[t]
        next == NextSyncToken(r.token, P)
        cancelled == e # NoEvent /\ Cancelled(e)
    IN  /\ r.pc = "list"
        /\ Page(r.token, P)
        /\ e \in P \/ (P = {} /\ e = NoEvent)
        /\ Sent(UserOf(t), r.token, P)
        /\ dropped' = dropped \cup Unhandled(t, P, e)
        /\ IF next # NoPosition
           THEN /\ Goto(t, [IdleRun EXCEPT !.pc = "save", !.next = next, !.first = e,
                                           !.cancelled = cancelled])
                /\ UNCHANGED queueVars
           ELSE HandleFirst(t, e, cancelled)
        /\ UNCHANGED <<googleVars, items, tokens, syncToken, client, conn, crashes, seen,
                       overlapped>>

(***************************************************************************)
(* 410 Gone: the same sync starts again without a sync token.              *)
(***************************************************************************)
SyncTokenGone(t) ==
    /\ run[t].pc = "list"
    /\ run[t].token # NoPosition
    /\ Goto(t, [run[t] EXCEPT !.token = NoPosition, !.by = client])
    /\ UNCHANGED <<googleVars, items, tokens, syncToken, client, queueVars, conn, crashes,
                   historyVars>>

(***************************************************************************)
(* Mutant of SavedSyncToken: the position is the one of the moment of      *)
(* saving.                                                                 *)
(***************************************************************************)
SavedLatestToken(t) ==
    /\ run[t].pc = "save"
    /\ syncToken' = [syncToken EXCEPT ![UserOf(t)] = Len(log)]
    /\ HandleFirst(t, run[t].first, run[t].cancelled)
    /\ UNCHANGED <<googleVars, items, tokens, client, conn, crashes, historyVars>>

(***************************************************************************)
(* Mutant of SavedSyncToken: the sync returns once the token is stored.    *)
(***************************************************************************)
SavedAndReturned(t) ==
    /\ run[t].pc = "save"
    /\ syncToken' = [syncToken EXCEPT ![UserOf(t)] = run[t].next]
    /\ Finish(t)
    /\ UNCHANGED <<googleVars, items, tokens, client, conn, crashes, historyVars>>

(***************************************************************************)
(* The next sync token is stored before the events are handled.            *)
(***************************************************************************)
SavedSyncToken(t) ==
    /\ run[t].pc = "save"
    /\ syncToken' = [syncToken EXCEPT ![UserOf(t)] = run[t].next]
    /\ HandleFirst(t, run[t].first, run[t].cancelled)
    /\ UNCHANGED <<googleVars, items, tokens, client, conn, crashes, historyVars>>

(***************************************************************************)
(* deleteItemOnMonday.                                                     *)
(***************************************************************************)
GotMondayToken(t) ==
    /\ run[t].pc = "mondayToken"
    /\ IF AccountOf(t) \in Authorized
       THEN Goto(t, [run[t] EXCEPT !.pc = "delete"]) /\ UNCHANGED queueVars
       ELSE Finish(t)
    /\ UNCHANGED <<googleVars, items, tokens, syncToken, client, conn, crashes, historyVars>>

DeletedItem(t) ==
    /\ run[t].pc = "delete"
    /\ items' = items \ {run[t].first}
    /\ Finish(t)
    /\ UNCHANGED <<googleVars, tokens, syncToken, client, conn, crashes, historyVars>>

(***************************************************************************)
(* What the awaited call of t rejects with is logged and swallowed; a      *)
(* write may have taken effect before it rejected.                         *)
(***************************************************************************)
SyncFails(t) ==
    /\ phase[t] = "running"
    /\ Queue!End(t)
    /\ Goto(t, [IdleRun EXCEPT !.pc = "failed"])
    /\ dropped' = dropped \cup ({run[t].first} \cap Events)
    /\ \/ UNCHANGED <<syncToken, items>>
       \/ /\ run[t].pc = "save"
          /\ syncToken' = [syncToken EXCEPT ![UserOf(t)] = run[t].next]
          /\ UNCHANGED items
       \/ /\ run[t].pc = "delete"
          /\ items' = items \ {run[t].first}
          /\ UNCHANGED syncToken
    /\ UNCHANGED <<googleVars, tokens, client, conn, crashes, seen, fetched, overlapped>>

SyncStep(t) ==
    \/ BeginSync(t)
    \/ GotTokens(t)
    \/ GotSyncToken(t)
    \/ \E P \in SUBSET Events, e \in Events \cup {NoEvent} : Listed(t, P, e)
    \/ SavedSyncToken(t)
    \/ GotMondayToken(t)
    \/ DeletedItem(t)

----------------------------------------------------------------------------
(* handleOAuthCallback: one action per await                               *)

ConnGoto(x, pc) == conn' = [conn EXCEPT ![x] = [pc |-> pc, next |-> NoPosition]]

Connect(x) ==
    /\ conn[x].pc = "idle"
    /\ ConnGoto(x, "exchange")
    /\ UNCHANGED <<googleVars, items, tokens, syncToken, client, queueVars, run, crashes,
                   historyVars>>

(***************************************************************************)
(* getTokenFromCode also sets the credentials of the client.               *)
(***************************************************************************)
Exchanged(x) ==
    /\ conn[x].pc = "exchange"
    /\ client' = x[1]
    /\ ConnGoto(x, "store")
    /\ UNCHANGED <<googleVars, items, tokens, syncToken, queueVars, run, crashes, historyVars>>

StoredTokens(x) ==
    /\ conn[x].pc = "store"
    /\ tokens' = tokens \cup {x[1]}
    /\ ConnGoto(x, "mondayToken")
    /\ UNCHANGED <<googleVars, items, syncToken, client, queueVars, run, crashes, historyVars>>

(***************************************************************************)
(* performInitialSync: credentials set, full sync sent, outside the queue. *)
(***************************************************************************)
StartInitialSync(x) ==
    LET u == x[1]
    IN  /\ conn[x].pc = "mondayToken"
        /\ client' = u
        /\ ConnGoto(x, "list")
        /\ NoteOverlap(u, SyncingTask(u) \cup SyncingConn(u))
        /\ UNCHANGED <<googleVars, items, tokens, syncToken, queueVars, run, crashes, seen,
                       fetched, dropped>>

(***************************************************************************)
(* setupCalendarWatch follows the initial sync, whatever became of it.     *)
(***************************************************************************)
StartWatch(x) == /\ ConnGoto(x, "watch")
                 /\ client' = x[1]

InitialListed(x, P) ==
    LET next == NextSyncToken(NoPosition, P)
    IN  /\ conn[x].pc = "list"
        /\ Page(NoPosition, P)
        /\ Sent(x[1], NoPosition, P)
        /\ dropped' = dropped \cup P
        /\ \/ /\ next # NoPosition
              /\ conn' = [conn EXCEPT ![x] = [pc |-> "save", next |-> next]]
              /\ UNCHANGED client
           \/ next = NoPosition /\ StartWatch(x)
        /\ UNCHANGED <<googleVars, items, tokens, syncToken, queueVars, run, crashes, seen,
                       overlapped>>

InitialSaved(x) ==
    /\ conn[x].pc = "save"
    /\ syncToken' = [syncToken EXCEPT ![x[1]] = conn[x].next]
    /\ StartWatch(x)
    /\ UNCHANGED <<googleVars, items, tokens, queueVars, run, crashes, historyVars>>

(***************************************************************************)
(* A new channel; the one of an earlier connect is never stopped.          *)
(***************************************************************************)
Watched(x) ==
    /\ conn[x].pc = "watch"
    /\ channels' = channels \cup {<<x[1], x[2]>>}
    /\ ConnGoto(x, "channel")
    /\ UNCHANGED <<log, items, tokens, syncToken, client, queueVars, run, crashes, historyVars>>

(***************************************************************************)
(* calendar-channel is stored; nothing reads it.                           *)
(***************************************************************************)
StoredChannel(x) ==
    /\ conn[x].pc = "channel"
    /\ ConnGoto(x, "done")
    /\ UNCHANGED <<googleVars, items, tokens, syncToken, client, queueVars, run, crashes,
                   historyVars>>

(***************************************************************************)
(* The awaited call rejects.  The initial sync swallows it and the watch   *)
(* goes on; any other ends the callback with an error page, or without a   *)
(* channel.  A write may have taken effect.                                *)
(***************************************************************************)
ConnectFails(x) ==
    /\ conn[x].pc \notin {"idle", "done"}
    /\ IF conn[x].pc \in {"list", "save"} THEN StartWatch(x)
                                          ELSE ConnGoto(x, "done") /\ UNCHANGED client
    /\ \/ UNCHANGED <<tokens, syncToken, channels>>
       \/ /\ conn[x].pc = "store"
          /\ tokens' = tokens \cup {x[1]}
          /\ UNCHANGED <<syncToken, channels>>
       \/ /\ conn[x].pc = "save"
          /\ syncToken' = [syncToken EXCEPT ![x[1]] = conn[x].next]
          /\ UNCHANGED <<tokens, channels>>
       \/ /\ conn[x].pc = "watch"
          /\ channels' = channels \cup {<<x[1], x[2]>>}
          /\ UNCHANGED <<tokens, syncToken>>
    /\ UNCHANGED <<log, items, queueVars, run, crashes, historyVars>>

ConnectStep(x) ==
    \/ Exchanged(x)
    \/ StoredTokens(x)
    \/ StartInitialSync(x)
    \/ \E P \in SUBSET Events : InitialListed(x, P)
    \/ InitialSaved(x)
    \/ Watched(x)
    \/ StoredChannel(x)

----------------------------------------------------------------------------
(***************************************************************************)
(* list-calendars and the sync-item action set the credentials of the same *)
(* client for the user of their request.                                   *)
(***************************************************************************)
OtherRequest(u) ==
    /\ u \in tokens
    /\ client' = u
    /\ UNCHANGED <<googleVars, items, tokens, syncToken, queueVars, run, conn, crashes,
                   historyVars>>

(***************************************************************************)
(* Writes on their way when the process exits may still be carried out.    *)
(***************************************************************************)
Landing ==
    /\ \E X \in SUBSET {x \in Connects : conn[x].pc \in {"store", "watch"}} :
          /\ tokens' = tokens \cup {x[1] : x \in {y \in X : conn[y].pc = "store"}}
          /\ channels' = channels \cup {<<x[1], x[2]>> : x \in {y \in X : conn[y].pc = "watch"}}
    /\ \E D \in SUBSET {t \in Tasks : run[t].pc = "delete"} :
          items' = items \ {run[t].first : t \in D}
    /\ syncToken' \in [Users -> Positions]
    /\ \A u \in Users :
          \/ syncToken'[u] = syncToken[u]
          \/ \E t \in SyncingTask(u) : run[t].pc = "save" /\ syncToken'[u] = run[t].next
          \/ \E x \in SyncingConn(u) : conn[x].pc = "save" /\ syncToken'[u] = conn[x].next

(***************************************************************************)
(* process.exit(1) on an uncaught exception, and the restart.              *)
(***************************************************************************)
Crash ==
    /\ crashes < MaxCrashes
    /\ crashes' = crashes + 1
    /\ Queue!Restart
    /\ client' = NoUser
    /\ dropped' = dropped \cup ({run[t].first : t \in Tasks} \cap Events)
    /\ run' = [t \in Tasks |-> IF phase[t] = "running" THEN IdleRun ELSE run[t]]
    /\ conn' = [x \in Connects |-> IF conn[x].pc = "idle" THEN conn[x]
                                   ELSE [pc |-> "done", next |-> NoPosition]]
    /\ Landing
    /\ UNCHANGED <<log, seen, fetched, overlapped>>

Next == \/ \E e \in Events, c \in BOOLEAN : ChangeEvent(e, c)
        \/ \E t \in Tasks : \/ \E k \in QueueKeys : Notify(t, k)
                            \/ SyncStep(t)
                            \/ SyncTokenGone(t)
                            \/ SyncFails(t)
        \/ \E x \in Connects : \/ Connect(x)
                               \/ ConnectStep(x)
                               \/ ConnectFails(x)
        \/ \E u \in Users : OtherRequest(u)
        \/ Crash

Spec == Init /\ [][Next]_vars

(***************************************************************************)
(* Every call a queued sync awaits is answered or rejected.                *)
(***************************************************************************)
Fairness == \A t \in Tasks : WF_vars(SyncStep(t))

FairSpec == Spec /\ Fairness

----------------------------------------------------------------------------
(***************************************************************************)
(* A stored sync token never runs ahead of what was fetched under it: every*)
(* change up to it was sent to some sync of that user, in any interleaving *)
(* of webhook syncs, initial syncs, failures and restarts.                 *)
(***************************************************************************)
SyncTokenCoversFetched ==
    \A u \in Users : \A n \in 1..syncToken[u] : n \in fetched[u]

(***************************************************************************)
(* The queue keeps a user's sync token from moving back: that happens only *)
(* after a sync of the user overlapped one of another account or an        *)
(* initial sync, which the queue does not order.                           *)
(***************************************************************************)
SyncTokenMovesBackOnlyByOverlap ==
    [][\A u \in Users : syncToken'[u] < syncToken[u] => u \in overlapped]_vars

(***************************************************************************)
(* A Monday item is deleted only if its calendar event was cancelled.      *)
(***************************************************************************)
OnlyCancelledItemsDeleted ==
    \A e \in Linked \ items : \E n \in ChangesOf({e}) : log[n].cancelled

Quiet == \A t \in Tasks : phase[t] \notin {"queued", "running"}

CancellationFetched(e) == /\ Cancelled(e)
                          /\ \E u \in Users : LastChange(e) \in fetched[u]

(***************************************************************************)
(* Once the syncs are over, a linked item whose event is fetched as        *)
(* cancelled is gone from Monday, unless a sync that fetched the event let *)
(* go of it: not the first of its page, fetched by an initial sync, no     *)
(* account or token to delete with, a failure or a restart on the way.     *)
(***************************************************************************)
HandledDeletionsPropagate ==
    Quiet => \A e \in Linked \ dropped : CancellationFetched(e) => e \notin items

(***************************************************************************)
(* A change that a channel has notified is fetched by a sync of the user,  *)
(* unless its own sync fails or a restart drops it.  It is about listings  *)
(* that fit on one page: of a longer one the first page is all that a sync *)
(* ever asks for, and the property does not hold.                          *)
(***************************************************************************)
NotifiedChangeIsFetched ==
    \A t \in Tasks, u \in Users :
        (phase[t] = "queued" /\ UserOf(t) = u)
            ~> (\/ 1..seen[t] \subseteq fetched[u]
                \/ phase[t] = "dropped"
                \/ run[t].pc = "failed")

(***************************************************************************)
(* What the comments of processCalendarWebhook and syncEventsInMonday say  *)
(* without exception: the events a sync fetches are processed, and the     *)
(* item of a deleted one is deleted on Monday.  No call has failed.        *)
(***************************************************************************)
DeletedEventDeletesItem ==
    (Quiet /\ \A t \in Tasks : run[t].pc # "failed") =>
        \A e \in Linked : CancellationFetched(e) => e \notin items

(***************************************************************************)
(* What the comment of processCalendarWebhook says: a sync works with its  *)
(* user's calendar tokens.                                                 *)
(***************************************************************************)
OwnCredentials ==
    \A t \in Tasks : run[t].pc = "list" => run[t].by = UserOf(t)
=============================================================================
