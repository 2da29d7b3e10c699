----------------------------- MODULE TokenCache -----------------------------
(***************************************************************************)
(* AuthService over TokenCacheService and monday's secure storage: the     *)
(* access token of each account, cached in the process for a fixed time.   *)
(* A call of the service is a record; it takes a step of its own for each  *)
(* side of the await on the storage: "sent" (request on its way),          *)
(* "applied" (the storage has done it, the answer is on its way), "done".  *)
(*                                                                         *)
(* Date.now() is a countdown: ttl[a] is expiresAt - now in ticks, and the  *)
(* code's now > expiresAt is ttl[a] < 0.                                   *)
(***************************************************************************)
EXTENDS Integers

CONSTANTS Accounts, Tokens, NoToken,
          NoAccount,   \* account of a call slot that was never used
          Calls,       \* slots for calls of the service in progress
          TTL,         \* CACHE_DURATION_MS, in ticks
          MaxWrites,   \* bound on calls that change the storage
          MaxCrashes   \* bound on process restarts

ASSUME NoTokenAssumption == NoToken \notin Tokens
ASSUME NoAccountAssumption == NoAccount \notin Accounts
ASSUME BoundsAssumption == TTL \in Nat /\ MaxWrites \in Nat /\ MaxCrashes \in Nat

VARIABLES store,     \* secure storage: token of each account (external)
          cached,    \* TokenCacheService.cache: token of the entry, or NoToken
          ttl,       \* time left to each entry, -1 when expired or absent
          call,      \* the calls of AuthService
          writes,    \* number of storing and removing calls
          crashes,   \* number of restarts
          held,      \* history: every token the storage has held for an account
          disturbed  \* history: accounts one of whose writes overlapped another
                     \* call, or failed after the storage had done it

vars == <<store, cached, ttl, call, writes, crashes, held, disturbed>>

Call == [op : {"none", "get", "store", "remove"}, at : {"sent", "applied", "done"},
         acct : Accounts \cup {NoAccount}, tok : Tokens \cup {NoToken}]

Unused == [op |-> "none", at |-> "done", acct |-> NoAccount, tok |-> NoToken]

TypeOK == /\ store \in [Accounts -> Tokens \cup {NoToken}]
          /\ cached \in [Accounts -> Tokens \cup {NoToken}]
          /\ ttl \in [Accounts -> -1..TTL]
          /\ call \in [Calls -> Call]
          /\ \A c \in Calls : call[c].op # "none" => call[c].acct \in Accounts
          /\ \A c \in Calls : call[c].op = "none" => call[c].at = "done"
          /\ writes \in 0..MaxWrites
          /\ crashes \in 0..MaxCrashes
          /\ held \in [Accounts -> SUBSET Tokens]
          /\ disturbed \subseteq Accounts

Init == /\ store = [a \in Accounts |-> NoToken]
        /\ cached = [a \in Accounts |-> NoToken]
        /\ ttl = [a \in Accounts |-> -1]
        /\ call = [c \in Calls |-> Unused]
        /\ writes = 0
        /\ crashes = 0
        /\ held = [a \in Accounts |-> {}]
        /\ disturbed = {}

----------------------------------------------------------------------------
(* TokenCacheService                                                       *)

Expired(a) == ttl[a] < 0

CacheGet(a) == IF Expired(a) THEN NoToken ELSE cached[a]

(***************************************************************************)
(* Mutant of CacheSet: an entry lives one tick too long.                   *)
(***************************************************************************)
CacheSetLonger(a, tok) == /\ cached' = [cached EXCEPT ![a] = tok]
                          /\ ttl' = [ttl EXCEPT ![a] = TTL + 1]

CacheSet(a, tok) == /\ cached' = [cached EXCEPT ![a] = tok]
                    /\ ttl' = [ttl EXCEPT ![a] = TTL]

CacheDelete(A) == /\ cached' = [a \in Accounts |-> IF a \in A THEN NoToken ELSE cached[a]]
                  /\ ttl' = [a \in Accounts |-> IF a \in A THEN -1 ELSE ttl[a]]

CacheSame == UNCHANGED <<cached, ttl>>

(***************************************************************************)
(* cleanupExpiredEntries, every 30 minutes.                                *)
(***************************************************************************)
Cleanup == /\ CacheDelete({a \in Accounts : Expired(a)})
           /\ UNCHANGED <<store, call, writes, crashes, held, disturbed>>

(***************************************************************************)
(* clear().                                                                *)
(***************************************************************************)
Clear == /\ CacheDelete(Accounts)
         /\ UNCHANGED <<store, call, writes, crashes, held, disturbed>>

Tick == /\ \E a \in Accounts : ttl[a] >= 0
        /\ ttl' = [a \in Accounts |-> IF ttl[a] >= 0 THEN ttl[a] - 1 ELSE ttl[a]]
        /\ UNCHANGED <<store, cached, call, writes, crashes, held, disturbed>>

----------------------------------------------------------------------------
(* AuthService, up to its await on the storage                             *)

Start(c, op, a, tok) ==
    /\ call[c].at = "done"
    /\ call' = [call EXCEPT ![c] = [op |-> op, at |-> "sent", acct |-> a, tok |-> tok]]

(***************************************************************************)
(* Mutant of GetHit: a hit renews the lifetime of the entry.               *)
(***************************************************************************)
GetHitRenews(c, a) ==
    /\ call[c].at = "done"
    /\ CacheGet(a) # NoToken
    /\ call' = [call EXCEPT ![c] = [op |-> "get", at |-> "done", acct |-> a,
                                    tok |-> CacheGet(a)]]
    /\ CacheSet(a, cached[a])
    /\ UNCHANGED <<store, writes, crashes, held, disturbed>>

(***************************************************************************)
(* getAccessToken, the token is in the cache.                              *)
(***************************************************************************)
GetHit(c, a) ==
    /\ call[c].at = "done"
    /\ CacheGet(a) # NoToken
    /\ call' = [call EXCEPT ![c] = [op |-> "get", at |-> "done", acct |-> a,
                                    tok |-> CacheGet(a)]]
    /\ CacheSame
    /\ UNCHANGED <<store, writes, crashes, held, disturbed>>

(***************************************************************************)
(* getAccessToken, no entry or an expired one, which get() deletes.        *)
(***************************************************************************)
GetMiss(c, a) ==
    /\ CacheGet(a) = NoToken
    /\ Start(c, "get", a, NoToken)
    /\ CacheDelete({a})
    /\ UNCHANGED <<store, writes, crashes, held, disturbed>>

(***************************************************************************)
(* Mutant of Write: a new token is cached before the storage has it.       *)
(***************************************************************************)
WriteCacheFirst(c, op, a, tok) ==
    /\ writes < MaxWrites
    /\ writes' = writes + 1
    /\ Start(c, op, a, tok)
    /\ IF op = "store" THEN CacheSet(a, tok) ELSE CacheSame
    /\ UNCHANGED <<store, crashes, held, disturbed>>

(***************************************************************************)
(* storeAccessToken and removeAccessToken.                                 *)
(***************************************************************************)
Write(c, op, a, tok) ==
    /\ writes < MaxWrites
    /\ writes' = writes + 1
    /\ Start(c, op, a, tok)
    /\ CacheSame
    /\ UNCHANGED <<store, crashes, held, disturbed>>

StoreAccessToken(c, a, tok) == Write(c, "store", a, tok)

RemoveAccessToken(c, a) == Write(c, "remove", a, NoToken)

----------------------------------------------------------------------------
(* The storage (external)                                                  *)

AppliedOn(a) == {c \in Calls : call[c].at = "applied" /\ call[c].acct = a}

Read(c) ==
    /\ call[c].at = "sent" /\ call[c].op = "get"
    /\ call' = [call EXCEPT ![c].at = "applied", ![c].tok = store[call[c].acct]]
    /\ CacheSame
    /\ UNCHANGED <<store, writes, crashes, held, disturbed>>

Update(c) ==
    LET a == call[c].acct
    IN  /\ call[c].at = "sent" /\ call[c].op \in {"store", "remove"}
        /\ store' = [store EXCEPT ![a] = call[c].tok]
        /\ call' = [call EXCEPT ![c].at = "applied"]
        /\ held' = [held EXCEPT ![a] = @ \cup ({call[c].tok} \cap Tokens)]
        /\ disturbed' = IF AppliedOn(a) = {} THEN disturbed ELSE disturbed \cup {a}
        /\ CacheSame
        /\ UNCHANGED <<writes, crashes>>

----------------------------------------------------------------------------
(* AuthService, after its await                                            *)

(***************************************************************************)
(* A token read from the storage is cached and returned; null is returned  *)
(* and leaves the cache alone.                                             *)
(***************************************************************************)
FillCache(a, tok) == IF tok # NoToken THEN CacheSet(a, tok) ELSE CacheSame

(***************************************************************************)
(* Mutant of Resume: a removal leaves the cache entry.                     *)
(***************************************************************************)
ResumeKeepsRemoved(c) ==
    LET a == call[c].acct
    IN  /\ call[c].at = "applied"
        /\ call' = [call EXCEPT ![c].at = "done"]
        /\ IF call[c].op = "remove" THEN CacheSame ELSE FillCache(a, call[c].tok)
        /\ UNCHANGED <<store, writes, crashes, held, disturbed>>

Resume(c) ==
    LET a == call[c].acct
    IN  /\ call[c].at = "applied"
        /\ call' = [call EXCEPT ![c].at = "done"]
        /\ \/ call[c].op = "get"    /\ FillCache(a, call[c].tok)
           \/ call[c].op = "store"  /\ CacheSet(a, call[c].tok)
           \/ call[c].op = "remove" /\ CacheDelete({a})
        /\ UNCHANGED <<store, writes, crashes, held, disturbed>>

(***************************************************************************)
(* The storage call rejects, before or after its effect: a read or a       *)
(* removal throws to its caller and the cache is left as it is.            *)
(***************************************************************************)
Reject(c) ==
    /\ call[c].at \in {"sent", "applied"} /\ call[c].op \in {"get", "remove"}
    /\ call' = [call EXCEPT ![c] = [Unused EXCEPT !.op = call[c].op, !.acct = call[c].acct]]
    /\ disturbed' = IF call[c].op = "remove" /\ call[c].at = "applied"
                    THEN disturbed \cup {call[c].acct} ELSE disturbed
    /\ CacheSame
    /\ UNCHANGED <<store, writes, crashes, held>>

(***************************************************************************)
(* The process exits and is restarted with an empty cache.                 *)
(***************************************************************************)
Restart ==
    /\ crashes < MaxCrashes
    /\ crashes' = crashes + 1
    /\ CacheDelete(Accounts)
    /\ call' = [c \in Calls |-> Unused]
    /\ UNCHANGED <<store, writes, held, disturbed>>

(***************************************************************************)
(* secureStorage.set rejects, before or after its effect.                  *)
(* The only caller of storeAccessToken, the OAuth callback, does not await *)
(* it, and its catch handler throws again: nobody handles that rejection,  *)
(* and uncaughtException ends the process.                                 *)
(***************************************************************************)
RejectStore(c) ==
    /\ call[c].at \in {"sent", "applied"} /\ call[c].op = "store"
    /\ Restart

Crash == Restart

Next == \/ \E c \in Calls :
              \/ \E a \in Accounts : \/ GetHit(c, a)
                                     \/ GetMiss(c, a)
                                     \/ \E tok \in Tokens : StoreAccessToken(c, a, tok)
                                     \/ RemoveAccessToken(c, a)
              \/ Read(c)
              \/ Update(c)
              \/ Resume(c)
              \/ Reject(c)
              \/ RejectStore(c)
        \/ Cleanup
        \/ Clear
        \/ Tick
        \/ Crash

Spec == Init /\ [][Next]_vars

(***************************************************************************)
(* Time passes, the cleanup timer fires, and every storage request is      *)
(* carried out and answered, or fails.                                     *)
(***************************************************************************)
Fairness == /\ WF_vars(Tick)
            /\ WF_vars(Cleanup)
            /\ \A c \in Calls : WF_vars(Read(c) \/ Update(c) \/ Resume(c))

FairSpec == Spec /\ Fairness

----------------------------------------------------------------------------
WritePending(a) == \E c \in AppliedOn(a) : call[c].op \in {"store", "remove"}

(***************************************************************************)
(* The cache of AuthService agrees with the secure storage except while a  *)
(* write waits for its answer, unless a write of the account overlapped    *)
(* another call or failed half way.                                        *)
(***************************************************************************)
CoherentUnlessDisturbed ==
    \A a \in Accounts : cached[a] # NoToken =>
        cached[a] = store[a] \/ WritePending(a) \/ a \in disturbed

(***************************************************************************)
(* getAccessToken never answers with a token of another account, nor with  *)
(* one that the storage never held.                                        *)
(***************************************************************************)
ServedTokenWasHeld ==
    \A c \in Calls : (call[c].op = "get" /\ call[c].at = "done" /\ call[c].tok # NoToken)
                        => call[c].tok \in held[call[c].acct]

(***************************************************************************)
(* Whatever the interleaving left in the cache, the fixed lifetime of the  *)
(* entries makes it agree with the storage again once writes have stopped. *)
(***************************************************************************)
EventuallyCoherent ==
    <>[](\A a \in Accounts : cached[a] # NoToken => cached[a] = store[a])
=============================================================================
