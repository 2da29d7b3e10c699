------------------------- MODULE TokenCache_proofs -------------------------
(***************************************************************************)
(* Proofs about TokenCache, for any accounts, tokens and concurrent calls: *)
(* types, coherence of the cache, and provenance of the tokens served.     *)
(***************************************************************************)
EXTENDS TokenCache, TLAPS

(***************************************************************************)
(* The strengthening of CoherentUnlessDisturbed: what an answered call is  *)
(* about to put in the cache is what the storage holds.  An overlapping    *)
(* write is exactly what breaks it, and it marks the account.              *)
(***************************************************************************)
SampleInv ==
    \A c \in Calls : call[c].at = "applied" =>
        call[c].tok = store[call[c].acct] \/ call[c].acct \in disturbed

ArgInv ==
    \A c \in Calls : /\ call[c].op = "remove" => call[c].tok = NoToken
                     /\ call[c].op = "store" => call[c].tok \in Tokens

CoherenceInv == TypeOK /\ ArgInv /\ SampleInv /\ CoherentUnlessDisturbed

(***************************************************************************)
(* The strengthening of ServedTokenWasHeld: the storage, the cache and the *)
(* answers hold only tokens that the account has had.                      *)
(***************************************************************************)
Has(h, a, tok) == tok # NoToken => tok \in h[a]

HeldInv ==
    /\ \A a \in Accounts : Has(held, a, store[a]) /\ Has(held, a, cached[a])
    /\ \A c \in Calls : (call[c].op \in {"get", "store"} /\ call[c].at # "sent")
                        => Has(held, call[c].acct, call[c].tok)

ProvenanceInv == TypeOK /\ ArgInv /\ HeldInv

----------------------------------------------------------------------------
LEMMA CallFields ==
  ASSUME TypeOK, NEW c \in Calls
  PROVE  /\ call[c] \in Call
         /\ call[c].op \in {"none", "get", "store", "remove"}
         /\ call[c].at \in {"sent", "applied", "done"}
         /\ call[c].acct \in Accounts \cup {NoAccount}
         /\ call[c].tok \in Tokens \cup {NoToken}
         /\ call[c].at # "done" => call[c].acct \in Accounts
         /\ call[c].op # "none" => call[c].acct \in Accounts
  BY DEF TypeOK, Call

(***************************************************************************)
(* The two ways the cache changes keep its type.                           *)
(***************************************************************************)
LEMMA CacheSetType ==
  ASSUME TypeOK, NEW a \in Accounts, NEW tok \in Tokens, CacheSet(a, tok)
  PROVE  /\ cached' \in [Accounts -> Tokens \cup {NoToken}]
         /\ ttl' \in [Accounts -> -1..TTL]
  BY BoundsAssumption DEF TypeOK, CacheSet

LEMMA CacheDeleteType ==
  ASSUME TypeOK, NEW A, CacheDelete(A)
  PROVE  /\ cached' \in [Accounts -> Tokens \cup {NoToken}]
         /\ ttl' \in [Accounts -> -1..TTL]
  BY BoundsAssumption DEF TypeOK, CacheDelete

LEMMA InitType == Init => TypeOK /\ ArgInv
  BY BoundsAssumption DEF Init, TypeOK, ArgInv, Unused, Call

(***************************************************************************)
(* Starting a call: a well typed record in one slot.                       *)
(***************************************************************************)
LEMMA SlotType ==
  ASSUME TypeOK, ArgInv, NEW c \in Calls, NEW r \in Call,
         call' = [call EXCEPT ![c] = r],
         r.op # "none" => r.acct \in Accounts,
         r.op = "none" => r.at = "done",
         r.op = "remove" => r.tok = NoToken,
         r.op = "store" => r.tok \in Tokens
  PROVE  /\ call' \in [Calls -> Call]
         /\ \A d \in Calls : call'[d].op # "none" => call'[d].acct \in Accounts
         /\ \A d \in Calls : call'[d].op = "none" => call'[d].at = "done"
         /\ ArgInv'
<1>1. call'[c] = r /\ \A d \in Calls \ {c} : call'[d] = call[d]
  BY DEF TypeOK
<1>2. call' \in [Calls -> Call]
  BY DEF TypeOK
<1> QED BY <1>1, <1>2 DEF TypeOK, ArgInv

(***************************************************************************)
(* Restart forgets the calls and the cache.                                *)
(***************************************************************************)
LEMMA RestartType == TypeOK /\ ArgInv /\ Restart => TypeOK' /\ ArgInv'
<1> SUFFICES ASSUME TypeOK, ArgInv, Restart PROVE TypeOK' /\ ArgInv'
  OBVIOUS
<1>1. \A d \in Calls : call'[d] = Unused
  BY DEF Restart
<1>2. Unused \in Call
  BY DEF Unused, Call
<1>3. CacheDelete(Accounts)
  BY DEF Restart
<1>4. crashes' \in 0..MaxCrashes
  BY BoundsAssumption DEF Restart, TypeOK
<1>5. /\ call' \in [Calls -> Call]
      /\ \A d \in Calls : call'[d].op = "none" /\ call'[d].at = "done"
  BY <1>1, <1>2 DEF Restart, Unused
<1> QED BY <1>1, <1>3, <1>4, <1>5, CacheDeleteType DEF Restart, TypeOK, ArgInv

LEMMA TypeStep == TypeOK /\ ArgInv /\ [Next]_vars => TypeOK' /\ ArgInv'
<1> SUFFICES ASSUME TypeOK, ArgInv, [Next]_vars PROVE TypeOK' /\ ArgInv'
  OBVIOUS
<1>1. ASSUME NEW c \in Calls, NEW a \in Accounts, GetHit(c, a) PROVE TypeOK' /\ ArgInv'
  <2> DEFINE r == [op |-> "get", at |-> "done", acct |-> a, tok |-> CacheGet(a)]
  <2>1. r \in Call
    BY DEF Call, CacheGet, TypeOK
  <2> QED BY <1>1, <2>1, SlotType DEF GetHit, CacheSame, TypeOK
<1>2. ASSUME NEW c \in Calls, NEW a \in Accounts, GetMiss(c, a) PROVE TypeOK' /\ ArgInv'
  <2> DEFINE r == [op |-> "get", at |-> "sent", acct |-> a, tok |-> NoToken]
  <2>1. r \in Call
    BY DEF Call
  <2>2. CacheDelete({a})
    BY <1>2 DEF GetMiss
  <2> QED BY <1>2, <2>1, <2>2, SlotType, CacheDeleteType DEF GetMiss, Start, TypeOK
<1>3. ASSUME NEW c \in Calls, NEW a \in Accounts, NEW tok \in Tokens, StoreAccessToken(c, a, tok)
      PROVE  TypeOK' /\ ArgInv'
  <2> DEFINE r == [op |-> "store", at |-> "sent", acct |-> a, tok |-> tok]
  <2>1. r \in Call
    BY DEF Call
  <2>2. writes' \in 0..MaxWrites
    BY <1>3, BoundsAssumption DEF StoreAccessToken, Write, TypeOK
  <2> QED BY <1>3, <2>1, <2>2, SlotType DEF StoreAccessToken, Write, Start, CacheSame, TypeOK
<1>4. ASSUME NEW c \in Calls, NEW a \in Accounts, RemoveAccessToken(c, a)
      PROVE  TypeOK' /\ ArgInv'
  <2> DEFINE r == [op |-> "remove", at |-> "sent", acct |-> a, tok |-> NoToken]
  <2>1. r \in Call
    BY DEF Call
  <2>2. writes' \in 0..MaxWrites
    BY <1>4, BoundsAssumption DEF RemoveAccessToken, Write, TypeOK
  <2> QED BY <1>4, <2>1, <2>2, SlotType DEF RemoveAccessToken, Write, Start, CacheSame, TypeOK
<1>5. ASSUME NEW c \in Calls, Read(c) PROVE TypeOK' /\ ArgInv'
  <2> DEFINE r == [call[c] EXCEPT !.at = "applied", !.tok = store[call[c].acct]]
  <2>1. call[c].acct \in Accounts /\ call[c].op = "get" /\ call[c] \in Call
    BY <1>5, CallFields DEF Read
  <2>2. store[call[c].acct] \in Tokens \cup {NoToken}
    BY <2>1 DEF TypeOK
  <2>3. r \in Call /\ r.op = "get" /\ r.acct = call[c].acct
    BY <2>1, <2>2 DEF Call
  <2>4. call' = [call EXCEPT ![c] = r]
    BY <1>5 DEF Read
  <2> QED BY <1>5, <2>1, <2>3, <2>4, SlotType DEF Read, CacheSame, TypeOK
<1>6. ASSUME NEW c \in Calls, Update(c) PROVE TypeOK' /\ ArgInv'
  <2> DEFINE r == [call[c] EXCEPT !.at = "applied"]
  <2>1. /\ call[c].acct \in Accounts /\ call[c].op \in {"store", "remove"} /\ call[c] \in Call
        /\ call[c].tok \in Tokens \cup {NoToken}
    BY <1>6, CallFields DEF Update
  <2>2. r \in Call /\ r.op = call[c].op /\ r.acct = call[c].acct /\ r.tok = call[c].tok
    BY <2>1 DEF Call
  <2>3. call' = [call EXCEPT ![c] = r]
    BY <1>6 DEF Update
  <2>4. store' \in [Accounts -> Tokens \cup {NoToken}] /\ held' \in [Accounts -> SUBSET Tokens]
    BY <1>6, <2>1 DEF Update, TypeOK
  <2>5. disturbed' \subseteq Accounts
    BY <1>6, <2>1 DEF Update, TypeOK
  <2>6. call' \in [Calls -> Call] /\ ArgInv'
        /\ (\A d \in Calls : call'[d].op # "none" => call'[d].acct \in Accounts)
        /\ (\A d \in Calls : call'[d].op = "none" => call'[d].at = "done")
    BY <2>1, <2>2, <2>3, SlotType DEF ArgInv
  <2> QED BY <1>6, <2>4, <2>5, <2>6 DEF Update, CacheSame, TypeOK
<1>7. ASSUME NEW c \in Calls, Resume(c) PROVE TypeOK' /\ ArgInv'
  <2> DEFINE r == [call[c] EXCEPT !.at = "done"]
  <2>1. /\ call[c].acct \in Accounts /\ call[c] \in Call
        /\ call[c].tok \in Tokens \cup {NoToken}
        /\ call[c].op # "none"
    BY <1>7, CallFields DEF Resume
  <2>2. r \in Call /\ r.op = call[c].op /\ r.acct = call[c].acct /\ r.tok = call[c].tok
    BY <2>1 DEF Call
  <2>3. call' = [call EXCEPT ![c] = r]
    BY <1>7 DEF Resume
  <2>4. call' \in [Calls -> Call] /\ ArgInv'
        /\ (\A d \in Calls : call'[d].op # "none" => call'[d].acct \in Accounts)
        /\ (\A d \in Calls : call'[d].op = "none" => call'[d].at = "done")
    BY <2>1, <2>2, <2>3, SlotType DEF ArgInv
  <2>5. /\ cached' \in [Accounts -> Tokens \cup {NoToken}]
        /\ ttl' \in [Accounts -> -1..TTL]
    <3>1. CASE call[c].op = "get" /\ FillCache(call[c].acct, call[c].tok)
      BY <2>1, <3>1, CacheSetType DEF FillCache, CacheSame, TypeOK
    <3>2. CASE call[c].op = "store" /\ CacheSet(call[c].acct, call[c].tok)
      BY <2>1, <3>2, CacheSetType DEF ArgInv
    <3>3. CASE call[c].op = "remove" /\ CacheDelete({call[c].acct})
      BY <3>3, CacheDeleteType
    <3> QED BY <1>7, <3>1, <3>2, <3>3 DEF Resume
  <2> QED BY <1>7, <2>4, <2>5 DEF Resume, TypeOK
<1>8. ASSUME NEW c \in Calls, Reject(c) PROVE TypeOK' /\ ArgInv'
  <2> DEFINE r == [Unused EXCEPT !.op = call[c].op, !.acct = call[c].acct]
  <2>1. call[c].acct \in Accounts /\ call[c].op \in {"get", "remove"}
    BY <1>8, CallFields DEF Reject
  <2>2. r \in Call /\ r.op = call[c].op /\ r.acct = call[c].acct /\ r.tok = NoToken
    BY <2>1 DEF Call, Unused
  <2>3. call' = [call EXCEPT ![c] = r]
    BY <1>8 DEF Reject
  <2>4. disturbed' \subseteq Accounts
    BY <1>8, <2>1 DEF Reject, TypeOK
  <2> QED BY <1>8, <2>1, <2>2, <2>3, <2>4, SlotType DEF Reject, CacheSame, TypeOK
<1>9. CASE Cleanup \/ Clear
  <2>1. \E A : CacheDelete(A)
    BY <1>9 DEF Cleanup, Clear
  <2> QED BY <1>9, <2>1, CacheDeleteType DEF Cleanup, Clear, TypeOK, ArgInv
<1>10. CASE Tick
  BY <1>10, BoundsAssumption DEF Tick, TypeOK, ArgInv
<1>11. CASE Restart
  BY <1>11, RestartType
<1>12. CASE UNCHANGED vars
  BY <1>12 DEF vars, TypeOK, ArgInv
<1> QED BY <1>1, <1>2, <1>3, <1>4, <1>5, <1>6, <1>7, <1>8, <1>9, <1>10, <1>11, <1>12
        DEF Next, RejectStore, Crash

(***************************************************************************)
(* Storage, cache and call records keep their types; a removal carries no  *)
(* token and a store carries one.                                          *)
(***************************************************************************)
THEOREM TypeCorrect == Spec => [](TypeOK /\ ArgInv)
  BY InitType, TypeStep, PTL DEF Spec

----------------------------------------------------------------------------
(***************************************************************************)
(* Coherence.  A step that leaves the storage, the answered calls and the  *)
(* history alone keeps it, if it takes nothing but whole entries away.     *)
(***************************************************************************)
LEMMA QuietStep ==
  ASSUME TypeOK, SampleInv, CoherentUnlessDisturbed,
         store' = store, disturbed' = disturbed,
         \A a \in Accounts : cached'[a] \in {cached[a], NoToken},
         \A d \in Calls : (call[d].at = "applied" \/ call'[d].at = "applied") => call'[d] = call[d]
  PROVE  SampleInv' /\ CoherentUnlessDisturbed'
<1>1. SampleInv'
  BY DEF SampleInv
<1>2. \A a \in Accounts : WritePending(a)' <=> WritePending(a)
  BY DEF WritePending, AppliedOn
<1> QED BY <1>1, <1>2 DEF CoherentUnlessDisturbed

LEMMA DeleteIsQuiet ==
  ASSUME NEW A, CacheDelete(A)
  PROVE  \A a \in Accounts : cached'[a] \in {cached[a], NoToken}
  BY DEF CacheDelete

LEMMA ReadCoherent ==
  ASSUME CoherenceInv, NEW c \in Calls, Read(c)
  PROVE  SampleInv' /\ CoherentUnlessDisturbed'
<1>1. /\ call'[c].at = "applied" /\ call'[c].op = "get"
      /\ call'[c].acct = call[c].acct /\ call'[c].tok = store[call[c].acct]
      /\ call[c].at = "sent"
  <2>1. call[c] \in Call
    BY CallFields DEF CoherenceInv
  <2> QED BY <2>1 DEF Read, CoherenceInv, TypeOK, Call
<1>2. /\ \A d \in Calls \ {c} : call'[d] = call[d]
      /\ store' = store /\ disturbed' = disturbed /\ cached' = cached
  BY DEF Read, CacheSame, CoherenceInv, TypeOK
<1>3. SampleInv'
  BY <1>1, <1>2 DEF SampleInv, CoherenceInv
<1>4. \A a \in Accounts : WritePending(a)' <=> WritePending(a)
  BY <1>1, <1>2 DEF WritePending, AppliedOn
<1> QED BY <1>2, <1>3, <1>4 DEF CoherenceInv, CoherentUnlessDisturbed

LEMMA UpdateCoherent ==
  ASSUME CoherenceInv, NEW c \in Calls, Update(c)
  PROVE  SampleInv' /\ CoherentUnlessDisturbed'
<1> PICK b \in Accounts : b = call[c].acct
  BY CallFields DEF CoherenceInv, Update
<1>1. /\ b \in Accounts /\ call[c].op \in {"store", "remove"} /\ call[c].at = "sent"
      /\ call'[c].at = "applied" /\ call'[c].op = call[c].op
      /\ call'[c].acct = b /\ call'[c].tok = call[c].tok
  <2>1. call[c] \in Call
    BY CallFields DEF CoherenceInv, Update
  <2> QED BY <2>1 DEF Update, CoherenceInv, TypeOK, Call
<1>2. /\ \A d \in Calls \ {c} : call'[d] = call[d]
      /\ store'[b] = call[c].tok
      /\ \A a \in Accounts \ {b} : store'[a] = store[a]
      /\ cached' = cached
      /\ disturbed \subseteq disturbed'
      /\ AppliedOn(b) # {} => b \in disturbed'
  BY <1>1 DEF Update, CacheSame, CoherenceInv, TypeOK
<1>3. SampleInv'
  <2> SUFFICES ASSUME NEW d \in Calls, call'[d].at = "applied"
               PROVE  call'[d].tok = store'[call'[d].acct] \/ call'[d].acct \in disturbed'
    BY DEF SampleInv
  <2>1. CASE d = c
    BY <1>1, <1>2, <2>1
  <2>2. CASE d # c /\ call[d].acct = b
    <3>1. d \in AppliedOn(b)
      BY <1>2, <2>2 DEF AppliedOn
    <3> QED BY <1>2, <2>2, <3>1
  <2>3. CASE d # c /\ call[d].acct # b
    <3>1. call'[d] = call[d] /\ call[d].acct \in Accounts \ {b}
      BY <1>2, <2>3, CallFields DEF CoherenceInv
    <3> QED BY <1>2, <3>1 DEF CoherenceInv, SampleInv
  <2> QED BY <2>1, <2>2, <2>3
<1>4. WritePending(b)'
  BY <1>1 DEF WritePending, AppliedOn
<1>5. \A a \in Accounts : WritePending(a) => WritePending(a)'
  BY <1>1, <1>2 DEF WritePending, AppliedOn
<1> QED BY <1>2, <1>3, <1>4, <1>5 DEF CoherenceInv, CoherentUnlessDisturbed

LEMMA ResumeCoherent ==
  ASSUME CoherenceInv, NEW c \in Calls, Resume(c)
  PROVE  SampleInv' /\ CoherentUnlessDisturbed'
<1> PICK b \in Accounts : b = call[c].acct
  BY CallFields DEF CoherenceInv, Resume
<1>1. /\ b \in Accounts /\ call[c].at = "applied" /\ call'[c].at = "done"
      /\ call[c].op \in {"get", "store", "remove"}
      /\ call[c].tok = store[b] \/ b \in disturbed
  <2>1. call[c] \in Call
    BY CallFields DEF CoherenceInv, Resume
  <2> QED BY <2>1 DEF Resume, CoherenceInv, TypeOK, SampleInv
<1>2. /\ \A d \in Calls \ {c} : call'[d] = call[d]
      /\ store' = store /\ disturbed' = disturbed
  BY DEF Resume, CoherenceInv, TypeOK
<1>3. SampleInv'
  BY <1>1, <1>2 DEF CoherenceInv, SampleInv
<1>4. \A a \in Accounts \ {b} : cached'[a] = cached[a]
  BY <1>1 DEF Resume, FillCache, CacheSet, CacheDelete, CacheSame, CoherenceInv, TypeOK
<1>5. \A a \in Accounts \ {b} : WritePending(a) => WritePending(a)'
  BY <1>1, <1>2 DEF WritePending, AppliedOn
<1>6. \/ cached'[b] = call[c].tok
      \/ call[c].op = "remove" /\ cached'[b] = NoToken
      \/ call[c].op = "get" /\ cached'[b] = cached[b]
  BY <1>1 DEF Resume, FillCache, CacheSet, CacheDelete, CacheSame, CoherenceInv, TypeOK
<1>7. call[c].op = "get" /\ WritePending(b) => WritePending(b)'
  BY <1>1, <1>2 DEF WritePending, AppliedOn
<1>8. CoherentUnlessDisturbed'
  <2> SUFFICES ASSUME NEW a \in Accounts, cached'[a] # NoToken
               PROVE  cached'[a] = store'[a] \/ WritePending(a)' \/ a \in disturbed'
    BY DEF CoherentUnlessDisturbed
  <2>1. CASE a = b
    BY <1>1, <1>2, <1>6, <1>7, <2>1 DEF CoherenceInv, CoherentUnlessDisturbed
  <2>2. CASE a # b
    BY <1>2, <1>4, <1>5, <2>2 DEF CoherenceInv, CoherentUnlessDisturbed
  <2> QED BY <2>1, <2>2
<1> QED BY <1>3, <1>8

LEMMA RejectCoherent ==
  ASSUME CoherenceInv, NEW c \in Calls, Reject(c)
  PROVE  SampleInv' /\ CoherentUnlessDisturbed'
<1> PICK b \in Accounts : b = call[c].acct
  BY CallFields DEF CoherenceInv, Reject
<1>1. /\ call'[c].at = "done"
      /\ \A d \in Calls \ {c} : call'[d] = call[d]
      /\ store' = store /\ cached' = cached /\ disturbed \subseteq disturbed'
      /\ call[c].at = "applied" /\ call[c].op # "get" => b \in disturbed'
  BY DEF Reject, CacheSame, CoherenceInv, TypeOK, Unused
<1>2. SampleInv'
  BY <1>1 DEF CoherenceInv, SampleInv
<1>3. \A a \in Accounts : WritePending(a) => WritePending(a)' \/ a \in disturbed'
  <2> SUFFICES ASSUME NEW a \in Accounts, NEW d \in AppliedOn(a),
                      call[d].op \in {"store", "remove"}
               PROVE  WritePending(a)' \/ a \in disturbed'
    BY DEF WritePending
  <2>1. CASE d = c
    BY <1>1, <2>1 DEF AppliedOn
  <2>2. CASE d # c
    BY <1>1, <2>2 DEF AppliedOn, WritePending
  <2> QED BY <2>1, <2>2
<1> QED BY <1>1, <1>2, <1>3 DEF CoherenceInv, CoherentUnlessDisturbed

LEMMA CoherenceStep == CoherenceInv /\ [Next]_vars => CoherenceInv'
<1> SUFFICES ASSUME CoherenceInv, [Next]_vars PROVE CoherenceInv'
  OBVIOUS
<1>0. TypeOK' /\ ArgInv'
  BY TypeStep DEF CoherenceInv
<1> SUFFICES SampleInv' /\ CoherentUnlessDisturbed'
  BY <1>0 DEF CoherenceInv
<1>1. ASSUME NEW c \in Calls, NEW a \in Accounts,
             \/ GetHit(c, a) \/ GetMiss(c, a) \/ RemoveAccessToken(c, a)
             \/ \E tok \in Tokens : StoreAccessToken(c, a, tok)
      PROVE  SampleInv' /\ CoherentUnlessDisturbed'
  <2>1. /\ store' = store /\ disturbed' = disturbed
        /\ call[c].at = "done" /\ call'[c].at # "applied"
        /\ \A d \in Calls \ {c} : call'[d] = call[d]
    BY <1>1 DEF GetHit, GetMiss, RemoveAccessToken, StoreAccessToken, Write, Start,
                CoherenceInv, TypeOK
  <2>2. cached' = cached \/ CacheDelete({a})
    BY <1>1 DEF GetHit, GetMiss, RemoveAccessToken, StoreAccessToken, Write, CacheSame
  <2>3. \A e \in Accounts : cached'[e] \in {cached[e], NoToken}
    BY <2>2, DeleteIsQuiet
  <2> QED BY <2>1, <2>3, QuietStep DEF CoherenceInv
<1>2. ASSUME NEW c \in Calls, Read(c) \/ Update(c) \/ Resume(c) \/ Reject(c)
      PROVE  SampleInv' /\ CoherentUnlessDisturbed'
  BY <1>2, ReadCoherent, UpdateCoherent, ResumeCoherent, RejectCoherent
<1>3. CASE Cleanup \/ Clear
  <2>1. /\ \E A : CacheDelete(A)
        /\ store' = store /\ disturbed' = disturbed /\ call' = call
    BY <1>3 DEF Cleanup, Clear
  <2>2. \A e \in Accounts : cached'[e] \in {cached[e], NoToken}
    BY <2>1, DeleteIsQuiet
  <2> QED BY <2>1, <2>2, QuietStep DEF CoherenceInv
<1>4. CASE Tick \/ UNCHANGED vars
  BY <1>4, QuietStep DEF Tick, vars, CoherenceInv
<1>5. CASE Restart
  <2>1. /\ \A d \in Calls : call'[d].at = "done"
        /\ \A e \in Accounts : cached'[e] = NoToken
    BY <1>5 DEF Restart, Unused, CacheDelete
  <2> QED BY <2>1 DEF SampleInv, CoherentUnlessDisturbed
<1> QED BY <1>1, <1>2, <1>3, <1>4, <1>5 DEF Next, RejectStore, Crash

(***************************************************************************)
(* The cache disagrees with the storage only while a write is in progress, *)
(* or after a write that overlapped another call or failed half way.       *)
(***************************************************************************)
THEOREM Coherence == Spec => []CoherentUnlessDisturbed
<1>1. Init => CoherenceInv
  BY InitType DEF Init, CoherenceInv, SampleInv, CoherentUnlessDisturbed, Unused
<1>2. CoherenceInv => CoherentUnlessDisturbed
  BY DEF CoherenceInv
<1> QED BY <1>1, <1>2, CoherenceStep, PTL DEF Spec

----------------------------------------------------------------------------
(***************************************************************************)
(* Provenance.  The history of an account only grows.                      *)
(***************************************************************************)
LEMMA HeldGrows ==
  ASSUME TypeOK, [Next]_vars, NEW a \in Accounts
  PROVE  held[a] \subseteq held'[a]
<1>1. ASSUME NEW c \in Calls, Update(c) PROVE held[a] \subseteq held'[a]
  BY <1>1 DEF Update, TypeOK
<1>2. CASE held' = held
  BY <1>2
<1> QED BY <1>1, <1>2
        DEF Next, vars, GetHit, GetMiss, StoreAccessToken, RemoveAccessToken, Write, Read, Resume,
            Reject, RejectStore, Restart, Crash, Cleanup, Clear, Tick

LEMMA CacheKeepsHeld ==
  ASSUME ProvenanceInv, [Next]_vars, NEW b \in Accounts, NEW tok, Has(held, b, tok),
         CacheSame \/ (\E A : CacheDelete(A)) \/ CacheSet(b, tok)
  PROVE  \A a \in Accounts : Has(held', a, cached'[a])
<1> SUFFICES ASSUME NEW a \in Accounts PROVE Has(held', a, cached'[a])
  OBVIOUS
<1>0. Has(held, a, cached[a]) /\ held[a] \subseteq held'[a] /\ TypeOK
  BY HeldGrows DEF ProvenanceInv, HeldInv
<1>1. CASE CacheSame
  BY <1>0, <1>1 DEF CacheSame, Has
<1>2. CASE \E A : CacheDelete(A)
  BY <1>0, <1>2 DEF CacheDelete, Has
<1>3. CASE CacheSet(b, tok)
  <2>1. cached'[a] = IF a = b THEN tok ELSE cached[a]
    BY <1>0, <1>3 DEF CacheSet, TypeOK
  <2> QED BY <1>0, <2>1 DEF Has
<1> QED BY <1>1, <1>2, <1>3

(***************************************************************************)
(* The slot in which a call starts, advances or ends.                      *)
(***************************************************************************)
LEMMA SlotHeld ==
  ASSUME ProvenanceInv, [Next]_vars, NEW c \in Calls, NEW r,
         call' = [call EXCEPT ![c] = r],
         (r.op \in {"get", "store"} /\ r.at # "sent") => Has(held', r.acct, r.tok)
  PROVE  \A d \in Calls : (call'[d].op \in {"get", "store"} /\ call'[d].at # "sent")
                         => Has(held', call'[d].acct, call'[d].tok)
<1>1. call'[c] = r /\ \A d \in Calls \ {c} : call'[d] = call[d]
  BY DEF ProvenanceInv, TypeOK
<1> SUFFICES ASSUME NEW d \in Calls \ {c}, call[d].op \in {"get", "store"}, call[d].at # "sent"
             PROVE  Has(held', call[d].acct, call[d].tok)
  BY <1>1
<1>2. call[d].acct \in Accounts
  BY DEF ProvenanceInv, TypeOK
<1>3. held[call[d].acct] \subseteq held'[call[d].acct]
  BY <1>2, HeldGrows DEF ProvenanceInv
<1> QED BY <1>3 DEF ProvenanceInv, HeldInv, Has

LEMMA StoreHeld ==
  ASSUME ProvenanceInv, [Next]_vars
  PROVE  \A a \in Accounts : Has(held', a, store'[a])
<1> SUFFICES ASSUME NEW a \in Accounts PROVE Has(held', a, store'[a])
  OBVIOUS
<1>0. Has(held, a, store[a]) /\ held[a] \subseteq held'[a] /\ TypeOK
  BY HeldGrows DEF ProvenanceInv, HeldInv
<1>1. ASSUME NEW c \in Calls, Update(c) PROVE Has(held', a, store'[a])
  <2>1. store' = [store EXCEPT ![call[c].acct] = call[c].tok]
        /\ held' = [held EXCEPT ![call[c].acct] = @ \cup ({call[c].tok} \cap Tokens)]
    BY <1>1 DEF Update
  <2>2. call[c].tok \in Tokens \cup {NoToken}
    BY <1>0, CallFields
  <2> QED BY <1>0, <2>1, <2>2 DEF TypeOK, Has
<1>2. CASE store' = store
  BY <1>0, <1>2 DEF Has
<1> QED BY <1>1, <1>2
        DEF Next, vars, GetHit, GetMiss, StoreAccessToken, RemoveAccessToken, Write, Read,
            Resume, Reject, RejectStore, Restart, Crash, Cleanup, Clear, Tick

LEMMA ProvenanceStep == ProvenanceInv /\ [Next]_vars => HeldInv'
<1> SUFFICES ASSUME ProvenanceInv, [Next]_vars PROVE HeldInv'
  OBVIOUS
<1> DEFINE CallsHeld == \A d \in Calls : (call'[d].op \in {"get", "store"} /\ call'[d].at # "sent")
                                         => Has(held', call'[d].acct, call'[d].tok)
           CacheHeld == \A a \in Accounts : Has(held', a, cached'[a])
<1> SUFFICES CallsHeld /\ CacheHeld
  BY StoreHeld DEF HeldInv
<1>0. TypeOK /\ HeldInv /\ ArgInv /\ \A a \in Accounts : held[a] \subseteq held'[a]
  BY HeldGrows DEF ProvenanceInv
<1>1. ASSUME NEW c \in Calls, NEW a \in Accounts, GetHit(c, a) PROVE CallsHeld /\ CacheHeld
  <2> DEFINE r == [op |-> "get", at |-> "done", acct |-> a, tok |-> CacheGet(a)]
  <2>1. Has(held', a, CacheGet(a))
    BY <1>0 DEF CacheGet, Has, HeldInv
  <2>2. CallsHeld
    BY <1>1, <2>1, SlotHeld DEF GetHit
  <2>3. CacheHeld
    BY <1>1, <2>1, CacheKeepsHeld DEF GetHit, Has
  <2> QED BY <2>2, <2>3
<1>2. ASSUME NEW c \in Calls, NEW a \in Accounts,
             \/ GetMiss(c, a) \/ RemoveAccessToken(c, a)
             \/ \E tok \in Tokens : StoreAccessToken(c, a, tok)
      PROVE  CallsHeld /\ CacheHeld
  <2>1. PICK r : call' = [call EXCEPT ![c] = r] /\ r.at = "sent"
    <3>1. ASSUME NEW op, NEW tok, Start(c, op, a, tok)
          PROVE  \E r : call' = [call EXCEPT ![c] = r] /\ r.at = "sent"
      <4> DEFINE q == [op |-> op, at |-> "sent", acct |-> a, tok |-> tok]
      <4>1. call' = [call EXCEPT ![c] = q] /\ q.at = "sent"
        BY <3>1 DEF Start
      <4> HIDE DEF q
      <4> QED BY <4>1
    <3>2. \E op, tok : Start(c, op, a, tok)
      BY <1>2 DEF GetMiss, RemoveAccessToken, StoreAccessToken, Write
    <3> QED BY <3>1, <3>2
  <2>2. CallsHeld
    BY <2>1, SlotHeld
  <2>3. CacheHeld
    BY <1>2, CacheKeepsHeld DEF GetMiss, RemoveAccessToken, StoreAccessToken, Write, Has
  <2> QED BY <2>2, <2>3
<1>3. ASSUME NEW c \in Calls, Read(c) \/ Update(c) PROVE CallsHeld /\ CacheHeld
  <2>1. PICK b \in Accounts : b = call[c].acct
    BY <1>3, CallFields, <1>0 DEF Read, Update
  <2>2. call[c] \in Call /\ call[c].tok \in Tokens \cup {NoToken}
    BY <1>0, CallFields
  <2>3. PICK r : call' = [call EXCEPT ![c] = r] /\ r.acct = b /\ Has(held', b, r.tok)
    <3>1. CASE Read(c)
      <4> DEFINE q == [call[c] EXCEPT !.at = "applied", !.tok = store[b]]
      <4>1. call' = [call EXCEPT ![c] = q]
        BY <2>1, <3>1 DEF Read
      <4>2. q.acct = b /\ q.tok = store[b]
        BY <2>1, <2>2 DEF Call
      <4>3. Has(held', b, store[b])
        BY <1>0 DEF HeldInv, Has
      <4> QED BY <4>1, <4>2, <4>3
    <3>2. CASE Update(c)
      <4> DEFINE q == [call[c] EXCEPT !.at = "applied"]
      <4>1. call' = [call EXCEPT ![c] = q]
        BY <3>2 DEF Update
      <4>2. q.acct = b /\ q.tok = call[c].tok
        BY <2>1, <2>2 DEF Call
      <4>3. held' = [held EXCEPT ![b] = @ \cup ({call[c].tok} \cap Tokens)]
        BY <2>1, <3>2 DEF Update
      <4>4. Has(held', b, call[c].tok)
        BY <1>0, <2>2, <4>3 DEF TypeOK, Has
      <4> QED BY <4>1, <4>2, <4>4
    <3> QED BY <1>3, <3>1, <3>2
  <2>4. CallsHeld
    BY <2>3, SlotHeld
  <2>5. CacheHeld
    <3>1. CacheSame
      BY <1>3 DEF Read, Update
    <3>2. Has(held, b, NoToken)
      BY DEF Has
    <3> QED BY <3>1, <3>2, CacheKeepsHeld
  <2> QED BY <2>4, <2>5
<1>4. ASSUME NEW c \in Calls, Resume(c) PROVE CallsHeld /\ CacheHeld
  <2>1. PICK b \in Accounts : b = call[c].acct
    BY <1>0, <1>4, CallFields DEF Resume
  <2>2. call[c] \in Call /\ call[c].op \in {"get", "store", "remove"}
    BY <1>0, <1>4, CallFields DEF Resume
  <2>3. Has(held, b, call[c].tok)
    BY <1>0, <1>4, <2>1, <2>2 DEF Resume, HeldInv, ArgInv, Has
  <2>4. CallsHeld
    <3> DEFINE q == [call[c] EXCEPT !.at = "done"]
    <3>1. call' = [call EXCEPT ![c] = q]
      BY <1>4 DEF Resume
    <3>2. q.acct = b /\ q.tok = call[c].tok
      BY <2>1, <2>2 DEF Call
    <3>3. Has(held', q.acct, q.tok)
      BY <1>0, <2>3, <3>2 DEF Has
    <3> HIDE DEF q
    <3> QED BY <3>1, <3>3, SlotHeld
  <2>5. CacheHeld
    <3>1. CacheSame \/ (\E A : CacheDelete(A)) \/ CacheSet(b, call[c].tok)
      BY <1>4, <2>1 DEF Resume, FillCache
    <3> QED BY <2>3, <3>1, CacheKeepsHeld
  <2> QED BY <2>4, <2>5
<1>5. ASSUME NEW c \in Calls, Reject(c) PROVE CallsHeld /\ CacheHeld
  <2> DEFINE r == [Unused EXCEPT !.op = call[c].op, !.acct = call[c].acct]
  <2>1. call' = [call EXCEPT ![c] = r] /\ CacheSame
    BY <1>5 DEF Reject
  <2>2. Has(held', r.acct, r.tok)
    BY DEF Unused, Has
  <2>3. PICK b \in Accounts : b = call[c].acct
    BY <1>0, <1>5, CallFields DEF Reject
  <2>4. Has(held, b, NoToken)
    BY DEF Has
  <2> HIDE DEF r
  <2> QED BY <2>1, <2>2, <2>4, SlotHeld, CacheKeepsHeld
<1>6. CASE Cleanup \/ Clear \/ Tick \/ UNCHANGED vars \/ Restart
  <2>1. call' = call \/ \A d \in Calls : call'[d].op = "none"
    BY <1>6 DEF Cleanup, Clear, Tick, vars, Restart, Unused
  <2>2. CallsHeld
    <3> SUFFICES ASSUME NEW d \in Calls, call' = call, call[d].op \in {"get", "store"},
                        call[d].at # "sent"
                 PROVE  Has(held', call[d].acct, call[d].tok)
      BY <2>1
    <3>1. call[d].acct \in Accounts
      BY <1>0 DEF TypeOK
    <3> QED BY <1>0, <3>1 DEF HeldInv, Has
  <2>3. cached' = cached \/ \E A : CacheDelete(A)
    BY <1>6 DEF Cleanup, Clear, Tick, vars, Restart
  <2>4. CacheHeld
    BY <1>0, <2>3 DEF CacheDelete, HeldInv, Has
  <2> QED BY <2>2, <2>4
<1> QED BY <1>1, <1>2, <1>3, <1>4, <1>5, <1>6 DEF Next, RejectStore, Crash

(***************************************************************************)
(* A token that getAccessToken answers with was the account's own at some  *)
(* time, whatever calls, failures and restarts came before.                *)
(***************************************************************************)
THEOREM Provenance == Spec => []ServedTokenWasHeld
<1>1. Init => ProvenanceInv
  BY InitType DEF Init, ProvenanceInv, HeldInv, Has, Unused
<1>2. ProvenanceInv /\ [Next]_vars => ProvenanceInv'
  BY TypeStep, ProvenanceStep DEF ProvenanceInv
<1>3. ProvenanceInv => ServedTokenWasHeld
  BY DEF ProvenanceInv, HeldInv, Has, ServedTokenWasHeld
<1> QED BY <1>1, <1>2, <1>3, PTL DEF Spec
=============================================================================
