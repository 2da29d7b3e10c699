------------------------ MODULE BoardActions_proofs ------------------------
(***************************************************************************)
(* Proofs about BoardActions, for any board, any number of runs, pages,    *)
(* attempts, changes and failures.                                         *)
(***************************************************************************)
EXTENDS BoardActions, FiniteSetTheorems, TLAPS

(***************************************************************************)
(* Run a has read row r.                                                   *)
(***************************************************************************)
HasRead(a, r) == took[a][r] # Unread

(***************************************************************************)
(* Until a run leaves the loop over the pages it has read exactly the rows *)
(* of the pages it has counted ("ratio" reads a single time), and has sent *)
(* no mutation.                                                            *)
(***************************************************************************)
PagesRead(a) ==
    /\ act[a].st = "idle" => act[a].page = 0
    /\ act[a].st \in {"idle", "reading"} =>
          /\ act[a].page < Pages
          /\ \A r \in Rows : /\ req[a][r].st = "none"
                             /\ HasRead(a, r) <=> kind # "ratio" /\ PageOf[r] <= act[a].page

(***************************************************************************)
(* A run that got past its pages without an error has read all of its      *)
(* scope.                                                                  *)
(***************************************************************************)
ScopeRead(a) ==
    /\ act[a].st = "reading" /\ kind = "ratio" => act[a].row \in Rows /\ act[a].page = 0
    /\ act[a].st \in {"writing", "answered"} /\ ~act[a].cut =>
          \A r \in Scope(a) : r \in Rows /\ HasRead(a, r)

(***************************************************************************)
(* Mutations are those of rows that have something to derive from; all of  *)
(* these have one unless a read threw; none is left when the run is        *)
(* answered; a rejection of a run that sent some is that of one of them.   *)
(***************************************************************************)
MutationsSent(a) ==
    /\ \A r \in Rows : req[a][r].st # "none" => r \in ToWrite(took[a])
    /\ act[a].st \in {"writing", "answered"} =>
          \A r \in ToWrite(took[a]) : req[a][r].st # "none"
    /\ act[a].st = "answered" => \A r \in Rows : Settled(req[a][r])
    /\ act[a].st = "rejected" => \/ \E r \in Rows : req[a][r].st = "threw"
                                 \/ \A r \in Rows : req[a][r].st = "none"

(***************************************************************************)
(* What a run has read is what the row holds, unless it changed since.     *)
(***************************************************************************)
SnapshotOf(a, r) == HasRead(a, r) => a \in outdated[r] \/ took[a][r] = source[r]

(***************************************************************************)
(* The column bears the value of what its last writer read.                *)
(***************************************************************************)
ColumnWritten(r) ==
    /\ lastBy[r] # NoRun => LET c == took[lastBy[r]][r]
                            IN  /\ c # Unread /\ Present(c) # {}
                                /\ column[r] = Compute(kind, c)
    /\ \A a \in Runs : req[a][r].st = "ok" => lastBy[r] # NoRun

TriesLeft(a, r) == req[a][r].st = "backoff" => req[a][r].tries < TriesOf(kind)

BoardInv == /\ BoardTypeOK
            /\ \A a \in Runs : PagesRead(a) /\ ScopeRead(a) /\ MutationsSent(a)
            /\ \A a \in Runs, r \in Rows : SnapshotOf(a, r) /\ TriesLeft(a, r)
            /\ \A r \in Rows : ColumnWritten(r)

----------------------------------------------------------------------------
(* The fields of a row and the value computed from them                    *)

LEMMA SubsetCounted ==
  ASSUME NEW S \in SUBSET Slots
  PROVE  /\ IsFiniteSet(S)
         /\ Cardinality(S) \in Count
         /\ Cardinality(S) = 0 <=> S = {}
<1>1. /\ IsFiniteSet(S)
      /\ Cardinality(S) <= Cardinality(Slots)
  BY FS_Subset, SlotsAssumption
<1>2. Cardinality(S) \in Nat /\ Cardinality(Slots) \in Nat
  BY <1>1, FS_CardinalityType, SlotsAssumption
<1>3. Cardinality(S) = 0 <=> S = {}
  BY <1>1, FS_EmptySet
<1> QED BY <1>1, <1>2, <1>3 DEF Count

LEMMA ContentsFields ==
  ASSUME NEW k \in Kinds, NEW c \in Contents(k)
  PROVE  /\ \A s \in Slots : c[s] \in Fields(k)
         /\ k = "copy" => \A s \in Slots \ {CopySlot} : c[s] = "absent"
         /\ c # Unread
<1>1. c[CopySlot] # "unread"
  BY SlotsAssumption DEF Contents, Fields, Kinds
<1>2. Unread[CopySlot] = "unread"
  BY SlotsAssumption DEF Unread
<1> QED BY <1>1, <1>2 DEF Contents

(***************************************************************************)
(* A computed value is one that the column may have.                       *)
(***************************************************************************)
LEMMA ComputeType ==
  ASSUME NEW k \in Kinds, NEW c \in Contents(k), Present(c) # {}
  PROVE  Compute(k, c) \in Values(k)
<1>1. CASE k = "ratio"
  <2>1. /\ Cardinality(HavingField(c, "finished")) \in Count
        /\ Cardinality(Present(c)) \in Count
    BY SubsetCounted DEF HavingField, Present
  <2>2. LabelOf(Cardinality(HavingField(c, "finished")), Cardinality(Present(c))) \in Labels
    BY DEF LabelOf, Labels
  <2> QED BY <1>1, <2>1, <2>2 DEF Compute, Values
<1>2. CASE k = "total"
  <2>1. /\ Cardinality(HavingField(c, "morning")) \in Count
        /\ Cardinality(HavingField(c, "evening")) \in Count
    BY SubsetCounted DEF HavingField
  <2> QED BY <1>2, <2>1 DEF Compute, Values
<1>3. CASE k = "copy"
  <2>1. c[CopySlot] \in {"x", "y"}
    BY <1>3, ContentsFields, SlotsAssumption DEF Present, Fields
  <2> QED BY <1>3, <2>1 DEF Compute, Values
<1> QED BY <1>1, <1>2, <1>3 DEF Kinds

LEMMA LabelDenoted ==
  ASSUME NEW c \in Contents("ratio"), Present(c) # {}
  PROVE  LabelOf(Cardinality(HavingField(c, "finished")), Cardinality(Present(c)))
         = IF \A s \in Present(c) : c[s] = "open" THEN "NOT_FINISH_ANYTHING"
           ELSE IF \A s \in Present(c) : c[s] = "finished" THEN "DONE"
           ELSE "NOT_FINISH_ALL"
<1> DEFINE F == HavingField(c, "finished")
           P == Present(c)
<1>1. /\ F \subseteq P /\ P \in SUBSET Slots /\ F \in SUBSET Slots
      /\ \A s \in P : s \in F <=> c[s] = "finished"
  BY DEF HavingField, Present
<1>2. \A s \in P : c[s] \in {"open", "finished"}
  BY ContentsFields DEF Present, Fields, Kinds
<1>3. /\ Cardinality(F) = 0 <=> F = {}
      /\ Cardinality(F) = Cardinality(P) <=> F = P
  BY <1>1, SubsetCounted, FS_Subset
<1>4. CASE \A s \in P : c[s] = "open"
  BY <1>1, <1>3, <1>4 DEF LabelOf
<1>5. CASE P # {} /\ \A s \in P : c[s] = "finished"
  BY <1>1, <1>3, <1>5 DEF LabelOf
<1>6. CASE /\ \E s \in P : c[s] # "open"
           /\ \E s \in P : c[s] # "finished"
  BY <1>1, <1>2, <1>3, <1>6 DEF LabelOf
<1> QED BY <1>4, <1>5, <1>6

(***************************************************************************)
(* The services' counters compute the value that stands for the row.       *)
(***************************************************************************)
THEOREM ComputeIsDenoted ==
  ASSUME NEW k \in Kinds, NEW c \in Contents(k), Present(c) # {}
  PROVE  Compute(k, c) = Denoted(k, c)
<1>1. ASSUME NEW f, f # "absent"
      PROVE  HavingField(c, f) = {s \in Present(c) : c[s] = f}
  BY <1>1 DEF HavingField, Present
<1>2. CASE k = "ratio"
  BY <1>1, <1>2, LabelDenoted DEF Compute, Denoted
<1>3. CASE k = "total"
  BY <1>1, <1>3 DEF Compute, Denoted
<1>4. CASE k = "copy"
  <2>1. c[CopySlot] \in {c[s] : s \in Slots}
    BY SlotsAssumption
  <2>2. (CHOOSE text \in {c[s] : s \in Slots} : text = c[CopySlot]) = c[CopySlot]
    BY <2>1
  <2> QED BY <1>4, <2>2 DEF Compute, Denoted
<1> QED BY <1>2, <1>3, <1>4 DEF Kinds

----------------------------------------------------------------------------
(* Types                                                                   *)

LEMMA NextTry ==
  ASSUME NEW n \in Nat, NEW t \in 0..n, t < n
  PROVE  t + 1 \in 0..n
  OBVIOUS

LEMMA TriesBound ==
  /\ Tries * Tries \in Nat
  /\ 1 \in 0..Tries * Tries
  /\ \A k \in Kinds : TriesOf(k) \in Nat /\ TriesOf(k) <= Tries * Tries
<1>1. PICK n \in Nat : Tries = n + 1
  BY TriesAssumption
<1>2. Tries * Tries = n * n + n + n + 1 /\ n * n \in Nat
  BY <1>1
<1> QED BY <1>1, <1>2 DEF TriesOf

LEMMA FirstPage == 0 \in 0..Pages /\ Pages \in Nat
  BY PagesAssumption

LEMMA ActFields ==
  ASSUME BoardTypeOK, NEW a \in Runs
  PROVE  /\ act[a].st \in {"idle", "reading", "writing", "answered", "rejected"}
         /\ act[a].row \in Rows \cup {NoRow}
         /\ act[a].page \in 0..Pages
         /\ act[a].cut \in BOOLEAN
  BY DEF BoardTypeOK, Act

LEMMA ReqFields ==
  ASSUME BoardTypeOK, NEW a \in Runs, NEW r \in Rows
  PROVE  /\ req[a][r] \in Req
         /\ req[a][r].st \in {"none", "sent", "backoff", "ok", "refused", "threw"}
         /\ req[a][r].tries \in 0..Tries * Tries
  BY DEF BoardTypeOK, Req

LEMMA ReadContents ==
  ASSUME BoardTypeOK, NEW a \in Runs, NEW r \in Rows
  PROVE  /\ source[r] \in Contents(kind) /\ source[r] # Unread
         /\ HasRead(a, r) => took[a][r] \in Contents(kind)
         /\ took[a][r] \in Contents(kind) => HasRead(a, r)
  BY ContentsFields DEF BoardTypeOK, HasRead

(***************************************************************************)
(* What SetAct and MutationTo change.                                      *)
(***************************************************************************)
LEMMA SetActEffect ==
  ASSUME BoardTypeOK, NEW a \in Runs,
         NEW st \in {"idle", "reading", "writing", "answered", "rejected"},
         NEW row \in Rows \cup {NoRow}, NEW page \in 0..Pages, NEW cut \in BOOLEAN,
         SetAct(a, st, row, page, cut)
  PROVE  /\ act' \in [Runs -> Act]
         /\ act'[a].st = st /\ act'[a].row = row
         /\ act'[a].page = page /\ act'[a].cut = cut
         /\ \A b \in Runs \ {a} : act'[b] = act[b]
<1>1. [st |-> st, row |-> row, page |-> page, cut |-> cut] \in Act
  BY DEF Act
<1>2. /\ act' \in [Runs -> Act]
      /\ act'[a] = [st |-> st, row |-> row, page |-> page, cut |-> cut]
      /\ \A b \in Runs \ {a} : act'[b] = act[b]
  BY <1>1 DEF BoardTypeOK, SetAct
<1> QED BY <1>2

LEMMA SendEffect ==
  ASSUME BoardTypeOK, NEW a \in Runs, NEW tk \in [Rows -> Contents(kind) \cup {Unread}],
         NEW page \in 0..Pages, NEW cut \in BOOLEAN,
         SendMutations(a, tk, page, cut)
  PROVE  /\ act' \in [Runs -> Act] /\ req' \in [Runs -> [Rows -> Req]]
         /\ act'[a].st = IF ToWrite(tk) = {} THEN "answered" ELSE "writing"
         /\ act'[a].row = act[a].row /\ act'[a].cut = cut
         /\ \A b \in Runs \ {a} : act'[b] = act[b] /\ req'[b] = req[b]
         /\ \A r \in ToWrite(tk) : req'[a][r].st = "sent"
         /\ \A r \in Rows \ ToWrite(tk) : req'[a][r] = req[a][r]
<1> DEFINE qs == [r \in Rows |-> IF r \in ToWrite(tk) THEN [st |-> "sent", tries |-> 1]
                                 ELSE req[a][r]]
<1>1. [st |-> "sent", tries |-> 1] \in Req
  BY TriesBound DEF Req
<1>2. qs \in [Rows -> Req]
  BY <1>1, ReqFields
<1>3. req' = [req EXCEPT ![a] = qs]
  BY DEF SendMutations
<1>4. /\ \A r \in ToWrite(tk) : qs[r].st = "sent"
      /\ \A r \in Rows \ ToWrite(tk) : qs[r] = req[a][r]
  BY DEF ToWrite
<1> HIDE DEF qs
<1>5. /\ req' \in [Runs -> [Rows -> Req]]
      /\ req'[a] = qs
      /\ \A b \in Runs \ {a} : req'[b] = req[b]
  BY <1>2, <1>3 DEF BoardTypeOK
<1>6. SetAct(a, IF ToWrite(tk) = {} THEN "answered" ELSE "writing", act[a].row, page, cut)
  BY DEF SendMutations
<1>7. act[a].row \in Rows \cup {NoRow}
  BY ActFields
<1>8. /\ act' \in [Runs -> Act]
      /\ act'[a].st = IF ToWrite(tk) = {} THEN "answered" ELSE "writing"
      /\ act'[a].row = act[a].row /\ act'[a].cut = cut
      /\ \A b \in Runs \ {a} : act'[b] = act[b]
  BY <1>6, <1>7, SetActEffect
<1> QED BY <1>4, <1>5, <1>8

(***************************************************************************)
(* A run that writes stays so, is answered when all is settled, or rejects *)
(* after a mutation threw.                                                 *)
(***************************************************************************)
LEMMA OutcomeCases ==
  ASSUME NEW k \in Kinds, NEW qs \in [Rows -> Req]
  PROVE  /\ Outcome(k, qs) \in {"writing", "answered", "rejected"}
         /\ Outcome(k, qs) = "answered" => \A r \in Rows : Settled(qs[r])
         /\ Outcome(k, qs) = "rejected" => \E r \in Rows : qs[r].st = "threw"
  BY DEF Outcome

LEMMA MutationEffect ==
  ASSUME BoardTypeOK, NEW a \in Runs, NEW r \in Rows,
         NEW st \in {"sent", "backoff", "ok", "refused", "threw"},
         NEW tries \in 0..Tries * Tries,
         MutationTo(a, r, st, tries)
  PROVE  /\ act' \in [Runs -> Act] /\ req' \in [Runs -> [Rows -> Req]]
         /\ req'[a][r].st = st /\ req'[a][r].tries = tries
         /\ \A q \in Rows \ {r} : req'[a][q] = req[a][q]
         /\ \A b \in Runs \ {a} : act'[b] = act[b] /\ req'[b] = req[b]
         /\ act'[a].row = act[a].row /\ act'[a].page = act[a].page
         /\ act'[a].cut = act[a].cut
         /\ act'[a].st = IF act[a].st = "writing" THEN Outcome(kind, req'[a]) ELSE act[a].st
<1> DEFINE new == [st |-> st, tries |-> tries]
           qs == [q \in Rows |-> IF q = r THEN new ELSE req[a][q]]
<1>1. new \in Req /\ new.st = st /\ new.tries = tries
  BY DEF Req
<1>2. /\ req' = [req EXCEPT ![a] = qs]
      /\ IF act[a].st = "writing"
         THEN SetAct(a, Outcome(kind, qs), act[a].row, act[a].page, act[a].cut)
         ELSE UNCHANGED act
  BY DEF MutationTo
<1> HIDE DEF new
<1>3. /\ qs \in [Rows -> Req]
      /\ qs[r] = new
      /\ \A q \in Rows \ {r} : qs[q] = req[a][q]
  BY <1>1, ReqFields
<1> HIDE DEF qs
<1>4. /\ req' \in [Runs -> [Rows -> Req]]
      /\ req'[a] = qs
      /\ \A b \in Runs \ {a} : req'[b] = req[b]
  BY <1>2, <1>3 DEF BoardTypeOK
<1>5. kind \in Kinds
  BY DEF BoardTypeOK
<1>6. CASE act[a].st = "writing"
  <2> DEFINE st2 == Outcome(kind, qs)
  <2>1. SetAct(a, st2, act[a].row, act[a].page, act[a].cut)
    BY <1>2, <1>6
  <2>2. st2 \in {"idle", "reading", "writing", "answered", "rejected"}
    BY <1>3, <1>5, OutcomeCases
  <2>3. act[a].row \in Rows \cup {NoRow} /\ act[a].page \in 0..Pages /\ act[a].cut \in BOOLEAN
    BY ActFields
  <2> DEFINE d == [st |-> st2, row |-> act[a].row, page |-> act[a].page, cut |-> act[a].cut]
  <2>4. act' = [act EXCEPT ![a] = d]
    BY <2>1 DEF SetAct
  <2> HIDE DEF st2
  <2>5. /\ d \in Act /\ d.st = st2
        /\ d.row = act[a].row /\ d.page = act[a].page /\ d.cut = act[a].cut
    BY <2>2, <2>3 DEF Act
  <2> HIDE DEF d
  <2>6. /\ act' \in [Runs -> Act]
        /\ act'[a] = d
        /\ \A b \in Runs \ {a} : act'[b] = act[b]
    BY <2>4, <2>5 DEF BoardTypeOK
  <2> QED BY <1>1, <1>3, <1>4, <1>6, <2>5, <2>6 DEF st2
<1>7. CASE act[a].st # "writing"
  <2>1. act' = act
    BY <1>2, <1>7
  <2> QED BY <1>1, <1>3, <1>4, <1>7, <2>1 DEF BoardTypeOK
<1> QED BY <1>6, <1>7

----------------------------------------------------------------------------
(* The invariant                                                           *)

LEMMA BoardInitInv == BoardInit => BoardInv
<1> SUFFICES ASSUME BoardInit PROVE BoardInv
  OBVIOUS
<1>1. BoardTypeOK
  <2>1. act \in [Runs -> Act]
    BY PagesAssumption DEF BoardInit, Act
  <2>2. req \in [Runs -> [Rows -> Req]]
    BY TriesBound DEF BoardInit, Req
  <2>3. source \in [Rows -> Contents(kind)]
    BY DEF BoardInit
  <2>4. took \in [Runs -> [Rows -> Contents(kind) \cup {Unread}]]
    BY DEF BoardInit
  <2>5. /\ column \in [Rows -> Values(kind) \cup {NoValue}]
        /\ outdated \in [Rows -> SUBSET Runs]
        /\ lastBy \in [Rows -> Runs \cup {NoRun}]
    BY DEF BoardInit
  <2>6. kind \in Kinds /\ changes \in 0..MaxChanges /\ faults \in 0..MaxFaults
    BY TriesAssumption DEF BoardInit
  <2> QED BY <2>1, <2>2, <2>3, <2>4, <2>5, <2>6 DEF BoardTypeOK
<1>2. \A a \in Runs, r \in Rows : /\ ~HasRead(a, r) /\ req[a][r].st = "none"
                                  /\ act[a].st = "idle" /\ act[a].page = 0
  BY DEF BoardInit, HasRead
<1>3. ASSUME NEW a \in Runs
      PROVE  PagesRead(a) /\ ScopeRead(a) /\ MutationsSent(a)
  <2>1. act[a].st = "idle" /\ act[a].page = 0
    BY DEF BoardInit
  <2>2. PagesRead(a)
    BY <1>2, <2>1, PagesAssumption DEF PagesRead
  <2> QED BY <1>2, <2>1, <2>2 DEF ScopeRead, MutationsSent
<1>4. \A a \in Runs, r \in Rows : SnapshotOf(a, r) /\ TriesLeft(a, r)
  BY <1>2 DEF SnapshotOf, TriesLeft
<1>5. \A r \in Rows : ColumnWritten(r)
  BY <1>2 DEF ColumnWritten, BoardInit
<1> QED BY <1>1, <1>3, <1>4, <1>5 DEF BoardInv

(***************************************************************************)
(* What a step leaves alone keeps its part of the invariant.               *)
(***************************************************************************)
LEMMA RunStays ==
  ASSUME BoardInv, NEW a \in Runs,
         kind' = kind, act'[a] = act[a], took'[a] = took[a], req'[a] = req[a]
  PROVE  /\ PagesRead(a)' /\ ScopeRead(a)' /\ MutationsSent(a)'
         /\ \A r \in Rows : TriesLeft(a, r)'
<1>1. PagesRead(a)'
  BY DEF BoardInv, PagesRead, HasRead
<1>2. ScopeRead(a)'
  BY DEF BoardInv, ScopeRead, HasRead, Scope
<1>3. MutationsSent(a)'
  BY DEF BoardInv, MutationsSent, ToWrite, Settled
<1>4. \A r \in Rows : TriesLeft(a, r)'
  BY DEF BoardInv, TriesLeft
<1> QED BY <1>1, <1>2, <1>3, <1>4

LEMMA ColumnStays ==
  ASSUME BoardInv, NEW r \in Rows,
         kind' = kind, column'[r] = column[r], lastBy'[r] = lastBy[r],
         \A a \in Runs : HasRead(a, r) => took'[a][r] = took[a][r],
         \A a \in Runs : req'[a][r].st = "ok" => req[a][r].st = "ok"
  PROVE  ColumnWritten(r)'
<1>1. ColumnWritten(r) /\ lastBy[r] \in Runs \cup {NoRun}
  BY DEF BoardInv, BoardTypeOK
<1>2. lastBy[r] # NoRun => took'[lastBy[r]][r] = took[lastBy[r]][r]
  BY <1>1 DEF ColumnWritten, HasRead
<1> QED BY <1>1, <1>2 DEF ColumnWritten

LEMMA ChangeFieldInv ==
  ASSUME BoardInv, NEW r \in Rows, NEW s \in Slots, NEW f \in Fields(kind),
         ChangeField(r, s, f)
  PROVE  BoardInv'
<1> USE DEF ChangeField
<1>1. kind \in Kinds /\ source \in [Rows -> Contents(kind)]
  BY DEF BoardInv, BoardTypeOK
<1> DEFINE c == [t \in Slots |-> IF t = s THEN f ELSE source[r][t]]
<1>2. c \in Contents(kind)
  <2>1. c \in [Slots -> Fields(kind)]
    BY <1>1, ContentsFields
  <2>2. kind = "copy" => \A t \in Slots \ {CopySlot} : c[t] = "absent"
    BY <1>1, ContentsFields
  <2> QED BY <2>1, <2>2 DEF Contents
<1>3. source' = [source EXCEPT ![r] = c]
  OBVIOUS
<1> HIDE DEF c
<1>4. source' \in [Rows -> Contents(kind)] /\ \A q \in Rows \ {r} : source'[q] = source[q]
  BY <1>1, <1>2, <1>3
<1>5. /\ outdated' \in [Rows -> SUBSET Runs]
      /\ \A a \in Runs : a \in outdated'[r] <=> HasRead(a, r)
      /\ \A q \in Rows \ {r} : outdated'[q] = outdated[q]
  BY DEF BoardInv, BoardTypeOK, HasRead
<1>6. changes' \in 0..MaxChanges
  BY NextTry, TriesAssumption DEF BoardInv, BoardTypeOK
<1>7. BoardTypeOK'
  BY <1>4, <1>5, <1>6 DEF BoardInv, BoardTypeOK
<1>8. UNCHANGED <<kind, column, act, took, req, lastBy>>
  OBVIOUS
<1>9. \A a \in Runs : PagesRead(a)' /\ ScopeRead(a)' /\ MutationsSent(a)'
  BY <1>8, RunStays
<1>10. \A a \in Runs, q \in Rows : TriesLeft(a, q)'
  BY <1>8, RunStays
<1>11. \A a \in Runs, q \in Rows : SnapshotOf(a, q)'
  BY <1>4, <1>5, <1>8 DEF BoardInv, SnapshotOf, HasRead
<1>12. \A q \in Rows : ColumnWritten(q)'
  BY <1>8, ColumnStays
<1> QED BY <1>7, <1>9, <1>10, <1>11, <1>12 DEF BoardInv

(***************************************************************************)
(* A run that only moves on.                                               *)
(***************************************************************************)
LEMMA OnlyActInv ==
  ASSUME BoardInv, NEW a \in Runs,
         UNCHANGED <<kind, source, column, took, req, changes, faults, outdated, lastBy>>,
         act' \in [Runs -> Act],
         \A b \in Runs \ {a} : act'[b] = act[b],
         PagesRead(a)', ScopeRead(a)', MutationsSent(a)'
  PROVE  BoardInv'
<1>1. BoardTypeOK'
  BY DEF BoardInv, BoardTypeOK
<1>2. \A b \in Runs : PagesRead(b)' /\ ScopeRead(b)' /\ MutationsSent(b)'
  BY RunStays
<1>3. \A b \in Runs, r \in Rows : SnapshotOf(b, r)' /\ TriesLeft(b, r)'
  BY DEF BoardInv, SnapshotOf, TriesLeft, HasRead
<1>4. \A r \in Rows : ColumnWritten(r)'
  BY ColumnStays
<1> QED BY <1>1, <1>2, <1>3, <1>4 DEF BoardInv

LEMMA StartActionInv ==
  ASSUME BoardInv, NEW a \in Runs, NEW r \in Rows \cup {NoRow}, StartAction(a, r)
  PROVE  BoardInv'
<1>1. /\ BoardTypeOK /\ PagesRead(a) /\ MutationsSent(a)
      /\ act[a].st = "idle" /\ SetAct(a, "reading", r, 0, FALSE)
      /\ kind = "ratio" => r \in Rows
      /\ UNCHANGED <<kind, source, column, took, req, changes, faults, outdated, lastBy>>
  BY DEF BoardInv, StartAction
<1>2. /\ act' \in [Runs -> Act]
      /\ act'[a].st = "reading" /\ act'[a].row = r /\ act'[a].page = 0
      /\ \A b \in Runs \ {a} : act'[b] = act[b]
  BY <1>1, SetActEffect, FirstPage
<1>3. PagesRead(a)'
  BY <1>1, <1>2, PagesAssumption DEF PagesRead, HasRead
<1>4. ScopeRead(a)'
  BY <1>1, <1>2 DEF ScopeRead
<1>5. MutationsSent(a)'
  BY <1>1, <1>2 DEF MutationsSent, ToWrite
<1> QED BY <1>1, <1>2, <1>3, <1>4, <1>5, OnlyActInv

LEMMA GiveUpActionInv ==
  ASSUME BoardInv, NEW a \in Runs, GiveUp(a)
  PROVE  BoardInv'
<1>1. /\ BoardTypeOK /\ PagesRead(a) /\ MutationsSent(a)
      /\ act[a].st = "idle" /\ SetAct(a, "answered", NoRow, 0, TRUE)
      /\ UNCHANGED <<kind, source, column, took, req, changes, faults, outdated, lastBy>>
  BY DEF BoardInv, GiveUp
<1>2. /\ act' \in [Runs -> Act]
      /\ act'[a].st = "answered" /\ act'[a].cut = TRUE
      /\ \A b \in Runs \ {a} : act'[b] = act[b]
  BY <1>1, SetActEffect, FirstPage
<1>3. \A r \in Rows : ~HasRead(a, r) /\ req[a][r].st = "none"
  BY <1>1, PagesAssumption DEF PagesRead
<1>4. PagesRead(a)' /\ ScopeRead(a)'
  BY <1>2 DEF PagesRead, ScopeRead
<1>5. MutationsSent(a)'
  BY <1>1, <1>2, <1>3 DEF MutationsSent, ToWrite, HasRead, Settled
<1> QED BY <1>1, <1>2, <1>4, <1>5, OnlyActInv

LEMMA ReadThrowsInv ==
  ASSUME BoardInv, NEW a \in Runs, ReadThrows(a)
  PROVE  BoardInv'
<1>1. /\ BoardTypeOK /\ PagesRead(a) /\ MutationsSent(a)
      /\ act[a].st = "reading"
      /\ SetAct(a, "rejected", act[a].row, act[a].page, TRUE)
      /\ UNCHANGED <<kind, source, column, took, req, changes, faults, outdated, lastBy>>
  BY DEF BoardInv, ReadThrows
<1>2. /\ act' \in [Runs -> Act]
      /\ act'[a].st = "rejected"
      /\ \A b \in Runs \ {a} : act'[b] = act[b]
  BY <1>1, SetActEffect, ActFields
<1>3. \A r \in Rows : req[a][r].st = "none"
  BY <1>1 DEF PagesRead
<1>4. PagesRead(a)' /\ ScopeRead(a)'
  BY <1>2 DEF PagesRead, ScopeRead
<1>5. MutationsSent(a)'
  BY <1>1, <1>2, <1>3 DEF MutationsSent, ToWrite
<1> QED BY <1>1, <1>2, <1>4, <1>5, OnlyActInv

(***************************************************************************)
(* The loop over the pages is left with tk read.                           *)
(***************************************************************************)
LEMMA SendInv ==
  ASSUME BoardInv, NEW a \in Runs, act[a].st = "reading",
         NEW tk \in [Rows -> Contents(kind) \cup {Unread}],
         NEW page \in 0..Pages, NEW cut \in BOOLEAN,
         SendMutations(a, tk, page, cut),
         took' \in [Runs -> [Rows -> Contents(kind) \cup {Unread}]],
         took'[a] = tk, \A b \in Runs \ {a} : took'[b] = took[b],
         \A r \in Rows : HasRead(a, r) => tk[r] = took[a][r],
         \A r \in Rows : HasRead(a, r) \/ tk[r] \in {Unread, source[r]},
         ~cut => \A r \in Scope(a) : r \in Rows /\ tk[r] # Unread,
         UNCHANGED <<kind, source, column, changes, faults, outdated, lastBy>>
  PROVE  BoardInv'
<1>1. /\ BoardTypeOK /\ PagesRead(a) /\ ScopeRead(a) /\ MutationsSent(a)
      /\ \A r \in Rows : SnapshotOf(a, r)
  BY DEF BoardInv
<1>2. /\ act' \in [Runs -> Act] /\ req' \in [Runs -> [Rows -> Req]]
      /\ act'[a].st = IF ToWrite(tk) = {} THEN "answered" ELSE "writing"
      /\ act'[a].row = act[a].row /\ act'[a].cut = cut
      /\ \A b \in Runs \ {a} : act'[b] = act[b] /\ req'[b] = req[b]
      /\ \A r \in ToWrite(tk) : req'[a][r].st = "sent"
      /\ \A r \in Rows \ ToWrite(tk) : req'[a][r] = req[a][r]
  BY <1>1, SendEffect
<1>3. \A r \in Rows : req[a][r].st = "none"
  BY <1>1 DEF PagesRead
<1>4. BoardTypeOK'
  BY <1>1, <1>2 DEF BoardTypeOK
<1>5. PagesRead(a)'
  BY <1>2 DEF PagesRead
<1>6. ScopeRead(a)'
  <2>1. Scope(a)' = Scope(a)
    BY <1>2 DEF Scope
  <2> QED BY <1>2, <2>1 DEF ScopeRead, HasRead
<1>7. MutationsSent(a)'
  <2>1. /\ took'[a] = tk /\ ToWrite(tk) \subseteq Rows
        /\ \A r \in Rows : req'[a][r].st = IF r \in ToWrite(tk) THEN "sent" ELSE "none"
    BY <1>2, <1>3 DEF ToWrite
  <2>2. \A r \in Rows : req'[a][r].st # "none" => r \in ToWrite(took'[a])
    BY <2>1
  <2>3. \A r \in ToWrite(took'[a]) : req'[a][r].st # "none"
    BY <2>1
  <2>4. act'[a].st = "answered" => \A r \in Rows : Settled(req'[a][r])
    BY <1>2, <2>1 DEF Settled
  <2>5. act'[a].st # "rejected" /\ ToWrite(took[a])' = ToWrite(took'[a])
    BY <1>2 DEF ToWrite
  <2> QED BY <2>2, <2>3, <2>4, <2>5 DEF MutationsSent, Settled
<1>8. \A r \in Rows : TriesLeft(a, r)'
  BY <1>2, <1>3 DEF TriesLeft
<1>9. \A r \in Rows : SnapshotOf(a, r)'
  BY <1>1 DEF SnapshotOf, HasRead
<1>10. \A b \in Runs \ {a} : /\ PagesRead(b)' /\ ScopeRead(b)' /\ MutationsSent(b)'
                             /\ \A r \in Rows : TriesLeft(b, r)'
  BY <1>2, RunStays
<1>11. \A b \in Runs \ {a}, r \in Rows : SnapshotOf(b, r)'
  BY DEF BoardInv, SnapshotOf, HasRead
<1>12. \A r \in Rows : ColumnWritten(r)'
  <2>1. ASSUME NEW r \in Rows, NEW b \in Runs
        PROVE  /\ HasRead(b, r) => took'[b][r] = took[b][r]
               /\ req'[b][r].st = "ok" => req[b][r].st = "ok"
    BY <1>2
  <2> QED BY <2>1, ColumnStays
<1> QED BY <1>4, <1>5, <1>6, <1>7, <1>8, <1>9, <1>10, <1>11, <1>12 DEF BoardInv

LEMMA PageErrorInv ==
  ASSUME BoardInv, NEW a \in Runs, PageError(a)
  PROVE  BoardInv'
<1>1. /\ BoardTypeOK /\ act[a].st = "reading"
      /\ SendMutations(a, took[a], act[a].page, TRUE)
      /\ UNCHANGED <<kind, source, column, took, changes, faults, outdated, lastBy>>
  BY DEF BoardInv, PageError
<1>2. /\ took[a] \in [Rows -> Contents(kind) \cup {Unread}]
      /\ took \in [Runs -> [Rows -> Contents(kind) \cup {Unread}]]
      /\ act[a].page \in 0..Pages
  BY <1>1, ActFields DEF BoardTypeOK
<1>3. \A r \in Rows : HasRead(a, r) \/ took[a][r] \in {Unread, source[r]}
  BY DEF HasRead
<1> QED BY <1>1, <1>2, <1>3, SendInv

(***************************************************************************)
(* A row of the next page has not been read: its snapshot is what the row  *)
(* holds now; the other rows keep theirs.                                  *)
(***************************************************************************)
Snapshots(a) == [r \in Rows |-> IF InNextPage(a, r) THEN source[r] ELSE took[a][r]]

LEMMA NextPage ==
  ASSUME BoardInv, NEW a \in Runs, act[a].st = "reading"
  PROVE  /\ Snapshots(a) \in [Rows -> Contents(kind) \cup {Unread}]
         /\ act[a].page + 1 \in 0..Pages
         /\ \A r \in Rows : /\ InNextPage(a, r) => ~HasRead(a, r) /\ Snapshots(a)[r] = source[r]
                            /\ ~InNextPage(a, r) => Snapshots(a)[r] = took[a][r]
<1>1. BoardTypeOK /\ PagesRead(a) /\ ScopeRead(a)
  BY DEF BoardInv
<1>2. act[a].page \in 0..Pages /\ act[a].page < Pages
  BY <1>1, ActFields DEF PagesRead
<1>3. ASSUME NEW r \in Rows, InNextPage(a, r)
      PROVE  ~HasRead(a, r)
  <2>1. CASE kind = "ratio"
    BY <1>1, <2>1 DEF PagesRead
  <2>2. CASE kind # "ratio"
    BY <1>1, <1>2, <1>3, <2>2, PagesAssumption DEF PagesRead, InNextPage
  <2> QED BY <2>1, <2>2
<1>4. Snapshots(a) \in [Rows -> Contents(kind) \cup {Unread}]
  BY <1>1 DEF BoardTypeOK, Snapshots
<1>5. act[a].page + 1 \in 0..Pages
  BY <1>2, NextTry, FirstPage
<1> QED BY <1>3, <1>4, <1>5 DEF Snapshots

LEMMA ReadPageInv ==
  ASSUME BoardInv, NEW a \in Runs, ReadPage(a)
  PROVE  BoardInv'
<1> DEFINE tk == Snapshots(a)
           page == act[a].page + 1
<1>1. /\ BoardTypeOK /\ PagesRead(a) /\ ScopeRead(a) /\ MutationsSent(a)
      /\ \A r \in Rows : SnapshotOf(a, r)
  BY DEF BoardInv
<1>2. /\ act[a].st = "reading"
      /\ took' = [took EXCEPT ![a] = tk]
      /\ IF LastRead(a) THEN SendMutations(a, tk, page, FALSE)
         ELSE SetAct(a, "reading", act[a].row, page, FALSE) /\ UNCHANGED req
      /\ UNCHANGED <<kind, source, column, changes, faults, outdated, lastBy>>
  BY DEF ReadPage, Snapshots
<1>3. /\ tk \in [Rows -> Contents(kind) \cup {Unread}]
      /\ page \in 0..Pages
      /\ \A r \in Rows : /\ InNextPage(a, r) => ~HasRead(a, r) /\ tk[r] = source[r]
                         /\ ~InNextPage(a, r) => tk[r] = took[a][r]
  BY <1>2, NextPage
<1> HIDE DEF tk
<1>4. /\ took' \in [Runs -> [Rows -> Contents(kind) \cup {Unread}]]
      /\ took'[a] = tk
      /\ \A b \in Runs \ {a} : took'[b] = took[b]
  BY <1>1, <1>2, <1>3 DEF BoardTypeOK
<1>5. /\ \A r \in Rows : HasRead(a, r) => tk[r] = took[a][r]
      /\ \A r \in Rows : HasRead(a, r) \/ tk[r] \in {Unread, source[r]}
      /\ \A r \in Rows : tk[r] # Unread <=> HasRead(a, r) \/ InNextPage(a, r)
  BY <1>1, <1>3, ReadContents DEF HasRead
<1>6. act[a].page \in 0..Pages /\ act[a].page < Pages
  BY <1>1, <1>2, ActFields DEF PagesRead
<1>7. CASE LastRead(a)
  <2>1. \A r \in Scope(a) : r \in Rows /\ tk[r] # Unread
    <3>1. CASE kind = "ratio"
      BY <1>1, <1>2, <1>5, <3>1 DEF Scope, ScopeRead, InNextPage
    <3>2. CASE kind # "ratio"
      <4>1. \A r \in Rows : PageOf[r] <= act[a].page \/ PageOf[r] = act[a].page + 1
        BY <1>6, <1>7, <3>2, PagesAssumption DEF LastRead
      <4> QED BY <1>1, <1>2, <1>5, <3>2, <4>1 DEF Scope, PagesRead, InNextPage
    <3> QED BY <3>1, <3>2
  <2>2. SendMutations(a, tk, page, FALSE)
    BY <1>2, <1>7
  <2> HIDE DEF page
  <2> QED BY <1>2, <1>3, <1>4, <1>5, <2>1, <2>2, SendInv
<1>8. CASE ~LastRead(a)
  <2>1. kind # "ratio" /\ page < Pages
    BY <1>3, <1>6, <1>8, FirstPage DEF LastRead
  <2>2. SetAct(a, "reading", act[a].row, page, FALSE) /\ UNCHANGED req
    BY <1>2, <1>8
  <2>3. act[a].row \in Rows \cup {NoRow}
    BY <1>1, ActFields
  <2>4. /\ act' \in [Runs -> Act]
        /\ act'[a].st = "reading" /\ act'[a].row = act[a].row /\ act'[a].page = page
        /\ \A b \in Runs \ {a} : act'[b] = act[b]
    <3> HIDE DEF page
    <3> QED BY <1>1, <1>3, <2>2, <2>3, SetActEffect
  <2>5. BoardTypeOK'
    BY <1>1, <1>2, <1>4, <2>2, <2>4 DEF BoardTypeOK
  <2>6. PagesRead(a)'
    <3>1. ASSUME NEW r \in Rows
          PROVE  HasRead(a, r)' <=> PageOf[r] <= page
      <4>1. HasRead(a, r)' <=> HasRead(a, r) \/ InNextPage(a, r)
        BY <1>4, <1>5 DEF HasRead
      <4> QED BY <1>1, <1>2, <1>6, <2>1, <4>1, PagesAssumption DEF PagesRead, InNextPage
    <3>2. \A r \in Rows : req'[a][r].st = "none"
      BY <1>1, <1>2, <2>2 DEF PagesRead
    <3> QED BY <1>2, <2>1, <2>4, <3>1, <3>2 DEF PagesRead
  <2>7. ScopeRead(a)'
    BY <1>2, <2>1, <2>4 DEF ScopeRead
  <2>8. MutationsSent(a)'
    <3>1. \A r \in Rows : req'[a][r].st = "none"
      BY <1>1, <1>2, <2>2 DEF PagesRead
    <3> QED BY <2>4, <3>1 DEF MutationsSent
  <2>9. \A b \in Runs \ {a} : PagesRead(b)' /\ ScopeRead(b)' /\ MutationsSent(b)'
    BY <1>2, <1>4, <2>2, <2>4, RunStays
  <2>10. \A b \in Runs, r \in Rows : SnapshotOf(b, r)'
    <3>1. \A r \in Rows : SnapshotOf(a, r)'
      BY <1>1, <1>2, <1>4, <1>5 DEF SnapshotOf, HasRead
    <3>2. \A b \in Runs \ {a}, r \in Rows : SnapshotOf(b, r)'
      BY <1>2, <1>4 DEF BoardInv, SnapshotOf, HasRead
    <3> QED BY <3>1, <3>2
  <2>11. \A b \in Runs, r \in Rows : TriesLeft(b, r)'
    BY <1>2, <2>2 DEF BoardInv, TriesLeft
  <2>12. \A r \in Rows : ColumnWritten(r)'
    <3>1. ASSUME NEW r \in Rows, NEW b \in Runs
          PROVE  HasRead(b, r) => took'[b][r] = took[b][r]
      BY <1>4, <1>5
    <3> QED BY <1>2, <2>2, <3>1, ColumnStays
  <2> QED BY <2>5, <2>6, <2>7, <2>8, <2>9, <2>10, <2>11, <2>12 DEF BoardInv
<1> QED BY <1>7, <1>8

(***************************************************************************)
(* A run with a mutation under way still writes, or has been rejected; the *)
(* row was read and has something to derive from.                          *)
(***************************************************************************)
LEMMA UnderWay ==
  ASSUME BoardInv, NEW a \in Runs, NEW r \in Rows, req[a][r].st \in {"sent", "backoff"}
  PROVE  /\ act[a].st \in {"writing", "rejected"}
         /\ HasRead(a, r) /\ took[a][r] \in Contents(kind) /\ Present(took[a][r]) # {}
<1>1. BoardTypeOK /\ PagesRead(a) /\ MutationsSent(a)
  BY DEF BoardInv
<1>2. act[a].st \notin {"idle", "reading"}
  BY <1>1 DEF PagesRead
<1>3. act[a].st # "answered"
  BY <1>1 DEF MutationsSent, Settled
<1>4. r \in ToWrite(took[a])
  BY <1>1 DEF MutationsSent
<1>5. HasRead(a, r) /\ Present(took[a][r]) # {}
  BY <1>4 DEF ToWrite, HasRead
<1> QED BY <1>1, <1>2, <1>3, <1>5, ActFields, ReadContents

LEMMA MutationInv ==
  ASSUME BoardInv, NEW a \in Runs, NEW r \in Rows, req[a][r].st \in {"sent", "backoff"},
         NEW st \in {"sent", "backoff", "ok", "refused", "threw"},
         NEW tries \in 0..Tries * Tries,
         MutationTo(a, r, st, tries),
         st = "backoff" => tries < TriesOf(kind),
         Lands(a, r) \/ (DoesNotLand /\ st # "ok"),
         faults' \in 0..MaxFaults,
         UNCHANGED <<kind, source, took, changes, outdated>>
  PROVE  BoardInv'
<1>1. /\ BoardTypeOK /\ PagesRead(a) /\ ScopeRead(a) /\ MutationsSent(a)
      /\ kind \in Kinds
  BY DEF BoardInv, BoardTypeOK
<1>2. /\ act' \in [Runs -> Act] /\ req' \in [Runs -> [Rows -> Req]]
      /\ req'[a][r].st = st /\ req'[a][r].tries = tries
      /\ \A q \in Rows \ {r} : req'[a][q] = req[a][q]
      /\ \A b \in Runs \ {a} : act'[b] = act[b] /\ req'[b] = req[b]
      /\ act'[a].row = act[a].row /\ act'[a].page = act[a].page
      /\ act'[a].cut = act[a].cut
      /\ act'[a].st = IF act[a].st = "writing" THEN Outcome(kind, req'[a]) ELSE act[a].st
  BY <1>1, MutationEffect
<1>3. /\ act[a].st \in {"writing", "rejected"}
      /\ HasRead(a, r) /\ took[a][r] \in Contents(kind) /\ Present(took[a][r]) # {}
  BY UnderWay
<1>4. /\ act'[a].st \in {"writing", "answered", "rejected"}
      /\ act'[a].st = "answered" => /\ \A q \in Rows : Settled(req'[a][q])
                                    /\ act[a].st = "writing"
      /\ act'[a].st = "rejected" => \/ \E q \in Rows : req'[a][q].st = "threw"
                                    \/ act[a].st = "rejected"
      /\ act'[a].st = "writing" => act[a].st = "writing"
  <2>1. req'[a] \in [Rows -> Req]
    BY <1>2
  <2> QED BY <1>1, <1>2, <1>3, <2>1, OutcomeCases
<1>5. /\ column' \in [Rows -> Values(kind) \cup {NoValue}]
      /\ lastBy' \in [Rows -> Runs \cup {NoRun}]
      /\ \A q \in Rows \ {r} : column'[q] = column[q] /\ lastBy'[q] = lastBy[q]
      /\ \/ lastBy'[r] = a /\ column'[r] = Compute(kind, took[a][r])
         \/ lastBy'[r] = lastBy[r] /\ column'[r] = column[r] /\ st # "ok"
  <2>1. CASE Lands(a, r)
    <3>1. Compute(kind, took[a][r]) \in Values(kind)
      BY <1>1, <1>3, ComputeType
    <3> QED BY <1>1, <2>1, <3>1 DEF BoardTypeOK, Lands
  <2>2. CASE DoesNotLand /\ st # "ok"
    BY <1>1, <2>2 DEF BoardTypeOK, DoesNotLand
  <2> QED BY <2>1, <2>2
<1>6. BoardTypeOK'
  BY <1>1, <1>2, <1>5 DEF BoardTypeOK
<1>7. PagesRead(a)'
  BY <1>4 DEF PagesRead
<1>8. ScopeRead(a)'
  <2>1. Scope(a)' = Scope(a)
    BY <1>2 DEF Scope
  <2>2. act'[a].st \in {"writing", "answered"} => act[a].st \in {"writing", "answered"}
    BY <1>4
  <2> QED BY <1>1, <1>2, <1>4, <2>1, <2>2 DEF ScopeRead, HasRead
<1>9. MutationsSent(a)'
  <2>1. ToWrite(took'[a]) = ToWrite(took[a]) /\ r \in ToWrite(took[a])
    BY <1>3 DEF ToWrite, HasRead
  <2>2. \A q \in Rows : req'[a][q].st # "none" => q \in ToWrite(took'[a])
    BY <1>1, <1>2, <2>1 DEF MutationsSent
  <2>3. act'[a].st \in {"writing", "answered"} =>
            \A q \in ToWrite(took'[a]) : req'[a][q].st # "none"
    BY <1>1, <1>2, <1>4, <2>1 DEF MutationsSent, ToWrite
  <2>4. act'[a].st = "rejected" => \/ \E q \in Rows : req'[a][q].st = "threw"
                                   \/ \A q \in Rows : req'[a][q].st = "none"
    <3>1. ASSUME act[a].st = "rejected"
          PROVE  \E q \in Rows : req'[a][q].st = "threw"
      BY <1>1, <1>2, <3>1 DEF MutationsSent
    <3> QED BY <1>4, <3>1
  <2>5. act'[a].st = "answered" => \A q \in Rows : Settled(req'[a][q])
    BY <1>4
  <2> QED BY <2>2, <2>3, <2>4, <2>5 DEF MutationsSent, Settled
<1>10. \A q \in Rows : TriesLeft(a, q)'
  BY <1>2 DEF BoardInv, TriesLeft
<1>11. \A b \in Runs \ {a} : /\ PagesRead(b)' /\ ScopeRead(b)' /\ MutationsSent(b)'
                             /\ \A q \in Rows : TriesLeft(b, q)'
  BY <1>2, RunStays
<1>12. \A b \in Runs, q \in Rows : SnapshotOf(b, q)'
  BY DEF BoardInv, SnapshotOf, HasRead
<1>13. \A q \in Rows \ {r} : ColumnWritten(q)'
  BY <1>2, <1>5, ColumnStays
<1>14. ColumnWritten(r)'
  <2>1. CASE lastBy'[r] = a /\ column'[r] = Compute(kind, took[a][r])
    BY <1>3, <2>1, NoRowAssumption DEF ColumnWritten, HasRead
  <2>2. CASE lastBy'[r] = lastBy[r] /\ column'[r] = column[r] /\ st # "ok"
    BY <1>2, <2>2, ColumnStays
  <2> QED BY <1>5, <2>1, <2>2
<1> QED BY <1>6, <1>7, <1>8, <1>9, <1>10, <1>11, <1>12, <1>13, <1>14 DEF BoardInv

LEMMA FaultType ==
  ASSUME BoardTypeOK, Fault
  PROVE  faults' \in 0..MaxFaults
  BY NextTry, TriesAssumption DEF BoardTypeOK, Fault

LEMMA MutationStepInv ==
  ASSUME BoardInv, NEW a \in Runs, NEW r \in Rows, MutationStep(a, r)
  PROVE  BoardInv'
<1>1. /\ BoardTypeOK /\ kind \in Kinds /\ TriesLeft(a, r)
      /\ req[a][r].tries \in 0..Tries * Tries
      /\ faults \in 0..MaxFaults
  BY ReqFields DEF BoardInv, BoardTypeOK
<1>2. CASE MutationOk(a, r)
  <2>1. /\ req[a][r].st = "sent" /\ MutationTo(a, r, "ok", req[a][r].tries)
        /\ Lands(a, r) /\ faults' \in 0..MaxFaults
        /\ UNCHANGED <<kind, source, took, changes, outdated>>
    BY <1>1, <1>2 DEF MutationOk
  <2> QED BY <1>1, <2>1, MutationInv
<1>3. CASE MutationRefused(a, r)
  BY <1>1, <1>3, FaultType, MutationInv DEF MutationRefused
<1>4. CASE MutationHangsUp(a, r)
  <2> DEFINE st == IF req[a][r].tries < TriesOf(kind) THEN "backoff" ELSE "threw"
  <2>1. /\ st \in {"sent", "backoff", "ok", "refused", "threw"} /\ st # "ok"
        /\ st = "backoff" => req[a][r].tries < TriesOf(kind)
    OBVIOUS
  <2>2. /\ req[a][r].st = "sent" /\ MutationTo(a, r, st, req[a][r].tries)
        /\ Lands(a, r) \/ DoesNotLand
        /\ Fault /\ UNCHANGED <<kind, source, took, changes, outdated>>
    BY <1>4 DEF MutationHangsUp
  <2> HIDE DEF st
  <2> QED BY <1>1, <2>1, <2>2, FaultType, MutationInv
<1>5. CASE MutationThrows(a, r)
  BY <1>1, <1>5, FaultType, MutationInv DEF MutationThrows
<1>6. CASE RetryMutation(a, r)
  <2> DEFINE tries == req[a][r].tries + 1
  <2>1. req[a][r].st = "backoff" /\ req[a][r].tries < TriesOf(kind)
    BY <1>1, <1>6 DEF RetryMutation, TriesLeft
  <2>2. tries \in 0..Tries * Tries
    BY <1>1, <2>1, NextTry, TriesBound
  <2>3. /\ MutationTo(a, r, "sent", tries) /\ DoesNotLand
        /\ UNCHANGED <<kind, source, took, changes, faults, outdated>>
    BY <1>6 DEF RetryMutation
  <2> HIDE DEF tries
  <2> QED BY <1>1, <2>1, <2>2, <2>3, MutationInv
<1> QED BY <1>2, <1>3, <1>4, <1>5, <1>6 DEF MutationStep

LEMMA BoardNextInv ==
  ASSUME BoardInv, [BoardNext]_boardVars
  PROVE  BoardInv'
<1>1. CASE UNCHANGED boardVars
  <2>1. BoardTypeOK'
    BY <1>1 DEF BoardInv, BoardTypeOK, boardVars
  <2>2. \A a \in Runs : PagesRead(a)' /\ ScopeRead(a)' /\ MutationsSent(a)'
    BY <1>1, RunStays DEF boardVars
  <2>3. \A a \in Runs, r \in Rows : SnapshotOf(a, r)' /\ TriesLeft(a, r)'
    BY <1>1 DEF BoardInv, SnapshotOf, TriesLeft, HasRead, boardVars
  <2>4. \A r \in Rows : ColumnWritten(r)'
    BY <1>1, ColumnStays DEF boardVars
  <2> QED BY <2>1, <2>2, <2>3, <2>4 DEF BoardInv
<1>2. CASE \E r \in Rows, s \in Slots : \E f \in Fields(kind) : ChangeField(r, s, f)
  BY <1>2, ChangeFieldInv
<1>3. CASE \E a \in Runs : \E r \in Rows \cup {NoRow} : StartAction(a, r)
  BY <1>3, StartActionInv
<1>4. CASE \E a \in Runs : GiveUp(a)
  BY <1>4, GiveUpActionInv
<1>5. CASE \E a \in Runs : ReadPage(a)
  BY <1>5, ReadPageInv
<1>6. CASE \E a \in Runs : PageError(a)
  BY <1>6, PageErrorInv
<1>7. CASE \E a \in Runs : ReadThrows(a)
  BY <1>7, ReadThrowsInv
<1>8. CASE \E a \in Runs : \E r \in Rows : MutationStep(a, r)
  BY <1>8, MutationStepInv
<1> QED BY <1>1, <1>2, <1>3, <1>4, <1>5, <1>6, <1>7, <1>8 DEF BoardNext

(***************************************************************************)
(* The invariant holds in every behaviour.                                 *)
(***************************************************************************)
THEOREM BoardInvariant == BoardSpec => []BoardInv
<1>1. BoardInit => BoardInv
  BY BoardInitInv
<1>2. BoardInv /\ [BoardNext]_boardVars => BoardInv'
  BY BoardNextInv
<1> QED BY <1>1, <1>2, PTL DEF BoardSpec

(***************************************************************************)
(* Every variable of the board actions has its type.                       *)
(***************************************************************************)
THEOREM BoardTypes == BoardSpec => []BoardTypeOK
<1>1. BoardInv => BoardTypeOK
  BY DEF BoardInv
<1> QED BY <1>1, BoardInvariant, PTL

----------------------------------------------------------------------------
(* What the runs of an action leave on the board                           *)

LEMMA AnsweredIsCurrent == BoardInv => AnsweredRunLeavesRowsCurrent
<1> SUFFICES ASSUME BoardInv,
                    NEW a \in Runs, act[a].st = "answered", ~act[a].cut,
                    NEW r \in Scope(a),
                    a \notin outdated[r], Present(source[r]) # {},
                    req[a][r].st \notin {"refused", "threw"}, lastBy[r] \notin outdated[r]
             PROVE  column[r] = Denoted(kind, source[r])
  BY DEF AnsweredRunLeavesRowsCurrent
<1>1. /\ BoardTypeOK /\ kind \in Kinds /\ ScopeRead(a) /\ MutationsSent(a)
  BY DEF BoardInv, BoardTypeOK
<1>2. r \in Rows /\ HasRead(a, r)
  BY <1>1 DEF ScopeRead
<1>3. SnapshotOf(a, r) /\ ColumnWritten(r)
  BY <1>2 DEF BoardInv
<1>4. r \in ToWrite(took[a])
  BY <1>2, <1>3 DEF SnapshotOf, HasRead, ToWrite
<1>5. req[a][r].st = "ok"
  BY <1>1, <1>2, <1>4 DEF MutationsSent, Settled
<1>6. lastBy[r] \in Runs
  BY <1>1, <1>2, <1>3, <1>5 DEF ColumnWritten, BoardTypeOK
<1>7. took[lastBy[r]][r] = source[r] /\ column[r] = Compute(kind, took[lastBy[r]][r])
  <2>1. SnapshotOf(lastBy[r], r) /\ lastBy[r] # NoRun
    BY <1>2, <1>6, NoRowAssumption DEF BoardInv
  <2> QED BY <1>3, <2>1 DEF SnapshotOf, HasRead, ColumnWritten
<1>8. source[r] \in Contents(kind)
  BY <1>1, <1>2 DEF BoardTypeOK
<1> QED BY <1>1, <1>7, <1>8, ComputeIsDenoted

(***************************************************************************)
(* A run that was answered and met no error leaves its rows with the value *)
(* of what they hold, but for the four exceptions of the property.         *)
(***************************************************************************)
THEOREM AnsweredCurrent == BoardSpec => []AnsweredRunLeavesRowsCurrent
  BY AnsweredIsCurrent, BoardInvariant, PTL

(***************************************************************************)
(* Only a mutation changes a column.                                       *)
(***************************************************************************)
LEMMA OnlyMutationsWrite ==
  ASSUME [BoardNext]_boardVars, NEW r \in Rows,
         lastBy'[r] # lastBy[r] \/ column'[r] # column[r]
  PROVE  \E a \in Runs, q \in Rows : Lands(a, q) /\ req[a][q].st = "sent"
<1>1. ~UNCHANGED <<column, lastBy>>
  OBVIOUS
<1>2. PICK a \in Runs, q \in Rows : MutationStep(a, q)
  BY <1>1 DEF BoardNext, boardVars, ChangeField, StartAction, GiveUp, ReadPage, PageError,
              ReadThrows
<1> QED BY <1>1, <1>2 DEF MutationStep, MutationOk, MutationRefused, MutationHangsUp,
                          MutationThrows, RetryMutation, DoesNotLand

LEMMA WriterUnderWay ==
  ASSUME BoardInv, [BoardNext]_boardVars, NEW r \in Rows,
         lastBy'[r] # lastBy[r] \/ column'[r] # column[r]
  PROVE  LET a == lastBy'[r]
         IN  \/ act[a].st = "writing"
             \/ act[a].st = "rejected" /\ \E q \in Rows \ {r} : req[a][q].st = "threw"
<1>1. PICK a \in Runs, q \in Rows : Lands(a, q) /\ req[a][q].st = "sent"
  BY OnlyMutationsWrite
<1>2. q = r /\ lastBy'[r] = a
  BY <1>1 DEF Lands, BoardInv, BoardTypeOK
<1>3. act[a].st \in {"writing", "rejected"} /\ MutationsSent(a)
  BY <1>1, UnderWay DEF BoardInv
<1>4. act[a].st = "rejected" => \E p \in Rows \ {r} : req[a][p].st = "threw"
  BY <1>1, <1>2, <1>3 DEF MutationsSent
<1> QED BY <1>2, <1>3, <1>4

(***************************************************************************)
(* A run that was answered changes no column any more, and a rejected one  *)
(* only next to a mutation that threw.                                     *)
(***************************************************************************)
THEOREM NothingWrittenAfterAnswer == BoardSpec => NoMutationAfterAnswer
<1>1. BoardInv /\ [BoardNext]_boardVars =>
          [\A r \in Rows : lastBy'[r] # lastBy[r] \/ column'[r] # column[r] =>
              LET a == lastBy'[r]
              IN  \/ act[a].st = "writing"
                  \/ act[a].st = "rejected"
                     /\ \E q \in Rows \ {r} : req[a][q].st = "threw"]_boardVars
  BY WriterUnderWay
<1> QED BY <1>1, BoardInvariant, PTL DEF BoardSpec, NoMutationAfterAnswer

----------------------------------------------------------------------------
(* Each row implements DerivedColumn                                       *)

JobIdle == [st |-> "idle", snap |-> NoValue]
JobHolding(c) == [st |-> "holding", snap |-> [kind |-> kind, fields |-> c]]
JobEnded == [st |-> "ended", snap |-> NoValue]

(***************************************************************************)
(* The jobs of a row after a step that sets that of run a to j.            *)
(***************************************************************************)
JobSet(a, r, j) == \A b \in Runs : JobOf(b, r)' = IF b = a THEN j ELSE JobOf(b, r)

LEMMA JobCases ==
  ASSUME NEW a \in Runs, NEW r \in Rows
  PROVE  /\ ~HasRead(a, r) => JobOf(a, r) = JobIdle
         /\ HasRead(a, r) /\ (act[a].st = "reading" \/ ~Settled(req[a][r])) =>
               JobOf(a, r) = JobHolding(took[a][r])
         /\ HasRead(a, r) /\ act[a].st # "reading" /\ Settled(req[a][r]) => JobOf(a, r) = JobEnded
  BY DEF JobOf, HasRead, JobIdle, JobHolding, JobEnded

LEMMA RowStutters ==
  ASSUME NEW r \in Rows, kind' = kind, source'[r] = source[r], column'[r] = column[r],
         \A b \in Runs : JobOf(b, r)' = JobOf(b, r)
  PROVE  [Row(r)!DCNext]_(Row(r)!dcVars)
<1>1. [a \in Runs |-> JobOf(a, r)]' = [a \in Runs |-> JobOf(a, r)]
  OBVIOUS
<1>2. UNCHANGED Row(r)!dcVars
  BY <1>1 DEF Row!dcVars
<1> QED BY <1>2

LEMMA RowChanges ==
  ASSUME NEW r \in Rows, kind' = kind, kind \in Kinds, source'[r] \in Contents(kind),
         column'[r] = column[r], \A b \in Runs : JobOf(b, r)' = JobOf(b, r)
  PROVE  Row(r)!DCNext
<1>1. [a \in Runs |-> JobOf(a, r)]' = [a \in Runs |-> JobOf(a, r)]
  OBVIOUS
<1>2. [kind |-> kind, fields |-> source[r]]' \in AllContents
  BY DEF AllContents
<1>3. Row(r)!Change
  BY <1>1, <1>2 DEF Row!Change
<1> QED BY <1>3 DEF Row!DCNext

LEMMA JobsSet ==
  ASSUME NEW r \in Rows, NEW a \in Runs, NEW j, JobSet(a, r, j)
  PROVE  [b \in Runs |-> JobOf(b, r)]' = [[b \in Runs |-> JobOf(b, r)] EXCEPT ![a] = j]
  BY DEF JobSet

LEMMA RowTakes ==
  ASSUME NEW r \in Rows, NEW a \in Runs, kind' = kind, source'[r] = source[r],
         column'[r] = column[r], JobOf(a, r) = JobIdle, JobSet(a, r, JobHolding(source[r]))
  PROVE  Row(r)!DCNext
<1>1. [b \in Runs |-> JobOf(b, r)]'
         = [[b \in Runs |-> JobOf(b, r)] EXCEPT ![a] = JobHolding(source[r])]
  BY JobsSet
<1>2. [b \in Runs |-> JobOf(b, r)][a].st = "idle"
  BY DEF JobIdle
<1>3. Row(r)!Take(a)
  BY <1>1, <1>2 DEF Row!Take, Row!SetJob, JobHolding
<1> QED BY <1>3 DEF Row!DCNext

LEMMA RowEnds ==
  ASSUME NEW r \in Rows, NEW a \in Runs, kind' = kind, source'[r] = source[r],
         column'[r] = column[r], JobOf(a, r).st # "ended", JobSet(a, r, JobEnded)
  PROVE  Row(r)!DCNext
<1>1. [b \in Runs |-> JobOf(b, r)]' = [[b \in Runs |-> JobOf(b, r)] EXCEPT ![a] = JobEnded]
  BY JobsSet
<1>2. [b \in Runs |-> JobOf(b, r)][a].st # "ended"
  OBVIOUS
<1>3. Row(r)!End(a)
  BY <1>1, <1>2 DEF Row!End, Row!SetJob, JobEnded
<1> QED BY <1>3 DEF Row!DCNext

(***************************************************************************)
(* The value put is the one that the snapshot stands for.                  *)
(***************************************************************************)
LEMMA RowPuts ==
  ASSUME NEW r \in Rows, NEW a \in Runs, kind \in Kinds, NEW c \in Contents(kind),
         kind' = kind, source'[r] = source[r],
         column'[r] = Denoted(kind, c), JobOf(a, r) = JobHolding(c),
         \/ \A b \in Runs : JobOf(b, r)' = JobOf(b, r)
         \/ JobSet(a, r, JobEnded)
  PROVE  Row(r)!DCNext
<1> DEFINE job == [b \in Runs |-> JobOf(b, r)]
           D == [s \in AllContents |-> Denoted(s.kind, s.fields)]
           snap == [kind |-> kind, fields |-> c]
<1>1. job[a].st = "holding" /\ job[a].snap = snap
  BY DEF JobHolding
<1>2. snap \in AllContents /\ D[snap] = Denoted(kind, c)
  BY DEF AllContents
<1>3. column'[r] = D[job[a].snap]
  BY <1>1, <1>2
<1>4. job' = job \/ job' = [job EXCEPT ![a] = JobEnded]
  BY JobsSet
<1>5. Row(r)!Put(a)
  BY <1>1, <1>3, <1>4 DEF Row!Put, Row!SetJob, JobEnded
<1> QED BY <1>5 DEF Row!DCNext

(***************************************************************************)
(* What happens to the rows while a run only moves on or sends what it has *)
(* to write: a job takes its snapshot, keeps it, or ends.                  *)
(***************************************************************************)
LEMMA MovesOn ==
  ASSUME BoardInv, NEW a \in Runs, NEW r \in Rows,
         UNCHANGED <<kind, source, column>>,
         \A b \in Runs \ {a} : act'[b] = act[b] /\ took'[b] = took[b] /\ req'[b] = req[b],
         act[a].st \in {"idle", "reading"},
         HasRead(a, r) => took'[a][r] = took[a][r],
         HasRead(a, r) \/ took'[a][r] \in {Unread, source[r]},
         act[a].st = "idle" => took'[a][r] = took[a][r]
  PROVE  [Row(r)!DCNext]_(Row(r)!dcVars)
<1>1. BoardTypeOK /\ PagesRead(a)
  BY DEF BoardInv
<1>2. ASSUME NEW b \in Runs \ {a}
      PROVE  JobOf(b, r)' = JobOf(b, r)
  BY DEF JobOf, Settled
<1>3. HasRead(a, r) => act[a].st = "reading"
  BY <1>1, PagesAssumption DEF PagesRead
<1>4. CASE JobOf(a, r)' = JobOf(a, r)
  <2>1. \A b \in Runs : JobOf(b, r)' = JobOf(b, r)
    BY <1>2, <1>4
  <2> QED BY <2>1, RowStutters
<1>5. JobOf(a, r)' \in {JobIdle, JobHolding(took'[a][r]), JobEnded}
  BY DEF JobOf, JobIdle, JobHolding, JobEnded
<1>6. CASE JobOf(a, r)' = JobEnded
  <2>1. JobSet(a, r, JobEnded)
    BY <1>2, <1>6 DEF JobSet
  <2>2. JobOf(a, r).st # "ended"
    BY <1>3, JobCases DEF JobIdle, JobHolding
  <2> QED BY <2>1, <2>2, RowEnds
<1>7. CASE JobOf(a, r)' = JobHolding(took'[a][r])
  <2>1. took'[a][r] # Unread
    BY <1>7 DEF JobOf, JobHolding
  <2>2. CASE HasRead(a, r)
    <3>1. JobOf(a, r) = JobHolding(took[a][r])
      BY <1>3, <2>2, JobCases
    <3> QED BY <1>4, <1>7, <2>2, <3>1
  <2>3. CASE ~HasRead(a, r)
    <3>1. JobOf(a, r) = JobIdle /\ took'[a][r] = source[r]
      BY <2>1, <2>3, JobCases
    <3>2. JobSet(a, r, JobHolding(source[r]))
      BY <1>2, <1>7, <3>1 DEF JobSet
    <3> QED BY <3>1, <3>2, RowTakes
  <2> QED BY <2>2, <2>3
<1>8. CASE JobOf(a, r)' = JobIdle
  <2>1. took'[a][r] = Unread
    BY <1>8 DEF JobOf, JobIdle
  <2>2. ~HasRead(a, r)
    BY <2>1 DEF HasRead
  <2> QED BY <1>4, <1>8, <2>2, JobCases
<1> QED BY <1>5, <1>6, <1>7, <1>8

(***************************************************************************)
(* A mutation that lands puts the value of the snapshot; the job ends when *)
(* the mutation has settled, and keeps the snapshot for the next attempt.  *)
(***************************************************************************)
LEMMA MutationOfRow ==
  ASSUME BoardInv, NEW a \in Runs, NEW q \in Rows, NEW r \in Rows,
         req[a][q].st \in {"sent", "backoff"},
         NEW st \in {"sent", "backoff", "ok", "refused", "threw"},
         NEW tries \in 0..Tries * Tries,
         MutationTo(a, q, st, tries),
         Lands(a, q) \/ DoesNotLand,
         UNCHANGED <<kind, source, took>>
  PROVE  [Row(r)!DCNext]_(Row(r)!dcVars)
<1>1. BoardTypeOK /\ kind \in Kinds
  BY DEF BoardInv, BoardTypeOK
<1>2. /\ act[a].st \in {"writing", "rejected"}
      /\ HasRead(a, q) /\ took[a][q] \in Contents(kind) /\ Present(took[a][q]) # {}
  BY UnderWay
<1>3. /\ req'[a][q].st = st
      /\ \A p \in Rows \ {q} : req'[a][p] = req[a][p]
      /\ \A b \in Runs \ {a} : act'[b] = act[b] /\ req'[b] = req[b]
      /\ act'[a].st = IF act[a].st = "writing" THEN Outcome(kind, req'[a]) ELSE act[a].st
      /\ req'[a] \in [Rows -> Req]
  BY <1>1, MutationEffect
<1>4. act'[a].st # "reading" /\ act[a].st # "reading"
  BY <1>1, <1>2, <1>3, OutcomeCases
<1>5. ASSUME NEW b \in Runs, NEW p \in Rows, b # a \/ p # q
      PROVE  JobOf(b, p)' = JobOf(b, p)
  <2>1. CASE b # a
    BY <1>3, <2>1 DEF JobOf, Settled
  <2>2. CASE b = a /\ p # q
    BY <1>3, <1>4, <2>2 DEF JobOf, Settled
  <2> QED BY <1>5, <2>1, <2>2
<1>6. CASE r # q
  <2>1. column'[r] = column[r]
    BY <1>1, <1>6 DEF Lands, DoesNotLand, BoardTypeOK
  <2>2. \A b \in Runs : JobOf(b, r)' = JobOf(b, r)
    BY <1>5, <1>6
  <2> QED BY <2>1, <2>2, RowStutters
<1>7. CASE r = q
  <2>1. JobOf(a, q) = JobHolding(took[a][q])
    BY <1>2, JobCases DEF Settled
  <2>2. st \in {"sent", "backoff"} => \A b \in Runs : JobOf(b, q)' = JobOf(b, q)
    <3>1. st \in {"sent", "backoff"} => JobOf(a, q)' = JobHolding(took[a][q])
      BY <1>2, <1>3 DEF JobOf, JobHolding, Settled, HasRead
    <3> QED BY <1>5, <2>1, <3>1
  <2>3. st \notin {"sent", "backoff"} => JobSet(a, q, JobEnded)
    <3>1. st \notin {"sent", "backoff"} => JobOf(a, q)' = JobEnded
      BY <1>2, <1>3, <1>4 DEF JobOf, JobEnded, Settled, HasRead
    <3> QED BY <1>5, <3>1 DEF JobSet
  <2>4. CASE Lands(a, q)
    <3>1. column'[q] = Denoted(kind, took[a][q])
      BY <1>1, <1>2, <2>4, ComputeIsDenoted DEF Lands, BoardTypeOK
    <3> QED BY <1>1, <1>2, <1>7, <2>1, <2>2, <2>3, <3>1, RowPuts
  <2>5. CASE DoesNotLand
    <3>1. column'[q] = column[q] /\ JobOf(a, q).st # "ended"
      BY <2>1, <2>5 DEF DoesNotLand, JobHolding
    <3> QED BY <1>7, <2>2, <2>3, <3>1, RowStutters, RowEnds
  <2> QED BY <2>4, <2>5
<1> QED BY <1>6, <1>7

LEMMA MutationStepOfRow ==
  ASSUME BoardInv, NEW a \in Runs, NEW q \in Rows, NEW r \in Rows, MutationStep(a, q)
  PROVE  [Row(r)!DCNext]_(Row(r)!dcVars)
<1>1. /\ BoardTypeOK /\ kind \in Kinds /\ TriesLeft(a, q)
      /\ req[a][q].tries \in 0..Tries * Tries
  BY ReqFields DEF BoardInv, BoardTypeOK
<1>2. PICK st \in {"sent", "backoff", "ok", "refused", "threw"}, tries \in 0..Tries * Tries :
          MutationTo(a, q, st, tries)
  <2>1. CASE MutationOk(a, q)
    BY <1>1, <2>1 DEF MutationOk
  <2>2. CASE MutationRefused(a, q)
    BY <1>1, <2>2 DEF MutationRefused
  <2>3. CASE MutationHangsUp(a, q)
    <3>1. MutationTo(a, q, "backoff", req[a][q].tries) \/ MutationTo(a, q, "threw", req[a][q].tries)
      BY <2>3 DEF MutationHangsUp
    <3> QED BY <1>1, <3>1
  <2>4. CASE MutationThrows(a, q)
    BY <1>1, <2>4 DEF MutationThrows
  <2>5. CASE RetryMutation(a, q)
    <3>1. req[a][q].tries < TriesOf(kind) /\ MutationTo(a, q, "sent", req[a][q].tries + 1)
      BY <1>1, <2>5 DEF RetryMutation, TriesLeft
    <3>2. req[a][q].tries + 1 \in 0..Tries * Tries
      BY <1>1, <3>1, NextTry, TriesBound
    <3> QED BY <3>1, <3>2
  <2> QED BY <2>1, <2>2, <2>3, <2>4, <2>5 DEF MutationStep
<1>3. /\ req[a][q].st \in {"sent", "backoff"}
      /\ Lands(a, q) \/ DoesNotLand
      /\ UNCHANGED <<kind, source, took>>
  BY DEF MutationStep, MutationOk, MutationRefused, MutationHangsUp, MutationThrows,
         RetryMutation
<1> QED BY <1>2, <1>3, MutationOfRow

LEMMA ChangeFieldOfRow ==
  ASSUME BoardInv, NEW q \in Rows, NEW s \in Slots, NEW f \in Fields(kind),
         ChangeField(q, s, f), NEW r \in Rows
  PROVE  [Row(r)!DCNext]_(Row(r)!dcVars)
<1>1. BoardTypeOK'
  BY ChangeFieldInv DEF BoardInv
<1>2. /\ UNCHANGED <<kind, column, act, took, req>>
      /\ kind \in Kinds /\ source'[r] \in Contents(kind)
  BY <1>1 DEF ChangeField, BoardInv, BoardTypeOK
<1>3. \A b \in Runs : JobOf(b, r)' = JobOf(b, r)
  BY <1>2 DEF JobOf, Settled
<1> QED BY <1>2, <1>3, RowChanges

LEMMA MovesOnOfRow ==
  ASSUME BoardInv, NEW a \in Runs, NEW r \in Rows,
         \/ \E q \in Rows \cup {NoRow} : StartAction(a, q)
         \/ GiveUp(a) \/ ReadPage(a) \/ PageError(a) \/ ReadThrows(a)
  PROVE  [Row(r)!DCNext]_(Row(r)!dcVars)
<1>1. BoardTypeOK /\ UNCHANGED <<kind, source, column>>
  BY DEF BoardInv, StartAction, GiveUp, ReadPage, PageError, ReadThrows
<1>2. \A b \in Runs \ {a} : act'[b] = act[b] /\ req'[b] = req[b]
  BY <1>1 DEF BoardTypeOK, StartAction, GiveUp, ReadPage, PageError, ReadThrows, SetAct,
              SendMutations
<1>3. CASE ReadPage(a)
  <2>1. took' = [took EXCEPT ![a] = Snapshots(a)] /\ act[a].st = "reading"
    BY <1>3 DEF ReadPage, Snapshots
  <2>2. /\ took'[a] = Snapshots(a)
        /\ \A b \in Runs \ {a} : took'[b] = took[b]
    BY <1>1, <2>1 DEF BoardTypeOK
  <2>3. /\ HasRead(a, r) => took'[a][r] = took[a][r]
        /\ HasRead(a, r) \/ took'[a][r] \in {Unread, source[r]}
    BY <2>1, <2>2, NextPage DEF HasRead
  <2> QED BY <1>1, <1>2, <2>1, <2>2, <2>3, MovesOn
<1>4. CASE ~ReadPage(a)
  <2>1. took' = took /\ act[a].st \in {"idle", "reading"}
    BY <1>4 DEF StartAction, GiveUp, PageError, ReadThrows
  <2>2. HasRead(a, r) \/ took'[a][r] \in {Unread, source[r]}
    BY <2>1 DEF HasRead
  <2> QED BY <1>1, <1>2, <2>1, <2>2, MovesOn
<1> QED BY <1>3, <1>4

LEMMA BoardNextOfRow ==
  ASSUME BoardInv, BoardNext, NEW r \in Rows
  PROVE  [Row(r)!DCNext]_(Row(r)!dcVars)
<1>1. CASE \E q \in Rows, s \in Slots : \E f \in Fields(kind) : ChangeField(q, s, f)
  BY <1>1, ChangeFieldOfRow
<1>2. CASE \E a \in Runs : \/ \E q \in Rows \cup {NoRow} : StartAction(a, q)
                           \/ GiveUp(a) \/ ReadPage(a) \/ PageError(a) \/ ReadThrows(a)
  BY <1>2, MovesOnOfRow
<1>3. CASE \E a \in Runs : \E q \in Rows : MutationStep(a, q)
  BY <1>3, MutationStepOfRow
<1> QED BY <1>1, <1>2, <1>3 DEF BoardNext

LEMMA InitOfRow ==
  ASSUME BoardInit, NEW r \in Rows
  PROVE  Row(r)!DCInit
<1>1. kind \in Kinds /\ source[r] \in Contents(kind) /\ column[r] = NoValue
  BY DEF BoardInit
<1>2. [kind |-> kind, fields |-> source[r]] \in AllContents
  BY <1>1 DEF AllContents
<1>3. \A a \in Runs : JobOf(a, r) = [st |-> "idle", snap |-> NoValue]
  BY DEF BoardInit, JobOf
<1> QED BY <1>1, <1>2, <1>3 DEF Row!DCInit

(***************************************************************************)
(* Each row of the board implements DerivedColumn, whatever the            *)
(* interleaving of the runs and of the users' changes.                     *)
(***************************************************************************)
THEOREM RowsRefine == BoardSpec => RowsImplementDerivedColumn
<1>1. BoardInit => \A r \in Rows : Row(r)!DCInit
  BY InitOfRow
<1>2. BoardInv /\ [BoardNext]_boardVars =>
          [\A r \in Rows : [Row(r)!DCNext]_(Row(r)!dcVars)]_boardVars
  BY BoardNextOfRow
<1> QED BY <1>1, <1>2, BoardInvariant, PTL DEF BoardSpec, RowsImplementDerivedColumn
=============================================================================
