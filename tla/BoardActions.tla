---------------------------- MODULE BoardActions ----------------------------
(***************************************************************************)
(* The actions that fill a column of a Monday board from other columns:    *)
(*   "ratio" SetRatioAndStatusService: how many subitems of the parent of  *)
(*           the triggering subitem are finished, and a status label;      *)
(*   "total" UpdateTotalTimeService: the minutes of the subitems of every  *)
(*           item, in the morning and in the evening;                      *)
(*   "copy"  CopyRelationColumnToNameService: the text of a column of      *)
(*           every item, as its name.                                      *)
(* Each reads rows (a page at a time), computes, and sends one mutation    *)
(* per row through updateItemColumns and its retry loop.  Users change the *)
(* board meanwhile, and several runs of an action overlap.                 *)
(*                                                                         *)
(* A mutation that takes effect does so before its answer or its hang-up   *)
(* is seen.  The rows to copy fit one batch of runBatch: BatchRun has the  *)
(* sequence of batches.  A read that hangs up is retried and leaves no     *)
(* trace; the rows of one page are read together.                          *)
(***************************************************************************)
EXTENDS Naturals, FiniteSets

CONSTANTS Rows,       \* the rows that have the derived column
          Slots,      \* the subitems of a row (the relation column, to copy)
          CopySlot,   \* the slot that stands for the relation column
          PageOf,     \* the page of the board on which each row is
          Pages,      \* number of pages of the board
          Runs,       \* calls of the endpoint
          Tries,      \* attempts of retryMondayApi
          MaxChanges, \* bound on the changes made by users
          MaxFaults,  \* bound on the mutations that fail
          NoRow, NoRun, NoValue

ASSUME PagesAssumption == Pages \in Nat \ {0} /\ PageOf \in [Rows -> 1..Pages]
ASSUME TriesAssumption == Tries \in Nat \ {0} /\ MaxChanges \in Nat /\ MaxFaults \in Nat
ASSUME SlotsAssumption == IsFiniteSet(Slots) /\ CopySlot \in Slots
ASSUME NoRowAssumption == NoRow \notin Rows /\ NoRun \notin Runs

VARIABLES kind,       \* which of the three actions
          source,     \* Monday (external): the fields each row is derived from
          column,     \* Monday (external): the derived column of each row
          act,        \* the runs: control state, row, pages read, page error
          took,       \* what each run has read of each row
          req,        \* the mutation of each run for each row
          changes,    \* number of changes made by users
          faults,     \* number of mutations that failed
          outdated,   \* history: runs that read a row before its last change
          lastBy      \* history: the run whose mutation of a row landed last

boardVars == <<kind, source, column, act, took, req, changes, faults, outdated, lastBy>>

Kinds == {"ratio", "total", "copy"}

(***************************************************************************)
(* The fields of a slot.  An absent one is a subitem that does not exist   *)
(* or has no such column, or an empty relation column; "neither" is a time *)
(* that is neither morning nor evening, or minutes that are no number.     *)
(* Each subitem counts for one minute.                                     *)
(***************************************************************************)
Fields(k) == CASE k = "ratio" -> {"absent", "open", "finished"}
               [] k = "total" -> {"absent", "morning", "evening", "neither"}
               [] k = "copy"  -> {"absent", "x", "y"}

Contents(k) == {c \in [Slots -> Fields(k)] :
                   k = "copy" => \A s \in Slots \ {CopySlot} : c[s] = "absent"}

Unread == [s \in Slots |-> "unread"]

Labels == {"NOT_FINISH_ANYTHING", "NOT_FINISH_ALL", "DONE"}
Count == 0..Cardinality(Slots)
Values(k) == CASE k = "ratio" -> [finish : Count, total : Count, label : Labels]
               [] k = "total" -> [morning : Count, evening : Count]
               [] k = "copy"  -> {"x", "y"}

Act == [st : {"idle", "reading", "writing", "answered", "rejected"},
        row : Rows \cup {NoRow}, page : 0..Pages, cut : BOOLEAN]
Req == [st : {"none", "sent", "backoff", "ok", "refused", "threw"}, tries : 0..Tries * Tries]

BoardTypeOK == /\ kind \in Kinds
               /\ source \in [Rows -> Contents(kind)]
               /\ column \in [Rows -> Values(kind) \cup {NoValue}]
               /\ act \in [Runs -> Act]
               /\ took \in [Runs -> [Rows -> Contents(kind) \cup {Unread}]]
               /\ req \in [Runs -> [Rows -> Req]]
               /\ changes \in 0..MaxChanges
               /\ faults \in 0..MaxFaults
               /\ outdated \in [Rows -> SUBSET Runs]
               /\ lastBy \in [Rows -> Runs \cup {NoRun}]

(***************************************************************************)
(* The rows of the board start alike, and so do the slots of a row.        *)
(***************************************************************************)
BoardInit == /\ kind \in Kinds
             /\ \E c \in Contents(kind) :
                   /\ \A s, t \in Slots : kind # "copy" => c[s] = c[t]
                   /\ source = [r \in Rows |-> c]
             /\ column = [r \in Rows |-> NoValue]
             /\ act = [a \in Runs |-> [st |-> "idle", row |-> NoRow, page |-> 0, cut |-> FALSE]]
             /\ took = [a \in Runs |-> [r \in Rows |-> Unread]]
             /\ req = [a \in Runs |-> [r \in Rows |-> [st |-> "none", tries |-> 0]]]
             /\ changes = 0
             /\ faults = 0
             /\ outdated = [r \in Rows |-> {}]
             /\ lastBy = [r \in Rows |-> NoRun]

----------------------------------------------------------------------------
(* What the services compute from the fields of a row                      *)

HavingField(c, f) == {s \in Slots : c[s] = f}

Present(c) == {s \in Slots : c[s] # "absent"}

(***************************************************************************)
(* Mutant of LabelOf: a subitem without the column counts as unfinished.   *)
(***************************************************************************)
LabelOfAllSlots(finish, total) ==
    CASE finish = 0 -> "NOT_FINISH_ANYTHING"
      [] finish = Cardinality(Slots) -> "DONE"
      [] OTHER -> "NOT_FINISH_ALL"

LabelOf(finish, total) ==
    CASE finish = 0 -> "NOT_FINISH_ANYTHING"
      [] finish # 0 /\ finish = total -> "DONE"
      [] OTHER -> "NOT_FINISH_ALL"

(***************************************************************************)
(* The columns of one mutation: ratio and label, both totals, or the name. *)
(***************************************************************************)
Compute(k, c) ==
    CASE k = "ratio" ->
           LET finish == Cardinality(HavingField(c, "finished"))
               total == Cardinality(Present(c))
           IN  [finish |-> finish, total |-> total, label |-> LabelOf(finish, total)]
      [] k = "total" -> [morning |-> Cardinality(HavingField(c, "morning")),
                         evening |-> Cardinality(HavingField(c, "evening"))]
      [] k = "copy" -> c[CopySlot]

(***************************************************************************)
(* Rows that were read and have something to derive from.                  *)
(***************************************************************************)
ToWrite(tk) == {r \in Rows : tk[r] # Unread /\ Present(tk[r]) # {}}

----------------------------------------------------------------------------
(***************************************************************************)
(* A user changes a field.                                                 *)
(***************************************************************************)
ChangeField(r, s, f) ==
    /\ changes < MaxChanges
    /\ f \in Fields(kind) \ {source[r][s]}
    /\ kind = "copy" => s = CopySlot
    /\ source' = [source EXCEPT ![r] = [t \in Slots |-> IF t = s THEN f ELSE source[r][t]]]
    /\ changes' = changes + 1
    /\ outdated' = [outdated EXCEPT ![r] = {a \in Runs : took[a][r] # Unread}]
    /\ UNCHANGED <<kind, column, act, took, req, faults, lastBy>>

SetAct(a, st, row, page, cut) ==
    act' = [act EXCEPT ![a] = [st |-> st, row |-> row, page |-> page, cut |-> cut]]

(***************************************************************************)
(* The endpoint is called; "ratio" finds the parent of the subitem.        *)
(***************************************************************************)
StartAction(a, r) ==
    /\ act[a].st = "idle"
    /\ r \in (IF kind = "ratio" THEN Rows ELSE {NoRow})
    /\ SetAct(a, "reading", r, 0, FALSE)
    /\ UNCHANGED <<kind, source, column, took, req, changes, faults, outdated, lastBy>>

(***************************************************************************)
(* No session, no input field, no access token, no parent item: execute    *)
(* returns.                                                                *)
(***************************************************************************)
GiveUp(a) ==
    /\ act[a].st = "idle"
    /\ SetAct(a, "answered", NoRow, 0, TRUE)
    /\ UNCHANGED <<kind, source, column, took, req, changes, faults, outdated, lastBy>>

InNextPage(a, r) == IF kind = "ratio" THEN r = act[a].row
                    ELSE PageOf[r] = act[a].page + 1

(***************************************************************************)
(* Mutant of LastRead: the cursor of the last page is not followed.        *)
(***************************************************************************)
LastReadTooEarly(a) == kind = "ratio" \/ act[a].page + 2 >= Pages

(***************************************************************************)
(* The answer has no cursor.                                               *)
(***************************************************************************)
LastRead(a) == kind = "ratio" \/ act[a].page + 1 = Pages

(***************************************************************************)
(* The loop over the pages is left: every mutation is sent at once, or     *)
(* execute returns when there is nothing to write.                         *)
(***************************************************************************)
SendMutations(a, tk, page, cut) ==
    /\ req' = [req EXCEPT ![a] = [r \in Rows |-> IF r \in ToWrite(tk)
                                  THEN [st |-> "sent", tries |-> 1] ELSE req[a][r]]]
    /\ SetAct(a, IF ToWrite(tk) = {} THEN "answered" ELSE "writing", act[a].row, page, cut)

ReadPage(a) ==
    LET tk == [r \in Rows |-> IF InNextPage(a, r) THEN source[r] ELSE took[a][r]]
        page == act[a].page + 1
    IN  /\ act[a].st = "reading"
        /\ took' = [took EXCEPT ![a] = tk]
        /\ IF LastRead(a) THEN SendMutations(a, tk, page, FALSE)
           ELSE SetAct(a, "reading", act[a].row, page, FALSE) /\ UNCHANGED req
        /\ UNCHANGED <<kind, source, column, changes, faults, outdated, lastBy>>

(***************************************************************************)
(* An answer with errors reads as an empty last page.                      *)
(***************************************************************************)
PageError(a) ==
    /\ act[a].st = "reading"
    /\ SendMutations(a, took[a], act[a].page, TRUE)
    /\ UNCHANGED <<kind, source, column, took, changes, faults, outdated, lastBy>>

(***************************************************************************)
(* The last attempt of a read hangs up, or it rejects with another error.  *)
(***************************************************************************)
ReadThrows(a) ==
    /\ act[a].st = "reading"
    /\ SetAct(a, "rejected", act[a].row, act[a].page, TRUE)
    /\ UNCHANGED <<kind, source, column, took, req, changes, faults, outdated, lastBy>>

----------------------------------------------------------------------------
(***************************************************************************)
(* Monday (external) carries the mutation out.                             *)
(***************************************************************************)
Lands(a, r) ==
    /\ column' = [column EXCEPT ![r] = Compute(kind, took[a][r])]
    /\ lastBy' = [lastBy EXCEPT ![r] = a]

DoesNotLand == UNCHANGED <<column, lastBy>>

(***************************************************************************)
(* runBatch nests its retries around those of updateItemColumns.           *)
(***************************************************************************)
TriesOf(k) == IF k = "copy" THEN Tries * Tries ELSE Tries

Settled(q) == q.st \in {"none", "ok", "refused", "threw"}

(***************************************************************************)
(* Mutant of Outcome: the first answer is taken for all of them.           *)
(***************************************************************************)
OutcomeOfFirst(k, qs) == IF \E r \in Rows : qs[r].st \in {"ok", "refused", "threw"}
                         THEN "answered" ELSE "writing"

(***************************************************************************)
(* Promise.all rejects with the first mutation that throws; runBatch waits *)
(* for all of them and never rejects.                                      *)
(***************************************************************************)
Outcome(k, qs) ==
    CASE k # "copy" /\ (\E r \in Rows : qs[r].st = "threw") -> "rejected"
      [] (k = "copy" \/ \A r \in Rows : qs[r].st # "threw")
         /\ (\A r \in Rows : Settled(qs[r])) -> "answered"
      [] OTHER -> "writing"

(***************************************************************************)
(* The mutation of row r gets to state st; execute ends if that was all it *)
(* awaited.  What is under way after a rejection goes on.                  *)
(***************************************************************************)
MutationTo(a, r, st, tries) ==
    LET qs == [q \in Rows |-> IF q = r THEN [st |-> st, tries |-> tries] ELSE req[a][q]]
    IN  /\ req' = [req EXCEPT ![a] = qs]
        /\ IF act[a].st = "writing"
           THEN SetAct(a, Outcome(kind, qs), act[a].row, act[a].page, act[a].cut)
           ELSE UNCHANGED act

MutationOk(a, r) ==
    /\ req[a][r].st = "sent"
    /\ Lands(a, r)
    /\ MutationTo(a, r, "ok", req[a][r].tries)
    /\ UNCHANGED <<kind, source, took, changes, faults, outdated>>

Fault == faults < MaxFaults /\ faults' = faults + 1

(***************************************************************************)
(* The answer has errors: success is false and nothing is retried.         *)
(***************************************************************************)
MutationRefused(a, r) ==
    /\ req[a][r].st = "sent"
    /\ Fault
    /\ DoesNotLand
    /\ MutationTo(a, r, "refused", req[a][r].tries)
    /\ UNCHANGED <<kind, source, took, changes, outdated>>

MutationHangsUp(a, r) ==
    /\ req[a][r].st = "sent"
    /\ Fault
    /\ Lands(a, r) \/ DoesNotLand
    /\ MutationTo(a, r, IF req[a][r].tries < TriesOf(kind) THEN "backoff" ELSE "threw",
                  req[a][r].tries)
    /\ UNCHANGED <<kind, source, took, changes, outdated>>

MutationThrows(a, r) ==
    /\ req[a][r].st = "sent"
    /\ Fault
    /\ Lands(a, r) \/ DoesNotLand
    /\ MutationTo(a, r, "threw", req[a][r].tries)
    /\ UNCHANGED <<kind, source, took, changes, outdated>>

RetryMutation(a, r) ==
    /\ req[a][r].st = "backoff"
    /\ MutationTo(a, r, "sent", req[a][r].tries + 1)
    /\ DoesNotLand
    /\ UNCHANGED <<kind, source, took, changes, faults, outdated>>

MutationStep(a, r) == \/ MutationOk(a, r) \/ MutationRefused(a, r)
                      \/ MutationHangsUp(a, r) \/ MutationThrows(a, r)
                      \/ RetryMutation(a, r)

BoardNext ==
    \/ \E r \in Rows, s \in Slots : \E f \in Fields(kind) : ChangeField(r, s, f)
    \/ \E a \in Runs : \/ \E r \in Rows \cup {NoRow} : StartAction(a, r)
                       \/ GiveUp(a)
                       \/ ReadPage(a) \/ PageError(a) \/ ReadThrows(a)
                       \/ \E r \in Rows : MutationStep(a, r)

BoardSpec == BoardInit /\ [][BoardNext]_boardVars

----------------------------------------------------------------------------
(***************************************************************************)
(* The value that stands for a row, said without the services' counters:   *)
(* the label by what holds of the subitems that have the column.           *)
(***************************************************************************)
Denoted(k, c) ==
    CASE k = "ratio" ->
           [finish |-> Cardinality({s \in Present(c) : c[s] = "finished"}),
            total |-> Cardinality(Present(c)),
            label |-> IF \A s \in Present(c) : c[s] = "open" THEN "NOT_FINISH_ANYTHING"
                      ELSE IF \A s \in Present(c) : c[s] = "finished" THEN "DONE"
                      ELSE "NOT_FINISH_ALL"]
      [] k = "total" -> [morning |-> Cardinality({s \in Present(c) : c[s] = "morning"}),
                         evening |-> Cardinality({s \in Present(c) : c[s] = "evening"})]
      [] k = "copy" -> CHOOSE text \in {c[s] : s \in Slots} : text = c[CopySlot]

Scope(a) == IF kind = "ratio" THEN {act[a].row} ELSE Rows

(***************************************************************************)
(* A run that was answered and met no error on the way leaves every row of *)
(* its scope with the value of what the row holds, unless a user changed   *)
(* the row after the run read it, the row has nothing to derive from (the  *)
(* last subitem was removed: the old value stays), its mutation failed, or *)
(* an older run's mutation landed after it.                                *)
(***************************************************************************)
AnsweredRunLeavesRowsCurrent ==
    \A a \in Runs : act[a].st = "answered" /\ ~act[a].cut =>
        \A r \in Scope(a) :
            \/ a \in outdated[r]
            \/ Present(source[r]) = {}
            \/ req[a][r].st \in {"refused", "threw"}
            \/ lastBy[r] \in outdated[r]
            \/ column[r] = Denoted(kind, source[r])

(***************************************************************************)
(* A run that has been answered changes nothing any more.  After a         *)
(* rejection mutations may still land, but only next to one that threw.    *)
(***************************************************************************)
NoMutationAfterAnswer ==
    [][\A r \in Rows : lastBy'[r] # lastBy[r] \/ column'[r] # column[r] =>
          LET a == lastBy'[r]
          IN  \/ act[a].st = "writing"
              \/ act[a].st = "rejected" /\ \E q \in Rows \ {r} : req[a][q].st = "threw"]_boardVars

(***************************************************************************)
(* The runs of one row are jobs of DerivedColumn: a run holds its snapshot *)
(* until its mutation has settled.                                         *)
(***************************************************************************)
JobOf(a, r) ==
    IF took[a][r] = Unread THEN [st |-> "idle", snap |-> NoValue]
    ELSE IF act[a].st = "reading" \/ ~Settled(req[a][r])
         THEN [st |-> "holding", snap |-> [kind |-> kind, fields |-> took[a][r]]]
    ELSE [st |-> "ended", snap |-> NoValue]

AllContents == UNION {[kind : {k}, fields : Contents(k)] : k \in Kinds}

Row(r) == INSTANCE DerivedColumn
          WITH Jobs <- Runs, Sources <- AllContents,
               Derived <- [s \in AllContents |-> Denoted(s.kind, s.fields)],
               src <- [kind |-> kind, fields |-> source[r]],
               col <- column[r],
               job <- [a \in Runs |-> JobOf(a, r)]

(***************************************************************************)
(* Each row is a DerivedColumn: ratio and label, or both totals, come from *)
(* the same snapshot of the row, whatever the interleaving of the runs.    *)
(* This is \A r \in Rows : Row(r)!DCSpec, with the quantifier inside the   *)
(* temporal operator.                                                      *)
(***************************************************************************)
RowsImplementDerivedColumn ==
    /\ \A r \in Rows : Row(r)!DCInit
    /\ [][\A r \in Rows : [Row(r)!DCNext]_(Row(r)!dcVars)]_boardVars
=============================================================================
