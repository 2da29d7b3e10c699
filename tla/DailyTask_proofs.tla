-------------------------- MODULE DailyTask_proofs --------------------------
(***************************************************************************)
(* Proofs about DailyTask, for any schedule, any number of runs, days and  *)
(* attempts.                                                               *)
(***************************************************************************)
EXTENDS DailyTask, SequenceTheorems, TLAPS

(***************************************************************************)
(* The states of a run that knows its copy.                                *)
(***************************************************************************)
WithCopy == {"mapping", "wait", "move", "rename", "done"}

(***************************************************************************)
(* A run has a copy from the answer to its duplicate mutation on, and the  *)
(* copy is its own; the weekday is that of the day it started on.          *)
(***************************************************************************)
RunInv(a) ==
    /\ daily[a].pc \in {"idle", "search", "duplicate"} => daily[a].copy = 0
    /\ daily[a].pc \in WithCopy => daily[a].copy # 0
    /\ daily[a].copy # 0 => /\ daily[a].copy \in DOMAIN item
                            /\ item[daily[a].copy].by = a
    /\ daily[a].pc = "duplicate" => /\ daily[a].found \in DOMAIN item
                                    /\ item[daily[a].found].weekday = daily[a].weekday
    /\ daily[a].pc \in {"rename", "done"} => item[daily[a].copy].board = "target"
    /\ daily[a].pc = "done" => item[daily[a].copy].date = daily[a].date

DateInv(a) ==
    /\ daily[a].pc \in WithCopy \cup {"search", "duplicate"} =>
          /\ daily[a].started <= day
          /\ daily[a].weekday = WeekdayOf(daily[a].started)
    /\ daily[a].pc \in WithCopy => daily[a].started <= daily[a].date

(***************************************************************************)
(* An item that a run created bears the weekday of the run, lies on the    *)
(* target board only as the run's copy, and is the run's only one if no    *)
(* duplicate mutation of the run hung up or failed.                        *)
(***************************************************************************)
ItemInv(i) ==
    /\ item[i].by \in DailyRuns =>
          /\ daily[item[i].by].pc \notin {"idle", "search"}
          /\ item[i].weekday = daily[item[i].by].weekday
    /\ item[i].board = "target" => /\ item[i].by \in DailyRuns
                                   /\ daily[item[i].by].copy = i
                                   /\ item[i].group = item[i].weekday
    /\ item[i].by \in DailyRuns \ repeated
       /\ daily[item[i].by].pc \in WithCopy \cup {"duplicate"} => daily[item[i].by].copy = i

DailyInv == /\ DailyTypeOK
            /\ \A a \in DailyRuns : RunInv(a) /\ DateInv(a)
            /\ \A i \in DOMAIN item : ItemInv(i)

----------------------------------------------------------------------------
(* What the clock and the mutations do to types                            *)

LEMMA WeekdayType ==
  ASSUME NEW d \in Nat
  PROVE  WeekdayOf(d) \in Weekdays
  BY SMT DEF WeekdayOf, Weekdays

LEMMA OneMore ==
  ASSUME NEW n \in Nat, NEW t \in 0..n, t < n
  PROVE  t + 1 \in 0..n
  OBVIOUS

LEMMA ItemType ==
  ASSUME DailyTypeOK
  PROVE  /\ DOMAIN item = 1..Len(item)
         /\ Len(item) \in Nat
         /\ \A i \in DOMAIN item : item[i] \in Item
  BY DEF DailyTypeOK

(***************************************************************************)
(* The copy of a run is appended, and all other items stay.                *)
(***************************************************************************)
LEMMA AppendedItem ==
  ASSUME DailyTypeOK, NEW x \in Item, Len(item) < MaxItems, item' = Append(item, x)
  PROVE  /\ item' \in Seq(Item) /\ Len(item') <= MaxItems
         /\ Len(item') = Len(item) + 1
         /\ DOMAIN item' = DOMAIN item \cup {Len(item')}
         /\ Len(item') \notin DOMAIN item
         /\ item'[Len(item')] = x
         /\ \A i \in DOMAIN item : item'[i] = item[i]
  BY DailyBoundsAssumption DEF DailyTypeOK

LEMMA ReplacedItem ==
  ASSUME DailyTypeOK, NEW x \in Item, NEW n \in DOMAIN item, item' = [item EXCEPT ![n] = x]
  PROVE  /\ item' \in Seq(Item) /\ Len(item') <= MaxItems
         /\ DOMAIN item' = DOMAIN item
         /\ item'[n] = x
         /\ \A i \in DOMAIN item \ {n} : item'[i] = item[i]
<1>1. item' \in Seq(Item) /\ Len(item') = Len(item) /\ DOMAIN item' = DOMAIN item
  BY ExceptSeq DEF DailyTypeOK
<1> QED BY <1>1 DEF DailyTypeOK

----------------------------------------------------------------------------
(* The invariant                                                           *)

LEMMA DailyFields ==
  ASSUME DailyTypeOK, NEW a \in DailyRuns
  PROVE  /\ daily[a] \in Daily
         /\ daily[a].pc \in DailyPC
         /\ daily[a].started \in 0..NoDay
         /\ daily[a].weekday \in Weekdays
         /\ daily[a].found \in 0..MaxItems
         /\ daily[a].copy \in 0..MaxItems
         /\ daily[a].date \in 0..NoDay
         /\ daily[a].tries \in 0..DailyTries
  BY DEF DailyTypeOK, Daily

LEMMA FirstTry == 1 \in 0..DailyTries
  BY DailyBoundsAssumption

LEMMA DailyInitInv == DailyInit => DailyInv
<1> SUFFICES ASSUME DailyInit PROVE DailyInv
  OBVIOUS
<1>1. DailyTypeOK
  <2>1. item \in Seq(Item) /\ Len(item) <= MaxItems
    <3>1. /\ DOMAIN item = 1..Len(Scheduled)
          /\ Len(Scheduled) \in Nat /\ Len(Scheduled) <= MaxItems
      BY ScheduledAssumption, DailyBoundsAssumption DEF DailyInit
    <3>2. ASSUME NEW i \in 1..Len(Scheduled) PROVE item[i] \in Item
      <4>1. Scheduled[i] \in Weekdays
        BY ScheduledAssumption
      <4> QED BY <3>1, <4>1, DailyBoundsAssumption DEF DailyInit, Item, NoGroup, NoDay
    <3>3. item = [i \in 1..Len(Scheduled) |-> item[i]]
      BY <3>1 DEF DailyInit
    <3>4. item \in Seq(Item)
      BY <3>1, <3>2, <3>3
    <3> QED BY <3>1, <3>3, <3>4
  <2>2. daily \in [DailyRuns -> Daily]
    BY DailyBoundsAssumption DEF DailyInit, Daily, DailyPC, NoDay, Weekdays
  <2>3. groups \subseteq Weekdays
    BY ScheduledAssumption DEF DailyInit
  <2> QED BY <2>1, <2>2, <2>3, DailyBoundsAssumption DEF DailyInit, DailyTypeOK
<1>2. ASSUME NEW a \in DailyRuns PROVE RunInv(a) /\ DateInv(a)
  BY DEF DailyInit, RunInv, DateInv, WithCopy
<1>3. ASSUME NEW i \in DOMAIN item PROVE ItemInv(i)
  BY <1>3, NoDailyAssumption, ScheduledAssumption DEF DailyInit, ItemInv
<1> QED BY <1>1, <1>2, <1>3 DEF DailyInv

(***************************************************************************)
(* A step that changes one run's control state, but neither the items nor  *)
(* what the run knows of the day and of its copy.                          *)
(***************************************************************************)
LEMMA ControlStep ==
  ASSUME DailyInv, NEW a \in DailyRuns, NEW d \in Daily,
         daily' = [daily EXCEPT ![a] = d], UNCHANGED item,
         repeated \subseteq repeated', repeated' \subseteq DailyRuns,
         day' = day, groups' \subseteq Weekdays, hangUps' \in 0..MaxHangUps,
         restarts' \in 0..MaxRestarts,
         d.copy = daily[a].copy, d.date = daily[a].date,
         d.started = daily[a].started, d.weekday = daily[a].weekday,
         daily[a].pc # "idle", d.pc \notin {"idle", "search"},
         d.pc = "duplicate" => /\ daily[a].pc \in {"search", "duplicate"}
                               /\ d.found \in DOMAIN item
                               /\ item[d.found].weekday = d.weekday,
         d.pc \in WithCopy => daily[a].pc \in WithCopy,
         d.pc \in {"rename", "done"} => d.pc = daily[a].pc
  PROVE  DailyInv'
<1>1. DailyTypeOK'
  BY DEF DailyInv, DailyTypeOK
<1>2. \A b \in DailyRuns : daily'[b] = IF b = a THEN d ELSE daily[b]
  BY DEF DailyInv, DailyTypeOK
<1>3. ASSUME NEW b \in DailyRuns PROVE (RunInv(b) /\ DateInv(b))'
  <2>1. RunInv(b) /\ DateInv(b)
    BY DEF DailyInv
  <2>2. CASE b # a
    BY <1>2, <2>1, <2>2 DEF RunInv, DateInv
  <2>3. CASE b = a
    BY <1>2, <2>1, <2>3 DEF RunInv, DateInv, WithCopy
  <2> QED BY <2>2, <2>3
<1>4. ASSUME NEW i \in DOMAIN item PROVE ItemInv(i)'
  <2>1. ItemInv(i)
    BY <1>4 DEF DailyInv
  <2> QED BY <1>2, <2>1 DEF ItemInv, WithCopy
<1> QED BY <1>1, <1>3, <1>4 DEF DailyInv

(***************************************************************************)
(* The copy arrives on the schedule board: nothing else changes there.     *)
(***************************************************************************)
LEMMA CopyAdded ==
  ASSUME DailyInv, NEW a \in DailyRuns, daily[a].pc = "duplicate", AddCopy(a)
  PROVE  \E x \in Item : /\ item' = Append(item, x) /\ Len(item) < MaxItems
                        /\ x.board = "schedule" /\ x.by = a
                        /\ x.weekday = daily[a].weekday
<1>1. RunInv(a) /\ DailyTypeOK
  BY DEF DailyInv
<1>2. daily[a].found \in DOMAIN item /\ item[daily[a].found].weekday = daily[a].weekday
  BY <1>1 DEF RunInv
<1> DEFINE x == [board |-> "schedule", group |-> NoGroup,
                 weekday |-> item[daily[a].found].weekday,
                 date |-> item[daily[a].found].date, by |-> a]
<1>3. x \in Item
  BY <1>1, <1>2, ItemType DEF Item, NoGroup
<1> QED BY <1>2, <1>3 DEF AddCopy

LEMMA CopyMoved ==
  ASSUME DailyInv, NEW a \in DailyRuns, daily[a].pc = "move", MoveCopy(a)
  PROVE  /\ daily[a].copy \in DOMAIN item /\ item[daily[a].copy].by = a
         /\ item[daily[a].copy].weekday = daily[a].weekday
         /\ \E x \in Item : /\ item' = [item EXCEPT ![daily[a].copy] = x]
                            /\ x.board = "target" /\ x.group = daily[a].weekday
                            /\ x.weekday = item[daily[a].copy].weekday
                            /\ x.by = a
<1>1. RunInv(a) /\ DailyTypeOK
  BY DEF DailyInv
<1>2. daily[a].copy \in DOMAIN item /\ item[daily[a].copy].by = a
  BY <1>1 DEF RunInv, WithCopy
<1>3. item[daily[a].copy].weekday = daily[a].weekday
  BY <1>2 DEF DailyInv, ItemInv
<1> DEFINE i == daily[a].copy
           x == [board |-> "target", group |-> daily[a].weekday,
                 weekday |-> item[i].weekday, date |-> item[i].date, by |-> item[i].by]
<1>4. x \in Item
  BY <1>1, <1>2, ItemType, DailyFields DEF Item
<1> QED BY <1>2, <1>3, <1>4 DEF MoveCopy, MovedItem, MovedTo

LEMMA CopyRenamed ==
  ASSUME DailyInv, NEW a \in DailyRuns, daily[a].pc = "rename", RenameCopy(a)
  PROVE  /\ daily[a].copy \in DOMAIN item /\ item[daily[a].copy].by = a
         /\ \E x \in Item : /\ item' = [item EXCEPT ![daily[a].copy] = x]
                            /\ x.board = item[daily[a].copy].board
                            /\ x.group = item[daily[a].copy].group
                            /\ x.weekday = item[daily[a].copy].weekday
                            /\ x.by = a /\ x.date = daily[a].date
<1>1. RunInv(a) /\ DailyTypeOK
  BY DEF DailyInv
<1>2. daily[a].copy \in DOMAIN item /\ item[daily[a].copy].by = a
  BY <1>1 DEF RunInv, WithCopy
<1>3. item[daily[a].copy].weekday = daily[a].weekday
  BY <1>2 DEF DailyInv, ItemInv
<1> DEFINE i == daily[a].copy
           x == [board |-> item[i].board, group |-> item[i].group,
                 weekday |-> daily[a].weekday, date |-> daily[a].date, by |-> item[i].by]
<1>4. x \in Item
  BY <1>1, <1>2, ItemType, DailyFields DEF Item
<1> QED BY <1>2, <1>3, <1>4 DEF RenameCopy

(***************************************************************************)
(* The duplicate mutation takes effect: the run has got its copy, has      *)
(* failed, or tries again after a hang-up.                                 *)
(***************************************************************************)
LEMMA AddStep ==
  ASSUME DailyInv, NEW a \in DailyRuns, NEW d \in Daily,
         daily[a].pc = "duplicate", AddCopy(a),
         daily' = [daily EXCEPT ![a] = d],
         repeated \subseteq repeated', repeated' \subseteq DailyRuns,
         UNCHANGED <<day, groups, restarts>>, hangUps' \in 0..MaxHangUps,
         d.started = daily[a].started, d.weekday = daily[a].weekday,
         \/ d.pc = "mapping" /\ d.copy = Len(item') /\ d.date = day
         \/ d.pc = "thrown" /\ d.copy = 0
         \/ d.pc = "duplicate" /\ d.copy = 0 /\ d.found = daily[a].found /\ a \in repeated'
  PROVE  DailyInv'
<1>1. DailyTypeOK /\ RunInv(a) /\ DateInv(a)
  BY DEF DailyInv
<1>2. PICK x \in Item : /\ item' = Append(item, x) /\ Len(item) < MaxItems
                        /\ x.board = "schedule" /\ x.by = a
                        /\ x.weekday = daily[a].weekday
  BY CopyAdded
<1>3. /\ item' \in Seq(Item) /\ Len(item') <= MaxItems
      /\ Len(item') = Len(item) + 1
      /\ DOMAIN item' = DOMAIN item \cup {Len(item')}
      /\ Len(item') \notin DOMAIN item
      /\ item'[Len(item')] = x
      /\ \A i \in DOMAIN item : item'[i] = item[i]
  BY <1>1, <1>2, AppendedItem
<1>4. \A b \in DailyRuns : daily'[b] = IF b = a THEN d ELSE daily[b]
  BY <1>1 DEF DailyTypeOK
<1>5. DailyTypeOK'
  BY <1>1, <1>3 DEF DailyTypeOK
<1>6. Len(item') # 0
  BY <1>1, <1>3, ItemType
<1>7. ASSUME NEW b \in DailyRuns PROVE (RunInv(b) /\ DateInv(b))'
  <2>1. RunInv(b) /\ DateInv(b)
    BY DEF DailyInv
  <2>2. CASE b # a
    BY <1>3, <1>4, <2>1, <2>2 DEF RunInv, DateInv, WithCopy
  <2>3. CASE b = a
    BY <1>1, <1>2, <1>3, <1>4, <1>6, <2>3 DEF RunInv, DateInv, WithCopy
  <2> QED BY <2>2, <2>3
<1>8. ASSUME NEW i \in DOMAIN item' PROVE ItemInv(i)'
  <2>1. CASE i \in DOMAIN item
    <3>1. ItemInv(i) /\ item'[i] = item[i]
      BY <1>3, <2>1 DEF DailyInv
    <3>2. item[i].board = "target" => item[i].by # a
      BY <1>1, <2>1, <3>1, ItemType DEF RunInv, ItemInv
    <3>3. item[i].by = a => a \in repeated
      BY <1>1, <2>1, <3>1, ItemType DEF RunInv, ItemInv
    <3> QED BY <1>4, <3>1, <3>2, <3>3 DEF ItemInv, WithCopy
  <2>2. CASE i = Len(item')
    BY <1>2, <1>3, <1>4, <2>2 DEF ItemInv, WithCopy
  <2> QED BY <1>3, <2>1, <2>2
<1> QED BY <1>5, <1>7, <1>8 DEF DailyInv

(***************************************************************************)
(* The move or the renaming takes effect: the run goes on, fails, or tries *)
(* again.  The items of the other runs are not touched.                    *)
(***************************************************************************)
LEMMA ReplaceStep ==
  ASSUME DailyInv, NEW a \in DailyRuns, NEW d \in Daily,
         \/ daily[a].pc = "move" /\ MoveCopy(a) /\ d.pc \in {"move", "rename", "thrown"}
         \/ daily[a].pc = "rename" /\ RenameCopy(a) /\ d.pc \in {"rename", "done", "thrown"},
         daily' = [daily EXCEPT ![a] = d],
         repeated' = repeated,
         UNCHANGED <<day, groups, restarts>>, hangUps' \in 0..MaxHangUps,
         d.copy = daily[a].copy, d.date = daily[a].date,
         d.started = daily[a].started, d.weekday = daily[a].weekday
  PROVE  DailyInv'
<1> DEFINE n == daily[a].copy
<1>1. DailyTypeOK /\ RunInv(a) /\ DateInv(a)
  BY DEF DailyInv
<1>2. n \in DOMAIN item /\ item[n].by = a /\ ItemInv(n)
  BY CopyMoved, CopyRenamed DEF DailyInv
<1>3. PICK x \in Item :
         /\ item' = [item EXCEPT ![n] = x]
         /\ x.by = a /\ x.weekday = item[n].weekday
         /\ \/ daily[a].pc = "move" /\ x.board = "target" /\ x.group = x.weekday
            \/ /\ daily[a].pc = "rename" /\ x.date = daily[a].date
               /\ x.board = item[n].board /\ x.group = item[n].group
  BY CopyMoved, CopyRenamed
<1>4. /\ item' \in Seq(Item) /\ Len(item') <= MaxItems
      /\ DOMAIN item' = DOMAIN item
      /\ item'[n] = x
      /\ \A i \in DOMAIN item \ {n} : item'[i] = item[i]
  BY <1>1, <1>2, <1>3, ReplacedItem
<1>5. \A b \in DailyRuns : daily'[b] = IF b = a THEN d ELSE daily[b]
  BY <1>1 DEF DailyTypeOK
<1> HIDE DEF n
<1>6. DailyTypeOK'
  BY <1>1, <1>4 DEF DailyTypeOK
<1>7. ASSUME NEW b \in DailyRuns PROVE (RunInv(b) /\ DateInv(b))'
  <2>1. RunInv(b) /\ DateInv(b)
    BY DEF DailyInv
  <2>2. CASE b # a
    <3>1. daily[b].copy # 0 => daily[b].copy # n
      BY <1>2, <2>1, <2>2 DEF RunInv
    <3>2. daily[b].pc = "duplicate" => item'[daily[b].found].weekday = daily[b].weekday
      BY <1>2, <1>3, <1>4, <2>1 DEF RunInv
    <3>3. daily[b].pc \in WithCopy => daily[b].copy # 0
      BY <2>1 DEF RunInv
    <3> QED BY <1>4, <1>5, <2>1, <2>2, <3>1, <3>2, <3>3 DEF RunInv, DateInv, WithCopy
  <2>3. CASE b = a
    BY <1>1, <1>2, <1>3, <1>4, <1>5, <2>3 DEF RunInv, DateInv, WithCopy, n
  <2> QED BY <2>2, <2>3
<1>8. ASSUME NEW i \in DOMAIN item' PROVE ItemInv(i)'
  <2>1. CASE i # n
    <3>1. ItemInv(i) /\ item'[i] = item[i]
      BY <1>4, <2>1 DEF DailyInv
    <3> QED BY <1>5, <3>1 DEF ItemInv, WithCopy
  <2>2. CASE i = n
    BY <1>2, <1>3, <1>4, <1>5, <2>2 DEF ItemInv, WithCopy, n
  <2> QED BY <2>1, <2>2
<1> QED BY <1>6, <1>7, <1>8 DEF DailyInv

(***************************************************************************)
(* A run sees the day on which it starts.                                  *)
(***************************************************************************)
LEMMA StartInv ==
  ASSUME DailyInv, NEW a \in DailyRuns, StartDaily(a)
  PROVE  DailyInv'
<1> DEFINE d == [daily[a] EXCEPT !.pc = "search", !.started = day, !.weekday = WeekdayOf(day)]
<1>1. DailyTypeOK /\ RunInv(a) /\ daily[a] \in Daily
  BY DailyFields DEF DailyInv
<1>2. day \in Nat /\ day \in 0..NoDay /\ WeekdayOf(day) \in Weekdays
  BY <1>1, WeekdayType, DailyBoundsAssumption DEF DailyTypeOK, NoDay
<1>3. d \in Daily
  BY <1>1, <1>2 DEF Daily, DailyPC
<1>4. /\ d.pc = "search" /\ d.started = day /\ d.weekday = WeekdayOf(day)
      /\ d.copy = daily[a].copy /\ d.date = daily[a].date
  BY <1>1 DEF Daily
<1>5. daily' = [daily EXCEPT ![a] = d]
  BY DEF StartDaily, DailyTo
<1> HIDE DEF d
<1>6. \A b \in DailyRuns : daily'[b] = IF b = a THEN d ELSE daily[b]
  BY <1>1, <1>5 DEF DailyTypeOK
<1>7. DailyTypeOK'
  BY <1>1, <1>3, <1>5 DEF StartDaily, DailyTypeOK
<1>8. ASSUME NEW b \in DailyRuns PROVE (RunInv(b) /\ DateInv(b))'
  <2>1. RunInv(b) /\ DateInv(b)
    BY DEF DailyInv
  <2>2. CASE b # a
    BY <1>6, <2>1, <2>2 DEF StartDaily, RunInv, DateInv
  <2>3. CASE b = a
    BY <1>1, <1>2, <1>4, <1>6, <2>1, <2>3 DEF StartDaily, RunInv, DateInv, WithCopy
  <2> QED BY <2>2, <2>3
<1>9. ASSUME NEW i \in DOMAIN item PROVE ItemInv(i)'
  <2>1. ItemInv(i)
    BY <1>9 DEF DailyInv
  <2>2. item[i].by # a
    BY <2>1 DEF StartDaily, ItemInv
  <2> QED BY <1>6, <2>1, <2>2 DEF StartDaily, ItemInv
<1> QED BY <1>7, <1>8, <1>9 DEF StartDaily, DailyInv

(***************************************************************************)
(* A run that never started has left nothing.                              *)
(***************************************************************************)
LEMMA GiveUpInv ==
  ASSUME DailyInv, NEW a \in DailyRuns, GiveUpDaily(a)
  PROVE  DailyInv'
<1> DEFINE d == [daily[a] EXCEPT !.pc = "returned", !.tries = 1]
<1>1. DailyTypeOK /\ RunInv(a) /\ daily[a] \in Daily
  BY DailyFields DEF DailyInv
<1>2. d \in Daily /\ d.pc = "returned" /\ d.copy = daily[a].copy
  BY <1>1, FirstTry DEF Daily, DailyPC
<1>3. daily' = [daily EXCEPT ![a] = d]
  BY DEF GiveUpDaily, Goto, DailyTo
<1> HIDE DEF d
<1>4. \A b \in DailyRuns : daily'[b] = IF b = a THEN d ELSE daily[b]
  BY <1>1, <1>3 DEF DailyTypeOK
<1>5. DailyTypeOK'
  BY <1>1, <1>2, <1>3 DEF GiveUpDaily, DailyTypeOK
<1>6. ASSUME NEW b \in DailyRuns PROVE (RunInv(b) /\ DateInv(b))'
  BY <1>1, <1>2, <1>4 DEF GiveUpDaily, DailyInv, RunInv, DateInv, WithCopy
<1>7. ASSUME NEW i \in DOMAIN item PROVE ItemInv(i)'
  <2>1. ItemInv(i) /\ item[i].by # a
    BY <1>7 DEF GiveUpDaily, DailyInv, ItemInv
  <2> QED BY <1>4, <2>1 DEF GiveUpDaily, ItemInv
<1> QED BY <1>5, <1>6, <1>7 DEF GiveUpDaily, DailyInv

(***************************************************************************)
(* The steps of a run that touch no item.                                  *)
(***************************************************************************)
LEMMA GotoStep ==
  ASSUME DailyInv, NEW a \in DailyRuns, NEW pc \in DailyPC, Goto(a, pc),
         UNCHANGED <<day, groups, item, hangUps, restarts, repeated>>,
         daily[a].pc # "idle",
         \/ pc \in {"returned", "thrown"}
         \/ daily[a].pc = "mapping" /\ pc = "wait"
         \/ daily[a].pc = "wait" /\ pc = "move"
  PROVE  DailyInv'
<1> DEFINE d == [daily[a] EXCEPT !.pc = pc, !.tries = 1]
<1>1. DailyTypeOK /\ daily[a] \in Daily
  BY DailyFields DEF DailyInv
<1>2. /\ d \in Daily /\ d.pc = pc /\ d.copy = daily[a].copy /\ d.date = daily[a].date
      /\ d.started = daily[a].started /\ d.weekday = daily[a].weekday
  BY <1>1, FirstTry DEF Daily
<1>3. daily' = [daily EXCEPT ![a] = d]
  BY DEF Goto, DailyTo
<1> HIDE DEF d
<1> QED BY <1>1, <1>2, <1>3, ControlStep DEF DailyTypeOK, WithCopy

LEMMA FindInv ==
  ASSUME DailyInv, NEW a \in DailyRuns, FindScheduleItem(a)
  PROVE  DailyInv'
<1>1. DailyTypeOK /\ daily[a] \in Daily /\ RunInv(a)
  BY DailyFields DEF DailyInv
<1>2. PICK i \in DOMAIN item :
         /\ Matches(a, i)
         /\ daily' = [daily EXCEPT ![a] = [daily[a] EXCEPT !.pc = "duplicate",
                                                           !.found = i, !.tries = 1]]
  BY DEF FindScheduleItem, DailyTo
<1> DEFINE d == [daily[a] EXCEPT !.pc = "duplicate", !.found = i, !.tries = 1]
<1>3. i \in 0..MaxItems
  BY <1>1, DailyBoundsAssumption DEF DailyTypeOK
<1>4. /\ d \in Daily /\ d.pc = "duplicate" /\ d.found = i
      /\ d.copy = daily[a].copy /\ d.date = daily[a].date
      /\ d.started = daily[a].started /\ d.weekday = daily[a].weekday
  BY <1>1, <1>3, FirstTry DEF Daily, DailyPC
<1>5. item[d.found].weekday = d.weekday
  BY <1>2, <1>4 DEF Matches
<1>6. daily' = [daily EXCEPT ![a] = d]
  BY <1>2
<1> HIDE DEF d
<1> QED BY <1>1, <1>2, <1>4, <1>5, <1>6, ControlStep DEF FindScheduleItem, DailyTypeOK, WithCopy

----------------------------------------------------------------------------
(* The mutations                                                           *)

LEMMA DuplicatedInv ==
  ASSUME DailyInv, NEW a \in DailyRuns, Duplicated(a)
  PROVE  DailyInv'
<1> DEFINE d == [daily[a] EXCEPT !.pc = "mapping", !.copy = Len(item'), !.date = day]
<1>1. DailyTypeOK /\ daily[a] \in Daily
  BY DailyFields DEF DailyInv
<1>2. daily[a].pc = "duplicate" /\ AddCopy(a)
  BY DEF Duplicated, Effect
<1>3. Len(item') \in 0..MaxItems /\ day \in 0..NoDay
  <2>1. PICK x \in Item : item' = Append(item, x) /\ Len(item) < MaxItems
    BY <1>2, CopyAdded
  <2> QED BY <1>1, <2>1, AppendedItem, DailyBoundsAssumption DEF DailyTypeOK, NoDay
<1>4. /\ d \in Daily /\ d.pc = "mapping" /\ d.copy = Len(item') /\ d.date = day
      /\ d.started = daily[a].started /\ d.weekday = daily[a].weekday
  BY <1>1, <1>3 DEF Daily, DailyPC
<1>5. daily' = [daily EXCEPT ![a] = d]
  BY DEF Duplicated, DailyTo
<1>6. /\ UNCHANGED <<day, groups, hangUps, restarts, repeated>>
      /\ hangUps \in 0..MaxHangUps /\ repeated \subseteq DailyRuns
  BY <1>1 DEF Duplicated, DailyTypeOK
<1> HIDE DEF d
<1> QED BY <1>2, <1>4, <1>5, <1>6, AddStep

LEMMA MovedOrRenamedInv ==
  ASSUME DailyInv, NEW a \in DailyRuns, Moved(a) \/ Renamed(a)
  PROVE  DailyInv'
<1> DEFINE pc == IF daily[a].pc = "move" THEN "rename" ELSE "done"
           d == [daily[a] EXCEPT !.pc = pc, !.tries = 1]
<1>1. DailyTypeOK /\ daily[a] \in Daily
  BY DailyFields DEF DailyInv
<1>2. \/ daily[a].pc = "move" /\ MoveCopy(a)
      \/ daily[a].pc = "rename" /\ RenameCopy(a)
  BY DEF Moved, Renamed, Effect
<1>3. pc \in DailyPC
  BY DEF DailyPC
<1>4. /\ d \in Daily /\ d.pc = pc /\ d.copy = daily[a].copy /\ d.date = daily[a].date
      /\ d.started = daily[a].started /\ d.weekday = daily[a].weekday
  BY <1>1, <1>3, FirstTry DEF Daily
<1>5. daily' = [daily EXCEPT ![a] = d]
  BY DEF Moved, Renamed, Goto, DailyTo
<1>6. UNCHANGED <<day, groups, hangUps, restarts, repeated>> /\ hangUps \in 0..MaxHangUps
  BY <1>1 DEF Moved, Renamed, DailyTypeOK
<1>7. \/ daily[a].pc = "move" /\ MoveCopy(a) /\ d.pc \in {"move", "rename", "thrown"}
      \/ daily[a].pc = "rename" /\ RenameCopy(a) /\ d.pc \in {"rename", "done", "thrown"}
  BY <1>2, <1>4
<1> HIDE DEF d
<1> QED BY <1>4, <1>5, <1>6, <1>7, ReplaceStep

(***************************************************************************)
(* A mutation rejects, after it took effect or without: only a hang-up is  *)
(* followed by another attempt, and one of a duplicate is remembered.      *)
(***************************************************************************)
LEMMA RejectsInv ==
  ASSUME DailyInv, NEW a \in DailyRuns, NEW e \in {"socket hang up", "other"},
         MutationRejects(a, e)
  PROVE  DailyInv'
<1> DEFINE again == Retryable(e) /\ AttemptsLeft(daily[a])
           d == IF again THEN [daily[a] EXCEPT !.tries = daily[a].tries + 1]
                ELSE [daily[a] EXCEPT !.pc = "thrown"]
<1>1. DailyTypeOK /\ daily[a] \in Daily /\ RunInv(a)
  BY DailyFields DEF DailyInv
<1>2. daily[a].pc \in MutationPC /\ (Effect(a) \/ UNCHANGED item)
  BY DEF MutationRejects
<1>3. /\ d \in Daily
      /\ d.copy = daily[a].copy /\ d.date = daily[a].date /\ d.found = daily[a].found
      /\ d.started = daily[a].started /\ d.weekday = daily[a].weekday
  <2>1. CASE again
    <3>1. daily[a].tries + 1 \in 0..DailyTries
      <4>1. daily[a].tries \in 0..DailyTries /\ daily[a].tries < DailyTries
        BY <1>1, <2>1, DailyFields DEF AttemptsLeft
      <4>2. DailyTries \in Nat
        BY DailyBoundsAssumption
      <4> QED BY <4>1, <4>2, OneMore
    <3> QED BY <1>1, <2>1, <3>1 DEF Daily
  <2>2. CASE ~again
    BY <1>1, <2>2 DEF Daily, DailyPC
  <2> QED BY <2>1, <2>2
<1>4. /\ ~again => d.pc = "thrown"
      /\ again => d.pc = daily[a].pc /\ e = "socket hang up"
  BY <1>1 DEF Daily, Retryable
<1>5. daily' = [daily EXCEPT ![a] = d]
  BY DEF MutationRejects, DailyTo
<1>6. /\ UNCHANGED <<day, groups, restarts>>
      /\ hangUps' \in 0..MaxHangUps
      /\ repeated \subseteq repeated' /\ repeated' \subseteq DailyRuns
      /\ daily[a].pc # "duplicate" => repeated' = repeated
      /\ daily[a].pc = "duplicate" /\ e = "socket hang up" => a \in repeated'
  <2>1. UNCHANGED <<day, groups, restarts>>
    BY DEF MutationRejects
  <2>2. hangUps' \in 0..MaxHangUps
    <3>1. \/ hangUps' = hangUps
          \/ hangUps < MaxHangUps /\ hangUps' = hangUps + 1
      BY DEF MutationRejects
    <3>2. hangUps \in 0..MaxHangUps /\ MaxHangUps \in Nat
      BY <1>1, DailyBoundsAssumption DEF DailyTypeOK
    <3> QED BY <3>1, <3>2, OneMore
  <2>3. repeated' = IF e = "socket hang up" /\ daily[a].pc = "duplicate"
                    THEN repeated \cup {a} ELSE repeated
    BY DEF MutationRejects
  <2>4. repeated \subseteq DailyRuns
    BY <1>1 DEF DailyTypeOK
  <2> QED BY <2>1, <2>2, <2>3, <2>4
<1> HIDE DEF d, again
<1>7. CASE UNCHANGED item
  <2>1. /\ d.pc # "idle" /\ d.pc # "search"
        /\ d.pc \in WithCopy => daily[a].pc \in WithCopy
        /\ d.pc \in {"rename", "done"} => d.pc = daily[a].pc
    BY <1>2, <1>4 DEF WithCopy, MutationPC
  <2>2. d.pc = "duplicate" => /\ daily[a].pc \in {"search", "duplicate"}
                              /\ d.found \in DOMAIN item
                              /\ item[d.found].weekday = d.weekday
    BY <1>1, <1>3, <1>4 DEF RunInv
  <2>3. groups' \subseteq Weekdays /\ restarts' \in 0..MaxRestarts /\ daily[a].pc # "idle"
    BY <1>1, <1>2, <1>6 DEF DailyTypeOK, MutationPC
  <2> QED BY <1>3, <1>5, <1>6, <1>7, <2>1, <2>2, <2>3, ControlStep
<1>8. CASE Effect(a) /\ daily[a].pc = "duplicate"
  <2>1. AddCopy(a) /\ daily[a].copy = 0
    BY <1>1, <1>8 DEF Effect, RunInv
  <2> QED BY <1>3, <1>4, <1>5, <1>6, <1>8, <2>1, AddStep
<1>9. CASE Effect(a) /\ daily[a].pc # "duplicate"
  <2>1. \/ daily[a].pc = "move" /\ MoveCopy(a) /\ d.pc \in {"move", "rename", "thrown"}
        \/ daily[a].pc = "rename" /\ RenameCopy(a) /\ d.pc \in {"rename", "done", "thrown"}
    BY <1>4, <1>9 DEF Effect
  <2> QED BY <1>3, <1>5, <1>6, <1>9, <2>1, ReplaceStep
<1> QED BY <1>2, <1>7, <1>8, <1>9

----------------------------------------------------------------------------
(* The environment                                                         *)

LEMMA MidnightInv ==
  ASSUME DailyInv, Midnight
  PROVE  DailyInv'
<1>1. DailyTypeOK'
  BY DailyBoundsAssumption DEF DailyInv, DailyTypeOK, Midnight
<1>2. ASSUME NEW a \in DailyRuns PROVE (RunInv(a) /\ DateInv(a))'
  <2>1. RunInv(a) /\ DateInv(a) /\ DailyTypeOK
    BY DEF DailyInv
  <2>2. day \in Nat /\ day' = day + 1 /\ daily[a].started \in Int
    BY <2>1, DailyFields, DailyBoundsAssumption DEF DailyTypeOK, Midnight, NoDay
  <2> QED BY <2>1, <2>2 DEF Midnight, RunInv, DateInv
<1>3. ASSUME NEW i \in DOMAIN item PROVE ItemInv(i)'
  BY <1>3 DEF DailyInv, Midnight, ItemInv
<1> QED BY <1>1, <1>2, <1>3 DEF DailyInv, Midnight

LEMMA RestartInv ==
  ASSUME DailyInv, RestartDaily
  PROVE  DailyInv'
<1>1. DailyTypeOK
  BY DEF DailyInv
<1>2. ASSUME NEW a \in DailyRuns
      PROVE  /\ daily'[a] \in Daily
             /\ daily'[a].pc # daily[a].pc => /\ daily'[a].pc = "lost"
                                               /\ daily[a].pc # "idle"
             /\ daily'[a].copy = daily[a].copy /\ daily'[a].date = daily[a].date
             /\ daily'[a].started = daily[a].started /\ daily'[a].found = daily[a].found
             /\ daily'[a].weekday = daily[a].weekday
  <2>1. daily[a] \in Daily
    BY <1>1, DailyFields
  <2>2. daily'[a] = IF daily[a].pc \in Ended \cup {"idle"} THEN daily[a]
                    ELSE [daily[a] EXCEPT !.pc = "lost"]
    BY DEF RestartDaily
  <2>3. CASE daily[a].pc \in Ended \cup {"idle"}
    BY <2>1, <2>2, <2>3
  <2>4. CASE daily[a].pc \notin Ended \cup {"idle"}
    BY <2>1, <2>2, <2>4 DEF Daily, DailyPC
  <2> QED BY <2>3, <2>4
<1>3. DailyTypeOK'
  <2>1. daily' = [a \in DailyRuns |-> daily'[a]]
    BY DEF RestartDaily
  <2>2. daily' \in [DailyRuns -> Daily]
    BY <1>2, <2>1
  <2> QED BY <1>1, <2>2, DailyBoundsAssumption DEF RestartDaily, DailyTypeOK
<1>4. ASSUME NEW a \in DailyRuns PROVE (RunInv(a) /\ DateInv(a))'
  <2>1. RunInv(a) /\ DateInv(a)
    BY DEF DailyInv
  <2> QED BY <1>2, <2>1 DEF RestartDaily, RunInv, DateInv, WithCopy
<1>5. ASSUME NEW i \in DOMAIN item PROVE ItemInv(i)'
  <2>1. ItemInv(i)
    BY <1>5 DEF DailyInv
  <2> QED BY <1>2, <2>1 DEF RestartDaily, ItemInv, WithCopy
<1> QED BY <1>3, <1>4, <1>5 DEF RestartDaily, DailyInv

----------------------------------------------------------------------------
LEMMA DailyNextInv ==
  ASSUME DailyInv, [DailyNext]_dailyVars
  PROVE  DailyInv'
<1>1. CASE UNCHANGED dailyVars
  BY <1>1 DEF dailyVars, DailyInv, DailyTypeOK, RunInv, DateInv, ItemInv
<1>2. CASE Midnight
  BY <1>2, MidnightInv
<1>3. CASE RestartDaily
  BY <1>3, RestartInv
<1>4. ASSUME NEW a \in DailyRuns, StartDaily(a) PROVE DailyInv'
  BY <1>4, StartInv
<1>5. ASSUME NEW a \in DailyRuns, GiveUpDaily(a) PROVE DailyInv'
  BY <1>5, GiveUpInv
<1>6. ASSUME NEW a \in DailyRuns, FindScheduleItem(a) PROVE DailyInv'
  BY <1>6, FindInv
<1>7. ASSUME NEW a \in DailyRuns,
             FindsNone(a) \/ GotGroupMapping(a) \/ WaitIsOver(a)
             \/ DailyRefused(a) \/ ReadFails(a)
      PROVE  DailyInv'
  <2>1. CASE FindsNone(a)
    BY <2>1, GotoStep DEF FindsNone, DailyPC
  <2>2. CASE GotGroupMapping(a)
    BY <2>2, GotoStep DEF GotGroupMapping, DailyPC
  <2>3. CASE WaitIsOver(a)
    BY <2>3, GotoStep DEF WaitIsOver, DailyPC
  <2>4. CASE DailyRefused(a)
    BY <2>4, GotoStep DEF DailyRefused, DailyPC, MutationPC
  <2>5. CASE ReadFails(a)
    BY <2>5, GotoStep DEF ReadFails, DailyPC
  <2> QED BY <1>7, <2>1, <2>2, <2>3, <2>4, <2>5
<1>8. ASSUME NEW a \in DailyRuns, Duplicated(a) PROVE DailyInv'
  BY <1>8, DuplicatedInv
<1>9. ASSUME NEW a \in DailyRuns, Moved(a) \/ Renamed(a) PROVE DailyInv'
  BY <1>9, MovedOrRenamedInv
<1>10. ASSUME NEW a \in DailyRuns, NEW e \in {"socket hang up", "other"},
              MutationRejects(a, e)
       PROVE  DailyInv'
  BY <1>10, RejectsInv
<1> QED
  BY <1>1, <1>2, <1>3, <1>4, <1>5, <1>6, <1>7, <1>8, <1>9, <1>10
  DEF DailyNext, DailyStep

(***************************************************************************)
(* The invariant of the daily tasks.                                       *)
(***************************************************************************)
THEOREM Invariance == DailySpec => []DailyInv
<1>1. DailyInit => DailyInv
  BY DailyInitInv
<1>2. DailyInv /\ [DailyNext]_dailyVars => DailyInv'
  BY DailyNextInv
<1> QED BY <1>1, <1>2, PTL DEF DailySpec

(***************************************************************************)
(* The variables of the daily tasks keep their types.                      *)
(***************************************************************************)
THEOREM DailyTypes == DailySpec => []DailyTypeOK
<1>1. DailyInv => DailyTypeOK
  BY DEF DailyInv
<1> QED BY <1>1, Invariance, PTL

(***************************************************************************)
(* A run puts one item on the target board at most, its own copy, however  *)
(* often the endpoint is called, mutations hang up or the process exits.   *)
(***************************************************************************)
THEOREM OneTask == DailySpec => []OneTaskPerRun
<1>1. DailyInv => OneTaskPerRun
  BY DEF DailyInv, ItemInv, OneTaskPerRun, OnTarget
<1> QED BY <1>1, Invariance, PTL

(***************************************************************************)
(* Group, weekday and date of a task agree, unless midnight passed between *)
(* the reading of the weekday and that of the date.                        *)
(***************************************************************************)
THEOREM NamesOneDay == DailySpec => []TaskNamesOneDay
<1>1. DailyInv => TaskNamesOneDay
  <2> SUFFICES ASSUME DailyInv, NEW i \in OnTarget
      PROVE  /\ item[i].group = item[i].weekday
             /\ daily[item[i].by].pc = "done" => \/ WeekdayOf(item[i].date) = item[i].weekday
                                                 \/ item[i].date > daily[item[i].by].started
    BY DEF TaskNamesOneDay
  <2> DEFINE a == item[i].by
  <2>1. DailyTypeOK /\ ItemInv(i) /\ i \in DOMAIN item /\ item[i].board = "target"
    BY DEF DailyInv, OnTarget
  <2>2. a \in DailyRuns /\ daily[a].copy = i /\ item[i].weekday = daily[a].weekday
    BY <2>1 DEF ItemInv
  <2>3. RunInv(a) /\ DateInv(a)
    BY <2>2 DEF DailyInv
  <2>4. daily[a].date \in Int /\ daily[a].started \in Int
    BY <2>1, <2>2, DailyFields, DailyBoundsAssumption DEF NoDay
  <2> QED BY <2>1, <2>2, <2>3, <2>4 DEF ItemInv, RunInv, DateInv, WithCopy
<1> QED BY <1>1, Invariance, PTL

(***************************************************************************)
(* A run that ended well leaves its one task, renamed, on the target board *)
(* and nothing else, unless its duplicate mutation hung up.                *)
(***************************************************************************)
THEOREM Leftovers == DailySpec => []LeftoversExplained
<1>1. DailyInv => LeftoversExplained
  <2> SUFFICES ASSUME DailyInv, NEW a \in DailyRuns, daily[a].pc = "done"
      PROVE  /\ daily[a].copy \in OnTarget /\ item[daily[a].copy].date = daily[a].date
             /\ \A i \in DOMAIN item :
                   item[i].by = a /\ i # daily[a].copy => a \in repeated
    BY DEF LeftoversExplained
  <2>1. RunInv(a) /\ \A i \in DOMAIN item : ItemInv(i)
    BY DEF DailyInv
  <2> QED BY <2>1 DEF RunInv, ItemInv, OnTarget, WithCopy
<1> QED BY <1>1, Invariance, PTL
=============================================================================
