----------------------------- MODULE DailyTask -----------------------------
(***************************************************************************)
(* CreateSubitemFromOtherBoardService: the daily task of a board.  A run   *)
(* finds the item of today's weekday on the schedule board, duplicates it, *)
(* waits, moves the copy to the weekday's group of the target board, and   *)
(* renames it "weekday - date".  Monday (external) calls the endpoint,     *)
(* possibly several times a day, and nothing is undone when a step fails.  *)
(*                                                                         *)
(* One action per await of execute.  A day is a number; the clock may pass *)
(* midnight between any two of them.  A mutation that takes effect does so *)
(* before its answer, its hang-up or its error is seen.                    *)
(***************************************************************************)
EXTENDS Naturals, Sequences, FiniteSets

CONSTANTS Scheduled,   \* the weekday named by each item of the schedule board
          DailyRuns,   \* calls of the endpoint
          DailyTries,  \* attempts of retryMondayApi
          MaxDay,      \* bound on the clock
          MaxItems,    \* bound on the items of both boards
          MaxHangUps,  \* bound on the mutations that hang up
          MaxRestarts, \* bound on process restarts
          NoDaily      \* the run of an item that no run created

Weekdays == 0..6
NoDay == MaxDay + 1

ASSUME ScheduledAssumption == Scheduled \in Seq(Weekdays) /\ Len(Scheduled) <= MaxItems
ASSUME DailyBoundsAssumption == /\ DailyTries \in Nat \ {0}
                                /\ MaxDay \in Nat /\ MaxItems \in Nat
                                /\ MaxHangUps \in Nat /\ MaxRestarts \in Nat
ASSUME NoDailyAssumption == NoDaily \notin DailyRuns

VARIABLES day,       \* today, in Ho Chi Minh City
          groups,    \* storage: weekdays that the group mapping names a group for
          item,      \* Monday: the items of both boards
          daily,     \* the runs
          hangUps,   \* number of mutations that hung up
          restarts,  \* number of restarts
          repeated   \* history: runs whose duplicate mutation hung up

dailyVars == <<day, groups, item, daily, hangUps, restarts, repeated>>

(***************************************************************************)
(* The group of a weekday is named by the weekday.  Before it is renamed,  *)
(* an item is named by its weekday alone.                                  *)
(***************************************************************************)
Item == [board : {"schedule", "target"}, group : Weekdays \cup {7},
         weekday : Weekdays, date : 0..NoDay, by : DailyRuns \cup {NoDaily}]
NoGroup == 7

DailyPC == {"idle", "search", "duplicate", "mapping", "wait", "move", "rename",
            "returned", "thrown", "lost", "done"}
Daily == [pc : DailyPC, started : 0..NoDay, weekday : Weekdays, found : 0..MaxItems,
          copy : 0..MaxItems, date : 0..NoDay, tries : 0..DailyTries]

DailyTypeOK == /\ day \in 0..MaxDay
               /\ groups \subseteq Weekdays
               /\ item \in Seq(Item) /\ Len(item) <= MaxItems
               /\ daily \in [DailyRuns -> Daily]
               /\ hangUps \in 0..MaxHangUps
               /\ restarts \in 0..MaxRestarts
               /\ repeated \subseteq DailyRuns

Ended == {"returned", "thrown", "lost", "done"}

DailyInit == /\ day = 0
             /\ groups \in {{}, {Scheduled[i] : i \in DOMAIN Scheduled}}
             /\ item = [i \in DOMAIN Scheduled |->
                           [board |-> "schedule", group |-> NoGroup,
                            weekday |-> Scheduled[i], date |-> NoDay, by |-> NoDaily]]
             /\ daily = [a \in DailyRuns |->
                            [pc |-> "idle", started |-> NoDay, weekday |-> 0, found |-> 0,
                             copy |-> 0, date |-> NoDay, tries |-> 0]]
             /\ hangUps = 0
             /\ restarts = 0
             /\ repeated = {}

----------------------------------------------------------------------------
Midnight == /\ day < MaxDay
            /\ day' = day + 1
            /\ UNCHANGED <<groups, item, daily, hangUps, restarts, repeated>>

DailyTo(a, d) == daily' = [daily EXCEPT ![a] = d]

Goto(a, pc) == DailyTo(a, [daily[a] EXCEPT !.pc = pc, !.tries = 1])

(***************************************************************************)
(* getCurrentDateOfWeek, day 0 being a Sunday.                             *)
(***************************************************************************)
WeekdayOf(d) == d % 7

(***************************************************************************)
(* The weekday is read once, when the access token has arrived.            *)
(***************************************************************************)
StartDaily(a) ==
    /\ daily[a].pc = "idle"
    /\ DailyTo(a, [daily[a] EXCEPT !.pc = "search", !.started = day,
                                   !.weekday = WeekdayOf(day)])
    /\ UNCHANGED <<day, groups, item, hangUps, restarts, repeated>>

(***************************************************************************)
(* No session, no input field, no access token.                            *)
(***************************************************************************)
GiveUpDaily(a) ==
    /\ daily[a].pc = "idle"
    /\ Goto(a, "returned")
    /\ UNCHANGED <<day, groups, item, hangUps, restarts, repeated>>

(***************************************************************************)
(* Items of the schedule board that the query may answer with: those named *)
(* by the weekday, copies left behind included.                            *)
(***************************************************************************)
Matches(a, i) == item[i].board = "schedule" /\ item[i].weekday = daily[a].weekday

FindScheduleItem(a) ==
    /\ daily[a].pc = "search"
    /\ \E i \in DOMAIN item :
          /\ Matches(a, i)
          /\ DailyTo(a, [daily[a] EXCEPT !.pc = "duplicate", !.found = i, !.tries = 1])
    /\ UNCHANGED <<day, groups, item, hangUps, restarts, repeated>>

(***************************************************************************)
(* Every page was empty, or an answer with errors ended the loop.          *)
(***************************************************************************)
FindsNone(a) ==
    /\ daily[a].pc = "search"
    /\ Goto(a, "returned")
    /\ UNCHANGED <<day, groups, item, hangUps, restarts, repeated>>

----------------------------------------------------------------------------
(* The mutations, each through retryMondayApi                              *)

(***************************************************************************)
(* Monday puts a copy of the found item on the schedule board.             *)
(***************************************************************************)
AddCopy(a) ==
    /\ Len(item) < MaxItems
    /\ item' = Append(item, [board |-> "schedule", group |-> NoGroup,
                             weekday |-> item[daily[a].found].weekday,
                             date |-> item[daily[a].found].date, by |-> a])

(***************************************************************************)
(* Mutant of MovedItem: the found item is moved, not its copy.             *)
(***************************************************************************)
MovedItemFound(a) == daily[a].found

MovedItem(a) == daily[a].copy

(***************************************************************************)
(* Mutant of MovedTo: the group of the day on which the item is moved.     *)
(***************************************************************************)
MovedToToday(a) == WeekdayOf(day)

MovedTo(a) == daily[a].weekday

MoveCopy(a) ==
    LET i == MovedItem(a)
    IN  item' = [item EXCEPT ![i] = [board |-> "target", group |-> MovedTo(a),
                                     weekday |-> item[i].weekday, date |-> item[i].date,
                                     by |-> item[i].by]]

RenameCopy(a) ==
    LET i == daily[a].copy
    IN  item' = [item EXCEPT ![i] = [board |-> item[i].board, group |-> item[i].group,
                                     weekday |-> daily[a].weekday, date |-> daily[a].date,
                                     by |-> item[i].by]]

MutationPC == {"duplicate", "move", "rename"}

Effect(a) == \/ daily[a].pc = "duplicate" /\ AddCopy(a)
             \/ daily[a].pc = "move" /\ MoveCopy(a)
             \/ daily[a].pc = "rename" /\ RenameCopy(a)

(***************************************************************************)
(* The copy's id and, read when it arrives, the date.                      *)
(***************************************************************************)
Duplicated(a) ==
    /\ daily[a].pc = "duplicate"
    /\ Effect(a)
    /\ DailyTo(a, [daily[a] EXCEPT !.pc = "mapping", !.copy = Len(item'), !.date = day])
    /\ UNCHANGED <<day, groups, hangUps, restarts, repeated>>

Moved(a) ==
    /\ daily[a].pc = "move"
    /\ Effect(a)
    /\ Goto(a, "rename")
    /\ UNCHANGED <<day, groups, hangUps, restarts, repeated>>

Renamed(a) ==
    /\ daily[a].pc = "rename"
    /\ Effect(a)
    /\ Goto(a, "done")
    /\ UNCHANGED <<day, groups, hangUps, restarts, repeated>>

(***************************************************************************)
(* Mutant of Retryable: every error is retried.                            *)
(***************************************************************************)
RetryableAny(e) == TRUE

Retryable(e) == e = "socket hang up"

(***************************************************************************)
(* Mutant of AttemptsLeft: one attempt too many.                           *)
(***************************************************************************)
AttemptsLeftOneMore(d) == d.tries <= DailyTries

AttemptsLeft(d) == d.tries < DailyTries

(***************************************************************************)
(* The request may have been carried out all the same.                     *)
(***************************************************************************)
MutationRejects(a, e) ==
    LET d == daily[a]
    IN  /\ d.pc \in MutationPC
        /\ IF e = "socket hang up" THEN hangUps < MaxHangUps /\ hangUps' = hangUps + 1
           ELSE UNCHANGED hangUps
        /\ Effect(a) \/ UNCHANGED item
        /\ DailyTo(a, IF Retryable(e) /\ AttemptsLeft(d) THEN [d EXCEPT !.tries = d.tries + 1]
                      ELSE [d EXCEPT !.pc = "thrown"])
        /\ repeated' = IF e = "socket hang up" /\ d.pc = "duplicate"
                       THEN repeated \cup {a} ELSE repeated
        /\ UNCHANGED <<day, groups, restarts>>

(***************************************************************************)
(* An answer with errors: execute returns.                                 *)
(***************************************************************************)
DailyRefused(a) ==
    /\ daily[a].pc \in MutationPC
    /\ Goto(a, "returned")
    /\ UNCHANGED <<day, groups, item, hangUps, restarts, repeated>>

(***************************************************************************)
(* A query or a storage call rejects.                                      *)
(***************************************************************************)
ReadFails(a) ==
    /\ daily[a].pc \in {"search", "mapping"}
    /\ Goto(a, "thrown")
    /\ UNCHANGED <<day, groups, item, hangUps, restarts, repeated>>

----------------------------------------------------------------------------
(***************************************************************************)
(* The group mapping is asked for when the copy exists already; without a  *)
(* group for the weekday, or when the storage fails, execute returns.      *)
(***************************************************************************)
GotGroupMapping(a) ==
    /\ daily[a].pc = "mapping"
    /\ \/ daily[a].weekday \in groups /\ Goto(a, "wait")
       \/ Goto(a, "returned")
    /\ UNCHANGED <<day, groups, item, hangUps, restarts, repeated>>

(***************************************************************************)
(* The timer of 15 seconds fires.                                          *)
(***************************************************************************)
WaitIsOver(a) ==
    /\ daily[a].pc = "wait"
    /\ Goto(a, "move")
    /\ UNCHANGED <<day, groups, item, hangUps, restarts, repeated>>

(***************************************************************************)
(* What a run had awaited is gone; no run is taken up again.               *)
(***************************************************************************)
RestartDaily ==
    /\ restarts < MaxRestarts
    /\ \E a \in DailyRuns : daily[a].pc \notin Ended \cup {"idle"}
    /\ restarts' = restarts + 1
    /\ daily' = [a \in DailyRuns |-> IF daily[a].pc \in Ended \cup {"idle"} THEN daily[a]
                                     ELSE [daily[a] EXCEPT !.pc = "lost"]]
    /\ UNCHANGED <<day, groups, item, hangUps, repeated>>

DailyStep(a) == \/ FindScheduleItem(a) \/ FindsNone(a)
                \/ Duplicated(a) \/ GotGroupMapping(a) \/ WaitIsOver(a)
                \/ Moved(a) \/ Renamed(a)
                \/ \E e \in {"socket hang up", "other"} : MutationRejects(a, e)
                \/ DailyRefused(a) \/ ReadFails(a)

DailyNext == \/ Midnight \/ RestartDaily
             \/ \E a \in DailyRuns : StartDaily(a) \/ GiveUpDaily(a) \/ DailyStep(a)

DailySpec == DailyInit /\ [][DailyNext]_dailyVars

----------------------------------------------------------------------------
OnTarget == {i \in DOMAIN item : item[i].board = "target"}

(***************************************************************************)
(* A run puts at most one item on the target board, the copy it was given  *)
(* by Monday: not the item it duplicated, and not the copy of another run  *)
(* or of an earlier attempt, however mutations are repeated.               *)
(***************************************************************************)
OneTaskPerRun ==
    \A i \in OnTarget : item[i].by \in DailyRuns /\ daily[item[i].by].copy = i

(***************************************************************************)
(* A task lies in the group of the weekday its name begins with, and once  *)
(* its run has ended well the date in its name is of that weekday, unless  *)
(* midnight passed between the reading of the weekday and of the date.     *)
(* (A copy that another run left may be duplicated with the date it has.)  *)
(***************************************************************************)
TaskNamesOneDay ==
    \A i \in OnTarget :
        LET t == item[i]
            d == daily[t.by]
        IN  /\ t.group = t.weekday
            /\ d.pc = "done" => WeekdayOf(t.date) = t.weekday \/ t.date > d.started

(***************************************************************************)
(* A run that ended well leaves one item, on the target board and with its *)
(* date; what is left on the schedule board under the name of a weekday    *)
(* comes from runs that failed, were lost, or repeated a duplicate.        *)
(***************************************************************************)
LeftoversExplained ==
    \A a \in DailyRuns : daily[a].pc = "done" =>
        /\ daily[a].copy \in OnTarget /\ item[daily[a].copy].date = daily[a].date
        /\ \A i \in DOMAIN item : item[i].by = a /\ i # daily[a].copy => a \in repeated
=============================================================================
