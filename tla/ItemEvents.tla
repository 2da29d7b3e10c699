----------------------------- MODULE ItemEvents -----------------------------
(***************************************************************************)
(* SyncItemInCalendarService: an event in Google Calendar for an item of a *)
(* Monday board, and the link to it in a column of the item.  The item's   *)
(* id travels in the event's extendedProperties; when the event is         *)
(* cancelled, the calendar webhook deletes the item (CalendarSync has the  *)
(* way from the cancellation to the deletion; here it is one action).      *)
(*                                                                         *)
(* One action per await of execute.  Every Google call is made with the    *)
(* credentials the process-wide client carries when the call is made.      *)
(***************************************************************************)
EXTENDS Naturals, Sequences, FiniteSets

CONSTANTS People,      \* users of Google Calendar, each with a primary calendar
          Items,       \* items of the board
          Requests,    \* calls of the endpoint, <<user, n>>
          Times,       \* start and end, as they may be written, see Normalize
          LinkTries,   \* attempts of retryMondayApi
          MaxEvents,   \* bound on the events
          NoOne, NoItem

ASSUME PeopleAssumption == NoOne \notin People
ASSUME RequestsAssumption == Requests \subseteq People \X Nat
ASSUME NoItemAssumption == NoItem \notin Items
ASSUME EventBoundsAssumption == LinkTries \in Nat \ {0} /\ MaxEvents \in Nat

VARIABLES calendarId,  \* storage calendar-config: "shared" or "primary"
          credentials, \* whose the shared oauth2Client carries
          event,       \* Google: the events, in the order of their creation
          link,        \* Monday: the event each item's column links to, or 0
          alive,       \* Monday: the items that exist
          sync,        \* the calls
          replaced     \* history: calls during which another set the credentials

itemVars == <<calendarId, credentials, event, link, alive, sync, replaced>>

----------------------------------------------------------------------------
(***************************************************************************)
(* A time is a day and a month, written in one of several forms; the rest  *)
(* of it is carried along by every form in the same way.                   *)
(***************************************************************************)
Dates == [day : 1..12, month : 1..12]
NoDate == [day |-> 0, month |-> 0]

WrittenTime == [form : {"iso", "monthName", "unknownMonth", "ymd", "dmy", "other"},
                first : 1..12, second : 1..12]

ASSUME TimesAssumption == Times \subseteq WrittenTime \X WrittenTime

(***************************************************************************)
(* Mutant of Normalize: month and day of the last form are swapped.        *)
(***************************************************************************)
NormalizeMdy(w) ==
    CASE w.form \in {"iso", "ymd", "dmy"} -> [month |-> w.first, day |-> w.second]
      [] w.form = "monthName" -> [day |-> w.first, month |-> w.second]
      [] OTHER -> NoDate

(***************************************************************************)
(* normalizeDateTime: the numbers of the text in their order, by the       *)
(* regular expression that matches.                                        *)
(***************************************************************************)
Normalize(w) ==
    CASE w.form \in {"iso", "ymd"} -> [month |-> w.first, day |-> w.second]
      [] w.form \in {"monthName", "dmy"} -> [day |-> w.first, month |-> w.second]
      [] OTHER -> NoDate

----------------------------------------------------------------------------
Event == [item : Items, calendar : {"shared"} \cup People, organizer : People,
          start : Dates, end : Dates, attendee : People \cup {NoOne}, cancelled : BOOLEAN, by : Requests]

SyncPC == {"idle", "tokens", "config", "calendars", "insert", "link",
           "returned", "thrown", "done"}
Sync == [pc : SyncPC, item : Items \cup {NoItem},
         start : WrittenTime, end : WrittenTime, assignee : People \cup {NoOne},
         attendee : People \cup {NoOne}, as : People \cup {NoOne}, listed : BOOLEAN,
         event : 0..MaxEvents, tries : 0..LinkTries]

ItemTypeOK == /\ calendarId \in {"shared", "primary"}
              /\ credentials \in People \cup {NoOne}
              /\ event \in Seq(Event) /\ Len(event) <= MaxEvents
              /\ link \in [Items -> 0..MaxEvents]
              /\ alive \subseteq Items
              /\ sync \in [Requests -> Sync]
              /\ replaced \subseteq Requests

UserOf(q) == q[1]

NoTime == [form |-> "other", first |-> 1, second |-> 1]

ItemInit == /\ calendarId \in {"shared", "primary"}
            /\ credentials = NoOne
            /\ event = <<>>
            /\ link = [i \in Items |-> 0]
            /\ alive = Items
            /\ sync = [q \in Requests |->
                          [pc |-> "idle", item |-> NoItem, start |-> NoTime, end |-> NoTime,
                           assignee |-> NoOne, attendee |-> NoOne, as |-> NoOne,
                           listed |-> FALSE, event |-> 0, tries |-> 0]]
            /\ replaced = {}

SyncTo(q, s) == sync' = [sync EXCEPT ![q] = s]
Ends(q, how) == SyncTo(q, [sync[q] EXCEPT !.pc = how])

(***************************************************************************)
(* The endpoint is called for an item that exists, with the calendar       *)
(* configuration of the automation.                                        *)
(***************************************************************************)
StartSync(q, i, time, who) ==
    /\ sync[q].pc = "idle"
    /\ i \in alive
    /\ SyncTo(q, [sync[q] EXCEPT !.pc = "tokens", !.item = i, !.start = time[1],
                                 !.end = time[2], !.assignee = who])
    /\ UNCHANGED <<calendarId, credentials, event, link, alive, replaced>>

(***************************************************************************)
(* No session, or a field is missing.                                      *)
(***************************************************************************)
GiveUpSync(q) ==
    /\ sync[q].pc = "idle"
    /\ Ends(q, "returned")
    /\ UNCHANGED <<calendarId, credentials, event, link, alive, replaced>>

(***************************************************************************)
(* Mutant of CredentialsSet: they are set only when there are none.        *)
(***************************************************************************)
CredentialsSetOnce(u) == IF credentials = NoOne THEN u ELSE credentials

CredentialsSet(u) == u

BetweenSetAndInsert == {q \in Requests : sync[q].pc \in {"config", "calendars"}}

(***************************************************************************)
(* The stored tokens arrive and become the client's credentials; a user    *)
(* who has not connected a calendar has none.                              *)
(***************************************************************************)
GotCalendarTokens(q) ==
    LET u == UserOf(q)
    IN  /\ sync[q].pc = "tokens"
        /\ \/ /\ credentials' = CredentialsSet(u)
              /\ replaced' = replaced \cup {p \in BetweenSetAndInsert : UserOf(p) # u}
              /\ Ends(q, "config")
           \/ /\ Ends(q, "returned")
              /\ UNCHANGED <<credentials, replaced>>
        /\ UNCHANGED <<calendarId, event, link, alive>>

(***************************************************************************)
(* GET google-calendar/list-calendars of a user: the stored tokens arrive  *)
(* and become the client's credentials too; the listing only answers.      *)
(* Requests that have not set the credentials yet will do so themselves,   *)
(* so that only those between the two matter.                              *)
(***************************************************************************)
ListCalendarsOf(u) ==
    /\ \E p \in BetweenSetAndInsert : UserOf(p) # u
    /\ credentials' = u
    /\ replaced' = replaced \cup {p \in BetweenSetAndInsert : UserOf(p) # u}
    /\ UNCHANGED <<calendarId, event, link, alive, sync>>

(***************************************************************************)
(* The calendar id arrives, and listCalendars is sent; without a stored    *)
(* configuration execute returns.                                          *)
(***************************************************************************)
GotCalendarConfig(q) ==
    /\ sync[q].pc = "config"
    /\ \/ SyncTo(q, [sync[q] EXCEPT !.pc = "calendars", !.as = credentials])
       \/ Ends(q, "returned")
    /\ UNCHANGED <<calendarId, credentials, event, link, alive, replaced>>

(***************************************************************************)
(* The assignee is not invited to an event on the assignee's own primary   *)
(* calendar; a listing that failed names no primary calendar.              *)
(***************************************************************************)
AttendeeOf(s, primary) == IF s.assignee = primary THEN NoOne ELSE s.assignee

(***************************************************************************)
(* listCalendars answers, and events.insert is sent if both times can be   *)
(* read; otherwise createCalendarEvent returns null and execute returns.   *)
(***************************************************************************)
ListedCalendars(q, primary) ==
    LET s == sync[q]
    IN  /\ s.pc = "calendars"
        /\ primary \in {s.as, NoOne}
        /\ IF NoDate \in {Normalize(s.start), Normalize(s.end)}
           THEN Ends(q, "returned")
           ELSE SyncTo(q, [s EXCEPT !.pc = "insert", !.as = credentials,
                                    !.attendee = AttendeeOf(s, primary),
                                    !.listed = (primary # NoOne)])
        /\ UNCHANGED <<calendarId, credentials, event, link, alive, replaced>>

(***************************************************************************)
(* Google (external) creates the event, on the calendar of the             *)
(* configuration or the primary one of the credentials.                    *)
(***************************************************************************)
Insert(q) ==
    LET s == sync[q]
    IN  /\ Len(event) < MaxEvents
        /\ event' = Append(event,
               [item |-> s.item, calendar |-> IF calendarId = "shared" THEN "shared" ELSE s.as,
                organizer |-> s.as, start |-> Normalize(s.start), end |-> Normalize(s.end),
                attendee |-> s.attendee, cancelled |-> FALSE, by |-> q])

Inserted(q) ==
    /\ sync[q].pc = "insert"
    /\ Insert(q)
    /\ SyncTo(q, [sync[q] EXCEPT !.pc = "link", !.event = Len(event'), !.tries = 1])
    /\ UNCHANGED <<calendarId, credentials, link, alive, replaced>>

(***************************************************************************)
(* events.insert rejects, perhaps after it was carried out, or the event   *)
(* comes without a link: execute returns, and the column stays as it is.   *)
(***************************************************************************)
InsertedWithoutLink(q) ==
    /\ sync[q].pc = "insert"
    /\ Insert(q) \/ UNCHANGED event
    /\ Ends(q, "returned")
    /\ UNCHANGED <<calendarId, credentials, link, alive, replaced>>

WriteLink(q) ==
    /\ sync[q].item \in alive
    /\ link' = [link EXCEPT ![sync[q].item] = sync[q].event]

Linked(q) ==
    /\ sync[q].pc = "link"
    /\ WriteLink(q)
    /\ Ends(q, "done")
    /\ UNCHANGED <<calendarId, credentials, event, alive, replaced>>

LinkHangsUp(q) ==
    LET s == sync[q]
    IN  /\ s.pc = "link"
        /\ WriteLink(q) \/ UNCHANGED link
        /\ IF s.tries < LinkTries THEN SyncTo(q, [s EXCEPT !.tries = s.tries + 1])
           ELSE Ends(q, "thrown")
        /\ UNCHANGED <<calendarId, credentials, event, alive, replaced>>

(***************************************************************************)
(* The mutation is refused (the item may be gone), or rejects.             *)
(***************************************************************************)
LinkFails(q) ==
    /\ sync[q].pc = "link"
    /\ \/ UNCHANGED link /\ Ends(q, "returned")
       \/ (WriteLink(q) \/ UNCHANGED link) /\ Ends(q, "thrown")
    /\ UNCHANGED <<calendarId, credentials, event, alive, replaced>>

(***************************************************************************)
(* A storage call rejects, or what it holds is no JSON.                    *)
(***************************************************************************)
StorageThrows(q) ==
    /\ sync[q].pc \in {"tokens", "config"}
    /\ Ends(q, "thrown")
    /\ UNCHANGED <<calendarId, credentials, event, link, alive, replaced>>

----------------------------------------------------------------------------
(***************************************************************************)
(* A person cancels an event.                                              *)
(***************************************************************************)
CancelEvent(n) ==
    /\ n \in DOMAIN event
    /\ ~event[n].cancelled
    /\ event' = [event EXCEPT ![n] = [event[n] EXCEPT !.cancelled = TRUE]]
    /\ UNCHANGED <<calendarId, credentials, link, alive, sync, replaced>>

(***************************************************************************)
(* Mutant of ItemIdOf: the status of the event is not looked at.           *)
(***************************************************************************)
ItemIdOfAny(n) == event[n].item

(***************************************************************************)
(* mapGoogleEventToDomain: the item to delete, for a cancelled event.      *)
(***************************************************************************)
ItemIdOf(n) == IF event[n].cancelled THEN event[n].item ELSE NoItem

(***************************************************************************)
(* A sync of the watched calendar handles the event.                       *)
(***************************************************************************)
DeleteItemOf(n) ==
    /\ n \in DOMAIN event
    /\ event[n].calendar = "shared"
    /\ ItemIdOf(n) \in alive
    /\ alive' = alive \ {ItemIdOf(n)}
    /\ UNCHANGED <<calendarId, credentials, event, link, sync, replaced>>

SyncStep(q) == \/ GotCalendarTokens(q) \/ GotCalendarConfig(q)
               \/ \E p \in People \cup {NoOne} : ListedCalendars(q, p)
               \/ Inserted(q) \/ InsertedWithoutLink(q)
               \/ Linked(q) \/ LinkHangsUp(q) \/ LinkFails(q)
               \/ StorageThrows(q)

ItemNext ==
    \/ \E q \in Requests :
          \/ \E i \in Items, time \in Times, who \in People : StartSync(q, i, time, who)
          \/ GiveUpSync(q)
          \/ SyncStep(q)
    \/ \E u \in People : ListCalendarsOf(u)
    \/ \E n \in 1..MaxEvents : CancelEvent(n) \/ DeleteItemOf(n)

ItemSpec == ItemInit /\ [][ItemNext]_itemVars

----------------------------------------------------------------------------
(***************************************************************************)
(* The date a person means who writes it in one of the accepted forms.     *)
(***************************************************************************)
Means(w) == [day |-> IF w.form \in {"dmy", "monthName"} THEN w.first ELSE w.second,
             month |-> IF w.form \in {"dmy", "monthName"} THEN w.second ELSE w.first]

(***************************************************************************)
(* The event an item's column links to was created for that item, from and *)
(* to the dates that were written, by a request whose answer named it.     *)
(***************************************************************************)
LinkNamesEventOfItem ==
    \A i \in Items : link[i] # 0 =>
        LET e == event[link[i]]
        IN  /\ link[i] \in DOMAIN event
            /\ e.item = i /\ sync[e.by].event = link[i]
            /\ e.start = Means(sync[e.by].start) /\ e.end = Means(sync[e.by].end)

(***************************************************************************)
(* An event is created in the name of the user of its request, and the     *)
(* owner of the calendar is not invited to it, unless another request      *)
(* replaced the credentials in between or the calendars could not be       *)
(* listed.                                                                 *)
(***************************************************************************)
EventIsOfItsUser ==
    \A n \in DOMAIN event :
        LET e == event[n]
        IN  e.by \notin replaced =>
                /\ e.organizer = UserOf(e.by)
                /\ e.attendee = e.organizer => ~sync[e.by].listed

(***************************************************************************)
(* An item is deleted only after an event that carries its id was          *)
(* cancelled.  That event need not be the one its column links to: then    *)
(* the endpoint was called more than once for the item.                    *)
(***************************************************************************)
DeletedItemHadCancelledEvent ==
    \A i \in Items \ alive :
        \E n \in DOMAIN event :
            /\ event[n].item = i /\ event[n].cancelled
            /\ link[i] \notin {0, n} => event[link[i]].by # event[n].by
=============================================================================
