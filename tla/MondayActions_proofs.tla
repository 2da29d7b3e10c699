------------------------ MODULE MondayActions_proofs ------------------------
(***************************************************************************)
(* Proofs about ItemEvents, for any people, items, requests, times,        *)
(* attempts and bound on the events, and about MondayActions, the five     *)
(* endpoints together.                                                     *)
(***************************************************************************)
EXTENDS MondayActions, BoardActions_proofs, DailyTask_proofs

(***************************************************************************)
(* The places of a request whose event may exist.                          *)
(***************************************************************************)
AfterInsert == {"link", "returned", "thrown", "done"}

(***************************************************************************)
(* The event of a request carries what was written in the request.         *)
(***************************************************************************)
CarriesRequest(n) ==
    LET e == event[n]
        s == sync[e.by]
    IN  /\ s.pc \in AfterInsert
        /\ e.item = s.item
        /\ e.start = Normalize(s.start) /\ e.end = Normalize(s.end)

(***************************************************************************)
(* A request acts with its user's credentials, unless they were replaced   *)
(* before its event was sent.                                              *)
(***************************************************************************)
OwnCredentials(q) ==
    LET s == sync[q]
    IN  /\ s.pc \in {"config", "calendars"} => credentials \in People
        /\ s.pc = "insert" => s.as \in People
        /\ q \notin replaced =>
              /\ s.pc \in {"config", "calendars"} => credentials = UserOf(q)
              /\ s.pc \in {"calendars", "insert"} => s.as = UserOf(q)
              /\ s.pc = "insert" /\ s.attendee = s.as => ~s.listed

(***************************************************************************)
(* A request knows its event once it was answered, and asks for one only   *)
(* when both times can be read.                                            *)
(***************************************************************************)
KnowsEvent(q) ==
    LET s == sync[q]
    IN  /\ s.pc \in {"tokens", "config", "calendars", "insert", "link"} => s.item \in Items
        /\ s.pc = "insert" => {Normalize(s.start), Normalize(s.end)} \subseteq Dates
        /\ s.pc \in {"idle", "tokens", "config", "calendars", "insert"} => s.event = 0
        /\ s.pc = "link" => s.event # 0
        /\ s.event # 0 => s.event \in DOMAIN event /\ event[s.event].by = q

(***************************************************************************)
(* A request has one event at most.                                        *)
(***************************************************************************)
OneEventPerRequest == \A m, n \in DOMAIN event : event[m].by = event[n].by => m = n

LinkedEvent(i) ==
    link[i] # 0 => /\ link[i] \in DOMAIN event
                   /\ event[link[i]].item = i
                   /\ sync[event[link[i]].by].event = link[i]

(***************************************************************************)
(* What holds of the events and the links, and of each request.            *)
(***************************************************************************)
RecordsInv == /\ \A n \in DOMAIN event : CarriesRequest(n)
              /\ OneEventPerRequest
              /\ \A i \in Items : LinkedEvent(i)
              /\ EventIsOfItsUser
              /\ DeletedItemHadCancelledEvent

RequestInv(q) == OwnCredentials(q) /\ KnowsEvent(q)

EventsInv == /\ ItemTypeOK
             /\ RecordsInv
             /\ \A q \in Requests : RequestInv(q)

----------------------------------------------------------------------------
(* Requests, their records and the events                                  *)

LEMMA UserType ==
  ASSUME NEW q \in Requests
  PROVE  UserOf(q) \in People
  BY RequestsAssumption DEF UserOf

LEMMA NormalizeType ==
  ASSUME NEW w \in WrittenTime, Normalize(w) # NoDate
  PROVE  Normalize(w) \in Dates /\ Normalize(w) = Means(w)
<1>1. w.form \in {"iso", "monthName", "ymd", "dmy"}
  BY DEF Normalize
<1>2. w.first \in 1..12 /\ w.second \in 1..12
  BY DEF WrittenTime
<1>3. CASE w.form \in {"iso", "ymd"}
  <2>1. Normalize(w) = [month |-> w.first, day |-> w.second]
    BY <1>3 DEF Normalize
  <2>2. Means(w) = [day |-> w.second, month |-> w.first]
    BY <1>3 DEF Means
  <2> QED BY <1>2, <2>1, <2>2 DEF Dates
<1>4. CASE w.form \in {"monthName", "dmy"}
  <2>1. Normalize(w) = [day |-> w.first, month |-> w.second]
    BY <1>4 DEF Normalize
  <2>2. Means(w) = [day |-> w.first, month |-> w.second]
    BY <1>4 DEF Means
  <2> QED BY <1>2, <2>1, <2>2 DEF Dates
<1> QED BY <1>1, <1>3, <1>4

LEMMA NoDateIsNone == NoDate \notin Dates
<1>1. NoDate.day = 0
  BY DEF NoDate
<1>2. \A d \in Dates : d.day \in 1..12
  BY DEF Dates
<1>3. 0 \notin 1..12
  OBVIOUS
<1> QED BY <1>1, <1>2, <1>3

(***************************************************************************)
(* What a record of a call holds.                                          *)
(***************************************************************************)
LEMMA SyncFields ==
  ASSUME NEW s \in Sync
  PROVE  /\ s.pc \in SyncPC /\ s.item \in Items \cup {NoItem}
         /\ s.start \in WrittenTime /\ s.end \in WrittenTime
         /\ s.assignee \in People \cup {NoOne} /\ s.attendee \in People \cup {NoOne}
         /\ s.as \in People \cup {NoOne} /\ s.listed \in BOOLEAN
         /\ s.event \in 0..MaxEvents /\ s.tries \in 0..LinkTries
         /\ s = [pc |-> s.pc, item |-> s.item, start |-> s.start, end |-> s.end,
                 assignee |-> s.assignee, attendee |-> s.attendee, as |-> s.as,
                 listed |-> s.listed, event |-> s.event, tries |-> s.tries]
  BY DEF Sync

LEMMA EventFields ==
  ASSUME NEW e \in Event
  PROVE  /\ e.item \in Items /\ e.calendar \in {"shared"} \cup People
         /\ e.organizer \in People /\ e.start \in Dates /\ e.end \in Dates
         /\ e.attendee \in People \cup {NoOne} /\ e.cancelled \in BOOLEAN
         /\ e.by \in Requests
  BY DEF Event

LEMMA PcEffect ==
  ASSUME NEW s \in Sync, NEW how \in SyncPC
  PROVE  LET t == [s EXCEPT !.pc = how]
         IN  /\ t \in Sync /\ t.pc = how
             /\ t.item = s.item /\ t.start = s.start /\ t.end = s.end
             /\ t.attendee = s.attendee /\ t.as = s.as /\ t.listed = s.listed
             /\ t.event = s.event
  BY DEF Sync

LEMMA SetEffect ==
  ASSUME ItemTypeOK, NEW q \in Requests, NEW s \in Sync, SyncTo(q, s)
  PROVE  /\ sync' \in [Requests -> Sync]
         /\ sync'[q] = s
         /\ \A p \in Requests : p # q => sync'[p] = sync[p]
  BY DEF ItemTypeOK, SyncTo

LEMMA EventTypes ==
  ASSUME ItemTypeOK, NEW n \in DOMAIN event
  PROVE  /\ n \in 1..MaxEvents /\ n # 0
         /\ event[n] \in Event /\ event[n].by \in Requests
         /\ sync[event[n].by] \in Sync
<1>1. event \in Seq(Event) /\ Len(event) <= MaxEvents /\ MaxEvents \in Nat
  BY EventBoundsAssumption DEF ItemTypeOK
<1>2. event[n] \in Event /\ n \in 1..Len(event)
  BY <1>1
<1> QED BY <1>1, <1>2, EventFields DEF ItemTypeOK

LEMMA EndsEffect ==
  ASSUME ItemTypeOK, NEW q \in Requests, NEW how \in SyncPC, Ends(q, how)
  PROVE  /\ sync' \in [Requests -> Sync]
         /\ sync'[q].pc = how
         /\ sync'[q].item = sync[q].item /\ sync'[q].start = sync[q].start
         /\ sync'[q].end = sync[q].end /\ sync'[q].attendee = sync[q].attendee
         /\ sync'[q].as = sync[q].as /\ sync'[q].listed = sync[q].listed
         /\ sync'[q].event = sync[q].event
         /\ \A p \in Requests : p # q => sync'[p] = sync[p]
<1>1. sync[q] \in Sync
  BY DEF ItemTypeOK
<1> DEFINE s == [sync[q] EXCEPT !.pc = how]
<1>2. /\ s \in Sync /\ s.pc = how
      /\ s.item = sync[q].item /\ s.start = sync[q].start /\ s.end = sync[q].end
      /\ s.attendee = sync[q].attendee /\ s.as = sync[q].as /\ s.listed = sync[q].listed
      /\ s.event = sync[q].event
  BY <1>1, PcEffect
<1>3. SyncTo(q, s)
  BY DEF Ends
<1> HIDE DEF s
<1> QED BY <1>2, <1>3, SetEffect

----------------------------------------------------------------------------
(* Steps that leave the events alone                                       *)

LEMMA RecordsStay ==
  ASSUME ItemTypeOK, RecordsInv, UNCHANGED <<event, link, alive>>, replaced \subseteq replaced',
         \A p \in Requests :
            /\ sync'[p].event = sync[p].event
            /\ sync[p].pc \in AfterInsert =>
                  /\ sync'[p].pc \in AfterInsert /\ sync'[p].item = sync[p].item
                  /\ sync'[p].start = sync[p].start /\ sync'[p].end = sync[p].end
                  /\ sync'[p].listed = sync[p].listed
  PROVE  RecordsInv'
<1>1. \A n \in DOMAIN event : event[n].by \in Requests /\ sync[event[n].by].pc \in AfterInsert
  BY EventTypes DEF RecordsInv, CarriesRequest
<1>2. \A n \in DOMAIN event' : CarriesRequest(n)'
  BY <1>1 DEF RecordsInv, CarriesRequest
<1>3. \A i \in Items : LinkedEvent(i)'
  BY <1>1 DEF RecordsInv, LinkedEvent
<1>4. EventIsOfItsUser'
  BY <1>1 DEF RecordsInv, EventIsOfItsUser
<1>5. OneEventPerRequest' /\ DeletedItemHadCancelledEvent'
  BY DEF RecordsInv, OneEventPerRequest, DeletedItemHadCancelledEvent
<1> QED BY <1>2, <1>3, <1>4, <1>5 DEF RecordsInv

LEMMA RequestStays ==
  ASSUME NEW p \in Requests, RequestInv(p), sync'[p] = sync[p],
         UNCHANGED <<credentials, event, replaced>>
  PROVE  RequestInv(p)'
  BY DEF RequestInv, OwnCredentials, KnowsEvent

(***************************************************************************)
(* A request moves on from t before, and keeps what its event was made of. *)
(***************************************************************************)
LEMMA RequestMoves ==
  ASSUME EventsInv, NEW q \in Requests, UNCHANGED <<calendarId, credentials, event, link, alive, replaced>>,
         sync' \in [Requests -> Sync], \A p \in Requests : p # q => sync'[p] = sync[p],
         sync'[q].event = sync[q].event,
         sync[q].pc \in AfterInsert =>
            /\ sync'[q].pc \in AfterInsert /\ sync'[q].item = sync[q].item
            /\ sync'[q].start = sync[q].start /\ sync'[q].end = sync[q].end
            /\ sync'[q].listed = sync[q].listed,
         RequestInv(q)'
  PROVE  EventsInv'
<1>1. ItemTypeOK'
  BY DEF EventsInv, ItemTypeOK
<1>2. \A p \in Requests :
         /\ sync'[p].event = sync[p].event
         /\ sync[p].pc \in AfterInsert =>
               /\ sync'[p].pc \in AfterInsert /\ sync'[p].item = sync[p].item
               /\ sync'[p].start = sync[p].start /\ sync'[p].end = sync[p].end
               /\ sync'[p].listed = sync[p].listed
  OBVIOUS
<1>3. RecordsInv'
  BY <1>2, RecordsStay DEF EventsInv
<1>4. \A p \in Requests : RequestInv(p)'
  BY RequestStays DEF EventsInv
<1> QED BY <1>1, <1>3, <1>4 DEF EventsInv

LEMMA RequestEnds ==
  ASSUME EventsInv, NEW q \in Requests, NEW how \in {"returned", "thrown", "done"}, Ends(q, how),
         UNCHANGED <<calendarId, credentials, event, link, alive, replaced>>
  PROVE  EventsInv'
<1>1. ItemTypeOK /\ RequestInv(q) /\ how \in SyncPC
  BY DEF EventsInv, SyncPC
<1>2. /\ sync' \in [Requests -> Sync] /\ \A p \in Requests : p # q => sync'[p] = sync[p]
      /\ sync'[q].pc = how /\ sync'[q].event = sync[q].event
      /\ sync'[q].item = sync[q].item /\ sync'[q].start = sync[q].start
      /\ sync'[q].end = sync[q].end /\ sync'[q].listed = sync[q].listed
  BY <1>1, EndsEffect
<1>3. RequestInv(q)'
  BY <1>1, <1>2 DEF RequestInv, OwnCredentials, KnowsEvent
<1> QED BY <1>2, <1>3, RequestMoves DEF AfterInsert

LEMMA StartSyncInv ==
  ASSUME EventsInv, NEW q \in Requests, NEW i \in Items, NEW time \in Times, NEW who \in People,
         StartSync(q, i, time, who)
  PROVE  EventsInv'
<1>1. ItemTypeOK /\ RequestInv(q) /\ sync[q] \in Sync /\ sync[q].pc = "idle"
  BY DEF EventsInv, ItemTypeOK, StartSync
<1>2. time[1] \in WrittenTime /\ time[2] \in WrittenTime
  BY TimesAssumption
<1> DEFINE s == [sync[q] EXCEPT !.pc = "tokens", !.item = i, !.start = time[1],
                                !.end = time[2], !.assignee = who]
<1>3. s \in Sync /\ s.pc = "tokens" /\ s.item = i /\ s.event = sync[q].event
  BY <1>1, <1>2 DEF Sync, SyncPC
<1>4. SyncTo(q, s)
  BY DEF StartSync
<1> HIDE DEF s
<1>5. /\ sync' \in [Requests -> Sync] /\ sync'[q] = s
      /\ \A p \in Requests : p # q => sync'[p] = sync[p]
  BY <1>1, <1>3, <1>4, SetEffect
<1>6. RequestInv(q)'
  BY <1>1, <1>3, <1>5 DEF RequestInv, OwnCredentials, KnowsEvent
<1> QED BY <1>1, <1>3, <1>5, <1>6, RequestMoves DEF StartSync, AfterInsert

(***************************************************************************)
(* The calendars are asked for with the credentials of the moment.         *)
(***************************************************************************)
LEMMA GotCalendarConfigInv ==
  ASSUME EventsInv, NEW q \in Requests, GotCalendarConfig(q)
  PROVE  EventsInv'
<1>1. /\ ItemTypeOK /\ RequestInv(q) /\ sync[q] \in Sync /\ sync[q].pc = "config"
      /\ UNCHANGED <<calendarId, credentials, event, link, alive, replaced>>
  BY DEF EventsInv, ItemTypeOK, GotCalendarConfig
<1>2. CASE Ends(q, "returned")
  BY <1>1, <1>2, RequestEnds
<1>3. CASE SyncTo(q, [sync[q] EXCEPT !.pc = "calendars", !.as = credentials])
  <2> DEFINE s == [sync[q] EXCEPT !.pc = "calendars", !.as = credentials]
  <2>1. /\ s \in Sync /\ s.pc = "calendars" /\ s.as = credentials
        /\ s.item = sync[q].item /\ s.event = sync[q].event
    BY <1>1 DEF ItemTypeOK, Sync, SyncPC
  <2>2. SyncTo(q, s)
    BY <1>3
  <2> HIDE DEF s
  <2>3. /\ sync' \in [Requests -> Sync] /\ sync'[q] = s
        /\ \A p \in Requests : p # q => sync'[p] = sync[p]
    BY <1>1, <2>1, <2>2, SetEffect
  <2>4. RequestInv(q)'
    BY <1>1, <2>1, <2>3 DEF RequestInv, OwnCredentials, KnowsEvent
  <2> QED BY <1>1, <2>1, <2>3, <2>4, RequestMoves DEF AfterInsert
<1> QED BY <1>2, <1>3 DEF GotCalendarConfig

(***************************************************************************)
(* A request that listed the calendars of its own user does not invite the *)
(* owner of the calendar.                                                  *)
(***************************************************************************)
LEMMA ListedCalendarsInv ==
  ASSUME EventsInv, NEW q \in Requests, NEW p \in People \cup {NoOne}, ListedCalendars(q, p)
  PROVE  EventsInv'
<1>1. /\ ItemTypeOK /\ RequestInv(q) /\ sync[q] \in Sync /\ sync[q].pc = "calendars"
      /\ p \in {sync[q].as, NoOne}
      /\ UNCHANGED <<calendarId, credentials, event, link, alive, replaced>>
  BY DEF EventsInv, ItemTypeOK, ListedCalendars
<1>2. CASE NoDate \in {Normalize(sync[q].start), Normalize(sync[q].end)}
  BY <1>1, <1>2, RequestEnds DEF ListedCalendars
<1>3. CASE NoDate \notin {Normalize(sync[q].start), Normalize(sync[q].end)}
  <2> DEFINE att == AttendeeOf(sync[q], p)
             lst == p # NoOne
             s == [sync[q] EXCEPT !.pc = "insert", !.as = credentials, !.attendee = att,
                                  !.listed = lst]
  <2>1. att \in People \cup {NoOne} /\ lst \in BOOLEAN
    BY <1>1, SyncFields DEF AttendeeOf
  <2>2. /\ s \in Sync /\ s.pc = "insert" /\ s.as = credentials
        /\ s.attendee = att /\ s.listed = lst
        /\ s.item = sync[q].item /\ s.event = sync[q].event
        /\ s.start = sync[q].start /\ s.end = sync[q].end
    <3> HIDE DEF att, lst
    <3> QED BY <1>1, <2>1 DEF ItemTypeOK, Sync, SyncPC
  <2>3. SyncTo(q, s)
    BY <1>3 DEF ListedCalendars
  <2>4. q \notin replaced /\ att = credentials => ~lst
    <3>1. q \notin replaced => credentials = UserOf(q) /\ sync[q].as = UserOf(q)
      BY <1>1 DEF RequestInv, OwnCredentials
    <3> QED BY <1>1, <3>1, UserType, PeopleAssumption DEF AttendeeOf
  <2> HIDE DEF s, att, lst
  <2>5. /\ sync' \in [Requests -> Sync] /\ sync'[q] = s
        /\ \A r \in Requests : r # q => sync'[r] = sync[r]
    BY <1>1, <2>2, <2>3, SetEffect
  <2>6. {Normalize(sync[q].start), Normalize(sync[q].end)} \subseteq Dates
    BY <1>1, <1>3, SyncFields, NormalizeType
  <2>7. RequestInv(q)'
    BY <1>1, <2>2, <2>4, <2>5, <2>6 DEF RequestInv, OwnCredentials, KnowsEvent
  <2> QED BY <1>1, <2>2, <2>5, <2>7, RequestMoves DEF AfterInsert
<1> QED BY <1>2, <1>3

(***************************************************************************)
(* Whoever sets the credentials replaces those of every other user's       *)
(* request that has yet to send its event.                                 *)
(***************************************************************************)
LEMMA CredentialsReplaced ==
  ASSUME EventsInv, NEW u \in People, credentials' = u, event' = event,
         replaced' = replaced \cup {p \in BetweenSetAndInsert : UserOf(p) # u},
         NEW p \in Requests, sync'[p] = sync[p]
  PROVE  RequestInv(p)'
<1>1. RequestInv(p)
  BY DEF EventsInv
<1>2. p \notin replaced' => /\ p \notin replaced
                            /\ sync[p].pc \in {"config", "calendars"} => UserOf(p) = u
  BY DEF BetweenSetAndInsert
<1>3. OwnCredentials(p)'
  BY <1>1, <1>2 DEF RequestInv, OwnCredentials, UserOf
<1> QED BY <1>1, <1>3 DEF RequestInv, KnowsEvent

LEMMA ListCalendarsOfInv ==
  ASSUME EventsInv, NEW u \in People, ListCalendarsOf(u)
  PROVE  EventsInv'
<1>1. ItemTypeOK'
  BY DEF EventsInv, ItemTypeOK, ListCalendarsOf, BetweenSetAndInsert
<1>2. RecordsInv'
  BY RecordsStay DEF EventsInv, ListCalendarsOf
<1>3. \A p \in Requests : RequestInv(p)'
  BY CredentialsReplaced DEF ListCalendarsOf
<1> QED BY <1>1, <1>2, <1>3 DEF EventsInv

LEMMA GotCalendarTokensInv ==
  ASSUME EventsInv, NEW q \in Requests, GotCalendarTokens(q)
  PROVE  EventsInv'
<1> DEFINE u == UserOf(q)
<1>1. /\ ItemTypeOK /\ RecordsInv /\ RequestInv(q) /\ sync[q].pc = "tokens" /\ u \in People
      /\ UNCHANGED <<calendarId, event, link, alive>>
  BY UserType DEF EventsInv, GotCalendarTokens
<1>2. CASE Ends(q, "returned") /\ UNCHANGED <<credentials, replaced>>
  BY <1>1, <1>2, RequestEnds
<1>3. CASE /\ credentials' = CredentialsSet(u)
           /\ replaced' = replaced \cup {p \in BetweenSetAndInsert : UserOf(p) # u}
           /\ Ends(q, "config")
  <2>1. /\ sync' \in [Requests -> Sync] /\ \A p \in Requests : p # q => sync'[p] = sync[p]
        /\ sync'[q].pc = "config" /\ sync'[q].event = sync[q].event
        /\ sync'[q].item = sync[q].item
    BY <1>1, <1>3, EndsEffect DEF SyncPC
  <2>2. credentials' = u
    BY <1>3 DEF CredentialsSet
  <2>3. ItemTypeOK'
    BY <1>1, <1>3, <2>1, <2>2 DEF ItemTypeOK, BetweenSetAndInsert
  <2>4. \A p \in Requests :
           /\ sync'[p].event = sync[p].event
           /\ sync[p].pc \in AfterInsert => sync'[p] = sync[p]
    BY <1>1, <2>1 DEF AfterInsert
  <2>5. RecordsInv'
    BY <1>1, <1>3, <2>4, RecordsStay
  <2>6. \A p \in Requests : p # q => RequestInv(p)'
    BY <1>1, <1>3, <2>1, <2>2, CredentialsReplaced
  <2>7. RequestInv(q)'
    BY <1>1, <2>1, <2>2 DEF RequestInv, OwnCredentials, KnowsEvent, UserOf
  <2> QED BY <2>3, <2>5, <2>6, <2>7 DEF EventsInv
<1> QED BY <1>2, <1>3 DEF GotCalendarTokens

----------------------------------------------------------------------------
(* Google creates an event                                                 *)

LEMMA InsertEffect ==
  ASSUME EventsInv, NEW q \in Requests, sync[q].pc = "insert", Insert(q)
  PROVE  /\ event' \in Seq(Event) /\ Len(event') <= MaxEvents
         /\ Len(event') = Len(event) + 1 /\ Len(event') \in 1..MaxEvents
         /\ DOMAIN event' = DOMAIN event \cup {Len(event')} /\ Len(event') \notin DOMAIN event
         /\ \A n \in DOMAIN event : event'[n] = event[n]
         /\ LET e == event'[Len(event')]
                s == sync[q]
            IN  /\ e.by = q /\ e.item = s.item /\ e.organizer = s.as /\ e.attendee = s.attendee
                /\ e.start = Normalize(s.start) /\ e.end = Normalize(s.end)
<1> DEFINE s == sync[q]
           cal == IF calendarId = "shared" THEN "shared" ELSE s.as
           from == Normalize(s.start)
           to == Normalize(s.end)
           e == [item |-> s.item, calendar |-> cal, organizer |-> s.as, start |-> from,
                 end |-> to, attendee |-> s.attendee, cancelled |-> FALSE, by |-> q]
<1>1. /\ s.item \in Items /\ s.as \in People /\ from \in Dates /\ to \in Dates
      /\ s.attendee \in People \cup {NoOne}
  BY SyncFields DEF EventsInv, ItemTypeOK, RequestInv, OwnCredentials, KnowsEvent
<1>2. cal \in {"shared"} \cup People
  BY <1>1
<1>3. event \in Seq(Event) /\ Len(event) < MaxEvents /\ event' = Append(event, e)
  BY DEF EventsInv, ItemTypeOK, Insert
<1>4. /\ e \in Event /\ e.by = q /\ e.item = s.item /\ e.organizer = s.as
      /\ e.attendee = s.attendee /\ e.start = from /\ e.end = to
  <2> HIDE DEF s, cal, from, to
  <2> QED BY <1>1, <1>2 DEF Event
<1> HIDE DEF e
<1>5. /\ event' \in Seq(Event) /\ Len(event') = Len(event) + 1
      /\ event'[Len(event')] = e
      /\ \A n \in DOMAIN event : event'[n] = event[n]
  BY <1>3, <1>4
<1>6. /\ DOMAIN event' = 1..Len(event') /\ DOMAIN event = 1..Len(event)
      /\ Len(event) \in Nat
  BY <1>3, <1>5
<1> QED BY <1>3, <1>4, <1>5, <1>6, EventBoundsAssumption

LEMMA NoEventYet ==
  ASSUME EventsInv, NEW q \in Requests, sync[q].pc \notin AfterInsert
  PROVE  \A n \in DOMAIN event : event[n].by # q
  BY DEF EventsInv, RecordsInv, CarriesRequest

(***************************************************************************)
(* The request that created an event goes on to link it, or ends and       *)
(* never knows of it.                                                      *)
(***************************************************************************)
LEMMA EventCreated ==
  ASSUME EventsInv, NEW q \in Requests, sync[q].pc = "insert", Insert(q),
         UNCHANGED <<calendarId, credentials, link, alive, replaced>>,
         sync' \in [Requests -> Sync], \A p \in Requests : p # q => sync'[p] = sync[p],
         sync'[q].item = sync[q].item, sync'[q].start = sync[q].start,
         sync'[q].end = sync[q].end, sync'[q].listed = sync[q].listed,
         \/ sync'[q].pc = "link" /\ sync'[q].event = Len(event')
         \/ sync'[q].pc = "returned" /\ sync'[q].event = sync[q].event
  PROVE  EventsInv'
<1> DEFINE N == Len(event')
<1>1. /\ event' \in Seq(Event) /\ N <= MaxEvents /\ N \in 1..MaxEvents
      /\ DOMAIN event' = DOMAIN event \cup {N} /\ N \notin DOMAIN event
      /\ \A n \in DOMAIN event : event'[n] = event[n]
      /\ event'[N].by = q /\ event'[N].item = sync[q].item
      /\ event'[N].organizer = sync[q].as /\ event'[N].attendee = sync[q].attendee
      /\ event'[N].start = Normalize(sync[q].start) /\ event'[N].end = Normalize(sync[q].end)
  BY InsertEffect
<1> HIDE DEF N
<1>2. ItemTypeOK /\ RecordsInv /\ RequestInv(q) /\ \A n \in DOMAIN event : event[n].by # q
  BY NoEventYet DEF EventsInv, AfterInsert
<1>3. \A n \in DOMAIN event : event[n].by \in Requests \ {q}
  BY <1>2, EventTypes
<1>4. ItemTypeOK'
  BY <1>1, <1>2 DEF ItemTypeOK, N
<1>5. \A n \in DOMAIN event' : CarriesRequest(n)'
  <2> SUFFICES ASSUME NEW n \in DOMAIN event'
      PROVE  CarriesRequest(n)'
    OBVIOUS
  <2>1. CASE n = N
    BY <1>1, <2>1 DEF CarriesRequest, AfterInsert
  <2>2. CASE n # N
    BY <1>1, <1>2, <1>3, <2>2 DEF RecordsInv, CarriesRequest
  <2> QED BY <2>1, <2>2
<1>6. OneEventPerRequest'
  BY <1>1, <1>2 DEF RecordsInv, OneEventPerRequest
<1>7. \A i \in Items : LinkedEvent(i)'
  BY <1>1, <1>2, <1>3 DEF RecordsInv, LinkedEvent
<1>8. EventIsOfItsUser'
  <2> SUFFICES ASSUME NEW n \in DOMAIN event', event'[n].by \notin replaced
      PROVE  /\ event'[n].organizer = UserOf(event'[n].by)
             /\ event'[n].attendee = event'[n].organizer => ~sync'[event'[n].by].listed
    BY DEF EventIsOfItsUser, UserOf
  <2>1. CASE n = N
    BY <1>1, <1>2, <2>1 DEF RequestInv, OwnCredentials
  <2>2. CASE n # N
    BY <1>1, <1>2, <1>3, <2>2 DEF RecordsInv, EventIsOfItsUser
  <2> QED BY <2>1, <2>2
<1>9. DeletedItemHadCancelledEvent'
  BY <1>1, <1>2 DEF RecordsInv, DeletedItemHadCancelledEvent, LinkedEvent, ItemTypeOK
<1>10. \A p \in Requests : RequestInv(p)'
  <2> SUFFICES ASSUME NEW p \in Requests
      PROVE  RequestInv(p)'
    OBVIOUS
  <2>1. RequestInv(p)
    BY DEF EventsInv
  <2>2. CASE p # q
    <3>1. sync'[p] = sync[p]
      BY <2>2
    <3>2. OwnCredentials(p)'
      BY <2>1, <3>1 DEF RequestInv, OwnCredentials
    <3>3. KnowsEvent(p)'
      BY <1>1, <2>1, <3>1 DEF RequestInv, KnowsEvent
    <3> QED BY <3>2, <3>3 DEF RequestInv
  <2>3. CASE p = q
    <3>1. OwnCredentials(p)'
      BY <2>3 DEF OwnCredentials
    <3>2. sync[q].item \in Items /\ sync[q].event = 0
      BY <2>1, <2>3 DEF RequestInv, KnowsEvent
    <3>3. /\ sync'[q].item \in Items
          /\ \/ sync'[q].pc = "link" /\ sync'[q].event = N
             \/ sync'[q].pc = "returned" /\ sync'[q].event = 0
      BY <3>2 DEF N
    <3>4. KnowsEvent(p)'
      BY <1>1, <2>3, <3>3 DEF KnowsEvent
    <3> QED BY <3>1, <3>4 DEF RequestInv
  <2> QED BY <2>2, <2>3
<1> QED BY <1>4, <1>5, <1>6, <1>7, <1>8, <1>9, <1>10 DEF EventsInv, RecordsInv

LEMMA InsertedInv ==
  ASSUME EventsInv, NEW q \in Requests, Inserted(q)
  PROVE  EventsInv'
<1>1. /\ ItemTypeOK /\ sync[q] \in Sync /\ sync[q].pc = "insert" /\ Insert(q)
      /\ UNCHANGED <<calendarId, credentials, link, alive, replaced>>
  BY DEF EventsInv, ItemTypeOK, Inserted
<1> DEFINE N == Len(event')
           s == [sync[q] EXCEPT !.pc = "link", !.event = N, !.tries = 1]
<1>2. N \in 0..MaxEvents /\ 1 \in 0..LinkTries
  BY <1>1, InsertEffect, EventBoundsAssumption
<1>3. /\ s \in Sync /\ s.pc = "link" /\ s.event = N
      /\ s.item = sync[q].item /\ s.start = sync[q].start /\ s.end = sync[q].end
      /\ s.listed = sync[q].listed
  <2> HIDE DEF N
  <2> QED BY <1>1, <1>2 DEF Sync, SyncPC
<1>4. SyncTo(q, s)
  BY DEF Inserted
<1> HIDE DEF s
<1>5. /\ sync' \in [Requests -> Sync] /\ sync'[q] = s
      /\ \A r \in Requests : r # q => sync'[r] = sync[r]
  BY <1>1, <1>3, <1>4, SetEffect
<1> QED BY <1>1, <1>3, <1>5, EventCreated

LEMMA InsertedWithoutLinkInv ==
  ASSUME EventsInv, NEW q \in Requests, InsertedWithoutLink(q)
  PROVE  EventsInv'
<1>1. /\ ItemTypeOK /\ sync[q].pc = "insert" /\ Ends(q, "returned")
      /\ UNCHANGED <<calendarId, credentials, link, alive, replaced>>
  BY DEF EventsInv, InsertedWithoutLink
<1>2. CASE UNCHANGED event
  BY <1>1, <1>2, RequestEnds
<1>3. CASE Insert(q)
  <2>1. /\ sync' \in [Requests -> Sync] /\ sync'[q].pc = "returned"
        /\ sync'[q].item = sync[q].item /\ sync'[q].start = sync[q].start
        /\ sync'[q].end = sync[q].end /\ sync'[q].listed = sync[q].listed
        /\ sync'[q].event = sync[q].event
        /\ \A p \in Requests : p # q => sync'[p] = sync[p]
    BY <1>1, EndsEffect DEF SyncPC
  <2> QED BY <1>1, <1>3, <2>1, EventCreated
<1> QED BY <1>2, <1>3 DEF InsertedWithoutLink

----------------------------------------------------------------------------
(* The link is written                                                     *)

LEMMA LinkStep ==
  ASSUME EventsInv, NEW q \in Requests, sync[q].pc = "link", WriteLink(q) \/ UNCHANGED link,
         UNCHANGED <<calendarId, credentials, event, alive, replaced>>,
         sync' \in [Requests -> Sync], \A p \in Requests : p # q => sync'[p] = sync[p],
         sync'[q].pc \in AfterInsert, sync'[q].event = sync[q].event,
         sync'[q].item = sync[q].item, sync'[q].start = sync[q].start,
         sync'[q].end = sync[q].end, sync'[q].listed = sync[q].listed
  PROVE  EventsInv'
<1>1. /\ ItemTypeOK /\ RecordsInv /\ RequestInv(q)
      /\ sync[q].item \in Items /\ sync[q].event \in 0..MaxEvents
      /\ sync[q].event \in DOMAIN event /\ event[sync[q].event].by = q
  BY SyncFields DEF EventsInv, ItemTypeOK, RequestInv, KnowsEvent
<1>2. event[sync[q].event].item = sync[q].item
  BY <1>1 DEF RecordsInv, CarriesRequest
<1>3. /\ link' \in [Items -> 0..MaxEvents]
      /\ \A i \in Items : \/ link'[i] = link[i]
                          \/ i \in alive /\ i = sync[q].item /\ link'[i] = sync[q].event
  BY <1>1 DEF ItemTypeOK, WriteLink
<1>4. ItemTypeOK'
  BY <1>1, <1>3 DEF ItemTypeOK
<1>5. \A p \in Requests : /\ sync'[p].event = sync[p].event
                          /\ sync'[p].item = sync[p].item
                          /\ sync'[p].start = sync[p].start /\ sync'[p].end = sync[p].end
                          /\ sync'[p].listed = sync[p].listed
                          /\ sync[p].pc \in AfterInsert => sync'[p].pc \in AfterInsert
  OBVIOUS
<1>6. \A n \in DOMAIN event : event[n].by \in Requests
  BY <1>1, EventTypes
<1>7. \A n \in DOMAIN event' : CarriesRequest(n)'
  BY <1>1, <1>5, <1>6 DEF RecordsInv, CarriesRequest
<1>8. \A i \in Items : LinkedEvent(i)'
  BY <1>1, <1>2, <1>3, <1>5, <1>6 DEF RecordsInv, LinkedEvent
<1>9. EventIsOfItsUser' /\ OneEventPerRequest'
  BY <1>1, <1>5, <1>6 DEF RecordsInv, EventIsOfItsUser, OneEventPerRequest
<1>10. DeletedItemHadCancelledEvent'
  <2>1. \A i \in Items \ alive : link'[i] = link[i]
    BY <1>3
  <2> QED BY <1>1, <2>1 DEF RecordsInv, DeletedItemHadCancelledEvent
<1>11. \A p \in Requests : RequestInv(p)'
  <2> SUFFICES ASSUME NEW p \in Requests
      PROVE  RequestInv(p)'
    OBVIOUS
  <2>1. RequestInv(p)
    BY DEF EventsInv
  <2>2. CASE p # q
    BY <2>1, <2>2, RequestStays
  <2>3. CASE p = q
    BY <1>1, <2>1, <2>3 DEF RequestInv, OwnCredentials, KnowsEvent, AfterInsert
  <2> QED BY <2>2, <2>3
<1> QED BY <1>4, <1>7, <1>8, <1>9, <1>10, <1>11 DEF EventsInv, RecordsInv

LEMMA LinkEnds ==
  ASSUME EventsInv, NEW q \in Requests, sync[q].pc = "link", WriteLink(q) \/ UNCHANGED link,
         NEW how \in {"returned", "thrown", "done"}, Ends(q, how),
         UNCHANGED <<calendarId, credentials, event, alive, replaced>>
  PROVE  EventsInv'
<1>1. /\ sync' \in [Requests -> Sync] /\ sync'[q].pc = how
      /\ sync'[q].item = sync[q].item /\ sync'[q].start = sync[q].start
      /\ sync'[q].end = sync[q].end /\ sync'[q].listed = sync[q].listed
      /\ sync'[q].event = sync[q].event
      /\ \A p \in Requests : p # q => sync'[p] = sync[p]
  BY EndsEffect DEF SyncPC, EventsInv
<1> QED BY <1>1, LinkStep DEF AfterInsert

LEMMA LinkHangsUpInv ==
  ASSUME EventsInv, NEW q \in Requests, LinkHangsUp(q)
  PROVE  EventsInv'
<1>1. /\ ItemTypeOK /\ sync[q] \in Sync /\ sync[q].pc = "link"
      /\ WriteLink(q) \/ UNCHANGED link
      /\ UNCHANGED <<calendarId, credentials, event, alive, replaced>>
  BY DEF EventsInv, ItemTypeOK, LinkHangsUp
<1>2. CASE sync[q].tries < LinkTries
  <2> DEFINE n == sync[q].tries + 1
             s == [sync[q] EXCEPT !.tries = n]
  <2>1. n \in 0..LinkTries
    BY <1>1, <1>2, SyncFields, EventBoundsAssumption
  <2>2. /\ s \in Sync /\ s.pc = "link" /\ s.event = sync[q].event
        /\ s.item = sync[q].item /\ s.start = sync[q].start /\ s.end = sync[q].end
        /\ s.listed = sync[q].listed
    <3> HIDE DEF n
    <3> QED BY <1>1, <2>1 DEF Sync, SyncPC
  <2>3. SyncTo(q, s)
    BY <1>2 DEF LinkHangsUp
  <2> HIDE DEF s
  <2>4. /\ sync' \in [Requests -> Sync] /\ sync'[q] = s
        /\ \A r \in Requests : r # q => sync'[r] = sync[r]
    BY <1>1, <2>2, <2>3, SetEffect
  <2> QED BY <1>1, <2>2, <2>4, LinkStep DEF AfterInsert
<1>3. CASE ~(sync[q].tries < LinkTries)
  BY <1>1, <1>3, LinkEnds DEF LinkHangsUp
<1> QED BY <1>2, <1>3

----------------------------------------------------------------------------
(* A person cancels an event, a sync deletes its item                      *)

LEMMA CancelEventInv ==
  ASSUME EventsInv, NEW n \in 1..MaxEvents, CancelEvent(n)
  PROVE  EventsInv'
<1>1. /\ ItemTypeOK /\ RecordsInv /\ event \in Seq(Event) /\ n \in DOMAIN event
      /\ event[n] \in Event
      /\ UNCHANGED <<calendarId, credentials, link, alive, sync, replaced>>
  BY DEF EventsInv, ItemTypeOK, CancelEvent
<1> DEFINE e == [event[n] EXCEPT !.cancelled = TRUE]
<1>2. /\ e \in Event /\ e.cancelled
      /\ e.item = event[n].item /\ e.by = event[n].by /\ e.organizer = event[n].organizer
      /\ e.attendee = event[n].attendee /\ e.start = event[n].start /\ e.end = event[n].end
  BY <1>1 DEF Event
<1>3. event' = [event EXCEPT ![n] = e]
  BY DEF CancelEvent
<1> HIDE DEF e
<1>4. /\ event' \in Seq(Event) /\ Len(event') = Len(event) /\ DOMAIN event' = DOMAIN event
      /\ event'[n] = e /\ \A m \in DOMAIN event : m # n => event'[m] = event[m]
  BY <1>1, <1>2, <1>3
<1>5. \A m \in DOMAIN event :
         /\ event'[m].item = event[m].item /\ event'[m].by = event[m].by
         /\ event'[m].organizer = event[m].organizer
         /\ event'[m].attendee = event[m].attendee
         /\ event'[m].start = event[m].start /\ event'[m].end = event[m].end
         /\ event[m].cancelled => event'[m].cancelled
  BY <1>2, <1>4
<1>6. ItemTypeOK'
  BY <1>1, <1>4 DEF ItemTypeOK
<1>7. \A m \in DOMAIN event' : CarriesRequest(m)'
  BY <1>1, <1>4, <1>5 DEF RecordsInv, CarriesRequest
<1>8. OneEventPerRequest' /\ EventIsOfItsUser'
  BY <1>1, <1>4, <1>5 DEF RecordsInv, OneEventPerRequest, EventIsOfItsUser, UserOf
<1>9. \A i \in Items : LinkedEvent(i)'
  BY <1>1, <1>4, <1>5 DEF RecordsInv, LinkedEvent
<1>10. DeletedItemHadCancelledEvent'
  BY <1>1, <1>4, <1>5 DEF RecordsInv, DeletedItemHadCancelledEvent, LinkedEvent
<1>11. \A p \in Requests : RequestInv(p)'
  BY <1>1, <1>4, <1>5 DEF EventsInv, RequestInv, OwnCredentials, KnowsEvent
<1> QED BY <1>6, <1>7, <1>8, <1>9, <1>10, <1>11 DEF EventsInv, RecordsInv

LEMMA DeleteItemOfInv ==
  ASSUME EventsInv, NEW n \in 1..MaxEvents, DeleteItemOf(n)
  PROVE  EventsInv'
<1>1. /\ ItemTypeOK /\ RecordsInv /\ n \in DOMAIN event
      /\ UNCHANGED <<calendarId, credentials, event, link, sync, replaced>>
  BY DEF EventsInv, DeleteItemOf
<1>2. event[n].cancelled /\ alive' = alive \ {event[n].item} /\ alive \subseteq Items
  BY NoItemAssumption DEF DeleteItemOf, ItemIdOf, EventsInv, ItemTypeOK
<1>3. ItemTypeOK'
  BY <1>1, <1>2 DEF ItemTypeOK
<1>4. DeletedItemHadCancelledEvent'
  <2> SUFFICES ASSUME NEW i \in Items \ alive'
      PROVE  \E m \in DOMAIN event :
                /\ event[m].item = i /\ event[m].cancelled
                /\ link[i] \notin {0, m} => event[link[i]].by # event[m].by
    BY <1>1 DEF DeletedItemHadCancelledEvent
  <2>1. CASE i \notin alive
    BY <1>1, <2>1 DEF RecordsInv, DeletedItemHadCancelledEvent
  <2>2. CASE i = event[n].item
    BY <1>1, <1>2, <2>2 DEF RecordsInv, LinkedEvent, OneEventPerRequest
  <2> QED BY <1>2, <2>1, <2>2
<1>5. RecordsInv'
  BY <1>1, <1>4 DEF RecordsInv, CarriesRequest, OneEventPerRequest, LinkedEvent,
                    EventIsOfItsUser
<1>6. \A p \in Requests : RequestInv(p)'
  BY <1>1, RequestStays DEF EventsInv
<1> QED BY <1>3, <1>5, <1>6 DEF EventsInv

----------------------------------------------------------------------------
(* The calendar service                                                    *)

LEMMA ItemInitInv == ItemInit => EventsInv
<1> SUFFICES ASSUME ItemInit PROVE EventsInv
  OBVIOUS
<1>1. NoTime \in WrittenTime /\ 0 \in 0..MaxEvents /\ 0 \in 0..LinkTries /\ "idle" \in SyncPC
  BY EventBoundsAssumption DEF NoTime, WrittenTime, SyncPC
<1>2. \A q \in Requests : /\ sync[q] \in Sync /\ sync[q].pc = "idle" /\ sync[q].event = 0
                          /\ ~sync[q].listed
  BY <1>1 DEF ItemInit, Sync
<1>3. ItemTypeOK
  <2>1. sync \in [Requests -> Sync]
    BY <1>2 DEF ItemInit
  <2>2. event \in Seq(Event) /\ Len(event) <= MaxEvents
    BY EventBoundsAssumption DEF ItemInit
  <2>3. link \in [Items -> 0..MaxEvents]
    BY <1>1 DEF ItemInit
  <2> QED BY <2>1, <2>2, <2>3 DEF ItemInit, ItemTypeOK
<1>4. DOMAIN event = {}
  BY DEF ItemInit
<1>5. RecordsInv
  BY <1>4 DEF RecordsInv, CarriesRequest, OneEventPerRequest, LinkedEvent, EventIsOfItsUser,
              DeletedItemHadCancelledEvent, ItemInit
<1>6. \A q \in Requests : RequestInv(q)
  BY <1>2 DEF RequestInv, OwnCredentials, KnowsEvent
<1> QED BY <1>3, <1>5, <1>6 DEF EventsInv

LEMMA SyncStepInv ==
  ASSUME EventsInv, NEW q \in Requests, SyncStep(q)
  PROVE  EventsInv'
<1>1. CASE GotCalendarTokens(q)
  BY <1>1, GotCalendarTokensInv
<1>2. CASE GotCalendarConfig(q)
  BY <1>2, GotCalendarConfigInv
<1>3. CASE \E p \in People \cup {NoOne} : ListedCalendars(q, p)
  BY <1>3, ListedCalendarsInv
<1>4. CASE Inserted(q)
  BY <1>4, InsertedInv
<1>5. CASE InsertedWithoutLink(q)
  BY <1>5, InsertedWithoutLinkInv
<1>6. CASE Linked(q)
  BY <1>6, LinkEnds DEF Linked
<1>7. CASE LinkHangsUp(q)
  BY <1>7, LinkHangsUpInv
<1>8. CASE LinkFails(q)
  BY <1>8, LinkEnds DEF LinkFails
<1>9. CASE StorageThrows(q)
  BY <1>9, RequestEnds DEF StorageThrows
<1> QED
  BY <1>1, <1>2, <1>3, <1>4, <1>5, <1>6, <1>7, <1>8, <1>9 DEF SyncStep

LEMMA ItemNextInv ==
  ASSUME EventsInv, [ItemNext]_itemVars
  PROVE  EventsInv'
<1>1. CASE UNCHANGED itemVars
  BY <1>1 DEF itemVars, EventsInv, ItemTypeOK, RecordsInv, CarriesRequest,
              OneEventPerRequest, LinkedEvent, EventIsOfItsUser,
              DeletedItemHadCancelledEvent, RequestInv, OwnCredentials, KnowsEvent
<1>2. CASE \E q \in Requests, i \in Items, time \in Times, who \in People :
              StartSync(q, i, time, who)
  BY <1>2, StartSyncInv
<1>3. CASE \E q \in Requests : GiveUpSync(q)
  BY <1>3, RequestEnds DEF GiveUpSync
<1>4. CASE \E q \in Requests : SyncStep(q)
  BY <1>4, SyncStepInv
<1>5. CASE \E u \in People : ListCalendarsOf(u)
  BY <1>5, ListCalendarsOfInv
<1>6. CASE \E n \in 1..MaxEvents : CancelEvent(n) \/ DeleteItemOf(n)
  BY <1>6, CancelEventInv, DeleteItemOfInv
<1> QED BY <1>1, <1>2, <1>3, <1>4, <1>5, <1>6 DEF ItemNext

LEMMA LinkedEventIsMeant ==
  ASSUME EventsInv
  PROVE  LinkNamesEventOfItem
<1> SUFFICES ASSUME NEW i \in Items, link[i] # 0
    PROVE  LET e == event[link[i]]
           IN  /\ link[i] \in DOMAIN event
               /\ e.item = i /\ sync[e.by].event = link[i]
               /\ e.start = Means(sync[e.by].start) /\ e.end = Means(sync[e.by].end)
  BY DEF LinkNamesEventOfItem
<1> DEFINE e == event[link[i]]
           s == sync[e.by]
<1>1. link[i] \in DOMAIN event /\ e.item = i /\ s.event = link[i]
  BY DEF EventsInv, RecordsInv, LinkedEvent
<1>2. e \in Event /\ s \in Sync /\ e.start = Normalize(s.start) /\ e.end = Normalize(s.end)
  BY <1>1, EventTypes DEF EventsInv, RecordsInv, CarriesRequest
<1>3. e.start \in Dates /\ e.end \in Dates /\ s.start \in WrittenTime /\ s.end \in WrittenTime
  BY <1>2, EventFields, SyncFields
<1> HIDE DEF e, s
<1>4. e.start = Means(s.start) /\ e.end = Means(s.end)
  BY <1>2, <1>3, NormalizeType, NoDateIsNone
<1> QED BY <1>1, <1>4 DEF e, s

----------------------------------------------------------------------------
(* The endpoints together                                                  *)

ActionsInv == /\ endpoint \in Endpoints
              /\ BoardInv
              /\ DailyInv
              /\ EventsInv

(***************************************************************************)
(* A call of one endpoint leaves what the others work on alone.            *)
(***************************************************************************)
LEMMA ActionsNextInv ==
  ASSUME ActionsInv, [Next]_actionVars
  PROVE  ActionsInv'
<1>1. /\ endpoint' = endpoint
      /\ [BoardNext]_boardVars /\ [DailyNext]_dailyVars /\ [ItemNext]_itemVars
  BY DEF Next, actionVars
<1>2. BoardInv' /\ DailyInv' /\ EventsInv'
  BY <1>1, BoardNextInv, DailyNextInv, ItemNextInv DEF ActionsInv
<1> QED BY <1>1, <1>2 DEF ActionsInv

(***************************************************************************)
(* The services behind the endpoints keep their invariants, whichever      *)
(* endpoint is called.                                                     *)
(***************************************************************************)
THEOREM ActionsInvariant == Spec => []ActionsInv
<1>1. Init => ActionsInv
  BY BoardInitInv, DailyInitInv, ItemInitInv DEF Init, ActionsInv
<1>2. ActionsInv /\ [Next]_actionVars => ActionsInv'
  BY ActionsNextInv
<1> QED BY <1>1, <1>2, PTL DEF Spec

(***************************************************************************)
(* Whichever endpoint is called, each service behaves as it does alone:    *)
(* what is proved of it holds of the controller over all of them.          *)
(***************************************************************************)
THEOREM ServicesAsAlone == Spec => BoardSpec /\ DailySpec /\ ItemSpec
<1>1. Init => BoardInit /\ DailyInit /\ ItemInit
  BY DEF Init
<1>2. [Next]_actionVars =>
        [BoardNext]_boardVars /\ [DailyNext]_dailyVars /\ [ItemNext]_itemVars
  BY DEF Next, actionVars
<1> QED BY <1>1, <1>2, PTL DEF Spec, BoardSpec, DailySpec, ItemSpec

(***************************************************************************)
(* The safety properties of the board services and of the daily task, for  *)
(* the controller.                                                         *)
(***************************************************************************)
THEOREM ServicesKeepProperties ==
  Spec => /\ []AnsweredRunLeavesRowsCurrent
          /\ NoMutationAfterAnswer
          /\ RowsImplementDerivedColumn
          /\ []OneTaskPerRun
          /\ []TaskNamesOneDay
          /\ []LeftoversExplained
  BY ServicesAsAlone, AnsweredCurrent, NothingWrittenAfterAnswer, RowsRefine,
     OneTask, NamesOneDay, Leftovers, PTL

(***************************************************************************)
(* The variables of the services keep their types.                         *)
(***************************************************************************)
THEOREM ActionsTypes == Spec => []ActionsTypeOK
<1>1. ActionsInv => ActionsTypeOK
  BY DEF ActionsInv, ActionsTypeOK, BoardInv, DailyInv, EventsInv
<1> QED BY <1>1, ActionsInvariant, PTL

(***************************************************************************)
(* The column of an item links to an event that was created for that item, *)
(* from and to the dates that were written, by a request whose answer      *)
(* named it, whatever other requests for the item did meanwhile.           *)
(***************************************************************************)
THEOREM LinkedAsAsked == Spec => []LinkNamesEventOfItem
<1>1. ActionsInv => LinkNamesEventOfItem
  BY LinkedEventIsMeant DEF ActionsInv
<1> QED BY <1>1, ActionsInvariant, PTL

(***************************************************************************)
(* An event is organized by the user of its request, who is not invited to *)
(* it, unless another request replaced the credentials in between or the   *)
(* calendars could not be listed.                                          *)
(***************************************************************************)
THEOREM OrganizedByItsUser == Spec => []EventIsOfItsUser
<1>1. ActionsInv => EventIsOfItsUser
  BY DEF ActionsInv, EventsInv, RecordsInv
<1> QED BY <1>1, ActionsInvariant, PTL

(***************************************************************************)
(* An item is deleted only after an event with its id was cancelled, which *)
(* is the one its column links to unless the endpoint was called more than *)
(* once for it.                                                            *)
(***************************************************************************)
THEOREM DeletedAfterCancelled == Spec => []DeletedItemHadCancelledEvent
<1>1. ActionsInv => DeletedItemHadCancelledEvent
  BY DEF ActionsInv, EventsInv, RecordsInv
<1> QED BY <1>1, ActionsInvariant, PTL
=============================================================================
