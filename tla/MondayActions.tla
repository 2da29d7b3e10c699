--------------------------- MODULE MondayActions ---------------------------
(***************************************************************************)
(* MondayActionController: each endpoint hands its request to one service. *)
(* The services keep no state of their own and change different columns    *)
(* and boards, so that a behaviour in which two endpoints are called is a  *)
(* shuffle of behaviours in which one is.  A behaviour here has calls of   *)
(* one endpoint, as many as its service allows, overlapping.               *)
(***************************************************************************)
EXTENDS BoardActions, DailyTask, ItemEvents

VARIABLE endpoint

actionVars == <<endpoint, boardVars, dailyVars, itemVars>>

Endpoints == {"copy-relation-column-to-name", "auto-create-daily-task", "update-total-time",
              "set-ratio-and-status", "sync-item-in-calendar"}

(***************************************************************************)
(* The service behind each endpoint.                                       *)
(***************************************************************************)
KindOf == [e \in {"copy-relation-column-to-name", "update-total-time",
                  "set-ratio-and-status"} |->
              CASE e = "copy-relation-column-to-name" -> "copy"
                [] e = "update-total-time" -> "total"
                [] e = "set-ratio-and-status" -> "ratio"]

OnBoard == endpoint \in DOMAIN KindOf
OnSchedule == endpoint = "auto-create-daily-task"
OnCalendar == endpoint = "sync-item-in-calendar"

ActionsTypeOK == /\ endpoint \in Endpoints
                 /\ BoardTypeOK
                 /\ DailyTypeOK
                 /\ ItemTypeOK

(***************************************************************************)
(* A service that is not called stands in some initial state, one will do. *)
(***************************************************************************)
Init == /\ endpoint \in Endpoints
        /\ BoardInit /\ DailyInit /\ ItemInit
        /\ IF OnBoard THEN kind = KindOf[endpoint]
           ELSE kind = "copy" /\ \A r \in Rows : Present(source[r]) = {}
        /\ ~OnSchedule => groups = {}
        /\ ~OnCalendar => calendarId = "shared"

Next == \/ OnBoard /\ BoardNext /\ UNCHANGED <<endpoint, dailyVars, itemVars>>
        \/ OnSchedule /\ DailyNext /\ UNCHANGED <<endpoint, boardVars, itemVars>>
        \/ OnCalendar /\ ItemNext /\ UNCHANGED <<endpoint, boardVars, dailyVars>>

Spec == Init /\ [][Next]_actionVars
=============================================================================
