----------------------------- MODULE Endpoints -----------------------------
(***************************************************************************)
(* The endpoints that Monday and its users call besides the actions: OAuth *)
(* (MondayOAuth), subscriptions and storage (Subscriptions), and requests  *)
(* that change nothing (here): form fields, a token for tests, and every   *)
(* request that is refused before its handler does anything.               *)
(*                                                                         *)
(* The three share no state: a behaviour has requests of one controller.   *)
(***************************************************************************)
EXTENDS MondayOAuth, Subscriptions

CONSTANT Plain \* requests that change nothing

VARIABLES controller, plain

endpointVars == <<controller, plain, oauthVars, subscriptionVars>>

DevGuardErrors == {Thrown("Unauthorized", c) : c \in {"NO_DEV_TOKEN", "INVALID_DEV_TOKEN"}}

NoSession == Thrown("Unauthorized", "INVALID_CODE_PAYLOAD")

(***************************************************************************)
(* What a request of each kind may throw, its guard included.              *)
(***************************************************************************)
LookupErrors(code) == GuardErrors \cup {NoSession, Thrown("BadRequest", code), PlainError}

RefusedAuthorize == GuardErrors \cup {Thrown("Unauthorized", "INVALID_TOKEN_PAYLOAD")}

RefusedCallback ==
    {Thrown("Unauthorized", c) : c \in {"INVALID_CALLBACK_PARAMETERS", "INVALID_CODE_PAYLOAD",
         "INVALID_STATE_PAYLOAD", "INVALID_STATE_TOKEN_PAYLOAD"}}
    \cup {Thrown("BadRequest", "MDY_SIGNING_SECRET_NOT_CONFIGURED"), PlainError}

RefusedTrigger == GuardErrors \cup {Thrown("BadRequest", "none")}

JwtErrors == DevGuardErrors \cup {Thrown("BadRequest", c) : c \in
                 {"NO_ACCOUNT_ID_PRESENT", "NO_MONDAY_SECRET_KEY", "JWT_GENERATION_FAILED"}}

ErrorsOf == [lookupRemoteBoard |-> LookupErrors("MONDAY_LOOKUP_REMOTE_BOARD_FAILED"),
             lookupRemoteColumn |-> LookupErrors("MONDAY_LOOKUP_REMOTE_COLUMN_FAILED"),
             lookupCalendarConfig |-> GuardErrors \cup {NoSession},
             authorize |-> RefusedAuthorize,
             callback |-> RefusedCallback,
             trigger |-> RefusedTrigger,
             setStorage |-> DevGuardErrors,
             generateJwtToken |-> JwtErrors]

PlainErrors == (UNION {ErrorsOf[k] : k \in DOMAIN ErrorsOf}) \cup {NoError}

EndpointsTypeOK == /\ controller \in {"auth", "trigger", "plain"}
                   /\ OAuthTypeOK
                   /\ SubscriptionsTypeOK
                   /\ plain \in [Plain -> [kind : DOMAIN ErrorsOf \cup {"none"},
                                          thrown : PlainErrors]]

Init == /\ controller \in {"auth", "trigger", "plain"}
        /\ OAuthInit /\ SubscriptionsInit
        /\ plain = [q \in Plain |-> [kind |-> "none", thrown |-> NoError]]

(***************************************************************************)
(* A request is answered or throws; the answer is AnswerTo(thrown).        *)
(***************************************************************************)
PlainRequest(q, k) ==
    /\ plain[q].kind = "none"
    /\ \E e \in ErrorsOf[k] \cup {NoError} :
          plain' = [plain EXCEPT ![q] = [kind |-> k, thrown |-> e]]

Next == \/ /\ controller = "auth" /\ OAuthNext
           /\ UNCHANGED <<controller, plain, subscriptionVars>>
        \/ /\ controller = "trigger" /\ SubscriptionsNext
           /\ UNCHANGED <<controller, plain, oauthVars>>
        \/ /\ controller = "plain"
           /\ \E q \in Plain, k \in DOMAIN ErrorsOf : PlainRequest(q, k)
           /\ UNCHANGED <<controller, oauthVars, subscriptionVars>>

Spec == Init /\ [][Next]_endpointVars /\ OAuthFairness

----------------------------------------------------------------------------
Kept(e) == e.code # "none" => AnswerTo(e).code = e.code

(***************************************************************************)
(* "Exception already in StandardResponse format, returning as it is"      *)
(* (http-exception.filter.ts:42): the code that a handler throws is the    *)
(* code that the client reads.                                             *)
(***************************************************************************)
StandardErrorsKept == /\ \A f \in Flows : Kept(flow[f].thrown)
                      /\ \A c \in Callbacks : Kept(callback[c].thrown)
                      /\ \A q \in Plain : Kept(plain[q].thrown)
=============================================================================
