---------------------------- MODULE MondayOAuth -----------------------------
(***************************************************************************)
(* AuthController: authorize sends a browser to Monday's consent page with *)
(* a signed state, callback exchanges the code that comes back for a token *)
(* and sends the browser back.  The store of the token is not awaited.     *)
(*                                                                         *)
(* One action per await.  Requests refused by the guard or for want of a   *)
(* field change nothing: Endpoints has them.  The token cache is left out: *)
(* no endpoint removes a token, and TokenCache has what it may serve.      *)
(***************************************************************************)
EXTENDS Naturals, ErrorAnswers

CONSTANTS Accounts,
          Flows,         \* requests of authorize
          AccountOf,     \* the account in the session of each
          Callbacks,     \* requests of callback
          MaxOAuthRestarts,
          NoFlow, NoToken

ASSUME AccountOfAssumption == AccountOf \in [Flows -> Accounts]
ASSUME OAuthBoundsAssumption == MaxOAuthRestarts \in Nat
ASSUME NoFlowAssumption == NoFlow \notin Flows /\ NoToken \notin Callbacks

VARIABLES token,     \* secure storage: the callback whose token an account has
          flow,      \* the requests of authorize
          callback,  \* the requests of callback
          stored,    \* history: callbacks whose store was known when a flow began
          oauthRestarts

oauthVars == <<token, flow, callback, stored, oauthRestarts>>

FlowPC == {"idle", "token", "workspace", "consent", "home", "error", "lost"}
CallbackPC == {"idle", "exchange", "redirected", "error", "lost"}
StorePC == {"none", "sent", "done", "rejected", "lost"}

NoSecretToSign == Thrown("Unauthorized", "MDY_SIGNING_SECRET_NOT_CONFIGURED")
ReadError == Thrown("BadRequest", "FAIL TO RETRIEVE ACCESS TOKEN")
WorkspaceError == Thrown("InternalServerError", "FAIL TO GET ACCOUNT WORKSPACE")
ExchangeErrors == {Thrown("ServiceUnavailable", "FAILED_TO_EXCHANGE_CODE_FOR_TOKEN"),
                   Thrown("InternalServerError", "MONDAY_CLIENT_CREDENTIALS_NOT_CONFIGURED")}

OAuthErrors == ExchangeErrors \cup {NoSecretToSign, ReadError, WorkspaceError, PlainError, NoError}

OAuthTypeOK ==
    /\ token \in [Accounts -> Callbacks \cup {NoToken}]
    /\ flow \in [Flows -> [pc : FlowPC, expired : BOOLEAN, thrown : OAuthErrors]]
    /\ callback \in [Callbacks -> [pc : CallbackPC, flow : Flows \cup {NoFlow},
                                   store : StorePC, thrown : OAuthErrors]]
    /\ stored \in [Flows -> SUBSET Callbacks]
    /\ oauthRestarts \in 0..MaxOAuthRestarts

OAuthInit ==
    /\ token = [a \in Accounts |-> NoToken]
    /\ flow = [f \in Flows |-> [pc |-> "idle", expired |-> FALSE, thrown |-> NoError]]
    /\ callback = [c \in Callbacks |-> [pc |-> "idle", flow |-> NoFlow, store |-> "none",
                                        thrown |-> NoError]]
    /\ stored = [f \in Flows |-> {}]
    /\ oauthRestarts = 0

FlowTo(f, pc, e) == flow' = [flow EXCEPT ![f] = [pc |-> pc, expired |-> flow[f].expired,
                                                 thrown |-> e]]

CallbackTo(c, f, pc, st, e) ==
    callback' = [callback EXCEPT ![c] = [pc |-> pc, flow |-> f, store |-> st, thrown |-> e]]

(***************************************************************************)
(* authorize passes its guard and the check of the session.                *)
(***************************************************************************)
Authorize(f) ==
    /\ flow[f].pc = "idle"
    /\ FlowTo(f, "token", NoError)
    /\ stored' = [stored EXCEPT ![f] = {c \in Callbacks : callback[c].store = "done"}]
    /\ UNCHANGED <<token, callback, oauthRestarts>>

(***************************************************************************)
(* Mutant of Found: any account's token will do.                           *)
(***************************************************************************)
FoundAny(f) == \E a \in Accounts : token[a] # NoToken

(***************************************************************************)
(* getAccessToken.                                                         *)
(***************************************************************************)
Found(f) == token[AccountOf[f]] # NoToken

(***************************************************************************)
(* A token sends the browser back; otherwise the state is signed, for five *)
(* minutes, and the workspace is asked for.                                *)
(***************************************************************************)
GotAccessToken(f) ==
    /\ flow[f].pc = "token"
    /\ \/ Found(f) /\ FlowTo(f, "home", NoError)
       \/ ~Found(f) /\ FlowTo(f, "workspace", NoError)
       \/ ~Found(f) /\ FlowTo(f, "error", NoSecretToSign)
       \/ FlowTo(f, "error", ReadError)
    /\ UNCHANGED <<token, callback, stored, oauthRestarts>>

GotWorkspace(f) ==
    /\ flow[f].pc = "workspace"
    /\ FlowTo(f, "consent", NoError) \/ FlowTo(f, "error", WorkspaceError)
    /\ UNCHANGED <<token, callback, stored, oauthRestarts>>

StateExpires(f) ==
    /\ flow[f].pc \in {"workspace", "consent"} /\ ~flow[f].expired
    /\ flow' = [flow EXCEPT ![f] = [pc |-> flow[f].pc, expired |-> TRUE,
                                    thrown |-> flow[f].thrown]]
    /\ UNCHANGED <<token, callback, stored, oauthRestarts>>

----------------------------------------------------------------------------
(***************************************************************************)
(* Monday sends the browser to callback with the state of a flow, more     *)
(* than once when the page is loaded again.                                *)
(***************************************************************************)
StartCallback(c, f) ==
    /\ callback[c].pc = "idle"
    /\ flow[f].pc = "consent" /\ ~flow[f].expired
    /\ CallbackTo(c, f, "exchange", "none", NoError)
    /\ UNCHANGED <<token, flow, stored, oauthRestarts>>

(***************************************************************************)
(* jwt.verify throws when the state is expired.                            *)
(***************************************************************************)
CallbackTooLate(c, f) ==
    /\ callback[c].pc = "idle"
    /\ flow[f].pc = "consent" /\ flow[f].expired
    /\ CallbackTo(c, f, "error", "none", PlainError)
    /\ UNCHANGED <<token, flow, stored, oauthRestarts>>

(***************************************************************************)
(* Mutant of Exchanged: the token is not stored.                           *)
(***************************************************************************)
ExchangedOnly(c) ==
    /\ callback[c].pc = "exchange"
    /\ CallbackTo(c, callback[c].flow, "redirected", "none", NoError)
    /\ UNCHANGED <<token, flow, stored, oauthRestarts>>

(***************************************************************************)
(* storeAccessToken is called and the browser is sent back.                *)
(***************************************************************************)
Exchanged(c) ==
    /\ callback[c].pc = "exchange"
    /\ CallbackTo(c, callback[c].flow, "redirected", "sent", NoError)
    /\ UNCHANGED <<token, flow, stored, oauthRestarts>>

ExchangeFails(c, e) ==
    /\ callback[c].pc = "exchange"
    /\ e \in ExchangeErrors
    /\ CallbackTo(c, callback[c].flow, "error", "none", e)
    /\ UNCHANGED <<token, flow, stored, oauthRestarts>>

(***************************************************************************)
(* Mutant of Store: the token is stored under no account.                  *)
(***************************************************************************)
StoreNowhere(c) == UNCHANGED token

Store(c) == token' = [token EXCEPT ![AccountOf[callback[c].flow]] = c]

Stored(c) ==
    /\ callback[c].store = "sent"
    /\ Store(c)
    /\ CallbackTo(c, callback[c].flow, callback[c].pc, "done", NoError)
    /\ UNCHANGED <<flow, stored, oauthRestarts>>

(***************************************************************************)
(* The process exits: requests under way get no answer, stores under way   *)
(* have been carried out or not, the states that were signed stay valid.   *)
(***************************************************************************)
AfterExit(c, st) ==
    /\ flow' = [f \in Flows |-> IF flow[f].pc \in {"token", "workspace"}
                                THEN [pc |-> "lost", expired |-> FALSE, thrown |-> NoError]
                                ELSE flow[f]]
    /\ callback' = [d \in Callbacks |->
           [pc |-> IF callback[d].pc = "exchange" THEN "lost" ELSE callback[d].pc,
            flow |-> callback[d].flow, thrown |-> callback[d].thrown,
            store |-> IF d = c THEN st ELSE IF callback[d].store = "sent" THEN "lost"
                      ELSE callback[d].store]]

StoresLand == LET sent == {c \in Callbacks : callback[c].store = "sent"}
              IN  \E landed \in SUBSET sent :
                     token' \in {t \in [Accounts -> Callbacks \cup {NoToken}] : \A a \in Accounts :
                         LET of == {c \in landed : AccountOf[callback[c].flow] = a}
                         IN  IF of = {} THEN t[a] = token[a] ELSE t[a] \in of}

(***************************************************************************)
(* A rejected store: the handler of the promise throws, nobody handles     *)
(* that, and main.ts exits the process.                                    *)
(***************************************************************************)
StoreRejects(c) ==
    /\ callback[c].store = "sent"
    /\ StoresLand
    /\ AfterExit(c, "rejected")
    /\ UNCHANGED <<stored, oauthRestarts>>

RestartOAuth ==
    /\ oauthRestarts < MaxOAuthRestarts
    /\ oauthRestarts' = oauthRestarts + 1
    /\ StoresLand
    /\ AfterExit(NoToken, "lost")
    /\ UNCHANGED stored

OAuthStep(c) == Exchanged(c) \/ (\E e \in ExchangeErrors : ExchangeFails(c, e))
                \/ Stored(c) \/ StoreRejects(c)

OAuthNext ==
    \/ \E f \in Flows : \/ Authorize(f) \/ GotAccessToken(f) \/ GotWorkspace(f)
                        \/ StateExpires(f)
    \/ \E c \in Callbacks :
          \/ OAuthStep(c)
          \/ \E f \in Flows : StartCallback(c, f) \/ CallbackTooLate(c, f)
    \/ RestartOAuth

(***************************************************************************)
(* What a callback awaits, and the store it does not, are answered.        *)
(***************************************************************************)
OAuthFairness == \A c \in Callbacks : WF_oauthVars(OAuthStep(c))

----------------------------------------------------------------------------
(***************************************************************************)
(* authorize sends a browser straight back only to an account that has a   *)
(* token; a token lies under the account whose state came with its code,   *)
(* and only callbacks that sent the browser back have left one.            *)
(***************************************************************************)
TokenOfAnsweredCallback ==
    /\ \A f \in Flows : flow[f].pc = "home" => token[AccountOf[f]] # NoToken
    /\ \A a \in Accounts : token[a] # NoToken =>
           LET c == callback[token[a]]
           IN  AccountOf[c.flow] = a /\ c.pc = "redirected" /\ c.store # "sent"

(***************************************************************************)
(* A user whose token had been stored when authorize was called is not     *)
(* asked for consent again.  One who was sent back may be asked again      *)
(* while the store, that nobody awaits, is under way.                      *)
(***************************************************************************)
NotAskedAgain ==
    \A f \in Flows : flow[f].pc \in {"workspace", "consent"} =>
        \A c \in stored[f] : AccountOf[callback[c].flow] # AccountOf[f]

(***************************************************************************)
(* The account of a browser that callback has sent back has a token in the *)
(* end, unless the store was rejected or the process exited.               *)
(***************************************************************************)
SentBackUserGetsToken ==
    \A c \in Callbacks :
        callback[c].pc = "redirected" ~>
            \/ callback[c].store \in {"rejected", "lost"}
            \/ \E f \in Flows : f = callback[c].flow /\ token[AccountOf[f]] # NoToken
=============================================================================
