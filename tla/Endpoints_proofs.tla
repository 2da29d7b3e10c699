-------------------------- MODULE Endpoints_proofs --------------------------
(***************************************************************************)
(* Proofs about Endpoints and the two components it is made of, for any    *)
(* number of accounts, requests, subscriptions and restarts.               *)
(***************************************************************************)
EXTENDS Endpoints, TLAPS

(***************************************************************************)
(* A callback stores a token only after it sent the browser back, for the  *)
(* account of a flow; a store that was answered has left a token there.    *)
(***************************************************************************)
CallbackInv(c) ==
    /\ callback[c].store # "none" => callback[c].pc = "redirected"
    /\ callback[c].pc \in {"exchange", "redirected"} => callback[c].flow \in Flows
    /\ callback[c].store = "done" => token[AccountOf[callback[c].flow]] # NoToken

OAuthInv == /\ OAuthTypeOK
            /\ \A c \in Callbacks : CallbackInv(c)
            /\ \A f \in Flows : \A c \in stored[f] : callback[c].store = "done"
            /\ TokenOfAnsweredCallback
            /\ NotAskedAgain

(***************************************************************************)
(* A call writes the key it is about; the storage has not answered one     *)
(* that is sent.                                                           *)
(***************************************************************************)
CallInv(c) ==
    /\ call[c].pc = "idle" => call[c].storage = "none"
    /\ call[c].pc # "idle" => call[c].about \in Keys /\ call[c].key = call[c].about
    /\ call[c].pc = "sent" => call[c].storage = "none"
    /\ call[c].pc \in {"applied", "answered"} => call[c].storage # "none"

(***************************************************************************)
(* A call came after calls about its key that have ended, and an ended     *)
(* call writes no more.                                                    *)
(***************************************************************************)
AfterInv(c) == \A d \in after[c] : Ended(d) /\ call[d].about = call[c].about

SubscriptionsInv == /\ SubscriptionsTypeOK
                    /\ \A c \in Calls : CallInv(c)
                    /\ \A c \in Calls : AfterInv(c)
                    /\ RecordsOfLatestCalls

EndpointsInv == EndpointsTypeOK /\ OAuthInv /\ SubscriptionsInv

----------------------------------------------------------------------------
(* OAuth: what the operators change                                        *)

FlowType == [pc : FlowPC, expired : BOOLEAN, thrown : OAuthErrors]
CallbackType == [pc : CallbackPC, flow : Flows \cup {NoFlow}, store : StorePC,
                 thrown : OAuthErrors]

LEMMA OAuthTypes ==
  OAuthTypeOK <=> /\ token \in [Accounts -> Callbacks \cup {NoToken}]
                  /\ flow \in [Flows -> FlowType]
                  /\ callback \in [Callbacks -> CallbackType]
                  /\ stored \in [Flows -> SUBSET Callbacks]
                  /\ oauthRestarts \in 0..MaxOAuthRestarts
  BY DEF OAuthTypeOK, FlowType, CallbackType

LEMMA FlowFields ==
  ASSUME OAuthTypeOK, NEW f \in Flows
  PROVE  /\ flow[f].pc \in FlowPC /\ flow[f].expired \in BOOLEAN
         /\ flow[f].thrown \in OAuthErrors
  BY OAuthTypes DEF FlowType

LEMMA CallbackFields ==
  ASSUME OAuthTypeOK, NEW c \in Callbacks
  PROVE  /\ callback[c].pc \in CallbackPC /\ callback[c].flow \in Flows \cup {NoFlow}
         /\ callback[c].store \in StorePC /\ callback[c].thrown \in OAuthErrors
  BY OAuthTypes DEF CallbackType

LEMMA ErrorsThrown ==
  /\ {NoSecretToSign, ReadError, WorkspaceError, PlainError, NoError} \subseteq OAuthErrors
  /\ ExchangeErrors \subseteq OAuthErrors
  BY DEF OAuthErrors

LEMMA FlowToEffect ==
  ASSUME OAuthTypeOK, NEW f \in Flows, NEW pc \in FlowPC, NEW e \in OAuthErrors,
         FlowTo(f, pc, e)
  PROVE  /\ flow' \in [Flows -> FlowType]
         /\ flow'[f].pc = pc
         /\ \A g \in Flows \ {f} : flow'[g] = flow[g]
<1> DEFINE d == [pc |-> pc, expired |-> flow[f].expired, thrown |-> e]
<1>1. d \in FlowType /\ d.pc = pc
  BY FlowFields DEF FlowType
<1>2. flow' = [flow EXCEPT ![f] = d]
  BY DEF FlowTo
<1> HIDE DEF d
<1>3. flow' \in [Flows -> FlowType] /\ flow'[f] = d /\ \A g \in Flows \ {f} : flow'[g] = flow[g]
  BY <1>1, <1>2, OAuthTypes
<1> QED BY <1>1, <1>3

LEMMA CallbackToEffect ==
  ASSUME OAuthTypeOK, NEW c \in Callbacks, NEW f \in Flows \cup {NoFlow},
         NEW pc \in CallbackPC, NEW st \in StorePC, NEW e \in OAuthErrors,
         CallbackTo(c, f, pc, st, e)
  PROVE  /\ callback' \in [Callbacks -> CallbackType]
         /\ callback'[c].pc = pc /\ callback'[c].flow = f /\ callback'[c].store = st
         /\ \A d \in Callbacks \ {c} : callback'[d] = callback[d]
<1> DEFINE new == [pc |-> pc, flow |-> f, store |-> st, thrown |-> e]
<1>1. new \in CallbackType /\ new.pc = pc /\ new.flow = f /\ new.store = st
  BY DEF CallbackType
<1>2. callback' = [callback EXCEPT ![c] = new]
  BY DEF CallbackTo
<1> HIDE DEF new
<1>3. /\ callback' \in [Callbacks -> CallbackType] /\ callback'[c] = new
      /\ \A d \in Callbacks \ {c} : callback'[d] = callback[d]
  BY <1>1, <1>2, OAuthTypes
<1> QED BY <1>1, <1>3

(***************************************************************************)
(* When the process exits, requests under way are lost and stores under    *)
(* way end; all else of a callback stays.                                  *)
(***************************************************************************)
LEMMA AfterExitEffect ==
  ASSUME OAuthTypeOK, NEW c, NEW st \in StorePC \ {"none", "sent", "done"}, AfterExit(c, st),
         c \in Callbacks => callback[c].store = "sent"
  PROVE  /\ flow' \in [Flows -> FlowType]
         /\ callback' \in [Callbacks -> CallbackType]
         /\ \A f \in Flows : flow'[f].pc \in {flow[f].pc, "lost"}
         /\ \A d \in Callbacks :
               /\ callback'[d].pc = IF callback[d].pc = "exchange" THEN "lost"
                                    ELSE callback[d].pc
               /\ callback'[d].flow = callback[d].flow
               /\ callback[d].store = "sent" =>
                     callback'[d].store \in StorePC \ {"none", "sent", "done"}
               /\ callback[d].store # "sent" => callback'[d].store = callback[d].store
<1> DEFINE F(f) == IF flow[f].pc \in {"token", "workspace"}
                   THEN [pc |-> "lost", expired |-> FALSE, thrown |-> NoError] ELSE flow[f]
           C(d) == [pc |-> IF callback[d].pc = "exchange" THEN "lost" ELSE callback[d].pc,
                    flow |-> callback[d].flow, thrown |-> callback[d].thrown,
                    store |-> IF d = c THEN st ELSE IF callback[d].store = "sent" THEN "lost"
                              ELSE callback[d].store]
<1>1. ASSUME NEW f \in Flows
      PROVE  F(f) \in FlowType /\ F(f).pc \in {flow[f].pc, "lost"}
  <2>1. CASE flow[f].pc \in {"token", "workspace"}
    BY <2>1, ErrorsThrown DEF FlowType, FlowPC
  <2>2. CASE flow[f].pc \notin {"token", "workspace"}
    BY <2>2, OAuthTypes
  <2> QED BY <2>1, <2>2
<1>2. ASSUME NEW d \in Callbacks
      PROVE  /\ C(d) \in CallbackType
             /\ C(d).pc = IF callback[d].pc = "exchange" THEN "lost" ELSE callback[d].pc
             /\ C(d).flow = callback[d].flow
             /\ callback[d].store = "sent" => C(d).store \in StorePC \ {"none", "sent", "done"}
             /\ callback[d].store # "sent" => C(d).store = callback[d].store
  BY CallbackFields DEF CallbackType, CallbackPC, StorePC
<1>3. flow' = [f \in Flows |-> F(f)] /\ callback' = [d \in Callbacks |-> C(d)]
  BY DEF AfterExit
<1> HIDE DEF F, C
<1>4. \A f \in Flows : flow'[f] = F(f)
  BY <1>3
<1>5. \A d \in Callbacks : callback'[d] = C(d)
  BY <1>3
<1>6. flow' \in [Flows -> FlowType]
  BY <1>1, <1>3
<1>7. callback' \in [Callbacks -> CallbackType]
  BY <1>2, <1>3
<1> QED BY <1>1, <1>2, <1>4, <1>5, <1>6, <1>7

(***************************************************************************)
(* A token that changes then is that of a store under way for the account. *)
(***************************************************************************)
LEMMA StoresLandEffect ==
  ASSUME StoresLand
  PROVE  /\ token' \in [Accounts -> Callbacks \cup {NoToken}]
         /\ \A a \in Accounts :
               \/ token'[a] = token[a]
               \/ /\ token'[a] \in Callbacks /\ callback[token'[a]].store = "sent"
                  /\ AccountOf[callback[token'[a]].flow] = a
<1> DEFINE sent == {c \in Callbacks : callback[c].store = "sent"}
<1>1. PICK landed \in SUBSET sent :
         token' \in {t \in [Accounts -> Callbacks \cup {NoToken}] : \A a \in Accounts :
                        LET of == {c \in landed : AccountOf[callback[c].flow] = a}
                        IN  IF of = {} THEN t[a] = token[a] ELSE t[a] \in of}
  BY DEF StoresLand
<1>2. ASSUME NEW a \in Accounts
      PROVE  \/ token'[a] = token[a]
             \/ token'[a] \in {c \in landed : AccountOf[callback[c].flow] = a}
  BY <1>1
<1> QED BY <1>1, <1>2

----------------------------------------------------------------------------
(* OAuth: the invariant                                                    *)

LEMMA OAuthInitInv == OAuthInit => OAuthInv
<1> SUFFICES ASSUME OAuthInit PROVE OAuthInv
  OBVIOUS
<1>1. OAuthTypeOK
  <2>1. flow \in [Flows -> FlowType] /\ callback \in [Callbacks -> CallbackType]
    BY ErrorsThrown DEF OAuthInit, FlowType, CallbackType, FlowPC, CallbackPC, StorePC
  <2>2. /\ token \in [Accounts -> Callbacks \cup {NoToken}]
        /\ stored \in [Flows -> SUBSET Callbacks]
        /\ oauthRestarts \in 0..MaxOAuthRestarts
    BY OAuthBoundsAssumption DEF OAuthInit
  <2> QED BY <2>1, <2>2, OAuthTypes
<1>2. /\ \A c \in Callbacks : callback[c].pc = "idle" /\ callback[c].store = "none"
      /\ \A f \in Flows : flow[f].pc = "idle" /\ stored[f] = {}
      /\ \A a \in Accounts : token[a] = NoToken
  BY DEF OAuthInit
<1>3. TokenOfAnsweredCallback /\ NotAskedAgain
  BY <1>2 DEF TokenOfAnsweredCallback, NotAskedAgain
<1> QED BY <1>1, <1>2, <1>3 DEF OAuthInv, CallbackInv

LEMMA FlowStepInv ==
  ASSUME OAuthInv, NEW f \in Flows, flow' \in [Flows -> FlowType],
         stored' \in [Flows -> SUBSET Callbacks],
         \A g \in Flows \ {f} : flow'[g] = flow[g] /\ stored'[g] = stored[g],
         UNCHANGED <<token, callback, oauthRestarts>>,
         \A c \in stored'[f] : callback[c].store = "done",
         flow'[f].pc = "home" => token[AccountOf[f]] # NoToken,
         flow'[f].pc \in {"workspace", "consent"} =>
             \A c \in stored'[f] : AccountOf[callback[c].flow] # AccountOf[f]
  PROVE  OAuthInv'
<1>1. OAuthTypeOK'
  BY OAuthTypes DEF OAuthInv, OAuthTypeOK, FlowType
<1>2. \A c \in Callbacks : CallbackInv(c)'
  BY DEF OAuthInv, CallbackInv
<1>3. \A g \in Flows : \A c \in stored'[g] : callback'[c].store = "done"
  BY DEF OAuthInv
<1>4. TokenOfAnsweredCallback'
  <2>1. TokenOfAnsweredCallback
    BY DEF OAuthInv
  <2>2. \A g \in Flows : flow'[g].pc = "home" => token'[AccountOf[g]] # NoToken
    BY <2>1 DEF TokenOfAnsweredCallback
  <2> QED BY <2>1, <2>2 DEF TokenOfAnsweredCallback
<1>5. NotAskedAgain'
  BY DEF OAuthInv, NotAskedAgain
<1> QED BY <1>1, <1>2, <1>3, <1>4, <1>5 DEF OAuthInv

LEMMA FlowsInv ==
  ASSUME OAuthInv, NEW f \in Flows,
         Authorize(f) \/ GotAccessToken(f) \/ GotWorkspace(f) \/ StateExpires(f)
  PROVE  OAuthInv'
<1>1. /\ OAuthTypeOK /\ UNCHANGED <<token, callback, oauthRestarts>>
      /\ \A c \in Callbacks : CallbackInv(c)
      /\ \A c \in stored[f] : callback[c].store = "done"
      /\ stored \in [Flows -> SUBSET Callbacks]
      /\ NotAskedAgain /\ TokenOfAnsweredCallback
  BY OAuthTypes DEF OAuthInv, Authorize, GotAccessToken, GotWorkspace, StateExpires
<1>2. CASE Authorize(f)
  <2>1. /\ flow' \in [Flows -> FlowType] /\ flow'[f].pc = "token"
        /\ \A g \in Flows \ {f} : flow'[g] = flow[g]
    BY <1>1, <1>2, FlowToEffect, ErrorsThrown DEF Authorize, FlowPC
  <2>2. stored' = [stored EXCEPT ![f] = {c \in Callbacks : callback[c].store = "done"}]
    BY <1>2 DEF Authorize
  <2>3. /\ stored' \in [Flows -> SUBSET Callbacks]
        /\ \A g \in Flows \ {f} : stored'[g] = stored[g]
        /\ \A c \in stored'[f] : callback[c].store = "done"
    BY <1>1, <2>2
  <2> QED BY <1>1, <2>1, <2>3, FlowStepInv
<1>3. CASE GotAccessToken(f)
  <2>1. stored' = stored
    BY <1>3 DEF GotAccessToken
  <2>2. PICK pc \in FlowPC, e \in OAuthErrors :
            /\ FlowTo(f, pc, e)
            /\ pc = "home" => Found(f)
            /\ pc = "workspace" => ~Found(f)
            /\ pc # "consent"
    BY <1>3, ErrorsThrown DEF GotAccessToken, FlowPC
  <2>3. /\ flow' \in [Flows -> FlowType] /\ flow'[f].pc = pc
        /\ \A g \in Flows \ {f} : flow'[g] = flow[g]
    BY <1>1, <2>2, FlowToEffect
  <2>4. pc = "workspace" =>
            \A c \in stored[f] : AccountOf[callback[c].flow] # AccountOf[f]
    <3>1. \A c \in stored[f] : token[AccountOf[callback[c].flow]] # NoToken
      BY <1>1 DEF CallbackInv
    <3> QED BY <2>2, <3>1 DEF Found
  <2> QED BY <1>1, <2>1, <2>2, <2>3, <2>4, FlowStepInv DEF Found
<1>4. CASE GotWorkspace(f)
  <2>1. stored' = stored /\ flow[f].pc = "workspace"
    BY <1>4 DEF GotWorkspace
  <2>2. PICK pc \in {"consent", "error"}, e \in OAuthErrors : FlowTo(f, pc, e)
    BY <1>4, ErrorsThrown DEF GotWorkspace
  <2>3. /\ flow' \in [Flows -> FlowType] /\ flow'[f].pc = pc
        /\ \A g \in Flows \ {f} : flow'[g] = flow[g]
    BY <1>1, <2>2, FlowToEffect DEF FlowPC
  <2>4. \A c \in stored[f] : AccountOf[callback[c].flow] # AccountOf[f]
    BY <1>1, <2>1 DEF NotAskedAgain
  <2> QED BY <1>1, <2>1, <2>3, <2>4, FlowStepInv
<1>5. CASE StateExpires(f)
  <2> DEFINE new == [pc |-> flow[f].pc, expired |-> TRUE, thrown |-> flow[f].thrown]
  <2>1. stored' = stored /\ flow[f].pc \in {"workspace", "consent"}
    BY <1>5 DEF StateExpires
  <2>2. new \in FlowType /\ new.pc = flow[f].pc
    BY <1>1, FlowFields DEF FlowType
  <2>3. flow' = [flow EXCEPT ![f] = new]
    BY <1>5 DEF StateExpires
  <2> HIDE DEF new
  <2>4. /\ flow' \in [Flows -> FlowType] /\ flow'[f].pc = flow[f].pc
        /\ \A g \in Flows \ {f} : flow'[g] = flow[g]
    BY <1>1, <2>2, <2>3, OAuthTypes
  <2>5. \A c \in stored[f] : AccountOf[callback[c].flow] # AccountOf[f]
    BY <1>1, <2>1 DEF NotAskedAgain
  <2> QED BY <1>1, <2>1, <2>4, <2>5, FlowStepInv
<1> QED BY <1>2, <1>3, <1>4, <1>5

(***************************************************************************)
(* A callback that has not sent the browser back has left no token.        *)
(***************************************************************************)
LEMMA CallbackStepInv ==
  ASSUME OAuthInv, NEW c \in Callbacks, callback[c].pc \in {"idle", "exchange"},
         callback' \in [Callbacks -> CallbackType],
         \A d \in Callbacks \ {c} : callback'[d] = callback[d],
         callback'[c].store \in {"none", "sent"},
         callback'[c].store = "sent" => callback'[c].pc = "redirected",
         callback'[c].pc \in {"exchange", "redirected"} => callback'[c].flow \in Flows,
         UNCHANGED <<token, flow, stored, oauthRestarts>>
  PROVE  OAuthInv'
<1>1. /\ CallbackInv(c) /\ TokenOfAnsweredCallback /\ NotAskedAgain /\ OAuthTypeOK
      /\ \A f \in Flows : \A d \in stored[f] : callback[d].store = "done"
      /\ \A f \in Flows : stored[f] \subseteq Callbacks
      /\ \A a \in Accounts : token[a] \in Callbacks \cup {NoToken}
  BY OAuthTypes DEF OAuthInv
<1>2. /\ \A f \in Flows : c \notin stored[f]
      /\ \A a \in Accounts : token[a] # NoToken => token[a] \in Callbacks \ {c}
  BY <1>1 DEF CallbackInv, TokenOfAnsweredCallback
<1>3. OAuthTypeOK'
  BY <1>1, OAuthTypes DEF OAuthTypeOK, CallbackType
<1>4. \A d \in Callbacks : CallbackInv(d)'
  BY DEF OAuthInv, CallbackInv
<1>5. \A f \in Flows : \A d \in stored'[f] : callback'[d].store = "done"
  BY <1>1, <1>2
<1>6. TokenOfAnsweredCallback'
  BY <1>1, <1>2 DEF TokenOfAnsweredCallback
<1>7. NotAskedAgain'
  <2>1. \A f \in Flows : \A d \in stored[f] : callback'[d] = callback[d]
    BY <1>1, <1>2
  <2> QED BY <1>1, <2>1 DEF NotAskedAgain
<1> QED BY <1>3, <1>4, <1>5, <1>6, <1>7 DEF OAuthInv

LEMMA CallbacksInv ==
  ASSUME OAuthInv, NEW c \in Callbacks,
         \/ \E f \in Flows : StartCallback(c, f) \/ CallbackTooLate(c, f)
         \/ Exchanged(c)
         \/ \E e \in ExchangeErrors : ExchangeFails(c, e)
  PROVE  OAuthInv'
<1>1. OAuthTypeOK /\ CallbackInv(c) /\ UNCHANGED <<token, flow, stored, oauthRestarts>>
  BY DEF OAuthInv, StartCallback, CallbackTooLate, Exchanged, ExchangeFails
<1>2. PICK f \in Flows \cup {NoFlow}, pc \in {"exchange", "error", "redirected"},
           st \in {"none", "sent"}, e \in OAuthErrors :
               /\ CallbackTo(c, f, pc, st, e)
               /\ callback[c].pc \in {"idle", "exchange"}
               /\ st = "sent" => pc = "redirected"
               /\ pc \in {"exchange", "redirected"} => f \in Flows
  <2>1. CASE \E f \in Flows : StartCallback(c, f)
    BY <2>1, ErrorsThrown DEF StartCallback
  <2>2. CASE \E f \in Flows : CallbackTooLate(c, f)
    BY <2>2, ErrorsThrown DEF CallbackTooLate
  <2>3. CASE Exchanged(c)
    BY <1>1, <2>3, ErrorsThrown DEF Exchanged, CallbackInv
  <2>4. CASE \E e \in ExchangeErrors : ExchangeFails(c, e)
    BY <1>1, <2>4, ErrorsThrown DEF ExchangeFails, CallbackInv
  <2> QED BY <2>1, <2>2, <2>3, <2>4
<1>3. /\ callback' \in [Callbacks -> CallbackType]
      /\ callback'[c].pc = pc /\ callback'[c].flow = f /\ callback'[c].store = st
      /\ \A d \in Callbacks \ {c} : callback'[d] = callback[d]
  BY <1>1, <1>2, CallbackToEffect DEF CallbackPC, StorePC
<1> QED BY <1>1, <1>2, <1>3, CallbackStepInv

(***************************************************************************)
(* A token is stored under the account of the callback's flow, and no      *)
(* account loses one.                                                      *)
(***************************************************************************)
LEMMA StoredInv ==
  ASSUME OAuthInv, NEW c \in Callbacks, Stored(c)
  PROVE  OAuthInv'
<1>1. /\ OAuthTypeOK /\ CallbackInv(c) /\ TokenOfAnsweredCallback /\ NotAskedAgain
      /\ callback[c].store = "sent"
      /\ CallbackTo(c, callback[c].flow, callback[c].pc, "done", NoError)
      /\ UNCHANGED <<flow, stored, oauthRestarts>>
      /\ token \in [Accounts -> Callbacks \cup {NoToken}]
      /\ \A f \in Flows : stored[f] \subseteq Callbacks
  BY OAuthTypes DEF OAuthInv, Stored
<1>2. callback[c].pc = "redirected" /\ callback[c].flow \in Flows
  BY <1>1 DEF CallbackInv
<1>3. /\ callback' \in [Callbacks -> CallbackType]
      /\ callback'[c].pc = callback[c].pc /\ callback'[c].flow = callback[c].flow
      /\ callback'[c].store = "done"
      /\ \A d \in Callbacks \ {c} : callback'[d] = callback[d]
  BY <1>1, <1>2, CallbackToEffect, CallbackFields, ErrorsThrown DEF StorePC
<1> DEFINE acc == AccountOf[callback[c].flow]
<1>4. acc \in Accounts /\ token' = [token EXCEPT ![acc] = c]
  BY <1>2, AccountOfAssumption DEF Stored, Store
<1> HIDE DEF acc
<1>5. /\ token' \in [Accounts -> Callbacks \cup {NoToken}]
      /\ token'[acc] = c /\ c # NoToken
      /\ \A a \in Accounts \ {acc} : token'[a] = token[a]
  BY <1>1, <1>4, NoFlowAssumption
<1>6. OAuthTypeOK'
  BY <1>1, <1>3, <1>5, OAuthTypes DEF OAuthTypeOK, CallbackType
<1>7. \A d \in Callbacks : CallbackInv(d)'
  <2>1. CallbackInv(c)'
    BY <1>2, <1>3, <1>5 DEF CallbackInv, acc
  <2>2. ASSUME NEW d \in Callbacks \ {c}
        PROVE  CallbackInv(d)'
    <3>1. CallbackInv(d)
      BY DEF OAuthInv
    <3>2. callback[d].store = "done" => AccountOf[callback[d].flow] \in Accounts
      BY <3>1, AccountOfAssumption DEF CallbackInv
    <3> QED BY <1>3, <1>5, <3>1, <3>2 DEF CallbackInv
  <2> QED BY <2>1, <2>2
<1>8. \A f \in Flows : \A d \in stored'[f] : callback'[d].store = "done"
  BY <1>1, <1>3 DEF OAuthInv
<1>9. TokenOfAnsweredCallback'
  <2>1. \A f \in Flows : flow'[f].pc = "home" => token'[AccountOf[f]] # NoToken
    BY <1>1, <1>5, AccountOfAssumption DEF TokenOfAnsweredCallback
  <2>2. ASSUME NEW a \in Accounts, token'[a] # NoToken
        PROVE  /\ AccountOf[callback'[token'[a]].flow] = a
               /\ callback'[token'[a]].pc = "redirected" /\ callback'[token'[a]].store # "sent"
    <3>1. CASE a = acc
      BY <1>2, <1>3, <1>5, <3>1 DEF acc
    <3>2. CASE a # acc
      BY <1>1, <1>3, <1>5, <2>2, <3>2 DEF TokenOfAnsweredCallback
    <3> QED BY <3>1, <3>2
  <2> QED BY <2>1, <2>2 DEF TokenOfAnsweredCallback
<1>10. NotAskedAgain'
  <2>1. \A f \in Flows : \A d \in stored[f] : callback'[d].flow = callback[d].flow
    BY <1>1, <1>3
  <2> QED BY <1>1, <2>1 DEF NotAskedAgain
<1> QED BY <1>6, <1>7, <1>8, <1>9, <1>10 DEF OAuthInv

LEMMA ExitInv ==
  ASSUME OAuthInv, NEW c, NEW st \in StorePC \ {"none", "sent", "done"},
         c \in Callbacks => callback[c].store = "sent",
         StoresLand, AfterExit(c, st), oauthRestarts' \in 0..MaxOAuthRestarts,
         UNCHANGED stored
  PROVE  OAuthInv'
<1>1. /\ OAuthTypeOK /\ TokenOfAnsweredCallback /\ NotAskedAgain
      /\ \A f \in Flows : stored[f] \subseteq Callbacks
      /\ \A d \in Callbacks : CallbackInv(d)
      /\ \A a \in Accounts : token[a] \in Callbacks \cup {NoToken}
  BY OAuthTypes DEF OAuthInv
<1>2. /\ flow' \in [Flows -> FlowType]
      /\ callback' \in [Callbacks -> CallbackType]
      /\ \A f \in Flows : flow'[f].pc \in {flow[f].pc, "lost"}
      /\ \A d \in Callbacks :
            /\ callback'[d].pc = IF callback[d].pc = "exchange" THEN "lost" ELSE callback[d].pc
            /\ callback'[d].flow = callback[d].flow
            /\ callback[d].store = "sent" =>
                  callback'[d].store \in StorePC \ {"none", "sent", "done"}
            /\ callback[d].store # "sent" => callback'[d].store = callback[d].store
  BY <1>1, AfterExitEffect
<1>3. /\ token' \in [Accounts -> Callbacks \cup {NoToken}]
      /\ \A a \in Accounts :
            \/ token'[a] = token[a]
            \/ /\ token'[a] \in Callbacks /\ callback[token'[a]].store = "sent"
               /\ AccountOf[callback[token'[a]].flow] = a
  BY StoresLandEffect
<1>4. \A a \in Accounts : token[a] # NoToken => token'[a] # NoToken
  BY <1>3, NoFlowAssumption
<1>5. OAuthTypeOK'
  BY <1>1, <1>2, <1>3, OAuthTypes DEF OAuthTypeOK, FlowType, CallbackType
<1>6. ASSUME NEW d \in Callbacks
      PROVE  CallbackInv(d)'
  <2>1. CallbackInv(d) /\ (callback[d].store = "done" => AccountOf[callback[d].flow] \in Accounts)
    BY <1>1, AccountOfAssumption DEF CallbackInv
  <2>2. callback'[d].store = "done" => callback[d].store = "done"
    BY <1>2
  <2>3. callback'[d].store # "none" => callback[d].store # "none"
    BY <1>2
  <2> QED BY <1>2, <1>4, <2>1, <2>2, <2>3 DEF CallbackInv
<1>7. \A f \in Flows : \A d \in stored'[f] : callback'[d].store = "done"
  BY <1>1, <1>2 DEF OAuthInv
<1>8. TokenOfAnsweredCallback'
  <2>1. \A f \in Flows : flow'[f].pc = "home" => token'[AccountOf[f]] # NoToken
    BY <1>1, <1>2, <1>4, AccountOfAssumption DEF TokenOfAnsweredCallback
  <2>2. ASSUME NEW a \in Accounts, token'[a] # NoToken
        PROVE  /\ AccountOf[callback'[token'[a]].flow] = a
               /\ callback'[token'[a]].pc = "redirected" /\ callback'[token'[a]].store # "sent"
    <3>1. CASE token'[a] = token[a]
      BY <1>1, <1>2, <2>2, <3>1 DEF TokenOfAnsweredCallback
    <3>2. CASE token'[a] # token[a]
      <4>1. /\ token'[a] \in Callbacks /\ callback[token'[a]].store = "sent"
            /\ AccountOf[callback[token'[a]].flow] = a
        BY <1>3, <3>2
      <4>2. callback[token'[a]].pc = "redirected"
        BY <1>1, <4>1 DEF CallbackInv
      <4> QED BY <1>2, <4>1, <4>2
    <3> QED BY <3>1, <3>2
  <2> QED BY <2>1, <2>2 DEF TokenOfAnsweredCallback
<1>9. NotAskedAgain'
  <2>1. \A f \in Flows : \A d \in stored[f] : callback'[d].flow = callback[d].flow
    BY <1>1, <1>2
  <2> QED BY <1>1, <1>2, <2>1 DEF NotAskedAgain
<1> QED BY <1>5, <1>6, <1>7, <1>8, <1>9 DEF OAuthInv

LEMMA OAuthNextInv ==
  ASSUME OAuthInv, OAuthNext \/ UNCHANGED oauthVars
  PROVE  OAuthInv'
<1>1. CASE UNCHANGED oauthVars
  BY <1>1 DEF OAuthInv, OAuthTypeOK, CallbackInv, TokenOfAnsweredCallback, NotAskedAgain,
              oauthVars
<1>2. CASE \E f \in Flows : Authorize(f) \/ GotAccessToken(f) \/ GotWorkspace(f) \/ StateExpires(f)
  BY <1>2, FlowsInv
<1>3. ASSUME NEW c \in Callbacks,
             \/ \E f \in Flows : StartCallback(c, f) \/ CallbackTooLate(c, f)
             \/ Exchanged(c)
             \/ \E e \in ExchangeErrors : ExchangeFails(c, e)
      PROVE  OAuthInv'
  BY <1>3, CallbacksInv
<1>4. ASSUME NEW c \in Callbacks, Stored(c)
      PROVE  OAuthInv'
  BY <1>4, StoredInv
<1>5. oauthRestarts \in 0..MaxOAuthRestarts
  BY DEF OAuthInv, OAuthTypeOK
<1>6. ASSUME NEW c \in Callbacks, StoreRejects(c)
      PROVE  OAuthInv'
  <2>1. /\ callback[c].store = "sent" /\ StoresLand /\ AfterExit(c, "rejected")
        /\ UNCHANGED stored /\ oauthRestarts' = oauthRestarts
    BY <1>6 DEF StoreRejects
  <2>2. "rejected" \in StorePC \ {"none", "sent", "done"}
    BY DEF StorePC
  <2> QED BY <1>5, <2>1, <2>2, ExitInv
<1>7. CASE RestartOAuth
  <2>1. /\ StoresLand /\ AfterExit(NoToken, "lost") /\ UNCHANGED stored
        /\ oauthRestarts < MaxOAuthRestarts /\ oauthRestarts' = oauthRestarts + 1
    BY <1>7 DEF RestartOAuth
  <2>2. oauthRestarts' \in 0..MaxOAuthRestarts
    BY <1>5, <2>1, OAuthBoundsAssumption
  <2>3. "lost" \in StorePC \ {"none", "sent", "done"} /\ NoToken \notin Callbacks
    BY NoFlowAssumption DEF StorePC
  <2> QED BY <2>1, <2>2, <2>3, ExitInv
<1> QED BY <1>1, <1>2, <1>3, <1>4, <1>6, <1>7 DEF OAuthNext, OAuthStep

----------------------------------------------------------------------------
(* Subscriptions: what the operators change                                *)

CallType == [pc : CallPC, op : Operations, about : Keys \cup {NoKey}, key : Keys \cup {NoKey},
             storage : {"none", "success", "failure", "rejected"},
             answer : {"none", "success", "failure"}]

LEMMA SubscriptionsTypes ==
  SubscriptionsTypeOK <=> /\ record \in [Keys -> Records]
                          /\ call \in [Calls -> CallType]
                          /\ after \in [Calls -> SUBSET Calls]
                          /\ callRestarts \in 0..MaxCallRestarts
  BY DEF SubscriptionsTypeOK, CallType

LEMMA CallFields ==
  ASSUME SubscriptionsTypeOK, NEW c \in Calls
  PROVE  /\ call[c] \in CallType
         /\ call[c].pc \in CallPC /\ call[c].op \in Operations
         /\ call[c].about \in Keys \cup {NoKey} /\ call[c].key \in Keys \cup {NoKey}
         /\ call[c].storage \in {"none", "success", "failure", "rejected"}
         /\ call[c].answer \in {"none", "success", "failure"}
  BY SubscriptionsTypes DEF CallType

LEMMA CallToEffect ==
  ASSUME SubscriptionsTypeOK, NEW c \in Calls, NEW d \in CallType, CallTo(c, d)
  PROVE  /\ call' \in [Calls -> CallType] /\ call'[c] = d
         /\ \A b \in Calls \ {c} : call'[b] = call[b]
  BY SubscriptionsTypes DEF CallTo

LEMMA EffectType == \A o \in Operations : Effect[o] \in Records
  BY DEF Operations, Effect, Records

(***************************************************************************)
(* A key that changes does so by a call that was sent, which leaves its    *)
(* effect there.                                                           *)
(***************************************************************************)
WrittenBySent == \A k \in Keys :
    \/ record'[k] = record[k]
    \/ \E c \in Calls : /\ call[c].pc = "sent" /\ call[c].key = k
                        /\ record'[k] = Effect[call[c].op]

LEMMA WriteEffect ==
  ASSUME SubscriptionsTypeOK, NEW c \in Calls, call[c].pc = "sent", call[c].key \in Keys,
         Write(c)
  PROVE  /\ record' \in [Keys -> Records]
         /\ record'[call[c].key] = Effect[call[c].op]
         /\ \A k \in Keys \ {call[c].key} : record'[k] = record[k]
         /\ WrittenBySent
<1>1. Effect[call[c].op] \in Records /\ record \in [Keys -> Records]
  BY CallFields, EffectType, SubscriptionsTypes
<1>2. record' = [record EXCEPT ![call[c].key] = Effect[call[c].op]]
  BY DEF Write
<1>3. /\ record' \in [Keys -> Records]
      /\ record'[call[c].key] = Effect[call[c].op]
      /\ \A k \in Keys \ {call[c].key} : record'[k] = record[k]
  BY <1>1, <1>2
<1> QED BY <1>3 DEF WrittenBySent

----------------------------------------------------------------------------
(* Subscriptions: the invariant                                            *)

(***************************************************************************)
(* What is under a key when no call about it has succeeded, and what it    *)
(* takes for a call to be the one that left the record.                    *)
(***************************************************************************)
Untouched(k) == /\ record[k] = "absent"
                /\ \A c \in Calls : call[c].about = k => call[c].storage # "success"

LeftBy(k, c) == /\ call[c].about = k /\ MayHaveWritten(c)
                /\ record[k] = Effect[call[c].op]
                /\ \A d \in Calls : c \in after[d] => call[d].storage # "success"

LEMMA RecordsLeft ==
  RecordsOfLatestCalls <=> \A k \in Keys : Untouched(k) \/ \E c \in Calls : LeftBy(k, c)
  BY DEF RecordsOfLatestCalls, Untouched, LeftBy

LEMMA RecordsLeftNext ==
  RecordsOfLatestCalls' <=> \A k \in Keys : Untouched(k)' \/ \E c \in Calls : LeftBy(k, c)'
  BY DEF RecordsOfLatestCalls, Untouched, LeftBy

LEMMA SubscriptionsInitInv == SubscriptionsInit => SubscriptionsInv
<1> SUFFICES ASSUME SubscriptionsInit PROVE SubscriptionsInv
  OBVIOUS
<1>1. SubscriptionsTypeOK
  <2>1. call \in [Calls -> CallType]
    BY DEF SubscriptionsInit, CallType, CallPC, Operations
  <2>2. /\ record \in [Keys -> Records] /\ after \in [Calls -> SUBSET Calls]
        /\ callRestarts \in 0..MaxCallRestarts
    BY CallBoundsAssumption DEF SubscriptionsInit, Records
  <2> QED BY <2>1, <2>2, SubscriptionsTypes
<1>2. \A c \in Calls : call[c].pc = "idle" /\ call[c].storage = "none" /\ after[c] = {}
  BY DEF SubscriptionsInit
<1>3. \A k \in Keys : Untouched(k)
  BY <1>2 DEF SubscriptionsInit, Untouched
<1> QED BY <1>1, <1>2, <1>3, RecordsLeft DEF SubscriptionsInv, CallInv, AfterInv

LEMMA StartCallInv ==
  ASSUME SubscriptionsInv, NEW c \in Calls, NEW op \in Operations, NEW k \in Keys,
         StartCall(c, op, k, k)
  PROVE  SubscriptionsInv'
<1> DEFINE ended == {d \in Calls : call[d].about = k /\ Ended(d)}
           new == [pc |-> "sent", op |-> op, about |-> k, key |-> k,
                   storage |-> "none", answer |-> "none"]
<1>1. /\ SubscriptionsTypeOK /\ CallInv(c) /\ call[c].pc = "idle" /\ CallTo(c, new)
      /\ after' = [after EXCEPT ![c] = ended]
      /\ UNCHANGED <<record, callRestarts>>
  BY DEF SubscriptionsInv, StartCall
<1>2. /\ new \in CallType /\ new.pc = "sent" /\ new.about = k /\ new.key = k
      /\ new.storage = "none"
  BY DEF CallType, CallPC
<1> HIDE DEF new
<1>3. /\ call' \in [Calls -> CallType] /\ call'[c] = new
      /\ \A b \in Calls \ {c} : call'[b] = call[b]
  BY <1>1, <1>2, CallToEffect
<1>4. ended \subseteq Calls /\ \A d \in ended : call[d].about = k /\ Ended(d)
  OBVIOUS
<1> HIDE DEF ended
<1>5. /\ after' \in [Calls -> SUBSET Calls] /\ after'[c] = ended
      /\ \A b \in Calls \ {c} : after'[b] = after[b]
  BY <1>1, <1>4, SubscriptionsTypes
<1>6. SubscriptionsTypeOK'
  BY <1>1, <1>3, <1>5 DEF SubscriptionsTypeOK, CallType
<1>7. \A b \in Calls : CallInv(b)'
  BY <1>2, <1>3 DEF SubscriptionsInv, CallInv
<1>8. ASSUME NEW b \in Calls
      PROVE  AfterInv(b)'
  <2>1. AfterInv(b) /\ after[b] \subseteq Calls /\ ~Ended(c)
    BY <1>1, SubscriptionsTypes DEF SubscriptionsInv, Ended
  <2>2. ASSUME NEW d \in after'[b]
        PROVE  d \in Calls \ {c} /\ Ended(d) /\ call[d].about = call'[b].about
    <3>1. CASE b = c
      BY <1>2, <1>3, <1>4, <1>5, <2>1, <2>2, <3>1
    <3>2. CASE b # c
      BY <1>3, <1>5, <2>1, <2>2, <3>2 DEF AfterInv
    <3> QED BY <3>1, <3>2
  <2> QED BY <1>3, <2>2 DEF AfterInv, Ended
<1>9. RecordsOfLatestCalls'
  <2>1. ASSUME NEW q \in Keys, Untouched(q)
        PROVE  Untouched(q)'
    BY <1>1, <1>2, <1>3, <2>1 DEF Untouched
  <2>2. ASSUME NEW q \in Keys, NEW b \in Calls, LeftBy(q, b)
        PROVE  LeftBy(q, b)'
    <3>1. b # c
      BY <1>1, <2>2 DEF LeftBy, MayHaveWritten, CallInv
    <3>2. \A d \in Calls : b \in after'[d] => call'[d].storage # "success"
      BY <1>2, <1>3, <1>5, <2>2 DEF LeftBy
    <3> QED BY <1>1, <1>3, <2>2, <3>1, <3>2 DEF LeftBy, MayHaveWritten
  <2>3. RecordsOfLatestCalls
    BY DEF SubscriptionsInv
  <2> QED BY <2>1, <2>2, <2>3, RecordsLeft, RecordsLeftNext
<1> QED BY <1>6, <1>7, <1>8, <1>9 DEF SubscriptionsInv

(***************************************************************************)
(* The storage answers a call.                                             *)
(***************************************************************************)
LEMMA AppliedInv ==
  ASSUME SubscriptionsInv, NEW c \in Calls, call[c].pc = "sent",
         NEW storage \in {"success", "failure", "rejected"},
         CallTo(c, [call[c] EXCEPT !.pc = "applied", !.storage = storage]),
         (Write(c) /\ storage # "failure") \/ (UNCHANGED record /\ storage # "success"),
         UNCHANGED <<after, callRestarts>>
  PROVE  SubscriptionsInv'
<1> DEFINE new == [call[c] EXCEPT !.pc = "applied", !.storage = storage]
<1>1. /\ SubscriptionsTypeOK /\ CallInv(c) /\ call[c].about \in Keys
      /\ call[c].key = call[c].about /\ call[c].storage = "none"
  BY DEF SubscriptionsInv, CallInv
<1>2. /\ new \in CallType /\ new.pc = "applied" /\ new.storage = storage
      /\ new.about = call[c].about /\ new.key = call[c].key /\ new.op = call[c].op
  BY <1>1, CallFields DEF CallType, CallPC
<1>3. CallTo(c, new)
  OBVIOUS
<1> HIDE DEF new
<1>4. /\ call' \in [Calls -> CallType] /\ call'[c] = new
      /\ \A b \in Calls \ {c} : call'[b] = call[b]
  BY <1>1, <1>2, <1>3, CallToEffect
<1>5. /\ record' \in [Keys -> Records]
      /\ \A k \in Keys \ {call[c].key} : record'[k] = record[k]
      /\ \/ record'[call[c].key] = Effect[call[c].op] /\ storage # "failure"
         \/ record'[call[c].key] = record[call[c].key] /\ storage # "success"
  BY <1>1, WriteEffect, SubscriptionsTypes
<1>6. SubscriptionsTypeOK'
  BY <1>1, <1>4, <1>5 DEF SubscriptionsTypeOK, CallType
<1>7. \A b \in Calls : CallInv(b)'
  BY <1>1, <1>2, <1>4 DEF SubscriptionsInv, CallInv
<1>8. \A b \in Calls : after[b] \subseteq Calls \ {c} /\ AfterInv(b)
  BY <1>1, SubscriptionsTypes DEF SubscriptionsInv, AfterInv, Ended
<1>9. \A b \in Calls : AfterInv(b)'
  BY <1>2, <1>4, <1>8 DEF AfterInv, Ended
<1>10. RecordsOfLatestCalls'
  <2>1. ASSUME NEW q \in Keys
        PROVE  (Untouched(q) \/ \E b \in Calls : LeftBy(q, b))'
    <3>1. CASE q = call[c].key /\ record'[q] = Effect[call[c].op] /\ storage # "failure"
      <4>1. MayHaveWritten(c)'
        BY <1>2, <1>4, <3>1 DEF MayHaveWritten
      <4>2. \A d \in Calls : c \notin after'[d]
        BY <1>8
      <4> QED BY <1>1, <1>2, <1>4, <3>1, <4>1, <4>2 DEF LeftBy
    <3>2. CASE record'[q] = record[q] /\ (q = call[c].key => storage # "success")
      <4>1. CASE Untouched(q)
        BY <1>1, <1>2, <1>4, <3>2, <4>1 DEF Untouched
      <4>2. ASSUME NEW b \in Calls, LeftBy(q, b)
            PROVE  LeftBy(q, b)'
        <5>1. b # c /\ call[b].about = q
          BY <1>1, <4>2 DEF LeftBy, MayHaveWritten
        <5>2. ASSUME NEW d \in Calls, b \in after'[d]
              PROVE  call'[d].storage # "success"
          <6>1. b \in after[d] /\ call[d].about = q /\ call[d].storage # "success"
            BY <1>8, <4>2, <5>1, <5>2 DEF AfterInv, LeftBy
          <6> QED BY <1>1, <1>2, <1>4, <3>2, <6>1
        <5> QED BY <1>4, <3>2, <4>2, <5>1, <5>2 DEF LeftBy, MayHaveWritten
      <4>3. Untouched(q) \/ \E b \in Calls : LeftBy(q, b)
        BY RecordsLeft DEF SubscriptionsInv
      <4> QED BY <4>1, <4>2, <4>3
    <3> QED BY <1>5, <3>1, <3>2
  <2> QED BY <2>1, RecordsLeftNext
<1> QED BY <1>6, <1>7, <1>9, <1>10 DEF SubscriptionsInv

LEMMA AnswerInv ==
  ASSUME SubscriptionsInv, NEW c \in Calls, Answer(c)
  PROVE  SubscriptionsInv'
<1> DEFINE told == Told(call[c].op, call[c].storage)
           new == [call[c] EXCEPT !.pc = "answered", !.answer = told]
<1>1. /\ SubscriptionsTypeOK /\ CallInv(c) /\ call[c].pc = "applied" /\ CallTo(c, new)
      /\ call[c].storage # "none"
      /\ UNCHANGED <<record, after, callRestarts>>
  BY DEF SubscriptionsInv, Answer, CallInv
<1>2. told \in {"none", "success", "failure"}
  BY <1>1, CallFields DEF Told, ToldOfSubscribe, ToldOfUnsubscribe, ToldOfSetStorage, Operations
<1> HIDE DEF told
<1>3. /\ new \in CallType /\ new.pc = "answered" /\ new.storage = call[c].storage
      /\ new.about = call[c].about /\ new.key = call[c].key /\ new.op = call[c].op
  BY <1>1, <1>2, CallFields DEF CallType, CallPC
<1> HIDE DEF new
<1>4. /\ call' \in [Calls -> CallType] /\ call'[c] = new
      /\ \A b \in Calls \ {c} : call'[b] = call[b]
  BY <1>1, <1>3, CallToEffect
<1>5. SubscriptionsTypeOK'
  BY <1>1, <1>4 DEF SubscriptionsTypeOK, CallType
<1>6. \A b \in Calls : CallInv(b)'
  BY <1>1, <1>3, <1>4 DEF SubscriptionsInv, CallInv
<1>7. ASSUME NEW b \in Calls
      PROVE  AfterInv(b)'
  <2>1. AfterInv(b) /\ after[b] \subseteq Calls
    BY SubscriptionsTypes DEF SubscriptionsInv
  <2> QED BY <1>1, <1>3, <1>4, <2>1 DEF AfterInv, Ended
<1>8. \A q \in Keys : Untouched(q) => Untouched(q)'
  BY <1>1, <1>3, <1>4 DEF Untouched
<1>9. ASSUME NEW q \in Keys, NEW b \in Calls, LeftBy(q, b)
      PROVE  LeftBy(q, b)'
  <2>1. MayHaveWritten(b)'
    BY <1>1, <1>3, <1>4, <1>9 DEF LeftBy, MayHaveWritten
  <2> QED BY <1>1, <1>3, <1>4, <1>9, <2>1 DEF LeftBy
<1>10. RecordsOfLatestCalls'
  <2>1. RecordsOfLatestCalls
    BY DEF SubscriptionsInv
  <2> QED BY <1>8, <1>9, <2>1, RecordsLeft, RecordsLeftNext
<1> QED BY <1>5, <1>6, <1>7, <1>10 DEF SubscriptionsInv

(***************************************************************************)
(* The calls under way are lost.  A key that changes does so by one of     *)
(* those that were sent, and no call came after the end of that one.       *)
(***************************************************************************)
LEMMA RestartCallsInv ==
  ASSUME SubscriptionsInv, RestartCalls
  PROVE  SubscriptionsInv'
<1> DEFINE sent == {c \in Calls : call[c].pc = "sent"}
           C(c) == IF call[c].pc \in {"sent", "applied"} THEN [call[c] EXCEPT !.pc = "lost"]
                   ELSE call[c]
<1>1. /\ SubscriptionsTypeOK /\ UNCHANGED after
      /\ callRestarts < MaxCallRestarts /\ callRestarts' = callRestarts + 1
      /\ call' = [c \in Calls |-> C(c)]
  BY DEF SubscriptionsInv, RestartCalls
<1>2. PICK landed \in SUBSET sent :
          record' \in {r \in [Keys -> Records] : \A k \in Keys :
              LET on == {c \in landed : call[c].key = k}
              IN  IF on = {} THEN r[k] = record[k] ELSE \E c \in on : r[k] = Effect[call[c].op]}
  BY DEF RestartCalls
<1>3. record' \in [Keys -> Records] /\ WrittenBySent
  <2>1. ASSUME NEW k \in Keys, record'[k] # record[k]
        PROVE  \E c \in landed : call[c].key = k /\ record'[k] = Effect[call[c].op]
    BY <1>2, <2>1
  <2> QED BY <1>2, <2>1 DEF WrittenBySent
<1>4. ASSUME NEW c \in Calls
      PROVE  /\ C(c) \in CallType
             /\ C(c).about = call[c].about /\ C(c).key = call[c].key /\ C(c).op = call[c].op
             /\ C(c).storage = call[c].storage
             /\ C(c).pc = IF call[c].pc \in {"sent", "applied"} THEN "lost" ELSE call[c].pc
  BY <1>1, CallFields DEF CallType, CallPC
<1> HIDE DEF C
<1>5. call' \in [Calls -> CallType] /\ \A c \in Calls : call'[c] = C(c)
  BY <1>1, <1>4
<1>6. callRestarts' \in 0..MaxCallRestarts
  BY <1>1, CallBoundsAssumption DEF SubscriptionsTypeOK
<1>7. SubscriptionsTypeOK'
  BY <1>1, <1>3, <1>5, <1>6 DEF SubscriptionsTypeOK, CallType
<1>8. \A c \in Calls : CallInv(c)'
  <2>1. \A c \in Calls : CallInv(c)
    BY DEF SubscriptionsInv
  <2> QED BY <1>4, <1>5, <2>1 DEF CallInv
<1>9. \A c \in Calls : AfterInv(c) /\ after[c] \subseteq Calls
  BY <1>1, SubscriptionsTypes DEF SubscriptionsInv
<1>10. \A c \in Calls : AfterInv(c)'
  BY <1>1, <1>4, <1>5, <1>9 DEF AfterInv, Ended
<1>11. ASSUME NEW q \in Keys
       PROVE  (Untouched(q) \/ \E b \in Calls : LeftBy(q, b))'
  <2>1. ASSUME NEW c \in Calls, call[c].pc = "sent", call[c].key = q,
               record'[q] = Effect[call[c].op]
        PROVE  LeftBy(q, c)'
    <3>1. CallInv(c) /\ \A d \in Calls : c \notin after[d]
      BY <1>9, <2>1 DEF SubscriptionsInv, AfterInv, Ended
    <3>2. MayHaveWritten(c)'
      BY <1>4, <1>5, <2>1, <3>1 DEF CallInv, MayHaveWritten
    <3> QED BY <1>1, <1>4, <1>5, <2>1, <3>1, <3>2 DEF LeftBy, CallInv
  <2>2. CASE record'[q] = record[q]
    <3>1. Untouched(q) => Untouched(q)'
      BY <1>4, <1>5, <2>2 DEF Untouched
    <3>2. ASSUME NEW b \in Calls, LeftBy(q, b)
          PROVE  LeftBy(q, b)'
      <4>1. MayHaveWritten(b)'
        BY <1>4, <1>5, <3>2 DEF LeftBy, MayHaveWritten
      <4> QED BY <1>1, <1>4, <1>5, <2>2, <3>2, <4>1 DEF LeftBy
    <3>3. Untouched(q) \/ \E b \in Calls : LeftBy(q, b)
      BY RecordsLeft DEF SubscriptionsInv
    <3> QED BY <3>1, <3>2, <3>3
  <2> QED BY <1>3, <2>1, <2>2 DEF WrittenBySent
<1>12. RecordsOfLatestCalls'
  BY <1>11, RecordsLeftNext
<1> QED BY <1>7, <1>8, <1>10, <1>12 DEF SubscriptionsInv

LEMMA SubscriptionsNextInv ==
  ASSUME SubscriptionsInv, SubscriptionsNext \/ UNCHANGED subscriptionVars
  PROVE  SubscriptionsInv'
<1>1. CASE UNCHANGED subscriptionVars
  BY <1>1 DEF SubscriptionsInv, SubscriptionsTypeOK, CallInv, AfterInv, Ended,
     RecordsOfLatestCalls, MayHaveWritten, subscriptionVars
<1>2. CASE \E c \in Calls, event \in EventTypes, id \in SubscriptionIds : Subscribe(c, event, id)
  <2>1. PICK c \in Calls, event \in EventTypes, id \in SubscriptionIds : Subscribe(c, event, id)
    BY <1>2
  <2>2. <<event, id>> \in Keys /\ KeyOf(event, id) = <<event, id>>
    BY DEF Keys, KeyOf
  <2> QED BY <2>1, <2>2, StartCallInv DEF Subscribe, Operations
<1>3. CASE \E c \in Calls, event \in EventTypes, id \in WebhookIds : Unsubscribe(c, event, id)
  <2>1. PICK c \in Calls, event \in EventTypes, id \in WebhookIds : Unsubscribe(c, event, id)
    BY <1>3
  <2>2. <<event, id>> \in Keys /\ KeyOf(event, id) = <<event, id>>
    BY DEF Keys, KeyOf
  <2> QED BY <2>1, <2>2, StartCallInv DEF Unsubscribe, Operations
<1>4. CASE \E c \in Calls, key \in StorageKeys : SetStorage(c, key)
  <2>1. PICK c \in Calls, key \in StorageKeys : SetStorage(c, key)
    BY <1>4
  <2>2. key \in Keys
    BY DEF Keys
  <2> QED BY <2>1, <2>2, StartCallInv DEF SetStorage, Operations
<1>5. ASSUME NEW c \in Calls, StorageSucceeds(c) \/ StorageFails(c) \/ StorageRejects(c)
      PROVE  SubscriptionsInv'
  <2>1. PICK storage \in {"success", "failure", "rejected"} :
            /\ CallTo(c, [call[c] EXCEPT !.pc = "applied", !.storage = storage])
            /\ (Write(c) /\ storage # "failure") \/ (UNCHANGED record /\ storage # "success")
    BY <1>5 DEF StorageSucceeds, StorageFails, StorageRejects
  <2>2. call[c].pc = "sent" /\ UNCHANGED <<after, callRestarts>>
    BY <1>5 DEF StorageSucceeds, StorageFails, StorageRejects
  <2> QED BY <2>1, <2>2, AppliedInv
<1>6. CASE \E c \in Calls : Answer(c)
  BY <1>6, AnswerInv
<1>7. CASE RestartCalls
  BY <1>7, RestartCallsInv
<1> QED BY <1>1, <1>2, <1>3, <1>4, <1>5, <1>6, <1>7 DEF SubscriptionsNext

----------------------------------------------------------------------------
(* The endpoints together                                                  *)

LEMMA EndpointsInitInv == Init => EndpointsInv
<1> SUFFICES ASSUME Init PROVE EndpointsInv
  OBVIOUS
<1>1. OAuthInv /\ SubscriptionsInv
  BY OAuthInitInv, SubscriptionsInitInv DEF Init
<1>2. NoError \in PlainErrors
  BY DEF PlainErrors
<1>3. plain \in [Plain -> [kind : DOMAIN ErrorsOf \cup {"none"}, thrown : PlainErrors]]
  BY <1>2 DEF Init
<1> QED BY <1>1, <1>3 DEF Init, EndpointsInv, EndpointsTypeOK, OAuthInv, SubscriptionsInv

LEMMA PlainStep ==
  ASSUME EndpointsInv, NEW q \in Plain, NEW k \in DOMAIN ErrorsOf, PlainRequest(q, k)
  PROVE  plain' \in [Plain -> [kind : DOMAIN ErrorsOf \cup {"none"}, thrown : PlainErrors]]
<1>1. PICK e \in ErrorsOf[k] \cup {NoError} :
          plain' = [plain EXCEPT ![q] = [kind |-> k, thrown |-> e]]
  BY DEF PlainRequest
<1>2. e \in PlainErrors
  BY DEF PlainErrors
<1> QED BY <1>1, <1>2 DEF EndpointsInv, EndpointsTypeOK

LEMMA EndpointsNextInv ==
  ASSUME EndpointsInv, [Next]_endpointVars
  PROVE  EndpointsInv'
<1>1. OAuthNext \/ UNCHANGED oauthVars
  BY DEF Next, endpointVars
<1>2. SubscriptionsNext \/ UNCHANGED subscriptionVars
  BY DEF Next, endpointVars
<1>3. OAuthInv' /\ SubscriptionsInv'
  BY <1>1, <1>2, OAuthNextInv, SubscriptionsNextInv DEF EndpointsInv
<1>4. UNCHANGED controller
  BY DEF Next, endpointVars
<1>5. plain' \in [Plain -> [kind : DOMAIN ErrorsOf \cup {"none"}, thrown : PlainErrors]]
  <2>1. CASE UNCHANGED plain
    BY <2>1 DEF EndpointsInv, EndpointsTypeOK
  <2>2. CASE \E q \in Plain, k \in DOMAIN ErrorsOf : PlainRequest(q, k)
    BY <2>2, PlainStep
  <2> QED BY <2>1, <2>2 DEF Next, endpointVars
<1> QED BY <1>3, <1>4, <1>5 DEF EndpointsInv, EndpointsTypeOK, OAuthInv, SubscriptionsInv

(***************************************************************************)
(* The invariant of the three parts holds in every behaviour.              *)
(***************************************************************************)
THEOREM EndpointsInvariant == Spec => []EndpointsInv
<1>1. Init => EndpointsInv
  BY EndpointsInitInv
<1>2. EndpointsInv /\ [Next]_endpointVars => EndpointsInv'
  BY EndpointsNextInv
<1> QED BY <1>1, <1>2, PTL DEF Spec

(***************************************************************************)
(* Every variable of the endpoints has its type.                           *)
(***************************************************************************)
THEOREM EndpointsTypes == Spec => []EndpointsTypeOK
<1>1. EndpointsInv => EndpointsTypeOK
  BY DEF EndpointsInv
<1> QED BY <1>1, EndpointsInvariant, PTL

(***************************************************************************)
(* A browser is sent straight back only to an account that has a token,    *)
(* and a token lies under the account whose flow its callback came from.   *)
(***************************************************************************)
THEOREM TokensOfCallbacks == Spec => []TokenOfAnsweredCallback
<1>1. EndpointsInv => TokenOfAnsweredCallback
  BY DEF EndpointsInv, OAuthInv
<1> QED BY <1>1, EndpointsInvariant, PTL

(***************************************************************************)
(* A user whose token had been stored is not asked for consent again.      *)
(***************************************************************************)
THEOREM ConsentOnce == Spec => []NotAskedAgain
<1>1. EndpointsInv => NotAskedAgain
  BY DEF EndpointsInv, OAuthInv
<1> QED BY <1>1, EndpointsInvariant, PTL

(***************************************************************************)
(* A record is what a call about its key left, and one that no successful  *)
(* call has replaced since that call ended: whatever calls overlap, fail,  *)
(* reject or are lost in restarts.                                         *)
(***************************************************************************)
THEOREM RecordsAreLatest == Spec => []RecordsOfLatestCalls
<1>1. EndpointsInv => RecordsOfLatestCalls
  BY DEF EndpointsInv, SubscriptionsInv
<1> QED BY <1>1, EndpointsInvariant, PTL
=============================================================================
