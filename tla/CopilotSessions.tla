--------------------------- MODULE CopilotSessions ---------------------------
(***************************************************************************)
(* The model session token of components/model/copilot.  Requests for a    *)
(* premium model carry the session token the copies of a CopilotModel      *)
(* share.  The first request that finds none acquires one and starts a     *)
(* goroutine that refreshes it before it expires; a request for the        *)
(* automatic model resolves the model and gets a token with it, which it   *)
(* puts into the same place, and starts a goroutine of its own.  Both      *)
(* goroutines live in the context of the request that started them.        *)
(*                                                                         *)
(* Time is a counter.  It does not pass a token's expiry while a goroutine *)
(* that is to refresh it is alive (they start early enough), nor between   *)
(* the look at the token and the sending of a request.  The API may say of *)
(* a token that it has no expiry (expires_at is 0, or below): nothing      *)
(* refreshes it then, and the API is taken to accept it for good.          *)
(***************************************************************************)
EXTENDS Integers, FiniteSets

CONSTANTS
    Copies,         \* the CopilotModel and its copies by WithTools
    Original,       \* the one NewCopilotChatModel returned
    Requests,       \* the calls of Generate and Stream
    Premium,        \* the models that need a session token
    Plain,          \* the models that do not
    Auto,           \* the sentinel "auto"
    Lifetime,       \* how long a session token is valid, longer than Buffer
    Buffer,         \* refreshBufSecs
    MaxClock,       \* bound: the passing of time
    MaxFailures     \* bound: requests to /models/session that fail

VARIABLES
    clock,
    session,        \* m.sessionToken, shared by the copies: when it expires
    auto,           \* m.autoModel of each copy
    own,            \* m.cancelSessionRefresh of each copy is set
    cancelAuto,     \* m.cancelAutoRefresh of each copy: whose goroutine it ends
    sessionMu, autoMu,
    req,            \* the requests
    refresher,      \* the goroutine each request has started
    failures

vars == <<clock, session, auto, own, cancelAuto, sessionMu, autoMu, req, refresher, failures>>

Nobody == "nobody"
NoToken == -1
NoExpiry == 0
NoModel == "no model"
Unresolved == [model |-> NoModel, expires |-> NoExpiry]
Unasked == [stage |-> "new", copy |-> Original, model |-> NoModel, live |-> TRUE]
Unstarted == [kind |-> "none", copy |-> Original, expires |-> NoExpiry, stage |-> "none",
              cancelled |-> FALSE]

\* The expires_at /models/session may answer with.
Expiries == {NoExpiry, clock + Lifetime}

Past(expires) == expires # NoExpiry /\ clock >= expires

hasToken == session # NoToken
needsSessionToken(model) == model \in Premium

\* cachedAutoModelLocked: resolved, and without an expiry or not near it.
cachedAutoModel(c) ==
    /\ auto[c].model # NoModel
    /\ auto[c].expires = NoExpiry \/ clock + Buffer < auto[c].expires

\* The context of a goroutine: the one of the request it was started in, and
\* its own cancellation.
Alive(g) == /\ refresher[g].stage \notin {"none", "ended"}
            /\ req[g].live /\ ~refresher[g].cancelled

Init ==
    /\ clock = 0
    /\ session = NoToken
    /\ auto = [c \in Copies |-> Unresolved]
    /\ own = [c \in Copies |-> FALSE]
    /\ cancelAuto = [c \in Copies |-> Nobody]
    /\ sessionMu = Nobody /\ autoMu = Nobody
    /\ req = [r \in Requests |-> Unasked]
    /\ refresher = [r \in Requests |-> Unstarted]
    /\ failures = 0

-----------------------------------------------------------------------------
\* WithTools copies the fields: the tokens and the locks are shared, the
\* automatic model and the functions that end goroutines are not.
WithTools(c, d) ==
    /\ \A r \in Requests : req[r].stage = "new" \/ req[r].copy # d
    /\ auto' = [auto EXCEPT ![d] = auto[c]]
    /\ own' = [own EXCEPT ![d] = own[c]]
    /\ cancelAuto' = [cancelAuto EXCEPT ![d] = cancelAuto[c]]
    /\ UNCHANGED <<clock, session, sessionMu, autoMu, req, refresher, failures>>

\* The model of a request is resolved, and where a session is needed its fast
\* path is tried.
Generate(r, c, model) ==
    /\ req[r].stage = "new"
    /\ req' = [req EXCEPT ![r] =
          [@ EXCEPT !.copy = c,
                    !.model = IF model = Auto THEN NoModel ELSE model,
                    !.stage = CASE model = Auto -> "auto"
                                [] needsSessionToken(model) -> "session"
                                [] OTHER -> "ready"]]
    /\ UNCHANGED <<clock, session, auto, own, cancelAuto, sessionMu, autoMu, refresher, failures>>

To(r, stage) == req' = [req EXCEPT ![r].stage = stage]

\* ensureSessionToken: a token with a refresher, or, under the lock, any token
\* is enough.  Its expiry is not looked at.
SessionReady(r) ==
    /\ req[r].stage = "session"
    /\ hasToken
    /\ own[req[r].copy] \/ sessionMu = Nobody
    /\ To(r, "ready")
    /\ UNCHANGED <<clock, session, auto, own, cancelAuto, sessionMu, autoMu, refresher, failures>>

LockSession(r) ==
    /\ req[r].stage = "session"
    /\ ~hasToken
    /\ sessionMu = Nobody
    /\ sessionMu' = r
    /\ To(r, "acquiring")
    /\ UNCHANGED <<clock, session, auto, own, cancelAuto, autoMu, refresher, failures>>

\* The goroutine of request r, for the token it has got; none if that has no expiry.
Started(r, kind, expires) ==
    IF expires = NoExpiry THEN refresher
    ELSE [refresher EXCEPT ![r] = [kind |-> kind, copy |-> req[r].copy, stage |-> "asleep",
                                   expires |-> expires, cancelled |-> FALSE]]

\* The session token arrives: it is kept, and startSessionRefresh is called with
\* the context of the request.  It always returns a function to cancel with.
AcquireSession(r, expires) ==
    /\ req[r].stage = "acquiring"
    /\ req[r].live
    /\ session' = expires
    /\ refresher' = Started(r, "session", expires)
    /\ own' = [own EXCEPT ![req[r].copy] = TRUE]
    /\ sessionMu' = Nobody
    /\ To(r, "ready")
    /\ UNCHANGED <<clock, auto, cancelAuto, autoMu, failures>>

\* A request for a token fails by itself or with its context.
Fails(live) == /\ live => failures < MaxFailures
               /\ failures' = IF live THEN failures + 1 ELSE failures

AcquireSessionFails(r) ==
    /\ req[r].stage = "acquiring"
    /\ Fails(req[r].live)
    /\ sessionMu' = Nobody
    /\ To(r, "failed")
    /\ UNCHANGED <<clock, session, auto, own, cancelAuto, autoMu, refresher>>

-----------------------------------------------------------------------------
\* ensureAutoModel: the cached model, looked at again under the lock.
AutoReady(r) ==
    /\ req[r].stage = "auto"
    /\ autoMu = Nobody
    /\ cachedAutoModel(req[r].copy)
    /\ req' = [req EXCEPT ![r].stage = "ready", ![r].model = auto[req[r].copy].model]
    /\ UNCHANGED <<clock, session, auto, own, cancelAuto, sessionMu, autoMu, refresher, failures>>

LockAuto(r) ==
    /\ req[r].stage = "auto"
    /\ autoMu = Nobody
    /\ ~cachedAutoModel(req[r].copy)
    /\ autoMu' = r
    /\ To(r, "resolving")
    /\ UNCHANGED <<clock, session, auto, own, cancelAuto, sessionMu, refresher, failures>>

\* applyAutoSession: the resolution of this copy, and the token of all.
applyAutoSession(c, model, expires) ==
    /\ auto' = [auto EXCEPT ![c] = [model |-> model, expires |-> expires]]
    /\ session' = expires

\* The earlier goroutine of this copy is cancelled, one for this token started.
ResolveAuto(r, model, expires) ==
    LET c == req[r].copy
        before == cancelAuto[c]
    IN /\ req[r].stage = "resolving"
       /\ req[r].live
       /\ applyAutoSession(c, model, expires)
       /\ refresher' = [g \in Requests |->
             IF g = before THEN [refresher[g] EXCEPT !.cancelled = TRUE]
             ELSE Started(r, "auto", expires)[g]]
       /\ cancelAuto' = [cancelAuto EXCEPT ![c] = r]
       /\ autoMu' = Nobody
       /\ req' = [req EXCEPT ![r].stage = "ready", ![r].model = model]
       /\ UNCHANGED <<clock, own, sessionMu, failures>>

ResolveAutoFails(r) ==
    /\ req[r].stage = "resolving"
    /\ Fails(req[r].live)
    /\ autoMu' = Nobody
    /\ To(r, "failed")
    /\ UNCHANGED <<clock, session, auto, own, cancelAuto, sessionMu, refresher>>

-----------------------------------------------------------------------------
\* The request is sent with the token of that moment.  The server refuses an
\* expired one, and that is the answer of the request; a context that has ended
\* fails it before.
Send(r) ==
    /\ req[r].stage = "ready"
    /\ To(r, CASE ~req[r].live -> "failed"
               [] req[r].live /\ needsSessionToken(req[r].model) /\ Past(session) -> "expired"
               [] OTHER -> "answered")
    /\ UNCHANGED <<clock, session, auto, own, cancelAuto, sessionMu, autoMu, refresher, failures>>

\* The host ends the context of a request, after it or before.
EndContext(r) ==
    /\ req[r].stage # "new"
    /\ req[r].live
    /\ req' = [req EXCEPT ![r].live = FALSE]
    /\ UNCHANGED <<clock, session, auto, own, cancelAuto, sessionMu, autoMu, refresher, failures>>

-----------------------------------------------------------------------------
\* A goroutine wakes Buffer before the expiry it knows, and asks; a token it has been
\* given without an expiry it replaces before long.
Wake(g) ==
    /\ Alive(g)
    /\ refresher[g].stage = "asleep"
    /\ clock + Buffer >= refresher[g].expires
    /\ refresher' = [refresher EXCEPT ![g].stage = "asking"]
    /\ UNCHANGED <<clock, session, auto, own, cancelAuto, sessionMu, autoMu, req, failures>>

\* startSessionRefresh: the new token replaces the old one.
RenewSession(g, expires) ==
    /\ Alive(g)
    /\ refresher[g].stage = "asking" /\ refresher[g].kind = "session"
    /\ session' = expires
    /\ refresher' = [refresher EXCEPT ![g].stage = "asleep", ![g].expires = expires]
    /\ UNCHANGED <<clock, auto, own, cancelAuto, sessionMu, autoMu, req, failures>>

\* startAutoModelRefresh: the answer arrives, and is applied once the lock is
\* free, also when the goroutine was cancelled while it waited.
AnswerAuto(g, expires) ==
    /\ Alive(g)
    /\ refresher[g].stage = "asking" /\ refresher[g].kind = "auto"
    /\ refresher' = [refresher EXCEPT ![g].stage = "applying", ![g].expires = expires]
    /\ UNCHANGED <<clock, session, auto, own, cancelAuto, sessionMu, autoMu, req, failures>>

RenewAuto(g, model) ==
    /\ refresher[g].stage = "applying"
    /\ autoMu = Nobody
    /\ applyAutoSession(refresher[g].copy, model, refresher[g].expires)
    /\ refresher' = [refresher EXCEPT ![g].stage = "asleep"]
    /\ UNCHANGED <<clock, own, cancelAuto, sessionMu, autoMu, req, failures>>

\* A failed request is repeated after a pause.
RenewFails(g) ==
    /\ Alive(g)
    /\ refresher[g].stage = "asking"
    /\ Fails(TRUE)
    /\ UNCHANGED <<clock, session, auto, own, cancelAuto, sessionMu, autoMu, req, refresher>>

\* The goroutine ends with its context.
Quit(g) ==
    /\ refresher[g].stage \in {"asleep", "asking"}
    /\ ~Alive(g)
    /\ refresher' = [refresher EXCEPT ![g].stage = "ended"]
    /\ UNCHANGED <<clock, session, auto, own, cancelAuto, sessionMu, autoMu, req, failures>>

Tick ==
    /\ clock < MaxClock
    /\ \A r \in Requests : /\ req[r].stage # "ready"
                           /\ Alive(r) => \/ refresher[r].expires = NoExpiry
                                          \/ clock + 1 < refresher[r].expires
    /\ clock' = clock + 1
    /\ UNCHANGED <<session, auto, own, cancelAuto, sessionMu, autoMu, req, refresher, failures>>

Next ==
    \/ \E c, d \in Copies : c # d /\ d # Original /\ WithTools(c, d)
    \/ \E r \in Requests :
          \/ \E c \in Copies, model \in Premium \cup Plain \cup {Auto} : Generate(r, c, model)
          \/ SessionReady(r) \/ LockSession(r) \/ AcquireSessionFails(r)
          \/ AutoReady(r) \/ LockAuto(r) \/ ResolveAutoFails(r)
          \/ \E expires \in Expiries :
                \/ AcquireSession(r, expires) \/ RenewSession(r, expires) \/ AnswerAuto(r, expires)
                \/ \E model \in Premium \cup Plain : ResolveAuto(r, model, expires)
          \/ Send(r) \/ EndContext(r)
          \/ Wake(r) \/ RenewFails(r) \/ Quit(r)
          \/ \E model \in Premium \cup Plain : RenewAuto(r, model)
    \/ Tick

Spec == Init /\ [][Next]_vars

-----------------------------------------------------------------------------
\* What the package's README says of the session token: "Refresh ~60s before
\* expires_at; re-acquire on 401/mc_session_token_expired".  While /models/session
\* answers every request for a token, no request is refused for an expired one.
ExpiredTokensAreReplaced ==
    failures = 0 => \A r \in Requests : req[r].stage # "expired"
=============================================================================
