------------------------------ MODULE Requests ------------------------------
(***************************************************************************)
(* The request loops of the three cloud providers, with their tokens and   *)
(* limits: doRequest of Okta (okta/api.go) behind its rate limiter, with   *)
(* an API key or with OAuth2 (okta/oauth2.go); doRequest of Entra ID       *)
(* (entraid/api.go) with its shared token source (entraid/auth.go); and    *)
(* doWithRetry of Jamf (jamf/api.go) under the loop over the pages that    *)
(* renews the token (jamf/provider.go). The loops are modelled together    *)
(* to state once what all of them promise; "client" picks one.             *)
(*                                                                         *)
(* A sync makes its requests one by one on its goroutine. It may be        *)
(* cancelled wherever it waits, and the next one starts.                   *)
(*                                                                         *)
(* Time is a set of countdowns in ticks. It passes only where the code     *)
(* waits; between the check of a token and the arrival of its request at   *)
(* most Grace ticks pass, the assumption the grace period stands for.      *)
(* Answers carry no content. A request is answered in the end: for Okta    *)
(* and Entra ID that is an assumption, their default clients have no       *)
(* timeout.                                                                *)
(*                                                                         *)
(* Bounds: Attempts, Delay (of every backoff), MaxWait, TokenLife, Grace   *)
(* and MaxReset, in ticks.                                                 *)
(***************************************************************************)
EXTENDS RateLimiter

CONSTANTS Attempts, Delay, MaxWait, TokenLife, Grace

ASSUME RequestsAssumption ==
    /\ "token" \notin Endpoint
    /\ Attempts \in Nat \ {0} /\ Delay \in Nat /\ MaxWait \in Nat
    /\ Grace \in Nat /\ TokenLife \in Nat /\ TokenLife > Grace

VARIABLES
    client,     \* the provider, and for Okta the kind of its credentials
    pc,         \* where the loop is
    target,     \* the endpoint asked, or "token"
    attempt,    \* from 0
    delay,      \* ticks until the loop goes on
    deadline,   \* ticks left to wait for the rate limiter
    token,      \* the cached token; rejected: an answer to it was 401
    blocked     \* ticks each endpoint has asked to be left alone

vars == <<fixed, limiter, client, pc, target, attempt, delay, deadline, token, blocked>>

Okta == {"okta", "okta_oauth2"}
Clients == Okta \cup {"entraid", "jamf"}

NoToken == [held |-> FALSE, left |-> 0, rejected |-> FALSE]
Fresh == [held |-> TRUE, left |-> TokenLife, rejected |-> FALSE]
Tokens == [held : BOOLEAN, left : 0..TokenLife, rejected : BOOLEAN]

Longest == MaxReset + Delay + Grace

RequestsTypeOK ==
    /\ fixed \in BOOLEAN /\ limiter \in [Endpoint -> Limiters]
    /\ client \in Clients
    /\ pc \in {"idle", "backoff", "attempt", "wait", "exchange", "send", "sent", "pause"}
    /\ target \in Endpoint \cup {"token"}
    /\ attempt \in 0..Attempts - 1
    /\ delay \in 0..Longest /\ deadline \in 0..MaxWait
    /\ token \in Tokens
    /\ blocked \in [Endpoint -> 0..MaxReset]

Unblocked == [e \in Endpoint |-> 0]

\* The token a sync starts with: with a JWK it is exchanged at once, with a
\* client secret for the first request. Entra ID's source outlives the sync.
FirstToken ==
    CASE client = "okta_oauth2" -> {NoToken, Fresh}
      [] client = "entraid" -> {token}
      [] OTHER -> {NoToken}

Init ==
    /\ client \in Clients
    /\ fixed \in BOOLEAN /\ (fixed => client \in Okta)
    /\ limiter = NewRateLimiter
    /\ pc = "idle" /\ target = "token" /\ attempt = 0
    /\ delay = 0 /\ deadline = 0
    /\ token = NoToken
    /\ blocked = Unblocked

\* Mutant of Valid: no grace period.
ValidToTheEnd(t) == t.held /\ t.left > 0

Valid(t) == t.held /\ t.left > Grace

-----------------------------------------------------------------------------
(* One request. The operators below set pc, delay and attempt. *)

Goto(p, d) == pc' = p /\ delay' = d

\* The request fails, and with it, for Jamf, the sync that holds the token.
Fail(t) ==
    /\ Goto("idle", 0)
    /\ token' = IF client = "jamf" THEN NoToken ELSE t
    /\ UNCHANGED attempt

\* Mutant of Retry: the last attempt is made again and again.
RetryForever(t) ==
    /\ Goto("backoff", Delay)
    /\ attempt' = IF attempt + 1 = Attempts THEN attempt ELSE attempt + 1
    /\ token' = t

\* Mutant of Retry: one attempt too many.
RetryOnceMore(t) ==
    \/ attempt = Attempts /\ Fail(t)
    \/ /\ attempt < Attempts
       /\ attempt' = attempt + 1
       /\ Goto("backoff", Delay)
       /\ token' = t

\* The end of a round of the loop.
Retry(t) ==
    \/ attempt + 1 = Attempts /\ Fail(t)
    \/ /\ attempt + 1 < Attempts
       /\ attempt' = attempt + 1
       /\ Goto("backoff", Delay)
       /\ token' = t

\* A request to e. Jamf asks for a token first unless the one it has is valid.
Start(e) ==
    /\ pc = "idle"
    /\ target' = IF client = "jamf" /\ ~Valid(token) THEN "token" ELSE e
    /\ attempt' = 0
    /\ Goto("attempt", 0)
    /\ UNCHANGED <<fixed, limiter, client, deadline, token, blocked>>

\* After a backoff: the next attempt.
Again ==
    /\ pc = "backoff"
    /\ delay = 0
    /\ Goto("attempt", 0)
    /\ UNCHANGED <<fixed, limiter, client, target, attempt, deadline, token, blocked>>

\* With a usable token the request is made, otherwise one is asked for.
Authorize ==
    IF client \in {"okta_oauth2", "entraid"} /\ ~Valid(token)
    THEN Goto("exchange", 0)
    ELSE Goto("send", Grace)

\* Okta waits for its limiter first. Jamf uses the token of the page's start.
Attempt ==
    /\ pc = "attempt"
    /\ IF client \in Okta
       THEN Goto("wait", 0) /\ deadline' = MaxWait
       ELSE Authorize /\ UNCHANGED deadline
    /\ UNCHANGED <<fixed, limiter, client, target, attempt, token, blocked>>

\* RateLimiter.Wait returns. Only then does the transport look for a token.
Granted ==
    /\ pc = "wait"
    /\ limiter[target].ready
    /\ limiter[target].rate = 1 /\ limiter[target].burst = 1
    /\ Authorize
    /\ UNCHANGED <<fixed, limiter, client, target, attempt, deadline, token, blocked>>

\* The deadline passes, or the limiter is ready and its rate would need longer
\* than the deadline, or has no burst.
WaitFails ==
    /\ pc = "wait"
    /\ deadline = 0 \/ limiter[target].ready
    /\ Fail(token)
    /\ UNCHANGED <<fixed, limiter, client, target, deadline, blocked>>

\* The token endpoint answers. A failure is a transport error to Okta's loop,
\* and final for Entra ID's.
Exchanged ==
    /\ pc = "exchange"
    /\ \/ token' = Fresh /\ Goto("send", Grace) /\ UNCHANGED attempt
       \/ IF client = "okta_oauth2" THEN Retry(token) ELSE Fail(token)
    /\ UNCHANGED <<fixed, limiter, client, target, deadline, blocked>>

Send ==
    /\ pc = "send"
    /\ Goto("sent", 0)
    /\ UNCHANGED <<fixed, limiter, client, target, attempt, deadline, token, blocked>>

-----------------------------------------------------------------------------
(* Answers *)

\* gone: 400 or 410; refused: any other 4xx; body: it cannot be read.
Failures == {"limited", "unauthorized", "gone", "refused", "server", "network", "body"}

\* What each loop tries again, at once or after what the answer asks for.
Retried ==
    CASE client \in Okta -> {"limited", "network"}
      [] client = "entraid" -> {"limited", "unauthorized", "server", "network"}
      [] client = "jamf" -> {"server", "network", "body"}

\* Mutant of AfterUnauthorized: the token is kept.
KeepToken(t) == [t EXCEPT !.rejected = TRUE]

\* Entra ID drops the token, the others know nothing of it.
AfterUnauthorized(t) ==
    IF client = "entraid" THEN NoToken ELSE [t EXCEPT !.rejected = t.held]

\* 200, with a body that parses.
Succeed ==
    /\ Goto("idle", 0)
    /\ UNCHANGED <<attempt, token>>

\* Jamf has its token, which goes to the page.
TokenReceived(e) ==
    /\ target' = e
    /\ attempt' = 0
    /\ Goto("attempt", 0)
    /\ token' = Fresh

\* An answer to a request for a token: Jamf only.
AnswerToken(a) ==
    /\ pc = "sent"
    /\ target = "token"
    /\ \/ a = "ok" /\ \E e \in Endpoint : TokenReceived(e)
       \/ a \in Retried /\ Retry(token) /\ UNCHANGED target
       \/ a \in Failures \ Retried /\ Fail(token) /\ UNCHANGED target
    /\ UNCHANGED <<fixed, limiter, client, deadline, blocked>>

\* Okta's loop looks at the headers of every answer before its status.
AnswerOkta(a, h) ==
    /\ pc = "sent"
    /\ client \in Okta
    /\ a # "network" \/ h = NoHeaders
    /\ Update(target, h)
    /\ blocked' = IF Exhausted(h)
                  THEN [blocked EXCEPT ![target] = Reset(h)] ELSE blocked
    /\ LET t == IF a = "unauthorized" THEN AfterUnauthorized(token) ELSE token IN
       \/ UpdateFails(h) /\ Fail(t)
       \/ ~UpdateFails(h) /\ a = "ok" /\ Succeed
       \/ ~UpdateFails(h) /\ a \in Retried /\ Retry(t)
       \/ ~UpdateFails(h) /\ a \in Failures \ Retried /\ Fail(t)
    /\ UNCHANGED <<fixed, client, target, deadline>>

\* Mutant of PauseFor: the server's Retry-After is ignored.
PauseForDelay(ra) == Delay

\* Retry-After, when there is one that parses; -1 when not.
PauseFor(ra) == IF ra >= 0 THEN ra ELSE Delay

\* Entra ID waits out a 429 before the round ends.
AnswerEntra(a, ra) ==
    /\ pc = "sent"
    /\ client = "entraid"
    /\ a = "limited" \/ ra = -1
    /\ blocked' = IF ra > 0 THEN [blocked EXCEPT ![target] = ra] ELSE blocked
    /\ \/ a = "ok" /\ Succeed
       \/ a = "limited" /\ Goto("pause", PauseFor(ra)) /\ UNCHANGED <<attempt, token>>
       \/ a = "unauthorized" /\ Retry(AfterUnauthorized(token))
       \/ a \in Retried \ {"limited", "unauthorized"} /\ Retry(token)
       \/ a \in Failures \ Retried /\ Fail(token)
    /\ UNCHANGED <<fixed, limiter, client, target, deadline>>

PauseOver ==
    /\ pc = "pause"
    /\ delay = 0
    /\ Retry(token)
    /\ UNCHANGED <<fixed, limiter, client, target, deadline, blocked>>

AnswerJamf(a) ==
    /\ pc = "sent"
    /\ client = "jamf" /\ target # "token"
    /\ \/ a = "ok" /\ Succeed
       \/ a \in Retried /\ Retry(token)
       \/ a \in Failures \ Retried /\ Fail(token)
    /\ UNCHANGED <<fixed, limiter, client, target, deadline, blocked>>

Answer ==
    \E a \in Failures \cup {"ok"} :
        \/ AnswerToken(a)
        \/ \E h \in Headers : AnswerOkta(a, h)
        \/ \E ra \in -1..MaxReset : AnswerEntra(a, ra)
        \/ AnswerJamf(a)

-----------------------------------------------------------------------------

\* The sync ends, by itself or because its context is cancelled where it
\* waits, and the next starts, with a limiter of its own.
NewSync ==
    /\ pc # "attempt"
    /\ Goto("idle", 0)
    /\ attempt' = 0 /\ deadline' = 0
    /\ limiter' = NewRateLimiter
    /\ blocked' = Unblocked
    /\ token' \in FirstToken
    /\ UNCHANGED <<fixed, client, target>>

\* A tick. A request in hand reaches the server before the grace is over.
Tick ==
    /\ pc # "attempt"
    /\ pc = "send" => delay > 0
    /\ delay' = Down(delay)
    /\ deadline' = IF pc = "wait" THEN Down(deadline) ELSE deadline
    /\ LimiterTick
    /\ blocked' = [e \in Endpoint |-> Down(blocked[e])]
    /\ token' = [token EXCEPT !.left = Down(@)]
    /\ UNCHANGED <<fixed, client, pc, target, attempt>>

Reopen(e) ==
    /\ FireTimer(e)
    /\ UNCHANGED <<fixed, client, pc, target, attempt, delay, deadline, token, blocked>>

\* The goroutine of the sync, where it is not waiting for a server.
Step == Again \/ Attempt \/ Granted \/ WaitFails \/ Send \/ PauseOver

Next ==
    \/ \E e \in Endpoint : Start(e) \/ Reopen(e)
    \/ Step
    \/ Exchanged
    \/ Answer
    \/ NewSync
    \/ Tick

Spec == Init /\ [][Next]_vars

\* The goroutine is scheduled, timers fire, time passes and servers answer.
\* Nobody has to start a request or a sync.
FairSpec ==
    /\ Spec
    /\ WF_vars(Step) /\ WF_vars(Exchanged) /\ WF_vars(Answer) /\ WF_vars(Tick)
    /\ \A e \in Endpoint : WF_vars(Reopen(e))

-----------------------------------------------------------------------------
(* Properties *)

\* No request is sent to an endpoint before the time the endpoint named has
\* come, across retries and across the requests of a sync: Okta's
\* X-Rate-Limit-Reset when nothing remained, Entra ID's Retry-After. A fixed
\* limit overrides what the server says (ratelimiter.go:19-21), and a new sync
\* has forgotten it.
RespectsNamedTime == pc = "sent" /\ target # "token" /\ ~fixed => blocked[target] = 0

\* A request is never sent with a token that has expired, except for Jamf's
\* retries ("refreshes it before expiry (by tokenGrace) to avoid races between
\* the validity check and the request reaching the API", entraid/auth.go:21),
\* and never by Entra ID or Jamf with one that was answered 401.
SendsUsableToken ==
    [][pc # "sent" /\ pc' = "sent" /\ target # "token" =>
        /\ token.held /\ (client = "jamf" => attempt = 0) => token.left > 0
        /\ client # "okta_oauth2" => ~token.rejected]_vars

\* Every request ends, by an answer or an error: the attempts are bounded, the
\* limiter reopens or the wait for it runs into its deadline.
RequestEnds == pc # "idle" ~> pc = "idle"
=============================================================================
