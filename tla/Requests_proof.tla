--------------------------- MODULE Requests_proof ---------------------------
(***************************************************************************)
(* Limits are respected and tokens usable, for any number of attempts and  *)
(* endpoints and any delays.                                               *)
(*                                                                         *)
(* What an endpoint has asked for is remembered in two places, the timer   *)
(* of its limiter (Okta) or the pause of the loop (Entra ID): BlockedInv   *)
(* says that neither ever has less left than the endpoint. TokenInv        *)
(* follows a token from its check to the server: what it has left exceeds  *)
(* what is left of the grace period.                                       *)
(***************************************************************************)
EXTENDS Requests, TLAPS

\* A timer runs for what blocks, and leaves a burst before it opens.
Sound(l) ==
    /\ l.ready <=> l.timer = "none"
    /\ l.timer # "armed" => l.left = 0 /\ l.rate = 1
    /\ l.timer \in {"none", "burst"} => l.burst = 1

LimiterInv == \A e \in Endpoint : Sound(limiter[e])

\* Who waits where.
LoopInv ==
    /\ target = "token" /\ pc # "idle" => client = "jamf"
    /\ pc = "exchange" => client \in {"okta_oauth2", "entraid"}
    /\ pc = "wait" => client \in Okta
    /\ pc = "backoff" => attempt > 0
    /\ client = "okta" => ~token.held
    /\ client # "okta_oauth2" => ~token.rejected

\* Somebody waits for as long as an endpoint asked for.
BlockedInv ==
    /\ client \in Okta /\ ~fixed =>
        /\ \A e \in Endpoint : blocked[e] <= limiter[e].left
        /\ pc \in {"exchange", "send", "sent"} => limiter[target].ready
    /\ client \notin Okta =>
        \A e \in Endpoint : blocked[e] <= IF pc = "pause" THEN delay ELSE 0

\* The token in hand outlives its request, but for Jamf's retries.
TokenInv ==
    target # "token" /\ (client = "jamf" => attempt = 0) =>
        /\ pc = "attempt" /\ client = "jamf" => Valid(token)
        /\ pc = "send" /\ token.held => token.left > delay

\* The inductive invariant.
IInv == RequestsTypeOK /\ LimiterInv /\ LoopInv /\ BlockedInv /\ TokenInv

\* A first sync has no token, open limiters and nothing to wait for.
LEMMA InitIInv == Init => IInv
  BY RequestsAssumption, RateLimiterAssumption
  DEF Init, IInv, RequestsTypeOK, LimiterInv, LoopInv, BlockedInv, TokenInv,
      NewRateLimiter, Open, Limiters, NoToken, Tokens, Unblocked, Longest, Okta,
      Clients, Valid, Sound

-----------------------------------------------------------------------------
(* The parts that actions share *)

\* A reset is some ticks away.
LEMMA ResetType == \A h \in Headers : Reset(h) \in 0..MaxReset
  BY RateLimiterAssumption DEF Headers, NoHeaders, Reset

\* What the headers of an answer do to the limiters.
LEMMA UpdateLimiter ==
    ASSUME limiter \in [Endpoint -> Limiters], LimiterInv,
           NEW f, NEW h \in Headers, Update(f, h)
    PROVE  /\ limiter' \in [Endpoint -> Limiters]
           /\ LimiterInv'
           /\ \A e \in Endpoint : e # f \/ ~Exhausted(h) => limiter'[e].left = limiter[e].left
           /\ ~fixed /\ Exhausted(h) /\ f \in Endpoint => limiter'[f].left = Reset(h)
  <1> USE ResetType DEF LimiterInv
  <1>1. CASE UNCHANGED limiter /\ (fixed \/ ~Exhausted(h))
    BY <1>1
  <1>2. CASE limiter' = [limiter EXCEPT ![f] = Closed(Reset(h))] /\ Exhausted(h)
    <2> DEFINE l == Closed(Reset(h))
    <2>1. l \in Limiters /\ Sound(l) /\ l.left = Reset(h)
      BY DEF Limiters, Closed, Sound
    <2>2. limiter' = [e \in Endpoint |-> IF e = f THEN l ELSE limiter[e]]
      BY <1>2
    <2> HIDE DEF l
    <2> QED
      BY <1>2, <2>1, <2>2
  <1>3. CASE /\ ~Exhausted(h)
             /\ limiter' = [limiter EXCEPT ![f].rate = 1, ![f].burst = 1]
    <2> DEFINE granted(l) == [l EXCEPT !.rate = 1, !.burst = 1]
    <2>1. ASSUME NEW l \in Limiters
          PROVE  /\ granted(l) \in Limiters /\ granted(l).left = l.left
                 /\ Sound(l) => Sound(granted(l))
      BY DEF Limiters, Sound
    <2>2. limiter' = [e \in Endpoint |-> IF e = f THEN granted(limiter[e]) ELSE limiter[e]]
      BY <1>3
    <2>3. ~Exhausted(h)
      BY <1>3
    <2> HIDE DEF granted
    <2> QED
      BY <2>1, <2>2, <2>3
  <1> QED
    BY <1>1, <1>2, <1>3 DEF Update, Exhausted

\* The round of the loop is over with this token, and perhaps the request.
RoundOver(t) ==
    /\ pc' \in {"idle", "backoff"}
    /\ delay' \in 0..Longest
    /\ attempt' \in 0..Attempts - 1
    /\ pc' = "backoff" => attempt' > 0
    /\ token' \in {t, NoToken}

\* That is all that Fail and Retry do.
LEMMA RoundEnds ==
    ASSUME attempt \in 0..Attempts - 1, NEW t, Fail(t) \/ Retry(t)
    PROVE  RoundOver(t)
  BY RequestsAssumption, RateLimiterAssumption DEF Fail, Retry, Goto, RoundOver, Longest

\* A request goes on to its token or, with one that will live, to the server.
LEMMA Authorized ==
    ASSUME Authorize
    PROVE  /\ pc' \in {"exchange", "send"} /\ delay' \in 0..Longest
           /\ pc' = "exchange" => client \in {"okta_oauth2", "entraid"}
           /\ pc' = "send" => /\ delay' = Grace
                              /\ client \in {"okta_oauth2", "entraid"} => Valid(token)
  BY RequestsAssumption, RateLimiterAssumption DEF Authorize, Goto, Longest

\* A tick runs timers down.
LEMMA TickLimiter ==
    ASSUME limiter \in [Endpoint -> Limiters], LimiterInv, LimiterTick
    PROVE  /\ limiter' \in [Endpoint -> Limiters]
           /\ LimiterInv'
           /\ \A e \in Endpoint : limiter'[e].left = Down(limiter[e].left)
           /\ \A e \in Endpoint : limiter'[e].ready = limiter[e].ready
  <1> DEFINE later(l) == [l EXCEPT !.left = Down(@)]
  <1>1. ASSUME NEW l \in Limiters
        PROVE  /\ later(l) \in Limiters /\ later(l).left = Down(l.left)
               /\ later(l).ready = l.ready
               /\ Sound(l) => Sound(later(l))
    BY RateLimiterAssumption DEF Limiters, Sound, Down
  <1>2. limiter' = [e \in Endpoint |-> later(limiter[e])]
    BY DEF LimiterTick
  <1> HIDE DEF later
  <1> QED
    BY <1>1, <1>2 DEF LimiterInv

\* The steps of a timer that has run down.
LEMMA TimerLimiter ==
    ASSUME limiter \in [Endpoint -> Limiters], LimiterInv, NEW f \in Endpoint, FireTimer(f)
    PROVE  /\ limiter' \in [Endpoint -> Limiters]
           /\ LimiterInv'
           /\ \A e \in Endpoint : limiter'[e].left = limiter[e].left
           /\ \A e \in Endpoint : limiter[e].ready => limiter'[e].ready
  <1>1. PICK l \in Limiters :
            /\ limiter' = [limiter EXCEPT ![f] = l]
            /\ Sound(l) /\ l.left = limiter[f].left /\ (limiter[f].ready => l.ready)
    <2>1. limiter[f] \in Limiters /\ Sound(limiter[f])
      BY DEF LimiterInv
    <2>2. CASE limiter[f].timer = "armed"
      <3> DEFINE l == [limiter[f] EXCEPT !.timer = "limit", !.rate = 1]
      <3>1. l \in Limiters /\ Sound(l) /\ l.left = limiter[f].left /\ l.ready = limiter[f].ready
        BY <2>1, <2>2 DEF Limiters, Sound, FireTimer
      <3>2. limiter' = [limiter EXCEPT ![f] = l]
        BY <2>2 DEF FireTimer
      <3> QED
        BY <3>1, <3>2
    <2>3. CASE limiter[f].timer = "limit"
      <3> DEFINE l == [limiter[f] EXCEPT !.timer = "burst", !.burst = 1]
      <3>1. l \in Limiters /\ Sound(l) /\ l.left = limiter[f].left /\ l.ready = limiter[f].ready
        BY <2>1, <2>3 DEF Limiters, Sound, FireTimer
      <3>2. limiter' = [limiter EXCEPT ![f] = l]
        BY <2>3 DEF FireTimer
      <3> QED
        BY <3>1, <3>2
    <2>4. CASE limiter[f].timer = "burst"
      <3> DEFINE l == [limiter[f] EXCEPT !.timer = "none", !.ready = TRUE]
      <3>1. l \in Limiters /\ Sound(l) /\ l.left = limiter[f].left /\ l.ready
        BY <2>1, <2>4 DEF Limiters, Sound, FireTimer
      <3>2. limiter' = [limiter EXCEPT ![f] = l]
        BY <2>4 DEF FireTimer
      <3> QED
        BY <3>1, <3>2
    <2> QED
      BY <2>2, <2>3, <2>4 DEF FireTimer
  <1> QED
    BY <1>1 DEF LimiterInv

\* How an answer leaves the loop: the round is over, the request succeeded, it
\* pauses, or Jamf got its token.
AnswerOutcome ==
    \/ /\ target' = target
       /\ \/ RoundOver(token)
          \/ client # "jamf" /\ RoundOver(AfterUnauthorized(token))
    \/ /\ target' = target /\ UNCHANGED <<attempt, token>>
       /\ pc' \in {"idle", "pause"} /\ delay' \in 0..Longest
    \/ client = "jamf" /\ \E e \in Endpoint : TokenReceived(e)

LEMMA AnswerGoesOn ==
    ASSUME RequestsTypeOK, LoopInv, Answer
    PROVE  AnswerOutcome /\ UNCHANGED <<fixed, client, deadline>> /\ pc = "sent"
  <1> USE RoundEnds DEF RequestsTypeOK, AnswerOutcome
  <1>1. 0 \in 0..Longest /\ Delay \in 0..Longest /\ \A ra \in 0..MaxReset : ra \in 0..Longest
    BY RequestsAssumption, RateLimiterAssumption DEF Longest
  <1>2. ASSUME NEW a, AnswerToken(a) PROVE AnswerOutcome
    BY <1>2 DEF AnswerToken, LoopInv
  <1>3. ASSUME NEW a, NEW h \in Headers, AnswerOkta(a, h) PROVE AnswerOutcome
    BY <1>1, <1>3 DEF AnswerOkta, Okta, Succeed, Goto
  <1>4. ASSUME NEW a, NEW ra \in -1..MaxReset, AnswerEntra(a, ra) PROVE AnswerOutcome
    <2>1. PauseFor(ra) \in 0..Longest
      BY <1>1 DEF PauseFor
    <2> QED
      BY <1>1, <1>4, <2>1 DEF AnswerEntra, Succeed, Goto
  <1>5. ASSUME NEW a, AnswerJamf(a) PROVE AnswerOutcome
    BY <1>1, <1>5 DEF AnswerJamf, Succeed, Goto
  <1> QED
    BY <1>2, <1>3, <1>4, <1>5
    DEF Answer, AnswerToken, AnswerOkta, AnswerEntra, AnswerJamf

-----------------------------------------------------------------------------
(* The inductive step, one part of the invariant after the other *)

\* What an answer does to the limiters.
LEMMA AnswerLimiter ==
    ASSUME RequestsTypeOK, LimiterInv, Answer
    PROVE  /\ limiter' \in [Endpoint -> Limiters] /\ LimiterInv'
           /\ blocked' \in [Endpoint -> 0..MaxReset]
  <1> USE DEF RequestsTypeOK
  <1>1. ASSUME NEW a, NEW h \in Headers, AnswerOkta(a, h)
        PROVE  /\ limiter' \in [Endpoint -> Limiters] /\ LimiterInv'
               /\ blocked' \in [Endpoint -> 0..MaxReset]
    BY <1>1, UpdateLimiter, ResetType DEF AnswerOkta
  <1>2. ASSUME NEW a, NEW ra \in -1..MaxReset, AnswerEntra(a, ra)
        PROVE  UNCHANGED limiter /\ blocked' \in [Endpoint -> 0..MaxReset]
    <2>1. ra > 0 => ra \in 0..MaxReset
      BY RateLimiterAssumption
    <2> QED
      BY <1>2, <2>1 DEF AnswerEntra
  <1> QED
    BY <1>1, <1>2 DEF Answer, AnswerToken, AnswerJamf, LimiterInv

LEMMA TypeStep ==
    ASSUME IInv, [Next]_vars
    PROVE  RequestsTypeOK' /\ LimiterInv'
  <1> USE DEF IInv, RequestsTypeOK
  <1>1. /\ 0 \in 0..Longest /\ Delay \in 0..Longest /\ Grace \in 0..Longest
        /\ 0 \in 0..Attempts - 1 /\ 0 \in 0..MaxWait /\ MaxWait \in 0..MaxWait
        /\ \A d \in 0..Longest : Down(d) \in 0..Longest
        /\ \A d \in 0..MaxWait : Down(d) \in 0..MaxWait
        /\ \A d \in 0..MaxReset : Down(d) \in 0..MaxReset
        /\ 0 \in 0..MaxReset
    BY RequestsAssumption, RateLimiterAssumption DEF Longest, Down
  <1>2. NoToken \in Tokens /\ Fresh \in Tokens /\ \A t \in Tokens : AfterUnauthorized(t) \in Tokens
    BY RequestsAssumption DEF NoToken, Fresh, Tokens, AfterUnauthorized
  <1>3. NewRateLimiter \in [Endpoint -> Limiters] /\ \A e \in Endpoint : Sound(NewRateLimiter[e])
    BY <1>1 DEF NewRateLimiter, Open, Limiters, Sound
  <1>4. ASSUME NEW e \in Endpoint, Start(e) PROVE RequestsTypeOK' /\ LimiterInv'
    BY <1>1, <1>4 DEF Start, Goto, LimiterInv
  <1>5. ASSUME NEW e \in Endpoint, Reopen(e) PROVE RequestsTypeOK' /\ LimiterInv'
    BY <1>5, TimerLimiter DEF Reopen
  <1>6. CASE Again
    BY <1>1, <1>6 DEF Again, Goto, LimiterInv
  <1>7. CASE Attempt
    BY <1>1, <1>7, Authorized DEF Attempt, Goto, LimiterInv
  <1>8. CASE Granted
    BY <1>1, <1>8, Authorized DEF Granted, LimiterInv
  <1>9. CASE WaitFails \/ PauseOver
    BY <1>2, <1>9, RoundEnds DEF WaitFails, PauseOver, RoundOver, LimiterInv
  <1>10. CASE Send
    BY <1>1, <1>10 DEF Send, Goto, LimiterInv
  <1>11. CASE Exchanged
    BY <1>1, <1>2, <1>11, RoundEnds DEF Exchanged, Goto, RoundOver, LimiterInv
  <1>12. CASE Answer
    BY <1>1, <1>2, <1>12, AnswerGoesOn, AnswerLimiter
    DEF AnswerOutcome, RoundOver, TokenReceived, Goto
  <1>13. CASE NewSync
    BY <1>1, <1>2, <1>3, <1>13 DEF NewSync, Goto, FirstToken, Unblocked, LimiterInv
  <1>14. CASE Tick
    <2>1. token' \in Tokens
      BY <1>14, RequestsAssumption DEF Tick, Tokens, Down
    <2> QED
      BY <1>1, <1>14, <2>1, TickLimiter DEF Tick
  <1>15. CASE UNCHANGED vars
    BY <1>15 DEF vars, LimiterInv
  <1> QED
    BY <1>4, <1>5, <1>6, <1>7, <1>8, <1>9, <1>10, <1>11, <1>12, <1>13, <1>14, <1>15
    DEF Next, Step

LEMMA LoopStep ==
    ASSUME IInv, [Next]_vars
    PROVE  LoopInv'
  <1> USE DEF IInv, LoopInv
  <1>1. ASSUME NEW e \in Endpoint, Start(e) PROVE LoopInv'
    BY <1>1, RequestsAssumption DEF Start, Goto
  <1>2. ASSUME NEW e \in Endpoint, Reopen(e) PROVE LoopInv'
    BY <1>2 DEF Reopen
  <1>3. CASE Again
    BY <1>3 DEF Again, Goto
  <1>4. CASE Attempt
    BY <1>4, Authorized DEF Attempt, Goto
  <1>5. CASE Granted
    BY <1>5, Authorized DEF Granted
  <1>6. CASE WaitFails \/ PauseOver
    BY <1>6, RoundEnds DEF WaitFails, PauseOver, RoundOver, NoToken, RequestsTypeOK
  <1>7. CASE Send
    BY <1>7 DEF Send, Goto
  <1>8. CASE Exchanged
    BY <1>8, RoundEnds DEF Exchanged, Goto, RoundOver, NoToken, Fresh, RequestsTypeOK, Tokens
  <1>9. CASE Answer
    <2>1. AnswerOutcome /\ UNCHANGED client /\ pc = "sent"
      BY <1>9, AnswerGoesOn
    <2>2. /\ client = "okta" => ~AfterUnauthorized(token).held
          /\ client \notin {"okta_oauth2", "jamf"} => ~AfterUnauthorized(token).rejected
      BY DEF AfterUnauthorized, NoToken, RequestsTypeOK, Tokens, Clients, Okta
    <2>3. CASE client = "jamf" /\ \E e \in Endpoint : TokenReceived(e)
      BY <2>1, <2>3, RequestsAssumption DEF TokenReceived, Goto, Fresh
    <2> QED
      BY <2>1, <2>2, <2>3 DEF AnswerOutcome, RoundOver, NoToken
  <1>10. CASE NewSync
    BY <1>10 DEF NewSync, Goto, FirstToken, NoToken, Fresh
  <1>11. CASE Tick
    <2>1. token'.held = token.held /\ token'.rejected = token.rejected
      BY <1>11 DEF Tick, RequestsTypeOK, Tokens
    <2> QED
      BY <1>11, <2>1 DEF Tick
  <1>12. CASE UNCHANGED vars
    BY <1>12 DEF vars
  <1> QED
    BY <1>1, <1>2, <1>3, <1>4, <1>5, <1>6, <1>7, <1>8, <1>9, <1>10, <1>11, <1>12
    DEF Next, Step

LEMMA TokenStep ==
    ASSUME IInv, [Next]_vars
    PROVE  TokenInv'
  <1> USE DEF IInv, TokenInv
  <1>1. ASSUME NEW e \in Endpoint, Start(e) PROVE TokenInv'
    BY <1>1 DEF Start, Goto, Valid
  <1>2. ASSUME NEW e \in Endpoint, Reopen(e) PROVE TokenInv'
    BY <1>2 DEF Reopen, Valid
  <1>3. CASE Again
    BY <1>3 DEF Again, Goto, LoopInv
  <1>4. CASE Attempt
    <2>1. CASE client \in Okta
      BY <1>4, <2>1 DEF Attempt, Goto, Okta
    <2>2. CASE client \notin Okta
      BY <1>4, <2>2, Authorized, RequestsAssumption
      DEF Attempt, Valid, Okta, Clients, RequestsTypeOK, Tokens
    <2> QED
      BY <2>1, <2>2
  <1>5. CASE Granted
    BY <1>5, Authorized, RequestsAssumption
    DEF Granted, Valid, LoopInv, RequestsTypeOK, Tokens, Clients, Okta
  <1>6. CASE WaitFails \/ PauseOver
    BY <1>6, RoundEnds DEF WaitFails, PauseOver, RoundOver, RequestsTypeOK
  <1>7. CASE Send
    BY <1>7 DEF Send, Goto
  <1>8. CASE Exchanged
    <2>1. CASE token' = Fresh /\ Goto("send", Grace)
      BY <1>8, <2>1, RequestsAssumption DEF Exchanged, Goto, Fresh
    <2>2. CASE RoundOver(token)
      BY <2>2 DEF RoundOver
    <2> QED
      BY <1>8, <2>1, <2>2, RoundEnds DEF Exchanged, RequestsTypeOK
  <1>9. CASE Answer
    <2>1. AnswerOutcome
      BY <1>9, AnswerGoesOn
    <2>2. ASSUME NEW e \in Endpoint, TokenReceived(e) PROVE TokenInv'
      BY <2>2, RequestsAssumption DEF TokenReceived, Goto, Fresh, Valid
    <2> QED
      BY <2>1, <2>2 DEF AnswerOutcome, RoundOver
  <1>10. CASE NewSync
    BY <1>10 DEF NewSync, Goto
  <1>11. CASE Tick
    BY <1>11, RequestsAssumption DEF Tick, Down, RequestsTypeOK, Tokens, Longest
  <1>12. CASE UNCHANGED vars
    BY <1>12 DEF vars, Valid
  <1> QED
    BY <1>1, <1>2, <1>3, <1>4, <1>5, <1>6, <1>7, <1>8, <1>9, <1>10, <1>11, <1>12
    DEF Next, Step

LEMMA BlockedStep ==
    ASSUME IInv, [Next]_vars
    PROVE  BlockedInv'
  <1> USE DEF IInv, BlockedInv
  <1>1. ASSUME NEW e \in Endpoint, Start(e) PROVE BlockedInv'
    BY <1>1 DEF Start, Goto
  <1>2. ASSUME NEW f \in Endpoint, Reopen(f) PROVE BlockedInv'
    <2>1. /\ \A e \in Endpoint : limiter'[e].left = limiter[e].left
          /\ \A e \in Endpoint : limiter[e].ready => limiter'[e].ready
      BY <1>2, TimerLimiter DEF Reopen, RequestsTypeOK
    <2>2. client \in Okta /\ pc \in {"exchange", "send", "sent"} => target \in Endpoint
      BY DEF LoopInv, RequestsTypeOK, Okta
    <2> QED
      BY <1>2, <2>1, <2>2 DEF Reopen
  <1>3. CASE Again \/ Attempt \/ Send
    BY <1>3, Authorized DEF Again, Attempt, Send, Goto
  <1>4. CASE Granted
    BY <1>4, Authorized DEF Granted
  <1>5. CASE WaitFails
    BY <1>5, RoundEnds DEF WaitFails, RoundOver, RequestsTypeOK
  <1>6. CASE PauseOver
    BY <1>6, RoundEnds DEF PauseOver, RoundOver, RequestsTypeOK
  <1>7. CASE Exchanged
    BY <1>7, RoundEnds DEF Exchanged, Goto, RoundOver, RequestsTypeOK
  <1>8. CASE Answer
    <2>1. client' = client /\ fixed' = fixed /\ pc = "sent"
      BY <1>8, AnswerGoesOn
    <2>2. delay' \in Nat
      BY <1>8, TypeStep, RequestsAssumption, RateLimiterAssumption
      DEF Next, RequestsTypeOK, Longest
    <2>3. ASSUME NEW a, AnswerToken(a) \/ AnswerJamf(a) PROVE BlockedInv'
      <3>1. client = "jamf" /\ UNCHANGED blocked
        BY <2>3 DEF AnswerToken, AnswerJamf, LoopInv
      <3> QED
        BY <2>1, <2>2, <3>1 DEF Okta, RequestsTypeOK
    <2>4. ASSUME NEW a, NEW h \in Headers, AnswerOkta(a, h) PROVE BlockedInv'
      <3>1. target \in Endpoint /\ client \in Okta
        BY <2>4 DEF AnswerOkta, LoopInv, Okta, RequestsTypeOK
      <3>2. pc' \in {"idle", "backoff"}
        BY <2>4, RoundEnds DEF AnswerOkta, Succeed, Goto, RoundOver, RequestsTypeOK
      <3>3. ASSUME ~fixed, NEW e \in Endpoint PROVE blocked'[e] <= limiter'[e].left
        <4>1. CASE Exhausted(h) /\ e = target
          <5>1. limiter'[e].left = Reset(h) /\ blocked'[e] = Reset(h)
            BY <2>4, <3>3, <4>1, UpdateLimiter DEF AnswerOkta, RequestsTypeOK
          <5> QED
            BY <5>1, ResetType, RateLimiterAssumption
        <4>2. CASE ~Exhausted(h) \/ e # target
          <5>1. limiter'[e].left = limiter[e].left /\ blocked'[e] = blocked[e]
            BY <2>4, <4>2, UpdateLimiter DEF AnswerOkta, RequestsTypeOK
          <5> QED
            BY <3>1, <3>3, <5>1
        <4> QED
          BY <4>1, <4>2
      <3> QED
        BY <2>1, <3>1, <3>2, <3>3
    <2>5. ASSUME NEW a, NEW ra \in -1..MaxReset, AnswerEntra(a, ra) PROVE BlockedInv'
      <3>1. client \notin Okta /\ \A e \in Endpoint : blocked[e] = 0
        BY <2>1, <2>5 DEF AnswerEntra, Okta, RequestsTypeOK
      <3>2. CASE a = "limited"
        <4>1. pc' = "pause" /\ delay' = PauseFor(ra)
          BY <2>5, <3>2 DEF AnswerEntra, Goto, Retried, Failures
        <4>2. \A e \in Endpoint : blocked'[e] = 0 \/ (ra > 0 /\ blocked'[e] = ra)
          <5>1. ra > 0 => blocked' = [blocked EXCEPT ![target] = ra]
            BY <2>5 DEF AnswerEntra
          <5>2. ~(ra > 0) => blocked' = blocked
            BY <2>5 DEF AnswerEntra
          <5> QED
            BY <3>1, <5>1, <5>2 DEF RequestsTypeOK
        <4> QED
          BY <2>1, <3>1, <4>1, <4>2, RequestsAssumption DEF PauseFor
      <3>3. CASE a # "limited"
        <4>1. UNCHANGED blocked /\ pc' # "pause"
          BY <2>5, <3>3, RoundEnds DEF AnswerEntra, Succeed, Goto, RoundOver, RequestsTypeOK
        <4> QED
          BY <2>1, <3>1, <4>1
      <3> QED
        BY <3>2, <3>3
    <2> QED
      BY <1>8, <2>3, <2>4, <2>5 DEF Answer
  <1>9. CASE NewSync
    BY <1>9 DEF NewSync, Goto, Unblocked, NewRateLimiter, Open
  <1>10. CASE Tick
    <2>1. /\ \A e \in Endpoint : limiter'[e].left = Down(limiter[e].left)
          /\ \A e \in Endpoint : limiter'[e].ready = limiter[e].ready
      BY <1>10, TickLimiter DEF Tick, RequestsTypeOK
    <2>2. \A e \in Endpoint : limiter[e].left \in Nat /\ blocked[e] \in Nat
      BY DEF RequestsTypeOK, Limiters
    <2>3. delay \in Nat /\ delay' = Down(delay)
      BY <1>10, RequestsAssumption, RateLimiterAssumption DEF Tick, RequestsTypeOK, Longest
    <2>4. \A e \in Endpoint : blocked'[e] = Down(blocked[e])
      BY <1>10 DEF Tick
    <2>5. \A m, n \in Nat : m <= n => Down(m) <= Down(n)
      BY DEF Down
    <2>6. client' = client /\ fixed' = fixed /\ pc' = pc /\ target' = target
      BY <1>10 DEF Tick
    <2>7. client \in Okta /\ pc \in {"exchange", "send", "sent"} => target \in Endpoint
      BY DEF LoopInv, RequestsTypeOK, Okta
    <2>8. Down(0) = 0
      BY DEF Down
    <2> QED
      BY <2>1, <2>2, <2>3, <2>4, <2>5, <2>6, <2>7, <2>8
  <1>11. CASE UNCHANGED vars
    BY <1>11 DEF vars
  <1> QED
    BY <1>1, <1>2, <1>3, <1>4, <1>5, <1>6, <1>7, <1>8, <1>9, <1>10, <1>11
    DEF Next, Step

-----------------------------------------------------------------------------

\* All of it is invariant.
LEMMA Invariant == Spec => []IInv
  <1>1. IInv /\ [Next]_vars => IInv'
    BY TypeStep, LoopStep, BlockedStep, TokenStep DEF IInv
  <1> QED
    BY InitIInv, <1>1, PTL DEF Spec

\* Types, the bounds of attempts and delays among them.
THEOREM RequestTypes == Spec => []RequestsTypeOK
  <1>1. IInv => RequestsTypeOK
    BY DEF IInv
  <1> QED
    BY Invariant, <1>1, PTL

\* No limiter stays closed, and none that opens has no burst to grant.
THEOREM NoLimiterStaysClosed == Spec => []LimiterReopens
  <1>1. IInv => LimiterReopens
    BY DEF IInv, LimiterInv, Sound, LimiterReopens, RequestsTypeOK, Limiters
  <1> QED
    BY Invariant, <1>1, PTL

\* No request reaches an endpoint before the time it has named, whatever the
\* requests to it and to others before: Okta's limits and Entra ID's.
THEOREM NamedTimeIsRespected == Spec => []RespectsNamedTime
  <1>1. IInv => RespectsNamedTime
    <2> SUFFICES ASSUME IInv, pc = "sent", target # "token", ~fixed
                 PROVE  blocked[target] = 0
      BY DEF RespectsNamedTime
    <2>1. target \in Endpoint /\ blocked[target] \in Nat
      BY DEF IInv, RequestsTypeOK
    <2>2. CASE client \in Okta
      <3>1. limiter[target].left = 0
        BY <2>1, <2>2 DEF IInv, BlockedInv, LimiterInv, Sound
      <3> QED
        BY <2>1, <2>2, <3>1 DEF IInv, BlockedInv
    <2>3. CASE client \notin Okta
      BY <2>1, <2>3 DEF IInv, BlockedInv
    <2> QED
      BY <2>2, <2>3
  <1> QED
    BY Invariant, <1>1, PTL

\* No request is sent with an expired token, but for Jamf's retries, nor by
\* Entra ID or Jamf with a rejected one.
THEOREM TokensAreUsable == Spec => SendsUsableToken
  <1>1. IInv /\ [Next]_vars =>
          [pc # "sent" /\ pc' = "sent" /\ target # "token" =>
              /\ token.held /\ (client = "jamf" => attempt = 0) => token.left > 0
              /\ client # "okta_oauth2" => ~token.rejected]_vars
    <2> SUFFICES ASSUME IInv, Next, pc # "sent", pc' = "sent", target # "token"
                 PROVE  /\ token.held /\ (client = "jamf" => attempt = 0) => token.left > 0
                        /\ client # "okta_oauth2" => ~token.rejected
      OBVIOUS
    <2>1. pc = "send"
      BY RoundEnds, Authorized, AnswerGoesOn
      DEF Next, Step, Start, Reopen, Again, Attempt, Granted, WaitFails, Send, PauseOver,
          Exchanged, NewSync, Tick, Goto, RoundOver, IInv, RequestsTypeOK
    <2> QED
      BY <2>1, RequestsAssumption, RateLimiterAssumption
      DEF IInv, TokenInv, LoopInv, RequestsTypeOK, Tokens, Longest
  <1> QED
    BY Invariant, <1>1, PTL DEF Spec, SendsUsableToken
=============================================================================
