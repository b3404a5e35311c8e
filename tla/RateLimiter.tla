----------------------------- MODULE RateLimiter -----------------------------
(***************************************************************************)
(* The Okta provider's rate limiter (okta/ratelimiter.go): one limiter per *)
(* endpoint, set from the headers of each answer. A limiter that answered  *)
(* "nothing left" is replaced by one that grants nothing and whose ready   *)
(* channel is open; a timer reopens it, in three separate steps, when the  *)
(* reset time has come.                                                    *)
(*                                                                         *)
(* Time is a countdown in ticks. A rate is 0 or 1: how long a positive     *)
(* rate makes a request wait is left out, that it may make it wait too     *)
(* long is not (Requests, WaitFails). Covered: resets that have passed,    *)
(* answers without the headers, headers that do not parse, a fixed limit.  *)
(* Left out: a reset at the very instant it is read (a division by zero).  *)
(*                                                                         *)
(* Bound: MaxReset, the furthest reset an answer names.                    *)
(***************************************************************************)
EXTENDS Integers

CONSTANTS
    Endpoint,   \* the API endpoints, limited one by one
    MaxReset    \* bound on the ticks to the reset an answer names

ASSUME RateLimiterAssumption == MaxReset \in Nat \ {0}

VARIABLES
    fixed,      \* the configuration sets limit_fixed
    limiter     \* byEndpoint

Open == [rate |-> 1, burst |-> 1, ready |-> TRUE, timer |-> "none", left |-> 0]
Closed(n) == [rate |-> 0, burst |-> 0, ready |-> FALSE, timer |-> "armed", left |-> n]

Limiters ==
    [rate : {0, 1}, burst : {0, 1}, ready : BOOLEAN,
     timer : {"none", "armed", "limit", "burst"}, left : 0..MaxReset]

\* The headers of an answer: absent, malformed, or set. reset is the ticks until
\* the time they name, -1 for a time that has passed.
NoHeaders == [kind |-> "absent", remaining |-> 1, reset |-> 1]
Headers ==
    {NoHeaders, [NoHeaders EXCEPT !.kind = "malformed"]} \cup
    [kind : {"set"}, remaining : {0, 1}, reset : {-1} \cup 1..MaxReset]

Down(n) == IF n > 0 THEN n - 1 ELSE 0

NewRateLimiter == [e \in Endpoint |-> Open]

\* remaining / until(reset) is not positive.
Exhausted(h) == h.kind = "set" /\ (h.remaining = 0 \/ h.reset < 0)

\* How long the timer waits.
Reset(h) == IF h.reset < 0 THEN 0 ELSE h.reset

UpdateFails(h) == ~fixed /\ h.kind = "malformed"

\* The answer's headers replace the limiter of its endpoint, or adjust it.
Update(e, h) ==
    \/ /\ fixed \/ h.kind # "set"
       /\ UNCHANGED limiter
    \/ /\ ~fixed /\ h.kind = "set"
       /\ IF Exhausted(h)
          THEN limiter' = [limiter EXCEPT ![e] = Closed(Reset(h))]
          ELSE limiter' = [limiter EXCEPT ![e].rate = 1, ![e].burst = 1]

\* Mutant of FireTimer: the channel is closed before the burst is set.
FireTimerEarly(e) ==
    /\ limiter[e].left = 0
    /\ \/ /\ limiter[e].timer = "armed"
          /\ limiter' = [limiter EXCEPT ![e].timer = "limit", ![e].rate = 1]
       \/ /\ limiter[e].timer = "limit"
          /\ limiter' = [limiter EXCEPT ![e].timer = "burst", ![e].ready = TRUE]
       \/ /\ limiter[e].timer = "burst"
          /\ limiter' = [limiter EXCEPT ![e].timer = "none", ![e].burst = 1]

\* The timer's goroutine: SetLimit, SetBurst, close(ready).
FireTimer(e) ==
    /\ limiter[e].left = 0
    /\ \/ /\ limiter[e].timer = "armed"
          /\ limiter' = [limiter EXCEPT ![e].timer = "limit", ![e].rate = 1]
       \/ /\ limiter[e].timer = "limit"
          /\ limiter' = [limiter EXCEPT ![e].timer = "burst", ![e].burst = 1]
       \/ /\ limiter[e].timer = "burst"
          /\ limiter' = [limiter EXCEPT ![e].timer = "none", ![e].ready = TRUE]

LimiterTick == limiter' = [e \in Endpoint |-> [limiter[e] EXCEPT !.left = Down(@)]]

-----------------------------------------------------------------------------
(* Properties *)

\* A limiter that blocks has a timer that will reopen it, and one that is
\* ready grants its next request: Wait finds the limit and the burst set when
\* it is woken, never a burst of 0, which fails the request at once
\* (ratelimiter.go:102-107, 122-127).
LimiterReopens ==
    \A e \in Endpoint :
        /\ limiter[e].ready => limiter[e].rate = 1 /\ limiter[e].burst = 1
        /\ ~limiter[e].ready => limiter[e].timer # "none"
=============================================================================
