---------------------------- MODULE RateLimiter ----------------------------
(***************************************************************************)
(* The process-wide token bucket (internal/platform/httpserver/            *)
(* ratelimit.go), called by one goroutine per HTTP request.                *)
(*                                                                         *)
(* Wrap evaluates time.Now() BEFORE allow takes the mutex, so the stamps   *)
(* reach the bucket in any order.  The arithmetic is exact: a second is    *)
(* Ticks clock ticks and a token is Ticks units, so that one tick refills  *)
(* Rate units.                                                             *)
(***************************************************************************)
EXTENDS Integers, FiniteSets

CONSTANTS
  Requests,  \* goroutines that serve requests
  Rate,      \* tokens per second
  Burst,     \* capacity in tokens
  Ticks,     \* clock ticks per second
  MaxTime    \* bound on the clock

\* NewLimiter refuses a rate or a burst that is not positive.
ASSUME LimiterAssumption ==
  /\ Rate \in Nat \ {0} /\ Burst \in Nat \ {0}
  /\ Ticks \in Nat \ {0} /\ MaxTime \in Nat

VARIABLES
  clock,    \* the monotonic clock time.Now() reads, 0 when the bucket is made
  tokens,   \* Limiter.tokens, in units of 1/Ticks token
  last,     \* Limiter.last
  phase,    \* of each request: "idle", "stamped", "admitted" or "rejected"
  now,      \* the argument of allow: the stamp the request took
  retry,    \* Retry-After of a rejected request, in seconds
  admitted, \* history: requests admitted so far
  regress   \* history: how far, in total, last has moved backwards

vars == <<clock, tokens, last, phase, now, retry, admitted, regress>>

max(a, b) == IF a > b THEN a ELSE b
min(a, b) == IF a < b THEN a ELSE b

TypeOK ==
  /\ clock \in Nat /\ last \in Nat /\ admitted \in Nat /\ regress \in Nat
  /\ tokens \in 0..Burst * Ticks
  /\ phase \in [Requests -> {"idle", "stamped", "admitted", "rejected"}]
  /\ now \in [Requests -> Nat]
  /\ retry \in [Requests -> Nat]

\* NewLimiter: a full bucket.
Init ==
  /\ clock = 0 /\ last = 0 /\ tokens = Burst * Ticks
  /\ phase = [r \in Requests |-> "idle"]
  /\ now = [r \in Requests |-> 0]
  /\ retry = [r \in Requests |-> 0]
  /\ admitted = 0 /\ regress = 0

\* Time passes.
Tick ==
  /\ clock < MaxTime
  /\ clock' = clock + 1
  /\ UNCHANGED <<tokens, last, phase, now, retry, admitted, regress>>

\* Wrap: time.Now(), outside the mutex.
Stamp(r) ==
  /\ phase[r] = "idle"
  /\ phase' = [phase EXCEPT ![r] = "stamped"]
  /\ now' = [now EXCEPT ![r] = clock]
  /\ UNCHANGED <<clock, tokens, last, retry, admitted, regress>>

\* Mutants: no cap, the whole uptime refilled at each call, elapsed time
\* rounded up to seconds.
refilledUncapped(t) == tokens + max(0, t - last) * Rate
refilledFromStart(t) == min(Burst * Ticks, tokens + t * Rate)
refilledRounded(t) ==
  min(Burst * Ticks,
      tokens + ((max(0, t - last) + Ticks - 1) \div Ticks) * Ticks * Rate)

\* allow: the bucket after the refill for the time since last.
refilled(t) == min(Burst * Ticks, tokens + max(0, t - last) * Rate)

\* Mutant: the floor plus one instead of the ceiling.
floorSeconds(units) == 1 + (Ticks - units) \div (Ticks * Rate)

\* allow: seconds until a whole token is there, rounded up, at least one.
ceilSeconds(units) ==
  max(1, (Ticks - units + Ticks * Rate - 1) \div (Ticks * Rate))

\* allow, under the mutex: refill, move last (in either direction), and take a
\* token or name the seconds to wait.
Allow(r) ==
  /\ phase[r] = "stamped"
  /\ last' = now[r]
  /\ regress' = regress + max(0, last - now[r])
  /\ LET units == refilled(now[r]) IN
       \/ /\ units >= Ticks
          /\ tokens' = units - Ticks
          /\ admitted' = admitted + 1
          /\ phase' = [phase EXCEPT ![r] = "admitted"]
          /\ UNCHANGED retry
       \/ /\ units < Ticks
          /\ tokens' = units
          /\ phase' = [phase EXCEPT ![r] = "rejected"]
          /\ retry' = [retry EXCEPT ![r] = ceilSeconds(units)]
          /\ UNCHANGED admitted
  /\ UNCHANGED <<clock, now>>

\* The response goes out and the goroutine serves another request.
Respond(r) ==
  /\ phase[r] \in {"admitted", "rejected"}
  /\ phase' = [phase EXCEPT ![r] = "idle"]
  /\ now' = [now EXCEPT ![r] = 0]
  /\ retry' = [retry EXCEPT ![r] = 0]
  /\ UNCHANGED <<clock, tokens, last, admitted, regress>>

Next ==
  \/ Tick
  \/ \E r \in Requests : Stamp(r) \/ Allow(r) \/ Respond(r)

Spec == Init /\ [][Next]_vars

-----------------------------------------------------------------------------
(* Properties.                                                             *)

\* What the bucket really bounds: admissions never exceed the burst plus the
\* refill for the time the bucket has seen, where every backward move of last
\* is time it sees a second time.
AdmissionBudget ==
  Ticks * admitted + tokens <= Ticks * Burst + Rate * (last + regress)

\* What a token bucket promises, and the comment on Limiter ("bounds
\* aggregate requests per process") with it: burst plus rate times the time
\* that has really passed.
AggregateBound == Ticks * admitted <= Ticks * Burst + Rate * clock

\* As long as stamps reach the bucket in order, the promise is kept: what the
\* bucket admits too much is exactly bounded by the reordering.
OrderedBound == regress = 0 => AggregateBound

\* The bucket's own time is never ahead of the clock, so no admission is
\* paid for with time that has not passed yet.
LastNotAhead ==
  /\ last <= clock
  /\ \A r \in Requests : now[r] <= clock

\* Retry-After is honest: a bucket left alone for that many seconds has a
\* whole token, and had none one second earlier.
RetryHonest ==
  [][\A r \in Requests :
       phase'[r] = "rejected" /\ phase[r] = "stamped" =>
         /\ tokens' + retry'[r] * Ticks * Rate >= Ticks
         /\ tokens' + (retry'[r] - 1) * Ticks * Rate < Ticks]_vars

=============================================================================
