------------------------- MODULE RateLimiterProofs -------------------------
(***************************************************************************)
(* TLAPS proofs about RateLimiter for every number of request goroutines   *)
(* and every rate, burst, clock resolution and running time.               *)
(***************************************************************************)
EXTENDS RateLimiter, TLAPS

\* The inductive invariant: the types, the order of the three kinds of time,
\* and the budget.
IInv == TypeOK /\ LastNotAhead /\ AdmissionBudget

-----------------------------------------------------------------------------
(* Arithmetic of the refill.                                               *)

\* allow's refill never overfills the bucket and never takes a token away,
\* and adds at most Rate units for every tick of a forward jump.
LEMMA RefillBounds ==
  ASSUME TypeOK, NEW t \in Nat
  PROVE  /\ refilled(t) \in 0..Burst * Ticks
         /\ refilled(t) <= tokens + max(0, t - last) * Rate
<1> DEFINE d == max(0, t - last)
<1> DEFINE full == Burst * Ticks
<1>1. d \in Nat
  BY DEF TypeOK, max
<1>2. d * Rate \in Nat
  BY <1>1, LimiterAssumption
<1>3. full \in Nat
  BY LimiterAssumption
<1>4. tokens \in 0..full
  BY DEF TypeOK
<1>5. refilled(t) = min(full, tokens + d * Rate)
  BY DEF refilled
<1> HIDE DEF d, full
<1>6. /\ min(full, tokens + d * Rate) \in 0..full
      /\ min(full, tokens + d * Rate) <= tokens + d * Rate
  BY <1>2, <1>3, <1>4 DEF min
<1> QED
  BY <1>5, <1>6 DEF d, full

\* The time a call of allow adds to last + regress is the time it refills for.
LEMMA SeenTime ==
  ASSUME NEW l \in Nat, NEW t \in Nat, NEW g \in Nat
  PROVE  /\ max(0, t - l) \in Nat /\ max(0, l - t) \in Nat
         /\ t + (g + max(0, l - t)) = (l + g) + max(0, t - l)
  BY DEF max

\* Multiplication by the rate distributes over the times.
LEMMA RateDistributes ==
  ASSUME NEW a \in Nat, NEW b \in Nat
  PROVE  Rate * (a + b) = Rate * a + b * Rate
  BY LimiterAssumption

-----------------------------------------------------------------------------
(* One action at a time.                                                   *)

\* NewLimiter starts with exactly its budget.
LEMMA InitEstablishes == Init => IInv
<1> SUFFICES ASSUME Init PROVE IInv
  OBVIOUS
<1>1. Burst * Ticks \in Nat /\ Ticks * Burst = Burst * Ticks
  BY LimiterAssumption
<1>2. TypeOK
  BY <1>1 DEF Init, TypeOK
<1>3. LastNotAhead
  BY DEF Init, LastNotAhead
<1>4. AdmissionBudget
  <2>1. Ticks * 0 = 0 /\ Rate * (0 + 0) = 0
    BY LimiterAssumption
  <2> QED
    BY <1>1, <2>1 DEF Init, AdmissionBudget
<1> QED
  BY <1>2, <1>3, <1>4 DEF IInv

\* A call of allow keeps types and times in order.
LEMMA AllowKeepsTypes ==
  ASSUME IInv, NEW r \in Requests, Allow(r)
  PROVE  TypeOK' /\ LastNotAhead'
<1>0. TypeOK /\ LastNotAhead /\ now[r] \in Nat
  BY DEF IInv, TypeOK
<1> DEFINE units == refilled(now[r])
<1> DEFINE full == Burst * Ticks
<1>1. units \in 0..full
  BY <1>0, RefillBounds
<1>2. max(0, last - now[r]) \in Nat
  BY <1>0, SeenTime DEF TypeOK
<1>3. full \in Nat /\ Ticks \in Nat
  BY LimiterAssumption
<1>4. last' \in Nat /\ regress' \in Nat /\ clock' \in Nat
  BY <1>0, <1>2 DEF Allow, TypeOK
<1>5. ceilSeconds(units) \in Nat
  <2>1. Ticks * Rate \in Nat \ {0}
    BY LimiterAssumption
  <2> DEFINE step == Ticks * Rate
  <2>2. ceilSeconds(units) = max(1, (Ticks - units + step - 1) \div step)
    BY DEF ceilSeconds
  <2>3. step \in Nat \ {0}
    BY <2>1
  <2> HIDE DEF step, units, full
  <2>4. (Ticks - units + step - 1) \div step \in Int
    BY <1>1, <1>3, <2>3
  <2>5. max(1, (Ticks - units + step - 1) \div step) \in Nat
    BY <2>4 DEF max
  <2> QED
    BY <2>2, <2>5
<1>6. CASE units >= Ticks
  <2>1. /\ tokens' = units - Ticks /\ admitted' = admitted + 1
        /\ phase' = [phase EXCEPT ![r] = "admitted"] /\ retry' = retry
        /\ now' = now
    BY <1>1, <1>3, <1>6 DEF Allow
  <2>2. tokens' \in 0..full
    <3> HIDE DEF units, full
    <3> QED
      BY <2>1, <1>1, <1>3, <1>6
  <2> QED
    BY <1>0, <1>4, <2>1, <2>2 DEF TypeOK, LastNotAhead, Allow
<1>7. CASE units < Ticks
  <2>1. /\ tokens' = units /\ admitted' = admitted
        /\ phase' = [phase EXCEPT ![r] = "rejected"]
        /\ retry' = [retry EXCEPT ![r] = ceilSeconds(units)]
        /\ now' = now
    BY <1>1, <1>3, <1>7 DEF Allow
  <2> HIDE DEF units
  <2> QED
    BY <1>0, <1>1, <1>4, <1>5, <2>1 DEF TypeOK, LastNotAhead, Allow
<1>8. units >= Ticks \/ units < Ticks
  BY <1>1, <1>3
<1> QED
  BY <1>6, <1>7, <1>8

\* A call of allow spends what the refill has paid for.
LEMMA AllowKeepsBudget ==
  ASSUME IInv, NEW r \in Requests, Allow(r)
  PROVE  AdmissionBudget'
<1> DEFINE fwd == max(0, now[r] - last)
<1> DEFINE back == max(0, last - now[r])
<1> DEFINE units == refilled(now[r])
<1>0. /\ TypeOK /\ now[r] \in Nat /\ last \in Nat /\ regress \in Nat
      /\ admitted \in Nat /\ AdmissionBudget
      /\ Rate \in Nat /\ Ticks \in Nat /\ Burst * Ticks \in Nat
  BY LimiterAssumption DEF IInv, TypeOK
<1>1. /\ fwd \in Nat /\ back \in Nat
      /\ now[r] + (regress + back) = (last + regress) + fwd
  BY <1>0, SeenTime
<1>2. units \in Nat /\ units <= tokens + fwd * Rate /\ tokens \in Nat
  BY <1>0, RefillBounds DEF TypeOK
<1>3. last' = now[r] /\ regress' = regress + back
  BY DEF Allow
<1> HIDE DEF fwd, back, units
<1>4. Rate * (last' + regress') = Rate * (last + regress) + fwd * Rate
  <2>1. last' + regress' = (last + regress) + fwd
    BY <1>1, <1>3
  <2>2. Rate * ((last + regress) + fwd) = Rate * (last + regress) + fwd * Rate
    BY <1>0, <1>1, RateDistributes
  <2> QED
    BY <2>1, <2>2
<1>5. Ticks * admitted' + tokens' = Ticks * admitted + units
  <2>1. \/ tokens' = units - Ticks /\ admitted' = admitted + 1
        \/ tokens' = units /\ admitted' = admitted
    BY DEF Allow, units
  <2>2. Ticks * (admitted + 1) = Ticks * admitted + Ticks
    BY <1>0
  <2>3. Ticks * admitted \in Nat
    BY <1>0
  <2> QED
    BY <1>0, <1>2, <2>1, <2>2, <2>3
<1>6. /\ Ticks * admitted \in Nat /\ Ticks * Burst \in Nat /\ fwd * Rate \in Nat
      /\ Rate * (last + regress) \in Nat
  BY <1>0, <1>1, LimiterAssumption
<1>7. Ticks * admitted + tokens <= Ticks * Burst + Rate * (last + regress)
  BY <1>0 DEF AdmissionBudget
<1> QED
  BY <1>2, <1>4, <1>5, <1>6, <1>7 DEF AdmissionBudget

\* Every step keeps the invariant.
LEMMA NextPreserves == IInv /\ [Next]_vars => IInv'
<1> SUFFICES ASSUME IInv, [Next]_vars PROVE IInv'
  OBVIOUS
<1>1. CASE Tick
  BY <1>1 DEF Tick, IInv, TypeOK, LastNotAhead, AdmissionBudget
<1>2. ASSUME NEW r \in Requests, Stamp(r) PROVE IInv'
  BY <1>2 DEF Stamp, IInv, TypeOK, LastNotAhead, AdmissionBudget
<1>3. ASSUME NEW r \in Requests, Allow(r) PROVE IInv'
  BY <1>3, AllowKeepsTypes, AllowKeepsBudget DEF IInv
<1>4. ASSUME NEW r \in Requests, Respond(r) PROVE IInv'
  BY <1>4 DEF Respond, IInv, TypeOK, LastNotAhead, AdmissionBudget
<1>5. CASE UNCHANGED vars
  BY <1>5 DEF vars, IInv, TypeOK, LastNotAhead, AdmissionBudget
<1> QED
  BY <1>1, <1>2, <1>3, <1>4, <1>5 DEF Next

-----------------------------------------------------------------------------
(* The theorems.                                                           *)

\* allow keeps the bucket between empty and full, whatever the stamps.
THEOREM TypeCorrect == Spec => []TypeOK
<1>1. IInv => TypeOK
  BY DEF IInv
<1> QED
  BY InitEstablishes, NextPreserves, <1>1, PTL DEF Spec

\* The admission budget of the code as it is, reordered stamps included.
THEOREM BudgetKept == Spec => []AdmissionBudget
<1>1. IInv => AdmissionBudget
  BY DEF IInv
<1> QED
  BY InitEstablishes, NextPreserves, <1>1, PTL DEF Spec

\* Without a reordered stamp the bucket keeps a token bucket's promise.
THEOREM OrderedBoundKept == Spec => []OrderedBound
<1>1. IInv => OrderedBound
  <2> SUFFICES ASSUME IInv, regress = 0 PROVE AggregateBound
    BY DEF OrderedBound
  <2>1. /\ Rate * last <= Rate * clock
        /\ Rate * last \in Nat /\ Rate * clock \in Nat
    BY LimiterAssumption DEF IInv, TypeOK, LastNotAhead
  <2>2. Rate * (last + regress) = Rate * last
    BY DEF IInv, TypeOK
  <2>3. Ticks * admitted \in Nat /\ Ticks * Burst \in Nat /\ tokens \in Nat
    BY LimiterAssumption DEF IInv, TypeOK
  <2> QED
    BY <2>1, <2>2, <2>3 DEF IInv, AdmissionBudget, AggregateBound
<1> QED
  BY InitEstablishes, NextPreserves, <1>1, PTL DEF Spec

\* A rejected request finds less than a token in the bucket, and every rate
\* refills a token within a second: Retry-After is always one second.
LEMMA RetryIsOneSecond ==
  ASSUME NEW units \in Nat, units < Ticks
  PROVE  ceilSeconds(units) = 1
<1> DEFINE step == Ticks * Rate
<1>1. step \in Nat /\ Ticks <= step /\ Ticks \in Nat /\ 0 < Ticks
  BY LimiterAssumption
<1>2. ceilSeconds(units) = max(1, (Ticks - units + step - 1) \div step)
  BY DEF ceilSeconds
<1> HIDE DEF step
<1> DEFINE sum == Ticks - units + step - 1
<1>3. sum \in Nat /\ step <= sum /\ sum < 2 * step
  BY <1>1
<1> HIDE DEF sum
<1>4. sum \div step = 1
  BY <1>1, <1>3
<1> QED
  BY <1>2, <1>4 DEF sum, max

\* Every rejection names a Retry-After that suffices and is not too long.
THEOREM RetryHonestKept == Spec => RetryHonest
<1>1. ASSUME TypeOK, [Next]_vars, NEW r \in Requests,
             phase'[r] = "rejected", phase[r] = "stamped"
      PROVE  /\ tokens' + retry'[r] * Ticks * Rate >= Ticks
             /\ tokens' + (retry'[r] - 1) * Ticks * Rate < Ticks
  <2> DEFINE units == refilled(now[r])
  <2>1. Allow(r)
    BY <1>1 DEF Next, Tick, Stamp, Allow, Respond, vars, TypeOK
  <2>2. units \in Nat
    <3>1. units \in 0..Burst * Ticks
      BY <1>1, RefillBounds DEF TypeOK
    <3> QED
      BY <3>1
  <2>3. /\ units < Ticks /\ tokens' = units
        /\ retry' = [retry EXCEPT ![r] = ceilSeconds(units)]
    BY <1>1, <2>1 DEF Allow, TypeOK
  <2> HIDE DEF units
  <2>4. ceilSeconds(units) = 1
    BY <2>2, <2>3, RetryIsOneSecond
  <2>5. retry'[r] = 1
    BY <1>1, <2>3, <2>4 DEF TypeOK
  <2>6. Ticks * Rate \in Nat /\ Ticks <= Ticks * Rate /\ Ticks \in Nat
        /\ Rate \in Nat
    BY LimiterAssumption
  <2>7. 1 * Ticks * Rate = Ticks * Rate /\ (1 - 1) * Ticks * Rate = 0
    BY <2>6
  <2> QED
    BY <2>2, <2>3, <2>5, <2>6, <2>7
<1>2. TypeOK /\ [Next]_vars =>
        [\A r \in Requests :
           phase'[r] = "rejected" /\ phase[r] = "stamped" =>
             /\ tokens' + retry'[r] * Ticks * Rate >= Ticks
             /\ tokens' + (retry'[r] - 1) * Ticks * Rate < Ticks]_vars
  BY <1>1
<1> QED
  BY TypeCorrect, <1>2, PTL DEF Spec, RetryHonest

=============================================================================
