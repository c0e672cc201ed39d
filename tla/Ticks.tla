----------------------------------- MODULE Ticks ----------------------------------
(***************************************************************************)
(* The two comparisons of times in the program: the end of a wait          *)
(* (Manager::WaitForPackets) and the saved time of a device                *)
(* (Manager::SetColorAndPower).  Both add a delay to GetTicks, the 32 bits *)
(* of GetTickCount, and compare the sum with a later GetTicks.  The other  *)
(* modules let a deadline pass at any moment; the theorems say how far the *)
(* code is from that when the counter wraps, every 49.7 days.              *)
(***************************************************************************)
EXTENDS Integers, TLAPS

CONSTANT W  \* 2^32, the range of unsigned

\* The counter after t milliseconds.
GetTicks(t) == t % W

\* What SaveTime stores, and the end that WaitForPackets computes.
End(t, delay) == (GetTicks(t) + delay) % W

\* SavedTime() < GetTicks(), and the condition that ends a wait: a delay that
\* began at time t has passed at time now.
Passed(t, delay, now) == End(t, delay) < GetTicks(now)

\* How often the counter has wrapped.
Epoch(t) == t \div W

------------------------------------------------------------------------------
LEMMA Parts ==
    ASSUME W \in Nat \ {0}, NEW t \in Nat
    PROVE  /\ Epoch(t) \in Nat /\ GetTicks(t) \in 0..(W - 1)
           /\ t = W * Epoch(t) + GetTicks(t)
BY DEF Epoch, GetTicks

\* The end of a delay is its sum, or the sum less one round.
LEMMA Ends ==
    ASSUME W \in Nat \ {0}, NEW t \in Nat, NEW delay \in 0..(W - 1)
    PROVE  End(t, delay) = IF GetTicks(t) + delay < W THEN GetTicks(t) + delay
                           ELSE GetTicks(t) + delay - W
<1> DEFINE s == GetTicks(t) + delay
<1>1. s \in Nat /\ s < 2 * W
  BY Parts
<1>2. End(t, delay) = s % W
  BY DEF End
<1> HIDE DEF s
<1>3. CASE s < W
  <2>1. s % W = s
    BY <1>1, <1>3
  <2> QED BY <1>2, <1>3, <2>1 DEF s
<1>4. CASE ~(s < W)
  <2>1. s % W = s - W
    BY <1>1, <1>4
  <2>2. ~(GetTicks(t) + delay < W)
    BY <1>4 DEF s
  <2>3. End(t, delay) = s - W
    BY <1>2, <2>1
  <2> QED BY <2>2, <2>3, Parts DEF s
<1> QED BY <1>3, <1>4

\* While the counter does not wrap, the comparison is right: a change settles,
\* and a wait ends, when the delay has passed.
THEOREM RightWithinAnEpoch ==
    ASSUME W \in Nat \ {0}, NEW t \in Nat, NEW now \in Nat, NEW delay \in 0..(W - 1),
           Epoch(now) = Epoch(t), GetTicks(t) + delay < W
    PROVE  Passed(t, delay, now) <=> t + delay < now
<1> DEFINE p == W * Epoch(t)
<1>1. p \in Int /\ t = p + GetTicks(t) /\ now = p + GetTicks(now)
  BY Parts
<1>2. End(t, delay) = GetTicks(t) + delay
  BY Ends
<1>3. GetTicks(t) \in 0..(W - 1) /\ GetTicks(now) \in 0..(W - 1)
  BY Parts
<1> HIDE DEF p
<1> QED BY <1>1, <1>2, <1>3 DEF Passed

\* A delay that begins when it would end beyond the wrap has passed at once:
\* WaitForPackets reads one packet at most, and SetColorAndPower saves what is
\* reported of a light that is still fading.
THEOREM PassedAtOnceBeforeTheWrap ==
    ASSUME W \in Nat \ {0}, NEW t \in Nat, NEW now \in Nat, NEW delay \in 0..(W - 1),
           Epoch(now) = Epoch(t), t <= now, GetTicks(t) + delay >= W
    PROVE  Passed(t, delay, now)
<1> DEFINE p == W * Epoch(t)
<1>1. p \in Int /\ t = p + GetTicks(t) /\ now = p + GetTicks(now)
  BY Parts
<1>2. End(t, delay) = GetTicks(t) + delay - W
  BY Ends, Parts
<1>3. GetTicks(t) \in 0..(W - 1) /\ GetTicks(now) \in 0..(W - 1)
  BY Parts
<1> HIDE DEF p
<1> QED BY <1>1, <1>2, <1>3 DEF Passed

\* A delay that ends before the wrap and is looked at behind it has not passed
\* until one more round is over: the next call does not save the reported state
\* unless it comes that late, and a wait whose loop has not looked at the clock
\* between its end and the wrap goes on for weeks, with manager_mutex, unless
\* acknowledgements end it.
THEOREM LateByARound ==
    ASSUME W \in Nat \ {0}, NEW t \in Nat, NEW now \in Nat, NEW delay \in 0..(W - 1),
           Epoch(now) = Epoch(t) + 1, GetTicks(t) + delay < W
    PROVE  Passed(t, delay, now) <=> t + delay + W < now
<1> DEFINE p == W * Epoch(t)
<1>1. W * Epoch(now) = p + W
  BY Parts
<1> HIDE DEF p
<1>2. t = p + GetTicks(t) /\ p \in Int
  BY Parts DEF p
<1>3. now = p + W + GetTicks(now)
  BY <1>1, Parts
<1>4. End(t, delay) = GetTicks(t) + delay
  BY Ends
<1>5. GetTicks(t) \in 0..(W - 1) /\ GetTicks(now) \in 0..(W - 1)
  BY Parts
<1> QED BY <1>2, <1>3, <1>4, <1>5 DEF Passed

\* A delay that ends on the last tick of a round never passes, however many
\* rounds go by: a Discover that has begun just then holds manager_mutex for
\* ever.
THEOREM NeverPassedAtTheLastTick ==
    ASSUME W \in Nat \ {0}, NEW t \in Nat, NEW now \in Nat, NEW delay \in 0..(W - 1),
           GetTicks(t) + delay = W - 1
    PROVE  ~Passed(t, delay, now)
BY Parts, Ends DEF Passed
==============================================================================
