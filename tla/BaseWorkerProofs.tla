-------------------------- MODULE BaseWorkerProofs --------------------------
(***************************************************************************)
(* Proofs about handlePolicy for any checks, limits, counts, metrics and   *)
(* strategy targets, and any number of deliveries that do not overlap.     *)
(***************************************************************************)
EXTENDS BaseWorker, TLAPS

\* Most steps are first-order; the others say SMT.
USE Zenon

ActionType == [direction : {Down, Unmoved, Up}, count : Int]
Refs == Objects \union {Nil, Fresh}
Places == {"idle", "status", "checks", "limits", "merge", "scale", "ack", "nack", "cancelled"}

Types ==
  /\ dryRun \in BOOLEAN
  /\ pc \in [Deliveries -> Places]
  /\ count \in [Deliveries -> 0 .. MaxInt]
  /\ todo \in [Deliveries -> SUBSET Checks]
  /\ current \in [Deliveries -> Refs]
  /\ winner \in [Deliveries -> Refs]
  /\ slot \in [Checks -> Objects]
  /\ \A c \in Checks : slot[c][1] = c
  /\ obj \in [Objects -> ActionType]
  /\ voted \in [Deliveries \X Checks -> ActionType]
  /\ chosen \in [Deliveries -> ActionType]
  /\ sent \in [Deliveries -> ActionType]
  /\ blind \in [Deliveries -> BOOLEAN]

\* The broker delivers the evaluation again only when the worker has returned it.
OneAtATime ==
  \A d, e \in Deliveries : pc[d] \notin Ended /\ pc[e] \notin Ended => d = e

\* Only then is -1 never the result of a strategy.
MetricsNotNegative == Values \subseteq Nat

\* An action away from the current count n, in its direction.
Away(a, n) ==
  /\ a.direction = Down => a.count < n
  /\ a.direction = Up => a.count > n

\* What the strategy leaves in the action of a check.
Computed(a, n) ==
  a.direction # Unmoved => /\ MetricsNotNegative => a.count # DryRunCount
                           /\ Fits(n) => Away(a, n)

\* What a check can answer: nothing to do, or an action within the limits.
Answer(a, n) ==
  \/ a = Action(Unmoved, 0)
  \/ /\ a.direction # Unmoved
     /\ MetricsNotNegative => a.count \in Min .. Max
     /\ n \in Min .. Max /\ Fits(n) => Away(a, n)

Answered(d, c) == voted[<<d, c>>] # NoVote

\* The answers of the checks in S are merged: the winner is one of them, it
\* belongs to a check of S, and no other one is safer.
Merged(d, S) ==
  /\ winner[d] \in Objects => winner[d][1] \in S
  /\ winner[d] # Nil => \E c \in S : Answered(d, c) /\ voted[<<d, c>>] = Deref(winner[d])
  /\ \A c \in S : Answered(d, c) =>
       winner[d] # Nil /\ ~Safer(voted[<<d, c>>], Deref(winner[d]))
  /\ ~blind[d] /\ count[d] \notin Min .. Max =>
       \A c \in S : Answered(d, c) /\ voted[<<d, c>>].direction # Unmoved

\* The checks that have run, but for c.
DoneBut(d, c) == (Checks \ todo[d]) \ {c}

AtLimits(d) ==
  LET c == current[d][1]
  IN  /\ current[d] \in Objects
      /\ current[d] = slot[c]
      /\ c \notin todo[d]
      /\ ~Answered(d, c)
      /\ Computed(obj[slot[c]], count[d])
      /\ Merged(d, DoneBut(d, c))

AtMerge(d) ==
  /\ current[d] # Nil
  /\ \E c \in Checks \ todo[d] :
       /\ Answered(d, c) /\ voted[<<d, c>>] = Deref(current[d])
       /\ current[d] \in Objects => current[d][1] = c
       /\ ~blind[d] /\ count[d] \notin Min .. Max => Deref(current[d]).direction # Unmoved
       /\ Merged(d, DoneBut(d, c))

\* What is submitted for the chosen action.
Submitted(a) == IF dryRun THEN Action(a.direction, DryRunCount) ELSE a

AtScale(d) ==
  /\ winner[d] \in Objects
  /\ chosen[d] # NoVote
  /\ obj[winner[d]] = Submitted(chosen[d])

Chosen(d) ==
  /\ chosen[d].direction # Unmoved
  /\ \A c \in Checks : Answered(d, c) => ~Safer(voted[<<d, c>>], chosen[d])
  /\ \E c \in Checks : voted[<<d, c>>] = chosen[d]

Undecided == {"idle", "status", "checks", "limits", "merge"}

DeliveryOK(d) ==
  /\ \A c \in Checks : Answered(d, c) => Answer(voted[<<d, c>>], count[d])
  /\ pc[d] \in {"idle", "status"} =>
       winner[d] = Nil /\ ~blind[d] /\ \A c \in Checks : ~Answered(d, c)
  /\ pc[d] \in {"checks", "limits", "merge"} => \A c \in todo[d] : ~Answered(d, c)
  /\ pc[d] \in Undecided => chosen[d] = NoVote
  /\ pc[d] \in Undecided \union {"scale"} => sent[d] = NoVote
  /\ pc[d] = "checks" => Merged(d, Checks \ todo[d])
  /\ pc[d] = "limits" => AtLimits(d)
  /\ pc[d] = "merge" => AtMerge(d)
  /\ pc[d] = "scale" => AtScale(d)
  /\ chosen[d] # NoVote => Chosen(d)
  /\ sent[d] # NoVote => chosen[d] # NoVote /\ sent[d] = Submitted(chosen[d])
  /\ pc[d] = "ack" /\ count[d] \notin Min .. Max /\ ~blind[d] /\ Checks # {} => sent[d] # NoVote

WorkerInv ==
  /\ Types
  /\ OneAtATime
  /\ \A d \in Deliveries : DeliveryOK(d)

-----------------------------------------------------------------------------
(* The strategy and the limits                                             *)

\* An action with a direction is not one without, such as NoVote.
LEMMA MovesDiffer == \A a, n : a.direction # Unmoved => a # Action(Unmoved, n)
  BY SMT DEF Action

LEMMA RefsDiffer ==
  /\ Nil # Fresh
  /\ \A o \in Objects : o # Nil /\ o # Fresh
  BY SMT DEF Nil, Fresh, Objects

\* The ceiling of n / m.
LEMMA CeilDivRounds ==
  ASSUME NEW n \in Int, NEW m \in Nat \ {0}
  PROVE  /\ CeilDiv(n, m) \in Int
         /\ n <= m * CeilDiv(n, m)
         /\ m * CeilDiv(n, m) < n + m
  BY SMT DEF CeilDiv

LEMMA DivisorPositive ==
  ASSUME NEW t \in Nat PROVE Divisor(t) \in Nat \ {0}
  BY SMT DEF Divisor

\* A metric below its target never raises the count ...
LEMMA CeilDivBelow ==
  ASSUME NEW n \in Nat \ {0}, NEW v \in Int, NEW t \in Nat \ {0}, v < t
  PROVE  CeilDiv(n * v, t) <= n
<1> DEFINE q == CeilDiv(n * v, t)
<1>1. n * v \in Int /\ n * v <= n * t
  BY SMT
<1>2. q \in Int /\ t * q < n * v + t
  BY <1>1, CeilDivRounds
<1>3. ASSUME q > n PROVE FALSE
  <2>1. t * q >= t * (n + 1)
    BY <1>2, <1>3, SMT
  <2> QED
    BY <1>1, <1>2, <2>1, SMT
<1> QED
  BY <1>2, <1>3, SMT

\* ... and one above it always raises it.
LEMMA CeilDivAbove ==
  ASSUME NEW n \in Nat \ {0}, NEW v \in Int, NEW t \in Nat \ {0}, v > t
  PROVE  CeilDiv(n * v, t) > n
<1> DEFINE q == CeilDiv(n * v, t)
<1>1. n * v \in Int /\ n * v > n * t
  BY SMT
<1>2. q \in Int /\ n * v <= t * q
  BY <1>1, CeilDivRounds
<1>3. ASSUME q <= n PROVE FALSE
  <2>1. t * q <= t * n
    BY <1>2, <1>3, SMT
  <2> QED
    BY <1>1, <1>2, <2>1, SMT
<1> QED
  BY <1>2, <1>3, SMT

\* The ceiling of a quotient is not above a bound of its dividend.
LEMMA CeilDivBounded ==
  ASSUME NEW n \in Int, NEW m \in Nat \ {0}, n <= MaxInt
  PROVE  CeilDiv(n, m) <= MaxInt
<1> DEFINE q == CeilDiv(n, m)
<1>1. q \in Int /\ m * q < n + m /\ MaxInt \in Nat
  BY CeilDivRounds, BaseWorkerConstants
<1>2. ASSUME q > MaxInt PROVE FALSE
  <2>1. m * q >= m * (MaxInt + 1)
    BY <1>1, <1>2, SMT
  <2>2. m * (MaxInt + 1) >= MaxInt + m
    BY <1>1, SMT
  <2> QED
    BY <1>1, <2>1, <2>2, SMT
<1> QED
  BY <1>1, <1>2, SMT

LEMMA CeilDivNotNegative ==
  ASSUME NEW n \in Nat, NEW m \in Nat \ {0}
  PROVE  CeilDiv(n, m) >= 0
<1> DEFINE q == CeilDiv(n, m)
<1>1. q \in Int /\ n <= m * q
  BY CeilDivRounds, SMT
<1>2. ASSUME q <= -1 PROVE FALSE
  <2>1. m * q <= m * (-1)
    BY <1>1, <1>2, SMT
  <2> QED
    BY <1>1, <2>1, SMT
<1> QED
  BY <1>1, <1>2, SMT

LEMMA ToIntRange ==
  ASSUME NEW x \in Int, NEW m \in ToInt(x)
  PROVE  /\ m \in Int
         /\ x <= MaxInt => m = x \/ (x < -MaxInt - 1 /\ m = -MaxInt - 1)
         /\ m # x => m <= -2 \/ m = MaxInt
         /\ x >= 0 => m # DryRunCount
  BY BaseWorkerConstants, SMT DEF ToInt, DryRunCount

\* Run of the target-value strategy: a count that is not -1 for metrics that are
\* not negative, and one that agrees with the direction unless it overflows.
LEMMA StrategyComputes ==
  ASSUME NEW a \in ActionType, NEW n \in 0 .. MaxInt, NEW v \in Values, NEW t \in Nat,
         NEW b \in StrategyRun(a, n, v, t)
  PROVE  b \in ActionType /\ Computed(b, n)
<1> DEFINE s == Divisor(t)
           d == calculateDirection(n, v, t)
           p == IF n = 0 THEN v ELSE n * v
           x == CeilDiv(p, s)
<1>1. v \in Int /\ n \in Nat /\ s \in Nat \ {0} /\ Threshold \in 0 .. 100 /\ MaxInt \in Nat \ {0}
  BY DivisorPositive, BaseWorkerConstants, SMT
<1>2. p \in Int
  BY <1>1, SMT
<1>3. x \in Int
  BY <1>1, <1>2, CeilDivRounds
<1>4. d \in {Down, Unmoved, Up}
  BY DEF calculateDirection
<1> HIDE DEF s, d, p, x
<1>5. PICK m \in ToInt(x) : b = IF d = Unmoved \/ m = n THEN [a EXCEPT !.direction = Unmoved] ELSE Action(d, m)
  BY DEF StrategyRun, s, d, p, x
<1>6. m \in Int
  BY <1>3, ToIntRange
<1>7. CASE d = Unmoved \/ m = n
  BY <1>5, <1>7 DEF ActionType, Computed, Unmoved, Down, Up
<1>8. CASE d # Unmoved /\ m # n
  <2>1. b = Action(d, m) /\ b.direction = d /\ b.count = m
    BY <1>5, <1>8 DEF Action
  <2>2. b \in ActionType
    BY <1>4, <1>5, <1>6, <1>8 DEF ActionType, Action
  <2>3. ASSUME MetricsNotNegative PROVE m # DryRunCount
    <3>1. p \in Nat
      BY <1>1, <2>3, SMT DEF MetricsNotNegative, p
    <3>2. x >= 0
      BY <1>1, <3>1, CeilDivNotNegative DEF x
    <3> QED
      BY <1>3, <3>2, ToIntRange
  <2>4. ASSUME Fits(n) PROVE Away(b, n)
    <3>1. p <= MaxInt
      BY <1>1, <2>4 DEF Fits, p
    <3>2. x <= MaxInt
      BY <1>1, <1>2, <3>1, CeilDivBounded DEF x
    <3>3. m = x \/ (x < -MaxInt - 1 /\ m = -MaxInt - 1)
      BY <1>3, <3>2, ToIntRange
    <3>4. CASE n = 0
      <4>1. d = Up /\ v > 0
        BY <1>8, <3>4 DEF calculateDirection, d, Unmoved, Up
      <4>2. p = v
        BY <3>4 DEF p
      <4>3. v <= s * x
        BY <1>1, <4>2, CeilDivRounds DEF x
      <4>4. x > 0
        <5>1. ASSUME x <= 0 PROVE FALSE
          <6>1. s * x <= 0
            BY <1>1, <1>3, <5>1, SMT
          <6> QED
            BY <1>1, <1>3, <4>1, <4>3, <6>1, SMT
        <5> QED
          BY <1>3, <5>1, SMT
      <4> QED
        BY <1>1, <1>3, <2>1, <3>3, <3>4, <4>1, <4>4, SMT DEF Away, Up, Down
    <3>5. CASE n # 0 /\ d = Down
      <4>1. 100 * v < (100 - Threshold) * s
        BY <3>5, SMT DEF calculateDirection, d, s, Unmoved, Up, Down
      <4>2. (100 - Threshold) * s <= 100 * s
        BY <1>1, SMT
      <4>3. v < s
        BY <1>1, <4>1, <4>2, SMT
      <4>4. x <= n
        BY <1>1, <3>5, <4>3, CeilDivBelow DEF x, p
      <4> QED
        BY <1>1, <1>3, <1>6, <1>8, <2>1, <3>3, <3>5, <4>4, SMT DEF Away, Up, Down
    <3>6. CASE n # 0 /\ d = Up
      <4>1. 100 * v > (100 + Threshold) * s
        BY <3>6, SMT DEF calculateDirection, d, s, Unmoved, Up, Down
      <4>2. (100 + Threshold) * s >= 100 * s
        BY <1>1, SMT
      <4>3. v > s
        BY <1>1, <4>1, <4>2, SMT
      <4>4. x > n
        BY <1>1, <3>6, <4>3, CeilDivAbove DEF x, p
      <4> QED
        BY <1>1, <1>3, <1>6, <2>1, <3>3, <3>6, <4>4, SMT DEF Away, Up, Down
    <3> QED
      BY <1>4, <1>8, <3>4, <3>5, <3>6
  <2> QED
    BY <2>1, <2>2, <2>3, <2>4 DEF Computed
<1> QED
  BY <1>7, <1>8

\* CapCount keeps the direction, and what it changes stays on its side of a
\* current count within the limits.
LEMMA CappedIsAnswer ==
  ASSUME NEW a \in ActionType, NEW n \in 0 .. MaxInt, Computed(a, n)
  PROVE  /\ CapCount(a) \in ActionType
         /\ CapCount(a).direction = a.direction
         /\ a.direction # Unmoved /\ CapCount(a).count # n => Answer(CapCount(a), n)
         /\ a.direction # Unmoved /\ n \notin Min .. Max => CapCount(a).count # n
<1> DEFINE b == CapCount(a)
<1>1. Min \in Nat /\ Max \in Nat /\ Min <= Max /\ n \in Nat /\ a.count \in Int
  BY BaseWorkerConstants, SMT DEF ActionType
<1>2. b \in ActionType
  BY <1>1, SMT DEF CapCount, ActionType
<1>3. b.direction = a.direction
  BY <1>1 DEF CapCount, ActionType
<1>4. b.count = IF a.count = DryRunCount THEN a.count ELSE IF a.count < Min THEN Min
                ELSE IF a.count > Max THEN Max ELSE a.count
  BY <1>1 DEF CapCount, ActionType
<1> HIDE DEF b
<1>5. ASSUME a.direction # Unmoved, b.count # n PROVE Answer(b, n)
  <2>1. MetricsNotNegative => b.count \in Min .. Max
    BY <1>1, <1>4, <1>5, SMT DEF Computed
  <2>2. ASSUME n \in Min .. Max, Fits(n) PROVE Away(b, n)
    <3>1. Away(a, n)
      BY <1>5, <2>2 DEF Computed
    <3> QED
      BY <1>1, <1>3, <1>4, <1>5, <2>2, <3>1, SMT DEF Away, DryRunCount
  <2> QED
    BY <1>3, <1>5, <2>1, <2>2 DEF Answer
<1>6. n \notin Min .. Max => b.count # n
  BY <1>1, <1>4, SMT DEF DryRunCount
<1> QED
  BY <1>2, <1>3, <1>5, <1>6 DEF b

-----------------------------------------------------------------------------
(* Precedence of actions                                                   *)

\* Two answers: either PreemptScalingAction prefers the first, or it is not safer.
LEMMA PreemptsOrNotSafer ==
  ASSUME NEW a \in ActionType, NEW b \in ActionType, NEW n, Answer(a, n), Answer(b, n)
  PROVE  Preempts(b, a) \/ ~Safer(b, a)
  BY SMT DEF ActionType, Answer, Action, Preempts, Safer, Down, Unmoved, Up

\* What is not safer than the old winner is not safer than one that preempts it.
LEMMA NotSaferTransitive ==
  ASSUME NEW a \in ActionType, NEW b \in ActionType, NEW v \in ActionType,
         Preempts(b, a), ~Safer(v, a)
  PROVE  ~Safer(v, b)
  BY SMT DEF ActionType, Preempts, Safer, Down, Unmoved, Up

LEMMA NotSaferThanItself ==
  ASSUME NEW a \in ActionType PROVE ~Safer(a, a)
  BY SMT DEF ActionType, Safer, Down, Unmoved, Up

LEMMA AnswersAreVotes ==
  ASSUME NEW a, NEW n, Answer(a, n) PROVE a # NoVote
  BY SMT DEF Answer, NoVote, Action, DryRunCount

LEMMA DerefType ==
  ASSUME Types, NEW r \in Refs
  PROVE  Deref(r) \in ActionType
  BY RefsDiffer, SMT DEF Types, Refs, Deref, ActionType, Action, Down, Unmoved, Up

-----------------------------------------------------------------------------
(* The invariant is inductive                                              *)

LEMMA WorkerInvInit == Init => WorkerInv
<1> SUFFICES ASSUME Init PROVE WorkerInv
  OBVIOUS
<1>1. Types
  <2>1. NoVote \in ActionType /\ Action(Unmoved, 0) \in ActionType
    BY SMT DEF NoVote, Action, ActionType, Down, Unmoved, Up, DryRunCount
  <2>2. slot \in [Checks -> Objects] /\ \A c \in Checks : slot[c][1] = c
    BY DEF Init, Objects
  <2>3. 0 \in 0 .. MaxInt
    BY BaseWorkerConstants, SMT
  <2> QED
    BY <2>1, <2>2, <2>3 DEF Init, Types, Refs, Places
<1>2. OneAtATime
  BY DEF Init, OneAtATime, Ended
<1>3. ASSUME NEW d \in Deliveries PROVE DeliveryOK(d)
  BY DEF Init, DeliveryOK, Answered, Undecided
<1> QED
  BY <1>1, <1>2, <1>3 DEF WorkerInv

\* Nothing but what belongs to delivery d, and the shared actions, changes.
OnlyDelivery(d) ==
  /\ dryRun' = dryRun
  /\ \A e \in Deliveries \ {d} :
       /\ pc'[e] = pc[e] /\ count'[e] = count[e] /\ winner'[e] = winner[e]
       /\ chosen'[e] = chosen[e] /\ sent'[e] = sent[e] /\ blind'[e] = blind[e]
       /\ \A c \in Checks : voted'[<<e, c>>] = voted[<<e, c>>]

\* Deliveries that have ended, or not begun, do not look at the shared actions.
LEMMA DeliveryStep ==
  ASSUME WorkerInv, NEW d \in Deliveries, OnlyDelivery(d),
         \A e \in Deliveries \ {d} : pc[e] \in Ended,
         Types', DeliveryOK(d)'
  PROVE  WorkerInv'
<1>1. OneAtATime'
  BY DEF OnlyDelivery, OneAtATime
<1>2. ASSUME NEW e \in Deliveries \ {d} PROVE DeliveryOK(e)'
  <2>1. pc'[e] \in Ended
    BY DEF OnlyDelivery
  <2>2. DeliveryOK(e)
    BY DEF WorkerInv
  <2> QED
    BY <2>1, <2>2, SMT DEF OnlyDelivery, DeliveryOK, Ended, Undecided, Answered, Chosen, Submitted
<1> QED
  BY <1>1, <1>2 DEF WorkerInv

\* The merged answers are not disturbed by what does not touch them.
LEMMA MergedKept ==
  ASSUME NEW d \in Deliveries, NEW S \in SUBSET Checks, Merged(d, S),
         winner'[d] = winner[d], Deref(winner[d])' = Deref(winner[d]), count'[d] = count[d],
         blind[d] => blind'[d],
         \A c \in S : voted'[<<d, c>>] = voted[<<d, c>>]
  PROVE  Merged(d, S)'
  BY DEF Merged, Answered

LEMMA OthersEnded ==
  ASSUME WorkerInv, NEW d \in Deliveries, pc[d] \notin Ended
  PROVE  \A e \in Deliveries \ {d} : pc[e] \in Ended
  BY DEF WorkerInv, OneAtATime

\* Dequeue, and the status of the target.
LEMMA StatusSteps ==
  ASSUME WorkerInv, ~Overlap, NEW d \in Deliveries, dryRun' = dryRun,
         Begin(d) \/ TargetReady(d) \/ TargetNotReady(d) \/ TargetMissing(d)
  PROVE  WorkerInv'
<1>1. Types /\ DeliveryOK(d)
  BY DEF WorkerInv
<1>2. CASE Begin(d)
  <2>1. pc[d] = "idle" /\ pc' = [pc EXCEPT ![d] = "status"]
    BY <1>2 DEF Begin, Go
  <2>2. UNCHANGED <<dryRun, count, todo, current, winner, slot, obj, voted, chosen, sent, blind>>
    BY <1>2 DEF Begin
  <2>3. Types'
    BY <1>1, <2>1, <2>2 DEF Types, Places
  <2>4. \A e \in Deliveries \ {d} : pc[e] \in Ended
    BY <1>2 DEF Begin, Ended
  <2>5. OnlyDelivery(d)
    BY <1>1, <2>1, <2>2 DEF OnlyDelivery, Types
  <2>6. pc'[d] = "status"
    BY <1>1, <2>1 DEF Types
  <2>7. DeliveryOK(d)'
    BY <1>1, <2>1, <2>2, <2>6 DEF DeliveryOK, Undecided, Answered, Chosen
  <2> QED
    BY <2>3, <2>4, <2>5, <2>7, DeliveryStep
<1>3. CASE TargetReady(d)
  <2>1. pc[d] = "status" /\ pc' = [pc EXCEPT ![d] = "checks"]
    BY <1>3 DEF TargetReady, Go
  <2>2. UNCHANGED <<dryRun, current, winner, slot, obj, voted, chosen, sent, blind>>
    BY <1>3 DEF TargetReady
  <2>3. PICK n \in Counts : count' = [count EXCEPT ![d] = n]
    BY <1>3 DEF TargetReady
  <2>4. todo' = [todo EXCEPT ![d] = Checks]
    BY <1>3 DEF TargetReady
  <2>5. n \in 0 .. MaxInt
    BY <2>3, BaseWorkerConstants
  <2>6. Types'
    BY <1>1, <2>1, <2>2, <2>3, <2>4, <2>5 DEF Types, Places
  <2>7. OnlyDelivery(d)
    BY <1>1, <2>1, <2>2, <2>3 DEF OnlyDelivery, Types
  <2>8. pc'[d] = "checks" /\ todo'[d] = Checks
    BY <1>1, <2>1, <2>4 DEF Types
  <2>9. winner[d] = Nil /\ \A c \in Checks : ~Answered(d, c)
    BY <1>1, <2>1 DEF DeliveryOK
  <2>10. Merged(d, Checks \ todo[d])'
    BY <2>2, <2>8, <2>9, RefsDiffer DEF Merged, Answered
  <2>11. DeliveryOK(d)'
    BY <1>1, <2>1, <2>2, <2>8, <2>9, <2>10 DEF DeliveryOK, Undecided, Answered, Chosen
  <2> QED
    BY <2>1, <2>6, <2>7, <2>11, OthersEnded, DeliveryStep DEF Ended
<1>4. CASE TargetNotReady(d)
  <2>1. pc[d] = "status" /\ pc' = [pc EXCEPT ![d] = "nack"]
    BY <1>4 DEF TargetNotReady, Go
  <2>2. UNCHANGED <<dryRun, count, todo, current, winner, slot, obj, voted, chosen, sent, blind>>
    BY <1>4 DEF TargetNotReady
  <2>3. Types'
    BY <1>1, <2>1, <2>2 DEF Types, Places
  <2>4. OnlyDelivery(d)
    BY <1>1, <2>1, <2>2 DEF OnlyDelivery, Types
  <2>5. pc'[d] = "nack"
    BY <1>1, <2>1 DEF Types
  <2>6. DeliveryOK(d)'
    BY <1>1, <2>1, <2>2, <2>5 DEF DeliveryOK, Undecided, Answered, Chosen
  <2> QED
    BY <2>1, <2>3, <2>4, <2>6, OthersEnded, DeliveryStep DEF Ended
<1>5. CASE TargetMissing(d)
  <2>1. UNCHANGED <<dryRun, pc, count, todo, current, winner, slot, obj, voted, chosen, sent, blind>>
    BY <1>5 DEF TargetMissing
  <2>2. pc[d] = "status"
    BY <1>5 DEF TargetMissing
  <2>3. Types'
    BY <1>1, <2>1 DEF Types
  <2>4. OnlyDelivery(d)
    BY <2>1 DEF OnlyDelivery
  <2>5. DeliveryOK(d)'
    BY <1>1, <2>1, <2>2 DEF DeliveryOK, Undecided, Answered, Chosen
  <2> QED
    BY <2>2, <2>3, <2>4, <2>5, OthersEnded, DeliveryStep DEF Ended
<1> QED
  BY <1>2, <1>3, <1>4, <1>5

\* A check fails: it has no answer, and the delivery is blind.
LEMMA CheckFailsStep ==
  ASSUME WorkerInv, NEW d \in Deliveries, NEW c \in Checks, dryRun' = dryRun, CheckFails(d, c)
  PROVE  WorkerInv'
<1>1. Types /\ DeliveryOK(d)
  BY DEF WorkerInv
<1>2. pc[d] = "checks" /\ c \in todo[d]
  BY DEF CheckFails
<1>3. UNCHANGED <<dryRun, pc, count, current, winner, slot, obj, voted, chosen, sent>>
  BY DEF CheckFails
<1>4. todo' = [todo EXCEPT ![d] = @ \ {c}] /\ blind' = [blind EXCEPT ![d] = TRUE]
  BY DEF CheckFails
<1>5. Types'
  BY <1>1, <1>3, <1>4 DEF Types
<1>6. OnlyDelivery(d)
  BY <1>1, <1>3, <1>4 DEF OnlyDelivery, Types
<1>7. todo'[d] = todo[d] \ {c} /\ blind'[d]
  BY <1>1, <1>4 DEF Types
<1>8. ~Answered(d, c) /\ Merged(d, Checks \ todo[d])
  BY <1>1, <1>2 DEF DeliveryOK
<1>9. Merged(d, Checks \ todo[d])'
  BY <1>2, <1>3, <1>7, <1>8 DEF Merged, Answered, Deref
<1>10. DeliveryOK(d)'
  BY <1>1, <1>2, <1>3, <1>7, <1>9 DEF DeliveryOK, Undecided, Answered, Chosen
<1> QED
  BY <1>2, <1>5, <1>6, <1>10, OthersEnded, DeliveryStep DEF Ended

\* No metrics: the answer is that there is nothing to do.
LEMMA NoMetricsStep ==
  ASSUME WorkerInv, NEW d \in Deliveries, NEW c \in Checks, dryRun' = dryRun, NoMetrics(d, c)
  PROVE  WorkerInv'
<1>1. Types /\ DeliveryOK(d)
  BY DEF WorkerInv
<1>2. pc[d] = "checks" /\ c \in todo[d] /\ pc' = [pc EXCEPT ![d] = "merge"]
  BY DEF NoMetrics, Go
<1>3. UNCHANGED <<dryRun, count, winner, slot, obj, chosen, sent>>
  BY DEF NoMetrics
<1>4. /\ todo' = [todo EXCEPT ![d] = @ \ {c}]
      /\ current' = [current EXCEPT ![d] = Fresh]
      /\ blind' = [blind EXCEPT ![d] = TRUE]
      /\ voted' = [voted EXCEPT ![<<d, c>>] = Deref(Fresh)]
  BY DEF NoMetrics
<1>5. Deref(Fresh) = Action(Unmoved, 0) /\ Deref(Fresh)' = Action(Unmoved, 0)
  BY DEF Deref
<1>6. Action(Unmoved, 0) \in ActionType /\ Action(Unmoved, 0) # NoVote
  BY SMT DEF Action, ActionType, NoVote, Down, Unmoved, Up, DryRunCount
<1>7. Types'
  BY <1>1, <1>2, <1>3, <1>4, <1>5, <1>6 DEF Types, Places, Refs
<1>8. OnlyDelivery(d)
  BY <1>1, <1>2, <1>3, <1>4 DEF OnlyDelivery, Types
<1>9. /\ pc'[d] = "merge" /\ todo'[d] = todo[d] \ {c} /\ current'[d] = Fresh /\ blind'[d]
      /\ voted'[<<d, c>>] = Action(Unmoved, 0)
      /\ \A b \in Checks \ {c} : voted'[<<d, b>>] = voted[<<d, b>>]
  BY <1>1, <1>2, <1>4, <1>5 DEF Types
<1>10. ~Answered(d, c) /\ Merged(d, Checks \ todo[d])
  BY <1>1, <1>2 DEF DeliveryOK
<1>11. Merged(d, DoneBut(d, c))'
  <2>1. (Checks \ todo'[d]) \ {c} = Checks \ todo[d]
    BY <1>2, <1>9
  <2>2. PICK S \in SUBSET Checks : S = Checks \ todo[d]
    OBVIOUS
  <2>3. Merged(d, S)'
    BY <1>2, <1>3, <1>9, <1>10, <2>2, MergedKept DEF Deref
  <2> QED
    BY <2>1, <2>2, <2>3 DEF DoneBut, Merged
<1>12. AtMerge(d)'
  BY <1>2, <1>5, <1>6, <1>9, <1>11, RefsDiffer DEF AtMerge, Answered
<1>13. \A b \in Checks : Answered(d, b)' => Answer(voted[<<d, b>>], count[d])'
  BY <1>1, <1>3, <1>9 DEF DeliveryOK, Answered, Answer, Action, MetricsNotNegative, Away, Fits
<1>14. \A b \in todo'[d] : ~Answered(d, b)'
  BY <1>1, <1>2, <1>9 DEF DeliveryOK, Answered, Types
<1>15. DeliveryOK(d)'
  BY <1>1, <1>2, <1>3, <1>9, <1>12, <1>13, <1>14 DEF DeliveryOK, Undecided
<1> QED
  BY <1>2, <1>7, <1>8, <1>15, OthersEnded, DeliveryStep DEF Ended

\* Writing the action of one check leaves the winner alone when that is the
\* action of another one.
LEMMA OtherObject ==
  ASSUME Types, NEW r \in Refs, NEW o \in Objects, NEW a \in ActionType,
         r \in Objects => r # o, obj' = [obj EXCEPT ![o] = a]
  PROVE  Deref(r)' = Deref(r)
  BY RefsDiffer DEF Types, Refs, Deref

\* The strategy writes the action of a check that is not merged yet.
LEMMA RunCheckStep ==
  ASSUME WorkerInv, NEW d \in Deliveries, NEW c \in Checks, dryRun' = dryRun, RunCheck(d, c)
  PROVE  WorkerInv'
<1>1. Types /\ DeliveryOK(d)
  BY DEF WorkerInv
<1>2. pc[d] = "checks" /\ c \in todo[d] /\ pc' = [pc EXCEPT ![d] = "limits"]
  BY DEF RunCheck, Go
<1>3. UNCHANGED <<dryRun, count, winner, slot, voted, chosen, sent, blind>>
  BY DEF RunCheck
<1>4. /\ todo' = [todo EXCEPT ![d] = @ \ {c}]
      /\ current' = [current EXCEPT ![d] = slot[c]]
  BY DEF RunCheck
<1>5. PICK v \in Values : \E a \in StrategyRun(obj[slot[c]], count[d], v, TargetOf[c]) :
        obj' = [obj EXCEPT ![slot[c]] = a]
  BY DEF RunCheck
<1>6. PICK a \in StrategyRun(obj[slot[c]], count[d], v, TargetOf[c]) :
        obj' = [obj EXCEPT ![slot[c]] = a]
  BY <1>5
<1>7. slot[c] \in Objects /\ slot[c][1] = c /\ obj[slot[c]] \in ActionType /\ count[d] \in 0 .. MaxInt
  BY <1>1 DEF Types
<1>8. a \in ActionType /\ Computed(a, count[d])
  <2>1. TargetOf[c] \in Nat
    BY BaseWorkerConstants
  <2> QED
    BY <1>6, <1>7, <2>1, StrategyComputes
<1>9. Types'
  BY <1>1, <1>2, <1>3, <1>4, <1>6, <1>7, <1>8 DEF Types, Places, Refs
<1>10. OnlyDelivery(d)
  BY <1>1, <1>2, <1>3, <1>4 DEF OnlyDelivery, Types
<1>11. /\ pc'[d] = "limits" /\ todo'[d] = todo[d] \ {c} /\ current'[d] = slot[c]
       /\ obj'[slot[c]] = a
  BY <1>1, <1>2, <1>4, <1>6, <1>7 DEF Types
<1>12. ~Answered(d, c) /\ Merged(d, Checks \ todo[d]) /\ winner[d] \in Refs
  BY <1>1, <1>2 DEF DeliveryOK, Types
<1>13. Deref(winner[d])' = Deref(winner[d])
  <2>1. winner[d] \in Objects => winner[d] # slot[c]
    BY <1>2, <1>7, <1>12 DEF Merged
  <2>2. PICK r \in Refs : r = winner[d]
    BY <1>12
  <2>3. Deref(r)' = Deref(r)
    BY <1>1, <1>6, <1>7, <1>8, <2>1, <2>2, OtherObject
  <2> QED
    BY <1>3, <2>2, <2>3 DEF Deref
<1>14. Merged(d, DoneBut(d, c))'
  <2>1. (Checks \ todo'[d]) \ {c} = Checks \ todo[d]
    BY <1>2, <1>11
  <2>2. PICK S \in SUBSET Checks : S = Checks \ todo[d]
    OBVIOUS
  <2>3. Merged(d, S)'
    BY <1>3, <1>12, <1>13, <2>2, MergedKept
  <2> QED
    BY <2>1, <2>2, <2>3 DEF DoneBut, Merged
<1>15. AtLimits(d)'
  <2>1. current'[d][1] = c /\ c \notin todo'[d] /\ ~Answered(d, c)'
    BY <1>3, <1>7, <1>11, <1>12 DEF Answered
  <2>2. Computed(obj[slot[c]], count[d])'
    BY <1>3, <1>8, <1>11 DEF Computed, MetricsNotNegative, Away, Fits
  <2> QED
    BY <1>3, <1>7, <1>11, <1>14, <2>1, <2>2 DEF AtLimits
<1>16. DeliveryOK(d)'
  BY <1>1, <1>2, <1>3, <1>11, <1>15 DEF DeliveryOK, Undecided, Answered, Answer, Away, Fits
<1> QED
  BY <1>2, <1>9, <1>10, <1>16, OthersEnded, DeliveryStep DEF Ended

\* A check returns an answer, in an object of its own or a fresh one.
LEMMA ReturnStep ==
  ASSUME WorkerInv, Types', NEW d \in Deliveries, NEW c \in Checks, NEW r \in Refs, NEW a \in ActionType,
         dryRun' = dryRun, pc[d] = "limits", c = current[d][1], Return(d, c, r, a),
         Answer(a, count[d]), r # Nil, r \in Objects => r[1] = c, Deref(r)' = a,
         count[d] \notin Min .. Max => a.direction # Unmoved,
         Deref(winner[d])' = Deref(winner[d])
  PROVE  WorkerInv'
<1>1. Types /\ DeliveryOK(d)
  BY DEF WorkerInv
<1>2. pc' = [pc EXCEPT ![d] = "merge"]
  BY DEF Return, Go
<1>3. UNCHANGED <<dryRun, count, todo, winner, chosen, sent, blind>>
  BY DEF Return
<1>4. current' = [current EXCEPT ![d] = r] /\ voted' = [voted EXCEPT ![<<d, c>>] = a]
  BY DEF Return
<1>5. OnlyDelivery(d)
  BY <1>1, <1>2, <1>3, <1>4 DEF OnlyDelivery, Types
<1>6. /\ pc'[d] = "merge" /\ current'[d] = r /\ voted'[<<d, c>>] = a
      /\ \A b \in Checks \ {c} : voted'[<<d, b>>] = voted[<<d, b>>]
  BY <1>1, <1>2, <1>4 DEF Types
<1>7. AtLimits(d)
  BY <1>1 DEF DeliveryOK
<1>8. c \in Checks \ todo[d] /\ ~Answered(d, c) /\ Merged(d, DoneBut(d, c))
  BY <1>7 DEF AtLimits
<1>9. Merged(d, DoneBut(d, c))'
  <2>1. PICK S \in SUBSET Checks : S = DoneBut(d, c)
    BY DEF DoneBut
  <2>2. Merged(d, S)'
    BY <1>3, <1>6, <1>8, <2>1, MergedKept DEF DoneBut
  <2> QED
    BY <1>3, <2>1, <2>2 DEF DoneBut, Merged
<1>10. AtMerge(d)'
  <2>1. Deref(current[d])' = a
    BY <1>6 DEF Deref
  <2>2. Answered(d, c)'
    BY <1>6, AnswersAreVotes DEF Answered
  <2> QED
    BY <1>3, <1>6, <1>8, <1>9, <2>1, <2>2 DEF AtMerge
<1>11. \A b \in Checks : Answered(d, b)' => Answer(voted[<<d, b>>], count[d])'
  BY <1>1, <1>3, <1>6 DEF DeliveryOK, Answered, Answer, MetricsNotNegative, Away, Fits
<1>12. \A b \in todo'[d] : ~Answered(d, b)'
  BY <1>1, <1>3, <1>6, <1>8 DEF DeliveryOK, Answered, Types
<1>13. DeliveryOK(d)'
  BY <1>1, <1>3, <1>6, <1>10, <1>11, <1>12 DEF DeliveryOK, Undecided
<1> QED
  BY <1>5, <1>13, OthersEnded, DeliveryStep DEF Ended

\* The limits of the policy are applied to what the strategy left.
LEMMA LimitsStep ==
  ASSUME WorkerInv, NEW d \in Deliveries, dryRun' = dryRun, Limits(d)
  PROVE  WorkerInv'
<1>1. Types /\ DeliveryOK(d) /\ pc[d] = "limits"
  BY DEF WorkerInv, Limits
<1>2. AtLimits(d)
  BY <1>1 DEF DeliveryOK
<1>3. current[d][1] \in Checks
  BY <1>2 DEF AtLimits, Objects
<1>4. PICK c \in Checks : c = current[d][1]
  BY <1>3
<1>5. PICK n \in 0 .. MaxInt : n = count[d]
  BY <1>1 DEF Types
<1>6. /\ slot[c] = current[d] /\ slot[c] \in Objects /\ slot[c][1] = c
      /\ obj[slot[c]] \in ActionType /\ Computed(obj[slot[c]], n)
  BY <1>1, <1>2, <1>4, <1>5 DEF AtLimits, Types
<1>7. winner[d] \in Refs /\ (winner[d] \in Objects => winner[d][1] # c)
  BY <1>1, <1>2, <1>4 DEF AtLimits, Merged, DoneBut, Types
<1>8. MinMaxAction(d, c) \/ CappedAction(d, c) \/ NothingToDo(d, c)
  BY <1>4 DEF Limits
<1>9. Min \in Nat /\ Max \in Nat /\ Min <= Max /\ n \in Nat
  BY BaseWorkerConstants, SMT
<1>10. ASSUME NEW o \in Objects, o[1] = c, NEW a \in ActionType, obj' = [obj EXCEPT ![o] = a],
              winner' = winner
       PROVE  Deref(winner[d])' = Deref(winner[d])
  <2>1. PICK r \in Refs : r = winner[d]
    BY <1>7
  <2>2. Deref(r)' = Deref(r)
    BY <1>1, <1>7, <1>10, <2>1, OtherObject
  <2> QED
    BY <1>10, <2>1, <2>2 DEF Deref
<1>11. ASSUME NEW r \in Refs, NEW a \in ActionType, Return(d, c, r, a),
              slot' \in [Checks -> Objects], \A b \in Checks : slot'[b][1] = b,
              obj' \in [Objects -> ActionType]
       PROVE  Types'
  <2>1. /\ pc' = [pc EXCEPT ![d] = "merge"]
        /\ current' = [current EXCEPT ![d] = r]
        /\ voted' = [voted EXCEPT ![<<d, c>>] = a]
        /\ UNCHANGED <<count, todo, winner, chosen, sent, blind>>
    BY <1>11 DEF Return, Go
  <2> QED
    BY <1>1, <1>11, <2>1 DEF Types, Places
<1>12. CASE MinMaxAction(d, c)
  <2>1. PICK o \in Objects : o = <<c, d>>
    BY DEF Objects
  <2>2. Action(Up, Min) \in ActionType /\ Action(Down, Max) \in ActionType
    BY <1>9, SMT DEF ActionType, Action, Down, Unmoved, Up
  <2>3. PICK a \in ActionType : a = IF n < Min THEN Action(Up, Min) ELSE Action(Down, Max)
    BY <2>2
  <2>4. /\ n < Min \/ n > Max
        /\ slot' = [slot EXCEPT ![c] = o]
        /\ obj' = [obj EXCEPT ![o] = a]
        /\ Return(d, c, o, a)
    BY <1>5, <1>12, <2>1, <2>3 DEF MinMaxAction
  <2>5. a.direction # Unmoved /\ a.count \in Min .. Max
    BY <1>9, <2>3, SMT DEF Action, Down, Unmoved, Up
  <2>6. Answer(a, n)
    BY <1>9, <2>4, <2>5, SMT DEF Answer
  <2>7. o[1] = c /\ o \in Refs /\ o # Nil /\ o # Fresh
    BY <2>1, RefsDiffer DEF Refs
  <2>8. slot' \in [Checks -> Objects] /\ (\A b \in Checks : slot'[b][1] = b)
    BY <1>1, <2>4, <2>7 DEF Types
  <2>9. obj' \in [Objects -> ActionType] /\ obj'[o] = a
    BY <1>1, <2>4 DEF Types
  <2>10. Types'
    BY <1>11, <2>4, <2>7, <2>8, <2>9
  <2>11. Deref(winner[d])' = Deref(winner[d])
    BY <1>10, <2>4, <2>7 DEF Return
  <2>12. Deref(o)' = a
    BY <2>7, <2>9 DEF Deref
  <2> QED
    BY <1>1, <1>4, <1>5, <2>4, <2>5, <2>6, <2>7, <2>10, <2>11, <2>12, ReturnStep
<1>13. PICK b \in ActionType : b = CapCount(obj[slot[c]])
  BY <1>5, <1>6, CappedIsAnswer
<1>14. /\ b.direction = obj[slot[c]].direction
       /\ b.direction # Unmoved /\ b.count # n => Answer(b, n)
       /\ b.direction # Unmoved /\ n \notin Min .. Max => b.count # n
  BY <1>5, <1>6, <1>13, CappedIsAnswer
<1>15. ASSUME slot' = slot PROVE slot' \in [Checks -> Objects] /\ \A e \in Checks : slot'[e][1] = e
  BY <1>1, <1>15 DEF Types
<1>16. PICK o \in Objects : o = slot[c]
  BY <1>6
<1>17. CASE CappedAction(d, c)
  <2>1. /\ b.direction # Unmoved /\ b.count # n
        /\ obj' = [obj EXCEPT ![o] = b] /\ slot' = slot
        /\ Return(d, c, o, b)
    BY <1>5, <1>13, <1>16, <1>17 DEF CappedAction
  <2>2. o[1] = c /\ o \in Refs /\ o # Nil /\ o # Fresh
    BY <1>6, <1>16, RefsDiffer DEF Refs
  <2>3. obj' \in [Objects -> ActionType] /\ obj'[o] = b
    BY <1>1, <2>1 DEF Types
  <2>4. Types'
    BY <1>11, <1>15, <2>1, <2>2, <2>3
  <2>5. Deref(winner[d])' = Deref(winner[d])
    BY <1>10, <2>1, <2>2 DEF Return
  <2>6. Deref(o)' = b
    BY <2>2, <2>3 DEF Deref
  <2> QED
    BY <1>1, <1>4, <1>5, <1>14, <2>1, <2>2, <2>4, <2>5, <2>6, ReturnStep
<1>18. CASE NothingToDo(d, c)
  <2>1. Action(Unmoved, 0) \in ActionType
    BY SMT DEF ActionType, Action, Down, Unmoved, Up
  <2>2. PICK a \in ActionType : a = Action(Unmoved, 0)
    BY <2>1
  <2>3. Deref(Fresh) = a /\ Deref(Fresh)' = a
    BY <2>2 DEF Deref
  <2>4. /\ \/ b.direction = Unmoved /\ n \in Min .. Max /\ obj' = obj
           \/ b.direction # Unmoved /\ b.count = n /\ obj' = [obj EXCEPT ![o] = b]
        /\ slot' = slot
        /\ Return(d, c, Fresh, a)
    BY <1>5, <1>13, <1>16, <1>18, <2>3 DEF NothingToDo
  <2>5. n \in Min .. Max
    BY <1>14, <2>4
  <2>6. obj' \in [Objects -> ActionType]
    BY <1>1, <2>4 DEF Types
  <2>7. Fresh \in Refs /\ Fresh # Nil /\ Fresh \notin Objects
    BY RefsDiffer DEF Refs
  <2>8. Types'
    BY <1>11, <1>15, <2>4, <2>6, <2>7
  <2>9. Deref(winner[d])' = Deref(winner[d])
    <3>1. winner' = winner
      BY <2>4 DEF Return
    <3>2. CASE obj' = obj
      BY <3>1, <3>2 DEF Deref
    <3>3. CASE obj' = [obj EXCEPT ![o] = b]
      BY <1>6, <1>10, <1>16, <3>1, <3>3
    <3> QED
      BY <2>4, <3>2, <3>3
  <2>10. Answer(a, n)
    BY <2>2 DEF Answer
  <2> QED
    BY <1>1, <1>4, <1>5, <2>3, <2>4, <2>5, <2>7, <2>8, <2>9, <2>10, ReturnStep
<1> QED
  BY <1>8, <1>12, <1>17, <1>18

\* PreemptScalingAction merges one more answer.
LEMMA MergeStep ==
  ASSUME WorkerInv, NEW d \in Deliveries, dryRun' = dryRun, Merge(d)
  PROVE  WorkerInv'
<1>1. Types /\ DeliveryOK(d)
  BY DEF WorkerInv
<1>2. pc[d] = "merge" /\ pc' = [pc EXCEPT ![d] = "checks"]
  BY DEF Merge, Go
<1>3. UNCHANGED <<dryRun, count, todo, current, slot, obj, voted, chosen, sent, blind>>
  BY DEF Merge
<1>4. winner' = [winner EXCEPT ![d] =
        IF @ = Nil \/ Preempts(Deref(current[d]), Deref(@)) THEN current[d] ELSE @]
  BY DEF Merge
<1>5. Types'
  BY <1>1, <1>2, <1>3, <1>4 DEF Types, Places
<1>6. OnlyDelivery(d)
  BY <1>1, <1>2, <1>3, <1>4 DEF OnlyDelivery, Types
<1>7. AtMerge(d) /\ current[d] \in Refs /\ winner[d] \in Refs
  BY <1>1, <1>2 DEF DeliveryOK, Types
<1>8. PICK c \in Checks \ todo[d] :
        /\ Answered(d, c) /\ voted[<<d, c>>] = Deref(current[d])
        /\ current[d] \in Objects => current[d][1] = c
        /\ ~blind[d] /\ count[d] \notin Min .. Max => Deref(current[d]).direction # Unmoved
        /\ Merged(d, DoneBut(d, c))
  BY <1>7 DEF AtMerge
<1>9. pc'[d] = "checks" /\ Deref(current[d]) \in ActionType /\ Deref(winner[d]) \in ActionType
  BY <1>1, <1>2, <1>7, DerefType DEF Types
<1>10. Answer(Deref(current[d]), count[d])
  BY <1>1, <1>8 DEF DeliveryOK
<1>11. \A b \in Checks : voted[<<d, b>>] \in ActionType
  BY <1>1 DEF Types
<1>12. CASE winner[d] = Nil \/ Preempts(Deref(current[d]), Deref(winner[d]))
  <2>1. winner'[d] = current[d] /\ Deref(winner[d])' = Deref(current[d])
    BY <1>1, <1>3, <1>4, <1>12 DEF Types, Deref
  <2>2. ASSUME NEW b \in Checks \ todo[d], Answered(d, b)
        PROVE  ~Safer(voted[<<d, b>>], Deref(current[d]))
    <3>1. CASE b = c
      BY <1>8, <1>9, <3>1, NotSaferThanItself
    <3>2. CASE b # c
      <4>1. winner[d] # Nil /\ ~Safer(voted[<<d, b>>], Deref(winner[d]))
        BY <1>8, <2>2, <3>2 DEF Merged, DoneBut
      <4> QED
        BY <1>9, <1>11, <1>12, <4>1, NotSaferTransitive
    <3> QED
      BY <3>1, <3>2
  <2>3. ~blind[d] /\ count[d] \notin Min .. Max =>
          \A b \in Checks \ todo[d] : Answered(d, b) /\ voted[<<d, b>>].direction # Unmoved
    BY <1>8 DEF Merged, DoneBut
  <2> QED
    <3>1. Merged(d, Checks \ todo[d])'
      BY <1>3, <1>7, <1>8, <2>1, <2>2, <2>3 DEF Merged, Answered, AtMerge
    <3>2. DeliveryOK(d)'
      BY <1>1, <1>2, <1>3, <1>9, <3>1 DEF DeliveryOK, Undecided, Answered, Chosen
    <3> QED
      BY <1>2, <1>5, <1>6, <3>2, OthersEnded, DeliveryStep DEF Ended
<1>13. CASE winner[d] # Nil /\ ~Preempts(Deref(current[d]), Deref(winner[d]))
  <2>1. winner'[d] = winner[d] /\ Deref(winner[d])' = Deref(winner[d])
    BY <1>1, <1>3, <1>4, <1>13 DEF Types, Deref
  <2>2. Answer(Deref(winner[d]), count[d])
    <3>1. PICK b \in DoneBut(d, c) : Answered(d, b) /\ voted[<<d, b>>] = Deref(winner[d])
      BY <1>8, <1>13 DEF Merged
    <3> QED
      BY <1>1, <3>1 DEF DeliveryOK, DoneBut
  <2>3. ~Safer(voted[<<d, c>>], Deref(winner[d]))
    BY <1>8, <1>9, <1>10, <1>13, <2>2, PreemptsOrNotSafer
  <2>4. Merged(d, Checks \ todo[d])'
    <3>1. winner[d] \in Objects => winner[d][1] \in Checks \ todo[d]
      BY <1>8 DEF Merged, DoneBut
    <3>2. \E b \in Checks \ todo[d] : Answered(d, b) /\ voted[<<d, b>>] = Deref(winner[d])
      BY <1>8, <1>13 DEF Merged, DoneBut
    <3>3. \A b \in Checks \ todo[d] : Answered(d, b) => ~Safer(voted[<<d, b>>], Deref(winner[d]))
      BY <1>8, <2>3 DEF Merged, DoneBut
    <3>4. ~blind[d] /\ count[d] \notin Min .. Max =>
            \A b \in Checks \ todo[d] : Answered(d, b) /\ voted[<<d, b>>].direction # Unmoved
      BY <1>8 DEF Merged, DoneBut
    <3> QED
      BY <1>3, <1>13, <2>1, <3>1, <3>2, <3>3, <3>4 DEF Merged, Answered
  <2>5. DeliveryOK(d)'
    BY <1>1, <1>2, <1>3, <1>9, <2>4 DEF DeliveryOK, Undecided, Answered, Chosen
  <2> QED
    BY <1>2, <1>5, <1>6, <2>5, OthersEnded, DeliveryStep DEF Ended
<1> QED
  BY <1>12, <1>13

\* The winner is chosen, and set to the dry-run count if the policy asks for it.
LEMMA DecideStep ==
  ASSUME WorkerInv, NEW d \in Deliveries, dryRun' = dryRun, Decide(d)
  PROVE  WorkerInv'
<1>1. Types /\ DeliveryOK(d)
  BY DEF WorkerInv
<1>2. pc[d] = "checks" /\ pc' = [pc EXCEPT ![d] = "scale"] /\ todo[d] = {}
  BY DEF Decide, Go
<1>3. UNCHANGED <<dryRun, count, todo, current, winner, slot, voted, sent, blind>>
  BY DEF Decide
<1>4. /\ Deref(winner[d]).direction # Unmoved
      /\ chosen' = [chosen EXCEPT ![d] = Deref(winner[d])]
      /\ obj' = IF dryRun THEN [obj EXCEPT ![winner[d]].count = DryRunCount] ELSE obj
  BY DEF Decide
<1>5. winner[d] \in Objects /\ Deref(winner[d]) = obj[winner[d]] /\ obj[winner[d]] \in ActionType
  <2>1. winner[d] \in Refs /\ winner[d] \notin {Nil, Fresh}
    BY <1>1, <1>4 DEF Types, Deref, Action
  <2> QED
    BY <1>1, <2>1 DEF Types, Refs, Deref
<1>6. /\ pc'[d] = "scale" /\ chosen'[d] = obj[winner[d]]
      /\ obj'[winner[d]] = IF dryRun THEN [obj[winner[d]] EXCEPT !.count = DryRunCount] ELSE obj[winner[d]]
  BY <1>1, <1>2, <1>4, <1>5 DEF Types
<1>7. [obj[winner[d]] EXCEPT !.count = DryRunCount] = Action(obj[winner[d]].direction, DryRunCount)
  BY <1>5, SMT DEF ActionType, Action
<1>8. Action(obj[winner[d]].direction, DryRunCount) \in ActionType
  <2>1. obj[winner[d]].direction \in {Down, Unmoved, Up} /\ DryRunCount \in Int
    BY <1>5, SMT DEF ActionType, DryRunCount
  <2> QED
    BY <2>1 DEF ActionType, Action
<1>9. Types'
  <2>1. obj' \in [Objects -> ActionType]
    BY <1>1, <1>4, <1>5, <1>7, <1>8 DEF Types
  <2> QED
    BY <1>1, <1>2, <1>3, <1>4, <1>5, <2>1 DEF Types, Places
<1>10. OnlyDelivery(d)
  BY <1>1, <1>2, <1>3, <1>4 DEF OnlyDelivery, Types
<1>11. chosen'[d].direction # Unmoved /\ chosen'[d] # NoVote
  BY <1>4, <1>5, <1>6, MovesDiffer DEF NoVote
<1>12. AtScale(d)'
  BY <1>3, <1>5, <1>6, <1>7, <1>11, SMT DEF AtScale, Submitted
<1>13. Merged(d, Checks)
  BY <1>1, <1>2 DEF DeliveryOK
<1>14. Chosen(d)'
  <2>1. winner[d] # Nil
    BY <1>5, RefsDiffer
  <2> QED
    BY <1>3, <1>5, <1>6, <1>11, <1>13, <2>1 DEF Merged, Chosen, Answered
<1>15. DeliveryOK(d)'
  BY <1>1, <1>2, <1>3, <1>6, <1>12, <1>14 DEF DeliveryOK, Undecided, Answered
<1> QED
  BY <1>2, <1>9, <1>10, <1>15, OthersEnded, DeliveryStep DEF Ended

\* All checks agree that there is nothing to do.
LEMMA NoActionStep ==
  ASSUME WorkerInv, NEW d \in Deliveries, dryRun' = dryRun, NoAction(d)
  PROVE  WorkerInv'
<1>1. Types /\ DeliveryOK(d)
  BY DEF WorkerInv
<1>2. /\ pc[d] = "checks" /\ pc' = [pc EXCEPT ![d] = "ack"]
      /\ todo[d] = {} /\ Deref(winner[d]).direction = Unmoved
  BY DEF NoAction, Go
<1>3. UNCHANGED <<dryRun, count, todo, current, winner, slot, obj, voted, chosen, sent, blind>>
  BY DEF NoAction
<1>4. Types'
  BY <1>1, <1>2, <1>3 DEF Types, Places
<1>5. OnlyDelivery(d)
  BY <1>1, <1>2, <1>3 DEF OnlyDelivery, Types
<1>6. pc'[d] = "ack"
  BY <1>1, <1>2 DEF Types
<1>7. Merged(d, Checks)
  BY <1>1, <1>2 DEF DeliveryOK
<1>8. ~blind[d] /\ count[d] \notin Min .. Max => Checks = {}
  BY <1>2, <1>7 DEF Merged
<1>9. DeliveryOK(d)'
  BY <1>1, <1>2, <1>3, <1>6, <1>8 DEF DeliveryOK, Undecided, Answered, Chosen
<1> QED
  BY <1>2, <1>4, <1>5, <1>9, OthersEnded, DeliveryStep DEF Ended

\* The winner is submitted.
LEMMA ScaleStep ==
  ASSUME WorkerInv, NEW d \in Deliveries, dryRun' = dryRun, Scale(d)
  PROVE  WorkerInv'
<1>1. Types /\ DeliveryOK(d)
  BY DEF WorkerInv
<1>2. PICK to \in {"ack", "nack"} : pc[d] = "scale" /\ pc' = [pc EXCEPT ![d] = to]
  BY DEF Scale, Go
<1>3. UNCHANGED <<dryRun, count, todo, current, winner, slot, obj, voted, chosen, blind>>
  BY DEF Scale
<1>4. sent' = [sent EXCEPT ![d] = obj[winner[d]]]
  BY DEF Scale
<1>5. AtScale(d)
  BY <1>1, <1>2 DEF DeliveryOK
<1>6. Types'
  BY <1>1, <1>2, <1>3, <1>4, <1>5 DEF Types, Places, AtScale
<1>7. OnlyDelivery(d)
  BY <1>1, <1>2, <1>3, <1>4 DEF OnlyDelivery, Types
<1>8. pc'[d] = to /\ sent'[d] = Submitted(chosen[d])
  BY <1>1, <1>2, <1>4, <1>5 DEF Types, AtScale
<1>9. sent'[d] # NoVote
  <2>1. chosen[d].direction # Unmoved
    BY <1>1, <1>5 DEF DeliveryOK, AtScale, Chosen
  <2> QED
    <3>1. Submitted(chosen[d]).direction = chosen[d].direction
      BY DEF Submitted, Action
    <3> QED
      BY <1>8, <2>1, <3>1, MovesDiffer DEF NoVote
<1>10. chosen'[d] # NoVote /\ Chosen(d)' /\ sent'[d] = Submitted(chosen[d])'
  <2>1. chosen[d] # NoVote /\ Chosen(d)
    BY <1>1, <1>5 DEF DeliveryOK, AtScale
  <2>2. Chosen(d)'
    BY <1>3, <2>1 DEF Chosen, Answered
  <2>3. Submitted(chosen[d])' = Submitted(chosen[d])
    BY <1>3, SMT DEF Submitted
  <2>4. chosen'[d] # NoVote
    BY <1>3, <2>1 DEF NoVote
  <2> QED
    BY <1>8, <2>2, <2>3, <2>4
<1>11. \A c \in Checks : Answered(d, c)' => Answer(voted[<<d, c>>], count[d])'
  BY <1>1, <1>3 DEF DeliveryOK, Answered
<1>12. DeliveryOK(d)'
  BY <1>8, <1>9, <1>10, <1>11 DEF DeliveryOK, Undecided
<1> QED
  BY <1>2, <1>6, <1>7, <1>12, OthersEnded, DeliveryStep DEF Ended

\* The context is done.
LEMMA CancelledStep ==
  ASSUME WorkerInv, NEW d \in Deliveries, dryRun' = dryRun, Cancelled(d)
  PROVE  WorkerInv'
<1>1. Types /\ DeliveryOK(d)
  BY DEF WorkerInv
<1>2. pc[d] \in {"checks", "limits", "scale"} /\ pc' = [pc EXCEPT ![d] = "cancelled"]
  BY DEF Cancelled, Go
<1>3. UNCHANGED <<dryRun, count, todo, current, winner, slot, obj, voted, chosen, sent, blind>>
  BY DEF Cancelled
<1>4. Types'
  BY <1>1, <1>2, <1>3 DEF Types, Places
<1>5. OnlyDelivery(d)
  BY <1>1, <1>2, <1>3 DEF OnlyDelivery, Types
<1>6. pc'[d] = "cancelled"
  BY <1>1, <1>2 DEF Types
<1>7. DeliveryOK(d)'
  BY <1>1, <1>2, <1>3, <1>6 DEF DeliveryOK, Undecided, Answered, Chosen, Submitted
<1> QED
  BY <1>2, <1>4, <1>5, <1>7, OthersEnded, DeliveryStep DEF Ended

LEMMA WorkerInvNext == ASSUME ~Overlap PROVE WorkerInv /\ [Next]_vars => WorkerInv'
<1> SUFFICES ASSUME WorkerInv, [Next]_vars PROVE WorkerInv'
  OBVIOUS
<1>1. CASE UNCHANGED vars
  <2>1. UNCHANGED <<dryRun, pc, count, todo, current, winner, slot, obj, voted, chosen, sent, blind>>
    BY <1>1 DEF vars
  <2>2. Types' /\ OneAtATime'
    BY <2>1 DEF WorkerInv, Types, OneAtATime
  <2>3. ASSUME NEW d \in Deliveries PROVE DeliveryOK(d)'
    <3>1. DeliveryOK(d)
      BY DEF WorkerInv
    <3>2. pc[d] = "checks" => Merged(d, Checks \ todo[d])'
      BY <2>1, <3>1 DEF DeliveryOK, Merged, Answered, Deref
    <3>3. AtLimits(d) => AtLimits(d)'
      BY <2>1 DEF AtLimits, Computed, DoneBut, Merged, Answered, Deref
    <3>4. AtMerge(d) => AtMerge(d)'
      <4>1. \A c \in Checks : Merged(d, DoneBut(d, c)) => Merged(d, DoneBut(d, c))'
        BY <2>1 DEF DoneBut, Merged, Answered, Deref
      <4>2. Deref(current[d])' = Deref(current[d])
        BY <2>1 DEF Deref
      <4> QED
        BY <2>1, <4>1, <4>2 DEF AtMerge, Answered
    <3>5. AtScale(d) => AtScale(d)'
      BY <2>1 DEF AtScale, Submitted
    <3>6. Chosen(d) => Chosen(d)'
      BY <2>1 DEF Chosen, Answered
    <3> QED
      BY <2>1, <3>1, <3>2, <3>3, <3>4, <3>5, <3>6 DEF DeliveryOK, Answered, Answer, Undecided, Submitted
  <2> QED
    BY <2>2, <2>3 DEF WorkerInv
<1>2. ASSUME NEW d \in Deliveries, dryRun' = dryRun, Deliver(d) PROVE WorkerInv'
  BY <1>2, StatusSteps, CheckFailsStep, NoMetricsStep, RunCheckStep, LimitsStep, MergeStep,
     DecideStep, NoActionStep, ScaleStep, CancelledStep DEF Deliver
<1> QED
  BY <1>1, <1>2 DEF Next

-----------------------------------------------------------------------------
(* What follows                                                            *)

LEMMA WorkerInvAlways == ASSUME ~Overlap PROVE Spec => []WorkerInv
  BY WorkerInvInit, WorkerInvNext, PTL DEF Spec

\* CapCount and SetDryRun: when deliveries do not overlap and metrics are not
\* negative, the target is only ever told to scale within the limits of the
\* policy, whatever earlier deliveries left in the actions of the evaluation.
THEOREM WithinLimits ==
  ASSUME ~Overlap, MetricsNotNegative
  PROVE  Spec => []SubmittedWithinLimits
<1>1. WorkerInv => SubmittedWithinLimits
  <2> SUFFICES ASSUME WorkerInv, NEW d \in Deliveries, sent[d] # NoVote
               PROVE  IF dryRun THEN sent[d].count = DryRunCount ELSE sent[d].count \in Min .. Max
    BY DEF SubmittedWithinLimits
  <2>1. DeliveryOK(d)
    BY DEF WorkerInv
  <2>2. Chosen(d) /\ sent[d] = Submitted(chosen[d]) /\ chosen[d] # NoVote
    BY <2>1 DEF DeliveryOK
  <2>3. PICK c \in Checks : voted[<<d, c>>] = chosen[d]
    BY <2>2 DEF Chosen
  <2>4. Answer(chosen[d], count[d])
    BY <2>1, <2>2, <2>3 DEF DeliveryOK, Answered
  <2>5. chosen[d] # Action(Unmoved, 0)
    <3>1. chosen[d].direction # Unmoved
      BY <2>2 DEF Chosen
    <3> QED
      BY <3>1, MovesDiffer
  <2>6. chosen[d].count \in Min .. Max
    BY <2>4, <2>5 DEF Answer
  <2> QED
    BY <2>2, <2>6, SMT DEF Submitted, Action
<1> QED
  BY <1>1, WorkerInvAlways, PTL

\* PreemptScalingAction: the action that wins was asked for by a check, and no
\* check asked for a safer one, in whatever order they ran.
THEOREM SafestWins ==
  ASSUME ~Overlap
  PROVE  Spec => []WinnerIsSafest
<1>1. WorkerInv => WinnerIsSafest
  BY DEF WorkerInv, DeliveryOK, Chosen, Answered, WinnerIsSafest
<1> QED
  BY <1>1, WorkerInvAlways, PTL

\* start of a check: a count outside the limits is corrected by every evaluation
\* whose checks all had metrics.
THEOREM LimitsEnforced ==
  ASSUME ~Overlap
  PROVE  Spec => []OutsideLimitsCorrected
<1>1. WorkerInv => OutsideLimitsCorrected
  BY DEF WorkerInv, DeliveryOK, OutsideLimitsCorrected
<1> QED
  BY <1>1, WorkerInvAlways, PTL

\* calculateDirection and CapCount: an action moves the count in its direction
\* when the current count is within the limits and nothing overflows; for
\* negative metrics too.
THEOREM DirectionKept ==
  ASSUME ~Overlap
  PROVE  Spec => []DirectionAgrees
<1>1. WorkerInv => DirectionAgrees
  <2> SUFFICES ASSUME WorkerInv, NEW d \in Deliveries, sent[d] # NoVote, ~dryRun,
                      count[d] \in Min .. Max, Fits(count[d])
               PROVE  Away(sent[d], count[d])
    BY DEF DirectionAgrees, Away
  <2>1. DeliveryOK(d)
    BY DEF WorkerInv
  <2>2. Chosen(d) /\ sent[d] = chosen[d] /\ chosen[d] # NoVote
    BY <2>1 DEF DeliveryOK, Submitted
  <2>3. PICK c \in Checks : voted[<<d, c>>] = chosen[d]
    BY <2>2 DEF Chosen
  <2>4. Answer(chosen[d], count[d])
    BY <2>1, <2>2, <2>3 DEF DeliveryOK, Answered
  <2>5. chosen[d] # Action(Unmoved, 0)
    <3>1. chosen[d].direction # Unmoved
      BY <2>2 DEF Chosen
    <3> QED
      BY <3>1, MovesDiffer
  <2> QED
    BY <2>2, <2>4, <2>5 DEF Answer
<1> QED
  BY <1>1, WorkerInvAlways, PTL

=============================================================================
