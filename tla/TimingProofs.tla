------------------------------ MODULE TimingProofs ------------------------------
(***************************************************************************)
(* Proofs about Timing, for any contexts, any width of a tick and any       *)
(* bounds.                                                                  *)
(***************************************************************************)
EXTENDS Timing, FiniteSetTheorems, TLAPS

-------------------------------------------------------------------------------
(* Lemmas about words                                                       *)

LEMMA ModCases ==
    ASSUME NEW n \in Nat \ {0}, NEW a \in Int, a >= 0 - n, a < 2 * n
    PROVE  a % n = IF a < 0 THEN a + n ELSE IF a < n THEN a ELSE a - n
<1>1. CASE a < 0
  BY <1>1
<1>2. CASE a >= 0 /\ a < n
  BY <1>2
<1>3. CASE a >= n
  BY <1>3
<1> QED
  BY <1>1, <1>2, <1>3

LEMMA HalfPositive ==
    ASSUME TimingAssumption
    PROVE  Half \in Nat /\ Half > 0 /\ 2 * Half \in Nat \ {0}
  BY DEF TimingAssumption

(* A difference is the one of all those modulo the range that is short.     *)
LEMMA MinusIs ==
    ASSUME TimingAssumption, NEW a \in Word, NEW b \in Word
    PROVE  /\ Minus(a, b) \in Int
           /\ 0 - Half <= Minus(a, b) /\ Minus(a, b) < Half
           /\ \/ a - b = Minus(a, b)
              \/ a - b = Minus(a, b) + 2 * Half
              \/ a - b = Minus(a, b) - 2 * Half
<1>1. Half \in Nat /\ Half > 0 /\ 2 * Half \in Nat \ {0}
  BY HalfPositive
<1>2. /\ a \in Int /\ b \in Int
      /\ 0 <= a /\ a < 2 * Half /\ 0 <= b /\ b < 2 * Half
  BY <1>1 DEF Word
<1> DEFINE n == 2 * Half
           d == (a - b) % n
<1>3. d = IF a - b < 0 THEN a - b + n ELSE IF a - b < n THEN a - b ELSE a - b - n
  <2>1. a - b \in Int /\ a - b >= 0 - n /\ a - b < 2 * n
    BY <1>1, <1>2
  <2> HIDE DEF n
  <2> QED
    BY <2>1, <1>1, ModCases DEF n
<1>4. Minus(a, b) = IF d >= Half THEN d - 2 * Half ELSE d
  BY DEF Minus
<1> HIDE DEF d
<1> QED
  BY <1>1, <1>2, <1>3, <1>4

LEMMA MinusUnique ==
    ASSUME TimingAssumption, NEW a \in Word, NEW b \in Word,
           NEW k \in Int, 0 - Half <= k, k < Half,
           \/ a - b = k
           \/ a - b = k + 2 * Half
           \/ a - b = k - 2 * Half
    PROVE  Minus(a, b) = k
<1>1. Half \in Nat /\ Half > 0
  BY HalfPositive
<1>2. a \in Int /\ b \in Int
  BY <1>1 DEF Word
<1> QED
  BY <1>1, <1>2, MinusIs

LEMMA PlusIs ==
    ASSUME TimingAssumption, NEW a \in Word, NEW d \in Int, 0 <= d, d <= Half
    PROVE  /\ Plus(a, d) \in Word
           /\ \/ Plus(a, d) - a = d
              \/ Plus(a, d) - a = d - 2 * Half
<1>1. Half \in Nat /\ Half > 0 /\ 2 * Half \in Nat \ {0}
  BY HalfPositive
<1>2. a \in Int /\ 0 <= a /\ a < 2 * Half
  BY <1>1 DEF Word
<1> DEFINE n == 2 * Half
<1>3. (a + d) % n = IF a + d < 0 THEN a + d + n ELSE IF a + d < n THEN a + d ELSE a + d - n
  <2> DEFINE s == a + d
  <2>1. s \in Int /\ s >= 0 - n /\ s < 2 * n /\ n \in Nat \ {0}
    BY <1>1, <1>2
  <2> HIDE DEF n, s
  <2>2. s % n = IF s < 0 THEN s + n ELSE IF s < n THEN s ELSE s - n
    BY <2>1, ModCases
  <2> QED
    BY <2>1, <2>2, <1>2 DEF s
<1>4. Plus(a, d) = IF a + d < 2 * Half THEN a + d ELSE a + d - 2 * Half
  BY <1>1, <1>2, <1>3 DEF Plus
<1> QED
  BY <1>1, <1>2, <1>4 DEF Word

LEMMA MinusSelf ==
    ASSUME TimingAssumption, NEW a \in Word
    PROVE  Minus(a, a) = 0
<1>1. Half \in Nat /\ Half > 0
  BY HalfPositive
<1>2. a \in Int
  BY <1>1 DEF Word
<1> QED
  BY <1>1, <1>2, MinusUnique

(* Adding a wait to a time puts it as far ahead as the wait is long. *)
LEMMA MinusPlus ==
    ASSUME TimingAssumption, NEW a \in Word, NEW d \in Int, 0 <= d, d < Half
    PROVE  Plus(a, d) \in Word /\ Minus(Plus(a, d), a) = d
<1>1. Half \in Nat /\ Half > 0
  BY HalfPositive
<1>2. /\ Plus(a, d) \in Word
      /\ Plus(a, d) - a = d \/ Plus(a, d) - a = d - 2 * Half
  BY <1>1, PlusIs
<1> QED
  BY <1>1, <1>2, MinusUnique

(* Two times seen from a third: their difference is that of the distances,  *)
(* when that is not too long for a word.                                    *)
LEMMA MinusFrom ==
    ASSUME TimingAssumption, NEW a \in Word, NEW b \in Word, NEW c \in Word,
           0 - Half <= Minus(a, c) - Minus(b, c), Minus(a, c) - Minus(b, c) < Half
    PROVE  Minus(a, b) = Minus(a, c) - Minus(b, c)
<1>1. Half \in Nat /\ Half > 0
  BY HalfPositive
<1>2. a \in Int /\ b \in Int /\ c \in Int
  BY <1>1 DEF Word
<1>3. 0 <= a /\ a < 2 * Half /\ 0 <= b /\ b < 2 * Half
  BY <1>1 DEF Word
<1>4. /\ Minus(a, c) \in Int
      /\ \/ a - c = Minus(a, c)
         \/ a - c = Minus(a, c) + 2 * Half
         \/ a - c = Minus(a, c) - 2 * Half
  BY MinusIs
<1>5. /\ Minus(b, c) \in Int
      /\ \/ b - c = Minus(b, c)
         \/ b - c = Minus(b, c) + 2 * Half
         \/ b - c = Minus(b, c) - 2 * Half
  BY MinusIs
<1> DEFINE k == Minus(a, c) - Minus(b, c)
<1>6. k \in Int /\ 0 - Half <= k /\ k < Half
  BY <1>4, <1>5
<1>7. \/ a - b = k
      \/ a - b = k + 2 * Half
      \/ a - b = k - 2 * Half
  BY <1>1, <1>2, <1>3, <1>4, <1>5, <1>6
<1> HIDE DEF k
<1>8. Minus(a, b) = k
  BY <1>6, <1>7, MinusUnique
<1> QED
  BY <1>8 DEF k

(* As time passes every time is one tick nearer, but the farthest behind.   *)
LEMMA MinusNext ==
    ASSUME TimingAssumption, Half > 1, NEW a \in Word, NEW b \in Word,
           Minus(a, b) > 0 - Half
    PROVE  Minus(a, Plus(b, 1)) = Minus(a, b) - 1
<1>1. Half \in Nat /\ Half > 0
  BY HalfPositive
<1>2. a \in Int /\ b \in Int /\ 0 <= a /\ a < 2 * Half
  BY <1>1 DEF Word
<1>3. /\ Plus(b, 1) \in Word
      /\ Plus(b, 1) - b = 1 \/ Plus(b, 1) - b = 1 - 2 * Half
  BY <1>1, PlusIs
<1>4. Plus(b, 1) \in Int /\ 0 <= Plus(b, 1) /\ Plus(b, 1) < 2 * Half
  BY <1>3, <1>1 DEF Word
<1>5. /\ Minus(a, b) \in Int /\ Minus(a, b) < Half
      /\ \/ a - b = Minus(a, b)
         \/ a - b = Minus(a, b) + 2 * Half
         \/ a - b = Minus(a, b) - 2 * Half
  BY MinusIs
<1> DEFINE k == Minus(a, b) - 1
<1>6. k \in Int /\ 0 - Half <= k /\ k < Half
  BY <1>1, <1>5
<1>7. \/ a - Plus(b, 1) = k
      \/ a - Plus(b, 1) = k + 2 * Half
      \/ a - Plus(b, 1) = k - 2 * Half
  BY <1>1, <1>2, <1>3, <1>4, <1>5, <1>6
<1> HIDE DEF k
<1>8. Minus(a, Plus(b, 1)) = k
  BY <1>3, <1>6, <1>7, MinusUnique
<1> QED
  BY <1>8 DEF k

-------------------------------------------------------------------------------
(* Types                                                                    *)

LEMMA NotifyType ==
    ASSUME TypeOK, TimingAssumption, NEW t \in Word, Notify(t)
    PROVE  alarm' \in Alarms /\ fault' \in SUBSET {"after", "annulled"}
<1> DEFINE ticks == IF Minus(t, tick) <= 0 THEN 1 ELSE Minus(t, tick)
<1>1. tick \in Word
  BY DEF TypeOK
<1>2. Half \in Nat /\ Half > 0
  BY HalfPositive
<1>3. ticks \in Int /\ 0 <= ticks /\ ticks <= Half
  BY <1>1, <1>2, MinusIs
<1>4. /\ fault' = IF ticks < MaxAfter THEN fault ELSE fault \cup {"after"}
      /\ alarm' = [active |-> TRUE, at |-> Plus(tick, ticks), iTimerNext |-> t]
  BY DEF Notify
<1> HIDE DEF ticks
<1>5. Plus(tick, ticks) \in Word
  BY <1>1, <1>3, PlusIs
<1> QED
  BY <1>4, <1>5 DEF Alarms, TypeOK

LEMMA DueTimeType ==
    ASSUME TypeOK, TimingAssumption, NEW d \in Delays
    PROVE  DueTime(d) \in Word
<1>1. Half \in Nat /\ Half > 0
  BY HalfPositive
<1>2. d \in Int /\ 0 <= d /\ d <= Half
  BY <1>1 DEF TimingAssumption
<1>3. Plus(tick, d) \in Word
  BY <1>2, PlusIs DEF TypeOK
<1>4. Plus(now, 1) \in Word
  BY <1>1, PlusIs DEF TypeOK
<1> QED
  BY <1>3, <1>4 DEF DueTime

LEMMA TypeInit ==
    ASSUME TimingAssumption, Init
    PROVE  TypeOK
<1>1. 0 \in Word
  BY HalfPositive DEF Word
<1> QED
  BY <1>1 DEF Init, TypeOK, Alarms

LEMMA TypeStep ==
    ASSUME TimingAssumption, TypeOK, [Next]_vars
    PROVE  TypeOK'
<1>1. ASSUME NEW c \in Ctx, Expire(c) PROVE TypeOK'
  BY <1>1 DEF Expire, TypeOK
<1>2. ASSUME NEW c \in Ctx, NEW d \in Delays, Schedule(c, d) PROVE TypeOK'
  <2> DEFINE t == [ctx |-> c, when |-> DueTime(d)]
  <2>1. t \in Timers /\ t.when \in Word
    BY DueTimeType DEF Timers
  <2>2. timers' = timers \cup {t} /\ owed' = owed \cup {t}
    BY <1>2 DEF Schedule
  <2>3. timers' \in SUBSET Timers /\ owed' \in SUBSET Timers
    BY <2>1, <2>2 DEF TypeOK
  <2>4. UNCHANGED <<contexts, alarm, fault>> \/ contexts' = contexts \cup {c}
    BY <1>2 DEF Schedule
  <2>5. UNCHANGED <<alarm, fault>> \/ Notify(t.when)
    BY <1>2 DEF Schedule
  <2> HIDE DEF t
  <2>6. alarm' \in Alarms /\ fault' \in SUBSET {"after", "annulled"}
    BY <2>1, <2>5, NotifyType DEF TypeOK
  <2> QED
    BY <1>2, <2>3, <2>4, <2>6 DEF Schedule, TypeOK
<1>3. CASE Wake
  <2>1. alarm.iTimerNext \in Word /\ [alarm EXCEPT !.active = FALSE] \in Alarms
    BY DEF TypeOK, Alarms
  <2> QED
    BY <1>3, <2>1 DEF Wake, TypeOK
<1>4. CASE DropFirst
  BY <1>4 DEF DropFirst, TypeOK
<1>5. CASE RunFirst
  BY <1>5 DEF RunFirst, TypeOK
<1>6. CASE Return
  BY <1>6 DEF Return, TypeOK
<1>7. CASE Finish
  <2>1. (alarm' = alarm /\ fault' = fault) \/ \E t \in timers : Notify(t.when)
    BY <1>7 DEF Finish
  <2>2. \A t \in timers : t.when \in Word
    BY DEF TypeOK, Timers
  <2>3. alarm' \in Alarms /\ fault' \in SUBSET {"after", "annulled"}
    BY <2>1, <2>2, NotifyType DEF TypeOK
  <2> QED
    BY <1>7, <2>3 DEF Finish, TypeOK
<1>8. CASE Tick
  <2>1. Plus(tick, 1) \in Word
    BY HalfPositive, PlusIs DEF TypeOK
  <2> QED
    BY <1>8, <2>1 DEF Tick, TypeOK
<1>9. CASE UNCHANGED vars
  BY <1>9 DEF vars, TypeOK
<1> QED
  BY <1>1, <1>2, <1>3, <1>4, <1>5, <1>6, <1>7, <1>8, <1>9 DEF Next, RunTimers

(* Ticks stay words, and the tree, the contexts and the one-shot timer are  *)
(* made of contexts and words.                                              *)
THEOREM TimingTypeCorrect == Spec => []TypeOK
<1>1. Init => TypeOK
  BY TypeInit, TimingAssumption
<1>2. TypeOK /\ [Next]_vars => TypeOK'
  BY TypeStep, TimingAssumption
<1> QED
  BY <1>1, <1>2, PTL DEF Spec

-------------------------------------------------------------------------------
(* No timer is lost or revived                                              *)

(* A context is entered when a timer is scheduled, and left when it is      *)
(* expired; it is never entered again, so that what is in the tree is       *)
(* either owed, or of an expired context.                                   *)
Bookkeeping ==
    /\ contexts \cap expired = {}
    /\ \A t \in timers : t.ctx \in contexts \cup expired
    /\ \A t \in owed : t \in timers /\ t.ctx \in contexts
    /\ \A t \in timers : t.ctx \in contexts => t \in owed
    /\ AnnulledNeverRuns

LEMMA BookkeepingInit ==
    ASSUME Init
    PROVE  Bookkeeping
  BY DEF Init, Bookkeeping, AnnulledNeverRuns

LEMMA BookkeepingStep ==
    ASSUME TimingAssumption, CanReuse = FALSE, TypeOK, Bookkeeping, [Next]_vars
    PROVE  Bookkeeping'
<1>1. ASSUME NEW c \in Ctx, Expire(c) PROVE Bookkeeping'
  BY <1>1 DEF Expire, Bookkeeping, AnnulledNeverRuns
<1>2. ASSUME NEW c \in Ctx, NEW d \in Delays, Schedule(c, d) PROVE Bookkeeping'
  <2> DEFINE t == [ctx |-> c, when |-> DueTime(d)]
  <2>1. t.ctx = c /\ c \notin expired
    BY <1>2 DEF Schedule
  <2>2. timers' = timers \cup {t} /\ owed' = owed \cup {t} /\ expired' = expired
    BY <1>2 DEF Schedule
  <2>3. \/ t \in timers /\ contexts' = contexts
        \/ contexts' = contexts \cup {c}
    BY <1>2 DEF Schedule
  <2>4. "annulled" \notin fault'
    BY <1>2 DEF Schedule, Notify, Bookkeeping, AnnulledNeverRuns
  <2> HIDE DEF t
  <2>5. c \in contexts'
    BY <2>1, <2>3 DEF Bookkeeping
  <2> QED
    BY <2>1, <2>2, <2>3, <2>4, <2>5 DEF Bookkeeping, AnnulledNeverRuns
<1>3. CASE Wake
  BY <1>3 DEF Wake, Bookkeeping, AnnulledNeverRuns
<1>4. CASE DropFirst
  <2>1. PICK t \in timers : t.ctx \notin contexts /\ timers' = timers \ {t}
    BY <1>4 DEF DropFirst
  <2> QED
    BY <1>4, <2>1 DEF DropFirst, Bookkeeping, AnnulledNeverRuns
<1>5. CASE RunFirst
  <2>1. PICK t \in timers :
            /\ t.ctx \in contexts
            /\ timers' = timers \ {t}
            /\ owed' = owed \ {t}
            /\ fault' = IF t \in owed THEN {} ELSE {"annulled"}
    BY <1>5 DEF RunFirst
  <2>2. t \in owed
    BY <2>1 DEF Bookkeeping
  <2> QED
    BY <1>5, <2>1, <2>2 DEF RunFirst, Bookkeeping, AnnulledNeverRuns
<1>6. CASE Return
  BY <1>6 DEF Return, Bookkeeping, AnnulledNeverRuns
<1>7. CASE Finish
  <2>1. "annulled" \notin fault'
    BY <1>7 DEF Finish, Notify, Bookkeeping, AnnulledNeverRuns
  <2> QED
    BY <1>7, <2>1 DEF Finish, Bookkeeping, AnnulledNeverRuns
<1>8. CASE Tick
  BY <1>8 DEF Tick, Bookkeeping, AnnulledNeverRuns
<1>9. CASE UNCHANGED vars
  BY <1>9 DEF vars, Bookkeeping, AnnulledNeverRuns
<1> QED
  BY <1>1, <1>2, <1>3, <1>4, <1>5, <1>6, <1>7, <1>8, <1>9 DEF Next, RunTimers

LEMMA BookkeepingInvariant == CanReuse = FALSE /\ Spec => []Bookkeeping
<1>1. Init => TypeOK /\ Bookkeeping
  BY TypeInit, BookkeepingInit, TimingAssumption
<1>2. CanReuse = FALSE /\ TypeOK /\ Bookkeeping /\ [Next]_vars => TypeOK' /\ Bookkeeping'
  BY TypeStep, BookkeepingStep, TimingAssumption
<1>3. (CanReuse = FALSE) => [](CanReuse = FALSE)
  OBVIOUS
<1> QED
  BY <1>1, <1>2, <1>3, PTL DEF Spec

(* However schedule_timer(), expire_timer_context() and run_timers() are    *)
(* mixed, from outside or from callbacks: a timer whose context is not      *)
(* expired stays in the tree with its context entered until it is run.      *)
THEOREM NoTimerIsLostCorrect == CanReuse = FALSE /\ Spec => []NoTimerIsLost
<1>1. Bookkeeping => NoTimerIsLost
  BY DEF Bookkeeping, NoTimerIsLost
<1> QED
  BY <1>1, BookkeepingInvariant, PTL

(* Nor is one run whose context was expired after it was scheduled, as long *)
(* as the address of the context is not used again.                         *)
THEOREM AnnulledCorrect == CanReuse = FALSE /\ Spec => []AnnulledNeverRuns
<1>1. Bookkeeping => AnnulledNeverRuns
  BY DEF Bookkeeping
<1> QED
  BY <1>1, BookkeepingInvariant, PTL

-------------------------------------------------------------------------------
(* Ticks are compared the right way                                         *)

(* How far a tick is ahead of the present one. *)
R(x) == Minus(x, tick)

(* What one turn of the one-shot timer can cost, and a full tree of them.   *)
Turn == MaxLate + 1
Backlog == MaxTimers * Turn

(* Waits are shorter than what COneShotTimer can do, and half the range of  *)
(* a tick count has room for the sum of everything that can be late.        *)
RoomEnough ==
    /\ \A d \in Delays : d < MaxAfter
    /\ MaxEarly + 1 < MaxAfter
    /\ Backlog + MaxIdle + 3 * MaxAfter + 2 * MaxLate <= Half

(* The timers of the tree ts that are not after u, seen from tick tk: each  *)
(* takes a turn from the delay that u may meet.                             *)
Before(u, ts, tk) == {v \in ts : Minus(v.when, tk) <= Minus(u.when, tk)}
Left(u, ts, tk) == (MaxTimers - Cardinality(Before(u, ts, tk))) * Turn

(* From an idle moment to the next wake: the one-shot timer is set for the  *)
(* first timer, and timers are behind by no more than it is late.           *)
WhileIdle ==
    /\ timers # {} =>
          /\ alarm.active
          /\ \E t \in timers : t.when = alarm.iTimerNext
          /\ \A t \in timers : R(alarm.iTimerNext) <= R(t.when)
    /\ \A t \in timers : Minus(t.when, now) > 0
    /\ alarm.active =>
          /\ R(alarm.at) >= -MaxLate
          /\ \A u \in timers : 0 - R(u.when) <= Left(u, timers, tick) + 1 - R(alarm.at)
          /\ timers = {} => R(alarm.at) - R(now) <= Backlog + MaxIdle + MaxAfter - 1
          /\ timers # {} =>
                /\ R(alarm.iTimerNext) - R(now) <= Backlog + MaxIdle + 2 * MaxAfter + MaxLate - 2
                /\ R(alarm.at) - R(now) <= Backlog + MaxIdle + 2 * MaxAfter + MaxLate - 1
    /\ ~alarm.active => R(now) >= 0 - (Backlog + MaxIdle)

(* A timer that is run or dropped makes good for the turn that was spent.   *)
WhileRunning ==
    /\ R(now) >= 0 - Backlog
    /\ alarm.active => R(alarm.at) >= 1
    /\ \/ \A u \in timers : 0 - R(u.when) <= Left(u, timers, tick)
       \/ /\ pc = "loop"
          /\ \E t \in timers : R(t.when) <= R(now)
          /\ \A u \in timers : 0 - R(u.when) <= Left(u, timers, tick) + Turn

Timely ==
    /\ IsFiniteSet(timers) /\ Cardinality(timers) <= MaxTimers
    /\ \A u \in timers : R(u.when) < MaxAfter
    /\ R(now) <= MaxEarly
    /\ alarm.active =>
          /\ R(alarm.at) < MaxAfter
          /\ R(alarm.iTimerNext) <= R(alarm.at)
          /\ R(alarm.at) = R(alarm.iTimerNext) \/ R(alarm.at) <= 1
          /\ 0 - R(alarm.iTimerNext) <= Backlog - Turn + 1 - R(alarm.at)
    /\ IF pc = "idle" THEN WhileIdle ELSE WhileRunning
    /\ "after" \notin fault

-------------------------------------------------------------------------------
(* Lemmas about the lag of a timer                                          *)

LEMMA Constants ==
    ASSUME TimingAssumption, RoomEnough
    PROVE  /\ Half \in Nat /\ Half > 1
           /\ MaxAfter \in Nat /\ MaxAfter > 1
           /\ MaxEarly \in Nat /\ MaxEarly + 1 < MaxAfter
           /\ MaxLate \in Nat /\ MaxIdle \in Nat /\ MaxTimers \in Nat
           /\ Turn \in Nat /\ Turn = MaxLate + 1 /\ Backlog \in Nat
           /\ MaxTimers > 0 => Backlog >= Turn
           /\ Backlog + MaxIdle + 3 * MaxAfter + 2 * MaxLate <= Half
<1>1. /\ Half \in Nat /\ MaxAfter \in Nat /\ MaxEarly \in Nat
      /\ MaxLate \in Nat /\ MaxIdle \in Nat /\ MaxTimers \in Nat
  BY DEF TimingAssumption
<1>2. Turn \in Nat /\ Turn = MaxLate + 1
  BY <1>1 DEF Turn
<1>3. Backlog \in Nat /\ (MaxTimers > 0 => Backlog >= Turn)
  <2> HIDE DEF Turn
  <2> QED
    BY <1>1, <1>2 DEF Backlog
<1>4. /\ MaxEarly + 1 < MaxAfter
      /\ Backlog + MaxIdle + 3 * MaxAfter + 2 * MaxLate <= Half
  BY DEF RoomEnough
<1> HIDE DEF Turn, Backlog
<1> QED
  BY <1>1, <1>2, <1>3, <1>4

LEMMA LeftBounds ==
    ASSUME TimingAssumption, RoomEnough,
           NEW ts, IsFiniteSet(ts), Cardinality(ts) <= MaxTimers,
           NEW u \in ts, u.when \in Word, NEW tk \in Word
    PROVE  /\ MaxTimers > 0
           /\ Left(u, ts, tk) \in Int
           /\ 0 <= Left(u, ts, tk)
           /\ Left(u, ts, tk) <= Backlog - Turn
<1> DEFINE b == Before(u, ts, tk)
<1>1. b \subseteq ts /\ u \in b
  BY MinusIs DEF Before
<1>2. IsFiniteSet(b) /\ Cardinality(b) <= Cardinality(ts)
  BY <1>1, FS_Subset
<1>3. Cardinality(b) \in Nat /\ Cardinality(b) # 0 /\ Cardinality(ts) \in Nat
  BY <1>1, <1>2, FS_EmptySet, FS_CardinalityType
<1>4. MaxTimers \in Nat /\ Turn \in Nat
  BY Constants
<1>5. Left(u, ts, tk) = (MaxTimers - Cardinality(b)) * Turn
  BY DEF Left
<1> DEFINE k == Cardinality(b)
<1> HIDE DEF Turn, k, b
<1>6. k \in 1 .. MaxTimers
  BY <1>2, <1>3, <1>4 DEF k
<1>7. /\ (MaxTimers - k) * Turn \in Int /\ 0 <= (MaxTimers - k) * Turn
      /\ (MaxTimers - k) * Turn <= (MaxTimers - 1) * Turn
      /\ (MaxTimers - 1) * Turn = MaxTimers * Turn - Turn
  BY <1>4, <1>6
<1> QED
  BY <1>4, <1>5, <1>6, <1>7 DEF k, Backlog

(* A timer that is after u leaves u what it has. *)
LEMMA LeftAdd ==
    ASSUME NEW ts, NEW t, NEW u, NEW tk,
           ~ (Minus(t.when, tk) <= Minus(u.when, tk))
    PROVE  Left(u, ts \cup {t}, tk) = Left(u, ts, tk)
<1>1. Before(u, ts \cup {t}, tk) = Before(u, ts, tk)
  BY DEF Before
<1> QED
  BY <1>1 DEF Left

(* One that is not, and is taken out of the tree, gives a turn back. *)
LEMMA LeftDrop ==
    ASSUME TimingAssumption, RoomEnough,
           NEW ts, IsFiniteSet(ts), NEW t \in ts, NEW u, NEW tk,
           Minus(t.when, tk) <= Minus(u.when, tk)
    PROVE  Left(u, ts \ {t}, tk) = Left(u, ts, tk) + Turn
<1> DEFINE b == Before(u, ts, tk)
           c == Before(u, ts \ {t}, tk)
<1>1. t \in b /\ c = b \ {t} /\ b \subseteq ts
  BY DEF Before
<1>2. IsFiniteSet(b)
  BY <1>1, FS_Subset
<1>3. Cardinality(b) \in Nat /\ Cardinality(c) \in Nat /\ Cardinality(c) = Cardinality(b) - 1
  <2>1. IsFiniteSet(c) /\ Cardinality(c) = Cardinality(b) - 1
    <3> HIDE DEF b, c
    <3> QED
      BY <1>1, <1>2, FS_RemoveElement
  <2> QED
    BY <1>2, <2>1, FS_CardinalityType
<1>4. MaxTimers \in Nat /\ Turn \in Nat
  BY Constants
<1> DEFINE k == Cardinality(b)
           m == Cardinality(c)
<1>5. /\ Left(u, ts, tk) = (MaxTimers - k) * Turn
      /\ Left(u, ts \ {t}, tk) = (MaxTimers - m) * Turn
  BY DEF Left
<1>6. k \in Nat /\ m \in Nat /\ m = k - 1
  BY <1>3
<1> HIDE DEF Turn, k, m
<1>7. (MaxTimers - m) * Turn = (MaxTimers - k) * Turn + Turn
  BY <1>4, <1>6
<1> QED
  BY <1>5, <1>7

(* Time passes for all timers alike. *)
LEMMA LeftTick ==
    ASSUME NEW ts, NEW u \in ts, NEW tk, NEW tl,
           \A v \in ts : Minus(v.when, tk) \in Int /\ Minus(v.when, tl) = Minus(v.when, tk) - 1
    PROVE  Left(u, ts, tl) = Left(u, ts, tk)
<1>1. Before(u, ts, tl) = Before(u, ts, tk)
  BY DEF Before
<1> QED
  BY <1>1 DEF Left

LEMMA MinusNegative ==
    ASSUME TimingAssumption, NEW a \in Word, NEW b \in Word, Minus(a, b) > 0 - Half
    PROVE  Minus(b, a) = 0 - Minus(a, b)
<1>1. Half \in Nat /\ Half > 0 /\ Minus(a, b) \in Int /\ Minus(a, b) < Half
  BY HalfPositive, MinusIs
<1>2. Minus(b, b) = 0
  BY MinusSelf
<1> QED
  BY <1>1, <1>2, MinusFrom

(* Timers, the present and the time of the last run are near enough for the *)
(* order that compare_timers() sorts by to be that of their distances.      *)
LEMMA Bounds ==
    ASSUME TimingAssumption, RoomEnough, TypeOK, Timely
    PROVE  /\ tick \in Word /\ now \in Word /\ R(now) \in Int
           /\ R(now) > 0 - (Backlog + MaxIdle + 2 * MaxAfter + 2 * MaxLate)
           /\ alarm.active \in BOOLEAN
           /\ alarm.at \in Word /\ alarm.iTimerNext \in Word
           /\ R(alarm.at) \in Int /\ R(alarm.iTimerNext) \in Int
           /\ \A u \in timers :
                 /\ u.when \in Word /\ R(u.when) \in Int
                 /\ 0 - Backlog <= R(u.when) /\ R(u.when) < MaxAfter
                 /\ Left(u, timers, tick) \in Int
                 /\ 0 <= Left(u, timers, tick)
                 /\ Left(u, timers, tick) <= Backlog - Turn
                 /\ MaxTimers > 0
                 /\ Minus(u.when, now) = R(u.when) - R(now)
<1>1. tick \in Word /\ now \in Word /\ R(now) \in Int
  BY MinusIs DEF TypeOK, R
<1>2. /\ alarm.active \in BOOLEAN
      /\ alarm.at \in Word /\ alarm.iTimerNext \in Word
      /\ R(alarm.at) \in Int /\ R(alarm.iTimerNext) \in Int
  <2>1. alarm \in Alarms
    BY DEF TypeOK
  <2>2. /\ alarm.active \in BOOLEAN
        /\ alarm.at \in Word /\ alarm.iTimerNext \in Word
    BY <2>1 DEF Alarms
  <2> QED
    BY <1>1, <2>2, MinusIs DEF R
<1>3. ASSUME NEW u \in timers
      PROVE  /\ u.when \in Word /\ R(u.when) \in Int /\ R(u.when) < MaxAfter
             /\ Left(u, timers, tick) \in Int
             /\ 0 <= Left(u, timers, tick)
             /\ Left(u, timers, tick) <= Backlog - Turn
             /\ MaxTimers > 0
  <2>1. u.when \in Word
    BY DEF TypeOK, Timers
  <2>2. IsFiniteSet(timers) /\ Cardinality(timers) <= MaxTimers /\ R(u.when) < MaxAfter
    BY DEF Timely
  <2> QED
    BY <1>1, <2>1, <2>2, LeftBounds, MinusIs DEF R
<1> HIDE DEF R, Left
<1>4. /\ Half \in Nat /\ MaxAfter \in Nat /\ MaxAfter > 1
      /\ MaxEarly \in Nat /\ MaxEarly + 1 < MaxAfter
      /\ MaxLate \in Nat /\ MaxIdle \in Nat
      /\ Turn = MaxLate + 1 /\ Backlog \in Nat
      /\ Backlog + MaxIdle + 3 * MaxAfter + 2 * MaxLate <= Half
  BY Constants
<1> HIDE DEF Turn, Backlog
<1>5. /\ R(now) > 0 - (Backlog + MaxIdle + 2 * MaxAfter + 2 * MaxLate)
      /\ \A u \in timers : 0 - Backlog <= R(u.when)
  <2>1. CASE pc = "idle" /\ alarm.active
    <3>1. /\ R(alarm.at) >= 0 - MaxLate
          /\ \A u \in timers : 0 - R(u.when) <= Left(u, timers, tick) + 1 - R(alarm.at)
          /\ timers = {} => R(alarm.at) - R(now) <= Backlog + MaxIdle + MaxAfter - 1
          /\ timers # {} =>
                R(alarm.at) - R(now) <= Backlog + MaxIdle + 2 * MaxAfter + MaxLate - 1
      BY <2>1, <1>4 DEF Timely, WhileIdle
    <3> QED
      BY <3>1, <1>1, <1>2, <1>3, <1>4
  <2>2. CASE pc = "idle" /\ ~alarm.active
    <3>1. timers = {} /\ R(now) >= 0 - (Backlog + MaxIdle)
      BY <2>2 DEF Timely, WhileIdle
    <3> QED
      BY <3>1, <1>1, <1>4
  <2>3. CASE pc # "idle"
    <3>1. R(now) >= 0 - Backlog
      BY <2>3 DEF Timely, WhileRunning
    <3>2. \A u \in timers : \/ 0 - R(u.when) <= Left(u, timers, tick)
                            \/ 0 - R(u.when) <= Left(u, timers, tick) + Turn
      BY <2>3 DEF Timely, WhileRunning
    <3> QED
      BY <3>1, <3>2, <1>1, <1>3, <1>4
  <2> QED
    BY <2>1, <2>2, <2>3
<1>6. ASSUME NEW u \in timers
      PROVE  Minus(u.when, now) = R(u.when) - R(now)
  <2>1. R(now) <= MaxEarly
    BY DEF Timely
  <2>2. 0 - Half <= R(u.when) - R(now) /\ R(u.when) - R(now) < Half
    BY <1>1, <1>3, <1>4, <1>5, <2>1
  <2> QED
    BY <2>2, <1>1, <1>3, MinusFrom DEF R
<1> QED
  BY <1>1, <1>2, <1>3, <1>5, <1>6

(* The time of a new timer is neither before the present nor too far.       *)
LEMMA DueTimeIs ==
    ASSUME TimingAssumption, RoomEnough, TypeOK, Timely, NEW d \in Delays
    PROVE  /\ DueTime(d) \in Word
           /\ R(DueTime(d)) \in Int /\ 0 <= R(DueTime(d)) /\ R(DueTime(d)) < MaxAfter
           /\ Minus(DueTime(d), now) = R(DueTime(d)) - R(now)
           /\ Minus(DueTime(d), now) > 0
<1>1. /\ tick \in Word /\ now \in Word /\ R(now) \in Int
      /\ R(now) > 0 - (Backlog + MaxIdle + 2 * MaxAfter + 2 * MaxLate)
      /\ R(now) <= MaxEarly
  BY Bounds DEF Timely
<1>2. /\ Half \in Nat /\ Half > 1 /\ MaxAfter \in Nat /\ MaxAfter > 1
      /\ MaxEarly \in Nat /\ MaxEarly + 1 < MaxAfter
      /\ MaxLate \in Nat /\ MaxIdle \in Nat /\ Backlog \in Nat
      /\ Backlog + MaxIdle + 3 * MaxAfter + 2 * MaxLate <= Half
  BY Constants
<1> HIDE DEF Backlog
<1>3. d \in Int /\ 0 <= d /\ d < MaxAfter /\ d < Half
  BY <1>2 DEF TimingAssumption, RoomEnough
<1>4. Plus(tick, d) \in Word /\ R(Plus(tick, d)) = d
  BY <1>1, <1>3, MinusPlus DEF R
<1>5. Minus(Plus(tick, d), now) = d - R(now)
  <2>1. 0 - Half <= d - R(now) /\ d - R(now) < Half
    BY <1>1, <1>2, <1>3
  <2> QED
    BY <1>1, <1>4, <2>1, MinusFrom DEF R
<1>6. CASE d - R(now) <= 0
  <2>1. DueTime(d) = Plus(now, 1)
    BY <1>5, <1>6 DEF DueTime
  <2>2. Plus(now, 1) \in Word /\ Minus(Plus(now, 1), now) = 1
    BY <1>1, <1>2, MinusPlus
  <2>3. Minus(tick, now) = 0 - R(now)
    BY <1>1, <1>2, MinusNegative DEF R
  <2>4. R(Plus(now, 1)) = 1 + R(now)
    <3>1. 0 - Half <= 1 - (0 - R(now)) /\ 1 - (0 - R(now)) < Half
      BY <1>1, <1>2
    <3> QED
      BY <1>1, <2>2, <2>3, <3>1, MinusFrom DEF R
  <2> QED
    BY <1>1, <1>2, <1>3, <1>6, <2>1, <2>2, <2>4
<1>7. CASE d - R(now) > 0
  <2>1. DueTime(d) = Plus(tick, d)
    BY <1>1, <1>3, <1>5, <1>7 DEF DueTime
  <2> QED
    BY <1>3, <1>4, <1>5, <1>7, <2>1
<1> QED
  BY <1>1, <1>3, <1>6, <1>7

(* timer_change_notify() for a timer that is not too far.                   *)
LEMMA NotifyIs ==
    ASSUME TimingAssumption, RoomEnough, TypeOK, "after" \notin fault,
           NEW t \in Word, R(t) < MaxAfter, Notify(t), tick' = tick
    PROVE  /\ "after" \notin fault'
           /\ alarm'.active = TRUE
           /\ alarm'.iTimerNext = t /\ (R(alarm.iTimerNext))' = R(t)
           /\ (R(alarm.at))' \in Int
           /\ (R(alarm.at))' = IF R(t) <= 0 THEN 1 ELSE R(t)
<1> DEFINE ticks == IF R(t) <= 0 THEN 1 ELSE R(t)
<1>1. tick \in Word /\ R(t) \in Int /\ R(t) < Half
  BY MinusIs DEF TypeOK, R
<1>2. Half \in Nat /\ Half > 1 /\ MaxAfter \in Nat /\ MaxAfter > 1
  BY Constants
<1>3. ticks \in Int /\ 0 <= ticks /\ ticks < Half /\ ticks < MaxAfter
  BY <1>1, <1>2
<1>4. /\ fault' = IF ticks < MaxAfter THEN fault ELSE fault \cup {"after"}
      /\ alarm' = [active |-> TRUE, at |-> Plus(tick, ticks), iTimerNext |-> t]
  BY DEF Notify, R
<1> HIDE DEF ticks
<1>5. Minus(Plus(tick, ticks), tick) = ticks
  BY <1>1, <1>3, MinusPlus
<1>6. (R(alarm.at))' = ticks /\ (R(alarm.iTimerNext))' = R(t)
  BY <1>4, <1>5 DEF R
<1> QED
  BY <1>3, <1>4, <1>6 DEF ticks

LEMMA TimelyInit ==
    ASSUME TimingAssumption, RoomEnough, Init
    PROVE  Timely
<1>1. R(now) = 0
  BY MinusSelf DEF Init, R
<1>2. MaxEarly \in Nat /\ Backlog \in Nat /\ MaxIdle \in Nat /\ MaxTimers \in Nat
  BY Constants
<1>3. IsFiniteSet(timers) /\ Cardinality(timers) = 0
  BY FS_EmptySet DEF Init
<1> HIDE DEF R, Backlog
<1>4. WhileIdle
  BY <1>1, <1>2 DEF Init, WhileIdle
<1> QED
  BY <1>1, <1>2, <1>3, <1>4 DEF Init, Timely

LEMMA TimelyExpire ==
    ASSUME Timely, NEW c \in Ctx, Expire(c)
    PROVE  Timely'
  BY DEF Expire, Timely, WhileIdle, WhileRunning, R, Left, Before

LEMMA TimelyReturn ==
    ASSUME Timely, Return
    PROVE  Timely'
  BY DEF Return, Timely, WhileIdle, WhileRunning, R, Left, Before

LEMMA TimelyUnchanged ==
    ASSUME Timely, UNCHANGED vars
    PROVE  Timely'
  BY DEF vars, Timely, WhileIdle, WhileRunning, R, Left, Before

LEMMA TimelyWake ==
    ASSUME TimingAssumption, RoomEnough, TypeOK, Timely, Wake
    PROVE  Timely'
<1>1. /\ pc = "idle" /\ alarm.active
      /\ alarm' = [alarm EXCEPT !.active = FALSE]
      /\ now' = alarm.iTimerNext /\ pc' = "loop"
      /\ tick' = tick /\ timers' = timers /\ fault' = fault
      /\ Minus(tick, alarm.at) >= 0 - MaxEarly
  <2>1. MaxEarly \in Nat
    BY Constants
  <2> QED
    BY <2>1 DEF Wake
<1>2. /\ tick \in Word /\ alarm.at \in Word
      /\ R(alarm.at) \in Int /\ R(alarm.iTimerNext) \in Int
      /\ \A u \in timers :
            R(u.when) \in Int /\ Left(u, timers, tick) \in Int
  BY Bounds
<1>3. /\ Half \in Nat /\ MaxEarly \in Nat /\ MaxLate \in Nat /\ MaxIdle \in Nat /\ MaxAfter \in Nat
      /\ Turn = MaxLate + 1 /\ Backlog \in Nat
      /\ Backlog + MaxIdle + 3 * MaxAfter + 2 * MaxLate <= Half
      /\ MaxAfter > 1
  BY Constants
<1> HIDE DEF Turn, Backlog
<1>4. R(alarm.at) >= 0 - MaxLate
  BY <1>1, <1>3 DEF Timely, WhileIdle
<1>5. R(alarm.at) <= MaxEarly
  <2>1. Minus(tick, alarm.at) = 0 - R(alarm.at)
    BY <1>2, <1>3, <1>4, MinusNegative DEF R
  <2> QED
    BY <1>1, <1>2, <1>3, <2>1
<1>6. /\ alarm'.active = FALSE
      /\ (R(now))' = R(alarm.iTimerNext)
      /\ \A u \in timers' : (R(u.when))' = R(u.when) /\ Left(u, timers, tick)' = Left(u, timers, tick)
  <2>1. alarm'.active = FALSE
    BY <1>1 DEF TypeOK, Alarms
  <2> QED
    BY <1>1, <2>1 DEF R, Left, Before
<1>7. WhileRunning'
  <2>1. /\ R(alarm.iTimerNext) <= R(alarm.at)
        /\ 0 - R(alarm.iTimerNext) <= Backlog - Turn + 1 - R(alarm.at)
    BY <1>1 DEF Timely
  <2>2. (R(now))' >= 0 - Backlog
    BY <1>2, <1>3, <1>4, <1>6, <2>1
  <2>3. CASE timers = {}
    BY <1>1, <1>6, <2>2, <2>3 DEF WhileRunning
  <2>4. CASE timers # {}
    <3>1. PICK t \in timers : t.when = alarm.iTimerNext
      BY <1>1, <2>4 DEF Timely, WhileIdle
    <3>2. \A u \in timers : 0 - R(u.when) <= Left(u, timers, tick) + 1 - R(alarm.at)
      BY <1>1 DEF Timely, WhileIdle
    <3>3. \A u \in timers : 0 - R(u.when) <= Left(u, timers, tick) + Turn
      BY <1>2, <1>3, <1>4, <3>2
    <3>4. \A u \in timers' : 0 - (R(u.when))' <= Left(u, timers, tick)' + Turn
      BY <1>1, <1>6, <3>3
    <3>5. \E u \in timers' : (R(u.when))' <= (R(now))'
      <4>1. R(t.when) <= R(alarm.iTimerNext)
        BY <3>1, <1>2
      <4> QED
        BY <1>1, <1>6, <3>1, <4>1
    <3> QED
      BY <1>1, <1>6, <2>2, <3>4, <3>5 DEF WhileRunning, Turn
  <2> QED
    BY <2>3, <2>4
<1>8. (R(now))' <= MaxEarly
  BY <1>1, <1>2, <1>3, <1>5, <1>6 DEF Timely
<1>9. \A u \in timers' : (R(u.when))' < MaxAfter
  BY <1>1, <1>6 DEF Timely
<1> HIDE DEF R, Left
<1>10. /\ IsFiniteSet(timers') /\ Cardinality(timers') <= MaxTimers
       /\ "after" \notin fault'
  BY <1>1 DEF Timely
<1> QED
  BY <1>1, <1>6, <1>7, <1>8, <1>9, <1>10 DEF Timely

(* The first timer in the order of compare_timers() is the one that is      *)
(* least far ahead.                                                         *)
LEMMA FirstIs ==
    ASSUME TimingAssumption, RoomEnough, TypeOK, Timely,
           NEW t \in timers, IsFirst(timers, t)
    PROVE  \A u \in timers : R(t.when) <= R(u.when)
<1>1. \A u \in timers : Minus(t.when, now) <= Minus(u.when, now)
  BY DEF IsFirst
<1>2. R(now) \in Int
  BY Bounds
<1>3. \A u \in timers : R(u.when) \in Int /\ Minus(u.when, now) = R(u.when) - R(now)
  BY Bounds
<1> HIDE DEF R
<1> QED
  BY <1>1, <1>2, <1>3

(* Whatever becomes of it, taking the first timer out of the tree makes     *)
(* good for the turn of the one-shot timer.                                 *)
LEMMA TimelyRemove ==
    ASSUME TimingAssumption, RoomEnough, TypeOK, Timely, pc = "loop",
           NEW t \in timers, IsFirst(timers, t),
           timers' = timers \ {t}, pc' \in {"loop", "callback"},
           "after" \notin fault',
           UNCHANGED <<tick, now, alarm>>
    PROVE  Timely'
<1>1. \A u \in timers : R(t.when) <= R(u.when)
  BY FirstIs
<1>2. \A u \in timers : R(u.when) \in Int /\ Left(u, timers, tick) \in Int
  BY Bounds
<1>3. Turn \in Nat
  BY Constants
<1>4. IsFiniteSet(timers) /\ Cardinality(timers) <= MaxTimers
  BY DEF Timely
<1>5. IsFiniteSet(timers') /\ Cardinality(timers') <= MaxTimers
  <2>1. IsFiniteSet(timers') /\ Cardinality(timers') <= Cardinality(timers)
    BY <1>4, FS_Subset
  <2>2. Cardinality(timers) \in Nat /\ Cardinality(timers') \in Nat /\ MaxTimers \in Nat
    BY <1>4, <2>1, FS_CardinalityType, Constants
  <2> QED
    BY <1>4, <2>1, <2>2
<1>7. \A u \in timers' : Left(u, timers, tick)' = Left(u, timers, tick) + Turn
  BY <1>1, <1>4, LeftDrop DEF R
<1>8. /\ (R(now))' = R(now) /\ (R(alarm.at))' = R(alarm.at)
      /\ (R(alarm.iTimerNext))' = R(alarm.iTimerNext)
      /\ \A u \in timers' : (R(u.when))' = R(u.when)
  BY DEF R
<1> HIDE DEF Turn, Backlog, R, Left
<1>9. \A u \in timers' : 0 - (R(u.when))' <= Left(u, timers, tick)'
  <2>1. \A u \in timers : \/ 0 - R(u.when) <= Left(u, timers, tick)
                          \/ 0 - R(u.when) <= Left(u, timers, tick) + Turn
    BY DEF Timely, WhileRunning
  <2> QED
    <3> TAKE u \in timers'
    <3>1. u \in timers
      OBVIOUS
    <3>2. /\ (R(u.when))' = R(u.when) /\ R(u.when) \in Int
          /\ Left(u, timers, tick) \in Int
          /\ Left(u, timers, tick)' = Left(u, timers, tick) + Turn
      BY <1>2, <1>7, <1>8, <3>1
    <3>3. \/ 0 - R(u.when) <= Left(u, timers, tick)
          \/ 0 - R(u.when) <= Left(u, timers, tick) + Turn
      BY <2>1, <3>1
    <3> QED
      BY <1>3, <3>2, <3>3
<1>10. WhileRunning'
  <2>1. (R(now))' >= 0 - Backlog
    BY <1>8 DEF Timely, WhileRunning
  <2>2. alarm'.active => (R(alarm.at))' >= 1
    BY <1>8 DEF Timely, WhileRunning
  <2> QED
    BY <1>9, <2>1, <2>2 DEF WhileRunning, Backlog, Turn
<1>11. \A u \in timers' : (R(u.when))' < MaxAfter
  BY <1>8 DEF Timely
<1>12. (R(now))' <= MaxEarly
  BY <1>8 DEF Timely
<1>13. alarm'.active =>
          /\ (R(alarm.at))' < MaxAfter
          /\ (R(alarm.iTimerNext))' <= (R(alarm.at))'
          /\ (R(alarm.at))' = (R(alarm.iTimerNext))' \/ (R(alarm.at))' <= 1
          /\ 0 - (R(alarm.iTimerNext))' <= Backlog - Turn + 1 - (R(alarm.at))'
  BY <1>8 DEF Timely
<1> QED
  BY <1>5, <1>10, <1>11, <1>12, <1>13 DEF Timely, Backlog, Turn

LEMMA TimelyDropFirst ==
    ASSUME TimingAssumption, RoomEnough, TypeOK, Timely, DropFirst
    PROVE  Timely'
<1>1. PICK t \in timers : IsFirst(timers, t) /\ timers' = timers \ {t}
  BY DEF DropFirst
<1>2. /\ pc = "loop" /\ pc' = "loop" /\ fault' = fault
      /\ UNCHANGED <<tick, now, alarm>>
  BY DEF DropFirst
<1>3. "after" \notin fault'
  BY <1>2 DEF Timely
<1> QED
  BY <1>1, <1>2, <1>3, TimelyRemove

LEMMA TimelyRunFirst ==
    ASSUME TimingAssumption, RoomEnough, TypeOK, Timely, RunFirst
    PROVE  Timely'
<1>1. PICK t \in timers :
          /\ IsFirst(timers, t) /\ timers' = timers \ {t}
          /\ fault' = IF t \in owed THEN {} ELSE {"annulled"}
  BY DEF RunFirst
<1>2. /\ pc = "loop" /\ pc' = "callback"
      /\ UNCHANGED <<tick, now, alarm>>
  BY DEF RunFirst
<1>3. "after" \notin fault'
  BY <1>1
<1> QED
  BY <1>1, <1>2, <1>3, TimelyRemove

LEMMA TimelyFinish ==
    ASSUME TimingAssumption, RoomEnough, TypeOK, Timely, Finish
    PROVE  Timely'
<1>1. pc = "loop" /\ pc' = "idle" /\ timers' = timers /\ now' = now /\ tick' = tick
  BY DEF Finish
<1>2. /\ (R(now))' = R(now)
      /\ \A u \in timers : (R(u.when))' = R(u.when) /\ Left(u, timers, tick)' = Left(u, timers, tick)
  BY <1>1 DEF R, Left, Before
<1>3. /\ tick \in Word /\ now \in Word /\ R(now) \in Int
      /\ R(alarm.at) \in Int /\ R(alarm.iTimerNext) \in Int
      /\ alarm.active \in BOOLEAN
  BY Bounds
<1>4. \A u \in timers :
        /\ u.when \in Word
        /\ R(u.when) \in Int /\ R(u.when) < MaxAfter
        /\ Left(u, timers, tick) \in Int /\ 0 <= Left(u, timers, tick)
        /\ Left(u, timers, tick) <= Backlog - Turn
        /\ Minus(u.when, now) = R(u.when) - R(now)
  BY Bounds
<1>5. /\ Half \in Nat /\ MaxLate \in Nat /\ MaxIdle \in Nat /\ MaxAfter \in Nat
      /\ Turn = MaxLate + 1 /\ Backlog \in Nat
      /\ MaxAfter > 1
  BY Constants
<1>6. /\ R(now) >= 0 - Backlog /\ R(now) <= MaxEarly
      /\ IsFiniteSet(timers) /\ Cardinality(timers) <= MaxTimers
      /\ "after" \notin fault
  BY <1>1 DEF Timely, WhileRunning
<1>7. CASE timers = {} /\ UNCHANGED <<alarm, fault>>
  <2>1. /\ (R(alarm.at))' = R(alarm.at)
        /\ (R(alarm.iTimerNext))' = R(alarm.iTimerNext)
    BY <1>1, <1>7 DEF R
  <2> HIDE DEF R, Left
  <2>2. alarm.active =>
          /\ R(alarm.at) < MaxAfter
          /\ R(alarm.iTimerNext) <= R(alarm.at)
          /\ R(alarm.at) = R(alarm.iTimerNext) \/ R(alarm.at) <= 1
          /\ 0 - R(alarm.iTimerNext) <= Backlog - Turn + 1 - R(alarm.at)
          /\ R(alarm.at) >= 1
    BY <1>1 DEF Timely, WhileRunning
  <2>3. /\ alarm.active => R(alarm.at) >= 0 - MaxLate /\ R(alarm.at) - R(now) <= Backlog + MaxIdle + MaxAfter - 1
        /\ R(now) >= 0 - (Backlog + MaxIdle)
    <3> HIDE DEF Backlog, Turn
    <3> QED
      BY <1>3, <1>5, <1>6, <2>2
  <2>4. WhileIdle'
    BY <1>1, <1>2, <1>5, <1>7, <2>1, <2>3 DEF WhileIdle, Backlog, Turn
  <2> QED
    BY <1>1, <1>2, <1>6, <1>7, <2>1, <2>2, <2>4 DEF Timely, Backlog, Turn
<1>8. ASSUME NEW t \in timers, IsFirst(timers, t), Minus(t.when, now) > 0, Notify(t.when)
      PROVE  Timely'
  <2>1. \A u \in timers : R(t.when) <= R(u.when)
    BY <1>8, FirstIs
  <2>2. R(t.when) > R(now)
    <3> HIDE DEF R
    <3> QED
      BY <1>3, <1>4, <1>8
  <2>3. /\ "after" \notin fault'
        /\ alarm'.active = TRUE
        /\ alarm'.iTimerNext = t.when /\ (R(alarm.iTimerNext))' = R(t.when)
        /\ (R(alarm.at))' \in Int
        /\ (R(alarm.at))' = IF R(t.when) <= 0 THEN 1 ELSE R(t.when)
    BY <1>1, <1>4, <1>6, <1>8, NotifyIs
  <2>4. \A u \in timers' : 0 - (R(u.when))' <= Left(u, timers, tick)'
    <3> HIDE DEF R, Left, Turn
    <3>1. ~ \E u \in timers : R(u.when) <= R(now)
      BY <1>3, <1>4, <2>1, <2>2
    <3>2. \A u \in timers : 0 - R(u.when) <= Left(u, timers, tick)
      BY <1>1, <3>1 DEF Timely, WhileRunning
    <3> QED
      BY <1>1, <1>2, <3>2
  <2> HIDE DEF R, Left
  <2>5. /\ (R(alarm.at))' < MaxAfter
        /\ (R(alarm.iTimerNext))' <= (R(alarm.at))'
        /\ (R(alarm.at))' = (R(alarm.iTimerNext))' \/ (R(alarm.at))' <= 1
        /\ 0 - (R(alarm.iTimerNext))' <= Backlog - Turn + 1 - (R(alarm.at))'
        /\ (R(alarm.at))' >= 0 - MaxLate
        /\ (R(alarm.iTimerNext))' - (R(now))' <= Backlog + MaxIdle + 2 * MaxAfter + MaxLate - 2
        /\ (R(alarm.at))' - (R(now))' <= Backlog + MaxIdle + 2 * MaxAfter + MaxLate - 1
    <3>1. 0 - R(t.when) <= Left(t, timers, tick) /\ Left(t, timers, tick) <= Backlog - Turn
      BY <1>1, <1>2, <1>4, <2>4
    <3> HIDE DEF Backlog, Turn
    <3> QED
      BY <1>2, <1>3, <1>4, <1>5, <1>6, <2>3, <3>1
  <2>6. \A u \in timers' : 0 - (R(u.when))' <= Left(u, timers, tick)' + 1 - (R(alarm.at))'
    <3> HIDE DEF Backlog, Turn
    <3> QED
      BY <1>1, <1>2, <1>4, <2>1, <2>3, <2>4
  <2>7. /\ alarm'.active
        /\ \E u \in timers' : u.when = alarm'.iTimerNext
        /\ \A u \in timers' : (R(alarm.iTimerNext))' <= (R(u.when))'
    BY <1>1, <1>2, <2>1, <2>3
  <2>8. \A u \in timers' : Minus(u.when, now)' > 0
    <3>1. \A u \in timers : Minus(u.when, now) > 0
      BY <1>3, <1>4, <2>1, <2>2
    <3> QED
      BY <1>1, <3>1
  <2>9. WhileIdle'
    BY <1>1, <2>3, <2>5, <2>6, <2>7, <2>8 DEF WhileIdle, Backlog, Turn
  <2>10. (R(now))' <= MaxEarly /\ \A u \in timers' : (R(u.when))' < MaxAfter
    BY <1>1, <1>2, <1>4, <1>6
  <2> QED
    BY <1>1, <1>6, <2>3, <2>5, <2>9, <2>10 DEF Timely, Backlog, Turn
<1> QED
  BY <1>7, <1>8 DEF Finish

(* A new timer waits for less than the others only if it is before them.    *)
LEMMA LeftSchedule ==
    ASSUME TimingAssumption, RoomEnough, TypeOK, Timely,
           NEW t, t.when \in Word, 0 <= R(t.when), R(t.when) < MaxAfter,
           timers' = timers \cup {t}, tick' = tick,
           Cardinality(timers \cup {t}) <= MaxTimers
    PROVE  /\ IsFiniteSet(timers') /\ Cardinality(timers') <= MaxTimers
           /\ MaxTimers > 0
           /\ \A u \in timers' :
                 /\ (R(u.when))' = R(u.when) /\ R(u.when) \in Int
                 /\ R(u.when) < MaxAfter
                 /\ Left(u, timers, tick)' \in Int /\ 0 <= Left(u, timers, tick)'
                 /\ R(u.when) < R(t.when) =>
                       u \in timers /\ Left(u, timers, tick)' = Left(u, timers, tick)
<1>1. IsFiniteSet(timers')
  BY FS_AddElement DEF Timely
<1>2. Cardinality(timers') <= MaxTimers
  OBVIOUS
<1>3. tick \in Word
  BY DEF TypeOK
<1>4. MaxTimers > 0
  BY <1>1, <1>2, <1>3, LeftBounds
<1>5. ASSUME NEW u \in timers'
      PROVE  /\ (R(u.when))' = R(u.when) /\ R(u.when) \in Int
             /\ R(u.when) < MaxAfter
             /\ Left(u, timers, tick)' \in Int /\ 0 <= Left(u, timers, tick)'
             /\ R(u.when) < R(t.when) =>
                   u \in timers /\ Left(u, timers, tick)' = Left(u, timers, tick)
  <2>1. u.when \in Word
    BY Bounds
  <2>2. (R(u.when))' = R(u.when) /\ R(u.when) \in Int /\ R(t.when) \in Int
    BY <1>3, <2>1, MinusIs DEF R
  <2>3. R(u.when) < MaxAfter
    BY Bounds
  <2>4. Left(u, timers, tick)' = Left(u, timers', tick)
    BY DEF Left, Before
  <2>5. Left(u, timers', tick) \in Int /\ 0 <= Left(u, timers', tick)
    BY <1>1, <1>2, <1>3, <2>1, LeftBounds
  <2>6. ASSUME R(u.when) < R(t.when)
        PROVE  u \in timers /\ Left(u, timers', tick) = Left(u, timers, tick)
    <3>1. ~ (Minus(t.when, tick) <= Minus(u.when, tick))
      BY <2>2, <2>6 DEF R
    <3>2. u # t
      BY <2>2, <2>6
    <3> QED
      BY <3>1, <3>2, LeftAdd
  <2> QED
    BY <2>2, <2>3, <2>4, <2>5, <2>6
<1> QED
  BY <1>1, <1>2, <1>4, <1>5

(* The front end is told of a timer that comes to be the first. *)
LEMMA TimelyScheduleFirst ==
    ASSUME TimingAssumption, RoomEnough, TypeOK, Timely, pc \in {"idle", "callback"},
           NEW t, t.when \in Word, 0 <= R(t.when), R(t.when) < MaxAfter,
           Minus(t.when, now) = R(t.when) - R(now), Minus(t.when, now) > 0,
           timers' = timers \cup {t},
           Cardinality(timers \cup {t}) <= MaxTimers,
           IsFirst(timers', t), Notify(t.when),
           UNCHANGED <<tick, now, pc>>
    PROVE  Timely'
<1>1. /\ IsFiniteSet(timers') /\ Cardinality(timers') <= MaxTimers
      /\ MaxTimers > 0
      /\ \A u \in timers' :
            /\ (R(u.when))' = R(u.when) /\ R(u.when) \in Int
            /\ R(u.when) < MaxAfter
            /\ Left(u, timers, tick)' \in Int /\ 0 <= Left(u, timers, tick)'
            /\ R(u.when) < R(t.when) =>
                  u \in timers /\ Left(u, timers, tick)' = Left(u, timers, tick)
  BY LeftSchedule
<1>2. /\ tick \in Word /\ now \in Word /\ R(now) \in Int /\ (R(now))' = R(now)
      /\ R(alarm.at) \in Int /\ R(alarm.iTimerNext) \in Int
      /\ R(now) <= MaxEarly /\ R(t.when) \in Int
  BY <1>1, Bounds DEF Timely, R
<1>3. \A u \in timers' : Minus(u.when, now) = R(u.when) - R(now)
  BY Bounds
<1>4. /\ Half \in Nat /\ MaxLate \in Nat /\ MaxIdle \in Nat /\ MaxAfter \in Nat
      /\ Turn \in Nat /\ Turn = MaxLate + 1 /\ Backlog \in Nat /\ Backlog >= Turn
      /\ MaxAfter > 1
  BY <1>1, Constants
<1>5. /\ "after" \notin fault'
      /\ alarm'.active = TRUE
      /\ alarm'.iTimerNext = t.when /\ (R(alarm.iTimerNext))' = R(t.when)
      /\ (R(alarm.at))' \in Int
      /\ (R(alarm.at))' = IF R(t.when) <= 0 THEN 1 ELSE R(t.when)
  BY NotifyIs DEF Timely
<1> HIDE DEF R, Left
<1>6. \A u \in timers' : R(t.when) <= R(u.when)
  <2>1. \A u \in timers' : Minus(t.when, now) <= Minus(u.when, now)
    BY DEF IsFirst
  <2> QED
    BY <1>1, <1>2, <1>3, <2>1
<1>7. /\ (R(alarm.at))' < MaxAfter
      /\ (R(alarm.iTimerNext))' <= (R(alarm.at))'
      /\ (R(alarm.at))' = (R(alarm.iTimerNext))' \/ (R(alarm.at))' <= 1
      /\ 0 - (R(alarm.iTimerNext))' <= Backlog - Turn + 1 - (R(alarm.at))'
      /\ (R(alarm.at))' >= 1
  <2> HIDE DEF Backlog, Turn
  <2> QED
    BY <1>2, <1>4, <1>5
<1>8. /\ (R(now))' <= MaxEarly
      /\ \A u \in timers' : (R(u.when))' < MaxAfter
  BY <1>1, <1>2
<1>9. CASE pc = "callback"
  <2>1. \A u \in timers' : 0 - (R(u.when))' <= Left(u, timers, tick)'
    <3> TAKE u \in timers'
    <3>1. R(t.when) <= R(u.when) /\ R(u.when) \in Int /\ (R(u.when))' = R(u.when)
          /\ Left(u, timers, tick)' \in Int /\ 0 <= Left(u, timers, tick)'
      BY <1>1, <1>6
    <3> QED
      BY <1>2, <3>1
  <2>2. (R(now))' >= 0 - Backlog
    BY <1>2, <1>9 DEF Timely, WhileRunning
  <2>3. WhileRunning'
    BY <1>7, <2>1, <2>2 DEF WhileRunning, Backlog, Turn
  <2> QED
    BY <1>1, <1>5, <1>7, <1>8, <1>9, <2>3 DEF Timely, Backlog, Turn
<1>10. CASE pc = "idle"
  <2>1. /\ timers = {} =>
              \/ ~alarm.active /\ R(now) >= 0 - (Backlog + MaxIdle)
              \/ /\ R(alarm.at) >= 0 - MaxLate
                 /\ R(alarm.at) - R(now) <= Backlog + MaxIdle + MaxAfter - 1
        /\ timers # {} =>
              /\ \E u \in timers : u.when = alarm.iTimerNext
              /\ R(alarm.iTimerNext) - R(now) <= Backlog + MaxIdle + 2 * MaxAfter + MaxLate - 2
    <3>1. -MaxLate = 0 - MaxLate
      BY <1>4
    <3> QED
      BY <1>10, <3>1 DEF Timely, WhileIdle
  <2>2. R(t.when) - R(now) <= Backlog + MaxIdle + 2 * MaxAfter + MaxLate - 2
    <3> HIDE DEF Backlog, Turn
    <3>1. CASE timers = {}
      BY <1>2, <1>4, <2>1, <3>1
    <3>2. CASE timers # {}
      <4>1. PICK u \in timers : u.when = alarm.iTimerNext
        BY <2>1, <3>2
      <4>2. R(u.when) = R(alarm.iTimerNext) /\ R(t.when) <= R(u.when)
        BY <1>6, <4>1
      <4> QED
        BY <1>2, <1>4, <2>1, <3>2, <4>2
    <3> QED
      BY <3>1, <3>2
  <2>3. (R(alarm.at))' - (R(now))' <= Backlog + MaxIdle + 2 * MaxAfter + MaxLate - 1
    <3> HIDE DEF Backlog, Turn
    <3>1. CASE R(t.when) <= 0
      BY <1>2, <1>4, <1>5, <2>2, <3>1
    <3>2. CASE R(t.when) > 0
      BY <1>2, <1>4, <1>5, <2>2, <3>2
    <3> QED
      BY <1>2, <3>1, <3>2
  <2>4. \A u \in timers' : 0 - (R(u.when))' <= Left(u, timers, tick)' + 1 - (R(alarm.at))'
    <3> TAKE u \in timers'
    <3>1. R(t.when) <= R(u.when) /\ R(u.when) \in Int /\ (R(u.when))' = R(u.when)
          /\ Left(u, timers, tick)' \in Int /\ 0 <= Left(u, timers, tick)'
      BY <1>1, <1>6
    <3> QED
      BY <1>2, <1>5, <3>1
  <2>5. \A u \in timers' : Minus(u.when, now)' > 0
    <3>1. \A u \in timers' : Minus(u.when, now) > 0
      BY <1>1, <1>2, <1>3, <1>6
    <3> QED
      BY <3>1
  <2>6. /\ \E u \in timers' : u.when = alarm'.iTimerNext
        /\ \A u \in timers' : (R(alarm.iTimerNext))' <= (R(u.when))'
    BY <1>1, <1>5, <1>6
  <2>7. (R(alarm.at))' >= -MaxLate /\ timers' # {}
    BY <1>4, <1>5, <1>7
  <2>8. (R(alarm.iTimerNext))' - (R(now))' <= Backlog + MaxIdle + 2 * MaxAfter + MaxLate - 2
    BY <1>2, <1>5, <2>2
  <2>9. WhileIdle'
    BY <1>5, <2>3, <2>4, <2>5, <2>6, <2>7, <2>8 DEF WhileIdle, Backlog, Turn
  <2> QED
    BY <1>1, <1>5, <1>7, <1>8, <1>10, <2>9 DEF Timely, Backlog, Turn
<1> QED
  BY <1>9, <1>10

(* Nor need it be told of one that is not. *)
LEMMA TimelyScheduleLater ==
    ASSUME TimingAssumption, RoomEnough, TypeOK, Timely, pc \in {"idle", "callback"},
           NEW t, t.when \in Word, 0 <= R(t.when), R(t.when) < MaxAfter,
           Minus(t.when, now) = R(t.when) - R(now), Minus(t.when, now) > 0,
           timers' = timers \cup {t},
           Cardinality(timers \cup {t}) <= MaxTimers,
           \E u \in timers : Minus(u.when, now) <= Minus(t.when, now),
           UNCHANGED <<tick, now, pc, alarm, fault>>
    PROVE  Timely'
<1>1. /\ IsFiniteSet(timers') /\ Cardinality(timers') <= MaxTimers
      /\ \A u \in timers' :
            /\ (R(u.when))' = R(u.when) /\ R(u.when) \in Int
            /\ R(u.when) < MaxAfter
            /\ Left(u, timers, tick)' \in Int /\ 0 <= Left(u, timers, tick)'
            /\ R(u.when) < R(t.when) =>
                  u \in timers /\ Left(u, timers, tick)' = Left(u, timers, tick)
  BY LeftSchedule
<1>2. /\ R(now) \in Int /\ (R(now))' = R(now)
      /\ R(alarm.at) \in Int /\ R(alarm.iTimerNext) \in Int
      /\ (R(alarm.at))' = R(alarm.at) /\ (R(alarm.iTimerNext))' = R(alarm.iTimerNext)
      /\ R(now) <= MaxEarly /\ R(t.when) \in Int
  BY <1>1, Bounds DEF Timely, R
<1>3. PICK first \in timers : Minus(first.when, now) <= Minus(t.when, now)
  OBVIOUS
<1>4. R(first.when) <= R(t.when)
  <2>1. R(first.when) \in Int /\ Minus(first.when, now) = R(first.when) - R(now)
    BY Bounds
  <2> HIDE DEF R
  <2> QED
    BY <1>2, <1>3, <2>1
<1>5. alarm.active =>
          /\ R(alarm.at) < MaxAfter
          /\ R(alarm.iTimerNext) <= R(alarm.at)
          /\ R(alarm.at) = R(alarm.iTimerNext) \/ R(alarm.at) <= 1
          /\ 0 - R(alarm.iTimerNext) <= Backlog - Turn + 1 - R(alarm.at)
  BY DEF Timely
<1>6. /\ (R(now))' <= MaxEarly
      /\ \A u \in timers' : (R(u.when))' < MaxAfter
      /\ "after" \notin fault'
  BY <1>1, <1>2 DEF Timely
<1> HIDE DEF R, Left
<1>7. CASE pc = "callback"
  <2>1. \A u \in timers' : 0 - (R(u.when))' <= Left(u, timers, tick)'
    <3> TAKE u \in timers'
    <3>1. /\ R(u.when) \in Int /\ (R(u.when))' = R(u.when)
          /\ Left(u, timers, tick)' \in Int /\ 0 <= Left(u, timers, tick)'
      BY <1>1
    <3>2. CASE R(u.when) < R(t.when)
      <4>1. u \in timers /\ Left(u, timers, tick)' = Left(u, timers, tick)
        BY <1>1, <3>2
      <4>2. 0 - R(u.when) <= Left(u, timers, tick)
        BY <1>7, <4>1 DEF Timely, WhileRunning
      <4> QED
        BY <3>1, <4>1, <4>2
    <3>3. CASE ~(R(u.when) < R(t.when))
      BY <1>2, <3>1, <3>3
    <3> QED
      BY <3>2, <3>3
  <2>2. /\ (R(now))' >= 0 - Backlog
        /\ alarm'.active => (R(alarm.at))' >= 1
    BY <1>2, <1>7 DEF Timely, WhileRunning
  <2>3. WhileRunning'
    BY <2>1, <2>2 DEF WhileRunning, Backlog, Turn
  <2> QED
    BY <1>1, <1>2, <1>5, <1>6, <1>7, <2>3 DEF Timely, Backlog, Turn
<1>8. CASE pc = "idle"
  <2>1. WhileIdle /\ timers # {} /\ timers' # {}
    BY <1>8, <1>3 DEF Timely
  <2>2. /\ alarm.active
        /\ \E u \in timers : u.when = alarm.iTimerNext
        /\ \A u \in timers : R(alarm.iTimerNext) <= R(u.when)
        /\ R(alarm.at) >= -MaxLate
        /\ R(alarm.iTimerNext) - R(now) <= Backlog + MaxIdle + 2 * MaxAfter + MaxLate - 2
        /\ R(alarm.at) - R(now) <= Backlog + MaxIdle + 2 * MaxAfter + MaxLate - 1
    BY <2>1 DEF WhileIdle
  <2>3. \A u \in timers' : R(alarm.iTimerNext) <= R(u.when)
    <3> TAKE u \in timers'
    <3>1. CASE u \in timers
      BY <2>2, <3>1
    <3>2. CASE u = t
      <4>1. R(first.when) \in Int /\ R(alarm.iTimerNext) <= R(first.when)
        BY <1>1, <2>2
      <4> QED
        BY <1>2, <1>4, <3>2, <4>1
    <3> QED
      BY <3>1, <3>2
  <2>4. \A u \in timers' : 0 - (R(u.when))' <= Left(u, timers, tick)' + 1 - (R(alarm.at))'
    <3> TAKE u \in timers'
    <3>1. /\ R(u.when) \in Int /\ (R(u.when))' = R(u.when)
          /\ Left(u, timers, tick)' \in Int /\ 0 <= Left(u, timers, tick)'
          /\ R(alarm.iTimerNext) <= R(u.when)
      BY <1>1, <2>3
    <3>2. CASE R(u.when) < R(t.when)
      <4>1. u \in timers /\ Left(u, timers, tick)' = Left(u, timers, tick)
        BY <1>1, <3>2
      <4>2. 0 - R(u.when) <= Left(u, timers, tick) + 1 - R(alarm.at)
        BY <2>1, <2>2, <4>1 DEF WhileIdle
      <4> QED
        BY <1>2, <3>1, <4>1, <4>2
    <3>3. CASE ~(R(u.when) < R(t.when))
      <4>1. R(u.when) >= 0
        BY <1>2, <3>1, <3>3
      <4>2. R(alarm.at) = R(alarm.iTimerNext) \/ R(alarm.at) <= 1
        BY <1>5, <2>2
      <4> QED
        BY <1>2, <3>1, <4>1, <4>2
    <3> QED
      BY <3>2, <3>3
  <2>5. \A u \in timers' : Minus(u.when, now)' > 0
    BY <2>1 DEF WhileIdle
  <2>6. /\ \A u \in timers' : (R(alarm.iTimerNext))' <= (R(u.when))'
        /\ \E u \in timers' : u.when = alarm'.iTimerNext
    BY <1>1, <1>2, <2>2, <2>3
  <2>7. WhileIdle'
    BY <1>2, <2>1, <2>2, <2>4, <2>5, <2>6 DEF WhileIdle, Backlog, Turn
  <2> QED
    BY <1>1, <1>2, <1>5, <1>6, <1>8, <2>7 DEF Timely, Backlog, Turn
<1> QED
  BY <1>7, <1>8

LEMMA TimelySchedule ==
    ASSUME TimingAssumption, RoomEnough, TypeOK, Timely,
           NEW c \in Ctx, NEW d \in Delays, Schedule(c, d)
    PROVE  Timely'
<1> DEFINE t == [ctx |-> c, when |-> DueTime(d)]
<1>1. t.when = DueTime(d)
  OBVIOUS
<1>2. /\ pc \in {"idle", "callback"}
      /\ Cardinality(timers \cup {t}) <= MaxTimers
      /\ timers' = timers \cup {t}
      /\ UNCHANGED <<tick, now, pc>>
      /\ \/ t \in timers /\ UNCHANGED <<alarm, fault>>
         \/ IsFirst(timers', t) /\ Notify(t.when)
         \/ /\ \E u \in timers : Minus(u.when, now) <= Minus(t.when, now)
            /\ UNCHANGED <<alarm, fault>>
  BY DEF Schedule, ClientMayCall
<1> HIDE DEF t
<1>3. /\ t.when \in Word /\ 0 <= R(t.when) /\ R(t.when) < MaxAfter
      /\ Minus(t.when, now) = R(t.when) - R(now) /\ Minus(t.when, now) > 0
  BY <1>1, DueTimeIs
<1>4. CASE t \in timers /\ UNCHANGED <<alarm, fault>>
  <2>1. Minus(t.when, now) <= Minus(t.when, now)
    <3>1. Minus(t.when, now) \in Int
      BY <1>3, MinusIs DEF TypeOK
    <3> QED
      BY <3>1
  <2> QED
    BY <1>2, <1>3, <1>4, <2>1, TimelyScheduleLater
<1>5. CASE IsFirst(timers', t) /\ Notify(t.when)
  BY <1>2, <1>3, <1>5, TimelyScheduleFirst
<1>6. CASE /\ \E u \in timers : Minus(u.when, now) <= Minus(t.when, now)
           /\ UNCHANGED <<alarm, fault>>
  BY <1>2, <1>3, <1>6, TimelyScheduleLater
<1> QED
  BY <1>2, <1>4, <1>5, <1>6

LEMMA TimelyTick ==
    ASSUME TimingAssumption, RoomEnough, TypeOK, Timely, Tick
    PROVE  Timely'
<1>1. /\ pc = "idle" /\ tick' = Plus(tick, 1)
      /\ UNCHANGED <<now, timers, alarm, pc, fault>>
      /\ alarm.active => Minus(tick, alarm.at) < MaxLate
      /\ ~alarm.active => Minus(tick, now) < MaxIdle
  BY DEF Tick
<1>2. /\ tick \in Word /\ now \in Word /\ R(now) \in Int
      /\ R(now) > 0 - (Backlog + MaxIdle + 2 * MaxAfter + 2 * MaxLate)
      /\ alarm.active \in BOOLEAN
      /\ alarm.at \in Word /\ alarm.iTimerNext \in Word
      /\ R(alarm.at) \in Int /\ R(alarm.iTimerNext) \in Int
  BY Bounds
<1>3. \A u \in timers :
        /\ u.when \in Word /\ R(u.when) \in Int
        /\ 0 - Backlog <= R(u.when) /\ R(u.when) < MaxAfter
        /\ Left(u, timers, tick) \in Int
  BY Bounds
<1>4. /\ Half \in Nat /\ Half > 1 /\ MaxLate \in Nat /\ MaxIdle \in Nat /\ MaxAfter \in Nat
      /\ MaxEarly \in Nat
      /\ Turn \in Nat /\ Turn = MaxLate + 1 /\ Backlog \in Nat
      /\ MaxAfter > 1
      /\ Backlog + MaxIdle + 3 * MaxAfter + 2 * MaxLate <= Half
  BY Constants
<1>5. WhileIdle
  BY <1>1 DEF Timely
<1>6. alarm.active =>
          /\ R(alarm.at) < MaxAfter
          /\ R(alarm.iTimerNext) <= R(alarm.at)
          /\ R(alarm.at) = R(alarm.iTimerNext) \/ R(alarm.at) <= 1
          /\ 0 - R(alarm.iTimerNext) <= Backlog - Turn + 1 - R(alarm.at)
          /\ R(alarm.at) >= 0 - MaxLate
  <2>1. -MaxLate = 0 - MaxLate
    BY <1>4
  <2> QED
    BY <1>5, <2>1 DEF Timely, WhileIdle
<1>7. (R(now))' = R(now) - 1
  <2>1. R(now) > 0 - Half
    <3> HIDE DEF R, Backlog
    <3> QED
      BY <1>2, <1>4
  <2> QED
    BY <1>1, <1>2, <1>4, <2>1, MinusNext DEF R
<1>8. \A u \in timers : (R(u.when))' = R(u.when) - 1
  <2> TAKE u \in timers
  <2>1. R(u.when) > 0 - Half
    <3> HIDE DEF R, Backlog
    <3> QED
      BY <1>3, <1>4
  <2>2. u.when \in Word
    BY <1>3
  <2> QED
    BY <1>1, <1>2, <1>4, <2>1, <2>2, MinusNext DEF R
<1>9. ASSUME alarm.active
      PROVE  /\ (R(alarm.at))' = R(alarm.at) - 1
             /\ (R(alarm.iTimerNext))' = R(alarm.iTimerNext) - 1
             /\ R(alarm.at) > 0 - MaxLate
  <2>1. R(alarm.at) > 0 - Half /\ R(alarm.iTimerNext) > 0 - Half
    <3> HIDE DEF R, Backlog, Turn
    <3> QED
      BY <1>2, <1>4, <1>6, <1>9
  <2>2. (R(alarm.at))' = R(alarm.at) - 1 /\ (R(alarm.iTimerNext))' = R(alarm.iTimerNext) - 1
    BY <1>1, <1>2, <1>4, <2>1, MinusNext DEF R
  <2>3. Minus(tick, alarm.at) = 0 - R(alarm.at)
    BY <1>2, <2>1, MinusNegative DEF R
  <2> QED
    BY <1>1, <1>2, <1>4, <1>9, <2>2, <2>3
<1>10. ASSUME ~alarm.active
       PROVE  (R(now))' >= 0 - (Backlog + MaxIdle)
  <2>1. R(now) > 0 - Half
    <3> HIDE DEF R, Backlog
    <3> QED
      BY <1>2, <1>4
  <2>2. Minus(tick, now) = 0 - R(now)
    BY <1>2, <2>1, MinusNegative DEF R
  <2> HIDE DEF R, Backlog
  <2> QED
    BY <1>1, <1>2, <1>4, <1>7, <1>10, <2>2
<1>11. \A u \in timers : Left(u, timers, tick)' = Left(u, timers, tick)
  <2>1. \A v \in timers : Minus(v.when, tick) \in Int /\ Minus(v.when, tick') = Minus(v.when, tick) - 1
    BY <1>1, <1>3, <1>8 DEF R
  <2>2. \A u \in timers : Left(u, timers, tick') = Left(u, timers, tick)
    BY <2>1, LeftTick
  <2>3. timers' = timers
    BY <1>1
  <2>4. \A u : Left(u, timers, tick)' = Left(u, timers', tick')
    BY DEF Left, Before
  <2> QED
    BY <2>2, <2>3, <2>4
<1> HIDE DEF R, Left
<1>12. /\ timers' = timers /\ alarm' = alarm /\ pc' = "idle"
       /\ \A u \in timers' : Minus(u.when, now)' = Minus(u.when, now)
  BY <1>1
<1>13. alarm'.active =>
          /\ (R(alarm.at))' < MaxAfter
          /\ (R(alarm.iTimerNext))' <= (R(alarm.at))'
          /\ (R(alarm.at))' = (R(alarm.iTimerNext))' \/ (R(alarm.at))' <= 1
          /\ 0 - (R(alarm.iTimerNext))' <= Backlog - Turn + 1 - (R(alarm.at))'
          /\ (R(alarm.at))' >= -MaxLate
  <2> HIDE DEF Backlog, Turn
  <2> QED
    BY <1>2, <1>4, <1>6, <1>9, <1>12
<1>14. alarm'.active =>
          /\ timers' = {} => (R(alarm.at))' - (R(now))' <= Backlog + MaxIdle + MaxAfter - 1
          /\ timers' # {} =>
                /\ (R(alarm.iTimerNext))' - (R(now))' <= Backlog + MaxIdle + 2 * MaxAfter + MaxLate - 2
                /\ (R(alarm.at))' - (R(now))' <= Backlog + MaxIdle + 2 * MaxAfter + MaxLate - 1
  <2>1. alarm.active =>
          /\ timers = {} => R(alarm.at) - R(now) <= Backlog + MaxIdle + MaxAfter - 1
          /\ timers # {} =>
                /\ R(alarm.iTimerNext) - R(now) <= Backlog + MaxIdle + 2 * MaxAfter + MaxLate - 2
                /\ R(alarm.at) - R(now) <= Backlog + MaxIdle + 2 * MaxAfter + MaxLate - 1
    BY <1>5 DEF WhileIdle
  <2>2. alarm.active =>
          /\ (R(alarm.at))' - (R(now))' = R(alarm.at) - R(now)
          /\ (R(alarm.iTimerNext))' - (R(now))' = R(alarm.iTimerNext) - R(now)
    BY <1>2, <1>7, <1>9
  <2> QED
    BY <1>12, <2>1, <2>2
<1>15. alarm'.active =>
          \A u \in timers' : 0 - (R(u.when))' <= Left(u, timers, tick)' + 1 - (R(alarm.at))'
  <2> SUFFICES ASSUME alarm.active, NEW u \in timers
               PROVE  0 - (R(u.when))' <= Left(u, timers, tick)' + 1 - (R(alarm.at))'
    BY <1>12
  <2>1. 0 - R(u.when) <= Left(u, timers, tick) + 1 - R(alarm.at)
    BY <1>5 DEF WhileIdle
  <2>2. (R(u.when))' = R(u.when) - 1 /\ Left(u, timers, tick)' = Left(u, timers, tick)
    BY <1>8, <1>11
  <2> QED
    BY <1>2, <1>3, <1>9, <2>1, <2>2
<1>16. timers' # {} =>
          /\ alarm'.active
          /\ \E t \in timers' : t.when = alarm'.iTimerNext
          /\ \A t \in timers' : (R(alarm.iTimerNext))' <= (R(t.when))'
  <2> SUFFICES ASSUME timers # {}
               PROVE  /\ alarm.active
                      /\ \E t \in timers : t.when = alarm.iTimerNext
                      /\ \A t \in timers : (R(alarm.iTimerNext))' <= (R(t.when))'
    BY <1>12
  <2>1. /\ alarm.active
        /\ \E t \in timers : t.when = alarm.iTimerNext
        /\ \A t \in timers : R(alarm.iTimerNext) <= R(t.when)
    BY <1>5 DEF WhileIdle
  <2> QED
    BY <1>2, <1>3, <1>8, <1>9, <2>1
<1>17. WhileIdle'
  <2>1. \A t \in timers' : Minus(t.when, now)' > 0
    BY <1>5, <1>12 DEF WhileIdle
  <2> QED
    BY <1>10, <1>12, <1>13, <1>14, <1>15, <1>16, <2>1 DEF WhileIdle, Backlog, Turn
<1>18. (R(now))' <= MaxEarly /\ \A u \in timers' : (R(u.when))' < MaxAfter
  <2>1. R(now) <= MaxEarly
    BY DEF Timely
  <2> QED
    BY <1>2, <1>3, <1>4, <1>7, <1>8, <1>12, <2>1
<1>19. /\ IsFiniteSet(timers') /\ Cardinality(timers') <= MaxTimers
       /\ "after" \notin fault'
  BY <1>1 DEF Timely
<1> QED
  BY <1>12, <1>13, <1>17, <1>18, <1>19 DEF Timely, Backlog, Turn

LEMMA TimelyStep ==
    ASSUME TimingAssumption, RoomEnough, TypeOK, Timely, [Next]_vars
    PROVE  Timely'
<1>1. CASE \E c \in Ctx : Expire(c) \/ \E d \in Delays : Schedule(c, d)
  BY <1>1, TimelyExpire, TimelySchedule
<1>2. CASE Wake
  BY <1>2, TimelyWake
<1>3. CASE RunTimers
  BY <1>3, TimelyDropFirst, TimelyRunFirst, TimelyReturn, TimelyFinish DEF RunTimers
<1>4. CASE Tick
  BY <1>4, TimelyTick
<1>5. CASE UNCHANGED vars
  BY <1>5, TimelyUnchanged
<1> QED
  BY <1>1, <1>2, <1>3, <1>4, <1>5 DEF Next

LEMMA TimelyInvariant == RoomEnough /\ Spec => [](RoomEnough /\ TypeOK /\ Timely)
<1>1. RoomEnough /\ Init => TypeOK /\ Timely
  BY TypeInit, TimelyInit, TimingAssumption
<1>2. RoomEnough /\ TypeOK /\ Timely /\ [Next]_vars => TypeOK' /\ Timely'
  BY TypeStep, TimelyStep, TimingAssumption
<1>3. RoomEnough => []RoomEnough
  OBVIOUS
<1> QED
  BY <1>1, <1>2, <1>3, PTL DEF Spec

(* Between runs all timers are ahead of the time of the last run, although  *)
(* that moves while they are in the tree, a run may be early or late, and   *)
(* ticks wrap round: compare_timers() never changes its mind about an order.*)
THEOREM TimersAheadCorrect == RoomEnough /\ Spec => []TimersAreAhead
<1>1. Timely => TimersAreAhead
  BY DEF Timely, WhileIdle, TimersAreAhead
<1> QED
  BY <1>1, TimelyInvariant, PTL

(* Between runs the front end's one-shot timer is set for the first timer   *)
(* of the tree, and it is never asked for a wait it cannot do: as long as   *)
(* the sum of all that can be late is less than half the range, a timer     *)
(* that is behind is never taken for one that is far ahead.                 *)
THEOREM FrontEndCorrect == RoomEnough /\ Spec => []FrontEndKnows
<1>1. RoomEnough /\ TypeOK /\ Timely => FrontEndKnows
  <2> SUFFICES ASSUME RoomEnough, TypeOK, Timely, pc = "idle", NEW t \in timers
               PROVE  alarm.active /\ Minus(alarm.iTimerNext, t.when) <= 0
    BY DEF FrontEndKnows, Timely
  <2>1. WhileIdle
    BY DEF Timely
  <2>2. /\ alarm.active
        /\ R(alarm.iTimerNext) <= R(t.when)
        /\ \E u \in timers : u.when = alarm.iTimerNext
    BY <2>1 DEF WhileIdle
  <2>3. /\ tick \in Word /\ t.when \in Word /\ alarm.iTimerNext \in Word
        /\ R(t.when) \in Int /\ R(alarm.iTimerNext) \in Int
        /\ R(t.when) < MaxAfter /\ 0 - Backlog <= R(alarm.iTimerNext)
    BY <2>2, Bounds, TimingAssumption
  <2>4. /\ Half \in Nat /\ Backlog \in Nat /\ MaxAfter \in Nat /\ MaxIdle \in Nat /\ MaxLate \in Nat
        /\ Backlog + MaxIdle + 3 * MaxAfter + 2 * MaxLate <= Half
    BY Constants, TimingAssumption
  <2>5. 0 - Half <= R(alarm.iTimerNext) - R(t.when) /\ R(alarm.iTimerNext) - R(t.when) < Half
    <3> HIDE DEF R, Backlog
    <3> QED
      BY <2>2, <2>3, <2>4
  <2>6. Minus(alarm.iTimerNext, t.when) = R(alarm.iTimerNext) - R(t.when)
    BY <2>3, <2>5, MinusFrom, TimingAssumption DEF R
  <2> HIDE DEF R
  <2> QED
    BY <2>2, <2>3, <2>6
<1> QED
  BY <1>1, TimelyInvariant, PTL
===============================================================================
