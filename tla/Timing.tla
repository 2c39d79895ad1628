-------------------------------- MODULE Timing --------------------------------
(***************************************************************************)
(* Timers: src/engine/putty/timing.c with the front end's half of it in     *)
(* src/engine/puttyengineimp.cpp (putty_timer_change_notify(),              *)
(* DoTimerCallback()) and the COneShotTimer below that.                     *)
(*                                                                         *)
(* Ticks are machine words that wrap round, and times are compared by the   *)
(* sign of their difference.  Timers belong to contexts - a terminal, an    *)
(* SSH connection, a pinger, the random pool - which are addresses: one may *)
(* be freed, which expires the context, and come back as that of another    *)
(* object.  run_timers() calls back into its clients, which schedule and    *)
(* expire from there.                                                       *)
(***************************************************************************)
EXTENDS Integers, FiniteSets

CONSTANTS
    Ctx,       \* context pointers
    Half,      \* half the range of a tick count: ticks are modulo 2 * Half
    Delays,    \* what clients ask schedule_timer() for
    MaxAfter,  \* the longest wait the front end can ask of COneShotTimer
    MaxEarly,  \* bound: how early, by the tick count, the one-shot timer runs
    MaxLate,   \* bound: how late it runs
    MaxIdle,   \* bound: how far the ticks get ahead of the last run_timers()
    MaxTimers, \* bound: timers in the tree
    CanReuse   \* whether an expired context is used again

Word == 0 .. 2 * Half - 1

ASSUME TimingAssumption ==
    /\ Half \in Nat \ {0}
    /\ Delays \subseteq 0 .. Half - 1
    /\ {MaxAfter, MaxEarly, MaxLate, MaxIdle, MaxTimers} \subseteq Nat
    /\ CanReuse \in BOOLEAN

VARIABLES
    tick,      \* GETTICKCOUNT()
    now,       \* statics()->now
    timers,    \* statics()->timers
    contexts,  \* statics()->timer_contexts
    expired,   \* history: contexts that have been expired
    alarm,     \* COneShotTimer and iTimerNext
    pc,        \* where run_timers() is
    owed,      \* history: timers scheduled, and neither run nor expired since
    fault      \* what happened that should not

vars == <<tick, now, timers, contexts, expired, alarm, pc, owed, fault>>

-------------------------------------------------------------------------------

Timers == [ctx : Ctx, when : Word]

(* "at": the tick at which the one-shot timer should run. *)
Alarms == [active : BOOLEAN, at : Word, iTimerNext : Word]

TypeOK ==
    /\ tick \in Word /\ now \in Word
    /\ timers \in SUBSET Timers
    /\ contexts \in SUBSET Ctx
    /\ expired \in SUBSET Ctx
    /\ alarm \in Alarms
    /\ pc \in {"idle", "loop", "callback"}
    /\ owed \in SUBSET Timers
    /\ fault \in SUBSET {"after", "annulled"}

Init ==
    /\ tick \in Word
    /\ now = tick
    /\ timers = {}
    /\ contexts = {}
    /\ expired = {}
    /\ alarm = [active |-> FALSE, at |-> 0, iTimerNext |-> 0]
    /\ pc = "idle"
    /\ owed = {}
    /\ fault = {}

-------------------------------------------------------------------------------

Plus(a, d) == (a + d) % (2 * Half)

(* (long)(a - b) *)
Minus(a, b) ==
    LET d == (a - b) % (2 * Half) IN IF d >= Half THEN d - 2 * Half ELSE d

(* compare_timers(): by the time since statics()->now; ties are broken by   *)
(* the pointers, in some order.                                             *)
IsFirst(set, t) == \A u \in set : Minus(t.when, now) <= Minus(u.when, now)

(* Each definition whose name has "Faulty" in it is the one that follows it *)
(* with a plausible mistake made in it: the mistakes that the properties at *)
(* the end of the module are there to find.                                 *)
NotifyFaultyUnlessActive(t) ==
    IF alarm.active
    THEN UNCHANGED <<alarm, fault>>
    ELSE LET ticks == IF Minus(t, tick) <= 0 THEN 1 ELSE Minus(t, tick) IN
         /\ fault' = IF ticks < MaxAfter THEN fault ELSE fault \cup {"after"}
         /\ alarm' = [active |-> TRUE, at |-> Plus(tick, ticks), iTimerNext |-> t]

(* timer_change_notify(): the front end sets its one-shot timer anew.       *)
Notify(t) ==
    LET ticks == IF Minus(t, tick) <= 0 THEN 1 ELSE Minus(t, tick) IN
    /\ fault' = IF ticks < MaxAfter THEN fault ELSE fault \cup {"after"}
    /\ alarm' = [active |-> TRUE, at |-> Plus(tick, ticks), iTimerNext |-> t]

(* Clients call from the active scheduler or from a timer's callback. *)
ClientMayCall == pc \in {"idle", "callback"} /\ fault = {}

DueTimeFaultyNoGuard(d) == Plus(tick, d)

(* The time of a timer for d ticks from now.  One that is in the past by    *)
(* statics()->now is moved to the immediate future.                         *)
DueTime(d) ==
    IF Minus(Plus(tick, d), now) <= 0 THEN Plus(now, 1) ELSE Plus(tick, d)

(* schedule_timer().  If an identical timer exists the context is not       *)
(* entered, and the front end is not notified.                              *)
Schedule(c, d) ==
    /\ ClientMayCall
    /\ c \in expired => CanReuse
    /\ LET t == [ctx |-> c, when |-> DueTime(d)] IN
       /\ Cardinality(timers \cup {t}) <= MaxTimers
       /\ timers' = timers \cup {t}
       /\ owed' = owed \cup {t}
       /\ \/ t \in timers /\ UNCHANGED <<contexts, alarm, fault>>
          \/ /\ t \notin timers
             /\ contexts' = contexts \cup {c}
             /\ \/ IsFirst(timers', t) /\ Notify(t.when)
                \/ /\ \E u \in timers : Minus(u.when, now) <= Minus(t.when, now)
                   /\ UNCHANGED <<alarm, fault>>
    /\ UNCHANGED <<tick, now, expired, pc>>

ExpireFaultyForgotten(c) ==
    /\ ClientMayCall
    /\ expired' = expired \cup {c}
    /\ owed' = {t \in owed : t.ctx # c}
    /\ UNCHANGED <<tick, now, timers, contexts, alarm, pc, fault>>

(* expire_timer_context(): the timers stay where they are. *)
Expire(c) ==
    /\ ClientMayCall
    /\ contexts' = contexts \ {c}
    /\ expired' = expired \cup {c}
    /\ owed' = {t \in owed : t.ctx # c}
    /\ UNCHANGED <<tick, now, timers, alarm, pc, fault>>

-------------------------------------------------------------------------------
(* run_timers()                                                             *)

(* The one-shot timer runs, perhaps a little early or late, and             *)
(* DoTimerCallback() passes on the time it was set for.                     *)
Wake ==
    /\ pc = "idle" /\ fault = {}
    /\ alarm.active
    /\ Minus(tick, alarm.at) >= -MaxEarly
    /\ alarm' = [alarm EXCEPT !.active = FALSE]
    /\ now' = alarm.iTimerNext
    /\ pc' = "loop"
    /\ UNCHANGED <<tick, timers, contexts, expired, owed, fault>>

DropFirstFaultyAny ==
    /\ pc = "loop" /\ fault = {}
    /\ \E t \in timers :
          /\ IsFirst(timers, t)
          /\ timers' = timers \ {t}
    /\ UNCHANGED <<tick, now, contexts, expired, alarm, pc, owed, fault>>

(* The first timer is that of a context that has been expired. *)
DropFirst ==
    /\ pc = "loop" /\ fault = {}
    /\ \E t \in timers :
          /\ IsFirst(timers, t)
          /\ t.ctx \notin contexts
          /\ timers' = timers \ {t}
    /\ UNCHANGED <<tick, now, contexts, expired, alarm, pc, owed, fault>>

(* The first timer is due: it is run. *)
RunFirst ==
    /\ pc = "loop" /\ fault = {}
    /\ \E t \in timers :
          /\ IsFirst(timers, t)
          /\ t.ctx \in contexts
          /\ Minus(t.when, now) <= 0
          /\ timers' = timers \ {t}
          /\ owed' = owed \ {t}
          /\ fault' = IF t \in owed THEN {} ELSE {"annulled"}
    /\ pc' = "callback"
    /\ UNCHANGED <<tick, now, contexts, expired, alarm>>

(* Its callback returns. *)
Return ==
    /\ pc = "callback" /\ fault = {}
    /\ pc' = "loop"
    /\ UNCHANGED <<tick, now, timers, contexts, expired, alarm, owed, fault>>

FinishFaultyNoNotify ==
    /\ pc = "loop" /\ fault = {}
    /\ \A t \in timers : IsFirst(timers, t) => t.ctx \in contexts /\ Minus(t.when, now) > 0
    /\ pc' = "idle"
    /\ UNCHANGED <<tick, now, timers, contexts, expired, alarm, owed, fault>>

(* The first timer is in the future, or there is none. *)
Finish ==
    /\ pc = "loop" /\ fault = {}
    /\ \/ timers = {} /\ UNCHANGED <<alarm, fault>>
       \/ \E t \in timers :
             /\ IsFirst(timers, t)
             /\ t.ctx \in contexts
             /\ Minus(t.when, now) > 0
             /\ Notify(t.when)
    /\ pc' = "idle"
    /\ UNCHANGED <<tick, now, timers, contexts, expired, owed>>

(* Time passes.  The one-shot timer is not later than MaxLate, and timers   *)
(* are run often enough for times to be comparable.                         *)
Tick ==
    /\ pc = "idle" /\ fault = {}
    /\ IF alarm.active
       THEN Minus(tick, alarm.at) < MaxLate
       ELSE Minus(tick, now) < MaxIdle
    /\ tick' = Plus(tick, 1)
    /\ UNCHANGED <<now, timers, contexts, expired, alarm, pc, owed, fault>>

-------------------------------------------------------------------------------

RunTimers == DropFirst \/ RunFirst \/ Return \/ Finish

Next ==
    \/ \E c \in Ctx : Expire(c) \/ \E d \in Delays : Schedule(c, d)
    \/ Wake
    \/ RunTimers
    \/ Tick

(* Time passes, the one-shot timer runs, and run_timers() and the callbacks *)
(* it makes go on to their ends.                                            *)
Fairness == WF_vars(Tick) /\ WF_vars(Wake) /\ WF_vars(RunTimers)

Spec == Init /\ [][Next]_vars

FairSpec == Spec /\ Fairness

-------------------------------------------------------------------------------
(* Properties                                                               *)

(* Between runs every timer is in the future of statics()->now, by less     *)
(* than half the range: compare_timers() sorts them in one and the same way *)
(* although "now" changes while they are in the tree and ticks wrap round.  *)
TimersAreAhead ==
    pc = "idle" => \A t \in timers : Minus(t.when, now) > 0

(* While there is a timer, the front end has its one-shot timer running,    *)
(* for a time that is not after it: however scheduling and expiring are     *)
(* mixed, from outside or from callbacks, no timer is forgotten.  And the   *)
(* front end's assertion that a wait is not too long for COneShotTimer,     *)
(* whose unit is the microsecond, does not fail while clients ask for       *)
(* delays shorter than that: no difference of ticks is taken the wrong way. *)
FrontEndKnows ==
    /\ pc = "idle" /\ timers # {} =>
          /\ alarm.active
          /\ \A t \in timers : Minus(alarm.iTimerNext, t.when) <= 0
    /\ "after" \notin fault

(* A timer that has been scheduled, and whose context has not been expired  *)
(* since, is in the tree and will not be thrown away.                       *)
NoTimerIsLost ==
    \A t \in owed : t \in timers /\ t.ctx \in contexts

(* "if a context is freed all the timers associated with it can be          *)
(* immediately annulled" (timing.c): a timer of a context that was expired  *)
(* after scheduling it is never run.                                        *)
AnnulledNeverRuns == "annulled" \notin fault

(* A timer runs in the end, unless its context is expired.  Ticks start     *)
(* anywhere and only their differences count, so that what is true of the   *)
(* timers for tick 0 is true of all.                                        *)
TimersRun ==
    \A c \in Ctx :
        LET t == [ctx |-> c, when |-> 0]
        IN  t \in owed ~> (t \notin owed \/ fault # {})
===============================================================================
