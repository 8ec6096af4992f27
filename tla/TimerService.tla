---------------------------- MODULE TimerService ----------------------------
(***************************************************************************)
(* infra::TickOnInterruptTimerService with the timers registered at it:    *)
(* the interrupt that counts ticks, ProcessTicks that runs as an event, in *)
(* steps between which the interrupt may come, and timers that are started *)
(* and cancelled by other events and by the actions of timers themselves.  *)
(***************************************************************************)
EXTENDS Integers, Sequences, FiniteSetsExt, SequencesExt

CONSTANTS
    SingleShot, Repeating,  \* the timers of either kind
    Durations,              \* how long they are started for
    Resolution,             \* the time of a tick
    MaxTicks,               \* the largest number of ticks a counter holds, 2^32 - 1 in the code
    MaxTime                 \* bound: how far time goes

Timers == SingleShot \cup Repeating
Never == MaxTime + 1000     \* TimePoint::max()

ASSUME TimerServiceAssumption ==
    /\ SingleShot \cap Repeating = {}
    /\ Durations \subseteq Nat \ {0}
    /\ Resolution \in Nat \ {0} /\ MaxTicks \in Nat \ {0} /\ MaxTime \in Nat

VARIABLES
    scheduledTimers,    \* the armed timers, the one registered last in front
    trigger,            \* nextTriggerTime of each timer
    period,             \* triggerPeriod of the repeating timers
    service,            \* the members of TimerService
    ticks,              \* the members of TickOnInterruptTimerService
    event,              \* ProcessTicks: "none", "queued", or where it is
    earliestAllowed,    \* history: when each timer may trigger at the earliest
    last                \* history: the trigger time of the action run last in this event

vars == <<scheduledTimers, trigger, period, service, ticks, event, earliestAllowed, last>>

Now(k) == k.systemTime + k.progressed * Resolution

EarliestTrigger(list, times) == Min({times[list[i]] : i \in DOMAIN list} \cup {Never})

-----------------------------------------------------------------------------
(* A state of the service is a record of the four variables that timers and *)
(* the service change together.                                             *)

State == [list |-> scheduledTimers, trigger |-> trigger, period |-> period, service |-> service, ticks |-> ticks]

Becomes(s) ==
    /\ scheduledTimers' = s.list /\ trigger' = s.trigger /\ period' = s.period
    /\ service' = s.service /\ ticks' = s.ticks

\* Mutant: the division is rounded up once too often.
MutCalculateNextTrigger(s) ==
    LET cut == ((s.service.nextTrigger - s.ticks.systemTime + Resolution) \div Resolution) % (MaxTicks + 1)
        half == MaxTicks \div 2
    IN  [s EXCEPT !.ticks.nextNotification =
            IF s.service.nextTrigger # Never /\ cut < half THEN cut ELSE half]

\* NextTriggerChanged: the ticks until the next trigger are cut to the width of
\* the counter before they are limited
CalculateNextTrigger(s) ==
    LET duration == IF s.service.nextTrigger > s.ticks.systemTime
                    THEN s.service.nextTrigger - s.ticks.systemTime ELSE 0
        cut == ((duration + Resolution - 1) \div Resolution) % (MaxTicks + 1)
        half == MaxTicks \div 2
    IN  [s EXCEPT !.ticks.nextNotification =
            IF s.service.nextTrigger # Never /\ cut < half THEN cut ELSE half]

\* Mutant: an update that is held is forgotten.
MutComputeNextTrigger(s) ==
    LET next == EarliestTrigger(s.list, s.trigger)
    IN  IF s.service.holdUpdate \/ next = s.service.nextTrigger THEN s
        ELSE CalculateNextTrigger([s EXCEPT !.service.nextTrigger = next])

ComputeNextTrigger(s) ==
    LET next == EarliestTrigger(s.list, s.trigger)
        t == [s EXCEPT !.service.updateNeeded = FALSE, !.service.nextTrigger = next]
    IN  CASE s.service.holdUpdate -> [s EXCEPT !.service.updateNeeded = TRUE]
          [] ~s.service.holdUpdate /\ next # s.service.nextTrigger -> CalculateNextTrigger(t)
          [] OTHER -> t

RegisterTimer(s, timer) ==
    LET t == [s EXCEPT !.list = <<timer>> \o @]
    IN  IF s.trigger[timer] < s.service.nextTrigger
        THEN CalculateNextTrigger([t EXCEPT !.service.nextTrigger = s.trigger[timer]])
        ELSE t

UnregisterTimer(s, timer, old) ==
    LET t == [s EXCEPT !.list = RemoveAt(@, CHOOSE i \in DOMAIN @ : @[i] = timer)]
    IN  IF old = s.service.nextTrigger THEN ComputeNextTrigger(t) ELSE t

UpdateTriggerTime(s, timer, old) ==
    IF s.service.nextTrigger = old \/ s.trigger[timer] < s.service.nextTrigger THEN ComputeNextTrigger(s) ELSE s

Cancel(s, timer) ==
    LET t == IF Contains(s.list, timer) THEN UnregisterTimer(s, timer, s.trigger[timer]) ELSE s
    IN  [t EXCEPT !.trigger[timer] = 0]

SetNextTriggerTime(s, timer, time) ==
    LET t == [s EXCEPT !.trigger[timer] = time]
    IN  IF Contains(s.list, timer)
        THEN UpdateTriggerTime(t, timer, s.trigger[timer])
        ELSE RegisterTimer(t, timer)

\* Mutant: the tick that is under way is counted as a whole one.
MutStart(s, timer, duration) ==
    SetNextTriggerTime([s EXCEPT !.period = [t \in DOMAIN @ |-> IF t = timer THEN duration ELSE @[t]]],
                       timer, Now(s.ticks) + duration)

Start(s, timer, duration) ==
    SetNextTriggerTime([s EXCEPT !.period = [t \in DOMAIN @ |-> IF t = timer THEN duration ELSE @[t]]],
                       timer, Now(s.ticks) + duration + Resolution)

\* A single shot timer cancels itself; a repeating one goes on in step with its start.
ComputeNextTriggerTime(s, timer) ==
    IF timer \in SingleShot
    THEN Cancel(s, timer)
    ELSE LET now == Max({Now(s.ticks), s.trigger[timer]})
             diff == (now - s.trigger[timer]) % s.period[timer]
         IN  SetNextTriggerTime(s, timer, now - diff + s.period[timer])

-----------------------------------------------------------------------------
(* What timers are asked to do: nothing, by the action of a timer, or one   *)
(* thing, by it or by another event.                                        *)

Requests == {[timer |-> t, duration |-> d] : t \in Timers, d \in Durations \cup {0}}

Requested(s, request) ==
    IF request.duration = 0 THEN Cancel(s, request.timer) ELSE Start(s, request.timer, request.duration)

\* A timer started within a tick may not trigger before that much time has passed
\* after the end of the tick.
Allowed(s, request) ==
    [earliestAllowed EXCEPT ![request.timer] =
        IF request.duration = 0 THEN 0 ELSE Now(s.ticks) + request.duration + Resolution - 1]

OtherEvent ==
    \E request \in Requests :
        /\ event \in {"none", "queued"}
        /\ Becomes(Requested(State, request))
        /\ earliestAllowed' = Allowed(State, request)
        /\ UNCHANGED <<event, last>>

-----------------------------------------------------------------------------

SystemTickInterrupt ==
    LET k == [ticks EXCEPT !.progressed = @ + 1]
        notify == k.progressed >= k.nextNotification /\ ~k.notificationScheduled
    IN
    /\ Now(ticks) + Resolution <= MaxTime /\ ticks.progressed < MaxTicks
    /\ ticks' = IF notify THEN [k EXCEPT !.notificationScheduled = TRUE] ELSE k
    /\ event' = IF notify THEN "queued" ELSE event
    /\ notify => event # "queued"
    /\ UNCHANGED <<scheduledTimers, trigger, period, service, earliestAllowed, last>>

\* ProcessTicks takes the ticks, and Progressed begins.
TimeProgressed ==
    /\ event = "queued"
    /\ ticks' = [ticks EXCEPT !.systemTime = Now(ticks), !.progressed = 0]
    /\ service' = [service EXCEPT !.holdUpdate = TRUE]
    /\ event' = "progressing"
    /\ UNCHANGED <<scheduledTimers, trigger, period, earliestAllowed, last>>

Due == {i \in DOMAIN scheduledTimers : trigger[scheduledTimers[i]] <= ticks.systemTime}

\* A round of Progressed: the action of the timer that was due first is executed.
\* When it was the only one, that is the last round.
Progressed ==
    LET time(i) == trigger[scheduledTimers[i]]
        earliest == CHOOSE i \in Due : \A j \in Due : time(i) < time(j) \/ (time(i) = time(j) /\ i <= j)
        timer == scheduledTimers[earliest]
        computed == ComputeNextTriggerTime(State, timer)
    IN
    /\ event = "progressing" /\ Due # {}
    /\ \/ Becomes(computed) /\ UNCHANGED earliestAllowed
       \/ \E request \in Requests :
              Becomes(Requested(computed, request)) /\ earliestAllowed' = Allowed(computed, request)
    /\ event' = IF Cardinality(Due) > 1 THEN "progressing" ELSE "progressed"
    /\ last' = trigger[timer]

\* The end of Progressed and NextTriggerChanged; whether ticks that came meanwhile
\* are enough to go on is determined, but not yet stored.
EndOfProgress ==
    LET released == [State EXCEPT !.service.holdUpdate = FALSE]
        s == CalculateNextTrigger(IF service.updateNeeded THEN ComputeNextTrigger(released) ELSE released)
    IN
    /\ event = "progressed" \/ (event = "progressing" /\ Due = {})
    /\ Becomes(s)
    /\ event' = IF s.ticks.progressed >= s.ticks.nextNotification THEN "reschedule" ELSE "done"
    /\ UNCHANGED <<earliestAllowed, last>>

\* notificationScheduled is assigned, and the event scheduled again.
Reschedule ==
    /\ event \in {"reschedule", "done"}
    /\ ticks' = [ticks EXCEPT !.notificationScheduled = (event = "reschedule")]
    /\ event' = IF event = "reschedule" THEN "queued" ELSE "none"
    /\ last' = 0
    /\ UNCHANGED <<scheduledTimers, trigger, period, service, earliestAllowed>>

Init ==
    /\ scheduledTimers = <<>>
    /\ trigger = [t \in Timers |-> 0] /\ period = [t \in Repeating |-> 0]
    /\ service = [nextTrigger |-> Never, holdUpdate |-> FALSE, updateNeeded |-> FALSE]
    /\ ticks = [systemTime |-> 0, progressed |-> 0, nextNotification |-> MaxTicks \div 2, notificationScheduled |-> FALSE]
    /\ event = "none"
    /\ earliestAllowed = [t \in Timers |-> 0]
    /\ last = 0

Next ==
    \/ OtherEvent \/ SystemTickInterrupt
    \/ TimeProgressed \/ Progressed \/ EndOfProgress \/ Reschedule

Spec == Init /\ [][Next]_vars

-----------------------------------------------------------------------------
(* Properties.                                                              *)

\* Between events nextTrigger is the time of the earliest timer, whatever timers
\* and their actions start, cancel and restart while updates are held.
NextTriggerIsEarliest ==
    event \in {"none", "queued"} =>
        service.nextTrigger = EarliestTrigger(scheduledTimers, trigger) /\ ~service.holdUpdate

\* A tick at which a timer is due leaves ProcessTicks scheduled, also when the ticks
\* until then do not fit the counter, when the timer was started while ticks were not
\* yet processed, and when the previous tick fell between the check at the end of
\* ProcessTicks and the store that lets interrupts schedule it again.
NoTickPassesATimer ==
    [][SystemTickInterrupt /\ event = "none" /\ EarliestTrigger(scheduledTimers, trigger) <= Now(ticks')
        => event' = "queued"]_vars

\* Within an event actions are executed in the order of their trigger times, and
\* no timer triggers before the time it was started for has passed.
TriggersInOrder ==
    [][Progressed =>
        /\ event = "progressing" => last <= last'
        /\ \A t \in Timers : last' = trigger[t] /\ trigger'[t] # trigger[t] => earliestAllowed[t] <= ticks.systemTime]_vars
=============================================================================
