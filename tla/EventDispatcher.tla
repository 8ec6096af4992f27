--------------------------- MODULE EventDispatcher ---------------------------
(***************************************************************************)
(* infra::EventDispatcherWithWeakPtrWorker and the thread-aware worker on  *)
(* top of it: a ring of scheduled actions that any thread or interrupt     *)
(* handler appends to without a lock, and one dispatcher thread that       *)
(* executes them one after another and waits when there is nothing to do.  *)
(* Every access to a variable that another thread touches is a step.       *)
(*                                                                         *)
(* An action is identified by the thread that schedules it and a number.   *)
(* minCapacity is left out: no decision depends on it, and its assertion   *)
(* holds for every value the expression can have.                          *)
(***************************************************************************)
EXTENDS Naturals, Sequences, FiniteSets, SequencesExt

CONSTANTS
    Size,           \* scheduledActions.size()
    Threads,        \* those that call Schedule, the dispatcher included
    Dispatcher,     \* the thread in Run()
    MaxActions,     \* bound: how often each thread calls Schedule
    MaxOutstanding, \* bound: actions scheduled and not yet popped
    NoAction        \* the empty infra::Function

ASSUME DispatcherAssumption ==
    /\ Size \in Nat \ {0}
    /\ IsFiniteSet(Threads) /\ Dispatcher \in Threads
    /\ MaxActions \in Nat /\ MaxOutstanding \in Nat

Slots == 0 .. Size - 1
Actions == Threads \X (1 .. MaxActions)

VARIABLES
    first, second,  \* the ring: the action in each slot, and whether it may be executed
    pushIndex,      \* scheduledActionsPushIndex
    popIndex,       \* scheduledActionsPopIndex
    ready,          \* EventDispatcherThreadAwareWorker::ready, under its mutex
    at,             \* where each thread is in Schedule
    local,          \* the pushIndex each thread has read
    calls,          \* how often each thread has called Schedule
    run,            \* where the dispatcher is in Run
    claimed,        \* history: the actions in the order they took their slots
    executed,       \* history: the actions in the order they were executed
    overflowed      \* history: more calls of Schedule were under way than there are slots

vars == <<first, second, pushIndex, popIndex, ready, at, local, calls, run, claimed, executed, overflowed>>

ActionOf(t) == <<t, calls[t]>>

\* The actions that Schedule was called for and whose slots are not released.
Executing == run \in {"execute", "release"}
Outstanding ==
    Cardinality({a \in Actions : a[2] <= calls[a[1]]}) - Len(executed) + (IF Executing THEN 1 ELSE 0)

-----------------------------------------------------------------------------
(* Schedule.                                                                *)

\* The load of the push index.  The dispatcher calls Schedule from an action.
\* MaxOutstanding stands for how the application dimensions the ring.
ScheduleBegin(t) ==
    /\ at[t] = "out"
    /\ t = Dispatcher => run = "execute"
    /\ calls[t] < MaxActions
    /\ Outstanding < MaxOutstanding
    /\ local' = [local EXCEPT ![t] = pushIndex]
    /\ calls' = [calls EXCEPT ![t] = @ + 1]
    /\ at' = [at EXCEPT ![t] = "claim"]
    /\ overflowed' = (overflowed \/ Outstanding >= Size)
    /\ UNCHANGED <<first, second, pushIndex, popIndex, ready, run, claimed, executed>>

\* Mutant: the push index is loaded and stored again without compare-exchange.
ClaimWithoutExchange(t) ==
    /\ at[t] = "claim"
    /\ pushIndex' = (local[t] + 1) % Size
    /\ claimed' = Append(claimed, ActionOf(t))
    /\ at' = [at EXCEPT ![t] = "store"]
    /\ UNCHANGED <<first, second, popIndex, ready, local, calls, run, executed, overflowed>>

\* compare_exchange_weak; when it fails it reloads the expected value.
ClaimSlot(t) ==
    /\ at[t] = "claim"
    /\ \/ /\ pushIndex = local[t]
          /\ pushIndex' = (local[t] + 1) % Size
          /\ claimed' = Append(claimed, ActionOf(t))
          /\ at' = [at EXCEPT ![t] = "store"]
          /\ UNCHANGED local
       \/ /\ pushIndex # local[t]
          /\ local' = [local EXCEPT ![t] = pushIndex]
          /\ UNCHANGED <<pushIndex, claimed, at>>
    /\ UNCHANGED <<first, second, popIndex, ready, calls, run, executed, overflowed>>

Store(t) ==
    /\ at[t] = "store"
    /\ first' = [first EXCEPT ![local[t]] = ActionOf(t)]
    /\ at' = [at EXCEPT ![t] = "check"]
    /\ UNCHANGED <<second, pushIndex, popIndex, ready, local, calls, run, claimed, executed, overflowed>>

\* really_assert(!scheduledActions[pushIndex].second); when it fails all stops.
Check(t) ==
    /\ at[t] = "check"
    /\ \/ /\ ~second[local[t]]
          /\ at' = [at EXCEPT ![t] = "publish"]
          /\ UNCHANGED run
       \/ /\ second[local[t]]
          /\ at' = [u \in Threads |-> "aborted"]
          /\ run' = "aborted"
    /\ UNCHANGED <<first, second, pushIndex, popIndex, ready, local, calls, claimed, executed, overflowed>>

Publish(t) ==
    /\ at[t] = "publish"
    /\ second' = [second EXCEPT ![local[t]] = TRUE]
    /\ at' = [at EXCEPT ![t] = "request"]
    /\ UNCHANGED <<first, pushIndex, popIndex, ready, local, calls, run, claimed, executed, overflowed>>

\* Mutant: the dispatcher is woken only for the first action in an empty ring.
RequestWhenEmpty(t) ==
    /\ at[t] = "request"
    /\ ready' = (ready \/ \A s \in Slots \ {local[t]} : ~second[s])
    /\ at' = [at EXCEPT ![t] = "out"]
    /\ local' = [local EXCEPT ![t] = 0]
    /\ UNCHANGED <<first, second, pushIndex, popIndex, calls, run, claimed, executed, overflowed>>

\* RequestExecution of the thread-aware worker: under the mutex.
RequestExecution(t) ==
    /\ at[t] = "request"
    /\ ready' = TRUE
    /\ at' = [at EXCEPT ![t] = "out"]
    /\ local' = [local EXCEPT ![t] = 0]
    /\ UNCHANGED <<first, second, pushIndex, popIndex, calls, run, claimed, executed, overflowed>>

Schedule(t) ==
    ScheduleBegin(t) \/ ClaimSlot(t) \/ Store(t) \/ Check(t) \/ Publish(t) \/ RequestExecution(t)

-----------------------------------------------------------------------------
(* Run: ExecuteAllActions, then Idle, forever.                              *)

TryExecuteAction ==
    /\ run = "try"
    /\ \/ second[popIndex] /\ run' = "call"
       \/ ~second[popIndex] /\ run' = "idle"
    /\ UNCHANGED <<first, second, pushIndex, popIndex, ready, at, local, calls, claimed, executed, overflowed>>

\* The action is called; while it runs the dispatcher may call Schedule.
ExecuteFirstAction ==
    /\ run = "call"
    /\ executed' = Append(executed, first[popIndex])
    /\ run' = "execute"
    /\ UNCHANGED <<first, second, pushIndex, popIndex, ready, at, local, calls, claimed, overflowed>>

\* ExceptionSafePop, in three steps: also when the action throws.
DestructAction ==
    /\ run = "execute"
    /\ at[Dispatcher] = "out"
    /\ first' = [first EXCEPT ![popIndex] = NoAction]
    /\ run' = "release"
    /\ UNCHANGED <<second, pushIndex, popIndex, ready, at, local, calls, claimed, executed, overflowed>>

\* Mutant: the slot is never released.
ReleaseNothing ==
    /\ run = "release"
    /\ run' = "pop"
    /\ UNCHANGED <<first, second, pushIndex, popIndex, ready, at, local, calls, claimed, executed, overflowed>>

ReleaseSlot ==
    /\ run = "release"
    /\ second' = [second EXCEPT ![popIndex] = FALSE]
    /\ run' = "pop"
    /\ UNCHANGED <<first, pushIndex, popIndex, ready, at, local, calls, claimed, executed, overflowed>>

Pop ==
    /\ run = "pop"
    /\ popIndex' = (popIndex + 1) % Size
    /\ run' = "try"
    /\ UNCHANGED <<first, second, pushIndex, ready, at, local, calls, claimed, executed, overflowed>>

\* Idle of the thread-aware worker: waits until ready, then takes it.
Idle ==
    /\ run = "idle"
    /\ ready
    /\ ready' = FALSE
    /\ run' = "try"
    /\ UNCHANGED <<first, second, pushIndex, popIndex, at, local, calls, claimed, executed, overflowed>>

Run == TryExecuteAction \/ ExecuteFirstAction \/ DestructAction \/ ReleaseSlot \/ Pop \/ Idle

-----------------------------------------------------------------------------

Init ==
    /\ first = [s \in Slots |-> NoAction]
    /\ second = [s \in Slots |-> FALSE]
    /\ pushIndex = 0
    /\ popIndex = 0
    /\ ready = FALSE
    /\ at = [t \in Threads |-> "out"]
    /\ local = [t \in Threads |-> 0]
    /\ calls = [t \in Threads |-> 0]
    /\ run = "try"
    /\ claimed = <<>>
    /\ executed = <<>>
    /\ overflowed = FALSE

Next == Run \/ \E t \in Threads : Schedule(t)

\* A thread that is in Schedule gets on with it and the dispatcher gets on with
\* Run; nobody has to call Schedule.
Fairness ==
    /\ WF_vars(Run)
    /\ \A t \in Threads : WF_vars(at[t] # "out" /\ Schedule(t))

Spec == Init /\ [][Next]_vars /\ Fairness

-----------------------------------------------------------------------------
(* Properties.                                                              *)

\* The members keep their types.
TypeOK ==
    /\ first \in [Slots -> Actions \cup {NoAction}]
    /\ second \in [Slots -> BOOLEAN]
    /\ pushIndex \in Slots /\ popIndex \in Slots
    /\ ready \in BOOLEAN
    /\ at \in [Threads -> {"out", "claim", "store", "check", "publish", "request", "aborted"}]
    /\ local \in [Threads -> Slots]
    /\ calls \in [Threads -> 0 .. MaxActions]
    /\ run \in {"try", "call", "execute", "release", "pop", "idle", "aborted"}

\* Actions are executed exactly in the order in which Schedule claimed their
\* slots, none twice, none lost, none before it was stored: as long as the ring
\* did not overflow, what has been executed is a prefix of what was claimed.
ExecutedInOrder == ~overflowed => IsPrefix(executed, claimed)

\* When all calls of Schedule have returned, no assertion has failed, and the
\* dispatcher waits, every action has been executed: an overflow of the ring is
\* caught by the assertion in Schedule and never loses an action silently.  Not so:
\* in some interleavings the assertion passes.
NothingLostSilently ==
    run = "idle" /\ ~ready /\ (\A t \in Threads : at[t] = "out") => executed = claimed

\* The assertion in Schedule fails only for an overflow: more calls of Schedule
\* have begun than the ring has slots, counting the action that executes until
\* its slot is released.  An application that never has more than Size actions
\* outstanding is never stopped, whatever the interleaving.
StopsOnlyOnOverflow == [][run' = "aborted" => Outstanding > Size]_vars

\* Every action that is scheduled is executed, unless the ring overflows: no
\* wake-up of the dispatcher is lost between its last look at the ring and its wait.
EveryActionExecuted ==
    \A a \in Actions : (\E i \in DOMAIN claimed : claimed[i] = a) ~>
                           (overflowed \/ \E i \in DOMAIN executed : executed[i] = a)

=============================================================================
