------------------------------- MODULE Scheduler -------------------------------
(***************************************************************************)
(* sylar's fiber scheduler: class Scheduler (scheduler.h, scheduler.cpp),  *)
(* the state machine of class Fiber it drives (fiber.cpp), and the two     *)
(* things IOManager adds to its control: a fiber that registers for an     *)
(* event and yields (addEvent, then YieldToHold), and a stopping() that    *)
(* also waits for the pending events.                                      *)
(*                                                                         *)
(*   Workers    threads that execute Scheduler::run                        *)
(*   Root       with use_caller, the worker that is the thread of the      *)
(*              Scheduler's owner: it runs run() only inside stop()        *)
(*   Tasks      what is scheduled.  A callback runs in a fiber of its own  *)
(*              (cb_fiber), so a task is a fiber; lines 172-181 and        *)
(*              182-199 of run() treat the two alike                       *)
(*   Wakeable   the tasks that wait for events                             *)
(*   Repeated   the tasks whose owner keeps the fiber and schedules it     *)
(*              again, whatever state it is in                             *)
(*   Affinity   the thread arguments that callers pass to schedule()       *)
(*                                                                         *)
(* A critical section of m_mutex is one action.  Fiber::m_state is read    *)
(* and written outside any lock, so each access is a step.  Locks are      *)
(* taken to be correct.  Base-class tickle() only logs.                    *)
(***************************************************************************)
EXTENDS Integers, FiniteSets, SequencesExt

CONSTANTS Workers, Root, Tasks, Wakeable, Repeated, Affinity, MaxYields
CONSTANTS NoRoot, NoTask, AnyThread

ASSUME SchedulerAssumption ==
    /\ IsFiniteSet(Workers) /\ Workers # {}     \* a process has finitely many threads
    /\ Root \in Workers \cup {NoRoot} /\ NoRoot \notin Workers
    /\ Wakeable \subseteq Tasks /\ Repeated \subseteq Tasks \ Wakeable
    /\ NoTask \notin Tasks
    /\ Affinity \subseteq Workers \cup {AnyThread} /\ AnyThread \notin Workers
    /\ MaxYields \in Nat

VARIABLES
    m_fibers,       \* Scheduler::m_fibers: the FIFO of FiberAndThread
    m_activeThreadCount, m_stopping, m_autoStop,
    m_state,        \* Fiber::m_state of each task's fiber
    event,          \* the EventContext that holds the fiber, if any
    pc,             \* a worker's place in run()
    ft,             \* run()'s local ft (or cb_fiber): the task in hand
    idleTerm,       \* the worker's idle fiber has terminated
    spc,            \* the owner's place in stop()
    budget,         \* how many more times a task yields (a bound)
    failed,         \* the assertion, or the stack, that ended the process
    late            \* ghost: tasks scheduled for a thread that had seen stopping()

vars == <<m_fibers, m_activeThreadCount, m_stopping, m_autoStop, m_state,
          event, pc, ft, idleTerm, spc, budget, failed, late>>

flagVars == <<m_stopping, m_autoStop, spc, late>>

FiberState == {"NONE", "INIT", "HOLD", "EXEC", "TERM", "READY", "EXCEPT"}

\* off: before start().  pick: head of the loop.  picked: a task in hand, not
\* swapped in.  run: inside the task.  wait: registered, about to yield.
\* yield: m_state is set, the context is not saved yet.  back: swapIn has
\* returned.  after: m_activeThreadCount is decremented.  resched, sethold: the
\* two outcomes of the state test.  idle, idle2: inside idle().
WorkerPC == {"off", "pick", "picked", "run", "wait", "yield", "back", "after",
             "resched", "sethold", "noTask", "idle", "idle2", "exit"}

StopPC == {"new", "running", "flagged", "tickled", "probed", "root", "join", "done"}

Item == [task : Tasks, thread : Workers \cup {AnyThread}]

TypeOK ==
    /\ m_fibers \in Seq(Item)
    /\ m_activeThreadCount \in Nat
    /\ m_stopping \in BOOLEAN /\ m_autoStop \in BOOLEAN
    /\ m_state \in [Tasks -> FiberState]
    /\ event \in [Tasks -> {"none", "armed", "fired"}]
    /\ pc \in [Workers -> WorkerPC]
    /\ ft \in [Workers -> Tasks \cup {NoTask}]
    /\ idleTerm \in [Workers -> BOOLEAN]
    /\ spc \in StopPC
    /\ budget \in [Tasks -> 0 .. MaxYields]
    /\ failed \in {"none", "swapIn", "addEvent", "stack"}
    /\ late \subseteq Tasks

Init ==
    /\ m_fibers = <<>>
    /\ m_activeThreadCount = 0
    /\ m_stopping = TRUE /\ m_autoStop = FALSE
    /\ m_state = [t \in Tasks |-> "NONE"]
    /\ event = [t \in Tasks |-> "none"]
    /\ pc = [w \in Workers |-> "off"]
    /\ ft = [w \in Workers |-> NoTask]
    /\ idleTerm = [w \in Workers |-> FALSE]
    /\ spc = "new"
    /\ budget = [t \in Tasks |-> MaxYields]
    /\ failed = "none"
    /\ late = {}

\* No assertion has failed and no stack is corrupted.
Running == failed = "none"

Goto(w, l) == pc' = [pc EXCEPT ![w] = l]

-----------------------------------------------------------------------------
(* schedule()                                                                *)

\* scheduleNoLock: push_back.
Push(t, thread) == m_fibers' = Append(m_fibers, [task |-> t, thread |-> thread])

\* schedule() of a new task by the owner's thread, before it stops the scheduler.
Schedule(t, thread) ==
    /\ Running /\ spc \in {"new", "running"} /\ m_state[t] = "NONE"
    /\ m_state' = [m_state EXCEPT ![t] = "INIT"]
    /\ Push(t, thread)
    /\ UNCHANGED <<m_activeThreadCount, flagVars, event, pc, ft, idleTerm, budget, failed>>

\* schedule() of a fiber that was scheduled before; it may be queued already.
ScheduleAgain(t) ==
    /\ Running /\ spc \in {"new", "running"} /\ m_state[t] # "NONE"
    /\ t \in Repeated /\ budget[t] > 0
    /\ budget' = [budget EXCEPT ![t] = @ - 1]
    /\ Push(t, AnyThread)
    /\ UNCHANGED <<m_activeThreadCount, flagVars, m_state, event, pc, ft, idleTerm, failed>>

\* Worker w has seen stopping(): it leaves unless a task it may take is queued
\* first.
Leaving(w) == idleTerm[w] \/ (w = Root /\ spc \in {"join", "done"})

\* schedule() of a new task by a task that runs.
Spawn(w, t, thread) ==
    /\ Running /\ pc[w] = "run" /\ m_state[t] = "NONE"
    /\ m_state' = [m_state EXCEPT ![t] = "INIT"]
    /\ Push(t, thread)
    /\ late' = late \cup {u \in {t} : thread \in Workers /\ Leaving(thread)}
    /\ UNCHANGED <<m_activeThreadCount, m_stopping, m_autoStop, spc, event, pc, ft,
                   idleTerm, budget, failed>>

\* Mutant: the event is consumed and its fiber is not scheduled.
Trigger_Unscheduled(t) ==
    /\ Running /\ event[t] = "armed"
    /\ event' = [event EXCEPT ![t] = "fired"]
    /\ UNCHANGED <<m_fibers, m_activeThreadCount, flagVars, m_state, pc, ft, idleTerm,
                   budget, failed>>

\* triggerEvent by any thread: schedule(&ctx.fiber) ...
Trigger(t) ==
    /\ Running /\ event[t] = "armed"
    /\ event' = [event EXCEPT ![t] = "fired"]
    /\ Push(t, AnyThread)
    /\ UNCHANGED <<m_activeThreadCount, flagVars, m_state, pc, ft, idleTerm, budget, failed>>

\* ... and then, still under the FdContext's mutex, --m_pendingEventCount.
TriggerDone(t) ==
    /\ Running /\ event[t] = "fired"
    /\ event' = [event EXCEPT ![t] = "none"]
    /\ UNCHANGED <<m_fibers, m_activeThreadCount, flagVars, m_state, pc, ft,
                   idleTerm, budget, failed>>

\* Mutant: waiting fibers do not keep the scheduler running.
NothingPending == 0

\* The events registered and not yet settled.
m_pendingEventCount == Cardinality({t \in Tasks : event[t] # "none"})

-----------------------------------------------------------------------------
(* run()                                                                     *)

\* The items that worker w may take: not pinned to another thread, and not a
\* fiber that is executing.
Eligible(w) ==
    {i \in 1 .. Len(m_fibers) :
        /\ m_fibers[i].thread \in {AnyThread, w}
        /\ m_state[m_fibers[i].task] # "EXEC"}

\* Mutant: the item is copied but not erased.
Taken_Kept(i) == m_fibers

\* m_fibers.erase( it )
Taken(i) == RemoveAt(m_fibers, i)

\* The scan of m_fibers under the lock: take the first eligible item ...
Pick(w) ==
    /\ Running /\ pc[w] = "pick"
    /\ \E i \in Eligible(w) :
          /\ \A j \in Eligible(w) : i <= j
          /\ ft' = [ft EXCEPT ![w] = m_fibers[i].task]
          /\ m_fibers' = Taken(i)
    /\ m_activeThreadCount' = m_activeThreadCount + 1
    /\ Goto(w, "picked")
    /\ UNCHANGED <<flagVars, m_state, event, idleTerm, budget, failed>>

\* ... or none.
PickNone(w) ==
    /\ Running /\ pc[w] = "pick"
    /\ Eligible(w) = {}
    /\ Goto(w, "noTask")
    /\ UNCHANGED <<m_fibers, m_activeThreadCount, flagVars, m_state, event, ft,
                   idleTerm, budget, failed>>

\* Mutant: a task that is over is dropped without being counted.
DropFinished_Uncounted(w) ==
    /\ Running /\ pc[w] = "picked" /\ m_state[ft[w]] \in {"TERM", "EXCEPT"}
    /\ ft' = [ft EXCEPT ![w] = NoTask]
    /\ Goto(w, "pick")
    /\ UNCHANGED <<m_fibers, m_activeThreadCount, flagVars, m_state, event, idleTerm,
                   budget, failed>>

\* A task in hand that is already over is dropped.
DropFinished(w) ==
    /\ Running /\ pc[w] = "picked" /\ m_state[ft[w]] \in {"TERM", "EXCEPT"}
    /\ m_activeThreadCount' = m_activeThreadCount - 1
    /\ ft' = [ft EXCEPT ![w] = NoTask]
    /\ Goto(w, "pick")
    /\ UNCHANGED <<m_fibers, flagVars, m_state, event, idleTerm, budget, failed>>

\* The state swapIn gives a fiber.
Resumed == "EXEC"

\* Some thread still executes on the stack of t's fiber.
OnStack(t) == \E v \in Workers : ft[v] = t /\ pc[v] \in {"run", "wait", "yield"}

\* run() sees that the fiber is not over and calls Fiber::swapIn: assert that it is
\* not EXEC, make it EXEC, switch to the context it last saved.  If it has not left its stack yet, that context is
\* stale and two threads share the stack.
SwapIn(w) ==
    LET t == ft[w] IN
    /\ Running /\ pc[w] = "picked" /\ m_state[t] \notin {"TERM", "EXCEPT"}
    /\ failed' = IF m_state[t] = "EXEC" THEN "swapIn"
                 ELSE IF OnStack(t) THEN "stack" ELSE failed
    /\ m_state' = [m_state EXCEPT ![t] = Resumed]
    /\ Goto(w, "run")
    /\ UNCHANGED <<m_fibers, m_activeThreadCount, flagVars, event, ft, idleTerm, budget>>

\* The task calls Fiber::YieldToReady.
YieldToReady(w) ==
    LET t == ft[w] IN
    /\ Running /\ pc[w] = "run" /\ budget[t] > 0
    /\ budget' = [budget EXCEPT ![t] = @ - 1]
    /\ m_state' = [m_state EXCEPT ![t] = "READY"]
    /\ Goto(w, "yield")
    /\ UNCHANGED <<m_fibers, m_activeThreadCount, flagVars, event, ft, idleTerm, failed>>

\* The task waits for an event: IOManager::addEvent stores the running fiber in
\* the EventContext, after asserting that it is EXEC ...
AddEvent(w) ==
    LET t == ft[w] IN
    /\ Running /\ pc[w] = "run" /\ t \in Wakeable /\ budget[t] > 0 /\ event[t] = "none"
    /\ budget' = [budget EXCEPT ![t] = @ - 1]
    /\ event' = [event EXCEPT ![t] = "armed"]
    /\ failed' = IF m_state[t] = "EXEC" THEN failed ELSE "addEvent"
    /\ Goto(w, "wait")
    /\ UNCHANGED <<m_fibers, m_activeThreadCount, flagVars, m_state, ft, idleTerm>>

\* ... and the task calls Fiber::YieldToHold: HOLD is visible to the other
\* threads before the context is saved.
YieldToHold(w) ==
    /\ Running /\ pc[w] = "wait"
    /\ m_state' = [m_state EXCEPT ![ft[w]] = "HOLD"]
    /\ Goto(w, "yield")
    /\ UNCHANGED <<m_fibers, m_activeThreadCount, flagVars, event, ft, idleTerm,
                   budget, failed>>

\* Fiber::MainFunc: the task returns, or throws.
MainFuncEnds(w) ==
    /\ Running /\ pc[w] = "run"
    /\ \E s \in {"TERM", "EXCEPT"} : m_state' = [m_state EXCEPT ![ft[w]] = s]
    /\ Goto(w, "yield")
    /\ UNCHANGED <<m_fibers, m_activeThreadCount, flagVars, event, ft, idleTerm,
                   budget, failed>>

\* Fiber::swapOut: the context is saved and the worker is back in run().
SwapOut(w) ==
    /\ Running /\ pc[w] = "yield"
    /\ Goto(w, "back")
    /\ UNCHANGED <<m_fibers, m_activeThreadCount, flagVars, m_state, event, ft,
                   idleTerm, budget, failed>>

\* --m_activeThreadCount comes before the fiber's state is looked at.
Deactivate(w) ==
    /\ Running /\ pc[w] = "back"
    /\ m_activeThreadCount' = m_activeThreadCount - 1
    /\ Goto(w, "after")
    /\ UNCHANGED <<m_fibers, flagVars, m_state, event, ft, idleTerm, budget, failed>>

\* run() tests the state: READY is scheduled again, TERM and EXCEPT are over,
\* anything else becomes HOLD.
TestState(w) ==
    LET s == m_state[ft[w]] IN
    /\ Running /\ pc[w] = "after"
    /\ IF s \in {"TERM", "EXCEPT"}
       THEN Goto(w, "pick") /\ ft' = [ft EXCEPT ![w] = NoTask]
       ELSE Goto(w, IF s = "READY" THEN "resched" ELSE "sethold") /\ UNCHANGED ft
    /\ UNCHANGED <<m_fibers, m_activeThreadCount, flagVars, m_state, event,
                   idleTerm, budget, failed>>

\* schedule(ft.fiber): the thread it was pinned to is not passed on.
Reschedule(w) ==
    /\ Running /\ pc[w] = "resched"
    /\ Push(ft[w], AnyThread)
    /\ ft' = [ft EXCEPT ![w] = NoTask]
    /\ Goto(w, "pick")
    /\ UNCHANGED <<m_activeThreadCount, flagVars, m_state, event, idleTerm, budget, failed>>

SetHold(w) ==
    /\ Running /\ pc[w] = "sethold"
    /\ m_state' = [m_state EXCEPT ![ft[w]] = "HOLD"]
    /\ ft' = [ft EXCEPT ![w] = NoTask]
    /\ Goto(w, "pick")
    /\ UNCHANGED <<m_fibers, m_activeThreadCount, flagVars, event, idleTerm, budget, failed>>

\* No task: leave run() if the idle fiber is over, else swap it in.
EnterIdle(w) ==
    /\ Running /\ pc[w] = "noTask"
    /\ Goto(w, IF idleTerm[w] THEN "exit" ELSE "idle")
    /\ UNCHANGED <<m_fibers, m_activeThreadCount, flagVars, m_state, event, ft,
                   idleTerm, budget, failed>>

\* Mutant: the tasks in hand are not looked at.
Stopping_IgnoresActive ==
    m_autoStop /\ m_stopping /\ m_fibers = <<>>

\* Mutant: neither the queue nor the tasks in hand are looked at.
Stopping_FlagsOnly == m_autoStop /\ m_stopping

\* Scheduler::stopping, under the lock.
Stopping ==
    m_autoStop /\ m_stopping /\ m_fibers = <<>> /\ m_activeThreadCount = 0

\* idle(): IOManager::stopping reads m_pendingEventCount, and only then takes
\* the lock for Scheduler::stopping.
IdlePending(w) ==
    /\ Running /\ pc[w] = "idle"
    /\ Goto(w, IF m_pendingEventCount = 0 THEN "idle2" ELSE "pick")
    /\ UNCHANGED <<m_fibers, m_activeThreadCount, flagVars, m_state, event, ft,
                   idleTerm, budget, failed>>

IdleStopping(w) ==
    /\ Running /\ pc[w] = "idle2"
    /\ idleTerm' = [idleTerm EXCEPT ![w] = Stopping]
    /\ Goto(w, "pick")
    /\ UNCHANGED <<m_fibers, m_activeThreadCount, flagVars, m_state, event, ft,
                   budget, failed>>

-----------------------------------------------------------------------------
(* start() and stop(), called by the owner                                   *)

Start ==
    /\ Running /\ spc = "new"
    /\ m_stopping' = FALSE
    /\ pc' = [w \in Workers |-> IF w = Root THEN "off" ELSE "pick"]
    /\ spc' = "running"
    /\ UNCHANGED <<m_fibers, m_activeThreadCount, m_autoStop, m_state, event, ft,
                   idleTerm, budget, failed, late>>

StopFlag ==
    /\ Running /\ spc = "running"
    /\ m_autoStop' = TRUE
    /\ spc' = "flagged"
    /\ UNCHANGED <<m_fibers, m_activeThreadCount, m_stopping, m_state, event, pc,
                   ft, idleTerm, budget, failed, late>>

\* Mutant: m_stopping stays false.
StopTickle_FlagMissing ==
    /\ Running /\ spc = "flagged"
    /\ spc' = IF Root = NoRoot THEN "join" ELSE "tickled"
    /\ UNCHANGED <<m_fibers, m_activeThreadCount, m_stopping, m_autoStop, m_state, event,
                   pc, ft, idleTerm, budget, failed, late>>

\* m_stopping = true.  With use_caller and no other thread the code asks
\* stopping() once more at this point, which it does again below.
StopTickle ==
    /\ Running /\ spc = "flagged"
    /\ m_stopping' = TRUE
    /\ spc' = IF Root = NoRoot THEN "join" ELSE "tickled"
    /\ UNCHANGED <<m_fibers, m_activeThreadCount, m_autoStop, m_state, event, pc,
                   ft, idleTerm, budget, failed, late>>

\* if ( !stopping() ) m_rootFiber->call(): the owner's thread becomes a worker.
StopProbe ==
    /\ Running /\ spc = "tickled"
    /\ spc' = IF m_pendingEventCount = 0 THEN "probed" ELSE "root"
    /\ pc' = [pc EXCEPT ![Root] = IF m_pendingEventCount = 0 THEN @ ELSE "pick"]
    /\ UNCHANGED <<m_fibers, m_activeThreadCount, m_stopping, m_autoStop, m_state,
                   event, ft, idleTerm, budget, failed, late>>

StopCallRoot ==
    /\ Running /\ spc = "probed"
    /\ spc' = IF Stopping THEN "join" ELSE "root"
    /\ pc' = [pc EXCEPT ![Root] = IF Stopping THEN @ ELSE "pick"]
    /\ UNCHANGED <<m_fibers, m_activeThreadCount, m_stopping, m_autoStop, m_state,
                   event, ft, idleTerm, budget, failed, late>>

\* The root fiber's run() has returned.
StopRootBack ==
    /\ Running /\ spc = "root" /\ pc[Root] = "exit"
    /\ spc' = "join"
    /\ UNCHANGED <<m_fibers, m_activeThreadCount, m_stopping, m_autoStop, m_state,
                   event, pc, ft, idleTerm, budget, failed, late>>

\* join() of every thread has returned.
StopJoin ==
    /\ Running /\ spc = "join"
    /\ \A w \in Workers \ {Root} : pc[w] = "exit"
    /\ spc' = "done"
    /\ UNCHANGED <<m_fibers, m_activeThreadCount, m_stopping, m_autoStop, m_state,
                   event, pc, ft, idleTerm, budget, failed, late>>

-----------------------------------------------------------------------------

\* What the code of a worker does next; a task may be asked to do nothing.
WorkerStep(w) ==
    \/ Pick(w) \/ PickNone(w) \/ DropFinished(w) \/ SwapIn(w)
    \/ YieldToReady(w) \/ AddEvent(w) \/ YieldToHold(w) \/ MainFuncEnds(w)
    \/ SwapOut(w) \/ Deactivate(w) \/ TestState(w) \/ Reschedule(w) \/ SetHold(w)
    \/ EnterIdle(w) \/ IdlePending(w) \/ IdleStopping(w)

OwnerStep ==
    \/ Start \/ StopFlag \/ StopTickle \/ StopProbe \/ StopCallRoot
    \/ StopRootBack \/ StopJoin

Next ==
    \/ \E t \in Tasks, thread \in Affinity : Schedule(t, thread)
    \/ \E t \in Tasks : ScheduleAgain(t)
    \/ \E w \in Workers, t \in Tasks, thread \in Affinity : Spawn(w, t, thread)
    \/ \E t \in Tasks : Trigger(t)
    \/ \E t \in Tasks : TriggerDone(t)
    \/ \E w \in Workers : WorkerStep(w)
    \/ OwnerStep

Spec == Init /\ [][Next]_vars

\* Threads are scheduled fairly, an event that is waited for comes, and the owner
\* goes on to stop().
Fairness ==
    /\ \A w \in Workers : WF_vars(WorkerStep(w))
    /\ \A t \in Tasks : WF_vars(Trigger(t) \/ TriggerDone(t))
    /\ WF_vars(OwnerStep)

FairSpec == Spec /\ Fairness

-----------------------------------------------------------------------------
(* Properties                                                                *)

Finished(t) == m_state[t] \in {"NONE", "TERM", "EXCEPT"}

\* No SYLAR_ASSERT on a fiber's state fails and no two threads ever share a
\* fiber's stack: swapIn is not called on an EXEC fiber (fiber.cpp:141), the
\* fiber that calls addEvent is EXEC (iomanager.cpp:150), and a fiber is resumed
\* only after its context was saved (fiber.cpp:152).
NoAssertionFails == failed = "none"

\* iomanager.cpp:150: SYLAR_ASSERT( event_ctx.fiber->getState() == Fiber::EXEC ).
AddEventAssertion == failed # "addEvent"

\* A task that was scheduled and is not over is queued, in a worker's hand, or
\* held by the EventContext that will schedule it: no yield, wake-up or
\* re-schedule loses it (scheduler.cpp:172-199, iomanager.cpp:44-55).
NoTaskLost ==
    \A t \in Tasks :
        \/ Finished(t)
        \/ \E i \in 1 .. Len(m_fibers) : m_fibers[i].task = t
        \/ \E w \in Workers : ft[w] = t /\ pc[w] # "sethold"
        \/ event[t] = "armed"

\* While stopping() holds, the only unfinished tasks are READY ones in the hand
\* of a worker that decremented m_activeThreadCount and has yet to schedule them
\* (scheduler.cpp:174-177), or ones an event still holds; a worker may leave in
\* that window, the one with the task in hand does not.
StoppingWindow ==
    Stopping => \A t \in Tasks :
        \/ Finished(t)
        \/ event[t] # "none"
        \/ \E w \in Workers : ft[w] = t /\ pc[w] \in {"after", "resched"}

\* When stop() returns, every task that was ever scheduled has run to its end and
\* the queue is empty (scheduler.cpp:80-120, 226-230; iomanager.cpp:277-281), but
\* for tasks scheduled for exactly a thread that had seen stopping(): a thread that
\* leaves in the window of line 174, while another one's last task is still to be
\* scheduled again, is gone when that task schedules work for it.
StopDrains ==
    spc = "done" =>
        /\ \A i \in 1 .. Len(m_fibers) : m_fibers[i].task \in late
        /\ \A t \in Tasks : Finished(t) \/ t \in late

\* A task is queued for a thread that has left run() and will not take it.
Stranded ==
    \E i \in 1 .. Len(m_fibers) : \E w \in Workers :
        /\ m_fibers[i].thread = w
        /\ pc[w] = "exit" \/ (w = Root /\ spc = "join")

\* Once stop() is called it returns: the workers, and the owner's thread that
\* becomes one, find no task, see stopping() in idle() and leave run(), however
\* their last yields, drops and wake-ups interleave (scheduler.cpp:80-120,
\* 206-217).  The one exception is a task scheduled for a thread that left in the
\* window of line 174: no other thread may take it (line 148).
StopReturns == (spc = "flagged") ~> (spc = "done" \/ Stranded)

-----------------------------------------------------------------------------
(* Inductive invariants                                                      *)

\* Where run() has a task in its local ft, and where it is counted as active.
HandPC == {"picked", "run", "wait", "yield", "back", "after", "resched", "sethold"}
ActivePC == {"picked", "run", "wait", "yield", "back"}

Queued(t) == \E i \in 1 .. Len(m_fibers) : m_fibers[i].task = t
InHand(t) == \E w \in Workers : ft[w] = t

HandInv == \A w \in Workers : ft[w] # NoTask <=> pc[w] \in HandPC

\* m_activeThreadCount counts the workers between lines 162 and 174.
CountInv == m_activeThreadCount = Cardinality({w \in Workers : pc[w] \in ActivePC})

\* How far stop() is says which threads are in run(), and what the flags are.
OwnerInv ==
    /\ m_autoStop <=> spc \notin {"new", "running"}
    /\ spc \notin {"new", "running", "flagged"} => m_stopping
    /\ spc \in {"tickled", "probed", "root"} => Root \in Workers
    /\ \A w \in Workers :
          /\ spc = "new" => pc[w] = "off"
          /\ pc[w] = "off" => spc = "new" \/ (w = Root /\ spc # "root")
          /\ w = Root /\ pc[w] # "off" => spc \in {"root", "join", "done"}
          /\ w = Root /\ spc \in {"join", "done"} => pc[w] \in {"off", "exit"}
          /\ spc = "done" => pc[w] = "exit" \/ w = Root
          /\ pc[w] = "exit" => idleTerm[w]
          /\ idleTerm[w] => m_autoStop

\* Holds in every configuration.
BaseInv == TypeOK /\ HandInv /\ CountInv /\ OwnerInv

\* A pool: several workers, whose tasks neither wait for events nor are kept and
\* scheduled again by their owner.
Pool == Wakeable = {} /\ Repeated = {}

\* A task is at one place in one queue, or in one hand.
OnePlace ==
    /\ \A i, j \in 1 .. Len(m_fibers) : m_fibers[i].task = m_fibers[j].task => i = j
    /\ \A v, w \in Workers : ft[v] = ft[w] /\ ft[v] # NoTask => v = w
    /\ \A w \in Workers : \A i \in 1 .. Len(m_fibers) : m_fibers[i].task # ft[w]

\* A worker of a pool at l may have a fiber in state s in hand.
Fits(l, s) ==
    /\ l \notin {"wait", "sethold"}
    /\ l = "picked" => s \in {"INIT", "READY"}
    /\ l = "run" => s = "EXEC"
    /\ l \in {"yield", "back", "after"} => s \in {"READY", "TERM", "EXCEPT"}
    /\ l = "resched" => s = "READY"

\* What the state of a pool's fiber is, by the place where it is.
PoolStates ==
    /\ \A i \in 1 .. Len(m_fibers) : m_state[m_fibers[i].task] \in {"INIT", "READY"}
    /\ \A w \in Workers : Fits(pc[w], m_state[ft[w]])
    /\ \A t \in Tasks : Finished(t) \/ Queued(t) \/ InHand(t)

\* Worker w will look at the queue again before it leaves.
WillLook(w) ==
    \/ pc[w] \in HandPC \cup {"pick"}
    \/ pc[w] \in {"noTask", "idle", "idle2"} /\ ~idleTerm[w]
    \/ pc[w] = "off" /\ spc \notin {"join", "done"}

\* An item that any thread may take will be looked at.
NotForgotten ==
    (\E i \in 1 .. Len(m_fibers) : m_fibers[i].thread = AnyThread)
        => \E w \in Workers : WillLook(w)

\* What is queued for a thread that leaves was scheduled after it saw stopping().
PinnedLate ==
    \A i \in 1 .. Len(m_fibers) :
        m_fibers[i].thread \in Workers /\ Leaving(m_fibers[i].thread)
            => m_fibers[i].task \in late

PoolInv ==
    /\ BaseInv /\ OnePlace /\ PoolStates /\ NotForgotten /\ PinnedLate
    /\ failed = "none"
    /\ \A t \in Tasks : event[t] = "none"

\* One worker, with events and with fibers that are scheduled again.
Single == \A v, w \in Workers : v = w

\* The state of the fiber that the only worker has in hand ...
SoleFits(w) ==
    /\ pc[w] = "picked" => m_state[ft[w]] # "EXEC"
    /\ pc[w] \in {"run", "wait"} => m_state[ft[w]] = "EXEC"
    /\ pc[w] \in {"yield", "back", "after"} =>
          m_state[ft[w]] \in {"READY", "HOLD", "TERM", "EXCEPT"}
    /\ pc[w] = "resched" => m_state[ft[w]] = "READY"
    /\ pc[w] = "sethold" => m_state[ft[w]] = "HOLD"
    /\ pc[w] = "wait" => Queued(ft[w]) \/ event[ft[w]] = "armed"

\* ... and where a fiber is, by its state.
Held(t) ==
    /\ m_state[t] = "EXEC" => InHand(t)
    /\ m_state[t] \in {"INIT", "READY"} => Queued(t) \/ InHand(t)
    /\ m_state[t] = "HOLD" =>
          \/ Queued(t) \/ event[t] = "armed"
          \/ \E w \in Workers : ft[w] = t /\ pc[w] = "picked"

SingleStates == (\A w \in Workers : SoleFits(w)) /\ (\A t \in Tasks : Held(t))

\* Nothing is queued, registered or unfinished, and nobody has a task in hand.
Over ==
    /\ m_fibers = <<>>
    /\ \A t \in Tasks : Finished(t) /\ event[t] = "none"
    /\ \A w \in Workers : pc[w] \notin HandPC

\* The only worker leaves, or the owner's thread does not become one, when all
\* is over; between its two tests nobody registers an event.
SingleOver ==
    /\ \A w \in Workers : idleTerm[w] => Over
    /\ \A w \in Workers : pc[w] = "idle2" => \A t \in Tasks : event[t] = "none"
    /\ spc = "probed" => \A t \in Tasks : event[t] = "none"
    /\ spc \in {"join", "done"} /\ Root \in Workers => Over

SingleInv ==
    /\ BaseInv /\ SingleStates /\ SingleOver
    /\ failed = "none"
    /\ IsFiniteSet({t \in Tasks : event[t] # "none"})
=============================================================================
