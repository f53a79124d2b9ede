------------------------------- MODULE FdEvents -------------------------------
(***************************************************************************)
(* The event half of class IOManager (iomanager.h, iomanager.cpp): the     *)
(* FdContext of each descriptor, its registration with epoll, addEvent,    *)
(* delEvent, cancelEvent, cancelAll, and the loop of idle() that turns     *)
(* what epoll_wait reported into scheduled fibers and callbacks.           *)
(*                                                                         *)
(*   Fds      descriptors inside m_fdContexts (the table's growth is not   *)
(*            modelled here)                                               *)
(*   Callers  threads that call the event API                              *)
(*   Pollers  threads inside IOManager::idle                               *)
(*   Waiters  what an addEvent leaves in an EventContext: a callback or    *)
(*            the calling fiber                                            *)
(*   Closable descriptors that are closed behind the IOManager's back      *)
(*                                                                         *)
(* FdContext::mutex is a lock held over several steps, because             *)
(* triggerEvent and --m_pendingEventCount are visible to other threads one *)
(* after the other.                                                        *)
(***************************************************************************)
EXTENDS Integers, FiniteSets

CONSTANTS Fds, Callers, Pollers, Waiters, Closable, NoFd, NoWaiter
CONSTANT HangUps   \* whether epoll reports EPOLLERR / EPOLLHUP

ASSUME FdEventsAssumption ==
    /\ NoFd \notin Fds /\ NoWaiter \notin Waiters
    /\ Callers \cap Pollers = {}
    /\ IsFiniteSet(Fds) /\ IsFiniteSet(Callers) /\ IsFiniteSet(Pollers)
    /\ Closable \subseteq Fds
    /\ HangUps \in BOOLEAN

Kinds == {"READ", "WRITE"}
Threads == Callers \cup Pollers

VARIABLES
    events,               \* FdContext::events
    ctx,                  \* FdContext::read and ::write: who waits
    m_pendingEventCount,
    interest,             \* epoll's registration of the descriptor; {} is none
    waiter,               \* what became of each waiter
    holds,                \* the FdContext whose mutex the thread holds
    todo,                 \* the events it has yet to trigger
    owes,                 \* it triggered one and has yet to decrement the count
    report,               \* a poller's epoll_event array: descriptor -> mask
    failed                \* the assertion that ended the process

vars == <<events, ctx, m_pendingEventCount, interest, waiter, holds, todo, owes,
          report, failed>>

threadVars == <<holds, todo, owes>>

TypeOK ==
    /\ events \in [Fds -> SUBSET Kinds]
    /\ ctx \in [Fds -> [Kinds -> Waiters \cup {NoWaiter}]]
    /\ m_pendingEventCount \in Nat
    /\ interest \in [Fds -> SUBSET Kinds]
    /\ waiter \in [Waiters -> {"new", "waiting", "scheduled", "dropped"}]
    /\ holds \in [Threads -> Fds \cup {NoFd}]
    /\ todo \in [Threads -> SUBSET Kinds]
    /\ owes \in [Threads -> BOOLEAN]
    /\ report \in [Pollers -> [Fds -> SUBSET (Kinds \cup {"ERR"})]]
    /\ failed \in {"none", "addEvent", "triggerEvent"}

Init ==
    /\ events = [f \in Fds |-> {}]
    /\ ctx = [f \in Fds |-> [e \in Kinds |-> NoWaiter]]
    /\ m_pendingEventCount = 0
    /\ interest = [f \in Fds |-> {}]
    /\ waiter = [k \in Waiters |-> "new"]
    /\ holds = [x \in Threads |-> NoFd]
    /\ todo = [x \in Threads |-> {}]
    /\ owes = [x \in Threads |-> FALSE]
    /\ report = [p \in Pollers |-> [f \in Fds |-> {}]]
    /\ failed = "none"

\* No SYLAR_ASSERT has ended the process.
Running == failed = "none"

\* Thread x is at leisure and can take f's mutex.
Lockable(x, f) == holds[x] = NoFd /\ \A y \in Threads : holds[y] # f

-----------------------------------------------------------------------------
(* epoll_ctl.  It fails with ENOENT for a descriptor that is not registered. *)

\* Mutant: the descriptor is removed although another event is still waited for.
EpollCtl_AlwaysDel(f, left) == interest' = [interest EXCEPT ![f] = {}]

\* EPOLL_CTL_MOD if events are left, else EPOLL_CTL_DEL.
EpollCtl(f, left) == interest' = [interest EXCEPT ![f] = left]

CtlFails(f) == interest[f] = {}

-----------------------------------------------------------------------------
(* The API                                                                   *)

\* addEvent(fd, e, cb) leaves waiter k in the EventContext.  That e is not
\* registered yet is the caller's duty (line 125 aborts otherwise).
AddEvent(x, f, e, k) ==
    /\ Running /\ Lockable(x, f)
    /\ waiter[k] = "new" /\ e \notin events[f]
    /\ events[f] # {} => ~CtlFails(f)      \* EPOLL_CTL_MOD
    /\ EpollCtl(f, events[f] \cup {e})
    /\ m_pendingEventCount' = m_pendingEventCount + 1
    /\ events' = [events EXCEPT ![f] = @ \cup {e}]
    /\ failed' = IF ctx[f][e] = NoWaiter THEN failed ELSE "addEvent"
    /\ ctx' = [ctx EXCEPT ![f][e] = k]
    /\ waiter' = [waiter EXCEPT ![k] = "waiting"]
    /\ UNCHANGED <<threadVars, report>>

\* Mutant: the EventContext keeps its waiter.
Cleared_Kept(f, e) == ctx

\* The EventContext of e after resetContext, or after schedule() has swapped the
\* fiber or the callback out of it.
Cleared(f, e) == [ctx EXCEPT ![f][e] = NoWaiter]

\* Mutant: delEvent forgets --m_pendingEventCount.
DelEvent_Uncounted(x, f, e) ==
    /\ Running /\ Lockable(x, f)
    /\ e \in events[f] /\ ~CtlFails(f)
    /\ EpollCtl(f, events[f] \ {e})
    /\ events' = [events EXCEPT ![f] = @ \ {e}]
    /\ waiter' = [waiter EXCEPT ![ctx[f][e]] = "dropped"]
    /\ ctx' = Cleared(f, e)
    /\ UNCHANGED <<m_pendingEventCount, threadVars, report, failed>>

\* Mutant: delEvent leaves the event and its context in place.
DelEvent_StillThere(x, f, e) ==
    /\ Running /\ Lockable(x, f)
    /\ e \in events[f] /\ ~CtlFails(f)
    /\ m_pendingEventCount' = m_pendingEventCount - 1
    /\ waiter' = [waiter EXCEPT ![ctx[f][e]] = "dropped"]
    /\ UNCHANGED <<events, ctx, interest, threadVars, report, failed>>

\* delEvent: the waiter is forgotten, not scheduled.
DelEvent(x, f, e) ==
    /\ Running /\ Lockable(x, f)
    /\ e \in events[f] /\ ~CtlFails(f)
    /\ EpollCtl(f, events[f] \ {e})
    /\ m_pendingEventCount' = m_pendingEventCount - 1
    /\ events' = [events EXCEPT ![f] = @ \ {e}]
    /\ waiter' = [waiter EXCEPT ![ctx[f][e]] = "dropped"]
    /\ ctx' = Cleared(f, e)
    /\ UNCHANGED <<threadVars, report, failed>>

\* The thread takes f's mutex and sets out to trigger the events in es.
BeginTrigger(x, f, es) ==
    /\ holds' = [holds EXCEPT ![x] = f]
    /\ todo' = [todo EXCEPT ![x] = es]
    /\ UNCHANGED <<events, ctx, m_pendingEventCount, waiter, owes, failed>>

\* cancelEvent: the waiter is scheduled as if the event had come.
CancelEvent(x, f, e) ==
    /\ Running /\ Lockable(x, f)
    /\ e \in events[f] /\ ~CtlFails(f)
    /\ EpollCtl(f, events[f] \ {e})
    /\ BeginTrigger(x, f, {e})
    /\ UNCHANGED report

\* cancelAll: both waiters are, READ first.
CancelAll(x, f) ==
    /\ Running /\ Lockable(x, f)
    /\ events[f] # {} /\ ~CtlFails(f)
    /\ EpollCtl(f, {})
    /\ BeginTrigger(x, f, events[f])
    /\ UNCHANGED report

\* FdContext::triggerEvent( e )
TriggerEvent(x) ==
    LET f == holds[x]
        e == IF "READ" \in todo[x] THEN "READ" ELSE "WRITE"
    IN
    /\ Running /\ todo[x] # {} /\ ~owes[x]
    /\ todo' = [todo EXCEPT ![x] = @ \ {e}]
    /\ IF e \in events[f]
       THEN /\ events' = [events EXCEPT ![f] = @ \ {e}]
            /\ waiter' = [waiter EXCEPT ![ctx[f][e]] = "scheduled"]
            /\ ctx' = Cleared(f, e)
            /\ owes' = [owes EXCEPT ![x] = TRUE]
            /\ UNCHANGED failed
       ELSE /\ failed' = "triggerEvent"
            /\ UNCHANGED <<events, waiter, ctx, owes>>
    /\ UNCHANGED <<m_pendingEventCount, interest, holds, report>>

\* --m_pendingEventCount, and the end of the critical section after the last.
SettleTrigger(x) ==
    /\ Running /\ owes[x]
    /\ owes' = [owes EXCEPT ![x] = FALSE]
    /\ m_pendingEventCount' = m_pendingEventCount - 1
    /\ holds' = [holds EXCEPT ![x] = IF todo[x] = {} THEN NoFd ELSE @]
    /\ UNCHANGED <<events, ctx, interest, waiter, todo, report, failed>>

-----------------------------------------------------------------------------
(* idle()                                                                    *)

\* What epoll can say of f: some of the events it is registered for, and errors
\* whether or not they were asked for.
Reportable(f) ==
    IF interest[f] = {} THEN {}
    ELSE interest[f] \cup (IF HangUps THEN {"ERR"} ELSE {})

\* epoll_wait fills the array for a poller that has worked off the last one.
EpollWait(p) ==
    /\ Running /\ holds[p] = NoFd /\ \A f \in Fds : report[p][f] = {}
    /\ \E r \in [Fds -> SUBSET (Kinds \cup {"ERR"})] :
          /\ \A f \in Fds : r[f] \subseteq Reportable(f)
          /\ \E f \in Fds : r[f] # {}
          /\ report' = [report EXCEPT ![p] = r]
    /\ UNCHANGED <<events, ctx, m_pendingEventCount, interest, waiter, threadVars, failed>>

\* EPOLLERR and EPOLLHUP stand for both events.
RealEvents(mask) == IF "ERR" \in mask THEN Kinds ELSE mask

\* One element of the array, under the FdContext's mutex: re-arm epoll for the
\* events that are left and trigger every event of real_events.
HandleReport(p, f) ==
    LET real == RealEvents(report[p][f]) IN
    /\ Running /\ report[p][f] # {} /\ Lockable(p, f)
    /\ events[f] \cap real # {} /\ ~CtlFails(f)
    /\ report' = [report EXCEPT ![p][f] = {}]
    /\ EpollCtl(f, events[f] \ real)
    /\ BeginTrigger(p, f, real)

\* Nothing to do for this element, or epoll_ctl fails.
SkipReport(p, f) ==
    /\ Running /\ report[p][f] # {} /\ Lockable(p, f)
    /\ events[f] \cap RealEvents(report[p][f]) = {} \/ CtlFails(f)
    /\ report' = [report EXCEPT ![p][f] = {}]
    /\ UNCHANGED <<events, ctx, m_pendingEventCount, interest, waiter, threadVars, failed>>

\* The descriptor is closed without cancelAll: the kernel forgets it.
KernelClose(f) ==
    /\ Running /\ f \in Closable /\ interest[f] # {}
    /\ interest' = [interest EXCEPT ![f] = {}]
    /\ UNCHANGED <<events, ctx, m_pendingEventCount, waiter, threadVars, report, failed>>

CallerStep(x) ==
    \/ \E f \in Fds, e \in Kinds, k \in Waiters : AddEvent(x, f, e, k)
    \/ \E f \in Fds, e \in Kinds : DelEvent(x, f, e)
    \/ \E f \in Fds, e \in Kinds : CancelEvent(x, f, e)
    \/ \E f \in Fds : CancelAll(x, f)

PollerStep(p) ==
    \/ EpollWait(p)
    \/ \E f \in Fds : HandleReport(p, f)
    \/ \E f \in Fds : SkipReport(p, f)

Next ==
    \/ \E x \in Callers : CallerStep(x)
    \/ \E p \in Pollers : PollerStep(p)
    \/ \E x \in Threads : TriggerEvent(x)
    \/ \E x \in Threads : SettleTrigger(x)
    \/ \E f \in Fds : KernelClose(f)

Spec == Init /\ [][Next]_vars

-----------------------------------------------------------------------------
(* Properties                                                                *)

\* The events somebody waits for.
Registered == {fe \in Fds \X Kinds : fe[2] \in events[fe[1]]}

\* m_pendingEventCount is the number of registered events plus the decrements
\* that threads owe for events they have just triggered.  IOManager::stopping
\* (iomanager.cpp:280) lets the threads leave when it reads zero, so it must
\* never be too small, and the process never stops if it stays too large.
PendingExact ==
    m_pendingEventCount =
        Cardinality(Registered) + Cardinality({x \in Threads : owes[x]})

\* A waiter is scheduled once or dropped by delEvent, never both, never twice:
\* each terminal state is final (iomanager.cpp:44-55, 183-187, 217, 362-370).
OneOutcome ==
    [][\A k \in Waiters :
          waiter[k] \in {"scheduled", "dropped"} => waiter'[k] = waiter[k]]_vars

\* Whichever of delEvent, cancelEvent, cancelAll and idle() took the last waiter out
\* of an EventContext, in whatever order, it left nothing behind for addEvent to
\* abort on (iomanager.cpp:143); and between two critical sections epoll watches
\* exactly the events for which somebody waits: no waiter is deaf and no descriptor
\* is reported for nobody.  (The latter for descriptors that are not closed behind
\* the IOManager's back.)
ContextsInSync ==
    /\ failed # "addEvent"
    /\ \A f \in Fds \ Closable :
          (\A x \in Threads : holds[x] # f) => interest[f] = events[f]

\* A waiter that still waits sits in an EventContext whose event epoll watches,
\* or that the thread inside the FdContext's mutex is about to trigger: nobody is
\* left waiting for something that cannot come.  (Same proviso.)
WaiterReachable ==
    \A k \in Waiters : waiter[k] = "waiting" =>
        \E f \in Fds : \E e \in events[f] :
            /\ ctx[f][e] = k
            /\ \/ f \in Closable
               \/ e \in interest[f]
               \/ \E x \in Threads : holds[x] = f /\ e \in todo[x]

-----------------------------------------------------------------------------
(* The inductive invariants behind them, conjunct by conjunct                *)

\* FdContext::mutex has one holder, and a thread outside it has nothing left to
\* trigger and owes no decrement.
LockInv ==
    /\ \A x, y \in Threads : holds[x] # NoFd /\ holds[x] = holds[y] => x = y
    /\ \A x \in Threads : holds[x] = NoFd => todo[x] = {} /\ ~owes[x]

\* An EventContext is in use exactly while its event is registered; what is in it
\* waits, and sits in no second one; and whoever waits sits in one.
ContextInv ==
    /\ \A f \in Fds, e \in Kinds : e \in events[f] <=> ctx[f][e] # NoWaiter
    /\ \A f \in Fds, e \in Kinds : ctx[f][e] # NoWaiter => waiter[ctx[f][e]] = "waiting"
    /\ \A f, g \in Fds, e, d \in Kinds :
          ctx[f][e] = ctx[g][d] /\ ctx[f][e] # NoWaiter => f = g /\ e = d
    /\ \A k \in Waiters : waiter[k] = "waiting" => \E f \in Fds, e \in Kinds : ctx[f][e] = k

\* Outside the FdContext's mutex epoll watches the registered events; under it,
\* those that the holder is not about to trigger.
InterestInv ==
    \A f \in Fds \ Closable :
        /\ (\A x \in Threads : holds[x] # f) => interest[f] = events[f]
        /\ \A x \in Threads : holds[x] = f => interest[f] = events[f] \ todo[x]

EventsInv ==
    /\ TypeOK /\ LockInv /\ ContextInv /\ InterestInv /\ PendingExact
    /\ failed # "addEvent"
=============================================================================
