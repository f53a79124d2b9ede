----------------------------- MODULE TimerManager -----------------------------
(***************************************************************************)
(* sylar's timers: class Timer and class TimerManager (timer.h, timer.cpp) *)
(* together with the part of IOManager::idle that drives them              *)
(* (iomanager.cpp: getNextTimer -> epoll_wait -> listExpiredCb -> drain of *)
(* the tickle pipe).                                                       *)
(*                                                                         *)
(*   Clients  threads that call addTimer / cancel / refresh / reset        *)
(*   Threads  scheduler threads that run the idle loop                     *)
(*   Timers   the Timer objects; a timer is the number that stands for its *)
(*            address, because Timer::Comparator breaks ties by address    *)
(*                                                                         *)
(* m_timers, a std::set ordered by (m_next, address), is the set of its    *)
(* keys: an entry is the pair of the m_next under which the timer was      *)
(* inserted and the timer.  std::set::find(t) looks for the CURRENT        *)
(* m_next of t, so it finds t only if the two agree.                       *)
(*                                                                         *)
(* Every critical section of TimerManager::m_mutex is one action; reads of *)
(* the clock that the code makes outside the lock are steps of their own.  *)
(***************************************************************************)
EXTENDS Integers, FiniteSets

CONSTANTS
    Timers,      \* addresses of the Timer objects
    Threads,     \* threads running IOManager::idle
    Clients,     \* threads using the timer API
    Durations,   \* the values of ms that callers pass
    Hour,        \* 60 * 60 * 1000, the step back that counts as a rollover
    MinNow,      \* the clock's range: gettimeofday in milliseconds
    StartNow,
    MaxNow,
    ClockMayStepBack  \* whether the wall clock can be set back

ASSUME TimerAssumption ==
    /\ Timers \subseteq Nat \ {0}
    /\ Threads # {}         \* SYLAR_ASSERT( threads > 0 )
    /\ Durations \subseteq Nat
    /\ Hour \in Nat /\ MinNow \in Nat /\ StartNow \in Nat /\ MaxNow \in Nat
    /\ Hour <= MinNow       \* m_previouseTime - Hour never wraps
    /\ MinNow <= StartNow /\ StartNow <= MaxNow
    /\ ClockMayStepBack \in BOOLEAN

VARIABLES
    clock,            \* what GetCurrentMS returns
    m_timers,         \* TimerManager::m_timers, as <<key, timer>> pairs
    m_tickled,        \* TimerManager::m_tickled
    m_previouseTime,  \* TimerManager::m_previouseTime
    m_next, m_ms, m_recurring, m_cb,  \* the fields of each Timer
    outcome,          \* what became of a timer, as its users see it
    cpc, carg,        \* a client's place in addTimer / reset, and its timer
    pc,               \* a thread's place in the idle loop
    promised,         \* the deadline a sleeping thread computed
    now_ms,           \* listExpiredCb's local now_ms
    cbs,              \* the callbacks listExpiredCb collected
    sawPipe,          \* epoll_wait reported the tickle pipe to the thread
    pipe,             \* the tickle pipe holds a byte
    crashed           \* undefined behaviour ended the process

timerVars  == <<m_timers, m_next, m_ms, m_recurring, m_cb, outcome>>
clientVars == <<cpc, carg>>
loopVars   == <<pc, promised, now_ms, cbs, sawPipe>>
vars == <<clock, m_tickled, m_previouseTime, pipe, crashed, timerVars,
          clientVars, loopVars>>

\* getNextTimer's numeric_limits<uint64_t>::max(): no timer to wait for.
Never == -1

\* A null Timer::SPtr.
NoTimer == 0

Entries == Nat \X Timers

TypeOK ==
    /\ clock \in Nat
    /\ m_timers \subseteq Entries
    /\ m_tickled \in BOOLEAN
    /\ m_previouseTime \in Nat
    /\ m_next \in [Timers -> Nat]
    /\ m_ms \in [Timers -> Nat]
    /\ m_recurring \in [Timers -> BOOLEAN]
    /\ m_cb \in [Timers -> BOOLEAN]
    /\ outcome \in [Timers -> {"free", "building", "armed", "fired", "cancelled"}]
    /\ cpc \in [Clients -> {"idle", "insert", "notify"}]
    /\ carg \in [Clients -> Timers \cup {NoTimer}]
    /\ pc \in [Threads -> {"loop", "sleep", "check", "expire", "drain", "busy"}]
    /\ promised \in [Threads -> Nat \cup {Never}]
    /\ now_ms \in [Threads -> Nat]
    /\ cbs \in [Threads -> SUBSET Timers]
    /\ sawPipe \in [Threads -> BOOLEAN]
    /\ pipe \in BOOLEAN
    /\ crashed \in BOOLEAN

Init ==
    /\ clock = StartNow
    /\ m_timers = {}
    /\ m_tickled = FALSE
    /\ m_previouseTime = StartNow
    /\ m_next = [t \in Timers |-> 0]
    /\ m_ms = [t \in Timers |-> 0]
    /\ m_recurring = [t \in Timers |-> FALSE]
    /\ m_cb = [t \in Timers |-> FALSE]
    /\ outcome = [t \in Timers |-> "free"]
    /\ cpc = [c \in Clients |-> "idle"]
    /\ carg = [c \in Clients |-> NoTimer]
    /\ pc = [w \in Threads |-> "loop"]
    /\ promised = [w \in Threads |-> Never]
    /\ now_ms = [w \in Threads |-> 0]
    /\ cbs = [w \in Threads |-> {}]
    /\ sawPipe = [w \in Threads |-> FALSE]
    /\ pipe = FALSE
    /\ crashed = FALSE

-----------------------------------------------------------------------------
(* Timer::Comparator, the order of m_timers                                  *)

Before(k, t, e) == k < e[1] \/ (k = e[1] /\ t <= e[2])

\* m_timers.insert(t).first == m_timers.begin(), given the other entries.
AtFront(k, t, others) == \A e \in others : Before(k, t, e)

\* m_timers.find(shared_from_this()): the key searched is the current m_next.
Entry(t) == <<m_next[t], t>>

-----------------------------------------------------------------------------
(* The TimerManager's clients                                                *)

\* addTimer, first half: the constructor reads the clock before the lock.
NewTimer(c, t, ms, recurring) ==
    /\ ~crashed /\ cpc[c] = "idle" /\ outcome[t] = "free"
    /\ cpc' = [cpc EXCEPT ![c] = "insert"]
    /\ carg' = [carg EXCEPT ![c] = t]
    /\ outcome' = [outcome EXCEPT ![t] = "building"]
    /\ m_ms' = [m_ms EXCEPT ![t] = ms]
    /\ m_next' = [m_next EXCEPT ![t] = clock + ms]
    /\ m_recurring' = [m_recurring EXCEPT ![t] = recurring]
    /\ m_cb' = [m_cb EXCEPT ![t] = TRUE]
    /\ UNCHANGED <<clock, m_timers, m_tickled, m_previouseTime, pipe, crashed, loopVars>>

\* Mutant: a newly added timer is never announced.
addTimerLocked_Silent(c, k, t, others) ==
    /\ m_timers' = others \cup {<<k, t>>}
    /\ m_tickled' = m_tickled
    /\ cpc' = [cpc EXCEPT ![c] = "idle"]
    /\ carg' = [carg EXCEPT ![c] = NoTimer]

\* addTimer(val, lock) after the insertion of t under key k: set m_tickled and
\* leave the lock; the notification is a later step of the same client.
addTimerLocked(c, k, t, others) ==
    /\ m_timers' = others \cup {<<k, t>>}
    /\ IF AtFront(k, t, others) /\ ~m_tickled
       THEN /\ m_tickled' = TRUE
            /\ cpc' = [cpc EXCEPT ![c] = "notify"]
            /\ carg' = [carg EXCEPT ![c] = t]
       ELSE /\ m_tickled' = m_tickled
            /\ cpc' = [cpc EXCEPT ![c] = "idle"]
            /\ carg' = [carg EXCEPT ![c] = NoTimer]

\* addTimer, second half: the critical section.
InsertTimer(c) ==
    LET t == carg[c] IN
    /\ ~crashed /\ cpc[c] = "insert"
    /\ addTimerLocked(c, m_next[t], t, m_timers)
    /\ outcome' = [outcome EXCEPT ![t] = "armed"]
    /\ UNCHANGED <<clock, m_previouseTime, pipe, crashed, loopVars, m_next, m_ms, m_recurring, m_cb>>

\* onTimerInsertedAtFront -> IOManager::tickle: write a byte to the pipe, but
\* only if some thread is inside its idle fiber.
onTimerInsertedAtFront(c) ==
    /\ ~crashed /\ cpc[c] = "notify"
    /\ cpc' = [cpc EXCEPT ![c] = "idle"]
    /\ carg' = [carg EXCEPT ![c] = NoTimer]
    /\ pipe' = (pipe \/ \E w \in Threads : pc[w] # "busy")
    /\ UNCHANGED <<clock, m_tickled, m_previouseTime, crashed, timerVars,
                   loopVars>>

\* A timer its users hold a Timer::SPtr to: addTimer has returned it.
Held(t) ==
    /\ outcome[t] \notin {"free", "building"}
    /\ \A c \in Clients : carg[c] # t

\* Timer::cancel
Cancel(c, t) ==
    /\ ~crashed /\ cpc[c] = "idle" /\ Held(t)
    /\ m_cb[t]
    /\ m_cb' = [m_cb EXCEPT ![t] = FALSE]
    /\ m_timers' = m_timers \ {Entry(t)}
    /\ outcome' = [outcome EXCEPT ![t] = "cancelled"]
    /\ UNCHANGED <<clock, m_tickled, m_previouseTime, pipe, crashed,
                   clientVars, loopVars, m_next, m_ms, m_recurring>>

\* Mutant: m_next is changed while the timer stays in the ordered set.
Refresh_KeyInPlace(c, t) ==
    /\ ~crashed /\ cpc[c] = "idle" /\ Held(t)
    /\ m_cb[t] /\ Entry(t) \in m_timers
    /\ m_next' = [m_next EXCEPT ![t] = clock + m_ms[t]]
    /\ UNCHANGED <<clock, m_tickled, m_previouseTime, pipe, crashed, m_timers,
                   clientVars, loopVars, m_ms, m_recurring, m_cb, outcome>>

\* Timer::refresh: the new key is computed from the clock under the lock.
Refresh(c, t) ==
    /\ ~crashed /\ cpc[c] = "idle" /\ Held(t)
    /\ m_cb[t] /\ Entry(t) \in m_timers
    /\ m_next' = [m_next EXCEPT ![t] = clock + m_ms[t]]
    /\ m_timers' = (m_timers \ {Entry(t)}) \cup {<<clock + m_ms[t], t>>}
    /\ UNCHANGED <<clock, m_tickled, m_previouseTime, pipe, crashed,
                   clientVars, loopVars, m_ms, m_recurring, m_cb, outcome>>

\* Mutant: the operands of the subtraction are swapped.
ResetStart_Swapped(t, from_now) ==
    IF from_now THEN clock ELSE m_ms[t] - m_next[t]

\* When reset() takes the timer's current period to have started.
ResetStart(t, from_now) ==
    IF from_now THEN clock ELSE m_next[t] - m_ms[t]

\* Timer::reset.  With the same ms and !from_now it returns before the lock.
Reset(c, t, ms, from_now) ==
    LET start == ResetStart(t, from_now) IN
    /\ ~crashed /\ cpc[c] = "idle" /\ Held(t)
    /\ m_ms[t] # ms \/ from_now
    /\ m_cb[t] /\ Entry(t) \in m_timers
    /\ m_ms' = [m_ms EXCEPT ![t] = ms]
    /\ m_next' = [m_next EXCEPT ![t] = start + ms]
    /\ addTimerLocked(c, start + ms, t, m_timers \ {Entry(t)})
    /\ UNCHANGED <<clock, m_previouseTime, pipe, crashed, loopVars,
                   m_recurring, m_cb, outcome>>

-----------------------------------------------------------------------------
(* The idle loop                                                             *)

\* getNextTimer as IOManager::stopping() calls it from Scheduler::stop(): it
\* clears m_tickled although the caller is not going to sleep.
ProbeNextTimer ==
    /\ ~crashed /\ m_tickled
    /\ m_tickled' = FALSE
    /\ UNCHANGED <<clock, m_previouseTime, pipe, crashed, timerVars,
                   clientVars, loopVars>>

\* idle(): getNextTimer, then epoll_wait with the timeout it returned.
GetNextTimer(w) ==
    /\ ~crashed /\ pc[w] = "loop"
    /\ m_tickled' = FALSE
    /\ pc' = [pc EXCEPT ![w] = "sleep"]
    /\ \/ /\ m_timers = {}
          /\ promised' = [promised EXCEPT ![w] = Never]
       \/ \E e \in m_timers :
             /\ \A f \in m_timers : Before(e[1], e[2], f)
             /\ promised' = [promised EXCEPT ![w] = e[1]]
    /\ UNCHANGED <<clock, m_previouseTime, pipe, crashed, timerVars,
                   clientVars, now_ms, cbs, sawPipe>>

\* epoll_wait returns: the timeout or MAX_TIMEOUT is over, a descriptor is
\* ready, or the pipe is (an edge-triggered pipe wakes only one thread, so a
\* thread may return without seeing it).  listExpiredCb then reads the clock.
EpollReturn(w) ==
    /\ ~crashed /\ pc[w] = "sleep"
    /\ pc' = [pc EXCEPT ![w] = "check"]
    /\ promised' = [promised EXCEPT ![w] = Never]
    /\ now_ms' = [now_ms EXCEPT ![w] = clock]
    /\ \E saw \in {pipe, FALSE} : sawPipe' = [sawPipe EXCEPT ![w] = saw]
    /\ UNCHANGED <<clock, m_tickled, m_previouseTime, pipe, crashed, timerVars,
                   clientVars, cbs>>

\* listExpiredCb: the empty test, under a read lock of its own.
CheckEmpty(w) ==
    /\ ~crashed /\ pc[w] = "check"
    /\ pc' = [pc EXCEPT ![w] = IF m_timers = {} THEN "drain" ELSE "expire"]
    /\ now_ms' = [now_ms EXCEPT ![w] = IF m_timers = {} THEN 0 ELSE @]
    /\ UNCHANGED <<clock, m_tickled, m_previouseTime, pipe, crashed, timerVars,
                   clientVars, promised, cbs, sawPipe>>

\* Mutant: any step back, even of one millisecond, counts as a rollover.
Rollover_AnyStepBack(w) == now_ms[w] < m_previouseTime

\* detectClockRollover
Rollover(w) ==
    now_ms[w] < m_previouseTime /\ now_ms[w] < m_previouseTime - Hour

\* The prefix of m_timers that listExpiredCb removes.
Expired(w) ==
    IF Rollover(w) THEN m_timers ELSE {e \in m_timers : e[1] <= now_ms[w]}

ExpiredTimers(w) == {t \in Timers : \E e \in Expired(w) : e[2] = t}

\* Mutant: a fired one-shot timer keeps its callback.
CbAfterExpiry_Keep(w) == m_cb

\* m_cb = nullptr for the expired timers that do not recur.
CbAfterExpiry(w) ==
    [t \in Timers |-> m_cb[t] /\ (t \in ExpiredTimers(w) => m_recurring[t])]

\* listExpiredCb under the write lock: every expired timer's callback is
\* collected; a recurring one goes back into the set, a one-shot one loses its
\* callback.
ListExpiredCb(w) ==
    LET again == {t \in ExpiredTimers(w) : m_recurring[t]} IN
    /\ ~crashed /\ pc[w] = "expire"
    /\ m_timers # {} \/ Rollover(w)
    /\ m_previouseTime' = now_ms[w]
    /\ cbs' = [cbs EXCEPT ![w] = ExpiredTimers(w)]
    /\ m_next' = [t \in Timers |-> IF t \in again THEN now_ms[w] + m_ms[t] ELSE m_next[t]]
    /\ m_timers' = (m_timers \ Expired(w)) \cup {<<now_ms[w] + m_ms[t], t>> : t \in again}
    /\ m_cb' = CbAfterExpiry(w)
    /\ outcome' = [t \in Timers |->
                     IF t \in ExpiredTimers(w) \ again THEN "fired" ELSE outcome[t]]
    /\ pc' = [pc EXCEPT ![w] = "drain"]
    /\ now_ms' = [now_ms EXCEPT ![w] = 0]
    /\ UNCHANGED <<clock, m_tickled, pipe, crashed, clientVars, m_ms,
                   m_recurring, promised, sawPipe>>

\* The set was emptied between the two locks: (*m_timers.begin())->m_next
\* dereferences end(), whose bytes read as a null Timer::SPtr.
ListExpiredCbEmpty(w) ==
    /\ ~crashed /\ pc[w] = "expire"
    /\ m_timers = {} /\ ~Rollover(w)
    /\ crashed' = TRUE
    /\ UNCHANGED <<clock, m_tickled, m_previouseTime, pipe, timerVars,
                   clientVars, loopVars>>

\* The rest of idle()'s round: the callbacks are scheduled, the pipe is read
\* until it is empty if epoll reported it, and the idle fiber swaps out.
Drain(w) ==
    /\ ~crashed /\ pc[w] = "drain"
    /\ pc' = [pc EXCEPT ![w] = "busy"]
    /\ cbs' = [cbs EXCEPT ![w] = {}]
    /\ pipe' = (pipe /\ ~sawPipe[w])
    /\ sawPipe' = [sawPipe EXCEPT ![w] = FALSE]
    /\ UNCHANGED <<clock, m_tickled, m_previouseTime, crashed, timerVars,
                   clientVars, promised, now_ms>>

\* run() has no task left for the thread: it enters the idle fiber again.
EnterIdle(w) ==
    /\ ~crashed /\ pc[w] = "busy"
    /\ pc' = [pc EXCEPT ![w] = "loop"]
    /\ UNCHANGED <<clock, m_tickled, m_previouseTime, pipe, crashed, timerVars,
                   clientVars, promised, now_ms, cbs, sawPipe>>

-----------------------------------------------------------------------------
(* The wall clock                                                            *)

Tick ==
    /\ ~crashed /\ clock < MaxNow
    /\ clock' = clock + 1
    /\ UNCHANGED <<m_tickled, m_previouseTime, pipe, crashed, timerVars,
                   clientVars, loopVars>>

StepBack ==
    /\ ~crashed /\ ClockMayStepBack
    /\ \E n \in MinNow .. clock - 1 : clock' = n
    /\ UNCHANGED <<m_tickled, m_previouseTime, pipe, crashed, timerVars,
                   clientVars, loopVars>>

ClientStep(c) ==
    \/ \E t \in Timers, ms \in Durations, r \in BOOLEAN : NewTimer(c, t, ms, r)
    \/ InsertTimer(c)
    \/ onTimerInsertedAtFront(c)
    \/ \E t \in Timers : Cancel(c, t)
    \/ \E t \in Timers : Refresh(c, t)
    \/ \E t \in Timers, ms \in Durations, f \in BOOLEAN : Reset(c, t, ms, f)

LoopStep(w) ==
    \/ GetNextTimer(w)
    \/ EpollReturn(w)
    \/ CheckEmpty(w)
    \/ ListExpiredCb(w)
    \/ ListExpiredCbEmpty(w)
    \/ Drain(w)
    \/ EnterIdle(w)

Next ==
    \/ \E c \in Clients : ClientStep(c)
    \/ \E w \in Threads : LoopStep(w)
    \/ ProbeNextTimer
    \/ Tick
    \/ StepBack

Spec == Init /\ [][Next]_vars

-----------------------------------------------------------------------------
(* Properties                                                                *)

\* A timer has a callback exactly while m_timers holds it under its current
\* m_next.  Timer::cancel (timer.cpp:46-49) erases the iterator find() returns
\* without comparing it with end(): this is what makes that defined, and it
\* has to survive every interleaving of cancel, refresh, reset, expiry and
\* re-insertion of recurring timers.
IndexConsistent ==
    /\ \A t \in Timers :
          outcome[t] \notin {"free", "building"} =>
             (m_cb[t] <=> Entry(t) \in m_timers)
    /\ \A e \in m_timers : e[1] = m_next[e[2]]

\* A timer whose one-shot callback was collected, or whose cancel() returned
\* true, has reached its end: no later listExpiredCb of any thread collects its
\* callback again, and no later cancel() succeeds (timer.cpp:46, 164-186).
FiresOnceOrIsCancelled ==
    [][\A t \in Timers :
          outcome[t] \in {"fired", "cancelled"} =>
             /\ outcome'[t] = outcome[t]
             /\ \A w \in Threads : t \in cbs'[w] => t \in cbs[w]]_vars

\* While the wall clock only moves forward, and no thread is delayed by Hour
\* between its read of the clock and the lock, a callback is never collected
\* before the deadline its timer then has (timer.cpp:151-187).
NoEarlyFire ==
    [][\A w \in Threads, e \in m_timers :
          (pc[w] = "expire" /\ pc'[w] = "drain" /\ e[2] \in cbs'[w])
             => e[1] <= clock]_vars

\* Someone is bound to look at the timers again: a notification is on its way
\* or in the pipe, or some thread is outside epoll_wait.
Alert ==
    \/ pipe
    \/ \E c \in Clients : cpc[c] = "notify"
    \/ \E w \in Threads : pc[w] # "sleep"

\* Some thread sleeps no longer than until e is due.
Covered(e) ==
    \E w \in Threads : pc[w] = "sleep" /\ promised[w] # Never /\ promised[w] <= e[1]

\* No lost wakeup: whatever timer is pending, a thread sleeps at most until its
\* deadline or is about to be woken.  m_tickled (timer.cpp:137, 192-200)
\* suppresses notifications and is cleared by threads that do not sleep, and
\* tickle() (iomanager.cpp:270) writes nothing if no thread is idle; neither
\* may lose the wakeup.  The clock does not step back: refresh() never notifies.
NoLostWakeup == \A e \in m_timers : Covered(e) \/ Alert

-----------------------------------------------------------------------------
(* The inductive strengthening of IndexConsistent and FiresOnceOrIsCancelled *)

\* m_timers is the index of the armed timers by their current m_next.
ArmedIndexed ==
    /\ \A e \in m_timers : e[1] = m_next[e[2]] /\ outcome[e[2]] = "armed"
    /\ \A t \in Timers :
          /\ outcome[t] = "armed" => m_cb[t] /\ Entry(t) \in m_timers
          /\ outcome[t] \in {"fired", "cancelled"} => ~m_cb[t]

\* A timer under construction belongs to the one client that inserts it.
BuilderOwns ==
    \A c \in Clients :
        /\ carg[c] # NoTimer => outcome[carg[c]] # "free"
        /\ cpc[c] = "insert" =>
              /\ carg[c] \in Timers
              /\ outcome[carg[c]] = "building" /\ m_cb[carg[c]]
              /\ \A d \in Clients \ {c} : carg[d] # carg[c]

\* m_next - m_ms never wraps.
StartNotNegative == \A t \in Timers : m_ms[t] <= m_next[t]

IndexInv == TypeOK /\ ArmedIndexed /\ BuilderOwns /\ StartNotNegative

(* ... and of NoLostWakeup, for a clock that never steps back.               *)

\* No period, and no reading of the clock, starts in the future.
StartsInPast ==
    /\ \A t \in Timers : m_next[t] <= clock + m_ms[t]
    /\ \A w \in Threads : now_ms[w] <= clock
    /\ m_previouseTime <= clock

\* A suppressed notification is one that is not needed.
TickledIsAlert == m_tickled => Alert

WakeupInv == IndexInv /\ StartsInPast /\ TickledIsAlert /\ NoLostWakeup
=============================================================================
