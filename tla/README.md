# Specifications of the sylar server framework

sylar is a C++ server framework: stackful fibers, a scheduler that runs them on
a pool of threads, an epoll-based IOManager with timers, hooks that turn
blocking system calls into fiber switches, and on top of these sockets, a TCP
server, HTTP, configuration and logging. This directory holds TLA+
specifications of its core, the TLC configurations that check them, and TLAPS
proofs. Line numbers refer to `src/sylar/`.

## 1. Inventory

| Component | State | Operations | What is hard | What makes it correct |
|---|---|---|---|---|
| Fiber (`fiber.cpp`) | `m_state`, saved context | swapIn, swapOut, YieldToReady, YieldToHold, MainFunc, call/back, reset | `m_state` is read and written by several threads without a lock; the context is saved after the state is set | no two threads on one stack; no SYLAR_ASSERT on the state fails |
| Scheduler (`scheduler.cpp`, `.h`) | `m_fibers`, `m_activeThreadCount`, `m_stopping`, `m_autoStop` | schedule, run, start, stop, stopping | workers leave while others still hold tasks; the caller's thread is a worker only inside stop() | no task is lost or run twice; stop() returns, and only when all tasks have ended |
| IOManager, events (`iomanager.cpp`) | an FdContext per descriptor, `m_pendingEventCount`, epoll's interest list | addEvent, delEvent, cancelEvent, cancelAll, triggerEvent, the loop of idle() | reports of epoll_wait are stale by the time they are handled; epoll_ctl can fail | contexts, epoll and the count agree; a waiter gets one outcome |
| IOManager, wake-ups | the tickle pipe, `m_idleThreadCount` | tickle, idle, stopping | a wakeup may be suppressed or eaten by another thread | no thread sleeps past work it should do |
| TimerManager (`timer.cpp`) | the ordered set `m_timers`, `m_tickled`, `m_previouseTime`; per timer `m_next`, `m_ms`, `m_recurring`, `m_cb` | addTimer, cancel, refresh, reset, getNextTimer, listExpiredCb | the clock is read outside the lock and may be set back; cancel races expiry; notifications are suppressed by `m_tickled` | the set is indexed by the current `m_next`; one-shot timers fire once and never after cancel(); none fires early; no wakeup is lost |
| Threads and locks (`thread.h`, `.cpp`) | pthread mutexes, rwlocks, spin locks; scoped locks with `m_locked` | lock, unlock, Thread start/join | scoped locks unlock again in their destructors | mutual exclusion |
| FdManager (`fd_manager.cpp`) | `m_datas`: an FdCtx per descriptor | get, del | the table does not grow; read lock, then write lock | a descriptor's FdCtx describes the descriptor now open |
| Hooks (`hook.cpp`) | the `timer_info` of an operation in progress | do_io, connect_with_timeout, sleep, close, fcntl, ioctl, setsockopt | a timeout races the event it guards; close() races waiters | an operation returns data, an error or ETIMEDOUT, and never somebody else's timeout |
| Socket, Stream (`socket.cpp`, `stream.cpp`, `socket_stream.cpp`) | descriptor, connected flag | connect, accept, close, cancelAll; readFixSize, writeFixSize | sends take part of the bytes or fail | what is sent is what was given, in order |
| TcpServer (`tcp_server.cpp`) | `m_socks`, `m_isStop`, an accept fiber per socket | bind, start, startAccept, stop | one of several binds failing; stop() against the accept loops | stop() ends every loop and closes every socket |
| HTTP session, server, servlets (`http_session.cpp`, `http_server.cpp`, `http_servlet.cpp`) | the buffer and the parser of a recvRequest; `datas_`, `globs_`, `default_` | recvRequest, sendResponse, handleClient; add, delete, dispatch | a request arrives in any number of reads; servlets change under the requests | the servlet in force gets the request that was sent, and answers it once |
| HTTP parser (`http_parser.cpp`, `http-parser/`) | state, header state, marks, content length | execute and its callbacks | callbacks come per read, not per item | the parts of a message are assembled, whatever the reads |
| HTTP connection and pool (`http_connection.cpp`) | `conns_`, `total_`; per connection `request_` | getConnection, ReleasePtr, doRequest, DoRequest | the list is guarded by a lock that is unlocked twice; connections end by several rules | a connection has one user at a time; the count is exact |
| ByteArray (`bytearray.cpp`) | a list of blocks, `m_cur`, `m_position`, `m_size`, `m_capacity` | read*, write*, setPosition, clear, files, buffers | block boundaries; growth | it behaves like one array of bytes; what was written is what is read |
| Config (`config.h`) | a variable's value and listeners | fromString, setValue, addListener | compare and notify under one lock, assign under another | after a load the program is configured as the value says |
| Log (`log.cpp`) | loggers with level, formatter and appenders, a spin lock each | log, add/del/clearAppenders, setFormatter, setLevel, the listener of `logs` | loggers are rebuilt step by step while others write | a message that is accepted is written, to a consistent set of appenders |
| Address, Uri, utilities | | text and system calls | | |

How they interact: `IOManager` derives from `Scheduler` and `TimerManager`. A
worker without tasks runs `IOManager::idle`, which sleeps in epoll_wait until
the next deadline of the TimerManager, then schedules expired timers' callbacks
and triggers the events epoll reported; `triggerEvent` calls
`Scheduler::schedule`. A hooked system call that would block adds a timer and an
event and yields; the event or the timer schedules the fiber again.

The hazards, each at its line and with the properties aimed at it, are listed
in `PROJECT.json`. Smaller ones that no property covers and no module reaches:
`timer.cpp:69` (refresh() does not notify, which matters after the clock was set
back), `hook.cpp:191` (milliseconds in 32 bits; a timeout of 0), `hook.cpp:497`
(FIONBIO), `tcp_server.cpp:87` (start() behind stop()), `log.cpp:370` and `430` (a
formatter assigned without the lock, a file truncated when reopened) and
`socket.cpp:81` (the send timeout sets the receive timeout).

## 2. Modules

Conventions: a critical section of a lock is one action, and everything the code
does outside a lock that another thread can observe is a step of its own. A failed
SYLAR_ASSERT, or undefined behaviour, ends the process (`failed`, `crashed`) and is
then a state that properties talk about. Locks are taken to be correct, except in
HttpClient, which models the scoped lock itself. Operators named `X_Y` after an
operator `X` are deliberately wrong variants of `X`: each property of a passing run
is violated when one of them replaces the original. `TypeOK` is the type of a
module's variables. It is proved for every module that is a state machine, where it
is the first conjunct of the inductive invariants. Only one run spends a property on
it. The modules named `...Proofs` hold the theorems of section 4; most inductive
invariants stand at the end of the module they are about, so that TLC can check them
too.

### TimerManager

Timer, TimerManager, and the part of `IOManager::idle` that drives them.
`m_timers` is a set of `<<key, timer>>` pairs: the `m_next` under which the timer
was inserted, and the timer, a number that stands for the address by which the
comparator breaks ties. `find` searches for the *current* `m_next`, so a changed
key would be missed, as in the code. `outcome` records what a user of the timer
may rely on.

| Action | Code |
|---|---|
| NewTimer, InsertTimer, onTimerInsertedAtFront | addTimer: constructor (reads the clock before the lock), critical section, tickle after it |
| Cancel, Refresh, Reset | `Timer::cancel`, `refresh`, `reset` |
| GetNextTimer, EpollReturn, CheckEmpty, ListExpiredCb, ListExpiredCbEmpty, Drain, EnterIdle | one round of `idle` and `listExpiredCb`; the emptiness test has a read lock of its own, and dereferencing begin() of a set that was emptied in between ends the process |
| ProbeNextTimer | `stopping()` called from `stop()`: clears `m_tickled` without sleeping |
| Tick, StepBack | gettimeofday |

### Scheduler

Scheduler and Fiber, and what IOManager adds to their control: waiting for an
event (addEvent, then YieldToHold) and a `stopping()` that also reads the
pending count. `pc[w]` is a worker's place in `run()`; each access to a fiber's
`m_state` is a step, because no lock protects it. `Root` is the caller's thread
with use_caller. `Trigger` may be taken by any thread, as triggerEvent is. A
callback is a task whose fiber nobody else holds: `run()` treats `cb_fiber` like
`ft.fiber`. The ghost `late` collects the tasks that were scheduled for a thread
which had seen stopping() before (`Leaving`).

### FdEvents

The FdContext of each descriptor and the four operations on it, epoll's
interest list, and the event loop of `idle()`. `holds[x]` is the FdContext whose
mutex thread x holds: triggering an event and decrementing
`m_pendingEventCount` are separate steps inside the critical section, because
the count is read without the mutex. A poller's `report` is the array that
epoll_wait filled; its elements are handled in any order, long after they were
true. `KernelClose` closes a descriptor without cancelAll, after which epoll_ctl
fails for it. What the kernel does (EpollCtl, CtlFails, Reportable, KernelClose)
is external: epoll reports some of the registered events, and errors whether or
not they were asked for.

### Hook

The hooked system calls and FdManager's table, over timers, events and tasks
that appear by what they promise: an armed timer may expire at any time and its
callback is then a task; a registered event may come at any time, or never; a
scheduled fiber is resumed when a thread is free. `pc[f]` is a fiber's place in
its call. All fibers, callbacks and the idle loop share `Workers` threads
(`ThreadFree`), which is what separates one thread, where a call runs
undisturbed between two yields, from several.

| Action | Code |
|---|---|
| CallRaw, CallIo, FunReturns, FunWouldBlock, ArmTimer, Register, RegisterFails, RegisterAborts, YieldToHold, CancelTimer, TestCancelled | do_io, step by step: each step is one that another thread can interleave with |
| CallbackMarks, CallbackCancels | the timer's callback: first `cancelled`, then cancelEvent on the number it captured |
| Connect, KernelConnect, SockErr | connect_with_timeout; it shares the waiting part with do_io |
| Sleep, CallbackWakes | sleep, usleep, nanosleep |
| SocketF, GetCreate, Close, FdManagerDel, CloseF | socket and accept, close; the number is free only after `close_f` |
| SetTimeout, SetUserNonblock | setsockopt, fcntl(F_SETFL) |
| EventComes, Expire, Resume | the idle loop and run() |

A descriptor is a *number*; `open` says which socket is behind it, so that a
number can be given out again while fibers and callbacks still remember it.
`timer[f][n]` are the timers that fiber f armed; those from `first[f]` on belong
to its present call, which is what `winfo.lock()` finds out (`Alive`). Assumed of
the program (`MayUse`): at most one call per socket and direction at a time, and
no call on a socket before socket() has returned it.

### ByteArray and FlatArray

`ByteArray` is the buffer with its list of blocks: `nodes` are the blocks,
`m_cur` the index of the current one (Null behind the last). A call is one
action, since one thread uses an array. Widths are scaled: a byte has `ByteBits`
bits, the two integer widths `Bits32` and `Bits64`; shifts, zigzag, varint groups
and the narrowing return type of EncodeZigzag64 are those of the code. A cell
that nobody stored, and one that `write()` copies from outside the caller's buffer
(`buf + npos`, line 398), is `Junk`. Running off the list ends the process
(`failed`). `StreamRead` and `StreamWrite` are SocketStream's read and write
through getWriteBuffers and getReadBuffers, where the kernel moves any part of the
bytes.

`FlatArray` is the abstract specification: one array of bytes with a position,
where an operation touches only the bytes it moves over. `ByteArray` implements it
(`FlatSpec`), with `content` mapped to the first `m_size` cells of the blocks and
the end of the process to `dead`.

### HttpClient

The connection pool and HttpConnection over Stream::writeFixSize and Socket. `pc[c]` is
a client's place in getConnection, a request or ReleasePtr. The list is guarded by
`mutex_` through ScopedLockImpl as it is: `Release` in the destructor at the end of
getConnection unlocks although unlock() was called before. If another client holds the
mutex by then, it is released under it. That sets the ghost `broken`, after which the
list has no protection and anything could follow; the model stops there. A deleted
connection object may be allocated again. A send takes any part of what is left,
nothing, or fails: the code's unsigned `len` then adds -1 to the offset (`SendFails`).
The test of a connection's age is modelled as written: young ones are dropped.
recvResponse reads into a buffer of size 0, since nothing sets
`s_http_response_buffer_size`, so a request never gets its response and its connection
is closed; connections return to the pool through getConnection, and after a send of
nothing. CloseKeptSocket is a pooled connection being closed by somebody who kept its
socket.

### HttpParser and HttpServer

`HttpParser` is the request parser, one symbol at a time: a symbol is a run of
bytes that the states of `http_parser.c` tell apart, so that a read can end in a
url, in a header's name or value, or in a body. A url is a path, a schema with a host
and perhaps a path, or `*`: the states of `parse_url_char` that lead to these
(`UrlState`) and the verdict of `http_parser_parse_url` (`HasHost`), which a url that
is cut by a read meets piece by piece. `Callback` is the macro that calls back at a
mark and again at the end of a read; `OnUrl` to `OnMessageComplete` are the wrapper's
callbacks. `OnHeaderValue` is setHeader on the map it has: the comparator
(`http.cpp:56-59`) returns strcasecmp, so that each of two different names is less than
the other. In the tree of libstdc++ a search goes right at every name but its own,
while a new name is linked to the left of the last one: the first name that was set is
found, and set again, and never one that was set behind it. That is what the headers of
the model are, those that getHeader finds.

`HttpServer` composes it with HttpSession, HttpServer::handleClient,
ServletDispatch and TcpServer.

| Action | Code |
|---|---|
| Bind, Start, Stop | TcpServer's operations; bind fails for any subset of the addresses |
| Resumed, Check, Accept, AcceptFails | startAccept on a fiber of acceptWorker, which has `AcceptThreads` threads |
| AcceptWaits, AcceptBlocks | accept() with nothing to accept: with hooks it yields its thread, without it keeps it |
| StopperRuns, StopperCancels, StopperHook, StopperCloses | the closing fiber: cancelAll, then close, whose hook cancels again before the descriptor is closed |
| Arrive, Abort | the client (external); a client may send several requests at once |
| Parses, ParsesLast, RecvFails | recvRequest: the symbols of one read, the last of them, and a read that returns nothing or fails |
| Handle, Respond, RespondFails | handleClient: dispatch, response, keep-alive |
| AddServlet, DelServlet, AddGlobServlet, DelGlobServlet, SetName | ServletDispatch while requests are served |

`hooked` is `t_hook_enable` on the server's threads, on or off for good: it starts
false (`hook.cpp:31`), and the framework leaves it to the program to call
set_hook_enable. Without hooks accept() blocks its thread (`blocked`); a descriptor that
is closed meanwhile does not end it, and the connections that still come to the socket
until it returns are taken (`late`); a recv or a send that would have to wait fails,
since accept() made the connection non-blocking all the same. With one thread the
closing fiber cannot run beside an accept() that blocks, so `late` takes two.

Between the symbols of one read a handler only computes on its own data, so nobody
else moves then (`Quiet`). The ghost `cut` says that a read ended in a url or a
header. The ghost `history` is the list of the administrator's calls: the table, what
is done to it, for which uri. A servlet is the number of the call that registered it,
so `Registration`, the last call for a uri if it is one that adds, is at once the
servlet in force; dispatch is compared with what these calls say, not with the tables.

### LogFormatter and ConfigLog

`LogFormatter` is init(), the scan of a pattern, with the verdict "undefined" where
the code reads behind the string, and the documented grammar it is compared with.
`ConfigLog` is the variable `logs` and the loggers: fromString's conversion with
what it skips and what it throws on, setValue with its two locks, the listener as
one step per call it makes on a logger, Logger::log with the spin lock it holds
while the appenders write (and the root's, when the logger has none), each by its own
level, and the operations of a program that changes loggers, the root among them, or the
level of an appender, which takes no lock (`ProgramSetAppenderLevel`). A definition of an
appender has a type, a file and a formatter, all of which operator== compares and of
which the listener applies type and file only; an appender's formatter is otherwise the
logger's at the time it is added. A program's setFormatter takes a formatter as it is, in
error or not; the one with a pattern refuses those. LoggerManager's own lock is left out:
getLogger is one step. The two loops of the listener
are sets of definitions left (`todo`, `gone`), taken in the order of their names, and
the one at hand (`now`). Ghosts: `overlap` (two setValues at once), `touched` (loggers
the program changed), `configured`, and of a message the list it saw, who wrote it and
whose level was changed meanwhile (`seen`, `wrote`, `changed`).

## 3. Runs

| Run | Configuration | Shows |
|---|---|---|
| timer_forward | 2 idle threads, 1 client, 2 timers, durations 1 and 2, two clock values | NoLostWakeup, NoEarlyFire |
| timer_step_back | 1 idle thread, 2 clients, 2 timers, a clock over 3 values that may be set back, rollover threshold 1 | IndexConsistent, FiresOnceOrIsCancelled |
| scheduler_pool | the caller's thread and 2 workers, 2 tasks, two yields each, tasks pinned to the caller's thread or not; fairness | NoAssertionFails, StoppingWindow, StopDrains, StopReturns |
| scheduler_single | the caller's thread only, 2 tasks that wait for events, one fiber scheduled repeatedly; fairness | NoTaskLost, StopDrains, StopReturns |
| fd_events_shared | 2 descriptors, one of them closed from outside, 2 callers, 2 pollers, 3 waiters, hang-ups | ContextsInSync, PendingExact, WaiterReachable, OneOutcome |
| hook_single | 1 thread, 2 fibers, one socket, reads with up to 2 timers per fiber, close, options; fairness | WaiterReachable, TimeoutStillComing, TimedCallReturns |
| hook_parallel | 2 threads, 2 fibers, one number for 2 sockets in turn, reads, connects and sleeps with one timer per fiber, close | TimeoutIsOwn, FdCtxFresh, ConnectVerdict |
| bytearray | blocks of 1, 2 and 3 bytes, up to 5 bytes, every history of 4 calls | CurIsPosition, FailsOnly, TypedRoundTrip, BulkExact, FlatSpec |
| http_client | 2 clients, 2 connections, 3 calls, requests of 2 bytes; fairness | OneHolder, TotalExact, RequestSent, ConnectionServed |
| http_server | 1 listening socket, hooks on or off, a connection with any of 10 streams of requests cut at any symbol, one change of the servlets, stop at any time; fairness | RequestIntact, AnsweredIff, DispatchByHistory, StopEnds, ClientFinished |
| log_config | 2 threads, 2 loggers, 3 calls: loads of 3 documents, messages, direct changes of loggers, the root and appenders; all patterns of up to 4 symbols; fairness | AcceptedWritten, ConfigApplied, FormatterGrammar, CallsReturn |
| scheduler_yield_race | the smallest instance that shows the finding | violated, see section 5 |

Why the bounds are enough. Two timers make "the other timer is first" and ties by
address happen; two durations make reset() move a timer either way; the distance
between the clock's values covers expiry, exact equality and the rollover test on
both sides of the threshold. For the scheduler, three workers are what it takes
for one to leave in the window of line 174 while a second holds the task and the
third still picks; every loop of a task is bounded by `MaxYields`. For the
events, three waiters let a descriptor be registered again after a waiter was
taken out, while reports of the first registration are outstanding and the other
event is registered too. For the hooks, two
sockets under one number are one reuse, and two timers per fiber let a late
callback of one call, or of one try, meet the next (in hook_parallel one timer per
fiber, which the second socket's call can still meet).

Blocks of 1 to 3 bytes with up to 5 bytes put every operation before, on and after
a block's end, and four calls are a write, a clear or a new position, a write and a
read; a scaled byte of two bits makes varints of several groups and integers that
wrap. Two clients and two connections are what a shared or leaked connection takes;
three calls let a connection come back from the pool twice, once past its request
limit. In http_server the streams are one per path through the parser: an absolute url
with a path and without, `*`, a path; one header, and two of which the second is lost; a
length, chunks, an upgrade, an unknown method, a url that is no path, one without a host,
and two requests that pipeline. The other refusals (CONNECT, an encoding other than
chunked, one length twice, a length beside an encoding) are the theorems'. One
change before, during or after the dispatch is what its order depends on; a second
connection shares nothing with the first but the tables. Three calls of two threads
let a load, a direct change and a message meet, or a load follow a load; the three
documents between them repeat, change and remove a logger, give a file and a formatter,
name no logger, an unknown type, a file appender without a file, and throw.

What the properties except. Several components do fail, and the models reproduce
it; the properties then say exactly up to where the component can be relied on.
FailsOnly enumerates the four ways in which ByteArray runs off its blocks;
StopDrains excepts the tasks in `late`: a worker that sees stopping() in the window
of `scheduler.cpp:174` is on its way out, but takes what it finds queued first; the
task whose turn comes again may then schedule work for exactly a thread that has
left, and stop() returns with that work in the queue. It takes a task that yields
twice. TypedRoundTrip and BulkExact hold for writes that start a block and fit in it.
OneHolder and TotalExact hold until a lock is released under its
holder. RequestIntact holds unless a read ends in the url or in a header, and, like
AnsweredIff, for a client that waits for its answer and whose one request ends where
its headers say; and of the headers it claims what the map finds: none that was not
sent, and those with the name of the first (`Intact`). What is refused is listed
(`Refusable`): unknown methods and CONNECT, urls that are neither a path, nor `*`, nor
absolute with a host, upgrades, a length beside an encoding, two lengths, an encoding
other than chunked, and a length that is no number of the model. Without hooks a handler
may give up on any of them, as a recv or send fails that would have to wait. StopEnds
holds with one thread for the accept loops, and unless an accept() without hooks waits
for a connection that does not come (`AcceptHangs`): then the closing fiber never gets
the thread. With two threads a loop can register again between the hook's cancelAll and
close_f, and waits for ever.

AcceptedWritten says nothing of an appender whose level the program changes while the
message is on its way through the list; and a message that a logger accepted and had no
appender for can still be refused by the root, whose level is its own, or find that the
root has no appender. ConfigApplied excepts overlapping loads, loggers that the program
changes itself, the formatter of an appender whose definition gives one, and a process
that has crashed. FormatterGrammar speaks of the formatters of loggers that the program
has not changed itself.
ConnectVerdict holds as long as no socket has been closed and nobody is closing this
one: a registration that a close() leaves behind makes addEvent fail.

WaiterReachable with close(), and TimeoutStillComing, are checked for one thread.
With two they do not hold: a fiber that registers between the cancelAll and the
`close_f` of another fiber's close() is out of reach, and a timer whose callback
runs before addEvent has no effect. Nothing in the repository says that a read
may race a close(), or how late a timeout may be, so both are listed as hazards
and not as findings.

Deadlock checking is off in all runs: a stopped scheduler, a process that
aborted, and an instance whose waiters or timers are used up are proper ends.

Fairness (scheduler_pool, scheduler_single): weak fairness of each worker's code,
which is what a preemptive kernel gives a thread that never blocks for good (the
idle loop polls, or sleeps at most MAX_TIMEOUT = 3 s); of the owner, who has
called stop(); and of the events the tasks wait for, without which stop() waits
by design (`stopping()` asks for a pending count of zero). StopReturns makes one
exception, `Stranded`: a task scheduled for exactly a thread that left run() in
the window of `scheduler.cpp:174` stays in the queue for ever, and keeps the workers
that have not seen stopping() yet from leaving.

Fairness (hook_single): strong fairness of each fiber's next step and of each
timer's next step. Both need a free thread, which comes and goes as other fibers
run; the queue is taken from in order, so a queued fiber or callback gets its
turn, and a worker that finds the queue empty runs the idle loop, where timers
expire. Nothing is assumed of events.

Fairness (http_client): weak fairness of a client's next step in the pool, as its
thread runs, and strong fairness of taking the mutex, which a futex hands to a
waiter sooner or later. Nothing is assumed of sends or of the peer.

Fairness (http_server): weak fairness of the accept loops, the closing fiber and
the handlers, strong fairness of getting a thread of acceptWorker, whose queue is
served in order. That is fairness among the fibers that are given a thread whenever one
is free: an accept() without hooks keeps its thread, none is free then, and nothing is
assumed. A handler's read ends because startAccept sets a receive timeout
on every accepted socket (`tcp_server.cpp:79`).

Fairness (log_config): weak fairness of each thread's next step inside a call. A
spin lock needs no more here, as nobody takes it infinitely often with finitely many
calls; that the calls are finitely many is the bound, and starvation by an endless
stream of messages is not examined.

`NoAssertionFails` is checked with several workers and without events: section 5
says what happens with them.

## 4. Proofs

Every theorem holds for all values of the constants that satisfy the module's
assumption. Each rests on an inductive invariant that TLC checked on the instance of
a run first; the properties themselves are not inductive.

### TimerProofs

For every set of timers, threads, clients and durations and every range of the clock:

* **TypeCorrect**: `Spec => []TypeOK`.
* **CancelFindsEntry**: `Spec => []IndexConsistent`.
* **FiredOrCancelledIsFinal**: `Spec => FiresOnceOrIsCancelled`.
* **WakeupNotLost**: `~ClockMayStepBack /\ Spec => []NoLostWakeup`.
* **NothingFiresEarly**: `~ClockMayStepBack /\ Spec /\ []Prompt => NoEarlyFire`.

The first three rest on the inductive invariant `IndexInv`. IndexConsistent is
not inductive: a timer being built has a callback and is in no set, so the client
that builds it must own it alone (`BuilderOwns`); that `m_timers` holds armed
timers only, under their current key (`ArmedIndexed`), is what makes expiry and
cancel disjoint; and `m_ms <= m_next` (`StartNotNegative`) keeps the subtraction
in reset() in the natural numbers.

WakeupNotLost rests on `WakeupInv`. Its heart is `TickledIsAlert`: when
`m_tickled` suppresses a notification, one is on its way, is in the pipe, or some
thread is awake. `StartsInPast` says that a deadline is never more than its
period ahead of the clock; it is what makes refresh(), which does not notify,
harmless, and it fails when the clock steps back, hence the premise.

NothingFiresEarly needs, beyond `WakeupInv`, that detectClockRollover is never wrong.
It compares the thread's reading with `m_previouseTime`, which other threads advance: a
thread that sleeps for more than an hour between its reading and the lock takes their
later reading for a rollover, and expires every timer. `Prompt` excludes exactly that
delay. In run timer_forward the clock's range is shorter than the hour, so that it
holds by itself.

The assumption on the constants (`TimerAssumption`) is that times and durations
are natural numbers, that there is a thread, and that the clock is at least an
hour past its epoch so that `m_previouseTime - 60*60*1000` does not wrap.

### SchedulerProofs

For any number of workers, tasks, affinities and yields, with or without use_caller:

* **TypeCorrect**: `Spec => []TypeOK`, in every configuration.
* **PoolAssertionsHold**, **PoolLosesNoTask**, **PoolStoppingWindow**,
  **PoolStopDrains**: `Pool /\ Spec => []P` for NoAssertionFails, NoTaskLost,
  StoppingWindow and StopDrains.
* **SingleAssertionsHold**, **SingleLosesNoTask**, **SingleStoppingWindow**,
  **SingleStopDrains**: the same under `Single`.

`Pool` says that tasks neither wait for events nor are scheduled again by an owner
who keeps the fiber (as in run scheduler_pool); `Single` that there is one worker,
with events and repeated scheduling (run scheduler_single). One of the two is
needed: with several workers and either of these, the races of section 5 do break
the properties.

`BaseInv` holds in every configuration: a worker has a task in hand exactly in some
places of run() (`HandInv`), `m_activeThreadCount` is the number of workers between
its increment and its decrement (`CountInv`, which makes it a natural number and
gives a count of zero its meaning), and how far stop() is says who may be in run()
(`OwnerInv`). `PoolInv` adds that a task is at one place (`OnePlace`), in a state
that fits the place (`PoolStates`): this is why the accesses to `m_state` without a
lock do no harm in a pool, as nobody but the worker that has the task in hand writes
it. StopDrains needs two more conjuncts. `NotForgotten`: while an item that any
thread may take is queued, some worker will look at the queue again before it leaves;
`PinnedLate`: what is queued for a thread that leaves is late, as the queue was empty
when that thread saw stopping(). `SingleInv` says where a fiber is by its state
(`SoleFits`, `Held`); HOLD implies queued or registered, even while the worker is
between setting it and saving the context. `SingleOver` says that the worker leaves
when all is over: between reading the pending count and taking the lock
(`iomanager.cpp:280`) nobody registers an event, since only the thread that asks runs
tasks.

`SchedulerAssumption` asks for finitely many threads, at least one, and distinct
special values.

### FdEventsProofs

For any descriptors, callers, pollers and waiters, whichever descriptors are closed
behind the IOManager's back: **TypeCorrect**, **PendingCountExact** (PendingExact),
**EpollInSync** (ContextsInSync), **WaiterCanBeWoken** (WaiterReachable) and
**OutcomeIsFinal** (OneOutcome), from `EventsInv`. Its conjuncts: the mutex of an
FdContext has one holder, who alone has something to trigger or to pay for
(`LockInv`); an EventContext has a waiter exactly if its event is registered, each
waiter is in one, and it is in state waiting (`ContextInv`); inside a critical
section epoll's list differs from the registered events by what the holder has yet to
do (`InterestInv`). `FdEventsAssumption` asks for finitely many descriptors and
threads, for the counting.

### HookProofs

For any number of fibers, descriptors, sockets, threads and timers:

* **HookInvariant**: `Spec => []HookInv`, and from it **TypeCorrect**,
  **TimeoutBelongsToCall** (TimeoutIsOwn), **FdCtxIsFresh** (FdCtxFresh) and
  **ConnectTellsTheTruth** (ConnectVerdict).
* **SingleWaiterReachable**, **SingleTimeoutStillComing**: `Single /\ Spec => []P` for
  WaiterReachable and TimeoutStillComing, where `Single` is one thread.

`CancelInv` ties `cancelled` to a timer of the present call that is marked or over.
`FdInv` says that a socket is open under one number and that only one fiber at a time
is between the kernel's table and FdManager's for it, which is why an FdCtx can be
absent but never stale: del comes before `close_f`. `WaitInv` ties registrations,
`queued` and places together: who is registered waits for that event, and who waits is
registered, queued, or asleep with its timer to come. `SocketInv` keeps calls on one
socket apart by direction. `ConnectInv` speaks of the time in which no socket has been
closed (`NoneClosed`): then addEvent does not fail, timers were armed for a number by
calls on the one socket it had (`FirstUse`), and a connect() is woken only when it was
cancelled or is decided (`Verdict`).

With one thread, `Turns` says that a fiber runs or a callback is under way, never both,
so that close() goes from cancelAll to `close_f` without a registration in between
(`Registered`) and that a callback which has set `cancelled` finds the call still
registered and ends its wait (`InTime`). Both arguments need the single thread: section
3 says what happens with two. `HookAssumption` asks for finitely many fibers, at least
one thread and distinct special values.

### HttpClientProofs

For any number of clients, connections, calls and any length of a request:
**TypeCorrect**, **ConnectionHasOneHolder** (OneHolder), **TotalIsExact** (TotalExact)
and **RequestIsSent** (RequestSent), from `PoolInv`. Its conjuncts: unless the ghost
`broken` is set, who is inside the critical section holds `mutex_` (`MutexInv`); what
a client's variables hold at each place of its call (`CallInv`); a connection is
listed once, in one hand or in one bin of connections to be deleted (`PlaceInv`);
`total_` is the number of the listed ones and of those in hand and in bins that are
still counted (`TotalInv`); the end of the bytes on the wire is what was sent of the
request so far (`SentInv`). The assumption asks for finitely many clients and
connections (threads and addresses).

### ConfigLogProofs

For any number of threads, loggers, documents and calls: **LogInvariant**
(`Spec => []LogInv`), and from it **TypeCorrect**, **AcceptedIsWritten**
(AcceptedWritten) and **ConfigIsApplied** (ConfigApplied); for patterns of every
length, **PatternsAreGrammatical** (FormatterGrammar).

`MessageInv` follows a message: who writes holds the logger's lock and has written a
prefix of the list he saw, and since every change of a list needs that lock
(`LoggersStep`, proved for each action), the list is still the logger's, and so are the
levels of its appenders but for those that were changed on the way (`SeenIn`). A message
that one logger accepted and had no appender for is the root's, which always exists
(`RootInv`); nothing is claimed of the root's level or list.
`ConfigInv` follows setValue: between two of them the loggers are what m_val says
(`Settled`); during one, the definitions done fit their loggers (`Defined`), the one at
hand is as far as the listener's calls have come (`AtHand`), the loggers that are gone
and done are silent (`Removed`), and those that neither value defines stay silent
(`Undefined`). That these do not disturb one another needs that a value has one
definition for a name (`OneEach`, which LexicalCast guarantees whatever the document).
Nothing is claimed once two setValues have overlapped: both listeners then run under
read locks, and the value that is assigned last need not be the one applied last.

PatternsAreGrammatical compares the loop of LogFormatter::init with the grammar of
`log.h:299` and the escape that `log.cpp:541-542` declares (`Documented`); without the
escape it is `Plain`, and that is what init accepts. `ScanInv` says where the loop can
be after each turn: between two items it has accepted so far what the grammar has
(`Between`); behind a %, what the grammar had before it (`InItem`); behind a %d at the
end the verdict is open (`OpenEnd`); a format without an end is an error, and from there
on no longer prefix is documented (`Unclosed`). That an item is read in one way only
needs that no prefix which ends inside it is documented (`Closed`). The formatters of
the loggers that the program has not changed itself are then patterns that init did not
refuse, since the listener's setFormatter tests them (`FormattersUsable`).

`ConfigLogAssumption` asks for well-formed documents, for patterns of the program that
are not empty, and that init accepts the one pattern every logger starts with. That the
appenders which are kept of a document are of the known types is proved, by induction
over the document (`KeptType`).

### ByteArrayProofs

For blocks of any size, bytes and integers of any widths where the small ones divide
the large ones, and any values and calls: **TypeCorrect**, **CursorIsPosition**
(CurIsPosition), **FailsInFourWays** (FailsOnly), **TypedReadsReturnWhatWasWritten**
(TypedRoundTrip), **BulkTransfersExact** (BulkExact) and **ImplementsFlatArray**
(FlatSpec).

`ArrayInv` is TypeOK, CurIsPosition, FailsOnly, and `Counted`: there is a block, and
`m_capacity` counts at least the blocks there are. Without the last, growth could not
be shown to suffice; that `m_capacity` may count more is what clear() does, and the
first of the four ways to fail. Every operation is reduced to a few facts about it:
it moves over some bytes (`MovedTo`) or the process has died (`Died`), and a write
stores all that it is passed if it starts a block and fits, which the offset of
`write()` (line 398) makes necessary. `RoundInv` adds what is remembered of a typed write
(`Remembers`): as long as no other write touches it, the cells at its position are its
encoding. Reading them back is arithmetic: digits to the base `2^ByteBits` in either
order, varint groups, zigzags below `2^(Bits32-1)`; the powers of two and the
divisions it needs are lemmas of the module.

ImplementsFlatArray maps each call to a step of FlatArray or a stutter: the cells
before the position stay, those the call moves over are what it wrote, and growing or
dropping blocks changes no cell below `m_size`.

### HttpServerProofs

For any clients, streams of requests, addresses, threads and calls of the administrator:
**TypeCorrect**, **RequestArrivesIntact** (RequestIntact), **AnsweredExactly**
(AnsweredIff), and **DispatchFollowsHistory** (DispatchByHistory).

RequestArrivesIntact and AnsweredExactly hold for requests with urls of any form and any
number of pieces, any headers and any number of bytes of a chunked body, however they
are cut into reads, with hooks and without; a body with a content-length is as long as
one of the numbers that the model knows (`Number`), and other values of that header
count as no number. Their argument has three parts.

* The encoding, symbol by symbol (`HeadCoded`, `BodyCoded`; lemma RequestCoded): the
  k-th symbol of Encode(r) as a function of k.
* The parser's place (`At(r, p, k)`): what is true of a parser p that is behind k symbols
  of r. In the head, its flags, its length and the headers handed over are those of the
  headers so far (`FlagsUpTo`, `LengthIs`, `HeadersUpTo`, the last as the map keeps them);
  in the body, what was handed
  over, followed by what is still marked, is what came. A symbol brings it one place
  further, to a complete message that is to be answered, or to a refusal that
  `Refusable` lists (lemma Advances, with a lemma for each kind of symbol). The end of a
  read hands over what is marked and changes neither the place nor the verdict, unless
  it is in the url or in a header (lemma ReadsOut): the reason for the exception.
* The connection's life. `ServingInv` is TypeOK; for each client `Connection`, which says
  at each place of the handler where the parser is in the request, what is left to read
  and what was answered; and what the steps of others must not disturb: a client that is
  in a backlog waits there and is there once (`Waiting`), without which an accept could
  start a session twice, and the closing fiber has a socket to close (`Closes`).

`DispatchInv` is TypeOK and `TableInv`, the tables in terms of the calls: the
registration in force of a uri is its entry in `datas_`; the one of a pattern is what
`globs_` has for it (`Listed`), and it has it once (`OncePerPattern`), which is what
addGlobServlet's loop is for; that of the default is `default_`. Because a new entry
goes to the end and the old one of the same pattern goes, `globs_` is in the order of
the registrations in force (`Ordered`): the first match of getMatchedServlet is the
oldest of them. `HttpServerAssumption` asks that the patterns registered before the
start be distinct, numbers of threads and calls, and that clients send sequences of
requests (`IsRequest`: a path, headers that are pairs and a body, of any length and with
any names and values; behind a host comes a path, as queries are left out). What a
servlet sees is what the parser makes of a request (`Kept`), and lemma KeptIsIntact says
how much of it that is.

### Induction over data

What a loop over a sequence computes is proved for sequences of every length where a
theorem needs it: appenders of a document, characters of a pattern, cells of blocks,
digits of a number. The loop is a recursive function on `0 .. Len(s)`; one lemma
unfolds it by a step, and induction is the statement that a set of natural numbers
which contains 0 and the successor of each of its members contains all
(`SetInduction`, from the library's least element of a nonempty set).

### Only model-checked

* Liveness under fairness, which is out of the prover's reach: StopReturns,
  TimedCallReturns, ConnectionServed, StopEnds, ClientFinished, CallsReturn.
* AddEventAssertion, which run scheduler_yield_race refutes.

## 5. Findings

`scheduler.cpp:179` (run scheduler_yield_race): `run()` writes HOLD to a fiber
that was woken and resumed by another worker in the meantime; the fiber's next
addEvent fails the assertion at `iomanager.cpp:150`.

Other faults that the models reproduce, listed as hazards where they arise:

* `fiber.cpp:142`: a fiber that is queued twice is taken by two workers, since EXEC
  is tested under the lock and set outside it; the assertion at line 141 fails.
* `iomanager.cpp:334`: a hang-up triggers both events although only one is
  registered; the assertion at line 46 fails.
* `hook.cpp:170`: a reader woken by another fiber's close() retries on the number,
  which may belong to a new socket by then; with that socket's own reader it
  registers READ twice, and the assertion at `iomanager.cpp:125` fails.
* `bytearray.cpp:398`, `370`, `559`: write() copies from a wrong offset, clear()
  leaves `m_capacity`, addCapacity can be one block short.
* `thread.h:40`: the destructor's second unlock can release the pool's mutex under
  another thread.
* `stream.cpp:36`: a failed send is taken for a huge one.
* `bytearray.cpp:517-524`: writeToFile that starts inside a block with less than a block
  left to read goes back and forth around the end of the list, and runs off it.
* `http_parser.cpp:99`: a url or header that spans two reads keeps its last part.
* `http.cpp:58`: the header map's comparator is no order; from the second name on a header
  that was set is not found, and is inserted anew when it is set again.
* `hook.cpp:31`: hooks are off unless the program enables them; accept() then blocks the
  thread of acceptWorker (`tcp_server.cpp:77`), and with one thread the fiber that stop()
  scheduled never runs.
* `log.cpp:812-824`: an appender's own formatter is parsed, compared and never applied.
* `log.cpp:541-542`: %% is declared an escape and refused as an unknown item.
* `log.cpp:350-361`: setFormatter of a formatter takes one that is in error.
* `log.cpp:806`: an unchanged definition in a changed set dereferences null;
  `log.cpp:676`: a change of the level alone is taken for no change.

## 6. Not modelled, and the plan

Next, in this order:

1. **IOLoop**: the queue, the tickle pipe, `m_idleThreadCount` and the timers
   composed: no task stays queued while every thread sleeps.
2. **FdTable**: `contextResize` between a read lock and a write lock, and the 64
   entries of FdManager.
3. The parser of responses, which differs from the modelled one in its first line and in
   how a body without a length ends; queries and fragments of urls; getReadBuffers at a
   given position; the registry of Config.
4. Abstract specifications: a bag of tasks, each run to its end once, which
   Scheduler implements; the timer service that Hook relies on, which TimerManager
   implements.

Of the hooks, ioctl(FIONBIO), the kernel's own O_NONBLOCK and every call but accept,
recv and send with the hooks off are still open. So are the contents of log files, the
ownership of fibers, LoggerManager's own lock, and the accesses that
ServletDispatch::setDeafault makes without its lock: it is one step here.

Left out for good: the lines of the vendored http-parser that classify characters,
YAML conversions other than that of `logs`, what log items print, addresses and
URIs (text and system calls), stack allocation and context
switching as such.
