--------------------------------- MODULE Hook ---------------------------------
(***************************************************************************)
(* The hooked system calls (hook.cpp) over the timers and the events of    *)
(* the IOManager, and the table of FdManager (fd_manager.cpp).             *)
(*                                                                         *)
(* A call that would block arms a timer, registers for the event, yields,  *)
(* and on being resumed cancels the timer, looks at timer_info::cancelled  *)
(* and tries again.  The timer's callback is a task of its own: it is      *)
(* collected, sets cancelled, and only then cancels the event, of whoever  *)
(* is registered for the descriptor's NUMBER by then.                      *)
(*                                                                         *)
(*   Fibers     fibers that make system calls, with hooks enabled          *)
(*   Fds        descriptor numbers; the kernel gives a closed one out again *)
(*   Sockets    the sockets that are ever opened                           *)
(*   Workers    how many threads the IOManager has.  Its idle loop, its    *)
(*              timer callbacks and the fibers all run on them             *)
(*   Calls      the system calls that the fibers make                      *)
(*   IoKinds    the directions in which they read and write                *)
(*   MaxTimers  bound: the timers that a fiber ever arms                   *)
(*                                                                         *)
(* Timers, events and scheduling appear by what they promise; TimerManager, *)
(* FdEvents and Scheduler model how they keep it.                          *)
(***************************************************************************)
EXTENDS Integers, FiniteSets

CONSTANTS Fibers, Fds, Sockets, Workers, Calls, IoKinds, MaxTimers
CONSTANTS NoFiber, NoSocket, NoFd

ASSUME HookAssumption ==
    /\ NoFiber \notin Fibers /\ NoSocket \notin Sockets /\ NoFd \notin Fds
    /\ IsFiniteSet(Fibers)
    /\ Workers \in Nat \ {0} /\ MaxTimers \in Nat
    /\ Calls \subseteq {"io", "connect", "sleep", "close", "options"}
    /\ IoKinds \subseteq {"READ", "WRITE"}

Kinds == {"READ", "WRITE"}
TimerIds == 1 .. MaxTimers

\* try: at the label retry.  arm, register: about to call addConditionTimer,
\* addEvent.  yield: about to call YieldToHold.  held: swapped out.  resumed:
\* about to cancel the timer.  test: about to look at cancelled.  sockerr: about
\* to call getsockopt.  newfd: socket_f has returned.  del, closing: in close(),
\* after cancelAll and after del.
FiberPC == {"idle", "try", "arm", "register", "yield", "held", "resumed", "test",
            "sockerr", "newfd", "del", "closing"}

\* armed: in the TimerManager.  queued: its callback is scheduled.  marked: the
\* callback has set cancelled.  ran: the callback is over.  stopped: cancel()
\* came in time.
TimerState == {"none", "armed", "queued", "marked", "ran", "stopped"}

VARIABLES
    open,         \* kernel: the socket behind a descriptor number
    conn,         \* kernel: the connection of a socket
    watched,      \* kernel: the descriptor is registered with epoll
    m_datas,      \* FdManager: the FdCtx of a number
    slot,         \* IOManager: who is registered for an event
    pc, op,       \* a fiber's place in its call, and the call's arguments
    cancelled,    \* the call's timer_info
    queued,       \* the fiber is in the scheduler's queue
    timer,        \* the timers that a fiber armed, by number
    tno, first,   \* its last timer, and the first one of this call
    result,       \* what its last call returned
    failed        \* the assertion of addEvent ended the process

eventVars == <<watched, slot, queued>>
timerVars == <<timer, tno, first>>
vars == <<open, conn, m_datas, eventVars, pc, op, cancelled, timerVars, result, failed>>

\* A call: its name, descriptor, event, whether it has a timeout, and the socket
\* that was behind the descriptor when it was made.
Op == [call : {"none", "io", "connect", "sleep", "close", "socket"},
       fd : Fds \cup {NoFd}, kind : Kinds, timed : BOOLEAN,
       socket : Sockets \cup {NoSocket}]

NoOp == [call |-> "none", fd |-> NoFd, kind |-> "READ", timed |-> FALSE, socket |-> NoSocket]

\* An FdCtx: the socket it was made for, its timeouts, O_NONBLOCK by the user.
FdCtx == [socket : Sockets, timeout : [Kinds -> BOOLEAN], userNonblock : BOOLEAN]
NoCtx == [socket |-> NoSocket]

\* A timer and what its callback captured; sleep() captures no descriptor.
Timer == [state : TimerState, fd : Fds \cup {NoFd}, kind : Kinds]
NoTimer == [state |-> "none", fd |-> NoFd, kind |-> "READ"]

TypeOK ==
    /\ open \in [Fds -> Sockets \cup {NoSocket}]
    /\ conn \in [Sockets -> {"unborn", "new", "trying", "up", "refused"}]
    /\ watched \in [Fds -> BOOLEAN]
    /\ m_datas \in [Fds -> FdCtx \cup {NoCtx}]
    /\ slot \in [Fds -> [Kinds -> Fibers \cup {NoFiber}]]
    /\ pc \in [Fibers -> FiberPC]
    /\ op \in [Fibers -> Op]
    /\ cancelled \in [Fibers -> BOOLEAN]
    /\ queued \in [Fibers -> BOOLEAN]
    /\ timer \in [Fibers -> [TimerIds -> Timer]]
    /\ tno \in [Fibers -> 0 .. MaxTimers]
    /\ first \in [Fibers -> 1 .. MaxTimers + 1]
    /\ result \in [Fibers -> {"none", "ok", "error", "ETIMEDOUT"}]
    /\ failed \in BOOLEAN

Init ==
    /\ open = [d \in Fds |-> NoSocket]
    /\ conn = [s \in Sockets |-> "unborn"]
    /\ watched = [d \in Fds |-> FALSE]
    /\ m_datas = [d \in Fds |-> NoCtx]
    /\ slot = [d \in Fds |-> [k \in Kinds |-> NoFiber]]
    /\ pc = [f \in Fibers |-> "idle"]
    /\ op = [f \in Fibers |-> NoOp]
    /\ cancelled = [f \in Fibers |-> FALSE]
    /\ queued = [f \in Fibers |-> FALSE]
    /\ timer = [f \in Fibers |-> [n \in TimerIds |-> NoTimer]]
    /\ tno = [f \in Fibers |-> 0]
    /\ first = [f \in Fibers |-> 1]
    /\ result = [f \in Fibers |-> "none"]
    /\ failed = FALSE

-----------------------------------------------------------------------------
(* Threads and calls                                                         *)

\* The fibers and callbacks that occupy a thread.
Busy ==
    Cardinality({f \in Fibers : pc[f] \notin {"idle", "held"}})
    + Cardinality({ft \in Fibers \X TimerIds : timer[ft[1]][ft[2]].state = "marked"})

\* A thread is free to take a task, or to run the idle loop.
ThreadFree == ~failed /\ Busy < Workers

At(f, l) == ~failed /\ pc[f] = l
Goto(f, l) == pc' = [pc EXCEPT ![f] = l]

\* The call of fiber f ends.
Return(f, r) ==
    /\ Goto(f, "idle")
    /\ result' = [result EXCEPT ![f] = r]

\* Fiber f begins a call, with a timer_info of its own.
Begin(f, c) ==
    /\ op' = [op EXCEPT ![f] = c]
    /\ first' = [first EXCEPT ![f] = tno[f] + 1]
    /\ cancelled' = [cancelled EXCEPT ![f] = FALSE]

\* The program uses its sockets properly: one call per direction at a time.
MayUse(d, k) ==
    /\ open[d] # NoSocket
    /\ \A g \in Fibers :
          (pc[g] # "idle" /\ op[g].socket = open[d]) =>
             /\ op[g].call # "socket"
             /\ op[g].call \in {"io", "connect"} => op[g].kind # k

-----------------------------------------------------------------------------
(* IOManager                                                                 *)

\* addEvent fails: EBADF for a closed descriptor, ENOENT if events are
\* registered that epoll has forgotten.
CtlFails(d) ==
    open[d] = NoSocket \/ (~watched[d] /\ \E k \in Kinds : slot[d][k] # NoFiber)

\* The events ks of d are triggered: their waiters are scheduled.
Trigger(d, ks) ==
    /\ queued' = [g \in Fibers |-> queued[g] \/ \E k \in ks : slot[d][k] = g]
    /\ slot' = [slot EXCEPT ![d] = [k \in Kinds |-> IF k \in ks THEN NoFiber ELSE @[k]]]
    /\ watched' = [watched EXCEPT ![d] = \E k \in Kinds \ ks : slot[d][k] # NoFiber]

\* The idle loop: the event that somebody waits for has come.  A socket that is
\* still connecting is not writable.
EventComes(d, k) ==
    /\ ThreadFree /\ watched[d] /\ slot[d][k] # NoFiber
    /\ k = "WRITE" => conn[open[d]] # "trying"
    /\ Trigger(d, {k})
    /\ UNCHANGED <<open, conn, m_datas, pc, op, cancelled, timerVars, result, failed>>

\* The idle loop: timer n of f has expired; its callback is scheduled.
Expire(f, n) ==
    /\ ThreadFree /\ timer[f][n].state = "armed"
    /\ timer' = [timer EXCEPT ![f][n].state = "queued"]
    /\ UNCHANGED <<open, conn, m_datas, eventVars, pc, op, cancelled, tno, first, result, failed>>

\* The fiber that was scheduled runs again.
Resume(f) ==
    /\ ThreadFree /\ At(f, "held") /\ queued[f]
    /\ queued' = [queued EXCEPT ![f] = FALSE]
    /\ IF op[f].call = "sleep" THEN Return(f, "ok")
                               ELSE Goto(f, "resumed") /\ UNCHANGED result
    /\ UNCHANGED <<open, conn, m_datas, watched, slot, op, cancelled, timerVars, failed>>

-----------------------------------------------------------------------------
(* FdManager, socket(), setsockopt() and fcntl()                             *)

\* socket(), or accept(), whose socket is connected: the kernel gives out a free
\* number ...
SocketF(f, d, s) ==
    /\ ThreadFree /\ At(f, "idle")
    /\ open[d] = NoSocket /\ conn[s] = "unborn"
    /\ open' = [open EXCEPT ![d] = s]
    /\ \E c \in {"new", "up"} : conn' = [conn EXCEPT ![s] = c]
    /\ Begin(f, [call |-> "socket", fd |-> d, kind |-> "READ", timed |-> FALSE, socket |-> s])
    /\ result' = [result EXCEPT ![f] = "none"]
    /\ Goto(f, "newfd")
    /\ UNCHANGED <<m_datas, eventVars, timer, tno, failed>>

\* ... and FdManager::get(fd, true) makes an FdCtx unless there is one.
GetCreate(f) ==
    LET d == op[f].fd IN
    /\ At(f, "newfd")
    /\ m_datas' = [m_datas EXCEPT ![d] =
          IF @ # NoCtx THEN @
          ELSE [socket |-> open[d], timeout |-> [k \in Kinds |-> FALSE],
                userNonblock |-> FALSE]]
    /\ Return(f, "ok")
    /\ UNCHANGED <<open, conn, eventVars, op, cancelled, timerVars, failed>>

\* setsockopt(SO_RCVTIMEO or SO_SNDTIMEO)
SetTimeout(f, d, k) ==
    /\ ThreadFree /\ At(f, "idle") /\ "io" \in Calls
    /\ open[d] # NoSocket /\ m_datas[d] # NoCtx
    /\ m_datas' = [m_datas EXCEPT ![d].timeout[k] = TRUE]
    /\ UNCHANGED <<open, conn, eventVars, pc, op, cancelled, timerVars, result, failed>>

\* fcntl(F_SETFL) with or without O_NONBLOCK: the kernel's flag stays set.
SetUserNonblock(f, d, flag) ==
    /\ ThreadFree /\ At(f, "idle") /\ "options" \in Calls
    /\ open[d] # NoSocket /\ m_datas[d] # NoCtx
    /\ m_datas' = [m_datas EXCEPT ![d].userNonblock = flag]
    /\ UNCHANGED <<open, conn, eventVars, pc, op, cancelled, timerVars, result, failed>>

-----------------------------------------------------------------------------
(* do_io                                                                     *)

\* The call goes straight to the kernel, whose socket does not block.
Raw(d) == IF m_datas[d] = NoCtx THEN TRUE ELSE m_datas[d].userNonblock

CallRaw(f, d, k) ==
    /\ ThreadFree /\ At(f, "idle") /\ "io" \in Calls /\ MayUse(d, k) /\ Raw(d)
    /\ Begin(f, [call |-> "io", fd |-> d, kind |-> k, timed |-> FALSE, socket |-> open[d]])
    /\ \E r \in {"ok", "error"} : result' = [result EXCEPT ![f] = r]
    /\ UNCHANGED <<open, conn, m_datas, eventVars, pc, timer, tno, failed>>

\* read() and its like, up to the label retry.
CallIo(f, d, k) ==
    /\ ThreadFree /\ At(f, "idle") /\ "io" \in Calls /\ MayUse(d, k) /\ ~Raw(d)
    /\ Begin(f, [call |-> "io", fd |-> d, kind |-> k, timed |-> m_datas[d].timeout[k],
                 socket |-> open[d]])
    /\ result' = [result EXCEPT ![f] = "none"]
    /\ Goto(f, "try")
    /\ UNCHANGED <<open, conn, m_datas, eventVars, timer, tno, failed>>

\* fun() returns data or an error, EBADF if the descriptor is closed ...
FunReturns(f) ==
    /\ At(f, "try")
    /\ \E r \in IF open[op[f].fd] = NoSocket THEN {"error"} ELSE {"ok", "error"} : Return(f, r)
    /\ UNCHANGED <<open, conn, m_datas, eventVars, op, cancelled, timerVars, failed>>

\* The fiber goes on to wait.
WillWait(f, timed) ==
    /\ timed => tno[f] < MaxTimers
    /\ Goto(f, IF timed THEN "arm" ELSE "register")

\* Mutant: the timer is armed before the label retry, once.
FunWouldBlock_OneTimer(f) ==
    LET s == open[op[f].fd] IN
    /\ At(f, "try") /\ s # NoSocket /\ conn[s] \in {"trying", "up"}
    /\ WillWait(f, op[f].timed /\ tno[f] < first[f])
    /\ UNCHANGED <<open, conn, m_datas, eventVars, op, cancelled, timerVars, result, failed>>

\* ... or EAGAIN, if the socket is connected or about to be.
FunWouldBlock(f) ==
    LET s == open[op[f].fd] IN
    /\ At(f, "try") /\ s # NoSocket /\ conn[s] \in {"trying", "up"}
    /\ WillWait(f, op[f].timed)
    /\ UNCHANGED <<open, conn, m_datas, eventVars, op, cancelled, timerVars, result, failed>>

\* addConditionTimer( to, ..., winfo )
ArmTimer(f) ==
    /\ At(f, "arm")
    /\ tno' = [tno EXCEPT ![f] = @ + 1]
    /\ timer' = [timer EXCEPT ![f][tno[f] + 1] =
                    [state |-> "armed", fd |-> op[f].fd, kind |-> op[f].kind]]
    /\ Goto(f, "register")
    /\ UNCHANGED <<open, conn, m_datas, eventVars, op, cancelled, first, result, failed>>

\* addEvent succeeds: the fiber is registered.
Register(f) ==
    LET d == op[f].fd  k == op[f].kind IN
    /\ At(f, "register") /\ slot[d][k] = NoFiber /\ ~CtlFails(d)
    /\ slot' = [slot EXCEPT ![d][k] = f]
    /\ watched' = [watched EXCEPT ![d] = TRUE]
    /\ Goto(f, "yield")
    /\ UNCHANGED <<open, conn, m_datas, queued, op, cancelled, timerVars, result, failed>>

\* if ( timer ) timer->cancel(): in vain once the timer has expired.
StopTimer(f) ==
    timer' = IF op[f].timed /\ timer[f][tno[f]].state = "armed"
             THEN [timer EXCEPT ![f][tno[f]].state = "stopped"] ELSE timer

\* addEvent returns -1: cancel the timer and give up, or, in connect, go on to
\* getsockopt.
RegisterFails(f) ==
    LET d == op[f].fd  k == op[f].kind IN
    /\ At(f, "register") /\ slot[d][k] = NoFiber /\ CtlFails(d)
    /\ StopTimer(f)
    /\ IF op[f].call = "connect" THEN Goto(f, "sockerr") /\ UNCHANGED result
                                 ELSE Return(f, "error")
    /\ UNCHANGED <<open, conn, m_datas, eventVars, op, cancelled, tno, first, failed>>

\* addEvent finds the event registered: SYLAR_ASSERT.
RegisterAborts(f) ==
    /\ At(f, "register") /\ slot[op[f].fd][op[f].kind] # NoFiber
    /\ failed' = TRUE
    /\ UNCHANGED <<open, conn, m_datas, eventVars, pc, op, cancelled, timerVars, result>>

YieldToHold(f) ==
    /\ At(f, "yield")
    /\ Goto(f, "held")
    /\ UNCHANGED <<open, conn, m_datas, eventVars, op, cancelled, timerVars, result, failed>>

CancelTimer(f) ==
    /\ At(f, "resumed")
    /\ StopTimer(f)
    /\ Goto(f, "test")
    /\ UNCHANGED <<open, conn, m_datas, eventVars, op, cancelled, tno, first, result, failed>>

\* Mutant: a timeout is taken for the event.
TestCancelled_Ignored(f) ==
    /\ At(f, "test")
    /\ Goto(f, IF op[f].call = "io" THEN "try" ELSE "sockerr")
    /\ UNCHANGED <<open, conn, m_datas, eventVars, op, cancelled, timerVars, result, failed>>

\* tinfo->cancelled: the call timed out; else do_io tries again, connect asks the
\* socket how it went.
TestCancelled(f) ==
    /\ At(f, "test")
    /\ IF cancelled[f] THEN Return(f, "ETIMEDOUT")
       ELSE Goto(f, IF op[f].call = "io" THEN "try" ELSE "sockerr") /\ UNCHANGED result
    /\ UNCHANGED <<open, conn, m_datas, eventVars, op, cancelled, timerVars, failed>>

-----------------------------------------------------------------------------
(* The timer's callback                                                      *)

\* Mutant: the callback does not ask whether its call is still in progress.
Alive_Always(f, n) == pc[f] # "idle"

\* winfo.lock(): the call that armed timer n of f has not returned.
Alive(f, n) == pc[f] # "idle" /\ n >= first[f]

\* The callback of a timer of do_io or connect: if the call is in progress and
\* not cancelled yet, it is now.
CallbackMarks(f, n) ==
    /\ ThreadFree /\ timer[f][n].state = "queued" /\ timer[f][n].fd # NoFd
    /\ IF Alive(f, n) /\ ~cancelled[f]
       THEN /\ cancelled' = [cancelled EXCEPT ![f] = TRUE]
            /\ timer' = [timer EXCEPT ![f][n].state = "marked"]
       ELSE /\ timer' = [timer EXCEPT ![f][n].state = "ran"]
            /\ UNCHANGED cancelled
    /\ UNCHANGED <<open, conn, m_datas, eventVars, pc, op, tno, first, result, failed>>

\* Mutant: cancelEvent is forgotten.
CallbackCancels_Not(f, n) ==
    /\ ~failed /\ timer[f][n].state = "marked"
    /\ timer' = [timer EXCEPT ![f][n].state = "ran"]
    /\ UNCHANGED <<open, conn, m_datas, eventVars, pc, op, cancelled, tno, first, result, failed>>

\* Then iom->cancelEvent( fd, event ), which does nothing if the event is not
\* registered or epoll does not know the descriptor.
CallbackCancels(f, n) ==
    LET t == timer[f][n] IN
    /\ ~failed /\ t.state = "marked"
    /\ timer' = [timer EXCEPT ![f][n].state = "ran"]
    /\ IF slot[t.fd][t.kind] # NoFiber /\ watched[t.fd]
       THEN Trigger(t.fd, {t.kind}) ELSE UNCHANGED eventVars
    /\ UNCHANGED <<open, conn, m_datas, pc, op, cancelled, tno, first, result, failed>>

-----------------------------------------------------------------------------
(* sleep(), connect(), close()                                               *)

\* sleep, usleep and nanosleep: addTimer( ms, schedule( fiber ) ), then yield.
Sleep(f) ==
    /\ ThreadFree /\ At(f, "idle") /\ "sleep" \in Calls /\ tno[f] < MaxTimers
    /\ Begin(f, [NoOp EXCEPT !.call = "sleep"])
    /\ tno' = [tno EXCEPT ![f] = @ + 1]
    /\ timer' = [timer EXCEPT ![f][tno[f] + 1] = [NoTimer EXCEPT !.state = "armed"]]
    /\ result' = [result EXCEPT ![f] = "none"]
    /\ Goto(f, "yield")
    /\ UNCHANGED <<open, conn, m_datas, eventVars, failed>>

\* The callback of a sleep: Scheduler::schedule( fiber ).
CallbackWakes(f, n) ==
    /\ ThreadFree /\ timer[f][n].state = "queued" /\ timer[f][n].fd = NoFd
    /\ timer' = [timer EXCEPT ![f][n].state = "ran"]
    /\ queued' = [queued EXCEPT ![f] = TRUE]
    /\ UNCHANGED <<open, conn, m_datas, watched, slot, pc, op, cancelled, tno, first, result, failed>>

\* connect_with_timeout, up to the outcome of connect_f: done, refused, or
\* EINPROGRESS, in which case a call that is not raw waits.
Connect(f, d, timed) ==
    LET s == open[d]  c == [call |-> "connect", fd |-> d, kind |-> "WRITE",
                            timed |-> timed, socket |-> open[d]] IN
    /\ ThreadFree /\ At(f, "idle") /\ "connect" \in Calls
    /\ MayUse(d, "WRITE") /\ m_datas[d] # NoCtx /\ conn[s] = "new"
    /\ Begin(f, c)
    /\ \/ /\ conn' = [conn EXCEPT ![s] = "up"]
          /\ Return(f, "ok")
       \/ /\ conn' = [conn EXCEPT ![s] = "refused"]
          /\ Return(f, "error")
       \/ /\ conn' = [conn EXCEPT ![s] = "trying"]
          /\ IF Raw(d) THEN Return(f, "error")
             ELSE WillWait(f, timed) /\ result' = [result EXCEPT ![f] = "none"]
    /\ UNCHANGED <<open, m_datas, eventVars, timer, tno, failed>>

\* The kernel completes the connection, or not.
KernelConnect(s) ==
    /\ ~failed /\ conn[s] = "trying"
    /\ \E r \in {"up", "refused"} : conn' = [conn EXCEPT ![s] = r]
    /\ UNCHANGED <<open, m_datas, eventVars, pc, op, cancelled, timerVars, result, failed>>

\* getsockopt( SO_ERROR ): no error also while the connection is in progress.
SockErr(f) ==
    LET s == open[op[f].fd] IN
    /\ At(f, "sockerr")
    /\ Return(f, IF s = NoSocket THEN "error"
                 ELSE IF conn[s] = "refused" THEN "error" ELSE "ok")
    /\ UNCHANGED <<open, conn, m_datas, eventVars, op, cancelled, timerVars, failed>>

\* Mutant: close() does not cancel the events.
Close_NoCancelAll(f, d) ==
    /\ ThreadFree /\ At(f, "idle") /\ "close" \in Calls /\ open[d] # NoSocket
    /\ \A g \in Fibers : (pc[g] # "idle" /\ op[g].socket = open[d])
                            => op[g].call \notin {"close", "socket"}
    /\ Begin(f, [call |-> "close", fd |-> d, kind |-> "READ", timed |-> FALSE, socket |-> open[d]])
    /\ result' = [result EXCEPT ![f] = "none"]
    /\ Goto(f, IF m_datas[d] # NoCtx THEN "del" ELSE "closing")
    /\ UNCHANGED <<open, conn, m_datas, eventVars, timer, tno, failed>>

\* close(): cancelAll, if the descriptor has an FdCtx ...
Close(f, d) ==
    /\ ThreadFree /\ At(f, "idle") /\ "close" \in Calls /\ open[d] # NoSocket
    /\ \A g \in Fibers : (pc[g] # "idle" /\ op[g].socket = open[d])
                            => op[g].call \notin {"close", "socket"}
    /\ Begin(f, [call |-> "close", fd |-> d, kind |-> "READ", timed |-> FALSE, socket |-> open[d]])
    /\ result' = [result EXCEPT ![f] = "none"]
    /\ IF m_datas[d] # NoCtx /\ watched[d] THEN Trigger(d, Kinds) ELSE UNCHANGED eventVars
    /\ Goto(f, IF m_datas[d] # NoCtx THEN "del" ELSE "closing")
    /\ UNCHANGED <<open, conn, m_datas, timer, tno, failed>>

\* Mutant: the FdCtx stays in the table.
FdManagerDel_Kept(f) ==
    /\ At(f, "del")
    /\ Goto(f, "closing")
    /\ UNCHANGED <<open, conn, m_datas, eventVars, op, cancelled, timerVars, result, failed>>

\* ... FdManager::del ...
FdManagerDel(f) ==
    /\ At(f, "del")
    /\ m_datas' = [m_datas EXCEPT ![op[f].fd] = NoCtx]
    /\ Goto(f, "closing")
    /\ UNCHANGED <<open, conn, eventVars, op, cancelled, timerVars, result, failed>>

\* ... and close_f, after which epoll has forgotten the descriptor.
CloseF(f) ==
    /\ At(f, "closing")
    /\ open' = [open EXCEPT ![op[f].fd] = NoSocket]
    /\ watched' = [watched EXCEPT ![op[f].fd] = FALSE]
    /\ Return(f, "ok")
    /\ UNCHANGED <<conn, m_datas, slot, queued, op, cancelled, timerVars, failed>>

-----------------------------------------------------------------------------

\* The next step of a call in progress.
FiberStep(f) ==
    \/ Resume(f) \/ GetCreate(f)
    \/ FunReturns(f) \/ FunWouldBlock(f) \/ ArmTimer(f)
    \/ Register(f) \/ RegisterFails(f) \/ RegisterAborts(f)
    \/ YieldToHold(f) \/ CancelTimer(f) \/ TestCancelled(f)
    \/ SockErr(f) \/ FdManagerDel(f) \/ CloseF(f)

\* A fiber makes a call.
NewCall(f) ==
    \/ \E d \in Fds, s \in Sockets : SocketF(f, d, s)
    \/ \E d \in Fds, k \in IoKinds : SetTimeout(f, d, k)
    \/ \E d \in Fds, flag \in BOOLEAN : SetUserNonblock(f, d, flag)
    \/ \E d \in Fds, k \in IoKinds : CallRaw(f, d, k)
    \/ \E d \in Fds, k \in IoKinds : CallIo(f, d, k)
    \/ \E d \in Fds, timed \in BOOLEAN : Connect(f, d, timed)
    \/ \E d \in Fds : Close(f, d)
    \/ Sleep(f)

TimerStep(f, n) ==
    \/ Expire(f, n) \/ CallbackMarks(f, n) \/ CallbackCancels(f, n) \/ CallbackWakes(f, n)

Next ==
    \/ \E f \in Fibers : FiberStep(f)
    \/ \E f \in Fibers : NewCall(f)
    \/ \E f \in Fibers, n \in TimerIds : TimerStep(f, n)
    \/ \E d \in Fds, k \in Kinds : EventComes(d, k)
    \/ \E s \in Sockets : KernelConnect(s)

Spec == Init /\ [][Next]_vars

\* The threads run, and timers expire.  Nothing is assumed of the events.
Fairness ==
    /\ \A f \in Fibers : SF_vars(FiberStep(f))
    /\ \A f \in Fibers : \A n \in TimerIds : SF_vars(TimerStep(f, n))

FairSpec == Spec /\ Fairness

-----------------------------------------------------------------------------
(* Properties                                                                *)

\* A call returns ETIMEDOUT only because a timer that it armed itself expired:
\* the callbacks of earlier calls of the fiber, which may run long after those
\* returned, do not time out a later one (hook.cpp:126-170, timer.cpp:118-124).
TimeoutIsOwn ==
    \A f \in Fibers : result[f] = "ETIMEDOUT" =>
        \E n \in first[f] .. tno[f] : timer[f][n].state \in {"marked", "ran"}

\* No socket has been closed yet.
NoneClosed == \A s \in Sockets : conn[s] # "unborn" => \E d \in Fds : open[d] = s

\* connect() returns 0 only if the socket it was called on is connected, although
\* the fiber may be woken by a timeout, and SO_ERROR is 0 while the connection is in
\* progress (hook.cpp:296-324).  Provided that no socket was closed yet, and nobody is
\* closing this one: close() wakes the fiber too, and a registration it leaves behind
\* makes addEvent fail, and each time SO_ERROR is then taken for the result.
ConnectVerdict ==
    \A f \in Fibers :
        /\ pc[f] = "idle" /\ op[f].call = "connect" /\ result[f] = "ok"
        /\ NoneClosed
        /\ \A g \in Fibers : ~(op[g].call = "close" /\ op[g].socket = op[f].socket)
        => conn[op[f].socket] = "up"

\* An FdCtx in FdManager's table describes the socket that is open under its
\* number now, not one that was closed before the number was given out again:
\* its timeouts and flags are not inherited (hook.cpp:398-407, fd_manager.cpp:82-107).
FdCtxFresh ==
    \A d \in Fds : m_datas[d] # NoCtx => m_datas[d].socket = open[d]

\* The timers of the call in progress that are going to do something.
Coming(f) ==
    {n \in first[f] .. tno[f] : timer[f][n].state \in {"armed", "queued", "marked"}}

\* A fiber that is swapped out and not queued can be woken: it sleeps and its
\* timer is to come, or it is registered for an event that epoll watches
\* (hook.cpp:153-161, 296-298, 392-408).
WaiterReachable ==
    \A f \in Fibers : (pc[f] = "held" /\ ~queued[f]) =>
        IF op[f].call = "sleep" THEN Coming(f) # {}
        ELSE slot[op[f].fd][op[f].kind] = f /\ watched[op[f].fd]

\* A call with a timeout that waits still has a timer to come: neither a retry
\* nor a wake-up that was meant for an earlier registration leaves it without
\* (hook.cpp:129-171).
TimeoutStillComing ==
    \A f \in Fibers :
        (pc[f] = "held" /\ ~queued[f] /\ op[f].timed) => Coming(f) # {}

\* A call with a timeout returns, whether or not the event ever comes.
TimedCallReturns ==
    \A f \in Fibers :
        (pc[f] = "register" /\ op[f].timed) ~> (pc[f] = "idle")
-----------------------------------------------------------------------------
(* The inductive invariants from which HookProofs derives the properties.     *)

Active(f) == pc[f] \notin {"idle", "held"}
Waits(f) == pc[f] \in {"yield", "held"}
Talks(f) == pc[f] # "idle" /\ op[f].call \in {"io", "connect"}
Marked(f, n) == timer[f][n].state = "marked"

\* The place of a fiber fits its call, and its timers are numbered in order.
CallInv ==
    \A f \in Fibers :
        /\ pc[f] = "try" => op[f].call = "io"
        /\ pc[f] \in {"arm", "register", "resumed", "test"} => op[f].call \in {"io", "connect"}
        /\ Waits(f) => op[f].call \in {"io", "connect", "sleep"}
        /\ pc[f] = "sockerr" => op[f].call = "connect"
        /\ pc[f] = "newfd" => op[f].call = "socket"
        /\ pc[f] \in {"del", "closing"} => op[f].call = "close"
        /\ pc[f] = "arm" => op[f].timed /\ tno[f] < MaxTimers
        /\ op[f].call \notin {"none", "sleep"} => op[f].fd \in Fds
        /\ op[f].call = "sleep" => op[f].fd = NoFd /\ ~op[f].timed
        /\ first[f] <= tno[f] + 1
        /\ \A n \in TimerIds : timer[f][n].state # "none" => n <= tno[f]

\* cancelled is set by a timer of the call that it belongs to.
CancelInv ==
    \A f \in Fibers :
        /\ cancelled[f] => \E n \in first[f] .. tno[f] : timer[f][n].state \in {"marked", "ran"}
        /\ result[f] = "ETIMEDOUT" => cancelled[f]
        /\ \A n \in TimerIds : Marked(f, n) /\ pc[f] # "idle" /\ n >= first[f] => cancelled[f]

\* A socket is open under one number, and only one fiber at a time is between the
\* kernel's table and FdManager's for it.
FdInv ==
    /\ FdCtxFresh
    /\ \A d \in Fds : open[d] # NoSocket => conn[open[d]] # "unborn"
    /\ \A d, e \in Fds : open[d] # NoSocket /\ open[d] = open[e] => d = e
    /\ \A f \in Fibers : pc[f] \in {"newfd", "del", "closing"} =>
          open[op[f].fd] # NoSocket /\ op[f].socket = open[op[f].fd]
    /\ \A f \in Fibers : pc[f] = "closing" => m_datas[op[f].fd] = NoCtx
    /\ \A f, g \in Fibers :
          /\ pc[f] \in {"newfd", "del", "closing"} /\ pc[g] \in {"newfd", "del", "closing"}
          /\ op[f].fd = op[g].fd
          => f = g

\* Who is registered waits for that event; who waits is registered, is queued, or
\* sleeps with its timer to come.
WaitInv ==
    /\ \A d \in Fds, k \in Kinds, f \in Fibers : slot[d][k] = f =>
          Waits(f) /\ op[f].call # "sleep" /\ op[f].fd = d /\ op[f].kind = k /\ ~queued[f]
    /\ \A f \in Fibers : queued[f] => Waits(f)
    /\ \A f \in Fibers : Waits(f) /\ ~queued[f] =>
          IF op[f].call = "sleep"
          THEN /\ first[f] = tno[f] /\ timer[f][tno[f]].fd = NoFd
               /\ timer[f][tno[f]].state \in {"armed", "queued"}
          ELSE slot[op[f].fd][op[f].kind] = f
    /\ \A f \in Fibers, n \in TimerIds :
          timer[f][n].fd = NoFd /\ timer[f][n].state \in {"armed", "queued"} =>
             Waits(f) /\ op[f].call = "sleep" /\ ~queued[f] /\ n = tno[f]
    /\ \A f \in Fibers, n \in TimerIds : Marked(f, n) => timer[f][n].fd \in Fds

\* The socket of a call, the connection of a connect(), and that the calls in
\* progress on a socket differ in their directions.
SocketInv ==
    /\ \A f \in Fibers : op[f].call \notin {"none", "sleep"} =>
          op[f].socket \in Sockets /\ conn[op[f].socket] # "unborn"
    /\ \A f \in Fibers : op[f].call = "connect" =>
          op[f].kind = "WRITE" /\ conn[op[f].socket] # "new"
    /\ \A f \in Fibers : pc[f] = "idle" /\ op[f].call = "close" =>
          \A d \in Fds : open[d] # op[f].socket
    /\ \A f, g \in Fibers :
          /\ Talks(f) /\ Talks(g)
          /\ op[f].socket = op[g].socket /\ op[f].kind = op[g].kind
          => f = g

\* As long as no socket has been closed, epoll knows every registration, no timer was
\* armed for a socket that is new, and only a connect() itself arms timers that can end
\* its wait.
FirstUse ==
    /\ \A f \in Fibers : op[f].call \notin {"none", "sleep"} => op[f].socket = open[op[f].fd]
    /\ \A d \in Fds, k \in Kinds : slot[d][k] # NoFiber => watched[d]
    /\ \A f \in Fibers : pc[f] = "arm" => conn[op[f].socket] # "new"
    /\ \A f \in Fibers, n \in TimerIds : timer[f][n].fd \in Fds =>
          open[timer[f][n].fd] # NoSocket /\ conn[open[timer[f][n].fd]] # "new"
    /\ \A f, g \in Fibers, n \in TimerIds :
          /\ op[f].call = "connect" /\ pc[f] # "idle"
          /\ timer[g][n].fd = op[f].fd /\ timer[g][n].kind = "WRITE"
          => g = f /\ n >= first[f]

\* The last call of f was a connect() on a socket that nobody closes.
Connects(f) ==
    /\ op[f].call = "connect" /\ open[op[f].fd] = op[f].socket
    /\ \A g \in Fibers : ~(op[g].call = "close" /\ op[g].socket = op[f].socket)

\* Such a connect() is woken because it timed out or because it is decided.
Verdict ==
    \A f \in Fibers : Connects(f) =>
        /\ queued[f] \/ pc[f] \in {"resumed", "test"} =>
              cancelled[f] \/ conn[op[f].socket] # "trying"
        /\ pc[f] = "sockerr" => conn[op[f].socket] # "trying"
        /\ pc[f] = "idle" /\ result[f] = "ok" => conn[op[f].socket] = "up"

ConnectInv == NoneClosed => FirstUse /\ Verdict

HookInv == TypeOK /\ CallInv /\ CancelInv /\ FdInv /\ WaitInv /\ SocketInv /\ ConnectInv

\* One thread runs everything.
Single == Workers = 1

\* Then the fibers and the callbacks of the timers take turns, ...
Turns ==
    /\ \A f, g \in Fibers : Active(f) /\ Active(g) => f = g
    /\ \A f, g \in Fibers, n \in TimerIds : ~(Marked(f, n) /\ Active(g))
    /\ \A f, g \in Fibers, m, n \in TimerIds : Marked(f, m) /\ Marked(g, n) => f = g /\ m = n

\* ... nobody registers while a close() is under way, so that epoll knows every
\* registration, ...
Registered ==
    /\ \A d \in Fds : open[d] # NoSocket /\ m_datas[d] = NoCtx =>
          \E f \in Fibers : pc[f] \in {"newfd", "closing"} /\ op[f].fd = d
    /\ \A d \in Fds, k \in Kinds : slot[d][k] # NoFiber => watched[d]
    /\ \A f \in Fibers : pc[f] \in {"del", "closing"} =>
          \A k \in Kinds : slot[op[f].fd][k] = NoFiber

\* ... and a call is cancelled only while it waits, by a callback that goes on to end
\* the wait.
InTime(f) ==
    /\ pc[f] \in {"try", "arm", "register", "yield"} => ~cancelled[f]
    /\ pc[f] = "register" /\ op[f].timed =>
          first[f] <= tno[f] /\ timer[f][tno[f]].state = "armed"
    /\ Waits(f) /\ ~queued[f] /\ op[f].timed /\ ~cancelled[f] =>
          first[f] <= tno[f] /\ timer[f][tno[f]].state \in {"armed", "queued"}
    /\ pc[f] # "idle" => \A n \in first[f] .. tno[f] :
          timer[f][n].fd = op[f].fd /\ timer[f][n].kind = op[f].kind
    /\ Waits(f) /\ ~queued[f] /\ cancelled[f] =>
          \E n \in first[f] .. tno[f] : Marked(f, n)

TimeoutInv == \A f \in Fibers : InTime(f)

SingleInv == HookInv /\ Turns /\ Registered /\ TimeoutInv
=============================================================================
