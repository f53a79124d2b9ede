------------------------------ MODULE HookProofs ------------------------------
(***************************************************************************)
(* Theorems about Hook, for every number of fibers, descriptors, sockets,  *)
(* timers and threads, and every choice of calls; the last two are about   *)
(* an IOManager with one thread.                                           *)
(***************************************************************************)
EXTENDS Hook, FiniteSetTheorems, TLAPS

-----------------------------------------------------------------------------
(* Pieces of actions                                                         *)

\* A change of place keeps the type of pc.
LEMMA GotoType ==
    ASSUME TypeOK, NEW f \in Fibers, NEW l \in FiberPC, Goto(f, l)
    PROVE  pc' \in [Fibers -> FiberPC]
BY DEF TypeOK, Goto

\* So does a return, and it keeps the type of the results.
LEMMA ReturnType ==
    ASSUME TypeOK, NEW f \in Fibers, NEW r \in {"none", "ok", "error", "ETIMEDOUT"},
           Return(f, r)
    PROVE  pc' \in [Fibers -> FiberPC] /\ result' \in [Fibers -> {"none", "ok", "error", "ETIMEDOUT"}]
BY DEF TypeOK, Return, Goto, FiberPC

\* Beginning a call keeps the types.
LEMMA BeginType ==
    ASSUME TypeOK, NEW f \in Fibers, NEW c \in Op, Begin(f, c)
    PROVE  /\ op' \in [Fibers -> Op]
           /\ first' \in [Fibers -> 1 .. MaxTimers + 1]
           /\ cancelled' \in [Fibers -> BOOLEAN]
<1>1. tno[f] + 1 \in 1 .. MaxTimers + 1
  BY HookAssumption DEF TypeOK
<1> QED BY <1>1 DEF TypeOK, Begin

\* Timer n of f gets a new state; ...
SetState(f, n, st) == timer' = [timer EXCEPT ![f][n].state = st]

\* ... its callback keeps what it captured.
LEMMA StateChange ==
    ASSUME TypeOK, NEW f \in Fibers, NEW n \in TimerIds, NEW st \in TimerState,
           SetState(f, n, st)
    PROVE  /\ timer' \in [Fibers -> [TimerIds -> Timer]]
           /\ \A g \in Fibers, m \in TimerIds :
                 /\ timer'[g][m].fd = timer[g][m].fd
                 /\ timer'[g][m].kind = timer[g][m].kind
                 /\ timer'[g][m].state = IF g = f /\ m = n THEN st ELSE timer[g][m].state
<1> DEFINE u == [timer[f][n] EXCEPT !.state = st]
<1>1. timer[f][n] \in Timer
  BY DEF TypeOK
<1>2. u \in Timer /\ u.state = st /\ u.fd = timer[f][n].fd /\ u.kind = timer[f][n].kind
  BY <1>1 DEF Timer
<1>3. timer' = [timer EXCEPT ![f] = [timer[f] EXCEPT ![n] = u]]
  BY DEF TypeOK, SetState
<1> HIDE DEF u
<1>4. timer' \in [Fibers -> [TimerIds -> Timer]]
  <2>1. timer \in [Fibers -> [TimerIds -> Timer]]
    BY DEF TypeOK
  <2>2. [timer[f] EXCEPT ![n] = u] \in [TimerIds -> Timer]
    BY <1>2, <2>1
  <2> QED BY <1>3, <2>1, <2>2
<1>5. \A g \in Fibers, m \in TimerIds : timer'[g][m] = IF g = f /\ m = n THEN u ELSE timer[g][m]
  BY <1>3 DEF TypeOK
<1> QED BY <1>2, <1>4, <1>5

\* A timer's cancel() changes at most the state of the call's last timer, from armed to
\* stopped.
LEMMA StopChange ==
    ASSUME TypeOK, CallInv, NEW f \in Fibers, StopTimer(f)
    PROVE  /\ timer' \in [Fibers -> [TimerIds -> Timer]]
           /\ \A g \in Fibers, m \in TimerIds :
                 /\ timer'[g][m].fd = timer[g][m].fd
                 /\ timer'[g][m].kind = timer[g][m].kind
                 /\ \/ timer'[g][m].state = timer[g][m].state
                    \/ /\ g = f /\ m = tno[f]
                       /\ timer[g][m].state = "armed" /\ timer'[g][m].state = "stopped"
<1>1. CASE ~(op[f].timed /\ timer[f][tno[f]].state = "armed" /\ tno[f] \in TimerIds)
  <2>1. timer' = timer
    <3>1. CASE tno[f] \in TimerIds
      BY <1>1, <3>1 DEF StopTimer
    <3>2. CASE tno[f] \notin TimerIds
      <4>1. [timer EXCEPT ![f][tno[f]].state = "stopped"] = timer
        BY <3>2 DEF TypeOK
      <4> QED BY <4>1 DEF StopTimer
    <3> QED BY <3>1, <3>2
  <2> QED BY <2>1 DEF TypeOK
<1>2. CASE op[f].timed /\ timer[f][tno[f]].state = "armed" /\ tno[f] \in TimerIds
  <2>1. timer' = [timer EXCEPT ![f][tno[f]].state = "stopped"]
    BY <1>2 DEF StopTimer
  <2>2. "stopped" \in TimerState
    BY DEF TimerState
  <2>3. /\ timer' \in [Fibers -> [TimerIds -> Timer]]
        /\ \A g \in Fibers, m \in TimerIds :
                 /\ timer'[g][m].fd = timer[g][m].fd
                 /\ timer'[g][m].kind = timer[g][m].kind
                 /\ timer'[g][m].state = IF g = f /\ m = tno[f] THEN "stopped" ELSE timer[g][m].state
    <3>1. tno[f] \in TimerIds /\ SetState(f, tno[f], "stopped")
      BY <1>2, <2>1 DEF SetState
    <3> QED BY <2>2, <3>1, StateChange
  <2> QED BY <1>2, <2>3
<1> QED BY <1>1, <1>2

\* A new timer of f gets the next number.
AddTimer(f, t) ==
    /\ tno' = [tno EXCEPT ![f] = @ + 1]
    /\ timer' = [timer EXCEPT ![f][tno[f] + 1] = t]

\* It is its last timer, and the others stay.
LEMMA NewTimer ==
    ASSUME TypeOK, NEW f \in Fibers, tno[f] < MaxTimers, NEW t \in Timer, AddTimer(f, t)
    PROVE  /\ timer' \in [Fibers -> [TimerIds -> Timer]]
           /\ tno' \in [Fibers -> 0 .. MaxTimers]
           /\ tno[f] + 1 \in TimerIds
           /\ \A g \in Fibers : tno'[g] = IF g = f THEN tno[f] + 1 ELSE tno[g]
           /\ \A g \in Fibers, m \in TimerIds :
                 timer'[g][m] = IF g = f /\ m = tno[f] + 1 THEN t ELSE timer[g][m]
<1>1. tno[f] + 1 \in TimerIds /\ tno[f] + 1 \in 0 .. MaxTimers
  BY HookAssumption DEF TypeOK, TimerIds
<1> QED BY <1>1 DEF TypeOK, AddTimer

\* addConditionTimer arms the next timer of f, for its descriptor and event.
LEMMA ArmChange ==
    ASSUME TypeOK, CallInv, NEW f \in Fibers, ArmTimer(f)
    PROVE  /\ timer' \in [Fibers -> [TimerIds -> Timer]]
           /\ tno' \in [Fibers -> 0 .. MaxTimers]
           /\ tno[f] + 1 \in TimerIds
           /\ \A g \in Fibers : tno'[g] = IF g = f THEN tno[f] + 1 ELSE tno[g]
           /\ \A g \in Fibers, m \in TimerIds :
                 IF g = f /\ m = tno[f] + 1
                 THEN /\ timer'[g][m].state = "armed"
                      /\ timer'[g][m].fd = op[f].fd /\ timer'[g][m].kind = op[f].kind
                 ELSE timer'[g][m] = timer[g][m]
<1> DEFINE t == [state |-> "armed", fd |-> op[f].fd, kind |-> op[f].kind]
<1>1. t \in Timer /\ tno[f] < MaxTimers
  BY DEF ArmTimer, At, TypeOK, CallInv, Op, Timer, TimerState
<1>2. AddTimer(f, t)
  BY DEF ArmTimer, AddTimer
<1>3. t.state = "armed" /\ t.fd = op[f].fd /\ t.kind = op[f].kind
  OBVIOUS
<1> HIDE DEF t
<1>4. /\ timer' \in [Fibers -> [TimerIds -> Timer]]
      /\ tno' \in [Fibers -> 0 .. MaxTimers]
      /\ tno[f] + 1 \in TimerIds
      /\ \A g \in Fibers : tno'[g] = IF g = f THEN tno[f] + 1 ELSE tno[g]
      /\ \A g \in Fibers, m \in TimerIds :
            timer'[g][m] = IF g = f /\ m = tno[f] + 1 THEN t ELSE timer[g][m]
  BY <1>1, <1>2, NewTimer
<1> QED BY <1>3, <1>4

\* sleep arms the next timer of f, with a callback that captures no descriptor.
LEMMA SleepChange ==
    ASSUME TypeOK, NEW f \in Fibers, Sleep(f)
    PROVE  /\ timer' \in [Fibers -> [TimerIds -> Timer]]
           /\ tno' \in [Fibers -> 0 .. MaxTimers]
           /\ tno[f] + 1 \in TimerIds
           /\ \A g \in Fibers : tno'[g] = IF g = f THEN tno[f] + 1 ELSE tno[g]
           /\ \A g \in Fibers, m \in TimerIds :
                 IF g = f /\ m = tno[f] + 1
                 THEN /\ timer'[g][m].state = "armed"
                      /\ timer'[g][m].fd = NoFd /\ timer'[g][m].kind = "READ"
                 ELSE timer'[g][m] = timer[g][m]
           /\ op'[f].call = "sleep" /\ op'[f].fd = NoFd /\ op'[f].kind = "READ"
           /\ ~op'[f].timed /\ op'[f].socket = NoSocket
           /\ \A g \in Fibers : g # f => op'[g] = op[g]
<1> DEFINE t == [NoTimer EXCEPT !.state = "armed"]
           c == [NoOp EXCEPT !.call = "sleep"]
<1>1. t \in Timer /\ tno[f] < MaxTimers
  BY DEF Sleep, NoTimer, Timer, TimerState, Kinds
<1>2. AddTimer(f, t)
  BY DEF Sleep, AddTimer
<1>3. t.state = "armed" /\ t.fd = NoFd /\ t.kind = "READ"
  BY DEF NoTimer
<1>4. /\ c.call = "sleep" /\ c.fd = NoFd /\ c.kind = "READ" /\ c.timed = FALSE
      /\ c.socket = NoSocket /\ op' = [op EXCEPT ![f] = c]
  BY DEF Sleep, Begin, NoOp
<1> HIDE DEF t, c
<1>5. /\ timer' \in [Fibers -> [TimerIds -> Timer]]
      /\ tno' \in [Fibers -> 0 .. MaxTimers]
      /\ tno[f] + 1 \in TimerIds
      /\ \A g \in Fibers : tno'[g] = IF g = f THEN tno[f] + 1 ELSE tno[g]
      /\ \A g \in Fibers, m \in TimerIds :
            timer'[g][m] = IF g = f /\ m = tno[f] + 1 THEN t ELSE timer[g][m]
  BY <1>1, <1>2, NewTimer
<1>6. op'[f] = c /\ \A g \in Fibers : g # f => op'[g] = op[g]
  BY <1>4 DEF TypeOK
<1> QED BY <1>3, <1>4, <1>5, <1>6

\* The events ks of d are triggered.
LEMMA TriggerChange ==
    ASSUME TypeOK, NEW d \in Fds, NEW ks \in SUBSET Kinds, Trigger(d, ks)
    PROVE  /\ queued' \in [Fibers -> BOOLEAN]
           /\ slot' \in [Fds -> [Kinds -> Fibers \cup {NoFiber}]]
           /\ watched' \in [Fds -> BOOLEAN]
           /\ \A g \in Fibers : queued'[g] <=> queued[g] \/ \E k \in ks : slot[d][k] = g
           /\ \A e \in Fds, k \in Kinds :
                 slot'[e][k] = IF e = d /\ k \in ks THEN NoFiber ELSE slot[e][k]
           /\ \A e \in Fds : e # d => watched'[e] = watched[e]
           /\ watched'[d] <=> \E k \in Kinds : slot'[d][k] # NoFiber
<1>1. queued' \in [Fibers -> BOOLEAN]
  BY DEF TypeOK, Trigger
<1>2. slot' \in [Fds -> [Kinds -> Fibers \cup {NoFiber}]]
  BY DEF TypeOK, Trigger
<1>3. watched' \in [Fds -> BOOLEAN]
  BY DEF TypeOK, Trigger
<1>4. \A g \in Fibers : queued'[g] <=> queued[g] \/ \E k \in ks : slot[d][k] = g
  BY DEF TypeOK, Trigger
<1>5. \A e \in Fds, k \in Kinds :
                 slot'[e][k] = IF e = d /\ k \in ks THEN NoFiber ELSE slot[e][k]
  BY DEF TypeOK, Trigger
<1>6. \A e \in Fds : e # d => watched'[e] = watched[e]
  BY DEF TypeOK, Trigger
<1>7. watched'[d] <=> \E k \in Kinds \ ks : slot[d][k] # NoFiber
  BY DEF TypeOK, Trigger
<1> QED BY <1>1, <1>2, <1>3, <1>4, <1>5, <1>6, <1>7
-----------------------------------------------------------------------------
(* One step: types                                                           *)

\* The steps of a call in progress keep the types.
LEMMA FiberStepType ==
    ASSUME TypeOK, CallInv, FdInv, NEW f \in Fibers, FiberStep(f)
    PROVE  TypeOK'
<1> USE DEF At, eventVars, timerVars
<1>1. CASE Resume(f)
  <2>1. queued' \in [Fibers -> BOOLEAN]
    BY <1>1 DEF Resume, TypeOK
  <2>2. Return(f, "ok") \/ (Goto(f, "resumed") /\ UNCHANGED result)
    BY <1>1 DEF Resume
  <2>3. /\ pc' \in [Fibers -> FiberPC]
        /\ result' \in [Fibers -> {"none", "ok", "error", "ETIMEDOUT"}]
    <3>1. CASE Return(f, "ok")
      BY <3>1, ReturnType
    <3>2. CASE Goto(f, "resumed") /\ UNCHANGED result
      <4>1. "resumed" \in FiberPC
        BY DEF FiberPC
      <4> QED BY <3>2, <4>1, GotoType DEF TypeOK
    <3> QED BY <2>2, <3>1, <3>2
  <2> QED BY <1>1, <2>1, <2>3 DEF Resume, TypeOK
<1>2. CASE GetCreate(f)
  <2>1. op[f].fd \in Fds /\ open[op[f].fd] \in Sockets
    BY <1>2 DEF GetCreate, TypeOK, CallInv, FdInv
  <2>2. [socket |-> open[op[f].fd], timeout |-> [k \in Kinds |-> FALSE],
         userNonblock |-> FALSE] \in FdCtx
    BY <2>1 DEF FdCtx
  <2>3. m_datas' \in [Fds -> FdCtx \cup {NoCtx}]
    BY <1>2, <2>1, <2>2 DEF GetCreate, TypeOK
  <2>4. /\ pc' \in [Fibers -> FiberPC]
        /\ result' \in [Fibers -> {"none", "ok", "error", "ETIMEDOUT"}]
    BY <1>2, ReturnType DEF GetCreate
  <2> QED BY <1>2, <2>3, <2>4 DEF GetCreate, TypeOK
<1>3. CASE FunReturns(f)
  <2>1. PICK r \in {"ok", "error"} : Return(f, r)
    BY <1>3 DEF FunReturns
  <2>2. r \in {"none", "ok", "error", "ETIMEDOUT"}
    BY <2>1
  <2>3. /\ pc' \in [Fibers -> FiberPC]
        /\ result' \in [Fibers -> {"none", "ok", "error", "ETIMEDOUT"}]
    BY <2>1, <2>2, ReturnType
  <2> QED BY <1>3, <2>3 DEF FunReturns, TypeOK
<1>4. CASE FunWouldBlock(f)
  <2>1. PICK l \in FiberPC : Goto(f, l)
    <3>1. "arm" \in FiberPC /\ "register" \in FiberPC
      BY DEF FiberPC
    <3> QED BY <1>4, <3>1 DEF FunWouldBlock, WillWait
  <2>2. pc' \in [Fibers -> FiberPC]
    BY <2>1, GotoType
  <2> QED BY <1>4, <2>2 DEF FunWouldBlock, TypeOK
<1>5. CASE ArmTimer(f)
  <2> DEFINE t == [state |-> "armed", fd |-> op[f].fd, kind |-> op[f].kind]
  <2>1. t \in Timer /\ tno[f] < MaxTimers
    BY <1>5 DEF ArmTimer, TypeOK, CallInv, Op, Timer, TimerState
  <2>2. AddTimer(f, t)
    BY <1>5 DEF ArmTimer, AddTimer
  <2> HIDE DEF t
  <2>3. timer' \in [Fibers -> [TimerIds -> Timer]] /\ tno' \in [Fibers -> 0 .. MaxTimers]
    BY <2>1, <2>2, NewTimer
  <2>4. pc' \in [Fibers -> FiberPC]
    BY <1>5, GotoType DEF ArmTimer, FiberPC
  <2> QED BY <1>5, <2>3, <2>4 DEF ArmTimer, TypeOK
<1>6. CASE Register(f)
  <2>1. pc' \in [Fibers -> FiberPC]
    BY <1>6, GotoType DEF Register, FiberPC
  <2>2. watched' \in [Fds -> BOOLEAN]
    BY <1>6 DEF Register, TypeOK
  <2>3. slot' \in [Fds -> [Kinds -> Fibers \cup {NoFiber}]]
    BY <1>6 DEF Register, TypeOK
  <2> QED BY <1>6, <2>1, <2>2, <2>3 DEF Register, TypeOK
<1>7. CASE RegisterFails(f)
  <2>1. timer' \in [Fibers -> [TimerIds -> Timer]]
    BY <1>7, StopChange DEF RegisterFails
  <2>2. (Goto(f, "sockerr") /\ UNCHANGED result) \/ Return(f, "error")
    BY <1>7 DEF RegisterFails
  <2>3. /\ pc' \in [Fibers -> FiberPC]
        /\ result' \in [Fibers -> {"none", "ok", "error", "ETIMEDOUT"}]
    <3>1. CASE Return(f, "error")
      BY <3>1, ReturnType
    <3>2. CASE Goto(f, "sockerr") /\ UNCHANGED result
      <4>1. "sockerr" \in FiberPC
        BY DEF FiberPC
      <4> QED BY <3>2, <4>1, GotoType DEF TypeOK
    <3> QED BY <2>2, <3>1, <3>2
  <2> QED BY <1>7, <2>1, <2>3 DEF RegisterFails, TypeOK
<1>8. CASE RegisterAborts(f)
  BY <1>8 DEF RegisterAborts, TypeOK
<1>9. CASE YieldToHold(f)
  <2>1. pc' \in [Fibers -> FiberPC]
    BY <1>9, GotoType DEF YieldToHold, FiberPC
  <2> QED BY <1>9, <2>1 DEF YieldToHold, TypeOK
<1>10. CASE CancelTimer(f)
  <2>1. timer' \in [Fibers -> [TimerIds -> Timer]]
    BY <1>10, StopChange DEF CancelTimer
  <2>2. pc' \in [Fibers -> FiberPC]
    BY <1>10, GotoType DEF CancelTimer, FiberPC
  <2> QED BY <1>10, <2>1, <2>2 DEF CancelTimer, TypeOK
<1>11. CASE TestCancelled(f)
  <2>1. CASE Return(f, "ETIMEDOUT")
    <3>1. /\ pc' \in [Fibers -> FiberPC]
          /\ result' \in [Fibers -> {"none", "ok", "error", "ETIMEDOUT"}]
      BY <2>1, ReturnType
    <3> QED BY <1>11, <3>1 DEF TestCancelled, TypeOK
  <2>2. CASE ~Return(f, "ETIMEDOUT")
    <3>1. PICK l \in FiberPC : Goto(f, l) /\ UNCHANGED result
      <4>1. "try" \in FiberPC /\ "sockerr" \in FiberPC
        BY DEF FiberPC
      <4> QED BY <1>11, <2>2, <4>1 DEF TestCancelled
    <3>2. pc' \in [Fibers -> FiberPC]
      BY <3>1, GotoType
    <3> QED BY <1>11, <3>1, <3>2 DEF TestCancelled, TypeOK
  <2> QED BY <2>1, <2>2
<1>12. CASE SockErr(f)
  <2>1. PICK r \in {"none", "ok", "error", "ETIMEDOUT"} : Return(f, r)
    BY <1>12 DEF SockErr
  <2>2. /\ pc' \in [Fibers -> FiberPC]
        /\ result' \in [Fibers -> {"none", "ok", "error", "ETIMEDOUT"}]
    BY <2>1, ReturnType
  <2> QED BY <1>12, <2>2 DEF SockErr, TypeOK
<1>13. CASE FdManagerDel(f)
  <2>1. pc' \in [Fibers -> FiberPC]
    BY <1>13, GotoType DEF FdManagerDel, FiberPC
  <2>2. m_datas' \in [Fds -> FdCtx \cup {NoCtx}]
    BY <1>13 DEF FdManagerDel, TypeOK
  <2> QED BY <1>13, <2>1, <2>2 DEF FdManagerDel, TypeOK
<1>14. CASE CloseF(f)
  <2>1. /\ pc' \in [Fibers -> FiberPC]
        /\ result' \in [Fibers -> {"none", "ok", "error", "ETIMEDOUT"}]
    BY <1>14, ReturnType DEF CloseF
  <2>2. open' \in [Fds -> Sockets \cup {NoSocket}] /\ watched' \in [Fds -> BOOLEAN]
    BY <1>14 DEF CloseF, TypeOK
  <2> QED BY <1>14, <2>1, <2>2 DEF CloseF, TypeOK
<1> QED BY <1>1, <1>2, <1>3, <1>4, <1>5, <1>6, <1>7, <1>8, <1>9, <1>10, <1>11, <1>12,
           <1>13, <1>14 DEF FiberStep
\* The beginnings of calls keep the types.
LEMMA NewCallType ==
    ASSUME TypeOK, NEW f \in Fibers, NewCall(f)
    PROVE  TypeOK'
<1> USE HookAssumption DEF At, eventVars, timerVars
<1>1. ASSUME NEW d \in Fds, NEW s \in Sockets, SocketF(f, d, s) PROVE TypeOK'
  <2> DEFINE c == [call |-> "socket", fd |-> d, kind |-> "READ", timed |-> FALSE, socket |-> s]
  <2>1. c \in Op
    BY DEF Op, Kinds
  <2>2. Begin(f, c)
    BY <1>1 DEF SocketF
  <2> HIDE DEF c
  <2>3. /\ op' \in [Fibers -> Op]
        /\ first' \in [Fibers -> 1 .. MaxTimers + 1]
        /\ cancelled' \in [Fibers -> BOOLEAN]
    BY <2>1, <2>2, BeginType
  <2>4. pc' \in [Fibers -> FiberPC]
    BY <1>1, GotoType DEF SocketF, FiberPC
  <2>5. open' \in [Fds -> Sockets \cup {NoSocket}]
    BY <1>1 DEF SocketF, TypeOK
  <2>6. conn' \in [Sockets -> {"unborn", "new", "trying", "up", "refused"}]
    BY <1>1 DEF SocketF, TypeOK
  <2>7. result' \in [Fibers -> {"none", "ok", "error", "ETIMEDOUT"}]
    BY <1>1 DEF SocketF, TypeOK
  <2> QED BY <1>1, <2>3, <2>4, <2>5, <2>6, <2>7 DEF SocketF, TypeOK
<1>2. ASSUME NEW d \in Fds, NEW k \in IoKinds, SetTimeout(f, d, k) PROVE TypeOK'
  <2>1. m_datas[d] \in FdCtx
    BY <1>2 DEF SetTimeout, TypeOK
  <2>2. [m_datas[d] EXCEPT !.timeout = [m_datas[d].timeout EXCEPT ![k] = TRUE]] \in FdCtx
    BY <2>1 DEF FdCtx
  <2>3. m_datas' = [m_datas EXCEPT ![d] = [m_datas[d] EXCEPT
                       !.timeout = [m_datas[d].timeout EXCEPT ![k] = TRUE]]]
    BY <1>2 DEF SetTimeout, TypeOK
  <2>4. m_datas' \in [Fds -> FdCtx \cup {NoCtx}]
    BY <2>2, <2>3 DEF TypeOK
  <2> QED BY <1>2, <2>4 DEF SetTimeout, TypeOK
<1>3. ASSUME NEW d \in Fds, NEW flag \in BOOLEAN, SetUserNonblock(f, d, flag) PROVE TypeOK'
  <2>1. m_datas[d] \in FdCtx
    BY <1>3 DEF SetUserNonblock, TypeOK
  <2>2. [m_datas[d] EXCEPT !.userNonblock = flag] \in FdCtx
    BY <2>1 DEF FdCtx
  <2>3. m_datas' = [m_datas EXCEPT ![d] = [m_datas[d] EXCEPT !.userNonblock = flag]]
    BY <1>3 DEF SetUserNonblock, TypeOK
  <2>4. m_datas' \in [Fds -> FdCtx \cup {NoCtx}]
    BY <2>2, <2>3 DEF TypeOK
  <2> QED BY <1>3, <2>4 DEF SetUserNonblock, TypeOK
<1>4. ASSUME NEW d \in Fds, NEW k \in IoKinds, CallRaw(f, d, k) PROVE TypeOK'
  <2> DEFINE c == [call |-> "io", fd |-> d, kind |-> k, timed |-> FALSE, socket |-> open[d]]
  <2>1. c \in Op
    BY DEF Op, Kinds, TypeOK
  <2>2. Begin(f, c)
    BY <1>4 DEF CallRaw
  <2> HIDE DEF c
  <2>3. /\ op' \in [Fibers -> Op]
        /\ first' \in [Fibers -> 1 .. MaxTimers + 1]
        /\ cancelled' \in [Fibers -> BOOLEAN]
    BY <2>1, <2>2, BeginType
  <2>4. result' \in [Fibers -> {"none", "ok", "error", "ETIMEDOUT"}]
    BY <1>4 DEF CallRaw, TypeOK
  <2> QED BY <1>4, <2>3, <2>4 DEF CallRaw, TypeOK
<1>5. ASSUME NEW d \in Fds, NEW k \in IoKinds, CallIo(f, d, k) PROVE TypeOK'
  <2> DEFINE c == [call |-> "io", fd |-> d, kind |-> k, timed |-> m_datas[d].timeout[k],
                   socket |-> open[d]]
  <2>0. m_datas[d] \in FdCtx
    BY <1>5 DEF CallIo, Raw, TypeOK
  <2>1. c \in Op
    BY <2>0 DEF Op, Kinds, TypeOK, FdCtx
  <2>2. Begin(f, c)
    BY <1>5 DEF CallIo
  <2> HIDE DEF c
  <2>3. /\ op' \in [Fibers -> Op]
        /\ first' \in [Fibers -> 1 .. MaxTimers + 1]
        /\ cancelled' \in [Fibers -> BOOLEAN]
    BY <2>1, <2>2, BeginType
  <2>4. result' \in [Fibers -> {"none", "ok", "error", "ETIMEDOUT"}]
    BY <1>5 DEF CallIo, TypeOK
  <2>5. pc' \in [Fibers -> FiberPC]
    BY <1>5, GotoType DEF CallIo, FiberPC
  <2> QED BY <1>5, <2>3, <2>4, <2>5 DEF CallIo, TypeOK
<1>6. ASSUME NEW d \in Fds, NEW timed \in BOOLEAN, Connect(f, d, timed) PROVE TypeOK'
  <2> DEFINE c == [call |-> "connect", fd |-> d, kind |-> "WRITE", timed |-> timed,
                   socket |-> open[d]]
  <2>1. c \in Op
    BY DEF Op, Kinds, TypeOK
  <2>2. Begin(f, c)
    BY <1>6 DEF Connect
  <2> HIDE DEF c
  <2>3. /\ op' \in [Fibers -> Op]
        /\ first' \in [Fibers -> 1 .. MaxTimers + 1]
        /\ cancelled' \in [Fibers -> BOOLEAN]
    BY <2>1, <2>2, BeginType
  <2>4. conn' \in [Sockets -> {"unborn", "new", "trying", "up", "refused"}]
    <3>1. PICK r \in {"up", "refused", "trying"} : conn' = [conn EXCEPT ![open[d]] = r]
      BY <1>6 DEF Connect
    <3> QED BY <3>1 DEF TypeOK
  <2>5. /\ pc' \in [Fibers -> FiberPC]
        /\ result' \in [Fibers -> {"none", "ok", "error", "ETIMEDOUT"}]
    <3>1. CASE Return(f, "ok") \/ Return(f, "error")
      BY <3>1, ReturnType
    <3>2. CASE ~(Return(f, "ok") \/ Return(f, "error"))
      <4>1. WillWait(f, timed) /\ result' = [result EXCEPT ![f] = "none"]
        BY <1>6, <3>2 DEF Connect
      <4>2. PICK l \in FiberPC : Goto(f, l)
        <5>1. "arm" \in FiberPC /\ "register" \in FiberPC
          BY DEF FiberPC
        <5> QED BY <4>1, <5>1 DEF WillWait
      <4>3. pc' \in [Fibers -> FiberPC]
        BY <4>2, GotoType
      <4> QED BY <4>1, <4>3 DEF TypeOK
    <3> QED BY <3>1, <3>2
  <2> QED BY <1>6, <2>3, <2>4, <2>5 DEF Connect, TypeOK
<1>7. ASSUME NEW d \in Fds, Close(f, d) PROVE TypeOK'
  <2> DEFINE c == [call |-> "close", fd |-> d, kind |-> "READ", timed |-> FALSE,
                   socket |-> open[d]]
  <2>1. c \in Op
    BY DEF Op, Kinds, TypeOK
  <2>2. Begin(f, c)
    BY <1>7 DEF Close
  <2> HIDE DEF c
  <2>3. /\ op' \in [Fibers -> Op]
        /\ first' \in [Fibers -> 1 .. MaxTimers + 1]
        /\ cancelled' \in [Fibers -> BOOLEAN]
    BY <2>1, <2>2, BeginType
  <2>4. result' \in [Fibers -> {"none", "ok", "error", "ETIMEDOUT"}]
    BY <1>7 DEF Close, TypeOK
  <2>5. pc' \in [Fibers -> FiberPC]
    <3>1. "del" \in FiberPC /\ "closing" \in FiberPC
      BY DEF FiberPC
    <3>2. PICK l \in FiberPC : Goto(f, l)
      BY <1>7, <3>1 DEF Close
    <3> QED BY <3>2, GotoType
  <2>6. /\ queued' \in [Fibers -> BOOLEAN]
        /\ slot' \in [Fds -> [Kinds -> Fibers \cup {NoFiber}]]
        /\ watched' \in [Fds -> BOOLEAN]
    <3>1. CASE Trigger(d, Kinds)
      BY <3>1, TriggerChange
    <3>2. CASE UNCHANGED eventVars
      BY <3>2 DEF TypeOK
    <3> QED BY <1>7, <3>1, <3>2 DEF Close
  <2> QED BY <1>7, <2>3, <2>4, <2>5, <2>6 DEF Close, TypeOK
<1>8. CASE Sleep(f)
  <2> DEFINE c == [NoOp EXCEPT !.call = "sleep"]
             t == [NoTimer EXCEPT !.state = "armed"]
  <2>1. c \in Op /\ t \in Timer
    BY DEF Op, NoOp, Kinds, NoTimer, Timer, TimerState
  <2>2. Begin(f, c) /\ tno[f] < MaxTimers /\ AddTimer(f, t)
    BY <1>8 DEF Sleep, AddTimer
  <2> HIDE DEF c, t
  <2>3. /\ op' \in [Fibers -> Op]
        /\ first' \in [Fibers -> 1 .. MaxTimers + 1]
        /\ cancelled' \in [Fibers -> BOOLEAN]
    BY <2>1, <2>2, BeginType
  <2>4. timer' \in [Fibers -> [TimerIds -> Timer]] /\ tno' \in [Fibers -> 0 .. MaxTimers]
    BY <2>1, <2>2, NewTimer
  <2>5. pc' \in [Fibers -> FiberPC]
    BY <1>8, GotoType DEF Sleep, FiberPC
  <2>6. result' \in [Fibers -> {"none", "ok", "error", "ETIMEDOUT"}]
    BY <1>8 DEF Sleep, TypeOK
  <2> QED BY <1>8, <2>3, <2>4, <2>5, <2>6 DEF Sleep, TypeOK
<1> QED BY <1>1, <1>2, <1>3, <1>4, <1>5, <1>6, <1>7, <1>8 DEF NewCall

\* So do the timers and their callbacks.
LEMMA TimerStepType ==
    ASSUME TypeOK, NEW f \in Fibers, NEW n \in TimerIds, TimerStep(f, n)
    PROVE  TypeOK'
<1> USE DEF eventVars, timerVars
<1>0. {"queued", "marked", "ran"} \subseteq TimerState
  BY DEF TimerState
<1>1. CASE Expire(f, n)
  <2>1. timer' \in [Fibers -> [TimerIds -> Timer]]
    BY <1>0, <1>1, StateChange DEF Expire, SetState
  <2> QED BY <1>1, <2>1 DEF Expire, TypeOK
<1>2. CASE CallbackMarks(f, n)
  <2>1. SetState(f, n, "marked") \/ SetState(f, n, "ran")
    BY <1>2 DEF CallbackMarks, SetState
  <2>2. timer' \in [Fibers -> [TimerIds -> Timer]]
    BY <1>0, <2>1, StateChange
  <2>3. cancelled' \in [Fibers -> BOOLEAN]
    BY <1>2 DEF CallbackMarks, TypeOK
  <2> QED BY <1>2, <2>2, <2>3 DEF CallbackMarks, TypeOK
<1>3. CASE CallbackCancels(f, n)
  <2>1. timer' \in [Fibers -> [TimerIds -> Timer]]
    BY <1>0, <1>3, StateChange DEF CallbackCancels, SetState
  <2>2. /\ queued' \in [Fibers -> BOOLEAN]
        /\ slot' \in [Fds -> [Kinds -> Fibers \cup {NoFiber}]]
        /\ watched' \in [Fds -> BOOLEAN]
    <3>1. CASE Trigger(timer[f][n].fd, {timer[f][n].kind})
      <4>1. queued' \in [Fibers -> BOOLEAN]
        BY <3>1 DEF Trigger, TypeOK
      <4>2. slot' \in [Fds -> [Kinds -> Fibers \cup {NoFiber}]]
        <5> DEFINE d == timer[f][n].fd
                   v == [k \in Kinds |-> IF k \in {timer[f][n].kind} THEN NoFiber ELSE slot[d][k]]
        <5>1. slot' = [slot EXCEPT ![d] = v]
          BY <3>1 DEF Trigger
        <5>2. d \in Fds => v \in [Kinds -> Fibers \cup {NoFiber}]
          BY DEF TypeOK
        <5> HIDE DEF d, v
        <5> QED BY <5>1, <5>2 DEF TypeOK
      <4>3. watched' \in [Fds -> BOOLEAN]
        BY <3>1 DEF Trigger, TypeOK
      <4> QED BY <4>1, <4>2, <4>3
    <3>2. CASE UNCHANGED eventVars
      BY <3>2 DEF TypeOK
    <3> QED BY <1>3, <3>1, <3>2 DEF CallbackCancels
  <2> QED BY <1>3, <2>1, <2>2 DEF CallbackCancels, TypeOK
<1>4. CASE CallbackWakes(f, n)
  <2>1. timer' \in [Fibers -> [TimerIds -> Timer]]
    BY <1>0, <1>4, StateChange DEF CallbackWakes, SetState
  <2>2. queued' \in [Fibers -> BOOLEAN]
    BY <1>4 DEF CallbackWakes, TypeOK
  <2> QED BY <1>4, <2>1, <2>2 DEF CallbackWakes, TypeOK
<1> QED BY <1>1, <1>2, <1>3, <1>4 DEF TimerStep

\* Every step keeps the types.
LEMMA TypeStep == ASSUME TypeOK, CallInv, FdInv, Next PROVE TypeOK'
<1>1. ASSUME NEW d \in Fds, NEW k \in Kinds, EventComes(d, k) PROVE TypeOK'
  <2>1. Trigger(d, {k}) /\ {k} \in SUBSET Kinds
    BY <1>1 DEF EventComes
  <2>2. /\ queued' \in [Fibers -> BOOLEAN]
        /\ slot' \in [Fds -> [Kinds -> Fibers \cup {NoFiber}]]
        /\ watched' \in [Fds -> BOOLEAN]
    BY <2>1, TriggerChange
  <2> QED BY <1>1, <2>2 DEF EventComes, TypeOK, timerVars
<1>2. ASSUME NEW s \in Sockets, KernelConnect(s) PROVE TypeOK'
  BY <1>2 DEF KernelConnect, TypeOK, eventVars, timerVars
<1> QED BY <1>1, <1>2, FiberStepType, NewCallType, TimerStepType DEF Next
-----------------------------------------------------------------------------
(* One step: the calls and their timers                                      *)

\* A fiber's place fits its call after every step, and its timers stay in order.
LEMMA CallStep == ASSUME TypeOK, TypeOK', CallInv, Next PROVE CallInv'
<1> USE HookAssumption DEF At, Goto, Return, eventVars, timerVars, Waits
<1>0. {"queued", "marked", "ran"} \subseteq TimerState
  BY DEF TimerState
<1>1. ASSUME NEW f \in Fibers, FiberStep(f) PROVE CallInv'
  <2>1. CASE Resume(f)
    BY <2>1 DEF Resume, CallInv, TypeOK
  <2>2. CASE GetCreate(f)
    BY <2>2 DEF GetCreate, CallInv, TypeOK
  <2>3. CASE FunReturns(f)
    BY <2>3 DEF FunReturns, CallInv, TypeOK
  <2>4. CASE FunWouldBlock(f)
    BY <2>4 DEF FunWouldBlock, WillWait, CallInv, TypeOK
  <2>5. CASE ArmTimer(f)
    <3>1. /\ \A g \in Fibers : tno'[g] = IF g = f THEN tno[f] + 1 ELSE tno[g]
          /\ \A g \in Fibers, m \in TimerIds :
                ~(g = f /\ m = tno[f] + 1) => timer'[g][m] = timer[g][m]
      BY <2>5, ArmChange
    <3>2. ASSUME NEW g \in Fibers, NEW m \in TimerIds, timer'[g][m].state # "none"
          PROVE  m <= tno'[g]
      <4>1. m \in Int /\ tno[g] \in Int
        BY DEF TypeOK, TimerIds
      <4>2. CASE g = f /\ m = tno[f] + 1
        BY <3>1, <4>1, <4>2
      <4>3. CASE ~(g = f /\ m = tno[f] + 1)
        <5>1. m <= tno[g]
          BY <3>1, <3>2, <4>3 DEF CallInv
        <5> QED BY <3>1, <4>1, <5>1
      <4> QED BY <4>2, <4>3
    <3> QED BY <2>5, <3>1, <3>2 DEF ArmTimer, CallInv, TypeOK
  <2>6. CASE Register(f)
    BY <2>6 DEF Register, CallInv, TypeOK
  <2>7. CASE RegisterFails(f)
    <3>1. \A g \in Fibers, m \in TimerIds :
             timer'[g][m].state # "none" => timer[g][m].state # "none"
      BY <2>7, StopChange DEF RegisterFails
    <3> QED BY <2>7, <3>1 DEF RegisterFails, CallInv, TypeOK
  <2>8. CASE RegisterAborts(f)
    BY <2>8 DEF RegisterAborts, CallInv, TypeOK
  <2>9. CASE YieldToHold(f)
    BY <2>9 DEF YieldToHold, CallInv, TypeOK
  <2>10. CASE CancelTimer(f)
    <3>1. \A g \in Fibers, m \in TimerIds :
             timer'[g][m].state # "none" => timer[g][m].state # "none"
      BY <2>10, StopChange DEF CancelTimer
    <3> QED BY <2>10, <3>1 DEF CancelTimer, CallInv, TypeOK
  <2>11. CASE TestCancelled(f)
    BY <2>11 DEF TestCancelled, CallInv, TypeOK
  <2>12. CASE SockErr(f)
    BY <2>12 DEF SockErr, CallInv, TypeOK
  <2>13. CASE FdManagerDel(f)
    BY <2>13 DEF FdManagerDel, CallInv, TypeOK
  <2>14. CASE CloseF(f)
    BY <2>14 DEF CloseF, CallInv, TypeOK
  <2> QED BY <1>1, <2>1, <2>2, <2>3, <2>4, <2>5, <2>6, <2>7, <2>8, <2>9, <2>10, <2>11,
             <2>12, <2>13, <2>14 DEF FiberStep
<1>2. ASSUME NEW f \in Fibers, NewCall(f) PROVE CallInv'
  <2>1. ASSUME NEW d \in Fds, NEW s \in Sockets, SocketF(f, d, s) PROVE CallInv'
    BY <2>1 DEF SocketF, Begin, CallInv, TypeOK
  <2>2. ASSUME NEW d \in Fds, NEW k \in IoKinds, SetTimeout(f, d, k) PROVE CallInv'
    BY <2>2 DEF SetTimeout, CallInv
  <2>3. ASSUME NEW d \in Fds, NEW flag \in BOOLEAN, SetUserNonblock(f, d, flag) PROVE CallInv'
    BY <2>3 DEF SetUserNonblock, CallInv
  <2>4. ASSUME NEW d \in Fds, NEW k \in IoKinds, CallRaw(f, d, k) PROVE CallInv'
    BY <2>4 DEF CallRaw, Begin, CallInv, TypeOK
  <2>5. ASSUME NEW d \in Fds, NEW k \in IoKinds, CallIo(f, d, k) PROVE CallInv'
    BY <2>5 DEF CallIo, Begin, CallInv, TypeOK
  <2>6. ASSUME NEW d \in Fds, NEW timed \in BOOLEAN, Connect(f, d, timed) PROVE CallInv'
    BY <2>6 DEF Connect, WillWait, Begin, CallInv, TypeOK
  <2>7. ASSUME NEW d \in Fds, Close(f, d) PROVE CallInv'
    BY <2>7 DEF Close, Begin, CallInv, TypeOK
  <2>8. CASE Sleep(f)
    <3>1. /\ \A g \in Fibers : tno'[g] = IF g = f THEN tno[f] + 1 ELSE tno[g]
          /\ \A g \in Fibers, m \in TimerIds :
                ~(g = f /\ m = tno[f] + 1) => timer'[g][m] = timer[g][m]
          /\ op'[f].call = "sleep" /\ op'[f].fd = NoFd /\ ~op'[f].timed
          /\ \A g \in Fibers : g # f => op'[g] = op[g]
      BY <2>8, SleepChange
    <3>2. ASSUME NEW g \in Fibers, NEW m \in TimerIds, timer'[g][m].state # "none"
          PROVE  m <= tno'[g]
      <4>1. m \in Int /\ tno[g] \in Int
        BY DEF TypeOK, TimerIds
      <4>2. CASE g = f /\ m = tno[f] + 1
        BY <3>1, <4>1, <4>2
      <4>3. CASE ~(g = f /\ m = tno[f] + 1)
        <5>1. m <= tno[g]
          BY <3>1, <3>2, <4>3 DEF CallInv
        <5> QED BY <3>1, <4>1, <5>1
      <4> QED BY <4>2, <4>3
    <3>3. /\ pc' = [pc EXCEPT ![f] = "yield"]
          /\ first' = [first EXCEPT ![f] = tno[f] + 1]
      BY <2>8 DEF Sleep, Begin
    <3> QED BY <3>1, <3>2, <3>3 DEF CallInv, TypeOK
  <2> QED BY <1>2, <2>1, <2>2, <2>3, <2>4, <2>5, <2>6, <2>7, <2>8 DEF NewCall
<1>3. ASSUME NEW f \in Fibers, NEW n \in TimerIds, TimerStep(f, n) PROVE CallInv'
  <2>1. /\ timer[f][n].state \in {"armed", "queued", "marked"}
        /\ \E st \in {"queued", "marked", "ran"} : SetState(f, n, st)
        /\ UNCHANGED <<pc, op, tno, first>>
    BY <1>3 DEF TimerStep, Expire, CallbackMarks, CallbackCancels, CallbackWakes, SetState
  <2>2. \A g \in Fibers, m \in TimerIds : timer'[g][m].state # "none" => timer[g][m].state # "none"
    BY <1>0, <2>1, StateChange
  <2> QED BY <2>1, <2>2 DEF CallInv
<1>4. ASSUME NEW d \in Fds, NEW k \in Kinds, EventComes(d, k) PROVE CallInv'
  BY <1>4 DEF EventComes, CallInv
<1>5. ASSUME NEW s \in Sockets, KernelConnect(s) PROVE CallInv'
  BY <1>5 DEF KernelConnect, CallInv
<1> QED BY <1>1, <1>2, <1>3, <1>4, <1>5 DEF Next
-----------------------------------------------------------------------------
(* One step: cancelled                                                       *)

\* A step of a call in progress is made by the fiber that runs, or by one that is
\* resumed on a free thread.
LEMMA FiberStepRuns ==
    ASSUME TypeOK, NEW f \in Fibers, FiberStep(f)
    PROVE  /\ Active(f) \/ (Resume(f) /\ ThreadFree)
           /\ \A g \in Fibers : g # f => pc'[g] = pc[g]
<1> USE DEF At, Goto, Return
<1>1. Active(f) \/ (Resume(f) /\ ThreadFree)
  BY DEF Active, FiberStep, Resume, GetCreate, FunReturns, FunWouldBlock, ArmTimer, Register,
         RegisterFails, RegisterAborts, YieldToHold, CancelTimer, TestCancelled, SockErr,
         FdManagerDel, CloseF
<1>2. \A g \in Fibers : g # f => pc'[g] = pc[g]
  BY DEF FiberStep, Resume, GetCreate, FunReturns, FunWouldBlock, WillWait, ArmTimer, Register,
         RegisterFails, RegisterAborts, YieldToHold, CancelTimer, TestCancelled, SockErr,
         FdManagerDel, CloseF, TypeOK
<1> QED BY <1>1, <1>2

\* A step of a call in progress leaves timer_info alone, marks no timer and returns
\* ETIMEDOUT only if cancelled is set.
LEMMA FiberStepCancel ==
    ASSUME TypeOK, CallInv, CancelInv, NEW f \in Fibers, FiberStep(f)
    PROVE  /\ UNCHANGED <<first, cancelled>>
           /\ \A g \in Fibers : pc'[g] # "idle" => pc[g] # "idle"
           /\ \A g \in Fibers : tno[g] <= tno'[g]
           /\ \A g \in Fibers : result'[g] = "ETIMEDOUT" => cancelled[g]
           /\ \A g \in Fibers, m \in TimerIds : Marked(g, m)' => Marked(g, m)
           /\ \A g \in Fibers, m \in TimerIds :
                 timer[g][m].state \in {"marked", "ran"} => timer'[g][m].state = timer[g][m].state
<1> USE DEF At, Goto, Return, timerVars, Marked
<1>1. UNCHANGED <<first, cancelled>>
  BY DEF FiberStep, Resume, GetCreate, FunReturns, FunWouldBlock, ArmTimer, Register,
         RegisterFails, RegisterAborts, YieldToHold, CancelTimer, TestCancelled, SockErr,
         FdManagerDel, CloseF
<1>2. \A g \in Fibers : pc'[g] # "idle" => pc[g] # "idle"
  BY DEF FiberStep, Resume, GetCreate, FunReturns, FunWouldBlock, WillWait, ArmTimer, Register,
         RegisterFails, RegisterAborts, YieldToHold, CancelTimer, TestCancelled, SockErr,
         FdManagerDel, CloseF, TypeOK
<1>3. \A g \in Fibers : result'[g] = "ETIMEDOUT" => cancelled[g]
  BY DEF FiberStep, Resume, GetCreate, FunReturns, FunWouldBlock, ArmTimer, Register,
         RegisterFails, RegisterAborts, YieldToHold, CancelTimer, TestCancelled, SockErr,
         FdManagerDel, CloseF, TypeOK, CancelInv
<1>4. /\ \A g \in Fibers : tno[g] <= tno'[g]
      /\ \A g \in Fibers, m \in TimerIds : Marked(g, m)' => Marked(g, m)
      /\ \A g \in Fibers, m \in TimerIds :
            timer[g][m].state \in {"marked", "ran"} => timer'[g][m].state = timer[g][m].state
  <2>0. \A g \in Fibers : tno[g] \in Int
    BY DEF TypeOK
  <2>1. CASE ArmTimer(f)
    <3>1. /\ tno[f] + 1 \in TimerIds
          /\ \A g \in Fibers : tno'[g] = IF g = f THEN tno[f] + 1 ELSE tno[g]
          /\ \A g \in Fibers, m \in TimerIds :
                 IF g = f /\ m = tno[f] + 1
                 THEN timer'[g][m].state = "armed"
                 ELSE timer'[g][m] = timer[g][m]
      BY <2>1, ArmChange
    <3>2. timer[f][tno[f] + 1].state = "none"
      BY <2>0, <3>1 DEF CallInv
    <3> QED BY <2>0, <3>1, <3>2
  <2>2. CASE RegisterFails(f) \/ CancelTimer(f)
    <3>1. StopTimer(f) /\ UNCHANGED tno
      BY <2>2 DEF RegisterFails, CancelTimer
    <3>2. \A g \in Fibers, m \in TimerIds :
             \/ timer'[g][m].state = timer[g][m].state
             \/ timer[g][m].state = "armed" /\ timer'[g][m].state = "stopped"
      BY <3>1, StopChange
    <3> QED BY <2>0, <3>1, <3>2
  <2>3. CASE ~(ArmTimer(f) \/ RegisterFails(f) \/ CancelTimer(f))
    <3>1. UNCHANGED <<timer, tno>>
      BY <2>3 DEF FiberStep, Resume, GetCreate, FunReturns, FunWouldBlock, Register,
             RegisterAborts, YieldToHold, TestCancelled, SockErr, FdManagerDel, CloseF
    <3> QED BY <2>0, <3>1
  <2> QED BY <2>1, <2>2, <2>3
<1> QED BY <1>1, <1>2, <1>3, <1>4

\* A fiber begins a call with cancelled unset, or makes one that leaves its place, its
\* timers and timer_info alone.
LEMMA NewCallCancel ==
    ASSUME TypeOK, CallInv, CancelInv, NEW f \in Fibers, NewCall(f)
    PROVE  /\ \A g \in Fibers : g # f =>
                 /\ pc'[g] = pc[g] /\ op'[g] = op[g] /\ first'[g] = first[g] /\ tno'[g] = tno[g]
                 /\ cancelled'[g] = cancelled[g] /\ result'[g] = result[g]
                 /\ timer'[g] = timer[g]
           /\ \/ UNCHANGED <<pc, op, first, tno, cancelled, result, timer>>
              \/ /\ first'[f] = tno[f] + 1 /\ ~cancelled'[f] /\ result'[f] # "ETIMEDOUT"
                 /\ \A m \in TimerIds : Marked(f, m)' => Marked(f, m)
<1> USE DEF At, Goto, Return, Begin, timerVars, Marked
<1>1. ASSUME NEW d \in Fds, NEW s \in Sockets, SocketF(f, d, s)
      PROVE  /\ first'[f] = tno[f] + 1 /\ ~cancelled'[f] /\ result'[f] # "ETIMEDOUT"
             /\ UNCHANGED <<timer, tno>>
  BY <1>1 DEF SocketF, TypeOK
<1>2. ASSUME NEW d \in Fds, \E k \in IoKinds : CallRaw(f, d, k) \/ CallIo(f, d, k)
      PROVE  /\ first'[f] = tno[f] + 1 /\ ~cancelled'[f] /\ result'[f] # "ETIMEDOUT"
             /\ UNCHANGED <<timer, tno>>
  BY <1>2 DEF CallRaw, CallIo, TypeOK
<1>3. ASSUME NEW d \in Fds, NEW timed \in BOOLEAN, Connect(f, d, timed)
      PROVE  /\ first'[f] = tno[f] + 1 /\ ~cancelled'[f] /\ result'[f] # "ETIMEDOUT"
             /\ UNCHANGED <<timer, tno>>
  BY <1>3 DEF Connect, TypeOK
<1>4. ASSUME NEW d \in Fds, Close(f, d)
      PROVE  /\ first'[f] = tno[f] + 1 /\ ~cancelled'[f] /\ result'[f] # "ETIMEDOUT"
             /\ UNCHANGED <<timer, tno>>
  BY <1>4 DEF Close, TypeOK
<1>5. CASE Sleep(f)
  <2>1. first'[f] = tno[f] + 1 /\ ~cancelled'[f] /\ result'[f] # "ETIMEDOUT"
    BY <1>5 DEF Sleep, TypeOK
  <2>2. /\ \A g \in Fibers : tno'[g] = IF g = f THEN tno[f] + 1 ELSE tno[g]
        /\ \A m \in TimerIds : timer'[f][m].state = "armed" \/ timer'[f][m] = timer[f][m]
    BY <1>5, SleepChange
  <2>3. \A g \in Fibers : g # f => timer'[g] = timer[g]
    BY <1>5 DEF Sleep, TypeOK
  <2>4. \A g \in Fibers : g # f =>
                 /\ pc'[g] = pc[g] /\ op'[g] = op[g] /\ first'[g] = first[g]
                 /\ cancelled'[g] = cancelled[g] /\ result'[g] = result[g]
    BY <1>5 DEF Sleep, TypeOK
  <2> QED BY <2>1, <2>2, <2>3, <2>4
<1>6. ASSUME ~Sleep(f)
      PROVE  \A g \in Fibers : g # f =>
                 /\ pc'[g] = pc[g] /\ op'[g] = op[g] /\ first'[g] = first[g] /\ tno'[g] = tno[g]
                 /\ cancelled'[g] = cancelled[g] /\ result'[g] = result[g]
                 /\ timer'[g] = timer[g]
  BY <1>6 DEF NewCall, SocketF, SetTimeout, SetUserNonblock, CallRaw, CallIo, Connect, Close,
              WillWait, TypeOK
<1>7. ASSUME NEW d \in Fds,
             \/ \E k \in IoKinds : SetTimeout(f, d, k)
             \/ \E flag \in BOOLEAN : SetUserNonblock(f, d, flag)
      PROVE  UNCHANGED <<pc, op, first, tno, cancelled, result, timer>>
  BY <1>7 DEF SetTimeout, SetUserNonblock
<1> QED BY <1>1, <1>2, <1>3, <1>4, <1>5, <1>6, <1>7 DEF NewCall

\* What a step of a timer changes: its state, and cancelled when it becomes marked.
LEMMA TimerStepCancel ==
    ASSUME TypeOK, NEW f \in Fibers, NEW n \in TimerIds, TimerStep(f, n)
    PROVE  /\ UNCHANGED <<open, conn, m_datas, pc, op, tno, first, result, failed>>
           /\ \A g \in Fibers, m \in TimerIds :
                 /\ timer'[g][m].fd = timer[g][m].fd /\ timer'[g][m].kind = timer[g][m].kind
                 /\ ~(g = f /\ m = n) => timer'[g][m].state = timer[g][m].state
           /\ \/ /\ timer[f][n].state = "armed" /\ timer'[f][n].state = "queued"
                 /\ UNCHANGED cancelled
              \/ /\ timer[f][n].state = "queued" /\ timer'[f][n].state = "marked"
                 /\ pc[f] # "idle" /\ n >= first[f]
                 /\ timer[f][n].fd # NoFd
                 /\ cancelled' = [cancelled EXCEPT ![f] = TRUE]
              \/ /\ timer[f][n].state \in {"queued", "marked"} /\ timer'[f][n].state = "ran"
                 /\ UNCHANGED cancelled
<1> USE DEF eventVars, timerVars
<1>0. {"queued", "marked", "ran"} \subseteq TimerState
  BY DEF TimerState
<1>1. CASE Expire(f, n)
  <2>1. SetState(f, n, "queued")
    BY <1>1 DEF Expire, SetState
  <2> QED BY <1>0, <1>1, <2>1, StateChange DEF Expire
<1>2. CASE CallbackMarks(f, n) /\ Alive(f, n) /\ ~cancelled[f]
  <2>1. SetState(f, n, "marked")
    BY <1>2 DEF CallbackMarks, SetState
  <2> QED BY <1>0, <1>2, <2>1, StateChange DEF CallbackMarks, Alive
<1>3. CASE CallbackMarks(f, n) /\ ~(Alive(f, n) /\ ~cancelled[f])
  <2>1. SetState(f, n, "ran")
    BY <1>3 DEF CallbackMarks, SetState
  <2> QED BY <1>0, <1>3, <2>1, StateChange DEF CallbackMarks
<1>4. CASE CallbackCancels(f, n) \/ CallbackWakes(f, n)
  <2>1. SetState(f, n, "ran")
    BY <1>4 DEF CallbackCancels, CallbackWakes, SetState
  <2> QED BY <1>0, <1>4, <2>1, StateChange DEF CallbackCancels, CallbackWakes
<1> QED BY <1>1, <1>2, <1>3, <1>4 DEF TimerStep

\* cancelled belongs to the call in progress after every step.
LEMMA CancelStep == ASSUME TypeOK, TypeOK', CallInv, CancelInv, Next PROVE CancelInv'
<1> USE DEF Marked
<1>0. \A g \in Fibers : tno[g] \in Int /\ first[g] \in Int /\ tno'[g] \in Int /\ first'[g] \in Int
                           /\ first[g] >= 1 /\ tno[g] <= MaxTimers /\ MaxTimers \in Int
  BY HookAssumption DEF TypeOK
<1>1. ASSUME NEW f \in Fibers, FiberStep(f) PROVE CancelInv'
  <2>1. /\ UNCHANGED <<first, cancelled>>
        /\ \A g \in Fibers : pc'[g] # "idle" => pc[g] # "idle"
        /\ \A g \in Fibers : tno[g] <= tno'[g]
        /\ \A g \in Fibers : result'[g] = "ETIMEDOUT" => cancelled[g]
        /\ \A g \in Fibers, m \in TimerIds : Marked(g, m)' => Marked(g, m)
        /\ \A g \in Fibers, m \in TimerIds :
              timer[g][m].state \in {"marked", "ran"} => timer'[g][m].state = timer[g][m].state
    BY <1>1, FiberStepCancel
  <2>2. ASSUME NEW g \in Fibers, cancelled'[g]
        PROVE  \E n \in first'[g] .. tno'[g] : timer'[g][n].state \in {"marked", "ran"}
    <3>1. PICK n \in first[g] .. tno[g] : timer[g][n].state \in {"marked", "ran"}
      BY <2>1, <2>2 DEF CancelInv
    <3>2. n \in TimerIds
      BY <1>0 DEF TimerIds
    <3>3. n \in first'[g] .. tno'[g]
      BY <1>0, <2>1
    <3> QED BY <2>1, <3>1, <3>2, <3>3
  <2> QED BY <2>1, <2>2 DEF CancelInv
<1>2. ASSUME NEW f \in Fibers, NewCall(f) PROVE CancelInv'
  <2>1. /\ \A g \in Fibers : g # f =>
                 /\ pc'[g] = pc[g] /\ op'[g] = op[g] /\ first'[g] = first[g] /\ tno'[g] = tno[g]
                 /\ cancelled'[g] = cancelled[g] /\ result'[g] = result[g]
                 /\ timer'[g] = timer[g]
        /\ \/ UNCHANGED <<pc, op, first, tno, cancelled, result, timer>>
           \/ /\ first'[f] = tno[f] + 1 /\ ~cancelled'[f] /\ result'[f] # "ETIMEDOUT"
              /\ \A m \in TimerIds : Marked(f, m)' => Marked(f, m)
    BY <1>2, NewCallCancel
  <2>2. CASE UNCHANGED <<pc, op, first, tno, cancelled, result, timer>>
    BY <2>2 DEF CancelInv
  <2>3. CASE /\ first'[f] = tno[f] + 1 /\ ~cancelled'[f] /\ result'[f] # "ETIMEDOUT"
             /\ \A m \in TimerIds : Marked(f, m)' => Marked(f, m)
    <3>1. ASSUME NEW m \in TimerIds, Marked(f, m)' PROVE ~(m >= first'[f])
      <4>1. m \in Int /\ m <= tno[f]
        BY <2>3, <3>1 DEF CallInv, TimerIds
      <4> QED BY <1>0, <2>3, <4>1
    <3> QED BY <2>1, <2>3, <3>1 DEF CancelInv
  <2> QED BY <2>1, <2>2, <2>3
<1>3. ASSUME NEW f \in Fibers, NEW n \in TimerIds, TimerStep(f, n) PROVE CancelInv'
  <2>1. /\ UNCHANGED <<pc, op, tno, first, result>>
        /\ \A g \in Fibers, m \in TimerIds :
              ~(g = f /\ m = n) => timer'[g][m].state = timer[g][m].state
        /\ \/ timer'[f][n].state = "queued" /\ timer[f][n].state = "armed" /\ UNCHANGED cancelled
           \/ /\ timer[f][n].state = "queued" /\ timer'[f][n].state = "marked"
              /\ n >= first[f] /\ cancelled' = [cancelled EXCEPT ![f] = TRUE]
           \/ timer'[f][n].state = "ran" /\ UNCHANGED cancelled
    BY <1>3, TimerStepCancel
  <2>2. ASSUME NEW g \in Fibers, cancelled'[g]
        PROVE  \E m \in first'[g] .. tno'[g] : timer'[g][m].state \in {"marked", "ran"}
    <3>1. CASE cancelled[g]
      <4>1. PICK m \in first[g] .. tno[g] : timer[g][m].state \in {"marked", "ran"}
        BY <3>1 DEF CancelInv
      <4>2. m \in TimerIds
        BY <1>0 DEF TimerIds
      <4>3. timer'[g][m].state \in {"marked", "ran"}
        BY <2>1, <4>1, <4>2
      <4> QED BY <2>1, <4>3
    <3>2. CASE ~cancelled[g]
      <4>1. g = f /\ timer[f][n].state = "queued" /\ timer'[f][n].state = "marked" /\ n >= first[f]
        BY <2>1, <2>2, <3>2 DEF TypeOK
      <4>2. n \in Int /\ n <= tno[f]
        BY <4>1 DEF CallInv, TimerIds
      <4> QED BY <1>0, <2>1, <4>1, <4>2
    <3> QED BY <3>1, <3>2
  <2>3. \A g \in Fibers : cancelled[g] => cancelled'[g]
    BY <2>1 DEF TypeOK
  <2>4. ASSUME NEW g \in Fibers, NEW m \in TimerIds, Marked(g, m)', pc[g] # "idle", m >= first[g]
        PROVE  cancelled'[g]
    <3>1. CASE Marked(g, m)
      BY <2>3, <2>4, <3>1 DEF CancelInv
    <3>2. CASE ~Marked(g, m)
      BY <2>1, <2>4, <3>2 DEF TypeOK
    <3> QED BY <3>1, <3>2
  <2> QED BY <2>1, <2>2, <2>3, <2>4 DEF CancelInv
<1>4. ASSUME NEW d \in Fds, NEW k \in Kinds, EventComes(d, k) PROVE CancelInv'
  BY <1>4 DEF EventComes, CancelInv, timerVars
<1>5. ASSUME NEW s \in Sockets, KernelConnect(s) PROVE CancelInv'
  BY <1>5 DEF KernelConnect, CancelInv, timerVars
<1> QED BY <1>1, <1>2, <1>3, <1>4, <1>5 DEF Next
-----------------------------------------------------------------------------
(* One step: the kernel's descriptors and FdManager's                        *)

\* The two tables agree after every step.
LEMMA FdStep == ASSUME TypeOK, TypeOK', CallInv, FdInv, Next PROVE FdInv'
<1> USE HookAssumption DEF At, Goto, Return, eventVars, timerVars, FdCtxFresh
<1> DEFINE Owns(f) == pc[f] \in {"newfd", "del", "closing"}
<1>1. ASSUME NEW f \in Fibers, FiberStep(f) PROVE FdInv'
  <2>1. CASE GetCreate(f)
    <3>1. op[f].fd \in Fds /\ open[op[f].fd] # NoSocket
      BY <2>1 DEF GetCreate, CallInv, FdInv
    <3>2. \A d \in Fds : m_datas'[d] # NoCtx => m_datas'[d].socket = open[d]
      BY <2>1, <3>1 DEF GetCreate, FdInv, TypeOK
    <3>3. \A g \in Fibers : Owns(g)' => Owns(g) /\ g # f /\ pc'[g] = pc[g]
      BY <2>1 DEF GetCreate, TypeOK
    <3>4. \A g \in Fibers : pc'[g] = "closing" => m_datas'[op[g].fd] = NoCtx
      BY <2>1, <3>3 DEF GetCreate, FdInv, TypeOK
    <3> QED BY <2>1, <3>2, <3>3, <3>4 DEF GetCreate, FdInv
  <2>2. CASE FdManagerDel(f)
    <3>1. op[f].fd \in Fds /\ open[op[f].fd] # NoSocket /\ op[f].socket = open[op[f].fd]
      BY <2>2 DEF FdManagerDel, CallInv, FdInv
    <3>2. m_datas'[op[f].fd] = NoCtx /\ \A d \in Fds : m_datas'[d] # NoCtx => m_datas'[d] = m_datas[d]
      BY <2>2, <3>1 DEF FdManagerDel, TypeOK
    <3>3. \A g \in Fibers : Owns(g)' => Owns(g) /\ (g # f => pc'[g] = pc[g])
      BY <2>2 DEF FdManagerDel, TypeOK
    <3>4. \A g \in Fibers : pc'[g] = "closing" => m_datas'[op[g].fd] = NoCtx
      BY <2>2, <3>2, <3>3 DEF FdManagerDel, FdInv, TypeOK
    <3> QED BY <2>2, <3>2, <3>3, <3>4 DEF FdManagerDel, FdInv
  <2>3. CASE CloseF(f)
    <3>1. op[f].fd \in Fds /\ open[op[f].fd] # NoSocket /\ m_datas[op[f].fd] = NoCtx
      BY <2>3 DEF CloseF, CallInv, FdInv
    <3>2. \A d \in Fds : open'[d] = IF d = op[f].fd THEN NoSocket ELSE open[d]
      BY <2>3 DEF CloseF, TypeOK
    <3>3. \A g \in Fibers : Owns(g)' => Owns(g) /\ g # f /\ pc'[g] = pc[g] /\ op[g].fd \in Fds
      <4>1. \A g \in Fibers : Owns(g) => op[g].fd \in Fds
        BY DEF CallInv
      <4>2. \A g \in Fibers : Owns(g)' => Owns(g) /\ g # f /\ pc'[g] = pc[g]
        BY <2>3 DEF CloseF, TypeOK
      <4> QED BY <4>1, <4>2
    <3>4. \A g \in Fibers : Owns(g)' => op[g].fd # op[f].fd
      BY <2>3, <3>3 DEF CloseF, FdInv
    <3>5. \A g \in Fibers : Owns(g)' => open'[op[g].fd] = open[op[g].fd]
      BY <3>2, <3>3, <3>4
    <3>6. FdCtxFresh'
      BY <2>3, <3>1, <3>2 DEF CloseF, FdInv
    <3>7. /\ \A d \in Fds : open'[d] # NoSocket => conn'[open'[d]] # "unborn"
          /\ \A d, e \in Fds : open'[d] # NoSocket /\ open'[d] = open'[e] => d = e
      BY <2>3, <3>2 DEF CloseF, FdInv
    <3> QED BY <2>3, <3>3, <3>5, <3>6, <3>7 DEF CloseF, FdInv
  <2>4. CASE ~(GetCreate(f) \/ FdManagerDel(f) \/ CloseF(f))
    <3>1. UNCHANGED <<open, conn, m_datas, op>>
      BY <1>1, <2>4 DEF FiberStep, Resume, FunReturns, FunWouldBlock, ArmTimer, Register,
         RegisterFails, RegisterAborts, YieldToHold, CancelTimer, TestCancelled, SockErr
    <3>2. \A g \in Fibers : Owns(g)' => pc[g] = pc'[g]
      BY <1>1, <2>4 DEF FiberStep, Resume, FunReturns, FunWouldBlock, WillWait, ArmTimer, Register,
         RegisterFails, RegisterAborts, YieldToHold, CancelTimer, TestCancelled, SockErr, TypeOK
    <3> QED BY <3>1, <3>2 DEF FdInv
  <2> QED BY <2>1, <2>2, <2>3, <2>4
<1>2. ASSUME NEW f \in Fibers, NewCall(f) PROVE FdInv'
  <2>1. ASSUME NEW d \in Fds, NEW s \in Sockets, SocketF(f, d, s) PROVE FdInv'
    <3>1. /\ open[d] = NoSocket /\ conn[s] = "unborn" /\ UNCHANGED m_datas
          /\ \A e \in Fds : open'[e] = IF e = d THEN s ELSE open[e]
          /\ conn'[s] # "unborn" /\ \A r \in Sockets \ {s} : conn'[r] = conn[r]
      BY <2>1 DEF SocketF, TypeOK
    <3>2. /\ op'[f].fd = d /\ op'[f].socket = s /\ pc'[f] = "newfd"
          /\ \A g \in Fibers \ {f} : op'[g] = op[g] /\ pc'[g] = pc[g]
      BY <2>1 DEF SocketF, Begin, TypeOK
    <3>3. m_datas[d] = NoCtx
      BY <3>1 DEF FdInv, TypeOK, FdCtx
    <3>4. FdCtxFresh'
      BY <3>1, <3>3 DEF FdInv
    <3>5. \A e \in Fds : open[e] # s
      BY <3>1 DEF FdInv
    <3>6. /\ \A e \in Fds : open'[e] # NoSocket => conn'[open'[e]] # "unborn"
          /\ \A e, h \in Fds : open'[e] # NoSocket /\ open'[e] = open'[h] => e = h
      <4>1. \A e \in Fds : open'[e] # NoSocket => conn'[open'[e]] # "unborn"
        <5>1. ASSUME NEW e \in Fds, e # d, open[e] # NoSocket PROVE conn'[open[e]] # "unborn"
          <6>1. open[e] \in Sockets \ {s} /\ conn[open[e]] # "unborn"
            BY <3>5, <5>1 DEF FdInv, TypeOK
          <6> QED BY <3>1, <6>1
        <5> QED BY <3>1, <5>1
      <4>2. \A e, h \in Fds : open'[e] # NoSocket /\ open'[e] = open'[h] => e = h
        BY <3>1, <3>5 DEF FdInv
      <4> QED BY <4>1, <4>2
    <3>7. \A g \in Fibers \ {f} : Owns(g) => op[g].fd \in Fds /\ op[g].fd # d
      BY <3>1 DEF FdInv, CallInv
    <3> QED BY <3>1, <3>2, <3>4, <3>6, <3>7 DEF FdInv
  <2>2. ASSUME NEW d \in Fds, NEW k \in IoKinds, SetTimeout(f, d, k) PROVE FdInv'
    <3>1. UNCHANGED <<open, conn, pc, op>> /\ m_datas[d] # NoCtx
      BY <2>2 DEF SetTimeout
    <3>2. m_datas[d] \in FdCtx
      BY <3>1 DEF TypeOK
    <3>3. m_datas'[d].socket = m_datas[d].socket /\ \A e \in Fds \ {d} : m_datas'[e] = m_datas[e]
      BY <2>2, <3>2 DEF SetTimeout, TypeOK, FdCtx
    <3>4. \A g \in Fibers : Owns(g) => op[g].fd \in Fds
      BY DEF CallInv
    <3> QED BY <3>1, <3>3, <3>4 DEF FdInv
  <2>3. ASSUME NEW d \in Fds, NEW flag \in BOOLEAN, SetUserNonblock(f, d, flag) PROVE FdInv'
    <3>1. UNCHANGED <<open, conn, pc, op>> /\ m_datas[d] # NoCtx
      BY <2>3 DEF SetUserNonblock
    <3>2. m_datas[d] \in FdCtx
      BY <3>1 DEF TypeOK
    <3>3. m_datas'[d].socket = m_datas[d].socket /\ \A e \in Fds \ {d} : m_datas'[e] = m_datas[e]
      BY <2>3, <3>2 DEF SetUserNonblock, TypeOK, FdCtx
    <3>4. \A g \in Fibers : Owns(g) => op[g].fd \in Fds
      BY DEF CallInv
    <3> QED BY <3>1, <3>3, <3>4 DEF FdInv
  <2>4. ASSUME NEW d \in Fds, NEW k \in IoKinds, CallRaw(f, d, k) \/ CallIo(f, d, k) PROVE FdInv'
    <3>1. /\ UNCHANGED <<open, conn, m_datas>> /\ ~Owns(f)'
          /\ \A g \in Fibers \ {f} : op'[g] = op[g] /\ pc'[g] = pc[g]
      BY <2>4 DEF CallRaw, CallIo, Begin, TypeOK
    <3> QED BY <3>1 DEF FdInv
  <2>5. ASSUME NEW d \in Fds, NEW timed \in BOOLEAN, Connect(f, d, timed) PROVE FdInv'
    <3>1. /\ UNCHANGED <<open, m_datas>> /\ ~Owns(f)'
          /\ \A g \in Fibers \ {f} : op'[g] = op[g] /\ pc'[g] = pc[g]
      BY <2>5 DEF Connect, WillWait, Begin, TypeOK
    <3>2. \A s \in Sockets : conn'[s] = "unborn" => conn[s] = "unborn"
      BY <2>5 DEF Connect, TypeOK
    <3>3. \A e \in Fds : open'[e] # NoSocket => conn'[open'[e]] # "unborn"
      BY <3>1, <3>2 DEF FdInv, TypeOK
    <3> QED BY <3>1, <3>3 DEF FdInv
  <2>6. ASSUME NEW d \in Fds, Close(f, d) PROVE FdInv'
    <3>1. /\ UNCHANGED <<open, conn, m_datas>> /\ open[d] # NoSocket
          /\ op'[f].fd = d /\ op'[f].socket = open[d]
          /\ pc'[f] = IF m_datas[d] # NoCtx THEN "del" ELSE "closing"
          /\ \A g \in Fibers \ {f} : op'[g] = op[g] /\ pc'[g] = pc[g]
      BY <2>6 DEF Close, Begin, TypeOK
    <3>2. \A g \in Fibers \ {f} : Owns(g) => op[g].fd # d
      BY <2>6 DEF Close, CallInv, FdInv
    <3> QED BY <3>1, <3>2 DEF FdInv
  <2>7. CASE Sleep(f)
    <3>1. /\ UNCHANGED <<open, conn, m_datas>> /\ ~Owns(f)'
          /\ \A g \in Fibers \ {f} : op'[g] = op[g] /\ pc'[g] = pc[g]
      BY <2>7 DEF Sleep, Begin, TypeOK
    <3> QED BY <3>1 DEF FdInv
  <2> QED BY <1>2, <2>1, <2>2, <2>3, <2>4, <2>5, <2>6, <2>7 DEF NewCall
<1>3. ASSUME NEW f \in Fibers, NEW n \in TimerIds, TimerStep(f, n) PROVE FdInv'
  <2>1. UNCHANGED <<open, conn, m_datas, pc, op>>
    BY <1>3 DEF TimerStep, Expire, CallbackMarks, CallbackCancels, CallbackWakes
  <2> QED BY <2>1 DEF FdInv
<1>4. ASSUME NEW d \in Fds, NEW k \in Kinds, EventComes(d, k) PROVE FdInv'
  BY <1>4 DEF EventComes, FdInv
<1>5. ASSUME NEW s \in Sockets, KernelConnect(s) PROVE FdInv'
  <2>1. UNCHANGED <<open, m_datas, pc, op>>
    BY <1>5 DEF KernelConnect
  <2>2. \A r \in Sockets : conn'[r] = "unborn" => conn[r] = "unborn"
    BY <1>5 DEF KernelConnect, TypeOK
  <2>3. \A e \in Fds : open'[e] # NoSocket => conn'[open'[e]] # "unborn"
    BY <2>1, <2>2 DEF FdInv, TypeOK
  <2> QED BY <2>1, <2>3 DEF FdInv
<1> QED BY <1>1, <1>2, <1>3, <1>4, <1>5 DEF Next
-----------------------------------------------------------------------------
(* One step: registrations, the scheduler's queue and the waiting fibers     *)

\* Who is registered waits: the same with a name for the fiber.
LEMMA SlotHolder ==
    ASSUME TypeOK, WaitInv, NEW d \in Fds, NEW k \in Kinds, NEW f \in Fibers, slot[d][k] = f
    PROVE  Waits(f) /\ op[f].call # "sleep" /\ op[f].fd = d /\ op[f].kind = k /\ ~queued[f]
BY HookAssumption DEF WaitInv

\* A step of fiber f that neither begins nor ends a wait, and leaves the registrations
\* and the queue alone.
LEMMA WaitFrame ==
    ASSUME TypeOK, WaitInv, NEW f \in Fibers, ~Waits(f), ~Waits(f)',
           UNCHANGED <<slot, queued>>,
           \A g \in Fibers : g # f =>
              pc'[g] = pc[g] /\ op'[g] = op[g] /\ first'[g] = first[g] /\ tno'[g] = tno[g],
           \A g \in Fibers, m \in TimerIds : g # f => timer'[g][m] = timer[g][m],
           \A m \in TimerIds :
              timer'[f][m].fd = NoFd /\ timer'[f][m].state \in {"armed", "queued"} =>
                 timer[f][m].fd = NoFd /\ timer[f][m].state \in {"armed", "queued"},
           \A m \in TimerIds :
              Marked(f, m)' => Marked(f, m) /\ timer'[f][m].fd = timer[f][m].fd
    PROVE  WaitInv'
<1> USE DEF Marked
<1>0. \A g \in Fibers : g # f => (Waits(g)' <=> Waits(g))
  BY DEF Waits
<1>1. ASSUME NEW d \in Fds, NEW k \in Kinds, NEW g \in Fibers, slot'[d][k] = g
      PROVE  Waits(g)' /\ op'[g].call # "sleep" /\ op'[g].fd = d /\ op'[g].kind = k /\ ~queued'[g]
  <2>1. Waits(g) /\ op[g].call # "sleep" /\ op[g].fd = d /\ op[g].kind = k /\ ~queued[g]
    BY <1>1, SlotHolder
  <2> QED BY <1>0, <2>1
<1>2. \A g \in Fibers : queued'[g] => Waits(g)'
  BY <1>0 DEF WaitInv
<1>3. ASSUME NEW g \in Fibers, Waits(g)', ~queued'[g]
      PROVE  IF op'[g].call = "sleep"
             THEN first'[g] = tno'[g] /\ timer'[g][tno'[g]].fd = NoFd /\ timer'[g][tno'[g]].state \in {"armed", "queued"}
             ELSE slot'[op'[g].fd][op'[g].kind] = g
  <2>1. g # f /\ Waits(g) /\ ~queued[g]
    BY <1>0, <1>3
  <2>2. CASE op[g].call = "sleep"
    <3>1. first[g] = tno[g] /\ timer[g][tno[g]].fd = NoFd /\ timer[g][tno[g]].state \in {"armed", "queued"}
      BY <2>1, <2>2 DEF WaitInv
    <3>2. tno[g] \in TimerIds
      BY <3>1, HookAssumption DEF TypeOK, TimerIds
    <3> QED BY <2>1, <2>2, <3>1, <3>2
  <2>3. CASE op[g].call # "sleep"
    BY <2>1, <2>3 DEF WaitInv
  <2> QED BY <2>2, <2>3
<1>4. \A g \in Fibers, m \in TimerIds :
          timer'[g][m].fd = NoFd /\ timer'[g][m].state \in {"armed", "queued"} =>
             Waits(g)' /\ op'[g].call = "sleep" /\ ~queued'[g] /\ m = tno'[g]
  BY <1>0 DEF WaitInv
<1>5. \A g \in Fibers, m \in TimerIds : Marked(g, m)' => timer'[g][m].fd \in Fds
  BY DEF WaitInv
<1> QED BY <1>1, <1>2, <1>3, <1>4, <1>5 DEF WaitInv

\* When events are triggered, their waiters are queued instead of registered; fibers
\* that sleep are left alone.
LEMMA TriggerWait ==
    ASSUME TypeOK, CallInv, WaitInv, NEW d \in Fds, NEW ks \in SUBSET Kinds, Trigger(d, ks)
    PROVE  /\ \A e \in Fds, k \in Kinds, g \in Fibers : slot'[e][k] = g =>
                 Waits(g) /\ op[g].call # "sleep" /\ op[g].fd = e /\ op[g].kind = k /\ ~queued'[g]
           /\ \A g \in Fibers : queued'[g] => Waits(g)
           /\ \A g \in Fibers : Waits(g) /\ op[g].call = "sleep" => (queued'[g] <=> queued[g])
           /\ \A g \in Fibers : Waits(g) /\ op[g].call # "sleep" /\ ~queued'[g] =>
                 slot'[op[g].fd][op[g].kind] = g
<1>1. /\ \A g \in Fibers : queued'[g] <=> queued[g] \/ \E k \in ks : slot[d][k] = g
      /\ \A e \in Fds, k \in Kinds :
            slot'[e][k] = IF e = d /\ k \in ks THEN NoFiber ELSE slot[e][k]
  BY TriggerChange
<1>2. ASSUME NEW e \in Fds, NEW k \in Kinds, NEW g \in Fibers, slot'[e][k] = g
      PROVE  Waits(g) /\ op[g].call # "sleep" /\ op[g].fd = e /\ op[g].kind = k /\ ~queued'[g]
  <2>1. slot[e][k] = g /\ ~(e = d /\ k \in ks)
    BY <1>1, <1>2, HookAssumption
  <2>2. Waits(g) /\ op[g].call # "sleep" /\ op[g].fd = e /\ op[g].kind = k /\ ~queued[g]
    BY <2>1, SlotHolder
  <2>3. ASSUME NEW j \in ks, slot[d][j] = g PROVE FALSE
    <3>1. op[g].fd = d /\ op[g].kind = j
      BY <2>3, SlotHolder
    <3> QED BY <2>1, <2>2, <2>3, <3>1
  <2> QED BY <1>1, <2>2, <2>3
<1>3. ASSUME NEW g \in Fibers, queued'[g] PROVE Waits(g)
  <2>1. CASE queued[g]
    BY <2>1 DEF WaitInv
  <2>2. CASE ~queued[g]
    <3>1. PICK k \in ks : slot[d][k] = g
      BY <1>1, <1>3, <2>2
    <3> QED BY <3>1, SlotHolder
  <2> QED BY <2>1, <2>2
<1>4. ASSUME NEW g \in Fibers, op[g].call = "sleep" PROVE queued'[g] <=> queued[g]
  <2>1. ASSUME NEW k \in ks, slot[d][k] = g PROVE FALSE
    BY <1>4, <2>1, SlotHolder
  <2> QED BY <1>1, <2>1
<1>5. ASSUME NEW g \in Fibers, Waits(g), op[g].call # "sleep", ~queued'[g]
      PROVE  slot'[op[g].fd][op[g].kind] = g
  <2>1. ~queued[g] /\ ~\E k \in ks : slot[d][k] = g
    BY <1>1, <1>5
  <2>2. slot[op[g].fd][op[g].kind] = g
    BY <1>5, <2>1 DEF WaitInv
  <2>3. op[g].fd \in Fds /\ op[g].kind \in Kinds
    BY <1>5 DEF CallInv, TypeOK, Op, Waits
  <2> QED BY <1>1, <2>1, <2>2, <2>3
<1> QED BY <1>2, <1>3, <1>4, <1>5
\* The steps of a call in progress keep the waiting fibers reachable.
LEMMA FiberStepWait ==
    ASSUME TypeOK, TypeOK', CallInv, WaitInv, NEW f \in Fibers, FiberStep(f)
    PROVE  WaitInv'
<1> USE HookAssumption DEF At, Goto, Return, eventVars, timerVars
<1>1. CASE Resume(f)
  <2>1. /\ Waits(f) /\ queued[f] /\ ~Waits(f)' /\ ~queued'[f]
        /\ \A g \in Fibers : g # f => pc'[g] = pc[g] /\ queued'[g] = queued[g]
        /\ UNCHANGED <<op, slot, timer, tno, first>>
    BY <1>1 DEF Resume, Waits, TypeOK
  <2>2. \A g \in Fibers : g # f => (Waits(g)' <=> Waits(g))
    BY <2>1 DEF Waits
  <2>3. \A d \in Fds, k \in Kinds : slot[d][k] # f
    BY <2>1, SlotHolder
  <2>4. \A d \in Fds, k \in Kinds, g \in Fibers : slot'[d][k] = g =>
          Waits(g)' /\ op'[g].call # "sleep" /\ op'[g].fd = d /\ op'[g].kind = k /\ ~queued'[g]
    BY <2>1, <2>2, <2>3 DEF WaitInv
  <2>5. \A g \in Fibers : queued'[g] => Waits(g)'
    BY <2>1, <2>2 DEF WaitInv
  <2>6. \A g \in Fibers : Waits(g)' /\ ~queued'[g] =>
          IF op[g].call = "sleep"
          THEN first[g] = tno[g] /\ timer[g][tno[g]].fd = NoFd /\ timer[g][tno[g]].state \in {"armed", "queued"}
          ELSE slot[op[g].fd][op[g].kind] = g
    BY <2>1, <2>2 DEF WaitInv
  <2>7. \A g \in Fibers, m \in TimerIds :
          timer[g][m].fd = NoFd /\ timer[g][m].state \in {"armed", "queued"} =>
             Waits(g)' /\ op[g].call = "sleep" /\ ~queued'[g] /\ m = tno[g]
    BY <2>1, <2>2 DEF WaitInv
  <2>8. \A g \in Fibers, m \in TimerIds : Marked(g, m)' => timer'[g][m].fd \in Fds
    BY <2>1 DEF WaitInv, Marked
  <2> QED BY <2>1, <2>4, <2>5, <2>6, <2>7, <2>8 DEF WaitInv
<1>2. CASE Register(f)
  <2> DEFINE d == op[f].fd  k == op[f].kind
  <2>0. d \in Fds /\ k \in Kinds /\ op[f].call # "sleep"
    BY <1>2 DEF Register, CallInv, TypeOK, Op
  <2>1. /\ ~Waits(f) /\ Waits(f)'
        /\ \A g \in Fibers : g # f => pc'[g] = pc[g]
        /\ slot[d][k] = NoFiber
        /\ UNCHANGED <<op, queued, timer, tno, first>>
    BY <1>2 DEF Register, Waits, TypeOK
  <2>2. \A e \in Fds, j \in Kinds : slot'[e][j] = IF e = d /\ j = k THEN f ELSE slot[e][j]
    BY <1>2, <2>0 DEF Register, TypeOK
  <2>3. ~queued[f]
    BY <2>1 DEF WaitInv
  <2>4. \A g \in Fibers : g # f => (Waits(g)' <=> Waits(g))
    BY <2>1 DEF Waits
  <2> HIDE DEF d, k
  <2>5. ASSUME NEW e \in Fds, NEW j \in Kinds, NEW g \in Fibers, slot'[e][j] = g
        PROVE  Waits(g)' /\ op[g].call # "sleep" /\ op[g].fd = e /\ op[g].kind = j /\ ~queued[g]
    <3>1. CASE e = d /\ j = k
      BY <2>0, <2>1, <2>2, <2>3, <2>5, <3>1 DEF d, k
    <3>2. CASE ~(e = d /\ j = k)
      <4>1. slot[e][j] = g
        BY <2>2, <2>5, <3>2
      <4>2. Waits(g) /\ op[g].call # "sleep" /\ op[g].fd = e /\ op[g].kind = j /\ ~queued[g]
        BY <4>1, SlotHolder
      <4> QED BY <2>1, <2>4, <4>2
    <3> QED BY <3>1, <3>2
  <2>6. \A g \in Fibers : queued[g] => Waits(g)'
    BY <2>1, <2>4 DEF WaitInv
  <2>7. ASSUME NEW g \in Fibers, Waits(g)', ~queued[g]
        PROVE  IF op[g].call = "sleep"
               THEN first[g] = tno[g] /\ timer[g][tno[g]].fd = NoFd /\ timer[g][tno[g]].state \in {"armed", "queued"}
               ELSE slot'[op[g].fd][op[g].kind] = g
    <3>1. CASE g = f
      BY <2>0, <2>2, <3>1 DEF d, k
    <3>2. CASE g # f
      <4>1. Waits(g)
        BY <2>4, <2>7, <3>2
      <4>2. CASE op[g].call = "sleep"
        BY <2>7, <4>1, <4>2 DEF WaitInv
      <4>3. CASE op[g].call # "sleep"
        <5>1. slot[op[g].fd][op[g].kind] = g
          BY <2>7, <4>1, <4>3 DEF WaitInv
        <5>2. op[g].fd \in Fds /\ op[g].kind \in Kinds
          BY <4>1, <4>3 DEF CallInv, TypeOK, Op, Waits
        <5>3. ~(op[g].fd = d /\ op[g].kind = k)
          BY <2>1, <5>1
        <5> QED BY <2>2, <4>3, <5>1, <5>2, <5>3
      <4> QED BY <4>2, <4>3
    <3> QED BY <3>1, <3>2
  <2>8. \A g \in Fibers, m \in TimerIds :
          timer[g][m].fd = NoFd /\ timer[g][m].state \in {"armed", "queued"} =>
             Waits(g)' /\ op[g].call = "sleep" /\ ~queued[g] /\ m = tno[g]
    BY <2>1, <2>4 DEF WaitInv
  <2>9. \A g \in Fibers, m \in TimerIds : Marked(g, m)' => timer'[g][m].fd \in Fds
    BY <2>1 DEF WaitInv, Marked
  <2> QED BY <2>1, <2>5, <2>6, <2>7, <2>8, <2>9 DEF WaitInv
<1>3. CASE YieldToHold(f)
  <2>1. \A g \in Fibers : Waits(g)' <=> Waits(g)
    BY <1>3 DEF YieldToHold, Waits, TypeOK
  <2>2. UNCHANGED <<op, slot, queued, timer, tno, first>>
    BY <1>3 DEF YieldToHold
  <2> QED BY <2>1, <2>2 DEF WaitInv, Marked
<1>4. CASE RegisterAborts(f)
  BY <1>4 DEF RegisterAborts, WaitInv, Waits, Marked
<1>5. CASE ArmTimer(f) \/ RegisterFails(f) \/ CancelTimer(f)
  <2>1. /\ ~Waits(f) /\ ~Waits(f)' /\ UNCHANGED <<op, slot, queued, first>>
        /\ \A g \in Fibers : g # f =>
              pc'[g] = pc[g] /\ op'[g] = op[g] /\ first'[g] = first[g] /\ tno'[g] = tno[g]
    BY <1>5 DEF ArmTimer, RegisterFails, CancelTimer, Waits, TypeOK
  <2>2. /\ \A g \in Fibers, m \in TimerIds : g # f => timer'[g][m] = timer[g][m]
        /\ \A m \in TimerIds :
              timer'[f][m].fd = NoFd /\ timer'[f][m].state \in {"armed", "queued"} =>
                 timer[f][m].fd = NoFd /\ timer[f][m].state \in {"armed", "queued"}
        /\ \A m \in TimerIds :
              Marked(f, m)' => Marked(f, m) /\ timer'[f][m].fd = timer[f][m].fd
    <3>1. CASE ArmTimer(f)
      <4>1. op[f].fd # NoFd
        BY <3>1 DEF ArmTimer, CallInv
      <4>2. \A g \in Fibers, m \in TimerIds :
                 IF g = f /\ m = tno[f] + 1
                 THEN timer'[g][m].state = "armed" /\ timer'[g][m].fd = op[f].fd
                 ELSE timer'[g][m] = timer[g][m]
        BY <3>1, ArmChange
      <4> QED BY <4>1, <4>2 DEF Marked
    <3>2. CASE RegisterFails(f) \/ CancelTimer(f)
      <4>1. StopTimer(f)
        BY <3>2 DEF RegisterFails, CancelTimer
      <4>2. \A g \in Fibers : g # f => timer'[g] = timer[g]
        BY <4>1 DEF StopTimer, TypeOK
      <4>3. \A m \in TimerIds :
               /\ timer'[f][m].fd = timer[f][m].fd
               /\ \/ timer'[f][m].state = timer[f][m].state
                  \/ timer[f][m].state = "armed" /\ timer'[f][m].state = "stopped"
        BY <4>1, StopChange
      <4> QED BY <4>2, <4>3 DEF Marked
    <3> QED BY <1>5, <3>1, <3>2
  <2> QED BY <2>1, <2>2, WaitFrame
<1>6. CASE \/ GetCreate(f) \/ FunReturns(f) \/ FunWouldBlock(f) \/ TestCancelled(f)
           \/ SockErr(f) \/ FdManagerDel(f) \/ CloseF(f)
  <2>1. /\ ~Waits(f) /\ ~Waits(f)' /\ UNCHANGED <<op, slot, queued, first, tno, timer>>
        /\ \A g \in Fibers : g # f => pc'[g] = pc[g]
    BY <1>6 DEF GetCreate, FunReturns, FunWouldBlock, WillWait, TestCancelled, SockErr,
                FdManagerDel, CloseF, Waits, TypeOK
  <2>2. /\ \A g \in Fibers : g # f =>
              pc'[g] = pc[g] /\ op'[g] = op[g] /\ first'[g] = first[g] /\ tno'[g] = tno[g]
        /\ \A g \in Fibers, m \in TimerIds : g # f => timer'[g][m] = timer[g][m]
        /\ \A m \in TimerIds :
              timer'[f][m].fd = NoFd /\ timer'[f][m].state \in {"armed", "queued"} =>
                 timer[f][m].fd = NoFd /\ timer[f][m].state \in {"armed", "queued"}
        /\ \A m \in TimerIds :
              Marked(f, m)' => Marked(f, m) /\ timer'[f][m].fd = timer[f][m].fd
    BY <2>1 DEF Marked
  <2> QED BY <2>1, <2>2, WaitFrame
<1> QED BY <1>1, <1>2, <1>3, <1>4, <1>5, <1>6 DEF FiberStep
\* So do the beginnings of calls: close() triggers the events of its descriptor, and
\* sleep arms the timer that it waits for.
LEMMA NewCallWait ==
    ASSUME TypeOK, TypeOK', CallInv, WaitInv, NEW f \in Fibers, NewCall(f)
    PROVE  WaitInv'
<1> USE HookAssumption DEF At, Goto, Return, Begin, eventVars, timerVars
<1>1. CASE Sleep(f)
  <2>1. /\ ~Waits(f) /\ Waits(f)' /\ UNCHANGED <<slot, queued>>
        /\ \A g \in Fibers : g # f => pc'[g] = pc[g] /\ first'[g] = first[g]
        /\ first'[f] = tno[f] + 1
    BY <1>1 DEF Sleep, Waits, TypeOK
  <2>2. /\ tno[f] + 1 \in TimerIds
        /\ \A g \in Fibers : tno'[g] = IF g = f THEN tno[f] + 1 ELSE tno[g]
        /\ \A g \in Fibers, m \in TimerIds :
              IF g = f /\ m = tno[f] + 1
              THEN timer'[g][m].state = "armed" /\ timer'[g][m].fd = NoFd
              ELSE timer'[g][m] = timer[g][m]
        /\ op'[f].call = "sleep"
        /\ \A g \in Fibers : g # f => op'[g] = op[g]
    BY <1>1, SleepChange
  <2>3. ~queued[f] /\ \A d \in Fds, k \in Kinds : slot[d][k] # f
    BY <2>1, SlotHolder DEF WaitInv
  <2>4. \A g \in Fibers : g # f => (Waits(g)' <=> Waits(g))
    BY <2>1 DEF Waits
  <2>5. \A d \in Fds, k \in Kinds, g \in Fibers : slot[d][k] = g =>
          Waits(g)' /\ op'[g].call # "sleep" /\ op'[g].fd = d /\ op'[g].kind = k /\ ~queued[g]
    BY <2>2, <2>3, <2>4 DEF WaitInv
  <2>6. \A g \in Fibers : queued[g] => Waits(g)'
    BY <2>1, <2>4 DEF WaitInv
  <2>7. ASSUME NEW g \in Fibers, Waits(g)', ~queued[g]
        PROVE  IF op'[g].call = "sleep"
               THEN first'[g] = tno'[g] /\ timer'[g][tno'[g]].fd = NoFd /\ timer'[g][tno'[g]].state \in {"armed", "queued"}
               ELSE slot[op'[g].fd][op'[g].kind] = g
    <3>1. CASE g = f
      BY <2>1, <2>2, <3>1
    <3>2. CASE g # f /\ op[g].call = "sleep"
      <4>1. first[g] = tno[g] /\ timer[g][tno[g]].fd = NoFd /\ timer[g][tno[g]].state \in {"armed", "queued"}
        BY <2>4, <2>7, <3>2 DEF WaitInv
      <4>2. tno[g] \in TimerIds
        BY <4>1 DEF TypeOK, TimerIds
      <4> QED BY <2>1, <2>2, <3>2, <4>1, <4>2
    <3>3. CASE g # f /\ op[g].call # "sleep"
      BY <2>2, <2>4, <2>7, <3>3 DEF WaitInv
    <3> QED BY <3>1, <3>2, <3>3
  <2>8. ASSUME NEW g \in Fibers, NEW m \in TimerIds,
               timer'[g][m].fd = NoFd, timer'[g][m].state \in {"armed", "queued"}
        PROVE  Waits(g)' /\ op'[g].call = "sleep" /\ ~queued[g] /\ m = tno'[g]
    <3>1. CASE g = f /\ m = tno[f] + 1
      BY <2>1, <2>2, <2>3, <3>1
    <3>2. CASE ~(g = f /\ m = tno[f] + 1)
      <4>1. Waits(g) /\ op[g].call = "sleep" /\ ~queued[g] /\ m = tno[g]
        BY <2>2, <2>8, <3>2 DEF WaitInv
      <4> QED BY <2>1, <2>2, <2>4, <4>1
    <3> QED BY <3>1, <3>2
  <2>9. \A g \in Fibers, m \in TimerIds : Marked(g, m)' => timer'[g][m].fd \in Fds
    BY <2>2 DEF WaitInv, Marked
  <2> QED BY <2>1, <2>5, <2>6, <2>7, <2>8, <2>9 DEF WaitInv
<1>2. ASSUME NEW d \in Fds, Close(f, d), Trigger(d, Kinds) PROVE WaitInv'
  <2>1. /\ ~Waits(f) /\ ~Waits(f)' /\ UNCHANGED <<timer, tno>>
        /\ \A g \in Fibers : g # f => pc'[g] = pc[g] /\ op'[g] = op[g] /\ first'[g] = first[g]
    BY <1>2 DEF Close, Waits, TypeOK
  <2>2. \A g \in Fibers : g # f => (Waits(g)' <=> Waits(g))
    BY <2>1 DEF Waits
  <2>3. /\ \A e \in Fds, k \in Kinds, g \in Fibers : slot'[e][k] = g =>
              Waits(g) /\ op[g].call # "sleep" /\ op[g].fd = e /\ op[g].kind = k /\ ~queued'[g]
        /\ \A g \in Fibers : queued'[g] => Waits(g)
        /\ \A g \in Fibers : Waits(g) /\ op[g].call = "sleep" => (queued'[g] <=> queued[g])
        /\ \A g \in Fibers : Waits(g) /\ op[g].call # "sleep" /\ ~queued'[g] =>
              slot'[op[g].fd][op[g].kind] = g
    BY <1>2, TriggerWait
  <2>4. \A e \in Fds, k \in Kinds, g \in Fibers : slot'[e][k] = g =>
          Waits(g)' /\ op'[g].call # "sleep" /\ op'[g].fd = e /\ op'[g].kind = k /\ ~queued'[g]
    BY <2>1, <2>2, <2>3
  <2>5. \A g \in Fibers : queued'[g] => Waits(g)'
    BY <2>1, <2>2, <2>3
  <2>6. ASSUME NEW g \in Fibers, Waits(g)', ~queued'[g]
        PROVE  IF op'[g].call = "sleep"
               THEN first'[g] = tno[g] /\ timer[g][tno[g]].fd = NoFd /\ timer[g][tno[g]].state \in {"armed", "queued"}
               ELSE slot'[op'[g].fd][op'[g].kind] = g
    <3>1. g # f /\ Waits(g)
      BY <2>1, <2>2, <2>6
    <3>2. CASE op[g].call = "sleep"
      BY <2>1, <2>3, <2>6, <3>1, <3>2 DEF WaitInv
    <3>3. CASE op[g].call # "sleep"
      BY <2>1, <2>3, <2>6, <3>1, <3>3
    <3> QED BY <3>2, <3>3
  <2>7. \A g \in Fibers, m \in TimerIds :
          timer[g][m].fd = NoFd /\ timer[g][m].state \in {"armed", "queued"} =>
             Waits(g)' /\ op'[g].call = "sleep" /\ ~queued'[g] /\ m = tno[g]
    BY <2>1, <2>2, <2>3 DEF WaitInv
  <2>8. \A g \in Fibers, m \in TimerIds : Marked(g, m)' => timer'[g][m].fd \in Fds
    BY <2>1 DEF WaitInv, Marked
  <2> QED BY <2>1, <2>4, <2>5, <2>6, <2>7, <2>8 DEF WaitInv
<1>3. ASSUME ~Sleep(f), UNCHANGED <<slot, queued>> PROVE WaitInv'
  <2>1. /\ ~Waits(f) /\ ~Waits(f)' /\ UNCHANGED <<tno, timer>>
        /\ \A g \in Fibers : g # f => pc'[g] = pc[g] /\ op'[g] = op[g] /\ first'[g] = first[g]
    BY <1>3 DEF NewCall, SocketF, SetTimeout, SetUserNonblock, CallRaw, CallIo, Connect, Close,
                WillWait, Waits, TypeOK
  <2>2. /\ \A g \in Fibers : g # f =>
              pc'[g] = pc[g] /\ op'[g] = op[g] /\ first'[g] = first[g] /\ tno'[g] = tno[g]
        /\ \A g \in Fibers, m \in TimerIds : g # f => timer'[g][m] = timer[g][m]
        /\ \A m \in TimerIds :
              timer'[f][m].fd = NoFd /\ timer'[f][m].state \in {"armed", "queued"} =>
                 timer[f][m].fd = NoFd /\ timer[f][m].state \in {"armed", "queued"}
        /\ \A m \in TimerIds :
              Marked(f, m)' => Marked(f, m) /\ timer'[f][m].fd = timer[f][m].fd
    BY <2>1 DEF Marked
  <2> QED BY <1>3, <2>1, <2>2, WaitFrame
<1>4. \/ Sleep(f)
      \/ UNCHANGED <<slot, queued>>
      \/ \E d \in Fds : Close(f, d) /\ Trigger(d, Kinds)
  BY DEF NewCall, SocketF, SetTimeout, SetUserNonblock, CallRaw, CallIo, Connect, Close
<1> QED BY <1>1, <1>2, <1>3, <1>4

\* So do the timers: the callback of a sleep queues the fiber that it was armed for.
LEMMA TimerStepWait ==
    ASSUME TypeOK, TypeOK', CallInv, WaitInv, NEW f \in Fibers, NEW n \in TimerIds, TimerStep(f, n)
    PROVE  WaitInv'
<1>0. /\ UNCHANGED <<pc, op, tno, first>>
      /\ \A g \in Fibers, m \in TimerIds :
            /\ timer'[g][m].fd = timer[g][m].fd
            /\ ~(g = f /\ m = n) => timer'[g][m].state = timer[g][m].state
      /\ \/ timer[f][n].state = "armed" /\ timer'[f][n].state = "queued"
         \/ timer[f][n].state = "queued" /\ timer'[f][n].state = "marked" /\ timer[f][n].fd # NoFd
         \/ timer[f][n].state \in {"queued", "marked"} /\ timer'[f][n].state = "ran"
  BY TimerStepCancel
<1>1. \A g \in Fibers : Waits(g)' <=> Waits(g)
  BY <1>0 DEF Waits
<1>2. \A g \in Fibers, m \in TimerIds : Marked(g, m)' => timer'[g][m].fd \in Fds
  <2>1. \A g \in Fibers, m \in TimerIds : timer[g][m].fd # NoFd => timer[g][m].fd \in Fds
    BY DEF TypeOK, Timer
  <2> QED BY <1>0, <2>1 DEF WaitInv, Marked
<1>3. \A g \in Fibers, m \in TimerIds :
         timer'[g][m].fd = NoFd /\ timer'[g][m].state \in {"armed", "queued"} =>
            /\ timer[g][m].fd = NoFd /\ timer[g][m].state \in {"armed", "queued"}
            /\ Waits(g) /\ op[g].call = "sleep" /\ ~queued[g] /\ m = tno[g]
  BY <1>0 DEF WaitInv
<1>4. ASSUME NEW g \in Fibers, Waits(g), op[g].call = "sleep", ~queued[g]
      PROVE  /\ first[g] = tno[g] /\ timer[g][tno[g]].fd = NoFd /\ timer[g][tno[g]].state \in {"armed", "queued"}
             /\ tno[g] \in TimerIds
  <2>1. first[g] = tno[g] /\ timer[g][tno[g]].fd = NoFd /\ timer[g][tno[g]].state \in {"armed", "queued"}
    BY <1>4 DEF WaitInv
  <2> QED BY <2>1, HookAssumption DEF TypeOK, TimerIds
<1>5. CASE UNCHANGED <<slot, queued>> /\ (timer[f][n].fd # NoFd \/ timer'[f][n].state = "queued")
  <2>1. ASSUME NEW g \in Fibers, Waits(g), op[g].call = "sleep", ~queued[g]
        PROVE  timer'[g][tno[g]].fd = NoFd /\ timer'[g][tno[g]].state \in {"armed", "queued"}
    <3>1. /\ timer[g][tno[g]].fd = NoFd /\ timer[g][tno[g]].state \in {"armed", "queued"}
          /\ tno[g] \in TimerIds
      BY <1>4, <2>1
    <3>2. CASE ~(g = f /\ tno[g] = n)
      BY <1>0, <3>1, <3>2
    <3>3. CASE g = f /\ tno[g] = n
      BY <1>0, <1>5, <3>1, <3>3
    <3> QED BY <3>2, <3>3
  <2>2. \A g \in Fibers, m \in TimerIds :
          timer'[g][m].fd = NoFd /\ timer'[g][m].state \in {"armed", "queued"} =>
             Waits(g)' /\ op'[g].call = "sleep" /\ ~queued'[g] /\ m = tno'[g]
    BY <1>0, <1>1, <1>3, <1>5
  <2>3. ASSUME NEW g \in Fibers, Waits(g)', ~queued'[g]
        PROVE  IF op'[g].call = "sleep"
               THEN /\ first'[g] = tno'[g] /\ timer'[g][tno'[g]].fd = NoFd
                    /\ timer'[g][tno'[g]].state \in {"armed", "queued"}
               ELSE slot'[op'[g].fd][op'[g].kind] = g
    <3>1. Waits(g) /\ ~queued[g]
      BY <1>1, <1>5, <2>3
    <3>2. CASE op[g].call = "sleep"
      BY <1>0, <1>4, <2>1, <3>1, <3>2
    <3>3. CASE op[g].call # "sleep"
      BY <1>0, <1>5, <3>1, <3>3 DEF WaitInv
    <3> QED BY <3>2, <3>3
  <2>4. \A d \in Fds, k \in Kinds, g \in Fibers : slot'[d][k] = g =>
          Waits(g)' /\ op'[g].call # "sleep" /\ op'[g].fd = d /\ op'[g].kind = k /\ ~queued'[g]
    BY <1>0, <1>1, <1>5 DEF WaitInv
  <2>5. \A g \in Fibers : queued'[g] => Waits(g)'
    BY <1>1, <1>5 DEF WaitInv
  <2> QED BY <1>2, <2>2, <2>3, <2>4, <2>5 DEF WaitInv
<1>6. CASE CallbackWakes(f, n)
  <2>1. /\ timer[f][n].state = "queued" /\ timer[f][n].fd = NoFd /\ UNCHANGED slot
        /\ queued'[f] /\ \A g \in Fibers : g # f => queued'[g] = queued[g]
    BY <1>6 DEF CallbackWakes, TypeOK
  <2>2. Waits(f) /\ op[f].call = "sleep" /\ n = tno[f]
    BY <2>1 DEF WaitInv
  <2>3. timer'[f][n].state # "armed" /\ timer'[f][n].state # "queued"
    BY <1>0, <2>1
  <2>4. \A d \in Fds, k \in Kinds, g \in Fibers : slot'[d][k] = g =>
          Waits(g)' /\ op'[g].call # "sleep" /\ op'[g].fd = d /\ op'[g].kind = k /\ ~queued'[g]
    BY <1>0, <1>1, <2>1, <2>2 DEF WaitInv
  <2>5. \A g \in Fibers : queued'[g] => Waits(g)'
    BY <1>1, <2>1, <2>2 DEF WaitInv
  <2>6. ASSUME NEW g \in Fibers, Waits(g)', ~queued'[g]
        PROVE  IF op'[g].call = "sleep"
               THEN /\ first'[g] = tno'[g] /\ timer'[g][tno'[g]].fd = NoFd
                    /\ timer'[g][tno'[g]].state \in {"armed", "queued"}
               ELSE slot'[op'[g].fd][op'[g].kind] = g
    <3>1. Waits(g) /\ ~queued[g] /\ g # f
      BY <1>1, <2>1, <2>6
    <3>2. CASE op[g].call = "sleep"
      BY <1>0, <1>4, <3>1, <3>2
    <3>3. CASE op[g].call # "sleep"
      BY <1>0, <2>1, <3>1, <3>3 DEF WaitInv
    <3> QED BY <3>2, <3>3
  <2>7. ASSUME NEW g \in Fibers, NEW m \in TimerIds,
               timer'[g][m].fd = NoFd, timer'[g][m].state \in {"armed", "queued"}
        PROVE  Waits(g)' /\ op'[g].call = "sleep" /\ ~queued'[g] /\ m = tno'[g]
    <3>1. Waits(g) /\ op[g].call = "sleep" /\ ~queued[g] /\ m = tno[g]
      BY <1>3, <2>7
    <3>2. g # f
      BY <2>2, <2>3, <2>7, <3>1
    <3> QED BY <1>0, <1>1, <2>1, <3>1, <3>2
  <2> QED BY <1>2, <2>4, <2>5, <2>6, <2>7 DEF WaitInv
<1>7. CASE CallbackCancels(f, n) /\ Trigger(timer[f][n].fd, {timer[f][n].kind})
  <2> DEFINE d == timer[f][n].fd  ks == {timer[f][n].kind}
  <2>0. d \in Fds /\ ks \in SUBSET Kinds /\ timer[f][n].state = "marked"
    <3>1. timer[f][n].state = "marked"
      BY <1>7 DEF CallbackCancels
    <3>2. d \in Fds
      BY <3>1 DEF WaitInv, Marked
    <3>3. timer[f][n].kind \in Kinds
      BY DEF TypeOK, Timer
    <3> QED BY <3>1, <3>2, <3>3
  <2>1. Trigger(d, ks)
    BY <1>7
  <2> HIDE DEF d, ks
  <2>2. /\ \A e \in Fds, k \in Kinds, g \in Fibers : slot'[e][k] = g =>
              Waits(g) /\ op[g].call # "sleep" /\ op[g].fd = e /\ op[g].kind = k /\ ~queued'[g]
        /\ \A g \in Fibers : queued'[g] => Waits(g)
        /\ \A g \in Fibers : Waits(g) /\ op[g].call = "sleep" => (queued'[g] <=> queued[g])
        /\ \A g \in Fibers : Waits(g) /\ op[g].call # "sleep" /\ ~queued'[g] =>
              slot'[op[g].fd][op[g].kind] = g
    BY <2>0, <2>1, TriggerWait
  <2>3. \A e \in Fds, k \in Kinds, g \in Fibers : slot'[e][k] = g =>
          Waits(g)' /\ op'[g].call # "sleep" /\ op'[g].fd = e /\ op'[g].kind = k /\ ~queued'[g]
    BY <1>0, <1>1, <2>2
  <2>4. \A g \in Fibers : queued'[g] => Waits(g)'
    BY <1>1, <2>2
  <2>5. ASSUME NEW g \in Fibers, Waits(g)', ~queued'[g]
        PROVE  IF op'[g].call = "sleep"
               THEN /\ first'[g] = tno'[g] /\ timer'[g][tno'[g]].fd = NoFd
                    /\ timer'[g][tno'[g]].state \in {"armed", "queued"}
               ELSE slot'[op'[g].fd][op'[g].kind] = g
    <3>1. Waits(g)
      BY <1>1, <2>5
    <3>2. CASE op[g].call = "sleep"
      <4>1. /\ first[g] = tno[g] /\ timer[g][tno[g]].fd = NoFd
            /\ timer[g][tno[g]].state \in {"armed", "queued"} /\ tno[g] \in TimerIds
        BY <1>4, <2>2, <2>5, <3>1, <3>2
      <4> QED BY <1>0, <2>0, <3>2, <4>1
    <3>3. CASE op[g].call # "sleep"
      BY <1>0, <2>2, <2>5, <3>1, <3>3
    <3> QED BY <3>2, <3>3
  <2>6. \A g \in Fibers, m \in TimerIds :
          timer'[g][m].fd = NoFd /\ timer'[g][m].state \in {"armed", "queued"} =>
             Waits(g)' /\ op'[g].call = "sleep" /\ ~queued'[g] /\ m = tno'[g]
    BY <1>0, <1>1, <1>3, <2>2
  <2> QED BY <1>2, <2>3, <2>4, <2>5, <2>6 DEF WaitInv
<1>8. \/ UNCHANGED <<slot, queued>> /\ (timer[f][n].fd # NoFd \/ timer'[f][n].state = "queued")
      \/ CallbackWakes(f, n)
      \/ CallbackCancels(f, n) /\ Trigger(timer[f][n].fd, {timer[f][n].kind})
  <2>1. CASE Expire(f, n)
    BY <1>0, <2>1 DEF Expire, eventVars
  <2>2. CASE CallbackMarks(f, n)
    BY <2>2 DEF CallbackMarks, eventVars
  <2>3. CASE CallbackCancels(f, n)
    <3>1. timer[f][n].fd # NoFd
      BY <2>3, HookAssumption DEF CallbackCancels, WaitInv, Marked
    <3> QED BY <2>3, <3>1 DEF CallbackCancels, eventVars
  <2> QED BY <2>1, <2>2, <2>3 DEF TimerStep
<1> QED BY <1>5, <1>6, <1>7, <1>8

\* The waiting fibers stay reachable in every step.
LEMMA WaitStep == ASSUME TypeOK, TypeOK', CallInv, WaitInv, Next PROVE WaitInv'
<1>1. ASSUME NEW d \in Fds, NEW k \in Kinds, EventComes(d, k) PROVE WaitInv'
  <2>1. Trigger(d, {k}) /\ {k} \in SUBSET Kinds /\ UNCHANGED <<pc, op, timer, tno, first>>
    BY <1>1 DEF EventComes, timerVars
  <2>2. /\ \A e \in Fds, j \in Kinds, g \in Fibers : slot'[e][j] = g =>
              Waits(g) /\ op[g].call # "sleep" /\ op[g].fd = e /\ op[g].kind = j /\ ~queued'[g]
        /\ \A g \in Fibers : queued'[g] => Waits(g)
        /\ \A g \in Fibers : Waits(g) /\ op[g].call = "sleep" => (queued'[g] <=> queued[g])
        /\ \A g \in Fibers : Waits(g) /\ op[g].call # "sleep" /\ ~queued'[g] =>
              slot'[op[g].fd][op[g].kind] = g
    BY <2>1, TriggerWait
  <2>3. \A g \in Fibers : Waits(g)' <=> Waits(g)
    BY <2>1 DEF Waits
  <2>4. \A g \in Fibers : Waits(g) /\ ~queued'[g] =>
          IF op[g].call = "sleep"
          THEN /\ first[g] = tno[g] /\ timer[g][tno[g]].fd = NoFd
               /\ timer[g][tno[g]].state \in {"armed", "queued"}
          ELSE slot'[op[g].fd][op[g].kind] = g
    BY <2>2 DEF WaitInv
  <2>5. \A g \in Fibers, m \in TimerIds :
          timer[g][m].fd = NoFd /\ timer[g][m].state \in {"armed", "queued"} =>
             Waits(g) /\ op[g].call = "sleep" /\ ~queued'[g] /\ m = tno[g]
    BY <2>2 DEF WaitInv
  <2> QED BY <2>1, <2>2, <2>3, <2>4, <2>5 DEF WaitInv, Marked
<1>2. ASSUME NEW s \in Sockets, KernelConnect(s) PROVE WaitInv'
  BY <1>2 DEF KernelConnect, WaitInv, Waits, Marked, eventVars, timerVars
<1> QED BY <1>1, <1>2, FiberStepWait, NewCallWait, TimerStepWait DEF Next
-----------------------------------------------------------------------------
(* One step: the sockets of calls                                            *)

\* A connection begins once and is decided once, and a socket is never unborn again.
LEMMA ConnMoves ==
    ASSUME TypeOK, Next, NEW s \in Sockets
    PROVE  /\ conn[s] # "unborn" => conn'[s] # "unborn"
           /\ conn[s] \notin {"unborn", "new"} => conn'[s] \notin {"unborn", "new"}
           /\ conn[s] \in {"up", "refused"} => conn'[s] = conn[s]
<1>1. ASSUME NEW f \in Fibers, FiberStep(f) PROVE UNCHANGED conn
  BY <1>1 DEF FiberStep, Resume, GetCreate, FunReturns, FunWouldBlock, ArmTimer, Register,
         RegisterFails, RegisterAborts, YieldToHold, CancelTimer, TestCancelled, SockErr,
         FdManagerDel, CloseF
<1>2. ASSUME NEW f \in Fibers, NewCall(f)
      PROVE  \/ UNCHANGED conn
             \/ \E r \in Sockets : conn[r] = "unborn" /\ \E c \in {"new", "up"} : conn' = [conn EXCEPT ![r] = c]
             \/ \E r \in Sockets, c \in {"up", "refused", "trying"} :
                   conn[r] \in {"new", "trying"} /\ conn' = [conn EXCEPT ![r] = c]
  <2>1. ASSUME NEW d \in Fds, NEW timed \in BOOLEAN, Connect(f, d, timed)
        PROVE  \E r \in Sockets, c \in {"up", "refused", "trying"} :
                   conn[r] \in {"new", "trying"} /\ conn' = [conn EXCEPT ![r] = c]
    <3>1. open[d] \in Sockets /\ conn[open[d]] = "new"
      BY <2>1 DEF Connect, MayUse, TypeOK
    <3>2. PICK c \in {"up", "refused", "trying"} : conn' = [conn EXCEPT ![open[d]] = c]
      BY <2>1 DEF Connect
    <3> QED BY <3>1, <3>2
  <2>2. ASSUME NEW d \in Fds, NEW r \in Sockets, SocketF(f, d, r)
        PROVE  conn[r] = "unborn" /\ \E c \in {"new", "up"} : conn' = [conn EXCEPT ![r] = c]
    BY <2>2 DEF SocketF
  <2>3. CASE ~(\/ \E d \in Fds, timed \in BOOLEAN : Connect(f, d, timed)
               \/ \E d \in Fds, r \in Sockets : SocketF(f, d, r))
    BY <1>2, <2>3 DEF NewCall, SetTimeout, SetUserNonblock, CallRaw, CallIo, Close, Sleep
  <2> QED BY <2>1, <2>2, <2>3
<1>3. ASSUME NEW f \in Fibers, NEW n \in TimerIds, TimerStep(f, n) PROVE UNCHANGED conn
  BY <1>3 DEF TimerStep, Expire, CallbackMarks, CallbackCancels, CallbackWakes
<1>4. ASSUME NEW d \in Fds, NEW k \in Kinds, EventComes(d, k) PROVE UNCHANGED conn
  BY <1>4 DEF EventComes
<1>5. ASSUME NEW r \in Sockets, KernelConnect(r)
      PROVE  conn[r] = "trying" /\ \E c \in {"up", "refused"} : conn' = [conn EXCEPT ![r] = c]
  BY <1>5 DEF KernelConnect
<1>6. \/ UNCHANGED conn
      \/ \E r \in Sockets : conn[r] = "unborn" /\ \E c \in {"new", "up"} : conn' = [conn EXCEPT ![r] = c]
      \/ \E r \in Sockets, c \in {"up", "refused", "trying"} :
                   conn[r] \in {"new", "trying"} /\ conn' = [conn EXCEPT ![r] = c]
  BY <1>1, <1>2, <1>3, <1>4, <1>5 DEF Next
<1> QED BY <1>6 DEF TypeOK

\* The sockets of the calls keep their places in every step.
LEMMA SocketStep ==
    ASSUME TypeOK, TypeOK', CallInv, FdInv, SocketInv, Next PROVE SocketInv'
<1> USE HookAssumption DEF At, Goto, Return, eventVars, timerVars, Talks
<1>0. \A s \in Sockets : /\ conn[s] # "unborn" => conn'[s] # "unborn"
                         /\ conn[s] \notin {"unborn", "new"} => conn'[s] \notin {"unborn", "new"}
  BY ConnMoves
<1>1. ASSUME UNCHANGED op,
             \A g \in Fibers : pc'[g] # "idle" => pc[g] # "idle",
             \A g \in Fibers : pc'[g] = "idle" /\ op[g].call = "close" =>
                \A d \in Fds : open'[d] # op[g].socket
      PROVE  SocketInv'
  <2>1. \A g \in Fibers : op[g].call \notin {"none", "sleep"} =>
          op[g].socket \in Sockets /\ conn'[op[g].socket] # "unborn"
    BY <1>0 DEF SocketInv
  <2>2. \A g \in Fibers : op[g].call = "connect" =>
          op[g].kind = "WRITE" /\ conn'[op[g].socket] # "new"
    BY <1>0 DEF SocketInv
  <2> QED BY <1>1, <2>1, <2>2 DEF SocketInv
<1>2. ASSUME NEW f \in Fibers, FiberStep(f) PROVE SocketInv'
  <2>1. UNCHANGED op
    BY <1>2 DEF FiberStep, Resume, GetCreate, FunReturns, FunWouldBlock, ArmTimer, Register,
         RegisterFails, RegisterAborts, YieldToHold, CancelTimer, TestCancelled, SockErr,
         FdManagerDel, CloseF
  <2>2. \A g \in Fibers : pc'[g] # "idle" => pc[g] # "idle"
    BY <1>2, FiberStepRuns DEF Active, Resume, At
  <2>3. ASSUME NEW g \in Fibers, pc'[g] = "idle", op[g].call = "close", NEW d \in Fds
        PROVE  open'[d] # op[g].socket
    <3>1. op[g].socket # NoSocket
      BY <2>3 DEF SocketInv
    <3>2. CASE CloseF(f)
      <4>1. \A e \in Fds : open'[e] = IF e = op[f].fd THEN NoSocket ELSE open[e]
        BY <3>2 DEF CloseF, TypeOK
      <4>2. CASE g = f
        <5>1. op[f].fd \in Fds /\ open[op[f].fd] # NoSocket /\ op[f].socket = open[op[f].fd]
          BY <3>2 DEF CloseF, CallInv, FdInv
        <5> QED BY <3>1, <4>1, <4>2, <5>1 DEF FdInv
      <4>3. CASE g # f
        <5>1. pc[g] = "idle"
          BY <2>3, <3>2, <4>3 DEF CloseF, TypeOK
        <5> QED BY <2>3, <3>1, <4>1, <5>1 DEF SocketInv
      <4> QED BY <4>2, <4>3
    <3>3. CASE ~CloseF(f)
      <4>1. UNCHANGED open
        BY <1>2, <3>3 DEF FiberStep, Resume, GetCreate, FunReturns, FunWouldBlock, ArmTimer,
         Register, RegisterFails, RegisterAborts, YieldToHold, CancelTimer, TestCancelled, SockErr,
         FdManagerDel
      <4>2. pc[g] = "idle"
        <5>1. CASE g # f
          BY <1>2, <2>3, <5>1, FiberStepRuns
        <5>2. CASE g = f
          <6>1. pc[f] \in {"idle", "del", "closing"}
            BY <2>3, <5>2 DEF CallInv, Waits, TypeOK, FiberPC
          <6> QED BY <1>2, <2>3, <3>3, <5>2, <6>1 DEF FiberStep, Resume, GetCreate, FunReturns,
            FunWouldBlock, ArmTimer, Register, RegisterFails, RegisterAborts, YieldToHold,
            CancelTimer, TestCancelled, SockErr, FdManagerDel, TypeOK
        <5> QED BY <5>1, <5>2
      <4> QED BY <2>3, <4>1, <4>2 DEF SocketInv
    <3> QED BY <3>2, <3>3
  <2> QED BY <1>1, <2>1, <2>2, <2>3
<1>3. ASSUME NEW f \in Fibers, NewCall(f) PROVE SocketInv'
  <2>1. /\ \A g \in Fibers : g # f => op'[g] = op[g] /\ pc'[g] = pc[g]
        /\ pc[f] = "idle"
    BY <1>3 DEF NewCall, SocketF, SetTimeout, SetUserNonblock, CallRaw, CallIo, Connect, Close,
                Sleep, WillWait, Begin, TypeOK
  <2>2. ASSUME op'[f].call \notin {"none", "sleep"} =>
                  op'[f].socket \in Sockets /\ conn'[op'[f].socket] # "unborn",
               op'[f].call = "connect" => op'[f].kind = "WRITE" /\ conn'[op'[f].socket] # "new",
               ~(pc'[f] = "idle" /\ op'[f].call = "close"),
               Talks(f)' => \A g \in Fibers : g # f /\ Talks(g) /\ op[g].socket = op'[f].socket
                                                 => op[g].kind # op'[f].kind,
               \A d \in Fds : open'[d] = open[d] \/ (open'[d] \in Sockets /\ conn[open'[d]] = "unborn")
        PROVE  SocketInv'
    <3>1. \A g \in Fibers : op'[g].call \notin {"none", "sleep"} =>
            op'[g].socket \in Sockets /\ conn'[op'[g].socket] # "unborn"
      BY <1>0, <2>1, <2>2 DEF SocketInv
    <3>2. \A g \in Fibers : op'[g].call = "connect" =>
            op'[g].kind = "WRITE" /\ conn'[op'[g].socket] # "new"
      BY <1>0, <2>1, <2>2 DEF SocketInv
    <3>3. \A g \in Fibers : pc'[g] = "idle" /\ op'[g].call = "close" =>
            \A d \in Fds : open'[d] # op'[g].socket
      BY <2>1, <2>2 DEF SocketInv
    <3>4. ASSUME NEW g \in Fibers, NEW h \in Fibers, Talks(g)', Talks(h)',
                 op'[g].socket = op'[h].socket, op'[g].kind = op'[h].kind
          PROVE  g = h
      <4>1. CASE g # f /\ h # f
        BY <2>1, <3>4, <4>1 DEF SocketInv
      <4>2. CASE g = f \/ h = f
        BY <2>1, <2>2, <3>4, <4>2
      <4> QED BY <4>1, <4>2
    <3> QED BY <3>1, <3>2, <3>3, <3>4 DEF SocketInv
  <2>3. ASSUME NEW d \in Fds, NEW s \in Sockets, SocketF(f, d, s) PROVE SocketInv'
    <3>1. /\ op'[f].call = "socket" /\ op'[f].socket = s /\ conn'[s] # "unborn" /\ conn[s] = "unborn"
          /\ \A e \in Fds : open'[e] = open[e] \/ open'[e] = s
      BY <2>3 DEF SocketF, Begin, TypeOK
    <3> QED BY <2>2, <3>1
  <2>4. ASSUME NEW d \in Fds, NEW k \in IoKinds, SetTimeout(f, d, k) PROVE SocketInv'
    BY <2>4 DEF SetTimeout, SocketInv
  <2>5. ASSUME NEW d \in Fds, NEW flag \in BOOLEAN, SetUserNonblock(f, d, flag) PROVE SocketInv'
    BY <2>5 DEF SetUserNonblock, SocketInv
  <2>6. ASSUME NEW d \in Fds, open[d] # NoSocket PROVE open[d] \in Sockets /\ conn[open[d]] # "unborn"
    BY <2>6 DEF FdInv, TypeOK
  <2>7. ASSUME NEW d \in Fds, NEW k \in IoKinds, CallRaw(f, d, k) PROVE SocketInv'
    <3>1. /\ op'[f].call = "io" /\ op'[f].socket = open[d] /\ open[d] # NoSocket
          /\ UNCHANGED <<open, conn>> /\ pc'[f] = "idle"
      BY <2>7 DEF CallRaw, MayUse, Begin, TypeOK
    <3> QED BY <2>2, <2>6, <3>1
  <2>8. ASSUME NEW d \in Fds, NEW k \in IoKinds, CallIo(f, d, k) PROVE SocketInv'
    <3>1. /\ op'[f].call = "io" /\ op'[f].socket = open[d] /\ open[d] # NoSocket
          /\ UNCHANGED <<open, conn>> /\ op'[f].kind = k
      BY <2>8 DEF CallIo, MayUse, Begin, TypeOK
    <3>2. \A g \in Fibers : Talks(g) /\ op[g].socket = open[d] => op[g].kind # k
      BY <2>8 DEF CallIo, MayUse
    <3> QED BY <2>2, <2>6, <3>1, <3>2
  <2>9. ASSUME NEW d \in Fds, NEW timed \in BOOLEAN, Connect(f, d, timed) PROVE SocketInv'
    <3>1. /\ op'[f].call = "connect" /\ op'[f].socket = open[d] /\ open[d] # NoSocket
          /\ UNCHANGED open /\ op'[f].kind = "WRITE"
      BY <2>9 DEF Connect, MayUse, Begin, TypeOK
    <3>2. \A g \in Fibers : Talks(g) /\ op[g].socket = open[d] => op[g].kind # "WRITE"
      BY <2>9 DEF Connect, MayUse
    <3>3. conn'[open[d]] \in {"up", "refused", "trying"}
      <4>1. PICK c \in {"up", "refused", "trying"} : conn' = [conn EXCEPT ![open[d]] = c]
        BY <2>9 DEF Connect
      <4> QED BY <2>6, <3>1, <4>1 DEF TypeOK
    <3> QED BY <2>2, <2>6, <3>1, <3>2, <3>3
  <2>10. ASSUME NEW d \in Fds, Close(f, d) PROVE SocketInv'
    <3>1. /\ op'[f].call = "close" /\ op'[f].socket = open[d] /\ open[d] # NoSocket
          /\ UNCHANGED <<open, conn>> /\ pc'[f] # "idle"
      BY <2>10 DEF Close, Begin, TypeOK
    <3> QED BY <2>2, <2>6, <3>1
  <2>11. CASE Sleep(f)
    <3>1. op'[f].call = "sleep" /\ UNCHANGED <<open, conn>>
      BY <2>11, SleepChange DEF Sleep
    <3> QED BY <2>2, <3>1
  <2> QED BY <1>3, <2>3, <2>4, <2>5, <2>7, <2>8, <2>9, <2>10, <2>11 DEF NewCall
<1>4. ASSUME NEW f \in Fibers, NEW n \in TimerIds, TimerStep(f, n) PROVE SocketInv'
  <2>1. UNCHANGED <<open, pc, op>>
    BY <1>4 DEF TimerStep, Expire, CallbackMarks, CallbackCancels, CallbackWakes
  <2> QED BY <1>1, <2>1 DEF SocketInv
<1>5. ASSUME NEW d \in Fds, NEW k \in Kinds, EventComes(d, k) PROVE SocketInv'
  <2>1. UNCHANGED <<open, pc, op>>
    BY <1>5 DEF EventComes
  <2> QED BY <1>1, <2>1 DEF SocketInv
<1>6. ASSUME NEW s \in Sockets, KernelConnect(s) PROVE SocketInv'
  <2>1. UNCHANGED <<open, pc, op>>
    BY <1>6 DEF KernelConnect
  <2> QED BY <1>1, <2>1 DEF SocketInv
<1> QED BY <1>2, <1>3, <1>4, <1>5, <1>6 DEF Next
-----------------------------------------------------------------------------
(* One step: connect(), before the first close                               *)

\* A number gets another socket only when it has none, and then a new one.
LEMMA OpenMoves ==
    ASSUME TypeOK, Next, NEW d \in Fds
    PROVE  \/ open'[d] = open[d] \/ open'[d] = NoSocket
           \/ open'[d] \in Sockets /\ conn[open'[d]] = "unborn" /\ open[d] = NoSocket
<1>1. ASSUME NEW f \in Fibers, FiberStep(f) PROVE open'[d] = open[d] \/ open'[d] = NoSocket
  BY <1>1 DEF FiberStep, Resume, GetCreate, FunReturns, FunWouldBlock, ArmTimer, Register,
         RegisterFails, RegisterAborts, YieldToHold, CancelTimer, TestCancelled, SockErr,
         FdManagerDel, CloseF, TypeOK
<1>2. ASSUME NEW f \in Fibers, NewCall(f)
      PROVE  \/ open'[d] = open[d]
             \/ open'[d] \in Sockets /\ conn[open'[d]] = "unborn" /\ open[d] = NoSocket
  BY <1>2 DEF NewCall, SocketF, SetTimeout, SetUserNonblock, CallRaw, CallIo, Connect, Close,
              Sleep, TypeOK
<1>3. ASSUME NEW f \in Fibers, NEW n \in TimerIds, TimerStep(f, n) PROVE UNCHANGED open
  BY <1>3 DEF TimerStep, Expire, CallbackMarks, CallbackCancels, CallbackWakes
<1>4. ASSUME NEW e \in Fds, NEW k \in Kinds, EventComes(e, k) PROVE UNCHANGED open
  BY <1>4 DEF EventComes
<1>5. ASSUME NEW s \in Sockets, KernelConnect(s) PROVE UNCHANGED open
  BY <1>5 DEF KernelConnect
<1> QED BY <1>1, <1>2, <1>3, <1>4, <1>5 DEF Next

\* If no socket has been closed after a step, none had been before it, and it leaves
\* the sockets that are open where they are.
LEMMA NoneClosedStep ==
    ASSUME TypeOK, FdInv, Next, NoneClosed'
    PROVE  /\ NoneClosed
           /\ \A d \in Fds : open[d] # NoSocket => open'[d] = open[d]
<1>1. ASSUME NEW s \in Sockets, conn[s] # "unborn"
      PROVE  \E d \in Fds : open[d] = s /\ open'[d] = s
  <2>1. conn'[s] # "unborn"
    BY <1>1, ConnMoves
  <2>2. PICK d \in Fds : open'[d] = s
    BY <2>1 DEF NoneClosed
  <2>3. open[d] = s
    BY <1>1, <2>2, OpenMoves, HookAssumption
  <2> QED BY <2>2, <2>3
<1>2. ASSUME NEW d \in Fds, open[d] # NoSocket PROVE open'[d] = open[d]
  <2>1. open[d] \in Sockets /\ conn[open[d]] # "unborn"
    BY <1>2 DEF FdInv, TypeOK
  <2>2. PICK e \in Fds : open[e] = open[d] /\ open'[e] = open[d]
    BY <1>1, <2>1
  <2>3. e = d
    BY <1>2, <2>2 DEF FdInv
  <2> QED BY <2>2, <2>3
<1> QED BY <1>1, <1>2 DEF NoneClosed

\* A call changes only when a fiber that is idle makes another one.
LEMMA OpMoves ==
    ASSUME TypeOK, Next, NEW g \in Fibers
    PROVE  op'[g] = op[g] \/ (pc[g] = "idle" /\ NewCall(g))
<1>1. ASSUME NEW f \in Fibers, FiberStep(f) PROVE UNCHANGED op
  BY <1>1 DEF FiberStep, Resume, GetCreate, FunReturns, FunWouldBlock, ArmTimer, Register,
         RegisterFails, RegisterAborts, YieldToHold, CancelTimer, TestCancelled, SockErr,
         FdManagerDel, CloseF
<1>2. ASSUME NEW f \in Fibers, NewCall(f) PROVE pc[f] = "idle" /\ (g # f => op'[g] = op[g])
  BY <1>2 DEF NewCall, SocketF, SetTimeout, SetUserNonblock, CallRaw, CallIo, Connect, Close,
              Sleep, Begin, At, TypeOK
<1>3. ASSUME NEW f \in Fibers, NEW n \in TimerIds, TimerStep(f, n) PROVE UNCHANGED op
  BY <1>3 DEF TimerStep, Expire, CallbackMarks, CallbackCancels, CallbackWakes
<1>4. ASSUME NEW e \in Fds, NEW k \in Kinds, EventComes(e, k) PROVE UNCHANGED op
  BY <1>4 DEF EventComes
<1>5. ASSUME NEW s \in Sockets, KernelConnect(s) PROVE UNCHANGED op
  BY <1>5 DEF KernelConnect
<1> QED BY <1>1, <1>2, <1>3, <1>4, <1>5 DEF Next

\* A connect() that nobody closes the socket of after a step was one before it.
LEMMA ConnectsStep ==
    ASSUME TypeOK, CallInv, SocketInv, FirstUse, Next,
           NEW f \in Fibers, Connects(f)', op'[f] = op[f]
    PROVE  Connects(f)
<1>1. op[f].call = "connect" /\ op[f].fd \in Fds /\ open[op[f].fd] = op[f].socket
  BY DEF Connects, CallInv, FirstUse
<1>2. ASSUME NEW g \in Fibers, op[g].call = "close", op[g].socket = op[f].socket PROVE FALSE
  <2>1. CASE op'[g] = op[g]
    BY <1>2, <2>1 DEF Connects
  <2>2. CASE op'[g] # op[g]
    <3>1. pc[g] = "idle"
      BY <2>2, OpMoves
    <3> QED BY <1>1, <1>2, <3>1 DEF SocketInv
  <2> QED BY <2>1, <2>2
<1> QED BY <1>1, <1>2 DEF Connects
\* epoll goes on knowing every registration, unless a descriptor is closed that has one.
LEMMA WatchedStep ==
    ASSUME TypeOK, CallInv, WaitInv, Next,
           \A d \in Fds, k \in Kinds : slot[d][k] # NoFiber => watched[d],
           \A f \in Fibers : CloseF(f) => \A k \in Kinds : slot[op[f].fd][k] = NoFiber
    PROVE  \A d \in Fds, k \in Kinds : slot'[d][k] # NoFiber => watched'[d]
<1> USE DEF eventVars
<1>1. ASSUME NEW d \in Fds, NEW ks \in SUBSET Kinds, Trigger(d, ks)
      PROVE  \A e \in Fds, k \in Kinds : slot'[e][k] # NoFiber => watched'[e]
  <2>1. /\ \A e \in Fds, k \in Kinds :
              slot'[e][k] = IF e = d /\ k \in ks THEN NoFiber ELSE slot[e][k]
        /\ \A e \in Fds : e # d => watched'[e] = watched[e]
        /\ watched'[d] <=> \E k \in Kinds : slot'[d][k] # NoFiber
    BY <1>1, TriggerChange
  <2> QED BY <2>1
<1>2. ASSUME NEW f \in Fibers, FiberStep(f)
      PROVE  \A d \in Fds, k \in Kinds : slot'[d][k] # NoFiber => watched'[d]
  <2>1. CASE Register(f)
    <3>1. op[f].fd \in Fds /\ op[f].kind \in Kinds
      BY <2>1 DEF Register, At, CallInv, TypeOK, Op
    <3>2. watched'[op[f].fd] /\ \A d \in Fds : d # op[f].fd => watched'[d] = watched[d]
      BY <2>1, <3>1 DEF Register, TypeOK
    <3>3. \A d \in Fds : d # op[f].fd => slot'[d] = slot[d]
      BY <2>1 DEF Register, TypeOK
    <3> QED BY <3>2, <3>3
  <2>2. CASE CloseF(f)
    <3>1. UNCHANGED slot /\ \A d \in Fds : d # op[f].fd => watched'[d] = watched[d]
      BY <2>2 DEF CloseF, TypeOK
    <3> QED BY <2>2, <3>1
  <2>3. CASE ~(Register(f) \/ CloseF(f))
    BY <1>2, <2>3 DEF FiberStep, Resume, GetCreate, FunReturns, FunWouldBlock, ArmTimer,
         RegisterFails, RegisterAborts, YieldToHold, CancelTimer, TestCancelled, SockErr,
         FdManagerDel
  <2> QED BY <2>1, <2>2, <2>3
<1>3. ASSUME NEW f \in Fibers, NewCall(f)
      PROVE  \A d \in Fds, k \in Kinds : slot'[d][k] # NoFiber => watched'[d]
  <2>1. ASSUME NEW d \in Fds, Close(f, d)
        PROVE  Trigger(d, Kinds) \/ UNCHANGED eventVars
    BY <2>1 DEF Close
  <2>2. CASE ~\E d \in Fds : Close(f, d)
    BY <1>3, <2>2 DEF NewCall, SocketF, SetTimeout, SetUserNonblock, CallRaw, CallIo, Connect,
                      Sleep
  <2> QED BY <1>1, <2>1, <2>2
<1>4. ASSUME NEW f \in Fibers, NEW n \in TimerIds, TimerStep(f, n)
      PROVE  \A d \in Fds, k \in Kinds : slot'[d][k] # NoFiber => watched'[d]
  <2>1. CASE CallbackCancels(f, n)
    <3>1. timer[f][n].fd \in Fds /\ {timer[f][n].kind} \in SUBSET Kinds
      BY <2>1 DEF CallbackCancels, WaitInv, Marked, TypeOK, Timer
    <3> QED BY <1>1, <2>1, <3>1 DEF CallbackCancels
  <2>2. CASE ~CallbackCancels(f, n)
    BY <1>4, <2>2 DEF TimerStep, Expire, CallbackMarks, CallbackWakes
  <2> QED BY <2>1, <2>2
<1>5. ASSUME NEW d \in Fds, NEW k \in Kinds, EventComes(d, k)
      PROVE  \A e \in Fds, j \in Kinds : slot'[e][j] # NoFiber => watched'[e]
  BY <1>1, <1>5 DEF EventComes
<1>6. ASSUME NEW s \in Sockets, KernelConnect(s)
      PROVE  \A d \in Fds, k \in Kinds : slot'[d][k] # NoFiber => watched'[d]
  BY <1>6 DEF KernelConnect
<1> QED BY <1>2, <1>3, <1>4, <1>5, <1>6 DEF Next

\* A timer keeps its descriptor and event; a new one has those of its call, or none.
LEMMA TimerMoves ==
    ASSUME TypeOK, CallInv, Next, NEW g \in Fibers, NEW m \in TimerIds
    PROVE  \/ timer'[g][m].fd = timer[g][m].fd /\ timer'[g][m].kind = timer[g][m].kind
           \/ timer'[g][m].fd = NoFd
           \/ /\ ArmTimer(g) /\ m = tno[g] + 1
              /\ timer'[g][m].fd = op[g].fd /\ timer'[g][m].kind = op[g].kind
<1> DEFINE Q == \/ timer'[g][m].fd = timer[g][m].fd /\ timer'[g][m].kind = timer[g][m].kind
                \/ timer'[g][m].fd = NoFd
                \/ /\ ArmTimer(g) /\ m = tno[g] + 1
                   /\ timer'[g][m].fd = op[g].fd /\ timer'[g][m].kind = op[g].kind
<1> USE DEF timerVars
<1>1. ASSUME NEW f \in Fibers, FiberStep(f) PROVE Q
  <2>1. CASE ArmTimer(f)
    <3>1. \A h \in Fibers, j \in TimerIds :
             IF h = f /\ j = tno[f] + 1
             THEN timer'[h][j].fd = op[f].fd /\ timer'[h][j].kind = op[f].kind
             ELSE timer'[h][j] = timer[h][j]
      BY <2>1, ArmChange
    <3>2. CASE g = f /\ m = tno[f] + 1
      BY <2>1, <3>1, <3>2
    <3>3. CASE ~(g = f /\ m = tno[f] + 1)
      BY <3>1, <3>3
    <3> QED BY <3>2, <3>3
  <2>2. CASE RegisterFails(f) \/ CancelTimer(f)
    <3>1. StopTimer(f)
      BY <2>2 DEF RegisterFails, CancelTimer
    <3> QED BY <3>1, StopChange
  <2>3. CASE ~(ArmTimer(f) \/ RegisterFails(f) \/ CancelTimer(f))
    <3>1. UNCHANGED timer
      BY <1>1, <2>3 DEF FiberStep, Resume, GetCreate, FunReturns, FunWouldBlock, Register,
             RegisterAborts, YieldToHold, TestCancelled, SockErr, FdManagerDel, CloseF
    <3> QED BY <3>1
  <2> QED BY <2>1, <2>2, <2>3
<1>2. ASSUME NEW f \in Fibers, NewCall(f) PROVE Q
  <2>1. CASE Sleep(f)
    <3>1. \A h \in Fibers, j \in TimerIds :
             timer'[h][j].fd = NoFd \/ timer'[h][j] = timer[h][j]
      BY <2>1, SleepChange
    <3> QED BY <3>1
  <2>2. CASE ~Sleep(f)
    <3>1. UNCHANGED timer
      BY <1>2, <2>2 DEF NewCall, SocketF, SetTimeout, SetUserNonblock, CallRaw, CallIo, Connect, Close
    <3> QED BY <3>1
  <2> QED BY <2>1, <2>2
<1>3. ASSUME NEW f \in Fibers, NEW n \in TimerIds, TimerStep(f, n) PROVE Q
  BY <1>3, TimerStepCancel
<1>4. ASSUME NEW d \in Fds, NEW k \in Kinds, EventComes(d, k) PROVE Q
  BY <1>4 DEF EventComes
<1>5. ASSUME NEW s \in Sockets, KernelConnect(s) PROVE Q
  BY <1>5 DEF KernelConnect
<1> QED BY <1>1, <1>2, <1>3, <1>4, <1>5 DEF Next

\* FirstUse holds after a step that closes no socket.
LEMMA FirstUseStep ==
    ASSUME TypeOK, TypeOK', CallInv, CallInv', FdInv, WaitInv, SocketInv, SocketInv', FirstUse,
           Next, NoneClosed'
    PROVE  FirstUse'
<1> USE HookAssumption DEF At, Goto, Return, Begin, eventVars, timerVars
<1>0. \A d \in Fds : open[d] # NoSocket => open'[d] = open[d]
  BY NoneClosedStep
<1>1. ASSUME NEW g \in Fibers, op'[g].call \notin {"none", "sleep"}
      PROVE  op'[g].socket = open'[op'[g].fd]
  <2>1. CASE op'[g] = op[g]
    <3>1. op[g].fd \in Fds /\ op[g].socket = open[op[g].fd] /\ op[g].socket # NoSocket
      BY <1>1, <2>1 DEF CallInv, SocketInv, FirstUse
    <3> QED BY <1>0, <2>1, <3>1
  <2>2. CASE NewCall(g) /\ op'[g] # op[g]
    <3>1. ASSUME NEW d \in Fds, NEW s \in Sockets, SocketF(g, d, s)
          PROVE  op'[g].fd = d /\ op'[g].socket = s /\ open'[d] = s
      BY <3>1 DEF SocketF, TypeOK
    <3>2. ASSUME NEW d \in Fds, NEW k \in IoKinds, CallRaw(g, d, k) \/ CallIo(g, d, k)
          PROVE  op'[g].fd = d /\ op'[g].socket = open[d] /\ UNCHANGED open
      BY <3>2 DEF CallRaw, CallIo, TypeOK
    <3>3. ASSUME NEW d \in Fds, NEW timed \in BOOLEAN, Connect(g, d, timed)
          PROVE  op'[g].fd = d /\ op'[g].socket = open[d] /\ UNCHANGED open
      BY <3>3 DEF Connect, TypeOK
    <3>4. ASSUME NEW d \in Fds, Close(g, d)
          PROVE  op'[g].fd = d /\ op'[g].socket = open[d] /\ UNCHANGED open
      BY <3>4 DEF Close, TypeOK
    <3>5. ~Sleep(g)
      BY <1>1, SleepChange
    <3>6. ASSUME NEW d \in Fds, \/ \E k \in IoKinds : SetTimeout(g, d, k)
                                \/ \E flag \in BOOLEAN : SetUserNonblock(g, d, flag)
          PROVE  FALSE
      BY <2>2, <3>6 DEF SetTimeout, SetUserNonblock
    <3> QED BY <2>2, <3>1, <3>2, <3>3, <3>4, <3>5, <3>6 DEF NewCall
  <2> QED BY <2>1, <2>2, OpMoves
<1>2. \A d \in Fds, k \in Kinds : slot'[d][k] # NoFiber => watched'[d]
  <2>1. ASSUME NEW f \in Fibers, CloseF(f) PROVE FALSE
    <3>1. op[f].fd \in Fds /\ open[op[f].fd] # NoSocket
      BY <2>1 DEF CloseF, CallInv, FdInv
    <3>2. open'[op[f].fd] = NoSocket
      BY <2>1, <3>1 DEF CloseF, TypeOK
    <3> QED BY <1>0, <3>1, <3>2
  <2>2. \A f \in Fibers : CloseF(f) => \A k \in Kinds : slot[op[f].fd][k] = NoFiber
    BY <2>1
  <2>3. \A d \in Fds, k \in Kinds : slot[d][k] # NoFiber => watched[d]
    BY DEF FirstUse
  <2> QED BY <2>2, <2>3, WatchedStep
<1>3. ASSUME NEW g \in Fibers, pc'[g] = "arm" PROVE conn'[op'[g].socket] # "new"
  <2>0. op'[g].socket \in Sockets
    BY <1>3 DEF CallInv, SocketInv
  <2>1. CASE pc[g] = "arm"
    <3>1. op'[g] = op[g] /\ conn[op[g].socket] \notin {"unborn", "new"}
      BY <2>1, OpMoves DEF FirstUse, SocketInv, CallInv
    <3> QED BY <2>0, <3>1, ConnMoves
  <2>2. CASE pc[g] # "arm"
    <3>1. ASSUME NEW f \in Fibers, FiberStep(f) PROVE FunWouldBlock(g)
      BY <1>3, <2>2, <3>1 DEF FiberStep, Resume, GetCreate, FunReturns, ArmTimer, Register,
         RegisterFails, RegisterAborts, YieldToHold, CancelTimer, TestCancelled, SockErr,
         FdManagerDel, CloseF, FunWouldBlock, WillWait, TypeOK
    <3>2. ASSUME NEW f \in Fibers, NewCall(f)
          PROVE  \E d \in Fds, timed \in BOOLEAN : Connect(g, d, timed)
      <4>1. ASSUME g # f PROVE pc'[g] = pc[g]
        BY <3>2, <4>1 DEF NewCall, SocketF, SetTimeout, SetUserNonblock, CallRaw, CallIo, Connect,
           Close, Sleep, WillWait, TypeOK
      <4>2. g = f
        BY <1>3, <2>2, <4>1
      <4> QED BY <1>3, <2>2, <3>2, <4>2 DEF NewCall, SocketF, SetTimeout, SetUserNonblock, CallRaw,
           CallIo, Close, Sleep, TypeOK
    <3>3. ~\E f \in Fibers, n \in TimerIds : TimerStep(f, n)
      <4>1. ASSUME NEW f \in Fibers, NEW n \in TimerIds, TimerStep(f, n) PROVE pc' = pc
        BY <4>1 DEF TimerStep, Expire, CallbackMarks, CallbackCancels, CallbackWakes
      <4> QED BY <1>3, <2>2, <4>1
    <3>4. ~\E d \in Fds, k \in Kinds : EventComes(d, k)
      BY <1>3, <2>2 DEF EventComes
    <3>5. ~\E s \in Sockets : KernelConnect(s)
      BY <1>3, <2>2 DEF KernelConnect
    <3>6. CASE FunWouldBlock(g)
      <4>1. /\ pc[g] = "try" /\ open[op[g].fd] # NoSocket /\ conn[open[op[g].fd]] # "new"
            /\ UNCHANGED <<op, conn>>
        BY <3>6 DEF FunWouldBlock
      <4>2. op[g].socket = open[op[g].fd]
        BY <4>1 DEF CallInv, FirstUse
      <4> QED BY <4>1, <4>2
    <3>7. ASSUME NEW d \in Fds, NEW timed \in BOOLEAN, Connect(g, d, timed)
          PROVE  conn'[op'[g].socket] # "new"
      <4>1. op'[g].socket = open[d]
        BY <3>7 DEF Connect, TypeOK
      <4>2. PICK c \in {"up", "refused", "trying"} : conn' = [conn EXCEPT ![open[d]] = c]
        BY <3>7 DEF Connect
      <4> QED BY <2>0, <4>1, <4>2 DEF TypeOK
    <3> QED BY <3>1, <3>2, <3>3, <3>4, <3>5, <3>6, <3>7 DEF Next
  <2> QED BY <2>1, <2>2
<1>4. ASSUME NEW g \in Fibers, NEW m \in TimerIds, timer'[g][m].fd \in Fds
      PROVE  /\ open'[timer'[g][m].fd] # NoSocket /\ conn'[open'[timer'[g][m].fd]] # "new"
  <2> DEFINE d == timer'[g][m].fd
  <2>1. open[d] # NoSocket /\ conn[open[d]] # "new"
    <3>1. CASE timer'[g][m].fd = timer[g][m].fd
      BY <1>4, <3>1 DEF FirstUse
    <3>2. CASE ArmTimer(g) /\ d = op[g].fd
      <4>1. op[g].socket = open[d] /\ op[g].socket # NoSocket /\ conn[op[g].socket] # "new"
        BY <3>2 DEF ArmTimer, CallInv, FirstUse, SocketInv
      <4> QED BY <4>1
    <3> QED BY <1>4, <3>1, <3>2, TimerMoves
  <2>2. open[d] \in Sockets /\ conn[open[d]] \notin {"unborn", "new"} /\ open'[d] = open[d]
    BY <1>0, <1>4, <2>1 DEF FdInv, TypeOK
  <2>3. conn'[open[d]] \notin {"unborn", "new"}
    BY <2>2, ConnMoves
  <2> QED BY <2>1, <2>2, <2>3
<1>5. ASSUME NEW f \in Fibers, NEW g \in Fibers, NEW m \in TimerIds,
             op'[f].call = "connect", pc'[f] # "idle",
             timer'[g][m].fd = op'[f].fd, timer'[g][m].kind = "WRITE"
      PROVE  g = f /\ m >= first'[f]
  <2>0. op'[f].fd \in Fds
    BY <1>5 DEF CallInv
  <2>1. CASE \E d \in Fds, timed \in BOOLEAN : Connect(f, d, timed)
    <3>1. PICK d \in Fds, timed \in BOOLEAN : Connect(f, d, timed)
      BY <2>1
    <3>2. op'[f].fd = d /\ conn[open[d]] = "new" /\ UNCHANGED timer
      BY <3>1 DEF Connect, TypeOK
    <3> QED BY <1>5, <3>2 DEF FirstUse
  <2>2. CASE ~\E d \in Fds, timed \in BOOLEAN : Connect(f, d, timed)
    <3>1. op'[f] = op[f] /\ pc[f] # "idle" /\ first'[f] = first[f]
      <4>1. ASSUME NEW h \in Fibers, FiberStep(h)
            PROVE  op' = op /\ pc[f] # "idle" /\ first' = first
        BY <1>5, <4>1 DEF FiberStep, Resume, GetCreate, FunReturns, FunWouldBlock, WillWait,
            ArmTimer, Register, RegisterFails, RegisterAborts, YieldToHold, CancelTimer,
            TestCancelled, SockErr, FdManagerDel, CloseF, TypeOK
      <4>2. ASSUME NEW h \in Fibers, NewCall(h), h # f
            PROVE  op'[f] = op[f] /\ pc'[f] = pc[f] /\ first'[f] = first[f]
        BY <4>2 DEF NewCall, SocketF, SetTimeout, SetUserNonblock, CallRaw, CallIo, Connect,
           Close, Sleep, WillWait, TypeOK
      <4>3. ASSUME NewCall(f) PROVE FALSE
        <5>1. ~Sleep(f)
          BY <1>5, SleepChange
        <5> QED BY <1>5, <2>2, <4>3, <5>1 DEF NewCall, SocketF, SetTimeout, SetUserNonblock, CallRaw,
           CallIo, Close, TypeOK
      <4>4. ASSUME NEW h \in Fibers, NEW n \in TimerIds, TimerStep(h, n)
            PROVE  UNCHANGED <<op, pc, first>>
        BY <4>4 DEF TimerStep, Expire, CallbackMarks, CallbackCancels, CallbackWakes
      <4>5. ASSUME NEW d \in Fds, NEW k \in Kinds, EventComes(d, k) PROVE UNCHANGED <<op, pc, first>>
        BY <4>5 DEF EventComes
      <4>6. ASSUME NEW s \in Sockets, KernelConnect(s) PROVE UNCHANGED <<op, pc, first>>
        BY <4>6 DEF KernelConnect
      <4> QED BY <1>5, <4>1, <4>2, <4>3, <4>4, <4>5, <4>6 DEF Next
    <3>2. CASE timer'[g][m].fd = timer[g][m].fd /\ timer'[g][m].kind = timer[g][m].kind
      BY <1>5, <3>1, <3>2 DEF FirstUse
    <3>3. CASE /\ ArmTimer(g) /\ m = tno[g] + 1
               /\ timer'[g][m].fd = op[g].fd /\ timer'[g][m].kind = op[g].kind
      <4>1. /\ op[g].call \in {"io", "connect"} /\ pc[g] # "idle"
            /\ op[g].kind = "WRITE" /\ op[g].fd = op[f].fd
        BY <1>5, <3>1, <3>3 DEF ArmTimer, CallInv
      <4>2. op[f].kind = "WRITE" /\ op[f].socket = op[g].socket
        BY <1>5, <3>1, <4>1 DEF FirstUse, SocketInv
      <4>3. g = f
        BY <1>5, <3>1, <4>1, <4>2 DEF SocketInv, Talks
      <4>4. first[f] <= tno[f] + 1 /\ first[f] \in Int /\ tno[f] \in Int
        BY DEF CallInv, TypeOK
      <4> QED BY <3>1, <3>3, <4>3, <4>4
    <3> QED BY <1>5, <2>0, <3>2, <3>3, TimerMoves
  <2> QED BY <2>1, <2>2
<1> QED BY <1>1, <1>2, <1>3, <1>4, <1>5 DEF FirstUse
\* A fiber is queued by the idle loop, the callback of a timer, close() or, if it
\* sleeps, its own timer.
LEMMA QueueMoves ==
    ASSUME TypeOK, Next, NEW f \in Fibers, ~queued[f], queued'[f]
    PROVE  \/ \E d \in Fds, k \in Kinds : EventComes(d, k) /\ slot[d][k] = f
           \/ \E g \in Fibers, n \in TimerIds :
                 CallbackCancels(g, n) /\ slot[timer[g][n].fd][timer[g][n].kind] = f
           \/ \E g \in Fibers, d \in Fds, k \in Kinds : Close(g, d) /\ slot[d][k] = f
           \/ \E n \in TimerIds : CallbackWakes(f, n)
<1> USE DEF eventVars
<1>1. ASSUME NEW g \in Fibers, FiberStep(g) PROVE FALSE
  BY <1>1 DEF FiberStep, Resume, GetCreate, FunReturns, FunWouldBlock, ArmTimer, Register,
         RegisterFails, RegisterAborts, YieldToHold, CancelTimer, TestCancelled, SockErr,
         FdManagerDel, CloseF, TypeOK
<1>2. ASSUME NEW g \in Fibers, NewCall(g)
      PROVE  \E d \in Fds, k \in Kinds : Close(g, d) /\ slot[d][k] = f
  <2>1. PICK d \in Fds : Close(g, d) /\ queued' # queued
    BY <1>2 DEF NewCall, SocketF, SetTimeout, SetUserNonblock, CallRaw, CallIo, Connect, Sleep
  <2>2. Trigger(d, Kinds)
    BY <2>1 DEF Close
  <2>3. \E k \in Kinds : slot[d][k] = f
    BY <2>2 DEF Trigger
  <2> QED BY <2>1, <2>3
<1>3. ASSUME NEW g \in Fibers, NEW n \in TimerIds, TimerStep(g, n)
      PROVE  \/ CallbackCancels(g, n) /\ slot[timer[g][n].fd][timer[g][n].kind] = f
             \/ g = f /\ CallbackWakes(g, n)
  <2>1. CASE CallbackCancels(g, n)
    <3>1. Trigger(timer[g][n].fd, {timer[g][n].kind})
      BY <2>1 DEF CallbackCancels
    <3> QED BY <2>1, <3>1 DEF Trigger
  <2>2. CASE CallbackWakes(g, n)
    BY <2>2 DEF CallbackWakes, TypeOK
  <2>3. CASE Expire(g, n) \/ CallbackMarks(g, n)
    BY <2>3 DEF Expire, CallbackMarks
  <2> QED BY <1>3, <2>1, <2>2, <2>3 DEF TimerStep
<1>4. ASSUME NEW d \in Fds, NEW k \in Kinds, EventComes(d, k) PROVE slot[d][k] = f
  BY <1>4 DEF EventComes, Trigger
<1>5. ASSUME NEW s \in Sockets, KernelConnect(s) PROVE FALSE
  BY <1>5 DEF KernelConnect
<1> QED BY <1>1, <1>2, <1>3, <1>4, <1>5 DEF Next

\* The place and the result of a fiber change by its own steps, cancelled is unset only
\* by a call that begins.
LEMMA OwnMoves ==
    ASSUME TypeOK, Next, NEW f \in Fibers
    PROVE  \/ FiberStep(f) \/ NewCall(f)
           \/ pc'[f] = pc[f] /\ op'[f] = op[f] /\ result'[f] = result[f] /\ (cancelled[f] => cancelled'[f])
<1>1. ASSUME NEW g \in Fibers, g # f, FiberStep(g)
      PROVE  pc'[f] = pc[f] /\ op'[f] = op[f] /\ result'[f] = result[f] /\ (cancelled[f] => cancelled'[f])
  BY <1>1 DEF FiberStep, Resume, GetCreate, FunReturns, FunWouldBlock, WillWait, ArmTimer, Register,
         RegisterFails, RegisterAborts, YieldToHold, CancelTimer, TestCancelled, SockErr,
         FdManagerDel, CloseF, Goto, Return, TypeOK
<1>2. ASSUME NEW g \in Fibers, g # f, NewCall(g)
      PROVE  pc'[f] = pc[f] /\ op'[f] = op[f] /\ result'[f] = result[f] /\ (cancelled[f] => cancelled'[f])
  BY <1>2 DEF NewCall, SocketF, SetTimeout, SetUserNonblock, CallRaw, CallIo, Connect, Close,
              Sleep, WillWait, Goto, Return, Begin, TypeOK
<1>3. ASSUME NEW g \in Fibers, NEW n \in TimerIds, TimerStep(g, n)
      PROVE  pc'[f] = pc[f] /\ op'[f] = op[f] /\ result'[f] = result[f] /\ (cancelled[f] => cancelled'[f])
  BY <1>3 DEF TimerStep, Expire, CallbackMarks, CallbackCancels, CallbackWakes, TypeOK
<1>4. ASSUME NEW d \in Fds, NEW k \in Kinds, EventComes(d, k)
      PROVE  UNCHANGED <<pc, op, result, cancelled>>
  BY <1>4 DEF EventComes
<1>5. ASSUME NEW s \in Sockets, KernelConnect(s) PROVE UNCHANGED <<pc, op, result, cancelled>>
  BY <1>5 DEF KernelConnect
<1> QED BY <1>1, <1>2, <1>3, <1>4, <1>5 DEF Next

\* Verdict holds after a step that closes no socket.
LEMMA VerdictStep ==
    ASSUME TypeOK, TypeOK', CallInv, CancelInv, FdInv, WaitInv, SocketInv, FirstUse,
           Verdict, Next, NoneClosed'
    PROVE  Verdict'
<1> USE HookAssumption DEF At, Goto, Return, Begin, eventVars, timerVars
<1> SUFFICES ASSUME NEW f \in Fibers, Connects(f)'
             PROVE  /\ queued'[f] \/ pc'[f] \in {"resumed", "test"} =>
                          cancelled'[f] \/ conn'[op'[f].socket] # "trying"
                    /\ pc'[f] = "sockerr" => conn'[op'[f].socket] # "trying"
                    /\ pc'[f] = "idle" /\ result'[f] = "ok" => conn'[op'[f].socket] = "up"
  BY DEF Verdict
<1>1. CASE \E d \in Fds, timed \in BOOLEAN : Connect(f, d, timed)
  <2>1. PICK d \in Fds, timed \in BOOLEAN : Connect(f, d, timed)
    BY <1>1
  <2>2. open[d] \in Sockets /\ op'[f].socket = open[d] /\ pc[f] = "idle" /\ UNCHANGED queued
    BY <2>1 DEF Connect, MayUse, TypeOK
  <2>3. ~queued[f]
    BY <2>2 DEF WaitInv, Waits
  <2>4. pc'[f] \in {"idle", "arm", "register"}
    BY <2>1 DEF Connect, WillWait, TypeOK
  <2>5. result'[f] = "ok" => conn'[open[d]] = "up"
    BY <2>1, <2>2 DEF Connect, TypeOK
  <2> QED BY <2>2, <2>3, <2>4, <2>5
<1>2. CASE ~\E d \in Fds, timed \in BOOLEAN : Connect(f, d, timed)
  <2> DEFINE s == op[f].socket
  <2>1. ASSUME NewCall(f) PROVE UNCHANGED <<op, pc, result, cancelled>>
    <3>1. op'[f].call = "connect"
      BY DEF Connects
    <3>2. ~Sleep(f)
      BY <3>1, SleepChange
    <3>3. ASSUME NEW d \in Fds, \/ \E r \in Sockets : SocketF(f, d, r)
                                \/ \E k \in IoKinds : CallRaw(f, d, k) \/ CallIo(f, d, k)
                                \/ Close(f, d)
          PROVE  FALSE
      BY <3>1, <3>3 DEF SocketF, CallRaw, CallIo, Close, TypeOK
    <3>4. ASSUME NEW d \in Fds, \/ \E k \in IoKinds : SetTimeout(f, d, k)
                                \/ \E flag \in BOOLEAN : SetUserNonblock(f, d, flag)
          PROVE  UNCHANGED <<op, pc, result, cancelled>>
      BY <3>4 DEF SetTimeout, SetUserNonblock
    <3> QED BY <1>2, <2>1, <3>2, <3>3, <3>4 DEF NewCall
  <2>2. \/ FiberStep(f)
        \/ pc'[f] = pc[f] /\ op'[f] = op[f] /\ result'[f] = result[f] /\ (cancelled[f] => cancelled'[f])
    BY <2>1, OwnMoves
  <2>3. op'[f] = op[f] /\ (cancelled[f] => cancelled'[f])
    BY <2>2, FiberStepCancel, OpMoves, <2>1
  <2>4. Connects(f)
    BY <2>3, ConnectsStep
  <2>5. /\ op[f].call = "connect" /\ op[f].fd \in Fds /\ open[op[f].fd] = s /\ s \in Sockets
        /\ op[f].kind = "WRITE" /\ conn[s] \notin {"unborn", "new"}
    BY <2>4 DEF Connects, CallInv, SocketInv
  <2>6. conn[s] # "trying" => conn'[s] = conn[s]
    BY <2>5, ConnMoves DEF TypeOK
  <2>7. ASSUME queued'[f] PROVE cancelled'[f] \/ conn'[s] # "trying"
    <3>1. CASE queued[f]
      BY <2>3, <2>4, <2>6, <3>1 DEF Verdict
    <3>2. ASSUME NEW d \in Fds, NEW k \in Kinds, EventComes(d, k), slot[d][k] = f
          PROVE  conn[s] # "trying"
      <4>1. op[f].fd = d /\ op[f].kind = k
        BY <3>2, SlotHolder
      <4> QED BY <2>5, <3>2, <4>1 DEF EventComes
    <3>3. ASSUME NEW g \in Fibers, NEW n \in TimerIds, CallbackCancels(g, n),
                 slot[timer[g][n].fd][timer[g][n].kind] = f
          PROVE  cancelled[f]
      <4>1. timer[g][n].fd \in Fds /\ timer[g][n].kind \in Kinds /\ Marked(g, n)
        BY <3>3 DEF CallbackCancels, WaitInv, Marked, TypeOK, Timer
      <4>2. Waits(f) /\ op[f].fd = timer[g][n].fd /\ op[f].kind = timer[g][n].kind
        BY <3>3, <4>1, SlotHolder
      <4>3. pc[f] # "idle"
        BY <4>2 DEF Waits
      <4>4. g = f /\ n >= first[f]
        BY <2>5, <4>2, <4>3 DEF FirstUse
      <4> QED BY <4>1, <4>3, <4>4 DEF CancelInv
    <3>4. ASSUME NEW g \in Fibers, NEW d \in Fds, NEW k \in Kinds, Close(g, d), slot[d][k] = f
          PROVE  FALSE
      <4>1. op[f].fd = d
        BY <3>4, SlotHolder
      <4>2. op'[g].call = "close" /\ op'[g].socket = open[d]
        BY <3>4 DEF Close, TypeOK
      <4> QED BY <2>3, <2>5, <4>1, <4>2 DEF Connects
    <3>5. ASSUME NEW n \in TimerIds, CallbackWakes(f, n) PROVE FALSE
      <4>1. timer[f][n].fd = NoFd /\ timer[f][n].state \in {"armed", "queued"}
        BY <3>5 DEF CallbackWakes
      <4>2. op[f].call = "sleep"
        BY <4>1 DEF WaitInv
      <4> QED BY <2>5, <4>2
    <3> QED BY <2>3, <2>6, <2>7, <3>1, <3>2, <3>3, <3>4, <3>5, QueueMoves
  <2>8. ASSUME pc'[f] \in {"resumed", "test"} PROVE cancelled'[f] \/ conn'[s] # "trying"
    <3>1. queued[f] \/ pc[f] \in {"resumed", "test"}
      <4>1. CASE FiberStep(f)
        BY <2>8, <4>1 DEF FiberStep, Resume, GetCreate, FunReturns, FunWouldBlock, WillWait,
            ArmTimer, Register, RegisterFails, RegisterAborts, YieldToHold, CancelTimer,
            TestCancelled, SockErr, FdManagerDel, CloseF, TypeOK
      <4> QED BY <2>2, <2>8, <4>1
    <3> QED BY <2>3, <2>4, <2>6, <3>1 DEF Verdict
  <2>9. ASSUME pc'[f] = "sockerr" PROVE conn'[s] # "trying"
    <3>1. CASE RegisterFails(f)
      <4>1. CtlFails(op[f].fd)
        BY <3>1 DEF RegisterFails
      <4> QED BY <2>5, <4>1 DEF CtlFails, FirstUse
    <3>2. CASE TestCancelled(f)
      <4>1. pc[f] = "test" /\ ~cancelled[f]
        BY <2>9, <3>2 DEF TestCancelled, TypeOK
      <4> QED BY <2>4, <2>6, <4>1 DEF Verdict
    <3>3. CASE FiberStep(f) /\ ~(RegisterFails(f) \/ TestCancelled(f))
      <4>1. pc[f] = "sockerr"
        BY <2>9, <3>3 DEF FiberStep, Resume, GetCreate, FunReturns, FunWouldBlock, WillWait,
            ArmTimer, Register, RegisterAborts, YieldToHold, CancelTimer,
            SockErr, FdManagerDel, CloseF, TypeOK
      <4> QED BY <2>4, <2>6, <4>1 DEF Verdict
    <3>4. CASE pc'[f] = pc[f]
      BY <2>4, <2>6, <2>9, <3>4 DEF Verdict
    <3> QED BY <2>2, <3>1, <3>2, <3>3, <3>4
  <2>10. ASSUME pc'[f] = "idle", result'[f] = "ok" PROVE conn'[s] = "up"
    <3>1. CASE SockErr(f)
      <4>1. pc[f] = "sockerr" /\ conn[s] # "refused"
        BY <2>5, <2>10, <3>1 DEF SockErr, TypeOK
      <4>2. conn[s] # "trying"
        BY <2>4, <4>1 DEF Verdict
      <4>3. conn[s] = "up"
        BY <2>5, <4>1, <4>2 DEF TypeOK
      <4> QED BY <2>6, <4>3
    <3>2. CASE FiberStep(f) /\ ~SockErr(f)
      <4>1. pc[f] \notin {"try", "newfd", "closing", "del"}
        BY <2>5 DEF CallInv
      <4>2. pc[f] = "idle" /\ result[f] = "ok"
        BY <2>5, <2>10, <3>2, <4>1 DEF FiberStep, Resume, GetCreate, FunReturns, FunWouldBlock,
            WillWait, ArmTimer, Register, RegisterFails, RegisterAborts, YieldToHold, CancelTimer,
            TestCancelled, FdManagerDel, CloseF, TypeOK
      <4> QED BY <2>4, <2>6, <4>2 DEF Verdict
    <3>3. CASE pc'[f] = pc[f] /\ result'[f] = result[f]
      BY <2>4, <2>6, <2>10, <3>3 DEF Verdict
    <3> QED BY <2>2, <3>1, <3>2, <3>3
  <2> QED BY <2>3, <2>7, <2>8, <2>9, <2>10
<1> QED BY <1>1, <1>2
-----------------------------------------------------------------------------
(* Any number of threads                                                     *)

\* The invariant holds in the initial state ...
LEMMA InitHook == Init => HookInv
<1> SUFFICES ASSUME Init PROVE HookInv
  OBVIOUS
<1> USE HookAssumption DEF Init
<1>1. TypeOK
  <2>1. NoOp \in Op /\ NoTimer \in Timer /\ "idle" \in FiberPC
    BY DEF NoOp, Op, NoTimer, Timer, TimerState, FiberPC, Kinds
  <2>2. 0 \in 0 .. MaxTimers /\ 1 \in 1 .. MaxTimers + 1
    OBVIOUS
  <2>3. timer \in [Fibers -> [TimerIds -> Timer]] /\ op \in [Fibers -> Op]
    BY <2>1
  <2>4. tno \in [Fibers -> 0 .. MaxTimers] /\ first \in [Fibers -> 1 .. MaxTimers + 1]
    BY <2>2
  <2>5. pc \in [Fibers -> FiberPC]
    BY <2>1
  <2>6. slot \in [Fds -> [Kinds -> Fibers \cup {NoFiber}]]
    OBVIOUS
  <2> QED BY <2>3, <2>4, <2>5, <2>6 DEF TypeOK
<1>2. CallInv
  BY DEF CallInv, NoOp, NoTimer, Waits
<1>3. CancelInv
  BY DEF CancelInv, NoTimer, Marked
<1>4. FdInv
  BY DEF FdInv, FdCtxFresh
<1>5. WaitInv
  BY DEF WaitInv, NoOp, NoTimer, Waits, Marked
<1>6. SocketInv
  BY DEF SocketInv, NoOp, Talks
<1>7. FirstUse
  BY DEF FirstUse, NoOp, NoTimer
<1>8. Verdict
  BY DEF Verdict, Connects, NoOp
<1> QED BY <1>1, <1>2, <1>3, <1>4, <1>5, <1>6, <1>7, <1>8 DEF HookInv, ConnectInv

\* ... and every step keeps it.
LEMMA StepHook == HookInv /\ [Next]_vars => HookInv'
<1> SUFFICES ASSUME HookInv, [Next]_vars PROVE HookInv'
  OBVIOUS
<1>1. CASE Next
  <2>1. TypeOK /\ CallInv /\ CancelInv /\ FdInv /\ WaitInv /\ SocketInv /\ ConnectInv
    BY DEF HookInv
  <2>2. TypeOK'
    BY <1>1, <2>1, TypeStep
  <2>3. CallInv' /\ CancelInv' /\ FdInv' /\ WaitInv' /\ SocketInv'
    BY <1>1, <2>1, <2>2, CallStep, CancelStep, FdStep, WaitStep, SocketStep
  <2>4. ASSUME NoneClosed' PROVE FirstUse' /\ Verdict'
    <3>1. NoneClosed
      BY <1>1, <2>1, <2>4, NoneClosedStep
    <3>2. FirstUse /\ Verdict
      BY <2>1, <3>1 DEF ConnectInv
    <3> QED BY <1>1, <2>1, <2>2, <2>3, <2>4, <3>2, FirstUseStep, VerdictStep
  <2> QED BY <2>2, <2>3, <2>4 DEF HookInv, ConnectInv
<1>2. CASE UNCHANGED vars
  <2>1. TypeOK' /\ CallInv' /\ CancelInv'
    BY <1>2 DEF vars, eventVars, timerVars, HookInv, TypeOK, CallInv, CancelInv, Waits, Marked
  <2>2. FdInv' /\ WaitInv' /\ SocketInv'
    BY <1>2 DEF vars, eventVars, timerVars, HookInv, FdInv, FdCtxFresh, WaitInv, SocketInv,
                Waits, Talks, Marked
  <2>3. ConnectInv'
    BY <1>2 DEF vars, eventVars, timerVars, HookInv, ConnectInv, NoneClosed, FirstUse, Verdict,
                Connects
  <2> QED BY <2>1, <2>2, <2>3 DEF HookInv
<1> QED BY <1>1, <1>2

\* The places of the fibers, their timers, the registrations and the two tables of
\* descriptors fit each other, in every state and for every number of threads: the
\* inductive invariant (hook.cpp:75-175, 265-408, fd_manager.cpp:82-107).
THEOREM HookInvariant == Spec => []HookInv
<1> QED BY InitHook, StepHook, PTL DEF Spec

\* The variables keep their types.
THEOREM TypeCorrect == Spec => []TypeOK
<1>1. HookInv => TypeOK
  BY DEF HookInv
<1> QED BY <1>1, HookInvariant, PTL

\* A call returns ETIMEDOUT only because one of its own timers expired, although the
\* callbacks of earlier calls may run during it (hook.cpp:126-170, timer.cpp:118-124).
THEOREM TimeoutBelongsToCall == Spec => []TimeoutIsOwn
<1>1. HookInv => TimeoutIsOwn
  BY DEF HookInv, CancelInv, TimeoutIsOwn
<1> QED BY <1>1, HookInvariant, PTL

\* An FdCtx describes the socket that is open under its number now, whoever closes and
\* opens sockets at the same time (hook.cpp:398-407, fd_manager.cpp:82-107).
THEOREM FdCtxIsFresh == Spec => []FdCtxFresh
<1>1. HookInv => FdCtxFresh
  BY DEF HookInv, FdInv
<1> QED BY <1>1, HookInvariant, PTL

\* connect() returns 0 only if the socket is connected, provided that no socket was
\* closed yet and nobody is closing this one (hook.cpp:296-324).
THEOREM ConnectTellsTheTruth == Spec => []ConnectVerdict
<1>1. HookInv => ConnectVerdict
  <2> SUFFICES ASSUME HookInv, NEW f \in Fibers,
                      pc[f] = "idle", op[f].call = "connect", result[f] = "ok",
                      NoneClosed,
                      \A g \in Fibers : ~(op[g].call = "close" /\ op[g].socket = op[f].socket)
               PROVE  conn[op[f].socket] = "up"
    BY DEF ConnectVerdict
  <2>1. FirstUse /\ Verdict
    BY DEF HookInv, ConnectInv
  <2>2. Connects(f)
    BY <2>1 DEF FirstUse, Connects
  <2> QED BY <2>1, <2>2 DEF Verdict
<1> QED BY <1>1, HookInvariant, PTL
-----------------------------------------------------------------------------
(* One thread: turns                                                         *)

\* When the only thread is free, no fiber runs and no callback is under way.
LEMMA FreeIsQuiet ==
    ASSUME TypeOK, Single, ThreadFree
    PROVE  /\ \A f \in Fibers : ~Active(f)
           /\ \A f \in Fibers, n \in TimerIds : ~Marked(f, n)
<1> DEFINE A == {f \in Fibers : pc[f] \notin {"idle", "held"}}
           B == {ft \in Fibers \X TimerIds : timer[ft[1]][ft[2]].state = "marked"}
<1>1. IsFiniteSet(TimerIds)
  BY HookAssumption, FS_Interval DEF TimerIds
<1>2. IsFiniteSet(Fibers \X TimerIds)
  BY <1>1, HookAssumption, FS_Product
<1>3. IsFiniteSet(A) /\ IsFiniteSet(B)
  BY <1>2, HookAssumption, FS_Subset
<1>4. Cardinality(A) \in Nat /\ Cardinality(B) \in Nat
  BY <1>3, FS_CardinalityType
<1>5. Cardinality(A) + Cardinality(B) < 1
  BY DEF ThreadFree, Busy, Single
<1>6. A = {} /\ B = {}
  <2>1. Cardinality(A) = 0 /\ Cardinality(B) = 0
    BY <1>4, <1>5
  <2> QED BY <1>3, <2>1, FS_EmptySet
<1>7. ASSUME NEW f \in Fibers, NEW n \in TimerIds, Marked(f, n) PROVE FALSE
  <2>1. <<f, n>> \in Fibers \X TimerIds /\ timer[<<f, n>>[1]][<<f, n>>[2]].state = "marked"
    BY <1>7 DEF Marked
  <2>2. <<f, n>> \in B
    BY <2>1
  <2> QED BY <1>6, <2>2
<1>8. ASSUME NEW f \in Fibers, Active(f) PROVE FALSE
  <2>1. f \in A
    BY <1>8 DEF Active
  <2> QED BY <1>6, <2>1
<1> QED BY <1>7, <1>8

\* A call begins, an event comes, a timer expires and a callback begins on a free thread.
LEMMA OthersNeedThread ==
    /\ \A f \in Fibers : NewCall(f) => ThreadFree
    /\ \A f \in Fibers, n \in TimerIds :
          TimerStep(f, n) => ThreadFree \/ (CallbackCancels(f, n) /\ Marked(f, n))
    /\ \A d \in Fds, k \in Kinds : EventComes(d, k) => ThreadFree
<1>1. ASSUME NEW f \in Fibers, NewCall(f) PROVE ThreadFree
  BY <1>1 DEF NewCall, SocketF, SetTimeout, SetUserNonblock, CallRaw, CallIo, Connect, Close, Sleep
<1>2. ASSUME NEW f \in Fibers, NEW n \in TimerIds, TimerStep(f, n)
      PROVE  ThreadFree \/ (CallbackCancels(f, n) /\ Marked(f, n))
  BY <1>2 DEF TimerStep, Expire, CallbackMarks, CallbackCancels, CallbackWakes, Marked
<1>3. ASSUME NEW d \in Fds, NEW k \in Kinds, EventComes(d, k) PROVE ThreadFree
  BY <1>3 DEF EventComes
<1> QED BY <1>1, <1>2, <1>3

\* While a fiber runs on the only thread, nothing else happens but in the kernel.
LEMMA OnlyActive ==
    ASSUME TypeOK, Single, Turns, Next, NEW g \in Fibers, Active(g)
    PROVE  FiberStep(g) \/ \E s \in Sockets : KernelConnect(s)
<1>0. ~ThreadFree
  BY FreeIsQuiet
<1>1. ASSUME NEW f \in Fibers, FiberStep(f) PROVE f = g
  BY <1>0, <1>1, FiberStepRuns DEF Turns
<1>2. ~\E f \in Fibers : NewCall(f)
  BY <1>0, OthersNeedThread
<1>3. ASSUME NEW f \in Fibers, NEW n \in TimerIds, TimerStep(f, n) PROVE FALSE
  BY <1>0, <1>3, OthersNeedThread DEF Turns
<1>4. ~\E d \in Fds, k \in Kinds : EventComes(d, k)
  BY <1>0, OthersNeedThread
<1> QED BY <1>1, <1>2, <1>3, <1>4 DEF Next

\* Fibers and callbacks take turns after every step.
LEMMA TurnsStep ==
    ASSUME TypeOK, CallInv, CancelInv, Single, Turns, Next
    PROVE  Turns'
<1>1. ASSUME NEW f \in Fibers, FiberStep(f) PROVE Turns'
  <2>1. /\ Active(f) \/ (Resume(f) /\ ThreadFree)
        /\ \A g \in Fibers : g # f => pc'[g] = pc[g]
    BY <1>1, FiberStepRuns
  <2>2. \A g \in Fibers, m \in TimerIds : Marked(g, m)' => Marked(g, m)
    BY <1>1, FiberStepCancel
  <2>3. /\ \A g \in Fibers, n \in TimerIds : ~Marked(g, n)
        /\ \A g \in Fibers : g # f => ~Active(g)
    <3>1. CASE Active(f)
      BY <3>1 DEF Turns
    <3>2. CASE ThreadFree
      BY <3>2, FreeIsQuiet
    <3> QED BY <2>1, <3>1, <3>2
  <2>4. \A g \in Fibers : g # f => ~Active(g)'
    BY <2>1, <2>3 DEF Active
  <2> QED BY <2>2, <2>3, <2>4 DEF Turns
<1>2. ASSUME NEW f \in Fibers, NewCall(f) PROVE Turns'
  <2>1. /\ \A g \in Fibers, n \in TimerIds : ~Marked(g, n)
        /\ \A g \in Fibers : ~Active(g)
    BY <1>2, FreeIsQuiet, OthersNeedThread
  <2>2. /\ \A g \in Fibers : g # f => pc'[g] = pc[g] /\ timer'[g] = timer[g]
        /\ \/ timer' = timer
           \/ \A m \in TimerIds : Marked(f, m)' => Marked(f, m)
    BY <1>2, NewCallCancel
  <2>3. \A g \in Fibers, n \in TimerIds : ~Marked(g, n)'
    BY <2>1, <2>2 DEF Marked
  <2>4. \A g \in Fibers : g # f => ~Active(g)'
    BY <2>1, <2>2 DEF Active
  <2> QED BY <2>3, <2>4 DEF Turns
<1>3. ASSUME NEW f \in Fibers, NEW n \in TimerIds, TimerStep(f, n) PROVE Turns'
  <2>1. /\ UNCHANGED pc
        /\ \A g \in Fibers, m \in TimerIds :
              ~(g = f /\ m = n) => timer'[g][m].state = timer[g][m].state
    BY <1>3, TimerStepCancel
  <2>2. /\ \A g \in Fibers : ~Active(g)
        /\ \A g \in Fibers, m \in TimerIds : Marked(g, m) => g = f /\ m = n
    BY <1>3, OthersNeedThread, FreeIsQuiet DEF Turns
  <2>3. \A g \in Fibers : ~Active(g)'
    BY <2>1, <2>2 DEF Active
  <2>4. \A g \in Fibers, m \in TimerIds : Marked(g, m)' => g = f /\ m = n
    BY <2>1, <2>2 DEF Marked
  <2> QED BY <2>3, <2>4 DEF Turns
<1>4. ASSUME NEW d \in Fds, NEW k \in Kinds, EventComes(d, k) PROVE Turns'
  BY <1>4 DEF EventComes, Turns, Active, Marked, timerVars
<1>5. ASSUME NEW s \in Sockets, KernelConnect(s) PROVE Turns'
  BY <1>5 DEF KernelConnect, Turns, Active, Marked, timerVars
<1> QED BY <1>1, <1>2, <1>3, <1>4, <1>5 DEF Next
-----------------------------------------------------------------------------
(* One thread: close() and the registrations                                 *)

\* A registration is made only by a fiber at addEvent.
LEMMA SlotMoves ==
    ASSUME TypeOK, CallInv, WaitInv, Next, NEW d \in Fds, NEW k \in Kinds, slot[d][k] = NoFiber
    PROVE  slot'[d][k] = NoFiber \/ \E f \in Fibers : Register(f)
<1> USE DEF eventVars
<1>0. ASSUME NEW e \in Fds, NEW ks \in SUBSET Kinds, Trigger(e, ks) PROVE slot'[d][k] = NoFiber
  BY <1>0, TriggerChange
<1>1. ASSUME NEW f \in Fibers, FiberStep(f) PROVE UNCHANGED slot \/ Register(f)
  BY <1>1 DEF FiberStep, Resume, GetCreate, FunReturns, FunWouldBlock, ArmTimer,
         RegisterFails, RegisterAborts, YieldToHold, CancelTimer, TestCancelled, SockErr,
         FdManagerDel, CloseF
<1>2. ASSUME NEW f \in Fibers, NewCall(f)
      PROVE  UNCHANGED slot \/ \E e \in Fds : Trigger(e, Kinds)
  BY <1>2 DEF NewCall, SocketF, SetTimeout, SetUserNonblock, CallRaw, CallIo, Connect, Close, Sleep
<1>3. ASSUME NEW f \in Fibers, NEW n \in TimerIds, TimerStep(f, n) PROVE slot'[d][k] = NoFiber
  <2>1. CASE CallbackCancels(f, n)
    <3>1. timer[f][n].fd \in Fds /\ {timer[f][n].kind} \in SUBSET Kinds
      BY <2>1 DEF CallbackCancels, WaitInv, Marked, TypeOK, Timer
    <3> QED BY <1>0, <2>1, <3>1 DEF CallbackCancels
  <2>2. CASE ~CallbackCancels(f, n)
    BY <1>3, <2>2 DEF TimerStep, Expire, CallbackMarks, CallbackWakes
  <2> QED BY <2>1, <2>2
<1>4. ASSUME NEW e \in Fds, NEW j \in Kinds, EventComes(e, j) PROVE slot'[d][k] = NoFiber
  BY <1>0, <1>4 DEF EventComes
<1>5. ASSUME NEW s \in Sockets, KernelConnect(s) PROVE UNCHANGED slot
  BY <1>5 DEF KernelConnect
<1> QED BY <1>0, <1>1, <1>2, <1>3, <1>4, <1>5 DEF Next

\* With one thread, every registration is one that epoll knows, after every step.
LEMMA RegisteredStep ==
    ASSUME TypeOK, CallInv, FdInv, WaitInv, Single, Turns, Registered, Next
    PROVE  Registered'
<1> USE HookAssumption DEF At, Goto, Return, Begin, eventVars, timerVars
<1>0. ASSUME ThreadFree, NEW d \in Fds, open[d] # NoSocket PROVE m_datas[d] # NoCtx
  BY <1>0, FreeIsQuiet DEF Registered, Active
<1>1. ASSUME NEW d \in Fds, open'[d] # NoSocket, m_datas'[d] = NoCtx
      PROVE  \E f \in Fibers : pc'[f] \in {"newfd", "closing"} /\ op'[f].fd = d
  <2>1. ASSUME NEW f \in Fibers, FiberStep(f)
        PROVE  \E g \in Fibers : pc'[g] \in {"newfd", "closing"} /\ op'[g].fd = d
    <3>1. UNCHANGED op /\ \A g \in Fibers : g # f => pc'[g] = pc[g]
      BY <2>1, FiberStepRuns DEF FiberStep, Resume, GetCreate, FunReturns, FunWouldBlock,
         ArmTimer, Register, RegisterFails, RegisterAborts, YieldToHold, CancelTimer,
         TestCancelled, SockErr, FdManagerDel, CloseF
    <3>2. CASE GetCreate(f)
      <4>1. op[f].fd \in Fds /\ open[op[f].fd] \in Sockets /\ UNCHANGED open
        <5>1. pc[f] = "newfd" /\ UNCHANGED open
          BY <3>2 DEF GetCreate
        <5>2. op[f].fd \in Fds /\ open[op[f].fd] # NoSocket
          BY <5>1 DEF CallInv, FdInv
        <5> QED BY <5>1, <5>2 DEF TypeOK
      <4>2. m_datas'[op[f].fd] # NoCtx /\ \A e \in Fds : e # op[f].fd => m_datas'[e] = m_datas[e]
        BY <3>2, <4>1 DEF GetCreate, TypeOK, NoCtx
      <4>3. PICK g \in Fibers : pc[g] \in {"newfd", "closing"} /\ op[g].fd = d
        BY <1>1, <4>1, <4>2 DEF Registered
      <4>4. g # f
        BY <1>1, <4>2, <4>3
      <4> QED BY <3>1, <4>3, <4>4
    <3>3. CASE FdManagerDel(f)
      <4>1. pc'[f] = "closing" /\ UNCHANGED open
            /\ \A e \in Fds : e # op[f].fd => m_datas'[e] = m_datas[e]
        BY <3>3 DEF FdManagerDel, TypeOK
      <4>2. CASE d = op[f].fd
        BY <3>1, <4>1, <4>2
      <4>3. CASE d # op[f].fd
        <5>1. PICK g \in Fibers : pc[g] \in {"newfd", "closing"} /\ op[g].fd = d
          BY <1>1, <4>1, <4>3 DEF Registered
        <5>2. g # f
          BY <4>3, <5>1
        <5> QED BY <3>1, <5>1, <5>2
      <4> QED BY <4>2, <4>3
    <3>4. CASE CloseF(f)
      <4>1. d # op[f].fd /\ open'[d] = open[d] /\ UNCHANGED m_datas
        BY <1>1, <3>4 DEF CloseF, TypeOK
      <4>2. PICK g \in Fibers : pc[g] \in {"newfd", "closing"} /\ op[g].fd = d
        BY <1>1, <4>1 DEF Registered
      <4>3. g # f
        BY <4>1, <4>2
      <4> QED BY <3>1, <4>2, <4>3
    <3>5. CASE ~(GetCreate(f) \/ FdManagerDel(f) \/ CloseF(f))
      <4>1. UNCHANGED <<open, m_datas>> /\ pc[f] \notin {"newfd", "closing"}
        BY <2>1, <3>5 DEF FiberStep, Resume, FunReturns, FunWouldBlock,
         ArmTimer, Register, RegisterFails, RegisterAborts, YieldToHold, CancelTimer,
         TestCancelled, SockErr
      <4>2. PICK g \in Fibers : pc[g] \in {"newfd", "closing"} /\ op[g].fd = d
        BY <1>1, <4>1 DEF Registered
      <4> QED BY <3>1, <4>1, <4>2
    <3> QED BY <3>2, <3>3, <3>4, <3>5
  <2>2. ASSUME NEW f \in Fibers, NewCall(f)
        PROVE  \E g \in Fibers : pc'[g] \in {"newfd", "closing"} /\ op'[g].fd = d
    <3>0. open[d] = NoSocket \/ m_datas[d] # NoCtx
      BY <1>0, <2>2, OthersNeedThread
    <3>1. ASSUME NEW e \in Fds, NEW s \in Sockets, SocketF(f, e, s)
          PROVE  pc'[f] = "newfd" /\ op'[f].fd = d
      BY <1>1, <3>0, <3>1 DEF SocketF, TypeOK
    <3>2. ASSUME NEW e \in Fds, \/ \E k \in IoKinds : SetTimeout(f, e, k)
                                \/ \E flag \in BOOLEAN : SetUserNonblock(f, e, flag)
          PROVE  FALSE
      <4>1. UNCHANGED open /\ m_datas[e] \in FdCtx
        BY <3>2 DEF SetTimeout, SetUserNonblock, TypeOK
      <4>2. \A h \in Fds : h # e => m_datas'[h] = m_datas[h]
        BY <3>2 DEF SetTimeout, SetUserNonblock, TypeOK
      <4>3. m_datas'[e].socket = m_datas[e].socket
        BY <3>2, <4>1 DEF SetTimeout, SetUserNonblock, TypeOK, FdCtx
      <4>4. m_datas'[e] # NoCtx
        BY <4>1, <4>3 DEF FdCtx, NoCtx
      <4> QED BY <1>1, <3>0, <4>1, <4>2, <4>4
    <3>3. CASE UNCHANGED <<open, m_datas>>
      BY <1>1, <3>0, <3>3
    <3>4. \/ \E e \in Fds, s \in Sockets : SocketF(f, e, s)
          \/ \E e \in Fds, k \in IoKinds : SetTimeout(f, e, k)
          \/ \E e \in Fds, flag \in BOOLEAN : SetUserNonblock(f, e, flag)
          \/ UNCHANGED <<open, m_datas>>
      BY <2>2 DEF NewCall, CallRaw, CallIo, Connect, Close, Sleep
    <3> QED BY <3>1, <3>2, <3>3, <3>4
  <2>3. ASSUME UNCHANGED <<open, m_datas, pc, op>>
        PROVE  \E f \in Fibers : pc'[f] \in {"newfd", "closing"} /\ op'[f].fd = d
    BY <1>1, <2>3 DEF Registered
  <2>4. ASSUME NEW f \in Fibers, NEW n \in TimerIds, TimerStep(f, n)
        PROVE  UNCHANGED <<open, m_datas, pc, op>>
    BY <2>4 DEF TimerStep, Expire, CallbackMarks, CallbackCancels, CallbackWakes
  <2>5. ASSUME NEW e \in Fds, NEW k \in Kinds, EventComes(e, k)
        PROVE  UNCHANGED <<open, m_datas, pc, op>>
    BY <2>5 DEF EventComes
  <2>6. ASSUME NEW s \in Sockets, KernelConnect(s) PROVE UNCHANGED <<open, m_datas, pc, op>>
    BY <2>6 DEF KernelConnect
  <2> QED BY <2>1, <2>2, <2>3, <2>4, <2>5, <2>6 DEF Next
<1>2. \A d \in Fds, k \in Kinds : slot'[d][k] # NoFiber => watched'[d]
  <2>1. \A f \in Fibers : CloseF(f) => \A k \in Kinds : slot[op[f].fd][k] = NoFiber
    BY DEF CloseF, Registered
  <2>2. \A d \in Fds, k \in Kinds : slot[d][k] # NoFiber => watched[d]
    BY DEF Registered
  <2> QED BY <2>1, <2>2, WatchedStep
<1>3. ASSUME NEW f \in Fibers, pc'[f] \in {"del", "closing"}, NEW k \in Kinds
      PROVE  slot'[op'[f].fd][k] = NoFiber
  <2>1. CASE pc[f] \in {"del", "closing"}
    <3>1. Active(f) /\ op[f].fd \in Fds /\ slot[op[f].fd][k] = NoFiber /\ op'[f] = op[f]
      BY <2>1, OpMoves DEF Active, CallInv, Registered
    <3>2. ASSUME NEW g \in Fibers, Register(g) PROVE FALSE
      <4>1. Active(g) /\ pc[g] = "register"
        BY <3>2 DEF Register, Active
      <4> QED BY <2>1, <3>1, <4>1 DEF Turns
    <3> QED BY <3>1, <3>2, SlotMoves
  <2>2. CASE pc[f] \notin {"del", "closing"}
    <3>1. ~FiberStep(f)
      BY <1>3, <2>2 DEF FiberStep, Resume, GetCreate, FunReturns, FunWouldBlock, WillWait,
         ArmTimer, Register, RegisterFails, RegisterAborts, YieldToHold, CancelTimer,
         TestCancelled, SockErr, FdManagerDel, CloseF, TypeOK
    <3>2. NewCall(f)
      BY <1>3, <2>2, <3>1, OwnMoves
    <3>3. PICK d \in Fds : Close(f, d)
      BY <1>3, <2>2, <3>2 DEF NewCall, SocketF, SetTimeout, SetUserNonblock, CallRaw, CallIo,
         Connect, WillWait, Sleep, TypeOK
    <3>4. op'[f].fd = d /\ m_datas[d] # NoCtx
      BY <1>0, <3>3 DEF Close, TypeOK
    <3>5. CASE watched[d]
      <4>1. Trigger(d, Kinds)
        BY <3>3, <3>4, <3>5 DEF Close
      <4> QED BY <3>4, <4>1, TriggerChange
    <3>6. CASE ~watched[d]
      <4>1. UNCHANGED slot
        BY <3>3, <3>6 DEF Close
      <4> QED BY <3>4, <3>6, <4>1 DEF Registered
    <3> QED BY <3>5, <3>6
  <2> QED BY <2>1, <2>2
<1> QED BY <1>1, <1>2, <1>3 DEF Registered
-----------------------------------------------------------------------------
(* One thread: the timeout of a call that waits                              *)

\* A fiber whose call goes on as it was, and that is not queued less than it was,
\* keeps its timeout.
LEMMA InTimeFrame ==
    ASSUME NEW g \in Fibers, InTime(g),
           pc'[g] = pc[g], op'[g] = op[g], cancelled'[g] = cancelled[g],
           first'[g] = first[g], tno'[g] = tno[g], timer'[g] = timer[g],
           queued[g] => queued'[g]
    PROVE  InTime(g)'
BY DEF InTime, Waits, Marked

\* What a step of a call in progress leaves alone of the other fibers.
LEMMA FiberStepOthers ==
    ASSUME TypeOK, CallInv, CancelInv, NEW f \in Fibers, FiberStep(f)
    PROVE  /\ UNCHANGED <<op, first, cancelled>>
           /\ \A g \in Fibers : g # f =>
                 /\ pc'[g] = pc[g] /\ tno'[g] = tno[g] /\ queued'[g] = queued[g]
                 /\ timer'[g] = timer[g]
<1> USE DEF At, Goto, Return, eventVars, timerVars
<1>1. UNCHANGED <<op, first, cancelled>>
  BY DEF FiberStep, Resume, GetCreate, FunReturns, FunWouldBlock, ArmTimer, Register,
         RegisterFails, RegisterAborts, YieldToHold, CancelTimer, TestCancelled, SockErr,
         FdManagerDel, CloseF
<1>2. ASSUME NEW g \in Fibers, g # f PROVE pc'[g] = pc[g]
  BY <1>2, FiberStepRuns
<1>3. ASSUME NEW g \in Fibers, g # f PROVE tno'[g] = tno[g] /\ queued'[g] = queued[g]
  BY <1>3 DEF FiberStep, Resume, GetCreate, FunReturns, FunWouldBlock, ArmTimer, Register,
         RegisterFails, RegisterAborts, YieldToHold, CancelTimer, TestCancelled, SockErr,
         FdManagerDel, CloseF, TypeOK
<1>4. ASSUME NEW g \in Fibers, g # f PROVE timer'[g] = timer[g]
  BY <1>4 DEF FiberStep, Resume, GetCreate, FunReturns, FunWouldBlock, ArmTimer, Register,
         RegisterFails, RegisterAborts, YieldToHold, CancelTimer, TestCancelled, SockErr,
         FdManagerDel, CloseF, StopTimer, TypeOK
<1> QED BY <1>1, <1>2, <1>3, <1>4

\* The timeout of the fiber that makes a step of its call.
LEMMA FiberStepInTime ==
    ASSUME TypeOK, CallInv, CancelInv, NEW f \in Fibers, FiberStep(f), InTime(f)
    PROVE  InTime(f)'
<1> USE DEF At, Goto, Return, eventVars, timerVars
<1>0. UNCHANGED <<op, first, cancelled>>
  BY FiberStepOthers
<1>a. /\ tno[f] \in 0 .. MaxTimers /\ first[f] \in 1 .. MaxTimers + 1
      /\ \A n \in first[f] .. tno[f] : n \in TimerIds
  BY HookAssumption DEF TypeOK, TimerIds
\* At the places where a call does not wait, only the timers' targets matter.
<1>b. ASSUME pc'[f] \notin {"try", "arm", "register", "yield", "held"},
             pc'[f] # "idle" => pc[f] # "idle" /\ tno'[f] = tno[f],
             \A m \in TimerIds :
                timer'[f][m].fd = timer[f][m].fd /\ timer'[f][m].kind = timer[f][m].kind
      PROVE  InTime(f)'
  BY <1>0, <1>a, <1>b DEF InTime, Waits
<1>1. CASE Resume(f)
  BY <1>1, <1>b DEF Resume, TypeOK
<1>2. CASE GetCreate(f) \/ FunReturns(f) \/ SockErr(f) \/ FdManagerDel(f) \/ CloseF(f)
  BY <1>2, <1>b DEF GetCreate, FunReturns, SockErr, FdManagerDel, CloseF, TypeOK
<1>3. CASE FunWouldBlock(f)
  <2>1. /\ pc[f] = "try" /\ UNCHANGED <<timer, tno, queued>>
        /\ pc'[f] = IF op[f].timed THEN "arm" ELSE "register"
    BY <1>3 DEF FunWouldBlock, WillWait, TypeOK
  <2> QED BY <1>0, <2>1 DEF InTime, Waits
<1>4. CASE ArmTimer(f)
  <2>1. pc[f] = "arm" /\ pc'[f] = "register"
    BY <1>4 DEF ArmTimer, TypeOK
  <2>2. /\ tno'[f] = tno[f] + 1 /\ tno[f] + 1 \in TimerIds
        /\ \A m \in TimerIds :
                 IF m = tno[f] + 1
                 THEN /\ timer'[f][m].state = "armed"
                      /\ timer'[f][m].fd = op[f].fd /\ timer'[f][m].kind = op[f].kind
                 ELSE timer'[f][m] = timer[f][m]
    BY <1>4, ArmChange
  <2>3. first[f] <= tno[f] + 1
    BY DEF CallInv
  <2>4. timer'[f][tno'[f]].state = "armed"
    BY <2>2
  <2>5. ASSUME NEW n \in first[f] .. tno[f] + 1
        PROVE  timer'[f][n].fd = op[f].fd /\ timer'[f][n].kind = op[f].kind
    <3>1. CASE n = tno[f] + 1
      BY <2>2, <3>1
    <3>2. CASE n # tno[f] + 1
      <4>1. n \in first[f] .. tno[f]
        BY <1>a, <3>2
      <4>2. timer'[f][n] = timer[f][n]
        BY <1>a, <2>2, <3>2, <4>1
      <4> QED BY <2>1, <4>1, <4>2 DEF InTime
    <3> QED BY <3>1, <3>2
  <2>6. ~cancelled[f]
    BY <2>1 DEF InTime
  <2> QED BY <1>0, <2>1, <2>2, <2>3, <2>4, <2>5, <2>6 DEF InTime, Waits
<1>5. CASE Register(f)
  <2>1. pc[f] = "register" /\ pc'[f] = "yield" /\ UNCHANGED <<timer, tno, queued>>
    BY <1>5 DEF Register, TypeOK
  <2> QED BY <1>0, <2>1 DEF InTime, Waits
<1>6. CASE RegisterFails(f) \/ CancelTimer(f)
  <2>1. /\ StopTimer(f) /\ UNCHANGED tno
        /\ pc[f] # "idle" /\ pc'[f] \in {"sockerr", "idle", "test"}
    BY <1>6 DEF RegisterFails, CancelTimer, TypeOK
  <2>2. \A m \in TimerIds :
           timer'[f][m].fd = timer[f][m].fd /\ timer'[f][m].kind = timer[f][m].kind
    BY <2>1, StopChange
  <2> QED BY <1>b, <2>1, <2>2
<1>7. CASE RegisterAborts(f)
  BY <1>7, InTimeFrame DEF RegisterAborts
<1>8. CASE YieldToHold(f)
  <2>1. pc[f] = "yield" /\ pc'[f] = "held" /\ UNCHANGED <<timer, tno, queued>>
    BY <1>8 DEF YieldToHold, TypeOK
  <2> QED BY <1>0, <2>1 DEF InTime, Waits, Marked
<1>9. CASE TestCancelled(f)
  <2>1. /\ pc[f] = "test" /\ UNCHANGED <<timer, tno, queued>>
        /\ pc'[f] \in {"idle", "try", "sockerr"} /\ (pc'[f] = "try" => ~cancelled[f])
    BY <1>9 DEF TestCancelled, TypeOK
  <2> QED BY <1>0, <2>1 DEF InTime, Waits
<1> QED BY <1>1, <1>2, <1>3, <1>4, <1>5, <1>6, <1>7, <1>8, <1>9 DEF FiberStep

\* The timeouts after a fiber has begun a call.
LEMMA NewCallInTime ==
    ASSUME TypeOK, CallInv, CancelInv, NEW f \in Fibers, NewCall(f), TimeoutInv
    PROVE  TimeoutInv'
<1> USE DEF At, Goto, Return, Begin, eventVars, timerVars
<1>0. ASSUME NEW g \in Fibers, queued[g] PROVE queued'[g]
  <2>1. ASSUME NEW d \in Fds, Close(f, d) PROVE queued'[g]
    <3>1. UNCHANGED queued \/ Trigger(d, Kinds)
      BY <2>1 DEF Close
    <3> QED BY <1>0, <3>1, TriggerChange
  <2>2. (\E d \in Fds : Close(f, d)) \/ UNCHANGED queued
    BY DEF NewCall, SocketF, SetTimeout, SetUserNonblock, CallRaw, CallIo, Connect, Sleep
  <2> QED BY <1>0, <2>1, <2>2
<1>1. ASSUME NEW g \in Fibers, g # f PROVE InTime(g)'
  <2>1. /\ pc'[g] = pc[g] /\ op'[g] = op[g] /\ first'[g] = first[g] /\ tno'[g] = tno[g]
        /\ cancelled'[g] = cancelled[g] /\ timer'[g] = timer[g]
    BY <1>1, NewCallCancel
  <2> QED BY <1>0, <2>1, InTimeFrame DEF TimeoutInv
<1>2. InTime(f)'
  <2>1. CASE UNCHANGED <<pc, op, first, tno, cancelled, timer>>
    BY <1>0, <2>1, InTimeFrame DEF TimeoutInv
  <2>2. CASE Sleep(f)
    <3>1. /\ pc'[f] = "yield" /\ first'[f] = tno[f] + 1 /\ ~cancelled'[f]
      BY <2>2 DEF Sleep, TypeOK
    <3>2. /\ tno'[f] = tno[f] + 1 /\ tno[f] + 1 \in TimerIds
          /\ timer'[f][tno[f] + 1].fd = NoFd /\ timer'[f][tno[f] + 1].kind = "READ"
          /\ op'[f].fd = NoFd /\ op'[f].kind = "READ" /\ ~op'[f].timed
      BY <2>2, SleepChange
    <3>3. \A n \in first'[f] .. tno'[f] : n = tno[f] + 1
      BY <3>1, <3>2 DEF TimerIds
    <3> QED BY <3>1, <3>2, <3>3 DEF InTime
  <2>3. CASE ~Sleep(f) /\ ~UNCHANGED <<pc, op, first, tno, cancelled, timer>>
    <3>1. first'[f] = tno[f] + 1 /\ tno' = tno /\ ~cancelled'[f]
      BY <2>3 DEF NewCall, SocketF, SetTimeout, SetUserNonblock, CallRaw, CallIo, Connect,
         Close, TypeOK
    <3>2. pc'[f] \notin {"yield", "held"} /\ (pc'[f] = "register" => ~op'[f].timed)
      BY <2>3 DEF NewCall, SocketF, SetTimeout, SetUserNonblock, CallRaw, CallIo, Connect,
         WillWait, Close, TypeOK
    <3>3. first'[f] .. tno'[f] = {}
      BY <3>1 DEF TypeOK
    <3> QED BY <3>1, <3>2, <3>3 DEF InTime, Waits
  <2> QED BY <2>1, <2>2, <2>3
<1> QED BY <1>1, <1>2 DEF TimeoutInv

\* The timeouts after a step of a timer: a callback that runs to its end has woken the
\* call it belongs to.
LEMMA TimerStepInTime ==
    ASSUME TypeOK, CallInv, CancelInv, WaitInv, Single, Turns, Registered, TimeoutInv,
           NEW f \in Fibers, NEW n \in TimerIds, TimerStep(f, n)
    PROVE  TimeoutInv'
<1> SUFFICES ASSUME NEW g \in Fibers PROVE InTime(g)'
  BY DEF TimeoutInv
<1> USE DEF eventVars
<1>1. /\ UNCHANGED <<pc, op, tno, first>>
      /\ \A m \in TimerIds :
            /\ timer'[g][m].fd = timer[g][m].fd /\ timer'[g][m].kind = timer[g][m].kind
            /\ ~(g = f /\ m = n) => timer'[g][m].state = timer[g][m].state
  BY TimerStepCancel
<1>2. /\ tno[g] \in 0 .. MaxTimers /\ first[g] \in 1 .. MaxTimers + 1
      /\ \A m \in first[g] .. tno[g] : m \in TimerIds
  BY HookAssumption DEF TypeOK, TimerIds
<1>3. InTime(g)
  BY DEF TimeoutInv
<1>4. ~Active(g)
  BY OthersNeedThread, FreeIsQuiet DEF Turns
<1>5. queued[g] => queued'[g]
  <2>1. CASE CallbackCancels(f, n)
    <3>1. timer[f][n].fd \in Fds /\ {timer[f][n].kind} \in SUBSET Kinds
      BY <2>1 DEF CallbackCancels, WaitInv, Marked, TypeOK, Timer
    <3>2. UNCHANGED queued \/ Trigger(timer[f][n].fd, {timer[f][n].kind})
      BY <2>1 DEF CallbackCancels
    <3> QED BY <3>1, <3>2, TriggerChange
  <2>2. CASE CallbackWakes(f, n)
    BY <2>2 DEF CallbackWakes, TypeOK
  <2>3. CASE Expire(f, n) \/ CallbackMarks(f, n)
    BY <2>3 DEF Expire, CallbackMarks
  <2> QED BY <2>1, <2>2, <2>3 DEF TimerStep
<1>a. \/ UNCHANGED cancelled
      \/ /\ cancelled' = [cancelled EXCEPT ![f] = TRUE]
         /\ n >= first[f] /\ timer[f][n].state = "queued" /\ timer'[f][n].state = "marked"
  BY TimerStepCancel
<1>b. /\ cancelled' = [cancelled EXCEPT ![f] = TRUE] => cancelled'[f]
      /\ cancelled' = [cancelled EXCEPT ![f] = TRUE] /\ g # f => cancelled'[g] = cancelled[g]
  BY Zenon DEF TypeOK
<1>6. cancelled[g] => cancelled'[g]
  <2>1. CASE UNCHANGED cancelled
    BY <2>1
  <2>2. CASE cancelled' = [cancelled EXCEPT ![f] = TRUE] /\ f = g
    BY <1>b, <2>2
  <2>3. CASE cancelled' = [cancelled EXCEPT ![f] = TRUE] /\ f # g
    BY <1>b, <2>3
  <2> QED BY <1>a, <2>1, <2>2, <2>3
<1>7. ASSUME pc[g] = "held", ~queued[g], op[g].timed, ~cancelled'[g]
      PROVE  first[g] <= tno[g] /\ timer'[g][tno[g]].state \in {"armed", "queued"}
  <2>1. first[g] <= tno[g] /\ timer[g][tno[g]].state \in {"armed", "queued"} /\ ~cancelled[g]
    BY <1>3, <1>6, <1>7 DEF InTime, Waits
  <2>2. tno[g] \in TimerIds
    BY <1>2, <2>1 DEF TimerIds
  <2>3. CASE ~(g = f /\ n = tno[g])
    BY <1>1, <2>1, <2>2, <2>3
  <2>4. CASE g = f /\ n = tno[g]
    <3>1. timer[g][n].fd # NoFd
      BY <1>7, <2>1, <2>2, <2>4 DEF WaitInv, CallInv
    <3>2. ~CallbackWakes(f, n) /\ ~CallbackCancels(f, n)
      BY <2>1, <2>4, <3>1 DEF CallbackWakes, CallbackCancels
    <3>3. ~CallbackMarks(f, n)
      BY <1>7, <2>1, <2>4, <1>2 DEF CallbackMarks, Alive, TypeOK
    <3>4. Expire(f, n)
      BY <3>2, <3>3 DEF TimerStep
    <3>5. timer[f][n].state = "armed"
      BY <3>4 DEF Expire
    <3>6. timer'[f][n].state \in {"queued"}
      BY <3>5, TimerStepCancel
    <3> QED BY <2>1, <2>4, <3>6
  <2> QED BY <2>3, <2>4
<1>8. ASSUME pc[g] = "held", ~queued'[g], cancelled'[g]
      PROVE  \E m \in first[g] .. tno[g] : Marked(g, m)'
  <2>1. CASE ~cancelled[g]
    <3>1. /\ f = g /\ n >= first[g]
          /\ timer[f][n].state = "queued" /\ timer'[f][n].state = "marked"
      <4>1. ~UNCHANGED cancelled
        BY <1>8, <2>1
      <4>2. cancelled' = [cancelled EXCEPT ![f] = TRUE]
        BY <1>a, <4>1
      <4>3. f = g
        BY <1>8, <1>b, <2>1, <4>2
      <4> QED BY <1>a, <4>1, <4>3
    <3>2. n <= tno[g]
      BY <3>1 DEF CallInv
    <3>3. n \in first[g] .. tno[g]
      BY <1>2, <3>1, <3>2 DEF TimerIds
    <3> QED BY <3>1, <3>3 DEF Marked
  <2>2. CASE cancelled[g]
    <3>1. PICK m \in first[g] .. tno[g] : Marked(g, m)
      BY <1>3, <1>5, <1>8, <2>2 DEF InTime, Waits
    <3>2. m \in TimerIds
      BY <1>2
    <3>3. CallbackCancels(f, n) /\ f = g /\ n = m
      BY <3>1, <3>2, OthersNeedThread, FreeIsQuiet DEF Turns
    <3>4. /\ timer[g][m].fd = op[g].fd /\ timer[g][m].kind = op[g].kind
          /\ timer[g][m].fd \in Fds
      BY <1>3, <1>8, <3>1, <3>2 DEF InTime, WaitInv
    <3>5. op[g].call # "sleep" /\ op[g].kind \in Kinds
      BY <3>4, HookAssumption DEF CallInv, TypeOK, Op
    <3>6. slot[op[g].fd][op[g].kind] = g
      BY <1>5, <1>8, <3>5 DEF WaitInv, Waits
    <3>7. watched[op[g].fd] /\ g # NoFiber
      BY <3>4, <3>5, <3>6, HookAssumption DEF Registered
    <3>8. Trigger(op[g].fd, {op[g].kind})
      BY <3>3, <3>4, <3>6, <3>7 DEF CallbackCancels
    <3>9. queued'[g]
      BY <3>4, <3>5, <3>6, <3>8, TriggerChange
    <3> QED BY <1>8, <3>9
  <2> QED BY <2>1, <2>2
<1>9. pc'[g] # "idle" => \A m \in first'[g] .. tno'[g] :
         timer'[g][m].fd = op'[g].fd /\ timer'[g][m].kind = op'[g].kind
  BY <1>1, <1>2, <1>3 DEF InTime
<1> QED BY <1>1, <1>4, <1>5, <1>7, <1>8, <1>9 DEF InTime, Active, Waits

\* With one thread, a call that waits keeps its timeout after every step.
LEMMA TimeoutStep ==
    ASSUME TypeOK, CallInv, CancelInv, WaitInv, Single, Turns, Registered, TimeoutInv, Next
    PROVE  TimeoutInv'
<1>1. ASSUME NEW f \in Fibers, FiberStep(f) PROVE TimeoutInv'
  <2>1. ASSUME NEW g \in Fibers, g # f PROVE InTime(g)'
    <3>1. /\ pc'[g] = pc[g] /\ op'[g] = op[g] /\ first'[g] = first[g] /\ tno'[g] = tno[g]
          /\ cancelled'[g] = cancelled[g] /\ timer'[g] = timer[g] /\ queued'[g] = queued[g]
      BY <1>1, <2>1, FiberStepOthers
    <3> QED BY <3>1, InTimeFrame DEF TimeoutInv
  <2>2. InTime(f)'
    BY <1>1, FiberStepInTime DEF TimeoutInv
  <2> QED BY <2>1, <2>2 DEF TimeoutInv
<1>2. ASSUME NEW f \in Fibers, NewCall(f) PROVE TimeoutInv'
  BY <1>2, NewCallInTime
<1>3. ASSUME NEW f \in Fibers, NEW n \in TimerIds, TimerStep(f, n) PROVE TimeoutInv'
  BY <1>3, TimerStepInTime
<1>4. ASSUME NEW d \in Fds, NEW k \in Kinds, EventComes(d, k) PROVE TimeoutInv'
  <2>1. /\ UNCHANGED <<pc, op, first, tno, cancelled, timer>>
        /\ Trigger(d, {k})
    BY <1>4 DEF EventComes, timerVars
  <2>2. \A g \in Fibers : queued[g] => queued'[g]
    BY <2>1, TriggerChange
  <2> QED BY <2>1, <2>2, InTimeFrame DEF TimeoutInv
<1>5. ASSUME NEW s \in Sockets, KernelConnect(s) PROVE TimeoutInv'
  BY <1>5, InTimeFrame DEF KernelConnect, TimeoutInv, eventVars, timerVars
<1> QED BY <1>1, <1>2, <1>3, <1>4, <1>5 DEF Next
-----------------------------------------------------------------------------
(* One thread: the theorems                                                  *)

LEMMA InitSingle == Init => SingleInv
<1> SUFFICES ASSUME Init PROVE SingleInv
  OBVIOUS
<1>1. Turns
  BY DEF Init, Turns, Active, Marked, NoTimer
<1>2. Registered
  BY DEF Init, Registered
<1>3. TimeoutInv
  BY DEF Init, TimeoutInv, InTime, Waits
<1> QED BY <1>1, <1>2, <1>3, InitHook DEF SingleInv

LEMMA StepSingle == Single /\ SingleInv /\ [Next]_vars => SingleInv'
<1> SUFFICES ASSUME Single, SingleInv, [Next]_vars PROVE SingleInv'
  OBVIOUS
<1>1. HookInv'
  BY StepHook DEF SingleInv
<1>2. CASE Next
  <2>1. TypeOK /\ CallInv /\ CancelInv /\ FdInv /\ WaitInv /\ Turns /\ Registered /\ TimeoutInv
    BY DEF SingleInv, HookInv
  <2>2. Turns' /\ Registered' /\ TimeoutInv'
    BY <1>2, <2>1, TurnsStep, RegisteredStep, TimeoutStep
  <2> QED BY <1>1, <2>2 DEF SingleInv
<1>3. CASE UNCHANGED vars
  BY <1>1, <1>3 DEF vars, eventVars, timerVars, SingleInv, Turns, Active, Marked, Registered,
                    TimeoutInv, InTime, Waits
<1> QED BY <1>2, <1>3

\* With one thread, fibers and callbacks take turns, close() finds every registration,
\* and a callback that marks a call cancelled ends its wait (hook.cpp:129-171, 392-408).
THEOREM SingleInvariant == Single /\ Spec => []SingleInv
<1> SUFFICES ASSUME Single PROVE Spec => []SingleInv
  OBVIOUS
<1> QED BY InitSingle, StepSingle, PTL DEF Spec

\* With one thread, a fiber that is swapped out can always be woken: by its sleep's
\* timer, or by an event that epoll watches (hook.cpp:153-161, 296-298, 392-408).
THEOREM SingleWaiterReachable == Single /\ Spec => []WaiterReachable
<1>1. SingleInv => WaiterReachable
  <2> SUFFICES ASSUME SingleInv, NEW f \in Fibers, pc[f] = "held", ~queued[f]
               PROVE  IF op[f].call = "sleep" THEN Coming(f) # {}
                      ELSE slot[op[f].fd][op[f].kind] = f /\ watched[op[f].fd]
    BY DEF WaiterReachable
  <2>1. TypeOK /\ CallInv /\ WaitInv /\ Registered /\ Waits(f)
    BY DEF SingleInv, HookInv, Waits
  <2>2. CASE op[f].call = "sleep"
    <3>1. first[f] = tno[f] /\ timer[f][tno[f]].state \in {"armed", "queued"}
      BY <2>1, <2>2 DEF WaitInv
    <3>2. tno[f] \in first[f] .. tno[f]
      BY <2>1, <3>1, HookAssumption DEF TypeOK
    <3>3. tno[f] \in Coming(f)
      BY <3>1, <3>2 DEF Coming
    <3> QED BY <2>2, <3>3
  <2>3. CASE op[f].call # "sleep"
    <3>1. slot[op[f].fd][op[f].kind] = f
      BY <2>1, <2>3 DEF WaitInv
    <3>2. op[f].fd \in Fds /\ op[f].kind \in Kinds /\ f # NoFiber
      BY <2>1, <2>3, HookAssumption DEF CallInv, TypeOK, Op
    <3>3. watched[op[f].fd]
      BY <2>1, <3>1, <3>2 DEF Registered
    <3> QED BY <2>3, <3>1, <3>3
  <2> QED BY <2>2, <2>3
<1> QED BY <1>1, SingleInvariant, PTL

\* With one thread, a call with a timeout that waits still has a timer to come, whatever
\* woke it before (hook.cpp:129-171).
THEOREM SingleTimeoutStillComing == Single /\ Spec => []TimeoutStillComing
<1>1. SingleInv => TimeoutStillComing
  <2> SUFFICES ASSUME SingleInv, NEW f \in Fibers, pc[f] = "held", ~queued[f], op[f].timed
               PROVE  Coming(f) # {}
    BY DEF TimeoutStillComing
  <2>1. TypeOK /\ InTime(f) /\ Waits(f)
    BY DEF SingleInv, HookInv, TimeoutInv, Waits
  <2>2. CASE cancelled[f]
    <3>1. PICK n \in first[f] .. tno[f] : Marked(f, n)
      BY <2>1, <2>2 DEF InTime
    <3>2. n \in Coming(f)
      BY <3>1 DEF Coming, Marked
    <3> QED BY <3>2
  <2>3. CASE ~cancelled[f]
    <3>1. first[f] <= tno[f] /\ timer[f][tno[f]].state \in {"armed", "queued"}
      BY <2>1, <2>3 DEF InTime
    <3>2. tno[f] \in first[f] .. tno[f]
      BY <2>1, <3>1, HookAssumption DEF TypeOK
    <3>3. tno[f] \in Coming(f)
      BY <3>1, <3>2 DEF Coming
    <3> QED BY <3>3
  <2> QED BY <2>2, <2>3
<1> QED BY <1>1, SingleInvariant, PTL
=============================================================================
