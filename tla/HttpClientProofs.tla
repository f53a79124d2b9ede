--------------------------- MODULE HttpClientProofs ---------------------------
(***************************************************************************)
(* Theorems about HttpClient, for every number of clients and connections, *)
(* every length of a request and every value of the pool's limits.         *)
(***************************************************************************)
EXTENDS HttpClient, FiniteSetTheorems, SequenceTheorems, TLAPS

-----------------------------------------------------------------------------
(* Functions and sequences                                                   *)

\* An update with a value of the range keeps a function's type.
LEMMA UpdateType ==
    ASSUME NEW A, NEW B, NEW f \in [A -> B], NEW a, NEW b \in B
    PROVE  [f EXCEPT ![a] = b] \in [A -> B]
OBVIOUS

\* The empty sequence is a sequence over any set.
LEMMA EmptyType == ASSUME NEW S PROVE <<>> \in Seq(S)
OBVIOUS

-----------------------------------------------------------------------------
(* One step: types, locals and the mutex                                     *)

\* A call begins, goes on and ends within the types.
LEMMA GotoType ==
    ASSUME TypeOK, NEW c \in Clients, NEW l \in ClientPC, Goto(c, l)
    PROVE  pc' \in [Clients -> ClientPC]
BY DEF TypeOK, Goto

LEMMA BeginType ==
    ASSUME TypeOK, NEW c \in Clients, NEW m \in {"pool", "user", "static"}, Begin(c, m)
    PROVE  /\ mode' \in [Clients -> {"none", "pool", "user", "static"}]
           /\ calls' \in 0 .. MaxCalls
<1>1. mode' \in [Clients -> {"none", "pool", "user", "static"}]
  BY DEF TypeOK, Begin
<1>2. calls' \in 0 .. MaxCalls
  BY HttpClientAssumption DEF TypeOK, Begin
<1> QED BY <1>1, <1>2

LEMMA OverType ==
    ASSUME TypeOK, NEW c \in Clients, Over(c)
    PROVE  /\ pc' \in [Clients -> ClientPC]
           /\ mode' \in [Clients -> {"none", "pool", "user", "static"}]
           /\ left' \in [Clients -> 0 .. Length + MaxErrors]
           /\ errors' \in [Clients -> 0 .. MaxErrors]
           /\ calls' \in 0 .. MaxCalls
<1>1. pc' \in [Clients -> ClientPC]
  BY GotoType DEF Over, ClientPC
<1>2. mode' \in [Clients -> {"none", "pool", "user", "static"}]
  BY DEF TypeOK, Over
<1>3. left' \in [Clients -> 0 .. Length + MaxErrors] /\ errors' \in [Clients -> 0 .. MaxErrors]
  <2>1. 0 \in 0 .. Length + MaxErrors /\ 0 \in 0 .. MaxErrors
    BY HttpClientAssumption
  <2> QED BY <2>1, UpdateType DEF TypeOK, Over
<1> QED BY <1>1, <1>2, <1>3 DEF TypeOK, Over

\* Every step keeps the types.  writeFixSize's left needs CallInv: a failed send
\* that adds one to it has been counted.
LEMMA TypeStep == ASSUME TypeOK, CallInv, Next PROVE TypeOK'
<1> USE HttpClientAssumption DEF TypeOK, Goto, At, poolVars, connVars, callVars
<1>1. ASSUME NEW c \in Clients,
             \/ \E m \in {"pool", "user"} : CallPool(c, m)
             \/ CallStaticFails(c) \/ Lock(c) \/ Front(c) \/ Unlock(c)
             \/ Count(c) \/ Return(c) \/ Use(c) \/ SendZero(c) \/ PushLock(c)
      PROVE  TypeOK'
  <2>1. CASE \E m \in {"pool", "user"} : CallPool(c, m)
    <3>1. pc' \in [Clients -> ClientPC]
      BY <2>1 DEF CallPool, ClientPC
    <3>2. /\ mode' \in [Clients -> {"none", "pool", "user", "static"}]
          /\ calls' \in 0 .. MaxCalls
      BY <2>1, BeginType DEF CallPool
    <3> QED BY <2>1, <3>1, <3>2 DEF CallPool
  <2>2. CASE CallStaticFails(c)
    <3>1. calls' \in 0 .. MaxCalls
      BY <2>2 DEF CallStaticFails
    <3> QED BY <2>2, <3>1 DEF CallStaticFails
  <2>3. CASE Lock(c)
    BY <2>3 DEF Lock, Acquire, ClientPC
  <2>4. CASE Front(c)
    <3>1. conns_ # <<>> => conns_[1] \in Conns
      OBVIOUS
    <3>2. pc' \in [Clients -> ClientPC]
      <4>1. "unlock" \in ClientPC /\ "pop" \in ClientPC
        BY DEF ClientPC
      <4>2. Goto(c, "unlock") \/ Goto(c, "pop")
        BY <2>4 DEF Front
      <4> QED BY <4>1, <4>2
    <3>3. ptr' \in [Clients -> Conns \cup {NoConn}]
      BY <2>4, <3>1 DEF Front
    <3> QED BY <2>4, <3>2, <3>3 DEF Front
  <2>5. CASE Unlock(c) \/ Return(c)
    BY <2>5 DEF Unlock, Return, Release, ClientPC
  <2>6. CASE Count(c)
    BY <2>6 DEF Count, ClientPC
  <2>9. CASE SendZero(c)
    BY <2>9 DEF SendZero, ClientPC
  <2>7. CASE Use(c)
    <3>1. left' \in [Clients -> 0 .. Length + MaxErrors]
      BY <2>7 DEF Use
    <3>2. pc' \in [Clients -> ClientPC]
      <4>1. "release" \in ClientPC /\ "send" \in ClientPC
        BY DEF ClientPC
      <4>2. Goto(c, "release") \/ Goto(c, "send")
        BY <2>7 DEF Use
      <4> QED BY <4>1, <4>2
    <3> QED BY <2>7, <3>1, <3>2 DEF Use
  <2>8. CASE PushLock(c)
    BY <2>8 DEF PushLock, Acquire, ClientPC
  <2> QED BY <1>1, <2>1, <2>2, <2>3, <2>4, <2>5, <2>6, <2>7, <2>8, <2>9
<1>2. ASSUME NEW c \in Clients, PopFront(c) PROVE TypeOK'
  <2>1. ptr[c] \in Conns
    BY <1>2 DEF PopFront, CallInv, LocalInv
  <2>2. conns_' \in Seq(Conns)
    BY <1>2 DEF PopFront
  <2>3. pc' \in [Clients -> ClientPC]
    <3>1. "scan" \in ClientPC /\ "unlock" \in ClientPC
      BY DEF ClientPC
    <3>2. Goto(c, "scan") \/ Goto(c, "unlock")
      BY <1>2 DEF PopFront
    <3> QED BY <3>1, <3>2
  <2>4. ptr' \in [Clients -> Conns \cup {NoConn}]
    BY <1>2 DEF PopFront
  <2>5. invald_conns' \in [Clients -> SUBSET Conns]
    <3>1. \/ invald_conns' = [invald_conns EXCEPT ![c] = @ \cup {ptr[c]}]
          \/ invald_conns' = invald_conns
      BY <1>2 DEF PopFront
    <3>2. invald_conns[c] \cup {ptr[c]} \in SUBSET Conns
      BY <2>1
    <3> QED BY <3>1, <3>2, UpdateType
  <2> QED BY <1>2, <2>2, <2>3, <2>4, <2>5 DEF PopFront
<1>3. ASSUME NEW c \in Clients, Discard(c) PROVE TypeOK'
  <2>1. request_' \in [Conns -> Nat]
    BY <1>3 DEF Discard
  <2>2. wire' \in [Conns -> Seq(0 .. Length)]
    <3>1. \A k \in Conns : (IF k \in invald_conns[c] THEN <<>> ELSE wire[k]) \in Seq(0 .. Length)
      BY EmptyType
    <3> QED BY <1>3, <3>1 DEF Discard
  <2>3. live' \subseteq Conns /\ pc' \in [Clients -> ClientPC]
    BY <1>3 DEF Discard, ClientPC
  <2> QED BY <1>3, <2>1, <2>2, <2>3 DEF Discard
<1>4. ASSUME NEW c \in Clients, Uncount(c) PROVE TypeOK'
  <2>1. Cardinality(invald_conns[c]) \in Nat
    BY FS_Subset, FS_CardinalityType
  <2>2. pc' \in [Clients -> ClientPC]
    <3>1. "connect" \in ClientPC /\ "return" \in ClientPC
      BY DEF ClientPC
    <3>2. Goto(c, "connect") \/ Goto(c, "return")
      BY <1>4 DEF Uncount
    <3> QED BY <3>1, <3>2
  <2>3. invald_conns' \in [Clients -> SUBSET Conns] /\ total_' \in Int
    BY <1>4, <2>1 DEF Uncount
  <2> QED BY <1>4, <2>2, <2>3 DEF Uncount
<1>5. ASSUME NEW c \in Clients, NEW k \in Conns, Connect(c, k) PROVE TypeOK'
  BY <1>5 DEF Connect, NewConnection, ClientPC
<1>6. ASSUME NEW c \in Clients, NEW k \in Conns, CallStatic(c, k) PROVE TypeOK'
  <2>1. left' \in [Clients -> 0 .. Length + MaxErrors] /\ calls' \in 0 .. MaxCalls
    BY <1>6 DEF CallStatic, Begin
  <2>2. pc' \in [Clients -> ClientPC] /\ mode' \in [Clients -> {"none", "pool", "user", "static"}]
    BY <1>6 DEF CallStatic, Begin, ClientPC
  <2>3. live' \subseteq Conns /\ m_isConnected' \in [Conns -> BOOLEAN]
    BY <1>6 DEF CallStatic, NewConnection
  <2>4. request_' \in [Conns -> Nat] /\ wire' \in [Conns -> Seq(0 .. Length)]
    BY <1>6, UpdateType, EmptyType DEF CallStatic, NewConnection
  <2>5. ptr' \in [Clients -> Conns \cup {NoConn}]
    BY <1>6 DEF CallStatic, NewConnection
  <2> QED BY <1>6, <2>1, <2>2, <2>3, <2>4, <2>5 DEF CallStatic
<1>7. ASSUME NEW c \in Clients, ConnectFails(c) PROVE TypeOK'
  BY <1>7 DEF ConnectFails, Release, Over, ClientPC
<1>8. ASSUME NEW c \in Clients, NEW n \in 1 .. Length + MaxErrors, SendSome(c, n)
      PROVE  TypeOK'
  <2>1. ptr[c] \in Conns /\ left[c] \in Nat /\ n \in Nat /\ n <= left[c]
    BY <1>8 DEF SendSome, CallInv, LocalInv
  <2>2. Bytes(c, n) \in Seq(0 .. Length)
    <3>1. left[c] <= Length + MaxErrors /\ Length \in Nat
      OBVIOUS
    <3> HIDE DEF TypeOK
    <3>2. \A i \in 1 .. n : (IF Length - left[c] + i > 0 THEN Length - left[c] + i ELSE 0) \in 0 .. Length
      BY <2>1, <3>1
    <3>3. Bytes(c, n) \in [1 .. n -> 0 .. Length]
      BY <3>2 DEF Bytes
    <3> QED BY <2>1, <3>3, SeqDef
  <2>3. wire' \in [Conns -> Seq(0 .. Length)]
    BY <1>8, <2>1, <2>2 DEF SendSome
  <2>4. left' \in [Clients -> 0 .. Length + MaxErrors]
    <3>1. left[c] \in 0 .. Length + MaxErrors
      OBVIOUS
    <3> HIDE DEF TypeOK
    <3>3. left[c] - n \in 0 .. Length + MaxErrors
      BY <2>1, <3>1
    <3>2. left' = [left EXCEPT ![c] = left[c] - n]
      BY <1>8 DEF SendSome
    <3>4. left \in [Clients -> 0 .. Length + MaxErrors]
      BY DEF TypeOK
    <3> QED BY <3>2, <3>3, <3>4, UpdateType
  <2>5. pc' \in [Clients -> ClientPC]
    <3>1. "recv" \in ClientPC /\ "send" \in ClientPC
      BY DEF ClientPC
    <3>2. Goto(c, "recv") \/ Goto(c, "send")
      BY <1>8 DEF SendSome
    <3> QED BY <3>1, <3>2
  <2> QED BY <1>8, <2>3, <2>4, <2>5 DEF SendSome
<1>9. ASSUME NEW c \in Clients, SendFails(c) PROVE TypeOK'
  <2>1. left[c] + 1 \in 0 .. Length + MaxErrors /\ errors[c] + 1 \in 0 .. MaxErrors
    <3>1. left[c] <= Length + errors[c] /\ errors[c] < MaxErrors
      BY <1>9 DEF SendFails, CallInv, LocalInv
    <3>2. left[c] \in Nat /\ errors[c] \in Nat /\ Length \in Nat /\ MaxErrors \in Nat
      OBVIOUS
    <3> HIDE DEF TypeOK
    <3> QED BY <3>1, <3>2
  <2>2. left' \in [Clients -> 0 .. Length + MaxErrors] /\ errors' \in [Clients -> 0 .. MaxErrors]
    BY <1>9, <2>1 DEF SendFails
  <2> QED BY <1>9, <2>2 DEF SendFails
<1>10. ASSUME NEW c \in Clients, RecvResponse(c) PROVE TypeOK'
  BY <1>10 DEF RecvResponse, CallInv, LocalInv, ClientPC
<1>11. ASSUME NEW c \in Clients, Drop(c) PROVE TypeOK'
  <2>1. ptr[c] \in Conns
    BY <1>11 DEF Drop, CallInv, LocalInv
  <2>2. live' \subseteq Conns /\ m_isConnected' \in [Conns -> BOOLEAN]
    BY <1>11, <2>1 DEF Drop, Delete
  <2>3. request_' \in [Conns -> Nat]
    <3>1. \/ request_' = [request_ EXCEPT ![ptr[c]] = 0]
          \/ request_' = [request_ EXCEPT ![ptr[c]] = request_[ptr[c]] + 1]
      BY <1>11 DEF Drop, Delete
    <3>2. request_[ptr[c]] + 1 \in Nat
      BY <2>1
    <3> QED BY <3>1, <3>2, UpdateType
  <2>4. wire' \in [Conns -> Seq(0 .. Length)]
    <3>1. wire' = [wire EXCEPT ![ptr[c]] = <<>>] \/ wire' = wire
      BY <1>11 DEF Drop, Delete
    <3> QED BY <3>1, UpdateType, EmptyType
  <2>5. ptr' \in [Clients -> Conns \cup {NoConn}]
    BY <1>11 DEF Drop
  <2>6. pc' \in [Clients -> ClientPC]
    <3>1. "dropped" \in ClientPC /\ "pushlock" \in ClientPC
      BY DEF ClientPC
    <3>2. Goto(c, "dropped") \/ Goto(c, "pushlock")
      BY <1>11 DEF Drop
    <3> QED BY <3>1, <3>2
  <2> QED BY <1>11, <2>2, <2>3, <2>4, <2>5, <2>6 DEF Drop
<1>12. ASSUME NEW c \in Clients, DropUncount(c) PROVE TypeOK'
  BY <1>12 DEF DropUncount, Over, ClientPC
<1>13. ASSUME NEW c \in Clients, DropStatic(c) PROVE TypeOK'
  <2>1. ptr[c] \in Conns
    BY <1>13 DEF DropStatic, CallInv, LocalInv
  <2>2. live' \subseteq Conns /\ m_isConnected' \in [Conns -> BOOLEAN]
    BY <1>13, <2>1 DEF DropStatic, Delete
  <2>3. request_' \in [Conns -> Nat] /\ wire' \in [Conns -> Seq(0 .. Length)]
    BY <1>13, UpdateType, EmptyType DEF DropStatic, Delete
  <2>4. ptr' \in [Clients -> Conns \cup {NoConn}]
    BY <1>13 DEF DropStatic
  <2>5. Over(c) /\ UNCHANGED <<poolVars, invald_conns>>
    BY <1>13 DEF DropStatic
  <2> QED BY <2>2, <2>3, <2>4, <2>5, OverType
<1>14. ASSUME NEW c \in Clients, PushBack(c) PROVE TypeOK'
  <2>1. conns_' \in Seq(Conns)
    BY <1>14 DEF PushBack, CallInv, LocalInv
  <2>2. Over(c) /\ UNCHANGED <<total_, connVars, invald_conns>>
    BY <1>14 DEF PushBack
  <2>3. mutex_' \in Clients \cup {NoClient} /\ broken' \in BOOLEAN
    BY <1>14 DEF PushBack, Release
  <2>4. ptr' \in [Clients -> Conns \cup {NoConn}]
    BY <1>14 DEF PushBack
  <2> QED BY <2>1, <2>2, <2>3, <2>4, OverType
<1>15. ASSUME NEW k \in Conns, CloseKeptSocket(k) PROVE TypeOK'
  BY <1>15 DEF CloseKeptSocket
<1> QED BY <1>1, <1>2, <1>3, <1>4, <1>5, <1>6, <1>7, <1>8, <1>9, <1>10, <1>11, <1>12,
           <1>13, <1>14, <1>15
        DEF Next, ClientStep

\* Every step leaves a client that works on conns_ the holder of mutex_, or breaks
\* the lock.
LEMMA MutexStep == ASSUME TypeOK, MutexInv, Next PROVE MutexInv'
<1> USE HttpClientAssumption DEF TypeOK, MutexInv, Goto, At, poolVars
<1>1. ASSUME NEW c \in Clients, Lock(c) \/ PushLock(c) PROVE MutexInv'
  BY <1>1 DEF Lock, PushLock, Acquire
<1>2. ASSUME NEW c \in Clients, Unlock(c) \/ ConnectFails(c) \/ Return(c) \/ PushBack(c)
      PROVE  MutexInv'
  BY <1>2 DEF Unlock, ConnectFails, Return, PushBack, Release, Over
<1>3. ASSUME NEW c \in Clients, Front(c) \/ PopFront(c) PROVE MutexInv'
  <2>1. UNCHANGED <<mutex_, broken>> /\ pc[c] \in {"scan", "pop"}
    BY <1>3 DEF Front, PopFront
  <2>2. \A d \in Clients : d # c => pc'[d] = pc[d]
    BY <1>3 DEF Front, PopFront
  <2> QED BY <2>1, <2>2
<1>4. ASSUME NEW c \in Clients, UNCHANGED <<mutex_, broken>>,
             \E l \in ClientPC \ {"scan", "pop", "unlock", "push"} : Goto(c, l)
      PROVE  MutexInv'
  BY <1>4
<1>5. ASSUME UNCHANGED <<mutex_, broken, pc>> PROVE MutexInv'
  BY <1>5
<1>6. ASSUME NEW c \in Clients,
             \/ \E m \in {"pool", "user"} : CallPool(c, m)
             \/ \E k \in Conns : Connect(c, k) \/ CallStatic(c, k)
             \/ \E n \in 1 .. Length + MaxErrors : SendSome(c, n)
             \/ Discard(c) \/ Uncount(c) \/ Count(c) \/ Use(c) \/ SendZero(c)
             \/ RecvResponse(c) \/ Drop(c) \/ DropUncount(c) \/ DropStatic(c)
      PROVE  MutexInv'
  <2>1. UNCHANGED <<mutex_, broken>>
    BY <1>6 DEF CallPool, Connect, CallStatic, SendSome, Discard, Uncount, Count, Use,
       SendZero, RecvResponse, Drop, DropUncount, DropStatic
  <2>2. \E l \in ClientPC \ {"scan", "pop", "unlock", "push"} : Goto(c, l)
    BY <1>6 DEF CallPool, Connect, CallStatic, SendSome, Discard, Uncount, Count, Use,
       SendZero, RecvResponse, Drop, DropUncount, DropStatic, Over, ClientPC
  <2> QED BY <1>4, <2>1, <2>2
<1>7. ASSUME NEW c \in Clients, CallStaticFails(c) \/ SendFails(c) PROVE MutexInv'
  BY <1>5, <1>7 DEF CallStaticFails, SendFails
<1>8. ASSUME NEW k \in Conns, CloseKeptSocket(k) PROVE MutexInv'
  BY <1>5, <1>8 DEF CloseKeptSocket
<1> QED BY <1>1, <1>2, <1>3, <1>6, <1>7, <1>8 DEF Next, ClientStep

\* A step of client c.
StepOf(c) ==
    \/ ClientStep(c)
    \/ \E m \in {"pool", "user"} : CallPool(c, m)
    \/ CallStaticFails(c)
    \/ \E k \in Conns : CallStatic(c, k)
    \/ \E n \in 1 .. Length + MaxErrors : SendSome(c, n)
    \/ SendZero(c) \/ SendFails(c)

\* The locals of the other clients.
SameLocals(d) ==
    /\ pc'[d] = pc[d] /\ ptr'[d] = ptr[d] /\ invald_conns'[d] = invald_conns[d]
    /\ mode'[d] = mode[d] /\ left'[d] = left[d] /\ errors'[d] = errors[d]

\* A client changes its own locals only.
LEMMA OthersKeep ==
    ASSUME TypeOK, NEW c \in Clients, NEW d \in Clients, d # c, StepOf(c)
    PROVE  SameLocals(d)
<1> USE DEF TypeOK, SameLocals, Goto, Over, Begin, NewConnection, callVars
<1>1. CASE Lock(c) \/ Front(c) \/ PopFront(c) \/ Unlock(c) \/ Discard(c) \/ Uncount(c)
  BY <1>1 DEF Lock, Front, PopFront, Unlock, Discard, Uncount
<1>2. CASE (\E k \in Conns : Connect(c, k)) \/ ConnectFails(c) \/ Count(c) \/ Return(c)
  BY <1>2 DEF Connect, ConnectFails, Count, Return
<1>3. CASE Use(c) \/ RecvResponse(c) \/ Drop(c) \/ DropUncount(c) \/ DropStatic(c)
  BY <1>3 DEF Use, RecvResponse, Drop, DropUncount, DropStatic
<1>4. CASE PushLock(c) \/ PushBack(c)
  BY <1>4 DEF PushLock, PushBack
<1>5. CASE (\E m \in {"pool", "user"} : CallPool(c, m)) \/ CallStaticFails(c)
           \/ (\E k \in Conns : CallStatic(c, k))
  BY <1>5 DEF CallPool, CallStaticFails, CallStatic
<1>6. CASE (\E n \in 1 .. Length + MaxErrors : SendSome(c, n)) \/ SendZero(c) \/ SendFails(c)
  BY <1>6 DEF SendSome, SendZero, SendFails
<1> QED BY <1>1, <1>2, <1>3, <1>4, <1>5, <1>6 DEF StepOf, ClientStep

\* conns_ is changed by the holder of mutex_ only, so under a client between
\* begin() and pop_front() it stays as it is.
LEMMA ListGuarded ==
    ASSUME TypeOK, MutexInv, NEW c \in Clients, NEW d \in Clients, d # c, StepOf(c),
           pc[d] = "pop"
    PROVE  conns_' = conns_
<1>1. CASE PopFront(c) \/ PushBack(c)
  BY <1>1 DEF PopFront, PushBack, At, MutexInv
<1> QED BY <1>1 DEF StepOf, ClientStep, Lock, Front, Unlock, Discard, Uncount, Connect,
        ConnectFails, Count, Return, Use, RecvResponse, Drop, DropUncount, DropStatic, PushLock,
        CallPool, CallStaticFails, CallStatic, SendSome, SendZero, SendFails, poolVars

\* Every step leaves each client with what its place says.
LEMMA CallStep == ASSUME TypeOK, MutexInv, CallInv, Next, TypeOK' PROVE CallInv'
<1> USE HttpClientAssumption DEF LocalInv, Goto, At, poolVars, connVars, callVars
<1>1. ASSUME NEW c \in Clients, StepOf(c) PROVE LocalInv(c)'
  <2>a. LocalInv(c)
    BY DEF CallInv
  <2>b. /\ left[c] \in Nat /\ errors[c] \in Nat /\ Length \in Nat
        /\ c \in DOMAIN pc /\ c \in DOMAIN ptr /\ c \in DOMAIN invald_conns /\ c \in DOMAIN mode
        /\ c \in DOMAIN left /\ c \in DOMAIN errors
    BY DEF TypeOK
  <2>1. CASE Lock(c)
    BY <2>1, <2>a, <2>b DEF Lock
  <2>2. CASE Front(c)
    <3>1. CASE conns_ = <<>>
      BY <2>2, <3>1, <2>a, <2>b DEF Front
    <3>2. CASE conns_ # <<>>
      <4>1. conns_[1] \in Conns
        BY <3>2 DEF TypeOK
      <4> QED BY <2>2, <3>2, <4>1, <2>a, <2>b DEF Front
    <3> QED BY <3>1, <3>2
  <2>3. CASE PopFront(c)
    BY <2>3, <2>a, <2>b DEF PopFront
  <2>4. CASE Unlock(c) \/ Discard(c)
    BY <2>4, <2>a, <2>b DEF Unlock, Discard
  <2>5. CASE Uncount(c)
    <3>1. ptr[c] \in Conns \cup {NoConn}
      BY DEF TypeOK
    <3> QED BY <2>5, <2>a, <2>b, <3>1 DEF Uncount
  <2>6. ASSUME NEW k \in Conns, Connect(c, k) PROVE LocalInv(c)'
    BY <2>6, <2>a, <2>b DEF Connect, NewConnection
  <2>7. CASE ConnectFails(c) \/ DropUncount(c)
    BY <2>7, <2>a, <2>b DEF ConnectFails, DropUncount, Over
  <2>8. CASE Count(c) \/ Return(c) \/ Use(c)
    BY <2>8, <2>a, <2>b DEF Count, Return, Use
  <2>9. CASE RecvResponse(c)
    BY <2>9, <2>a, <2>b DEF RecvResponse
  <2>10. CASE Drop(c)
    BY <2>10, <2>a, <2>b DEF Drop
  <2>11. CASE DropStatic(c) \/ PushBack(c)
    <3>1. /\ pc'[c] = "idle" /\ ptr'[c] = NoConn /\ mode'[c] = "none" /\ left'[c] = 0
          /\ errors' = [errors EXCEPT ![c] = 0] /\ invald_conns' = invald_conns
          /\ pc[c] \in {"release", "push"}
      BY <2>11, <2>b DEF DropStatic, PushBack, Over
    <3> QED BY <2>a, <2>b, <3>1
  <2>12. CASE PushLock(c)
    BY <2>12, <2>a, <2>b DEF PushLock
  <2>13. ASSUME NEW m \in {"pool", "user"}, CallPool(c, m) PROVE LocalInv(c)'
    BY <2>13, <2>a, <2>b DEF CallPool, Begin
  <2>14. CASE CallStaticFails(c) \/ SendZero(c)
    BY <2>14, <2>a, <2>b DEF CallStaticFails, SendZero
  <2>15. ASSUME NEW k \in Conns, CallStatic(c, k) PROVE LocalInv(c)'
    BY <2>15, <2>a, <2>b DEF CallStatic, Begin, NewConnection
  <2>16. ASSUME NEW n \in 1 .. Length + MaxErrors, SendSome(c, n) PROVE LocalInv(c)'
    BY <2>16, <2>a, <2>b DEF SendSome
  <2>17. CASE SendFails(c)
    BY <2>17, <2>a, <2>b DEF SendFails
  <2> QED BY <1>1, <2>1, <2>2, <2>3, <2>4, <2>5, <2>6, <2>7, <2>8, <2>9, <2>10, <2>11, <2>12,
             <2>13, <2>14, <2>15, <2>16, <2>17
          DEF StepOf, ClientStep
<1>2. ASSUME NEW c \in Clients, StepOf(c), NEW d \in Clients, d # c PROVE LocalInv(d)'
  BY <1>2, OthersKeep, ListGuarded DEF SameLocals, CallInv
<1>3. ASSUME NEW k \in Conns, CloseKeptSocket(k) PROVE CallInv'
  BY <1>3 DEF CloseKeptSocket, CallInv
<1> QED BY <1>1, <1>2, <1>3 DEF Next, StepOf, CallInv

-----------------------------------------------------------------------------
(* One step: where the connections are                                       *)

\* A step that moves no connection keeps PlaceInv.
LEMMA PlaceFrame ==
    ASSUME PlaceInv, UNCHANGED <<conns_, live>>,
           \A d \in Clients, k \in Conns :
               (InHand(d, k)' <=> InHand(d, k)) /\ (InBin(d, k)' <=> InBin(d, k)),
           TypeOK
    PROVE  PlaceInv'
<1>1. \A k \in Conns : Listed(k)' <=> Listed(k)
  BY DEF Listed
<1> QED BY <1>1 DEF PlaceInv, TypeOK

\* conns_.push_back of a connection that is not in the list.
LEMMA ListedAppend ==
    ASSUME TypeOK, NEW k \in Conns, conns_' = Append(conns_, k)
    PROVE  /\ \A j \in Conns : Listed(j)' <=> Listed(j) \/ j = k
           /\ (~Listed(k) /\ \A i, j \in 1 .. Len(conns_) : conns_[i] = conns_[j] => i = j) =>
              \A i, j \in 1 .. Len(conns_') : conns_'[i] = conns_'[j] => i = j
<1>1. /\ Len(conns_) \in Nat /\ Len(conns_') = Len(conns_) + 1
      /\ conns_'[Len(conns_) + 1] = k
      /\ \A i \in 1 .. Len(conns_) : conns_'[i] = conns_[i]
  BY DEF TypeOK
<1>2. \A j \in Conns : Listed(j)' <=> Listed(j) \/ j = k
  BY <1>1 DEF Listed
<1>3. ASSUME ~Listed(k), \A i, j \in 1 .. Len(conns_) : conns_[i] = conns_[j] => i = j,
             NEW i \in 1 .. Len(conns_'), NEW j \in 1 .. Len(conns_'), conns_'[i] = conns_'[j]
      PROVE  i = j
  <2>1. i \in 1 .. Len(conns_) \/ i = Len(conns_) + 1
    BY <1>1
  <2>2. j \in 1 .. Len(conns_) \/ j = Len(conns_) + 1
    BY <1>1
  <2>3. \A h \in 1 .. Len(conns_) : conns_[h] # k
    BY <1>3 DEF Listed
  <2> QED BY <1>1, <1>3, <2>1, <2>2, <2>3
<1> QED BY <1>2, <1>3

\* conns_.pop_front of a list without duplicates.
LEMMA ListedTail ==
    ASSUME TypeOK, conns_ # <<>>, conns_' = Tail(conns_),
           \A i, j \in 1 .. Len(conns_) : conns_[i] = conns_[j] => i = j
    PROVE  /\ conns_[1] \in Conns /\ Listed(conns_[1])
           /\ \A j \in Conns : Listed(j)' <=> Listed(j) /\ j # conns_[1]
           /\ \A i, j \in 1 .. Len(conns_') : conns_'[i] = conns_'[j] => i = j
<1>1. /\ Len(conns_) \in Nat /\ Len(conns_) > 0 /\ Len(conns_') = Len(conns_) - 1
      /\ \A i \in 1 .. Len(conns_') : conns_'[i] = conns_[i + 1]
  BY DEF TypeOK
<1>2. conns_[1] \in Conns /\ Listed(conns_[1])
  BY <1>1 DEF TypeOK, Listed
<1>3. ASSUME NEW j \in Conns PROVE Listed(j)' <=> Listed(j) /\ j # conns_[1]
  <2>1. ASSUME Listed(j)' PROVE Listed(j) /\ j # conns_[1]
    <3>1. PICK i \in 1 .. Len(conns_') : conns_'[i] = j
      BY <2>1 DEF Listed
    <3>2. i + 1 \in 1 .. Len(conns_) /\ conns_[i + 1] = j /\ i + 1 # 1 /\ 1 \in 1 .. Len(conns_)
      BY <1>1, <3>1
    <3> QED BY <3>2 DEF Listed
  <2>2. ASSUME Listed(j), j # conns_[1] PROVE Listed(j)'
    <3>1. PICK i \in 1 .. Len(conns_) : conns_[i] = j
      BY <2>2 DEF Listed
    <3>2. i - 1 \in 1 .. Len(conns_') /\ conns_'[i - 1] = j
      BY <1>1, <2>2, <3>1
    <3> QED BY <3>2 DEF Listed
  <2> QED BY <2>1, <2>2
<1>4. \A i, j \in 1 .. Len(conns_') : conns_'[i] = conns_'[j] => i = j
  BY <1>1
<1> QED BY <1>2, <1>3, <1>4

\* The steps that move no connection.
Still(c) ==
    \/ Lock(c) \/ Front(c) \/ Unlock(c) \/ Uncount(c)
    \/ ConnectFails(c) \/ Count(c) \/ Return(c) \/ Use(c) \/ RecvResponse(c)
    \/ DropUncount(c) \/ PushLock(c) \/ CallStaticFails(c) \/ SendZero(c) \/ SendFails(c)
    \/ \E m \in {"pool", "user"} : CallPool(c, m)
    \/ \E n \in 1 .. Length + MaxErrors : SendSome(c, n)
    \/ Drop(c) /\ ~Spent(c)

\* They keep PlaceInv.  Front is one of them: until pop_front the connection it
\* looks at is in the list and in nobody's hands.
LEMMA PlaceStill ==
    ASSUME TypeOK, CallInv, PlaceInv, NEW c \in Clients, Still(c) PROVE PlaceInv'
<1> USE HttpClientAssumption
<1>a. LocalInv(c)
  BY DEF CallInv
<1>b. /\ c \in DOMAIN pc /\ c \in DOMAIN ptr /\ c \in DOMAIN invald_conns
      /\ ptr[c] \in Conns \cup {NoConn}
  BY DEF TypeOK
<1>1. ASSUME NEW d \in Clients, d # c, NEW k \in Conns
      PROVE  (InHand(d, k)' <=> InHand(d, k)) /\ (InBin(d, k)' <=> InBin(d, k))
  BY <1>1, OthersKeep DEF SameLocals, InHand, InBin, Still, StepOf, ClientStep
<1>2. ASSUME NEW k \in Conns
      PROVE  (InHand(c, k)' <=> InHand(c, k)) /\ (InBin(c, k)' <=> InBin(c, k))
  <2> USE DEF InHand, InBin, LocalInv, Goto, At, callVars
  <2>1. CASE Lock(c) \/ Front(c) \/ Unlock(c) \/ Uncount(c)
    BY <1>a, <1>b, <2>1 DEF Lock, Front, Unlock, Uncount
  <2>2. CASE ConnectFails(c) \/ Count(c) \/ Return(c) \/ Use(c) \/ RecvResponse(c)
    BY <1>a, <1>b, <2>2 DEF ConnectFails, Count, Return, Use, RecvResponse, Over
  <2>3. CASE DropUncount(c) \/ PushLock(c) \/ CallStaticFails(c) \/ SendZero(c) \/ SendFails(c)
    BY <1>a, <1>b, <2>3 DEF DropUncount, PushLock, CallStaticFails, SendZero, SendFails, Over
  <2>4. CASE \/ \E m \in {"pool", "user"} : CallPool(c, m)
             \/ \E n \in 1 .. Length + MaxErrors : SendSome(c, n)
    BY <1>a, <1>b, <2>4 DEF CallPool, SendSome, Begin
  <2>5. CASE Drop(c) /\ ~Spent(c)
    BY <1>a, <1>b, <2>5 DEF Drop
  <2> QED BY <2>1, <2>2, <2>3, <2>4, <2>5 DEF Still
<1>3. UNCHANGED <<conns_, live>>
  BY DEF Still, Lock, Front, Unlock, Uncount, ConnectFails, Count, Return, Use, RecvResponse,
     DropUncount, PushLock, CallStaticFails, SendZero, SendFails, CallPool, SendSome, Drop,
     poolVars, connVars
<1> QED BY <1>1, <1>2, <1>3, PlaceFrame

\* Every step keeps each connection that exists in one place, and a deleted one in
\* none.
LEMMA PlaceStep == ASSUME TypeOK, MutexInv, CallInv, PlaceInv, Next PROVE PlaceInv'
<1> USE HttpClientAssumption
<1>a. ASSUME NEW c \in Clients
      PROVE  /\ LocalInv(c)
             /\ c \in DOMAIN pc /\ c \in DOMAIN ptr /\ c \in DOMAIN invald_conns
             /\ ptr[c] \in Conns \cup {NoConn} /\ invald_conns[c] \subseteq Conns
  BY DEF CallInv, TypeOK
<1>b. ASSUME NEW c \in Clients, StepOf(c), NEW d \in Clients, d # c, NEW k \in Conns
      PROVE  (InHand(d, k)' <=> InHand(d, k)) /\ (InBin(d, k)' <=> InBin(d, k))
  BY <1>b, OthersKeep DEF SameLocals, InHand, InBin
<1>c. live \subseteq Conns
  BY DEF TypeOK
<1>1. ASSUME NEW c \in Clients, NEW k \in Conns, Connect(c, k) \/ CallStatic(c, k) PROVE PlaceInv'
  <2>1. StepOf(c)
    BY <1>1 DEF StepOf, ClientStep
  <2>2. /\ \A j \in Conns : InHand(c, j)' <=> j = k
        /\ \A j \in Conns : ~InHand(c, j) /\ ~InBin(c, j) /\ ~InBin(c, j)'
    BY <1>1, <1>a DEF Connect, CallStatic, NewConnection, Begin, Goto, At, InHand, InBin, LocalInv
  <2>3. k \notin live /\ live' = live \cup {k} /\ conns_' = conns_
    BY <1>1 DEF Connect, CallStatic, NewConnection, poolVars
  <2>4. \A j \in Conns : Listed(j)' <=> Listed(j)
    BY <2>3 DEF Listed
  <2> QED BY <1>b, <1>c, <2>1, <2>2, <2>3, <2>4 DEF PlaceInv
<1>2. ASSUME NEW c \in Clients, (Drop(c) /\ Spent(c)) \/ DropStatic(c) PROVE PlaceInv'
  <2>1. StepOf(c)
    BY <1>2 DEF StepOf, ClientStep
  <2>2. /\ ptr[c] \in Conns /\ InHand(c, ptr[c])
        /\ \A j \in Conns : InHand(c, j) => j = ptr[c]
        /\ \A j \in Conns : ~InHand(c, j)' /\ ~InBin(c, j) /\ ~InBin(c, j)'
    BY <1>2, <1>a DEF Drop, DropStatic, Goto, Over, At, InHand, InBin, LocalInv
  <2>3. live' = live \ {ptr[c]} /\ conns_' = conns_
    BY <1>2 DEF Drop, DropStatic, Delete, poolVars
  <2>4. \A j \in Conns : Listed(j)' <=> Listed(j)
    BY <2>3 DEF Listed
  <2> QED BY <1>b, <1>c, <2>1, <2>2, <2>3, <2>4 DEF PlaceInv
<1>3. ASSUME NEW c \in Clients, Discard(c) PROVE PlaceInv'
  <2>1. StepOf(c)
    BY <1>3 DEF StepOf, ClientStep
  <2>2. \A j \in Conns : /\ InHand(c, j)' <=> InHand(c, j)
                         /\ InBin(c, j) <=> j \in invald_conns[c]
                         /\ ~InBin(c, j)'
    BY <1>3, <1>a DEF Discard, Goto, At, InHand, InBin
  <2>3. live' = live \ invald_conns[c] /\ conns_' = conns_
    BY <1>3 DEF Discard, poolVars
  <2>4. \A j \in Conns : Listed(j)' <=> Listed(j)
    BY <2>3 DEF Listed
  <2> QED BY <1>b, <1>c, <2>1, <2>2, <2>3, <2>4 DEF PlaceInv
<1>4. ASSUME NEW c \in Clients, PopFront(c) PROVE PlaceInv'
  <2>1. StepOf(c)
    BY <1>4 DEF StepOf, ClientStep
  <2>2. /\ ptr[c] \in Conns /\ ptr[c] = conns_[1] /\ Listed(ptr[c])
        /\ \A j \in Conns : Listed(j)' <=> Listed(j) /\ j # ptr[c]
        /\ \A i, j \in 1 .. Len(conns_') : conns_'[i] = conns_'[j] => i = j
    BY <1>4, <1>a, ListedTail DEF PopFront, At, LocalInv, PlaceInv
  <2>3. live' = live
    BY <1>4 DEF PopFront, connVars
  <2>4. \A j \in Conns : ~InHand(c, j) /\ (InBin(c, j) <=> j \in invald_conns[c])
    BY <1>4 DEF PopFront, At, InHand, InBin
  <2>5. CASE ~m_isConnected[ptr[c]] \/ Expired
    <3>1. \A j \in Conns : ~InHand(c, j)' /\ (InBin(c, j)' <=> InBin(c, j) \/ j = ptr[c])
      BY <1>4, <1>a, <2>4, <2>5 DEF PopFront, Goto, InHand, InBin
    <3> QED BY <1>b, <1>c, <2>1, <2>2, <2>3, <2>4, <3>1 DEF PlaceInv
  <2>6. CASE ~(~m_isConnected[ptr[c]] \/ Expired)
    <3>1. \A j \in Conns : (InHand(c, j)' <=> j = ptr[c]) /\ (InBin(c, j)' <=> InBin(c, j))
      BY <1>4, <1>a, <2>4, <2>6 DEF PopFront, Goto, InHand, InBin
    <3>2. \A d \in Clients, j \in Conns : InBin(d, j)' <=> InBin(d, j)
      BY <1>b, <2>1, <3>1
    <3>3. \A d \in Clients, j \in Conns : InHand(d, j)' <=> InHand(d, j) \/ (d = c /\ j = ptr[c])
      BY <1>b, <2>1, <2>4, <3>1
    <3>4. /\ ptr[c] \in live
          /\ \A d \in Clients : ~InHand(d, ptr[c]) /\ ~InBin(d, ptr[c])
      BY <2>2 DEF PlaceInv
    <3> QED BY <1>c, <2>2, <2>3, <3>2, <3>3, <3>4 DEF PlaceInv
  <2> QED BY <2>5, <2>6
<1>5. ASSUME NEW c \in Clients, PushBack(c) PROVE PlaceInv'
  <2>1. StepOf(c)
    BY <1>5 DEF StepOf, ClientStep
  <2>2. /\ ptr[c] \in Conns /\ InHand(c, ptr[c])
        /\ \A j \in Conns : InHand(c, j) => j = ptr[c]
        /\ \A j \in Conns : ~InHand(c, j)' /\ ~InBin(c, j) /\ ~InBin(c, j)'
    BY <1>5, <1>a DEF PushBack, Goto, Over, At, InHand, InBin, LocalInv
  <2>3. live' = live /\ conns_' = Append(conns_, ptr[c])
    BY <1>5 DEF PushBack, connVars
  <2>4. ~Listed(ptr[c])
    BY <2>2 DEF PlaceInv
  <2>5. /\ \A j \in Conns : Listed(j)' <=> Listed(j) \/ j = ptr[c]
        /\ \A i, j \in 1 .. Len(conns_') : conns_'[i] = conns_'[j] => i = j
    BY <2>2, <2>3, <2>4, ListedAppend DEF PlaceInv
  <2> QED BY <1>b, <1>c, <2>1, <2>2, <2>3, <2>5 DEF PlaceInv
<1>6. ASSUME NEW k \in Conns, CloseKeptSocket(k) PROVE PlaceInv'
  <2>1. UNCHANGED <<conns_, live, ptr, pc, invald_conns>>
    BY <1>6 DEF CloseKeptSocket, poolVars
  <2> QED BY <2>1 DEF PlaceInv, InHand, InBin, Listed
<1> QED BY <1>1, <1>2, <1>3, <1>4, <1>5, <1>6, PlaceStill DEF Next, ClientStep, Still

-----------------------------------------------------------------------------
(* One step: total_                                                          *)

\* Both sets that TotalInv counts are finite.
LEMMA CountedFinite ==
    /\ IsFiniteSet(Taken) /\ Cardinality(Taken) \in Nat
    /\ IsFiniteSet(Binned) /\ Cardinality(Binned) \in Nat
<1>1. IsFiniteSet(Taken)
  BY HttpClientAssumption, FS_Subset DEF Taken
<1>2. IsFiniteSet(Clients \X Conns)
  BY HttpClientAssumption, FS_Product
<1>3. IsFiniteSet(Binned)
  BY <1>2, FS_Subset DEF Binned
<1> QED BY <1>1, <1>3, FS_CardinalityType

\* A client's step changes the number of connections taken by what it does to its
\* own membership.
LEMMA TakenStep ==
    ASSUME TypeOK, NEW c \in Clients, StepOf(c)
    PROVE  /\ (c \in Taken <=> c \in Taken') => Cardinality(Taken') = Cardinality(Taken)
           /\ c \notin Taken /\ c \in Taken' => Cardinality(Taken') = Cardinality(Taken) + 1
           /\ c \in Taken /\ c \notin Taken' => Cardinality(Taken') = Cardinality(Taken) - 1
<1>1. \A d \in Clients : d # c => (d \in Taken <=> d \in Taken')
  BY OthersKeep DEF SameLocals, Taken
<1>2. Taken \subseteq Clients /\ Taken' \subseteq Clients
  BY DEF Taken
<1>3. ASSUME c \in Taken <=> c \in Taken' PROVE Taken' = Taken
  BY <1>1, <1>2, <1>3
<1>4. ASSUME c \notin Taken, c \in Taken' PROVE Taken' = Taken \cup {c}
  BY <1>1, <1>2, <1>4
<1>5. ASSUME c \in Taken, c \notin Taken' PROVE Taken' = Taken \ {c}
  BY <1>1, <1>2, <1>5
<1>6. ASSUME c \notin Taken, c \in Taken' PROVE Cardinality(Taken') = Cardinality(Taken) + 1
  BY <1>4, <1>6, CountedFinite, FS_AddElement
<1>7. ASSUME c \in Taken, c \notin Taken' PROVE Cardinality(Taken') = Cardinality(Taken) - 1
  BY <1>5, <1>7, CountedFinite, FS_RemoveElement
<1> QED BY <1>3, <1>6, <1>7

\* An invalid connection is added to those its finder keeps.
LEMMA BinnedAdd ==
    ASSUME TypeOK, NEW c \in Clients, NEW k \in Conns, k \notin invald_conns[c],
           invald_conns' = [invald_conns EXCEPT ![c] = @ \cup {k}]
    PROVE  Cardinality(Binned') = Cardinality(Binned) + 1
<1>1. Binned' = Binned \cup {<<c, k>>} /\ <<c, k>> \notin Binned
  BY DEF TypeOK, Binned
<1> QED BY <1>1, CountedFinite, FS_AddElement

\* total_ -= invald_conns.size() and the end of the list.
LEMMA BinnedClear ==
    ASSUME TypeOK, NEW c \in Clients, invald_conns' = [invald_conns EXCEPT ![c] = {}]
    PROVE  /\ Cardinality(invald_conns[c]) \in Nat
           /\ Cardinality(Binned') = Cardinality(Binned) - Cardinality(invald_conns[c])
<1> DEFINE mine == {c} \X invald_conns[c]
<1>1. IsFiniteSet(invald_conns[c]) /\ Cardinality(invald_conns[c]) \in Nat
  BY HttpClientAssumption, FS_Subset, FS_CardinalityType DEF TypeOK
<1>2. Cardinality(mine) = Cardinality(invald_conns[c])
  <2>1. IsFiniteSet({c}) /\ Cardinality({c}) = 1
    BY FS_Singleton
  <2>2. Cardinality(mine) = Cardinality({c}) * Cardinality(invald_conns[c])
    BY <1>1, <2>1, FS_Product
  <2> QED BY <1>1, <2>1, <2>2
<1>3. Binned' = Binned \ mine /\ Binned \cap mine = mine
  BY DEF TypeOK, Binned
<1>4. Cardinality(Binned \ mine) = Cardinality(Binned) - Cardinality(Binned \cap mine)
  BY CountedFinite, FS_Difference
<1> QED BY <1>1, <1>2, <1>3, <1>4

\* Every step keeps total_ equal to the connections in the list, in hands that
\* total_ counts, and in lists of invalid connections.
LEMMA TotalStep ==
    ASSUME TypeOK, CallInv, PlaceInv, TotalInv, Next PROVE TotalInv'
<1> USE HttpClientAssumption DEF Goto, At, poolVars, connVars, callVars
<1>a. ASSUME NEW c \in Clients
      PROVE  /\ LocalInv(c)
             /\ c \in DOMAIN pc /\ c \in DOMAIN ptr /\ c \in DOMAIN mode
             /\ ptr[c] \in Conns \cup {NoConn}
  BY DEF CallInv, TypeOK
<1>b. /\ total_ \in Int /\ Len(conns_) \in Nat
      /\ Cardinality(Taken) \in Nat /\ Cardinality(Binned) \in Nat
  BY CountedFinite DEF TypeOK
<1>1. ASSUME NEW c \in Clients, Uncount(c) PROVE TotalInv'
  <2>1. Cardinality(Taken') = Cardinality(Taken)
    <3>1. c \in Taken <=> c \in Taken'
      BY <1>1, <1>a DEF Uncount, Taken
    <3> QED BY <1>1, <3>1, TakenStep DEF StepOf, ClientStep
  <2>2. /\ Cardinality(invald_conns[c]) \in Nat
        /\ Cardinality(Binned') = Cardinality(Binned) - Cardinality(invald_conns[c])
    BY <1>1, BinnedClear DEF Uncount
  <2>3. total_' = total_ - Cardinality(invald_conns[c]) /\ conns_' = conns_
    BY <1>1 DEF Uncount
  <2> QED BY <1>b, <2>1, <2>2, <2>3 DEF TotalInv
<1>2. ASSUME NEW c \in Clients, PopFront(c) PROVE TotalInv'
  <2>1. StepOf(c)
    BY <1>2 DEF StepOf, ClientStep
  <2>2. Len(conns_') = Len(conns_) - 1 /\ total_' = total_
    BY <1>2 DEF PopFront, TypeOK
  <2>3. c \notin Taken
    BY <1>2 DEF PopFront, Taken
  <2>4. CASE ~m_isConnected[ptr[c]] \/ Expired
    <3>1. Cardinality(Taken') = Cardinality(Taken)
      <4>1. c \notin Taken'
        BY <1>2, <1>a, <2>4 DEF PopFront, Taken
      <4> QED BY <2>1, <2>3, <4>1, TakenStep
    <3>2. Cardinality(Binned') = Cardinality(Binned) + 1
      <4>1. ptr[c] \in Conns /\ ptr[c] = conns_[1] /\ conns_ # <<>>
        BY <1>2, <1>a DEF PopFront, LocalInv
      <4>2. Listed(ptr[c])
        <5>1. 1 \in 1 .. Len(conns_)
          BY <4>1 DEF TypeOK
        <5> QED BY <4>1, <5>1 DEF Listed
      <4>3. ~InBin(c, ptr[c])
        BY <4>1, <4>2 DEF PlaceInv
      <4>4. ptr[c] \notin invald_conns[c]
        BY <1>2, <4>3 DEF PopFront, InBin
      <4>5. invald_conns' = [invald_conns EXCEPT ![c] = @ \cup {ptr[c]}]
        BY <1>2, <2>4 DEF PopFront
      <4> QED BY <4>1, <4>4, <4>5, BinnedAdd
    <3> QED BY <1>b, <2>2, <3>1, <3>2 DEF TotalInv
  <2>5. CASE ~(~m_isConnected[ptr[c]] \/ Expired)
    <3>1. Cardinality(Taken') = Cardinality(Taken) + 1
      <4>1. c \in Taken'
        BY <1>2, <1>a, <2>5 DEF PopFront, Taken, LocalInv
      <4> QED BY <2>1, <2>3, <4>1, TakenStep
    <3>2. Binned' = Binned
      BY <1>2, <2>5 DEF PopFront, Binned
    <3> QED BY <1>b, <2>2, <3>1, <3>2 DEF TotalInv
  <2> QED BY <2>4, <2>5
<1>3. ASSUME NEW c \in Clients, Count(c) PROVE TotalInv'
  <2>1. c \notin Taken /\ c \in Taken'
    BY <1>3, <1>a DEF Count, Taken, LocalInv
  <2>2. Cardinality(Taken') = Cardinality(Taken) + 1
    BY <1>3, <2>1, TakenStep DEF StepOf, ClientStep
  <2>3. total_' = total_ + 1 /\ conns_' = conns_ /\ Binned' = Binned
    BY <1>3 DEF Count, Binned
  <2> QED BY <1>b, <2>2, <2>3 DEF TotalInv
<1>4. ASSUME NEW c \in Clients, DropUncount(c) PROVE TotalInv'
  <2>1. c \in Taken /\ c \notin Taken'
    BY <1>4, <1>a DEF DropUncount, Over, Taken, LocalInv
  <2>2. Cardinality(Taken') = Cardinality(Taken) - 1
    BY <1>4, <2>1, TakenStep DEF StepOf, ClientStep
  <2>3. total_' = total_ - 1 /\ conns_' = conns_ /\ Binned' = Binned
    BY <1>4 DEF DropUncount, Binned
  <2> QED BY <1>b, <2>2, <2>3 DEF TotalInv
<1>5. ASSUME NEW c \in Clients, PushBack(c) PROVE TotalInv'
  <2>1. c \in Taken /\ c \notin Taken'
    BY <1>5, <1>a DEF PushBack, Over, Taken, LocalInv
  <2>2. Cardinality(Taken') = Cardinality(Taken) - 1
    BY <1>5, <2>1, TakenStep DEF StepOf, ClientStep
  <2>3. Len(conns_') = Len(conns_) + 1
    BY <1>5, <1>a DEF PushBack, LocalInv, TypeOK
  <2>4. total_' = total_ /\ Binned' = Binned
    BY <1>5 DEF PushBack, Binned
  <2> QED BY <1>b, <2>2, <2>3, <2>4 DEF TotalInv
<1>6. ASSUME NEW c \in Clients, StepOf(c), UNCHANGED <<conns_, total_, invald_conns>>,
             c \in Taken <=> c \in Taken'
      PROVE  TotalInv'
  <2>1. Cardinality(Taken') = Cardinality(Taken) /\ Binned' = Binned
    BY <1>6, TakenStep DEF Binned
  <2> QED BY <1>6, <2>1 DEF TotalInv
<1>7. ASSUME NEW c \in Clients,
             \/ Lock(c) \/ Front(c) \/ Unlock(c) \/ Discard(c) \/ ConnectFails(c) \/ Return(c)
             \/ Use(c) \/ RecvResponse(c) \/ Drop(c) \/ DropStatic(c) \/ PushLock(c)
             \/ CallStaticFails(c) \/ SendZero(c) \/ SendFails(c)
             \/ \E m \in {"pool", "user"} : CallPool(c, m)
             \/ \E k \in Conns : Connect(c, k) \/ CallStatic(c, k)
             \/ \E n \in 1 .. Length + MaxErrors : SendSome(c, n)
      PROVE  TotalInv'
  <2>1. StepOf(c)
    BY <1>7 DEF StepOf, ClientStep
  <2>2. UNCHANGED <<conns_, total_, invald_conns>>
    BY <1>7 DEF Lock, Front, Unlock, Discard, ConnectFails, Return, Use, RecvResponse, Drop,
       DropStatic, PushLock, CallStaticFails, SendZero, SendFails, CallPool, Connect, CallStatic,
       SendSome
  <2>3. c \in Taken <=> c \in Taken'
    <3> USE DEF Taken, LocalInv
    <3>1. CASE Lock(c) \/ Front(c) \/ Unlock(c) \/ Discard(c)
      BY <1>a, <3>1 DEF Lock, Front, Unlock, Discard
    <3>2. CASE ConnectFails(c) \/ Return(c) \/ Use(c) \/ RecvResponse(c) \/ PushLock(c)
      BY <1>a, <3>2 DEF ConnectFails, Return, Use, RecvResponse, PushLock, Over
    <3>3. CASE Drop(c) \/ DropStatic(c)
      BY <1>a, <3>3 DEF Drop, DropStatic, Over
    <3>4. CASE CallStaticFails(c) \/ SendZero(c) \/ SendFails(c)
               \/ \E n \in 1 .. Length + MaxErrors : SendSome(c, n)
      BY <1>a, <3>4 DEF CallStaticFails, SendZero, SendFails, SendSome
    <3>5. CASE \/ \E m \in {"pool", "user"} : CallPool(c, m)
               \/ \E k \in Conns : Connect(c, k) \/ CallStatic(c, k)
      BY <1>a, <3>5 DEF CallPool, Connect, CallStatic, Begin, NewConnection
    <3> QED BY <1>7, <3>1, <3>2, <3>3, <3>4, <3>5
  <2> QED BY <1>6, <2>1, <2>2, <2>3
<1>8. ASSUME NEW k \in Conns, CloseKeptSocket(k) PROVE TotalInv'
  BY <1>8 DEF CloseKeptSocket, TotalInv, Taken, Binned
<1> QED BY <1>1, <1>2, <1>3, <1>4, <1>5, <1>7, <1>8 DEF Next, ClientStep

-----------------------------------------------------------------------------
(* One step: what is on the wire                                             *)

\* What a client sends, or deletes, or sets up is not the connection on which
\* another client is sending: it is in one hand only.
LEMMA WireKept ==
    ASSUME TypeOK, CallInv, PlaceInv, NEW c \in Clients, StepOf(c),
           NEW d \in Clients, d # c, pc[d] \in {"send", "recv"}
    PROVE  wire'[ptr[d]] = wire[ptr[d]]
<1> USE HttpClientAssumption
<1>1. ptr[d] \in Conns /\ InHand(d, ptr[d]) /\ ptr[d] \in live /\ ~InBin(c, ptr[d])
  BY DEF CallInv, LocalInv, InHand, PlaceInv
<1>2. ptr[c] = ptr[d] /\ pc[c] # "pop" => FALSE
  BY <1>1 DEF PlaceInv, InHand
<1>3. ptr[d] \in DOMAIN wire
  BY <1>1 DEF TypeOK
<1>4. CASE Discard(c)
  BY <1>1, <1>4 DEF Discard, At, InBin
<1>5. CASE \E k \in Conns : Connect(c, k) \/ CallStatic(c, k)
  BY <1>1, <1>3, <1>5 DEF Connect, CallStatic, NewConnection
<1>6. CASE Drop(c) \/ DropStatic(c)
  BY <1>2, <1>3, <1>6 DEF Drop, DropStatic, Delete, At
<1>7. CASE \E n \in 1 .. Length + MaxErrors : SendSome(c, n)
  BY <1>2, <1>3, <1>7 DEF SendSome, At
<1> QED BY <1>4, <1>5, <1>6, <1>7 DEF StepOf, ClientStep, Lock, Front, PopFront, Unlock,
        Uncount, ConnectFails, Count, Return, Use, RecvResponse, DropUncount, PushLock,
        PushBack, CallPool, CallStaticFails, SendZero, SendFails, connVars

\* The bytes after the first m.
Follows(b, m) == \A i \in 1 .. Len(b) : b[i] = m + i

\* Appending the bytes that come next.
LEMMA LongerSuffix ==
    ASSUME NEW S, NEW w \in Seq(S), NEW b \in Seq(S), NEW m \in Nat,
           EndsWith(w, m), Follows(b, m)
    PROVE  EndsWith(w \o b, m + Len(b))
<1> DEFINE v == w \o b
<1>1. /\ Len(w) \in Nat /\ Len(v) = Len(w) + Len(b)
      /\ \A i \in 1 .. Len(w) : v[i] = w[i]
      /\ \A i \in 1 .. Len(b) : v[Len(w) + i] = b[i]
  <2>1. /\ Len(v) = Len(w) + Len(b)
        /\ \A i \in 1 .. Len(w) + Len(b) : v[i] = IF i <= Len(w) THEN w[i] ELSE b[i - Len(w)]
    BY ConcatProperties, Zenon
  <2> HIDE DEF v
  <2>2. Len(w) \in Nat
    OBVIOUS
  <2>3. ASSUME NEW i \in 1 .. Len(w) PROVE v[i] = w[i]
    <3>1. i \in 1 .. Len(w) + Len(b) /\ i <= Len(w)
      BY <2>2
    <3> QED BY <2>1, <3>1
  <2>4. ASSUME NEW i \in 1 .. Len(b) PROVE v[Len(w) + i] = b[i]
    <3>1. PICK j : j = Len(w) + i
      OBVIOUS
    <3>2. j \in 1 .. Len(w) + Len(b) /\ ~(j <= Len(w)) /\ j - Len(w) = i
      BY <2>2, <3>1
    <3>3. v[j] = b[j - Len(w)]
      BY <2>1, <3>2
    <3> QED BY <3>1, <3>2, <3>3
  <2> QED BY <2>1, <2>2, <2>3, <2>4
<1> HIDE DEF v
<1> USE DEF EndsWith, Follows
<1>2. ASSUME NEW i \in 1 .. m + Len(b) PROVE v[Len(v) - (m + Len(b)) + i] = i
  <2>1. Len(v) - (m + Len(b)) + i = Len(w) - m + i
    BY <1>1
  <2>2. CASE i <= m
    <3>1. i \in 1 .. m /\ Len(w) - m + i \in 1 .. Len(w)
      BY <1>1, <2>2
    <3> QED BY <1>1, <2>1, <3>1
  <2>3. CASE i > m
    <3>1. i - m \in 1 .. Len(b) /\ Len(w) - m + i = Len(w) + (i - m)
      BY <1>1, <2>3
    <3>2. b[i - m] = i
      BY <3>1
    <3> QED BY <1>1, <2>1, <3>1, <3>2
  <2> QED BY <2>2, <2>3
<1>3. m + Len(b) <= Len(v)
  BY <1>1
<1> QED BY <1>2, <1>3 DEF v

\* A partial send appends the next bytes of the request.
LEMMA SendAppends ==
    ASSUME TypeOK, NEW c \in Clients, LocalInv(c), SentSoFar(c), errors[c] = 0,
           NEW n \in 1 .. Length + MaxErrors, SendSome(c, n)
    PROVE  SentSoFar(c)'
<1> USE HttpClientAssumption
<1> DEFINE w == wire[ptr[c]]
           sent == Length - left[c]
           b == Bytes(c, n)
           v == w \o b
<1>1. /\ ptr[c] \in Conns /\ left[c] \in Nat /\ left[c] <= Length /\ n \in Nat /\ n <= left[c]
      /\ Length \in Nat /\ sent \in Nat
  BY DEF SendSome, At, LocalInv, TypeOK
<1>2. w \in Seq(0 .. Length) /\ EndsWith(w, sent)
  BY <1>1 DEF SendSome, At, SentSoFar, TypeOK
<1>3. b \in Seq(0 .. Length) /\ Len(b) = n /\ Follows(b, sent)
  <2>1. b \in Seq(0 .. Length)
    BY <1>1 DEF Bytes
  <2>2. \A i \in 1 .. n : sent + i > 0
    BY <1>1
  <2>3. b = [i \in 1 .. n |-> IF sent + i > 0 THEN sent + i ELSE 0]
    BY DEF Bytes
  <2> HIDE DEF sent, b
  <2>4. Len(b) = n
    BY <1>1, <2>3
  <2> QED BY <2>1, <2>2, <2>3, <2>4 DEF Follows
<1>4. /\ wire'[ptr'[c]] = v
      /\ left'[c] = left[c] - n /\ errors'[c] = 0
      /\ pc'[c] = "recv" => n = left[c]
  BY <1>1 DEF SendSome, Goto, TypeOK
<1>5. Length - left'[c] = sent + n /\ (pc'[c] = "recv" => left'[c] = 0)
  <2>1. Length - (left[c] - n) = Length - left[c] + n /\ left[c] - left[c] = 0
    BY <1>1
  <2> QED BY <1>4, <2>1
<1> HIDE DEF w, sent, b
<1>6. EndsWith(v, sent + Len(b))
  BY <1>1, <1>2, <1>3, LongerSuffix, Zenon DEF v
<1> HIDE DEF v
<1> QED BY <1>3, <1>4, <1>5, <1>6 DEF SentSoFar

\* Every step keeps what was sent of a request the end of its connection's wire.
LEMMA SentStep == ASSUME TypeOK, CallInv, PlaceInv, SentInv, Next PROVE SentInv'
<1> USE HttpClientAssumption
<1>1. ASSUME NEW c \in Clients, StepOf(c), NEW d \in Clients, d # c PROVE SentSoFar(d)'
  BY <1>1, OthersKeep, WireKept DEF SameLocals, SentInv, SentSoFar
<1>2. ASSUME NEW c \in Clients, StepOf(c) PROVE SentSoFar(c)'
  <2>a. /\ LocalInv(c) /\ SentSoFar(c) /\ Length \in Nat /\ errors[c] \in Nat
        /\ c \in DOMAIN pc /\ c \in DOMAIN left /\ c \in DOMAIN errors
    BY DEF CallInv, SentInv, TypeOK
  <2>b. \A k \in Conns : wire'[k] \in Seq(0 .. Length) => Len(wire'[k]) \in Nat
    OBVIOUS
  <2>c. TypeOK'
    BY <1>2, TypeStep DEF StepOf, Next
  <2> USE DEF Goto, At
  <2>1. CASE Use(c) \/ \E k \in Conns : CallStatic(c, k)
    <3>1. pc'[c] = "send" => left'[c] = Length /\ ptr'[c] \in Conns
      <4>1. CASE Use(c)
        BY <4>1, <2>a DEF Use, LocalInv
      <4>2. CASE \E k \in Conns : CallStatic(c, k)
        BY <4>2, <2>a DEF CallStatic, NewConnection, TypeOK
      <4> QED BY <2>1, <4>1, <4>2
    <3>2. pc'[c] # "recv"
      BY <2>1, <2>a DEF Use, CallStatic
    <3>3. pc'[c] = "send" => Len(wire'[ptr'[c]]) \in Nat
      BY <2>b, <2>c, <3>1 DEF TypeOK
    <3> QED BY <2>a, <3>1, <3>2, <3>3 DEF SentSoFar, EndsWith
  <2>2. ASSUME NEW n \in 1 .. Length + MaxErrors, SendSome(c, n) PROVE SentSoFar(c)'
    <3>1. CASE errors[c] = 0
      BY <2>2, <2>a, <3>1, SendAppends
    <3>2. CASE errors[c] # 0
      BY <2>2, <3>2 DEF SendSome, SentSoFar
    <3> QED BY <3>1, <3>2
  <2>3. CASE SendFails(c)
    <3>1. errors'[c] # 0
      BY <2>3, <2>a DEF SendFails
    <3> QED BY <3>1 DEF SentSoFar
  <2>4. ASSUME pc'[c] \notin {"send", "recv"} PROVE SentSoFar(c)'
    BY <2>4 DEF SentSoFar
  <2>5. CASE Lock(c) \/ Front(c) \/ PopFront(c) \/ Unlock(c) \/ Discard(c) \/ Uncount(c)
    BY <2>4, <2>5, <2>a DEF Lock, Front, PopFront, Unlock, Discard, Uncount
  <2>6. CASE (\E k \in Conns : Connect(c, k)) \/ ConnectFails(c) \/ Count(c) \/ Return(c)
    BY <2>4, <2>6, <2>a DEF Connect, ConnectFails, Count, Return, Over
  <2>7. CASE RecvResponse(c) \/ Drop(c) \/ DropUncount(c) \/ DropStatic(c) \/ PushLock(c)
             \/ PushBack(c)
    BY <2>4, <2>7, <2>a DEF RecvResponse, Drop, DropUncount, DropStatic, PushLock, PushBack, Over
  <2>8. CASE (\E m \in {"pool", "user"} : CallPool(c, m)) \/ CallStaticFails(c) \/ SendZero(c)
    BY <2>4, <2>8, <2>a DEF CallPool, CallStaticFails, SendZero
  <2> QED BY <1>2, <2>1, <2>2, <2>3, <2>5, <2>6, <2>7, <2>8 DEF StepOf, ClientStep
<1>3. ASSUME NEW k \in Conns, CloseKeptSocket(k) PROVE SentInv'
  BY <1>3 DEF CloseKeptSocket, SentInv, SentSoFar, callVars
<1> QED BY <1>1, <1>2, <1>3 DEF Next, StepOf, SentInv

-----------------------------------------------------------------------------
(* Theorems                                                                  *)

\* PoolInv is inductive.
THEOREM PoolInvariant == Spec => []PoolInv
<1> USE HttpClientAssumption
<1>1. Init => PoolInv
  <2> SUFFICES ASSUME Init PROVE PoolInv
    OBVIOUS
  <2>1. TypeOK
    <3>1. wire \in [Conns -> Seq(0 .. Length)] /\ conns_ \in Seq(Conns)
      BY EmptyType DEF Init
    <3>2. pc \in [Clients -> ClientPC]
      BY DEF Init, ClientPC
    <3>3. left \in [Clients -> 0 .. Length + MaxErrors] /\ errors \in [Clients -> 0 .. MaxErrors]
      BY DEF Init
    <3>4. calls \in 0 .. MaxCalls
      BY DEF Init
    <3>5. /\ ptr \in [Clients -> Conns \cup {NoConn}]
          /\ invald_conns \in [Clients -> SUBSET Conns]
          /\ mode \in [Clients -> {"none", "pool", "user", "static"}]
      BY DEF Init
    <3>6. m_isConnected \in [Conns -> BOOLEAN] /\ broken \in BOOLEAN
      BY Zenon DEF Init
    <3>7. /\ mutex_ \in Clients \cup {NoClient} /\ total_ \in Int /\ live \subseteq Conns
          /\ request_ \in [Conns -> Nat]
      BY DEF Init
    <3> QED BY <3>1, <3>2, <3>3, <3>4, <3>5, <3>6, <3>7 DEF TypeOK
  <2>2. MutexInv /\ CallInv /\ SentInv
    BY DEF Init, MutexInv, CallInv, LocalInv, SentInv, SentSoFar
  <2>3. PlaceInv
    BY DEF Init, PlaceInv, Listed, InHand, InBin
  <2>4. Taken = {} /\ Binned = {} /\ Len(conns_) = 0 /\ total_ = 0
    BY DEF Init, Taken, Binned
  <2>5. Cardinality(Taken) = 0 /\ Cardinality(Binned) = 0
    BY <2>4, FS_EmptySet, Zenon
  <2>6. TotalInv
    BY <2>4, <2>5 DEF TotalInv
  <2> QED BY <2>1, <2>2, <2>3, <2>6 DEF PoolInv
<1>2. PoolInv /\ [Next]_vars => PoolInv'
  <2> SUFFICES ASSUME PoolInv, [Next]_vars PROVE PoolInv'
    OBVIOUS
  <2>1. CASE Next
    <3>1. TypeOK'
      BY <2>1, TypeStep DEF PoolInv
    <3> QED BY <2>1, <3>1, MutexStep, CallStep, PlaceStep, TotalStep, SentStep DEF PoolInv
  <2>2. CASE UNCHANGED vars
    <3>1. UNCHANGED <<poolVars, connVars, pc, ptr, invald_conns, callVars>>
      BY <2>2 DEF vars
    <3> USE DEF poolVars, connVars, callVars
    <3>2. TypeOK' /\ MutexInv'
      BY <3>1 DEF PoolInv, TypeOK, MutexInv
    <3>3. CallInv' /\ SentInv'
      BY <3>1 DEF PoolInv, CallInv, LocalInv, SentInv, SentSoFar
    <3>4. PlaceInv'
      BY <3>1 DEF PoolInv, PlaceInv, Listed, InHand, InBin
    <3>5. TotalInv'
      BY <3>1 DEF PoolInv, TotalInv, Taken, Binned
    <3> QED BY <3>2, <3>3, <3>4, <3>5 DEF PoolInv
  <2> QED BY <2>1, <2>2
<1> QED BY <1>1, <1>2, PTL DEF Spec

\* Every variable keeps its type: writeFixSize's left, which a failed send makes
\* larger, stays below the request's length plus the failed sends of the call.
THEOREM TypeCorrect == Spec => []TypeOK
<1>1. PoolInv => TypeOK
  BY DEF PoolInv
<1> QED BY <1>1, PoolInvariant, PTL

\* A connection that exists is in the list once, or in one client's hands, or in
\* one client's list of invalid connections, and a deleted one is nowhere.
THEOREM ConnectionHasOneHolder == Spec => []OneHolder
<1>1. PoolInv => OneHolder
  <2> SUFFICES ASSUME PoolInv, NEW k \in Conns
               PROVE  Places(k) = IF k \in live THEN 1 ELSE 0
    BY DEF OneHolder
  <2> USE HttpClientAssumption
  <2> DEFINE at == {i \in 1 .. Len(conns_) : conns_[i] = k}
             hands == {c \in Clients : InHand(c, k)}
             bins == {c \in Clients : InBin(c, k)}
  <2>1. Places(k) = Cardinality(at) + Cardinality(hands) + Cardinality(bins)
    BY DEF Places, InHand, InBin
  <2>2. /\ Listed(k) => \E i : at = {i}
        /\ ~Listed(k) => at = {}
    <3>1. ASSUME Listed(k) PROVE \E i : at = {i}
      <4>1. PICK i \in 1 .. Len(conns_) : conns_[i] = k
        BY <3>1 DEF Listed
      <4>2. at = {i}
        BY <4>1 DEF PoolInv, PlaceInv
      <4> QED BY <4>2
    <3>2. ASSUME ~Listed(k) PROVE at = {}
      BY <3>2 DEF Listed
    <3> QED BY <3>1, <3>2
  <2>3. /\ \A c \in Clients : InHand(c, k) => hands = {c} /\ bins = {}
        /\ \A c \in Clients : InBin(c, k) => bins = {c} /\ hands = {}
    BY DEF PoolInv, PlaceInv
  <2>4. Listed(k) => hands = {} /\ bins = {}
    BY DEF PoolInv, PlaceInv
  <2>5. (\E c \in Clients : InHand(c, k) \/ InBin(c, k)) => ~Listed(k)
    BY DEF PoolInv, PlaceInv
  <2>6. k \in live <=> Listed(k) \/ \E c \in Clients : InHand(c, k) \/ InBin(c, k)
    BY DEF PoolInv, PlaceInv
  <2>7. (~\E c \in Clients : InHand(c, k) \/ InBin(c, k)) => hands = {} /\ bins = {}
    OBVIOUS
  <2>8. /\ Cardinality({}) = 0
        /\ \A x : Cardinality({x}) = 1
    BY FS_EmptySet, FS_Singleton
  <2> HIDE DEF at, hands, bins
  <2>9. CASE Listed(k)
    <3>1. Cardinality(at) = 1 /\ Cardinality(hands) = 0 /\ Cardinality(bins) = 0
      BY <2>2, <2>4, <2>8, <2>9
    <3> QED BY <2>1, <2>6, <2>9, <3>1
  <2>10. CASE \E c \in Clients : InHand(c, k) \/ InBin(c, k)
    <3>1. /\ Cardinality(at) = 0
          /\ \/ Cardinality(hands) = 1 /\ Cardinality(bins) = 0
             \/ Cardinality(hands) = 0 /\ Cardinality(bins) = 1
      BY <2>2, <2>3, <2>5, <2>8, <2>10
    <3> QED BY <2>1, <2>6, <2>10, <3>1
  <2>11. CASE ~Listed(k) /\ ~\E c \in Clients : InHand(c, k) \/ InBin(c, k)
    <3>1. Cardinality(at) = 0 /\ Cardinality(hands) = 0 /\ Cardinality(bins) = 0
      BY <2>2, <2>7, <2>8, <2>11
    <3> QED BY <2>1, <2>6, <2>11, <3>1
  <2> QED BY <2>9, <2>10, <2>11
<1> QED BY <1>1, PoolInvariant, PTL

\* With nobody in the middle of a call of the pool, total_ is the length of the list.
THEOREM TotalIsExact == Spec => []TotalExact
<1>1. PoolInv => TotalExact
  <2> SUFFICES ASSUME PoolInv, \A c \in Clients : pc[c] = "idle" \/ mode[c] = "static"
               PROVE  total_ = Len(conns_)
    BY DEF TotalExact
  <2>1. Taken = {}
    BY DEF Taken
  <2>2. \A c \in Clients : invald_conns[c] = {}
    BY DEF PoolInv, CallInv, LocalInv
  <2>3. Binned = {}
    BY <2>2 DEF Binned
  <2>4. Cardinality(Taken) = 0 /\ Cardinality(Binned) = 0
    BY <2>1, <2>3, FS_EmptySet, Zenon
  <2>5. Len(conns_) \in Nat
    BY DEF PoolInv, TypeOK
  <2> QED BY <2>4, <2>5 DEF PoolInv, TotalInv
<1> QED BY <1>1, PoolInvariant, PTL

\* Without a failed send, the request that waits for its response is on the wire
\* byte for byte, whatever the lengths of the partial sends.
THEOREM RequestIsSent == Spec => []RequestSent
<1>1. PoolInv => RequestSent
  <2> SUFFICES ASSUME PoolInv, NEW c \in Clients, pc[c] = "recv", errors[c] = 0
               PROVE  LET w == wire[ptr[c]] IN
                      SubSeq(w, Len(w) - Length + 1, Len(w)) = [i \in 1 .. Length |-> i]
    BY DEF RequestSent
  <2> USE HttpClientAssumption
  <2> DEFINE w == wire[ptr[c]]
  <2>1. ptr[c] \in Conns /\ w \in Seq(0 .. Length) /\ Len(w) \in Nat
    BY DEF PoolInv, CallInv, LocalInv, TypeOK
  <2>2. SentSoFar(c)
    BY DEF PoolInv, SentInv
  <2>3. left[c] = 0
    BY <2>2 DEF SentSoFar
  <2>4. Length <= Len(w) /\ \A i \in 1 .. Length : w[Len(w) - Length + i] = i
    <3>1. Length - left[c] = Length
      BY <2>3
    <3>2. EndsWith(w, Length - left[c])
      BY <2>2 DEF SentSoFar
    <3>3. EndsWith(w, Length)
      BY <3>1, <3>2, Zenon
    <3> QED BY <3>3 DEF EndsWith
  <2> HIDE DEF w
  <2>5. SubSeq(w, Len(w) - Length + 1, Len(w)) = [i \in 1 .. Length |-> i]
    <3>1. /\ Length \in Nat /\ Len(w) - Length + 1 \in 1 .. Len(w) + 1
          /\ Len(w) - (Len(w) - Length + 1) + 1 = Length
      BY <2>1, <2>4
    <3> DEFINE u == SubSeq(w, Len(w) - Length + 1, Len(w))
    <3>2. Len(u) = Length /\ u \in Seq(0 .. Length)
      BY <2>1, <3>1
    <3>3. \A i \in 1 .. Length : u[i] = w[Len(w) - Length + i]
      BY <2>1, <3>1
    <3> HIDE DEF u
    <3>4. u = [i \in 1 .. Length |-> u[i]]
      BY <3>2
    <3>5. u = [i \in 1 .. Length |-> i]
      BY <2>4, <3>3, <3>4
    <3> QED BY <3>5 DEF u
  <2> QED BY <2>5 DEF w
<1> QED BY <1>1, PoolInvariant, PTL
=============================================================================
