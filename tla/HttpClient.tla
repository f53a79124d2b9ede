------------------------------ MODULE HttpClient ------------------------------
(***************************************************************************)
(* sylar's HTTP client: HttpConnectionPool and HttpConnection              *)
(* (http_connection.h, http_connection.cpp) on top of SocketStream,        *)
(* Stream::writeFixSize and Socket.                                        *)
(*                                                                         *)
(* Clients are fibers on threads of their own.  They call doRequest on the *)
(* pool, or take a connection with getConnection and drop it, or call the  *)
(* static DoRequest, which has a connection to itself.  The list conns_ is *)
(* guarded by mutex_ through ScopedLockImpl, whose destructor unlocks the  *)
(* mutex even if unlock() was called before: a pthread mutex that another  *)
(* thread holds is then released under it.                                 *)
(*                                                                         *)
(* A connection object that was deleted may be allocated again.            *)
(***************************************************************************)
EXTENDS Integers, FiniteSets, Sequences

CONSTANTS
    Clients, Conns, NoClient, NoConn,
    MaxRequest,         \* maxRequest_
    MaxAliveTime, Now,  \* maxAliveTime_ and GetCurrentMS(), in the same unit
    Length,             \* bytes of a request as dumped
    MaxCalls,           \* bound on the calls of all clients
    MaxErrors           \* bound on the failed sends of a call

ASSUME HttpClientAssumption ==
    /\ NoClient \notin Clients /\ NoConn \notin Conns
    /\ IsFiniteSet(Clients) /\ IsFiniteSet(Conns)   \* threads and addresses
    /\ {MaxRequest, MaxCalls, MaxErrors} \subseteq Nat
    /\ Length \in Nat \ {0}
    /\ MaxAliveTime \in Nat /\ Now \in Nat
    /\ MaxAliveTime < Now   \* 32 bits of milliseconds against those since 1970

VARIABLES
    mutex_,         \* the client that holds the pool's mutex
    conns_,         \* the list of idle connections
    total_,
    live,           \* the HttpConnection objects that exist
    m_isConnected,  \* of the connection's Socket
    request_,       \* of the connection
    wire,           \* the bytes sent on the connection
    pc,             \* a client's place
    ptr,            \* the connection a client is working with
    invald_conns,   \* getConnection's local list
    mode,           \* the call: doRequest, getConnection or the static DoRequest
    left,           \* writeFixSize's local; the offset is Length - left
    errors,         \* failed sends of the call
    calls,          \* calls left
    broken          \* a lock was released under its holder

poolVars == <<mutex_, conns_, total_, broken>>
connVars == <<live, m_isConnected, request_, wire>>
callVars == <<mode, left, errors, calls>>
vars == <<poolVars, connVars, pc, ptr, invald_conns, callVars>>

ClientPC == {"idle", "lock", "scan", "pop", "unlock", "discard", "uncount", "connect",
             "count", "return", "have", "send", "recv", "release", "dropped", "pushlock", "push"}

TypeOK ==
    /\ mutex_ \in Clients \cup {NoClient}
    /\ conns_ \in Seq(Conns)
    /\ total_ \in Int
    /\ live \subseteq Conns
    /\ m_isConnected \in [Conns -> BOOLEAN]
    /\ request_ \in [Conns -> Nat]
    /\ wire \in [Conns -> Seq(0 .. Length)]
    /\ pc \in [Clients -> ClientPC]
    /\ ptr \in [Clients -> Conns \cup {NoConn}]
    /\ invald_conns \in [Clients -> SUBSET Conns]
    /\ mode \in [Clients -> {"none", "pool", "user", "static"}]
    /\ left \in [Clients -> 0 .. Length + MaxErrors]
    /\ errors \in [Clients -> 0 .. MaxErrors]
    /\ calls \in 0 .. MaxCalls
    /\ broken \in BOOLEAN

Init ==
    /\ mutex_ = NoClient /\ conns_ = <<>> /\ total_ = 0 /\ broken = FALSE
    /\ live = {}
    /\ m_isConnected = [k \in Conns |-> FALSE]
    /\ request_ = [k \in Conns |-> 0]
    /\ wire = [k \in Conns |-> <<>>]
    /\ pc = [c \in Clients |-> "idle"]
    /\ ptr = [c \in Clients |-> NoConn]
    /\ invald_conns = [c \in Clients |-> {}]
    /\ mode = [c \in Clients |-> "none"]
    /\ left = [c \in Clients |-> 0]
    /\ errors = [c \in Clients |-> 0]
    /\ calls = MaxCalls

Goto(c, l) == pc' = [pc EXCEPT ![c] = l]

\* After a lock was released under its holder anything may happen: not modelled.
At(c, l) == ~broken /\ pc[c] = l

\* The call is over, and its locals are gone.
Over(c) ==
    /\ Goto(c, "idle")
    /\ mode' = [mode EXCEPT ![c] = "none"]
    /\ left' = [left EXCEPT ![c] = 0]
    /\ errors' = [errors EXCEPT ![c] = 0]
    /\ UNCHANGED calls

Begin(c, m) ==
    /\ At(c, "idle") /\ calls > 0
    /\ calls' = calls - 1
    /\ mode' = [mode EXCEPT ![c] = m]

-----------------------------------------------------------------------------
(* The mutex (thread.h) and the connection objects                           *)

\* Mutant: lock() does not wait.
Acquire_NoWait(c) == mutex_' = c

\* ScopedLockImpl( mutex ): pthread_mutex_lock.
Acquire(c) == mutex_ = NoClient /\ mutex_' = c

\* Mutex::unlock, as pthread does it: whoever holds the mutex, it is free.
Release(c) ==
    /\ mutex_' = NoClient
    /\ broken' = (broken \/ mutex_ \notin {c, NoClient})

\* new HttpConnection( sock ), with createTime_ and request_ 0.
NewConnection(c, k) ==
    /\ k \notin live
    /\ live' = live \cup {k}
    /\ m_isConnected' = [m_isConnected EXCEPT ![k] = TRUE]
    /\ request_' = [request_ EXCEPT ![k] = 0]
    /\ wire' = [wire EXCEPT ![k] = <<>>]
    /\ ptr' = [ptr EXCEPT ![c] = k]

createTime_ == 0

Expired == createTime_ + MaxAliveTime > Now

-----------------------------------------------------------------------------
(* HttpConnectionPool::getConnection                                         *)

\* doRequest, or getConnection by a user of the pool.
CallPool(c, m) ==
    /\ Begin(c, m)
    /\ Goto(c, "lock")
    /\ UNCHANGED <<poolVars, connVars, ptr, invald_conns, left, errors>>

Lock(c) ==
    /\ At(c, "lock")
    /\ Acquire(c)
    /\ ptr' = [ptr EXCEPT ![c] = NoConn]
    /\ Goto(c, "scan")
    /\ UNCHANGED <<conns_, total_, broken, connVars, invald_conns, callVars>>

\* auto conn = *conns_.begin(), if there is one ...
Front(c) ==
    /\ At(c, "scan")
    /\ IF conns_ = <<>> THEN Goto(c, "unlock") /\ UNCHANGED ptr
       ELSE Goto(c, "pop") /\ ptr' = [ptr EXCEPT ![c] = conns_[1]]
    /\ UNCHANGED <<poolVars, connVars, invald_conns, callVars>>

\* ... conns_.pop_front(), and the two tests.  (On an empty list, which only a
\* broken lock leads to, pop_front is undefined.)
PopFront(c) ==
    /\ At(c, "pop") /\ conns_ # <<>>
    /\ conns_' = Tail(conns_)
    /\ IF ~m_isConnected[ptr[c]] \/ Expired
       THEN /\ invald_conns' = [invald_conns EXCEPT ![c] = @ \cup {ptr[c]}]
            /\ ptr' = [ptr EXCEPT ![c] = NoConn]
            /\ Goto(c, "scan")
       ELSE Goto(c, "unlock") /\ UNCHANGED <<ptr, invald_conns>>
    /\ UNCHANGED <<mutex_, total_, broken, connVars, callVars>>

\* lock.unlock()
Unlock(c) ==
    /\ At(c, "unlock")
    /\ Release(c)
    /\ Goto(c, "discard")
    /\ UNCHANGED <<conns_, total_, connVars, ptr, invald_conns, callVars>>

\* delete of each invalid connection, whose socket is closed ...
Discard(c) ==
    /\ At(c, "discard")
    /\ live' = live \ invald_conns[c]
    /\ request_' = [k \in Conns |-> IF k \in invald_conns[c] THEN 0 ELSE request_[k]]
    /\ wire' = [k \in Conns |-> IF k \in invald_conns[c] THEN <<>> ELSE wire[k]]
    /\ Goto(c, "uncount")
    /\ UNCHANGED <<poolVars, m_isConnected, ptr, invald_conns, callVars>>

\* Mutant: one is subtracted whatever the number of connections.
Uncount_One(c) ==
    /\ At(c, "uncount")
    /\ total_' = total_ - (IF invald_conns[c] = {} THEN 0 ELSE 1)
    /\ invald_conns' = [invald_conns EXCEPT ![c] = {}]
    /\ Goto(c, IF ptr[c] = NoConn THEN "connect" ELSE "return")
    /\ UNCHANGED <<mutex_, conns_, broken, connVars, ptr, callVars>>

\* ... and total_ -= invald_conns.size().
Uncount(c) ==
    /\ At(c, "uncount")
    /\ total_' = total_ - Cardinality(invald_conns[c])
    /\ invald_conns' = [invald_conns EXCEPT ![c] = {}]
    /\ Goto(c, IF ptr[c] = NoConn THEN "connect" ELSE "return")
    /\ UNCHANGED <<mutex_, conns_, broken, connVars, ptr, callVars>>

\* LookUpAnyIPAddress, CreateTCP and Socket::connect, which closes on failure: a
\* new connection ...
Connect(c, k) ==
    /\ At(c, "connect")
    /\ NewConnection(c, k)
    /\ Goto(c, "count")
    /\ UNCHANGED <<poolVars, invald_conns, callVars>>

\* ... or nullptr, with the lock's destructor on the way out: POOL_GET_CONNECTION.
ConnectFails(c) ==
    /\ At(c, "connect")
    /\ Release(c)
    /\ Over(c)
    /\ UNCHANGED <<conns_, total_, connVars, ptr, invald_conns>>

Count(c) ==
    /\ At(c, "count")
    /\ total_' = total_ + 1
    /\ Goto(c, "return")
    /\ UNCHANGED <<mutex_, conns_, broken, connVars, ptr, invald_conns, callVars>>

\* The connection is returned, and the lock's destructor unlocks once more.
Return(c) ==
    /\ At(c, "return")
    /\ Release(c)
    /\ Goto(c, "have")
    /\ UNCHANGED <<conns_, total_, connVars, ptr, invald_conns, callVars>>

-----------------------------------------------------------------------------
(* A request                                                                 *)

\* A user of getConnection drops the connection; doRequest sends.
Use(c) ==
    /\ At(c, "have")
    /\ left' = [left EXCEPT ![c] = IF mode[c] = "user" THEN 0 ELSE Length]
    /\ Goto(c, IF mode[c] = "user" THEN "release" ELSE "send")
    /\ UNCHANGED <<poolVars, connVars, ptr, invald_conns, mode, errors, calls>>

\* The static DoGet, DoPost and DoRequest: no url (INVALID_URL), no address
\* (INVALID_HOST), no connection (CONNECT_FAIL) ...
CallStaticFails(c) ==
    /\ At(c, "idle") /\ calls > 0
    /\ calls' = calls - 1
    /\ UNCHANGED <<poolVars, connVars, pc, ptr, invald_conns, mode, left, errors>>

\* ... or a connection of its own.
CallStatic(c, k) ==
    /\ Begin(c, "static")
    /\ NewConnection(c, k)
    /\ left' = [left EXCEPT ![c] = Length]
    /\ Goto(c, "send")
    /\ UNCHANGED <<poolVars, invald_conns, errors>>

\* Mutant: every send starts at the buffer's beginning.
Bytes_FromStart(c, n) == [i \in 1 .. n |-> i]

\* Bytes n of the request, from writeFixSize's offset; before the buffer there is
\* something else.
Bytes(c, n) ==
    [i \in 1 .. n |-> LET at == Length - left[c] + i IN IF at > 0 THEN at ELSE 0]

\* writeFixSize: send() takes n bytes; all sent, the response is awaited.
SendSome(c, n) ==
    LET k == ptr[c] IN
    /\ At(c, "send") /\ m_isConnected[k] /\ n \in 1 .. left[c]
    /\ wire' = [wire EXCEPT ![k] = @ \o Bytes(c, n)]
    /\ left' = [left EXCEPT ![c] = @ - n]
    /\ Goto(c, IF n = left[c] THEN "recv" ELSE "send")
    /\ UNCHANGED <<poolVars, live, m_isConnected, request_, ptr, invald_conns, mode,
                   errors, calls>>

\* send() returns 0: SEND_CLOSE_BY_PEER.
SendZero(c) ==
    /\ At(c, "send") /\ m_isConnected[ptr[c]]
    /\ Goto(c, "release")
    /\ UNCHANGED <<poolVars, connVars, ptr, invald_conns, callVars>>

\* send() fails, or the stream is not connected: -1 is held in a size_t, is not
\* <= 0, and moves the offset back by one.
SendFails(c) ==
    /\ At(c, "send") /\ errors[c] < MaxErrors
    /\ errors' = [errors EXCEPT ![c] = @ + 1]
    /\ left' = [left EXCEPT ![c] = @ + 1]
    /\ UNCHANGED <<poolVars, connVars, pc, ptr, invald_conns, mode, calls>>

\* HttpResponseParser's buffer size; RequestSizeIniter sets only the requests'.
s_http_response_buffer_size == 0

\* recvResponse: a read of no bytes returns 0 (or fails), so the stream is closed
\* and there is no response: TIMEOUT.
RecvResponse(c) ==
    /\ At(c, "recv") /\ s_http_response_buffer_size = 0
    /\ m_isConnected' = [m_isConnected EXCEPT ![ptr[c]] = FALSE]
    /\ Goto(c, "release")
    /\ UNCHANGED <<poolVars, live, request_, wire, ptr, invald_conns, callVars>>

\* Somebody who kept getSocket() of a pooled connection closes it.
CloseKeptSocket(k) ==
    /\ ~broken /\ m_isConnected[k]
    /\ \E i \in 1 .. Len(conns_) : conns_[i] = k
    /\ m_isConnected' = [m_isConnected EXCEPT ![k] = FALSE]
    /\ UNCHANGED <<poolVars, live, request_, wire, pc, ptr, invald_conns, callVars>>

-----------------------------------------------------------------------------
(* The connection's end: ReleasePtr, or the destructor                       *)

\* A connection that must not be used again.
Spent(c) ==
    LET k == ptr[c] IN
    \/ ~m_isConnected[k]
    \/ createTime_ + MaxAliveTime >= Now
    \/ request_[k] + 1 >= MaxRequest

\* delete ptr: the stream owns its socket and closes it.
Delete(k) ==
    /\ live' = live \ {k}
    /\ m_isConnected' = [m_isConnected EXCEPT ![k] = FALSE]
    /\ request_' = [request_ EXCEPT ![k] = 0]
    /\ wire' = [wire EXCEPT ![k] = <<>>]

\* ++request_, and delete a connection that is spent ...
Drop(c) ==
    LET k == ptr[c] IN
    /\ At(c, "release") /\ mode[c] # "static"
    /\ IF Spent(c)
       THEN /\ Delete(k)
            /\ ptr' = [ptr EXCEPT ![c] = NoConn]
            /\ Goto(c, "dropped")
       ELSE /\ request_' = [request_ EXCEPT ![k] = @ + 1]
            /\ Goto(c, "pushlock")
            /\ UNCHANGED <<live, m_isConnected, wire, ptr>>
    /\ UNCHANGED <<poolVars, invald_conns, callVars>>

\* ... and --pool->total_.
DropUncount(c) ==
    /\ At(c, "dropped")
    /\ total_' = total_ - 1
    /\ Over(c)
    /\ UNCHANGED <<mutex_, conns_, broken, connVars, ptr, invald_conns>>

\* The static call's connection goes with its last reference.
DropStatic(c) ==
    /\ At(c, "release") /\ mode[c] = "static"
    /\ Delete(ptr[c])
    /\ ptr' = [ptr EXCEPT ![c] = NoConn]
    /\ Over(c)
    /\ UNCHANGED <<poolVars, invald_conns>>

PushLock(c) ==
    /\ At(c, "pushlock")
    /\ Acquire(c)
    /\ Goto(c, "push")
    /\ UNCHANGED <<conns_, total_, broken, connVars, ptr, invald_conns, callVars>>

\* Mutant: the lock is kept.
PushBack_Locked(c) ==
    /\ At(c, "push")
    /\ conns_' = Append(conns_, ptr[c])
    /\ ptr' = [ptr EXCEPT ![c] = NoConn]
    /\ Over(c)
    /\ UNCHANGED <<mutex_, broken, total_, connVars, invald_conns>>

\* conns_.push_back( ptr ), and the lock's destructor.
PushBack(c) ==
    /\ At(c, "push")
    /\ conns_' = Append(conns_, ptr[c])
    /\ ptr' = [ptr EXCEPT ![c] = NoConn]
    /\ Release(c)
    /\ Over(c)
    /\ UNCHANGED <<total_, connVars, invald_conns>>

-----------------------------------------------------------------------------

\* What a client does in the middle of a call, other than sending.
ClientStep(c) ==
    \/ Lock(c) \/ Front(c) \/ PopFront(c) \/ Unlock(c) \/ Discard(c) \/ Uncount(c)
    \/ (\E k \in Conns : Connect(c, k)) \/ ConnectFails(c) \/ Count(c) \/ Return(c)
    \/ Use(c) \/ RecvResponse(c) \/ Drop(c) \/ DropUncount(c) \/ DropStatic(c)
    \/ PushLock(c) \/ PushBack(c)

Next ==
    \/ \E c \in Clients :
          \/ ClientStep(c)
          \/ \E m \in {"pool", "user"} : CallPool(c, m)
          \/ CallStaticFails(c)
          \/ \E k \in Conns : CallStatic(c, k)
          \/ \E n \in 1 .. Length + MaxErrors : SendSome(c, n)
          \/ SendZero(c) \/ SendFails(c)
    \/ \E k \in Conns : CloseKeptSocket(k)

Spec == Init /\ [][Next]_vars

\* The threads run, and a mutex is handed to everyone who waits for it; nothing is
\* assumed of the sends.
Fairness ==
    \A c \in Clients : WF_vars(ClientStep(c)) /\ SF_vars(Lock(c)) /\ SF_vars(PushLock(c))

FairSpec == Spec /\ Fairness

-----------------------------------------------------------------------------
(* Properties                                                                *)

\* How often a connection is in the list or in a client's hands.
Places(k) ==
    Cardinality({i \in 1 .. Len(conns_) : conns_[i] = k})
    + Cardinality({c \in Clients : ptr[c] = k /\ pc[c] # "pop"})
    + Cardinality({c \in Clients : k \in invald_conns[c] /\ pc[c] # "uncount"})

\* A connection that exists is in exactly one place, the list or one client's
\* hands, and a deleted one in none: no two requests share a connection, none
\* leaks, none is used after its deletion, however getConnection and ReleasePtr of
\* several threads interleave (http_connection.cpp:233-295), as long as no lock was
\* released under its holder (thread.h:40).
OneHolder ==
    ~broken => \A k \in Conns : Places(k) = IF k \in live THEN 1 ELSE 0

\* total_ counts the pool's connections up to the steps between a creation or a
\* deletion and its count (http_connection.cpp:253-277, 286-289); with nobody in the
\* middle of a call it is the length of the list.
TotalExact ==
    (~broken /\ \A c \in Clients : pc[c] = "idle" \/ mode[c] = "static") => total_ = Len(conns_)

\* Without a failed send, a request that is waiting for its response has been sent
\* byte for byte, over however many partial sends (stream.cpp:36-50).
RequestSent ==
    \A c \in Clients : (pc[c] = "recv" /\ errors[c] = 0) =>
        LET w == wire[ptr[c]] IN
        SubSeq(w, Len(w) - Length + 1, Len(w)) = [i \in 1 .. Length |-> i]

\* A call for a connection is served: it ends with one, or with nullptr
\* (http_connection.cpp:233-281).  No one waits for the mutex forever.
ConnectionServed ==
    \A c \in Clients : (pc[c] = "lock") ~> (pc[c] \in {"have", "idle"} \/ broken)

-----------------------------------------------------------------------------
(* The inductive invariants behind them, conjunct by conjunct                *)

\* Whoever works on conns_ holds mutex_, until a lock is released under its holder.
MutexInv ==
    ~broken => \A c \in Clients : pc[c] \in {"scan", "pop", "unlock", "push"} => mutex_ = c

\* What a client has in hand, place by place.
LocalInv(c) ==
    /\ pc[c] \in {"idle", "lock", "scan", "connect", "dropped"} => ptr[c] = NoConn
    /\ pc[c] \in {"pop", "count", "return", "have", "send", "recv", "release",
                  "pushlock", "push"} => ptr[c] \in Conns
    /\ invald_conns[c] # {} => pc[c] \in {"scan", "pop", "unlock", "discard", "uncount"}
    /\ mode[c] = "static" => pc[c] \in {"send", "recv", "release"}
    /\ pc[c] = "pop" => conns_ # <<>> /\ ptr[c] = conns_[1]
    /\ left[c] <= Length + errors[c]

CallInv == \A c \in Clients : LocalInv(c)

Listed(k) == \E i \in 1 .. Len(conns_) : conns_[i] = k
InHand(c, k) == ptr[c] = k /\ pc[c] # "pop"
InBin(c, k) == k \in invald_conns[c] /\ pc[c] # "uncount"

\* OneHolder without the counting: the list has no duplicates; list, hands and
\* lists of invalid connections have nothing in common; and together they are live.
PlaceInv ==
    /\ \A i, j \in 1 .. Len(conns_) : conns_[i] = conns_[j] => i = j
    /\ \A k \in Conns : Listed(k) =>
          k \in live /\ \A c \in Clients : ~InHand(c, k) /\ ~InBin(c, k)
    /\ \A k \in Conns, c \in Clients : InHand(c, k) =>
          k \in live /\ \A d \in Clients : ~InBin(d, k) /\ (InHand(d, k) => d = c)
    /\ \A k \in Conns, c \in Clients : InBin(c, k) =>
          k \in live /\ \A d \in Clients : InBin(d, k) => d = c
    /\ \A k \in live : Listed(k) \/ \E c \in Clients : InHand(c, k) \/ InBin(c, k)

\* The clients with a connection of the pool that total_ counts, or one that they
\* deleted and have not counted down.
Taken ==
    {c \in Clients : mode[c] # "static" /\
        \/ pc[c] \in {"return", "have", "send", "recv", "release", "pushlock", "push", "dropped"}
        \/ pc[c] \in {"unlock", "discard", "uncount"} /\ ptr[c] # NoConn}

\* The invalid connections, by the client that found them.
Binned == {ck \in Clients \X Conns : ck[2] \in invald_conns[ck[1]]}

\* TotalExact at every step.
TotalInv == total_ = Len(conns_) + Cardinality(Taken) + Cardinality(Binned)

\* The last m bytes on w are the first m of a request.
EndsWith(w, m) == m <= Len(w) /\ \A i \in 1 .. m : w[Len(w) - m + i] = i

\* RequestSent at every partial send.
SentSoFar(c) ==
    pc[c] \in {"send", "recv"} /\ errors[c] = 0 =>
        /\ pc[c] = "recv" => left[c] = 0
        /\ EndsWith(wire[ptr[c]], Length - left[c])

SentInv == \A c \in Clients : SentSoFar(c)

PoolInv == TypeOK /\ MutexInv /\ CallInv /\ PlaceInv /\ TotalInv /\ SentInv
=============================================================================
