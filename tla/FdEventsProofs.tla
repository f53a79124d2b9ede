---------------------------- MODULE FdEventsProofs ----------------------------
(***************************************************************************)
(* Theorems about FdEvents, for every number of descriptors, callers,      *)
(* pollers and waiters, whichever descriptors are closed behind the        *)
(* IOManager's back and whether or not epoll reports hang-ups.             *)
(***************************************************************************)
EXTENDS FdEvents, FiniteSetTheorems, TLAPS

\* The threads that have triggered an event and not yet counted it down.
Owing == {x \in Threads : owes[x]}

-----------------------------------------------------------------------------
(* Counting                                                                  *)

\* Both sets that PendingExact counts are finite.
LEMMA CountedFinite == IsFiniteSet(Registered) /\ IsFiniteSet(Owing)
<1>1. IsFiniteSet(Kinds)
  <2>1. Kinds = {"READ"} \cup {"WRITE"}
    BY DEF Kinds
  <2> QED BY <2>1, FS_Singleton, FS_Union
<1>2. IsFiniteSet(Fds \X Kinds)
  BY <1>1, FdEventsAssumption, FS_Product
<1>3. IsFiniteSet(Threads)
  BY FdEventsAssumption, FS_Union DEF Threads
<1> QED BY <1>2, <1>3, FS_Subset DEF Registered, Owing

\* m_pendingEventCount is positive while an event is registered or a decrement
\* owed: the two places that decrement it (iomanager.cpp:183 and after each
\* triggerEvent) never wrap it around.
LEMMA CountPositive ==
    ASSUME TypeOK, PendingExact,
           (\E f \in Fds : events[f] # {}) \/ (\E x \in Threads : owes[x])
    PROVE  m_pendingEventCount - 1 \in Nat
<1>1. Registered # {} \/ Owing # {}
  <2>1. CASE \E f \in Fds : events[f] # {}
    <3>1. PICK f \in Fds : events[f] # {}
      BY <2>1
    <3>2. PICK e \in Kinds : e \in events[f]
      BY <3>1 DEF TypeOK
    <3>3. <<f, e>> \in Registered
      BY <3>2 DEF Registered
    <3> QED BY <3>3
  <2>2. CASE \E x \in Threads : owes[x]
    BY <2>2 DEF Owing
  <2> QED BY <2>1, <2>2
<1>2. /\ Cardinality(Registered) \in Nat /\ Cardinality(Owing) \in Nat
      /\ Cardinality(Registered) = 0 <=> Registered = {}
      /\ Cardinality(Owing) = 0 <=> Owing = {}
  BY CountedFinite, FS_CardinalityType, FS_EmptySet
<1> QED BY <1>1, <1>2 DEF PendingExact, Owing

\* addEvent adds one element to the registered events.
LEMMA RegisteredAdd ==
    ASSUME TypeOK, NEW f \in Fds, NEW e \in Kinds, e \notin events[f],
           events' = [events EXCEPT ![f] = @ \cup {e}]
    PROVE  Cardinality(Registered') = Cardinality(Registered) + 1
<1>1. Registered' = Registered \cup {<<f, e>>} /\ <<f, e>> \notin Registered
  BY DEF TypeOK, Registered
<1> QED BY <1>1, CountedFinite, FS_AddElement

\* delEvent and triggerEvent take one out.
LEMMA RegisteredRemove ==
    ASSUME TypeOK, NEW f \in Fds, NEW e \in Kinds, e \in events[f],
           events' = [events EXCEPT ![f] = @ \ {e}]
    PROVE  Cardinality(Registered') = Cardinality(Registered) - 1
<1>1. Registered' = Registered \ {<<f, e>>} /\ <<f, e>> \in Registered
  BY DEF TypeOK, Registered
<1> QED BY <1>1, CountedFinite, FS_RemoveElement

\* The event that triggerEvent picks: READ before WRITE.
Chosen(x) == IF "READ" \in todo[x] THEN "READ" ELSE "WRITE"

\* triggerEvent(e) on FdContext f: the waiter leaves its EventContext for the
\* scheduler ...
Hit(x, f, e) ==
    /\ e \in events[f] /\ ~owes[x]
    /\ events' = [events EXCEPT ![f] = @ \ {e}]
    /\ waiter' = [waiter EXCEPT ![ctx[f][e]] = "scheduled"]
    /\ ctx' = [ctx EXCEPT ![f][e] = NoWaiter]
    /\ owes' = [owes EXCEPT ![x] = TRUE]
    /\ failed' = failed

\* ... or the assertion that the event is registered fails.
Miss(x, f, e) ==
    /\ e \notin events[f]
    /\ failed' = "triggerEvent"
    /\ UNCHANGED <<events, waiter, ctx, owes>>

\* triggerEvent takes one of the events still to be triggered, of the FdContext
\* whose mutex the thread holds.
LEMMA TriggerFacts ==
    ASSUME TypeOK, LockInv, NEW x \in Threads, TriggerEvent(x)
    PROVE  \E f \in Fds, e \in Kinds :
             /\ holds[x] = f /\ e \in todo[x]
             /\ todo' = [todo EXCEPT ![x] = @ \ {e}]
             /\ UNCHANGED <<m_pendingEventCount, interest, holds, report>>
             /\ Hit(x, f, e) \/ Miss(x, f, e)
<1>1. holds[x] \in Fds /\ Chosen(x) \in Kinds /\ Chosen(x) \in todo[x]
  BY FdEventsAssumption DEF TypeOK, LockInv, TriggerEvent, Chosen, Kinds
<1> USE <1>1
<1> WITNESS holds[x] \in Fds, Chosen(x) \in Kinds
<1> QED BY <1>1, Zenon DEF TriggerEvent, Chosen, Cleared, Hit, Miss

-----------------------------------------------------------------------------
(* One step                                                                  *)

\* Every step keeps the types.  The decrements need CountPositive.
LEMMA TypeStep == ASSUME EventsInv, Next PROVE TypeOK'
<1> USE FdEventsAssumption DEF TypeOK, EpollCtl, Cleared, threadVars
<1>a. TypeOK /\ LockInv /\ ContextInv /\ PendingExact
  BY DEF EventsInv
<1>1. ASSUME NEW x \in Callers, NEW f \in Fds, NEW e \in Kinds, NEW k \in Waiters,
             AddEvent(x, f, e, k)
      PROVE  TypeOK'
  BY <1>1, <1>a DEF AddEvent
<1>2. ASSUME NEW x \in Callers, NEW f \in Fds, NEW e \in Kinds, DelEvent(x, f, e)
      PROVE  TypeOK'
  <2>1. m_pendingEventCount - 1 \in Nat
    BY <1>2, <1>a, CountPositive DEF DelEvent
  <2> QED BY <1>2, <1>a, <2>1 DEF DelEvent
<1>3. ASSUME NEW x \in Callers, NEW f \in Fds, NEW e \in Kinds, CancelEvent(x, f, e)
      PROVE  TypeOK'
  BY <1>3, <1>a DEF CancelEvent, BeginTrigger, Threads
<1>4. ASSUME NEW x \in Callers, NEW f \in Fds, CancelAll(x, f) PROVE TypeOK'
  BY <1>4, <1>a DEF CancelAll, BeginTrigger, Threads
<1>5. ASSUME NEW p \in Pollers, EpollWait(p) PROVE TypeOK'
  BY <1>5, <1>a DEF EpollWait
<1>6. ASSUME NEW p \in Pollers, NEW f \in Fds, HandleReport(p, f) PROVE TypeOK'
  <2>1. RealEvents(report[p][f]) \in SUBSET Kinds
    BY <1>6, <1>a DEF RealEvents
  <2> QED BY <1>6, <1>a, <2>1 DEF HandleReport, BeginTrigger, Threads
<1>7. ASSUME NEW p \in Pollers, NEW f \in Fds, SkipReport(p, f) PROVE TypeOK'
  BY <1>7, <1>a DEF SkipReport
<1>8. ASSUME NEW x \in Threads, TriggerEvent(x) PROVE TypeOK'
  <2>1. PICK f \in Fds, e \in Kinds :
             /\ todo' = [todo EXCEPT ![x] = @ \ {e}]
             /\ UNCHANGED <<m_pendingEventCount, interest, holds, report>>
             /\ Hit(x, f, e) \/ Miss(x, f, e)
    BY <1>8, <1>a, TriggerFacts
  <2>2. CASE Hit(x, f, e)
    BY <1>a, <2>1, <2>2 DEF Hit
  <2>3. CASE Miss(x, f, e)
    BY <1>a, <2>1, <2>3 DEF Miss
  <2> QED BY <2>1, <2>2, <2>3
<1>9. ASSUME NEW x \in Threads, SettleTrigger(x) PROVE TypeOK'
  <2>1. m_pendingEventCount - 1 \in Nat
    BY <1>9, <1>a, CountPositive DEF SettleTrigger
  <2> QED BY <1>9, <1>a, <2>1 DEF SettleTrigger
<1>10. ASSUME NEW f \in Fds, KernelClose(f) PROVE TypeOK'
  BY <1>10, <1>a DEF KernelClose
<1> QED BY <1>1, <1>2, <1>3, <1>4, <1>5, <1>6, <1>7, <1>8, <1>9, <1>10
        DEF Next, CallerStep, PollerStep

\* Every step leaves each FdContext's mutex with one holder at most, and lets go
\* of it only when nothing is left to trigger or to count down.
LEMMA LockStep == ASSUME EventsInv, Next, TypeOK' PROVE LockInv'
<1> USE FdEventsAssumption DEF LockInv, Threads
<1>a. TypeOK /\ LockInv
  BY DEF EventsInv
<1>1. ASSUME NEW x \in Threads, NEW f \in Fds, NEW es, Lockable(x, f),
             BeginTrigger(x, f, es)
      PROVE  LockInv'
  BY <1>1, <1>a DEF Lockable, BeginTrigger, TypeOK
<1>2. ASSUME NEW x \in Callers, CallerStep(x) PROVE LockInv'
  <2>1. CASE UNCHANGED threadVars
    BY <1>a, <2>1 DEF threadVars
  <2> QED BY <1>1, <1>2, <2>1 DEF CallerStep, AddEvent, DelEvent, CancelEvent, CancelAll
<1>3. ASSUME NEW p \in Pollers, PollerStep(p) PROVE LockInv'
  <2>1. CASE UNCHANGED threadVars
    BY <1>a, <2>1 DEF threadVars
  <2> QED BY <1>1, <1>3, <2>1 DEF PollerStep, EpollWait, HandleReport, SkipReport
<1>4. ASSUME NEW x \in Threads, TriggerEvent(x) PROVE LockInv'
  <2>1. holds' = holds /\ holds[x] # NoFd
    BY <1>4, <1>a DEF TriggerEvent
  <2>2. \A y \in Threads : y # x => todo'[y] = todo[y] /\ owes'[y] = owes[y]
    BY <1>4, <1>a, TriggerFacts DEF TypeOK, Hit, Miss
  <2> QED BY <1>a, <2>1, <2>2
<1>5. ASSUME NEW x \in Threads, SettleTrigger(x) PROVE LockInv'
  BY <1>5, <1>a DEF SettleTrigger, TypeOK
<1>6. ASSUME NEW f \in Fds, KernelClose(f) PROVE LockInv'
  BY <1>6, <1>a DEF KernelClose, threadVars
<1> QED BY <1>2, <1>3, <1>4, <1>5, <1>6 DEF Next

\* Taking the waiter of a registered event out of its EventContext together with
\* the event, and giving it an outcome, keeps ContextInv: this is what delEvent and
\* triggerEvent have in common.
LEMMA TakeOut ==
    ASSUME TypeOK, ContextInv, NEW f \in Fds, NEW e \in Kinds, e \in events[f],
           NEW o \in {"scheduled", "dropped"},
           events' = [events EXCEPT ![f] = @ \ {e}],
           waiter' = [waiter EXCEPT ![ctx[f][e]] = o],
           ctx' = [ctx EXCEPT ![f][e] = NoWaiter]
    PROVE  ContextInv'
<1>1. PICK k \in Waiters : ctx[f][e] = k /\ waiter[k] = "waiting" /\ k # NoWaiter
  BY FdEventsAssumption DEF TypeOK, ContextInv
<1>2. \A g \in Fds, d \in Kinds :
          /\ ctx'[g][d] = IF g = f /\ d = e THEN NoWaiter ELSE ctx[g][d]
          /\ d \in events'[g] <=> d \in events[g] /\ ~(g = f /\ d = e)
  BY DEF TypeOK
<1>3. \A j \in Waiters : waiter'[j] = IF j = k THEN o ELSE waiter[j]
  BY <1>1 DEF TypeOK
<1>4. \A g \in Fds, d \in Kinds : ctx[g][d] = k => g = f /\ d = e
  BY <1>1 DEF ContextInv
<1>5. \A g \in Fds, d \in Kinds : d \in events'[g] <=> ctx'[g][d] # NoWaiter
  BY <1>2 DEF ContextInv
<1>6. \A g \in Fds, d \in Kinds : ctx'[g][d] # NoWaiter => waiter'[ctx'[g][d]] = "waiting"
  <2> SUFFICES ASSUME NEW g \in Fds, NEW d \in Kinds, ctx'[g][d] # NoWaiter
               PROVE  waiter'[ctx'[g][d]] = "waiting"
    OBVIOUS
  <2>1. ctx'[g][d] = ctx[g][d] /\ ctx[g][d] \in Waiters /\ ctx[g][d] # k
    BY <1>2, <1>4 DEF TypeOK
  <2> QED BY <1>3, <2>1 DEF ContextInv
<1>7. \A g, h \in Fds, d, b \in Kinds :
          ctx'[g][d] = ctx'[h][b] /\ ctx'[g][d] # NoWaiter => g = h /\ d = b
  BY <1>2 DEF ContextInv
<1>8. \A j \in Waiters : waiter'[j] = "waiting" => \E g \in Fds, d \in Kinds : ctx'[g][d] = j
  <2> SUFFICES ASSUME NEW j \in Waiters, waiter'[j] = "waiting"
               PROVE  \E g \in Fds, d \in Kinds : ctx'[g][d] = j
    OBVIOUS
  <2>1. j # k /\ waiter[j] = "waiting"
    BY <1>3
  <2>2. PICK g \in Fds, d \in Kinds : ctx[g][d] = j
    BY <2>1 DEF ContextInv
  <2> QED BY <1>1, <1>2, <2>1, <2>2
<1> QED BY <1>5, <1>6, <1>7, <1>8 DEF ContextInv

\* Every step keeps each waiter in the one EventContext whose event it registered,
\* and so addEvent never finds an EventContext in use.
LEMMA ContextStep ==
    ASSUME EventsInv, Next PROVE ContextInv' /\ failed' # "addEvent"
<1> USE FdEventsAssumption
<1>a. TypeOK /\ LockInv /\ ContextInv /\ failed # "addEvent"
  BY DEF EventsInv
<1>1. ASSUME NEW x \in Callers, NEW f \in Fds, NEW e \in Kinds, NEW k \in Waiters,
             AddEvent(x, f, e, k)
      PROVE  ContextInv' /\ failed' # "addEvent"
  <2>1. ctx[f][e] = NoWaiter /\ waiter[k] = "new" /\ k # NoWaiter
    BY <1>1, <1>a DEF AddEvent, ContextInv
  <2>2. \A g \in Fds, d \in Kinds :
            /\ ctx'[g][d] = IF g = f /\ d = e THEN k ELSE ctx[g][d]
            /\ d \in events'[g] <=> d \in events[g] \/ (g = f /\ d = e)
    BY <1>1, <1>a DEF AddEvent, TypeOK
  <2>3. \A j \in Waiters : waiter'[j] = IF j = k THEN "waiting" ELSE waiter[j]
    BY <1>1, <1>a DEF AddEvent, TypeOK
  <2>4. \A g \in Fds, d \in Kinds : ctx[g][d] # k
    BY <1>a, <2>1 DEF ContextInv
  <2>5. \A g \in Fds, d \in Kinds : d \in events'[g] <=> ctx'[g][d] # NoWaiter
    BY <1>a, <2>1, <2>2 DEF ContextInv
  <2>6. \A g \in Fds, d \in Kinds : ctx'[g][d] # NoWaiter => waiter'[ctx'[g][d]] = "waiting"
    BY <1>a, <2>2, <2>3 DEF ContextInv, TypeOK
  <2>7. \A g, h \in Fds, d, b \in Kinds :
            ctx'[g][d] = ctx'[h][b] /\ ctx'[g][d] # NoWaiter => g = h /\ d = b
    BY <1>a, <2>2, <2>4 DEF ContextInv
  <2>8. \A j \in Waiters : waiter'[j] = "waiting" => \E g \in Fds, d \in Kinds : ctx'[g][d] = j
    <3> SUFFICES ASSUME NEW j \in Waiters, waiter'[j] = "waiting"
                 PROVE  \E g \in Fds, d \in Kinds : ctx'[g][d] = j
      OBVIOUS
    <3>1. CASE j = k
      BY <2>2, <3>1
    <3>2. CASE j # k
      <4>1. PICK g \in Fds, d \in Kinds : ctx[g][d] = j
        BY <1>a, <2>3, <3>2 DEF ContextInv
      <4> QED BY <2>1, <2>2, <4>1
    <3> QED BY <3>1, <3>2
  <2>9. failed' # "addEvent"
    BY <1>1, <1>a, <2>1 DEF AddEvent
  <2> QED BY <2>5, <2>6, <2>7, <2>8, <2>9 DEF ContextInv
<1>2. ASSUME NEW x \in Callers, NEW f \in Fds, NEW e \in Kinds, DelEvent(x, f, e)
      PROVE  ContextInv' /\ failed' # "addEvent"
  BY <1>2, <1>a, TakeOut DEF DelEvent, Cleared
<1>3. ASSUME NEW x \in Threads, TriggerEvent(x) PROVE ContextInv' /\ failed' # "addEvent"
  <2>1. PICK f \in Fds, e \in Kinds : Hit(x, f, e) \/ Miss(x, f, e)
    BY <1>3, <1>a, TriggerFacts
  <2>2. CASE Hit(x, f, e)
    BY <1>a, <2>2, TakeOut DEF Hit
  <2>3. CASE Miss(x, f, e)
    BY <1>a, <2>3 DEF Miss, ContextInv
  <2> QED BY <2>1, <2>2, <2>3
<1>4. ASSUME UNCHANGED <<events, ctx, waiter, failed>>
      PROVE  ContextInv' /\ failed' # "addEvent"
  BY <1>4, <1>a DEF ContextInv
<1> QED BY <1>1, <1>2, <1>3, <1>4 DEF Next, CallerStep, PollerStep, CancelEvent, CancelAll,
        BeginTrigger, EpollWait, HandleReport, SkipReport, SettleTrigger, KernelClose

\* Every step keeps epoll's registration in step with events and with what the
\* holder of the mutex has yet to trigger.
LEMMA InterestStep == ASSUME EventsInv, Next, TypeOK' PROVE InterestInv'
<1> USE FdEventsAssumption DEF InterestInv, EpollCtl
<1>a. TypeOK /\ LockInv /\ InterestInv
  BY DEF EventsInv
<1>1. ASSUME NEW x \in Threads, NEW f \in Fds, NEW es \in SUBSET Kinds, Lockable(x, f),
             EpollCtl(f, events[f] \ es), BeginTrigger(x, f, es)
      PROVE  InterestInv'
  BY <1>1, <1>a DEF Lockable, BeginTrigger, TypeOK
<1>2. ASSUME NEW x \in Callers, NEW f \in Fds, NEW e \in Kinds, NEW k \in Waiters,
             AddEvent(x, f, e, k)
      PROVE  InterestInv'
  BY <1>2, <1>a DEF AddEvent, Lockable, threadVars, TypeOK
<1>3. ASSUME NEW x \in Callers, NEW f \in Fds, NEW e \in Kinds, DelEvent(x, f, e)
      PROVE  InterestInv'
  BY <1>3, <1>a DEF DelEvent, Lockable, threadVars, TypeOK
<1>4. ASSUME NEW x \in Callers, NEW f \in Fds, NEW e \in Kinds, CancelEvent(x, f, e)
      PROVE  InterestInv'
  <2>1. {e} \in SUBSET Kinds /\ x \in Threads
    BY DEF Threads
  <2> QED BY <1>4, <1>1, <2>1 DEF CancelEvent
<1>5. ASSUME NEW x \in Callers, NEW f \in Fds, CancelAll(x, f) PROVE InterestInv'
  <2>1. events[f] \ events[f] = {} /\ events[f] \in SUBSET Kinds
    BY <1>a DEF TypeOK
  <2> QED BY <1>5, <1>a, <1>1, <2>1 DEF CancelAll, Threads
<1>6. ASSUME NEW p \in Pollers, NEW f \in Fds, HandleReport(p, f) PROVE InterestInv'
  <2>1. RealEvents(report[p][f]) \in SUBSET Kinds
    BY <1>6, <1>a DEF RealEvents, TypeOK
  <2> QED BY <1>6, <1>a, <1>1, <2>1 DEF HandleReport, Threads
<1>7. ASSUME NEW x \in Threads, TriggerEvent(x) PROVE InterestInv'
  <2>1. PICK f \in Fds, e \in Kinds :
             /\ holds[x] = f /\ e \in todo[x]
             /\ todo' = [todo EXCEPT ![x] = @ \ {e}]
             /\ UNCHANGED <<m_pendingEventCount, interest, holds, report>>
             /\ Hit(x, f, e) \/ Miss(x, f, e)
    BY <1>7, <1>a, TriggerFacts
  <2>2. \A y \in Threads : y # x => holds[y] # f
    BY <1>a, <2>1 DEF LockInv
  <2>3. CASE Hit(x, f, e)
    BY <1>a, <2>1, <2>2, <2>3 DEF Hit, TypeOK
  <2>4. CASE Miss(x, f, e)
    BY <1>a, <2>1, <2>2, <2>4 DEF Miss, TypeOK
  <2> QED BY <2>1, <2>3, <2>4
<1>8. ASSUME NEW x \in Threads, SettleTrigger(x) PROVE InterestInv'
  <2>1. \A y \in Threads : y # x => holds'[y] = holds[y]
    BY <1>8, <1>a DEF SettleTrigger, TypeOK
  <2>2. todo[x] = {} => holds'[x] = NoFd /\ \A y \in Threads : y # x => holds[y] # holds[x]
    BY <1>8, <1>a DEF SettleTrigger, TypeOK, LockInv
  <2>3. todo[x] # {} => holds'[x] = holds[x]
    BY <1>8, <1>a DEF SettleTrigger, TypeOK
  <2>4. UNCHANGED <<interest, events, todo>>
    BY <1>8 DEF SettleTrigger
  <2> SUFFICES ASSUME NEW f \in Fds \ Closable
               PROVE  /\ (\A y \in Threads : holds'[y] # f) => interest[f] = events[f]
                      /\ \A y \in Threads : holds'[y] = f => interest[f] = events[f] \ todo[y]
    BY <2>4
  <2>5. \A y \in Threads : holds'[y] = f => holds[y] = f
    BY <2>1, <2>2, <2>3
  <2>6. (\A y \in Threads : holds'[y] # f) =>
            \/ \A y \in Threads : holds[y] # f
            \/ holds[x] = f /\ todo[x] = {}
    BY <2>1, <2>3
  <2>7. events[f] \ {} = events[f]
    OBVIOUS
  <2> QED BY <1>a, <2>5, <2>6, <2>7
<1>9. ASSUME NEW f \in Fds, KernelClose(f) PROVE InterestInv'
  BY <1>9, <1>a DEF KernelClose, threadVars, TypeOK
<1>10. ASSUME UNCHANGED <<interest, events, threadVars>> PROVE InterestInv'
  BY <1>10, <1>a DEF threadVars
<1> QED BY <1>2, <1>3, <1>4, <1>5, <1>6, <1>7, <1>8, <1>9, <1>10
        DEF Next, CallerStep, PollerStep, EpollWait, SkipReport

\* Every step keeps m_pendingEventCount equal to what is registered or owed.
LEMMA CountStep == ASSUME EventsInv, Next PROVE PendingExact'
<1>a. TypeOK /\ LockInv /\ PendingExact
  BY DEF EventsInv
<1>b. Cardinality(Registered) \in Nat /\ Cardinality(Owing) \in Nat
  BY CountedFinite, FS_CardinalityType
<1> USE DEF PendingExact
<1>1. ASSUME NEW x \in Callers, NEW f \in Fds, NEW e \in Kinds, NEW k \in Waiters,
             AddEvent(x, f, e, k)
      PROVE  PendingExact'
  <2>1. Cardinality(Registered') = Cardinality(Registered) + 1
    BY <1>1, <1>a, RegisteredAdd DEF AddEvent
  <2> QED BY <1>1, <1>a, <1>b, <2>1 DEF AddEvent, threadVars, Owing, TypeOK
<1>2. ASSUME NEW x \in Callers, NEW f \in Fds, NEW e \in Kinds, DelEvent(x, f, e)
      PROVE  PendingExact'
  <2>1. Cardinality(Registered') = Cardinality(Registered) - 1
    BY <1>2, <1>a, RegisteredRemove DEF DelEvent
  <2> QED BY <1>2, <1>a, <1>b, <2>1 DEF DelEvent, threadVars, Owing, TypeOK
<1>3. ASSUME NEW x \in Threads, TriggerEvent(x) PROVE PendingExact'
  <2>1. PICK f \in Fds, e \in Kinds :
             m_pendingEventCount' = m_pendingEventCount /\ (Hit(x, f, e) \/ Miss(x, f, e))
    BY <1>3, <1>a, TriggerFacts
  <2>2. CASE Hit(x, f, e)
    <3>1. Cardinality(Registered') = Cardinality(Registered) - 1
      BY <1>a, <2>2, RegisteredRemove DEF Hit
    <3>2. Owing' = Owing \cup {x} /\ x \notin Owing
      BY <1>a, <2>2 DEF Hit, Owing, TypeOK
    <3>3. Cardinality(Owing') = Cardinality(Owing) + 1
      BY <3>2, CountedFinite, FS_AddElement
    <3> QED BY <1>a, <1>b, <2>1, <3>1, <3>3 DEF Owing, TypeOK
  <2>3. CASE Miss(x, f, e)
    BY <1>a, <2>1, <2>3 DEF Miss, Registered
  <2> QED BY <2>1, <2>2, <2>3
<1>4. ASSUME NEW x \in Threads, SettleTrigger(x) PROVE PendingExact'
  <2>1. Owing' = Owing \ {x} /\ x \in Owing
    BY <1>4, <1>a DEF SettleTrigger, Owing, TypeOK
  <2>2. Cardinality(Owing') = Cardinality(Owing) - 1
    BY <2>1, CountedFinite, FS_RemoveElement
  <2>3. Registered' = Registered /\ m_pendingEventCount' = m_pendingEventCount - 1
    BY <1>4 DEF SettleTrigger, Registered
  <2> QED BY <1>a, <1>b, <2>2, <2>3 DEF Owing, TypeOK
<1>5. ASSUME UNCHANGED <<events, m_pendingEventCount, owes>> PROVE PendingExact'
  BY <1>5, <1>a DEF Registered
<1> QED BY <1>1, <1>2, <1>3, <1>4, <1>5 DEF Next, CallerStep, PollerStep, CancelEvent,
        CancelAll, BeginTrigger, EpollWait, HandleReport, SkipReport, KernelClose, threadVars

-----------------------------------------------------------------------------
(* Theorems                                                                  *)

\* EventsInv is inductive: all it relates is set up and taken down together in the
\* critical sections of FdContext::mutex (iomanager.cpp:121-258, 332-372).
THEOREM EventsInvariant == Spec => []EventsInv
<1>1. Init => EventsInv
  <2> SUFFICES ASSUME Init PROVE EventsInv
    OBVIOUS
  <2>1. TypeOK /\ LockInv /\ ContextInv /\ InterestInv /\ failed # "addEvent"
    BY FdEventsAssumption DEF Init, TypeOK, LockInv, ContextInv, InterestInv
  <2>2. Registered = {} /\ Owing = {}
    BY DEF Init, Registered, Owing
  <2>3. Cardinality(Registered) = 0 /\ Cardinality(Owing) = 0
    BY <2>2, FS_EmptySet, Zenon
  <2>4. PendingExact
    BY <2>3 DEF Init, PendingExact, Owing
  <2> QED BY <2>1, <2>4 DEF EventsInv
<1>2. EventsInv /\ [Next]_vars => EventsInv'
  <2> SUFFICES ASSUME EventsInv, [Next]_vars PROVE EventsInv'
    OBVIOUS
  <2>1. CASE Next
    BY <2>1, TypeStep, LockStep, ContextStep, InterestStep, CountStep DEF EventsInv
  <2>2. CASE UNCHANGED vars
    BY <2>2 DEF vars, EventsInv, TypeOK, LockInv, ContextInv, InterestInv, PendingExact,
       Registered
  <2> QED BY <2>1, <2>2
<1> QED BY <1>1, <1>2, PTL DEF Spec

\* Every variable keeps its type; in particular m_pendingEventCount, a size_t that
\* delEvent and triggerEvent's callers decrement without a test, never passes below
\* zero.
THEOREM TypeCorrect == Spec => []TypeOK
<1>1. EventsInv => TypeOK
  BY DEF EventsInv
<1> QED BY <1>1, EventsInvariant, PTL

\* m_pendingEventCount, on which IOManager::stopping decides that the threads may
\* leave, is the number of registered events plus the decrements threads still owe.
THEOREM PendingCountExact == Spec => []PendingExact
<1>1. EventsInv => PendingExact
  BY DEF EventsInv
<1> QED BY <1>1, EventsInvariant, PTL

\* addEvent never finds an EventContext in use, and between two critical sections
\* epoll watches exactly the registered events.
THEOREM EpollInSync == Spec => []ContextsInSync
<1>1. EventsInv => ContextsInSync
  BY DEF EventsInv, InterestInv, ContextsInSync
<1> QED BY <1>1, EventsInvariant, PTL

\* Whoever waits sits in an EventContext that epoll watches or that the holder of
\* its mutex is about to trigger: the two parts of EventsInv that speak of contexts
\* and of epoll's registration meet here.
THEOREM WaiterCanBeWoken == Spec => []WaiterReachable
<1>1. EventsInv => WaiterReachable
  <2> SUFFICES ASSUME EventsInv, NEW k \in Waiters, waiter[k] = "waiting"
               PROVE  \E f \in Fds : \E e \in events[f] :
                          /\ ctx[f][e] = k
                          /\ \/ f \in Closable
                             \/ e \in interest[f]
                             \/ \E x \in Threads : holds[x] = f /\ e \in todo[x]
    BY DEF WaiterReachable
  <2>1. PICK f \in Fds, e \in Kinds : ctx[f][e] = k
    BY DEF EventsInv, ContextInv
  <2>2. e \in events[f]
    BY <2>1, FdEventsAssumption DEF EventsInv, ContextInv
  <2>3. f \in Closable \/ e \in interest[f] \/ \E x \in Threads : holds[x] = f /\ e \in todo[x]
    BY <2>2 DEF EventsInv, InterestInv
  <2> QED BY <2>1, <2>2, <2>3
<1> QED BY <1>1, EventsInvariant, PTL

\* A waiter that was scheduled, or dropped by delEvent, stays so: only a waiter in an
\* EventContext gets an outcome, and what is in an EventContext has none yet.
THEOREM OutcomeIsFinal == Spec => OneOutcome
<1> DEFINE Final == \A k \in Waiters :
                      waiter[k] \in {"scheduled", "dropped"} => waiter'[k] = waiter[k]
<1>1. EventsInv /\ [Next]_vars => [Final]_vars
  <2> SUFFICES ASSUME EventsInv, Next PROVE Final
    BY DEF vars
  <2>a. TypeOK /\ LockInv /\ ContextInv
    BY DEF EventsInv
  <2>1. ASSUME NEW x \in Callers, NEW f \in Fds, NEW e \in Kinds, NEW k \in Waiters,
               AddEvent(x, f, e, k)
        PROVE  Final
    BY <2>1, <2>a DEF AddEvent, TypeOK
  <2>2. ASSUME NEW f \in Fds, NEW e \in Kinds, e \in events[f], NEW o,
               waiter' = [waiter EXCEPT ![ctx[f][e]] = o]
        PROVE  Final
    <3>1. waiter[ctx[f][e]] = "waiting"
      BY <2>2, <2>a DEF ContextInv
    <3> QED BY <2>2, <2>a, <3>1 DEF TypeOK
  <2>3. ASSUME NEW x \in Threads, TriggerEvent(x) PROVE Final
    BY <2>3, <2>a, <2>2, TriggerFacts DEF Hit, Miss
  <2>4. ASSUME UNCHANGED waiter PROVE Final
    BY <2>4
  <2> QED BY <2>1, <2>2, <2>3, <2>4 DEF Next, CallerStep, PollerStep, DelEvent, CancelEvent,
          CancelAll, BeginTrigger, EpollWait, HandleReport, SkipReport, SettleTrigger, KernelClose
<1> QED BY <1>1, EventsInvariant, PTL DEF Spec, OneOutcome
=============================================================================
