---------------------------- MODULE SchedulerProofs ----------------------------
(***************************************************************************)
(* Proofs about Scheduler, for any number of workers and tasks, any        *)
(* affinities and any number of yields.                                    *)
(***************************************************************************)
EXTENDS Scheduler, FiniteSetTheorems, SequenceTheorems, TLAPS

(* m_fibers.erase( it ): the other items stay, in their order.              *)
LEMMA EraseItem ==
    ASSUME NEW S, NEW s \in Seq(S), NEW k \in 1 .. Len(s)
    PROVE  /\ RemoveAt(s, k) \in Seq(S)
           /\ Len(RemoveAt(s, k)) = Len(s) - 1
           /\ \A j \in 1 .. Len(s) - 1 :
                 RemoveAt(s, k)[j] = IF j < k THEN s[j] ELSE s[j + 1]
<1> DEFINE a == SubSeq(s, 1, k - 1)
           b == SubSeq(s, k + 1, Len(s))
<1>1. a \in Seq(S) /\ Len(a) = k - 1 /\ \A j \in 1 .. k - 1 : a[j] = s[j]
  OBVIOUS
<1>2. b \in Seq(S) /\ Len(b) = Len(s) - k
      /\ \A j \in 1 .. Len(s) - k : b[j] = s[k + j]
  OBVIOUS
<1>3. RemoveAt(s, k) = a \o b
  BY DEF RemoveAt
<1> HIDE DEF a, b
<1>4. a \o b \in Seq(S) /\ Len(a \o b) = Len(s) - 1
  <2>1. a \o b \in Seq(S) /\ Len(a \o b) = Len(a) + Len(b)
    BY <1>1, <1>2, ConcatProperties
  <2> QED BY <2>1, <1>1, <1>2
<1>5. ASSUME NEW j \in 1 .. Len(s) - 1
      PROVE  (a \o b)[j] = IF j < k THEN s[j] ELSE s[j + 1]
  <2>1. CASE j < k
    BY <2>1, <1>1, <1>2
  <2>2. CASE ~(j < k)
    <3>1. j - (k - 1) \in 1 .. Len(s) - k /\ k + (j - (k - 1)) = j + 1
      BY <2>2
    <3>2. (a \o b)[j] = b[j - (k - 1)]
      BY <3>1, <2>2, <1>1, <1>2, ConcatProperties
    <3> QED BY <3>1, <3>2, <2>2, <1>2
  <2> QED BY <2>1, <2>2
<1> QED BY <1>3, <1>4, <1>5

\* push_back: the items that were there stay where they are.
LEMMA PushItem ==
    ASSUME m_fibers \in Seq(Item), NEW t \in Tasks,
           NEW thread \in Workers \cup {AnyThread}, Push(t, thread)
    PROVE  /\ m_fibers' \in Seq(Item)
           /\ Len(m_fibers) \in Nat
           /\ Len(m_fibers') = Len(m_fibers) + 1
           /\ \A i \in 1 .. Len(m_fibers) : m_fibers'[i] = m_fibers[i]
           /\ m_fibers'[Len(m_fibers) + 1] = [task |-> t, thread |-> thread]
<1> DEFINE item == [task |-> t, thread |-> thread]
<1>1. item \in Item
  BY DEF Item
<1>2. m_fibers' = Append(m_fibers, item)
  BY DEF Push
<1> HIDE DEF item
<1>3. /\ m_fibers' \in Seq(Item)
      /\ Len(m_fibers) \in Nat
      /\ Len(m_fibers') = Len(m_fibers) + 1
      /\ \A i \in 1 .. Len(m_fibers) : m_fibers'[i] = m_fibers[i]
      /\ m_fibers'[Len(m_fibers) + 1] = item
  BY <1>1, <1>2
<1> QED BY <1>3 DEF item

\* The scan takes one item out; the others stay.
LEMMA PickItem ==
    ASSUME m_fibers \in Seq(Item), NEW i \in 1 .. Len(m_fibers), m_fibers' = Taken(i)
    PROVE  /\ m_fibers' \in Seq(Item)
           /\ Len(m_fibers) \in Nat \ {0}
           /\ Len(m_fibers') = Len(m_fibers) - 1
           /\ \A j \in 1 .. Len(m_fibers) - 1 :
                 m_fibers'[j] = IF j < i THEN m_fibers[j] ELSE m_fibers[j + 1]
           /\ m_fibers[i].task \in Tasks
<1>1. /\ m_fibers' \in Seq(Item)
      /\ Len(m_fibers') = Len(m_fibers) - 1
      /\ \A j \in 1 .. Len(m_fibers) - 1 :
                 m_fibers'[j] = IF j < i THEN m_fibers[j] ELSE m_fibers[j + 1]
  BY EraseItem DEF Taken
<1>2. Len(m_fibers) \in Nat \ {0} /\ m_fibers[i] \in Item
  OBVIOUS
<1> QED BY <1>1, <1>2 DEF Item

LEMMA GotoType ==
    ASSUME TypeOK, NEW w \in Workers, NEW l \in WorkerPC, Goto(w, l)
    PROVE  /\ pc' \in [Workers -> WorkerPC]
           /\ pc'[w] = l
           /\ \A v \in Workers : v # w => pc'[v] = pc[v]
BY DEF TypeOK, Goto

-----------------------------------------------------------------------------
(* Every configuration                                                       *)

Active == {w \in Workers : pc[w] \in ActivePC}

LEMMA ActiveFinite == IsFiniteSet(Active) /\ Cardinality(Active) \in Nat
BY SchedulerAssumption, FS_Subset, FS_CardinalityType DEF Active

\* One worker's step moves at most that worker in or out of the counted ones.
LEMMA ActiveMoves ==
    ASSUME TypeOK, NEW w \in Workers, NEW l \in WorkerPC, Goto(w, l)
    PROVE  /\ (pc[w] \in ActivePC <=> l \in ActivePC)
                => Cardinality(Active') = Cardinality(Active)
           /\ pc[w] \notin ActivePC /\ l \in ActivePC
                => Cardinality(Active') = Cardinality(Active) + 1
           /\ pc[w] \in ActivePC /\ l \notin ActivePC
                => Cardinality(Active') = Cardinality(Active) - 1
<1>0. \A v \in Workers : pc'[v] = IF v = w THEN l ELSE pc[v]
  BY GotoType
<1>1. ASSUME pc[w] \in ActivePC <=> l \in ActivePC
      PROVE  Cardinality(Active') = Cardinality(Active)
  <2>1. Active' = Active
    BY <1>0, <1>1 DEF Active
  <2> QED BY <2>1
<1>2. ASSUME pc[w] \notin ActivePC, l \in ActivePC
      PROVE  Cardinality(Active') = Cardinality(Active) + 1
  <2>1. Active' = Active \cup {w} /\ w \notin Active
    BY <1>0, <1>2 DEF Active
  <2> QED BY <2>1, ActiveFinite, FS_AddElement
<1>3. ASSUME pc[w] \in ActivePC, l \notin ActivePC
      PROVE  Cardinality(Active') = Cardinality(Active) - 1
  <2>1. Active' = Active \ {w} /\ w \in Active
    BY <1>0, <1>3 DEF Active
  <2> QED BY <2>1, ActiveFinite, FS_RemoveElement
<1> QED BY <1>1, <1>2, <1>3

\* Each assignment of run() to m_activeThreadCount goes with the worker that
\* passes it: the count is exact, and is never decremented at 0.
LEMMA CountStep ==
    ASSUME BaseInv, [Next]_vars
    PROVE  CountInv' /\ m_activeThreadCount' \in Nat
<1>0. m_activeThreadCount = Cardinality(Active) /\ TypeOK /\ OwnerInv
  BY DEF BaseInv, CountInv, Active
<1>1. SUFFICES m_activeThreadCount' = Cardinality(Active')
  <2>1. Cardinality(Active') \in Nat
    BY SchedulerAssumption, FS_Subset, FS_CardinalityType DEF Active
  <2> QED BY <2>1 DEF CountInv, Active
<1>2. ASSUME NEW w \in Workers, NEW l \in WorkerPC, Goto(w, l)
      PROVE  /\ (pc[w] \in ActivePC <=> l \in ActivePC)
                  => Cardinality(Active') = Cardinality(Active)
             /\ pc[w] \notin ActivePC /\ l \in ActivePC
                  => Cardinality(Active') = Cardinality(Active) + 1
             /\ pc[w] \in ActivePC /\ l \notin ActivePC
                  => Cardinality(Active') = Cardinality(Active) - 1
  BY <1>0, <1>2, ActiveMoves
<1>3. ASSUME pc' = pc PROVE Cardinality(Active') = Cardinality(Active)
  <2>1. Active' = Active
    BY <1>3 DEF Active
  <2> QED BY <2>1
<1> USE DEF WorkerPC, ActivePC
<1>4. ASSUME NEW w \in Workers, WorkerStep(w)
      PROVE  m_activeThreadCount' = Cardinality(Active')
  <2>1. CASE PickNone(w)
    BY <2>1, <1>0, <1>2 DEF PickNone
  <2>2. CASE Pick(w)
    BY <2>2, <1>0, <1>2 DEF Pick
  <2>3. CASE DropFinished(w)
    BY <2>3, <1>0, <1>2 DEF DropFinished
  <2>4. CASE SwapIn(w)
    BY <2>4, <1>0, <1>2 DEF SwapIn
  <2>5. CASE YieldToReady(w) \/ YieldToHold(w) \/ MainFuncEnds(w)
    BY <2>5, <1>0, <1>2 DEF YieldToReady, YieldToHold, MainFuncEnds
  <2>6. CASE AddEvent(w)
    BY <2>6, <1>0, <1>2 DEF AddEvent
  <2>7. CASE SwapOut(w)
    BY <2>7, <1>0, <1>2 DEF SwapOut
  <2>8. CASE Deactivate(w)
    BY <2>8, <1>0, <1>2 DEF Deactivate
  <2>9. CASE TestState(w)
    <3>1. Goto(w, "pick") \/ Goto(w, "resched") \/ Goto(w, "sethold")
      BY <2>9 DEF TestState
    <3> QED BY <3>1, <2>9, <1>0, <1>2 DEF TestState
  <2>10. CASE Reschedule(w) \/ SetHold(w)
    BY <2>10, <1>0, <1>2 DEF Reschedule, SetHold
  <2>11. CASE EnterIdle(w)
    <3>1. Goto(w, "exit") \/ Goto(w, "idle")
      BY <2>11 DEF EnterIdle
    <3> QED BY <3>1, <2>11, <1>0, <1>2 DEF EnterIdle
  <2>12. CASE IdlePending(w)
    <3>1. Goto(w, "idle2") \/ Goto(w, "pick")
      BY <2>12 DEF IdlePending
    <3> QED BY <3>1, <2>12, <1>0, <1>2 DEF IdlePending
  <2>13. CASE IdleStopping(w)
    BY <2>13, <1>0, <1>2 DEF IdleStopping
  <2> QED BY <1>4, <2>1, <2>2, <2>3, <2>4, <2>5, <2>6, <2>7, <2>8, <2>9, <2>10,
             <2>11, <2>12, <2>13 DEF WorkerStep
<1>5. CASE Start
  <2>1. Active = {} /\ Active' = {}
    BY <1>5, <1>0 DEF Start, OwnerInv, Active, TypeOK
  <2> QED BY <2>1, <1>5, <1>0 DEF Start
<1>6. CASE StopProbe \/ StopCallRoot
  <2>1. Root \in Workers /\ pc[Root] = "off" /\ m_activeThreadCount' = m_activeThreadCount
    BY <1>6, <1>0 DEF StopProbe, StopCallRoot, OwnerInv
  <2>2. Goto(Root, "off") \/ Goto(Root, "pick")
    BY <2>1, <1>6, <1>0 DEF StopProbe, StopCallRoot, Goto, TypeOK
  <2> QED BY <2>1, <2>2, <1>0, <1>2
<1>7. CASE StopFlag \/ StopTickle \/ StopRootBack \/ StopJoin
  BY <1>7, <1>0, <1>3 DEF StopFlag, StopTickle, StopRootBack, StopJoin
<1>8. CASE \E t \in Tasks, thread \in Affinity : Schedule(t, thread)
  BY <1>8, <1>0, <1>3 DEF Schedule
<1>9. CASE \E t \in Tasks : ScheduleAgain(t) \/ Trigger(t) \/ TriggerDone(t)
  BY <1>9, <1>0, <1>3 DEF ScheduleAgain, Trigger, TriggerDone
<1>10. CASE \E w \in Workers, t \in Tasks, thread \in Affinity : Spawn(w, t, thread)
  BY <1>10, <1>0, <1>3 DEF Spawn
<1>11. CASE UNCHANGED vars
  BY <1>11, <1>0, <1>3 DEF vars
<1> QED BY <1>4, <1>5, <1>6, <1>7, <1>8, <1>9, <1>10, <1>11 DEF Next, OwnerStep

\* A worker's program counter says whether it has a task in hand.
LEMMA HandStep ==
    ASSUME BaseInv, [Next]_vars
    PROVE  HandInv' /\ ft' \in [Workers -> Tasks \cup {NoTask}]
<1>0. TypeOK /\ HandInv /\ OwnerInv
  BY DEF BaseInv
<1>1. ASSUME NEW w \in Workers, NEW l \in WorkerPC, Goto(w, l), UNCHANGED ft,
             pc[w] \in HandPC <=> l \in HandPC
      PROVE  HandInv' /\ ft' \in [Workers -> Tasks \cup {NoTask}]
  BY <1>0, <1>1, GotoType DEF TypeOK, HandInv
<1>2. ASSUME NEW w \in Workers, NEW l \in WorkerPC, Goto(w, l), l \notin HandPC,
             ft' = [ft EXCEPT ![w] = NoTask]
      PROVE  HandInv' /\ ft' \in [Workers -> Tasks \cup {NoTask}]
  BY <1>0, <1>2, GotoType DEF TypeOK, HandInv
<1>3. ASSUME UNCHANGED <<pc, ft>>
      PROVE  HandInv' /\ ft' \in [Workers -> Tasks \cup {NoTask}]
  BY <1>0, <1>3 DEF TypeOK, HandInv
<1> USE DEF WorkerPC, HandPC
<1>4. ASSUME NEW w \in Workers, WorkerStep(w)
      PROVE  HandInv' /\ ft' \in [Workers -> Tasks \cup {NoTask}]
  <2>1. CASE PickNone(w)
    BY <2>1, <1>1 DEF PickNone
  <2>2. CASE Pick(w)
    <3>1. PICK i \in 1 .. Len(m_fibers) :
             ft' = [ft EXCEPT ![w] = m_fibers[i].task] /\ m_fibers' = Taken(i)
      BY <2>2 DEF Pick, Eligible
    <3>2. m_fibers[i].task \in Tasks
      BY <3>1, <1>0, PickItem DEF TypeOK
    <3>3. m_fibers[i].task # NoTask /\ Goto(w, "picked")
      BY <2>2, <3>2, SchedulerAssumption DEF Pick
    <3> QED BY <3>1, <3>2, <3>3, <1>0, GotoType DEF TypeOK, HandInv
  <2>3. CASE DropFinished(w)
    BY <2>3, <1>2 DEF DropFinished
  <2>4. CASE SwapIn(w)
    BY <2>4, <1>1 DEF SwapIn
  <2>5. CASE YieldToReady(w) \/ YieldToHold(w) \/ MainFuncEnds(w)
    BY <2>5, <1>1 DEF YieldToReady, YieldToHold, MainFuncEnds
  <2>6. CASE AddEvent(w)
    BY <2>6, <1>1 DEF AddEvent
  <2>7. CASE SwapOut(w)
    BY <2>7, <1>1 DEF SwapOut
  <2>8. CASE Deactivate(w)
    BY <2>8, <1>1 DEF Deactivate
  <2>9. CASE TestState(w)
    <3>1. \/ Goto(w, "pick") /\ ft' = [ft EXCEPT ![w] = NoTask]
          \/ Goto(w, "resched") /\ UNCHANGED ft
          \/ Goto(w, "sethold") /\ UNCHANGED ft
      BY <2>9 DEF TestState
    <3>2. pc[w] = "after"
      BY <2>9 DEF TestState
    <3> QED BY <3>1, <3>2, <1>1, <1>2
  <2>10. CASE Reschedule(w) \/ SetHold(w)
    BY <2>10, <1>2 DEF Reschedule, SetHold
  <2>11. CASE EnterIdle(w)
    <3>1. Goto(w, "exit") \/ Goto(w, "idle")
      BY <2>11 DEF EnterIdle
    <3> QED BY <3>1, <2>11, <1>1 DEF EnterIdle
  <2>12. CASE IdlePending(w)
    <3>1. Goto(w, "idle2") \/ Goto(w, "pick")
      BY <2>12 DEF IdlePending
    <3> QED BY <3>1, <2>12, <1>1 DEF IdlePending
  <2>13. CASE IdleStopping(w)
    BY <2>13, <1>1 DEF IdleStopping
  <2> QED BY <1>4, <2>1, <2>2, <2>3, <2>4, <2>5, <2>6, <2>7, <2>8, <2>9, <2>10,
             <2>11, <2>12, <2>13 DEF WorkerStep
<1>5. CASE Start
  BY <1>5, <1>0 DEF Start, OwnerInv, HandInv, TypeOK
<1>6. CASE StopProbe \/ StopCallRoot
  <2>1. Root \in Workers /\ pc[Root] = "off" /\ UNCHANGED ft
    BY <1>6, <1>0 DEF StopProbe, StopCallRoot, OwnerInv
  <2>2. Goto(Root, "off") \/ Goto(Root, "pick")
    BY <2>1, <1>6, <1>0 DEF StopProbe, StopCallRoot, Goto, TypeOK
  <2> QED BY <2>1, <2>2, <1>1
<1>7. CASE StopFlag \/ StopTickle \/ StopRootBack \/ StopJoin
  BY <1>7, <1>3 DEF StopFlag, StopTickle, StopRootBack, StopJoin
<1>8. CASE \E t \in Tasks, thread \in Affinity : Schedule(t, thread)
  BY <1>8, <1>3 DEF Schedule
<1>9. CASE \E t \in Tasks : ScheduleAgain(t) \/ Trigger(t) \/ TriggerDone(t)
  BY <1>9, <1>3 DEF ScheduleAgain, Trigger, TriggerDone
<1>10. CASE \E w \in Workers, t \in Tasks, thread \in Affinity : Spawn(w, t, thread)
  BY <1>10, <1>3 DEF Spawn
<1>11. CASE UNCHANGED vars
  BY <1>11, <1>3 DEF vars
<1> QED BY <1>4, <1>5, <1>6, <1>7, <1>8, <1>9, <1>10, <1>11 DEF Next, OwnerStep

\* A worker's step leaves the owner's variables alone; it ends run() only after
\* its idle fiber has, which has seen stopping().
LEMMA WorkerFrame ==
    ASSUME NEW w \in Workers, WorkerStep(w)
    PROVE  /\ UNCHANGED <<m_stopping, m_autoStop, spc, late>>
           /\ pc[w] \notin {"off", "exit"} /\ Running
           /\ \E l \in WorkerPC \ {"off"} : Goto(w, l) /\ (l = "exit" => idleTerm[w])
           /\ \/ UNCHANGED idleTerm
              \/ IdleStopping(w)
<1> USE DEF WorkerPC, flagVars
<1>1. CASE PickNone(w) \/ Pick(w)
  BY <1>1 DEF PickNone, Pick
<1>2. CASE DropFinished(w) \/ SwapIn(w)
  BY <1>2 DEF DropFinished, SwapIn
<1>3. CASE YieldToReady(w) \/ YieldToHold(w) \/ MainFuncEnds(w) \/ AddEvent(w)
  BY <1>3 DEF YieldToReady, YieldToHold, MainFuncEnds, AddEvent
<1>4. CASE SwapOut(w) \/ Deactivate(w)
  BY <1>4 DEF SwapOut, Deactivate
<1>5. CASE TestState(w)
  <2>1. Goto(w, "pick") \/ Goto(w, "resched") \/ Goto(w, "sethold")
    BY <1>5 DEF TestState
  <2> QED BY <2>1, <1>5 DEF TestState
<1>6. CASE Reschedule(w) \/ SetHold(w)
  BY <1>6 DEF Reschedule, SetHold
<1>7. CASE EnterIdle(w)
  <2>1. (Goto(w, "exit") /\ idleTerm[w]) \/ Goto(w, "idle")
    BY <1>7 DEF EnterIdle
  <2> QED BY <2>1, <1>7 DEF EnterIdle
<1>8. CASE IdlePending(w)
  <2>1. Goto(w, "idle2") \/ Goto(w, "pick")
    BY <1>8 DEF IdlePending
  <2> QED BY <2>1, <1>8 DEF IdlePending
<1>9. CASE IdleStopping(w)
  BY <1>9 DEF IdleStopping
<1> QED BY <1>1, <1>2, <1>3, <1>4, <1>5, <1>6, <1>7, <1>8, <1>9 DEF WorkerStep

\* stop() and the workers it waits for.
LEMMA OwnerInvStep ==
    ASSUME BaseInv, [Next]_vars
    PROVE  OwnerInv'
<1>0. TypeOK /\ OwnerInv
  BY DEF BaseInv
<1>1. ASSUME UNCHANGED <<m_stopping, m_autoStop, spc, pc, idleTerm>>
      PROVE  OwnerInv'
  BY <1>0, <1>1 DEF OwnerInv
<1>2. ASSUME NEW w \in Workers, WorkerStep(w)
      PROVE  OwnerInv'
  <2>1. PICK l \in WorkerPC \ {"off"} : Goto(w, l) /\ (l = "exit" => idleTerm[w])
    BY <1>2, WorkerFrame
  <2>2. /\ UNCHANGED <<m_stopping, m_autoStop, spc>> /\ pc[w] \notin {"off", "exit"}
        /\ pc'[w] = l /\ \A v \in Workers : v # w => pc'[v] = pc[v]
    BY <1>2, <2>1, <1>0, WorkerFrame, GotoType
  <2>3. \A v \in Workers : idleTerm'[v] => idleTerm[v] \/ (v = w /\ m_autoStop)
    BY <1>2, <1>0, WorkerFrame DEF IdleStopping, Stopping, TypeOK
  <2>4. \A v \in Workers : idleTerm[v] /\ v # w => idleTerm'[v]
    BY <1>2, <1>0, WorkerFrame DEF IdleStopping, TypeOK
  <2>5. l = "exit" => idleTerm'[w]
    <3>1. CASE UNCHANGED idleTerm
      BY <3>1, <2>1
    <3>2. CASE IdleStopping(w)
      BY <3>2, <2>2, <1>0, GotoType DEF IdleStopping, WorkerPC, Goto, TypeOK
    <3> QED BY <3>1, <3>2, <1>2, WorkerFrame
  <2> QED BY <2>1, <2>2, <2>3, <2>4, <2>5, <1>0 DEF OwnerInv
<1>3. CASE Start
  BY <1>3, <1>0 DEF Start, OwnerInv, TypeOK
<1>4. CASE StopFlag \/ StopTickle
  BY <1>4, <1>0, SchedulerAssumption DEF StopFlag, StopTickle, OwnerInv, TypeOK
<1>5. CASE StopProbe \/ StopCallRoot
  <2>1. Root \in Workers /\ pc[Root] = "off" /\ spc \in {"tickled", "probed"}
    BY <1>5, <1>0 DEF StopProbe, StopCallRoot, OwnerInv
  <2>2. /\ UNCHANGED <<m_stopping, m_autoStop, idleTerm>>
        /\ \A v \in Workers : v # Root => pc'[v] = pc[v]
        /\ \/ spc' = "root" /\ pc'[Root] = "pick"
           \/ spc' \in {"probed", "join"} /\ pc'[Root] = "off"
    BY <2>1, <1>5, <1>0 DEF StopProbe, StopCallRoot, TypeOK
  <2> QED BY <2>1, <2>2, <1>0 DEF OwnerInv
<1>6. CASE StopRootBack \/ StopJoin
  BY <1>6, <1>0, SchedulerAssumption DEF StopRootBack, StopJoin, OwnerInv
<1>7. CASE \E t \in Tasks, thread \in Affinity : Schedule(t, thread)
  BY <1>7, <1>1 DEF Schedule, flagVars
<1>8. CASE \E t \in Tasks : ScheduleAgain(t) \/ Trigger(t) \/ TriggerDone(t)
  BY <1>8, <1>1 DEF ScheduleAgain, Trigger, TriggerDone, flagVars
<1>9. CASE \E w \in Workers, t \in Tasks, thread \in Affinity : Spawn(w, t, thread)
  BY <1>9, <1>1 DEF Spawn
<1>10. CASE UNCHANGED vars
  BY <1>10, <1>1 DEF vars
<1> QED BY <1>2, <1>3, <1>4, <1>5, <1>6, <1>7, <1>8, <1>9, <1>10 DEF Next, OwnerStep

\* The task in hand.
LEMMA HandType ==
    ASSUME TypeOK, HandInv, NEW w \in Workers, pc[w] \in HandPC
    PROVE  ft[w] \in Tasks
BY DEF TypeOK, HandInv

\* What a worker's step may write.
LEMMA WorkerType ==
    ASSUME BaseInv, NEW w \in Workers, WorkerStep(w)
    PROVE  /\ m_fibers' \in Seq(Item)
           /\ m_state' \in [Tasks -> FiberState]
           /\ event' \in [Tasks -> {"none", "armed", "fired"}]
           /\ budget' \in [Tasks -> 0 .. MaxYields]
           /\ failed' \in {"none", "swapIn", "addEvent", "stack"}
<1>0. TypeOK /\ HandInv /\ Running
  BY WorkerFrame DEF BaseInv
<1> USE DEF FiberState
<1>1. CASE PickNone(w) \/ DropFinished(w) \/ SwapOut(w) \/ Deactivate(w) \/ EnterIdle(w)
           \/ IdlePending(w) \/ IdleStopping(w) \/ TestState(w)
  BY <1>0, <1>1 DEF PickNone, DropFinished, SwapOut, Deactivate, EnterIdle, IdlePending,
     IdleStopping, TestState, TypeOK
<1>2. CASE Pick(w)
  <2>1. PICK i \in 1 .. Len(m_fibers) : m_fibers' = Taken(i)
    BY <1>2 DEF Pick, Eligible
  <2>2. m_fibers' \in Seq(Item)
    BY <2>1, <1>0, PickItem DEF TypeOK
  <2> QED BY <2>2, <1>2, <1>0 DEF Pick, TypeOK
<1>3. CASE SwapIn(w)
  BY <1>0, <1>3, HandType DEF SwapIn, Resumed, HandPC, TypeOK
<1>4. CASE YieldToReady(w)
  <2>1. ft[w] \in Tasks
    BY <1>0, <1>4, HandType DEF YieldToReady, HandPC
  <2>2. budget[ft[w]] - 1 \in 0 .. MaxYields
    BY <2>1, <1>0, <1>4, SchedulerAssumption DEF YieldToReady, TypeOK
  <2> QED BY <2>1, <2>2, <1>0, <1>4 DEF YieldToReady, TypeOK
<1>5. CASE AddEvent(w)
  <2>1. ft[w] \in Tasks
    BY <1>0, <1>5, HandType DEF AddEvent, HandPC
  <2>2. budget[ft[w]] - 1 \in 0 .. MaxYields
    BY <2>1, <1>0, <1>5, SchedulerAssumption DEF AddEvent, TypeOK
  <2> QED BY <2>1, <2>2, <1>0, <1>5 DEF AddEvent, TypeOK
<1>6. CASE YieldToHold(w)
  BY <1>0, <1>6, HandType DEF YieldToHold, HandPC, TypeOK
<1>7. CASE MainFuncEnds(w)
  BY <1>0, <1>7, HandType DEF MainFuncEnds, HandPC, TypeOK
<1>8. CASE SetHold(w)
  BY <1>0, <1>8, HandType DEF SetHold, HandPC, TypeOK
<1>9. CASE Reschedule(w)
  <2>1. ft[w] \in Tasks
    BY <1>0, <1>9, HandType DEF Reschedule, HandPC
  <2>2. m_fibers' \in Seq(Item)
    BY <2>1, <1>0, <1>9, PushItem DEF Reschedule, TypeOK
  <2> QED BY <2>2, <1>0, <1>9 DEF Reschedule, TypeOK
<1> QED BY <1>1, <1>2, <1>3, <1>4, <1>5, <1>6, <1>7, <1>8, <1>9 DEF WorkerStep

LEMMA TypeStep ==
    ASSUME BaseInv, [Next]_vars
    PROVE  TypeOK'
<1>0. TypeOK /\ HandInv /\ OwnerInv
  BY DEF BaseInv
<1>1. m_activeThreadCount' \in Nat /\ ft' \in [Workers -> Tasks \cup {NoTask}]
  BY CountStep, HandStep
<1>2. ASSUME NEW w \in Workers, WorkerStep(w)
      PROVE  TypeOK'
  <2>1. pc' \in [Workers -> WorkerPC]
    BY <1>2, <1>0, WorkerFrame, GotoType
  <2>2. idleTerm' \in [Workers -> BOOLEAN]
    <3>1. Stopping \in BOOLEAN
      BY DEF Stopping
    <3> QED BY <3>1, <1>2, <1>0, WorkerFrame DEF IdleStopping, TypeOK
  <2>3. UNCHANGED <<m_stopping, m_autoStop, spc, late>>
    BY <1>2, WorkerFrame
  <2> QED BY <2>1, <2>2, <2>3, <1>0, <1>1, <1>2, WorkerType DEF TypeOK
<1>3. CASE Start
  BY <1>3, <1>0, <1>1 DEF Start, TypeOK, WorkerPC, StopPC
<1>4. CASE StopFlag \/ StopTickle \/ StopRootBack \/ StopJoin
  BY <1>4, <1>0, <1>1 DEF StopFlag, StopTickle, StopRootBack, StopJoin, TypeOK, StopPC
<1>5. CASE StopProbe \/ StopCallRoot
  <2>1. Root \in Workers /\ pc[Root] = "off"
    BY <1>5, <1>0 DEF StopProbe, StopCallRoot, OwnerInv
  <2>2. pc' \in [Workers -> WorkerPC] /\ spc' \in StopPC
    BY <2>1, <1>5, <1>0 DEF StopProbe, StopCallRoot, TypeOK, WorkerPC, StopPC
  <2> QED BY <2>2, <1>5, <1>0, <1>1 DEF StopProbe, StopCallRoot, TypeOK
<1>6. ASSUME NEW t \in Tasks, NEW thread \in Affinity,
             Schedule(t, thread) \/ \E w \in Workers : Spawn(w, t, thread)
      PROVE  TypeOK'
  <2>1. m_fibers' \in Seq(Item)
    BY <1>0, <1>6, PushItem, SchedulerAssumption DEF Schedule, Spawn, TypeOK
  <2>2. m_state' \in [Tasks -> FiberState]
    BY <1>0, <1>6 DEF Schedule, Spawn, TypeOK, FiberState
  <2>3. late' \subseteq Tasks
    BY <1>0, <1>6 DEF Schedule, Spawn, TypeOK, flagVars
  <2> QED BY <2>1, <2>2, <2>3, <1>0, <1>1, <1>6 DEF Schedule, Spawn, TypeOK, flagVars
<1>7. ASSUME NEW t \in Tasks, ScheduleAgain(t) \/ Trigger(t)
      PROVE  TypeOK'
  <2>1. m_fibers' \in Seq(Item)
    BY <1>0, <1>7, PushItem DEF ScheduleAgain, Trigger, TypeOK
  <2>2. event' \in [Tasks -> {"none", "armed", "fired"}]
    BY <1>0, <1>7 DEF ScheduleAgain, Trigger, TypeOK
  <2>3. budget' \in [Tasks -> 0 .. MaxYields]
    <3>1. CASE ScheduleAgain(t)
      <4>1. budget[t] - 1 \in 0 .. MaxYields
        BY <1>0, <3>1, SchedulerAssumption DEF ScheduleAgain, TypeOK
      <4> QED BY <4>1, <1>0, <3>1 DEF ScheduleAgain, TypeOK
    <3>2. CASE Trigger(t)
      BY <1>0, <3>2 DEF Trigger, TypeOK
    <3> QED BY <3>1, <3>2, <1>7
  <2> QED BY <2>1, <2>2, <2>3, <1>0, <1>1, <1>7 DEF ScheduleAgain, Trigger, TypeOK, flagVars
<1>8. CASE \E t \in Tasks : TriggerDone(t)
  BY <1>8, <1>0, <1>1 DEF TriggerDone, TypeOK, flagVars
<1>9. CASE UNCHANGED vars
  BY <1>9, <1>0 DEF vars, TypeOK
<1> QED BY <1>2, <1>3, <1>4, <1>5, <1>6, <1>7, <1>8, <1>9 DEF Next, OwnerStep

LEMMA BaseInit == Init => BaseInv
<1> SUFFICES ASSUME Init PROVE BaseInv
  OBVIOUS
<1>1. TypeOK
  <2>1. m_fibers \in Seq(Item)
    BY DEF Init
  <2>2. budget \in [Tasks -> 0 .. MaxYields]
    BY SchedulerAssumption DEF Init
  <2> QED BY <2>1, <2>2 DEF Init, TypeOK, FiberState, WorkerPC, StopPC
<1>2. HandInv
  BY DEF Init, HandInv, HandPC
<1>3. CountInv
  <2>1. {w \in Workers : pc[w] \in ActivePC} = {}
    BY DEF Init, ActivePC
  <2>2. Cardinality({w \in Workers : pc[w] \in ActivePC}) = 0
    BY <2>1, FS_EmptySet, Zenon
  <2> QED BY <2>2 DEF CountInv, Init
<1>4. OwnerInv
  BY DEF Init, OwnerInv
<1> QED BY <1>1, <1>2, <1>3, <1>4 DEF BaseInv

\* The part of the invariant that holds in every configuration.
LEMMA BaseInvariant == Spec => []BaseInv
<1>1. BaseInv /\ [Next]_vars => BaseInv'
  BY TypeStep, HandStep, CountStep, OwnerInvStep DEF BaseInv
<1> QED BY <1>1, BaseInit, PTL DEF Spec

\* Type correctness, for every configuration: the variables of run() and stop()
\* keep their types; in particular m_activeThreadCount, which three places of
\* run() decrement (scheduler.cpp:174, 190, 202), is never negative.
THEOREM TypeCorrect == Spec => []TypeOK
<1>1. BaseInv => TypeOK
  BY DEF BaseInv
<1> QED BY <1>1, BaseInvariant, PTL

-----------------------------------------------------------------------------
(* The queue                                                                 *)

\* After push_back an item of the queue is an old one or the new one.
LEMMA PushQueue ==
    ASSUME m_fibers \in Seq(Item), NEW t \in Tasks,
           NEW thread \in Workers \cup {AnyThread}, Push(t, thread)
    PROVE  /\ \A k \in 1 .. Len(m_fibers') :
                 \/ k \in 1 .. Len(m_fibers) /\ m_fibers'[k] = m_fibers[k]
                 \/ k = Len(m_fibers) + 1 /\ m_fibers'[k] = [task |-> t, thread |-> thread]
           /\ \A k \in 1 .. Len(m_fibers) :
                 k \in 1 .. Len(m_fibers') /\ m_fibers'[k] = m_fibers[k]
           /\ \A u : Queued(u)' <=> Queued(u) \/ u = t
<1>1. /\ Len(m_fibers) \in Nat
      /\ Len(m_fibers') = Len(m_fibers) + 1
      /\ \A i \in 1 .. Len(m_fibers) : m_fibers'[i] = m_fibers[i]
      /\ m_fibers'[Len(m_fibers) + 1] = [task |-> t, thread |-> thread]
  BY PushItem
<1>2. \A k \in 1 .. Len(m_fibers') :
         \/ k \in 1 .. Len(m_fibers) /\ m_fibers'[k] = m_fibers[k]
         \/ k = Len(m_fibers) + 1 /\ m_fibers'[k] = [task |-> t, thread |-> thread]
  BY <1>1
<1>3. /\ Len(m_fibers) + 1 \in 1 .. Len(m_fibers')
      /\ \A k \in 1 .. Len(m_fibers) :
            k \in 1 .. Len(m_fibers') /\ m_fibers'[k] = m_fibers[k]
  BY <1>1
<1>4. [task |-> t, thread |-> thread].task = t
  OBVIOUS
<1>5. ASSUME NEW u PROVE Queued(u)' <=> Queued(u) \/ u = t
  <2>1. ASSUME Queued(u)' PROVE Queued(u) \/ u = t
    <3>1. PICK k \in 1 .. Len(m_fibers') : m_fibers'[k].task = u
      BY <2>1 DEF Queued
    <3> QED BY <3>1, <1>2, <1>4 DEF Queued
  <2>2. ASSUME Queued(u) PROVE Queued(u)'
    BY <2>2, <1>3 DEF Queued
  <2>3. ASSUME u = t PROVE Queued(u)'
    <3>1. m_fibers'[Len(m_fibers) + 1].task = u
      BY <1>1, <1>4, <2>3
    <3> QED BY <3>1, <1>3 DEF Queued
  <2> QED BY <2>1, <2>2, <2>3
<1> QED BY <1>2, <1>3, <1>5

\* Where the item that the scan leaves at position k was before.
Was(k, i) == IF k < i THEN k ELSE k + 1

\* After erase the queue has the other items, once each.
LEMMA PickQueue ==
    ASSUME m_fibers \in Seq(Item), NEW i \in 1 .. Len(m_fibers), m_fibers' = Taken(i)
    PROVE  /\ \A k \in 1 .. Len(m_fibers') :
                 Was(k, i) \in 1 .. Len(m_fibers) /\ Was(k, i) # i
                 /\ m_fibers'[k] = m_fibers[Was(k, i)]
           /\ \A j, k \in 1 .. Len(m_fibers') : Was(j, i) = Was(k, i) => j = k
           /\ \A u : Queued(u) => Queued(u)' \/ u = m_fibers[i].task
           /\ \A u : Queued(u)' => Queued(u)
<1>1. /\ Len(m_fibers) \in Nat \ {0}
      /\ Len(m_fibers') = Len(m_fibers) - 1
      /\ \A j \in 1 .. Len(m_fibers) - 1 :
            m_fibers'[j] = IF j < i THEN m_fibers[j] ELSE m_fibers[j + 1]
  BY PickItem
<1>2. \A k \in 1 .. Len(m_fibers') :
         Was(k, i) \in 1 .. Len(m_fibers) /\ Was(k, i) # i
         /\ m_fibers'[k] = m_fibers[Was(k, i)]
  BY <1>1 DEF Was
<1>3. \A j, k \in 1 .. Len(m_fibers') : Was(j, i) = Was(k, i) => j = k
  BY <1>1 DEF Was
<1>4. ASSUME NEW u, Queued(u) PROVE Queued(u)' \/ u = m_fibers[i].task
  <2>1. PICK j \in 1 .. Len(m_fibers) : m_fibers[j].task = u
    BY <1>4 DEF Queued
  <2>2. CASE j = i
    BY <2>1, <2>2
  <2>3. CASE j < i
    <3>1. j \in 1 .. Len(m_fibers') /\ m_fibers'[j] = m_fibers[j]
      BY <2>3, <1>1
    <3> QED BY <3>1, <2>1 DEF Queued
  <2>4. CASE j > i
    <3>1. j - 1 \in 1 .. Len(m_fibers') /\ m_fibers'[j - 1] = m_fibers[j]
      BY <2>4, <1>1
    <3> QED BY <3>1, <2>1 DEF Queued
  <2> QED BY <2>2, <2>3, <2>4
<1>5. ASSUME NEW u, Queued(u)' PROVE Queued(u)
  BY <1>5, <1>2 DEF Queued
<1> QED BY <1>2, <1>3, <1>4, <1>5

\* The tasks in the queue are tasks.
LEMMA QueueTasks ==
    ASSUME m_fibers \in Seq(Item), NEW i \in 1 .. Len(m_fibers)
    PROVE  m_fibers[i].task \in Tasks /\ m_fibers[i].task # NoTask
           /\ m_fibers[i].thread \in Workers \cup {AnyThread}
<1>1. m_fibers[i] \in Item
  OBVIOUS
<1> QED BY <1>1, SchedulerAssumption DEF Item

-----------------------------------------------------------------------------
(* Pools: several workers; tasks that yield, return, throw and schedule new  *)
(* ones                                                                      *)

Places == OnePlace /\ PoolStates

\* The worker that has a task in hand changes the task's state and moves on.
LEMMA MoveInHand ==
    ASSUME BaseInv, Places, NEW w \in Workers, pc[w] \in HandPC,
           NEW l \in WorkerPC, Goto(w, l), NEW s \in FiberState, Fits(l, s),
           m_state' = [m_state EXCEPT ![ft[w]] = s], UNCHANGED <<m_fibers, ft>>
    PROVE  Places'
<1>0. TypeOK /\ HandInv /\ OnePlace /\ PoolStates
  BY DEF BaseInv, Places
<1>1. ft[w] \in Tasks /\ ft[w] # NoTask
  BY <1>0, HandType, SchedulerAssumption
<1>2. OnePlace'
  BY <1>0 DEF OnePlace
<1>3. \A u \in Tasks : m_state'[u] = IF u = ft[w] THEN s ELSE m_state[u]
  BY <1>0, <1>1 DEF TypeOK
<1>4. \A i \in 1 .. Len(m_fibers') : m_state'[m_fibers'[i].task] \in {"INIT", "READY"}
  BY <1>0, <1>3, QueueTasks DEF OnePlace, PoolStates, TypeOK
<1>5. ASSUME NEW v \in Workers PROVE Fits(pc'[v], m_state'[ft'[v]])
  <2>1. CASE v = w
    BY <2>1, <1>0, <1>1, <1>3, GotoType
  <2>2. CASE v # w /\ ft[v] # NoTask
    <3>1. ft[v] # ft[w] /\ ft[v] \in Tasks /\ pc'[v] = pc[v]
      BY <2>2, <1>0, <1>1, GotoType DEF OnePlace, TypeOK
    <3> QED BY <3>1, <1>0, <1>3 DEF PoolStates
  <2>3. CASE v # w /\ ft[v] = NoTask
    <3>1. pc'[v] = pc[v] /\ pc[v] \notin HandPC
      BY <2>3, <1>0, GotoType DEF HandInv
    <3> QED BY <3>1 DEF Fits, HandPC
  <2> QED BY <2>1, <2>2, <2>3
<1>6. ASSUME NEW u \in Tasks PROVE (Finished(u) \/ Queued(u) \/ InHand(u))'
  <2>1. CASE u = ft[w]
    BY <2>1 DEF InHand
  <2>2. CASE u # ft[w]
    BY <2>2, <1>0, <1>3 DEF PoolStates, Finished, Queued, InHand
  <2> QED BY <2>1, <2>2
<1> QED BY <1>2, <1>4, <1>5, <1>6 DEF Places, PoolStates

\* A worker without a task moves on.
LEMMA MoveWithout ==
    ASSUME BaseInv, Places, NEW w \in Workers,
           NEW l \in WorkerPC, Goto(w, l), l \notin HandPC, UNCHANGED <<m_fibers, ft, m_state>>
    PROVE  Places'
<1>0. TypeOK /\ OnePlace /\ PoolStates
  BY DEF BaseInv, Places
<1>1. \A v \in Workers : Fits(pc'[v], m_state'[ft'[v]])
  BY <1>0, GotoType DEF PoolStates, Fits, HandPC
<1> QED BY <1>0, <1>1 DEF Places, PoolStates, OnePlace, Finished, Queued, InHand

\* A task that is over is let go.
LEMMA LetGo ==
    ASSUME BaseInv, Places, NEW w \in Workers, Finished(ft[w]), Goto(w, "pick"),
           ft' = [ft EXCEPT ![w] = NoTask], UNCHANGED <<m_fibers, m_state>>
    PROVE  Places'
<1>0. TypeOK /\ OnePlace /\ PoolStates
  BY DEF BaseInv, Places
<1>1. /\ \A v \in Workers : ft'[v] = IF v = w THEN NoTask ELSE ft[v]
      /\ \A v \in Workers : pc'[v] = IF v = w THEN "pick" ELSE pc[v]
  BY <1>0, GotoType DEF TypeOK, WorkerPC
<1>2. OnePlace'
  BY <1>0, <1>1, QueueTasks DEF OnePlace, TypeOK
<1>3. \A v \in Workers : Fits(pc'[v], m_state'[ft'[v]])
  BY <1>0, <1>1 DEF PoolStates, Fits
<1>4. \A u \in Tasks : (Finished(u) \/ Queued(u) \/ InHand(u))'
  BY <1>0, <1>1 DEF PoolStates, Finished, Queued, InHand
<1> QED BY <1>0, <1>2, <1>3, <1>4 DEF Places, PoolStates

\* The scan moves a task from the queue to the hand of one worker.
LEMMA PickPlaces ==
    ASSUME BaseInv, Places, NEW w \in Workers, Pick(w)
    PROVE  Places'
<1>0. TypeOK /\ HandInv /\ OnePlace /\ PoolStates
  BY DEF BaseInv, Places
<1>1. PICK i \in 1 .. Len(m_fibers) :
         ft' = [ft EXCEPT ![w] = m_fibers[i].task] /\ m_fibers' = Taken(i)
  BY DEF Pick, Eligible
<1> DEFINE t == m_fibers[i].task
<1>2. t \in Tasks /\ t # NoTask /\ \A j \in 1 .. Len(m_fibers) : m_fibers[j].task # NoTask
  BY <1>0, QueueTasks DEF TypeOK
<1>3. /\ \A v \in Workers : ft'[v] = IF v = w THEN t ELSE ft[v]
      /\ \A v \in Workers : pc'[v] = IF v = w THEN "picked" ELSE pc[v]
      /\ UNCHANGED m_state
  BY <1>0, <1>1, GotoType DEF Pick, TypeOK, WorkerPC
<1>4. /\ \A k \in 1 .. Len(m_fibers') :
            Was(k, i) \in 1 .. Len(m_fibers) /\ Was(k, i) # i
            /\ m_fibers'[k] = m_fibers[Was(k, i)]
      /\ \A j, k \in 1 .. Len(m_fibers') : Was(j, i) = Was(k, i) => j = k
      /\ \A u : Queued(u) => Queued(u)' \/ u = t
  BY <1>0, <1>1, PickQueue DEF TypeOK
<1>5. OnePlace'
  <2>1. ASSUME NEW j \in 1 .. Len(m_fibers'), NEW k \in 1 .. Len(m_fibers'),
               m_fibers'[j].task = m_fibers'[k].task
        PROVE  j = k
    <3>1. /\ Was(j, i) \in 1 .. Len(m_fibers) /\ m_fibers'[j] = m_fibers[Was(j, i)]
          /\ Was(k, i) \in 1 .. Len(m_fibers) /\ m_fibers'[k] = m_fibers[Was(k, i)]
      BY <1>4
    <3>2. Was(j, i) = Was(k, i)
      BY <3>1, <2>1, <1>0 DEF OnePlace
    <3> QED BY <3>2, <1>4
  <2>2. \A u, v \in Workers : ft'[u] = ft'[v] /\ ft'[u] # NoTask => u = v
    BY <1>0, <1>1, <1>3 DEF OnePlace
  <2>3. \A v \in Workers : \A k \in 1 .. Len(m_fibers') : m_fibers'[k].task # ft'[v]
    BY <1>0, <1>3, <1>4 DEF OnePlace
  <2> QED BY <2>1, <2>2, <2>3 DEF OnePlace
<1>6. m_state[t] \in {"INIT", "READY"}
  BY <1>0 DEF PoolStates
<1>7. \A k \in 1 .. Len(m_fibers') : m_state'[m_fibers'[k].task] \in {"INIT", "READY"}
  BY <1>0, <1>3, <1>4 DEF PoolStates
<1>8. \A v \in Workers : Fits(pc'[v], m_state'[ft'[v]])
  BY <1>0, <1>3, <1>6 DEF PoolStates, Fits
<1>9. ASSUME NEW u \in Tasks PROVE (Finished(u) \/ Queued(u) \/ InHand(u))'
  <2>1. CASE Finished(u)
    BY <2>1, <1>3 DEF Finished
  <2>2. CASE Queued(u)
    BY <2>2, <1>3, <1>4 DEF InHand
  <2>3. CASE InHand(u)
    <3>1. PICK v \in Workers : ft[v] = u
      BY <2>3 DEF InHand
    <3>2. v # w
      BY <3>1, <1>0, SchedulerAssumption DEF Pick, HandInv, HandPC
    <3> QED BY <3>1, <3>2, <1>3 DEF InHand
  <2> QED BY <2>1, <2>2, <2>3, <1>0 DEF PoolStates
<1> QED BY <1>5, <1>7, <1>8, <1>9 DEF Places, PoolStates

\* A task that is nowhere, or leaves the hand it was in, enters the queue.
LEMMA PushPlaces ==
    ASSUME BaseInv, Places, NEW t \in Tasks, NEW thread \in Workers \cup {AnyThread},
           Push(t, thread), ~Queued(t), m_state'[t] \in {"INIT", "READY"},
           \A u \in Tasks : u # t => m_state'[u] = m_state[u],
           \A v \in Workers : /\ ft'[v] # t
                              /\ \/ ft'[v] = ft[v] /\ pc'[v] = pc[v]
                                 \/ ft[v] = t /\ ft'[v] = NoTask /\ pc'[v] = "pick"
    PROVE  Places'
<1>0. TypeOK /\ HandInv /\ OnePlace /\ PoolStates
  BY DEF BaseInv, Places
<1>1. /\ \A k \in 1 .. Len(m_fibers') :
            \/ k \in 1 .. Len(m_fibers) /\ m_fibers'[k] = m_fibers[k]
            \/ k = Len(m_fibers) + 1 /\ m_fibers'[k] = [task |-> t, thread |-> thread]
      /\ \A u : Queued(u)' <=> Queued(u) \/ u = t
  BY <1>0, PushQueue DEF TypeOK
<1>2. \A k \in 1 .. Len(m_fibers') :
         \/ /\ k \in 1 .. Len(m_fibers) /\ m_fibers'[k].task = m_fibers[k].task
            /\ m_fibers[k].task # t
         \/ k = Len(m_fibers) + 1 /\ m_fibers'[k].task = t
  BY <1>1 DEF Queued
<1>3. \A k \in 1 .. Len(m_fibers) : m_fibers[k].task \in Tasks /\ m_fibers[k].task # NoTask
  BY <1>0, QueueTasks DEF TypeOK
<1>4. OnePlace'
  <2>1. \A j, k \in 1 .. Len(m_fibers') : m_fibers'[j].task = m_fibers'[k].task => j = k
    BY <1>0, <1>2 DEF OnePlace
  <2>2. \A u, v \in Workers : ft'[u] = ft'[v] /\ ft'[u] # NoTask => u = v
    BY <1>0 DEF OnePlace
  <2>3. \A v \in Workers : \A k \in 1 .. Len(m_fibers') : m_fibers'[k].task # ft'[v]
    BY <1>0, <1>2, <1>3 DEF OnePlace
  <2> QED BY <2>1, <2>2, <2>3 DEF OnePlace
<1>5. \A k \in 1 .. Len(m_fibers') : m_state'[m_fibers'[k].task] \in {"INIT", "READY"}
  BY <1>0, <1>2, <1>3 DEF PoolStates
<1>6. ASSUME NEW v \in Workers PROVE Fits(pc'[v], m_state'[ft'[v]])
  <2>1. CASE pc'[v] = "pick"
    BY <2>1 DEF Fits
  <2>2. CASE ft'[v] = ft[v] /\ pc'[v] = pc[v] /\ ft[v] # NoTask
    <3>1. ft[v] \in Tasks /\ ft[v] # t
      BY <2>2, <1>0 DEF TypeOK
    <3> QED BY <3>1, <2>2, <1>0 DEF PoolStates
  <2>3. CASE ft'[v] = ft[v] /\ pc'[v] = pc[v] /\ ft[v] = NoTask
    BY <2>3, <1>0 DEF HandInv, HandPC, Fits
  <2> QED BY <2>1, <2>2, <2>3
<1>7. \A u \in Tasks : (Finished(u) \/ Queued(u) \/ InHand(u))'
  BY <1>0, <1>1 DEF PoolStates, Finished, InHand
<1> QED BY <1>4, <1>5, <1>6, <1>7 DEF Places, PoolStates

\* A task that was never scheduled is nowhere.
LEMMA NewIsNowhere ==
    ASSUME BaseInv, Places, NEW t \in Tasks, m_state[t] = "NONE"
    PROVE  ~Queued(t) /\ ~InHand(t)
<1>1. ~Queued(t)
  BY DEF Places, PoolStates, Queued
<1>2. ASSUME NEW w \in Workers, ft[w] = t PROVE FALSE
  <2>1. pc[w] \in HandPC /\ Fits(pc[w], "NONE")
    BY <1>2, SchedulerAssumption DEF BaseInv, HandInv, Places, PoolStates
  <2> QED BY <2>1 DEF HandPC, Fits
<1> QED BY <1>1, <1>2 DEF InHand

PoolCore == Places /\ failed = "none" /\ \A t \in Tasks : event[t] = "none"

\* Every task of a pool is at one place, in a state that fits it; so no assertion
\* on a fiber's state fails.
LEMMA PoolCoreStep ==
    ASSUME Pool, BaseInv, PoolCore, [Next]_vars
    PROVE  PoolCore'
<1>0. /\ TypeOK /\ HandInv /\ OnePlace /\ PoolStates /\ Places
      /\ failed = "none" /\ \A t \in Tasks : event[t] = "none"
  BY DEF BaseInv, Places, PoolCore
<1>1. ASSUME NEW w \in Workers, WorkerStep(w)
      PROVE  PoolCore'
  <2>1. CASE PickNone(w) \/ EnterIdle(w) \/ IdlePending(w) \/ IdleStopping(w)
    <3>1. \E l \in WorkerPC : l \notin HandPC /\ Goto(w, l)
      <4>1. \E l \in {"noTask", "exit", "idle", "idle2", "pick"} : Goto(w, l)
        BY <2>1 DEF PickNone, EnterIdle, IdlePending, IdleStopping
      <4> QED BY <4>1 DEF WorkerPC, HandPC
    <3>2. UNCHANGED <<m_fibers, ft, m_state, failed, event>>
      BY <2>1 DEF PickNone, EnterIdle, IdlePending, IdleStopping
    <3> QED BY <3>1, <3>2, <1>0, MoveWithout DEF PoolCore
  <2>2. CASE Pick(w)
    BY <2>2, <1>0, PickPlaces DEF PoolCore, Pick
  <2>3. CASE DropFinished(w) \/ AddEvent(w) \/ YieldToHold(w) \/ SetHold(w)
    <3>1. Fits(pc[w], m_state[ft[w]])
      BY <1>0 DEF PoolStates
    <3> QED BY <3>1, <2>3 DEF Pool, DropFinished, AddEvent, YieldToHold, SetHold, Fits
  <2>4. CASE SwapIn(w)
    <3>1. ft[w] # NoTask /\ m_state[ft[w]] \in {"INIT", "READY"}
      BY <2>4, <1>0 DEF SwapIn, HandInv, HandPC, PoolStates, Fits
    <3>2. ~OnStack(ft[w])
      BY <3>1, <2>4, <1>0 DEF SwapIn, OnStack, OnePlace
    <3>3. failed' = "none" /\ UNCHANGED event
      BY <3>1, <3>2, <2>4, <1>0 DEF SwapIn
    <3>4. Places'
      BY <2>4, <1>0, MoveInHand DEF SwapIn, Resumed, HandPC, WorkerPC, FiberState, Fits
    <3> QED BY <3>3, <3>4, <1>0 DEF PoolCore
  <2>5. CASE YieldToReady(w)
    <3>1. Places'
      BY <2>5, <1>0, MoveInHand DEF YieldToReady, HandPC, WorkerPC, FiberState, Fits
    <3> QED BY <3>1, <2>5, <1>0 DEF PoolCore, YieldToReady
  <2>6. CASE MainFuncEnds(w)
    <3>1. Places'
      BY <2>6, <1>0, MoveInHand DEF MainFuncEnds, HandPC, WorkerPC, FiberState, Fits
    <3> QED BY <3>1, <2>6, <1>0 DEF PoolCore, MainFuncEnds
  <2>7. ASSUME pc[w] \in HandPC, UNCHANGED <<m_fibers, ft, m_state>>,
               NEW l \in WorkerPC, Goto(w, l), Fits(l, m_state[ft[w]])
        PROVE  Places'
    <3>1. ft[w] \in Tasks
      BY <2>7, <1>0, HandType
    <3>2. m_state[ft[w]] \in FiberState /\ m_state' = [m_state EXCEPT ![ft[w]] = m_state[ft[w]]]
      BY <3>1, <2>7, <1>0 DEF TypeOK
    <3> QED BY <3>2, <2>7, <1>0, MoveInHand
  <2>8. CASE SwapOut(w) \/ Deactivate(w)
    <3>1. /\ pc[w] \in HandPC /\ UNCHANGED <<m_fibers, ft, m_state, failed, event>>
          /\ Goto(w, "back") \/ Goto(w, "after")
          /\ Fits("back", m_state[ft[w]]) /\ Fits("after", m_state[ft[w]])
      BY <2>8, <1>0 DEF SwapOut, Deactivate, HandPC, PoolStates, Fits
    <3>2. "back" \in WorkerPC /\ "after" \in WorkerPC
      BY DEF WorkerPC
    <3>3. Places'
      BY <3>1, <3>2, <2>7
    <3> QED BY <3>1, <3>3, <1>0 DEF PoolCore
  <2>9. CASE TestState(w)
    <3>1. UNCHANGED <<m_fibers, m_state, failed, event>> /\ pc[w] \in HandPC
      BY <2>9 DEF TestState, HandPC
    <3>2. CASE m_state[ft[w]] \in {"TERM", "EXCEPT"}
      <4>1. Places'
        BY <2>9, <3>1, <3>2, <1>0, LetGo DEF TestState, Finished
      <4> QED BY <4>1, <3>1, <1>0 DEF PoolCore
    <3>3. CASE m_state[ft[w]] \notin {"TERM", "EXCEPT"}
      <4>1. m_state[ft[w]] = "READY"
        BY <2>9, <3>3, <1>0 DEF TestState, PoolStates, Fits
      <4>2. Goto(w, "resched") /\ UNCHANGED ft
        BY <4>1, <2>9 DEF TestState
      <4>3. Fits("resched", m_state[ft[w]]) /\ "resched" \in WorkerPC
        BY <4>1 DEF Fits, WorkerPC
      <4>4. Places'
        BY <4>2, <4>3, <3>1, <2>7
      <4> QED BY <4>4, <3>1, <1>0 DEF PoolCore
    <3> QED BY <3>2, <3>3
  <2>10. CASE Reschedule(w)
    <3>1. ft[w] \in Tasks /\ ft[w] # NoTask
      BY <2>10, <1>0, HandType, SchedulerAssumption DEF Reschedule, HandPC
    <3>2. m_state[ft[w]] = "READY" /\ ~Queued(ft[w])
      BY <2>10, <1>0 DEF Reschedule, PoolStates, Fits, OnePlace, Queued
    <3>3. \A v \in Workers :
             /\ ft'[v] # ft[w]
             /\ \/ ft'[v] = ft[v] /\ pc'[v] = pc[v]
                \/ ft[v] = ft[w] /\ ft'[v] = NoTask /\ pc'[v] = "pick"
      BY <2>10, <3>1, <1>0 DEF Reschedule, OnePlace, Goto, TypeOK
    <3>4. Push(ft[w], AnyThread) /\ UNCHANGED <<m_state, failed, event>>
      BY <2>10 DEF Reschedule
    <3>5. Places'
      BY <3>1, <3>2, <3>3, <3>4, <1>0, PushPlaces
    <3> QED BY <3>4, <3>5, <1>0 DEF PoolCore
  <2> QED BY <1>1, <2>1, <2>2, <2>3, <2>4, <2>5, <2>6, <2>8, <2>9, <2>10 DEF WorkerStep
<1>2. ASSUME NEW t \in Tasks, NEW thread \in Affinity,
             Schedule(t, thread) \/ \E w \in Workers : Spawn(w, t, thread)
      PROVE  PoolCore'
  <2>1. /\ Push(t, thread) /\ UNCHANGED <<pc, ft, failed, event>> /\ m_state[t] = "NONE"
        /\ m_state' = [m_state EXCEPT ![t] = "INIT"]
    BY <1>2 DEF Schedule, Spawn
  <2>2. m_state'[t] = "INIT" /\ \A u \in Tasks : u # t => m_state'[u] = m_state[u]
    BY <2>1, <1>0 DEF TypeOK
  <2>3. ~Queued(t) /\ \A v \in Workers : ft[v] # t
    BY <2>1, <1>0, NewIsNowhere DEF InHand
  <2>4. Places'
    BY <2>1, <2>2, <2>3, <1>0, PushPlaces, SchedulerAssumption
  <2> QED BY <2>1, <2>4, <1>0 DEF PoolCore
<1>3. CASE \E t \in Tasks : ScheduleAgain(t) \/ Trigger(t) \/ TriggerDone(t)
  BY <1>3, <1>0 DEF Pool, ScheduleAgain, Trigger, TriggerDone
<1>4. CASE OwnerStep
  <2>1. UNCHANGED <<m_fibers, ft, m_state, failed, event>>
    BY <1>4 DEF OwnerStep, Start, StopFlag, StopTickle, StopProbe, StopCallRoot,
       StopRootBack, StopJoin
  <2>2. \A v \in Workers : pc'[v] \in {pc[v], "off", "pick"}
    BY <1>4, <1>0 DEF OwnerStep, Start, StopFlag, StopTickle, StopProbe, StopCallRoot,
       StopRootBack, StopJoin, TypeOK
  <2>3. \A v \in Workers : Fits(pc'[v], m_state'[ft'[v]])
    BY <2>1, <2>2, <1>0 DEF PoolStates, Fits
  <2>4. Places'
    BY <2>1, <2>3, <1>0 DEF Places, PoolStates, OnePlace, Finished, Queued, InHand
  <2> QED BY <2>1, <2>4, <1>0 DEF PoolCore
<1>5. CASE UNCHANGED vars
  BY <1>5 DEF vars, PoolCore, Places, PoolStates, OnePlace, Finished, Queued, InHand
<1> QED BY <1>1, <1>2, <1>3, <1>4, <1>5 DEF Next

\* The owner schedules only before stop(), when no worker has left.
LEMMA OwnerSchedules ==
    ASSUME BaseInv, spc \in {"new", "running"}
    PROVE  (\E w \in Workers : WillLook(w)) /\ (\A w \in Workers : ~Leaving(w))
<1>1. \A w \in Workers : ~idleTerm[w]
  BY DEF BaseInv, OwnerInv
<1>2. \A w \in Workers : pc[w] # "exit"
  BY <1>1 DEF BaseInv, OwnerInv
<1>3. \A w \in Workers : pc[w] \in WorkerPC
  BY DEF BaseInv, TypeOK
<1>4. \A w \in Workers : WillLook(w)
  BY <1>1, <1>2, <1>3 DEF WillLook, WorkerPC, HandPC
<1> QED BY <1>1, <1>4, SchedulerAssumption DEF Leaving

\* stopping() is false while an item is queued.
LEMMA StoppingEmpty ==
    ASSUME Stopping
    PROVE  1 .. Len(m_fibers) = {}
BY DEF Stopping

\* Some worker will still look at the items that any thread may take: one leaves
\* only after it found none of them, and who schedules one comes back to the scan.
LEMMA NotForgottenStep ==
    ASSUME Pool, BaseInv, PoolCore, NotForgotten, [Next]_vars
    PROVE  NotForgotten'
<1>0. TypeOK /\ HandInv /\ OwnerInv /\ PoolStates /\ BaseInv'
  BY TypeStep, HandStep, CountStep, OwnerInvStep DEF BaseInv, PoolCore, Places
<1> DEFINE Open == \E i \in 1 .. Len(m_fibers) : m_fibers[i].thread = AnyThread
<1>2. ASSUME NEW w \in Workers, WorkerStep(w)
      PROVE  NotForgotten'
  <2>1. CASE PickNone(w)
    <3>1. ~Open
      <4>1. ASSUME NEW i \in 1 .. Len(m_fibers), m_fibers[i].thread = AnyThread PROVE FALSE
        <5>1. i \in Eligible(w)
          BY <4>1, <1>0 DEF Eligible, PoolStates
        <5> QED BY <5>1, <2>1 DEF PickNone
      <4> QED BY <4>1
    <3>2. UNCHANGED m_fibers
      BY <2>1 DEF PickNone
    <3> QED BY <3>1, <3>2 DEF NotForgotten
  <2>2. CASE EnterIdle(w) /\ idleTerm[w]
    <3>1. UNCHANGED <<m_fibers, idleTerm, spc>> /\ Goto(w, "exit") /\ ~WillLook(w)
      BY <2>2 DEF EnterIdle, WillLook, flagVars, HandPC
    <3>2. \A v \in Workers : v # w => pc'[v] = pc[v]
      BY <3>1, <1>0 DEF Goto, TypeOK
    <3> QED BY <3>1, <3>2 DEF NotForgotten, WillLook
  <2>3. CASE EnterIdle(w) /\ ~idleTerm[w]
    <3>1. pc'[w] = "idle" /\ ~idleTerm'[w]
      BY <2>3, <1>0 DEF EnterIdle, Goto, TypeOK
    <3>2. WillLook(w)'
      BY <3>1 DEF WillLook
    <3> QED BY <3>2 DEF NotForgotten
  <2>4. CASE IdlePending(w)
    <3>1. CASE pc'[w] = "pick"
      BY <3>1 DEF NotForgotten, WillLook
    <3>2. CASE pc'[w] = "idle2" /\ idleTerm[w]
      <4>1. UNCHANGED <<m_fibers, idleTerm, spc>> /\ Goto(w, "idle2") /\ ~WillLook(w)
        BY <2>4, <3>2, <1>0 DEF IdlePending, WillLook, flagVars, HandPC, Goto, TypeOK
      <4>2. \A v \in Workers : v # w => pc'[v] = pc[v]
        BY <4>1, <1>0 DEF Goto, TypeOK
      <4> QED BY <4>1, <4>2 DEF NotForgotten, WillLook
    <3>3. CASE pc'[w] = "idle2" /\ ~idleTerm[w]
      <4>1. ~idleTerm'[w]
        BY <2>4, <3>3 DEF IdlePending
      <4> QED BY <4>1, <3>3 DEF NotForgotten, WillLook
    <3> QED BY <3>1, <3>2, <3>3, <2>4, <1>0 DEF IdlePending, Goto, TypeOK
  <2>5. CASE ~(PickNone(w) \/ EnterIdle(w) \/ IdlePending(w))
    <3>1. \E l \in HandPC \cup {"pick"} : Goto(w, l)
      <4>1. CASE Pick(w) \/ DropFinished(w) \/ SwapIn(w) \/ SwapOut(w) \/ Deactivate(w)
        BY <4>1 DEF Pick, DropFinished, SwapIn, SwapOut, Deactivate, HandPC
      <4>2. CASE YieldToReady(w) \/ YieldToHold(w) \/ MainFuncEnds(w) \/ AddEvent(w)
        BY <4>2 DEF YieldToReady, YieldToHold, MainFuncEnds, AddEvent, HandPC
      <4>3. CASE TestState(w)
        <5>1. Goto(w, "pick") \/ Goto(w, "resched") \/ Goto(w, "sethold")
          BY <4>3 DEF TestState
        <5> QED BY <5>1 DEF HandPC
      <4>4. CASE Reschedule(w) \/ SetHold(w) \/ IdleStopping(w)
        BY <4>4 DEF Reschedule, SetHold, IdleStopping
      <4> QED BY <4>1, <4>2, <4>3, <4>4, <2>5, <1>2 DEF WorkerStep
    <3>2. pc'[w] \in HandPC \cup {"pick"}
      BY <3>1, <1>0 DEF Goto, TypeOK
    <3> QED BY <3>2 DEF NotForgotten, WillLook
  <2> QED BY <2>1, <2>2, <2>3, <2>4, <2>5
<1>3. ASSUME NEW t \in Tasks, NEW thread \in Affinity, Schedule(t, thread)
      PROVE  NotForgotten'
  <2>1. spc \in {"new", "running"} /\ UNCHANGED spc
    BY <1>3 DEF Schedule, flagVars
  <2>2. UNCHANGED <<pc, idleTerm, spc>> /\ \E w \in Workers : WillLook(w)
    BY <1>3, <2>1, OwnerSchedules DEF Schedule
  <2> QED BY <2>2 DEF NotForgotten, WillLook
<1>4. ASSUME NEW w \in Workers, NEW t \in Tasks, NEW thread \in Affinity, Spawn(w, t, thread)
      PROVE  NotForgotten'
  BY <1>4 DEF Spawn, NotForgotten, WillLook, HandPC
<1>5. CASE \E t \in Tasks : ScheduleAgain(t) \/ Trigger(t) \/ TriggerDone(t)
  BY <1>5 DEF Pool, PoolCore, ScheduleAgain, Trigger, TriggerDone
<1>6. CASE Start
  <2>1. \A w \in Workers : pc'[w] \in {"off", "pick"} /\ spc' = "running"
    BY <1>6 DEF Start
  <2> QED BY <2>1, SchedulerAssumption DEF NotForgotten, WillLook
<1>7. CASE StopFlag \/ StopTickle
  <2>1. /\ UNCHANGED <<m_fibers, pc, idleTerm>>
        /\ spc' = "join" => Root = NoRoot /\ spc = "flagged"
        /\ spc' # "done"
    BY <1>7 DEF StopFlag, StopTickle
  <2>2. spc' = "join" => \A w \in Workers : pc[w] # "off"
    BY <2>1, <1>0, SchedulerAssumption DEF OwnerInv
  <2> QED BY <2>1, <2>2 DEF NotForgotten, WillLook
<1>8. CASE StopProbe \/ StopCallRoot
  <2>1. Root \in Workers /\ pc[Root] = "off" /\ UNCHANGED <<m_fibers, idleTerm>>
    BY <1>8, <1>0 DEF StopProbe, StopCallRoot, OwnerInv
  <2>2. \/ pc'[Root] = "pick"
        \/ pc'[Root] = "off" /\ spc' = "probed"
        \/ Stopping
    BY <2>1, <1>8, <1>0 DEF StopProbe, StopCallRoot, TypeOK
  <2>3. CASE Stopping
    BY <2>1, <2>3, StoppingEmpty DEF NotForgotten
  <2>4. CASE ~Stopping
    BY <2>1, <2>2, <2>4 DEF NotForgotten, WillLook
  <2> QED BY <2>3, <2>4
<1>9. CASE StopRootBack \/ StopJoin
  <2>1. UNCHANGED <<m_fibers, pc, idleTerm>> /\ spc \in {"root", "join"}
    BY <1>9 DEF StopRootBack, StopJoin
  <2>2. \A w \in Workers : pc[w] = "off" => spc = "join"
    BY <2>1, <1>0 DEF OwnerInv
  <2> QED BY <2>1, <2>2 DEF NotForgotten, WillLook
<1>10. CASE UNCHANGED vars
  BY <1>10 DEF vars, NotForgotten, WillLook
<1> QED BY <1>2, <1>3, <1>4, <1>5, <1>6, <1>7, <1>8, <1>9, <1>10 DEF Next, OwnerStep

\* A thread sees stopping() with an empty queue; what is queued for it later is
\* late.
LEMMA PinnedLateStep ==
    ASSUME Pool, BaseInv, PoolCore, PinnedLate, [Next]_vars
    PROVE  PinnedLate'
<1>0. TypeOK /\ OwnerInv
  BY DEF BaseInv
<1>1. ASSUME UNCHANGED m_fibers, late \subseteq late',
             \A w \in Workers : Leaving(w)' => Leaving(w)
      PROVE  PinnedLate'
  BY <1>1 DEF PinnedLate
<1>2. ASSUME UNCHANGED m_fibers, Stopping
      PROVE  PinnedLate'
  BY <1>2, StoppingEmpty DEF PinnedLate
<1>3. ASSUME NEW w \in Workers, WorkerStep(w)
      PROVE  PinnedLate'
  <2>1. UNCHANGED <<spc, late>>
    BY <1>3, WorkerFrame
  <2>2. CASE IdleStopping(w)
    <3>1. CASE Stopping
      BY <2>2, <3>1, <1>2 DEF IdleStopping
    <3>2. CASE ~Stopping
      <4>1. \A v \in Workers : Leaving(v)' => Leaving(v)
        BY <2>1, <2>2, <3>2, <1>0 DEF IdleStopping, Leaving, TypeOK
      <4> QED BY <4>1, <2>1, <2>2, <1>1 DEF IdleStopping
    <3> QED BY <3>1, <3>2
  <2>3. CASE Pick(w)
    <3>1. PICK i \in 1 .. Len(m_fibers) : m_fibers' = Taken(i)
      BY <2>3 DEF Pick, Eligible
    <3>2. \A k \in 1 .. Len(m_fibers') : \E j \in 1 .. Len(m_fibers) : m_fibers'[k] = m_fibers[j]
      BY <3>1, <1>0, PickQueue DEF TypeOK
    <3>3. \A v \in Workers : Leaving(v)' => Leaving(v)
      BY <2>1, <2>3 DEF Pick, Leaving
    <3> QED BY <3>2, <3>3, <2>1 DEF PinnedLate
  <2>4. CASE Reschedule(w)
    <3>1. /\ ft[w] \in Tasks /\ Push(ft[w], AnyThread)
          /\ m_fibers \in Seq(Item) /\ AnyThread \in Workers \cup {AnyThread}
      BY <2>4, HandType DEF Reschedule, HandPC, BaseInv, TypeOK
    <3>2. \A k \in 1 .. Len(m_fibers') :
             \/ k \in 1 .. Len(m_fibers) /\ m_fibers'[k] = m_fibers[k]
             \/ k = Len(m_fibers) + 1 /\ m_fibers'[k] = [task |-> ft[w], thread |-> AnyThread]
      BY <3>1, PushQueue
    <3>3. \A v \in Workers : Leaving(v)' => Leaving(v)
      BY <2>1, <2>4 DEF Reschedule, Leaving
    <3> QED BY <3>2, <3>3, <2>1, SchedulerAssumption DEF PinnedLate
  <2>5. CASE ~(IdleStopping(w) \/ Pick(w) \/ Reschedule(w))
    <3>1. UNCHANGED <<m_fibers, idleTerm>>
      BY <2>5, <1>3 DEF WorkerStep, PickNone, DropFinished, SwapIn, YieldToReady, AddEvent,
         YieldToHold, MainFuncEnds, SwapOut, Deactivate, TestState, SetHold, EnterIdle,
         IdlePending
    <3> QED BY <3>1, <2>1, <1>1 DEF Leaving
  <2> QED BY <2>2, <2>3, <2>4, <2>5
<1>4. ASSUME NEW t \in Tasks, NEW thread \in Affinity, Schedule(t, thread)
      PROVE  PinnedLate'
  <2>1. \A v \in Workers : ~Leaving(v)
    BY <1>4, OwnerSchedules DEF Schedule
  <2> QED BY <2>1, <1>4 DEF Schedule, PinnedLate, Leaving, flagVars
<1>5. ASSUME NEW w \in Workers, NEW t \in Tasks, NEW thread \in Affinity, Spawn(w, t, thread)
      PROVE  PinnedLate'
  <2>0. Push(t, thread) /\ m_fibers \in Seq(Item) /\ thread \in Workers \cup {AnyThread}
    BY <1>5, <1>0, SchedulerAssumption DEF Spawn, TypeOK
  <2>1. \A k \in 1 .. Len(m_fibers') :
           \/ k \in 1 .. Len(m_fibers) /\ m_fibers'[k] = m_fibers[k]
           \/ k = Len(m_fibers) + 1 /\ m_fibers'[k] = [task |-> t, thread |-> thread]
    BY <2>0, PushQueue
  <2>2. /\ late \subseteq late' /\ (thread \in Workers /\ Leaving(thread) => t \in late')
        /\ \A v \in Workers : Leaving(v)' <=> Leaving(v)
    BY <1>5 DEF Spawn, Leaving
  <2> QED BY <2>1, <2>2 DEF PinnedLate
<1>6. CASE \E t \in Tasks : ScheduleAgain(t) \/ Trigger(t) \/ TriggerDone(t)
  BY <1>6 DEF Pool, PoolCore, ScheduleAgain, Trigger, TriggerDone
<1>7. CASE Start \/ StopFlag \/ StopTickle \/ StopProbe \/ StopRootBack \/ StopJoin
  <2>1. UNCHANGED <<m_fibers, idleTerm, late>>
    BY <1>7 DEF Start, StopFlag, StopTickle, StopProbe, StopRootBack, StopJoin
  <2>2. ASSUME NEW v \in Workers, v = Root, spc' \in {"join", "done"} PROVE Leaving(v)
    BY <2>2, <1>7, <1>0, SchedulerAssumption DEF Start, StopFlag, StopTickle, StopProbe,
       StopRootBack, StopJoin, Leaving, OwnerInv
  <2> QED BY <2>1, <2>2, <1>1 DEF Leaving
<1>8. CASE StopCallRoot
  <2>1. CASE Stopping
    BY <1>8, <2>1, <1>2 DEF StopCallRoot
  <2>2. CASE ~Stopping
    BY <1>8, <2>2, <1>1 DEF StopCallRoot, Leaving
  <2> QED BY <2>1, <2>2
<1>9. CASE UNCHANGED vars
  BY <1>9, <1>1 DEF vars, Leaving
<1> QED BY <1>3, <1>4, <1>5, <1>6, <1>7, <1>8, <1>9 DEF Next, OwnerStep

\* The inductive invariant of a pool: every task is at one place, in a state that
\* fits it (scheduler.cpp:139-199), and an item that any thread may take is not
\* left behind (scheduler.cpp:206-217).
THEOREM PoolInvariant == Pool /\ Spec => []PoolInv
<1> SUFFICES ASSUME Pool PROVE Spec => []PoolInv
  OBVIOUS
<1>1. Init => PoolInv
  <2> SUFFICES ASSUME Init PROVE PoolInv
    OBVIOUS
  <2>1. Len(m_fibers) = 0 /\ 1 .. Len(m_fibers) = {}
    BY DEF Init
  <2>2. OnePlace /\ NotForgotten /\ PinnedLate
    BY <2>1 DEF Init, OnePlace, NotForgotten, PinnedLate
  <2>3. PoolStates
    BY <2>1 DEF Init, PoolStates, Fits, Finished
  <2> QED BY <2>2, <2>3, BaseInit DEF Init, PoolInv
<1>2. PoolInv /\ [Next]_vars => PoolInv'
  <2> SUFFICES ASSUME PoolInv, [Next]_vars PROVE PoolInv'
    OBVIOUS
  <2>1. BaseInv /\ PoolCore /\ NotForgotten /\ PinnedLate
    BY DEF PoolInv, PoolCore, Places
  <2>2. BaseInv'
    BY <2>1, TypeStep, HandStep, CountStep, OwnerInvStep DEF BaseInv
  <2>3. PoolCore' /\ NotForgotten' /\ PinnedLate'
    BY <2>1, PoolCoreStep, NotForgottenStep, PinnedLateStep
  <2> QED BY <2>2, <2>3 DEF PoolInv, PoolCore, Places
<1> QED BY <1>1, <1>2, PTL DEF Spec

\* No SYLAR_ASSERT on a fiber's state fails in a pool, and no two threads share a
\* stack (fiber.cpp:141, 152), although m_state is read and written without a lock.
THEOREM PoolAssertionsHold == Pool /\ Spec => []NoAssertionFails
<1>1. PoolInv => NoAssertionFails
  BY DEF PoolInv, NoAssertionFails
<1> QED BY <1>1, PoolInvariant, PTL

\* No yield or re-schedule of a pool's task loses it (scheduler.cpp:172-199).
THEOREM PoolLosesNoTask == Pool /\ Spec => []NoTaskLost
<1>1. PoolInv => NoTaskLost
  BY DEF PoolInv, PoolStates, Fits, Queued, InHand, NoTaskLost
<1> QED BY <1>1, PoolInvariant, PTL

\* While stopping() holds of a pool, an unfinished task is READY in the hand of a
\* worker that will schedule it again (scheduler.cpp:174-177, 226-230).
THEOREM PoolStoppingWindow == Pool /\ Spec => []StoppingWindow
<1>1. PoolInv => StoppingWindow
  <2> SUFFICES ASSUME PoolInv, Stopping, NEW t \in Tasks, ~Finished(t)
               PROVE  \E w \in Workers : ft[w] = t /\ pc[w] \in {"after", "resched"}
    BY DEF StoppingWindow
  <2>1. ~Queued(t)
    BY StoppingEmpty DEF Queued
  <2>2. PICK w \in Workers : ft[w] = t
    BY <2>1 DEF PoolInv, PoolStates, InHand
  <2>3. pc[w] \in HandPC \ {"sethold"}
    BY <2>2, SchedulerAssumption DEF PoolInv, BaseInv, HandInv, PoolStates, Fits
  <2>4. Active = {}
    <3>1. Cardinality(Active) = 0
      BY DEF PoolInv, BaseInv, CountInv, Stopping, Active
    <3> QED BY <3>1, ActiveFinite, FS_EmptySet
  <2>5. pc[w] \notin ActivePC
    BY <2>4 DEF Active
  <2> QED BY <2>2, <2>3, <2>5 DEF HandPC, ActivePC
<1> QED BY <1>1, PoolInvariant, PTL

\* When stop() of a pool returns, all its tasks have ended, but for those that were
\* scheduled for a thread which had seen stopping() (scheduler.cpp:80-120, 206-230).
THEOREM PoolStopDrains == Pool /\ Spec => []StopDrains
<1>1. PoolInv => StopDrains
  <2> SUFFICES ASSUME PoolInv, spc = "done"
               PROVE  /\ \A i \in 1 .. Len(m_fibers) : m_fibers[i].task \in late
                      /\ \A t \in Tasks : Finished(t) \/ t \in late
    BY DEF StopDrains
  <2>1. \A w \in Workers : pc[w] \in {"off", "exit"} /\ Leaving(w)
    BY DEF PoolInv, BaseInv, OwnerInv, Leaving
  <2>2. \A w \in Workers : ~WillLook(w)
    BY <2>1 DEF WillLook, HandPC
  <2>3. \A i \in 1 .. Len(m_fibers) : m_fibers[i].thread \in Workers
    BY <2>2, QueueTasks DEF PoolInv, BaseInv, TypeOK, NotForgotten
  <2>4. \A i \in 1 .. Len(m_fibers) : m_fibers[i].task \in late
    BY <2>1, <2>3 DEF PoolInv, PinnedLate
  <2>5. \A w \in Workers : ft[w] = NoTask
    BY <2>1 DEF PoolInv, BaseInv, HandInv, HandPC
  <2>6. \A t \in Tasks : Finished(t) \/ Queued(t)
    BY <2>5, SchedulerAssumption DEF PoolInv, PoolStates, InHand
  <2> QED BY <2>4, <2>6 DEF Queued
<1> QED BY <1>1, PoolInvariant, PTL

-----------------------------------------------------------------------------
(* One worker: tasks wait for events, and fibers are scheduled again in any  *)
(* state                                                                     *)

\* With one worker, a task is in hand when that worker has it.
LEMMA SoleHand ==
    ASSUME Single, NEW w \in Workers
    PROVE  /\ \A v \in Workers : v = w
           /\ \A t : InHand(t) <=> ft[w] = t
           /\ \A t : InHand(t)' <=> ft'[w] = t
<1>1. \A v \in Workers : v = w
  BY DEF Single
<1> QED BY <1>1 DEF InHand

\* The worker changes the state of its task, which nobody else touches.
LEMMA SoleMove ==
    ASSUME Single, BaseInv, SingleStates, NEW w \in Workers, pc[w] \in HandPC,
           NEW l \in WorkerPC, Goto(w, l), NEW s \in FiberState,
           m_state' = [m_state EXCEPT ![ft[w]] = s], UNCHANGED <<m_fibers, ft>>,
           \A u \in Tasks : event'[u] = event[u] \/ (u = ft[w] /\ event[u] = "none"),
           l \in {"run", "wait"} <=> s = "EXEC", l # "picked",
           l \in {"yield", "back", "after"} => s \in {"READY", "HOLD", "TERM", "EXCEPT"},
           l = "resched" => s = "READY", l = "sethold" => s = "HOLD",
           l = "wait" \/ s = "HOLD" => Queued(ft[w]) \/ event'[ft[w]] = "armed"
    PROVE  SingleStates'
<1>0. TypeOK /\ HandInv
  BY DEF BaseInv
<1>1. ft[w] \in Tasks
  BY <1>0, HandType
<1>2. pc'[w] = l /\ \A u \in Tasks : m_state'[u] = IF u = ft[w] THEN s ELSE m_state[u]
  BY <1>0, <1>1, GotoType DEF TypeOK
<1>3. \A u : Queued(u)' <=> Queued(u)
  BY DEF Queued
<1>4. SoleFits(w)'
  BY <1>1, <1>2, <1>3 DEF SoleFits
<1>5. ASSUME NEW u \in Tasks PROVE Held(u)'
  <2>1. CASE u = ft[w]
    BY <2>1, <1>1, <1>2, <1>3, SoleHand DEF Held
  <2>2. CASE u # ft[w]
    <3>1. /\ m_state'[u] = m_state[u] /\ event'[u] = event[u]
          /\ InHand(u)' <=> InHand(u)
          /\ ~ \E v \in Workers : ft[v] = u
      BY <2>2, <1>2, SoleHand
    <3>2. Held(u)
      BY DEF SingleStates
    <3> QED BY <3>1, <3>2, <1>3 DEF Held
  <2> QED BY <2>1, <2>2
<1> QED BY <1>4, <1>5, SoleHand DEF SingleStates

\* The worker lets a task go that is over, or that is queued or registered.
LEMMA SoleLetGo ==
    ASSUME Single, BaseInv, SingleStates, NEW w \in Workers, pc[w] \in HandPC,
           NEW t \in Tasks, t = ft[w], Goto(w, "pick"), ft' = [ft EXCEPT ![w] = NoTask],
           UNCHANGED event,
           \A u \in Tasks : m_state'[u] = m_state[u] \/ (u = t /\ m_state'[t] = "HOLD"),
           \A u : Queued(u) => Queued(u)',
           \/ m_state'[t] \in {"NONE", "TERM", "EXCEPT"}
           \/ m_state'[t] # "EXEC" /\ Queued(t)'
           \/ m_state'[t] = "HOLD" /\ event[t] = "armed"
    PROVE  SingleStates'
<1>0. TypeOK /\ HandInv
  BY DEF BaseInv
<1>1. pc'[w] = "pick" /\ ft'[w] = NoTask
  BY <1>0, GotoType DEF TypeOK, WorkerPC
<1>2. SoleFits(w)'
  BY <1>1 DEF SoleFits
<1>3. ASSUME NEW u \in Tasks PROVE Held(u)'
  <2>1. CASE u = t
    BY <2>1 DEF Held
  <2>2. CASE u # t
    <3>1. Held(u) /\ ~InHand(u) /\ ~ \E v \in Workers : ft[v] = u
      BY <2>2, SoleHand DEF SingleStates
    <3> QED BY <3>1 DEF Held
  <2> QED BY <2>1, <2>2
<1> QED BY <1>2, <1>3, SoleHand DEF SingleStates

\* Somebody schedules a task that the worker does not have, or that it has and
\* goes on with.
LEMMA SolePush ==
    ASSUME Single, BaseInv, SingleStates, NEW t \in Tasks, Queued(t)', UNCHANGED <<pc, ft>>,
           \A u : Queued(u) => Queued(u)',
           \A u \in Tasks : u # t => event'[u] = event[u],
           \A u \in Tasks : m_state'[u] = m_state[u]
                           \/ (u = t /\ m_state[u] = "NONE" /\ m_state'[u] = "INIT")
    PROVE  SingleStates'
<1>0. TypeOK /\ HandInv
  BY DEF BaseInv
<1>1. ASSUME NEW w \in Workers PROVE SoleFits(w)'
  <2>1. SoleFits(w)
    BY DEF SingleStates
  <2>2. CASE pc[w] \notin HandPC
    BY <2>2 DEF SoleFits, HandPC
  <2>3. CASE pc[w] \in HandPC
    <3>1. ft[w] \in Tasks
      BY <2>3, <1>0, HandType
    <3> QED BY <2>1, <3>1 DEF SoleFits
  <2> QED BY <2>2, <2>3
<1>2. ASSUME NEW u \in Tasks PROVE Held(u)'
  <2>1. Held(u)
    BY DEF SingleStates
  <2>2. InHand(u)' <=> InHand(u)
    BY DEF InHand
  <2> QED BY <2>1, <2>2 DEF Held
<1> QED BY <1>1, <1>2 DEF SingleStates

\* With one worker a fiber is where its state says, and is resumed only when it
\* has left its stack.
LEMMA SingleStatesStep ==
    ASSUME Single, BaseInv, SingleStates, failed = "none", [Next]_vars
    PROVE  SingleStates' /\ failed' = "none"
<1>0. TypeOK /\ HandInv
  BY DEF BaseInv
<1>1. ASSUME NEW w \in Workers, WorkerStep(w)
      PROVE  SingleStates' /\ failed' = "none"
  <2>0. SoleFits(w) /\ \A v \in Workers : v = w
    BY SoleHand DEF SingleStates
  <2>1. CASE PickNone(w) \/ EnterIdle(w) \/ IdlePending(w) \/ IdleStopping(w)
    <3>1. \E l \in {"noTask", "exit", "idle", "idle2", "pick"} : Goto(w, l)
      BY <2>1 DEF PickNone, EnterIdle, IdlePending, IdleStopping
    <3>2. pc'[w] \in {"noTask", "exit", "idle", "idle2", "pick"} /\ pc[w] # "picked"
      BY <2>1, <3>1, <1>0 DEF Goto, TypeOK, PickNone, EnterIdle, IdlePending, IdleStopping
    <3>3. UNCHANGED <<m_fibers, ft, m_state, failed, event>>
      BY <2>1 DEF PickNone, EnterIdle, IdlePending, IdleStopping
    <3>4. SoleFits(w)'
      BY <3>2 DEF SoleFits
    <3>5. \A t \in Tasks : Held(t)'
      BY <3>2, <3>3, <2>0 DEF SingleStates, Held, Queued, InHand
    <3> QED BY <3>3, <3>4, <3>5, <2>0 DEF SingleStates
  <2>2. CASE Pick(w)
    <3>1. PICK i \in Eligible(w) :
             ft' = [ft EXCEPT ![w] = m_fibers[i].task] /\ m_fibers' = Taken(i)
      BY <2>2 DEF Pick
    <3>2. i \in 1 .. Len(m_fibers) /\ m_state[m_fibers[i].task] # "EXEC"
      BY <3>1 DEF Eligible
    <3> DEFINE t == m_fibers[i].task
    <3>3. t \in Tasks /\ \A u : Queued(u) => Queued(u)' \/ u = t
      BY <3>1, <3>2, <1>0, PickQueue, QueueTasks DEF TypeOK
    <3>4. /\ pc'[w] = "picked" /\ ft'[w] = t /\ ft[w] = NoTask
          /\ UNCHANGED <<m_state, event, failed>>
      BY <2>2, <3>1, <1>0 DEF Pick, Goto, TypeOK, HandInv, HandPC
    <3>5. SoleFits(w)'
      BY <3>2, <3>4 DEF SoleFits
    <3>6. ASSUME NEW u \in Tasks PROVE Held(u)'
      <4>1. Held(u) /\ ~InHand(u) /\ ~ \E v \in Workers : ft[v] = u
        BY <3>4, SoleHand, SchedulerAssumption DEF SingleStates
      <4>2. CASE u = t
        <5>1. InHand(u)' /\ \E v \in Workers : ft'[v] = u /\ pc'[v] = "picked"
          BY <4>2, <3>4 DEF InHand
        <5> QED BY <5>1 DEF Held
      <4>3. CASE u # t
        BY <4>1, <4>3, <3>3, <3>4 DEF Held
      <4> QED BY <4>2, <4>3
    <3> QED BY <3>4, <3>5, <3>6, <2>0 DEF SingleStates
  <2>3. CASE pc[w] \in HandPC
    <3>0. ft[w] \in Tasks /\ Held(ft[w]) /\ m_state[ft[w]] \in FiberState
      BY <2>3, <1>0, HandType DEF SingleStates, TypeOK
    <3>1. CASE DropFinished(w)
      <4>1. /\ Goto(w, "pick") /\ ft' = [ft EXCEPT ![w] = NoTask]
            /\ UNCHANGED <<m_fibers, event, m_state, failed>>
            /\ m_state[ft[w]] \in {"TERM", "EXCEPT"}
        BY <3>1 DEF DropFinished
      <4>2. \A u : Queued(u) => Queued(u)'
        BY <4>1 DEF Queued
      <4>3. PICK t \in Tasks : t = ft[w]
        BY <3>0
      <4> QED BY <4>1, <4>2, <4>3, <2>3, SoleLetGo
    <3>2. CASE SwapIn(w)
      <4>1. m_state[ft[w]] # "EXEC" /\ ~OnStack(ft[w])
        BY <3>2, <2>0 DEF SwapIn, SoleFits, OnStack
      <4>2. failed' = "none"
        BY <3>2, <4>1 DEF SwapIn
      <4>3. SingleStates'
        BY <3>2, <2>3, SoleMove DEF SwapIn, Resumed, WorkerPC, FiberState
      <4> QED BY <4>2, <4>3
    <3>3. CASE YieldToReady(w)
      <4>1. SingleStates'
        BY <3>3, <2>3, SoleMove DEF YieldToReady, WorkerPC, FiberState
      <4> QED BY <4>1, <3>3 DEF YieldToReady
    <3>4. CASE AddEvent(w)
      <4>1. m_state[ft[w]] = "EXEC"
        BY <3>4, <2>0 DEF AddEvent, SoleFits
      <4>2. failed' = "none"
        BY <3>4, <4>1 DEF AddEvent
      <4>3. /\ event'[ft[w]] = "armed" /\ event[ft[w]] = "none"
            /\ \A u \in Tasks : event'[u] = event[u] \/ (u = ft[w] /\ event[u] = "none")
            /\ UNCHANGED <<m_fibers, ft>> /\ Goto(w, "wait")
        BY <3>4, <3>0, <1>0 DEF AddEvent, TypeOK
      <4>4. m_state' = [m_state EXCEPT ![ft[w]] = "EXEC"]
        BY <4>1, <3>4, <1>0 DEF AddEvent, TypeOK
      <4>5. "wait" \in WorkerPC /\ "EXEC" \in FiberState
        BY DEF WorkerPC, FiberState
      <4>6. SingleStates'
        BY <4>3, <4>4, <4>5, <2>3, SoleMove
      <4> QED BY <4>2, <4>6
    <3>5. CASE YieldToHold(w)
      <4>1. Queued(ft[w]) \/ event[ft[w]] = "armed"
        BY <3>5, <2>0 DEF YieldToHold, SoleFits
      <4>2. SingleStates'
        BY <3>5, <4>1, <2>3, SoleMove DEF YieldToHold, WorkerPC, FiberState
      <4> QED BY <4>2, <3>5 DEF YieldToHold
    <3>6. CASE MainFuncEnds(w)
      <4>1. SingleStates'
        BY <3>6, <2>3, SoleMove DEF MainFuncEnds, WorkerPC, FiberState
      <4> QED BY <4>1, <3>6 DEF MainFuncEnds
    <3>7. CASE SwapOut(w) \/ Deactivate(w) \/ (TestState(w) /\ UNCHANGED ft)
      <4>1. /\ UNCHANGED <<m_fibers, m_state, ft, event, failed>>
            /\ pc[w] \in {"yield", "back", "after"}
        BY <3>7 DEF SwapOut, Deactivate, TestState
      <4>2. m_state[ft[w]] \in {"READY", "HOLD", "TERM", "EXCEPT"}
        BY <4>1, <2>0 DEF SoleFits
      <4>3. \E l \in {"back", "after", "resched", "sethold"} :
               Goto(w, l) /\ (l = "resched" => m_state[ft[w]] = "READY")
                          /\ (l = "sethold" => m_state[ft[w]] = "HOLD")
        <5>1. CASE SwapOut(w) \/ Deactivate(w)
          BY <5>1 DEF SwapOut, Deactivate
        <5>2. CASE TestState(w) /\ UNCHANGED ft
          <6>1. m_state[ft[w]] \notin {"TERM", "EXCEPT"}
            BY <5>2, <3>0, <1>0, SchedulerAssumption DEF TestState, TypeOK
          <6> QED BY <6>1, <5>2, <4>2 DEF TestState
        <5> QED BY <5>1, <5>2, <3>7
      <4>4. m_state' = [m_state EXCEPT ![ft[w]] = m_state[ft[w]]]
        BY <4>1, <3>0, <1>0 DEF TypeOK
      <4>5. m_state[ft[w]] = "HOLD" => Queued(ft[w]) \/ event[ft[w]] = "armed"
        BY <4>1, <3>0, <2>0 DEF Held
      <4>6. {"back", "after", "resched", "sethold"} \subseteq WorkerPC
        BY DEF WorkerPC
      <4>7. SingleStates'
        BY <4>1, <4>2, <4>3, <4>4, <4>5, <4>6, <3>0, <2>3, SoleMove
      <4> QED BY <4>1, <4>7
    <3>8. CASE TestState(w) /\ ~UNCHANGED ft
      <4>1. /\ Goto(w, "pick") /\ ft' = [ft EXCEPT ![w] = NoTask]
            /\ UNCHANGED <<m_fibers, event, m_state, failed>>
            /\ m_state[ft[w]] \in {"TERM", "EXCEPT"}
        BY <3>8 DEF TestState
      <4>2. \A u : Queued(u) => Queued(u)'
        BY <4>1 DEF Queued
      <4>3. PICK t \in Tasks : t = ft[w]
        BY <3>0
      <4> QED BY <4>1, <4>2, <4>3, <2>3, SoleLetGo
    <3>9. CASE Reschedule(w)
      <4>0. PICK t \in Tasks : t = ft[w]
        BY <3>0
      <4>1. /\ Goto(w, "pick") /\ ft' = [ft EXCEPT ![w] = NoTask]
            /\ UNCHANGED <<event, m_state, failed>> /\ Push(t, AnyThread)
            /\ m_state[t] = "READY" /\ m_fibers \in Seq(Item)
            /\ AnyThread \in Workers \cup {AnyThread}
        BY <3>9, <4>0, <2>0, <1>0 DEF Reschedule, SoleFits, TypeOK
      <4>2. \A u : Queued(u)' <=> Queued(u) \/ u = t
        BY <4>1, PushQueue
      <4> QED BY <4>0, <4>1, <4>2, <2>3, SoleLetGo
    <3>10. CASE SetHold(w)
      <4>0. PICK t \in Tasks : t = ft[w]
        BY <3>0
      <4>1. /\ Goto(w, "pick") /\ ft' = [ft EXCEPT ![w] = NoTask]
            /\ UNCHANGED <<m_fibers, event, failed>> /\ pc[w] = "sethold"
            /\ m_state' = [m_state EXCEPT ![t] = "HOLD"] /\ m_state[t] = "HOLD"
        BY <3>10, <4>0, <2>0 DEF SetHold, SoleFits
      <4>2. Queued(t) \/ event[t] = "armed"
        BY <4>0, <4>1, <3>0, <2>0 DEF Held
      <4>3. \A u : Queued(u) <=> Queued(u)'
        BY <4>1 DEF Queued
      <4>4. m_state'[t] = "HOLD" /\ \A u \in Tasks : m_state'[u] = m_state[u] \/ u = t
        BY <4>1, <1>0 DEF TypeOK
      <4> QED BY <4>0, <4>1, <4>2, <4>3, <4>4, <2>3, SoleLetGo
    <3>11. CASE TestState(w)
      BY <3>11, <3>7, <3>8
    <3>12. CASE SwapOut(w) \/ Deactivate(w)
      BY <3>12, <3>7
    <3> QED BY <3>1, <3>2, <3>3, <3>4, <3>5, <3>6, <3>9, <3>10, <3>11, <3>12, <2>1, <2>2,
               <1>1, Zenon DEF WorkerStep
  <2>4. CASE pc[w] \notin HandPC /\ ~(PickNone(w) \/ EnterIdle(w) \/ IdlePending(w)
                                     \/ IdleStopping(w) \/ Pick(w))
    BY <2>4, <1>1 DEF WorkerStep, DropFinished, SwapIn, YieldToReady, AddEvent, YieldToHold,
       MainFuncEnds, SwapOut, Deactivate, TestState, Reschedule, SetHold, HandPC
  <2> QED BY <2>1, <2>2, <2>3, <2>4
<1>2. ASSUME NEW t \in Tasks, NEW thread \in Workers \cup {AnyThread}, Push(t, thread)
      PROVE  Queued(t)' /\ \A u : Queued(u) => Queued(u)'
  <2>1. m_fibers \in Seq(Item)
    BY <1>0 DEF TypeOK
  <2> QED BY <2>1, <1>2, PushQueue
<1>3. ASSUME NEW t \in Tasks, NEW thread \in Affinity,
             Schedule(t, thread) \/ \E w \in Workers : Spawn(w, t, thread)
      PROVE  SingleStates' /\ failed' = "none"
  <2>1. /\ Push(t, thread) /\ UNCHANGED <<pc, ft, failed, event>> /\ m_state[t] = "NONE"
        /\ m_state' = [m_state EXCEPT ![t] = "INIT"]
    BY <1>3 DEF Schedule, Spawn
  <2>2. m_state'[t] = "INIT" /\ \A u \in Tasks : u # t => m_state'[u] = m_state[u]
    BY <2>1, <1>0 DEF TypeOK
  <2>3. Queued(t)' /\ \A u : Queued(u) => Queued(u)'
    BY <2>1, <1>2, SchedulerAssumption
  <2> QED BY <2>1, <2>2, <2>3, SolePush
<1>4. ASSUME NEW t \in Tasks, ScheduleAgain(t) \/ Trigger(t)
      PROVE  SingleStates' /\ failed' = "none"
  <2>1. /\ Push(t, AnyThread) /\ UNCHANGED <<pc, ft, failed, m_state>>
        /\ \A u \in Tasks : u # t => event'[u] = event[u]
    BY <1>4, <1>0 DEF ScheduleAgain, Trigger, TypeOK
  <2>2. Queued(t)' /\ \A u : Queued(u) => Queued(u)'
    BY <2>1, <1>2
  <2> QED BY <2>1, <2>2, SolePush
<1>5. ASSUME NEW t \in Tasks, TriggerDone(t)
      PROVE  SingleStates' /\ failed' = "none"
  <2>1. /\ UNCHANGED <<m_fibers, pc, ft, failed, m_state>>
        /\ \A u \in Tasks : event[u] = "armed" => event'[u] = "armed"
    BY <1>5, <1>0 DEF TriggerDone, TypeOK
  <2>2. ASSUME NEW w \in Workers PROVE SoleFits(w)'
    <3>1. pc[w] = "wait" => ft[w] \in Tasks
      BY <1>0, HandType DEF HandPC
    <3> QED BY <3>1, <2>1 DEF SingleStates, SoleFits, Queued
  <2>3. \A u \in Tasks : Held(u)'
    BY <2>1 DEF SingleStates, Held, Queued, InHand
  <2> QED BY <2>1, <2>2, <2>3 DEF SingleStates
<1>6. CASE OwnerStep
  <2>1. UNCHANGED <<m_fibers, ft, m_state, failed, event>>
    BY <1>6 DEF OwnerStep, Start, StopFlag, StopTickle, StopProbe, StopCallRoot,
       StopRootBack, StopJoin
  <2>2. \A v \in Workers : pc'[v] = pc[v] \/ (pc[v] = "off" /\ pc'[v] \in {"off", "pick"})
    BY <1>6, <1>0 DEF OwnerStep, Start, StopFlag, StopTickle, StopProbe, StopCallRoot,
       StopRootBack, StopJoin, TypeOK, BaseInv, OwnerInv
  <2>3. \A v \in Workers : SoleFits(v)'
    BY <2>1, <2>2 DEF SingleStates, SoleFits, Queued
  <2>4. \A u \in Tasks : Held(u)'
    BY <2>1, <2>2 DEF SingleStates, Held, Queued, InHand
  <2> QED BY <2>1, <2>3, <2>4 DEF SingleStates
<1>7. CASE UNCHANGED vars
  BY <1>7 DEF vars, SingleStates, SoleFits, Held, Queued, InHand
<1> QED BY <1>1, <1>3, <1>4, <1>5, <1>6, <1>7 DEF Next

Pending == {t \in Tasks : event[t] # "none"}

\* Finitely many events are registered, so a count of zero means that none is.
LEMMA PendingStep ==
    ASSUME BaseInv, IsFiniteSet(Pending), [Next]_vars
    PROVE  IsFiniteSet(Pending')
<1>0. TypeOK /\ HandInv
  BY DEF BaseInv
<1>1. CASE UNCHANGED event
  BY <1>1 DEF Pending
<1>2. ASSUME NEW w \in Workers, AddEvent(w) PROVE IsFiniteSet(Pending')
  <2>1. ft[w] \in Tasks
    BY <1>2, <1>0, HandType DEF AddEvent, HandPC
  <2>2. Pending' = Pending \cup {ft[w]}
    BY <2>1, <1>2, <1>0 DEF AddEvent, Pending, TypeOK
  <2> QED BY <2>2, FS_AddElement
<1>3. ASSUME NEW t \in Tasks, Trigger(t) \/ TriggerDone(t) PROVE IsFiniteSet(Pending')
  <2>1. Pending' \subseteq Pending
    BY <1>3, <1>0 DEF Trigger, TriggerDone, Pending, TypeOK
  <2> QED BY <2>1, FS_Subset
<1>4. ASSUME NEW w \in Workers, WorkerStep(w), ~AddEvent(w) PROVE UNCHANGED event
  BY <1>4 DEF WorkerStep, Pick, PickNone, DropFinished, SwapIn, YieldToReady, YieldToHold,
     MainFuncEnds, SwapOut, Deactivate, TestState, Reschedule, SetHold, EnterIdle,
     IdlePending, IdleStopping
<1>5. ASSUME OwnerStep PROVE UNCHANGED event
  BY <1>5 DEF OwnerStep, Start, StopFlag, StopTickle, StopProbe, StopCallRoot,
     StopRootBack, StopJoin
<1>6. ASSUME NEW t \in Tasks, NEW thread \in Affinity,
             Schedule(t, thread) \/ \E w \in Workers : Spawn(w, t, thread)
      PROVE  UNCHANGED event
  BY <1>6 DEF Schedule, Spawn
<1>7. CASE \E t \in Tasks : ScheduleAgain(t)
  BY <1>7, <1>1 DEF ScheduleAgain
<1>8. CASE UNCHANGED vars
  BY <1>8, <1>1 DEF vars
<1> QED BY <1>1, <1>2, <1>3, <1>4, <1>5, <1>6, <1>7, <1>8 DEF Next

LEMMA NothingIsPending ==
    ASSUME IsFiniteSet(Pending), m_pendingEventCount = 0
    PROVE  \A t \in Tasks : event[t] = "none"
<1>1. Cardinality(Pending) = 0
  BY DEF m_pendingEventCount, Pending
<1>2. Pending = {}
  BY <1>1, FS_EmptySet
<1> QED BY <1>2 DEF Pending

\* Once all is over and the owner has called stop(), it stays so.
LEMMA OverStays ==
    ASSUME BaseInv, Over, spc \notin {"new", "running"}, [Next]_vars
    PROVE  Over'
<1>0. TypeOK /\ HandInv
  BY DEF BaseInv
<1>1. ASSUME NEW w \in Workers, WorkerStep(w) PROVE Over'
  <2>1. pc[w] \notin HandPC /\ m_fibers = <<>>
    BY DEF Over
  <2>2. ~Pick(w)
    BY <2>1 DEF Pick, Eligible
  <2>3. PickNone(w) \/ EnterIdle(w) \/ IdlePending(w) \/ IdleStopping(w)
    BY <2>1, <2>2, <1>1 DEF WorkerStep, DropFinished, SwapIn, YieldToReady, AddEvent,
       YieldToHold, MainFuncEnds, SwapOut, Deactivate, TestState, Reschedule, SetHold, HandPC
  <2>4. \E l \in {"noTask", "exit", "idle", "idle2", "pick"} : Goto(w, l)
    BY <2>3 DEF PickNone, EnterIdle, IdlePending, IdleStopping
  <2>5. \A v \in Workers : pc'[v] \notin HandPC
    BY <2>4, <1>0 DEF Over, Goto, TypeOK, HandPC
  <2>6. UNCHANGED <<m_fibers, m_state, event>>
    BY <2>3 DEF PickNone, EnterIdle, IdlePending, IdleStopping
  <2> QED BY <2>5, <2>6 DEF Over, Finished
<1>2. CASE OwnerStep
  <2>1. UNCHANGED <<m_fibers, m_state, event>>
    BY <1>2 DEF OwnerStep, Start, StopFlag, StopTickle, StopProbe, StopCallRoot,
       StopRootBack, StopJoin
  <2>2. \A v \in Workers : pc'[v] \in {pc[v], "pick"}
    BY <1>2, <1>0 DEF OwnerStep, Start, StopFlag, StopTickle, StopProbe, StopCallRoot,
       StopRootBack, StopJoin, TypeOK
  <2> QED BY <2>1, <2>2 DEF Over, Finished, HandPC
<1>3. CASE \E t \in Tasks : Trigger(t) \/ TriggerDone(t)
  BY <1>3 DEF Over, Trigger, TriggerDone
<1>4. CASE \E w \in Workers, t \in Tasks, thread \in Affinity : Spawn(w, t, thread)
  BY <1>4 DEF Over, Spawn, HandPC
<1>5. CASE \E t \in Tasks, thread \in Affinity : Schedule(t, thread)
  BY <1>5 DEF Schedule
<1>6. CASE \E t \in Tasks : ScheduleAgain(t)
  BY <1>6 DEF ScheduleAgain
<1>7. CASE UNCHANGED vars
  BY <1>7 DEF vars, Over, Finished
<1> QED BY <1>1, <1>2, <1>3, <1>4, <1>5, <1>6, <1>7 DEF Next

\* No event, nothing in the queue and nothing in hand: nothing is left.
LEMMA NothingLeft ==
    ASSUME BaseInv, SingleStates, m_fibers = <<>>, \A t \in Tasks : event[t] = "none",
           \A w \in Workers : pc[w] \notin HandPC
    PROVE  Over
<1>1. \A t : ~Queued(t)
  BY DEF Queued
<1>2. \A w \in Workers : ft[w] = NoTask
  BY DEF BaseInv, HandInv
<1>3. ASSUME NEW t \in Tasks PROVE Finished(t)
  <2>1. ~InHand(t) /\ ~ \E w \in Workers : ft[w] = t
    BY <1>2, SchedulerAssumption DEF InHand
  <2>2. Held(t) /\ m_state[t] \in FiberState
    BY DEF SingleStates, BaseInv, TypeOK
  <2> QED BY <2>1, <2>2, <1>1 DEF Held, Finished, FiberState
<1> QED BY <1>3 DEF Over

\* While no event is registered and the worker is not inside a task, none gets
\* registered.
LEMMA NoneRegisters ==
    ASSUME BaseInv, [Next]_vars, \A t \in Tasks : event[t] = "none",
           \A w \in Workers : pc[w] # "run"
    PROVE  \A t \in Tasks : event'[t] = "none"
<1>1. ASSUME NEW w \in Workers, WorkerStep(w) PROVE UNCHANGED event
  BY <1>1 DEF WorkerStep, Pick, PickNone, DropFinished, SwapIn, YieldToReady, AddEvent,
     YieldToHold, MainFuncEnds, SwapOut, Deactivate, TestState, Reschedule, SetHold,
     EnterIdle, IdlePending, IdleStopping
<1>2. ASSUME OwnerStep PROVE UNCHANGED event
  BY <1>2 DEF OwnerStep, Start, StopFlag, StopTickle, StopProbe, StopCallRoot,
     StopRootBack, StopJoin
<1>3. CASE \E t \in Tasks, thread \in Affinity : Schedule(t, thread)
  BY <1>3 DEF Schedule
<1>4. CASE \E t \in Tasks : ScheduleAgain(t) \/ Trigger(t) \/ TriggerDone(t)
  BY <1>4 DEF ScheduleAgain, Trigger, TriggerDone
<1>5. CASE \E w \in Workers, t \in Tasks, thread \in Affinity : Spawn(w, t, thread)
  BY <1>5 DEF Spawn
<1>6. CASE UNCHANGED vars
  BY <1>6 DEF vars
<1> QED BY <1>1, <1>2, <1>3, <1>4, <1>5, <1>6 DEF Next

\* The only worker leaves when all is over.  IOManager::stopping() reads the
\* pending events before it takes the lock: in between nobody registers one,
\* since the only thread that runs tasks is the one that asks.
LEMMA SingleOverStep ==
    ASSUME Single, BaseInv, SingleStates, SingleOver, IsFiniteSet(Pending), [Next]_vars
    PROVE  SingleOver'
<1>0. TypeOK /\ HandInv /\ OwnerInv
  BY DEF BaseInv
<1>1. ASSUME NEW w \in Workers, idleTerm'[w] PROVE Over'
  <2>1. CASE idleTerm[w]
    <3>1. Over /\ spc \notin {"new", "running"}
      BY <2>1, <1>0 DEF SingleOver, OwnerInv
    <3> QED BY <3>1, OverStays
  <2>2. CASE ~idleTerm[w]
    <3>1. IdleStopping(w)
      <4>1. \E v \in Workers : WorkerStep(v)
        BY <1>1, <2>2 DEF Next, OwnerStep, Start, StopFlag, StopTickle, StopProbe,
           StopCallRoot, StopRootBack, StopJoin, Schedule, ScheduleAgain, Spawn, Trigger,
           TriggerDone, vars
      <4>2. WorkerStep(w)
        BY <4>1, SoleHand
      <4> QED BY <4>2, <1>1, <2>2, WorkerFrame
    <3>2. Stopping /\ pc[w] = "idle2"
      BY <3>1, <1>1, <1>0 DEF IdleStopping, TypeOK
    <3>3. \A v \in Workers : pc[v] \notin HandPC
      BY <3>2, SoleHand DEF HandPC
    <3>4. m_fibers = <<>> /\ \A t \in Tasks : event[t] = "none"
      BY <3>2 DEF SingleOver, Stopping
    <3>5. Over
      BY <3>3, <3>4, NothingLeft
    <3>6. spc \notin {"new", "running"}
      BY <3>2, <1>0 DEF Stopping, OwnerInv
    <3> QED BY <3>5, <3>6, OverStays
  <2> QED BY <2>1, <2>2
<1>2. ASSUME NEW w \in Workers, pc'[w] = "idle2" PROVE \A t \in Tasks : event'[t] = "none"
  <2>1. CASE pc[w] = "idle2"
    <3>1. \A v \in Workers : pc[v] # "run"
      BY <2>1, SoleHand
    <3> QED BY <2>1, <3>1, NoneRegisters DEF SingleOver
  <2>2. CASE pc[w] # "idle2"
    <3>1. \E v \in Workers : WorkerStep(v)
      BY <1>2, <2>2, <1>0 DEF Next, OwnerStep, Start, StopFlag, StopTickle, StopProbe,
         StopCallRoot, StopRootBack, StopJoin, Schedule, ScheduleAgain, Spawn, Trigger,
         TriggerDone, vars, TypeOK
    <3>2. WorkerStep(w)
      BY <3>1, SoleHand
    <3>3. IdlePending(w)
      <4>1. ASSUME NEW l \in WorkerPC, Goto(w, l) PROVE pc'[w] = l
        BY <4>1, <1>0, GotoType
      <4>2. ~(Pick(w) \/ PickNone(w) \/ DropFinished(w) \/ SwapIn(w) \/ YieldToReady(w)
              \/ AddEvent(w) \/ YieldToHold(w) \/ MainFuncEnds(w))
        BY <4>1, <1>2 DEF Pick, PickNone, DropFinished, SwapIn, YieldToReady, AddEvent,
           YieldToHold, MainFuncEnds, WorkerPC
      <4>3. ~(SwapOut(w) \/ Deactivate(w) \/ Reschedule(w) \/ SetHold(w) \/ IdleStopping(w))
        BY <4>1, <1>2 DEF SwapOut, Deactivate, Reschedule, SetHold, IdleStopping, WorkerPC
      <4>4. ~TestState(w) /\ ~EnterIdle(w)
        <5>1. TestState(w) \/ EnterIdle(w) =>
                 \E l \in {"pick", "resched", "sethold", "exit", "idle"} : Goto(w, l)
          BY DEF TestState, EnterIdle
        <5> QED BY <5>1, <4>1, <1>2 DEF WorkerPC
      <4> QED BY <4>2, <4>3, <4>4, <3>2 DEF WorkerStep
    <3>4. m_pendingEventCount = 0 /\ UNCHANGED event
      BY <3>3, <1>2, <1>0 DEF IdlePending, Goto, TypeOK
    <3> QED BY <3>4, NothingIsPending
  <2> QED BY <2>1, <2>2
<1>3. ASSUME spc' = "probed" PROVE \A t \in Tasks : event'[t] = "none"
  <2>1. CASE spc = "probed"
    <3>1. \A v \in Workers : pc[v] = "off"
      BY <2>1, <1>0, SoleHand DEF OwnerInv
    <3> QED BY <2>1, <3>1, NoneRegisters DEF SingleOver
  <2>2. CASE spc # "probed"
    <3>1. StopProbe
      BY <1>3, <2>2, WorkerFrame DEF Next, OwnerStep, Start, StopFlag, StopTickle,
         StopCallRoot, StopRootBack, StopJoin, Schedule, ScheduleAgain, Spawn, Trigger,
         TriggerDone, vars, flagVars
    <3>2. m_pendingEventCount = 0 /\ UNCHANGED event
      BY <3>1, <1>3 DEF StopProbe
    <3> QED BY <3>2, NothingIsPending
  <2> QED BY <2>1, <2>2
<1>4. ASSUME spc' \in {"join", "done"}, Root \in Workers PROVE Over'
  <2>1. CASE spc \in {"join", "done"}
    BY <1>4, <2>1, OverStays DEF SingleOver
  <2>2. CASE spc \notin {"join", "done"}
    <3>1. StopTickle \/ StopCallRoot \/ StopRootBack
      BY <1>4, <2>2, WorkerFrame DEF Next, OwnerStep, Start, StopFlag, StopProbe, StopJoin,
         Schedule, ScheduleAgain, Spawn, Trigger, TriggerDone, vars, flagVars
    <3>2. ~StopTickle
      BY <1>4, SchedulerAssumption DEF StopTickle
    <3>3. CASE StopCallRoot
      <4>1. spc = "probed" /\ Stopping
        BY <3>3, <1>4 DEF StopCallRoot
      <4>2. \A v \in Workers : pc[v] = "off"
        BY <4>1, <1>0, SoleHand DEF OwnerInv
      <4>3. Over
        BY <4>1, <4>2, NothingLeft DEF SingleOver, Stopping, HandPC
      <4> QED BY <4>1, <4>3, OverStays
    <3>4. CASE StopRootBack
      <4>1. idleTerm[Root] /\ spc = "root"
        BY <3>4, <1>4, <1>0 DEF StopRootBack, OwnerInv
      <4>2. Over
        BY <4>1, <1>4 DEF SingleOver
      <4> QED BY <4>1, <4>2, OverStays
    <3> QED BY <3>1, <3>2, <3>3, <3>4
  <2> QED BY <2>1, <2>2
<1> QED BY <1>1, <1>2, <1>3, <1>4 DEF SingleOver

\* The inductive invariant of a scheduler with one worker: a fiber is where its
\* state says (scheduler.cpp:172-199, iomanager.cpp:44-55), and the worker leaves
\* when all is over (scheduler.cpp:206-230, iomanager.cpp:277-281).
THEOREM SingleInvariant == Single /\ Spec => []SingleInv
<1> SUFFICES ASSUME Single PROVE Spec => []SingleInv
  OBVIOUS
<1>1. Init => SingleInv
  <2> SUFFICES ASSUME Init PROVE SingleInv
    OBVIOUS
  <2>1. SingleStates
    BY DEF Init, SingleStates, SoleFits, Held
  <2>2. SingleOver
    BY DEF Init, SingleOver
  <2>3. {t \in Tasks : event[t] # "none"} = {}
    BY DEF Init
  <2>4. IsFiniteSet({t \in Tasks : event[t] # "none"})
    BY <2>3, FS_EmptySet, Zenon
  <2> QED BY <2>1, <2>2, <2>4, BaseInit DEF Init, SingleInv
<1>2. SingleInv /\ [Next]_vars => SingleInv'
  <2> SUFFICES ASSUME SingleInv, [Next]_vars PROVE SingleInv'
    OBVIOUS
  <2>1. BaseInv /\ SingleStates /\ SingleOver /\ failed = "none" /\ IsFiniteSet(Pending)
    BY DEF SingleInv, Pending
  <2>2. BaseInv'
    BY <2>1, TypeStep, HandStep, CountStep, OwnerInvStep DEF BaseInv
  <2>3. SingleStates' /\ failed' = "none" /\ SingleOver' /\ IsFiniteSet(Pending')
    BY <2>1, SingleStatesStep, SingleOverStep, PendingStep
  <2> QED BY <2>2, <2>3 DEF SingleInv, Pending
<1> QED BY <1>1, <1>2, PTL DEF Spec

\* With one worker no SYLAR_ASSERT on a fiber's state fails (fiber.cpp:141,
\* iomanager.cpp:150): the race of scheduler.cpp:179 takes a second one.
THEOREM SingleAssertionsHold == Single /\ Spec => []NoAssertionFails
<1>1. SingleInv => NoAssertionFails
  BY DEF SingleInv, NoAssertionFails
<1> QED BY <1>1, SingleInvariant, PTL

\* With one worker no yield, wake-up or repeated schedule() loses a task, whenever
\* its event is triggered (scheduler.cpp:172-199, iomanager.cpp:44-55).
THEOREM SingleLosesNoTask == Single /\ Spec => []NoTaskLost
<1>1. SingleInv => NoTaskLost
  <2> SUFFICES ASSUME SingleInv, NEW t \in Tasks, ~Finished(t)
               PROVE  \/ Queued(t)
                      \/ \E w \in Workers : ft[w] = t /\ pc[w] # "sethold"
                      \/ event[t] = "armed"
    BY DEF NoTaskLost, Queued
  <2>1. Held(t) /\ \A w \in Workers : SoleFits(w)
    BY DEF SingleInv, SingleStates
  <2>2. m_state[t] \in {"EXEC", "INIT", "READY", "HOLD"}
    BY DEF SingleInv, BaseInv, TypeOK, FiberState, Finished
  <2> QED BY <2>1, <2>2 DEF Held, InHand, SoleFits
<1> QED BY <1>1, SingleInvariant, PTL

\* While stopping() holds, an unfinished task is held by an event or about to be
\* scheduled again, with one worker too (scheduler.cpp:174-177, 226-230).
THEOREM SingleStoppingWindow == Single /\ Spec => []StoppingWindow
<1>1. SingleInv => StoppingWindow
  <2> SUFFICES ASSUME SingleInv, Stopping, NEW t \in Tasks, ~Finished(t), event[t] = "none"
               PROVE  \E w \in Workers : ft[w] = t /\ pc[w] \in {"after", "resched"}
    BY DEF StoppingWindow
  <2>1. /\ Held(t) /\ m_state[t] \in {"EXEC", "INIT", "READY", "HOLD"}
        /\ \A w \in Workers : SoleFits(w)
    BY DEF SingleInv, SingleStates, BaseInv, TypeOK, FiberState, Finished
  <2>2. ~Queued(t)
    BY StoppingEmpty DEF Queued
  <2>3. Active = {}
    <3>1. Cardinality(Active) = 0
      BY DEF SingleInv, BaseInv, CountInv, Stopping, Active
    <3> QED BY <3>1, ActiveFinite, FS_EmptySet
  <2>4. \A w \in Workers : pc[w] \notin ActivePC
    BY <2>3 DEF Active
  <2>5. m_state[t] # "HOLD"
    BY <2>1, <2>2, <2>4 DEF Held, ActivePC
  <2>6. PICK w \in Workers : ft[w] = t
    BY <2>1, <2>2, <2>5 DEF Held, InHand
  <2>7. pc[w] \in HandPC
    BY <2>6, SchedulerAssumption DEF SingleInv, BaseInv, HandInv
  <2> QED BY <2>1, <2>4, <2>5, <2>6, <2>7 DEF HandPC, ActivePC, SoleFits
<1> QED BY <1>1, SingleInvariant, PTL

\* When stop() of a scheduler with one worker returns, every task has ended, the
\* waiters included (scheduler.cpp:80-120, 206-230; iomanager.cpp:277-281).
THEOREM SingleStopDrains == Single /\ Spec => []StopDrains
<1>1. SingleInv => StopDrains
  <2> SUFFICES ASSUME SingleInv, spc = "done" PROVE Over
    BY DEF StopDrains, Over
  <2>1. PICK w \in Workers : TRUE
    BY SchedulerAssumption
  <2>2. w = Root \/ idleTerm[w]
    BY DEF SingleInv, BaseInv, OwnerInv
  <2> QED BY <2>2 DEF SingleInv, SingleOver
<1> QED BY <1>1, SingleInvariant, PTL
=============================================================================
