------------------------------ MODULE TimerProofs ------------------------------
(***************************************************************************)
(* Theorems about TimerManager, for every number of timers, threads and    *)
(* clients, every set of durations and every range of the clock.           *)
(***************************************************************************)
EXTENDS TimerManager, TLAPS

\* Every step keeps the types.  reset() needs StartNotNegative for its
\* subtraction, addTimer BuilderOwns for the timer it inserts.
LEMMA TypeStep == ASSUME TypeOK, StartNotNegative, BuilderOwns, Next PROVE TypeOK'
<1> USE TimerAssumption DEF TypeOK, Entries, Never, NoTimer
<1>1. ASSUME NEW c \in Clients, NEW t \in Timers, NEW ms \in Durations,
             NEW r \in BOOLEAN, NewTimer(c, t, ms, r)
      PROVE  TypeOK'
  BY <1>1 DEF NewTimer, loopVars
<1>2. ASSUME NEW c \in Clients, InsertTimer(c) PROVE TypeOK'
  <2>1. carg[c] \in Timers /\ m_next[carg[c]] \in Nat
    BY <1>2 DEF InsertTimer, BuilderOwns
  <2>2. m_timers' \subseteq Entries /\ outcome' \in [Timers -> {"free", "building", "armed", "fired", "cancelled"}]
    BY <1>2, <2>1 DEF InsertTimer, addTimerLocked
  <2>3. CASE AtFront(m_next[carg[c]], carg[c], m_timers) /\ ~m_tickled
    BY <1>2, <2>1, <2>2, <2>3 DEF InsertTimer, addTimerLocked, loopVars
  <2>4. CASE ~(AtFront(m_next[carg[c]], carg[c], m_timers) /\ ~m_tickled)
    BY <1>2, <2>1, <2>2, <2>4 DEF InsertTimer, addTimerLocked, loopVars
  <2> QED BY <2>3, <2>4
<1>3. ASSUME NEW c \in Clients, onTimerInsertedAtFront(c) PROVE TypeOK'
  BY <1>3 DEF onTimerInsertedAtFront, loopVars, timerVars
<1>4. ASSUME NEW c \in Clients, NEW t \in Timers, Cancel(c, t) PROVE TypeOK'
  BY <1>4 DEF Cancel, loopVars, clientVars
<1>5. ASSUME NEW c \in Clients, NEW t \in Timers, Refresh(c, t) PROVE TypeOK'
  BY <1>5 DEF Refresh, loopVars, clientVars
<1>6. ASSUME NEW c \in Clients, NEW t \in Timers, NEW ms \in Durations,
             NEW f \in BOOLEAN, Reset(c, t, ms, f)
      PROVE  TypeOK'
  <2>1. ResetStart(t, f) \in Nat
    BY DEF ResetStart, StartNotNegative
  <2> DEFINE k == ResetStart(t, f) + ms
             rest == m_timers \ {Entry(t)}
  <2>2. k \in Nat /\ m_timers' = rest \cup {<<k, t>>}
    BY <1>6, <2>1 DEF Reset, addTimerLocked
  <2>3. m_timers' \subseteq Entries
    BY <2>2
  <2>4. m_ms' \in [Timers -> Nat] /\ m_next' \in [Timers -> Nat]
    BY <1>6, <2>1 DEF Reset
  <2>5. CASE AtFront(k, t, rest) /\ ~m_tickled
    BY <1>6, <2>3, <2>4, <2>5 DEF Reset, addTimerLocked, loopVars
  <2>6. CASE ~(AtFront(k, t, rest) /\ ~m_tickled)
    BY <1>6, <2>3, <2>4, <2>6 DEF Reset, addTimerLocked, loopVars
  <2> QED BY <2>5, <2>6
<1>7. ASSUME NEW w \in Threads, GetNextTimer(w) PROVE TypeOK'
  BY <1>7 DEF GetNextTimer, clientVars, timerVars
<1>8. ASSUME NEW w \in Threads, EpollReturn(w) PROVE TypeOK'
  <2>1. PICK saw \in BOOLEAN : sawPipe' = [sawPipe EXCEPT ![w] = saw]
    BY <1>8 DEF EpollReturn
  <2> QED BY <1>8, <2>1 DEF EpollReturn, clientVars, timerVars
<1>9. ASSUME NEW w \in Threads, CheckEmpty(w) PROVE TypeOK'
  BY <1>9 DEF CheckEmpty, clientVars, timerVars
<1>10. ASSUME NEW w \in Threads, ListExpiredCb(w) PROVE TypeOK'
  BY <1>10 DEF ListExpiredCb, clientVars, Expired, ExpiredTimers, CbAfterExpiry
<1>11. ASSUME NEW w \in Threads, ListExpiredCbEmpty(w) PROVE TypeOK'
  BY <1>11 DEF ListExpiredCbEmpty, clientVars, timerVars, loopVars
<1>12. ASSUME NEW w \in Threads, Drain(w) PROVE TypeOK'
  BY <1>12 DEF Drain, clientVars, timerVars
<1>13. ASSUME NEW w \in Threads, EnterIdle(w) PROVE TypeOK'
  BY <1>13 DEF EnterIdle, clientVars, timerVars
<1>14. CASE ProbeNextTimer
  BY <1>14 DEF ProbeNextTimer, clientVars, timerVars, loopVars
<1>15. CASE Tick
  BY <1>15 DEF Tick, clientVars, timerVars, loopVars
<1>16. CASE StepBack
  BY <1>16 DEF StepBack, clientVars, timerVars, loopVars
<1> QED BY <1>1, <1>2, <1>3, <1>4, <1>5, <1>6, <1>7, <1>8, <1>9, <1>10,
           <1>11, <1>12, <1>13, <1>14, <1>15, <1>16
        DEF Next, ClientStep, LoopStep

-----------------------------------------------------------------------------
(* IndexInv                                                                  *)

IndexRest == ArmedIndexed /\ BuilderOwns /\ StartNotNegative

\* The idle loop outside listExpiredCb, and the clock, touch no timer and no client.
LEMMA IndexFrame ==
    ASSUME IndexRest, UNCHANGED <<timerVars, clientVars>> PROVE IndexRest'
BY DEF IndexRest, ArmedIndexed, BuilderOwns, StartNotNegative, Entry, timerVars, clientVars

\* Every step keeps m_timers the index of the armed timers by their current
\* m_next: Timer::cancel, refresh, reset and listExpiredCb re-key or remove a
\* timer only together with its entry.
LEMMA IndexStep == ASSUME IndexInv, Next, TypeOK' PROVE IndexRest'
<1> USE TimerAssumption DEF TypeOK, Entries, NoTimer, Entry
<1>a. IndexRest
  BY DEF IndexInv, IndexRest
<1>t. TypeOK
  BY DEF IndexInv
<1>1. ASSUME NEW c \in Clients, NEW t \in Timers, NEW ms \in Durations,
             NEW r \in BOOLEAN, NewTimer(c, t, ms, r)
      PROVE  IndexRest'
  <2>1. ArmedIndexed'
    BY <1>1, <1>a, <1>t DEF NewTimer, IndexRest, ArmedIndexed
  <2>2. BuilderOwns'
    BY <1>1, <1>a, <1>t DEF NewTimer, IndexRest, BuilderOwns
  <2>3. StartNotNegative'
    BY <1>1, <1>a, <1>t DEF NewTimer, IndexRest, StartNotNegative
  <2> QED BY <2>1, <2>2, <2>3 DEF IndexRest
<1>2. ASSUME NEW c \in Clients, InsertTimer(c) PROVE IndexRest'
  <2>1. ArmedIndexed'
    BY <1>2, <1>a, <1>t DEF InsertTimer, addTimerLocked, IndexRest, ArmedIndexed, BuilderOwns
  <2>2. BuilderOwns'
    BY <1>2, <1>a, <1>t DEF InsertTimer, addTimerLocked, IndexRest, BuilderOwns
  <2>3. StartNotNegative'
    BY <1>2, <1>a, <1>t DEF InsertTimer, IndexRest, StartNotNegative
  <2> QED BY <2>1, <2>2, <2>3 DEF IndexRest
<1>3. ASSUME NEW c \in Clients, onTimerInsertedAtFront(c) PROVE IndexRest'
  BY <1>3, <1>a, <1>t DEF onTimerInsertedAtFront, timerVars, IndexRest, ArmedIndexed,
     BuilderOwns, StartNotNegative
<1>4. ASSUME NEW c \in Clients, NEW t \in Timers, Cancel(c, t) PROVE IndexRest'
  <2>1. ArmedIndexed'
    BY <1>4, <1>a, <1>t DEF Cancel, IndexRest, ArmedIndexed, Held
  <2>2. BuilderOwns'
    BY <1>4, <1>a, <1>t DEF Cancel, clientVars, IndexRest, BuilderOwns, Held
  <2>3. StartNotNegative'
    BY <1>4, <1>a, <1>t DEF Cancel, IndexRest, StartNotNegative
  <2> QED BY <2>1, <2>2, <2>3 DEF IndexRest
<1>5. ASSUME NEW c \in Clients, NEW t \in Timers, Refresh(c, t) PROVE IndexRest'
  <2>1. ArmedIndexed'
    BY <1>5, <1>a, <1>t DEF Refresh, IndexRest, ArmedIndexed, Held
  <2>2. BuilderOwns'
    BY <1>5, <1>a, <1>t DEF Refresh, clientVars, IndexRest, BuilderOwns
  <2>3. StartNotNegative'
    BY <1>5, <1>a, <1>t DEF Refresh, IndexRest, StartNotNegative
  <2> QED BY <2>1, <2>2, <2>3 DEF IndexRest
<1>6. ASSUME NEW c \in Clients, NEW t \in Timers, NEW ms \in Durations,
             NEW f \in BOOLEAN, Reset(c, t, ms, f)
      PROVE  IndexRest'
  <2>0. ResetStart(t, f) \in Nat
    BY <1>a, <1>t DEF ResetStart, IndexRest, StartNotNegative
  <2>1. ArmedIndexed'
    BY <1>6, <1>a, <1>t, <2>0 DEF Reset, addTimerLocked, IndexRest, ArmedIndexed, Held
  <2>2. BuilderOwns'
    BY <1>6, <1>a, <1>t DEF Reset, addTimerLocked, IndexRest, BuilderOwns, Held
  <2>3. StartNotNegative'
    BY <1>6, <1>a, <1>t, <2>0 DEF Reset, IndexRest, StartNotNegative
  <2> QED BY <2>1, <2>2, <2>3 DEF IndexRest
<1>7. ASSUME NEW w \in Threads, ListExpiredCb(w) PROVE IndexRest'
  <2>1. ArmedIndexed'
    BY <1>7, <1>a, <1>t DEF ListExpiredCb, Expired, ExpiredTimers, CbAfterExpiry, IndexRest, ArmedIndexed
  <2>2. BuilderOwns'
    <3>1. \A t \in ExpiredTimers(w) : t \in Timers /\ outcome[t] = "armed"
      BY <1>a, <1>t DEF Expired, ExpiredTimers, IndexRest, ArmedIndexed
    <3>2. \A t \in Timers : outcome[t] \in {"free", "building"} =>
             outcome'[t] = outcome[t] /\ (m_cb[t] => m_cb'[t])
      BY <1>7, <3>1, <1>t DEF ListExpiredCb, CbAfterExpiry
    <3>3. \A t \in Timers : outcome[t] # "free" => outcome'[t] # "free"
      BY <1>7, <3>1, <1>t DEF ListExpiredCb
    <3>4. cpc' = cpc /\ carg' = carg
      BY <1>7 DEF ListExpiredCb, clientVars
    <3>5. ASSUME NEW c \in Clients, carg[c] # NoTimer PROVE outcome'[carg[c]] # "free"
      <4>1. carg[c] \in Timers
        BY <1>t, <3>5
      <4> QED BY <3>3, <3>5, <4>1, <1>a DEF IndexRest, BuilderOwns
    <3>6. ASSUME NEW c \in Clients, cpc[c] = "insert"
          PROVE  /\ carg[c] \in Timers
                 /\ outcome'[carg[c]] = "building" /\ m_cb'[carg[c]]
                 /\ \A d \in Clients \ {c} : carg[d] # carg[c]
      BY <3>2, <3>6, <1>a DEF IndexRest, BuilderOwns
    <3> QED BY <3>4, <3>5, <3>6 DEF BuilderOwns
  <2>3. StartNotNegative'
    <3>1. /\ m_ms' = m_ms
          /\ \A t \in Timers : m_next'[t] \in {m_next[t], now_ms[w] + m_ms[t]}
      BY <1>7 DEF ListExpiredCb
    <3> QED BY <3>1, <1>a, <1>t DEF IndexRest, StartNotNegative
  <2> QED BY <2>1, <2>2, <2>3 DEF IndexRest
<1>8. ASSUME NEW w \in Threads,
             \/ GetNextTimer(w) \/ EpollReturn(w) \/ CheckEmpty(w)
             \/ ListExpiredCbEmpty(w) \/ Drain(w) \/ EnterIdle(w)
      PROVE  IndexRest'
  BY <1>8, <1>a, IndexFrame DEF GetNextTimer, EpollReturn, CheckEmpty,
     ListExpiredCbEmpty, Drain, EnterIdle
<1>9. ASSUME ProbeNextTimer \/ Tick \/ StepBack PROVE IndexRest'
  BY <1>9, <1>a, IndexFrame DEF ProbeNextTimer, Tick, StepBack
<1> QED BY <1>1, <1>2, <1>3, <1>4, <1>5, <1>6, <1>7, <1>8, <1>9
        DEF Next, ClientStep, LoopStep

\* IndexInv is inductive.
LEMMA IndexInvariant == Spec => []IndexInv
<1>1. Init => IndexInv
  <2> SUFFICES ASSUME Init PROVE IndexInv
    OBVIOUS
  <2>1. TypeOK
    BY TimerAssumption DEF Init, TypeOK, Entries, Never, NoTimer
  <2>2. ArmedIndexed
    BY DEF Init, ArmedIndexed
  <2>3. BuilderOwns
    BY DEF Init, BuilderOwns
  <2>4. StartNotNegative
    BY DEF Init, StartNotNegative
  <2> QED BY <2>1, <2>2, <2>3, <2>4 DEF IndexInv
<1>2. IndexInv /\ [Next]_vars => IndexInv'
  <2> SUFFICES ASSUME IndexInv, [Next]_vars PROVE IndexInv'
    OBVIOUS
  <2>1. CASE Next
    <3>1. TypeOK'
      BY <2>1, TypeStep DEF IndexInv
    <3>2. IndexRest'
      BY <2>1, <3>1, IndexStep
    <3> QED BY <3>1, <3>2 DEF IndexRest, IndexInv
  <2>2. CASE UNCHANGED vars
    <3>1. TypeOK'
      BY <2>2 DEF IndexInv, TypeOK, vars, timerVars, clientVars, loopVars
    <3>2. IndexRest'
      BY <2>2, IndexFrame DEF IndexInv, IndexRest, vars
    <3> QED BY <3>1, <3>2 DEF IndexRest, IndexInv
  <2> QED BY <2>1, <2>2
<1> QED BY <1>1, <1>2, PTL DEF Spec

\* The state of the timers, their clients and the idle loops keeps its types;
\* in particular reset()'s unsigned subtraction m_next - m_ms never wraps.
THEOREM TypeCorrect == Spec => []TypeOK
BY IndexInvariant, PTL DEF IndexInv

\* m_cb is set exactly while m_timers holds the timer under its current key, so
\* Timer::cancel never erases end() (timer.cpp:46-49).
THEOREM CancelFindsEntry == Spec => []IndexConsistent
<1>1. IndexInv => IndexConsistent
  BY DEF IndexInv, IndexConsistent, ArmedIndexed, TypeOK, Entry
<1> QED BY <1>1, IndexInvariant, PTL

\* Once a one-shot timer fired, or cancel() returned true, no listExpiredCb
\* collects the callback again and no cancel() succeeds again.
THEOREM FiredOrCancelledIsFinal == Spec => FiresOnceOrIsCancelled
<1> DEFINE Final == \A t \in Timers :
                      outcome[t] \in {"fired", "cancelled"} =>
                         /\ outcome'[t] = outcome[t]
                         /\ \A w \in Threads : t \in cbs'[w] => t \in cbs[w]
<1>1. IndexInv /\ [Next]_vars => [Final]_vars
  <2> SUFFICES ASSUME IndexInv, Next PROVE Final
    OBVIOUS
  <2> USE DEF IndexInv, TypeOK
  <2>1. ASSUME NEW c \in Clients, ClientStep(c) PROVE Final
    <3>1. CASE InsertTimer(c)
      BY <3>1 DEF InsertTimer, BuilderOwns, loopVars
    <3>2. ASSUME NEW t \in Timers, Cancel(c, t) PROVE Final
      BY <3>2 DEF Cancel, ArmedIndexed, loopVars
    <3>3. ASSUME NEW t \in Timers, NEW ms \in Durations, NEW r \in BOOLEAN, NewTimer(c, t, ms, r)
          PROVE  Final
      BY <3>3 DEF NewTimer, timerVars, loopVars
    <3>4. CASE onTimerInsertedAtFront(c)
      BY <3>4 DEF onTimerInsertedAtFront, timerVars, loopVars
    <3>5. ASSUME NEW t \in Timers, Refresh(c, t) PROVE Final
      BY <3>5 DEF Refresh, timerVars, loopVars
    <3>6. ASSUME NEW t \in Timers, NEW ms \in Durations, NEW b \in BOOLEAN, Reset(c, t, ms, b)
          PROVE  Final
      BY <3>6 DEF Reset, timerVars, loopVars
    <3> HIDE DEF IndexInv, TypeOK, Final
    <3> QED BY <2>1, <3>1, <3>2, <3>3, <3>4, <3>5, <3>6 DEF ClientStep
  <2>2. ASSUME NEW w \in Threads, LoopStep(w) PROVE Final
    <3>1. CASE ListExpiredCb(w)
      <4>1. \A t \in ExpiredTimers(w) : outcome[t] = "armed"
        BY DEF ArmedIndexed, Expired, ExpiredTimers
      <4> QED BY <3>1, <4>1 DEF ListExpiredCb
    <3>2. CASE Drain(w)
      BY <3>2 DEF Drain, timerVars
    <3> QED BY <2>2, <3>1, <3>2 DEF LoopStep, GetNextTimer, EpollReturn, CheckEmpty,
               ListExpiredCbEmpty, EnterIdle, timerVars, loopVars
  <2>3. ASSUME ProbeNextTimer \/ Tick \/ StepBack PROVE Final
    BY <2>3 DEF ProbeNextTimer, Tick, StepBack, timerVars, loopVars
  <2> QED BY <2>1, <2>2, <2>3 DEF Next
<1> QED BY <1>1, IndexInvariant, PTL DEF Spec, FiresOnceOrIsCancelled

-----------------------------------------------------------------------------
(* NoLostWakeup, for a clock that does not step back                         *)

\* Readings of a clock that only moves forward lie in the past.
LEMMA PastStep ==
    ASSUME ~ClockMayStepBack, IndexInv, StartsInPast, Next PROVE StartsInPast'
<1> USE TimerAssumption DEF IndexInv, TypeOK, StartsInPast
<1>1. ASSUME NEW c \in Clients, ClientStep(c) PROVE StartsInPast'
  <2>1. ASSUME NEW t \in Timers, NEW ms \in Durations, NEW r \in BOOLEAN,
               NewTimer(c, t, ms, r)
        PROVE  StartsInPast'
    BY <2>1 DEF NewTimer, loopVars
  <2>2. ASSUME NEW t \in Timers, Refresh(c, t) PROVE StartsInPast'
    BY <2>2 DEF Refresh, loopVars
  <2>3. ASSUME NEW t \in Timers, NEW ms \in Durations, NEW f \in BOOLEAN,
               Reset(c, t, ms, f)
        PROVE  StartsInPast'
    <3>1. ResetStart(t, f) \in Nat /\ ResetStart(t, f) <= clock
      BY DEF ResetStart, StartNotNegative
    <3> QED BY <2>3, <3>1 DEF Reset, loopVars
  <2> QED BY <1>1, <2>1, <2>2, <2>3 DEF ClientStep, InsertTimer, onTimerInsertedAtFront,
             Cancel, timerVars, loopVars
<1>2. ASSUME NEW w \in Threads, LoopStep(w) PROVE StartsInPast'
  <2>1. CASE ListExpiredCb(w)
    BY <2>1 DEF ListExpiredCb
  <2> QED BY <1>2, <2>1 DEF LoopStep, GetNextTimer, EpollReturn, CheckEmpty,
             ListExpiredCbEmpty, Drain, EnterIdle, timerVars, loopVars
<1>3. ASSUME ProbeNextTimer \/ Tick \/ StepBack PROVE StartsInPast'
  BY <1>3 DEF ProbeNextTimer, Tick, StepBack, timerVars, loopVars
<1> QED BY <1>1, <1>2, <1>3 DEF Next

\* After the critical section of addTimer(val, lock) the new entry is covered
\* as well as the ones that were there.
LEMMA InsertionCovered ==
    ASSUME TypeOK, TickledIsAlert,
           NEW c \in Clients, cpc[c] # "notify",
           NEW t \in Timers, NEW k \in Nat, NEW others, others \subseteq m_timers,
           \A e \in others : Covered(e) \/ Alert,
           addTimerLocked(c, k, t, others), UNCHANGED <<pipe, pc, promised>>
    PROVE  NoLostWakeup' /\ TickledIsAlert'
<1> USE DEF TypeOK, Entries
<1>1. CASE AtFront(k, t, others) /\ ~m_tickled
  <2>1. Alert'
    BY <1>1 DEF addTimerLocked, Alert
  <2> QED BY <2>1 DEF NoLostWakeup, TickledIsAlert
<1>2. CASE ~(AtFront(k, t, others) /\ ~m_tickled)
  <2>1. Alert => Alert'
    BY <1>2 DEF addTimerLocked, Alert
  <2>2. \A e \in others : Covered(e)' \/ Alert'
    BY <2>1 DEF Covered
  <2>3. CASE m_tickled
    BY <1>2, <2>1, <2>3 DEF addTimerLocked, TickledIsAlert, NoLostWakeup
  <2>4. CASE ~m_tickled
    <3>1. PICK e \in others : ~Before(k, t, e)
      BY <1>2, <2>4 DEF AtFront
    <3>2. e[1] \in Nat /\ e[1] <= k
      BY <3>1, TimerAssumption DEF Before
    <3>3. Covered(<<k, t>>)' \/ Alert'
      BY <2>2, <3>1, <3>2 DEF Covered, Never
    <3> QED BY <1>2, <2>2, <2>4, <3>3 DEF addTimerLocked, NoLostWakeup, TickledIsAlert
  <2> QED BY <2>3, <2>4
<1> QED BY <1>1, <1>2

\* Every step keeps each pending timer covered, and m_tickled honest.
LEMMA WakeStep ==
    ASSUME ~ClockMayStepBack, WakeupInv, Next PROVE NoLostWakeup' /\ TickledIsAlert'
<1> USE TimerAssumption
<1>a. IndexInv /\ TypeOK /\ ArmedIndexed /\ StartsInPast /\ TickledIsAlert /\ NoLostWakeup
  BY DEF WakeupInv, IndexInv
<1>1. ASSUME NEW c \in Clients, NEW t \in Timers, NEW ms \in Durations,
             NEW r \in BOOLEAN, NewTimer(c, t, ms, r)
      PROVE  NoLostWakeup' /\ TickledIsAlert'
  <2>1. Alert => Alert'
    BY <1>1, <1>a DEF NewTimer, Alert, TypeOK, loopVars
  <2> QED BY <1>1, <1>a, <2>1 DEF NewTimer, NoLostWakeup, TickledIsAlert, Covered, loopVars
<1>2. ASSUME NEW c \in Clients, InsertTimer(c) PROVE NoLostWakeup' /\ TickledIsAlert'
  <2>1. carg[c] \in Timers /\ m_next[carg[c]] \in Nat /\ cpc[c] # "notify"
    BY <1>2, <1>a DEF InsertTimer, IndexInv, BuilderOwns, TypeOK
  <2>2. /\ addTimerLocked(c, m_next[carg[c]], carg[c], m_timers)
        /\ UNCHANGED <<pipe, pc, promised>>
    BY <1>2 DEF InsertTimer, loopVars
  <2> QED BY <2>1, <2>2, <1>a, InsertionCovered DEF NoLostWakeup
<1>3. ASSUME NEW c \in Clients, onTimerInsertedAtFront(c)
      PROVE  NoLostWakeup' /\ TickledIsAlert'
  <2>1. Alert'
    <3>1. CASE \E w \in Threads : pc[w] # "busy"
      BY <1>3, <3>1 DEF onTimerInsertedAtFront, Alert
    <3>2. CASE \A w \in Threads : pc[w] = "busy"
      BY <1>3, <3>2 DEF onTimerInsertedAtFront, Alert, loopVars
    <3> QED BY <3>1, <3>2
  <2> QED BY <2>1 DEF NoLostWakeup, TickledIsAlert
<1>4. ASSUME NEW c \in Clients, NEW t \in Timers, Cancel(c, t)
      PROVE  NoLostWakeup' /\ TickledIsAlert'
  BY <1>4, <1>a DEF Cancel, NoLostWakeup, TickledIsAlert, Covered, Alert, clientVars, loopVars
<1>5. ASSUME NEW c \in Clients, NEW t \in Timers, Refresh(c, t)
      PROVE  NoLostWakeup' /\ TickledIsAlert'
  <2>1. Alert' = Alert /\ m_tickled' = m_tickled
    BY <1>5 DEF Refresh, Alert, clientVars, loopVars
  <2>2. \A e \in m_timers : Covered(e)' \/ Alert'
    BY <1>5, <1>a, <2>1 DEF Refresh, NoLostWakeup, Covered, loopVars
  <2>3. /\ Entry(t) \in m_timers /\ Entry(t)[1] = m_next[t]
        /\ m_next[t] \in Nat /\ m_next[t] <= clock + m_ms[t]
        /\ clock + m_ms[t] \in Nat
    BY <1>5, <1>a DEF Refresh, Entry, StartsInPast, TypeOK
  <2>4. Covered(<<clock + m_ms[t], t>>)' \/ Alert'
    BY <1>5, <1>a, <2>2, <2>3 DEF Covered, Never, TypeOK, Refresh, loopVars
  <2> QED BY <1>5, <1>a, <2>1, <2>2, <2>4 DEF Refresh, NoLostWakeup, TickledIsAlert, Covered
<1>6. ASSUME NEW c \in Clients, NEW t \in Timers, NEW ms \in Durations,
             NEW f \in BOOLEAN, Reset(c, t, ms, f)
      PROVE  NoLostWakeup' /\ TickledIsAlert'
  <2>1. ResetStart(t, f) + ms \in Nat /\ cpc[c] # "notify"
    BY <1>6, <1>a DEF Reset, ResetStart, IndexInv, StartNotNegative, TypeOK
  <2>2. /\ addTimerLocked(c, ResetStart(t, f) + ms, t, m_timers \ {Entry(t)})
        /\ UNCHANGED <<pipe, pc, promised>>
    BY <1>6 DEF Reset, loopVars
  <2> QED BY <2>1, <2>2, <1>a, InsertionCovered DEF NoLostWakeup
<1>7. ASSUME NEW w \in Threads, GetNextTimer(w) PROVE NoLostWakeup' /\ TickledIsAlert'
  <2>1. ~m_tickled' /\ m_timers' = m_timers /\ pc'[w] = "sleep"
    BY <1>7, <1>a DEF GetNextTimer, timerVars, TypeOK
  <2>2. ASSUME NEW e \in m_timers PROVE Covered(e)'
    <3>1. PICK b \in m_timers : /\ \A g \in m_timers : Before(b[1], b[2], g)
                               /\ promised' = [promised EXCEPT ![w] = b[1]]
      BY <1>7, <2>2 DEF GetNextTimer
    <3>2. b[1] <= e[1] /\ b[1] \in Nat
      BY <3>1, <1>a DEF Before, TypeOK, Entries
    <3>3. promised'[w] = b[1]
      BY <3>1, <1>a DEF TypeOK
    <3> QED BY <2>1, <3>2, <3>3 DEF Covered, Never
  <2> QED BY <2>1, <2>2 DEF NoLostWakeup, TickledIsAlert
<1>8. ASSUME NEW w \in Threads,
             \/ EpollReturn(w) \/ CheckEmpty(w) \/ ListExpiredCb(w)
             \/ ListExpiredCbEmpty(w) \/ Drain(w) \/ EnterIdle(w)
      PROVE  NoLostWakeup' /\ TickledIsAlert'
  <2>1. pc'[w] # "sleep"
    BY <1>8, <1>a DEF EpollReturn, CheckEmpty, ListExpiredCb, ListExpiredCbEmpty,
       Drain, EnterIdle, loopVars, TypeOK
  <2> QED BY <2>1 DEF NoLostWakeup, TickledIsAlert, Alert
<1>9. ASSUME ProbeNextTimer \/ Tick \/ StepBack PROVE NoLostWakeup' /\ TickledIsAlert'
  BY <1>9, <1>a DEF ProbeNextTimer, Tick, StepBack, NoLostWakeup, TickledIsAlert,
     Covered, Alert, timerVars, clientVars, loopVars
<1> QED BY <1>1, <1>2, <1>3, <1>4, <1>5, <1>6, <1>7, <1>8, <1>9
        DEF Next, ClientStep, LoopStep

\* The inductive invariant of a clock that does not step back.
LEMMA WakeupInvariant == ~ClockMayStepBack /\ Spec => []WakeupInv
<1> SUFFICES ASSUME ~ClockMayStepBack PROVE Spec => []WakeupInv
  OBVIOUS
<1>1. Init /\ IndexInv => WakeupInv
  BY TimerAssumption DEF Init, WakeupInv, StartsInPast, TickledIsAlert, NoLostWakeup
<1>2. WakeupInv /\ IndexInv' /\ [Next]_vars => WakeupInv'
  <2> SUFFICES ASSUME WakeupInv, IndexInv', [Next]_vars PROVE WakeupInv'
    OBVIOUS
  <2>1. CASE Next
    BY <2>1, PastStep, WakeStep DEF WakeupInv
  <2>2. CASE UNCHANGED vars
    BY <2>2 DEF WakeupInv, StartsInPast, TickledIsAlert, NoLostWakeup, Covered, Alert,
       vars, timerVars, clientVars, loopVars
  <2> QED BY <2>1, <2>2
<1> QED BY <1>1, <1>2, IndexInvariant, PTL DEF Spec

\* With a clock that does not step back, every pending timer always has a thread
\* that sleeps no longer than its deadline, or someone about to look at it.
THEOREM WakeupNotLost == ~ClockMayStepBack /\ Spec => []NoLostWakeup
<1>1. WakeupInv => NoLostWakeup
  BY DEF WakeupInv
<1> QED BY <1>1, WakeupInvariant, PTL

-----------------------------------------------------------------------------
(* NoEarlyFire                                                               *)

\* No thread is delayed by more than Hour between its read of the clock and the
\* lock of listExpiredCb.
Prompt == \A w \in Threads : pc[w] = "expire" => clock <= now_ms[w] + Hour

\* With a clock that does not step back and threads that are prompt, what
\* listExpiredCb collects is due: in particular detectClockRollover never takes
\* another thread's later reading for a rollover and expires everything
\* (timer.cpp:151-187, 202-214).
THEOREM NothingFiresEarly == ~ClockMayStepBack /\ Spec /\ []Prompt => NoEarlyFire
<1> SUFFICES ASSUME ~ClockMayStepBack PROVE Spec /\ []Prompt => NoEarlyFire
  OBVIOUS
<1> DEFINE Due == \A w \in Threads, e \in m_timers :
                    (pc[w] = "expire" /\ pc'[w] = "drain" /\ e[2] \in cbs'[w])
                       => e[1] <= clock
<1>1. WakeupInv /\ Prompt /\ [Next]_vars => [Due]_vars
  <2> SUFFICES ASSUME WakeupInv, Prompt, Next,
                      NEW w \in Threads, NEW e \in m_timers,
                      pc[w] = "expire", pc'[w] = "drain", e[2] \in cbs'[w]
               PROVE  e[1] <= clock
    OBVIOUS
  <2>a. TypeOK /\ ArmedIndexed /\ StartsInPast
    BY DEF WakeupInv, IndexInv
  <2>1. ASSUME NEW u \in Threads, LoopStep(u) PROVE ListExpiredCb(w)
    BY <2>1, <2>a DEF LoopStep, GetNextTimer, EpollReturn, CheckEmpty, ListExpiredCbEmpty,
       ListExpiredCb, Drain, EnterIdle, loopVars, TypeOK
  <2>2. ListExpiredCb(w)
    BY <2>1 DEF Next, ClientStep, NewTimer, InsertTimer, onTimerInsertedAtFront, Cancel,
       Refresh, Reset, ProbeNextTimer, Tick, StepBack, loopVars
  <2>3. e[2] \in ExpiredTimers(w)
    BY <2>2, <2>a DEF ListExpiredCb, TypeOK
  <2>4. PICK f \in Expired(w) : f[2] = e[2]
    BY <2>3 DEF ExpiredTimers
  <2>5. f \in m_timers
    BY <2>4 DEF Expired
  <2>6. f[1] = e[1]
    BY <2>4, <2>5, <2>a DEF ArmedIndexed
  <2>7. ~Rollover(w)
    BY <2>a, TimerAssumption DEF Prompt, Rollover, StartsInPast, TypeOK
  <2>8. f[1] <= now_ms[w] /\ f[1] \in Nat
    BY <2>4, <2>5, <2>7, <2>a DEF Expired, TypeOK, Entries
  <2>9. now_ms[w] <= clock /\ now_ms[w] \in Nat /\ clock \in Nat
    BY <2>a DEF StartsInPast, TypeOK
  <2> QED BY <2>6, <2>8, <2>9
<1> HIDE DEF Due
<1>2. [][Due]_vars => NoEarlyFire
  BY DEF Due, NoEarlyFire
<1> QED BY <1>1, <1>2, WakeupInvariant, PTL DEF Spec
===============================================================================
