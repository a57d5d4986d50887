---------------------------- MODULE FutureProofs -----------------------------
(***************************************************************************)
(* The safety properties of Future for any number of getters and awaiters, *)
(* and its refinement of Promise.                                          *)
(***************************************************************************)
EXTENDS Future, TLAPS

\* What the helper brings to the channel is the outcome, and a reader that
\* has not returned has not been answered.
Progressing ==
  /\ \A a \in Awaiter : helper[a] = "send" => done /\ carried[a] = outcome
  /\ \A r \in Reader : pc[r] # "returned" => answer[r] = Nil

Inv == TypeOK /\ AnswersAgree /\ NoSleeperOnceReached /\ Progressing

\* wokenUp_ is set only by an await that has timed out, and a helper closes its
\* channel on a caller that still selects only because it found the flag set.
InterruptedBy(a) == \E b \in Awaiter \ {a} : answer[b] = Timeout
FlagIsInterrupt ==
  /\ wokenUp => \E b \in Awaiter : answer[b] = Timeout
  /\ \A a \in Awaiter :
       /\ pc[a] = "idle" => helper[a] = "none"
       /\ pc[a] = "select" /\ helper[a] \in {"close", "closed"} => InterruptedBy(a)

------------------------------------------------------------------------------
LEMMA WokenRange ==
  ASSUME NEW S, NEW s \in S, "woken" \in S
  PROVE  Woken(s) \in S
BY DEF Woken

LEMMA InitInv == Init => Inv
BY ValueAssumption
DEF Init, Inv, TypeOK, AnswersAgree, NoSleeperOnceReached, Progressing,
    Reader, GetterState, CallerState, HelperState

\* Every step of Future preserves the inductive invariant.
LEMMA NextInv == Inv /\ [Next]_vars => Inv'
<1> SUFFICES ASSUME Inv, [Next]_vars PROVE Inv'
  OBVIOUS
<1> USE ValueAssumption DEF Inv, TypeOK, AnswersAgree, NoSleeperOnceReached,
        Progressing, Reader, GetterState, CallerState, HelperState
<1>1. ASSUME NEW v \in Value, Reach(v) PROVE Inv'
  <2>1. TypeOK'
    BY <1>1 DEF Reach, Broadcast, Woken
  <2>2. AnswersAgree' /\ NoSleeperOnceReached' /\ Progressing'
    BY <1>1, <2>1 DEF Reach, Broadcast, Woken
  <2>3. QED
    BY <2>1, <2>2
<1>2. ASSUME NEW g \in Getter, Get(g) PROVE Inv'
  BY <1>2 DEF Get, Return
<1>3. ASSUME NEW a \in Awaiter, Await(a) PROVE Inv'
  BY <1>3 DEF Await
<1>4. ASSUME NEW a \in Awaiter, MaybeGetEnter(a) PROVE Inv'
  <2> USE <1>4 DEF MaybeGetEnter, CheckDone
  <2>1. CASE done
    <3>1. TypeOK'
      <4>1. done' \in BOOLEAN /\ outcome' \in Value \cup {Nil} /\ wokenUp' \in BOOLEAN
        BY <2>1
      <4>2. done' <=> outcome' # Nil
        BY <2>1
      <4>3. helper' \in [Awaiter -> HelperState]
        BY <2>1
      <4>4. carried' \in [Awaiter -> Value \cup {Nil}]
        BY <2>1
      <4>5. UNCHANGED <<pc, answer>>
        BY <2>1
      <4> HIDE DEF AnswersAgree, NoSleeperOnceReached, Progressing
      <4>6. QED
        BY <4>1, <4>2, <4>3, <4>4, <4>5
    <3>2. AnswersAgree' /\ NoSleeperOnceReached' /\ Progressing'
      BY <2>1
    <3>3. QED
      BY <3>1, <3>2
  <2>2. CASE ~done
    BY <2>2
  <2>3. QED
    BY <2>1, <2>2
<1>5. ASSUME NEW a \in Awaiter, MaybeGetWake(a) PROVE Inv'
  <2> USE <1>5 DEF MaybeGetWake, CheckDone
  <2>1. CASE wokenUp
    BY <2>1
  <2>2. CASE ~wokenUp /\ done
    BY <2>2
  <2>3. CASE ~wokenUp /\ ~done
    BY <2>3
  <2>4. QED
    BY <2>1, <2>2, <2>3
<1>6. ASSUME NEW a \in Awaiter, CloseChannel(a) PROVE Inv'
  BY <1>6 DEF CloseChannel
<1>7. ASSUME NEW a \in Awaiter, Deliver(a) PROVE Inv'
  BY <1>7 DEF Deliver, Return
<1>8. ASSUME NEW a \in Awaiter, ReceiveClosed(a) PROVE Inv'
  BY <1>8 DEF ReceiveClosed
<1>9. ASSUME NEW a \in Awaiter, TimerFires(a) PROVE Inv'
  BY <1>9 DEF TimerFires
<1>10. ASSUME NEW a \in Awaiter, Interrupt(a) PROVE Inv'
  <2>1. TypeOK'
    BY <1>10 DEF Interrupt, Woken
  <2>2. AnswersAgree' /\ NoSleeperOnceReached' /\ Progressing'
    BY <1>10, <2>1 DEF Interrupt, Woken
  <2>3. QED
    BY <2>1, <2>2
<1>11. CASE UNCHANGED vars
  BY <1>11 DEF vars
<1> QED
  BY <1>1, <1>2, <1>3, <1>4, <1>5, <1>6, <1>7, <1>8, <1>9, <1>10, <1>11
  DEF Next, HelperStep, CallerStep

LEMMA Invariance == Spec => []Inv
<1>1. Inv /\ [Next]_vars => Inv'
  BY NextInv
<1> QED
  BY <1>1, InitInv, PTL DEF Spec

\* Type correctness of future.go's state.
THEOREM FutureTypeOK == Spec => []TypeOK
<1>1. Inv => TypeOK
  BY DEF Inv
<1> QED
  BY <1>1, Invariance, PTL

\* All readers of a future agree on its outcome (lines 36-70, 108-118).
THEOREM FutureAnswersAgree == Spec => []AnswersAgree
<1>1. Inv => AnswersAgree
  BY DEF Inv
<1> QED
  BY <1>1, Invariance, PTL

\* No wake-up is lost, for any number of getters and awaiters sharing the one
\* condition variable and the one wokenUp_ flag.
THEOREM FutureNoLostWakeup == Spec => []NoSleeperOnceReached
<1>1. Inv => NoSleeperOnceReached
  BY DEF Inv
<1> QED
  BY <1>1, Invariance, PTL

------------------------------------------------------------------------------
LEMMA FlagIsInterruptStep ==
  ASSUME Inv, FlagIsInterrupt /\ PanicsOnlyWhenShared, [Next]_vars
  PROVE  (FlagIsInterrupt /\ PanicsOnlyWhenShared)'
<1> USE ValueAssumption
    DEF Inv, TypeOK, Progressing, FlagIsInterrupt, PanicsOnlyWhenShared,
        InterruptedBy, Reader,
        GetterState, CallerState, HelperState
<1>1. ASSUME NEW v \in Value, Reach(v)
      PROVE (FlagIsInterrupt /\ PanicsOnlyWhenShared)'
  BY <1>1 DEF Reach, Broadcast, Woken
<1>2. ASSUME NEW g \in Getter, Get(g)
      PROVE (FlagIsInterrupt /\ PanicsOnlyWhenShared)'
  BY <1>2 DEF Get, Return
<1>3. ASSUME NEW a \in Awaiter, Await(a)
      PROVE (FlagIsInterrupt /\ PanicsOnlyWhenShared)'
  BY <1>3 DEF Await
<1>4. ASSUME NEW a \in Awaiter, HelperStep(a)
      PROVE (FlagIsInterrupt /\ PanicsOnlyWhenShared)'
  <2>1. CASE MaybeGetEnter(a)
    BY <2>1 DEF MaybeGetEnter, CheckDone
  <2>2. CASE MaybeGetWake(a)
    <3> USE <2>2 DEF MaybeGetWake, CheckDone
    <3>1. CASE wokenUp
      BY <3>1
    <3>2. CASE ~wokenUp
      BY <3>2
    <3>3. QED
      BY <3>1, <3>2
  <2>3. CASE CloseChannel(a)
    BY <2>3 DEF CloseChannel
  <2>4. QED
    BY <1>4, <2>1, <2>2, <2>3 DEF HelperStep
<1>5. ASSUME NEW a \in Awaiter, CallerStep(a)
      PROVE (FlagIsInterrupt /\ PanicsOnlyWhenShared)'
  <2>1. CASE Deliver(a)
    BY <2>1 DEF Deliver, Return
  <2>2. CASE ReceiveClosed(a)
    BY <2>2 DEF ReceiveClosed
  <2>3. CASE TimerFires(a)
    BY <2>3 DEF TimerFires
  <2>4. CASE Interrupt(a)
    BY <2>4 DEF Interrupt, Woken
  <2>5. QED
    BY <1>5, <2>1, <2>2, <2>3, <2>4 DEF CallerStep
<1>6. CASE UNCHANGED vars
  BY <1>6 DEF vars
<1>7. QED
  BY <1>1, <1>2, <1>3, <1>4, <1>5, <1>6 DEF Next

\* PanicsOnlyWhenShared, for any number of getters and awaits: a caller panics
\* on a closed channel only beside another await that has timed out.
THEOREM FuturePanicsOnlyWhenShared == Spec => []PanicsOnlyWhenShared
<1>1. Init => FlagIsInterrupt /\ PanicsOnlyWhenShared
  BY DEF Init, FlagIsInterrupt, PanicsOnlyWhenShared, Reader
<1>2. Inv /\ FlagIsInterrupt /\ PanicsOnlyWhenShared /\ [Next]_vars
        => (FlagIsInterrupt /\ PanicsOnlyWhenShared)'
  BY FlagIsInterruptStep
<1>3. QED
  BY <1>1, <1>2, Invariance, PTL DEF Spec

\* Where a future is awaited once, as in callJson, the only caller of
\* AwaitFutureOrTimeout, no caller panics.
THEOREM FutureAwaitNeverPanics ==
  ASSUME \A a, b \in Awaiter : a = b
  PROVE  Spec => [](\A a \in Awaiter : pc[a] # "panicked")
<1>1. PanicsOnlyWhenShared => \A a \in Awaiter : pc[a] # "panicked"
  BY DEF PanicsOnlyWhenShared
<1>2. QED
  BY <1>1, FuturePanicsOnlyWhenShared, PTL

------------------------------------------------------------------------------
\* Every step of Future is a step of Promise or leaves its variables alone.
LEMMA StepRefines == Inv /\ [Next]_vars => [Abstract!Next]_<<outcome, answer>>
<1> SUFFICES ASSUME Inv, [Next]_vars
             PROVE  [Abstract!Next]_<<outcome, answer>>
  OBVIOUS
<1> USE ValueAssumption DEF Inv, TypeOK, Progressing, Reader, Abstract!Next
<1>1. ASSUME NEW v \in Value, Reach(v) PROVE Abstract!Settle(v)
  BY <1>1 DEF Reach, Abstract!Settle
<1>2. ASSUME NEW g \in Getter, Get(g)
      PROVE Abstract!Tell(g) \/ UNCHANGED <<outcome, answer>>
  BY <1>2 DEF Get, Return, Abstract!Tell
<1>3. ASSUME NEW a \in Awaiter, Deliver(a) PROVE Abstract!Tell(a)
  BY <1>3 DEF Deliver, Return, Abstract!Tell
<1>4. ASSUME NEW a \in Awaiter, Interrupt(a) PROVE Abstract!GiveUp(a)
  BY <1>4 DEF Interrupt, Abstract!GiveUp
<1>5. ASSUME NEW a \in Awaiter,
             Await(a) \/ HelperStep(a) \/ ReceiveClosed(a) \/ TimerFires(a)
      PROVE UNCHANGED <<outcome, answer>>
  BY <1>5 DEF Await, HelperStep, MaybeGetEnter, MaybeGetWake, CloseChannel,
              ReceiveClosed, TimerFires
<1>6. CASE UNCHANGED vars
  BY <1>6 DEF vars
<1>7. QED
  BY <1>1, <1>2, <1>3, <1>4, <1>5, <1>6 DEF Next, CallerStep

\* Future implements Promise.
THEOREM FutureImplementsPromise == Spec => ImplementsPromise
<1>1. Init => Abstract!Init
  BY DEF Init, Abstract!Init, Reader
<1>2. Inv /\ [Next]_vars => [Abstract!Next]_<<outcome, answer>>
  BY StepRefines
<1>3. QED
  BY <1>1, <1>2, Invariance, PTL DEF Spec, Abstract!Spec, ImplementsPromise
==============================================================================
