------------------------------- MODULE Future --------------------------------
(***************************************************************************)
(* core/future.go: a single-assignment cell guarded by a mutex and a       *)
(* condition variable.  Getters block in Get; Awaiters call                *)
(* AwaitFutureOrTimeout, which runs MaybeGet in a helper goroutine and     *)
(* selects between the helper's unbuffered channel and a timer.            *)
(*                                                                         *)
(* Every method holds the mutex from its first to its last line and takes  *)
(* no other lock, so it is one step, except that cv.Wait() releases the    *)
(* mutex: a waiting thread continues in a step of its own once a Broadcast *)
(* has woken it.  sync.Cond never wakes a thread without a Broadcast.      *)
(***************************************************************************)
CONSTANTS
  Value,    (* Outcomes: a value_ and err_ pair, as Reach is given it. *)
  Getter,   (* Threads that call Get.                                  *)
  Awaiter,  (* Threads that call AwaitFutureOrTimeout.                 *)
  Nil,      (* No outcome.                                             *)
  Timeout   (* The (false, default, nil) answer of a timed-out await.  *)

ASSUME ValueAssumption ==
  /\ Nil \notin Value
  /\ Timeout \notin Value
  /\ Nil # Timeout
  /\ Getter \cap Awaiter = {}

VARIABLES
  done,     (* done_                                                  *)
  outcome,  (* value_ and err_, Nil before the first Reach            *)
  wokenUp,  (* wokenUp_                                               *)
  pc,       (* Where each Getter, and each caller of an await, stands *)
  helper,   (* Where the helper goroutine of each await stands        *)
  carried,  (* What the helper's MaybeGet returned                    *)
  answer    (* What each call returned                                *)

vars == <<done, outcome, wokenUp, pc, helper, carried, answer>>

Reader == Getter \cup Awaiter

GetterState == {"idle", "waiting", "woken", "returned"}
CallerState == {"idle", "select", "interrupt", "returned", "panicked"}
HelperState == {"none", "start", "waiting", "woken", "send", "close", "closed"}

Init ==
  /\ done = FALSE
  /\ outcome = Nil
  /\ wokenUp = FALSE
  /\ pc = [r \in Reader |-> "idle"]
  /\ helper = [a \in Awaiter |-> "none"]
  /\ carried = [a \in Awaiter |-> Nil]
  /\ answer = [r \in Reader |-> Nil]

Woken(s) == IF s = "waiting" THEN "woken" ELSE s

\* f.cv.Broadcast()
Broadcast ==
  /\ pc' = [r \in Reader |-> Woken(pc[r])]
  /\ helper' = [a \in Awaiter |-> Woken(helper[a])]

\* Deviations of Reach, to try the properties on: done_ set before value_ and
\* err_; a second call overwrites the first; Signal in place of Broadcast;
\* wokenUp_ left set.
ReachDoneFirst(v) ==
  /\ ~done
  /\ done' = TRUE
  /\ UNCHANGED <<outcome, wokenUp, pc, helper, carried, answer>>

ReachAgain(v) ==
  /\ outcome' = v
  /\ wokenUp' = FALSE
  /\ done' = TRUE
  /\ Broadcast
  /\ UNCHANGED <<carried, answer>>

ReachSignals(v) ==
  /\ ~done
  /\ outcome' = v
  /\ wokenUp' = FALSE
  /\ done' = TRUE
  /\ \E r \in Reader : pc' = [pc EXCEPT ![r] = Woken(@)]
  /\ UNCHANGED <<helper, carried, answer>>

ReachKeepsInterrupt(v) ==
  /\ ~done
  /\ outcome' = v
  /\ wokenUp' = TRUE
  /\ done' = TRUE
  /\ Broadcast
  /\ UNCHANGED <<carried, answer>>

\* Complete and Fail only call Reach, which ignores every call but the first.
Reach(v) ==
  /\ ~done
  /\ outcome' = v
  /\ wokenUp' = FALSE
  /\ done' = TRUE
  /\ Broadcast
  /\ UNCHANGED <<carried, answer>>

Return(r, v) ==
  /\ pc' = [pc EXCEPT ![r] = "returned"]
  /\ answer' = [answer EXCEPT ![r] = v]

\* Get up to the first Wait, and from every return of Wait to the next one.
Get(g) ==
  /\ pc[g] \in {"idle", "woken"}
  /\ \/ done /\ Return(g, outcome)
     \/ ~done /\ pc' = [pc EXCEPT ![g] = "waiting"] /\ UNCHANGED answer
  /\ UNCHANGED <<done, outcome, wokenUp, helper, carried>>

\* AwaitFutureOrTimeout starts its helper and enters the select.
Await(a) ==
  /\ pc[a] = "idle"
  /\ pc' = [pc EXCEPT ![a] = "select"]
  /\ helper' = [helper EXCEPT ![a] = "start"]
  /\ UNCHANGED <<done, outcome, wokenUp, carried, answer>>

\* The loop head of MaybeGet: return the outcome, or wait.
CheckDone(a) ==
  \/ /\ done
     /\ helper' = [helper EXCEPT ![a] = "send"]
     /\ carried' = [carried EXCEPT ![a] = outcome]
  \/ /\ ~done
     /\ helper' = [helper EXCEPT ![a] = "waiting"]
     /\ UNCHANGED carried

MaybeGetEnter(a) ==
  /\ helper[a] = "start"
  /\ wokenUp' = FALSE
  /\ CheckDone(a)
  /\ UNCHANGED <<done, outcome, pc, answer>>

MaybeGetWake(a) ==
  /\ helper[a] = "woken"
  /\ \/ /\ wokenUp
        /\ wokenUp' = FALSE
        /\ helper' = [helper EXCEPT ![a] = "close"]
        /\ UNCHANGED carried
     \/ /\ ~wokenUp
        /\ CheckDone(a)
        /\ UNCHANGED wokenUp
  /\ UNCHANGED <<done, outcome, pc, answer>>

\* The rendezvous of "doneCh <- ..." with the receiving case of the select.
Deliver(a) ==
  /\ helper[a] = "send"
  /\ pc[a] = "select"
  /\ helper' = [helper EXCEPT ![a] = "close"]
  /\ Return(a, carried[a])
  /\ UNCHANGED <<done, outcome, wokenUp, carried>>

CloseChannel(a) ==
  /\ helper[a] = "close"
  /\ helper' = [helper EXCEPT ![a] = "closed"]
  /\ UNCHANGED <<done, outcome, wokenUp, pc, carried, answer>>

\* A receive from the closed channel yields a nil slice, and result[0] panics.
ReceiveClosed(a) ==
  /\ helper[a] = "closed"
  /\ pc[a] = "select"
  /\ pc' = [pc EXCEPT ![a] = "panicked"]
  /\ UNCHANGED <<done, outcome, wokenUp, helper, carried, answer>>

\* The select may take the timer even when the helper is ready to send.
TimerFires(a) ==
  /\ pc[a] = "select"
  /\ pc' = [pc EXCEPT ![a] = "interrupt"]
  /\ UNCHANGED <<done, outcome, wokenUp, helper, carried, answer>>

\* Deviation of Interrupt: the caller joins the helper before it interrupts it.
JoinThenInterrupt(a) ==
  /\ pc[a] = "interrupt"
  /\ helper[a] = "closed"
  /\ wokenUp' = TRUE
  /\ pc' = [pc EXCEPT ![a] = "returned"]
  /\ answer' = [answer EXCEPT ![a] = Timeout]
  /\ UNCHANGED <<done, outcome, helper, carried>>

\* f.Interrupt() and the return of (false, default, nil).
Interrupt(a) ==
  /\ pc[a] = "interrupt"
  /\ wokenUp' = TRUE
  /\ helper' = [b \in Awaiter |-> Woken(helper[b])]
  /\ pc' = [r \in Reader |-> IF r = a THEN "returned" ELSE Woken(pc[r])]
  /\ answer' = [answer EXCEPT ![a] = Timeout]
  /\ UNCHANGED <<done, outcome, carried>>

HelperStep(a) == MaybeGetEnter(a) \/ MaybeGetWake(a) \/ CloseChannel(a)
CallerStep(a) == Deliver(a) \/ ReceiveClosed(a) \/ TimerFires(a) \/ Interrupt(a)

Next ==
  \/ \E v \in Value : Reach(v)
  \/ \E g \in Getter : Get(g)
  \/ \E a \in Awaiter : Await(a) \/ HelperStep(a) \/ CallerStep(a)

\* Threads that can run do run, and the timer of a select fires.  Nobody is
\* obliged to call Reach, Get or AwaitFutureOrTimeout.
Fairness ==
  /\ \A g \in Getter : WF_vars(pc[g] = "woken" /\ Get(g))
  /\ \A a \in Awaiter : WF_vars(HelperStep(a)) /\ WF_vars(CallerStep(a))

Spec == Init /\ [][Next]_vars
FairSpec == Spec /\ Fairness

------------------------------------------------------------------------------
\* The ranges of the variables; a future is done exactly when it has an
\* outcome, as Peek, Get and MaybeGet take for granted.
TypeOK ==
  /\ done \in BOOLEAN
  /\ outcome \in Value \cup {Nil}
  /\ done <=> outcome # Nil
  /\ wokenUp \in BOOLEAN
  /\ pc \in [Reader -> GetterState \cup CallerState]
  /\ \A g \in Getter : pc[g] \in GetterState
  /\ \A a \in Awaiter : pc[a] \in CallerState
  /\ helper \in [Awaiter -> HelperState]
  /\ carried \in [Awaiter -> Value \cup {Nil}]
  /\ answer \in [Reader -> Value \cup {Nil, Timeout}]

\* Whoever was given an outcome was given the one the future holds, and holds
\* for good: Get, and an await answered through its helper, cannot disagree
\* even when several threads call Complete and Fail (lines 36-70, 108-118).
AnswersAgree == \A r \in Reader : answer[r] \in Value => answer[r] = outcome

\* No lost wake-up: once the future is reached nobody sleeps on its condition
\* variable, although Reach, Interrupt and the waiters share one wokenUp_ flag
\* and one cv (lines 42-45, 65-67, 76-84).
NoSleeperOnceReached ==
  done => /\ \A g \in Getter : pc[g] # "waiting"
          /\ \A a \in Awaiter : helper[a] # "waiting"

\* The caller of an await reads result[0] out of a channel that its helper has
\* closed without a value (lines 109-112) only where the interrupt of another
\* await, that has timed out on the same future, has ended the helper: never
\* where a future is awaited once, as callJson does.
PanicsOnlyWhenShared ==
  \A a \in Awaiter : pc[a] = "panicked" => \E b \in Awaiter \ {a} : answer[b] = Timeout

\* Future implements Promise: the cell is the outcome, the answers are what
\* Get and AwaitFutureOrTimeout returned.
Abstract == INSTANCE Promise WITH cell <- outcome
ImplementsPromise == Abstract!Spec

\* A blocked Get returns once the future is reached (lines 61-70).
GetReturns ==
  \A g \in Getter :
    (pc[g] \in {"waiting", "woken"} /\ done) ~> pc[g] = "returned"

\* AwaitFutureOrTimeout always comes to its end, reached or not (lines 97-127).
AwaitReturns == \A a \in Awaiter : pc[a] = "select" ~> pc[a] \in {"returned", "panicked"}

\* The comment at line 101: the helper sends only "if we didn't time out,
\* since if we did there'd be no one receiving so we'd block forever".
SendsOnlyToAReceiver ==
  \A a \in Awaiter : helper[a] = "send" => pc[a] = "select"
==============================================================================
