--------------------------- MODULE SessionsProofs ----------------------------
(***************************************************************************)
(* What is proved of the JSON-RPC client and of the session without the    *)
(* daemon: of the client its type invariant and what its pending map       *)
(* holds, of the session that a command ends after its jobs.               *)
(***************************************************************************)
EXTENDS MCSessions, SequenceTheorems, TLAPS

------------------------------------------------------------------------------
(* The client *)

\* The listener hands over to a call, and to nobody else.
KnowsItsCall == listener.at \in {"lock", "send"} => listener.call \in Caller

Inv == TypeOK /\ KnowsItsCall /\ PendingIsInProgress

LEMMA InitInv == Init => Inv
<1> SUFFICES ASSUME Init PROVE Inv
  OBVIOUS
<1>1. inbox \in [Caller -> 0 .. Capacity] /\ pc \in [Caller -> {"idle"}]
  BY DEF Init, Capacity
<1>2. TypeOK
  BY <1>1, ApiClientAssumption DEF Init, TypeOK
<1>3. KnowsItsCall /\ PendingIsInProgress
  BY DEF Init, KnowsItsCall, PendingIsInProgress
<1>4. QED
  BY <1>2, <1>3 DEF Inv

\* A caller's steps change its own place, and with it its own entry.
LEMMA CallerStepInv == ASSUME Inv, NEW c \in Caller, CallerStep(c) PROVE Inv'
<1> USE ApiClientAssumption DEF Inv, TypeOK, KnowsItsCall, PendingIsInProgress, Capacity, Goto
<1>1. CASE Register(c)
  BY <1>1 DEF Register
<1>2. CASE Write(c)
  BY <1>2 DEF Write
<1>3. CASE Receive(c)
  BY <1>3 DEF Receive
<1>4. CASE Timeout(c)
  BY <1>4 DEF Timeout
<1>5. CASE CleanUp(c)
  BY <1>5 DEF CleanUp
<1>6. CASE AddJob(c)
  BY <1>6 DEF AddJob
<1>7. CASE UserCloses(c)
  <2>1. CASE isClosed
    BY <1>7, <2>1 DEF UserCloses, CloseBy, Returned
  <2>2. CASE ~isClosed
    <3>1. /\ pc[c] \in {"ok", "error"} /\ mu = Free
          /\ pc' = [pc EXCEPT ![c] = "closing"] /\ mu' = c /\ isClosed' = TRUE
          /\ UNCHANGED <<pending, inbox, listener, conn, wire, job>>
      BY <1>7, <2>2 DEF UserCloses, CloseBy, Returned
    <3>2. TypeOK'
      BY <3>1
    <3>3. QED
      BY <3>1, <3>2
  <2>3. QED
    BY <2>1, <2>2
<1>8. CASE UserClosed(c)
  BY <1>8 DEF UserClosed, CloseFrame
<1>9. CASE AddOwnedJob(c)
  BY <1>9 DEF AddOwnedJob
<1>10. QED
  BY <1>1, <1>2, <1>3, <1>4, <1>5, <1>6, <1>7, <1>8, <1>9 DEF CallerStep

\* The listener takes and gives back the mutex; it leaves the map alone.
LEMMA ListenerStepInv == ASSUME Inv, ListenerStep PROVE Inv'
<1> USE ApiClientAssumption DEF Inv, TypeOK, KnowsItsCall, PendingIsInProgress, Capacity, ListenAt
<1>1. CASE \E c \in Caller : ReadResponse(c)
  BY <1>1 DEF ReadResponse
<1>2. CASE \E c \in Caller : ReadUpdate(c)
  BY <1>2 DEF ReadUpdate
<1>3. CASE Lock
  BY <1>3 DEF Lock
<1>4. CASE Send
  BY <1>4 DEF Send
<1>5. CASE ReadError
  BY <1>5 DEF ReadError
<1>6. CASE ListenerCloses
  <2>1. CASE isClosed
    <3>1. /\ listener.at = "close" /\ listener' = [at |-> "stopped", call |-> Free]
          /\ UNCHANGED <<mu, pending, inbox, pc, conn, isClosed, wire, job>>
      BY <1>6, <2>1 DEF ListenerCloses, CloseBy
    <3>2. QED
      BY <3>1
  <2>2. CASE ~isClosed
    <3>1. /\ listener.at = "close" /\ listener' = [at |-> "closing", call |-> Free]
          /\ mu = Free /\ mu' = Listener /\ isClosed' = TRUE
          /\ UNCHANGED <<pending, inbox, pc, conn, wire, job>>
      BY <1>6, <2>2 DEF ListenerCloses, CloseBy
    <3>2. QED
      BY <3>1
  <2>3. QED
    BY <2>1, <2>2
<1>7. CASE ListenerClosed
  BY <1>7 DEF ListenerClosed, CloseFrame
<1>8. QED
  BY <1>1, <1>2, <1>3, <1>4, <1>5, <1>6, <1>7 DEF ListenerStep

\* A panic leaves nothing that is in progress.
LEMMA WritersMeetInv == ASSUME Inv, WritersMeet PROVE Inv'
<1>1. /\ pc' = [c \in Caller |-> "panicked"] /\ listener' = [at |-> "stopped", call |-> Free]
      /\ mu' = Free /\ pending' = {}
      /\ UNCHANGED <<inbox, conn, isClosed, wire, job>>
  BY DEF WritersMeet, ListenAt
<1>2. TypeOK'
  BY <1>1, ApiClientAssumption DEF Inv, TypeOK
<1>3. QED
  BY <1>1, <1>2 DEF Inv, KnowsItsCall, PendingIsInProgress

LEMMA HostInv == ASSUME Inv, (\E c \in Caller : Respond(c)) \/ Break PROVE Inv'
<1> USE DEF Inv, TypeOK, KnowsItsCall, PendingIsInProgress
<1>1. ASSUME NEW c \in Caller, Respond(c) PROVE Inv'
  <2>1. wire' \subseteq {"request", "response", "finished"} \X Caller
    BY <1>1 DEF Respond
  <2>2. QED
    BY <1>1, <2>1 DEF Respond
<1>2. CASE Break
  BY <1>2 DEF Break
<1>3. QED
  BY <1>1, <1>2

LEMMA NextInv == ASSUME Inv, [Next]_vars PROVE Inv'
<1>1. CASE Next
  BY <1>1, CallerStepInv, ListenerStepInv, WritersMeetInv, HostInv DEF Next
<1>2. CASE UNCHANGED vars
  BY <1>2 DEF vars, Inv, TypeOK, KnowsItsCall, PendingIsInProgress
<1>3. QED
  BY <1>1, <1>2

LEMMA Invariant == Spec => []Inv
BY InitInv, NextInv, PTL DEF Spec

\* Every variable of the client has its type, and the mutex is held only by the
\* listener while it hands over a response and by whoever is within Close.
THEOREM ClientTypeOK == Spec => []TypeOK
<1>1. Inv => TypeOK
  BY DEF Inv
<1>2. QED
  BY <1>1, Invariant, PTL

\* The pending map holds the calls in progress and no others, also after calls
\* that could not be written or timed out (Call, truenas_api.go).
THEOREM ClientPendingIsInProgress == Spec => []PendingIsInProgress
<1>1. Inv => PendingIsInProgress
  BY DEF Inv
<1>2. QED
  BY <1>1, Invariant, PTL

------------------------------------------------------------------------------
(* The session *)

Jobs == Job \cup Foreign
In(j, s) == \E k \in 1 .. Len(s) : s[k] = j
HasEnded(j) == state[j] \in R!Over \cup {"reported"}

SessionTypes ==
  /\ jobsList \in Seq(Job) /\ results \in Seq(Jobs) /\ aside \in Seq(Jobs)
  /\ state \in [Jobs -> R!Over \cup {"none", "running", "reported"}]

\* A job that runs is in the list of those to wait for, or is about to be put
\* there, or the command has failed.
Accounted ==
  \A j \in Job : state[j] = "running" =>
    \/ In(j, jobsList) \/ failed \/ thread = "panic"
    \/ thread = "jobWait" /\ current = {j}

\* A result is of a job that has ended; it may come twice or be set aside.
ResultsOfEnded ==
  /\ \A k \in 1 .. Len(results) : HasEnded(results[k])
  /\ \A k \in 1 .. Len(aside) : HasEnded(aside[k])

WaitsForListed == thread = "wait" => \E j \in Job : current = {j} /\ In(j, jobsList)
DoneIsEmpty == thread = "done" => jobsList = <<>>

SessionInv == SessionTypes /\ Accounted /\ ResultsOfEnded /\ WaitsForListed /\ DoneIsEmpty

\* Every entry but the one that is removed stays in the list, in whatever place.
LEMMA SwapRemoveKeeps ==
  ASSUME NEW S, NEW list \in Seq(S), NEW i \in 1 .. Len(list)
  PROVE  /\ R!SwapRemove(list, i) \in Seq(S)
         /\ \A j : In(j, list) /\ j # list[i] => In(j, R!SwapRemove(list, i))
<1> DEFINE swapped == [list EXCEPT ![i] = R!Last(list)]
           shorter == R!SwapRemove(list, i)
<1>1. Len(list) \in Nat /\ Len(list) >= 1 /\ R!Last(list) = list[Len(list)] /\ R!Last(list) \in S
  BY DEF R!Last
<1>2. swapped \in Seq(S) /\ Len(swapped) = Len(list)
  BY <1>1
<1>3. \A k \in 1 .. Len(list) : swapped[k] = IF k = i THEN list[Len(list)] ELSE list[k]
  BY <1>1
<1> HIDE DEF swapped
<1>4. shorter = SubSeq(swapped, 1, Len(list) - 1)
  BY DEF R!SwapRemove, swapped
<1>5. /\ shorter \in Seq(S) /\ Len(shorter) = Len(list) - 1
      /\ \A k \in 1 .. Len(list) - 1 : shorter[k] = swapped[k]
  BY <1>1, <1>2, <1>4
<1> HIDE DEF shorter
<1>6. ASSUME NEW j, In(j, list), j # list[i] PROVE In(j, shorter)
  <2>1. PICK k \in 1 .. Len(list) : list[k] = j
    BY <1>6 DEF In
  <2>2. CASE k < Len(list)
    BY <1>1, <1>3, <1>5, <1>6, <2>1, <2>2 DEF In
  <2>3. CASE k = Len(list)
    <3>1. i \in 1 .. Len(list) - 1
      BY <1>1, <1>6, <2>1, <2>3
    <3>2. QED
      BY <1>1, <1>3, <1>5, <2>1, <2>3, <3>1 DEF In
  <2>4. QED
    BY <1>1, <2>2, <2>3
<1>7. QED
  BY <1>5, <1>6 DEF shorter

LEMMA AppendHas ==
  ASSUME NEW S, NEW s \in Seq(S), NEW x \in S
  PROVE  /\ Append(s, x) \in Seq(S) /\ In(x, Append(s, x))
         /\ \A j : In(j, s) => In(j, Append(s, x))
<1>1. /\ Len(s) \in Nat /\ Len(Append(s, x)) = Len(s) + 1
      /\ Append(s, x) \in Seq(S) /\ Append(s, x)[Len(s) + 1] = x
      /\ \A k \in 1 .. Len(s) : Append(s, x)[k] = s[k]
  OBVIOUS
<1>2. QED
  BY <1>1 DEF In

LEMMA AppendEnded ==
  ASSUME NEW S, NEW s \in Seq(S), NEW x \in S, HasEnded(x),
         \A k \in 1 .. Len(s) : HasEnded(s[k])
  PROVE  \A k \in 1 .. Len(Append(s, x)) : HasEnded(Append(s, x)[k])
<1>1. /\ Len(s) \in Nat /\ Len(Append(s, x)) = Len(s) + 1
      /\ Append(s, x)[Len(s) + 1] = x
      /\ \A k \in 1 .. Len(s) : Append(s, x)[k] = s[k]
  OBVIOUS
<1>2. \A k \in 1 .. Len(s) + 1 : k = Len(s) + 1 \/ k \in 1 .. Len(s)
  BY <1>1
<1>3. QED
  BY <1>1, <1>2

LEMMA HeadAndTail ==
  ASSUME NEW S, NEW s \in Seq(S), s # <<>>, \A k \in 1 .. Len(s) : HasEnded(s[k])
  PROVE  /\ Head(s) \in S /\ Tail(s) \in Seq(S) /\ HasEnded(Head(s))
         /\ \A k \in 1 .. Len(Tail(s)) : HasEnded(Tail(s)[k])
<1>1. /\ Len(s) \in Nat \ {0} /\ Head(s) = s[1] /\ Head(s) \in S
      /\ Tail(s) \in Seq(S) /\ Len(Tail(s)) = Len(s) - 1
      /\ \A k \in 1 .. Len(s) - 1 : Tail(s)[k] = s[k + 1]
  OBVIOUS
<1>2. 1 \in 1 .. Len(s) /\ \A k \in 1 .. Len(s) - 1 : k + 1 \in 1 .. Len(s)
  BY <1>1
<1>3. QED
  BY <1>1, <1>2

LEMMA JoinedEnded ==
  ASSUME NEW S, NEW s \in Seq(S), NEW t \in Seq(S),
         \A k \in 1 .. Len(s) : HasEnded(s[k]), \A k \in 1 .. Len(t) : HasEnded(t[k])
  PROVE  s \o t \in Seq(S) /\ \A k \in 1 .. Len(s \o t) : HasEnded((s \o t)[k])
<1>1. /\ Len(s) \in Nat /\ Len(t) \in Nat /\ Len(s \o t) = Len(s) + Len(t)
      /\ s \o t \in Seq(S)
      /\ \A k \in 1 .. Len(s) + Len(t) :
           (s \o t)[k] = IF k <= Len(s) THEN s[k] ELSE t[k - Len(s)]
  OBVIOUS
<1>2. ASSUME NEW k \in 1 .. Len(s) + Len(t) PROVE HasEnded((s \o t)[k])
  <2>1. CASE k <= Len(s)
    BY <1>1, <2>1
  <2>2. CASE ~(k <= Len(s))
    <3>1. k - Len(s) \in 1 .. Len(t)
      BY <1>1, <2>2
    <3>2. QED
      BY <1>1, <2>2, <3>1
  <2>3. QED
    BY <2>1, <2>2
<1>3. QED
  BY <1>1, <1>2

\* A job that has ended stays ended.
LEMMA StaysEnded ==
  ASSUME \A j : HasEnded(j) => HasEnded(j)', ResultsOfEnded, UNCHANGED <<results, aside>>
  PROVE  ResultsOfEnded'
BY DEF ResultsOfEnded

LEMMA SessionInitInv == R!Init => SessionInv
<1> SUFFICES ASSUME R!Init PROVE SessionInv
  OBVIOUS
<1>1. SessionTypes
  BY DEF R!Init, SessionTypes, Jobs
<1>2. Accounted
  BY SessionsAssumption DEF R!Init, R!RealSessionAssumption, Accounted
<1>3. QED
  BY <1>1, <1>2 DEF R!Init, SessionInv, ResultsOfEnded, WaitsForListed, DoneIsEmpty

\* Starting a job: what fails aborts the command, or ends it at once.
LEMMA SubscribeInv == ASSUME SessionInv, R!Subscribe PROVE SessionInv'
<1>1. UNCHANGED <<jobsList, results, aside, state>>
  BY DEF R!Subscribe, R!Host
<1>2. ResultsOfEnded'
  BY <1>1, StaysEnded DEF SessionInv, HasEnded
<1>3. thread = "run" /\ (UNCHANGED <<thread, current, failed>> \/ R!Abort)
  BY DEF R!Subscribe
<1>4. QED
  BY <1>1, <1>2, <1>3
  DEF R!Abort, SessionInv, SessionTypes, Accounted, WaitsForListed, DoneIsEmpty

LEMMA MainCallInv == ASSUME SessionInv, NEW j \in Job, R!MainCall(j) PROVE SessionInv'
<1>1. /\ thread = "run" /\ state[j] = "none"
      /\ UNCHANGED <<jobsList, results, aside, failed>>
      /\ \/ thread' = "panic" /\ UNCHANGED state
         \/ state' = [state EXCEPT ![j] = "running"] /\ thread' = "jobWait" /\ current' = {j}
  BY DEF R!MainCall
<1>2. SessionTypes'
  BY <1>1 DEF SessionInv, SessionTypes, Jobs
<1>3. ResultsOfEnded'
  <2>1. ASSUME NEW x \in Jobs, HasEnded(x) PROVE HasEnded(x)'
    BY <1>1, <2>1 DEF HasEnded, SessionInv, SessionTypes, R!Over
  <2>2. results \in Seq(Jobs) /\ aside \in Seq(Jobs)
    BY DEF SessionInv, SessionTypes
  <2>3. QED
    BY <1>1, <2>1, <2>2 DEF SessionInv, ResultsOfEnded
<1>4. Accounted'
  BY <1>1 DEF SessionInv, Accounted, SessionTypes, Jobs
<1>5. QED
  BY <1>1, <1>2, <1>3, <1>4 DEF SessionInv, WaitsForListed, DoneIsEmpty

LEMMA JobWaitInv == ASSUME SessionInv, NEW j \in Job, R!JobWait(j) PROVE SessionInv'
<1>1. thread = "jobWait" /\ current = {j} /\ UNCHANGED <<results, aside, state>>
  BY DEF R!JobWait
<1>2. ResultsOfEnded'
  BY <1>1, StaysEnded DEF SessionInv, HasEnded
<1>3. CASE jobsList' = Append(jobsList, j) /\ thread' = "run" /\ UNCHANGED failed
  <2>1. jobsList' \in Seq(Job) /\ In(j, jobsList') /\ \A k : In(k, jobsList) => In(k, jobsList')
    BY <1>3, AppendHas DEF SessionInv, SessionTypes
  <2>2. Accounted'
    BY <1>1, <1>3, <2>1 DEF SessionInv, Accounted
  <2>3. QED
    BY <1>1, <1>2, <1>3, <2>1, <2>2 DEF SessionInv, SessionTypes, WaitsForListed, DoneIsEmpty
<1>4. CASE UNCHANGED jobsList /\ (R!Abort \/ thread' = "panic")
  BY <1>1, <1>2, <1>4
  DEF R!Abort, SessionInv, SessionTypes, Accounted, WaitsForListed, DoneIsEmpty
<1>5. QED
  BY <1>3, <1>4 DEF R!JobWait

LEMMA StartWaitInv == ASSUME SessionInv, NEW j \in Job, R!StartWait(j) PROVE SessionInv'
<1>1. /\ thread = "run" /\ thread' = "wait" /\ current' = {j}
      /\ UNCHANGED <<jobsList, results, aside, failed, state>>
  BY DEF R!StartWait, R!Host
<1>2. In(j, jobsList)
  BY DEF R!StartWait, R!ToSet, In, SessionInv, SessionTypes
<1>3. ResultsOfEnded'
  BY <1>1, StaysEnded DEF SessionInv, HasEnded
<1>4. QED
  BY <1>1, <1>2, <1>3 DEF SessionInv, SessionTypes, Accounted, WaitsForListed, DoneIsEmpty

\* The job whose result is taken has ended, so that its entry may go.
LEMMA RemovedInv ==
  ASSUME SessionInv, NEW j, HasEnded(j), NEW i \in 1 .. Len(jobsList), jobsList[i] = j,
         jobsList' = R!SwapRemove(jobsList, i), UNCHANGED <<failed, state>>,
         thread \in {"wait", "close"}, thread' \in {"run", "close"}
  PROVE  jobsList' \in Seq(Job) /\ Accounted'
<1>1. jobsList' \in Seq(Job) /\ \A k : In(k, jobsList) /\ k # j => In(k, jobsList')
  BY SwapRemoveKeeps DEF SessionInv, SessionTypes
<1>2. state[j] # "running"
  BY DEF HasEnded, R!Over
<1>3. QED
  BY <1>1, <1>2 DEF SessionInv, Accounted

LEMMA WaitTakeInv == ASSUME SessionInv, R!WaitTake PROVE SessionInv'
<1>1. thread = "wait" /\ results # <<>> /\ UNCHANGED <<failed, state>>
  BY DEF R!WaitTake, R!Host
<1>2. PICK j \in Job : current = {j} /\ In(j, jobsList)
  BY <1>1 DEF SessionInv, WaitsForListed
<1>3. /\ Head(results) \in Jobs /\ Tail(results) \in Seq(Jobs) /\ HasEnded(Head(results))
      /\ \A k \in 1 .. Len(Tail(results)) : HasEnded(Tail(results)[k])
  BY <1>1, HeadAndTail DEF SessionInv, SessionTypes, ResultsOfEnded
<1>4. aside \in Seq(Jobs) /\ \A k \in 1 .. Len(aside) : HasEnded(aside[k])
  BY DEF SessionInv, SessionTypes, ResultsOfEnded
<1>5. \A x : HasEnded(x)' <=> HasEnded(x)
  BY <1>1 DEF HasEnded
<1>6. CASE Head(results) \in current
  <2> DEFINE i == CHOOSE k \in DOMAIN jobsList : jobsList[k] \in current
  <2>1. i \in 1 .. Len(jobsList) /\ jobsList[i] = j
    BY <1>2 DEF In, SessionInv, SessionTypes
  <2>2. jobsList' = R!SwapRemove(jobsList, i) /\ thread' = "run"
    BY <1>6 DEF R!WaitTake
  <2> HIDE DEF i
  <2>3. jobsList' \in Seq(Job) /\ Accounted'
    BY <1>1, <1>2, <1>3, <1>6, <2>1, <2>2, RemovedInv
  <2>4. results' = Tail(results) \o aside /\ aside' = <<>>
    BY <1>6 DEF R!WaitTake
  <2>5. results' \in Seq(Jobs) /\ \A k \in 1 .. Len(results') : HasEnded(results'[k])
    BY <1>3, <1>4, <2>4, JoinedEnded
  <2>6. ResultsOfEnded'
    <3>1. \A k \in 1 .. Len(aside') : HasEnded(aside'[k])
      BY <2>4
    <3>2. QED
      BY <1>5, <2>5, <3>1 DEF ResultsOfEnded
  <2>7. QED
    BY <1>1, <2>2, <2>3, <2>4, <2>5, <2>6
    DEF SessionInv, SessionTypes, WaitsForListed, DoneIsEmpty
<1>7. CASE Head(results) \notin current
  <2>1. /\ results' = Tail(results) /\ aside' = Append(aside, Head(results))
        /\ UNCHANGED <<jobsList, thread, current>>
    BY <1>7 DEF R!WaitTake
  <2>2. aside' \in Seq(Jobs) /\ \A k \in 1 .. Len(aside') : HasEnded(aside'[k])
    BY <1>3, <1>4, <2>1, AppendEnded, AppendHas
  <2>3. ResultsOfEnded'
    BY <1>3, <1>5, <2>1, <2>2 DEF ResultsOfEnded
  <2>4. QED
    BY <1>1, <1>3, <2>1, <2>2, <2>3
    DEF SessionInv, SessionTypes, Accounted, WaitsForListed, DoneIsEmpty
<1>8. QED
  BY <1>6, <1>7

LEMMA CloseTakeInv == ASSUME SessionInv, R!CloseTake PROVE SessionInv'
<1>1. /\ thread = "close" /\ results # <<>> /\ results' = Tail(results)
      /\ UNCHANGED <<thread, current, aside, failed, state>>
  BY DEF R!CloseTake, R!Host
<1>2. /\ Head(results) \in Jobs /\ Tail(results) \in Seq(Jobs) /\ HasEnded(Head(results))
      /\ \A k \in 1 .. Len(Tail(results)) : HasEnded(Tail(results)[k])
  BY <1>1, HeadAndTail DEF SessionInv, SessionTypes, ResultsOfEnded
<1>3. ResultsOfEnded'
  BY <1>1, <1>2 DEF SessionInv, ResultsOfEnded, HasEnded
<1>4. jobsList' \in Seq(Job) /\ Accounted'
  <2>1. CASE Head(results) \in R!ToSet(jobsList)
    <3> DEFINE i == CHOOSE k \in DOMAIN jobsList : jobsList[k] = Head(results)
    <3>1. i \in 1 .. Len(jobsList) /\ jobsList[i] = Head(results)
      BY <2>1 DEF R!ToSet, SessionInv, SessionTypes
    <3>2. jobsList' = R!SwapRemove(jobsList, i)
      BY <2>1 DEF R!CloseTake
    <3> HIDE DEF i
    <3>3. QED
      BY <1>1, <1>2, <3>1, <3>2, RemovedInv
  <2>2. CASE Head(results) \notin R!ToSet(jobsList)
    BY <1>1, <2>2 DEF R!CloseTake, SessionInv, SessionTypes, Accounted
  <2>3. QED
    BY <2>1, <2>2
<1>5. QED
  BY <1>1, <1>2, <1>3, <1>4 DEF SessionInv, SessionTypes, WaitsForListed, DoneIsEmpty

LEMMA CloseInv == ASSUME SessionInv, R!StartClose \/ R!Closed PROVE SessionInv'
<1>1. /\ thread \in {"run", "close"} /\ thread' \in {"close", "done"}
      /\ thread' = "done" => jobsList = <<>>
      /\ UNCHANGED <<jobsList, results, aside, failed, state>>
  BY DEF R!StartClose, R!Closed, R!Host
<1>2. ResultsOfEnded'
  BY <1>1, StaysEnded DEF SessionInv, HasEnded
<1>3. QED
  BY <1>1, <1>2 DEF SessionInv, SessionTypes, Accounted, WaitsForListed, DoneIsEmpty

\* The host ends jobs and never starts one again.
LEMMA HostJobInv ==
  ASSUME SessionInv, NEW j \in Jobs, NEW s \in R!Over \cup {"reported"},
         state' = [state EXCEPT ![j] = s],
         UNCHANGED <<thread, current, jobsList, aside, failed>>
  PROVE  /\ \A x \in Jobs : HasEnded(x) => HasEnded(x)'
         /\ HasEnded(j)' /\ Accounted' /\ WaitsForListed' /\ DoneIsEmpty'
         /\ state' \in [Jobs -> R!Over \cup {"none", "running", "reported"}]
BY DEF SessionInv, SessionTypes, HasEnded, Accounted, WaitsForListed, DoneIsEmpty, R!Over, Jobs

LEMMA JobEndsInv ==
  ASSUME SessionInv, NEW j \in Jobs, NEW how \in R!Over, R!JobEnds(j, how) PROVE SessionInv'
<1>1. /\ state' = [state EXCEPT ![j] = how]
      /\ UNCHANGED <<thread, current, jobsList, results, aside, failed>>
  BY DEF R!JobEnds
<1>2. /\ \A x \in Jobs : HasEnded(x) => HasEnded(x)'
      /\ HasEnded(j)' /\ Accounted' /\ WaitsForListed' /\ DoneIsEmpty'
      /\ state' \in [Jobs -> R!Over \cup {"none", "running", "reported"}]
  BY <1>1, HostJobInv
<1>3. results \in Seq(Jobs) /\ aside \in Seq(Jobs)
  BY DEF SessionInv, SessionTypes
<1>4. ResultsOfEnded'
  BY <1>1, <1>2, <1>3 DEF SessionInv, ResultsOfEnded
<1>5. QED
  BY <1>1, <1>2, <1>4 DEF SessionInv, SessionTypes

LEMMA OwnUpdateInv ==
  ASSUME SessionInv, NEW j \in Jobs, R!HandleOwnUpdate(j) PROVE SessionInv'
<1>1. /\ state' = [state EXCEPT ![j] = "reported"]
      /\ UNCHANGED <<thread, current, jobsList, aside, failed>>
      /\ results' = Append(results, j) \/ results' = results
  BY DEF R!HandleOwnUpdate
<1>2. /\ \A x \in Jobs : HasEnded(x) => HasEnded(x)'
      /\ HasEnded(j)' /\ Accounted' /\ WaitsForListed' /\ DoneIsEmpty'
      /\ state' \in [Jobs -> R!Over \cup {"none", "running", "reported"}]
  BY <1>1, HostJobInv
<1>3. HasEnded(j)
  BY DEF R!HandleOwnUpdate, HasEnded
<1>4. results' \in Seq(Jobs) /\ \A k \in 1 .. Len(results') : HasEnded(results'[k])
  BY <1>1, <1>3, AppendEnded, AppendHas DEF SessionInv, SessionTypes, ResultsOfEnded
<1>5. aside \in Seq(Jobs) /\ \A k \in 1 .. Len(aside) : HasEnded(aside[k])
  BY DEF SessionInv, SessionTypes, ResultsOfEnded
<1>6. ResultsOfEnded'
  BY <1>1, <1>2, <1>4, <1>5 DEF ResultsOfEnded
<1>7. QED
  BY <1>1, <1>2, <1>4, <1>6 DEF SessionInv, SessionTypes

LEMMA WaitUpdateInv ==
  ASSUME SessionInv, NEW j \in Jobs, R!HandleWaitUpdate(j) PROVE SessionInv'
<1>1. /\ HasEnded(j)
      /\ UNCHANGED <<thread, current, jobsList, aside, failed, state>>
      /\ results' = Append(results, j) \/ results' = results
  BY DEF R!HandleWaitUpdate, HasEnded
<1>2. results' \in Seq(Jobs) /\ \A k \in 1 .. Len(results') : HasEnded(results'[k])
  BY <1>1, AppendEnded, AppendHas DEF SessionInv, SessionTypes, ResultsOfEnded
<1>3. ResultsOfEnded'
  BY <1>1, <1>2 DEF SessionInv, ResultsOfEnded, HasEnded
<1>4. QED
  BY <1>1, <1>2, <1>3 DEF SessionInv, SessionTypes, Accounted, WaitsForListed, DoneIsEmpty

LEMMA SessionNextInv == ASSUME SessionInv, R!Next PROVE SessionInv'
<1>1. CASE R!Thread
  BY <1>1, SubscribeInv, MainCallInv, JobWaitInv, StartWaitInv, WaitTakeInv, CloseTakeInv, CloseInv
  DEF R!Thread
<1>2. CASE R!Updates
  BY <1>2, OwnUpdateInv, WaitUpdateInv DEF R!Updates, Jobs
<1>3. CASE \E j \in Job \cup Foreign : R!Ends(j)
  BY <1>3, JobEndsInv DEF R!Ends, Jobs
<1>4. CASE R!Break
  BY <1>4, StaysEnded DEF R!Break, SessionInv, SessionTypes, HasEnded, Accounted,
     WaitsForListed, DoneIsEmpty
<1>5. QED
  BY <1>1, <1>2, <1>3, <1>4 DEF R!Next

LEMMA PartsNextInv == ASSUME SessionInv, [PartsNext]_allvars PROVE SessionInv'
<1>1. CASE UNCHANGED sessionvars
  <2>1. ResultsOfEnded'
    BY <1>1, StaysEnded DEF SessionInv, HasEnded, sessionvars
  <2>2. QED
    BY <1>1, <2>1 DEF sessionvars, SessionInv, SessionTypes, Accounted, WaitsForListed, DoneIsEmpty
<1>2. CASE R!Next
  BY <1>2, SessionNextInv
<1>3. QED
  BY <1>1, <1>2 DEF PartsNext, ClientPart, SessionPart, allvars

\* A command that ends without an error leaves none of its jobs running
\* (WaitForJob and Close of core/real_api.go, with results that come twice, out
\* of order and for the jobs of others).
THEOREM SessionsEndAfterTheirJobs == PartsSpec => []EndsAfterItsJobs
<1>1. PartsInit => SessionInv
  BY SessionInitInv DEF PartsInit
<1>2. SessionInv => EndsAfterItsJobs
  BY DEF SessionInv, Accounted, DoneIsEmpty, In, EndsAfterItsJobs, R!EndsAfterItsJobs
<1>3. QED
  BY <1>1, <1>2, PartsNextInv, PTL DEF PartsSpec
==============================================================================
