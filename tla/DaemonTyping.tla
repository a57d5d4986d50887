---------------------------- MODULE DaemonTyping -----------------------------
(***************************************************************************)
(* What each step of Daemon does to the records of its variables, and that *)
(* every variable keeps to its range.                                      *)
(***************************************************************************)
EXTENDS Daemon, TLAPS

\* What the goroutine of a request has in its locals, by where it stands.
Local(q) ==
  /\ q.pc \notin {"idle", "done"} => q.kind \in Kind
  /\ q.pc \notin {"idle", "pick", "done"} => q.ses \in Session
  /\ q.pc \in {"register", "write", "await"} => q.method \in Method
  /\ q.pc \notin {"idle", "done"} /\ q.kind # "call" => q.job \in Job
  /\ q.method = "job_wait" =>
       q.kind = "await_job" /\ q.pc \in {"register", "write", "await", "jobget"}
  /\ q.pc = "jobget" => q.method = "job_wait"
  /\ q.pc = "joblookup" => q.kind = "await_job"
  /\ q.pc = "peek" => q.kind = "peek_job"
Locals == \A r \in Request : Local(req[r])

------------------------------------------------------------------------------
\* Lemmas on the records that the actions build.

LEMMA FinishedRecord ==
  ASSUME NEW q \in RequestRecord, NEW result \in {Nil, "answer", "error", "timeout"}
  PROVE  /\ Finished(q, result) \in RequestRecord
         /\ Local(Finished(q, result))
         /\ Finished(q, result).pc = "done"
         /\ Finished(q, result).ses = Nil
         /\ Finished(q, result).method = Nil
         /\ Finished(q, result).runs = q.runs
         /\ Finished(q, result).collided = q.collided
<1> DEFINE f == Finished(q, result)
<1>1. f \in RequestRecord
  BY DEF Finished, NewRequest, RequestRecord, RequestState
<1>2. f.pc = "done" /\ f.ses = Nil /\ f.method = Nil
  BY DEF Finished, NewRequest
<1>3. f.runs = q.runs
  BY DEF Finished, NewRequest
<1>4. f.collided = q.collided
  BY DEF Finished, NewRequest
<1> QED
  BY <1>1, <1>2, <1>3, <1>4, DaemonAssumption DEF Local, Method

LEMMA EnteredRecord ==
  ASSUME NEW q \in RequestRecord, q.kind \in Kind, q.ses \in Session,
         q.kind # "call" => q.job \in Job
  PROVE  /\ Entered(q) \in RequestRecord
         /\ Local(Entered(q))
         /\ Entered(q).pc \in {"register", "joblookup", "peek"}
         /\ Entered(q).method \in {"user", Nil}
         /\ Entered(q).ses = q.ses
         /\ Entered(q).runs = q.runs
         /\ Entered(q).collided = q.collided
<1> DEFINE e == Entered(q)
<1>1. CASE q.kind = "call"
  <2>1. e = [q EXCEPT !.method = "user", !.pc = "register"]
    BY <1>1 DEF Entered
  <2> QED
    BY <2>1, <1>1 DEF RequestRecord, Local, RequestState, Method
<1>2. CASE q.kind = "await_job"
  <2>1. e = [q EXCEPT !.method = Nil, !.pc = "joblookup"]
    BY <1>2 DEF Entered
  <2> QED
    BY <2>1, <1>2, DaemonAssumption DEF RequestRecord, Local, RequestState, Method
<1>3. CASE q.kind = "peek_job"
  <2>1. e = [q EXCEPT !.method = Nil, !.pc = "peek"]
    BY <1>3 DEF Entered
  <2> QED
    BY <2>1, <1>3, DaemonAssumption DEF RequestRecord, Local, RequestState, Method
<1> QED
  BY <1>1, <1>2, <1>3, DaemonAssumption

LEMMA FailedRecord ==
  ASSUME NEW q \in RequestRecord, Local(q), q.pc \in {"write", "await"}, NEW b \in BOOLEAN
  PROVE  /\ Failed(q, b) \in RequestRecord
         /\ Local(Failed(q, b))
         /\ Failed(q, b).pc \in {"fail", "retry", "done"}
         /\ Failed(q, b).pc = "fail" <=> q.method \in {"login", "subscribe"}
         /\ Failed(q, b).pc = "fail" => Failed(q, b).ses = q.ses
         /\ Failed(q, b).pc = "retry" => b
         /\ Failed(q, b).runs = q.runs
         /\ Failed(q, b).collided = q.collided
<1>1. CASE q.method \in {"login", "subscribe"}
  BY <1>1 DEF Failed, RequestRecord, Local, RequestState, Method
<1>2. CASE q.method = "user" /\ b
  BY <1>2 DEF Failed, RequestRecord, Local, RequestState, Method
<1>3. CASE q.method = "user" /\ ~b
  BY <1>3, FinishedRecord DEF Failed
<1>4. CASE q.method = "job_wait"
  BY <1>4, FinishedRecord DEF Failed
<1> QED
  BY <1>1, <1>2, <1>3, <1>4 DEF Local, Method

LEMMA AnsweredRecord ==
  ASSUME NEW q \in RequestRecord, Local(q), q.pc = "await"
  PROVE  /\ Answered(q) \in RequestRecord
         /\ Local(Answered(q))
         /\ Answered(q).pc \in {"register", "settle", "done", "jobget"}
         /\ Answered(q).pc \in {"register", "settle"} <=> q.method \in {"login", "subscribe"}
         /\ Answered(q).pc \in {"register", "settle", "jobget"} =>
              Answered(q).ses = q.ses /\ Answered(q).job = q.job
         /\ Answered(q).pc = "register" => Answered(q).method = "subscribe"
         /\ Answered(q).pc = "jobget" => q.method = "job_wait"
         /\ Answered(q).runs = q.runs
         /\ Answered(q).collided = q.collided
<1>1. CASE q.method = "login"
  BY <1>1 DEF Answered, RequestRecord, Local, RequestState, Method
<1>2. CASE q.method = "subscribe"
  BY <1>2 DEF Answered, RequestRecord, Local, RequestState, Method
<1>3. CASE q.method = "user"
  BY <1>3, FinishedRecord DEF Answered
<1>4. CASE q.method = "job_wait"
  BY <1>4 DEF Answered, RequestRecord, Local, RequestState, Method
<1> QED
  BY <1>1, <1>2, <1>3, <1>4 DEF Local, Method

------------------------------------------------------------------------------
\* Types and locals.

Typed == TypeOK /\ Locals

\* A step that gives one request a new record.
LEMMA RequestStep ==
  ASSUME Typed, NEW r \in Request, NEW p \in RequestRecord, Local(p),
         req' = [req EXCEPT ![r] = p]
  PROVE  req' \in [Request -> RequestRecord] /\ Locals'
BY DEF Typed, TypeOK, Locals

LEMMA RecordOf ==
  ASSUME Typed, NEW r \in Request
  PROVE  req[r] \in RequestRecord /\ Local(req[r])
BY DEF Typed, TypeOK, Locals

\* Enough to see what EXCEPT does to a variable, whatever its records are.
LEMMA Functions ==
  ASSUME Typed
  PROVE  req \in [Request -> RequestRecord] /\ sess \in [Session -> SessionRecord]
BY DEF Typed, TypeOK

LEMMA SessionOf ==
  ASSUME Typed, NEW n \in Session
  PROVE  sess[n] \in SessionRecord
BY DEF Typed, TypeOK

LEMMA ClearSlotType ==
  ASSUME Typed, NEW n \in Session, ClearSlot(n)
  PROVE  /\ slots' \in Seq(Session \cup {Nil})
         /\ DOMAIN slots' = DOMAIN slots
         /\ \A i \in DOMAIN slots : slots'[i] = Nil \/ slots'[i] = slots[i]
<1>1. slots' = [i \in 1 .. Len(slots) |-> IF i = sess[n].channel THEN Nil ELSE slots[i]]
  BY DEF ClearSlot, Typed, TypeOK
<1> QED
  BY <1>1 DEF Typed, TypeOK

LEMMA FinishTyped ==
  ASSUME Typed, NEW r \in Request, NEW result \in {"answer", "error"},
         Finish(r, result), UNCHANGED <<slots, sess, jobs, waits>>
  PROVE  Typed'
<1>1. req' = [req EXCEPT ![r] = Finished(req[r], result)]
  BY Functions DEF Finish
<1>2. Finished(req[r], result) \in RequestRecord /\ Local(Finished(req[r], result))
  BY RecordOf, FinishedRecord
<1> QED
  BY <1>1, <1>2, RequestStep DEF Typed, TypeOK

LEMMA ArriveTyped ==
  ASSUME Typed, NEW r \in Request, Arrive(r)
  PROVE  Typed'
<1>1. ASSUME NEW k \in Kind, NEW j \in IF k = "call" THEN {Nil} ELSE Job,
             req' = [req EXCEPT ![r].pc = "pick", ![r].kind = k, ![r].job = j]
      PROVE  Typed'
  <2> DEFINE p == [req[r] EXCEPT !.pc = "pick", !.kind = k, !.job = j]
  <2>1. req' = [req EXCEPT ![r] = p]
    BY <1>1, Functions
  <2>2. req[r] \in RequestRecord /\ Local(req[r])
    BY RecordOf
  <2>3. p \in RequestRecord
    BY <1>1, <2>2 DEF RequestRecord, RequestState, Arrive
  <2>4. Local(p)
    BY <1>1, <2>2 DEF RequestRecord, Local, Arrive
  <2> QED
    BY <2>1, <2>3, <2>4, RequestStep DEF Arrive, Typed, TypeOK
<1>2. ASSUME NEW result \in {"answer", "error"}, Finish(r, result)
      PROVE  Typed'
  BY <1>2, FinishTyped DEF Arrive
<1> QED
  BY <1>1, <1>2 DEF Arrive

LEMMA PassOverTyped ==
  ASSUME Typed, NEW r \in Request, PassOver(r)
  PROVE  Typed'
<1>1. PICK i \in DOMAIN slots : ScanAt(r, i) /\ req' = [req EXCEPT ![r].at = i]
  BY DEF PassOver
<1> DEFINE p == [req[r] EXCEPT !.at = i]
<1>2. req' = [req EXCEPT ![r] = p]
  BY <1>1, Functions
<1>3. i \in Nat
  BY <1>1 DEF Typed, TypeOK
<1>4. p \in RequestRecord /\ Local(p)
  BY <1>3, RecordOf DEF RequestRecord, Local
<1> QED
  BY <1>2, <1>4, RequestStep DEF PassOver, Typed, TypeOK

LEMMA PickIdleTyped ==
  ASSUME Typed, NEW r \in Request, PickIdle(r)
  PROVE  Typed'
<1>1. PICK i \in DOMAIN slots :
        /\ slots[i] # Nil
        /\ req' = [req EXCEPT ![r] = Entered([@ EXCEPT !.ses = slots[i], !.at = 0])]
  BY DEF PickIdle
<1> DEFINE q == [req[r] EXCEPT !.ses = slots[i], !.at = 0]
<1>2. req' = [req EXCEPT ![r] = Entered(q)]
  BY <1>1 DEF Typed, TypeOK
<1>3. slots[i] \in Session
  BY <1>1 DEF Typed, TypeOK
<1>4. q \in RequestRecord /\ q.kind \in Kind /\ q.ses \in Session
      /\ (q.kind # "call" => q.job \in Job)
  BY <1>3, RecordOf DEF RequestRecord, Local, PickIdle
<1>5. Entered(q) \in RequestRecord /\ Local(Entered(q))
  BY <1>4, EnteredRecord
<1> QED
  BY <1>2, <1>5, RequestStep DEF PickIdle, Typed, TypeOK

LEMMA ChosenUnused ==
  ASSUME Unused # {}
  PROVE  (CHOOSE m \in Unused : TRUE) \in Unused
OBVIOUS

\* A step that gives one session a new record.
LEMMA SessionStep ==
  ASSUME Typed, NEW n \in Session, NEW s \in SessionRecord, sess' = [sess EXCEPT ![n] = s]
  PROVE  sess' \in [Session -> SessionRecord]
BY DEF Typed, TypeOK

LEMMA PickNewShape ==
  ASSUME Typed, NEW r \in Request, PickNew(r)
  PROVE  \E n \in Unused, i \in 1 .. Len(slots) + 1 :
           /\ req' = [req EXCEPT ![r] = [@ EXCEPT !.pc = "dial", !.ses = n, !.at = 0]]
           /\ sess' = [sess EXCEPT ![n] = [@ EXCEPT !.fut = "pending", !.channel = i]]
           /\ slots' = IF i \in DOMAIN slots THEN [slots EXCEPT ![i] = n]
                                             ELSE Append(slots, n)
<1>1. PICK i \in 1 .. Len(slots) + 1, n \in {CHOOSE m \in Unused : TRUE} :
        /\ slots' = IF i \in DOMAIN slots THEN [slots EXCEPT ![i] = n]
                                          ELSE Append(slots, n)
        /\ sess' = [sess EXCEPT ![n].fut = "pending", ![n].channel = i]
        /\ req' = [req EXCEPT ![r].pc = "dial", ![r].ses = n, ![r].at = 0]
  BY DEF PickNew
<1>2. n \in Unused /\ n \in Session
  BY ChosenUnused DEF PickNew, Unused
<1>3. sess' = [sess EXCEPT ![n] = [@ EXCEPT !.fut = "pending", !.channel = i]]
  BY <1>1, <1>2, Functions
<1>4. req' = [req EXCEPT ![r] = [@ EXCEPT !.pc = "dial", !.ses = n, !.at = 0]]
  BY <1>1, Functions
<1> QED
  BY <1>1, <1>2, <1>3, <1>4

LEMMA PickNewTyped ==
  ASSUME Typed, NEW r \in Request, PickNew(r)
  PROVE  Typed'
<1>1. PICK n \in Unused, i \in 1 .. Len(slots) + 1 :
        /\ req' = [req EXCEPT ![r] = [@ EXCEPT !.pc = "dial", !.ses = n, !.at = 0]]
        /\ sess' = [sess EXCEPT ![n] = [@ EXCEPT !.fut = "pending", !.channel = i]]
        /\ slots' = IF i \in DOMAIN slots THEN [slots EXCEPT ![i] = n]
                                          ELSE Append(slots, n)
  BY PickNewShape
<1>2. n \in Session /\ i \in Nat /\ req[r].pc = "pick"
  BY DEF Unused, Typed, TypeOK, PickNew
<1> DEFINE p == [req[r] EXCEPT !.pc = "dial", !.ses = n, !.at = 0]
           s == [sess[n] EXCEPT !.fut = "pending", !.channel = i]
<1>3. p \in RequestRecord /\ Local(p)
  <2>1. req[r] \in RequestRecord /\ Local(req[r])
    BY RecordOf
  <2>2. p \in RequestRecord
    BY <1>2, <2>1 DEF RequestRecord, RequestState
  <2>3. Local(p)
    BY <1>2, <2>1 DEF RequestRecord, Local
  <2> QED
    BY <2>2, <2>3
<1>4. s \in SessionRecord
  <2>1. sess[n] \in SessionRecord
    BY <1>2, SessionOf
  <2> QED
    BY <1>2, <2>1 DEF SessionRecord
<1>5. req' = [req EXCEPT ![r] = p] /\ sess' = [sess EXCEPT ![n] = s]
  BY <1>1, <1>2 DEF Typed, TypeOK
<1>6. slots' \in Seq(Session \cup {Nil})
  <2>1. slots \in Seq(Session \cup {Nil})
    BY DEF Typed, TypeOK
  <2>2. CASE i \in DOMAIN slots
    BY <1>1, <1>2, <2>1, <2>2
  <2>3. CASE i \notin DOMAIN slots
    BY <1>1, <1>2, <2>1, <2>3
  <2> QED
    BY <2>2, <2>3
<1> QED
  BY <1>2, <1>3, <1>4, <1>5, <1>6, RequestStep, SessionStep DEF PickNew, Typed, TypeOK

LEMMA DialTyped ==
  ASSUME Typed, NEW r \in Request, Dial(r)
  PROVE  Typed'
<1> DEFINE n == req[r].ses
<1>1. n \in Session /\ req[r].pc = "dial"
  BY RecordOf DEF Local, Dial
<1>2. CASE GoTo(r, "fail") /\ UNCHANGED sess
  <2> DEFINE p == [req[r] EXCEPT !.pc = "fail"]
  <2>1. req' = [req EXCEPT ![r] = p]
    BY <1>2, Functions DEF GoTo
  <2>2. p \in RequestRecord /\ Local(p)
    <3>1. req[r] \in RequestRecord /\ Local(req[r])
      BY RecordOf
    <3>2. p \in RequestRecord
      BY <1>1, <3>1 DEF RequestRecord, RequestState
    <3>3. Local(p)
      BY <1>1, <3>1 DEF RequestRecord, Local
    <3> QED
      BY <3>2, <3>3
  <2> QED
    BY <1>2, <2>1, <2>2, RequestStep DEF Dial, Typed, TypeOK
<1>3. CASE /\ req' = [req EXCEPT ![r].pc = "register", ![r].method = "login"]
           /\ sess' = [sess EXCEPT ![n].conn = "open", ![n].listen = "reading"]
  <2> DEFINE p == [req[r] EXCEPT !.pc = "register", !.method = "login"]
             s == [sess[n] EXCEPT !.conn = "open", !.listen = "reading"]
  <2>1. req' = [req EXCEPT ![r] = p] /\ sess' = [sess EXCEPT ![n] = s]
    BY <1>1, <1>3, Functions
  <2>2. p \in RequestRecord /\ Local(p)
    <3>1. req[r] \in RequestRecord /\ Local(req[r])
      BY RecordOf
    <3>2. p \in RequestRecord
      BY <1>1, <3>1 DEF RequestRecord, RequestState, Method
    <3>3. Local(p)
      BY <1>1, <3>1 DEF RequestRecord, Local, Method
    <3> QED
      BY <3>2, <3>3
  <2>3. s \in SessionRecord
    <3>1. sess[n] \in SessionRecord
      BY <1>1, SessionOf
    <3> QED
      BY <1>1, <3>1 DEF SessionRecord
  <2> QED
    BY <1>1, <2>1, <2>2, <2>3, RequestStep, SessionStep DEF Dial, Typed, TypeOK
<1> QED
  BY <1>2, <1>3 DEF Dial

\* callMap_ of a session once a request has entered a call.
CallsWith(n, r) ==
  {c \in sess[n].calls : c.id # sess[n].lastId + 1}
    \cup {[id |-> sess[n].lastId + 1, by |-> r]}

LEMMA RegisterShape ==
  ASSUME Typed, NEW r \in Request, Register(r), NEW n, n = req[r].ses
  PROVE  /\ req[r].pc = "register"
         /\ n \in Session
         /\ req' = [req EXCEPT ![r] = [req[r] EXCEPT
                      !.pc = "write", !.id = sess[n].lastId + 1,
                      !.fcall = "pending", !.reply = Nil]]
         /\ sess' = [sess EXCEPT ![n] = [sess[n] EXCEPT
                      !.lastId = sess[n].lastId + 1, !.calls = CallsWith(n, r),
                      !.busy = TRUE]]
         /\ UNCHANGED <<slots, jobs, waits>>
<1>1. req[r].pc = "register" /\ n \in Session /\ UNCHANGED <<slots, jobs, waits>>
  BY RecordOf DEF Local, Register
<1>2. req' = [req EXCEPT ![r].pc = "write", ![r].id = sess[n].lastId + 1,
                         ![r].fcall = "pending", ![r].reply = Nil]
  BY DEF Register
<1>3. sess' = [sess EXCEPT ![n].lastId = sess[n].lastId + 1,
                           ![n].calls = CallsWith(n, r), ![n].busy = TRUE]
  <2>1. sess \in [Session -> SessionRecord]
    BY DEF Typed, TypeOK
  <2>2. sess' = [sess EXCEPT ![n].lastId = sess[n].lastId + 1,
                   ![n].calls = {c \in @ : c.id # sess[n].lastId + 1}
                                  \cup {[id |-> sess[n].lastId + 1, by |-> r]},
                   ![n].busy = TRUE]
    BY DEF Register
  <2> QED
    BY <1>1, <2>1, <2>2 DEF CallsWith, SessionRecord
<1>4. req' = [req EXCEPT ![r] = [req[r] EXCEPT
                !.pc = "write", !.id = sess[n].lastId + 1,
                !.fcall = "pending", !.reply = Nil]]
  BY <1>2, Functions
<1>5. sess' = [sess EXCEPT ![n] = [sess[n] EXCEPT
                !.lastId = sess[n].lastId + 1, !.calls = CallsWith(n, r),
                !.busy = TRUE]]
  BY <1>1, <1>3, Functions
<1> QED
  BY <1>1, <1>4, <1>5

LEMMA RegisterTyped ==
  ASSUME Typed, NEW r \in Request, Register(r)
  PROVE  Typed'
<1> DEFINE n == req[r].ses
           p == [req[r] EXCEPT !.pc = "write", !.id = sess[n].lastId + 1,
                               !.fcall = "pending", !.reply = Nil]
           s == [sess[n] EXCEPT !.lastId = sess[n].lastId + 1,
                                !.calls = CallsWith(n, r), !.busy = TRUE]
<1>1. /\ req[r].pc = "register" /\ n \in Session
      /\ req' = [req EXCEPT ![r] = p] /\ sess' = [sess EXCEPT ![n] = s]
      /\ UNCHANGED <<slots, jobs, waits>>
  BY RegisterShape
<1>2. sess[n].lastId + 1 \in Nat
  BY <1>1, SessionOf DEF SessionRecord
<1>3. p \in RequestRecord /\ Local(p)
  <2>1. req[r] \in RequestRecord /\ Local(req[r])
    BY RecordOf
  <2>2. p \in RequestRecord
    BY <1>1, <1>2, <2>1 DEF RequestRecord, RequestState
  <2>3. Local(p)
    BY <1>1, <1>2, <2>1 DEF RequestRecord, Local
  <2> QED
    BY <2>2, <2>3
<1>4. CallsWith(n, r) \subseteq [id : Nat, by : Request]
  BY <1>1, <1>2, SessionOf DEF SessionRecord, CallsWith
<1>5. s \in SessionRecord
  <2>1. sess[n] \in SessionRecord
    BY <1>1, <1>2, <1>4, SessionOf
  <2> QED
    BY <1>1, <1>2, <1>4, <2>1 DEF SessionRecord
<1> QED
  BY <1>1, <1>3, <1>5, RequestStep, SessionStep DEF Typed, TypeOK

\* What TrueNAS and the connection keep of a request that is received.
LEMMA ServerReceivesTyped ==
  ASSUME Typed, NEW r \in Request, req[r].pc = "write", NEW ok \in BOOLEAN,
         ServerReceives(r, ok)
  PROVE  /\ sess' \in [Session -> SessionRecord]
         /\ waits' \subseteq Job
<1> DEFINE n == req[r].ses
           m == [id |-> req[r].id, by |-> r, method |-> req[r].method, ok |-> ok]
           s == [sess[n] EXCEPT !.sent = @ \cup {m},
                                !.subscribed = @ \/ req[r].method = "subscribe"]
<1>1. n \in Session /\ req[r].method \in Method
  BY RecordOf DEF Local
<1>2. sess' = [sess EXCEPT ![n] = s]
  BY <1>1, Functions DEF ServerReceives
<1>3. m \in Message
  BY <1>1, RecordOf DEF Message, RequestRecord
<1>4. s \in SessionRecord
  <2>1. s = [[sess[n] EXCEPT !.sent = @ \cup {m}]
                EXCEPT !.subscribed = @ \/ req[r].method = "subscribe"]
    OBVIOUS
  <2>2. [sess[n] EXCEPT !.sent = @ \cup {m}] \in SessionRecord
    BY <1>1, <1>3, SessionOf DEF SessionRecord
  <2> QED
    BY <1>1, <2>1, <2>2, SessionOf DEF SessionRecord
<1>5. waits' \subseteq Job
  BY RecordOf DEF ServerReceives, Typed, TypeOK, Local
<1> QED
  BY <1>1, <1>2, <1>4, <1>5, SessionStep

LEMMA WriteOpenTyped ==
  ASSUME Typed, NEW r \in Request, WriteOpen(r)
  PROVE  Typed'
<1> DEFINE p == [req[r] EXCEPT !.pc = "await", !.runs = Received(req[r])]
<1>1. req[r].pc = "write" /\ UNCHANGED <<slots, jobs>>
  BY DEF WriteOpen
<1>2. PICK ok \in BOOLEAN : ServerReceives(r, ok)
  BY DEF WriteOpen
<1>3. req' = [req EXCEPT ![r] = p]
  BY Functions DEF WriteOpen
<1>4. Received(req[r]) \in Nat
  BY RecordOf DEF Received, RequestRecord
<1>5. p \in RequestRecord /\ Local(p)
  <2>1. req[r] \in RequestRecord /\ Local(req[r])
    BY RecordOf
  <2>2. p \in RequestRecord
    BY <1>1, <1>4, <2>1 DEF RequestRecord, RequestState
  <2>3. Local(p)
    BY <1>1, <1>4, <2>1 DEF RequestRecord, Local
  <2> QED
    BY <2>2, <2>3
<1>6. sess' \in [Session -> SessionRecord] /\ waits' \subseteq Job
  BY <1>1, <1>2, ServerReceivesTyped
<1> QED
  BY <1>1, <1>3, <1>5, <1>6, RequestStep DEF Typed, TypeOK

\* A step in which a request only goes to the record p.
LEMMA LocalTyped ==
  ASSUME Typed, NEW r \in Request, NEW p \in RequestRecord, Local(p),
         req' = [req EXCEPT ![r] = p], UNCHANGED <<slots, sess, jobs, waits>>
  PROVE  Typed'
BY RequestStep DEF Typed, TypeOK

LEMMA WriteCollidesTyped ==
  ASSUME Typed, NEW r \in Request, WriteCollides(r)
  PROVE  Typed'
<1>1. req[r].pc = "write" /\ UNCHANGED <<slots, jobs>>
  BY DEF WriteCollides
<1>2. CASE /\ \E shouldRetry \in BOOLEAN :
                req' = [req EXCEPT ![r] = Failed(@, shouldRetry)]
           /\ UNCHANGED <<sess, waits>>
  <2>1. PICK b \in BOOLEAN : req' = [req EXCEPT ![r] = Failed(req[r], b)]
    BY <1>2 DEF Typed, TypeOK
  <2> QED
    BY <1>1, <1>2, <2>1, RecordOf, FailedRecord, LocalTyped
<1>3. CASE /\ \E ok \in BOOLEAN : ServerReceives(r, ok)
           /\ req' = [req EXCEPT ![r] = Failed([@ EXCEPT !.runs = Received(req[r]),
                                                         !.collided = TRUE], TRUE)]
  <2> DEFINE q == [req[r] EXCEPT !.runs = Received(req[r]), !.collided = TRUE]
  <2>1. req' = [req EXCEPT ![r] = Failed(q, TRUE)]
    BY <1>3 DEF Typed, TypeOK
  <2>2. Received(req[r]) \in Nat
    BY RecordOf DEF Received, RequestRecord
  <2>3. q \in RequestRecord /\ Local(q) /\ q.pc \in {"write", "await"}
    BY <1>1, <2>2, RecordOf DEF RequestRecord, Local
  <2>4. Failed(q, TRUE) \in RequestRecord /\ Local(Failed(q, TRUE))
    BY <2>3, FailedRecord
  <2>5. sess' \in [Session -> SessionRecord] /\ waits' \subseteq Job
    BY <1>1, <1>3, ServerReceivesTyped
  <2> QED
    BY <1>1, <2>1, <2>4, <2>5, RequestStep DEF Typed, TypeOK
<1> QED
  BY <1>2, <1>3 DEF WriteCollides

LEMMA WriteLostTyped ==
  ASSUME Typed, NEW r \in Request, WriteLost(r)
  PROVE  Typed'
<1>1. req[r].pc = "write" /\ UNCHANGED <<slots, sess, jobs, waits>>
  BY DEF WriteLost
<1>2. CASE GoTo(r, "await")
  <2> DEFINE p == [req[r] EXCEPT !.pc = "await"]
  <2>1. req' = [req EXCEPT ![r] = p]
    BY <1>2, Functions DEF GoTo
  <2>2. p \in RequestRecord /\ Local(p)
    <3>1. req[r] \in RequestRecord /\ Local(req[r])
      BY RecordOf
    <3>2. p \in RequestRecord
      BY <1>1, <3>1 DEF RequestRecord, RequestState
    <3>3. Local(p)
      BY <1>1, <3>1 DEF RequestRecord, Local
    <3> QED
      BY <3>2, <3>3
  <2> QED
    BY <1>1, <2>1, <2>2, LocalTyped
<1>3. CASE req' = [req EXCEPT ![r] = Failed(@, FALSE)]
  <2>1. req' = [req EXCEPT ![r] = Failed(req[r], FALSE)]
    BY <1>3 DEF Typed, TypeOK
  <2> QED
    BY <1>1, <2>1, RecordOf, FailedRecord, LocalTyped
<1> QED
  BY <1>2, <1>3 DEF WriteLost

LEMMA WriteClosedTyped ==
  ASSUME Typed, NEW r \in Request, WriteClosed(r)
  PROVE  Typed'
<1> DEFINE b == sess[req[r].ses].conn = "closed"
<1>1. req[r].pc = "write" /\ UNCHANGED <<slots, sess, jobs, waits>>
  BY DEF WriteClosed
<1>2. req' = [req EXCEPT ![r] = Failed(req[r], b)]
  BY DEF WriteClosed, Typed, TypeOK
<1>3. b \in BOOLEAN
  OBVIOUS
<1>4. Failed(req[r], b) \in RequestRecord /\ Local(Failed(req[r], b))
  BY <1>1, <1>3, RecordOf, FailedRecord
<1> QED
  BY <1>1, <1>2, <1>4, LocalTyped

LEMMA CallTimeoutTyped ==
  ASSUME Typed, NEW r \in Request, CallTimeout(r)
  PROVE  Typed'
<1>1. req[r].pc = "await" /\ UNCHANGED <<slots, sess, jobs, waits>>
  BY DEF CallTimeout
<1>2. CASE req[r].method \in {"user", "job_wait"}
  <2>1. req' = [req EXCEPT ![r] = Finished(req[r], "timeout")]
    BY <1>2 DEF CallTimeout, Typed, TypeOK
  <2> QED
    BY <1>1, <2>1, RecordOf, FinishedRecord, LocalTyped
<1>3. CASE req[r].method \notin {"user", "job_wait"}
  <2>1. req' = [req EXCEPT ![r] = Failed(req[r], FALSE)]
    BY <1>3 DEF CallTimeout, Typed, TypeOK
  <2> QED
    BY <1>1, <2>1, RecordOf, FailedRecord, LocalTyped
<1> QED
  BY <1>2, <1>3

\* callMap_ of a session without the call of a request.
CallsWithout(n, r) == {c \in sess[n].calls : c.id # req[r].id}

LEMMA CallReturnShape ==
  ASSUME Typed, NEW r \in Request, CallReturn(r), NEW n, n = req[r].ses
  PROVE  /\ req[r].pc = "await"
         /\ n \in Session
         /\ \/ req' = [req EXCEPT ![r] = Answered(req[r])]
            \/ req' = [req EXCEPT ![r] = Failed(req[r], FALSE)]
         /\ sess' = [sess EXCEPT ![n] = [sess[n] EXCEPT
                      !.calls = CallsWithout(n, r), !.busy = FALSE]]
         /\ UNCHANGED <<slots, jobs, waits>>
<1>1. req[r].pc = "await" /\ n \in Session /\ UNCHANGED <<slots, jobs, waits>>
  BY RecordOf DEF Local, CallReturn
<1>2. req' = [req EXCEPT ![r] = IF req[r].fcall = "answered" THEN Answered(req[r])
                                ELSE Failed(req[r], FALSE)]
  BY DEF CallReturn, Typed, TypeOK
<1>3. sess' = [sess EXCEPT ![n].calls = CallsWithout(n, r), ![n].busy = FALSE]
  <2>1. sess \in [Session -> SessionRecord]
    BY DEF Typed, TypeOK
  <2>2. sess' = [sess EXCEPT ![n].calls = {c \in @ : c.id # req[r].id},
                             ![n].busy = FALSE]
    BY DEF CallReturn
  <2> QED
    BY <1>1, <2>1, <2>2 DEF CallsWithout, SessionRecord
<1>4. sess' = [sess EXCEPT ![n] = [sess[n] EXCEPT
                !.calls = CallsWithout(n, r), !.busy = FALSE]]
  BY <1>1, <1>3, Functions
<1> QED
  BY <1>1, <1>2, <1>4

LEMMA CallReturnTyped ==
  ASSUME Typed, NEW r \in Request, CallReturn(r)
  PROVE  Typed'
<1> DEFINE n == req[r].ses
           s == [sess[n] EXCEPT !.calls = CallsWithout(n, r), !.busy = FALSE]
<1>1. /\ req[r].pc = "await" /\ n \in Session
      /\ \/ req' = [req EXCEPT ![r] = Answered(req[r])]
         \/ req' = [req EXCEPT ![r] = Failed(req[r], FALSE)]
      /\ sess' = [sess EXCEPT ![n] = s]
      /\ UNCHANGED <<slots, jobs, waits>>
  BY CallReturnShape
<1>2. req' \in [Request -> RequestRecord] /\ Locals'
  BY <1>1, RecordOf, AnsweredRecord, FailedRecord, RequestStep
<1>3. CallsWithout(n, r) \subseteq [id : Nat, by : Request]
  BY <1>1, SessionOf DEF SessionRecord, CallsWithout
<1>4. s \in SessionRecord
  <2>1. sess[n] \in SessionRecord
    BY <1>1, SessionOf
  <2> QED
    BY <1>3, <2>1 DEF SessionRecord
<1> QED
  BY <1>1, <1>2, <1>4, SessionStep DEF Typed, TypeOK

LEMMA SettleShape ==
  ASSUME Typed, NEW r \in Request, Settle(r), NEW n, n = req[r].ses
  PROVE  /\ n \in Session
         /\ \/ /\ req[r].pc = "settle"
               /\ req' = [req EXCEPT ![r] = Entered(req[r])]
               /\ sess' = [sess EXCEPT ![n] = [sess[n] EXCEPT !.fut = "ok"]]
            \/ /\ req[r].pc = "fail"
               /\ req' = [req EXCEPT ![r] = [req[r] EXCEPT !.pc = "delete"]]
               /\ sess' = [sess EXCEPT ![n] = [sess[n] EXCEPT !.fut = "failed"]]
         /\ UNCHANGED <<slots, jobs, waits>>
<1>1. n \in Session /\ UNCHANGED <<slots, jobs, waits>>
  BY RecordOf DEF Local, Settle
<1>2. CASE req[r].pc = "settle"
  BY <1>1, <1>2, SessionOf DEF Settle, Typed, TypeOK, SessionRecord
<1>3. CASE req[r].pc = "fail"
  BY <1>1, <1>3, SessionOf, RecordOf
     DEF Settle, GoTo, Typed, TypeOK, SessionRecord, RequestRecord
<1> QED
  BY <1>1, <1>2, <1>3 DEF Settle

LEMMA SettleTyped ==
  ASSUME Typed, NEW r \in Request, Settle(r)
  PROVE  Typed'
<1> DEFINE n == req[r].ses
           p == [req[r] EXCEPT !.pc = "delete"]
<1>1. /\ n \in Session
      /\ \/ /\ req[r].pc = "settle"
            /\ req' = [req EXCEPT ![r] = Entered(req[r])]
            /\ sess' = [sess EXCEPT ![n] = [sess[n] EXCEPT !.fut = "ok"]]
         \/ /\ req[r].pc = "fail"
            /\ req' = [req EXCEPT ![r] = p]
            /\ sess' = [sess EXCEPT ![n] = [sess[n] EXCEPT !.fut = "failed"]]
      /\ UNCHANGED <<slots, jobs, waits>>
  BY SettleShape
<1>2. /\ [sess[n] EXCEPT !.fut = "ok"] \in SessionRecord
      /\ [sess[n] EXCEPT !.fut = "failed"] \in SessionRecord
  BY <1>1, SessionOf DEF SessionRecord
<1>3. sess' \in [Session -> SessionRecord]
  BY <1>1, <1>2, SessionStep
<1>4. req' \in [Request -> RequestRecord] /\ Locals'
  <2>1. CASE req[r].pc = "settle"
    <3>1. /\ req[r].kind \in Kind /\ req[r].ses \in Session
          /\ req[r].kind # "call" => req[r].job \in Job
      BY <2>1, RecordOf DEF Local
    <3> QED
      BY <1>1, <2>1, <3>1, RecordOf, EnteredRecord, RequestStep
  <2>2. CASE req[r].pc = "fail"
    <3>1. p \in RequestRecord /\ Local(p)
      <4>1. req[r] \in RequestRecord /\ Local(req[r])
        BY RecordOf
      <4>2. p \in RequestRecord
        BY <2>2, <4>1 DEF RequestRecord, RequestState
      <4>3. Local(p)
        BY <2>2, <4>1 DEF RequestRecord, Local
      <4> QED
        BY <4>2, <4>3
    <3> QED
      BY <1>1, <2>2, <3>1, RequestStep
  <2> QED
    BY <1>1, <2>1, <2>2
<1> QED
  BY <1>1, <1>3, <1>4 DEF Typed, TypeOK

LEMMA DeleteTyped ==
  ASSUME Typed, NEW r \in Request, Delete(r)
  PROVE  Typed'
<1>1. /\ req[r].pc \in {"delete", "retry"} /\ ClearSlot(req[r].ses)
      /\ UNCHANGED <<sess, jobs, waits>>
  BY DEF Delete
<1>2. slots' \in Seq(Session \cup {Nil})
  BY <1>1, RecordOf, ClearSlotType DEF Local
<1>3. req' \in [Request -> RequestRecord] /\ Locals'
  <2>1. CASE req[r].pc = "delete"
    <3>1. req' = [req EXCEPT ![r] = Finished(req[r], "error")]
      BY <2>1 DEF Delete, Finish, Typed, TypeOK
    <3> QED
      BY <3>1, RecordOf, FinishedRecord, RequestStep
  <2>2. CASE req[r].pc = "retry"
    <3> DEFINE p == [req[r] EXCEPT !.pc = "pick", !.ses = Nil]
    <3>1. req' = [req EXCEPT ![r] = p]
      BY <2>2, Functions DEF Delete
    <3>2. p \in RequestRecord /\ Local(p)
      <4>1. req[r] \in RequestRecord /\ Local(req[r])
        BY RecordOf
      <4>2. p \in RequestRecord
        BY <2>2, <4>1 DEF RequestRecord, RequestState
      <4>3. Local(p)
        BY <2>2, <4>1 DEF RequestRecord, Local
      <4> QED
        BY <4>2, <4>3
    <3> QED
      BY <3>1, <3>2, RequestStep
  <2> QED
    BY <1>1, <2>1, <2>2
<1> QED
  BY <1>1, <1>2, <1>3 DEF Typed, TypeOK

LEMMA JobLookupShape ==
  ASSUME Typed, NEW r \in Request, JobLookup(r),
         NEW n, n = req[r].ses, NEW j, j = req[r].job
  PROVE  /\ req[r].pc = "joblookup" /\ n \in Session /\ j \in Job
         /\ \/ /\ \E result \in {"answer", "error"} :
                    req' = [req EXCEPT ![r] = Finished(req[r], result)]
               /\ UNCHANGED sess
            \/ /\ sess[n].jobMap[j] \in {"absent", "pending"}
               /\ req' = [req EXCEPT ![r] = [req[r] EXCEPT !.pc = "register",
                                                           !.method = "job_wait"]]
               /\ sess' = [sess EXCEPT ![n] = [sess[n] EXCEPT
                            !.jobMap = [sess[n].jobMap EXCEPT ![j] = "pending"]]]
         /\ UNCHANGED <<slots, jobs, waits>>
<1>1. req[r].pc = "joblookup" /\ n \in Session /\ j \in Job /\ UNCHANGED <<slots, jobs, waits>>
  BY RecordOf DEF Local, JobLookup
<1>2. CASE sess[n].jobMap[j] \in {"ended", "failed"}
  BY <1>1, <1>2 DEF JobLookup, Finish, Typed, TypeOK
<1>3. CASE sess[n].jobMap[j] \in {"absent", "pending"}
  <2>1. /\ sess' = [sess EXCEPT ![n].jobMap[j] = "pending"]
        /\ req' = [req EXCEPT ![r].pc = "register", ![r].method = "job_wait"]
    BY <1>1, <1>3 DEF JobLookup
  <2>2. req' = [req EXCEPT ![r] = [req[r] EXCEPT !.pc = "register",
                                                 !.method = "job_wait"]]
    BY <2>1, Functions
  <2>3. sess' = [sess EXCEPT ![n] = [sess[n] EXCEPT
                   !.jobMap = [sess[n].jobMap EXCEPT ![j] = "pending"]]]
    BY <2>1, Functions
  <2> QED
    BY <1>1, <1>3, <2>2, <2>3
<1> QED
  BY <1>1, <1>2, <1>3 DEF JobLookup

LEMMA JobLookupTyped ==
  ASSUME Typed, NEW r \in Request, JobLookup(r)
  PROVE  Typed'
<1> DEFINE n == req[r].ses
           j == req[r].job
           p == [req[r] EXCEPT !.pc = "register", !.method = "job_wait"]
           s == [sess[n] EXCEPT !.jobMap = [sess[n].jobMap EXCEPT ![j] = "pending"]]
<1>1. /\ req[r].pc = "joblookup" /\ n \in Session /\ j \in Job
      /\ \/ /\ \E result \in {"answer", "error"} :
                 req' = [req EXCEPT ![r] = Finished(req[r], result)]
            /\ UNCHANGED sess
         \/ /\ sess[n].jobMap[j] \in {"absent", "pending"}
            /\ req' = [req EXCEPT ![r] = p]
            /\ sess' = [sess EXCEPT ![n] = s]
      /\ UNCHANGED <<slots, jobs, waits>>
  BY JobLookupShape
<1>2. ASSUME NEW result \in {"answer", "error"},
             req' = [req EXCEPT ![r] = Finished(req[r], result)], UNCHANGED sess
      PROVE  Typed'
  BY <1>1, <1>2, RecordOf, FinishedRecord, LocalTyped
<1>3. CASE req' = [req EXCEPT ![r] = p] /\ sess' = [sess EXCEPT ![n] = s]
  <2>1. req[r].kind = "await_job"
    BY <1>1, RecordOf DEF Local
  <2>2. p \in RequestRecord /\ Local(p)
    <3>1. req[r] \in RequestRecord /\ Local(req[r])
      BY RecordOf
    <3>2. p \in RequestRecord
      BY <1>1, <2>1, <3>1 DEF RequestRecord, RequestState, Method
    <3>3. Local(p)
      BY <1>1, <2>1, <3>1 DEF RequestRecord, Local, Method
    <3> QED
      BY <3>2, <3>3
  <2>3. s \in SessionRecord
    <3>1. sess[n] \in SessionRecord
      BY <1>1, SessionOf
    <3> QED
      BY <1>1, <3>1 DEF SessionRecord
  <2> QED
    BY <1>1, <1>3, <2>2, <2>3, RequestStep, SessionStep DEF Typed, TypeOK
<1> QED
  BY <1>1, <1>2, <1>3

LEMMA JobGetTyped ==
  ASSUME Typed, NEW r \in Request, JobGet(r)
  PROVE  /\ Typed'
         /\ \E result \in {"answer", "error"} :
              req' = [req EXCEPT ![r] = Finished(req[r], result)]
<1>1. PICK result \in {"answer", "error"} :
        req' = [req EXCEPT ![r] = Finished(req[r], result)]
  BY DEF JobGet, Finish, Typed, TypeOK
<1> QED
  BY <1>1, RecordOf, FinishedRecord, LocalTyped DEF JobGet

LEMMA PeekJobTyped ==
  ASSUME Typed, NEW r \in Request, PeekJob(r)
  PROVE  /\ Typed'
         /\ \E result \in {"answer", "error"} :
              req' = [req EXCEPT ![r] = Finished(req[r], result)]
<1>1. PICK result \in {"answer", "error"} :
        req' = [req EXCEPT ![r] = Finished(req[r], result)]
  BY DEF PeekJob, Finish, Typed, TypeOK
<1> QED
  BY <1>1, RecordOf, FinishedRecord, LocalTyped DEF PeekJob

LEMMA ListenReplyTyped ==
  ASSUME Typed, NEW n \in Session, ListenReply(n)
  PROVE  Typed'
<1>1. PICK m \in sess[n].sent :
       /\ sess' = [sess EXCEPT ![n].sent = @ \ {m}]
       /\ req' = [r \in Request |->
                    IF \E c \in sess[n].calls : c.id = m.id /\ c.by = r /\ Awaits(n, c)
                    THEN [req[r] EXCEPT !.fcall = "answered", !.reply = m]
                    ELSE req[r]]
  BY DEF ListenReply
<1>2. m \in Message
  BY SessionOf DEF SessionRecord
<1>3. ASSUME NEW r \in Request
      PROVE  req'[r] \in RequestRecord /\ Local(req'[r])
  <2> DEFINE p == [req[r] EXCEPT !.fcall = "answered", !.reply = m]
  <2>1. p \in RequestRecord /\ Local(p)
    <3>1. req[r] \in RequestRecord /\ Local(req[r])
      BY RecordOf
    <3>2. p \in RequestRecord
      BY <1>2, <3>1 DEF RequestRecord, RequestState
    <3>3. Local(p)
      BY <1>2, <3>1 DEF RequestRecord, Local
    <3> QED
      BY <3>2, <3>3
  <2>2. req'[r] = p \/ req'[r] = req[r]
    BY <1>1
  <2> QED
    BY <2>1, <2>2, RecordOf
<1>4. req' \in [Request -> RequestRecord]
  BY <1>1, <1>3
<1>5. Locals'
  BY <1>3 DEF Locals
<1>6. sess' \in [Session -> SessionRecord]
  <2> DEFINE s == [sess[n] EXCEPT !.sent = sess[n].sent \ {m}]
  <2>1. s \in SessionRecord
    <3>1. sess[n] \in SessionRecord
      BY SessionOf
    <3> QED
      BY <3>1 DEF SessionRecord
  <2>2. sess' = [sess EXCEPT ![n] = s]
    BY <1>1 DEF Typed, TypeOK
  <2> QED
    BY <2>1, <2>2, SessionStep
<1> QED
  BY <1>4, <1>5, <1>6 DEF ListenReply, Typed, TypeOK

LEMMA ListenJobShape ==
  ASSUME Typed, NEW n \in Session, ListenJob(n)
  PROVE  /\ sess[n].listen = "reading"
         /\ \E e \in sess[n].events :
              LET f == IF e.final THEN "ended" ELSE sess[n].jobMap[e.job]
              IN  sess' = [sess EXCEPT ![n] = [sess[n] EXCEPT
                             !.events = sess[n].events \ {e},
                             !.jobMap = [sess[n].jobMap EXCEPT ![e.job] = f]]]
         /\ UNCHANGED <<req, slots, jobs, waits>>
<1>1. PICK e \in sess[n].events :
        sess' = [sess EXCEPT ![n].events = @ \ {e},
                             ![n].jobMap[e.job] = IF e.final THEN "ended" ELSE @]
  BY DEF ListenJob
<1>2. e.job \in Job /\ sess[n].jobMap \in [Job -> {"absent", "pending", "ended", "failed"}]
  BY SessionOf DEF SessionRecord, JobUpdate
<1> DEFINE f == IF e.final THEN "ended" ELSE sess[n].jobMap[e.job]
<1>3. sess' = [sess EXCEPT ![n] = [sess[n] EXCEPT
                 !.events = sess[n].events \ {e},
                 !.jobMap = [sess[n].jobMap EXCEPT ![e.job] = f]]]
  <2>1. "jobMap" \in DOMAIN sess[n]
    BY SessionOf DEF SessionRecord
  <2> QED
    BY <1>1, <2>1, Functions
<1> QED
  BY <1>3 DEF ListenJob

LEMMA ListenJobTyped ==
  ASSUME Typed, NEW n \in Session, ListenJob(n)
  PROVE  Typed'
<1>1. PICK e \in sess[n].events :
        LET f == IF e.final THEN "ended" ELSE sess[n].jobMap[e.job]
        IN  sess' = [sess EXCEPT ![n] = [sess[n] EXCEPT
                       !.events = sess[n].events \ {e},
                       !.jobMap = [sess[n].jobMap EXCEPT ![e.job] = f]]]
  BY ListenJobShape
<1> DEFINE f == IF e.final THEN "ended" ELSE sess[n].jobMap[e.job]
           s == [sess[n] EXCEPT !.events = sess[n].events \ {e},
                                !.jobMap = [sess[n].jobMap EXCEPT ![e.job] = f]]
<1>2. e.job \in Job
  BY SessionOf DEF SessionRecord, JobUpdate
<1>3. s \in SessionRecord
  <2>1. sess[n] \in SessionRecord
    BY SessionOf
  <2>2. [sess[n].jobMap EXCEPT ![e.job] = f]
          \in [Job -> {"absent", "pending", "ended", "failed"}]
    BY <1>2, <2>1 DEF SessionRecord
  <2> HIDE DEF f
  <2> QED
    BY <2>1, <2>2 DEF SessionRecord
<1>4. sess' \in [Session -> SessionRecord]
  BY <1>1, <1>3, SessionStep
<1> QED
  BY <1>4 DEF ListenJob, Typed, TypeOK, Locals

LEMMA ListenExitTyped ==
  ASSUME Typed, NEW n \in Session, ListenExit(n)
  PROVE  Typed'
<1>1. PICK how \in {"closed", "closeSent"} :
        sess' = [sess EXCEPT ![n].conn = how, ![n].listen = "failing"]
  BY DEF ListenExit
<1> DEFINE s == [sess[n] EXCEPT !.conn = how, !.listen = "failing"]
<1>2. s \in SessionRecord
  <2>1. sess[n] \in SessionRecord
    BY SessionOf
  <2> QED
    BY <2>1 DEF SessionRecord
<1>3. sess' = [sess EXCEPT ![n] = s]
  BY <1>1, Functions
<1> QED
  BY <1>2, <1>3, SessionStep DEF ListenExit, Typed, TypeOK, Locals

\* jobMap_ once every pending future in it has been failed.
JobsFailed(n) ==
  [j \in Job |-> IF sess[n].jobMap[j] = "pending" THEN "failed" ELSE sess[n].jobMap[j]]

LEMMA ListenFailAllShape ==
  ASSUME Typed, NEW n \in Session, ListenFailAll(n)
  PROVE  /\ sess[n].listen = "failing"
         /\ req' = [r \in Request |->
                      IF \E c \in sess[n].calls : c.by = r /\ Awaits(n, c)
                      THEN [req[r] EXCEPT !.fcall = "failed"] ELSE req[r]]
         /\ sess' = [sess EXCEPT ![n] = [sess[n] EXCEPT
                       !.listen = "deleting", !.jobMap = JobsFailed(n)]]
         /\ UNCHANGED <<slots, jobs, waits>>
<1>1. sess' = [sess EXCEPT ![n].listen = "deleting", ![n].jobMap = JobsFailed(n)]
  <2>1. sess \in [Session -> SessionRecord]
    BY DEF Typed, TypeOK
  <2>2. sess' = [sess EXCEPT ![n].listen = "deleting",
                             ![n].jobMap = [j \in Job |-> IF @[j] = "pending"
                                                          THEN "failed" ELSE @[j]]]
    BY DEF ListenFailAll
  <2> QED
    BY <2>1, <2>2 DEF JobsFailed, SessionRecord
<1>2. sess' = [sess EXCEPT ![n] = [sess[n] EXCEPT
                  !.listen = "deleting", !.jobMap = JobsFailed(n)]]
  BY <1>1, SessionOf DEF Typed, TypeOK, SessionRecord
<1> QED
  BY <1>2 DEF ListenFailAll

LEMMA ListenFailAllTyped ==
  ASSUME Typed, NEW n \in Session, ListenFailAll(n)
  PROVE  Typed'
<1> DEFINE s == [sess[n] EXCEPT !.listen = "deleting", !.jobMap = JobsFailed(n)]
<1>1. /\ req' = [r \in Request |->
                   IF \E c \in sess[n].calls : c.by = r /\ Awaits(n, c)
                   THEN [req[r] EXCEPT !.fcall = "failed"] ELSE req[r]]
      /\ sess' = [sess EXCEPT ![n] = s]
      /\ UNCHANGED <<slots, jobs, waits>>
  BY ListenFailAllShape
<1>2. ASSUME NEW r \in Request
      PROVE  req'[r] \in RequestRecord /\ Local(req'[r])
  <2> DEFINE p == [req[r] EXCEPT !.fcall = "failed"]
  <2>1. p \in RequestRecord /\ Local(p)
    <3>1. req[r] \in RequestRecord /\ Local(req[r])
      BY RecordOf
    <3>2. p \in RequestRecord
      BY <3>1 DEF RequestRecord, RequestState
    <3>3. Local(p)
      BY <3>1 DEF RequestRecord, Local
    <3> QED
      BY <3>2, <3>3
  <2>2. req'[r] = p \/ req'[r] = req[r]
    BY <1>1
  <2> QED
    BY <2>1, <2>2, RecordOf
<1>3. req' \in [Request -> RequestRecord]
  BY <1>1, <1>2
<1>4. Locals'
  BY <1>2 DEF Locals
<1>5. s \in SessionRecord
  <2>1. sess[n] \in SessionRecord
    BY SessionOf
  <2>2. JobsFailed(n) \in [Job -> {"absent", "pending", "ended", "failed"}]
    BY <2>1 DEF JobsFailed, SessionRecord
  <2> QED
    BY <2>1, <2>2 DEF SessionRecord
<1> QED
  BY <1>1, <1>3, <1>4, <1>5, SessionStep DEF Typed, TypeOK

LEMMA ListenDeleteTyped ==
  ASSUME Typed, NEW n \in Session, ListenDelete(n)
  PROVE  Typed'
<1> DEFINE s == [sess[n] EXCEPT !.listen = "gone"]
<1>1. s \in SessionRecord
  <2>1. sess[n] \in SessionRecord
    BY SessionOf
  <2> QED
    BY <2>1 DEF SessionRecord
<1>2. sess' = [sess EXCEPT ![n] = s]
  BY Functions DEF ListenDelete
<1>3. slots' \in Seq(Session \cup {Nil})
  BY ClearSlotType DEF ListenDelete
<1> QED
  BY <1>1, <1>2, <1>3, SessionStep DEF ListenDelete, Typed, TypeOK, Locals

\* A session keeps everything but its events when TrueNAS publishes an update.
LEMMA PublishShape ==
  ASSUME Typed, NEW j \in Job, NEW final \in BOOLEAN, Publish(j, final)
  PROVE  /\ sess' \in [Session -> SessionRecord]
         /\ \A n \in Session : \E E \in SUBSET (sess[n].events \cup {[job |-> j, final |-> final]}) :
              sess'[n] = [sess[n] EXCEPT !.events = E]
<1>1. ASSUME NEW n \in Session
      PROVE  /\ sess'[n] \in SessionRecord
             /\ \E E \in SUBSET (sess[n].events \cup {[job |-> j, final |-> final]}) :
                  sess'[n] = [sess[n] EXCEPT !.events = E]
  <2> DEFINE E == sess[n].events \cup {[job |-> j, final |-> final]}
             s == [sess[n] EXCEPT !.events = E]
  <2>1. sess'[n] = s \/ sess'[n] = sess[n]
    BY DEF Publish
  <2>2. E \subseteq JobUpdate
    BY SessionOf DEF SessionRecord, JobUpdate
  <2>3. s \in SessionRecord
    <3>1. sess[n] \in SessionRecord
      BY <2>2, SessionOf
    <3> QED
      BY <2>2, <3>1 DEF SessionRecord
  <2>4. sess[n] = [sess[n] EXCEPT !.events = sess[n].events]
    BY SessionOf DEF SessionRecord
  <2>5. sess[n].events \in SUBSET E /\ E \in SUBSET E
    OBVIOUS
  <2> HIDE DEF E
  <2> QED
    BY <2>1, <2>3, <2>4, <2>5, SessionOf DEF E
<1>2. sess' = [n \in Session |-> sess'[n]]
  BY DEF Publish
<1> QED
  BY <1>1, <1>2

LEMMA JobTyped ==
  ASSUME Typed, NEW j \in Job, JobRuns(j) \/ JobEnds(j) \/ WaitEnds(j)
  PROVE  Typed'
<1>1. CASE JobRuns(j)
  BY <1>1, PublishShape DEF JobRuns, Typed, TypeOK, Locals
<1>2. CASE JobEnds(j)
  <2>1. PICK how \in {"ended", "aborted"} :
          jobs' = [jobs EXCEPT ![j] = how] /\ Publish(j, how = "ended")
    BY <1>2 DEF JobEnds
  <2>2. (how = "ended") \in BOOLEAN
    OBVIOUS
  <2>3. sess' \in [Session -> SessionRecord]
    BY <2>1, <2>2, PublishShape
  <2>4. jobs' \in [Job -> {"running", "ended", "aborted"}]
    BY <2>1 DEF Typed, TypeOK
  <2> QED
    BY <1>2, <2>3, <2>4 DEF JobEnds, Typed, TypeOK, Locals
<1>3. CASE WaitEnds(j)
  BY <1>3, PublishShape DEF WaitEnds, Typed, TypeOK, Locals
<1> QED
  BY <1>1, <1>2, <1>3

LEMMA DropTyped ==
  ASSUME Typed, NEW n \in Session, Drop(n)
  PROVE  Typed'
<1> DEFINE s == [sess[n] EXCEPT !.conn = "lost", !.sent = {}, !.events = {}]
<1>1. s \in SessionRecord
  <2>1. sess[n] \in SessionRecord
    BY SessionOf
  <2> QED
    BY <2>1 DEF SessionRecord
<1>2. sess' = [sess EXCEPT ![n] = s]
  BY Functions DEF Drop
<1> QED
  BY <1>1, <1>2, SessionStep DEF Drop, Typed, TypeOK, Locals

LEMMA InitTyped == Init => Typed
<1> SUFFICES ASSUME Init PROVE Typed
  OBVIOUS
<1>1. NewRequest \in RequestRecord /\ Local(NewRequest)
  BY DaemonAssumption DEF NewRequest, RequestRecord, RequestState, Local, Method
<1>2. NewSession \in SessionRecord
  BY DEF NewSession, SessionRecord
<1> QED
  BY <1>1, <1>2 DEF Init, Typed, TypeOK, Locals

LEMMA NextTyped == Typed /\ [Next]_vars => Typed'
<1> SUFFICES ASSUME Typed, [Next]_vars PROVE Typed'
  OBVIOUS
<1>1. ASSUME NEW r \in Request, Arrive(r) \/ Progress(r)
      PROVE  Typed'
  BY <1>1, ArriveTyped, PassOverTyped, PickIdleTyped, PickNewTyped, DialTyped, RegisterTyped,
     WriteOpenTyped, WriteCollidesTyped, WriteLostTyped, WriteClosedTyped,
     CallTimeoutTyped, CallReturnTyped, SettleTyped, DeleteTyped, JobLookupTyped,
     JobGetTyped, PeekJobTyped
     DEF Progress, Write
<1>2. ASSUME NEW n \in Session, Listen(n) \/ Drop(n)
      PROVE  Typed'
  BY <1>2, ListenReplyTyped, ListenJobTyped, ListenExitTyped, ListenFailAllTyped,
     ListenDeleteTyped, DropTyped
     DEF Listen
<1>3. ASSUME NEW j \in Job, JobRuns(j) \/ JobEnds(j) \/ WaitEnds(j)
      PROVE  Typed'
  BY <1>3, JobTyped
<1>4. CASE UNCHANGED vars
  BY <1>4 DEF vars, Typed, TypeOK, Locals
<1> QED
  BY <1>1, <1>2, <1>3, <1>4 DEF Next

\* Every variable keeps to its range: no slot, map, record or message is ever
\* given a value the code does not expect (daemon.go:149-605).
THEOREM DaemonTypeOK == Spec => []TypeOK
<1>1. Typed => TypeOK
  BY DEF Typed
<1> QED
  BY <1>1, InitTyped, NextTyped, PTL DEF Spec
==============================================================================
