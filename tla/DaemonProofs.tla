---------------------------- MODULE DaemonProofs -----------------------------
(***************************************************************************)
(* Safety of Daemon for any number of requests, sessions, jobs and breaks. *)
(***************************************************************************)
EXTENDS DaemonTyping

\* A listener reads until its connection is lost, then closes it first.
Connections ==
  \A n \in Session :
    /\ sess[n].listen = "none" <=> sess[n].conn = "none"
    /\ sess[n].listen = "reading" <=> sess[n].conn \in {"open", "lost"}

\* callMap_: ids are used once, and a call stays in it until it returns.
IdsUsedOnce ==
  \A n \in Session : \A c \in sess[n].calls :
    /\ c.id <= sess[n].lastId
    /\ \A d \in sess[n].calls : c.id = d.id => c = d

CallsRegistered ==
  \A r \in Request :
    req[r].pc \in {"write", "await"} =>
      [id |-> req[r].id, by |-> r] \in sess[req[r].ses].calls

\* A message on its way carries the id under which its own call is registered.
Messages ==
  \A n \in Session : \A m \in sess[n].sent :
    /\ m.id <= sess[n].lastId
    /\ \A c \in sess[n].calls : c.id = m.id => c.by = m.by
    /\ InCall(m.by, n) /\ req[m.by].id = m.id => m.method = req[m.by].method

\* An answered call has its own answer, also before its goroutine awaits it.
Answers ==
  \A r \in Request :
    req[r].pc \in {"write", "await"} /\ req[r].fcall = "answered" =>
      /\ req[r].reply.by = r
      /\ req[r].reply.method = req[r].method

\* An await_job has put its job into jobMap_ before its core.job_wait, and on
\* a dead session finds it reached or failed.
JobsRegistered ==
  \A r \in Request :
    req[r].method = "job_wait" =>
      /\ sess[req[r].ses].jobMap[req[r].job] # "absent"
      /\ req[r].pc \in {"await", "jobget"} /\ Dead(req[r].ses) =>
           sess[req[r].ses].jobMap[req[r].job] # "pending"

\* On a dead session no call waits for its future.
CallsReleased ==
  \A r \in Request :
    req[r].pc = "await" /\ Dead(req[r].ses) => req[r].fcall # "pending"

CallInv ==
  IdsUsedOnce /\ CallsRegistered /\ Messages /\ Answers /\ JobsRegistered /\ CallsReleased

Inv == Typed /\ Connections /\ CallInv

------------------------------------------------------------------------------
\* Steps that start no call, end none and touch no map of a session.

Same(s, t) ==
  /\ s.calls = t.calls
  /\ s.lastId = t.lastId
  /\ s.jobMap = t.jobMap
  /\ s.sent \subseteq t.sent

SameCalls ==
  \A n \in Session :
    /\ Same(sess'[n], sess[n])
    /\ sess'[n].listen \in {"deleting", "gone"} => Dead(n)

Quiet(r) ==
  /\ SameCalls
  /\ \E p \in RequestRecord :
       /\ req' = [req EXCEPT ![r] = p]
       /\ p.pc \notin {"write", "await", "jobget"}
       /\ p.method # "job_wait"

LEMMA QuietInv ==
  ASSUME Typed, CallInv, NEW r \in Request, Quiet(r)
  PROVE  CallInv'
<1>1. PICK p \in RequestRecord :
        /\ req' = [req EXCEPT ![r] = p]
        /\ p.pc \notin {"write", "await", "jobget"}
        /\ p.method # "job_wait"
  BY DEF Quiet
<1>2. req'[r] = p /\ \A q \in Request \ {r} : req'[q] = req[q]
  BY <1>1 DEF Typed, TypeOK
<1>3. SameCalls
  BY DEF Quiet
<1>4. \A q \in Request : req[q].pc \in {"register", "write", "await", "jobget"}
                           => req[q].ses \in Session
  BY RecordOf DEF Local
<1>5. IdsUsedOnce'
  BY <1>3 DEF CallInv, IdsUsedOnce, SameCalls, Same
<1>6. CallsRegistered'
  BY <1>1, <1>2, <1>3, <1>4 DEF CallInv, CallsRegistered, SameCalls, Same
<1>7. Messages'
  <2>1. \A n \in Session : \A m \in sess[n].sent : m.by \in Request
    BY SessionOf DEF SessionRecord, Message
  <2> QED
    BY <1>1, <1>2, <1>3, <2>1 DEF CallInv, Messages, SameCalls, Same, InCall
<1>8. Answers'
  BY <1>1, <1>2 DEF CallInv, Answers
<1>9. JobsRegistered'
  <2>1. \A q \in Request : req[q].method = "job_wait" => req[q].ses \in Session
    BY <1>4, RecordOf DEF Local
  <2> QED
    BY <1>1, <1>2, <1>3, <2>1 DEF CallInv, JobsRegistered, SameCalls, Same, Dead
<1>10. CallsReleased'
  BY <1>1, <1>2, <1>3, <1>4 DEF CallInv, CallsReleased, SameCalls, Dead
<1> QED
  BY <1>5, <1>6, <1>7, <1>8, <1>9, <1>10 DEF CallInv

LEMMA FailedIsQuiet ==
  ASSUME Typed, NEW r \in Request, req[r].pc \in {"write", "await"}, NEW b \in BOOLEAN,
         req' = [req EXCEPT ![r] = Failed(req[r], b)], SameCalls
  PROVE  Quiet(r)
<1> DEFINE p == Failed(req[r], b)
<1>1. p \in RequestRecord /\ Local(p) /\ p.pc \in {"fail", "retry", "done"}
  BY RecordOf, FailedRecord
<1>2. p.pc \notin {"write", "await", "jobget"} /\ p.method # "job_wait"
  BY <1>1 DEF Local
<1> HIDE DEF p
<1> QED
  BY <1>1, <1>2 DEF Quiet, p

LEMMA FinishedIsQuiet ==
  ASSUME Typed, NEW r \in Request, NEW result \in {"answer", "error", "timeout"},
         req' = [req EXCEPT ![r] = Finished(req[r], result)], SameCalls
  PROVE  Quiet(r)
<1> DEFINE p == Finished(req[r], result)
<1>1. p \in RequestRecord /\ p.pc = "done" /\ p.method = Nil
  BY RecordOf, FinishedRecord
<1>2. p.method # "job_wait"
  BY <1>1, DaemonAssumption DEF Method
<1> HIDE DEF p
<1> QED
  BY <1>1, <1>2 DEF Quiet, p

LEMMA SameCallsStep ==
  ASSUME Typed, NEW n \in Session, NEW s, sess' = [sess EXCEPT ![n] = s],
         Same(s, sess[n]), s.listen \in {"deleting", "gone"} => Dead(n)
  PROVE  SameCalls
BY DEF SameCalls, Same, Dead, Typed, TypeOK

LEMMA UnchangedSessions == UNCHANGED sess => SameCalls
BY DEF SameCalls, Same, Dead

LEMMA ArriveQuiet ==
  ASSUME Typed, NEW r \in Request, Arrive(r)
  PROVE  Quiet(r)
<1>1. Typed' /\ UNCHANGED sess /\ req[r].pc = "idle"
  BY ArriveTyped DEF Arrive
<1>2. CASE \E k \in Kind : \E j \in IF k = "call" THEN {Nil} ELSE Job :
             req' = [req EXCEPT ![r].pc = "pick", ![r].kind = k, ![r].job = j]
  <2>1. PICK k \in Kind : \E j \in IF k = "call" THEN {Nil} ELSE Job :
          req' = [req EXCEPT ![r].pc = "pick", ![r].kind = k, ![r].job = j]
    BY <1>2
  <2>2. PICK j \in IF k = "call" THEN {Nil} ELSE Job :
          req' = [req EXCEPT ![r].pc = "pick", ![r].kind = k, ![r].job = j]
    BY <2>1
  <2>3. req' = [req EXCEPT ![r] = req'[r]] /\ req'[r].pc = "pick"
    BY <2>2 DEF Typed, TypeOK, RequestRecord
  <2>4. req'[r] \in RequestRecord /\ Local(req'[r])
    BY <1>1 DEF Typed, TypeOK, Locals
  <2> QED
    BY <1>1, <2>3, <2>4, UnchangedSessions DEF Quiet, Local
<1>3. ASSUME NEW result \in {"answer", "error"}, Finish(r, result)
      PROVE  Quiet(r)
  <2>1. req' = [req EXCEPT ![r] = Finished(req[r], result)]
    BY <1>3, Functions DEF Finish
  <2> QED
    BY <1>1, <2>1, UnchangedSessions, FinishedIsQuiet
<1> QED
  BY <1>2, <1>3 DEF Arrive

LEMMA PassOverQuiet ==
  ASSUME Typed, NEW r \in Request, PassOver(r)
  PROVE  Quiet(r)
<1>1. PICK i \in DOMAIN slots : ScanAt(r, i) /\ req' = [req EXCEPT ![r].at = i]
  BY DEF PassOver
<1> DEFINE p == [req[r] EXCEPT !.at = i]
<1>2. req' = [req EXCEPT ![r] = p] /\ req[r].pc = "pick" /\ UNCHANGED sess
  BY <1>1, Functions DEF PassOver, ScanAt
<1>3. i \in Nat
  BY <1>1 DEF Typed, TypeOK
<1>4. p \in RequestRecord /\ p.pc = "pick" /\ p.method # "job_wait"
  BY <1>2, <1>3, RecordOf DEF RequestRecord, Local
<1> HIDE DEF p
<1> QED
  BY <1>2, <1>4, UnchangedSessions DEF Quiet

LEMMA PickIdleQuiet ==
  ASSUME Typed, NEW r \in Request, PickIdle(r)
  PROVE  Quiet(r)
<1>1. PICK i \in DOMAIN slots :
        /\ slots[i] # Nil
        /\ req' = [req EXCEPT ![r] = Entered([@ EXCEPT !.ses = slots[i], !.at = 0])]
  BY DEF PickIdle
<1> DEFINE q == [req[r] EXCEPT !.ses = slots[i], !.at = 0]
<1>2. req' = [req EXCEPT ![r] = Entered(q)] /\ req[r].pc = "pick" /\ UNCHANGED sess
  BY <1>1 DEF Typed, TypeOK, PickIdle
<1>3. slots[i] \in Session
  BY <1>1 DEF Typed, TypeOK
<1>4. q \in RequestRecord /\ q.kind \in Kind /\ q.ses \in Session
      /\ (q.kind # "call" => q.job \in Job)
  BY <1>2, <1>3, RecordOf DEF RequestRecord, Local
<1>5. /\ Entered(q) \in RequestRecord
      /\ Entered(q).pc \in {"register", "joblookup", "peek"}
      /\ Entered(q).method \in {"user", Nil}
  BY <1>4, EnteredRecord
<1>6. Entered(q).method # "job_wait"
  BY <1>5, DaemonAssumption DEF Method
<1> HIDE DEF q
<1> QED
  BY <1>2, <1>5, <1>6, UnchangedSessions DEF Quiet

LEMMA PickNewQuiet ==
  ASSUME Typed, NEW r \in Request, PickNew(r)
  PROVE  Quiet(r)
<1>1. PICK n \in Unused, i \in 1 .. Len(slots) + 1 :
        /\ req' = [req EXCEPT ![r] = [@ EXCEPT !.pc = "dial", !.ses = n, !.at = 0]]
        /\ sess' = [sess EXCEPT ![n] = [@ EXCEPT !.fut = "pending", !.channel = i]]
        /\ slots' = IF i \in DOMAIN slots THEN [slots EXCEPT ![i] = n]
                                          ELSE Append(slots, n)
  BY PickNewShape
<1> DEFINE p == [req[r] EXCEPT !.pc = "dial", !.ses = n, !.at = 0]
<1>2. n \in Session /\ req[r].pc = "pick"
  BY DEF Unused, PickNew
<1>3. p \in RequestRecord /\ p.pc = "dial" /\ p.method # "job_wait"
  <2>1. req[r] \in RequestRecord /\ Local(req[r])
    BY RecordOf
  <2>2. p \in RequestRecord /\ p.pc = "dial" /\ p.method = req[r].method
    BY <1>2, <2>1 DEF RequestRecord, RequestState
  <2> QED
    BY <1>2, <2>1, <2>2 DEF Local
<1>4. req' = [req EXCEPT ![r] = p]
  BY <1>1 DEF Typed, TypeOK
<1>5. SameCalls
  <2> DEFINE s == [sess[n] EXCEPT !.fut = "pending", !.channel = i]
  <2>1. sess' = [sess EXCEPT ![n] = s]
    BY <1>1, <1>2 DEF Typed, TypeOK
  <2>2. Same(s, sess[n]) /\ s.listen = sess[n].listen
    BY <1>2, SessionOf DEF SessionRecord, Same
  <2> QED
    BY <1>2, <2>1, <2>2, SameCallsStep DEF Dead
<1> QED
  BY <1>3, <1>4, <1>5 DEF Quiet

LEMMA DialQuiet ==
  ASSUME Typed, NEW r \in Request, Dial(r)
  PROVE  Quiet(r)
<1>1. Typed' /\ req[r].pc = "dial" /\ req[r].ses \in Session
  BY DialTyped, RecordOf DEF Dial, Local
<1>2. /\ req' = [req EXCEPT ![r] = req'[r]]
      /\ \/ req'[r].pc = "fail"
         \/ req'[r].pc = "register" /\ req'[r].method = "login"
  BY DEF Dial, GoTo, Typed, TypeOK, RequestRecord
<1>3. req'[r] \in RequestRecord /\ Local(req'[r])
  BY <1>1 DEF Typed, TypeOK, Locals
<1>4. SameCalls
  <2> DEFINE s == [sess[req[r].ses] EXCEPT !.conn = "open", !.listen = "reading"]
  <2>1. CASE sess' = [sess EXCEPT ![req[r].ses].conn = "open",
                                  ![req[r].ses].listen = "reading"]
    <3>1. sess' = [sess EXCEPT ![req[r].ses] = s]
      BY <1>1, <2>1, Functions
    <3>2. Same(s, sess[req[r].ses]) /\ s.listen = "reading"
      BY <1>1, SessionOf DEF SessionRecord, Same
    <3> QED
      BY <1>1, <3>1, <3>2, SameCallsStep DEF Dead
  <2> QED
    BY <2>1, UnchangedSessions DEF Dial
<1>5. req'[r].pc \notin {"write", "await", "jobget"} /\ req'[r].method # "job_wait"
  BY <1>2, <1>3 DEF Local
<1> QED
  BY <1>2, <1>3, <1>4, <1>5 DEF Quiet

LEMMA SettleQuiet ==
  ASSUME Typed, NEW r \in Request, Settle(r)
  PROVE  Quiet(r)
<1> DEFINE n == req[r].ses
           p == [req[r] EXCEPT !.pc = "delete"]
<1>1. /\ n \in Session
      /\ \/ /\ req[r].pc = "settle"
            /\ req' = [req EXCEPT ![r] = Entered(req[r])]
            /\ sess' = [sess EXCEPT ![n] = [sess[n] EXCEPT !.fut = "ok"]]
         \/ /\ req[r].pc = "fail"
            /\ req' = [req EXCEPT ![r] = p]
            /\ sess' = [sess EXCEPT ![n] = [sess[n] EXCEPT !.fut = "failed"]]
  BY SettleShape
<1>2. SameCalls
  <2>1. ASSUME NEW f \in {"ok", "failed"}
        PROVE  LET s == [sess[n] EXCEPT !.fut = f]
               IN  Same(s, sess[n]) /\ s.listen = sess[n].listen
    BY <1>1, SessionOf DEF SessionRecord, Same
  <2> QED
    BY <1>1, <2>1, SameCallsStep DEF Dead
<1>3. CASE req[r].pc = "settle"
  <2>1. /\ req[r].kind \in Kind /\ req[r].ses \in Session
        /\ req[r].kind # "call" => req[r].job \in Job
    BY <1>3, RecordOf DEF Local
  <2>2. /\ Entered(req[r]) \in RequestRecord
        /\ Entered(req[r]).pc \in {"register", "joblookup", "peek"}
        /\ Entered(req[r]).method \in {"user", Nil}
    BY <2>1, RecordOf, EnteredRecord
  <2>3. Entered(req[r]).method # "job_wait"
    BY <2>2, DaemonAssumption DEF Method
  <2> QED
    BY <1>1, <1>2, <1>3, <2>2, <2>3 DEF Quiet
<1>4. CASE req[r].pc = "fail"
  <2>1. p \in RequestRecord /\ p.pc = "delete" /\ p.method # "job_wait"
    BY <1>4, RecordOf DEF RequestRecord, RequestState, Local
  <2> QED
    BY <1>1, <1>2, <1>4, <2>1 DEF Quiet
<1> QED
  BY <1>1, <1>3, <1>4

LEMMA DeleteQuiet ==
  ASSUME Typed, NEW r \in Request, Delete(r)
  PROVE  Quiet(r)
<1>1. Typed' /\ UNCHANGED sess
  BY DeleteTyped DEF Delete
<1>2. CASE req[r].pc = "delete"
  <2>1. req' = [req EXCEPT ![r] = Finished(req[r], "error")]
    BY <1>2 DEF Delete, Finish, Typed, TypeOK
  <2> QED
    BY <1>1, <2>1, FinishedIsQuiet, UnchangedSessions
<1>3. CASE req[r].pc = "retry"
  <2>1. req' = [req EXCEPT ![r] = req'[r]] /\ req'[r].pc = "pick"
    BY <1>3 DEF Delete, Typed, TypeOK, RequestRecord
  <2>2. req'[r] \in RequestRecord /\ Local(req'[r])
    BY <1>1 DEF Typed, TypeOK, Locals
  <2> QED
    BY <1>1, <2>1, <2>2, UnchangedSessions DEF Quiet, Local
<1> QED
  BY <1>2, <1>3 DEF Delete

LEMMA WriteClosedQuiet ==
  ASSUME Typed, NEW r \in Request, WriteClosed(r)
  PROVE  Quiet(r)
<1> DEFINE b == sess[req[r].ses].conn = "closed"
<1>1. /\ req[r].pc = "write" /\ UNCHANGED sess
      /\ req' = [req EXCEPT ![r] = Failed(req[r], b)]
  BY DEF WriteClosed, Typed, TypeOK
<1>2. b \in BOOLEAN
  OBVIOUS
<1> HIDE DEF b
<1> QED
  BY <1>1, <1>2, FailedIsQuiet, UnchangedSessions

LEMMA CallTimeoutQuiet ==
  ASSUME Typed, NEW r \in Request, CallTimeout(r)
  PROVE  Quiet(r)
<1>1. req[r].pc = "await" /\ UNCHANGED sess
  BY DEF CallTimeout
<1>2. CASE req[r].method \in {"user", "job_wait"}
  <2>1. req' = [req EXCEPT ![r] = Finished(req[r], "timeout")]
    BY <1>2 DEF CallTimeout, Typed, TypeOK
  <2> QED
    BY <1>1, <2>1, FinishedIsQuiet, UnchangedSessions
<1>3. CASE req[r].method \notin {"user", "job_wait"}
  <2>1. req' = [req EXCEPT ![r] = Failed(req[r], FALSE)]
    BY <1>3 DEF CallTimeout, Typed, TypeOK
  <2> QED
    BY <1>1, <2>1, FailedIsQuiet, UnchangedSessions
<1> QED
  BY <1>2, <1>3

LEMMA JobAnswerQuiet ==
  ASSUME Typed, NEW r \in Request, JobGet(r) \/ PeekJob(r)
  PROVE  Quiet(r)
<1>1. PICK result \in {"answer", "error"} :
        req' = [req EXCEPT ![r] = Finished(req[r], result)]
  BY JobGetTyped, PeekJobTyped
<1>2. UNCHANGED sess
  BY DEF JobGet, PeekJob
<1> QED
  BY <1>1, <1>2, FinishedIsQuiet, UnchangedSessions

------------------------------------------------------------------------------
\* Steps of a call.

\* Where the locals of a goroutine make sense.
LEMMA SessionOfRequest ==
  ASSUME Typed, NEW q \in Request
  PROVE  /\ req[q].pc \in {"register", "write", "await", "jobget"} => req[q].ses \in Session
         /\ req[q].method = "job_wait" => req[q].ses \in Session /\ req[q].job \in Job
         /\ req[q].id \in Nat
BY RecordOf DEF Local, RequestRecord

LEMMA SessionFields ==
  ASSUME Typed, NEW n \in Session
  PROVE  /\ sess[n].lastId \in Nat
         /\ \A c \in sess[n].calls : c.id \in Nat /\ c.by \in Request
         /\ \A m \in sess[n].sent : m.id \in Nat /\ m.by \in Request /\ m.method \in Method
BY SessionOf DEF SessionRecord, Message

LEMMA RegisterInv ==
  ASSUME Typed, CallInv, NEW r \in Request, Register(r)
  PROVE  CallInv'
<1> DEFINE n == req[r].ses
           new == sess[n].lastId + 1
           p == [req[r] EXCEPT !.pc = "write", !.id = sess[n].lastId + 1,
                               !.fcall = "pending", !.reply = Nil]
           s == [sess[n] EXCEPT !.lastId = sess[n].lastId + 1,
                                !.calls = CallsWith(n, r), !.busy = TRUE]
<1>1. /\ req[r].pc = "register" /\ n \in Session
      /\ req' = [req EXCEPT ![r] = p] /\ sess' = [sess EXCEPT ![n] = s]
  BY RegisterShape
<1>2. /\ req'[r].pc = "write" /\ req'[r].ses = n /\ req'[r].id = new
      /\ req'[r].fcall = "pending"
      /\ req'[r].method = req[r].method /\ req'[r].job = req[r].job
      /\ \A q \in Request \ {r} : req'[q] = req[q]
  BY <1>1, RecordOf DEF Typed, TypeOK, RequestRecord
<1>3. /\ sess'[n].lastId = new /\ sess'[n].sent = sess[n].sent
      /\ sess'[n].calls = CallsWith(n, r)
      /\ sess'[n].listen = sess[n].listen /\ sess'[n].jobMap = sess[n].jobMap
      /\ \A k \in Session \ {n} : sess'[k] = sess[k]
  BY <1>1, SessionOf DEF Typed, TypeOK, SessionRecord
<1>4. sess[n].lastId \in Nat /\ \A c \in sess[n].calls : c.id \in Nat
  BY <1>1, SessionFields
<1>5. \A c \in sess[n].calls : c.id < new
  BY <1>1, <1>4 DEF CallInv, IdsUsedOnce
<1>6. CallsWith(n, r) = sess[n].calls \cup {[id |-> new, by |-> r]}
  BY <1>4, <1>5 DEF CallsWith
<1> HIDE DEF n, new, p, s
<1>7. new \in Nat /\ sess[n].lastId <= new
  BY <1>4 DEF new
<1>8. IdsUsedOnce'
  BY <1>1, <1>3, <1>4, <1>5, <1>6, <1>7, SessionFields DEF CallInv, IdsUsedOnce
<1>9. CallsRegistered'
  BY <1>1, <1>2, <1>3, <1>6, SessionOfRequest DEF CallInv, CallsRegistered
<1>10. Messages'
  <2> SUFFICES ASSUME NEW k \in Session, NEW m \in sess'[k].sent
               PROVE  /\ m.id <= sess'[k].lastId
                      /\ \A c \in sess'[k].calls : c.id = m.id => c.by = m.by
                      /\ InCall(m.by, k)' /\ req'[m.by].id = m.id
                           => m.method = req'[m.by].method
    BY DEF Messages
  <2>1. m \in sess[k].sent
    BY <1>3
  <2>2. /\ m.id <= sess[k].lastId /\ m.id \in Nat /\ m.by \in Request
        /\ \A c \in sess[k].calls : c.id = m.id => c.by = m.by
        /\ InCall(m.by, k) /\ req[m.by].id = m.id => m.method = req[m.by].method
    BY <2>1, SessionFields DEF CallInv, Messages
  <2>3. CASE k = n
    <3>1. m.id # new
      BY <2>2, <2>3, <1>4 DEF new
    <3> QED
      BY <1>2, <1>3, <1>4, <1>6, <1>7, <2>2, <2>3, <3>1 DEF InCall
  <2>4. CASE k # n
    BY <1>2, <1>3, <2>2, <2>4 DEF InCall
  <2> QED
    BY <2>3, <2>4
<1>11. Answers'
  BY <1>2 DEF CallInv, Answers
<1>12. JobsRegistered'
  BY <1>1, <1>2, <1>3, SessionOfRequest DEF CallInv, JobsRegistered, Dead, n
<1>13. CallsReleased'
  BY <1>1, <1>2, <1>3, SessionOfRequest DEF CallInv, CallsReleased, Dead
<1> QED
  BY <1>8, <1>9, <1>10, <1>11, <1>12, <1>13 DEF CallInv

\* TrueNAS has at most received the call of r, or has gone.
MaybeSent(r) ==
  \A k \in Session :
    /\ sess'[k].calls = sess[k].calls
    /\ sess'[k].lastId = sess[k].lastId
    /\ sess'[k].jobMap = sess[k].jobMap
    /\ sess'[k].listen = sess[k].listen
    /\ sess'[k].conn = sess[k].conn
    /\ \A m \in sess'[k].sent :
         m \in sess[k].sent \/ (/\ k = req[r].ses
                                /\ m.id = req[r].id
                                /\ m.by = r
                                /\ m.method = req[r].method)

LEMMA ServerReceivesSent ==
  ASSUME Typed, NEW r \in Request, req[r].ses \in Session, NEW ok \in BOOLEAN,
         ServerReceives(r, ok)
  PROVE  MaybeSent(r)
<1> DEFINE n == req[r].ses
           m == [id |-> req[r].id, by |-> r, method |-> req[r].method, ok |-> ok]
           s == [sess[n] EXCEPT !.sent = @ \cup {m},
                                !.subscribed = @ \/ req[r].method = "subscribe"]
<1>1. sess' = [sess EXCEPT ![n] = s]
  BY Functions DEF ServerReceives
<1>2. /\ s.calls = sess[n].calls /\ s.lastId = sess[n].lastId /\ s.jobMap = sess[n].jobMap
      /\ s.listen = sess[n].listen /\ s.conn = sess[n].conn /\ s.sent = sess[n].sent \cup {m}
  BY SessionOf DEF SessionRecord
<1>3. m.id = req[r].id /\ m.by = r /\ m.method = req[r].method
  OBVIOUS
<1> HIDE DEF m, s
<1> QED
  BY <1>1, <1>2, <1>3 DEF MaybeSent, Typed, TypeOK

LEMMA SentMessages ==
  ASSUME Typed, CallInv, NEW r \in Request, req[r].pc = "write", MaybeSent(r),
         NEW p, req' = [req EXCEPT ![r] = p],
         p.pc = "await" => p.ses = req[r].ses /\ p.id = req[r].id /\ p.method = req[r].method,
         p.pc # "write"
  PROVE  Messages'
<1> DEFINE n == req[r].ses
           call == [id |-> req[r].id, by |-> r]
<1>1. n \in Session /\ call \in sess[n].calls
  BY SessionOfRequest DEF CallInv, CallsRegistered
<1>2. call.id = req[r].id /\ call.by = r
  OBVIOUS
<1> HIDE DEF call
<1>3. req'[r] = p /\ \A q \in Request \ {r} : req'[q] = req[q]
  BY DEF Typed, TypeOK
<1> SUFFICES ASSUME NEW k \in Session, NEW m \in sess'[k].sent
             PROVE  /\ m.id <= sess'[k].lastId
                    /\ \A c \in sess'[k].calls : c.id = m.id => c.by = m.by
                    /\ InCall(m.by, k)' /\ req'[m.by].id = m.id
                         => m.method = req'[m.by].method
  BY DEF Messages
<1>4. sess'[k].calls = sess[k].calls /\ sess'[k].lastId = sess[k].lastId
  BY DEF MaybeSent
<1>5. CASE m \in sess[k].sent
  <2>1. /\ m.id <= sess[k].lastId /\ m.by \in Request
        /\ \A c \in sess[k].calls : c.id = m.id => c.by = m.by
        /\ InCall(m.by, k) /\ req[m.by].id = m.id => m.method = req[m.by].method
    BY <1>5, SessionFields DEF CallInv, Messages
  <2> QED
    BY <1>3, <1>4, <2>1 DEF InCall
<1>6. CASE m \notin sess[k].sent
  <2>1. k = n /\ m.id = req[r].id /\ m.by = r /\ m.method = req[r].method
    BY <1>6 DEF MaybeSent
  <2>2. m.id <= sess[k].lastId
    BY <1>1, <1>2, <2>1 DEF CallInv, IdsUsedOnce
  <2>3. \A c \in sess[k].calls : c.id = m.id => c.by = m.by
    BY <1>1, <1>2, <2>1 DEF CallInv, IdsUsedOnce
  <2> QED
    BY <1>3, <1>4, <2>1, <2>2, <2>3 DEF InCall
<1> QED
  BY <1>5, <1>6

\* A request that has written its call and awaits the answer.
LEMMA AwaitInv ==
  ASSUME Typed, Connections, CallInv, NEW r \in Request, req[r].pc = "write",
         sess[req[r].ses].conn \in {"open", "lost"}, MaybeSent(r),
         NEW p, req' = [req EXCEPT ![r] = p], p.pc = "await",
         p.ses = req[r].ses, p.id = req[r].id, p.method = req[r].method,
         p.job = req[r].job, p.fcall = req[r].fcall, p.reply = req[r].reply
  PROVE  CallInv'
<1>1. req'[r] = p /\ \A q \in Request \ {r} : req'[q] = req[q]
  BY DEF Typed, TypeOK
<1>2. req[r].ses \in Session /\ ~Dead(req[r].ses)
  BY SessionOfRequest DEF Connections, Dead
<1>3. \A k \in Session : /\ sess'[k].calls = sess[k].calls
                         /\ sess'[k].lastId = sess[k].lastId
                         /\ sess'[k].jobMap = sess[k].jobMap
                         /\ sess'[k].listen = sess[k].listen
  BY DEF MaybeSent
<1>4. IdsUsedOnce'
  BY <1>3 DEF CallInv, IdsUsedOnce
<1>5. CallsRegistered'
  BY <1>1, <1>2, <1>3, SessionOfRequest DEF CallInv, CallsRegistered
<1>6. Messages'
  BY SentMessages
<1>7. Answers'
  BY <1>1 DEF CallInv, Answers
<1>8. JobsRegistered'
  BY <1>1, <1>2, <1>3, SessionOfRequest DEF CallInv, JobsRegistered, Dead
<1>9. CallsReleased'
  BY <1>1, <1>2, <1>3, SessionOfRequest DEF CallInv, CallsReleased, Dead
<1> QED
  BY <1>4, <1>5, <1>6, <1>7, <1>8, <1>9 DEF CallInv

\* A request whose write failed although TrueNAS may have received the call.
LEMMA FailedWriteInv ==
  ASSUME Typed, CallInv, NEW r \in Request, req[r].pc = "write", MaybeSent(r),
         NEW p, req' = [req EXCEPT ![r] = p],
         p.pc \notin {"write", "await", "jobget"}, p.method # "job_wait"
  PROVE  CallInv'
<1>1. req'[r] = p /\ \A q \in Request \ {r} : req'[q] = req[q]
  BY DEF Typed, TypeOK
<1>2. \A k \in Session : /\ sess'[k].calls = sess[k].calls
                         /\ sess'[k].lastId = sess[k].lastId
                         /\ sess'[k].jobMap = sess[k].jobMap
                         /\ sess'[k].listen = sess[k].listen
  BY DEF MaybeSent
<1>3. IdsUsedOnce'
  BY <1>2 DEF CallInv, IdsUsedOnce
<1>4. CallsRegistered'
  BY <1>1, <1>2, SessionOfRequest DEF CallInv, CallsRegistered
<1>5. Messages'
  BY SentMessages
<1>6. Answers'
  BY <1>1 DEF CallInv, Answers
<1>7. JobsRegistered'
  BY <1>1, <1>2, SessionOfRequest DEF CallInv, JobsRegistered, Dead
<1>8. CallsReleased'
  BY <1>1, <1>2, SessionOfRequest DEF CallInv, CallsReleased, Dead
<1> QED
  BY <1>3, <1>4, <1>5, <1>6, <1>7, <1>8 DEF CallInv

LEMMA WriteOpenInv ==
  ASSUME Typed, Connections, CallInv, NEW r \in Request, WriteOpen(r)
  PROVE  CallInv'
<1> DEFINE p == [req[r] EXCEPT !.pc = "await", !.runs = Received(req[r])]
<1>1. req[r].pc = "write" /\ sess[req[r].ses].conn = "open" /\ req[r].ses \in Session
  BY SessionOfRequest DEF WriteOpen
<1>2. req' = [req EXCEPT ![r] = p]
  BY Functions DEF WriteOpen
<1>3. /\ p.pc = "await" /\ p.ses = req[r].ses /\ p.id = req[r].id
      /\ p.method = req[r].method /\ p.job = req[r].job
      /\ p.fcall = req[r].fcall /\ p.reply = req[r].reply
  BY RecordOf DEF RequestRecord
<1>4. MaybeSent(r)
  BY <1>1, ServerReceivesSent DEF WriteOpen
<1> HIDE DEF p
<1> QED
  BY <1>1, <1>2, <1>3, <1>4, AwaitInv

LEMMA WriteLostInv ==
  ASSUME Typed, Connections, CallInv, NEW r \in Request, WriteLost(r)
  PROVE  CallInv'
<1>1. req[r].pc = "write" /\ sess[req[r].ses].conn = "lost" /\ UNCHANGED sess
  BY DEF WriteLost
<1>2. CASE GoTo(r, "await")
  <2> DEFINE p == [req[r] EXCEPT !.pc = "await"]
  <2>1. req' = [req EXCEPT ![r] = p]
    BY <1>2, Functions DEF GoTo
  <2>2. /\ p.pc = "await" /\ p.ses = req[r].ses /\ p.id = req[r].id
        /\ p.method = req[r].method /\ p.job = req[r].job
        /\ p.fcall = req[r].fcall /\ p.reply = req[r].reply
    BY RecordOf DEF RequestRecord
  <2>3. MaybeSent(r)
    BY <1>1 DEF MaybeSent
  <2> HIDE DEF p
  <2> QED
    BY <1>1, <2>1, <2>2, <2>3, AwaitInv
<1>3. CASE req' = [req EXCEPT ![r] = Failed(@, FALSE)]
  <2>1. req' = [req EXCEPT ![r] = Failed(req[r], FALSE)]
    BY <1>3 DEF Typed, TypeOK
  <2> QED
    BY <1>1, <2>1, FailedIsQuiet, UnchangedSessions, QuietInv
<1> QED
  BY <1>2, <1>3 DEF WriteLost

LEMMA WriteCollidesInv ==
  ASSUME Typed, CallInv, NEW r \in Request, WriteCollides(r)
  PROVE  CallInv'
<1>1. req[r].pc = "write" /\ req[r].ses \in Session
  BY SessionOfRequest DEF WriteCollides
<1>2. CASE /\ \E shouldRetry \in BOOLEAN :
                req' = [req EXCEPT ![r] = Failed(@, shouldRetry)]
           /\ UNCHANGED <<sess, waits>>
  <2>1. PICK b \in BOOLEAN : req' = [req EXCEPT ![r] = Failed(req[r], b)]
    BY <1>2 DEF Typed, TypeOK
  <2> QED
    BY <1>1, <1>2, <2>1, FailedIsQuiet, UnchangedSessions, QuietInv
<1>3. CASE /\ \E ok \in BOOLEAN : ServerReceives(r, ok)
           /\ req' = [req EXCEPT ![r] = Failed([@ EXCEPT !.runs = Received(req[r]),
                                                         !.collided = TRUE], TRUE)]
  <2> DEFINE q == [req[r] EXCEPT !.runs = Received(req[r]), !.collided = TRUE]
             p == Failed(q, TRUE)
  <2>1. req' = [req EXCEPT ![r] = p]
    BY <1>3 DEF Typed, TypeOK
  <2>2. Received(req[r]) \in Nat
    BY RecordOf DEF Received, RequestRecord
  <2>3. q \in RequestRecord /\ Local(q) /\ q.pc \in {"write", "await"}
    BY <1>1, <2>2, RecordOf DEF RequestRecord, Local
  <2>4. Local(p) /\ p.pc \in {"fail", "retry", "done"}
    BY <2>3, FailedRecord
  <2>5. p.pc \notin {"write", "await", "jobget"} /\ p.method # "job_wait"
    BY <2>4 DEF Local
  <2>6. MaybeSent(r)
    BY <1>1, <1>3, ServerReceivesSent
  <2> HIDE DEF p
  <2> QED
    BY <1>1, <2>1, <2>5, <2>6, FailedWriteInv
<1> QED
  BY <1>2, <1>3 DEF WriteCollides

LEMMA CallReturnInv ==
  ASSUME Typed, CallInv, NEW r \in Request, CallReturn(r)
  PROVE  CallInv'
<1> DEFINE n == req[r].ses
           s == [sess[n] EXCEPT !.calls = CallsWithout(n, r), !.busy = FALSE]
<1>1. /\ req[r].pc = "await" /\ n \in Session
      /\ \/ req' = [req EXCEPT ![r] = Answered(req[r])]
         \/ req' = [req EXCEPT ![r] = Failed(req[r], FALSE)]
      /\ sess' = [sess EXCEPT ![n] = s]
  BY CallReturnShape
<1>2. PICK p : /\ req' = [req EXCEPT ![r] = p]
               /\ p.pc \notin {"write", "await"}
               /\ p.pc = "jobget" => p.method = "job_wait"
               /\ p.method = "job_wait" =>
                    p.ses = n /\ p.job = req[r].job /\ req[r].method = "job_wait"
  <2>1. CASE req' = [req EXCEPT ![r] = Answered(req[r])]
    <3> DEFINE p == Answered(req[r])
    <3>1. /\ Local(p) /\ p.pc \in {"register", "settle", "done", "jobget"}
          /\ p.pc = "jobget" => p.ses = n /\ p.job = req[r].job
          /\ p.pc = "register" => p.method = "subscribe"
          /\ p.pc = "jobget" => req[r].method = "job_wait"
      BY <1>1, RecordOf, AnsweredRecord
    <3> HIDE DEF p
    <3> QED
      BY <2>1, <3>1 DEF Local, p
  <2>2. CASE req' = [req EXCEPT ![r] = Failed(req[r], FALSE)]
    <3> DEFINE p == Failed(req[r], FALSE)
    <3>1. Local(p) /\ p.pc \in {"fail", "retry", "done"}
      BY <1>1, RecordOf, FailedRecord
    <3> HIDE DEF p
    <3> QED
      BY <2>2, <3>1 DEF Local, p
  <2> QED
    BY <1>1, <2>1, <2>2
<1>3. req'[r] = p /\ \A q \in Request \ {r} : req'[q] = req[q]
  BY <1>2 DEF Typed, TypeOK
<1>4. /\ sess'[n].calls = CallsWithout(n, r)
      /\ \A k \in Session : /\ sess'[k].lastId = sess[k].lastId
                            /\ sess'[k].sent = sess[k].sent
                            /\ sess'[k].jobMap = sess[k].jobMap
                            /\ sess'[k].listen = sess[k].listen
                            /\ k # n => sess'[k].calls = sess[k].calls
  <2>1. sess'[n] = s /\ \A k \in Session \ {n} : sess'[k] = sess[k]
    BY <1>1, Functions
  <2>2. sess[n] \in SessionRecord
    BY <1>1, SessionOf
  <2>3. /\ s.calls = CallsWithout(n, r)
        /\ s.lastId = sess[n].lastId /\ s.sent = sess[n].sent
        /\ s.jobMap = sess[n].jobMap /\ s.listen = sess[n].listen
    BY <2>2 DEF SessionRecord
  <2> HIDE DEF n, s
  <2> QED
    BY <2>1, <2>3
<1>5. \A k \in Session : sess'[k].calls \subseteq sess[k].calls
  BY <1>4 DEF CallsWithout
<1> HIDE DEF n, s
<1>6. n \in Session
  BY <1>1
<1>7. IdsUsedOnce'
  BY <1>4, <1>5 DEF CallInv, IdsUsedOnce
<1>8. CallsRegistered'
  <2> SUFFICES ASSUME NEW q \in Request, req'[q].pc \in {"write", "await"}
               PROVE  [id |-> req'[q].id, by |-> q] \in sess'[req'[q].ses].calls
    BY DEF CallsRegistered
  <2>1. q # r /\ req'[q] = req[q]
    BY <1>2, <1>3
  <2> DEFINE c == [id |-> req[q].id, by |-> q]
             d == [id |-> req[r].id, by |-> r]
  <2>2. c \in sess[req[q].ses].calls /\ req[q].ses \in Session
    BY <2>1, SessionOfRequest DEF CallInv, CallsRegistered
  <2>3. CASE req[q].ses = n
    <3>1. d \in sess[n].calls
      BY <1>1 DEF CallInv, CallsRegistered, n
    <3>2. c # d /\ c.id = req[q].id /\ d.id = req[r].id
      BY <2>1
    <3>3. c.id # d.id
      BY <1>6, <2>2, <2>3, <3>1, <3>2 DEF CallInv, IdsUsedOnce
    <3> QED
      BY <1>4, <2>1, <2>2, <2>3, <3>2, <3>3 DEF CallsWithout
  <2>4. CASE req[q].ses # n
    BY <1>4, <2>1, <2>2, <2>4
  <2> QED
    BY <2>3, <2>4
<1>9. Messages'
  <2>1. \A k \in Session : \A m \in sess[k].sent : m.by \in Request
    BY SessionFields
  <2> QED
    BY <1>2, <1>3, <1>4, <1>5, <2>1 DEF CallInv, Messages, InCall
<1>10. Answers'
  BY <1>2, <1>3 DEF CallInv, Answers
<1>11. JobsRegistered'
  BY <1>1, <1>2, <1>3, <1>4, SessionOfRequest DEF CallInv, JobsRegistered, Dead, n
<1>12. CallsReleased'
  BY <1>2, <1>3, <1>4, SessionOfRequest DEF CallInv, CallsReleased, Dead
<1> QED
  BY <1>7, <1>8, <1>9, <1>10, <1>11, <1>12 DEF CallInv

LEMMA JobLookupInv ==
  ASSUME Typed, CallInv, NEW r \in Request, JobLookup(r)
  PROVE  CallInv'
<1> DEFINE n == req[r].ses
           j == req[r].job
           p == [req[r] EXCEPT !.pc = "register", !.method = "job_wait"]
           s == [sess[n] EXCEPT !.jobMap = [sess[n].jobMap EXCEPT ![j] = "pending"]]
<1>1. /\ req[r].pc = "joblookup" /\ n \in Session /\ j \in Job
      /\ \/ /\ \E result \in {"answer", "error"} :
                 req' = [req EXCEPT ![r] = Finished(req[r], result)]
            /\ UNCHANGED sess
         \/ /\ sess[n].jobMap[j] \in {"absent", "pending"}
            /\ req' = [req EXCEPT ![r] = p]
            /\ sess' = [sess EXCEPT ![n] = s]
      /\ UNCHANGED <<slots, jobs, waits>>
  BY JobLookupShape
<1>2. ASSUME NEW result \in {"answer", "error"},
             req' = [req EXCEPT ![r] = Finished(req[r], result)], UNCHANGED sess
      PROVE  CallInv'
  BY <1>2, FinishedIsQuiet, UnchangedSessions, QuietInv
<1>3. CASE /\ sess[n].jobMap[j] \in {"absent", "pending"}
           /\ req' = [req EXCEPT ![r] = p]
           /\ sess' = [sess EXCEPT ![n] = s]
  <2>1. /\ req'[r].pc = "register" /\ req'[r].ses = n /\ req'[r].job = j
        /\ \A q \in Request \ {r} : req'[q] = req[q]
    BY <1>3, RecordOf DEF Typed, TypeOK, RequestRecord
  <2>2. /\ sess'[n].jobMap = [sess[n].jobMap EXCEPT ![j] = "pending"]
        /\ \A k \in Session : /\ sess'[k].lastId = sess[k].lastId
                              /\ sess'[k].sent = sess[k].sent
                              /\ sess'[k].calls = sess[k].calls
                              /\ sess'[k].listen = sess[k].listen
                              /\ k # n => sess'[k].jobMap = sess[k].jobMap
    <3>1. sess'[n] = s /\ \A k \in Session \ {n} : sess'[k] = sess[k]
      BY <1>1, <1>3, Functions
    <3>2. sess[n] \in SessionRecord
      BY <1>1, SessionOf
    <3>3. /\ s.jobMap = [sess[n].jobMap EXCEPT ![j] = "pending"]
          /\ s.lastId = sess[n].lastId /\ s.sent = sess[n].sent
          /\ s.calls = sess[n].calls /\ s.listen = sess[n].listen
      BY <3>2 DEF SessionRecord
    <3> HIDE DEF n, j, p, s
    <3> QED
      BY <3>1, <3>3
  <2>3. /\ sess[n].jobMap[j] \in {"absent", "pending"}
        /\ DOMAIN sess[n].jobMap = Job
    BY <1>1, <1>3, SessionOf DEF SessionRecord
  <2> HIDE DEF n, j, p, s
  <2>4. IdsUsedOnce'
    BY <2>2 DEF CallInv, IdsUsedOnce
  <2>5. CallsRegistered'
    BY <2>1, <2>2, SessionOfRequest DEF CallInv, CallsRegistered
  <2>6. Messages'
    <3>1. \A k \in Session : \A m \in sess[k].sent : m.by \in Request
      BY SessionFields
    <3> QED
      BY <2>1, <2>2, <3>1 DEF CallInv, Messages, InCall
  <2>7. Answers'
    BY <2>1 DEF CallInv, Answers
  <2>8. JobsRegistered'
    <3> SUFFICES ASSUME NEW q \in Request, req'[q].method = "job_wait"
                 PROVE  /\ sess'[req'[q].ses].jobMap[req'[q].job] # "absent"
                        /\ req'[q].pc \in {"await", "jobget"}
                           /\ sess'[req'[q].ses].listen \in {"deleting", "gone"} =>
                             sess'[req'[q].ses].jobMap[req'[q].job] # "pending"
      BY DEF JobsRegistered, Dead
    <3>1. CASE q = r
      BY <1>1, <2>1, <2>2, <2>3, <3>1
    <3>2. CASE q # r
      <4>1. /\ req'[q] = req[q] /\ req[q].ses \in Session /\ req[q].job \in Job
            /\ sess[req[q].ses].jobMap[req[q].job] # "absent"
            /\ req[q].pc \in {"await", "jobget"} /\ Dead(req[q].ses) =>
                 sess[req[q].ses].jobMap[req[q].job] # "pending"
        BY <2>1, <3>2, SessionOfRequest DEF CallInv, JobsRegistered
      <4>2. sess'[req[q].ses].listen = sess[req[q].ses].listen
        BY <2>2, <4>1
      <4>3. CASE req[q].ses = n /\ req[q].job = j
        BY <1>1, <2>2, <2>3, <4>1, <4>2, <4>3 DEF Dead
      <4>4. CASE ~(req[q].ses = n /\ req[q].job = j)
        <5>1. sess'[req[q].ses].jobMap[req[q].job] = sess[req[q].ses].jobMap[req[q].job]
          BY <1>1, <2>2, <2>3, <4>1, <4>4
        <5> QED
          BY <4>1, <4>2, <5>1 DEF Dead
      <4> QED
        BY <4>3, <4>4
    <3> QED
      BY <3>1, <3>2
  <2>9. CallsReleased'
    BY <2>1, <2>2, SessionOfRequest DEF CallInv, CallsReleased, Dead
  <2> QED
    BY <2>4, <2>5, <2>6, <2>7, <2>8, <2>9 DEF CallInv
<1> QED
  BY <1>1, <1>2, <1>3

------------------------------------------------------------------------------
\* Steps of listeners and of TrueNAS.

LEMMA SessionsOnlyInv ==
  ASSUME Typed, CallInv, UNCHANGED req, SameCalls
  PROVE  CallInv'
<1>1. IdsUsedOnce'
  BY DEF CallInv, IdsUsedOnce, SameCalls, Same
<1>2. CallsRegistered'
  BY SessionOfRequest DEF CallInv, CallsRegistered, SameCalls, Same
<1>3. Messages'
  BY DEF CallInv, Messages, SameCalls, Same, InCall
<1>4. Answers'
  BY DEF CallInv, Answers
<1>5. JobsRegistered'
  BY SessionOfRequest DEF CallInv, JobsRegistered, SameCalls, Same, Dead
<1>6. CallsReleased'
  BY SessionOfRequest DEF CallInv, CallsReleased, SameCalls, Dead
<1> QED
  BY <1>1, <1>2, <1>3, <1>4, <1>5, <1>6 DEF CallInv

\* What ListenReply does to the requests and to the sessions.
LEMMA ListenReplyShape ==
  ASSUME Typed, NEW n \in Session, ListenReply(n)
  PROVE  \E m \in sess[n].sent :
           /\ \A r \in Request :
                /\ req'[r].pc = req[r].pc /\ req'[r].ses = req[r].ses
                /\ req'[r].id = req[r].id /\ req'[r].method = req[r].method
                /\ req'[r].job = req[r].job /\ req'[r].runs = req[r].runs
                /\ req'[r].collided = req[r].collided
                /\ \/ req'[r] = req[r]
                   \/ /\ req'[r].fcall = "answered" /\ req'[r].reply = m
                      /\ \E c \in sess[n].calls : c.id = m.id /\ c.by = r /\ Awaits(n, c)
           /\ SameCalls
<1>1. PICK m \in sess[n].sent :
       /\ sess' = [sess EXCEPT ![n].sent = @ \ {m}]
       /\ req' = [r \in Request |->
                    IF \E c \in sess[n].calls : c.id = m.id /\ c.by = r /\ Awaits(n, c)
                    THEN [req[r] EXCEPT !.fcall = "answered", !.reply = m]
                    ELSE req[r]]
  BY DEF ListenReply
<1>2. ASSUME NEW r \in Request
      PROVE  /\ req'[r].pc = req[r].pc /\ req'[r].ses = req[r].ses
             /\ req'[r].id = req[r].id /\ req'[r].method = req[r].method
             /\ req'[r].job = req[r].job /\ req'[r].runs = req[r].runs
             /\ req'[r].collided = req[r].collided
             /\ \/ req'[r] = req[r]
                \/ /\ req'[r].fcall = "answered" /\ req'[r].reply = m
                   /\ \E c \in sess[n].calls : c.id = m.id /\ c.by = r /\ Awaits(n, c)
  <2>1. CASE \E c \in sess[n].calls : c.id = m.id /\ c.by = r /\ Awaits(n, c)
    <3>1. req'[r] = [req[r] EXCEPT !.fcall = "answered", !.reply = m]
      BY <1>1, <2>1
    <3> QED
      BY <2>1, <3>1, RecordOf DEF RequestRecord
  <2>2. CASE ~\E c \in sess[n].calls : c.id = m.id /\ c.by = r /\ Awaits(n, c)
    BY <1>1, <2>2
  <2> QED
    BY <2>1, <2>2
<1>3. SameCalls
  <2> DEFINE s == [sess[n] EXCEPT !.sent = sess[n].sent \ {m}]
  <2>1. sess' = [sess EXCEPT ![n] = s]
    BY <1>1 DEF Typed, TypeOK
  <2>2. Same(s, sess[n]) /\ s.listen = sess[n].listen
    BY SessionOf DEF SessionRecord, Same
  <2> HIDE DEF s
  <2> QED
    BY <2>1, <2>2, SameCallsStep DEF Dead
<1> QED
  BY <1>2, <1>3

LEMMA ListenReplyInv ==
  ASSUME Typed, CallInv, NEW n \in Session, ListenReply(n)
  PROVE  CallInv'
<1>1. PICK m \in sess[n].sent :
        /\ \A r \in Request :
             /\ req'[r].pc = req[r].pc /\ req'[r].ses = req[r].ses
             /\ req'[r].id = req[r].id /\ req'[r].method = req[r].method
             /\ req'[r].job = req[r].job /\ req'[r].runs = req[r].runs
             /\ req'[r].collided = req[r].collided
             /\ \/ req'[r] = req[r]
                \/ /\ req'[r].fcall = "answered" /\ req'[r].reply = m
                   /\ \E c \in sess[n].calls : c.id = m.id /\ c.by = r /\ Awaits(n, c)
        /\ SameCalls
  BY ListenReplyShape
<1>2. IdsUsedOnce'
  BY <1>1 DEF CallInv, IdsUsedOnce, SameCalls, Same
<1>3. CallsRegistered'
  BY <1>1, SessionOfRequest DEF CallInv, CallsRegistered, SameCalls, Same
<1>4. Messages'
  <2>1. \A k \in Session : \A d \in sess[k].sent : d.by \in Request
    BY SessionFields
  <2> QED
    BY <1>1, <2>1 DEF CallInv, Messages, SameCalls, Same, InCall
<1>5. Answers'
  <2> SUFFICES ASSUME NEW r \in Request, req'[r].pc \in {"write", "await"},
                      req'[r].fcall = "answered"
               PROVE  req'[r].reply.by = r /\ req'[r].reply.method = req'[r].method
    BY DEF Answers
  <2>1. CASE req'[r] = req[r]
    BY <2>1 DEF CallInv, Answers
  <2>2. CASE /\ req'[r].reply = m
             /\ \E c \in sess[n].calls : c.id = m.id /\ c.by = r /\ Awaits(n, c)
    <3>1. PICK c \in sess[n].calls : c.id = m.id /\ c.by = r /\ Awaits(n, c)
      BY <2>2
    <3>2. m.by = r
      BY <3>1 DEF CallInv, Messages
    <3>3. InCall(r, n) /\ req[r].id = m.id
      BY <3>1 DEF Awaits, InCall
    <3>4. m.method = req[r].method
      BY <3>2, <3>3 DEF CallInv, Messages
    <3> QED
      BY <1>1, <2>2, <3>2, <3>4
  <2> QED
    BY <1>1, <2>1, <2>2
<1>6. JobsRegistered'
  BY <1>1, SessionOfRequest DEF CallInv, JobsRegistered, SameCalls, Same, Dead
<1>7. CallsReleased'
  <2>1. \A r \in Request : req'[r].fcall = "pending" => req[r].fcall = "pending"
    BY <1>1
  <2> QED
    BY <1>1, <2>1, SessionOfRequest DEF CallInv, CallsReleased, SameCalls, Dead
<1> QED
  BY <1>2, <1>3, <1>4, <1>5, <1>6, <1>7 DEF CallInv

LEMMA ListenJobInv ==
  ASSUME Typed, CallInv, NEW n \in Session, ListenJob(n)
  PROVE  CallInv'
<1>1. PICK e \in sess[n].events :
        LET f == IF e.final THEN "ended" ELSE sess[n].jobMap[e.job]
        IN  sess' = [sess EXCEPT ![n] = [sess[n] EXCEPT
                       !.events = sess[n].events \ {e},
                       !.jobMap = [sess[n].jobMap EXCEPT ![e.job] = f]]]
  BY ListenJobShape
<1> DEFINE f == IF e.final THEN "ended" ELSE sess[n].jobMap[e.job]
           map == [sess[n].jobMap EXCEPT ![e.job] = f]
           s == [sess[n] EXCEPT !.events = sess[n].events \ {e}, !.jobMap = map]
<1>2. UNCHANGED req /\ sess' = [sess EXCEPT ![n] = s]
  BY <1>1 DEF ListenJob
<1>3. \A j \in Job : map[j] = "ended" \/ map[j] = sess[n].jobMap[j]
  BY SessionOf DEF SessionRecord
<1> HIDE DEF map
<1>4. /\ sess'[n].jobMap = map
      /\ \A k \in Session : /\ sess'[k].lastId = sess[k].lastId
                            /\ sess'[k].sent = sess[k].sent
                            /\ sess'[k].calls = sess[k].calls
                            /\ sess'[k].listen = sess[k].listen
                            /\ k # n => sess'[k].jobMap = sess[k].jobMap
  <2>1. sess'[n] = s /\ \A k \in Session \ {n} : sess'[k] = sess[k]
    BY <1>2, Functions
  <2>2. sess[n] \in SessionRecord
    BY SessionOf
  <2>3. /\ s.jobMap = map
        /\ s.lastId = sess[n].lastId /\ s.sent = sess[n].sent
        /\ s.calls = sess[n].calls /\ s.listen = sess[n].listen
    BY <2>2 DEF SessionRecord
  <2> HIDE DEF s
  <2> QED
    BY <2>1, <2>3
<1> HIDE DEF s
<1>5. IdsUsedOnce'
  BY <1>4 DEF CallInv, IdsUsedOnce
<1>6. CallsRegistered'
  BY <1>2, <1>4, SessionOfRequest DEF CallInv, CallsRegistered
<1>7. Messages'
  BY <1>2, <1>4 DEF CallInv, Messages, InCall
<1>8. Answers'
  BY <1>2 DEF CallInv, Answers
<1>9. JobsRegistered'
  BY <1>2, <1>3, <1>4, SessionOfRequest DEF CallInv, JobsRegistered, Dead
<1>10. CallsReleased'
  BY <1>2, <1>4, SessionOfRequest DEF CallInv, CallsReleased, Dead
<1> QED
  BY <1>5, <1>6, <1>7, <1>8, <1>9, <1>10 DEF CallInv

LEMMA ListenFailAllInv ==
  ASSUME Typed, CallInv, NEW n \in Session, ListenFailAll(n)
  PROVE  CallInv'
<1> DEFINE s == [sess[n] EXCEPT !.listen = "deleting", !.jobMap = JobsFailed(n)]
           Failing(r) == \E c \in sess[n].calls : c.by = r /\ Awaits(n, c)
<1>1. /\ req' = [r \in Request |-> IF Failing(r)
                                   THEN [req[r] EXCEPT !.fcall = "failed"] ELSE req[r]]
      /\ sess' = [sess EXCEPT ![n] = s]
      /\ UNCHANGED <<slots, jobs, waits>>
  BY ListenFailAllShape
<1> HIDE DEF Failing
<1>2. ASSUME NEW r \in Request
      PROVE  /\ req'[r].pc = req[r].pc /\ req'[r].ses = req[r].ses
             /\ req'[r].id = req[r].id /\ req'[r].method = req[r].method
             /\ req'[r].job = req[r].job
             /\ \/ Failing(r) /\ req'[r].fcall = "failed"
                \/ ~Failing(r) /\ req'[r] = req[r]
  <2>1. CASE Failing(r)
    <3>1. req'[r] = [req[r] EXCEPT !.fcall = "failed"]
      BY <1>1, <2>1
    <3>2. /\ req'[r].pc = req[r].pc /\ req'[r].ses = req[r].ses
          /\ req'[r].id = req[r].id /\ req'[r].method = req[r].method
          /\ req'[r].job = req[r].job /\ req'[r].fcall = "failed"
      BY <3>1, RecordOf DEF RequestRecord
    <3> QED
      BY <2>1, <3>2
  <2>2. CASE ~Failing(r)
    BY <1>1, <2>2
  <2> QED
    BY <2>1, <2>2
<1>3. /\ sess'[n].jobMap = JobsFailed(n)
      /\ \A k \in Session : /\ sess'[k].lastId = sess[k].lastId
                            /\ sess'[k].sent = sess[k].sent
                            /\ sess'[k].calls = sess[k].calls
                            /\ k # n => /\ sess'[k].jobMap = sess[k].jobMap
                                        /\ sess'[k].listen = sess[k].listen
  <2>1. sess'[n] = s /\ \A k \in Session \ {n} : sess'[k] = sess[k]
    BY <1>1, Functions
  <2>2. sess[n] \in SessionRecord
    BY SessionOf
  <2>3. /\ s.jobMap = JobsFailed(n) /\ s.lastId = sess[n].lastId
        /\ s.sent = sess[n].sent /\ s.calls = sess[n].calls
    BY <2>2 DEF SessionRecord
  <2> HIDE DEF s
  <2> QED
    BY <2>1, <2>3
<1> HIDE DEF s
<1>4. IdsUsedOnce'
  BY <1>3 DEF CallInv, IdsUsedOnce
<1>5. CallsRegistered'
  BY <1>2, <1>3, SessionOfRequest DEF CallInv, CallsRegistered
<1>6. Messages'
  <2>1. \A k \in Session : \A m \in sess[k].sent : m.by \in Request
    BY SessionFields
  <2> QED
    BY <1>2, <1>3, <2>1 DEF CallInv, Messages, InCall
<1>7. Answers'
  <2>1. \A r \in Request : req'[r].fcall = "answered" => req'[r] = req[r]
    BY <1>2
  <2> QED
    BY <2>1 DEF CallInv, Answers
<1>8. JobsRegistered'
  <2>1. \A j \in Job : /\ JobsFailed(n)[j] # "pending"
                       /\ sess[n].jobMap[j] # "absent" => JobsFailed(n)[j] # "absent"
    BY DEF JobsFailed
  <2> QED
    BY <1>2, <1>3, <2>1, SessionOfRequest DEF CallInv, JobsRegistered, Dead
<1>9. CallsReleased'
  <2> SUFFICES ASSUME NEW r \in Request, req'[r].pc = "await",
                      sess'[req'[r].ses].listen \in {"deleting", "gone"},
                      req'[r].fcall = "pending"
               PROVE  FALSE
    BY DEF CallsReleased, Dead
  <2>1. req'[r] = req[r] /\ ~Failing(r) /\ req[r].pc = "await" /\ req[r].fcall = "pending"
    BY <1>2
  <2>2. req[r].ses \in Session
    BY <2>1, SessionOfRequest
  <2>3. CASE req[r].ses = n
    <3> DEFINE c == [id |-> req[r].id, by |-> r]
    <3>1. c \in sess[n].calls
      BY <2>1, <2>3 DEF CallInv, CallsRegistered
    <3>2. c.by = r /\ Awaits(n, c)
      BY <2>1, <2>3 DEF Awaits
    <3> QED
      BY <2>1, <3>1, <3>2 DEF Failing
  <2>4. CASE req[r].ses # n
    BY <1>3, <2>1, <2>2, <2>4 DEF CallInv, CallsReleased, Dead
  <2> QED
    BY <2>3, <2>4
<1> QED
  BY <1>4, <1>5, <1>6, <1>7, <1>8, <1>9 DEF CallInv

LEMMA PublishedUpdate ==
  ASSUME NEW j \in Job, JobRuns(j) \/ JobEnds(j) \/ WaitEnds(j)
  PROVE  \E final \in BOOLEAN : Publish(j, final)
<1>1. CASE JobRuns(j)
  BY <1>1 DEF JobRuns
<1>2. CASE JobEnds(j)
  <2>1. PICK how \in {"ended", "aborted"} : Publish(j, how = "ended")
    BY <1>2 DEF JobEnds
  <2>2. (how = "ended") \in BOOLEAN
    OBVIOUS
  <2> QED
    BY <2>1, <2>2
<1>3. CASE WaitEnds(j)
  BY <1>3 DEF WaitEnds
<1> QED
  BY <1>1, <1>2, <1>3

\* The other steps of listeners and of TrueNAS touch no call and no map.
LEMMA OtherStepsInv ==
  ASSUME Typed, CallInv,
         \/ \E n \in Session : ListenExit(n) \/ ListenDelete(n) \/ Drop(n)
         \/ \E j \in Job : JobRuns(j) \/ JobEnds(j) \/ WaitEnds(j)
  PROVE  CallInv'
<1>1. UNCHANGED req
  BY DEF ListenExit, ListenDelete, Drop, JobRuns, JobEnds, WaitEnds
<1>2. ASSUME NEW n \in Session, ListenExit(n) PROVE SameCalls
  <2>1. PICK how \in {"closed", "closeSent"} :
          sess' = [sess EXCEPT ![n].conn = how, ![n].listen = "failing"]
    BY <1>2 DEF ListenExit
  <2> DEFINE s == [sess[n] EXCEPT !.conn = how, !.listen = "failing"]
  <2>2. sess' = [sess EXCEPT ![n] = s]
    BY <2>1, Functions
  <2>3. Same(s, sess[n]) /\ s.listen = "failing"
    BY SessionOf DEF SessionRecord, Same
  <2> HIDE DEF s
  <2> QED
    BY <2>2, <2>3, SameCallsStep
<1>3. ASSUME NEW n \in Session, ListenDelete(n) PROVE SameCalls
  <2> DEFINE s == [sess[n] EXCEPT !.listen = "gone"]
  <2>1. sess' = [sess EXCEPT ![n] = s] /\ Dead(n)
    BY <1>3, Functions DEF ListenDelete, Dead
  <2>2. Same(s, sess[n])
    BY SessionOf DEF SessionRecord, Same
  <2> HIDE DEF s
  <2> QED
    BY <2>1, <2>2, SameCallsStep
<1>4. ASSUME NEW n \in Session, Drop(n) PROVE SameCalls
  <2> DEFINE s == [sess[n] EXCEPT !.conn = "lost", !.sent = {}, !.events = {}]
  <2>1. sess' = [sess EXCEPT ![n] = s]
    BY <1>4, Functions DEF Drop
  <2>2. Same(s, sess[n]) /\ s.listen = sess[n].listen
    BY SessionOf DEF SessionRecord, Same
  <2> HIDE DEF s
  <2> QED
    BY <2>1, <2>2, SameCallsStep DEF Dead
<1>5. ASSUME NEW j \in Job, NEW final \in BOOLEAN, Publish(j, final) PROVE SameCalls
  <2>1. ASSUME NEW n \in Session
        PROVE  Same(sess'[n], sess[n]) /\ sess'[n].listen = sess[n].listen
    <3>1. PICK E : sess'[n] = [sess[n] EXCEPT !.events = E]
      BY <1>5, PublishShape
    <3> QED
      BY <3>1, SessionOf DEF SessionRecord, Same
  <2> QED
    BY <2>1 DEF SameCalls, Dead
<1>6. ASSUME NEW j \in Job, JobRuns(j) \/ JobEnds(j) \/ WaitEnds(j) PROVE SameCalls
  <2>1. PICK final \in BOOLEAN : Publish(j, final)
    BY <1>6, PublishedUpdate
  <2> QED
    BY <1>5, <2>1
<1> QED
  BY <1>1, <1>2, <1>3, <1>4, <1>6, SessionsOnlyInv

------------------------------------------------------------------------------
\* Connections and their listeners.

\* A session whose connection and listener stand in a state that fits.
Fits(s) ==
  /\ s.listen = "none" <=> s.conn = "none"
  /\ s.listen = "reading" <=> s.conn \in {"open", "lost"}

LEMMA ConnectionsStep ==
  ASSUME Typed, Connections, NEW n \in Session, NEW s, sess' = [sess EXCEPT ![n] = s],
         Fits(s) \/ (s.listen = sess[n].listen /\ s.conn = sess[n].conn)
  PROVE  Connections'
<1>1. \A k \in Session : sess'[k] = IF k = n THEN s ELSE sess[k]
  BY DEF Typed, TypeOK
<1> QED
  BY <1>1 DEF Connections, Fits

LEMMA ConnectionsRequest ==
  ASSUME Typed, Connections, NEW r \in Request, Arrive(r) \/ Progress(r)
  PROVE  Connections'
<1> DEFINE n == req[r].ses
<1>1. CASE UNCHANGED sess
  BY <1>1 DEF Connections
<1>2. CASE PickNew(r)
  <2>1. PICK k \in Unused, i \in 1 .. Len(slots) + 1 :
          sess' = [sess EXCEPT ![k] = [@ EXCEPT !.fut = "pending", !.channel = i]]
    BY <1>2, PickNewShape
  <2> DEFINE s == [sess[k] EXCEPT !.fut = "pending", !.channel = i]
  <2>2. k \in Session /\ sess' = [sess EXCEPT ![k] = s]
    BY <2>1 DEF Unused, Typed, TypeOK
  <2>3. s.listen = sess[k].listen /\ s.conn = sess[k].conn
    BY <2>2, SessionOf DEF SessionRecord
  <2> HIDE DEF s
  <2> QED
    BY <2>2, <2>3, ConnectionsStep
<1>3. CASE Dial(r)
  <2>1. n \in Session
    BY <1>3, RecordOf DEF Dial, Local
  <2> DEFINE s == [sess[n] EXCEPT !.conn = "open", !.listen = "reading"]
  <2>2. CASE sess' = [sess EXCEPT ![n].conn = "open", ![n].listen = "reading"]
    <3>1. sess' = [sess EXCEPT ![n] = s]
      BY <2>1, <2>2, Functions
    <3>2. Fits(s)
      BY <2>1, SessionOf DEF SessionRecord, Fits
    <3> HIDE DEF s
    <3> QED
      BY <2>1, <3>1, <3>2, ConnectionsStep
  <2> QED
    BY <1>1, <1>3, <2>2 DEF Dial
<1>4. CASE Settle(r)
  <2>1. n \in Session /\ \E f \in {"ok", "failed"} :
                           sess' = [sess EXCEPT ![n] = [sess[n] EXCEPT !.fut = f]]
    BY <1>4, SettleShape
  <2>2. PICK f : sess' = [sess EXCEPT ![n] = [sess[n] EXCEPT !.fut = f]]
    BY <2>1
  <2> DEFINE s == [sess[n] EXCEPT !.fut = f]
  <2>3. s.listen = sess[n].listen /\ s.conn = sess[n].conn
    BY <2>1, SessionOf DEF SessionRecord
  <2> QED
    BY <2>1, <2>2, <2>3, ConnectionsStep
<1>5. CASE Register(r)
  <2> DEFINE s == [sess[n] EXCEPT !.lastId = sess[n].lastId + 1,
                                  !.calls = CallsWith(n, r), !.busy = TRUE]
  <2>1. n \in Session /\ sess' = [sess EXCEPT ![n] = s]
    BY <1>5, RegisterShape
  <2>2. s.listen = sess[n].listen /\ s.conn = sess[n].conn
    BY <2>1, SessionOf DEF SessionRecord
  <2> HIDE DEF s
  <2> QED
    BY <2>1, <2>2, ConnectionsStep
<1>6. CASE WriteOpen(r) \/ WriteCollides(r)
  <2>0. req[r].pc = "write"
    BY <1>6 DEF WriteOpen, WriteCollides
  <2>1. n \in Session
    BY <2>0, SessionOfRequest
  <2>2. UNCHANGED sess \/ MaybeSent(r)
    BY <1>6, <2>1, ServerReceivesSent DEF WriteOpen, WriteCollides
  <2> QED
    BY <1>1, <2>2 DEF Connections, MaybeSent
<1>7. CASE CallReturn(r)
  <2> DEFINE s == [sess[n] EXCEPT !.calls = CallsWithout(n, r), !.busy = FALSE]
  <2>1. n \in Session /\ sess' = [sess EXCEPT ![n] = s]
    BY <1>7, CallReturnShape
  <2>2. s.listen = sess[n].listen /\ s.conn = sess[n].conn
    BY <2>1, SessionOf DEF SessionRecord
  <2> HIDE DEF s
  <2> QED
    BY <2>1, <2>2, ConnectionsStep
<1>8. CASE JobLookup(r)
  <2> DEFINE j == req[r].job
             s == [sess[n] EXCEPT !.jobMap = [sess[n].jobMap EXCEPT ![j] = "pending"]]
  <2>1. n \in Session /\ (UNCHANGED sess \/ sess' = [sess EXCEPT ![n] = s])
    <3>1. /\ req[r].pc = "joblookup" /\ n \in Session /\ j \in Job
          /\ \/ /\ \E result \in {"answer", "error"} :
                     req' = [req EXCEPT ![r] = Finished(req[r], result)]
                /\ UNCHANGED sess
             \/ /\ sess[n].jobMap[j] \in {"absent", "pending"}
                /\ req' = [req EXCEPT ![r] = [req[r] EXCEPT !.pc = "register",
                                                            !.method = "job_wait"]]
                /\ sess' = [sess EXCEPT ![n] = s]
          /\ UNCHANGED <<slots, jobs, waits>>
      BY <1>8, JobLookupShape
    <3> QED
      BY <3>1
  <2>2. s.listen = sess[n].listen /\ s.conn = sess[n].conn
    BY <2>1, SessionOf DEF SessionRecord
  <2> HIDE DEF s
  <2> QED
    BY <1>1, <2>1, <2>2, ConnectionsStep
<1> QED
  BY <1>1, <1>2, <1>3, <1>4, <1>5, <1>6, <1>7, <1>8
     DEF Arrive, Finish, Progress, PassOver, PickIdle, Delete, Write, WriteLost, WriteClosed,
         CallTimeout, JobGet, PeekJob

LEMMA ConnectionsOther ==
  ASSUME Typed, Connections,
         \/ \E n \in Session : Listen(n) \/ Drop(n)
         \/ \E j \in Job : JobRuns(j) \/ JobEnds(j) \/ WaitEnds(j)
  PROVE  Connections'
<1>1. ASSUME NEW n \in Session, ListenExit(n) PROVE Connections'
  <2>1. PICK how \in {"closed", "closeSent"} :
          sess' = [sess EXCEPT ![n].conn = how, ![n].listen = "failing"]
    BY <1>1 DEF ListenExit
  <2> DEFINE s == [sess[n] EXCEPT !.conn = how, !.listen = "failing"]
  <2>2. sess' = [sess EXCEPT ![n] = s]
    BY <2>1, Functions
  <2>3. s.conn = how /\ s.listen = "failing"
    BY SessionOf DEF SessionRecord
  <2> HIDE DEF s
  <2> QED
    BY <2>2, <2>3, ConnectionsStep DEF Fits
<1>2. ASSUME NEW n \in Session, ListenFailAll(n) PROVE Connections'
  <2> DEFINE s == [sess[n] EXCEPT !.listen = "deleting", !.jobMap = JobsFailed(n)]
  <2>1. sess[n].listen = "failing" /\ sess' = [sess EXCEPT ![n] = s]
    BY <1>2, ListenFailAllShape
  <2>2. s.conn = sess[n].conn /\ s.listen = "deleting"
    BY SessionOf DEF SessionRecord
  <2> HIDE DEF s
  <2> QED
    BY <2>1, <2>2, ConnectionsStep DEF Connections, Fits
<1>3. ASSUME NEW n \in Session, ListenDelete(n) PROVE Connections'
  <2> DEFINE s == [sess[n] EXCEPT !.listen = "gone"]
  <2>1. sess[n].listen = "deleting" /\ sess' = [sess EXCEPT ![n] = s]
    BY <1>3, SessionOf DEF ListenDelete, Typed, TypeOK, SessionRecord
  <2>2. s.conn = sess[n].conn /\ s.listen = "gone"
    BY SessionOf DEF SessionRecord
  <2> HIDE DEF s
  <2> QED
    BY <2>1, <2>2, ConnectionsStep DEF Connections, Fits
<1>4. ASSUME NEW n \in Session, Drop(n) PROVE Connections'
  <2> DEFINE s == [sess[n] EXCEPT !.conn = "lost", !.sent = {}, !.events = {}]
  <2>1. sess[n].conn = "open" /\ sess' = [sess EXCEPT ![n] = s]
    BY <1>4, SessionOf DEF Drop, Typed, TypeOK, SessionRecord
  <2>2. s.conn = "lost" /\ s.listen = sess[n].listen
    BY SessionOf DEF SessionRecord
  <2> HIDE DEF s
  <2> QED
    BY <2>1, <2>2, ConnectionsStep DEF Connections, Fits
<1>5. ASSUME NEW n \in Session, ListenReply(n) PROVE Connections'
  <2>1. PICK m : sess' = [sess EXCEPT ![n].sent = @ \ {m}]
    BY <1>5 DEF ListenReply
  <2> DEFINE s == [sess[n] EXCEPT !.sent = sess[n].sent \ {m}]
  <2>2. sess' = [sess EXCEPT ![n] = s]
    BY <2>1 DEF Typed, TypeOK
  <2>3. s.conn = sess[n].conn /\ s.listen = sess[n].listen
    BY SessionOf DEF SessionRecord
  <2> HIDE DEF s
  <2> QED
    BY <2>2, <2>3, ConnectionsStep
<1>6. ASSUME NEW n \in Session, ListenJob(n) PROVE Connections'
  <2>1. PICK e \in sess[n].events :
          LET f == IF e.final THEN "ended" ELSE sess[n].jobMap[e.job]
          IN  sess' = [sess EXCEPT ![n] = [sess[n] EXCEPT
                         !.events = sess[n].events \ {e},
                         !.jobMap = [sess[n].jobMap EXCEPT ![e.job] = f]]]
    BY <1>6, ListenJobShape
  <2> DEFINE f == IF e.final THEN "ended" ELSE sess[n].jobMap[e.job]
             s == [sess[n] EXCEPT !.events = sess[n].events \ {e},
                                  !.jobMap = [sess[n].jobMap EXCEPT ![e.job] = f]]
  <2>2. s.conn = sess[n].conn /\ s.listen = sess[n].listen
    BY SessionOf DEF SessionRecord
  <2>3. sess' = [sess EXCEPT ![n] = s]
    BY <2>1
  <2> HIDE DEF s
  <2> QED
    BY <2>2, <2>3, ConnectionsStep
<1>7. ASSUME NEW j \in Job, NEW final \in BOOLEAN, Publish(j, final) PROVE Connections'
  <2>1. ASSUME NEW n \in Session
        PROVE  sess'[n].conn = sess[n].conn /\ sess'[n].listen = sess[n].listen
    <3>1. PICK E : sess'[n] = [sess[n] EXCEPT !.events = E]
      BY <1>7, PublishShape
    <3> QED
      BY <3>1, SessionOf DEF SessionRecord
  <2> QED
    BY <2>1 DEF Connections
<1>8. ASSUME NEW j \in Job, JobRuns(j) \/ JobEnds(j) \/ WaitEnds(j) PROVE Connections'
  <2>1. PICK final \in BOOLEAN : Publish(j, final)
    BY <1>8, PublishedUpdate
  <2> QED
    BY <1>7, <2>1
<1> QED
  BY <1>1, <1>2, <1>3, <1>4, <1>5, <1>6, <1>8 DEF Listen

------------------------------------------------------------------------------
\* The making of sessions, the slots, and the runs of a request.

\* Where a goroutine stands while it makes the session it has put into a slot.
Maker(q) ==
  \/ q.pc \in {"dial", "settle", "fail"}
  \/ q.pc \in {"register", "write", "await"} /\ q.method \in {"login", "subscribe"}

\* A session has a maker if and only if its future is pending, and only one.
Makers ==
  \A n \in Session :
    /\ \A r \in Request : Making(r, n) => sess[n].fut = "pending"
    /\ sess[n].fut = "pending" =>
         \E r \in Request : \A q \in Request : Making(q, n) <=> q = r

\* A slot holds only sessions that were made for it.
SlotsHeld ==
  \A i \in DOMAIN slots :
    slots[i] # Nil => sess[slots[i]].fut # "none" /\ sess[slots[i]].channel = i

\* A method that TrueNAS has received is awaited or done: it is not called again.
OnceRun(q) ==
  ~q.collided =>
    /\ q.runs <= 1
    /\ q.runs # 0 => q.pc = "done" \/ (q.pc = "await" /\ q.method = "user")
RunsOnce == \A r \in Request : OnceRun(req[r])

LifeInv == Makers /\ SlotsHeld /\ RunsOnce

\* What a step of a goroutine keeps of its record.
Continues(q, p) ==
  /\ Maker(p) <=> Maker(q)
  /\ Maker(q) => p.ses = q.ses
  /\ OnceRun(q) => OnceRun(p)

LEMMA FinishedContinues ==
  ASSUME NEW q \in RequestRecord, ~Maker(q), NEW result \in {"answer", "error", "timeout"}
  PROVE  Continues(q, Finished(q, result))
<1> DEFINE p == Finished(q, result)
<1>1. p.pc = "done" /\ p.runs = q.runs /\ p.collided = q.collided
  BY FinishedRecord
<1> HIDE DEF p
<1> QED
  BY <1>1 DEF Continues, Maker, OnceRun, p

LEMMA FailedContinues ==
  ASSUME NEW q \in RequestRecord, Local(q), NEW b \in BOOLEAN,
         q.pc = "write" \/ (q.pc = "await" /\ ~b)
  PROVE  Continues(q, Failed(q, b))
<1> DEFINE p == Failed(q, b)
<1>1. /\ p.pc \in {"fail", "retry", "done"}
      /\ p.pc = "fail" <=> q.method \in {"login", "subscribe"}
      /\ p.pc = "fail" => p.ses = q.ses
      /\ p.pc = "retry" => b
      /\ p.runs = q.runs /\ p.collided = q.collided
  BY FailedRecord
<1>2. Maker(p) <=> Maker(q)
  BY <1>1 DEF Maker
<1>3. Maker(q) => p.ses = q.ses
  BY <1>1 DEF Maker
<1>4. OnceRun(q) => OnceRun(p)
  BY <1>1 DEF OnceRun
<1> QED
  BY <1>2, <1>3, <1>4 DEF Continues

LEMMA AnsweredContinues ==
  ASSUME NEW q \in RequestRecord, Local(q), q.pc = "await"
  PROVE  Continues(q, Answered(q))
<1> DEFINE p == Answered(q)
<1>1. /\ p.pc \in {"register", "settle", "done", "jobget"}
      /\ p.pc \in {"register", "settle"} <=> q.method \in {"login", "subscribe"}
      /\ p.pc \in {"register", "settle", "jobget"} => p.ses = q.ses
      /\ p.pc = "register" => p.method = "subscribe"
      /\ p.pc = "jobget" => q.method = "job_wait"
      /\ p.runs = q.runs /\ p.collided = q.collided
  BY AnsweredRecord
<1> HIDE DEF p
<1>2. (Maker(p) <=> Maker(q)) /\ (Maker(q) => p.ses = q.ses)
  BY <1>1 DEF Maker
<1>3. OnceRun(q) => OnceRun(p)
  BY <1>1 DEF OnceRun
<1> QED
  BY <1>2, <1>3 DEF Continues, p

\* What listeners and TrueNAS keep of the records of requests.
Attends ==
  \A r \in Request :
    /\ req'[r].pc = req[r].pc /\ req'[r].ses = req[r].ses
    /\ req'[r].method = req[r].method
    /\ req'[r].runs = req[r].runs /\ req'[r].collided = req[r].collided

\* No session is made or settled.
SessionsStand ==
  \A n \in Session : sess'[n].fut = sess[n].fut /\ sess'[n].channel = sess[n].channel

LEMMA SessionStands ==
  ASSUME Typed, NEW n \in Session, NEW s, sess' = [sess EXCEPT ![n] = s],
         s.fut = sess[n].fut, s.channel = sess[n].channel
  PROVE  SessionsStand
BY Functions DEF SessionsStand

LEMMA MakersContinue ==
  ASSUME LifeInv, SessionsStand,
         \A r \in Request : /\ Maker(req'[r]) <=> Maker(req[r])
                            /\ Maker(req[r]) => req'[r].ses = req[r].ses
                            /\ OnceRun(req[r]) => OnceRun(req'[r])
  PROVE  Makers' /\ RunsOnce'
<1>1. \A r \in Request, n \in Session : Making(r, n)' <=> Making(r, n)
  BY DEF Making, Maker
<1>2. Makers'
  BY <1>1 DEF LifeInv, Makers, SessionsStand
<1>3. RunsOnce'
  BY DEF LifeInv, RunsOnce
<1> QED
  BY <1>2, <1>3

LEMMA ContinuesInv ==
  ASSUME Typed, LifeInv, SessionsStand, NEW r \in Request,
         NEW p, req' = [req EXCEPT ![r] = p], Continues(req[r], p)
  PROVE  Makers' /\ RunsOnce'
<1>1. req'[r] = p /\ \A q \in Request \ {r} : req'[q] = req[q]
  BY Functions
<1> QED
  BY <1>1, MakersContinue DEF Continues

LEMMA SlotsKept ==
  ASSUME Typed, SlotsHeld, SessionsStand,
         UNCHANGED slots \/ \E n \in Session : ClearSlot(n)
  PROVE  SlotsHeld'
<1>1. /\ DOMAIN slots' = DOMAIN slots
      /\ \A i \in DOMAIN slots : slots'[i] = Nil \/ slots'[i] = slots[i]
  BY ClearSlotType
<1>2. \A i \in DOMAIN slots : slots[i] = Nil \/ slots[i] \in Session
  BY DEF Typed, TypeOK
<1> QED
  BY <1>1, <1>2 DEF SlotsHeld, SessionsStand

\* A step of a goroutine that makes and settles no session.
GoesOn(r) ==
  /\ \E p : req' = [req EXCEPT ![r] = p] /\ Continues(req[r], p)
  /\ SessionsStand

LEMMA ArriveGoesOn ==
  ASSUME Typed, NEW r \in Request, Arrive(r)
  PROVE  GoesOn(r)
<1>1. req[r].pc = "idle" /\ UNCHANGED sess /\ req[r] \in RequestRecord
  BY RecordOf DEF Arrive
<1>2. ASSUME NEW k \in Kind, NEW j,
             req' = [req EXCEPT ![r].pc = "pick", ![r].kind = k, ![r].job = j]
      PROVE  GoesOn(r)
  <2> DEFINE p == [req[r] EXCEPT !.pc = "pick", !.kind = k, !.job = j]
  <2>1. req' = [req EXCEPT ![r] = p]
    BY <1>2, Functions
  <2>2. p.pc = "pick" /\ p.runs = req[r].runs /\ p.collided = req[r].collided
    BY <1>1 DEF RequestRecord
  <2> HIDE DEF p
  <2>3. Continues(req[r], p)
    BY <1>1, <2>2 DEF Continues, Maker, OnceRun
  <2> QED
    BY <1>1, <2>1, <2>3 DEF GoesOn, SessionsStand
<1>3. ASSUME NEW result \in {"answer", "error"}, Finish(r, result)
      PROVE  GoesOn(r)
  <2>1. req' = [req EXCEPT ![r] = Finished(req[r], result)]
    BY <1>3, Functions DEF Finish
  <2>2. ~Maker(req[r])
    BY <1>1 DEF Maker
  <2> QED
    BY <1>1, <2>1, <2>2, FinishedContinues DEF GoesOn, SessionsStand
<1> QED
  BY <1>2, <1>3 DEF Arrive

LEMMA PassOverGoesOn ==
  ASSUME Typed, NEW r \in Request, PassOver(r)
  PROVE  GoesOn(r)
<1>1. PICK i \in DOMAIN slots : ScanAt(r, i) /\ req' = [req EXCEPT ![r].at = i]
  BY DEF PassOver
<1> DEFINE p == [req[r] EXCEPT !.at = i]
<1>2. req' = [req EXCEPT ![r] = p] /\ req[r].pc = "pick" /\ UNCHANGED sess
  BY <1>1, Functions DEF PassOver, ScanAt
<1>3. p.pc = "pick" /\ p.runs = req[r].runs /\ p.collided = req[r].collided
  BY <1>2, RecordOf DEF RequestRecord
<1> HIDE DEF p
<1>4. Continues(req[r], p)
  BY <1>2, <1>3 DEF Continues, Maker, OnceRun
<1> QED
  BY <1>2, <1>4 DEF GoesOn, SessionsStand

LEMMA PickIdleGoesOn ==
  ASSUME Typed, NEW r \in Request, PickIdle(r)
  PROVE  GoesOn(r)
<1>1. PICK i \in DOMAIN slots :
        /\ slots[i] # Nil
        /\ req' = [req EXCEPT ![r] = Entered([@ EXCEPT !.ses = slots[i], !.at = 0])]
  BY DEF PickIdle
<1> DEFINE q == [req[r] EXCEPT !.ses = slots[i], !.at = 0]
           p == Entered(q)
<1>2. req' = [req EXCEPT ![r] = p] /\ req[r].pc = "pick" /\ UNCHANGED sess
  BY <1>1, Functions DEF PickIdle
<1>3. slots[i] \in Session
  BY <1>1 DEF Typed, TypeOK
<1>4. /\ q \in RequestRecord /\ q.kind \in Kind /\ q.ses \in Session
      /\ q.kind # "call" => q.job \in Job
      /\ q.runs = req[r].runs /\ q.collided = req[r].collided
  <2>1. req[r] \in RequestRecord /\ Local(req[r])
    BY RecordOf
  <2> QED
    BY <1>2, <1>3, <2>1 DEF RequestRecord, Local
<1>5. /\ p.pc \in {"register", "joblookup", "peek"} /\ p.method \in {"user", Nil}
      /\ p.runs = q.runs /\ p.collided = q.collided
  BY <1>4, EnteredRecord
<1> HIDE DEF p, q
<1>6. Continues(req[r], p)
  BY <1>2, <1>4, <1>5, DaemonAssumption DEF Continues, Maker, OnceRun, Method
<1> QED
  BY <1>2, <1>6 DEF GoesOn, SessionsStand

LEMMA DialGoesOn ==
  ASSUME Typed, NEW r \in Request, Dial(r)
  PROVE  GoesOn(r)
<1>1. req[r].pc = "dial" /\ req[r].ses \in Session /\ req[r] \in RequestRecord
  BY RecordOf DEF Dial, Local
<1>2. SessionsStand
  <2> DEFINE s == [sess[req[r].ses] EXCEPT !.conn = "open", !.listen = "reading"]
  <2>1. CASE sess' = [sess EXCEPT ![req[r].ses].conn = "open",
                                  ![req[r].ses].listen = "reading"]
    <3>1. sess' = [sess EXCEPT ![req[r].ses] = s]
      BY <2>1, Functions
    <3>2. sess[req[r].ses] \in SessionRecord
      BY <1>1, SessionOf
    <3>3. s.fut = sess[req[r].ses].fut /\ s.channel = sess[req[r].ses].channel
      BY <3>2 DEF SessionRecord
    <3> HIDE DEF s
    <3> QED
      BY <1>1, <3>1, <3>3, SessionStands
  <2> QED
    BY <2>1 DEF Dial, SessionsStand
<1>3. CASE GoTo(r, "fail")
  <2> DEFINE p == [req[r] EXCEPT !.pc = "fail"]
  <2>1. req' = [req EXCEPT ![r] = p]
    BY <1>3, Functions DEF GoTo
  <2>2. p.pc = "fail" /\ p.ses = req[r].ses /\ p.runs = req[r].runs
        /\ p.collided = req[r].collided
    BY <1>1 DEF RequestRecord
  <2> HIDE DEF p
  <2>3. Continues(req[r], p)
    BY <1>1, <2>2 DEF Continues, Maker, OnceRun
  <2> QED
    BY <1>2, <2>1, <2>3 DEF GoesOn
<1>4. CASE req' = [req EXCEPT ![r].pc = "register", ![r].method = "login"]
  <2> DEFINE p == [req[r] EXCEPT !.pc = "register", !.method = "login"]
  <2>1. req' = [req EXCEPT ![r] = p]
    BY <1>4, Functions
  <2>2. /\ p.pc = "register" /\ p.method = "login" /\ p.ses = req[r].ses
        /\ p.runs = req[r].runs /\ p.collided = req[r].collided
    BY <1>1 DEF RequestRecord
  <2> HIDE DEF p
  <2>3. Continues(req[r], p)
    BY <1>1, <2>2 DEF Continues, Maker, OnceRun
  <2> QED
    BY <1>2, <2>1, <2>3 DEF GoesOn
<1> QED
  BY <1>3, <1>4 DEF Dial

LEMMA DeleteGoesOn ==
  ASSUME Typed, NEW r \in Request, Delete(r)
  PROVE  GoesOn(r)
<1>1. req[r] \in RequestRecord /\ UNCHANGED sess
  BY RecordOf DEF Delete
<1>2. CASE req[r].pc = "delete"
  <2>1. req' = [req EXCEPT ![r] = Finished(req[r], "error")]
    BY <1>2, Functions DEF Delete, Finish
  <2>2. ~Maker(req[r])
    BY <1>2 DEF Maker
  <2> QED
    BY <1>1, <2>1, <2>2, FinishedContinues DEF GoesOn, SessionsStand
<1>3. CASE req[r].pc = "retry"
  <2> DEFINE p == [req[r] EXCEPT !.pc = "pick", !.ses = Nil]
  <2>1. req' = [req EXCEPT ![r] = p]
    BY <1>3, Functions DEF Delete
  <2>2. p.pc = "pick" /\ p.runs = req[r].runs /\ p.collided = req[r].collided
    BY <1>1 DEF RequestRecord
  <2> HIDE DEF p
  <2>3. Continues(req[r], p)
    BY <1>3, <2>2 DEF Continues, Maker, OnceRun
  <2> QED
    BY <1>1, <2>1, <2>3 DEF GoesOn, SessionsStand
<1> QED
  BY <1>2, <1>3 DEF Delete

LEMMA RegisterGoesOn ==
  ASSUME Typed, NEW r \in Request, Register(r)
  PROVE  GoesOn(r)
<1> DEFINE n == req[r].ses
           p == [req[r] EXCEPT !.pc = "write", !.id = sess[n].lastId + 1,
                               !.fcall = "pending", !.reply = Nil]
           s == [sess[n] EXCEPT !.lastId = sess[n].lastId + 1,
                                !.calls = CallsWith(n, r), !.busy = TRUE]
<1>1. /\ req[r].pc = "register" /\ n \in Session
      /\ req' = [req EXCEPT ![r] = p] /\ sess' = [sess EXCEPT ![n] = s]
  BY RegisterShape
<1>2. req[r] \in RequestRecord /\ sess[n] \in SessionRecord
  BY <1>1, RecordOf, SessionOf
<1>3. /\ p.pc = "write" /\ p.method = req[r].method /\ p.ses = req[r].ses
      /\ p.runs = req[r].runs /\ p.collided = req[r].collided
  BY <1>2 DEF RequestRecord
<1>4. s.fut = sess[n].fut /\ s.channel = sess[n].channel
  BY <1>2 DEF SessionRecord
<1> HIDE DEF n, p, s
<1>5. Continues(req[r], p)
  BY <1>1, <1>3 DEF Continues, Maker, OnceRun
<1> QED
  BY <1>1, <1>4, <1>5, SessionStands DEF GoesOn

LEMMA ServerReceivesStands ==
  ASSUME Typed, NEW r \in Request, req[r].ses \in Session, NEW ok \in BOOLEAN,
         ServerReceives(r, ok)
  PROVE  SessionsStand
<1> DEFINE n == req[r].ses
           m == [id |-> req[r].id, by |-> r, method |-> req[r].method, ok |-> ok]
           s == [sess[n] EXCEPT !.sent = @ \cup {m},
                                !.subscribed = @ \/ req[r].method = "subscribe"]
<1>1. sess[n] \in SessionRecord
  BY SessionOf
<1>2. s.fut = sess[n].fut /\ s.channel = sess[n].channel
  BY <1>1 DEF SessionRecord
<1>3. sess' = [sess EXCEPT ![n] = s]
  BY Functions DEF ServerReceives
<1> HIDE DEF n, s
<1>4. n \in Session
  BY DEF n
<1> QED
  BY <1>2, <1>3, <1>4, SessionStands

LEMMA WriteGoesOn ==
  ASSUME Typed, NEW r \in Request, Write(r)
  PROVE  GoesOn(r)
<1>1. /\ req[r].pc = "write" /\ req[r] \in RequestRecord /\ Local(req[r])
      /\ req[r].ses \in Session /\ req[r].runs \in Nat
  <2>1. req[r] \in RequestRecord /\ Local(req[r]) /\ req[r].pc = "write"
    BY RecordOf DEF Write, WriteOpen, WriteCollides, WriteLost, WriteClosed
  <2> QED
    BY <2>1 DEF RequestRecord, Local
<1>2. SessionsStand
  BY <1>1, ServerReceivesStands
     DEF Write, WriteOpen, WriteCollides, WriteLost, WriteClosed, SessionsStand
<1>3. ASSUME NEW b \in BOOLEAN, req' = [req EXCEPT ![r] = Failed(req[r], b)]
      PROVE  GoesOn(r)
  BY <1>1, <1>2, <1>3, FailedContinues DEF GoesOn
<1>4. CASE WriteOpen(r)
  <2> DEFINE p == [req[r] EXCEPT !.pc = "await", !.runs = Received(req[r])]
  <2>1. req' = [req EXCEPT ![r] = p]
    BY <1>4, Functions DEF WriteOpen
  <2>2. /\ p.pc = "await" /\ p.method = req[r].method /\ p.ses = req[r].ses
        /\ p.runs = Received(req[r]) /\ p.collided = req[r].collided
    BY <1>1 DEF RequestRecord
  <2> HIDE DEF p
  <2>3. OnceRun(req[r]) => OnceRun(p)
    BY <1>1, <2>2 DEF OnceRun, Received
  <2>4. Continues(req[r], p)
    BY <1>1, <2>2, <2>3 DEF Continues, Maker
  <2> QED
    BY <1>2, <2>1, <2>4 DEF GoesOn
<1>5. CASE WriteCollides(r)
  <2>1. CASE \E shouldRetry \in BOOLEAN : req' = [req EXCEPT ![r] = Failed(@, shouldRetry)]
    <3>1. PICK b \in BOOLEAN : req' = [req EXCEPT ![r] = Failed(req[r], b)]
      BY <2>1, Functions
    <3> QED
      BY <1>3, <3>1
  <2>2. CASE req' = [req EXCEPT ![r] = Failed([@ EXCEPT !.runs = Received(req[r]),
                                                        !.collided = TRUE], TRUE)]
    <3> DEFINE q == [req[r] EXCEPT !.runs = Received(req[r]), !.collided = TRUE]
               p == Failed(q, TRUE)
    <3>1. req' = [req EXCEPT ![r] = p]
      BY <2>2, Functions
    <3>2. Received(req[r]) \in Nat
      BY <1>1 DEF Received
    <3>3. q \in RequestRecord
      BY <1>1, <3>2 DEF RequestRecord
    <3>4. /\ q.pc = req[r].pc /\ q.kind = req[r].kind /\ q.ses = req[r].ses
          /\ q.method = req[r].method /\ q.job = req[r].job /\ q.collided = TRUE
      BY <1>1 DEF RequestRecord
    <3> HIDE DEF q
    <3>5. Local(q)
      BY <1>1, <3>4 DEF Local
    <3>6. Continues(q, p) /\ p.collided = TRUE
      BY <1>1, <3>3, <3>4, <3>5, FailedContinues, FailedRecord
    <3> HIDE DEF p
    <3>7. Continues(req[r], p)
      BY <3>4, <3>6 DEF Continues, Maker, OnceRun
    <3> QED
      BY <1>2, <3>1, <3>7 DEF GoesOn
  <2> QED
    BY <1>5, <2>1, <2>2 DEF WriteCollides
<1>6. CASE WriteLost(r)
  <2>1. CASE GoTo(r, "await")
    <3> DEFINE p == [req[r] EXCEPT !.pc = "await"]
    <3>1. req' = [req EXCEPT ![r] = p]
      BY <2>1, Functions DEF GoTo
    <3>2. /\ p.pc = "await" /\ p.method = req[r].method /\ p.ses = req[r].ses
          /\ p.runs = req[r].runs /\ p.collided = req[r].collided
      BY <1>1 DEF RequestRecord
    <3> HIDE DEF p
    <3>3. Continues(req[r], p)
      BY <1>1, <3>2 DEF Continues, Maker, OnceRun
    <3> QED
      BY <1>2, <3>1, <3>3 DEF GoesOn
  <2>2. CASE req' = [req EXCEPT ![r] = Failed(@, FALSE)]
    <3>1. req' = [req EXCEPT ![r] = Failed(req[r], FALSE)]
      BY <2>2, Functions
    <3> QED
      BY <1>3, <3>1
  <2> QED
    BY <1>6, <2>1, <2>2 DEF WriteLost
<1>7. CASE WriteClosed(r)
  <2> DEFINE b == sess[req[r].ses].conn = "closed"
  <2>1. req' = [req EXCEPT ![r] = Failed(req[r], b)]
    BY <1>7, Functions DEF WriteClosed
  <2>2. b \in BOOLEAN
    OBVIOUS
  <2> HIDE DEF b
  <2> QED
    BY <1>3, <2>1, <2>2
<1> QED
  BY <1>4, <1>5, <1>6, <1>7 DEF Write

LEMMA CallTimeoutGoesOn ==
  ASSUME Typed, NEW r \in Request, CallTimeout(r)
  PROVE  GoesOn(r)
<1>1. req[r].pc = "await" /\ UNCHANGED sess /\ req[r] \in RequestRecord /\ Local(req[r])
  BY RecordOf DEF CallTimeout
<1>2. CASE req[r].method \in {"user", "job_wait"}
  <2>1. req' = [req EXCEPT ![r] = Finished(req[r], "timeout")]
    BY <1>2, Functions DEF CallTimeout
  <2>2. ~Maker(req[r])
    BY <1>1, <1>2 DEF Maker
  <2> QED
    BY <1>1, <2>1, <2>2, FinishedContinues DEF GoesOn, SessionsStand
<1>3. CASE req[r].method \notin {"user", "job_wait"}
  <2>1. req' = [req EXCEPT ![r] = Failed(req[r], FALSE)]
    BY <1>3, Functions DEF CallTimeout
  <2> QED
    BY <1>1, <2>1, FailedContinues DEF GoesOn, SessionsStand
<1> QED
  BY <1>2, <1>3

LEMMA CallReturnGoesOn ==
  ASSUME Typed, NEW r \in Request, CallReturn(r)
  PROVE  GoesOn(r)
<1> DEFINE n == req[r].ses
           s == [sess[n] EXCEPT !.calls = CallsWithout(n, r), !.busy = FALSE]
<1>1. /\ req[r].pc = "await" /\ n \in Session
      /\ \/ req' = [req EXCEPT ![r] = Answered(req[r])]
         \/ req' = [req EXCEPT ![r] = Failed(req[r], FALSE)]
      /\ sess' = [sess EXCEPT ![n] = s]
  BY CallReturnShape
<1>2. req[r] \in RequestRecord /\ Local(req[r]) /\ sess[n] \in SessionRecord
  BY <1>1, RecordOf, SessionOf
<1>3. s.fut = sess[n].fut /\ s.channel = sess[n].channel
  BY <1>2 DEF SessionRecord
<1> HIDE DEF n, s
<1>4. SessionsStand
  BY <1>1, <1>3, SessionStands
<1> QED
  BY <1>1, <1>2, <1>4, AnsweredContinues, FailedContinues DEF GoesOn

LEMMA JobLookupGoesOn ==
  ASSUME Typed, NEW r \in Request, JobLookup(r)
  PROVE  GoesOn(r)
<1> DEFINE n == req[r].ses
           j == req[r].job
           p == [req[r] EXCEPT !.pc = "register", !.method = "job_wait"]
           s == [sess[n] EXCEPT !.jobMap = [sess[n].jobMap EXCEPT ![j] = "pending"]]
<1>1. /\ req[r].pc = "joblookup" /\ n \in Session /\ j \in Job
      /\ \/ /\ \E result \in {"answer", "error"} :
                 req' = [req EXCEPT ![r] = Finished(req[r], result)]
            /\ UNCHANGED sess
         \/ /\ sess[n].jobMap[j] \in {"absent", "pending"}
            /\ req' = [req EXCEPT ![r] = p]
            /\ sess' = [sess EXCEPT ![n] = s]
      /\ UNCHANGED <<slots, jobs, waits>>
  BY JobLookupShape
<1>2. req[r] \in RequestRecord /\ sess[n] \in SessionRecord /\ ~Maker(req[r])
  BY <1>1, RecordOf, SessionOf DEF Maker
<1>3. CASE /\ \E result \in {"answer", "error"} :
                req' = [req EXCEPT ![r] = Finished(req[r], result)]
           /\ UNCHANGED sess
  BY <1>2, <1>3, FinishedContinues DEF GoesOn, SessionsStand
<1>4. CASE req' = [req EXCEPT ![r] = p] /\ sess' = [sess EXCEPT ![n] = s]
  <2>1. /\ p.pc = "register" /\ p.method = "job_wait"
        /\ p.runs = req[r].runs /\ p.collided = req[r].collided
    BY <1>2 DEF RequestRecord
  <2>2. s.fut = sess[n].fut /\ s.channel = sess[n].channel
    BY <1>2 DEF SessionRecord
  <2> HIDE DEF n, p, s
  <2>3. Continues(req[r], p)
    BY <1>1, <1>2, <2>1 DEF Continues, Maker, OnceRun
  <2> QED
    BY <1>1, <1>4, <2>2, <2>3, SessionStands DEF GoesOn
<1> QED
  BY <1>1, <1>3, <1>4

LEMMA JobAnswerGoesOn ==
  ASSUME Typed, NEW r \in Request, JobGet(r) \/ PeekJob(r)
  PROVE  GoesOn(r)
<1>1. PICK result \in {"answer", "error"} :
        req' = [req EXCEPT ![r] = Finished(req[r], result)]
  BY JobGetTyped, PeekJobTyped
<1>2. UNCHANGED sess /\ req[r] \in RequestRecord /\ ~Maker(req[r])
  BY RecordOf DEF JobGet, PeekJob, Maker
<1> QED
  BY <1>1, <1>2, FinishedContinues DEF GoesOn, SessionsStand

\* The two steps that make a session and settle its future.
LEMMA PickNewLife ==
  ASSUME Typed, LifeInv, NEW r \in Request, PickNew(r)
  PROVE  LifeInv'
<1>1. PICK n \in Unused, i \in 1 .. Len(slots) + 1 :
        /\ req' = [req EXCEPT ![r] = [@ EXCEPT !.pc = "dial", !.ses = n, !.at = 0]]
        /\ sess' = [sess EXCEPT ![n] = [@ EXCEPT !.fut = "pending", !.channel = i]]
        /\ slots' = IF i \in DOMAIN slots THEN [slots EXCEPT ![i] = n]
                                          ELSE Append(slots, n)
  BY PickNewShape
<1> DEFINE p == [req[r] EXCEPT !.pc = "dial", !.ses = n, !.at = 0]
           s == [sess[n] EXCEPT !.fut = "pending", !.channel = i]
<1>2. /\ n \in Session /\ sess[n].fut = "none" /\ req[r].pc = "pick"
      /\ req[r] \in RequestRecord /\ sess[n] \in SessionRecord
  BY RecordOf, SessionOf DEF Unused, PickNew
<1>3. /\ p.pc = "dial" /\ p.ses = n /\ p.runs = req[r].runs
      /\ p.collided = req[r].collided
  BY <1>2 DEF RequestRecord
<1>4. s.fut = "pending" /\ s.channel = i
  BY <1>2 DEF SessionRecord
<1>5. req' = [req EXCEPT ![r] = p] /\ sess' = [sess EXCEPT ![n] = s]
  BY <1>1, Functions
<1> HIDE DEF p, s
<1>6. /\ req'[r] = p /\ \A q \in Request \ {r} : req'[q] = req[q]
      /\ sess'[n] = s /\ \A k \in Session \ {n} : sess'[k] = sess[k]
  BY <1>2, <1>5, Functions
<1>7. Makers'
  <2>1. \A q \in Request : Making(q, n)' <=> q = r
    BY <1>2, <1>3, <1>6 DEF Making, LifeInv, Makers
  <2>2. \A q \in Request, k \in Session \ {n} : Making(q, k)' <=> Making(q, k)
    BY <1>2, <1>3, <1>6 DEF Making
  <2>3. \A q \in Request, k \in Session \ {n} : Making(q, k)' => sess'[k].fut = "pending"
    BY <1>6, <2>2 DEF LifeInv, Makers
  <2>4. \A k \in Session \ {n} : sess'[k].fut = "pending" =>
          \E m \in Request : \A q \in Request : Making(q, k)' <=> q = m
    BY <1>6, <2>2 DEF LifeInv, Makers
  <2> QED
    BY <1>4, <1>6, <2>1, <2>3, <2>4 DEF Makers
<1>8. SlotsHeld'
  <2>1. \A k \in DOMAIN slots : slots[k] = Nil \/ (slots[k] \in Session /\ slots[k] # n)
    BY <1>2 DEF Typed, TypeOK, LifeInv, SlotsHeld
  <2>2. \A k \in DOMAIN slots : slots[k] # Nil =>
          sess'[slots[k]].fut # "none" /\ sess'[slots[k]].channel = k
    BY <1>6, <2>1 DEF LifeInv, SlotsHeld
  <2>3. slots \in Seq(Session \cup {Nil}) /\ i \in Nat
    BY DEF Typed, TypeOK
  <2>4. CASE i \in DOMAIN slots
    BY <1>1, <1>4, <1>6, <2>2, <2>4 DEF SlotsHeld
  <2>5. CASE i \notin DOMAIN slots
    <3>1. i = Len(slots) + 1 /\ slots' = Append(slots, n)
      BY <1>1, <2>3, <2>5
    <3>2. /\ DOMAIN slots' = DOMAIN slots \cup {i} /\ slots'[i] = n
          /\ \A k \in DOMAIN slots : slots'[k] = slots[k]
      BY <1>2, <2>3, <3>1
    <3> QED
      BY <1>4, <1>6, <2>2, <3>2 DEF SlotsHeld
  <2> QED
    BY <2>4, <2>5
<1>9. RunsOnce'
  BY <1>2, <1>3, <1>6 DEF LifeInv, RunsOnce, OnceRun
<1> QED
  BY <1>7, <1>8, <1>9 DEF LifeInv

LEMMA SettleLife ==
  ASSUME Typed, LifeInv, NEW r \in Request, Settle(r), NEW n, n = req[r].ses
  PROVE  LifeInv'
<1>1. /\ n \in Session /\ req[r].pc \in {"settle", "fail"} /\ UNCHANGED slots
      /\ \E p : /\ req' = [req EXCEPT ![r] = p]
                /\ ~Maker(p) /\ (OnceRun(req[r]) => OnceRun(p))
      /\ \E f \in {"ok", "failed"} : sess' = [sess EXCEPT ![n] = [sess[n] EXCEPT !.fut = f]]
  <2> DEFINE p == [req[r] EXCEPT !.pc = "delete"]
  <2>1. /\ n \in Session /\ UNCHANGED slots
        /\ \/ /\ req[r].pc = "settle"
              /\ req' = [req EXCEPT ![r] = Entered(req[r])]
              /\ sess' = [sess EXCEPT ![n] = [sess[n] EXCEPT !.fut = "ok"]]
           \/ /\ req[r].pc = "fail"
              /\ req' = [req EXCEPT ![r] = p]
              /\ sess' = [sess EXCEPT ![n] = [sess[n] EXCEPT !.fut = "failed"]]
    BY SettleShape
  <2>2. req[r] \in RequestRecord /\ Local(req[r])
    BY RecordOf
  <2>3. CASE req[r].pc = "settle"
    <3>1. /\ req[r].kind \in Kind /\ req[r].ses \in Session
          /\ req[r].kind # "call" => req[r].job \in Job
      BY <2>2, <2>3 DEF Local
    <3> DEFINE e == Entered(req[r])
    <3>2. /\ e.pc \in {"register", "joblookup", "peek"} /\ e.method \in {"user", Nil}
          /\ e.runs = req[r].runs /\ e.collided = req[r].collided
      BY <2>2, <3>1, EnteredRecord
    <3> HIDE DEF e
    <3>3. ~Maker(e) /\ (OnceRun(req[r]) => OnceRun(e))
      BY <2>3, <3>2, DaemonAssumption DEF Maker, OnceRun, Method
    <3> QED
      BY <2>1, <2>3, <3>3 DEF e
  <2>4. CASE req[r].pc = "fail"
    <3>1. p.pc = "delete" /\ p.runs = req[r].runs /\ p.collided = req[r].collided
      BY <2>2 DEF RequestRecord
    <3> HIDE DEF p
    <3>2. ~Maker(p) /\ (OnceRun(req[r]) => OnceRun(p))
      BY <2>4, <3>1 DEF Maker, OnceRun
    <3> QED
      BY <2>1, <2>4, <3>2
  <2> QED
    BY <2>1, <2>3, <2>4
<1>2. PICK p : /\ req' = [req EXCEPT ![r] = p]
               /\ ~Maker(p) /\ (OnceRun(req[r]) => OnceRun(p))
  BY <1>1
<1>3. PICK f \in {"ok", "failed"} : sess' = [sess EXCEPT ![n] = [sess[n] EXCEPT !.fut = f]]
  BY <1>1
<1> DEFINE s == [sess[n] EXCEPT !.fut = f]
<1>4. s.fut = f /\ s.channel = sess[n].channel
  <2>1. sess[n] \in SessionRecord
    BY <1>1, SessionOf
  <2> QED
    BY <2>1 DEF SessionRecord
<1>5. sess' = [sess EXCEPT ![n] = s]
  BY <1>3
<1> HIDE DEF s
<1>6. /\ req'[r] = p /\ \A q \in Request \ {r} : req'[q] = req[q]
      /\ sess'[n] = s /\ \A k \in Session \ {n} : sess'[k] = sess[k]
  BY <1>1, <1>2, <1>5, Functions
<1>7. \A q \in Request : Making(q, n) <=> q = r
  <2>1. Making(r, n)
    BY <1>1 DEF Making
  <2> QED
    BY <1>1, <2>1 DEF LifeInv, Makers
<1>8. Makers'
  <2>1. \A q \in Request : ~Making(q, n)'
    <3>1. ~Making(r, n)'
      BY <1>2, <1>6 DEF Making, Maker
    <3> QED
      BY <1>6, <1>7, <3>1 DEF Making
  <2>2. \A q \in Request, k \in Session \ {n} : Making(q, k)' <=> Making(q, k)
    <3>1. \A k \in Session \ {n} : ~Making(r, k) /\ ~Making(r, k)'
      BY <1>2, <1>6 DEF Making, Maker
    <3> QED
      BY <1>6, <3>1 DEF Making
  <2>3. \A q \in Request, k \in Session \ {n} : Making(q, k)' => sess'[k].fut = "pending"
    BY <1>6, <2>2 DEF LifeInv, Makers
  <2>4. \A k \in Session \ {n} : sess'[k].fut = "pending" =>
          \E m \in Request : \A q \in Request : Making(q, k)' <=> q = m
    BY <1>6, <2>2 DEF LifeInv, Makers
  <2> QED
    BY <1>4, <1>6, <2>1, <2>3, <2>4 DEF Makers
<1>9. SlotsHeld'
  <2>1. \A k \in DOMAIN slots : slots[k] = Nil \/ slots[k] \in Session
    BY DEF Typed, TypeOK
  <2> QED
    BY <1>1, <1>4, <1>6, <2>1 DEF LifeInv, SlotsHeld
<1>10. RunsOnce'
  BY <1>2, <1>6 DEF LifeInv, RunsOnce
<1> QED
  BY <1>8, <1>9, <1>10 DEF LifeInv

LEMMA RequestLife ==
  ASSUME Typed, LifeInv, NEW r \in Request, Arrive(r) \/ Progress(r)
  PROVE  LifeInv'
<1>1. CASE PickNew(r) \/ Settle(r)
  BY <1>1, PickNewLife, SettleLife
<1>2. CASE ~PickNew(r) /\ ~Settle(r)
  <2>1. GoesOn(r)
    BY <1>2, ArriveGoesOn, PassOverGoesOn, PickIdleGoesOn, DialGoesOn, DeleteGoesOn, RegisterGoesOn,
       WriteGoesOn, CallTimeoutGoesOn, CallReturnGoesOn, JobLookupGoesOn, JobAnswerGoesOn
       DEF Progress
  <2>2. Makers' /\ RunsOnce'
    BY <2>1, ContinuesInv DEF GoesOn
  <2>3. UNCHANGED slots \/ \E n \in Session : ClearSlot(n)
    <3>1. CASE Delete(r)
      <4>1. req[r].ses \in Session
        BY <3>1, RecordOf DEF Delete, Local
      <4> QED
        BY <3>1, <4>1 DEF Delete
    <3> QED
      BY <1>2, <3>1 DEF Arrive, Finish, Progress, PassOver, PickIdle, Dial, Register, Write, WriteOpen,
         WriteCollides, WriteLost, WriteClosed, CallTimeout, CallReturn, JobLookup,
         JobGet, PeekJob
  <2>4. SlotsHeld'
    BY <2>1, <2>3, SlotsKept DEF GoesOn, LifeInv
  <2> QED
    BY <2>2, <2>4 DEF LifeInv
<1> QED
  BY <1>1, <1>2

\* The steps of a listener or of a break on its own session, but for updates.
Kept(n, s) ==
  /\ s.fut = sess[n].fut /\ s.channel = sess[n].channel
  /\ s.events \subseteq sess[n].events
  /\ \A j \in Job : s.jobMap[j] = "ended" => sess[n].jobMap[j] = "ended"

LEMMA ListenerSession ==
  ASSUME Typed, NEW n \in Session,
         ListenReply(n) \/ ListenExit(n) \/ ListenFailAll(n) \/ ListenDelete(n) \/ Drop(n)
  PROVE  \E s : sess' = [sess EXCEPT ![n] = s] /\ Kept(n, s)
<1>1. sess[n] \in SessionRecord
  BY SessionOf
<1>2. CASE ListenReply(n)
  <2>1. PICK m : sess' = [sess EXCEPT ![n].sent = @ \ {m}]
    BY <1>2 DEF ListenReply
  <2> DEFINE s == [sess[n] EXCEPT !.sent = sess[n].sent \ {m}]
  <2>2. sess' = [sess EXCEPT ![n] = s]
    BY <2>1, Functions
  <2>3. Kept(n, s)
    BY <1>1 DEF Kept, SessionRecord
  <2> QED
    BY <2>2, <2>3
<1>3. CASE ListenExit(n)
  <2>1. PICK how : sess' = [sess EXCEPT ![n].conn = how, ![n].listen = "failing"]
    BY <1>3 DEF ListenExit
  <2> DEFINE s == [sess[n] EXCEPT !.conn = how, !.listen = "failing"]
  <2>2. sess' = [sess EXCEPT ![n] = s]
    BY <2>1, Functions
  <2>3. Kept(n, s)
    BY <1>1 DEF Kept, SessionRecord
  <2> QED
    BY <2>2, <2>3
<1>4. CASE ListenFailAll(n)
  <2> DEFINE s == [sess[n] EXCEPT !.listen = "deleting", !.jobMap = JobsFailed(n)]
  <2>1. sess' = [sess EXCEPT ![n] = s]
    BY <1>4, ListenFailAllShape
  <2>2. /\ s.fut = sess[n].fut /\ s.channel = sess[n].channel
        /\ s.events = sess[n].events /\ s.jobMap = JobsFailed(n)
    BY <1>1 DEF SessionRecord
  <2> HIDE DEF s
  <2>3. Kept(n, s)
    BY <2>2 DEF Kept, JobsFailed
  <2> QED
    BY <2>1, <2>3
<1>5. CASE ListenDelete(n)
  <2> DEFINE s == [sess[n] EXCEPT !.listen = "gone"]
  <2>1. sess' = [sess EXCEPT ![n] = s]
    BY <1>5, Functions DEF ListenDelete
  <2>2. Kept(n, s)
    BY <1>1 DEF Kept, SessionRecord
  <2> QED
    BY <2>1, <2>2
<1>6. CASE Drop(n)
  <2> DEFINE s == [sess[n] EXCEPT !.conn = "lost", !.sent = {}, !.events = {}]
  <2>1. sess' = [sess EXCEPT ![n] = s]
    BY <1>6, Functions DEF Drop
  <2>2. Kept(n, s)
    BY <1>1 DEF Kept, SessionRecord
  <2> QED
    BY <2>1, <2>2
<1> QED
  BY <1>2, <1>3, <1>4, <1>5, <1>6

LEMMA ListenersAttend ==
  ASSUME Typed, NEW n \in Session, ListenReply(n) \/ ListenFailAll(n)
  PROVE  Attends
<1>1. CASE ListenReply(n)
  <2>1. PICK m \in sess[n].sent :
          /\ \A r \in Request :
               /\ req'[r].pc = req[r].pc /\ req'[r].ses = req[r].ses
               /\ req'[r].id = req[r].id /\ req'[r].method = req[r].method
               /\ req'[r].job = req[r].job /\ req'[r].runs = req[r].runs
               /\ req'[r].collided = req[r].collided
               /\ \/ req'[r] = req[r]
                  \/ /\ req'[r].fcall = "answered" /\ req'[r].reply = m
                     /\ \E c \in sess[n].calls : c.id = m.id /\ c.by = r /\ Awaits(n, c)
          /\ SameCalls
    BY <1>1, ListenReplyShape
  <2> QED
    BY <2>1 DEF Attends
<1>2. CASE ListenFailAll(n)
  <2> SUFFICES ASSUME NEW r \in Request
               PROVE  /\ req'[r].pc = req[r].pc /\ req'[r].ses = req[r].ses
                      /\ req'[r].method = req[r].method
                      /\ req'[r].runs = req[r].runs /\ req'[r].collided = req[r].collided
    BY DEF Attends
  <2> DEFINE p == [req[r] EXCEPT !.fcall = "failed"]
  <2>1. req'[r] = p \/ req'[r] = req[r]
    BY <1>2 DEF ListenFailAll
  <2>2. req[r] \in RequestRecord
    BY RecordOf
  <2>3. /\ p.pc = req[r].pc /\ p.ses = req[r].ses /\ p.method = req[r].method
        /\ p.runs = req[r].runs /\ p.collided = req[r].collided
    BY <2>2 DEF RequestRecord
  <2> HIDE DEF p
  <2> QED
    BY <2>1, <2>3
<1> QED
  BY <1>1, <1>2

LEMMA OtherLife ==
  ASSUME Typed, LifeInv,
         \/ \E n \in Session : Listen(n) \/ Drop(n)
         \/ \E j \in Job : JobRuns(j) \/ JobEnds(j) \/ WaitEnds(j)
  PROVE  LifeInv'
<1>1. Attends
  BY ListenersAttend DEF Listen, ListenJob, ListenExit, ListenDelete, Drop, JobRuns,
     JobEnds, WaitEnds, Attends
<1>2. ASSUME NEW n \in Session, Listen(n) \/ Drop(n) PROVE SessionsStand
  <2>1. CASE ListenJob(n)
    <3>1. PICK e \in sess[n].events :
            LET f == IF e.final THEN "ended" ELSE sess[n].jobMap[e.job]
            IN  sess' = [sess EXCEPT ![n] = [sess[n] EXCEPT
                           !.events = sess[n].events \ {e},
                           !.jobMap = [sess[n].jobMap EXCEPT ![e.job] = f]]]
      BY <2>1, ListenJobShape
    <3> DEFINE f == IF e.final THEN "ended" ELSE sess[n].jobMap[e.job]
               s == [sess[n] EXCEPT !.events = sess[n].events \ {e},
                                    !.jobMap = [sess[n].jobMap EXCEPT ![e.job] = f]]
    <3>2. sess' = [sess EXCEPT ![n] = s]
      BY <3>1
    <3>3. s.fut = sess[n].fut /\ s.channel = sess[n].channel
      BY SessionOf DEF SessionRecord
    <3> HIDE DEF s
    <3> QED
      BY <3>2, <3>3, SessionStands
  <2>2. CASE ~ListenJob(n)
    <3>1. PICK s : sess' = [sess EXCEPT ![n] = s] /\ Kept(n, s)
      BY <1>2, <2>2, ListenerSession DEF Listen
    <3> QED
      BY <3>1, SessionStands DEF Kept
  <2> QED
    BY <2>1, <2>2
<1>3. ASSUME NEW j \in Job, JobRuns(j) \/ JobEnds(j) \/ WaitEnds(j) PROVE SessionsStand
  <2>1. PICK final \in BOOLEAN : Publish(j, final)
    BY <1>3, PublishedUpdate
  <2> SUFFICES ASSUME NEW n \in Session
               PROVE  sess'[n].fut = sess[n].fut /\ sess'[n].channel = sess[n].channel
    BY DEF SessionsStand
  <2>2. PICK E : sess'[n] = [sess[n] EXCEPT !.events = E]
    BY <2>1, PublishShape
  <2>3. sess[n] \in SessionRecord
    BY SessionOf
  <2> QED
    BY <2>2, <2>3 DEF SessionRecord
<1>4. SessionsStand
  BY <1>2, <1>3
<1>5. Makers' /\ RunsOnce'
  BY <1>1, <1>4, MakersContinue DEF Attends, Maker, OnceRun
<1>6. UNCHANGED slots \/ \E n \in Session : ClearSlot(n)
  BY DEF Listen, ListenReply, ListenJob, ListenExit, ListenFailAll, ListenDelete, Drop,
     JobRuns, JobEnds, WaitEnds
<1>7. SlotsHeld'
  BY <1>4, <1>6, SlotsKept DEF LifeInv
<1> QED
  BY <1>5, <1>7 DEF LifeInv

------------------------------------------------------------------------------
\* What connections tell of jobs.

\* A future reached, or a final update on its way, is of a job that is over.
JobsOver ==
  \A n \in Session :
    /\ \A j \in Job : sess[n].jobMap[j] = "ended" => jobs[j] # "running"
    /\ \A e \in sess[n].events : e.final => jobs[e.job] # "running"

\* No session learns anything of a job.
Unheard ==
  \A n \in Session :
    /\ sess'[n].events \subseteq sess[n].events
    /\ \A j \in Job : sess'[n].jobMap[j] = "ended" => sess[n].jobMap[j] = "ended"

LEMMA UnheardInv ==
  ASSUME JobsOver, Unheard, UNCHANGED jobs
  PROVE  JobsOver'
BY DEF JobsOver, Unheard

LEMMA SessionUnheard ==
  ASSUME Typed, NEW n \in Session, NEW s, sess' = [sess EXCEPT ![n] = s],
         s.events = sess[n].events, s.jobMap = sess[n].jobMap
  PROVE  Unheard
<1>1. \A k \in Session : sess'[k] = IF k = n THEN s ELSE sess[k]
  BY Functions
<1>2. /\ s.events \subseteq sess[n].events
      /\ \A j \in Job : s.jobMap[j] = "ended" => sess[n].jobMap[j] = "ended"
  OBVIOUS
<1> QED
  BY <1>1, <1>2 DEF Unheard

LEMMA RequestUnheard ==
  ASSUME Typed, NEW r \in Request, Arrive(r) \/ Progress(r)
  PROVE  Unheard /\ UNCHANGED jobs
<1> SUFFICES Unheard
  BY DEF Arrive, Finish, Progress, PassOver, PickIdle, PickNew, Dial, Settle, Delete, Register, Write,
     WriteOpen, WriteCollides, WriteLost, WriteClosed, CallTimeout, CallReturn,
     JobLookup, JobGet, PeekJob
<1> DEFINE n == req[r].ses
<1>1. CASE UNCHANGED sess
  BY <1>1 DEF Unheard
<1>2. CASE PickNew(r)
  <2>1. PICK k \in Unused, i \in 1 .. Len(slots) + 1 :
          sess' = [sess EXCEPT ![k] = [@ EXCEPT !.fut = "pending", !.channel = i]]
    BY <1>2, PickNewShape
  <2> DEFINE s == [sess[k] EXCEPT !.fut = "pending", !.channel = i]
  <2>2. k \in Session /\ sess' = [sess EXCEPT ![k] = s]
    BY <2>1, Functions DEF Unused
  <2>3. s.events = sess[k].events /\ s.jobMap = sess[k].jobMap
    BY <2>2, SessionOf DEF SessionRecord
  <2> HIDE DEF s
  <2> QED
    BY <2>2, <2>3, SessionUnheard
<1>3. CASE Dial(r)
  <2>1. n \in Session
    BY <1>3, RecordOf DEF Dial, Local
  <2> DEFINE s == [sess[n] EXCEPT !.conn = "open", !.listen = "reading"]
  <2>2. CASE sess' = [sess EXCEPT ![n].conn = "open", ![n].listen = "reading"]
    <3>1. sess' = [sess EXCEPT ![n] = s]
      BY <2>1, <2>2, Functions
    <3>2. s.events = sess[n].events /\ s.jobMap = sess[n].jobMap
      BY <2>1, SessionOf DEF SessionRecord
    <3> HIDE DEF s
    <3> QED
      BY <2>1, <3>1, <3>2, SessionUnheard
  <2> QED
    BY <1>1, <1>3, <2>2 DEF Dial
<1>4. CASE Settle(r)
  <2>1. n \in Session /\ \E f \in {"ok", "failed"} :
                           sess' = [sess EXCEPT ![n] = [sess[n] EXCEPT !.fut = f]]
    BY <1>4, SettleShape
  <2>2. PICK f : sess' = [sess EXCEPT ![n] = [sess[n] EXCEPT !.fut = f]]
    BY <2>1
  <2> DEFINE s == [sess[n] EXCEPT !.fut = f]
  <2>3. s.events = sess[n].events /\ s.jobMap = sess[n].jobMap
    BY <2>1, SessionOf DEF SessionRecord
  <2> HIDE DEF n
  <2> QED
    BY <2>1, <2>2, <2>3, SessionUnheard
<1>5. CASE Register(r)
  <2> DEFINE s == [sess[n] EXCEPT !.lastId = sess[n].lastId + 1,
                                  !.calls = CallsWith(n, r), !.busy = TRUE]
  <2>1. n \in Session /\ sess' = [sess EXCEPT ![n] = s]
    BY <1>5, RegisterShape
  <2>2. s.events = sess[n].events /\ s.jobMap = sess[n].jobMap
    BY <2>1, SessionOf DEF SessionRecord
  <2> HIDE DEF n, s
  <2> QED
    BY <2>1, <2>2, SessionUnheard
<1>6. CASE WriteOpen(r) \/ WriteCollides(r)
  <2>1. n \in Session
    BY <1>6, SessionOfRequest DEF WriteOpen, WriteCollides
  <2>2. ASSUME NEW ok \in BOOLEAN, ServerReceives(r, ok) PROVE Unheard
    <3> DEFINE m == [id |-> req[r].id, by |-> r, method |-> req[r].method, ok |-> ok]
               s == [sess[n] EXCEPT !.sent = @ \cup {m},
                                    !.subscribed = @ \/ req[r].method = "subscribe"]
    <3>1. sess' = [sess EXCEPT ![n] = s]
      BY <2>1, <2>2, Functions DEF ServerReceives
    <3>2. s.events = sess[n].events /\ s.jobMap = sess[n].jobMap
      BY <2>1, SessionOf DEF SessionRecord
    <3> HIDE DEF n, s
    <3> QED
      BY <2>1, <3>1, <3>2, SessionUnheard
  <2> QED
    BY <1>1, <1>6, <2>2 DEF WriteOpen, WriteCollides
<1>7. CASE CallReturn(r)
  <2> DEFINE s == [sess[n] EXCEPT !.calls = CallsWithout(n, r), !.busy = FALSE]
  <2>1. n \in Session /\ sess' = [sess EXCEPT ![n] = s]
    BY <1>7, CallReturnShape
  <2>2. s.events = sess[n].events /\ s.jobMap = sess[n].jobMap
    BY <2>1, SessionOf DEF SessionRecord
  <2> HIDE DEF n, s
  <2> QED
    BY <2>1, <2>2, SessionUnheard
<1>8. CASE JobLookup(r)
  <2> DEFINE j == req[r].job
             s == [sess[n] EXCEPT !.jobMap = [sess[n].jobMap EXCEPT ![j] = "pending"]]
  <2>1. n \in Session /\ (UNCHANGED sess \/ sess' = [sess EXCEPT ![n] = s])
    <3>1. /\ req[r].pc = "joblookup" /\ n \in Session /\ j \in Job
          /\ \/ /\ \E result \in {"answer", "error"} :
                     req' = [req EXCEPT ![r] = Finished(req[r], result)]
                /\ UNCHANGED sess
             \/ /\ sess[n].jobMap[j] \in {"absent", "pending"}
                /\ req' = [req EXCEPT ![r] = [req[r] EXCEPT !.pc = "register",
                                                            !.method = "job_wait"]]
                /\ sess' = [sess EXCEPT ![n] = s]
          /\ UNCHANGED <<slots, jobs, waits>>
      BY <1>8, JobLookupShape
    <3> QED
      BY <3>1
  <2>2. /\ s.events = sess[n].events
        /\ s.jobMap = [sess[n].jobMap EXCEPT ![j] = "pending"]
        /\ sess[n].jobMap \in [Job -> {"absent", "pending", "ended", "failed"}]
    BY <2>1, SessionOf DEF SessionRecord
  <2> HIDE DEF n, s, j
  <2>3. \A i \in Job : s.jobMap[i] = "ended" => sess[n].jobMap[i] = "ended"
    BY <2>2
  <2>4. CASE sess' = [sess EXCEPT ![n] = s]
    <3>1. \A k \in Session : sess'[k] = IF k = n THEN s ELSE sess[k]
      BY <2>1, <2>4, Functions
    <3> QED
      BY <2>2, <2>3, <3>1 DEF Unheard
  <2> QED
    BY <1>1, <2>1, <2>4
<1> QED
  BY <1>1, <1>2, <1>3, <1>4, <1>5, <1>6, <1>7, <1>8
     DEF Arrive, Finish, Progress, PassOver, PickIdle, Delete, Write, WriteLost, WriteClosed,
         CallTimeout, JobGet, PeekJob

LEMMA ListenJobOver ==
  ASSUME Typed, JobsOver, NEW n \in Session, ListenJob(n)
  PROVE  JobsOver'
<1>1. PICK e \in sess[n].events :
        LET f == IF e.final THEN "ended" ELSE sess[n].jobMap[e.job]
        IN  sess' = [sess EXCEPT ![n] = [sess[n] EXCEPT
                       !.events = sess[n].events \ {e},
                       !.jobMap = [sess[n].jobMap EXCEPT ![e.job] = f]]]
  BY ListenJobShape
<1> DEFINE f == IF e.final THEN "ended" ELSE sess[n].jobMap[e.job]
           s == [sess[n] EXCEPT !.events = sess[n].events \ {e},
                                !.jobMap = [sess[n].jobMap EXCEPT ![e.job] = f]]
<1>2. /\ e.job \in Job
      /\ sess[n].jobMap \in [Job -> {"absent", "pending", "ended", "failed"}]
      /\ s.events = sess[n].events \ {e}
      /\ s.jobMap = [sess[n].jobMap EXCEPT ![e.job] = f]
  BY SessionOf DEF SessionRecord, JobUpdate
<1>3. sess' = [sess EXCEPT ![n] = s] /\ UNCHANGED jobs
  BY <1>1 DEF ListenJob
<1> HIDE DEF s
<1>4. \A k \in Session : sess'[k] = IF k = n THEN s ELSE sess[k]
  BY <1>3, Functions
<1>5. \A j \in Job : s.jobMap[j] = "ended" => jobs[j] # "running"
  BY <1>2 DEF JobsOver
<1>6. \A d \in s.events : d.final => jobs[d.job] # "running"
  BY <1>2 DEF JobsOver
<1> QED
  BY <1>3, <1>4, <1>5, <1>6 DEF JobsOver

LEMMA PublishOver ==
  ASSUME Typed, JobsOver, NEW j \in Job, NEW final \in BOOLEAN, Publish(j, final),
         \A k \in Job : jobs[k] # "running" => jobs'[k] # "running",
         final => jobs'[j] # "running"
  PROVE  JobsOver'
<1> SUFFICES ASSUME NEW n \in Session
             PROVE  /\ \A k \in Job : sess'[n].jobMap[k] = "ended" => jobs'[k] # "running"
                    /\ \A e \in sess'[n].events : e.final => jobs'[e.job] # "running"
  BY DEF JobsOver
<1> DEFINE u == [job |-> j, final |-> final]
<1>1. PICK E \in SUBSET (sess[n].events \cup {u}) : sess'[n] = [sess[n] EXCEPT !.events = E]
  BY PublishShape
<1>2. sess'[n].events = E /\ sess'[n].jobMap = sess[n].jobMap
      /\ \A e \in sess[n].events : e.job \in Job
  BY <1>1, SessionOf DEF SessionRecord, JobUpdate
<1>3. u.job = j /\ u.final = final
  OBVIOUS
<1> HIDE DEF u
<1>4. \A e \in E : e.final => jobs'[e.job] # "running"
  BY <1>1, <1>2, <1>3 DEF JobsOver
<1> QED
  BY <1>2, <1>4 DEF JobsOver

LEMMA NextOver == Inv /\ JobsOver /\ [Next]_vars => JobsOver'
<1> SUFFICES ASSUME Inv, JobsOver, [Next]_vars PROVE JobsOver'
  OBVIOUS
<1> USE DEF Inv
<1>1. ASSUME NEW r \in Request, Arrive(r) \/ Progress(r) PROVE JobsOver'
  BY <1>1, RequestUnheard, UnheardInv
<1>2. ASSUME NEW n \in Session, Listen(n) \/ Drop(n) PROVE JobsOver'
  <2>1. CASE ListenJob(n)
    BY <2>1, ListenJobOver
  <2>2. CASE ~ListenJob(n)
    <3>1. PICK s : sess' = [sess EXCEPT ![n] = s] /\ Kept(n, s)
      BY <1>2, <2>2, ListenerSession DEF Listen
    <3>2. UNCHANGED jobs
      BY <1>2 DEF Listen, ListenReply, ListenJob, ListenExit, ListenFailAll,
         ListenDelete, Drop
    <3>3. \A k \in Session : sess'[k] = IF k = n THEN s ELSE sess[k]
      BY <3>1, Functions
    <3>4. Unheard
      BY <3>1, <3>3 DEF Unheard, Kept
    <3> QED
      BY <3>2, <3>4, UnheardInv
  <2> QED
    BY <2>1, <2>2
<1>3. ASSUME NEW j \in Job, JobRuns(j) PROVE JobsOver'
  BY <1>3, PublishOver DEF JobRuns
<1>4. ASSUME NEW j \in Job, JobEnds(j) PROVE JobsOver'
  <2>1. PICK how \in {"ended", "aborted"} :
          jobs' = [jobs EXCEPT ![j] = how] /\ Publish(j, how = "ended")
    BY <1>4 DEF JobEnds
  <2>2. \A k \in Job : jobs'[k] = IF k = j THEN how ELSE jobs[k]
    BY <2>1 DEF Typed, TypeOK
  <2>3. (how = "ended") \in BOOLEAN
    OBVIOUS
  <2> QED
    BY <2>1, <2>2, <2>3, PublishOver
<1>5. ASSUME NEW j \in Job, WaitEnds(j) PROVE JobsOver'
  BY <1>5, PublishOver DEF WaitEnds
<1>6. CASE UNCHANGED vars
  BY <1>6 DEF vars, JobsOver
<1> QED
  BY <1>1, <1>2, <1>3, <1>4, <1>5, <1>6 DEF Next

------------------------------------------------------------------------------
\* The invariant and what follows from it.

LEMMA InitInv == Init => Inv
<1> SUFFICES ASSUME Init PROVE Inv
  OBVIOUS
<1>1. Typed
  BY InitTyped
<1>2. /\ req = [r \in Request |-> NewRequest] /\ sess = [n \in Session |-> NewSession]
      /\ NewRequest.pc = "idle" /\ NewRequest.method = Nil /\ Nil # "job_wait"
      /\ NewSession.conn = "none" /\ NewSession.listen = "none"
      /\ NewSession.calls = {} /\ NewSession.sent = {}
  BY DaemonAssumption DEF Init, NewRequest, NewSession, Method
<1> QED
  BY <1>1, <1>2 DEF Inv, Connections, CallInv, IdsUsedOnce, CallsRegistered, Messages,
     Answers, JobsRegistered, CallsReleased

LEMMA NextInv == Inv /\ [Next]_vars => Inv'
<1> SUFFICES ASSUME Inv, [Next]_vars PROVE Inv'
  OBVIOUS
<1>1. Typed /\ Connections /\ CallInv
  BY DEF Inv
<1>2. Typed'
  BY <1>1, NextTyped
<1>3. ASSUME NEW r \in Request, Arrive(r) \/ Progress(r)
      PROVE  Connections' /\ CallInv'
  <2>1. Connections'
    BY <1>1, <1>3, ConnectionsRequest
  <2>2. CASE Quiet(r)
    BY <1>1, <2>1, <2>2, QuietInv
  <2>3. CASE Register(r) \/ Write(r) \/ CallReturn(r) \/ JobLookup(r)
    BY <1>1, <2>1, <2>3, RegisterInv, WriteOpenInv, WriteCollidesInv, WriteLostInv,
       WriteClosedQuiet, QuietInv, CallReturnInv, JobLookupInv DEF Write
  <2> QED
    BY <1>1, <1>3, <2>2, <2>3, ArriveQuiet, PassOverQuiet, PickIdleQuiet, PickNewQuiet, DialQuiet,
       SettleQuiet, DeleteQuiet, CallTimeoutQuiet, JobAnswerQuiet DEF Progress
<1>4. ASSUME NEW n \in Session, Listen(n) \/ Drop(n)
      PROVE  Connections' /\ CallInv'
  BY <1>1, <1>4, ConnectionsOther, ListenReplyInv, ListenJobInv, ListenFailAllInv,
     OtherStepsInv DEF Listen
<1>5. ASSUME NEW j \in Job, JobRuns(j) \/ JobEnds(j) \/ WaitEnds(j)
      PROVE  Connections' /\ CallInv'
  BY <1>1, <1>5, ConnectionsOther, OtherStepsInv
<1>6. CASE UNCHANGED vars
  <2>1. UNCHANGED <<req, sess>> /\ SameCalls
    BY <1>6, UnchangedSessions DEF vars
  <2> QED
    BY <1>1, <1>2, <2>1, SessionsOnlyInv DEF Connections, Inv
<1> QED
  BY <1>2, <1>3, <1>4, <1>5, <1>6 DEF Next, Inv

\* No answer reaches a call that is not its own, whatever requests share a
\* connection and in whatever order responses come back (daemon.go:378-384,
\* 504-534): ids are used once and a response carries the id of its call.
THEOREM DaemonReplyMatchesCall == Spec => []ReplyMatchesCall
<1>1. Inv => ReplyMatchesCall
  BY DEF Inv, CallInv, Answers, ReplyMatchesCall
<1> QED
  BY <1>1, InitInv, NextInv, PTL DEF Spec

\* No goroutine is left waiting for a future of a connection whose listener
\* has failed all it knew (daemon.go:378-384, 450-458, 569-589): a call is in
\* callMap_ before its frame is written, a frame can be written only before
\* the listener closes, and it closes before it fails the futures.
THEOREM DaemonNoWaiterOnDeadSession == Spec => []NoWaiterOnDeadSession
<1>1. Inv => NoWaiterOnDeadSession
  <2> SUFFICES ASSUME Inv, NEW r \in Request, req[r].ses # Nil, Dead(req[r].ses)
               PROVE  /\ req[r].pc = "await" => req[r].fcall # "pending"
                      /\ req[r].pc = "jobget" =>
                           sess[req[r].ses].jobMap[req[r].job] # "pending"
    BY DEF NoWaiterOnDeadSession
  <2>1. req[r].pc = "jobget" => req[r].method = "job_wait"
    BY RecordOf DEF Inv, Local
  <2> QED
    BY <2>1 DEF Inv, CallInv, CallsReleased, JobsRegistered
<1> QED
  BY <1>1, InitInv, NextInv, PTL DEF Spec

LEMMA InitLife == Init => LifeInv /\ JobsOver
<1> SUFFICES ASSUME Init PROVE LifeInv /\ JobsOver
  OBVIOUS
<1>1. /\ req = [r \in Request |-> NewRequest] /\ sess = [n \in Session |-> NewSession]
      /\ slots = <<>> /\ NewRequest.pc = "idle" /\ NewRequest.runs = 0
      /\ NewSession.fut = "none" /\ NewSession.events = {}
      /\ \A j \in Job : NewSession.jobMap[j] = "absent"
  BY DEF Init, NewRequest, NewSession
<1> QED
  BY <1>1 DEF LifeInv, Makers, SlotsHeld, RunsOnce, OnceRun, JobsOver, Making

LEMMA NextLife == Inv /\ LifeInv /\ [Next]_vars => LifeInv'
<1> SUFFICES ASSUME Inv, LifeInv, [Next]_vars PROVE LifeInv'
  OBVIOUS
<1>1. Typed
  BY DEF Inv
<1>2. CASE UNCHANGED vars
  BY <1>2 DEF vars, LifeInv, Makers, SlotsHeld, RunsOnce, Making
<1> QED
  BY <1>1, <1>2, RequestLife, OtherLife DEF Next

\* Whoever waits for a session that is being made waits for exactly one
\* goroutine, which settles its future whatever becomes of the calls it makes
\* (daemon.go:229-283).
THEOREM DaemonPendingFutureHasMaker == Spec => []PendingFutureHasMaker
<1>1. LifeInv => PendingFutureHasMaker
  BY DEF LifeInv, Makers, PendingFutureHasMaker
<1> QED
  BY <1>1, InitInv, NextInv, InitLife, NextLife, PTL DEF Spec

\* A session is held by the slot of its channel and by no other, so deleting by
\* channel reaches the slot the session was put into (daemon.go:242, 359-368).
THEOREM DaemonSlotIsChannel == Spec => []SlotIsChannel
<1>1. LifeInv => SlotIsChannel
  BY DEF LifeInv, SlotsHeld, SlotIsChannel
<1> QED
  BY <1>1, InitInv, NextInv, InitLife, NextLife, PTL DEF Spec

\* A method that TrueNAS has received is never sent again, unless a writer
\* panicked in a concurrent write (daemon.go:216-220, 394-398).
THEOREM DaemonRunsAtMostOnce == Spec => []RunsAtMostOnce
<1>1. Typed /\ LifeInv => RunsAtMostOnce
  <2> SUFFICES ASSUME Typed, LifeInv, NEW r \in Request, req[r].runs > 1
               PROVE  req[r].collided
    BY DEF RunsAtMostOnce
  <2>1. req[r].runs \in Nat
    BY RecordOf DEF RequestRecord
  <2> QED
    BY <2>1 DEF LifeInv, RunsOnce, OnceRun
<1> QED
  BY <1>1, InitInv, NextInv, InitLife, NextLife, PTL DEF Spec, Inv

\* await_job never answers before its job is over: only a final update reaches
\* the future of a job, and none is sent while the job runs (daemon.go:486-531).
THEOREM DaemonReachedJobIsOver == Spec => []ReachedJobIsOver
<1>1. JobsOver => ReachedJobIsOver
  BY DEF JobsOver, ReachedJobIsOver
<1> QED
  BY <1>1, InitInv, NextInv, InitLife, NextOver, PTL DEF Spec
==============================================================================
