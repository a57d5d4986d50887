------------------------------- MODULE Daemon --------------------------------
(***************************************************************************)
(* core/daemon.go: the connection caching daemon.  Every HTTP request runs *)
(* in a goroutine of its own, picks or makes a cached WebSocket session,   *)
(* makes its calls on it and is answered.  Every session has a listen()    *)
(* goroutine that completes the futures of calls and jobs, fails them all  *)
(* when the connection ends, and clears the session's slot.                *)
(*                                                                         *)
(* One entry of sessionMap_ is modelled: sessions of different keys share  *)
(* only mapMtx.  A session is named by the future its slot holds, which is *)
(* made for it and by one request.  Futures are those of Promise: settled  *)
(* at most once, read by Get, Peek and awaits that may time out.  A step   *)
(* is a critical section, a use of the connection, or an await; local      *)
(* code and reads of settled futures belong to the step before them.       *)
(***************************************************************************)
EXTENDS Naturals, Sequences, FiniteSets

CONSTANTS
  Request,  (* HTTP requests, each served once.                           *)
  Session,  (* Bound: the sessions that may be made.                      *)
  MaxDrops, (* Bound: the connections that may break.                     *)
  Job,      (* TrueNAS jobs, started by earlier commands.                 *)
  Kind,     (* What requests ask for: call, await_job or peek_job.        *)
  Nil       (* The nil pointer, and "nothing yet".                        *)

\* The methods a request's goroutine passes to callJson.
Method == {"login", "subscribe", "user", "job_wait"}

ASSUME DaemonAssumption ==
  /\ Kind \subseteq {"call", "await_job", "peek_job"}
  /\ Nil \notin Session \cup Method
  /\ MaxDrops \in Nat

VARIABLES
  req,    (* The goroutine of each request: pc and locals                 *)
  slots,  (* sessionMap_[key]: a session or Nil per channel               *)
  sess,   (* The TruenasSession records, their connections and listeners  *)
  jobs,   (* External: what became of each job on the TrueNAS host        *)
  waits   (* External: the jobs a core.job_wait job is waiting for        *)

vars == <<req, slots, sess, jobs, waits>>

RequestState ==
  {"idle", "pick", "dial", "settle", "fail", "delete", "retry", "joblookup",
   "peek", "jobget", "register", "write", "await", "done"}

\* A request on the wire; accepted says whether TrueNAS ran it (ok) or
\* answered with a JSON-RPC error, which callJson returns like any answer.
Message == [id : Nat, by : Request, method : Method, ok : BOOLEAN]

\* A collection_update; final if its state is SUCCESS or FAILED.  It names
\* the job itself, or a core.job_wait job by the job that one waits for.
JobUpdate == [job : Job, final : BOOLEAN]

RequestRecord ==
  [pc : RequestState,
   kind : Kind \cup {Nil},
   job : Job \cup {Nil},
   ses : Session \cup {Nil},
   method : Method \cup {Nil},          \* of the call in progress
   at : Nat,                            \* slots its scan has passed over
   id : Nat,                            \* its callId
   fcall : {"none", "pending", "answered", "failed"},  \* its future
   reply : Message \cup {Nil},          \* what its future was completed with
   runs : Nat,                          \* history: user calls TrueNAS received
   collided : BOOLEAN,                  \* history: panicked in a sent write
   result : {Nil, "answer", "error", "timeout"}]

SessionRecord ==
  [fut : {"none", "pending", "ok", "failed"},          \* the slot's future
   channel : Nat,
   conn : {"none", "open", "lost", "closed", "closeSent"},
   listen : {"none", "reading", "failing", "deleting", "gone"},
   busy : BOOLEAN,                      \* callInProgress_
   lastId : Nat,                        \* curCallId_
   calls : SUBSET [id : Nat, by : Request],            \* callMap_
   jobMap : [Job -> {"absent", "pending", "ended", "failed"}],
   sent : SUBSET Message,               \* at TrueNAS, not yet answered
   subscribed : BOOLEAN,                \* at TrueNAS: core.subscribe arrived
   events : SUBSET JobUpdate]           \* on the way back

NewRequest ==
  [pc |-> "idle", kind |-> Nil, job |-> Nil, ses |-> Nil, method |-> Nil,
   at |-> 0, id |-> 0, fcall |-> "none", reply |-> Nil, runs |-> 0,
   collided |-> FALSE, result |-> Nil]

NewSession ==
  [fut |-> "none", channel |-> 0, conn |-> "none", listen |-> "none",
   busy |-> FALSE, lastId |-> 0, calls |-> {},
   jobMap |-> [j \in Job |-> "absent"], sent |-> {}, subscribed |-> FALSE,
   events |-> {}]

Init ==
  /\ req = [r \in Request |-> NewRequest]
  /\ slots = <<>>
  /\ sess = [n \in Session |-> NewSession]
  /\ jobs = [j \in Job |-> "running"]
  /\ waits = {}

------------------------------------------------------------------------------
\* Steps of a request's goroutine.

GoTo(r, pc) == req' = [req EXCEPT ![r].pc = pc]

\* The request is answered and its goroutine ends.
Finished(q, result) ==
  [NewRequest EXCEPT !.pc = "done", !.kind = q.kind, !.runs = q.runs,
                     !.collided = q.collided, !.result = result]
Finish(r, result) == req' = [req EXCEPT ![r] = Finished(@, result)]

\* callJson with the request's own method: a TrueNAS method starts a call,
\* a tnc_daemon method goes to handleDaemonProcedure.
Entered(q) ==
  [q EXCEPT !.method = IF q.kind = "call" THEN "user" ELSE Nil,
            !.pc = CASE q.kind = "call"      -> "register"
                     [] q.kind = "await_job" -> "joblookup"
                     [] q.kind = "peek_job"  -> "peek"]

\* serveImpl up to the retry label: a ping is answered, and a request without
\* a method, host or credentials, or with a malformed body, is refused.
Arrive(r) ==
  /\ req[r].pc = "idle"
  /\ \/ \E k \in Kind :
          \E j \in IF k = "call" THEN {Nil} ELSE Job :
            req' = [req EXCEPT ![r].pc = "pick", ![r].kind = k, ![r].job = j]
     \/ \E result \in {"answer", "error"} : Finish(r, result)
  /\ UNCHANGED <<slots, sess, jobs, waits>>

\* A session counts as idle when its creation has succeeded and callInProgress_
\* is unset; both are read under locks of the session that the scan lets go.
Idle(n) == sess[n].fut = "ok" /\ ~sess[n].busy

\* A request in the middle of its scan holds mapMtx.
MapMtxFree(r) == \A q \in Request \ {r} : req[q].at = 0

\* The slot the scan of sessionMap_[key] has come to, maybe that past the end.
ScanAt(r, i) ==
  /\ req[r].pc = "pick" /\ MapMtxFree(r)
  /\ i \in 1 .. Len(slots) + 1 /\ i = req[r].at + 1

PassOver(r) ==
  /\ \E i \in DOMAIN slots :
       /\ ScanAt(r, i)
       /\ slots[i] # Nil /\ ~Idle(slots[i])
       /\ req' = [req EXCEPT ![r].at = i]
  /\ UNCHANGED <<slots, sess, jobs, waits>>

PickIdle(r) ==
  /\ req[r].pc = "pick"
  /\ \E i \in DOMAIN slots :
       /\ ScanAt(r, i)
       /\ slots[i] # Nil /\ Idle(slots[i])
       /\ req' = [req EXCEPT ![r] = Entered([@ EXCEPT !.ses = slots[i], !.at = 0])]
  /\ UNCHANGED <<slots, sess, jobs, waits>>

Unused == {n \in Session : sess[n].fut = "none"}

\* Deviation of PickNew: the channel is the one of an appended session, also
\* when a nil slot is taken.
PickNewAtEnd(r) ==
  /\ req[r].pc = "pick"
  /\ Unused # {}
  /\ \E i \in 1 .. Len(slots) + 1, n \in {CHOOSE m \in Unused : TRUE} :
       /\ ScanAt(r, i)
       /\ i \in DOMAIN slots => slots[i] = Nil
       /\ slots' = IF i \in DOMAIN slots THEN [slots EXCEPT ![i] = n]
                                         ELSE Append(slots, n)
       /\ sess' = [sess EXCEPT ![n].fut = "pending", ![n].channel = Len(slots) + 1]
       /\ req' = [req EXCEPT ![r].pc = "dial", ![r].ses = n, ![r].at = 0]
  /\ UNCHANGED <<jobs, waits>>

PickNew(r) ==
  /\ req[r].pc = "pick"
  /\ Unused # {}
  /\ \E i \in 1 .. Len(slots) + 1, n \in {CHOOSE m \in Unused : TRUE} :
       /\ ScanAt(r, i)
       /\ i \in DOMAIN slots => slots[i] = Nil
       /\ slots' = IF i \in DOMAIN slots THEN [slots EXCEPT ![i] = n]
                                         ELSE Append(slots, n)
       /\ sess' = [sess EXCEPT ![n].fut = "pending", ![n].channel = i]
       /\ req' = [req EXCEPT ![r].pc = "dial", ![r].ses = n, ![r].at = 0]
  /\ UNCHANGED <<jobs, waits>>

\* createSession up to its first callJson.
Dial(r) ==
  /\ req[r].pc = "dial"
  /\ \/ /\ GoTo(r, "fail")
        /\ UNCHANGED sess
     \/ /\ req' = [req EXCEPT ![r].pc = "register", ![r].method = "login"]
        /\ sess' = [sess EXCEPT ![req[r].ses].conn = "open",
                                ![req[r].ses].listen = "reading"]
  /\ UNCHANGED <<slots, jobs, waits>>

\* Another goroutine is in WriteJSON of the same connection.
Colliding(r) ==
  \E q \in Request \ {r} : req[q].pc = "write" /\ req[q].ses = req[r].ses

\* Deviation of Register: curCallId_ is read outside the critical section.
RegisterUnlocked(r) ==
  LET n == req[r].ses
      callId == IF Colliding(r) THEN sess[n].lastId ELSE sess[n].lastId + 1
  IN  /\ req[r].pc = "register"
      /\ sess' = [sess EXCEPT ![n].lastId = callId,
                              ![n].calls = {c \in @ : c.id # callId}
                                             \cup {[id |-> callId, by |-> r]},
                              ![n].busy = TRUE]
      /\ req' = [req EXCEPT ![r].pc = "write", ![r].id = callId,
                            ![r].fcall = "pending", ![r].reply = Nil]
      /\ UNCHANGED <<slots, jobs, waits>>

\* The first critical section of callJson.
Register(r) ==
  LET n == req[r].ses
      callId == sess[n].lastId + 1
  IN  /\ req[r].pc = "register"
      /\ sess' = [sess EXCEPT ![n].lastId = callId,
                              ![n].calls = {c \in @ : c.id # callId}
                                             \cup {[id |-> callId, by |-> r]},
                              ![n].busy = TRUE]
      /\ req' = [req EXCEPT ![r].pc = "write", ![r].id = callId,
                            ![r].fcall = "pending", ![r].reply = Nil]
      /\ UNCHANGED <<slots, jobs, waits>>

\* TrueNAS receives the call: it is executed, subscribes the connection, or
\* starts a core.job_wait job if TrueNAS accepts it.
ServerReceives(r, ok) ==
  LET n == req[r].ses
      m == req[r].method
  IN  /\ m # "job_wait" => ok
      /\ sess' = [sess EXCEPT
           ![n].sent = @ \cup {[id |-> req[r].id, by |-> r, method |-> m, ok |-> ok]},
           ![n].subscribed = @ \/ m = "subscribe"]
      /\ waits' = IF m = "job_wait" /\ ok THEN waits \cup {req[r].job} ELSE waits

Received(q) == IF q.method = "user" THEN q.runs + 1 ELSE q.runs

\* The error path of callJson, which leaves callMap_ and callInProgress_ as
\* they are: createSession fails, a request is answered with the error, and
\* only a user call is retried, as the other callers drop shouldRetry.
Failed(q, shouldRetry) ==
  CASE q.method \in {"login", "subscribe"}     -> [q EXCEPT !.pc = "fail"]
    [] q.method = "user" /\ shouldRetry        -> [q EXCEPT !.pc = "retry"]
    [] q.method = "user" /\ ~shouldRetry       -> Finished(q, "error")
    [] q.method = "job_wait"                   -> Finished(q, "error")

\* WriteJSON on an open connection.
WriteOpen(r) ==
  /\ req[r].pc = "write"
  /\ sess[req[r].ses].conn = "open"
  /\ \E ok \in BOOLEAN : ServerReceives(r, ok)
  /\ req' = [req EXCEPT ![r].pc = "await", ![r].runs = Received(req[r])]
  /\ UNCHANGED <<slots, jobs>>

\* Two goroutines in WriteJSON of one connection: gorilla detects it at best
\* and panics, before or after the frame went out, or a writer fails.
WriteCollides(r) ==
  /\ req[r].pc = "write"
  /\ Colliding(r)
  /\ \/ /\ \E shouldRetry \in BOOLEAN :
             req' = [req EXCEPT ![r] = Failed(@, shouldRetry)]
        /\ UNCHANGED <<sess, waits>>
     \/ /\ sess[req[r].ses].conn = "open"
        /\ \E ok \in BOOLEAN : ServerReceives(r, ok)
        /\ req' = [req EXCEPT ![r] = Failed([@ EXCEPT !.runs = Received(req[r]),
                                                      !.collided = TRUE], TRUE)]
  /\ UNCHANGED <<slots, jobs>>

\* TrueNAS has gone but listen() has not noticed: the frame is buffered and
\* lost, or the write fails with an error that is not retried.
WriteLost(r) ==
  /\ req[r].pc = "write"
  /\ sess[req[r].ses].conn = "lost"
  /\ \/ GoTo(r, "await")
     \/ req' = [req EXCEPT ![r] = Failed(@, FALSE)]
  /\ UNCHANGED <<slots, sess, jobs, waits>>

\* listen() has closed the connection: "use of closed network connection" is
\* retried, "close sent" (after a close frame of the peer) is not.
WriteClosed(r) ==
  /\ req[r].pc = "write"
  /\ sess[req[r].ses].conn \in {"closed", "closeSent"}
  /\ req' = [req EXCEPT ![r] = Failed(@, sess[req[r].ses].conn = "closed")]
  /\ UNCHANGED <<slots, sess, jobs, waits>>

\* Deviation of CallTimeout: only the calls of createSession have a timeout.
CallTimeoutAtLogin(r) ==
  /\ req[r].pc = "await"
  /\ req[r].method \in {"login", "subscribe"}
  /\ req' = [req EXCEPT ![r] = Failed(@, FALSE)]
  /\ UNCHANGED <<slots, sess, jobs, waits>>

\* AwaitFutureOrTimeout gave up; nothing is cleaned up.
CallTimeout(r) ==
  /\ req[r].pc = "await"
  /\ req' = [req EXCEPT ![r] = IF @.method \in {"user", "job_wait"}
                               THEN Finished(@, "timeout") ELSE Failed(@, FALSE)]
  /\ UNCHANGED <<slots, sess, jobs, waits>>

\* What follows a call that was answered.
Answered(q) ==
  CASE q.method = "login"     -> [q EXCEPT !.pc = "register", !.method = "subscribe"]
    [] q.method = "subscribe" -> [q EXCEPT !.pc = "settle"]
    [] q.method = "user"      -> Finished(q, "answer")
    [] q.method = "job_wait"  -> [q EXCEPT !.pc = "jobget"]

\* Deviation of CallReturn: a call that listen() failed is retried too.
CallReturnRetries(r) ==
  LET n == req[r].ses
  IN  /\ req[r].pc = "await"
      /\ req[r].fcall \in {"answered", "failed"}
      /\ sess' = [sess EXCEPT ![n].calls = {c \in @ : c.id # req[r].id},
                              ![n].busy = FALSE]
      /\ req' = [req EXCEPT ![r] = IF @.fcall = "answered" THEN Answered(@)
                                   ELSE Failed(@, TRUE)]
      /\ UNCHANGED <<slots, jobs, waits>>

\* The future is reached: the last critical section of callJson.
CallReturn(r) ==
  LET n == req[r].ses
  IN  /\ req[r].pc = "await"
      /\ req[r].fcall \in {"answered", "failed"}
      /\ sess' = [sess EXCEPT ![n].calls = {c \in @ : c.id # req[r].id},
                              ![n].busy = FALSE]
      /\ req' = [req EXCEPT ![r] = IF @.fcall = "answered" THEN Answered(@)
                                   ELSE Failed(@, FALSE)]
      /\ UNCHANGED <<slots, jobs, waits>>

\* Deviation of Settle: the future of a session that failed is left pending.
SettleSuccess(r) ==
  /\ \/ /\ req[r].pc = "settle"
        /\ req' = [req EXCEPT ![r] = Entered(@)]
        /\ sess' = [sess EXCEPT ![req[r].ses].fut = "ok"]
     \/ /\ req[r].pc = "fail"
        /\ GoTo(r, "delete")
        /\ UNCHANGED sess
  /\ UNCHANGED <<slots, jobs, waits>>

\* maybeCreateSessionAndCall completes or fails the future of its slot.
Settle(r) ==
  /\ \/ /\ req[r].pc = "settle"
        /\ req' = [req EXCEPT ![r] = Entered(@)]
        /\ sess' = [sess EXCEPT ![req[r].ses].fut = "ok"]
     \/ /\ req[r].pc = "fail"
        /\ GoTo(r, "delete")
        /\ sess' = [sess EXCEPT ![req[r].ses].fut = "failed"]
  /\ UNCHANGED <<slots, jobs, waits>>

\* Deviation of ClearSlot: the slot is given a zero value other than nil.
ClearSlotToZero(n) ==
  slots' = [i \in DOMAIN slots |-> IF i = sess[n].channel THEN 0 ELSE slots[i]]

\* deleteSession goes by channel, whatever session the slot now holds.
ClearSlot(n) ==
  slots' = [i \in DOMAIN slots |-> IF i = sess[n].channel THEN Nil ELSE slots[i]]

Delete(r) ==
  /\ req[r].pc \in {"delete", "retry"} /\ MapMtxFree(r)
  /\ ClearSlot(req[r].ses)
  /\ \/ req[r].pc = "delete" /\ Finish(r, "error")
     \/ req[r].pc = "retry" /\ req' = [req EXCEPT ![r].pc = "pick", ![r].ses = Nil]
  /\ UNCHANGED <<sess, jobs, waits>>

\* await_job: get or make the job's future, and peek at one that existed.
JobLookup(r) ==
  LET n == req[r].ses
      j == req[r].job
  IN  /\ req[r].pc = "joblookup"
      /\ \/ /\ sess[n].jobMap[j] \in {"ended", "failed"}
            /\ Finish(r, IF sess[n].jobMap[j] = "ended" THEN "answer" ELSE "error")
            /\ UNCHANGED sess
         \/ /\ sess[n].jobMap[j] \in {"absent", "pending"}
            /\ sess' = [sess EXCEPT ![n].jobMap[j] = "pending"]
            /\ req' = [req EXCEPT ![r].pc = "register", ![r].method = "job_wait"]
      /\ UNCHANGED <<slots, jobs, waits>>

\* await_job: fJob.Get(), without a timeout.
JobGet(r) ==
  LET f == sess[req[r].ses].jobMap[req[r].job]
  IN  /\ req[r].pc = "jobget"
      /\ f \in {"ended", "failed"}
      /\ Finish(r, IF f = "ended" THEN "answer" ELSE "error")
      /\ UNCHANGED <<slots, sess, jobs, waits>>

\* peek_job: the job's fields, an incomplete status, or an error.
PeekJob(r) ==
  /\ req[r].pc = "peek"
  /\ Finish(r, IF sess[req[r].ses].jobMap[req[r].job] \in {"pending", "ended"}
               THEN "answer" ELSE "error")
  /\ UNCHANGED <<slots, sess, jobs, waits>>

------------------------------------------------------------------------------
\* Steps of a session's listen() goroutine.

\* The future that callMap_ holds for an id, when its call still waits for it.
Awaits(n, c) ==
  /\ req[c.by].ses = n
  /\ req[c.by].id = c.id
  /\ req[c.by].pc \in {"write", "await"}
  /\ req[c.by].fcall = "pending"

\* A response: the future of the call with its id is completed.  A response
\* whose call has timed out completes a future nobody reads.
ListenReply(n) ==
  /\ sess[n].listen = "reading"
  /\ \E m \in sess[n].sent :
       /\ sess' = [sess EXCEPT ![n].sent = @ \ {m}]
       /\ req' = [r \in Request |->
                    IF \E c \in sess[n].calls : c.id = m.id /\ c.by = r /\ Awaits(n, c)
                    THEN [req[r] EXCEPT !.fcall = "answered", !.reply = m]
                    ELSE req[r]]
  /\ UNCHANGED <<slots, jobs, waits>>

\* Deviation of ListenJob: the state of the job is not looked at.
ListenJobAnyState(n) ==
  /\ sess[n].listen = "reading"
  /\ \E e \in sess[n].events :
       sess' = [sess EXCEPT ![n].events = @ \ {e}, ![n].jobMap[e.job] = "ended"]
  /\ UNCHANGED <<req, slots, jobs, waits>>

\* A job update: only SUCCESS and FAILED reach the future of the job, which
\* is made if nobody has asked for it yet.
ListenJob(n) ==
  /\ sess[n].listen = "reading"
  /\ \E e \in sess[n].events :
       sess' = [sess EXCEPT ![n].events = @ \ {e},
                            ![n].jobMap[e.job] = IF e.final THEN "ended" ELSE @]
  /\ UNCHANGED <<req, slots, jobs, waits>>

\* Deviation of ListenExit: the futures are failed before conn.Close().
ListenExitOpen(n) ==
  /\ sess[n].listen = "reading"
  /\ sess[n].conn = "lost"
  /\ sess' = [sess EXCEPT ![n].listen = "failing"]
  /\ UNCHANGED <<req, slots, jobs, waits>>

\* ReadMessage fails; the deferred function closes the connection first.
ListenExit(n) ==
  /\ sess[n].listen = "reading"
  /\ sess[n].conn = "lost"
  /\ \E how \in {"closed", "closeSent"} :
       sess' = [sess EXCEPT ![n].conn = how, ![n].listen = "failing"]
  /\ UNCHANGED <<req, slots, jobs, waits>>

\* Deviation of ListenFailAll: only the futures of callMap_ are failed.
ListenFailCalls(n) ==
  /\ sess[n].listen = "failing"
  /\ req' = [r \in Request |->
               IF \E c \in sess[n].calls : c.by = r /\ Awaits(n, c)
               THEN [req[r] EXCEPT !.fcall = "failed"]
               ELSE req[r]]
  /\ sess' = [sess EXCEPT ![n].listen = "deleting"]
  /\ UNCHANGED <<slots, jobs, waits>>

\* Then it fails every future of callMap_ and jobMap_ under connMtx ...
ListenFailAll(n) ==
  /\ sess[n].listen = "failing"
  /\ req' = [r \in Request |->
               IF \E c \in sess[n].calls : c.by = r /\ Awaits(n, c)
               THEN [req[r] EXCEPT !.fcall = "failed"]
               ELSE req[r]]
  /\ sess' = [sess EXCEPT ![n].listen = "deleting",
                          ![n].jobMap = [j \in Job |-> IF @[j] = "pending"
                                                       THEN "failed" ELSE @[j]]]
  /\ UNCHANGED <<slots, jobs, waits>>

\* ... and clears the slot of its channel.
ListenDelete(n) ==
  /\ sess[n].listen = "deleting" /\ \A r \in Request : req[r].at = 0
  /\ ClearSlot(n)
  /\ sess' = [sess EXCEPT ![n].listen = "gone"]
  /\ UNCHANGED <<req, jobs, waits>>

------------------------------------------------------------------------------
\* External: TrueNAS.

\* A job update goes out on every connection that has subscribed to jobs.
Publish(j, final) ==
  sess' = [n \in Session |->
             IF sess[n].subscribed /\ sess[n].conn = "open"
             THEN [sess[n] EXCEPT !.events = @ \cup {[job |-> j, final |-> final]}]
             ELSE sess[n]]

JobRuns(j) ==
  /\ jobs[j] = "running"
  /\ Publish(j, FALSE)
  /\ UNCHANGED <<req, slots, jobs, waits>>

\* A job ends with SUCCESS or FAILED, or with ABORTED.
JobEnds(j) ==
  /\ jobs[j] = "running"
  /\ \E how \in {"ended", "aborted"} :
       jobs' = [jobs EXCEPT ![j] = how] /\ Publish(j, how = "ended")
  /\ UNCHANGED <<req, slots, waits>>

\* The core.job_wait job that waited for it ends too.
WaitEnds(j) ==
  /\ j \in waits
  /\ jobs[j] # "running"
  /\ Publish(j, TRUE)
  /\ waits' = waits \ {j}
  /\ UNCHANGED <<req, slots, jobs>>

\* The connection breaks; what was under way on it is lost.
Broken == {n \in Session : sess[n].conn \notin {"none", "open"}}
Drop(n) ==
  /\ sess[n].conn = "open"
  /\ Cardinality(Broken) < MaxDrops
  /\ sess' = [sess EXCEPT ![n].conn = "lost", ![n].sent = {}, ![n].events = {}]
  /\ UNCHANGED <<req, slots, jobs, waits>>

------------------------------------------------------------------------------
Write(r) == WriteOpen(r) \/ WriteCollides(r) \/ WriteLost(r) \/ WriteClosed(r)

\* What the goroutine of a request does on its own once the request is here.
Progress(r) ==
  \/ PassOver(r) \/ PickIdle(r) \/ PickNew(r) \/ Dial(r) \/ Settle(r) \/ Delete(r)
  \/ Register(r) \/ Write(r) \/ CallReturn(r) \/ CallTimeout(r)
  \/ JobLookup(r) \/ JobGet(r) \/ PeekJob(r)

Listen(n) ==
  ListenReply(n) \/ ListenJob(n) \/ ListenExit(n) \/ ListenFailAll(n) \/ ListenDelete(n)

Next ==
  \/ \E r \in Request : Arrive(r) \/ Progress(r)
  \/ \E n \in Session : Listen(n) \/ Drop(n)
  \/ \E j \in Job : JobRuns(j) \/ JobEnds(j) \/ WaitEnds(j)

Spec == Init /\ [][Next]_vars

\* Goroutines run, timeouts expire, a broken connection is noticed, and a
\* core.job_wait job ends once its job has.  No request has to arrive, no job
\* to end, and TrueNAS need not answer.
Fairness ==
  /\ \A r \in Request : WF_vars(Progress(r))
  /\ \A n \in Session : WF_vars(ListenExit(n) \/ ListenFailAll(n) \/ ListenDelete(n))
                        /\ WF_vars(ListenJob(n))
  /\ \A j \in Job : WF_vars(WaitEnds(j))

FairSpec == Spec /\ Fairness

------------------------------------------------------------------------------
\* The ranges of the variables.
TypeOK ==
  /\ req \in [Request -> RequestRecord]
  /\ slots \in Seq(Session \cup {Nil})
  /\ sess \in [Session -> SessionRecord]
  /\ jobs \in [Job -> {"running", "ended", "aborted"}]
  /\ waits \subseteq Job

\* A call is completed with the response to that very call, also when
\* requests share a connection and responses come late or out of order
\* (daemon.go:378-384, 504-534).
ReplyMatchesCall ==
  \A r \in Request :
    req[r].pc = "await" /\ req[r].fcall = "answered" =>
      /\ req[r].reply.by = r
      /\ req[r].reply.method = req[r].method

\* listen() has failed the futures of the session.
Dead(n) == sess[n].listen \in {"deleting", "gone"}

\* Nobody waits for a connection whose listener has already failed all the
\* futures it knew: registering before writing, and closing before failing,
\* leave no gap for a call or an await_job to fall into (378-384, 450-458,
\* 569-589).
NoWaiterOnDeadSession ==
  \A r \in Request :
    req[r].ses # Nil /\ Dead(req[r].ses) =>
      /\ req[r].pc = "await" => req[r].fcall # "pending"
      /\ req[r].pc = "jobget" => sess[req[r].ses].jobMap[req[r].job] # "pending"

\* A slot never holds a future that nobody will settle: exactly one request
\* is still making the session (229-269, 274-283).
Making(r, n) ==
  /\ req[r].ses = n
  /\ \/ req[r].pc \in {"dial", "settle", "fail"}
     \/ req[r].pc \in {"register", "write", "await"}
        /\ req[r].method \in {"login", "subscribe"}
PendingFutureHasMaker ==
  \A n \in Session :
    sess[n].fut = "pending" =>
      \E r \in Request : \A q \in Request : Making(q, n) <=> q = r

\* A session is found only in the slot of its channel, so the channel that a
\* request or a listener clears once held its session (242, 262, 359-368).
SlotIsChannel ==
  \A i \in DOMAIN slots : slots[i] # Nil => sess[slots[i]].channel = i

\* A retry repeats only what TrueNAS never received: a request's method runs
\* at most once, unless a concurrent write of the same connection panicked
\* after its frame had gone out (394-398, 216-220).
RunsAtMostOnce ==
  \A r \in Request : req[r].runs > 1 => req[r].collided

\* A request that has started a call on a connection and not ended it.
InCall(r, n) == req[r].ses = n /\ req[r].pc \in {"write", "await"}

\* The future of a job is reached only when the job is over, whatever other
\* updates of it come first (486-502, 514-531): await_job never answers early.
ReachedJobIsOver ==
  \A n \in Session, j \in Job :
    sess[n].jobMap[j] = "ended" => jobs[j] # "running"

\* Every request is answered: a TrueNAS method and peek_job always ...
CallsAreAnswered ==
  \A r \in Request :
    req[r].pc = "pick" /\ req[r].kind # "await_job" ~> req[r].pc = "done"

\* ... and an await_job whose core.job_wait was accepted, once its job has
\* ended in whatever way or its connection has broken (584-589).
AwaitedJobsAreAnswered ==
  \A r \in Request :
    (/\ req[r].pc = "jobget"
     /\ req[r].reply.ok
     /\ jobs[req[r].job] # "running")
      ~> req[r].pc = "done"

------------------------------------------------------------------------------
\* What the documents say and the code does not do.

\* cmd/version.go:37: the daemon "uses additional connections for concurrent
\* commands".
OneCommandPerConnection ==
  \A r, q \in Request :
    r # q /\ req[r].ses # Nil /\ req[r].ses = req[q].ses
      => ~(InCall(r, req[r].ses) /\ InCall(q, req[r].ses))

\* README.md:21: the daemon is there "to minimize the number of active
\* connections": one stays open only where a later request can find it, or a
\* request still works on it.
OpenConnectionIsReachable ==
  \A n \in Session :
    sess[n].conn = "open" =>
      \/ \E i \in DOMAIN slots : slots[i] = n
      \/ \E r \in Request : req[r].ses = n
==============================================================================
