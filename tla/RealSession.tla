---------------------------- MODULE RealSession ------------------------------
(***************************************************************************)
(* core/real_api.go: a session without the daemon.  The command's thread   *)
(* starts jobs, asks with core.job_wait to hear of their end, waits for    *)
(* some of them and in Close for the rest; the listener of truenas_api     *)
(* puts every end it hears of into resultsQueue (SimpleQueue, here the     *)
(* sequence it implements).  The subscription covers all jobs of the host. *)
(***************************************************************************)
EXTENDS Naturals, Sequences, SequencesExt, FiniteSets

CONSTANTS
  Job,         (* The jobs of this command, in no order.                    *)
  Foreign,     (* Jobs of others, which the subscription reports as well.   *)
  CanFail,     (* Calls may fail.                                           *)
  CanBreak     (* The connection may be lost.                               *)

RealSessionAssumption ==
  /\ Job \cap Foreign = {}
  /\ CanFail \in BOOLEAN /\ CanBreak \in BOOLEAN

VARIABLES
  thread,
  current,     (* the job the thread starts or waits for, as a set          *)
  subscribed,  (* subscribedToJobs                                          *)
  jobsList,
  results,     (* resultsQueue                                              *)
  aside,       (* irrelevantList of WaitForJob                              *)
  failed,      (* the command has an error to report                        *)
  state,       (* of every job, on the host                                 *)
  waiters,     (* jobs whose core.job_wait was accepted and not reported    *)
  broken

vars == <<thread, current, subscribed, jobsList, results, aside, failed, state, waiters, broken>>

Host == <<state, waiters, broken>>

Init ==
  /\ thread = "run" /\ current = {}
  /\ subscribed = FALSE
  /\ jobsList = <<>> /\ results = <<>> /\ aside = <<>>
  /\ failed = FALSE
  /\ state = [j \in Job \cup Foreign |-> IF j \in Foreign THEN "running" ELSE "none"]
  /\ waiters = {}
  /\ broken = FALSE

MayFail == CanFail \/ broken

------------------------------------------------------------------------------
(* CallAsyncRaw, through ApiCallAsync *)

\* An error of the command: ApiCallAsync returns it, and WrapCommandFunc
\* goes on to Close.
Abort == thread' = "close" /\ current' = {} /\ failed' = TRUE

Subscribe ==
  /\ thread = "run" /\ ~subscribed
  /\ \/ ~broken /\ subscribed' = TRUE /\ UNCHANGED <<thread, current, failed>>
     \/ MayFail /\ Abort /\ UNCHANGED subscribed
  /\ UNCHANGED <<jobsList, results, aside, Host>>

\* When the call fails, mainJob is nil, and "return mainJob.ID, err" panics.
MainCall(j) ==
  /\ thread = "run" /\ subscribed /\ state[j] = "none"
  /\ \/ /\ ~broken
        /\ state' = [state EXCEPT ![j] = "running"]
        /\ thread' = "jobWait" /\ current' = {j}
     \/ MayFail /\ thread' = "panic" /\ UNCHANGED <<state, current>>
  /\ UNCHANGED <<subscribed, jobsList, results, aside, failed, waiters, broken>>

\* core.job_wait, and the entry in jobsList.  When it fails and the caller
\* did not want to wait, SkipWaitingJobOnClose writes to a nil map.
JobWait(j) ==
  /\ thread = "jobWait" /\ current = {j}
  /\ \/ /\ ~broken
        /\ waiters' = waiters \cup {j}
        /\ jobsList' = Append(jobsList, j)
        /\ thread' = "run" /\ current' = {} /\ UNCHANGED failed
     \/ /\ MayFail
        /\ \/ Abort
           \/ thread' = "panic" /\ UNCHANGED <<current, failed>>
        /\ UNCHANGED <<waiters, jobsList>>
  /\ UNCHANGED <<subscribed, results, aside, state, broken>>

------------------------------------------------------------------------------
(* WaitForJob *)

StartWait(j) ==
  /\ thread = "run" /\ j \in ToSet(jobsList)
  /\ thread' = "wait" /\ current' = {j}
  /\ UNCHANGED <<subscribed, jobsList, results, aside, failed, Host>>

\* list[i] = list[len-1]; list = list[:len-1]
SwapRemove(list, i) ==
  SubSeq([list EXCEPT ![i] = Last(list)], 1, Len(list) - 1)

\* Deviation of WaitTake: the results of other jobs are not put back.
WaitTakeDrops ==
  /\ thread = "wait" /\ results # <<>>
  /\ IF Head(results) \in current
     THEN /\ results' = Tail(results)
          /\ jobsList' = SwapRemove(jobsList, CHOOSE i \in DOMAIN jobsList : jobsList[i] \in current)
          /\ thread' = "run" /\ current' = {}
     ELSE results' = Tail(results) /\ UNCHANGED <<jobsList, thread, current>>
  /\ UNCHANGED <<subscribed, aside, failed, Host>>

WaitTake ==
  /\ thread = "wait" /\ results # <<>>
  /\ IF Head(results) \in current
     THEN /\ results' = Tail(results) \o aside
          /\ aside' = <<>>
          /\ jobsList' = SwapRemove(jobsList, CHOOSE i \in DOMAIN jobsList : jobsList[i] \in current)
          /\ thread' = "run" /\ current' = {}
     ELSE /\ results' = Tail(results)
          /\ aside' = Append(aside, Head(results))
          /\ UNCHANGED <<jobsList, thread, current>>
  /\ UNCHANGED <<subscribed, failed, Host>>

------------------------------------------------------------------------------
(* Close.  Its first loop, over skipped jobs, has nothing to skip: the map  *)
(* of skipped jobs is never made.                                           *)

StartClose ==
  /\ thread = "run"
  /\ thread' = "close"
  /\ UNCHANGED <<current, subscribed, jobsList, results, aside, failed, Host>>

\* Deviation of CloseTake: any result counts for the last job of the list.
CloseTakeAny ==
  /\ thread = "close" /\ jobsList # <<>> /\ results # <<>>
  /\ results' = Tail(results)
  /\ jobsList' = Front(jobsList)
  /\ UNCHANGED <<thread, current, subscribed, aside, failed, Host>>

CloseTake ==
  /\ thread = "close" /\ jobsList # <<>> /\ results # <<>>
  /\ results' = Tail(results)
  /\ jobsList' = IF Head(results) \in ToSet(jobsList)
                 THEN SwapRemove(jobsList, CHOOSE i \in DOMAIN jobsList : jobsList[i] = Head(results))
                 ELSE jobsList
  /\ UNCHANGED <<thread, current, subscribed, aside, failed, Host>>

Closed ==
  /\ thread = "close" /\ jobsList = <<>>
  /\ thread' = "done"
  /\ UNCHANGED <<current, subscribed, jobsList, results, aside, failed, Host>>

------------------------------------------------------------------------------
(* The host (external) and HandleJobUpdate, on the listener's thread *)

JobEnds(j, how) ==
  /\ state[j] = "running"
  /\ state' = [state EXCEPT ![j] = how]
  /\ UNCHANGED <<thread, current, subscribed, jobsList, results, aside, failed, waiters, broken>>

Over == {"SUCCESS", "FAILED", "ABORTED"}
Heard == ~broken /\ subscribed /\ thread \notin {"done", "panic"}

\* HandleJobUpdate passes over every other state.
Reported(how) == how \in {"SUCCESS", "FAILED"}

\* The update of the job itself, for which nobody need have waited.
HandleOwnUpdate(j) ==
  /\ state[j] \in Over
  /\ state' = [state EXCEPT ![j] = "reported"]
  /\ results' = IF Heard /\ Reported(state[j]) THEN Append(results, j) ELSE results
  /\ UNCHANGED <<thread, current, subscribed, jobsList, aside, failed, waiters, broken>>

\* The update of the core.job_wait job, which fails with a job that was
\* aborted; innerJobId names the job it waited for.
HandleWaitUpdate(j) ==
  /\ j \in waiters /\ state[j] \in Over \cup {"reported"}
  /\ waiters' = waiters \ {j}
  /\ \E how \in {"SUCCESS", "FAILED"} :
       results' = IF Heard /\ Reported(how) THEN Append(results, j) ELSE results
  /\ UNCHANGED <<thread, current, subscribed, jobsList, aside, failed, state, broken>>

Break ==
  /\ CanBreak /\ ~broken
  /\ broken' = TRUE
  /\ UNCHANGED <<thread, current, subscribed, jobsList, results, aside, failed, state, waiters>>

Thread ==
  \/ Subscribe \/ \E j \in Job : MainCall(j) \/ JobWait(j) \/ StartWait(j)
  \/ WaitTake \/ StartClose \/ CloseTake \/ Closed

Updates == \E j \in Job \cup Foreign : HandleOwnUpdate(j) \/ HandleWaitUpdate(j)
Ends(j) == \E how \in Over : JobEnds(j, how)

Next == Thread \/ Updates \/ (\E j \in Job \cup Foreign : Ends(j)) \/ Break

Spec == Init /\ [][Next]_vars

\* The thread goes on while it can, the host reports what has ended, and the
\* jobs of this command end.
Fairness ==
  /\ WF_vars(Thread) /\ WF_vars(Updates)
  /\ \A j \in Job : WF_vars(Ends(j))
FairSpec == Spec /\ Fairness

------------------------------------------------------------------------------
(* Properties                                                               *)

\* A command that ends without an error leaves none of its jobs running,
\* although results come twice, out of order, and for the jobs of others.
EndsAfterItsJobs ==
  thread = "done" /\ ~failed => \A j \in Job : state[j] # "running"

\* Unless the connection is lost, WaitForJob and Close come back, whatever the
\* outcome of a job, also when its result was taken by an earlier wait.
WaitsEnd == thread \in {"wait", "close"} ~> thread \in {"run", "done"} \/ broken
==============================================================================
