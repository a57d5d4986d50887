----------------------------- MODULE ClientLife ------------------------------
(***************************************************************************)
(* core/client_api.go with the start and the end of core/daemon.go: a      *)
(* client process launches the daemon when there is no socket file, dials  *)
(* it, and on a failed dial removes the file and logs in again, from       *)
(* within the request that failed.  All processes share one socket path.   *)
(*                                                                         *)
(* A command makes Calls requests and then Close, which awaits its jobs:   *)
(* those it was told of.  A call names the job it starts by what was left  *)
(* to do, so that the oldest job has the highest name.                     *)
(***************************************************************************)
EXTENDS Naturals, Sequences, FiniteSets

CONSTANTS
  Client,
  Daemon,       (* 1..n, the daemon processes there may be, in launch order  *)
  Calls,        (* Bound: requests a command makes before Close.             *)
  Retries,      (* retriesLeft of requestAndMaybeRetry (10 in the code).     *)
  MaxStops,     (* Bound: daemons that time out or are killed.               *)
  StaleFile,    (* Whether a killed daemon may have left its socket file.     *)
  Prompt        (* Daemons listen within the 500 ms a client waits for them. *)

ClientLifeAssumption ==
  /\ Daemon = 1 .. Cardinality(Daemon)
  /\ Calls \in Nat /\ Retries \in Nat \ {0} /\ MaxStops \in Nat
  /\ StaleFile \subseteq BOOLEAN /\ Prompt \in BOOLEAN

VARIABLES
  socket,       (* the daemon whose socket file is at the path, 0 for none   *)
  daemon,     (* what every daemon process does                              *)
  stops,
  at,
  frame,      (* the nested calls of requestAndMaybeRetry of every client    *)
  conn,       (* the daemon at the other end of the client's connection      *)
  todo,       (* requests left to make                                       *)
  jobs,       (* of jobsList, what Close has not come to                     *)
  failed,     (* a request of the command has failed                         *)
  running,    (* the jobs of the command that run (TrueNAS)                  *)
  ran         (* times a daemon ran the current call (history)               *)

vars == <<socket, daemon, stops, at, frame, conn, todo, jobs, failed, running, ran>>

Dead == {"killed", "gone"}

Init ==
  /\ \E stale \in StaleFile :
       /\ socket = IF stale THEN 1 ELSE 0
       /\ daemon = [d \in Daemon |-> IF stale /\ d = 1 THEN "killed" ELSE "unborn"]
  /\ stops = 0
  /\ at = [c \in Client |-> "stat"]
  /\ frame = [c \in Client |-> <<[req |-> "ping", left |-> Retries]>>]
  /\ conn = [c \in Client |-> 0]
  /\ todo = [c \in Client |-> Calls]
  /\ jobs = [c \in Client |-> {}]
  /\ failed = [c \in Client |-> FALSE]
  /\ running = [c \in Client |-> {}]
  /\ ran = [c \in Client |-> 0]

Goto(c, where) == at' = [at EXCEPT ![c] = where]
Top(c) == frame[c][Len(frame[c])]
DaemonSide == <<socket, daemon, stops>>
CommandSide == <<todo, jobs, failed>>
HostSide == <<running, ran>>

------------------------------------------------------------------------------
(* RunDaemon *)

\* net.Listen fails, and the process ends, when there is any file at the path.
Listen(d) ==
  /\ daemon[d] = "starting"
  /\ \/ socket = 0 /\ socket' = d /\ daemon' = [daemon EXCEPT ![d] = "serving"]
     \/ socket # 0 /\ daemon' = [daemon EXCEPT ![d] = "gone"] /\ UNCHANGED socket
  /\ UNCHANGED <<stops, at, frame, conn, CommandSide, HostSide>>

\* The timer or a signal: ls.Close() unlinks the path, whoever's it is now ...
Expire(d) ==
  /\ daemon[d] = "serving" /\ stops < MaxStops
  /\ socket' = 0
  /\ daemon' = [daemon EXCEPT ![d] = "closing"]
  /\ stops' = stops + 1
  /\ UNCHANGED <<at, frame, conn, CommandSide, HostSide>>

\* ... and os.Remove does so again before os.Exit.
Exit(d) ==
  /\ daemon[d] = "closing"
  /\ socket' = 0
  /\ daemon' = [daemon EXCEPT ![d] = "gone"]
  /\ UNCHANGED <<stops, at, frame, conn, CommandSide, HostSide>>

\* Killed, or the machine was restarted under it: the socket file stays.
Kill(d) ==
  /\ daemon[d] = "serving" /\ stops < MaxStops
  /\ daemon' = [daemon EXCEPT ![d] = "killed"]
  /\ stops' = stops + 1
  /\ UNCHANGED <<socket, at, frame, conn, CommandSide, HostSide>>

------------------------------------------------------------------------------
(* Login *)

Stat(c) ==
  /\ at[c] = "stat"
  /\ Goto(c, IF socket = 0 THEN "launch" ELSE "dial")
  /\ UNCHANGED <<DaemonSide, frame, conn, CommandSide, HostSide>>

Unborn == {d \in Daemon : daemon[d] = "unborn"}

\* launchDaemon; when the bound on processes is used up, it fails.
Launch(c) ==
  /\ at[c] = "launch"
  /\ \/ /\ Unborn = {}
        /\ Goto(c, "failing") /\ UNCHANGED daemon
     \/ /\ Unborn # {}
        /\ daemon' = [daemon EXCEPT ![CHOOSE d \in Unborn : \A e \in Unborn : d <= e] = "starting"]
        /\ Goto(c, "await")
  /\ UNCHANGED <<socket, stops, frame, conn, CommandSide, HostSide>>

\* launchDaemonAndAwaitSocket returns nil whether inotify has reported the
\* socket, has failed, or 500 ms have passed; Login looks for the file again.
AwaitSocket(c) ==
  /\ at[c] = "await"
  /\ Prompt => \A d \in Daemon : daemon[d] # "starting"
  /\ Goto(c, IF socket = 0 THEN "failing" ELSE "dial")
  /\ UNCHANGED <<DaemonSide, frame, conn, CommandSide, HostSide>>

------------------------------------------------------------------------------
(* requestAndMaybeRetry *)

Connected(c) == IF conn[c] = 0 THEN FALSE ELSE daemon[conn[c]] \notin Dead

\* client.Do: a kept-alive connection whose daemon still runs, or a new one.
Dial(c) ==
  /\ at[c] = "dial"
  /\ IF Connected(c) THEN Goto(c, "sent") /\ UNCHANGED conn
     ELSE IF socket # 0 /\ daemon[socket] = "serving"
     THEN Goto(c, "sent") /\ conn' = [conn EXCEPT ![c] = socket]
     ELSE Goto(c, "remove") /\ conn' = [conn EXCEPT ![c] = 0]
  /\ UNCHANGED <<DaemonSide, frame, CommandSide, HostSide>>


\* retriesLeft--; if retriesLeft > 0 { goto call }
Spend(c, f) ==
  LET left == f[Len(f)].left
  IN  IF left > 1
      THEN frame' = [frame EXCEPT ![c] = [f EXCEPT ![Len(f)].left = left - 1]] /\ Goto(c, "dial")
      ELSE frame' = [frame EXCEPT ![c] = f] /\ Goto(c, "failing")

\* The dial failed: os.Remove the file, which need not be the one that was
\* dialled any more, and log in again; or, when there is none, sleep.
RemoveSocket(c) ==
  /\ at[c] = "remove"
  /\ \/ /\ socket # 0
        /\ socket' = 0
        /\ frame' = [frame EXCEPT ![c] = Append(@, [req |-> "ping", left |-> Retries])]
        /\ Goto(c, "stat")
     \/ /\ socket = 0
        /\ Spend(c, frame[c])
        /\ UNCHANGED socket
  /\ UNCHANGED <<daemon, stops, conn, CommandSide, HostSide>>

\* The oldest job of the list, which Close awaits first.
Oldest(c) == CHOOSE j \in jobs[c] : \A k \in jobs[c] : k <= j

\* The daemon and TrueNAS carry a request out.  A call may start a job, whether
\* its answer says so or is an error (of TrueNAS, or that no answer came in time);
\* the answer to an await says how a job went that is over, or is an error.
Serve(c) ==
  /\ at[c] = "sent" /\ Connected(c)
  /\ \/ Top(c).req = "ping" /\ Goto(c, "answered") /\ UNCHANGED HostSide
     \/ /\ Top(c).req = "call"
        /\ ran' = [ran EXCEPT ![c] = @ + 1]
        /\ \/ Goto(c, "answered") /\ UNCHANGED running
           \/ Goto(c, "refused") /\ UNCHANGED running
           \/ \E where \in {"started", "refused"} :
                Goto(c, where) /\ running' = [running EXCEPT ![c] = @ \cup {todo[c]}]
  /\ UNCHANGED <<DaemonSide, frame, conn, CommandSide>>

\* Nothing makes the daemon answer an await: see await_job in Daemon.
ServeAwait(c) ==
  /\ at[c] = "sent" /\ Connected(c) /\ Top(c).req = "await"
  /\ \/ Oldest(c) \notin running[c] /\ Goto(c, "answered")
     \/ Goto(c, "refused")
  /\ UNCHANGED <<DaemonSide, frame, conn, CommandSide, HostSide>>

\* The answer of the daemon.  A ping of a nested Login lets the request
\* below it try again; an asynchronous call adds a job to jobsList.
Succeed(c) ==
  LET outer == SubSeq(frame[c], 1, Len(frame[c]) - 1)
  IN  \/ /\ outer # <<>>
         /\ Spend(c, outer)
         /\ UNCHANGED CommandSide
      \/ /\ outer = <<>>
         /\ frame' = [frame EXCEPT ![c] = outer]
         /\ Goto(c, "ready")
         /\ todo' = [todo EXCEPT ![c] = IF Top(c).req = "call" THEN @ - 1 ELSE @]
         /\ jobs' = [jobs EXCEPT ![c] =
                        CASE Top(c).req = "await" -> @ \ {Oldest(c)}
                          [] at[c] = "started"    -> @ \cup {todo[c]}
                          [] OTHER                -> @]
         /\ UNCHANGED failed

\* Deviation of Receive: the status of the answer is not looked at.
ReceiveWhatever(c) ==
  /\ at[c] \in {"answered", "started", "refused"} /\ Connected(c)
  /\ Succeed(c)
  /\ UNCHANGED <<DaemonSide, conn, HostSide>>

\* A status of 400 or more is an error.
Receive(c) ==
  /\ Connected(c)
  /\ \/ at[c] \in {"answered", "started"} /\ Succeed(c)
     \/ at[c] = "refused" /\ Goto(c, "failing") /\ UNCHANGED <<frame, CommandSide>>
  /\ UNCHANGED <<DaemonSide, conn, HostSide>>

InRequest == {"sent", "answered", "started", "refused"}

\* Deviation of Broken: any error is worth another try.
BrokenRetries(c) ==
  /\ at[c] \in InRequest /\ ~Connected(c)
  /\ Spend(c, frame[c])
  /\ UNCHANGED <<DaemonSide, conn, CommandSide, HostSide>>

\* The daemon ended before its answer: not a dial error, so not tried again.
Broken(c) ==
  /\ at[c] \in InRequest /\ ~Connected(c)
  /\ Goto(c, "failing")
  /\ UNCHANGED <<DaemonSide, frame, conn, CommandSide, HostSide>>

\* An error of a nested Login is that of the request which it was to save.  A
\* command that is given an error ends, or goes on all the same; Close adds it to
\* its list and goes on with the next job.
Fail(c) ==
  /\ at[c] = "failing"
  /\ failed' = [failed EXCEPT ![c] = TRUE]
  /\ \E goesOn \in BOOLEAN :
       /\ goesOn => frame[c][1].req = "call"
       /\ todo' = [todo EXCEPT ![c] = IF goesOn THEN @ - 1 ELSE 0]
  /\ jobs' = [jobs EXCEPT ![c] = IF frame[c][1].req = "await" THEN @ \ {Oldest(c)} ELSE @]
  /\ frame' = [frame EXCEPT ![c] = <<>>]
  /\ Goto(c, "ready")
  /\ UNCHANGED <<DaemonSide, conn, HostSide>>

------------------------------------------------------------------------------
(* The command, and Close *)

Request(c, kind) ==
  /\ frame' = [frame EXCEPT ![c] = <<[req |-> kind, left |-> Retries]>>]
  /\ Goto(c, "dial")

Call(c) ==
  /\ at[c] = "ready" /\ todo[c] > 0
  /\ Request(c, "call")
  /\ ran' = [ran EXCEPT ![c] = 0]
  /\ UNCHANGED <<DaemonSide, conn, CommandSide, running>>

Close(c) ==
  /\ at[c] = "ready" /\ todo[c] = 0
  /\ IF jobs[c] # {} THEN Request(c, "await")
                     ELSE Goto(c, "done") /\ UNCHANGED frame
  /\ UNCHANGED <<DaemonSide, conn, CommandSide, HostSide>>

Step(c) ==
  \/ Stat(c) \/ Launch(c) \/ AwaitSocket(c) \/ Dial(c) \/ RemoveSocket(c)
  \/ Serve(c) \/ Receive(c) \/ Broken(c) \/ Fail(c) \/ Call(c) \/ Close(c)

\* TrueNAS (external).
JobEnds(c) ==
  /\ \E j \in running[c] : running' = [running EXCEPT ![c] = @ \ {j}]
  /\ UNCHANGED <<DaemonSide, at, frame, conn, CommandSide, ran>>

Next ==
  \/ \E c \in Client : Step(c) \/ ServeAwait(c) \/ JobEnds(c)
  \/ \E d \in Daemon : Listen(d) \/ Expire(d) \/ Exit(d) \/ Kill(d)

Spec == Init /\ [][Next]_vars

\* A process that can go on does, and a daemon answers pings and calls (callJson
\* has a timeout).  It need not answer an await, time out or be killed, and a job
\* need not end.
Fairness ==
  /\ \A c \in Client : WF_vars(Step(c))
  /\ \A d \in Daemon : WF_vars(Listen(d) \/ Exit(d))
FairSpec == Spec /\ Fairness

------------------------------------------------------------------------------
(* Properties                                                               *)

\* However a request is retried, a daemon runs a call at most once, because
\* only a failed dial is tried again (client_api.go:198).
CallRunsAtMostOnce == \A c \in Client : ran[c] <= 1

\* When no request of a command has failed, no job it has started runs any more
\* when it ends, although daemons are lost, removed and launched anew between its
\* calls and the awaits of Close (client_api.go:169, 222).
EndsAfterItsJobs ==
  \A c \in Client : at[c] = "done" /\ ~failed[c] => running[c] = {}

\* Every command ends, although Login and requestAndMaybeRetry call each other,
\* unless it waits for ever for the answer to an await_job.
Awaiting(c) == at[c] = "sent" /\ Top(c).req = "await"
==============================================================================
