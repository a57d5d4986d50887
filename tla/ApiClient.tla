------------------------------ MODULE ApiClient ------------------------------
(***************************************************************************)
(* truenas_api/truenas_api.go: JSON-RPC calls over one websocket.  Call    *)
(* registers a channel under mu, writes without it and waits for the       *)
(* listener or its timer; listen hands responses over under mu; Close      *)
(* holds mu while it writes its close frame.  Nothing keeps two writers of *)
(* the websocket apart, and gorilla panics when it notices them.           *)
(*                                                                         *)
(* A caller makes one call.  Those in Tracked use CallWithJob on a client  *)
(* that has no callback for all jobs: they learn the progress of their job *)
(* from the callback they gave, and nobody reads DoneCh.  The mutex of     *)
(* Jobs is held beyond a step only by UpdateJobState, while the listener   *)
(* stands at that channel (JobsLocked).                                    *)
(***************************************************************************)
EXTENDS Naturals, FiniteSets

CONSTANTS
  Caller,      (* Each is named by the id of its call.                     *)
  Tracked,     (* Callers of CallWithJob, without jobsCb; the others Call. *)
  CanBreak,    (* The connection may be lost.                              *)
  Free, Listener

ASSUME ApiClientAssumption ==
  /\ Tracked \subseteq Caller /\ CanBreak \in BOOLEAN
  /\ Free # Listener /\ {Free, Listener} \cap Caller = {}

VARIABLES
  mu,          (* who holds the mutex of the client                        *)
  pending,     (* the calls in the pending map                             *)
  inbox,       (* responses in the channel of each call                    *)
  pc,          (* where each caller stands                                 *)
  listener,    (* where the listener stands, and the call it has read for  *)
  conn,        (* "open", "broken" or "closed"                             *)
  isClosed,
  wire,        (* what the host has sent: <<kind, call>>                   *)
  job          (* the job of every call: "added" to the manager, "PENDING" *)
               (* once it is owned, "FINISHED"                             *)

vars == <<mu, pending, inbox, pc, listener, conn, isClosed, wire, job>>

Init ==
  /\ mu = Free
  /\ pending = {}
  /\ inbox = [c \in Caller |-> 0]
  /\ pc = [c \in Caller |-> "idle"]
  /\ listener = [at |-> "read", call |-> Free]
  /\ conn = "open"
  /\ isClosed = FALSE
  /\ wire = {}
  /\ job = [c \in Caller |-> "none"]

Goto(c, where) == pc' = [pc EXCEPT ![c] = where]
ListenAt(where, c) == listener' = [at |-> where, call |-> c]
Capacity == 1

------------------------------------------------------------------------------
(* Call, CallWithJob *)

Register(c) ==
  /\ pc[c] = "idle" /\ mu = Free
  /\ pending' = pending \cup {c}
  /\ Goto(c, "writing")
  /\ UNCHANGED <<mu, inbox, listener, conn, isClosed, wire, job>>

Write(c) ==
  /\ pc[c] = "writing"
  /\ \/ conn = "open" /\ Goto(c, "waiting") /\ wire' = wire \cup {<<"request", c>>}
     \/ conn = "open" /\ Goto(c, "waiting") /\ UNCHANGED wire      \* lost on its way
     \/ conn # "open" /\ Goto(c, "failed") /\ UNCHANGED wire
  /\ UNCHANGED <<mu, pending, inbox, listener, conn, isClosed, job>>

Receive(c) ==
  /\ pc[c] = "waiting" /\ inbox[c] > 0
  /\ inbox' = [inbox EXCEPT ![c] = @ - 1]
  /\ Goto(c, "answered")
  /\ UNCHANGED <<mu, pending, listener, conn, isClosed, wire, job>>

Timeout(c) ==
  /\ pc[c] = "waiting"
  /\ Goto(c, "failed")
  /\ UNCHANGED <<mu, pending, inbox, listener, conn, isClosed, wire, job>>

\* Deviation of CleanUp: only a call that was answered cleans up.
CleanUpAnswered(c) ==
  /\ pc[c] \in {"answered", "failed"} /\ mu = Free
  /\ pending' = IF pc[c] = "answered" THEN pending \ {c} ELSE pending
  /\ Goto(c, IF pc[c] = "failed" THEN "error" ELSE IF c \in Tracked THEN "parse" ELSE "ok")
  /\ UNCHANGED <<mu, inbox, listener, conn, isClosed, wire, job>>

\* The deferred delete, and the return of Call.
CleanUp(c) ==
  /\ pc[c] \in {"answered", "failed"} /\ mu = Free
  /\ pending' = pending \ {c}
  /\ Goto(c, IF pc[c] = "failed" THEN "error" ELSE IF c \in Tracked THEN "parse" ELSE "ok")
  /\ UNCHANGED <<mu, inbox, listener, conn, isClosed, wire, job>>

\* UpdateJobState has the mutex of Jobs, and sends on DoneCh.
JobsLocked == listener.at = "doneCh"

\* CallWithJob: an error response, or AddJob ...
AddJob(c) ==
  /\ pc[c] = "parse"
  /\ \/ Goto(c, "error") /\ UNCHANGED job
     \/ ~JobsLocked /\ Goto(c, "own") /\ job' = [job EXCEPT ![c] = "added"]
  /\ UNCHANGED <<mu, pending, inbox, listener, conn, isClosed, wire>>

\* ... and then AddOwnedJob.
AddOwnedJob(c) ==
  /\ pc[c] = "own" /\ ~JobsLocked
  /\ job' = [job EXCEPT ![c] = "PENDING"]
  /\ Goto(c, "ok")
  /\ UNCHANGED <<mu, pending, inbox, listener, conn, isClosed, wire>>

\* WriteJSON and WriteMessage: when two of them meet, the connection may panic,
\* and the process ends with all that is in it.
WritersMeet ==
  /\ Cardinality({w \in Caller : pc[w] \in {"writing", "closing"}}
                   \cup (IF listener.at = "closing" THEN {Listener} ELSE {})) > 1
  /\ pc' = [c \in Caller |-> "panicked"]
  /\ ListenAt("stopped", Free)
  /\ mu' = Free /\ pending' = {}
  /\ UNCHANGED <<inbox, conn, isClosed, wire, job>>

------------------------------------------------------------------------------
(* The host and the network (external) *)

Respond(c) ==
  /\ conn = "open" /\ <<"request", c>> \in wire
  /\ wire' = (wire \ {<<"request", c>>}) \cup {<<"response", c>>}
               \cup (IF c \in Tracked THEN {<<"finished", c>>} ELSE {})
  /\ UNCHANGED <<mu, pending, inbox, pc, listener, conn, isClosed, job>>

Break ==
  /\ CanBreak /\ conn = "open"
  /\ conn' = "broken"
  /\ UNCHANGED <<mu, pending, inbox, pc, listener, isClosed, wire, job>>

------------------------------------------------------------------------------
(* listen *)

ReadResponse(c) ==
  /\ listener.at = "read" /\ conn = "open" /\ ~isClosed
  /\ <<"response", c>> \in wire
  /\ wire' = wire \ {<<"response", c>>}
  /\ ListenAt("lock", c)
  /\ UNCHANGED <<mu, pending, inbox, pc, conn, isClosed, job>>

Lock ==
  /\ listener.at = "lock" /\ mu = Free
  /\ IF listener.call \in pending
     THEN mu' = Listener /\ ListenAt("send", listener.call)
     ELSE ListenAt("read", Free) /\ UNCHANGED mu
  /\ UNCHANGED <<pending, inbox, pc, conn, isClosed, wire, job>>

\* Deviation of Send: the channel has no buffer, so that a caller must be at
\* its receive.
SendUnbuffered ==
  /\ listener.at = "send" /\ pc[listener.call] = "waiting"
  /\ inbox' = [inbox EXCEPT ![listener.call] = @ + 1]
  /\ mu' = Free
  /\ ListenAt("read", Free)
  /\ UNCHANGED <<pending, pc, conn, isClosed, wire, job>>

\* ch <- message, with mu held: it blocks when the channel is full.
Send ==
  /\ listener.at = "send" /\ inbox[listener.call] < Capacity
  /\ inbox' = [inbox EXCEPT ![listener.call] = @ + 1]
  /\ mu' = Free
  /\ ListenAt("read", Free)
  /\ UNCHANGED <<pending, pc, conn, isClosed, wire, job>>

\* collection_update: a job that is not yet owned is passed over.
\* UpdateJobState sends on the unbuffered DoneCh before the callback is run.
ReadUpdate(c) ==
  /\ listener.at = "read" /\ conn = "open" /\ ~isClosed
  /\ <<"finished", c>> \in wire
  /\ wire' = wire \ {<<"finished", c>>}
  /\ IF job[c] \in {"none", "added"} THEN UNCHANGED <<job, listener>>
     ELSE job' = [job EXCEPT ![c] = "FINISHED"] /\ ListenAt("doneCh", c)
  /\ UNCHANGED <<mu, pending, inbox, pc, conn, isClosed>>

\* A read error, or closeChan: Close, and the end of the goroutine.
ReadError ==
  /\ listener.at = "read"
  /\ \/ conn # "open" /\ ~isClosed /\ ListenAt("close", Free)
     \/ isClosed /\ ListenAt("stopped", Free)
  /\ UNCHANGED <<mu, pending, inbox, pc, conn, isClosed, wire, job>>

------------------------------------------------------------------------------
(* Close, by the listener or by the user when all calls have returned *)

CloseBy(who) ==
  /\ mu = Free
  /\ IF isClosed THEN UNCHANGED <<mu, isClosed>>
                 ELSE isClosed' = TRUE /\ mu' = who

\* When the close frame cannot be written, Close returns before conn.Close().
CloseFrame(who) ==
  /\ mu = who /\ isClosed
  /\ mu' = Free
  /\ \/ conn' = "closed"
     \/ conn = "broken" /\ UNCHANGED conn

ListenerCloses ==
  /\ listener.at = "close" /\ CloseBy(Listener)
  /\ ListenAt(IF isClosed THEN "stopped" ELSE "closing", Free)
  /\ UNCHANGED <<pending, inbox, pc, conn, wire, job>>

ListenerClosed ==
  /\ listener.at = "closing" /\ CloseFrame(Listener)
  /\ ListenAt("stopped", Free)
  /\ UNCHANGED <<pending, inbox, pc, isClosed, wire, job>>

Returned(c) == pc[c] \in {"ok", "error"}

UserCloses(c) ==
  /\ \A d \in Caller : Returned(d) \/ pc[d] = "closed"
  /\ Returned(c) /\ CloseBy(c)
  /\ Goto(c, IF isClosed THEN "closed" ELSE "closing")
  /\ UNCHANGED <<pending, inbox, listener, conn, wire, job>>

UserClosed(c) ==
  /\ pc[c] = "closing" /\ CloseFrame(c)
  /\ Goto(c, "closed")
  /\ UNCHANGED <<pending, inbox, listener, isClosed, wire, job>>

CallerStep(c) ==
  \/ Register(c) \/ Write(c) \/ Receive(c) \/ Timeout(c) \/ CleanUp(c) \/ AddJob(c)
  \/ AddOwnedJob(c) \/ UserCloses(c) \/ UserClosed(c)

ListenerStep ==
  \/ \E c \in Caller : ReadResponse(c) \/ ReadUpdate(c)
  \/ Lock \/ Send \/ ReadError \/ ListenerCloses \/ ListenerClosed

Next ==
  \/ \E c \in Caller : CallerStep(c) \/ Respond(c)
  \/ ListenerStep
  \/ WritersMeet \/ Break

Spec == Init /\ [][Next]_vars

\* Goroutines that can go on do, and a mutex that is free again and again is
\* obtained; the host and the network owe nothing, the timer fires.
Fairness ==
  /\ \A c \in Caller : SF_vars(CallerStep(c))
  /\ SF_vars(ListenerStep)
FairSpec == Spec /\ Fairness

------------------------------------------------------------------------------
(* Properties                                                               *)

\* Every variable has its type; the mutex is held only within send and Close.
TypeOK ==
  /\ mu \in {Free, Listener} \cup Caller
  /\ mu = Listener <=> listener.at \in {"send", "closing"}
  /\ \A c \in Caller : mu = c <=> pc[c] = "closing"
  /\ pending \subseteq Caller
  /\ inbox \in [Caller -> 0 .. Capacity]
  /\ pc \in [Caller -> {"idle", "writing", "waiting", "answered", "failed", "parse", "own",
                        "ok", "error", "closing", "closed", "panicked"}]
  /\ listener \in [at : {"read", "lock", "send", "doneCh", "close", "closing", "stopped"},
                   call : Caller \cup {Free}]
  /\ conn \in {"open", "broken", "closed"} /\ isClosed \in BOOLEAN
  /\ wire \subseteq {"request", "response", "finished"} \X Caller
  /\ job \in [Caller -> {"none", "added", "PENDING", "FINISHED"}]

\* The pending map holds the calls in progress and no others: also a call
\* that was not written, or not answered in time, takes its entry away.
PendingIsInProgress ==
  pending = {c \in Caller : pc[c] \in {"writing", "waiting", "answered", "failed"}}

\* A call returns unless the process panics, although the listener holds mu
\* while it hands over a response to a caller that may have timed out and wants
\* mu to clean up; a Call also when the listener has stopped for ever at a DoneCh
\* that nobody reads.  Only a CallWithJob may then not return: what it wants is
\* the mutex of Jobs.
CallsReturn ==
  \A c \in Caller :
    pc[c] = "writing" ~> \/ Returned(c) \/ pc[c] = "panicked"
                         \/ c \in Tracked /\ JobsLocked
==============================================================================
