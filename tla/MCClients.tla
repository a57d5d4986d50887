------------------------------ MODULE MCClients ------------------------------
(***************************************************************************)
(* What the processes of one user share: the socket of the daemon, and the *)
(* configuration file.  The models of the two share no state, so a         *)
(* behaviour here is one of either: clients and daemons, config commands   *)
(* one after the other, or config commands that overlap.                   *)
(***************************************************************************)
EXTENDS ConfigFile, Sequences

CONSTANTS Client, Daemon, Calls, Retries, MaxStops, StaleFile, Prompt

VARIABLES part, socket, daemon, stops, at, frame, conn, todo, jobs, failed, running, ran

C == INSTANCE ClientLife
Overlapping == INSTANCE ConfigFile WITH
  MaxActive <- 2, Name <- {CHOOSE n \in Name : TRUE}

ASSUME ClientsAssumption == C!ClientLifeAssumption

clientvars ==
  <<socket, daemon, stops, at, frame, conn, todo, jobs, failed, running, ran>>

PartsInit ==
  \/ part = "clients" /\ C!Init /\ Init /\ file.state = "absent"
  \/ part = "serial" /\ Init /\ C!Init /\ socket = 0 /\ file.state # "unreadable"
  \/ part = "overlapping" /\ Overlapping!Init /\ C!Init /\ socket = 0

InPart(p, A) == part = p /\ A /\ UNCHANGED part

PartsNext ==
  \/ InPart("clients", C!Next /\ UNCHANGED vars)
  \/ InPart("serial", Next /\ UNCHANGED clientvars)
  \/ InPart("overlapping", Overlapping!Next /\ UNCHANGED clientvars)

allvars == <<part, vars, clientvars>>

\* The fairness of ClientLife; the config commands owe nothing.
PartsSpec ==
  /\ PartsInit /\ [][PartsNext]_allvars
  /\ \A c \in Client : WF_allvars(InPart("clients", C!Step(c) /\ UNCHANGED vars))
  /\ \A d \in Daemon :
       WF_allvars(InPart("clients", (C!Listen(d) \/ C!Exit(d)) /\ UNCHANGED vars))

------------------------------------------------------------------------------
(* Properties                                                               *)

\* However a request is retried, a daemon runs a call at most once, because
\* only a failed dial is tried again (client_api.go:198).
CallRunsAtMostOnce == C!CallRunsAtMostOnce

\* When no request of a command has failed, none of its jobs runs when it ends
\* (Close, client_api.go:169).
EndsAfterItsJobs == C!EndsAfterItsJobs


\* One command at a time, each changes its own name only, and a file that a
\* crash has left half written is never taken for an empty one.
Writing == {c \in Command : pc[c] = "write"}
Table == INSTANCE HostTable WITH
  hosts <- IF part = "serial" THEN whole ELSE None,
  damaged <- part = "serial" /\ file.state \in {"broken", "null"} /\ Writing = {}
ImplementsHostTable == Table!Spec
==============================================================================
