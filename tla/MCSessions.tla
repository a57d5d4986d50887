----------------------------- MODULE MCSessions ------------------------------
(***************************************************************************)
(* The session without the daemon and the JSON-RPC client under it.  Their *)
(* models share no state (RealSession has calls succeed or fail, ApiClient *)
(* says how they return), so a behaviour here is one of either part.       *)
(***************************************************************************)
EXTENDS ApiClient

CONSTANTS Job, Foreign, CanFail

VARIABLES part, thread, current, subscribed, jobsList, results, aside, failed, state,
          waiters, broken

R == INSTANCE RealSession

ASSUME SessionsAssumption == R!RealSessionAssumption

sessionvars ==
  <<thread, current, subscribed, jobsList, results, aside, failed, state, waiters, broken>>

PartsInit == part \in {"client", "session"} /\ Init /\ R!Init

ClientPart(A) == part = "client" /\ A /\ UNCHANGED <<part, sessionvars>>
SessionPart(A) == part = "session" /\ A /\ UNCHANGED <<part, vars>>

PartsNext == ClientPart(Next) \/ SessionPart(R!Next)

allvars == <<part, vars, sessionvars>>

\* The fairness of both modules.
PartsSpec ==
  /\ PartsInit /\ [][PartsNext]_allvars
  /\ \A c \in Caller : SF_allvars(ClientPart(CallerStep(c)))
  /\ SF_allvars(ClientPart(ListenerStep))
  /\ WF_allvars(SessionPart(R!Thread)) /\ WF_allvars(SessionPart(R!Updates))
  /\ \A j \in Job : WF_allvars(SessionPart(R!Ends(j)))

\* A command that ends without an error leaves none of its jobs running,
\* although results come twice, out of order, and for the jobs of others.
EndsAfterItsJobs == R!EndsAfterItsJobs

\* Unless the connection is lost, WaitForJob and Close come back.
WaitsEnd == R!WaitsEnd
==============================================================================
