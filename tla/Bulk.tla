-------------------------------- MODULE Bulk ---------------------------------
(***************************************************************************)
(* MaybeBulkApiCall and MaybeBulkApiCallArray of cmd/util_common.go, for   *)
(* commands that change several objects of one kind: one object is a call  *)
(* of its own, several go out as one core.bulk job, which the host (which  *)
(* is external) works off item by item.                                    *)
(*                                                                         *)
(* An operator here gives the ways a call can end, as records: whether the *)
(* command sees an error, the items that are done when it returns, and the *)
(* items that may still be done afterwards: by a job, which the command    *)
(* awaits if shouldWaitNow is set, or by a call it has given up on.        *)
(***************************************************************************)
EXTENDS Naturals, FiniteSets

Ending(error, now, later) == [error |-> error, now |-> now, later |-> later]

\* ApiCall, which reports the host's refusal.  A call that times out, or whose
\* answer is lost, is an error as well, and may be done at any time or never.
CallOne(items) == {Ending(FALSE, items, {}), Ending(TRUE, {}, {}), Ending(TRUE, {}, items)}

\* The host has the job, but its number may not reach the command.
Accepted(items) == {Ending(FALSE, {}, items), Ending(TRUE, {}, items)}

\* The host refuses the job: ClientSession.CallAsyncRaw drops the error that
\* there is no job number, and -1 is taken for success.
Lost == {Ending(FALSE, {}, {})}

\* The daemon cannot be reached, or the session cannot be made.
Unreachable == {Ending(TRUE, {}, {})}

MaybeBulkApiCall(items) ==
  IF items = {} THEN {Ending(TRUE, {}, {})}
  ELSE IF Cardinality(items) = 1 THEN CallOne(items)
  ELSE Accepted(items) \cup Lost \cup Unreachable
==============================================================================
