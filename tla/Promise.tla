------------------------------- MODULE Promise -------------------------------
(***************************************************************************)
(* What core/future.go promises its users, without mutex, condition        *)
(* variable, goroutine or channel: a cell that is settled at most once,    *)
(* readers that get what it was settled with, and awaiters that may give   *)
(* up instead.                                                             *)
(***************************************************************************)
CONSTANTS
  Value,    (* The outcomes a future can be settled with.           *)
  Reader,   (* Callers that ask for the outcome.                    *)
  Awaiter,  (* The callers among them that ask for it with a limit. *)
  Nil,      (* No outcome yet.                                      *)
  Timeout   (* The answer of an awaiter that gave up.               *)

VARIABLES
  cell,     (* The outcome, Nil until it is settled. *)
  answer    (* What each reader was told.            *)

Init ==
  /\ cell = Nil
  /\ answer = [r \in Reader |-> Nil]

Settle(v) ==
  /\ cell = Nil
  /\ cell' = v
  /\ UNCHANGED answer

Tell(r) ==
  /\ cell # Nil
  /\ answer[r] = Nil
  /\ answer' = [answer EXCEPT ![r] = cell]
  /\ UNCHANGED cell

GiveUp(r) ==
  /\ answer[r] = Nil
  /\ answer' = [answer EXCEPT ![r] = Timeout]
  /\ UNCHANGED cell

Next ==
  \/ \E v \in Value : Settle(v)
  \/ \E r \in Reader : Tell(r)
  \/ \E r \in Awaiter : GiveUp(r)

Spec == Init /\ [][Next]_<<cell, answer>>
==============================================================================
