-------------------------------- MODULE Fifo ---------------------------------
(***************************************************************************)
(* What core/simple_queue.go promises: first in, first out, every element  *)
(* handed to exactly one consumer, Poll reporting emptiness only when the  *)
(* queue is empty.                                                         *)
(***************************************************************************)
EXTENDS Sequences

CONSTANTS
  Value,     (* The elements.                                *)
  Consumer,  (* The threads that call Take and Poll.         *)
  Nil,       (* No call has returned yet.                    *)
  Empty      (* The (default, false) answer of Poll.         *)

VARIABLES
  queue,     (* The elements added and not yet handed out.   *)
  answer     (* What the last call of each consumer returned *)

Init ==
  /\ queue = <<>>
  /\ answer = [c \in Consumer |-> Nil]

Put(v) ==
  /\ queue' = Append(queue, v)
  /\ UNCHANGED answer

HandOut(c) ==
  /\ queue # <<>>
  /\ answer' = [answer EXCEPT ![c] = Head(queue)]
  /\ queue' = Tail(queue)

ReportEmpty(c) ==
  /\ queue = <<>>
  /\ answer' = [answer EXCEPT ![c] = Empty]
  /\ UNCHANGED queue

Next ==
  \/ \E v \in Value : Put(v)
  \/ \E c \in Consumer : HandOut(c) \/ ReportEmpty(c)

Spec == Init /\ [][Next]_<<queue, answer>>
==============================================================================
