----------------------------- MODULE SimpleQueue -----------------------------
(***************************************************************************)
(* core/simple_queue.go: a linked list with head and tail pointers behind  *)
(* a mutex and a condition variable.  Take and Poll advance head and never *)
(* touch tail, so an emptied queue keeps a tail pointer to an item that    *)
(* has left the list.                                                      *)
(*                                                                         *)
(* An item is named by the order of its allocation; 0 is the nil pointer.  *)
(* Each method runs under the mutex, so it is one step up to cv.Wait().    *)
(***************************************************************************)
EXTENDS Naturals, Sequences

CONSTANTS
  Value,     (* The elements.                                           *)
  Consumer,  (* The threads that call Take and Poll.                    *)
  Nil,       (* No call has returned yet.                               *)
  Empty,     (* The (default, false) answer of Poll.                    *)
  MaxItems   (* Bound: how many items are ever added.                   *)

QueueAssumption ==
  /\ Nil \notin Value
  /\ Empty \notin Value
  /\ MaxItems \in Nat

VARIABLES
  item,      (* value of every QueueItem allocated, in that order       *)
  next,      (* next of every QueueItem                                 *)
  head,
  tail,
  pc,        (* Where each consumer stands                              *)
  answer     (* What the last call of each consumer returned            *)

vars == <<item, next, head, tail, pc, answer>>

Pointer == 0 .. Len(item)

Init ==
  /\ item = <<>>
  /\ next = <<>>
  /\ head = 0
  /\ tail = 0
  /\ pc = [c \in Consumer |-> "idle"]
  /\ answer = [c \in Consumer |-> Nil]

\* q.cv.Broadcast()
Broadcast ==
  pc' = [c \in Consumer |-> IF pc[c] = "waiting" THEN "woken" ELSE pc[c]]

\* Deviations of Add, to try the properties on: tail is not set when the
\* queue was empty; the old tail is not linked; Signal in place of Broadcast.
AddTailLate(v) ==
  /\ Len(item) < MaxItems
  /\ LET newItem == Len(item) + 1
     IN  /\ item' = Append(item, v)
         /\ next' = Append(IF head # 0 THEN [next EXCEPT ![tail] = newItem] ELSE next, 0)
         /\ \/ head = 0 /\ head' = newItem /\ Broadcast /\ UNCHANGED tail
            \/ head # 0 /\ tail' = newItem /\ UNCHANGED <<head, pc>>
  /\ UNCHANGED answer

AddUnlinked(v) ==
  /\ Len(item) < MaxItems
  /\ item' = Append(item, v)
  /\ next' = Append(next, 0)
  /\ tail' = Len(item) + 1
  /\ \/ head = 0 /\ head' = Len(item) + 1 /\ Broadcast
     \/ head # 0 /\ UNCHANGED <<head, pc>>
  /\ UNCHANGED answer

Signal ==
  \E c \in Consumer :
    pc' = [pc EXCEPT ![c] = IF @ = "waiting" THEN "woken" ELSE @]

AddSignals(v) ==
  /\ Len(item) < MaxItems
  /\ LET newItem == Len(item) + 1
     IN  /\ item' = Append(item, v)
         /\ next' = Append(IF tail # 0 THEN [next EXCEPT ![tail] = newItem] ELSE next, 0)
         /\ tail' = newItem
         /\ \/ head = 0 /\ head' = newItem /\ Signal
            \/ head # 0 /\ UNCHANGED <<head, pc>>
  /\ UNCHANGED answer

\* newItem is linked behind the item tail points to, even when that item has
\* already been taken.
Add(v) ==
  /\ Len(item) < MaxItems
  /\ LET newItem == Len(item) + 1
     IN  /\ item' = Append(item, v)
         /\ next' = Append(IF tail # 0 THEN [next EXCEPT ![tail] = newItem] ELSE next, 0)
         /\ tail' = newItem
         /\ \/ head = 0 /\ head' = newItem /\ Broadcast
            \/ head # 0 /\ UNCHANGED <<head, pc>>
  /\ UNCHANGED answer

\* Deviation of PopHead: head goes to the item allocated next.
PopHeadByNumber(c) ==
  /\ head # 0
  /\ answer' = [answer EXCEPT ![c] = item[head]]
  /\ head' = head + 1
  /\ pc' = [pc EXCEPT ![c] = "idle"]
  /\ UNCHANGED <<item, next, tail>>

\* The last lines of Take and of Poll.
PopHead(c) ==
  /\ head # 0
  /\ answer' = [answer EXCEPT ![c] = item[head]]
  /\ head' = next[head]
  /\ pc' = [pc EXCEPT ![c] = "idle"]
  /\ UNCHANGED <<item, next, tail>>

\* Take up to the first Wait, and from every return of Wait to the next one.
Take(c) ==
  /\ pc[c] \in {"idle", "woken"}
  /\ \/ PopHead(c)
     \/ /\ head = 0
        /\ pc' = [pc EXCEPT ![c] = "waiting"]
        /\ UNCHANGED <<item, next, head, tail, answer>>

Poll(c) ==
  /\ pc[c] = "idle"
  /\ \/ PopHead(c)
     \/ /\ head = 0
        /\ answer' = [answer EXCEPT ![c] = Empty]
        /\ UNCHANGED <<item, next, head, tail, pc>>

Next ==
  \/ \E v \in Value : Add(v)
  \/ \E c \in Consumer : Take(c) \/ Poll(c)

\* A woken consumer gets the mutex in the end; calls are nobody's duty.
Fairness == \A c \in Consumer : WF_vars(pc[c] = "woken" /\ Take(c))

Spec == Init /\ [][Next]_vars
FairSpec == Spec /\ Fairness

------------------------------------------------------------------------------
\* The ranges of the variables.
TypeOK ==
  /\ item \in Seq(Value)
  /\ next \in Seq(Nat)
  /\ Len(next) = Len(item)
  /\ head \in Pointer
  /\ tail \in Pointer
  /\ pc \in [Consumer -> {"idle", "waiting", "woken"}]
  /\ answer \in [Consumer -> Value \cup {Nil, Empty}]

\* The list stays whole although tail goes stale: tail is the newest item,
\* it ends the chain, and every other item, taken or not, points to the one
\* added after it, so whatever head points to leads to tail (lines 45-51,
\* 64-65).
ListIsWhole ==
  /\ tail = Len(item)
  /\ \A i \in 1 .. Len(item) : next[i] = IF i = Len(item) THEN 0 ELSE i + 1

\* Add wakes only on the step from empty to non-empty.  That is enough:
\* nobody sleeps while there is an element to take (lines 50-53, 60-62).
NoSleeperWhileNonEmpty == head # 0 => \A c \in Consumer : pc[c] # "waiting"

\* The elements from head to the end of the chain.
Contents == IF head = 0 THEN <<>> ELSE SubSeq(item, head, Len(item))

\* SimpleQueue implements Fifo.
Abstract == INSTANCE Fifo WITH queue <- Contents
ImplementsFifo == Abstract!Spec

\* With elements in the queue and consumers blocked in Take, an element is
\* taken or the consumers leave: waking from Wait into an emptied queue and
\* waiting again never leaves elements behind (lines 56-67).
ElementsAreTaken ==
  (head # 0 /\ \E c \in Consumer : pc[c] # "idle")
    ~> (head = 0 \/ \A c \in Consumer : pc[c] = "idle")
==============================================================================
