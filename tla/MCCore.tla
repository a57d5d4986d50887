------------------------------- MODULE MCCore --------------------------------
(***************************************************************************)
(* The two structures of core on which goroutines sleep: the future and    *)
(* the queue.  Their models share no state, so a behaviour here is one of  *)
(* either part.                                                            *)
(***************************************************************************)
EXTENDS Future, Naturals, Sequences

CONSTANTS Element, Consumer, Empty, MaxItems

VARIABLES part, item, next, head, tail, stands, taken

Q == INSTANCE SimpleQueue WITH Value <- Element, pc <- stands, answer <- taken

ASSUME CoreAssumption == Q!QueueAssumption

queuevars == <<item, next, head, tail, stands, taken>>

PartsInit == part \in {"future", "queue"} /\ Init /\ Q!Init

PartsNext ==
  \/ part = "future" /\ Next /\ UNCHANGED <<part, queuevars>>
  \/ part = "queue" /\ Q!Next /\ UNCHANGED <<part, vars>>

allvars == <<part, vars, queuevars>>

\* The fairness of both modules.
PartsSpec == PartsInit /\ [][PartsNext]_allvars /\ Fairness /\ Q!Fairness

\* The ranges of the queue's variables.
QueueIsTyped == Q!TypeOK

\* The list stays whole although Take and Poll leave tail behind.
ListIsWhole == Q!ListIsWhole

\* Nobody sleeps while there is an element to take, although Add wakes only
\* on the step from empty to non-empty.
NoSleeperWhileNonEmpty == Q!NoSleeperWhileNonEmpty

\* Every element is handed out once, in the order of the additions.
ImplementsFifo == Q!ImplementsFifo

\* Consumers woken into an emptied queue never leave elements behind.
ElementsAreTaken == Q!ElementsAreTaken
==============================================================================
