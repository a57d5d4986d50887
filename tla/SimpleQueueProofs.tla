-------------------------- MODULE SimpleQueueProofs --------------------------
(***************************************************************************)
(* The list invariant of SimpleQueue and its refinement of Fifo, for any   *)
(* number of consumers and any bound on the additions.                     *)
(***************************************************************************)
EXTENDS MCCore, SequenceTheorems, TLAPS

Inv == Q!TypeOK /\ Q!ListIsWhole /\ Q!NoSleeperWhileNonEmpty

LEMMA InitInv == Q!Init => Inv
BY DEF Q!Init, Inv, Q!TypeOK, Q!ListIsWhole, Q!NoSleeperWhileNonEmpty, Q!Pointer

\* Add keeps the list whole, whether tail is stale or not.
LEMMA AddInv ==
  ASSUME Inv, NEW v \in Element, Q!Add(v)
  PROVE  Inv'
<1> DEFINE newItem == Len(item) + 1
           linked == IF tail # 0 THEN [next EXCEPT ![tail] = newItem] ELSE next
<1> USE DEF Inv, Q!TypeOK, Q!ListIsWhole, Q!NoSleeperWhileNonEmpty, Q!Pointer
<1>1. /\ item' = Append(item, v)
      /\ next' = Append(linked, 0)
      /\ tail' = newItem
      /\ \/ head = 0 /\ head' = newItem /\ Q!Broadcast
         \/ head # 0 /\ UNCHANGED <<head, stands>>
      /\ taken' = taken
  BY DEF Q!Add
<1>2. /\ linked \in Seq(Nat)
      /\ Len(linked) = Len(next)
      /\ \A i \in 1 .. Len(item) : linked[i] = i + 1
  OBVIOUS
<1> HIDE DEF linked
<1>3. item' \in Seq(Element) /\ Len(item') = newItem
  BY <1>1
<1>4. /\ next' \in Seq(Nat)
      /\ Len(next') = newItem
      /\ \A i \in 1 .. newItem : next'[i] = IF i = newItem THEN 0 ELSE i + 1
  BY <1>1, <1>2
<1>5. head' \in 0 .. newItem /\ tail' = newItem
  BY <1>1
<1>6. /\ stands' \in [Consumer -> {"idle", "waiting", "woken"}]
      /\ head' # 0 => \A c \in Consumer : stands'[c] # "waiting"
  BY <1>1 DEF Q!Broadcast
<1>7. QED
  BY <1>1, <1>3, <1>4, <1>5, <1>6

LEMMA PopHeadInv ==
  ASSUME Inv, NEW c \in Consumer, Q!PopHead(c)
  PROVE  Inv'
<1> USE DEF Inv, Q!TypeOK, Q!ListIsWhole, Q!NoSleeperWhileNonEmpty, Q!Pointer, Q!PopHead
<1>1. item[head] \in Element
  OBVIOUS
<1>2. head' \in 0 .. Len(item)
  OBVIOUS
<1>3. QED
  BY <1>1, <1>2

LEMMA NextInv == Inv /\ [Q!Next]_queuevars => Inv'
<1> SUFFICES ASSUME Inv, [Q!Next]_queuevars PROVE Inv'
  OBVIOUS
<1> USE DEF Inv, Q!TypeOK, Q!ListIsWhole, Q!NoSleeperWhileNonEmpty, Q!Pointer
<1>1. ASSUME NEW v \in Element, Q!Add(v) PROVE Inv'
  BY <1>1, AddInv
<1>2. ASSUME NEW c \in Consumer, Q!Take(c) PROVE Inv'
  <2>1. CASE Q!PopHead(c)
    BY <2>1, PopHeadInv
  <2>2. CASE ~Q!PopHead(c)
    BY <1>2, <2>2 DEF Q!Take
  <2>3. QED
    BY <2>1, <2>2
<1>3. ASSUME NEW c \in Consumer, Q!Poll(c) PROVE Inv'
  <2>1. CASE Q!PopHead(c)
    BY <2>1, PopHeadInv
  <2>2. CASE ~Q!PopHead(c)
    BY <1>3, <2>2 DEF Q!Poll
  <2>3. QED
    BY <2>1, <2>2
<1>4. CASE UNCHANGED queuevars
  BY <1>4 DEF queuevars
<1>5. QED
  BY <1>1, <1>2, <1>3, <1>4 DEF Q!Next

\* A step of either part is one of the queue, or leaves it alone.
LEMMA PartsStep == [PartsNext]_allvars => [Q!Next]_queuevars
BY DEF PartsNext, allvars, queuevars

LEMMA Invariance == PartsSpec => []Inv
<1>1. Inv /\ [Q!Next]_queuevars => Inv'
  BY NextInv
<1>2. PartsInit => Inv
  BY InitInv DEF PartsInit
<1>3. QED
  BY <1>1, <1>2, PartsStep, PTL DEF PartsSpec

\* Type correctness of the queue.
THEOREM QueueTypeOK == PartsSpec => []QueueIsTyped
<1>1. Inv => QueueIsTyped
  BY DEF Inv, QueueIsTyped
<1>2. QED
  BY <1>1, Invariance, PTL

\* The stale tail pointer never breaks the chain (Add, simple_queue.go:45-51).
THEOREM QueueListIsWhole == PartsSpec => []ListIsWhole
<1>1. Inv => ListIsWhole
  BY DEF Inv, ListIsWhole
<1>2. QED
  BY <1>1, Invariance, PTL

\* Waking on the empty to non-empty step alone loses no wake-up (Add and Take,
\* simple_queue.go:50-62).
THEOREM QueueNoLostWakeup == PartsSpec => []NoSleeperWhileNonEmpty
<1>1. Inv => NoSleeperWhileNonEmpty
  BY DEF Inv, NoSleeperWhileNonEmpty
<1>2. QED
  BY <1>1, Invariance, PTL

------------------------------------------------------------------------------
\* Add appends to the contents of the list.
LEMMA AddAppends ==
  ASSUME Inv, NEW v \in Element, Q!Add(v)
  PROVE  Q!Contents' = Append(Q!Contents, v)
<1> USE DEF Inv, Q!TypeOK, Q!Pointer
<1>1. item' = Append(item, v) /\ Len(item') = Len(item) + 1
  BY DEF Q!Add
<1>2. CASE head = 0
  <2>1. head' = Len(item) + 1 /\ Q!Contents = <<>>
    BY <1>2 DEF Q!Add, Q!Contents
  <2>2. Q!Contents' = SubSeq(item', Len(item'), Len(item'))
    BY <1>1, <2>1 DEF Q!Contents
  <2>3. Q!Contents' = <<v>>
    <3>1. item' \in Seq(Element) /\ item'[Len(item')] = v
      BY <1>1
    <3>2. Len(Q!Contents') = 1 /\ Q!Contents'[1] = v /\ Q!Contents' \in Seq(Element)
      BY <1>1, <2>2, <3>1, SubSeqProperties
    <3>3. QED
      BY <3>2, SeqEqual
  <2>4. QED
    BY <2>1, <2>3
<1>3. CASE head # 0
  <2>1. head' = head
    BY <1>3 DEF Q!Add
  <2>2. /\ Q!Contents = SubSeq(item, head, Len(item))
        /\ Q!Contents' = SubSeq(item', head, Len(item'))
    BY <1>3, <2>1 DEF Q!Contents
  <2>3. QED
    BY <1>1, <1>3, <2>2
<1>4. QED
  BY <1>2, <1>3

\* Popping the head hands out the first of the contents and leaves the rest.
LEMMA PopHeadHandsOut ==
  ASSUME Inv, NEW c \in Consumer, Q!PopHead(c)
  PROVE  Q!Abstract!HandOut(c)
<1> USE DEF Inv, Q!TypeOK, Q!Pointer, Q!ListIsWhole, Q!PopHead
<1>1. Q!Contents = SubSeq(item, head, Len(item))
  BY DEF Q!Contents
<1>2. /\ head \in 1 .. Len(item)
      /\ Len(item) \in head .. Len(item)
  OBVIOUS
<1>3. /\ Head(Q!Contents) = item[head]
      /\ Tail(Q!Contents) = SubSeq(item, head + 1, Len(item))
  <2>1. item \in Seq(Element)
    OBVIOUS
  <2>2. /\ Head(SubSeq(item, head, Len(item))) = item[head]
        /\ Tail(SubSeq(item, head, Len(item))) = SubSeq(item, head + 1, Len(item))
    BY <1>2, <2>1, HeadTailOfSubSeq
  <2>3. QED
    BY <1>1, <2>2
<1>4. Q!Contents # <<>>
  <2>1. Len(Q!Contents) = Len(item) - head + 1
    BY DEF Q!Contents
  <2>2. QED
    BY <1>2, <2>1
<1>5. Q!Contents' = Tail(Q!Contents)
  <2>1. CASE head = Len(item)
    <3>1. SubSeq(item, head + 1, Len(item)) = <<>>
      BY <2>1, SubSeqEmpty
    <3>2. QED
      BY <1>3, <2>1, <3>1 DEF Q!Contents
  <2>2. CASE head # Len(item)
    <3>1. head' = head + 1 /\ head' # 0 /\ item' = item
      BY <1>2, <2>2
    <3>2. Q!Contents' = SubSeq(item, head + 1, Len(item))
      BY <3>1 DEF Q!Contents
    <3>3. QED
      BY <1>3, <3>2
  <2>3. QED
    BY <2>1, <2>2
<1>6. QED
  BY <1>3, <1>4, <1>5 DEF Q!Abstract!HandOut

LEMMA StepRefines == Inv /\ [Q!Next]_queuevars => [Q!Abstract!Next]_<<Q!Contents, taken>>
<1> SUFFICES ASSUME Inv, [Q!Next]_queuevars
             PROVE  [Q!Abstract!Next]_<<Q!Contents, taken>>
  OBVIOUS
<1> USE DEF Q!Abstract!Next
<1>1. ASSUME NEW v \in Element, Q!Add(v) PROVE Q!Abstract!Put(v)
  BY <1>1, AddAppends DEF Q!Abstract!Put, Q!Add
<1>2. ASSUME NEW c \in Consumer, Q!Take(c)
      PROVE  Q!Abstract!HandOut(c) \/ UNCHANGED <<Q!Contents, taken>>
  BY <1>2, PopHeadHandsOut DEF Q!Take, Q!Contents
<1>3. ASSUME NEW c \in Consumer, Q!Poll(c)
      PROVE  Q!Abstract!HandOut(c) \/ Q!Abstract!ReportEmpty(c)
  BY <1>3, PopHeadHandsOut DEF Q!Poll, Q!Contents, Q!Abstract!ReportEmpty
<1>4. CASE UNCHANGED queuevars
  BY <1>4 DEF queuevars, Q!Contents
<1>5. QED
  BY <1>1, <1>2, <1>3, <1>4 DEF Q!Next

\* SimpleQueue (simple_queue.go:36-81) implements Fifo.
THEOREM QueueImplementsFifo == PartsSpec => ImplementsFifo
<1>1. PartsInit => Q!Abstract!Init
  BY DEF PartsInit, Q!Init, Q!Abstract!Init, Q!Contents
<1>2. Inv /\ [PartsNext]_allvars => [Q!Abstract!Next]_<<Q!Contents, taken>>
  BY StepRefines, PartsStep
<1>3. QED
  BY <1>1, <1>2, Invariance, PTL DEF PartsSpec, Q!Abstract!Spec, Q!ImplementsFifo, ImplementsFifo
==============================================================================
