------------------------------ MODULE IscsiCrud ------------------------------
(***************************************************************************)
(* cmd/iscsi_crud.go: list, create, update and delete for a category of    *)
(* iSCSI objects, and the list of associations, which is joined with the   *)
(* targets and extents.  Objects are looked up by any of the identifiers   *)
(* of their category; an update looks for the one that has all those given.*)
(*                                                                         *)
(* An object is a function from its attributes to values; its id is one of *)
(* the identifiers.                                                        *)
(***************************************************************************)
EXTENDS Bulk

CONSTANTS
  Command,
  Key,         (* Ids of objects, which are values as well.                 *)
  Identifier,  (* Attributes that identify, the id left aside.              *)
  Required,    (* Attributes a new object must be given.                    *)
  Stock,       (* Bound: what the host may have at first.                   *)
  Link,        (* Associations: target and extent, by their keys.           *)
  Crud,        (* Bound: the commands to choose from.                       *)
  None

IscsiCrudAssumption == IsFiniteSet(Key) /\ \A s \in Stock : DOMAIN s = Key

VARIABLES
  objects,     (* by key, None if there is no such object                   *)
  order,       (* what each command is to do                                *)
  phase,
  picked,      (* objects the query has chosen                              *)
  queue,       (* items of the call or the job, not yet done                *)
  rows         (* associations listed: target and extent with their names   *)

vars == <<objects, order, phase, picked, queue, rows>>

Init ==
  /\ objects \in Stock
  /\ order \in [Command -> Crud]
  /\ phase = [c \in Command |-> "idle"]
  /\ picked = [c \in Command |-> {}]
  /\ queue = [c \in Command |-> {}]
  /\ rows = <<>>

Existing == {k \in Key : objects[k] # None}
Goto(c, where) == phase' = [phase EXCEPT ![c] = where]

\* One command at a time, whose order is of this kind.
Begins(c, kind) ==
  /\ phase[c] = "idle" /\ order[c].kind = kind
  /\ \A d \in Command : phase[d] \in {"idle", "done", "failed"} /\ queue[d] = {}

Has(k, attr, value) == attr \in DOMAIN objects[k] /\ objects[k][attr] = value

\* iscsiCrudQuery: the value is the id or any identifier; without values all.
Named(k, values) ==
  values = {} \/ k \in values \/ \E a \in Identifier, v \in values : Has(k, a, v)
iscsiCrudQuery(values) == {k \in Existing : Named(k, values)}

\* The host has done it, but the answer may be late or lost.
Answer(c) == Goto(c, "done") \/ Goto(c, "failed")

Fail(c) == Goto(c, "failed") /\ UNCHANGED <<objects, order, picked, queue, rows>>

------------------------------------------------------------------------------
(* iscsiCrudUpdateCreate                                                    *)

Create(c) ==
  /\ Begins(c, "create")
  /\ \/ Fail(c)
     \/ /\ Required \subseteq DOMAIN order[c].attrs
        /\ \E k \in Key \ Existing : objects' = [objects EXCEPT ![k] = order[c].attrs]
        /\ Answer(c)
        /\ UNCHANGED <<order, picked, queue, rows>>

\* Deviation of Matching: an object that has one of them will do.
MatchingAny(attrs) ==
  {k \in Existing : \E a \in Identifier \cap DOMAIN attrs : Has(k, a, attrs[a])}

\* The query filter, a conjunction, which may be empty.
Matching(attrs) ==
  {k \in Existing : \A a \in Identifier \cap DOMAIN attrs : Has(k, a, attrs[a])}

\* With an id no query; else there must be a single match, and something to
\* change in it.
Update(c) ==
  /\ Begins(c, "update")
  /\ LET attrs == order[c].attrs
         keys == IF order[c].id # None THEN {order[c].id} ELSE Matching(attrs)
     IN  \/ Fail(c)
         \/ /\ Cardinality(keys) = 1
            /\ picked' = [picked EXCEPT ![c] = keys]
            /\ Goto(c, IF order[c].id = None /\ DOMAIN attrs \subseteq Identifier
                       THEN "done" ELSE "update")
            /\ UNCHANGED <<objects, order, queue, rows>>

Merge(old, new) == [a \in DOMAIN old \cup DOMAIN new |-> IF a \in DOMAIN new THEN new[a] ELSE old[a]]

Change(c) ==
  /\ phase[c] = "update"
  /\ \/ Fail(c)
     \/ \E k \in picked[c] \cap Existing :
          /\ objects' = [objects EXCEPT ![k] = Merge(@, order[c].attrs)]
          /\ Answer(c)
          /\ UNCHANGED <<order, picked, queue, rows>>

------------------------------------------------------------------------------
(* iscsiCrudDelete                                                          *)

Delete(c) ==
  /\ Begins(c, "delete")
  /\ \/ Fail(c)
     \/ LET keys == iscsiCrudQuery(order[c].args)
        IN  /\ picked' = [picked EXCEPT ![c] = keys]
            /\ Goto(c, IF keys = {} THEN "done" ELSE "delete")
            /\ UNCHANGED <<objects, order, queue, rows>>

\* One call, which may be done after it was given up, or a job that is awaited.
DeleteAll(c) ==
  /\ phase[c] = "delete"
  /\ \E e \in MaybeBulkApiCall(picked[c]) :
       /\ objects' = [k \in Key |-> IF k \in e.now THEN None ELSE objects[k]]
       /\ queue' = [queue EXCEPT ![c] = e.later]
       /\ Goto(c, IF e.error THEN "failed" ELSE "await")
  /\ UNCHANGED <<order, picked, rows>>

RunItem(c) ==
  \E k \in queue[c] :
    /\ queue' = [queue EXCEPT ![c] = @ \ {k}]
    /\ objects' \in {objects, [objects EXCEPT ![k] = None]}
    /\ UNCHANGED <<order, phase, picked, rows>>

\* How the items went is not looked at.  The wait itself may fail.
Await(c) ==
  /\ phase[c] = "await"
  /\ \/ queue[c] = {} /\ Goto(c, "done")
     \/ Goto(c, "failed")
  /\ UNCHANGED <<objects, order, picked, queue, rows>>

------------------------------------------------------------------------------
(* iscsiQueryTargetExtentWithJoin                                           *)

\* listToRemove
Unmatched(l, targets, extents) == Link[l].target \notin targets /\ Link[l].extent \notin extents

\* missingTargets and missingExtents keep one association for each object that
\* did not match, the last one met; its name is queried in the end.
Join(c) ==
  /\ Begins(c, "join")
  /\ \/ Fail(c)
     \/ LET found == iscsiCrudQuery(order[c].args)
            kept == {l \in DOMAIN Link : ~Unmatched(l, found, found)}
            without(end) == {l \in kept : Link[l][end] \notin found}
        IN  \E last \in SUBSET (without("target") \cup without("extent")) :
              /\ \A l, m \in last : l # m /\ {l, m} \subseteq without("target") =>
                   Link[l].target # Link[m].target
              /\ \A l, m \in last : l # m /\ {l, m} \subseteq without("extent") =>
                   Link[l].extent # Link[m].extent
              /\ rows' = [l \in kept |->
                   {end \in {"target", "extent"} : Link[l][end] \in found \/ (l \in last /\ Link[l][end] \in Existing)}]
              /\ Goto(c, "done")
              /\ UNCHANGED <<objects, order, picked, queue>>

Step(c) ==
  \/ Create(c) \/ Update(c) \/ Change(c)
  \/ Delete(c) \/ DeleteAll(c) \/ RunItem(c) \/ Await(c) \/ Join(c)

Next == \E c \in Command : Step(c)

Spec == Init /\ [][Next]_vars

------------------------------------------------------------------------------
(* Properties                                                               *)

\* Whom an order is about: the object of its id, or the only one with all the
\* identifiers it gives; for a deletion all that an argument names.
About(c, k) ==
  LET o == order[c]
  IN  CASE o.kind = "update" /\ o.id # None -> k = o.id
        [] o.kind = "update" /\ o.id = None ->
             \A m \in Existing :
               m = k <=> \A a \in DOMAIN o.attrs \cap Identifier : Has(m, a, o.attrs[a])
        [] o.kind = "delete" -> Named(k, o.args)
        [] OTHER -> FALSE

\* While one command runs at a time: an object that is changed or deleted is
\* one that a command that has begun is about.
ChangesWhatIsMeant ==
  [][\A k \in Existing : objects'[k] # objects[k] =>
       \E c \in Command : phase[c] # "idle" /\ About(c, k)]_vars

\* The joined list has the associations of which the arguments name an end,
\* and that end is shown with its name.
JoinShowsEitherEnd ==
  [][\A c \in Command :
       phase[c] = "idle" /\ phase'[c] = "done" /\ order[c].kind = "join" =>
         \A l \in DOMAIN Link :
           LET ends == {e \in {"target", "extent"} :
                          Link[l][e] \in iscsiCrudQuery(order[c].args)}
           IN  IF ends = {} THEN l \notin DOMAIN rows' ELSE ends \subseteq rows'[l]]_vars

\* iscsi_crud.go:170, "Delete one or more" of a category "by id": what goes has
\* its id on the command line.
DeletesById ==
  [][\A k \in Existing : objects'[k] = None =>
       \E c \in Command : order[c].kind = "delete" /\ k \in order[c].args]_vars
==============================================================================
