------------------------------ MODULE Snapshots ------------------------------
(***************************************************************************)
(* cmd/snapshot.go: the commands that create, replace, delete, roll back,  *)
(* rename and clone snapshots.  A snapshot is a pair of dataset and name.  *)
(***************************************************************************)
EXTENDS Bulk

CONSTANTS
  Command,
  Dataset,
  Name,
  Below,     (* The datasets under a dataset.                               *)
  None,      (* What a malformed argument lacks.                            *)
  Ops,       (* Bound: the operations to choose from.                       *)
  MaxActive  (* Bound: commands at the same time.                           *)

SnapshotsAssumption ==
  Below \in [Dataset -> SUBSET Dataset] /\ None \notin Dataset \cup Name /\ MaxActive \in Nat

VARIABLES
  datasets, snaps,
  op, pc,
  jobs,      (* items of the command's calls and jobs, not yet done         *)
  dropped    (* its deletion has ended with an error, which it drops        *)

vars == <<datasets, snaps, op, pc, jobs, dropped>>

Snapshot == Dataset \X Name

Init ==
  /\ datasets \in {s \in SUBSET Dataset : \A d \in Dataset : Below[d] \cap s # {} => d \in s}
  /\ snaps = datasets \X Name \/ snaps = {}
  /\ op \in [Command -> Ops]
  /\ pc = [c \in Command |-> "start"]
  /\ jobs = [c \in Command |-> {}]
  /\ dropped = [c \in Command |-> FALSE]

Over == {"done", "failed", "refused"}
Goto(c, where) == pc' = [pc EXCEPT ![c] = where]

\* What a command has left behind counts as well.
Active == {c \in Command : pc[c] \notin Over \cup {"start"} \/ jobs[c] # {}}
Begins(c, kinds) == pc[c] = "start" /\ Cardinality(Active) < MaxActive /\ op[c].kind \in kinds

------------------------------------------------------------------------------
(* The host, which is external, does single items.                          *)

Item(do, snap, recursive) == [do |-> do, snap |-> snap, recursive |-> recursive]

\* A snapshot, and if recursive those of its name below it.
Reach(item) ==
  {item.snap} \cup
  IF item.recursive THEN {s \in datasets \X {item.snap[2]} : s[1] \in Below[item.snap[1]]} ELSE {}

Able(item) ==
  CASE item.do = "create" -> item.snap[1] \in datasets /\ Reach(item) \cap snaps = {}
    [] item.do = "rename" -> item.snap \in snaps /\ item.to \notin snaps
    [] item.do = "clone" -> item.snap \in snaps /\ item.to \notin datasets
    [] OTHER -> item.snap \in snaps

\* A rollback takes away later snapshots of the dataset, if it is told to.
Do(item) ==
  \E now \in CASE item.do = "create" -> {snaps \cup Reach(item)}
               [] item.do = "delete" -> {snaps \ Reach(item)}
               [] item.do = "rename" -> {(snaps \ {item.snap}) \cup {item.to}}
               [] item.do = "clone" -> {snaps}
               [] item.do = "rollback" ->
                    {snaps \ later : later \in SUBSET {s \in snaps :
                       item.recursive /\ s[1] = item.snap[1] /\ s # item.snap}} :
    /\ snaps' = now
    /\ datasets' = IF item.do = "clone" THEN datasets \cup {item.to} ELSE datasets

Run(items) ==
  IF items = {} THEN UNCHANGED <<datasets, snaps>>
                ELSE \A i \in items : Able(i) /\ Do(i)

\* A call after which the command goes on to next, or to onError.
Call(c, items, next, onError) ==
  \E e \in MaybeBulkApiCall(items) :
    /\ Run(e.now)
    /\ jobs' = [jobs EXCEPT ![c] = @ \cup e.later]
    /\ dropped' = [dropped EXCEPT ![c] = @ \/ (e.error /\ onError # "failed")]
    /\ Goto(c, IF e.error THEN onError ELSE next)
    /\ UNCHANGED op

RunItem(c) ==
  \E item \in jobs[c] :
    /\ jobs' = [jobs EXCEPT ![c] = @ \ {item}]
    /\ Run({item}) \/ Run({})
    /\ UNCHANGED <<op, pc, dropped>>

\* Session.Close waits for the jobs, or fails to, or there is an error in what
\* one brings.  A deletion that was given up is not waited for.
Close(c) ==
  /\ pc[c] = "close"
  /\ \/ (\A i \in jobs[c] : dropped[c] /\ i.do = "delete") /\ Goto(c, "done")
     \/ Cardinality(op[c].specs) > 1 /\ Goto(c, "failed")
  /\ UNCHANGED <<datasets, snaps, op, jobs, dropped>>

------------------------------------------------------------------------------
(* The commands                                                             *)

Refuse(c) == Goto(c, "refused") /\ UNCHANGED <<datasets, snaps, op, jobs, dropped>>

CreateItems(c) == {Item("create", s, op[c].recursive) : s \in op[c].specs}

\* With --delete a deletion comes first, which is recursive in any case.
CreateSnapshot(c) ==
  /\ Begins(c, {"create"})
  /\ IF ~(op[c].specs \subseteq Snapshot) THEN Refuse(c)
     ELSE IF op[c].replace
     THEN Call(c, {Item("delete", s, TRUE) : s \in op[c].specs}, "deleting", "deleting")
     ELSE Call(c, CreateItems(c), "close", "failed")

\* Deviation of CreateReplaced: the deletion is not awaited.
CreateMeanwhile(c) ==
  /\ pc[c] = "deleting"
  /\ \E e \in MaybeBulkApiCall(CreateItems(c)) :
       /\ Run(e.now)
       /\ jobs' = [jobs EXCEPT ![c] = @ \cup e.later]
       /\ Goto(c, IF e.error THEN "failed" ELSE "close")
       /\ UNCHANGED <<op, dropped>>

\* WaitForJob may fail while the job goes on.
WaitFails(c) ==
  /\ pc[c] = "deleting" /\ jobs[c] # {}
  /\ dropped' = [dropped EXCEPT ![c] = TRUE]
  /\ UNCHANGED <<datasets, snaps, op, pc, jobs>>

\* The deletion has been awaited, or has ended with an error; how it went is not
\* looked at.
CreateReplaced(c) ==
  /\ pc[c] = "deleting" /\ (jobs[c] = {} \/ dropped[c])
  /\ Call(c, CreateItems(c), "close", "failed")

\* The name may be missing: the host refuses such a snapshot.
DeleteOrRollback(c) ==
  /\ Begins(c, {"delete", "rollback"})
  /\ IF \E s \in op[c].specs : s[1] = None THEN Refuse(c)
     ELSE Call(c, {Item(op[c].kind, s, op[c].recursive) : s \in op[c].specs}, "close", "failed")

\* The new name stays in the dataset of the old one.
Target(from, to) == IF to[1] \in {None, from[1]} THEN {<<from[1], to[2]>>} ELSE {}

RenameSnapshot(c) ==
  /\ Begins(c, {"rename"})
  /\ \E from \in op[c].specs :
       IF from \notin Snapshot \/ Target(from, op[c].to) = {} THEN Refuse(c)
       ELSE Call(c, {[do |-> "rename", snap |-> from, to |-> to] : to \in Target(from, op[c].to)},
                 "close", "failed")

CloneSnapshot(c) ==
  /\ Begins(c, {"clone"})
  /\ Call(c, {[do |-> "clone", snap |-> s, to |-> op[c].to] : s \in op[c].specs}, "close", "failed")

Step(c) ==
  \/ RunItem(c) \/ Close(c) \/ CreateSnapshot(c) \/ WaitFails(c) \/ CreateReplaced(c)
  \/ DeleteOrRollback(c) \/ RenameSnapshot(c) \/ CloneSnapshot(c)

Next == \E c \in Command : Step(c)

Spec == Init /\ [][Next]_vars

------------------------------------------------------------------------------
(* Properties                                                               *)

\* Once create --delete has asked for the new snapshots, no part of its deletion
\* is still to come, which would take them: of several snapshots or of one, and
\* with another command at work.  Only a deletion that ended with an error, or
\* whose job could not be awaited, may be outstanding: the code drops the error.
ReplacedBeforeCreated ==
  \A c \in Command :
    op[c].kind = "create" /\ pc[c] \notin {"start", "deleting"} /\ ~dropped[c] =>
      \A i \in jobs[c] : i.do # "delete"
==============================================================================
