------------------------------- MODULE Shares --------------------------------
(***************************************************************************)
(* cmd/dataset.go and cmd/nfs.go: the commands that create, update, delete *)
(* and rename datasets and their NFS shares.  Commands of several users    *)
(* interleave at every API call; a core.bulk job that is not awaited runs  *)
(* while its command goes on, until the command closes its session.        *)
(***************************************************************************)
EXTENDS Bulk

CONSTANTS
  Command,
  Dataset,   (* A share's path is the dataset it is mounted from.           *)
  Id,        (* Numbers of NFS shares.                                      *)
  None,
  Ops,       (* Bound: the operations to choose from.                       *)
  MaxActive  (* Bound: commands at the same time.                           *)

ASSUME SharesAssumption ==
  /\ Id \subseteq Nat /\ None \notin Dataset \cup Id /\ Dataset \cap Id = {} /\ MaxActive \in Nat
  /\ \A o \in Ops : o.kind = "dataset rename" =>
       o.to # None /\ \E from \in Dataset : o.specs = {from}

VARIABLES
  datasets,
  path,      (* the path of every share, None if there is no such share     *)
  op, pc,
  work,      (* what the query has the command update and create            *)
  jobs       (* items of the command's core.bulk jobs, not yet done         *)

vars == <<datasets, path, op, pc, work, jobs>>

\* An operation: what it does, to which specs (of shares: paths or ids), and the
\* name or path that `dataset rename` and `nfs update --path` give them.
Op(kind, specs, create) == [kind |-> kind, specs |-> specs, create |-> create, to |-> None]
Rename(from, to, shares) == [Op("dataset rename", {from}, shares) EXCEPT !.to = to]
Move(specs, to, create) == [Op("nfs update", specs, create) EXCEPT !.to = to]

NoWork == [update |-> {}, create |-> {}]

Init ==
  /\ datasets \in SUBSET Dataset
  /\ path \in [Id -> Dataset \cup {None}]
  /\ op \in [Command -> Ops]
  /\ pc = [c \in Command |-> "start"]
  /\ work = [c \in Command |-> NoWork]
  /\ jobs = [c \in Command |-> {}]

Over == {"done", "failed", "missing"}
Goto(c, where) == pc' = [pc EXCEPT ![c] = where]

\* What a command has left behind counts as well.
Active == {c \in Command : pc[c] \notin Over \cup {"start"} \/ jobs[c] # {}}
Begins(c, kind) == pc[c] = "start" /\ Cardinality(Active) < MaxActive /\ op[c].kind = kind

------------------------------------------------------------------------------
(* The host, which is external, does single items.                          *)

\* A share exists at most once for every number; several may have one path.
Do(item) ==
  CASE item.do = "dataset create" ->
         datasets' = datasets \cup {item.of} /\ UNCHANGED path
    [] item.do = "dataset delete" ->
         datasets' = datasets \ {item.of} /\ UNCHANGED path
    [] item.do = "rename" ->
         datasets' = (datasets \ {item.of}) \cup {item.to} /\ UNCHANGED path
    [] item.do = "nfs create" ->
         /\ path' = [path EXCEPT ![CHOOSE i \in Id : path[i] = None] = item.of]
         /\ UNCHANGED datasets
    [] item.do = "nfs delete" -> path' = [path EXCEPT ![item.of] = None] /\ UNCHANGED datasets
    [] item.do = "nfs update" ->
         /\ path' = [path EXCEPT ![item.of] = IF item.to = None THEN @ ELSE item.to]
         /\ UNCHANGED datasets
    [] item.do = "dataset update" -> UNCHANGED <<datasets, path>>

Able(item) ==
  CASE item.do = "dataset create" -> item.of \notin datasets
    [] item.do \in {"dataset update", "dataset delete"} -> item.of \in datasets
    [] item.do = "rename" -> item.of \in datasets /\ item.to \notin datasets
    [] item.do = "nfs create" -> \E i \in Id : path[i] = None
    [] OTHER -> item.of \in Id /\ path[item.of] # None

Item(do, x) == [do |-> do, of |-> x]
Items(do, xs) == {Item(do, x) : x \in xs}

\* One for each spec, of the share chosen for it, which may be that of another.
ForEach(do, choices, to) ==
  {[do |-> do, for |-> p[1], of |-> p[2], to |-> to] : p \in choices}

\* One call of command c, and where the command goes from it.  A job that is
\* not awaited, or a call that is given up, is left to RunItem.
Call(c, items, next) ==
  \E e \in MaybeBulkApiCall(items) :
    /\ \A i \in e.now : Able(i)
    /\ IF e.now = {} THEN UNCHANGED <<datasets, path>> ELSE Do(CHOOSE i \in e.now : TRUE)
    /\ jobs' = [jobs EXCEPT ![c] = @ \cup e.later]
    /\ Goto(c, IF e.error THEN "failed" ELSE next)
    /\ UNCHANGED <<op, work>>

RunItem(c) ==
  \E item \in jobs[c] :
    /\ jobs' = [jobs EXCEPT ![c] = @ \ {item}]
    /\ \/ Able(item) /\ Do(item)
       \/ UNCHANGED <<datasets, path>>
    /\ UNCHANGED <<op, pc, work>>

Fail(c, where) == Goto(c, where) /\ UNCHANGED <<datasets, path, op, work, jobs>>

\* Session.Close waits for the jobs, or fails to, or one brings an error.
Close(c) ==
  /\ pc[c] = "close"
  /\ \/ jobs[c] = {} /\ Fail(c, "done")
     \/ Cardinality(op[c].specs) > 1 /\ Fail(c, "failed")

------------------------------------------------------------------------------
(* cmd/dataset.go                                                           *)

DatasetCreate(c) ==
  /\ Begins(c, "dataset create")
  /\ Call(c, Items("dataset create", op[c].specs), "close")

DatasetDelete(c) ==
  /\ Begins(c, "dataset delete")
  /\ \/ Call(c, Items("dataset delete", op[c].specs), "close")
     \/ op[c].create /\ Fail(c, "failed")   \* -r: the query for the timeout

\* Without --create, one missing object ends the command before any call.
Missing(c, found) == ~op[c].create /\ op[c].specs \ found # {}

\* Only with several specs or --create is there a query.
DatasetUpdate(c) ==
  /\ Begins(c, "dataset update")
  /\ LET specs == op[c].specs
         queried == Cardinality(specs) > 1 \/ op[c].create
         found == IF queried THEN specs \cap datasets ELSE specs
     IN  \/ /\ Missing(c, found)
            /\ Fail(c, "missing")
         \/ /\ ~Missing(c, found)
            /\ work' = [work EXCEPT ![c] = [update |-> found, create |-> specs \ found]]
            /\ Goto(c, IF found # {} THEN "dataset update" ELSE "dataset create")
            /\ UNCHANGED <<datasets, path, op, jobs>>
         \/ queried /\ Fail(c, "failed")

UpdateDatasets(c) ==
  /\ pc[c] = "dataset update"
  /\ Call(c, Items("dataset update", work[c].update),
          IF work[c].create # {} THEN "dataset create" ELSE "close")

CreateDatasets(c) ==
  /\ pc[c] = "dataset create"
  /\ Call(c, Items("dataset create", work[c].create), "close")

RenameDataset(c) ==
  /\ Begins(c, "dataset rename")
  /\ \E from \in op[c].specs :
       Call(c, {[do |-> "rename", of |-> from, to |-> op[c].to]},
            IF op[c].create THEN "lookup" ELSE "close")

\* Deviation of Lookup: the share is looked up by its new path.
LookupNew(c) == {i \in Id : path[i] = op[c].to}

Lookup(c) == {i \in Id : path[i] \in op[c].specs}

LeastOf(ids) == CHOOSE i \in ids : \A j \in ids : i <= j

\* LookupNfsIdByPath gives the share of the least number.
LookupNfsIdByPath(c) ==
  /\ pc[c] = "lookup"
  /\ \/ Lookup(c) = {} /\ Fail(c, "close")
     \/ Fail(c, "failed")
     \/ /\ Lookup(c) # {}
        /\ \E from \in op[c].specs :
             work' = [work EXCEPT ![c].update = {<<from, LeastOf(Lookup(c))>>}]
        /\ Goto(c, "move")
        /\ UNCHANGED <<datasets, path, op, jobs>>

MoveShare(c) ==
  /\ pc[c] = "move"
  /\ Call(c, ForEach("nfs update", work[c].update, op[c].to), "close")

------------------------------------------------------------------------------
(* cmd/nfs.go                                                               *)

\* Deviation of Named: any share answers to a path.
NamedAny(s) == {i \in Id : path[i] # None /\ (s \in Id => i = s)}

\* The shares that a spec stands for.
Named(s) == {i \in Id : path[i] # None /\ s \in {i, path[i]}}

\* For every spec one of its shares (the last in the order of a map), or None.
Picks(specs, Of(_)) ==
  {f \in [specs -> Id \cup {None}] :
     \A s \in specs : IF Of(s) = {} THEN f[s] = None ELSE f[s] \in Of(s)}

NfsCreate(c) ==
  /\ Begins(c, "nfs create")
  /\ Call(c, Items("nfs create", op[c].specs), "close")

\* A share that has the new properties already is not updated; --path is one of
\* them, but a share that is created gets the path it is named by.
NfsUpdate(c) ==
  /\ Begins(c, "nfs update")
  /\ LET specs == op[c].specs
         found == {s \in specs : Named(s) # {}}
         refused == Missing(c, found) \/ (specs \ found) \cap Id # {}
     IN  \/ refused /\ Fail(c, "missing")
         \/ /\ ~refused
            /\ \E picked \in Picks(found, Named), differ \in SUBSET found :
                 /\ \A s \in found : op[c].to \in {None, path[picked[s]]} \/ s \in differ
                 /\ work' = [work EXCEPT ![c] =
                      [update |-> {<<s, picked[s]>> : s \in differ}, create |-> specs \ found]]
            /\ Goto(c, "nfs update")
            /\ UNCHANGED <<datasets, path, op, jobs>>
         \/ Fail(c, "failed")

UpdateShares(c) ==
  /\ pc[c] = "nfs update"
  /\ LET next == IF work[c].create # {} THEN "nfs create" ELSE "close"
     IN  IF work[c].update # {}
         THEN Call(c, ForEach("nfs update", work[c].update, op[c].to), next)
         ELSE Fail(c, next)

CreateShares(c) ==
  /\ pc[c] = "nfs create"
  /\ Call(c, Items("nfs create", work[c].create), "close")

\* Numbers alone go out as they are.  Else the shares are looked up and filed
\* under their path, or else their number, one per spec; a spec that none is
\* filed under is a hole in the list, which the host refuses.
NfsDelete(c) ==
  /\ Begins(c, "nfs delete")
  /\ LET specs == op[c].specs
         Filed(s) == IF s \in Id THEN {i \in Named(s) : path[i] \notin specs} ELSE Named(s)
     IN  IF specs \subseteq Id
         THEN Call(c, Items("nfs delete", specs), "close")
         ELSE \/ /\ \E picked \in Picks(specs, Filed) :
                      work' = [work EXCEPT ![c].update = {<<s, picked[s]>> : s \in specs}]
                 /\ Goto(c, "nfs delete")
                 /\ UNCHANGED <<datasets, path, op, jobs>>
              \/ Fail(c, "failed")

DeleteShares(c) ==
  /\ pc[c] = "nfs delete"
  /\ Call(c, ForEach("nfs delete", work[c].update, None), "close")

Step(c) ==
  \/ RunItem(c) \/ Close(c)
  \/ DatasetCreate(c) \/ DatasetDelete(c) \/ DatasetUpdate(c)
  \/ UpdateDatasets(c) \/ CreateDatasets(c)
  \/ RenameDataset(c) \/ LookupNfsIdByPath(c) \/ MoveShare(c)
  \/ NfsCreate(c) \/ NfsUpdate(c) \/ UpdateShares(c) \/ CreateShares(c)
  \/ NfsDelete(c) \/ DeleteShares(c)

Next == \E c \in Command : Step(c)

Spec == Init /\ [][Next]_vars

------------------------------------------------------------------------------
(* Properties                                                               *)

\* What a command may do to a share: delete it if its number or path is among
\* the arguments, give it the path of `nfs update --path` likewise, or the new
\* name of its dataset.
Means(c, i, to) ==
  LET o == op[c]
  IN  \/ o.kind = "nfs delete" /\ o.specs \cap {i, path[i]} # {} /\ to = None
      \/ o.kind = "nfs update" /\ o.specs \cap {i, path[i]} # {} /\ to = o.to
      \/ o.kind = "dataset rename" /\ o.create /\ path[i] \in o.specs /\ to = o.to

\* While one command runs at a time, with what it left behind: a share that goes,
\* or gets another path, is one that a command at work means, though the lookup,
\* the choice of one share for each argument and the items of the job lie apart.
\* (A share that another command moves after the lookup goes all the same.)
OnlyNamedSharesGo ==
  [][\A i \in Id : path[i] # None /\ path'[i] # path[i] =>
       \E c \in Command : (pc[c] \notin Over \/ jobs[c] # {}) /\ Means(c, i, path'[i])]_vars

\* While one command runs at a time: a rename that was to update the shares, and
\* ends without an error, has taken along that of the dataset's shares which has
\* the least number, if the dataset had any.
ShareFollowsDataset ==
  [][\A c \in Command :
       /\ pc[c] = "close" /\ pc'[c] = "done" /\ op[c].kind = "dataset rename" /\ op[c].create
       => LET left == {i \in Id : path[i] \in op[c].specs}
          IN  left = {} \/ \E p \in work[c].update :
                           path[p[2]] = op[c].to /\ \A i \in left : p[2] < i]_vars

\* dataset.go:185, --update-shares "will update any shares as part of rename":
\* none is left behind.
SharesFollowDataset ==
  [][\A c \in Command :
       /\ pc[c] = "close" /\ pc'[c] = "done" /\ op[c].kind = "dataset rename" /\ op[c].create
       => \A i \in Id : path[i] \notin op[c].specs]_vars
==============================================================================
