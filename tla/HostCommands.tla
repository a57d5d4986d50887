---------------------------- MODULE HostCommands -----------------------------
(***************************************************************************)
(* The commands that work on the host alone.  The parts have no state in   *)
(* common but the datasets, so a behaviour here is one of a single part:   *)
(*   "shares"     datasets and NFS shares                                  *)
(*   "snapshots"  snapshots                                                *)
(*   "list"       the listings                                             *)
(*   "crud"       iSCSI objects of a category                              *)
(* In all of them a core.bulk job runs while its own command goes on, and  *)
(* what a command leaves undone may still be done after it has ended.      *)
(***************************************************************************)
EXTENDS Shares

CONSTANTS
  Name, Below, SnapshotOps, SnapshotsActive,              (* of Snapshots   *)
  Object, Under, Alike, PoolOf, ListArgs, MaxArgs,        (* of Listing     *)
  Key, Identifier, Required, Stock, Link, Crud            (* of IscsiCrud   *)

VARIABLES part, snaps, dropped, command, args, types, recursive, queries, shown, at,
          objects, order, phase, picked, queue, rows

T == INSTANCE Snapshots WITH Ops <- SnapshotOps, MaxActive <- SnapshotsActive
L == INSTANCE Listing WITH Args <- ListArgs
K == INSTANCE IscsiCrud

ASSUME HostCommandsAssumption ==
  T!SnapshotsAssumption /\ K!IscsiCrudAssumption /\ L!ListingAssumption

datasetvars == <<datasets, op, pc, jobs>>
sharevars == <<path, work>>
snapshotvars == <<snaps, dropped>>
listvars == <<command, args, types, recursive, queries, shown, at>>
crudvars == <<objects, order, phase, picked, queue, rows>>

\* What the other parts' variables are in a part that has no use for them.
NoDatasets ==
  datasets = {} /\ op = {} /\ pc = [c \in Command |-> "start"] /\ jobs = {}
NoShares == path = [i \in Id |-> None] /\ work = {}
NoSnapshots == snaps = {} /\ dropped = {}
NoList ==
  /\ command = "none" /\ args = {} /\ types = {} /\ recursive = FALSE /\ queries = <<>>
  /\ shown = {} /\ at = "none"
NoCrud ==
  /\ objects = [k \in Key |-> None] /\ order = {} /\ picked = {} /\ queue = {}
  /\ phase = [c \in Command |-> "idle"] /\ rows = <<>>

PartsInit ==
  \/ part = "shares" /\ Init /\ NoSnapshots /\ NoList /\ NoCrud
  \/ part = "snapshots" /\ T!Init /\ NoShares /\ NoList /\ NoCrud
  \/ part = "list" /\ L!Init /\ NoDatasets /\ NoShares /\ NoSnapshots /\ NoCrud
  \/ part = "crud" /\ K!Init /\ NoDatasets /\ NoShares /\ NoSnapshots /\ NoList

PartsNext ==
  \/ part = "shares" /\ Next /\ UNCHANGED <<part, snapshotvars, listvars, crudvars>>
  \/ part = "snapshots" /\ T!Next /\ UNCHANGED <<part, sharevars, listvars, crudvars>>
  \/ /\ part = "list" /\ L!Next
     /\ UNCHANGED <<part, datasetvars, sharevars, snapshotvars, crudvars>>
  \/ /\ part = "crud" /\ K!Next
     /\ UNCHANGED <<part, datasetvars, sharevars, snapshotvars, listvars>>

PartsSpec ==
  PartsInit
  /\ [][PartsNext]_<<part, datasetvars, sharevars, snapshotvars, listvars, crudvars>>

\* No deletion of create --delete is still to come once the creation has been
\* asked for, or it would take the new snapshots; one that ended with an error,
\* which the code drops, may be.
ReplacedBeforeCreated == part = "snapshots" => T!ReplacedBeforeCreated

\* A listing that succeeds shows the objects of the types asked for that an
\* argument names, or all of them without arguments, and no other; that of the
\* associations, which is joined from three queries, those with such an end.
ListShowsWhatIsAsked ==
  [](part = "list" => L!ListShowsWhatIsAsked) /\ K!JoinShowsEitherEnd

\* While one command runs at a time: an iSCSI object that is changed or deleted
\* is one that the command's arguments mean.
ChangesWhatIsMeant == K!ChangesWhatIsMeant

\* iscsi_crud.go:170, "Delete one or more" of a category "by id": what goes has
\* its id on the command line.
DeletesById == K!DeletesById
==============================================================================
