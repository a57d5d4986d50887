------------------------------ MODULE Listing --------------------------------
(***************************************************************************)
(* cmd/list.go, and the list commands of cmd/dataset.go, cmd/nfs.go and    *)
(* cmd/snapshot.go, on QueryApi of cmd/util_common.go: how the arguments   *)
(* become queries by category, and the answers one listing.                *)
(*                                                                         *)
(* An argument has the type IdentifyObject gives it, from what it looks    *)
(* like.  The host, which is external, applies a filter to all its objects *)
(* and adds the children of datasets where it is told to.                  *)
(***************************************************************************)
EXTENDS Naturals, FiniteSets

CONSTANTS
  Object,    (* The host's objects: category, type, id, what they are of,   *)
             (* name.                                                       *)
  Under,     (* The datasets under a dataset.                               *)
  Alike,     (* Datasets whose names begin with that of a dataset.          *)
  PoolOf,    (* The pool of a dataset.                                      *)
  Args,      (* Bound: the arguments a command may have: type, of, name.    *)
  MaxArgs    (* Bound: how many it has.                                     *)

\* What of an object matters here fits together: its type is one of its category,
\* and what is below a dataset is in its pool, and never without it.
ListingAssumption ==
  /\ \A o \in Object :
       /\ <<o.category, o.type>> \in
            {<<"dataset", "fs">>, <<"dataset", "vol">>, <<"snapshot", "snap">>, <<"nfs", "nfs">>}
       /\ o.category = "dataset" => \A d \in DOMAIN Under : o.of \in Under[d] =>
            /\ PoolOf[o.of] = PoolOf[d]
            /\ \E p \in Object : p.category = "dataset" /\ p.of = d
       /\ o.of \in DOMAIN Under
  /\ \A a \in Args :
       /\ a.type \in {"pool", "dataset", "snapshot", "snapshot_only", "id", "share"}
       /\ a.type = "dataset" => a.of \in DOMAIN Under

VARIABLES
  command,   (* "list", or the category of a list command of its own        *)
  args, types, recursive,
  queries,   (* categories still to query, with the entries for each        *)
  shown, at

vars == <<command, args, types, recursive, queries, shown, at>>

Categories == {"dataset", "snapshot", "nfs"}

Init ==
  /\ command \in {"list"} \cup Categories
  /\ args \in {a \in SUBSET Args : Cardinality(a) <= MaxArgs}
  /\ types \in IF command = "list" THEN SUBSET {"fs", "vol", "snap", "nfs"} ELSE {{}}
  /\ recursive \in BOOLEAN
  /\ queries = <<>> /\ shown = {} /\ at = "plan"

Without(q, c) == [k \in DOMAIN q \ {c} |-> q[k]]
With(q, c, entries) == [k \in DOMAIN q \cup {c} |-> IF k = c THEN entries ELSE q[k]]

------------------------------------------------------------------------------
(* doList: entries by category                                              *)

Category(a) ==
  CASE a.type \in {"id", "share"} -> "nfs"
    [] a.type \in {"snapshot", "snapshot_only"} -> "snapshot"
    [] OTHER -> a.type

\* Without --types, what is asked for follows from the arguments.
Deduced == types = {} /\ args # {}
Wanted == IF types = {} THEN {"fs", "vol"} ELSE types
Queried(c) ==
  \/ Deduced
  \/ c = "dataset" /\ Wanted \cap {"fs", "vol"} # {}
  \/ c = "snapshot" /\ "snap" \in Wanted
  \/ c = "nfs" /\ "nfs" \in Wanted

addEntriesFromInto(q, from, to) ==
  IF from \in DOMAIN q \/ (to \notin DOMAIN q /\ args = {})
  THEN LET of(c) == IF c \in DOMAIN q THEN q[c] ELSE {}
       IN  With(q, to, of(to) \cup of(from))
  ELSE q

\* Datasets are added to snapshots before pools are added to datasets.
ListEntries ==
  LET given == [c \in {Category(a) : a \in args} |-> {a \in args : Category(a) = c}]
      snaps == IF Queried("snapshot")
               THEN addEntriesFromInto(addEntriesFromInto(given, "dataset", "snapshot"),
                                       "pool", "snapshot")
               ELSE Without(given, "snapshot")
      sets == IF Queried("dataset") THEN addEntriesFromInto(snaps, "pool", "dataset")
              ELSE Without(snaps, "dataset")
      all == IF ~Queried("nfs") THEN Without(sets, "nfs")
             ELSE IF args = {} THEN With(sets, "nfs", {}) ELSE sets
  IN  Without(all, "pool")

\* getDatasetListTypes, getNfsListTypes, getSnapshotListTypes
Accepted(c) ==
  CASE c = "dataset" -> {"dataset", "pool"}
    [] c = "nfs" -> {"id", "share", "dataset", "snapshot", "pool"}
    [] c = "snapshot" -> {"snapshot", "snapshot_only", "dataset", "pool"}

\* A type that is not accepted, or nothing to query, ends the command.
Plan ==
  /\ at = "plan"
  /\ LET accepted == command = "list" \/ \A a \in args : a.type \in Accepted(command)
         entries == IF command = "list" THEN ListEntries ELSE [c \in {command} |-> args]
     IN  IF accepted /\ DOMAIN entries # {}
         THEN queries' = entries /\ at' = "query"
         ELSE at' = "refused" /\ UNCHANGED queries
  /\ UNCHANGED <<command, args, types, recursive, shown>>

------------------------------------------------------------------------------
(* QueryApi                                                                 *)

shouldRecurse == args = {} \/ recursive

\* Deviation of Paths: the prefix is the path itself, without a slash.
PathsAlike(d) == {d} \cup Under[d] \cup Alike[d]

\* makeRecursivePathsFilterList: a dataset, or what begins with it and a slash.
Paths(d) == {d} \cup Under[d]

\* makeIndividualFilter: the attribute and the values an entry stands for.
\* No share has a pool to be found by.
Clause(c, e, o) ==
  CASE e.type = "pool" -> c # "nfs" /\ PoolOf[o.of] = e.of
    [] e.type = "dataset" /\ c = "snapshot" /\ shouldRecurse -> o.of \in Paths(e.of)
    [] e.type = "snapshot_only" -> o.name = e.name
    [] e.type = "snapshot" /\ c = "snapshot" -> <<o.of, o.name>> = <<e.of, e.name>>
    [] e.type = "id" -> o.id = e.of
    [] OTHER -> o.of = e.of

\* The OR chain over the entries; without any, the filter is empty.
Answer(c, entries) ==
  LET found == {o \in Object : o.category = c /\
                  (entries = {} \/ \E e \in entries : Clause(c, e, o))}
  IN  IF c = "dataset" /\ shouldRecurse
      THEN found \cup {o \in Object : o.category = c /\ \E d \in found : o.of \in Under[d.of]}
      ELSE found

\* With only filesystems or only volumes asked for, the others are left out.
Kept(c, o) ==
  command = "list" /\ c = "dataset" /\ Cardinality({"fs", "vol"} \cap Wanted) = 1
    => o.type \in Wanted

\* The categories in order of their names, into one response by id.
Query ==
  /\ at = "query" /\ DOMAIN queries # {}
  /\ LET c == CHOOSE c \in DOMAIN queries : \A d \in DOMAIN queries :
                c = "dataset" \/ d = c \/ (c = "nfs" /\ d = "snapshot")
     IN  \/ /\ shown' = shown \cup {o \in Answer(c, queries[c]) : Kept(c, o)}
            /\ queries' = Without(queries, c)
            /\ UNCHANGED at
         \/ at' = "failed" /\ UNCHANGED <<shown, queries>>
  /\ UNCHANGED <<command, args, types, recursive>>

ShowTable ==
  /\ at = "query" /\ DOMAIN queries = {}
  /\ at' = "done"
  /\ UNCHANGED <<command, args, types, recursive, queries, shown>>

Next == Plan \/ Query \/ ShowTable

Spec == Init /\ [][Next]_vars

------------------------------------------------------------------------------
(* Properties                                                               *)

\* What an argument names: a pool all that is in it, a dataset itself and its
\* snapshots, with -r those under it too, anything else the one object; for
\* nfs list a dataset or a snapshot the shares of its path.
Names(a, o) ==
  CASE a.type = "pool" -> o.category # "nfs" /\ PoolOf[o.of] = a.of
    [] a.type = "dataset" ->
         IF o.category = "nfs" THEN command = "nfs" /\ o.of = a.of
         ELSE o.of = a.of \/ (recursive /\ o.of \in Under[a.of])
    [] a.type = "snapshot" ->
         IF command = "nfs" THEN o.of = a.of
         ELSE o.category = "snapshot" /\ <<o.of, o.name>> = <<a.of, a.name>>
    [] a.type = "snapshot_only" -> o.category = "snapshot" /\ o.name = a.name
    [] a.type = "id" -> o.category = "nfs" /\ o.id = a.of
    [] a.type = "share" -> o.category = "nfs" /\ o.of = a.of

\* A listing that succeeds shows the objects of the types asked for that one
\* of the arguments names, or all of them if there is none, and no other: what
\* three queries with their filters, added entries and children come to.
ListShowsWhatIsAsked ==
  at = "done" =>
    shown = {o \in Object :
      /\ IF command = "list" THEN Deduced \/ o.type \in Wanted ELSE o.category = command
      /\ args = {} \/ \E a \in args : Names(a, o)}
==============================================================================
