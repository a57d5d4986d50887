--------------------------- MODULE MCHostCommands ----------------------------
(***************************************************************************)
(* The operations, arguments and objects the commands are given: shares    *)
(* and iSCSI objects one command after the other, snapshots two at a time, *)
(* listings of a host with five datasets.                                  *)
(***************************************************************************)
EXTENDS HostCommands, TLC

CONSTANTS c1, c2, d1, d2, d3, n1, n2

(* Two NFS shares of the datasets d1, d2 and d3. *)

Ids == {1, 2}
Datasets == {d1, d2, d3}
SnapshotNames == {n1, n2}

ShareOps ==
  {Op("dataset create", {d1, d2}, FALSE), Op("dataset create", {d3}, FALSE),
   Op("dataset delete", {d1}, TRUE), Op("dataset delete", {d1, d3}, FALSE),
   Op("dataset update", {d1}, FALSE), Op("dataset update", {d1, d2}, FALSE),
   Op("dataset update", {d1, d2}, TRUE),
   Rename(d1, d3, TRUE), Rename(d2, d3, FALSE),
   Op("nfs create", {d1}, FALSE), Op("nfs update", {d1, d2}, TRUE),
   Op("nfs update", {d1, 2}, FALSE), Move({d1, 2}, d2, FALSE), Move({d1, d2}, d3, TRUE),
   Op("nfs delete", {1}, FALSE),
   Op("nfs delete", {d1, 1}, FALSE)}

(* For the snapshots d2 is below d1, and d3 beside it. *)

Children == (d1 :> {d2}) @@ (d2 :> {}) @@ (d3 :> {})

Basic(kind, specs, deep) == [kind |-> kind, specs |-> specs, recursive |-> deep]
Create(specs, deep, replace) ==
  [kind |-> "create", specs |-> specs, recursive |-> deep, replace |-> replace]
To(kind, from, to) == [kind |-> kind, specs |-> {from}, to |-> to, recursive |-> FALSE]

AllSnapshotOps ==
  {Create({<<d1, n1>>, <<d3, n1>>}, FALSE, TRUE), Create({<<d1, n1>>, <<d1, None>>}, FALSE, TRUE),
   Create({<<d1, n2>>}, TRUE, FALSE), Create({<<d2, n1>>}, FALSE, TRUE),
   Basic("delete", {<<d1, n1>>, <<d2, n2>>}, FALSE), Basic("delete", {<<d1, n2>>}, TRUE),
   Basic("delete", {<<None, n1>>, <<d2, n2>>}, FALSE), Basic("delete", {<<d1, None>>}, FALSE),
   Basic("rollback", {<<d1, n1>>}, TRUE), Basic("rollback", {<<d3, n2>>}, FALSE),
   To("rename", <<d1, n1>>, <<d3, n2>>), To("rename", <<d1, n1>>, <<None, n2>>),
   To("clone", <<d1, n2>>, d3)}

(* The name "p/ab" begins with "p/a", but it is not below it. *)

Thing(category, type, id, of, name) ==
  [category |-> category, type |-> type, id |-> id, of |-> of, name |-> name]

Things ==
  {Thing("dataset", "fs", d, d, "") : d \in {"p", "p/a", "p/ab", "q"}}
  \cup {Thing("dataset", "vol", "p/a/v", "p/a/v", "")}
  \cup {Thing("snapshot", "snap", <<d, "s">>, d, "s") : d \in {"p/a", "p/a/v"}}
  \cup {Thing("snapshot", "snap", <<"p/ab", "t">>, "p/ab", "t"),
        Thing("nfs", "nfs", "1", "p/a", ""), Thing("nfs", "nfs", "2", "q", "")}

Trees == ("p" :> {"p/a", "p/a/v", "p/ab"}) @@ ("p/a" :> {"p/a/v"})
         @@ [d \in {"p/a/v", "p/ab", "q"} |-> {}]
Prefixes == ("p/a" :> {"p/ab"}) @@ [d \in {"p", "p/a/v", "p/ab", "q"} |-> {}]
Pools == ("q" :> "q") @@ [d \in {"p", "p/a", "p/a/v", "p/ab"} |-> "p"]

Arg(type, of, name) == [type |-> type, of |-> of, name |-> name]
AllArgs ==
  {Arg("pool", "p", ""), Arg("dataset", "p/a", ""), Arg("dataset", "p/a/v", ""),
   Arg("snapshot", "p/a", "s"), Arg("snapshot_only", "", "s"), Arg("id", "2", ""),
   Arg("share", "p/a", "")}

(* Objects with a name and a comment: the name of one is the id of another. *)

Keys == {"1", "2", "3"}
Identifiers == {"name", "comment"}
RequiredOnes == {"name"}
Labels(n, comment) == ("name" :> n) @@ ("comment" :> comment)
Stocks == {("1" :> Labels("a", "x")) @@ ("2" :> Labels("1", y)) @@ ("3" :> last) :
             y \in {"x", "y"}, last \in {None, Labels("b", "x")}}
Links == (1 :> [target |-> "1", extent |-> "2"]) @@ (2 :> [target |-> "1", extent |-> "3"])
         @@ (3 :> [target |-> "3", extent |-> "2"])
CrudOps ==
  {[kind |-> k, args |-> a] : k \in {"delete", "join"}, a \in {{}, {"1"}, {"a", "y"}, {"2", "3"}}}
  \cup {[kind |-> "create", attrs |-> as] : as \in {Labels("c", "x"), "comment" :> "y"}}
  \cup {[kind |-> "update", id |-> i, attrs |-> ("mode" :> "m") @@ as] :
          i \in {None, "2"}, as \in {Labels("a", "x"), "comment" :> "x", "name" :> "1", <<>>}}
==============================================================================
