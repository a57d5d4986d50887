---------------------------- MODULE IscsiCreate ------------------------------
(***************************************************************************)
(* cmd/iscsi.go: iscsi create, which shares volumes by finding or making a *)
(* portal, an initiator, targets, extents and associations, one API call   *)
(* after another, and deletes the targets and extents it has made when a   *)
(* later call fails.  Two and more items of a kind go out as one core.bulk *)
(* job, whose items succeed and fail each for itself.  A call that times   *)
(* out or loses its connection fails for the command and may be done by    *)
(* the host at any later time, or never.                                   *)
(*                                                                         *)
(* The host (external) keeps the names of targets and extents unique, and  *)
(* an association goes with its target or extent.                          *)
(***************************************************************************)
EXTENDS Naturals, FiniteSets

CONSTANTS
  User,        (* Each gives one command.                                   *)
  Args,        (* The volumes each command is given.                        *)
  NameOf,      (* MaybeHashIscsiNameFromVolumePath, by volume.              *)
  None,
  MaxActive,   (* Bound: commands at the same time.                         *)
  CanFail      (* API calls may fail, as a whole or in single items.        *)

IscsiCreateAssumption ==
  /\ \A c \in User : Args[c] \subseteq DOMAIN NameOf
  /\ None \notin User \cup DOMAIN NameOf
  /\ \A c \in User : IsFiniteSet(Args[c])
  /\ MaxActive \in Nat /\ CanFail \in BOOLEAN

Vols == DOMAIN NameOf
Name == {NameOf[v] : v \in Vols}
Kind == {"target", "extent"}
Nobody == [vol |-> None, by |-> None]

VARIABLES
  has,         (* the target and the extent of every name: whose, by whom   *)
  assoc,       (* names whose target and extent are associated              *)
  portals, initiators,
  late,        (* what calls that were given up on may still do             *)
  stage,       (* where each command is                                     *)
  known,       (* targets and extents a command has found or made, by volume *)
  made,        (* those it has recorded in changes                          *)
  lost         (* kinds of which it cannot tell what a call of its has done *)

vars == <<has, assoc, portals, initiators, late, stage, known, made, lost>>

Empty == [k \in Kind |-> {}]

Init ==
  /\ \E old \in SUBSET Vols, half \in SUBSET Vols :
       /\ has = [k \in Kind |-> [n \in Name |->
            LET vs == {v \in IF k = "target" THEN old ELSE old \cap half : NameOf[v] = n}
            IN  IF vs = {} THEN Nobody ELSE [vol |-> CHOOSE v \in vs : TRUE, by |-> None]]]
       /\ half \subseteq old
  /\ assoc \in SUBSET {n \in Name : has["extent"][n].vol # None}
  /\ portals \in {0, 1} /\ initiators \in {0, 1}
  /\ late = {}
  /\ stage = [c \in User |-> "idle"]
  /\ known = [c \in User |-> Empty]
  /\ made = [c \in User |-> Empty]
  /\ lost = [c \in User |-> {}]

Over == {"done", "failed", "refused"}
Goto(c, where) == stage' = [stage EXCEPT ![c] = where]
Shared == <<has, assoc, portals, initiators>>

\* The targets, or the extents, on the host for the volumes of the command.
Present(c, kind) == {v \in Args[c] : has[kind][NameOf[v]].vol = v}

\* Two arguments of one name; then iscsi.target.query by alias.
Begin(c) ==
  /\ stage[c] = "idle"
  /\ Cardinality({d \in User : stage[d] \notin Over \cup {"idle"}}) < MaxActive
  /\ IF \E v, w \in Args[c] : v # w /\ NameOf[v] = NameOf[w]
     THEN Goto(c, "refused") /\ UNCHANGED known
     ELSE Goto(c, "portal") /\ known' = [known EXCEPT ![c]["target"] = Present(c, "target")]
  /\ UNCHANGED <<Shared, late, made, lost>>

\* The names to associate; see Associate.
Paired(c) == {NameOf[v] : v \in known[c]["target"] \cap known[c]["extent"]}

\* What the call of a command in this stage may still do once it is given up
\* on; an association names its target and extent by their ids.
MayStill(c) ==
  CASE stage[c] = "makePortal"    -> {[do |-> "portal", by |-> c]}
    [] stage[c] = "makeInitiator" -> {[do |-> "initiator", by |-> c]}
    [] stage[c] = "associate"     ->
         {[do |-> "associate", name |-> n, ids |-> [k \in Kind |-> has[k][n]]] :
            n \in Paired(c) \ assoc}
    [] OTHER                      -> {}

\* Any query, update or wait that fails, and any call but those of Create and
\* Undo that times out or loses its connection.
ApiError(c) ==
  /\ CanFail
  /\ stage[c] \in {"portal", "makePortal", "initiator", "makeInitiator", "update",
                "awaitUpdate", "queryExtents", "associate"}
  /\ Goto(c, "undoTargets")
  /\ late' \in {late, late \cup MayStill(c)}
  /\ UNCHANGED <<Shared, known, made, lost>>

------------------------------------------------------------------------------
(* LookupPortalIdOrCreate, LookupInitiatorOrCreateBlank *)

LookupPortal(c) ==
  /\ stage[c] = "portal"
  /\ Goto(c, IF portals > 0 THEN "initiator" ELSE "makePortal")
  /\ UNCHANGED <<Shared, late, known, made, lost>>

\* The host refuses a second portal for the same address.
CreatePortal(c) ==
  /\ stage[c] = "makePortal"
  /\ IF portals > 0 THEN Goto(c, "undoTargets") /\ UNCHANGED portals
                    ELSE Goto(c, "initiator") /\ portals' = 1
  /\ UNCHANGED <<has, assoc, initiators, late, known, made, lost>>

LookupInitiator(c) ==
  /\ stage[c] = "initiator"
  /\ Goto(c, IF initiators > 0 THEN "update" ELSE "makeInitiator")
  /\ UNCHANGED <<Shared, late, known, made, lost>>

CreateInitiator(c) ==
  /\ stage[c] = "makeInitiator"
  /\ initiators' = initiators + 1
  /\ Goto(c, "update")
  /\ UNCHANGED <<has, assoc, portals, late, known, made, lost>>

\* One update is a call; of several, the job is awaited after the creation.
UpdateTargets(c) ==
  /\ stage[c] = "update"
  /\ Goto(c, "makeTargets")
  /\ UNCHANGED <<Shared, late, known, made, lost>>

------------------------------------------------------------------------------
(* MaybeBulkApiCallArray: iscsi.target.create, iscsi.extent.create *)

Put(c, kind, vols) ==
  has' = [has EXCEPT ![kind] = [n \in Name |->
    IF \E v \in vols : NameOf[v] = n
    THEN [vol |-> CHOOSE v \in vols : NameOf[v] = n, by |-> c] ELSE has[kind][n]]]

Free(kind, vols) == {v \in vols : has[kind][NameOf[v]] = Nobody}

\* Deviation of Record: what was made of extents is not recorded.
RecordTargets(c, kind, vols) ==
  made' = IF kind = "target" THEN [made EXCEPT ![c][kind] = vols] ELSE made

\* changes = append(changes, ...)
Record(c, kind, vols) == made' = [made EXCEPT ![c][kind] = vols]

\* A call or a job nobody knows the outcome of any more.
Late(c, kind, vols) ==
  /\ late' = late \cup {[do |-> "make", kind |-> kind, vol |-> v, by |-> c] : v \in vols}
  /\ lost' = IF vols = {} THEN lost ELSE [lost EXCEPT ![c] = @ \cup {kind}]
  /\ Goto(c, "undoTargets")
  /\ UNCHANGED <<has, known, made>>

\* A single call: done, refused, or unanswered.
CreateOne(c, kind, v, next) ==
  \/ /\ Free(kind, {v}) = {v}
     /\ Put(c, kind, {v})
     /\ Record(c, kind, {v})
     /\ known' = [known EXCEPT ![c][kind] = @ \cup {v}]
     /\ Goto(c, next)
     /\ UNCHANGED <<late, lost>>
  \/ /\ CanFail \/ Free(kind, {v}) = {}
     /\ Goto(c, "undoTargets")
     /\ UNCHANGED <<has, late, known, made, lost>>
  \/ CanFail /\ Late(c, kind, {v})

\* A core.bulk job.  Its results are those of its items, each in an object of
\* its own without an id or a volume: they are neither found again nor undone,
\* and the errors are not looked at.  Or it never comes about, or the wait for
\* it fails.
CreateBulk(c, kind, todo, next) ==
  \E vols \in SUBSET Free(kind, todo) :
    \/ /\ ~CanFail => vols = Free(kind, todo)
       /\ Put(c, kind, vols)
       /\ lost' = IF vols = {} THEN lost ELSE [lost EXCEPT ![c] = @ \cup {kind}]
       /\ Goto(c, next)
       /\ UNCHANGED <<late, known, made>>
    \/ CanFail /\ Late(c, kind, vols)

Create(c, kind, todo, next) ==
  \/ todo = {} /\ Goto(c, next) /\ UNCHANGED <<has, late, known, made, lost>>
  \/ \E v \in todo : todo = {v} /\ CreateOne(c, kind, v, next)
  \/ Cardinality(todo) > 1 /\ CreateBulk(c, kind, todo, next)

CreateTargets(c) ==
  /\ stage[c] = "makeTargets"
  /\ Create(c, "target", Args[c] \ known[c]["target"], "awaitUpdate")
  /\ UNCHANGED <<assoc, portals, initiators>>

AwaitUpdate(c) ==
  /\ stage[c] = "awaitUpdate"
  /\ Goto(c, "queryExtents")
  /\ UNCHANGED <<Shared, late, known, made, lost>>

QueryExtents(c) ==
  /\ stage[c] = "queryExtents"
  /\ known' = [known EXCEPT ![c]["extent"] = Present(c, "extent")]
  /\ Goto(c, "makeExtents")
  /\ UNCHANGED <<Shared, late, made, lost>>

CreateExtents(c) ==
  /\ stage[c] = "makeExtents"
  /\ Create(c, "extent", Args[c] \ known[c]["extent"], "associate")
  /\ UNCHANGED <<assoc, portals, initiators>>

\* Deviation of ToAssociate: only targets that were made now are associated.
ToAssociateNew(c) ==
  {NameOf[v] : v \in made[c]["target"] \cap known[c]["extent"]} \ assoc

\* teCreateMap, less the associations there are
ToAssociate(c) == Paired(c) \ assoc

Whole(n) == has["target"][n].vol # None /\ has["target"][n].vol = has["extent"][n].vol

\* iscsi.targetextent.query and create: again one call, or items.
Associate(c) ==
  /\ stage[c] = "associate"
  /\ LET todo == ToAssociate(c)
         able == {n \in todo : Whole(n)}
     IN  \/ \E names \in SUBSET able :
              /\ Cardinality(todo) <= 1 => names = todo
              /\ ~CanFail => names = able
              /\ assoc' = assoc \cup names
              /\ Goto(c, "done")
              /\ made' = [made EXCEPT ![c] = Empty]
         \/ /\ Cardinality(todo) = 1 /\ (CanFail \/ able = {})
            /\ Goto(c, "undoTargets")
            /\ UNCHANGED <<assoc, made>>
  /\ UNCHANGED <<has, portals, initiators, late, known, lost>>

------------------------------------------------------------------------------
(* undoIscsiCreateList, deferred *)

\* The deletion of what a command has made, by id.
Remove(c, kind, vols) ==
  LET names == {n \in Name : has[kind][n].by = c /\ has[kind][n].vol \in vols}
  IN  /\ has' = [has EXCEPT ![kind] = [n \in Name |->
           IF n \in names THEN Nobody ELSE has[kind][n]]]
      /\ assoc' = assoc \ names

\* Only what a single call has made has an id, so this is a single call as
\* well; how it went is not looked at.
Undo(c, kind, next) ==
  /\ \/ Remove(c, kind, made[c][kind]) /\ UNCHANGED <<late, lost>>
     \/ /\ CanFail /\ made[c][kind] # {}
        /\ late' \in {late, late \cup {[do |-> "delete", kind |-> kind, vol |-> v, by |-> c] :
                                         v \in made[c][kind]}}
        /\ lost' = [lost EXCEPT ![c] = @ \cup {kind}]
        /\ UNCHANGED <<has, assoc>>
  /\ Goto(c, next)
  /\ UNCHANGED <<portals, initiators, known, made>>

UndoTargets(c) == stage[c] = "undoTargets" /\ Undo(c, "target", "undoExtents")
UndoExtents(c) == stage[c] = "undoExtents" /\ Undo(c, "extent", "failed")

------------------------------------------------------------------------------
(* The host does what a call has asked for that was given up on.            *)

LateMake(e) ==
  /\ e.do = "make" /\ Free(e.kind, {e.vol}) # {}
  /\ Put(e.by, e.kind, {e.vol})
  /\ UNCHANGED <<assoc, portals, initiators>>

LateDelete(e) ==
  /\ e.do = "delete"
  /\ Remove(e.by, e.kind, {e.vol})
  /\ UNCHANGED <<portals, initiators>>

LateAssociate(e) ==
  /\ e.do = "associate" /\ \A k \in Kind : has[k][e.name] = e.ids[k]
  /\ Whole(e.name)
  /\ assoc' = assoc \cup {e.name}
  /\ UNCHANGED <<has, portals, initiators>>

LatePortal(e) ==
  /\ e.do = "portal" /\ portals = 0
  /\ portals' = 1
  /\ UNCHANGED <<has, assoc, initiators>>

LateInitiator(e) ==
  /\ e.do = "initiator"
  /\ initiators' = initiators + 1
  /\ UNCHANGED <<has, assoc, portals>>

LateEffect ==
  \E e \in late :
    /\ LateMake(e) \/ LateDelete(e) \/ LateAssociate(e) \/ LatePortal(e) \/ LateInitiator(e)
    /\ late' = late \ {e}
    /\ UNCHANGED <<stage, known, made, lost>>

Step(c) ==
  \/ Begin(c) \/ ApiError(c)
  \/ LookupPortal(c) \/ CreatePortal(c) \/ LookupInitiator(c) \/ CreateInitiator(c)
  \/ UpdateTargets(c) \/ CreateTargets(c) \/ AwaitUpdate(c)
  \/ QueryExtents(c) \/ CreateExtents(c) \/ Associate(c)
  \/ UndoTargets(c) \/ UndoExtents(c)

Next == LateEffect \/ \E c \in User : Step(c)

Spec == Init /\ [][Next]_vars

------------------------------------------------------------------------------
(* Properties                                                               *)

\* A command that fails has taken back every target it has made, unless it was
\* left without an answer, or an usable one, by a call that makes or deletes
\* targets; and likewise every extent.
FailureLeavesNothing ==
  \A c \in User : stage[c] = "failed" =>
    \A k \in Kind \ lost[c], n \in Name : has[k][n].by # c

\* An earlier command did not get to know that a volume's share is taken back.
InDoubt(v) == \E c \in User, k \in Kind : k \in lost[c] /\ v \in made[c][k]

\* A command for one volume that runs alone and ends without an error has
\* shared it, whatever part of the share there was before, unless a deletion
\* by an earlier command is still to come, or has come meanwhile.
SingleCreateIsWhole ==
  \A c \in User : stage[c] = "done" /\ Cardinality(Args[c]) = 1 =>
    \A v \in Args[c] : InDoubt(v) \/ (Whole(NameOf[v]) /\ NameOf[v] \in assoc)
==============================================================================
