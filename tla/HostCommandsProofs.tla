------------------------- MODULE HostCommandsProofs --------------------------
(***************************************************************************)
(* What is proved of the commands that work on the host alone, for any     *)
(* number of commands, datasets, shares and snapshots: snapshot create     *)
(* --delete creates when its deletion is over or has failed; while one     *)
(* command runs at a time, a share changes only for a command that means   *)
(* it, and a rename takes the dataset's least share along; an iSCSI object *)
(* is changed only by a command that means it; and the listings show what  *)
(* is asked for.                                                           *)
(***************************************************************************)
EXTENDS HostCommands, FiniteSetTheorems, WellFoundedInduction, TLAPS

partsvars == <<part, datasetvars, sharevars, snapshotvars, listvars, crudvars>>

------------------------------------------------------------------------------
(* Calls                                                                    *)

LEMMA NoneIsNotOne == \A S : S = {} => Cardinality(S) # 1
<1>1. Cardinality({}) # 1
  BY FS_EmptySet
<1>2. QED
  BY <1>1

\* How a call can end: of one object it is known to be done, or there is an error;
\* several are left to a job.
LEMMA BulkWays ==
  ASSUME NEW items, NEW e \in MaybeBulkApiCall(items)
  PROVE  /\ e.now \subseteq items /\ e.later \subseteq items
         /\ e.now = {} \/ e.now = items
         /\ Cardinality(items) = 1 /\ ~e.error => e.later = {} /\ e.now = items
<1> USE DEF MaybeBulkApiCall, CallOne, Accepted, Lost, Unreachable, Ending
<1>1. CASE items = {} /\ Cardinality(items) = 1
  BY <1>1, NoneIsNotOne
<1>2. CASE items = {} /\ Cardinality(items) # 1
  BY <1>2
<1>3. CASE items # {} /\ Cardinality(items) = 1
  BY <1>3
<1>4. CASE items # {} /\ Cardinality(items) # 1
  BY <1>4
<1>5. QED
  BY <1>1, <1>2, <1>3, <1>4

------------------------------------------------------------------------------
(* Snapshots                                                                *)

SnapshotKinds == {"create", "delete", "rollback", "rename", "clone"}

\* A command begins with nothing outstanding, and the deletion of create --delete
\* is over, or dropped, before anything else of it is asked for.
Replacing(c) ==
  /\ pc[c] = "close" => op[c].kind \in SnapshotKinds
  /\ pc[c] = "start" => jobs[c] = {}
  /\ pc[c] = "deleting" => op[c].kind = "create"
  /\ op[c].kind = "create" /\ pc[c] \notin {"start", "deleting"} /\ ~dropped[c] =>
       \A i \in jobs[c] : i.do # "delete"

SnapshotsInv ==
  /\ DOMAIN jobs = Command /\ DOMAIN pc = Command /\ DOMAIN dropped = Command
  /\ \A c \in Command : Replacing(c)

\* What a step of command c leaves alone.
SnapshotFrame(c) ==
  /\ op' = op
  /\ DOMAIN jobs' = Command /\ DOMAIN pc' = Command /\ DOMAIN dropped' = Command
  /\ \A d \in Command \ {c} : pc'[d] = pc[d] /\ jobs'[d] = jobs[d] /\ dropped'[d] = dropped[d]

LEMMA SnapshotCalls ==
  ASSUME SnapshotsInv, NEW c \in Command, NEW items, NEW next, NEW onError,
         T!Call(c, items, next, onError)
  PROVE  /\ SnapshotFrame(c)
         /\ pc'[c] \in {next, onError}
         /\ jobs'[c] \subseteq jobs[c] \cup items
         /\ dropped[c] => dropped'[c]
<1>1. PICK e \in T!MaybeBulkApiCall(items) :
        /\ jobs' = [jobs EXCEPT ![c] = @ \cup e.later]
        /\ dropped' = [dropped EXCEPT ![c] = @ \/ (e.error /\ onError # "failed")]
        /\ T!Goto(c, IF e.error THEN onError ELSE next)
        /\ UNCHANGED op
  BY DEF T!Call
<1>2. e.later \subseteq items
  <2>1. e \in MaybeBulkApiCall(items)
    BY DEF T!MaybeBulkApiCall, T!CallOne, T!Accepted, T!Lost, T!Unreachable, T!Ending,
           MaybeBulkApiCall, CallOne, Accepted, Lost, Unreachable, Ending,
           T!Cardinality, Cardinality
  <2>2. QED
    BY <2>1, BulkWays
<1>3. SnapshotFrame(c)
  BY <1>1 DEF SnapshotFrame, SnapshotsInv, T!Goto
<1>4. pc'[c] \in {next, onError}
  BY <1>1 DEF SnapshotsInv, T!Goto
<1>5. jobs'[c] \subseteq jobs[c] \cup items
  BY <1>1, <1>2 DEF SnapshotsInv
<1>6. dropped[c] => dropped'[c]
  BY <1>1 DEF SnapshotsInv
<1>7. QED
  BY <1>3, <1>4, <1>5, <1>6

LEMMA SnapshotsInit == T!Init => SnapshotsInv
BY DEF T!Init, SnapshotsInv, Replacing

LEMMA SnapshotStepsReplace ==
  ASSUME SnapshotsInv, NEW c \in Command, T!Step(c)
  PROVE  SnapshotFrame(c) /\ Replacing(c)'
<1>1. /\ Replacing(c)
      /\ DOMAIN jobs = Command /\ DOMAIN pc = Command /\ DOMAIN dropped = Command
  BY DEF SnapshotsInv
<1> USE DEF T!Begins
\* Steps that only take the command elsewhere.
<1>2. ASSUME NEW where, where \notin {"start", "deleting", "close"}, T!Goto(c, where),
             UNCHANGED <<op, jobs, dropped>>,
             pc[c] = "start" \/ pc[c] = "close"
      PROVE  SnapshotFrame(c) /\ Replacing(c)'
  BY <1>1, <1>2 DEF SnapshotFrame, Replacing, T!Goto
<1>3. T!Refuse(c) /\ pc[c] = "start" => SnapshotFrame(c) /\ Replacing(c)'
  BY <1>2 DEF T!Refuse
\* Calls of commands that do not replace.
<1>4. ASSUME pc[c] = "start", NEW items, op[c].kind \in SnapshotKinds \ {"create"},
             T!Call(c, items, "close", "failed")
      PROVE  SnapshotFrame(c) /\ Replacing(c)'
  <2>1. SnapshotFrame(c) /\ pc'[c] \in {"close", "failed"}
    BY <1>4, SnapshotCalls
  <2>2. QED
    BY <1>4, <2>1 DEF SnapshotFrame, Replacing
<1>5. CASE T!RunItem(c)
  <2>1. PICK item \in jobs[c] :
          jobs' = [jobs EXCEPT ![c] = @ \ {item}] /\ UNCHANGED <<op, pc, dropped>>
    BY <1>5 DEF T!RunItem
  <2>2. jobs'[c] \subseteq jobs[c] /\ jobs[c] # {}
    BY <1>1, <2>1
  <2>3. QED
    BY <1>1, <2>1, <2>2 DEF SnapshotFrame, Replacing
<1>6. CASE T!Close(c)
  <2>1. /\ T!Goto(c, "done") \/ T!Goto(c, "failed")
        /\ pc[c] = "close" /\ UNCHANGED <<op, jobs, dropped>>
    BY <1>6 DEF T!Close
  <2>2. QED
    BY <1>2, <2>1
<1>7. ASSUME T!Call(c, T!CreateItems(c), "close", "failed"), op[c].kind = "create",
             jobs[c] = {} \/ dropped[c]
      PROVE  SnapshotFrame(c) /\ Replacing(c)'
  <2>1. /\ SnapshotFrame(c) /\ pc'[c] \in {"close", "failed"}
        /\ jobs'[c] \subseteq jobs[c] \cup T!CreateItems(c) /\ (dropped[c] => dropped'[c])
    BY <1>7, SnapshotCalls
  <2>2. \A i \in T!CreateItems(c) : i.do # "delete"
    BY DEF T!CreateItems, T!Item
  <2>3. ~dropped'[c] => \A i \in jobs'[c] : i.do # "delete"
    BY <1>7, <2>1, <2>2
  <2>4. QED
    BY <1>7, <2>1, <2>3 DEF SnapshotFrame, Replacing, SnapshotKinds
<1>8. CASE T!CreateSnapshot(c)
  <2>1. op[c].kind = "create" /\ pc[c] = "start" /\ jobs[c] = {}
    BY <1>1, <1>8 DEF T!CreateSnapshot, Replacing
  <2> DEFINE Deletes == {T!Item("delete", s, TRUE) : s \in op[c].specs}
  <2>2. ASSUME T!Call(c, Deletes, "deleting", "deleting")
        PROVE  SnapshotFrame(c) /\ Replacing(c)'
    <3>1. SnapshotFrame(c) /\ pc'[c] \in {"deleting"}
      BY <2>2, SnapshotCalls
    <3>2. QED
      BY <2>1, <3>1 DEF SnapshotFrame, Replacing
  <2>3. QED
    BY <1>3, <1>7, <1>8, <2>1, <2>2 DEF T!CreateSnapshot
<1>9. CASE T!WaitFails(c)
  BY <1>1, <1>9 DEF T!WaitFails, SnapshotFrame, Replacing
<1>10. CASE T!CreateReplaced(c)
  BY <1>1, <1>7, <1>10 DEF T!CreateReplaced, Replacing
<1>11. CASE T!DeleteOrRollback(c)
  BY <1>3, <1>4, <1>11 DEF T!DeleteOrRollback, SnapshotKinds
<1>12. CASE T!RenameSnapshot(c)
  BY <1>3, <1>4, <1>12 DEF T!RenameSnapshot, SnapshotKinds
<1>13. CASE T!CloneSnapshot(c)
  BY <1>4, <1>13 DEF T!CloneSnapshot, SnapshotKinds
<1>14. QED
  BY <1>5, <1>6, <1>8, <1>9, <1>10, <1>11, <1>12, <1>13 DEF T!Step

LEMMA SnapshotsStep == ASSUME SnapshotsInv, T!Next PROVE SnapshotsInv'
<1>1. PICK c \in Command : T!Step(c)
  BY DEF T!Next
<1>2. SnapshotFrame(c) /\ Replacing(c)'
  BY <1>1, SnapshotStepsReplace
<1>3. \A d \in Command \ {c} : Replacing(d)'
  BY <1>2 DEF SnapshotFrame, SnapshotsInv, Replacing
<1>4. QED
  BY <1>2, <1>3 DEF SnapshotsInv, SnapshotFrame

------------------------------------------------------------------------------
(* Shares, one command at a time                                            *)

Kinds == {"dataset create", "dataset update", "dataset delete", "rename",
          "nfs create", "nfs update", "nfs delete"}

\* A share the command may change: there is none, it has been changed already, or
\* the command means it.
Meant(c, i) ==
  \/ path[i] = None
  \/ op[c].kind # "nfs delete" /\ path[i] = op[c].to
  \/ Means(c, i, IF op[c].kind = "nfs delete" THEN None ELSE op[c].to)

\* What a call or a job of command c may have left to do.
ItemIsSound(c, item) ==
  /\ item.do \in Kinds
  /\ item.do = "nfs delete" => op[c].kind = "nfs delete"
  /\ item.do = "nfs update" =>
       op[c].kind \in {"nfs update", "dataset rename"} /\ item.to = op[c].to
  /\ item.do \in {"nfs update", "nfs delete"} /\ item.of \in Id => Meant(c, item.of)
  /\ item.do = "nfs create" => \/ op[c].kind = "nfs create"
                               \/ op[c].kind = "nfs update" /\ item.of \in op[c].specs

\* What command c is at, and what it has left to do.
Sound(c) ==
  /\ pc[c] = "start" => jobs[c] = {}
  /\ pc[c] \in {"dataset update", "dataset create"} => op[c].kind = "dataset update"
  /\ pc[c] \in {"nfs update", "nfs create"} =>
       op[c].kind = "nfs update" /\ work[c].create \subseteq op[c].specs
  /\ pc[c] = "nfs delete" => op[c].kind = "nfs delete"
  /\ pc[c] \in {"nfs update", "nfs delete"} =>
       \A p \in work[c].update : p[2] \in Id => Meant(c, p[2])
  /\ pc[c] \in {"lookup", "move"} =>
       op[c].kind = "dataset rename" /\ op[c].create /\ op[c].to \notin op[c].specs
  /\ pc[c] = "move" => \E p : /\ work[c].update = {p} /\ p[2] \in Lookup(c)
                              /\ \A i \in Lookup(c) : p[2] <= i
  /\ op[c].kind = "dataset rename" /\ pc[c] # "failed" => jobs[c] = {}
  /\ \A item \in jobs[c] : ItemIsSound(c, item)
  /\ pc[c] = "close" /\ op[c].kind = "dataset rename" /\ op[c].create =>
       Lookup(c) = {} \/ \E p \in work[c].update :
                           path[p[2]] = op[c].to /\ \A i \in Lookup(c) : p[2] < i

SharesInv ==
  /\ op \in [Command -> Ops] /\ DOMAIN pc = Command /\ DOMAIN path = Id
  /\ DOMAIN jobs = Command
  /\ DOMAIN work = Command /\ \A c \in Command : DOMAIN work[c] = {"update", "create"}
  /\ \A c, d \in Active : c = d
  /\ \A c \in Command : Sound(c)

LEMMA SharesInit == Init => SharesInv
BY DEF Init, SharesInv, Sound, Active, NoWork

LEMMA LeastId ==
  ASSUME NEW S \in SUBSET Id, S # {}
  PROVE  LeastOf(S) \in S /\ \A i \in S : LeastOf(S) <= i
<1>1. S \subseteq Nat
  BY SharesAssumption
<1>2. PICK x \in S : \A y \in S : ~(<<y, x>> \in OpToRel(<, Nat))
  BY <1>1, NatLessThanWellFounded, WFMin
<1>3. \A y \in S : <<y, x>> \in Nat \X Nat /\ <<y, x>>[1] = y /\ <<y, x>>[2] = x
  BY <1>1
<1>4. \A y \in S : ~(y < x)
  BY <1>2, <1>3, Zenon DEF OpToRel
<1>5. \A y \in S : x <= y
  BY <1>1, <1>4
<1>6. QED
  BY <1>5 DEF LeastOf

\* What an item of command c does to the shares: one that there was not is made, or
\* one changes that the command means; and the command goes on meaning the same.
LEMMA ItemEffect ==
  ASSUME DOMAIN path = Id, NEW c \in Command, NEW item, ItemIsSound(c, item),
         Able(item), Do(item), op' = op
  PROVE  /\ DOMAIN path' = Id
         /\ \A i \in Id : path'[i] # path[i] => path[i] = None \/ Means(c, i, path'[i])
         /\ op[c].kind # "nfs create" => \A i \in Id : Meant(c, i) => Meant(c, i)'
         /\ op[c].kind # "nfs create" => \A i \in Id : path[i] = None => Meant(c, i)'
         /\ item.do = "nfs update" /\ item.to # None =>
              path' = [path EXCEPT ![item.of] = item.to] /\ item.of \in Id
<1>1. CASE item.do = "nfs create"
  <2> DEFINE new == CHOOSE i \in Id : path[i] = None
  <2>1. \E i \in Id : path[i] = None
    BY <1>1 DEF Able
  <2>2. new \in Id /\ path[new] = None
    BY <2>1
  <2>3. path' = [path EXCEPT ![new] = item.of]
    BY <1>1 DEF Do
  <2> HIDE DEF new
  <2>4. DOMAIN path' = Id /\ \A i \in Id : path'[i] = IF i = new THEN item.of ELSE path[i]
    BY <2>2, <2>3
  <2>5. op[c].kind # "nfs create" => op[c].kind = "nfs update" /\ item.of \in op[c].specs
    BY <1>1 DEF ItemIsSound
  <2>6. op[c].kind # "nfs create" => \A i \in Id : Meant(c, i) \/ path[i] = None => Meant(c, i)'
    BY <2>2, <2>4, <2>5 DEF Meant, Means
  <2>7. QED
    BY <1>1, <2>2, <2>4, <2>6
<1>2. CASE item.do = "nfs delete"
  <2>1. path' = [path EXCEPT ![item.of] = None]
    BY <1>2 DEF Do
  <2>2. item.of \in Id /\ path[item.of] # None
    BY <1>2 DEF Able
  <2>3. op[c].kind = "nfs delete" /\ Meant(c, item.of)
    BY <1>2, <2>2 DEF ItemIsSound
  <2>4. DOMAIN path' = Id /\ \A i \in Id : path'[i] = IF i = item.of THEN None ELSE path[i]
    BY <2>1
  <2>5. Means(c, item.of, None)
    BY <2>2, <2>3 DEF Meant
  <2>6. \A i \in Id : Meant(c, i) \/ path[i] = None => Meant(c, i)'
    BY <2>4 DEF Meant, Means
  <2>7. QED
    BY <1>2, <2>4, <2>5, <2>6
<1>3. CASE item.do = "nfs update"
  <2>1. path' = [path EXCEPT ![item.of] = IF item.to = None THEN @ ELSE item.to]
    BY <1>3 DEF Do
  <2>2. item.of \in Id /\ path[item.of] # None
    BY <1>3 DEF Able
  <2>3. /\ op[c].kind \in {"nfs update", "dataset rename"} /\ item.to = op[c].to
        /\ Meant(c, item.of)
    BY <1>3, <2>2 DEF ItemIsSound
  <2>4. DOMAIN path' = Id /\ \A i \in Id : path'[i] =
          IF i = item.of /\ item.to # None THEN op[c].to ELSE path[i]
    BY <2>1, <2>3
  <2>5. path[item.of] = op[c].to \/ Means(c, item.of, op[c].to)
    BY <2>2, <2>3 DEF Meant
  <2>6. \A i \in Id : Meant(c, i) \/ path[i] = None => Meant(c, i)'
    BY <2>3, <2>4 DEF Meant, Means
  <2>7. item.to # None => path' = [path EXCEPT ![item.of] = item.to]
    BY <2>1
  <2>8. QED
    BY <2>2, <2>4, <2>5, <2>6, <2>7
<1>4. CASE item.do \notin {"nfs create", "nfs delete", "nfs update"}
  <2>1. path' = path
    BY <1>4 DEF Do, ItemIsSound, Kinds
  <2>2. \A i \in Id : Meant(c, i) \/ path[i] = None => Meant(c, i)'
    BY <2>1 DEF Meant, Means
  <2>3. QED
    BY <1>4, <2>1, <2>2
<1>5. QED
  BY <1>1, <1>2, <1>3, <1>4

\* What a call changes, and what can come of it.
LEMMA CallEffect ==
  ASSUME DOMAIN pc = Command, DOMAIN jobs = Command, NEW c \in Command,
         NEW items, NEW next, next # "failed", Call(c, items, next)
  PROVE  /\ UNCHANGED <<op, work>>
         /\ pc' = [pc EXCEPT ![c] = pc'[c]] /\ pc'[c] \in {next, "failed"}
         /\ jobs' = [jobs EXCEPT ![c] = jobs'[c]] /\ jobs'[c] \subseteq jobs[c] \cup items
         /\ path' = path \/ \E item \in items : Able(item) /\ Do(item)
         /\ Cardinality(items) = 1 /\ pc'[c] # "failed" =>
              jobs'[c] = jobs[c] /\ \E item \in items : Able(item) /\ Do(item)
<1>1. PICK e \in MaybeBulkApiCall(items) :
        /\ \A i \in e.now : Able(i)
        /\ IF e.now = {} THEN UNCHANGED <<datasets, path>> ELSE Do(CHOOSE i \in e.now : TRUE)
        /\ jobs' = [jobs EXCEPT ![c] = @ \cup e.later]
        /\ pc' = [pc EXCEPT ![c] = IF e.error THEN "failed" ELSE next]
        /\ UNCHANGED <<op, work>>
  BY DEF Call, Goto
<1>2. /\ e.now \subseteq items /\ e.later \subseteq items
      /\ Cardinality(items) = 1 /\ ~e.error => e.later = {} /\ e.now = items
  BY BulkWays
<1>3. e.now = {} \/ \E item \in items : Able(item) /\ Do(item)
  <2>1. CASE e.now # {}
    <3> DEFINE first == CHOOSE i \in e.now : TRUE
    <3>1. first \in e.now /\ Do(first)
      BY <1>1, <2>1
    <3>2. QED
      BY <1>1, <1>2, <3>1
  <2>2. QED
    BY <2>1
<1>4. Cardinality(items) = 1 => items # {}
  BY NoneIsNotOne
<1>5. pc'[c] = (IF e.error THEN "failed" ELSE next) /\ jobs'[c] = jobs[c] \cup e.later
  BY <1>1
<1>6. QED
  BY <1>1, <1>2, <1>3, <1>4, <1>5

\* A command that begins is alone.
LEMMA BeginsAlone ==
  ASSUME MaxActive = 1, \A c, d \in Active : c = d, NEW c \in Command, NEW kind, Begins(c, kind)
  PROVE  Active = {}
<1>1. Cardinality(Active) < 1
  BY DEF Begins
<1>2. ASSUME NEW d \in Active PROVE FALSE
  <2>1. Active = {d}
    BY <1>2
  <2>2. Cardinality({d}) = 1
    BY FS_Singleton
  <2>3. QED
    BY <1>1, <2>1, <2>2
<1>3. QED
  BY <1>2

\* What a step of command c changes, its own soundness left out.
Frame(c) ==
  /\ op' = op /\ DOMAIN path' = Id
  /\ DOMAIN pc' = Command /\ DOMAIN jobs' = Command
  /\ DOMAIN work' = Command /\ DOMAIN work'[c] = {"update", "create"}
  /\ \A d \in Command \ {c} : pc'[d] = pc[d] /\ jobs'[d] = jobs[d] /\ work'[d] = work[d]

\* The shares that such a step changes.
Takes(c) ==
  \A i \in Id : path[i] # None /\ path'[i] # path[i] => Means(c, i, path'[i])

Own(c) == Frame(c) /\ Sound(c)' /\ Takes(c)

\* Items of no share, or of one that is not there, are sound as they are.
LEMMA ItemStaysSound ==
  ASSUME NEW c, NEW item, ItemIsSound(c, item), op' = op,
         op[c].kind # "nfs create" => \A i \in Id : Meant(c, i) => Meant(c, i)'
  PROVE  ItemIsSound(c, item)'
BY DEF ItemIsSound

\* Calls for one object or many, in all commands but the renaming of datasets.
LEMMA CallsAreSound ==
  ASSUME SharesInv, NEW c \in Command, NEW items, NEW next,
         op[c].kind # "dataset rename",
         \A item \in items : ItemIsSound(c, item),
         \/ next = "close"
         \/ next = "dataset create" /\ op[c].kind = "dataset update"
         \/ /\ next = "nfs create" /\ op[c].kind = "nfs update"
            /\ work[c].create \subseteq op[c].specs,
         Call(c, items, next)
  PROVE  Own(c)
<1>1. Sound(c) /\ DOMAIN pc = Command /\ DOMAIN jobs = Command /\ DOMAIN path = Id
      /\ DOMAIN work = Command /\ DOMAIN work[c] = {"update", "create"}
  BY DEF SharesInv
<1>2. /\ UNCHANGED <<op, work>>
      /\ pc' = [pc EXCEPT ![c] = pc'[c]] /\ pc'[c] \in {next, "failed"}
      /\ jobs' = [jobs EXCEPT ![c] = jobs'[c]] /\ jobs'[c] \subseteq jobs[c] \cup items
      /\ path' = path \/ \E item \in items : Able(item) /\ Do(item)
  BY <1>1, CallEffect
<1>3. /\ DOMAIN path' = Id /\ Takes(c)
      /\ op[c].kind # "nfs create" => \A i \in Id : Meant(c, i) => Meant(c, i)'
  <2>1. CASE path' = path
    BY <1>1, <1>2, <2>1 DEF Takes, Meant, Means
  <2>2. CASE \E item \in items : Able(item) /\ Do(item)
    BY <1>1, <1>2, <2>2, ItemEffect DEF Takes
  <2>3. QED
    BY <1>2, <2>1, <2>2
<1>4. Frame(c)
  BY <1>1, <1>2, <1>3 DEF Frame
<1>5. \A item \in jobs'[c] : ItemIsSound(c, item)'
  <2>1. \A item \in jobs[c] : ItemIsSound(c, item)
    BY <1>1 DEF Sound
  <2>2. QED
    BY <1>2, <1>3, <2>1, ItemStaysSound
<1>6. Sound(c)'
  BY <1>2, <1>5 DEF Sound
<1>7. QED
  BY <1>3, <1>4, <1>6 DEF Own

\* A step of a command that changes no share and asks for nothing.
LEMMA QuietStepsAreSound ==
  ASSUME SharesInv, NEW c \in Command, UNCHANGED <<path, op, jobs>>,
         NEW where, Goto(c, where), where # "start",
         DOMAIN work' = Command, DOMAIN work'[c] = {"update", "create"},
         \A d \in Command \ {c} : work'[d] = work[d],
         op[c].kind = "dataset rename" => jobs[c] = {},
         where \in {"dataset update", "dataset create"} => op[c].kind = "dataset update",
         where \in {"nfs update", "nfs create"} =>
           op[c].kind = "nfs update" /\ work'[c].create \subseteq op[c].specs,
         where = "nfs delete" => op[c].kind = "nfs delete",
         where \in {"nfs update", "nfs delete"} =>
           \A p \in work'[c].update : p[2] \in Id => Meant(c, p[2]),
         where \in {"lookup", "move"} =>
           op[c].kind = "dataset rename" /\ op[c].create /\ op[c].to \notin op[c].specs,
         where = "move" => \E p : /\ work'[c].update = {p} /\ p[2] \in Lookup(c)
                                  /\ \A i \in Lookup(c) : p[2] <= i,
         where = "close" /\ op[c].kind = "dataset rename" /\ op[c].create => Lookup(c) = {}
  PROVE  Own(c)
<1>1. Sound(c) /\ DOMAIN pc = Command /\ DOMAIN jobs = Command /\ DOMAIN path = Id
      /\ op \in [Command -> Ops]
  BY DEF SharesInv
<1>2. pc' = [pc EXCEPT ![c] = where] /\ pc'[c] = where
  BY <1>1 DEF Goto
<1>3. /\ \A i : Meant(c, i)' <=> Meant(c, i)
      /\ Lookup(c)' = Lookup(c)
  BY DEF Meant, Means, Lookup
<1>4. \A item \in jobs'[c] : ItemIsSound(c, item)'
  BY <1>1, <1>3, ItemStaysSound DEF Sound
<1>5. Frame(c)
  BY <1>1, <1>2 DEF Frame
<1>6. Takes(c)
  BY DEF Takes
<1>7. Sound(c)'
  <2>1. ASSUME pc'[c] \in {"nfs update", "nfs delete"}, NEW p \in work'[c].update, p[2] \in Id
        PROVE  Meant(c, p[2])'
    <3>1. Meant(c, p[2])
      BY <1>2, <2>1
    <3>2. QED
      BY <1>3, <3>1
  <2>2. ASSUME pc'[c] = "move"
        PROVE  \E p : /\ work'[c].update = {p} /\ p[2] \in Lookup(c)'
                     /\ \A i \in Lookup(c)' : p[2] <= i
    <3>1. PICK p : work'[c].update = {p} /\ p[2] \in Lookup(c) /\ \A i \in Lookup(c) : p[2] <= i
      BY <1>2, <2>2
    <3>2. p[2] \in Lookup(c)' /\ \A i \in Lookup(c)' : p[2] <= i
      BY <1>3, <3>1
    <3>3. QED
      BY <3>1, <3>2
  <2>3. pc'[c] = "close" /\ op'[c].kind = "dataset rename" /\ op'[c].create => Lookup(c)' = {}
    BY <1>1, <1>2, <1>3
  <2>4. /\ pc'[c] # "start"
        /\ pc'[c] \in {"dataset update", "dataset create"} => op'[c].kind = "dataset update"
        /\ pc'[c] \in {"nfs update", "nfs create"} =>
             op'[c].kind = "nfs update" /\ work'[c].create \subseteq op'[c].specs
        /\ pc'[c] = "nfs delete" => op'[c].kind = "nfs delete"
        /\ pc'[c] \in {"lookup", "move"} => /\ op'[c].kind = "dataset rename" /\ op'[c].create
                                            /\ op'[c].to \notin op'[c].specs
        /\ op'[c].kind = "dataset rename" => jobs'[c] = {}
    BY <1>1, <1>2
  <2>5. QED
    BY <1>4, <2>1, <2>2, <2>3, <2>4 DEF Sound
<1>8. QED
  BY <1>5, <1>6, <1>7 DEF Own

\* An item of a call or a job comes to its end.
LEMMA ItemsAreSound ==
  ASSUME SharesInv, NEW c \in Command, RunItem(c)
  PROVE  Own(c)
<1>1. Sound(c) /\ DOMAIN pc = Command /\ DOMAIN jobs = Command /\ DOMAIN path = Id
      /\ DOMAIN work = Command /\ DOMAIN work[c] = {"update", "create"}
  BY DEF SharesInv
<1>2. PICK item \in jobs[c] :
        /\ jobs' = [jobs EXCEPT ![c] = @ \ {item}]
        /\ (Able(item) /\ Do(item)) \/ path' = path
        /\ UNCHANGED <<op, pc, work>>
  BY DEF RunItem
<1>3. ItemIsSound(c, item) /\ jobs'[c] \subseteq jobs[c] /\ jobs[c] # {}
  BY <1>1, <1>2 DEF Sound
<1>4. /\ DOMAIN path' = Id /\ Takes(c)
      /\ op[c].kind # "nfs create" => \A i \in Id : Meant(c, i) => Meant(c, i)'
  <2>1. CASE path' = path
    BY <1>1, <1>2, <2>1 DEF Takes, Meant, Means
  <2>2. CASE Able(item) /\ Do(item)
    BY <1>1, <1>2, <1>3, <2>2, ItemEffect DEF Takes
  <2>3. QED
    BY <1>2, <2>1, <2>2
<1>5. Frame(c)
  BY <1>1, <1>2, <1>4 DEF Frame
<1>6. \A i \in jobs'[c] : ItemIsSound(c, i)'
  <2>1. \A i \in jobs[c] : ItemIsSound(c, i)
    BY <1>1 DEF Sound
  <2>2. QED
    BY <1>2, <1>3, <1>4, <2>1, ItemStaysSound
<1>7. ASSUME pc[c] \in {"nfs update", "nfs delete"}, NEW p \in work[c].update, p[2] \in Id
      PROVE  Meant(c, p[2])'
  BY <1>1, <1>4, <1>7 DEF Sound
<1>8. op[c].kind = "dataset rename" => pc[c] = "failed"
  BY <1>1, <1>3 DEF Sound
<1>9. Sound(c)'
  BY <1>1, <1>2, <1>3, <1>6, <1>7, <1>8 DEF Sound
<1>10. QED
  BY <1>4, <1>5, <1>9 DEF Own

LEMMA RenameIsSound ==
  ASSUME SharesInv, NEW c \in Command, RenameDataset(c)
  PROVE  Own(c)
<1>1. Sound(c) /\ DOMAIN pc = Command /\ DOMAIN jobs = Command /\ DOMAIN path = Id
      /\ DOMAIN work = Command /\ DOMAIN work[c] = {"update", "create"}
      /\ op \in [Command -> Ops] /\ pc[c] = "start" /\ op[c].kind = "dataset rename"
  BY DEF SharesInv, RenameDataset, Begins
<1>2. PICK from \in op[c].specs :
        Call(c, {[do |-> "rename", of |-> from, to |-> op[c].to]},
             IF op[c].create THEN "lookup" ELSE "close")
  BY DEF RenameDataset
<1>3. op[c].specs = {from}
  <2>1. op[c] \in Ops
    BY <1>1
  <2>2. PICK d \in Dataset : op[c].specs = {d}
    BY <1>1, <2>1, SharesAssumption
  <2>3. QED
    BY <2>2
<1> DEFINE item == [do |-> "rename", of |-> from, to |-> op[c].to]
           items == {item}
           next == IF op[c].create THEN "lookup" ELSE "close"
<1>4. /\ Call(c, items, next) /\ next \in {"lookup", "close"}
      /\ next = "lookup" <=> op[c].create
      /\ \A i \in items : i = item
      /\ Cardinality(items) = 1
  BY <1>2, FS_Singleton
<1>5. ItemIsSound(c, item)
  BY DEF ItemIsSound, Kinds
<1>6. Able(item) => op[c].to # from
  BY DEF Able
<1> HIDE DEF item, items, next
<1>7. jobs[c] = {}
  BY <1>1 DEF Sound
<1>8. /\ UNCHANGED <<op, work>>
      /\ pc' = [pc EXCEPT ![c] = pc'[c]] /\ pc'[c] \in {next, "failed"}
      /\ jobs' = [jobs EXCEPT ![c] = jobs'[c]] /\ jobs'[c] \subseteq items
      /\ path' = path \/ (Able(item) /\ Do(item))
      /\ pc'[c] # "failed" => jobs'[c] = {} /\ Able(item)
  <2>1. /\ UNCHANGED <<op, work>>
        /\ pc' = [pc EXCEPT ![c] = pc'[c]] /\ pc'[c] \in {next, "failed"}
        /\ jobs' = [jobs EXCEPT ![c] = jobs'[c]] /\ jobs'[c] \subseteq jobs[c] \cup items
        /\ path' = path \/ \E i \in items : Able(i) /\ Do(i)
        /\ Cardinality(items) = 1 /\ pc'[c] # "failed" =>
             jobs'[c] = jobs[c] /\ \E i \in items : Able(i) /\ Do(i)
    BY <1>1, <1>4, CallEffect
  <2>2. QED
    BY <1>4, <1>7, <2>1
<1>9. /\ DOMAIN path' = Id /\ Takes(c)
      /\ \A i \in Id : Meant(c, i) => Meant(c, i)'
  <2>1. CASE path' = path
    BY <1>1, <1>8, <2>1 DEF Takes, Meant, Means
  <2>2. CASE Able(item) /\ Do(item)
    BY <1>1, <1>5, <1>8, <2>2, ItemEffect DEF Takes
  <2>3. QED
    BY <1>8, <2>1, <2>2
<1>10. Frame(c)
  BY <1>1, <1>8, <1>9 DEF Frame
<1>11. \A i \in jobs'[c] : ItemIsSound(c, i)'
  BY <1>4, <1>5, <1>8, <1>9, ItemStaysSound
<1>12. Sound(c)'
  BY <1>1, <1>3, <1>4, <1>6, <1>8, <1>11 DEF Sound
<1>13. QED
  BY <1>9, <1>10, <1>12 DEF Own

LEMMA MoveIsSound ==
  ASSUME SharesInv, NEW c \in Command, MoveShare(c)
  PROVE  Own(c)
<1>1. /\ Sound(c) /\ DOMAIN pc = Command /\ DOMAIN jobs = Command /\ DOMAIN path = Id
      /\ DOMAIN work = Command /\ DOMAIN work[c] = {"update", "create"}
      /\ op \in [Command -> Ops] /\ pc[c] = "move"
  BY DEF SharesInv, MoveShare
<1>2. /\ op[c].kind = "dataset rename" /\ op[c].create /\ op[c].to \notin op[c].specs
      /\ op[c].to # None /\ jobs[c] = {}
  BY <1>1, SharesAssumption DEF Sound
<1>3. PICK p : /\ work[c].update = {p} /\ p[2] \in Lookup(c)
               /\ \A i \in Lookup(c) : p[2] <= i
  BY <1>1 DEF Sound
<1> DEFINE item == [do |-> "nfs update", for |-> p[1], of |-> p[2], to |-> op[c].to]
           items == {item}
<1>4. /\ Call(c, items, "close") /\ \A i \in items : i = item
      /\ Cardinality(items) = 1
  <2>1. ForEach("nfs update", {p}, op[c].to) = items
    BY DEF ForEach
  <2>2. QED
    BY <1>3, <2>1, FS_Singleton DEF MoveShare
<1>5. item.do = "nfs update" /\ item.of = p[2] /\ item.to = op[c].to
  OBVIOUS
<1> HIDE DEF item, items
<1>6. Meant(c, p[2]) /\ p[2] \in Id
  BY <1>2, <1>3 DEF Meant, Means, Lookup
<1>7. ItemIsSound(c, item)
  BY <1>2, <1>5, <1>6 DEF ItemIsSound, Kinds
<1>8. /\ UNCHANGED <<op, work>>
      /\ pc' = [pc EXCEPT ![c] = pc'[c]] /\ pc'[c] \in {"close", "failed"}
      /\ jobs' = [jobs EXCEPT ![c] = jobs'[c]] /\ jobs'[c] \subseteq items
      /\ path' = path \/ (Able(item) /\ Do(item))
      /\ pc'[c] # "failed" => jobs'[c] = {} /\ Able(item) /\ Do(item)
  <2>1. /\ UNCHANGED <<op, work>>
        /\ pc' = [pc EXCEPT ![c] = pc'[c]] /\ pc'[c] \in {"close", "failed"}
        /\ jobs' = [jobs EXCEPT ![c] = jobs'[c]] /\ jobs'[c] \subseteq jobs[c] \cup items
        /\ path' = path \/ \E i \in items : Able(i) /\ Do(i)
        /\ Cardinality(items) = 1 /\ pc'[c] # "failed" =>
             jobs'[c] = jobs[c] /\ \E i \in items : Able(i) /\ Do(i)
    BY <1>1, <1>4, CallEffect
  <2>2. QED
    BY <1>2, <1>4, <2>1
<1>9. /\ DOMAIN path' = Id /\ Takes(c)
      /\ \A i \in Id : Meant(c, i) => Meant(c, i)'
  <2>1. CASE path' = path
    BY <1>1, <1>8, <2>1 DEF Takes, Meant, Means
  <2>2. CASE Able(item) /\ Do(item)
    BY <1>1, <1>2, <1>7, <1>8, <2>2, ItemEffect DEF Takes
  <2>3. QED
    BY <1>8, <2>1, <2>2
<1>10. Frame(c)
  BY <1>1, <1>8, <1>9 DEF Frame
<1>11. \A i \in jobs'[c] : ItemIsSound(c, i)'
  BY <1>4, <1>7, <1>8, <1>9, ItemStaysSound
<1>12. ASSUME pc'[c] = "close"
       PROVE  \E q \in work'[c].update :
                path'[q[2]] = op'[c].to /\ \A i \in Lookup(c)' : q[2] < i
  <2>1. path' = [path EXCEPT ![p[2]] = op[c].to]
    <3>1. Able(item) /\ Do(item) /\ op' = op
      BY <1>8, <1>12
    <3>2. item.do = "nfs update" /\ item.to # None =>
            path' = [path EXCEPT ![item.of] = item.to] /\ item.of \in Id
      BY <1>1, <1>7, <3>1, ItemEffect
    <3>3. QED
      BY <1>2, <1>5, <3>2
  <2>2. path'[p[2]] = op[c].to /\ \A i \in Id : i # p[2] => path'[i] = path[i]
    BY <1>1, <1>6, <2>1
  <2>3. ASSUME NEW i \in Lookup(c)' PROVE p[2] < i
    <3>1. i \in Id /\ path'[i] \in op[c].specs
      BY <1>8 DEF Lookup
    <3>2. i # p[2]
      BY <1>2, <2>2, <3>1
    <3>3. p[2] <= i
      BY <1>3, <2>2, <3>1, <3>2 DEF Lookup
    <3>4. i \in Nat /\ p[2] \in Nat
      BY <1>6, <3>1, SharesAssumption
    <3>5. QED
      BY <3>2, <3>3, <3>4
  <2>4. p \in work'[c].update
    BY <1>3, <1>8
  <2>5. QED
    BY <1>8, <2>2, <2>3, <2>4
<1>13. Sound(c)'
  BY <1>2, <1>8, <1>11, <1>12 DEF Sound
<1>14. QED
  BY <1>9, <1>10, <1>13 DEF Own

\* Every step of a command leaves it sound, and changes what it may.
LEMMA StepsAreSound ==
  ASSUME SharesInv, NEW c \in Command, Step(c)
  PROVE  Own(c)
<1>1. Sound(c) /\ DOMAIN pc = Command /\ DOMAIN jobs = Command /\ DOMAIN path = Id
      /\ DOMAIN work = Command /\ DOMAIN work[c] = {"update", "create"}
      /\ op \in [Command -> Ops]
  BY DEF SharesInv
<1> USE DEF Begins
<1>2. ASSUME NEW where, Fail(c, where),
             where \notin {"start", "lookup", "move", "nfs delete", "dataset update", "nfs update"},
             op[c].kind = "dataset rename" => jobs[c] = {},
             where = "dataset create" => op[c].kind = "dataset update",
             where = "nfs create" =>
               op[c].kind = "nfs update" /\ work[c].create \subseteq op[c].specs,
             where = "close" /\ op[c].kind = "dataset rename" /\ op[c].create => Lookup(c) = {}
      PROVE  Own(c)
  <2>1. UNCHANGED <<path, op, jobs>> /\ Goto(c, where) /\ work' = work
    BY <1>2 DEF Fail
  <2>2. QED
    BY <1>1, <1>2, <2>1, QuietStepsAreSound
<1>3. ASSUME NEW do \in {"dataset create", "dataset update", "dataset delete"}, NEW xs
      PROVE  \A item \in Items(do, xs) : ItemIsSound(c, item)
  <2> SUFFICES ASSUME NEW x \in xs PROVE ItemIsSound(c, Item(do, x))
    BY DEF Items
  <2>1. QED
    BY DEF Item, ItemIsSound, Kinds
<1>4. CASE RunItem(c)
  BY <1>4, ItemsAreSound
<1>5. CASE Close(c)
  <2>1. Fail(c, "done") \/ Fail(c, "failed")
    BY <1>5 DEF Close
  <2>2. op[c].kind = "dataset rename" => jobs[c] = {}
    BY <1>1, <1>5 DEF Close, Sound
  <2>3. QED
    BY <1>2, <2>1, <2>2
<1>6. CASE RenameDataset(c)
  BY <1>6, RenameIsSound
<1>7. CASE MoveShare(c)
  BY <1>7, MoveIsSound
<1>8. CASE DatasetCreate(c)
  BY <1>3, <1>8, CallsAreSound DEF DatasetCreate
<1>9. CASE DatasetDelete(c)
  BY <1>2, <1>3, <1>9, CallsAreSound DEF DatasetDelete
<1>10. CASE UpdateDatasets(c)
  <2> DEFINE next == IF work[c].create # {} THEN "dataset create" ELSE "close"
  <2>1. op[c].kind = "dataset update"
    BY <1>1, <1>10 DEF UpdateDatasets, Sound
  <2>2. Call(c, Items("dataset update", work[c].update), next)
    BY <1>10 DEF UpdateDatasets
  <2>3. next \in {"close", "dataset create"}
    OBVIOUS
  <2> HIDE DEF next
  <2>4. QED
    BY <1>3, <2>1, <2>2, <2>3, CallsAreSound
<1>11. CASE CreateDatasets(c)
  <2>1. op[c].kind = "dataset update"
    BY <1>1, <1>11 DEF CreateDatasets, Sound
  <2>2. QED
    BY <1>3, <1>11, <2>1, CallsAreSound DEF CreateDatasets
<1>12. ASSUME NEW xs, \/ op[c].kind = "nfs create"
                      \/ op[c].kind = "nfs update" /\ xs \subseteq op[c].specs
       PROVE  \A item \in Items("nfs create", xs) : ItemIsSound(c, item)
  <2> SUFFICES ASSUME NEW x \in xs PROVE ItemIsSound(c, Item("nfs create", x))
    BY DEF Items
  <2>1. QED
    BY <1>12 DEF Item, ItemIsSound, Kinds
<1>13. CASE NfsCreate(c)
  BY <1>12, <1>13, CallsAreSound DEF NfsCreate
<1>14. CASE CreateShares(c)
  <2>1. op[c].kind = "nfs update" /\ work[c].create \subseteq op[c].specs
    BY <1>1, <1>14 DEF CreateShares, Sound
  <2>2. QED
    BY <1>12, <1>14, <2>1, CallsAreSound DEF CreateShares
<1>15. ASSUME NEW do \in {"nfs update", "nfs delete"}, NEW xs, NEW to,
              do = "nfs delete" <=> op[c].kind = "nfs delete",
              do = "nfs update" => op[c].kind = "nfs update" /\ to = op[c].to,
              \A p \in xs : p[2] \in Id => Meant(c, p[2])
       PROVE  \A item \in ForEach(do, xs, to) : ItemIsSound(c, item)
  <2> SUFFICES ASSUME NEW p \in xs
               PROVE  ItemIsSound(c, [do |-> do, for |-> p[1], of |-> p[2], to |-> to])
    BY DEF ForEach
  <2>1. QED
    BY <1>15 DEF ItemIsSound, Kinds
<1>16. CASE UpdateShares(c)
  <2> DEFINE next == IF work[c].create # {} THEN "nfs create" ELSE "close"
             items == ForEach("nfs update", work[c].update, op[c].to)
  <2>1. /\ op[c].kind = "nfs update" /\ work[c].create \subseteq op[c].specs
        /\ \A p \in work[c].update : p[2] \in Id => Meant(c, p[2])
    BY <1>1, <1>16 DEF UpdateShares, Sound
  <2>2. Call(c, items, next) \/ Fail(c, next)
    BY <1>16 DEF UpdateShares
  <2>3. next \in {"close", "nfs create"}
    OBVIOUS
  <2>4. \A item \in items : ItemIsSound(c, item)
    BY <1>15, <2>1
  <2> HIDE DEF next, items
  <2>5. QED
    BY <1>2, <2>1, <2>2, <2>3, <2>4, CallsAreSound
<1>17. CASE DeleteShares(c)
  <2>1. /\ op[c].kind = "nfs delete"
        /\ \A p \in work[c].update : p[2] \in Id => Meant(c, p[2])
    BY <1>1, <1>17 DEF DeleteShares, Sound
  <2>2. \A item \in ForEach("nfs delete", work[c].update, None) : ItemIsSound(c, item)
    BY <1>15, <2>1
  <2>3. QED
    BY <1>17, <2>1, <2>2, CallsAreSound DEF DeleteShares
<1>18. CASE DatasetUpdate(c)
  <2>1. op[c].kind = "dataset update"
    BY <1>18 DEF DatasetUpdate
  <2>2. ASSUME NEW found,
               work' = [work EXCEPT ![c] = [update |-> found, create |-> op[c].specs \ found]],
               Goto(c, IF found # {} THEN "dataset update" ELSE "dataset create"),
               UNCHANGED <<path, op, jobs>>
        PROVE  Own(c)
    <3> DEFINE where == IF found # {} THEN "dataset update" ELSE "dataset create"
    <3>1. /\ DOMAIN work' = Command /\ DOMAIN work'[c] = {"update", "create"}
          /\ \A d \in Command \ {c} : work'[d] = work[d]
      BY <1>1, <2>2
    <3>2. where \in {"dataset update", "dataset create"} /\ Goto(c, where)
      BY <2>2
    <3> HIDE DEF where
    <3>3. QED
      BY <2>1, <2>2, <3>1, <3>2, QuietStepsAreSound
  <2>3. Fail(c, "missing") \/ Fail(c, "failed") => Own(c)
    BY <1>2, <2>1
  <2>4. QED
    BY <1>18, <2>2, <2>3 DEF DatasetUpdate
<1>19. CASE LookupNfsIdByPath(c)
  <2>1. /\ op[c].kind = "dataset rename" /\ op[c].create /\ jobs[c] = {}
        /\ op[c].to \notin op[c].specs
    BY <1>1, <1>19 DEF LookupNfsIdByPath, Sound
  <2>2. ASSUME NEW from, Lookup(c) # {}, Goto(c, "move"),
               work' = [work EXCEPT ![c].update = {<<from, LeastOf(Lookup(c))>>}],
               UNCHANGED <<path, op, jobs>>
        PROVE  Own(c)
    <3> DEFINE p == <<from, LeastOf(Lookup(c))>>
    <3>1. p[2] \in Lookup(c) /\ \A i \in Lookup(c) : p[2] <= i
      <4>1. Lookup(c) \subseteq Id /\ p[2] = LeastOf(Lookup(c))
        BY DEF Lookup
      <4>2. QED
        BY <2>2, <4>1, LeastId
    <3>2. /\ DOMAIN work' = Command /\ DOMAIN work'[c] = {"update", "create"}
          /\ \A d \in Command \ {c} : work'[d] = work[d]
          /\ work'[c].update = {p}
      BY <1>1, <2>2
    <3> HIDE DEF p
    <3>3. QED
      BY <2>1, <2>2, <3>1, <3>2, QuietStepsAreSound
  <2>3. /\ Lookup(c) = {} /\ Fail(c, "close") => Own(c)
        /\ Fail(c, "failed") => Own(c)
    BY <1>2, <2>1
  <2>4. QED
    BY <1>19, <2>2, <2>3 DEF LookupNfsIdByPath
<1>20. CASE NfsUpdate(c)
  <2> DEFINE specs == op[c].specs
             found == {s \in specs : Named(s) # {}}
  <2>1. op[c].kind = "nfs update"
    BY <1>20 DEF NfsUpdate
  <2>2. ASSUME NEW chosen \in Picks(found, Named), NEW differ \in SUBSET found,
               work' = [work EXCEPT ![c] = [update |-> {<<s, chosen[s]>> : s \in differ},
                                            create |-> specs \ found]],
               Goto(c, "nfs update"), UNCHANGED <<path, op, jobs>>
        PROVE  Own(c)
    <3>1. ASSUME NEW s \in found, chosen[s] \in Id PROVE Meant(c, chosen[s])
      <4>1. chosen[s] \in Named(s)
        BY <3>1, SharesAssumption DEF Picks
      <4>2. QED
        BY <2>1, <4>1 DEF Named, Meant, Means
    <3>2. /\ DOMAIN work' = Command /\ DOMAIN work'[c] = {"update", "create"}
          /\ \A d \in Command \ {c} : work'[d] = work[d]
          /\ work'[c].update = {<<s, chosen[s]>> : s \in differ}
          /\ work'[c].create \subseteq specs
      BY <1>1, <2>2
    <3>3. \A p \in work'[c].update : p[2] \in Id => Meant(c, p[2])
      BY <3>1, <3>2
    <3>4. QED
      BY <2>1, <2>2, <3>2, <3>3, QuietStepsAreSound
  <2>3. Fail(c, "missing") \/ Fail(c, "failed") => Own(c)
    BY <1>2, <2>1
  <2>4. QED
    BY <1>20, <2>2, <2>3 DEF NfsUpdate
<1>21. CASE NfsDelete(c)
  <2> DEFINE specs == op[c].specs
             Filed(s) == IF s \in Id THEN {i \in Named(s) : path[i] \notin specs} ELSE Named(s)
  <2>1. op[c].kind = "nfs delete"
    BY <1>21 DEF NfsDelete
  <2>2. ASSUME Call(c, Items("nfs delete", specs), "close") PROVE Own(c)
    <3>1. \A item \in Items("nfs delete", specs) : ItemIsSound(c, item)
      <4> SUFFICES ASSUME NEW x \in specs PROVE ItemIsSound(c, Item("nfs delete", x))
        BY DEF Items
      <4>1. x \in Id => Meant(c, x)
        BY <2>1 DEF Meant, Means
      <4>2. QED
        BY <2>1, <4>1 DEF ItemIsSound, Item, Kinds
    <3>2. QED
      BY <2>1, <2>2, <3>1, CallsAreSound
  <2>3. ASSUME NEW chosen \in Picks(specs, Filed),
               work' = [work EXCEPT ![c].update = {<<s, chosen[s]>> : s \in specs}],
               Goto(c, "nfs delete"), UNCHANGED <<path, op, jobs>>
        PROVE  Own(c)
    <3>1. ASSUME NEW s \in specs, chosen[s] \in Id PROVE Meant(c, chosen[s])
      <4>1. chosen[s] \in Named(s)
        BY <3>1, SharesAssumption DEF Picks
      <4>2. QED
        BY <2>1, <4>1 DEF Named, Meant, Means
    <3>2. /\ DOMAIN work' = Command /\ DOMAIN work'[c] = {"update", "create"}
          /\ \A d \in Command \ {c} : work'[d] = work[d]
          /\ work'[c].update = {<<s, chosen[s]>> : s \in specs}
      BY <1>1, <2>3
    <3>3. \A p \in work'[c].update : p[2] \in Id => Meant(c, p[2])
      <4>1. ASSUME NEW s \in specs, <<s, chosen[s]>>[2] \in Id
            PROVE  Meant(c, <<s, chosen[s]>>[2])
        BY <3>1, <4>1
      <4> HIDE DEF specs
      <4>2. QED
        BY <3>2, <4>1
    <3>4. QED
      BY <2>1, <2>3, <3>2, <3>3, QuietStepsAreSound
  <2>4. Fail(c, "failed") => Own(c)
    BY <1>2, <2>1
  <2>5. QED
    BY <1>21, <2>2, <2>3, <2>4 DEF NfsDelete
<1>22. QED
  BY <1>4, <1>5, <1>6, <1>7, <1>8, <1>9, <1>10, <1>11, <1>13, <1>14, <1>16, <1>17, <1>18,
     <1>19, <1>20, <1>21 DEF Step

\* While one command is under way, or has something outstanding, no other does
\* anything.
LEMMA OthersRest ==
  ASSUME MaxActive = 1, SharesInv, NEW d \in Command, Step(d)
  PROVE  d \in Active \/ Active = {}
<1>1. Sound(d) /\ DOMAIN pc = Command /\ \A a, b \in Active : a = b
  BY DEF SharesInv
<1>2. CASE \E kind : Begins(d, kind)
  BY <1>1, <1>2, BeginsAlone
<1>3. CASE RunItem(d)
  BY <1>3 DEF RunItem, Active
<1>4. CASE ~RunItem(d) /\ ~\E kind : Begins(d, kind)
  <2>1. pc[d] \in {"close", "dataset update", "dataset create", "lookup", "move",
                   "nfs update", "nfs create", "nfs delete"}
    BY <1>4 DEF Step, Close, DatasetCreate, DatasetDelete, DatasetUpdate,
       UpdateDatasets, CreateDatasets, RenameDataset, LookupNfsIdByPath, MoveShare,
       NfsCreate, NfsUpdate, UpdateShares, CreateShares, NfsDelete, DeleteShares
  <2>2. QED
    BY <2>1 DEF Active, Over
<1>5. QED
  BY <1>2, <1>3, <1>4

LEMMA SharesStep == ASSUME MaxActive = 1, SharesInv, Next PROVE SharesInv'
<1>1. PICK d \in Command : Step(d)
  BY DEF Next
<1>2. Frame(d) /\ Sound(d)'
  BY <1>1, StepsAreSound DEF Own
<1>3. (d \in Active \/ Active = {}) /\ \A a, b \in Active : a = b
  BY <1>1, OthersRest DEF SharesInv
<1>4. ASSUME NEW c \in Command \ {d} PROVE Sound(c)' /\ c \notin Active'
  <2>1. c \notin Active /\ pc'[c] = pc[c] /\ jobs'[c] = jobs[c]
    BY <1>2, <1>3 DEF Frame
  <2>2. pc'[c] \in Over \cup {"start"} /\ jobs'[c] = {}
    BY <2>1 DEF Active
  <2>3. QED
    BY <2>2 DEF Sound, Active, Over
<1>5. /\ op' \in [Command -> Ops] /\ DOMAIN pc' = Command /\ DOMAIN path' = Id
      /\ DOMAIN jobs' = Command
      /\ DOMAIN work' = Command /\ \A c \in Command : DOMAIN work'[c] = {"update", "create"}
  <2>1. op \in [Command -> Ops] /\ \A c \in Command : DOMAIN work[c] = {"update", "create"}
    BY DEF SharesInv
  <2>2. QED
    BY <1>2, <2>1 DEF Frame
<1>6. \A a, b \in Active' : a = b
  BY <1>4 DEF Active
<1>7. QED
  BY <1>2, <1>4, <1>5, <1>6 DEF SharesInv

\* The shares that one step changes are those a command at work means.
LEMMA NamedSharesGo ==
  ASSUME MaxActive = 1, SharesInv, Next, NEW i \in Id, path[i] # None, path'[i] # path[i]
  PROVE  \E c \in Command : (pc[c] \notin Over \/ jobs[c] # {}) /\ Means(c, i, path'[i])
<1>1. PICK c \in Command : Step(c)
  BY DEF Next
<1>2. Means(c, i, path'[i])
  BY <1>1, StepsAreSound DEF Own, Takes
<1>3. pc[c] \notin Over \/ jobs[c] # {}
  <2>1. c \in Active \/ Active = {}
    BY <1>1, OthersRest
  <2>2. CASE c \in Active
    BY <2>2 DEF Active, Over
  <2>3. CASE Active = {} /\ jobs[c] = {}
    BY <1>1, <2>3 DEF Step, Active, Over, Begins, RunItem, Close, DatasetCreate, DatasetDelete,
       DatasetUpdate, UpdateDatasets, CreateDatasets, RenameDataset, LookupNfsIdByPath,
       MoveShare, NfsCreate, NfsUpdate, UpdateShares, CreateShares, NfsDelete, DeleteShares
  <2>4. QED
    BY <2>1, <2>2, <2>3
<1>4. QED
  BY <1>2, <1>3

\* A rename that comes to its end has found no share, or has taken the first along.
LEMMA RenamedShareFollows ==
  ASSUME SharesInv, NEW c \in Command,
         pc[c] = "close", op[c].kind = "dataset rename", op[c].create
  PROVE  LET left == {i \in Id : path[i] \in op[c].specs}
         IN  left = {} \/ \E p \in work[c].update :
                            path[p[2]] = op[c].to /\ \A i \in left : p[2] < i
BY DEF SharesInv, Sound, Lookup

------------------------------------------------------------------------------
(* iSCSI objects by category, one command at a time                         *)

\* A command that is under way, or whose job is.
Busy(c) == phase[c] \notin {"idle", "done", "failed"} \/ queue[c] # {}

\* What a command is to change or delete, if it is there, is what it is about.
Aimed(c) ==
  /\ phase[c] = "update" => order[c].kind = "update"
  /\ phase[c] = "delete" => order[c].kind = "delete"
  /\ phase[c] \in {"update", "delete"} =>
       queue[c] = {} /\ \A k \in picked[c] \cap K!Existing : K!About(c, k)
  /\ queue[c] # {} => order[c].kind = "delete" /\ phase[c] # "idle"
  /\ \A k \in queue[c] \cap K!Existing : K!About(c, k)

CrudInv ==
  /\ DOMAIN objects = Key /\ DOMAIN phase = Command
  /\ DOMAIN picked = Command /\ DOMAIN queue = Command
  /\ \A c, d \in Command : Busy(c) /\ Busy(d) => c = d
  /\ \A c \in Command : Aimed(c)

LEMMA CrudInit == K!Init => CrudInv
BY HostCommandsAssumption
   DEF K!Init, CrudInv, Aimed, Busy, K!IscsiCrudAssumption

\* What a step of command c changes, its own aim left out.
CrudFrame(c) ==
  /\ order' = order /\ DOMAIN objects' = Key
  /\ DOMAIN phase' = Command /\ DOMAIN picked' = Command /\ DOMAIN queue' = Command
  /\ \A d \in Command \ {c} :
       phase'[d] = phase[d] /\ picked'[d] = picked[d] /\ queue'[d] = queue[d]

\* The objects that such a step changes are those the command is about.
Changes(c) ==
  \A k \in K!Existing : objects'[k] # objects[k] => phase[c] # "idle" /\ K!About(c, k)

\* A deletion stays about what it is about while other objects go.
LEMMA AboutStays ==
  ASSUME NEW c \in Command, NEW k, order[c].kind = "delete", order' = order,
         objects'[k] = objects[k], K!About(c, k)
  PROVE  K!About(c, k)'
BY DEF K!About, K!Named, K!Has

LEMMA CrudStepsAreAimed ==
  ASSUME CrudInv, NEW c \in Command, K!Step(c)
  PROVE  CrudFrame(c) /\ Aimed(c)' /\ Changes(c)
<1>1. /\ Aimed(c) /\ DOMAIN objects = Key /\ DOMAIN phase = Command
      /\ DOMAIN picked = Command /\ DOMAIN queue = Command
  BY DEF CrudInv
<1>2. \A kind : K!Begins(c, kind) => phase[c] = "idle" /\ order[c].kind = kind /\ queue[c] = {}
  BY DEF K!Begins
<1>3. ASSUME NEW where \in {"done", "failed"}, K!Goto(c, where),
             UNCHANGED <<objects, order, picked>>,
             UNCHANGED queue
      PROVE  CrudFrame(c) /\ Aimed(c)' /\ Changes(c)
  <2>1. phase'[c] = where /\ \A d \in Command \ {c} : phase'[d] = phase[d]
    BY <1>1, <1>3 DEF K!Goto
  <2>2. CrudFrame(c) /\ Changes(c)
    BY <1>1, <1>3, <2>1 DEF CrudFrame, Changes, K!Goto
  <2>3. \A k : K!About(c, k)' <=> K!About(c, k)
    BY <1>3 DEF K!About, K!Named, K!Has, K!Existing
  <2>4. Aimed(c)'
    BY <1>1, <1>3, <2>1, <2>3 DEF Aimed, K!Existing
  <2>5. QED
    BY <2>2, <2>4
<1>4. ASSUME K!Fail(c) PROVE CrudFrame(c) /\ Aimed(c)' /\ Changes(c)
  BY <1>3, <1>4 DEF K!Fail
<1>5. CASE K!Create(c)
  <2>1. CASE K!Fail(c)
    BY <1>4, <2>1
  <2>2. ASSUME NEW k \in Key \ K!Existing, NEW new, NEW where \in {"done", "failed"},
               objects' = [objects EXCEPT ![k] = new], K!Goto(c, where),
               UNCHANGED <<order, picked, queue>>
        PROVE  CrudFrame(c) /\ Aimed(c)' /\ Changes(c)
    <3>1. phase'[c] = where /\ queue'[c] = {}
      BY <1>1, <1>2, <1>5, <2>2 DEF K!Goto, K!Create
    <3>2. CrudFrame(c) /\ Changes(c)
      BY <1>1, <2>2 DEF CrudFrame, Changes, K!Goto
    <3>3. QED
      BY <3>1, <3>2 DEF Aimed
  <2>3. QED
    BY <1>5, <2>1, <2>2 DEF K!Create, K!Answer
<1>6. CASE K!Change(c)
  <2>1. CASE K!Fail(c)
    BY <1>4, <2>1
  <2>2. ASSUME NEW k \in picked[c] \cap K!Existing, NEW new, NEW where \in {"done", "failed"},
               objects' = [objects EXCEPT ![k] = new], K!Goto(c, where),
               UNCHANGED <<order, picked, queue>>
        PROVE  CrudFrame(c) /\ Aimed(c)' /\ Changes(c)
    <3>1. phase'[c] = where /\ phase[c] = "update" /\ queue'[c] = {} /\ K!About(c, k)
      BY <1>1, <1>6, <2>2 DEF K!Goto, K!Change, Aimed
    <3>2. CrudFrame(c) /\ Changes(c)
      BY <1>1, <2>2, <3>1 DEF CrudFrame, Changes, K!Goto
    <3>3. QED
      BY <3>1, <3>2 DEF Aimed
  <2>3. QED
    BY <1>6, <2>1, <2>2 DEF K!Change, K!Answer
<1>7. CASE K!Await(c)
  BY <1>3, <1>7 DEF K!Await
<1>8. CASE K!Join(c)
  <2>1. K!Fail(c) \/ (K!Goto(c, "done") /\ UNCHANGED <<objects, order, picked, queue>>)
    BY <1>8 DEF K!Join
  <2>2. QED
    BY <1>3, <1>4, <2>1
<1>9. CASE K!RunItem(c)
  <2>1. PICK k \in queue[c] :
          /\ queue' = [queue EXCEPT ![c] = @ \ {k}]
          /\ objects' \in {objects, [objects EXCEPT ![k] = None]}
          /\ UNCHANGED <<order, phase, picked>>
    BY <1>9 DEF K!RunItem
  <2>2. /\ order[c].kind = "delete" /\ phase[c] \notin {"idle", "update", "delete"}
        /\ \A m \in queue[c] \cap K!Existing : K!About(c, m)
    BY <1>1, <2>1 DEF Aimed
  <2>3. DOMAIN objects' = Key /\ \A m \in Key \ {k} : objects'[m] = objects[m]
    BY <1>1, <2>1
  <2>4. CrudFrame(c)
    BY <1>1, <2>1, <2>3 DEF CrudFrame
  <2>5. Changes(c)
    BY <2>1, <2>2, <2>3 DEF Changes, K!Existing
  <2>6. queue'[c] = queue[c] \ {k}
    BY <1>1, <2>1
  <2>7. ASSUME NEW m \in queue'[c] \cap K!Existing' PROVE K!About(c, m)'
    <3>1. m \in Key /\ m # k /\ objects'[m] = objects[m]
      BY <2>3, <2>6 DEF K!Existing
    <3>2. K!About(c, m)
      BY <2>2, <2>6, <3>1 DEF K!Existing
    <3>3. QED
      BY <2>1, <2>2, <3>1, <3>2, AboutStays
  <2>8. Aimed(c)'
    BY <2>1, <2>2, <2>7 DEF Aimed
  <2>9. QED
    BY <2>4, <2>5, <2>8
<1>10. CASE K!DeleteAll(c)
  <2>1. PICK e \in K!MaybeBulkApiCall(picked[c]) :
          /\ objects' = [k \in Key |-> IF k \in e.now THEN None ELSE objects[k]]
          /\ queue' = [queue EXCEPT ![c] = e.later]
          /\ K!Goto(c, IF e.error THEN "failed" ELSE "await")
          /\ UNCHANGED <<order, picked>>
    BY <1>10 DEF K!DeleteAll
  <2>2. e.now \subseteq picked[c] /\ e.later \subseteq picked[c]
    <3>1. e \in MaybeBulkApiCall(picked[c])
      BY DEF K!MaybeBulkApiCall, K!CallOne, K!Accepted, K!Lost, K!Unreachable, K!Ending,
             MaybeBulkApiCall, CallOne, Accepted, Lost, Unreachable, Ending,
             K!Cardinality, Cardinality
    <3>2. QED
      BY <3>1, BulkWays
  <2>3. /\ phase[c] = "delete" /\ order[c].kind = "delete"
        /\ \A m \in picked[c] \cap K!Existing : K!About(c, m)
    BY <1>1, <1>10 DEF K!DeleteAll, Aimed
  <2>4. /\ phase'[c] \in {"failed", "await"} /\ queue'[c] = e.later
        /\ DOMAIN phase' = Command /\ DOMAIN queue' = Command /\ DOMAIN objects' = Key
        /\ \A d \in Command \ {c} : phase'[d] = phase[d] /\ queue'[d] = queue[d]
    BY <1>1, <2>1 DEF K!Goto
  <2>5. CrudFrame(c)
    BY <1>1, <2>1, <2>4 DEF CrudFrame
  <2>6. \A m \in Key : objects'[m] = IF m \in e.now THEN None ELSE objects[m]
    BY <2>1
  <2>7. Changes(c)
    BY <2>2, <2>3, <2>6 DEF Changes, K!Existing
  <2>8. ASSUME NEW m \in queue'[c] \cap K!Existing' PROVE K!About(c, m)'
    <3>1. objects'[m] = objects[m] /\ m \in K!Existing /\ m \in picked[c]
      BY <2>2, <2>4, <2>6 DEF K!Existing
    <3>2. K!About(c, m)
      BY <2>3, <3>1
    <3>3. QED
      BY <2>1, <2>3, <3>1, <3>2, AboutStays
  <2>9. Aimed(c)'
    BY <2>1, <2>3, <2>4, <2>8 DEF Aimed
  <2>10. QED
    BY <2>5, <2>7, <2>9
<1>11. ASSUME NEW keys, NEW where \in {"done", "update", "delete"}, queue[c] = {},
              picked' = [picked EXCEPT ![c] = keys], K!Goto(c, where),
              UNCHANGED <<objects, order, queue>>,
              where \in {"update", "delete"} => order[c].kind = where,
              where \in {"update", "delete"} => \A k \in keys \cap K!Existing : K!About(c, k)
       PROVE  CrudFrame(c) /\ Aimed(c)' /\ Changes(c)
  <2>1. /\ phase'[c] = where /\ picked'[c] = keys
        /\ DOMAIN phase' = Command /\ DOMAIN picked' = Command
        /\ \A d \in Command \ {c} : phase'[d] = phase[d] /\ picked'[d] = picked[d]
    BY <1>1, <1>11 DEF K!Goto
  <2>2. CrudFrame(c) /\ Changes(c)
    BY <1>1, <1>11, <2>1 DEF CrudFrame, Changes
  <2>3. \A k : K!About(c, k)' <=> K!About(c, k)
    BY <1>11 DEF K!About, K!Named, K!Has, K!Existing
  <2>4. K!Existing' = K!Existing
    BY <1>11 DEF K!Existing
  <2>5. Aimed(c)'
    BY <1>11, <2>1, <2>3, <2>4 DEF Aimed
  <2>6. QED
    BY <2>2, <2>5
<1>12. CASE K!Delete(c)
  <2>1. CASE K!Fail(c)
    BY <1>4, <2>1
  <2> DEFINE keys == K!iscsiCrudQuery(order[c].args)
             where == IF keys = {} THEN "done" ELSE "delete"
  <2>2. CASE picked' = [picked EXCEPT ![c] = keys] /\ K!Goto(c, where)
             /\ UNCHANGED <<objects, order, queue>>
    <3>1. order[c].kind = "delete" /\ queue[c] = {}
      BY <1>2, <1>12 DEF K!Delete
    <3>2. \A k \in keys : K!About(c, k)
      BY <3>1 DEF K!About, K!iscsiCrudQuery
    <3>3. where \in {"done", "delete"}
      OBVIOUS
    <3> HIDE DEF keys, where
    <3>4. QED
      BY <1>11, <2>2, <3>1, <3>2, <3>3
  <2>3. QED
    BY <1>12, <2>1, <2>2 DEF K!Delete
<1>13. CASE K!Update(c)
  <2>1. CASE K!Fail(c)
    BY <1>4, <2>1
  <2> DEFINE attrs == order[c].attrs
             keys == IF order[c].id # None THEN {order[c].id} ELSE K!Matching(attrs)
             where == IF order[c].id = None /\ DOMAIN attrs \subseteq Identifier
                      THEN "done" ELSE "update"
  <2>2. CASE K!Cardinality(keys) = 1 /\ picked' = [picked EXCEPT ![c] = keys]
             /\ K!Goto(c, where) /\ UNCHANGED <<objects, order, queue>>
    <3>1. order[c].kind = "update" /\ queue[c] = {}
      BY <1>2, <1>13 DEF K!Update
    <3>2. ASSUME NEW k \in keys PROVE K!About(c, k)
      <4>1. CASE order[c].id # None
        BY <3>1, <3>2, <4>1 DEF K!About
      <4>2. CASE order[c].id = None
        <5>1. k \in K!Matching(attrs) /\ Cardinality(K!Matching(attrs)) = 1
          BY <2>2, <3>2, <4>2 DEF K!Cardinality, Cardinality
        <5>2. IsFiniteSet(K!Matching(attrs))
          <6>1. K!Matching(attrs) \subseteq Key /\ IsFiniteSet(Key)
            BY HostCommandsAssumption
               DEF K!IscsiCrudAssumption, K!Matching, K!Existing, K!IsFiniteSet, IsFiniteSet
          <6>2. QED
            BY <6>1, FS_Subset
        <5>3. K!Matching(attrs) = {k}
          BY <5>1, <5>2, FS_Singleton
        <5>4. \A m \in K!Existing :
                m = k <=> \A a \in DOMAIN attrs \cap Identifier : K!Has(m, a, attrs[a])
          BY <5>3 DEF K!Matching
        <5>5. QED
          BY <3>1, <4>2, <5>4 DEF K!About
      <4>3. QED
        BY <4>1, <4>2
    <3>3. where \in {"done", "update"}
      OBVIOUS
    <3> HIDE DEF keys, where
    <3>4. QED
      BY <1>11, <2>2, <3>1, <3>2, <3>3
  <2>3. QED
    BY <1>13, <2>1, <2>2 DEF K!Update
<1>14. QED
  BY <1>5, <1>6, <1>7, <1>8, <1>9, <1>10, <1>12, <1>13 DEF K!Step

LEMMA CrudStep == ASSUME CrudInv, K!Next PROVE CrudInv'
<1>1. PICK d \in Command : K!Step(d)
  BY DEF K!Next
<1>2. CrudFrame(d) /\ Aimed(d)'
  BY <1>1, CrudStepsAreAimed
<1>3. ASSUME NEW c \in Command \ {d} PROVE Aimed(c)' /\ (Busy(c)' => FALSE)
  <2>1. ~Busy(c)
    <3>1. Busy(d) \/ \E kind : K!Begins(d, kind)
      BY <1>1 DEF K!Step, K!Create, K!Update, K!Change, K!Delete, K!DeleteAll, K!RunItem,
                  K!Await, K!Join, Busy
    <3>2. QED
      BY <3>1 DEF CrudInv, K!Begins, Busy
  <2>2. order' = order /\ phase'[c] = phase[c] /\ queue'[c] = queue[c]
    BY <1>2 DEF CrudFrame
  <2>3. QED
    BY <2>1, <2>2 DEF Busy, Aimed
<1>4. QED
  BY <1>2, <1>3 DEF CrudInv, CrudFrame

\* The joined listing: what a row is kept for, and shows.
LEMMA JoinShows ==
  ASSUME CrudInv, K!Next, NEW c \in Command, phase[c] = "idle", phase'[c] = "done",
         order[c].kind = "join", NEW l \in DOMAIN Link
  PROVE  LET ends == {e \in {"target", "extent"} :
                        Link[l][e] \in K!iscsiCrudQuery(order[c].args)}
         IN  IF ends = {} THEN l \notin DOMAIN rows' ELSE ends \subseteq rows'[l]
<1> DEFINE found == K!iscsiCrudQuery(order[c].args)
           kept == {m \in DOMAIN Link : ~K!Unmatched(m, found, found)}
<1>1. K!Join(c)
  <2>1. PICK d \in Command : K!Step(d)
    BY DEF K!Next
  <2>2. d = c
    BY <2>1, CrudStepsAreAimed DEF CrudFrame
  <2>3. \A kind : K!Begins(c, kind) => kind = "join"
    BY DEF K!Begins
  <2>4. ~K!RunItem(c)
    BY DEF CrudInv, Aimed, K!RunItem
  <2>5. QED
    BY <2>1, <2>2, <2>3, <2>4
       DEF K!Step, K!Create, K!Update, K!Change, K!Delete, K!DeleteAll, K!Await
<1>2. ~K!Fail(c)
  BY DEF K!Fail, K!Goto, CrudInv
<1>3. PICK last : rows' = [m \in kept |->
        {e \in {"target", "extent"} :
           Link[m][e] \in found \/ (m \in last /\ Link[m][e] \in K!Existing)}]
  BY <1>1, <1>2 DEF K!Join
<1>4. l \in kept <=> Link[l].target \in found \/ Link[l].extent \in found
  BY DEF K!Unmatched
<1> HIDE DEF found
<1>5. QED
  BY <1>3, <1>4 DEF found

------------------------------------------------------------------------------
(* Listings                                                                 *)

\* Which entries a category takes from the list command's arguments.
Feeds(c) ==
  CASE c = "dataset" -> {"dataset", "pool"}
    [] c = "snapshot" -> {"snapshot", "dataset", "pool"}
    [] c = "nfs" -> {"nfs"}

EntriesFor(c) ==
  IF command = "list" THEN {a \in args : L!Category(a) \in Feeds(c)} ELSE args

\* The categories a command queries.
Asked(c) ==
  IF command = "list" THEN L!Queried(c) /\ (args = {} \/ EntriesFor(c) # {})
  ELSE c = command

\* What is to be shown of the host.
Expected(o) ==
  /\ IF command = "list" THEN L!Deduced \/ o.type \in L!Wanted ELSE o.category = command
  /\ args = {} \/ \E a \in args : L!Names(a, o)

ListArguments ==
  /\ command \in {"list"} \cup L!Categories
  /\ args \subseteq ListArgs /\ recursive \in BOOLEAN
  /\ types \subseteq {"fs", "vol", "snap", "nfs"} /\ (command # "list" => types = {})

Allowed == command # "list" => \A a \in args : a.type \in L!Accepted(command)

\* What has been queried is shown, and what has not been is still to be.
ListInv ==
  /\ ListArguments
  /\ at = "plan" => shown = {}
  /\ at \in {"query", "done"} =>
       /\ Allowed
       /\ DOMAIN queries \subseteq {c \in L!Categories : Asked(c)}
       /\ \A c \in DOMAIN queries : queries[c] = EntriesFor(c)
       /\ shown = {o \in Object : Expected(o) /\ o.category \notin DOMAIN queries}
  /\ at = "done" => DOMAIN queries = {}

Sorts == {"pool", "dataset", "snapshot", "nfs"}
Given(cs) == {a \in args : L!Category(a) \in cs}

\* Each category k has the arguments of the categories feeds[k], if there are any.
Holds(q, feeds) ==
  /\ DOMAIN q = {k \in Sorts : Given(feeds[k]) # {}}
  /\ \A k \in DOMAIN q : q[k] = Given(feeds[k])

LEMMA AddedEntries ==
  ASSUME args # {}, NEW q, NEW feeds, DOMAIN feeds = Sorts, Holds(q, feeds),
         NEW from \in Sorts, NEW to \in Sorts
  PROVE  Holds(L!addEntriesFromInto(q, from, to), [feeds EXCEPT ![to] = @ \cup feeds[from]])
<1> DEFINE more == [feeds EXCEPT ![to] = @ \cup feeds[from]]
           new == L!addEntriesFromInto(q, from, to)
           old(k) == IF k \in DOMAIN q THEN q[k] ELSE {}
<1>1. /\ more[to] = feeds[to] \cup feeds[from]
      /\ \A k \in Sorts \ {to} : more[k] = feeds[k]
  OBVIOUS
<1>2. \A k \in Sorts : old(k) = Given(feeds[k])
  BY DEF Holds
<1>3. Given(more[to]) = Given(feeds[to]) \cup Given(feeds[from])
  BY <1>1 DEF Given
<1>4. CASE from \in DOMAIN q
  <2>1. new = L!With(q, to, old(to) \cup old(from))
    BY <1>4 DEF L!addEntriesFromInto
  <2>2. /\ DOMAIN new = DOMAIN q \cup {to} /\ new[to] = Given(more[to])
        /\ \A k \in DOMAIN q \ {to} : new[k] = q[k]
    BY <2>1, <1>2, <1>3 DEF L!With
  <2>3. Given(more[to]) # {}
    BY <1>3, <1>4 DEF Holds
  <2>4. DOMAIN new = {k \in Sorts : Given(more[k]) # {}}
    <3> HIDE DEF new, more
    <3>1. QED
      BY <1>1, <2>2, <2>3 DEF Holds
  <2>5. \A k \in DOMAIN new : new[k] = Given(more[k])
    <3> HIDE DEF new, more
    <3>1. QED
      BY <1>1, <2>2 DEF Holds
  <2>6. QED
    BY <2>4, <2>5 DEF Holds
<1>5. CASE from \notin DOMAIN q
  <2>1. new = q
    BY <1>5 DEF L!addEntriesFromInto
  <2>2. Given(feeds[from]) = {}
    BY <1>5 DEF Holds
  <2>3. \A k \in Sorts : Given(more[k]) = Given(feeds[k])
    <3> HIDE DEF more
    <3>1. QED
      BY <1>1, <1>3, <2>2
  <2> HIDE DEF more
  <2>4. Holds(q, more)
    BY <2>3 DEF Holds
  <2>5. QED
    BY <2>1, <2>4 DEF more
<1>6. QED
  BY <1>4, <1>5

LEMMA EntriesLeftOut ==
  ASSUME NEW q, NEW feeds, DOMAIN feeds = Sorts, Holds(q, feeds), NEW c \in Sorts
  PROVE  Holds(L!Without(q, c), [feeds EXCEPT ![c] = {}])
BY DEF Holds, L!Without, Given

\* The order in which entries are added does not matter to what each category
\* has in the end.
LEMMA ListEntriesPlanned ==
  ASSUME ListArguments, command = "list"
  PROVE  /\ DOMAIN L!ListEntries = {c \in L!Categories : Asked(c)}
         /\ \A c \in DOMAIN L!ListEntries : L!ListEntries[c] = EntriesFor(c)
<1> DEFINE given == [c \in {L!Category(a) : a \in args} |-> {a \in args : L!Category(a) = c}]
           fed == L!addEntriesFromInto(given, "dataset", "snapshot")
           snapped == IF L!Queried("snapshot") THEN L!addEntriesFromInto(fed, "pool", "snapshot")
                      ELSE L!Without(given, "snapshot")
           sets == IF L!Queried("dataset") THEN L!addEntriesFromInto(snapped, "pool", "dataset")
                   ELSE L!Without(snapped, "dataset")
           all == IF ~L!Queried("nfs") THEN L!Without(sets, "nfs")
                  ELSE IF args = {} THEN L!With(sets, "nfs", {}) ELSE sets
<1>1. L!ListEntries = L!Without(all, "pool")
  BY DEF L!ListEntries
<1>2. \A a \in args : L!Category(a) \in Sorts
  BY HostCommandsAssumption DEF L!ListingAssumption, ListArguments, L!Category, Sorts
<1>3. CASE args # {}
  <2> DEFINE own == [k \in Sorts |-> {k}]
             snapfed == [own EXCEPT !["snapshot"] =
                           IF L!Queried("snapshot") THEN {"snapshot", "dataset", "pool"} ELSE {}]
             setsfed == [snapfed EXCEPT !["dataset"] =
                           IF L!Queried("dataset") THEN {"dataset", "pool"} ELSE {}]
             allfed == [setsfed EXCEPT !["nfs"] = IF L!Queried("nfs") THEN {"nfs"} ELSE {}]
  <2>1. Holds(given, own)
    BY <1>2 DEF Holds, Given
  <2>2. Holds(snapped, snapfed)
    <3>1. CASE L!Queried("snapshot")
      <4> DEFINE first == [own EXCEPT !["snapshot"] = @ \cup own["dataset"]]
      <4> HIDE DEF given
      <4>1. Holds(fed, first) /\ DOMAIN first = Sorts
        BY <1>3, <2>1, AddedEntries DEF Sorts
      <4>2. Holds(L!addEntriesFromInto(fed, "pool", "snapshot"),
                  [first EXCEPT !["snapshot"] = @ \cup first["pool"]])
        <5> HIDE DEF fed, first
        <5>1. QED
          BY <1>3, <4>1, AddedEntries DEF Sorts
      <4>3. [first EXCEPT !["snapshot"] = @ \cup first["pool"]] = snapfed
        BY <3>1 DEF Sorts
      <4>4. QED
        BY <3>1, <4>2, <4>3
    <3>2. CASE ~L!Queried("snapshot")
      <4> HIDE DEF given
      <4>1. QED
        BY <3>2, <2>1, EntriesLeftOut DEF Sorts
    <3>3. QED
      BY <3>1, <3>2
  <2>3. Holds(sets, setsfed)
    <3> HIDE DEF snapped
    <3>1. CASE L!Queried("dataset")
      <4>1. Holds(L!addEntriesFromInto(snapped, "pool", "dataset"),
                  [snapfed EXCEPT !["dataset"] = @ \cup snapfed["pool"]])
        <5>1. DOMAIN snapfed = Sorts
          OBVIOUS
        <5> HIDE DEF snapfed
        <5>2. QED
          BY <1>3, <2>2, <5>1, AddedEntries DEF Sorts
      <4>2. [snapfed EXCEPT !["dataset"] = @ \cup snapfed["pool"]] = setsfed
        BY <3>1 DEF Sorts
      <4>3. QED
        BY <3>1, <4>1, <4>2
    <3>2. CASE ~L!Queried("dataset")
      <4>1. DOMAIN snapfed = Sorts
        OBVIOUS
      <4> HIDE DEF snapfed
      <4>2. QED
        BY <3>2, <2>2, <4>1, EntriesLeftOut DEF Sorts
    <3>3. QED
      BY <3>1, <3>2
  <2>4. Holds(all, allfed)
    <3> HIDE DEF sets
    <3>1. DOMAIN setsfed = Sorts
      BY DEF Sorts
    <3>2. CASE L!Queried("nfs")
      <4>1. allfed = setsfed
        BY <3>2 DEF Sorts
      <4>2. QED
        BY <1>3, <2>3, <3>2, <4>1
    <3>3. CASE ~L!Queried("nfs")
      <4> HIDE DEF setsfed
      <4>1. QED
        BY <2>3, <3>1, <3>3, EntriesLeftOut DEF Sorts
    <3>4. QED
      BY <3>2, <3>3
  <2>5. DOMAIN allfed = Sorts
    OBVIOUS
  <2>6. Holds(L!ListEntries, [allfed EXCEPT !["pool"] = {}])
    <3> HIDE DEF all, allfed
    <3>1. QED
      BY <1>1, <2>4, <2>5, EntriesLeftOut DEF Sorts
  <2> DEFINE last == [allfed EXCEPT !["pool"] = {}]
  <2>7. /\ last["pool"] = {}
        /\ \A c \in L!Categories : last[c] = IF L!Queried(c) THEN Feeds(c) ELSE {}
    BY DEF L!Categories, Sorts, Feeds
  <2>8. \A c \in L!Categories : EntriesFor(c) = Given(Feeds(c))
    BY DEF EntriesFor, Given
  <2>9. Given({}) = {}
    BY DEF Given
  <2> HIDE DEF last
  <2>10. \A k \in Sorts : Given(last[k]) # {} <=> k \in L!Categories /\ Asked(k)
    BY <1>3, <2>7, <2>8, <2>9 DEF Asked, Sorts, L!Categories
  <2>11. DOMAIN L!ListEntries = {c \in L!Categories : Asked(c)}
    BY <2>6, <2>10 DEF Holds, last, Sorts, L!Categories
  <2>12. ASSUME NEW c \in DOMAIN L!ListEntries PROVE L!ListEntries[c] = EntriesFor(c)
    <3>1. L!ListEntries[c] = Given(last[c])
      BY <2>6, <2>12 DEF Holds, last
    <3>2. c \in L!Categories /\ L!Queried(c)
      BY <2>11, <2>12 DEF Asked
    <3>3. QED
      BY <2>7, <2>8, <3>1, <3>2
  <2>13. QED
    BY <2>11, <2>12
<1>4. CASE args = {}
  <2>1. DOMAIN given = {}
    BY <1>4
  <2> HIDE DEF given
  <2>2. DOMAIN fed = {"snapshot"} /\ fed["snapshot"] = {}
    BY <1>4, <2>1 DEF L!addEntriesFromInto, L!With
  <2> HIDE DEF fed
  <2>3. /\ DOMAIN snapped = IF L!Queried("snapshot") THEN {"snapshot"} ELSE {}
        /\ \A k \in DOMAIN snapped : snapped[k] = {}
    BY <1>4, <2>1, <2>2 DEF L!addEntriesFromInto, L!Without
  <2> HIDE DEF snapped
  <2>4. /\ DOMAIN sets = {c \in {"snapshot", "dataset"} : L!Queried(c)}
        /\ \A k \in DOMAIN sets : sets[k] = {}
    BY <1>4, <2>3 DEF L!addEntriesFromInto, L!With, L!Without
  <2> HIDE DEF sets
  <2>5. /\ DOMAIN all = {c \in L!Categories : L!Queried(c)}
        /\ \A k \in DOMAIN all : all[k] = {}
    BY <1>4, <2>4 DEF L!With, L!Without, L!Categories
  <2> HIDE DEF all
  <2>6. /\ DOMAIN L!ListEntries = {c \in L!Categories : L!Queried(c)}
        /\ \A k \in DOMAIN L!ListEntries : L!ListEntries[k] = {}
    BY <1>1, <2>5 DEF L!Without, L!Categories
  <2>7. QED
    BY <1>4, <2>6 DEF Asked, EntriesFor
<1>5. QED
  BY <1>3, <1>4

\* A query finds what its entries' arguments name and, but for the datasets that
\* the host adds under those, nothing else; the other arguments name nothing here.
LEMMA ClausesAreNames ==
  ASSUME ListArguments, Allowed, args # {}, NEW c \in L!Categories,
         command \in {"list", c}, NEW o \in Object, o.category = c, NEW a \in args
  PROVE  /\ a \in EntriesFor(c) /\ ~(c = "dataset" /\ a.type = "dataset") =>
              (L!Clause(c, a, o) <=> L!Names(a, o))
         /\ a \in EntriesFor(c) /\ c = "dataset" => a.type \in {"dataset", "pool"}
         /\ a.type = "dataset" /\ c = "dataset" =>
              /\ L!Clause(c, a, o) <=> o.of = a.of
              /\ L!Names(a, o) <=> o.of = a.of \/ (recursive /\ o.of \in Under[a.of])
         /\ a \notin EntriesFor(c) => ~L!Names(a, o)
<1>1. a.type \in {"pool", "dataset", "snapshot", "snapshot_only", "id", "share"}
  BY HostCommandsAssumption DEF ListArguments, L!ListingAssumption
<1>2. command # "list" => a.type \in L!Accepted(command) /\ EntriesFor(c) = args
  BY DEF Allowed, EntriesFor
<1>3. command = "list" => (a \in EntriesFor(c) <=> L!Category(a) \in Feeds(c))
  BY DEF EntriesFor
<1>4. L!shouldRecurse = recursive /\ L!Paths(a.of) = {a.of} \cup Under[a.of]
  BY DEF L!shouldRecurse, L!Paths, ListArguments
<1>5. /\ command = "list" /\ c = "nfs" => (a \in EntriesFor(c) <=> a.type \in {"id", "share"})
      /\ command = "list" /\ c = "snapshot" =>
           (a \in EntriesFor(c) <=> a.type \in {"snapshot", "snapshot_only", "dataset", "pool"})
      /\ command = "list" /\ c = "dataset" => (a \in EntriesFor(c) <=> a.type \in {"dataset", "pool"})
  BY <1>1, <1>3 DEF L!Category, Feeds
<1>6. CASE c = "dataset"
  <2>1. a \in EntriesFor(c) <=> a.type \in {"dataset", "pool"}
    BY <1>2, <1>5, <1>6 DEF L!Accepted
  <2>2. command # "nfs" /\ o.category = "dataset"
    BY <1>6
  <2>3. CASE a.type = "pool"
    BY <2>1, <2>2, <2>3, <1>6 DEF L!Clause, L!Names
  <2>4. CASE a.type = "dataset"
    BY <2>1, <2>2, <2>4, <1>6 DEF L!Clause, L!Names
  <2>5. CASE a.type \notin {"dataset", "pool"}
    BY <2>1, <2>2, <2>5, <1>1, <1>6 DEF L!Names
  <2>6. QED
    BY <2>3, <2>4, <2>5
<1>7. CASE c = "snapshot"
  <2>1. a \in EntriesFor(c) <=> a.type \in {"snapshot", "snapshot_only", "dataset", "pool"}
    BY <1>2, <1>5, <1>7 DEF L!Accepted
  <2>2. command # "nfs" /\ o.category = "snapshot"
    BY <1>7
  <2>3. CASE a.type = "dataset"
    BY <2>1, <2>2, <2>3, <1>4, <1>7 DEF L!Clause, L!Names
  <2>4. CASE a.type \in {"pool", "snapshot", "snapshot_only"}
    BY <2>1, <2>2, <2>4, <1>7 DEF L!Clause, L!Names
  <2>5. CASE a.type \in {"id", "share"}
    BY <2>1, <2>2, <2>5, <1>7 DEF L!Names
  <2>6. QED
    BY <2>3, <2>4, <2>5, <1>1, <1>7
<1>8. CASE c = "nfs"
  <2>1. o.category = "nfs" /\ (command = "nfs" => a \in EntriesFor(c))
    BY <1>2, <1>8
  <2>2. CASE a.type \in {"id", "share", "pool"}
    BY <1>5, <2>1, <2>2, <1>8 DEF L!Clause, L!Names
  <2>3. CASE a.type = "dataset"
    BY <1>5, <2>1, <2>3, <1>8 DEF L!Clause, L!Names
  <2>4. CASE a.type = "snapshot"
    BY <1>5, <2>1, <2>4, <1>8 DEF L!Clause, L!Names
  <2>5. CASE a.type = "snapshot_only"
    <3>1. command = "list"
      BY <1>2, <1>8, <2>5 DEF L!Accepted
    <3>2. QED
      BY <1>5, <2>1, <2>5, <3>1, <1>8 DEF L!Names
  <2>6. QED
    BY <2>2, <2>3, <2>4, <2>5, <1>1, <1>8
<1>9. QED
  BY <1>6, <1>7, <1>8 DEF L!Categories

NamedOrAll(o) == args = {} \/ \E a \in args : L!Names(a, o)

\* The children that the host adds are those of datasets that it has.
LEMMA AnswersAreNamed ==
  ASSUME ListArguments, Allowed, NEW c \in L!Categories, Asked(c),
         NEW o \in Object, o.category = c
  PROVE  o \in L!Answer(c, EntriesFor(c)) <=> NamedOrAll(o)
<1> DEFINE entries == EntriesFor(c)
           found == {p \in Object : p.category = c /\
                      (entries = {} \/ \E e \in entries : L!Clause(c, e, p))}
<1>1. command \in {"list", c} /\ entries \subseteq args /\ (entries = {} <=> args = {})
  BY DEF Asked, EntriesFor, ListArguments
<1>2. L!Answer(c, entries) =
        IF c = "dataset" /\ L!shouldRecurse
        THEN found \cup {p \in Object : p.category = c /\ \E d \in found : p.of \in Under[d.of]}
        ELSE found
  BY DEF L!Answer
<1>3. CASE args = {}
  <2>1. o \in found
    BY <1>1, <1>3
  <2> HIDE DEF found, entries
  <2>2. QED
    BY <1>2, <1>3, <2>1 DEF NamedOrAll, entries
<1>4. CASE args # {} /\ c # "dataset"
  <2>1. \A a \in args : /\ a \in entries => (L!Clause(c, a, o) <=> L!Names(a, o))
                        /\ a \notin entries => ~L!Names(a, o)
    BY <1>1, <1>4, ClausesAreNames
  <2>2. o \in found <=> \E a \in args : L!Names(a, o)
    <3> HIDE DEF entries
    <3>1. QED
      BY <1>1, <1>4, <2>1
  <2> HIDE DEF found, entries
  <2>3. QED
    BY <1>2, <1>4, <2>2 DEF NamedOrAll, entries
<1>5. CASE args # {} /\ c = "dataset"
  <2>1. L!shouldRecurse <=> recursive
    BY <1>5 DEF L!shouldRecurse
  <2>2. \A p \in Object, a \in args : p.category = c =>
          /\ a \in entries => a.type \in {"dataset", "pool"}
          /\ a \in entries /\ a.type = "pool" => (L!Clause(c, a, p) <=> L!Names(a, p))
          /\ a.type = "dataset" =>
               /\ L!Clause(c, a, p) <=> p.of = a.of
               /\ L!Names(a, p) <=> p.of = a.of \/ (recursive /\ p.of \in Under[a.of])
          /\ a \notin entries => ~L!Names(a, p)
    BY <1>1, <1>5, ClausesAreNames
  <2>3. \A p \in Object, a \in args : p.category = c /\ a.type = "pool" =>
          (L!Names(a, p) <=> PoolOf[p.of] = a.of)
    BY <1>5 DEF L!Names
  <2>4. \A p \in found : \E a \in entries : L!Clause(c, a, p)
    BY <1>1, <1>5
  <2>5. /\ \A p \in Object, d \in DOMAIN Under : p.category = "dataset" /\ p.of \in Under[d] =>
             /\ PoolOf[p.of] = PoolOf[d]
             /\ \E q \in Object : q.category = "dataset" /\ q.of = d
        /\ \A p \in Object : p.of \in DOMAIN Under
        /\ \A a \in args : a.type = "dataset" => a.of \in DOMAIN Under
    BY HostCommandsAssumption DEF L!ListingAssumption, ListArguments
  <2>6. ASSUME NEW a \in args, L!Names(a, o) PROVE o \in L!Answer(c, entries)
    <3>1. a \in entries /\ a.type \in {"dataset", "pool"}
      BY <2>2, <2>6
    <3>2. CASE L!Clause(c, a, o)
      <4>1. o \in found
        BY <3>1, <3>2
      <4> HIDE DEF found, entries
      <4>2. QED
        BY <1>2, <4>1
    <3>3. CASE ~L!Clause(c, a, o)
      <4>1. a.type = "dataset" /\ recursive /\ o.of \in Under[a.of]
        BY <2>2, <2>6, <3>1, <3>3
      <4>2. PICK q \in Object : q.category = "dataset" /\ q.of = a.of
        BY <1>5, <2>5, <4>1
      <4>3. q \in found
        <5>1. L!Clause(c, a, q)
          BY <1>5, <2>2, <4>1, <4>2
        <5> HIDE DEF entries
        <5>2. QED
          BY <1>5, <3>1, <4>2, <5>1
      <4>4. o.of \in Under[q.of]
        BY <4>1, <4>2
      <4> HIDE DEF found, entries
      <4>5. QED
        BY <1>2, <1>5, <2>1, <4>1, <4>3, <4>4
    <3>4. QED
      BY <3>2, <3>3
  <2>7. ASSUME o \in found PROVE \E a \in args : L!Names(a, o)
    <3>1. PICK a \in entries : L!Clause(c, a, o)
      BY <2>4, <2>7
    <3> HIDE DEF found, entries
    <3>2. QED
      BY <1>1, <2>2, <3>1
  <2>8. ASSUME recursive, NEW d \in found, o.of \in Under[d.of]
        PROVE  \E a \in args : L!Names(a, o)
    <3>1. d \in Object /\ d.category = c
      OBVIOUS
    <3>2. PICK a \in entries : L!Clause(c, a, d)
      BY <2>4, <2>8
    <3>3. PoolOf[o.of] = PoolOf[d.of]
      BY <1>5, <2>5, <2>8, <3>1
    <3> HIDE DEF found, entries
    <3>4. CASE a.type = "pool"
      BY <1>1, <2>2, <2>3, <3>1, <3>2, <3>3, <3>4
    <3>5. CASE a.type = "dataset"
      BY <1>1, <2>2, <2>8, <3>1, <3>2, <3>5
    <3>6. QED
      BY <1>1, <2>2, <3>1, <3>4, <3>5
  <2>9. o \in L!Answer(c, entries) => \E a \in args : L!Names(a, o)
    <3> HIDE DEF found, entries
    <3>1. QED
      BY <1>2, <2>1, <2>7, <2>8
  <2>10. QED
    BY <1>5, <2>6, <2>9 DEF NamedOrAll
<1>6. QED
  BY <1>3, <1>4, <1>5

LEMMA OneOrTwo ==
  \A S : Cardinality({"fs", "vol"} \cap S) = 1 <=> ("fs" \in S) # ("vol" \in S)
<1> SUFFICES ASSUME NEW S
             PROVE  Cardinality({"fs", "vol"} \cap S) = 1 <=> ("fs" \in S) # ("vol" \in S)
  OBVIOUS
<1> DEFINE both == {"fs", "vol"} \cap S
<1>1. Cardinality({}) # 1
  BY FS_EmptySet
<1>2. Cardinality({"fs"}) = 1 /\ Cardinality({"vol"}) = 1
  BY FS_Singleton
<1>3. Cardinality({"fs", "vol"}) # 1
  <2>1. {"fs", "vol"} = {"fs"} \cup {"vol"}
    OBVIOUS
  <2>2. IsFiniteSet({"fs"}) /\ "vol" \notin {"fs"}
    BY FS_Singleton
  <2>3. Cardinality({"fs"} \cup {"vol"}) = 2
    BY <1>2, <2>2, FS_AddElement
  <2>4. QED
    BY <2>1, <2>3
<1>4. CASE "fs" \in S /\ "vol" \in S
  <2>1. both = {"fs", "vol"}
    BY <1>4
  <2>2. QED
    BY <1>3, <1>4, <2>1
<1>5. CASE "fs" \in S /\ "vol" \notin S
  <2>1. both = {"fs"}
    BY <1>5
  <2>2. QED
    BY <1>2, <1>5, <2>1
<1>6. CASE "fs" \notin S /\ "vol" \in S
  <2>1. both = {"vol"}
    BY <1>6
  <2>2. QED
    BY <1>2, <1>6, <2>1
<1>7. CASE "fs" \notin S /\ "vol" \notin S
  <2>1. both = {}
    BY <1>7
  <2>2. QED
    BY <1>1, <1>7, <2>1
<1>8. QED
  BY <1>4, <1>5, <1>6, <1>7

\* Of the categories queried what is kept is of the types asked for, and no other
\* category has any.
LEMMA KeptAreWanted ==
  ASSUME ListArguments, Allowed, NEW c \in L!Categories, NEW o \in Object, o.category = c
  PROVE  /\ Asked(c) => (Expected(o) <=> o \in L!Answer(c, EntriesFor(c)) /\ L!Kept(c, o))
         /\ ~Asked(c) => ~Expected(o)
<1>1. <<o.category, o.type>> \in
        {<<"dataset", "fs">>, <<"dataset", "vol">>, <<"snapshot", "snap">>, <<"nfs", "nfs">>}
  BY HostCommandsAssumption DEF L!ListingAssumption
<1>2. Expected(o) <=>
        /\ IF command = "list" THEN L!Deduced \/ o.type \in L!Wanted ELSE o.category = command
        /\ NamedOrAll(o)
  BY DEF Expected, NamedOrAll
<1>3. CASE command # "list"
  <2>1. L!Kept(c, o) /\ (Asked(c) <=> o.category = command)
    BY <1>3 DEF Asked, L!Kept
  <2>2. Asked(c) => (o \in L!Answer(c, EntriesFor(c)) <=> NamedOrAll(o))
    BY AnswersAreNamed
  <2>3. QED
    BY <1>2, <1>3, <2>1, <2>2
<1>4. CASE command = "list"
  <2>1. L!Kept(c, o) <=> (c = "dataset" /\ (("fs" \in L!Wanted) # ("vol" \in L!Wanted))
                           => o.type \in L!Wanted)
    BY <1>4, OneOrTwo DEF L!Kept, L!Cardinality, Cardinality
  <2>2. L!Deduced => L!Wanted = {"fs", "vol"}
    BY DEF L!Deduced, L!Wanted
  <2>3. L!Queried(c) => (L!Kept(c, o) <=> L!Deduced \/ o.type \in L!Wanted)
    BY <1>1, <2>1, <2>2 DEF L!Queried, L!Categories
  <2>4. ~L!Queried(c) => ~(L!Deduced \/ o.type \in L!Wanted)
    BY <1>1 DEF L!Queried, L!Categories
  <2>5. L!Queried(c) /\ ~Asked(c) => ~NamedOrAll(o)
    <3> SUFFICES ASSUME args # {}, EntriesFor(c) = {}, NEW a \in args PROVE ~L!Names(a, o)
      BY <1>4 DEF Asked, NamedOrAll
    <3>1. QED
      BY <1>4, ClausesAreNames
  <2>6. Asked(c) => L!Queried(c) /\ (o \in L!Answer(c, EntriesFor(c)) <=> NamedOrAll(o))
    BY <1>4, AnswersAreNamed DEF Asked
  <2>7. QED
    BY <1>2, <1>4, <2>3, <2>4, <2>5, <2>6
<1>5. QED
  BY <1>3, <1>4

LEMMA ListInit == L!Init => ListInv
BY DEF L!Init, ListInv, ListArguments

LEMMA ListStep == ASSUME ListInv, [L!Next]_(L!vars) PROVE ListInv'
<1>1. UNCHANGED <<command, args, types, recursive>>
  BY DEF L!Next, L!Plan, L!Query, L!ShowTable, L!vars
<1>2. /\ ListArguments' /\ (Allowed' <=> Allowed)
      /\ \A c : (Asked(c)' <=> Asked(c)) /\ EntriesFor(c)' = EntriesFor(c)
      /\ \A o : Expected(o)' <=> Expected(o)
  <2>1. ListArguments' /\ (Allowed' <=> Allowed)
    BY <1>1 DEF ListInv, ListArguments, Allowed
  <2>2. \A c : EntriesFor(c)' = EntriesFor(c)
    BY <1>1 DEF EntriesFor
  <2>3. \A c : Asked(c)' <=> Asked(c)
    BY <1>1, <2>2 DEF Asked, L!Queried, L!Deduced, L!Wanted
  <2>4. \A o : Expected(o)' <=> Expected(o)
    BY <1>1 DEF Expected, L!Names, L!Deduced, L!Wanted
  <2>5. QED
    BY <2>1, <2>2, <2>3, <2>4
<1>3. \A o \in Object : o.category \in L!Categories
  BY HostCommandsAssumption DEF L!ListingAssumption, L!Categories
<1>4. ListArguments
  BY DEF ListInv
<1>5. CASE L!Plan
  <2> DEFINE entries == IF command = "list" THEN L!ListEntries ELSE [c \in {command} |-> args]
  <2>1. CASE at' = "refused"
    BY <1>2, <2>1 DEF ListInv
  <2>2. CASE Allowed /\ queries' = entries /\ at' = "query"
    <3>1. shown' = {}
      BY <1>5 DEF L!Plan, ListInv
    <3>2. /\ DOMAIN entries = {c \in L!Categories : Asked(c)}
          /\ \A c \in DOMAIN entries : entries[c] = EntriesFor(c)
      <4>1. CASE command = "list"
        BY <1>4, <4>1, ListEntriesPlanned
      <4>2. CASE command # "list"
        BY <1>4, <4>2 DEF ListArguments, Asked, EntriesFor
      <4>3. QED
        BY <4>1, <4>2
    <3>3. \A o \in Object : Expected(o) => o.category \in DOMAIN entries
      BY <1>3, <1>4, <2>2, <3>2, KeptAreWanted
    <3> HIDE DEF entries
    <3>4. QED
      BY <1>2, <2>2, <3>1, <3>2, <3>3 DEF ListInv
  <2>3. QED
    BY <1>5, <2>1, <2>2 DEF L!Plan, Allowed
<1>6. CASE L!Query
  <2>1. CASE at' = "failed"
    BY <1>2, <2>1 DEF ListInv
  <2> DEFINE c == CHOOSE c \in DOMAIN queries : \A d \in DOMAIN queries :
                    c = "dataset" \/ d = c \/ (c = "nfs" /\ d = "snapshot")
  <2>2. CASE /\ shown' = shown \cup {o \in L!Answer(c, queries[c]) : L!Kept(c, o)}
             /\ queries' = L!Without(queries, c)
             /\ UNCHANGED at
    <3>1. /\ at = "query" /\ DOMAIN queries # {} /\ Allowed
          /\ DOMAIN queries \subseteq {k \in L!Categories : Asked(k)}
          /\ \A k \in DOMAIN queries : queries[k] = EntriesFor(k)
          /\ shown = {o \in Object : Expected(o) /\ o.category \notin DOMAIN queries}
      BY <1>6 DEF L!Query, ListInv
    <3>2. c \in DOMAIN queries
      <4>1. \E k \in DOMAIN queries : \A d \in DOMAIN queries :
              k = "dataset" \/ d = k \/ (k = "nfs" /\ d = "snapshot")
        BY <3>1 DEF L!Categories
      <4>2. QED
        BY <4>1
    <3> HIDE DEF c
    <3>3. c \in L!Categories /\ Asked(c) /\ queries[c] = EntriesFor(c)
      BY <3>1, <3>2
    <3>4. \A o : o \in L!Answer(c, queries[c]) => o \in Object /\ o.category = c
      BY DEF L!Answer
    <3>5. \A o \in Object : o.category = c =>
            (Expected(o) <=> o \in L!Answer(c, queries[c]) /\ L!Kept(c, o))
      BY <1>4, <3>1, <3>3, KeptAreWanted
    <3>6. /\ DOMAIN queries' = DOMAIN queries \ {c}
          /\ \A k \in DOMAIN queries' : queries'[k] = queries[k]
      BY <2>2 DEF L!Without
    <3>7. shown' = {o \in Object : Expected(o) /\ o.category \notin DOMAIN queries'}
      BY <2>2, <3>1, <3>2, <3>4, <3>5, <3>6
    <3>8. QED
      BY <1>2, <2>2, <3>1, <3>6, <3>7 DEF ListInv
  <2>3. QED
    BY <1>6, <2>1, <2>2 DEF L!Query
<1>7. CASE L!ShowTable
  BY <1>2, <1>7 DEF L!ShowTable, ListInv
<1>8. CASE UNCHANGED L!vars
  BY <1>2, <1>8 DEF L!vars, ListInv
<1>9. QED
  BY <1>5, <1>6, <1>7, <1>8 DEF L!Next

------------------------------------------------------------------------------
(* The commands together                                                    *)

HostInv ==
  /\ part = "snapshots" => SnapshotsInv
  /\ part = "shares" /\ MaxActive = 1 => SharesInv
  /\ part = "list" => ListInv
  /\ part = "crud" => CrudInv

LEMMA HostStays == PartsSpec => []HostInv
<1>1. PartsInit => HostInv
  BY SnapshotsInit, SharesInit, ListInit, CrudInit DEF PartsInit, HostInv
<1>2. ASSUME HostInv, [PartsNext]_partsvars PROVE HostInv'
  <2>1. CASE UNCHANGED partsvars
    <3>1. /\ UNCHANGED <<part, path, op, pc, work, jobs, dropped>>
          /\ UNCHANGED <<objects, order, phase, picked, queue>>
          /\ UNCHANGED L!vars
      BY <2>1 DEF partsvars, datasetvars, sharevars, snapshotvars, listvars, crudvars, L!vars
    <3>2. SnapshotsInv' <=> SnapshotsInv
      BY <3>1 DEF SnapshotsInv, Replacing
    <3>3. \A c \in Command : Sound(c)' <=> Sound(c)
      <4>1. \A c, i : Meant(c, i)' <=> Meant(c, i)
        BY <3>1 DEF Meant, Means
      <4>2. \A c, i : ItemIsSound(c, i)' <=> ItemIsSound(c, i)
        BY <3>1, <4>1 DEF ItemIsSound
      <4>3. \A c : Lookup(c)' = Lookup(c)
        BY <3>1 DEF Lookup
      <4> SUFFICES ASSUME NEW c \in Command PROVE Sound(c)' <=> Sound(c)
        OBVIOUS
      <4>4. QED
        BY <3>1, <4>1, <4>2, <4>3 DEF Sound
    <3>4. Active' = Active
      BY <3>1 DEF Active
    <3>5. SharesInv' <=> SharesInv
      BY <3>1, <3>3, <3>4 DEF SharesInv
    <3>6. CrudInv' <=> CrudInv
      <4>1. \A c \in Command : Busy(c)' <=> Busy(c)
        BY <3>1 DEF Busy
      <4>2. \A c \in Command : Aimed(c)' <=> Aimed(c)
        BY <3>1 DEF Aimed, K!About, K!Named, K!Has, K!Existing
      <4>3. QED
        BY <3>1, <4>1, <4>2 DEF CrudInv
    <3>7. ListInv => ListInv'
      BY <3>1, ListStep
    <3>8. QED
      BY <1>2, <3>1, <3>2, <3>5, <3>6, <3>7 DEF HostInv
  <2>2. CASE part = "shares" /\ Next /\ part' = part
    BY <1>2, <2>2, SharesStep DEF HostInv
  <2>3. CASE part = "snapshots" /\ T!Next /\ part' = part
    BY <1>2, <2>3, SnapshotsStep DEF HostInv
  <2>4. CASE part = "crud" /\ K!Next /\ part' = part
    BY <1>2, <2>4, CrudStep DEF HostInv
  <2>5. CASE part = "list" /\ L!Next /\ part' = part
    BY <1>2, <2>5, ListStep DEF HostInv
  <2>6. QED
    BY <1>2, <2>1, <2>2, <2>3, <2>4, <2>5 DEF PartsNext
<1>3. QED
  BY <1>1, <1>2, PTL DEF PartsSpec, partsvars

\* snapshot create --delete (cmd/snapshot.go): once the creation has been asked for,
\* no part of the deletion is still to come that would take the new snapshots, but
\* of one that ended with an error, which the command drops.
THEOREM SnapshotsReplacedBeforeCreated == PartsSpec => []ReplacedBeforeCreated
<1>1. HostInv => ReplacedBeforeCreated
  <2> SUFFICES ASSUME SnapshotsInv PROVE T!ReplacedBeforeCreated
    BY DEF HostInv, ReplacedBeforeCreated
  <2>1. QED
    BY DEF SnapshotsInv, Replacing, T!ReplacedBeforeCreated
<1>2. QED
  BY <1>1, HostStays, PTL

\* nfs update, nfs delete and dataset rename (cmd/nfs.go, cmd/dataset.go), with one
\* command at a time: a share goes, or gets another path, only where its number or
\* its path is among the arguments, and only the path the command is told.
THEOREM SharesOnlyNamedGo == ASSUME MaxActive = 1 PROVE PartsSpec => OnlyNamedSharesGo
<1> DEFINE OnlyNamedGo ==
      \A i \in Id : path[i] # None /\ path'[i] # path[i] =>
        \E c \in Command : (pc[c] \notin Over \/ jobs[c] # {}) /\ Means(c, i, path'[i])
<1>1. ASSUME HostInv, [PartsNext]_partsvars PROVE [OnlyNamedGo]_vars
  <2>1. CASE part = "shares" /\ Next
    BY <1>1, <2>1, NamedSharesGo DEF HostInv
  <2>2. CASE path' = path
    BY <2>2
  <2>3. QED
    BY <1>1, <2>1, <2>2 DEF PartsNext, partsvars, sharevars
<1>2. QED
  BY <1>1, HostStays, PTL DEF PartsSpec, partsvars, OnlyNamedSharesGo

\* dataset rename --update-shares (cmd/dataset.go), with one command at a time: a
\* rename that ends without an error has taken along the dataset's share of the least
\* number.
THEOREM SharesFollowTheirDataset == ASSUME MaxActive = 1 PROVE PartsSpec => ShareFollowsDataset
<1> DEFINE Follows ==
      \A c \in Command :
        /\ pc[c] = "close" /\ pc'[c] = "done" /\ op[c].kind = "dataset rename" /\ op[c].create
        => LET left == {i \in Id : path[i] \in op[c].specs}
           IN  left = {} \/ \E p \in work[c].update :
                              path[p[2]] = op[c].to /\ \A i \in left : p[2] < i
<1>1. ASSUME HostInv, [PartsNext]_partsvars PROVE [Follows]_vars
  <2>1. CASE part = "shares"
    BY <1>1, <2>1, RenamedShareFollows DEF HostInv
  <2>2. CASE part = "snapshots"
    <3>1. \A c \in Command : pc[c] = "close" => op[c].kind # "dataset rename"
      BY <1>1, <2>2 DEF HostInv, SnapshotsInv, Replacing, SnapshotKinds
    <3>2. QED
      BY <3>1
  <2>3. CASE pc' = pc
    BY <2>3
  <2>4. QED
    BY <1>1, <2>1, <2>2, <2>3 DEF PartsNext, partsvars, datasetvars
<1>2. QED
  BY <1>1, HostStays, PTL DEF PartsSpec, partsvars, ShareFollowsDataset

\* iscsi update and delete by category (cmd/iscsi_crud.go): what is changed or
\* deleted is what the command's arguments mean, as it was when it was looked up.
THEOREM CrudChangesWhatIsMeant == PartsSpec => ChangesWhatIsMeant
<1> DEFINE Meaning ==
      \A k \in K!Existing : objects'[k] # objects[k] =>
        \E c \in Command : phase[c] # "idle" /\ K!About(c, k)
<1>1. ASSUME HostInv, [PartsNext]_partsvars PROVE [Meaning]_(K!vars)
  <2>1. CASE part = "crud" /\ K!Next
    BY <1>1, <2>1, CrudStepsAreAimed DEF HostInv, K!Next, Changes
  <2>2. CASE objects' = objects
    BY <2>2
  <2>3. QED
    BY <1>1, <2>1, <2>2 DEF PartsNext, partsvars, crudvars
<1>2. QED
  BY <1>1, HostStays, PTL DEF PartsSpec, partsvars, ChangesWhatIsMeant, K!ChangesWhatIsMeant

\* iscsi list associations (cmd/iscsi_crud.go): the rows are those of which an
\* argument names an end, and they show that end's name.
THEOREM CrudJoinShowsEitherEnd == PartsSpec => K!JoinShowsEitherEnd
<1> DEFINE Shows ==
      \A c \in Command :
        phase[c] = "idle" /\ phase'[c] = "done" /\ order[c].kind = "join" =>
          \A l \in DOMAIN Link :
            LET ends == {e \in {"target", "extent"} :
                           Link[l][e] \in K!iscsiCrudQuery(order[c].args)}
            IN  IF ends = {} THEN l \notin DOMAIN rows' ELSE ends \subseteq rows'[l]
<1>1. ASSUME HostInv, [PartsNext]_partsvars PROVE [Shows]_(K!vars)
  <2>1. CASE part = "crud" /\ K!Next
    BY <1>1, <2>1, JoinShows DEF HostInv
  <2>2. CASE phase' = phase
    BY <2>2
  <2>3. QED
    BY <1>1, <2>1, <2>2 DEF PartsNext, partsvars, crudvars
<1>2. QED
  BY <1>1, HostStays, PTL DEF PartsSpec, partsvars, K!JoinShowsEitherEnd

\* list, dataset list, nfs list and snapshot list (cmd/list.go, QueryApi): a listing
\* that succeeds shows the objects of the types asked for that an argument names, or
\* all of them without arguments, and no other; and so does that of associations.
THEOREM ListsShowWhatIsAsked == PartsSpec => ListShowsWhatIsAsked
<1>1. HostInv => (part = "list" => L!ListShowsWhatIsAsked)
  <2> SUFFICES ASSUME ListInv, at = "done" PROVE L!ListShowsWhatIsAsked
    BY DEF HostInv, L!ListShowsWhatIsAsked
  <2>1. shown = {o \in Object : Expected(o)}
    BY DEF ListInv
  <2>2. QED
    BY <2>1 DEF L!ListShowsWhatIsAsked, Expected
<1>2. PartsSpec => K!JoinShowsEitherEnd
  BY CrudJoinShowsEitherEnd
<1>3. QED
  BY <1>1, <1>2, HostStays, PTL DEF ListShowsWhatIsAsked

==============================================================================
