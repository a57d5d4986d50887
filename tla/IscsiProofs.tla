----------------------------- MODULE IscsiProofs -----------------------------
(***************************************************************************)
(* What is proved of the iSCSI commands, for any number of volumes, users, *)
(* tries and scans.  A command that deletes deletes what it was asked for  *)
(* only, logs out of nothing but what has the name of such a volume, and   *)
(* returns from its wait when the devices are gone.  One that creates      *)
(* takes back what it has made when it fails, but of the kinds that it     *)
(* cannot tell of, and when it ends without an error and was alone its     *)
(* share is whole.  One that activates reports every share once.           *)
(***************************************************************************)
EXTENDS IscsiCommands, FiniteSetTheorems, TLAPS

------------------------------------------------------------------------------
(* Deletion *)

\* What is to be logged out of has a name that was asked for; what is to be
\* deleted was asked for itself.
AskedFor == todo \subseteq Named(Asked) /\ targets \subseteq Asked

\* A scan that found no device of the command stays right: while the command
\* waits it logs out of nothing, and no device comes back.
HelperIsRight == helper = "send" /\ answer => disk \cap results = {}

\* What the wait has come to lasts until the command returns.
WaitOver ==
  Waiting /\ pc \in {"report", "query", "delete", "done"} /\ tries < MaxTries =>
    disk \cap results = {}

\* The helper runs only after the last logout.
HelperIsLate == pc = "match" \/ pc = "logout" => helper = "off"

Inv == AskedFor /\ HelperIsRight /\ HelperIsLate /\ WaitOver

LEMMA InitInv == Init => Inv
BY DEF Init, Inv, AskedFor, HelperIsRight, HelperIsLate, WaitOver, Waiting

LEMMA AllTriesUsed == ~(MaxTries < MaxTries)
BY IscsiDeleteAssumption, SMT

LEMMA NextInv == ASSUME Inv, [Next]_vars PROVE Inv'
<1> USE IscsiDeleteAssumption
        DEF Inv, AskedFor, HelperIsRight, HelperIsLate, WaitOver, Waiting, Goto,
            world, logout, wait, vars
<1>1. CASE Match
  <2>1. \E acting : /\ acting \subseteq Active
                    /\ todo' = IF mode = "locate --delete" THEN {} ELSE acting
    BY <1>1 DEF Match
  <2>2. todo' \subseteq Named(Asked)
    BY <2>1 DEF Active
  <2>3. QED
    BY <1>1, <2>2 DEF Match
<1>2. CASE Refuse
  BY <1>2 DEF Refuse
<1>3. CASE Logout
  BY <1>3 DEF Logout
<1>4. CASE LoggedOut
  BY <1>4 DEF LoggedOut
<1>5. CASE Receive
  <2>1. WaitOver'
    <3>1. CASE answer
      BY <1>5, <3>1 DEF Receive, Try
    <3>2. CASE ~answer
      <4>1. pc' = "report" => tries' = MaxTries
        BY <1>5, <3>2 DEF Receive, Try
      <4>2. pc' \in {"report", "wait"} /\ mode' = mode
        BY <1>5, <3>2 DEF Receive, Try
      <4>3. QED
        BY <4>1, <4>2, AllTriesUsed
    <3>3. QED
      BY <3>1, <3>2
  <2>2. QED
    BY <1>5, <2>1 DEF Receive, Try
<1>6. CASE Silence
  <2>1. /\ pc' = "report" => Gone \/ tries' = MaxTries
        /\ pc' \in {"report", "wait"} /\ pc = "wait"
        /\ UNCHANGED <<mode, disk, results, helper, answer, todo, targets>>
    BY <1>6 DEF Silence, Try
  <2>2. QED
    BY <2>1, AllTriesUsed DEF Gone
<1>7. CASE Report
  BY <1>7 DEF Report
<1>8. CASE QueryTargets
  BY <1>8 DEF QueryTargets, Deletable
<1>9. CASE Delete
  BY <1>9 DEF Delete
<1>10. CASE HelperScan
  BY <1>10 DEF HelperScan, Gone
<1>11. CASE DeviceVanishes
  <2>1. /\ disk' \subseteq disk
        /\ UNCHANGED <<results, answer, helper, tries, mode, pc, todo, targets>>
    BY <1>11 DEF DeviceVanishes
  <2>2. QED
    BY <2>1
<1>12. CASE UNCHANGED vars
  BY <1>12
<1>13. QED
  BY <1>1, <1>2, <1>3, <1>4, <1>5, <1>6, <1>7, <1>8, <1>9, <1>10, <1>11, <1>12
     DEF Next, Command

LEMMA Invariant == Spec => []Inv
BY InitInv, NextInv, PTL DEF Spec

\* A command that waits and has tries left returns only when every share it
\* has logged out of has lost its device, although it may act on an older scan
\* (DeactivateIscsiTargetList, iscsi.go).
THEOREM DeleteWaitedForDevices == Spec => []WaitedForDevices
<1>1. Inv => WaitedForDevices
  BY DEF Inv, WaitOver, WaitedForDevices
<1>2. QED
  BY <1>1, Invariant, PTL

\* A step that ends a session or a target.
LEMMA OnlyTwoActionsTake ==
  ASSUME Inv, [Next]_vars
  PROVE  session \ session' \subseteq Named(Asked) /\ host \ host' \subseteq Asked
<1> USE DEF Inv, AskedFor, world
<1>1. CASE Logout
  BY <1>1 DEF Logout
<1>2. CASE Delete
  BY <1>2 DEF Delete
<1>3. CASE UNCHANGED <<session, host>>
  BY <1>3
<1>4. QED
  BY <1>1, <1>2, <1>3 DEF Next, Command, vars, Match, Refuse, LoggedOut, Receive, Silence,
     Report, QueryTargets, HelperScan, DeviceVanishes

\* No command logs out of a share that has not the name of one it was asked for
\* (DeactivateMatchingIscsiTargets, iscsi_util.go), and none deletes a target
\* that has not its volume (deleteIscsi, iscsi.go).
THEOREM DeleteOthersAreLeftAlone == Spec => OthersAreLeftAlone
<1>1. Inv /\ [Next]_vars =>
        [/\ session \ session' \subseteq Named(Asked)
         /\ host \ host' \subseteq Asked]_vars
  BY OnlyTwoActionsTake
<1>2. QED
  BY <1>1, Invariant, PTL DEF Spec, OthersAreLeftAlone

------------------------------------------------------------------------------
(* Creation by several commands at a time *)

BeforeTargets ==
  {"idle", "refused", "portal", "makePortal", "initiator", "makeInitiator", "update", "makeTargets"}
BeforeExtents == BeforeTargets \cup {"awaitUpdate", "queryExtents", "makeExtents"}

\* Of what may still be made or deleted the command cannot tell.
LateIsLost ==
  \A e \in late : e.do \in {"make", "delete"} =>
    e.kind \in C!Kind /\ e.vol \in C!Vols /\ e.by \in User /\ e.kind \in lost[e.by]

CreationTypes ==
  /\ has \in [C!Kind -> [C!Name -> [vol : C!Vols \cup {None}, by : User \cup {None}]]]
  /\ made \in [User -> [C!Kind -> SUBSET C!Vols]]
  /\ known \in [User -> [C!Kind -> SUBSET C!Vols]]
  /\ lost \in [User -> SUBSET C!Kind]
  /\ stage = [c \in User |-> stage[c]]
  /\ LateIsLost

\* Until it is done, a command has recorded all that it has made of a kind,
\* unless it cannot tell.
Recorded(c) ==
  stage[c] # "done" =>
    \A k \in C!Kind \ lost[c], n \in C!Name : has[k][n].by = c => has[k][n].vol \in made[c][k]

\* It records a kind once only, and nothing before.
RecordedOnce(c) ==
  /\ stage[c] \in BeforeTargets => made[c]["target"] = {}
  /\ stage[c] \in BeforeExtents => made[c]["extent"] = {}

\* Undoing goes by the record.
Undone(c) ==
  /\ stage[c] \in {"undoExtents", "failed"} /\ "target" \notin lost[c] =>
       \A n \in C!Name : has["target"][n].by # c
  /\ stage[c] = "failed" /\ "extent" \notin lost[c] =>
       \A n \in C!Name : has["extent"][n].by # c

Accounts(c) == Recorded(c) /\ RecordedOnce(c) /\ Undone(c)

CreationInv == CreationTypes /\ \A c \in User : Accounts(c)

LEMMA CreationAssumptions ==
  /\ None \notin User /\ None \notin C!Vols
  /\ \A c \in User : Several[c] \subseteq C!Vols /\ Singles[c] \subseteq C!Vols
  /\ \A c \in User : IsFiniteSet(Several[c]) /\ IsFiniteSet(Singles[c])
<1>1. C!IscsiCreateAssumption /\ S!IscsiCreateAssumption
  BY IscsiCommandsAssumption
<1>2. QED
  BY <1>1 DEF C!IscsiCreateAssumption, S!IscsiCreateAssumption, C!Vols,
     C!IsFiniteSet, S!IsFiniteSet, IsFiniteSet

\* What a creation puts on the host, it puts where there was nothing.
LEMMA PutIs ==
  ASSUME CreationTypes, NEW c \in User, NEW kind \in C!Kind,
         NEW vols \in SUBSET C!Vols, \A v \in vols : has[kind][NameOf[v]] = C!Nobody,
         C!Put(c, kind, vols)
  PROVE  /\ has' \in [C!Kind -> [C!Name -> [vol : C!Vols \cup {None}, by : User \cup {None}]]]
         /\ \A k \in C!Kind, n \in C!Name :
              \/ has'[k][n] = has[k][n] /\ (k = kind => \A v \in vols : NameOf[v] # n)
              \/ /\ k = kind /\ has[k][n] = C!Nobody
                 /\ has'[k][n].by = c /\ has'[k][n].vol \in vols
                 /\ NameOf[has'[k][n].vol] = n
<1> DEFINE new == [n \in C!Name |->
             IF \E v \in vols : NameOf[v] = n
             THEN [vol |-> CHOOSE v \in vols : NameOf[v] = n, by |-> c] ELSE has[kind][n]]
<1>1. has' = [has EXCEPT ![kind] = new]
  BY DEF C!Put
<1>2. ASSUME NEW n \in C!Name
      PROVE  \/ new[n] = has[kind][n] /\ \A v \in vols : NameOf[v] # n
             \/ /\ has[kind][n] = C!Nobody /\ new[n].by = c /\ new[n].vol \in vols
                /\ NameOf[new[n].vol] = n
                /\ new[n] \in [vol : C!Vols \cup {None}, by : User \cup {None}]
  <2>1. CASE \E v \in vols : NameOf[v] = n
    <3>1. PICK w \in vols : w = (CHOOSE v \in vols : NameOf[v] = n) /\ NameOf[w] = n
      BY <2>1
    <3>2. new[n] = [vol |-> w, by |-> c]
      BY <2>1, <3>1
    <3>3. QED
      BY <3>1, <3>2
  <2>2. CASE ~\E v \in vols : NameOf[v] = n
    BY <2>2
  <2>3. QED
    BY <2>1, <2>2
<1>3. has[kind] \in [C!Name -> [vol : C!Vols \cup {None}, by : User \cup {None}]]
  BY DEF CreationTypes
<1>4. new \in [C!Name -> [vol : C!Vols \cup {None}, by : User \cup {None}]]
  <2>1. DOMAIN new = C!Name /\ new = [n \in C!Name |-> new[n]]
    OBVIOUS
  <2> HIDE DEF new
  <2>2. \A n \in C!Name : new[n] \in [vol : C!Vols \cup {None}, by : User \cup {None}]
    BY <1>2, <1>3
  <2>3. QED
    BY <2>1, <2>2
<1> HIDE DEF new
<1>5. /\ has' \in [C!Kind -> [C!Name -> [vol : C!Vols \cup {None}, by : User \cup {None}]]]
      /\ has'[kind] = new /\ \A k \in C!Kind \ {kind} : has'[k] = has[k]
  BY <1>1, <1>4 DEF CreationTypes
<1>6. QED
  BY <1>2, <1>5

\* What is late stays lost while the commands get to know nothing more.
LEMMA LateStays ==
  ASSUME LateIsLost, \A e \in late' \ late : e.do \notin {"make", "delete"},
         \A c \in User : lost[c] \subseteq lost'[c]
  PROVE  LateIsLost'
BY DEF LateIsLost

\* A command's accounts are right as long as nobody else makes anything in its
\* name of a kind it can tell of.
LEMMA AccountsStay ==
  ASSUME NEW c \in User, Accounts(c),
         stage'[c] = stage[c], made'[c] = made[c], lost'[c] = lost[c],
         \A k \in C!Kind \ lost[c], n \in C!Name :
           has'[k][n] = has[k][n] \/ has'[k][n].by # c
  PROVE  Accounts(c)'
<1>1. \A k \in C!Kind \ lost[c], n \in C!Name : has'[k][n].by = c => has'[k][n] = has[k][n]
  OBVIOUS
<1>2. Recorded(c)'
  BY <1>1 DEF Accounts, Recorded
<1>3. RecordedOnce(c)'
  BY DEF Accounts, RecordedOnce
<1>4. Undone(c)'
  BY <1>1 DEF Accounts, Undone, C!Kind
<1>5. QED
  BY <1>2, <1>3, <1>4 DEF Accounts

\* A step of one command leaves the accounts of the others alone.
LEMMA OthersAccounts ==
  ASSUME CreationInv, NEW d \in User, CreationTypes', Accounts(d)',
         \A c \in User \ {d} : stage'[c] = stage[c] /\ made'[c] = made[c] /\ lost'[c] = lost[c],
         \A k \in C!Kind, n \in C!Name : has'[k][n] = has[k][n] \/ has'[k][n].by \in {d, None}
  PROVE  CreationInv'
<1>1. ASSUME NEW c \in User \ {d} PROVE Accounts(c)'
  <2>1. Accounts(c) /\ c \in User /\ c # None /\ c # d
    BY CreationAssumptions DEF CreationInv
  <2>2. \A k \in C!Kind, n \in C!Name : has'[k][n] = has[k][n] \/ has'[k][n].by # c
    BY <2>1
  <2>3. QED
    BY <1>1, <2>1, <2>2, AccountsStay
<1>2. QED
  BY <1>1 DEF CreationInv

\* A step that makes nothing, and goes on.
LEMMA QuietStep ==
  ASSUME CreationInv, NEW c \in User, NEW where, C!Goto(c, where),
         UNCHANGED <<has, made, lost>>, known' \in [User -> [C!Kind -> SUBSET C!Vols]],
         \A e \in late' \ late : e.do \notin {"make", "delete"},
         stage[c] # "done", where \notin {"undoExtents", "failed"},
         where \in BeforeTargets => stage[c] \in BeforeTargets,
         where \in BeforeExtents => stage[c] \in BeforeExtents
  PROVE  CreationInv'
<1>1. /\ stage' = [d \in User |-> stage'[d]] /\ stage'[c] = where
      /\ \A d \in User \ {c} : stage'[d] = stage[d]
  BY DEF C!Goto, CreationInv, CreationTypes
<1>2. LateIsLost'
  BY LateStays DEF CreationInv, CreationTypes
<1>3. CreationTypes'
  BY <1>1, <1>2 DEF CreationInv, CreationTypes
<1>4. Accounts(c)'
  BY <1>1 DEF CreationInv, Accounts, Recorded, RecordedOnce, Undone
<1>5. QED
  BY <1>1, <1>3, <1>4, OthersAccounts

\* What a call of these stages may still do makes and deletes nothing.
LEMMA MayStillIs ==
  ASSUME NEW c \in User PROVE \A e \in C!MayStill(c) : e.do \notin {"make", "delete"}
<1>1. CASE stage[c] = "makePortal"
  BY <1>1 DEF C!MayStill
<1>2. CASE stage[c] = "makeInitiator"
  BY <1>2 DEF C!MayStill
<1>3. CASE stage[c] = "associate"
  <2>1. C!MayStill(c) = {[do |-> "associate", name |-> n, ids |-> [k \in C!Kind |-> has[k][n]]] :
                           n \in C!Paired(c) \ assoc}
    BY <1>3 DEF C!MayStill
  <2>2. QED
    BY <2>1
<1>4. CASE stage[c] \notin {"makePortal", "makeInitiator", "associate"}
  BY <1>4 DEF C!MayStill
<1>5. QED
  BY <1>1, <1>2, <1>3, <1>4

LEMMA QuietSteps ==
  ASSUME CreationInv, NEW c \in User,
         \/ C!Begin(c) \/ C!ApiError(c) \/ C!LookupPortal(c) \/ C!CreatePortal(c)
         \/ C!LookupInitiator(c) \/ C!CreateInitiator(c) \/ C!UpdateTargets(c)
         \/ C!AwaitUpdate(c) \/ C!QueryExtents(c)
  PROVE  CreationInv'
<1> USE DEF C!Shared
<1>1. \A kind \in C!Kind : C!Present(c, kind) \subseteq C!Vols
  BY CreationAssumptions DEF C!Present
<1>2. known \in [User -> [C!Kind -> SUBSET C!Vols]]
  BY DEF CreationInv, CreationTypes
<1>3. CASE C!Begin(c)
  <2>1. known' \in [User -> [C!Kind -> SUBSET C!Vols]]
    BY <1>1, <1>2, <1>3 DEF C!Begin, C!Kind
  <2>2. PICK where \in {"refused", "portal"} : C!Goto(c, where)
    BY <1>3 DEF C!Begin
  <2>3. QED
    BY <1>3, <2>1, <2>2, QuietStep DEF C!Begin, BeforeTargets, BeforeExtents
<1>4. CASE C!QueryExtents(c)
  <2>1. known' \in [User -> [C!Kind -> SUBSET C!Vols]]
    BY <1>1, <1>2, <1>4 DEF C!QueryExtents, C!Kind
  <2>2. QED
    BY <1>4, <2>1, QuietStep DEF C!QueryExtents, BeforeTargets, BeforeExtents
<1>5. CASE C!ApiError(c)
  <2>1. \A e \in late' \ late : e.do \notin {"make", "delete"}
    BY <1>5, MayStillIs DEF C!ApiError
  <2>2. QED
    BY <1>2, <1>5, <2>1, QuietStep DEF C!ApiError, BeforeTargets, BeforeExtents
<1>6. CASE C!LookupPortal(c)
  <2>1. PICK where \in {"initiator", "makePortal"} : C!Goto(c, where)
    BY <1>6 DEF C!LookupPortal
  <2>2. QED
    BY <1>2, <1>6, <2>1, QuietStep DEF C!LookupPortal, BeforeTargets, BeforeExtents
<1>7. CASE C!CreatePortal(c)
  <2>1. PICK where \in {"undoTargets", "initiator"} : C!Goto(c, where)
    BY <1>7 DEF C!CreatePortal
  <2>2. QED
    BY <1>2, <1>7, <2>1, QuietStep DEF C!CreatePortal, BeforeTargets, BeforeExtents
<1>8. CASE C!LookupInitiator(c)
  <2>1. PICK where \in {"update", "makeInitiator"} : C!Goto(c, where)
    BY <1>8 DEF C!LookupInitiator
  <2>2. QED
    BY <1>2, <1>8, <2>1, QuietStep DEF C!LookupInitiator, BeforeTargets, BeforeExtents
<1>9. CASE C!CreateInitiator(c)
  BY <1>2, <1>9, QuietStep DEF C!CreateInitiator, BeforeTargets, BeforeExtents
<1>10. CASE C!UpdateTargets(c)
  BY <1>2, <1>10, QuietStep DEF C!UpdateTargets, BeforeTargets, BeforeExtents
<1>11. CASE C!AwaitUpdate(c)
  BY <1>2, <1>11, QuietStep DEF C!AwaitUpdate, BeforeTargets, BeforeExtents
<1>12. QED
  BY <1>3, <1>4, <1>5, <1>6, <1>7, <1>8, <1>9, <1>10, <1>11

\* A call of which the command cannot tell whether it has made some.
LossOf(c, kind, vols) ==
  lost' = IF vols = {} THEN lost ELSE [lost EXCEPT ![c] = @ \cup {kind}]

LEMMA LossIs ==
  ASSUME CreationTypes, NEW c \in User, NEW kind \in C!Kind, NEW vols, LossOf(c, kind, vols)
  PROVE  /\ lost' \in [User -> SUBSET C!Kind]
         /\ lost[c] \subseteq lost'[c] /\ (vols # {} => kind \in lost'[c])
         /\ \A k \in C!Kind \ {kind} : k \in lost'[c] => k \in lost[c]
         /\ vols = {} => lost' = lost
         /\ \A d \in User \ {c} : lost'[d] = lost[d]
BY DEF CreationTypes, LossOf

\* Such a call leaves what it may still do behind.
LEMMA LateIs ==
  ASSUME CreationTypes, NEW c \in User, NEW kind \in C!Kind, NEW vols \in SUBSET C!Vols,
         NEW what \in {"make", "delete"}, NEW items,
         items = {[do |-> what, kind |-> kind, vol |-> v, by |-> c] : v \in vols},
         LossOf(c, kind, vols), late' = late \cup items
  PROVE  LateIsLost'
<1>1. \A e \in items : e.kind = kind /\ e.vol \in vols /\ e.by = c
  OBVIOUS
<1>2. \A e \in items : e.vol \in C!Vols /\ kind \in lost'[c]
  BY <1>1, LossIs
<1>3. \A d \in User : lost[d] \subseteq lost'[d]
  BY LossIs
<1>4. QED
  BY <1>1, <1>2, <1>3 DEF CreationTypes, LateIsLost

LEMMA LateStep ==
  ASSUME CreationInv, NEW c \in User, NEW kind \in C!Kind, NEW vols \in SUBSET C!Vols,
         C!Late(c, kind, vols), stage[c] # "done"
  PROVE  CreationInv'
<1>1. CreationTypes /\ LossOf(c, kind, vols)
  BY DEF CreationInv, C!Late, LossOf
<1>2. /\ stage' = [d \in User |-> stage'[d]] /\ stage'[c] = "undoTargets"
      /\ \A d \in User \ {c} : stage'[d] = stage[d]
  BY <1>1 DEF C!Late, C!Goto, CreationTypes
<1>3. LateIsLost'
  BY <1>1, LateIs DEF C!Late
<1>4. CreationTypes'
  BY <1>1, <1>2, <1>3, LossIs DEF C!Late, CreationTypes
<1>5. /\ lost[c] \subseteq lost'[c] /\ \A d \in User \ {c} : lost'[d] = lost[d]
      /\ UNCHANGED <<has, made>>
  BY <1>1, LossIs DEF C!Late
<1>6. Accounts(c)'
  BY <1>2, <1>5 DEF CreationInv, Accounts, Recorded, RecordedOnce, Undone, BeforeTargets,
     BeforeExtents
<1>7. QED
  BY <1>2, <1>4, <1>5, <1>6, OthersAccounts

\* What one call makes is recorded.
LEMMA CreateOneStep ==
  ASSUME CreationInv, NEW c \in User, NEW kind \in C!Kind, NEW vols \in SUBSET C!Vols, NEW next,
         \A v \in vols : has[kind][NameOf[v]] = C!Nobody, C!Put(c, kind, vols),
         C!Record(c, kind, vols), known' = [known EXCEPT ![c][kind] = @ \cup vols],
         C!Goto(c, next), UNCHANGED <<late, lost>>, made[c][kind] = {},
         stage[c] \notin {"done", "undoExtents", "failed"},
         next \notin {"done", "undoExtents", "failed"},
         next \in BeforeTargets => kind # "target" /\ stage[c] \in BeforeTargets,
         next \in BeforeExtents => kind # "extent" /\ stage[c] \in BeforeExtents
  PROVE  CreationInv'
<1>1. CreationTypes /\ Accounts(c)
  BY DEF CreationInv
<1>2. /\ stage' = [d \in User |-> stage'[d]] /\ stage'[c] = next
      /\ \A d \in User \ {c} : stage'[d] = stage[d]
  BY <1>1 DEF C!Goto, CreationTypes
<1>3. /\ has' \in [C!Kind -> [C!Name -> [vol : C!Vols \cup {None}, by : User \cup {None}]]]
      /\ \A k \in C!Kind, n \in C!Name :
           \/ has'[k][n] = has[k][n]
           \/ k = kind /\ has'[k][n].by = c /\ has'[k][n].vol \in vols
  BY <1>1, PutIs
<1>4. /\ made' \in [User -> [C!Kind -> SUBSET C!Vols]] /\ made'[c][kind] = vols
      /\ \A d \in User \ {c} : made'[d] = made[d]
      /\ \A k \in C!Kind \ {kind} : made'[c][k] = made[c][k]
  BY <1>1 DEF C!Record, CreationTypes
<1>5. CreationTypes'
  <2>1. known' \in [User -> [C!Kind -> SUBSET C!Vols]]
    BY <1>1 DEF CreationTypes
  <2>2. QED
    BY <1>1, <1>2, <1>3, <1>4, <2>1, LateStays DEF CreationTypes
<1>6. Recorded(c)'
  <2>1. ASSUME NEW k \in C!Kind \ lost[c], NEW n \in C!Name, has'[k][n].by = c
        PROVE  has'[k][n].vol \in made'[c][k]
    <3>1. CASE has'[k][n] = has[k][n]
      <4>1. has[k][n].vol \in made[c][k]
        BY <1>1, <2>1, <3>1 DEF Accounts, Recorded
      <4>2. QED
        BY <1>4, <3>1, <4>1
    <3>2. CASE k = kind /\ has'[k][n].vol \in vols
      BY <1>4, <3>2
    <3>3. QED
      BY <1>3, <2>1, <3>1, <3>2
  <2>2. QED
    BY <2>1 DEF Recorded
<1>7. RecordedOnce(c)'
  BY <1>1, <1>2, <1>4 DEF Accounts, RecordedOnce, BeforeTargets, BeforeExtents, C!Kind
<1>8. Undone(c)'
  BY <1>2 DEF Undone
<1>9. QED
  BY <1>2, <1>3, <1>4, <1>5, <1>6, <1>7, <1>8, OthersAccounts DEF Accounts

\* What a job makes the command loses track of.
LEMMA CreateJobStep ==
  ASSUME CreationInv, NEW c \in User, NEW kind \in C!Kind, NEW vols \in SUBSET C!Vols, NEW next,
         \A v \in vols : has[kind][NameOf[v]] = C!Nobody, C!Put(c, kind, vols),
         LossOf(c, kind, vols), C!Goto(c, next), UNCHANGED <<late, known, made>>,
         stage[c] \notin {"done", "undoExtents", "failed"},
         next \notin {"done", "undoExtents", "failed"},
         next \in BeforeTargets => stage[c] \in BeforeTargets,
         next \in BeforeExtents => stage[c] \in BeforeExtents
  PROVE  CreationInv'
<1>1. CreationTypes /\ Accounts(c)
  BY DEF CreationInv
<1>2. /\ stage' = [d \in User |-> stage'[d]] /\ stage'[c] = next
      /\ \A d \in User \ {c} : stage'[d] = stage[d]
  BY <1>1 DEF C!Goto, CreationTypes
<1>3. /\ has' \in [C!Kind -> [C!Name -> [vol : C!Vols \cup {None}, by : User \cup {None}]]]
      /\ \A k \in C!Kind, n \in C!Name :
           \/ has'[k][n] = has[k][n]
           \/ k = kind /\ has'[k][n].by = c /\ has'[k][n].vol \in vols
  <2>1. /\ has' \in [C!Kind -> [C!Name -> [vol : C!Vols \cup {None}, by : User \cup {None}]]]
        /\ \A k \in C!Kind, n \in C!Name :
             \/ has'[k][n] = has[k][n] /\ (k = kind => \A v \in vols : NameOf[v] # n)
             \/ /\ k = kind /\ has[k][n] = C!Nobody
                /\ has'[k][n].by = c /\ has'[k][n].vol \in vols
                /\ NameOf[has'[k][n].vol] = n
    BY <1>1, PutIs
  <2>2. QED
    BY <2>1
<1>4. /\ lost' \in [User -> SUBSET C!Kind]
      /\ lost[c] \subseteq lost'[c] /\ (vols # {} => kind \in lost'[c])
      /\ \A d \in User \ {c} : lost'[d] = lost[d]
  BY <1>1, LossIs
<1>5. CreationTypes'
  <2>1. LateIsLost'
    BY <1>1, <1>4, LateStays DEF CreationTypes
  <2>2. QED
    BY <1>1, <1>2, <1>3, <1>4, <2>1 DEF CreationTypes
<1>6. Recorded(c)'
  <2>1. ASSUME NEW k \in C!Kind \ lost'[c], NEW n \in C!Name, has'[k][n].by = c
        PROVE  has'[k][n].vol \in made'[c][k]
    <3>1. has'[k][n] = has[k][n] /\ k \notin lost[c]
      BY <1>3, <1>4, <2>1
    <3>2. QED
      BY <1>1, <2>1, <3>1 DEF Accounts, Recorded
  <2>2. QED
    BY <2>1 DEF Recorded
<1>7. RecordedOnce(c)'
  BY <1>1, <1>2 DEF Accounts, RecordedOnce
<1>8. Undone(c)'
  BY <1>2 DEF Undone
<1>9. QED
  BY <1>2, <1>3, <1>4, <1>5, <1>6, <1>7, <1>8, OthersAccounts DEF Accounts

LEMMA CreateStep ==
  ASSUME CreationInv, NEW c \in User, NEW kind \in C!Kind, NEW tasks \in SUBSET C!Vols, NEW next,
         C!Create(c, kind, tasks, next), made[c][kind] = {},
         stage[c] \notin {"done", "undoExtents", "failed"},
         next \notin {"done", "undoExtents", "failed"},
         next \in BeforeTargets => kind # "target" /\ stage[c] \in BeforeTargets,
         next \in BeforeExtents => kind # "extent" /\ stage[c] \in BeforeExtents
  PROVE  CreationInv'
<1> USE DEF C!Free
<1>1. ASSUME NEW where \in {next, "undoTargets"}, C!Goto(c, where),
             UNCHANGED <<has, late, known, made, lost>>
      PROVE  CreationInv'
  <2>1. where \in BeforeTargets => stage[c] \in BeforeTargets
    BY DEF BeforeTargets
  <2>2. where \in BeforeExtents => stage[c] \in BeforeExtents
    BY DEF BeforeTargets, BeforeExtents
  <2>3. known' \in [User -> [C!Kind -> SUBSET C!Vols]]
    BY <1>1 DEF CreationInv, CreationTypes
  <2>4. QED
    BY <1>1, <2>1, <2>2, <2>3, QuietStep
<1>2. ASSUME NEW v \in tasks, C!CreateOne(c, kind, v, next) PROVE CreationInv'
  <2>1. {v} \in SUBSET C!Vols
    OBVIOUS
  <2>2. CASE C!Late(c, kind, {v})
    BY <2>1, <2>2, LateStep
  <2>3. CASE C!Goto(c, "undoTargets") /\ UNCHANGED <<has, late, known, made, lost>>
    BY <1>1, <2>3
  <2>4. CASE /\ C!Free(kind, {v}) = {v} /\ C!Put(c, kind, {v}) /\ C!Record(c, kind, {v})
             /\ known' = [known EXCEPT ![c][kind] = @ \cup {v}] /\ C!Goto(c, next)
             /\ UNCHANGED <<late, lost>>
    <3>1. \A w \in {v} : has[kind][NameOf[w]] = C!Nobody
      BY <2>4
    <3>2. QED
      BY <2>1, <2>4, <3>1, CreateOneStep
  <2>5. QED
    BY <1>2, <2>2, <2>3, <2>4 DEF C!CreateOne
<1>3. CASE C!CreateBulk(c, kind, tasks, next)
  <2>1. PICK vols \in SUBSET C!Free(kind, tasks) :
          \/ C!Put(c, kind, vols) /\ LossOf(c, kind, vols) /\ C!Goto(c, next)
             /\ UNCHANGED <<late, known, made>>
          \/ C!Late(c, kind, vols)
    BY <1>3 DEF C!CreateBulk, LossOf
  <2>2. vols \in SUBSET C!Vols /\ \A v \in vols : has[kind][NameOf[v]] = C!Nobody
    OBVIOUS
  <2>3. CASE C!Late(c, kind, vols)
    BY <2>2, <2>3, LateStep
  <2>4. CASE C!Put(c, kind, vols) /\ LossOf(c, kind, vols) /\ C!Goto(c, next)
             /\ UNCHANGED <<late, known, made>>
    BY <2>2, <2>4, CreateJobStep
  <2>5. QED
    BY <2>1, <2>3, <2>4
<1>4. QED
  BY <1>1, <1>2, <1>3 DEF C!Create

LEMMA CreateSteps ==
  ASSUME CreationInv, NEW c \in User, C!CreateTargets(c) \/ C!CreateExtents(c)
  PROVE  CreationInv'
<1>1. Several[c] \subseteq C!Vols /\ RecordedOnce(c)
  BY CreationAssumptions DEF CreationInv, Accounts
<1>2. CASE C!CreateTargets(c)
  <2>1. /\ stage[c] = "makeTargets"
        /\ C!Create(c, "target", Several[c] \ known[c]["target"], "awaitUpdate")
    BY <1>2 DEF C!CreateTargets
  <2>2. QED
    BY <1>1, <2>1, CreateStep DEF RecordedOnce, C!Kind, BeforeTargets, BeforeExtents
<1>3. CASE C!CreateExtents(c)
  <2>1. /\ stage[c] = "makeExtents"
        /\ C!Create(c, "extent", Several[c] \ known[c]["extent"], "associate")
    BY <1>3 DEF C!CreateExtents
  <2>2. QED
    BY <1>1, <2>1, CreateStep DEF RecordedOnce, C!Kind, BeforeTargets, BeforeExtents
<1>4. QED
  BY <1>2, <1>3

\* The last call: whoever is done answers for nothing any more.
LEMMA AssociateStep == ASSUME CreationInv, NEW c \in User, C!Associate(c) PROVE CreationInv'
<1>1. stage[c] = "associate" /\ UNCHANGED <<has, late, known, lost>> /\ CreationTypes
  BY DEF C!Associate, CreationInv
<1>2. CASE C!Goto(c, "done") /\ made' = [made EXCEPT ![c] = C!Empty]
  <2>1. /\ made' \in [User -> [C!Kind -> SUBSET C!Vols]] /\ made'[c] = C!Empty
        /\ \A d \in User \ {c} : made'[d] = made[d]
    BY <1>1, <1>2 DEF CreationTypes, C!Empty
  <2>2. /\ stage' = [d \in User |-> stage'[d]] /\ stage'[c] = "done"
        /\ \A d \in User \ {c} : stage'[d] = stage[d]
    BY <1>1, <1>2 DEF C!Goto, CreationTypes
  <2>3. CreationTypes'
    BY <1>1, <2>1, <2>2, LateStays DEF CreationTypes
  <2>4. Accounts(c)'
    BY <2>2 DEF Accounts, Recorded, RecordedOnce, Undone, BeforeTargets, BeforeExtents
  <2>5. QED
    BY <1>1, <2>1, <2>2, <2>3, <2>4, OthersAccounts
<1>3. CASE C!Goto(c, "undoTargets") /\ UNCHANGED made
  BY <1>1, <1>3, QuietStep DEF CreationTypes, BeforeTargets, BeforeExtents
<1>4. QED
  BY <1>2, <1>3 DEF C!Associate

\* A deletion by id takes only what the command has made and recorded.
LEMMA RemoveIs ==
  ASSUME CreationTypes, NEW c \in User, NEW kind \in C!Kind, NEW vols, C!Remove(c, kind, vols)
  PROVE  /\ has' \in [C!Kind -> [C!Name -> [vol : C!Vols \cup {None}, by : User \cup {None}]]]
         /\ \A k \in C!Kind \ {kind} : has'[k] = has[k]
         /\ \A n \in C!Name :
              \/ /\ has[kind][n].by = c /\ has[kind][n].vol \in vols
                 /\ has'[kind][n] = C!Nobody
              \/ /\ has'[kind][n] = has[kind][n]
                 /\ has[kind][n].by = c => has[kind][n].vol \notin vols
                 /\ n \in assoc => n \in assoc'
         /\ assoc' \subseteq assoc
<1> DEFINE names == {n \in C!Name : has[kind][n].by = c /\ has[kind][n].vol \in vols}
<1>1. /\ has' = [has EXCEPT ![kind] = [n \in C!Name |->
           IF n \in names THEN C!Nobody ELSE has[kind][n]]]
      /\ assoc' = assoc \ names
  BY DEF C!Remove
<1>2. C!Nobody \in [vol : C!Vols \cup {None}, by : User \cup {None}]
  BY DEF C!Nobody
<1>3. QED
  BY <1>1, <1>2 DEF CreationTypes

\* Undoing takes away what is recorded, or the command cannot tell.
LEMMA UndoStep ==
  ASSUME CreationInv, NEW c \in User, NEW kind \in C!Kind, NEW next, C!Undo(c, kind, next),
         \/ stage[c] = "undoTargets" /\ kind = "target" /\ next = "undoExtents"
         \/ stage[c] = "undoExtents" /\ kind = "extent" /\ next = "failed"
  PROVE  CreationInv'
<1>1. CreationTypes /\ Accounts(c) /\ C!Goto(c, next) /\ UNCHANGED <<known, made>>
  BY DEF CreationInv, C!Undo
<1>2. /\ stage' = [d \in User |-> stage'[d]] /\ stage'[c] = next
      /\ \A d \in User \ {c} : stage'[d] = stage[d]
  BY <1>1 DEF C!Goto, CreationTypes
<1>3. RecordedOnce(c)'
  BY <1>2 DEF RecordedOnce, BeforeTargets, BeforeExtents
<1>4. CASE /\ made[c][kind] # {} /\ UNCHANGED <<has, assoc>>
           /\ late' \in {late, late \cup {[do |-> "delete", kind |-> kind, vol |-> v, by |-> c] :
                                            v \in made[c][kind]}}
           /\ lost' = [lost EXCEPT ![c] = @ \cup {kind}]
  <2>1. LossOf(c, kind, made[c][kind]) /\ made[c][kind] \in SUBSET C!Vols
    BY <1>1, <1>4 DEF LossOf, CreationTypes
  <2>2. /\ lost' \in [User -> SUBSET C!Kind] /\ kind \in lost'[c] /\ lost[c] \subseteq lost'[c]
        /\ \A d \in User \ {c} : lost'[d] = lost[d]
    BY <1>1, <1>4, <2>1, LossIs
  <2>3. LateIsLost'
    <3>1. CASE late' = late
      BY <1>1, <2>2, <3>1, LateStays DEF CreationTypes
    <3>2. CASE late' = late \cup {[do |-> "delete", kind |-> kind, vol |-> v, by |-> c] :
                                    v \in made[c][kind]}
      BY <1>1, <2>1, <3>2, LateIs
    <3>3. QED
      BY <1>4, <3>1, <3>2
  <2>4. CreationTypes'
    BY <1>1, <1>2, <1>4, <2>2, <2>3 DEF CreationTypes
  <2>5. Recorded(c)'
    BY <1>1, <1>2, <1>4, <2>2 DEF Accounts, Recorded
  <2>6. Undone(c)'
    BY <1>1, <1>2, <1>4, <2>2 DEF Accounts, Undone
  <2>7. QED
    BY <1>1, <1>2, <1>3, <1>4, <2>2, <2>4, <2>5, <2>6, OthersAccounts DEF Accounts
<1>5. CASE C!Remove(c, kind, made[c][kind]) /\ UNCHANGED <<late, lost>>
  <2>1. /\ has' \in [C!Kind -> [C!Name -> [vol : C!Vols \cup {None}, by : User \cup {None}]]]
        /\ \A k \in C!Kind \ {kind} : has'[k] = has[k]
        /\ \A n \in C!Name :
             \/ has'[kind][n] = C!Nobody
             \/ /\ has'[kind][n] = has[kind][n]
                /\ has[kind][n].by = c => has[kind][n].vol \notin made[c][kind]
    BY <1>1, <1>5, RemoveIs
  <2>2. CreationTypes'
    BY <1>1, <1>2, <1>5, <2>1, LateStays DEF CreationTypes
  <2>3. C!Nobody.by = None /\ c # None
    BY CreationAssumptions DEF C!Nobody
  <2>4. \A k \in C!Kind, n \in C!Name : has'[k][n] = has[k][n] \/ has'[k][n].by = None
    BY <2>1, <2>3
  <2>5. Recorded(c)'
    BY <1>1, <1>2, <1>5, <2>3, <2>4 DEF Accounts, Recorded
  <2>6. kind \notin lost[c] => \A n \in C!Name : has'[kind][n].by # c
    BY <1>1, <2>1, <2>3 DEF Accounts, Recorded
  <2>7. Undone(c)'
    BY <1>1, <1>2, <1>5, <2>1, <2>6 DEF Accounts, Undone, C!Kind
  <2>8. QED
    BY <1>1, <1>2, <1>3, <1>5, <2>2, <2>4, <2>5, <2>7, OthersAccounts DEF Accounts
<1>6. QED
  BY <1>4, <1>5 DEF C!Undo

\* What the host does of the calls that were given up on, nobody can tell of.
LEMMA LateEffectStep == ASSUME CreationInv, C!LateEffect PROVE CreationInv'
<1>1. PICK e \in late :
        /\ C!LateMake(e) \/ C!LateDelete(e) \/ C!LateAssociate(e) \/ C!LatePortal(e)
           \/ C!LateInitiator(e)
        /\ late' = late \ {e} /\ UNCHANGED <<stage, known, made, lost>>
  BY DEF C!LateEffect
<1>2. CreationTypes /\ LateIsLost' /\ \A c \in User : Accounts(c)
  BY <1>1, LateStays DEF CreationInv, CreationTypes
<1>3. /\ has' \in [C!Kind -> [C!Name -> [vol : C!Vols \cup {None}, by : User \cup {None}]]]
      /\ \A k \in C!Kind, n \in C!Name :
           \/ has'[k][n] = has[k][n] \/ has'[k][n].by = None
           \/ has'[k][n].by \in User /\ k \in lost[has'[k][n].by]
  <2>1. CASE C!LateMake(e)
    <3>1. /\ e.kind \in C!Kind /\ e.vol \in C!Vols /\ e.by \in User /\ e.kind \in lost[e.by]
          /\ C!Put(e.by, e.kind, {e.vol})
      BY <1>2, <2>1 DEF CreationTypes, LateIsLost, C!LateMake
    <3>2. {e.vol} \in SUBSET C!Vols /\ \A v \in {e.vol} : has[e.kind][NameOf[v]] = C!Nobody
      BY <2>1, <3>1 DEF C!LateMake, C!Free
    <3>3. /\ has' \in [C!Kind -> [C!Name -> [vol : C!Vols \cup {None}, by : User \cup {None}]]]
          /\ \A k \in C!Kind, n \in C!Name :
               \/ has'[k][n] = has[k][n] /\ (k = e.kind => \A v \in {e.vol} : NameOf[v] # n)
               \/ /\ k = e.kind /\ has[k][n] = C!Nobody
                  /\ has'[k][n].by = e.by /\ has'[k][n].vol \in {e.vol}
                  /\ NameOf[has'[k][n].vol] = n
      BY <1>2, <3>1, <3>2, PutIs
    <3>4. QED
      BY <3>1, <3>3
  <2>2. CASE C!LateDelete(e)
    <3>1. e.kind \in C!Kind /\ e.by \in User /\ C!Remove(e.by, e.kind, {e.vol})
      BY <1>2, <2>2 DEF CreationTypes, LateIsLost, C!LateDelete
    <3>2. QED
      BY <1>2, <3>1, RemoveIs DEF C!Nobody
  <2>3. CASE UNCHANGED has
    BY <1>2, <2>3 DEF CreationTypes
  <2>4. QED
    BY <1>1, <2>1, <2>2, <2>3 DEF C!LateAssociate, C!LatePortal, C!LateInitiator
<1>4. CreationTypes'
  BY <1>1, <1>2, <1>3 DEF CreationTypes
<1>5. ASSUME NEW c \in User PROVE Accounts(c)'
  <2>1. c # None
    BY CreationAssumptions
  <2>2. \A k \in C!Kind \ lost[c], n \in C!Name : has'[k][n] = has[k][n] \/ has'[k][n].by # c
    BY <1>3, <2>1
  <2>3. QED
    BY <1>1, <1>2, <2>2, AccountsStay
<1>6. QED
  BY <1>4, <1>5 DEF CreationInv

LEMMA CreationNext == ASSUME CreationInv, C!Next PROVE CreationInv'
<1>1. ASSUME NEW c \in User, C!Step(c) PROVE CreationInv'
  <2>1. CASE C!CreateTargets(c) \/ C!CreateExtents(c)
    BY <2>1, CreateSteps
  <2>2. CASE C!Associate(c)
    BY <2>2, AssociateStep
  <2>3. CASE C!UndoTargets(c) \/ C!UndoExtents(c)
    BY <2>3, UndoStep DEF C!UndoTargets, C!UndoExtents, C!Kind
  <2>4. QED
    BY <1>1, <2>1, <2>2, <2>3, QuietSteps DEF C!Step
<1>2. QED
  BY <1>1, LateEffectStep DEF C!Next

\* What the host has at first was made by nobody.
LEMMA FirstOnes ==
  ASSUME C!Init
  PROVE  CreationTypes /\ \A k \in C!Kind, n \in C!Name : has[k][n].by = None
<1>1. PICK old \in SUBSET C!Vols, half \in SUBSET C!Vols :
        has = [k \in C!Kind |-> [n \in C!Name |->
            LET vs == {v \in IF k = "target" THEN old ELSE old \cap half : NameOf[v] = n}
            IN  IF vs = {} THEN C!Nobody ELSE [vol |-> CHOOSE v \in vs : TRUE, by |-> None]]]
  BY DEF C!Init
<1>2. ASSUME NEW k \in C!Kind, NEW n \in C!Name
      PROVE  has[k][n] \in [vol : C!Vols \cup {None}, by : User \cup {None}] /\ has[k][n].by = None
  <2>1. PICK vs \in SUBSET C!Vols :
          vs = {v \in IF k = "target" THEN old ELSE old \cap half : NameOf[v] = n}
    OBVIOUS
  <2>2. has[k][n] = IF vs = {} THEN C!Nobody ELSE [vol |-> CHOOSE v \in vs : TRUE, by |-> None]
    BY <1>1, <2>1
  <2>3. vs # {} => (CHOOSE v \in vs : TRUE) \in C!Vols
    OBVIOUS
  <2>4. QED
    BY <2>2, <2>3 DEF C!Nobody
<1>3. has \in [C!Kind -> [C!Name -> [vol : C!Vols \cup {None}, by : User \cup {None}]]]
  <2>1. has = [k \in C!Kind |-> [n \in C!Name |-> has[k][n]]]
    BY <1>1
  <2>2. QED
    BY <1>2, <2>1
<1>4. CreationTypes
  BY <1>3 DEF C!Init, CreationTypes, C!Empty, LateIsLost
<1>5. QED
  BY <1>2, <1>4

LEMMA CreationInit == C!Init => CreationInv
<1> SUFFICES ASSUME C!Init, NEW c \in User PROVE Accounts(c)
  BY FirstOnes DEF CreationInv
<1>1. made[c] = C!Empty /\ stage[c] = "idle" /\ c # None
  BY CreationAssumptions DEF C!Init
<1>2. QED
  BY <1>1, FirstOnes DEF Accounts, Recorded, RecordedOnce, Undone, C!Empty, C!Kind

SeveralInv == part = "several" => CreationInv

LEMMA SeveralNext == ASSUME SeveralInv, [PartsNext]_allvars PROVE SeveralInv'
<1>1. CASE part = "several" /\ C!Next
  BY <1>1, CreationNext DEF SeveralInv
<1>2. CASE UNCHANGED <<part, creation>>
  BY <1>2 DEF SeveralInv, creation, CreationInv, CreationTypes, LateIsLost, Accounts, Recorded,
     RecordedOnce, Undone
<1>3. CASE part' = part /\ part # "several"
  BY <1>3 DEF SeveralInv
<1>4. QED
  BY <1>1, <1>2, <1>3 DEF PartsNext, allvars

\* A creating command that fails has taken back every target and extent it has
\* made (undoIscsiCreateList, iscsi.go), whatever others create at the same time
\* and whatever calls are done late, but of a kind for which a call of its own
\* had no usable answer.
THEOREM CreateFailureLeavesNothing == PartsSpec => []FailureLeavesNothing
<1>1. PartsInit => SeveralInv
  BY CreationInit DEF PartsInit, SeveralInv
<1>2. SeveralInv => FailureLeavesNothing
  BY DEF SeveralInv, CreationInv, Accounts, Undone, FailureLeavesNothing,
     C!FailureLeavesNothing, C!Kind
<1>3. QED
  BY <1>1, <1>2, SeveralNext, PTL DEF PartsSpec

------------------------------------------------------------------------------
(* Creation by one command after the other *)

AfterTargets == {"awaitUpdate", "queryExtents", "makeExtents", "associate"}
Forward ==
  {"portal", "makePortal", "initiator", "makeInitiator", "update", "makeTargets"}
  \cup AfterTargets

Busy(c) == stage[c] \notin C!Over \cup {"idle"}
OneIsBusy == \A c, d \in User : Busy(c) /\ Busy(d) => c = d
Fresh == \A c \in User : stage[c] = "idle" => made[c] = C!Empty /\ known[c] = C!Empty

\* A command cannot tell of what it has recorded only when it undoes it.
LostInUndoing(c) ==
  /\ stage[c] \in BeforeTargets => "target" \notin lost[c] /\ made[c]["target"] = {}
  /\ stage[c] \in BeforeExtents => "extent" \notin lost[c] /\ made[c]["extent"] = {}
  /\ \A k \in lost[c] : made[c][k] # {} => stage[c] \in {"undoExtents", "failed"}

\* What may still be deleted is in doubt.
LateIsInDoubt == \A e \in late : e.do = "delete" => e.vol \in made[e.by][e.kind]

\* What a command that has not failed knows of its one volume is so.
Progress(c, v) ==
  /\ \A k \in C!Kind : known[c][k] \subseteq {v}
  /\ stage[c] \in Forward =>
       C!InDoubt(v) \/ \A k \in C!Kind : v \in known[c][k] => has[k][NameOf[v]].vol = v
  /\ stage[c] \in AfterTargets => v \in known[c]["target"]
  /\ stage[c] = "associate" => v \in known[c]["extent"]

IsShared(v) == (\A k \in C!Kind : has[k][NameOf[v]].vol = v) /\ NameOf[v] \in assoc

\* What is shared stays so, for no other command may undo it.
Finished(c, v) ==
  stage[c] = "done" => C!InDoubt(v) \/
    (IsShared(v) /\ \A d \in User, k \in C!Kind : Busy(d) => v \notin made[d][k])

SoleInv ==
  /\ CreationTypes /\ OneIsBusy /\ Fresh /\ LateIsInDoubt
  /\ \A c \in User : LostInUndoing(c)
  /\ \A c \in User, v \in C!Vols : Singles[c] = {v} => Progress(c, v) /\ Finished(c, v)

\* A command keeps the record of what it cannot tell of.
LossStays(c) == \A k \in lost[c] : k \in lost'[c] /\ made[c][k] \subseteq made'[c][k]

\* A step of the one command that is busy or begins.
LEMMA SoleStep ==
  ASSUME SoleInv, CreationTypes', NEW c \in User, stage'[c] # "idle",
         \A d \in User \ {c} : /\ ~Busy(d) /\ stage'[d] = stage[d] /\ made'[d] = made[d]
                               /\ known'[d] = known[d] /\ lost'[d] = lost[d],
         LostInUndoing(c)', LossStays(c),
         \A e \in late' \ late : e.do = "delete" => e.vol \in made'[e.by][e.kind],
         \A v \in C!Vols : Singles[c] = {v} =>
           Progress(c, v)' /\ (stage'[c] = "done" => C!InDoubt(v)' \/ IsShared(v)'),
         \A d \in User \ {c}, v \in C!Vols : Singles[d] = {v} /\ stage[d] = "done" =>
           C!InDoubt(v)' \/
             (IsShared(v)' /\ (Busy(c)' => \A k \in C!Kind : v \notin made'[c][k]))
  PROVE  SoleInv'
<1>1. (\A d \in User \ {c} : ~Busy(d)') /\ (Busy(c)' => stage'[c] # "done")
  BY DEF Busy, C!Over
<1>2. OneIsBusy'
  BY <1>1 DEF OneIsBusy
<1>3. Fresh'
  BY DEF SoleInv, Fresh
<1>4. \A d \in User : LossStays(d)
  BY DEF LossStays
<1>5. LateIsInDoubt'
  <2>1. \A e \in late : e.do = "delete" => e.by \in User /\ e.kind \in lost[e.by]
    BY DEF SoleInv, CreationTypes, LateIsLost
  <2>2. QED
    BY <1>4, <2>1 DEF SoleInv, LateIsInDoubt, LossStays
<1>6. \A d \in User : LostInUndoing(d)'
  BY DEF SoleInv, LostInUndoing
<1>7. \A v : C!InDoubt(v) => C!InDoubt(v)'
  BY <1>4 DEF C!InDoubt, LossStays
<1>8. ASSUME NEW d \in User, NEW v \in C!Vols, Singles[d] = {v}
      PROVE  Progress(d, v)' /\ Finished(d, v)'
  <2>1. CASE d = c
    BY <1>1, <1>8, <2>1 DEF Finished
  <2>2. CASE d # c
    <3>1. Progress(d, v) /\ ~Busy(d) /\ stage'[d] = stage[d] /\ known'[d] = known[d]
      BY <1>8, <2>2 DEF SoleInv
    <3>2. Progress(d, v)'
      BY <3>1 DEF Progress, Busy, Forward, AfterTargets, C!Over
    <3>3. Finished(d, v)'
      BY <1>1, <1>8, <2>2, <3>1 DEF Finished
    <3>4. QED
      BY <3>2, <3>3
  <2>3. QED
    BY <2>1, <2>2
<1>9. QED
  BY <1>2, <1>3, <1>5, <1>6, <1>8 DEF SoleInv

\* A step that changes no share.
LEMMA QuietSoleStep ==
  ASSUME SoleInv, NEW c \in User, NEW where, S!Goto(c, where),
         where \notin {"idle", "done", "undoExtents", "failed"},
         UNCHANGED <<has, assoc, made, lost>>, stage[c] = "idle" \/ Busy(c),
         stage[c] \notin {"undoExtents", "failed"},
         where \in BeforeTargets => stage[c] \in BeforeTargets,
         where \in BeforeExtents => stage[c] \in BeforeExtents,
         \A e \in late' \ late : e.do \notin {"make", "delete"},
         known' \in [User -> [C!Kind -> SUBSET C!Vols]],
         \A d \in User \ {c} : ~Busy(d) /\ known'[d] = known[d],
         \A v \in C!Vols : Singles[c] = {v} => Progress(c, v)'
  PROVE  SoleInv'
<1>1. CreationTypes /\ OneIsBusy /\ Fresh /\ LostInUndoing(c)
  BY DEF SoleInv
<1>2. /\ stage' = [d \in User |-> stage'[d]] /\ stage'[c] = where
      /\ \A d \in User \ {c} : stage'[d] = stage[d]
  BY <1>1 DEF S!Goto, CreationTypes
<1>3. CreationTypes'
  BY <1>1, <1>2, LateStays DEF CreationTypes
<1>4. ASSUME NEW d \in User \ {c}, NEW v \in C!Vols, Singles[d] = {v}, stage[d] = "done"
      PROVE  C!InDoubt(v)' \/ (IsShared(v)' /\ \A k \in C!Kind : v \notin made'[c][k])
  <2>1. Finished(d, v) /\ (C!InDoubt(v) => C!InDoubt(v)')
    BY <1>4 DEF SoleInv, C!InDoubt
  <2>2. CASE C!InDoubt(v)
    BY <2>1, <2>2
  <2>3. CASE ~C!InDoubt(v)
    <3>1. IsShared(v)'
      BY <1>4, <2>1, <2>3 DEF Finished, IsShared
    <3>2. \A k \in C!Kind : v \notin made[c][k]
      BY <1>1, <1>4, <2>1, <2>3 DEF Fresh, Finished, C!Empty
    <3>3. QED
      BY <3>1, <3>2
  <2>4. QED
    BY <2>2, <2>3
<1>5. LostInUndoing(c)' /\ LossStays(c)
  BY <1>1, <1>2 DEF LostInUndoing, LossStays
<1>6. QED
  BY <1>2, <1>3, <1>4, <1>5, SoleStep

LEMMA AloneWhenBusy ==
  ASSUME SoleInv, NEW c \in User, Busy(c) PROVE \A d \in User \ {c} : ~Busy(d)
BY DEF SoleInv, OneIsBusy

LEMMA AloneWhenBeginning ==
  ASSUME SoleInv, NEW c \in User, S!Begin(c) PROVE stage[c] = "idle" /\ \A d \in User : ~Busy(d)
<1> DEFINE active == {d \in User : stage[d] \notin S!Over \cup {"idle"}}
<1>1. stage[c] = "idle" /\ S!Cardinality(active) < 1
  BY DEF S!Begin
<1>2. S!Cardinality(active) = Cardinality(active)
  BY DEF S!Cardinality, Cardinality
<1>3. ASSUME NEW d \in User, Busy(d) PROVE FALSE
  <2>1. active = {d}
    BY <1>3 DEF SoleInv, OneIsBusy, Busy, C!Over, S!Over
  <2>2. Cardinality({d}) = 1
    BY FS_Singleton
  <2>3. QED
    BY <1>1, <1>2, <2>1, <2>2
<1>4. QED
  BY <1>1, <1>3

LEMMA BeginSole == ASSUME SoleInv, NEW c \in User, S!Begin(c) PROVE SoleInv'
<1>1. stage[c] = "idle" /\ \A d \in User : ~Busy(d)
  BY AloneWhenBeginning
<1>2. PICK where \in {"refused", "portal"} : S!Goto(c, where)
  BY DEF S!Begin
<1>3. known \in [User -> [C!Kind -> SUBSET C!Vols]] /\ known[c] = C!Empty
  BY <1>1 DEF SoleInv, CreationTypes, Fresh
<1>4. S!Present(c, "target") \in SUBSET C!Vols
  BY CreationAssumptions DEF S!Present
<1>5. known' \in [User -> [C!Kind -> SUBSET C!Vols]] /\ \A d \in User \ {c} : known'[d] = known[d]
  BY <1>3, <1>4 DEF S!Begin, C!Kind
<1>6. known'[c] = C!Empty \/ known'[c] = [C!Empty EXCEPT !["target"] = S!Present(c, "target")]
  BY <1>3 DEF S!Begin
<1>7. ASSUME NEW v \in C!Vols, Singles[c] = {v} PROVE Progress(c, v)'
  <2>1. stage'[c] = where /\ where \notin AfterTargets /\ UNCHANGED has
    BY <1>2 DEF S!Goto, SoleInv, CreationTypes, AfterTargets, S!Begin, S!Shared
  <2>2. \A k \in C!Kind : known'[c][k] \subseteq {v}
    BY <1>6, <1>7 DEF C!Empty, C!Kind, S!Present
  <2>3. \A k \in C!Kind : v \in known'[c][k] => has[k][NameOf[v]].vol = v
    BY <1>6, <1>7 DEF C!Empty, C!Kind, S!Present
  <2>4. QED
    BY <2>1, <2>2, <2>3 DEF Progress, AfterTargets
<1>8. QED
  BY <1>1, <1>2, <1>5, <1>7, QuietSoleStep DEF S!Begin, S!Shared, BeforeTargets, BeforeExtents

LEMMA QueryExtentsSole == ASSUME SoleInv, NEW c \in User, S!QueryExtents(c) PROVE SoleInv'
<1>1. /\ stage[c] = "queryExtents" /\ S!Goto(c, "makeExtents")
      /\ UNCHANGED <<has, assoc, late, made, lost>>
      /\ known' = [known EXCEPT ![c]["extent"] = S!Present(c, "extent")]
  BY DEF S!QueryExtents, S!Shared
<1>2. Busy(c) /\ \A d \in User \ {c} : ~Busy(d)
  BY <1>1, AloneWhenBusy DEF Busy, C!Over
<1>3. known \in [User -> [C!Kind -> SUBSET C!Vols]]
  BY DEF SoleInv, CreationTypes
<1>4. S!Present(c, "extent") \in SUBSET C!Vols
  BY CreationAssumptions DEF S!Present
<1>5. /\ known' \in [User -> [C!Kind -> SUBSET C!Vols]]
      /\ known'[c]["extent"] = S!Present(c, "extent")
      /\ known'[c]["target"] = known[c]["target"]
      /\ \A d \in User \ {c} : known'[d] = known[d]
  BY <1>1, <1>3, <1>4 DEF C!Kind
<1>6. ASSUME NEW v \in C!Vols, Singles[c] = {v} PROVE Progress(c, v)'
  <2>1. stage'[c] = "makeExtents"
    BY <1>1 DEF S!Goto, SoleInv, CreationTypes
  <2>2. Progress(c, v) /\ (C!InDoubt(v) => C!InDoubt(v)')
    BY <1>1, <1>6 DEF SoleInv, C!InDoubt
  <2>3. S!Present(c, "extent") \subseteq {v}
        /\ (v \in S!Present(c, "extent") => has["extent"][NameOf[v]].vol = v)
    BY <1>6 DEF S!Present
  <2>4. QED
    BY <1>1, <1>5, <2>1, <2>2, <2>3 DEF Progress, Forward, AfterTargets, C!Kind
<1>7. QED
  BY <1>1, <1>2, <1>5, <1>6, QuietSoleStep DEF BeforeTargets, BeforeExtents

\* A call that changes nothing here.
LEMMA CallSole ==
  ASSUME SoleInv, NEW c \in User, Busy(c), NEW where, S!Goto(c, where),
         where \notin {"idle", "done", "undoExtents", "failed"},
         UNCHANGED <<has, assoc, known, made, lost>>,
         stage[c] # "undoExtents",
         \A e \in late' \ late : e.do \notin {"make", "delete"},
         where \in BeforeTargets => stage[c] \in BeforeTargets,
         where \in BeforeExtents => stage[c] \in BeforeExtents,
         where \in Forward => stage[c] \in Forward,
         where \in AfterTargets => stage[c] \in AfterTargets,
         where # "associate"
  PROVE  SoleInv'
<1>1. known \in [User -> [C!Kind -> SUBSET C!Vols]] /\ \A d \in User \ {c} : ~Busy(d)
  BY AloneWhenBusy DEF SoleInv, CreationTypes
<1>2. ASSUME NEW v \in C!Vols, Singles[c] = {v} PROVE Progress(c, v)'
  <2>1. Progress(c, v) /\ stage'[c] = where /\ (C!InDoubt(v) => C!InDoubt(v)')
    BY <1>2 DEF SoleInv, S!Goto, CreationTypes, C!InDoubt
  <2>2. QED
    BY <2>1 DEF Progress
<1>3. QED
  BY <1>1, <1>2, QuietSoleStep DEF Busy, C!Over

LEMMA CallsSole ==
  ASSUME SoleInv, NEW c \in User,
         \/ S!ApiError(c) \/ S!LookupPortal(c) \/ S!CreatePortal(c)
         \/ S!LookupInitiator(c) \/ S!CreateInitiator(c) \/ S!UpdateTargets(c) \/ S!AwaitUpdate(c)
  PROVE  SoleInv'
<1> USE DEF S!Shared, Busy, C!Over, Forward, AfterTargets, BeforeTargets, BeforeExtents
<1>1. CASE S!ApiError(c)
  <2>1. S!MayStill(c) = C!MayStill(c)
    BY DEF S!MayStill, C!MayStill, S!Paired, C!Paired, S!Kind, C!Kind
  <2>2. \A e \in late' \ late : e.do \notin {"make", "delete"}
    BY <1>1, <2>1, MayStillIs DEF S!ApiError
  <2>3. QED
    BY <1>1, <2>2, CallSole DEF S!ApiError
<1>2. CASE S!LookupPortal(c)
  <2>1. PICK where \in {"initiator", "makePortal"} : S!Goto(c, where)
    BY <1>2 DEF S!LookupPortal
  <2>2. QED
    BY <1>2, <2>1, CallSole DEF S!LookupPortal
<1>3. CASE S!CreatePortal(c)
  <2>1. PICK where \in {"undoTargets", "initiator"} : S!Goto(c, where)
    BY <1>3 DEF S!CreatePortal
  <2>2. QED
    BY <1>3, <2>1, CallSole DEF S!CreatePortal
<1>4. CASE S!LookupInitiator(c)
  <2>1. PICK where \in {"update", "makeInitiator"} : S!Goto(c, where)
    BY <1>4 DEF S!LookupInitiator
  <2>2. QED
    BY <1>4, <2>1, CallSole DEF S!LookupInitiator
<1>5. CASE S!CreateInitiator(c)
  BY <1>5, CallSole DEF S!CreateInitiator
<1>6. CASE S!UpdateTargets(c)
  BY <1>6, CallSole DEF S!UpdateTargets
<1>7. CASE S!AwaitUpdate(c)
  BY <1>7, CallSole DEF S!AwaitUpdate
<1>8. QED
  BY <1>1, <1>2, <1>3, <1>4, <1>5, <1>6, <1>7

\* A step that makes targets or extents, or leaves them to be made, takes no
\* other's place.
LEMMA PutSole ==
  ASSUME SoleInv, NEW c \in User, Busy(c), NEW kind \in C!Kind, NEW vols \in SUBSET C!Vols,
         has' \in [C!Kind -> [C!Name -> [vol : C!Vols \cup {None}, by : User \cup {None}]]],
         \A k \in C!Kind, n \in C!Name : has'[k][n] = has[k][n] \/ has[k][n] = C!Nobody,
         NEW where, S!Goto(c, where), where \notin {"idle", "done"}, UNCHANGED assoc,
         made' \in [User -> [C!Kind -> SUBSET C!Vols]],
         known' \in [User -> [C!Kind -> SUBSET C!Vols]],
         lost' \in [User -> SUBSET C!Kind], LateIsLost',
         \A e \in late' \ late : e.do # "delete",
         \A d \in User \ {c} : made'[d] = made[d] /\ known'[d] = known[d] /\ lost'[d] = lost[d],
         LostInUndoing(c)', LossStays(c),
         \A v \in vols : has[kind][NameOf[v]] = C!Nobody,
         \A k \in C!Kind : made'[c][k] \subseteq made[c][k] \cup (IF k = kind THEN vols ELSE {}),
         \A v \in C!Vols : Singles[c] = {v} => Progress(c, v)'
  PROVE  SoleInv'
<1>1. CreationTypes /\ \A d \in User \ {c} : ~Busy(d)
  BY AloneWhenBusy DEF SoleInv
<1>2. /\ stage' = [d \in User |-> stage'[d]] /\ stage'[c] = where
      /\ \A d \in User \ {c} : stage'[d] = stage[d]
  BY <1>1 DEF S!Goto, CreationTypes
<1>3. CreationTypes'
  BY <1>2 DEF CreationTypes
<1>4. ASSUME NEW d \in User \ {c}, NEW w \in C!Vols, Singles[d] = {w}, stage[d] = "done"
      PROVE  C!InDoubt(w)' \/ (IsShared(w)' /\ \A k \in C!Kind : w \notin made'[c][k])
  <2>1. CASE C!InDoubt(w)
    <3>1. PICK b \in User, k \in C!Kind : k \in lost[b] /\ w \in made[b][k]
      BY <2>1 DEF C!InDoubt
    <3>2. k \in lost'[b] /\ w \in made'[b][k]
      BY <3>1 DEF LossStays
    <3>3. QED
      BY <3>2 DEF C!InDoubt
  <2>2. CASE ~C!InDoubt(w)
    <3>1. IsShared(w) /\ \A k \in C!Kind : w \notin made[c][k]
      BY <1>4, <2>2 DEF SoleInv, Finished
    <3>2. NameOf[w] \in C!Name /\ C!Nobody.vol # w
      BY CreationAssumptions DEF C!Name, C!Nobody
    <3>3. \A k \in C!Kind : has[k][NameOf[w]] # C!Nobody
      BY <3>1, <3>2 DEF IsShared
    <3>4. IsShared(w)'
      <4>1. \A k \in C!Kind : has'[k][NameOf[w]] = has[k][NameOf[w]]
        BY <3>2, <3>3
      <4>2. QED
        BY <3>1, <4>1 DEF IsShared
    <3>5. w \notin vols
      BY <3>3
    <3>6. QED
      BY <3>1, <3>4, <3>5
  <2>3. QED
    BY <2>1, <2>2
<1>5. QED
  BY <1>1, <1>2, <1>3, <1>4, SoleStep

\* Where a command makes something it can still tell of all it has made.
LEMMA NothingLostYet ==
  ASSUME SoleInv, NEW c \in User, NEW kind \in C!Kind,
         \/ stage[c] = "makeTargets" /\ kind = "target"
         \/ stage[c] = "makeExtents" /\ kind = "extent"
  PROVE  kind \notin lost[c] /\ made[c][kind] = {} /\ \A k \in lost[c] : made[c][k] = {}
BY DEF SoleInv, LostInUndoing, BeforeTargets, BeforeExtents

LEMMA CreateSole ==
  ASSUME SoleInv, NEW c \in User, NEW kind \in C!Kind, NEW tasks, NEW next,
         tasks = Singles[c] \ known[c][kind], S!Create(c, kind, tasks, next),
         \/ stage[c] = "makeTargets" /\ kind = "target" /\ next = "awaitUpdate"
         \/ stage[c] = "makeExtents" /\ kind = "extent" /\ next = "associate",
         UNCHANGED assoc
  PROVE  SoleInv'
<1>1. CreationTypes /\ Busy(c) /\ \A d \in User \ {c} : ~Busy(d)
  BY AloneWhenBusy DEF SoleInv, Busy, C!Over
<1>2. tasks \in SUBSET C!Vols
  BY CreationAssumptions
<1>3. /\ stage[c] \in Forward /\ (kind = "extent" => stage[c] \in AfterTargets)
      /\ kind \notin lost[c] /\ made[c][kind] = {} /\ (\A k \in lost[c] : made[c][k] = {})
      /\ LostInUndoing(c)
  <2>1. kind \notin lost[c] /\ made[c][kind] = {} /\ \A k \in lost[c] : made[c][k] = {}
    <3>1. \/ stage[c] = "makeTargets" /\ kind = "target"
          \/ stage[c] = "makeExtents" /\ kind = "extent"
      OBVIOUS
    <3>2. QED
      BY <3>1, NothingLostYet
  <2>2. QED
    BY <2>1 DEF Forward, AfterTargets, SoleInv
<1>4. \A v \in C!Vols : Singles[c] = {v} => Progress(c, v)
  BY DEF SoleInv
<1>5. ASSUME tasks = {}, S!Goto(c, next), UNCHANGED <<has, late, known, made, lost>>
      PROVE  SoleInv'
  <2>1. ASSUME NEW v \in C!Vols, Singles[c] = {v} PROVE Progress(c, v)'
    <3>1. v \in known[c][kind] /\ Progress(c, v) /\ (C!InDoubt(v) => C!InDoubt(v)')
      BY <1>4, <1>5, <2>1 DEF C!InDoubt
    <3>2. stage'[c] = next
      BY <1>1, <1>5 DEF S!Goto, CreationTypes
    <3>3. QED
      BY <1>3, <1>5, <3>1, <3>2 DEF Progress, AfterTargets
  <2>2. known' \in [User -> [C!Kind -> SUBSET C!Vols]]
    BY <1>1, <1>5 DEF CreationTypes
  <2>3. QED
    BY <1>1, <1>5, <2>1, <2>2, QuietSoleStep DEF BeforeTargets, BeforeExtents
<1>6. ASSUME S!Goto(c, "undoTargets"), UNCHANGED <<has, late, known, made, lost>>
      PROVE  SoleInv'
  <2>1. PICK where \in {"undoTargets"} : S!Goto(c, where)
    BY <1>6
  <2>2. /\ UNCHANGED <<has, assoc, known, made, lost>> /\ stage[c] # "undoExtents"
        /\ \A e \in late' \ late : e.do \notin {"make", "delete"}
    BY <1>6
  <2>3. QED
    BY <1>1, <2>1, <2>2, CallSole DEF Forward, AfterTargets, BeforeTargets, BeforeExtents
<1>7. ASSUME NEW vols \in SUBSET C!Vols, S!Late(c, kind, vols) PROVE SoleInv'
  <2>1. /\ LossOf(c, kind, vols) /\ S!Goto(c, "undoTargets") /\ UNCHANGED <<has, known, made>>
        /\ late' = late \cup {[do |-> "make", kind |-> kind, vol |-> v, by |-> c] : v \in vols}
    BY <1>7 DEF S!Late, LossOf
  <2>2. LateIsLost' /\ \A e \in late' \ late : e.do # "delete"
    <3>1. LateIsLost'
      <4>1. PICK items :
              /\ items = {[do |-> "make", kind |-> kind, vol |-> v, by |-> c] : v \in vols}
              /\ late' = late \cup items
        BY <2>1
      <4>2. PICK what \in {"make", "delete"} : what = "make"
        OBVIOUS
      <4>3. QED
        BY <1>1, <2>1, <4>1, <4>2, LateIs
    <3>2. QED
      BY <2>1, <3>1
  <2>3. /\ lost' \in [User -> SUBSET C!Kind] /\ lost[c] \subseteq lost'[c]
        /\ \A d \in User \ {c} : lost'[d] = lost[d]
        /\ \A k \in C!Kind \ {kind} : k \in lost'[c] => k \in lost[c]
    BY <1>1, <2>1, LossIs
  <2>4. stage'[c] = "undoTargets"
    BY <1>1, <2>1 DEF S!Goto, CreationTypes
  <2>6. LostInUndoing(c)' /\ LossStays(c)
    BY <1>1, <1>3, <2>1, <2>3, <2>4 DEF LostInUndoing, LossStays, BeforeTargets, BeforeExtents,
       CreationTypes
  <2>7. ASSUME NEW v \in C!Vols, Singles[c] = {v} PROVE Progress(c, v)'
    BY <1>4, <2>1, <2>4, <2>7 DEF Progress, Forward, AfterTargets
  <2>8. {} \in SUBSET C!Vols /\ (\A v \in {} : has[kind][NameOf[v]] = C!Nobody)
    OBVIOUS
  <2>9. QED
    BY <1>1, <2>1, <2>2, <2>3, <2>6, <2>7, <2>8, PutSole DEF CreationTypes
<1>8. ASSUME NEW v \in tasks, tasks = {v}, S!Free(kind, {v}) = {v}, S!Put(c, kind, {v}),
             S!Record(c, kind, {v}), known' = [known EXCEPT ![c][kind] = @ \cup {v}],
             S!Goto(c, next), UNCHANGED <<late, lost>>
      PROVE  SoleInv'
  <2>1. /\ {v} \in SUBSET C!Vols /\ (\A w \in {v} : has[kind][NameOf[w]] = C!Nobody)
        /\ C!Put(c, kind, {v})
    BY <1>2, <1>8 DEF S!Free, S!Nobody, C!Nobody, S!Put, C!Put, S!Name, C!Name, S!Vols, C!Vols
  <2>2. /\ has' \in [C!Kind -> [C!Name -> [vol : C!Vols \cup {None}, by : User \cup {None}]]]
        /\ \A k \in C!Kind, n \in C!Name :
             \/ has'[k][n] = has[k][n] /\ (k = kind => \A w \in {v} : NameOf[w] # n)
             \/ k = kind /\ has[k][n] = C!Nobody /\ has'[k][n].vol \in {v}
    BY <1>1, <2>1, PutIs
  <2>3. /\ made' \in [User -> [C!Kind -> SUBSET C!Vols]]
        /\ \A d \in User \ {c} : made'[d] = made[d]
        /\ \A k \in C!Kind : made'[c][k] \subseteq made[c][k] \cup (IF k = kind THEN {v} ELSE {})
        /\ \A k \in C!Kind \ {kind} : made'[c][k] = made[c][k]
    BY <1>1, <1>8, <2>1 DEF S!Record, CreationTypes
  <2>4. /\ known' \in [User -> [C!Kind -> SUBSET C!Vols]]
        /\ \A d \in User \ {c} : known'[d] = known[d]
        /\ known'[c][kind] = known[c][kind] \cup {v}
        /\ \A k \in C!Kind \ {kind} : known'[c][k] = known[c][k]
    BY <1>1, <1>8, <2>1 DEF CreationTypes
  <2>5. stage'[c] = next
    BY <1>1, <1>8 DEF S!Goto, CreationTypes
  <2>6. LostInUndoing(c)' /\ LossStays(c)
    BY <1>1, <1>3, <1>8, <2>3, <2>5 DEF LostInUndoing, LossStays, BeforeTargets, BeforeExtents,
       CreationTypes, C!Kind
  <2>7. ASSUME NEW w \in C!Vols, Singles[c] = {w} PROVE Progress(c, w)'
    <3>1. w = v /\ NameOf[w] \in C!Name
      BY <2>7 DEF C!Name
    <3>2. has'[kind][NameOf[w]].vol = w
      BY <2>2, <3>1
    <3>3. \A k \in C!Kind \ {kind} : has'[k][NameOf[w]] = has[k][NameOf[w]]
      BY <2>2, <3>1
    <3>4. Progress(c, w) /\ (C!InDoubt(w) => C!InDoubt(w)')
      <4>1. \A d \in User : LossStays(d)
        BY <1>8, <2>3, <2>6 DEF LossStays
      <4>2. QED
        BY <1>4, <2>7, <4>1 DEF C!InDoubt, LossStays
    <3>5. \A k \in C!Kind : known'[c][k] \subseteq {w}
      BY <2>4, <3>1, <3>4 DEF Progress
    <3>6. C!InDoubt(w)' \/ \A k \in C!Kind : w \in known'[c][k] => has'[k][NameOf[w]].vol = w
      BY <1>3, <2>4, <3>2, <3>3, <3>4 DEF Progress
    <3>7. w \in known'[c]["target"] /\ (next = "associate" => w \in known'[c]["extent"])
      BY <1>3, <2>4, <3>1, <3>4 DEF Progress, C!Kind
    <3>8. QED
      BY <2>5, <3>5, <3>6, <3>7 DEF Progress
  <2>8. /\ next \notin {"idle", "done"} /\ lost' \in [User -> SUBSET C!Kind] /\ LateIsLost'
        /\ (\A d \in User : lost'[d] = lost[d]) /\ \A e \in late' \ late : e.do # "delete"
    <3>1. late' = late /\ lost' = lost /\ LateIsLost
      BY <1>1, <1>8 DEF CreationTypes
    <3>2. LateIsLost'
      BY <3>1 DEF LateIsLost
    <3>3. QED
      BY <1>1, <3>1, <3>2 DEF CreationTypes
  <2>9. \A k \in C!Kind, n \in C!Name : has'[k][n] = has[k][n] \/ has[k][n] = C!Nobody
    BY <2>2
  <2>10. Busy(c) /\ S!Goto(c, next) /\ UNCHANGED assoc
    BY <1>1, <1>8
  <2>11. \A d \in User \ {c} : made'[d] = made[d] /\ known'[d] = known[d] /\ lost'[d] = lost[d]
    BY <2>3, <2>4, <2>8
  <2>12. \A k \in C!Kind : made'[c][k] \subseteq made[c][k] \cup (IF k = kind THEN {v} ELSE {})
    BY <2>3
  <2>13. /\ has' \in [C!Kind -> [C!Name -> [vol : C!Vols \cup {None}, by : User \cup {None}]]]
         /\ made' \in [User -> [C!Kind -> SUBSET C!Vols]]
         /\ known' \in [User -> [C!Kind -> SUBSET C!Vols]]
    BY <2>2, <2>3, <2>4
  <2>14. QED
    BY <2>1, <2>6, <2>7, <2>8, <2>9, <2>10, <2>11, <2>12, <2>13, PutSole
<1>9. ASSUME NEW vols \in SUBSET C!Vols, S!Cardinality(tasks) > 1,
             \A v \in vols : has[kind][NameOf[v]] = C!Nobody, C!Put(c, kind, vols),
             LossOf(c, kind, vols), S!Goto(c, next), UNCHANGED <<late, known, made>>
      PROVE  SoleInv'
  <2>1. /\ has' \in [C!Kind -> [C!Name -> [vol : C!Vols \cup {None}, by : User \cup {None}]]]
        /\ \A k \in C!Kind, n \in C!Name : has'[k][n] = has[k][n] \/ has[k][n] = C!Nobody
    <3>1. /\ has' \in [C!Kind -> [C!Name -> [vol : C!Vols \cup {None}, by : User \cup {None}]]]
          /\ \A k \in C!Kind, n \in C!Name :
               \/ has'[k][n] = has[k][n] /\ (k = kind => \A w \in vols : NameOf[w] # n)
               \/ k = kind /\ has[k][n] = C!Nobody /\ has'[k][n].vol \in vols
      BY <1>1, <1>9, PutIs
    <3>2. QED
      BY <3>1
  <2>2. /\ lost' \in [User -> SUBSET C!Kind] /\ lost[c] \subseteq lost'[c]
        /\ \A d \in User \ {c} : lost'[d] = lost[d]
        /\ \A k \in C!Kind \ {kind} : k \in lost'[c] => k \in lost[c]
    BY <1>1, <1>9, LossIs
  <2>3. LateIsLost'
    BY <1>1, <1>9, <2>2, LateStays DEF CreationTypes
  <2>4. stage'[c] = next
    BY <1>1, <1>9 DEF S!Goto, CreationTypes
  <2>5. LostInUndoing(c)' /\ LossStays(c)
    BY <1>1, <1>3, <1>9, <2>2, <2>4 DEF LostInUndoing, LossStays, BeforeTargets, BeforeExtents,
       CreationTypes, C!Kind
  <2>6. ASSUME NEW v \in C!Vols, Singles[c] = {v} PROVE FALSE
    <3>1. tasks = {} \/ tasks = {v}
      BY <2>6
    <3>2. S!Cardinality(tasks) = Cardinality(tasks)
      BY DEF S!Cardinality, Cardinality
    <3>3. Cardinality({}) = 0 /\ Cardinality({v}) = 1
      BY FS_EmptySet, FS_Singleton
    <3>4. Cardinality(tasks) = 0 \/ Cardinality(tasks) = 1
      BY <3>1, <3>3
    <3>5. QED
      BY <1>9, <3>2, <3>4
  <2>7. /\ \A k \in C!Kind : made'[c][k] \subseteq made[c][k] \cup (IF k = kind THEN vols ELSE {})
        /\ \A d \in User \ {c} : made'[d] = made[d] /\ known'[d] = known[d] /\ lost'[d] = lost[d]
        /\ made' \in [User -> [C!Kind -> SUBSET C!Vols]]
        /\ known' \in [User -> [C!Kind -> SUBSET C!Vols]]
    BY <1>1, <1>9, <2>2 DEF CreationTypes
  <2>8. \A v \in C!Vols : Singles[c] = {v} => Progress(c, v)'
    BY <2>6
  <2>9. next \notin {"idle", "done"} /\ Busy(c) /\ \A e \in late' \ late : e.do # "delete"
    BY <1>1, <1>9
  <2>10. QED
    BY <1>9, <2>1, <2>2, <2>3, <2>5, <2>7, <2>8, <2>9, PutSole
<1>10. ASSUME NEW v \in tasks, tasks = {v}, S!CreateOne(c, kind, v, next) PROVE SoleInv'
  <2>1. CASE S!Late(c, kind, {v})
    BY <1>2, <1>7, <2>1
  <2>2. CASE S!Goto(c, "undoTargets") /\ UNCHANGED <<has, late, known, made, lost>>
    BY <1>6, <2>2
  <2>3. CASE /\ S!Free(kind, {v}) = {v} /\ S!Put(c, kind, {v}) /\ S!Record(c, kind, {v})
             /\ known' = [known EXCEPT ![c][kind] = @ \cup {v}] /\ S!Goto(c, next)
             /\ UNCHANGED <<late, lost>>
    BY <1>8, <1>10, <2>3
  <2>4. QED
    BY <1>10, <2>1, <2>2, <2>3 DEF S!CreateOne
<1>11. ASSUME S!Cardinality(tasks) > 1, S!CreateBulk(c, kind, tasks, next) PROVE SoleInv'
  <2>1. PICK vols \in SUBSET S!Free(kind, tasks) :
          \/ S!Put(c, kind, vols) /\ LossOf(c, kind, vols) /\ S!Goto(c, next)
             /\ UNCHANGED <<late, known, made>>
          \/ S!Late(c, kind, vols)
    BY <1>11 DEF S!CreateBulk, LossOf
  <2>2. vols \in SUBSET C!Vols /\ \A v \in vols : has[kind][NameOf[v]] = C!Nobody
    BY <1>2, <2>1 DEF S!Free, S!Nobody, C!Nobody
  <2>3. CASE S!Late(c, kind, vols)
    BY <1>7, <2>2, <2>3
  <2>4. CASE S!Put(c, kind, vols) /\ LossOf(c, kind, vols) /\ S!Goto(c, next)
             /\ UNCHANGED <<late, known, made>>
    <3>1. C!Put(c, kind, vols)
      BY <2>4 DEF S!Put, C!Put, S!Name, C!Name, S!Vols, C!Vols
    <3>2. QED
      BY <1>9, <1>11, <2>2, <2>4, <3>1
  <2>5. QED
    BY <2>1, <2>3, <2>4
<1>12. QED
  BY <1>5, <1>10, <1>11 DEF S!Create

LEMMA AssociateSole == ASSUME SoleInv, NEW c \in User, S!Associate(c) PROVE SoleInv'
<1>1. /\ stage[c] = "associate" /\ UNCHANGED <<has, late, known, lost>>
      /\ CreationTypes /\ Busy(c) /\ \A d \in User \ {c} : ~Busy(d)
  BY AloneWhenBusy DEF S!Associate, SoleInv, Busy, C!Over
<1>2. CASE S!Goto(c, "undoTargets") /\ UNCHANGED <<assoc, made>>
  BY <1>1, <1>2, CallSole DEF Forward, AfterTargets, BeforeTargets, BeforeExtents
<1>3. ASSUME NEW names, S!Cardinality(S!ToAssociate(c)) <= 1 => names = S!ToAssociate(c),
             assoc' = assoc \cup names, S!Goto(c, "done"), made' = [made EXCEPT ![c] = S!Empty]
      PROVE  SoleInv'
  <2>1. /\ stage' = [d \in User |-> stage'[d]] /\ stage'[c] = "done"
        /\ \A d \in User \ {c} : stage'[d] = stage[d]
    BY <1>1, <1>3 DEF S!Goto, CreationTypes
  <2>2. /\ made' \in [User -> [C!Kind -> SUBSET C!Vols]]
        /\ \A d \in User \ {c} : made'[d] = made[d]
        /\ \A k \in C!Kind : made'[c][k] = {}
    BY <1>1, <1>3 DEF CreationTypes, S!Empty, S!Kind, C!Kind
  <2>3. CreationTypes'
    BY <1>1, <2>1, <2>2, LateStays DEF CreationTypes
  <2>4. \A k \in lost[c] : made[c][k] = {}
    BY <1>1 DEF SoleInv, LostInUndoing
  <2>5. LostInUndoing(c)' /\ LossStays(c)
    BY <1>1, <2>1, <2>2, <2>4 DEF LostInUndoing, LossStays, BeforeTargets, BeforeExtents,
       CreationTypes
  <2>6. \A v : C!InDoubt(v) => C!InDoubt(v)'
    BY <1>1, <2>2, <2>4 DEF C!InDoubt
  <2>7. ASSUME NEW v \in C!Vols, Singles[c] = {v}
        PROVE  Progress(c, v)' /\ (C!InDoubt(v)' \/ IsShared(v)')
    <3>1. (\A k \in C!Kind : known[c][k] = {v}) /\ Progress(c, v)
      BY <1>1, <2>7 DEF SoleInv, Progress, AfterTargets, C!Kind
    <3>2. C!InDoubt(v) \/ \A k \in C!Kind : has[k][NameOf[v]].vol = v
      BY <1>1, <3>1 DEF Progress, Forward, AfterTargets
    <3>3. S!ToAssociate(c) = {NameOf[v]} \ assoc
      BY <3>1 DEF S!ToAssociate, S!Paired, C!Kind
    <3>4. Cardinality({NameOf[v]} \ assoc) <= 1
      <4>1. {NameOf[v]} \ assoc = {} \/ {NameOf[v]} \ assoc = {NameOf[v]}
        OBVIOUS
      <4>2. Cardinality({}) = 0 /\ Cardinality({NameOf[v]}) = 1
        BY FS_EmptySet, FS_Singleton
      <4>3. QED
        BY <4>1, <4>2
    <3>5. S!Cardinality(S!ToAssociate(c)) = Cardinality({NameOf[v]} \ assoc)
      BY <3>3 DEF S!Cardinality, Cardinality
    <3>6. NameOf[v] \in assoc'
      BY <1>3, <3>3, <3>4, <3>5
    <3>7. C!InDoubt(v)' \/ IsShared(v)'
      BY <1>1, <2>6, <3>2, <3>6 DEF IsShared
    <3>8. Progress(c, v)'
      BY <1>1, <2>1, <3>1 DEF Progress, Forward, AfterTargets
    <3>9. QED
      BY <3>7, <3>8
  <2>8. ASSUME NEW d \in User \ {c}, NEW w \in C!Vols, Singles[d] = {w}, stage[d] = "done"
        PROVE  (C!InDoubt(w)' \/ IsShared(w)') /\ ~Busy(c)'
    <3>1. C!InDoubt(w) \/ IsShared(w)
      BY <2>8 DEF SoleInv, Finished
    <3>2. IsShared(w) => IsShared(w)'
      BY <1>1, <1>3 DEF IsShared
    <3>3. QED
      BY <2>1, <2>6, <3>1, <3>2 DEF Busy, C!Over
  <2>9. QED
    BY <1>1, <2>1, <2>2, <2>3, <2>5, <2>7, <2>8, SoleStep
<1>4. QED
  BY <1>2, <1>3 DEF S!Associate

\* Undoing takes away only what this command has made.
LEMMA UndoSole ==
  ASSUME SoleInv, NEW c \in User, NEW kind \in C!Kind, NEW next, S!Undo(c, kind, next),
         \/ stage[c] = "undoTargets" /\ next = "undoExtents"
         \/ stage[c] = "undoExtents" /\ next = "failed"
  PROVE  SoleInv'
<1>1. /\ CreationTypes /\ Busy(c) /\ (\A d \in User \ {c} : ~Busy(d))
      /\ S!Goto(c, next) /\ UNCHANGED <<known, made>> /\ LostInUndoing(c)
  BY AloneWhenBusy DEF S!Undo, SoleInv, Busy, C!Over
<1>2. /\ stage' = [d \in User |-> stage'[d]] /\ stage'[c] = next
      /\ \A d \in User \ {c} : stage'[d] = stage[d]
  BY <1>1 DEF S!Goto, CreationTypes
<1>3. \A v \in C!Vols : Singles[c] = {v} => Progress(c, v)'
  BY <1>1, <1>2 DEF SoleInv, Progress, Forward, AfterTargets
<1>4. CASE /\ made[c][kind] # {} /\ UNCHANGED <<has, assoc>>
           /\ late' \in {late, late \cup {[do |-> "delete", kind |-> kind, vol |-> v, by |-> c] :
                                            v \in made[c][kind]}}
           /\ lost' = [lost EXCEPT ![c] = @ \cup {kind}]
  <2>1. LossOf(c, kind, made[c][kind]) /\ made[c][kind] \in SUBSET C!Vols
    BY <1>1, <1>4 DEF LossOf, CreationTypes
  <2>2. /\ lost' \in [User -> SUBSET C!Kind] /\ lost[c] \subseteq lost'[c]
        /\ \A d \in User \ {c} : lost'[d] = lost[d]
    BY <1>1, <2>1, LossIs
  <2>3. LateIsLost' /\ \A e \in late' \ late : e.do = "delete" => e.vol \in made'[e.by][e.kind]
    <3>1. CASE late' = late
      BY <1>1, <2>2, <3>1, LateStays DEF CreationTypes
    <3>2. CASE late' = late \cup {[do |-> "delete", kind |-> kind, vol |-> v, by |-> c] :
                                    v \in made[c][kind]}
      <4>1. LateIsLost'
        BY <1>1, <2>1, <3>2, LateIs
      <4>2. \A e \in late' \ late : e.vol \in made[c][kind] /\ e.by = c /\ e.kind = kind
        BY <3>2
      <4>3. QED
        BY <1>1, <4>1, <4>2
    <3>3. QED
      BY <1>4, <3>1, <3>2
  <2>4. CreationTypes'
    BY <1>1, <1>2, <1>4, <2>2, <2>3 DEF CreationTypes
  <2>5. LostInUndoing(c)' /\ LossStays(c)
    BY <1>1, <1>2, <2>2 DEF LostInUndoing, LossStays, BeforeTargets, BeforeExtents
  <2>6. ASSUME NEW d \in User \ {c}, NEW w \in C!Vols, Singles[d] = {w}, stage[d] = "done"
        PROVE  C!InDoubt(w)' \/ (IsShared(w)' /\ \A k \in C!Kind : w \notin made'[c][k])
    <3>1. C!InDoubt(w) \/ (IsShared(w) /\ \A k \in C!Kind : w \notin made[c][k])
      BY <1>1, <2>6 DEF SoleInv, Finished
    <3>2. C!InDoubt(w) => C!InDoubt(w)'
      <4>1. \A b \in User : lost[b] \subseteq lost'[b]
        BY <2>2
      <4>2. QED
        BY <1>1, <4>1 DEF C!InDoubt
    <3>3. QED
      BY <1>1, <1>4, <3>1, <3>2 DEF IsShared
  <2>7. QED
    BY <1>1, <1>2, <1>3, <2>2, <2>3, <2>4, <2>5, <2>6, SoleStep
<1>5. CASE C!Remove(c, kind, made[c][kind]) /\ UNCHANGED <<late, lost>>
  <2>1. /\ has' \in [C!Kind -> [C!Name -> [vol : C!Vols \cup {None}, by : User \cup {None}]]]
        /\ \A k \in C!Kind \ {kind} : has'[k] = has[k]
        /\ \A n \in C!Name :
             \/ has[kind][n].vol \in made[c][kind]
             \/ has'[kind][n] = has[kind][n] /\ (n \in assoc => n \in assoc')
    BY <1>1, <1>5, RemoveIs
  <2>2. CreationTypes'
    BY <1>1, <1>2, <1>5, <2>1, LateStays DEF CreationTypes
  <2>3. LostInUndoing(c)' /\ LossStays(c)
    BY <1>1, <1>2, <1>5 DEF LostInUndoing, LossStays, BeforeTargets, BeforeExtents
  <2>4. ASSUME NEW d \in User \ {c}, NEW w \in C!Vols, Singles[d] = {w}, stage[d] = "done"
        PROVE  C!InDoubt(w)' \/ (IsShared(w)' /\ \A k \in C!Kind : w \notin made'[c][k])
    <3>1. C!InDoubt(w) \/ (IsShared(w) /\ \A k \in C!Kind : w \notin made[c][k])
      BY <1>1, <2>4 DEF SoleInv, Finished
    <3>2. C!InDoubt(w) => C!InDoubt(w)'
      BY <1>1, <1>5 DEF C!InDoubt
    <3>3. ASSUME IsShared(w), \A k \in C!Kind : w \notin made[c][k] PROVE IsShared(w)'
      <4>1. NameOf[w] \in C!Name
        BY DEF C!Name
      <4>2. has[kind][NameOf[w]].vol \notin made[c][kind]
        BY <3>3 DEF IsShared
      <4>3. has'[kind][NameOf[w]] = has[kind][NameOf[w]] /\ NameOf[w] \in assoc'
        BY <2>1, <3>3, <4>1, <4>2 DEF IsShared
      <4>4. QED
        BY <2>1, <3>3, <4>3 DEF IsShared
    <3>4. QED
      BY <1>1, <3>1, <3>2, <3>3
  <2>5. QED
    BY <1>1, <1>2, <1>3, <1>5, <2>2, <2>3, <2>4, SoleStep
<1>6. QED
  BY <1>4, <1>5 DEF S!Undo, S!Remove, C!Remove, S!Name, C!Name, S!Vols, C!Vols, S!Nobody, C!Nobody

\* What the host does late takes nothing away but what is in doubt.
LEMMA LateEffectSole == ASSUME SoleInv, S!LateEffect PROVE SoleInv'
<1>1. PICK e \in late :
        /\ S!LateMake(e) \/ S!LateDelete(e) \/ S!LateAssociate(e) \/ S!LatePortal(e)
           \/ S!LateInitiator(e)
        /\ late' = late \ {e} /\ UNCHANGED <<stage, known, made, lost>>
  BY DEF S!LateEffect
<1>2. CreationTypes /\ LateIsLost' /\ (\A v : C!InDoubt(v)' <=> C!InDoubt(v))
  BY <1>1, LateStays DEF SoleInv, CreationTypes, C!InDoubt
<1>3. /\ has' \in [C!Kind -> [C!Name -> [vol : C!Vols \cup {None}, by : User \cup {None}]]]
      /\ \A k \in C!Kind, n \in C!Name :
           has'[k][n] = has[k][n] \/ has[k][n] = C!Nobody \/ C!InDoubt(has[k][n].vol)
      /\ \A n \in assoc : n \in assoc' \/ \E k \in C!Kind : C!InDoubt(has[k][n].vol)
  <2>1. CASE S!LateMake(e)
    <3>1. /\ e.kind \in C!Kind /\ e.vol \in C!Vols /\ e.by \in User
          /\ C!Put(e.by, e.kind, {e.vol}) /\ UNCHANGED assoc
      BY <1>2, <2>1 DEF CreationTypes, LateIsLost, S!LateMake, S!Put, C!Put, S!Name, C!Name,
         S!Vols, C!Vols
    <3>2. {e.vol} \in SUBSET C!Vols /\ \A v \in {e.vol} : has[e.kind][NameOf[v]] = C!Nobody
      BY <2>1, <3>1 DEF S!LateMake, S!Free, S!Nobody, C!Nobody
    <3>3. /\ has' \in [C!Kind -> [C!Name -> [vol : C!Vols \cup {None}, by : User \cup {None}]]]
          /\ \A k \in C!Kind, n \in C!Name :
               \/ has'[k][n] = has[k][n] /\ (k = e.kind => \A v \in {e.vol} : NameOf[v] # n)
               \/ k = e.kind /\ has[k][n] = C!Nobody
      BY <1>2, <3>1, <3>2, PutIs
    <3>4. QED
      BY <3>1, <3>3
  <2>2. CASE S!LateDelete(e)
    <3>1. /\ e.kind \in C!Kind /\ e.by \in User /\ C!Remove(e.by, e.kind, {e.vol})
          /\ e.kind \in lost[e.by] /\ e.vol \in made[e.by][e.kind]
      BY <1>2, <2>2 DEF SoleInv, LateIsInDoubt, CreationTypes, LateIsLost, S!LateDelete,
         S!Remove, C!Remove, S!Name, C!Name, S!Vols, C!Vols, S!Nobody, C!Nobody
    <3>2. C!InDoubt(e.vol)
      BY <3>1 DEF C!InDoubt
    <3>3. /\ has' \in [C!Kind -> [C!Name -> [vol : C!Vols \cup {None}, by : User \cup {None}]]]
          /\ \A k \in C!Kind \ {e.kind} : has'[k] = has[k]
          /\ \A n \in C!Name :
               \/ has[e.kind][n].vol \in {e.vol}
               \/ has'[e.kind][n] = has[e.kind][n] /\ (n \in assoc => n \in assoc')
      BY <1>2, <3>1, RemoveIs
    <3>4. \A n \in C!Name : n \in assoc => n \in assoc' \/ has[e.kind][n].vol = e.vol
      BY <3>3
    <3>5. \A n \in assoc : n \notin C!Name => n \in assoc'
      BY <3>1 DEF C!Remove
    <3>6. QED
      BY <3>1, <3>2, <3>3, <3>4, <3>5
  <2>3. CASE UNCHANGED has /\ assoc \subseteq assoc'
    BY <1>2, <2>3 DEF CreationTypes
  <2>4. QED
    BY <1>1, <2>1, <2>2, <2>3 DEF S!LateAssociate, S!LatePortal, S!LateInitiator
<1>4. CreationTypes'
  BY <1>1, <1>2, <1>3 DEF CreationTypes
<1>5. OneIsBusy' /\ Fresh' /\ LateIsInDoubt' /\ \A c \in User : LostInUndoing(c)'
  BY <1>1 DEF SoleInv, OneIsBusy, Fresh, LateIsInDoubt, LostInUndoing, Busy
<1>6. ASSUME NEW v \in C!Vols, ~C!InDoubt(v), NEW k \in C!Kind, has[k][NameOf[v]].vol = v
      PROVE  has'[k][NameOf[v]] = has[k][NameOf[v]]
  <2>1. NameOf[v] \in C!Name /\ has[k][NameOf[v]] # C!Nobody
    BY <1>6, CreationAssumptions DEF C!Name, C!Nobody
  <2>2. QED
    BY <1>3, <1>6, <2>1
<1>7. ASSUME NEW v \in C!Vols, ~C!InDoubt(v), IsShared(v) PROVE IsShared(v)'
  BY <1>3, <1>6, <1>7 DEF IsShared
<1>8. ASSUME NEW c \in User, NEW v \in C!Vols, Singles[c] = {v}
      PROVE  Progress(c, v)' /\ Finished(c, v)'
  <2>1. Progress(c, v) /\ Finished(c, v)
    BY <1>8 DEF SoleInv
  <2>2. Progress(c, v)'
    BY <1>1, <1>2, <1>6, <2>1 DEF Progress
  <2>3. Finished(c, v)'
    BY <1>1, <1>2, <1>7, <2>1 DEF Finished, Busy
  <2>4. QED
    BY <2>2, <2>3
<1>9. QED
  BY <1>4, <1>5, <1>8 DEF SoleInv

LEMMA SoleNext == ASSUME SoleInv, S!Next PROVE SoleInv'
<1>1. ASSUME NEW c \in User, S!Step(c) PROVE SoleInv'
  <2>1. CASE S!CreateTargets(c)
    BY <2>1, CreateSole DEF S!CreateTargets, C!Kind
  <2>2. CASE S!CreateExtents(c)
    BY <2>2, CreateSole DEF S!CreateExtents, C!Kind
  <2>3. CASE S!UndoTargets(c) \/ S!UndoExtents(c)
    BY <2>3, UndoSole DEF S!UndoTargets, S!UndoExtents, C!Kind
  <2>4. QED
    BY <1>1, <2>1, <2>2, <2>3, BeginSole, QueryExtentsSole, CallsSole, AssociateSole DEF S!Step
<1>2. QED
  BY <1>1, LateEffectSole DEF S!Next

LEMMA SoleInit == S!Init => SoleInv
<1> SUFFICES ASSUME S!Init PROVE SoleInv
  OBVIOUS
<1>1. C!Init
  BY DEF S!Init, C!Init, S!Vols, C!Vols, S!Name, C!Name, S!Kind, C!Kind, S!Nobody, C!Nobody,
     S!Empty, C!Empty
<1>2. CreationTypes
  BY <1>1, FirstOnes
<1>3. QED
  BY <1>1, <1>2 DEF C!Init, SoleInv, OneIsBusy, Fresh, LateIsInDoubt, LostInUndoing, Progress,
     Finished, Busy, Forward, AfterTargets, C!Empty, C!Over, C!Kind

SingleInv == part = "single" => SoleInv

LEMMA SingleNext == ASSUME SingleInv, [PartsNext]_allvars PROVE SingleInv'
<1>1. CASE part = "single" /\ S!Next
  BY <1>1, SoleNext DEF SingleInv
<1>2. CASE UNCHANGED <<part, creation>>
  BY <1>2 DEF SingleInv, creation, SoleInv, CreationTypes, LateIsLost, OneIsBusy, Fresh,
     LateIsInDoubt, LostInUndoing, Progress, Finished, Busy, IsShared, C!InDoubt
<1>3. CASE part' = part /\ part # "single"
  BY <1>3 DEF SingleInv
<1>4. QED
  BY <1>1, <1>2, <1>3 DEF PartsNext, allvars

\* A command for one volume that runs alone and ends without an error has
\* shared it (createIscsi, iscsi.go), whatever part of the share there was
\* before, and no later command takes the share away again, unless an earlier
\* one does not know that it has taken back that of the same volume.
THEOREM CreateSingleIsWhole == PartsSpec => []SingleCreateIsWhole
<1>1. PartsInit => SingleInv
  BY SoleInit DEF PartsInit, SingleInv
<1>2. ASSUME SingleInv PROVE SingleCreateIsWhole
  <2>1. SUFFICES ASSUME part = "single", NEW c \in User, stage[c] = "done",
                        S!Cardinality(Singles[c]) = 1, NEW v \in Singles[c]
                 PROVE  S!InDoubt(v) \/ (S!Whole(NameOf[v]) /\ NameOf[v] \in assoc)
    BY DEF SingleCreateIsWhole, S!SingleCreateIsWhole
  <2>2. S!Cardinality(Singles[c]) = Cardinality(Singles[c])
    BY DEF S!Cardinality, Cardinality
  <2>3. Singles[c] = {v} /\ v \in C!Vols /\ v # None
    BY <2>1, <2>2, CreationAssumptions, FS_Singleton
  <2>4. C!InDoubt(v) \/ IsShared(v)
    BY <1>2, <2>1, <2>3 DEF SingleInv, SoleInv, Finished
  <2>5. S!InDoubt(v) <=> C!InDoubt(v)
    BY DEF S!InDoubt, C!InDoubt, S!Kind, C!Kind
  <2>6. QED
    BY <2>3, <2>4, <2>5 DEF IsShared, S!Whole, C!Kind
<1>3. QED
  BY <1>1, <1>2, SingleNext, PTL DEF PartsSpec

------------------------------------------------------------------------------
(* Activation *)

Untold(o) == \A t \in Target : prints[o][t] = 0
First == {"sessions", "discovery", "create", "locate"}
Waits == {"wait", "report", "done"}

LinesAreCounted == prints \in [A!Outcome -> [Target -> Nat]]
OnlyAsked == shares \cup missing \cup todo \cup outer \subseteq Asked

\* What the helper is still to send has had its device since the wait began.
QueueWasThere ==
  /\ pc \in Waits => disk \cup queue \subseteq seen
  /\ pc \notin Waits => helper = "off" /\ queue = {}

\* What is printed as created was missing.
CreatedOnce ==
  /\ pc \in First \ {"locate"} => Untold("created")
  /\ \A t \in Target : prints["created"][t] # 0 => prints["created"][t] = 1 /\ t \in missing

\* What is printed as located is no longer among the shares, nor comes back.
LocatedOnce ==
  /\ pc \in First => Untold("located")
  /\ \A t \in Target : prints["located"][t] # 0 =>
       prints["located"][t] = 1 /\ t \in Asked \ (shares \cup missing)
  /\ pc \in {"create", "locate"} => shares \cap missing = {}

\* What is logged in to is a share, or is still to be.
BeforeWait ==
  /\ pc \notin Waits => Untold("activated")
  /\ pc \in First => todo = {}
  /\ pc \in First \cup {"rediscover", "plan"} => outer = {}
  /\ pc = "login" => shares = outer \cup todo
  /\ pc # "done" => Untold("timed-out")

\* While it waits, a share is in outer, or is printed as activated and has had
\* its device.
WhileWaiting ==
  /\ pc \in Waits =>
       /\ outer \subseteq shares /\ shares \ outer \subseteq seen
       /\ \A t \in Target : prints["activated"][t] = IF t \in shares \ outer THEN 1 ELSE 0
  /\ pc = "done" =>
       \A t \in Target : prints["timed-out"][t] = IF t \in outer /\ ~minimal THEN 1 ELSE 0

ActivationInv ==
  /\ LinesAreCounted /\ OnlyAsked /\ QueueWasThere /\ CreatedOnce /\ LocatedOnce /\ BeforeWait
  /\ WhileWaiting

LEMMA AddIs ==
  ASSUME LinesAreCounted, NEW o \in A!Outcome, NEW T, A!Add(o, T)
  PROVE  /\ LinesAreCounted'
         /\ \A t \in Target : prints'[o][t] = prints[o][t] + IF t \in T THEN 1 ELSE 0
         /\ \A p \in A!Outcome \ {o} : prints'[p] = prints[p]
BY DEF LinesAreCounted, A!Add

LEMMA ActivationInit == A!Init => ActivationInv
BY DEF A!Init, ActivationInv, LinesAreCounted, OnlyAsked, QueueWasThere, CreatedOnce, LocatedOnce,
   BeforeWait, WhileWaiting, Untold, First, Waits, A!Outcome

\* What is to be logged in to is found, and what is missing created.
LEMMA CollectInv ==
  ASSUME ActivationInv, A!FromSession \/ A!FromDiscovery \/ A!Plan
  PROVE  ActivationInv'
<1> USE DEF A!host_vars, A!plan, A!wait, ActivationInv, LinesAreCounted, OnlyAsked, QueueWasThere,
            CreatedOnce, LocatedOnce, BeforeWait, WhileWaiting, Untold, First, Waits, A!Answers
<1>1. CASE A!FromSession
  BY <1>1 DEF A!FromSession
<1>2. CASE A!FromDiscovery
  BY <1>2 DEF A!FromDiscovery
<1>3. CASE A!Plan
  BY <1>3 DEF A!Plan
<1>4. QED
  BY <1>1, <1>2, <1>3

LEMMA CreateInv == ASSUME ActivationInv, A!Create PROVE ActivationInv'
<1> USE DEF A!host_vars, A!plan, A!wait, ActivationInv, OnlyAsked, QueueWasThere, BeforeWait,
            WhileWaiting, Untold, First, Waits
<1>1. CASE pc' = "failed" /\ UNCHANGED prints
  BY <1>1 DEF A!Create, LinesAreCounted, CreatedOnce, LocatedOnce
<1>2. CASE pc' = "locate"
  <2>1. PICK T : T \subseteq missing /\ A!Add("created", T)
    BY <1>2 DEF A!Create
  <2>2. /\ LinesAreCounted'
        /\ \A t \in Target : prints'["created"][t] = prints["created"][t] + IF t \in T THEN 1 ELSE 0
        /\ \A p \in A!Outcome \ {"created"} : prints'[p] = prints[p]
    BY <2>1, AddIs DEF A!Outcome
  <2>3. /\ \A t \in Target : prints'["created"][t] = IF t \in T THEN 1 ELSE 0
        /\ prints'["located"] = prints["located"] /\ prints'["activated"] = prints["activated"]
        /\ prints'["timed-out"] = prints["timed-out"]
    BY <2>2 DEF A!Create, CreatedOnce, A!Outcome
  <2>4. QED
    BY <1>2, <2>1, <2>2, <2>3 DEF A!Create, CreatedOnce, LocatedOnce
<1>3. QED
  BY <1>1, <1>2 DEF A!Create

LEMMA LocateInv == ASSUME ActivationInv, A!Locate PROVE ActivationInv'
<1>1. /\ LinesAreCounted'
      /\ \A t \in Target : prints'["located"][t] = IF t \in shares \cap disk THEN 1 ELSE 0
      /\ prints'["activated"] = prints["activated"] /\ prints'["timed-out"] = prints["timed-out"]
      /\ prints'["created"] = prints["created"]
  BY AddIs DEF A!Locate, ActivationInv, LocatedOnce, First, Untold, A!Outcome
<1>2. QED
  BY <1>1 DEF A!Locate, A!host_vars, A!plan, A!wait, ActivationInv, OnlyAsked, QueueWasThere,
     CreatedOnce, LocatedOnce, BeforeWait, WhileWaiting, Untold, First, Waits

LEMMA RediscoverInv == ASSUME ActivationInv, A!Rediscover PROVE ActivationInv'
BY DEF A!Rediscover, A!host_vars, A!plan, A!wait, A!Answers, ActivationInv, LinesAreCounted,
   OnlyAsked, QueueWasThere, CreatedOnce, LocatedOnce, BeforeWait, WhileWaiting, Untold, First,
   Waits

LEMMA LoginInv == ASSUME ActivationInv, A!Login \/ A!LoggedIn PROVE ActivationInv'
<1> USE DEF A!host_vars, A!plan, A!wait, ActivationInv, LinesAreCounted, OnlyAsked, QueueWasThere,
            CreatedOnce, LocatedOnce, BeforeWait, WhileWaiting, Untold, First, Waits
<1>1. CASE A!Login
  BY <1>1 DEF A!Login
<1>2. CASE A!LoggedIn
  BY <1>2 DEF A!LoggedIn
<1>3. QED
  BY <1>1, <1>2

\* Shares that have appeared move from outer to what is printed.
LEMMA ReportInv ==
  ASSUME ActivationInv, NEW T, pc = "wait", A!Report(T), T \subseteq seen, A!Try,
         UNCHANGED <<disk, seen, minimal, shares, missing, todo>>, queue' \subseteq queue
  PROVE  ActivationInv'
<1>1. /\ LinesAreCounted' /\ outer' = outer \ T
      /\ \A t \in Target : prints'["activated"][t] =
                             prints["activated"][t] + IF t \in outer \cap T THEN 1 ELSE 0
      /\ prints'["located"] = prints["located"] /\ prints'["timed-out"] = prints["timed-out"]
      /\ prints'["created"] = prints["created"]
  BY AddIs DEF A!Report, ActivationInv, A!Outcome
<1>2. pc' \in {"wait", "report"}
  BY DEF A!Try
<1>3. OnlyAsked' /\ QueueWasThere' /\ CreatedOnce' /\ LocatedOnce' /\ BeforeWait'
  BY <1>1, <1>2 DEF ActivationInv, OnlyAsked, QueueWasThere, CreatedOnce, LocatedOnce, BeforeWait,
     Untold, First, Waits
<1>4. \A t \in Target : prints'["activated"][t] = IF t \in shares \ outer' THEN 1 ELSE 0
  BY <1>1 DEF ActivationInv, WhileWaiting, Waits
<1>5. WhileWaiting'
  BY <1>1, <1>2, <1>4 DEF ActivationInv, WhileWaiting, Waits
<1>6. QED
  BY <1>1, <1>3, <1>5 DEF ActivationInv

LEMMA WaitInv ==
  ASSUME ActivationInv, A!Receive \/ A!ReceiveClosed \/ A!Silence PROVE ActivationInv'
<1> USE DEF A!host_vars, A!plan, A!wait
<1>1. CASE A!Receive
  <2>1. PICK t \in queue : A!Report({t}) /\ queue' = queue \ {t}
    BY <1>1 DEF A!Receive
  <2>2. {t} \subseteq seen
    BY <1>1 DEF A!Receive, ActivationInv, QueueWasThere, Waits
  <2>3. QED
    BY <1>1, <2>1, <2>2, ReportInv DEF A!Receive
<1>2. CASE A!ReceiveClosed
  BY <1>2, ReportInv DEF A!ReceiveClosed
<1>3. CASE A!Silence
  <2>1. disk \subseteq seen
    BY <1>3 DEF A!Silence, ActivationInv, QueueWasThere, Waits
  <2>2. QED
    BY <1>3, <2>1, ReportInv DEF A!Silence
<1>4. QED
  BY <1>1, <1>2, <1>3

LEMMA ReportRestInv == ASSUME ActivationInv, A!ReportRest PROVE ActivationInv'
<1>1. PICK T : T = (IF minimal THEN {} ELSE outer) /\ A!Add("timed-out", T)
  BY DEF A!ReportRest
<1>2. /\ LinesAreCounted'
      /\ \A t \in Target : prints'["timed-out"][t] = IF t \in outer /\ ~minimal THEN 1 ELSE 0
      /\ prints'["located"] = prints["located"] /\ prints'["activated"] = prints["activated"]
      /\ prints'["created"] = prints["created"]
  BY <1>1, AddIs DEF A!ReportRest, ActivationInv, BeforeWait, Untold, A!Outcome
<1>3. QED
  BY <1>2 DEF A!ReportRest, A!host_vars, A!plan, A!wait, ActivationInv, OnlyAsked, QueueWasThere,
     CreatedOnce, LocatedOnce, BeforeWait, WhileWaiting, Untold, First, Waits

\* The helper and udev: what has a device has had one.
LEMMA WorldInv ==
  ASSUME ActivationInv, A!Helper \/ A!DeviceAppears \/ A!DeviceVanishes PROVE ActivationInv'
<1>1. /\ seen \subseteq seen' /\ disk' \subseteq disk \cup seen'
      /\ queue' = queue \/ (queue' = disk /\ helper # "off")
      /\ helper = "off" => helper' = "off"
      /\ UNCHANGED <<minimal, shares, missing, todo, outer, pc, prints>>
  BY DEF A!Helper, A!HelperWatch, A!HelperRead, A!HelperSent, A!ScanTo, A!DeviceAppears,
     A!DeviceVanishes, A!host_vars, A!plan, A!wait
<1>2. QED
  BY <1>1 DEF ActivationInv, LinesAreCounted, OnlyAsked, QueueWasThere, CreatedOnce, LocatedOnce,
     BeforeWait, WhileWaiting, Untold

LEMMA ActivationNext == ASSUME ActivationInv, A!Next PROVE ActivationInv'
BY CollectInv, CreateInv, LocateInv, RediscoverInv, LoginInv, WaitInv, ReportRestInv, WorldInv
DEF A!Next, A!Command

ActivateInv == part = "activate" => ActivationInv

LEMMA ActivateNext == ASSUME ActivateInv, [PartsNext]_allvars PROVE ActivateInv'
<1>1. CASE part = "activate" /\ A!Next
  BY <1>1, ActivationNext DEF ActivateInv
<1>2. CASE UNCHANGED allvars
  BY <1>2 DEF ActivateInv, allvars, machine, activation, ActivationInv, LinesAreCounted, OnlyAsked,
     QueueWasThere, CreatedOnce, LocatedOnce, BeforeWait, WhileWaiting, Untold
<1>3. CASE part' = part /\ part # "activate"
  BY <1>3 DEF ActivateInv
<1>4. QED
  BY <1>1, <1>2, <1>3 DEF PartsNext

\* When an activating command ends without an error (doIscsiActivate, iscsi.go),
\* every share it was to log in to has one line of output besides that of its
\* creation, whichever goroutine saw its device first, those given up on have
\* none with --parsable, no other share has a line, none is both created and
\* located, and what is reported as activated has had its device.
THEOREM ActivateReportsOnce == PartsSpec => []ReportedOnce
<1>1. PartsInit => ActivateInv
  BY ActivationInit DEF PartsInit, ActivateInv
<1>2. ASSUME ActivationInv, NEW t \in Target
      PROVE  LET lines == prints["located"][t] + prints["activated"][t] + prints["timed-out"][t]
                 most == IF t \in Asked THEN 1 ELSE 0
             IN  /\ lines <= most /\ prints["located"][t] + prints["created"][t] <= most
                 /\ pc = "done" /\ t \in shares => (lines = 1) = ~(minimal /\ t \in outer)
                 /\ pc = "done" /\ prints["activated"][t] > 0 => t \in seen
  <2>1. /\ prints["located"][t] \in Nat /\ prints["activated"][t] \in Nat
        /\ prints["timed-out"][t] \in Nat /\ prints["created"][t] \in Nat
    BY <1>2 DEF ActivationInv, LinesAreCounted, A!Outcome
  <2>2. /\ prints["located"][t] \in {0, 1} /\ prints["created"][t] \in {0, 1}
        /\ prints["located"][t] = 1 => t \in Asked \ (shares \cup missing)
        /\ prints["created"][t] = 1 => t \in missing
    BY <1>2 DEF ActivationInv, LocatedOnce, CreatedOnce
  <2>3. outer \cup shares \cup missing \subseteq Asked
    BY <1>2 DEF ActivationInv, OnlyAsked
  <2>4. prints["located"][t] + prints["created"][t] <= IF t \in Asked THEN 1 ELSE 0
    BY <2>2, <2>3
  <2>5. CASE pc \in Waits
    <3>1. /\ outer \subseteq shares /\ shares \ outer \subseteq seen
          /\ prints["activated"][t] = IF t \in shares \ outer THEN 1 ELSE 0
          /\ prints["timed-out"][t] = IF pc = "done" /\ t \in outer /\ ~minimal THEN 1 ELSE 0
      BY <1>2, <2>5 DEF ActivationInv, WhileWaiting, BeforeWait, Untold
    <3>2. QED
      BY <2>2, <2>3, <2>4, <3>1
  <2>6. CASE pc \notin Waits
    <3>1. prints["activated"][t] = 0 /\ prints["timed-out"][t] = 0 /\ pc # "done"
      BY <1>2, <2>6 DEF ActivationInv, BeforeWait, Untold, Waits
    <3>2. QED
      BY <2>2, <2>4, <3>1
  <2>7. QED
    BY <2>5, <2>6
<1>3. ActivateInv => ReportedOnce
  BY <1>2 DEF ActivateInv, ReportedOnce, A!ReportedOnce
<1>4. QED
  BY <1>1, <1>3, ActivateNext, PTL DEF PartsSpec
==============================================================================
