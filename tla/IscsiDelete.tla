---------------------------- MODULE IscsiDelete ------------------------------
(***************************************************************************)
(* cmd/iscsi.go: iscsi deactivate, iscsi delete and iscsi locate with      *)
(* --deactivate or --delete.  Deactivation logs out of the active shares   *)
(* and may wait until their devices are gone, with a helper goroutine that *)
(* rescans after each inotify event and a main one that rescans after a    *)
(* second of silence.  Deletion removes the targets and their extents on   *)
(* the host, looked up by the volume their alias names.                    *)
(*                                                                         *)
(* An active share is known by its name alone, which is computed from its  *)
(* volume and which two volumes may have in common; such a name is no      *)
(* volume.  iscsiadm, udev and the host are external.                      *)
(***************************************************************************)
EXTENDS Naturals, FiniteSets

CONSTANTS
  Volume,
  NameOf,    (* MaybeHashIscsiNameFromVolumePath, by volume.                *)
  Asked,     (* Volumes on the command line.                                *)
  MaxTries,
  MaxScans   (* Bound: scans of the helper.                                 *)

ASSUME IscsiDeleteAssumption ==
  /\ Asked \subseteq Volume /\ Volume = DOMAIN NameOf
  /\ MaxTries \in Nat \ {0} /\ MaxScans \in Nat

VARIABLES
  host,      (* volumes whose target the host has                           *)
  session,   (* volumes this machine is logged in to                        *)
  disk,      (* volumes with a device                                       *)
  event,     (* inotify has events to read                                  *)
  mode, pc,
  found,     (* what the command deactivates                                *)
  todo,      (* ... and has not yet tried                                   *)
  results,   (* what it has logged out of                                   *)
  helper,
  answer,    (* isDone of the helper's last scan                            *)
  scans, tries,
  targets    (* what the command deletes                                    *)

world == <<host, session, disk, event>>
logout == <<found, todo, results>>
wait == <<helper, answer, scans, tries>>
vars == <<world, mode, pc, logout, wait, targets>>

Named(vols) == {v \in Volume : \E w \in vols : NameOf[v] = NameOf[w]}

\* The host keeps the names of its targets unique.
Init ==
  /\ host \in SUBSET Volume
  /\ \A v \in host : Named({v}) \cap host = {v}
  /\ session \in SUBSET host
  /\ disk = session /\ event = FALSE
  /\ mode \in {"deactivate", "deactivate --wait", "delete", "locate --deactivate",
               "locate --deactivate --wait", "locate --delete"}
  /\ pc = "match"
  /\ found = {} /\ todo = {} /\ results = {}
  /\ helper = "off" /\ answer = FALSE /\ scans = 0 /\ tries = 0
  /\ targets = {}

Locating == mode \in {"locate --deactivate", "locate --deactivate --wait", "locate --delete"}
Deleting == mode \in {"delete", "locate --delete"}
Waiting == mode \in {"delete", "deactivate --wait", "locate --deactivate --wait"}

Goto(where) == pc' = where

------------------------------------------------------------------------------
(* External: the device of a session that has ended goes away later.        *)

DeviceVanishes ==
  \E v \in disk \ session :
    /\ disk' = disk \ {v}
    /\ event' = (helper \in {"send", "read"})
    /\ UNCHANGED <<host, session, mode, pc, logout, wait, targets>>

------------------------------------------------------------------------------
(* DeactivateMatchingIscsiTargets, DeactivateIscsiTargetList, locateIscsi   *)

\* Deviation of Active: every active share is taken for one asked for.
ActiveAny == disk

\* The active shares whose name is that of a volume asked for.
Active == disk \cap Named(Asked)

\* locateIscsi gathers the active ones of those it has found in sessions or
\* by discovery, whose answers may be lost; with --delete it hands their names
\* to deleteIscsi in place of volumes, where no share has such a name.
Match ==
  /\ pc = "match"
  /\ \E acting \in IF Locating THEN SUBSET Active ELSE {Active} :
       /\ found' = acting
       /\ todo' = IF mode = "locate --delete" THEN {} ELSE acting
  /\ Goto("logout")
  /\ UNCHANGED <<world, mode, results, wait, targets>>

\* The user is not root, iscsiadm or the portal is missing, no share is found.
Refuse ==
  /\ pc = "match"
  /\ Goto("failed")
  /\ UNCHANGED <<world, mode, logout, wait, targets>>

\* sync, then iscsiadm --logout for each, which may fail.
Logout ==
  /\ pc = "logout"
  /\ \E v \in todo :
       /\ todo' = todo \ {v}
       /\ \/ session' = session \ {v} /\ results' = results \cup {v}
          \/ UNCHANGED <<session, results>>
  /\ UNCHANGED <<host, disk, event, mode, pc, found, wait, targets>>

LoggedOut ==
  /\ pc = "logout" /\ todo = {}
  /\ IF Waiting /\ results # {} THEN Goto("wait") /\ helper' = "start"
                                ELSE Goto("report") /\ UNCHANGED helper
  /\ UNCHANGED <<world, mode, logout, answer, scans, tries, targets>>

\* Deviation of Gone: one of the devices is gone.
GoneOne == results \ disk # {}

Gone == disk \cap results = {}

HelperScan ==
  /\ helper = "start" \/ (helper = "read" /\ event)
  /\ scans < MaxScans
  /\ answer' = Gone
  /\ event' = FALSE
  /\ helper' = "send"
  /\ scans' = scans + 1
  /\ UNCHANGED <<host, session, disk, mode, pc, logout, tries, targets>>

Try(isDone) ==
  /\ tries' = tries + 1
  /\ IF isDone \/ tries' = MaxTries THEN Goto("report") ELSE Goto("wait")

\* The helper stops after it has sent that all are gone.
Receive ==
  /\ pc = "wait" /\ helper = "send"
  /\ Try(answer)
  /\ helper' = IF answer THEN "over" ELSE "read"
  /\ UNCHANGED <<world, mode, logout, answer, scans, targets>>

Silence ==
  /\ pc = "wait"
  /\ Try(Gone)
  /\ UNCHANGED <<world, mode, logout, helper, answer, scans, targets>>

\* What failed is printed and no more; deleteIscsi goes on whatever the
\* deactivation came to.
Report ==
  /\ pc = "report"
  /\ Goto(IF Deleting /\ (Locating => found # {}) THEN "query" ELSE "done")
  /\ UNCHANGED <<world, mode, logout, wait, targets>>

------------------------------------------------------------------------------
(* deleteIscsi                                                              *)

\* The targets whose alias is an argument, by GetIdsOrderedByArgsFromResponse.
Deletable == IF mode = "locate --delete" THEN {} ELSE Asked \cap host

QueryTargets ==
  /\ pc = "query"
  /\ \/ /\ targets' = Deletable
        /\ Goto(IF Deletable # {} THEN "delete" ELSE "done")
     \/ Goto("failed") /\ UNCHANGED targets
  /\ UNCHANGED <<world, mode, logout, wait>>

\* One call, or a core.bulk job whose items may fail without an error.  The
\* host deletes by force.
Delete ==
  /\ pc = "delete"
  /\ \E gone \in SUBSET (targets \cap host), ok \in BOOLEAN :
       /\ Cardinality(targets) = 1 => (ok <=> gone = targets)
       /\ host' = host \ gone
       /\ Goto(IF ok THEN "done" ELSE "failed")
  /\ UNCHANGED <<session, disk, event, mode, logout, wait, targets>>

Command == \/ Match \/ Refuse \/ Logout \/ LoggedOut \/ Receive \/ Silence \/ Report
           \/ QueryTargets \/ Delete

Next == Command \/ HelperScan \/ DeviceVanishes

Spec == Init /\ [][Next]_vars

------------------------------------------------------------------------------
(* Properties                                                               *)

\* A command that was to wait and has tries left returns only when every
\* share it logged out of has lost its device, although the answer it acts on
\* may come from a scan of the helper some steps ago.
WaitedForDevices ==
  Waiting /\ pc \in {"report", "query", "done"} /\ tries < MaxTries => disk \cap results = {}

\* No command logs out of a share that has not the name of one it was asked
\* for, and none deletes a target that has not its volume: where two volumes
\* have a name in common it may log out of the one for the other, and not
\* delete it.
OthersAreLeftAlone ==
  [][/\ session \ session' \subseteq Named(Asked)
     /\ host \ host' \subseteq Asked]_vars
==============================================================================
