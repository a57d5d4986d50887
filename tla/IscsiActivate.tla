--------------------------- MODULE IscsiActivate -----------------------------
(***************************************************************************)
(* cmd/iscsi.go: iscsi activate and iscsi locate --activate or --create.   *)
(* The command collects the shares it is asked for from the sessions of    *)
(* this machine and the discovery of the host, logs in to each, and waits  *)
(* until their devices appear under /dev/disk/by-path.  Two goroutines     *)
(* look for the devices: a helper rescans after each inotify event and     *)
(* sends every device of the portal down an unbuffered channel, and the    *)
(* main one rescans itself whenever the channel stays silent for a second. *)
(* A command has MaxTries receptions and silences together (30 in the      *)
(* code).                                                                  *)
(*                                                                         *)
(* A target stands for its portal address, IQN and name.  iscsiadm, udev   *)
(* and the host are external.                                              *)
(***************************************************************************)
EXTENDS Naturals, FiniteSets

CONSTANTS
  Target,    (* Targets of the portal.                                      *)
  Asked,     (* Those of the volumes on the command line.                   *)
  Elsewhere, (* Those that discovery lists at another address.              *)
  MaxTries,
  MaxScans   (* Bound: scans of the helper.                                 *)

IscsiActivateAssumption ==
  /\ Asked \subseteq Target /\ Elsewhere \subseteq Target
  /\ MaxTries \in Nat \ {0} /\ MaxScans \in Nat

VARIABLES
  host,      (* targets the host has                                        *)
  session,   (* targets this machine is logged in to                        *)
  disk,      (* targets with a device under /dev/disk/by-path               *)
  hasDir,    (* that directory exists                                       *)
  mode, pc,
  minimal,   (* --parsable                                                  *)
  shares, missing,
  todo,      (* targets still to log in to                                  *)
  outer,     (* outerMap: logged in to and not yet reported                 *)
  inner,     (* innerMap, the helper's copy                                 *)
  helper,    (* where the helper is                                         *)
  queue,     (* devices of the helper's scan it has still to send           *)
  event,     (* inotify has events to read                                  *)
  scans, tries,
  prints,    (* what is printed of each target, as a bag                    *)
  (* History, since the command has begun to wait:                          *)
  seen,      (* targets that have had a device                              *)
  steady     (* targets that have had one all the time                      *)

host_vars == <<host, session, disk, hasDir, event, seen, steady>>
plan == <<mode, minimal, shares, missing, todo>>
wait == <<outer, inner, helper, queue, scans, tries>>
vars == <<host_vars, plan, wait, pc, prints>>

Outcome == {"created", "located", "activated", "timed-out"}

Init ==
  /\ host \in SUBSET Target
  /\ session \in SUBSET Target
  /\ disk \in SUBSET session
  /\ hasDir \in BOOLEAN /\ (disk # {} => hasDir)
  /\ mode \in {"activate", "locate", "create"} /\ minimal \in BOOLEAN
  /\ pc = "sessions"
  /\ shares = {} /\ missing = {} /\ todo = {} /\ outer = {} /\ inner = {}
  /\ helper = "off" /\ queue = {} /\ event = FALSE
  /\ scans = 0 /\ tries = 0
  /\ prints = [o \in Outcome |-> [t \in Target |-> 0]]
  /\ seen = {} /\ steady = {}

------------------------------------------------------------------------------
(* External: udev makes and removes the devices of the sessions.            *)

DeviceAppears ==
  \E t \in session \ disk :
    /\ disk' = disk \cup {t}
    /\ seen' = seen \cup {t}
    /\ hasDir' = TRUE
    /\ event' = (helper \in {"send", "read"})
    /\ UNCHANGED <<host, session, steady, plan, wait, pc, prints>>

DeviceVanishes ==
  \E t \in disk :
    /\ disk' = disk \ {t}
    /\ steady' = steady \ {t}
    /\ event' = (helper \in {"send", "read"})
    /\ UNCHANGED <<host, session, hasDir, seen, plan, wait, pc, prints>>

------------------------------------------------------------------------------
(* getIscsiSharesFromSessionAndDiscovery, the rest of locateIscsi           *)

\* iscsiadm's answer: a warning on its standard error loses the output, and
\* only a bad exit status is an error.
Answers(truth) == {[ok |-> TRUE, found |-> truth], [ok |-> TRUE, found |-> {}],
                   [ok |-> FALSE, found |-> {}]}

\* A failed listing ends the command, unless it is to create shares or what
\* has failed is "No active sessions".
FromSession ==
  /\ pc = "sessions"
  /\ \E a \in Answers(session \cap Asked) :
       /\ shares' = a.found
       /\ \/ (a.ok \/ mode = "create" \/ session = {}) /\ pc' = "discovery"
          \/ ~a.ok /\ mode # "create" /\ pc' = "failed"
  /\ UNCHANGED <<host_vars, mode, minimal, missing, todo, wait, prints>>

\* A failed discovery ends the command, unless it is to create shares.
FromDiscovery ==
  /\ pc = "discovery"
  /\ \E a \in Answers(host \cap Asked) :
       IF ~a.ok /\ mode # "create"
       THEN pc' = "failed" /\ UNCHANGED <<shares, missing>>
       ELSE /\ shares' = shares \cup a.found
            /\ missing' = Asked \ shares'
            /\ pc' = IF mode = "activate" THEN (IF shares' = {} THEN "none" ELSE "plan")
                     ELSE IF mode = "locate" /\ shares' = {} /\ ~minimal THEN "notfound"
                     ELSE IF mode = "create" /\ missing' # {} THEN "create" ELSE "locate"
  /\ UNCHANGED <<host_vars, mode, minimal, todo, wait, prints>>

Add(o, T) == prints' = [prints EXCEPT ![o] = [t \in Target |-> @[t] + IF t \in T THEN 1 ELSE 0]]

\* createIscsi for the missing ones.  It prints a line for each that had its
\* target already and for one it makes by a single call; the results of a
\* core.bulk job, which may make some of several only, do not tell the volume.
Create ==
  /\ pc = "create"
  /\ \E made \in SUBSET (missing \ host) :
       /\ host' = host \cup made
       /\ \/ /\ Cardinality(missing \ host) = 1 => made = missing \ host
             /\ Add("created", IF Cardinality(missing \ host) = 1 THEN missing
                               ELSE missing \cap host)
             /\ pc' = "locate"
          \/ pc' = "failed" /\ UNCHANGED prints
  /\ UNCHANGED <<session, disk, hasDir, event, seen, steady, plan, wait>>

Locate ==
  /\ pc = "locate"
  /\ Add("located", shares \cap disk)
  /\ shares' = shares \ disk
  /\ pc' = IF mode = "create" THEN "rediscover" ELSE "plan"
  /\ UNCHANGED <<host_vars, mode, minimal, missing, todo, wait>>

\* Targets of the new shares carry the address at which they were discovered.
Rediscover ==
  /\ pc = "rediscover"
  /\ \E a \in Answers(host \cap missing) :
       IF a.ok THEN shares' = shares \cup (a.found \ Elsewhere) /\ pc' = "plan"
               ELSE pc' = "failed" /\ UNCHANGED shares
  /\ UNCHANGED <<host_vars, mode, minimal, missing, todo, wait, prints>>

Plan ==
  /\ pc = "plan"
  /\ todo' = shares
  /\ pc' = "login"
  /\ UNCHANGED <<host_vars, mode, minimal, shares, missing, wait, prints>>

------------------------------------------------------------------------------
(* doIscsiActivate                                                          *)

\* The first login that fails ends the command; the others stay logged in.
Login ==
  /\ pc = "login"
  /\ \E t \in todo :
       \/ /\ todo' = todo \ {t}
          /\ session' = session \cup {t}
          /\ outer' = outer \cup {t}
          /\ UNCHANGED pc
       \/ /\ pc' = "failed"
          /\ UNCHANGED <<todo, session, outer>>
  /\ UNCHANGED <<host, disk, hasDir, event, seen, steady, mode, minimal, shares, missing, inner,
                 helper, queue, scans, tries, prints>>

LoggedIn ==
  /\ pc = "login" /\ todo = {}
  /\ IF outer = {} THEN pc' = "none" /\ UNCHANGED <<inner, helper>>
                   ELSE pc' = "wait" /\ inner' = outer /\ helper' = "start"
  /\ seen' = disk /\ steady' = disk
  /\ UNCHANGED <<host, session, disk, hasDir, event, plan, outer, queue, scans, tries, prints>>

\* IterateActivatedIscsiShares: every device of the portal, asked for or not.
ScanTo(next) ==
  /\ queue' = disk
  /\ scans' = scans + 1
  /\ helper' = next
  /\ event' = FALSE

\* WaitForCreatedDeletedFiles scans at once, and again after every event; it
\* cannot watch a directory that does not exist.
HelperWatch ==
  /\ helper = "start"
  /\ IF hasDir THEN ScanTo("send") ELSE helper' = "closed" /\ UNCHANGED <<queue, scans, event>>
  /\ UNCHANGED <<host, session, disk, hasDir, seen, steady, plan, pc, outer, inner, tries, prints>>

HelperRead ==
  /\ helper = "read" /\ event /\ scans < MaxScans
  /\ ScanTo("send")
  /\ UNCHANGED <<host, session, disk, hasDir, seen, steady, plan, pc, outer, inner, tries, prints>>

HelperSent ==
  /\ helper = "send" /\ queue = {}
  /\ helper' = IF inner = {} THEN "closed" ELSE "read"
  /\ UNCHANGED <<host_vars, plan, pc, outer, inner, queue, scans, tries, prints>>

\* Deviation of Report: a rescan takes every share for activated.
ReportUnseen(T) ==
  /\ Add("activated", IF T = {} THEN {} ELSE outer)
  /\ outer' = IF T = {} THEN outer ELSE {}

Report(T) == Add("activated", outer \cap T) /\ outer' = outer \ T

Try == tries' = tries + 1 /\ pc' = IF tries' = MaxTries \/ outer' = {} THEN "report" ELSE "wait"

\* The helper's send and the main goroutine's receipt are one step.
Receive ==
  /\ pc = "wait" /\ helper = "send"
  /\ \E t \in queue :
       /\ Report({t})
       /\ queue' = queue \ {t}
       /\ inner' = inner \ {t}
  /\ Try
  /\ UNCHANGED <<host_vars, plan, helper, scans>>

\* The closed channel gives a zero value at once, each time.
ReceiveClosed ==
  /\ pc = "wait" /\ helper = "closed"
  /\ Report({})
  /\ Try
  /\ UNCHANGED <<host_vars, plan, inner, helper, queue, scans>>


\* A second passes without anything sent.
Silence ==
  /\ pc = "wait" /\ helper # "closed"
  /\ Report(disk)
  /\ Try
  /\ UNCHANGED <<host_vars, plan, inner, helper, queue, scans>>

ReportRest ==
  /\ pc = "report"
  /\ Add("timed-out", IF minimal THEN {} ELSE outer)
  /\ pc' = "done"
  /\ UNCHANGED <<host_vars, plan, wait>>

Command ==
  \/ FromSession \/ FromDiscovery \/ Create \/ Locate \/ Rediscover \/ Plan
  \/ Login \/ LoggedIn \/ Receive \/ ReceiveClosed \/ Silence \/ ReportRest
Helper == HelperWatch \/ HelperRead \/ HelperSent

Next == Command \/ Helper \/ DeviceAppears \/ DeviceVanishes

Spec == Init /\ [][Next]_vars

------------------------------------------------------------------------------
(* Properties                                                               *)

\* When a command ends without an error, every share that it was to log in to
\* has one line of output besides that of its creation, whichever goroutine
\* saw its device first and however often; with --parsable those it has given
\* up on have none.  No other share has a line, none is both created and
\* located, and those reported as activated have had their device meanwhile.
ReportedOnce ==
  \A t \in Target :
    LET lines == prints["located"][t] + prints["activated"][t] + prints["timed-out"][t]
        most == IF t \in Asked THEN 1 ELSE 0
    IN  /\ lines <= most /\ prints["located"][t] + prints["created"][t] <= most
        /\ pc = "done" /\ t \in shares => (lines = 1) = ~(minimal /\ t \in outer)
        /\ pc = "done" /\ prints["activated"][t] > 0 => t \in seen

==============================================================================
