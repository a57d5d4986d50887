------------------------------ MODULE HostTable ------------------------------
(***************************************************************************)
(* What the config commands promise together: a table of named profiles in *)
(* which a command changes the one name it was given, or nothing.  A table *)
(* that was damaged (a crash while it was written) stays as it is: no      *)
(* command starts afresh on top of it.                                     *)
(***************************************************************************)
CONSTANTS Name, Profile

VARIABLES
  hosts,    (* Name -> Profile, a partial function *)
  damaged

vars == <<hosts, damaged>>

Init ==
  /\ \E names \in SUBSET Name : hosts \in [names -> Profile]
  /\ damaged \in BOOLEAN

\* config add (replaces a profile of that name) and config set
Store(n, p) ==
  /\ ~damaged
  /\ hosts' = [k \in DOMAIN hosts \cup {n} |-> IF k = n THEN p ELSE hosts[k]]
  /\ UNCHANGED damaged

\* config remove
Remove(n) ==
  /\ ~damaged
  /\ hosts' = [k \in DOMAIN hosts \ {n} |-> hosts[k]]
  /\ UNCHANGED damaged

Damage == ~damaged /\ damaged' = TRUE /\ UNCHANGED hosts

Next ==
  \/ \E n \in Name : Remove(n) \/ \E p \in Profile : Store(n, p)
  \/ Damage

Spec == Init /\ [][Next]_vars
==============================================================================
