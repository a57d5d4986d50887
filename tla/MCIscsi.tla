------------------------------- MODULE MCIscsi -------------------------------
(***************************************************************************)
(* Four volumes, of which v2 and v3 map to the same name, as "pool/a.b"    *)
(* and "pool/a_b" do.  The commands of the machine are asked for v1 and    *)
(* v2: the host may have v3's share in place of v2's, and has another, of  *)
(* v4, that is none of theirs.  Two commands share two volumes each at the *)
(* same time, or the same one, one after the other.                        *)
(***************************************************************************)
EXTENDS IscsiCommands

CONSTANTS v1, v2, v3, v4, c1, c2, n1, n2, n3

Volumes == {v1, v2, v3, v4}
Three == {v1, v2, v3}
TwoAsked == {v1, v2}
Second == {v2}
Users == {c1, c2}
Names == [v \in Volumes |-> CASE v = v1 -> n1 [] v = v4 -> n3 [] OTHER -> n2]
ArgsOfTwo == [c \in Users |-> IF c = c1 THEN {v1, v2} ELSE {v1, v3}]
ArgsOfOne == [c \in Users |-> {v2}]
==============================================================================
