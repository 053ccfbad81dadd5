------------------------------ MODULE MCMirror ------------------------------
(***************************************************************************)
(* ChildMirror with a pair of children, p and a q whose spec refers to p,  *)
(* and with children of further kinds, each of which is created only when  *)
(* no other child is present.                                              *)
(***************************************************************************)
EXTENDS ChildMirrorInv

CONSTANTS p, q, pKind, qKind,
          Alone   \* the further kinds; a child of each is named after it

Pair == {p, q}
MCObj == Pair \cup Alone
MCKind == [o \in Obj |-> CASE o = p -> pKind [] o = q -> qKind [] OTHER -> o]
QRefersToP == [o \in Obj |-> IF o = q THEN {p} ELSE {}]
OwnName == [o \in Obj |-> o]
PairOrOne == {Pair} \cup {{o} : o \in Alone}
=============================================================================
