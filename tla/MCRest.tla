------------------------------- MODULE MCRest -------------------------------
(***************************************************************************)
(* RestMirror with one child p of kind pKind, which refers to no other.    *)
(***************************************************************************)
EXTENDS RestMirrorInv

CONSTANTS p, pKind

Together == {Obj}
One == {p}
MCKind == [o \in Obj |-> pKind]
NoRefs == [o \in Obj |-> {}]
OwnName == [o \in Obj |-> o]
=============================================================================
