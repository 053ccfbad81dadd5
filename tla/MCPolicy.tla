------------------------------ MODULE MCPolicy ------------------------------
(***************************************************************************)
(* AdmissionPolicy with two federations, of which f1 has a child, and one  *)
(* operator, or one for each.                                              *)
(***************************************************************************)
EXTENDS AdmissionPolicy

CONSTANTS f1, f2, o1, o2

TwoFeds == {f1, f2}
OneOp == {o1}
TwoOps == {o1, o2}
SameOp == [f \in Fed |-> o1]
OwnOp == [f \in Fed |-> IF f = f1 THEN o1 ELSE o2]
F1Only == {f1}
=============================================================================
