---------------------------- MODULE MCFederation ----------------------------
(***************************************************************************)
(* Federation at small dates: the initial date is 1, the renewal date 2,   *)
(* the expiry date 3; a renewed federation expires at 4 and the clock      *)
(* stops at 5.                                                             *)
(***************************************************************************)
EXTENDS FederationInv
=============================================================================
