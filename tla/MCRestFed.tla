----------------------------- MODULE MCRestFed -----------------------------
(***************************************************************************)
(* RestFederation with one update at a time on its way to the cache.       *)
(***************************************************************************)
EXTENDS RestFederationInv
=============================================================================
