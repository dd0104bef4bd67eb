---------------------------- MODULE MCBrokerLink ----------------------------
(***************************************************************************)
(* Small instances of BrokerLink.  The filters are interchangeable, so the *)
(* safety run takes them up to permutation.                                *)
(***************************************************************************)
EXTENDS BrokerLink, TLC

FilterSymmetry == Permutations(Filters)
=============================================================================
