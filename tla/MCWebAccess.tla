---------------------------- MODULE MCWebAccess ----------------------------
(***************************************************************************)
(* WebAccess for TLC: sessions and identities are interchangeable.         *)
(***************************************************************************)
EXTENDS WebAccess, TLC

Symmetry == Permutations(SessionSlots) \cup Permutations(Identities)
============================================================================
