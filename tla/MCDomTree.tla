----------------------------- MODULE MCDomTree -----------------------------
(***************************************************************************)
(* DomTree for two documents and a few nodes.  Addresses are alike, so     *)
(* states that differ only in which address is used are one.               *)
(***************************************************************************)
EXTENDS DomTree

Symmetry == Permutations(Documents) \cup Permutations(Nodes)
=============================================================================
