---------------------------- MODULE MCDomBuilder ----------------------------
(***************************************************************************)
(* DomBuilder with a few nodes and two element names.                      *)
(***************************************************************************)
EXTENDS DomBuilder

Symmetry == Permutations(Nodes) \cup Permutations(Names)
=============================================================================
