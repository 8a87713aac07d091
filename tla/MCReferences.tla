---------------------------- MODULE MCReferences ----------------------------
(***************************************************************************)
(* Both kinds of references that parse_reference reads: those to entities, *)
(* as MCEntityExpansion has them, and those to characters, in five bits,   *)
(* with a gap among the XML characters as there is one for surrogates.     *)
(* The two machines share no state, so each is looked at while the other   *)
(* has next to nothing to do: no text of a character reference, or no      *)
(* reference in the document.                                              *)
(***************************************************************************)
EXTENDS MCEntityExpansion, CharacterReference

Sample == {X, Other, 0, 1, 2, 3, 7, 9, 10, 15}
ShortTexts == UNION {[1..n -> Sample] : n \in 0..4}
FiveBitChars == (1..20) \cup (25..30)

EitherInit ==
    \/ text = <<>> /\ Init /\ RefInit
    \/ /\ references = 0 /\ validating = FALSE /\ reference = "a" /\ entities = Mutual
       /\ Init /\ RefInit

EitherNext ==
    \/ Next /\ UNCHANGED ref_vars
    \/ RefNext /\ UNCHANGED vars

EitherSpec == EitherInit /\ [][EitherNext]_<<vars, ref_vars>> /\ WF_vars(Next)
=============================================================================
