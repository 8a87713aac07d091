--------------------------- MODULE DtdSubsetProofs ---------------------------
(***************************************************************************)
(* Proofs about DtdSubset, for every text of the subsets: the one limit on *)
(* declarations holds over both, the external subset is asked for when it  *)
(* is needed and allowed, and never else, and the declarations kept are    *)
(* those written.  For the last, Reading says what has been declared up to *)
(* the cursor, and each declaration read is shown to be the span from one  *)
(* keyword to before the next.                                             *)
(***************************************************************************)
EXTENDS DtdSubset, SequenceLemmas, FiniteSetTheorems

Texts == InternalTexts \cup ExternalTexts

\* There are finitely many declarations; the second text is the external one.
SubsetState ==
    /\ IsFiniteSet(DOMAIN elements) /\ IsFiniteSet(entities)
    /\ texts \in Seq(Texts)
    /\ pc \in {"doctype", "internal", "close", "resolve", "external", "done", "failed"}
    /\ pc \in {"doctype", "internal", "close", "resolve"} => Len(texts) = 1
    /\ pc = "external" => Len(texts) = 2 /\ Needed /\ Permitted
    /\ Len(texts) = 2 => Needed /\ Permitted

SubsetInv ==
    /\ SubsetState
    /\ DeclarationsAreCounted
    /\ ExternalOnRequest

-----------------------------------------------------------------------------
(* What the steps do.                                                       *)

Kept == UNCHANGED <<elements, entities>>

\* A declaration that ends the parse has been counted.
CountedAndFailed ==
    /\ pc # "failed" /\ pc' = "failed"
    /\ declaration_count' = declaration_count + 1
    /\ Kept
    /\ UNCHANGED <<settings, texts>>

\* A declaration that is kept was within the limit, and is new.
Declares ==
    /\ pc # "failed" /\ pc' = pc
    /\ WithinLimit
    /\ declaration_count' = declaration_count + 1
    /\ \/ /\ UNCHANGED entities
          /\ \E name : name \notin DOMAIN elements /\ DOMAIN elements' = DOMAIN elements \cup {name}
       \/ /\ UNCHANGED elements
          /\ \E name : name \notin entities /\ entities' = entities \cup {name}
    /\ UNCHANGED <<settings, texts>>

\* What declare does, from either subset.
LEMMA DeclareCases ==
    ASSUME NEW name, NEW pieces, NEW after, declare(name, pieces, after),
           pc # "failed", WithinLimit, Count, UNCHANGED <<settings, texts, entities>>
    PROVE  CountedAndFailed \/ Declares
<1>1. CASE fail("Validity") /\ UNCHANGED elements
  BY <1>1 DEF fail, CountedAndFailed, Kept, Count
<1>2. CASE /\ ~IsDuplicate(name)
           /\ \E model \in Models :
                 elements' = [n \in DOMAIN elements \cup {name} |->
                                IF n = name THEN model ELSE elements[n]]
           /\ UNCHANGED pc
  <2>1. DOMAIN elements' = DOMAIN elements \cup {name}
    BY <1>2
  <2> QED BY <1>2, <2>1 DEF IsDuplicate, Declares, Count
<1> QED BY <1>1, <1>2 DEF declare

\* The declarations of the internal subset.
LEMMA InternalElementCases == parse_element_declaration => CountedAndFailed \/ Declares
<1> SUFFICES ASSUME parse_element_declaration PROVE CountedAndFailed \/ Declares
  OBVIOUS
<1>1. pc # "failed" /\ Count /\ UNCHANGED <<settings, texts, entities>>
  BY DEF parse_element_declaration
<1>2. \/ (\E kind : fail(kind)) /\ UNCHANGED elements
      \/ WithinLimit /\ \E name, model, after : declare(name, model, after)
  BY DEF parse_element_declaration
<1>3. CASE (\E kind : fail(kind)) /\ UNCHANGED elements
  BY <1>1, <1>3 DEF fail, CountedAndFailed, Kept, Count
<1> QED BY <1>1, <1>2, <1>3, DeclareCases

\* An entity whose name is taken is refused like an element.
LEMMA EntityCases == parse_entity_declaration => CountedAndFailed \/ Declares
<1> SUFFICES ASSUME parse_entity_declaration PROVE CountedAndFailed \/ Declares
  OBVIOUS
<1>1. pc # "failed" /\ Count /\ UNCHANGED <<settings, texts, elements>>
  BY DEF parse_entity_declaration
<1>2. \/ (\E kind : fail(kind)) /\ UNCHANGED entities
      \/ /\ WithinLimit /\ At(named) \notin entities
         /\ entities' = entities \cup {At(named)}
         /\ UNCHANGED pc
  BY DEF parse_entity_declaration
<1>3. CASE (\E kind : fail(kind)) /\ UNCHANGED entities
  BY <1>1, <1>3 DEF fail, CountedAndFailed, Kept, Count
<1> QED BY <1>1, <1>2, <1>3 DEF Declares, Count

\* The declarations of the external subset.
LEMMA ExternalElementCases ==
    parse_external_element_declaration => CountedAndFailed \/ Declares
<1> SUFFICES ASSUME parse_external_element_declaration PROVE CountedAndFailed \/ Declares
  OBVIOUS
<1>1. pc # "failed" /\ Count /\ UNCHANGED <<settings, texts, entities>>
  BY DEF parse_external_element_declaration
<1>2. \/ (\E kind : fail(kind)) /\ UNCHANGED elements
      \/ WithinLimit /\ \E name, model, after : declare(name, model, after)
  BY DEF parse_external_element_declaration
<1>3. CASE (\E kind : fail(kind)) /\ UNCHANGED elements
  BY <1>1, <1>3 DEF fail, CountedAndFailed, Kept, Count
<1> QED BY <1>1, <1>2, <1>3, DeclareCases

Declarations ==
    \/ parse_element_declaration \/ parse_entity_declaration
    \/ parse_external_element_declaration

\* The rest of the subsets' syntax, in whatever text it is.
Syntax ==
    \/ parse_doctype \/ parse_internal_subset \/ close_doctype \/ parse_external_subset_text

\* Syntax declares nothing and reads no further text; the external subset is
\* done when its text is.
LEMMA SyntaxFacts ==
    Syntax => /\ UNCHANGED <<settings, texts, dtd>>
              /\ pc # "failed"
              /\ \/ pc' = "failed"
                 \/ pc = "external" /\ pc' = "done"
                 \/ /\ pc \in {"doctype", "internal", "close"}
                    /\ pc' \in {"internal", "close", "resolve"}
BY DEF Syntax, parse_doctype, parse_internal_subset, close_doctype, parse_external_subset_text,
       fail

\* The external subset is read after the checks, and no other text is.
LEMMA ResolveFacts ==
    resolve_external_subset_if_needed =>
        /\ UNCHANGED <<settings, dtd>>
        /\ pc = "resolve"
        /\ \/ ~Needed /\ pc' = "done" /\ UNCHANGED texts
           \/ pc' = "failed" /\ UNCHANGED texts
           \/ /\ Needed /\ Permitted /\ pc' \in {"failed", "external"}
              /\ \E subset \in ExternalTexts : texts' = Append(texts, subset)
BY DEF resolve_external_subset_if_needed, fail

-----------------------------------------------------------------------------
(* The invariant.                                                           *)

\* Nothing is declared before the declaration is read.
LEMMA InitSubsetInv == Init => SubsetInv
<1> SUFFICES ASSUME Init PROVE SubsetInv
  OBVIOUS
<1>1. DOMAIN elements = {} /\ entities = {} /\ declaration_count = 0 /\ pc = "doctype"
  <2>1. DOMAIN <<>> = {}
    BY EmptyFacts, EmptySeq, LenProperties
  <2> QED BY <2>1 DEF Init
<1>2. IsFiniteSet(DOMAIN elements) /\ IsFiniteSet(entities)
      /\ Cardinality(DOMAIN elements) = 0 /\ Cardinality(entities) = 0
  BY <1>1, FS_EmptySet
<1>3. texts \in Seq(Texts) /\ Len(texts) = 1
  <2>1. PICK t \in InternalTexts : texts = <<t>>
    BY DEF Init
  <2> QED BY <2>1 DEF Texts
<1>4. SubsetState
  BY <1>1, <1>2, <1>3 DEF SubsetState
<1>5. DeclarationsAreCounted
  BY <1>1, <1>2, LimitsAssumption DEF DeclarationsAreCounted
<1>6. ExternalOnRequest
  BY <1>1, <1>3 DEF ExternalOnRequest
<1> QED BY <1>4, <1>5, <1>6 DEF SubsetInv

\* A set with one element more has one more.
LEMMA OneMore ==
    ASSUME NEW S, IsFiniteSet(S), NEW e, e \notin S
    PROVE  /\ IsFiniteSet(S \cup {e})
           /\ Cardinality(S \cup {e}) = Cardinality(S) + 1
           /\ Cardinality(S) \in Nat
BY FS_AddElement, FS_CardinalityType

\* A declaration counts, whether it is kept or refused.
LEMMA DeclarationSteps == SubsetInv /\ (CountedAndFailed \/ Declares) => SubsetInv'
<1> SUFFICES ASSUME SubsetInv, CountedAndFailed \/ Declares PROVE SubsetInv'
  OBVIOUS
<1> DEFINE e == Cardinality(DOMAIN elements)
           n == Cardinality(entities)
<1>1. SubsetState /\ DeclarationsAreCounted /\ ExternalOnRequest
  BY DEF SubsetInv
<1>2. e \in Nat /\ n \in Nat /\ max_dtd_declarations \in Nat
  BY <1>1, FS_CardinalityType, LimitsAssumption DEF SubsetState
<1>3. pc # "failed" /\ e + n <= max_dtd_declarations /\ declaration_count = e + n
  BY <1>1 DEF DeclarationsAreCounted, CountedAndFailed, Declares
<1>4. texts' = texts /\ settings' = settings
  BY DEF CountedAndFailed, Declares
<1>5. CASE CountedAndFailed
  <2>1. SubsetState'
    BY <1>1, <1>4, <1>5 DEF SubsetState, CountedAndFailed, Kept, Needed, Permitted, settings
  <2>2. DeclarationsAreCounted'
    <3>1. /\ Cardinality(DOMAIN elements') = e /\ Cardinality(entities') = n
          /\ declaration_count' = e + n + 1 /\ pc' = "failed"
      BY <1>3, <1>5 DEF CountedAndFailed, Kept
    <3>2. (e + n + 1) - (e + n) \in {0, 1}
      BY <1>2
    <3> HIDE DEF e, n
    <3> QED BY <1>2, <1>3, <3>1, <3>2 DEF DeclarationsAreCounted
  <2>3. ExternalOnRequest'
    BY <1>1, <1>4, <1>5 DEF ExternalOnRequest, CountedAndFailed, settings
  <2> QED BY <2>1, <2>2, <2>3 DEF SubsetInv
<1>6. CASE Declares
  <2>1. /\ IsFiniteSet(DOMAIN elements') /\ IsFiniteSet(entities')
        /\ Cardinality(DOMAIN elements') + Cardinality(entities') = e + n + 1
    <3>1. CASE /\ UNCHANGED entities
               /\ \E name : name \notin DOMAIN elements /\ DOMAIN elements' = DOMAIN elements \cup {name}
      <4>1. IsFiniteSet(DOMAIN elements') /\ Cardinality(DOMAIN elements') = e + 1
        BY <1>1, <3>1, OneMore DEF SubsetState
      <4> QED BY <1>1, <1>2, <3>1, <4>1 DEF SubsetState
    <3>2. CASE /\ UNCHANGED elements
               /\ \E name : name \notin entities /\ entities' = entities \cup {name}
      <4>1. IsFiniteSet(entities') /\ Cardinality(entities') = n + 1
        BY <1>1, <3>2, OneMore DEF SubsetState
      <4> QED BY <1>1, <1>2, <3>2, <4>1 DEF SubsetState
    <3> QED BY <1>6, <3>1, <3>2 DEF Declares
  <2>2. declaration_count' = e + n + 1 /\ e + n + 1 <= max_dtd_declarations /\ pc' # "failed"
    BY <1>2, <1>3, <1>6 DEF Declares, WithinLimit
  <2>3. SubsetState'
    BY <1>1, <1>4, <1>6, <2>1 DEF SubsetState, Declares, Needed, Permitted, settings
  <2>4. DeclarationsAreCounted'
    BY <2>1, <2>2 DEF DeclarationsAreCounted
  <2>5. ExternalOnRequest'
    BY <1>1, <1>4, <1>6 DEF ExternalOnRequest, Declares, settings
  <2> QED BY <2>3, <2>4, <2>5 DEF SubsetInv
<1> QED BY <1>5, <1>6

\* Steps that declare nothing leave the count alone.
LEMMA CountKept ==
    ASSUME DeclarationsAreCounted, SubsetState, UNCHANGED dtd, pc # "failed"
    PROVE  DeclarationsAreCounted'
<1> DEFINE declared == Cardinality(DOMAIN elements) + Cardinality(entities)
<1>1. declared \in Nat
  BY FS_CardinalityType DEF SubsetState
<1>2. declared <= max_dtd_declarations /\ declaration_count = declared
  BY DEF DeclarationsAreCounted
<1>3. declared' = declared /\ declaration_count' = declared
  BY <1>2 DEF dtd
<1> HIDE DEF declared
<1>4. declared - declared \in {0, 1}
  BY <1>1
<1> QED BY <1>2, <1>3, <1>4 DEF DeclarationsAreCounted, declared

\* Every step keeps the invariant.
LEMMA NextSubsetInv == SubsetInv /\ [Next]_vars => SubsetInv'
<1> SUFFICES ASSUME SubsetInv, [Next]_vars PROVE SubsetInv'
  OBVIOUS
<1>1. SubsetState /\ DeclarationsAreCounted /\ ExternalOnRequest
  BY DEF SubsetInv
<1>2. CASE Declarations
  BY <1>2, DeclarationSteps, InternalElementCases, EntityCases, ExternalElementCases
     DEF Declarations
<1>3. CASE Syntax
  <2>1. DeclarationsAreCounted'
    BY <1>1, <1>3, SyntaxFacts, CountKept
  <2>2. SubsetState' /\ ExternalOnRequest'
    BY <1>1, <1>3, SyntaxFacts
       DEF SubsetState, ExternalOnRequest, dtd, settings, Needed, Permitted
  <2> QED BY <2>1, <2>2 DEF SubsetInv
<1>4. CASE resolve_external_subset_if_needed
  <2>1. DeclarationsAreCounted'
    BY <1>1, <1>4, ResolveFacts, CountKept
  <2>2. Len(texts) = 1
    BY <1>1, <1>4, ResolveFacts DEF SubsetState
  <2>3. CASE UNCHANGED texts /\ (pc' = "failed" \/ (~Needed /\ pc' = "done"))
    <3>1. Len(texts') = 1 /\ UNCHANGED <<settings, dtd>>
      BY <1>4, <2>2, <2>3, ResolveFacts
    <3>2. SubsetState'
      BY <1>1, <2>3, <3>1 DEF SubsetState, dtd
    <3>3. ExternalOnRequest'
      BY <2>3, <3>1 DEF ExternalOnRequest, Needed, settings
    <3> QED BY <2>1, <3>2, <3>3 DEF SubsetInv
  <2>4. CASE /\ Needed /\ Permitted /\ pc' \in {"failed", "external"}
             /\ \E subset \in ExternalTexts : texts' = Append(texts, subset)
    <3>1. texts' \in Seq(Texts) /\ Len(texts') = 2
      <4>1. PICK subset \in Texts : texts' = Append(texts, subset)
        BY <2>4 DEF Texts
      <4>2. texts' \in Seq(Texts) /\ Len(texts') = Len(texts) + 1
        BY <1>1, <4>1, PushFacts DEF SubsetState
      <4> QED BY <2>2, <4>2
    <3> QED BY <1>1, <1>4, <2>1, <2>4, <3>1, ResolveFacts
            DEF SubsetInv, SubsetState, ExternalOnRequest, dtd, settings, Needed, Permitted
  <2> QED BY <1>4, <2>3, <2>4, ResolveFacts
<1>5. CASE UNCHANGED vars
  BY <1>1, <1>5 DEF vars, dtd, settings, SubsetInv, SubsetState, DeclarationsAreCounted,
     ExternalOnRequest, Needed, Permitted
<1> QED BY <1>2, <1>3, <1>4, <1>5 DEF Next, Declarations, Syntax

-----------------------------------------------------------------------------
(* The theorems.                                                            *)

\* The limit on declarations holds over both subsets together, and each
\* declaration kept was counted once.
THEOREM DeclarationsAlwaysCounted == Spec => []DeclarationsAreCounted
<1>1. SubsetInv => DeclarationsAreCounted
  BY DEF SubsetInv
<1> QED BY <1>1, InitSubsetInv, NextSubsetInv, PTL DEF Spec

\* The external subset has been read when a validating parse goes on, and is
\* never asked for without need and permission.
THEOREM ExternalAlwaysOnRequest == Spec => []ExternalOnRequest
<1>1. SubsetInv => ExternalOnRequest
  BY DEF SubsetInv
<1> QED BY <1>1, InitSubsetInv, NextSubsetInv, PTL DEF Spec

-----------------------------------------------------------------------------
(* The declarations kept are those written.                                 *)

Keywords == {"<!ELEMENT", "<!ENTITY"}

Pairs == {<<n, elements[n]>> : n \in DOMAIN elements}

InternalElements == Declared(texts[1], InSubset(texts[1], "<!ELEMENT"))
InternalEntities == DeclaredEntities(texts[1], InSubset(texts[1], "<!ENTITY"))

\* The keywords of the internal subset, or of a whole text, before place c.
InSubsetBefore(t, keyword, c) == {i \in InSubset(t, keyword) : i < c}
InTextBefore(t, keyword, c) == {i \in InText(t, keyword) : i < c}

\* Where reading is, and what has been declared up to there.
Reading ==
    /\ pc # "failed" => cursor \in 1..(Len(text) + 1)
    /\ pc = "doctype" => cursor = 1 /\ DOMAIN elements = {} /\ entities = {}
    /\ pc = "internal" =>
          /\ Inside(text, cursor)
          /\ Pairs = Declared(text, InSubsetBefore(text, "<!ELEMENT", cursor))
          /\ entities = DeclaredEntities(text, InSubsetBefore(text, "<!ENTITY", cursor))
    /\ pc \in {"close", "resolve"} => Pairs = InternalElements /\ entities = InternalEntities
    /\ pc = "external" /\ NamesEndAtSpaces(text) =>
          /\ Pairs = InternalElements
                        \cup Declared(text, InTextBefore(text, "<!ELEMENT", cursor))
          /\ entities = InternalEntities

WrittenInv == SubsetInv /\ Reading /\ DeclaresWhatIsWritten

-----------------------------------------------------------------------------
(* Places in a text.                                                        *)

Pieces == Blanks \cup Marks \cup Words

\* A set of numbers that is not empty has a least one.
LEMMA MinFacts ==
    ASSUME NEW S, S \subseteq Nat, S # {}
    PROVE  Min(S) \in S /\ \A y \in S : Min(S) <= y
<1>1. PICK x \in S : \A y \in S : ~(<<y, x>> \in OpToRel(<, Nat))
  BY NatLessThanWellFounded, WFMin, Zenon
<1>2. \A y \in S : x <= y
  <2> TAKE y \in S
  <2>1. x \in Nat /\ y \in Nat
    OBVIOUS
  <2>2. y < x => <<y, x>> \in OpToRel(<, Nat)
    BY <2>1 DEF OpToRel
  <2>3. ~(y < x)
    BY <1>1, <2>2, Zenon
  <2> QED BY <2>1, <2>3
<1>3. \E z \in S : \A y \in S : z <= y
  BY <1>2
<1> QED BY <1>3 DEF Min

\* What Following finds: up to it there are pieces of P only.
LEMMA FollowingFacts ==
    ASSUME NEW t \in Seq(Pieces), NEW P, NEW i, i \in Nat, i <= Len(t)
    PROVE  /\ Following(t, P, i) \in Nat
           /\ i < Following(t, P, i) /\ Following(t, P, i) <= Len(t) + 1
           /\ Following(t, P, i) <= Len(t) => t[Following(t, P, i)] \notin P
           /\ \A j \in Nat : i < j /\ j < Following(t, P, i) => t[j] \in P
<1> DEFINE S == {j \in (i + 1)..(Len(t) + 1) : j > Len(t) \/ t[j] \notin P}
<1>1. Len(t) \in Nat
  BY LenProperties
<1>2. Len(t) + 1 \in S /\ S \subseteq Nat
  BY <1>1
<1>3. Min(S) \in S /\ \A y \in S : Min(S) <= y
  BY <1>2, MinFacts
<1>4. Following(t, P, i) = Min(S)
  BY DEF Following
<1> DEFINE n == Min(S)
<1>5. \A j \in Nat : j \in S <=> i < j /\ j <= Len(t) + 1 /\ (j > Len(t) \/ t[j] \notin P)
  BY <1>1
<1>6. n \in Nat /\ n \in S /\ \A y \in S : n <= y
  BY <1>2, <1>3
<1> HIDE DEF n, S
<1>7. n \in Nat /\ i < n /\ n <= Len(t) + 1 /\ (n > Len(t) \/ t[n] \notin P)
  BY <1>5, <1>6
<1>8. ASSUME NEW j \in Nat, i < j, j < n PROVE t[j] \in P
  BY <1>1, <1>5, <1>6, <1>7, <1>8
<1> QED BY <1>1, <1>4, <1>7, <1>8 DEF n

\* There is one such place.
LEMMA FollowingIs ==
    ASSUME NEW t \in Seq(Pieces), NEW P, NEW i, i \in Nat, i <= Len(t),
           NEW n, n \in Nat, i < n, n <= Len(t), t[n] \notin P,
           \A j \in Nat : i < j /\ j < n => t[j] \in P
    PROVE  Following(t, P, i) = n
<1> DEFINE m == Following(t, P, i)
<1>1. /\ m \in Nat /\ i < m /\ m <= Len(t) + 1 /\ Len(t) \in Nat
      /\ m <= Len(t) => t[m] \notin P
      /\ \A j \in Nat : i < j /\ j < m => t[j] \in P
  BY FollowingFacts, LenProperties
<1> HIDE DEF m
<1>2. ~(n < m)
  BY <1>1
<1>3. ~(m < n)
  BY <1>1
<1>4. m = n
  BY <1>1, <1>2, <1>3
<1> QED BY <1>4 DEF m

\* No piece is what peek returns at the end.
LEMMA AtFacts ==
    ASSUME text \in Seq(Pieces), NEW i, i \in Nat, 1 <= i
    PROVE  /\ i <= Len(text) => At(i) = text[i] /\ text[i] \in Pieces /\ At(i) # "end"
           /\ At(i) # "end" => i <= Len(text)
<1>1. Len(text) \in Nat /\ \A j \in 1..Len(text) : text[j] \in Pieces
  BY ElementOfSeq, LenProperties
<1>2. "end" \notin Pieces
  BY PiecesAssumption DEF Pieces, Blanks, Marks
<1> QED BY <1>1, <1>2 DEF At

\* Skip is Following from the place before.
LEMMA SkipFacts ==
    ASSUME text \in Seq(Pieces), NEW P, "end" \notin P, NEW i, i \in Nat, 1 <= i, i <= Len(text) + 1
    PROVE  /\ Skip(P, i) = Following(text, P, i - 1)
           /\ Skip(P, i) \in Nat /\ i <= Skip(P, i) /\ Skip(P, i) <= Len(text) + 1
           /\ Skip(P, i) <= Len(text) => text[Skip(P, i)] \notin P
           /\ \A j \in Nat : i <= j /\ j < Skip(P, i) => text[j] \in P
<1>1. Len(text) \in Nat
  BY LenProperties
<1>2. \A j \in i..(Len(text) + 1) : At(j) \notin P <=> j > Len(text) \/ text[j] \notin P
  BY <1>1 DEF At
<1>3. (i - 1) + 1 = i /\ i - 1 \in Nat /\ i - 1 <= Len(text)
  BY <1>1
<1>4. {j \in i..(Len(text) + 1) : At(j) \notin P}
        = {j \in ((i - 1) + 1)..(Len(text) + 1) : j > Len(text) \/ text[j] \notin P}
  BY <1>2, <1>3
<1>5. Skip(P, i) = Following(text, P, i - 1)
  BY <1>4 DEF Skip, Following
<1>6. /\ Following(text, P, i - 1) \in Nat
      /\ i - 1 < Following(text, P, i - 1) /\ Following(text, P, i - 1) <= Len(text) + 1
      /\ Following(text, P, i - 1) <= Len(text) => text[Following(text, P, i - 1)] \notin P
      /\ \A j \in Nat : i - 1 < j /\ j < Following(text, P, i - 1) => text[j] \in P
  BY <1>3, FollowingFacts
<1> DEFINE n == Following(text, P, i - 1)
<1> HIDE DEF n
<1>7. i <= n /\ \A j \in Nat : i <= j /\ j < n => text[j] \in P
  BY <1>3, <1>6 DEF n
<1> QED BY <1>5, <1>6, <1>7 DEF n

\* Find stops at the first piece p, or at the end.
LEMMA FindFacts ==
    ASSUME text \in Seq(Pieces), NEW p, NEW i, i \in Nat, 1 <= i, i <= Len(text) + 1
    PROVE  /\ Find(p, i) \in Nat /\ i <= Find(p, i) /\ Find(p, i) <= Len(text) + 1
           /\ Find(p, i) <= Len(text) => text[Find(p, i)] = p
           /\ \A j \in Nat : i <= j /\ j < Find(p, i) => text[j] # p
<1> DEFINE S == {j \in i..(Len(text) + 1) : At(j) \in {p, "end"}}
<1>1. Len(text) \in Nat
  BY LenProperties
<1>2. Len(text) + 1 \in S /\ S \subseteq Nat
  BY <1>1 DEF At
<1>3. Min(S) \in S /\ \A y \in S : Min(S) <= y
  BY <1>2, MinFacts
<1>4. \A j \in Nat : i <= j /\ j <= Len(text) =>
          At(j) = text[j] /\ At(j) # "end" /\ (j \in S <=> text[j] = p)
  <2> TAKE j \in Nat
  <2>1. i <= j /\ j <= Len(text) => At(j) = text[j] /\ At(j) # "end"
    BY AtFacts
  <2> QED BY <1>1, <2>1
<1>5. Find(p, i) = Min(S)
  BY DEF Find
<1> DEFINE n == Min(S)
<1>6. n \in Nat /\ n \in S /\ i <= n /\ n <= Len(text) + 1 /\ \A y \in S : n <= y
  BY <1>1, <1>2, <1>3
<1> HIDE DEF n, S
<1>7. ASSUME NEW j \in Nat, i <= j, j < n PROVE text[j] # p
  BY <1>1, <1>4, <1>6, <1>7
<1>8. n <= Len(text) => text[n] = p
  BY <1>4, <1>6
<1> QED BY <1>5, <1>6, <1>7, <1>8 DEF n

-----------------------------------------------------------------------------
(* What a declaration adds to what is written before it.                    *)

\* From c to before d there is at most one keyword, at h, and no "]" elsewhere.
Span(t, c, h, d) ==
    /\ c \in Nat /\ h \in Nat /\ d \in Nat
    /\ 1 <= c /\ c <= h /\ h < d /\ d <= Len(t) + 1
    /\ \A k \in Nat : c <= k /\ k < d /\ k # h => t[k] \notin Keywords \cup {"]"}

\* In a text the keyword at h is the only one added.
LEMMA TextSpan ==
    ASSUME NEW t \in Seq(Pieces), NEW c, NEW h, NEW d, Span(t, c, h, d), NEW word \in Keywords
    PROVE  InTextBefore(t, word, d) =
              InTextBefore(t, word, c) \cup IF t[h] = word THEN {h} ELSE {}
<1>1. DOMAIN t = 1..Len(t) /\ Len(t) \in Nat
  BY LenProperties
<1>2. \A k \in 1..Len(t) : k < d <=> k < c \/ k = h \/ (c <= k /\ k < d /\ k # h)
  BY <1>1 DEF Span
<1>3. \A k \in 1..Len(t) : c <= k /\ k < d /\ k # h => t[k] # word
  BY <1>1 DEF Span
<1>4. h \in 1..Len(t)
  BY <1>1 DEF Span
<1>5. \A k : k \in InTextBefore(t, word, d) <=> k \in 1..Len(t) /\ t[k] = word /\ k < d
  BY <1>1 DEF InTextBefore, InText
<1>6. \A k : k \in InTextBefore(t, word, c) <=> k \in 1..Len(t) /\ t[k] = word /\ k < c
  BY <1>1 DEF InTextBefore, InText
<1> QED BY <1>2, <1>3, <1>4, <1>5, <1>6

\* Places that follow without a "]" are inside the subset as well.
LEMMA InsideFacts ==
    ASSUME NEW t \in Seq(Pieces), NEW c, c \in Nat, Inside(t, c), NEW i, i \in Nat, c <= i
    PROVE  Inside(t, i) <=> \A k \in Nat : c <= k /\ k < i => t[k] # "]"
<1>1. PICK open \in 1..(c - 1) : t[open] = "[" /\ \A j \in 1..(open - 1) : t[j] \in Blanks
  BY DEF Inside
<1>2. open \in 1..(i - 1)
  BY <1>1
<1>3. \A j \in 1..(c - 1) : t[j] # "]"
  BY DEF Inside
<1>4. (\A k \in Nat : c <= k /\ k < i => t[k] # "]") <=> \A j \in 1..(i - 1) : t[j] # "]"
  <2>1. 1 <= c
    BY <1>1
  <2>2. \A k \in Nat : c <= k /\ k < i => k \in 1..(i - 1)
    BY <2>1
  <2>3. \A j \in 1..(i - 1) : j \in 1..(c - 1) \/ (j \in Nat /\ c <= j /\ j < i)
    OBVIOUS
  <2> QED BY <1>3, <2>2, <2>3
<1> QED BY <1>1, <1>2, <1>4 DEF Inside

\* The same in the internal subset, which goes on.
LEMMA SubsetSpan ==
    ASSUME NEW t \in Seq(Pieces), NEW c, NEW h, NEW d, Span(t, c, h, d), Inside(t, c)
    PROVE  /\ t[h] # "]" => Inside(t, d)
           /\ \A word \in Keywords :
                 InSubsetBefore(t, word, d) =
                    InSubsetBefore(t, word, c) \cup IF t[h] = word THEN {h} ELSE {}
<1>1. DOMAIN t = 1..Len(t) /\ Len(t) \in Nat
  BY LenProperties
<1>2. /\ c \in Nat /\ h \in Nat /\ d \in Nat
      /\ 1 <= c /\ c <= h /\ h < d /\ d <= Len(t) + 1
      /\ \A k \in Nat : c <= k /\ k < d /\ k # h => t[k] \notin Keywords \cup {"]"}
  BY DEF Span
<1>3. t[h] # "]" => Inside(t, d)
  BY <1>2, InsideFacts
<1>4. Inside(t, h)
  BY <1>2, InsideFacts
<1>5. ASSUME NEW word \in Keywords
      PROVE  InSubsetBefore(t, word, d) =
                InSubsetBefore(t, word, c) \cup IF t[h] = word THEN {h} ELSE {}
  <2>1. \A k \in 1..Len(t) : k < d <=> k < c \/ k = h \/ (c <= k /\ k < d /\ k # h)
    BY <1>1, <1>2
  <2>2. \A k \in 1..Len(t) : c <= k /\ k < d /\ k # h => t[k] # word
    BY <1>1, <1>2, <1>5
  <2>3. h \in 1..Len(t)
    BY <1>1, <1>2
  <2>4. \A b, k : k \in InSubsetBefore(t, word, b) <=>
                     k \in 1..Len(t) /\ t[k] = word /\ Inside(t, k) /\ k < b
    BY <1>1 DEF InSubsetBefore, InSubset
  <2> QED BY <1>4, <2>1, <2>2, <2>3, <2>4
<1> QED BY <1>3, <1>5

\* One keyword more, one declaration more.
LEMMA OneDeclared ==
    ASSUME NEW t, NEW P, NEW h
    PROVE  /\ Declared(t, P \cup {h}) = Declared(t, P)
                \cup {<<<<t[Following(t, Blanks, h)]>>,
                        t[Following(t, Blanks, Following(t, Blanks, h))]>>}
           /\ DeclaredEntities(t, P \cup {h}) =
                DeclaredEntities(t, P) \cup {t[Following(t, Blanks, h)]}
<1> DEFINE pair(i) == <<<<t[Following(t, Blanks, i)]>>,
                        t[Following(t, Blanks, Following(t, Blanks, i))]>>
           name(i) == t[Following(t, Blanks, i)]
<1>1. \A Q : Declared(t, Q) = {pair(i) : i \in Q}
  BY DEF Declared
<1>2. \A Q : DeclaredEntities(t, Q) = {name(i) : i \in Q}
  BY DEF DeclaredEntities
<1>3. pair(h) = <<<<t[Following(t, Blanks, h)]>>,
                  t[Following(t, Blanks, Following(t, Blanks, h))]>>
  OBVIOUS
<1>4. name(h) = t[Following(t, Blanks, h)]
  OBVIOUS
<1> HIDE DEF pair, name
<1>5. {pair(i) : i \in P \cup {h}} = {pair(i) : i \in P} \cup {pair(h)}
  OBVIOUS
<1>6. {name(i) : i \in P \cup {h}} = {name(i) : i \in P} \cup {name(h)}
  OBVIOUS
<1> QED BY <1>1, <1>2, <1>3, <1>4, <1>5, <1>6

\* A name that is new is declared beside the others.
LEMMA PairsMore ==
    ASSUME NEW name, NEW model, name \notin DOMAIN elements,
           elements' = [n \in DOMAIN elements \cup {name} |->
                           IF n = name THEN model ELSE elements[n]]
    PROVE  Pairs' = Pairs \cup {<<name, model>>}
<1>1. DOMAIN elements' = DOMAIN elements \cup {name}
  OBVIOUS
<1>2. elements'[name] = model /\ \A n \in DOMAIN elements : elements'[n] = elements[n]
  OBVIOUS
<1>3. Pairs' = {<<n, elements'[n]>> : n \in DOMAIN elements'}
  BY DEF Pairs
<1> QED BY <1>1, <1>2, <1>3 DEF Pairs

\* From i on, or after i, there are blanks up to j.
BlanksFrom(t, i, j) == \A k \in Nat : i <= k /\ k < j => t[k] \in Blanks
BlanksAfter(t, i, j) == \A k \in Nat : i < k /\ k < j => t[k] \in Blanks

\* Reading from c, there is a declaration of an element: its keyword is at h,
\* its name at n, its model among the pieces from b on, and its end at close.
ElementAt(t, c, h, n, b, close, model) ==
    /\ c \in Nat /\ h \in Nat /\ n \in Nat /\ b \in Nat /\ close \in Nat
    /\ 1 <= c /\ c <= h /\ h < n /\ n < b /\ n < close /\ close <= Len(t)
    /\ t[h] = "<!ELEMENT" /\ t[n] \in Names /\ t[close] = ">"
    /\ BlanksFrom(t, c, h) /\ BlanksAfter(t, h, n) /\ BlanksAfter(t, n, b)
    /\ model \in Models /\ IsModel(SubSeq(t, b, close - 1), model)

\* Then the name and the model are the next two pieces after the keyword, and
\* there is no other keyword up to the end.
LEMMA ElementSpan ==
    ASSUME NEW t \in Seq(Pieces), NEW c, NEW h, NEW n, NEW b, NEW close, NEW model,
           ElementAt(t, c, h, n, b, close, model)
    PROVE  /\ Span(t, c, h, close + 1)
           /\ Following(t, Blanks, h) = n
           /\ t[Following(t, Blanks, n)] = model
<1> USE DEF ElementAt
<1>1. Len(t) \in Nat /\ \A k \in 1..Len(t) : t[k] \in Pieces
  BY ElementOfSeq, LenProperties
<1>2. /\ \A w \in Names \cup Models : w \notin Blanks \cup Keywords \cup {"]", ">", "end"}
      /\ \A w \in Blanks : w \notin Keywords \cup {"]", ">"}
  BY PiecesAssumption DEF Words, Marks, Blanks, Keywords
<1> USE DEF BlanksFrom, BlanksAfter
<1> DEFINE s == SubSeq(t, b, close - 1)
<1>3. PICK i \in DOMAIN s : s[i] = model /\ \A j \in DOMAIN s \ {i} : s[j] \in Blanks
  BY DEF IsModel, stripped
<1>4. \A k \in b..(close - 1) : t[k] \in Pieces
  BY <1>1
<1>5. /\ s \in Seq(Pieces)
      /\ Len(s) = IF b <= close - 1 THEN (close - 1) - b + 1 ELSE 0
      /\ \A k \in 1..((close - 1) - b + 1) : s[k] = t[b + k - 1]
  BY <1>4, SubSeqProperties
<1>6. DOMAIN s = 1..Len(s)
  BY <1>5, LenProperties
<1> HIDE DEF s
<1>7. b <= close - 1 /\ DOMAIN s = 1..(close - b)
  BY <1>3, <1>5, <1>6
<1>8. \A k \in Nat : b <= k /\ k < close => k - b + 1 \in DOMAIN s /\ s[k - b + 1] = t[k]
  <2> SUFFICES ASSUME NEW k \in Nat, b <= k, k < close
               PROVE  k - b + 1 \in DOMAIN s /\ s[k - b + 1] = t[k]
    OBVIOUS
  <2>1. k - b + 1 \in 1..(close - b) /\ k - b + 1 \in 1..((close - 1) - b + 1)
    BY <1>7
  <2>2. b + (k - b + 1) - 1 = k
    OBVIOUS
  <2>3. s[k - b + 1] = t[b + (k - b + 1) - 1]
    BY <1>5, <2>1
  <2> QED BY <1>7, <2>1, <2>2, <2>3
<1> DEFINE m == b + i - 1
<1>9. i \in 1..(close - b)
  BY <1>3, <1>7
<1>10. m \in Nat /\ b <= m /\ m < close /\ m - b + 1 = i
  BY <1>9
<1> HIDE DEF m
<1>11. t[m] = model
  BY <1>3, <1>8, <1>10
<1>12. \A k \in Nat : b <= k /\ k < close /\ k # m => t[k] \in Blanks
  <2> SUFFICES ASSUME NEW k \in Nat, b <= k, k < close, k # m PROVE t[k] \in Blanks
    OBVIOUS
  <2>1. k - b + 1 \in DOMAIN s /\ s[k - b + 1] = t[k]
    BY <1>8
  <2>2. k - b + 1 # i
    BY <1>10
  <2> QED BY <1>3, <2>1, <2>2
<1>13. \A k \in Nat : n < k /\ k < m => t[k] \in Blanks
  <2> SUFFICES ASSUME NEW k \in Nat, n < k, k < m PROVE t[k] \in Blanks
    OBVIOUS
  <2>1. k < b \/ (b <= k /\ k < close /\ k # m)
    BY <1>10
  <2> QED BY <1>12, <2>1
<1>14. Following(t, Blanks, h) = n
  BY <1>1, <1>2, FollowingIs
<1>15. Following(t, Blanks, n) = m
  <2>1. n \in Nat /\ n <= Len(t) /\ m \in Nat /\ n < m /\ m <= Len(t)
    BY <1>1, <1>10
  <2>2. t[m] \notin Blanks
    BY <1>2, <1>11
  <2> QED BY <1>13, <2>1, <2>2, FollowingIs
<1>16. ASSUME NEW k \in Nat, c <= k, k < close + 1, k # h
       PROVE  t[k] \notin Keywords \cup {"]"}
  <2>1. \/ c <= k /\ k < h
        \/ h < k /\ k < n
        \/ k = n
        \/ n < k /\ k < b
        \/ b <= k /\ k < close /\ k # m
        \/ k = m
        \/ k = close
    BY <1>10, <1>16
  <2>2. t[k] \in Blanks \/ t[k] \in Names \cup Models \/ t[k] = ">"
    BY <1>11, <1>12, <2>1
  <2> QED BY <1>2, <2>2 DEF Keywords
<1>17. h < close + 1 /\ close + 1 <= Len(t) + 1 /\ close + 1 \in Nat
  BY <1>1
<1> QED BY <1>11, <1>14, <1>15, <1>16, <1>17 DEF Span

-----------------------------------------------------------------------------
(* One lemma per step.                                                      *)

Running == pc \in {"doctype", "internal", "close", "resolve", "external"}

\* Which text is read.
LEMMA TextFacts ==
    ASSUME SubsetState
    PROVE  /\ pc \in {"doctype", "internal", "close", "resolve"} => Len(texts) = 1 /\ text = texts[1]
           /\ pc = "external" => Len(texts) = 2 /\ text = texts[2]
           /\ Running => text \in Seq(Pieces)
<1>1. /\ pc \in {"doctype", "internal", "close", "resolve"} => Len(texts) = 1 /\ text = texts[1]
      /\ pc = "external" => Len(texts) = 2 /\ text = texts[2]
  BY DEF SubsetState, text, Last
<1>2. Running => Len(texts) \in {1, 2} /\ text = texts[Len(texts)]
  BY <1>1 DEF Running
<1>3. \A k \in 1..Len(texts) : texts[k] \in Seq(Pieces)
  <2>1. \A k \in 1..Len(texts) : texts[k] \in Texts
    BY ElementOfSeq DEF SubsetState
  <2> QED BY <2>1, PiecesAssumption DEF Texts, Pieces
<1> QED BY <1>1, <1>2, <1>3

\* Where the next piece is.
LEMMA HereFacts ==
    ASSUME SubsetState, Reading, Running
    PROVE  /\ text \in Seq(Pieces) /\ Len(text) \in Nat
           /\ cursor \in Nat /\ 1 <= cursor /\ cursor <= Len(text) + 1
           /\ here \in Nat /\ cursor <= here /\ here <= Len(text) + 1
           /\ \A k \in Nat : cursor <= k /\ k < here => text[k] \in Blanks
           /\ here <= Len(text) => At(here) = text[here] /\ text[here] \notin Blanks
           /\ At(here) # "end" <=> here <= Len(text)
<1>1. text \in Seq(Pieces) /\ Len(text) \in Nat
  BY TextFacts, LenProperties
<1>2. cursor \in Nat /\ 1 <= cursor /\ cursor <= Len(text) + 1
  BY <1>1 DEF Reading, Running
<1>3. "end" \notin Blanks
  BY DEF Blanks
<1>4. /\ here \in Nat /\ cursor <= here /\ here <= Len(text) + 1
      /\ here <= Len(text) => text[here] \notin Blanks
      /\ \A k \in Nat : cursor <= k /\ k < here => text[k] \in Blanks
  BY <1>1, <1>2, <1>3, SkipFacts DEF here
<1>5. 1 <= here
  BY <1>2, <1>4
<1>6. /\ here <= Len(text) => At(here) = text[here] /\ At(here) # "end"
      /\ At(here) # "end" => here <= Len(text)
  BY <1>1, <1>4, <1>5, AtFacts
<1> QED BY <1>1, <1>2, <1>4, <1>6

\* Nothing is claimed of a parse that has failed.
LEMMA FailedReading == pc' = "failed" => Reading' /\ DeclaresWhatIsWritten'
BY DEF Reading, DeclaresWhatIsWritten

\* The first piece decides whether there is an internal subset.
LEMMA DoctypeReading ==
    ASSUME SubsetState, Reading, parse_doctype
    PROVE  Reading' /\ DeclaresWhatIsWritten'
<1>1. pc = "doctype" /\ Running /\ UNCHANGED texts /\ UNCHANGED <<elements, entities>>
  BY DEF parse_doctype, Running, dtd
<1>2. CASE pc' = "failed"
  BY <1>2, FailedReading
<1>3. CASE /\ pc' = IF At(here) = "[" THEN "internal" ELSE "close"
           /\ cursor' = IF At(here) = "[" THEN here + 1 ELSE here
  <2> DEFINE t == text
  <2>1. /\ t \in Seq(Pieces) /\ Len(t) \in Nat /\ cursor = 1
        /\ here \in Nat /\ 1 <= here /\ here <= Len(t) + 1
        /\ \A k \in Nat : 1 <= k /\ k < here => t[k] \in Blanks
        /\ here <= Len(t) => At(here) = t[here] /\ t[here] \notin Blanks
        /\ At(here) # "end" <=> here <= Len(t)
    BY <1>1, HereFacts DEF Reading
  <2>2. texts' = texts /\ text' = t /\ texts[1] = t /\ Len(texts) = 1
    BY <1>1, TextFacts DEF text
  <2>3. Pairs' = {} /\ entities' = {}
    BY <1>1 DEF Reading, Pairs
  <2> HIDE DEF t
  <2>4. ASSUME NEW k \in 1..(Len(t) + 1), Inside(t, k)
        PROVE  here < k /\ t[here] = "[" /\ here <= Len(t)
    <3>1. PICK open \in 1..(k - 1) : t[open] = "[" /\ \A j \in 1..(open - 1) : t[j] \in Blanks
      BY <2>4 DEF Inside
    <3>2. open \in Nat /\ 1 <= open /\ open <= Len(t) /\ open < k
      BY <2>1
    <3>3. "[" \notin Blanks
      BY DEF Blanks
    <3>4. ~(open < here)
      BY <2>1, <3>1, <3>2, <3>3
    <3>5. ~(here < open)
      <4>1. SUFFICES ASSUME here < open PROVE FALSE
        OBVIOUS
      <4>2. here \in 1..(open - 1) /\ here <= Len(t)
        BY <2>1, <3>2, <4>1
      <4> QED BY <2>1, <3>1, <4>2
    <3>6. open = here
      BY <2>1, <3>2, <3>4, <3>5
    <3> QED BY <3>1, <3>2, <3>6
  <2>5. DOMAIN t = 1..Len(t)
    BY <2>1, LenProperties
  <2>6. Declared(t, {}) = {} /\ DeclaredEntities(t, {}) = {}
    BY DEF Declared, DeclaredEntities
  <2>7. CASE At(here) = "["
    <3>1. pc' = "internal" /\ cursor' = here + 1 /\ here <= Len(t) /\ t[here] = "["
      BY <1>3, <2>1, <2>7
    <3>2. Inside(t, here + 1)
      <4>1. here \in 1..((here + 1) - 1) /\ \A j \in 1..(here - 1) : t[j] \in Blanks
        BY <2>1
      <4>2. ASSUME NEW j \in 1..((here + 1) - 1) PROVE t[j] # "]"
        <5>1. j = here \/ t[j] \in Blanks
          BY <2>1
        <5> QED BY <3>1, <5>1 DEF Blanks
      <4> QED BY <3>1, <4>1, <4>2 DEF Inside
    <3>3. \A word : InSubsetBefore(t, word, here + 1) = {}
      <4>1. ASSUME NEW word, NEW k \in InSubsetBefore(t, word, here + 1) PROVE FALSE
        <5>1. k \in 1..Len(t) /\ Inside(t, k) /\ k < here + 1
          BY <2>5, <4>1 DEF InSubsetBefore, InSubset
        <5>2. here < k
          BY <2>1, <2>4, <5>1
        <5> QED BY <2>1, <5>1, <5>2
      <4> QED BY <4>1
    <3>4. here + 1 \in 1..(Len(t) + 1)
      BY <2>1, <3>1
    <3> QED BY <2>2, <2>3, <2>6, <3>1, <3>2, <3>3, <3>4 DEF Reading, DeclaresWhatIsWritten
  <2>8. CASE At(here) # "["
    <3>1. pc' = "close" /\ cursor' = here
      BY <1>3, <2>8
    <3>2. \A word : InSubset(t, word) = {}
      <4>1. ASSUME NEW word, NEW k \in InSubset(t, word) PROVE FALSE
        <5>1. k \in 1..(Len(t) + 1) /\ Inside(t, k)
          BY <2>1, <2>5, <4>1 DEF InSubset
        <5> QED BY <2>1, <2>4, <2>8, <5>1
      <4> QED BY <4>1
    <3>3. Pairs' = InternalElements' /\ entities' = InternalEntities'
      BY <2>2, <2>3, <2>6, <3>2 DEF InternalElements, InternalEntities
    <3>4. here \in 1..(Len(t) + 1)
      BY <2>1
    <3> QED BY <2>2, <3>1, <3>3, <3>4 DEF Reading, DeclaresWhatIsWritten
  <2> QED BY <2>7, <2>8
<1> QED BY <1>2, <1>3 DEF parse_doctype, fail

\* The declaration of an element in the internal subset.
LEMMA ElementReading ==
    ASSUME SubsetState, Reading, parse_element_declaration
    PROVE  Reading' /\ DeclaresWhatIsWritten'
<1>1. pc = "internal" /\ Running /\ UNCHANGED <<texts, entities>> /\ At(here) = "<!ELEMENT"
  BY DEF parse_element_declaration, Running
<1> DEFINE close == Find(">", named + 1)
<1>2. CASE pc' = "failed"
  BY <1>2, FailedReading
<1>3. CASE /\ HasName /\ At(close) = ">" /\ pc' = pc
           /\ declare(<<At(named)>>, SubSeq(text, named + 1, close - 1), Past(close))
           /\ pc' # "failed"
  <2> DEFINE t == text
             c == cursor
             h == here
             n == named
  <2>1. /\ t \in Seq(Pieces) /\ Len(t) \in Nat
        /\ c \in Nat /\ 1 <= c /\ c <= h /\ h \in Nat /\ h <= Len(t) /\ t[h] = "<!ELEMENT"
        /\ \A k \in Nat : c <= k /\ k < h => t[k] \in Blanks
    BY <1>1, HereFacts
  <2>2. texts' = texts /\ text' = t /\ texts[1] = t
    BY <1>1, TextFacts DEF text
  <2>3. h + 1 \in Nat /\ 1 <= h + 1 /\ h + 1 <= Len(t) + 1 /\ "end" \notin Blanks
    <3>1. "end" \notin Blanks
      BY DEF Blanks
    <3> QED BY <2>1, <3>1
  <2>4. /\ n \in Nat /\ h + 1 <= n /\ n <= Len(t) + 1
        /\ \A k \in Nat : h + 1 <= k /\ k < n => t[k] \in Blanks
    BY <2>1, <2>3, SkipFacts DEF named
  <2>5. At(n) \in Names /\ n <= Len(t) /\ At(n) = t[n]
    <3>1. At(n) \in Names
      BY <1>3 DEF HasName
    <3>2. At(n) # "end"
      BY <3>1, PiecesAssumption DEF Words
    <3> QED BY <2>1, <2>3, <2>4, <3>1, <3>2, AtFacts
  <2>6. n + 1 \in Nat /\ 1 <= n + 1 /\ n + 1 <= Len(t) + 1
    BY <2>1, <2>4, <2>5
  <2>7. /\ close \in Nat /\ n + 1 <= close /\ close <= Len(t) + 1
        /\ close <= Len(t) => t[close] = ">"
    BY <2>1, <2>6, FindFacts
  <2>8. close <= Len(t)
    <3>1. close \in Nat /\ 1 <= close
      BY <2>6, <2>7
    <3> QED BY <1>3, <2>1, <3>1, AtFacts
  <2> DEFINE d == close
  <2> HIDE DEF t, c, h, n, d
  <2>9. PICK model \in Models :
            /\ IsModel(SubSeq(t, n + 1, d - 1), model)
            /\ <<t[n]>> \notin DOMAIN elements
            /\ elements' = [x \in DOMAIN elements \cup {<<t[n]>>} |->
                               IF x = <<t[n]>> THEN model ELSE elements[x]]
            /\ cursor' = d + 1
    <3>1. declare(<<t[n]>>, SubSeq(t, n + 1, d - 1), d + 1)
      BY <1>3, <2>5 DEF t, n, d, Past
    <3> QED BY <1>3, <3>1 DEF declare, fail, IsDuplicate
  <2>10. /\ Span(t, c, h, d + 1)
         /\ Following(t, Blanks, h) = n
         /\ t[Following(t, Blanks, n)] = model
    <3> DEFINE b == n + 1
    <3>1. /\ h < n /\ n < b /\ b \in Nat /\ d \in Nat /\ n < d /\ d <= Len(t) /\ t[d] = ">"
          /\ n \in Nat /\ t[n] \in Names
          /\ BlanksFrom(t, c, h) /\ BlanksAfter(t, h, n) /\ BlanksAfter(t, n, b)
      BY <2>1, <2>4, <2>5, <2>6, <2>7, <2>8 DEF d, BlanksFrom, BlanksAfter
    <3>2. model \in Models /\ IsModel(SubSeq(t, b, d - 1), model)
      BY <2>9
    <3> HIDE DEF b
    <3>3. ElementAt(t, c, h, n, b, d, model)
      BY <2>1, <3>1, <3>2 DEF ElementAt
    <3> QED BY <2>1, <3>3, ElementSpan
  <2>11. Inside(t, c)
    BY <1>1 DEF Reading, t, c
  <2>12. "<!ELEMENT" \in Keywords /\ "<!ENTITY" \in Keywords
    BY DEF Keywords
  <2>13. /\ Inside(t, d + 1)
         /\ InSubsetBefore(t, "<!ELEMENT", d + 1) = InSubsetBefore(t, "<!ELEMENT", c) \cup {h}
         /\ InSubsetBefore(t, "<!ENTITY", d + 1) = InSubsetBefore(t, "<!ENTITY", c)
    <3>1. /\ t[h] # "]" => Inside(t, d + 1)
          /\ \A word \in Keywords :
                InSubsetBefore(t, word, d + 1) =
                   InSubsetBefore(t, word, c) \cup IF t[h] = word THEN {h} ELSE {}
      BY <2>1, <2>10, <2>11, SubsetSpan
    <3>2. t[h] = "<!ELEMENT" /\ t[h] # "<!ENTITY" /\ t[h] # "]"
      BY <2>1
    <3> QED BY <2>12, <3>1, <3>2
  <2>14. Declared(t, InSubsetBefore(t, "<!ELEMENT", d + 1)) =
            Declared(t, InSubsetBefore(t, "<!ELEMENT", c)) \cup {<<<<t[n]>>, model>>}
    BY <2>10, <2>13, OneDeclared
  <2>15. Pairs' = Pairs \cup {<<<<t[n]>>, model>>}
    BY <2>9, PairsMore
  <2>16. /\ Pairs = Declared(t, InSubsetBefore(t, "<!ELEMENT", c))
         /\ entities = DeclaredEntities(t, InSubsetBefore(t, "<!ENTITY", c))
    BY <1>1 DEF Reading, t, c
  <2>17. /\ Pairs' = Declared(t, InSubsetBefore(t, "<!ELEMENT", d + 1))
         /\ entities' = DeclaredEntities(t, InSubsetBefore(t, "<!ENTITY", d + 1))
    BY <1>1, <2>13, <2>14, <2>15, <2>16
  <2>18. d + 1 \in 1..(Len(t) + 1)
    BY <2>1, <2>7, <2>8 DEF d
  <2> QED BY <1>1, <1>3, <2>2, <2>9, <2>13, <2>17, <2>18 DEF Reading, DeclaresWhatIsWritten
<1>4. pc' = "failed" \/ (pc' = pc /\ pc # "failed")
  BY <1>1 DEF parse_element_declaration, declare, fail
<1> QED BY <1>2, <1>3, <1>4 DEF parse_element_declaration, declare, fail

\* The declaration of an entity.
LEMMA EntityReading ==
    ASSUME SubsetState, Reading, parse_entity_declaration
    PROVE  Reading' /\ DeclaresWhatIsWritten'
<1>1. pc = "internal" /\ Running /\ UNCHANGED <<texts, elements>> /\ At(here) = "<!ENTITY"
  BY DEF parse_entity_declaration, Running
<1> DEFINE l == Skip(Blanks, named + 1)
           d == Skip(Blanks, l + 1)
<1>2. CASE pc' = "failed"
  BY <1>2, FailedReading
<1>3. CASE /\ HasName /\ At(l) \in Literals /\ At(d) = ">" /\ pc' = pc
           /\ entities' = entities \cup {At(named)} /\ cursor' = d + 1
  <2> DEFINE t == text
             c == cursor
             h == here
             n == named
  <2>1. /\ t \in Seq(Pieces) /\ Len(t) \in Nat
        /\ c \in Nat /\ 1 <= c /\ c <= h /\ h \in Nat /\ h <= Len(t) /\ t[h] = "<!ENTITY"
        /\ \A k \in Nat : c <= k /\ k < h => t[k] \in Blanks
    BY <1>1, HereFacts
  <2>2. texts' = texts /\ text' = t /\ texts[1] = t
    BY <1>1, TextFacts DEF text
  <2>3. "end" \notin Blanks
    BY DEF Blanks
  <2>4. h + 1 \in Nat /\ 1 <= h + 1 /\ h + 1 <= Len(t) + 1
    BY <2>1
  <2>5. /\ n \in Nat /\ h + 1 <= n /\ n <= Len(t) + 1
        /\ \A k \in Nat : h + 1 <= k /\ k < n => t[k] \in Blanks
    BY <2>1, <2>3, <2>4, SkipFacts DEF named
  <2>6. At(n) \in Names /\ n <= Len(t) /\ At(n) = t[n]
    <3>1. At(n) \in Names
      BY <1>3 DEF HasName
    <3>2. At(n) # "end"
      BY <3>1, PiecesAssumption DEF Words
    <3> QED BY <2>1, <2>4, <2>5, <3>1, <3>2, AtFacts
  <2>7. n + 1 \in Nat /\ 1 <= n + 1 /\ n + 1 <= Len(t) + 1
    BY <2>1, <2>5, <2>6
  <2>8. /\ l \in Nat /\ n + 1 <= l /\ l <= Len(t) + 1
        /\ \A k \in Nat : n + 1 <= k /\ k < l => t[k] \in Blanks
    BY <2>1, <2>3, <2>7, SkipFacts
  <2> HIDE DEF l
  <2>9. At(l) \in Literals /\ l <= Len(t) /\ At(l) = t[l]
    <3>1. At(l) # "end"
      BY <1>3, PiecesAssumption DEF Words
    <3>2. 1 <= l
      BY <2>7, <2>8
    <3> QED BY <1>3, <2>1, <2>8, <3>1, <3>2, AtFacts
  <2>10. l + 1 \in Nat /\ 1 <= l + 1 /\ l + 1 <= Len(t) + 1
    BY <2>1, <2>8, <2>9
  <2>11. /\ d \in Nat /\ l + 1 <= d /\ d <= Len(t) + 1
         /\ \A k \in Nat : l + 1 <= k /\ k < d => t[k] \in Blanks
    BY <2>1, <2>3, <2>10, SkipFacts
  <2> HIDE DEF d
  <2>12. d <= Len(t) /\ t[d] = ">"
    <3>1. 1 <= d /\ At(d) # "end"
      BY <1>3, <2>10, <2>11
    <3> QED BY <1>3, <2>1, <2>11, <3>1, AtFacts
  <2> HIDE DEF t, c, h, n
  <2>13. /\ \A w \in Names \cup Literals : w \notin Blanks \cup Keywords \cup {"]"}
         /\ \A w \in Blanks \cup {">"} : w \notin Keywords \cup {"]"}
    BY PiecesAssumption DEF Words, Marks, Blanks, Keywords
  <2>14. Following(t, Blanks, h) = n
    <3>1. t[n] \notin Blanks
      BY <2>6, <2>13
    <3>2. h <= Len(t) /\ n \in Nat /\ h < n /\ n <= Len(t)
      BY <2>1, <2>5, <2>6
    <3>3. \A k \in Nat : h < k /\ k < n => t[k] \in Blanks
      BY <2>1, <2>5
    <3> QED BY <2>1, <3>1, <3>2, <3>3, FollowingIs
  <2>15. Span(t, c, h, d + 1)
    <3>1. ASSUME NEW k \in Nat, c <= k, k < d + 1, k # h
          PROVE  t[k] \notin Keywords \cup {"]"}
      <4>1. \/ c <= k /\ k < h
            \/ h + 1 <= k /\ k < n
            \/ k = n
            \/ n + 1 <= k /\ k < l
            \/ k = l
            \/ l + 1 <= k /\ k < d
            \/ k = d
        BY <2>1, <2>5, <2>8, <2>11, <3>1
      <4>2. t[k] \in Blanks \cup {">"} \/ t[k] \in Names \cup Literals
        BY <2>1, <2>5, <2>6, <2>8, <2>9, <2>11, <2>12, <4>1
      <4> QED BY <2>13, <4>2
    <3>2. h < d + 1 /\ d + 1 \in Nat /\ d + 1 <= Len(t) + 1
      BY <2>1, <2>5, <2>8, <2>11, <2>12
    <3> QED BY <2>1, <3>1, <3>2 DEF Span
  <2>16. Inside(t, c)
    BY <1>1 DEF Reading, t, c
  <2>17. /\ Inside(t, d + 1)
         /\ InSubsetBefore(t, "<!ELEMENT", d + 1) = InSubsetBefore(t, "<!ELEMENT", c)
         /\ InSubsetBefore(t, "<!ENTITY", d + 1) = InSubsetBefore(t, "<!ENTITY", c) \cup {h}
    <3>1. /\ t[h] # "]" => Inside(t, d + 1)
          /\ \A word \in Keywords :
                InSubsetBefore(t, word, d + 1) =
                   InSubsetBefore(t, word, c) \cup IF t[h] = word THEN {h} ELSE {}
      BY <2>1, <2>15, <2>16, SubsetSpan
    <3>2. t[h] # "<!ELEMENT" /\ t[h] = "<!ENTITY" /\ t[h] # "]"
      BY <2>1
    <3>3. "<!ELEMENT" \in Keywords /\ "<!ENTITY" \in Keywords
      BY DEF Keywords
    <3> QED BY <3>1, <3>2, <3>3
  <2>18. DeclaredEntities(t, InSubsetBefore(t, "<!ENTITY", d + 1)) =
            DeclaredEntities(t, InSubsetBefore(t, "<!ENTITY", c)) \cup {t[n]}
    <3> DEFINE P == InSubsetBefore(t, "<!ENTITY", c)
    <3>1. InSubsetBefore(t, "<!ENTITY", d + 1) = P \cup {h}
      BY <2>17
    <3> HIDE DEF P
    <3>2. DeclaredEntities(t, P \cup {h}) = DeclaredEntities(t, P) \cup {t[Following(t, Blanks, h)]}
      BY OneDeclared
    <3>3. DeclaredEntities(t, P \cup {h}) = DeclaredEntities(t, P) \cup {t[n]}
      BY <2>14, <3>2
    <3> QED BY <3>1, <3>3 DEF P
  <2>19. /\ Pairs = Declared(t, InSubsetBefore(t, "<!ELEMENT", c))
         /\ entities = DeclaredEntities(t, InSubsetBefore(t, "<!ENTITY", c))
    BY <1>1 DEF Reading, t, c
  <2>20. entities' = entities \cup {t[n]}
    BY <1>3, <2>6 DEF n
  <2>21. /\ Pairs' = Declared(t, InSubsetBefore(t, "<!ELEMENT", d + 1))
         /\ entities' = DeclaredEntities(t, InSubsetBefore(t, "<!ENTITY", d + 1))
    BY <1>1, <2>17, <2>18, <2>19, <2>20 DEF Pairs
  <2>22. d + 1 \in 1..(Len(t) + 1) /\ cursor' = d + 1
    BY <1>3, <2>1, <2>11, <2>12
  <2> QED BY <1>1, <1>3, <2>2, <2>17, <2>21, <2>22 DEF Reading, DeclaresWhatIsWritten
<1> QED BY <1>2, <1>3 DEF parse_entity_declaration, fail, Past

\* Comments and the end of the internal subset.
LEMMA SubsetReading ==
    ASSUME SubsetState, Reading, parse_internal_subset
    PROVE  Reading' /\ DeclaresWhatIsWritten'
<1>1. pc = "internal" /\ Running /\ UNCHANGED <<texts, elements, entities>>
  BY DEF parse_internal_subset, Running, dtd
<1>2. CASE pc' = "failed"
  BY <1>2, FailedReading
<1>3. CASE At(here) \in {"comment", "]"} /\ cursor' = here + 1
           /\ pc' = IF At(here) = "]" THEN "close" ELSE "internal"
  <2> DEFINE t == text
             c == cursor
             h == here
  <2>1. /\ t \in Seq(Pieces) /\ Len(t) \in Nat
        /\ c \in Nat /\ 1 <= c /\ c <= h /\ h \in Nat /\ h <= Len(t)
        /\ t[h] \in {"comment", "]"} /\ t[h] = At(here)
        /\ \A k \in Nat : c <= k /\ k < h => t[k] \in Blanks
    BY <1>1, <1>3, HereFacts
  <2>2. texts' = texts /\ text' = t /\ texts[1] = t
    BY <1>1, TextFacts DEF text
  <2>3. /\ Inside(t, c)
        /\ Pairs = Declared(t, InSubsetBefore(t, "<!ELEMENT", c))
        /\ entities = DeclaredEntities(t, InSubsetBefore(t, "<!ENTITY", c))
    BY <1>1 DEF Reading
  <2>4. Pairs' = Pairs /\ entities' = entities
    BY <1>1 DEF Pairs
  <2> HIDE DEF t, c, h
  <2>5. Span(t, c, h, h + 1)
    <3>1. \A w \in Blanks : w \notin Keywords \cup {"]"}
      BY DEF Blanks, Keywords
    <3>2. \A k \in Nat : c <= k /\ k < h + 1 /\ k # h => c <= k /\ k < h
      BY <2>1
    <3>3. h < h + 1 /\ h + 1 \in Nat /\ h + 1 <= Len(t) + 1
      BY <2>1
    <3> QED BY <2>1, <3>1, <3>2, <3>3 DEF Span
  <2>6. \A word \in Keywords : t[h] # word
    BY <2>1 DEF Keywords
  <2>7. /\ t[h] # "]" => Inside(t, h + 1)
        /\ \A word \in Keywords : InSubsetBefore(t, word, h + 1) = InSubsetBefore(t, word, c)
    <3>1. /\ t[h] # "]" => Inside(t, h + 1)
          /\ \A word \in Keywords :
                InSubsetBefore(t, word, h + 1) =
                   InSubsetBefore(t, word, c) \cup IF t[h] = word THEN {h} ELSE {}
      BY <2>1, <2>3, <2>5, SubsetSpan
    <3> QED BY <2>6, <3>1
  <2>8. "<!ELEMENT" \in Keywords /\ "<!ENTITY" \in Keywords
    BY DEF Keywords
  <2>9. /\ Pairs' = Declared(t, InSubsetBefore(t, "<!ELEMENT", h + 1))
        /\ entities' = DeclaredEntities(t, InSubsetBefore(t, "<!ENTITY", h + 1))
    BY <2>3, <2>4, <2>7, <2>8
  <2>10. cursor' = h + 1 /\ h + 1 \in 1..(Len(t) + 1)
    BY <1>3, <2>1 DEF h
  <2>11. CASE At(here) = "comment"
    BY <1>3, <2>1, <2>2, <2>7, <2>9, <2>10, <2>11 DEF Reading, DeclaresWhatIsWritten
  <2>12. CASE At(here) = "]"
    <3>1. ASSUME NEW word \in Keywords PROVE InSubset(t, word) = InSubsetBefore(t, word, h + 1)
      <4>1. ASSUME NEW i \in 1..Len(t), Inside(t, i) PROVE i < h + 1
        <5>1. SUFFICES ASSUME h + 1 <= i PROVE FALSE
          BY <2>1
        <5>2. h \in 1..(i - 1)
          BY <2>1, <5>1
        <5> QED BY <2>1, <2>12, <4>1, <5>2 DEF Inside
      <4>2. DOMAIN t = 1..Len(t)
        BY <2>1, LenProperties
      <4> QED BY <4>1, <4>2 DEF InSubset, InSubsetBefore
    <3>2. Pairs' = InternalElements' /\ entities' = InternalEntities'
      BY <2>2, <2>8, <2>9, <3>1 DEF InternalElements, InternalEntities
    <3> QED BY <1>3, <2>2, <2>10, <2>12, <3>2 DEF Reading, DeclaresWhatIsWritten
  <2> QED BY <1>3, <2>11, <2>12
<1>4. pc' = "failed" \/ (At(here) \in {"comment", "]"} /\ cursor' = here + 1
                          /\ pc' = IF At(here) = "]" THEN "close" ELSE "internal")
  BY <1>1 DEF parse_internal_subset, fail
<1> QED BY <1>2, <1>3, <1>4

\* The end of the document type declaration.
LEMMA CloseReading ==
    ASSUME SubsetState, Reading, close_doctype
    PROVE  Reading' /\ DeclaresWhatIsWritten'
<1>1. pc = "close" /\ UNCHANGED <<texts, elements, entities>>
  BY DEF close_doctype, dtd
<1>2. CASE pc' = "failed"
  BY <1>2, FailedReading
<1>3. CASE pc' = "resolve" /\ cursor' = cursor
  <2>1. Pairs' = InternalElements' /\ entities' = InternalEntities'
    BY <1>1 DEF Reading, Pairs, InternalElements, InternalEntities
  <2>2. cursor' \in 1..(Len(text') + 1)
    BY <1>1, <1>3 DEF Reading, text
  <2> QED BY <1>3, <2>1, <2>2 DEF Reading, DeclaresWhatIsWritten
<1> QED BY <1>2, <1>3 DEF close_doctype, fail

\* Without the external subset the declarations are those of the internal one;
\* with it, they are so when it begins.
LEMMA ResolveReading ==
    ASSUME SubsetState, Reading, resolve_external_subset_if_needed
    PROVE  Reading' /\ DeclaresWhatIsWritten'
<1>1. pc = "resolve" /\ UNCHANGED <<elements, entities>> /\ Pairs' = Pairs
  BY DEF resolve_external_subset_if_needed, dtd, Pairs
<1>2. Len(texts) = 1 /\ text = texts[1]
  BY <1>1, TextFacts
<1>3. Pairs = InternalElements /\ entities = InternalEntities
  BY <1>1 DEF Reading
<1>4. CASE pc' = "failed"
  BY <1>4, FailedReading
<1>5. CASE pc' = "done" /\ UNCHANGED <<texts, cursor>>
  <2>1. Reading'
    BY <1>1, <1>2, <1>5 DEF Reading, text
  <2>2. Written' = InternalElements /\ InternalEntities' = InternalEntities
    BY <1>2, <1>5 DEF Written, InternalElements, InternalEntities
  <2> QED BY <1>1, <1>3, <2>1, <2>2 DEF DeclaresWhatIsWritten, Pairs, InternalEntities
<1>6. CASE /\ pc' = "external" /\ cursor' = 1
           /\ \E subset \in ExternalTexts : texts' = Append(texts, subset)
  <2>1. PICK subset \in ExternalTexts : texts' = Append(texts, subset)
    BY <1>6
  <2>2. subset \in Texts /\ subset \in Seq(Pieces)
    BY <2>1, PiecesAssumption DEF Texts, Pieces
  <2>3. Len(texts') = 2 /\ texts'[1] = texts[1] /\ texts'[2] = subset
    <3>1. texts \in Seq(Texts)
      BY DEF SubsetState
    <3>2. /\ Len(Append(texts, subset)) = Len(texts) + 1
          /\ Append(texts, subset)[Len(texts) + 1] = subset
          /\ \A i \in 1..Len(texts) : Append(texts, subset)[i] = texts[i]
      BY <2>2, <3>1, PushFacts
    <3> QED BY <1>2, <2>1, <3>2
  <2>4. text' = subset
    BY <2>3 DEF text, Last
  <2>5. InternalElements' = InternalElements /\ InternalEntities' = InternalEntities
    BY <2>3 DEF InternalElements, InternalEntities
  <2>6. InTextBefore(subset, "<!ELEMENT", 1) = {}
    <3>1. DOMAIN subset = 1..Len(subset) /\ Len(subset) \in Nat
      BY <2>2, LenProperties
    <3> QED BY <3>1 DEF InTextBefore, InText
  <2>7. Declared(subset, InTextBefore(subset, "<!ELEMENT", 1)) = {}
    BY <2>6 DEF Declared
  <2>8. 1 \in 1..(Len(subset) + 1)
    BY <2>2, LenProperties
  <2> QED BY <1>1, <1>3, <1>6, <2>4, <2>5, <2>7, <2>8 DEF Reading, DeclaresWhatIsWritten
<1> QED BY <1>4, <1>5, <1>6 DEF resolve_external_subset_if_needed, fail

\* The least of a number and one that is not less.
LEMMA LeastOfTwo ==
    ASSUME NEW a, a \in Nat, NEW b, b \in Nat, a <= b
    PROVE  Min({a, b}) = a
<1> DEFINE S == {a, b}
<1>1. S \subseteq Nat /\ S # {}
  OBVIOUS
<1>2. Min(S) \in S /\ \A y \in S : Min(S) <= y
  BY <1>1, MinFacts
<1> DEFINE m == Min(S)
<1>3. (m = a \/ m = b) /\ m <= a
  BY <1>2
<1> HIDE DEF m, S
<1>4. m = a
  BY <1>3
<1> QED BY <1>4 DEF m, S

\* The end of a name at n, with a space after it.
LEMMA NameEndFacts ==
    ASSUME text \in Seq(Pieces), NEW n, n \in Nat, 1 <= n, n < Len(text),
           text[n] \in Names, text[n + 1] = "space",
           NEW close, close \in Nat, n < close
    PROVE  NameEnd(n, close) = n
<1>1. Len(text) \in Nat
  BY LenProperties
<1> DEFINE f == Find("space", n)
<1>2. text[n] # "space"
  BY PiecesAssumption DEF Words, Blanks
<1>3. n <= Len(text) + 1
  BY <1>1
<1>4. /\ f \in Nat /\ n <= f /\ f <= Len(text) + 1
      /\ f <= Len(text) => text[f] = "space"
      /\ \A j \in Nat : n <= j /\ j < f => text[j] # "space"
  BY <1>3, FindFacts
<1> HIDE DEF f
<1>5. f = n + 1
  <2>1. f # n
    BY <1>1, <1>2, <1>4
  <2>2. n + 1 \in Nat /\ n <= n + 1
    OBVIOUS
  <2>3. ~(n + 1 < f)
    BY <1>4, <2>2
  <2> QED BY <1>4, <2>1, <2>2, <2>3
<1>6. NameEnd(n, close) = Min({f, close + 1}) - 1
  BY DEF NameEnd, f
<1>7. n + 1 \in Nat /\ close + 1 \in Nat /\ n + 1 <= close + 1
  OBVIOUS
<1>8. Min({n + 1, close + 1}) = n + 1
  BY <1>7, LeastOfTwo
<1> QED BY <1>5, <1>6, <1>8

\* One piece of a text.
LEMMA OnePiece ==
    ASSUME NEW t \in Seq(Pieces), NEW n, n \in Nat, 1 <= n, n <= Len(t)
    PROVE  SubSeq(t, n, n) = <<t[n]>>
<1>1. \A k \in n..n : t[k] \in Pieces
  BY ElementOfSeq, LenProperties
<1> DEFINE s == SubSeq(t, n, n)
<1>2. /\ s \in Seq(Pieces)
      /\ Len(s) = IF n <= n THEN n - n + 1 ELSE 0
      /\ \A k \in 1..(n - n + 1) : s[k] = t[n + k - 1]
  BY <1>1, SubSeqProperties
<1> HIDE DEF s
<1>3. n - n + 1 = 1 /\ n + 1 - 1 = n
  OBVIOUS
<1>4. Len(s) = 1 /\ s[1] = t[n]
  BY <1>2, <1>3
<1>5. DOMAIN s = 1..1 /\ s = [k \in DOMAIN s |-> s[k]]
  BY <1>2, <1>4, LenProperties
<1>6. s = <<t[n]>>
  BY <1>4, <1>5
<1> QED BY <1>6 DEF s

\* The declaration of an element in the external subset.
LEMMA ExternalElementReading ==
    ASSUME SubsetState, Reading, parse_external_element_declaration
    PROVE  Reading' /\ DeclaresWhatIsWritten'
<1> DEFINE d == Find(">", here)
           n == Skip({"space"}, here + 1)
           last == NameEnd(n, d)
           b == Skip({"space"}, last + 1)
<1>1. /\ pc = "external" /\ Running /\ UNCHANGED <<texts, entities>>
      /\ At(here) = "<!ELEMENT" /\ At(d) = ">"
  BY DEF parse_external_element_declaration, Running
<1>2. CASE pc' = "failed"
  BY <1>2, FailedReading
<1>3. CASE /\ declare(SubSeq(text, n, last), SubSeq(text, b, d - 1), Past(d))
           /\ pc' # "failed"
  <2> DEFINE t == text
             c == cursor
             h == here
  <2>1. /\ t \in Seq(Pieces) /\ Len(t) \in Nat
        /\ c \in Nat /\ 1 <= c /\ c <= h /\ h \in Nat /\ h <= Len(t) /\ t[h] = "<!ELEMENT"
        /\ \A k \in Nat : c <= k /\ k < h => t[k] \in Blanks
    BY <1>1, HereFacts
  <2>2. texts' = texts /\ text' = t /\ InternalElements' = InternalElements
        /\ InternalEntities' = InternalEntities
    BY <1>1, TextFacts DEF text, InternalElements, InternalEntities
  <2>3. /\ d \in Nat /\ h <= d /\ d <= Len(t) + 1
        /\ d <= Len(t) => t[d] = ">"
        /\ \A k \in Nat : h <= k /\ k < d => t[k] # ">"
    BY <2>1, FindFacts
  <2>4. d <= Len(t) /\ t[d] = ">" /\ h < d
    <3>1. 1 <= d
      BY <2>1, <2>3
    <3>2. d <= Len(t)
      BY <1>1, <2>1, <2>3, <3>1, AtFacts
    <3> QED BY <2>1, <2>3, <3>2
  <2>5. pc' = "external" /\ cursor' = d + 1
    BY <1>1, <1>3 DEF declare, fail, Past
  <2>6. d + 1 \in 1..(Len(t) + 1)
    BY <2>1, <2>3, <2>4
  <2>7. ASSUME NamesEndAtSpaces(t)
        PROVE  /\ Pairs' = InternalElements \cup Declared(t, InTextBefore(t, "<!ELEMENT", d + 1))
               /\ entities' = InternalEntities
    <3>1. /\ Pairs = InternalElements \cup Declared(t, InTextBefore(t, "<!ELEMENT", c))
          /\ entities = InternalEntities
      BY <1>1, <2>7 DEF Reading
    <3>2. h \in InText(t, "<!ELEMENT")
      BY <2>1, LenProperties DEF InText
    <3>3. n = Following(t, {"space"}, h)
      <4>1. h + 1 \in Nat /\ 1 <= h + 1 /\ h + 1 <= Len(t) + 1 /\ (h + 1) - 1 = h
        BY <2>1
      <4>2. "end" \notin {"space"}
        OBVIOUS
      <4>3. Skip({"space"}, h + 1) = Following(t, {"space"}, (h + 1) - 1)
        BY <2>1, <4>1, <4>2, SkipFacts
      <4> QED BY <4>1, <4>3
    <3>4. n < Len(t) /\ t[n] \in Names /\ t[n + 1] = "space"
      BY <2>7, <3>2, <3>3 DEF NamesEndAtSpaces
    <3>5. /\ n \in Nat /\ h < n
          /\ \A k \in Nat : h < k /\ k < n => t[k] \in {"space"}
      BY <2>1, <3>3, FollowingFacts
    <3> HIDE DEF n
    <3>6. n < d
      <4>1. d # n
        BY <2>4, <3>4, PiecesAssumption DEF Words, Marks
      <4>2. ~(d < n)
        BY <2>3, <2>4, <3>5
      <4> QED BY <2>3, <3>5, <4>1, <4>2
    <3>7. last = n
      BY <2>1, <2>3, <3>4, <3>5, <3>6, NameEndFacts
    <3>8. b = Skip({"space"}, n + 1)
      BY <3>7
    <3>9. n + 1 \in Nat /\ 1 <= n + 1 /\ n + 1 <= Len(t) + 1 /\ "end" \notin {"space"}
      BY <2>1, <3>4, <3>5
    <3>10. /\ b \in Nat /\ n + 1 <= b
           /\ \A k \in Nat : n + 1 <= k /\ k < b => t[k] \in {"space"}
      BY <2>1, <3>8, <3>9, SkipFacts
    <3>11. SubSeq(t, n, last) = <<t[n]>>
      <4>1. 1 <= n /\ n <= Len(t)
        BY <2>1, <3>4, <3>5
      <4> QED BY <2>1, <3>5, <3>7, <4>1, OnePiece
    <3> HIDE DEF t, c, h, d, last, b
    <3>12. PICK model \in Models :
              /\ IsModel(SubSeq(t, b, d - 1), model)
              /\ <<t[n]>> \notin DOMAIN elements
              /\ elements' = [x \in DOMAIN elements \cup {<<t[n]>>} |->
                                 IF x = <<t[n]>> THEN model ELSE elements[x]]
      <4>1. declare(<<t[n]>>, SubSeq(t, b, d - 1), d + 1)
        BY <1>3, <3>11 DEF t, d, Past
      <4> QED BY <1>3, <4>1 DEF declare, fail, IsDuplicate
    <3>13. ElementAt(t, c, h, n, b, d, model)
      <4>1. BlanksFrom(t, c, h) /\ BlanksAfter(t, h, n) /\ BlanksAfter(t, n, b)
        <5>1. "space" \in Blanks
          BY DEF Blanks
        <5> QED BY <2>1, <3>5, <3>10, <5>1 DEF BlanksFrom, BlanksAfter
      <4>2. n < b
        BY <3>5, <3>10
      <4> QED BY <2>1, <2>3, <2>4, <3>4, <3>5, <3>6, <3>10, <3>12, <4>1, <4>2 DEF ElementAt
    <3>14. /\ Span(t, c, h, d + 1)
           /\ Following(t, Blanks, h) = n
           /\ t[Following(t, Blanks, n)] = model
      BY <2>1, <3>13, ElementSpan
    <3> DEFINE P == InTextBefore(t, "<!ELEMENT", c)
    <3>15. InTextBefore(t, "<!ELEMENT", d + 1) = P \cup {h}
      <4>1. "<!ELEMENT" \in Keywords
        BY DEF Keywords
      <4> QED BY <2>1, <3>14, <4>1, TextSpan
    <3>16. Pairs = InternalElements \cup Declared(t, P)
      BY <3>1
    <3> HIDE DEF P
    <3>17. Declared(t, P \cup {h}) = Declared(t, P) \cup {<<<<t[n]>>, model>>}
      BY <3>14, OneDeclared
    <3>18. Pairs' = Pairs \cup {<<<<t[n]>>, model>>}
      BY <3>12, PairsMore
    <3> QED BY <1>1, <3>1, <3>15, <3>16, <3>17, <3>18
  <2> HIDE DEF t, d
  <2> QED BY <2>2, <2>5, <2>6, <2>7 DEF Reading, DeclaresWhatIsWritten
<1> QED BY <1>2, <1>3 DEF parse_external_element_declaration, declare, fail

\* At the end of the external subset everything has been declared.
LEMMA ExternalTextReading ==
    ASSUME SubsetState, Reading, parse_external_subset_text
    PROVE  Reading' /\ DeclaresWhatIsWritten'
<1>1. pc = "external" /\ Running /\ UNCHANGED <<texts, elements, entities>> /\ Pairs' = Pairs
  BY DEF parse_external_subset_text, Running, dtd, Pairs
<1>2. CASE pc' = "failed"
  BY <1>2, FailedReading
<1>3. CASE At(here) = "end" /\ pc' = "done" /\ cursor' = cursor
  <2> DEFINE t == text
  <2>1. /\ t \in Seq(Pieces) /\ Len(t) \in Nat /\ cursor \in Nat
        /\ here = Len(t) + 1
        /\ \A k \in Nat : cursor <= k /\ k < here => t[k] \in Blanks
    BY <1>1, <1>3, HereFacts
  <2>2. Len(texts) = 2 /\ t = texts[2]
    BY <1>1, TextFacts
  <2>3. text' = t
    BY <1>1 DEF text
  <2>4. Reading'
    BY <1>1, <1>3, <2>3 DEF Reading
  <2> HIDE DEF t
  <2>5. InTextBefore(t, "<!ELEMENT", cursor) = InText(t, "<!ELEMENT")
    <3>1. DOMAIN t = 1..Len(t)
      BY <2>1, LenProperties
    <3>2. "<!ELEMENT" \notin Blanks
      BY DEF Blanks
    <3>3. \A k \in 1..Len(t) : t[k] = "<!ELEMENT" => k < cursor
      BY <2>1, <3>2
    <3> QED BY <3>1, <3>3 DEF InTextBefore, InText
  <2>6. NamesEndAtSpaces(t) =>
            Pairs = InternalElements \cup Declared(t, InText(t, "<!ELEMENT"))
            /\ entities = InternalEntities
    BY <1>1, <2>5 DEF Reading, t
  <2>7. Written' = InternalElements \cup Declared(t, InText(t, "<!ELEMENT"))
    BY <1>1, <2>2 DEF Written, InternalElements
  <2>8. InternalEntities' = InternalEntities /\ texts' = texts
    BY <1>1 DEF InternalEntities
  <2> QED BY <1>1, <2>2, <2>4, <2>6, <2>7, <2>8 DEF DeclaresWhatIsWritten, Pairs, InternalEntities
<1> QED BY <1>2, <1>3 DEF parse_external_subset_text, fail

\* Nothing has been read at first.
LEMMA InitReading == Init => Reading /\ DeclaresWhatIsWritten
<1> SUFFICES ASSUME Init PROVE Reading /\ DeclaresWhatIsWritten
  OBVIOUS
<1>1. pc = "doctype" /\ cursor = 1 /\ entities = {}
  BY DEF Init
<1>2. DOMAIN elements = {}
  BY EmptyFacts, EmptySeq, LenProperties DEF Init
<1>3. 1 \in 1..(Len(text) + 1)
  <2>1. SubsetState
    BY InitSubsetInv DEF SubsetInv
  <2>2. text \in Seq(Pieces)
    BY <1>1, <2>1, TextFacts DEF Running
  <2> QED BY <2>2, LenProperties
<1> QED BY <1>1, <1>2, <1>3 DEF Reading, DeclaresWhatIsWritten

\* Every step keeps what is written and what is kept together.
LEMMA NextReading ==
    SubsetInv /\ Reading /\ DeclaresWhatIsWritten /\ [Next]_vars
        => Reading' /\ DeclaresWhatIsWritten'
<1> SUFFICES ASSUME SubsetState, Reading, DeclaresWhatIsWritten, [Next]_vars
             PROVE  Reading' /\ DeclaresWhatIsWritten'
  BY DEF SubsetInv
<1>1. CASE UNCHANGED vars
  <2>1. pc' = pc /\ cursor' = cursor /\ texts' = texts /\ elements' = elements /\ entities' = entities
    BY <1>1 DEF vars, dtd
  <2>2. text' = text /\ Pairs' = Pairs
    BY <2>1 DEF text, Pairs
  <2>3. InternalElements' = InternalElements /\ InternalEntities' = InternalEntities
        /\ Written' = Written
    BY <2>1 DEF InternalElements, InternalEntities, Written
  <2>4. Reading'
    BY <2>1, <2>2, <2>3 DEF Reading
  <2>5. DeclaresWhatIsWritten'
    BY <2>1, <2>3 DEF DeclaresWhatIsWritten
  <2> QED BY <2>4, <2>5
<1>2. CASE Next
  BY <1>2, DoctypeReading, ElementReading, EntityReading, SubsetReading, CloseReading,
     ResolveReading, ExternalElementReading, ExternalTextReading DEF Next
<1> QED BY <1>1, <1>2

\* After the subsets, the tables hold what is written in them, first come,
\* first kept, in whatever form the texts are, as far as the names of the
\* external subset end at spaces.
THEOREM AlwaysDeclaresWhatIsWritten == Spec => []DeclaresWhatIsWritten
<1>1. Init => WrittenInv
  BY InitSubsetInv, InitReading DEF WrittenInv
<1>2. WrittenInv /\ [Next]_vars => WrittenInv'
  BY NextSubsetInv, NextReading DEF WrittenInv
<1>3. WrittenInv => DeclaresWhatIsWritten
  BY DEF WrittenInv
<1> QED BY <1>1, <1>2, <1>3, PTL DEF Spec
=============================================================================
