----------------------------- MODULE DtdSubset -----------------------------
(***************************************************************************)
(* The document type declaration of parser_core.cpp: the internal subset,  *)
(* read from the document, then the external one, read by other code from  *)
(* what the caller's resolver returns, into one DtdState.                  *)
(*                                                                         *)
(* Text is a sequence of pieces: blanks, marks (keywords and the like),    *)
(* names, content models, quoted literals, and anything else.              *)
(* The internal text goes on to the end of the document type declaration.  *)
(***************************************************************************)
EXTENDS Integers, SequencesExt

CONSTANTS
    Names, Models,         \* pieces; a model is one of parse_element_model's
    Literals, Oversized,   \* the oversized exceed max_entity_replacement_bytes
    Others,                \* pieces that neither subset takes
    InternalTexts,         \* what may follow the name and external identifier
    ExternalTexts,         \* what a resolver may return
    max_dtd_declarations,
    max_external_subset    \* of the external subset, in pieces

Blanks == {"space", "tab"}
Marks == {"<!ELEMENT", "<!ENTITY", "comment", "[", "]", ">", "%"}
Words == Names \cup Models \cup Literals \cup Others

ASSUME LimitsAssumption ==
    /\ max_dtd_declarations \in Nat /\ max_external_subset \in Nat
    /\ Oversized \subseteq Literals

\* What peek returns past the end is no piece.
ASSUME PiecesAssumption ==
    /\ InternalTexts \cup ExternalTexts \subseteq Seq(Blanks \cup Marks \cup Words)
    /\ Words \cap (Blanks \cup Marks \cup {"end"}) = {}

VARIABLES
    pc,                  \* "doctype", "internal", "close", "resolve",
                         \* "external", "done" or "failed"
    options,             \* [validation, allow_external_dtd, resolver]
    has_external_subset,
    texts,               \* read so far: the internal subset's, the external's
    cursor,              \* in the last of them
    elements, entities,  \* of DtdState
    declaration_count,
    error                \* kind of the exception thrown

settings == <<options, has_external_subset>>
dtd == <<elements, entities, declaration_count>>
vars == <<pc, settings, texts, cursor, dtd, error>>

Init ==
    /\ pc = "doctype"
    /\ options \in [validation : {"None", "Dtd"}, allow_external_dtd : BOOLEAN,
                    resolver : BOOLEAN]
    /\ has_external_subset \in BOOLEAN
    /\ texts \in {<<t>> : t \in InternalTexts}
    /\ cursor = 1
    /\ elements = <<>> /\ entities = {}
    /\ declaration_count = 0
    /\ error = "none"

fail(kind) == pc' = "failed" /\ error' = kind /\ UNCHANGED cursor

text == Last(texts)

At(i) == IF i <= Len(text) THEN text[i] ELSE "end"

\* Positions from i on: the first past pieces in P, and the first at p.
Skip(P, i) == Min({j \in i..(Len(text) + 1) : At(j) \notin P})
Find(p, i) == Min({j \in i..(Len(text) + 1) : At(j) \in {p, "end"}})

here == Skip(Blanks, cursor)

\* The keyword, the name and any external identifier.
parse_doctype ==
    /\ pc = "doctype"
    /\ \/ \E kind \in {"WellFormedness", "ResourceLimit"} : fail(kind)
       \/ /\ pc' = IF At(here) = "[" THEN "internal" ELSE "close"
          /\ cursor' = IF At(here) = "[" THEN here + 1 ELSE here
          /\ UNCHANGED error
    /\ UNCHANGED <<settings, texts, dtd>>

-----------------------------------------------------------------------------
\* enforce_dtd_declaration_limit counts first.
Count == declaration_count' = declaration_count + 1

\* The mistake of a limit for each subset.
WithinLimit_each ==
    \/ declaration_count < max_dtd_declarations
    \/ pc = "external" /\ declaration_count < 2 * max_dtd_declarations

WithinLimit == declaration_count < max_dtd_declarations

IsDuplicate(name) == name \in DOMAIN elements

\* Where reading goes on after a declaration.
Past(close) == close + 1

\* strip_ascii_space leaves one piece, where i is the place of it.
stripped(pieces, i) == \A j \in DOMAIN pieces \ {i} : pieces[j] \in Blanks

\* parse_element_model.
IsModel(pieces, model) == \E i \in DOMAIN pieces : pieces[i] = model /\ stripped(pieces, i)

declare(name, pieces, after) ==
    \/ IsDuplicate(name) /\ fail("Validity") /\ UNCHANGED elements
    \/ /\ ~IsDuplicate(name) /\ \A model \in Models : ~IsModel(pieces, model)
       /\ fail("Validity") /\ UNCHANGED elements
    \/ /\ ~IsDuplicate(name)
       /\ \E model \in Models :
             /\ IsModel(pieces, model)
             /\ elements' = [n \in DOMAIN elements \cup {name} |->
                                IF n = name THEN model ELSE elements[n]]
       /\ cursor' = after
       /\ UNCHANGED <<pc, error>>

\* Where the name of a declaration in the internal subset is.
named == Skip(Blanks, here + 1)

HasName == At(here + 1) \in Blanks /\ At(named) \in Names

parse_element_declaration ==
    /\ pc = "internal" /\ At(here) = "<!ELEMENT"
    /\ Count
    /\ LET close == Find(">", named + 1)
       IN  \/ ~WithinLimit /\ fail("ResourceLimit") /\ UNCHANGED elements
           \/ WithinLimit /\ ~HasName /\ fail("WellFormedness") /\ UNCHANGED elements
           \/ /\ WithinLimit /\ HasName /\ At(close) = "end"
              /\ fail("WellFormedness") /\ UNCHANGED elements
           \/ /\ WithinLimit /\ HasName /\ At(close) = ">"
              /\ declare(<<At(named)>>, SubSeq(text, named + 1, close - 1), Past(close))
    /\ UNCHANGED <<settings, texts, entities>>

parse_entity_declaration ==
    /\ pc = "internal" /\ At(here) = "<!ENTITY"
    /\ Count
    /\ LET literal == Skip(Blanks, named + 1)
           close == Skip(Blanks, literal + 1)
       IN  \/ ~WithinLimit /\ fail("ResourceLimit") /\ UNCHANGED entities
           \/ /\ WithinLimit /\ ~(HasName /\ At(literal) \in Literals)
              /\ fail("WellFormedness") /\ UNCHANGED entities
           \/ /\ WithinLimit /\ HasName /\ At(literal) \in Oversized
              /\ fail("ResourceLimit") /\ UNCHANGED entities
           \/ /\ WithinLimit /\ HasName /\ At(literal) \in Literals \ Oversized
              /\ \/ At(close) # ">" /\ fail("WellFormedness") /\ UNCHANGED entities
                 \/ /\ At(close) = ">" /\ At(named) \in entities
                    /\ fail("Validity") /\ UNCHANGED entities
                 \/ /\ At(close) = ">" /\ At(named) \notin entities
                    /\ entities' = entities \cup {At(named)}
                    /\ cursor' = Past(close)
                    /\ UNCHANGED <<pc, error>>
    /\ UNCHANGED <<settings, texts, elements>>

\* A comment, the end of the subset, or what is not supported in it, the end
\* of the document included.
parse_internal_subset ==
    /\ pc = "internal"
    /\ At(here) \notin {"<!ELEMENT", "<!ENTITY"}
    /\ \/ At(here) = "comment" /\ cursor' = here + 1 /\ UNCHANGED <<pc, error>>
       \/ At(here) = "]" /\ pc' = "close" /\ cursor' = here + 1 /\ UNCHANGED error
       \/ At(here) \notin {"comment", "]"} /\ fail("WellFormedness")
    /\ UNCHANGED <<settings, texts, dtd>>

close_doctype ==
    /\ pc = "close"
    /\ \/ At(here) = ">" /\ pc' = "resolve" /\ UNCHANGED <<cursor, error>>
       \/ At(here) # ">" /\ fail("WellFormedness")
    /\ UNCHANGED <<settings, texts, dtd>>

-----------------------------------------------------------------------------
Needed == has_external_subset /\ options.validation = "Dtd"

\* The mistake of taking a resolver for permission to use it.
Permitted_resolver == options.resolver

Permitted == options.allow_external_dtd /\ options.resolver

\* The resolver may throw as well.
resolve_external_subset_if_needed ==
    /\ pc = "resolve"
    /\ \/ ~Needed /\ pc' = "done" /\ UNCHANGED <<texts, cursor, error>>
       \/ Needed /\ ~Permitted /\ fail("Validity") /\ UNCHANGED texts
       \/ /\ Needed /\ Permitted
          /\ \/ fail("resolver") /\ UNCHANGED texts
             \/ \E subset \in ExternalTexts :
                   /\ texts' = Append(texts, subset)
                   /\ \/ Len(subset) > max_external_subset /\ fail("ResourceLimit")
                      \/ /\ Len(subset) <= max_external_subset
                         /\ cursor' = 1
                         /\ pc' = "external"
                         /\ UNCHANGED error
    /\ UNCHANGED <<settings, dtd>>

\* The mistake of taking the space along.
NameEnd_space(first, close) == Min({Find("space", first), close})

NameEnd(first, close) == Min({Find("space", first), close + 1}) - 1

\* Names end at a space, and at nothing else, in the external subset; the
\* declaration ends at the first ">".
parse_external_element_declaration ==
    /\ pc = "external" /\ At(here) = "<!ELEMENT" /\ At(Find(">", here)) = ">"
    /\ Count
    /\ LET close == Find(">", here)
           first == Skip({"space"}, here + 1)
           last  == NameEnd(first, close)
           model == Skip({"space"}, last + 1)
       IN  \/ ~WithinLimit /\ fail("ResourceLimit") /\ UNCHANGED elements
           \/ /\ WithinLimit
              /\ declare(SubSeq(text, first, last), SubSeq(text, model, close - 1), Past(close))
    /\ UNCHANGED <<settings, texts, entities>>

parse_external_subset_text ==
    /\ pc = "external"
    /\ \/ At(here) = "end" /\ pc' = "done" /\ UNCHANGED <<cursor, error>>
       \/ /\ At(here) # "end"
          /\ At(here) # "<!ELEMENT" \/ At(Find(">", here)) = "end"
          /\ fail("Validity")
    /\ UNCHANGED <<settings, texts, dtd>>

Next ==
    \/ parse_doctype
    \/ parse_element_declaration
    \/ parse_entity_declaration
    \/ parse_internal_subset
    \/ close_doctype
    \/ resolve_external_subset_if_needed
    \/ parse_external_element_declaration
    \/ parse_external_subset_text

Spec == Init /\ [][Next]_vars

-----------------------------------------------------------------------------
(* Properties.                                                              *)

\* Invariant: every declaration of either subset counts against the one limit,
\* so no more than max_dtd_declarations are ever kept
\* (enforce_dtd_declaration_limit).
DeclarationsAreCounted ==
    LET declared == Cardinality(DOMAIN elements) + Cardinality(entities)
    IN  /\ declared <= max_dtd_declarations
        /\ IF pc = "failed" THEN declaration_count - declared \in {0, 1}
           ELSE declaration_count = declared

\* Invariant: a validating parse that goes on has read the external subset;
\* no other ever asks for it, and none that the application has not allowed
\* to (README.md:94-96).
ExternalOnRequest ==
    /\ pc = "done" => (Len(texts) = 2 <=> has_external_subset /\ options.validation = "Dtd")
    /\ Len(texts) = 2 => options.allow_external_dtd /\ options.validation = "Dtd"

\* The first piece after i that is none of P.
Following(t, P, i) == Min({j \in (i + 1)..(Len(t) + 1) : j > Len(t) \/ t[j] \notin P})

\* What the element declarations at these places say: after the keyword the
\* name, then the model, whatever blanks there are.
Declared(t, places) ==
    LET name(i) == Following(t, Blanks, i)
    IN  {<<<<t[name(i)]>>, t[Following(t, Blanks, name(i))]>> : i \in places}

DeclaredEntities(t, places) == {t[Following(t, Blanks, i)] : i \in places}

\* The internal subset begins after the first piece, a "[", and ends at "]".
Inside(t, i) ==
    /\ \E open \in 1..(i - 1) : t[open] = "[" /\ \A j \in 1..(open - 1) : t[j] \in Blanks
    /\ \A j \in 1..(i - 1) : t[j] # "]"

InSubset(t, keyword) == {i \in DOMAIN t : t[i] = keyword /\ Inside(t, i)}
InText(t, keyword) == {i \in DOMAIN t : t[i] = keyword}

\* Only spaces stand before each name, and a space after it.
NamesEndAtSpaces(t) ==
    \A i \in InText(t, "<!ELEMENT") :
        LET name == Following(t, {"space"}, i)
        IN  name < Len(t) /\ t[name] \in Names /\ t[name + 1] = "space"

Written ==
    Declared(texts[1], InSubset(texts[1], "<!ELEMENT"))
        \cup IF Len(texts) = 2 THEN Declared(texts[2], InText(texts[2], "<!ELEMENT")) ELSE {}

\* Invariant: once the subsets are read, the declarations kept are those
\* written, none of them replaced by a later one, provided the names of the
\* external subset end at spaces: there a name runs through any other blank
\* (parse_element_declaration, parse_external_element_declaration).
DeclaresWhatIsWritten ==
    pc = "done" /\ (Len(texts) = 2 => NamesEndAtSpaces(texts[2])) =>
        /\ {<<n, elements[n]>> : n \in DOMAIN elements} = Written
        /\ entities = DeclaredEntities(texts[1], InSubset(texts[1], "<!ENTITY"))
=============================================================================
