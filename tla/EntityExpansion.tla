-------------------------- MODULE EntityExpansion --------------------------
(***************************************************************************)
(* parse_reference and expand_entity_text of parser_core.cpp: references   *)
(* in a document, expanded by a recursive function that is kept from       *)
(* running away by the counter entity_expansions_ alone.                   *)
(*                                                                         *)
(* A replacement text is a sequence of pieces.  A "byte" stands for one    *)
(* ordinary byte, a "character" for a predefined entity or a character     *)
(* reference with the bytes it yields, "invalid" for a character reference *)
(* that is refused (in the document also for one with no semicolon),       *)
(* "entity" for a reference by name, and "truncated" for an ampersand with *)
(* no semicolon after it.  The recursion of expand_entity_text is calls.   *)
(***************************************************************************)
EXTENDS Integers, SequencesExt

CONSTANTS
    EntityNames,
    Bytes,
    EntityTables,                   \* the maps dtd_.entities may be
    max_entity_expansions,
    max_entity_replacement_bytes,
    MaxReferences                   \* bound: references in a document

Pieces == [kind : {"byte", "character", "invalid", "entity", "truncated"},
           name : EntityNames, bytes : Seq(Bytes)]

\* Bytes of the literal a piece takes up at least: "x", "&#9;", "&#;", "&a;"
\* and "&".
LiteralSize(p) == CASE p.kind \in {"byte", "truncated"} -> 1
                    [] p.kind = "character"            -> 4
                    [] p.kind \in {"invalid", "entity"} -> 3

\* parse_entity_declaration refuses a literal over the limit.
ASSUME TablesAssumption ==
    \A table \in EntityTables :
        /\ DOMAIN table \subseteq EntityNames
        /\ \A n \in DOMAIN table :
              /\ table[n] \in Seq(Pieces)
              /\ Len(table[n]) <= max_entity_replacement_bytes
              /\ FoldLeft(LAMBDA size, p : size + LiteralSize(p), 0, table[n])
                    <= max_entity_replacement_bytes
              /\ \A i \in DOMAIN table[n] :
                    table[n][i].kind = "byte" => Len(table[n][i].bytes) = 1

ASSUME LimitsAssumption ==
    /\ max_entity_expansions \in Nat
    /\ max_entity_replacement_bytes \in Nat
    /\ MaxReferences \in Nat

VARIABLES
    pc,                   \* "text", "expanding", "done" or "failed"
    entities,             \* dtd_.entities
    validating,           \* options_.validation = ValidationMode::Dtd
    references,           \* references left in the document
    entity_expansions,    \* entity_expansions_
    calls,                \* expand_entity_text: [text, cursor, expanded]
    reference,            \* the entity referred to from the document
    expansion,            \* what parse_reference returned last
    error                 \* kind of the exception thrown

document == <<entities, validating, references>>
vars == <<pc, document, entity_expansions, calls, reference, expansion, error>>

-----------------------------------------------------------------------------
Call(text) == [text |-> text, cursor |-> 1, expanded |-> <<>>]

Init ==
    /\ pc = "text"
    /\ entities \in EntityTables
    /\ validating \in BOOLEAN
    /\ references \in 0..MaxReferences
    /\ entity_expansions = 0
    /\ calls = <<>>
    /\ reference \in EntityNames
    /\ expansion = <<>>
    /\ error = "none"

fail(kind) == pc' = "failed" /\ error' = kind /\ UNCHANGED <<calls, expansion>>

current == Last(calls)

AtEnd == current.cursor > Len(current.text)

piece == current.text[current.cursor]

\* The mistake of counting references in the document only.
count_outermost ==
    entity_expansions' = IF calls = <<>> THEN entity_expansions + 1 ELSE entity_expansions

\* ++entity_expansions_, for a reference in the document or in a text.
count == entity_expansions' = entity_expansions + 1

WithinExpansions == entity_expansions' <= max_entity_expansions

\* The mistake of losing what the text had before.
extended_overwriting(call, bytes) ==
    [text |-> call.text, cursor |-> call.cursor + 1, expanded |-> bytes]

\* The mistake of stepping past the semicolon twice.
extended_past(call, bytes) ==
    [text |-> call.text, cursor |-> call.cursor + 2, expanded |-> call.expanded \o bytes]

extended(call, bytes) ==
    [text |-> call.text, cursor |-> call.cursor + 1, expanded |-> call.expanded \o bytes]

\* The mistake of not measuring it.
TooLong_never(call) == FALSE

TooLong(call) == Len(call.expanded) > max_entity_replacement_bytes

\* What a reference stands for is appended to the innermost of these calls;
\* then what is expanded so far is measured.
Resume(open, bytes) ==
    LET call == extended(Last(open), bytes)
    IN  IF TooLong(call) THEN fail("ResourceLimit")
        ELSE /\ calls' = [open EXCEPT ![Len(open)] = call]
             /\ UNCHANGED <<pc, expansion, error>>

\* The guard on depth, first thing in expand_entity_text.
Enter(text) ==
    IF Len(calls) > max_entity_expansions THEN fail("ResourceLimit")
    ELSE /\ calls' = Append(calls, Call(text))
         /\ pc' = "expanding"
         /\ UNCHANGED <<expansion, error>>

-----------------------------------------------------------------------------
(* parse_reference.                                                         *)

parse_reference(kind, name) ==
    /\ pc = "text" /\ references > 0
    /\ references' = references - 1
    /\ reference' = name
    /\ count
    /\ \/ ~WithinExpansions /\ fail("ResourceLimit")
       \/ /\ WithinExpansions /\ kind = "character"
          /\ UNCHANGED <<pc, calls, expansion, error>>
       \/ WithinExpansions /\ kind = "invalid" /\ fail("WellFormedness")
       \/ /\ WithinExpansions /\ kind = "entity" /\ name \in DOMAIN entities
          /\ Enter(entities[name])
       \/ /\ WithinExpansions /\ kind = "entity" /\ name \notin DOMAIN entities
          /\ fail(IF validating THEN "Validity" ELSE "WellFormedness")
    /\ UNCHANGED <<entities, validating>>

EndOfText ==
    /\ pc = "text" /\ references = 0
    /\ pc' = "done"
    /\ UNCHANGED <<document, entity_expansions, calls, reference, expansion, error>>

-----------------------------------------------------------------------------
(* expand_entity_text.                                                      *)

copy_byte ==
    /\ pc = "expanding" /\ ~AtEnd /\ piece.kind = "byte"
    /\ calls' = [calls EXCEPT ![Len(calls)] = extended(current, piece.bytes)]
    /\ UNCHANGED <<pc, document, entity_expansions, reference, expansion, error>>

truncated_reference ==
    /\ pc = "expanding" /\ ~AtEnd /\ piece.kind = "truncated"
    /\ fail("Validity")
    /\ UNCHANGED <<document, entity_expansions, reference>>

\* The mistake of taking an undeclared entity for an empty one.
EnterNested_lenient(name) ==
    IF name \in DOMAIN entities THEN Enter(entities[name]) ELSE Resume(calls, <<>>)

EnterNested(name) ==
    IF name \in DOMAIN entities THEN Enter(entities[name]) ELSE fail("Validity")

\* The mistake of going on in the same call with the entity that a text ends
\* in a reference to, which is then neither counted nor bounded in depth.
nested_reference_in_place ==
    /\ pc = "expanding" /\ ~AtEnd /\ piece.kind \in {"character", "invalid", "entity"}
    /\ IF /\ piece.kind = "entity" /\ piece.name \in DOMAIN entities
          /\ current.cursor = Len(current.text) /\ ~TooLong(current)
       THEN /\ calls' = [calls EXCEPT ![Len(calls)] =
                            [@ EXCEPT !.text = entities[piece.name], !.cursor = 1]]
            /\ UNCHANGED <<pc, entity_expansions, expansion, error>>
       ELSE /\ count
            /\ \/ ~WithinExpansions /\ fail("ResourceLimit")
               \/ WithinExpansions /\ piece.kind = "character" /\ Resume(calls, piece.bytes)
               \/ WithinExpansions /\ piece.kind = "invalid" /\ fail("WellFormedness")
               \/ WithinExpansions /\ piece.kind = "entity" /\ EnterNested(piece.name)
    /\ UNCHANGED <<document, reference>>

nested_reference ==
    /\ pc = "expanding" /\ ~AtEnd /\ piece.kind \in {"character", "invalid", "entity"}
    /\ count
    /\ \/ ~WithinExpansions /\ fail("ResourceLimit")
       \/ WithinExpansions /\ piece.kind = "character" /\ Resume(calls, piece.bytes)
       \/ WithinExpansions /\ piece.kind = "invalid" /\ fail("WellFormedness")
       \/ WithinExpansions /\ piece.kind = "entity" /\ EnterNested(piece.name)
    /\ UNCHANGED <<document, reference>>

return_nested ==
    /\ pc = "expanding" /\ AtEnd /\ Len(calls) > 1
    /\ Resume(Front(calls), current.expanded)
    /\ UNCHANGED <<document, entity_expansions, reference>>

return_outermost ==
    /\ pc = "expanding" /\ AtEnd /\ Len(calls) = 1
    /\ calls' = <<>>
    /\ expansion' = current.expanded
    /\ pc' = "text"
    /\ UNCHANGED <<document, entity_expansions, reference, error>>

Next ==
    \/ \E kind \in {"character", "invalid", "entity"}, name \in EntityNames :
          parse_reference(kind, name)
    \/ EndOfText
    \/ copy_byte
    \/ truncated_reference
    \/ nested_reference
    \/ return_nested
    \/ return_outermost

Spec == Init /\ [][Next]_vars

\* One thread, running to completion.
FairSpec == Spec /\ WF_vars(Next)

-----------------------------------------------------------------------------
(* Properties.                                                              *)

Calls == [text : Seq(Pieces), cursor : Nat \ {0}, expanded : Seq(Bytes)]

\* A call that another one has been entered from is at the reference.
CallersWait(s) == \A i \in 1..(Len(s) - 1) : s[i].cursor <= Len(s[i].text)

\* The cursor of a call is inside its text, or just past it in the innermost,
\* and calls are in progress exactly while a reference is being expanded.
TypeOK ==
    /\ pc \in {"text", "expanding", "done", "failed"}
    /\ entities \in EntityTables
    /\ validating \in BOOLEAN
    /\ references \in 0..MaxReferences
    /\ entity_expansions \in Nat
    /\ calls \in Seq(Calls)
    /\ \A i \in DOMAIN calls : calls[i].cursor <= Len(calls[i].text) + 1
    /\ CallersWait(calls)
    /\ pc # "failed" => (pc = "expanding" <=> calls # <<>>)
    /\ reference \in EntityNames
    /\ expansion \in Seq(Bytes)
    /\ error \in {"none", "ResourceLimit", "Validity", "WellFormedness"}
    /\ error # "none" <=> pc = "failed"

\* Invariant: every call in progress has been counted, so the recursion is
\* never deeper than max_entity_expansions, cyclic declarations or not: the
\* count is refused before the guard on depth could be.
RecursionIsBounded ==
    /\ Len(calls) <= entity_expansions
    /\ Len(calls) <= max_entity_expansions
    /\ entity_expansions <= max_entity_expansions + 1
    /\ pc # "failed" => entity_expansions <= max_entity_expansions

\* Invariant: no text under expansion is longer than the limit plus what
\* has been copied of its own literal, hence nothing delivered is longer
\* than twice the limit (expand_entity_text measures after references only).
ExpansionIsBounded ==
    /\ \A i \in DOMAIN calls :
          Len(calls[i].expanded) <= max_entity_replacement_bytes + calls[i].cursor - 1
    /\ Len(expansion) <= 2 * max_entity_replacement_bytes

\* Invariant: what a reference delivers is within the limit named in
\* "entity replacement exceeds max_entity_replacement_bytes".
ReplacementWithinLimit == Len(expansion) <= max_entity_replacement_bytes

\* What an entity stands for, by substitution to a depth of k.
Substituted(limit) ==
    LET text[k \in 0..limit] ==
            [n \in EntityNames |->
                IF k = 0 \/ n \notin DOMAIN entities THEN <<>>
                ELSE FlattenSeq([i \in DOMAIN entities[n] |->
                        IF entities[n][i].kind = "entity"
                        THEN text[k - 1][entities[n][i].name]
                        ELSE entities[n][i].bytes])]
    IN  text[limit]

Delivers == pc = "expanding" /\ pc' = "text"

\* Action property: what a reference to an entity delivers is its text with
\* every reference in it, at any depth, replaced in its place.
DeliversTheSubstitution ==
    [][Delivers => expansion' = Substituted(max_entity_expansions)[reference]]_vars

Mentions(n) ==
    IF n \in DOMAIN entities
    THEN {entities[n][i].name : i \in {j \in DOMAIN entities[n] : entities[n][j].kind = "entity"}}
    ELSE {}

Reached(n) ==
    {m \in EntityNames :
        \A S \in SUBSET EntityNames :
            Mentions(n) \subseteq S /\ (\A x \in S : Mentions(x) \subseteq S) => m \in S}

\* Action property: only an entity that is declared, and reaches declared
\* entities only and none that reaches itself, ever delivers anything.
OnlyGroundedEntitiesDeliver ==
    [][Delivers => \A m \in Reached(reference) \cup {reference} :
                       m \in DOMAIN entities /\ m \notin Reached(m)]_vars

\* Liveness: the document's references come to an end, whatever the DTD
\* declares.
ExpansionEnds == <>(pc \in {"done", "failed"})
=============================================================================
