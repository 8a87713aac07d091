# XMLParser: specifications and proofs

TLA+ models of the XMLParser C++ library (`src/`), TLC configurations that check
them on small instances, and TLAPS proofs of the properties that matter most for
every instance. Line references are to `src/src/parser_core.cpp` (PC),
`src/src/dom.cpp` (DOM), `src/src/xmlparser.cpp` (XP) and
`src/include/xmlparser/*.h`.

## The system

The library is sequential. A call of `parse` runs to completion on the caller's
thread and talks back through callbacks (a `SaxHandler`, a recoverable error
handler), which may throw, and may call the library again. Every failure is an
exception, so "what happens when step k of n throws" is the question asked
everywhere.

| Component | State | Operations | Interacts with |
|---|---|---|---|
| Decoder, PC:144-352 | decoded characters and their locations | decode UTF-8 or UTF-16 whole, before the first event | runs in the constructor of `Parser` |
| Parser core, PC:354-485, 757-1107 | `index_`, `element_stack_`, `element_name_stack_` | recursive descent over the document, with limits on depth, attributes and tokens | calls the handler, namespaces, DTD and entities |
| Namespaces, PC:904-965 | `namespace_scopes_` | collect declarations, push and pop a scope, resolve a name | one scope per open element |
| DTD declarations, PC:548-755 | `dtd_` | internal subset, external subset from a caller's resolver | read by validation and entities |
| DTD validation, PC:829-875 | `validation_stack_` | collect content, judge an element at its end | reports through the recoverable error handler |
| Entities, PC:1109-1249 | `entity_expansions_`, recursion | expand references in text, attribute values and replacement texts | reads `dtd_.entities` |
| SAX facade, XP:139-231 | `buffer_`, `finished_` | `parse`, `feed`, `finish` | runs a parser; its callbacks may come back to it |
| DOM builder, XP:51-131 | `element_stack_`, `node_count_`, `document` | one method per event | listens to the parser, builds the tree |
| DOM tree, DOM:14-47, 178-276, 387-477 | `storage_`, `owner_`, `parent_`, `children_` | create, append, remove, traverse, move, destroy | owned by the application |
| DOM attributes, DOM:309-345 | `attributes_` | set and get, by name or expanded name | filled by the builder, read by the serializer |
| Serializer, DOM:49-174, 479-495 | none | document to text | reads the tree |

What is hard here: four stacks kept in step on several ways out of one function;
exceptions from callbacks in the middle of anything; validation that happens
after an element was delivered; recursion and growth controlled by a counter
shared between levels; a doubly linked tree with shared ownership that changes
hands as a whole; and a session object called from its own callbacks.
`PROJECT.json` lists these hazards, each at its line, with the properties that
would catch it going wrong.

What makes each component correct:

* parser core: a handler sees a well-nested event stream, and nothing after an
  exception; the stacks stand for the same elements; every parse ends;
* namespaces: a name means what the declarations of the open elements say;
* validation: each fault of an element is reported once, and nothing else is;
* entities: what is delivered is the substitution; recursion and length are
  bounded; cyclic and undeclared entities deliver nothing;
* facade: `finish` parses exactly what `feed` accepted;
* builder: the document is the event stream, in order, or nothing is left;
* tree: links in both directions agree, ownership covers what is linked, no
  cycles, one document element, nodes of a document stay together;
* attributes: the vector reads as a map from expanded names to the values last
  set; serializer: what is written parses back into the same document;
* decoder: exactly the valid encodings of XML characters are accepted, and
  locations count what was decoded; character references: a number is never
  wrapped around;
* DTD declarations: both subsets count against one limit, none replaces another,
  and the external one is read only on request.

## Modules

| Module | Models | State and actions |
|---|---|---|
| `Namespaces` | PC:904-965 | pure operators: scopes are a sequence of functions from prefixes to URIs |
| `SaxEventStream` | what a `SaxHandler` may rely on | abstract: `path` of open names, one action per kind of event, `Abandon` for an exception |
| `ParserCore` | `Parser`, with namespaces and validation | the four stacks under their names in the code; `pc` is the place in the recursive descent; one action per production and one per way it fails. `open` is a history variable: what the handler was told of the open elements |
| `EntityExpansion` | `parse_reference`, `expand_entity_text` | the recursion is the stack `calls` of (text, cursor, expanded) |
| `SaxSession` | class `SaxParser` | `buffer`, `finished`; parses that run, nested through callbacks, are the stack `calls` |
| `Characters` | `append_utf8`, which characters XML has | pure operators, used by the next two |
| `CharacterReference` | `parse_character_reference`, PC:1206-1249 | `base`, `offset`, `value` of its loop; one action per digit. `number` is the history variable it is compared with |
| `Decoder` | `decode_document`, `decode_utf8`, `decode_utf16`, `LocationTracker`, PC:144-352 | `offset`, `line`, `column`, the characters so far; one action per character of each encoding |
| `DtdSubset` | PC:548-755 | `DtdState`; the text is a sequence of pieces, one action per declaration of each subset and one per place the code goes on from |
| `DomTree` | class `Node`, class `Document` | `parent`, `children`, `owner`, `type` per object, `storage` per document; addresses are reused |
| `DomBuilder` | class `DomBuilder`, `parse` into a `Document` | composes `SaxEventStream` (events drive it) with `DomTree` (its operations are the tree's) |
| `Attributes` | class `Element`, DOM:309-345 | pure operators on the vector of attributes |
| `Serializer` | `serialize`, DOM:49-174, 479-495 | composes `Attributes` (the application sets some first) and `Namespaces` (the reader resolves what is written). `cursor` and `open` are the recursion; `scopes` and `read` belong to the reader; one action per node and end tag, and one for the stream that fails |
| `SequenceLemmas` | | facts about sequences as stacks and as ordered sets; induction and recursion on the natural numbers; sequences put together; sums over finite sets |
| `ParserCoreProofs`, `EntityExpansionProofs`, `DomTreeProofs`, `DomBuilderProofs`, `DtdSubsetProofs`, `DecoderProofs`, `ApplicationProofs` | | theorems; `EntityExpansionProofs` ends with those about `CharacterReference`; `ApplicationProofs` has those about what an application calls: `SaxSession`, `Attributes` and `Serializer` |
| `MC...` | | the values TLC gives the constants |

Operators named after a mistake (`..._never`, `..._first`, and so on), each next
to the definition it is a variant of, are plausible bugs: putting one in the
place of its neighbour makes TLC report the property that `PROJECT.json`
("mutants") pairs it with. They are used by no specification.

Where the models abstract:

* a document is read as tokens. A start tag is a name, attributes and whether it
  is self-closing; text is `empty`, `blank` or `nonblank`; malformed markup and
  limits on tokens are one action, `LexicalFailure`, that may happen wherever
  the code can meet them;
* names are records of prefix and local part, with `illformed` for the forms the
  code refuses;
* `DtdSubset` reads pieces (keywords, names, models, literals, blanks of two
  kinds, and whatever else); `ParserCore` starts from the tables it leaves, as
  nothing but the tables is shared. Character references in the text of an entity
  are one byte of `EntityExpansion`. Pieces are told apart without a blank between
  them, where two names in a text would run into one;
* the document `Serializer` walks is the sequence of its nodes, depth first, each
  with its depth; of the characters, those that escaping is about are told apart.
  Its reader is `parse_element` for the tags written, by the operators of
  `Namespaces`, with namespaces enabled. The bytes between are not modelled:
  markup and text are handed over as what they say;
* the handler of `ParserCore` notes of each open element the children that ended,
  in order, and the kinds of text it was given: all that validity is about;
* a `Document` of two types of node is enough for the tree: only `append_child`
  looks at the type, and only for elements;
* C++ destruction is the end of an address: it may be used again. Clients hold
  no references to destroyed objects;
* a call the code refuses before changing anything is not a step of `DomTree`,
  whose callers see only an exception. In `SaxSession` a refusal is a step, as
  what it leaves behind is the question.

## Runs

All runs finish in under two minutes on two cores.

| Run | Question and result | Bounds, and why they are enough |
|---|---|---|
| `parser` | stacks agree, names resolve against open elements only, attributes are distinct, frames hold what was delivered, each fault of a finished element is reported once, or the element refused, and none that conforms, the handler sees a stream (refinement of `SaxEventStream`), and the parse ends | 5 tokens; `max_depth` 0 to 3 with each mode of namespaces, validation and error handler; eleven tags that declare, shadow, undeclare and misuse prefixes; three DTDs that use each content model. Three levels are a parent, an element and a child; siblings after a close appear with 5 tokens |
| `parser_cdata` | violated: CDATA content escapes validation (see findings) | 6 tokens, plain tags |
| `references` | expansion delivers the substitution, only of grounded entities, within bounds, and ends; the value of a character reference never wraps, and the reference is accepted if and only if it denotes an XML character | entities: limits 6 and 6, two references; every pair of texts from a menu of eight (plain, growing, backward, forward, self-referring, undeclared, refused) and a third that doubles the first; two entities that refer only to each other, which nothing but the counter ends. Characters: integers of five bits, with a gap among the characters as for surrogates; every text of up to four from ten characters. Overflow happens at the second digit and can be missed by later ones |
| `entity_limit` | violated: what is delivered may pass the limit (see findings) | entities as above |
| `decoder` | the characters decoded are those encoded; nothing ill-formed passes; locations are right | every text of up to three bytes from the boundaries of the ranges, up to five from a few, four-byte forms followed by a line feed; UTF-16 of both orders up to four bytes after the mark; 6 bytes let the size limit be met |
| `dtd_subset` | limit, duplicates and permission, over both subsets | up to two declarations in either (three at the ends), written well, with a piece missing or with other blanks, against a limit of 2: the third is refused in either subset |
| `sax_reuse` | violated: only `feed` refuses after `finish` (see findings) | as in `application` |
| `dom_tree` | tree and ownership invariants, sibling order, togetherness | two documents and four nodes, up to symmetry: a node, its parent, a sibling and a detached subtree at once; a move needs two documents |
| `dom_builder` | the document is the event stream; its stack is the path and no append is refused; nothing leaks | five nodes against `max_dom_nodes` 4, so the limit is met with an address to spare; two names |
| `application` | `finish` parses what `feed` accepted, failures lose nothing; attributes read as a map; what is written reads back, for names and texts as the parser makes them and where no default namespace takes in an element without one | a `SaxParser`: limit 3 with chunks of 0, 1 and 3 bytes, three nested parses, as an inner `finish` can happen inside an inner parse of an outer `finish`. A document: up to three elements, in a chain or as siblings, with seven names over two namespaces and ten lists of attributes, the unusual ones too; texts next to each other, empty and at the top; documents of one element are edited any number of times with seven attributes. Three levels are enough for a declaration that an element between hides or captures |
| `serializer_default` | violated: an element without a namespace reads back in a default one around it (see findings) | the documents above with at most two elements, whose names are as the parser makes them; nothing set |
| `attribute_names` | violated: a qualified name reads as another value than the one set under it (see findings) | the documents of `serializer_default`, and one attribute set by `set_attribute` |

Two runs check two components each that share no state: `references` the two kinds of
references, `application` a `SaxParser` and a document that is edited and written.
Their `MC` modules let one of the two move only while the other is at rest, so that
the states of the one are not multiplied by those of the other.

Deadlock is checked in `dom_tree`. The others model one pass over an input, which
stops when it is over; a `SaxParser` can always be called.

**Fairness.** `parser` and `references` check that a parse ends under weak
fairness of `Next` as a whole: one thread executes the code and callbacks return
or throw. No particular action is assumed to be taken. In `ParserCore` the bound on
tokens stands for the finite input. The loops of the decoder, the subsets, the
character reference and the serializer move a cursor forward at each step; their
end is not checked separately.

**Symmetry** is used in `dom_tree` and `dom_builder`, which check safety only, for
documents, nodes and names that the model treats alike.

### Findings

* `parser_cdata`: `parse_cdata` does not set `has_non_whitespace_text`, so an
  element declared `EMPTY`, or with element content, may contain a CDATA section.
* `entity_limit`: the bytes after the last nested reference of a replacement
  text are not measured, so an expansion may be up to twice as long as
  `max_entity_replacement_bytes`. The factor of two is proved
  (`ExpansionAlwaysBounded`).
* `sax_reuse`: "SaxParser cannot be reused after finish" holds of `feed` only.
* `serializer_default`: `xmlns=""` is never written (DOM:105), so an element without
  a namespace inside one with a default namespace is read back into that namespace.
  The library's README builds such a document (README.md:120-127) and says that the
  declarations needed are emitted (138-139). `ReadsBack` holds of the other documents
  (`Captured` names these), and of them it is proved.
* `attribute_names`: `set_attribute(name, value)` looks for an attribute without a
  namespace whose local name is the whole `name` (DOM:309-311). For `p:code` as parsed
  it finds none and adds a second attribute of that qualified name, which
  `get_attribute` then does not read, although access by qualified name is promised
  (README.md:137 of the library). `ReadsTheLastWrite` is what does hold: the vector
  is a map from expanded names, and a qualified name that one attribute has reads as
  that one's value.

Observations, about code whose limits the properties spell out:

* A prefix that an element uses for two namespaces is declared for the first one only
  (DOM:119): the other name is read back in the wrong namespace, or the tag is refused
  for two attributes of one name. For an attribute in a namespace whose qualified name
  has no prefix, the declaration written is named `xmlns:` (DOM:120). The parser makes
  no such names, but `set_attribute_ns` takes them. The library's threat model asks
  that mutation prevent "namespace-invalid serialization" (140) and lists "conflicting
  namespace declarations" as a case to test (108). `ReadsBack` does not excuse
  these: it says nothing of a document that has such names.
* `create_element` and `set_attribute_ns` take other names that the parser would refuse:
  one with two colons, a prefix without its namespace, `xml` with another one, or an
  attribute called `xmlns:z`, which is written as a declaration. Of these `ReadsBack`
  says nothing either.
* In the external subset a name ends at a space and at nothing else, so a tab or a
  line feed before or after it becomes part of it (PC:731-747). Therefore
  `DeclaresWhatIsWritten` has a proviso, `NamesEndAtSpaces`: in the external subset
  only spaces come before a name, and one after it.

## Proofs

TLAPS checks each of these for all values of the constants.

**Parser core** (`ParserCoreProofs`), in three parts. The first proves
`TypeCorrect` and `StacksAlwaysAgree`, from the inductive invariant
`TypeOK /\ StacksAgree`. Agreement is relative to the control point: between
`end_element` and `FinishElement` the handler's path is one shorter than the
stacks, and after a failure the stacks are left as they were, but for the frame of an
element that is refused for its validity, which has been popped by then.

The second is a refinement. `ParserDeliversAStream`: every behaviour of
`ParserCore` is one of `SaxEventStream`. The path of the abstract handler is the
sequence of names in `open`. To the invariant above, `EventMatchesControl` adds
that the last event tells where a running parser is in the document.

The third is about what is delivered:

* `AttributesAlwaysDistinct`: only a start tag hands on attributes, and what it has
  checked is what it hands on.
* `NamesAlwaysResolved`: the scopes are those the declarations of the open elements
  make (`ScopesOfOpenElements`), which is the strengthening the property needs. A
  step that starts no element only shortens both (`Keeps`); for one that does, what
  `lookup_namespace` finds is what the nearest declaration says (`LookupFacts`).
  Scopes may be left behind by a failure, so the invariant is about parses that
  run; the names delivered stay right after it.
* `FramesAlwaysHoldContent` and `VerdictsAlwaysRight`: `ContentInv` extends the
  agreement of frames and handler to the moment between `end_element` and
  the pop, when the parent's frame lacks exactly the name of the child that is
  being closed. With it, `validate_element` counts exactly the faults of the element
  (`VerdictFacts`): none, one, or two when it is the wrong root and breaks its own
  declaration as well. `DoctypesAssumption` says that a content model is of one of the
  four kinds of `ElementModelKind`.

**Entities** (`EntityExpansionProofs`). `RecursionAlwaysBounded` rests on every call
having been counted when it was entered. `ExpansionAlwaysBounded` needs two facts
that the property does not say: the texts under expansion are declared ones, so no
longer than the limit themselves, and a caller waits at a reference, so its cursor
may move on by one when the text comes back. The assumption is
`TablesAssumption`, the check in `parse_entity_declaration`.
`OnlyTheGroundedDeliver`, the action property, adds the order of the calls
(`ReadInOrder`): the outermost one has the text of the entity referred to, each
further one the text of the reference its caller is at, and every reference before
a cursor is grounded: declared, reaching declared entities only and none that
reaches itself. A call is left at its end only, so an entity whose text has been
read mentions grounded ones alone, and then is grounded itself
(`GroundedFromMentions`). So the counter alone keeps cycles from delivering anything.
`SubstitutionAlwaysDelivered`, also an action property, says what is delivered: the
declared text with every reference in it replaced. The property defines that by a
recursion on the depth of substitution, the code by calls, which go the other way.
`TextsInOrder` joins them: the i-th call has expanded, up to its cursor, what its
text stands for, to *every* depth of at least `max_entity_expansions` - i. A call
that returns is one deeper than its caller, and one substitution more is what its
entity stands for there (`Deeper`, `ReturnedIsMeaning`); the outermost call is left
with the depth the property asks for. That the calls are never more than
`max_entity_expansions` (`RecursionIsBounded`) is what keeps the depths from
running out.

**Character references** (the end of `EntityExpansionProofs`). `NumberAlwaysExact`
needs nothing but types: the check by division is exact (`Division`), so the
remainder is never taken, for any width of at least four bits (`ReferenceAssumption`)
and any length of text. `VerdictAlwaysRight` compares the result with the weighted
sum of the digits, which looks at the text from its other end. `ReadInv` is the
Horner step: the number read so far, times the base to the power of the digits to
come, plus the weights of these, is the number the text denotes (`TextDenotes`).
Powers are a recursive function and the number denoted is a fold over a finite set.
The library's theorems about both take an operator as parameter; `SequenceLemmas`
has what is needed of them with sets and functions in the operators' place
(`InductionOnNat`, `RecursionOnNat`, `SumsAgree` and the lemmas after it; for the
sequences that a fold puts together, `FlattenFacts`, `FlattenAppend` and
`WithoutFacts`; for the nearest declaration, `GreatestFacts`).

**Session** (`ApplicationProofs`). `FinishAlwaysParsesWhatWasAccepted` is not
inductive alone: it needs `Sealed`, that `feed` is closed while any `finish` runs.

**Attributes** (`ApplicationProofs`). `AttributesAreAMap` is about the operators: on
any vector whose expanded names are distinct, `set_attribute_ns` keeps them so, what
is set is what is read, and nothing else reads otherwise.
`AlwaysReadsTheLastWrite` carries that over to whole documents: `ReadsTheLastWrite`
follows from `SetInv`, that every element keeps its attributes distinct and that of
each name set it holds the value set last. `DocumentsAssumption` says that the
elements started with have distinct attributes made of names and values: they come
from `set_attribute_ns`, of which `AttributesAreAMap` says so. It also says what
names and texts are: a name without a colon has no prefix, and a text is made of
characters, `&amp;` being five of them.

**Serializer** (`ApplicationProofs`). `AlwaysReadsBack`: when `serialize` returns,
what it wrote reads back as the document if its names and texts are such as the
parser makes and nothing is captured, for any document, settings and failures of the
stream. The lemma `DoneReadsBack` adds that no other document does, so these
conditions cannot be weakened for the code as it is. Its invariant is `WalkInv`, at every place of the walk:

* `IsWalk`: the elements on the stack are the ancestors of the next node
  (`OpenAreAncestors`), which `Captured` defines by depths alone. That a document is
  a tree need not be assumed: a sequence that is not is never written to its end;
* `ScopesInv`: the reader's scopes are what the tags of these elements declare;
* `ReadInv`: the reader has made at most one node of each, and exactly the nodes so
  far if and only if every one of them is `Fine`.

The larger part is about one element (`ElementReadsBack`). The declarations made up
for it are there once each (`DeclarationsFacts`) and are those of the prefixes it uses
(`DeclaredIsUsed`, `UsedIsDeclared`). A tag reads as its element exactly if each name
resolves to the one written (`TagReadFacts`). For names as parsed a prefix stands for
one namespace, which the scope then has (`ParsedIsRead`); and names that all read
back are as parsed (`ReadIsParsed`). Characters are replaced one by one, and back
(`TextSurvives`, `ValueSurvives`).

**Decoder** (`DecoderProofs`). For documents of any bytes and any length: nothing
ill-formed passes and nothing well-formed is refused for its encoding
(`IllFormedAlwaysRefused`), the characters written out again are the input
(`InputAlwaysDecoded`), and locations are right (`LocationsAlwaysRight`). It has two
halves. The first is arithmetic, case by case on the width: `Utf8Exact` and
`Utf16Exact` say that the checks of `decode_utf8` and `decode_utf16`, which look at
the value they have put together, accept exactly the rows of the Unicode standard's
table, which looks at the bytes. The second is the invariant `DecoderInv`: control
(the encoding is the one the byte order mark gives, and an error says what is at
the offset), characters (each is the decoding of the bytes from where it starts to
where the next one does) and tracker (line and column are what the line feeds so
far say, as cardinalities and not as counters). The only assumption is that a
document is made of bytes (`InputsAssumption`).

**DTD declarations** (`DtdSubsetProofs`), for any texts. `DeclarationsAlwaysCounted`
and `ExternalAlwaysOnRequest` come from one invariant, `SubsetInv`, as whether a
second text is there is what links permission to `pc`. `AlwaysDeclaresWhatIsWritten`
needs `Reading`: the tables hold the declarations whose keywords are before the
cursor, and in the internal subset the cursor is inside. A step then adds one
keyword at most (`Span`, `TextSpan`, `SubsetSpan`), and what it takes for name and
model are the next two pieces that are not blank (`ElementSpan`). The scans of the
code (`Skip`, `Find`) are minima of sets, so that nothing here is recursive.
`PiecesAssumption` says that texts are made of pieces and that no name, model or
literal is a blank, a mark, or the end.

**Tree** (`DomTreeProofs`). Types, links, owners, acyclicity, one document element,
togetherness and the order of siblings, for any number of documents and nodes, from
the conjunction of the invariants. Acyclicity is stated without recursion (every
set of objects has a member whose parent is outside it), which is what makes the
step of `append_child` provable: a set closed under `parent` after the step contains
the new parent and all its ancestors, and the check in the code keeps the child out
of these. `TreeKeepsSiblingOrder` is an action property: that a child is in one list,
once, makes its removal the removal of one place (`RemoveFirstIsRemoveAt`), and the
places of the others move up together.

`TreeTraversalsAgree`: `depth_first` lists the nodes below a node, each once, and
each before those below it. The traversal is a recursive function of the depth it
goes to; by induction on that depth its lists are in order (`InOrder`,
`VisitsKeepOrder`), and a list to depth k holds all the nodes or at least k of them,
so to the depth of as many nodes as there are it holds all. For this the nodes must
be finitely many (`NodesAssumption`), as the memory they are in is.

**Builder** (`DomBuilderProofs`). Two refinements come first: for the tree, a run of
the builder is a run of `DomTree` (`BuilderUsesTheTree`), so all of the above holds
of the document being built; for the handler, it is one of `SaxEventStream`
(`BuilderFollowsTheStream`). `StackAlwaysThePath` then needs `BuilderInv`: the stack,
with a pending element on top, has the names of the stream's path; its members are
linked from the document down; a pending node is linked to nothing; and there is a
document element only once the stream has had its root. From this
follows that `append_child` has nothing to refuse: the check for a second document
element because the stream has one root, the check for a cycle because a pending
node has no children. `BuilderLeaksNothing` follows from `Lifetimes`, which tells
how far `parse` has come by which documents exist. `BuilderAssumption` says that
documents and nodes are different objects, the nodes finitely many, and the limit is
a number.

`DocumentOrderAlwaysEventOrder`: walking the document gives the nodes in the order of
their events. `OrderInv` is that the nodes made, in the order they were made, are a
list in document order (`Lists`: each node after its parent, siblings in their order,
and no subtree interrupted). Such a list is unique, so it is what `depth_first`
returns (`ListIsDepthFirst`). Every node is appended where nothing is to the right
of it (`OnTheRight`: the last child of each ancestor is on the path), so putting it
at the end keeps the list in order (`AppendKeepsLists`), and moving the document
keeps it too (`MoveKeepsLists`).

The other assumptions say of the constants what the code's types say: limits are
numbers (`OptionsAssumption`, `TokensAssumption`, `LimitsAssumption`), tags are made of
names and values (`TagsAssumption`), and a name without a colon has no prefix
(`NamesAssumption`).

Only model-checked: the liveness properties, which no prover here can treat. Every
invariant and action property of a passing run is proved.

## Not modelled

* The lexical level: how markup is cut into tokens, attributes, literals and
  content models (`parse_name`, `parse_attributes` character by character,
  `parse_element_model`). Each is one token or piece, with the ways it may be
  refused as one nondeterministic failure.
* Which entity references stand in which text: `EntityExpansion` and `ParserCore`
  run over the same document in the code, but meet only in the characters
  delivered. `DtdSubset` likewise precedes both and shares its tables.
* Text that a comment, processing instruction or CDATA section cannot hold, and
  serializing after a parse with namespaces disabled.
* `ParserOptions::encoding` and `SerializeOptions` are declared and ignored by the
  code, so there is nothing to model of them.
* Wording of diagnostics, version strings, the C++ type hierarchy of nodes, the
  forwarding of `CallbackHandler`, build and packaging. They carry no behaviour
  that a model could get wrong.

What would come next: the shape of `Serializer`'s documents derived from `DomTree`'s
lists in document order, and the tokens of `ParserCore` made from text, so that
parsing, building and serializing are one model.
