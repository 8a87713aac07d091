------------------------- MODULE ApplicationProofs -------------------------
(***************************************************************************)
(* What an application drives itself.                                      *)
(*                                                                         *)
(* What finish parses, for every use of a SaxParser: any chunks, limits    *)
(* and depth of calls from callbacks.  FinishParsesWhatWasAccepted is not  *)
(* inductive alone: it says nothing of feed being closed while a finish    *)
(* runs.  Sealed does.                                                     *)
(*                                                                         *)
(* What the attributes of an element read as, for every sequence of        *)
(* settings.  ReadsTheLastWrite is about the getters, which look for the   *)
(* first match; SetInv is about the vector: its names are distinct, and    *)
(* they are those of the values last set.                                  *)
(*                                                                         *)
(* What is written reads back, for every document, setting and failure of  *)
(* the stream.  ReadsBack is about the end; WalkInv is about every place   *)
(* of the walk: the open elements are the ancestors of the next node, the  *)
(* reader's scopes are theirs, and what it has read is the document so far *)
(* if and only if every node so far is fine.  So the proof also says which *)
(* documents do not come back (DoneReadsBack).  One element is the larger  *)
(* part: what its tag declares, what that makes of its names, and that the *)
(* names of a parser, and no others, come back.                            *)
(***************************************************************************)
EXTENDS SaxSession, Serializer, SequenceLemmas, FunctionTheorems

\* Once a finish has been called, feed is closed.
Sealed ==
    /\ \A i \in DOMAIN calls : calls[i].finishing => finished
    /\ spent => finished

SessionInv == TypeOK /\ FinishParsesWhatWasAccepted /\ KeptUntilFinished /\ Sealed

Parses == [xml : Seq(Bytes), finishing : BOOLEAN]

\* What SessionInv says of one parse that runs.
ParseOK(c) == c \in Parses /\ (c.finishing => c.xml = accepted /\ finished)

-----------------------------------------------------------------------------
\* A new parser has nothing buffered and nothing running.
LEMMA InitSessionInv == SessionInit => SessionInv
<1> SUFFICES ASSUME SessionInit PROVE SessionInv
  OBVIOUS
<1>1. <<>> \in Seq(Bytes) /\ <<>> \in Seq(Parses) /\ Len(<<>>) = 0
  BY EmptySeq
<1>2. DOMAIN <<>> = {}
  BY <1>1, LenProperties
<1>7. Len(<<>>) <= max_document_bytes
  BY <1>1, SessionAssumption
<1>3. TypeOK
  <2>1. /\ buffer = <<>> /\ calls = <<>> /\ accepted = <<>>
        /\ finished = FALSE /\ spent = FALSE /\ outcome = "none"
    BY DEF SessionInit
  <2>2. buffer \in Seq(Bytes) /\ Len(buffer) <= max_document_bytes
    BY <1>1, <1>7, <2>1
  <2>3. calls \in Seq(Parses) /\ accepted \in Seq(Bytes)
    BY <1>1, <2>1
  <2> QED BY <2>1, <2>2, <2>3 DEF TypeOK, Parses
<1>4. FinishParsesWhatWasAccepted
  BY <1>2 DEF SessionInit, FinishParsesWhatWasAccepted
<1>5. KeptUntilFinished
  BY DEF SessionInit, KeptUntilFinished
<1>6. Sealed
  BY <1>2 DEF SessionInit, Sealed
<1> QED BY <1>3, <1>4, <1>5, <1>6 DEF SessionInv

\* feed adds to what is accepted only while no finish has been called.
LEMMA FeedKeepsInv == ASSUME SessionInv, NEW chunk \in Chunks, feed(chunk) PROVE SessionInv'
<1>1. TypeOK /\ FinishParsesWhatWasAccepted /\ KeptUntilFinished /\ Sealed
  BY DEF SessionInv
<1>2. UNCHANGED <<finished, calls, spent>>
  BY DEF feed
<1>3. CASE UNCHANGED <<buffer, accepted>> /\ outcome' \in {"Unsupported", "ResourceLimit"}
  <2>1. TypeOK'
    BY <1>1, <1>2, <1>3 DEF TypeOK
  <2>2. FinishParsesWhatWasAccepted' /\ KeptUntilFinished' /\ Sealed'
    BY <1>1, <1>2, <1>3 DEF FinishParsesWhatWasAccepted, KeptUntilFinished, Sealed
  <2> QED BY <2>1, <2>2 DEF SessionInv
<1>4. CASE /\ ~finished /\ Fits(chunk)
           /\ buffer' = buffer \o chunk /\ accepted' = accepted \o chunk
           /\ outcome' = "returned"
  <2>1. chunk \in Seq(Bytes) /\ buffer \in Seq(Bytes) /\ accepted \in Seq(Bytes)
    BY <1>1, SessionAssumption DEF TypeOK
  <2>2. /\ buffer' \in Seq(Bytes) /\ Len(buffer') = Len(buffer) + Len(chunk)
        /\ accepted' \in Seq(Bytes)
    BY <1>4, <2>1, ConcatProperties
  <2>3. TypeOK'
    BY <1>1, <1>2, <1>4, <2>2 DEF TypeOK, Fits
  <2>4. \A i \in DOMAIN calls : ~calls[i].finishing
    BY <1>1, <1>4 DEF Sealed
  <2>5. FinishParsesWhatWasAccepted'
    BY <1>2, <2>4 DEF FinishParsesWhatWasAccepted
  <2>6. ~spent /\ buffer = accepted
    BY <1>1, <1>4 DEF Sealed, KeptUntilFinished
  <2>7. KeptUntilFinished'
    BY <1>2, <1>4, <2>6 DEF KeptUntilFinished
  <2>8. Sealed'
    BY <1>1, <1>2 DEF Sealed
  <2> QED BY <2>3, <2>5, <2>7, <2>8 DEF SessionInv
<1> QED BY <1>3, <1>4 DEF feed, Refuse

\* A parse begins: all that feed has accepted, if it is a finish.
LEMMA BeginKeepsInv ==
    ASSUME SessionInv, NEW xml \in Seq(Bytes), NEW finishing \in BOOLEAN, Begin(xml, finishing),
           finishing => xml = buffer /\ finished' = TRUE,
           finished => finished', finished' \in BOOLEAN,
           UNCHANGED <<buffer, accepted, spent>>
    PROVE  SessionInv'
<1>1. TypeOK /\ FinishParsesWhatWasAccepted /\ KeptUntilFinished /\ Sealed
  BY DEF SessionInv
<1>2. KeptUntilFinished'
  BY <1>1 DEF KeptUntilFinished
<1>3. CASE outcome' = "thrown" /\ UNCHANGED calls
  <2>1. TypeOK'
    BY <1>1, <1>3 DEF TypeOK
  <2>2. FinishParsesWhatWasAccepted' /\ Sealed'
    BY <1>1, <1>3 DEF FinishParsesWhatWasAccepted, Sealed
  <2> QED BY <1>2, <2>1, <2>2 DEF SessionInv
<1>4. CASE /\ xml # <<>> /\ calls' = Append(calls, [xml |-> xml, finishing |-> finishing])
           /\ outcome' = "running"
  <2> DEFINE c == [xml |-> xml, finishing |-> finishing]
  <2>1. c \in Parses /\ c.finishing = finishing /\ c.xml = xml
    BY DEF Parses
  <2> HIDE DEF c
  <2>2. calls \in Seq(Parses) /\ calls' = Append(calls, c) /\ Len(calls) \in Nat
        /\ DOMAIN calls = 1..Len(calls)
    BY <1>1, <1>4, LenProperties DEF TypeOK, Parses, c
  <2>3. /\ calls' \in Seq(Parses)
        /\ DOMAIN calls' = 1..(Len(calls) + 1)
        /\ calls'[Len(calls) + 1] = c
        /\ \A i \in 1..Len(calls) : calls'[i] = calls[i]
    BY <2>1, <2>2, PushFacts
  <2>4. TypeOK'
    BY <1>1, <1>4, <2>3 DEF TypeOK, Parses
  <2>5. \A i \in DOMAIN calls' : (i \in DOMAIN calls /\ calls'[i] = calls[i]) \/ calls'[i] = c
    BY <2>2, <2>3
  <2>6. finishing => xml = accepted
    BY <1>1, <1>4 DEF KeptUntilFinished
  <2>7. FinishParsesWhatWasAccepted'
    BY <1>1, <2>1, <2>5, <2>6 DEF FinishParsesWhatWasAccepted
  <2>8. Sealed'
    BY <1>1, <2>1, <2>5 DEF Sealed
  <2> QED BY <1>2, <2>4, <2>7, <2>8 DEF SessionInv
<1> QED BY <1>3, <1>4 DEF Begin

\* The innermost parse ends, and with it a finish that returns is spent.
LEMMA EndKeepsInv ==
    ASSUME SessionInv, calls # <<>>, calls' = Front(calls),
           outcome' \in {"returned", "thrown"},
           UNCHANGED <<finished, accepted>>,
           \/ UNCHANGED <<buffer, spent>>
           \/ Last(calls).finishing /\ buffer' = <<>> /\ spent' = TRUE
    PROVE  SessionInv'
<1>1. TypeOK /\ FinishParsesWhatWasAccepted /\ KeptUntilFinished /\ Sealed
  BY DEF SessionInv
<1>2. calls \in Seq(Parses) /\ DOMAIN calls = 1..Len(calls)
  BY <1>1, LenProperties DEF TypeOK, Parses
<1>3. /\ calls' \in Seq(Parses)
      /\ DOMAIN calls' = 1..(Len(calls) - 1)
      /\ \A i \in 1..(Len(calls) - 1) : calls'[i] = calls[i]
      /\ Last(calls) = calls[Len(calls)]
      /\ Len(calls) \in Nat \ {0}
  BY <1>2, PopFacts
<1>4. \A i \in DOMAIN calls' : i \in DOMAIN calls /\ calls'[i] = calls[i]
  BY <1>2, <1>3
<1>5. Last(calls).finishing => finished
  <2>1. Len(calls) \in DOMAIN calls
    BY <1>2, <1>3
  <2> QED BY <1>1, <1>3, <2>1 DEF Sealed
<1>6. buffer' \in Seq(Bytes) /\ Len(buffer') <= max_document_bytes /\ spent' \in BOOLEAN
  <2>1. <<>> \in Seq(Bytes) /\ Len(<<>>) <= max_document_bytes
    <3>1. <<>> \in Seq(Bytes) /\ Len(<<>>) = 0
      BY EmptySeq
    <3> QED BY <3>1, SessionAssumption
  <2>2. CASE UNCHANGED <<buffer, spent>>
    BY <1>1, <2>2 DEF TypeOK
  <2>3. CASE buffer' = <<>> /\ spent' = TRUE
    BY <2>1, <2>3
  <2> QED BY <2>2, <2>3
<1>7. TypeOK'
  BY <1>1, <1>3, <1>6 DEF TypeOK, Parses
<1>8. FinishParsesWhatWasAccepted'
  BY <1>1, <1>4 DEF FinishParsesWhatWasAccepted
<1>9. KeptUntilFinished'
  BY <1>1 DEF KeptUntilFinished
<1>10. Sealed'
  BY <1>1, <1>4, <1>5 DEF Sealed
<1> QED BY <1>7, <1>8, <1>9, <1>10 DEF SessionInv

\* Every call of the application, and every end of a parse, keeps it.
LEMMA NextSessionInv == ASSUME SessionInv, [SessionNext]_session_vars PROVE SessionInv'
<1>1. TypeOK /\ KeptUntilFinished
  BY DEF SessionInv
<1>2. CASE \E chunk \in Chunks : feed(chunk)
  BY <1>2, FeedKeepsInv
<1>3. CASE \E xml \in Chunks : parse(xml)
  <2>1. PICK xml \in Chunks : parse(xml)
    BY <1>3
  <2>2. xml \in Seq(Bytes)
    BY SessionAssumption
  <2> QED BY <1>1, <2>1, <2>2, BeginKeepsInv DEF parse, TypeOK
<1>4. CASE finish
  <2>1. buffer \in Seq(Bytes)
    BY <1>1 DEF TypeOK
  <2> QED BY <1>4, <2>1, BeginKeepsInv DEF finish
<1>5. CASE return
  <2>1. CASE Last(calls).finishing
    BY <1>5, <2>1, EndKeepsInv DEF return
  <2>2. CASE ~Last(calls).finishing
    <3>1. calls # <<>> /\ UNCHANGED buffer /\ (spent' <=> spent)
      BY <1>5, <2>2 DEF return
    <3>2. Last(calls).finishing \in BOOLEAN
      <4>1. Last(calls) \in Parses
        BY <1>1, <3>1, PopFacts DEF TypeOK, Parses
      <4> QED BY <4>1 DEF Parses
    <3>3. spent' = spent
      BY <1>1, <1>5, <2>2, <3>2 DEF return, TypeOK
    <3> QED BY <1>5, <3>1, <3>3, EndKeepsInv DEF return
  <2> QED BY <2>1, <2>2
<1>6. CASE throw
  BY <1>6, EndKeepsInv DEF throw
<1>7. CASE UNCHANGED session_vars
  BY <1>7 DEF SessionInv, session_vars, TypeOK, FinishParsesWhatWasAccepted, KeptUntilFinished, Sealed
<1> QED BY <1>2, <1>3, <1>4, <1>5, <1>6, <1>7 DEF SessionNext

-----------------------------------------------------------------------------
\* The buffer never outgrows max_document_bytes.
THEOREM SessionTypes == SessionSpec => []TypeOK
<1>1. SessionInv => TypeOK
  BY DEF SessionInv
<1> QED BY <1>1, InitSessionInv, NextSessionInv, PTL DEF SessionSpec

\* Every finish parses exactly what feed has accepted.
THEOREM FinishAlwaysParsesWhatWasAccepted == SessionSpec => []FinishParsesWhatWasAccepted
<1>1. SessionInv => FinishParsesWhatWasAccepted
  BY DEF SessionInv
<1> QED BY <1>1, InitSessionInv, NextSessionInv, PTL DEF SessionSpec

\* An exception never loses input that a later finish could still parse.
THEOREM InputAlwaysKeptUntilFinished == SessionSpec => []KeptUntilFinished
<1>1. SessionInv => KeptUntilFinished
  BY DEF SessionInv
<1> QED BY <1>1, InitSessionInv, NextSessionInv, PTL DEF SessionSpec

-----------------------------------------------------------------------------
(* The attributes start_element gives an element, which the application may *)
(* set and read later, are a map from expanded names.                       *)

Named(attrs) == {ExpandedName(attrs[i]) : i \in DOMAIN attrs}

\* The least of one number.
LEMMA LeastOfOne == ASSUME NEW i \in Nat PROVE Min({i}) = i
BY DEF Min

\* The attribute with an expanded name is what get_attribute_ns reads.
LEMMA ReadsTheOne ==
    ASSUME NEW S, NEW attrs \in Seq(S), AreDistinct(attrs), NEW i \in DOMAIN attrs,
           NEW uri, NEW local, ExpandedName(attrs[i]) = <<uri, local>>
    PROVE  /\ Matching(attrs, uri, local) = {i}
           /\ get_attribute_ns(attrs, uri, local) = attrs[i].value
<1>1. i \in Nat
  BY LenProperties
<1>2. \A j \in DOMAIN attrs : Matches(attrs[j], uri, local) <=> j = i
  BY DEF Matches, ExpandedName, AreDistinct
<1>3. Matching(attrs, uri, local) = {i}
  BY <1>2 DEF Matching
<1>4. Min({i}) = i
  BY <1>1, LeastOfOne
<1> QED BY <1>3, <1>4 DEF get_attribute_ns

\* At place i, attribute a has come over the one of the same name, or anew.
IsSetAt(i, a, attrs, after) ==
    /\ i \in DOMAIN after /\ after[i] = a
    /\ DOMAIN after = DOMAIN attrs \cup {i}
    /\ \A j \in DOMAIN attrs : j # i =>
           after[j] = attrs[j] /\ ExpandedName(attrs[j]) # ExpandedName(a)
    /\ i \in DOMAIN attrs => ExpandedName(attrs[i]) = ExpandedName(a)

\* What set_attribute_ns does: it writes over the attribute of that name, or
\* adds one.
LEMMA SetFacts ==
    ASSUME NEW S, NEW attrs \in Seq(S), AreDistinct(attrs),
           NEW uri, NEW local, NEW qname, NEW value, Attribute(uri, local, qname, value) \in S,
           NEW after, after = set_attribute_ns(attrs, uri, local, qname, value)
    PROVE  /\ after \in Seq(S)
           /\ \E i : IsSetAt(i, Attribute(uri, local, qname, value), attrs, after)
<1> DEFINE a == Attribute(uri, local, qname, value)
           found == Matching(attrs, uri, local)
<1>1. a \in S /\ ExpandedName(a) = <<uri, local>>
  BY DEF Attribute, ExpandedName
<1>2. attrs \in Seq(S) /\ DOMAIN attrs = 1..Len(attrs) /\ Len(attrs) \in Nat
  BY LenProperties
<1>3. after = IF found = {} THEN Append(attrs, a) ELSE [attrs EXCEPT ![Min(found)] = a]
  BY DEF set_attribute_ns, Attribute
<1>4. \A j \in DOMAIN attrs : j \in found <=> ExpandedName(attrs[j]) = <<uri, local>>
  BY DEF Matching, Matches, ExpandedName
<1>5. CASE found = {}
  <2>1. after = Append(attrs, a)
    BY <1>3, <1>5
  <2> HIDE DEF a, found
  <2>2. /\ after \in Seq(S)
        /\ DOMAIN after = 1..(Len(attrs) + 1)
        /\ after[Len(attrs) + 1] = a
        /\ \A j \in 1..Len(attrs) : after[j] = attrs[j]
    BY <1>1, <1>2, <2>1, PushFacts
  <2> DEFINE n == Len(attrs) + 1
  <2>3. n \in DOMAIN after /\ DOMAIN after = DOMAIN attrs \cup {n} /\ n \notin DOMAIN attrs
    BY <1>2, <2>2
  <2> HIDE DEF n
  <2>4. after[n] = a
    BY <2>2 DEF n
  <2>5. \A j \in DOMAIN attrs : after[j] = attrs[j] /\ ExpandedName(attrs[j]) # <<uri, local>>
    BY <1>2, <1>4, <1>5, <2>2
  <2> QED BY <1>1, <2>2, <2>3, <2>4, <2>5 DEF a, IsSetAt
<1>6. CASE found # {}
  <2>1. PICK i \in DOMAIN attrs : ExpandedName(attrs[i]) = <<uri, local>>
    BY <1>4, <1>6 DEF Matching
  <2>2. found = {i} /\ i \in Nat
    BY <1>2, <2>1, ReadsTheOne
  <2>3. Min({i}) = i
    BY <2>2, LeastOfOne
  <2>4. after = [attrs EXCEPT ![i] = a]
    BY <1>3, <2>2, <2>3
  <2>5. \A j \in DOMAIN attrs : j # i => ExpandedName(attrs[j]) # <<uri, local>>
    BY <2>1 DEF AreDistinct
  <2> HIDE DEF a, found
  <2>6. after \in Seq(S)
    BY <1>1, <1>2, <2>1, <2>4, ExceptSeq
  <2>7. /\ DOMAIN after = DOMAIN attrs /\ after[i] = a
        /\ \A j \in DOMAIN attrs : j # i => after[j] = attrs[j]
    BY <2>1, <2>4
  <2> QED BY <1>1, <2>1, <2>5, <2>6, <2>7 DEF a, IsSetAt
<1> QED BY <1>5, <1>6

\* The vector of attributes is a map from expanded names to values: names
\* stay distinct, what is set is what is read, no other name reads otherwise
\* than before; and get_attribute reads the one attribute of a qualified name
\* (set_attribute_ns, set_attribute, get_attribute_ns, get_attribute).
THEOREM AttributesAreAMap ==
    ASSUME NEW S, NEW attrs \in Seq(S), AreDistinct(attrs),
           NEW uri, NEW local, NEW qname, NEW value, Attribute(uri, local, qname, value) \in S,
           NEW after, after = set_attribute_ns(attrs, uri, local, qname, value)
    PROVE  /\ after \in Seq(S) /\ AreDistinct(after)
           /\ Named(after) = Named(attrs) \cup {<<uri, local>>}
           /\ get_attribute_ns(after, uri, local) = value
           /\ \A u, l : <<u, l>> \in Named(attrs) \ {<<uri, local>>} =>
                 get_attribute_ns(after, u, l) = get_attribute_ns(attrs, u, l)
           /\ \A i \in DOMAIN after :
                 (\A j \in DOMAIN after :
                     after[j].qualified_name = after[i].qualified_name => j = i)
                 => get_attribute(after, after[i].qualified_name) = after[i].value
<1> DEFINE a == Attribute(uri, local, qname, value)
<1>1. PICK i : IsSetAt(i, a, attrs, after)
  BY SetFacts
<1>2. after \in Seq(S)
  BY SetFacts
<1>3. ExpandedName(a) = <<uri, local>> /\ a.value = value
  BY DEF Attribute, ExpandedName
<1> HIDE DEF a
<1> USE DEF IsSetAt
<1>4. \A j \in DOMAIN after : j # i =>
          /\ j \in DOMAIN attrs /\ after[j] = attrs[j]
          /\ ExpandedName(after[j]) # <<uri, local>>
  BY <1>1, <1>3
<1>5. AreDistinct(after)
  BY <1>1, <1>3, <1>4 DEF AreDistinct
<1>6. Named(after) = Named(attrs) \cup {<<uri, local>>}
  <2>1. \A n \in Named(after) : n \in Named(attrs) \cup {<<uri, local>>}
    BY <1>1, <1>3, <1>4 DEF Named
  <2>2. \A n \in Named(attrs) : n \in Named(after)
    BY <1>1, <1>3, <1>4 DEF Named
  <2>3. <<uri, local>> \in Named(after)
    BY <1>1, <1>3 DEF Named
  <2> QED BY <2>1, <2>2, <2>3
<1>7. get_attribute_ns(after, uri, local) = value
  BY <1>1, <1>2, <1>3, <1>5, ReadsTheOne
<1>8. ASSUME NEW u, NEW l, <<u, l>> \in Named(attrs) \ {<<uri, local>>}
      PROVE  get_attribute_ns(after, u, l) = get_attribute_ns(attrs, u, l)
  <2>1. PICK j \in DOMAIN attrs : ExpandedName(attrs[j]) = <<u, l>>
    BY <1>8 DEF Named
  <2>2. j # i /\ j \in DOMAIN after /\ after[j] = attrs[j]
    BY <1>1, <1>3, <1>8, <2>1
  <2>3. get_attribute_ns(attrs, u, l) = attrs[j].value
    BY <2>1, ReadsTheOne
  <2>4. get_attribute_ns(after, u, l) = after[j].value
    BY <1>2, <1>5, <2>1, <2>2, ReadsTheOne
  <2> QED BY <2>2, <2>3, <2>4
<1>9. ASSUME NEW k \in DOMAIN after,
             \A j \in DOMAIN after : after[j].qualified_name = after[k].qualified_name => j = k
      PROVE  get_attribute(after, after[k].qualified_name) = after[k].value
  <2>1. {j \in DOMAIN after : after[j].qualified_name = after[k].qualified_name} = {k}
    BY <1>9
  <2>2. k \in Nat
    BY <1>2, <1>9, LenProperties
  <2>3. Min({k}) = k
    BY <2>2, LeastOfOne
  <2> QED BY <2>1, <2>3 DEF get_attribute
<1> QED BY <1>2, <1>5, <1>6, <1>7, <1>8, <1>9

-----------------------------------------------------------------------------
(* The attributes the application sets before it serializes: the vector is  *)
(* the map of what was last set.                                            *)

\* What holds of a document d, its document element at place i, and of the
\* values last set.
SetInv(d, i, values) ==
    /\ d = [k \in DOMAIN d |-> d[k]]
    /\ i \in DOMAIN d /\ IsDocumentElement(d[i]) /\ IsElement(d[i])
    /\ \A j \in DOMAIN d : IsDocumentElement(d[j]) => j = i
    /\ DOMAIN values = Named(d[i].attributes)
    /\ \A k \in DOMAIN d[i].attributes :
          values[ExpandedName(d[i].attributes[k])] = d[i].attributes[k].value

WrittenInv == SetInv(nodes, document_element, written)

\* A sequence is one of the values it has.
LEMMA SeqOfItsRange ==
    ASSUME NEW S, NEW s \in Seq(S)
    PROVE  s \in Seq(Range(s))
<1>1. DOMAIN s = 1..Len(s) /\ Len(s) \in Nat
  BY LenProperties
<1>2. \A k \in 1..Len(s) : s[k] \in Range(s)
  BY <1>1 DEF Range
<1>3. s \in [1..Len(s) -> Range(s)]
  <2>1. s = [k \in 1..Len(s) |-> s[k]]
    BY <1>1
  <2> QED BY <1>2, <2>1
<1> QED BY <1>1, <1>3, SeqDef

\* A sequence of some values is one of more.
LEMMA SeqOfMore ==
    ASSUME NEW S, NEW T, S \subseteq T, NEW s \in Seq(S)
    PROVE  s \in Seq(T)
OBVIOUS

\* As many attributes as names.
LEMMA AsManyAsNames ==
    ASSUME NEW S, NEW attrs \in Seq(S), AreDistinct(attrs)
    PROVE  Cardinality(Named(attrs)) = Len(attrs)
<1> DEFINE n == Len(attrs)
           f == [i \in 1..n |-> ExpandedName(attrs[i])]
<1>1. n \in Nat /\ DOMAIN attrs = 1..n
  BY LenProperties
<1>2. IsFiniteSet(1..n) /\ Cardinality(1..n) = n
  BY <1>1, FS_Interval
<1>3. f \in Surjection(1..n, Named(attrs))
  BY <1>1, Fun_IsSurj DEF Named
<1>4. f \in Injection(1..n, Named(attrs))
  BY <1>1, <1>3, Fun_IsInj DEF AreDistinct, Named
<1> QED BY <1>2, <1>3, <1>4, FS_Surjection

\* There is one document element.
LEMMA TheDocumentElement ==
    ASSUME NEW d, NEW i \in DOMAIN d, IsDocumentElement(d[i]),
           \A j \in DOMAIN d : IsDocumentElement(d[j]) => j = i
    PROVE  (CHOOSE j \in DOMAIN d : IsDocumentElement(d[j])) = i
OBVIOUS

\* What holds of the map holds of what the getters read.
LEMMA ReadsWhatIsWritten ==
    ASSUME WrittenInv
    PROVE  ReadsTheLastWrite
<1>1. /\ attributes \in Seq(Range(attributes)) /\ AreDistinct(attributes)
      /\ DOMAIN written = Named(attributes)
      /\ \A k \in DOMAIN attributes : written[ExpandedName(attributes[k])] = attributes[k].value
  BY DEF WrittenInv, SetInv, IsElement, attributes
<1>2. Len(attributes) = Cardinality(DOMAIN written)
  BY <1>1, AsManyAsNames
<1>3. ASSUME NEW n \in DOMAIN written
      PROVE  get_attribute_ns(attributes, n[1], n[2]) = written[n]
  <2>1. PICK i \in DOMAIN attributes : n = ExpandedName(attributes[i])
    BY <1>1 DEF Named
  <2>2. n = <<n[1], n[2]>>
    BY <2>1 DEF ExpandedName
  <2>3. get_attribute_ns(attributes, n[1], n[2]) = attributes[i].value
    BY <1>1, <2>1, <2>2, ReadsTheOne
  <2> QED BY <1>1, <2>1, <2>3
<1>4. ASSUME NEW i \in DOMAIN attributes,
             \A j \in DOMAIN attributes :
                attributes[j].qualified_name = attributes[i].qualified_name => i = j
      PROVE  get_attribute(attributes, attributes[i].qualified_name)
                = written[ExpandedName(attributes[i])]
  <2>1. {j \in DOMAIN attributes : attributes[j].qualified_name = attributes[i].qualified_name} = {i}
    BY <1>4
  <2>2. i \in Nat
    BY <1>1, LenProperties
  <2>3. Min({i}) = i
    BY <2>2, LeastOfOne
  <2>4. get_attribute(attributes, attributes[i].qualified_name) = attributes[i].value
    BY <2>1, <2>3 DEF get_attribute
  <2> QED BY <1>1, <2>4
<1> QED BY <1>2, <1>3, <1>4 DEF ReadsTheLastWrite

\* At first the attributes are those the document was built with.
LEMMA InitWrittenInv ==
    ASSUME Init
    PROVE  WrittenInv
<1>1. /\ nodes \in Documents
      /\ written = [n \in Named(attributes) |-> get_attribute_ns(attributes, n[1], n[2])]
  BY DEF Init, Named
<1>2. /\ nodes \in Seq(Range(nodes))
      /\ \A i \in DOMAIN nodes : nodes[i].kind = "Element" => IsElement(nodes[i])
  BY <1>1, DocumentsAssumption
<1>3. PICK i \in DOMAIN nodes : /\ IsDocumentElement(nodes[i])
                                /\ \A j \in DOMAIN nodes : IsDocumentElement(nodes[j]) => j = i
  BY <1>1, DocumentsAssumption
<1>4. document_element = i
  BY <1>3, TheDocumentElement DEF document_element
<1>5. IsElement(nodes[i])
  BY <1>2, <1>3 DEF IsDocumentElement
<1>6. attributes = nodes[i].attributes
  BY <1>4 DEF attributes
<1>7. attributes \in Seq(Range(attributes)) /\ AreDistinct(attributes)
  BY <1>5, <1>6 DEF IsElement
<1>8. DOMAIN written = Named(attributes)
  BY <1>1
<1>9. ASSUME NEW k \in DOMAIN attributes
      PROVE  written[ExpandedName(attributes[k])] = attributes[k].value
  <2> DEFINE n == ExpandedName(attributes[k])
  <2>1. n \in Named(attributes)
    BY DEF Named
  <2>2. n = <<n[1], n[2]>>
    BY DEF ExpandedName
  <2> HIDE DEF n
  <2>3. written[n] = get_attribute_ns(attributes, n[1], n[2])
    BY <1>1, <2>1
  <2>4. get_attribute_ns(attributes, n[1], n[2]) = attributes[k].value
    BY <1>7, <2>2, ReadsTheOne DEF n
  <2> QED BY <2>3, <2>4 DEF n
<1>10. nodes = [k \in DOMAIN nodes |-> nodes[k]]
  BY <1>2, LenProperties
<1> QED BY <1>3, <1>4, <1>5, <1>6, <1>8, <1>9, <1>10 DEF WrittenInv, SetInv

\* The values, once a is set too.
WithSet(values, a) ==
    [n \in DOMAIN values \cup {ExpandedName(a)} |->
        IF n = ExpandedName(a) THEN a.value ELSE values[n]]

\* Setting an attribute of the document element sets its name's value.
LEMMA SetKeepsInv ==
    ASSUME NEW d, NEW i, NEW values, SetInv(d, i, values), NEW a, IsAttribute(a),
           NEW after, after = set_attribute_ns(d[i].attributes, a.uri, a.local_name,
                                               a.qualified_name, a.value)
    PROVE  LET e == [d EXCEPT ![i].attributes = after]
           IN  SetInv(e, i, WithSet(values, a))
<1> DEFINE attrs == d[i].attributes
           S == Range(attrs) \cup {a}
           el == [d[i] EXCEPT !.attributes = after]
           e == [d EXCEPT ![i].attributes = after]
           n == ExpandedName(a)
           now == WithSet(values, a)
<1>1. /\ i \in DOMAIN d /\ IsDocumentElement(d[i]) /\ IsElement(d[i])
      /\ d = [k \in DOMAIN d |-> d[k]]
      /\ \A j \in DOMAIN d : IsDocumentElement(d[j]) => j = i
      /\ DOMAIN values = Named(attrs)
      /\ \A k \in DOMAIN attrs : values[ExpandedName(attrs[k])] = attrs[k].value
  BY DEF SetInv
<1>2. /\ attrs \in Seq(Range(attrs)) /\ AreDistinct(attrs)
      /\ \A b \in Range(attrs) : IsAttribute(b)
  BY <1>1 DEF IsElement
<1>3. attrs \in Seq(S)
  BY <1>2, SeqOfMore
<1>4. a = Attribute(a.uri, a.local_name, a.qualified_name, a.value) /\ a \in S
  BY DEF IsAttribute
<1>5. /\ after \in Seq(S) /\ AreDistinct(after)
      /\ Named(after) = Named(attrs) \cup {n}
      /\ \E k : IsSetAt(k, a, attrs, after)
  <2> HIDE DEF attrs, S
  <2>1. after = set_attribute_ns(attrs, a.uri, a.local_name, a.qualified_name, a.value)
    BY DEF attrs
  <2>2. after \in Seq(S) /\ AreDistinct(after) /\ Named(after) = Named(attrs) \cup {<<a.uri, a.local_name>>}
    BY <1>2, <1>3, <1>4, <2>1, AttributesAreAMap
  <2>3. \E k : IsSetAt(k, a, attrs, after)
    BY <1>2, <1>3, <1>4, <2>1, SetFacts
  <2> QED BY <2>2, <2>3 DEF ExpandedName
<1>6. after \in Seq(Range(after)) /\ \A b \in Range(after) : IsAttribute(b)
  <2>1. \A k \in DOMAIN after : after[k] \in S
    BY <1>5, ElementOfSeq, LenProperties
  <2>2. \A b \in S : IsAttribute(b)
    BY <1>2
  <2> HIDE DEF S
  <2> QED BY <1>5, <2>1, <2>2, SeqOfItsRange DEF Range
<1>7. /\ el = [kind |-> "Element", depth |-> el.depth, uri |-> el.uri,
               local_name |-> el.local_name, qualified_name |-> el.qualified_name,
               attributes |-> el.attributes]
      /\ el.attributes = after /\ IsDocumentElement(el) /\ IsName(el.qualified_name)
  <2>1. d[i] = [kind |-> "Element", depth |-> d[i].depth, uri |-> d[i].uri,
                local_name |-> d[i].local_name, qualified_name |-> d[i].qualified_name,
                attributes |-> d[i].attributes]
    BY <1>1 DEF IsElement
  <2>2. d[i].depth = 0 /\ IsName(d[i].qualified_name)
    BY <1>1 DEF IsDocumentElement, IsElement
  <2>3. el = [kind |-> "Element", depth |-> 0, uri |-> d[i].uri,
              local_name |-> d[i].local_name, qualified_name |-> d[i].qualified_name,
              attributes |-> after]
    BY <2>1, <2>2
  <2> HIDE DEF el
  <2> QED BY <2>2, <2>3 DEF IsDocumentElement
<1>8. e = [k \in DOMAIN d |-> IF k = i THEN el ELSE d[k]]
  BY <1>1
<1> HIDE DEF el, e
<1>9. /\ DOMAIN e = DOMAIN d /\ e[i] = el /\ e = [k \in DOMAIN e |-> e[k]]
      /\ \A k \in DOMAIN d : k # i => e[k] = d[k]
  BY <1>1, <1>8
<1>10. IsElement(el)
  BY <1>5, <1>6, <1>7 DEF IsElement
<1>11. \A j \in DOMAIN e : IsDocumentElement(e[j]) => j = i
  BY <1>1, <1>9
<1>12. DOMAIN now = Named(after)
  BY <1>1, <1>5 DEF WithSet
<1>13. ASSUME NEW k \in DOMAIN after PROVE now[ExpandedName(after[k])] = after[k].value
  <2>1. PICK p : IsSetAt(p, a, attrs, after)
    BY <1>5
  <2>2. CASE k = p
    <3>1. after[k] = a
      BY <2>1, <2>2 DEF IsSetAt
    <3> QED BY <3>1 DEF WithSet
  <2>3. CASE k # p
    <3>1. k \in DOMAIN attrs /\ after[k] = attrs[k] /\ ExpandedName(attrs[k]) # n
      BY <2>1, <2>3 DEF IsSetAt
    <3>2. ExpandedName(attrs[k]) \in DOMAIN values
      BY <1>1, <3>1 DEF Named
    <3> HIDE DEF attrs
    <3>3. now[ExpandedName(attrs[k])] = values[ExpandedName(attrs[k])]
      BY <3>1, <3>2 DEF WithSet
    <3> QED BY <1>1, <3>1, <3>3
  <2> QED BY <2>2, <2>3
<1> HIDE DEF now
<1>14. SetInv(e, i, now)
  BY <1>1, <1>7, <1>9, <1>10, <1>11, <1>12, <1>13 DEF SetInv
<1> QED BY <1>14 DEF e, now, n

\* Only the settings change the attributes.
LEMMA NextWrittenInv ==
    ASSUME WrittenInv, [Next]_vars
    PROVE  WrittenInv'
<1> DEFINE i == document_element
<1>1. SetInv(nodes, i, written)
  BY DEF WrittenInv
<1>2. CASE \E a \in Settings : edit(a)
  <2>1. PICK a \in Settings : edit(a)
    BY <1>2
  <2>2. IsAttribute(a)
    BY <2>1, DocumentsAssumption
  <2> DEFINE after == set_attribute_ns(nodes[i].attributes, a.uri, a.local_name,
                                       a.qualified_name, a.value)
  <2>3. /\ nodes' = [nodes EXCEPT ![i].attributes = after]
        /\ written' = WithSet(written, a)
    <3>1. a.uri = "" /\ a.local_name = a.qualified_name =>
              set_attribute(nodes[i].attributes, a.qualified_name, a.value) = after
      BY DEF set_attribute
    <3>2. written' = WithSet(written, a)
      BY <2>1 DEF edit, WithSet
    <3>3. CASE nodes' = [nodes EXCEPT ![i].attributes =
                            set_attribute_ns(@, a.uri, a.local_name, a.qualified_name, a.value)]
      BY <3>2, <3>3
    <3>4. CASE /\ a.uri = "" /\ a.local_name = a.qualified_name
               /\ nodes' = [nodes EXCEPT ![i].attributes = set_attribute(@, a.qualified_name, a.value)]
      BY <3>1, <3>2, <3>4
    <3> QED BY <2>1, <3>3, <3>4 DEF edit
  <2> HIDE DEF after, i
  <2>4. SetInv(nodes', i, written')
    BY <1>1, <2>2, <2>3, SetKeepsInv DEF after
  <2>5. document_element' = i
    <3>1. /\ i \in DOMAIN nodes' /\ IsDocumentElement(nodes'[i])
          /\ \A j \in DOMAIN nodes' : IsDocumentElement(nodes'[j]) => j = i
      BY <2>4 DEF SetInv
    <3>2. (CHOOSE j \in DOMAIN nodes' : IsDocumentElement(nodes'[j])) = i
      BY <3>1, TheDocumentElement
    <3> QED BY <3>2 DEF document_element
  <2> QED BY <2>4, <2>5 DEF WrittenInv
<1>3. CASE UNCHANGED <<nodes, written>>
  BY <1>3 DEF WrittenInv, document_element
<1>4. begin \/ serialize_element \/ serialize_leaf \/ serialize_end_tag \/ serialize_returns
         \/ stream_fails \/ UNCHANGED vars => UNCHANGED <<nodes, written>>
  BY DEF begin, serialize_element, serialize_leaf, serialize_end_tag, serialize_returns,
         stream_fails, vars
<1> QED BY <1>2, <1>3, <1>4 DEF Next

\* At all times before and while it is written, the document element's
\* attributes read as a map of the values last set.
THEOREM AlwaysReadsTheLastWrite == Spec => []ReadsTheLastWrite
<1> QED BY InitWrittenInv, NextWrittenInv, ReadsWhatIsWritten, PTL DEF Spec

-----------------------------------------------------------------------------
(* What is written reads back.  First characters: what the serializer       *)
(* writes for one, the reader takes for it.                                 *)

\* A sequence of the values it has can be extended by any value.
LEMMA SequencesGrow ==
    ASSUME NEW s, s \in Seq(Range(s)), NEW x
    PROVE  /\ Append(s, x) \in Seq(Range(Append(s, x)))
           /\ Len(s) \in Nat /\ Len(Append(s, x)) = Len(s) + 1
           /\ Append(s, x)[Len(s) + 1] = x
           /\ \A i \in 1..Len(s) : Append(s, x)[i] = s[i]
<1> DEFINE T == Range(s) \cup {x}
<1>1. s \in Seq(T) /\ x \in T
  BY SeqOfMore
<1>2. Len(s) \in Nat
  BY LenProperties
<1> HIDE DEF T
<1>3. /\ Append(s, x) \in Seq(T) /\ Len(Append(s, x)) = Len(s) + 1
      /\ Append(s, x)[Len(s) + 1] = x
      /\ \A i \in 1..Len(s) : Append(s, x)[i] = s[i]
  BY <1>1, PushFacts
<1> QED BY <1>2, <1>3, SeqOfItsRange

\* Characters, one by one replaced, are as many.
LEMMA CharactersReplaced ==
    ASSUME NEW t, t \in Seq(Range(t)), NEW u, u = [i \in DOMAIN t |-> u[i]]
    PROVE  u \in Seq(Range(u)) /\ DOMAIN u = DOMAIN t /\ Len(u) = Len(t) /\ (u = <<>> <=> t = <<>>)
<1>1. Len(t) \in Nat /\ DOMAIN t = 1..Len(t)
  BY LenProperties
<1>2. DOMAIN u = 1..Len(t)
  BY <1>1
<1>3. u \in Seq(Range(u))
  <2>1. \A i \in 1..Len(t) : u[i] \in Range(u)
    BY <1>2 DEF Range
  <2>2. u \in [1..Len(t) -> Range(u)]
    BY <1>1, <2>1
  <2> QED BY <1>1, <2>2, SeqDef
<1>4. Len(u) = Len(t)
  BY <1>1, <1>2, <1>3, LenProperties
<1>5. u = <<>> <=> Len(u) = 0
  BY <1>3, EmptySeq
<1>6. t = <<>> <=> Len(t) = 0
  BY EmptySeq
<1> QED BY <1>1, <1>2, <1>3, <1>4, <1>5, <1>6

\* The text of a node reads back.
LEMMA TextSurvives ==
    ASSUME NEW t, IsText(t)
    PROVE  /\ ~Holds(escape_text(t), {"<", "&"})
           /\ unescaped(escape_text(t)) = t
           /\ escape_text(t) = <<>> <=> t = <<>>
           /\ unescaped(escape_text(t)) \in Seq(Range(t))
<1> DEFINE u == escape_text(t)
           c(i) == CASE t[i] = "&" -> "&amp;" [] t[i] = "<" -> "&lt;" [] t[i] = ">" -> "&gt;"
                     [] OTHER -> t[i]
<1>1. t \in Seq(Range(t)) /\ t = [i \in DOMAIN t |-> t[i]]
  BY LenProperties DEF IsText
<1>2. \A i \in DOMAIN t : t[i] \notin {"&amp;", "&lt;", "&gt;", "&quot;"}
  BY DEF IsText, Range
<1>3. u = [i \in DOMAIN t |-> c(i)]
  BY DEF escape_text
<1>4. \A i \in DOMAIN t : u[i] = c(i)
  BY <1>3
<1>5. u = [i \in DOMAIN t |-> u[i]] /\ DOMAIN u = DOMAIN t
  BY <1>3
<1> HIDE DEF u
<1>6. \A i \in DOMAIN t : u[i] \notin {"<", "&"}
  BY <1>4
<1>7. ~Holds(u, {"<", "&"})
  BY <1>5, <1>6 DEF Holds
<1>8. ASSUME NEW i \in DOMAIN t
      PROVE  (CASE u[i] = "&amp;" -> "&" [] u[i] = "&lt;" -> "<" [] u[i] = "&gt;" -> ">"
                [] u[i] = "&quot;" -> "quote" [] OTHER -> u[i]) = t[i]
  BY <1>2, <1>4
<1>9. unescaped(u) = [i \in DOMAIN t |-> t[i]]
  BY <1>5, <1>8 DEF unescaped
<1> QED BY <1>1, <1>5, <1>7, <1>9, CharactersReplaced DEF u

\* The value of an attribute reads back.
LEMMA ValueSurvives ==
    ASSUME NEW t, IsText(t)
    PROVE  /\ ~Holds(escape_attribute(t), {"<", "&", "quote"})
           /\ unescaped(escape_attribute(t)) = t
<1> DEFINE u == escape_attribute(t)
           c(i) == CASE t[i] = "&" -> "&amp;" [] t[i] = "<" -> "&lt;" [] t[i] = "quote" -> "&quot;"
                     [] OTHER -> t[i]
<1>1. t = [i \in DOMAIN t |-> t[i]]
  BY LenProperties DEF IsText
<1>2. \A i \in DOMAIN t : t[i] \notin {"&amp;", "&lt;", "&gt;", "&quot;"}
  BY DEF IsText, Range
<1>3. u = [i \in DOMAIN t |-> c(i)]
  BY DEF escape_attribute
<1>4. (\A i \in DOMAIN t : u[i] = c(i)) /\ DOMAIN u = DOMAIN t
  BY <1>3
<1> HIDE DEF u
<1>5. \A i \in DOMAIN t : u[i] \notin {"<", "&", "quote"}
  BY <1>4
<1>6. ~Holds(u, {"<", "&", "quote"})
  BY <1>4, <1>5 DEF Holds
<1>7. ASSUME NEW i \in DOMAIN t
      PROVE  (CASE u[i] = "&amp;" -> "&" [] u[i] = "&lt;" -> "<" [] u[i] = "&gt;" -> ">"
                [] u[i] = "&quot;" -> "quote" [] OTHER -> u[i]) = t[i]
  BY <1>2, <1>4
<1>8. unescaped(u) = [i \in DOMAIN t |-> t[i]]
  BY <1>4, <1>7 DEF unescaped
<1> QED BY <1>1, <1>6, <1>8 DEF u

-----------------------------------------------------------------------------
(* The declarations made up for an element.                                 *)

\* The declaration for the element's own prefix, if it has a namespace; and
\* those for the prefixes of its attributes.
Own(e) == IF e.uri = "" THEN {} ELSE {Xmlns(prefix_of(e.qualified_name), e.uri)}

DeclarationFor(e, i) ==
    XmlnsOfAttribute(prefix_of(e.attributes[i].qualified_name), e.attributes[i].uri)

Declarers(e) == {i \in DOMAIN e.attributes : Declares(e, i)}

Declared(e) == Own(e) \cup {DeclarationFor(e, i) : i \in Declarers(e)}

\* An element or one of its attributes has prefix p, and u for its namespace.
Uses(e, p, u) ==
    /\ u # ""
    /\ \/ e.uri = u /\ prefix_of(e.qualified_name) = p
       \/ \E i \in DOMAIN e.attributes : /\ e.attributes[i].uri = u
                                         /\ prefix_of(e.attributes[i].qualified_name) = p

\* A declaration declares the prefix it is made for.
LEMMA XmlnsFacts ==
    ASSUME NEW p, NEW u, NEW x, x \in {Xmlns(p, u), XmlnsOfAttribute(p, u)}
    PROVE  /\ DeclaredPrefix(x.name) = p
           /\ x.value = u
           /\ is_namespace_declaration(x.name, "Enabled")
<1>1. /\ Plain("xmlns").prefix = "" /\ Prefixed("xmlns", p).prefix = "xmlns"
      /\ Prefixed("xmlns", p).local = p
  BY DEF Plain, Prefixed
<1>2. CASE x = Xmlns(p, u)
  BY <1>1, <1>2 DEF Xmlns, DeclaredPrefix, is_namespace_declaration
<1>3. CASE x = XmlnsOfAttribute(p, u)
  BY <1>1, <1>3 DEF XmlnsOfAttribute, DeclaredPrefix, is_namespace_declaration
<1> QED BY <1>2, <1>3

\* Attributes that declare something declare different prefixes, none of them
\* the element's own.
LEMMA DeclaringAreApart ==
    ASSUME NEW e, IsElement(e), NEW i \in Declarers(e)
    PROVE  /\ \A j \in Declarers(e) :
                 prefix_of(e.attributes[i].qualified_name)
                     = prefix_of(e.attributes[j].qualified_name)
                 => i = j
           /\ e.uri # "" => prefix_of(e.attributes[i].qualified_name) # prefix_of(e.qualified_name)
<1> DEFINE P(k) == prefix_of(e.attributes[k].qualified_name)
<1>1. DOMAIN e.attributes = 1..Len(e.attributes) /\ Len(e.attributes) \in Nat
  BY LenProperties DEF IsElement
<1>2. \A k \in Declarers(e) :
          /\ k \in DOMAIN e.attributes /\ e.attributes[k].uri # ""
          /\ \A j \in 1..(k - 1) : e.attributes[j].uri # "" => P(j) # P(k)
          /\ e.uri # "" => P(k) # prefix_of(e.qualified_name)
  BY DEF Declarers, Declares
<1> HIDE DEF P
<1>3. ASSUME NEW j \in Declarers(e), P(i) = P(j)
      PROVE  i = j
  <2> DEFINE n == Len(e.attributes)
  <2>3. i \in 1..n /\ j \in 1..n /\ n \in Nat
    BY <1>1, <1>2
  <2> HIDE DEF n
  <2>1. i \in Nat /\ j \in Nat /\ i >= 1 /\ j >= 1
    BY <2>3
  <2>2. ~(i < j) /\ ~(j < i)
    <3>1. i < j => i \in 1..(j - 1)
      BY <2>1
    <3>2. j < i => j \in 1..(i - 1)
      BY <2>1
    <3> QED BY <1>2, <1>3, <3>1, <3>2
  <2> QED BY <2>1, <2>2
<1> QED BY <1>2, <1>3 DEF P

\* A prefix is declared once.
LEMMA DeclaredOnce ==
    ASSUME NEW e, IsElement(e), NEW x \in Declared(e), NEW y \in Declared(e),
           DeclaredPrefix(x.name) = DeclaredPrefix(y.name)
    PROVE  x = y
<1> DEFINE P(k) == prefix_of(e.attributes[k].qualified_name)
<1>1. ASSUME NEW z \in Declared(e)
      PROVE  \/ /\ e.uri # "" /\ z = Xmlns(prefix_of(e.qualified_name), e.uri)
                /\ DeclaredPrefix(z.name) = prefix_of(e.qualified_name)
             \/ \E i \in Declarers(e) :
                   z = DeclarationFor(e, i) /\ DeclaredPrefix(z.name) = P(i)
  <2>1. CASE z \in Own(e)
    <3>1. e.uri # "" /\ z = Xmlns(prefix_of(e.qualified_name), e.uri)
      BY <2>1 DEF Own
    <3> QED BY <3>1, XmlnsFacts
  <2>2. CASE \E i \in Declarers(e) : z = DeclarationFor(e, i)
    <3>1. PICK i \in Declarers(e) : z = DeclarationFor(e, i)
      BY <2>2
    <3>2. z = XmlnsOfAttribute(P(i), e.attributes[i].uri)
      BY <3>1 DEF DeclarationFor
    <3>3. DeclaredPrefix(z.name) = P(i)
      BY <3>2, XmlnsFacts
    <3> QED BY <3>1, <3>3
  <2> QED BY <2>1, <2>2 DEF Declared
<1>2. \A i, j \in Declarers(e) :
          /\ P(i) = P(j) => i = j
          /\ e.uri # "" => P(i) # prefix_of(e.qualified_name)
  BY DeclaringAreApart
<1> HIDE DEF P
<1> QED BY <1>1, <1>2

\* They are all there, once each.
LEMMA DeclarationsFacts ==
    ASSUME NEW e, IsElement(e)
    PROVE  /\ Declarations(e) \in Seq(Declared(e))
           /\ Range(Declarations(e)) = Declared(e)
           /\ IsInjective(Declarations(e))
<1> DEFINE T == Declared(e)
           own == IF e.uri = "" THEN <<>> ELSE <<Xmlns(prefix_of(e.qualified_name), e.uri)>>
           ss == [i \in DOMAIN e.attributes |->
                     IF Declares(e, i) THEN <<DeclarationFor(e, i)>> ELSE <<>>]
           n == Len(e.attributes)
<1>1. DOMAIN e.attributes = 1..n /\ n \in Nat
  BY LenProperties DEF IsElement
<1>2. Declarations(e) = own \o FlattenSeq(ss)
  BY DEF Declarations, DeclarationFor
<1>3. own \in Seq(T) /\ Range(own) = Own(e) /\ IsInjective(own)
  <2>1. CASE e.uri = ""
    BY <2>1, EmptyFacts DEF Own
  <2>2. CASE e.uri # ""
    <3> DEFINE x == Xmlns(prefix_of(e.qualified_name), e.uri)
    <3>1. own = <<x>> /\ Own(e) = {x} /\ x \in T
      BY <2>2 DEF Own, Declared
    <3> HIDE DEF x, own, T
    <3> QED BY <3>1 DEF Range, IsInjective
  <2> QED BY <2>1, <2>2
<1>4. \A i \in 1..n : ss[i] = IF Declares(e, i) THEN <<DeclarationFor(e, i)>> ELSE <<>>
  BY <1>1
<1>5. ASSUME NEW i \in 1..n
      PROVE  /\ ss[i] \in Seq(T) /\ IsInjective(ss[i])
             /\ Range(ss[i]) = IF Declares(e, i) THEN {DeclarationFor(e, i)} ELSE {}
  <2>1. CASE ~Declares(e, i)
    BY <1>4, <2>1, EmptyFacts
  <2>2. CASE Declares(e, i)
    <3> DEFINE x == DeclarationFor(e, i)
    <3>1. ss[i] = <<x>>
      BY <1>4, <2>2
    <3>2. x \in T
      BY <1>1, <2>2 DEF Declared, Declarers
    <3> HIDE DEF x, ss, T
    <3>3. ss[i] \in Seq(T) /\ IsInjective(ss[i]) /\ Range(ss[i]) = {x}
      BY <3>1, <3>2 DEF Range, IsInjective
    <3> QED BY <2>2, <3>3 DEF x
  <2> QED BY <2>1, <2>2
<1>6. ss \in Seq(Seq(T)) /\ Len(ss) = n
  <2>1. ss = [i \in 1..n |-> ss[i]]
    BY <1>1
  <2> HIDE DEF ss, T
  <2>2. ss \in [1..n -> Seq(T)] /\ DOMAIN ss = 1..n
    BY <1>5, <2>1
  <2>3. ss \in Seq(Seq(T))
    BY <1>1, <2>2, SeqDef
  <2> QED BY <1>1, <2>2, <2>3, LenProperties
<1> DEFINE more == FlattenSeq(ss)
<1>7. \A i \in 1..n : Declares(e, i) <=> i \in Declarers(e)
  BY <1>1 DEF Declarers
<1>8. \A i \in Declarers(e) : i \in 1..n
  BY <1>1 DEF Declarers
<1>9. AreApart(ss, n)
  <2>1. ASSUME NEW i \in 1..n, NEW j \in 1..n, i # j, NEW x, x \in Range(ss[i]), x \in Range(ss[j])
        PROVE  FALSE
    <3> HIDE DEF ss, T, n
    <3>1. \A k \in 1..n : x \in Range(ss[k]) => k \in Declarers(e) /\ x = DeclarationFor(e, k)
      BY <1>5, <1>7
    <3>3. /\ i \in Declarers(e) /\ x = DeclarationFor(e, i)
          /\ j \in Declarers(e) /\ x = DeclarationFor(e, j)
      BY <2>1, <3>1
    <3>2. /\ DeclaredPrefix(x.name) = prefix_of(e.attributes[i].qualified_name)
          /\ DeclaredPrefix(x.name) = prefix_of(e.attributes[j].qualified_name)
      BY <3>3, XmlnsFacts DEF DeclarationFor
    <3> QED BY <2>1, <3>2, <3>3, DeclaringAreApart
  <2> HIDE DEF ss
  <2> QED BY <1>5, <2>1 DEF AreApart
<1> HIDE DEF T, own, ss, n
<1>10. more \in Seq(T) /\ Joins(more, ss, n)
  BY <1>6, FlattenFacts
<1>11. /\ IsInjective(more)
       /\ \A x : x \in Range(more) <=> \E i \in 1..n : x \in Range(ss[i])
  BY <1>9, <1>10 DEF Joins
<1>12. Range(more) = {DeclarationFor(e, i) : i \in Declarers(e)}
  <2>1. \A x \in Range(more) : x \in {DeclarationFor(e, i) : i \in Declarers(e)}
    BY <1>5, <1>7, <1>11
  <2>2. \A i \in Declarers(e) : DeclarationFor(e, i) \in Range(more)
    BY <1>5, <1>7, <1>8, <1>11
  <2> QED BY <2>1, <2>2
<1>13. Range(own) \cap Range(more) = {}
  <2>1. ASSUME NEW x, x \in Own(e), NEW i \in Declarers(e), x = DeclarationFor(e, i)
        PROVE  FALSE
    <3>1. e.uri # "" /\ x = Xmlns(prefix_of(e.qualified_name), e.uri)
      BY <2>1 DEF Own
    <3>2. DeclaredPrefix(x.name) = prefix_of(e.qualified_name)
      BY <3>1, XmlnsFacts
    <3>3. DeclaredPrefix(x.name) = prefix_of(e.attributes[i].qualified_name)
      BY <2>1, XmlnsFacts DEF DeclarationFor
    <3> QED BY <2>1, <3>1, <3>2, <3>3, DeclaringAreApart
  <2> QED BY <1>3, <1>12, <2>1
<1> HIDE DEF more
<1>14. /\ own \o more \in Seq(T)
       /\ Range(own \o more) = Range(own) \cup Range(more)
       /\ IsInjective(own \o more)
  BY <1>3, <1>10, <1>11, <1>13, ConcatFacts
<1>15. Declarations(e) = own \o more
  BY <1>2 DEF more
<1> QED BY <1>3, <1>12, <1>14, <1>15 DEF Declared, T

\* What is declared is used.
LEMMA DeclaredIsUsed ==
    ASSUME NEW e, NEW x \in Declared(e)
    PROVE  /\ Uses(e, DeclaredPrefix(x.name), x.value)
           /\ is_namespace_declaration(x.name, "Enabled")
<1>1. CASE x \in Own(e)
  <2>1. e.uri # "" /\ x = Xmlns(prefix_of(e.qualified_name), e.uri)
    BY <1>1 DEF Own
  <2>2. /\ DeclaredPrefix(x.name) = prefix_of(e.qualified_name) /\ x.value = e.uri
        /\ is_namespace_declaration(x.name, "Enabled")
    BY <2>1, XmlnsFacts
  <2> QED BY <2>1, <2>2 DEF Uses
<1>2. CASE \E i \in Declarers(e) : x = DeclarationFor(e, i)
  <2>1. PICK i \in Declarers(e) : x = DeclarationFor(e, i)
    BY <1>2
  <2>2. i \in DOMAIN e.attributes /\ e.attributes[i].uri # ""
    BY <2>1 DEF Declarers, Declares
  <2>3. /\ DeclaredPrefix(x.name) = prefix_of(e.attributes[i].qualified_name)
        /\ x.value = e.attributes[i].uri
        /\ is_namespace_declaration(x.name, "Enabled")
    BY <2>1, XmlnsFacts DEF DeclarationFor
  <2> QED BY <2>2, <2>3 DEF Uses
<1> QED BY <1>1, <1>2 DEF Declared

\* What is used is declared.
LEMMA UsedIsDeclared ==
    ASSUME NEW e, IsElement(e), NEW p, NEW u, Uses(e, p, u)
    PROVE  \E x \in Declared(e) : DeclaredPrefix(x.name) = p
<1> DEFINE P(k) == prefix_of(e.attributes[k].qualified_name)
           n == Len(e.attributes)
           K == {k \in 1..n : e.attributes[k].uri # "" /\ P(k) = p}
<1>1. DOMAIN e.attributes = 1..n /\ n \in Nat
  BY LenProperties DEF IsElement
<1>2. CASE e.uri # "" /\ prefix_of(e.qualified_name) = p
  <2>1. Xmlns(p, e.uri) \in Declared(e)
    BY <1>2 DEF Declared, Own
  <2>2. DeclaredPrefix(Xmlns(p, e.uri).name) = p
    BY XmlnsFacts
  <2> QED BY <2>1, <2>2
<1>3. CASE ~(e.uri # "" /\ prefix_of(e.qualified_name) = p)
  <2>1. K # {}
    <3>1. PICK i \in DOMAIN e.attributes : e.attributes[i].uri = u /\ P(i) = p
      BY <1>3 DEF Uses
    <3>2. i \in 1..n /\ e.attributes[i].uri # ""
      BY <1>1, <3>1 DEF Uses
    <3>3. i \in K
      BY <3>1, <3>2
    <3> QED BY <3>3
  <2>2. K \subseteq Nat
    <3>1. \A k \in 1..n : k \in Nat
      BY <1>1
    <3> QED BY <3>1
  <2>3. PICK k \in K : \A j \in K : k <= j
    <3> HIDE DEF K
    <3> QED BY <2>1, <2>2, LeastExists
  <2>4. k \in 1..n /\ e.attributes[k].uri # "" /\ P(k) = p
    BY <2>3
  <2>5. ASSUME NEW j \in 1..(k - 1), e.attributes[j].uri # ""
        PROVE  P(j) # P(k)
    <3>1. j \in 1..n /\ ~(k <= j)
      <4>1. k \in 1..n /\ n \in Nat
        BY <1>1, <2>4
      <4> HIDE DEF n, K, P
      <4> QED BY <4>1
    <3> QED BY <2>3, <2>4, <2>5, <3>1
  <2>6. e.uri # "" => P(k) # prefix_of(e.qualified_name)
    BY <1>3, <2>4
  <2>7. k \in Declarers(e)
    BY <1>1, <2>4, <2>5, <2>6 DEF Declarers, Declares
  <2>8. DeclarationFor(e, k) \in Declared(e)
    BY <2>7 DEF Declared
  <2>9. DeclaredPrefix(DeclarationFor(e, k).name) = p
    BY <2>4, XmlnsFacts DEF DeclarationFor
  <2> QED BY <2>8, <2>9
<1> QED BY <1>2, <1>3

\* The attributes of the tag that is written for e: m declarations, and then
\* those of e.
IsWrittenFor(tag, m, e) ==
    /\ m \in Nat /\ tag \in Seq(Range(tag)) /\ Len(tag) = m + Len(e.attributes)
    /\ \A k \in 1..m : tag[k] \in Declared(e)
    /\ \A k, l \in 1..m : tag[k] = tag[l] => k = l
    /\ \A x \in Declared(e) : \E k \in 1..m : tag[k] = x
    /\ \A i \in DOMAIN e.attributes :
          /\ tag[m + i].name = e.attributes[i].qualified_name
          /\ tag[m + i].value = escape_attribute(e.attributes[i].value)

\* The tag of an element is so written: FlattenSeq leaves each declaration once.
LEMMA TagFacts ==
    ASSUME NEW e, IsElement(e)
    PROVE  IsWrittenFor(Tag(e).attributes, Len(Declarations(e)), e)
<1> DEFINE d == Declarations(e)
           w == [i \in DOMAIN e.attributes |-> [name  |-> e.attributes[i].qualified_name,
                                               value |-> escape_attribute(e.attributes[i].value)]]
           T == Declared(e) \cup Range(w)
           m == Len(d)
           n == Len(e.attributes)
           tag == Tag(e).attributes
<1>1. DOMAIN e.attributes = 1..n /\ n \in Nat
  BY LenProperties DEF IsElement
<1>2. tag = d \o w
  BY DEF Tag
<1>3. d \in Seq(Declared(e)) /\ Range(d) = Declared(e) /\ IsInjective(d)
  BY DeclarationsFacts
<1>4. /\ \A i \in 1..n : /\ w[i].name = e.attributes[i].qualified_name
                         /\ w[i].value = escape_attribute(e.attributes[i].value)
      /\ DOMAIN w = 1..n
      /\ w = [i \in 1..n |-> w[i]]
  BY <1>1
<1> HIDE DEF d, w, tag, n
<1>5. w \in Seq(Range(w))
  <2>1. \A i \in 1..n : w[i] \in Range(w)
    BY <1>4 DEF Range
  <2>2. w \in [1..n -> Range(w)]
    BY <1>4, <2>1
  <2> QED BY <1>1, <2>2, SeqDef
<1>6. d \in Seq(T) /\ w \in Seq(T)
  <2>1. Declared(e) \subseteq T /\ Range(w) \subseteq T
    OBVIOUS
  <2> HIDE DEF T
  <2> QED BY <1>3, <1>5, <2>1, SeqOfMore
<1>7. Len(w) = n /\ m \in Nat /\ DOMAIN d = 1..m
  BY <1>1, <1>3, <1>4, <1>5, LenProperties
<1> HIDE DEF T
<1>8. /\ tag \in Seq(T) /\ Len(tag) = m + n
      /\ \A i \in 1..(m + n) : tag[i] = IF i <= m THEN d[i] ELSE w[i - m]
  BY <1>2, <1>6, <1>7, ConcatProperties
<1>9. tag \in Seq(Range(tag))
  BY <1>8, SeqOfItsRange
<1> HIDE DEF m
<1>10. \A k \in 1..m : tag[k] = d[k]
  <2> TAKE k \in 1..m
  <2>1. k \in 1..(m + n) /\ k <= m
    BY <1>1, <1>7
  <2> QED BY <1>8, <2>1
<1>11. \A i \in 1..n : tag[m + i] = w[i]
  <2> TAKE i \in 1..n
  <2>1. m + i \in 1..(m + n) /\ ~(m + i <= m) /\ (m + i) - m = i
    BY <1>1, <1>7
  <2> QED BY <1>8, <2>1
<1>12. \A k \in 1..m : d[k] \in Declared(e)
  BY <1>3, <1>7 DEF Range
<1>13. \A k, l \in 1..m : d[k] = d[l] => k = l
  BY <1>3, <1>7 DEF IsInjective
<1>14. \A x \in Declared(e) : \E k \in 1..m : d[k] = x
  BY <1>3, <1>7 DEF Range
<1>15. \A i \in 1..n : /\ tag[m + i].name = e.attributes[i].qualified_name
                       /\ tag[m + i].value = escape_attribute(e.attributes[i].value)
  BY <1>4, <1>11
<1>16. \A k \in 1..m : tag[k] \in Declared(e)
  BY <1>10, <1>12
<1>17. \A k, l \in 1..m : tag[k] = tag[l] => k = l
  BY <1>10, <1>13
<1>18. \A x \in Declared(e) : \E k \in 1..m : tag[k] = x
  BY <1>10, <1>14
<1>19. Len(tag) = m + Len(e.attributes) /\ m \in Nat
  BY <1>7, <1>8 DEF n
<1>20. IsWrittenFor(tag, m, e)
  BY <1>1, <1>9, <1>15, <1>16, <1>17, <1>18, <1>19 DEF IsWrittenFor
<1> QED BY <1>20 DEF tag, m, d

-----------------------------------------------------------------------------
(* What the reader makes of a tag.                                          *)

\* None of the attributes of e is a declaration.
Undeclaring(e) ==
    \A i \in DOMAIN e.attributes :
        ~is_namespace_declaration(e.attributes[i].qualified_name, "Enabled")

\* What the reader collects from the tag of e.
ScopeOf(e) == collect_namespace_declarations(Tag(e).attributes, "Enabled")

\* What is written for e is a declaration, or one of its attributes.
LEMMA EitherPart ==
    ASSUME NEW e, IsElement(e), NEW tag, NEW m, IsWrittenFor(tag, m, e), NEW k \in DOMAIN tag
    PROVE  \/ k \in 1..m
           \/ \E i \in DOMAIN e.attributes : k = m + i
<1> DEFINE n == Len(e.attributes)
<1>1. DOMAIN e.attributes = 1..n /\ n \in Nat
  BY LenProperties DEF IsElement
<1>2. m \in Nat /\ tag \in Seq(Range(tag)) /\ Len(tag) = m + n
  BY DEF IsWrittenFor
<1> HIDE DEF n
<1>3. DOMAIN tag = 1..(m + n)
  BY <1>2, LenProperties
<1>4. k \in 1..m \/ (k - m \in 1..n /\ k = m + (k - m))
  BY <1>1, <1>2, <1>3
<1> QED BY <1>1, <1>4

\* The scope of an element that has no declarations of its own has the
\* prefixes it uses, each for a namespace it is used with.
LEMMA ScopeFacts ==
    ASSUME NEW e, IsElement(e), Undeclaring(e), NEW p
    PROVE  /\ \A u : Uses(e, p, u) => p \in DOMAIN ScopeOf(e)
           /\ p \in DOMAIN ScopeOf(e) => Uses(e, p, ScopeOf(e)[p])
<1> DEFINE tag == Tag(e).attributes
           m == Len(Declarations(e))
           D(q) == DeclarationsOf(tag, q, "Enabled")
           prefixes == {q \in {DeclaredPrefix(tag[i].name) : i \in DOMAIN tag} : D(q) # {}}
           scope == ScopeOf(e)
<1>1. IsWrittenFor(tag, m, e)
  BY TagFacts
<1>2. scope = [q \in prefixes |-> tag[Innermost(D(q))].value]
  BY DEF ScopeOf, collect_namespace_declarations, Innermost
<1>3. p \in prefixes <=> D(p) # {}
  BY DEF DeclarationsOf
<1>4. \A k : k \in D(p) <=> /\ k \in DOMAIN tag
                            /\ is_namespace_declaration(tag[k].name, "Enabled")
                            /\ DeclaredPrefix(tag[k].name) = p
  BY DEF DeclarationsOf
<1> HIDE DEF prefixes, D, scope, tag, m
<1>5. DOMAIN scope = prefixes /\ (p \in prefixes => scope[p] = tag[Innermost(D(p))].value)
  BY <1>2
<1>6. /\ m \in Nat /\ Len(tag) \in Nat /\ m <= Len(tag) /\ DOMAIN tag = 1..Len(tag)
  <2>1. Len(e.attributes) \in Nat
    BY LenProperties DEF IsElement
  <2>2. tag \in Seq(Range(tag)) /\ m \in Nat /\ Len(tag) = m + Len(e.attributes)
    BY <1>1 DEF IsWrittenFor
  <2> QED BY <2>1, <2>2, LenProperties
<1>7. ASSUME NEW k \in D(p)
      PROVE  Uses(e, p, tag[k].value)
  <2>1. k \in DOMAIN tag /\ is_namespace_declaration(tag[k].name, "Enabled")
    BY <1>4
  <2>2. \A i \in DOMAIN e.attributes : k # m + i
    BY <1>1, <2>1 DEF IsWrittenFor, Undeclaring
  <2>3. k \in 1..m
    BY <1>1, <2>1, <2>2, EitherPart
  <2>4. tag[k] \in Declared(e)
    BY <1>1, <2>3 DEF IsWrittenFor
  <2> QED BY <1>4, <2>4, DeclaredIsUsed
<1>8. D(p) # {} => Innermost(D(p)) \in D(p)
  <2>1. D(p) \subseteq 1..Len(tag)
    BY <1>4, <1>6
  <2> QED BY <1>6, <2>1, GreatestFacts DEF Innermost
<1>9. ASSUME NEW u, Uses(e, p, u)
      PROVE  D(p) # {}
  <2>1. PICK x \in Declared(e) : DeclaredPrefix(x.name) = p
    BY <1>9, UsedIsDeclared
  <2>2. PICK k \in 1..m : tag[k] = x
    BY <1>1, <2>1 DEF IsWrittenFor
  <2>3. k \in DOMAIN tag
    BY <1>6
  <2>4. is_namespace_declaration(x.name, "Enabled")
    BY <2>1, DeclaredIsUsed
  <2> QED BY <1>4, <2>1, <2>2, <2>3, <2>4
<1>10. \A u : Uses(e, p, u) => p \in DOMAIN scope
  BY <1>3, <1>5, <1>9
<1>11. p \in DOMAIN scope => Uses(e, p, scope[p])
  BY <1>3, <1>5, <1>7, <1>8
<1> QED BY <1>10, <1>11 DEF scope

\* The attributes of a tag that are not declarations.
PlainOf(attrs) ==
    FlattenSeq([i \in DOMAIN attrs |->
        IF is_namespace_declaration(attrs[i].name, "Enabled") THEN <<>> ELSE <<attrs[i]>>])

\* They are the attributes of e, or less than those.
LEMMA PlainFacts ==
    ASSUME NEW e, IsElement(e), NEW plain, plain = PlainOf(Tag(e).attributes)
    PROVE  /\ DOMAIN plain = DOMAIN e.attributes => Undeclaring(e)
           /\ Undeclaring(e) =>
                 /\ DOMAIN plain = DOMAIN e.attributes
                 /\ \A i \in DOMAIN e.attributes :
                       /\ plain[i].name = e.attributes[i].qualified_name
                       /\ plain[i].value = escape_attribute(e.attributes[i].value)
<1> DEFINE tag == Tag(e).attributes
           m == Len(Declarations(e))
           n == Len(e.attributes)
           D == {i \in DOMAIN tag : is_namespace_declaration(tag[i].name, "Enabled")}
           S == Range(tag)
<1>1. DOMAIN e.attributes = 1..n /\ n \in Nat
  BY LenProperties DEF IsElement
<1>2. IsWrittenFor(tag, m, e)
  BY TagFacts
<1>3. plain = Without(tag, D)
  <2>1. [i \in DOMAIN tag |-> IF i \in D THEN <<>> ELSE <<tag[i]>>] =
           [i \in DOMAIN tag |->
              IF is_namespace_declaration(tag[i].name, "Enabled") THEN <<>> ELSE <<tag[i]>>]
    OBVIOUS
  <2> QED BY <2>1 DEF PlainOf, Without
<1>4. \A i \in DOMAIN tag : i \in D <=> is_namespace_declaration(tag[i].name, "Enabled")
  OBVIOUS
<1> HIDE DEF tag, m, n, D
<1>5. /\ tag \in Seq(S) /\ m \in Nat /\ Len(tag) = m + n
      /\ \A i \in 1..m : tag[i] \in Declared(e)
      /\ \A i \in 1..n : /\ tag[m + i].name = e.attributes[i].qualified_name
                         /\ tag[m + i].value = escape_attribute(e.attributes[i].value)
  BY <1>1, <1>2 DEF IsWrittenFor, n
<1>6. DOMAIN tag = 1..(m + n)
  BY <1>5, LenProperties
<1>7. \A i \in 1..m : i \in D
  <2> TAKE i \in 1..m
  <2>1. i \in DOMAIN tag
    BY <1>1, <1>5, <1>6
  <2> QED BY <1>4, <1>5, <2>1, DeclaredIsUsed
<1>8. m \in 0..Len(tag) /\ Len(tag) - m = n
  BY <1>1, <1>5
<1>9. /\ plain \in Seq(S)
      /\ Len(plain) = n <=> \A i \in (m + 1)..(m + n) : i \notin D
      /\ (\A i \in (m + 1)..(m + n) : i \notin D) => \A j \in 1..n : plain[j] = tag[m + j]
  <2>1. /\ plain \in Seq(S)
        /\ Len(plain) = Len(tag) - m <=> \A i \in (m + 1)..Len(tag) : i \notin D
        /\ (\A i \in (m + 1)..Len(tag) : i \notin D) =>
              \A j \in 1..(Len(tag) - m) : plain[j] = tag[m + j]
    <3> HIDE DEF S
    <3> QED BY <1>3, <1>5, <1>7, <1>8, WithoutFacts
  <2> QED BY <1>5, <1>8, <2>1
<1>10. (\A i \in (m + 1)..(m + n) : i \notin D) <=> Undeclaring(e)
  <2>1. \A i \in 1..n : m + i \in (m + 1)..(m + n) /\ m + i \in DOMAIN tag
    BY <1>1, <1>5, <1>6
  <2>2. \A i \in 1..n : m + i \in D <=>
            is_namespace_declaration(e.attributes[i].qualified_name, "Enabled")
    BY <1>4, <1>5, <2>1
  <2>3. \A k \in (m + 1)..(m + n) : k - m \in 1..n /\ m + (k - m) = k
    BY <1>1, <1>5
  <2>4. Undeclaring(e) <=> \A i \in 1..n : m + i \notin D
    BY <1>1, <2>2 DEF Undeclaring
  <2>5. ASSUME \A i \in 1..n : m + i \notin D, NEW k \in (m + 1)..(m + n)
        PROVE  k \notin D
    BY <2>3, <2>5
  <2>6. ASSUME \A i \in (m + 1)..(m + n) : i \notin D, NEW i \in 1..n
        PROVE  m + i \notin D
    BY <2>1, <2>6
  <2> QED BY <2>4, <2>5, <2>6
<1>11. Len(plain) = n <=> DOMAIN plain = 1..n
  BY <1>1, <1>9, LenProperties, LenFromDomain
<1>12. Undeclaring(e) => \A i \in 1..n :
           /\ plain[i].name = e.attributes[i].qualified_name
           /\ plain[i].value = escape_attribute(e.attributes[i].value)
  BY <1>5, <1>9, <1>10
<1> QED BY <1>1, <1>9, <1>10, <1>11, <1>12

\* A name is read as the one that was written.
ReadsAs(x, is_element, within) ==
    LET n == resolve_name(x.qualified_name, is_element, within, "Enabled")
    IN  /\ Resolvable(x.qualified_name, within, "Enabled")
        /\ n.uri = x.uri /\ n.local_name = x.local_name

\* No two attributes of e have one qualified name.
QualifiedNamesDiffer(e) ==
    \A i, j \in DOMAIN e.attributes :
        e.attributes[i].qualified_name = e.attributes[j].qualified_name => i = j

\* The names of the attributes of a tag differ if those of e do.
LEMMA NamesDiffer ==
    ASSUME NEW e, IsElement(e), Undeclaring(e), NEW tag, NEW m, IsWrittenFor(tag, m, e)
    PROVE  (\A i, j \in DOMAIN tag : tag[i].name = tag[j].name => i = j) <=> QualifiedNamesDiffer(e)
<1> DEFINE n == Len(e.attributes)
<1>1. DOMAIN e.attributes = 1..n /\ n \in Nat
  BY LenProperties DEF IsElement
<1>2. /\ m \in Nat /\ tag \in Seq(Range(tag)) /\ Len(tag) = m + n
      /\ \A k \in 1..m : tag[k] \in Declared(e)
      /\ \A k, l \in 1..m : tag[k] = tag[l] => k = l
      /\ \A i \in 1..n : tag[m + i].name = e.attributes[i].qualified_name
  BY <1>1 DEF IsWrittenFor
<1> HIDE DEF n
<1>3. DOMAIN tag = 1..(m + n)
  BY <1>2, LenProperties
<1>4. \A k \in 1..m : is_namespace_declaration(tag[k].name, "Enabled")
  BY <1>2, DeclaredIsUsed
<1>5. \A i \in 1..n : ~is_namespace_declaration(tag[m + i].name, "Enabled")
  BY <1>1, <1>2 DEF Undeclaring
<1>6. \A k, l \in 1..m : tag[k].name = tag[l].name => k = l
  <2> TAKE k, l \in 1..m
  <2> HAVE tag[k].name = tag[l].name
  <2>1. tag[k] = tag[l]
    BY <1>2, DeclaredOnce
  <2> QED BY <1>2, <2>1
<1>7. ASSUME QualifiedNamesDiffer(e), NEW i \in DOMAIN tag, NEW j \in DOMAIN tag,
             tag[i].name = tag[j].name
      PROVE  i = j
  <2>1. i \in 1..m \/ \E k \in 1..n : i = m + k
    BY <1>1, EitherPart
  <2>2. j \in 1..m \/ \E k \in 1..n : j = m + k
    BY <1>1, EitherPart
  <2>3. CASE i \in 1..m
    BY <1>4, <1>5, <1>6, <1>7, <2>2, <2>3
  <2>4. CASE \E k \in 1..n : i = m + k
    <3>1. PICK k \in 1..n : i = m + k
      BY <2>4
    <3>2. PICK l \in 1..n : j = m + l
      BY <1>4, <1>5, <1>7, <2>2, <3>1
    <3>3. e.attributes[k].qualified_name = e.attributes[l].qualified_name
      BY <1>2, <1>7, <3>1, <3>2
    <3>4. k = l
      BY <1>1, <1>7, <3>3 DEF QualifiedNamesDiffer
    <3> QED BY <3>1, <3>2, <3>4
  <2> QED BY <2>1, <2>3, <2>4
<1>8. ASSUME \A i, j \in DOMAIN tag : tag[i].name = tag[j].name => i = j,
             NEW i \in 1..n, NEW j \in 1..n,
             e.attributes[i].qualified_name = e.attributes[j].qualified_name
      PROVE  i = j
  <2>1. m + i \in DOMAIN tag /\ m + j \in DOMAIN tag
    BY <1>1, <1>2, <1>3
  <2>2. m + i = m + j
    BY <1>2, <1>8, <2>1
  <2> QED BY <1>2, <2>2
<1> QED BY <1>1, <1>7, <1>8 DEF QualifiedNamesDiffer

\* A tag reads as its element exactly if its names do.
LEMMA TagReadFacts ==
    ASSUME NEW e, IsElement(e), NEW within, within = Append(scopes, ScopeOf(e))
    PROVE  TagRead(Tag(e)) = e <=>
              /\ Undeclaring(e) /\ QualifiedNamesDiffer(e) /\ e.depth = Len(scopes)
              /\ ReadsAs(e, TRUE, within)
              /\ \A i \in DOMAIN e.attributes : ReadsAs(e.attributes[i], FALSE, within)
<1> DEFINE tag == Tag(e)
           attrs == Tag(e).attributes
           m == Len(Declarations(e))
           plain == PlainOf(attrs)
           resolved == [i \in DOMAIN plain |->
                           LET n == resolve_name(plain[i].name, FALSE, within, "Enabled")
                           IN  [uri |-> n.uri, local_name |-> n.local_name,
                                qualified_name |-> n.qualified_name,
                                value |-> unescaped(plain[i].value)]]
           name == resolve_name(tag.name, TRUE, within, "Enabled")
           made == [kind |-> "Element", depth |-> Len(scopes), uri |-> name.uri,
                    local_name |-> name.local_name, qualified_name |-> name.qualified_name,
                    attributes |-> resolved]
           bad == \/ \E i, j \in DOMAIN attrs : i # j /\ attrs[i].name = attrs[j].name
                  \/ ~Resolvable(tag.name, within, "Enabled")
                  \/ \E i \in DOMAIN plain : \/ ~Resolvable(plain[i].name, within, "Enabled")
                                             \/ Holds(plain[i].value, {"<", "&", "quote"})
                  \/ \E i, j \in DOMAIN resolved :
                        i # j /\ ExpandedName(resolved[i]) = ExpandedName(resolved[j])
           r(x, is_element) == resolve_name(x.qualified_name, is_element, within, "Enabled")
<1>1. TagRead(tag) = IF bad THEN Refused ELSE made
  BY DEF TagRead, ScopeOf, PlainOf
<1>2. tag.name = e.qualified_name
  BY DEF Tag
<1>3. /\ DOMAIN plain = DOMAIN e.attributes => Undeclaring(e)
      /\ Undeclaring(e) =>
            /\ DOMAIN plain = DOMAIN e.attributes
            /\ \A i \in DOMAIN e.attributes :
                  /\ plain[i].name = e.attributes[i].qualified_name
                  /\ plain[i].value = escape_attribute(e.attributes[i].value)
  BY PlainFacts
<1>4. /\ e = [kind |-> "Element", depth |-> e.depth, uri |-> e.uri, local_name |-> e.local_name,
              qualified_name |-> e.qualified_name, attributes |-> e.attributes]
      /\ \A i \in DOMAIN e.attributes : IsAttribute(e.attributes[i])
      /\ AreDistinct(e.attributes)
  BY DEF IsElement, Range
<1>5. IsWrittenFor(attrs, m, e)
  BY TagFacts
<1>6. e.attributes = [i \in DOMAIN e.attributes |-> e.attributes[i]]
  BY LenProperties DEF IsElement
<1>7. \A x, b : r(x, b).qualified_name = x.qualified_name
  BY DEF resolve_name
<1>8. resolved = [i \in DOMAIN plain |-> resolved[i]] /\ DOMAIN resolved = DOMAIN plain
  OBVIOUS
<1>9. made = e => resolved = e.attributes
  <2>1. made.attributes = resolved
    OBVIOUS
  <2> HIDE DEF made, resolved
  <2> QED BY <2>1
<1>10. Refused # e
  <2>1. Refused.kind = "refused" /\ e.kind = "Element"
    BY <1>4 DEF Refused
  <2> QED BY <2>1
<1>11. CASE ~Undeclaring(e)
  <2>1. resolved # e.attributes
    BY <1>3, <1>8, <1>11
  <2> HIDE DEF made, bad, tag, resolved
  <2>2. TagRead(tag) # e
    BY <1>1, <1>9, <1>10, <2>1
  <2> QED BY <1>11, <2>2 DEF tag
<1>12. CASE Undeclaring(e)
  <2>1. /\ DOMAIN plain = DOMAIN e.attributes
        /\ \A i \in DOMAIN e.attributes :
              /\ plain[i].name = e.attributes[i].qualified_name
              /\ plain[i].value = escape_attribute(e.attributes[i].value)
    BY <1>3, <1>12
  <2>2. \A i \in DOMAIN e.attributes :
            /\ ~Holds(plain[i].value, {"<", "&", "quote"})
            /\ unescaped(plain[i].value) = e.attributes[i].value
    BY <1>4, <2>1, ValueSurvives DEF IsAttribute
  <2>3. \A i \in DOMAIN e.attributes :
            resolved[i] = [uri |-> r(e.attributes[i], FALSE).uri,
                           local_name |-> r(e.attributes[i], FALSE).local_name,
                           qualified_name |-> e.attributes[i].qualified_name,
                           value |-> e.attributes[i].value]
    <3> TAKE i \in DOMAIN e.attributes
    <3> DEFINE n == resolve_name(plain[i].name, FALSE, within, "Enabled")
    <3>1. i \in DOMAIN plain
      BY <2>1
    <3>2. resolved[i] = [uri |-> n.uri, local_name |-> n.local_name,
                         qualified_name |-> n.qualified_name, value |-> unescaped(plain[i].value)]
      BY <3>1
    <3>3. n = r(e.attributes[i], FALSE)
      BY <2>1
    <3> HIDE DEF n, resolved, plain
    <3>4. n.qualified_name = e.attributes[i].qualified_name
      BY <1>7, <3>3
    <3> HIDE DEF r
    <3> QED BY <2>2, <3>2, <3>3, <3>4
  <2>4. (\A i, j \in DOMAIN attrs : attrs[i].name = attrs[j].name => i = j)
           <=> QualifiedNamesDiffer(e)
    BY <1>5, <1>12, NamesDiffer
  <2>5. ASSUME NEW i \in DOMAIN e.attributes
        PROVE  resolved[i] = e.attributes[i] <=>
                  /\ r(e.attributes[i], FALSE).uri = e.attributes[i].uri
                  /\ r(e.attributes[i], FALSE).local_name = e.attributes[i].local_name
    <3> DEFINE a == e.attributes[i]
    <3>1. a = [uri |-> a.uri, local_name |-> a.local_name, qualified_name |-> a.qualified_name,
               value |-> a.value]
      BY <1>4 DEF IsAttribute, Attribute
    <3>2. resolved[i] = [uri |-> r(a, FALSE).uri, local_name |-> r(a, FALSE).local_name,
                         qualified_name |-> a.qualified_name, value |-> a.value]
      BY <2>3
    <3> DEFINE n == r(a, FALSE)
               x == resolved[i]
    <3> HIDE DEF a, resolved, r, n, x
    <3>3. x = [uri |-> n.uri, local_name |-> n.local_name, qualified_name |-> a.qualified_name,
               value |-> a.value]
      BY <3>2 DEF n, x
    <3>4. x.uri = n.uri /\ x.local_name = n.local_name
      BY <3>3
    <3>5. n.uri = a.uri /\ n.local_name = a.local_name => x = a
      BY <3>1, <3>3
    <3>6. x = a <=> n.uri = a.uri /\ n.local_name = a.local_name
      BY <3>4, <3>5
    <3> QED BY <3>6 DEF a, n, x
  <2>6. made = e <=> /\ e.depth = Len(scopes)
                     /\ r(e, TRUE).uri = e.uri /\ r(e, TRUE).local_name = e.local_name
                     /\ resolved = e.attributes
    <3>1. name = r(e, TRUE) /\ name.qualified_name = e.qualified_name
      BY <1>2, <1>7
    <3>2. made = [kind |-> "Element", depth |-> Len(scopes), uri |-> r(e, TRUE).uri,
                  local_name |-> r(e, TRUE).local_name, qualified_name |-> e.qualified_name,
                  attributes |-> resolved]
      BY <3>1
    <3> DEFINE n == r(e, TRUE)
    <3> HIDE DEF made, resolved, r, n
    <3>3. made = [kind |-> "Element", depth |-> Len(scopes), uri |-> n.uri,
                  local_name |-> n.local_name, qualified_name |-> e.qualified_name,
                  attributes |-> resolved]
      BY <3>2 DEF n
    <3>4. /\ made.depth = Len(scopes) /\ made.uri = n.uri /\ made.local_name = n.local_name
          /\ made.attributes = resolved
      BY <3>3
    <3>5. /\ e.depth = Len(scopes) /\ n.uri = e.uri /\ n.local_name = e.local_name
          /\ resolved = e.attributes
          => made = e
      BY <1>4, <3>3
    <3>6. made = e <=> /\ e.depth = Len(scopes) /\ n.uri = e.uri /\ n.local_name = e.local_name
                       /\ resolved = e.attributes
      BY <3>4, <3>5
    <3> QED BY <3>6 DEF n
  <2>7. resolved = e.attributes <=> \A i \in DOMAIN e.attributes : resolved[i] = e.attributes[i]
    <3>1. resolved = [i \in DOMAIN e.attributes |-> resolved[i]]
      BY <1>8, <2>1
    <3> HIDE DEF resolved
    <3> QED BY <1>6, <3>1
  <2>8. resolved = e.attributes =>
           \A i, j \in DOMAIN resolved : ExpandedName(resolved[i]) = ExpandedName(resolved[j]) => i = j
    <3> HIDE DEF resolved
    <3> QED BY <1>4 DEF AreDistinct
  <2>9. bad <=> \/ ~QualifiedNamesDiffer(e)
                \/ ~Resolvable(e.qualified_name, within, "Enabled")
                \/ \E i \in DOMAIN e.attributes :
                      ~Resolvable(e.attributes[i].qualified_name, within, "Enabled")
                \/ ~\A i, j \in DOMAIN resolved :
                       ExpandedName(resolved[i]) = ExpandedName(resolved[j]) => i = j
    <3> HIDE DEF resolved, plain, attrs, tag
    <3> QED BY <1>2, <2>1, <2>2, <2>4
  <2> HIDE DEF made, bad, tag, resolved
  <2>10. ReadsAs(e, TRUE, within) <=>
            /\ Resolvable(e.qualified_name, within, "Enabled")
            /\ r(e, TRUE).uri = e.uri /\ r(e, TRUE).local_name = e.local_name
    BY DEF ReadsAs
  <2>11. \A i \in DOMAIN e.attributes :
            ReadsAs(e.attributes[i], FALSE, within) <=>
               /\ Resolvable(e.attributes[i].qualified_name, within, "Enabled")
               /\ resolved[i] = e.attributes[i]
    BY <2>5 DEF ReadsAs
  <2> HIDE DEF r
  <2>12. TagRead(tag) = e <=> ~bad /\ made = e
    BY <1>1, <1>10
  <2> QED BY <1>12, <2>6, <2>7, <2>8, <2>9, <2>10, <2>11, <2>12 DEF tag
<1> QED BY <1>11, <1>12

-----------------------------------------------------------------------------
(* Names that are as the parser makes them read back, and no others.        *)

\* q is s with x at the end.
IsPushed(q, s, x) == s \in Seq(Range(s)) /\ q = Append(s, x)

\* u is what one of the scopes s says of p, or nothing if none says anything.
Looked(p, s, u) ==
    \/ u = "" /\ \A k \in DOMAIN s : p \notin DOMAIN s[k]
    \/ \E k \in DOMAIN s : p \in DOMAIN s[k] /\ u = s[k][p]

\* A prefix means what the element itself declares, or what an element it is
\* in says, or nothing.
LEMMA LookupInside ==
    ASSUME NEW s, NEW scope, NEW within, IsPushed(within, s, scope), NEW p, p # "xml"
    PROVE  /\ p \in DOMAIN scope => lookup_namespace(p, within) = scope[p]
           /\ p \notin DOMAIN scope => Looked(p, s, lookup_namespace(p, within))
<1> DEFINE D == Declaring(p, within)
           n == Len(s)
           u == lookup_namespace(p, within)
<1>1. /\ within \in Seq(Range(within)) /\ n \in Nat /\ Len(within) = n + 1
      /\ within[n + 1] = scope
      /\ \A i \in 1..n : within[i] = s[i]
  BY SequencesGrow DEF IsPushed
<1>2. DOMAIN within = 1..(n + 1) /\ DOMAIN s = 1..n
  BY <1>1, LenProperties DEF IsPushed
<1>3. \A i : i \in D <=> i \in 1..(n + 1) /\ p \in DOMAIN within[i]
  BY <1>2 DEF Declaring
<1> HIDE DEF n, D, u
<1>4. D # {} => Innermost(D) \in D /\ \A j \in D : j <= Innermost(D)
  <2>1. D \subseteq 1..(n + 1) /\ n + 1 \in Nat
    BY <1>1, <1>3
  <2> QED BY <2>1, GreatestFacts DEF Innermost
<1>5. u = IF D = {} THEN "" ELSE within[Innermost(D)][p]
  BY DEF lookup_namespace, D, u
<1>6. ASSUME p \in DOMAIN scope PROVE u = scope[p]
  <2>1. n + 1 \in D
    BY <1>1, <1>3, <1>6
  <2>2. Innermost(D) \in 1..(n + 1) /\ n + 1 <= Innermost(D)
    BY <1>3, <1>4, <2>1
  <2>3. Innermost(D) = n + 1
    BY <1>1, <2>2
  <2> QED BY <1>1, <1>5, <1>6, <2>1, <2>3
<1>7. ASSUME p \notin DOMAIN scope
      PROVE  Looked(p, s, u)
  <2>1. \A i \in 1..(n + 1) : i \in 1..n \/ i = n + 1
    BY <1>1
  <2>2. \A i \in 1..n : i \in 1..(n + 1)
    BY <1>1
  <2>3. \A i : i \in D <=> i \in 1..n /\ p \in DOMAIN s[i]
    BY <1>1, <1>3, <1>7, <2>1, <2>2
  <2>4. CASE D = {}
    BY <1>2, <1>5, <1>7, <2>3, <2>4 DEF Looked
  <2>5. CASE D # {}
    BY <1>1, <1>2, <1>4, <1>5, <1>7, <2>3, <2>5 DEF Looked
  <2> QED BY <2>4, <2>5
<1> QED BY <1>6, <1>7 DEF u

\* What the element itself declares comes first.
LEMMA LookupOwn ==
    ASSUME NEW s, NEW scope, NEW within, IsPushed(within, s, scope), NEW p, p # "xml",
           p \in DOMAIN scope
    PROVE  lookup_namespace(p, within) = scope[p]
BY LookupInside

\* What uses a prefix is one of them.
LEMMA PartFacts ==
    ASSUME NEW e, IsElement(e)
    PROVE  /\ \A n \in Parts(e) : /\ IsName(n.qualified_name)
                                  /\ n.uri # "" => Uses(e, prefix_of(n.qualified_name), n.uri)
           /\ \A p, u : Uses(e, p, u) =>
                 \E n \in Parts(e) : n.uri = u /\ u # "" /\ prefix_of(n.qualified_name) = p
<1>1. \A i \in DOMAIN e.attributes : IsName(e.attributes[i].qualified_name)
  BY DEF IsElement, IsAttribute, Range
<1>2. IsName(e.qualified_name)
  BY DEF IsElement
<1> QED BY <1>1, <1>2 DEF Parts, Uses

\* The names of e are as the parser leaves them, one by one and together.
LEMMA ParsedNames ==
    ASSUME NEW e, IsElement(e)
    PROVE  NamesAsParsed(e) <=>
              /\ \A n \in Parts(e) :
                    /\ n.qualified_name.form \in {"plain", "prefixed"}
                    /\ n.local_name = Plain(n.qualified_name.local)
                    /\ n.qualified_name.form = "prefixed" =>
                          /\ n.uri # ""
                          /\ prefix_of(n.qualified_name) = "xml" => n.uri = XmlUri
              /\ \A m, n \in Parts(e) :
                    /\ m.qualified_name.form = "prefixed" /\ n.qualified_name.form = "prefixed"
                    /\ prefix_of(m.qualified_name) = prefix_of(n.qualified_name)
                    => m.uri = n.uri
              /\ \A i \in DOMAIN e.attributes :
                    e.attributes[i].qualified_name.form = "plain" => e.attributes[i].uri = ""
              /\ Undeclaring(e)
BY DEF NamesAsParsed, NamesAreQualified, PrefixesAgree, PlainAttributesHaveNoNamespace, Parts,
       Undeclaring

\* The prefix of a name tells its form.
LEMMA PrefixFacts ==
    ASSUME NEW q, IsName(q)
    PROVE  /\ q.form = "plain" => prefix_of(q) = "" /\ q = Plain(q.local)
           /\ q.form = "prefixed" => prefix_of(q) # ""
<1>1. ASSUME q.form = "plain" PROVE q.prefix = "" /\ q = Plain(q.local)
  <2>1. q = Plain(q.local)
    BY <1>1 DEF IsName
  <2>2. Plain(q.local).prefix = ""
    BY DEF Plain
  <2> QED BY <2>1, <2>2
<1>2. ASSUME q.form = "prefixed" PROVE q.prefix # ""
  BY <1>2 DEF IsName
<1> QED BY <1>1, <1>2 DEF prefix_of

\* A prefix means one namespace in names as the parser leaves them, and no
\* prefix means the one of the element.
LEMMA UsedOnce ==
    ASSUME NEW e, IsElement(e), NamesAsParsed(e), NEW p, NEW u, Uses(e, p, u)
    PROVE  /\ \A n \in Parts(e) :
                 n.qualified_name.form = "prefixed" /\ prefix_of(n.qualified_name) = p => n.uri = u
           /\ p \in {""} => e.uri = u /\ prefix_of(e.qualified_name) = p
<1>0. \E m \in Parts(e) : m.uri = u /\ u # "" /\ prefix_of(m.qualified_name) = p
  <2>1. \A q, v : Uses(e, q, v) =>
            \E m \in Parts(e) : m.uri = v /\ v # "" /\ prefix_of(m.qualified_name) = q
    BY PartFacts
  <2> HIDE DEF Uses, prefix_of
  <2> QED BY <2>1
<1>1. PICK m \in Parts(e) : m.uri = u /\ u # "" /\ prefix_of(m.qualified_name) = p
  BY <1>0
<1>2. \A n \in Parts(e) : IsName(n.qualified_name)
  BY PartFacts
<1>3. \A n \in Parts(e) : n.qualified_name.form \in {"plain", "prefixed"}
  BY ParsedNames
<1>4. \A l, n \in Parts(e) :
          /\ l.qualified_name.form = "prefixed" /\ n.qualified_name.form = "prefixed"
          /\ prefix_of(l.qualified_name) = prefix_of(n.qualified_name)
          => l.uri = n.uri
  BY ParsedNames
<1>5. \A i \in DOMAIN e.attributes :
          e.attributes[i].qualified_name.form = "plain" => e.attributes[i].uri = ""
  BY ParsedNames
<1>6. \A n \in Parts(e) : /\ n.qualified_name.form = "plain" => prefix_of(n.qualified_name) = ""
                          /\ n.qualified_name.form = "prefixed" => prefix_of(n.qualified_name) # ""
  BY <1>2, PrefixFacts
<1>7. p = "" => m = e
  BY <1>1, <1>3, <1>5, <1>6 DEF Parts
<1> QED BY <1>1, <1>3, <1>4, <1>6, <1>7

\* For names as the parser leaves them, the scope has a default namespace if
\* and only if the element is in one without a prefix.
LEMMA DefaultFacts ==
    ASSUME NEW e, IsElement(e), NamesAsParsed(e)
    PROVE  /\ "" \in DOMAIN ScopeOf(e) <=> e.uri # "" /\ prefix_of(e.qualified_name) = ""
           /\ "" \in DOMAIN ScopeOf(e) => ScopeOf(e)[""] = e.uri
<1>1. Undeclaring(e)
  BY ParsedNames
<1>2. "" \in DOMAIN ScopeOf(e) => Uses(e, "", ScopeOf(e)[""])
  BY <1>1, ScopeFacts
<1>3. ASSUME "" \in DOMAIN ScopeOf(e)
      PROVE  /\ e.uri = ScopeOf(e)[""] /\ e.uri # ""
             /\ prefix_of(e.qualified_name) = ""
  <2>1. Uses(e, "", ScopeOf(e)[""])
    BY <1>2, <1>3
  <2>2. ScopeOf(e)[""] # ""
    BY <2>1 DEF Uses
  <2> QED BY <2>1, <2>2, UsedOnce
<1>4. ASSUME e.uri # "", prefix_of(e.qualified_name) = ""
      PROVE  "" \in DOMAIN ScopeOf(e)
  <2>1. Uses(e, "", e.uri)
    BY <1>4 DEF Uses
  <2> QED BY <1>1, <2>1, ScopeFacts
<1> QED BY <1>3, <1>4

\* When a name reads as the one that was written.
LEMMA NameReads ==
    ASSUME NEW x, IsName(x.qualified_name), NEW within
    PROVE  LET q == x.qualified_name
               u == lookup_namespace(prefix_of(q), within)
           IN  /\ q.form = "plain" =>
                     /\ ReadsAs(x, TRUE, within) <=>
                           /\ x.uri = lookup_namespace("", within)
                           /\ x.local_name = Plain(q.local)
                     /\ ReadsAs(x, FALSE, within) <=> x.uri = "" /\ x.local_name = Plain(q.local)
               /\ q.form = "prefixed" =>
                     \A b \in BOOLEAN :
                        ReadsAs(x, b, within) <=>
                           u # "" /\ x.uri = u /\ x.local_name = Plain(q.local)
               /\ \A b \in BOOLEAN : ReadsAs(x, b, within) => q.form \in {"plain", "prefixed"}
<1> DEFINE q == x.qualified_name
           u == lookup_namespace(prefix_of(q), within)
<1>1. q.form = "plain" => q = Plain(q.local)
  BY PrefixFacts
<1>2. prefix_of(q) = "xml" => u # ""
  <2>1. XmlUri # ""
    BY DEF XmlUri
  <2> QED BY <2>1 DEF lookup_namespace
<1>3. prefix_of(q) = q.prefix
  BY DEF prefix_of
<1>4. ASSUME q.form = "plain"
      PROVE  /\ ReadsAs(x, TRUE, within) <=>
                   /\ x.uri = lookup_namespace("", within)
                   /\ x.local_name = Plain(q.local)
             /\ ReadsAs(x, FALSE, within) <=> x.uri = "" /\ x.local_name = Plain(q.local)
  BY <1>1, <1>4 DEF ReadsAs, resolve_name, Resolvable
<1>5. ASSUME q.form = "prefixed", NEW b \in BOOLEAN
      PROVE  ReadsAs(x, b, within) <=>
                u # "" /\ x.uri = u /\ x.local_name = Plain(q.local)
  BY <1>2, <1>3, <1>5 DEF ReadsAs, resolve_name, Resolvable
<1>6. \A b \in BOOLEAN : ReadsAs(x, b, within) => q.form \in {"plain", "prefixed"}
  BY DEF ReadsAs, Resolvable
<1> QED BY <1>4, <1>5, <1>6

\* All the names of an element read as they were written.
AllReadAs(e, within) ==
    /\ ReadsAs(e, TRUE, within)
    /\ \A i \in DOMAIN e.attributes : ReadsAs(e.attributes[i], FALSE, within)

\* Names that read back are as the parser leaves them.
LEMMA ReadIsParsed ==
    ASSUME NEW e, IsElement(e), Undeclaring(e), NEW within, AllReadAs(e, within)
    PROVE  /\ NamesAsParsed(e)
           /\ e.uri = "" => lookup_namespace("", within) = ""
<1>1. \A n \in Parts(e) : IsName(n.qualified_name)
  BY PartFacts
<1>2. \A n \in Parts(e) : \E b \in BOOLEAN : ReadsAs(n, b, within)
  BY DEF AllReadAs, Parts
<1>3. ASSUME NEW n \in Parts(e)
      PROVE  /\ n.qualified_name.form \in {"plain", "prefixed"}
             /\ n.local_name = Plain(n.qualified_name.local)
             /\ n.qualified_name.form = "prefixed" =>
                   /\ n.uri = lookup_namespace(prefix_of(n.qualified_name), within)
                   /\ n.uri # ""
  BY <1>1, <1>2, NameReads
<1>4. ASSUME NEW i \in DOMAIN e.attributes, e.attributes[i].qualified_name.form = "plain"
      PROVE  e.attributes[i].uri = ""
  <2>1. e.attributes[i] \in Parts(e)
    BY DEF Parts
  <2> QED BY <1>1, <1>4, <2>1, NameReads DEF AllReadAs
<1>5. lookup_namespace("xml", within) = XmlUri
  BY DEF lookup_namespace
<1>6. NamesAsParsed(e)
  <2>1. \A m, n \in Parts(e) :
            /\ m.qualified_name.form = "prefixed" /\ n.qualified_name.form = "prefixed"
            /\ prefix_of(m.qualified_name) = prefix_of(n.qualified_name)
            => m.uri = n.uri
    BY <1>3
  <2>2. \A n \in Parts(e) :
            /\ n.qualified_name.form \in {"plain", "prefixed"}
            /\ n.local_name = Plain(n.qualified_name.local)
            /\ n.qualified_name.form = "prefixed" =>
                  /\ n.uri # ""
                  /\ prefix_of(n.qualified_name) = "xml" => n.uri = XmlUri
    BY <1>3, <1>5
  <2> QED BY <1>4, <2>1, <2>2, ParsedNames
<1>7. e \in Parts(e)
  BY DEF Parts
<1>8. e.uri = "" => e.qualified_name.form = "plain"
  BY <1>3, <1>7
<1>9. e.qualified_name.form = "plain" => e.uri = lookup_namespace("", within)
  BY <1>1, <1>7, NameReads DEF AllReadAs
<1> QED BY <1>6, <1>8, <1>9

\* Names as the parser leaves them differ if their expanded names do.
LEMMA ParsedNamesDiffer ==
    ASSUME NEW e, IsElement(e), NamesAsParsed(e)
    PROVE  QualifiedNamesDiffer(e)
<1> SUFFICES ASSUME NEW i \in DOMAIN e.attributes, NEW j \in DOMAIN e.attributes,
                    e.attributes[i].qualified_name = e.attributes[j].qualified_name
             PROVE  i = j
  BY DEF QualifiedNamesDiffer
<1> DEFINE a == e.attributes[i]
           b == e.attributes[j]
<1>1. a \in Parts(e) /\ b \in Parts(e) /\ a.qualified_name = b.qualified_name
  BY DEF Parts
<1>6. \A n \in Parts(e) : /\ n.qualified_name.form \in {"plain", "prefixed"}
                          /\ n.local_name = Plain(n.qualified_name.local)
  BY ParsedNames
<1>7. \A m, n \in Parts(e) :
          /\ m.qualified_name.form = "prefixed" /\ n.qualified_name.form = "prefixed"
          /\ prefix_of(m.qualified_name) = prefix_of(n.qualified_name)
          => m.uri = n.uri
  BY ParsedNames
<1>8. \A k \in DOMAIN e.attributes :
          e.attributes[k].qualified_name.form = "plain" => e.attributes[k].uri = ""
  BY ParsedNames
<1>9. a.qualified_name.form = "plain" => a.uri = "" /\ b.uri = ""
  BY <1>1, <1>8
<1> HIDE DEF a, b
<1>3. a.local_name = b.local_name
  BY <1>1, <1>6
<1>4. a.uri = b.uri
  BY <1>1, <1>6, <1>7, <1>9
<1>5. ExpandedName(a) = ExpandedName(b)
  BY <1>3, <1>4 DEF ExpandedName
<1> QED BY <1>5 DEF IsElement, AreDistinct, a, b

\* No default namespace is declared.
NoDefault(s) == \A k \in DOMAIN s : "" \notin DOMAIN s[k]

\* Names that are as the parser leaves them read back, unless the element is
\* in no namespace where there is a default one.
LEMMA ParsedIsRead ==
    ASSUME NEW e, IsElement(e), NamesAsParsed(e), NEW s, NEW within,
           IsPushed(within, s, ScopeOf(e)), e.uri # "" \/ NoDefault(s)
    PROVE  AllReadAs(e, within)
<1>1. \A n \in Parts(e) : /\ IsName(n.qualified_name)
                          /\ n.uri # "" => Uses(e, prefix_of(n.qualified_name), n.uri)
  BY PartFacts
<1>2. Undeclaring(e)
  BY ParsedNames
<1>3. \A n \in Parts(e) :
          /\ n.qualified_name.form \in {"plain", "prefixed"}
          /\ n.local_name = Plain(n.qualified_name.local)
          /\ n.qualified_name.form = "prefixed" =>
                /\ n.uri # ""
                /\ prefix_of(n.qualified_name) = "xml" => n.uri = XmlUri
  BY ParsedNames
<1>4. ASSUME NEW n \in Parts(e), n.qualified_name.form = "prefixed"
      PROVE  lookup_namespace(prefix_of(n.qualified_name), within) = n.uri
  <2> DEFINE p == prefix_of(n.qualified_name)
  <2>1. CASE p = "xml"
    BY <1>3, <1>4, <2>1 DEF lookup_namespace
  <2>2. CASE p # "xml"
    <3>1. Uses(e, p, n.uri)
      BY <1>1, <1>3, <1>4
    <3> HIDE DEF p
    <3>2. p \in DOMAIN ScopeOf(e) /\ Uses(e, p, ScopeOf(e)[p])
      BY <1>2, <3>1, ScopeFacts
    <3>5. n.qualified_name.form = "prefixed" /\ prefix_of(n.qualified_name) = p
      BY <1>4 DEF p
    <3>3. n.uri = ScopeOf(e)[p]
      <4> DEFINE u == ScopeOf(e)[p]
      <4>1. Uses(e, p, u)
        BY <3>2
      <4> HIDE DEF u
      <4>2. \A l \in Parts(e) :
                l.qualified_name.form = "prefixed" /\ prefix_of(l.qualified_name) = p => l.uri = u
        BY <4>1, UsedOnce
      <4> QED BY <3>5, <4>2 DEF u
    <3>4. lookup_namespace(p, within) = ScopeOf(e)[p]
      <4>1. p \in DOMAIN ScopeOf(e) /\ p # "xml"
        BY <2>2, <3>2
      <4> QED BY <4>1, LookupOwn
    <3> QED BY <3>3, <3>4 DEF p
  <2> QED BY <2>1, <2>2
<1>5. ASSUME e.qualified_name.form = "plain"
      PROVE  lookup_namespace("", within) = e.uri
  <2>1. prefix_of(e.qualified_name) = ""
    BY <1>5, PrefixFacts DEF IsElement
  <2>2. CASE e.uri # ""
    <3>1. "" \in DOMAIN ScopeOf(e) /\ ScopeOf(e)[""] = e.uri
      BY <2>1, <2>2, DefaultFacts
    <3>2. ASSUME NEW p, p = ""
          PROVE  lookup_namespace(p, within) = ScopeOf(e)[p]
      <4>1. p \in DOMAIN ScopeOf(e) /\ p # "xml"
        BY <3>1, <3>2
      <4> HIDE <3>2
      <4> QED BY <4>1, LookupOwn
    <3> QED BY <3>1, <3>2
  <2>3. CASE e.uri = ""
    <3>1. "" \notin DOMAIN ScopeOf(e) /\ NoDefault(s)
      BY <2>3, DefaultFacts
    <3>2. Looked("", s, lookup_namespace("", within))
      BY <3>1, LookupInside
    <3> QED BY <2>3, <3>1, <3>2 DEF Looked, NoDefault
  <2> QED BY <2>2, <2>3
<1>6. e \in Parts(e) /\ \A i \in DOMAIN e.attributes : e.attributes[i] \in Parts(e)
  BY DEF Parts
<1>7. ReadsAs(e, TRUE, within)
  <2>1. CASE e.qualified_name.form = "plain"
    BY <1>1, <1>3, <1>5, <1>6, <2>1, NameReads
  <2>2. CASE e.qualified_name.form = "prefixed"
    BY <1>1, <1>3, <1>4, <1>6, <2>2, NameReads
  <2> QED BY <1>3, <1>6, <2>1, <2>2
<1>8. ASSUME NEW i \in DOMAIN e.attributes
      PROVE  ReadsAs(e.attributes[i], FALSE, within)
  <2> DEFINE a == e.attributes[i]
  <2>1. a \in Parts(e)
    BY <1>6
  <2>2. ASSUME a.qualified_name.form = "plain" PROVE ReadsAs(a, FALSE, within)
    <3>1. a.uri = ""
      BY <2>2, ParsedNames
    <3> HIDE DEF a
    <3>2. IsName(a.qualified_name) /\ a.local_name = Plain(a.qualified_name.local)
      BY <1>1, <1>3, <2>1
    <3> QED BY <2>2, <3>1, <3>2, NameReads
  <2>3. ASSUME a.qualified_name.form = "prefixed" PROVE ReadsAs(a, FALSE, within)
    <3> HIDE DEF a
    <3>1. /\ IsName(a.qualified_name) /\ a.local_name = Plain(a.qualified_name.local)
          /\ a.uri = lookup_namespace(prefix_of(a.qualified_name), within) /\ a.uri # ""
      BY <1>1, <1>3, <1>4, <2>1, <2>3
    <3> QED BY <2>3, <3>1, NameReads
  <2>4. a.qualified_name.form \in {"plain", "prefixed"}
    BY <1>3, <2>1
  <2> QED BY <2>2, <2>3, <2>4
<1> QED BY <1>7, <1>8 DEF AllReadAs

\* Inside elements that declare no empty default namespace, what is written
\* for an element reads back if and only if its names are as the parser leaves
\* them and it is not in no namespace where there is a default one.
LEMMA ElementReadsBack ==
    ASSUME NEW e, IsElement(e), scopes \in Seq(Range(scopes)), e.depth = Len(scopes),
           \A k \in DOMAIN scopes : "" \in DOMAIN scopes[k] => scopes[k][""] # ""
    PROVE  TagRead(Tag(e)) = e <=>
              /\ NamesAsParsed(e)
              /\ e.uri # "" \/ NoDefault(scopes)
<1> DEFINE within == Append(scopes, ScopeOf(e))
<1>0. IsPushed(within, scopes, ScopeOf(e))
  BY DEF IsPushed
<1>1. TagRead(Tag(e)) = e <=> Undeclaring(e) /\ QualifiedNamesDiffer(e) /\ AllReadAs(e, within)
  BY TagReadFacts DEF AllReadAs
<1>2. ASSUME Undeclaring(e), AllReadAs(e, within)
      PROVE  /\ NamesAsParsed(e)
             /\ e.uri # "" \/ NoDefault(scopes)
  <2>1. NamesAsParsed(e) /\ (e.uri = "" => lookup_namespace("", within) = "")
    BY <1>2, ReadIsParsed
  <2>2. ASSUME e.uri = ""
        PROVE  NoDefault(scopes)
    <3>1. "" \notin DOMAIN ScopeOf(e)
      BY <2>1, <2>2, DefaultFacts
    <3> DEFINE u == lookup_namespace("", within)
    <3>2. Looked("", scopes, u)
      BY <1>0, <3>1, LookupInside
    <3>3. u = ""
      BY <2>1, <2>2
    <3> HIDE DEF u
    <3> QED BY <3>2, <3>3 DEF Looked, NoDefault
  <2> QED BY <2>1, <2>2
<1>3. ASSUME NamesAsParsed(e),
             e.uri # "" \/ NoDefault(scopes)
      PROVE  Undeclaring(e) /\ QualifiedNamesDiffer(e) /\ AllReadAs(e, within)
  BY <1>0, <1>3, ParsedIsRead, ParsedNames, ParsedNamesDiffer
<1> QED BY <1>1, <1>2, <1>3

-----------------------------------------------------------------------------
(* The walk over a document: what is being written, and what it is in.      *)

\* What DocumentsAssumption says of the nodes of a document.
IsDocument(d) ==
    /\ d \in Seq(Range(d))
    /\ \A i \in DOMAIN d : /\ d[i].kind = "Element" => IsElement(d[i])
                           /\ d[i].kind = "Text" => IsTextNode(d[i])

\* Where the walk over d is, before node c, in the elements at the places o.
\* What comes after an open element is in it; and after an element that is not
\* open something has come that is not in it, or what is written next is not.
IsWalk(d, c, o) ==
    /\ IsDocument(d)
    /\ c \in 1..(Len(d) + 1)
    /\ o \in Seq(Nat)
    /\ \A k \in 1..(c - 1) : d[k].depth \in Nat
    /\ \A m \in 1..Len(o) : /\ o[m] \in 1..(c - 1)
                            /\ d[o[m]].kind = "Element" /\ d[o[m]].depth = m - 1
                            /\ \A k \in (o[m] + 1)..(c - 1) : d[k].depth >= m
    /\ \A j \in 1..(c - 1) : \/ \E m \in 1..Len(o) : o[m] = j
                             \/ d[j].depth >= Len(o)
                             \/ \E k \in (j + 1)..(c - 1) : d[k].depth <= d[j].depth

\* The walk goes past a node, into it if it is an element.
LEMMA WalkOn ==
    ASSUME NEW d, NEW c, NEW o, IsWalk(d, c, o), c <= Len(d), d[c].depth = Len(o),
           NEW b, b = o \/ (b = Append(o, c) /\ d[c].kind = "Element")
    PROVE  IsWalk(d, c + 1, b)
<1> DEFINE n == Len(o)
           l == Len(d)
<1>1. /\ IsDocument(d) /\ l \in Nat /\ n \in Nat /\ o \in Seq(Nat)
      /\ c \in 1..l /\ c \in Nat /\ (c + 1) - 1 = c
      /\ d[c].depth = n
  <2>1. l \in Nat
    BY LenProperties DEF IsWalk, IsDocument
  <2>2. n \in Nat
    BY LenProperties DEF IsWalk
  <2>3. c \in 1..(l + 1) /\ IsDocument(d) /\ o \in Seq(Nat)
    BY DEF IsWalk
  <2> HIDE DEF n, l
  <2>4. c <= l /\ d[c].depth = n
    BY DEF n, l
  <2> QED BY <2>1, <2>2, <2>3, <2>4
<1>2. \A k \in 1..c : k \in 1..(c - 1) \/ k = c
  BY <1>1
<1>3. \A k \in 1..(c - 1) : d[k].depth \in Nat
  BY DEF IsWalk
<1>4. \A m \in 1..n : /\ o[m] \in 1..(c - 1)
                      /\ d[o[m]].kind = "Element" /\ d[o[m]].depth = m - 1
                      /\ \A k \in (o[m] + 1)..(c - 1) : d[k].depth >= m
  BY DEF IsWalk
<1>5. \A j \in 1..(c - 1) : \/ \E m \in 1..n : o[m] = j
                            \/ d[j].depth >= n
                            \/ \E k \in (j + 1)..(c - 1) : d[k].depth <= d[j].depth
  BY DEF IsWalk
<1> HIDE DEF n, l
<1>6. c + 1 \in 1..(l + 1)
  BY <1>1
<1>7. \A k \in 1..c : d[k].depth \in Nat
  BY <1>1, <1>2, <1>3
<1>8. ASSUME NEW m \in 1..n
      PROVE  /\ o[m] \in 1..c
             /\ d[o[m]].kind = "Element" /\ d[o[m]].depth = m - 1
             /\ \A k \in (o[m] + 1)..c : d[k].depth >= m
  <2>1. o[m] \in 1..(c - 1)
    BY <1>4
  <2>2. \A k \in (o[m] + 1)..c : k \in (o[m] + 1)..(c - 1) \/ k = c
    BY <1>1, <2>1
  <2>3. o[m] \in 1..c /\ n >= m
    BY <1>1, <2>1
  <2> QED BY <1>1, <1>4, <2>2, <2>3
<1>9. ASSUME NEW j \in 1..(c - 1)
      PROVE  \/ \E m \in 1..n : o[m] = j
             \/ \E k \in (j + 1)..c : d[k].depth <= d[j].depth
  <2>1. CASE d[j].depth >= n
    <3>1. c \in (j + 1)..c /\ d[c].depth <= d[j].depth
      BY <1>1, <1>3, <2>1
    <3> QED BY <3>1
  <2>2. CASE \E k \in (j + 1)..(c - 1) : d[k].depth <= d[j].depth
    <3>1. PICK k \in (j + 1)..(c - 1) : d[k].depth <= d[j].depth
      BY <2>2
    <3>2. k \in (j + 1)..c
      BY <1>1, <3>1
    <3> QED BY <3>1, <3>2
  <2> QED BY <1>5, <2>1, <2>2
<1>10. CASE b = o
  <2>1. ASSUME NEW j \in 1..c
        PROVE  \/ \E m \in 1..n : o[m] = j
               \/ d[j].depth >= n
               \/ \E k \in (j + 1)..c : d[k].depth <= d[j].depth
    <3>1. j = c => d[j].depth >= n
      BY <1>1
    <3>2. j \in 1..(c - 1) \/ j = c
      BY <1>2
    <3> QED BY <1>9, <3>1, <3>2
  <2>2. Len(b) = n
    BY <1>10 DEF n
  <2> QED BY <1>1, <1>6, <1>7, <1>8, <1>10, <2>1, <2>2 DEF IsWalk, l
<1>11. CASE b = Append(o, c) /\ d[c].kind = "Element"
  <2>1. /\ b \in Seq(Nat) /\ Len(b) = n + 1 /\ b[n + 1] = c
        /\ \A m \in 1..n : b[m] = o[m]
    BY <1>1, <1>11, PushFacts DEF n
  <2>2. \A m \in 1..(n + 1) : m \in 1..n \/ m = n + 1
    BY <1>1
  <2>3. /\ b[n + 1] \in 1..c
        /\ d[b[n + 1]].kind = "Element" /\ d[b[n + 1]].depth = (n + 1) - 1
        /\ \A k \in (b[n + 1] + 1)..c : d[k].depth >= n + 1
    <3>1. c \in 1..c /\ (n + 1) - 1 = n /\ (c + 1)..c = {}
      BY <1>1
    <3> QED BY <1>1, <1>11, <2>1, <3>1
  <2>4. ASSUME NEW m \in 1..(n + 1)
        PROVE  /\ b[m] \in 1..c
               /\ d[b[m]].kind = "Element" /\ d[b[m]].depth = m - 1
               /\ \A k \in (b[m] + 1)..c : d[k].depth >= m
    <3>1. CASE m \in 1..n
      BY <1>8, <2>1, <3>1
    <3>2. CASE m = n + 1
      BY <2>3, <3>2
    <3> QED BY <2>2, <3>1, <3>2
  <2>5. \A m \in 1..n : m \in 1..(n + 1)
    BY <1>1
  <2>6. n + 1 \in 1..(n + 1)
    BY <1>1
  <2>7. ASSUME NEW j \in 1..c
        PROVE  \/ \E m \in 1..(n + 1) : b[m] = j
               \/ \E k \in (j + 1)..c : d[k].depth <= d[j].depth
    <3>1. CASE j = c
      BY <2>1, <2>6, <3>1
    <3>2. CASE j \in 1..(c - 1)
      <4>1. CASE \E m \in 1..n : o[m] = j
        BY <2>1, <2>5, <4>1
      <4> QED BY <1>9, <3>2, <4>1
    <3> QED BY <1>2, <3>1, <3>2
  <2> QED BY <1>1, <1>6, <1>7, <2>1, <2>4, <2>7 DEF IsWalk, l
<1> QED BY <1>10, <1>11

\* The walk leaves the innermost element.
LEMMA WalkBack ==
    ASSUME NEW d, NEW c, NEW o, IsWalk(d, c, o), o # <<>>
    PROVE  IsWalk(d, c, Front(o))
<1> DEFINE b == Front(o)
           n == Len(o)
<1>1. /\ IsDocument(d) /\ c \in 1..(Len(d) + 1) /\ o \in Seq(Nat)
      /\ \A k \in 1..(c - 1) : d[k].depth \in Nat
  BY DEF IsWalk
<1>2. /\ n \in Nat \ {0} /\ b \in Seq(Nat) /\ Len(b) = n - 1
      /\ \A m \in 1..(n - 1) : b[m] = o[m]
  BY <1>1, PopFacts
<1>3. \A m \in 1..n : /\ o[m] \in 1..(c - 1)
                      /\ d[o[m]].kind = "Element" /\ d[o[m]].depth = m - 1
                      /\ \A k \in (o[m] + 1)..(c - 1) : d[k].depth >= m
  BY DEF IsWalk
<1>4. \A j \in 1..(c - 1) : \/ \E m \in 1..n : o[m] = j
                            \/ d[j].depth >= n
                            \/ \E k \in (j + 1)..(c - 1) : d[k].depth <= d[j].depth
  BY DEF IsWalk
<1> HIDE DEF b, n
<1>5. \A m \in 1..(n - 1) : m \in 1..n
  BY <1>2
<1>6. \A m \in 1..(n - 1) : /\ b[m] \in 1..(c - 1)
                            /\ d[b[m]].kind = "Element" /\ d[b[m]].depth = m - 1
                            /\ \A k \in (b[m] + 1)..(c - 1) : d[k].depth >= m
  BY <1>2, <1>3, <1>5
<1>7. ASSUME NEW j \in 1..(c - 1)
      PROVE  \/ \E m \in 1..(n - 1) : b[m] = j
             \/ d[j].depth >= n - 1
             \/ \E k \in (j + 1)..(c - 1) : d[k].depth <= d[j].depth
  <2>1. CASE \E m \in 1..n : o[m] = j
    <3>1. PICK m \in 1..n : o[m] = j
      BY <2>1
    <3>2. m \in 1..(n - 1) \/ m = n
      BY <1>2
    <3>3. m = n => d[j].depth = n - 1
      BY <1>3, <3>1
    <3>4. m = n => d[j].depth >= n - 1
      BY <1>2, <3>3
    <3> QED BY <1>2, <3>1, <3>2, <3>4
  <2>2. CASE d[j].depth >= n
    <3>1. d[j].depth \in Nat
      BY <1>1
    <3> QED BY <1>2, <2>2, <3>1
  <2> QED BY <1>4, <2>1, <2>2
<1>8. IsWalk(d, c, b)
  BY <1>1, <1>2, <1>6, <1>7 DEF IsWalk
<1> QED BY <1>8 DEF b

\* The open elements are the ancestors of the node to write next.
LEMMA OpenAreAncestors ==
    ASSUME IsWalk(nodes, cursor, open), cursor <= Len(nodes), nodes[cursor].depth = Len(open)
    PROVE  \A j : j \in Ancestors(cursor) <=> \E m \in 1..Len(open) : open[m] = j
<1> DEFINE n == Len(open)
           c == cursor
           d == nodes
<1>1. n \in Nat /\ c \in Nat /\ c >= 1 /\ d[c].depth = n
  <2>1. n \in Nat
    BY LenProperties DEF IsWalk
  <2>2. Len(d) \in Nat /\ c \in 1..(Len(d) + 1)
    BY LenProperties DEF IsWalk, IsDocument
  <2> QED BY <2>1, <2>2
<1>2. \A k \in 1..(c - 1) : d[k].depth \in Nat
  BY DEF IsWalk
<1>3. \A m \in 1..n : /\ open[m] \in 1..(c - 1)
                      /\ d[open[m]].depth = m - 1
                      /\ \A k \in (open[m] + 1)..(c - 1) : d[k].depth >= m
  BY DEF IsWalk
<1>4. \A j \in 1..(c - 1) : \/ \E m \in 1..n : open[m] = j
                            \/ d[j].depth >= n
                            \/ \E k \in (j + 1)..(c - 1) : d[k].depth <= d[j].depth
  BY DEF IsWalk
<1>5. \A j : j \in Ancestors(c) <=>
          /\ j \in 1..(c - 1) /\ d[j].depth < d[c].depth
          /\ \A k \in (j + 1)..c : d[k].depth > d[j].depth
  BY DEF Ancestors
<1> HIDE DEF n, c, d
<1>6. ASSUME NEW m \in 1..n
      PROVE  open[m] \in Ancestors(c)
  <2> DEFINE j == open[m]
  <2>1. j \in 1..(c - 1) /\ d[j].depth = m - 1 /\ \A k \in (j + 1)..(c - 1) : d[k].depth >= m
    BY <1>3
  <2> HIDE DEF j
  <2>2. d[j].depth < d[c].depth
    BY <1>1, <2>1
  <2>3. \A k \in (j + 1)..c : k \in (j + 1)..(c - 1) \/ k = c
    BY <1>1, <2>1
  <2>4. ASSUME NEW k \in (j + 1)..c
        PROVE  d[k].depth > d[j].depth
    <3>1. CASE k = c
      BY <1>1, <2>1, <3>1
    <3>2. CASE k \in (j + 1)..(c - 1)
      <4>1. d[k].depth >= m /\ d[k].depth \in Nat
        <5>1. k \in 1..(c - 1)
          BY <1>1, <2>1, <3>2
        <5> QED BY <1>2, <2>1, <3>2, <5>1
      <4> QED BY <2>1, <4>1
    <3> QED BY <2>3, <3>1, <3>2
  <2> QED BY <1>5, <2>1, <2>2, <2>4 DEF j
<1>7. ASSUME NEW j \in Ancestors(c)
      PROVE  \E m \in 1..n : open[m] = j
  <2>1. /\ j \in 1..(c - 1) /\ d[j].depth < n
        /\ \A k \in (j + 1)..c : d[k].depth > d[j].depth
    BY <1>1, <1>5, <1>7
  <2>2. d[j].depth \in Nat
    BY <1>2, <2>1
  <2>3. ~(d[j].depth >= n)
    BY <1>1, <2>1, <2>2
  <2>4. ASSUME NEW k \in (j + 1)..(c - 1), d[k].depth <= d[j].depth
        PROVE  FALSE
    <3>1. k \in (j + 1)..c /\ k \in 1..(c - 1)
      BY <1>1, <2>1
    <3>2. d[k].depth \in Nat /\ d[k].depth > d[j].depth
      BY <1>2, <2>1, <3>1
    <3> QED BY <2>2, <2>4, <3>2
  <2> QED BY <1>4, <2>1, <2>3, <2>4
<1> QED BY <1>6, <1>7 DEF n, c

-----------------------------------------------------------------------------
(* What is read agrees with the document as far as it is fine.              *)

\* A node reads back.
Fine(k) ==
    /\ nodes[k].kind = "Element" => NamesAsParsed(nodes[k]) /\ ~Captured(k)
    /\ nodes[k].kind = "Text" => TextAsParsed(k)

\* r is the first n nodes of d.
Agree(r, d, n) == Len(r) = n /\ \A k \in 1..n : r[k] = d[k]

\* The scopes are those of the open elements.
ScopesInv ==
    /\ scopes \in Seq(Range(scopes)) /\ Len(scopes) = Len(open)
    /\ \A m \in 1..Len(open) : scopes[m] = ScopeOf(nodes[open[m]])

\* A node makes no more than one, and makes itself exactly if it is fine.
ReadInv ==
    /\ read \in Seq(Range(read)) /\ Len(read) <= cursor - 1
    /\ Agree(read, nodes, cursor - 1) <=> \A k \in 1..(cursor - 1) : Fine(k)

\* While the stream is good, what is read is in step with the walk.
WalkInv ==
    /\ IsWalk(nodes, cursor, open)
    /\ good => ScopesInv /\ ReadInv
    /\ pc = "start" => cursor = 1 /\ open = <<>> /\ scopes = <<>> /\ read = <<>>
    /\ pc = "done" => good /\ cursor > Len(nodes)

\* One more node is read.
LEMMA ReadOneMore ==
    ASSUME NEW r, NEW x, NEW q, IsPushed(q, r, x), NEW n \in Nat, Len(r) <= n, NEW d
    PROVE  /\ q \in Seq(Range(q)) /\ Len(q) <= n + 1
           /\ Agree(q, d, n + 1) <=> Agree(r, d, n) /\ x = d[n + 1]
<1>1. /\ q \in Seq(Range(q)) /\ Len(r) \in Nat /\ Len(q) = Len(r) + 1
      /\ q[Len(r) + 1] = x
      /\ \A i \in 1..Len(r) : q[i] = r[i]
  BY SequencesGrow DEF IsPushed
<1>2. ASSUME Len(r) = n
      PROVE  (\A k \in 1..(n + 1) : q[k] = d[k]) <=> (\A k \in 1..n : r[k] = d[k]) /\ x = d[n + 1]
  <2>1. /\ \A k \in 1..(n + 1) : k \in 1..n \/ k = n + 1
        /\ \A k \in 1..n : k \in 1..(n + 1)
        /\ n + 1 \in 1..(n + 1)
    OBVIOUS
  <2>2. (\A k \in 1..n : q[k] = r[k]) /\ q[n + 1] = x
    BY <1>1, <1>2
  <2> QED BY <2>1, <2>2
<1>3. Len(q) = n + 1 <=> Len(r) = n
  BY <1>1
<1> QED BY <1>1, <1>2, <1>3 DEF Agree

\* The scope of an open element that is fine declares a default namespace if
\* and only if the element is in one, which is never the empty one.
LEMMA OpenScopes ==
    ASSUME IsWalk(nodes, cursor, open), ScopesInv, \A k \in 1..(cursor - 1) : Fine(k),
           NEW m \in DOMAIN scopes
    PROVE  /\ m \in 1..Len(open) /\ open[m] \in 1..(cursor - 1)
           /\ "" \in DOMAIN scopes[m] <=>
                 /\ nodes[open[m]].uri # ""
                 /\ prefix_of(nodes[open[m]].qualified_name) = ""
           /\ "" \in DOMAIN scopes[m] => scopes[m][""] # ""
<1> DEFINE e == nodes[open[m]]
<1>1. DOMAIN scopes = 1..Len(open)
  BY LenProperties DEF ScopesInv
<1>2. open[m] \in 1..(cursor - 1) /\ e.kind = "Element" /\ scopes[m] = ScopeOf(e)
  BY <1>1 DEF IsWalk, ScopesInv
<1>3. open[m] \in DOMAIN nodes
  <2>1. Len(nodes) \in Nat /\ DOMAIN nodes = 1..Len(nodes) /\ cursor \in 1..(Len(nodes) + 1)
    BY LenProperties DEF IsWalk, IsDocument
  <2> QED BY <1>2, <2>1
<1>4. IsElement(e)
  BY <1>2, <1>3 DEF IsWalk, IsDocument
<1>5. NamesAsParsed(e)
  BY <1>2 DEF Fine
<1> HIDE DEF e
<1>6. /\ "" \in DOMAIN ScopeOf(e) <=> e.uri # "" /\ prefix_of(e.qualified_name) = ""
      /\ "" \in DOMAIN ScopeOf(e) => ScopeOf(e)[""] = e.uri
  BY <1>4, <1>5, DefaultFacts
<1> QED BY <1>1, <1>2, <1>6 DEF e

\* An element reads back exactly if it is fine.
LEMMA ElementIsFine ==
    ASSUME IsWalk(nodes, cursor, open), ScopesInv, \A k \in 1..(cursor - 1) : Fine(k),
           AtChild, node.kind = "Element"
    PROVE  TagRead(Tag(node)) = node <=> Fine(cursor)
<1>1. cursor \in DOMAIN nodes /\ cursor <= Len(nodes) /\ node.depth = Len(open)
  <2>1. Len(nodes) \in Nat /\ DOMAIN nodes = 1..Len(nodes) /\ cursor \in 1..(Len(nodes) + 1)
    BY LenProperties DEF IsWalk, IsDocument
  <2>2. cursor <= Len(nodes) /\ node.depth = Len(open)
    BY DEF AtChild, node
  <2> QED BY <2>1, <2>2
<1>2. IsElement(node)
  BY <1>1 DEF IsWalk, IsDocument, node
<1>3. \A j : j \in Ancestors(cursor) <=> \E m \in 1..Len(open) : open[m] = j
  BY <1>1, OpenAreAncestors DEF node
<1>4. scopes \in Seq(Range(scopes)) /\ Len(scopes) = Len(open) /\ DOMAIN scopes = 1..Len(open)
  BY LenProperties DEF ScopesInv
<1>5. \A m \in DOMAIN scopes : "" \in DOMAIN scopes[m] => scopes[m][""] # ""
  BY OpenScopes
<1>6. TagRead(Tag(node)) = node <=> NamesAsParsed(node) /\ (node.uri # "" \/ NoDefault(scopes))
  BY <1>1, <1>2, <1>4, <1>5, ElementReadsBack
<1>7. \A m \in DOMAIN scopes :
          "" \in DOMAIN scopes[m] <=> /\ nodes[open[m]].uri # ""
                                      /\ prefix_of(nodes[open[m]].qualified_name) = ""
  BY OpenScopes
<1>8. NoDefault(scopes) <=> ~\E j \in Ancestors(cursor) :
          nodes[j].uri # "" /\ prefix_of(nodes[j].qualified_name) = ""
  <2> DEFINE Default(j) == nodes[j].uri # "" /\ prefix_of(nodes[j].qualified_name) = ""
             Scoped(m) == "" \in DOMAIN scopes[m]
  <2>1. \A m \in 1..Len(open) : Scoped(m) <=> Default(open[m])
    BY <1>4, <1>7
  <2>2. NoDefault(scopes) <=> \A m \in 1..Len(open) : ~Scoped(m)
    BY <1>4 DEF NoDefault
  <2> HIDE DEF Default, Scoped
  <2>3. NoDefault(scopes) <=> ~\E j \in Ancestors(cursor) : Default(j)
    BY <1>3, <2>1, <2>2
  <2> QED BY <2>3 DEF Default
<1>9. Captured(cursor) <=> ~(node.uri # "" \/ NoDefault(scopes))
  BY <1>8 DEF Captured, node
<1> QED BY <1>6, <1>9 DEF Fine, node

\* Where the walk is at a child.
LEMMA AtChildFacts ==
    ASSUME IsWalk(nodes, cursor, open), AtChild
    PROVE  /\ cursor \in Nat /\ cursor - 1 \in Nat /\ (cursor - 1) + 1 = cursor
           /\ cursor \in DOMAIN nodes /\ cursor <= Len(nodes) /\ node.depth = Len(open)
           /\ Len(open) \in Nat
<1>1. Len(nodes) \in Nat /\ DOMAIN nodes = 1..Len(nodes) /\ cursor \in 1..(Len(nodes) + 1)
  BY LenProperties DEF IsWalk, IsDocument
<1>2. cursor <= Len(nodes) /\ node.depth = Len(open)
  BY DEF AtChild, node
<1>3. Len(open) \in Nat
  BY LenProperties DEF IsWalk
<1> QED BY <1>1, <1>2, <1>3

\* A text reads back exactly if it is as the parser leaves it.
LEMMA TextIsFine ==
    ASSUME IsWalk(nodes, cursor, open), ScopesInv, ReadInv, AtChild, node.kind = "Text",
           ReadText(escape_text(node.text))
    PROVE  /\ read' \in Seq(Range(read')) /\ Len(read') <= cursor
           /\ Agree(read', nodes, cursor) <=> Agree(read, nodes, cursor - 1) /\ TextAsParsed(cursor)
<1> DEFINE c == cursor
           t == escape_text(node.text)
           x == [kind |-> "Text", depth |-> Len(scopes), text |-> unescaped(t)]
<1>1. /\ c \in Nat /\ c - 1 \in Nat /\ (c - 1) + 1 = c
      /\ c \in DOMAIN nodes /\ node.depth = Len(open) /\ Len(open) \in Nat
      /\ node = nodes[c]
  BY AtChildFacts DEF node
<1>2. IsTextNode(node)
  BY <1>1 DEF IsWalk, IsDocument
<1>3. ~Holds(t, {"<", "&"}) /\ unescaped(t) = node.text /\ (t = <<>> <=> node.text = <<>>)
  BY <1>2, TextSurvives DEF IsTextNode
<1>4. scopes \in Seq(Range(scopes)) /\ Len(scopes) = Len(open)
  BY DEF ScopesInv
<1>5. read \in Seq(Range(read)) /\ Len(read) <= c - 1 /\ Len(read) \in Nat
  BY LenProperties DEF ReadInv
<1>6. x = node
  BY <1>1, <1>2, <1>3, <1>4 DEF IsTextNode
<1>7. /\ read' = IF t = <<>> THEN read
                 ELSE IF scopes = <<>> \/ Holds(t, {"<", "&"}) THEN Append(read, Refused)
                 ELSE IF AfterText THEN [read EXCEPT ![Len(read)].text = @ \o unescaped(t)]
                 ELSE Append(read, x)
  BY DEF ReadText
<1>8. \A q : Agree(q, nodes, c) => Len(q) = c
  BY DEF Agree
<1>9. TextAsParsed(c) <=> /\ node.depth > 0 /\ node.text # <<>>
                          /\ ~(nodes[c - 1].kind = "Text" /\ nodes[c - 1].depth = node.depth)
  BY <1>1 DEF TextAsParsed
<1>10. Agree(read, nodes, c - 1) => Len(read) = c - 1 /\ \A k \in 1..(c - 1) : read[k] = nodes[k]
  BY DEF Agree
<1>11. ASSUME NEW y, read' = Append(read, y)
       PROVE  /\ read' \in Seq(Range(read')) /\ Len(read') <= c
              /\ Agree(read', nodes, c) <=> Agree(read, nodes, c - 1) /\ y = nodes[c]
  <2> DEFINE n == c - 1
             q == read'
  <2>1. n \in Nat /\ n + 1 = c /\ Len(read) <= n
    BY <1>1, <1>5
  <2>2. IsPushed(q, read, y)
    BY <1>5, <1>11 DEF IsPushed
  <2> HIDE DEF n, q, c, t, x
  <2>3. /\ q \in Seq(Range(q)) /\ Len(q) <= n + 1
        /\ Agree(q, nodes, n + 1) <=> Agree(read, nodes, n) /\ y = nodes[n + 1]
    BY <2>1, <2>2, ReadOneMore
  <2> QED BY <2>1, <2>3 DEF n, q
<1>13. scopes = <<>> <=> node.depth = 0
  BY <1>1, <1>4, EmptySeq
<1> HIDE DEF t, x, c
<1>14. CASE t = <<>>
  <2>1. read' = read /\ ~TextAsParsed(c)
    BY <1>3, <1>7, <1>9, <1>14
  <2>2. ~Agree(read', nodes, c)
    BY <1>1, <1>5, <1>8, <2>1
  <2> QED BY <1>1, <1>5, <2>1, <2>2 DEF c
<1>15. CASE t # <<>> /\ scopes = <<>>
  <2>1. read' = Append(read, Refused)
    BY <1>7, <1>15
  <2>2. Refused # nodes[c]
    <3>1. Refused.kind = "refused" /\ nodes[c].kind = "Text"
      BY <1>1 DEF Refused
    <3> QED BY <3>1
  <2>3. ~TextAsParsed(c)
    BY <1>9, <1>13, <1>15
  <2> QED BY <1>11, <2>1, <2>2, <2>3 DEF c
<1>16. CASE t # <<>> /\ scopes # <<>> /\ AfterText
  <2>1. read' = [read EXCEPT ![Len(read)].text = @ \o unescaped(t)]
    BY <1>3, <1>7, <1>16
  <2>2. read' = [i \in DOMAIN read |-> read'[i]]
    BY <2>1
  <2>3. read' \in Seq(Range(read')) /\ Len(read') = Len(read)
    BY <1>5, <2>2, CharactersReplaced
  <2>4. ~Agree(read', nodes, c)
    BY <1>1, <1>5, <1>8, <2>3
  <2>5. ASSUME Agree(read, nodes, c - 1)
        PROVE  ~TextAsParsed(c)
    <3>1. Len(read) = c - 1 /\ \A k \in 1..(c - 1) : read[k] = nodes[k]
      BY <1>10, <2>5
    <3>2. read # <<>> /\ Last(read).kind = "Text" /\ Last(read).depth = Len(scopes)
      BY <1>16 DEF AfterText
    <3>3. Last(read) = read[Len(read)] /\ Len(read) \in Nat \ {0}
      BY <1>5, <3>2, PopFacts
    <3>4. c - 1 \in 1..(c - 1)
      BY <1>1, <3>1, <3>3
    <3>5. Last(read) = nodes[c - 1]
      BY <3>1, <3>3, <3>4
    <3> QED BY <1>1, <1>4, <1>9, <3>2, <3>5
  <2> QED BY <1>1, <1>5, <2>3, <2>4, <2>5 DEF c
<1>17. CASE t # <<>> /\ scopes # <<>> /\ ~AfterText
  <2>1. read' = Append(read, x)
    BY <1>3, <1>7, <1>17
  <2>2. x = nodes[c]
    BY <1>1, <1>6
  <2>3. ASSUME Agree(read, nodes, c - 1)
        PROVE  TextAsParsed(c)
    <3>1. Len(read) = c - 1 /\ \A k \in 1..(c - 1) : read[k] = nodes[k]
      BY <1>10, <2>3
    <3>2. node.depth > 0 /\ node.text # <<>> /\ Len(open) # 0
      BY <1>1, <1>3, <1>13, <1>17
    <3>3. c - 1 \in 1..(c - 1)
      <4>1. 1 \in 1..Len(open)
        BY <1>1, <3>2
      <4>2. open[1] \in 1..(c - 1)
        BY <4>1 DEF IsWalk, c
      <4> QED BY <1>1, <4>2
    <3>4. read[c - 1] = nodes[c - 1] /\ read # <<>>
      <4>1. read[c - 1] = nodes[c - 1] /\ Len(read) # 0
        BY <1>1, <3>1, <3>3
      <4> QED BY <4>1, EmptySeq
    <3>5. Last(read) = nodes[c - 1]
      BY <1>5, <3>1, <3>4, PopFacts
    <3>6. ~(Last(read).kind = "Text" /\ Last(read).depth = Len(scopes))
      BY <1>17, <3>4 DEF AfterText
    <3> QED BY <1>1, <1>4, <1>9, <3>2, <3>5, <3>6
  <2> QED BY <1>11, <2>1, <2>2, <2>3 DEF c
<1> QED BY <1>14, <1>15, <1>16, <1>17

\* What is fine stays so, while the document stays.
LEMMA FineStays ==
    ASSUME nodes' = nodes
    PROVE  \A k : Fine(k)' <=> Fine(k)
BY DEF Fine, Captured, Ancestors, TextAsParsed

\* One more node of the document has been written and read.
LEMMA ReadInvNext ==
    ASSUME IsWalk(nodes, cursor, open), AtChild, ReadInv, nodes' = nodes, cursor' = cursor + 1,
           read' \in Seq(Range(read')), Len(read') <= cursor,
           Agree(read', nodes, cursor) => Agree(read, nodes, cursor - 1),
           (\A k \in 1..(cursor - 1) : Fine(k)) => (Agree(read', nodes, cursor) <=> Fine(cursor))
    PROVE  ReadInv'
<1>1. cursor \in Nat /\ cursor - 1 \in Nat /\ cursor' - 1 = cursor /\ cursor \in 1..cursor
  BY AtChildFacts
<1>2. Agree(read, nodes, cursor - 1) <=> \A k \in 1..(cursor - 1) : Fine(k)
  BY DEF ReadInv
<1>3. (\A k \in 1..cursor : Fine(k)) <=> (\A k \in 1..(cursor - 1) : Fine(k)) /\ Fine(cursor)
  <2>1. /\ \A k \in 1..cursor : k \in 1..(cursor - 1) \/ k = cursor
        /\ \A k \in 1..(cursor - 1) : k \in 1..cursor
    BY <1>1
  <2> QED BY <1>1, <2>1
<1>4. Agree(read', nodes, cursor) <=> \A k \in 1..cursor : Fine(k)
  BY <1>2, <1>3
<1>5. \A k : Fine(k)' <=> Fine(k)
  BY FineStays
<1>6. Agree(read', nodes', cursor' - 1) <=> \A k \in 1..(cursor' - 1) : Fine(k)'
  BY <1>1, <1>4, <1>5
<1> QED BY <1>1, <1>6 DEF ReadInv

-----------------------------------------------------------------------------
(* The walk, action by action.                                              *)

\* Into an element: its scope is the innermost.
LEMMA ScopesPushed ==
    ASSUME ScopesInv, IsWalk(nodes, cursor, open), AtChild, nodes' = nodes,
           open' = Append(open, cursor), scopes' = Append(scopes, ScopeOf(node))
    PROVE  ScopesInv'
<1> DEFINE n == Len(open)
<1>1. /\ scopes \in Seq(Range(scopes)) /\ Len(scopes) = n
      /\ \A m \in 1..n : scopes[m] = ScopeOf(nodes[open[m]])
  BY DEF ScopesInv
<1>2. n \in Nat /\ cursor \in Nat /\ open \in Seq(Nat)
  BY AtChildFacts DEF IsWalk
<1>3. /\ Len(open') = n + 1 /\ open'[n + 1] = cursor
      /\ \A m \in 1..n : open'[m] = open[m]
  BY <1>2, PushFacts
<1>4. /\ scopes' \in Seq(Range(scopes')) /\ Len(scopes') = n + 1
      /\ scopes'[n + 1] = ScopeOf(node)
      /\ \A m \in 1..n : scopes'[m] = scopes[m]
  BY <1>1, SequencesGrow
<1> HIDE DEF n
<1>5. ASSUME NEW m \in 1..(n + 1)
      PROVE  scopes'[m] = ScopeOf(nodes'[open'[m]])
  <2>1. m \in 1..n \/ m = n + 1
    BY <1>2
  <2> QED BY <1>1, <1>3, <1>4, <2>1 DEF node
<1> QED BY <1>3, <1>4, <1>5 DEF ScopesInv

\* Out of the innermost element.
LEMMA ScopesPopped ==
    ASSUME ScopesInv, IsWalk(nodes, cursor, open), open # <<>>, nodes' = nodes,
           open' = Front(open), scopes' = Front(scopes)
    PROVE  ScopesInv'
<1> DEFINE n == Len(open)
<1>1. /\ scopes \in Seq(Range(scopes)) /\ Len(scopes) = n
      /\ \A m \in 1..n : scopes[m] = ScopeOf(nodes[open[m]])
  BY DEF ScopesInv
<1>2. /\ n \in Nat \ {0} /\ Len(open') = n - 1
      /\ \A m \in 1..(n - 1) : open'[m] = open[m]
  BY PopFacts DEF IsWalk
<1>3. scopes # <<>>
  <2>1. Len(scopes) # 0
    BY <1>1, <1>2
  <2> QED BY <2>1, EmptySeq
<1>4. /\ scopes' \in Seq(Range(scopes)) /\ Len(scopes') = n - 1
      /\ \A m \in 1..(n - 1) : scopes'[m] = scopes[m]
  BY <1>1, <1>3, PopFacts
<1>5. scopes' \in Seq(Range(scopes'))
  BY <1>4, SeqOfItsRange
<1> HIDE DEF n
<1>6. \A m \in 1..(n - 1) : m \in 1..n
  BY <1>2
<1>7. \A m \in 1..(n - 1) : scopes'[m] = ScopeOf(nodes'[open'[m]])
  BY <1>1, <1>2, <1>4, <1>6
<1> QED BY <1>2, <1>4, <1>5, <1>7 DEF ScopesInv

\* Before a document there is nothing.
LEMMA WalkStarts ==
    ASSUME NEW d, IsDocument(d)
    PROVE  /\ IsWalk(d, 1, <<>>)
           /\ Agree(<<>>, d, 1 - 1) /\ 1..(1 - 1) = {} /\ Len(<<>>) = 0
           /\ <<>> \in Seq(Range(<<>>))
<1>1. Len(d) \in Nat
  BY LenProperties DEF IsDocument
<1>2. 1 \in 1..(Len(d) + 1) /\ 1..(1 - 1) = {}
  BY <1>1
<1>3. <<>> \in Seq(Nat) /\ Len(<<>>) = 0 /\ 1..Len(<<>>) = {} /\ <<>> \in Seq(Range(<<>>))
  BY EmptySeq
<1> QED BY <1>2, <1>3 DEF IsWalk, Agree

\* At first nothing is written.
LEMMA InitWalkInv ==
    ASSUME Init
    PROVE  WalkInv
<1>1. IsDocument(nodes)
  BY DocumentsAssumption DEF Init, IsDocument
<1>2. cursor = 1 /\ open = <<>> /\ scopes = <<>> /\ read = <<>> /\ pc = "start"
  BY DEF Init
<1>3. ScopesInv /\ ReadInv
  BY <1>1, <1>2, WalkStarts DEF ScopesInv, ReadInv
<1> QED BY <1>1, <1>2, <1>3, WalkStarts DEF WalkInv

\* An edit leaves a document.
LEMMA EditWalkInv ==
    ASSUME WalkInv, WrittenInv, WrittenInv', NEW a \in Settings, edit(a)
    PROVE  WalkInv'
<1> DEFINE i == document_element
<1>1. /\ pc = "start" /\ pc' = "start"
      /\ UNCHANGED <<cursor, open, scopes, read>>
  BY DEF edit, reader
<1>2. cursor' = 1 /\ open' = <<>> /\ scopes' = <<>> /\ read' = <<>>
  BY <1>1 DEF WalkInv
<1>3. IsDocument(nodes)
  BY DEF WalkInv, IsWalk
<1>4. /\ DOMAIN nodes' = DOMAIN nodes
      /\ \A k \in DOMAIN nodes : k # i => nodes'[k] = nodes[k]
      /\ nodes' = [k \in DOMAIN nodes |-> nodes'[k]]
  <2> HIDE DEF i
  <2>1. CASE nodes' = [nodes EXCEPT ![i].attributes =
                          set_attribute_ns(@, a.uri, a.local_name, a.qualified_name, a.value)]
    BY <2>1
  <2>2. CASE nodes' = [nodes EXCEPT ![i].attributes = set_attribute(@, a.qualified_name, a.value)]
    BY <2>2
  <2> QED BY <2>1, <2>2 DEF edit, i
<1>5. nodes' \in Seq(Range(nodes'))
  BY <1>3, <1>4, CharactersReplaced DEF IsDocument
<1>6. nodes'[i].kind = "Element" /\ IsElement(nodes'[i])
  <2>1. /\ i \in DOMAIN nodes /\ IsDocumentElement(nodes[i])
        /\ \A j \in DOMAIN nodes : IsDocumentElement(nodes[j]) => j = i
    BY DEF WrittenInv, SetInv
  <2>2. PICK j \in DOMAIN nodes' : IsDocumentElement(nodes'[j]) /\ IsElement(nodes'[j])
    BY DEF WrittenInv, SetInv
  <2> HIDE DEF i
  <2>3. j = i
    <3>1. j # i => IsDocumentElement(nodes[j])
      BY <1>4, <2>2
    <3> QED BY <1>4, <2>1, <2>2, <3>1
  <2> QED BY <2>2, <2>3 DEF IsDocumentElement
<1>7. IsDocument(nodes')
  <2> HIDE DEF i
  <2> QED BY <1>3, <1>4, <1>5, <1>6 DEF IsDocument
<1>8. ScopesInv' /\ ReadInv'
  BY <1>2, <1>7, WalkStarts DEF ScopesInv, ReadInv
<1>9. IsWalk(nodes', cursor', open')
  BY <1>2, <1>7, WalkStarts
<1> QED BY <1>1, <1>2, <1>8, <1>9 DEF WalkInv

\* Steps that write nothing.
LEMMA QuietWalkInv ==
    ASSUME WalkInv, UNCHANGED <<nodes, cursor, open, scopes, read>>, good' => good,
           pc' = "start" => pc = "start", pc' = "done" => good' /\ cursor > Len(nodes)
    PROVE  WalkInv'
<1>1. \A k : Fine(k)' <=> Fine(k)
  BY FineStays
<1>2. ReadInv => ReadInv'
  BY <1>1 DEF ReadInv
<1>3. ScopesInv => ScopesInv'
  BY DEF ScopesInv
<1> QED BY <1>2, <1>3 DEF WalkInv

\* An element is written.
LEMMA ElementWalkInv ==
    ASSUME WalkInv, serialize_element
    PROVE  WalkInv'
<1>1. /\ AtChild /\ node.kind = "Element" /\ UNCHANGED <<pc, nodes, good>>
      /\ cursor' = cursor + 1 /\ pc = "writing"
      /\ open' = IF HasChildren(cursor) THEN Append(open, cursor) ELSE open
      /\ good => ReadTag(Tag(node), HasChildren(cursor))
  BY DEF serialize_element, Put, AtChild
<1>2. IsWalk(nodes, cursor, open)
  BY DEF WalkInv
<1>3. /\ cursor - 1 \in Nat /\ (cursor - 1) + 1 = cursor /\ cursor <= Len(nodes)
      /\ node = nodes[cursor] /\ nodes[cursor].depth = Len(open)
  BY <1>1, <1>2, AtChildFacts DEF node
<1>4. IsWalk(nodes', cursor', open')
  <2>1. open' = open \/ (open' = Append(open, cursor) /\ nodes[cursor].kind = "Element")
    BY <1>1, <1>3
  <2> QED BY <1>1, <1>2, <1>3, <2>1, WalkOn
<1>5. ASSUME good
      PROVE  ScopesInv' /\ ReadInv'
  <2>1. ScopesInv /\ ReadInv
    BY <1>5 DEF WalkInv
  <2>2. /\ read' = Append(read, TagRead(Tag(node)))
        /\ scopes' = IF HasChildren(cursor) THEN Append(scopes, ScopeOf(node)) ELSE scopes
    BY <1>1, <1>5 DEF ReadTag, ScopeOf
  <2>3. ScopesInv'
    <3>1. CASE HasChildren(cursor)
      BY <1>1, <1>2, <2>1, <2>2, <3>1, ScopesPushed
    <3>2. CASE ~HasChildren(cursor)
      BY <1>1, <2>1, <2>2, <3>2 DEF ScopesInv
    <3> QED BY <3>1, <3>2
  <2>4. IsPushed(read', read, TagRead(Tag(node))) /\ Len(read) <= cursor - 1
    BY <2>1, <2>2 DEF IsPushed, ReadInv
  <2>5. /\ read' \in Seq(Range(read')) /\ Len(read') <= cursor
        /\ Agree(read', nodes, cursor) <=>
              Agree(read, nodes, cursor - 1) /\ TagRead(Tag(node)) = node
    <3> DEFINE n == cursor - 1
               x == TagRead(Tag(node))
               q == read'
    <3>1. n \in Nat /\ n + 1 = cursor /\ IsPushed(q, read, x) /\ Len(read) <= n
      BY <1>3, <2>4
    <3> HIDE DEF n, x, q
    <3>2. /\ q \in Seq(Range(q)) /\ Len(q) <= n + 1
          /\ Agree(q, nodes, n + 1) <=> Agree(read, nodes, n) /\ x = nodes[n + 1]
      BY <3>1, ReadOneMore
    <3> QED BY <1>3, <3>1, <3>2 DEF n, x, q
  <2>6. (\A k \in 1..(cursor - 1) : Fine(k)) => (Agree(read', nodes, cursor) <=> Fine(cursor))
    <3>1. (\A k \in 1..(cursor - 1) : Fine(k)) => (TagRead(Tag(node)) = node <=> Fine(cursor))
      BY <1>1, <1>2, <2>1, ElementIsFine
    <3>2. Agree(read, nodes, cursor - 1) <=> \A k \in 1..(cursor - 1) : Fine(k)
      BY <2>1 DEF ReadInv
    <3> QED BY <2>5, <3>1, <3>2
  <2>7. ReadInv'
    BY <1>1, <1>2, <2>1, <2>5, <2>6, ReadInvNext
  <2> QED BY <2>3, <2>7
<1> QED BY <1>1, <1>4, <1>5 DEF WalkInv

\* A text or what is written as it is.
LEMMA LeafWalkInv ==
    ASSUME WalkInv, serialize_leaf
    PROVE  WalkInv'
<1>1. /\ AtChild /\ UNCHANGED <<pc, nodes, open, good>>
      /\ cursor' = cursor + 1 /\ pc = "writing"
  BY DEF serialize_leaf, AtChild
<1>2. IsWalk(nodes, cursor, open)
  BY DEF WalkInv
<1>3. /\ cursor - 1 \in Nat /\ (cursor - 1) + 1 = cursor /\ cursor <= Len(nodes)
      /\ node = nodes[cursor] /\ nodes[cursor].depth = Len(open)
  BY <1>1, <1>2, AtChildFacts DEF node
<1>4. IsWalk(nodes', cursor', open')
  BY <1>1, <1>2, <1>3, WalkOn
<1>5. ASSUME good
      PROVE  ScopesInv' /\ ReadInv'
  <2>1. ScopesInv /\ ReadInv
    BY <1>5 DEF WalkInv
  <2>2. \/ node.kind = "Text" /\ ReadText(escape_text(node.text))
        \/ node.kind = "Leaf" /\ ReadLeaf(node)
    BY <1>5 DEF serialize_leaf, Put
  <2>3. ScopesInv'
    BY <1>1, <2>1, <2>2 DEF ReadText, ReadLeaf, ScopesInv
  <2>4. CASE node.kind = "Text" /\ ReadText(escape_text(node.text))
    <3>1. /\ read' \in Seq(Range(read')) /\ Len(read') <= cursor
          /\ Agree(read', nodes, cursor) <=> Agree(read, nodes, cursor - 1) /\ TextAsParsed(cursor)
      BY <1>1, <1>2, <2>1, <2>4, TextIsFine
    <3>2. Fine(cursor) <=> TextAsParsed(cursor)
      BY <1>3, <2>4 DEF Fine
    <3>3. Agree(read, nodes, cursor - 1) <=> \A k \in 1..(cursor - 1) : Fine(k)
      BY <2>1 DEF ReadInv
    <3>4. (\A k \in 1..(cursor - 1) : Fine(k)) => (Agree(read', nodes, cursor) <=> Fine(cursor))
      BY <3>1, <3>2, <3>3
    <3>5. ReadInv'
      BY <1>1, <1>2, <2>1, <3>1, <3>4, ReadInvNext
    <3> QED BY <2>3, <3>5
  <2>5. CASE node.kind = "Leaf" /\ ReadLeaf(node)
    <3>1. IsPushed(read', read, node) /\ Len(read) <= cursor - 1
      BY <2>1, <2>5 DEF IsPushed, ReadInv, ReadLeaf
    <3>2. /\ read' \in Seq(Range(read')) /\ Len(read') <= cursor
          /\ Agree(read', nodes, cursor) <=> Agree(read, nodes, cursor - 1)
      <4> DEFINE n == cursor - 1
                 q == read'
                 x == node
      <4>1. n \in Nat /\ n + 1 = cursor /\ IsPushed(q, read, x) /\ Len(read) <= n
        BY <1>3, <3>1
      <4> HIDE DEF n, q, x
      <4>2. /\ q \in Seq(Range(q)) /\ Len(q) <= n + 1
            /\ Agree(q, nodes, n + 1) <=> Agree(read, nodes, n) /\ x = nodes[n + 1]
        BY <4>1, ReadOneMore
      <4> QED BY <1>3, <4>1, <4>2 DEF n, q, x
    <3>3. Fine(cursor)
      BY <1>3, <2>5 DEF Fine
    <3>4. Agree(read, nodes, cursor - 1) <=> \A k \in 1..(cursor - 1) : Fine(k)
      BY <2>1 DEF ReadInv
    <3>5. (\A k \in 1..(cursor - 1) : Fine(k)) => (Agree(read', nodes, cursor) <=> Fine(cursor))
      BY <3>2, <3>3, <3>4
    <3>6. ReadInv'
      BY <1>1, <1>2, <2>1, <3>2, <3>5, ReadInvNext
    <3> QED BY <2>3, <3>6
  <2> QED BY <2>2, <2>4, <2>5
<1> QED BY <1>1, <1>4, <1>5 DEF WalkInv

\* An end tag.
LEMMA EndTagWalkInv ==
    ASSUME WalkInv, serialize_end_tag
    PROVE  WalkInv'
<1>1. /\ open # <<>> /\ open' = Front(open) /\ pc = "writing"
      /\ UNCHANGED <<pc, nodes, cursor, good>>
      /\ good => scopes' = Front(scopes) /\ read' = read
  BY DEF serialize_end_tag, Put, ReadEnd
<1>2. IsWalk(nodes, cursor, open)
  BY DEF WalkInv
<1>3. IsWalk(nodes', cursor', open')
  BY <1>1, <1>2, WalkBack
<1>4. ASSUME good
      PROVE  ScopesInv' /\ ReadInv'
  <2>1. ScopesInv /\ ReadInv
    BY <1>4 DEF WalkInv
  <2>2. ScopesInv'
    BY <1>1, <1>2, <1>4, <2>1, ScopesPopped
  <2>3. \A k : Fine(k)' <=> Fine(k)
    BY <1>1, FineStays
  <2>4. ReadInv'
    BY <1>1, <1>4, <2>1, <2>3 DEF ReadInv
  <2> QED BY <2>2, <2>4
<1> QED BY <1>1, <1>3, <1>4 DEF WalkInv

\* Every step keeps what is read in step with what is written.
LEMMA NextWalkInv ==
    ASSUME WalkInv, WrittenInv, WrittenInv', [Next]_vars
    PROVE  WalkInv'
<1>1. CASE \E a \in Settings : edit(a)
  BY <1>1, EditWalkInv
<1>2. CASE serialize_element
  BY <1>2, ElementWalkInv
<1>3. CASE serialize_leaf
  BY <1>3, LeafWalkInv
<1>4. CASE serialize_end_tag
  BY <1>4, EndTagWalkInv
<1>5. CASE begin
  BY <1>5, QuietWalkInv DEF begin, reader
<1>6. CASE serialize_returns
  BY <1>6, QuietWalkInv DEF serialize_returns, reader
<1>7. CASE stream_fails
  BY <1>7, QuietWalkInv DEF stream_fails, reader
<1>8. CASE UNCHANGED vars
  <2>1. pc = "done" => good /\ cursor > Len(nodes)
    BY DEF WalkInv
  <2> QED BY <1>8, <2>1, QuietWalkInv DEF vars, reader
<1> QED BY <1>1, <1>2, <1>3, <1>4, <1>5, <1>6, <1>7, <1>8 DEF Next

\* At the end of the walk every node is fine or one does not read back: besides
\* the documents of ReadsBack, none does.
LEMMA DoneReadsBack ==
    ASSUME WalkInv, pc = "done"
    PROVE  read = nodes <=> AsParsed /\ \A i \in Elements : ~Captured(i)
<1>1. /\ cursor > Len(nodes) /\ cursor \in 1..(Len(nodes) + 1) /\ ReadInv
      /\ nodes \in Seq(Range(nodes))
  BY DEF WalkInv, IsWalk, IsDocument
<1>2. /\ Len(nodes) \in Nat /\ DOMAIN nodes = 1..Len(nodes)
      /\ nodes = [k \in DOMAIN nodes |-> nodes[k]]
  BY <1>1, LenProperties
<1>3. cursor - 1 = Len(nodes)
  BY <1>1, <1>2
<1>4. Agree(read, nodes, Len(nodes)) <=> \A k \in DOMAIN nodes : Fine(k)
  BY <1>1, <1>2, <1>3 DEF ReadInv
<1>5. (\A k \in DOMAIN nodes : Fine(k)) <=> AsParsed /\ \A i \in Elements : ~Captured(i)
  BY DEF Fine, AsParsed, TextsAsParsed, Elements
<1>6. Agree(read, nodes, Len(nodes)) <=> read = nodes
  <2>1. /\ Len(read) \in Nat /\ DOMAIN read = 1..Len(read)
        /\ read = [k \in DOMAIN read |-> read[k]]
    BY <1>1, LenProperties DEF ReadInv
  <2>2. ASSUME Agree(read, nodes, Len(nodes))
        PROVE  read = nodes
    <3>1. DOMAIN read = DOMAIN nodes /\ \A k \in DOMAIN nodes : read[k] = nodes[k]
      BY <1>2, <2>1, <2>2 DEF Agree
    <3> QED BY <1>2, <2>1, <3>1
  <2>3. read = nodes => Agree(read, nodes, Len(nodes))
    BY DEF Agree
  <2> QED BY <2>2, <2>3
<1> QED BY <1>4, <1>5, <1>6

\* What serialize returns from writing reads back as the document if its names
\* and texts are such as the parser makes and no element is captured by a
\* default namespace: for all documents and settings, however deep and whenever
\* the stream fails.
THEOREM AlwaysReadsBack == Spec => []ReadsBack
<1>1. Init => WrittenInv /\ WalkInv
  BY InitWrittenInv, InitWalkInv
<1>2. WrittenInv /\ WalkInv /\ [Next]_vars => (WrittenInv /\ WalkInv)'
  BY NextWrittenInv, NextWalkInv
<1>3. WalkInv => ReadsBack
  BY DoneReadsBack DEF ReadsBack
<1> QED BY <1>1, <1>2, <1>3, PTL DEF Spec
=============================================================================
