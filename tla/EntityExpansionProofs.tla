----------------------- MODULE EntityExpansionProofs -----------------------
(***************************************************************************)
(* The bounds on entity expansion, for every DTD and all limits.           *)
(*                                                                         *)
(* RecursionIsBounded is inductive with the types: each call is entered    *)
(* right after a count that was within the limit.  ExpansionIsBounded      *)
(* needs to know that the texts being expanded are declared ones, because  *)
(* the length of a declared text is what the unmeasured tail of an         *)
(* expansion is bounded by.                                                *)
(*                                                                         *)
(* That only a grounded entity delivers needs the order of the calls: each *)
(* one expands the reference its caller is at, and what a call has passed  *)
(* is grounded.                                                            *)
(* What it delivers is the substitution: a call has expanded, up to its    *)
(* cursor, what its text stands for, not to one depth but to every depth   *)
(* that reaches down as far as the calls still may go.                     *)
(*                                                                         *)
(* The last part is about the other references, those to characters, which *)
(* a machine of their own reads: its value never wraps around, and what it *)
(* accepts is what the digits of the reference, each with its weight, add  *)
(* up to: the number made by the digits already read, with the weights of  *)
(* those to come, always adds up to what is denoted.                       *)
(***************************************************************************)
EXTENDS EntityExpansion, CharacterReference, SequenceLemmas

\* Every text under expansion is the text of a declared entity.
TextsAreDeclared == \A i \in DOMAIN calls : \E n \in DOMAIN entities : calls[i].text = entities[n]

ExpansionInv ==
    /\ TypeOK
    /\ TextsAreDeclared
    /\ RecursionIsBounded
    /\ ExpansionIsBounded

\* What ExpansionInv says of one call.
CallOK(c) ==
    /\ c \in Calls
    /\ c.cursor <= Len(c.text) + 1
    /\ \E n \in DOMAIN entities : c.text = entities[n]
    /\ Len(c.expanded) <= max_entity_replacement_bytes + c.cursor - 1

\* The part of ExpansionInv about the calls, for a sequence of calls.
CallsOK(s) == s \in Seq(Calls) /\ \A i \in 1..Len(s) : CallOK(s[i])

-----------------------------------------------------------------------------
\* The stack of calls is in order exactly when each call is.
LEMMA CallsSplit ==
    TypeOK /\ TextsAreDeclared /\ ExpansionIsBounded => CallsOK(calls)
<1> SUFFICES ASSUME TypeOK, TextsAreDeclared, ExpansionIsBounded PROVE CallsOK(calls)
  OBVIOUS
<1>1. calls \in Seq(Calls) /\ DOMAIN calls = 1..Len(calls)
  BY LenProperties DEF TypeOK
<1>2. ASSUME NEW i \in 1..Len(calls) PROVE CallOK(calls[i])
  <2>1. calls[i] \in Calls
    BY <1>1, ElementOfSeq
  <2> QED BY <1>1, <2>1 DEF CallOK, TypeOK, TextsAreDeclared, ExpansionIsBounded
<1> QED BY <1>1, <1>2 DEF CallsOK

\* A new call is in order.
LEMMA NewCallOK ==
    ASSUME TypeOK, NEW n \in DOMAIN entities
    PROVE  CallOK(Call(entities[n]))
<1>1. entities \in EntityTables
  BY DEF TypeOK
<1>2. entities[n] \in Seq(Pieces)
  BY <1>1, TablesAssumption
<1>3. Len(entities[n]) \in Nat
  BY <1>2, LenProperties
<1>4. <<>> \in Seq(Bytes) /\ Len(<<>>) = 0
  BY EmptySeq
<1> QED BY <1>2, <1>3, <1>4, LimitsAssumption DEF CallOK, Call, Calls

\* What extending a call changes.
LEMMA ExtendedShape ==
    ASSUME NEW c \in Calls, NEW b \in Seq(Bytes)
    PROVE  /\ extended(c, b) \in Calls
           /\ extended(c, b).text = c.text
           /\ extended(c, b).cursor = c.cursor + 1
           /\ extended(c, b).expanded = c.expanded \o b
<1>1. PICK t \in Seq(Pieces), k \in Nat \ {0}, e \in Seq(Bytes) :
        c = [text |-> t, cursor |-> k, expanded |-> e]
  BY DEF Calls
<1>2. e \o b \in Seq(Bytes)
  BY ConcatProperties
<1>3. extended(c, b) = [text |-> t, cursor |-> k + 1, expanded |-> e \o b]
  <2>1. c.text = t /\ c.cursor = k /\ c.expanded = e
    BY <1>1
  <2> QED BY <2>1 DEF extended
<1>4. k + 1 \in Nat \ {0}
  OBVIOUS
<1>5. [text |-> t, cursor |-> k + 1, expanded |-> e \o b] \in Calls
  BY <1>2, <1>4 DEF Calls
<1> QED BY <1>1, <1>3, <1>5

\* A call that is extended after its length was measured is in order.
LEMMA ExtendedCallOK ==
    ASSUME NEW c, CallOK(c), c.cursor <= Len(c.text), NEW b \in Seq(Bytes),
           ~TooLong(extended(c, b))
    PROVE  CallOK(extended(c, b))
<1>1. c \in Calls /\ c.text \in Seq(Pieces) /\ c.cursor \in Nat \ {0} /\ c.expanded \in Seq(Bytes)
  BY DEF CallOK, Calls
<1>2. c.expanded \o b \in Seq(Bytes) /\ Len(c.expanded \o b) \in Nat
  BY <1>1, ConcatProperties, LenProperties
<1>3. Len(c.text) \in Nat
  BY <1>1, LenProperties
<1>4. /\ extended(c, b) \in Calls
      /\ extended(c, b).text = c.text
      /\ extended(c, b).cursor = c.cursor + 1
      /\ extended(c, b).expanded = c.expanded \o b
  BY <1>1, ExtendedShape
<1>5. Len(c.expanded \o b) <= max_entity_replacement_bytes
  BY <1>2, <1>4, LimitsAssumption DEF TooLong
<1> QED BY <1>1, <1>2, <1>3, <1>4, <1>5, LimitsAssumption DEF CallOK

\* A call that copies a byte stays within the limit and what it has copied.
LEMMA CopiedCallOK ==
    ASSUME NEW c, CallOK(c), c.cursor <= Len(c.text), NEW b \in Seq(Bytes), Len(b) = 1
    PROVE  CallOK(extended(c, b))
<1>1. c \in Calls /\ c.text \in Seq(Pieces) /\ c.cursor \in Nat \ {0} /\ c.expanded \in Seq(Bytes)
  BY DEF CallOK, Calls
<1>2. c.expanded \o b \in Seq(Bytes) /\ Len(c.expanded \o b) = Len(c.expanded) + 1
  <2>1. Len(c.expanded \o b) = Len(c.expanded) + Len(b)
    BY <1>1, ConcatProperties
  <2> QED BY <1>1, <2>1, ConcatProperties
<1>3. Len(c.text) \in Nat /\ Len(c.expanded) \in Nat
  BY <1>1, LenProperties
<1>4. /\ extended(c, b) \in Calls
      /\ extended(c, b).text = c.text
      /\ extended(c, b).cursor = c.cursor + 1
      /\ extended(c, b).expanded = c.expanded \o b
  BY <1>1, ExtendedShape
<1> QED BY <1>1, <1>2, <1>3, <1>4, LimitsAssumption DEF CallOK

\* Pushing a call in order, and changing the innermost one to another in
\* order, keeps the stack in order.
LEMMA CallsChange ==
    ASSUME NEW s, CallsOK(s), NEW c, CallOK(c)
    PROVE  /\ CallsOK(Append(s, c)) /\ Len(Append(s, c)) = Len(s) + 1 /\ Append(s, c) # <<>>
           /\ s # <<>> => /\ CallsOK([s EXCEPT ![Len(s)] = c])
                          /\ Len([s EXCEPT ![Len(s)] = c]) = Len(s)
                          /\ [s EXCEPT ![Len(s)] = c] # <<>>
                          /\ CallsOK(Front(s))
                          /\ Len(Front(s)) = Len(s) - 1
                          /\ Last(s) = s[Len(s)]
                          /\ CallOK(Last(s))
                          /\ Len(s) \in Nat \ {0}
                          /\ Front(s) = <<>> <=> Len(s) = 1
<1>1. s \in Seq(Calls) /\ c \in Calls /\ Len(s) \in Nat
  BY LenProperties DEF CallsOK, CallOK
<1>2. /\ CallsOK(Append(s, c)) /\ Len(Append(s, c)) = Len(s) + 1 /\ Append(s, c) # <<>>
  <2>1. /\ Append(s, c) \in Seq(Calls) /\ Len(Append(s, c)) = Len(s) + 1
        /\ Append(s, c)[Len(s) + 1] = c /\ Append(s, c) # <<>>
        /\ \A i \in 1..Len(s) : Append(s, c)[i] = s[i]
    BY <1>1, PushFacts
  <2>2. \A i \in 1..(Len(s) + 1) : i \in 1..Len(s) \/ i = Len(s) + 1
    BY <1>1
  <2>3. \A i \in 1..(Len(s) + 1) : CallOK(Append(s, c)[i])
    BY <2>1, <2>2 DEF CallsOK
  <2> QED BY <2>1, <2>3 DEF CallsOK
<1>3. ASSUME s # <<>>
      PROVE  /\ CallsOK([s EXCEPT ![Len(s)] = c])
             /\ Len([s EXCEPT ![Len(s)] = c]) = Len(s)
             /\ [s EXCEPT ![Len(s)] = c] # <<>>
  <2> DEFINE t == [s EXCEPT ![Len(s)] = c]
  <2>1. /\ t \in Seq(Calls) /\ Len(t) = Len(s) /\ t[Len(s)] = c
        /\ \A i \in 1..Len(s) : i # Len(s) => t[i] = s[i]
    BY <1>1, <1>3, TopFacts
  <2> HIDE DEF t
  <2>2. \A i \in 1..Len(s) : CallOK(t[i])
    BY <2>1 DEF CallsOK
  <2>3. t # <<>>
    BY <1>1, <1>3, <2>1, EmptySeq
  <2> QED BY <2>1, <2>2, <2>3 DEF CallsOK, t
<1>4. ASSUME s # <<>>
      PROVE  /\ CallsOK(Front(s))
             /\ Len(Front(s)) = Len(s) - 1
             /\ Last(s) = s[Len(s)]
             /\ CallOK(Last(s))
             /\ Len(s) \in Nat \ {0}
             /\ Front(s) = <<>> <=> Len(s) = 1
  <2>1. /\ Front(s) \in Seq(Calls) /\ Len(Front(s)) = Len(s) - 1
        /\ \A i \in 1..(Len(s) - 1) : Front(s)[i] = s[i]
        /\ Last(s) = s[Len(s)] /\ Len(s) \in Nat \ {0}
        /\ Front(s) = <<>> <=> Len(s) = 1
    BY <1>1, <1>4, PopFacts
  <2>2. \A i \in 1..(Len(s) - 1) : i \in 1..Len(s)
    BY <2>1
  <2>3. \A i \in 1..Len(Front(s)) : CallOK(Front(s)[i])
    BY <2>1, <2>2 DEF CallsOK
  <2>4. CallOK(Last(s))
    BY <2>1 DEF CallsOK
  <2> QED BY <2>1, <2>3, <2>4 DEF CallsOK
<1> QED BY <1>2, <1>3, <1>4

\* Entering a call from one that is at a reference, returning to the caller
\* and extending the innermost call keep the callers waiting.
LEMMA CallersKeepWaiting ==
    ASSUME NEW s, CallsOK(s), CallersWait(s), NEW c, CallOK(c)
    PROVE  /\ (s = <<>> \/ Last(s).cursor <= Len(Last(s).text)) => CallersWait(Append(s, c))
           /\ s # <<>> => /\ CallersWait([s EXCEPT ![Len(s)] = c])
                          /\ CallersWait(Front(s))
           /\ Len(s) > 1 => Last(Front(s)).cursor <= Len(Last(Front(s)).text)
<1>1. s \in Seq(Calls) /\ c \in Calls /\ Len(s) \in Nat
  BY LenProperties DEF CallsOK, CallOK
<1>2. ASSUME s = <<>> \/ Last(s).cursor <= Len(Last(s).text)
      PROVE  CallersWait(Append(s, c))
  <2>1. Len(Append(s, c)) = Len(s) + 1 /\ \A i \in 1..Len(s) : Append(s, c)[i] = s[i]
    BY <1>1, PushFacts
  <2>2. \A i \in 1..Len(s) : s[i].cursor <= Len(s[i].text)
    <3>1. CASE s = <<>>
      BY <3>1, EmptySeq
    <3>2. CASE s # <<>> /\ Last(s).cursor <= Len(Last(s).text)
      <4>1. Last(s) = s[Len(s)]
        BY <1>1, <3>2, PopFacts
      <4>2. s[Len(s)].cursor <= Len(s[Len(s)].text)
        BY <3>2, <4>1
      <4>3. \A i \in 1..Len(s) : i \in 1..(Len(s) - 1) \/ i = Len(s)
        BY <1>1
      <4> QED BY <4>2, <4>3 DEF CallersWait
    <3> QED BY <1>2, <3>1, <3>2
  <2>3. 1..(Len(Append(s, c)) - 1) = 1..Len(s)
    BY <1>1, <2>1
  <2>4. \A i \in 1..Len(s) : Append(s, c)[i].cursor <= Len(Append(s, c)[i].text)
    BY <2>1, <2>2
  <2> QED BY <2>3, <2>4 DEF CallersWait
<1>3. ASSUME s # <<>> PROVE CallersWait([s EXCEPT ![Len(s)] = c])
  <2> DEFINE t == [s EXCEPT ![Len(s)] = c]
  <2>1. Len(t) = Len(s) /\ \A i \in 1..Len(s) : i # Len(s) => t[i] = s[i]
    BY <1>1, <1>3, TopFacts
  <2> HIDE DEF t
  <2>2. \A i \in 1..(Len(s) - 1) : i \in 1..Len(s) /\ i # Len(s)
    BY <1>1
  <2>3. \A i \in 1..(Len(s) - 1) : t[i].cursor <= Len(t[i].text)
    BY <2>1, <2>2 DEF CallersWait
  <2>4. CallersWait(t)
    BY <2>1, <2>3 DEF CallersWait
  <2> QED BY <2>4 DEF t
<1>4. ASSUME s # <<>>
      PROVE  /\ CallersWait(Front(s))
             /\ Len(s) > 1 => Last(Front(s)).cursor <= Len(Last(Front(s)).text)
  <2>1. /\ Front(s) \in Seq(Calls) /\ Len(Front(s)) = Len(s) - 1
        /\ \A i \in 1..(Len(s) - 1) : Front(s)[i] = s[i]
        /\ Front(s) = <<>> <=> Len(s) = 1
    BY <1>1, <1>4, PopFacts
  <2>2. \A i \in 1..(Len(s) - 1) : Front(s)[i].cursor <= Len(Front(s)[i].text)
    BY <2>1 DEF CallersWait
  <2>3. \A i \in 1..(Len(Front(s)) - 1) : i \in 1..(Len(s) - 1)
    BY <1>1, <2>1
  <2>4. CallersWait(Front(s))
    BY <2>2, <2>3 DEF CallersWait
  <2>5. ASSUME Len(s) > 1 PROVE Last(Front(s)).cursor <= Len(Last(Front(s)).text)
    <3>1. Front(s) # <<>>
      BY <2>1, <2>5
    <3>2. Last(Front(s)) = Front(s)[Len(s) - 1]
      BY <2>1, <3>1, PopFacts
    <3>3. Len(s) - 1 \in 1..(Len(s) - 1)
      BY <1>1, <2>5
    <3> QED BY <2>2, <3>2, <3>3
  <2> QED BY <2>4, <2>5
<1>5. Len(s) > 1 => s # <<>>
  BY EmptySeq
<1> QED BY <1>2, <1>3, <1>4, <1>5

\* How the next stack of calls meets its part of the invariant.
LEMMA CallsJoin ==
    ASSUME CallsOK(calls'), UNCHANGED entities,
           Len(expansion') <= 2 * max_entity_replacement_bytes
    PROVE  /\ calls' \in Seq(Calls)
           /\ \A i \in DOMAIN calls' : calls'[i].cursor <= Len(calls'[i].text) + 1
           /\ TextsAreDeclared'
           /\ ExpansionIsBounded'
<1>1. calls' \in Seq(Calls) /\ DOMAIN calls' = 1..Len(calls')
  BY LenProperties DEF CallsOK
<1>2. \A i \in 1..Len(calls') : /\ calls'[i].cursor <= Len(calls'[i].text) + 1
                                /\ \E n \in DOMAIN entities' : calls'[i].text = entities'[n]
                                /\ Len(calls'[i].expanded) <=
                                      max_entity_replacement_bytes + calls'[i].cursor - 1
  BY DEF CallsOK, CallOK
<1> QED BY <1>1, <1>2 DEF TextsAreDeclared, ExpansionIsBounded

-----------------------------------------------------------------------------
\* Nothing is expanded before the first reference.
LEMMA InitExpansionInv == Init => ExpansionInv
<1> SUFFICES ASSUME Init PROVE ExpansionInv
  OBVIOUS
<1>1. /\ <<>> \in Seq(Bytes) /\ <<>> \in Seq(Calls)
      /\ Len(<<>>) = 0 /\ DOMAIN <<>> = {}
  <2>1. <<>> \in Seq(Bytes) /\ <<>> \in Seq(Calls) /\ Len(<<>>) = 0
    BY EmptySeq
  <2> QED BY <2>1, LenProperties
<1>2. TypeOK
  BY <1>1 DEF Init, TypeOK, CallersWait
<1>3. TextsAreDeclared
  BY <1>1 DEF Init, TextsAreDeclared
<1>4. RecursionIsBounded
  BY <1>1, LimitsAssumption DEF Init, RecursionIsBounded
<1>5. ExpansionIsBounded
  BY <1>1, LimitsAssumption DEF Init, ExpansionIsBounded
<1> QED BY <1>2, <1>3, <1>4, <1>5 DEF ExpansionInv

\* Failing keeps the invariant, if one more reference has been counted at
\* most.
LEMMA FailKeepsInv ==
    ASSUME ExpansionInv, NEW kind \in {"ResourceLimit", "Validity", "WellFormedness"}, fail(kind),
           UNCHANGED <<entities, validating>>,
           references' \in 0..MaxReferences, reference' \in EntityNames,
           \/ UNCHANGED entity_expansions
           \/ pc # "failed" /\ count
    PROVE  ExpansionInv'
<1>1. TypeOK /\ TextsAreDeclared /\ RecursionIsBounded /\ ExpansionIsBounded
  BY DEF ExpansionInv
<1>2. pc' = "failed" /\ error' = kind /\ UNCHANGED <<calls, expansion, entities, validating>>
  BY DEF fail
<1>3. Len(calls) \in Nat /\ entity_expansions \in Nat
  BY <1>1, LenProperties DEF TypeOK
<1>4. TypeOK'
  BY <1>1, <1>2, <1>3 DEF TypeOK, CallersWait, count
<1>5. TextsAreDeclared' /\ ExpansionIsBounded'
  BY <1>1, <1>2 DEF TextsAreDeclared, ExpansionIsBounded
<1>6. RecursionIsBounded'
  BY <1>1, <1>2, <1>3, LimitsAssumption DEF RecursionIsBounded, count
<1> QED BY <1>4, <1>5, <1>6 DEF ExpansionInv

\* What is left to show of a step that does not fail.
LEMMA StepKeepsInv ==
    ASSUME ExpansionInv,
           pc' \in {"text", "expanding", "done"}, error' = "none",
           UNCHANGED <<entities, validating>>,
           references' \in 0..MaxReferences, reference' \in EntityNames,
           CallsOK(calls'), CallersWait(calls'), pc' = "expanding" <=> calls' # <<>>,
           expansion' \in Seq(Bytes), Len(expansion') <= 2 * max_entity_replacement_bytes,
           entity_expansions' \in Nat, entity_expansions' <= max_entity_expansions,
           Len(calls') <= entity_expansions'
    PROVE  ExpansionInv'
<1>1. /\ calls' \in Seq(Calls)
      /\ \A i \in DOMAIN calls' : calls'[i].cursor <= Len(calls'[i].text) + 1
      /\ TextsAreDeclared'
      /\ ExpansionIsBounded'
  BY CallsJoin
<1>2. TypeOK'
  BY <1>1 DEF ExpansionInv, TypeOK, CallersWait
<1>3. Len(calls') \in Nat
  BY <1>1, LenProperties
<1>4. RecursionIsBounded'
  BY <1>3, LimitsAssumption DEF RecursionIsBounded
<1> QED BY <1>1, <1>2, <1>4 DEF ExpansionInv

\* A call is entered within the count; the guard on depth never decides.
LEMMA EnterKeepsInv ==
    ASSUME ExpansionInv, pc \in {"text", "expanding"}, NEW n \in DOMAIN entities,
           count, WithinExpansions, Enter(entities[n]),
           calls = <<>> \/ current.cursor <= Len(current.text),
           UNCHANGED <<entities, validating>>,
           references' \in 0..MaxReferences, reference' \in EntityNames
    PROVE  ExpansionInv'
<1>1. TypeOK /\ TextsAreDeclared /\ RecursionIsBounded /\ ExpansionIsBounded
  BY DEF ExpansionInv
<1>2. /\ calls \in Seq(Calls) /\ Len(calls) \in Nat
      /\ entity_expansions \in Nat /\ entity_expansions' = entity_expansions + 1
      /\ entity_expansions' <= max_entity_expansions
      /\ error = "none"
  BY <1>1, LenProperties DEF TypeOK, count, WithinExpansions
<1>3. CallsOK(calls) /\ CallOK(Call(entities[n]))
  BY <1>1, CallsSplit, NewCallOK
<1>4. CASE Len(calls) > max_entity_expansions
  BY <1>1, <1>2, <1>4, LimitsAssumption DEF RecursionIsBounded
<1>5. CASE ~(Len(calls) > max_entity_expansions)
  <2>1. /\ calls' = Append(calls, Call(entities[n]))
        /\ pc' = "expanding"
        /\ UNCHANGED <<expansion, error>>
    BY <1>5 DEF Enter
  <2>2. CallsOK(calls') /\ Len(calls') = Len(calls) + 1 /\ calls' # <<>>
    BY <1>3, <2>1, CallsChange
  <2>0. CallersWait(calls')
    BY <1>1, <1>3, <2>1, CallersKeepWaiting DEF TypeOK, current
  <2>3. Len(calls') <= entity_expansions' /\ entity_expansions' \in Nat
    BY <1>1, <1>2, <2>2 DEF RecursionIsBounded
  <2>4. expansion' \in Seq(Bytes) /\ Len(expansion') <= 2 * max_entity_replacement_bytes
    BY <1>1, <2>1 DEF TypeOK, ExpansionIsBounded
  <2> QED BY <1>2, <2>0, <2>1, <2>2, <2>3, <2>4, StepKeepsInv
<1> QED BY <1>4, <1>5

\* What a reference stands for is taken into a call that is in order.
LEMMA ResumeKeepsInv ==
    ASSUME ExpansionInv, pc = "expanding",
           NEW open, CallsOK(open), CallersWait(open), open # <<>>, Len(open) <= Len(calls),
           Last(open).cursor <= Len(Last(open).text),
           NEW b \in Seq(Bytes), Resume(open, b),
           UNCHANGED entity_expansions \/ (count /\ WithinExpansions),
           UNCHANGED <<document, reference>>
    PROVE  ExpansionInv'
<1>1. TypeOK /\ TextsAreDeclared /\ RecursionIsBounded /\ ExpansionIsBounded
  BY DEF ExpansionInv
<1>2. /\ calls \in Seq(Calls) /\ Len(calls) \in Nat
      /\ entity_expansions \in Nat
      /\ error = "none"
      /\ references' \in 0..MaxReferences /\ reference' \in EntityNames
      /\ UNCHANGED <<entities, validating>>
  BY <1>1, LenProperties DEF TypeOK, document
<1> DEFINE call == extended(Last(open), b)
<1>3. CASE TooLong(call)
  <2>1. fail("ResourceLimit")
    BY <1>3 DEF Resume
  <2> QED BY <1>2, <2>1, FailKeepsInv
<1>4. CASE ~TooLong(call)
  <2>1. /\ calls' = [open EXCEPT ![Len(open)] = call]
        /\ UNCHANGED <<pc, expansion, error>>
    BY <1>4 DEF Resume
  <2>2. PICK c : CallOK(c)
    <3>1. Len(open) \in 1..Len(open)
      BY EmptySeq, LenProperties DEF CallsOK
    <3> QED BY <3>1 DEF CallsOK
  <2>3. CallOK(Last(open)) /\ Len(open) \in Nat \ {0}
    BY <2>2, CallsChange
  <2>4. CallOK(call)
    BY <1>4, <2>3, ExtendedCallOK
  <2> HIDE DEF call
  <2>5. CallsOK(calls') /\ Len(calls') = Len(open) /\ calls' # <<>>
    BY <2>1, <2>4, CallsChange
  <2>9. CallersWait(calls')
    BY <2>1, <2>4, CallersKeepWaiting
  <2>6. /\ entity_expansions' \in Nat
        /\ entity_expansions <= entity_expansions'
        /\ entity_expansions' <= max_entity_expansions
    BY <1>1, <1>2 DEF RecursionIsBounded, count, WithinExpansions
  <2>7. Len(calls') <= entity_expansions'
    BY <1>1, <1>2, <2>3, <2>5, <2>6 DEF RecursionIsBounded
  <2>8. expansion' \in Seq(Bytes) /\ Len(expansion') <= 2 * max_entity_replacement_bytes
    BY <1>1, <2>1 DEF TypeOK, ExpansionIsBounded
  <2> QED BY <1>2, <2>1, <2>5, <2>6, <2>7, <2>8, <2>9, StepKeepsInv
<1> QED BY <1>3, <1>4

-----------------------------------------------------------------------------
\* A reference in the document.
LEMMA ReferenceKeepsInv ==
    ASSUME ExpansionInv, NEW kind \in {"character", "invalid", "entity"}, NEW name \in EntityNames,
           parse_reference(kind, name)
    PROVE  ExpansionInv'
<1>1. TypeOK /\ TextsAreDeclared /\ RecursionIsBounded /\ ExpansionIsBounded
  BY DEF ExpansionInv
<1>2. /\ pc = "text" /\ calls = <<>> /\ error = "none"
      /\ references' \in 0..MaxReferences /\ reference' \in EntityNames
      /\ UNCHANGED <<entities, validating>>
      /\ count
  BY <1>1, LimitsAssumption DEF TypeOK, parse_reference
<1>3. ASSUME NEW k \in {"ResourceLimit", "Validity", "WellFormedness"}, fail(k) PROVE ExpansionInv'
  BY <1>2, <1>3, FailKeepsInv
<1>4. CASE WithinExpansions /\ kind = "character" /\ UNCHANGED <<pc, calls, expansion, error>>
  <2>1. CallsOK(calls') /\ Len(calls') = 0
    BY <1>1, <1>2, <1>4, CallsSplit, EmptySeq
  <2>2. entity_expansions' \in Nat /\ entity_expansions' <= max_entity_expansions
    BY <1>1, <1>2, <1>4 DEF TypeOK, count, WithinExpansions
  <2>3. expansion' \in Seq(Bytes) /\ Len(expansion') <= 2 * max_entity_replacement_bytes
    BY <1>1, <1>4 DEF TypeOK, ExpansionIsBounded
  <2>4. Len(calls') <= entity_expansions' /\ CallersWait(calls')
    BY <2>1, <2>2 DEF CallersWait
  <2> QED BY <1>2, <1>4, <2>1, <2>2, <2>3, <2>4, StepKeepsInv
<1>5. CASE WithinExpansions /\ kind = "entity" /\ name \in DOMAIN entities /\ Enter(entities[name])
  BY <1>2, <1>5, EnterKeepsInv
<1> QED BY <1>3, <1>4, <1>5 DEF parse_reference

\* A reference in a replacement text.
LEMMA NestedKeepsInv == ASSUME ExpansionInv, nested_reference PROVE ExpansionInv'
<1>1. TypeOK /\ TextsAreDeclared /\ RecursionIsBounded /\ ExpansionIsBounded
  BY DEF ExpansionInv
<1>2. /\ pc = "expanding" /\ calls # <<>> /\ ~AtEnd /\ count
      /\ references' \in 0..MaxReferences /\ reference' \in EntityNames
      /\ UNCHANGED <<entities, validating>> /\ UNCHANGED <<document, reference>>
  BY <1>1 DEF TypeOK, nested_reference, document
<1>3. ASSUME NEW k \in {"ResourceLimit", "Validity", "WellFormedness"}, fail(k) PROVE ExpansionInv'
  BY <1>2, <1>3, FailKeepsInv
<1>4. CallsOK(calls) /\ calls \in Seq(Calls) /\ Len(calls) \in Nat \ {0}
  BY <1>1, <1>2, CallsSplit, PopFacts DEF TypeOK
<1>5. CallOK(current)
  <2>1. Len(calls) \in 1..Len(calls)
    BY <1>4
  <2>2. CallOK(calls[Len(calls)])
    BY <1>4, <2>1 DEF CallsOK
  <2> QED BY <2>2, CallsChange, <1>2, <1>4 DEF current
<1>6. current.cursor \in 1..Len(current.text) /\ piece \in Pieces
  <2>1. /\ current.text \in Seq(Pieces) /\ current.cursor \in Nat \ {0}
        /\ Len(current.text) \in Nat
    BY <1>5, LenProperties DEF CallOK, Calls
  <2>2. current.cursor \in 1..Len(current.text)
    BY <1>2, <2>1 DEF AtEnd
  <2> QED BY <2>1, <2>2, ElementOfSeq DEF piece
<1>7. CASE WithinExpansions /\ piece.kind = "character" /\ Resume(calls, piece.bytes)
  <2>1. piece.bytes \in Seq(Bytes) /\ Last(calls).cursor <= Len(Last(calls).text)
    BY <1>6 DEF Pieces, current
  <2>2. Len(calls) <= Len(calls)
    BY <1>4
  <2>3. CallersWait(calls)
    BY <1>1 DEF TypeOK
  <2> QED BY <1>2, <1>4, <1>7, <2>1, <2>2, <2>3, ResumeKeepsInv
<1>8. CASE WithinExpansions /\ piece.kind = "entity" /\ EnterNested(piece.name)
  <2>1. CASE piece.name \in DOMAIN entities
    <3>1. Enter(entities[piece.name])
      BY <1>8, <2>1 DEF EnterNested
    <3>2. current.cursor <= Len(current.text)
      BY <1>6
    <3> QED BY <1>2, <1>8, <2>1, <3>1, <3>2, EnterKeepsInv
  <2>2. CASE piece.name \notin DOMAIN entities
    BY <1>3, <1>8, <2>2 DEF EnterNested
  <2> QED BY <2>1, <2>2
<1> QED BY <1>3, <1>7, <1>8 DEF nested_reference

\* The innermost call, while a reference is being expanded.
LEMMA CurrentCall ==
    ASSUME ExpansionInv, pc = "expanding"
    PROVE  /\ calls # <<>> /\ CallsOK(calls) /\ Len(calls) \in Nat \ {0}
           /\ CallOK(current)
           /\ current.text \in Seq(Pieces)
           /\ current.cursor \in Nat \ {0}
           /\ Len(current.text) \in Nat
           /\ current.expanded \in Seq(Bytes)
           /\ ~AtEnd => current.cursor \in 1..Len(current.text) /\ piece \in Pieces
           /\ CallsOK(Front(calls))
           /\ Len(Front(calls)) = Len(calls) - 1
           /\ Front(calls) = <<>> <=> Len(calls) = 1
<1>1. TypeOK /\ TextsAreDeclared /\ ExpansionIsBounded
  BY DEF ExpansionInv
<1>2. CallsOK(calls) /\ calls # <<>> /\ Len(calls) \in Nat \ {0}
  BY <1>1, CallsSplit, PopFacts DEF TypeOK
<1>3. CallOK(calls[Len(calls)])
  <2>1. Len(calls) \in 1..Len(calls)
    BY <1>2
  <2> QED BY <1>2, <2>1 DEF CallsOK
<1>4. /\ CallOK(current) /\ CallsOK(Front(calls)) /\ Len(Front(calls)) = Len(calls) - 1
      /\ Front(calls) = <<>> <=> Len(calls) = 1
  BY <1>2, <1>3, CallsChange DEF current
<1>5. /\ current.text \in Seq(Pieces) /\ current.cursor \in Nat \ {0}
      /\ Len(current.text) \in Nat /\ current.expanded \in Seq(Bytes)
  BY <1>4, LenProperties DEF CallOK, Calls
<1>6. ASSUME ~AtEnd PROVE current.cursor \in 1..Len(current.text) /\ piece \in Pieces
  <2>1. current.cursor \in 1..Len(current.text)
    BY <1>5, <1>6 DEF AtEnd
  <2> QED BY <1>5, <2>1, ElementOfSeq DEF piece
<1> QED BY <1>2, <1>4, <1>5, <1>6

\* An ordinary byte of a replacement text is copied, unmeasured.
LEMMA CopyKeepsInv == ASSUME ExpansionInv, copy_byte PROVE ExpansionInv'
<1>1. TypeOK /\ TextsAreDeclared /\ RecursionIsBounded /\ ExpansionIsBounded
  BY DEF ExpansionInv
<1>2. /\ pc = "expanding" /\ ~AtEnd /\ piece.kind = "byte"
      /\ calls' = [calls EXCEPT ![Len(calls)] = extended(current, piece.bytes)]
      /\ UNCHANGED <<pc, document, entity_expansions, reference, expansion, error>>
  BY DEF copy_byte
<1>3. /\ calls # <<>> /\ CallsOK(calls) /\ Len(calls) \in Nat
      /\ CallOK(current) /\ current.cursor \in 1..Len(current.text)
      /\ Len(current.text) \in Nat
      /\ piece \in Pieces
  BY <1>2, CurrentCall
<1>4. piece.bytes \in Seq(Bytes) /\ Len(piece.bytes) = 1
  <2>1. PICK n \in DOMAIN entities : current.text = entities[n]
    BY <1>3 DEF CallOK
  <2>2. entities \in EntityTables
    BY <1>1 DEF TypeOK
  <2>3. entities[n] \in Seq(Pieces)
    BY <2>2, TablesAssumption
  <2>4. current.cursor \in DOMAIN entities[n]
    BY <1>3, <2>1, <2>3, LenProperties
  <2>5. piece = entities[n][current.cursor]
    BY <2>1 DEF piece
  <2>6. Len(piece.bytes) = 1
    BY <1>2, <2>2, <2>4, <2>5, TablesAssumption
  <2> QED BY <1>3, <2>6 DEF Pieces
<1>5. CallOK(extended(current, piece.bytes))
  <2>1. current.cursor <= Len(current.text)
    BY <1>3
  <2> QED BY <1>3, <1>4, <2>1, CopiedCallOK
<1>6. CallsOK(calls') /\ Len(calls') = Len(calls) /\ calls' # <<>>
  BY <1>2, <1>3, <1>5, CallsChange
<1>7. /\ error = "none" /\ references \in 0..MaxReferences /\ reference \in EntityNames
      /\ entity_expansions \in Nat /\ entity_expansions <= max_entity_expansions
      /\ Len(calls) <= entity_expansions
      /\ expansion \in Seq(Bytes) /\ Len(expansion) <= 2 * max_entity_replacement_bytes
  BY <1>1, <1>2 DEF TypeOK, RecursionIsBounded, ExpansionIsBounded
<1>8. CallersWait(calls')
  BY <1>1, <1>2, <1>3, <1>5, CallersKeepWaiting DEF TypeOK
<1> QED BY <1>2, <1>6, <1>7, <1>8, StepKeepsInv DEF document

\* The text of a nested call goes to its caller.
LEMMA ReturnNestedKeepsInv == ASSUME ExpansionInv, return_nested PROVE ExpansionInv'
<1>1. TypeOK /\ RecursionIsBounded
  BY DEF ExpansionInv
<1>2. /\ pc = "expanding" /\ AtEnd /\ Len(calls) > 1
      /\ Resume(Front(calls), current.expanded)
      /\ UNCHANGED <<document, entity_expansions, reference>>
  BY DEF return_nested
<1>3. /\ CallsOK(Front(calls)) /\ Len(Front(calls)) = Len(calls) - 1 /\ Front(calls) # <<>>
      /\ Len(calls) \in Nat \ {0}
      /\ current.expanded \in Seq(Bytes)
  BY <1>2, CurrentCall
<1>4. CallersWait(Front(calls)) /\ Last(Front(calls)).cursor <= Len(Last(Front(calls)).text)
  BY <1>1, <1>2, CurrentCall, CallersKeepWaiting DEF TypeOK
<1>5. Len(Front(calls)) <= Len(calls)
  BY <1>3
<1> QED BY <1>2, <1>3, <1>4, <1>5, ResumeKeepsInv

\* What the outermost call returns is no longer than the limit and its own
\* text, which is a declared one and within the limit itself.
LEMMA ReturnOutermostKeepsInv == ASSUME ExpansionInv, return_outermost PROVE ExpansionInv'
<1>1. TypeOK /\ RecursionIsBounded
  BY DEF ExpansionInv
<1>2. /\ pc = "expanding" /\ AtEnd
      /\ calls' = <<>> /\ expansion' = current.expanded /\ pc' = "text"
      /\ UNCHANGED <<document, entity_expansions, reference, error>>
  BY DEF return_outermost
<1>3. /\ CallOK(current) /\ current.cursor \in Nat /\ Len(current.text) \in Nat
      /\ current.expanded \in Seq(Bytes)
  BY <1>2, CurrentCall
<1>4. Len(current.text) <= max_entity_replacement_bytes
  <2>1. PICK n \in DOMAIN entities : current.text = entities[n]
    BY <1>3 DEF CallOK
  <2>2. entities \in EntityTables
    BY <1>1 DEF TypeOK
  <2> QED BY <2>1, <2>2, TablesAssumption
<1>5. Len(expansion') <= 2 * max_entity_replacement_bytes
  <2>1. Len(current.expanded) \in Nat
    BY <1>3, LenProperties
  <2>2. Len(current.expanded) <= max_entity_replacement_bytes + current.cursor - 1
        /\ current.cursor <= Len(current.text) + 1
    BY <1>3 DEF CallOK
  <2> QED BY <1>2, <1>3, <1>4, <2>1, <2>2, LimitsAssumption
<1>6. CallsOK(calls') /\ CallersWait(calls') /\ Len(calls') = 0
  <2>1. calls' \in Seq(Calls) /\ Len(calls') = 0
    BY <1>2, EmptySeq
  <2> QED BY <2>1 DEF CallsOK, CallersWait
<1>7. /\ error = "none" /\ references \in 0..MaxReferences /\ reference \in EntityNames
      /\ entity_expansions \in Nat /\ entity_expansions <= max_entity_expansions
  BY <1>1, <1>2 DEF TypeOK, RecursionIsBounded
<1> QED BY <1>2, <1>3, <1>5, <1>6, <1>7, StepKeepsInv DEF document

\* The end of the document, and an ampersand with no semicolon.
LEMMA EndKeepsInv == ASSUME ExpansionInv, EndOfText \/ truncated_reference PROVE ExpansionInv'
<1>1. TypeOK /\ TextsAreDeclared /\ RecursionIsBounded /\ ExpansionIsBounded
  BY DEF ExpansionInv
<1>2. CASE EndOfText
  <2>1. /\ pc = "text" /\ pc' = "done"
        /\ UNCHANGED <<document, entity_expansions, calls, reference, expansion, error>>
    BY <1>2 DEF EndOfText
  <2>2. TypeOK'
    BY <1>1, <2>1 DEF TypeOK, document, CallersWait
  <2>3. TextsAreDeclared' /\ RecursionIsBounded' /\ ExpansionIsBounded'
    BY <1>1, <2>1 DEF TextsAreDeclared, RecursionIsBounded, ExpansionIsBounded, document
  <2> QED BY <2>2, <2>3 DEF ExpansionInv
<1>3. CASE truncated_reference
  BY <1>1, <1>3, FailKeepsInv DEF truncated_reference, document, TypeOK
<1> QED BY <1>2, <1>3

\* Every step keeps the invariant.
LEMMA NextExpansionInv == ASSUME ExpansionInv, [Next]_vars PROVE ExpansionInv'
<1>1. CASE \E kind \in {"character", "invalid", "entity"}, name \in EntityNames :
              parse_reference(kind, name)
  BY <1>1, ReferenceKeepsInv
<1>2. CASE EndOfText \/ truncated_reference
  BY <1>2, EndKeepsInv
<1>3. CASE copy_byte
  BY <1>3, CopyKeepsInv
<1>4. CASE nested_reference
  BY <1>4, NestedKeepsInv
<1>5. CASE return_nested
  BY <1>5, ReturnNestedKeepsInv
<1>6. CASE return_outermost
  BY <1>6, ReturnOutermostKeepsInv
<1>7. CASE UNCHANGED vars
  <2>1. TypeOK' /\ TextsAreDeclared'
    BY <1>7 DEF ExpansionInv, vars, document, TypeOK, CallersWait, TextsAreDeclared
  <2>2. RecursionIsBounded' /\ ExpansionIsBounded'
    BY <1>7 DEF ExpansionInv, vars, document, RecursionIsBounded, ExpansionIsBounded
  <2> QED BY <2>1, <2>2 DEF ExpansionInv
<1> QED BY <1>1, <1>2, <1>3, <1>4, <1>5, <1>6, <1>7 DEF Next

-----------------------------------------------------------------------------
\* The cursors, texts and calls of an expansion have their types.
THEOREM ExpansionTypes == Spec => []TypeOK
<1>1. ExpansionInv => TypeOK
  BY DEF ExpansionInv
<1> QED BY <1>1, InitExpansionInv, NextExpansionInv, PTL DEF Spec

\* However entities are declared, cyclic ones included, expand_entity_text
\* never recurses deeper than max_entity_expansions.
THEOREM RecursionAlwaysBounded == Spec => []RecursionIsBounded
<1>1. ExpansionInv => RecursionIsBounded
  BY DEF ExpansionInv
<1> QED BY <1>1, InitExpansionInv, NextExpansionInv, PTL DEF Spec

\* Nothing an entity reference delivers is longer than twice the limit.
THEOREM ExpansionAlwaysBounded == Spec => []ExpansionIsBounded
<1>1. ExpansionInv => ExpansionIsBounded
  BY DEF ExpansionInv
<1> QED BY <1>1, InitExpansionInv, NextExpansionInv, PTL DEF Spec

-----------------------------------------------------------------------------
(* Only a grounded entity ever delivers.  What a call has read before its   *)
(* cursor is grounded, because a call is left at its end only, with all of  *)
(* its text read; so a text read to its end refers to grounded entities     *)
(* alone, and the entity it belongs to is grounded too.                     *)

\* An entity that is declared, and reaches declared entities only and none
\* that reaches itself.
Grounded(n) == \A m \in Reached(n) \cup {n} : m \in DOMAIN entities /\ m \notin Reached(m)

\* The piece a call is at.
PieceOf(c) == c.text[c.cursor]

ReadIsGrounded(c) ==
    \A j \in 1..(c.cursor - 1) : c.text[j].kind = "entity" => Grounded(c.text[j].name)

\* The call d expands the reference that c is at.
EnteredFrom(c, d) ==
    /\ PieceOf(c).kind = "entity"
    /\ PieceOf(c).name \in DOMAIN entities
    /\ d.text = entities[PieceOf(c).name]

\* The calls s expand the reference r of the document, each one the reference
\* that its caller is at.
ReadInOrder(s, r) ==
    /\ \A i \in 1..Len(s) : ReadIsGrounded(s[i])
    /\ \A i \in 1..(Len(s) - 1) : EnteredFrom(s[i], s[i + 1])
    /\ s # <<>> => r \in DOMAIN entities /\ s[1].text = entities[r]

GroundedInv == ExpansionInv /\ ReadInOrder(calls, reference)

\* What an entity mentions it reaches, and what it reaches it reaches from
\* there too.
LEMMA ReachedIsClosed ==
    ASSUME NEW n, \A x : Mentions(x) \subseteq EntityNames
    PROVE  /\ Mentions(n) \subseteq Reached(n)
           /\ \A x \in Reached(n) : Mentions(x) \subseteq Reached(n)
           /\ \A S \in SUBSET EntityNames :
                 Mentions(n) \subseteq S /\ (\A x \in S : Mentions(x) \subseteq S)
                    => Reached(n) \subseteq S
<1>1. Mentions(n) \subseteq Reached(n)
  BY DEF Reached
<1>2. ASSUME NEW x \in Reached(n), NEW m \in Mentions(x) PROVE m \in Reached(n)
  <2>1. m \in EntityNames
    OBVIOUS
  <2>2. ASSUME NEW S \in SUBSET EntityNames,
               Mentions(n) \subseteq S, \A y \in S : Mentions(y) \subseteq S
        PROVE  m \in S
    <3>1. x \in S
      BY <2>2 DEF Reached
    <3> QED BY <2>2, <3>1
  <2> QED BY <2>1, <2>2 DEF Reached
<1>3. \A S \in SUBSET EntityNames :
         Mentions(n) \subseteq S /\ (\A x \in S : Mentions(x) \subseteq S)
            => Reached(n) \subseteq S
  BY DEF Reached
<1> QED BY <1>1, <1>2, <1>3

\* The names in the texts of declared entities are names of entities.
LEMMA MentionsAreNames == ASSUME TypeOK, NEW n PROVE Mentions(n) \subseteq EntityNames
<1>1. CASE n \in DOMAIN entities
  <2>1. entities[n] \in Seq(Pieces)
    BY <1>1, TablesAssumption DEF TypeOK
  <2>2. \A j \in DOMAIN entities[n] : entities[n][j].name \in EntityNames
    <3>1. \A j \in DOMAIN entities[n] : entities[n][j] \in Pieces
      BY <2>1, ElementOfSeq, LenProperties
    <3> QED BY <3>1 DEF Pieces
  <2> QED BY <1>1, <2>2 DEF Mentions
<1>2. CASE n \notin DOMAIN entities
  BY <1>2 DEF Mentions
<1> QED BY <1>1, <1>2

\* A declared entity that mentions grounded entities only is grounded: what it
\* reaches one of those is or reaches, and if that were the entity itself it
\* would be grounded and reach itself.
LEMMA GroundedFromMentions ==
    ASSUME TypeOK, NEW n \in DOMAIN entities, \A x \in Mentions(n) : Grounded(x)
    PROVE  Grounded(n)
<1> DEFINE R == Mentions(n) \cup UNION {Reached(x) : x \in Mentions(n)}
<1>1. \A x : Mentions(x) \subseteq EntityNames
  BY MentionsAreNames
<1>2. \A x : /\ Mentions(x) \subseteq Reached(x)
             /\ \A y \in Reached(x) : Mentions(y) \subseteq Reached(x)
  BY <1>1, ReachedIsClosed
<1>3. R \in SUBSET EntityNames
  <2>1. \A x : Reached(x) \subseteq EntityNames
    BY DEF Reached
  <2> QED BY <1>1, <2>1
<1>4. \A y \in R : Mentions(y) \subseteq R
  <2>1. ASSUME NEW y \in Mentions(n) PROVE Mentions(y) \subseteq R
    BY <1>2
  <2>2. ASSUME NEW x \in Mentions(n), NEW y \in Reached(x) PROVE Mentions(y) \subseteq R
    BY <1>2
  <2> QED BY <2>1, <2>2
<1>5. Reached(n) \subseteq R
  BY <1>1, <1>3, <1>4, ReachedIsClosed
<1>6. \A m \in R : m \in DOMAIN entities /\ m \notin Reached(m)
  BY DEF Grounded
<1>7. n \notin Reached(n)
  BY <1>5, <1>6
<1> HIDE DEF R
<1> QED BY <1>5, <1>6, <1>7 DEF Grounded

\* The entity whose text a call has read to its end is grounded.
LEMMA EndIsGrounded ==
    ASSUME TypeOK, NEW c, CallOK(c), ReadIsGrounded(c), c.cursor > Len(c.text),
           NEW n \in DOMAIN entities, c.text = entities[n]
    PROVE  Grounded(n)
<1>1. c.text \in Seq(Pieces) /\ c.cursor \in Nat /\ Len(c.text) \in Nat
  BY LenProperties DEF CallOK, Calls
<1>2. \A j \in DOMAIN entities[n] : j \in 1..(c.cursor - 1)
  <2>1. DOMAIN entities[n] = 1..Len(c.text)
    BY <1>1, LenProperties
  <2> QED BY <1>1, <2>1
<1>3. \A j \in DOMAIN entities[n] : entities[n][j].kind = "entity" => Grounded(entities[n][j].name)
  BY <1>2 DEF ReadIsGrounded
<1>4. \A x \in Mentions(n) : Grounded(x)
  BY <1>3 DEF Mentions
<1> QED BY <1>4, GroundedFromMentions

-----------------------------------------------------------------------------
\* A call that passes its piece has read it.
LEMMA ExtendedIsRead ==
    ASSUME NEW c \in Calls, NEW b \in Seq(Bytes), ReadIsGrounded(c),
           PieceOf(c).kind = "entity" => Grounded(PieceOf(c).name)
    PROVE  ReadIsGrounded(extended(c, b))
<1>1. extended(c, b).text = c.text /\ extended(c, b).cursor = c.cursor + 1
  BY ExtendedShape
<1>2. c.cursor \in Nat \ {0}
  BY DEF Calls
<1>3. \A j \in 1..((c.cursor + 1) - 1) : j \in 1..(c.cursor - 1) \/ j = c.cursor
  BY <1>2
<1>4. \A j \in 1..((c.cursor + 1) - 1) : c.text[j].kind = "entity" => Grounded(c.text[j].name)
  BY <1>3 DEF ReadIsGrounded, PieceOf
<1> QED BY <1>1, <1>4 DEF ReadIsGrounded

\* A call that is entered has read nothing.
LEMMA NewIsRead == ASSUME NEW text_of PROVE ReadIsGrounded(Call(text_of))
<1>1. Call(text_of).cursor = 1
  BY DEF Call
<1>2. 1..(1 - 1) = {}
  OBVIOUS
<1> QED BY <1>1, <1>2 DEF ReadIsGrounded

\* The first call expands the reference of the document.
LEMMA FirstInOrder ==
    ASSUME TypeOK, NEW n \in DOMAIN entities
    PROVE  ReadInOrder(Append(<<>>, Call(entities[n])), n)
<1> DEFINE c == Call(entities[n])
           s == Append(<<>>, c)
<1>1. c \in Calls
  BY NewCallOK DEF CallOK
<1>2. c.text = entities[n] /\ ReadIsGrounded(c)
  BY NewIsRead DEF Call
<1> HIDE DEF c
<1>3. Len(s) = 1 /\ s[1] = c
  <2>1. <<>> \in Seq(Calls) /\ Len(<<>>) = 0
    BY EmptySeq
  <2>2. Len(s) = 0 + 1 /\ s[0 + 1] = c
    BY <1>1, <2>1, PushFacts
  <2> QED BY <2>2
<1> HIDE DEF s
<1>4. 1..1 = {1} /\ 1..(1 - 1) = {}
  OBVIOUS
<1>5. ReadInOrder(s, n)
  BY <1>2, <1>3, <1>4 DEF ReadInOrder
<1> QED BY <1>5 DEF s, c

\* A nested call expands the reference its caller is at.
LEMMA EnteringInOrder ==
    ASSUME NEW s, CallsOK(s), s # <<>>, NEW r, ReadInOrder(s, r),
           NEW d, d \in Calls, ReadIsGrounded(d), EnteredFrom(Last(s), d)
    PROVE  ReadInOrder(Append(s, d), r)
<1> DEFINE t == Append(s, d)
<1>1. s \in Seq(Calls) /\ Len(s) \in Nat \ {0} /\ Last(s) = s[Len(s)]
  BY PopFacts DEF CallsOK
<1>2. /\ Len(t) = Len(s) + 1 /\ t[Len(s) + 1] = d
      /\ \A i \in 1..Len(s) : t[i] = s[i]
  BY <1>1, PushFacts
<1> HIDE DEF t
<1>3. \A i \in 1..Len(t) : ReadIsGrounded(t[i])
  <2>1. \A i \in 1..(Len(s) + 1) : i \in 1..Len(s) \/ i = Len(s) + 1
    BY <1>1
  <2> QED BY <1>2, <2>1 DEF ReadInOrder
<1>4. ASSUME NEW i \in 1..(Len(t) - 1) PROVE EnteredFrom(t[i], t[i + 1])
  <2>1. i \in 1..Len(s) /\ t[i] = s[i]
    BY <1>1, <1>2
  <2>2. CASE i = Len(s)
    BY <1>1, <1>2, <2>1, <2>2
  <2>3. CASE i # Len(s)
    <3>1. i \in 1..(Len(s) - 1) /\ i + 1 \in 1..Len(s)
      BY <1>1, <2>1, <2>3
    <3> QED BY <1>2, <2>1, <3>1 DEF ReadInOrder
  <2> QED BY <2>2, <2>3
<1>5. t[1] = s[1]
  BY <1>1, <1>2
<1>6. ReadInOrder(t, r)
  BY <1>3, <1>4, <1>5 DEF ReadInOrder
<1> QED BY <1>6 DEF t

\* The innermost call passes a grounded reference, or a piece that is none.
LEMMA PassingInOrder ==
    ASSUME NEW s, CallsOK(s), s # <<>>, NEW r, ReadInOrder(s, r), NEW b \in Seq(Bytes),
           PieceOf(Last(s)).kind = "entity" => Grounded(PieceOf(Last(s)).name)
    PROVE  ReadInOrder([s EXCEPT ![Len(s)] = extended(Last(s), b)], r)
<1> DEFINE d == extended(Last(s), b)
           t == [s EXCEPT ![Len(s)] = d]
<1>1. s \in Seq(Calls) /\ Len(s) \in Nat \ {0} /\ Last(s) = s[Len(s)] /\ Last(s) \in Calls
  BY PopFacts DEF CallsOK
<1>2. d \in Calls /\ d.text = Last(s).text
  BY <1>1, ExtendedShape
<1>3. ReadIsGrounded(d)
  <2>1. ReadIsGrounded(Last(s))
    BY <1>1 DEF ReadInOrder
  <2> QED BY <1>1, <2>1, ExtendedIsRead
<1> HIDE DEF d
<1>4. Len(t) = Len(s) /\ t[Len(s)] = d /\ \A i \in 1..Len(s) : i # Len(s) => t[i] = s[i]
  BY <1>1, <1>2, TopFacts
<1> HIDE DEF t
<1>5. \A i \in 1..Len(t) : ReadIsGrounded(t[i])
  BY <1>3, <1>4 DEF ReadInOrder
<1>6. \A i \in 1..Len(s) : t[i].text = s[i].text
  BY <1>1, <1>2, <1>4
<1>7. ASSUME NEW i \in 1..(Len(t) - 1) PROVE EnteredFrom(t[i], t[i + 1])
  <2>1. i \in 1..Len(s) /\ i # Len(s) /\ i + 1 \in 1..Len(s) /\ i \in 1..(Len(s) - 1)
    BY <1>1, <1>4
  <2>2. t[i] = s[i] /\ t[i + 1].text = s[i + 1].text
    BY <1>4, <1>6, <2>1
  <2>3. EnteredFrom(s[i], s[i + 1])
    BY <2>1 DEF ReadInOrder
  <2> QED BY <2>2, <2>3 DEF EnteredFrom
<1>8. r \in DOMAIN entities /\ t[1].text = entities[r]
  <2>1. 1 \in 1..Len(s)
    BY <1>1
  <2> QED BY <1>6, <2>1 DEF ReadInOrder
<1>9. ReadInOrder(t, r)
  BY <1>5, <1>7, <1>8 DEF ReadInOrder
<1> QED BY <1>9 DEF t, d

\* A nested call leaves a caller that is at the reference it expanded.
LEMMA LeavingInOrder ==
    ASSUME NEW s, CallsOK(s), Len(s) > 1, NEW r, ReadInOrder(s, r)
    PROVE  /\ ReadInOrder(Front(s), r)
           /\ EnteredFrom(Last(Front(s)), Last(s))
<1>1. /\ s \in Seq(Calls) /\ s # <<>> /\ Len(s) \in Nat \ {0}
      /\ Front(s) \in Seq(Calls) /\ Len(Front(s)) = Len(s) - 1
      /\ \A i \in 1..(Len(s) - 1) : Front(s)[i] = s[i]
      /\ Last(s) = s[Len(s)]
      /\ Front(s) # <<>>
  <2>1. s \in Seq(Calls) /\ s # <<>>
    BY EmptySeq DEF CallsOK
  <2>2. Front(s) # <<>>
    BY <2>1, PopFacts
  <2> QED BY <2>1, <2>2, PopFacts
<1>2. ReadInOrder(Front(s), r)
  <2>1. \A i \in 1..(Len(s) - 1) : i \in 1..Len(s)
    BY <1>1
  <2>2. \A i \in 1..Len(Front(s)) : ReadIsGrounded(Front(s)[i])
    BY <1>1, <2>1 DEF ReadInOrder
  <2>3. ASSUME NEW i \in 1..(Len(Front(s)) - 1) PROVE EnteredFrom(Front(s)[i], Front(s)[i + 1])
    <3>1. i \in 1..(Len(s) - 1) /\ i + 1 \in 1..(Len(s) - 1)
      BY <1>1
    <3> QED BY <1>1, <3>1 DEF ReadInOrder
  <2>4. Front(s)[1] = s[1]
    BY <1>1
  <2> QED BY <1>1, <2>2, <2>3, <2>4 DEF ReadInOrder
<1>3. EnteredFrom(Last(Front(s)), Last(s))
  <2>1. Last(Front(s)) = Front(s)[Len(s) - 1]
    BY <1>1, PopFacts
  <2>2. Len(s) - 1 \in 1..(Len(s) - 1) /\ (Len(s) - 1) + 1 = Len(s)
    BY <1>1
  <2>3. EnteredFrom(s[Len(s) - 1], s[Len(s)])
    BY <2>2 DEF ReadInOrder
  <2> QED BY <1>1, <2>1, <2>2, <2>3
<1> QED BY <1>2, <1>3

-----------------------------------------------------------------------------
\* Being grounded is a matter of the declarations alone.
LEMMA OrderNextTime ==
    ASSUME UNCHANGED entities, ReadInOrder(calls', reference')
    PROVE  ReadInOrder(calls, reference)'
<1>1. \A n : Mentions(n)' = Mentions(n)
  BY DEF Mentions
<1>2. \A n : Reached(n)' = Reached(n)
  BY <1>1 DEF Reached
<1>3. \A n : Grounded(n)' = Grounded(n)
  BY <1>2 DEF Grounded
<1>4. \A i \in 1..Len(calls') : ReadIsGrounded(calls'[i])
  BY DEF ReadInOrder
<1> QED BY <1>3, <1>4 DEF ReadInOrder, ReadIsGrounded, EnteredFrom, PieceOf

\* With no call, nothing has been read.
LEMMA NoCallsInOrder == \A r : ReadInOrder(<<>>, r)
<1>1. Len(<<>>) = 0
  BY EmptySeq
<1>2. 1..0 = {} /\ 1..(0 - 1) = {}
  OBVIOUS
<1> QED BY <1>1, <1>2 DEF ReadInOrder

\* Every step keeps the calls in order, and one that delivers has its entity
\* grounded.
LEMMA StepInOrder ==
    ASSUME GroundedInv, [Next]_vars
    PROVE  /\ ReadInOrder(calls', reference')
           /\ Delivers => Grounded(reference)
<1>1. ExpansionInv /\ TypeOK /\ ReadInOrder(calls, reference)
  BY DEF GroundedInv, ExpansionInv
<1>2. ASSUME UNCHANGED <<calls, reference>>
      PROVE  ReadInOrder(calls', reference')
  BY <1>1, <1>2
<1>3. ASSUME NEW kind \in {"character", "invalid", "entity"}, NEW name \in EntityNames,
             parse_reference(kind, name)
      PROVE  ReadInOrder(calls', reference') /\ ~Delivers
  <2>1. pc = "text" /\ calls = <<>> /\ reference' = name
    BY <1>1, <1>3 DEF parse_reference, TypeOK
  <2>2. CASE UNCHANGED calls
    BY <2>1, <2>2, NoCallsInOrder DEF Delivers
  <2>3. CASE name \in DOMAIN entities /\ Enter(entities[name])
    <3>1. UNCHANGED calls \/ calls' = Append(<<>>, Call(entities[name]))
      BY <2>1, <2>3 DEF Enter, fail
    <3> QED BY <1>1, <2>1, <2>3, <3>1, NoCallsInOrder, FirstInOrder DEF Delivers
  <2> QED BY <1>3, <2>2, <2>3 DEF parse_reference, fail
<1>4. CASE EndOfText
  BY <1>2, <1>4 DEF EndOfText, document, Delivers
<1>5. CASE truncated_reference
  BY <1>2, <1>5 DEF truncated_reference, document, fail, Delivers
<1>6. CASE copy_byte
  <2>1. /\ pc = "expanding" /\ ~AtEnd /\ piece.kind = "byte"
        /\ calls' = [calls EXCEPT ![Len(calls)] = extended(Last(calls), piece.bytes)]
        /\ reference' = reference /\ pc' = pc
    BY <1>6 DEF copy_byte, document, current
  <2>2. calls # <<>> /\ CallsOK(calls) /\ piece.bytes \in Seq(Bytes)
    BY <1>1, <2>1, CurrentCall DEF Pieces
  <2>3. PieceOf(Last(calls)).kind # "entity"
    BY <2>1 DEF PieceOf, piece, current
  <2> QED BY <1>1, <2>1, <2>2, <2>3, PassingInOrder DEF Delivers
<1>7. CASE nested_reference
  <2>1. pc = "expanding" /\ ~AtEnd /\ reference' = reference
    BY <1>7 DEF nested_reference
  <2>2. calls # <<>> /\ CallsOK(calls) /\ piece \in Pieces
    BY <1>1, <2>1, CurrentCall
  <2>3. piece = PieceOf(Last(calls))
    BY DEF PieceOf, piece, current
  <2>4. CASE pc' = "failed" /\ UNCHANGED calls
    BY <1>2, <2>1, <2>4 DEF Delivers
  <2>5. CASE piece.kind = "character" /\ Resume(calls, piece.bytes)
    <3>1. \/ pc' = "failed" /\ UNCHANGED calls
          \/ /\ calls' = [calls EXCEPT ![Len(calls)] = extended(Last(calls), piece.bytes)]
             /\ UNCHANGED pc
      BY <2>5 DEF Resume, fail
    <3>2. piece.bytes \in Seq(Bytes)
      BY <2>2 DEF Pieces
    <3>3. PieceOf(Last(calls)).kind # "entity"
      BY <2>3, <2>5
    <3>4. ReadInOrder([calls EXCEPT ![Len(calls)] = extended(Last(calls), piece.bytes)], reference)
      BY <1>1, <2>2, <3>2, <3>3, PassingInOrder
    <3> QED BY <2>1, <2>4, <3>1, <3>4 DEF Delivers
  <2>6. CASE piece.kind = "entity" /\ EnterNested(piece.name)
    <3>1. \/ pc' = "failed" /\ UNCHANGED calls
          \/ /\ piece.name \in DOMAIN entities
             /\ calls' = Append(calls, Call(entities[piece.name]))
             /\ pc' = "expanding"
      BY <2>6 DEF EnterNested, Enter, fail
    <3>2. CASE /\ piece.name \in DOMAIN entities
               /\ calls' = Append(calls, Call(entities[piece.name]))
               /\ pc' = "expanding"
      <4> DEFINE d == Call(entities[piece.name])
      <4>1. d \in Calls
        BY <1>1, <3>2, NewCallOK DEF CallOK
      <4>2. ReadIsGrounded(d)
        BY NewIsRead
      <4>3. EnteredFrom(Last(calls), d)
        BY <2>3, <2>6, <3>2 DEF EnteredFrom, Call
      <4> HIDE DEF d
      <4>4. ReadInOrder(Append(calls, d), reference)
        BY <1>1, <2>2, <4>1, <4>2, <4>3, EnteringInOrder
      <4> QED BY <2>1, <3>2, <4>4 DEF d, Delivers
    <3> QED BY <2>4, <3>1, <3>2
  <2> QED BY <1>7, <2>4, <2>5, <2>6 DEF nested_reference, fail
<1>8. CASE return_nested
  <2>1. pc = "expanding" /\ AtEnd /\ Len(calls) > 1 /\ reference' = reference
    BY <1>8 DEF return_nested
  <2>2. /\ CallsOK(calls) /\ calls # <<>> /\ Len(calls) \in Nat \ {0}
        /\ CallOK(current) /\ current.expanded \in Seq(Bytes)
        /\ CallsOK(Front(calls)) /\ Front(calls) # <<>>
    BY <1>1, <2>1, CurrentCall
  <2>3. /\ ReadInOrder(Front(calls), reference)
        /\ EnteredFrom(Last(Front(calls)), current)
    BY <1>1, <2>1, <2>2, LeavingInOrder DEF current
  <2>4. ReadIsGrounded(current)
    <3>1. current = calls[Len(calls)] /\ Len(calls) \in 1..Len(calls)
      BY <2>2, PopFacts DEF current, CallsOK
    <3> QED BY <1>1, <3>1 DEF ReadInOrder
  <2>5. Grounded(PieceOf(Last(Front(calls))).name)
    BY <1>1, <2>1, <2>2, <2>3, <2>4, EndIsGrounded DEF EnteredFrom, AtEnd
  <2>6. ReadInOrder([Front(calls) EXCEPT ![Len(Front(calls))] =
                        extended(Last(Front(calls)), current.expanded)], reference)
    BY <2>2, <2>3, <2>5, PassingInOrder
  <2>7. \/ pc' = "failed" /\ UNCHANGED calls
        \/ /\ calls' = [Front(calls) EXCEPT ![Len(Front(calls))] =
                           extended(Last(Front(calls)), current.expanded)]
           /\ UNCHANGED pc
    BY <1>8 DEF return_nested, Resume, fail
  <2> QED BY <1>2, <2>1, <2>6, <2>7 DEF Delivers
<1>9. CASE return_outermost
  <2>1. pc = "expanding" /\ AtEnd /\ Len(calls) = 1 /\ calls' = <<>>
    BY <1>9 DEF return_outermost
  <2>2. calls # <<>> /\ CallsOK(calls) /\ CallOK(current)
    BY <1>1, <2>1, CurrentCall
  <2>3. current = calls[1]
    BY <2>1, <2>2, PopFacts DEF current, CallsOK
  <2>4. /\ ReadIsGrounded(current)
        /\ reference \in DOMAIN entities /\ current.text = entities[reference]
    <3>1. 1 \in 1..Len(calls)
      BY <2>1
    <3> QED BY <1>1, <2>2, <2>3, <3>1 DEF ReadInOrder
  <2>5. Grounded(reference)
    BY <1>1, <2>1, <2>2, <2>4, EndIsGrounded DEF AtEnd
  <2> QED BY <2>1, <2>5, NoCallsInOrder
<1>10. CASE UNCHANGED vars
  BY <1>2, <1>10 DEF vars, document, Delivers
<1> QED BY <1>3, <1>4, <1>5, <1>6, <1>7, <1>8, <1>9, <1>10 DEF Next

\* The declarations are those the expansion began with.
LEMMA EntitiesKept == [Next]_vars => UNCHANGED entities
BY DEF Next, parse_reference, EndOfText, copy_byte, truncated_reference, nested_reference,
       return_nested, return_outermost, document, vars

\* Every step keeps the invariant.
LEMMA NextGroundedInv == ASSUME GroundedInv, [Next]_vars PROVE GroundedInv'
<1>1. ExpansionInv'
  BY NextExpansionInv DEF GroundedInv
<1>2. ReadInOrder(calls, reference)'
  BY StepInOrder, EntitiesKept, OrderNextTime
<1> QED BY <1>1, <1>2 DEF GroundedInv

\* What refers to an undeclared entity or to itself, at any depth, is refused:
\* no reference to it ever delivers a text (expand_entity_text has no check of
\* its own for a cycle).
THEOREM OnlyTheGroundedDeliver == Spec => OnlyGroundedEntitiesDeliver
<1>1. Init => GroundedInv
  BY InitExpansionInv, NoCallsInOrder DEF Init, GroundedInv
<1>2. GroundedInv /\ [Next]_vars => GroundedInv'
  BY NextGroundedInv
<1>3. GroundedInv /\ [Next]_vars =>
         [Delivers => \A m \in Reached(reference) \cup {reference} :
                          m \in DOMAIN entities /\ m \notin Reached(m)]_vars
  BY StepInOrder DEF Grounded
<1> QED BY <1>1, <1>2, <1>3, PTL DEF Spec, OnlyGroundedEntitiesDeliver

-----------------------------------------------------------------------------
(* What is delivered is the substitution.  What a call has expanded is, up  *)
(* to its cursor, its text with the references in it replaced, to any depth *)
(* that reaches as far down as the calls still may go.                      *)

Table(e) == DOMAIN e \subseteq EntityNames /\ \A n \in DOMAIN e : e[n] \in Seq(Pieces)

\* What the entities stand for.
Meanings == [EntityNames -> Seq(Bytes)]

\* What a piece stands for, when v is what the entities stand for.
PieceIn(v, p) == IF p.kind = "entity" THEN v[p.name] ELSE p.bytes

\* The first m pieces of a text, each replaced by what it stands for.
Replaced(v, t, m) == [i \in 1..m |-> PieceIn(v, t[i])]

\* One substitution more, in the declared texts.
Deeper(e, v) ==
    [n \in EntityNames |->
        IF n \notin DOMAIN e THEN <<>> ELSE FlattenSeq(Replaced(v, e[n], Len(e[n])))]

\* The function of Substituted, from depths to what the entities stand for.
IsSubstitution(e, f, limit) ==
    f = [k \in 0..limit |->
            [n \in EntityNames |->
                IF k = 0 \/ n \notin DOMAIN e THEN <<>>
                ELSE FlattenSeq([i \in DOMAIN e[n] |->
                        IF e[n][i].kind = "entity" THEN f[k - 1][e[n][i].name]
                        ELSE e[n][i].bytes])]]

Meaning(e, limit) == CHOOSE f : IsSubstitution(e, f, limit)

\* The pieces of a text replaced are sequences of bytes.
LEMMA ReplacedType ==
    ASSUME NEW v \in Meanings, NEW t \in Seq(Pieces), NEW m \in 0..Len(t)
    PROVE  /\ Replaced(v, t, m) \in Seq(Seq(Bytes))
           /\ Len(Replaced(v, t, m)) = m
           /\ \A i \in 1..m : PieceIn(v, t[i]) \in Seq(Bytes) /\ Replaced(v, t, m)[i] = PieceIn(v, t[i])
<1>1. Len(t) \in Nat /\ m \in Nat
  BY LenProperties
<1>2. ASSUME NEW i \in 1..m PROVE PieceIn(v, t[i]) \in Seq(Bytes)
  <2>1. i \in 1..Len(t)
    BY <1>1
  <2>2. t[i] \in Pieces
    BY <2>1, ElementOfSeq
  <2>3. t[i].name \in EntityNames /\ t[i].bytes \in Seq(Bytes)
    BY <2>2 DEF Pieces
  <2> QED BY <2>3 DEF PieceIn, Meanings
<1>3. [i \in 1..m |-> PieceIn(v, t[i])] \in Seq(Seq(Bytes))
  BY <1>1, <1>2, IsASeq
<1>4. Len(Replaced(v, t, m)) = m
  <2>1. Replaced(v, t, m) \in Seq(Seq(Bytes)) /\ DOMAIN Replaced(v, t, m) = 1..m
    BY <1>3 DEF Replaced
  <2>2. Len(Replaced(v, t, m)) \in Nat /\ 1..Len(Replaced(v, t, m)) = 1..m
    BY <2>1, LenProperties
  <2> QED BY <1>1, <2>2
<1> QED BY <1>2, <1>3, <1>4 DEF Replaced

\* A substitution more gives every entity a text again.
LEMMA DeeperType ==
    ASSUME NEW e, Table(e), NEW v \in Meanings
    PROVE  Deeper(e, v) \in Meanings
<1>1. ASSUME NEW n \in EntityNames
      PROVE  (IF n \notin DOMAIN e THEN <<>> ELSE FlattenSeq(Replaced(v, e[n], Len(e[n])))) \in Seq(Bytes)
  <2>1. CASE n \notin DOMAIN e
    BY <2>1, EmptySeq
  <2>2. CASE n \in DOMAIN e
    <3>1. e[n] \in Seq(Pieces) /\ Len(e[n]) \in 0..Len(e[n])
      BY <2>2, LenProperties DEF Table
    <3>2. Replaced(v, e[n], Len(e[n])) \in Seq(Seq(Bytes))
      BY <3>1, ReplacedType
    <3> QED BY <2>2, <3>2, FlattenFacts
  <2> QED BY <2>1, <2>2
<1> QED BY <1>1 DEF Deeper, Meanings

\* There is such a function, and what it is at each depth.
LEMMA MeaningFacts ==
    ASSUME NEW e, Table(e), NEW limit \in Nat
    PROVE  /\ IsSubstitution(e, Meaning(e, limit), limit)
           /\ \A k \in 0..limit : Meaning(e, limit)[k] \in Meanings
           /\ \A k \in 1..limit : Meaning(e, limit)[k] = Deeper(e, Meaning(e, limit)[k - 1])
<1> DEFINE zero == [n \in EntityNames |-> <<>>]
           step == [k \in 1..limit |-> [v \in Meanings |-> Deeper(e, v)]]
           Body(f, k) == [n \in EntityNames |->
                IF k = 0 \/ n \notin DOMAIN e THEN <<>>
                ELSE FlattenSeq([i \in DOMAIN e[n] |->
                        IF e[n][i].kind = "entity" THEN f[k - 1][e[n][i].name]
                        ELSE e[n][i].bytes])]
<1>1. zero \in Meanings
  BY EmptySeq DEF Meanings
<1>2. step \in [1..limit -> [Meanings -> Meanings]]
  BY DeeperType
<1>3. \A k \in 1..limit : \A v \in Meanings : step[k][v] = Deeper(e, v)
  OBVIOUS
<1> HIDE DEF step
<1>4. IsRecursion(Meanings, zero, limit, step)
  BY <1>1, <1>2 DEF IsRecursion
<1>5. HasRecursion(Meanings, zero, limit, step)
  BY <1>4, RecursionExists
<1>6. PICK t \in [0..limit -> Meanings] : t[0] = zero /\ \A k \in 1..limit : t[k] = step[k][t[k - 1]]
  BY <1>5 DEF HasRecursion
<1>7. ASSUME NEW k \in 1..limit PROVE t[k] = Deeper(e, t[k - 1])
  <2>1. k - 1 \in 0..limit
    OBVIOUS
  <2>2. t[k - 1] \in Meanings
    BY <2>1
  <2> QED BY <1>3, <1>6, <2>2
<1>8. ASSUME NEW f, NEW k \in 1..limit PROVE Body(f, k) = Deeper(e, f[k - 1])
  <2>1. k # 0
    OBVIOUS
  <2>2. ASSUME NEW n \in DOMAIN e
        PROVE  [i \in DOMAIN e[n] |-> IF e[n][i].kind = "entity" THEN f[k - 1][e[n][i].name]
                                      ELSE e[n][i].bytes]
                 = Replaced(f[k - 1], e[n], Len(e[n]))
    <3>1. DOMAIN e[n] = 1..Len(e[n])
      BY LenProperties DEF Table
    <3> QED BY <3>1 DEF Replaced, PieceIn
  <2> QED BY <2>1, <2>2 DEF Deeper
<1>9. \A f : Body(f, 0) = zero
  OBVIOUS
<1> HIDE DEF Body, zero
<1>10. ASSUME NEW k \in 0..limit PROVE t[k] = Body(t, k)
  <2>1. CASE k = 0
    BY <1>6, <1>9, <2>1
  <2>2. CASE k # 0
    <3>1. k \in 1..limit
      BY <2>2
    <3> QED BY <1>7, <1>8, <3>1
  <2> QED BY <2>1, <2>2
<1>11. t = [k \in 0..limit |-> Body(t, k)]
  <2>1. t = [k \in 0..limit |-> t[k]]
    OBVIOUS
  <2> QED BY <1>10, <2>1
<1>12. \A f : IsSubstitution(e, f, limit) <=> f = [k \in 0..limit |-> Body(f, k)]
  BY DEF IsSubstitution, Body
<1>13. IsSubstitution(e, t, limit)
  BY <1>11, <1>12
<1> DEFINE g == Meaning(e, limit)
<1>14. IsSubstitution(e, g, limit)
  BY <1>13 DEF Meaning
<1> HIDE DEF g
<1>15. \A k \in 0..limit : g[k] = Body(g, k)
  BY <1>12, <1>14
<1>16. \A k \in 1..limit : g[k] = Deeper(e, g[k - 1])
  <2>1. \A k \in 1..limit : k \in 0..limit
    OBVIOUS
  <2> QED BY <1>8, <1>15, <2>1
<1> DEFINE S == {k \in Nat : k <= limit => g[k] \in Meanings}
<1>17. 0 \in S
  <2>1. 0 \in 0..limit
    OBVIOUS
  <2> QED BY <1>1, <1>9, <1>15, <2>1
<1>18. ASSUME NEW k \in Nat, k \in S PROVE k + 1 \in S
  <2> SUFFICES ASSUME k + 1 <= limit PROVE g[k + 1] \in Meanings
    OBVIOUS
  <2>1. k + 1 \in 1..limit /\ (k + 1) - 1 = k /\ k <= limit
    OBVIOUS
  <2>2. g[k] \in Meanings
    BY <1>18, <2>1
  <2>3. g[k + 1] = Deeper(e, g[k])
    BY <1>16, <2>1
  <2> QED BY <2>2, <2>3, DeeperType
<1>19. \A k \in Nat : k \in S
  <2> HIDE DEF S
  <2> QED BY <1>17, <1>18, InductionOnNat
<1>20. \A k \in 0..limit : g[k] \in Meanings
  BY <1>19
<1> QED BY <1>14, <1>16, <1>20 DEF g

\* What the property names is that function at the limit.
LEMMA SubstitutedIsMeaning ==
    ASSUME NEW limit \in Nat
    PROVE  Substituted(limit) = Meaning(entities, limit)[limit]
BY DEF Substituted, Meaning, IsSubstitution

-----------------------------------------------------------------------------
\* What the call c has expanded, when v is what the entities stand for.
Expands(c, v) == c.expanded = FlattenSeq(Replaced(v, c.text, c.cursor - 1))

\* The i-th call has expanded what its text stands for to any depth that
\* leaves the calls before it room.
TextsInOrder(e, s) ==
    \A i \in 1..Len(s) : \A k \in 0..max_entity_expansions :
        max_entity_expansions <= k + i => Expands(s[i], Meaning(e, max_entity_expansions)[k])

SubstitutionInv == GroundedInv /\ TextsInOrder(entities, calls)

\* What is declared are texts.
LEMMA EntitiesAreTable == TypeOK => Table(entities)
BY TablesAssumption DEF TypeOK, Table

\* A call that is entered has expanded nothing.
LEMMA NewExpands == ASSUME NEW t, NEW v PROVE Expands(Call(t), v)
<1>1. Call(t).expanded = <<>> /\ Call(t).cursor - 1 = 0 /\ 1..0 = {}
  BY DEF Call
<1>2. Replaced(v, Call(t).text, Call(t).cursor - 1) = <<>>
  BY <1>1 DEF Replaced
<1> QED BY <1>1, <1>2, FlattenEmpty DEF Expands

\* A call that is extended by what its piece stands for stays in order.
LEMMA ExtendedExpands ==
    ASSUME NEW c \in Calls, c.cursor <= Len(c.text), NEW v \in Meanings, Expands(c, v),
           NEW b, b = PieceIn(v, PieceOf(c))
    PROVE  Expands(extended(c, b), v)
<1>1. c.text \in Seq(Pieces) /\ c.cursor \in Nat \ {0} /\ Len(c.text) \in Nat
  BY LenProperties DEF Calls
<1> DEFINE m == c.cursor - 1
           ss == Replaced(v, c.text, m)
           tt == Replaced(v, c.text, m + 1)
<1>2. m \in 0..Len(c.text) /\ m + 1 \in 0..Len(c.text) /\ m + 1 = c.cursor /\ m + 1 \in 1..(m + 1)
      /\ m \in Nat
  BY <1>1
<1> HIDE DEF m
<1>3. /\ ss \in Seq(Seq(Bytes)) /\ Len(ss) = m
      /\ \A i \in 1..m : ss[i] = PieceIn(v, c.text[i])
  BY <1>1, <1>2, ReplacedType
<1>4. /\ tt \in Seq(Seq(Bytes)) /\ Len(tt) = m + 1
      /\ \A i \in 1..(m + 1) : PieceIn(v, c.text[i]) \in Seq(Bytes) /\ tt[i] = PieceIn(v, c.text[i])
  BY <1>1, <1>2, ReplacedType
<1> HIDE DEF ss, tt
<1>5. b = PieceIn(v, c.text[m + 1]) /\ b \in Seq(Bytes) /\ tt[m + 1] = b
  BY <1>2, <1>4 DEF PieceOf
<1>6. tt = Append(ss, b)
  <2>1. /\ Append(ss, b) \in Seq(Seq(Bytes)) /\ Len(Append(ss, b)) = m + 1
        /\ Append(ss, b)[m + 1] = b /\ \A i \in 1..m : Append(ss, b)[i] = ss[i]
    BY <1>3, <1>5, PushFacts
  <2>2. \A i \in 1..Len(tt) : i \in 1..m \/ i = m + 1
    BY <1>2, <1>4
  <2>3. \A i \in 1..Len(tt) : tt[i] = Append(ss, b)[i]
    <3> TAKE i \in 1..Len(tt)
    <3>1. CASE i \in 1..m
      <4>1. i \in 1..(m + 1)
        BY <1>2, <3>1
      <4> QED BY <1>3, <1>4, <2>1, <3>1, <4>1
    <3>2. CASE i = m + 1
      BY <1>5, <2>1, <3>2
    <3> QED BY <2>2, <3>1, <3>2
  <2> QED BY <1>4, <2>1, <2>3, SeqEqual
<1>7. FlattenSeq(tt) = FlattenSeq(ss) \o b
  BY <1>3, <1>5, <1>6, FlattenAppend
<1>8. c.expanded = FlattenSeq(ss)
  BY DEF Expands, ss, m
<1>9. /\ extended(c, b).text = c.text
      /\ extended(c, b).cursor = c.cursor + 1
      /\ extended(c, b).expanded = c.expanded \o b
  BY <1>5, ExtendedShape
<1>10. extended(c, b).cursor - 1 = m + 1
  BY <1>1, <1>2, <1>9
<1> QED BY <1>7, <1>8, <1>9, <1>10 DEF Expands, tt

\* A call at its end has expanded what its entity stands for, one level up.
LEMMA EndExpands ==
    ASSUME NEW e, Table(e), NEW n \in DOMAIN e, NEW c \in Calls, c.text = e[n],
           c.cursor = Len(c.text) + 1, NEW v, Expands(c, v)
    PROVE  c.expanded = Deeper(e, v)[n]
<1>1. n \in EntityNames /\ e[n] \in Seq(Pieces) /\ Len(e[n]) \in Nat
  BY LenProperties DEF Table
<1>2. c.cursor - 1 = Len(e[n])
  BY <1>1
<1>3. Deeper(e, v)[n] = FlattenSeq(Replaced(v, e[n], Len(e[n])))
  BY <1>1 DEF Deeper
<1> QED BY <1>2, <1>3 DEF Expands

\* A call is entered with nothing expanded.
LEMMA EnteringKeepsTexts ==
    ASSUME NEW e, NEW s \in Seq(Calls), TextsInOrder(e, s), NEW t, Call(t) \in Calls
    PROVE  TextsInOrder(e, Append(s, Call(t)))
<1> DEFINE d == Call(t)
           r == Append(s, d)
<1>1. \A v : Expands(d, v)
  BY NewExpands
<1>2. d \in Calls
  OBVIOUS
<1> HIDE DEF d
<1>3. Len(s) \in Nat /\ Len(r) = Len(s) + 1 /\ r[Len(s) + 1] = d /\ \A i \in 1..Len(s) : r[i] = s[i]
  BY <1>2, PushFacts, LenProperties
<1>4. \A i \in 1..(Len(s) + 1) : i \in 1..Len(s) \/ i = Len(s) + 1
  BY <1>3
<1> HIDE DEF r
<1>5. TextsInOrder(e, r)
  <2> SUFFICES ASSUME NEW i \in 1..Len(r), NEW k \in 0..max_entity_expansions,
                      max_entity_expansions <= k + i
               PROVE  Expands(r[i], Meaning(e, max_entity_expansions)[k])
    BY DEF TextsInOrder
  <2>1. CASE i = Len(s) + 1
    BY <1>1, <1>3, <2>1
  <2>2. CASE i \in 1..Len(s)
    BY <1>3, <2>2 DEF TextsInOrder
  <2> QED BY <1>3, <1>4, <2>1, <2>2
<1> QED BY <1>5 DEF r, d

\* The innermost call passes its piece, which the bytes are what it stands for
\* to each of the depths the call is in order for.
LEMMA PassingKeepsTexts ==
    ASSUME NEW e, Table(e), NEW s, CallsOK(s), s # <<>>, TextsInOrder(e, s), NEW b \in Seq(Bytes),
           Last(s).cursor <= Len(Last(s).text),
           \A k \in 0..max_entity_expansions :
              max_entity_expansions <= k + Len(s) =>
                 b = PieceIn(Meaning(e, max_entity_expansions)[k], PieceOf(Last(s)))
    PROVE  TextsInOrder(e, [s EXCEPT ![Len(s)] = extended(Last(s), b)])
<1> DEFINE c == Last(s)
           d == extended(c, b)
           r == [s EXCEPT ![Len(s)] = d]
<1>1. s \in Seq(Calls) /\ Len(s) \in Nat \ {0} /\ c = s[Len(s)] /\ c \in Calls
  BY PopFacts DEF CallsOK
<1>2. d \in Calls
  BY <1>1, ExtendedShape
<1>3. ASSUME NEW k \in 0..max_entity_expansions, max_entity_expansions <= k + Len(s)
      PROVE  Expands(d, Meaning(e, max_entity_expansions)[k])
  <2>1. Len(s) \in 1..Len(s)
    BY <1>1
  <2>2. Expands(c, Meaning(e, max_entity_expansions)[k])
    BY <1>1, <1>3, <2>1 DEF TextsInOrder
  <2>3. Meaning(e, max_entity_expansions)[k] \in Meanings
    BY MeaningFacts, LimitsAssumption
  <2>4. b = PieceIn(Meaning(e, max_entity_expansions)[k], PieceOf(c))
    BY <1>3
  <2> HIDE DEF c
  <2> QED BY <1>1, <2>2, <2>3, <2>4, ExtendedExpands DEF c
<1> HIDE DEF d, c
<1>4. Len(r) = Len(s) /\ r[Len(s)] = d /\ \A i \in 1..Len(s) : i # Len(s) => r[i] = s[i]
  BY <1>1, <1>2, TopFacts
<1> HIDE DEF r
<1>5. TextsInOrder(e, r)
  <2> SUFFICES ASSUME NEW i \in 1..Len(r), NEW k \in 0..max_entity_expansions,
                      max_entity_expansions <= k + i
               PROVE  Expands(r[i], Meaning(e, max_entity_expansions)[k])
    BY DEF TextsInOrder
  <2>1. CASE i = Len(s)
    BY <1>3, <1>4, <2>1
  <2>2. CASE i # Len(s)
    BY <1>4, <2>2 DEF TextsInOrder
  <2> QED BY <2>1, <2>2
<1> QED BY <1>5 DEF r, d, c

\* The callers of a call are in order without it.
LEMMA LeavingKeepsTexts ==
    ASSUME NEW e, NEW s \in Seq(Calls), s # <<>>, TextsInOrder(e, s)
    PROVE  TextsInOrder(e, Front(s))
<1>1. /\ Len(s) \in Nat \ {0} /\ Len(Front(s)) = Len(s) - 1
      /\ \A i \in 1..(Len(s) - 1) : i \in 1..Len(s) /\ Front(s)[i] = s[i]
  BY PopFacts
<1> QED BY <1>1 DEF TextsInOrder

\* With no call there is nothing to be in order.
LEMMA NoTexts == ASSUME NEW e PROVE TextsInOrder(e, <<>>)
<1>1. Len(<<>>) = 0 /\ 1..0 = {}
  BY EmptySeq
<1> QED BY <1>1 DEF TextsInOrder

\* What a nested call delivers is what the reference its caller is at stands
\* for, to each of the depths the caller is in order for.
LEMMA ReturnedIsMeaning ==
    ASSUME NEW e, Table(e), NEW s, CallsOK(s), TextsInOrder(e, s), s # <<>>,
           Len(s) <= max_entity_expansions,
           Last(s).cursor = Len(Last(s).text) + 1,
           NEW n \in DOMAIN e, Last(s).text = e[n],
           NEW k \in 0..max_entity_expansions, max_entity_expansions <= (k - 1) + Len(s)
    PROVE  Last(s).expanded = Meaning(e, max_entity_expansions)[k][n]
<1>1. /\ s \in Seq(Calls) /\ Len(s) \in Nat \ {0} /\ Last(s) = s[Len(s)] /\ Last(s) \in Calls
      /\ Len(s) \in 1..Len(s)
  BY PopFacts DEF CallsOK
<1>2. k \in 1..max_entity_expansions /\ k - 1 \in 0..max_entity_expansions
  BY <1>1, LimitsAssumption
<1>3. Expands(Last(s), Meaning(e, max_entity_expansions)[k - 1])
  BY <1>1, <1>2 DEF TextsInOrder
<1>4. Last(s).expanded = Deeper(e, Meaning(e, max_entity_expansions)[k - 1])[n]
  BY <1>1, <1>3, EndExpands
<1>5. Meaning(e, max_entity_expansions)[k] = Deeper(e, Meaning(e, max_entity_expansions)[k - 1])
  BY <1>2, MeaningFacts, LimitsAssumption
<1> QED BY <1>4, <1>5

\* Every step keeps the calls in order, and one that delivers delivers what
\* the entity stands for.
LEMMA StepSubstitutes ==
    ASSUME SubstitutionInv, [Next]_vars
    PROVE  /\ TextsInOrder(entities, calls')
           /\ Delivers => expansion' = Substituted(max_entity_expansions)[reference]
<1>1. /\ ExpansionInv /\ TypeOK /\ RecursionIsBounded /\ ReadInOrder(calls, reference)
      /\ TextsInOrder(entities, calls) /\ Table(entities)
  BY EntitiesAreTable DEF SubstitutionInv, GroundedInv, ExpansionInv
<1>2. ASSUME UNCHANGED calls PROVE TextsInOrder(entities, calls')
  BY <1>1, <1>2
<1>3. ASSUME NEW kind \in {"character", "invalid", "entity"}, NEW name \in EntityNames,
             parse_reference(kind, name)
      PROVE  TextsInOrder(entities, calls') /\ ~Delivers
  <2>1. pc = "text" /\ calls = <<>>
    BY <1>1, <1>3 DEF parse_reference, TypeOK
  <2>2. CASE UNCHANGED calls
    BY <1>2, <2>1, <2>2 DEF Delivers
  <2>3. CASE name \in DOMAIN entities /\ Enter(entities[name])
    <3>1. UNCHANGED calls \/ calls' = Append(calls, Call(entities[name]))
      BY <2>3 DEF Enter, fail
    <3>2. Call(entities[name]) \in Calls
      BY <1>1, <2>3, NewCallOK DEF CallOK
    <3>3. calls \in Seq(Calls)
      BY <1>1 DEF TypeOK
    <3>4. TextsInOrder(entities, Append(calls, Call(entities[name])))
      BY <1>1, <3>2, <3>3, EnteringKeepsTexts
    <3> QED BY <1>2, <2>1, <3>1, <3>4 DEF Delivers
  <2> QED BY <1>3, <2>2, <2>3 DEF parse_reference, fail
<1>4. CASE EndOfText
  BY <1>2, <1>4 DEF EndOfText, Delivers
<1>5. CASE truncated_reference
  BY <1>2, <1>5 DEF truncated_reference, fail, Delivers
<1>6. CASE copy_byte
  <2>1. /\ pc = "expanding" /\ ~AtEnd /\ piece.kind = "byte"
        /\ calls' = [calls EXCEPT ![Len(calls)] = extended(Last(calls), piece.bytes)]
        /\ pc' = pc
    BY <1>6 DEF copy_byte, current
  <2>2. /\ calls # <<>> /\ CallsOK(calls) /\ piece.bytes \in Seq(Bytes)
        /\ Last(calls).cursor <= Len(Last(calls).text)
    BY <1>1, <2>1, CurrentCall DEF Pieces, current
  <2>3. \A v : piece.bytes = PieceIn(v, PieceOf(Last(calls)))
    BY <2>1 DEF PieceOf, piece, current, PieceIn
  <2> QED BY <1>1, <2>1, <2>2, <2>3, PassingKeepsTexts DEF Delivers
<1>7. CASE nested_reference
  <2>1. pc = "expanding" /\ ~AtEnd
    BY <1>7 DEF nested_reference
  <2>2. /\ calls # <<>> /\ CallsOK(calls) /\ piece \in Pieces
        /\ Last(calls).cursor <= Len(Last(calls).text)
    BY <1>1, <2>1, CurrentCall DEF current
  <2>3. CASE pc' = "failed" /\ UNCHANGED calls
    BY <1>2, <2>3 DEF Delivers
  <2>4. CASE piece.kind = "character" /\ Resume(calls, piece.bytes)
    <3>1. \/ pc' = "failed" /\ UNCHANGED calls
          \/ /\ calls' = [calls EXCEPT ![Len(calls)] = extended(Last(calls), piece.bytes)]
             /\ UNCHANGED pc
      BY <2>4 DEF Resume, fail
    <3>2. piece.bytes \in Seq(Bytes)
      BY <2>2 DEF Pieces
    <3>3. \A v : piece.bytes = PieceIn(v, PieceOf(Last(calls)))
      BY <2>4 DEF PieceOf, piece, current, PieceIn
    <3>4. TextsInOrder(entities, [calls EXCEPT ![Len(calls)] = extended(Last(calls), piece.bytes)])
      BY <1>1, <2>2, <3>2, <3>3, PassingKeepsTexts
    <3> QED BY <2>1, <2>3, <3>1, <3>4 DEF Delivers
  <2>5. CASE piece.kind = "entity" /\ EnterNested(piece.name)
    <3>1. \/ pc' = "failed" /\ UNCHANGED calls
          \/ /\ piece.name \in DOMAIN entities
             /\ calls' = Append(calls, Call(entities[piece.name]))
             /\ pc' = "expanding"
      BY <2>5 DEF EnterNested, Enter, fail
    <3>2. CASE /\ piece.name \in DOMAIN entities
               /\ calls' = Append(calls, Call(entities[piece.name]))
               /\ pc' = "expanding"
      <4>1. Call(entities[piece.name]) \in Calls
        BY <1>1, <3>2, NewCallOK DEF CallOK
      <4>2. calls \in Seq(Calls)
        BY <1>1 DEF TypeOK
      <4>3. TextsInOrder(entities, Append(calls, Call(entities[piece.name])))
        BY <1>1, <4>1, <4>2, EnteringKeepsTexts
      <4> QED BY <2>1, <3>2, <4>3 DEF Delivers
    <3> QED BY <2>3, <3>1, <3>2
  <2> QED BY <1>7, <2>3, <2>4, <2>5 DEF nested_reference, fail
<1>8. CASE return_nested
  <2>1. pc = "expanding" /\ AtEnd /\ Len(calls) > 1
    BY <1>8 DEF return_nested
  <2>2. /\ CallsOK(calls) /\ calls # <<>> /\ Len(calls) \in Nat \ {0}
        /\ CallOK(current) /\ current.expanded \in Seq(Bytes)
        /\ CallsOK(Front(calls)) /\ Front(calls) # <<>> /\ Len(Front(calls)) = Len(calls) - 1
        /\ current.cursor \in Nat /\ Len(current.text) \in Nat
    BY <1>1, <2>1, CurrentCall
  <2>3. calls \in Seq(Calls) /\ Front(calls) \in Seq(Calls)
    BY <2>2 DEF CallsOK
  <2>4. TextsInOrder(entities, Front(calls))
    BY <1>1, <2>2, <2>3, LeavingKeepsTexts
  <2> DEFINE p == PieceOf(Last(Front(calls)))
  <2>5. p.kind = "entity" /\ p.name \in DOMAIN entities /\ current.text = entities[p.name]
    BY <1>1, <2>1, <2>2, LeavingInOrder DEF current, EnteredFrom
  <2>6. current.cursor = Len(current.text) + 1
    BY <2>1, <2>2 DEF AtEnd, CallOK
  <2>7. Len(calls) <= max_entity_expansions
    BY <1>1 DEF RecursionIsBounded
  <2>8. Last(Front(calls)).cursor <= Len(Last(Front(calls)).text)
    <3>1. /\ Last(Front(calls)) = Front(calls)[Len(Front(calls))]
          /\ \A i \in 1..(Len(calls) - 1) : Front(calls)[i] = calls[i]
      BY <2>2, <2>3, PopFacts
    <3>2. Len(calls) - 1 \in 1..(Len(calls) - 1)
      BY <2>1, <2>2
    <3>3. calls[Len(calls) - 1].cursor <= Len(calls[Len(calls) - 1].text)
      BY <1>1, <3>2 DEF TypeOK, CallersWait
    <3> QED BY <2>2, <3>1, <3>2, <3>3
  <2>9. ASSUME NEW k \in 0..max_entity_expansions, max_entity_expansions <= k + Len(Front(calls))
        PROVE  current.expanded = PieceIn(Meaning(entities, max_entity_expansions)[k], p)
    <3>1. max_entity_expansions <= (k - 1) + Len(calls)
      BY <2>2, <2>9, LimitsAssumption
    <3> HIDE DEF p
    <3>2. current.expanded = Meaning(entities, max_entity_expansions)[k][p.name]
      BY <1>1, <2>2, <2>5, <2>6, <2>7, <3>1, ReturnedIsMeaning DEF current
    <3> QED BY <2>5, <3>2 DEF PieceIn
  <2>10. TextsInOrder(entities, [Front(calls) EXCEPT ![Len(Front(calls))] =
                         extended(Last(Front(calls)), current.expanded)])
    BY <1>1, <2>2, <2>4, <2>8, <2>9, PassingKeepsTexts
  <2>11. \/ pc' = "failed" /\ UNCHANGED calls
         \/ /\ calls' = [Front(calls) EXCEPT ![Len(Front(calls))] =
                            extended(Last(Front(calls)), current.expanded)]
            /\ UNCHANGED pc
    BY <1>8 DEF return_nested, Resume, fail
  <2> QED BY <1>2, <2>1, <2>10, <2>11 DEF Delivers
<1>9. CASE return_outermost
  <2>1. /\ pc = "expanding" /\ AtEnd /\ Len(calls) = 1 /\ calls' = <<>>
        /\ expansion' = current.expanded
    BY <1>9 DEF return_outermost
  <2>2. /\ calls # <<>> /\ CallsOK(calls) /\ CallOK(current)
        /\ current.cursor \in Nat /\ Len(current.text) \in Nat
    BY <1>1, <2>1, CurrentCall
  <2>3. current = calls[1] /\ current = Last(calls)
    BY <2>1, <2>2, PopFacts DEF current, CallsOK
  <2>4. reference \in DOMAIN entities /\ current.text = entities[reference]
    BY <1>1, <2>2, <2>3 DEF ReadInOrder
  <2>5. current.cursor = Len(current.text) + 1
    BY <2>1, <2>2 DEF AtEnd, CallOK
  <2>6. Len(calls) <= max_entity_expansions
    BY <1>1 DEF RecursionIsBounded
  <2>7. /\ max_entity_expansions \in 0..max_entity_expansions
        /\ max_entity_expansions <= (max_entity_expansions - 1) + Len(calls)
    BY <2>1, LimitsAssumption
  <2>8. current.expanded = Meaning(entities, max_entity_expansions)[max_entity_expansions][reference]
    BY <1>1, <2>2, <2>3, <2>4, <2>5, <2>6, <2>7, ReturnedIsMeaning
  <2>9. Substituted(max_entity_expansions) = Meaning(entities, max_entity_expansions)[max_entity_expansions]
    BY SubstitutedIsMeaning, LimitsAssumption
  <2> QED BY <2>1, <2>8, <2>9, NoTexts
<1>10. CASE UNCHANGED vars
  BY <1>2, <1>10 DEF vars, Delivers
<1> QED BY <1>3, <1>4, <1>5, <1>6, <1>7, <1>8, <1>9, <1>10 DEF Next

\* Every step keeps the invariant.
LEMMA NextSubstitutionInv == ASSUME SubstitutionInv, [Next]_vars PROVE SubstitutionInv'
<1>1. GroundedInv'
  BY NextGroundedInv DEF SubstitutionInv
<1>2. TextsInOrder(entities, calls') /\ entities' = entities
  BY StepSubstitutes, EntitiesKept
<1>3. TextsInOrder(entities', calls')
  BY <1>2
<1> QED BY <1>1, <1>3 DEF SubstitutionInv

\* What parse_reference returns for an entity is its declared text with every
\* reference in it replaced, at any depth and in its place, whichever way
\* expand_entity_text recurses through the texts.
THEOREM SubstitutionAlwaysDelivered == Spec => DeliversTheSubstitution
<1>1. Init => SubstitutionInv
  BY InitExpansionInv, NoCallsInOrder, NoTexts DEF Init, GroundedInv, SubstitutionInv
<1>2. SubstitutionInv /\ [Next]_vars => SubstitutionInv'
  BY NextSubstitutionInv
<1>3. SubstitutionInv /\ [Next]_vars =>
         [Delivers => expansion' = Substituted(max_entity_expansions)[reference]]_vars
  BY StepSubstitutes
<1> QED BY <1>1, <1>2, <1>3, PTL DEF Spec, DeliversTheSubstitution

-----------------------------------------------------------------------------
(* The other references: the value of a character reference never wraps     *)
(* around, whatever the width of the integer it is read into.               *)

\* The check by division is exact: it lets a digit through if and only if the
\* number with it still fits (parse_character_reference).
LEMMA Division ==
    ASSUME NEW v \in Nat, NEW b \in {10, 16}, NEW d \in 0..(b - 1), NEW m \in Nat, m >= 15
    PROVE  v > (m - d) \div b <=> v * b + d > m
<1>1. CASE b = 10
    <2>1. d \in Nat /\ d <= 9
        BY <1>1
    <2>2. v > (m - d) \div 10 <=> v * 10 + d > m
        BY <2>1
    <2> QED
        BY <1>1, <2>2
<1>2. CASE b = 16
    <2>1. d \in Nat /\ d <= 15
        BY <1>2
    <2>2. v > (m - d) \div 16 <=> v * 16 + d > m
        BY <2>1
    <2> QED
        BY <1>2, <2>2
<1> QED
    BY <1>1, <1>2

\* What the assumptions and types say of the numbers involved.
LEMMA Numbers ==
    ASSUME RefTypeOK
    PROVE  /\ MaxValue \in Nat /\ MaxValue >= 15
           /\ value \in Nat /\ value <= MaxValue
           /\ base \in {10, 16}
           /\ text \in Seq(TextChars) /\ Len(text) \in Nat
<1>1. MaxValue \in Nat /\ MaxValue >= 15 /\ Texts \subseteq Seq(TextChars)
    BY ReferenceAssumption
<1>2. text \in Seq(TextChars)
    BY <1>1 DEF RefTypeOK
<1>3. Len(text) \in Nat
    BY <1>2
<1>4. value \in 0..MaxValue /\ base \in {10, 16}
    BY DEF RefTypeOK
<1> QED
    BY <1>1, <1>2, <1>3, <1>4

\* Where a digit is read there is a character, whose value is an integer.
LEMMA DigitIsInt ==
    ASSUME RefTypeOK, offset <= Len(text)
    PROVE  digit \in Int
<1>1. text \in Seq(TextChars) /\ Len(text) \in Nat
    BY Numbers
<1>2. offset \in 1..Len(text)
    <2>1. offset \in 1..(Len(text) + 1)
        BY DEF RefTypeOK
    <2> QED
        BY <1>1, <2>1
<1>3. text[offset] \in TextChars
    BY <1>1, <1>2
<1>4. TextChars \subseteq Int
    BY DEF TextChars, X, Other
<1> QED
    BY <1>3, <1>4 DEF digit

\* A digit is below the base.
LEMMA DigitRange ==
    ASSUME RefTypeOK, digit \in Int, IsDigit
    PROVE  digit \in 0..(base - 1)
BY Numbers DEF IsDigit

\* Overflows tells whether the number with the digit still fits.
LEMMA OverflowsIsExact ==
    ASSUME RefTypeOK, digit \in Int, IsDigit
    PROVE  /\ value * base + digit \in Nat
           /\ Overflows <=> value * base + digit > MaxValue
<1> DEFINE d == digit
<1>1. d \in 0..(base - 1)
    BY DigitRange
<1> HIDE DEF d
<1>2. value > (MaxValue - d) \div base <=> value * base + d > MaxValue
    BY <1>1, Numbers, Division
<1>3. value * base + d \in Nat
    <2>1. base = 10 \/ base = 16
        BY Numbers
    <2> QED
        BY <1>1, <2>1, Numbers
<1> QED
    BY <1>2, <1>3 DEF d, Overflows

\* A number that fits is its own remainder.
LEMMA Remainder ==
    ASSUME NEW n \in Nat, NEW m \in Nat, n <= m
    PROVE  n \in 0..m /\ n % (m + 1) = n
OBVIOUS

\* A digit let through is added without a remainder being taken.
LEMMA NoWrap ==
    ASSUME RefTypeOK, digit \in Int, IsDigit, ~Overflows
    PROVE  /\ value * base + digit \in 0..MaxValue
           /\ (value * base + digit) % (MaxValue + 1) = value * base + digit
<1> DEFINE n == value * base + digit
<1>1. n \in Nat /\ ~(n > MaxValue)
    BY OverflowsIsExact
<1>2. MaxValue \in Nat
    BY Numbers
<1> HIDE DEF n
<1>3. n <= MaxValue
    BY <1>1, <1>2
<1>4. n \in 0..MaxValue /\ n % (MaxValue + 1) = n
    BY <1>1, <1>2, <1>3, Remainder
<1> QED
    BY <1>4 DEF n

\* Reading from the first state on, the value is the number.
ReferenceInv == RefTypeOK /\ NumberIsExact

\* The initial states satisfy the invariant.
LEMMA InitReferenceInv ==
    ASSUME RefInit
    PROVE  ReferenceInv
<1>1. Len(text) \in Nat
    BY ReferenceAssumption DEF RefInit
<1>2. RefTypeOK
    BY <1>1, ReferenceAssumption DEF RefInit, RefTypeOK
<1>3. NumberIsExact
    BY DEF RefInit, NumberIsExact
<1> QED
    BY <1>2, <1>3 DEF ReferenceInv

\* Every step preserves the invariant.
LEMMA NextReferenceInv ==
    ASSUME ReferenceInv, [RefNext]_ref_vars
    PROVE  ReferenceInv'
<1> USE DEF ReferenceInv
<1>1. Len(text) \in Nat
    BY Numbers
<1>2. CASE prefix
    <2>1. base' \in {10, 16} /\ offset' \in 1..(Len(text) + 1)
        <3>1. CASE Hexadecimal
            BY <1>1, <1>2, <3>1 DEF prefix, Hexadecimal
        <3>2. CASE ~Hexadecimal
            BY <1>1, <1>2, <3>2 DEF prefix
        <3> QED
            BY <3>1, <3>2
    <2>2. \/ ref_pc' = "failed" /\ cause' = "empty"
          \/ ref_pc' = "digits" /\ cause' = cause
        BY <1>2 DEF prefix, refuse
    <2>3. UNCHANGED <<text, value, number>> /\ ref_pc = "prefix"
        BY <1>2 DEF prefix
    <2>4. RefTypeOK'
        BY <2>1, <2>2, <2>3 DEF RefTypeOK
    <2>5. NumberIsExact'
        BY <2>2, <2>3 DEF NumberIsExact
    <2> QED
        BY <2>4, <2>5
<1>3. CASE read_digit
    <2>1. digit \in Int
        BY <1>3, DigitIsInt DEF read_digit
    <2>2. CASE ~IsDigit /\ refuse("invalid") /\ UNCHANGED <<value, offset, number>>
        BY <1>3, <2>2 DEF read_digit, RefTypeOK, NumberIsExact, refuse
    <2>3. CASE IsDigit /\ Overflows /\ refuse("overflow") /\ number' = number * base + digit
               /\ UNCHANGED <<value, offset>>
        <3>1. number = value
            BY <1>3 DEF read_digit, NumberIsExact
        <3>2. number' > MaxValue
            BY <2>1, <2>3, <3>1, OverflowsIsExact
        <3>3. number' \in Nat
            BY <2>1, <2>3, <3>1, OverflowsIsExact
        <3>4. RefTypeOK'
            BY <1>3, <2>3, <3>3 DEF read_digit, RefTypeOK, refuse
        <3> QED
            BY <1>3, <2>3, <3>2, <3>4 DEF read_digit, NumberIsExact, refuse
    <2>4. CASE /\ IsDigit /\ ~Overflows
               /\ value' = (value * base + digit) % (MaxValue + 1)
               /\ number' = number * base + digit
               /\ offset' = following
               /\ UNCHANGED <<ref_pc, cause>>
        <3>1. number = value
            BY <1>3 DEF read_digit, NumberIsExact
        <3>2. value' = number' /\ value' \in 0..MaxValue
            BY <2>1, <2>4, <3>1, NoWrap
        <3>3. number' \in Nat
            BY <3>2, Numbers
        <3>4. offset' \in 1..(Len(text) + 1)
            BY <1>1, <1>3, <2>4 DEF read_digit, following, RefTypeOK
        <3>5. RefTypeOK'
            BY <1>3, <2>4, <3>2, <3>3, <3>4 DEF read_digit, RefTypeOK
        <3>6. cause' # "overflow"
            BY <1>3, <2>4 DEF read_digit, RefTypeOK
        <3> QED
            BY <3>2, <3>5, <3>6 DEF NumberIsExact
    <2> QED
        BY <1>3, <2>2, <2>3, <2>4 DEF read_digit
<1>4. CASE finish
    <2>1. RefTypeOK'
        BY <1>4 DEF finish, RefTypeOK, refuse
    <2>2. NumberIsExact'
        BY <1>4 DEF finish, NumberIsExact, refuse
    <2> QED
        BY <2>1, <2>2
<1>5. CASE UNCHANGED ref_vars
    BY <1>5 DEF ref_vars, RefTypeOK, NumberIsExact
<1> QED
    BY <1>2, <1>3, <1>4, <1>5 DEF RefNext

\* No multiplication of parse_character_reference wraps around: the value is
\* the number written, and what is refused as an overflow is too large.
THEOREM NumberAlwaysExact ==
    RefSpec => []NumberIsExact
<1>1. RefInit => ReferenceInv
    BY InitReferenceInv
<1>2. ReferenceInv /\ [RefNext]_ref_vars => ReferenceInv'
    BY NextReferenceInv
<1>3. ReferenceInv => NumberIsExact
    BY DEF ReferenceInv
<1> QED
    BY <1>1, <1>2, <1>3, PTL DEF RefSpec

-----------------------------------------------------------------------------
(* What a character reference denotes is what its digits add up to, each    *)
(* with its weight; the number read and the digits still to be read always  *)
(* make that sum.                                                           *)

\* There is a function to the powers of a number.
LEMMA PowersExist ==
    ASSUME NEW r \in Nat \ {0}, NEW m \in Nat
    PROVE  \E f \in [0..m -> Nat \ {0}] :
              /\ f[0] = 1
              /\ \A k \in 1..m : f[k] = r * f[k - 1]
<1> DEFINE N == Nat \ {0}
           step == [k \in 1..m |-> [v \in N |-> r * v]]
<1>1. step \in [1..m -> [N -> N]]
  OBVIOUS
<1>2. PICK f \in [0..m -> N] : f[0] = 1 /\ \A k \in 1..m : f[k] = step[k][f[k - 1]]
  <2>1. 1 \in N
    OBVIOUS
  <2> HIDE DEF N, step
  <2> QED BY <1>1, <2>1, RecursionOnNat
<1>3. ASSUME NEW k \in 1..m PROVE f[k] = r * f[k - 1]
  <2>1. k - 1 \in 0..m
    OBVIOUS
  <2>2. f[k - 1] \in N
    BY <2>1
  <2> QED BY <1>2, <2>2
<1> QED BY <1>2, <1>3

\* The powers of the radix.
LEMMA Powers ==
    ASSUME text \in Seq(TextChars)
    PROVE  /\ Power[0] = 1
           /\ \A k \in 0..Len(text) : /\ Power[k] \in Nat \ {0}
                                      /\ k > 0 => Power[k] = Radix * Power[k - 1]
<1> DEFINE m == Len(text)
           N == Nat \ {0}
<1>1. m \in Nat /\ Radix \in N
  BY LenProperties DEF Radix
<1> HIDE DEF m
<1>2. PICK f \in [0..m -> N] : f[0] = 1 /\ \A k \in 1..m : f[k] = Radix * f[k - 1]
  BY <1>1, PowersExist
<1>3. f = [k \in 0..m |-> IF k = 0 THEN 1 ELSE Radix * f[k - 1]]
  <2>1. \A k \in 0..m : k # 0 => k \in 1..m
    BY <1>1
  <2> QED BY <1>2, <2>1
<1>4. Power = [k \in 0..m |-> IF k = 0 THEN 1 ELSE Radix * Power[k - 1]]
  BY <1>3 DEF Power, m
<1> DEFINE S == {k \in Nat : k <= m => Power[k] \in N}
<1>5. 0 \in S
  BY <1>1, <1>4
<1>6. ASSUME NEW k \in Nat, k \in S PROVE k + 1 \in S
  <2> SUFFICES ASSUME k + 1 <= m PROVE Power[k + 1] \in N
    OBVIOUS
  <2>1. Power[k] \in N
    BY <1>1, <1>6
  <2>2. k + 1 \in 0..m /\ k + 1 # 0 /\ (k + 1) - 1 = k
    BY <1>1
  <2>3. Power[k + 1] = Radix * Power[k]
    BY <1>4, <2>2
  <2> QED BY <1>1, <2>1, <2>3
<1>7. \A k \in Nat : k \in S
  <2> HIDE DEF S
  <2> QED BY <1>5, <1>6, InductionOnNat
<1>8. ASSUME NEW k \in 0..m PROVE Power[k] \in N /\ (k > 0 => Power[k] = Radix * Power[k - 1])
  <2>1. k \in Nat /\ k <= m
    BY <1>1
  <2>2. k \in S => (k <= m => Power[k] \in N)
    OBVIOUS
  <2>3. k \in S
    <3> HIDE DEF S
    <3> QED BY <1>7, <2>1
  <2>4. Power[k] \in N
    BY <2>1, <2>2, <2>3
  <2>5. k > 0 => k # 0
    BY <2>1
  <2>6. k # 0 => Power[k] = Radix * Power[k - 1]
    BY <1>4
  <2> QED BY <2>4, <2>5, <2>6
<1>9. Power[0] = 1
  BY <1>1, <1>4
<1> QED BY <1>8, <1>9 DEF m

\* How many characters of the text are no digits.
Before == IF Hexadecimal THEN 1 ELSE 0

\* The digits are the text, after its prefix.
LEMMA DigitsOfText ==
    ASSUME text \in Seq(TextChars)
    PROVE  /\ Digits \in Seq(TextChars)
           /\ Len(Digits) \in Nat /\ Len(Digits) = Len(text) - Before
           /\ DOMAIN Digits = 1..Len(Digits)
           /\ Radix \in {10, 16}
           /\ \A i \in 1..Len(Digits) : Digits[i] = text[i + Before] /\ Digits[i] \in Int
<1>1. Len(text) \in Nat /\ DOMAIN text = 1..Len(text)
  BY LenProperties
<1>2. /\ Digits \in Seq(TextChars)
      /\ Len(Digits) \in Nat /\ Len(Digits) = Len(text) - Before
      /\ \A i \in 1..Len(Digits) : Digits[i] = text[i + Before]
  <2>1. CASE Hexadecimal
    <3>1. text # <<>> /\ Len(text) > 1
      BY <2>1, EmptySeq DEF Hexadecimal
    <3>2. /\ Tail(text) \in Seq(TextChars) /\ Len(Tail(text)) = Len(text) - 1
          /\ \A i \in 1..Len(Tail(text)) : Tail(text)[i] = text[i + 1]
      BY <3>1, HeadTailProperties
    <3> QED BY <1>1, <2>1, <3>1, <3>2 DEF Digits, Before
  <2>2. CASE ~Hexadecimal
    BY <1>1, <2>2 DEF Digits, Before
  <2> QED BY <2>1, <2>2
<1>3. \A i \in 1..Len(Digits) : Digits[i] \in Int
  <2>1. TextChars \subseteq Int
    BY DEF TextChars, X, Other
  <2>2. \A i \in 1..Len(Digits) : Digits[i] \in TextChars
    BY <1>2, ElementOfSeq
  <2> QED BY <2>1, <2>2
<1> QED BY <1>2, <1>3, LenProperties DEF Radix

\* The weighted digits from one to another.
Sum(from, to) == SumFunctionOnSet(Weighted, from..to)

\* The first digit of a sum can be taken out of it.
LEMMA FirstOfSum ==
    ASSUME text \in Seq(TextChars), NEW k \in 1..(Len(Digits) + 1)
    PROVE  /\ Sum(k, Len(Digits)) \in Int
           /\ k = Len(Digits) + 1 => Sum(k, Len(Digits)) = 0
           /\ k <= Len(Digits) =>
                 Sum(k, Len(Digits)) =
                    Digits[k] * Power[Len(Digits) - k] + Sum(k + 1, Len(Digits))
<1> DEFINE L == Len(Digits)
           S == k..L
<1>1. L \in Nat /\ DOMAIN Digits = 1..L /\ L <= Len(text) /\ Len(text) \in Nat
  BY DigitsOfText, LenProperties DEF Before
<1>2. \A i \in 1..L : Weighted[i] = Digits[i] * Power[L - i] /\ Weighted[i] \in Int
  <2> TAKE i \in 1..L
  <2>1. L - i \in 0..Len(text)
    BY <1>1
  <2>2. Power[L - i] \in Int /\ Digits[i] \in Int
    BY <2>1, Powers, DigitsOfText
  <2>3. Weighted[i] = Digits[i] * Power[L - i]
    BY <1>1 DEF Weighted
  <2> HIDE DEF L
  <2> QED BY <2>2, <2>3
<1> HIDE DEF L
<1>3. S \subseteq 1..L /\ IsFiniteSet(S)
  BY <1>1, FS_Interval DEF L
<1>4. \A i \in S : Weighted[i] \in Int
  BY <1>2, <1>3
<1> HIDE DEF S
<1>5. /\ SumFunctionOnSet(Weighted, {}) = 0
      /\ SumFunctionOnSet(Weighted, S) \in Int
      /\ \A i \in S : SumFunctionOnSet(Weighted, S) = Weighted[i] + SumFunctionOnSet(Weighted, S \ {i})
  BY <1>3, <1>4, SumFacts
<1>6. k = L + 1 => S = {}
  BY <1>1 DEF S
<1>7. k <= L => k \in S /\ S \ {k} = (k + 1)..L /\ k \in 1..L
  BY <1>1 DEF S
<1>8. k <= L => Sum(k, L) = Digits[k] * Power[L - k] + Sum(k + 1, L)
  BY <1>2, <1>5, <1>7 DEF Sum, S
<1> QED BY <1>5, <1>6, <1>8 DEF Sum, S, L

\* Digits that are all in order never add up to less than nothing.
LEMMA SumIsNat ==
    ASSUME text \in Seq(TextChars), IsNumber, NEW k \in 1..(Len(Digits) + 1)
    PROVE  Sum(k, Len(Digits)) \in Nat
<1> DEFINE L == Len(Digits)
           S == {n \in Nat : n <= L => Sum(L + 1 - n, L) \in Nat}
<1>1. L \in Nat /\ L <= Len(text) /\ DOMAIN Digits = 1..L /\ Radix \in {10, 16}
  BY DigitsOfText, LenProperties DEF Before
<1>2. 0 \in S
  <2>1. L + 1 \in 1..(L + 1) /\ L + 1 - 0 = L + 1
    BY <1>1
  <2>2. Sum(L + 1, L) = 0
    BY <2>1, FirstOfSum
  <2> HIDE DEF L
  <2> QED BY <2>1, <2>2
<1>3. ASSUME NEW n \in Nat, n \in S PROVE n + 1 \in S
  <2> SUFFICES ASSUME n + 1 <= L PROVE Sum(L + 1 - (n + 1), L) \in Nat
    OBVIOUS
  <2> DEFINE i == L + 1 - (n + 1)
  <2>1. i \in 1..L /\ i \in 1..(L + 1) /\ i + 1 = L + 1 - n /\ L - i \in 0..Len(text) /\ n <= L
    BY <1>1, LenProperties
  <2>2. Sum(i, L) = Digits[i] * Power[L - i] + Sum(i + 1, L)
    BY <2>1, FirstOfSum
  <2>3. Sum(i + 1, L) \in Nat
    BY <1>3, <2>1
  <2>4. Digits[i] \in Nat /\ Power[L - i] \in Nat
    <3>1. Power[L - i] \in Nat
      BY <2>1, Powers
    <3>2. Digits[i] \in 0..(Radix - 1)
      BY <1>1, <2>1 DEF IsNumber
    <3> QED BY <1>1, <3>1, <3>2
  <2> HIDE DEF i, L
  <2> QED BY <2>2, <2>3, <2>4 DEF i
<1>4. \A n \in Nat : n \in S
  <2> HIDE DEF S
  <2> QED BY <1>2, <1>3, InductionOnNat
<1>5. L + 1 - k \in Nat /\ L + 1 - k <= L /\ L + 1 - (L + 1 - k) = k
  BY <1>1
<1> QED BY <1>4, <1>5

\* What a reference denotes depends on nothing but its text.
LEMMA TextDenotes ==
    ASSUME text' = text
    PROVE  /\ Radix' = Radix /\ Before' = Before /\ Digits' = Digits
           /\ Power' = Power /\ Denoted' = Denoted
           /\ IsNumber' = IsNumber
           /\ \A k : Sum(k, Len(Digits))' = Sum(k, Len(Digits))
<1>1. Radix' = Radix /\ Before' = Before /\ Digits' = Digits
  BY DEF Radix, Before, Digits, Hexadecimal
<1>2. Power' = Power
  BY <1>1 DEF Power
<1>3. Weighted' = Weighted
  BY <1>1, <1>2 DEF Weighted
<1>4. Denoted' = Denoted
  BY <1>3 DEF Denoted
<1>5. IsNumber' = IsNumber
  BY <1>1 DEF IsNumber
<1>6. \A k : Sum(k, Len(Digits))' = Sum(k, Len(Digits))
  BY <1>1, <1>3 DEF Sum
<1> QED BY <1>1, <1>2, <1>4, <1>5, <1>6

\* Once the digits are being read, those already read are digits, and what
\* they make, with what those to come will add, is what the text denotes.
ReadInv ==
    /\ ref_pc = "prefix" => number = 0
    /\ ref_pc = "digits" =>
          /\ base = Radix
          /\ offset > Before /\ offset <= Len(text) + 1
          /\ Digits # <<>>
          /\ \A i \in 1..(offset - 1 - Before) : Digits[i] \in 0..(Radix - 1)
          /\ Denoted = number * Power[Len(text) + 1 - offset]
                          + Sum(offset - Before, Len(Digits))

VerdictInv == ReferenceInv /\ ReadInv /\ VerdictIsRight

\* The text is a sequence of digits and other characters.
LEMMA TextIsText ==
    ASSUME RefTypeOK
    PROVE  text \in Seq(TextChars) /\ Len(text) \in Nat
<1>1. text \in Seq(TextChars)
    BY ReferenceAssumption DEF RefTypeOK
<1> QED
    BY <1>1, LenProperties

\* Before any digit is read, all of the sum is still to come.
LEMMA NothingRead ==
    ASSUME RefTypeOK
    PROVE  Denoted = 0 * Power[Len(text) - Before] + Sum(1, Len(Digits))
<1>1. /\ text \in Seq(TextChars) /\ Len(text) \in Nat
      /\ Len(Digits) \in Nat /\ Len(Digits) = Len(text) - Before
      /\ DOMAIN Digits = 1..Len(Digits)
    BY TextIsText, DigitsOfText
<1>2. Denoted = Sum(1, Len(Digits))
    BY <1>1 DEF Denoted, SumFunction, Sum, Weighted
<1>3. Len(text) - Before \in 0..Len(text)
    BY <1>1 DEF Before
<1>4. Power[Len(text) - Before] \in Nat
    BY <1>1, <1>3, Powers
<1>5. 1 \in 1..(Len(Digits) + 1)
    BY <1>1
<1>6. Sum(1, Len(Digits)) \in Int
    BY <1>1, <1>5, FirstOfSum
<1> QED
    BY <1>2, <1>4, <1>6

\* A digit read moves from what is still to come to what has been read.
LEMMA OneMoreRead ==
    ASSUME RefTypeOK, ReadInv, ref_pc = "digits", offset <= Len(text), digit \in Int
    PROVE  /\ offset - Before \in 1..Len(Digits)
           /\ Digits[offset - Before] = digit
           /\ Denoted = (number * base + digit) * Power[Len(text) - offset]
                           + Sum(offset + 1 - Before, Len(Digits))
<1>1. /\ text \in Seq(TextChars) /\ Len(text) \in Nat
      /\ Len(Digits) \in Nat /\ Len(Digits) = Len(text) - Before
      /\ Before \in {0, 1}
      /\ offset \in Nat /\ offset > Before /\ number \in Nat /\ base = Radix
      /\ Radix \in {10, 16}
    BY TextIsText, DigitsOfText DEF Before, RefTypeOK, ReadInv
<1> DEFINE k == offset - Before
           p == Power[Len(text) - offset]
           rest == Sum(k + 1, Len(Digits))
<1>2. k \in 1..Len(Digits) /\ k \in 1..(Len(Digits) + 1) /\ k + 1 \in 1..(Len(Digits) + 1)
    BY <1>1
<1>3. Digits[k] = text[k + Before] /\ k + Before = offset
    BY <1>1, <1>2, DigitsOfText
<1>4. Digits[k] = digit
    BY <1>3 DEF digit
<1>5. /\ Len(text) - offset \in 0..Len(text) /\ Len(text) + 1 - offset \in 0..Len(text)
      /\ Len(text) + 1 - offset > 0 /\ (Len(text) + 1 - offset) - 1 = Len(text) - offset
      /\ Len(Digits) - k = Len(text) - offset
    BY <1>1
<1>6. Power[Len(text) + 1 - offset] = Radix * p /\ p \in Nat
    BY <1>1, <1>5, Powers
<1>7. Sum(k, Len(Digits)) = digit * p + rest
    BY <1>1, <1>2, <1>4, <1>5, FirstOfSum
<1>8. rest \in Int
    BY <1>1, <1>2, FirstOfSum
<1>9. Denoted = number * (Radix * p) + (digit * p + rest)
    BY <1>6, <1>7 DEF ReadInv
<1>10. rest = Sum(offset + 1 - Before, Len(Digits))
    <2>1. k + 1 = offset + 1 - Before
        BY <1>1
    <2> QED
        BY <2>1
<1> HIDE DEF p, rest, k
<1>11. number * (Radix * p) + (digit * p + rest) = (number * Radix + digit) * p + rest
    <2>1. number \in Int /\ Radix \in Int /\ p \in Int /\ digit \in Int /\ rest \in Int
        BY <1>1, <1>6, <1>8
    <2>2. \A n, r, q, d, s \in Int : n * (r * q) + (d * q + s) = (n * r + d) * q + s
        OBVIOUS
    <2> QED
        BY <2>1, <2>2
<1>12. Denoted = (number * Radix + digit) * p + Sum(offset + 1 - Before, Len(Digits))
    BY <1>9, <1>10, <1>11
<1>13. Denoted = (number * base + digit) * p + Sum(offset + 1 - Before, Len(Digits))
    BY <1>1, <1>12
<1> QED
    BY <1>2, <1>4, <1>13 DEF k, p

\* A text of digits denotes no less than what any part of it makes.
LEMMA AtLeastTheRead ==
    ASSUME RefTypeOK, ReadInv, ref_pc = "digits", offset <= Len(text), digit \in Int, IsNumber,
           number * base + digit \in Nat
    PROVE  Denoted >= number * base + digit
<1> DEFINE n == number * base + digit
           p == Power[Len(text) - offset]
           rest == Sum(offset + 1 - Before, Len(Digits))
<1>1. /\ text \in Seq(TextChars) /\ Len(text) \in Nat
      /\ Len(Digits) \in Nat /\ Len(Digits) = Len(text) - Before
      /\ Before \in {0, 1} /\ offset \in Nat /\ offset > Before
    BY TextIsText, DigitsOfText DEF Before, RefTypeOK, ReadInv
<1>2. Denoted = n * p + rest
    BY OneMoreRead
<1>3. offset + 1 - Before \in 1..(Len(Digits) + 1) /\ Len(text) - offset \in 0..Len(text)
    BY <1>1
<1>4. rest \in Nat
    BY <1>1, <1>3, SumIsNat
<1>5. p \in Nat \ {0}
    BY <1>1, <1>3, Powers
<1>6. n \in Nat
    OBVIOUS
<1> HIDE DEF n, p, rest
<1>7. n * p + rest >= n
    <2>1. \A a \in Nat, b \in Nat \ {0}, c \in Nat : a * b + c >= a
        <3> TAKE a \in Nat, b \in Nat \ {0}, c \in Nat
        <3>1. PICK d \in Nat : b = d + 1
            <4>1. b - 1 \in Nat /\ b = (b - 1) + 1
                OBVIOUS
            <4> QED
                BY <4>1
        <3>2. a * b = a * d + a
            BY <3>1
        <3>3. a * d \in Nat
            OBVIOUS
        <3> QED
            BY <3>2, <3>3
    <2> QED
        BY <1>4, <1>5, <1>6, <2>1
<1> QED
    BY <1>2, <1>7 DEF n

\* When all digits have been read, the number is what the text denotes.
LEMMA AllRead ==
    ASSUME RefTypeOK, ReadInv, ref_pc = "digits", offset > Len(text)
    PROVE  IsNumber /\ Denoted = number
<1>1. /\ text \in Seq(TextChars) /\ Len(text) \in Nat
      /\ Len(Digits) \in Nat /\ Len(Digits) = Len(text) - Before
      /\ DOMAIN Digits = 1..Len(Digits)
      /\ Before \in {0, 1} /\ offset \in Nat /\ offset = Len(text) + 1 /\ number \in Nat
    BY TextIsText, DigitsOfText DEF Before, RefTypeOK, ReadInv
<1>2. offset - 1 - Before = Len(Digits) /\ offset - Before = Len(Digits) + 1
      /\ Len(text) + 1 - offset = 0 /\ Len(Digits) + 1 \in 1..(Len(Digits) + 1)
    BY <1>1
<1>3. IsNumber
    BY <1>1, <1>2 DEF IsNumber, ReadInv
<1>4. Power[0] = 1 /\ Sum(Len(Digits) + 1, Len(Digits)) = 0
    BY <1>1, <1>2, Powers, FirstOfSum
<1>5. Denoted = number * 1 + 0
    BY <1>2, <1>4 DEF ReadInv
<1> QED
    BY <1>1, <1>3, <1>5

\* Initially nothing has been read.
LEMMA InitVerdictInv ==
    ASSUME RefInit
    PROVE  VerdictInv
<1>1. ReferenceInv
    BY InitReferenceInv
<1>2. ReadInv
    BY DEF RefInit, ReadInv
<1>3. VerdictIsRight
    BY DEF RefInit, VerdictIsRight
<1> QED
    BY <1>1, <1>2, <1>3 DEF VerdictInv

\* The prefix decides the radix, and whether there is a digit at all.
LEMMA PrefixKeepsVerdict ==
    ASSUME VerdictInv, prefix, ReferenceInv'
    PROVE  ReadInv' /\ VerdictIsRight'
<1>1. RefTypeOK /\ number = 0 /\ text' = text /\ number' = 0
    BY DEF VerdictInv, ReferenceInv, ReadInv, prefix
<1>2. /\ Len(text) \in Nat /\ text \in Seq(TextChars)
      /\ Len(Digits) \in Nat /\ Len(Digits) = Len(text) - Before /\ Digits \in Seq(TextChars)
    BY <1>1, TextIsText, DigitsOfText
<1>3. offset' = Before + 1 /\ base' = Radix /\ Before \in {0, 1}
    BY DEF prefix, Before, Radix
<1>4. CASE offset' > Len(text)
    <2>1. Len(Digits) = 0
        BY <1>2, <1>3, <1>4
    <2>2. Digits = <<>>
        BY <1>2, <2>1, EmptySeq
    <2>3. ~IsNumber'
        BY <1>1, <2>2, TextDenotes DEF IsNumber
    <2>4. ref_pc' = "failed"
        BY <1>4 DEF prefix, refuse
    <2> QED
        BY <2>3, <2>4 DEF ReadInv, VerdictIsRight
<1>5. CASE ~(offset' > Len(text))
    <2>1. ref_pc' = "digits"
        BY <1>5 DEF prefix
    <2>2. Digits # <<>>
        <3>1. Len(Digits) > 0
            BY <1>2, <1>3, <1>5
        <3> QED
            BY <1>2, <3>1, EmptySeq
    <2>3. Denoted = 0 * Power[Len(text) - Before] + Sum(1, Len(Digits))
        BY <1>1, NothingRead
    <2>4. /\ Len(text) + 1 - offset' = Len(text) - Before
          /\ offset' - Before = 1 /\ offset' - 1 - Before = 0
          /\ offset' > Before /\ offset' <= Len(text) + 1
        BY <1>2, <1>3, <1>5
    <2>5. Denoted = number' * Power[Len(text) + 1 - offset'] + Sum(offset' - Before, Len(Digits))
        BY <1>1, <2>3, <2>4
    <2>6. \A i \in 1..(offset' - 1 - Before) : Digits[i] \in 0..(Radix - 1)
        BY <2>4
    <2>7. ReadInv'
        BY <1>1, <1>3, <2>1, <2>2, <2>4, <2>5, <2>6, TextDenotes DEF ReadInv
    <2>8. VerdictIsRight'
        BY <2>1 DEF VerdictIsRight
    <2> QED
        BY <2>7, <2>8
<1> QED
    BY <1>4, <1>5

\* A character that is no digit, or a number that has grown too large, is
\* refused for good; a digit read is accounted for.
LEMMA DigitKeepsVerdict ==
    ASSUME VerdictInv, read_digit, ReferenceInv'
    PROVE  ReadInv' /\ VerdictIsRight'
<1>1. /\ RefTypeOK /\ ReadInv /\ NumberIsExact
      /\ ref_pc = "digits" /\ offset <= Len(text) /\ text' = text /\ base' = base
    BY DEF VerdictInv, ReferenceInv, read_digit
<1>2. digit \in Int
    BY <1>1, DigitIsInt
<1>3. /\ offset - Before \in 1..Len(Digits)
      /\ Digits[offset - Before] = digit
      /\ Denoted = (number * base + digit) * Power[Len(text) - offset]
                      + Sum(offset + 1 - Before, Len(Digits))
    BY <1>1, <1>2, OneMoreRead
<1>4. /\ Len(text) \in Nat /\ Len(Digits) \in Nat /\ DOMAIN Digits = 1..Len(Digits)
      /\ Before \in {0, 1} /\ offset \in Nat /\ offset > Before /\ base = Radix /\ Radix \in {10, 16}
    BY <1>1, TextIsText, DigitsOfText DEF Before, RefTypeOK, ReadInv
<1>5. CASE ~IsDigit /\ refuse("invalid")
    <2>1. digit \notin 0..(Radix - 1)
        BY <1>2, <1>4, <1>5 DEF IsDigit
    <2>2. ~IsNumber
        BY <1>3, <1>4, <2>1 DEF IsNumber
    <2>3. ref_pc' = "failed" /\ ~IsNumber'
        BY <1>1, <1>5, <2>2, TextDenotes DEF refuse
    <2> QED
        BY <2>3 DEF ReadInv, VerdictIsRight
<1>6. CASE IsDigit /\ Overflows /\ refuse("overflow") /\ number' = number * base + digit
    <2>1. ref_pc' = "failed" /\ cause' = "overflow"
        BY <1>6 DEF refuse
    <2>2. number' > MaxValue /\ number' \in Nat
        BY <2>1 DEF ReferenceInv, NumberIsExact, RefTypeOK
    <2>3. IsNumber => Denoted >= number'
        BY <1>1, <1>2, <1>6, <2>2, AtLeastTheRead
    <2>4. ~(IsNumber /\ Denoted \in XmlChars)
        <3>1. MaxValue \in Int /\ \A c \in XmlChars : c \in Int /\ c <= MaxValue
            BY ReferenceAssumption
        <3> QED
            BY <2>2, <2>3, <3>1
    <2>5. ~(IsNumber /\ Denoted \in XmlChars)'
        BY <1>1, <2>4, TextDenotes
    <2> QED
        BY <2>1, <2>5 DEF ReadInv, VerdictIsRight
<1>7. CASE /\ IsDigit /\ ~Overflows
           /\ number' = number * base + digit
           /\ offset' = following
           /\ UNCHANGED <<ref_pc, cause>>
    <2>1. offset' = offset + 1 /\ ref_pc' = "digits"
        BY <1>1, <1>7 DEF following
    <2>2. /\ Len(text) + 1 - offset' = Len(text) - offset
          /\ offset' > Before /\ offset' <= Len(text) + 1
          /\ offset' - 1 - Before = offset - Before /\ offset' - Before = offset + 1 - Before
        BY <1>1, <1>4, <2>1
    <2>3. Denoted = number' * Power[Len(text) + 1 - offset'] + Sum(offset' - Before, Len(Digits))
        BY <1>3, <1>7, <2>1, <2>2
    <2>4. \A i \in 1..(offset' - 1 - Before) : Digits[i] \in 0..(Radix - 1)
        <3>1. digit \in 0..(Radix - 1)
            BY <1>2, <1>4, <1>7 DEF IsDigit
        <3>2. \A i \in 1..(offset - 1 - Before) : Digits[i] \in 0..(Radix - 1)
            BY <1>1 DEF ReadInv
        <3>3. \A i \in 1..(offset - Before) : i \in 1..(offset - 1 - Before) \/ i = offset - Before
            BY <1>4
        <3> QED
            BY <1>3, <2>2, <3>1, <3>2, <3>3
    <2>5. Digits # <<>>
        BY <1>1 DEF ReadInv
    <2>6. ReadInv'
        BY <1>1, <1>4, <2>1, <2>2, <2>3, <2>4, <2>5, TextDenotes DEF ReadInv
    <2>7. VerdictIsRight'
        BY <2>1 DEF VerdictIsRight
    <2> QED
        BY <2>6, <2>7
<1> QED
    BY <1>5, <1>6, <1>7 DEF read_digit

\* What all digits make is what is judged.
LEMMA FinishKeepsVerdict ==
    ASSUME VerdictInv, finish, ReferenceInv'
    PROVE  ReadInv' /\ VerdictIsRight'
<1>1. /\ RefTypeOK /\ ReadInv /\ NumberIsExact
      /\ ref_pc = "digits" /\ offset > Len(text) /\ text' = text
    BY DEF VerdictInv, ReferenceInv, finish
<1>2. IsNumber /\ Denoted = value
    BY <1>1, AllRead DEF NumberIsExact
<1>3. IsNumber' /\ Denoted' = value
    BY <1>1, <1>2, TextDenotes
<1>4. CASE value \notin XmlChars /\ refuse("not a character")
    BY <1>3, <1>4 DEF refuse, ReadInv, VerdictIsRight
<1>5. CASE /\ value \in XmlChars /\ ref_pc' = "done" /\ result' = append_utf8(value)
    BY <1>3, <1>5 DEF ReadInv, VerdictIsRight
<1> QED
    BY <1>4, <1>5 DEF finish

\* A reference is accepted if and only if it denotes an XML character.
THEOREM VerdictAlwaysRight ==
    RefSpec => []VerdictIsRight
<1>1. RefInit => VerdictInv
    BY InitVerdictInv
<1>2. VerdictInv /\ [RefNext]_ref_vars => VerdictInv'
    <2> SUFFICES ASSUME VerdictInv, [RefNext]_ref_vars
                 PROVE  VerdictInv'
        OBVIOUS
    <2>1. ReferenceInv'
        BY NextReferenceInv DEF VerdictInv
    <2>2. ReadInv' /\ VerdictIsRight'
        <3>1. CASE UNCHANGED ref_vars
            <4>1. text' = text /\ UNCHANGED <<ref_pc, base, offset, number, result>>
                BY <3>1 DEF ref_vars
            <4> QED
                BY <4>1, TextDenotes DEF VerdictInv, ReadInv, VerdictIsRight
        <3> QED
            BY <2>1, <3>1, PrefixKeepsVerdict, DigitKeepsVerdict, FinishKeepsVerdict DEF RefNext
    <2> QED
        BY <2>1, <2>2 DEF VerdictInv
<1>3. VerdictInv => VerdictIsRight
    BY DEF VerdictInv
<1> QED
    BY <1>1, <1>2, <1>3, PTL DEF RefSpec
=============================================================================
