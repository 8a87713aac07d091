--------------------------- MODULE SequenceLemmas ---------------------------
(***************************************************************************)
(* Facts about sequences used as stacks (Append, Front, Last and updates   *)
(* of the last element) and as ordered sets (removing the one place of an  *)
(* element), stated once for the proofs of the components; and induction   *)
(* and recursion on the natural numbers, sequences put together, and sums  *)
(* over finite sets, with sets and functions where the library's theorems  *)
(* have operators.                                                         *)
(***************************************************************************)
EXTENDS SequencesExt, SequenceTheorems, FiniteSetTheorems, WellFoundedInduction, TLAPS

\* Pushing an element keeps the elements below it.
LEMMA PushFacts ==
    ASSUME NEW S, NEW s \in Seq(S), NEW e \in S
    PROVE  /\ Append(s, e) \in Seq(S)
           /\ Append(s, e) # <<>>
           /\ Len(Append(s, e)) = Len(s) + 1
           /\ DOMAIN Append(s, e) = 1..(Len(s) + 1)
           /\ Append(s, e)[Len(s) + 1] = e
           /\ \A i \in 1..Len(s) : Append(s, e)[i] = s[i]
<1>1. /\ Append(s, e) \in Seq(S)
      /\ Len(Append(s, e)) = Len(s) + 1
      /\ Append(s, e)[Len(s) + 1] = e
      /\ \A i \in 1..Len(s) : Append(s, e)[i] = s[i]
  BY AppendProperties
<1>2. DOMAIN Append(s, e) = 1..(Len(s) + 1) /\ Append(s, e) # <<>>
  BY <1>1, LenProperties, EmptySeq
<1> QED BY <1>1, <1>2

\* Popping removes one element and changes no other.
LEMMA PopFacts ==
    ASSUME NEW S, NEW s \in Seq(S), s # <<>>
    PROVE  /\ Len(s) \in Nat \ {0}
           /\ Front(s) \in Seq(S)
           /\ Len(Front(s)) = Len(s) - 1
           /\ DOMAIN Front(s) = 1..(Len(s) - 1)
           /\ \A i \in 1..(Len(s) - 1) : Front(s)[i] = s[i]
           /\ Last(s) \in S
           /\ Last(s) = s[Len(s)]
           /\ Front(s) = <<>> <=> Len(s) = 1
<1>1. Len(s) \in Nat \ {0}
  BY EmptySeq
<1>2. \A i \in 1..Len(s) : s[i] \in S
  BY ElementOfSeq
<1>3. /\ Front(s) \in Seq(S)
      /\ Len(Front(s)) = Len(s) - 1
      /\ \A i \in 1..(Len(s) - 1) : Front(s)[i] = s[i]
  <2> DEFINE m == Len(s) - 1
  <2>1. m \in Nat /\ \A i \in 1..m : s[i] \in S
    BY <1>1, <1>2
  <2> HIDE DEF m
  <2>2. /\ SubSeq(s, 1, m) \in Seq(S)
        /\ Len(SubSeq(s, 1, m)) = IF 1 <= m THEN m - 1 + 1 ELSE 0
        /\ \A i \in 1..(m - 1 + 1) : SubSeq(s, 1, m)[i] = s[1 + i - 1]
    BY <2>1, SubSeqProperties
  <2>3. \A i \in 1..m : i \in 1..(m - 1 + 1) /\ 1 + i - 1 = i
    BY <2>1
  <2>4. \A i \in 1..m : SubSeq(s, 1, m)[i] = s[i]
    <3> TAKE i \in 1..m
    <3> QED BY <2>2, <2>3
  <2>6. Len(SubSeq(s, 1, m)) = m
    <3>1. CASE 1 <= m
      BY <2>1, <2>2, <3>1
    <3>2. CASE ~(1 <= m)
      BY <2>1, <2>2, <3>2
    <3> QED BY <3>1, <3>2
  <2>5. Front(s) = SubSeq(s, 1, m)
    BY DEF Front, m
  <2> QED BY <2>2, <2>4, <2>5, <2>6 DEF m
<1>4. DOMAIN Front(s) = 1..(Len(s) - 1)
  BY <1>3, LenProperties
<1>5. Front(s) = <<>> <=> Len(s) = 1
  BY <1>1, <1>3, EmptySeq
<1>6. Last(s) \in S /\ Last(s) = s[Len(s)]
  BY <1>1, <1>2 DEF Last
<1> QED BY <1>1, <1>3, <1>4, <1>5, <1>6

\* Replacing the top of a stack changes no other element.
LEMMA TopFacts ==
    ASSUME NEW S, NEW s \in Seq(S), s # <<>>, NEW e \in S
    PROVE  /\ [s EXCEPT ![Len(s)] = e] \in Seq(S)
           /\ Len([s EXCEPT ![Len(s)] = e]) = Len(s)
           /\ DOMAIN [s EXCEPT ![Len(s)] = e] = 1..Len(s)
           /\ [s EXCEPT ![Len(s)] = e][Len(s)] = e
           /\ \A i \in 1..Len(s) : i # Len(s) => [s EXCEPT ![Len(s)] = e][i] = s[i]
<1>1. Len(s) \in 1..Len(s)
  BY EmptySeq
<1> QED BY <1>1, ExceptSeq, LenProperties

\* Pushing and popping undo one another.
LEMMA PushPop ==
    ASSUME NEW S, NEW s \in Seq(S)
    PROVE  /\ \A e \in S : Last(Append(s, e)) = e /\ Front(Append(s, e)) = s
           /\ s # <<>> => s = Append(Front(s), Last(s))
<1>1. ASSUME NEW e \in S PROVE Last(Append(s, e)) = e /\ Front(Append(s, e)) = s
  <2> DEFINE r == Append(s, e)
             n == Len(s)
  <2>1. /\ n \in Nat /\ r \in Seq(S) /\ r # <<>> /\ Len(r) = n + 1 /\ r[n + 1] = e
        /\ \A i \in 1..n : r[i] = s[i]
    BY PushFacts, LenProperties
  <2>2. /\ Front(r) \in Seq(S) /\ Len(Front(r)) = Len(r) - 1 /\ Last(r) = r[Len(r)]
        /\ \A i \in 1..(Len(r) - 1) : Front(r)[i] = r[i]
    BY <2>1, PopFacts
  <2>3. Len(r) - 1 = n
    BY <2>1
  <2> HIDE DEF r
  <2>4. Len(Front(r)) = Len(s) /\ \A i \in 1..Len(s) : Front(r)[i] = s[i]
    BY <2>1, <2>2, <2>3
  <2>5. Front(r) = s
    BY <2>2, <2>4, SeqEqual
  <2>6. Last(r) = e
    BY <2>1, <2>2
  <2> QED BY <2>5, <2>6 DEF r
<1>2. ASSUME s # <<>> PROVE s = Append(Front(s), Last(s))
  <2> DEFINE f == Front(s)
             r == Append(f, Last(s))
  <2>1. /\ Len(s) \in Nat \ {0} /\ f \in Seq(S) /\ Len(f) = Len(s) - 1
        /\ \A i \in 1..(Len(s) - 1) : f[i] = s[i]
        /\ Last(s) \in S /\ Last(s) = s[Len(s)]
    BY <1>2, PopFacts
  <2>2. /\ r \in Seq(S) /\ Len(r) = Len(f) + 1 /\ r[Len(f) + 1] = Last(s)
        /\ \A i \in 1..Len(f) : r[i] = f[i]
    BY <2>1, PushFacts
  <2> HIDE DEF f, r
  <2>3. Len(r) = Len(s) /\ \A i \in 1..Len(s) : i \in 1..Len(f) \/ i = Len(f) + 1
    BY <2>1, <2>2
  <2>4. \A i \in 1..Len(s) : r[i] = s[i]
    BY <2>1, <2>2, <2>3
  <2>5. r = s
    BY <2>2, <2>3, <2>4, SeqEqual
  <2> QED BY <2>5 DEF f, r
<1> QED BY <1>1, <1>2

\* A sequence is as long as its domain says.
LEMMA LenFromDomain ==
    ASSUME NEW S, NEW s \in Seq(S), NEW n \in Nat, DOMAIN s = 1..n
    PROVE  Len(s) = n
<1>1. PICK m \in Nat : m = Len(s) /\ 1..m = 1..n
  BY LenProperties
<1>2. m > n => m \in 1..m /\ m \notin 1..n
  OBVIOUS
<1>3. n > m => n \in 1..n /\ n \notin 1..m
  OBVIOUS
<1>4. ~(m > n) /\ ~(n > m)
  BY <1>1, <1>2, <1>3
<1> QED BY <1>1, <1>4

-----------------------------------------------------------------------------
(* Sequences without repetitions, used as ordered sets.                     *)

\* RemoveAt closes the gap and changes nothing else.
LEMMA RemoveAtFacts ==
    ASSUME NEW S, NEW s \in Seq(S), NEW k \in 1..Len(s)
    PROVE  /\ RemoveAt(s, k) \in Seq(S)
           /\ Len(RemoveAt(s, k)) = Len(s) - 1
           /\ \A i \in 1..(Len(s) - 1) :
                 RemoveAt(s, k)[i] = IF i < k THEN s[i] ELSE s[i + 1]
<1> DEFINE n == Len(s)
           before == SubSeq(s, 1, k - 1)
           after == SubSeq(s, k + 1, n)
<1>1. n \in Nat /\ k \in Nat /\ 1 <= k /\ k <= n /\ \A i \in 1..n : s[i] \in S
  BY ElementOfSeq
<1>2. /\ before \in Seq(S)
      /\ Len(before) = IF 1 <= k - 1 THEN (k - 1) - 1 + 1 ELSE 0
      /\ \A i \in 1..((k - 1) - 1 + 1) : before[i] = s[1 + i - 1]
  <2>1. \A i \in 1..(k - 1) : s[i] \in S
    BY <1>1
  <2> QED BY <1>1, <2>1, SubSeqProperties
<1>3. /\ after \in Seq(S)
      /\ Len(after) = IF k + 1 <= n THEN n - (k + 1) + 1 ELSE 0
      /\ \A i \in 1..(n - (k + 1) + 1) : after[i] = s[k + 1 + i - 1]
  <2>1. \A i \in (k + 1)..n : s[i] \in S
    BY <1>1
  <2> QED BY <1>1, <2>1, SubSeqProperties
<1> HIDE DEF n, before, after
<1>4. Len(before) = k - 1 /\ \A i \in 1..(k - 1) : before[i] = s[i]
  <2>1. Len(before) = k - 1
    BY <1>1, <1>2
  <2>2. ASSUME NEW i \in 1..(k - 1) PROVE before[i] = s[i]
    <3>1. i \in 1..((k - 1) - 1 + 1) /\ 1 + i - 1 = i
      BY <1>1
    <3> QED BY <1>2, <3>1
  <2> QED BY <2>1, <2>2
<1>5. Len(after) = n - k /\ \A i \in 1..(n - k) : after[i] = s[k + i]
  <2>1. Len(after) = n - k
    BY <1>1, <1>3
  <2>2. ASSUME NEW i \in 1..(n - k) PROVE after[i] = s[k + i]
    <3>1. i \in 1..(n - (k + 1) + 1) /\ k + 1 + i - 1 = k + i
      BY <1>1
    <3> QED BY <1>3, <3>1
  <2> QED BY <2>1, <2>2
<1>6. /\ before \o after \in Seq(S)
      /\ Len(before \o after) = Len(before) + Len(after)
      /\ \A i \in 1..(Len(before) + Len(after)) : (before \o after)[i] =
            IF i <= Len(before) THEN before[i] ELSE after[i - Len(before)]
  BY <1>2, <1>3, ConcatProperties
<1>7. Len(before) + Len(after) = n - 1
  BY <1>1, <1>4, <1>5
<1>8. ASSUME NEW i \in 1..(n - 1)
      PROVE  (before \o after)[i] = IF i < k THEN s[i] ELSE s[i + 1]
  <2>1. CASE i < k
    <3>1. i \in 1..(k - 1) /\ i <= Len(before)
      BY <1>1, <1>4, <2>1
    <3> QED BY <1>4, <1>6, <1>7, <2>1, <3>1
  <2>2. CASE ~(i < k)
    <3>1. i - (k - 1) \in 1..(n - k) /\ k + (i - (k - 1)) = i + 1 /\ ~(i <= Len(before))
      BY <1>1, <1>4, <2>2
    <3>2. after[i - (k - 1)] = s[i + 1]
      BY <1>5, <3>1
    <3> QED BY <1>4, <1>6, <1>7, <2>2, <3>1, <3>2
  <2> QED BY <2>1, <2>2
<1>9. RemoveAt(s, k) = before \o after
  BY DEF RemoveAt, before, after, n
<1> QED BY <1>6, <1>7, <1>8, <1>9 DEF n

\* The first place of an element, as std::find finds it.
PlaceOf(s, e) == SelectInSeq(s, LAMBDA v : v = e)

\* Without repetitions it is the only one.
LEMMA OnlyPlace ==
    ASSUME NEW S, NEW s \in Seq(S), IsInjective(s), NEW e, NEW k \in 1..Len(s), s[k] = e
    PROVE  PlaceOf(s, e) = k
<1>1. Len(s) \in Nat /\ DOMAIN s = 1..Len(s)
  BY LenProperties
<1>2. \A i \in 1..Len(s) : s[i] = e => i = k
  BY <1>1 DEF IsInjective
<1>3. {i \in 1..Len(s) : s[i] = e} = {k}
  BY <1>2
<1>4. Min({k}) = k
  BY <1>1 DEF Min
<1> QED BY <1>3, <1>4 DEF PlaceOf, SelectInSeq

\* So RemoveFirst removes that one.
LEMMA RemoveFirstIsRemoveAt ==
    ASSUME NEW S, NEW s \in Seq(S), IsInjective(s), NEW e, NEW k \in 1..Len(s), s[k] = e
    PROVE  RemoveFirst(s, e) = RemoveAt(s, k)
<1>1. PlaceOf(s, e) = k
  BY OnlyPlace
<1> QED BY <1>1 DEF PlaceOf, RemoveFirst

\* Without repetitions, RemoveFirst removes an element as from a set.
LEMMA RemoveFirstFacts ==
    ASSUME NEW S, NEW s \in Seq(S), IsInjective(s), NEW e \in Range(s)
    PROVE  /\ RemoveFirst(s, e) \in Seq(S)
           /\ IsInjective(RemoveFirst(s, e))
           /\ Range(RemoveFirst(s, e)) = Range(s) \ {e}
<1> DEFINE n == Len(s)
           r == RemoveFirst(s, e)
<1>1. n \in Nat /\ DOMAIN s = 1..n
  BY LenProperties
<1>2. PICK k \in 1..n : s[k] = e
  BY <1>1 DEF Range
<1>3. \A i, j \in 1..n : s[i] = s[j] => i = j
  BY <1>1 DEF IsInjective
<1>5. r = RemoveAt(s, k)
  BY <1>2, RemoveFirstIsRemoveAt
<1>6. /\ r \in Seq(S)
      /\ Len(r) = n - 1
      /\ \A i \in 1..(n - 1) : r[i] = IF i < k THEN s[i] ELSE s[i + 1]
  BY <1>5, RemoveAtFacts
<1>7. DOMAIN r = 1..(n - 1)
  BY <1>6, LenProperties
<1> HIDE DEF n, r
<1>8. \A i \in 1..(n - 1) : r[i] = s[IF i < k THEN i ELSE i + 1]
  BY <1>6
<1>9. \A i \in 1..(n - 1) : (IF i < k THEN i ELSE i + 1) \in (1..n) \ {k}
  BY <1>1
<1>10. IsInjective(r)
  <2>1. ASSUME NEW i \in 1..(n - 1), NEW j \in 1..(n - 1), r[i] = r[j] PROVE i = j
    <3>1. (IF i < k THEN i ELSE i + 1) = (IF j < k THEN j ELSE j + 1)
      BY <1>3, <1>8, <1>9, <2>1
    <3> QED BY <1>1, <3>1
  <2> QED BY <1>7, <2>1 DEF IsInjective
<1>11. Range(r) \subseteq Range(s) \ {e}
  <2>1. ASSUME NEW i \in 1..(n - 1) PROVE r[i] \in Range(s) \ {e}
    <3>1. PICK j \in (1..n) \ {k} : r[i] = s[j]
      BY <1>8, <1>9
    <3> QED BY <1>1, <1>2, <1>3, <3>1 DEF Range
  <2> QED BY <1>7, <2>1 DEF Range
<1>12. Range(s) \ {e} \subseteq Range(r)
  <2>1. ASSUME NEW j \in 1..n, s[j] # e PROVE s[j] \in Range(r)
    <3>1. j # k
      BY <1>2, <2>1
    <3>2. PICK i \in 1..(n - 1) : (IF i < k THEN i ELSE i + 1) = j
      <4>1. CASE j < k
        <5>1. j \in 1..(n - 1)
          BY <1>1, <4>1
        <5> QED BY <4>1, <5>1
      <4>2. CASE ~(j < k)
        <5>1. j - 1 \in 1..(n - 1) /\ ~(j - 1 < k) /\ (j - 1) + 1 = j
          BY <1>1, <3>1, <4>2
        <5> QED BY <5>1
      <4> QED BY <4>1, <4>2
    <3>3. r[i] = s[j]
      BY <1>8, <3>2
    <3> QED BY <1>7, <3>3 DEF Range
  <2> QED BY <1>1, <2>1 DEF Range
<1> QED BY <1>6, <1>10, <1>11, <1>12 DEF r

\* Appending a new element keeps a sequence free of repetitions.
LEMMA AppendNewFacts ==
    ASSUME NEW S, NEW s \in Seq(S), IsInjective(s), NEW e \in S, e \notin Range(s)
    PROVE  /\ Append(s, e) \in Seq(S)
           /\ IsInjective(Append(s, e))
           /\ Range(Append(s, e)) = Range(s) \cup {e}
<1> DEFINE n == Len(s)
           r == Append(s, e)
<1>1. n \in Nat /\ DOMAIN s = 1..n
  BY LenProperties
<1>2. /\ r \in Seq(S)
      /\ DOMAIN r = 1..(n + 1)
      /\ r[n + 1] = e
      /\ \A i \in 1..n : r[i] = s[i]
  BY PushFacts
<1> HIDE DEF n, r
<1>3. \A i \in 1..n : r[i] = s[i] /\ s[i] # e
  BY <1>1, <1>2 DEF Range
<1>4. \A i \in 1..(n + 1) : i \in 1..n \/ i = n + 1
  BY <1>1
<1>5. \A i, j \in 1..n : s[i] = s[j] => i = j
  BY <1>1 DEF IsInjective
<1>6. IsInjective(r)
  <2>1. ASSUME NEW i \in 1..(n + 1), NEW j \in 1..(n + 1), r[i] = r[j] PROVE i = j
    BY <1>2, <1>3, <1>4, <1>5, <2>1
  <2> QED BY <1>2, <2>1 DEF IsInjective
<1>7. Range(r) = Range(s) \cup {e}
  <2>1. \A i \in 1..n : i \in 1..(n + 1)
    BY <1>1
  <2>2. n + 1 \in 1..(n + 1)
    BY <1>1
  <2>3. Range(r) \subseteq Range(s) \cup {e}
    BY <1>1, <1>2, <1>3, <1>4 DEF Range
  <2>4. Range(s) \cup {e} \subseteq Range(r)
    BY <1>1, <1>2, <1>3, <2>1, <2>2 DEF Range
  <2> QED BY <2>3, <2>4
<1> QED BY <1>2, <1>6, <1>7 DEF r

\* The empty sequence has no elements.
LEMMA EmptyFacts ==
    ASSUME NEW S
    PROVE  <<>> \in Seq(S) /\ IsInjective(<<>>) /\ Range(<<>>) = {}
<1>1. <<>> \in Seq(S) /\ Len(<<>>) = 0
  BY EmptySeq
<1>2. DOMAIN <<>> = {}
  BY <1>1, LenProperties
<1> QED BY <1>1, <1>2 DEF IsInjective, Range

\* One element of a sequence comes before another.
Precedes(s, a, b) == \E i, j \in 1..Len(s) : i < j /\ s[i] = a /\ s[j] = b

\* Without repetitions, only one of two elements comes before the other.
LEMMA PrecedesIsOneWay ==
    ASSUME NEW S, NEW s \in Seq(S), IsInjective(s), NEW a, NEW b, Precedes(s, a, b)
    PROVE  ~Precedes(s, b, a)
<1>1. Len(s) \in Nat /\ \A i, j \in 1..Len(s) : s[i] = s[j] => i = j
  BY LenProperties DEF IsInjective
<1>2. PICK i \in 1..Len(s), j \in 1..Len(s) : i < j /\ s[i] = a /\ s[j] = b
  BY DEF Precedes
<1>3. SUFFICES ASSUME NEW k \in 1..Len(s), NEW l \in 1..Len(s), k < l, s[k] = b, s[l] = a
               PROVE  FALSE
  BY DEF Precedes
<1>4. k = j /\ l = i
  BY <1>1, <1>2, <1>3
<1> QED BY <1>1, <1>2, <1>3, <1>4

\* Of two elements one comes first.
LEMMA EitherPrecedes ==
    ASSUME NEW S, NEW s \in Seq(S), NEW a \in Range(s), NEW b \in Range(s), a # b
    PROVE  Precedes(s, a, b) \/ Precedes(s, b, a)
<1>1. DOMAIN s = 1..Len(s)
  BY LenProperties
<1>2. PICK i \in 1..Len(s), j \in 1..Len(s) : s[i] = a /\ s[j] = b
  BY <1>1 DEF Range
<1>3. i < j \/ j < i
  BY <1>2
<1> QED BY <1>2, <1>3 DEF Precedes

\* Coming before is transitive.
LEMMA PrecedesIsTransitive ==
    ASSUME NEW S, NEW s \in Seq(S), IsInjective(s), NEW a, NEW b, NEW c,
           Precedes(s, a, b), Precedes(s, b, c)
    PROVE  Precedes(s, a, c)
<1>1. Len(s) \in Nat /\ \A i, j \in 1..Len(s) : s[i] = s[j] => i = j
  BY LenProperties DEF IsInjective
<1>2. PICK i \in 1..Len(s), j \in 1..Len(s) : i < j /\ s[i] = a /\ s[j] = b
  BY DEF Precedes
<1>3. PICK k \in 1..Len(s), l \in 1..Len(s) : k < l /\ s[k] = b /\ s[l] = c
  BY DEF Precedes
<1>4. j = k
  BY <1>1, <1>2, <1>3
<1>5. i < l
  BY <1>1, <1>2, <1>3, <1>4
<1> QED BY <1>2, <1>3, <1>5 DEF Precedes

\* Places in a sequence without repetitions tell its order.
LEMMA PlacesTellOrder ==
    ASSUME NEW S, NEW s \in Seq(S), IsInjective(s), NEW a \in Range(s), NEW b \in Range(s)
    PROVE  (CHOOSE i \in DOMAIN s : s[i] = a) < (CHOOSE i \in DOMAIN s : s[i] = b)
              <=> Precedes(s, a, b)
<1> DEFINE k == Len(s)
           p == CHOOSE i \in DOMAIN s : s[i] = a
           q == CHOOSE i \in DOMAIN s : s[i] = b
<1>1. DOMAIN s = 1..k
  BY LenProperties
<1>2. p \in 1..k /\ s[p] = a
  BY <1>1 DEF Range
<1>3. q \in 1..k /\ s[q] = b
  BY <1>1 DEF Range
<1>4. \A i, j \in 1..k : s[i] = s[j] => i = j
  BY <1>1 DEF IsInjective
<1> HIDE DEF p, q
<1>5. p < q <=> Precedes(s, a, b)
  BY <1>2, <1>3, <1>4 DEF Precedes
<1> QED BY <1>5 DEF p, q

\* n comes right after m.
IsNext(s, m, n) == \E i \in 1..(Len(s) - 1) : s[i] = m /\ s[i + 1] = n

Later(s, m) == {n \in Range(s) : Precedes(s, m, n)}

\* The one right after is the first of those that come later.
LEMMA NextIsFirstLater ==
    ASSUME NEW S, NEW s \in Seq(S), IsInjective(s), NEW m \in Range(s), NEW n \in Range(s)
    PROVE  IsNext(s, m, n) <=> n \in Later(s, m) /\ Later(s, m) \subseteq Later(s, n) \cup {n}
<1> DEFINE k == Len(s)
<1>1. k \in Nat /\ DOMAIN s = 1..k
  BY LenProperties
<1>2. PICK i \in 1..k, j \in 1..k : s[i] = m /\ s[j] = n
  BY <1>1 DEF Range
<1>3. \A a, b \in 1..k : s[a] = s[b] => a = b
  BY <1>1 DEF IsInjective
<1> HIDE DEF k
<1>4. \A a, b \in 1..k : Precedes(s, s[a], s[b]) <=> a < b
  BY <1>3 DEF Precedes, k
<1>5. \A a, b \in 1..k : s[b] \in Later(s, s[a]) <=> a < b
  BY <1>1, <1>4 DEF Later, Range
<1>6. IsNext(s, m, n) <=> j = i + 1
  <2>1. ASSUME NEW l \in 1..(k - 1), s[l] = m, s[l + 1] = n PROVE j = i + 1
    <3>1. l \in 1..k /\ l + 1 \in 1..k
      BY <1>1
    <3>2. l = i /\ l + 1 = j
      BY <1>2, <1>3, <2>1, <3>1
    <3> QED BY <3>2
  <2>2. ASSUME j = i + 1 PROVE i \in 1..(k - 1)
    BY <1>1, <2>2
  <2> QED BY <1>2, <2>1, <2>2 DEF IsNext, k
<1>7. n \in Later(s, m) <=> i < j
  BY <1>2, <1>5
<1>8. ASSUME i < j, Later(s, m) \subseteq Later(s, n) \cup {n} PROVE j = i + 1
  <2>1. i + 1 \in 1..k
    BY <1>1, <1>8
  <2>2. i < i + 1
    OBVIOUS
  <2>3. s[i + 1] \in Later(s, m)
    BY <1>2, <1>5, <2>1, <2>2
  <2>4. s[i + 1] = n \/ s[i + 1] \in Later(s, n)
    BY <1>8, <2>3
  <2>5. i + 1 = j \/ j < i + 1
    BY <1>2, <1>3, <1>5, <2>1, <2>4
  <2> QED BY <1>8, <2>5
<1>9. ASSUME j = i + 1, NEW y \in Later(s, m) PROVE y = n \/ y \in Later(s, n)
  <2>1. PICK l \in 1..k : s[l] = y
    BY <1>1 DEF Later, Range
  <2>2. i < l
    BY <1>2, <1>5, <2>1
  <2>3. l = j \/ j < l
    BY <1>9, <2>2
  <2> QED BY <1>2, <1>5, <2>1, <2>3
<1>10. j = i + 1 => i < j
  OBVIOUS
<1> QED BY <1>6, <1>7, <1>8, <1>9, <1>10

\* What precedes another element comes before it in place.
LEMMA PrecedesByPlace ==
    ASSUME NEW S, NEW s \in Seq(S), IsInjective(s), NEW a \in Range(s), NEW b \in Range(s)
    PROVE  Precedes(s, a, b) <=> PlaceOf(s, a) < PlaceOf(s, b)
<1>1. Len(s) \in Nat /\ DOMAIN s = 1..Len(s)
  BY LenProperties
<1>2. PICK i \in 1..Len(s), j \in 1..Len(s) : s[i] = a /\ s[j] = b
  BY <1>1 DEF Range
<1>3. PlaceOf(s, a) = i
  BY <1>2, OnlyPlace
<1>4. PlaceOf(s, b) = j
  BY <1>2, OnlyPlace
<1>5. Precedes(s, a, b) <=> i < j
  <2>1. \A k, l \in 1..Len(s) : s[k] = s[l] => k = l
    BY <1>1 DEF IsInjective
  <2> QED BY <1>2, <2>1 DEF Precedes
<1> QED BY <1>3, <1>4, <1>5

\* Removing an element leaves the order of the others.
LEMMA RemoveFirstKeepsOrder ==
    ASSUME NEW S, NEW s \in Seq(S), IsInjective(s), NEW e \in Range(s), NEW a, NEW b,
           Precedes(RemoveFirst(s, e), a, b)
    PROVE  Precedes(s, a, b)
<1>1. Len(s) \in Nat /\ DOMAIN s = 1..Len(s)
  BY LenProperties
<1>2. PICK k \in 1..Len(s) : s[k] = e
  BY <1>1 DEF Range
<1> DEFINE r == RemoveFirst(s, e)
<1>3. /\ Len(r) = Len(s) - 1
      /\ \A i \in 1..(Len(s) - 1) : r[i] = IF i < k THEN s[i] ELSE s[i + 1]
  <2>1. r = RemoveAt(s, k)
    BY <1>2, RemoveFirstIsRemoveAt
  <2> QED BY <2>1, RemoveAtFacts
<1>4. PICK i \in 1..Len(r), j \in 1..Len(r) : i < j /\ r[i] = a /\ r[j] = b
  BY DEF Precedes
<1> HIDE DEF r
<1> DEFINE old(m) == IF m < k THEN m ELSE m + 1
<1>5. /\ old(i) \in 1..Len(s) /\ old(j) \in 1..Len(s) /\ old(i) < old(j)
      /\ r[i] = s[old(i)] /\ r[j] = s[old(j)]
  BY <1>1, <1>3, <1>4
<1> QED BY <1>4, <1>5 DEF Precedes

\* What comes before the last of a sequence after an insertion did before,
\* or comes before the one inserted.
LEMMA AppendKeepsOrder ==
    ASSUME NEW S, NEW s \in Seq(S), NEW e \in S, NEW a, NEW b, Precedes(Append(s, e), a, b)
    PROVE  Precedes(s, a, b) \/ b = e
<1>1. /\ Len(s) \in Nat
      /\ Len(Append(s, e)) = Len(s) + 1
      /\ Append(s, e)[Len(s) + 1] = e
      /\ \A i \in 1..Len(s) : Append(s, e)[i] = s[i]
  BY PushFacts, LenProperties
<1>2. PICK i \in 1..(Len(s) + 1), j \in 1..(Len(s) + 1) :
              i < j /\ Append(s, e)[i] = a /\ Append(s, e)[j] = b
  BY <1>1 DEF Precedes
<1>3. i \in 1..Len(s) /\ (j \in 1..Len(s) \/ j = Len(s) + 1)
  BY <1>1, <1>2
<1> QED BY <1>1, <1>2, <1>3 DEF Precedes

\* What is appended comes after everything else, and moves nothing.
LEMMA AppendedComesLast ==
    ASSUME NEW S, NEW s \in Seq(S), IsInjective(s), NEW e \in S, e \notin Range(s)
    PROVE  /\ \A a \in Range(s) : Precedes(Append(s, e), a, e)
           /\ \A a, b : Precedes(s, a, b) => Precedes(Append(s, e), a, b)
           /\ \A b : ~Precedes(Append(s, e), e, b)
<1> DEFINE n == Len(s)
           r == Append(s, e)
<1>1. /\ n \in Nat /\ DOMAIN s = 1..n /\ Len(r) = n + 1 /\ r[n + 1] = e
      /\ \A i \in 1..n : r[i] = s[i]
  BY PushFacts, LenProperties
<1>2. \A i \in 1..n : s[i] # e
  BY <1>1 DEF Range
<1> HIDE DEF n, r
<1>3. \A i \in 1..n : i \in 1..(n + 1) /\ i < n + 1
  BY <1>1
<1>4. n + 1 \in 1..(n + 1) /\ \A i \in 1..(n + 1) : i \in 1..n \/ i = n + 1
  BY <1>1
<1>5. ASSUME NEW a \in Range(s) PROVE Precedes(r, a, e)
  <2>1. PICK i \in 1..n : s[i] = a
    BY <1>1 DEF Range
  <2> QED BY <1>1, <1>3, <1>4, <2>1 DEF Precedes
<1>6. ASSUME NEW a, NEW b, Precedes(s, a, b) PROVE Precedes(r, a, b)
  <2>1. PICK i \in 1..n, j \in 1..n : i < j /\ s[i] = a /\ s[j] = b
    BY <1>6 DEF Precedes, n
  <2> QED BY <1>1, <1>3, <2>1 DEF Precedes
<1>7. ASSUME NEW b, Precedes(r, e, b) PROVE FALSE
  <2>1. PICK i \in 1..(n + 1), j \in 1..(n + 1) : i < j /\ r[i] = e
    BY <1>1, <1>7 DEF Precedes
  <2>2. i = n + 1
    BY <1>1, <1>2, <1>4, <2>1
  <2> QED BY <1>1, <2>1, <2>2
<1> QED BY <1>5, <1>6, <1>7 DEF r

-----------------------------------------------------------------------------
(* Induction over the natural numbers, stated of sets, and what it gives:  *)
(* functions defined by recursion are what their definitions say.           *)

\* A set of numbers with 0 in it, and the next one of each, has them all.
LEMMA InductionOnNat ==
    ASSUME NEW S, 0 \in S, \A n \in Nat : n \in S => n + 1 \in S
    PROVE  \A n \in Nat : n \in S
<1> SUFFICES ASSUME NEW n \in Nat, n \notin S PROVE FALSE
  OBVIOUS
<1> DEFINE T == Nat \ S
<1>1. T \subseteq Nat /\ T # {}
  OBVIOUS
<1>2. PICK x \in T : \A y \in T : ~(<<y, x>> \in OpToRel(<, Nat))
  BY <1>1, NatLessThanWellFounded, WFMin, Zenon
<1>3. x \in Nat /\ x \notin S /\ x # 0
  OBVIOUS
<1>4. x - 1 \in Nat /\ (x - 1) + 1 = x /\ x - 1 < x
  BY <1>3
<1>5. x - 1 \in T
  BY <1>3, <1>4
<1>6. <<x - 1, x>> \in OpToRel(<, Nat)
  BY <1>3, <1>4 DEF OpToRel
<1> QED BY <1>2, <1>5, <1>6

\* A set of numbers that is not empty has a least one.
LEMMA LeastExists ==
    ASSUME NEW T, T \subseteq Nat, T # {}
    PROVE  \E x \in T : \A y \in T : x <= y
<1>1. PICK x \in T : \A y \in T : ~(<<y, x>> \in OpToRel(<, Nat))
  BY NatLessThanWellFounded, WFMin, Zenon
<1>2. \A y \in T : y \in Nat /\ x \in Nat
  OBVIOUS
<1>3. \A y \in T : ~(y < x)
  BY <1>1, <1>2 DEF OpToRel
<1> QED BY <1>2, <1>3

\* And a greatest one, when they are bounded.
LEMMA GreatestFacts ==
    ASSUME NEW n \in Nat, NEW T, T \subseteq 1..n, T # {}
    PROVE  LET i == CHOOSE j \in T : \A k \in T : k <= j
           IN  i \in T /\ \A k \in T : k <= i
<1> DEFINE U == {n - y : y \in T}
<1>1. U \subseteq Nat /\ U # {}
  <2>1. \A y \in T : y \in 1..n
    OBVIOUS
  <2>2. \A y \in 1..n : n - y \in Nat
    OBVIOUS
  <2>3. \A y \in T : n - y \in Nat
    BY <2>1, <2>2
  <2> QED BY <2>3
<1>2. PICK z \in U : \A y \in U : z <= y
  BY <1>1, LeastExists
<1>3. PICK x \in T : z = n - x
  BY <1>2
<1>4. ASSUME NEW y \in T PROVE y <= x
  <2>1. n - x <= n - y
    BY <1>2, <1>3
  <2> QED BY <2>1
<1> QED BY <1>4

\* A function on 0..m whose values are made one from the other exists.
LEMMA RecursionOnNat ==
    ASSUME NEW V, NEW base \in V, NEW m \in Nat, NEW step \in [1..m -> [V -> V]]
    PROVE  \E f \in [0..m -> V] : /\ f[0] = base
                                 /\ \A k \in 1..m : f[k] = step[k][f[k - 1]]
<1> DEFINE Partial(g, n) == \A k \in 0..n : g[k] = IF k = 0 THEN base ELSE step[k][g[k - 1]]
           S == {n \in Nat : n <= m => \E g \in [0..n -> V] : Partial(g, n)}
<1>1. 0 \in S
  <2> DEFINE g == [k \in 0..0 |-> base]
  <2>1. g \in [0..0 -> V] /\ Partial(g, 0)
    OBVIOUS
  <2> QED BY <2>1
<1>2. ASSUME NEW n \in Nat, n \in S PROVE n + 1 \in S
  <2> SUFFICES ASSUME n + 1 <= m PROVE \E g \in [0..(n + 1) -> V] : Partial(g, n + 1)
    OBVIOUS
  <2>1. PICK h \in [0..n -> V] : Partial(h, n)
    BY <1>2
  <2> DEFINE g == [k \in 0..(n + 1) |-> IF k = n + 1 THEN step[n + 1][h[n]] ELSE h[k]]
  <2>2. n + 1 \in 1..m /\ n \in 0..n
    OBVIOUS
  <2>3. step[n + 1][h[n]] \in V
    BY <2>2
  <2>4. g \in [0..(n + 1) -> V]
    BY <2>3
  <2>5. ASSUME NEW k \in 0..(n + 1) PROVE g[k] = IF k = 0 THEN base ELSE step[k][g[k - 1]]
    <3>1. CASE k = n + 1
      BY <3>1
    <3>2. CASE k # n + 1
      <4>1. k \in 0..n /\ g[k] = h[k] /\ (k # 0 => k - 1 \in 0..n /\ k - 1 # n + 1 /\ k - 1 \in 0..(n + 1))
        BY <3>2
      <4>2. k # 0 => g[k - 1] = h[k - 1]
        BY <4>1
      <4> QED BY <2>1, <4>1, <4>2
    <3> QED BY <3>1, <3>2
  <2> HIDE DEF g
  <2> QED BY <2>4, <2>5
<1>3. m \in S
  <2> HIDE DEF S
  <2> QED BY <1>1, <1>2, InductionOnNat
<1>4. PICK f \in [0..m -> V] : Partial(f, m)
  BY <1>3
<1>5. f[0] = base /\ \A k \in 1..m : f[k] = step[k][f[k - 1]]
  <2>1. 0 \in 0..m /\ \A k \in 1..m : k \in 0..m /\ k # 0
    OBVIOUS
  <2> QED BY <1>4, <2>1
<1> QED BY <1>5

\* The same in two named halves, which lets it be cited where the context
\* holds more.
IsRecursion(V, base, m, step) == base \in V /\ m \in Nat /\ step \in [1..m -> [V -> V]]

HasRecursion(V, base, m, step) ==
    \E f \in [0..m -> V] : f[0] = base /\ \A k \in 1..m : f[k] = step[k][f[k - 1]]

\* What IsRecursion describes exists.
LEMMA RecursionExists ==
    ASSUME NEW V, NEW base, NEW m, NEW step, IsRecursion(V, base, m, step)
    PROVE  HasRecursion(V, base, m, step)
BY RecursionOnNat DEF IsRecursion, HasRecursion

\* Two sequences without repetitions that order the same elements the same
\* way are one.
LEMMA SameOrderSameSequence ==
    ASSUME NEW S, NEW s \in Seq(S), NEW t \in Seq(S), IsInjective(s), IsInjective(t),
           Range(s) = Range(t),
           \A a, b \in Range(s) : Precedes(s, a, b) => Precedes(t, a, b)
    PROVE  s = t
<1> DEFINE m == Len(s)
           n == Len(t)
<1>1. /\ m \in Nat /\ DOMAIN s = 1..m /\ \A i, j \in 1..m : s[i] = s[j] => i = j
      /\ n \in Nat /\ DOMAIN t = 1..n /\ \A i, j \in 1..n : t[i] = t[j] => i = j
  BY LenProperties DEF IsInjective
<1>2. /\ \A i \in 1..m : \E j \in 1..n : s[i] = t[j]
      /\ \A j \in 1..n : \E i \in 1..m : s[i] = t[j]
  <2> HIDE DEF m, n
  <2>1. ASSUME NEW i \in 1..m PROVE \E j \in 1..n : s[i] = t[j]
    <3>1. s[i] \in Range(t)
      BY <1>1 DEF Range
    <3> QED BY <1>1, <3>1 DEF Range
  <2>2. ASSUME NEW j \in 1..n PROVE \E i \in 1..m : s[i] = t[j]
    <3>1. t[j] \in Range(s)
      BY <1>1 DEF Range
    <3> QED BY <1>1, <3>1 DEF Range
  <2> QED BY <2>1, <2>2
<1>3. \A i, j \in 1..m : i < j => Precedes(t, s[i], s[j])
  <2> SUFFICES ASSUME NEW i \in 1..m, NEW j \in 1..m, i < j PROVE Precedes(t, s[i], s[j])
    OBVIOUS
  <2>1. Precedes(s, s[i], s[j])
    BY DEF Precedes
  <2>2. s[i] \in Range(s) /\ s[j] \in Range(s)
    BY <1>1 DEF Range
  <2> QED BY <2>1, <2>2
<1>4. \A i, j \in 1..n : i < j => ~Precedes(t, t[j], t[i])
  BY <1>1 DEF Precedes
<1> HIDE DEF m, n
<1> DEFINE Same(k) == \A i \in 1..k : i <= m => i <= n /\ s[i] = t[i]
           K == {k \in Nat : Same(k)}
<1>5. 0 \in K
  OBVIOUS
<1>6. ASSUME NEW k \in Nat, k \in K PROVE k + 1 \in K
  <2> DEFINE l == k + 1
  <2>1. SUFFICES ASSUME l <= m PROVE l <= n /\ s[l] = t[l]
    <3>1. \A i \in 1..l : i \in 1..k \/ i = l
      OBVIOUS
    <3> QED BY <1>6, <2>1, <3>1
  <2>2. l \in 1..m /\ \A i \in 1..k : i \in 1..m /\ i \in 1..n /\ s[i] = t[i] /\ i # l
    BY <1>1, <1>6, <2>1
  <2>3. PICK j \in 1..n : s[l] = t[j]
    BY <1>2, <2>2
  <2>4. j \notin 1..k
    BY <1>1, <2>2, <2>3
  <2> HIDE DEF l
  <2>5. l = k + 1
    BY DEF l
  <2>6. ASSUME j # l PROVE FALSE
    <3>1. l \in 1..n /\ l < j
      BY <1>1, <2>4, <2>5, <2>6
    <3>2. PICK i \in 1..m : s[i] = t[l]
      BY <1>2, <3>1
    <3>3. i \notin 1..k
      BY <1>1, <2>2, <2>5, <3>1, <3>2
    <3>4. i # l
      BY <1>1, <2>3, <2>6, <3>1, <3>2
    <3>5. l < i
      BY <1>1, <2>5, <3>3, <3>4
    <3>6. Precedes(t, t[j], t[l])
      BY <1>3, <2>2, <2>3, <3>2, <3>5
    <3> QED BY <1>4, <3>1, <3>6
  <2> QED BY <1>1, <2>3, <2>6
<1>7. \A k \in Nat : k \in K
  <2> HIDE DEF K
  <2> QED BY <1>5, <1>6, InductionOnNat
<1>8. \A i \in 1..m : i <= n /\ s[i] = t[i]
  <2>1. Same(m)
    BY <1>1, <1>7
  <2> QED BY <1>1, <2>1
<1>9. m <= n
  <2>1. m # 0 => m \in 1..m
    BY <1>1
  <2> QED BY <1>1, <1>8, <2>1
<1>10. ASSUME m < n PROVE FALSE
  <2>1. n \in 1..n /\ ~(n \in 1..m)
    BY <1>1, <1>10
  <2>2. PICK i \in 1..m : s[i] = t[n]
    BY <1>2, <2>1
  <2>3. i \in 1..n /\ t[i] = t[n]
    BY <1>1, <1>8, <1>9, <2>2
  <2> QED BY <1>1, <2>1, <2>2, <2>3
<1>11. m = n
  BY <1>1, <1>9, <1>10
<1> QED BY <1>8, <1>11, SeqEqual DEF m, n

-----------------------------------------------------------------------------
(* Sequences of sequences, put together (FlattenSeq).                       *)

\* h[k] is the first k of the sequences put together.
IsJoined(h, ss) ==
    /\ h[0] = <<>>
    /\ \A k \in 1..Len(ss) : h[k] = h[k - 1] \o ss[k]

Joinable(T, n, ss) == n \in Nat /\ ss \in [1..n -> Seq(T)]

HasJoin(T, n, ss) ==
    \E h \in [0..n -> Seq(T)] : h[0] = <<>> /\ \A k \in 1..n : h[k] = h[k - 1] \o ss[k]

\* There is a function to what the first k sequences make.
LEMMA JoinExists ==
    ASSUME NEW T, NEW n, NEW ss, Joinable(T, n, ss)
    PROVE  HasJoin(T, n, ss)
<1>0. n \in Nat /\ ss \in [1..n -> Seq(T)]
  BY DEF Joinable
<1> DEFINE step == [k \in 1..n |-> [v \in Seq(T) |-> v \o ss[k]]]
<1>1. \A k \in 1..n : \A v \in Seq(T) : v \o ss[k] \in Seq(T)
  BY <1>0, ConcatProperties
<1>2. step \in [1..n -> [Seq(T) -> Seq(T)]]
  BY <1>1
<1>3. \A k \in 1..n : \A v \in Seq(T) : step[k][v] = v \o ss[k]
  OBVIOUS
<1> HIDE DEF step
<1>4. IsRecursion(Seq(T), <<>>, n, step)
  BY <1>0, <1>2, EmptySeq DEF IsRecursion
<1>5. HasRecursion(Seq(T), <<>>, n, step)
  BY <1>4, RecursionExists
<1>6. PICK h \in [0..n -> Seq(T)] : h[0] = <<>> /\ \A k \in 1..n : h[k] = step[k][h[k - 1]]
  BY <1>5 DEF HasRecursion
<1>7. \A k \in 1..n : h[k - 1] \in Seq(T)
  <2>1. \A k \in 1..n : k - 1 \in 0..n
    BY <1>0
  <2> QED BY <2>1
<1>8. \A k \in 1..n : h[k] = h[k - 1] \o ss[k]
  BY <1>3, <1>6, <1>7
<1> QED BY <1>6, <1>8 DEF HasJoin

\* Putting the sequences together one after the other flattens them.
LEMMA FlattenByRecursion ==
    ASSUME NEW T, NEW ss \in Seq(Seq(T))
    PROVE  \E h \in [0..Len(ss) -> Seq(T)] : IsJoined(h, ss) /\ FlattenSeq(ss) = h[Len(ss)]
<1> DEFINE n == Len(ss)
<1>1. n \in Nat /\ \A k \in 1..n : ss[k] \in Seq(T)
  BY LenProperties, ElementOfSeq
<1>2. ss \in [1..n -> Seq(T)]
  <2>1. ss = [k \in 1..n |-> ss[k]]
    BY LenProperties
  <2> QED BY <1>1, <2>1
<1>3. Joinable(T, n, ss)
  BY <1>1, <1>2 DEF Joinable
<1>4. PICK h \in [0..n -> Seq(T)] : h[0] = <<>> /\ \A k \in 1..n : h[k] = h[k - 1] \o ss[k]
  <2> HIDE DEF n
  <2>1. HasJoin(T, n, ss)
    BY <1>3, JoinExists
  <2> QED BY <2>1 DEF HasJoin
<1>5. \A k \in 1..n : h[k] = h[k - 1] \o ss[k]
  BY <1>4
<1>6. IsJoined(h, ss)
  BY <1>4, <1>5 DEF IsJoined
<1>7. FlattenSeq(ss) = h[n]
  <2>1. CASE n = 0
    <3>1. ss = <<>>
      BY <2>1, EmptySeq
    <3> QED BY <1>4, <2>1, <3>1 DEF FlattenSeq
  <2>2. CASE n # 0
    <3> DEFINE Flat(f) == f = [i \in 1..n |-> IF i = 1 THEN ss[i] ELSE f[i - 1] \o ss[i]]
               g == [i \in 1..n |-> h[i]]
               c == CHOOSE f : Flat(f)
    <3>1. FlattenSeq(ss) = c[n]
      BY <2>2 DEF FlattenSeq
    <3>2. Flat(g)
      <4>1. ASSUME NEW i \in 1..n PROVE h[i] = IF i = 1 THEN ss[i] ELSE g[i - 1] \o ss[i]
        <5>1. CASE i = 1
          <6>1. 1 \in 1..n /\ 1 - 1 = 0
            BY <5>1
          <6>2. h[1] = h[1 - 1] \o ss[1] /\ ss[1] \in Seq(T)
            BY <1>1, <1>5, <6>1
          <6>3. h[1] = <<>> \o ss[1]
            BY <1>4, <6>1, <6>2
          <6> QED BY <5>1, <6>2, <6>3, ConcatEmptySeq
        <5>2. CASE i # 1
          <6>1. i - 1 \in 1..n
            BY <1>1, <5>2
          <6> QED BY <1>5, <5>2, <6>1
        <5> QED BY <5>1, <5>2
      <4> QED BY <4>1
    <3>3. Flat(c)
      <4> HIDE DEF Flat, g
      <4> QED BY <3>2
    <3> DEFINE S == {k \in Nat : k + 1 <= n => c[k + 1] = h[k + 1]}
    <3>4. 0 \in S
      <4>1. 1 \in 1..n /\ 0 + 1 = 1
        BY <1>1, <2>2
      <4>2. c[1] = ss[1]
        BY <3>3, <4>1
      <4>3. h[1] = ss[1]
        BY <3>2, <4>1
      <4> QED BY <4>1, <4>2, <4>3
    <3>5. ASSUME NEW k \in Nat, k \in S PROVE k + 1 \in S
      <4> SUFFICES ASSUME (k + 1) + 1 <= n PROVE c[(k + 1) + 1] = h[(k + 1) + 1]
        OBVIOUS
      <4> DEFINE m == (k + 1) + 1
      <4>1. m \in 1..n /\ m # 1 /\ m - 1 = k + 1 /\ k + 1 <= n
        BY <1>1
      <4> HIDE DEF m
      <4>2. c[m] = c[m - 1] \o ss[m]
        BY <3>3, <4>1
      <4>3. c[k + 1] = h[k + 1]
        BY <3>5, <4>1
      <4>4. h[m] = h[m - 1] \o ss[m]
        BY <1>5, <4>1
      <4>5. c[m] = h[m]
        BY <4>1, <4>2, <4>3, <4>4
      <4> QED BY <4>5 DEF m
    <3>6. \A k \in Nat : k \in S
      <4> HIDE DEF S
      <4> QED BY <3>4, <3>5, InductionOnNat
    <3>7. n - 1 \in Nat /\ (n - 1) + 1 = n
      BY <1>1, <2>2
    <3>8. c[n] = h[n]
      <4>1. n - 1 \in S
        BY <3>6, <3>7
      <4>2. n - 1 \in S => (n <= n => c[n] = h[n])
        BY <3>7
      <4> HIDE DEF c, S
      <4> QED BY <1>1, <4>1, <4>2
    <3> QED BY <3>1, <3>8
  <2> QED BY <2>1, <2>2
<1> QED BY <1>6, <1>7

\* Nothing put together is nothing.
LEMMA FlattenEmpty == FlattenSeq(<<>>) = <<>>
BY DEF FlattenSeq

\* One more sequence is put at the end.
LEMMA FlattenAppend ==
    ASSUME NEW T, NEW ss \in Seq(Seq(T)), NEW x \in Seq(T)
    PROVE  FlattenSeq(Append(ss, x)) = FlattenSeq(ss) \o x
<1> DEFINE n == Len(ss)
           tt == Append(ss, x)
<1>1. n \in Nat
  BY LenProperties
<1>2. tt \in Seq(Seq(T)) /\ Len(tt) = n + 1 /\ tt[n + 1] = x /\ \A i \in 1..n : tt[i] = ss[i]
  BY PushFacts
<1>3. PICK h \in [0..n -> Seq(T)] : IsJoined(h, ss) /\ FlattenSeq(ss) = h[n]
  BY FlattenByRecursion
<1> HIDE DEF tt
<1>4. PICK g \in [0..(n + 1) -> Seq(T)] : IsJoined(g, tt) /\ FlattenSeq(tt) = g[n + 1]
  BY <1>2, FlattenByRecursion
<1>5. h[0] = <<>> /\ \A k \in 1..n : h[k] = h[k - 1] \o ss[k]
  BY <1>3 DEF IsJoined
<1>6. g[0] = <<>> /\ \A k \in 1..(n + 1) : g[k] = g[k - 1] \o tt[k]
  BY <1>2, <1>4 DEF IsJoined
<1> HIDE DEF n
<1> DEFINE S == {k \in Nat : k <= n => g[k] = h[k]}
<1>7. 0 \in S
  BY <1>5, <1>6
<1>8. ASSUME NEW k \in Nat, k \in S PROVE k + 1 \in S
  <2> SUFFICES ASSUME k + 1 <= n PROVE g[k + 1] = h[k + 1]
    OBVIOUS
  <2>1. k + 1 \in 1..n /\ k + 1 \in 1..(n + 1) /\ (k + 1) - 1 = k
    BY <1>1
  <2>2. g[k + 1] = g[k] \o tt[k + 1]
    BY <1>6, <2>1
  <2>3. h[k + 1] = h[k] \o ss[k + 1]
    BY <1>5, <2>1
  <2>4. g[k] = h[k]
    BY <1>1, <1>8, <2>1
  <2> QED BY <1>2, <2>1, <2>2, <2>3, <2>4
<1>9. \A k \in Nat : k \in S
  <2> HIDE DEF S
  <2> QED BY <1>7, <1>8, InductionOnNat
<1>10. g[n] = h[n]
  <2>1. n \in S
    BY <1>1, <1>9
  <2> QED BY <1>1, <2>1
<1>11. g[n + 1] = g[n] \o tt[n + 1]
  <2>1. n + 1 \in 1..(n + 1) /\ (n + 1) - 1 = n
    BY <1>1
  <2>2. g[n + 1] = g[(n + 1) - 1] \o tt[n + 1]
    BY <1>6, <2>1
  <2> QED BY <2>1, <2>2
<1> QED BY <1>2, <1>3, <1>4, <1>10, <1>11 DEF tt

\* s without what stands at the places D.
Without(s, D) == FlattenSeq([i \in DOMAIN s |-> IF i \in D THEN <<>> ELSE <<s[i]>>])

\* With the first m elements left out, what is left is the rest, or less of it.
LEMMA WithoutFacts ==
    ASSUME NEW S, NEW s \in Seq(S), NEW D, NEW m \in 0..Len(s), \A i \in 1..m : i \in D
    PROVE  /\ Without(s, D) \in Seq(S)
           /\ Len(Without(s, D)) <= Len(s) - m
           /\ Len(Without(s, D)) = Len(s) - m <=> \A i \in (m + 1)..Len(s) : i \notin D
           /\ (\A i \in (m + 1)..Len(s) : i \notin D) =>
                 \A j \in 1..(Len(s) - m) : Without(s, D)[j] = s[m + j]
<1> DEFINE ss == [i \in DOMAIN s |-> IF i \in D THEN <<>> ELSE <<s[i]>>]
           l == Len(s)
           n == l - m
<1>1. /\ l \in Nat /\ DOMAIN s = 1..l /\ m \in Nat /\ m <= l /\ n \in Nat
      /\ \A i \in 1..l : s[i] \in S
  BY LenProperties, ElementOfSeq
<1>2. <<>> \in Seq(S) /\ Len(<<>>) = 0
  BY EmptySeq
<1>3. \A x \in S : <<x>> \in Seq(S) /\ Len(<<x>>) = 1 /\ <<x>>[1] = x
  OBVIOUS
<1>4. \A i \in 1..l : (IF i \in D THEN <<>> ELSE <<s[i]>>) \in Seq(S)
  BY <1>1, <1>2, <1>3
<1>5. ss \in Seq(Seq(S)) /\ Len(ss) = l /\ \A i \in 1..l : ss[i] = IF i \in D THEN <<>> ELSE <<s[i]>>
  <2>1. ss = [i \in 1..l |-> IF i \in D THEN <<>> ELSE <<s[i]>>]
    BY <1>1
  <2>2. ss \in [1..l -> Seq(S)]
    BY <1>4, <2>1
  <2>3. ss \in Seq(Seq(S)) /\ DOMAIN ss = 1..l
    BY <1>1, <2>2, SeqDef
  <2>4. Len(ss) = l
    BY <1>1, <2>3, LenProperties
  <2> QED BY <2>1, <2>3, <2>4
<1>6. Without(s, D) = FlattenSeq(ss)
  BY DEF Without
<1> HIDE DEF ss, n
<1>7. PICK h \in [0..l -> Seq(S)] : IsJoined(h, ss) /\ FlattenSeq(ss) = h[l]
  BY <1>5, FlattenByRecursion
<1>8. h[0] = <<>> /\ \A k \in 1..l : h[k] = h[k - 1] \o ss[k]
  BY <1>5, <1>7 DEF IsJoined
<1> HIDE DEF l
<1> DEFINE E == {k \in Nat : k <= m => h[k] = <<>>}
<1>9. 0 \in E
  BY <1>8
<1>10. ASSUME NEW k \in Nat, k \in E PROVE k + 1 \in E
  <2> SUFFICES ASSUME k + 1 <= m PROVE h[k + 1] = <<>>
    OBVIOUS
  <2>1. k + 1 \in 1..l /\ k + 1 \in 1..m /\ (k + 1) - 1 = k /\ k <= m
    BY <1>1
  <2>2. h[k + 1] = h[k] \o ss[k + 1]
    BY <1>8, <2>1
  <2>3. ss[k + 1] = <<>>
    BY <1>5, <2>1
  <2>4. h[k] = <<>>
    BY <1>10, <2>1
  <2>5. <<>> \o <<>> = <<>>
    BY <1>2, ConcatEmptySeq
  <2> QED BY <2>2, <2>3, <2>4, <2>5
<1>11. \A k \in Nat : k \in E
  <2> HIDE DEF E
  <2> QED BY <1>9, <1>10, InductionOnNat
<1>12. h[m] = <<>>
  <2>1. m \in E
    BY <1>1, <1>11
  <2> QED BY <1>1, <2>1
<1> DEFINE Q(r, j) == /\ Len(r) <= j
                      /\ Len(r) = j <=> \A i \in (m + 1)..(m + j) : i \notin D
                      /\ (\A i \in (m + 1)..(m + j) : i \notin D) =>
                            \A i \in 1..j : r[i] = s[m + i]
           F == {j \in Nat : j <= n => Q(h[m + j], j)}
<1>13. 0 \in F
  <2>1. m + 0 = m /\ (m + 1)..(m + 0) = {} /\ 1..0 = {}
    BY <1>1
  <2> QED BY <1>2, <1>12, <2>1
<1>14. ASSUME NEW j \in Nat, j \in F PROVE j + 1 \in F
  <2> SUFFICES ASSUME j + 1 <= n PROVE Q(h[m + (j + 1)], j + 1)
    OBVIOUS
  <2> DEFINE r == h[m + j]
             c == m + (j + 1)
  <2>1. j <= n /\ c \in 1..l /\ c - 1 = m + j /\ m + j \in 0..l /\ c \in (m + 1)..c
    BY <1>1 DEF n
  <2>2. Q(r, j)
    BY <1>14, <2>1
  <2>3. h[c] = r \o ss[c]
    BY <1>8, <2>1
  <2>4. r \in Seq(S)
    BY <2>1
  <2>5. \A i \in (m + 1)..c : i \in (m + 1)..(m + j) \/ i = c
    BY <1>1
  <2>6. \A i \in (m + 1)..(m + j) : i \in (m + 1)..c
    BY <1>1
  <2> HIDE DEF r
  <2>7. CASE c \in D
    <3>1. h[c] = r
      BY <1>5, <2>1, <2>3, <2>4, <2>7, ConcatEmptySeq
    <3>2. Len(r) \in Nat
      BY <2>4, LenProperties
    <3> QED BY <2>1, <2>2, <2>7, <3>1, <3>2
  <2>8. CASE c \notin D
    <3>1. ss[c] = <<s[c]>> /\ s[c] \in S
      BY <1>1, <1>5, <2>1, <2>8
    <3>2. r \o <<s[c]>> = Append(r, s[c])
      BY <2>4, <3>1, AppendIsConcat
    <3>3. /\ Len(h[c]) = Len(r) + 1 /\ Len(r) \in Nat
          /\ h[c][Len(r) + 1] = s[c]
          /\ \A i \in 1..Len(r) : h[c][i] = r[i]
      BY <2>3, <2>4, <3>1, <3>2, PushFacts, LenProperties
    <3> HIDE DEF c
    <3>4. Len(h[c]) <= j + 1
      BY <2>2, <3>3
    <3>5. Len(h[c]) = j + 1 <=> \A i \in (m + 1)..c : i \notin D
      BY <2>2, <2>5, <2>6, <2>8, <3>3
    <3>6. ASSUME \A i \in (m + 1)..c : i \notin D, NEW i \in 1..(j + 1)
          PROVE  h[c][i] = s[m + i]
      <4>1. Len(r) = j /\ \A k \in 1..j : r[k] = s[m + k]
        BY <2>2, <2>6, <3>6
      <4>2. CASE i = j + 1
        BY <3>3, <4>1, <4>2 DEF c
      <4>3. CASE i # j + 1
        <5>1. i \in 1..j
          BY <3>6, <4>3
        <5> QED BY <3>3, <4>1, <5>1
      <4> QED BY <4>2, <4>3
    <3> QED BY <3>4, <3>5, <3>6 DEF c
  <2> QED BY <2>7, <2>8
<1>15. \A j \in Nat : j \in F
  <2> HIDE DEF F
  <2> QED BY <1>13, <1>14, InductionOnNat
<1>16. Q(h[l], n)
  <2>1. m + n = l /\ n \in Nat /\ n <= n
    BY <1>1 DEF n
  <2>2. n \in F
    <3> HIDE DEF F
    <3> QED BY <1>15, <2>1
  <2>3. Q(h[m + n], n)
    <3> HIDE DEF Q
    <3> QED BY <2>1, <2>2
  <2> HIDE DEF Q
  <2> QED BY <2>1, <2>3
<1>17. m + n = l /\ h[l] \in Seq(S)
  BY <1>1 DEF n
<1> QED BY <1>6, <1>7, <1>16, <1>17 DEF n, l

\* Two sequences put together.
LEMMA ConcatFacts ==
    ASSUME NEW T, NEW s \in Seq(T), NEW t \in Seq(T)
    PROVE  /\ s \o t \in Seq(T)
           /\ Range(s \o t) = Range(s) \cup Range(t)
           /\ \A a, b : /\ Precedes(s, a, b) => Precedes(s \o t, a, b)
                        /\ Precedes(t, a, b) => Precedes(s \o t, a, b)
                        /\ a \in Range(s) /\ b \in Range(t) => Precedes(s \o t, a, b)
           /\ IsInjective(s) /\ IsInjective(t) /\ Range(s) \cap Range(t) = {} => IsInjective(s \o t)
<1> DEFINE m == Len(s)
           n == Len(t)
           r == s \o t
<1>1. /\ m \in Nat /\ n \in Nat
      /\ DOMAIN s = 1..m /\ DOMAIN t = 1..n
      /\ r \in Seq(T) /\ Len(r) = m + n /\ DOMAIN r = 1..(m + n)
      /\ \A i \in 1..(m + n) : r[i] = IF i <= m THEN s[i] ELSE t[i - m]
  BY LenProperties, ConcatProperties
<1> HIDE DEF m, n, r
<1>2. \A i \in 1..m : i \in 1..(m + n) /\ r[i] = s[i]
  BY <1>1
<1>3. \A i \in 1..n : m + i \in 1..(m + n) /\ r[m + i] = t[i]
  <2> TAKE i \in 1..n
  <2>1. m + i \in 1..(m + n) /\ ~(m + i <= m) /\ (m + i) - m = i
    BY <1>1
  <2> QED BY <1>1, <2>1
<1>4. \A i \in 1..(m + n) : i \in 1..m \/ (i - m \in 1..n /\ m + (i - m) = i)
  BY <1>1
<1>5. Range(r) = Range(s) \cup Range(t)
  <2>1. ASSUME NEW i \in 1..(m + n) PROVE r[i] \in Range(s) \cup Range(t)
    <3>1. CASE i \in 1..m
      <4>1. r[i] = s[i] /\ i \in DOMAIN s
        BY <1>1, <1>2, <3>1
      <4> QED BY <4>1 DEF Range
    <3>2. CASE i - m \in 1..n /\ m + (i - m) = i
      <4>1. r[i] = t[i - m] /\ i - m \in DOMAIN t
        BY <1>1, <1>3, <3>2
      <4> QED BY <4>1 DEF Range
    <3> QED BY <1>4, <3>1, <3>2
  <2>2. \A x \in Range(s) \cup Range(t) : x \in Range(r)
    BY <1>1, <1>2, <1>3 DEF Range
  <2> QED BY <1>1, <2>1, <2>2 DEF Range
<1>6. ASSUME NEW a, NEW b, Precedes(s, a, b) PROVE Precedes(r, a, b)
  <2>1. PICK i \in 1..m, j \in 1..m : i < j /\ s[i] = a /\ s[j] = b
    BY <1>6 DEF Precedes, m
  <2> QED BY <1>1, <1>2, <2>1 DEF Precedes
<1>7. ASSUME NEW a, NEW b, Precedes(t, a, b) PROVE Precedes(r, a, b)
  <2>1. PICK i \in 1..n, j \in 1..n : i < j /\ t[i] = a /\ t[j] = b
    BY <1>7 DEF Precedes, n
  <2>2. m + i < m + j
    BY <1>1, <2>1
  <2> QED BY <1>1, <1>3, <2>1, <2>2 DEF Precedes
<1>8. ASSUME NEW a \in Range(s), NEW b \in Range(t) PROVE Precedes(r, a, b)
  <2>1. PICK i \in 1..m, j \in 1..n : s[i] = a /\ t[j] = b
    BY <1>1 DEF Range
  <2>2. i < m + j
    BY <1>1
  <2> QED BY <1>1, <1>2, <1>3, <2>1, <2>2 DEF Precedes
<1>9. ASSUME IsInjective(s), IsInjective(t), Range(s) \cap Range(t) = {} PROVE IsInjective(r)
  <2> SUFFICES ASSUME NEW i \in 1..(m + n), NEW j \in 1..(m + n), r[i] = r[j] PROVE i = j
    BY <1>1 DEF IsInjective
  <2>1. CASE i \in 1..m /\ j \in 1..m
    BY <1>1, <1>2, <1>9, <2>1 DEF IsInjective
  <2>2. CASE i - m \in 1..n /\ m + (i - m) = i /\ j - m \in 1..n /\ m + (j - m) = j
    <3>1. t[i - m] = t[j - m]
      BY <1>3, <2>2
    <3>2. i - m = j - m
      BY <1>1, <1>9, <2>2, <3>1 DEF IsInjective
    <3> QED BY <1>1, <3>2
  <2>3. ASSUME NEW p \in 1..m, NEW q \in 1..n, r[p] = r[m + q] PROVE FALSE
    <3>1. s[p] = t[q]
      BY <1>2, <1>3, <2>3
    <3>2. s[p] \in Range(s) /\ t[q] \in Range(t)
      BY <1>1 DEF Range
    <3> QED BY <1>9, <3>1, <3>2
  <2> QED BY <1>4, <2>1, <2>2, <2>3
<1> QED BY <1>1, <1>5, <1>6, <1>7, <1>8, <1>9 DEF r

\* A list with one more in front.
LEMMA PrependFacts ==
    ASSUME NEW S, NEW e \in S, NEW s \in Seq(S)
    PROVE  /\ <<e>> \o s \in Seq(S)
           /\ Range(<<e>> \o s) = {e} \cup Range(s)
           /\ \A a, b : Precedes(s, a, b) => Precedes(<<e>> \o s, a, b)
           /\ \A b \in Range(s) : Precedes(<<e>> \o s, e, b)
           /\ IsInjective(s) /\ e \notin Range(s) => IsInjective(<<e>> \o s)
<1> DEFINE t == <<e>>
<1>1. /\ t \in Seq(S) /\ Range(t) = {e} /\ IsInjective(t)
  BY DEF Range, IsInjective
<1> HIDE DEF t
<1>2. /\ t \o s \in Seq(S)
      /\ Range(t \o s) = Range(t) \cup Range(s)
      /\ \A a, b : /\ Precedes(t, a, b) => Precedes(t \o s, a, b)
                   /\ Precedes(s, a, b) => Precedes(t \o s, a, b)
                   /\ a \in Range(t) /\ b \in Range(s) => Precedes(t \o s, a, b)
      /\ IsInjective(t) /\ IsInjective(s) /\ Range(t) \cap Range(s) = {} => IsInjective(t \o s)
  BY <1>1, ConcatFacts
<1>3. \A b \in Range(s) : Precedes(t \o s, e, b)
  BY <1>1, <1>2
<1>4. IsInjective(s) /\ e \notin Range(s) => IsInjective(t \o s)
  BY <1>1, <1>2
<1> QED BY <1>1, <1>2, <1>3, <1>4 DEF t

\* The first k of the sequences have distinct elements, each and together.
AreApart(ss, k) ==
    \A i \in 1..k : /\ IsInjective(ss[i])
                    /\ \A j \in 1..k : i # j => Range(ss[i]) \cap Range(ss[j]) = {}

\* r is the first k of the sequences put together: what is in it, in which
\* order, and when it repeats nothing.
Joins(r, ss, k) ==
    /\ \A a : a \in Range(r) <=> \E i \in 1..k : a \in Range(ss[i])
    /\ \A i \in 1..k : \A a, b : Precedes(ss[i], a, b) => Precedes(r, a, b)
    /\ \A i, j \in 1..k : i < j =>
          \A a, b : a \in Range(ss[i]) /\ b \in Range(ss[j]) => Precedes(r, a, b)
    /\ AreApart(ss, k) => IsInjective(r)

\* Putting one more at the end.
LEMMA JoinsOneMore ==
    ASSUME NEW T, NEW r \in Seq(T), NEW k \in Nat, NEW ss, ss[k + 1] \in Seq(T), Joins(r, ss, k)
    PROVE  Joins(r \o ss[k + 1], ss, k + 1)
<1> DEFINE n == k + 1
           t == ss[n]
           q == r \o t
<1>1. /\ t \in Seq(T)
      /\ n \in 1..n
      /\ \A i \in 1..n : i \in 1..k \/ i = n
      /\ \A i \in 1..k : i \in 1..n /\ i < n /\ i # n
      /\ \A i \in 1..n : ~(n < i)
  OBVIOUS
<1>0. t = ss[n]
  OBVIOUS
<1> HIDE DEF n, t, q
<1>2. /\ Range(q) = Range(r) \cup Range(t)
      /\ \A a, b : /\ Precedes(r, a, b) => Precedes(q, a, b)
                   /\ Precedes(t, a, b) => Precedes(q, a, b)
                   /\ a \in Range(r) /\ b \in Range(t) => Precedes(q, a, b)
      /\ IsInjective(r) /\ IsInjective(t) /\ Range(r) \cap Range(t) = {} => IsInjective(q)
  BY <1>1, ConcatFacts DEF q
<1>3. \A a : a \in Range(r) <=> \E i \in 1..k : a \in Range(ss[i])
  BY DEF Joins
<1>4. \A a : a \in Range(q) <=> \E i \in 1..n : a \in Range(ss[i])
  BY <1>1, <1>2, <1>3, <1>0
<1>5. ASSUME NEW i \in 1..n, NEW a, NEW b, Precedes(ss[i], a, b) PROVE Precedes(q, a, b)
  <2>1. i \in 1..k => Precedes(r, a, b)
    BY <1>5 DEF Joins
  <2>2. i = n => Precedes(t, a, b)
    BY <1>0, <1>5
  <2>3. i \in 1..k \/ i = n
    BY <1>1
  <2>4. Precedes(r, a, b) \/ Precedes(t, a, b)
    BY <2>1, <2>2, <2>3
  <2> QED BY <1>2, <2>4
<1>6. ASSUME NEW i \in 1..n, NEW j \in 1..n, i < j, NEW a, NEW b, a \in Range(ss[i]), b \in Range(ss[j])
      PROVE  Precedes(q, a, b)
  <2>1. i \in 1..k
    BY <1>1, <1>6
  <2>2. j \in 1..k => Precedes(r, a, b)
    BY <1>6, <2>1 DEF Joins
  <2>3. a \in Range(r)
    BY <1>3, <1>6, <2>1
  <2>4. j = n => b \in Range(t)
    BY <1>0, <1>6
  <2>5. j \in 1..k \/ j = n
    BY <1>1
  <2>6. Precedes(r, a, b) \/ (a \in Range(r) /\ b \in Range(t))
    BY <2>2, <2>3, <2>4, <2>5
  <2> QED BY <1>2, <2>6
<1>7. ASSUME AreApart(ss, n) PROVE IsInjective(q)
  <2>1. AreApart(ss, k)
    BY <1>1, <1>7 DEF AreApart
  <2>2. IsInjective(r)
    BY <2>1 DEF Joins
  <2>3. IsInjective(t)
    BY <1>1, <1>7 DEF AreApart, t
  <2>4. ASSUME NEW i \in 1..k PROVE Range(ss[i]) \cap Range(t) = {}
    BY <1>1, <1>7 DEF AreApart, t
  <2>5. Range(r) \cap Range(t) = {}
    <3>1. ASSUME NEW a, a \in Range(r), a \in Range(t) PROVE FALSE
      <4>1. PICK i \in 1..k : a \in Range(ss[i])
        BY <1>3, <3>1
      <4> QED BY <2>4, <3>1, <4>1
    <3> QED BY <3>1
  <2> QED BY <1>2, <2>2, <2>3, <2>5
<1>8. Joins(q, ss, n)
  BY <1>4, <1>5, <1>6, <1>7 DEF Joins
<1> QED BY <1>8 DEF q, t, n

\* What FlattenSeq makes.
LEMMA FlattenFacts ==
    ASSUME NEW T, NEW ss \in Seq(Seq(T))
    PROVE  FlattenSeq(ss) \in Seq(T) /\ Joins(FlattenSeq(ss), ss, Len(ss))
<1> DEFINE n == Len(ss)
<1>1. n \in Nat /\ \A k \in 1..n : ss[k] \in Seq(T)
  BY LenProperties, ElementOfSeq
<1>2. PICK h \in [0..n -> Seq(T)] : IsJoined(h, ss) /\ FlattenSeq(ss) = h[n]
  BY FlattenByRecursion
<1> DEFINE S == {k \in Nat : k <= n => Joins(h[k], ss, k)}
<1>3. 0 \in S
  <2>1. h[0] = <<>>
    BY <1>2 DEF IsJoined
  <2>2. /\ Range(<<>>) = {} /\ IsInjective(<<>>)
        /\ \A i : i \notin 1..0
    BY EmptyFacts
  <2>3. Joins(h[0], ss, 0)
    BY <2>1, <2>2 DEF Joins
  <2> QED BY <2>3
<1>4. ASSUME NEW k \in Nat, k \in S PROVE k + 1 \in S
  <2> SUFFICES ASSUME k + 1 <= n PROVE Joins(h[k + 1], ss, k + 1)
    OBVIOUS
  <2>1. k \in 0..n /\ k + 1 \in 1..n /\ (k + 1) - 1 = k
    BY <1>1
  <2>2. Joins(h[k], ss, k) /\ h[k] \in Seq(T) /\ ss[k + 1] \in Seq(T)
    <3> HIDE DEF n
    <3>1. k <= n
      BY <1>1, <2>1
    <3>2. Joins(h[k], ss, k)
      BY <1>4, <3>1
    <3>3. h[k] \in Seq(T)
      BY <2>1
    <3> QED BY <1>1, <2>1, <3>2, <3>3
  <2>3. h[k + 1] = h[k] \o ss[k + 1]
    BY <1>2, <2>1 DEF IsJoined
  <2>4. Joins(h[k] \o ss[k + 1], ss, k + 1)
    BY <2>2, JoinsOneMore
  <2> QED BY <2>3, <2>4
<1>5. \A k \in Nat : k \in S
  <2> HIDE DEF S
  <2> QED BY <1>3, <1>4, InductionOnNat
<1>6. Joins(h[n], ss, n)
  <2>1. n \in S
    BY <1>1, <1>5
  <2>2. n <= n
    BY <1>1
  <2> HIDE DEF n
  <2> QED BY <2>1, <2>2
<1>7. h[n] \in Seq(T)
  <2>1. n \in 0..n
    BY <1>1
  <2> HIDE DEF n
  <2> QED BY <2>1
<1> HIDE DEF n, S
<1>8. FlattenSeq(ss) \in Seq(T) /\ Joins(FlattenSeq(ss), ss, n)
  BY <1>2, <1>6, <1>7
<1> QED BY <1>8 DEF n

-----------------------------------------------------------------------------
(* Sums over finite sets.                                                   *)

AnyOf(s) == CHOOSE x \in s : TRUE

\* g sums w over each subset of S, one element after the other.
IsSum(g, w, S) ==
    g = [s \in SUBSET S |-> IF s = {} THEN 0 ELSE w[AnyOf(s)] + g[s \ {AnyOf(s)}]]

\* A finite set without one of its elements is finite, and smaller by one.
LEMMA OneLess ==
    ASSUME NEW S, IsFiniteSet(S), NEW s \in SUBSET S, NEW x \in s
    PROVE  /\ IsFiniteSet(s) /\ IsFiniteSet(s \ {x})
           /\ Cardinality(s) \in Nat \ {0}
           /\ Cardinality(s \ {x}) = Cardinality(s) - 1
<1>1. IsFiniteSet(s) /\ Cardinality(s) \in Nat
  BY FS_Subset, FS_CardinalityType
<1>2. IsFiniteSet(s \ {x}) /\ Cardinality(s \ {x}) = Cardinality(s) - 1
  BY <1>1, FS_RemoveElement
<1>3. Cardinality(s \ {x}) \in Nat
  BY <1>2, FS_CardinalityType
<1> QED BY <1>1, <1>2, <1>3

\* Such a function exists.
LEMMA SumExists ==
    ASSUME NEW S, IsFiniteSet(S), NEW w
    PROVE  \E g : IsSum(g, w, S)
<1> DEFINE Small(n) == {s \in SUBSET S : Cardinality(s) <= n}
           Step(g, s) == IF s = {} THEN 0 ELSE w[AnyOf(s)] + g[s \ {AnyOf(s)}]
           Partial(g, n) == g = [s \in Small(n) |-> g[s]] /\ \A s \in Small(n) : g[s] = Step(g, s)
           N == {n \in Nat : \E g : Partial(g, n)}
<1>0. \A s \in SUBSET S : s # {} => /\ AnyOf(s) \in s
                                    /\ Cardinality(s) \in Nat \ {0}
                                    /\ Cardinality(s \ {AnyOf(s)}) = Cardinality(s) - 1
  <2> TAKE s \in SUBSET S
  <2> HAVE s # {}
  <2>1. AnyOf(s) \in s
    BY DEF AnyOf
  <2> QED BY <2>1, OneLess
<1>1. 0 \in N
  <2> DEFINE g == [s \in Small(0) |-> 0]
  <2>1. \A s \in Small(0) : s = {}
    <3> TAKE s \in Small(0)
    <3>1. Cardinality(s) <= 0 /\ s \in SUBSET S
      OBVIOUS
    <3>2. ASSUME s # {} PROVE FALSE
      <4>1. Cardinality(s) \in Nat \ {0}
        BY <1>0, <3>1, <3>2
      <4> QED BY <3>1, <4>1
    <3> QED BY <3>2
  <2>2. Partial(g, 0)
    <3> HIDE DEF Small
    <3> QED BY <2>1
  <2> HIDE DEF g
  <2> QED BY <2>2
<1>2. ASSUME NEW n \in Nat, n \in N PROVE n + 1 \in N
  <2>1. PICK h : Partial(h, n)
    BY <1>2
  <2> DEFINE g == [s \in Small(n + 1) |-> IF s \in Small(n) THEN h[s] ELSE Step(h, s)]
  <2>2. \A s \in Small(n + 1) : s # {} => s \ {AnyOf(s)} \in Small(n) /\ s \ {AnyOf(s)} \in Small(n + 1)
    <3> TAKE s \in Small(n + 1)
    <3> HAVE s # {}
    <3>1. s \in SUBSET S /\ Cardinality(s) <= n + 1
      OBVIOUS
    <3>2. Cardinality(s) \in Nat /\ Cardinality(s \ {AnyOf(s)}) = Cardinality(s) - 1
      BY <1>0, <3>1
    <3>3. s \ {AnyOf(s)} \in SUBSET S
      BY <3>1
    <3>4. Cardinality(s \ {AnyOf(s)}) <= n
      BY <3>1, <3>2
    <3>5. Cardinality(s \ {AnyOf(s)}) <= n + 1
      BY <3>2, <3>4
    <3> QED BY <3>3, <3>4, <3>5
  <2>3. g = [s \in Small(n + 1) |-> g[s]]
    OBVIOUS
  <2>4. \A s \in Small(n + 1) : g[s] = Step(g, s)
    <3> HIDE DEF Small
    <3> TAKE s \in Small(n + 1)
    <3>1. g[s] = Step(h, s)
      BY <2>1
    <3>2. s # {} => g[s \ {AnyOf(s)}] = h[s \ {AnyOf(s)}]
      BY <2>2
    <3> HIDE DEF g
    <3> QED BY <3>1, <3>2
  <2> HIDE DEF g, Small, Step
  <2> QED BY <2>3, <2>4
<1>3. Cardinality(S) \in N
  <2>1. Cardinality(S) \in Nat
    BY FS_CardinalityType
  <2> HIDE DEF N
  <2> QED BY <1>1, <1>2, <2>1, InductionOnNat
<1>4. PICK g : Partial(g, Cardinality(S))
  BY <1>3
<1>5. Small(Cardinality(S)) = SUBSET S
  <2>1. \A s \in SUBSET S : Cardinality(s) <= Cardinality(S)
    BY FS_Subset
  <2> QED BY <2>1
<1>6. g = [s \in SUBSET S |-> g[s]] /\ \A s \in SUBSET S : g[s] = Step(g, s)
  <2> HIDE DEF Small, Step
  <2> QED BY <1>4, <1>5
<1>7. IsSum(g, w, S)
  BY <1>6 DEF IsSum
<1> QED BY <1>7

\* Whatever element is taken out first, the sum is the same.
LEMMA SumTakesOut ==
    ASSUME NEW S, IsFiniteSet(S), NEW w, \A x \in S : w[x] \in Int, NEW g, IsSum(g, w, S)
    PROVE  \A s \in SUBSET S : g[s] \in Int /\ \A x \in s : g[s] = w[x] + g[s \ {x}]
<1> DEFINE Good(s) == g[s] \in Int /\ \A x \in s : g[s] = w[x] + g[s \ {x}]
           N == {n \in Nat : \A s \in SUBSET S : Cardinality(s) <= n => Good(s)}
<1>0. \A s \in SUBSET S : g[s] = IF s = {} THEN 0 ELSE w[AnyOf(s)] + g[s \ {AnyOf(s)}]
  BY DEF IsSum
<1>1. Good({})
  <2>1. {} \in SUBSET S
    OBVIOUS
  <2>2. g[{}] = 0
    BY <1>0, <2>1
  <2> QED BY <2>2
<1>2. ASSUME NEW n \in Nat, \A s \in SUBSET S : Cardinality(s) <= n => Good(s)
      PROVE  \A s \in SUBSET S : Cardinality(s) <= n + 1 => Good(s)
  <2> SUFFICES ASSUME NEW s \in SUBSET S, Cardinality(s) <= n + 1, s # {}
               PROVE  Good(s)
    BY <1>1
  <2> DEFINE c == AnyOf(s)
  <2>1. c \in s
    BY DEF AnyOf
  <2>2. \A x \in s : Cardinality(s \ {x}) <= n
    <3> TAKE x \in s
    <3>1. Cardinality(s) \in Nat \ {0} /\ Cardinality(s \ {x}) = Cardinality(s) - 1
      BY OneLess
    <3> QED BY <3>1
  <2>3. \A x \in s : Good(s \ {x})
    <3> HIDE DEF Good
    <3> QED BY <1>2, <2>2
  <2>4. g[s] = w[c] + g[s \ {c}]
    BY <1>0
  <2> HIDE DEF c
  <2>5. ASSUME NEW x \in s PROVE g[s] = w[x] + g[s \ {x}]
    <3>1. CASE x = c
      BY <2>4, <3>1
    <3>2. CASE x # c
      <4>1. x \in s \ {c} /\ c \in s \ {x}
        BY <2>1, <3>2
      <4>2. g[s \ {c}] = w[x] + g[(s \ {c}) \ {x}]
        BY <2>1, <2>3, <4>1
      <4>3. g[s \ {x}] = w[c] + g[(s \ {x}) \ {c}]
        BY <2>3, <4>1
      <4>4. (s \ {c}) \ {x} = (s \ {x}) \ {c}
        OBVIOUS
      <4> DEFINE r == g[(s \ {x}) \ {c}]
      <4>5. r \in Int
        <5>1. Cardinality((s \ {x}) \ {c}) <= n
          <6>1. s \ {x} \in SUBSET S
            OBVIOUS
          <6>2. Cardinality(s \ {x}) \in Nat /\ Cardinality((s \ {x}) \ {c}) = Cardinality(s \ {x}) - 1
            BY <4>1, <6>1, OneLess
          <6> QED BY <2>2, <6>2
        <5>2. (s \ {x}) \ {c} \in SUBSET S
          OBVIOUS
        <5> QED BY <1>2, <5>1, <5>2
      <4>6. g[s \ {c}] = w[x] + r
        BY <4>2, <4>4
      <4>7. g[s \ {x}] = w[c] + r
        BY <4>3
      <4>8. w[x] \in Int /\ w[c] \in Int
        BY <2>1
      <4> HIDE DEF r
      <4> QED BY <2>4, <4>5, <4>6, <4>7, <4>8
    <3> QED BY <3>1, <3>2
  <2>6. g[s] \in Int
    <3>1. w[c] \in Int /\ g[s \ {c}] \in Int
      BY <2>1, <2>3
    <3> QED BY <2>4, <3>1
  <2> QED BY <2>5, <2>6
<1>3. 0 \in N
  <2>1. ASSUME NEW s \in SUBSET S, Cardinality(s) <= 0 PROVE s = {}
    <3>1. ASSUME NEW x \in s PROVE FALSE
      <4>1. Cardinality(s) \in Nat \ {0}
        BY OneLess
      <4> QED BY <2>1, <4>1
    <3> QED BY <3>1
  <2>2. \A s \in SUBSET S : Cardinality(s) <= 0 => Good(s)
    <3> HIDE DEF Good
    <3> QED BY <1>1, <2>1
  <2> HIDE DEF Good
  <2> QED BY <2>2
<1> HIDE DEF Good
<1>4. ASSUME NEW n \in Nat, n \in N PROVE n + 1 \in N
  <2>1. \A s \in SUBSET S : Cardinality(s) <= n => Good(s)
    BY <1>4
  <2>2. \A s \in SUBSET S : Cardinality(s) <= n + 1 => Good(s)
    BY <1>2, <2>1
  <2> QED BY <2>2
<1>5. Cardinality(S) \in Nat /\ Cardinality(S) \in N
  <2>1. Cardinality(S) \in Nat
    BY FS_CardinalityType
  <2> HIDE DEF N
  <2> QED BY <1>3, <1>4, <2>1, InductionOnNat
<1>6. \A s \in SUBSET S : Cardinality(s) <= Cardinality(S)
  BY FS_Subset
<1>7. \A s \in SUBSET S : Good(s)
  BY <1>5, <1>6
<1> QED BY <1>7 DEF Good

\* What is summed over a part of a set does not depend on the rest.
LEMMA SumsAgree ==
    ASSUME NEW S, IsFiniteSet(S), NEW w, \A x \in S : w[x] \in Int, NEW g, IsSum(g, w, S),
           NEW T \in SUBSET S, NEW h, IsSum(h, w, T)
    PROVE  \A s \in SUBSET T : g[s] = h[s]
<1> DEFINE N == {n \in Nat : \A s \in SUBSET T : Cardinality(s) <= n => g[s] = h[s]}
<1>0. \A s \in SUBSET T : /\ g[s] = IF s = {} THEN 0 ELSE w[AnyOf(s)] + g[s \ {AnyOf(s)}]
                          /\ h[s] = IF s = {} THEN 0 ELSE w[AnyOf(s)] + h[s \ {AnyOf(s)}]
                          /\ s # {} => AnyOf(s) \in s
  BY DEF IsSum, AnyOf
<1>1. 0 \in N
  <2>1. ASSUME NEW s \in SUBSET T, Cardinality(s) <= 0 PROVE s = {}
    <3>1. ASSUME NEW x \in s PROVE FALSE
      <4>1. Cardinality(s) \in Nat \ {0}
        BY OneLess
      <4> QED BY <2>1, <4>1
    <3> QED BY <3>1
  <2> QED BY <1>0, <2>1
<1>2. ASSUME NEW n \in Nat, n \in N PROVE n + 1 \in N
  <2> SUFFICES ASSUME NEW s \in SUBSET T, Cardinality(s) <= n + 1, s # {}
               PROVE  g[s] = h[s]
    <3>1. {} \in SUBSET T
      OBVIOUS
    <3>2. g[{}] = h[{}]
      BY <1>0, <3>1
    <3> QED BY <3>2
  <2>1. AnyOf(s) \in s /\ s \in SUBSET S
    BY <1>0
  <2>2. Cardinality(s \ {AnyOf(s)}) <= n
    <3>1. Cardinality(s) \in Nat \ {0} /\ Cardinality(s \ {AnyOf(s)}) = Cardinality(s) - 1
      BY <2>1, OneLess
    <3> QED BY <3>1
  <2>3. g[s \ {AnyOf(s)}] = h[s \ {AnyOf(s)}]
    BY <1>2, <2>2
  <2> QED BY <1>0, <2>3
<1>3. Cardinality(T) \in Nat /\ Cardinality(T) \in N
  <2>1. Cardinality(T) \in Nat /\ IsFiniteSet(T)
    BY FS_CardinalityType, FS_Subset
  <2> HIDE DEF N
  <2> QED BY <1>1, <1>2, <2>1, InductionOnNat
<1>4. \A s \in SUBSET T : Cardinality(s) <= Cardinality(T)
  <2>1. IsFiniteSet(T)
    BY FS_Subset
  <2> QED BY <2>1, FS_Subset
<1> QED BY <1>3, <1>4

\* A sum (SumFunctionOnSet) is what the recursion gives for the whole set.
LEMMA SumByRecursion ==
    ASSUME NEW S, IsFiniteSet(S), NEW w
    PROVE  \E g : IsSum(g, w, S) /\ SumFunctionOnSet(w, S) = g[S]
<1> DEFINE g == CHOOSE g : IsSum(g, w, S)
<1>1. IsSum(g, w, S)
  BY SumExists
<1>2. SumFunctionOnSet(w, S) = g[S]
  BY DEF SumFunctionOnSet, FoldFunctionOnSet, MapThenFoldSet, IsSum, AnyOf
<1> QED BY <1>1, <1>2

\* The sum over a finite set of integers.
LEMMA SumFacts ==
    ASSUME NEW S, IsFiniteSet(S), NEW w, \A x \in S : w[x] \in Int
    PROVE  /\ SumFunctionOnSet(w, {}) = 0
           /\ SumFunctionOnSet(w, S) \in Int
           /\ \A x \in S : SumFunctionOnSet(w, S) = w[x] + SumFunctionOnSet(w, S \ {x})
<1>1. PICK g : IsSum(g, w, S) /\ SumFunctionOnSet(w, S) = g[S]
  BY SumByRecursion
<1>2. g[S] \in Int /\ \A x \in S : g[S] = w[x] + g[S \ {x}]
  BY <1>1, SumTakesOut
<1>3. \A T \in SUBSET S : SumFunctionOnSet(w, T) = g[T]
  <2> TAKE T \in SUBSET S
  <2>1. IsFiniteSet(T)
    BY FS_Subset
  <2>2. PICK h : IsSum(h, w, T) /\ SumFunctionOnSet(w, T) = h[T]
    BY <2>1, SumByRecursion
  <2> QED BY <1>1, <2>2, SumsAgree
<1>4. g[{}] = 0
  BY <1>1 DEF IsSum
<1> QED BY <1>1, <1>2, <1>3, <1>4
=============================================================================
