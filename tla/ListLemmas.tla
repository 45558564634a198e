----------------------------- MODULE ListLemmas -----------------------------
(***************************************************************************)
(* What the operations of the code's lists - append, insert at an index,   *)
(* erase an element, find the first that passes a test - return, for lists *)
(* of any length.                                                          *)
(***************************************************************************)
EXTENDS Integers, Sequences, SequencesExt, SequenceTheorems,
        WellFoundedInduction, TLAPS

\* The least element of a non-empty set of natural numbers.
LEMMA MinFacts ==
    ASSUME NEW I \in SUBSET Nat, I # {}
    PROVE  Min(I) \in I /\ \A i \in I : Min(I) <= i
  <1>1. PICK x \in I : \A y \in I : ~ (<<y, x>> \in OpToRel(<, Nat))
    BY NatLessThanWellFounded, WFMin
  <1>2. \A y \in I : x <= y
    <2> TAKE y \in I
    <2>1. x \in Nat /\ y \in Nat
      OBVIOUS
    <2>2. <<y, x>> \notin OpToRel(<, Nat)
      BY <1>1
    <2>3. ~ (y < x)
      BY <2>1, <2>2 DEF OpToRel
    <2> QED
      BY <2>1, <2>3
  <1> QED
    BY <1>2 DEF Min

\* Erasing the k-th element of a sequence.
LEMMA RemoveAtFacts ==
    ASSUME NEW S, NEW s \in Seq(S), NEW k \in 1..Len(s)
    PROVE  /\ RemoveAt(s, k) \in Seq(S)
           /\ Len(RemoveAt(s, k)) = Len(s) - 1
           /\ \A j \in 1..(Len(s) - 1) :
                RemoveAt(s, k)[j] = IF j < k THEN s[j] ELSE s[j + 1]
  <1> DEFINE a == SubSeq(s, 1, k - 1)
             b == SubSeq(s, k + 1, Len(s))
  <1>0. Len(s) \in Nat
    OBVIOUS
  <1>1. a \in Seq(S) /\ Len(a) = k - 1 /\ \A j \in 1..(k - 1) : a[j] = s[j]
    OBVIOUS
  <1>2. /\ b \in Seq(S) /\ Len(b) = Len(s) - k
        /\ \A j \in 1..(Len(s) - k) : b[j] = s[k + j]
    OBVIOUS
  <1>3. RemoveAt(s, k) = a \o b
    BY DEF RemoveAt
  <1> HIDE DEF a, b
  <1>4. a \o b \in Seq(S) /\ Len(a \o b) = Len(s) - 1
    <2>1. a \o b \in Seq(S) /\ Len(a \o b) = Len(a) + Len(b)
      BY <1>1, <1>2, ConcatProperties
    <2> QED
      BY <2>1, <1>0, <1>1, <1>2
  <1>5. ASSUME NEW j \in 1..(Len(s) - 1)
        PROVE  (a \o b)[j] = IF j < k THEN s[j] ELSE s[j + 1]
    <2>1. (a \o b)[j] = IF j <= Len(a) THEN a[j] ELSE b[j - Len(a)]
      BY <1>0, <1>1, <1>2, <1>4, ConcatProperties
    <2> QED
      BY <2>1, <1>0, <1>1, <1>2
  <1> QED
    BY <1>3, <1>4, <1>5

\* Inserting an element before the k-th one, or at the end.
LEMMA InsertAtFacts ==
    ASSUME NEW S, NEW s \in Seq(S), NEW k \in 1..(Len(s) + 1), NEW e \in S
    PROVE  /\ InsertAt(s, k, e) \in Seq(S)
           /\ Len(InsertAt(s, k, e)) = Len(s) + 1
           /\ \A j \in 1..(Len(s) + 1) :
                InsertAt(s, k, e)[j] = IF j < k THEN s[j] ELSE IF j = k THEN e ELSE s[j - 1]
  <1> DEFINE a == SubSeq(s, 1, k - 1)
             b == SubSeq(s, k, Len(s))
             ae == a \o <<e>>
  <1>0. Len(s) \in Nat /\ <<e>> \in Seq(S) /\ Len(<<e>>) = 1 /\ <<e>>[1] = e
    OBVIOUS
  <1>1. a \in Seq(S) /\ Len(a) = k - 1 /\ \A j \in 1..(k - 1) : a[j] = s[j]
    OBVIOUS
  <1>2. /\ b \in Seq(S) /\ Len(b) = Len(s) - k + 1
        /\ \A j \in 1..(Len(s) - k + 1) : b[j] = s[k + j - 1]
    OBVIOUS
  <1>3. InsertAt(s, k, e) = ae \o b
    BY DEF InsertAt
  <1> HIDE DEF a, b
  <1>4. ae \in Seq(S) /\ Len(ae) = k /\ \A j \in 1..k : ae[j] = IF j < k THEN s[j] ELSE e
    <2>1. /\ ae \in Seq(S) /\ Len(ae) = Len(a) + 1
          /\ \A j \in 1..(Len(a) + 1) : ae[j] = IF j <= Len(a) THEN a[j] ELSE <<e>>[j - Len(a)]
      BY <1>0, <1>1, ConcatProperties
    <2> QED
      BY <2>1, <1>0, <1>1
  <1> HIDE DEF ae
  <1>5. ae \o b \in Seq(S) /\ Len(ae \o b) = Len(s) + 1
    <2>1. ae \o b \in Seq(S) /\ Len(ae \o b) = Len(ae) + Len(b)
      BY <1>4, <1>2, ConcatProperties
    <2> QED
      BY <2>1, <1>0, <1>4, <1>2
  <1>6. ASSUME NEW j \in 1..(Len(s) + 1)
        PROVE  (ae \o b)[j] = IF j < k THEN s[j] ELSE IF j = k THEN e ELSE s[j - 1]
    <2>1. (ae \o b)[j] = IF j <= Len(ae) THEN ae[j] ELSE b[j - Len(ae)]
      BY <1>0, <1>4, <1>2, <1>5, ConcatProperties
    <2> QED
      BY <2>1, <1>0, <1>4, <1>2
  <1> QED
    BY <1>3, <1>5, <1>6

\* The elements of a sequence are the values at its indices.
LEMMA ToSetFacts ==
    ASSUME NEW S, NEW s \in Seq(S)
    PROVE  /\ ToSet(s) = {s[i] : i \in 1..Len(s)}
           /\ ToSet(s) \subseteq S
           /\ \A e : Contains(s, e) <=> e \in ToSet(s)
  BY DEF ToSet, Contains

\* Appending an element to a sequence.
LEMMA AppendFacts ==
    ASSUME NEW S, NEW s \in Seq(S), NEW e \in S
    PROVE  /\ Append(s, e) \in Seq(S) /\ Len(Append(s, e)) = Len(s) + 1
           /\ \A j \in 1..Len(s) : Append(s, e)[j] = s[j]
           /\ Append(s, e)[Len(s) + 1] = e
           /\ ToSet(Append(s, e)) = ToSet(s) \cup {e}
  <1>1. /\ Append(s, e) \in Seq(S) /\ Len(Append(s, e)) = Len(s) + 1 /\ Len(s) \in Nat
        /\ \A j \in 1..Len(s) : Append(s, e)[j] = s[j]
        /\ Append(s, e)[Len(s) + 1] = e
    OBVIOUS
  <1>2. /\ ToSet(s) = {s[i] : i \in 1..Len(s)}
        /\ ToSet(Append(s, e)) = {Append(s, e)[i] : i \in 1..(Len(s) + 1)}
    <2>1. ToSet(s) = {s[i] : i \in 1..Len(s)}
      BY ToSetFacts
    <2>2. ToSet(Append(s, e)) = {Append(s, e)[i] : i \in 1..Len(Append(s, e))}
      BY <1>1, ToSetFacts
    <2> QED
      BY <1>1, <2>1, <2>2
  <1> DEFINE new == Append(s, e)
  <1>3. ToSet(Append(s, e)) \subseteq ToSet(s) \cup {e}
    <2>1. \A i \in 1..(Len(s) + 1) : i \in 1..Len(s) \/ i = Len(s) + 1
      BY <1>1
    <2>2. \A i \in 1..(Len(s) + 1) : new[i] \in ToSet(s) \cup {e}
      <3> HIDE DEF new
      <3> QED
        BY <1>1, <1>2, <2>1 DEF new
    <2> QED
      BY <1>2, <2>2
  <1>4. ToSet(s) \cup {e} \subseteq ToSet(Append(s, e))
    <2>1. \A i \in 1..Len(s) : s[i] \in ToSet(Append(s, e))
      BY <1>1, <1>2
    <2>2. e \in ToSet(Append(s, e))
      BY <1>1, <1>2
    <2> QED
      BY <1>2, <2>1, <2>2
  <1> QED
    BY <1>1, <1>3, <1>4

\* Erasing an element from a sequence that has no element twice: exactly that
\* element goes, and the others keep their order.
LEMMA RemoveFirstFacts ==
    ASSUME NEW S, NEW s \in Seq(S), NEW e, IsInjective(s)
    PROVE  /\ RemoveFirst(s, e) \in Seq(S)
           /\ ToSet(RemoveFirst(s, e)) = ToSet(s) \ {e}
           /\ e \notin ToSet(s) => RemoveFirst(s, e) = s
           /\ \A i, j \in 1..Len(RemoveFirst(s, e)) : i < j =>
                \E k, l \in 1..Len(s) : /\ k < l
                                        /\ RemoveFirst(s, e)[i] = s[k]
                                        /\ RemoveFirst(s, e)[j] = s[l]
           /\ IsInjective(RemoveFirst(s, e))
  <1> DEFINE r == RemoveFirst(s, e)
  <1>0. Len(s) \in Nat /\ DOMAIN s = 1..Len(s) /\ ToSet(s) = {s[i] : i \in 1..Len(s)}
    BY ToSetFacts
  <1>1. CASE e \notin ToSet(s)
    <2>1. r = s
      BY <1>0, <1>1 DEF RemoveFirst
    <2> QED
      BY <1>0, <1>1, <2>1
  <1>2. CASE e \in ToSet(s)
    <2> DEFINE I == {i \in 1..Len(s) : s[i] = e}
               k == Min(I)
    <2>1. I # {} /\ I \in SUBSET Nat
      BY <1>0, <1>2
    <2>2. k \in 1..Len(s) /\ s[k] = e
      BY <2>1, MinFacts
    <2>3. r = RemoveAt(s, k)
      BY <1>0, <2>1 DEF RemoveFirst, SelectInSeq
    <2> HIDE DEF k, I
    <2>4. /\ r \in Seq(S) /\ Len(r) = Len(s) - 1
          /\ \A j \in 1..(Len(s) - 1) : r[j] = IF j < k THEN s[j] ELSE s[j + 1]
      BY <2>2, <2>3, RemoveAtFacts
    <2>5. ToSet(r) = {r[i] : i \in 1..Len(r)} /\ DOMAIN r = 1..Len(r)
      BY <2>4, ToSetFacts
    <2> HIDE DEF r
    <2>6. \A i \in 1..Len(s) : s[i] = e => i = k
      BY <1>0, <2>2 DEF IsInjective
    <2>7. ToSet(r) \subseteq ToSet(s) \ {e}
      <3> SUFFICES ASSUME NEW i \in 1..Len(r) PROVE r[i] \in ToSet(s) \ {e}
        BY <2>5
      <3>1. PICK j \in 1..Len(s) : j # k /\ r[i] = s[j]
        BY <1>0, <2>2, <2>4
      <3> QED
        BY <1>0, <2>6, <3>1
    <2>8. ToSet(s) \ {e} \subseteq ToSet(r)
      <3> SUFFICES ASSUME NEW i \in 1..Len(s), s[i] # e PROVE s[i] \in ToSet(r)
        BY <1>0
      <3>1. i # k
        BY <2>2
      <3>2. PICK j \in 1..Len(r) : r[j] = s[i]
        <4>1. CASE i < k
          BY <4>1, <1>0, <2>2, <2>4
        <4>2. CASE i > k
          <5>1. i - 1 \in 1..Len(r) /\ ~ (i - 1 < k)
            BY <4>2, <1>0, <2>2, <2>4
          <5>2. r[i - 1] = s[i - 1 + 1]
            BY <5>1, <2>4
          <5> QED
            BY <5>1, <5>2
        <4> QED
          BY <3>1, <4>1, <4>2, <2>2, <1>0
      <3> QED
        BY <2>5, <3>2
    <2>9. ASSUME NEW i \in 1..Len(r), NEW j \in 1..Len(r), i < j
          PROVE  \E m, l \in 1..Len(s) : m < l /\ r[i] = s[m] /\ r[j] = s[l]
      <3>1. /\ (IF i < k THEN i ELSE i + 1) \in 1..Len(s)
            /\ (IF j < k THEN j ELSE j + 1) \in 1..Len(s)
            /\ (IF i < k THEN i ELSE i + 1) < (IF j < k THEN j ELSE j + 1)
        BY <1>0, <2>2, <2>4, <2>9
      <3>2. /\ r[i] = s[IF i < k THEN i ELSE i + 1]
            /\ r[j] = s[IF j < k THEN j ELSE j + 1]
        BY <2>4
      <3> QED
        BY <3>1, <3>2
    <2>10. IsInjective(r)
      <3> SUFFICES ASSUME NEW i \in 1..Len(r), NEW j \in 1..Len(r), r[i] = r[j]
                   PROVE  i = j
        BY <2>5 DEF IsInjective
      <3>1. i < j \/ j < i \/ i = j
        BY <2>4, <1>0
      <3>2. ASSUME i < j PROVE FALSE
        <4>1. PICK m, l \in 1..Len(s) : m < l /\ r[i] = s[m] /\ r[j] = s[l]
          BY <3>2, <2>9
        <4>2. s[m] = s[l]
          BY <4>1
        <4>3. m # l
          BY <4>1, <1>0
        <4> QED
          BY <4>2, <4>3, <1>0 DEF IsInjective
      <3>3. ASSUME j < i PROVE FALSE
        <4>1. PICK m, l \in 1..Len(s) : m < l /\ r[j] = s[m] /\ r[i] = s[l]
          BY <3>3, <2>9
        <4>2. s[m] = s[l]
          BY <4>1
        <4>3. m # l
          BY <4>1, <1>0
        <4> QED
          BY <4>2, <4>3, <1>0 DEF IsInjective
      <3> QED
        BY <3>1, <3>2, <3>3
    <2>11. ToSet(r) = ToSet(s) \ {e}
      BY <2>7, <2>8
    <2>12. r \in Seq(S)
      BY <2>4
    <2>13. \A i, j \in 1..Len(r) : i < j =>
             \E m, l \in 1..Len(s) : m < l /\ r[i] = s[m] /\ r[j] = s[l]
      BY <2>9
    <2> QED
      BY <1>2, <2>10, <2>11, <2>12, <2>13 DEF r
  <1> QED
    BY <1>1, <1>2

\* Appending an element that is not there keeps a sequence without repetition.
LEMMA AppendKeepsInjective ==
    ASSUME NEW S, NEW s \in Seq(S), NEW e \in S, IsInjective(s), e \notin ToSet(s)
    PROVE  IsInjective(Append(s, e))
  <1> DEFINE longer == Append(s, e)
  <1>1. /\ longer \in Seq(S) /\ Len(longer) = Len(s) + 1 /\ Len(s) \in Nat
        /\ \A j \in 1..Len(s) : longer[j] = s[j]
        /\ longer[Len(s) + 1] = e
    BY AppendFacts
  <1>2. ToSet(s) = {s[i] : i \in 1..Len(s)} /\ DOMAIN s = 1..Len(s)
    BY ToSetFacts
  <1>3. DOMAIN longer = 1..(Len(s) + 1)
    BY <1>1
  <1> HIDE DEF longer
  <1>4. ASSUME NEW i \in 1..(Len(s) + 1), NEW j \in 1..(Len(s) + 1), longer[i] = longer[j]
        PROVE  i = j
    <2>1. CASE i \in 1..Len(s) /\ j \in 1..Len(s)
      <3>1. s[i] = s[j]
        BY <1>1, <1>4, <2>1
      <3> QED
        BY <1>2, <2>1, <3>1 DEF IsInjective
    <2>2. CASE i = Len(s) + 1 /\ j \in 1..Len(s)
      BY <1>1, <1>2, <1>4, <2>2
    <2>3. CASE i \in 1..Len(s) /\ j = Len(s) + 1
      BY <1>1, <1>2, <1>4, <2>3
    <2>4. CASE i = Len(s) + 1 /\ j = Len(s) + 1
      BY <2>4
    <2> QED
      BY <1>1, <2>1, <2>2, <2>3, <2>4
  <1> QED
    BY <1>3, <1>4 DEF IsInjective, longer

\* Erasing the first occurrence of an element, whether or not there is another.
LEMMA RemoveFirstType ==
    ASSUME NEW S, NEW s \in Seq(S), NEW e
    PROVE  /\ RemoveFirst(s, e) \in Seq(S)
           /\ Len(RemoveFirst(s, e)) = IF e \in ToSet(s) THEN Len(s) - 1 ELSE Len(s)
  <1>0. Len(s) \in Nat /\ ToSet(s) = {s[i] : i \in 1..Len(s)}
    BY ToSetFacts
  <1>1. CASE e \notin ToSet(s)
    BY <1>0, <1>1 DEF RemoveFirst
  <1>2. CASE e \in ToSet(s)
    <2> DEFINE I == {i \in 1..Len(s) : s[i] = e}
               k == Min(I)
    <2>1. I # {} /\ I \in SUBSET Nat
      BY <1>0, <1>2
    <2>2. k \in 1..Len(s)
      BY <2>1, MinFacts
    <2>3. RemoveFirst(s, e) = RemoveAt(s, k)
      BY <1>0, <2>1 DEF RemoveFirst, SelectInSeq
    <2> QED
      BY <1>2, <2>2, <2>3, RemoveAtFacts
  <1> QED
    BY <1>1, <1>2

\* A sequence that is not empty is its front with the last element appended.
LEMMA FrontFacts ==
    ASSUME NEW S, NEW s \in Seq(S), s # <<>>
    PROVE  /\ Front(s) \in Seq(S) /\ Len(Front(s)) = Len(s) - 1
           /\ Len(s) \in Nat \ {0}
           /\ \A i \in 1..(Len(s) - 1) : Front(s)[i] = s[i]
           /\ Last(s) = s[Len(s)] /\ Last(s) \in S
           /\ ToSet(s) = ToSet(Front(s)) \cup {Last(s)}
  <1>1. Len(s) \in Nat \ {0}
    BY EmptySeq
  <1>2. /\ Front(s) \in Seq(S) /\ Len(Front(s)) = Len(s) - 1
        /\ \A i \in 1..(Len(s) - 1) : Front(s)[i] = s[i]
    <2>1. Front(s) = SubSeq(s, 1, Len(s) - 1)
      BY DEF Front
    <2>2. ASSUME NEW n \in 1..Len(s)
          PROVE  /\ SubSeq(s, 1, n - 1) \in Seq(S) /\ Len(SubSeq(s, 1, n - 1)) = n - 1
                 /\ \A i \in 1..(n - 1) : SubSeq(s, 1, n - 1)[i] = s[i]
      OBVIOUS
    <2>3. Len(s) \in 1..Len(s)
      BY <1>1
    <2>4. /\ SubSeq(s, 1, Len(s) - 1) \in Seq(S) /\ Len(SubSeq(s, 1, Len(s) - 1)) = Len(s) - 1
          /\ \A i \in 1..(Len(s) - 1) : SubSeq(s, 1, Len(s) - 1)[i] = s[i]
      BY <2>2, <2>3, Zenon
    <2> QED
      BY <2>1, <2>4, Zenon
  <1>3. Last(s) = s[Len(s)] /\ Last(s) \in S
    BY <1>1 DEF Last
  <1>4. /\ ToSet(s) = {s[i] : i \in 1..Len(s)}
        /\ ToSet(Front(s)) = {Front(s)[i] : i \in 1..(Len(s) - 1)}
    BY <1>2, ToSetFacts
  <1>5. \A i \in 1..Len(s) : i \in 1..(Len(s) - 1) \/ i = Len(s)
    BY <1>1
  <1>6. \A i \in 1..(Len(s) - 1) : i \in 1..Len(s)
    BY <1>1
  <1>7. ToSet(s) = ToSet(Front(s)) \cup {Last(s)}
    BY <1>1, <1>2, <1>3, <1>4, <1>5, <1>6
  <1> QED
    BY <1>1, <1>2, <1>3, <1>7

\* All but the last of a list without repetitions.
LEMMA FrontOfInjective ==
    ASSUME NEW S, NEW s \in Seq(S), s # <<>>, IsInjective(s)
    PROVE  /\ IsInjective(Front(s)) /\ ToSet(Front(s)) = ToSet(s) \ {Last(s)}
  <1>1. /\ Front(s) \in Seq(S) /\ Len(Front(s)) = Len(s) - 1
        /\ Len(s) \in Nat \ {0}
        /\ \A i \in 1..(Len(s) - 1) : Front(s)[i] = s[i]
        /\ Last(s) = s[Len(s)]
        /\ ToSet(s) = ToSet(Front(s)) \cup {Last(s)}
    BY FrontFacts
  <1>2. DOMAIN s = 1..Len(s) /\ DOMAIN Front(s) = 1..(Len(s) - 1)
    BY <1>1
  <1>3. \A i, j \in 1..Len(s) : s[i] = s[j] => i = j
    BY <1>2 DEF IsInjective
  <1>4. \A i \in 1..(Len(s) - 1) : i \in 1..Len(s) /\ i # Len(s) /\ Len(s) \in 1..Len(s)
    BY <1>1
  <1>5. IsInjective(Front(s))
    BY <1>1, <1>2, <1>3, <1>4 DEF IsInjective
  <1>6. ToSet(Front(s)) = {Front(s)[i] : i \in 1..(Len(s) - 1)}
    BY <1>1, ToSetFacts
  <1>7. Last(s) \notin ToSet(Front(s))
    BY <1>1, <1>3, <1>4, <1>6
  <1> QED
    BY <1>1, <1>5, <1>7

\* The head of a sequence that is not empty is one of its elements.
LEMMA HeadFacts ==
    ASSUME NEW S, NEW s \in Seq(S), s # <<>>
    PROVE  /\ Head(s) = s[1] /\ Head(s) \in S /\ Head(s) \in ToSet(s)
           /\ Len(s) \in Nat \ {0}
  <1>1. Len(s) \in Nat \ {0}
    BY EmptySeq
  <1>2. ToSet(s) = {s[i] : i \in 1..Len(s)}
    BY ToSetFacts
  <1> QED
    BY <1>1, <1>2

\* A list without its head, no element standing in it twice.
LEMMA TailSetFacts ==
    ASSUME NEW S, NEW s \in Seq(S), s # <<>>, IsInjective(s)
    PROVE  Tail(s) \in Seq(S) /\ IsInjective(Tail(s)) /\ ToSet(Tail(s)) = ToSet(s) \ {Head(s)}
  <1> DEFINE t == Tail(s)
             n == Len(s)
  <1>1. n \in Nat \ {0} /\ Head(s) = s[1]
    BY HeadFacts
  <1>2. t \in Seq(S) /\ Len(t) = n - 1 /\ \A i \in 1..(n - 1) : t[i] = s[i + 1]
    BY <1>1
  <1>3. /\ DOMAIN s = 1..n /\ DOMAIN t = 1..(n - 1)
        /\ \A i, j \in 1..n : s[i] = s[j] => i = j
    BY <1>1, <1>2 DEF IsInjective
  <1>4. ToSet(s) = {s[i] : i \in 1..n} /\ ToSet(t) = {t[i] : i \in 1..(n - 1)}
    <2> HIDE DEF t
    <2> QED
      BY <1>2, ToSetFacts
  <1> HIDE DEF t
  <1>5. IsInjective(t)
    <2>1. ASSUME NEW i \in 1..(n - 1), NEW j \in 1..(n - 1), t[i] = t[j] PROVE i = j
      <3>1. i + 1 \in 1..n /\ j + 1 \in 1..n /\ s[i + 1] = s[j + 1]
        BY <1>1, <1>2, <2>1
      <3> QED
        BY <1>3, <3>1
    <2> QED
      BY <1>3, <2>1 DEF IsInjective
  <1>6. ASSUME NEW y \in ToSet(t) PROVE y \in ToSet(s) \ {s[1]}
    <2>1. PICK i \in 1..(n - 1) : y = s[i + 1]
      BY <1>2, <1>4
    <2>2. i + 1 \in 1..n /\ 1 \in 1..n /\ i + 1 # 1
      BY <1>1
    <2> QED
      BY <1>3, <1>4, <2>1, <2>2
  <1>7. ASSUME NEW y \in ToSet(s) \ {s[1]} PROVE y \in ToSet(t)
    <2>1. PICK i \in 1..n : y = s[i]
      BY <1>4
    <2>2. i # 1 /\ i - 1 \in 1..(n - 1) /\ (i - 1) + 1 = i
      BY <1>1, <1>7, <2>1
    <2> QED
      BY <1>2, <1>4, <2>1, <2>2
  <1> QED
    BY <1>1, <1>2, <1>5, <1>6, <1>7 DEF t

\* The empty list is the one with no element.
LEMMA EmptyIffNoElement ==
    ASSUME NEW S, NEW s \in Seq(S)
    PROVE  s = <<>> <=> ToSet(s) = {}
  <1>1. ToSet(s) = {s[i] : i \in 1..Len(s)}
    BY ToSetFacts
  <1>2. s # <<>> => Len(s) \in Nat \ {0}
    BY EmptySeq
  <1>3. s = <<>> => Len(s) = 0
    BY EmptySeq
  <1> QED
    BY <1>1, <1>2, <1>3

\* Two sequences one after the other.
LEMMA ConcatFacts ==
    ASSUME NEW S, NEW s \in Seq(S), NEW t \in Seq(S)
    PROVE  /\ s \o t \in Seq(S) /\ ToSet(s \o t) = ToSet(s) \cup ToSet(t)
           /\ IsInjective(s) /\ IsInjective(t) /\ ToSet(s) \cap ToSet(t) = {}
                => IsInjective(s \o t)
  <1> DEFINE c == s \o t
             m == Len(s)
             n == Len(t)
  <1>1. /\ c \in Seq(S) /\ Len(c) = m + n /\ m \in Nat /\ n \in Nat
        /\ \A i \in 1..(m + n) : c[i] = IF i <= m THEN s[i] ELSE t[i - m]
    BY ConcatProperties
  <1>2. /\ ToSet(s) = {s[i] : i \in 1..m} /\ ToSet(t) = {t[i] : i \in 1..n}
        /\ DOMAIN s = 1..m /\ DOMAIN t = 1..n /\ DOMAIN c = 1..(m + n)
        /\ ToSet(c) = {c[i] : i \in 1..(m + n)}
    <2>1. ToSet(s) = {s[i] : i \in 1..m} /\ DOMAIN s = 1..m
      BY ToSetFacts
    <2>2. ToSet(t) = {t[i] : i \in 1..n} /\ DOMAIN t = 1..n
      BY ToSetFacts
    <2>3. ToSet(c) = {c[i] : i \in 1..Len(c)} /\ DOMAIN c = 1..Len(c)
      <3>1. c \in Seq(S)
        BY <1>1
      <3> HIDE DEF c
      <3>2. DOMAIN c = 1..Len(c)
        BY <3>1
      <3>3. ToSet(c) = {c[i] : i \in 1..Len(c)}
        BY <3>1, ToSetFacts
      <3> QED
        BY <3>2, <3>3
    <2> QED
      BY <1>1, <2>1, <2>2, <2>3
  <1> HIDE DEF c, m, n
  <1>3. \A i \in 1..(m + n) : \/ i \in 1..m /\ c[i] = s[i]
                              \/ i - m \in 1..n /\ c[i] = t[i - m] /\ i > m
    BY <1>1
  <1>4. \A i \in 1..m : i \in 1..(m + n) /\ c[i] = s[i]
    BY <1>1
  <1>5. ASSUME NEW i \in 1..n PROVE m + i \in 1..(m + n) /\ c[m + i] = t[i]
    BY <1>1
  <1>6. ToSet(c) = ToSet(s) \cup ToSet(t)
    <2>1. ToSet(c) \subseteq ToSet(s) \cup ToSet(t)
      BY <1>2, <1>3
    <2>2. ToSet(s) \subseteq ToSet(c)
      BY <1>2, <1>4
    <2>3. ToSet(t) \subseteq ToSet(c)
      BY <1>2, <1>5
    <2> QED
      BY <2>1, <2>2, <2>3
  <1>7. ASSUME IsInjective(s), IsInjective(t), ToSet(s) \cap ToSet(t) = {}
        PROVE  IsInjective(c)
    <2> SUFFICES ASSUME NEW i \in 1..(m + n), NEW j \in 1..(m + n), c[i] = c[j]
                 PROVE  i = j
      BY <1>2 DEF IsInjective
    <2>1. CASE i \in 1..m /\ j \in 1..m
      BY <1>2, <1>4, <1>7, <2>1 DEF IsInjective
    <2>2. CASE i \in 1..m /\ j \notin 1..m
      BY <1>2, <1>3, <1>4, <1>7, <2>2
    <2>3. CASE i \notin 1..m /\ j \in 1..m
      BY <1>2, <1>3, <1>4, <1>7, <2>3
    <2>4. CASE i \notin 1..m /\ j \notin 1..m
      <3>1. /\ i - m \in 1..n /\ j - m \in 1..n /\ t[i - m] = t[j - m]
        BY <1>3, <2>4
      <3>2. i - m = j - m
        BY <1>2, <1>7, <3>1 DEF IsInjective
      <3> QED
        BY <1>1, <3>2
    <2> QED
      BY <2>1, <2>2, <2>3, <2>4
  <1> QED
    BY <1>1, <1>6, <1>7 DEF c

\* Moving an element of a list without repetition to another place.
LEMMA MovedFacts ==
    ASSUME NEW S, NEW s \in Seq(S), NEW x \in ToSet(s), NEW k \in 1..Len(s), IsInjective(s)
    PROVE  /\ InsertAt(RemoveFirst(s, x), k, x) \in Seq(S)
           /\ ToSet(InsertAt(RemoveFirst(s, x), k, x)) = ToSet(s)
           /\ IsInjective(InsertAt(RemoveFirst(s, x), k, x))
  <1> DEFINE r == RemoveFirst(s, x)
             t == InsertAt(r, k, x)
             n == Len(s)
  <1>1. /\ r \in Seq(S) /\ ToSet(r) = ToSet(s) \ {x} /\ IsInjective(r)
        /\ Len(r) = n - 1 /\ n \in Nat
    BY RemoveFirstFacts, RemoveFirstType
  <1>2. x \in S
    BY ToSetFacts
  <1> HIDE DEF r, n
  <1>3. k \in 1..(Len(r) + 1)
    BY <1>1 DEF n
  <1>4. /\ t \in Seq(S) /\ Len(t) = n
        /\ \A j \in 1..n : t[j] = IF j < k THEN r[j] ELSE IF j = k THEN x ELSE r[j - 1]
    <2>1. /\ t \in Seq(S) /\ Len(t) = Len(r) + 1
          /\ \A j \in 1..(Len(r) + 1) : t[j] = IF j < k THEN r[j] ELSE IF j = k THEN x ELSE r[j - 1]
      <3>1. r \in Seq(S)
        BY <1>1
      <3> QED
        BY <1>2, <1>3, <3>1, InsertAtFacts, SMTT(30)
    <2>2. Len(r) + 1 = n
      BY <1>1
    <2> QED
      BY <2>1, <2>2
  <1> HIDE DEF t
  <1>5. /\ ToSet(r) = {r[j] : j \in 1..(n - 1)} /\ ToSet(t) = {t[j] : j \in 1..n}
        /\ DOMAIN r = 1..(n - 1) /\ DOMAIN t = 1..n
    BY <1>1, <1>4, ToSetFacts
  <1>6. k \in 1..n /\ t[k] = x
    BY <1>1, <1>3, <1>4
  <1>7. ASSUME NEW j \in 1..n, j # k
        PROVE  \E i \in 1..(n - 1) : t[j] = r[i] /\ i = IF j < k THEN j ELSE j - 1
    BY <1>1, <1>4, <1>6, <1>7
  <1>8. ASSUME NEW i \in 1..(n - 1)
        PROVE  \E j \in 1..n : t[j] = r[i]
    <2>1. CASE i < k
      BY <1>1, <1>4, <1>6, <2>1
    <2>2. CASE ~(i < k)
      <3>1. i + 1 \in 1..n /\ ~(i + 1 < k) /\ i + 1 # k /\ i + 1 - 1 = i
        BY <1>1, <1>6, <2>2
      <3> QED
        BY <1>4, <3>1
    <2> QED
      BY <2>1, <2>2
  <1>9. ToSet(t) = ToSet(r) \cup {x}
    BY <1>5, <1>6, <1>7, <1>8
  <1>10. IsInjective(t)
    <2> SUFFICES ASSUME NEW a \in 1..n, NEW b \in 1..n, t[a] = t[b]
                 PROVE  a = b
      BY <1>5 DEF IsInjective
    <2>1. x \notin {r[j] : j \in 1..(n - 1)}
      BY <1>1, <1>5
    <2>2. CASE a = k \/ b = k
      BY <1>6, <1>7, <2>1, <2>2
    <2>3. CASE a # k /\ b # k
      <3>1. PICK i \in 1..(n - 1) : t[a] = r[i] /\ i = IF a < k THEN a ELSE a - 1
        BY <1>7, <2>3
      <3>2. PICK j \in 1..(n - 1) : t[b] = r[j] /\ j = IF b < k THEN b ELSE b - 1
        BY <1>7, <2>3
      <3>3. i = j
        BY <1>1, <1>5, <3>1, <3>2 DEF IsInjective
      <3> QED
        BY <1>6, <2>3, <3>1, <3>2, <3>3
    <2> QED
      BY <2>2, <2>3
  <1> QED
    BY <1>1, <1>4, <1>9, <1>10 DEF t, r

=============================================================================
