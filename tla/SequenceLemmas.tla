---------------------------- MODULE SequenceLemmas ----------------------------
(***************************************************************************)
(* What the proofs keep needing of the queues and lists of the models:     *)
(* taking an element out, putting one at the head, each in terms of the    *)
(* places of the sequence.                                                 *)
(***************************************************************************)
EXTENDS Integers, Sequences, FiniteSets, SequencesExt, FiniteSetTheorems, SequenceTheorems, TLAPS

\* Removing an element keeps the others, in their order.
LEMMA Removed ==
  ASSUME NEW S, NEW q \in Seq(S), NEW i \in DOMAIN q
  PROVE  LET r == RemoveAt(q, i) IN
         /\ r \in Seq(S) /\ Len(r) = Len(q) - 1
         /\ \A j \in 1..(Len(q) - 1) : r[j] = IF j < i THEN q[j] ELSE q[j + 1]
<1> DEFINE l == SubSeq(q, 1, i - 1) m == SubSeq(q, i + 1, Len(q)) r == l \o m
<1>1. i \in 1..Len(q) /\ Len(q) \in Nat /\ \A j \in 1..Len(q) : q[j] \in S
  BY LenProperties, ElementOfSeq
<1>2. l \in Seq(S) /\ Len(l) = i - 1 /\ \A j \in 1..(i - 1) : l[j] = q[j]
  BY <1>1, SubSeqProperties
<1>3. m \in Seq(S) /\ Len(m) = Len(q) - i /\ \A j \in 1..(Len(q) - i) : m[j] = q[j + i]
  BY <1>1, SubSeqProperties
<1> HIDE DEF l, m
<1>4. /\ r \in Seq(S) /\ Len(r) = Len(l) + Len(m)
      /\ \A j \in 1..(Len(l) + Len(m)) : r[j] = IF j <= Len(l) THEN l[j] ELSE m[j - Len(l)]
  BY <1>2, <1>3, ConcatProperties
<1> HIDE DEF r
<1>5. ASSUME NEW j \in 1..(Len(q) - 1) PROVE r[j] = IF j < i THEN q[j] ELSE q[j + 1]
  <2>1. i \in Int /\ Len(q) \in Int /\ j \in 1..(Len(l) + Len(m))
    BY <1>1, <1>2, <1>3
  <2>2. r[j] = IF j <= i - 1 THEN l[j] ELSE m[j - (i - 1)]
    BY <1>2, <1>4, <2>1
  <2>3. CASE j < i
    BY <1>2, <2>1, <2>2, <2>3
  <2>4. CASE ~(j < i)
    <3>1. j - (i - 1) \in 1..(Len(q) - i) /\ (j - (i - 1)) + i = j + 1
      BY <1>1, <2>1, <2>4
    <3>2. m[j - (i - 1)] = q[(j - (i - 1)) + i]
      BY <1>3, <3>1
    <3> QED BY <2>1, <2>2, <2>4, <3>1, <3>2
  <2> QED BY <2>3, <2>4
<1>6. Len(r) = Len(q) - 1
  BY <1>1, <1>2, <1>3, <1>4
<1> QED BY <1>4, <1>5, <1>6 DEF r, l, m, RemoveAt

\* The sequence r is q without its place i.
IsWithout(q, i, r) ==
  /\ i \in DOMAIN q
  /\ \E f \in [DOMAIN r -> DOMAIN q] :
       /\ \A j \in DOMAIN r : r[j] = q[f[j]] /\ f[j] # i
       /\ \A j, k \in DOMAIN r : f[j] = f[k] => j = k
       /\ \A n \in DOMAIN q : n # i => \E j \in DOMAIN r : f[j] = n

\* RemoveAt removes a place.
LEMMA RemovedPlace ==
  ASSUME NEW S, NEW q \in Seq(S), NEW i \in DOMAIN q
  PROVE  RemoveAt(q, i) \in Seq(S) /\ IsWithout(q, i, RemoveAt(q, i))
<1> DEFINE r == RemoveAt(q, i)
<1>1. /\ r \in Seq(S) /\ Len(r) = Len(q) - 1
      /\ \A j \in 1..(Len(q) - 1) : r[j] = IF j < i THEN q[j] ELSE q[j + 1]
  BY Removed
<1> HIDE DEF r
<1>2. DOMAIN r = 1..(Len(q) - 1) /\ DOMAIN q = 1..Len(q) /\ Len(q) \in Nat /\ i \in 1..Len(q)
  BY <1>1, LenProperties
<1> DEFINE f == [j \in DOMAIN r |-> IF j < i THEN j ELSE j + 1]
<1>3. f \in [DOMAIN r -> DOMAIN q]
  BY <1>2
<1>4. \A j \in DOMAIN r : r[j] = q[f[j]] /\ f[j] # i
  BY <1>1, <1>2
<1>5. \A j, k \in DOMAIN r : f[j] = f[k] => j = k
  BY <1>2
<1>6. ASSUME NEW n \in DOMAIN q, n # i PROVE \E j \in DOMAIN r : f[j] = n
  <2>1. CASE n < i
    <3>1. n \in DOMAIN r /\ f[n] = n
      BY <1>2, <2>1
    <3> QED BY <3>1
  <2>2. CASE n > i
    <3>1. n - 1 \in DOMAIN r /\ f[n - 1] = n
      BY <1>2, <2>2
    <3> QED BY <3>1
  <2> QED BY <1>2, <1>6, <2>1, <2>2
<1> HIDE DEF f
<1>7. IsWithout(q, i, r)
  BY <1>3, <1>4, <1>5, <1>6 DEF IsWithout
<1> QED BY <1>1, <1>7 DEF r

\* A new head.
LEMMA AtHead ==
  ASSUME NEW S, NEW q \in Seq(S), NEW b \in S
  PROVE  LET s == <<b>> \o q IN
         /\ s \in Seq(S) /\ Len(s) = Len(q) + 1 /\ s[1] = b
         /\ \A j \in 2..(Len(q) + 1) : s[j] = q[j - 1]
<1>1. <<b>> \in Seq(S) /\ Len(<<b>>) = 1 /\ <<b>>[1] = b /\ Len(q) \in Nat
  BY LenProperties
<1> DEFINE s == <<b>> \o q
<1>2. /\ s \in Seq(S) /\ Len(s) = Len(q) + 1
      /\ \A j \in 1..(Len(q) + 1) : s[j] = IF j <= 1 THEN b ELSE q[j - 1]
  BY <1>1, ConcatProperties
<1> HIDE DEF s
<1> QED BY <1>1, <1>2 DEF s

\* The old sequence is the new one without its head.
LEMMA HeadPlace ==
  ASSUME NEW S, NEW q \in Seq(S), NEW b \in S
  PROVE  /\ <<b>> \o q \in Seq(S) /\ (<<b>> \o q)[1] = b
         /\ IsWithout(<<b>> \o q, 1, q)
<1> DEFINE s == <<b>> \o q
<1>1. /\ s \in Seq(S) /\ Len(s) = Len(q) + 1 /\ s[1] = b
      /\ \A j \in 2..(Len(q) + 1) : s[j] = q[j - 1]
  BY AtHead
<1> HIDE DEF s
<1>2. DOMAIN s = 1..(Len(q) + 1) /\ DOMAIN q = 1..Len(q) /\ Len(q) \in Nat
  BY <1>1, LenProperties
<1> DEFINE f == [j \in DOMAIN q |-> j + 1]
<1>3. f \in [DOMAIN q -> DOMAIN s] /\ 1 \in DOMAIN s
  BY <1>2
<1>4. \A j \in DOMAIN q : q[j] = s[f[j]] /\ f[j] # 1
  BY <1>1, <1>2
<1>5. \A j, k \in DOMAIN q : f[j] = f[k] => j = k
  BY <1>2
<1>6. ASSUME NEW n \in DOMAIN s, n # 1 PROVE \E j \in DOMAIN q : f[j] = n
  <2>1. n - 1 \in DOMAIN q /\ f[n - 1] = n
    BY <1>2, <1>6
  <2> QED BY <2>1
<1> HIDE DEF f
<1>7. IsWithout(s, 1, q)
  BY <1>3, <1>4, <1>5, <1>6 DEF IsWithout
<1> QED BY <1>1, <1>7 DEF s

\* The tail of a sequence is the sequence without its first place.
LEMMA TailPlace ==
  ASSUME NEW S, NEW q \in Seq(S), q # <<>>
  PROVE  Tail(q) \in Seq(S) /\ Head(q) = q[1] /\ Head(q) \in S /\ IsWithout(q, 1, Tail(q))
<1> DEFINE r == Tail(q)
<1>1. /\ r \in Seq(S) /\ Len(r) = Len(q) - 1 /\ Head(q) = q[1]
      /\ \A j \in 1..(Len(q) - 1) : r[j] = q[j + 1]
  BY HeadTailProperties, LenProperties
<1> HIDE DEF r
<1>2. DOMAIN r = 1..(Len(q) - 1) /\ DOMAIN q = 1..Len(q) /\ Len(q) \in Nat /\ Len(q) # 0
  BY <1>1, LenProperties, EmptySeq
<1> DEFINE f == [j \in DOMAIN r |-> j + 1]
<1>3. f \in [DOMAIN r -> DOMAIN q] /\ 1 \in DOMAIN q
  BY <1>2
<1>4. \A j \in DOMAIN r : r[j] = q[f[j]] /\ f[j] # 1
  BY <1>1, <1>2
<1>5. \A j, k \in DOMAIN r : f[j] = f[k] => j = k
  BY <1>2
<1>6. ASSUME NEW n \in DOMAIN q, n # 1 PROVE \E j \in DOMAIN r : f[j] = n
  <2>1. n - 1 \in DOMAIN r /\ f[n - 1] = n
    BY <1>2, <1>6
  <2> QED BY <2>1
<1> HIDE DEF f
<1>7. IsWithout(q, 1, r)
  BY <1>3, <1>4, <1>5, <1>6 DEF IsWithout
<1>8. Head(q) \in S
  BY <1>1, <1>2, ElementOfSeq
<1> QED BY <1>1, <1>7, <1>8 DEF r

\* A sequence of the elements of a finite set has each of them once.
LEMMA SetAsSeq ==
  ASSUME NEW S, IsFiniteSet(S)
  PROVE  LET q == SetToSeq(S) IN
         /\ q \in Seq(S) /\ \A i, j \in DOMAIN q : q[i] = q[j] => i = j
         /\ \A x \in S : Contains(q, x)
<1> DEFINE n == Cardinality(S) q == SetToSeq(S)
<1>1. n \in Nat /\ Bijection(1..n, S) # {}
  BY FS_CardinalityType DEF ExistsBijection
<1> HIDE DEF n
<1>2. \E f \in [1..n -> S] : IsInjective(f)
  BY <1>1 DEF Bijection, Injection
<1>3. q \in [1..n -> S] /\ IsInjective(q)
  BY <1>2 DEF SetToSeq, n
<1> HIDE DEF q
<1>4. q \in Seq(S) /\ Len(q) = n /\ DOMAIN q = 1..n
  BY <1>1, <1>3, IsASeq, LenProperties
<1>5. \A i, j \in DOMAIN q : q[i] = q[j] => i = j
  BY <1>3 DEF IsInjective
<1>6. q \in Surjection(1..n, S)
  <2>1. q \in Injection(1..n, S)
    BY <1>3 DEF Injection
  <2>2. IsFiniteSet(1..n) /\ Cardinality(1..n) = Cardinality(S)
    BY <1>1, FS_Interval DEF n
  <2> QED BY <2>1, <2>2, FS_Injection
<1>7. \A x \in S : Contains(q, x)
  BY <1>4, <1>6 DEF Surjection, Contains
<1> QED BY <1>4, <1>5, <1>7 DEF q

-----------------------------------------------------------------------------
(* Lists without repetition, as the sets of their elements *)

\* The elements of a list and the set of them.
LEMMA InDomain ==
  ASSUME NEW S, NEW q \in Seq(S)
  PROVE  /\ DOMAIN q = 1..Len(q) /\ Len(q) \in Nat /\ \A i \in DOMAIN q : q[i] \in S
         /\ \A x : x \in ToSet(q) <=> \E i \in DOMAIN q : q[i] = x
         /\ ToSet(q) \in SUBSET S
BY LenProperties, ElementOfSeq DEF ToSet

\* One place is taken out, and with it its element.
LEMMA ListWithout ==
  ASSUME NEW S, NEW q \in Seq(S), NEW r \in Seq(S), NEW i, IsWithout(q, i, r), IsInjective(q)
  PROVE  /\ i \in DOMAIN q /\ IsInjective(r) /\ q[i] \notin ToSet(r)
         /\ ToSet(r) = ToSet(q) \ {q[i]}
<1>1. PICK f \in [DOMAIN r -> DOMAIN q] :
        /\ \A j \in DOMAIN r : r[j] = q[f[j]] /\ f[j] # i
        /\ \A j, k \in DOMAIN r : f[j] = f[k] => j = k
        /\ \A n \in DOMAIN q : n # i => \E j \in DOMAIN r : f[j] = n
  BY DEF IsWithout
<1>2. i \in DOMAIN q
  BY DEF IsWithout
<1>3. IsInjective(r)
  BY <1>1 DEF IsInjective
<1>4. \A x : x \in ToSet(r) => x \in ToSet(q) /\ x # q[i]
  BY <1>1, <1>2 DEF IsInjective, ToSet
<1>5. ASSUME NEW x \in ToSet(q), x # q[i] PROVE x \in ToSet(r)
  <2>1. PICK n \in DOMAIN q : q[n] = x
    BY <1>5 DEF ToSet
  <2>2. PICK j \in DOMAIN r : f[j] = n
    BY <1>1, <1>5, <2>1
  <2> QED BY <1>1, <2>1, <2>2 DEF ToSet
<1> QED BY <1>2, <1>3, <1>4, <1>5

\* An element that was not in the list is put at its head.
LEMMA ListHead ==
  ASSUME NEW S, NEW q \in Seq(S), IsInjective(q), NEW b \in S, b \notin ToSet(q)
  PROVE  LET s == <<b>> \o q IN s \in Seq(S) /\ IsInjective(s) /\ ToSet(s) = ToSet(q) \cup {b}
<1> DEFINE s == <<b>> \o q
<1>1. s \in Seq(S) /\ s[1] = b /\ IsWithout(s, 1, q)
  BY HeadPlace
<1> HIDE DEF s
<1>2. PICK f \in [DOMAIN q -> DOMAIN s] :
        /\ \A j \in DOMAIN q : q[j] = s[f[j]] /\ f[j] # 1
        /\ \A n \in DOMAIN s : n # 1 => \E j \in DOMAIN q : f[j] = n
  BY <1>1 DEF IsWithout
<1>3. 1 \in DOMAIN s
  BY <1>1 DEF IsWithout
<1>4. \A n \in DOMAIN s : n # 1 => \E j \in DOMAIN q : f[j] = n /\ s[n] = q[j]
  BY <1>2
<1>5. ASSUME NEW m \in DOMAIN s, NEW n \in DOMAIN s, s[m] = s[n] PROVE m = n
  <2>1. CASE m = 1 \/ n = 1
    BY <1>1, <1>4, <1>5, <2>1 DEF ToSet
  <2>2. CASE m # 1 /\ n # 1
    BY <1>4, <1>5, <2>2 DEF IsInjective
  <2> QED BY <2>1, <2>2
<1>6. \A x : x \in ToSet(s) <=> x \in ToSet(q) \cup {b}
  BY <1>1, <1>2, <1>3, <1>4 DEF ToSet
<1>7. IsInjective(s) /\ ToSet(s) = ToSet(q) \cup {b}
  BY <1>5, <1>6 DEF IsInjective
<1> QED BY <1>1, <1>7 DEF s

\* The length of such a list is the number of its elements.
LEMMA ListLength ==
  ASSUME NEW S, NEW q \in Seq(S), IsInjective(q)
  PROVE  IsFiniteSet(ToSet(q)) /\ Len(q) = Cardinality(ToSet(q))
<1>1. DOMAIN q = 1..Len(q) /\ Len(q) \in Nat /\ \A x : x \in ToSet(q) <=> \E i \in DOMAIN q : q[i] = x
  BY InDomain
<1>2. q \in [1..Len(q) -> ToSet(q)]
  BY <1>1, LenProperties DEF ToSet
<1>3. q \in Bijection(1..Len(q), ToSet(q))
  BY <1>1, <1>2 DEF Bijection, Injection, Surjection
<1>4. ExistsBijection(1..Len(q), ToSet(q))
  BY <1>3 DEF ExistsBijection
<1>5. IsFiniteSet(1..Len(q)) /\ Cardinality(1..Len(q)) = Len(q)
  BY <1>1, FS_Interval
<1> QED BY <1>4, <1>5, FS_Bijection

\* The place of an element.
LEMMA ListPlace ==
  ASSUME NEW S, NEW q \in Seq(S), IsInjective(q), NEW x \in ToSet(q)
  PROVE  LET r == RemoveAt(q, CHOOSE i \in DOMAIN q : q[i] = x) IN
         r \in Seq(S) /\ IsInjective(r) /\ ToSet(r) = ToSet(q) \ {x}
<1> DEFINE i == CHOOSE i \in DOMAIN q : q[i] = x
<1>1. i \in DOMAIN q /\ q[i] = x
  BY DEF ToSet
<1> HIDE DEF i
<1>2. RemoveAt(q, i) \in Seq(S) /\ IsWithout(q, i, RemoveAt(q, i))
  BY <1>1, RemovedPlace
<1>3. IsInjective(RemoveAt(q, i)) /\ ToSet(RemoveAt(q, i)) = ToSet(q) \ {q[i]}
  BY <1>2, ListWithout
<1> QED BY <1>1, <1>2, <1>3 DEF i

\* The first element of a list goes: the others stay.
LEMMA ListTail ==
  ASSUME NEW S, NEW q \in Seq(S), IsInjective(q), q # <<>>
  PROVE  /\ Tail(q) \in Seq(S) /\ IsInjective(Tail(q)) /\ Head(q) \in S
         /\ Head(q) \in ToSet(q) /\ ToSet(Tail(q)) = ToSet(q) \ {Head(q)}
<1> DEFINE r == Tail(q) h == Head(q)
<1>1. r \in Seq(S) /\ h = q[1] /\ h \in S /\ IsWithout(q, 1, r)
  BY TailPlace
<1> HIDE DEF r, h
<1>2. 1 \in DOMAIN q /\ IsInjective(r) /\ ToSet(r) = ToSet(q) \ {q[1]}
  BY <1>1, ListWithout
<1>3. h \in ToSet(q)
  BY <1>1, <1>2 DEF ToSet
<1> QED BY <1>1, <1>2, <1>3 DEF r, h

\* A place of a list is given to an element that was not in it.
LEMMA ListReplaced ==
  ASSUME NEW S, NEW q \in Seq(S), IsInjective(q), NEW i \in DOMAIN q, NEW b \in S, b \notin ToSet(q),
         NEW r \in Seq(S), DOMAIN r = DOMAIN q, r[i] = b, \A j \in DOMAIN q \ {i} : r[j] = q[j]
  PROVE  IsInjective(r) /\ ToSet(r) = (ToSet(q) \ {q[i]}) \cup {b}
<1>1. \A j \in DOMAIN q : r[j] = IF j = i THEN b ELSE q[j]
  OBVIOUS
<1>2. IsInjective(r)
  <2> SUFFICES ASSUME NEW j \in DOMAIN q, NEW k \in DOMAIN q, r[j] = r[k] PROVE j = k
    BY DEF IsInjective
  <2> QED BY <1>1 DEF IsInjective, ToSet
<1>3. ASSUME NEW x PROVE x \in ToSet(r) <=> x \in (ToSet(q) \ {q[i]}) \cup {b}
  <2>1. x \in ToSet(r) <=> \E j \in DOMAIN q : r[j] = x
    BY DEF ToSet
  <2>2. x \in ToSet(q) <=> \E j \in DOMAIN q : q[j] = x
    BY DEF ToSet
  <2> QED BY <1>1, <2>1, <2>2 DEF IsInjective
<1> QED BY <1>2, <1>3

\* An element is added behind the others.
LEMMA ListAppended ==
  ASSUME NEW S, NEW q \in Seq(S), IsInjective(q), NEW b \in S, b \notin ToSet(q)
  PROVE  /\ Append(q, b) \in Seq(S) /\ IsInjective(Append(q, b)) /\ ToSet(Append(q, b)) = ToSet(q) \cup {b}
         /\ Len(Append(q, b)) = Len(q) + 1 /\ Append(q, b)[Len(q) + 1] = b
<1> DEFINE r == Append(q, b) n == Len(q)
<1>1. /\ r \in Seq(S) /\ r # <<>> /\ Len(r) = n + 1 /\ \A i \in 1..n : r[i] = q[i]
      /\ r[n + 1] = b
  BY AppendProperties
<1>2. /\ DOMAIN q = 1..n /\ n \in Nat /\ \A x : x \in ToSet(q) <=> \E i \in DOMAIN q : q[i] = x
      /\ DOMAIN r = 1..Len(r) /\ \A x : x \in ToSet(r) <=> \E i \in DOMAIN r : r[i] = x
  BY <1>1, InDomain
<1> HIDE DEF r, n
<1>3. DOMAIN r = 1..(n + 1) /\ \A i \in 1..(n + 1) : i \in 1..n \/ i = n + 1
  BY <1>1, <1>2
<1>4. \A i \in 1..n : r[i] # b
  BY <1>1, <1>2
<1>5. IsInjective(r)
  <2>1. ASSUME NEW i \in DOMAIN r, NEW j \in DOMAIN r, r[i] = r[j] PROVE i = j
    <3>1. CASE i \in 1..n /\ j \in 1..n
      BY <1>1, <1>2, <2>1, <3>1 DEF IsInjective
    <3>2. CASE i = n + 1 \/ j = n + 1
      BY <1>1, <1>3, <1>4, <2>1, <3>2
    <3> QED BY <1>3, <3>1, <3>2
  <2> QED BY <2>1 DEF IsInjective
<1>6. ToSet(r) = ToSet(q) \cup {b}
  <2>1. ASSUME NEW x PROVE x \in ToSet(r) <=> x \in ToSet(q) \/ x = b
    <3>1. x \in ToSet(r) => x \in ToSet(q) \/ x = b
      BY <1>1, <1>2, <1>3
    <3>2. x \in ToSet(q) => x \in ToSet(r)
      BY <1>1, <1>2, <1>3
    <3>3. n + 1 \in DOMAIN r
      BY <1>2, <1>3
    <3> QED BY <1>1, <1>2, <3>1, <3>2, <3>3
  <2> QED BY <2>1
<1> QED BY <1>1, <1>5, <1>6 DEF r, n

\* The last element is taken away.
LEMMA ListFront ==
  ASSUME NEW S, NEW q \in Seq(S), IsInjective(q), q # <<>>
  PROVE  /\ Front(q) \in Seq(S) /\ IsInjective(Front(q)) /\ Len(Front(q)) = Len(q) - 1
         /\ Last(q) = q[Len(q)] /\ Last(q) \in ToSet(q) /\ ToSet(Front(q)) = ToSet(q) \ {Last(q)}
<1> DEFINE r == Front(q) n == Len(q)
<1>1. n \in Nat \ {0} /\ DOMAIN q = 1..n /\ (\A i \in DOMAIN q : q[i] \in S)
      /\ \A x : x \in ToSet(q) <=> \E i \in DOMAIN q : q[i] = x
  BY EmptySeq, InDomain
<1>2. r = SubSeq(q, 1, n - 1) /\ Last(q) = q[n]
  BY DEF Front, Last
<1> HIDE DEF r, n
<1>3. n - 1 \in Int /\ \A i \in 1..(n - 1) : q[i] \in S
  BY <1>1
<1>4. r \in Seq(S) /\ Len(r) = (IF 1 <= n - 1 THEN (n - 1) - 1 + 1 ELSE 0) /\ \A i \in 1..((n - 1) - 1 + 1) : r[i] = q[1 + i - 1]
  BY <1>2, <1>3, SubSeqProperties
<1>5. Len(r) = n - 1 /\ \A i \in 1..(n - 1) : r[i] = q[i]
  BY <1>1, <1>4
<1>6. DOMAIN r = 1..(n - 1) /\ \A x : x \in ToSet(r) <=> \E i \in DOMAIN r : r[i] = x
  BY <1>4, <1>5, InDomain
<1>7. IsInjective(r)
  <2>1. \A i, j \in 1..(n - 1) : i \in DOMAIN q /\ j \in DOMAIN q
    BY <1>1
  <2> QED BY <1>5, <1>6, <2>1 DEF IsInjective
<1>8. n \in DOMAIN q /\ \A i \in DOMAIN q : i \in 1..(n - 1) \/ i = n
  BY <1>1
<1>9. \A i \in 1..(n - 1) : q[i] # q[n]
  BY <1>1, <1>8 DEF IsInjective
<1>10. ASSUME NEW x PROVE x \in ToSet(r) <=> x \in ToSet(q) /\ x # q[n]
  <2>1. \A i \in 1..(n - 1) : i \in DOMAIN q
    BY <1>1
  <2> QED BY <1>1, <1>5, <1>6, <1>8, <1>9, <2>1
<1> QED BY <1>1, <1>2, <1>4, <1>5, <1>7, <1>8, <1>10 DEF r, n

\* One list behind the other.
LEMMA ListsJoined ==
  ASSUME NEW S, NEW q \in Seq(S), NEW r \in Seq(S), IsInjective(q), IsInjective(r), ToSet(q) \cap ToSet(r) = {}
  PROVE  q \o r \in Seq(S) /\ IsInjective(q \o r) /\ ToSet(q \o r) = ToSet(q) \cup ToSet(r)
<1> DEFINE s == q \o r m == Len(q) n == Len(r)
<1>1. /\ s \in Seq(S) /\ Len(s) = m + n
      /\ \A i \in 1..(m + n) : s[i] = IF i <= m THEN q[i] ELSE r[i - m]
  BY ConcatProperties
<1>2. /\ DOMAIN q = 1..m /\ m \in Nat /\ \A x : x \in ToSet(q) <=> \E i \in DOMAIN q : q[i] = x
      /\ DOMAIN r = 1..n /\ n \in Nat /\ \A x : x \in ToSet(r) <=> \E i \in DOMAIN r : r[i] = x
      /\ DOMAIN s = 1..Len(s) /\ \A x : x \in ToSet(s) <=> \E i \in DOMAIN s : s[i] = x
  <2>1. DOMAIN q = 1..m /\ m \in Nat /\ \A x : x \in ToSet(q) <=> \E i \in DOMAIN q : q[i] = x
    BY InDomain
  <2>2. DOMAIN r = 1..n /\ n \in Nat /\ \A x : x \in ToSet(r) <=> \E i \in DOMAIN r : r[i] = x
    BY InDomain
  <2>3. DOMAIN s = 1..Len(s) /\ \A x : x \in ToSet(s) <=> \E i \in DOMAIN s : s[i] = x
    <3> HIDE DEF s
    <3> QED BY <1>1, InDomain
  <2> QED BY <2>1, <2>2, <2>3
<1> HIDE DEF s, m, n
<1>3. \A i \in DOMAIN s : (i \in DOMAIN q /\ s[i] = q[i] /\ i <= m) \/ (i - m \in DOMAIN r /\ s[i] = r[i - m] /\ i > m)
  BY <1>1, <1>2
<1>4. \A i \in DOMAIN q : i \in DOMAIN s /\ s[i] = q[i]
  BY <1>1, <1>2
<1>5. \A i \in DOMAIN r : i + m \in DOMAIN s /\ s[i + m] = r[i]
  <2> SUFFICES ASSUME NEW i \in DOMAIN r PROVE i + m \in DOMAIN s /\ s[i + m] = r[i]
    OBVIOUS
  <2>1. i + m \in 1..(m + n) /\ ~(i + m <= m) /\ (i + m) - m = i
    BY <1>2
  <2> QED BY <1>1, <1>2, <2>1
<1>6. ASSUME NEW i \in DOMAIN s, NEW j \in DOMAIN s, s[i] = s[j] PROVE i = j
  <2>1. i \in Int /\ j \in Int /\ m \in Int
    BY <1>1, <1>2
  <2>2. CASE i <= m /\ j <= m
    BY <1>3, <1>6, <2>1, <2>2 DEF IsInjective
  <2>3. CASE i > m /\ j > m
    <3>1. i - m \in DOMAIN r /\ j - m \in DOMAIN r /\ r[i - m] = r[j - m]
      BY <1>3, <1>6, <2>1, <2>3
    <3>2. i - m = j - m
      BY <3>1 DEF IsInjective
    <3> QED BY <2>1, <3>2
  <2>4. CASE i <= m /\ j > m
    <3>1. s[i] \in ToSet(q) /\ s[j] \in ToSet(r)
      BY <1>2, <1>3, <2>1, <2>4
    <3> QED BY <1>6, <3>1
  <2>5. CASE i > m /\ j <= m
    <3>1. s[i] \in ToSet(r) /\ s[j] \in ToSet(q)
      BY <1>2, <1>3, <2>1, <2>5
    <3> QED BY <1>6, <3>1
  <2> QED BY <2>1, <2>2, <2>3, <2>4, <2>5
<1>7. ASSUME NEW x PROVE x \in ToSet(s) <=> x \in ToSet(q) \/ x \in ToSet(r)
  BY <1>2, <1>3, <1>4, <1>5
<1> QED BY <1>1, <1>6, <1>7 DEF s, IsInjective

\* No sequences joined are none.
LEMMA FlattenNone ==
  FlattenSeq(<<>>) = <<>>
BY DEF FlattenSeq

\* One sequence by itself.
LEMMA FlattenOne ==
  ASSUME NEW q, Len(q) = 1
  PROVE  FlattenSeq(q) = q[1]
<1> DEFINE F(f) == [i \in 1..Len(q) |-> IF i = 1 THEN q[i] ELSE f[i - 1] \o q[i]]
           g == CHOOSE f : f = F(f)
           h == [i \in 1..Len(q) |-> q[1]]
<1>1. h = F(h)
  <2>1. 1..Len(q) = {1}
    OBVIOUS
  <2> QED BY <2>1
<1>2. g = F(g)
  BY <1>1
<1> HIDE DEF g
<1>3. g[1] = q[1]
  <2>1. 1 \in 1..Len(q)
    OBVIOUS
  <2> QED BY <1>2, <2>1
<1> QED BY <1>3 DEF FlattenSeq, g

\* Two sequences, one behind the other.
LEMMA FlattenTwo ==
  ASSUME NEW q, Len(q) = 2
  PROVE  FlattenSeq(q) = q[1] \o q[2]
<1> DEFINE F(f) == [i \in 1..Len(q) |-> IF i = 1 THEN q[i] ELSE f[i - 1] \o q[i]]
           g == CHOOSE f : f = F(f)
           h == [i \in 1..Len(q) |-> IF i = 1 THEN q[1] ELSE q[1] \o q[2]]
<1>1. h = F(h)
  <2>1. 1..Len(q) = {1, 2}
    OBVIOUS
  <2> QED BY <2>1
<1>2. g = F(g)
  BY <1>1
<1> HIDE DEF g
<1>3. 1 \in 1..Len(q) /\ 2 \in 1..Len(q)
  OBVIOUS
<1>4. g[1] = q[1] /\ g[2] = g[1] \o q[2]
  BY <1>2, <1>3
<1>5. FlattenSeq(q) = g[Len(q)]
  BY DEF FlattenSeq, g
<1> QED BY <1>4, <1>5
=============================================================================
