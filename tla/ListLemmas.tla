------------------------------ MODULE ListLemmas -------------------------------
(******************************************************************************)
(* Facts about lists that the proofs about the servers share.  A linked list  *)
(* of the code is a sequence; elements are pushed in front, unlinked at their *)
(* first occurrence or put in at a place.  Membership is written with indices *)
(* or with ToSet, and a list that holds everything once is injective.         *)
(******************************************************************************)
EXTENDS Integers, Sequences, SequencesExt, FiniteSetTheorems,
        SequenceTheorems, WellFoundedInduction, TLAPS

(* A set of natural numbers has a least element. *)
LEMMA LeastNumber ==
  ASSUME NEW T \in SUBSET Nat, T # {}
  PROVE  \E x \in T : \A y \in T : x <= y
<1>1. IsWellFoundedOn(OpToRel(<, Nat), Nat)
  BY NatLessThanWellFounded, Zenon
<1>2. \E x \in T : \A y \in T : ~(<<y, x>> \in OpToRel(<, Nat))
  BY <1>1, WFMin, Zenon
<1>3. \A x, y \in Nat : <<y, x>> \in OpToRel(<, Nat) <=> y < x
  BY DEF OpToRel
<1>4. PICK x \in T : \A y \in T : ~(<<y, x>> \in OpToRel(<, Nat))
  BY <1>2, Zenon
<1>5. \A y \in T : ~(y < x)
  BY <1>3, <1>4, Zenon
<1>6. \A y \in T : x <= y
  BY <1>5, SMT
<1> QED
  BY <1>6, Zenon

(* Induction up to n, for the set T of the numbers of which the claim holds. *)
LEMMA InductionUpTo ==
  ASSUME NEW n \in Nat, NEW T, 0 \in T,
         \A i \in 0..(n - 1) : i \in T => i + 1 \in T
  PROVE  \A i \in 0..n : i \in T
<1> DEFINE Bad == {i \in 0..n : i \notin T}
<1>1. SUFFICES ASSUME Bad # {} PROVE FALSE
  OBVIOUS
<1>2. Bad \in SUBSET Nat
  OBVIOUS
<1>3. PICK x \in Bad : \A y \in Bad : x <= y
  BY <1>1, <1>2, LeastNumber
<1>4. x \in 1..n
  BY <1>3
<1>5. x - 1 \in T
  BY <1>3, <1>4
<1> QED
  BY <1>3, <1>4, <1>5

(* The values that a loop of N turns goes through: it starts with base, and   *)
(* turn n makes step[<<x, n>>] of x.                                          *)
IsLoop(f, T, N, base, step) ==
  /\ f \in [0..N -> T]
  /\ f[0] = base
  /\ \A n \in 1..N : f[n] = step[<<f[n - 1], n>>]

(* There are such values: they can be computed one after the other. *)
LEMMA RecursionExists ==
  ASSUME NEW T, NEW N \in Nat, NEW base \in T, NEW step \in [T \X (1..N) -> T]
  PROVE  \E f : IsLoop(f, T, N, base, step)
<1> DEFINE Run(f, m) == f[0] = base /\ \A n \in 1..m : f[n] = step[<<f[n - 1], n>>]
           S == {m \in 0..N : \E f \in [0..m -> T] : Run(f, m)}
<1>1. 0 \in S
  <2>1. [i \in 0..0 |-> base] \in [0..0 -> T] /\ Run([i \in 0..0 |-> base], 0)
    OBVIOUS
  <2>2. 0 \in 0..N
    OBVIOUS
  <2> QED
    BY <2>1, <2>2, Zenon
<1>2. ASSUME NEW m \in 0..(N - 1), m \in S PROVE m + 1 \in S
  <2>1. PICK f \in [0..m -> T] : Run(f, m)
    BY <1>2
  <2> DEFINE g == [i \in 0..(m + 1) |-> IF i = m + 1 THEN step[<<f[m], m + 1>>] ELSE f[i]]
  <2>2. step[<<f[m], m + 1>>] \in T
    BY <2>1
  <2>3. g \in [0..(m + 1) -> T]
    BY <2>1, <2>2
  <2>4. g[m + 1] = step[<<f[m], m + 1>>] /\ \A i \in 0..m : g[i] = f[i]
    OBVIOUS
  <2> HIDE DEF g
  <2>5. Run(g, m + 1)
    <3>1. g[0] = base
      BY <2>1, <2>4
    <3>2. ASSUME NEW n \in 1..(m + 1) PROVE g[n] = step[<<g[n - 1], n>>]
      <4>1. n - 1 \in 0..m /\ g[n - 1] = f[n - 1]
        BY <2>4
      <4>2. CASE n = m + 1
        BY <2>4, <4>1, <4>2
      <4>3. CASE n # m + 1
        <5>1. n \in 1..m /\ n \in 0..m
          BY <4>3
        <5> QED
          BY <2>1, <2>4, <4>1, <5>1
      <4> QED
        BY <4>2, <4>3
    <3> QED
      BY <3>1, <3>2
  <2>6. m + 1 \in 0..N
    OBVIOUS
  <2> QED
    BY <2>3, <2>5, <2>6
<1>3. N \in S
  <2> HIDE DEF S
  <2> QED
    BY <1>1, <1>2, InductionUpTo
<1> QED
  BY <1>3 DEF IsLoop

--------------------------------------------------------------------------------
(* The least element that Min names. *)
LEMMA MinIsLeast ==
  ASSUME NEW T \in SUBSET Nat, T # {}
  PROVE  Min(T) \in T /\ \A y \in T : Min(T) <= y
BY LeastNumber DEF Min

(* The greatest element that Max names, in a set of integers with a bound. *)
LEMMA MaxIsGreatest ==
  ASSUME NEW T \in SUBSET Int, T # {}, NEW b \in Int, \A y \in T : y <= b
  PROVE  Max(T) \in T /\ \A y \in T : y <= Max(T)
<1> DEFINE D == {b - y : y \in T}
<1>1. D \in SUBSET Nat /\ D # {}
  <2>1. \A y \in T : b - y \in Nat
    OBVIOUS
  <2>2. PICK y \in T : TRUE
    OBVIOUS
  <2> QED
    BY <2>1, <2>2
<1>2. PICK d \in D : \A e \in D : d <= e
  BY <1>1, LeastNumber
<1>3. PICK x \in T : d = b - x
  BY <1>2
<1>4. \A y \in T : x >= y
  <2>1. SUFFICES ASSUME NEW y \in T PROVE x >= y
    OBVIOUS
  <2>2. b - x <= b - y
    BY <1>2, <1>3
  <2> QED
    BY <2>2
<1>5. Max(T) \in T /\ \A y \in T : Max(T) >= y
  BY <1>4, Zenon DEF Max
<1> QED
  BY <1>5

--------------------------------------------------------------------------------
(* Pushing in front, unlinking and putting in at a place. *)

(* A list with e in front. *)
LEMMA PushFront ==
  ASSUME NEW S, NEW s \in Seq(S), NEW e \in S
  PROVE  /\ <<e>> \o s \in Seq(S)
         /\ Head(<<e>> \o s) = e
         /\ <<e>> \o s # <<>>
         /\ ToSet(<<e>> \o s) = ToSet(s) \cup {e}
         /\ IsInjective(s) /\ e \notin ToSet(s) => IsInjective(<<e>> \o s)
<1> DEFINE t == <<e>> \o s
<1>1. /\ t \in Seq(S) /\ Len(t) = Len(s) + 1 /\ t[1] = e
      /\ \A i \in 1..Len(s) : t[i + 1] = s[i]
  OBVIOUS
<1>2. \A i \in 1..Len(t) : i = 1 \/ (i - 1 \in 1..Len(s) /\ t[i] = s[i - 1])
  BY <1>1
<1>3. ToSet(t) = ToSet(s) \cup {e}
  <2>1. ToSet(t) \subseteq ToSet(s) \cup {e}
    BY <1>1, <1>2 DEF ToSet
  <2>2. ASSUME NEW i \in 1..Len(s) PROVE s[i] \in ToSet(t)
    <3>1. i + 1 \in DOMAIN t /\ t[i + 1] = s[i]
      BY <1>1
    <3> QED
      BY <3>1 DEF ToSet
  <2>3. e \in ToSet(t)
    BY <1>1 DEF ToSet
  <2>4. ToSet(s) \subseteq ToSet(t)
    BY <2>2 DEF ToSet
  <2> QED
    BY <2>1, <2>3, <2>4
<1>4. ASSUME IsInjective(s), e \notin ToSet(s) PROVE IsInjective(t)
  BY <1>1, <1>2, <1>4 DEF IsInjective, ToSet
<1> QED
  BY <1>1, <1>3, <1>4

(* A list without its head. *)
LEMMA PopFront ==
  ASSUME NEW S, NEW s \in Seq(S), s # <<>>, IsInjective(s)
  PROVE  /\ Tail(s) \in Seq(S)
         /\ IsInjective(Tail(s))
         /\ ToSet(Tail(s)) = ToSet(s) \ {Head(s)}
         /\ Head(s) \in ToSet(s)
<1> DEFINE t == Tail(s)
<1>1. /\ t \in Seq(S) /\ Len(t) = Len(s) - 1 /\ Len(s) \in Nat /\ Len(s) > 0
      /\ \A i \in 1..(Len(s) - 1) : t[i] = s[i + 1]
      /\ Head(s) = s[1]
  OBVIOUS
<1>2. DOMAIN s = 1..Len(s) /\ DOMAIN t = 1..(Len(s) - 1)
  BY <1>1
<1> HIDE DEF t
<1>3. \A k, l \in 1..Len(s) : s[k] = s[l] => k = l
  BY <1>2 DEF IsInjective
<1>4. \A i \in 1..(Len(s) - 1) : i + 1 \in 1..Len(s) /\ i + 1 # 1
  BY <1>1
<1>5. IsInjective(t)
  <2>1. \A i, j \in 1..(Len(s) - 1) : t[i] = t[j] => i = j
    BY <1>1, <1>3, <1>4
  <2> QED
    BY <1>2, <2>1 DEF IsInjective
<1>6. 1 \in 1..Len(s)
  BY <1>1
<1>7. ToSet(t) \subseteq ToSet(s) \ {Head(s)}
  BY <1>1, <1>2, <1>3, <1>4, <1>6 DEF ToSet
<1>8. ToSet(s) \ {Head(s)} \subseteq ToSet(t)
  <2>1. SUFFICES ASSUME NEW i \in 1..Len(s), i # 1 PROVE s[i] \in ToSet(t)
    BY <1>1, <1>2 DEF ToSet
  <2>2. i - 1 \in 1..(Len(s) - 1) /\ t[i - 1] = s[i]
    BY <1>1, <2>1
  <2> QED
    BY <1>2, <2>2 DEF ToSet
<1>9. Head(s) \in ToSet(s)
  BY <1>1, <1>2, <1>6 DEF ToSet
<1> QED
  BY <1>1, <1>5, <1>7, <1>8, <1>9 DEF t

(* RemoveAt, place by place. *)
LEMMA RemoveAtPlaces ==
  ASSUME NEW S, NEW s \in Seq(S), NEW p \in 1..Len(s)
  PROVE  /\ RemoveAt(s, p) \in Seq(S)
         /\ Len(RemoveAt(s, p)) = Len(s) - 1
         /\ \A i \in 1..(Len(s) - 1) :
              RemoveAt(s, p)[i] = IF i < p THEN s[i] ELSE s[i + 1]
<1> DEFINE a == SubSeq(s, 1, p - 1)
           b == SubSeq(s, p + 1, Len(s))
<1>1. a \in Seq(S) /\ Len(a) = p - 1 /\ \A i \in 1..(p - 1) : a[i] = s[i]
  OBVIOUS
<1>2. b \in Seq(S) /\ Len(b) = Len(s) - p /\ \A i \in 1..(Len(s) - p) : b[i] = s[p + i]
  OBVIOUS
<1>3. RemoveAt(s, p) = a \o b
  BY DEF RemoveAt
<1> HIDE DEF a, b
<1>4. /\ a \o b \in Seq(S) /\ Len(a \o b) = Len(s) - 1
      /\ \A i \in 1..(Len(s) - 1) :
           (a \o b)[i] = IF i <= Len(a) THEN a[i] ELSE b[i - Len(a)]
  <2>1. Len(a) + Len(b) = Len(s) - 1
    BY <1>1, <1>2
  <2>2. a \in Seq(S) /\ b \in Seq(S)
    BY <1>1, <1>2
  <2> QED
    BY <2>1, <2>2, ConcatProperties, Zenon
<1>5. \A i \in 1..(Len(s) - 1) : 
        /\ i < p <=> i <= p - 1
        /\ ~(i < p) => /\ i - (p - 1) \in 1..(Len(s) - p)
                       /\ p + (i - (p - 1)) = i + 1
  OBVIOUS
<1>6. \A i \in 1..(Len(s) - 1) : (a \o b)[i] = IF i < p THEN s[i] ELSE s[i + 1]
  <2> SUFFICES ASSUME NEW i \in 1..(Len(s) - 1)
               PROVE  (a \o b)[i] = IF i < p THEN s[i] ELSE s[i + 1]
    OBVIOUS
  <2>1. CASE i < p
    BY <1>1, <1>4, <2>1
  <2>2. CASE ~(i < p)
    BY <1>1, <1>2, <1>4, <1>5, <2>2
  <2> QED
    BY <2>1, <2>2
<1> QED
  BY <1>3, <1>4, <1>6

(* InsertAt, place by place. *)
LEMMA InsertAtPlaces ==
  ASSUME NEW S, NEW s \in Seq(S), NEW p \in 1..(Len(s) + 1), NEW e \in S
  PROVE  /\ InsertAt(s, p, e) \in Seq(S)
         /\ Len(InsertAt(s, p, e)) = Len(s) + 1
         /\ \A i \in 1..(Len(s) + 1) :
              InsertAt(s, p, e)[i] = IF i < p THEN s[i] ELSE IF i = p THEN e ELSE s[i - 1]
<1> DEFINE a == SubSeq(s, 1, p - 1)
           b == SubSeq(s, p, Len(s))
<1>1. a \in Seq(S) /\ Len(a) = p - 1 /\ \A i \in 1..(p - 1) : a[i] = s[i]
  OBVIOUS
<1>2. b \in Seq(S) /\ Len(b) = Len(s) - p + 1 /\ \A i \in 1..(Len(s) - p + 1) : b[i] = s[p + i - 1]
  OBVIOUS
<1>3. InsertAt(s, p, e) = a \o <<e>> \o b
  BY DEF InsertAt
<1> HIDE DEF a, b
<1> DEFINE c == a \o <<e>>
<1>4. c \in Seq(S) /\ Len(c) = p /\ \A i \in 1..p : c[i] = IF i < p THEN a[i] ELSE e
  <2>1. /\ c \in Seq(S) /\ Len(c) = Len(a) + 1
        /\ \A i \in 1..(Len(a) + 1) :
             c[i] = IF i <= Len(a) THEN a[i] ELSE <<e>>[i - Len(a)]
    <3>1. a \in Seq(S) /\ <<e>> \in Seq(S) /\ Len(<<e>>) = 1
      BY <1>1
    <3> QED
      BY <3>1, ConcatProperties, Zenon
  <2>2. \A i \in 1..p : i < p \/ (i = p /\ ~(i <= p - 1) /\ i - (p - 1) = 1)
    OBVIOUS
  <2> QED
    BY <1>1, <2>1, <2>2
<1> HIDE DEF c
<1>5. /\ c \o b \in Seq(S) /\ Len(c \o b) = Len(s) + 1
      /\ \A i \in 1..(Len(s) + 1) : (c \o b)[i] = IF i <= p THEN c[i] ELSE b[i - p]
  <2>1. Len(c) + Len(b) = Len(s) + 1
    BY <1>2, <1>4
  <2>2. c \in Seq(S) /\ b \in Seq(S) /\ Len(c) = p
    BY <1>2, <1>4
  <2> QED
    BY <2>1, <2>2, ConcatProperties, Zenon
<1>6. \A i \in 1..(Len(s) + 1) : 
        \/ i <= p /\ i < p /\ i \in 1..p /\ i \in 1..(p - 1)
        \/ i <= p /\ i = p /\ ~(i < p) /\ i \in 1..p
        \/ /\ ~(i <= p) /\ ~(i < p) /\ i # p
           /\ i - p \in 1..(Len(s) - p + 1) /\ p + (i - p) - 1 = i - 1
  OBVIOUS
<1>7. \A i \in 1..(Len(s) + 1) :
        (c \o b)[i] = IF i < p THEN s[i] ELSE IF i = p THEN e ELSE s[i - 1]
  BY <1>1, <1>2, <1>4, <1>5, <1>6
<1>8. InsertAt(s, p, e) = c \o b
  BY <1>3 DEF c
<1> QED
  BY <1>5, <1>7, <1>8

(* ... where each element comes from, and which there are. *)
LEMMA InsertAtCases ==
  ASSUME NEW S, NEW s \in Seq(S), NEW p \in 1..(Len(s) + 1), NEW e \in S
  PROVE  LET r == InsertAt(s, p, e)
         IN  /\ DOMAIN r = 1..(Len(s) + 1)
             /\ \A i \in DOMAIN r :
                  \/ i < p /\ i \in DOMAIN s /\ r[i] = s[i]
                  \/ i = p /\ r[i] = e
                  \/ p < i /\ i - 1 \in DOMAIN s /\ p <= i - 1 /\ r[i] = s[i - 1]
             /\ ToSet(r) = ToSet(s) \cup {e}
<1> DEFINE r == InsertAt(s, p, e)
<1> HIDE DEF r
<1>1. /\ r \in Seq(S) /\ Len(r) = Len(s) + 1
      /\ \A i \in 1..(Len(s) + 1) : r[i] = IF i < p THEN s[i] ELSE IF i = p THEN e ELSE s[i - 1]
  <2>1. InsertAt(s, p, e) \in Seq(S) /\ Len(InsertAt(s, p, e)) = Len(s) + 1
    BY InsertAtPlaces
  <2>2. \A i \in 1..(Len(s) + 1) :
          InsertAt(s, p, e)[i] = IF i < p THEN s[i] ELSE IF i = p THEN e ELSE s[i - 1]
    BY InsertAtPlaces
  <2>3. r = InsertAt(s, p, e)
    BY DEF r
  <2> QED
    BY <2>1, <2>2, <2>3, Zenon
<1>2. DOMAIN r = 1..(Len(s) + 1) /\ DOMAIN s = 1..Len(s) /\ Len(s) \in Nat
  BY <1>1
<1>3. ASSUME NEW i \in DOMAIN r
      PROVE  \/ i < p /\ i \in DOMAIN s /\ r[i] = s[i]
             \/ i = p /\ r[i] = e
             \/ p < i /\ i - 1 \in DOMAIN s /\ p <= i - 1 /\ r[i] = s[i - 1]
  BY <1>1, <1>2
<1>4. ToSet(r) \subseteq ToSet(s) \cup {e}
  <2>1. SUFFICES ASSUME NEW i \in DOMAIN r PROVE r[i] \in ToSet(s) \cup {e}
    BY DEF ToSet
  <2> QED
    BY <1>3 DEF ToSet
<1>5. ToSet(s) \subseteq ToSet(r)
  <2>1. SUFFICES ASSUME NEW i \in DOMAIN s PROVE s[i] \in ToSet(r)
    BY DEF ToSet
  <2>2. CASE i < p
    <3>1. i \in DOMAIN r /\ r[i] = s[i]
      BY <1>1, <1>2, <2>2
    <3> QED
      BY <3>1, Zenon DEF ToSet
  <2>3. CASE ~(i < p)
    <3>1. i + 1 \in DOMAIN r /\ r[i + 1] = s[i]
      BY <1>1, <1>2, <2>3
    <3> QED
      BY <3>1, Zenon DEF ToSet
  <2> QED
    BY <2>2, <2>3
<1>6. e \in ToSet(r)
  <2>1. p \in DOMAIN r /\ r[p] = e
    BY <1>1, <1>2
  <2> QED
    BY <2>1, Zenon DEF ToSet
<1>7. ToSet(r) = ToSet(s) \cup {e}
  BY <1>4, <1>5, <1>6
<1> QED
  BY <1>2, <1>3, <1>7 DEF r

(* Where RemoveFirst takes an element out: at the first place that holds it. *)
LEMMA RemoveFirstPlace ==
  ASSUME NEW S, NEW s \in Seq(S), NEW e \in ToSet(s)
  PROVE  \E p \in 1..Len(s) :
           /\ s[p] = e
           /\ RemoveFirst(s, e) = RemoveAt(s, p)
<1> DEFINE I == {i \in 1..Len(s) : s[i] = e}
<1>1. I # {} /\ I \in SUBSET Nat
  BY DEF ToSet
<1>2. Min(I) \in I
  BY <1>1, MinIsLeast
<1>3. RemoveFirst(s, e) = RemoveAt(s, Min(I))
  BY <1>1 DEF RemoveFirst, SelectInSeq
<1> QED
  BY <1>2, <1>3

(* Unlinking what may not be in the list. *)
LEMMA RemoveFirstType ==
  ASSUME NEW S, NEW s \in Seq(S), NEW e
  PROVE  /\ RemoveFirst(s, e) \in Seq(S)
         /\ e \notin ToSet(s) => RemoveFirst(s, e) = s
<1>1. CASE e \in ToSet(s)
  <2>1. PICK p \in 1..Len(s) : s[p] = e /\ RemoveFirst(s, e) = RemoveAt(s, p)
    BY <1>1, RemoveFirstPlace
  <2>2. RemoveAt(s, p) \in Seq(S)
    BY RemoveAtPlaces
  <2> QED
    BY <1>1, <2>1, <2>2
<1>2. CASE e \notin ToSet(s)
  <2>1. ~\E i \in 1..Len(s) : s[i] = e
    BY <1>2 DEF ToSet
  <2>2. RemoveFirst(s, e) = s
    BY <2>1, Zenon DEF RemoveFirst
  <2> QED
    BY <2>2
<1> QED
  BY <1>1, <1>2

(* A list that holds every element once, without e. *)
LEMMA Unlink ==
  ASSUME NEW S, NEW s \in Seq(S), NEW e, IsInjective(s)
  PROVE  /\ RemoveFirst(s, e) \in Seq(S)
         /\ IsInjective(RemoveFirst(s, e))
         /\ ToSet(RemoveFirst(s, e)) = ToSet(s) \ {e}
<1>1. CASE e \notin ToSet(s)
  BY <1>1, RemoveFirstType
<1>2. CASE e \in ToSet(s)
  <2>1. PICK p \in 1..Len(s) : s[p] = e /\ RemoveFirst(s, e) = RemoveAt(s, p)
    BY <1>2, RemoveFirstPlace
  <2> DEFINE t == RemoveAt(s, p)
  <2>2. /\ t \in Seq(S) /\ Len(t) = Len(s) - 1
        /\ \A i \in 1..(Len(s) - 1) : t[i] = IF i < p THEN s[i] ELSE s[i + 1]
    BY RemoveAtPlaces
  <2> HIDE DEF t
  <2>3. IsInjective(t)
    <3>1. DOMAIN s = 1..Len(s) /\ DOMAIN t = 1..(Len(s) - 1) /\ Len(s) \in Nat
      BY <2>2
    <3>2. SUFFICES ASSUME NEW i \in 1..(Len(s) - 1), NEW j \in 1..(Len(s) - 1), t[i] = t[j]
                   PROVE  i = j
      BY <3>1 DEF IsInjective
    <3>3. \A k, l \in 1..Len(s) : s[k] = s[l] => k = l
      BY <3>1 DEF IsInjective
    <3>4. /\ i \in 1..Len(s) /\ i + 1 \in 1..Len(s)
          /\ j \in 1..Len(s) /\ j + 1 \in 1..Len(s)
      OBVIOUS
    <3> HIDE DEF IsInjective
    <3> QED
      BY <2>2, <3>2, <3>3, <3>4
  <2>4. ToSet(t) \subseteq ToSet(s) \ {e}
    BY <2>1, <2>2 DEF ToSet, IsInjective
  <2>5. ToSet(s) \ {e} \subseteq ToSet(t)
    <3>1. SUFFICES ASSUME NEW i \in 1..Len(s), i # p PROVE s[i] \in ToSet(t)
      BY <2>1 DEF ToSet
    <3>2. CASE i < p
      BY <2>2, <3>2 DEF ToSet
    <3>3. CASE i > p
      <4>1. i - 1 \in 1..(Len(s) - 1) /\ t[i - 1] = s[i]
        BY <2>2, <3>3
      <4> QED
        BY <2>2, <4>1 DEF ToSet
    <3> QED
      BY <3>1, <3>2, <3>3
  <2> QED
    BY <2>1, <2>2, <2>3, <2>4, <2>5 DEF t
<1> QED
  BY <1>1, <1>2

================================================================================
