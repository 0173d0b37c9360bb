---------------------------- MODULE DtlsDemuxProofs ----------------------------
(******************************************************************************)
(* Proofs about DtlsDemux, for any sets of connections, addresses, connection *)
(* IDs and timeouts: the list of connections, the ordered list of timeouts    *)
(* and the connections in memory always agree, connection IDs are unique, and *)
(* the ordered list keeps the promise of DtlsConnTable.                       *)
(******************************************************************************)
EXTENDS DtlsDemux, ListLemmas

--------------------------------------------------------------------------------
(* What the loop of freeTimeouts computes, for a list of any length. *)

(* One turn of the loop: the list so far, g[i - 1], and the next element. *)
Turn(ts, c, g, i) ==
  IF i = 0 THEN <<>>
  ELSE IF ts[i].conn = c THEN g[i - 1]
  ELSE Append(g[i - 1], ts[i])

(* The recursive function in freeTimeouts exists: its values can be computed  *)
(* one after the other.                                                       *)
LEMMA KeptExists ==
  ASSUME NEW n \in Nat, NEW ts, NEW c
  PROVE  \E g : g = [i \in 0..n |-> Turn(ts, c, g, i)]
<1> DEFINE T == {m \in Nat : \E g : g = [i \in 0..m |-> Turn(ts, c, g, i)]}
<1>1. 0 \in T
  <2>1. [i \in 0..0 |-> <<>>] = [i \in 0..0 |-> Turn(ts, c, [j \in 0..0 |-> <<>>], i)]
    BY DEF Turn
  <2> QED
    BY <2>1
<1>2. ASSUME NEW m \in 0..(n - 1), m \in T PROVE m + 1 \in T
  <2>1. PICK g : g = [i \in 0..m |-> Turn(ts, c, g, i)]
    BY <1>2
  <2> DEFINE h == [i \in 0..(m + 1) |-> IF i = m + 1 THEN Turn(ts, c, g, i) ELSE g[i]]
  <2>2. ASSUME NEW i \in 0..(m + 1) PROVE h[i] = Turn(ts, c, h, i)
    <3>1. i # 0 => i - 1 \in 0..m /\ i - 1 \in 0..(m + 1) /\ i - 1 # m + 1
      OBVIOUS
    <3>2. i # 0 => h[i - 1] = g[i - 1]
      BY <3>1
    <3>3. Turn(ts, c, h, i) = Turn(ts, c, g, i)
      <4> HIDE DEF h
      <4>1. CASE i = 0
        BY <4>1, Zenon DEF Turn
      <4>2. CASE i # 0
        <5>1. h[i - 1] = g[i - 1]
          BY <3>2, <4>2, Zenon
        <5> QED
          BY <5>1, Zenon DEF Turn
      <4> QED
        BY <4>1, <4>2, Zenon
    <3>4. CASE i = m + 1
      BY <3>3, <3>4
    <3>5. CASE i # m + 1
      <4>1. i \in 0..m
        BY <3>5
      <4>2. g[i] = Turn(ts, c, g, i)
        BY <2>1, <4>1, Zenon
      <4> QED
        BY <3>3, <3>5, <4>2
    <3> QED
      BY <3>4, <3>5
  <2>3. h = [i \in 0..(m + 1) |-> Turn(ts, c, h, i)]
    <3> HIDE DEF h
    <3>1. \E X : h = [i \in 0..(m + 1) |-> X[i]]
      BY DEF h
    <3> QED
      BY <2>2, <3>1
  <2>4. \E f : f = [i \in 0..(m + 1) |-> Turn(ts, c, f, i)]
    <3> HIDE DEF h
    <3> QED
      BY <2>3, Zenon
  <2>5. m + 1 \in Nat
    OBVIOUS
  <2> QED
    BY <2>4, <2>5, Zenon
<1>3. n \in T
  <2> HIDE DEF T
  <2>1. \A i \in 0..n : i \in T
    BY <1>1, <1>2, InductionUpTo
  <2> QED
    BY <2>1
<1> QED
  BY <1>3

(* The list r is what the loop keeps of the first n elements of ts, in their  *)
(* order: e says where the elements of r come from.                           *)
Keeps(ts, c, n, r, e) ==
  /\ e \in [1..Len(r) -> 1..n]
  /\ \A j, k \in 1..Len(r) : j < k => e[j] < e[k]
  /\ \A k \in 1..Len(r) : r[k] = ts[e[k]] /\ ts[e[k]].conn # c
  /\ \A i \in 1..n : ts[i].conn = c \/ \E k \in 1..Len(r) : e[k] = i

(* A turn that drops the next element. *)
LEMMA TurnDrops ==
  ASSUME NEW S, NEW ts \in Seq(S), NEW c, NEW n \in Nat, NEW r \in Seq(S), NEW e,
         Keeps(ts, c, n, r, e), ts[n + 1].conn = c
  PROVE  Keeps(ts, c, n + 1, r, e)
<1>1. Len(r) \in Nat
  OBVIOUS
<1>2. e \in [1..Len(r) -> 1..(n + 1)]
  BY <1>1 DEF Keeps
<1>3. \A i \in 1..(n + 1) : i = n + 1 \/ i \in 1..n
  OBVIOUS
<1> QED
  BY <1>2, <1>3 DEF Keeps

(* A turn that keeps it. *)
LEMMA TurnKeeps ==
  ASSUME NEW S, NEW ts \in Seq(S), NEW c, NEW n \in Nat, NEW r \in Seq(S), NEW e,
         n + 1 \in 1..Len(ts),
         Keeps(ts, c, n, r, e), ts[n + 1].conn # c
  PROVE  \E f : Keeps(ts, c, n + 1, Append(r, ts[n + 1]), f)
<1> DEFINE q == Append(r, ts[n + 1])
           f == [k \in 1..(Len(r) + 1) |-> IF k = Len(r) + 1 THEN n + 1 ELSE e[k]]
<1>1. /\ Len(r) \in Nat /\ Len(q) = Len(r) + 1
      /\ q[Len(r) + 1] = ts[n + 1] /\ \A k \in 1..Len(r) : q[k] = r[k]
  OBVIOUS
<1>2. \A k \in 1..(Len(r) + 1) : k = Len(r) + 1 \/ k \in 1..Len(r)
  BY <1>1
<1>3. \A k \in 1..Len(r) : e[k] \in 1..n
  BY DEF Keeps
<1>4. /\ \A k \in 1..Len(r) : f[k] = e[k]
      /\ f[Len(r) + 1] = n + 1
      /\ f \in [1..(Len(r) + 1) -> 1..(n + 1)]
  BY <1>1, <1>2, <1>3
<1> HIDE DEF q, f
<1>5. \A j, k \in 1..Len(q) : j < k => f[j] < f[k]
  <2> SUFFICES ASSUME NEW j \in 1..(Len(r) + 1), NEW k \in 1..(Len(r) + 1), j < k
               PROVE  f[j] < f[k]
    BY <1>1
  <2>1. j \in 1..Len(r)
    BY <1>1
  <2>2. CASE k = Len(r) + 1
    BY <1>3, <1>4, <2>1, <2>2
  <2>3. CASE k \in 1..Len(r)
    BY <1>4, <2>1, <2>3 DEF Keeps
  <2> QED
    BY <1>2, <2>2, <2>3
<1>6. \A k \in 1..Len(q) : q[k] = ts[f[k]] /\ ts[f[k]].conn # c
  BY <1>1, <1>2, <1>4 DEF Keeps
<1>7. \A i \in 1..(n + 1) : ts[i].conn = c \/ \E k \in 1..Len(q) : f[k] = i
  <2> SUFFICES ASSUME NEW i \in 1..(n + 1), ts[i].conn # c
               PROVE  \E k \in 1..Len(q) : f[k] = i
    OBVIOUS
  <2>1. CASE i = n + 1
    <3>1. Len(r) + 1 \in 1..Len(q)
      BY <1>1
    <3> QED
      BY <1>4, <2>1, <3>1
  <2>2. CASE i \in 1..n
    <3>1. PICK k \in 1..Len(r) : e[k] = i
      BY <2>2 DEF Keeps
    <3>2. k \in 1..Len(q) /\ f[k] = i
      BY <1>1, <1>4, <3>1
    <3> QED
      BY <3>2
  <2> QED
    BY <2>1, <2>2
<1>8. Keeps(ts, c, n + 1, q, f)
  BY <1>1, <1>4, <1>5, <1>6, <1>7 DEF Keeps
<1> QED
  BY <1>8 DEF q

(* freeTimeouts returns the timeouts of the other connections, in their order. *)
LEMMA FreeTimeoutsKeeps ==
  ASSUME NEW S, NEW ts \in Seq(S), NEW c
  PROVE  /\ freeTimeouts(ts, c) \in Seq(S)
         /\ \E e : Keeps(ts, c, Len(ts), freeTimeouts(ts, c), e)
<1>1. Len(ts) \in Nat
  OBVIOUS
<1>2. PICK g : /\ g = [i \in 0..Len(ts) |-> Turn(ts, c, g, i)]
               /\ freeTimeouts(ts, c) = g[Len(ts)]
  <2> DEFINE IsKept(f) == f = [i \in 0..Len(ts) |-> Turn(ts, c, f, i)]
             h == CHOOSE f : IsKept(f)
  <2>1. \E f : IsKept(f)
    BY <1>1, KeptExists, Zenon
  <2>2. IsKept(h)
    BY <2>1, Zenon
  <2>3. freeTimeouts(ts, c) = h[Len(ts)]
    BY DEF freeTimeouts, Turn
  <2> QED
    BY <2>2, <2>3, Zenon
<1>3. \A i \in 0..Len(ts) : g[i] = Turn(ts, c, g, i)
  BY <1>2, Zenon
<1> DEFINE T == {n \in 0..Len(ts) : g[n] \in Seq(S) /\ \E e : Keeps(ts, c, n, g[n], e)}
<1>4. 0 \in T
  <2>1. 0 \in 0..Len(ts)
    BY <1>1
  <2>2. g[0] = <<>>
    BY <1>3, <2>1 DEF Turn
  <2>3. Keeps(ts, c, 0, <<>>, <<>>)
    BY DEF Keeps
  <2>4. g[0] \in Seq(S)
    BY <2>2
  <2> QED
    BY <2>1, <2>2, <2>3, <2>4, Zenon
<1>5. ASSUME NEW n \in 0..(Len(ts) - 1), n \in T PROVE n + 1 \in T
  <2>1. PICK e : Keeps(ts, c, n, g[n], e)
    BY <1>5
  <2>2. n \in Nat /\ n + 1 \in 1..Len(ts) /\ n + 1 \in 0..Len(ts) /\ (n + 1) - 1 = n /\ n + 1 # 0
    BY <1>1
  <2>3. g[n] \in Seq(S) /\ ts[n + 1] \in S
    BY <1>5, <2>2
  <2>4. g[n + 1] = IF ts[n + 1].conn = c THEN g[n] ELSE Append(g[n], ts[n + 1])
    BY <1>3, <2>2, Zenon DEF Turn
  <2>5. CASE ts[n + 1].conn = c
    <3>1. Keeps(ts, c, n + 1, g[n], e)
      BY <2>1, <2>2, <2>3, <2>5, TurnDrops
    <3> QED
      BY <2>2, <2>3, <2>4, <2>5, <3>1
  <2>6. CASE ts[n + 1].conn # c
    <3>1. PICK f : Keeps(ts, c, n + 1, Append(g[n], ts[n + 1]), f)
      BY <2>1, <2>2, <2>3, <2>6, TurnKeeps
    <3>2. Append(g[n], ts[n + 1]) \in Seq(S)
      BY <2>3
    <3> QED
      BY <2>2, <2>4, <2>6, <3>1, <3>2
  <2> QED
    BY <2>5, <2>6
<1>6. Len(ts) \in T
  <2> HIDE DEF T
  <2>1. \A i \in 0..Len(ts) : i \in T
    BY <1>1, <1>4, <1>5, InductionUpTo
  <2> QED
    BY <1>1, <2>1
<1> QED
  BY <1>2, <1>6

--------------------------------------------------------------------------------
(* The ordered list. *)

Timers == [conn : Conns, left : Nat]

(* A connection has one timeout. *)
OnePerConn(ts) == \A i, j \in DOMAIN ts : ts[i].conn = ts[j].conn => i = j

(* The earliest timeout is first. *)
InOrder(ts) == \A i, j \in DOMAIN ts : i < j => ts[i].left <= ts[j].left

GoodList(ts) == ts \in Seq(Timers) /\ OnePerConn(ts) /\ InOrder(ts)

(* The places of such a list. *)
LEMMA GoodListPlaces ==
  ASSUME NEW ts, GoodList(ts)
  PROVE  /\ ts \in Seq(Timers) /\ DOMAIN ts = 1..Len(ts) /\ Len(ts) \in Nat
         /\ \A i \in DOMAIN ts : i \in Nat /\ ts[i].left \in Nat
<1>1. ts \in Seq(Timers)
  BY DEF GoodList
<1>2. DOMAIN ts = 1..Len(ts) /\ Len(ts) \in Nat /\ \A i \in DOMAIN ts : ts[i] \in Timers
  BY <1>1
<1>3. \A t \in Timers : t.left \in Nat
  BY DEF Timers
<1>4. \A i \in DOMAIN ts : i \in Nat
  BY <1>2
<1> QED
  BY <1>1, <1>2, <1>3, <1>4

(* freeTimeouts on such a list. *)
LEMMA FreeTimeoutsGood ==
  ASSUME NEW ts, GoodList(ts), NEW c
  PROVE  /\ GoodList(freeTimeouts(ts, c))
         /\ ToSet(freeTimeouts(ts, c)) = {t \in ToSet(ts) : t.conn # c}
<1> DEFINE r == freeTimeouts(ts, c)
<1>1. ts \in Seq(Timers)
  BY DEF GoodList
<1>2. r \in Seq(Timers) /\ \E e : Keeps(ts, c, Len(ts), r, e)
  BY <1>1, FreeTimeoutsKeeps
<1> HIDE DEF r
<1>3. PICK e : Keeps(ts, c, Len(ts), r, e)
  BY <1>2
<1>4. DOMAIN ts = 1..Len(ts) /\ DOMAIN r = 1..Len(r) /\ Len(r) \in Nat /\ Len(ts) \in Nat
  BY <1>1, <1>2
<1>5. \A k \in DOMAIN r : e[k] \in DOMAIN ts /\ r[k] = ts[e[k]] /\ r[k].conn # c
  BY <1>3, <1>4 DEF Keeps
<1>6. \A j, k \in DOMAIN r : j < k => e[j] < e[k]
  BY <1>3, <1>4 DEF Keeps
<1>7. InOrder(r)
  BY <1>5, <1>6 DEF InOrder, GoodList
<1>8. OnePerConn(r)
  <2> SUFFICES ASSUME NEW j \in DOMAIN r, NEW k \in DOMAIN r, r[j].conn = r[k].conn
               PROVE  j = k
    BY DEF OnePerConn
  <2>1. e[j] = e[k]
    BY <1>5 DEF GoodList, OnePerConn
  <2>2. e[j] \in Nat /\ e[k] \in Nat /\ j \in Nat /\ k \in Nat
    BY <1>4, <1>5
  <2>3. ~(j < k) /\ ~(k < j)
    BY <1>6, <2>1, <2>2
  <2> QED
    BY <2>2, <2>3
<1>9. ToSet(r) = {t \in ToSet(ts) : t.conn # c}
  <2>1. ToSet(r) \subseteq {t \in ToSet(ts) : t.conn # c}
    BY <1>5 DEF ToSet
  <2>2. ASSUME NEW i \in DOMAIN ts, ts[i].conn # c PROVE ts[i] \in ToSet(r)
    <3>1. PICK k \in DOMAIN r : e[k] = i
      BY <1>3, <1>4, <2>2 DEF Keeps
    <3>2. r[k] = ts[i]
      BY <1>5, <3>1
    <3> QED
      BY <3>2 DEF ToSet
  <2>3. {t \in ToSet(ts) : t.conn # c} \subseteq ToSet(r)
    BY <2>2, Zenon DEF ToSet
  <2> QED
    BY <2>1, <2>3
<1> QED
  BY <1>2, <1>7, <1>8, <1>9 DEF r, GoodList

(* Where registerTimeout puts a timeout. *)
LEMMA InsertionPlace ==
  ASSUME NEW ts, GoodList(ts), NEW left \in Nat
  PROVE  LET p == InsertionPoint(ts, left) IN
           /\ p \in 1..(Len(ts) + 1)
           /\ \A i \in DOMAIN ts : i < p => ts[i].left <= left
           /\ \A i \in DOMAIN ts : p <= i => left <= ts[i].left
<1> DEFINE later == {i \in DOMAIN ts : left < ts[i].left}
           T == later \cup {Len(ts) + 1}
           p == Min(T)
<1>1. /\ ts \in Seq(Timers) /\ DOMAIN ts = 1..Len(ts) /\ Len(ts) \in Nat
      /\ \A i \in DOMAIN ts : i \in Nat /\ ts[i].left \in Nat
  BY GoodListPlaces
<1>2. T \in SUBSET Nat /\ T # {}
  BY <1>1
<1>3. p \in T /\ \A y \in T : p <= y
  <2> HIDE DEF T
  <2> QED
    BY <1>2, MinIsLeast
<1>4. InsertionPoint(ts, left) = p
  BY DEF InsertionPoint
<1> HIDE DEF p
<1>5. p \in 1..(Len(ts) + 1)
  BY <1>1, <1>3
<1>6. \A i \in DOMAIN ts : i < p => ts[i].left <= left
  <2> SUFFICES ASSUME NEW i \in DOMAIN ts, i < p PROVE ts[i].left <= left
    OBVIOUS
  <2>1. i \notin later
    BY <1>1, <1>3, <1>5
  <2> QED
    BY <1>1, <2>1
<1>7. \A i \in DOMAIN ts : p <= i => left <= ts[i].left
  <2> SUFFICES ASSUME NEW i \in DOMAIN ts, p <= i PROVE left <= ts[i].left
    OBVIOUS
  <2>1. p \in DOMAIN ts
    BY <1>1, <1>5
  <2>2. left < ts[p].left
    BY <1>1, <1>3, <2>1
  <2>3. ts[p].left <= ts[i].left
    BY <1>1, <2>1 DEF GoodList, InOrder
  <2> QED
    BY <1>1, <2>1, <2>2, <2>3
<1> QED
  BY <1>4, <1>5, <1>6, <1>7

(* The timeouts when connection c has got a new one. *)
Replaced(L, c, left) == {t \in L : t.conn # c} \cup {[conn |-> c, left |-> left]}

(* registerTimeout leaves the list in order, with one timeout for the         *)
(* connection, the new one, and those of the others as they were.             *)
LEMMA RegisterTimeoutGood ==
  ASSUME NEW ts, GoodList(ts), NEW c \in Conns, NEW left \in Nat
  PROVE  /\ GoodList(registerTimeout(ts, c, left))
         /\ ToSet(registerTimeout(ts, c, left)) = Replaced(ToSet(ts), c, left)
<1> DEFINE rest == freeTimeouts(ts, c)
           t == [conn |-> c, left |-> left]
           p == InsertionPoint(rest, left)
           r == InsertAt(rest, p, t)
<1>1. GoodList(rest) /\ ToSet(rest) = {u \in ToSet(ts) : u.conn # c}
  BY FreeTimeoutsGood
<1>2. registerTimeout(ts, c, left) = r
  BY DEF registerTimeout
<1> HIDE DEF rest
<1>3. /\ p \in 1..(Len(rest) + 1)
      /\ \A i \in DOMAIN rest : i < p => rest[i].left <= left
      /\ \A i \in DOMAIN rest : p <= i => left <= rest[i].left
  BY <1>1, InsertionPlace
<1>4. t \in Timers /\ t.conn = c /\ t.left = left
  BY DEF Timers
<1> HIDE DEF p, t
<1>5. /\ rest \in Seq(Timers) /\ DOMAIN rest = 1..Len(rest) /\ Len(rest) \in Nat
      /\ \A i \in DOMAIN rest : i \in Nat /\ rest[i].left \in Nat
  BY <1>1, GoodListPlaces
<1>6. /\ r \in Seq(Timers) /\ Len(r) = Len(rest) + 1
      /\ \A i \in 1..(Len(rest) + 1) :
           r[i] = IF i < p THEN rest[i] ELSE IF i = p THEN t ELSE rest[i - 1]
  BY <1>3, <1>4, <1>5, InsertAtPlaces
<1> HIDE DEF r
<1>7. DOMAIN r = 1..(Len(rest) + 1)
  BY <1>5, <1>6
<1>8. ASSUME NEW i \in DOMAIN r
      PROVE  \/ i < p /\ i \in DOMAIN rest /\ r[i] = rest[i]
             \/ i = p /\ r[i] = t
             \/ p < i /\ i - 1 \in DOMAIN rest /\ p <= i - 1 /\ r[i] = rest[i - 1]
  BY <1>3, <1>5, <1>6, <1>7
<1>9. \A i \in DOMAIN rest : rest[i].conn # c
  BY <1>1 DEF ToSet
<1>10. InOrder(r)
  <2> SUFFICES ASSUME NEW i \in DOMAIN r, NEW j \in DOMAIN r, i < j
               PROVE  r[i].left <= r[j].left
    BY DEF InOrder
  <2>1. i \in Nat /\ j \in Nat /\ p \in Nat
    BY <1>3, <1>5, <1>7
  <2>2. \A a, b \in DOMAIN rest : a <= b => rest[a].left <= rest[b].left
    BY <1>1, <1>5 DEF GoodList, InOrder
  <2>3. CASE i < p /\ j < p
    BY <1>5, <1>8, <2>1, <2>2, <2>3
  <2>4. CASE i < p /\ j = p
    BY <1>3, <1>4, <1>8, <2>1, <2>4
  <2>5. CASE i < p /\ p < j
    BY <1>5, <1>8, <2>1, <2>2, <2>5
  <2>6. CASE i = p
    BY <1>3, <1>4, <1>8, <2>1, <2>6
  <2>7. CASE p < i
    <3>1. i - 1 \in DOMAIN rest /\ r[i] = rest[i - 1]
      BY <1>8, <2>1, <2>7
    <3>2. j - 1 \in DOMAIN rest /\ r[j] = rest[j - 1]
      BY <1>8, <2>1, <2>7
    <3> QED
      BY <2>1, <2>2, <3>1, <3>2
  <2> QED
    BY <2>1, <2>3, <2>4, <2>5, <2>6, <2>7
<1>11. OnePerConn(r)
  <2> SUFFICES ASSUME NEW i \in DOMAIN r, NEW j \in DOMAIN r, r[i].conn = r[j].conn
               PROVE  i = j
    BY DEF OnePerConn
  <2>1. i \in Nat /\ j \in Nat /\ p \in Nat
    BY <1>3, <1>5, <1>7
  <2>2. \A a, b \in DOMAIN rest : rest[a].conn = rest[b].conn => a = b
    BY <1>1 DEF GoodList, OnePerConn
  <2> QED
    BY <1>4, <1>8, <1>9, <2>1, <2>2
<1>12. ToSet(r) = ToSet(rest) \cup {t}
  <2>1. ToSet(r) \subseteq ToSet(rest) \cup {t}
    BY <1>8, Zenon DEF ToSet
  <2>2. t \in ToSet(r)
    <3>1. p \in DOMAIN r /\ r[p] = t
      BY <1>3, <1>5, <1>6, <1>7
    <3> QED
      BY <3>1 DEF ToSet
  <2>3. ASSUME NEW i \in DOMAIN rest PROVE rest[i] \in ToSet(r)
    <3>1. CASE i < p
      <4>1. i \in DOMAIN r /\ r[i] = rest[i]
        BY <1>5, <1>6, <1>7, <3>1
      <4> QED
        BY <4>1 DEF ToSet
    <3>2. CASE ~(i < p)
      <4>1. i + 1 \in DOMAIN r /\ ~(i + 1 < p) /\ i + 1 # p /\ (i + 1) - 1 = i
        BY <1>3, <1>5, <1>7, <3>2
      <4>2. r[i + 1] = rest[i]
        BY <1>6, <1>7, <4>1
      <4> QED
        BY <4>1, <4>2 DEF ToSet
    <3> QED
      BY <3>1, <3>2
  <2>4. ToSet(rest) \subseteq ToSet(r)
    BY <2>3, Zenon DEF ToSet
  <2> QED
    BY <2>1, <2>2, <2>4
<1> QED
  BY <1>1, <1>2, <1>6, <1>10, <1>11, <1>12 DEF GoodList, Replaced, t

--------------------------------------------------------------------------------
(* The lists and the connections in memory. *)

ConnRecs == [peer : Addrs, cid : Cids, finished : BOOLEAN, age : 0..AgeCap]

(* The connections that timeouts of L belong to. *)
ConnsOf(L) == {t.conn : t \in L}

(* connList holds every connection in memory once. *)
ConnListInv == IsInjective(connList) /\ ToSet(connList) = DOMAIN conn

(* The timeouts are in order, one for each connection in memory. *)
TimeoutsInv ==
  /\ GoodList(timeouts)
  /\ ConnsOf(ToSet(timeouts)) = DOMAIN conn

(* Connection IDs are unique whatever main is doing: newSSL is called in the  *)
(* loop with every connection in the list.                                    *)
CidInv ==
  /\ \A c, d \in DOMAIN conn : conn[c].cid = conn[d].cid => c = d
  /\ \A c \in DOMAIN conn : conn[c].cid # listenSSL

DemuxInv == TypeOK /\ ConnListInv /\ TimeoutsInv /\ CidInv

(* What the types say of a connection in memory. *)
LEMMA ConnRecord ==
  ASSUME TypeOK, NEW c \in DOMAIN conn
  PROVE  /\ c \in Conns
         /\ conn[c].peer \in Addrs /\ conn[c].cid \in Cids
         /\ conn[c].finished \in BOOLEAN /\ conn[c].age \in 0..AgeCap
<1>1. c \in Conns
  BY DEF TypeOK
<1>2. conn[c] \in ConnRecs
  BY DEF TypeOK, ConnRecs
<1>3. \A r \in ConnRecs : /\ r.peer \in Addrs /\ r.cid \in Cids
                          /\ r.finished \in BOOLEAN /\ r.age \in 0..AgeCap
  BY DEF ConnRecs
<1> QED
  BY <1>1, <1>2, <1>3

(* How long the server waits is a natural number. *)
LEMMA WaitsType == \A fin \in BOOLEAN : \A left \in Waits(fin) : left \in Nat
BY DemuxAssumption DEF Waits

(* Whose timeouts a list holds when that of c is replaced. *)
LEMMA ReplacedTimeout ==
  ASSUME NEW L, NEW c, NEW left
  PROVE  ConnsOf(Replaced(L, c, left)) = ConnsOf(L) \cup {c}
<1> DEFINE u == [conn |-> c, left |-> left]
           M == Replaced(L, c, left)
<1>1. u.conn = c
  OBVIOUS
<1> HIDE DEF u, M
<1>2. M = {t \in L : t.conn # c} \cup {u}
  BY DEF u, M, Replaced
<1>3. \A t \in M : t.conn \in {v.conn : v \in L} \cup {c}
  BY <1>1, <1>2
<1>4. \A t \in L : t.conn \in {v.conn : v \in M}
  BY <1>1, <1>2
<1>5. c \in {v.conn : v \in M}
  BY <1>1, <1>2
<1> QED
  BY <1>3, <1>4, <1>5 DEF ConnsOf, M

(* A step that keeps connection c and gives it a new timeout. *)
LEMMA KeepStep ==
  ASSUME DemuxInv, NEW c \in DOMAIN conn, NEW left \in Nat,
         timeouts' = registerTimeout(timeouts, c, left),
         conn' \in [DOMAIN conn -> ConnRecs],
         \A d \in DOMAIN conn : conn'[d].cid = conn[d].cid,
         UNCHANGED <<connList, listenSSL, main>>
  PROVE  DemuxInv'
<1>1. c \in Conns /\ DOMAIN conn' = DOMAIN conn
  BY DEF DemuxInv, TypeOK
<1>2. GoodList(timeouts) /\ c \in Conns /\ left \in Nat
  BY <1>1 DEF DemuxInv, TimeoutsInv
<1>3. /\ GoodList(timeouts')
      /\ ToSet(timeouts') = Replaced(ToSet(timeouts), c, left)
  BY <1>2, RegisterTimeoutGood
<1>4. ConnsOf(ToSet(timeouts')) = DOMAIN conn'
  <2>1. ConnsOf(ToSet(timeouts)) = DOMAIN conn
    BY DEF DemuxInv, TimeoutsInv
  <2>2. ConnsOf(ToSet(timeouts')) = ConnsOf(ToSet(timeouts)) \cup {c}
    BY <1>3, ReplacedTimeout
  <2> QED
    BY <1>1, <2>1, <2>2
<1>5. TypeOK'
  BY <1>1, <1>3 DEF DemuxInv, TypeOK, ConnRecs, GoodList, Timers
<1>6. ConnListInv'
  BY <1>1 DEF DemuxInv, ConnListInv
<1>7. CidInv'
  BY <1>1 DEF DemuxInv, CidInv
<1> QED
  BY <1>3, <1>4, <1>5, <1>6, <1>7 DEF DemuxInv, TimeoutsInv

(* A step that frees connection c. *)
LEMMA FreeStep ==
  ASSUME DemuxInv, NEW c \in DOMAIN conn, freeConn(c), UNCHANGED <<listenSSL, main>>
  PROVE  DemuxInv'
<1>1. /\ DOMAIN conn' = DOMAIN conn \ {c}
      /\ \A d \in DOMAIN conn' : conn'[d] = conn[d]
      /\ conn' = [d \in DOMAIN conn \ {c} |-> conn[d]]
  BY DEF freeConn
<1>2. GoodList(timeouts)
  BY DEF DemuxInv, TimeoutsInv
<1>3. /\ GoodList(timeouts')
      /\ ToSet(timeouts') = {t \in ToSet(timeouts) : t.conn # c}
  BY <1>2, FreeTimeoutsGood DEF freeConn
<1>4. ConnsOf(ToSet(timeouts')) = DOMAIN conn'
  <2>1. ConnsOf(ToSet(timeouts)) = DOMAIN conn
    BY DEF DemuxInv, TimeoutsInv
  <2> QED
    BY <1>1, <1>3, <2>1 DEF ConnsOf
<1>5. connList \in Seq(Conns) /\ IsInjective(connList)
  BY DEF DemuxInv, TypeOK, ConnListInv
<1>6. /\ connList' \in Seq(Conns) /\ IsInjective(connList')
      /\ ToSet(connList') = ToSet(connList) \ {c}
  BY <1>5, Unlink DEF freeConn
<1>7. ConnListInv'
  BY <1>1, <1>6 DEF DemuxInv, ConnListInv
<1>8. CidInv'
  BY <1>1 DEF DemuxInv, CidInv
<1>9. conn' \in [DOMAIN conn' -> ConnRecs]
  <2>1. \A d \in DOMAIN conn : conn[d] \in ConnRecs
    BY DEF DemuxInv, TypeOK, ConnRecs
  <2> QED
    BY <1>1, <2>1
<1>10. TypeOK'
  BY <1>1, <1>3, <1>6, <1>9 DEF DemuxInv, TypeOK, ConnRecs, GoodList, Timers
<1> QED
  BY <1>3, <1>4, <1>7, <1>8, <1>10 DEF DemuxInv, TimeoutsInv

(* A step that makes the listening object connection c. *)
LEMMA NewStep ==
  ASSUME DemuxInv, NEW msg \in Messages, NEW c \in Conns, DispatchNew(msg, c)
  PROVE  DemuxInv'
<1> DEFINE new == [peer |-> msg.addr, cid |-> listenSSL, finished |-> FALSE, age |-> 0]
<1>1. /\ c \notin DOMAIN conn
      /\ DOMAIN conn' = DOMAIN conn \cup {c}
      /\ conn'[c] = new
      /\ \A d \in DOMAIN conn : conn'[d] = conn[d]
      /\ conn' = [d \in DOMAIN conn \cup {c} |-> IF d = c THEN new ELSE conn[d]]
  BY DEF DispatchNew, newConn
<1>2. new \in ConnRecs /\ new.cid = listenSSL
  BY DemuxAssumption DEF ConnRecs, Messages, DemuxInv, TypeOK
<1> HIDE DEF new
<1>3. PICK left \in Waits(FALSE) : timeouts' = registerTimeout(timeouts, c, left)
  BY DEF DispatchNew
<1>4. GoodList(timeouts) /\ left \in Nat
  BY <1>3, WaitsType DEF DemuxInv, TimeoutsInv
<1>5. /\ GoodList(timeouts')
      /\ ToSet(timeouts') = Replaced(ToSet(timeouts), c, left)
  BY <1>3, <1>4, RegisterTimeoutGood
<1>6. ConnsOf(ToSet(timeouts')) = DOMAIN conn'
  <2>1. ConnsOf(ToSet(timeouts)) = DOMAIN conn
    BY DEF DemuxInv, TimeoutsInv
  <2>2. ConnsOf(ToSet(timeouts')) = ConnsOf(ToSet(timeouts)) \cup {c}
    BY <1>5, ReplacedTimeout
  <2> QED
    BY <1>1, <2>1, <2>2
<1>7. connList \in Seq(Conns) /\ IsInjective(connList) /\ c \notin ToSet(connList)
  BY <1>1 DEF DemuxInv, TypeOK, ConnListInv
<1>8. /\ connList' \in Seq(Conns) /\ IsInjective(connList')
      /\ ToSet(connList') = ToSet(connList) \cup {c}
  BY <1>7, PushFront DEF DispatchNew, newConn
<1>9. ConnListInv'
  BY <1>1, <1>8 DEF DemuxInv, ConnListInv
<1>10. CidInv'
  <2>1. listenSSL' \in Cids /\ \A d \in DOMAIN conn' : conn'[d].cid # listenSSL'
    BY DEF DispatchNew, FreshCids
  <2> QED
    BY <1>1, <1>2, <2>1 DEF DemuxInv, CidInv
<1>11. conn' \in [DOMAIN conn' -> ConnRecs]
  <2>1. \A d \in DOMAIN conn : conn[d] \in ConnRecs
    BY DEF DemuxInv, TypeOK, ConnRecs
  <2> QED
    BY <1>1, <1>2, <2>1
<1>12. TypeOK'
  <2>1. main' = main /\ listenSSL' \in Cids
    BY DEF DispatchNew, FreshCids
  <2> QED
    BY <1>1, <1>5, <1>8, <1>11, <2>1 DEF DemuxInv, TypeOK, ConnRecs, GoodList, Timers
<1> QED
  BY <1>5, <1>6, <1>9, <1>10, <1>12 DEF DemuxInv, TimeoutsInv

(* Time passes for a list of timeouts. *)
Ticked(ts) == [i \in DOMAIN ts |-> [ts[i] EXCEPT !.left = IF @ > 0 THEN @ - 1 ELSE 0]]

(* A list stays good when as much time passes for every timeout in it. *)
LEMMA TickedGood ==
  ASSUME NEW ts, GoodList(ts)
  PROVE  /\ GoodList(Ticked(ts))
         /\ DOMAIN Ticked(ts) = DOMAIN ts
         /\ \A i \in DOMAIN ts :
              /\ Ticked(ts)[i].conn = ts[i].conn
              /\ Ticked(ts)[i].left = IF ts[i].left > 0 THEN ts[i].left - 1 ELSE 0
<1>1. /\ ts \in Seq(Timers) /\ DOMAIN ts = 1..Len(ts) /\ Len(ts) \in Nat
      /\ \A i \in DOMAIN ts : i \in Nat /\ ts[i].left \in Nat
  BY GoodListPlaces
<1>2. \A i \in DOMAIN ts : ts[i] \in Timers
  BY <1>1
<1>3. ASSUME NEW t \in Timers
      PROVE  LET u == [t EXCEPT !.left = IF @ > 0 THEN @ - 1 ELSE 0] IN
               u \in Timers /\ u.conn = t.conn /\ u.left = IF t.left > 0 THEN t.left - 1 ELSE 0
  BY DEF Timers
<1>4. /\ DOMAIN Ticked(ts) = DOMAIN ts
      /\ \A i \in DOMAIN ts : /\ Ticked(ts)[i] \in Timers
                              /\ Ticked(ts)[i].conn = ts[i].conn
                              /\ Ticked(ts)[i].left = IF ts[i].left > 0 THEN ts[i].left - 1 ELSE 0
  BY <1>2, <1>3 DEF Ticked
<1>5. Ticked(ts) \in Seq(Timers)
  <2>1. Ticked(ts) = [i \in 1..Len(ts) |-> Ticked(ts)[i]]
    BY <1>1 DEF Ticked
  <2> QED
    BY <1>1, <1>4, <2>1, IsASeq
<1>6. OnePerConn(Ticked(ts))
  BY <1>4 DEF GoodList, OnePerConn
<1>7. InOrder(Ticked(ts))
  <2>1. \A a, b \in Nat : a <= b => (IF a > 0 THEN a - 1 ELSE 0) <= (IF b > 0 THEN b - 1 ELSE 0)
    OBVIOUS
  <2> QED
    BY <1>1, <1>4, <2>1 DEF GoodList, InOrder
<1> QED
  BY <1>4, <1>5, <1>6, <1>7 DEF GoodList

(* Time passes. *)
LEMMA TickStep ==
  ASSUME DemuxInv, Tick
  PROVE  DemuxInv'
<1>1. GoodList(timeouts) /\ timeouts' = Ticked(timeouts)
  BY DEF DemuxInv, TimeoutsInv, Tick, Ticked
<1>2. /\ GoodList(timeouts') /\ DOMAIN timeouts' = DOMAIN timeouts
      /\ \A i \in DOMAIN timeouts : timeouts'[i].conn = timeouts[i].conn
  BY <1>1, TickedGood
<1>3. /\ DOMAIN conn' = DOMAIN conn
      /\ \A c \in DOMAIN conn : conn'[c] \in ConnRecs /\ conn'[c].cid = conn[c].cid
  <2>1. \A c \in DOMAIN conn : conn[c] \in ConnRecs
    BY DEF DemuxInv, TypeOK, ConnRecs
  <2>2. ASSUME NEW r \in ConnRecs, NEW a, NEW fin, a = (r.age < AgeCap /\ ~fin)
        PROVE  LET u == [r EXCEPT !.age = IF @ < AgeCap /\ ~fin THEN @ + 1 ELSE @] IN
                 u \in ConnRecs /\ u.cid = r.cid
    BY DemuxAssumption DEF ConnRecs
  <2> QED
    BY <2>1, <2>2 DEF Tick
<1>4. conn' \in [DOMAIN conn' -> ConnRecs]
  BY <1>3 DEF Tick
<1>5. ConnsOf(ToSet(timeouts')) = ConnsOf(ToSet(timeouts))
  BY <1>2 DEF ToSet, ConnsOf
<1>6. TimeoutsInv'
  BY <1>2, <1>3, <1>5 DEF DemuxInv, TimeoutsInv
<1>7. ConnListInv' /\ CidInv'
  BY <1>3 DEF DemuxInv, ConnListInv, CidInv, Tick
<1>8. TypeOK'
  BY <1>2, <1>3, <1>4 DEF DemuxInv, TypeOK, ConnRecs, GoodList, Timers, Tick
<1> QED
  BY <1>6, <1>7, <1>8 DEF DemuxInv

(* The empty lists of the start and the end. *)
LEMMA EmptyLists ==
  ASSUME conn = <<>>, connList = <<>>, timeouts = <<>>, listenSSL \in Cids,
         main \in {"setup", "loop", "done"}
  PROVE  DemuxInv
<1>1. DOMAIN conn = {} /\ ToSet(connList) = {} /\ ToSet(timeouts) = {}
  BY DEF ToSet
<1>2. TypeOK
  BY <1>1 DEF TypeOK
<1>3. ConnListInv /\ TimeoutsInv /\ CidInv
  BY <1>1 DEF ConnListInv, TimeoutsInv, CidInv, IsInjective, GoodList, OnePerConn,
               InOrder, ConnsOf
<1> QED
  BY <1>2, <1>3 DEF DemuxInv

(* The connection of the first timeout, and one that a message is found to    *)
(* belong to, is in memory.                                                   *)
LEMMA DueIsOpen ==
  ASSUME DemuxInv, NEW c, Due(c)
  PROVE  c \in DOMAIN conn /\ [conn |-> c, left |-> 0] \in ToSet(timeouts)
<1>1. timeouts \in Seq(Timers) /\ timeouts # <<>>
  BY DEF Due, DemuxInv, TimeoutsInv, GoodList
<1>2. Head(timeouts) \in ToSet(timeouts)
  BY <1>1 DEF ToSet
<1>3. [conn |-> c, left |-> 0].conn = c
  OBVIOUS
<1> QED
  BY <1>2, <1>3 DEF Due, DemuxInv, TimeoutsInv, ConnsOf

(* ... and so is the connection that findConn finds for a datagram. *)
LEMMA FoundIsOpen ==
  ASSUME DemuxInv, NEW msg, Matches(msg) # {}
  PROVE  findConn(msg) \in DOMAIN conn
<1>1. Matches(msg) \in SUBSET Nat
  BY DEF Matches, DemuxInv, TypeOK
<1>2. Min(Matches(msg)) \in Matches(msg)
  BY <1>1, MinIsLeast
<1>3. Min(Matches(msg)) \in DOMAIN connList
  BY <1>2 DEF Matches
<1> QED
  BY <1>3 DEF findConn, DemuxInv, ConnListInv, ToSet

(* Every step keeps the invariant. *)
LEMMA DemuxStep ==
  ASSUME DemuxInv, [Next]_vars
  PROVE  DemuxInv'
<1>1. CASE UNCHANGED vars
  BY <1>1 DEF vars, DemuxInv, TypeOK, ConnListInv, TimeoutsInv, CidInv, ConnsOf,
              GoodList, OnePerConn, InOrder
<1>2. ASSUME NEW c \in Conns, TimeoutRetransmit(c)
      PROVE  DemuxInv'
  <2>1. c \in DOMAIN conn
    BY <1>2, DueIsOpen DEF TimeoutRetransmit
  <2>2. PICK left \in Waits(FALSE) : timeouts' = registerTimeout(timeouts, c, left)
    BY <1>2 DEF TimeoutRetransmit
  <2>3. left \in Nat
    BY <2>2, WaitsType
  <2>4. conn' = conn /\ conn' \in [DOMAIN conn -> ConnRecs] /\ UNCHANGED <<connList, listenSSL, main>>
    BY <1>2 DEF TimeoutRetransmit, DemuxInv, TypeOK, ConnRecs
  <2> QED
    BY <2>1, <2>2, <2>3, <2>4, KeepStep
<1>3. ASSUME NEW c \in Conns, TimeoutFree(c)
      PROVE  DemuxInv'
  BY <1>3, DueIsOpen, FreeStep DEF TimeoutFree
<1>4. ASSUME NEW msg \in Messages, NEW c \in Conns, DispatchKeeps(msg, c)
      PROVE  DemuxInv'
  <2>1. c \in DOMAIN conn
    BY <1>4, FoundIsOpen DEF DispatchKeeps
  <2>2. PICK fin \in {conn[c].finished, TRUE}, peer \in {conn[c].peer, msg.addr} :
          /\ conn' = [conn EXCEPT ![c].finished = fin, ![c].peer = peer]
          /\ \E left \in Waits(fin) : timeouts' = registerTimeout(timeouts, c, left)
    BY <1>4 DEF DispatchKeeps
  <2>3. fin \in BOOLEAN /\ peer \in Addrs
    <3>1. TypeOK /\ msg.addr \in Addrs
      BY <1>4 DEF DemuxInv, Messages
    <3>2. conn[c].finished \in BOOLEAN /\ conn[c].peer \in Addrs
      BY <2>1, <3>1, ConnRecord
    <3> QED
      BY <3>1, <3>2, Zenon
  <2>4. PICK left \in Waits(fin) : timeouts' = registerTimeout(timeouts, c, left)
    BY <2>2
  <2>5. left \in Nat
    BY <2>3, <2>4, WaitsType
  <2>6. conn' \in [DOMAIN conn -> ConnRecs] /\ \A d \in DOMAIN conn : conn'[d].cid = conn[d].cid
    <3>1. conn \in [DOMAIN conn -> ConnRecs]
      BY DEF DemuxInv, TypeOK, ConnRecs
    <3>2. ASSUME NEW r \in ConnRecs
          PROVE  LET u == [[r EXCEPT !.finished = fin] EXCEPT !.peer = peer] IN
                   u \in ConnRecs /\ u.cid = r.cid
      BY <2>3 DEF ConnRecs
    <3>3. conn' = [conn EXCEPT ![c] = [[conn[c] EXCEPT !.finished = fin] EXCEPT !.peer = peer]]
      BY <2>1, <2>2, <3>1
    <3> QED
      BY <2>1, <3>1, <3>2, <3>3
  <2>7. UNCHANGED <<connList, listenSSL, main>>
    BY <1>4 DEF DispatchKeeps
  <2> QED
    BY <2>1, <2>4, <2>5, <2>6, <2>7, KeepStep
<1>5. ASSUME NEW msg \in Messages, NEW c \in Conns, DispatchFrees(msg, c)
      PROVE  DemuxInv'
  BY <1>5, FoundIsOpen, FreeStep DEF DispatchFrees
<1>6. ASSUME NEW msg \in Messages, NEW c \in Conns, DispatchNew(msg, c)
      PROVE  DemuxInv'
  BY <1>6, NewStep
<1>7. ASSUME NEW msg \in Messages, DispatchFatal(msg)
      PROVE  DemuxInv'
  <2>1. listenSSL' \in Cids /\ \A c \in DOMAIN conn : conn[c].cid # listenSSL'
    BY <1>7 DEF DispatchFatal, FreshCids
  <2>2. UNCHANGED <<conn, connList, timeouts, main>>
    BY <1>7 DEF DispatchFatal
  <2>3. TypeOK' /\ CidInv'
    BY <2>1, <2>2 DEF DemuxInv, TypeOK, CidInv
  <2>4. ConnListInv' /\ TimeoutsInv'
    BY <2>2 DEF DemuxInv, ConnListInv, TimeoutsInv
  <2> QED
    BY <2>3, <2>4 DEF DemuxInv
<1>8. ASSUME Setup \/ SetupFails
      PROVE  DemuxInv'
  BY <1>8 DEF Setup, SetupFails, DemuxInv, TypeOK, ConnListInv, TimeoutsInv, CidInv
<1>9. CASE Cleanup
  <2>1. /\ conn' = <<>> /\ connList' = <<>> /\ timeouts' = <<>> /\ listenSSL' \in Cids
        /\ main' \in {"setup", "loop", "done"}
    BY <1>9 DEF Cleanup, DemuxInv, TypeOK
  <2>2. (conn = <<>> /\ connList = <<>> /\ timeouts = <<>> /\ listenSSL \in Cids
           /\ main \in {"setup", "loop", "done"} => DemuxInv)'
    BY EmptyLists, PTL
  <2> QED
    BY <2>1, <2>2
<1>10. CASE Tick
  BY <1>10, TickStep
<1>11. ASSUME NEW msg \in Messages, DispatchStateless(msg)
       PROVE  DemuxInv'
  BY <1>1, <1>11 DEF DispatchStateless
<1>12. CASE Stopped
  BY <1>1, <1>12 DEF Stopped
<1>13. CASE Timeout
  BY <1>2, <1>3, <1>13 DEF Timeout
<1>14. CASE \E c \in Conns : Hear(c)
  BY <1>4, <1>5, <1>14 DEF Hear
<1>15. CASE Other
  BY <1>6, <1>7, <1>8, <1>9, <1>10, <1>11, <1>12, <1>15 DEF Other
<1> QED
  BY <1>1, <1>13, <1>14, <1>15 DEF Next

(* What the theorems below rest on. *)
LEMMA DemuxInvariant == Spec => []DemuxInv
<1>1. Init => DemuxInv
  BY EmptyLists DEF Init
<1> QED
  BY <1>1, DemuxStep, PTL DEF Spec

(* The variables of the server keep their types. *)
THEOREM TypeCorrect == Spec => []TypeOK
BY DemuxInvariant, PTL DEF DemuxInv

(* newSSL and newConn between them never give two WOLFSSL objects the same    *)
(* connection ID.                                                             *)
THEOREM CidsAreUnique == Spec => []CidUnique
<1>1. DemuxInv => CidUnique
  BY DEF DemuxInv, CidInv, CidUnique
<1> QED
  BY <1>1, DemuxInvariant, PTL

(* A list with one timeout per connection is as long as there are connections. *)
LEMMA GoodListLength ==
  ASSUME NEW ts, GoodList(ts), NEW D \in SUBSET Conns, ConnsOf(ToSet(ts)) = D
  PROVE  Len(ts) = Cardinality(D)
<1>1. /\ ts \in Seq(Timers) /\ DOMAIN ts = 1..Len(ts) /\ Len(ts) \in Nat
  BY GoodListPlaces
<1> DEFINE f == [i \in 1..Len(ts) |-> ts[i].conn]
<1>2. \A i \in 1..Len(ts) : ts[i].conn \in D
  BY <1>1 DEF ConnsOf, ToSet
<1>3. \A d \in D : \E i \in 1..Len(ts) : ts[i].conn = d
  BY <1>1 DEF ConnsOf, ToSet
<1>4. f \in Bijection(1..Len(ts), D)
  <2>1. f \in [1..Len(ts) -> D]
    BY <1>2
  <2>2. \A i, j \in 1..Len(ts) : f[i] = f[j] => i = j
    BY <1>1 DEF GoodList, OnePerConn
  <2>3. \A d \in D : \E i \in 1..Len(ts) : f[i] = d
    BY <1>3
  <2> QED
    BY <2>1, <2>2, <2>3 DEF Bijection, Injection, Surjection, IsInjective
<1>5. IsFiniteSet(1..Len(ts)) /\ Cardinality(1..Len(ts)) = Len(ts)
  BY <1>1, FS_Interval
<1>6. ExistsBijection(1..Len(ts), D)
  BY <1>4, Zenon DEF ExistsBijection
<1> QED
  BY <1>5, <1>6, FS_Bijection

(* Every connection in memory is in connList once and has exactly one         *)
(* timeout: handleTimeout and freeConn never meet a freed connection, and     *)
(* freeConn's search of connList ends at the connection.                      *)
THEOREM ListsAgree == Spec => []TimerPerConn
<1>1. DemuxInv => TimerPerConn
  <2> SUFFICES ASSUME DemuxInv PROVE TimerPerConn
    OBVIOUS
  <2>1. ToSet(connList) = DOMAIN conn /\ IsInjective(connList)
    BY DEF DemuxInv, ConnListInv
  <2>2. GoodList(timeouts) /\ ConnsOf(ToSet(timeouts)) = DOMAIN conn /\ DOMAIN conn \in SUBSET Conns
    BY DEF DemuxInv, TimeoutsInv, TypeOK
  <2>3. Len(timeouts) = Cardinality(DOMAIN conn)
    BY <2>2, GoodListLength
  <2>4. {timeouts[i].conn : i \in DOMAIN timeouts} = ConnsOf(ToSet(timeouts))
    BY DEF ConnsOf, ToSet
  <2> QED
    BY <2>1, <2>2, <2>3, <2>4 DEF TimerPerConn
<1> QED
  BY <1>1, DemuxInvariant, PTL

--------------------------------------------------------------------------------
(* The table of deadlines. *)

(* What is left of the timeout of connection c. *)
Left(ts, c) == ts[CHOOSE i \in DOMAIN ts : ts[i].conn = c].left

(* The table that the connections cs and the timeouts ts stand for. *)
PhaseOf(cs) ==
  [c \in Conns |-> IF c \notin DOMAIN cs THEN "free"
                   ELSE IF cs[c].finished THEN "established" ELSE "handshake"]
DeadlineOf(cs, ts) == [c \in Conns |-> IF c \in DOMAIN cs THEN Left(ts, c) ELSE 0]

(* ... is the one that DeadlinesKept speaks of. *)
LEMMA TableMapped ==
  /\ PhaseOf(conn) = [c \in Conns |-> IF c \notin DOMAIN conn THEN "free"
                        ELSE IF conn[c].finished THEN "established" ELSE "handshake"]
  /\ DeadlineOf(conn, timeouts)
       = [c \in Conns |-> IF c \in DOMAIN conn THEN timeouts[TimerOf(c)].left ELSE 0]
BY DEF PhaseOf, DeadlineOf, Left, TimerOf

(* In a list with one timeout per connection Left finds it. *)
LEMMA LeftFinds ==
  ASSUME NEW ts, GoodList(ts), NEW c, NEW l, [conn |-> c, left |-> l] \in ToSet(ts)
  PROVE  Left(ts, c) = l
<1>1. PICK i \in DOMAIN ts : ts[i] = [conn |-> c, left |-> l]
  BY DEF ToSet
<1>2. ts[i].conn = c /\ ts[i].left = l
  BY <1>1
<1> DEFINE j == CHOOSE k \in DOMAIN ts : ts[k].conn = c
<1>3. j \in DOMAIN ts /\ ts[j].conn = c
  BY <1>2, Zenon
<1>4. j = i
  BY <1>2, <1>3 DEF GoodList, OnePerConn
<1> QED
  BY <1>2, <1>4 DEF Left

(* Every connection with a timeout has one that Left finds. *)
LEMMA LeftIsThere ==
  ASSUME NEW ts, GoodList(ts), NEW c \in ConnsOf(ToSet(ts))
  PROVE  [conn |-> c, left |-> Left(ts, c)] \in ToSet(ts) /\ Left(ts, c) \in Nat
<1>1. PICK t \in ToSet(ts) : t.conn = c
  BY DEF ConnsOf
<1>2. t \in Timers
  BY GoodListPlaces DEF ToSet
<1>3. t = [conn |-> c, left |-> t.left] /\ t.left \in Nat
  BY <1>1, <1>2 DEF Timers
<1>4. Left(ts, c) = t.left
  BY <1>1, <1>3, LeftFinds
<1> QED
  BY <1>1, <1>3, <1>4

(* What the operations on the list do to what is left of each timeout. *)
LEMMA LeftRegistered ==
  ASSUME NEW ts, GoodList(ts), NEW c \in Conns, NEW left \in Nat
  PROVE  /\ Left(registerTimeout(ts, c, left), c) = left
         /\ \A d \in ConnsOf(ToSet(ts)) \ {c} :
              Left(registerTimeout(ts, c, left), d) = Left(ts, d)
<1> DEFINE r == registerTimeout(ts, c, left)
<1>1. GoodList(r) /\ ToSet(r) = Replaced(ToSet(ts), c, left)
  BY RegisterTimeoutGood
<1> HIDE DEF r
<1>2. [conn |-> c, left |-> left] \in ToSet(r)
  BY <1>1 DEF Replaced
<1>3. ASSUME NEW d \in ConnsOf(ToSet(ts)) \ {c} PROVE Left(r, d) = Left(ts, d)
  <2>1. [conn |-> d, left |-> Left(ts, d)] \in ToSet(ts)
    BY LeftIsThere
  <2>2. [conn |-> d, left |-> Left(ts, d)] \in ToSet(r)
    BY <1>1, <2>1 DEF Replaced
  <2> QED
    BY <1>1, <2>2, LeftFinds
<1> QED
  BY <1>1, <1>2, <1>3, LeftFinds DEF r

(* ... of freeTimeouts: the other timeouts have as much left as before. *)
LEMMA LeftFreed ==
  ASSUME NEW ts, GoodList(ts), NEW c
  PROVE  \A d \in ConnsOf(ToSet(ts)) \ {c} : Left(freeTimeouts(ts, c), d) = Left(ts, d)
<1> DEFINE r == freeTimeouts(ts, c)
<1>1. GoodList(r) /\ ToSet(r) = {t \in ToSet(ts) : t.conn # c}
  BY FreeTimeoutsGood
<1> HIDE DEF r
<1>2. ASSUME NEW d \in ConnsOf(ToSet(ts)) \ {c} PROVE Left(r, d) = Left(ts, d)
  <2>1. [conn |-> d, left |-> Left(ts, d)] \in ToSet(ts)
    BY LeftIsThere
  <2>2. [conn |-> d, left |-> Left(ts, d)] \in ToSet(r)
    BY <1>1, <2>1
  <2> QED
    BY <1>1, <2>2, LeftFinds
<1> QED
  BY <1>2 DEF r

(* ... of time: every timeout has that much less left. *)
LEMMA LeftTicked ==
  ASSUME NEW ts, GoodList(ts), NEW c \in ConnsOf(ToSet(ts))
  PROVE  Left(Ticked(ts), c) = IF Left(ts, c) > 0 THEN Left(ts, c) - 1 ELSE 0
<1>1. [conn |-> c, left |-> Left(ts, c)] \in ToSet(ts) /\ Left(ts, c) \in Nat
  BY LeftIsThere
<1>2. PICK i \in DOMAIN ts : ts[i] = [conn |-> c, left |-> Left(ts, c)]
  BY <1>1, Zenon DEF ToSet
<1> DEFINE l == IF Left(ts, c) > 0 THEN Left(ts, c) - 1 ELSE 0
<1>3. /\ GoodList(Ticked(ts)) /\ i \in DOMAIN Ticked(ts)
      /\ Ticked(ts)[i].conn = ts[i].conn
      /\ Ticked(ts)[i].left = IF ts[i].left > 0 THEN ts[i].left - 1 ELSE 0
  BY TickedGood
<1>4. Ticked(ts)[i].conn = c /\ Ticked(ts)[i].left = l
  BY <1>2, <1>3
<1> DEFINE u == Ticked(ts)
<1> HIDE DEF l, u
<1>5. u[i] \in Timers
  BY <1>3, GoodListPlaces DEF u
<1>6. u[i] = [conn |-> c, left |-> l]
  BY <1>4, <1>5 DEF Timers, u
<1>7. [conn |-> c, left |-> l] \in ToSet(u)
  BY <1>3, <1>6 DEF ToSet, u
<1> QED
  BY <1>3, <1>7, LeftFinds DEF u, l

(* The table after connection c, old or new, has been given a timeout. *)
LEMMA TableKeeps ==
  ASSUME DemuxInv, NEW c \in Conns, NEW left \in Nat,
         DOMAIN conn' = DOMAIN conn \cup {c},
         \A d \in DOMAIN conn \ {c} : conn'[d] = conn[d],
         timeouts' = registerTimeout(timeouts, c, left)
  PROVE  /\ PhaseOf(conn') = [PhaseOf(conn) EXCEPT ![c] = IF conn'[c].finished
                                                            THEN "established" ELSE "handshake"]
         /\ DeadlineOf(conn', timeouts') = [DeadlineOf(conn, timeouts) EXCEPT ![c] = left]
<1>1. GoodList(timeouts) /\ ConnsOf(ToSet(timeouts)) = DOMAIN conn
  BY DEF DemuxInv, TimeoutsInv
<1>2. /\ Left(timeouts', c) = left
      /\ \A d \in DOMAIN conn \ {c} : Left(timeouts', d) = Left(timeouts, d)
  BY <1>1, LeftRegistered
<1>3. DeadlineOf(conn', timeouts') = [DeadlineOf(conn, timeouts) EXCEPT ![c] = left]
  BY <1>2 DEF DeadlineOf
<1>4. PhaseOf(conn') = [PhaseOf(conn) EXCEPT ![c] = IF conn'[c].finished
                                                      THEN "established" ELSE "handshake"]
  <2>1. \A d \in Conns : PhaseOf(conn')[d] = IF d = c THEN (IF conn'[c].finished THEN "established"
                                                                      ELSE "handshake")
                                             ELSE PhaseOf(conn)[d]
    BY DEF PhaseOf
  <2>2. DOMAIN PhaseOf(conn') = Conns /\ DOMAIN PhaseOf(conn) = Conns
    BY DEF PhaseOf
  <2>3. PhaseOf(conn') = [d \in Conns |-> PhaseOf(conn')[d]]
    BY DEF PhaseOf
  <2> QED
    BY <2>1, <2>2, <2>3
<1> QED
  BY <1>3, <1>4

(* The table after connection c has been freed. *)
LEMMA TableDrops ==
  ASSUME DemuxInv, NEW c \in Conns, c \in DOMAIN conn, freeConn(c)
  PROVE  /\ PhaseOf(conn)[c] # "free"
         /\ PhaseOf(conn') = [PhaseOf(conn) EXCEPT ![c] = "free"]
         /\ DeadlineOf(conn', timeouts') = [DeadlineOf(conn, timeouts) EXCEPT ![c] = 0]
<1>1. GoodList(timeouts) /\ ConnsOf(ToSet(timeouts)) = DOMAIN conn
  BY DEF DemuxInv, TimeoutsInv
<1>2. \A d \in DOMAIN conn \ {c} : Left(timeouts', d) = Left(timeouts, d)
  BY <1>1, LeftFreed DEF freeConn
<1>3. DOMAIN conn' = DOMAIN conn \ {c} /\ \A d \in DOMAIN conn' : conn'[d] = conn[d]
  BY DEF freeConn
<1> QED
  BY <1>2, <1>3 DEF PhaseOf, DeadlineOf

(* The table when time passes: looking at the first timeout is enough to know *)
(* that none is due, since the list is in order.                              *)
LEMMA TableTicks ==
  ASSUME DemuxInv, Tick
  PROVE  /\ \A c \in DOMAIN conn : DeadlineOf(conn, timeouts)[c] > 0
         /\ PhaseOf(conn') = PhaseOf(conn)
         /\ DeadlineOf(conn', timeouts')
              = [c \in Conns |-> IF PhaseOf(conn)[c] # "free"
                                   THEN DeadlineOf(conn, timeouts)[c] - 1 ELSE 0]
<1>1. /\ GoodList(timeouts) /\ ConnsOf(ToSet(timeouts)) = DOMAIN conn
      /\ DOMAIN conn \subseteq Conns
  BY DEF DemuxInv, TimeoutsInv, TypeOK
<1>2. ASSUME NEW c \in DOMAIN conn PROVE Left(timeouts, c) > 0 /\ Left(timeouts, c) \in Nat
  <2>1. [conn |-> c, left |-> Left(timeouts, c)] \in ToSet(timeouts) /\ Left(timeouts, c) \in Nat
    BY <1>1, LeftIsThere
  <2>2. PICK i \in DOMAIN timeouts : timeouts[i] = [conn |-> c, left |-> Left(timeouts, c)]
    BY <2>1, Zenon DEF ToSet
  <2>3. timeouts[i].left = Left(timeouts, c)
    BY <2>2
  <2>4. /\ timeouts \in Seq(Timers) /\ DOMAIN timeouts = 1..Len(timeouts)
        /\ Len(timeouts) \in Nat
        /\ \A k \in DOMAIN timeouts : k \in Nat /\ timeouts[k].left \in Nat
    BY <1>1, GoodListPlaces
  <2>5. 1 \in DOMAIN timeouts /\ Head(timeouts) = timeouts[1] /\ timeouts[1].left > 0
    BY <2>4 DEF Tick
  <2>6. timeouts[1].left <= timeouts[i].left
    <3>1. CASE i = 1
      BY <2>4, <2>5, <3>1
    <3>2. CASE 1 < i
      BY <1>1, <2>5, <3>2 DEF GoodList, InOrder
    <3> QED
      BY <2>4, <3>1, <3>2
  <2> QED
    BY <2>1, <2>3, <2>4, <2>5, <2>6
<1>3. timeouts' = Ticked(timeouts)
  BY DEF Tick, Ticked
<1>4. \A c \in DOMAIN conn : Left(timeouts', c) = Left(timeouts, c) - 1
  <2>1. \A c \in DOMAIN conn :
          Left(Ticked(timeouts), c) = IF Left(timeouts, c) > 0 THEN Left(timeouts, c) - 1 ELSE 0
    BY <1>1, LeftTicked
  <2> QED
    BY <1>2, <1>3, <2>1
<1>5. DOMAIN conn' = DOMAIN conn /\ \A c \in DOMAIN conn : conn'[c].finished = conn[c].finished
  <2>1. \A c \in DOMAIN conn : conn[c] \in ConnRecs
    BY DEF DemuxInv, TypeOK, ConnRecs
  <2>2. ASSUME NEW r \in ConnRecs, NEW a PROVE [r EXCEPT !.age = a].finished = r.finished
    BY DEF ConnRecs
  <2> QED
    BY <2>1, <2>2 DEF Tick
<1>6. \A c \in Conns : PhaseOf(conn)[c] # "free" <=> c \in DOMAIN conn
  BY DEF PhaseOf
<1>7. PhaseOf(conn') = PhaseOf(conn)
  BY <1>5 DEF PhaseOf
<1> QED
  BY <1>1, <1>2, <1>4, <1>5, <1>6, <1>7 DEF DeadlineOf

(* The empty table of the start and the end. *)
LEMMA TableEmpty ==
  ASSUME NEW cs, DOMAIN cs = {}, NEW ts
  PROVE  /\ PhaseOf(cs) = [c \in Conns |-> "free"]
         /\ DeadlineOf(cs, ts) = [c \in Conns |-> 0]
BY DEF PhaseOf, DeadlineOf

(* Every step of the server is a step of the table, or none. *)
LEMMA TableStep ==
  ASSUME DemuxInv, DemuxInv', [Next]_vars
  PROVE  [Table!Next]_(Table!tableVars)
<1> DEFINE phase == PhaseOf(conn)
           deadline == DeadlineOf(conn, timeouts)
           phase1 == PhaseOf(conn')
           deadline1 == DeadlineOf(conn', timeouts')
<1>1. ASSUME UNCHANGED <<conn, timeouts>>
      PROVE  UNCHANGED Table!tableVars
  <2>1. phase1 = phase /\ deadline1 = deadline
    BY <1>1
  <2> QED
    BY <2>1, Zenon DEF PhaseOf, DeadlineOf, Left, Table!tableVars, TimerOf
<1>2. ASSUME NEW c \in Conns, c \in DOMAIN conn, freeConn(c)
      PROVE  Table!Drop(c)
  <2>1. /\ phase[c] # "free" /\ phase1 = [phase EXCEPT ![c] = "free"]
        /\ deadline1 = [deadline EXCEPT ![c] = 0]
    BY <1>2, TableDrops
  <2> QED
    BY <2>1, Zenon DEF PhaseOf, DeadlineOf, Left, Table!Drop, TimerOf
<1>3. ASSUME NEW c \in Conns, NEW fin \in BOOLEAN, NEW left \in Waits(fin),
             phase1 = [phase EXCEPT ![c] = IF fin THEN "established" ELSE "handshake"],
             deadline1 = [deadline EXCEPT ![c] = left]
      PROVE  Table!Keep(c, IF fin THEN "established" ELSE "handshake")
  <2>1. left \in Table!Patience(IF fin THEN "established" ELSE "handshake")
    BY <1>3 DEF Waits, Table!Patience
  <2> QED
    BY <1>3, <2>1, Zenon DEF PhaseOf, DeadlineOf, Left, Table!Keep, TimerOf
<1>4. ASSUME NEW c \in Conns, TimeoutRetransmit(c)
      PROVE  Table!Retry(c)
  <2>1. c \in DOMAIN conn /\ [conn |-> c, left |-> 0] \in ToSet(timeouts)
    BY <1>4, DueIsOpen DEF TimeoutRetransmit
  <2>2. PICK left \in Waits(FALSE) : timeouts' = registerTimeout(timeouts, c, left)
    BY <1>4 DEF TimeoutRetransmit
  <2>3. left \in Nat
    BY <2>2, WaitsType
  <2>4. conn' = conn /\ ~conn[c].finished
    BY <1>4 DEF TimeoutRetransmit
  <2>5. /\ phase1 = [phase EXCEPT ![c] = IF conn'[c].finished THEN "established" ELSE "handshake"]
        /\ deadline1 = [deadline EXCEPT ![c] = left]
    BY <2>1, <2>2, <2>3, <2>4, TableKeeps
  <2>6. phase1 = [phase EXCEPT ![c] = IF FALSE THEN "established" ELSE "handshake"]
    BY <2>4, <2>5, Zenon
  <2>7. Table!Keep(c, IF FALSE THEN "established" ELSE "handshake")
    BY <1>3, <2>2, <2>5, <2>6, Zenon
  <2>8. phase[c] = "handshake"
    BY <2>1, <2>4 DEF PhaseOf
  <2>9. deadline[c] = 0
    <3>1. GoodList(timeouts)
      BY DEF DemuxInv, TimeoutsInv
    <3>2. Left(timeouts, c) = 0
      BY <2>1, <3>1, LeftFinds
    <3> QED
      BY <2>1, <3>2 DEF DeadlineOf
  <2>10. Table!Keep(c, "handshake")
    BY <2>7, Zenon
  <2> QED
    BY <2>8, <2>9, <2>10, Zenon DEF PhaseOf, DeadlineOf, Left, Table!Retry, TimerOf
<1>5. ASSUME NEW msg \in Messages, NEW c \in Conns, DispatchKeeps(msg, c)
      PROVE  Table!Hear(c)
  <2>1. c \in DOMAIN conn
    BY <1>5, FoundIsOpen DEF DispatchKeeps
  <2>2. PICK fin \in {conn[c].finished, TRUE}, peer \in {conn[c].peer, msg.addr} :
          /\ conn' = [conn EXCEPT ![c].finished = fin, ![c].peer = peer]
          /\ \E left \in Waits(fin) : timeouts' = registerTimeout(timeouts, c, left)
    BY <1>5 DEF DispatchKeeps
  <2>3. conn[c].finished \in BOOLEAN /\ conn[c] \in ConnRecs /\ conn \in [DOMAIN conn -> ConnRecs]
    BY <2>1, ConnRecord DEF DemuxInv, TypeOK, ConnRecs
  <2>4. fin \in BOOLEAN
    BY <2>3, Zenon
  <2>5. PICK left \in Waits(fin) : timeouts' = registerTimeout(timeouts, c, left)
    BY <2>2
  <2>6. left \in Nat
    BY <2>4, <2>5, WaitsType
  <2>7. /\ DOMAIN conn' = DOMAIN conn \cup {c}
        /\ \A d \in DOMAIN conn \ {c} : conn'[d] = conn[d]
    BY <2>1, <2>2
  <2>8. conn'[c].finished = fin
    <3>1. conn'[c] = [[conn[c] EXCEPT !.finished = fin] EXCEPT !.peer = peer]
      BY <2>1, <2>2, <2>3
    <3>2. \A r \in ConnRecs : [[r EXCEPT !.finished = fin] EXCEPT !.peer = peer].finished = fin
      BY DEF ConnRecs
    <3> QED
      BY <2>3, <3>1, <3>2
  <2>9. /\ phase1 = [phase EXCEPT ![c] = IF conn'[c].finished THEN "established" ELSE "handshake"]
        /\ deadline1 = [deadline EXCEPT ![c] = left]
    BY <2>1, <2>5, <2>6, <2>7, TableKeeps
  <2>10. Table!Keep(c, IF fin THEN "established" ELSE "handshake")
    BY <1>3, <2>4, <2>5, <2>8, <2>9, Zenon
  <2>11. phase[c] \in {"handshake", "established"}
    BY <2>1 DEF PhaseOf
  <2>12. fin = TRUE \/ (fin = FALSE /\ phase[c] = "handshake")
    <3>1. CASE conn[c].finished = FALSE
      BY <2>1, <2>4, <3>1 DEF PhaseOf
    <3>2. CASE conn[c].finished = TRUE
      BY <2>2, <3>2, Zenon
    <3> QED
      BY <2>3, <3>1, <3>2
  <2>13. CASE fin = TRUE
    <3>1. Table!Keep(c, "established")
      BY <2>10, <2>13, Zenon
    <3> QED
      BY <2>11, <3>1, Zenon DEF PhaseOf, Table!Hear
  <2>14. CASE fin = FALSE /\ phase[c] = "handshake"
    <3>1. Table!Keep(c, "handshake")
      BY <2>10, <2>14, Zenon
    <3> QED
      BY <2>14, <3>1, Zenon DEF PhaseOf, Table!Hear
  <2> QED
    BY <2>12, <2>13, <2>14
<1>6. ASSUME NEW msg \in Messages, NEW c \in Conns, DispatchNew(msg, c)
      PROVE  Table!Begin(c)
  <2>1. /\ c \notin DOMAIN conn
        /\ DOMAIN conn' = DOMAIN conn \cup {c}
        /\ conn'[c].finished = FALSE
        /\ \A d \in DOMAIN conn \ {c} : conn'[d] = conn[d]
    BY <1>6 DEF DispatchNew, newConn
  <2>2. PICK left \in Waits(FALSE) : timeouts' = registerTimeout(timeouts, c, left)
    BY <1>6 DEF DispatchNew
  <2>3. left \in Nat
    BY <2>2, WaitsType
  <2>4. /\ phase1 = [phase EXCEPT ![c] = IF conn'[c].finished THEN "established" ELSE "handshake"]
        /\ deadline1 = [deadline EXCEPT ![c] = left]
    BY <2>1, <2>2, <2>3, TableKeeps
  <2>5. Table!Keep(c, IF FALSE THEN "established" ELSE "handshake")
    BY <1>3, <2>1, <2>2, <2>4, Zenon
  <2>6. phase[c] = "free"
    BY <2>1 DEF PhaseOf
  <2>7. Table!Keep(c, "handshake")
    BY <2>5, Zenon
  <2> QED
    BY <2>6, <2>7, Zenon DEF PhaseOf, Table!Begin
<1>7. ASSUME Tick
      PROVE  Table!Tick
  <2>1. /\ \A c \in DOMAIN conn : deadline[c] > 0
        /\ phase1 = phase
        /\ deadline1 = [c \in Conns |-> IF phase[c] # "free" THEN deadline[c] - 1 ELSE 0]
    BY <1>7, TableTicks
  <2>2. \A c \in Conns : phase[c] # "free" => c \in DOMAIN conn
    BY DEF PhaseOf
  <2>3. \A c \in {d \in Conns : phase[d] # "free"} : deadline[c] > 0
    BY <2>1, <2>2
  <2>4. deadline1 = [c \in Conns |-> IF c \in {d \in Conns : phase[d] # "free"}
                                       THEN deadline[c] - 1 ELSE 0]
    BY <2>1
  <2> QED
    BY <2>1, <2>3, <2>4, Zenon DEF PhaseOf, DeadlineOf, Left, Table!Tick, Table!Open, TimerOf
<1>8. ASSUME Cleanup
      PROVE  Table!Shutdown
  <2>1. DOMAIN conn' = {}
    BY <1>8 DEF Cleanup
  <2>2. phase1 = [c \in Conns |-> "free"] /\ deadline1 = [c \in Conns |-> 0]
    BY <2>1, TableEmpty
  <2> QED
    BY <2>2, Zenon DEF PhaseOf, DeadlineOf, Left, Table!Shutdown, TimerOf
<1>9. CASE Timeout
  <2>1. ASSUME NEW c \in Conns, TimeoutFree(c) PROVE Table!Drop(c)
    BY <1>2, <2>1, DueIsOpen DEF TimeoutFree
  <2> QED
    BY <1>4, <1>9, <2>1, Zenon DEF Timeout, Table!Next
<1>10. CASE \E c \in Conns : Hear(c)
  <2>1. ASSUME NEW msg \in Messages, NEW c \in Conns, DispatchFrees(msg, c) PROVE Table!Drop(c)
    BY <1>2, <2>1, FoundIsOpen DEF DispatchFrees
  <2> QED
    BY <1>5, <1>10, <2>1, Zenon DEF Hear, Table!Next
<1>11. CASE Other
  <2>1. CASE \E msg \in Messages, c \in Conns : DispatchNew(msg, c)
    BY <1>6, <2>1, Zenon DEF Table!Next
  <2>2. CASE Tick \/ Cleanup
    BY <1>7, <1>8, <2>2, Zenon DEF Table!Next
  <2>3. CASE Setup \/ SetupFails \/ Stopped
    BY <1>1, <2>3 DEF Setup, SetupFails, Stopped, vars
  <2>4. CASE \E msg \in Messages : DispatchFatal(msg) \/ DispatchStateless(msg)
    BY <1>1, <2>4 DEF DispatchFatal, DispatchStateless, vars
  <2> QED
    BY <1>11, <2>1, <2>2, <2>3, <2>4, Zenon DEF Other
<1>12. CASE UNCHANGED vars
  BY <1>1, <1>12 DEF vars
<1> QED
  BY <1>9, <1>10, <1>11, <1>12 DEF Next

(* The ordered list of timeouts, of which the server only looks at the first, *)
(* implements the table of deadlines: no step lets time pass over the         *)
(* deadline of any connection, and no step changes another connection's.      *)
THEOREM DeadlinesImplemented == Spec => DeadlinesKept
<1>1. Init => Table!Init
  <2> SUFFICES ASSUME Init PROVE Table!Init
    OBVIOUS
  <2>1. DOMAIN conn = {}
    BY DEF Init
  <2>2. PhaseOf(conn) = [c \in Conns |-> "free"] /\ DeadlineOf(conn, timeouts) = [c \in Conns |-> 0]
    BY <2>1, TableEmpty
  <2> QED
    BY <2>2, Zenon DEF PhaseOf, DeadlineOf, Left, Table!Init, TimerOf
<1>2. DemuxInv /\ DemuxInv' /\ [Next]_vars => [Table!Next]_(Table!tableVars)
  BY TableStep
<1> QED
  BY <1>1, <1>2, DemuxInvariant, PTL DEF Spec, DeadlinesKept, Table!Spec

================================================================================
