--------------------------- MODULE TlsThreadedProofs ---------------------------
(******************************************************************************)
(* Proofs about TlsThreaded, for buffers and messages of any size.            *)
(******************************************************************************)
EXTENDS TlsThreaded, TLAPS

USE DEF threads

--------------------------------------------------------------------------------
(* The inductive invariant. *)

(* A side that runs is within its script and has bytes to move; a side that   *)
(* does not is in no callback.                                                *)
RunInv ==
  \A s \in Sides :
    /\ status[s] = "running" =>
         step[s] \in 1..Len(Script(s)) /\ left[s] > 0 /\ copied[s] <= left[s]
    /\ status[s] # "running" => copied[s] = 0

(* The buffer that the callback of side s is about. *)
BufferOf(s) == IF Call(s) = "recv" THEN s ELSE Peer(s)

MutexInv == \A s, b \in Sides : mutex[b] = s <=> copied[s] > 0 /\ BufferOf(s) = b

(* What a callback has copied and size does not show yet. *)
PutIn(b) == IF mutex[b] = Peer(b) THEN copied[Peer(b)] ELSE 0
TakenOut(b) == IF mutex[b] = b THEN copied[b] ELSE 0

(* The bytes of a stream are its positions. *)
Counts(q) == \A k \in 1..Len(q) : q[k] = k

(* Of a stream with the bytes q put in and r taken out, the buffer holds the  *)
(* sz + in bytes that were put in and not taken out, behind the out bytes     *)
(* that a receive in progress has copied.                                     *)
Holds(q, r, buf, sz, in, out) ==
  /\ Counts(q) /\ Counts(r)
  /\ out <= sz
  /\ sz + in <= BufferSize
  /\ sz + in = Len(q) - Len(r) + out
  /\ \A i \in 1..(sz + in) : buf[i] = Len(r) - out + i

StreamInv(b) == Holds(sent[b], rcvd[b], buffer[b], size[b], PutIn(b), TakenOut(b))

Inv == RunInv /\ MutexInv /\ (\A b \in Sides : StreamInv(b))

--------------------------------------------------------------------------------
(* Lemmas. *)

LEMMA SidesFacts ==
  ASSUME NEW s \in Sides
  PROVE  Peer(s) \in Sides /\ Peer(s) # s /\ Peer(Peer(s)) = s /\ s # "free"
         /\ \A t \in Sides : t = s \/ t = Peer(s)
BY DEF Sides, Peer

(* A script has five or six calls, each of some bytes. *)
LEMMA ScriptFacts ==
  ASSUME response \in Responses, NEW s \in Sides
  PROVE  /\ Len(Script(s)) = IF s = "client" THEN 5 ELSE 6
         /\ \A n \in 1..Len(Script(s)) : /\ Script(s)[n].call \in {"send", "write", "recv"}
                                         /\ Script(s)[n].len \in Nat /\ Script(s)[n].len > 0
<1>0. response \in Nat /\ response > 0
  BY ThreadedAssumption DEF Positive
<1>1. CASE s = "client"
  <2>1. Len(Script(s)) = 5
    BY <1>1 DEF Script
  <2>2. ASSUME NEW n \in 1..5
        PROVE  /\ Script(s)[n].call \in {"send", "write", "recv"}
               /\ Script(s)[n].len \in Nat /\ Script(s)[n].len > 0
    <3>1. n = 1 \/ n = 2 \/ n = 3 \/ n = 4 \/ n = 5
      OBVIOUS
    <3>2. QED
      BY <1>0, <1>1, <3>1, ThreadedAssumption DEF Script, Positive
  <2>3. QED
    BY <1>1, <2>1, <2>2
<1>2. CASE s = "server"
  <2>0. s # "client"
    BY <1>2
  <2>1. Len(Script(s)) = 6
    BY <2>0 DEF Script
  <2>2. ASSUME NEW n \in 1..6
        PROVE  /\ Script(s)[n].call \in {"send", "write", "recv"}
               /\ Script(s)[n].len \in Nat /\ Script(s)[n].len > 0
    <3>1. n = 1 \/ n = 2 \/ n = 3 \/ n = 4 \/ n = 5 \/ n = 6
      OBVIOUS
    <3>2. QED
      BY <1>0, <2>0, <3>1, ThreadedAssumption DEF Script, Positive
  <2>3. QED
    BY <2>0, <2>1, <2>2
<1>3. QED
  BY <1>1, <1>2 DEF Sides

(* What Returns does to a side. *)
LEMMA ReturnsFacts ==
  ASSUME TypeOK, RunInv, NEW s \in Sides, status[s] = "running", Returns(s)
  PROVE  /\ copied' = [copied EXCEPT ![s] = 0]
         /\ step' = [step EXCEPT ![s] = step'[s]]
         /\ left' = [left EXCEPT ![s] = left'[s]]
         /\ status' = [status EXCEPT ![s] = status'[s]]
         /\ left'[s] \in Nat
         /\ status'[s] \in {"running", "finished"}
         /\ step'[s] \in 1..(Len(Script(s)) + 1)
         /\ status'[s] = "running" => step'[s] \in 1..Len(Script(s)) /\ left'[s] > 0
<1> USE DEF TypeOK, RunInv, Positive
<1> DEFINE rest == left[s] - copied[s]
           last == rest = 0 /\ step[s] = Len(Script(s))
<1>1. /\ rest \in Nat /\ step[s] \in 1..Len(Script(s)) /\ Len(Script(s)) \in Nat
  BY ScriptFacts
<1>2. /\ copied' = [copied EXCEPT ![s] = 0]
      /\ step' = [step EXCEPT ![s] = IF rest = 0 THEN @ + 1 ELSE @]
      /\ left' = [left EXCEPT ![s] = IF rest > 0 \/ last THEN rest ELSE Script(s)[step[s] + 1].len]
      /\ status' = [status EXCEPT ![s] = IF last THEN "finished" ELSE @]
  BY DEF Returns
<1>3. rest = 0 /\ ~last => step[s] + 1 \in 1..Len(Script(s))
  BY <1>1
<1>4. rest = 0 /\ ~last => Script(s)[step[s] + 1].len \in Nat /\ Script(s)[step[s] + 1].len > 0
  BY <1>3, ScriptFacts
<1>5. /\ step' = [step EXCEPT ![s] = step'[s]]
      /\ left' = [left EXCEPT ![s] = left'[s]]
      /\ status' = [status EXCEPT ![s] = status'[s]]
  BY <1>2
<1>6. /\ step'[s] = IF rest = 0 THEN step[s] + 1 ELSE step[s]
      /\ left'[s] = IF rest > 0 \/ last THEN rest ELSE Script(s)[step[s] + 1].len
      /\ status'[s] = IF last THEN "finished" ELSE "running"
  BY <1>2
<1>7. left'[s] \in Nat /\ step'[s] \in 1..(Len(Script(s)) + 1)
  BY <1>1, <1>4, <1>6
<1>8. status'[s] = "running" => step'[s] \in 1..Len(Script(s)) /\ left'[s] > 0
  BY <1>1, <1>3, <1>4, <1>6
<1>9. status'[s] \in {"running", "finished"}
  BY <1>6
<1>10. QED
  BY <1>2, <1>5, <1>7, <1>8, <1>9

(* The types, side by side. *)
LEMMA TypeFacts ==
  ASSUME TypeOK, NEW t \in Sides
  PROVE  /\ BufferSize \in Nat /\ BufferSize > 0
         /\ left[t] \in Nat /\ copied[t] \in 0..BufferSize /\ size[t] \in 0..BufferSize
         /\ step[t] \in Nat
         /\ buffer[t] \in [1..BufferSize -> Nat]
         /\ sent[t] \in Seq(Nat) /\ Len(sent[t]) \in Nat
         /\ rcvd[t] \in Seq(Nat) /\ Len(rcvd[t]) \in Nat
BY ThreadedAssumption DEF TypeOK, Positive

(* Bytes put behind a stream. *)
LEMMA Extension ==
  ASSUME NEW q \in Seq(Nat), NEW r \in Seq(Nat),
         Counts(q), \A i \in 1..Len(r) : r[i] = Len(q) + i
  PROVE  q \o r \in Seq(Nat) /\ Len(q \o r) = Len(q) + Len(r) /\ Counts(q \o r)
<1>1. q \o r \in Seq(Nat) /\ Len(q \o r) = Len(q) + Len(r)
  OBVIOUS
<1>2. \A k \in 1..(Len(q) + Len(r)) :
        (q \o r)[k] = IF k <= Len(q) THEN q[k] ELSE r[k - Len(q)]
  OBVIOUS
<1>3. QED
  BY <1>1, <1>2 DEF Counts

(* The next n bytes of a stream, and the buffer with them behind its sz bytes. *)
Following(q, n) == [i \in 1..n |-> Len(q) + i]
Filled(buf, q, sz, n) ==
  [i \in 1..BufferSize |->
     IF i \in (sz + 1)..(sz + n) THEN Len(q) + (i - sz) ELSE buf[i]]

(* A send copies n bytes behind those in the buffer. *)
LEMMA CopiedIn ==
  ASSUME NEW q \in Seq(Nat), NEW r \in Seq(Nat), NEW buf \in [1..BufferSize -> Nat],
         NEW sz \in Nat, NEW n \in Nat, sz + n <= BufferSize, Holds(q, r, buf, sz, 0, 0)
  PROVE  /\ q \o Following(q, n) \in Seq(Nat)
         /\ Filled(buf, q, sz, n) \in [1..BufferSize -> Nat]
         /\ Len(q \o Following(q, n)) = Len(q) + n
         /\ Holds(q \o Following(q, n), r, Filled(buf, q, sz, n), sz, n, 0)
<1> DEFINE more == Following(q, n)
           new == Filled(buf, q, sz, n)
<1> USE DEF Following, Filled
<1>0. BufferSize \in Nat /\ Len(q) \in Nat /\ Len(r) \in Nat
  BY ThreadedAssumption DEF Positive
<1>1. /\ Counts(q) /\ Counts(r) /\ sz = Len(q) - Len(r)
      /\ \A i \in 1..sz : buf[i] = Len(r) + i
  BY <1>0 DEF Holds
<1>2. more \in Seq(Nat) /\ Len(more) = n /\ \A i \in 1..n : more[i] = Len(q) + i
  <2>1. \A i \in 1..n : Len(q) + i \in Nat
    BY <1>0
  <2>2. QED
    BY <2>1
<1>3. q \o more \in Seq(Nat) /\ Len(q \o more) = Len(q) + n /\ Counts(q \o more)
  BY <1>1, <1>2, Extension
<1>4. new \in [1..BufferSize -> Nat]
  <2>1. ASSUME NEW i \in 1..BufferSize
        PROVE  (IF i \in (sz + 1)..(sz + n) THEN Len(q) + (i - sz) ELSE buf[i]) \in Nat
    BY <1>0
  <2>2. QED
    BY <2>1
<1>5. ASSUME NEW i \in 1..(sz + n)
      PROVE  new[i] = Len(r) + i
  <2>1. i \in 1..BufferSize /\ i \in Nat
    BY <1>0
  <2>2. CASE i <= sz
    <3>1. i \in 1..sz /\ i \notin (sz + 1)..(sz + n)
      BY <2>1, <2>2
    <3>2. QED
      BY <1>1, <2>1, <3>1
  <2>3. CASE i > sz
    <3>1. i \in (sz + 1)..(sz + n)
      BY <2>1, <2>3
    <3>2. QED
      BY <1>0, <1>1, <2>1, <3>1
  <2>4. QED
    BY <2>1, <2>2, <2>3
<1> HIDE DEF Following, Filled, more, new
<1>6. Holds(q \o more, r, new, sz, n, 0)
  <2>1. sz + n = (Len(q) + n) - Len(r) + 0 /\ 0 <= sz /\ Len(r) - 0 = Len(r)
    BY <1>0, <1>1
  <2>2. \A i \in 1..(sz + n) : new[i] = Len(r) - 0 + i
    BY <1>5, <2>1, Zenon
  <2>3. QED
    BY <1>1, <1>3, <2>1, <2>2, Zenon DEF Holds
<1>7. QED
  BY <1>3, <1>4, <1>6 DEF more, new

(* The send is over. *)
LEMMA PutInCounted ==
  ASSUME NEW q \in Seq(Nat), NEW r \in Seq(Nat), NEW buf,
         NEW sz \in Nat, NEW n \in Nat, Holds(q, r, buf, sz, n, 0)
  PROVE  sz + n <= BufferSize /\ Holds(q, r, buf, sz + n, 0, 0)
<1>0. BufferSize \in Nat /\ Len(q) \in Nat /\ Len(r) \in Nat
  BY ThreadedAssumption DEF Positive
<1>1. QED
  BY <1>0 DEF Holds

(* A receive copies the first n bytes in the buffer. *)
LEMMA CopiedOut ==
  ASSUME NEW q \in Seq(Nat), NEW r \in Seq(Nat), NEW buf \in [1..BufferSize -> Nat],
         NEW sz \in Nat, NEW n \in Nat, n <= sz, Holds(q, r, buf, sz, 0, 0)
  PROVE  /\ r \o SubSeq(buf, 1, n) \in Seq(Nat)
         /\ Len(r \o SubSeq(buf, 1, n)) = Len(r) + n
         /\ Holds(q, r \o SubSeq(buf, 1, n), buf, sz, 0, n)
<1>0. BufferSize \in Nat /\ Len(q) \in Nat /\ Len(r) \in Nat
  BY ThreadedAssumption DEF Positive
<1>1. /\ Counts(q) /\ Counts(r) /\ sz = Len(q) - Len(r) /\ sz <= BufferSize
      /\ \A i \in 1..sz : buf[i] = Len(r) + i
  BY <1>0 DEF Holds
<1> DEFINE more == SubSeq(buf, 1, n)
<1>2. more \in Seq(Nat) /\ Len(more) = n /\ \A i \in 1..n : more[i] = Len(r) + i
  <2>1. buf \in Seq(Nat) /\ Len(buf) = BufferSize
    BY <1>0
  <2>2. n <= BufferSize
    BY <1>0, <1>1
  <2>3. more \in Seq(Nat) /\ Len(more) = n /\ \A i \in 1..n : more[i] = buf[i]
    BY <1>0, <2>1, <2>2
  <2>4. \A i \in 1..n : i \in 1..sz
    OBVIOUS
  <2>5. QED
    BY <1>1, <2>3, <2>4
<1>3. r \o more \in Seq(Nat) /\ Len(r \o more) = Len(r) + n /\ Counts(r \o more)
  BY <1>1, <1>2, Extension
<1>4. \A i \in 1..sz : buf[i] = (Len(r) + n) - n + i
  BY <1>0, <1>1
<1>5. Holds(q, r \o more, buf, sz, 0, n)
  <2>1. sz + 0 = sz /\ sz = Len(q) - (Len(r) + n) + n
    BY <1>0, <1>1
  <2>2. QED
    BY <1>1, <1>3, <1>4, <2>1, Zenon DEF Holds
<1>6. QED
  BY <1>3, <1>5

(* The receive is over, and the rest of the buffer is moved to its front. *)
LEMMA MovedUp ==
  ASSUME NEW q \in Seq(Nat), NEW r \in Seq(Nat), NEW buf \in [1..BufferSize -> Nat],
         NEW sz \in Nat, NEW n \in Nat, Holds(q, r, buf, sz, 0, n),
         NEW new, new = [i \in 1..BufferSize |-> IF i <= sz - n THEN buf[i + n] ELSE buf[i]]
  PROVE  /\ new \in [1..BufferSize -> Nat] /\ sz - n \in 0..BufferSize
         /\ Holds(q, r, new, sz - n, 0, 0)
<1>0. BufferSize \in Nat /\ Len(q) \in Nat /\ Len(r) \in Nat
  BY ThreadedAssumption DEF Positive
<1>1. /\ Counts(q) /\ Counts(r) /\ n <= sz /\ sz <= BufferSize /\ sz = Len(q) - Len(r) + n
      /\ \A i \in 1..sz : buf[i] = Len(r) - n + i
  BY <1>0 DEF Holds
<1>2. new \in [1..BufferSize -> Nat]
  <2>1. ASSUME NEW i \in 1..BufferSize
        PROVE  (IF i <= sz - n THEN buf[i + n] ELSE buf[i]) \in Nat
    <3>1. i <= sz - n => i + n \in 1..BufferSize
      BY <1>0, <1>1
    <3>2. QED
      BY <3>1
  <2>2. QED
    BY <2>1
<1>3. ASSUME NEW i \in 1..(sz - n)
      PROVE  new[i] = Len(r) + i
  <2>1. i \in 1..BufferSize /\ i + n \in 1..sz /\ i <= sz - n
    BY <1>0, <1>1
  <2>2. buf[i + n] = Len(r) - n + (i + n)
    BY <1>1, <2>1
  <2>3. QED
    BY <1>0, <2>1, <2>2
<1>4. sz - n \in 0..BufferSize
  BY <1>0, <1>1
<1>5. Holds(q, r, new, sz - n, 0, 0)
  <2>1. /\ (sz - n) + 0 = sz - n /\ sz - n = Len(q) - Len(r) + 0
        /\ 0 <= sz - n /\ sz - n <= BufferSize /\ Len(r) - 0 = Len(r)
    BY <1>0, <1>1
  <2>2. \A i \in 1..(sz - n) : new[i] = Len(r) - 0 + i
    BY <1>3, <2>1, Zenon
  <2>3. QED
    BY <1>1, <2>1, <2>2, Zenon DEF Holds
<1>6. QED
  BY <1>2, <1>4, <1>5

--------------------------------------------------------------------------------
(* Each step keeps the invariant. *)

(* What a stream's invariant depends on. *)
LEMMA StreamFrame ==
  ASSUME NEW b \in Sides, StreamInv(b),
         sent'[b] = sent[b], rcvd'[b] = rcvd[b], buffer'[b] = buffer[b], size'[b] = size[b],
         PutIn(b)' = PutIn(b), TakenOut(b)' = TakenOut(b)
  PROVE  StreamInv(b)'
BY DEF StreamInv, Holds, Counts

(* CopiedIn, for the buffer of b. *)
LEMMA CopiedInBuffer ==
  ASSUME NEW b, NEW n, n \in Nat, sent[b] \in Seq(Nat), rcvd[b] \in Seq(Nat),
         buffer[b] \in [1..BufferSize -> Nat], size[b] \in Nat, size[b] + n <= BufferSize,
         Holds(sent[b], rcvd[b], buffer[b], size[b], 0, 0)
  PROVE  /\ sent[b] \o Following(sent[b], n) \in Seq(Nat)
         /\ Filled(buffer[b], sent[b], size[b], n) \in [1..BufferSize -> Nat]
         /\ Len(sent[b] \o Following(sent[b], n)) = Len(sent[b]) + n
         /\ Holds(sent[b] \o Following(sent[b], n), rcvd[b],
                  Filled(buffer[b], sent[b], size[b], n), size[b], n, 0)
BY CopiedIn

(* A send puts bytes behind those of the stream. *)
LEMMA SendCopyStep ==
  ASSUME TypeOK, Inv, NEW s \in Sides, NEW b \in Sides, b = Peer(s), NEW n,
         n = Minimum(left[s], BufferSize - size[b]), SendCopy(s)
  PROVE  TypeOK' /\ Inv' /\ Len(sent'[b]) = Len(sent[b]) + n
<1>0. /\ BufferSize \in Nat /\ left[s] \in Nat /\ size[b] \in 0..BufferSize
      /\ buffer[b] \in [1..BufferSize -> Nat]
      /\ sent[b] \in Seq(Nat) /\ rcvd[b] \in Seq(Nat)
  BY TypeFacts
<1>1. s # b /\ s = Peer(b) /\ s # "free" /\ b # "free" /\ \A t \in Sides : t = s \/ t = b
  BY SidesFacts
<1> DEFINE more == Following(sent[b], n)
           new == Filled(buffer[b], sent[b], size[b], n)
<1>2. /\ status[s] = "running" /\ copied[s] = 0 /\ Call(s) \in {"send", "write"}
      /\ mutex[b] = "free" /\ n > 0
      /\ mutex' = [mutex EXCEPT ![b] = s]
      /\ buffer' = [buffer EXCEPT ![b] = new]
      /\ sent' = [sent EXCEPT ![b] = sent[b] \o more]
      /\ copied' = [copied EXCEPT ![s] = n]
      /\ UNCHANGED <<response, step, left, status, size, rcvd, main>>
  BY DEF SendCopy, At, MayLock, Following, Filled
<1>3. n \in Nat /\ n <= left[s] /\ size[b] + n <= BufferSize /\ n <= BufferSize
  BY <1>0, <1>2 DEF Minimum
<1>4. \A t \in Sides : Script(t)' = Script(t) /\ Call(t)' = Call(t) /\ BufferOf(t)' = BufferOf(t)
  BY <1>2 DEF Script, Call, BufferOf
<1>5. PutIn(b) = 0 /\ TakenOut(b) = 0
  BY <1>1, <1>2 DEF PutIn, TakenOut
<1>6. Holds(sent[b], rcvd[b], buffer[b], size[b], 0, 0)
  BY <1>5 DEF Inv, StreamInv
<1>7. /\ sent[b] \o more \in Seq(Nat) /\ new \in [1..BufferSize -> Nat]
      /\ Len(sent[b] \o more) = Len(sent[b]) + n
      /\ Holds(sent[b] \o more, rcvd[b], new, size[b], n, 0)
  <2>1. /\ sent[b] \in Seq(Nat) /\ rcvd[b] \in Seq(Nat)
        /\ buffer[b] \in [1..BufferSize -> Nat] /\ size[b] \in Nat
    BY <1>0
  <2>2. n \in Nat /\ size[b] + n <= BufferSize
    BY <1>3
  <2>3. QED
    BY <1>6, <2>1, <2>2, CopiedInBuffer, Zenon
<1> HIDE DEF more, new
<1>8. /\ sent'[b] = sent[b] \o more /\ sent'[s] = sent[s]
      /\ mutex'[b] = s /\ mutex'[s] = mutex[s]
      /\ copied'[s] = n /\ copied'[b] = copied[b]
      /\ buffer'[s] = buffer[s] /\ buffer'[b] = new
  BY <1>1, <1>2 DEF TypeOK
<1>9. TypeOK'
  <2>1. copied' \in [Sides -> 0..BufferSize] /\ mutex' \in [Sides -> Sides \cup {"free"}]
    BY <1>2, <1>3 DEF TypeOK
  <2>2. step' \in [Sides -> Positive] /\ \A t \in Sides : step'[t] <= Len(Script(t)') + 1
    BY <1>2, <1>4 DEF TypeOK
  <2>3. buffer' \in [Sides -> [1..BufferSize -> Nat]] /\ sent' \in [Sides -> Seq(Nat)]
    BY <1>2, <1>7 DEF TypeOK
  <2>4. QED
    BY <1>2, <2>1, <2>2, <2>3 DEF TypeOK
<1>10. RunInv'
  BY <1>1, <1>2, <1>3, <1>4, <1>8 DEF Inv, RunInv
<1>11. MutexInv'
  <2>1. BufferOf(s) = b
    BY <1>2 DEF BufferOf
  <2>2. QED
    BY <1>1, <1>2, <1>3, <1>4, <1>8, <2>1 DEF Inv, MutexInv
<1>12. StreamInv(b)'
  <2>1. PutIn(b)' = n /\ TakenOut(b)' = 0
    BY <1>1, <1>8 DEF PutIn, TakenOut
  <2>2. rcvd'[b] = rcvd[b] /\ size'[b] = size[b]
    BY <1>2
  <2>3. QED
    BY <1>7, <1>8, <2>1, <2>2, ZenonT(40) DEF StreamInv, Holds, Counts
<1>13. StreamInv(s)'
  <2>1. mutex[s] # s
    BY <1>2 DEF Inv, MutexInv
  <2>2. PutIn(s)' = PutIn(s) /\ TakenOut(s)' = TakenOut(s)
    BY <1>1, <1>8, <2>1 DEF PutIn, TakenOut
  <2>3. QED
    BY <1>2, <1>8, <2>2, StreamFrame DEF Inv
<1>14. QED
  BY <1>1, <1>7, <1>8, <1>9, <1>10, <1>11, <1>12, <1>13 DEF Inv

(* A receive takes the first bytes of those in the buffer. *)
LEMMA RecvCopyStep ==
  ASSUME TypeOK, Inv, NEW s \in Sides, NEW b \in Sides, b = Peer(s), RecvCopy(s)
  PROVE  /\ TypeOK' /\ Inv' /\ copied'[s] > 0
         /\ Len(rcvd'[s]) = Len(rcvd[s]) + copied'[s]
<1>0. /\ BufferSize \in Nat /\ left[s] \in Nat /\ size[s] \in 0..BufferSize
      /\ buffer[s] \in [1..BufferSize -> Nat]
      /\ sent[s] \in Seq(Nat) /\ rcvd[s] \in Seq(Nat)
  BY TypeFacts
<1>1. s # b /\ s = Peer(b) /\ s # "free" /\ b # "free" /\ \A t \in Sides : t = s \/ t = b
  BY SidesFacts
<1>2. PICK sz \in 1..left[s] :
        /\ rcvd' = [rcvd EXCEPT ![s] = @ \o SubSeq(buffer[s], 1, Minimum(sz, size[s]))]
        /\ copied' = [copied EXCEPT ![s] = Minimum(sz, size[s])]
  BY DEF RecvCopy
<1> DEFINE n == Minimum(sz, size[s])
           more == SubSeq(buffer[s], 1, n)
<1>3. /\ status[s] = "running" /\ copied[s] = 0 /\ Call(s) = "recv"
      /\ mutex[s] = "free" /\ size[s] > 0
      /\ mutex' = [mutex EXCEPT ![s] = s]
      /\ rcvd' = [rcvd EXCEPT ![s] = rcvd[s] \o more]
      /\ copied' = [copied EXCEPT ![s] = n]
      /\ UNCHANGED <<response, step, left, status, buffer, size, sent, main>>
  BY <1>2 DEF RecvCopy, At, MayLock
<1>4. n \in Nat /\ n > 0 /\ n <= left[s] /\ n <= size[s] /\ n <= BufferSize
  BY <1>0, <1>3 DEF Minimum
<1> HIDE DEF n
<1>5. \A t \in Sides : Script(t)' = Script(t) /\ Call(t)' = Call(t) /\ BufferOf(t)' = BufferOf(t)
  BY <1>3 DEF Script, Call, BufferOf
<1>6. PutIn(s) = 0 /\ TakenOut(s) = 0
  BY <1>1, <1>3 DEF PutIn, TakenOut
<1>7. Holds(sent[s], rcvd[s], buffer[s], size[s], 0, 0)
  BY <1>6 DEF Inv, StreamInv
<1>8. /\ rcvd[s] \o more \in Seq(Nat) /\ Len(rcvd[s] \o more) = Len(rcvd[s]) + n
      /\ Holds(sent[s], rcvd[s] \o more, buffer[s], size[s], 0, n)
  <2>1. /\ sent[s] \in Seq(Nat) /\ rcvd[s] \in Seq(Nat)
        /\ buffer[s] \in [1..BufferSize -> Nat] /\ size[s] \in Nat
    BY <1>0
  <2>2. n \in Nat /\ n <= size[s]
    BY <1>4
  <2>3. QED
    BY <1>7, <2>1, <2>2, CopiedOut, ZenonT(40)
<1> HIDE DEF more
<1>9. /\ rcvd'[s] = rcvd[s] \o more /\ rcvd'[b] = rcvd[b]
      /\ mutex'[s] = s /\ mutex'[b] = mutex[b]
      /\ copied'[s] = n /\ copied'[b] = copied[b]
  BY <1>1, <1>3 DEF TypeOK
<1>10. TypeOK'
  <2>1. copied' \in [Sides -> 0..BufferSize] /\ mutex' \in [Sides -> Sides \cup {"free"}]
    BY <1>3, <1>4 DEF TypeOK
  <2>2. step' \in [Sides -> Positive] /\ \A t \in Sides : step'[t] <= Len(Script(t)') + 1
    BY <1>3, <1>5 DEF TypeOK
  <2>3. rcvd' \in [Sides -> Seq(Nat)]
    BY <1>3, <1>8 DEF TypeOK
  <2>4. QED
    BY <1>3, <2>1, <2>2, <2>3 DEF TypeOK
<1>11. RunInv'
  BY <1>1, <1>3, <1>4, <1>5, <1>9 DEF Inv, RunInv
<1>12. MutexInv'
  <2>1. BufferOf(s) = s
    BY <1>3 DEF BufferOf
  <2>2. QED
    BY <1>1, <1>3, <1>4, <1>5, <1>9, <2>1 DEF Inv, MutexInv
<1>13. StreamInv(s)'
  <2>1. PutIn(s)' = 0 /\ TakenOut(s)' = n
    BY <1>1, <1>9 DEF PutIn, TakenOut
  <2>2. sent'[s] = sent[s] /\ size'[s] = size[s] /\ buffer'[s] = buffer[s]
    BY <1>3
  <2>3. QED
    BY <1>8, <1>9, <2>1, <2>2, ZenonT(40) DEF StreamInv, Holds, Counts
<1>14. StreamInv(b)'
  <2>1. mutex[b] # s
    BY <1>3 DEF Inv, MutexInv
  <2>2. PutIn(b)' = PutIn(b) /\ TakenOut(b)' = TakenOut(b)
    BY <1>1, <1>9, <2>1 DEF PutIn, TakenOut
  <2>3. QED
    BY <1>3, <1>9, <2>2, StreamFrame DEF Inv
<1>15. QED
  BY <1>1, <1>4, <1>8, <1>9, <1>10, <1>11, <1>12, <1>13, <1>14 DEF Inv

(* A callback ends: what both kinds have in common. *)
LEMMA ReturnCommon ==
  ASSUME TypeOK, Inv, NEW s \in Sides, NEW b \in Sides, b = BufferOf(s),
         status[s] = "running", copied[s] > 0, Returns(s),
         mutex' = [mutex EXCEPT ![b] = "free"], UNCHANGED <<response, main>>
  PROVE  /\ RunInv' /\ MutexInv'
         /\ mutex[b] = s /\ \A a \in Sides : a # b => mutex[a] # s
         /\ copied'[s] = 0 /\ \A a \in Sides : a # s => copied'[a] = copied[a]
         /\ copied' \in [Sides -> 0..BufferSize] /\ left' \in [Sides -> Nat]
         /\ mutex' \in [Sides -> Sides \cup {"free"}]
         /\ status' \in [Sides -> {"running", "finished", "sendFailed", "failed"}]
         /\ step' \in [Sides -> Positive] /\ \A a \in Sides : step'[a] <= Len(Script(a)') + 1
<1>0. PICK t \in Sides : s # t /\ s # "free" /\ t # "free" /\ \A a \in Sides : a = s \/ a = t
  BY SidesFacts
<1>1. /\ copied' = [copied EXCEPT ![s] = 0]
      /\ step' = [step EXCEPT ![s] = step'[s]]
      /\ left' = [left EXCEPT ![s] = left'[s]]
      /\ status' = [status EXCEPT ![s] = status'[s]]
      /\ left'[s] \in Nat
      /\ status'[s] \in {"running", "finished"}
      /\ step'[s] \in 1..(Len(Script(s)) + 1)
      /\ status'[s] = "running" => step'[s] \in 1..Len(Script(s)) /\ left'[s] > 0
  BY ReturnsFacts DEF Inv
<1>2. /\ copied'[s] = 0 /\ copied'[t] = copied[t] /\ step'[t] = step[t]
      /\ left'[t] = left[t] /\ status'[t] = status[t]
  BY <1>0, <1>1 DEF TypeOK
<1>3. \A a \in Sides : Script(a)' = Script(a) /\ Len(Script(a)) \in Nat
  BY ScriptFacts DEF TypeOK, Script
<1>4. mutex[b] = s /\ \A a \in Sides : a # b => mutex[a] # s
  BY DEF Inv, MutexInv
<1>5. BufferOf(t)' = BufferOf(t)
  BY <1>2, <1>3 DEF BufferOf, Call
<1>6. RunInv'
  <2>1. /\ status'[s] = "running" =>
             step'[s] \in 1..Len(Script(s)') /\ left'[s] > 0 /\ copied'[s] <= left'[s]
        /\ status'[s] # "running" => copied'[s] = 0
    BY <1>1, <1>2, <1>3
  <2>2. /\ status'[t] = "running" =>
             step'[t] \in 1..Len(Script(t)') /\ left'[t] > 0 /\ copied'[t] <= left'[t]
        /\ status'[t] # "running" => copied'[t] = 0
    BY <1>2, <1>3 DEF Inv, RunInv
  <2>3. QED
    BY <1>0, <2>1, <2>2 DEF RunInv
<1>7. MutexInv'
  <2>1. \A a \in Sides : mutex'[a] = IF a = b THEN "free" ELSE mutex[a]
    BY DEF TypeOK
  <2>2. \A a \in Sides : mutex'[a] = s <=> copied'[s] > 0 /\ BufferOf(s)' = a
    BY <1>0, <1>2, <1>4, <2>1
  <2>3. \A a \in Sides : mutex'[a] = t <=> copied'[t] > 0 /\ BufferOf(t)' = a
    BY <1>0, <1>2, <1>4, <1>5, <2>1 DEF Inv, MutexInv
  <2>4. QED
    BY <1>0, <2>2, <2>3 DEF MutexInv
<1>8. /\ copied' \in [Sides -> 0..BufferSize] /\ left' \in [Sides -> Nat]
      /\ mutex' \in [Sides -> Sides \cup {"free"}]
      /\ status' \in [Sides -> {"running", "finished", "sendFailed", "failed"}]
  <2>1. 0 \in 0..BufferSize
    BY ThreadedAssumption DEF Positive
  <2>2. copied' \in [Sides -> 0..BufferSize] /\ mutex' \in [Sides -> Sides \cup {"free"}]
    BY <1>1, <2>1 DEF TypeOK
  <2>3. left' \in [Sides -> Nat]
    BY <1>1 DEF TypeOK
  <2>4. status' \in [Sides -> {"running", "finished", "sendFailed", "failed"}]
    BY <1>1 DEF TypeOK
  <2>5. QED
    BY <2>2, <2>3, <2>4
<1>9. step' \in [Sides -> Positive] /\ \A a \in Sides : step'[a] <= Len(Script(a)') + 1
  <2>1. step'[s] \in Positive /\ step'[s] <= Len(Script(s)') + 1
    BY <1>1, <1>3 DEF Positive
  <2>2. step'[t] <= Len(Script(t)') + 1
    BY <1>2, <1>3 DEF TypeOK
  <2>3. step' \in [Sides -> Positive]
    BY <1>1, <2>1 DEF TypeOK
  <2>4. QED
    BY <1>0, <2>1, <2>2, <2>3
<1>10. QED
  BY <1>0, <1>2, <1>4, <1>6, <1>7, <1>8, <1>9

LEMMA SendReturnStep ==
  ASSUME TypeOK, Inv, NEW s \in Sides, NEW b \in Sides, b = Peer(s), SendReturn(s)
  PROVE  TypeOK' /\ Inv'
<1>0. /\ copied[s] \in Nat /\ size[b] \in Nat
      /\ sent[b] \in Seq(Nat) /\ rcvd[b] \in Seq(Nat)
  BY TypeFacts
<1>1. s # b /\ s = Peer(b) /\ s # "free" /\ b # "free" /\ \A t \in Sides : t = s \/ t = b
  BY SidesFacts
<1>2. /\ status[s] = "running" /\ copied[s] > 0 /\ Call(s) \in {"send", "write"} /\ Returns(s)
      /\ size' = [size EXCEPT ![b] = size[b] + copied[s]]
      /\ mutex' = [mutex EXCEPT ![b] = "free"]
      /\ UNCHANGED <<response, buffer, sent, rcvd, main>>
  BY DEF SendReturn
<1>3. b = BufferOf(s)
  BY <1>2 DEF BufferOf
<1>4. /\ RunInv' /\ MutexInv'
      /\ mutex[b] = s /\ \A a \in Sides : a # b => mutex[a] # s
      /\ copied'[s] = 0 /\ \A a \in Sides : a # s => copied'[a] = copied[a]
      /\ copied' \in [Sides -> 0..BufferSize] /\ left' \in [Sides -> Nat]
      /\ mutex' \in [Sides -> Sides \cup {"free"}]
      /\ status' \in [Sides -> {"running", "finished", "sendFailed", "failed"}]
      /\ step' \in [Sides -> Positive] /\ \A a \in Sides : step'[a] <= Len(Script(a)') + 1
  BY <1>2, <1>3, ReturnCommon
<1>5. PutIn(b) = copied[s] /\ TakenOut(b) = 0
  BY <1>1, <1>4 DEF PutIn, TakenOut
<1>6. size[b] + copied[s] <= BufferSize
      /\ Holds(sent[b], rcvd[b], buffer[b], size[b] + copied[s], 0, 0)
  <2>1. Holds(sent[b], rcvd[b], buffer[b], size[b], copied[s], 0)
    BY <1>5 DEF Inv, StreamInv
  <2>2. QED
    BY <1>0, <2>1, PutInCounted
<1>7. /\ mutex'[b] = "free" /\ mutex'[s] = mutex[s]
      /\ size'[b] = size[b] + copied[s] /\ size'[s] = size[s]
  BY <1>1, <1>2 DEF TypeOK
<1>8. StreamInv(b)'
  <2>1. PutIn(b)' = 0 /\ TakenOut(b)' = 0
    BY <1>1, <1>7 DEF PutIn, TakenOut
  <2>2. sent'[b] = sent[b] /\ rcvd'[b] = rcvd[b] /\ buffer'[b] = buffer[b]
    BY <1>2
  <2>3. QED
    BY <1>6, <1>7, <2>1, <2>2, ZenonT(40) DEF StreamInv, Holds, Counts
<1>9. StreamInv(s)'
  <2>1. PutIn(s)' = PutIn(s) /\ TakenOut(s)' = TakenOut(s)
    BY <1>1, <1>4, <1>7 DEF PutIn, TakenOut
  <2>2. QED
    BY <1>2, <1>7, <2>1, StreamFrame DEF Inv
<1>10. size' \in [Sides -> 0..BufferSize]
  <2>1. size[b] + copied[s] \in 0..BufferSize
    BY <1>0, <1>6, ThreadedAssumption DEF Positive
  <2>2. QED
    BY <1>2, <2>1 DEF TypeOK
<1>11. QED
  BY <1>1, <1>2, <1>4, <1>8, <1>9, <1>10 DEF Inv, TypeOK

(* MovedUp, for the buffer of b. *)
LEMMA MovedUpBuffer ==
  ASSUME NEW b, NEW n \in Nat, sent[b] \in Seq(Nat), rcvd[b] \in Seq(Nat),
         buffer[b] \in [1..BufferSize -> Nat], size[b] \in Nat,
         Holds(sent[b], rcvd[b], buffer[b], size[b], 0, n)
  PROVE  /\ Moved(b, n) \in [1..BufferSize -> Nat] /\ size[b] - n \in 0..BufferSize
         /\ Holds(sent[b], rcvd[b], Moved(b, n), size[b] - n, 0, 0)
<1>1. Moved(b, n) = [i \in 1..BufferSize |->
                       IF i <= size[b] - n THEN buffer[b][i + n] ELSE buffer[b][i]]
  BY DEF Moved
<1>2. QED
  BY <1>1, MovedUp

LEMMA RecvReturnStep ==
  ASSUME TypeOK, Inv, NEW s \in Sides, NEW b \in Sides, b = Peer(s), RecvReturn(s)
  PROVE  TypeOK' /\ Inv'
<1>0. /\ copied[s] \in Nat /\ size[s] \in Nat
      /\ sent[s] \in Seq(Nat) /\ rcvd[s] \in Seq(Nat)
      /\ buffer[s] \in [1..BufferSize -> Nat]
  BY TypeFacts
<1>1. s # b /\ s = Peer(b) /\ s # "free" /\ b # "free" /\ \A t \in Sides : t = s \/ t = b
  BY SidesFacts
<1>2. /\ status[s] = "running" /\ copied[s] > 0 /\ Call(s) = "recv" /\ Returns(s)
      /\ buffer' = [buffer EXCEPT ![s] = Moved(s, copied[s])]
      /\ size' = [size EXCEPT ![s] = size[s] - copied[s]]
      /\ mutex' = [mutex EXCEPT ![s] = "free"]
      /\ UNCHANGED <<response, sent, rcvd, main>>
  BY DEF RecvReturn
<1>3. s = BufferOf(s)
  BY <1>2 DEF BufferOf
<1>4. /\ RunInv' /\ MutexInv'
      /\ mutex[s] = s /\ \A a \in Sides : a # s => mutex[a] # s
      /\ copied'[s] = 0 /\ \A a \in Sides : a # s => copied'[a] = copied[a]
      /\ copied' \in [Sides -> 0..BufferSize] /\ left' \in [Sides -> Nat]
      /\ mutex' \in [Sides -> Sides \cup {"free"}]
      /\ status' \in [Sides -> {"running", "finished", "sendFailed", "failed"}]
      /\ step' \in [Sides -> Positive] /\ \A a \in Sides : step'[a] <= Len(Script(a)') + 1
  BY <1>2, <1>3, ReturnCommon
<1>5. PutIn(s) = 0 /\ TakenOut(s) = copied[s]
  BY <1>1, <1>4 DEF PutIn, TakenOut
<1> DEFINE new == Moved(s, copied[s])
<1>6. /\ new \in [1..BufferSize -> Nat] /\ size[s] - copied[s] \in 0..BufferSize
      /\ Holds(sent[s], rcvd[s], new, size[s] - copied[s], 0, 0)
  <2>1. Holds(sent[s], rcvd[s], buffer[s], size[s], 0, copied[s])
    BY <1>5 DEF Inv, StreamInv
  <2>2. QED
    BY <1>0, <2>1, MovedUpBuffer, Zenon
<1> HIDE DEF new
<1>7. /\ mutex'[s] = "free" /\ mutex'[b] = mutex[b]
      /\ size'[s] = size[s] - copied[s] /\ size'[b] = size[b]
      /\ buffer'[s] = new /\ buffer'[b] = buffer[b]
  BY <1>1, <1>2 DEF TypeOK, new
<1>8. StreamInv(s)'
  <2>1. PutIn(s)' = 0 /\ TakenOut(s)' = 0
    BY <1>1, <1>7 DEF PutIn, TakenOut
  <2>2. sent'[s] = sent[s] /\ rcvd'[s] = rcvd[s]
    BY <1>2
  <2>3. QED
    BY <1>6, <1>7, <2>1, <2>2, ZenonT(40) DEF StreamInv, Holds, Counts
<1>9. StreamInv(b)'
  <2>1. PutIn(b)' = PutIn(b) /\ TakenOut(b)' = TakenOut(b)
    BY <1>1, <1>4, <1>7 DEF PutIn, TakenOut
  <2>2. QED
    BY <1>2, <1>7, <2>1, StreamFrame DEF Inv
<1>10. size' \in [Sides -> 0..BufferSize] /\ buffer' \in [Sides -> [1..BufferSize -> Nat]]
  BY <1>2, <1>6 DEF TypeOK, new
<1>11. QED
  BY <1>1, <1>2, <1>4, <1>8, <1>9, <1>10 DEF Inv, TypeOK

(* A side that ends, and main, leave the buffers alone. *)
LEMMA EndStep ==
  ASSUME TypeOK, Inv, NEW s \in Sides, WriteFails(s) \/ Fails(s)
  PROVE  TypeOK' /\ Inv'
<1>1. /\ copied[s] = 0
      /\ \E e \in {"sendFailed", "failed"} : status' = [status EXCEPT ![s] = e]
      /\ UNCHANGED <<response, step, left, copied, buffer, size, mutex, sent, rcvd, main>>
  BY DEF WriteFails, Fails, At
<1>2. \A t \in Sides : Script(t)' = Script(t) /\ Call(t)' = Call(t) /\ BufferOf(t)' = BufferOf(t)
  BY <1>1 DEF Script, Call, BufferOf
<1>3. TypeOK'
  BY <1>1, <1>2 DEF TypeOK
<1>4. RunInv'
  <2>1. \A t \in Sides : t # s => status'[t] = status[t]
    BY <1>1 DEF TypeOK
  <2>2. status'[s] # "running"
    BY <1>1 DEF TypeOK
  <2>3. QED
    BY <1>1, <1>2, <2>1, <2>2 DEF Inv, RunInv
<1>5. MutexInv'
  BY <1>1, <1>2 DEF Inv, MutexInv
<1>6. \A b \in Sides : StreamInv(b)'
  <2>1. TAKE b \in Sides
  <2>2. PutIn(b)' = PutIn(b) /\ TakenOut(b)' = TakenOut(b)
    BY <1>1 DEF PutIn, TakenOut
  <2>3. QED
    BY <1>1, <2>2, StreamFrame DEF Inv
<1>7. QED
  BY <1>3, <1>4, <1>5, <1>6 DEF Inv

LEMMA FrameStep ==
  ASSUME TypeOK, Inv, main' \in {"client", "join", "done"},
         UNCHANGED <<response, threads, buffer, size, mutex, sent, rcvd>>
  PROVE  TypeOK' /\ Inv'
<1>1. \A t \in Sides : Script(t)' = Script(t) /\ Call(t)' = Call(t) /\ BufferOf(t)' = BufferOf(t)
  BY DEF Script, Call, BufferOf
<1>2. TypeOK'
  BY <1>1 DEF TypeOK
<1>3. RunInv' /\ MutexInv'
  BY <1>1 DEF Inv, RunInv, MutexInv
<1>4. \A b \in Sides : StreamInv(b)'
  <2>1. TAKE b \in Sides
  <2>2. PutIn(b)' = PutIn(b) /\ TakenOut(b)' = TakenOut(b)
    BY DEF PutIn, TakenOut
  <2>3. QED
    BY <2>2, StreamFrame DEF Inv
<1>5. QED
  BY <1>2, <1>3, <1>4 DEF Inv

LEMMA InitInv == Init => TypeOK /\ Inv
<1> SUFFICES ASSUME Init
             PROVE  TypeOK /\ Inv
  OBVIOUS
<1>0. /\ response \in Responses /\ BufferSize \in Nat /\ BufferSize > 0
      /\ \A s \in Sides : /\ step[s] = 1 /\ left[s] = Script(s)[1].len /\ copied[s] = 0
                          /\ status[s] = "running" /\ size[s] = 0 /\ mutex[s] = "free"
                          /\ sent[s] = <<>> /\ rcvd[s] = <<>>
  BY ThreadedAssumption DEF Init, Positive
<1>1. \A s \in Sides : /\ Len(Script(s)) \in Nat /\ Len(Script(s)) > 0
                       /\ Script(s)[1].len \in Nat /\ Script(s)[1].len > 0
  <2>1. TAKE s \in Sides
  <2>2. Len(Script(s)) \in Nat /\ Len(Script(s)) > 0 /\ 1 \in 1..Len(Script(s))
    BY <1>0, ScriptFacts
  <2>3. QED
    BY <1>0, <2>2, ScriptFacts
<1>2. TypeOK
  <2>1. step \in [Sides -> Positive] /\ \A s \in Sides : step[s] <= Len(Script(s)) + 1
    BY <1>1 DEF Init, Positive
  <2>2. left \in [Sides -> Nat]
    BY <1>1 DEF Init
  <2>3. /\ copied \in [Sides -> 0..BufferSize] /\ size \in [Sides -> 0..BufferSize]
        /\ buffer \in [Sides -> [1..BufferSize -> Nat]]
    BY <1>0 DEF Init
  <2>4. sent \in [Sides -> Seq(Nat)] /\ rcvd \in [Sides -> Seq(Nat)]
    BY DEF Init
  <2>5. QED
    BY <2>1, <2>2, <2>3, <2>4 DEF Init, TypeOK
<1>3. RunInv
  BY <1>0, <1>1 DEF RunInv
<1>4. MutexInv
  BY <1>0, SidesFacts DEF MutexInv
<1>5. \A b \in Sides : StreamInv(b)
  <2>1. TAKE b \in Sides
  <2>2. PutIn(b) = 0 /\ TakenOut(b) = 0
    BY <1>0, SidesFacts DEF PutIn, TakenOut
  <2>3. Holds(<<>>, <<>>, buffer[b], 0, 0, 0)
    BY <1>0 DEF Holds, Counts
  <2>4. QED
    BY <1>0, <2>1, <2>2, <2>3 DEF StreamInv
<1>6. QED
  BY <1>2, <1>3, <1>4, <1>5 DEF Inv

LEMMA NextInv == TypeOK /\ Inv /\ [Next]_vars => TypeOK' /\ Inv'
<1> SUFFICES ASSUME TypeOK, Inv, [Next]_vars
             PROVE  TypeOK' /\ Inv'
  OBVIOUS
<1>1. ASSUME NEW s \in Sides, SideStep(s) \/ Fails(s)
      PROVE  TypeOK' /\ Inv'
  <2>0. PICK b \in Sides : b = Peer(s)
    BY SidesFacts
  <2>1. CASE SendCopy(s)
    <3>1. PICK n : n = Minimum(left[s], BufferSize - size[b])
      OBVIOUS
    <3>2. QED
      BY <2>0, <2>1, <3>1, SendCopyStep
  <2>2. CASE SendReturn(s)
    BY <2>0, <2>2, SendReturnStep
  <2>3. CASE RecvCopy(s)
    BY <2>0, <2>3, RecvCopyStep
  <2>4. CASE RecvReturn(s)
    BY <2>0, <2>4, RecvReturnStep
  <2>5. CASE WriteFails(s) \/ Fails(s)
    BY <2>5, EndStep
  <2>6. QED
    BY <1>1, <2>1, <2>2, <2>3, <2>4, <2>5 DEF SideStep
<1>2. CASE Join
  BY <1>2, FrameStep DEF Join
<1>3. CASE UNCHANGED vars
  <2>1. main' \in {"client", "join", "done"}
    BY <1>3 DEF vars, TypeOK
  <2>2. QED
    BY <1>3, <2>1, FrameStep DEF vars
<1>4. QED
  BY <1>1, <1>2, <1>3 DEF Next

--------------------------------------------------------------------------------
(* What follows. *)

(* At any time the bytes in a buffer are the next ones of its stream: the     *)
(* invariant that the other theorems rest on.                                 *)
THEOREM StreamInvariant == Spec => [](TypeOK /\ Inv)
BY InitInv, NextInv, PTL DEF Spec

(* The callbacks keep every variable in its range: size never leaves the      *)
(* buffer, and no side is beyond its script.                                  *)
THEOREM TypeCorrect == Spec => []TypeOK
BY StreamInvariant, PTL

LEMMA SameSequence ==
  ASSUME NEW x \in Seq(Nat), NEW y \in Seq(Nat), Len(x) = Len(y),
         \A i \in 1..Len(x) : x[i] = y[i]
  PROVE  x = y
OBVIOUS

(* The first bytes of a buffer are a part of its stream. *)
LEMMA BufferIsPart ==
  ASSUME NEW q \in Seq(Nat), NEW r \in Seq(Nat), NEW buf \in [1..BufferSize -> Nat],
         NEW sz \in Nat, Holds(q, r, buf, sz, 0, 0)
  PROVE  SubSeq(buf, 1, sz) = SubSeq(q, Len(r) + 1, Len(q))
<1>0. BufferSize \in Nat /\ Len(q) \in Nat /\ Len(r) \in Nat
  BY ThreadedAssumption DEF Positive
<1>1. /\ Counts(q) /\ sz = Len(q) - Len(r) /\ sz <= BufferSize
      /\ \A i \in 1..sz : buf[i] = Len(r) + i
  BY <1>0 DEF Holds
<1> DEFINE x == SubSeq(buf, 1, sz)
           y == SubSeq(q, Len(r) + 1, Len(q))
<1>2. x \in Seq(Nat) /\ Len(x) = sz /\ \A i \in 1..sz : x[i] = Len(r) + i
  <2>1. buf \in Seq(Nat) /\ Len(buf) = BufferSize
    BY <1>0
  <2>2. x \in Seq(Nat) /\ Len(x) = sz /\ \A i \in 1..sz : x[i] = buf[i]
    BY <1>0, <1>1, <2>1
  <2>3. QED
    BY <1>1, <2>2
<1>3. y \in Seq(Nat) /\ Len(y) = sz /\ \A i \in 1..sz : y[i] = Len(r) + i
  <2>1. y \in Seq(Nat) /\ Len(y) = sz /\ \A i \in 1..sz : y[i] = q[Len(r) + i]
    BY <1>0, <1>1, SMTT(40)
  <2>2. \A i \in 1..sz : q[Len(r) + i] = Len(r) + i
    BY <1>0, <1>1 DEF Counts
  <2>3. QED
    BY <2>1, <2>2
<1> HIDE DEF x, y
<1>4. Len(x) = Len(y) /\ \A i \in 1..Len(x) : x[i] = y[i]
  BY <1>2, <1>3
<1>5. x = y
  BY <1>2, <1>3, <1>4, SameSequence
<1>6. QED
  BY <1>5 DEF x, y

(* Whatever the interleaving of the two threads, a buffer that nobody is      *)
(* working on holds exactly the bytes sent and not yet received, and nobody   *)
(* works on it without its mutex.                                             *)
THEOREM BuffersExact == Spec => []BufferExact
<1>1. ASSUME TypeOK, Inv
      PROVE  BufferExact
  <2>1. ASSUME NEW s \in Sides, mutex[s] = "free"
        PROVE  SubSeq(buffer[s], 1, size[s]) = SubSeq(sent[s], Len(rcvd[s]) + 1, Len(sent[s]))
    <3>1. PutIn(s) = 0 /\ TakenOut(s) = 0
      BY <2>1, SidesFacts DEF PutIn, TakenOut
    <3>2. Holds(sent[s], rcvd[s], buffer[s], size[s], 0, 0)
      BY <1>1, <3>1 DEF Inv, StreamInv
    <3>3. /\ sent[s] \in Seq(Nat) /\ rcvd[s] \in Seq(Nat)
          /\ buffer[s] \in [1..BufferSize -> Nat] /\ size[s] \in Nat
      BY <1>1, TypeFacts
    <3>4. QED
      BY <3>2, <3>3, BufferIsPart
  <2>2. ASSUME NEW t \in Sides, copied[t] > 0
        PROVE  mutex[IF Call(t) = "recv" THEN t ELSE Peer(t)] = t
    <3>1. BufferOf(t) \in Sides
      BY SidesFacts DEF BufferOf
    <3>2. mutex[BufferOf(t)] = t
      BY <1>1, <2>2, <3>1 DEF Inv, MutexInv
    <3>3. QED
      BY <3>2 DEF BufferOf
  <2>3. QED
    BY <2>1, <2>2 DEF BufferExact
<1>2. QED
  BY <1>1, StreamInvariant, PTL

--------------------------------------------------------------------------------
(* Each direction is a ByteChannel. *)

(* Of two streams the shorter is the beginning of the longer. *)
LEMMA Beginning ==
  ASSUME NEW q \in Seq(Nat), NEW r \in Seq(Nat), Counts(q), Counts(r), Len(q) <= Len(r)
  PROVE  SubSeq(r, 1, Len(q)) = q
<1>0. Len(q) \in Nat /\ Len(r) \in Nat
  OBVIOUS
<1> DEFINE x == SubSeq(r, 1, Len(q))
<1>1. x \in Seq(Nat) /\ Len(x) = Len(q) /\ \A i \in 1..Len(q) : x[i] = r[i]
  BY <1>0
<1>2. \A i \in 1..Len(q) : r[i] = i /\ q[i] = i
  BY <1>0 DEF Counts
<1> HIDE DEF x
<1>3. \A i \in 1..Len(x) : x[i] = q[i]
  BY <1>1, <1>2
<1>4. x = q
  BY <1>1, <1>3, SameSequence
<1>5. QED
  BY <1>4 DEF x

(* At most BUFFER_SIZE bytes are on the way. *)
Flow ==
  \A b \in Sides :
    /\ Counts(sent[b]) /\ Counts(rcvd[b])
    /\ Len(sent[b]) \in Nat /\ Len(rcvd[b]) \in Nat
    /\ Len(rcvd[b]) <= Len(sent[b]) /\ Len(sent[b]) <= Len(rcvd[b]) + BufferSize

LEMMA OnTheWay == TypeOK /\ Inv => Flow
<1> SUFFICES ASSUME TypeOK, Inv, NEW b \in Sides
             PROVE  /\ Counts(sent[b]) /\ Counts(rcvd[b])
                    /\ Len(sent[b]) \in Nat /\ Len(rcvd[b]) \in Nat
                    /\ Len(rcvd[b]) <= Len(sent[b])
                    /\ Len(sent[b]) <= Len(rcvd[b]) + BufferSize
  BY DEF Flow
<1>0. /\ BufferSize \in Nat /\ Len(sent[b]) \in Nat /\ Len(rcvd[b]) \in Nat
      /\ size[b] \in Nat /\ copied[b] \in Nat /\ Peer(b) \in Sides
  BY TypeFacts, SidesFacts
<1>1. PutIn(b) \in Nat /\ TakenOut(b) \in Nat
  BY <1>0, TypeFacts DEF PutIn, TakenOut
<1>2. /\ Counts(sent[b]) /\ Counts(rcvd[b])
      /\ TakenOut(b) <= size[b] /\ size[b] + PutIn(b) <= BufferSize
      /\ size[b] + PutIn(b) = Len(sent[b]) - Len(rcvd[b]) + TakenOut(b)
  BY DEF Inv, StreamInv, Holds
<1>3. \A x, in, out, q, r, n \in Nat :
        out <= x /\ x + in <= n /\ x + in = q - r + out => r <= q /\ q <= r + n
  OBVIOUS
<1>4. Len(rcvd[b]) <= Len(sent[b]) /\ Len(sent[b]) <= Len(rcvd[b]) + BufferSize
  BY <1>0, <1>1, <1>2, <1>3
<1>5. QED
  BY <1>0, <1>2, <1>4

(* A step puts bytes into the buffer of b, takes some out, or neither. *)
ChannelPut(b) ==
  /\ Len(sent[b]') > Len(sent[b])
  /\ Len(sent[b]') <= Len(rcvd[b]) + BufferSize
  /\ SubSeq(sent[b]', 1, Len(sent[b])) = sent[b]
  /\ rcvd[b]' = rcvd[b]
ChannelTake(b) ==
  /\ Len(rcvd[b]') > Len(rcvd[b])
  /\ Len(rcvd[b]') <= Len(sent[b])
  /\ rcvd[b]' = SubSeq(sent[b], 1, Len(rcvd[b]'))
  /\ sent[b]' = sent[b]
ChannelStep(b) ==
  ChannelPut(b) \/ ChannelTake(b) \/ (sent[b]' = sent[b] /\ rcvd[b]' = rcvd[b])

LEMMA SendIsPut ==
  ASSUME TypeOK, Inv, TypeOK', Inv', NEW s \in Sides, NEW b \in Sides, b = Peer(s), SendCopy(s)
  PROVE  ChannelPut(b) /\ ChannelStep(s)
<1>1. PICK n : n = Minimum(left[s], BufferSize - size[b])
  OBVIOUS
<1>2. n > 0 /\ rcvd' = rcvd /\ s # b /\ \A t \in Sides : t # b => sent'[t] = sent[t]
  BY <1>1, SidesFacts DEF SendCopy, TypeOK
<1>3. Len(sent'[b]) = Len(sent[b]) + n
  BY <1>1, SendCopyStep
<1>4. /\ Counts(sent[b]) /\ Counts(sent[b]') /\ Len(sent[b]) \in Nat /\ Len(sent[b]') \in Nat
      /\ Len(sent[b]') <= Len(rcvd[b]') + BufferSize
  <2>1. Flow /\ Flow'
    BY OnTheWay, PTL
  <2>2. QED
    BY <2>1 DEF Flow, Counts
<1>5. n \in Nat
  <2>1. left[s] \in Nat /\ size[b] \in 0..BufferSize /\ BufferSize \in Nat
    BY TypeFacts
  <2>2. QED
    BY <1>1, <1>2, <2>1 DEF Minimum
<1>6. sent[b] \in Seq(Nat) /\ sent[b]' \in Seq(Nat)
  BY DEF TypeOK
<1>7. Len(sent[b]') > Len(sent[b])
  BY <1>2, <1>3, <1>4, <1>5
<1>8. SubSeq(sent[b]', 1, Len(sent[b])) = sent[b]
  <2>1. Len(sent[b]) <= Len(sent[b]')
    BY <1>4, <1>7
  <2>2. PICK q, r : q = sent[b] /\ r = sent[b]'
    OBVIOUS
  <2>3. /\ q \in Seq(Nat) /\ r \in Seq(Nat) /\ Len(q) <= Len(r)
        /\ Counts(q) /\ Counts(r)
    BY <1>4, <1>6, <2>1, <2>2
  <2>4. QED
    BY <2>2, <2>3, Beginning
<1>9. QED
  BY <1>2, <1>4, <1>7, <1>8 DEF ChannelPut, ChannelStep

LEMMA RecvIsTake ==
  ASSUME TypeOK, Inv, TypeOK', Inv', NEW s \in Sides, NEW b \in Sides, b = Peer(s), RecvCopy(s)
  PROVE  ChannelTake(s) /\ ChannelStep(b)
<1>1. sent' = sent /\ s # b /\ \A t \in Sides : t # s => rcvd'[t] = rcvd[t]
  BY SidesFacts DEF RecvCopy, TypeOK
<1>2. copied'[s] > 0 /\ Len(rcvd'[s]) = Len(rcvd[s]) + copied'[s]
  BY RecvCopyStep
<1>3. /\ Len(rcvd[s]) \in Nat /\ Len(rcvd[s]') \in Nat /\ Counts(sent[s]) /\ Counts(rcvd[s]')
      /\ Len(rcvd[s]') <= Len(sent[s]')
  <2>1. Flow /\ Flow'
    BY OnTheWay, PTL
  <2>2. QED
    BY <2>1 DEF Flow, Counts
<1>4. sent[s] \in Seq(Nat) /\ rcvd[s]' \in Seq(Nat) /\ copied'[s] \in 0..BufferSize
  BY DEF TypeOK
<1>5. Len(rcvd[s]') > Len(rcvd[s]) /\ Len(rcvd[s]') <= Len(sent[s])
  BY <1>1, <1>2, <1>3, <1>4, ThreadedAssumption DEF Positive
<1>6. rcvd[s]' = SubSeq(sent[s], 1, Len(rcvd[s]'))
  BY <1>3, <1>4, <1>5, Beginning
<1>7. QED
  BY <1>1, <1>5, <1>6 DEF ChannelTake, ChannelStep

LEMMA NextIsChannelStep ==
  ASSUME TypeOK, Inv, TypeOK', Inv', [Next]_vars
  PROVE  \A b \in Sides : ChannelStep(b)
<1>1. ASSUME NEW s \in Sides, SideStep(s) \/ Fails(s)
      PROVE  \A b \in Sides : ChannelStep(b)
  <2>0. PICK b \in Sides : b = Peer(s) /\ \A t \in Sides : t = s \/ t = b
    BY SidesFacts
  <2>1. CASE SendCopy(s)
    BY <2>0, <2>1, SendIsPut DEF ChannelStep
  <2>2. CASE RecvCopy(s)
    BY <2>0, <2>2, RecvIsTake DEF ChannelStep
  <2>3. CASE SendReturn(s) \/ RecvReturn(s) \/ WriteFails(s) \/ Fails(s)
    BY <2>3 DEF SendReturn, RecvReturn, WriteFails, Fails, ChannelStep
  <2>4. QED
    BY <1>1, <2>1, <2>2, <2>3 DEF SideStep
<1>2. CASE Join \/ UNCHANGED vars
  BY <1>2 DEF Join, vars, ChannelStep
<1>3. QED
  BY <1>1, <1>2 DEF Next

(* In each direction the callbacks of the two threads are a reliable stream   *)
(* of bytes with room for BUFFER_SIZE of them: nothing is lost, doubled or    *)
(* reordered, for buffers and messages of any size.                           *)
THEOREM BuffersImplementChannels == Spec => BuffersAreChannels
<1>1. Init => ToServer!Init /\ ToClient!Init
  BY DEF Init, ToServer!Init, ToClient!Init, Sides
<1>2. ASSUME TypeOK, Inv, TypeOK', Inv', [Next]_vars
      PROVE  /\ [ToServer!Next]_<<sent["server"], rcvd["server"]>>
             /\ [ToClient!Next]_<<sent["client"], rcvd["client"]>>
  <2>1. ChannelStep("server") /\ ChannelStep("client")
    BY <1>2, NextIsChannelStep DEF Sides
  <2>2. QED
    BY <2>1 DEF ChannelStep, ChannelPut, ChannelTake, ToServer!Next, ToServer!Put,
                ToServer!Take, ToClient!Next, ToClient!Put, ToClient!Take
<1>3. QED
  BY <1>1, <1>2, StreamInvariant, PTL
  DEF Spec, BuffersAreChannels, ToServer!Spec, ToClient!Spec

--------------------------------------------------------------------------------
(* No message is refused.  How many bytes a side has sent and received is     *)
(* known from where it is in its script.                                      *)

(* The bytes of the calls before the n-th one. *)
OutBefore(s, n) ==
  IF s = "client"
    THEN IF n = 1 THEN 0 ELSE IF n \in {2, 3} THEN ClientHello
         ELSE IF n = 4 THEN ClientHello + ClientFinished
         ELSE ClientHello + ClientFinished + Request
    ELSE IF n \in {1, 2} THEN 0 ELSE IF n \in {3, 4} THEN ServerFlight
         ELSE IF n \in {5, 6} THEN ServerFlight + Tickets
         ELSE ServerFlight + Tickets + response
InBefore(s, n) ==
  IF s = "client"
    THEN IF n \in {1, 2} THEN 0 ELSE IF n \in {3, 4, 5} THEN ServerFlight
         ELSE ServerFlight + Tickets + response
    ELSE IF n = 1 THEN 0 ELSE IF n \in {2, 3} THEN ClientHello
         ELSE IF n \in {4, 5} THEN ClientHello + ClientFinished
         ELSE ClientHello + ClientFinished + Request

(* The bytes of the call that a side is in. *)
OfCall(s) == IF step[s] \in 1..Len(Script(s)) THEN Script(s)[step[s]].len - left[s] + copied[s]
                                             ELSE 0
Receives(s) == step[s] \in 1..Len(Script(s)) /\ Call(s) = "recv"

Progress(s) ==
  /\ OfCall(s) \in Nat
  /\ Len(sent[Peer(s)]) = OutBefore(s, step[s]) + (IF Receives(s) THEN 0 ELSE OfCall(s))
  /\ Len(rcvd[s]) = InBefore(s, step[s]) + (IF Receives(s) THEN OfCall(s) ELSE 0)
  /\ step[s] \in 1..Len(Script(s)) =>
       OfCall(s) <= Script(s)[step[s]].len /\ copied[s] <= left[s]

LEMMA BeforeFacts ==
  ASSUME TypeOK, NEW s \in Sides
  PROVE  /\ OutBefore(s, 1) = 0 /\ InBefore(s, 1) = 0
         /\ \A n \in 1..Len(Script(s)) :
              /\ OutBefore(s, n + 1) = OutBefore(s, n)
                                       + (IF Script(s)[n].call = "recv" THEN 0 ELSE Script(s)[n].len)
              /\ InBefore(s, n + 1) = InBefore(s, n)
                                       + (IF Script(s)[n].call = "recv" THEN Script(s)[n].len ELSE 0)
         /\ \A n \in 1..(Len(Script(s)) + 1) : OutBefore(s, n) \in Nat /\ InBefore(s, n) \in Nat
<1>0. /\ response \in Nat /\ ClientHello \in Nat /\ ServerFlight \in Nat /\ ClientFinished \in Nat
      /\ Tickets \in Nat /\ Request \in Nat
  BY ThreadedAssumption DEF TypeOK, Positive
<1>1. CASE s = "client"
  <2>1. Len(Script(s)) = 5
    BY <1>1, ScriptFacts DEF TypeOK
  <2>2. ASSUME NEW n \in 1..5
        PROVE  /\ OutBefore(s, n + 1) = OutBefore(s, n)
                                       + (IF Script(s)[n].call = "recv" THEN 0 ELSE Script(s)[n].len)
               /\ InBefore(s, n + 1) = InBefore(s, n)
                                       + (IF Script(s)[n].call = "recv" THEN Script(s)[n].len ELSE 0)
    <3>1. n = 1 \/ n = 2 \/ n = 3 \/ n = 4 \/ n = 5
      OBVIOUS
    <3>2. QED
      BY <1>0, <1>1, <3>1 DEF Script, OutBefore, InBefore
  <2>3. ASSUME NEW n \in 1..6
        PROVE  OutBefore(s, n) \in Nat /\ InBefore(s, n) \in Nat
    BY <1>0, <1>1 DEF OutBefore, InBefore
  <2>4. OutBefore(s, 1) = 0 /\ InBefore(s, 1) = 0
    BY <1>1 DEF OutBefore, InBefore
  <2>5. QED
    BY <2>1, <2>2, <2>3, <2>4
<1>2. CASE s = "server"
  <2>0. s # "client"
    BY <1>2
  <2>1. Len(Script(s)) = 6
    BY <2>0, ScriptFacts DEF TypeOK
  <2>2. ASSUME NEW n \in 1..6
        PROVE  /\ OutBefore(s, n + 1) = OutBefore(s, n)
                                       + (IF Script(s)[n].call = "recv" THEN 0 ELSE Script(s)[n].len)
               /\ InBefore(s, n + 1) = InBefore(s, n)
                                       + (IF Script(s)[n].call = "recv" THEN Script(s)[n].len ELSE 0)
    <3>1. n = 1 \/ n = 2 \/ n = 3 \/ n = 4 \/ n = 5 \/ n = 6
      OBVIOUS
    <3>2. QED
      BY <1>0, <2>0, <3>1 DEF Script, OutBefore, InBefore
  <2>3. ASSUME NEW n \in 1..7
        PROVE  OutBefore(s, n) \in Nat /\ InBefore(s, n) \in Nat
    BY <1>0, <2>0 DEF OutBefore, InBefore
  <2>4. OutBefore(s, 1) = 0 /\ InBefore(s, 1) = 0
    BY <2>0 DEF OutBefore, InBefore
  <2>5. QED
    BY <2>1, <2>2, <2>3, <2>4
<1>3. QED
  BY <1>1, <1>2 DEF Sides

(* What the progress of a side depends on: nothing the other side changes. *)
LEMMA ProgressFrame ==
  ASSUME NEW s \in Sides, Progress(s), response' = response, step'[s] = step[s],
         left'[s] = left[s], copied'[s] = copied[s],
         sent'[Peer(s)] = sent[Peer(s)], rcvd'[s] = rcvd[s]
  PROVE  Progress(s)'
BY DEF Progress, OfCall, Receives, Call, Script, OutBefore, InBefore

LEMMA CopyProgress ==
  ASSUME TypeOK, Inv, TypeOK', Inv', NEW s \in Sides, NEW b \in Sides, b = Peer(s), Progress(s),
         SendCopy(s) \/ RecvCopy(s)
  PROVE  Progress(s)' /\ sent'[s] = sent[s] /\ rcvd'[b] = rcvd[b]
<1>0. /\ s # b /\ status[s] = "running" /\ copied[s] = 0 /\ step[s] \in 1..Len(Script(s))
      /\ UNCHANGED <<response, step, left, status>>
  BY SidesFacts DEF SendCopy, RecvCopy, At, Inv, RunInv
<1>1. /\ Script(s)' = Script(s) /\ Call(s)' = Call(s) /\ Receives(s)' = Receives(s)
      /\ OutBefore(s, step[s])' = OutBefore(s, step[s])
      /\ InBefore(s, step[s])' = InBefore(s, step[s])
  BY <1>0 DEF Script, Call, Receives, OutBefore, InBefore
<1>2. status'[s] = "running" /\ copied'[s] \in Nat /\ copied'[s] <= left[s] /\ left[s] \in Nat
  <2>1. copied'[s] \in 0..BufferSize /\ left[s] \in Nat /\ BufferSize \in Nat
    BY ThreadedAssumption DEF TypeOK, Positive
  <2>2. status'[s] = "running" /\ left'[s] = left[s]
    BY <1>0
  <2>3. QED
    BY <2>1, <2>2 DEF Inv, RunInv
<1>3. PICK k \in Nat, l \in Nat, len \in Nat :
        k = copied'[s] /\ l = left[s] /\ len = Script(s)[step[s]].len
  BY <1>0, <1>2, ScriptFacts DEF TypeOK
<1>4. len - l \in Nat /\ OfCall(s) = len - l
  BY <1>0, <1>3 DEF OfCall, Progress
<1>5. OfCall(s)' = len - l + k
  BY <1>0, <1>1, <1>3 DEF OfCall
<1>6. OfCall(s)' \in Nat /\ OfCall(s)' = OfCall(s) + k /\ OfCall(s)' <= len /\ k <= l
  BY <1>2, <1>3, <1>4, <1>5
<1>7. /\ OutBefore(s, step[s]) \in Nat /\ InBefore(s, step[s]) \in Nat
  <2>1. step[s] \in 1..(Len(Script(s)) + 1) /\ Len(Script(s)) \in Nat
    BY <1>0, ScriptFacts DEF TypeOK
  <2>2. QED
    BY <2>1, BeforeFacts
<1>8. CASE SendCopy(s)
  <2>1. ~Receives(s) /\ rcvd' = rcvd /\ sent'[s] = sent[s]
    BY <1>0, <1>8 DEF SendCopy, At, Receives, TypeOK
  <2>2. Len(sent'[b]) = Len(sent[b]) + k
    <3>1. PICK n : n = Minimum(left[s], BufferSize - size[b])
      OBVIOUS
    <3>2. copied'[s] = n
      BY <1>8, <3>1 DEF SendCopy, TypeOK
    <3>3. QED
      BY <1>3, <1>8, <3>1, <3>2, SendCopyStep
  <2>3. Len(sent[b]) = OutBefore(s, step[s]) + OfCall(s) /\ Len(rcvd[s]) = InBefore(s, step[s]) + 0
    BY <2>1 DEF Progress
  <2>4. Len(sent'[b]) = OutBefore(s, step[s]) + OfCall(s)'
    BY <1>4, <1>6, <1>7, <2>2, <2>3
  <2>5. QED
    BY <1>0, <1>1, <1>3, <1>6, <2>1, <2>3, <2>4 DEF Progress
<1>9. CASE RecvCopy(s)
  <2>1. Receives(s) /\ sent' = sent /\ rcvd'[b] = rcvd[b]
    BY <1>0, <1>9 DEF RecvCopy, At, Receives, TypeOK
  <2>2. Len(rcvd'[s]) = Len(rcvd[s]) + k
    BY <1>3, <1>9, RecvCopyStep
  <2>3. Len(sent[b]) = OutBefore(s, step[s]) + 0 /\ Len(rcvd[s]) = InBefore(s, step[s]) + OfCall(s)
    BY <2>1 DEF Progress
  <2>4. Len(rcvd'[s]) = InBefore(s, step[s]) + OfCall(s)'
    BY <1>4, <1>6, <1>7, <2>2, <2>3
  <2>5. QED
    BY <1>0, <1>1, <1>3, <1>6, <2>1, <2>3, <2>4 DEF Progress
<1>10. QED
  BY <1>8, <1>9

LEMMA ReturnProgress ==
  ASSUME TypeOK, Inv, NEW s \in Sides, NEW b \in Sides, b = Peer(s), Progress(s),
         status[s] = "running", Returns(s), UNCHANGED <<response, sent, rcvd>>
  PROVE  Progress(s)'
<1> DEFINE n == step[s]
           rest == left[s] - copied[s]
           last == rest = 0 /\ n = Len(Script(s))
<1>0. /\ n \in 1..Len(Script(s)) /\ Len(Script(s)) \in Nat
      /\ left[s] \in Nat /\ copied[s] \in Nat /\ copied[s] <= left[s] /\ rest \in Nat
  <2>1. left[s] \in Nat /\ copied[s] \in Nat
    BY TypeFacts
  <2>2. QED
    BY <2>1, ScriptFacts DEF Inv, RunInv, TypeOK
<1>1. \A m : OutBefore(s, m)' = OutBefore(s, m) /\ InBefore(s, m)' = InBefore(s, m)
  BY DEF OutBefore, InBefore
<1>2. Script(s)' = Script(s)
  BY DEF Script
<1>3. /\ copied'[s] = 0
      /\ step'[s] = IF rest = 0 THEN n + 1 ELSE n
      /\ left'[s] = IF rest > 0 \/ last THEN rest ELSE Script(s)[n + 1].len
  BY DEF Returns, TypeOK
<1>4. PICK len \in Nat : len = Script(s)[n].len
  BY <1>0, ScriptFacts DEF TypeOK
<1>5. OfCall(s) = len - left[s] + copied[s] /\ OfCall(s) \in Nat /\ OfCall(s) <= len
  BY <1>0, <1>4 DEF OfCall, Progress
<1>6. /\ Len(sent[b]) = OutBefore(s, n) + (IF Script(s)[n].call = "recv" THEN 0 ELSE OfCall(s))
      /\ Len(rcvd[s]) = InBefore(s, n) + (IF Script(s)[n].call = "recv" THEN OfCall(s) ELSE 0)
  BY <1>0 DEF Progress, Receives, Call
<1>7. CASE rest > 0
  <2>1. step'[s] = n /\ left'[s] = rest
    BY <1>0, <1>3, <1>7
  <2>2. Receives(s)' = (Script(s)[n].call = "recv") /\ OfCall(s)' = len - rest + 0
    BY <1>0, <1>2, <1>3, <1>4, <2>1 DEF Receives, Call, OfCall
  <2>3. OfCall(s)' = OfCall(s)
    BY <1>0, <1>5, <2>2
  <2>4. copied'[s] <= left'[s]
    BY <1>0, <1>3, <2>1
  <2>5. QED
    BY <1>1, <1>2, <1>4, <1>5, <1>6, <2>1, <2>2, <2>3, <2>4 DEF Progress
<1>8. CASE rest = 0
  <2>1. step'[s] = n + 1 /\ OfCall(s) = len
    BY <1>0, <1>3, <1>5, <1>8
  <2>2. Len(sent[b]) = OutBefore(s, n + 1) /\ Len(rcvd[s]) = InBefore(s, n + 1)
    BY <1>0, <1>4, <1>6, <2>1, BeforeFacts
  <2>3. OutBefore(s, n + 1) + 0 = OutBefore(s, n + 1) /\ InBefore(s, n + 1) + 0 = InBefore(s, n + 1)
    <3>1. n + 1 \in 1..(Len(Script(s)) + 1)
      BY <1>0
    <3>2. OutBefore(s, n + 1) \in Nat /\ InBefore(s, n + 1) \in Nat
      BY <3>1, BeforeFacts
    <3>3. QED
      BY <3>2
  <2>4. /\ OfCall(s)' = 0
        /\ step'[s] \in 1..Len(Script(s)) =>
             OfCall(s)' <= Script(s)[step'[s]].len /\ copied'[s] <= left'[s]
    <3>1. CASE last
      <4>1. step'[s] \notin 1..Len(Script(s))
        BY <1>0, <2>1, <3>1
      <4>2. QED
        BY <1>2, <4>1 DEF OfCall
    <3>2. CASE ~last
      <4>1. n + 1 \in 1..Len(Script(s)) /\ left'[s] = Script(s)[n + 1].len
        BY <1>0, <1>3, <1>8, <3>2
      <4>2. PICK next \in Nat : next = Script(s)[n + 1].len
        BY <4>1, ScriptFacts DEF TypeOK
      <4>3. OfCall(s)' = next - next + 0
        BY <1>2, <1>3, <2>1, <4>1, <4>2 DEF OfCall
      <4>4. OfCall(s)' = 0 /\ 0 <= next
        BY <4>2, <4>3
      <4>5. Script(s)[step'[s]].len = next /\ left'[s] = next /\ copied'[s] = 0
        BY <1>3, <2>1, <4>1, <4>2
      <4>6. QED
        BY <4>4, <4>5
    <3>3. QED
      BY <3>1, <3>2
  <2>5. QED
    BY <1>1, <1>2, <2>1, <2>2, <2>3, <2>4 DEF Progress
<1>9. QED
  BY <1>0, <1>7, <1>8

AllProgress == \A s \in Sides : Progress(s)

LEMMA InitProgress == Init => AllProgress
<1> SUFFICES ASSUME Init, NEW s \in Sides
             PROVE  Progress(s)
  BY DEF AllProgress
<1>0. TypeOK /\ Inv /\ response \in Responses
  BY InitInv DEF Init
<1>1. /\ step[s] = 1 /\ left[s] = Script(s)[1].len /\ copied[s] = 0
      /\ sent[Peer(s)] = <<>> /\ rcvd[s] = <<>>
  BY SidesFacts DEF Init
<1>2. Len(Script(s)) \in Nat /\ 1 \in 1..Len(Script(s))
  <2>1. Len(Script(s)) = 5 \/ Len(Script(s)) = 6
    BY <1>0, ScriptFacts
  <2>2. QED
    BY <2>1
<1>3. PICK len \in Nat : len = Script(s)[1].len
  BY <1>0, <1>2, ScriptFacts DEF TypeOK
<1>4. OfCall(s) = len - len + 0
  BY <1>1, <1>2, <1>3 DEF OfCall
<1>5. OfCall(s) = 0 /\ 0 <= len
  BY <1>3, <1>4
<1>6. OutBefore(s, 1) = 0 /\ InBefore(s, 1) = 0
  BY <1>0, BeforeFacts
<1>7. Len(sent[Peer(s)]) = 0 /\ Len(rcvd[s]) = 0
  BY <1>1
<1>8. QED
  BY <1>1, <1>3, <1>5, <1>6, <1>7 DEF Progress

LEMMA NextProgress ==
  ASSUME TypeOK, Inv, TypeOK', Inv', AllProgress, [Next]_vars
  PROVE  AllProgress'
<1>1. ASSUME NEW s \in Sides, SideStep(s) \/ Fails(s)
      PROVE  AllProgress'
  <2>0. PICK b \in Sides : b = Peer(s) /\ b # s /\ s = Peer(b) /\ \A t \in Sides : t = s \/ t = b
    BY SidesFacts
  <2>1. Progress(s) /\ Progress(b)
    BY DEF AllProgress
  <2>2. CASE SendCopy(s) \/ RecvCopy(s)
    <3>1. Progress(s)' /\ sent'[s] = sent[s] /\ rcvd'[b] = rcvd[b]
      BY <2>0, <2>1, <2>2, CopyProgress
    <3>2. response' = response /\ step'[b] = step[b] /\ left'[b] = left[b] /\ copied'[b] = copied[b]
      BY <2>0, <2>2 DEF SendCopy, RecvCopy, TypeOK
    <3>3. Progress(b)'
      BY <2>0, <2>1, <3>1, <3>2, ProgressFrame
    <3>4. QED
      BY <2>0, <3>1, <3>3 DEF AllProgress
  <2>3. CASE SendReturn(s) \/ RecvReturn(s)
    <3>1. status[s] = "running" /\ Returns(s) /\ UNCHANGED <<response, sent, rcvd>>
      BY <2>3 DEF SendReturn, RecvReturn
    <3>2. Progress(s)'
      BY <2>0, <2>1, <3>1, ReturnProgress
    <3>3. step'[b] = step[b] /\ left'[b] = left[b] /\ copied'[b] = copied[b]
      BY <2>0, <3>1 DEF Returns, TypeOK
    <3>4. Progress(b)'
      BY <2>0, <2>1, <3>1, <3>3, ProgressFrame
    <3>5. QED
      BY <2>0, <3>2, <3>4 DEF AllProgress
  <2>4. CASE WriteFails(s) \/ Fails(s)
    <3>1. UNCHANGED <<response, step, left, copied, sent, rcvd>>
      BY <2>4 DEF WriteFails, Fails
    <3>2. QED
      BY <3>1, ProgressFrame DEF AllProgress
  <2>5. QED
    BY <1>1, <2>2, <2>3, <2>4 DEF SideStep
<1>2. CASE Join \/ UNCHANGED vars
  <2>1. UNCHANGED <<response, step, left, copied, sent, rcvd>>
    BY <1>2 DEF Join, vars
  <2>2. QED
    BY <2>1, ProgressFrame DEF AllProgress
<1>3. QED
  BY <1>1, <1>2 DEF Next

LEMMA Sizes ==
  ASSUME TypeOK
  PROVE  /\ response \in Nat /\ ClientHello \in Nat /\ ServerFlight \in Nat
         /\ ClientFinished \in Nat /\ Tickets \in Nat /\ Request \in Nat /\ BufferSize \in Nat
         /\ ClientHello > 0 /\ ServerFlight > 0 /\ ClientFinished > 0 /\ Tickets > 0 /\ Request > 0
BY ThreadedAssumption DEF TypeOK, Positive

(* The server sends nothing before it has the client's hello. *)
LEMMA ServerPastHello ==
  ASSUME TypeOK, AllProgress, Len(sent["client"]) > 0
  PROVE  Len(rcvd["server"]) >= ClientHello
<1>0. /\ "server" \in Sides /\ "server" # "client" /\ Peer("server") = "client"
      /\ Len(Script("server")) = 6
  BY ScriptFacts DEF Sides, Peer, TypeOK
<1>1. PICK k \in Nat : k = OfCall("server")
  BY <1>0 DEF AllProgress, Progress
<1>2. PICK n \in 1..7 : n = step["server"]
  <2>1. step["server"] \in Nat /\ step["server"] # 0 /\ step["server"] <= 6 + 1
    BY <1>0 DEF TypeOK, Positive
  <2>2. \A m \in Nat : m # 0 /\ m <= 6 + 1 => m \in 1..7
    OBVIOUS
  <2>3. QED
    BY <2>1, <2>2, Zenon
<1>3. /\ Len(sent["client"]) = OutBefore("server", n) + (IF Receives("server") THEN 0 ELSE k)
      /\ Len(rcvd["server"]) = InBefore("server", n) + (IF Receives("server") THEN k ELSE 0)
  BY <1>0, <1>1, <1>2 DEF AllProgress, Progress
<1>4. n # 1
  <2>1. n = 1 => Receives("server")
    BY <1>0, <1>2 DEF Receives, Call, Script
  <2>2. n = 1 => OutBefore("server", n) = 0
    BY <1>0 DEF OutBefore
  <2>3. QED
    BY <1>3, <2>1, <2>2
<1>5. InBefore("server", n) \in Nat /\ InBefore("server", n) >= ClientHello
  <2>1. n \in {2, 3} \/ n \in {4, 5} \/ n \in {6, 7}
    BY <1>2, <1>4
  <2>2. InBefore("server", n) = ClientHello \/ InBefore("server", n) = ClientHello + ClientFinished
        \/ InBefore("server", n) = ClientHello + ClientFinished + Request
    BY <1>0, <2>1 DEF InBefore
  <2>3. QED
    BY <2>2, Sizes
<1>6. PICK j \in Nat : Len(rcvd["server"]) = InBefore("server", n) + j
  BY <1>3, Zenon
<1>7. QED
  BY <1>5, <1>6, Sizes

(* The client sends its request when it has the server's flight. *)
LEMMA ClientPastFlight ==
  ASSUME TypeOK, AllProgress, Len(sent["server"]) >= ClientHello + ClientFinished + Request
  PROVE  Len(rcvd["client"]) >= ServerFlight
<1>0. /\ "client" \in Sides /\ Peer("client") = "server" /\ Len(Script("client")) = 5
  BY ScriptFacts DEF Sides, Peer, TypeOK
<1>1. PICK k \in Nat : k = OfCall("client")
  BY <1>0 DEF AllProgress, Progress
<1>2. PICK n \in 1..6 : n = step["client"]
  <2>1. step["client"] \in Nat /\ step["client"] # 0 /\ step["client"] <= 5 + 1
    BY <1>0 DEF TypeOK, Positive
  <2>2. \A m \in Nat : m # 0 /\ m <= 5 + 1 => m \in 1..6
    OBVIOUS
  <2>3. QED
    BY <2>1, <2>2, Zenon
<1>3. /\ Len(sent["server"]) = OutBefore("client", n) + (IF Receives("client") THEN 0 ELSE k)
      /\ Len(rcvd["client"]) = InBefore("client", n) + (IF Receives("client") THEN k ELSE 0)
      /\ n \in 1..5 => k <= Script("client")[n].len
  BY <1>0, <1>1, <1>2 DEF AllProgress, Progress
<1>4. n # 1 /\ n # 2
  <2>1. CASE n = 1
    <3>1. k <= ClientHello /\ OutBefore("client", n) = 0
      BY <1>3, <2>1 DEF Script, OutBefore
    <3>2. QED
      BY <1>3, <2>1, <3>1, Sizes
  <2>2. CASE n = 2
    <3>1. Receives("client") /\ OutBefore("client", n) = ClientHello
      BY <1>0, <1>2, <2>2 DEF Receives, Call, Script, OutBefore
    <3>2. QED
      BY <1>3, <3>1, Sizes
  <2>3. QED
    BY <2>1, <2>2
<1>5. InBefore("client", n) \in Nat /\ InBefore("client", n) >= ServerFlight
  <2>1. n \in {3, 4, 5} \/ n = 6
    BY <1>2, <1>4
  <2>2. InBefore("client", n) = ServerFlight
        \/ InBefore("client", n) = ServerFlight + Tickets + response
    BY <2>1 DEF InBefore
  <2>3. QED
    BY <2>2, Sizes
<1>6. PICK j \in Nat : Len(rcvd["client"]) = InBefore("client", n) + j
  BY <1>3, Zenon
<1>7. QED
  BY <1>5, <1>6, Sizes

(* What a refused write says of the stream. *)
LEMMA RefusedFacts ==
  ASSUME TypeOK, Inv, NEW s \in Sides, WriteFails(s)
  PROVE  /\ status[s] = "running" /\ copied[s] = 0 /\ Call(s) = "write"
         /\ step[s] \in 1..Len(Script(s)) /\ left[s] \in Nat /\ left[s] > 0
         /\ Len(sent[Peer(s)]) \in Nat /\ Len(rcvd[Peer(s)]) \in Nat
         /\ Len(sent[Peer(s)]) - Len(rcvd[Peer(s)]) = BufferSize
<1>0. PICK b \in Sides : b = Peer(s)
  BY SidesFacts
<1>1. /\ status[s] = "running" /\ copied[s] = 0 /\ Call(s) = "write"
      /\ mutex[b] = "free" /\ size[b] = BufferSize
  BY <1>0 DEF WriteFails, At, MayLock
<1>2. step[s] \in 1..Len(Script(s)) /\ left[s] > 0
  BY <1>1 DEF Inv, RunInv
<1>3. left[s] \in Nat /\ Len(sent[b]) \in Nat /\ Len(rcvd[b]) \in Nat /\ BufferSize \in Nat
  BY TypeFacts
<1>4. PutIn(b) = 0 /\ TakenOut(b) = 0
  BY <1>1, SidesFacts DEF PutIn, TakenOut
<1>5. Holds(sent[b], rcvd[b], buffer[b], size[b], 0, 0)
  BY <1>4 DEF Inv, StreamInv
<1>6. size[b] + 0 = Len(sent[b]) - Len(rcvd[b]) + 0
  BY <1>5 DEF Holds
<1>7. QED
  BY <1>0, <1>1, <1>2, <1>3, <1>6

LEMMA ClientNotRefused ==
  ASSUME TypeOK, Inv, AllProgress, ClientFinished + Request <= BufferSize
  PROVE  ~WriteFails("client")
<1> SUFFICES ASSUME WriteFails("client")
             PROVE  FALSE
  OBVIOUS
<1>0. "client" \in Sides /\ Peer("client") = "server" /\ Len(Script("client")) = 5
  BY ScriptFacts DEF Sides, Peer, TypeOK
<1>1. /\ copied["client"] = 0 /\ Call("client") = "write" /\ step["client"] \in 1..5
      /\ left["client"] \in Nat /\ left["client"] > 0
      /\ Len(sent["server"]) \in Nat /\ Len(rcvd["server"]) \in Nat
      /\ Len(sent["server"]) - Len(rcvd["server"]) = BufferSize
  BY <1>0, RefusedFacts
<1>2. step["client"] = 4
  BY <1>1 DEF Call, Script
<1>3. /\ OfCall("client") = Request - left["client"] + 0 /\ ~Receives("client")
  BY <1>0, <1>1, <1>2 DEF OfCall, Receives, Script
<1>4. OutBefore("client", 4) = ClientHello + ClientFinished /\ InBefore("client", 4) = ServerFlight
  BY DEF OutBefore, InBefore
<1>5. /\ Len(sent["server"]) = ClientHello + ClientFinished + (Request - left["client"] + 0)
      /\ Len(rcvd["client"]) = ServerFlight + 0
  BY <1>0, <1>2, <1>3, <1>4 DEF AllProgress, Progress
<1>6. Len(sent["client"]) > 0
  <2>1. /\ Len(rcvd["client"]) <= Len(sent["client"]) /\ Len(sent["client"]) \in Nat
        /\ Len(rcvd["client"]) \in Nat
    BY <1>0, OnTheWay DEF Flow
  <2>2. QED
    BY <1>5, <2>1, Sizes
<1>7. Len(rcvd["server"]) >= ClientHello
  BY <1>6, ServerPastHello
<1>8. \A x, y, l, n, a, b, c \in Nat :
        x - y = n /\ x = a + b + (c - l + 0) /\ y >= a /\ b + c <= n => l = 0
  OBVIOUS
<1>9. /\ Len(sent["server"]) \in Nat /\ Len(rcvd["server"]) \in Nat
      /\ left["client"] \in Nat /\ left["client"] # 0
      /\ BufferSize \in Nat /\ ClientHello \in Nat /\ ClientFinished \in Nat /\ Request \in Nat
  BY <1>1, Sizes
<1>10. left["client"] = 0
  BY <1>1, <1>5, <1>7, <1>8, <1>9
<1>11. QED
  BY <1>9, <1>10

LEMMA ServerNotRefused ==
  ASSUME TypeOK, Inv, AllProgress, Tickets + response <= BufferSize
  PROVE  ~WriteFails("server")
<1> SUFFICES ASSUME WriteFails("server")
             PROVE  FALSE
  OBVIOUS
<1>0. /\ "server" \in Sides /\ "server" # "client" /\ Peer("server") = "client"
      /\ Len(Script("server")) = 6
  BY ScriptFacts DEF Sides, Peer, TypeOK
<1>1. /\ copied["server"] = 0 /\ Call("server") = "write" /\ step["server"] \in 1..6
      /\ left["server"] \in Nat /\ left["server"] > 0
      /\ Len(sent["client"]) \in Nat /\ Len(rcvd["client"]) \in Nat
      /\ Len(sent["client"]) - Len(rcvd["client"]) = BufferSize
  BY <1>0, RefusedFacts
<1>2. step["server"] = 6
  BY <1>0, <1>1 DEF Call, Script
<1>3. /\ OfCall("server") = response - left["server"] + 0 /\ ~Receives("server")
  BY <1>0, <1>1, <1>2 DEF OfCall, Receives, Script
<1>4. /\ OutBefore("server", 6) = ServerFlight + Tickets
      /\ InBefore("server", 6) = ClientHello + ClientFinished + Request
  BY <1>0 DEF OutBefore, InBefore
<1>5. /\ Len(sent["client"]) = ServerFlight + Tickets + (response - left["server"] + 0)
      /\ Len(rcvd["server"]) = ClientHello + ClientFinished + Request + 0
  BY <1>0, <1>2, <1>3, <1>4 DEF AllProgress, Progress
<1>6. Len(sent["server"]) >= ClientHello + ClientFinished + Request
  <2>1. /\ Len(rcvd["server"]) <= Len(sent["server"]) /\ Len(sent["server"]) \in Nat
        /\ Len(rcvd["server"]) \in Nat
    BY <1>0, OnTheWay DEF Flow
  <2>2. QED
    BY <1>5, <2>1, Sizes
<1>7. Len(rcvd["client"]) >= ServerFlight
  BY <1>6, ClientPastFlight
<1>8. \A x, y, l, n, a, b, c \in Nat :
        x - y = n /\ x = a + b + (c - l + 0) /\ y >= a /\ b + c <= n => l = 0
  OBVIOUS
<1>9. /\ Len(sent["client"]) \in Nat /\ Len(rcvd["client"]) \in Nat
      /\ left["server"] \in Nat /\ left["server"] # 0
      /\ BufferSize \in Nat /\ ServerFlight \in Nat /\ Tickets \in Nat /\ response \in Nat
  BY <1>1, Sizes
<1>10. left["server"] = 0
  BY <1>1, <1>5, <1>7, <1>8, <1>9
<1>11. QED
  BY <1>9, <1>10

(* With a buffer for a side's last flight and its message, wolfssl_send is    *)
(* never refused, whatever the lengths and the interleaving.                  *)
THEOREM SendsNeverFail == Spec => []NoSendFails
<1>1. Init => NoSendFails
  BY DEF Init, NoSendFails, Sides
<1>2. ASSUME TypeOK, Inv, AllProgress, NoSendFails, [Next]_vars
      PROVE  NoSendFails'
  <2>0. "client" \in Sides /\ "server" \in Sides
    BY DEF Sides
  <2>1. response' = response
    BY <1>2 DEF Next, SideStep, SendCopy, SendReturn, RecvCopy, RecvReturn, WriteFails, Fails,
                Join, vars
  <2>2. ASSUME NEW s \in Sides, status'[s] = "sendFailed", status[s] # "sendFailed"
        PROVE  WriteFails(s)
    BY <1>2, <2>2 DEF Next, SideStep, SendCopy, SendReturn, RecvCopy, RecvReturn, Returns,
                      WriteFails, Fails, Join, vars, TypeOK
  <2>3. ClientFinished + Request <= BufferSize => status'["client"] # "sendFailed"
    BY <1>2, <2>0, <2>2, ClientNotRefused DEF NoSendFails
  <2>4. Tickets + response <= BufferSize => status'["server"] # "sendFailed"
    BY <1>2, <2>0, <2>2, ServerNotRefused DEF NoSendFails
  <2>5. QED
    BY <2>1, <2>3, <2>4 DEF NoSendFails
<1>3. TypeOK /\ Inv /\ AllProgress /\ [Next]_vars => AllProgress'
  BY NextInv, NextProgress
<1>4. QED
  BY <1>1, <1>2, <1>3, InitInv, NextInv, InitProgress, PTL DEF Spec

================================================================================
