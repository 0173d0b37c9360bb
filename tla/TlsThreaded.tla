------------------------------ MODULE TlsThreaded ------------------------------
(******************************************************************************)
(* The TLS client and server of embedded/tls-threaded.c: two threads of one   *)
(* process that talk through two buffers in memory, each with a mutex.        *)
(*                                                                            *)
(* buffer[s] is the buffer that side s reads: client_buffer, server_buffer.   *)
(* The I/O callbacks are two steps: under the mutex the bytes are copied,     *)
(* then the buffer and its size are brought up to date and the mutex is       *)
(* given back.  What wolfSSL does between the callbacks is a script: how many *)
(* bytes of handshake or application data go which way.  A byte is its        *)
(* position in its stream, so that a byte lost, doubled or out of order can   *)
(* be told.                                                                   *)
(*                                                                            *)
(* A callback that returns WANT_READ or WANT_WRITE changes nothing.  In the   *)
(* handshake and in wolfssl_recv it is called again; only wolfssl_send takes  *)
(* it as a failure.                                                           *)
(******************************************************************************)
EXTENDS Integers, Sequences

CONSTANTS
  BufferSize,      \* BUFFER_SIZE
  ClientHello, ServerFlight, ClientFinished, Tickets,
                   \* bytes of the flights of the handshake
  Request,         \* bytes of the record with msgHTTPGet
  Responses        \* the choices for the bytes of the record with msgHTTPIndex

Positive == Nat \ {0}

ASSUME ThreadedAssumption ==
  /\ BufferSize \in Positive
  /\ ClientHello \in Positive /\ ServerFlight \in Positive
  /\ ClientFinished \in Positive /\ Tickets \in Positive
  /\ Request \in Positive
  /\ Responses \subseteq Positive

Sides == {"client", "server"}
Peer(s) == IF s = "client" THEN "server" ELSE "client"

VARIABLES
  response,  \* the length of the response of this run
  step,      \* where a side is in its script
  left,      \* bytes of the script's step that are still to be moved
  copied,    \* bytes copied by the callback that a side is in; 0: in none
  status,    \* of a side: "running", or how it ended
  buffer, size, mutex,
  sent,      \* sent[s]: the bytes put into the buffer that s reads
  rcvd,      \* rcvd[s]: the bytes s has taken out of it
  main       \* in client() or join_thread, or past them

threads == <<step, left, copied, status>>
vars == <<response, threads, buffer, size, mutex, sent, rcvd, main>>

(* The bytes that wolfSSL moves: wolfSSL_connect and wolfSSL_accept to the    *)
(* end of the handshake, then wolfSSL_write and wolfSSL_read.                 *)
Script(s) ==
  IF s = "client"
    THEN << [call |-> "send", len |-> ClientHello], [call |-> "recv", len |-> ServerFlight],
            [call |-> "send", len |-> ClientFinished], [call |-> "write", len |-> Request],
            [call |-> "recv", len |-> Tickets + response] >>
    ELSE << [call |-> "recv", len |-> ClientHello], [call |-> "send", len |-> ServerFlight],
            [call |-> "recv", len |-> ClientFinished], [call |-> "send", len |-> Tickets],
            [call |-> "recv", len |-> Request], [call |-> "write", len |-> response] >>

Call(s) == Script(s)[step[s]].call

TypeOK ==
  /\ response \in Responses
  /\ step \in [Sides -> Positive] /\ \A s \in Sides : step[s] <= Len(Script(s)) + 1
  /\ left \in [Sides -> Nat] /\ copied \in [Sides -> 0..BufferSize]
  /\ status \in [Sides -> {"running", "finished", "sendFailed", "failed"}]
  /\ buffer \in [Sides -> [1..BufferSize -> Nat]]
  /\ size \in [Sides -> 0..BufferSize]
  /\ mutex \in [Sides -> Sides \cup {"free"}]
  /\ sent \in [Sides -> Seq(Nat)] /\ rcvd \in [Sides -> Seq(Nat)]
  /\ main \in {"client", "join", "done"}

(* main up to the start of both sides; both have their objects. *)
Init ==
  /\ response \in Responses
  /\ step = [s \in Sides |-> 1]
  /\ left = [s \in Sides |-> Script(s)[1].len]
  /\ copied = [s \in Sides |-> 0]
  /\ status = [s \in Sides |-> "running"]
  /\ buffer = [s \in Sides |-> [i \in 1..BufferSize |-> 0]]
  /\ size = [s \in Sides |-> 0]
  /\ mutex = [s \in Sides |-> "free"]
  /\ sent = [s \in Sides |-> <<>>]
  /\ rcvd = [s \in Sides |-> <<>>]
  /\ main = "client"

--------------------------------------------------------------------------------
(* The callbacks. *)

(* Mutant of Minimum: what is asked for is taken, whatever the room. *)
Minimum_AsAsked(m, n) == m

Minimum(m, n) == IF m < n THEN m ELSE n

(* Mutant of MayLock: the mutex is not waited for. *)
MayLock_Ignores(b) == TRUE

MayLock(b) == mutex[b] = "free"

(* Side s is in a call that reads or writes, and in no callback. *)
At(s, calls) == status[s] = "running" /\ copied[s] = 0 /\ Call(s) \in calls

(* send_client, send_server: as many bytes as asked for or will fit are put   *)
(* behind the ones that are there.                                            *)
SendCopy(s) ==
  LET b == Peer(s)
      n == Minimum(left[s], BufferSize - size[b])
      byte(i) == Len(sent[b]) + i
  IN /\ At(s, {"send", "write"})
     /\ MayLock(b)
     /\ n > 0
     /\ mutex' = [mutex EXCEPT ![b] = s]
     /\ buffer' = [buffer EXCEPT ![b] = [i \in 1..BufferSize |->
                     IF i \in (size[b] + 1)..(size[b] + n) THEN byte(i - size[b]) ELSE @[i]]]
     /\ sent' = [sent EXCEPT ![b] = @ \o [i \in 1..n |-> byte(i)]]
     /\ copied' = [copied EXCEPT ![s] = n]
     /\ UNCHANGED <<response, step, left, status, size, rcvd, main>>

(* recv_client, recv_server: as many bytes as asked for or are there.  wolfSSL *)
(* asks for a record's header and its body as it likes.                       *)
RecvCopy(s) ==
  /\ At(s, {"recv"})
  /\ MayLock(s)
  /\ size[s] > 0
  /\ \E sz \in 1..left[s] :
       LET n == Minimum(sz, size[s]) IN
         /\ rcvd' = [rcvd EXCEPT ![s] = @ \o SubSeq(buffer[s], 1, n)]
         /\ copied' = [copied EXCEPT ![s] = n]
  /\ mutex' = [mutex EXCEPT ![s] = s]
  /\ UNCHANGED <<response, step, left, status, buffer, size, sent, main>>

(* The callback returns; with the last byte of a step the script goes on. *)
Returns(s) ==
  LET rest == left[s] - copied[s]
      last == rest = 0 /\ step[s] = Len(Script(s))
  IN /\ copied' = [copied EXCEPT ![s] = 0]
     /\ step' = [step EXCEPT ![s] = IF rest = 0 THEN @ + 1 ELSE @]
     /\ left' = [left EXCEPT ![s] =
                   IF rest > 0 \/ last THEN rest ELSE Script(s)[step[s] + 1].len]
     /\ status' = [status EXCEPT ![s] = IF last THEN "finished" ELSE @]

(* Mutant of SendReturn: the mutex is not given back. *)
SendReturn_KeepsMutex(s) ==
  /\ status[s] = "running" /\ copied[s] > 0 /\ Call(s) \in {"send", "write"}
  /\ size' = [size EXCEPT ![Peer(s)] = @ + copied[s]]
  /\ Returns(s)
  /\ UNCHANGED <<response, buffer, mutex, sent, rcvd, main>>

SendReturn(s) ==
  /\ status[s] = "running" /\ copied[s] > 0 /\ Call(s) \in {"send", "write"}
  /\ size' = [size EXCEPT ![Peer(s)] = @ + copied[s]]
  /\ mutex' = [mutex EXCEPT ![Peer(s)] = "free"]
  /\ Returns(s)
  /\ UNCHANGED <<response, buffer, sent, rcvd, main>>

(* Mutant of Moved: the rest is not moved to the front. *)
Moved_Stays(b, n) == buffer[b]

(* XMEMMOVE of what is behind the first n bytes. *)
Moved(b, n) ==
  [i \in 1..BufferSize |-> IF i <= size[b] - n THEN buffer[b][i + n] ELSE buffer[b][i]]

RecvReturn(s) ==
  /\ status[s] = "running" /\ copied[s] > 0 /\ Call(s) = "recv"
  /\ buffer' = [buffer EXCEPT ![s] = Moved(s, copied[s])]
  /\ size' = [size EXCEPT ![s] = @ - copied[s]]
  /\ mutex' = [mutex EXCEPT ![s] = "free"]
  /\ Returns(s)
  /\ UNCHANGED <<response, sent, rcvd, main>>

--------------------------------------------------------------------------------

(* Mutant of WriteFails: a write fails whenever it cannot be done at once. *)
WriteFails_NoPartial(s) ==
  /\ At(s, {"write"})
  /\ MayLock(Peer(s))
  /\ size[Peer(s)] > 0
  /\ status' = [status EXCEPT ![s] = "sendFailed"]
  /\ UNCHANGED <<response, step, left, copied, buffer, size, mutex, sent, rcvd, main>>

(* wolfssl_send: the callback finds the buffer full, and a write that is not  *)
(* complete is an error.  The side frees its object and ends.                 *)
WriteFails(s) ==
  /\ At(s, {"write"})
  /\ MayLock(Peer(s))
  /\ size[Peer(s)] = BufferSize
  /\ status' = [status EXCEPT ![s] = "sendFailed"]
  /\ UNCHANGED <<response, step, left, copied, buffer, size, mutex, sent, rcvd, main>>

(* wolfSSL_new, or a call of wolfSSL, fails for a reason of its own. *)
Fails(s) ==
  /\ status[s] = "running" /\ copied[s] = 0
  /\ status' = [status EXCEPT ![s] = "failed"]
  /\ UNCHANGED <<response, step, left, copied, buffer, size, mutex, sent, rcvd, main>>

(* main: client() returns, then join_thread does. *)
Join ==
  /\ \/ main = "client" /\ status["client"] # "running" /\ main' = "join"
     \/ main = "join" /\ status["server"] # "running" /\ main' = "done"
  /\ UNCHANGED <<response, threads, buffer, size, mutex, sent, rcvd>>

SideStep(s) ==
  SendCopy(s) \/ SendReturn(s) \/ RecvCopy(s) \/ RecvReturn(s) \/ WriteFails(s)

Next ==
  \/ \E s \in Sides : SideStep(s) \/ Fails(s)
  \/ Join

(* Both threads are scheduled; a mutex that is free again and again is had. *)
Fairness ==
  /\ \A s \in Sides : SF_vars(SideStep(s))
  /\ WF_vars(Join)

Spec == Init /\ [][Next]_vars /\ Fairness

--------------------------------------------------------------------------------
(* Properties. *)

(* In each direction the callbacks are a reliable stream of bytes with room   *)
(* for BUFFER_SIZE of them, whatever the threads' interleaving.               *)
ToServer == INSTANCE ByteChannel WITH
  Capacity <- BufferSize, sent <- sent["server"], rcvd <- rcvd["server"]
ToClient == INSTANCE ByteChannel WITH
  Capacity <- BufferSize, sent <- sent["client"], rcvd <- rcvd["client"]

BuffersAreChannels == ToServer!Spec /\ ToClient!Spec

(* Outside the callbacks a buffer holds exactly the bytes that were sent and  *)
(* not yet received, and a side that is in a callback holds the mutex.        *)
BufferExact ==
  \A s \in Sides :
    /\ mutex[s] = "free" =>
         SubSeq(buffer[s], 1, size[s]) = SubSeq(sent[s], Len(rcvd[s]) + 1, Len(sent[s]))
    /\ \A t \in Sides : copied[t] > 0 =>
         mutex[IF Call(t) = "recv" THEN t ELSE Peer(t)] = t

(* A message is never refused when the buffer has room for it and for what    *)
(* the sender put there last (the end of its handshake), although             *)
(* wolfssl_send, unlike everything else, does not try again.                  *)
NoSendFails ==
  /\ ClientFinished + Request <= BufferSize => status["client"] # "sendFailed"
  /\ Tickets + response <= BufferSize => status["server"] # "sendFailed"

(* Unless a side fails, the handshake comes to its end through buffers that   *)
(* are smaller than its flights, both messages arrive, and main ends: the     *)
(* sides never wait for each other for ever.                                  *)
ExchangeEnds ==
  <>(main = "done" \/ \E s \in Sides : status[s] \in {"failed", "sendFailed"})

================================================================================
