----------------------------- MODULE Echo_proofs -----------------------------
(***************************************************************************)
(* Proofs about Echo for any number of proxies, methods of any size,       *)
(* messages of any number of pieces and, where nothing else is said, ends  *)
(* that start over any number of times.                                    *)
(*                                                                         *)
(* The pieces that the receiver has of the method in reception, those of   *)
(* the reader it holds, the messages on the wire, and what the serializer  *)
(* still has follow on each other, except across a handshake.              *)
(***************************************************************************)
EXTENDS Echo, SequenceTheorems, TLAPS

-----------------------------------------------------------------------------
(* Runs of pieces.                                                          *)

Pieces == [method : Nat, size : Nat, index : Nat]

\* Consecutive pieces of one method.
IsRun(s) ==
    /\ s \in Seq(Pieces) /\ Len(s) >= 1
    /\ \A i \in 1 .. Len(s) :
           s[i].method = s[1].method /\ s[i].size = s[1].size /\ s[i].index = s[1].index + (i - 1)
    /\ s[1].index + Len(s) <= s[1].size + 1

\* A place is between methods, or before piece next of a method.
Between == [method |-> 0, size |-> 0, next |-> 0]

PlaceAt(m, size, k) ==
    IF k = 0 \/ k = size + 1 THEN Between ELSE [method |-> m, size |-> size, next |-> k]

BeginOf(s) == PlaceAt(s[1].method, s[1].size, s[1].index)
EndOf(s) == PlaceAt(s[1].method, s[1].size, s[1].index + Len(s))

\* The run s goes on where the run got ends.
Continues(got, s) ==
    /\ IsRun(s)
    /\ s[1].method = got[1].method /\ s[1].size = got[1].size /\ s[1].index = got[1].index + Len(got)

-----------------------------------------------------------------------------
(* The wire.                                                                *)

PlaceAfter(y) == IF y.pieces = <<>> THEN Between ELSE EndOf(y.pieces)

\* The message y may come at place p.
Follows(p, y) ==
    y.type = "message" =>
        IF y.pieces = <<>> THEN p = Between ELSE IsRun(y.pieces) /\ BeginOf(y.pieces) = p

WireOK(w) ==
    /\ w \in Seq([type : {"message", "init", "initResponse"}, pieces : Seq(Pieces)])
    /\ \A i \in 1 .. Len(w) : w[i].type # "message" => w[i].pieces = <<>>
    /\ \A i \in 2 .. Len(w) : Follows(PlaceAfter(w[i - 1]), w[i])

\* There is at most one message of a handshake, and it says which one.
ControlOK(w, h) ==
    /\ \A i, j \in 1 .. Len(w) : w[i].type # "message" /\ w[j].type # "message" => i = j
    /\ \A i \in 1 .. Len(w) : w[i].type = "init" => h = "sender"
    /\ \A i \in 1 .. Len(w) : w[i].type = "initResponse" => h = "receiverAnswered"

-----------------------------------------------------------------------------
(* The sender.                                                              *)

SenderType(s) ==
    s \in [requesters : Seq(Proxies), sending : Proxies \cup {NoProxy}, serializer : Seq(Pieces),
           partlySent : BOOLEAN, skip : BOOLEAN, requested : BOOLEAN, initialized : BOOLEAN, sesame : BOOLEAN]

SendPlace(s) == IF s.serializer = <<>> THEN Between ELSE BeginOf(s.serializer)

SenderOK(s) ==
    /\ SenderType(s)
    /\ s.serializer # <<>> =>
           /\ IsRun(s.serializer) /\ s.serializer[1].index >= 1
           /\ s.serializer[1].index + Len(s.serializer) = s.serializer[1].size + 1
           /\ s.sending # NoProxy /\ s.partlySent
    /\ s.skip => s.serializer = <<>>
    /\ s.initialized => ~s.requested
    /\ s.sesame \/ s.requested => s.sending # NoProxy \/ s.skip

-----------------------------------------------------------------------------
(* The receiver.                                                            *)

ReceiverType(r) ==
    r \in [initialized : BOOLEAN, open : BOOLEAN, stream : Seq(Pieces), left : Nat, buffer : Seq(Pieces),
           limit : Int, held : BOOLEAN, deserializer : {"none", "collecting", "executing"}, busy : Nat,
           got : Seq(Pieces), executed : Nat, crashed : {"no", "null", "misread"}]

\* Nothing is ever buffered.
Reading(r) ==
    /\ ReceiverType(r) /\ r.crashed = "no"
    /\ r.buffer = <<>> /\ r.left = Len(r.stream)
    /\ ~r.open => r.stream = <<>> /\ ~r.held

\* No method is in reception or executed; there may be the begin of one.
Waiting(r) ==
    /\ r.deserializer = "none" /\ r.limit = -1 /\ r.busy = 0 /\ ~r.held
    /\ r.stream # <<>> => IsRun(r.stream) /\ r.stream[1].index = 0

Executing(r) ==
    /\ r.deserializer = "executing" /\ r.limit = -1 /\ r.busy = 1 /\ ~r.held
    /\ r.stream # <<>> => IsRun(r.stream) /\ r.stream[1].index = 0
    /\ IsRun(r.got) /\ r.got[1].index = 0 /\ Len(r.got) = r.got[1].size + 1

Collecting(r) ==
    /\ r.deserializer = "collecting" /\ r.busy = 0
    /\ IsRun(r.got) /\ r.got[1].index = 0
    /\ r.limit = r.got[1].size + 1 - Len(r.got)
    /\ r.stream # <<>> => Continues(r.got, r.stream)

\* The receiver between two steps: it has an open reader only when the deserializer
\* holds it, or when a method is executed and the next one is there.
ReceiverOK(r) ==
    /\ Reading(r)
    /\ \/ Waiting(r) /\ ~r.open
       \/ Executing(r) /\ (r.open => r.stream # <<>>)
       \/ Collecting(r) /\ (r.open => r.held) /\ (~r.open => r.limit > 0)

ReceivePlace(r) ==
    IF r.stream # <<>> THEN EndOf(r.stream)
    ELSE IF r.deserializer = "collecting" THEN EndOf(r.got) ELSE Between

-----------------------------------------------------------------------------
(* The invariant.                                                           *)

\* Where the receiver is, the wire begins; where the wire ends, or the receiver is when
\* there is nothing on it, is the sender.  A receiver that waits for its handshake
\* drops what comes.
Linked(s, w, h, r) ==
    /\ SenderOK(s) /\ WireOK(w) /\ ControlOK(w, h)
    /\ h \in {"sender", "senderAnswered"} => ~s.initialized /\ s.serializer = <<>>
    /\ r.initialized /\ w # <<>> => Follows(ReceivePlace(r), w[1])
    /\ r.initialized /\ w = <<>> => SendPlace(s) = ReceivePlace(r)
    /\ w # <<>> => SendPlace(s) = PlaceAfter(w[Len(w)])

IsQueued(s, p) == \E i \in 1 .. Len(s.requesters) : s.requesters[i] = p

\* A proxy whose method is partly sent may wait anew, but then it is in the queue.
QueuedAnew(s, waiting) == s.serializer # <<>> /\ s.sending \in waiting => IsQueued(s, s.sending)

EchoInv ==
    /\ ReceiverOK(rcv)
    /\ methods \in Nat /\ starts \in Nat /\ onGranted \subseteq Proxies
    /\ crashed \in {"no", "assertion"}
    /\ Running => Linked(snd, wire, handshake, rcv) /\ QueuedAnew(snd, onGranted)

\* Every proxy that waits is in the queue or the one whose turn it is.
Attended(s, waiting) == \A p \in waiting : IsQueued(s, p) \/ s.sending = p

\* partlySent is not cleared with the serializer that a handshake drops.
Stale(s) == s.partlySent /\ s.serializer = <<>>

\* An end that started over once may have left partlySent stale, but not two handshakes
\* before the next.
GrantInv ==
    /\ crashed = "no"
    /\ Attended(snd, onGranted)
    /\ Stale(snd) => starts >= 1 /\ handshake \in {"receiverAnswered", "none"}
    /\ handshake = "receiver" => starts >= 1

-----------------------------------------------------------------------------
(* Lemmas about runs.                                                       *)

\* What the numbers of a run are.
LEMMA RunNumbers ==
    ASSUME NEW s, IsRun(s)
    PROVE  /\ s \in Seq(Pieces) /\ Len(s) \in Nat /\ Len(s) >= 1 /\ s # <<>>
           /\ s[1].method \in Nat /\ s[1].size \in Nat /\ s[1].index \in Nat
           /\ s[1] \in Pieces /\ Head(s) = s[1]
           /\ s[1].index + Len(s) <= s[1].size + 1
<1>1. s \in Seq(Pieces) /\ Len(s) \in Nat /\ 1 \in 1 .. Len(s)
  BY DEF IsRun
<1>2. s[1] \in Pieces
  BY <1>1, ElementOfSeq
<1> QED
  BY <1>1, <1>2 DEF IsRun, Pieces

\* What a run s is cut into after n pieces.
Cut(s, n) ==
    /\ n >= 1 => LET t == SubSeq(s, 1, n)
                 IN  IsRun(t) /\ Len(t) = n /\ t[1] = s[1]
    /\ n = 0 => SubSeq(s, 1, n) = <<>>
    /\ n < Len(s) => LET u == SubSeq(s, n + 1, Len(s))
                     IN  /\ IsRun(u) /\ Len(u) = Len(s) - n
                         /\ u[1].method = s[1].method /\ u[1].size = s[1].size
                         /\ u[1].index = s[1].index + n
    /\ n = Len(s) => SubSeq(s, n + 1, Len(s)) = <<>>

LEMMA CutRun ==
    ASSUME NEW s, IsRun(s), NEW n \in Nat, n <= Len(s)
    PROVE  Cut(s, n)
<1>1. s \in Seq(Pieces) /\ Len(s) \in Nat /\ \A i \in 1 .. Len(s) : s[i] \in Pieces
  BY RunNumbers, ElementOfSeq
<1> DEFINE t == SubSeq(s, 1, n)
           u == SubSeq(s, n + 1, Len(s))
<1>2. /\ t \in Seq(Pieces) /\ Len(t) = n
      /\ \A i \in 1 .. n : t[i] = s[i]
  <2>1. \A i \in 1 .. n : s[i] \in Pieces
    BY <1>1
  <2>2. /\ t \in Seq(Pieces) /\ Len(t) = IF 1 <= n THEN n - 1 + 1 ELSE 0
        /\ \A i \in 1 .. n - 1 + 1 : t[i] = s[1 + i - 1]
    BY <2>1, SubSeqProperties
  <2> HIDE DEF t
  <2> QED
    BY <2>2
<1>3. /\ u \in Seq(Pieces) /\ Len(u) = Len(s) - n
      /\ \A i \in 1 .. Len(s) - n : u[i] = s[n + i]
  <2>1. n + 1 \in Int /\ Len(s) \in Int /\ \A i \in n + 1 .. Len(s) : s[i] \in Pieces
    BY <1>1
  <2>2. /\ u \in Seq(Pieces) /\ Len(u) = IF n + 1 <= Len(s) THEN Len(s) - (n + 1) + 1 ELSE 0
        /\ \A i \in 1 .. Len(s) - (n + 1) + 1 : u[i] = s[(n + 1) + i - 1]
    BY <2>1, SubSeqProperties
  <2> HIDE DEF u
  <2> QED
    BY <1>1, <2>2
<1>4. n = 0 => t = <<>>
  BY <1>2
<1>5. n = Len(s) => u = <<>>
  BY <1>1, <1>3
<1> HIDE DEF t, u
<1>6. ASSUME n >= 1
      PROVE  IsRun(t) /\ Len(t) = n /\ t[1] = s[1]
  <2>1. t[1] = s[1]
    BY <1>2, <1>6
  <2>2. s[1].index \in Nat /\ s[1].size \in Nat
    BY RunNumbers
  <2>3. \A i \in 1 .. n : t[i].method = s[1].method /\ t[i].size = s[1].size /\ t[i].index = s[1].index + (i - 1)
    BY <1>1, <1>2 DEF IsRun
  <2>4. s[1].index + n <= s[1].size + 1
    BY <1>1, <2>2 DEF IsRun
  <2> QED
    BY <1>2, <1>6, <2>1, <2>3, <2>4 DEF IsRun
<1>7. ASSUME n < Len(s)
      PROVE  /\ IsRun(u) /\ Len(u) = Len(s) - n
             /\ u[1].method = s[1].method /\ u[1].size = s[1].size
             /\ u[1].index = s[1].index + n
  <2>1. /\ Len(u) >= 1 /\ Len(u) \in Nat /\ n + 1 \in 1 .. Len(s)
        /\ s[1].index \in Nat /\ s[1].size \in Nat
    BY <1>1, <1>3, <1>7, RunNumbers
  <2>2. \A i \in 1 .. Len(u) : /\ u[i].method = s[1].method /\ u[i].size = s[1].size
                               /\ u[i].index = s[1].index + ((n + i) - 1)
    <3> SUFFICES ASSUME NEW i \in 1 .. Len(u)
                 PROVE  /\ u[i].method = s[1].method /\ u[i].size = s[1].size
                        /\ u[i].index = s[1].index + ((n + i) - 1)
      OBVIOUS
    <3>1. n + i \in 1 .. Len(s) /\ i \in 1 .. Len(s) - n
      BY <1>1, <1>3
    <3> QED
      BY <1>3, <3>1 DEF IsRun
  <2>3. /\ u[1].method = s[1].method /\ u[1].size = s[1].size /\ u[1].index = s[1].index + n
    <3>1. 1 \in 1 .. Len(u) /\ (n + 1) - 1 = n
      BY <2>1
    <3> QED
      BY <2>2, <3>1
  <2>4. \A i \in 1 .. Len(u) : u[i].index = u[1].index + (i - 1)
    <3> SUFFICES ASSUME NEW i \in 1 .. Len(u)
                 PROVE  u[i].index = u[1].index + (i - 1)
      OBVIOUS
    <3>1. s[1].index + ((n + i) - 1) = (s[1].index + n) + (i - 1)
      BY <2>1
    <3> QED
      BY <2>2, <2>3, <3>1
  <2>5. u[1].index + Len(u) <= u[1].size + 1
    <3>1. s[1].index + Len(s) <= s[1].size + 1
      BY DEF IsRun
    <3> QED
      BY <1>1, <1>3, <2>1, <2>3, <3>1
  <2> QED
    BY <1>3, <2>1, <2>2, <2>3, <2>4, <2>5 DEF IsRun
<1> QED
  BY <1>4, <1>5, <1>6, <1>7 DEF Cut, t, u

\* A run and the one that goes on where it ends are one run.
Joined(s, t, u) == IsRun(u) /\ Len(u) = Len(s) + Len(t) /\ u[1] = s[1]

LEMMA JoinRuns ==
    ASSUME NEW s, NEW t, IsRun(s), Continues(s, t)
    PROVE  Joined(s, t, s \o t)
<1> DEFINE u == s \o t
           m == Len(s)
           n == Len(t)
<1>1. /\ s \in Seq(Pieces) /\ t \in Seq(Pieces) /\ m \in Nat /\ n \in Nat /\ m >= 1 /\ n >= 1
      /\ s[1].index \in Nat /\ s[1].size \in Nat /\ IsRun(t)
      /\ t[1].method = s[1].method /\ t[1].size = s[1].size /\ t[1].index = s[1].index + m
      /\ t[1].index + n <= t[1].size + 1
  BY RunNumbers DEF Continues
<1>2. /\ u \in Seq(Pieces) /\ Len(u) = m + n
      /\ \A i \in 1 .. m + n : u[i] = IF i <= m THEN s[i] ELSE t[i - m]
  BY <1>1, ConcatProperties
<1>3. /\ \A i \in 1 .. m : s[i].method = s[1].method /\ s[i].size = s[1].size /\ s[i].index = s[1].index + (i - 1)
      /\ \A i \in 1 .. n : t[i].method = t[1].method /\ t[i].size = t[1].size /\ t[i].index = t[1].index + (i - 1)
  BY <1>1 DEF IsRun
<1> HIDE DEF u, m, n
<1>4. u[1] = s[1]
  <2>1. 1 \in 1 .. m + n /\ 1 <= m
    BY <1>1
  <2> QED
    BY <1>2, <2>1
<1>5. ASSUME NEW i \in 1 .. m + n
      PROVE  u[i].method = s[1].method /\ u[i].size = s[1].size /\ u[i].index = s[1].index + (i - 1)
  <2>1. CASE i <= m
    <3>1. i \in 1 .. m /\ u[i] = s[i]
      BY <1>1, <1>2, <2>1
    <3> QED
      BY <1>3, <3>1
  <2>2. CASE ~(i <= m)
    <3>1. u[i] = t[i - m]
      BY <1>2, <2>2
    <3>2. i - m \in 1 .. n
      BY <1>1, <2>2
    <3>3. (s[1].index + m) + ((i - m) - 1) = s[1].index + (i - 1)
      <4> DEFINE k == s[1].index
      <4>1. k \in Nat /\ m \in Nat /\ i \in Int
        BY <1>1
      <4> HIDE DEF k
      <4>2. (k + m) + ((i - m) - 1) = k + (i - 1)
        BY <4>1
      <4> QED
        BY <4>2 DEF k
    <3> QED
      BY <1>1, <1>3, <3>1, <3>2, <3>3
  <2> QED
    BY <2>1, <2>2
<1>6. u[1].index + Len(u) <= u[1].size + 1 /\ Len(u) >= 1
  <2> DEFINE k == s[1].index
             z == s[1].size
             i == t[1].index
             y == t[1].size
  <2>1. u[1].index = k /\ u[1].size = z /\ Len(u) = m + n
    BY <1>2, <1>4
  <2>2. /\ i = k + m /\ y = z /\ i + n <= y + 1
        /\ k \in Nat /\ z \in Nat /\ m \in Nat /\ n \in Nat /\ m >= 1
    BY <1>1
  <2> HIDE DEF k, z, i, y
  <2>3. k + (m + n) <= z + 1 /\ m + n >= 1
    BY <2>2
  <2> QED
    BY <2>1, <2>3
<1>7. IsRun(u)
  BY <1>2, <1>4, <1>5, <1>6 DEF IsRun
<1> QED
  BY <1>2, <1>4, <1>7 DEF u, m, n, Joined

\* The pieces of a method are a run of it, and all there are.
IsMethod(s, m, size) ==
    /\ IsRun(s) /\ Len(s) = size + 1
    /\ s[1].method = m /\ s[1].size = size /\ s[1].index = 0

LEMMA MethodIsRun ==
    ASSUME NEW m \in Nat, NEW size \in Nat
    PROVE  IsMethod(MethodPieces(m, size), m, size)
<1> DEFINE s == MethodPieces(m, size)
<1>1. /\ s = [i \in 1 .. size + 1 |-> Piece(m, size, i - 1)] /\ size + 1 \in Nat
      /\ \A i \in 1 .. size + 1 : Piece(m, size, i - 1) \in Pieces
  BY DEF MethodPieces, Piece, Pieces
<1>2. s \in Seq(Pieces) /\ Len(s) = size + 1 /\ \A i \in 1 .. size + 1 : s[i] = Piece(m, size, i - 1)
  BY <1>1
<1> HIDE DEF s
<1>3. \A i \in 1 .. size + 1 : s[i].method = m /\ s[i].size = size /\ s[i].index = i - 1
  BY <1>2 DEF Piece
<1>4. 1 \in 1 .. size + 1 /\ 1 - 1 = 0
  OBVIOUS
<1>5. s[1].method = m /\ s[1].size = size /\ s[1].index = 0
  BY <1>3, <1>4
<1>6. \A i \in 1 .. size + 1 : s[i].index = s[1].index + (i - 1)
  BY <1>3, <1>5
<1>7. IsRun(s)
  BY <1>2, <1>3, <1>5, <1>6 DEF IsRun
<1> QED
  BY <1>2, <1>5, <1>7 DEF IsMethod, s

LEMMA WholeRun ==
    ASSUME NEW s, IsRun(s), s[1].index = 0, Len(s) = s[1].size + 1
    PROVE  s = MethodPieces(Head(s).method, Head(s).size)
<1> DEFINE m == s[1].method
           size == s[1].size
           t == MethodPieces(m, size)
<1>1. s \in Seq(Pieces) /\ m \in Nat /\ size \in Nat /\ Head(s) = s[1]
  BY RunNumbers
<1> HIDE DEF m, size
<1>2. IsMethod(t, m, size)
  BY <1>1, MethodIsRun
<1> HIDE DEF t
<1>3. /\ IsRun(t) /\ Len(t) = size + 1 /\ t[1].method = m /\ t[1].size = size /\ t[1].index = 0
      /\ Len(s) = size + 1
  BY <1>2 DEF IsMethod, size
<1>4. ASSUME NEW i \in 1 .. Len(s)
      PROVE  s[i] = t[i]
  <2>1. s[i] \in Pieces /\ t[i] \in Pieces
    BY <1>1, <1>3, ElementOfSeq, RunNumbers
  <2>2. s[i].method = t[i].method /\ s[i].size = t[i].size /\ s[i].index = t[i].index
    BY <1>3 DEF IsRun, m, size
  <2> QED
    BY <2>1, <2>2 DEF Pieces
<1>5. s = t
  BY <1>1, <1>3, <1>4, SeqEqual, RunNumbers
<1> QED
  BY <1>1, <1>5 DEF t, m, size

\* Places before and behind a run.
LEMMA RunEnds ==
    ASSUME NEW s, IsRun(s)
    PROVE  /\ BeginOf(s) = Between <=> s[1].index = 0
           /\ EndOf(s) = Between <=> s[1].index + Len(s) = s[1].size + 1
<1>1. /\ s[1].index \in Nat /\ s[1].size \in Nat /\ Len(s) \in Nat /\ Len(s) >= 1
      /\ s[1].index + Len(s) <= s[1].size + 1
  BY RunNumbers
<1>2. \A m, z, k : (k # 0 /\ k # z + 1) => PlaceAt(m, z, k) # Between
  BY DEF PlaceAt, Between
<1>3. \A m, z, k : (k = 0 \/ k = z + 1) => PlaceAt(m, z, k) = Between
  BY DEF PlaceAt
<1>4. s[1].index # s[1].size + 1 /\ s[1].index + Len(s) # 0
  BY <1>1
<1> QED
  BY <1>2, <1>3, <1>4 DEF BeginOf, EndOf

\* A run begins at the place where the other one ends, which is not between methods:
\* it goes on with its method.
LEMMA RunsMeet ==
    ASSUME NEW s, NEW t, IsRun(s), IsRun(t), BeginOf(t) = EndOf(s), EndOf(s) # Between
    PROVE  Continues(s, t)
<1>1. /\ BeginOf(t) = PlaceAt(t[1].method, t[1].size, t[1].index)
      /\ EndOf(s) = PlaceAt(s[1].method, s[1].size, s[1].index + Len(s))
  BY DEF BeginOf, EndOf
<1>2. ASSUME NEW m, NEW z, NEW k, PlaceAt(m, z, k) # Between
      PROVE  PlaceAt(m, z, k) = [method |-> m, size |-> z, next |-> k]
  BY <1>2 DEF PlaceAt
<1>3. [method |-> t[1].method, size |-> t[1].size, next |-> t[1].index]
      = [method |-> s[1].method, size |-> s[1].size, next |-> s[1].index + Len(s)]
  <2>1. BeginOf(t) # Between
    OBVIOUS
  <2>2. BeginOf(t) = [method |-> t[1].method, size |-> t[1].size, next |-> t[1].index]
    BY <1>1, <1>2, <2>1
  <2>3. EndOf(s) = [method |-> s[1].method, size |-> s[1].size, next |-> s[1].index + Len(s)]
    BY <1>1, <1>2
  <2> QED
    BY <2>2, <2>3
<1>4. t[1].method = s[1].method /\ t[1].size = s[1].size /\ t[1].index = s[1].index + Len(s)
  BY <1>3
<1> QED
  BY <1>4 DEF Continues

-----------------------------------------------------------------------------
(* The receiver reads.                                                      *)

\* What is left of s, and what got becomes, when n pieces of s are extracted.
Moved(got, s, n, g, u) ==
    /\ IsRun(g) /\ Len(g) = Len(got) + n /\ g[1] = got[1]
    /\ u \in Seq(Pieces) /\ Len(u) = Len(s) - n
    /\ u # <<>> => Continues(g, u) /\ EndOf(u) = EndOf(s)
    /\ u = <<>> => EndOf(g) = (IF s = <<>> THEN EndOf(got) ELSE EndOf(s))

LEMMA PiecesMove ==
    ASSUME NEW got, NEW s \in Seq(Pieces), NEW n \in Nat, n <= Len(s), IsRun(got),
           s # <<>> => Continues(got, s)
    PROVE  Moved(got, s, n, got \o SubSeq(s, 1, n), SubSeq(s, n + 1, Len(s)))
<1> DEFINE g == got \o SubSeq(s, 1, n)
           u == SubSeq(s, n + 1, Len(s))
<1>1. got \in Seq(Pieces) /\ Len(got) \in Nat /\ Len(s) \in Nat
  BY RunNumbers
<1>2. CASE s = <<>>
  <2>1. n = 0 /\ Len(s) = 0
    BY <1>2
  <2>2. SubSeq(s, 1, n) = <<>> /\ u = <<>>
    BY <1>2, <2>1
  <2>3. g = got
    BY <1>1, <2>2
  <2> HIDE DEF g, u
  <2>4. u \in Seq(Pieces) /\ Len(u) = Len(s) - n /\ Len(g) = Len(got) + n
    BY <1>1, <2>1, <2>2, <2>3
  <2>5. Moved(got, s, n, g, u)
    BY <1>2, <2>2, <2>3, <2>4 DEF Moved
  <2> QED
    BY <2>5 DEF g, u
<1>3. CASE s # <<>>
  <2>1. IsRun(s) /\ Continues(got, s) /\ Cut(s, n) /\ Len(s) >= 1
    BY <1>3, CutRun, RunNumbers DEF Continues
  <2>2. /\ s[1].method = got[1].method /\ s[1].size = got[1].size /\ s[1].index = got[1].index + Len(got)
        /\ got[1].index \in Nat
    BY <2>1, RunNumbers DEF Continues
  <2> DEFINE t == SubSeq(s, 1, n)
  <2>3. IsRun(g) /\ Len(g) = Len(got) + n /\ g[1] = got[1]
    <3>1. CASE n = 0
      <4>1. t = <<>>
        BY <2>1, <3>1 DEF Cut
      <4>2. g = got
        BY <1>1, <4>1
      <4> HIDE DEF g
      <4>3. Len(got) + n = Len(got)
        BY <1>1, <3>1
      <4> QED
        BY <4>2, <4>3
    <3>2. CASE n # 0
      <4>1. IsRun(t) /\ Len(t) = n /\ t[1] = s[1]
        BY <2>1, <3>2 DEF Cut
      <4>2. Continues(got, t)
        BY <2>2, <4>1 DEF Continues
      <4> HIDE DEF t
      <4>3. Joined(got, t, got \o t)
        BY <4>2, JoinRuns
      <4>4. g = got \o t
        BY DEF t
      <4> HIDE DEF g
      <4> QED
        BY <4>1, <4>3, <4>4 DEF Joined
    <3> QED
      BY <3>1, <3>2
  <2>4. CASE n < Len(s)
    <3>1. /\ IsRun(u) /\ Len(u) = Len(s) - n /\ u[1].method = s[1].method /\ u[1].size = s[1].size
          /\ u[1].index = s[1].index + n
      BY <2>1, <2>4 DEF Cut
    <3> HIDE DEF u, g
    <3>2. Continues(g, u)
      BY <1>1, <2>2, <2>3, <3>1 DEF Continues
    <3>3. EndOf(u) = EndOf(s)
      <4>1. u[1].index + Len(u) = s[1].index + Len(s)
        BY <1>1, <2>2, <3>1
      <4> QED
        BY <3>1, <4>1 DEF EndOf
    <3>4. u # <<>> /\ u \in Seq(Pieces)
      BY <3>1, RunNumbers
    <3>5. Moved(got, s, n, g, u)
      BY <2>3, <3>1, <3>2, <3>3, <3>4 DEF Moved
    <3> QED
      BY <3>5 DEF g, u
  <2>5. CASE n = Len(s)
    <3>1. u = <<>>
      BY <2>1, <2>5 DEF Cut
    <3> HIDE DEF u, g
    <3>2. EndOf(g) = EndOf(s)
      <4>1. g[1].index + Len(g) = s[1].index + Len(s)
        BY <1>1, <2>2, <2>3, <2>5
      <4> QED
        BY <2>2, <2>3, <4>1 DEF EndOf
    <3>3. u \in Seq(Pieces) /\ Len(u) = Len(s) - n
      BY <1>1, <2>5, <3>1
    <3>4. Moved(got, s, n, g, u)
      BY <1>3, <2>3, <3>1, <3>2, <3>3 DEF Moved
    <3> QED
      BY <3>4 DEF g, u
  <2> QED
    BY <1>1, <2>4, <2>5
<1> QED
  BY <1>2, <1>3

\* The receiver d after some reading has the place of r.
Goes(r, d) ==
    /\ Reading(d) /\ d.initialized = r.initialized
    /\ ReceivePlace(d) = ReceivePlace(r)

\* The deserializer has taken n pieces.
Read(r, n, d) ==
    /\ Goes(r, d) /\ d.open = TRUE /\ d.held = FALSE
    /\ \/ Collecting(d) /\ d.limit > 0 /\ Len(d.stream) = Len(r.stream) - n
       \/ Executing(d) /\ d.stream = <<>>

LEMMA DeserializerReads ==
    ASSUME NEW r, Reading(r), Collecting(r), r.open, ~r.held, NEW n \in Nat, n <= Len(r.stream)
    PROVE  Read(r, n, LimitedReaderDone([Extracted(r, n) EXCEPT !.limit = @ - n]))
<1> DEFINE g == r.got \o SubSeq(r.stream, 1, n)
           u == SubSeq(r.stream, n + 1, Len(r.stream))
           z == r.got[1].size
           left == Least(r.left, Len(r.stream) - n)
           e == [r EXCEPT !.stream = u, !.left = left, !.got = g]
           d == [e EXCEPT !.limit = r.limit - n]
<1>1. ReceiverType(r) /\ r.stream \in Seq(Pieces) /\ Len(r.stream) \in Nat /\ r.left = Len(r.stream)
  BY DEF Reading, ReceiverType
<1>2. Moved(r.got, r.stream, n, g, u)
  BY <1>1, PiecesMove DEF Collecting
<1>3. left = Len(r.stream) - n /\ left \in Nat
  BY <1>1 DEF Least
<1>4. g \in Seq(Pieces) /\ u \in Seq(Pieces) /\ Len(u) = left
  BY <1>2, <1>3, RunNumbers DEF Moved
<1>5. [Extracted(r, n) EXCEPT !.limit = @ - n] = d
  BY <1>1 DEF Extracted, ReceiverType
<1> HIDE DEF g, u, left
<1>6. /\ ReceiverType(e) /\ e.stream = u /\ e.left = left /\ e.got = g /\ e.limit = r.limit
      /\ e.buffer = r.buffer /\ e.open = r.open /\ e.held = r.held /\ e.crashed = r.crashed
      /\ e.deserializer = r.deserializer /\ e.busy = r.busy /\ e.initialized = r.initialized
  BY <1>1, <1>3, <1>4 DEF ReceiverType
<1> HIDE DEF e
<1>7. /\ ReceiverType(d) /\ d.stream = u /\ d.left = left /\ d.got = g /\ d.limit = r.limit - n
      /\ d.buffer = r.buffer /\ d.open = r.open /\ d.held = r.held /\ d.crashed = r.crashed
      /\ d.deserializer = "collecting" /\ d.busy = 0 /\ d.initialized = r.initialized
  <2>1. r.limit - n \in Int
    BY <1>1 DEF ReceiverType
  <2> QED
    BY <1>6, <2>1 DEF ReceiverType, Collecting
<1> HIDE DEF d
<1>8. /\ r.limit = z + 1 - Len(r.got) /\ z \in Nat /\ Len(r.got) \in Nat /\ r.got[1].index = 0
      /\ IsRun(g) /\ Len(g) = Len(r.got) + n /\ g[1] = r.got[1]
  BY <1>2, RunNumbers DEF Collecting, Moved
<1>9. d.limit = z + 1 - Len(g) /\ Len(g) <= z + 1 /\ Len(g) \in Nat /\ z \in Nat
  <2>1. g[1].index + Len(g) <= g[1].size + 1
    BY <1>8, RunNumbers
  <2> HIDE DEF z
  <2>2. g[1].size = z /\ g[1].index = 0 /\ Len(g) \in Nat
    BY <1>8 DEF z
  <2> QED
    BY <1>7, <1>8, <2>1, <2>2
<1> HIDE DEF z
<1>10. Reading(d)
  BY <1>4, <1>7 DEF Reading
<1>11. Collecting(d)
  BY <1>2, <1>7, <1>8, <1>9 DEF Collecting, Moved, z
<1>12. ReceivePlace(d) = ReceivePlace(r)
  <2>1. r.deserializer = "collecting"
    BY DEF Collecting
  <2>2. CASE u # <<>>
    <3>1. r.stream # <<>>
      BY <1>1, <1>3, <1>4, <2>2
    <3> QED
      BY <1>2, <1>7, <2>2, <3>1 DEF ReceivePlace, Moved
  <2>3. CASE u = <<>>
    BY <1>2, <1>7, <2>1, <2>3 DEF ReceivePlace, Moved
  <2> QED
    BY <2>2, <2>3
<1>13. CASE d.limit # 0
  <2>1. LimitedReaderDone(d) = d
    BY <1>13 DEF LimitedReaderDone
  <2>2. d.limit > 0
    BY <1>9, <1>13
  <2>3. d.open = TRUE /\ d.held = FALSE
    BY <1>1, <1>7 DEF ReceiverType
  <2>4. Read(r, n, d)
    BY <1>3, <1>4, <1>7, <1>10, <1>11, <1>12, <2>2, <2>3 DEF Read, Goes
  <2> QED
    BY <1>5, <2>1, <2>4
<1>14. CASE d.limit = 0
  <2> DEFINE m == Head(d.got).method
             x == [d EXCEPT !.limit = -1, !.deserializer = "executing", !.busy = 1, !.executed = m]
  <2>1. LimitedReaderDone(d) = x
    BY <1>7, <1>14 DEF LimitedReaderDone, ReceiverType
  <2>2. m \in Nat /\ -1 \in Int
    BY <1>7, <1>8, RunNumbers
  <2> HIDE DEF m
  <2>3. /\ ReceiverType(x) /\ x.stream = u /\ x.left = left /\ x.got = g /\ x.limit = -1
        /\ x.buffer = r.buffer /\ x.open = r.open /\ x.held = r.held /\ x.crashed = r.crashed
        /\ x.deserializer = "executing" /\ x.busy = 1 /\ x.initialized = r.initialized
    BY <1>7, <2>2 DEF ReceiverType
  <2> HIDE DEF x
  <2>4. Len(g) = z + 1 /\ g[1].index = 0 /\ g[1].size = z
    <3>1. Len(g) = z + 1
      BY <1>9, <1>14
    <3>2. g[1].index = 0 /\ g[1].size = z
      BY <1>8 DEF z
    <3> QED
      BY <3>1, <3>2
  <2>5. u = <<>> /\ ReceivePlace(d) = Between
    <3>1. ASSUME u # <<>>
          PROVE  FALSE
      <4>1. IsRun(u) /\ u[1].size = g[1].size /\ u[1].index = g[1].index + Len(g)
        BY <1>2, <3>1 DEF Moved, Continues
      <4>2. u[1].index + Len(u) <= u[1].size + 1 /\ Len(u) \in Nat /\ Len(u) >= 1
        BY <4>1, RunNumbers
      <4> QED
        BY <1>8, <2>4, <4>1, <4>2
    <3>2. EndOf(g) = Between
      BY <1>8, <2>4, RunEnds
    <3> QED
      BY <1>7, <3>1, <3>2 DEF ReceivePlace
  <2>6. x.open = TRUE /\ x.held = FALSE
    BY <1>1, <2>3 DEF ReceiverType
  <2>7. Reading(x)
    BY <1>4, <1>10, <2>3 DEF Reading
  <2>8. Executing(x)
    BY <1>8, <2>3, <2>4, <2>5, <2>6 DEF Executing
  <2>9. ReceivePlace(x) = Between
    BY <2>3, <2>5 DEF ReceivePlace
  <2>10. Read(r, n, x)
    BY <1>12, <2>3, <2>5, <2>6, <2>7, <2>8, <2>9 DEF Read, Goes
  <2> QED
    BY <1>5, <2>1, <2>10
<1> QED
  BY <1>13, <1>14

\* The deserializer holds the reader, or has taken all there is.
Settled(d) ==
    \/ Collecting(d) /\ d.held = TRUE
    \/ Collecting(d) /\ d.held = FALSE /\ d.limit > 0 /\ d.stream = <<>>
    \/ Executing(d) /\ d.held = FALSE /\ d.stream = <<>>

Settles(r, d) == Goes(r, d) /\ d.open = TRUE /\ Settled(d)

LEMMA ContinueSettles ==
    ASSUME NEW r, Reading(r), Collecting(r), r.open, ~r.held, NEW hold \in BOOLEAN
    PROVE  Settles(r, ContinueReceiveMessage(r, hold))
<1>1. /\ ReceiverType(r) /\ r.open = TRUE /\ r.held = FALSE /\ r.deserializer = "collecting"
      /\ r.stream \in Seq(Pieces) /\ Len(r.stream) \in Nat /\ r.limit \in Int
  BY DEF Reading, ReceiverType, Collecting
<1>2. CASE hold
  <2> DEFINE d == [r EXCEPT !.held = TRUE]
  <2>1. ContinueReceiveMessage(r, hold) = d
    BY <1>1, <1>2 DEF ContinueReceiveMessage
  <2>2. /\ ReceiverType(d) /\ d.stream = r.stream /\ d.left = r.left /\ d.got = r.got /\ d.limit = r.limit
        /\ d.buffer = r.buffer /\ d.open = TRUE /\ d.held = TRUE /\ d.crashed = r.crashed
        /\ d.deserializer = r.deserializer /\ d.busy = r.busy /\ d.initialized = r.initialized
    BY <1>1 DEF ReceiverType
  <2> HIDE DEF d
  <2>3. Reading(d) /\ Collecting(d) /\ ReceivePlace(d) = ReceivePlace(r)
    BY <2>2 DEF Reading, Collecting, ReceivePlace
  <2> QED
    BY <2>1, <2>2, <2>3 DEF Settles, Goes, Settled
<1>3. CASE ~hold
  <2> DEFINE n == Least(r.limit, Len(r.stream))
             d == LimitedReaderDone([Extracted(r, n) EXCEPT !.limit = @ - n])
  <2>1. ContinueReceiveMessage(r, hold) = d
    BY <1>1, <1>3 DEF ContinueReceiveMessage
  <2>2. Len(r.stream) <= r.limit
    <3>1. /\ IsRun(r.got) /\ r.got[1].index = 0 /\ r.limit = r.got[1].size + 1 - Len(r.got)
      BY DEF Collecting
    <3>2. Len(r.got) \in Nat /\ r.got[1].size \in Nat /\ Len(r.got) <= r.got[1].size + 1
      BY <3>1, RunNumbers
    <3>3. CASE r.stream = <<>>
      BY <3>1, <3>2, <3>3
    <3>4. CASE r.stream # <<>>
      <4>1. IsRun(r.stream) /\ r.stream[1].size = r.got[1].size /\ r.stream[1].index = r.got[1].index + Len(r.got)
        BY <3>4 DEF Collecting, Continues
      <4>2. r.stream[1].index + Len(r.stream) <= r.stream[1].size + 1
        BY <4>1, RunNumbers
      <4> DEFINE z == r.got[1].size
                 g == Len(r.got)
                 l == Len(r.stream)
      <4>3. z \in Nat /\ g \in Nat /\ l \in Nat /\ (0 + g) + l <= z + 1 /\ r.limit = z + 1 - g
        BY <1>1, <3>1, <3>2, <4>1, <4>2
      <4> HIDE DEF z, g, l
      <4>4. l <= r.limit
        BY <4>3
      <4> QED
        BY <4>4 DEF l
    <3> QED
      BY <3>3, <3>4
  <2>3. n = Len(r.stream)
    BY <1>1, <2>2 DEF Least
  <2>4. n \in Nat /\ n <= Len(r.stream)
    BY <1>1, <2>3
  <2> HIDE DEF n
  <2>5. Read(r, n, d)
    BY <2>4, DeserializerReads
  <2> HIDE DEF d
  <2>6. Len(d.stream) = Len(r.stream) - n => d.stream = <<>>
    <3>1. d.stream \in Seq(Pieces)
      BY <2>5 DEF Read, Goes, Reading, ReceiverType
    <3> QED
      BY <1>1, <2>3, <3>1
  <2> QED
    BY <2>1, <2>5, <2>6 DEF Read, Settles, Settled
<1> QED
  BY <1>2, <1>3

\* A method is started.
LEMMA StartCollects ==
    ASSUME NEW r, Reading(r), Waiting(r), r.open, r.stream # <<>>
    PROVE  LET d == StartReceiveMessage(r)
           IN  Goes(r, d) /\ d.open = TRUE /\ d.held = FALSE /\ Collecting(d)
<1> DEFINE s == r.stream
           z == s[1].size
           x == [r EXCEPT !.limit = z, !.deserializer = "collecting", !.got = <<>>]
           g == <<>> \o SubSeq(s, 1, 1)
           u == SubSeq(s, 2, Len(s))
           left == Least(x.left, Len(x.stream) - 1)
           d == [x EXCEPT !.stream = u, !.left = left, !.got = g]
<1>1. /\ ReceiverType(r) /\ r.open = TRUE /\ r.held = FALSE /\ r.left = Len(s) /\ r.buffer = <<>> /\ r.crashed = "no"
      /\ IsRun(s) /\ s[1].index = 0 /\ r.busy = 0
  BY DEF Reading, ReceiverType, Waiting
<1>2. /\ z \in Nat /\ Len(s) \in Nat /\ Len(s) >= 1 /\ Head(s) = s[1] /\ s \in Seq(Pieces)
      /\ s[1].index + Len(s) <= z + 1
  BY <1>1, RunNumbers
<1>3. StartReceiveMessage(r) = Extracted(x, 1)
  BY <1>1, <1>2 DEF StartReceiveMessage
<1> HIDE DEF s, z
<1>4. /\ ReceiverType(x) /\ x.limit = z /\ x.deserializer = "collecting" /\ x.got = <<>> /\ x.stream = s
      /\ x.left = r.left /\ x.buffer = r.buffer /\ x.open = r.open /\ x.held = r.held /\ x.crashed = r.crashed
      /\ x.busy = r.busy /\ x.initialized = r.initialized
  <2>1. <<>> \in Seq(Pieces) /\ z \in Int /\ r.stream = s
    BY <1>2 DEF s
  <2> QED
    BY <1>1, <2>1 DEF ReceiverType
<1> HIDE DEF x
<1>5. Cut(s, 1)
  BY <1>1, <1>2, CutRun
<1>6. IsRun(g) /\ Len(g) = 1 /\ g[1] = s[1] /\ g \in Seq(Pieces)
  <2> DEFINE t == SubSeq(s, 1, 1)
  <2>1. IsRun(t) /\ Len(t) = 1 /\ t[1] = s[1]
    BY <1>5 DEF Cut
  <2> HIDE DEF t
  <2>2. t \in Seq(Pieces)
    BY <2>1, RunNumbers
  <2>3. <<>> \o t = t
    BY <2>2
  <2> QED
    BY <2>1, <2>2, <2>3 DEF t
<1>7. u \in Seq(Pieces) /\ Len(u) = Len(s) - 1 /\ (u # <<>> => Continues(g, u) /\ EndOf(u) = EndOf(s))
      /\ (u = <<>> => Len(s) = 1)
  <2> HIDE DEF g
  <2>1. CASE Len(s) = 1
    <3>1. u = <<>>
      BY <1>5, <2>1 DEF Cut
    <3> QED
      BY <2>1, <3>1
  <2>2. CASE Len(s) # 1
    <3>1. /\ IsRun(u) /\ Len(u) = Len(s) - 1 /\ u[1].method = s[1].method /\ u[1].size = s[1].size
          /\ u[1].index = s[1].index + 1
      <4> HIDE DEF u
      <4>1. 1 < Len(s)
        <5> DEFINE l == Len(s)
        <5>1. l \in Nat /\ l >= 1 /\ l # 1
          BY <1>2, <2>2
        <5> HIDE DEF l
        <5>2. 1 < l
          BY <5>1
        <5> QED
          BY <5>2 DEF l
      <4>2. u = SubSeq(s, 1 + 1, Len(s))
        BY DEF u
      <4> QED
        BY <1>5, <4>1, <4>2 DEF Cut
    <3> HIDE DEF u
    <3>2. Continues(g, u)
      BY <1>6, <3>1 DEF Continues
    <3>3. u[1].index + Len(u) = s[1].index + Len(s)
      BY <1>1, <1>2, <3>1
    <3>4. EndOf(u) = EndOf(s) /\ u \in Seq(Pieces) /\ u # <<>>
      BY <3>1, <3>3, RunNumbers DEF EndOf
    <3> QED
      BY <3>1, <3>2, <3>4
  <2> QED
    BY <2>1, <2>2
<1>8. left = Len(s) - 1 /\ left \in Nat
  BY <1>1, <1>2, <1>4 DEF Least
<1>9. Extracted(x, 1) = d
  BY <1>4 DEF Extracted, ReceiverType
<1> HIDE DEF g, u, left
<1>10. /\ ReceiverType(d) /\ d.limit = z /\ d.deserializer = "collecting" /\ d.got = g /\ d.stream = u
       /\ d.left = left /\ d.buffer = <<>> /\ d.open = TRUE /\ d.held = FALSE /\ d.crashed = "no"
       /\ d.busy = 0 /\ d.initialized = r.initialized
  BY <1>1, <1>4, <1>6, <1>7, <1>8 DEF ReceiverType
<1> HIDE DEF d
<1>11. Reading(d)
  BY <1>7, <1>8, <1>10 DEF Reading
<1>12. Collecting(d)
  <2>1. g[1].size = z /\ g[1].index = 0 /\ z + 1 - Len(g) = z
    BY <1>1, <1>2, <1>6 DEF z
  <2> QED
    BY <1>6, <1>7, <1>10, <2>1 DEF Collecting
<1>13. ReceivePlace(d) = ReceivePlace(r)
  <2>1. ReceivePlace(r) = EndOf(s)
    BY DEF ReceivePlace, s
  <2>2. CASE u # <<>>
    BY <1>7, <1>10, <2>1, <2>2 DEF ReceivePlace
  <2>3. CASE u = <<>>
    <3>1. EndOf(g) = EndOf(s)
      BY <1>6, <1>7, <2>3 DEF EndOf
    <3> QED
      BY <1>10, <2>1, <2>3, <3>1 DEF ReceivePlace
  <2> QED
    BY <2>2, <2>3
<1> QED
  BY <1>3, <1>9, <1>10, <1>11, <1>12, <1>13 DEF Goes

\* What a closed reader leaves when it was empty.
LEMMA EmptyReaderCloses ==
    ASSUME NEW r, Reading(r), r.open, r.stream = <<>>, ~r.held
    PROVE  LET d == CloseReader(r)
           IN  /\ Goes(r, d) /\ d.open = FALSE /\ d.held = FALSE /\ d.stream = <<>> /\ d.got = r.got
               /\ d.limit = r.limit /\ d.deserializer = r.deserializer /\ d.busy = r.busy
<1> DEFINE d == [r EXCEPT !.open = FALSE, !.buffer = r.stream, !.stream = <<>>, !.left = 0]
<1>1. CloseReader(r) = d
  BY DEF CloseReader
<1>2. ReceiverType(r) /\ r.held = FALSE /\ r.crashed = "no" /\ r.stream \in Seq(Pieces)
  BY DEF Reading, ReceiverType
<1>3. /\ ReceiverType(d) /\ d.limit = r.limit /\ d.deserializer = r.deserializer /\ d.got = r.got /\ d.stream = <<>>
      /\ d.left = 0 /\ d.buffer = <<>> /\ d.open = FALSE /\ d.held = FALSE /\ d.crashed = "no"
      /\ d.busy = r.busy /\ d.initialized = r.initialized
  BY <1>2 DEF ReceiverType
<1> HIDE DEF d
<1>4. Reading(d) /\ ReceivePlace(d) = ReceivePlace(r)
  BY <1>3 DEF Reading, ReceivePlace
<1> QED
  BY <1>1, <1>3, <1>4 DEF Goes

\* The end of DataReceived.
LEMMA CloseWhenEmptyFits ==
    ASSUME NEW r, Reading(r), r.open, Settled(r) \/ Executing(r)
    PROVE  Goes(r, CloseWhenEmpty(r)) /\ ReceiverOK(CloseWhenEmpty(r))
<1>1. r.stream \in Seq(Pieces) /\ r.left = Len(r.stream) /\ r.held \in BOOLEAN
  BY DEF Reading, ReceiverType
<1>2. CASE r.stream = <<>> /\ ~r.held
  <2> DEFINE d == CloseReader(r)
  <2>1. /\ Goes(r, d) /\ d.open = FALSE /\ d.held = FALSE /\ d.stream = <<>> /\ d.got = r.got
        /\ d.limit = r.limit /\ d.deserializer = r.deserializer /\ d.busy = r.busy
    BY <1>2, EmptyReaderCloses
  <2>2. CloseWhenEmpty(r) = d
    BY <1>1, <1>2 DEF CloseWhenEmpty
  <2> HIDE DEF d
  <2>3. (Collecting(d) /\ d.limit > 0) \/ Executing(d)
    BY <1>2, <2>1 DEF Settled, Collecting, Executing
  <2>4. ReceiverOK(d)
    BY <2>1, <2>3 DEF ReceiverOK, Goes
  <2> QED
    BY <2>1, <2>2, <2>4
<1>3. CASE r.stream # <<>> \/ r.held
  <2>1. r.left = 0 => r.stream = <<>>
    BY <1>1, EmptySeq
  <2>2. CloseWhenEmpty(r) = r
    BY <1>3, <2>1 DEF CloseWhenEmpty
  <2>3. ReceiverOK(r)
    BY <1>3 DEF ReceiverOK, Settled, Executing
  <2> QED
    BY <2>2, <2>3 DEF Goes
<1> QED
  BY <1>2, <1>3

\* DataReceived leaves the receiver in order, at the place behind what it was given.
LEMMA DataReceivedGoes ==
    ASSUME NEW r, Reading(r), r.open, ~r.held, Waiting(r) \/ Executing(r) \/ Collecting(r),
           NEW hold \in BOOLEAN, DataReceived(r, hold)
    PROVE  Goes(r, rcv') /\ ReceiverOK(rcv') /\ crashed' = "no"
<1> DEFINE a == ContinueMethod(r, hold)
           b == ReceiveMethod(a, hold)
           c == ReceiveMethod(b, hold)
           d == CloseWhenEmpty(c)
<1>1. rcv' = [d EXCEPT !.crashed = "no"] /\ crashed' = d.crashed
  BY DEF DataReceived, Received
<1>2. SUFFICES Goes(r, d) /\ ReceiverOK(d)
  <2> HIDE DEF d
  <2> SUFFICES ASSUME Goes(r, d), ReceiverOK(d)
               PROVE  Goes(r, rcv') /\ ReceiverOK(rcv') /\ crashed' = "no"
    OBVIOUS
  <2>1. ReceiverType(d) /\ d.crashed = "no"
    BY DEF Goes, Reading
  <2>2. rcv' = d /\ crashed' = "no"
    BY <1>1, <2>1 DEF ReceiverType
  <2> QED
    BY <2>2
<1>3. \A t : Settled(t) \/ Executing(t) => t.deserializer \in {"collecting", "executing"}
  BY DEF Settled, Collecting, Executing
<1>4. \A t : t.deserializer \in {"collecting", "executing"} => ReceiveMethod(t, hold) = t
  BY DEF ReceiveMethod
<1>5. CASE Collecting(r)
  <2>1. r.limit # -1
    <3>1. IsRun(r.got) /\ r.got[1].index = 0 /\ r.limit = r.got[1].size + 1 - Len(r.got)
      BY <1>5 DEF Collecting
    <3>2. Len(r.got) \in Nat /\ r.got[1].size \in Nat /\ r.got[1].index + Len(r.got) <= r.got[1].size + 1
      BY <3>1, RunNumbers
    <3> QED
      BY <3>1, <3>2
  <2>2. a = ContinueReceiveMessage(r, hold)
    BY <2>1 DEF ContinueMethod
  <2>3. Settles(r, a)
    BY <1>5, <2>2, ContinueSettles
  <2> HIDE DEF a
  <2>4. b = a /\ c = a
    BY <1>3, <1>4, <2>3 DEF Settles
  <2>5. Goes(a, CloseWhenEmpty(a)) /\ ReceiverOK(CloseWhenEmpty(a))
    BY <2>3, CloseWhenEmptyFits DEF Settles, Goes
  <2> QED
    BY <2>3, <2>4, <2>5 DEF Settles, Goes
<1>6. CASE Executing(r)
  <2>1. r.limit = -1
    BY <1>6 DEF Executing
  <2>2. a = r
    BY <2>1 DEF ContinueMethod
  <2> HIDE DEF a
  <2>3. b = a /\ c = a
    BY <1>3, <1>4, <1>6, <2>2
  <2>4. Goes(r, CloseWhenEmpty(r)) /\ ReceiverOK(CloseWhenEmpty(r))
    BY <1>6, CloseWhenEmptyFits
  <2> QED
    BY <2>2, <2>3, <2>4
<1>7. CASE Waiting(r)
  <2>1. r.limit = -1 /\ r.deserializer = "none"
    BY <1>7 DEF Waiting
  <2>2. a = r
    BY <2>1 DEF ContinueMethod
  <2> DEFINE t == StartReceiveMessage(r)
  <2>3. b = ContinueMethod(t, hold)
    BY <2>1, <2>2 DEF ReceiveMethod
  <2>4. CASE r.stream = <<>>
    <3>1. t = CloseReader(r)
      BY <2>4 DEF StartReceiveMessage
    <3>2. /\ Goes(r, t) /\ t.open = FALSE /\ t.held = FALSE /\ t.stream = <<>> /\ t.got = r.got
          /\ t.limit = r.limit /\ t.deserializer = r.deserializer /\ t.busy = r.busy
      BY <2>4, <3>1, EmptyReaderCloses
    <3> HIDE DEF t
    <3>3. b = t
      BY <2>3, <3>2 DEF ContinueMethod
    <3> HIDE DEF b
    <3>4. c = t
      BY <3>2, <3>3 DEF ReceiveMethod
    <3> HIDE DEF c
    <3>5. d = t
      BY <3>2, <3>4 DEF CloseWhenEmpty
    <3>6. Waiting(t)
      BY <1>7, <3>2 DEF Waiting
    <3>7. ReceiverOK(t)
      BY <3>2, <3>6 DEF ReceiverOK, Goes
    <3> QED
      BY <3>2, <3>5, <3>7
  <2>5. CASE r.stream # <<>>
    <3>1. Goes(r, t) /\ t.open = TRUE /\ t.held = FALSE /\ Collecting(t)
      BY <1>7, <2>5, StartCollects
    <3> HIDE DEF t
    <3>2. t.limit # -1
      <4>1. IsRun(t.got) /\ t.got[1].index = 0 /\ t.limit = t.got[1].size + 1 - Len(t.got)
        BY <3>1 DEF Collecting
      <4>2. Len(t.got) \in Nat /\ t.got[1].size \in Nat /\ t.got[1].index + Len(t.got) <= t.got[1].size + 1
        BY <4>1, RunNumbers
      <4> QED
        BY <4>1, <4>2
    <3>3. b = ContinueReceiveMessage(t, hold)
      BY <2>3, <3>1, <3>2 DEF ContinueMethod
    <3> HIDE DEF b
    <3>4. Settles(t, b)
      BY <3>1, <3>3, ContinueSettles DEF Goes
    <3>5. c = b
      BY <1>3, <1>4, <3>4 DEF Settles
    <3>6. Goes(b, CloseWhenEmpty(b)) /\ ReceiverOK(CloseWhenEmpty(b))
      BY <3>4, CloseWhenEmptyFits DEF Settles, Goes
    <3> QED
      BY <3>1, <3>4, <3>5, <3>6 DEF Settles, Goes
  <2> QED
    BY <2>4, <2>5
<1> QED
  BY <1>5, <1>6, <1>7

-----------------------------------------------------------------------------
(* The wire gets shorter and longer.                                        *)

Sent == [type : {"message", "init", "initResponse"}, pieces : Seq(Pieces)]

\* What is known of the rest of the wire.
LEMMA TailOfWire ==
    ASSUME NEW w, WireOK(w), w # <<>>
    PROVE  /\ WireOK(Tail(w)) /\ Len(Tail(w)) = Len(w) - 1 /\ Len(w) \in Nat /\ Len(w) >= 1
           /\ \A i \in 1 .. Len(w) - 1 : Tail(w)[i] = w[i + 1]
           /\ Tail(w) = <<>> <=> Len(w) = 1
           /\ Head(w) = w[1] /\ w[1] \in Sent
<1> DEFINE t == Tail(w)
<1>1. w \in Seq(Sent)
  BY DEF WireOK, Sent
<1>2. t \in Seq(Sent) /\ Len(t) = Len(w) - 1 /\ \A i \in 1 .. Len(t) : t[i] = w[i + 1]
  BY <1>1, HeadTailProperties
<1>3. Len(w) \in Nat /\ Len(w) >= 1 /\ Head(w) = w[1] /\ w[1] \in Sent
  <2>1. Len(w) \in Nat /\ Len(w) >= 1
    BY <1>1, EmptySeq
  <2>2. 1 \in 1 .. Len(w)
    BY <2>1
  <2> QED
    BY <1>1, <2>1, <2>2, ElementOfSeq
<1> HIDE DEF t
<1>4. t = <<>> <=> Len(w) = 1
  BY <1>2, <1>3, EmptySeq
<1>5. ASSUME NEW i \in 1 .. Len(t), t[i].type # "message"
      PROVE  t[i].pieces = <<>>
  <2>1. i + 1 \in 1 .. Len(w) /\ t[i] = w[i + 1]
    BY <1>2, <1>3
  <2> QED
    BY <1>5, <2>1 DEF WireOK
<1>6. ASSUME NEW i \in 2 .. Len(t)
      PROVE  Follows(PlaceAfter(t[i - 1]), t[i])
  <2>1. i + 1 \in 2 .. Len(w) /\ i \in 1 .. Len(t) /\ i - 1 \in 1 .. Len(t) /\ (i - 1) + 1 = i /\ (i + 1) - 1 = i
    BY <1>2, <1>3
  <2>2. t[i] = w[i + 1] /\ t[i - 1] = w[i]
    BY <1>2, <2>1
  <2> QED
    BY <2>1, <2>2 DEF WireOK
<1>7. WireOK(t)
  BY <1>2, <1>5, <1>6 DEF WireOK, Sent
<1> QED
  BY <1>2, <1>3, <1>4, <1>7 DEF t

\* The receiver takes the first message, and is where that ends.
LEMMA TailLinked ==
    ASSUME NEW s, NEW w, NEW h, NEW r, NEW d, NEW g, Linked(s, w, h, r), w # <<>>,
           d.initialized => ReceivePlace(d) = PlaceAfter(w[1]),
           ControlOK(Tail(w), g),
           g \in {"sender", "senderAnswered"} => ~s.initialized /\ s.serializer = <<>>
    PROVE  Linked(s, Tail(w), g, d)
<1> DEFINE t == Tail(w)
<1>1. WireOK(w)
  BY DEF Linked
<1>2. /\ WireOK(t) /\ Len(t) = Len(w) - 1 /\ Len(w) \in Nat /\ Len(w) >= 1
      /\ \A i \in 1 .. Len(w) - 1 : t[i] = w[i + 1]
      /\ t = <<>> <=> Len(w) = 1
  BY <1>1, TailOfWire
<1> HIDE DEF t
<1>3. ASSUME d.initialized, t # <<>>
      PROVE  Follows(ReceivePlace(d), t[1])
  <2>1. 2 \in 2 .. Len(w) /\ 2 - 1 = 1 /\ 1 \in 1 .. Len(w) - 1 /\ 1 + 1 = 2
    BY <1>2, <1>3
  <2>2. Follows(PlaceAfter(w[1]), w[2])
    BY <1>1, <2>1 DEF WireOK
  <2>3. t[1] = w[2]
    BY <1>2, <2>1
  <2> QED
    BY <1>3, <2>2, <2>3
<1>4. ASSUME d.initialized, t = <<>>
      PROVE  SendPlace(s) = ReceivePlace(d)
  BY <1>2, <1>4 DEF Linked
<1>5. ASSUME t # <<>>
      PROVE  SendPlace(s) = PlaceAfter(t[Len(t)])
  <2>1. Len(w) - 1 \in 1 .. Len(w) - 1 /\ (Len(w) - 1) + 1 = Len(w)
    BY <1>2, <1>5
  <2>2. t[Len(t)] = w[Len(w)]
    BY <1>2, <2>1
  <2> QED
    BY <2>2 DEF Linked
<1>6. Linked(s, t, g, d)
  BY <1>2, <1>3, <1>4, <1>5 DEF Linked, t
<1> QED
  BY <1>6 DEF t

\* The handshake messages that are left.
LEMMA TailControl ==
    ASSUME NEW w, NEW h, WireOK(w), ControlOK(w, h), w # <<>>
    PROVE  /\ w[1].type = "message" => ControlOK(Tail(w), h)
           /\ w[1].type # "message" => \A g : ControlOK(Tail(w), g)
<1> DEFINE t == Tail(w)
<1>1. /\ Len(t) = Len(w) - 1 /\ Len(w) \in Nat /\ Len(w) >= 1
      /\ \A i \in 1 .. Len(w) - 1 : t[i] = w[i + 1]
  BY TailOfWire
<1> HIDE DEF t
<1>2. \A i \in 1 .. Len(t) : i + 1 \in 1 .. Len(w) /\ t[i] = w[i + 1]
  BY <1>1
<1>3. \A i, j \in 1 .. Len(t) : t[i].type # "message" /\ t[j].type # "message" => i = j
  <2> SUFFICES ASSUME NEW i \in 1 .. Len(t), NEW j \in 1 .. Len(t), t[i].type # "message", t[j].type # "message"
               PROVE  i = j
    OBVIOUS
  <2>1. i + 1 = j + 1
    BY <1>2 DEF ControlOK
  <2> QED
    BY <2>1
<1>4. ControlOK(t, h)
  BY <1>2, <1>3 DEF ControlOK
<1>5. ASSUME w[1].type # "message"
      PROVE  \A i \in 1 .. Len(t) : t[i].type = "message"
  <2> SUFFICES ASSUME NEW i \in 1 .. Len(t), t[i].type # "message"
               PROVE  FALSE
    OBVIOUS
  <2>1. 1 \in 1 .. Len(w) /\ i + 1 # 1
    BY <1>1
  <2> QED
    BY <1>2, <1>5, <2>1 DEF ControlOK
<1>6. ASSUME w[1].type # "message", NEW g
      PROVE  ControlOK(t, g)
  BY <1>3, <1>5, <1>6 DEF ControlOK
<1> QED
  BY <1>4, <1>6 DEF t

\* A message y is put on the wire w, and leaves the sender where it ends.
LEMMA AppendLinked ==
    ASSUME NEW s, NEW w, NEW h, NEW r, NEW y \in Sent, WireOK(w),
           y.type # "message" => y.pieces = <<>>,
           w # <<>> => Follows(PlaceAfter(w[Len(w)]), y),
           r.initialized /\ w # <<>> => Follows(ReceivePlace(r), w[1]),
           r.initialized /\ w = <<>> => Follows(ReceivePlace(r), y),
           SenderOK(s), SendPlace(s) = PlaceAfter(y), ControlOK(Append(w, y), h),
           h \in {"sender", "senderAnswered"} => ~s.initialized /\ s.serializer = <<>>
    PROVE  Linked(s, Append(w, y), h, r)
<1> DEFINE t == Append(w, y)
<1>1. w \in Seq(Sent)
  BY DEF WireOK, Sent
<1>2. /\ t \in Seq(Sent) /\ t # <<>> /\ Len(t) = Len(w) + 1 /\ Len(w) \in Nat
      /\ \A i \in 1 .. Len(w) : t[i] = w[i]
      /\ t[Len(w) + 1] = y
  BY <1>1, AppendProperties
<1> HIDE DEF t
<1>3. ASSUME NEW i \in 1 .. Len(t), t[i].type # "message"
      PROVE  t[i].pieces = <<>>
  <2>1. i \in 1 .. Len(w) \/ i = Len(w) + 1
    BY <1>2
  <2> QED
    BY <1>2, <1>3, <2>1 DEF WireOK
<1>4. ASSUME NEW i \in 2 .. Len(t)
      PROVE  Follows(PlaceAfter(t[i - 1]), t[i])
  <2>1. CASE i \in 2 .. Len(w)
    <3>1. i - 1 \in 1 .. Len(w) /\ i \in 1 .. Len(w)
      BY <1>2, <2>1
    <3> QED
      BY <1>2, <2>1, <3>1 DEF WireOK
  <2>2. CASE i = Len(w) + 1
    <3>1. i - 1 = Len(w) /\ Len(w) \in 1 .. Len(w)
      BY <1>2, <2>2
    <3>2. w # <<>>
      BY <3>1
    <3> QED
      BY <1>2, <2>2, <3>1, <3>2
  <2> QED
    BY <1>2, <2>1, <2>2
<1>5. WireOK(t)
  BY <1>2, <1>3, <1>4 DEF WireOK, Sent
<1>6. ASSUME r.initialized
      PROVE  Follows(ReceivePlace(r), t[1])
  <2>1. CASE w = <<>>
    <3>1. Len(w) + 1 = 1
      BY <2>1
    <3> QED
      BY <1>2, <1>6, <2>1, <3>1
  <2>2. CASE w # <<>>
    <3>1. 1 \in 1 .. Len(w)
      BY <1>1, <2>2, EmptySeq
    <3> QED
      BY <1>2, <1>6, <2>2, <3>1
  <2> QED
    BY <2>1, <2>2
<1>7. Linked(s, t, h, r)
  BY <1>2, <1>5, <1>6 DEF Linked, t
<1> QED
  BY <1>7 DEF t

\* The handshake messages on a wire on which y is put.
LEMMA AppendControl ==
    ASSUME NEW w, NEW y \in Sent, WireOK(w), NEW h
    PROVE  /\ y.type = "message" /\ ControlOK(w, h) => ControlOK(Append(w, y), h)
           /\ (\A i \in 1 .. Len(w) : w[i].type = "message")
              /\ (y.type = "init" => h = "sender") /\ (y.type = "initResponse" => h = "receiverAnswered")
              => ControlOK(Append(w, y), h)
<1> DEFINE t == Append(w, y)
<1>1. w \in Seq(Sent)
  BY DEF WireOK, Sent
<1>2. /\ Len(t) = Len(w) + 1 /\ Len(w) \in Nat
      /\ \A i \in 1 .. Len(w) : t[i] = w[i]
      /\ t[Len(w) + 1] = y
  BY <1>1, AppendProperties
<1> HIDE DEF t
<1>3. \A i \in 1 .. Len(t) : (i \in 1 .. Len(w) /\ t[i] = w[i]) \/ (i = Len(w) + 1 /\ t[i] = y)
  BY <1>2
<1>4. y.type = "message" /\ ControlOK(w, h) => ControlOK(t, h)
  BY <1>3 DEF ControlOK
<1>5. (\A i \in 1 .. Len(w) : w[i].type = "message")
      /\ (y.type = "init" => h = "sender") /\ (y.type = "initResponse" => h = "receiverAnswered")
      => ControlOK(t, h)
  BY <1>3 DEF ControlOK
<1> QED
  BY <1>4, <1>5 DEF t

LEMMA HandshakesAreSent ==
    ASSUME NEW type \in {"init", "initResponse"}
    PROVE  /\ Control(type) \in Sent /\ Control(type).type = type /\ Control(type).pieces = <<>>
           /\ PlaceAfter(Control(type)) = Between /\ \A p : Follows(p, Control(type))
<1>1. Control(type) \in Sent /\ Control(type).type = type /\ Control(type).pieces = <<>>
  BY DEF Control, Sent
<1> QED
  BY <1>1 DEF PlaceAfter, Follows

-----------------------------------------------------------------------------
(* The actions of the receiver.                                             *)

LEMMA Unpacked ==
    ASSUME EchoInv, Running
    PROVE  /\ ReceiverOK(rcv) /\ Reading(rcv) /\ ReceiverType(rcv)
           /\ Linked(snd, wire, handshake, rcv) /\ QueuedAnew(snd, onGranted)
           /\ SenderOK(snd) /\ SenderType(snd) /\ WireOK(wire) /\ ControlOK(wire, handshake)
           /\ methods \in Nat /\ starts \in Nat /\ onGranted \subseteq Proxies
BY DEF EchoInv, ReceiverOK, Reading, Linked, SenderOK

\* A step of the receiver that leaves it at its place.
LEMMA GoesKeepsInv ==
    ASSUME EchoInv, Running, Goes(rcv, rcv'), ReceiverOK(rcv'), crashed' = "no",
           UNCHANGED <<snd, onGranted, wire, handshake, methods, starts>>
    PROVE  EchoInv' /\ crashed' = "no"
<1>1. /\ Linked(snd, wire, handshake, rcv) /\ QueuedAnew(snd, onGranted)
      /\ methods \in Nat /\ starts \in Nat /\ onGranted \subseteq Proxies
  BY Unpacked
<1>2. rcv'.initialized = rcv.initialized /\ ReceivePlace(rcv') = ReceivePlace(rcv)
  BY DEF Goes
<1>3. Linked(snd, wire, handshake, rcv')
  BY <1>1, <1>2 DEF Linked
<1> QED
  BY <1>1, <1>3 DEF EchoInv

LEMMA ReaderReleasedKeepsInv ==
    ASSUME EchoInv, NEW hold \in BOOLEAN, NEW n \in 0 .. MaxPieces, ReaderReleased(n, hold)
    PROVE  EchoInv' /\ crashed' = "no"
<1>1. /\ Running /\ rcv.held /\ n <= Least(rcv.limit, Len(rcv.stream))
      /\ UNCHANGED <<snd, onGranted, wire, handshake, methods, starts>>
  BY DEF ReaderReleased
<1>2. ReceiverOK(rcv) /\ Reading(rcv) /\ ReceiverType(rcv)
  BY <1>1, Unpacked
<1>3. Collecting(rcv) /\ rcv.open
  BY <1>1, <1>2 DEF ReceiverOK, Reading, Waiting, Executing
<1> DEFINE t == [rcv EXCEPT !.held = FALSE]
<1>4. /\ ReceiverType(t) /\ t.stream = rcv.stream /\ t.left = rcv.left /\ t.got = rcv.got /\ t.limit = rcv.limit
      /\ t.buffer = rcv.buffer /\ t.open = rcv.open /\ t.held = FALSE /\ t.crashed = rcv.crashed
      /\ t.deserializer = rcv.deserializer /\ t.busy = rcv.busy /\ t.initialized = rcv.initialized
  BY <1>2 DEF ReceiverType
<1>5. n \in Nat /\ n <= Len(t.stream)
  <2>1. n \in Nat /\ rcv.limit \in Int /\ Len(rcv.stream) \in Nat
    BY <1>2, EchoAssumption DEF ReceiverType
  <2> QED
    BY <1>1, <1>4, <2>1 DEF Least
<1> DEFINE x == LimitedReaderDone([Extracted(t, n) EXCEPT !.limit = @ - n])
<1>6. DataReceived(x, hold)
  BY <1>3 DEF ReaderReleased
<1> HIDE DEF t
<1>7. Goes(rcv, t) /\ Collecting(t)
  BY <1>2, <1>3, <1>4 DEF Goes, Reading, Collecting, ReceivePlace
<1>8. Read(t, n, x)
  BY <1>3, <1>4, <1>5, <1>7, DeserializerReads DEF Goes
<1> HIDE DEF x
<1>9. Goes(x, rcv') /\ ReceiverOK(rcv') /\ crashed' = "no"
  BY <1>6, <1>8, DataReceivedGoes DEF Read, Goes
<1>10. Goes(rcv, rcv')
  BY <1>7, <1>8, <1>9 DEF Read, Goes
<1> QED
  BY <1>1, <1>9, <1>10, GoesKeepsInv

LEMMA MethodDoneKeepsInv ==
    ASSUME EchoInv, NEW hold \in BOOLEAN, MethodDone(hold)
    PROVE  EchoInv' /\ crashed' = "no"
<1>1. /\ Running /\ rcv.busy > 0 /\ UNCHANGED <<snd, onGranted, wire, handshake, methods, starts>>
  BY DEF MethodDone
<1>2. ReceiverOK(rcv) /\ Reading(rcv) /\ ReceiverType(rcv)
  BY <1>1, Unpacked
<1>3. Executing(rcv)
  <2>1. rcv.busy # 0
    BY <1>1, <1>2 DEF ReceiverType
  <2> QED
    BY <1>2, <2>1 DEF ReceiverOK, Waiting, Collecting
<1> DEFINE r == [rcv EXCEPT !.busy = @ - 1, !.deserializer = "none"]
<1>4. rcv.busy - 1 = 0
  BY <1>3 DEF Executing
<1>5. /\ ReceiverType(r) /\ r.stream = rcv.stream /\ r.left = rcv.left /\ r.got = rcv.got /\ r.limit = rcv.limit
      /\ r.buffer = rcv.buffer /\ r.open = rcv.open /\ r.held = rcv.held /\ r.crashed = rcv.crashed
      /\ r.deserializer = "none" /\ r.busy = 0 /\ r.initialized = rcv.initialized
  <2>1. r = [rcv EXCEPT !.busy = 0, !.deserializer = "none"]
    BY <1>4
  <2> HIDE DEF r
  <2> QED
    BY <1>2, <2>1 DEF ReceiverType
<1>6. IF r.open THEN DataReceived(r, hold) ELSE Received(r)
  BY DEF MethodDone
<1> HIDE DEF r
<1>7. Goes(rcv, r) /\ Waiting(r)
  BY <1>2, <1>3, <1>5 DEF Goes, Reading, Waiting, Executing, ReceivePlace
<1>8. Goes(r, rcv') /\ ReceiverOK(rcv') /\ crashed' = "no"
  <2>1. CASE r.open
    BY <1>6, <1>7, <2>1, DataReceivedGoes DEF Goes, Waiting
  <2>2. CASE ~r.open
    <3>1. rcv' = r /\ crashed' = "no"
      BY <1>2, <1>5, <1>6, <2>2 DEF Received, Reading, ReceiverType
    <3> QED
      BY <1>7, <2>2, <3>1 DEF Goes, ReceiverOK
  <2> QED
    BY <2>1, <2>2
<1>9. Goes(rcv, rcv')
  BY <1>7, <1>8 DEF Goes
<1> QED
  BY <1>1, <1>8, <1>9, GoesKeepsInv

LEMMA ReceivedMessageKeepsInv ==
    ASSUME EchoInv, NEW hold \in BOOLEAN, ReceivedMessage(hold)
    PROVE  EchoInv' /\ crashed' = "no"
<1>1. /\ Running /\ wire # <<>> /\ Head(wire).type = "message" /\ ~rcv.open /\ ~rcv.held
      /\ wire' = Tail(wire) /\ UNCHANGED <<snd, onGranted, handshake, methods, starts>>
  BY DEF ReceivedMessage
<1>2. /\ ReceiverOK(rcv) /\ Reading(rcv) /\ ReceiverType(rcv)
      /\ Linked(snd, wire, handshake, rcv) /\ QueuedAnew(snd, onGranted)
      /\ WireOK(wire) /\ ControlOK(wire, handshake)
      /\ methods \in Nat /\ starts \in Nat /\ onGranted \subseteq Proxies
  BY <1>1, Unpacked
<1> DEFINE y == wire[1]
<1>3. Head(wire) = y /\ y \in Sent /\ y.type = "message" /\ y.pieces \in Seq(Pieces)
  BY <1>1, <1>2, TailOfWire DEF Sent
<1>4. ControlOK(wire', handshake)
  BY <1>1, <1>2, <1>3, TailControl
<1>5. SUFFICES ReceiverOK(rcv') /\ crashed' = "no" /\ (rcv'.initialized => ReceivePlace(rcv') = PlaceAfter(y))
  <2> SUFFICES ASSUME ReceiverOK(rcv'), crashed' = "no", rcv'.initialized => ReceivePlace(rcv') = PlaceAfter(y)
               PROVE  EchoInv'
    OBVIOUS
  <2>1. handshake \in {"sender", "senderAnswered"} => ~snd.initialized /\ snd.serializer = <<>>
    BY <1>2 DEF Linked
  <2> DEFINE d == rcv'
  <2>2. d.initialized => ReceivePlace(d) = PlaceAfter(wire[1])
    OBVIOUS
  <2> HIDE DEF d
  <2>3. ControlOK(Tail(wire), handshake)
    BY <1>1, <1>4
  <2>4. Linked(snd, Tail(wire), handshake, d)
    BY <1>1, <1>2, <2>1, <2>2, <2>3, TailLinked
  <2>5. Linked(snd, wire', handshake, rcv')
    BY <1>1, <2>4 DEF d
  <2> QED
    BY <1>1, <1>2, <2>5 DEF EchoInv
<1>6. CASE ~rcv.initialized
  <2>1. rcv' = rcv /\ crashed' = crashed
    BY <1>6 DEF ReceivedMessage
  <2> QED
    BY <1>1, <1>2, <1>6, <2>1 DEF Running
<1>7. CASE rcv.initialized
  <2> DEFINE s == rcv.buffer \o y.pieces
             r == [rcv EXCEPT !.open = TRUE, !.stream = s, !.left = Len(y.pieces), !.buffer = <<>>]
  <2>1. DataReceived(r, hold)
    BY <1>3, <1>7 DEF ReceivedMessage
  <2>2. rcv.stream = <<>> /\ rcv.buffer = <<>> /\ rcv.crashed = "no" /\ rcv.held = FALSE /\ rcv.initialized = TRUE
    BY <1>1, <1>2, <1>7 DEF Reading, ReceiverType
  <2>3. s = y.pieces
    BY <1>3, <2>2
  <2> HIDE DEF s
  <2>4. /\ ReceiverType(r) /\ r.stream = y.pieces /\ r.left = Len(y.pieces) /\ r.got = rcv.got /\ r.limit = rcv.limit
        /\ r.buffer = <<>> /\ r.open = TRUE /\ r.held = FALSE /\ r.crashed = "no"
        /\ r.deserializer = rcv.deserializer /\ r.busy = rcv.busy /\ r.initialized = TRUE
    <3>1. <<>> \in Seq(Pieces) /\ Len(y.pieces) \in Nat
      BY <1>3
    <3> DEFINE l == Len(y.pieces)
               p == y.pieces
    <3>2. l \in Nat /\ p \in Seq(Pieces) /\ s = p
      BY <1>3, <2>3, <3>1
    <3> HIDE DEF l, p
    <3> QED
      BY <1>2, <2>2, <3>1, <3>2 DEF ReceiverType, l, p
  <2> HIDE DEF r
  <2>5. Reading(r)
    BY <2>4 DEF Reading
  <2>6. Follows(ReceivePlace(rcv), y)
    BY <1>1, <1>2, <1>7 DEF Linked
  <2>7. y.pieces = <<>> => ReceivePlace(rcv) = Between
    BY <1>3, <2>6 DEF Follows
  <2>8. y.pieces # <<>> => IsRun(y.pieces) /\ BeginOf(y.pieces) = ReceivePlace(rcv)
    BY <1>3, <2>6 DEF Follows
  <2>9. (Waiting(r) \/ Executing(r) \/ Collecting(r)) /\ ReceivePlace(r) = PlaceAfter(y)
    <3>1. CASE Collecting(rcv)
      <4>1. ReceivePlace(rcv) = EndOf(rcv.got) /\ IsRun(rcv.got) /\ rcv.limit > 0
        BY <1>1, <1>2, <2>2, <3>1 DEF ReceivePlace, Collecting, ReceiverOK, Waiting, Executing
      <4>2. rcv.got[1].index = 0 /\ rcv.limit = rcv.got[1].size + 1 - Len(rcv.got)
        BY <3>1 DEF Collecting
      <4>3. rcv.got[1].size \in Nat /\ Len(rcv.got) \in Nat
        BY <4>1, RunNumbers
      <4>4. rcv.got[1].index + Len(rcv.got) # rcv.got[1].size + 1
        BY <4>1, <4>2, <4>3
      <4>5. EndOf(rcv.got) # Between
        BY <4>1, <4>4, RunEnds
      <4>6. y.pieces # <<>> /\ Continues(rcv.got, y.pieces)
        BY <2>7, <2>8, <4>1, <4>5, RunsMeet
      <4> QED
        BY <2>4, <3>1, <4>6 DEF Collecting, ReceivePlace, PlaceAfter
    <3>2. CASE Waiting(rcv) \/ Executing(rcv)
      <4>1. ReceivePlace(rcv) = Between
        BY <2>2, <3>2 DEF ReceivePlace, Waiting, Executing
      <4>2. y.pieces # <<>> => IsRun(y.pieces) /\ y.pieces[1].index = 0
        BY <2>8, <4>1, RunEnds
      <4>3. ReceivePlace(r) = PlaceAfter(y)
        BY <2>4, <3>2 DEF ReceivePlace, PlaceAfter, Waiting, Executing
      <4> QED
        BY <2>4, <3>2, <4>2, <4>3 DEF Waiting, Executing
    <3> QED
      BY <1>2, <3>1, <3>2 DEF ReceiverOK
  <2>10. Goes(r, rcv') /\ ReceiverOK(rcv') /\ crashed' = "no"
    BY <2>1, <2>4, <2>5, <2>9, DataReceivedGoes
  <2> QED
    BY <2>9, <2>10 DEF Goes
<1> QED
  BY <1>6, <1>7

\* A handshake message reaches the receiver.
LEMMA ReceiverStartsOver ==
    ASSUME EchoInv, Running, wire # <<>>, Head(wire).type # "message", ~rcv.open, ~rcv.held, rcv.busy = 0,
           wire' = Tail(wire), rcv' = ReceiverInitialized(rcv), NEW h, handshake' = h,
           h \in {"senderAnswered", "none"},
           h = "senderAnswered" => ~snd.initialized /\ snd.serializer = <<>>,
           UNCHANGED <<snd, onGranted, crashed, methods, starts>>
    PROVE  EchoInv'
<1>1. /\ ReceiverOK(rcv) /\ Reading(rcv) /\ ReceiverType(rcv)
      /\ Linked(snd, wire, handshake, rcv) /\ QueuedAnew(snd, onGranted)
      /\ WireOK(wire) /\ ControlOK(wire, handshake)
      /\ methods \in Nat /\ starts \in Nat /\ onGranted \subseteq Proxies
  BY Unpacked
<1> DEFINE d == [rcv EXCEPT !.initialized = TRUE, !.limit = -1, !.deserializer = "none"]
<1>2. rcv' = d
  BY DEF ReceiverInitialized, CloseReader
<1>3. /\ ReceiverType(d) /\ d.stream = rcv.stream /\ d.left = rcv.left /\ d.limit = -1
      /\ d.buffer = rcv.buffer /\ d.open = rcv.open /\ d.held = rcv.held /\ d.crashed = rcv.crashed
      /\ d.deserializer = "none" /\ d.busy = rcv.busy /\ d.initialized = TRUE
  <2>1. -1 \in Int
    OBVIOUS
  <2> QED
    BY <1>1, <2>1 DEF ReceiverType
<1> HIDE DEF d
<1>4. rcv.stream = <<>>
  BY <1>1 DEF Reading
<1>5. ReceiverOK(d) /\ ReceivePlace(d) = Between
  BY <1>1, <1>3, <1>4 DEF ReceiverOK, Reading, Waiting, ReceivePlace
<1>6. /\ wire[1].type # "message" /\ wire[1].pieces = <<>>
  <2>1. Head(wire) = wire[1] /\ 1 \in 1 .. Len(wire)
    BY <1>1, TailOfWire
  <2> QED
    BY <1>1, <2>1 DEF WireOK
<1>7. PlaceAfter(wire[1]) = Between
  BY <1>6 DEF PlaceAfter
<1>8. ControlOK(Tail(wire), h)
  BY <1>1, <1>6, TailControl
<1>9. Linked(snd, Tail(wire), h, d)
  BY <1>1, <1>3, <1>5, <1>7, <1>8, TailLinked
<1>10. Linked(snd', wire', handshake', rcv') /\ QueuedAnew(snd', onGranted')
  BY <1>1, <1>2, <1>9
<1> QED
  BY <1>1, <1>2, <1>5, <1>10 DEF EchoInv, Running

LEMMA InitReachesReceiverKeepsInv ==
    ASSUME EchoInv, ~LateDone, InitReachesReceiver
    PROVE  EchoInv'
<1>1. /\ Running /\ wire # <<>> /\ Head(wire).type = "init" /\ ~rcv.open /\ ~rcv.held /\ rcv.busy = 0
      /\ wire' = Tail(wire) /\ rcv' = ReceiverInitialized(rcv) /\ handshake' = "senderAnswered"
      /\ UNCHANGED <<snd, onGranted, crashed, methods, starts>>
  BY DEF InitReachesReceiver
<1>2. Linked(snd, wire, handshake, rcv) /\ WireOK(wire) /\ ControlOK(wire, handshake)
  BY <1>1, Unpacked
<1>3. handshake = "sender"
  <2>1. 1 \in 1 .. Len(wire) /\ Head(wire) = wire[1]
    BY <1>1, <1>2, TailOfWire
  <2> QED
    BY <1>1, <1>2, <2>1 DEF ControlOK
<1>4. ~snd.initialized /\ snd.serializer = <<>>
  BY <1>2, <1>3 DEF Linked
<1> QED
  BY <1>1, <1>4, ReceiverStartsOver

LEMMA InitResponseReachesReceiverKeepsInv ==
    ASSUME EchoInv, ~LateDone, InitResponseReachesReceiver
    PROVE  EchoInv'
<1>1. /\ Running /\ wire # <<>> /\ Head(wire).type = "initResponse" /\ ~rcv.open /\ ~rcv.held /\ rcv.busy = 0
      /\ wire' = Tail(wire) /\ rcv' = ReceiverInitialized(rcv) /\ handshake' = "none"
      /\ UNCHANGED <<snd, onGranted, crashed, methods, starts>>
  BY DEF InitResponseReachesReceiver
<1> QED
  BY <1>1, ReceiverStartsOver

\* The receiver starts over and does not take messages for now.
LEMMA ReceiverLeaves ==
    ASSUME EchoInv, StartsOver, NEW d, rcv' = d, ReceiverOK(d), d.initialized = FALSE, handshake' = "receiver",
           UNCHANGED <<snd, onGranted, wire, crashed, methods>>
    PROVE  EchoInv'
<1>1. Running /\ handshake = "none" /\ starts' = starts + 1
  BY DEF StartsOver
<1>2. /\ Linked(snd, wire, handshake, rcv) /\ QueuedAnew(snd, onGranted) /\ WireOK(wire)
      /\ methods \in Nat /\ starts \in Nat /\ onGranted \subseteq Proxies /\ ControlOK(wire, handshake)
  BY <1>1, Unpacked
<1>3. ControlOK(wire, "receiver")
  BY <1>1, <1>2 DEF ControlOK
<1>4. Linked(snd, wire, "receiver", d)
  BY <1>2, <1>3 DEF Linked
<1>5. starts' \in Nat /\ Linked(snd', wire', handshake', rcv') /\ QueuedAnew(snd', onGranted')
  BY <1>1, <1>2, <1>4
<1> QED
  BY <1>1, <1>2, <1>5 DEF EchoInv, Running

LEMMA ReceiverRestartsKeepsInv ==
    ASSUME EchoInv, ReceiverRestarts
    PROVE  EchoInv'
<1>1. ReceiverType(rcv)
  BY DEF EchoInv, ReceiverOK, Reading
<1> DEFINE d == [FreshReceiver EXCEPT !.executed = rcv.executed]
<1>2. StartsOver /\ rcv' = d /\ handshake' = "receiver" /\ UNCHANGED <<snd, onGranted, wire, crashed, methods>>
  BY DEF ReceiverRestarts
<1>3. /\ ReceiverType(d) /\ d.stream = <<>> /\ d.left = 0 /\ d.limit = -1
      /\ d.buffer = <<>> /\ d.open = FALSE /\ d.held = FALSE /\ d.crashed = "no"
      /\ d.deserializer = "none" /\ d.busy = 0 /\ d.initialized = FALSE
  <2> DEFINE x == rcv.executed
  <2>1. x \in Nat /\ 0 \in Nat /\ -1 \in Int /\ <<>> \in Seq(Pieces)
    BY <1>1 DEF ReceiverType
  <2> HIDE DEF x
  <2>2. /\ ReceiverType(FreshReceiver) /\ FreshReceiver.stream = <<>> /\ FreshReceiver.left = 0
        /\ FreshReceiver.limit = -1 /\ FreshReceiver.buffer = <<>> /\ FreshReceiver.open = FALSE
        /\ FreshReceiver.held = FALSE /\ FreshReceiver.crashed = "no" /\ FreshReceiver.deserializer = "none"
        /\ FreshReceiver.busy = 0 /\ FreshReceiver.initialized = FALSE
    BY <2>1 DEF FreshReceiver, ReceiverType
  <2>3. d = [FreshReceiver EXCEPT !.executed = x]
    BY DEF x
  <2> HIDE DEF d
  <2> QED
    BY <2>1, <2>2, <2>3 DEF ReceiverType
<1> HIDE DEF d
<1>4. ReceiverOK(d)
  BY <1>3 DEF ReceiverOK, Reading, Waiting
<1> QED
  BY <1>2, <1>3, <1>4, ReceiverLeaves

LEMMA ReceiverResetsKeepsInv ==
    ASSUME EchoInv, ~ResetsWhenBusy, ReceiverResets
    PROVE  EchoInv'
<1>1. ReceiverType(rcv) /\ ReceiverOK(rcv) /\ ~rcv.open
  BY DEF EchoInv, ReceiverOK, Reading, ReceiverResets
<1> DEFINE d == [rcv EXCEPT !.initialized = FALSE]
<1>2. StartsOver /\ rcv' = d /\ handshake' = "receiver" /\ UNCHANGED <<snd, onGranted, wire, crashed, methods>>
  BY <1>1 DEF ReceiverResets, CloseReader
<1>3. /\ ReceiverType(d) /\ d.stream = rcv.stream /\ d.left = rcv.left /\ d.limit = rcv.limit /\ d.got = rcv.got
      /\ d.buffer = rcv.buffer /\ d.open = rcv.open /\ d.held = rcv.held /\ d.crashed = rcv.crashed
      /\ d.deserializer = rcv.deserializer /\ d.busy = rcv.busy /\ d.initialized = FALSE
  BY <1>1 DEF ReceiverType
<1> HIDE DEF d
<1>4. ReceiverOK(d)
  BY <1>1, <1>3 DEF ReceiverOK, Reading, Waiting, Executing, Collecting
<1> QED
  BY <1>2, <1>3, <1>4, ReceiverLeaves

-----------------------------------------------------------------------------
(* The send side.                                                           *)

LEMMA RequestSendStreamFits ==
    ASSUME NEW s, SenderOK(s), s.sending # NoProxy \/ s.skip
    PROVE  LET d == RequestSendStream(s)
           IN  /\ SenderOK(d) /\ d.requesters = s.requesters /\ d.sending = s.sending
               /\ d.serializer = s.serializer /\ d.partlySent = s.partlySent /\ d.skip = s.skip
               /\ d.initialized = s.initialized
<1>1. SenderType(s)
  BY DEF SenderOK
<1>2. CASE s.initialized
  <2> DEFINE d == [s EXCEPT !.sesame = TRUE]
  <2>1. RequestSendStream(s) = d
    BY <1>2 DEF RequestSendStream
  <2>2. /\ SenderType(d) /\ d.requesters = s.requesters /\ d.sending = s.sending
        /\ d.serializer = s.serializer /\ d.partlySent = s.partlySent /\ d.skip = s.skip
        /\ d.initialized = s.initialized /\ d.requested = s.requested
    BY <1>1 DEF SenderType
  <2> HIDE DEF d
  <2>3. SenderOK(d)
    BY <2>2 DEF SenderOK
  <2> QED
    BY <2>1, <2>2, <2>3
<1>3. CASE ~s.initialized
  <2> DEFINE d == [s EXCEPT !.requested = TRUE]
  <2>1. RequestSendStream(s) = d
    BY <1>3 DEF RequestSendStream
  <2>2. /\ SenderType(d) /\ d.requesters = s.requesters /\ d.sending = s.sending
        /\ d.serializer = s.serializer /\ d.partlySent = s.partlySent /\ d.skip = s.skip
        /\ d.initialized = s.initialized
    BY <1>1 DEF SenderType
  <2> HIDE DEF d
  <2>3. SenderOK(d)
    BY <1>3, <2>2 DEF SenderOK
  <2> QED
    BY <2>1, <2>2, <2>3
<1> QED
  BY <1>2, <1>3

\* What TryGrantSend makes of s: it takes the first of the queue when no proxy is
\* sending, and no proxy out of both.
Granted(s, d) ==
    /\ SenderOK(d) /\ d.serializer = s.serializer /\ d.partlySent = s.partlySent /\ d.skip = s.skip
    /\ d.initialized = s.initialized
    /\ s.sending # NoProxy => d.requesters = s.requesters /\ d.sending = s.sending
    /\ \A p \in Proxies : IsQueued(s, p) \/ s.sending = p => IsQueued(d, p) \/ d.sending = p

LEMMA TryGrantSendFits ==
    ASSUME NEW s, SenderOK(s)
    PROVE  Granted(s, TryGrantSend(s))
<1>1. SenderType(s) /\ s.requesters \in Seq(Proxies)
  BY DEF SenderOK, SenderType
<1>2. CASE ~(~s.skip /\ s.sending = NoProxy /\ s.requesters # <<>>)
  <2>1. TryGrantSend(s) = s
    BY <1>2 DEF TryGrantSend
  <2> QED
    BY <2>1 DEF Granted
<1>3. CASE ~s.skip /\ s.sending = NoProxy /\ s.requesters # <<>>
  <2> DEFINE q == s.requesters
             first == Head(q)
             rest == Tail(q)
             x == [s EXCEPT !.sending = first, !.requesters = rest]
             d == RequestSendStream(x)
  <2>1. TryGrantSend(s) = d
    BY <1>3 DEF TryGrantSend
  <2>2. /\ first \in Proxies /\ rest \in Seq(Proxies) /\ Len(rest) = Len(q) - 1
        /\ \A i \in 1 .. Len(rest) : rest[i] = q[i + 1]
    BY <1>1, <1>3, HeadTailProperties
  <2>3. Len(q) \in Nat /\ first = q[1] /\ first # NoProxy
    BY <1>1, <2>2, EchoAssumption
  <2> HIDE DEF first, rest
  <2>4. /\ SenderType(x) /\ x.requesters = rest /\ x.sending = first
        /\ x.serializer = s.serializer /\ x.partlySent = s.partlySent /\ x.skip = s.skip
        /\ x.initialized = s.initialized /\ x.requested = s.requested
    BY <1>1, <2>2 DEF SenderType
  <2> HIDE DEF x
  <2>5. SenderOK(x)
    BY <2>3, <2>4 DEF SenderOK
  <2>6. /\ SenderOK(d) /\ d.requesters = x.requesters /\ d.sending = x.sending
        /\ d.serializer = x.serializer /\ d.partlySent = x.partlySent /\ d.skip = x.skip
        /\ d.initialized = x.initialized
    BY <2>3, <2>4, <2>5, RequestSendStreamFits
  <2> HIDE DEF d
  <2>7. ASSUME NEW p \in Proxies, IsQueued(s, p) \/ s.sending = p
        PROVE  IsQueued(d, p) \/ d.sending = p
    <3>1. PICK i \in 1 .. Len(q) : q[i] = p
      BY <1>3, <2>7, EchoAssumption DEF IsQueued
    <3>2. CASE i = 1
      BY <2>3, <2>4, <2>6, <3>1, <3>2
    <3>3. CASE i # 1
      <4>1. i - 1 \in 1 .. Len(rest) /\ (i - 1) + 1 = i
        BY <2>2, <2>3, <3>3
      <4>2. rest[i - 1] = p
        BY <2>2, <3>1, <4>1
      <4> QED
        BY <2>4, <2>6, <4>1, <4>2 DEF IsQueued
    <3> QED
      BY <3>2, <3>3
  <2>8. Granted(s, d)
    BY <1>3, <2>4, <2>6, <2>7 DEF Granted
  <2> QED
    BY <2>1, <2>8
<1> QED
  BY <1>2, <1>3

\* A step of the sender that sends nothing.
LEMMA SenderStays ==
    ASSUME EchoInv, Running, SenderOK(snd'), snd'.serializer = snd.serializer, snd'.initialized = snd.initialized,
           QueuedAnew(snd', onGranted'), onGranted' \subseteq Proxies, crashed' = "no",
           UNCHANGED <<wire, handshake, rcv, methods, starts>>
    PROVE  EchoInv'
<1>1. /\ Linked(snd, wire, handshake, rcv) /\ ReceiverOK(rcv) /\ methods \in Nat /\ starts \in Nat
  BY Unpacked
<1>2. SendPlace(snd') = SendPlace(snd)
  BY DEF SendPlace
<1>3. Linked(snd', wire, handshake, rcv)
  BY <1>1, <1>2 DEF Linked
<1> QED
  BY <1>1, <1>3 DEF EchoInv

LEMMA GrantedQueued ==
    ASSUME NEW s, NEW d, NEW waiting, SenderOK(s), Granted(s, d), QueuedAnew(s, waiting)
    PROVE  QueuedAnew(d, waiting)
<1>1. s.serializer # <<>> => s.sending # NoProxy
  BY DEF SenderOK
<1> QED
  BY <1>1 DEF Granted, QueuedAnew, IsQueued

\* The sender with one more proxy in the queue.
LEMMA QueueGrows ==
    ASSUME NEW s, SenderOK(s), NEW p \in Proxies
    PROVE  LET x == [s EXCEPT !.requesters = Append(@, p)]
           IN  /\ SenderOK(x) /\ x.sending = s.sending /\ x.serializer = s.serializer /\ x.partlySent = s.partlySent
               /\ x.skip = s.skip /\ x.initialized = s.initialized
               /\ IsQueued(x, p) /\ \A q : IsQueued(s, q) => IsQueued(x, q)
<1> DEFINE w == Append(s.requesters, p)
           x == [s EXCEPT !.requesters = w]
<1>1. SenderType(s) /\ s.requesters \in Seq(Proxies)
  BY DEF SenderOK, SenderType
<1>2. /\ w \in Seq(Proxies) /\ Len(w) = Len(s.requesters) + 1 /\ Len(s.requesters) \in Nat
      /\ \A i \in 1 .. Len(s.requesters) : w[i] = s.requesters[i]
      /\ w[Len(s.requesters) + 1] = p
  BY <1>1, AppendProperties
<1> HIDE DEF w
<1>3. /\ SenderType(x) /\ x.requesters = w /\ x.sending = s.sending
      /\ x.serializer = s.serializer /\ x.partlySent = s.partlySent /\ x.skip = s.skip
      /\ x.initialized = s.initialized /\ x.requested = s.requested /\ x.sesame = s.sesame
  BY <1>1, <1>2 DEF SenderType
<1> HIDE DEF x
<1>4. SenderOK(x)
  BY <1>3 DEF SenderOK
<1>5. IsQueued(x, p)
  <2>1. Len(s.requesters) + 1 \in 1 .. Len(w)
    BY <1>2
  <2> QED
    BY <1>2, <1>3, <2>1 DEF IsQueued
<1>6. \A q : IsQueued(s, q) => IsQueued(x, q)
  <2>1. \A i \in 1 .. Len(s.requesters) : i \in 1 .. Len(w)
    BY <1>2
  <2> QED
    BY <1>2, <1>3, <2>1 DEF IsQueued
<1> QED
  BY <1>3, <1>4, <1>5, <1>6 DEF x, w

LEMMA RequestSendKeepsInv ==
    ASSUME EchoInv, NEW p \in Proxies, RequestSend(p)
    PROVE  EchoInv'
<1> DEFINE x == [snd EXCEPT !.requesters = Append(@, p)]
<1>1. /\ Running /\ onGranted' = onGranted \cup {p} /\ snd' = TryGrantSend(x)
      /\ UNCHANGED <<wire, handshake, rcv, crashed, methods, starts>>
  BY DEF RequestSend
<1>2. SenderOK(snd) /\ QueuedAnew(snd, onGranted) /\ onGranted \subseteq Proxies
  BY <1>1, Unpacked
<1>3. /\ SenderOK(x) /\ x.sending = snd.sending /\ x.serializer = snd.serializer
      /\ x.initialized = snd.initialized
      /\ IsQueued(x, p) /\ \A q : IsQueued(snd, q) => IsQueued(x, q)
  BY <1>2, QueueGrows
<1> HIDE DEF x
<1>4. QueuedAnew(x, onGranted')
  BY <1>1, <1>2, <1>3 DEF QueuedAnew
<1>5. Granted(x, snd')
  BY <1>1, <1>3, TryGrantSendFits
<1>6. QueuedAnew(snd', onGranted')
  BY <1>3, <1>4, <1>5, GrantedQueued
<1> QED
  BY <1>1, <1>2, <1>3, <1>5, <1>6, SenderStays DEF Granted, Running

\* The sender without one of the proxies of the queue.
Dequeued(s, p, x) ==
    /\ SenderOK(x) /\ x.sending = s.sending /\ x.serializer = s.serializer /\ x.partlySent = s.partlySent
    /\ x.skip = s.skip /\ x.initialized = s.initialized
    /\ \A q : IsQueued(s, q) /\ q # p => IsQueued(x, q)

LEMMA QueueShrinks ==
    ASSUME NEW s, SenderOK(s), NEW p \in Proxies, IsQueued(s, p)
    PROVE  Dequeued(s, p, [s EXCEPT !.requesters = RemoveAt(@, CHOOSE i \in DOMAIN @ : @[i] = p)])
<1> DEFINE q == s.requesters
           k == CHOOSE i \in DOMAIN q : q[i] = p
           before == SubSeq(q, 1, k - 1)
           after == SubSeq(q, k + 1, Len(q))
           w == before \o after
           x == [s EXCEPT !.requesters = w]
<1>1. SenderType(s) /\ q \in Seq(Proxies) /\ Len(q) \in Nat /\ DOMAIN q = 1 .. Len(q)
      /\ \A i \in 1 .. Len(q) : q[i] \in Proxies
  BY ElementOfSeq DEF SenderOK, SenderType
<1>2. k \in 1 .. Len(q) /\ q[k] = p
  BY <1>1 DEF IsQueued
<1>3. [s EXCEPT !.requesters = RemoveAt(@, CHOOSE i \in DOMAIN @ : @[i] = p)] = x
  BY <1>1 DEF RemoveAt, SenderType
<1> HIDE DEF k
<1>4. before \in Seq(Proxies) /\ Len(before) = k - 1 /\ \A i \in 1 .. k - 1 : before[i] = q[i]
  <2>1. k - 1 \in Int /\ \A i \in 1 .. k - 1 : q[i] \in Proxies
    BY <1>1, <1>2
  <2>2. /\ before \in Seq(Proxies) /\ Len(before) = IF 1 <= k - 1 THEN (k - 1) - 1 + 1 ELSE 0
        /\ \A i \in 1 .. (k - 1) - 1 + 1 : before[i] = q[1 + i - 1]
    BY <2>1, SubSeqProperties
  <2> HIDE DEF before
  <2> QED
    BY <1>1, <1>2, <2>2
<1>5. after \in Seq(Proxies) /\ Len(after) = Len(q) - k /\ \A i \in 1 .. Len(q) - k : after[i] = q[k + i]
  <2>1. k + 1 \in Int /\ Len(q) \in Int /\ \A i \in k + 1 .. Len(q) : q[i] \in Proxies
    BY <1>1, <1>2
  <2>2. /\ after \in Seq(Proxies) /\ Len(after) = IF k + 1 <= Len(q) THEN Len(q) - (k + 1) + 1 ELSE 0
        /\ \A i \in 1 .. Len(q) - (k + 1) + 1 : after[i] = q[(k + 1) + i - 1]
    BY <2>1, SubSeqProperties
  <2> HIDE DEF after
  <2> QED
    BY <1>1, <1>2, <2>2
<1> HIDE DEF before, after
<1>6. /\ w \in Seq(Proxies) /\ Len(w) = Len(before) + Len(after)
      /\ \A i \in 1 .. Len(before) + Len(after) :
             w[i] = IF i <= Len(before) THEN before[i] ELSE after[i - Len(before)]
  BY <1>4, <1>5, ConcatProperties
<1> HIDE DEF w
<1>7. /\ SenderType(x) /\ x.requesters = w /\ x.sending = s.sending
      /\ x.serializer = s.serializer /\ x.partlySent = s.partlySent /\ x.skip = s.skip
      /\ x.initialized = s.initialized /\ x.requested = s.requested /\ x.sesame = s.sesame
  BY <1>1, <1>6 DEF SenderType
<1> HIDE DEF x
<1>8. SenderOK(x)
  BY <1>7 DEF SenderOK
<1>9. ASSUME NEW o, IsQueued(s, o), o # p
      PROVE  IsQueued(x, o)
  <2>1. PICK i \in 1 .. Len(q) : q[i] = o
    BY <1>9 DEF IsQueued
  <2>2. CASE i < k
    <3>1. i \in 1 .. k - 1 /\ i \in 1 .. Len(before) + Len(after) /\ i <= Len(before)
      BY <1>1, <1>2, <1>4, <1>5, <2>2
    <3>2. i \in 1 .. Len(w) /\ w[i] = o
      BY <1>4, <1>6, <2>1, <3>1
    <3> QED
      BY <1>7, <3>2 DEF IsQueued
  <2>3. CASE i > k
    <3>1. /\ i - 1 \in 1 .. Len(before) + Len(after) /\ ~(i - 1 <= Len(before))
          /\ (i - 1) - Len(before) = i - k /\ i - k \in 1 .. Len(q) - k /\ k + (i - k) = i
      BY <1>1, <1>2, <1>4, <1>5, <2>3
    <3>2. i - 1 \in 1 .. Len(w) /\ w[i - 1] = after[i - k]
      BY <1>6, <3>1
    <3>3. after[i - k] = o
      BY <1>5, <2>1, <3>1
    <3> QED
      BY <1>7, <3>2, <3>3 DEF IsQueued
  <2>4. i # k
    BY <1>2, <1>9, <2>1
  <2> QED
    BY <1>2, <2>2, <2>3, <2>4
<1> QED
  BY <1>3, <1>7, <1>8, <1>9 DEF Dequeued

LEMMA CancelRequestSendKeepsInv ==
    ASSUME EchoInv, NEW p \in Proxies, CancelRequestSend(p)
    PROVE  EchoInv'
<1>1. /\ Running /\ p \in onGranted /\ onGranted' = onGranted \ {p}
      /\ UNCHANGED <<wire, handshake, rcv, methods, starts>>
  BY DEF CancelRequestSend
<1>2. SenderOK(snd) /\ SenderType(snd) /\ QueuedAnew(snd, onGranted) /\ onGranted \subseteq Proxies
  BY <1>1, Unpacked
<1>3. Contains(snd.requesters, p) <=> IsQueued(snd, p)
  BY DEF Contains, IsQueued
<1>4. CASE IsQueued(snd, p)
  <2>1. /\ snd' = [snd EXCEPT !.requesters = RemoveAt(@, CHOOSE i \in DOMAIN @ : @[i] = p)]
        /\ crashed' = crashed
    BY <1>3, <1>4 DEF CancelRequestSend
  <2>2. Dequeued(snd, p, snd')
    BY <1>2, <1>4, <2>1, QueueShrinks
  <2>3. QueuedAnew(snd', onGranted')
    BY <1>1, <1>2, <2>2 DEF Dequeued, QueuedAnew
  <2> QED
    BY <1>1, <1>2, <2>1, <2>2, <2>3, SenderStays DEF Dequeued, Running
<1>5. CASE ~IsQueued(snd, p) /\ snd.sending = p
  <2> DEFINE x == [snd EXCEPT !.sending = NoProxy, !.skip = TRUE]
  <2>1. snd' = x /\ crashed' = "no"
    BY <1>3, <1>5 DEF CancelRequestSend
  <2>2. snd.serializer = <<>>
    BY <1>1, <1>2, <1>5 DEF QueuedAnew
  <2>3. /\ SenderType(x) /\ x.serializer = snd.serializer /\ x.skip = TRUE
        /\ x.initialized = snd.initialized /\ x.requested = snd.requested /\ x.sesame = snd.sesame
    BY <1>2 DEF SenderType
  <2> HIDE DEF x
  <2>4. SenderOK(x) /\ QueuedAnew(x, onGranted')
    BY <1>2, <2>2, <2>3 DEF SenderOK, QueuedAnew
  <2> QED
    BY <1>1, <1>2, <2>1, <2>3, <2>4, SenderStays
<1>6. CASE ~IsQueued(snd, p) /\ snd.sending # p
  <2>1. crashed' = "assertion"
    BY <1>3, <1>6 DEF CancelRequestSend
  <2> QED
    BY <1>1, <2>1 DEF EchoInv, Running
<1> QED
  BY <1>4, <1>5, <1>6

\* The sender when the handshake is done: what is partly sent is dropped, and so is the
\* stream that was requested for it.
Anew(s, d) ==
    /\ SenderOK(d) /\ d.serializer = <<>> /\ d.initialized = TRUE /\ d.requesters = s.requesters
    /\ d.partlySent = s.partlySent /\ (~s.partlySent => d.sending = s.sending)

LEMMA SenderInitializedFits ==
    ASSUME NEW s, SenderOK(s)
    PROVE  Anew(s, SenderInitialized(s))
<1> DEFINE t == IF s.partlySent
                THEN [s EXCEPT !.initialized = TRUE, !.sending = NoProxy, !.serializer = <<>>, !.skip = TRUE]
                ELSE [s EXCEPT !.initialized = TRUE]
           x == [t EXCEPT !.requested = FALSE]
           d == SenderInitialized(s)
<1>1. SenderType(s) /\ <<>> \in Seq(Pieces)
  BY DEF SenderOK
<1>2. /\ SenderType(t) /\ t.initialized = TRUE /\ t.requesters = s.requesters /\ t.partlySent = s.partlySent
      /\ t.requested = s.requested /\ t.sesame = s.sesame
      /\ s.partlySent => t.sending = NoProxy /\ t.serializer = <<>> /\ t.skip = TRUE
      /\ ~s.partlySent => t.sending = s.sending /\ t.serializer = s.serializer /\ t.skip = s.skip
  <2>1. CASE s.partlySent
    BY <1>1, <2>1 DEF SenderType
  <2>2. CASE ~s.partlySent
    BY <1>1, <2>2 DEF SenderType
  <2> QED
    BY <2>1, <2>2
<1>3. d = IF t.requested THEN RequestSendStream(x) ELSE t
  BY DEF SenderInitialized
<1> HIDE DEF t
<1>4. /\ SenderType(x) /\ x.initialized = TRUE /\ x.requesters = t.requesters /\ x.partlySent = t.partlySent
      /\ x.requested = FALSE /\ x.sesame = t.sesame /\ x.sending = t.sending /\ x.serializer = t.serializer
      /\ x.skip = t.skip
  BY <1>2 DEF SenderType
<1> HIDE DEF x, d
<1>5. t.serializer = <<>>
  BY <1>2 DEF SenderOK
<1>6. CASE ~t.requested
  <2>1. SenderOK(t) /\ d = t
    BY <1>2, <1>3, <1>5, <1>6 DEF SenderOK
  <2> QED
    BY <1>2, <1>5, <2>1 DEF Anew, d
<1>7. CASE t.requested
  <2>1. SenderOK(x) /\ (x.sending # NoProxy \/ x.skip)
    BY <1>2, <1>4, <1>5, <1>7 DEF SenderOK
  <2>2. d = RequestSendStream(x)
    BY <1>3, <1>7
  <2>3. /\ SenderOK(d) /\ d.requesters = x.requesters /\ d.sending = x.sending
        /\ d.serializer = x.serializer /\ d.partlySent = x.partlySent /\ d.initialized = x.initialized
    BY <2>1, <2>2, RequestSendStreamFits
  <2> QED
    BY <1>2, <1>4, <1>5, <2>3 DEF Anew, d
<1> QED
  BY <1>6, <1>7

LEMMA InitResponseReachesSenderKeepsInv ==
    ASSUME EchoInv, InitResponseReachesSender
    PROVE  EchoInv'
<1>1. /\ Running /\ handshake = "senderAnswered" /\ snd' = SenderInitialized(snd) /\ handshake' = "none"
      /\ UNCHANGED <<onGranted, wire, rcv, crashed, methods, starts>>
  BY DEF InitResponseReachesSender
<1>2. /\ ReceiverOK(rcv) /\ Linked(snd, wire, handshake, rcv) /\ SenderOK(snd) /\ ControlOK(wire, handshake)
      /\ methods \in Nat /\ starts \in Nat /\ onGranted \subseteq Proxies
  BY <1>1, Unpacked
<1>3. Anew(snd, snd')
  BY <1>1, <1>2, SenderInitializedFits
<1>4. snd.serializer = <<>> /\ SendPlace(snd') = SendPlace(snd)
  BY <1>1, <1>2, <1>3 DEF Linked, Anew, SendPlace
<1>5. ControlOK(wire, "none")
  BY <1>1, <1>2 DEF ControlOK
<1>6. Linked(snd', wire, "none", rcv) /\ QueuedAnew(snd', onGranted')
  BY <1>2, <1>3, <1>4, <1>5 DEF Linked, Anew, QueuedAnew
<1> QED
  BY <1>1, <1>2, <1>6 DEF EchoInv, Running

\* What is on a wire.
LEMMA OnWire ==
    ASSUME NEW w, WireOK(w)
    PROVE  /\ w \in Seq(Sent) /\ Len(w) \in Nat
           /\ \A i \in 1 .. Len(w) : w[i] \in Sent /\ w[i].type \in {"message", "init", "initResponse"}
<1>1. w \in Seq(Sent) /\ Len(w) \in Nat
  BY DEF WireOK, Sent
<1>2. \A i \in 1 .. Len(w) : w[i] \in Sent
  BY <1>1, ElementOfSeq
<1> QED
  BY <1>1, <1>2 DEF Sent

\* A handshake message y goes on the wire, behind which the sender begins anew.
LEMMA HandshakeLinked ==
    ASSUME NEW s, NEW w, NEW h, NEW r, NEW type \in {"init", "initResponse"}, WireOK(w),
           \A i \in 1 .. Len(w) : w[i].type = "message",
           type = "init" => h = "sender", type = "initResponse" => h = "receiverAnswered",
           r.initialized /\ w # <<>> => Follows(ReceivePlace(r), w[1]),
           SenderOK(s), s.serializer = <<>>, h = "sender" => ~s.initialized, h # "senderAnswered"
    PROVE  Linked(s, Append(w, Control(type)), h, r)
<1> DEFINE y == Control(type)
<1>1. /\ y \in Sent /\ y.type = type /\ y.pieces = <<>> /\ PlaceAfter(y) = Between /\ \A p : Follows(p, y)
  BY HandshakesAreSent
<1> HIDE DEF y
<1>2. ControlOK(Append(w, y), h)
  BY <1>1, AppendControl
<1>3. SendPlace(s) = PlaceAfter(y)
  BY <1>1 DEF SendPlace
<1>4. Linked(s, Append(w, y), h, r)
  BY <1>1, <1>2, <1>3, AppendLinked
<1> QED
  BY <1>4 DEF y

LEMMA InitReachesSenderKeepsInv ==
    ASSUME EchoInv, InitReachesSender
    PROVE  EchoInv'
<1>1. /\ Running /\ handshake = "receiver" /\ snd' = SenderInitialized(snd) /\ handshake' = "receiverAnswered"
      /\ wire' = Append(wire, Control("initResponse"))
      /\ UNCHANGED <<onGranted, rcv, crashed, methods, starts>>
  BY DEF InitReachesSender
<1>2. /\ ReceiverOK(rcv) /\ Linked(snd, wire, handshake, rcv) /\ SenderOK(snd) /\ WireOK(wire)
      /\ ControlOK(wire, handshake) /\ methods \in Nat /\ starts \in Nat /\ onGranted \subseteq Proxies
  BY <1>1, Unpacked
<1> DEFINE d == snd'
<1>3. Anew(snd, d)
  BY <1>1, <1>2, SenderInitializedFits
<1> HIDE DEF d
<1>4. \A i \in 1 .. Len(wire) : wire[i].type = "message"
  <2>1. \A i \in 1 .. Len(wire) : wire[i].type \in {"message", "init", "initResponse"}
    BY <1>2, OnWire
  <2> QED
    BY <1>1, <1>2, <2>1 DEF ControlOK
<1>5. rcv.initialized /\ wire # <<>> => Follows(ReceivePlace(rcv), wire[1])
  BY <1>2 DEF Linked
<1>6. Linked(d, Append(wire, Control("initResponse")), "receiverAnswered", rcv)
  BY <1>2, <1>3, <1>4, <1>5, HandshakeLinked DEF Anew
<1>7. QueuedAnew(d, onGranted')
  BY <1>3 DEF Anew, QueuedAnew
<1> QED
  BY <1>1, <1>2, <1>6, <1>7 DEF EchoInv, Running, d

\* What is left of a wire that is cut.
LEMMA WireCut ==
    ASSUME NEW w, WireOK(w), NEW n \in 0 .. Len(w), NEW h, ControlOK(w, h)
    PROVE  LET t == SubSeq(w, 1, n)
           IN  WireOK(t) /\ ControlOK(t, h) /\ (t # <<>> => w # <<>> /\ t[1] = w[1])
<1> DEFINE t == SubSeq(w, 1, n)
<1>1. w \in Seq(Sent) /\ Len(w) \in Nat /\ n \in Nat /\ \A i \in 1 .. Len(w) : w[i] \in Sent
  BY OnWire
<1>2. t \in Seq(Sent) /\ Len(t) = n /\ \A i \in 1 .. n : t[i] = w[i]
  <2>1. \A i \in 1 .. n : w[i] \in Sent
    BY <1>1
  <2>2. /\ t \in Seq(Sent) /\ Len(t) = IF 1 <= n THEN n - 1 + 1 ELSE 0
        /\ \A i \in 1 .. n - 1 + 1 : t[i] = w[1 + i - 1]
    BY <1>1, <2>1, SubSeqProperties
  <2> HIDE DEF t
  <2> QED
    BY <1>1, <2>2
<1> HIDE DEF t
<1>3. \A i \in 1 .. Len(t) : i \in 1 .. Len(w) /\ t[i] = w[i]
  BY <1>1, <1>2
<1>4. ASSUME NEW i \in 2 .. Len(t)
      PROVE  Follows(PlaceAfter(t[i - 1]), t[i])
  <2>1. i - 1 \in 1 .. Len(t) /\ i \in 1 .. Len(t) /\ i \in 2 .. Len(w)
    BY <1>1, <1>2
  <2> QED
    BY <1>3, <2>1 DEF WireOK
<1>5. WireOK(t)
  BY <1>2, <1>3, <1>4 DEF WireOK, Sent
<1>6. ControlOK(t, h)
  BY <1>3 DEF ControlOK
<1>7. ASSUME t # <<>>
      PROVE  w # <<>> /\ t[1] = w[1]
  <2>1. 1 \in 1 .. Len(t)
    BY <1>2, <1>7, EmptySeq
  <2> QED
    BY <1>3, <2>1
<1> QED
  BY <1>5, <1>6, <1>7 DEF t

\* The sender starts over, with what is left on the wire before its init.
LEMMA SenderLeaves ==
    ASSUME EchoInv, StartsOver, NEW d, snd' = d, SenderOK(d), d.serializer = <<>>, ~d.initialized,
           NEW w, WireOK(w), ControlOK(w, "none"), w # <<>> => wire # <<>> /\ w[1] = wire[1],
           wire' = Append(w, Control("init")), handshake' = "sender", onGranted' \subseteq Proxies,
           UNCHANGED <<rcv, crashed, methods>>
    PROVE  EchoInv'
<1>1. Running /\ starts' = starts + 1
  BY DEF StartsOver
<1>2. /\ ReceiverOK(rcv) /\ Linked(snd, wire, handshake, rcv) /\ methods \in Nat /\ starts \in Nat
  BY <1>1, Unpacked
<1>3. \A i \in 1 .. Len(w) : w[i].type = "message"
  <2>1. \A i \in 1 .. Len(w) : w[i].type \in {"message", "init", "initResponse"}
    BY OnWire
  <2> QED
    BY <2>1 DEF ControlOK
<1>4. rcv.initialized /\ w # <<>> => Follows(ReceivePlace(rcv), w[1])
  BY <1>2 DEF Linked
<1>5. Linked(d, Append(w, Control("init")), "sender", rcv)
  BY <1>3, <1>4, HandshakeLinked
<1>6. starts' \in Nat /\ QueuedAnew(d, onGranted')
  BY <1>1, <1>2 DEF QueuedAnew
<1> QED
  BY <1>1, <1>2, <1>5, <1>6 DEF EchoInv, Running

LEMMA FreshSenderFits == SenderOK(FreshSender) /\ FreshSender.serializer = <<>> /\ ~FreshSender.initialized
<1>1. <<>> \in Seq(Pieces) /\ <<>> \in Seq(Proxies)
  OBVIOUS
<1> QED
  BY <1>1 DEF FreshSender, SenderOK, SenderType

LEMMA SenderRestartsKeepsInv ==
    ASSUME EchoInv, SenderRestarts
    PROVE  EchoInv'
<1>1. /\ StartsOver /\ snd' = FreshSender /\ onGranted' = {} /\ handshake' = "sender"
      /\ UNCHANGED <<rcv, crashed, methods>>
  BY DEF SenderRestarts
<1>2. PICK n \in 0 .. Len(wire) : wire' = Append(SubSeq(wire, 1, n), Control("init"))
  BY DEF SenderRestarts
<1>3. Running /\ handshake = "none"
  BY <1>1 DEF StartsOver
<1>4. WireOK(wire) /\ ControlOK(wire, "none")
  BY <1>3, Unpacked
<1> DEFINE w == SubSeq(wire, 1, n)
<1>5. WireOK(w) /\ ControlOK(w, "none") /\ (w # <<>> => wire # <<>> /\ w[1] = wire[1])
  BY <1>4, WireCut
<1>6. wire' = Append(w, Control("init"))
  BY <1>2
<1> HIDE DEF w
<1> QED
  BY <1>1, <1>5, <1>6, FreshSenderFits, SenderLeaves

LEMMA SenderResetsKeepsInv ==
    ASSUME EchoInv, ~ResetsWhenBusy, SenderResets
    PROVE  EchoInv'
<1> DEFINE d == [snd EXCEPT !.initialized = FALSE, !.requested = FALSE, !.sesame = FALSE]
<1>1. /\ StartsOver /\ snd.sending = NoProxy /\ ~snd.skip /\ snd' = d /\ wire' = Append(wire, Control("init"))
      /\ handshake' = "sender" /\ UNCHANGED <<onGranted, rcv, crashed, methods>>
  BY DEF SenderResets
<1>2. Running /\ handshake = "none"
  BY <1>1 DEF StartsOver
<1>3. /\ SenderOK(snd) /\ SenderType(snd) /\ WireOK(wire) /\ ControlOK(wire, "none") /\ onGranted \subseteq Proxies
  BY <1>2, Unpacked
<1>4. /\ SenderType(d) /\ d.serializer = snd.serializer /\ d.sending = snd.sending /\ d.skip = snd.skip
      /\ d.initialized = FALSE /\ d.requested = FALSE /\ d.sesame = FALSE
  BY <1>3 DEF SenderType
<1> HIDE DEF d
<1>5. SenderOK(d) /\ d.serializer = <<>>
  BY <1>1, <1>3, <1>4 DEF SenderOK
<1> QED
  BY <1>1, <1>3, <1>4, <1>5, SenderLeaves

-----------------------------------------------------------------------------
(* The sender writes.                                                       *)

\* The pieces, which go up to the end of their method, are written up to some point.
Written(pieces, take, rest) ==
    /\ IsRun(take) /\ take # <<>> /\ take \in Seq(Pieces) /\ rest \in Seq(Pieces)
    /\ BeginOf(take) = BeginOf(pieces)
    /\ rest = <<>> => EndOf(take) = Between
    /\ rest # <<>> => /\ IsRun(rest) /\ rest[1].index >= 1 /\ rest[1].index + Len(rest) = rest[1].size + 1
                      /\ BeginOf(rest) = EndOf(take)

LEMMA WritesWhatFits ==
    ASSUME NEW s, IsRun(s), s[1].index + Len(s) = s[1].size + 1
    PROVE  LET n == Least(MaxPieces, Len(s))
           IN  Written(s, SubSeq(s, 1, n), SubSeq(s, n + 1, Len(s)))
<1> DEFINE n == Least(MaxPieces, Len(s))
           l == Len(s)
           take == SubSeq(s, 1, n)
           rest == SubSeq(s, n + 1, l)
           k == s[1].index
           z == s[1].size
<1>1. /\ s \in Seq(Pieces) /\ l \in Nat /\ l >= 1 /\ k \in Nat /\ z \in Nat
      /\ k + l = z + 1 /\ s[1].method \in Nat
  BY RunNumbers
<1>2. n \in Nat /\ n >= 1 /\ n <= l
  <2>1. MaxPieces \in Nat /\ MaxPieces >= 1
    BY EchoAssumption
  <2> HIDE DEF l
  <2> QED
    BY <1>1, <2>1 DEF Least
<1> HIDE DEF n
<1>3. Cut(s, n)
  BY <1>2, CutRun
<1>4. IsRun(take) /\ Len(take) = n /\ take[1] = s[1]
  BY <1>2, <1>3 DEF Cut
<1>5. n < l => /\ IsRun(rest) /\ Len(rest) = l - n
               /\ rest[1].method = s[1].method /\ rest[1].size = z /\ rest[1].index = k + n
  BY <1>3 DEF Cut
<1>6. n = l => rest = <<>>
  BY <1>3 DEF Cut
<1> HIDE DEF take, rest, l
<1>7. take \in Seq(Pieces) /\ take # <<>> /\ BeginOf(take) = BeginOf(s)
  BY <1>4, RunNumbers DEF BeginOf
<1>8. EndOf(take) = PlaceAt(s[1].method, z, k + n)
  BY <1>4 DEF EndOf
<1>9. CASE n = l
  <2>1. k + n = z + 1
    BY <1>1, <1>9
  <2>2. EndOf(take) = Between
    BY <1>8, <2>1 DEF PlaceAt
  <2>3. rest = <<>> /\ rest \in Seq(Pieces)
    BY <1>6, <1>9
  <2> QED
    BY <1>4, <1>7, <2>2, <2>3 DEF Written, take, rest, n, l
<1>10. CASE n < l
  <2>1. IsRun(rest) /\ rest # <<>> /\ rest \in Seq(Pieces)
    BY <1>5, <1>10, RunNumbers
  <2>2. rest[1].index >= 1 /\ rest[1].index + Len(rest) = rest[1].size + 1
    <3>1. rest[1].index = k + n /\ rest[1].size = z /\ Len(rest) = l - n
      BY <1>5, <1>10
    <3> HIDE DEF k, z
    <3>2. k + n >= 1 /\ (k + n) + (l - n) = z + 1
      BY <1>1, <1>2
    <3> QED
      BY <3>1, <3>2
  <2>3. BeginOf(rest) = EndOf(take)
    BY <1>5, <1>8, <1>10 DEF BeginOf
  <2> QED
    BY <1>4, <1>7, <2>1, <2>2, <2>3 DEF Written, take, rest, n, l
<1> QED
  BY <1>1, <1>2, <1>9, <1>10

LEMMA MessagesAreSent ==
    ASSUME NEW pieces \in Seq(Pieces)
    PROVE  /\ Message(pieces) \in Sent /\ Message(pieces).type = "message" /\ Message(pieces).pieces = pieces
BY DEF Message, Sent

\* The stream that is available is skipped.
LEMMA StreamSkipped ==
    ASSUME EchoInv, NEW size \in Sizes, SendStreamAvailable(size), snd.skip
    PROVE  /\ EchoInv' /\ crashed' = "no" /\ (Stale(snd') => Stale(snd))
           /\ Attended(snd, onGranted) => Attended(snd', onGranted')
<1> DEFINE s == [snd EXCEPT !.sesame = FALSE]
           x == [s EXCEPT !.skip = FALSE]
           y == Message(<<>>)
<1>1. /\ Running /\ snd.initialized /\ snd' = TryGrantSend(x) /\ wire' = Append(wire, y)
      /\ UNCHANGED <<onGranted, methods, crashed, handshake, rcv, starts>>
  BY DEF SendStreamAvailable
<1>2. /\ ReceiverOK(rcv) /\ Linked(snd, wire, handshake, rcv) /\ SenderOK(snd) /\ SenderType(snd)
      /\ WireOK(wire) /\ ControlOK(wire, handshake)
      /\ methods \in Nat /\ starts \in Nat /\ onGranted \subseteq Proxies
  BY <1>1, Unpacked
<1>3. /\ SenderType(x) /\ x.serializer = snd.serializer /\ x.requesters = snd.requesters /\ x.sending = snd.sending
      /\ x.partlySent = snd.partlySent /\ x.initialized = snd.initialized /\ x.requested = snd.requested
      /\ x.skip = FALSE /\ x.sesame = FALSE
  BY <1>2 DEF SenderType
<1> HIDE DEF x
<1>4. SenderOK(x) /\ x.serializer = <<>>
  BY <1>1, <1>2, <1>3 DEF SenderOK
<1> DEFINE d == snd'
<1>5. Granted(x, d)
  BY <1>1, <1>4, TryGrantSendFits
<1> HIDE DEF d
<1>6. SenderOK(d) /\ d.serializer = <<>> /\ d.partlySent = snd.partlySent /\ d.initialized = snd.initialized
  BY <1>3, <1>4, <1>5 DEF Granted
<1>7. y \in Sent /\ y.type = "message" /\ y.pieces = <<>>
  <2>1. <<>> \in Seq(Pieces)
    OBVIOUS
  <2> QED
    BY <2>1, MessagesAreSent
<1> HIDE DEF y
<1>8. SendPlace(snd) = Between /\ SendPlace(d) = Between /\ PlaceAfter(y) = Between /\ Follows(Between, y)
  BY <1>3, <1>4, <1>6, <1>7 DEF SendPlace, PlaceAfter, Follows
<1>9. ControlOK(Append(wire, y), handshake)
  BY <1>2, <1>7, AppendControl
<1>10. /\ wire # <<>> => Follows(PlaceAfter(wire[Len(wire)]), y)
       /\ rcv.initialized /\ wire # <<>> => Follows(ReceivePlace(rcv), wire[1])
       /\ rcv.initialized /\ wire = <<>> => Follows(ReceivePlace(rcv), y)
       /\ handshake \notin {"sender", "senderAnswered"}
  BY <1>1, <1>2, <1>8 DEF Linked
<1>11. Linked(d, Append(wire, y), handshake, rcv)
  BY <1>2, <1>6, <1>7, <1>8, <1>9, <1>10, AppendLinked
<1>12. QueuedAnew(d, onGranted)
  BY <1>6 DEF QueuedAnew
<1>13. EchoInv' /\ crashed' = "no"
  BY <1>1, <1>2, <1>11, <1>12 DEF EchoInv, Running, d
<1>14. Stale(snd') => Stale(snd)
  BY <1>3, <1>4, <1>6 DEF Stale, d
<1>15. ASSUME Attended(snd, onGranted)
       PROVE  Attended(snd', onGranted')
  <2>1. \A p \in onGranted : IsQueued(x, p) \/ x.sending = p
    BY <1>3, <1>15 DEF Attended, IsQueued
  <2>2. \A p \in onGranted : IsQueued(d, p) \/ d.sending = p
    BY <1>2, <1>5, <2>1 DEF Granted
  <2> QED
    BY <1>1, <2>2 DEF Attended, d
<1> QED
  BY <1>13, <1>14, <1>15

\* The serializer writes what fits.
LEMMA StreamWritten ==
    ASSUME EchoInv, NEW size \in Sizes, SendStreamAvailable(size), ~snd.skip
    PROVE  /\ EchoInv' /\ crashed' = "no" /\ ~Stale(snd')
           /\ Attended(snd, onGranted) => Attended(snd', onGranted')
<1> DEFINE s == [snd EXCEPT !.sesame = FALSE]
           granting == s.serializer = <<>>
           pieces == IF granting THEN MethodPieces(methods + 1, size) ELSE s.serializer
           n == Least(MaxPieces, Len(pieces))
           take == SubSeq(pieces, 1, n)
           rest == SubSeq(pieces, n + 1, Len(pieces))
           t == [s EXCEPT !.serializer = rest, !.partlySent = (rest # <<>>)]
           x == [t EXCEPT !.sending = NoProxy]
           y == Message(take)
           d == snd'
<1>1. /\ Running /\ snd.initialized /\ snd.sesame
      /\ d = IF t.partlySent THEN RequestSendStream(t) ELSE TryGrantSend(x)
      /\ wire' = Append(wire, y)
      /\ onGranted' = IF granting THEN onGranted \ {snd.sending} ELSE onGranted
      /\ methods' = IF granting THEN methods + 1 ELSE methods
      /\ crashed' = IF granting /\ snd.sending = NoProxy THEN "null" ELSE "no"
      /\ UNCHANGED <<handshake, rcv, starts>>
  BY DEF SendStreamAvailable
<1>2. /\ ReceiverOK(rcv) /\ Linked(snd, wire, handshake, rcv) /\ SenderOK(snd) /\ SenderType(snd)
      /\ WireOK(wire) /\ ControlOK(wire, handshake) /\ QueuedAnew(snd, onGranted)
      /\ methods \in Nat /\ starts \in Nat /\ onGranted \subseteq Proxies
  BY <1>1, Unpacked
<1>3. /\ SenderType(s) /\ s.serializer = snd.serializer /\ s.requesters = snd.requesters /\ s.sending = snd.sending
      /\ s.initialized = snd.initialized /\ s.requested = snd.requested /\ s.skip = snd.skip /\ s.sesame = FALSE
  BY <1>2 DEF SenderType
<1>4. snd.sending # NoProxy /\ ~snd.requested
  BY <1>1, <1>2 DEF SenderOK
<1> HIDE DEF s
<1>5. /\ IsRun(pieces) /\ pieces[1].index + Len(pieces) = pieces[1].size + 1
      /\ BeginOf(pieces) = SendPlace(snd)
  <2>1. CASE granting
    <3>1. size \in Nat /\ methods + 1 \in Nat
      BY <1>2, EchoAssumption
    <3>2. pieces = MethodPieces(methods + 1, size)
      BY <2>1
    <3> HIDE DEF pieces
    <3>3. IsMethod(pieces, methods + 1, size)
      BY <3>1, <3>2, MethodIsRun
    <3>4. BeginOf(pieces) = Between /\ SendPlace(snd) = Between
      BY <1>3, <2>1, <3>3 DEF BeginOf, PlaceAt, SendPlace, IsMethod
    <3> QED
      BY <3>1, <3>3, <3>4 DEF IsMethod
  <2>2. CASE ~granting
    <3>1. pieces = snd.serializer /\ snd.serializer # <<>>
      BY <1>3, <2>2
    <3> HIDE DEF pieces
    <3> QED
      BY <1>2, <3>1 DEF SenderOK, SendPlace
  <2> QED
    BY <2>1, <2>2
<1> HIDE DEF pieces
<1>6. Written(pieces, take, rest)
  BY <1>5, WritesWhatFits
<1> HIDE DEF take, rest, n
<1>7. take \in Seq(Pieces) /\ rest \in Seq(Pieces) /\ take # <<>> /\ IsRun(take) /\ BeginOf(take) = SendPlace(snd)
  BY <1>5, <1>6 DEF Written
<1>8. y \in Sent /\ y.type = "message" /\ y.pieces = take
  BY <1>7, MessagesAreSent
<1> HIDE DEF y
<1>9. PlaceAfter(y) = EndOf(take) /\ Follows(SendPlace(snd), y)
  BY <1>7, <1>8 DEF PlaceAfter, Follows
<1>10. /\ SenderType(t) /\ t.serializer = rest /\ t.requesters = snd.requesters /\ t.sending = snd.sending
       /\ t.initialized = snd.initialized /\ t.requested = snd.requested /\ t.skip = snd.skip /\ t.sesame = FALSE
       /\ t.partlySent <=> rest # <<>>
  <2> DEFINE partly == rest # <<>>
  <2>1. partly \in BOOLEAN /\ t = [s EXCEPT !.serializer = rest, !.partlySent = partly]
    OBVIOUS
  <2> HIDE DEF partly, t
  <2>2. /\ SenderType(t) /\ t.serializer = rest /\ t.requesters = snd.requesters /\ t.sending = snd.sending
        /\ t.initialized = snd.initialized /\ t.requested = snd.requested /\ t.skip = snd.skip /\ t.sesame = FALSE
        /\ t.partlySent = partly
    BY <1>3, <1>7, <2>1 DEF SenderType
  <2> QED
    BY <2>2 DEF partly
<1> HIDE DEF t
<1>11. ASSUME Attended(snd, onGranted), NEW p \in onGranted', p = snd.sending
       PROVE  IsQueued(snd, p)
  BY <1>1, <1>2, <1>3, <1>11 DEF QueuedAnew
<1>12. /\ SenderOK(d) /\ d.serializer = rest /\ SendPlace(d) = EndOf(take) /\ d.initialized = snd.initialized
       /\ QueuedAnew(d, onGranted') /\ ~Stale(d)
       /\ Attended(snd, onGranted) => Attended(d, onGranted')
  <2>1. CASE rest # <<>>
    <3>1. SenderOK(t) /\ d = RequestSendStream(t)
      BY <1>1, <1>2, <1>4, <1>6, <1>10, <2>1 DEF SenderOK, Written
    <3>2. /\ SenderOK(d) /\ d.requesters = t.requesters /\ d.sending = t.sending
          /\ d.serializer = t.serializer /\ d.initialized = t.initialized
      BY <1>4, <1>10, <3>1, RequestSendStreamFits
    <3> HIDE DEF d
    <3>3. SendPlace(d) = EndOf(take) /\ ~Stale(d)
      BY <1>6, <1>10, <2>1, <3>2 DEF SendPlace, Written, Stale
    <3>4. QueuedAnew(d, onGranted')
      BY <1>1, <1>2, <1>3, <1>10, <3>2 DEF QueuedAnew, IsQueued
    <3>5. Attended(snd, onGranted) => Attended(d, onGranted')
      BY <1>1, <1>10, <3>2 DEF Attended, IsQueued
    <3> QED
      BY <1>10, <3>2, <3>3, <3>4, <3>5
  <2>2. CASE rest = <<>>
    <3>1. /\ SenderType(x) /\ x.serializer = <<>> /\ x.requesters = snd.requesters /\ x.sending = NoProxy
          /\ x.initialized = snd.initialized /\ x.requested = snd.requested /\ x.skip = snd.skip /\ x.sesame = FALSE
          /\ ~x.partlySent
      BY <1>10, <2>2 DEF SenderType
    <3>2. d = TryGrantSend(x)
      BY <1>1, <1>10, <2>2
    <3> HIDE DEF x, d
    <3>3. SenderOK(x)
      BY <1>4, <3>1 DEF SenderOK
    <3>4. Granted(x, d)
      BY <3>2, <3>3, TryGrantSendFits
    <3>5. SenderOK(d) /\ d.serializer = <<>> /\ d.initialized = snd.initialized /\ ~d.partlySent
      BY <3>1, <3>4 DEF Granted
    <3>6. SendPlace(d) = EndOf(take) /\ ~Stale(d) /\ QueuedAnew(d, onGranted')
      BY <1>6, <2>2, <3>5 DEF SendPlace, Written, Stale, QueuedAnew
    <3>7. ASSUME Attended(snd, onGranted)
          PROVE  Attended(d, onGranted')
      <4> SUFFICES ASSUME NEW p \in onGranted'
                   PROVE  IsQueued(d, p) \/ d.sending = p
        BY DEF Attended
      <4>1. p \in onGranted /\ p \in Proxies
        BY <1>1, <1>2
      <4>2. IsQueued(snd, p)
        BY <1>11, <3>7, <4>1 DEF Attended
      <4>3. IsQueued(x, p)
        BY <3>1, <4>2 DEF IsQueued
      <4> QED
        BY <3>4, <4>1, <4>3 DEF Granted
    <3> QED
      BY <2>2, <3>5, <3>6, <3>7
  <2> QED
    BY <2>1, <2>2
<1>13. /\ onGranted' \subseteq Proxies /\ methods' \in Nat /\ crashed' = "no"
  BY <1>1, <1>2, <1>4
<1> HIDE DEF d
<1>14. ControlOK(Append(wire, y), handshake)
  BY <1>2, <1>8, AppendControl
<1>15. /\ wire # <<>> => Follows(PlaceAfter(wire[Len(wire)]), y)
       /\ rcv.initialized /\ wire # <<>> => Follows(ReceivePlace(rcv), wire[1])
       /\ rcv.initialized /\ wire = <<>> => Follows(ReceivePlace(rcv), y)
       /\ handshake \notin {"sender", "senderAnswered"}
  BY <1>1, <1>2, <1>9 DEF Linked
<1>16. Linked(d, Append(wire, y), handshake, rcv)
  BY <1>2, <1>8, <1>9, <1>12, <1>14, <1>15, AppendLinked
<1>17. EchoInv'
  BY <1>1, <1>2, <1>12, <1>13, <1>16 DEF EchoInv, Running, d
<1> QED
  BY <1>12, <1>13, <1>17 DEF d

LEMMA SendStreamAvailableKeepsInv ==
    ASSUME EchoInv, NEW size \in Sizes, SendStreamAvailable(size)
    PROVE  /\ EchoInv' /\ crashed' = "no" /\ (Stale(snd') => Stale(snd))
           /\ Attended(snd, onGranted) => Attended(snd', onGranted')
BY StreamSkipped, StreamWritten

-----------------------------------------------------------------------------
(* Methods are executed whole.                                              *)

\* Applications call Reset when no method is sent or read.
ResetsWhenIdle == ~ResetsWhenBusy

\* A service finishes a method in the session in which it began.
DoneInTime == ~LateDone

LEMMA InitEchoInv == Init => EchoInv
<1> SUFFICES ASSUME Init
             PROVE  EchoInv
  OBVIOUS
<1>1. /\ snd = FreshSender /\ rcv = FreshReceiver /\ onGranted = {} /\ wire = <<Control("init")>>
      /\ handshake = "sender" /\ crashed = "no" /\ methods = 0 /\ starts = 0
  BY DEF Init
<1>2. ReceiverOK(rcv) /\ rcv.initialized = FALSE
  <2>1. 0 \in Nat /\ -1 \in Int /\ <<>> \in Seq(Pieces)
    OBVIOUS
  <2> DEFINE r == FreshReceiver
  <2>2. /\ ReceiverType(r) /\ r.stream = <<>> /\ r.left = 0 /\ r.limit = -1 /\ r.buffer = <<>>
        /\ r.open = FALSE /\ r.held = FALSE /\ r.crashed = "no" /\ r.deserializer = "none"
        /\ r.busy = 0 /\ r.initialized = FALSE
    BY <2>1 DEF FreshReceiver, ReceiverType
  <2> HIDE DEF r
  <2>3. ReceiverOK(r)
    BY <2>2 DEF ReceiverOK, Reading, Waiting
  <2> QED
    BY <1>1, <2>2, <2>3 DEF r
<1> DEFINE w == <<>>
<1>3. WireOK(w) /\ w = <<>> /\ Len(w) = 0
  BY DEF WireOK
<1>4. Append(w, Control("init")) = <<Control("init")>>
  OBVIOUS
<1> HIDE DEF w
<1>5. SenderOK(snd) /\ snd.serializer = <<>> /\ ~snd.initialized
  BY <1>1, FreshSenderFits
<1>6. \A i \in 1 .. Len(w) : w[i].type = "message"
  BY <1>3
<1>7. Linked(snd, Append(w, Control("init")), "sender", rcv)
  BY <1>2, <1>3, <1>5, <1>6, HandshakeLinked
<1>8. QueuedAnew(snd, onGranted)
  BY <1>5 DEF QueuedAnew
<1>9. Linked(snd, wire, handshake, rcv)
  BY <1>1, <1>4, <1>7
<1> QED
  BY <1>1, <1>2, <1>8, <1>9 DEF EchoInv

LEMMA EchoInvStep ==
    ASSUME ResetsWhenIdle, DoneInTime
    PROVE  EchoInv /\ [Next]_vars => EchoInv'
<1> SUFFICES ASSUME EchoInv, [Next]_vars
             PROVE  EchoInv'
  OBVIOUS
<1>1. ASSUME NEW p \in Proxies, RequestSend(p)
      PROVE  EchoInv'
  BY <1>1, RequestSendKeepsInv
<1>2. ASSUME NEW p \in Proxies, CancelRequestSend(p)
      PROVE  EchoInv'
  BY <1>2, CancelRequestSendKeepsInv
<1>3. CASE Send
  BY <1>3, SendStreamAvailableKeepsInv DEF Send
<1>4. CASE Receive
  BY <1>4, ReceivedMessageKeepsInv DEF Receive
<1>5. CASE Release
  BY <1>5, ReaderReleasedKeepsInv DEF Release
<1>6. CASE Done
  BY <1>6, MethodDoneKeepsInv DEF Done
<1>7. CASE InitReachesReceiver
  BY <1>7, InitReachesReceiverKeepsInv DEF DoneInTime
<1>8. CASE InitResponseReachesSender
  BY <1>8, InitResponseReachesSenderKeepsInv
<1>9. CASE InitReachesSender
  BY <1>9, InitReachesSenderKeepsInv
<1>10. CASE InitResponseReachesReceiver
  BY <1>10, InitResponseReachesReceiverKeepsInv DEF DoneInTime
<1>11. CASE SenderRestarts
  BY <1>11, SenderRestartsKeepsInv
<1>12. CASE ReceiverRestarts
  BY <1>12, ReceiverRestartsKeepsInv
<1>13. CASE SenderResets
  BY <1>13, SenderResetsKeepsInv DEF ResetsWhenIdle
<1>14. CASE ReceiverResets
  BY <1>14, ReceiverResetsKeepsInv DEF ResetsWhenIdle
<1>15. CASE UNCHANGED vars
  BY <1>15 DEF vars, EchoInv, Running
<1> QED
  BY <1>1, <1>2, <1>3, <1>4, <1>5, <1>6, <1>7, <1>8, <1>9, <1>10, <1>11, <1>12, <1>13, <1>14, <1>15
     DEF Next, Connection

LEMMA InvExecutesWhole == EchoInv => ExecutedWhole
<1> SUFFICES ASSUME EchoInv
             PROVE  ExecutedWhole
  OBVIOUS
<1>1. ReceiverOK(rcv)
  BY DEF EchoInv
<1>2. rcv.busy = 0 \/ rcv.busy = 1
  BY <1>1 DEF ReceiverOK, Waiting, Executing, Collecting
<1>3. ASSUME rcv.deserializer = "executing"
      PROVE  rcv.got = MethodPieces(Head(rcv.got).method, Head(rcv.got).size)
  <2>1. IsRun(rcv.got) /\ rcv.got[1].index = 0 /\ Len(rcv.got) = rcv.got[1].size + 1
    BY <1>1, <1>3 DEF ReceiverOK, Waiting, Executing, Collecting
  <2> QED
    BY <2>1, WholeRun
<1>4. rcv.busy <= 1
  BY <1>2
<1> QED
  BY <1>3, <1>4 DEF ExecutedWhole

\* However often the ends start over, a method is executed with all its pieces, in order,
\* and no others, and no two are executed at once.  This needs that EchoOnSesame::Reset is
\* called between methods and that a service does not call MethodDone across a handshake.
THEOREM MethodsExecutedWhole ==
    ASSUME ResetsWhenIdle, DoneInTime
    PROVE  Spec => []ExecutedWhole
<1>1. EchoInv /\ [Next]_vars => EchoInv'
  BY EchoInvStep
<1> QED
  BY <1>1, InitEchoInv, InvExecutesWhole, PTL DEF Spec

\* No message is taken for something else than it is, and no deserializer or proxy is used
\* that is gone: all that can fail is the assertion of CancelRequestSend.
OnlyCancelCanFail == crashed \in {"no", "assertion"}

\* DataReceived finds a header where it reads one and a deserializer where it continues with
\* one, and SendStreamAvailable a proxy to grant, however often the ends start over.
THEOREM MessagesNeverMisread ==
    ASSUME ResetsWhenIdle, DoneInTime
    PROVE  Spec => []OnlyCancelCanFail
<1>1. EchoInv /\ [Next]_vars => EchoInv'
  BY EchoInvStep
<1>2. EchoInv => OnlyCancelCanFail
  BY DEF EchoInv, OnlyCancelCanFail
<1> QED
  BY <1>1, <1>2, InitEchoInv, PTL DEF Spec

-----------------------------------------------------------------------------
(* No assertion fails either, while the ends start over once at most.       *)

\* A bound, for what a second start may break: partlySent is then stale, and the handshake
\* drops a proxy that waits.
StartsOnce == MaxStarts <= 1

\* A step that leaves the sender and its proxies alone.
LEMMA SenderRests ==
    ASSUME GrantInv, crashed' = "no", UNCHANGED <<snd, onGranted, handshake, starts>>
    PROVE  GrantInv'
BY DEF GrantInv

LEMMA RequestSendGrants ==
    ASSUME EchoInv, GrantInv, NEW p \in Proxies, RequestSend(p)
    PROVE  GrantInv'
<1> DEFINE x == [snd EXCEPT !.requesters = Append(@, p)]
           d == snd'
<1>1. /\ Running /\ onGranted' = onGranted \cup {p} /\ d = TryGrantSend(x)
      /\ UNCHANGED <<wire, handshake, rcv, crashed, methods, starts>>
  BY DEF RequestSend
<1>2. SenderOK(snd) /\ onGranted \subseteq Proxies
  BY <1>1, Unpacked
<1>3. /\ SenderOK(x) /\ x.sending = snd.sending /\ x.serializer = snd.serializer /\ x.partlySent = snd.partlySent
      /\ IsQueued(x, p) /\ \A q : IsQueued(snd, q) => IsQueued(x, q)
  BY <1>2, QueueGrows
<1> HIDE DEF x
<1>4. Granted(x, d)
  BY <1>1, <1>3, TryGrantSendFits
<1> HIDE DEF d
<1>5. \A q \in onGranted' : q \in Proxies /\ (IsQueued(x, q) \/ x.sending = q)
  BY <1>1, <1>2, <1>3 DEF GrantInv, Attended
<1>6. Attended(d, onGranted')
  BY <1>4, <1>5 DEF Attended, Granted
<1>7. Stale(d) => Stale(snd)
  BY <1>3, <1>4 DEF Stale, Granted
<1> QED
  BY <1>1, <1>6, <1>7 DEF GrantInv, d

LEMMA CancelRequestSendGrants ==
    ASSUME EchoInv, GrantInv, NEW p \in Proxies, CancelRequestSend(p)
    PROVE  GrantInv'
<1> DEFINE d == snd'
<1>1. /\ Running /\ p \in onGranted /\ onGranted' = onGranted \ {p}
      /\ UNCHANGED <<wire, handshake, rcv, methods, starts>>
  BY DEF CancelRequestSend
<1>2. SenderOK(snd) /\ SenderType(snd) /\ Attended(snd, onGranted) /\ crashed = "no"
  BY <1>1, Unpacked DEF GrantInv
<1>3. Contains(snd.requesters, p) <=> IsQueued(snd, p)
  BY DEF Contains, IsQueued
<1>4. crashed' = "no" /\ Attended(d, onGranted') /\ (Stale(d) => Stale(snd))
  <2>1. CASE IsQueued(snd, p)
    <3>1. /\ snd' = [snd EXCEPT !.requesters = RemoveAt(@, CHOOSE i \in DOMAIN @ : @[i] = p)]
          /\ crashed' = crashed
      BY <1>3, <2>1 DEF CancelRequestSend
    <3>2. Dequeued(snd, p, d)
      BY <1>2, <2>1, <3>1, QueueShrinks
    <3> HIDE DEF d
    <3> QED
      BY <1>1, <1>2, <3>1, <3>2 DEF Dequeued, Attended, Stale
  <2>2. CASE ~IsQueued(snd, p)
    <3> DEFINE x == [snd EXCEPT !.sending = NoProxy, !.skip = TRUE]
    <3>1. snd.sending = p
      BY <1>1, <1>2, <2>2 DEF Attended
    <3>2. d = x /\ crashed' = "no"
      BY <1>3, <2>2, <3>1 DEF CancelRequestSend
    <3>3. /\ x.requesters = snd.requesters /\ x.serializer = snd.serializer /\ x.partlySent = snd.partlySent
      BY <1>2 DEF SenderType
    <3> HIDE DEF x, d
    <3> QED
      BY <1>1, <1>2, <3>1, <3>2, <3>3 DEF Attended, IsQueued, Stale
  <2> QED
    BY <2>1, <2>2
<1> QED
  BY <1>1, <1>4 DEF GrantInv, d

LEMMA InitReachesReceiverGrants ==
    ASSUME EchoInv, GrantInv, InitReachesReceiver
    PROVE  GrantInv'
<1>1. /\ Running /\ wire # <<>> /\ Head(wire).type = "init" /\ handshake' = "senderAnswered"
      /\ UNCHANGED <<snd, onGranted, crashed, methods, starts>>
  BY DEF InitReachesReceiver
<1>2. WireOK(wire) /\ ControlOK(wire, handshake)
  BY <1>1, Unpacked
<1>3. handshake = "sender"
  <2>1. 1 \in 1 .. Len(wire) /\ Head(wire) = wire[1]
    BY <1>1, <1>2, TailOfWire
  <2> QED
    BY <1>1, <1>2, <2>1 DEF ControlOK
<1> QED
  BY <1>1, <1>3 DEF GrantInv

\* What the handshake does to the proxies that wait.
LEMMA HandshakeGrants ==
    ASSUME EchoInv, GrantInv, Running, handshake \in {"receiver", "senderAnswered"}, snd' = SenderInitialized(snd)
    PROVE  /\ Attended(snd', onGranted)
           /\ Stale(snd') => handshake = "receiver"
<1> DEFINE d == snd'
<1>1. /\ SenderOK(snd) /\ QueuedAnew(snd, onGranted) /\ Linked(snd, wire, handshake, rcv)
      /\ Attended(snd, onGranted) /\ ~Stale(snd)
  BY Unpacked DEF GrantInv
<1>2. Anew(snd, d)
  BY <1>1, SenderInitializedFits
<1> HIDE DEF d
<1>3. handshake = "senderAnswered" => ~snd.partlySent
  BY <1>1 DEF Linked, Stale
<1>4. Stale(d) => handshake = "receiver"
  BY <1>2, <1>3 DEF Anew, Stale
<1>5. Attended(d, onGranted)
  BY <1>1, <1>2 DEF Anew, Attended, IsQueued, QueuedAnew, Stale
<1> QED
  BY <1>4, <1>5 DEF d

\* An end starts over for the first time, when partlySent is not stale.
LEMMA StartsOverFirst ==
    ASSUME EchoInv, GrantInv, StartsOnce, StartsOver
    PROVE  Running /\ ~Stale(snd) /\ starts' >= 1
<1>1. Running /\ starts < MaxStarts /\ starts' = starts + 1 /\ starts \in Nat /\ MaxStarts \in Nat
  BY EchoAssumption DEF StartsOver, EchoInv
<1>2. ~(starts >= 1) /\ starts' >= 1
  BY <1>1 DEF StartsOnce
<1> QED
  BY <1>1, <1>2 DEF GrantInv

LEMMA SenderStartsOverGrants ==
    ASSUME EchoInv, GrantInv, StartsOnce, SenderRestarts \/ SenderResets
    PROVE  GrantInv'
<1>1. StartsOver /\ handshake' = "sender" /\ crashed' = crashed
  BY DEF SenderRestarts, SenderResets
<1>2. Running /\ ~Stale(snd) /\ starts' >= 1
  BY <1>1, StartsOverFirst
<1> DEFINE d == snd'
<1>3. ~Stale(d) /\ Attended(d, onGranted')
  <2>1. CASE SenderRestarts
    BY <2>1 DEF SenderRestarts, FreshSender, Stale, Attended
  <2>2. CASE SenderResets
    <3>1. SenderType(snd)
      BY <1>2, Unpacked
    <3>2. /\ d.requesters = snd.requesters /\ d.serializer = snd.serializer /\ d.partlySent = snd.partlySent
          /\ d.sending = snd.sending /\ onGranted' = onGranted
      BY <2>2, <3>1 DEF SenderResets, SenderType
    <3> HIDE DEF d
    <3> QED
      BY <1>2, <3>2 DEF GrantInv, Stale, Attended, IsQueued
  <2> QED
    BY <2>1, <2>2
<1> QED
  BY <1>1, <1>3 DEF GrantInv, d

LEMMA ReceiverStartsOverGrants ==
    ASSUME EchoInv, GrantInv, StartsOnce, ReceiverRestarts \/ ReceiverResets
    PROVE  GrantInv'
<1>1. StartsOver /\ handshake' = "receiver" /\ UNCHANGED <<snd, onGranted, crashed>>
  BY DEF ReceiverRestarts, ReceiverResets
<1>2. ~Stale(snd) /\ starts' >= 1
  BY <1>1, StartsOverFirst
<1> QED
  BY <1>1, <1>2 DEF GrantInv

LEMMA GrantInvStep ==
    ASSUME StartsOnce
    PROVE  EchoInv /\ GrantInv /\ [Next]_vars => GrantInv'
<1> SUFFICES ASSUME EchoInv, GrantInv, [Next]_vars
             PROVE  GrantInv'
  OBVIOUS
<1>1. ASSUME NEW p \in Proxies, RequestSend(p)
      PROVE  GrantInv'
  BY <1>1, RequestSendGrants
<1>2. ASSUME NEW p \in Proxies, CancelRequestSend(p)
      PROVE  GrantInv'
  BY <1>2, CancelRequestSendGrants
<1>3. ASSUME NEW size \in Sizes, SendStreamAvailable(size)
      PROVE  GrantInv'
  <2>1. /\ crashed' = "no" /\ (Stale(snd') => Stale(snd))
        /\ Attended(snd, onGranted) => Attended(snd', onGranted')
    BY <1>3, SendStreamAvailableKeepsInv
  <2>2. UNCHANGED <<handshake, starts>>
    BY <1>3 DEF SendStreamAvailable
  <2> QED
    BY <2>1, <2>2 DEF GrantInv
<1>4. ASSUME NEW hold \in BOOLEAN, ReceivedMessage(hold)
      PROVE  GrantInv'
  <2>1. crashed' = "no"
    BY <1>4, ReceivedMessageKeepsInv
  <2> QED
    BY <1>4, <2>1, SenderRests DEF ReceivedMessage
<1>5. ASSUME NEW hold \in BOOLEAN, NEW n \in 0 .. MaxPieces, ReaderReleased(n, hold)
      PROVE  GrantInv'
  <2>1. crashed' = "no"
    BY <1>5, ReaderReleasedKeepsInv
  <2> QED
    BY <1>5, <2>1, SenderRests DEF ReaderReleased
<1>6. ASSUME NEW hold \in BOOLEAN, MethodDone(hold)
      PROVE  GrantInv'
  <2>1. crashed' = "no"
    BY <1>6, MethodDoneKeepsInv
  <2> QED
    BY <1>6, <2>1, SenderRests DEF MethodDone
<1>7. CASE InitReachesReceiver
  BY <1>7, InitReachesReceiverGrants
<1>8. CASE InitResponseReachesSender \/ InitReachesSender
  <2>1. /\ Running /\ handshake \in {"receiver", "senderAnswered"} /\ snd' = SenderInitialized(snd)
        /\ UNCHANGED <<onGranted, crashed, starts>> /\ handshake' \in {"receiverAnswered", "none"}
    BY <1>8 DEF InitResponseReachesSender, InitReachesSender
  <2>2. Attended(snd', onGranted) /\ (Stale(snd') => handshake = "receiver")
    BY <2>1, HandshakeGrants
  <2> QED
    BY <2>1, <2>2 DEF GrantInv
<1>9. CASE InitResponseReachesReceiver
  BY <1>9 DEF InitResponseReachesReceiver, GrantInv
<1>10. CASE SenderRestarts \/ SenderResets
  BY <1>10, SenderStartsOverGrants
<1>11. CASE ReceiverRestarts \/ ReceiverResets
  BY <1>11, ReceiverStartsOverGrants
<1>12. CASE UNCHANGED vars
  BY <1>12 DEF vars, GrantInv
<1> QED
  BY <1>1, <1>2, <1>3, <1>4, <1>5, <1>6, <1>7, <1>8, <1>9, <1>10, <1>11, <1>12
     DEF Next, Connection, Send, Receive, Release, Done

LEMMA InitGrantInv == Init => GrantInv
BY DEF Init, GrantInv, Attended, Stale, FreshSender

\* Neither a message that is misread nor a proxy that is lost ends the program when an end
\* is power cycled, or reset between methods, at any time, once.
THEOREM EchoNeverCrashes ==
    ASSUME ResetsWhenIdle, DoneInTime, StartsOnce
    PROVE  Spec => []NeverCrashes
<1>1. EchoInv /\ [Next]_vars => EchoInv'
  BY EchoInvStep
<1>2. EchoInv /\ GrantInv /\ [Next]_vars => GrantInv'
  BY GrantInvStep
<1>3. GrantInv => NeverCrashes
  BY DEF GrantInv, NeverCrashes
<1> QED
  BY <1>1, <1>2, <1>3, InitEchoInv, InitGrantInv, PTL DEF Spec
=============================================================================
