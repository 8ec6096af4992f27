------------------------ MODULE SesameWindowed_proofs ------------------------
(***************************************************************************)
(* Proofs about SesameWindowed, for buffers and messages of any size and   *)
(* any number of power cycles and resets that do not cross a handshake of  *)
(* the other end.  The argument is conservation: what a sender may send,   *)
(* what is on the wire, what the receiver holds and has not given back,    *)
(* and what it is giving back, are together never more than the receiver's *)
(* buffer.  A handshake sets the window anew; the rest of the invariant    *)
(* says that nothing of an earlier session is left when that happens.      *)
(*                                                                         *)
(* The predicates are about the states of the two ends as values: s is the *)
(* state of p and r that of the other end.                                 *)
(***************************************************************************)
EXTENDS SesameWindowed, FiniteSetTheorems, SequenceTheorems, TLAPS

Handshake == {"init", "initResponse"}

\* The window s really has: what is being sent is as good as subtracted.
Net(s) == (s.window + Modulus - Sending(s)) % Modulus

\* The window that the packets out give to the end with the given epoch
GrantOf(epoch, packet) ==
    IF packet.op = "releaseWindow" /\ packet.epoch = epoch THEN packet.window ELSE 0
Granted(out, epoch) == Total([i \in DOMAIN out |-> GrantOf(epoch, out[i])])

\* What one end knows by itself.  Uninitialised, it does nothing.  What it sends fits,
\* also when a handshake sets its window anew, with room for an initResponse.
Uninitialized(s) ==
    /\ s.window = 0 /\ s.released = 0 /\ s.requested = 0
    /\ s.reader = NoPacket /\ s.sendInitResponse = FALSE
    /\ s.sending \in {"off", "init", "no"}

Local(p, s) ==
    /\ s \in PeerStates
    /\ ~s.initialized => Uninitialized(s)
    /\ s.requested <= MaxSendMessageSize(p)
    /\ s.sending = "filling" =>
           s.size <= MaxSendMessageSize(p) /\ MessageSize(s.size + 1) + ReleaseWindowSize <= s.window
    /\ s.sending = "message" => s.size + ReleaseWindowSize <= OwnBufferSize[Other(p)]
    /\ s.sending \in {"initResponse", "releaseWindow"} => s.size = ReleaseWindowSize
    /\ s.sendInitResponse => Net(s) >= ReleaseWindowSize
    /\ s.reader # NoPacket => s.reader.epoch = s.epoch

\* Conservation of the window from p, in state s, to the other end, in state r
Conserved(p, s, r) ==
    Net(s) + Flight(s.out, r.epoch) + r.reader.size + r.released + Granted(r.out, s.epoch)
        <= OwnBufferSize[Other(p)]

\* The packets of s carry no incarnation of r that is yet to come, and once r has
\* taken part in a handshake, the current one.
Current(s, r) ==
    /\ s.other <= r.epoch
    /\ \A i \in DOMAIN s.out : s.out[i].op \notin Handshake => s.out[i].epoch <= r.epoch
    /\ r.initialized => \A i \in DOMAIN s.out : s.out[i].op \notin Handshake => s.out[i].epoch = r.epoch
    /\ r.initialized /\ s.initialized => s.other = r.epoch

\* An init of p is on the wire: the last thing p said, and nobody has heard of it.
InitUnderWay(p, s, r) ==
    \A i \in DOMAIN s.out : s.out[i].op = "init" =>
        /\ i = Len(s.out) /\ ~s.initialized
        /\ s.out[i].epoch = s.epoch /\ s.out[i].window = OwnBufferSize[p]
        /\ r.other # s.epoch /\ ~r.sendInitResponse
        /\ \A j \in DOMAIN r.out : r.out[j].op \notin Handshake /\ r.out[j].epoch # s.epoch

\* p owes an initResponse: the other end is silent until it gets it.
ResponseOwed(s, r) ==
    s.sendInitResponse =>
        /\ s.initialized /\ s.other = r.epoch /\ s.reader = NoPacket
        /\ ~r.initialized /\ r.out = <<>>
        /\ \A i \in DOMAIN s.out : /\ s.out[i].op \notin Handshake
                                   /\ s.out[i].op = "releaseWindow" => s.out[i].epoch # r.epoch

\* An initResponse of p is on the wire: what follows it belongs to the new session,
\* and p has nothing to give back of an earlier one.
ResponseUnderWay(p, s, r) ==
    \A i \in DOMAIN s.out : s.out[i].op = "initResponse" =>
        /\ s.initialized /\ s.other = r.epoch /\ s.reader = NoPacket /\ s.released = 0
        /\ ~s.sendInitResponse /\ ~r.initialized /\ r.out = <<>>
        /\ s.out[i].epoch = s.epoch /\ s.out[i].window = OwnBufferSize[p] /\ s.out[i].size = ReleaseWindowSize
        /\ \A j \in DOMAIN s.out :
               /\ j # i => s.out[j].op \notin Handshake
               /\ s.out[j].op = "releaseWindow" => s.out[j].epoch # r.epoch
               /\ j > i => s.out[j].epoch = r.epoch

Directed(p, s, r) ==
    /\ Local(p, s)
    /\ Conserved(p, s, r)
    /\ Current(s, r)
    /\ InitUnderWay(p, s, r) /\ ResponseOwed(s, r) /\ ResponseUnderWay(p, s, r)

SessionInv == \A p \in Peers : Directed(p, peers[p], peers[Other(p)])

-----------------------------------------------------------------------------
(* Sizes.                                                                   *)

LEMMA ModulusFacts == Modulus \in Nat /\ Modulus >= 16 /\ \A x \in Uint16 : x \in Nat /\ x <= Modulus - 1
BY SMT DEF Modulus, Uint16

LEMMA SizeFacts ==
    /\ ReleaseWindowSize = 5 /\ MessageSize(1) = 3
    /\ \A n \in Nat : MessageSize(n) \in Nat /\ MessageSize(n) >= n + 2
    /\ \A n \in Nat : n >= 1 => MessageSize(n) <= n + n + 1
<1>1. \A n \in Nat : n \div 254 \in Nat /\ (n >= 1 => n \div 254 <= n - 1)
  BY SMT
<1>2. 3 \div 254 = 0 /\ 1 \div 254 = 0
  BY SMT
<1> QED
  BY <1>1, <1>2, SMT DEF ReleaseWindowSize, MessageSize, ControlSize

LEMMA MessageSizeGrows ==
    ASSUME NEW m \in Nat, NEW n \in Nat, m <= n
    PROVE  MessageSize(m) <= MessageSize(n)
<1>1. m \div 254 <= n \div 254 /\ m \div 254 \in Nat /\ n \div 254 \in Nat
  BY SMT
<1> QED
  BY <1>1, SMT DEF MessageSize

LEMMA PeerFacts ==
    ASSUME NEW p \in Peers
    PROVE  /\ Other(p) \in Peers /\ Other(p) # p /\ Other(Other(p)) = p /\ Peers = {p, Other(p)}
           /\ OwnBufferSize[p] \in Uint16 /\ OwnBufferSize[p] >= 11
           /\ OwnBufferSize[Other(p)] \in Uint16 /\ OwnBufferSize[Other(p)] >= 11
<1>1. PICK a, b \in Peers : a # b /\ Peers = {a, b}
  BY WindowAssumption
<1>2. \A x \in Peers : Other(x) \in Peers /\ Other(x) # x
  BY <1>1 DEF Other
<1>3. \A x \in Peers : Other(Other(x)) = x /\ Peers = {x, Other(x)}
  BY <1>1, <1>2
<1>4. \A x \in Peers : OwnBufferSize[x] \in Uint16 /\ OwnBufferSize[x] >= 11
  BY WindowAssumption, SizeFacts, ModulusFacts DEF Uint16
<1> QED
  BY <1>2, <1>3, <1>4

\* A message that may be requested fits the other's buffer, with a release or a response.
LEMMA MaxFits ==
    ASSUME NEW p \in Peers
    PROVE  /\ MaxSendMessageSize(p) \in Nat
           /\ \A n \in Nat : n <= MaxSendMessageSize(p) =>
                  MessageSize(n + 1) + ReleaseWindowSize <= OwnBufferSize[Other(p)]
<1> DEFINE usable == IF OwnBufferSize[p] < OwnBufferSize[Other(p)] THEN OwnBufferSize[p] ELSE OwnBufferSize[Other(p)]
<1>1. usable \in Nat /\ usable >= 11 /\ usable <= OwnBufferSize[Other(p)]
  BY PeerFacts, ModulusFacts DEF Uint16
<1>2. MaxSendMessageSize(p) = (usable - 9) \div 2
  BY <1>1, SizeFacts DEF MaxSendMessageSize
<1> HIDE DEF usable
<1>3. MaxSendMessageSize(p) \in Nat /\ 2 * MaxSendMessageSize(p) + 9 <= usable
  BY <1>1, <1>2
<1>4. ASSUME NEW n \in Nat, n <= MaxSendMessageSize(p)
      PROVE  MessageSize(n + 1) + ReleaseWindowSize <= OwnBufferSize[Other(p)]
  <2>1. MessageSize(n + 1) \in Nat /\ MessageSize(n + 1) <= (n + 1) + (n + 1) + 1
    BY SizeFacts
  <2> QED
    BY <1>1, <1>3, <1>4, <2>1, SizeFacts, PeerFacts, ModulusFacts DEF Uint16
<1> QED
  BY <1>3, <1>4

-----------------------------------------------------------------------------
(* Sums.                                                                    *)

Units(f) == UNION {{i} \X (1 .. f[i]) : i \in DOMAIN f}

LEMMA TotalType ==
    ASSUME NEW n \in Nat, NEW f \in [1 .. n -> Uint16]
    PROVE  /\ IsFiniteSet(Units(f)) /\ Total(f) = Cardinality(Units(f)) /\ Total(f) \in Nat
           /\ Units(f) = {u \in (1 .. n) \X (1 .. Modulus) : u[2] <= f[u[1]]}
<1> DEFINE U == {u \in (1 .. n) \X (1 .. Modulus) : u[2] <= f[u[1]]}
<1>1. Units(f) = U
  BY ModulusFacts DEF Units, Uint16
<1>2. IsFiniteSet((1 .. n) \X (1 .. Modulus))
  <2>1. 1 \in Int /\ n \in Int /\ Modulus \in Int
    BY ModulusFacts
  <2>2. IsFiniteSet(1 .. n) /\ IsFiniteSet(1 .. Modulus)
    BY <2>1, FS_Interval
  <2> QED
    BY <2>2, FS_Product, Zenon
<1>3. IsFiniteSet(U)
  <2>1. U \in SUBSET ((1 .. n) \X (1 .. Modulus))
    OBVIOUS
  <2> QED
    BY <1>2, <2>1, FS_Subset
<1> QED
  BY <1>1, <1>3, FS_CardinalityType DEF Total, Units

LEMMA TotalZero ==
    ASSUME NEW n \in Nat, NEW f \in [1 .. n -> Uint16], \A i \in 1 .. n : f[i] = 0
    PROVE  Total(f) = 0
<1>1. Units(f) = {}
  BY TotalType, ModulusFacts DEF Uint16
<1> QED
  BY <1>1, TotalType, FS_EmptySet

LEMMA TotalLess ==
    ASSUME NEW m \in Nat, NEW n \in Nat, m <= n, NEW f \in [1 .. m -> Uint16], NEW g \in [1 .. n -> Uint16],
           \A i \in 1 .. m : f[i] = g[i]
    PROVE  Total(f) <= Total(g)
<1>1. Units(f) \in SUBSET Units(g)
  BY TotalType
<1> QED
  BY <1>1, TotalType, FS_Subset

\* The units of one place
LEMMA Place ==
    ASSUME NEW i, NEW k \in Uint16
    PROVE  IsFiniteSet({i} \X (1 .. k)) /\ Cardinality({i} \X (1 .. k)) = k
<1>1. IsFiniteSet({i}) /\ Cardinality({i}) = 1
  BY FS_Singleton
<1>2. IsFiniteSet(1 .. k) /\ Cardinality(1 .. k) = k
  BY FS_Interval, ModulusFacts DEF Uint16
<1>3. /\ IsFiniteSet({i} \X (1 .. k))
      /\ Cardinality({i} \X (1 .. k)) = Cardinality({i}) * Cardinality(1 .. k)
  BY <1>1, <1>2, FS_Product, Zenon
<1> QED
  BY <1>1, <1>2, <1>3, ModulusFacts DEF Uint16

LEMMA TotalAppend ==
    ASSUME NEW n \in Nat, NEW f \in [1 .. n -> Uint16], NEW g \in [1 .. n + 1 -> Uint16],
           \A i \in 1 .. n : f[i] = g[i]
    PROVE  Total(g) = Total(f) + g[n + 1]
<1> DEFINE A == {n + 1} \X (1 .. g[n + 1])
<1>0. n + 1 \in Nat /\ g[n + 1] \in Uint16
  OBVIOUS
<1>1. IsFiniteSet(A) /\ Cardinality(A) = g[n + 1]
  BY <1>0, Place
<1>2. Units(f) = {u \in (1 .. n) \X (1 .. Modulus) : u[2] <= f[u[1]]}
  BY TotalType
<1>3. Units(g) = {u \in (1 .. n + 1) \X (1 .. Modulus) : u[2] <= g[u[1]]}
  BY <1>0, TotalType
<1>4. Units(g) = Units(f) \cup A
  BY <1>0, <1>2, <1>3, ModulusFacts DEF Uint16
<1>5. Units(f) \cap A = {}
  BY <1>2
<1>6. IsFiniteSet(Units(f)) /\ Total(f) = Cardinality(Units(f)) /\ Total(f) \in Nat /\ Total(g) = Cardinality(Units(g))
  BY <1>0, TotalType
<1>7. Cardinality(Units(g)) = Cardinality(Units(f)) + Cardinality(A) - 0
  BY <1>1, <1>4, <1>5, <1>6, FS_Union, FS_EmptySet
<1> QED
  BY <1>0, <1>1, <1>6, <1>7, ModulusFacts DEF Uint16

LEMMA TotalTail ==
    ASSUME NEW n \in Nat, NEW f \in [1 .. n -> Uint16], NEW g \in [1 .. n + 1 -> Uint16],
           \A i \in 1 .. n : f[i] = g[i + 1]
    PROVE  Total(g) = g[1] + Total(f)
<1> DEFINE A == {1} \X (1 .. g[1])
           B == {u \in (2 .. n + 1) \X (1 .. Modulus) : u[2] <= g[u[1]]}
           h == [u \in Units(f) |-> <<u[1] + 1, u[2]>>]
<1>0. n + 1 \in Nat /\ g[1] \in Uint16
  OBVIOUS
<1>1. IsFiniteSet(A) /\ Cardinality(A) = g[1]
  BY <1>0, Place
<1>2. Units(f) = {u \in (1 .. n) \X (1 .. Modulus) : u[2] <= f[u[1]]}
  BY TotalType
<1>3. Units(g) = {u \in (1 .. n + 1) \X (1 .. Modulus) : u[2] <= g[u[1]]}
  BY <1>0, TotalType
<1>4. Units(g) = B \cup A
  BY <1>0, <1>3, ModulusFacts DEF Uint16
<1>5. B \cap A = {}
  OBVIOUS
<1>6. IsFiniteSet(Units(f)) /\ Total(f) = Cardinality(Units(f)) /\ Total(f) \in Nat /\ Total(g) = Cardinality(Units(g))
  BY <1>0, TotalType
<1>7. h \in Bijection(Units(f), B)
  <2>1. h \in [Units(f) -> B]
    BY <1>2
  <2>2. \A u, v \in Units(f) : h[u] = h[v] => u = v
    BY <1>2
  <2>3. ASSUME NEW v \in B
        PROVE  \E u \in Units(f) : h[u] = v
    <3>1. PICK i \in 2 .. n + 1, k \in 1 .. Modulus : v = <<i, k>> /\ k <= g[i]
      OBVIOUS
    <3>2. i - 1 \in 1 .. n /\ (i - 1) + 1 = i
      BY <3>1
    <3>3. <<i - 1, k>> \in Units(f)
      BY <1>2, <3>1, <3>2
    <3> QED
      BY <3>1, <3>2, <3>3
  <2> HIDE DEF h, B
  <2>4. DOMAIN h = Units(f)
    BY <2>1
  <2>5. h \in Injection(Units(f), B)
    BY <2>1, <2>2, <2>4 DEF Injection, IsInjective
  <2>6. h \in Surjection(Units(f), B)
    BY <2>1, <2>3 DEF Surjection
  <2> QED
    BY <2>5, <2>6 DEF Bijection
<1> HIDE DEF h, A, B
<1>8. IsFiniteSet(B) /\ Cardinality(B) = Cardinality(Units(f))
  BY <1>6, <1>7, FS_Bijection DEF ExistsBijection
<1>9. Cardinality(Units(g)) = Cardinality(B) + Cardinality(A) - 0
  BY <1>1, <1>4, <1>5, <1>8, FS_Union, FS_EmptySet
<1> QED
  BY <1>0, <1>1, <1>6, <1>8, <1>9, ModulusFacts DEF Uint16

-----------------------------------------------------------------------------
(* What is on the wire.                                                     *)

LEMMA PacketSizes ==
    ASSUME NEW packet \in Packets, NEW epoch
    PROVE  SizeOf(epoch, packet) \in Uint16 /\ GrantOf(epoch, packet) \in Uint16
BY ModulusFacts DEF Packets, SizeOf, GrantOf, Uint16

LEMMA WireType ==
    ASSUME NEW out \in Seq(Packets), NEW epoch
    PROVE  /\ Len(out) \in Nat /\ DOMAIN out = 1 .. Len(out)
           /\ [i \in DOMAIN out |-> SizeOf(epoch, out[i])] \in [1 .. Len(out) -> Uint16]
           /\ [i \in DOMAIN out |-> GrantOf(epoch, out[i])] \in [1 .. Len(out) -> Uint16]
           /\ Flight(out, epoch) \in Nat /\ Granted(out, epoch) \in Nat
<1>1. Len(out) \in Nat /\ DOMAIN out = 1 .. Len(out) /\ \A i \in 1 .. Len(out) : out[i] \in Packets
  OBVIOUS
<1>2. /\ [i \in DOMAIN out |-> SizeOf(epoch, out[i])] \in [1 .. Len(out) -> Uint16]
      /\ [i \in DOMAIN out |-> GrantOf(epoch, out[i])] \in [1 .. Len(out) -> Uint16]
  BY <1>1, PacketSizes
<1> QED
  BY <1>1, <1>2, TotalType DEF Flight, Granted

LEMMA WireAppend ==
    ASSUME NEW out \in Seq(Packets), NEW packet \in Packets, NEW epoch
    PROVE  /\ Append(out, packet) \in Seq(Packets)
           /\ Flight(Append(out, packet), epoch) = Flight(out, epoch) + SizeOf(epoch, packet)
           /\ Granted(Append(out, packet), epoch) = Granted(out, epoch) + GrantOf(epoch, packet)
<1> DEFINE n == Len(out)
           more == Append(out, packet)
           f == [i \in DOMAIN out |-> SizeOf(epoch, out[i])]
           g == [i \in DOMAIN more |-> SizeOf(epoch, more[i])]
           a == [i \in DOMAIN out |-> GrantOf(epoch, out[i])]
           b == [i \in DOMAIN more |-> GrantOf(epoch, more[i])]
<1>1. more \in Seq(Packets) /\ n \in Nat /\ Len(more) = n + 1 /\ DOMAIN out = 1 .. n /\ DOMAIN more = 1 .. n + 1
  OBVIOUS
<1>2. (\A i \in 1 .. n : more[i] = out[i]) /\ more[n + 1] = packet
  OBVIOUS
<1>3. f \in [1 .. n -> Uint16] /\ a \in [1 .. n -> Uint16]
  BY WireType
<1> HIDE DEF more
<1>4. g \in [1 .. n + 1 -> Uint16] /\ b \in [1 .. n + 1 -> Uint16]
  BY <1>1, WireType
<1>5. \A i \in 1 .. n : f[i] = g[i] /\ a[i] = b[i]
  BY <1>1, <1>2
<1>6. g[n + 1] = SizeOf(epoch, packet) /\ b[n + 1] = GrantOf(epoch, packet)
  BY <1>1, <1>2
<1> HIDE DEF f, g, a, b, n
<1>7. Total(g) = Total(f) + g[n + 1] /\ Total(b) = Total(a) + b[n + 1]
  BY <1>1, <1>3, <1>4, <1>5, TotalAppend
<1> QED
  BY <1>1, <1>6, <1>7 DEF Flight, Granted, f, g, a, b, more

LEMMA WireTail ==
    ASSUME NEW out \in Seq(Packets), out # <<>>, NEW epoch
    PROVE  /\ Head(out) \in Packets /\ Tail(out) \in Seq(Packets)
           /\ Flight(out, epoch) = SizeOf(epoch, Head(out)) + Flight(Tail(out), epoch)
           /\ Granted(out, epoch) = GrantOf(epoch, Head(out)) + Granted(Tail(out), epoch)
<1> DEFINE less == Tail(out)
           n == Len(less)
           f == [i \in DOMAIN less |-> SizeOf(epoch, less[i])]
           g == [i \in DOMAIN out |-> SizeOf(epoch, out[i])]
           a == [i \in DOMAIN less |-> GrantOf(epoch, less[i])]
           b == [i \in DOMAIN out |-> GrantOf(epoch, out[i])]
<1>1. /\ Head(out) \in Packets /\ less \in Seq(Packets) /\ n \in Nat
      /\ Len(out) = n + 1 /\ DOMAIN out = 1 .. n + 1 /\ DOMAIN less = 1 .. n
  OBVIOUS
<1>2. (\A i \in 1 .. n : less[i] = out[i + 1]) /\ out[1] = Head(out)
  OBVIOUS
<1>3. g \in [1 .. n + 1 -> Uint16] /\ b \in [1 .. n + 1 -> Uint16]
  BY <1>1, WireType
<1> HIDE DEF less
<1>4. f \in [1 .. n -> Uint16] /\ a \in [1 .. n -> Uint16]
  BY <1>1, WireType
<1>5. \A i \in 1 .. n : f[i] = g[i + 1] /\ a[i] = b[i + 1]
  BY <1>1, <1>2
<1>6. g[1] = SizeOf(epoch, Head(out)) /\ b[1] = GrantOf(epoch, Head(out))
  BY <1>1, <1>2
<1> HIDE DEF f, g, a, b, n
<1>7. Total(g) = g[1] + Total(f) /\ Total(b) = b[1] + Total(a)
  BY <1>1, <1>3, <1>4, <1>5, TotalTail
<1> QED
  BY <1>1, <1>6, <1>7 DEF Flight, Granted, f, g, a, b, less

\* Nothing for this incarnation is on the wire.
LEMMA WireZero ==
    ASSUME NEW out \in Seq(Packets), NEW epoch
    PROVE  /\ (\A i \in DOMAIN out : SizeOf(epoch, out[i]) = 0) => Flight(out, epoch) = 0
           /\ (\A i \in DOMAIN out : GrantOf(epoch, out[i]) = 0) => Granted(out, epoch) = 0
<1> DEFINE f == [i \in DOMAIN out |-> SizeOf(epoch, out[i])]
           a == [i \in DOMAIN out |-> GrantOf(epoch, out[i])]
<1>1. f \in [1 .. Len(out) -> Uint16] /\ a \in [1 .. Len(out) -> Uint16] /\ Len(out) \in Nat /\ DOMAIN out = 1 .. Len(out)
  BY WireType
<1>2. ASSUME \A i \in DOMAIN out : SizeOf(epoch, out[i]) = 0
      PROVE  Total(f) = 0
  <2>1. \A i \in 1 .. Len(out) : f[i] = 0
    BY <1>1, <1>2
  <2> HIDE DEF f
  <2> QED
    BY <1>1, <2>1, TotalZero
<1>3. ASSUME \A i \in DOMAIN out : GrantOf(epoch, out[i]) = 0
      PROVE  Total(a) = 0
  <2>1. \A i \in 1 .. Len(out) : a[i] = 0
    BY <1>1, <1>3
  <2> HIDE DEF a
  <2> QED
    BY <1>1, <2>1, TotalZero
<1> QED
  BY <1>2, <1>3 DEF Flight, Granted

LEMMA WireEmpty ==
    ASSUME NEW epoch
    PROVE  Flight(<<>>, epoch) = 0 /\ Granted(<<>>, epoch) = 0
<1>1. <<>> \in Seq(Packets) /\ DOMAIN <<>> = {}
  OBVIOUS
<1> QED
  BY <1>1, WireZero

\* A packet that is cut only takes away.
LEMMA WireFront ==
    ASSUME NEW out \in Seq(Packets), out # <<>>, NEW epoch
    PROVE  /\ Front(out) \in Seq(Packets) /\ Len(Front(out)) <= Len(out)
           /\ \A i \in DOMAIN Front(out) : i \in DOMAIN out /\ Front(out)[i] = out[i]
           /\ Flight(Front(out), epoch) <= Flight(out, epoch)
           /\ Granted(Front(out), epoch) <= Granted(out, epoch)
<1> DEFINE less == Front(out)
           m == Len(less)
           n == Len(out)
           f == [i \in DOMAIN less |-> SizeOf(epoch, less[i])]
           g == [i \in DOMAIN out |-> SizeOf(epoch, out[i])]
           a == [i \in DOMAIN less |-> GrantOf(epoch, less[i])]
           b == [i \in DOMAIN out |-> GrantOf(epoch, out[i])]
<1>1. /\ less \in Seq(Packets) /\ n \in Nat /\ m \in Nat /\ m <= n /\ DOMAIN out = 1 .. n /\ DOMAIN less = 1 .. m
      /\ \A i \in 1 .. m : less[i] = out[i]
  BY DEF Front
<1>3. g \in [1 .. n -> Uint16] /\ b \in [1 .. n -> Uint16]
  BY <1>1, WireType
<1> HIDE DEF less
<1>4. f \in [1 .. m -> Uint16] /\ a \in [1 .. m -> Uint16]
  BY <1>1, WireType
<1>5. \A i \in 1 .. m : f[i] = g[i] /\ a[i] = b[i]
  BY <1>1
<1>6. \A i \in DOMAIN less : i \in DOMAIN out /\ less[i] = out[i]
  BY <1>1
<1> HIDE DEF f, g, a, b, n, m
<1>7. Total(f) <= Total(g) /\ Total(a) <= Total(b)
  BY <1>1, <1>3, <1>4, <1>5, TotalLess
<1> QED
  BY <1>1, <1>6, <1>7 DEF Flight, Granted, f, g, a, b, less, n, m

-----------------------------------------------------------------------------
(* The state of one end.                                                    *)

LEMMA WindowArithmetic ==
    ASSUME NEW w \in Uint16, NEW g \in Uint16, NEW z \in Uint16
    PROVE  /\ (w + Modulus - z) % Modulus \in Uint16 /\ (w + g) % Modulus \in Uint16
           /\ z <= w => (w + Modulus - z) % Modulus = w - z
           /\ w + g < Modulus => (w + g) % Modulus = w + g
           /\ ((w + Modulus - z) % Modulus) + g < Modulus =>
                  (((w + g) % Modulus) + Modulus - z) % Modulus = ((w + Modulus - z) % Modulus) + g
<1>1. \A x \in Nat : x < Modulus => x % Modulus = x /\ (x + Modulus) % Modulus = x
  BY SMT DEF Modulus
<1>2. w \in Nat /\ g \in Nat /\ z \in Nat /\ w < Modulus /\ g < Modulus /\ z < Modulus
  BY ModulusFacts
<1>3. Modulus \in Nat
  BY ModulusFacts
<1>4. w + Modulus - z \in Nat /\ w + g \in Nat
  BY <1>2, <1>3
<1>5. \A x \in Nat : x % Modulus \in Uint16
  <2>1. \A x \in Nat : x % Modulus \in Nat /\ x % Modulus < Modulus
    BY SMT DEF Modulus
  <2> QED
    BY <1>3, <2>1 DEF Uint16
<1>6. z <= w => (w + Modulus - z) % Modulus = w - z
  <2>1. z <= w => w - z \in Nat /\ w - z < Modulus /\ w + Modulus - z = (w - z) + Modulus
    BY <1>2, <1>3
  <2> QED
    BY <1>1, <2>1
<1>7. z > w => (w + Modulus - z) % Modulus = w + Modulus - z
  BY <1>1, <1>2, <1>3, <1>4
<1>8. w + g < Modulus => (w + g) % Modulus = w + g
  BY <1>1, <1>4
<1>9. w + g >= Modulus => (w + g) % Modulus = w + g - Modulus
  <2>1. w + g >= Modulus => w + g - Modulus \in Nat /\ w + g - Modulus < Modulus /\ (w + g - Modulus) + Modulus = w + g
    BY <1>2, <1>3
  <2> QED
    BY <1>1, <2>1
<1>10. ASSUME ((w + Modulus - z) % Modulus) + g < Modulus
       PROVE  (((w + g) % Modulus) + Modulus - z) % Modulus = ((w + Modulus - z) % Modulus) + g
  <2>1. CASE z <= w /\ w + g < Modulus
    <3>1. w + g - z \in Nat /\ w + g - z < Modulus /\ (w + g) + Modulus - z = (w + g - z) + Modulus
      BY <1>2, <1>3, <2>1
    <3> QED
      BY <1>1, <1>2, <1>6, <1>8, <2>1, <3>1
  <2>2. CASE z <= w /\ w + g >= Modulus
    <3>1. w - z + g < Modulus
      BY <1>6, <1>10, <2>2
    <3>2. w + g - z \in Nat /\ w + g - z < Modulus /\ (w + g - Modulus) + Modulus - z = w + g - z
      BY <1>2, <1>3, <2>2, <3>1
    <3> QED
      BY <1>1, <1>2, <1>6, <1>9, <2>2, <3>2
  <2>3. CASE z > w
    <3>1. w + Modulus - z + g < Modulus
      BY <1>7, <1>10, <2>3
    <3>2. w + g < Modulus /\ w + g + Modulus - z \in Nat /\ w + g + Modulus - z < Modulus
      BY <1>2, <1>3, <2>3, <3>1
    <3> QED
      BY <1>1, <1>2, <1>3, <1>7, <1>8, <2>3, <3>2
  <2> QED
    BY <1>2, <1>3, <2>1, <2>2, <2>3
<1> QED
  BY <1>4, <1>5, <1>6, <1>8, <1>10

LEMMA PeerTypes ==
    ASSUME NEW s \in PeerStates
    PROVE  /\ s.initialized \in BOOLEAN /\ s.sendInitResponse \in BOOLEAN
           /\ s.window \in Uint16 /\ s.released \in Uint16 /\ s.size \in Uint16 /\ s.requested \in Uint16
           /\ s.window \in Nat /\ s.released \in Nat /\ s.size \in Nat /\ s.requested \in Nat
           /\ s.reader \in Packets \cup {NoPacket} /\ s.reader.size \in Uint16 /\ s.reader.size \in Nat
           /\ s.out \in Seq(Packets) /\ s.epoch \in Nat /\ s.other \in Nat
           /\ s.epoch \in 0 .. MaxStarts /\ s.other \in 0 .. MaxStarts
           /\ s.sending \in Operations \cup {"off", "no", "filling"}
<1>1. s.reader \in Packets \cup {NoPacket}
  BY DEF PeerStates
<1>2. s.reader.size \in Uint16
  BY <1>1, ModulusFacts DEF Packets, NoPacket, Packet, Uint16
<1> QED
  BY <1>1, <1>2, ModulusFacts DEF PeerStates, Uint16

LEMMA NetFacts ==
    ASSUME NEW s \in PeerStates
    PROVE  /\ Sending(s) \in Uint16 /\ Sending(s) \in Nat /\ Net(s) \in Uint16 /\ Net(s) \in Nat
           /\ Sending(s) <= s.window => Net(s) = s.window - Sending(s)
<1>1. Sending(s) \in Uint16
  BY PeerTypes, ModulusFacts DEF Sending, Uint16
<1>2. s.window \in Uint16
  BY PeerTypes
<1>3. (s.window + Modulus - Sending(s)) % Modulus \in Uint16
  BY <1>1, <1>2, WindowArithmetic
<1>4. Sending(s) <= s.window => (s.window + Modulus - Sending(s)) % Modulus = s.window - Sending(s)
  BY <1>1, <1>2, WindowArithmetic
<1> QED
  BY <1>1, <1>3, <1>4, ModulusFacts DEF Net

-----------------------------------------------------------------------------
(* Both ends.  One end takes a step, the other stays as it is.              *)

Both(p, s, r) == Directed(p, s, r) /\ Directed(Other(p), r, s)

\* Steps that concern only the window and what is being sent
SameSession(s, t) ==
    /\ t.initialized = s.initialized /\ t.released = s.released /\ t.sendInitResponse = s.sendInitResponse
    /\ t.reader = s.reader /\ t.out = s.out /\ t.epoch = s.epoch /\ t.other = s.other

LEMMA SessionKept ==
    ASSUME NEW p \in Peers, NEW s, NEW r, NEW t, Both(p, s, r), SameSession(s, t),
           Local(p, t), Net(t) = Net(s)
    PROVE  Both(p, t, r)
<1>1. Conserved(p, t, r) /\ Conserved(Other(p), r, t)
  BY DEF Both, Directed, Conserved, SameSession
<1>2. Current(t, r) /\ Current(r, t)
  BY DEF Both, Directed, Current, SameSession
<1>3. InitUnderWay(p, t, r) /\ InitUnderWay(Other(p), r, t)
  BY DEF Both, Directed, InitUnderWay, SameSession
<1>4. ResponseOwed(t, r) /\ ResponseOwed(r, t)
  BY DEF Both, Directed, ResponseOwed, SameSession
<1>5. ResponseUnderWay(p, t, r) /\ ResponseUnderWay(Other(p), r, t)
  BY DEF Both, Directed, ResponseUnderWay, SameSession
<1> QED
  BY <1>1, <1>2, <1>3, <1>4, <1>5 DEF Both, Directed

LEMMA RequestKeeps ==
    ASSUME NEW p \in Peers, NEW s, NEW r, Both(p, s, r), s.initialized,
           NEW size \in Nat, size <= MaxSendMessageSize(p)
    PROVE  Both(p, [s EXCEPT !.requested = size], r)
<1> DEFINE t == [s EXCEPT !.requested = size]
<1>1. s \in PeerStates /\ Local(p, s)
  BY DEF Both, Directed, Local
<1>2. size \in Uint16
  <2>1. MessageSize(size + 1) \in Nat /\ MessageSize(size + 1) >= (size + 1) + 2
    BY SizeFacts
  <2>2. MessageSize(size + 1) + ReleaseWindowSize <= OwnBufferSize[Other(p)]
    BY MaxFits
  <2>3. OwnBufferSize[Other(p)] \in Nat /\ OwnBufferSize[Other(p)] <= Modulus - 1
    BY PeerFacts, ModulusFacts
  <2> QED
    BY <2>1, <2>2, <2>3, SizeFacts, ModulusFacts DEF Uint16
<1>3. t \in PeerStates
  BY <1>1, <1>2 DEF PeerStates
<1>4. SameSession(s, t) /\ t.requested = size /\ t.sending = s.sending /\ t.size = s.size /\ t.window = s.window
  BY <1>1 DEF PeerStates, SameSession
<1> HIDE DEF t
<1>5. Net(t) = Net(s)
  BY <1>4 DEF Net, Sending
<1>6. Local(p, t)
  BY <1>1, <1>3, <1>4, <1>5 DEF Local, SameSession
<1>7. Both(p, t, r)
  BY <1>4, <1>5, <1>6, SessionKept
<1> QED
  BY <1>7 DEF t

LEMMA SentKeeps ==
    ASSUME NEW p \in Peers, NEW s, NEW r, Both(p, s, r),
           s.sending \in {"init", "initResponse", "releaseWindow", "message"}
    PROVE  Both(p, [s EXCEPT !.sending = "no", !.size = 0,
                     !.window = IF s.sending = "init" THEN @ ELSE (@ + Modulus - s.size) % Modulus], r)
<1> DEFINE w == IF s.sending = "init" THEN s.window ELSE (s.window + Modulus - s.size) % Modulus
           t == [s EXCEPT !.sending = "no", !.size = 0, !.window = w]
<1>1. s \in PeerStates /\ Local(p, s)
  BY DEF Both, Directed, Local
<1>2. s.window \in Uint16 /\ s.size \in Uint16 /\ 0 \in Uint16
  BY <1>1, PeerTypes, ModulusFacts DEF Uint16
<1>3. w = Net(s)
  <2>1. CASE s.sending = "init"
    <3>1. Sending(s) = 0
      BY <2>1 DEF Sending
    <3> QED
      BY <1>1, <1>2, <2>1, <3>1, NetFacts, PeerTypes
  <2>2. CASE s.sending # "init"
    BY <2>2 DEF Net, Sending
  <2> QED
    BY <2>1, <2>2
<1>4. w \in Uint16
  BY <1>1, <1>3, NetFacts
<1> HIDE DEF w
<1>5. t \in PeerStates
  BY <1>1, <1>2, <1>4 DEF PeerStates
<1>6. SameSession(s, t) /\ t.requested = s.requested /\ t.sending = "no" /\ t.size = 0 /\ t.window = w
  BY <1>1 DEF PeerStates, SameSession
<1>7. t = [s EXCEPT !.sending = "no", !.size = 0,
                    !.window = IF s.sending = "init" THEN @ ELSE (@ + Modulus - s.size) % Modulus]
  BY DEF w
<1> HIDE DEF t
<1>8. Sending(t) = 0
  BY <1>6 DEF Sending
<1>9. Net(t) = w
  BY <1>5, <1>6, <1>8, <1>4, NetFacts, ModulusFacts
<1>10. s.initialized = FALSE => w = 0
  <2>1. s.initialized = FALSE => s.window = 0 /\ s.sending = "init"
    BY <1>1 DEF Local, Uninitialized
  <2> QED
    BY <2>1 DEF w
<1>11. ~t.initialized => Uninitialized(t)
  BY <1>1, <1>6, <1>10 DEF Local, Uninitialized, SameSession, PeerStates
<1>12. Local(p, t)
  BY <1>1, <1>3, <1>5, <1>6, <1>9, <1>11 DEF Local, SameSession
<1>13. Both(p, t, r)
  BY <1>3, <1>6, <1>9, <1>12, SessionKept
<1> QED
  BY <1>7, <1>13

\* What p puts on the wire is a packet.
LEMMA PacketTypes ==
    ASSUME NEW p \in Peers, NEW epoch \in 0 .. MaxStarts, NEW window \in Uint16
    PROVE  /\ PacketInit(p, epoch) \in Packets /\ PacketInitResponse(p, epoch) \in Packets
           /\ PacketReleaseWindow(window, epoch) \in Packets
           /\ \A n \in Nat : MessageSize(n + 1) \in Uint16 => PacketMessage(n, epoch) \in Packets
<1>1. MessageSize(ControlSize) \in Uint16 /\ ReleaseWindowSize \in Uint16 /\ 0 \in Uint16
  BY SizeFacts, ModulusFacts DEF ReleaseWindowSize, Uint16
<1>2. OwnBufferSize[p] \in Uint16
  BY PeerFacts
<1> QED
  BY <1>1, <1>2 DEF PacketInit, PacketInitResponse, PacketReleaseWindow, PacketMessage, Packet, Packets, Operations

LEMMA StreamAvailableKeeps ==
    ASSUME NEW p \in Peers, NEW s, NEW r, Both(p, s, r), s.sending = "no", s.initialized, MessageFits(s)
    PROVE  Both(p, SendMessageStreamAvailable(s), r)
<1> DEFINE t == [s EXCEPT !.sending = "filling", !.size = s.requested, !.requested = 0]
<1>1. s \in PeerStates /\ Local(p, s)
  BY DEF Both, Directed, Local
<1>2. t \in PeerStates
  <2>1. s.requested \in Uint16 /\ 0 \in Uint16
    BY <1>1, PeerTypes, ModulusFacts DEF Uint16
  <2> QED
    BY <1>1, <2>1 DEF PeerStates
<1>3. SameSession(s, t) /\ t.requested = 0 /\ t.sending = "filling" /\ t.size = s.requested /\ t.window = s.window
  BY <1>1 DEF PeerStates, SameSession
<1> HIDE DEF t
<1>4. Net(t) = Net(s)
  BY <1>3 DEF Net, Sending
<1>5. 0 <= MaxSendMessageSize(p)
  BY MaxFits
<1>6. Local(p, t)
  BY <1>1, <1>2, <1>3, <1>4, <1>5 DEF Local, SameSession, MessageFits
<1>7. Both(p, t, r)
  BY <1>3, <1>4, <1>6, SessionKept
<1> QED
  BY <1>7 DEF t, SendMessageStreamAvailable

\* The packet is on the wire, last, and what it counts is subtracted from the window.
OnWire(s, t, packet) ==
    /\ Net(s) = s.window /\ Net(t) = s.window - packet.size
    /\ \A epoch : /\ Net(t) + Flight(t.out, epoch) <= Net(s) + Flight(s.out, epoch)
                  /\ Granted(t.out, epoch) = Granted(s.out, epoch) + GrantOf(epoch, packet)
    /\ Len(s.out) \in Nat /\ Len(t.out) = Len(s.out) + 1
    /\ DOMAIN s.out = 1 .. Len(s.out) /\ DOMAIN t.out = 1 .. Len(s.out) + 1
    /\ t.out[Len(s.out) + 1] = packet /\ \A i \in DOMAIN s.out : t.out[i] = s.out[i]

LEMMA PutOnWire ==
    ASSUME NEW s \in PeerStates, NEW t \in PeerStates, NEW packet \in Packets,
           Sending(s) = 0, packet.size <= s.window, t.window = s.window,
           t.sending \in {"initResponse", "releaseWindow", "message"}, t.size = packet.size,
           t.out = Append(s.out, packet)
    PROVE  OnWire(s, t, packet)
<1>1. s.window \in Nat /\ packet.size \in Nat /\ s.out \in Seq(Packets)
  BY PeerTypes, ModulusFacts DEF Packets
<1>2. Sending(t) = packet.size
  BY DEF Sending
<1>3. Net(s) = s.window /\ Net(t) = s.window - packet.size
  BY <1>1, <1>2, NetFacts
<1>4. ASSUME NEW epoch
      PROVE  /\ Net(t) + Flight(t.out, epoch) <= Net(s) + Flight(s.out, epoch)
             /\ Granted(t.out, epoch) = Granted(s.out, epoch) + GrantOf(epoch, packet)
  <2>1. /\ Flight(t.out, epoch) = Flight(s.out, epoch) + SizeOf(epoch, packet)
        /\ Granted(t.out, epoch) = Granted(s.out, epoch) + GrantOf(epoch, packet)
    BY <1>1, WireAppend
  <2>2. SizeOf(epoch, packet) \in Nat /\ SizeOf(epoch, packet) <= packet.size /\ Flight(s.out, epoch) \in Nat
    BY <1>1, WireType DEF SizeOf
  <2> QED
    BY <1>1, <1>3, <2>1, <2>2
<1>5. /\ Len(t.out) = Len(s.out) + 1 /\ DOMAIN s.out = 1 .. Len(s.out) /\ DOMAIN t.out = 1 .. Len(s.out) + 1
      /\ Len(s.out) \in Nat /\ t.out[Len(s.out) + 1] = packet /\ \A i \in DOMAIN s.out : t.out[i] = s.out[i]
  BY <1>1
<1> QED
  BY <1>3, <1>4, <1>5 DEF OnWire

LEMMA InitResponseKeeps ==
    ASSUME NEW p \in Peers, NEW s, NEW r, Both(p, s, r), s.sending = "no", s.initialized,
           s.sendInitResponse, s.reader = NoPacket
    PROVE  Both(p, SendInitResponse(p, s), r)
<1> DEFINE packet == PacketInitResponse(p, s.epoch)
           t == SendInitResponse(p, s)
           n == Len(s.out)
<1>1. s \in PeerStates /\ r \in PeerStates /\ Local(p, s) /\ Local(Other(p), r)
  BY DEF Both, Directed, Local
<1>2. /\ packet \in Packets /\ packet.size = ReleaseWindowSize /\ packet.op = "initResponse"
      /\ packet.epoch = s.epoch /\ packet.window = OwnBufferSize[p]
  <2>1. s.epoch \in 0 .. MaxStarts /\ s.window \in Uint16
    BY <1>1, PeerTypes
  <2> QED
    BY <2>1, PacketTypes DEF PacketInitResponse, Packet, ReleaseWindowSize
<1> HIDE DEF packet
<1>3. /\ t.initialized = s.initialized /\ t.released = 0 /\ t.sendInitResponse = FALSE
      /\ t.reader = s.reader /\ t.out = Append(s.out, packet) /\ t.epoch = s.epoch /\ t.other = s.other
      /\ t.requested = s.requested /\ t.sending = "initResponse" /\ t.size = packet.size /\ t.window = s.window
  BY <1>1 DEF PeerStates, SendInitResponse, SendPacket, packet
<1>4. t \in PeerStates
  <2>1. Append(s.out, packet) \in Seq(Packets) /\ packet.size \in Uint16 /\ 0 \in Uint16
    <3>1. s.out \in Seq(Packets)
      BY <1>1, PeerTypes
    <3>2. packet.size \in Uint16 /\ 0 \in Uint16
      BY <1>2, ModulusFacts DEF Packets, Uint16
    <3> QED
      BY <1>2, <3>1, <3>2
  <2>2. "initResponse" \in Operations
    BY DEF Operations
  <2> QED
    BY <1>1, <2>1, <2>2 DEF PeerStates, SendInitResponse, SendPacket, packet
<1> HIDE DEF t
<1>5. Sending(s) = 0 /\ packet.size <= s.window
  <2>1. Sending(s) = 0
    BY DEF Sending
  <2>2. Net(s) >= ReleaseWindowSize
    BY <1>1 DEF Local
  <2>3. s.window \in Nat /\ 0 <= s.window
    BY <1>1, PeerTypes
  <2>4. Net(s) = s.window
    BY <1>1, <2>1, <2>3, NetFacts
  <2> QED
    BY <1>2, <2>1, <2>2, <2>3, <2>4
<1>6. /\ Net(t) + Flight(t.out, r.epoch) <= Net(s) + Flight(s.out, r.epoch)
      /\ Granted(t.out, r.epoch) = Granted(s.out, r.epoch)
      /\ n \in Nat /\ DOMAIN s.out = 1 .. n /\ DOMAIN t.out = 1 .. n + 1
      /\ t.out[n + 1] = packet /\ \A i \in DOMAIN s.out : t.out[i] = s.out[i]
  <2>1. t.sending \in {"initResponse", "releaseWindow", "message"}
    BY <1>3
  <2>2. OnWire(s, t, packet)
    BY <1>1, <1>2, <1>3, <1>4, <1>5, <2>1, PutOnWire
  <2>3. GrantOf(r.epoch, packet) = 0
    BY <1>2 DEF GrantOf
  <2>4. s.out \in Seq(Packets) /\ Granted(s.out, r.epoch) \in Nat
    BY <1>1, PeerTypes, WireType
  <2> QED
    BY <2>2, <2>3, <2>4 DEF OnWire
<1>7. /\ s.other = r.epoch /\ ~r.initialized /\ r.out = <<>>
      /\ \A i \in DOMAIN s.out : /\ s.out[i].op \notin Handshake
                                 /\ s.out[i].op = "releaseWindow" => s.out[i].epoch # r.epoch
  BY DEF Both, Directed, ResponseOwed
<1>8. Local(p, t)
  <2>1. Net(t) \in Nat
    BY <1>4, NetFacts
  <2> QED
    BY <1>1, <1>2, <1>3, <1>4, <2>1 DEF Local
<1>9. Conserved(p, t, r)
  <2>1. Conserved(p, s, r)
    BY DEF Both, Directed
  <2>2. /\ Net(t) \in Nat /\ Net(s) \in Nat /\ Flight(t.out, r.epoch) \in Nat /\ Flight(s.out, r.epoch) \in Nat
        /\ r.reader.size \in Nat /\ r.released \in Nat /\ Granted(r.out, s.epoch) \in Nat
        /\ OwnBufferSize[Other(p)] \in Nat
    BY <1>1, <1>4, NetFacts, PeerTypes, WireType, PeerFacts, ModulusFacts
  <2>3. Net(t) + Flight(t.out, r.epoch) <= Net(s) + Flight(s.out, r.epoch) /\ t.epoch = s.epoch
    BY <1>3, <1>6
  <2> QED
    BY <2>1, <2>2, <2>3 DEF Conserved
<1>10. Conserved(Other(p), r, t)
  <2>1. Conserved(Other(p), r, s)
    BY DEF Both, Directed
  <2>2. /\ Net(r) \in Nat /\ Flight(r.out, s.epoch) \in Nat /\ s.reader.size \in Nat /\ s.released \in Nat
        /\ Granted(s.out, r.epoch) \in Nat /\ OwnBufferSize[Other(Other(p))] \in Nat
    BY <1>1, NetFacts, PeerTypes, WireType, PeerFacts, ModulusFacts
  <2> QED
    BY <1>3, <1>6, <2>1, <2>2 DEF Conserved
<1>11. Current(t, r) /\ Current(r, t)
  <2>1. Current(s, r) /\ Current(r, s)
    BY DEF Both, Directed
  <2>2. \A i \in DOMAIN t.out : t.out[i].op \in Handshake \/ i \in DOMAIN s.out
    BY <1>2, <1>6 DEF Handshake
  <2> QED
    BY <1>3, <1>6, <2>1, <2>2 DEF Current
<1>12. InitUnderWay(p, t, r) /\ InitUnderWay(Other(p), r, t)
  <2>1. \A i \in DOMAIN t.out : t.out[i].op # "init"
    BY <1>2, <1>6, <1>7 DEF Handshake
  <2>2. DOMAIN r.out = {}
    BY <1>7
  <2> QED
    BY <2>1, <2>2 DEF InitUnderWay
<1>13. ResponseOwed(t, r) /\ ResponseOwed(r, t)
  BY <1>3, <1>7 DEF ResponseOwed, Both, Directed
<1>14. ResponseUnderWay(p, t, r) /\ ResponseUnderWay(Other(p), r, t)
  <2>1. DOMAIN r.out = {}
    BY <1>7
  <2>2. \A i \in DOMAIN t.out : t.out[i].op = "initResponse" => i = n + 1
    BY <1>2, <1>6, <1>7 DEF Handshake
  <2>3. \A j \in DOMAIN t.out : /\ j # n + 1 => t.out[j].op \notin Handshake
                                /\ t.out[j].op = "releaseWindow" => t.out[j].epoch # r.epoch
                                /\ ~(j > n + 1)
    BY <1>2, <1>6, <1>7
  <2> QED
    BY <1>2, <1>3, <1>6, <1>7, <2>1, <2>2, <2>3 DEF ResponseUnderWay
<1> QED
  BY <1>8, <1>9, <1>10, <1>11, <1>12, <1>13, <1>14, <1>1 DEF Both, Directed, t

\* p puts a packet of its session on the wire, and what it gives back moves with it.
LEMMA SpeakKeeps ==
    ASSUME NEW p \in Peers, NEW s, NEW r, Both(p, s, r), s.initialized,
           NEW t \in PeerStates, NEW packet \in Packets, OnWire(s, t, packet), Local(p, t),
           t.initialized = s.initialized, t.sendInitResponse = s.sendInitResponse, t.reader = s.reader,
           t.epoch = s.epoch, t.other = s.other, packet.epoch = s.other,
           \/ packet.op = "message" /\ t.released = s.released
           \/ /\ packet.op = "releaseWindow" /\ t.released = 0 /\ packet.window = s.released
              /\ ~s.sendInitResponse /\ s.released # 0
    PROVE  Both(p, t, r)
<1> DEFINE n == Len(s.out)
<1>1. s \in PeerStates /\ r \in PeerStates
  BY DEF Both, Directed, Local
<1>2. /\ \A i \in DOMAIN t.out : i \in DOMAIN s.out \/ i = n + 1
      /\ DOMAIN s.out \subseteq DOMAIN t.out /\ n + 1 \in DOMAIN t.out /\ \A i \in DOMAIN s.out : n + 1 > i
      /\ t.out[n + 1] = packet /\ \A i \in DOMAIN s.out : t.out[i] = s.out[i]
  BY DEF OnWire
<1>3. packet.op \notin Handshake
  BY DEF Handshake
<1>4. /\ ~r.sendInitResponse /\ \A i \in DOMAIN r.out : r.out[i].op # "initResponse"
      /\ \A i \in DOMAIN s.out : s.out[i].op # "init"
  BY DEF Both, Directed, ResponseOwed, ResponseUnderWay, InitUnderWay
<1>5. Conserved(p, t, r)
  <2>1. Conserved(p, s, r)
    BY DEF Both, Directed
  <2>2. /\ Net(t) \in Nat /\ Net(s) \in Nat /\ Flight(t.out, r.epoch) \in Nat /\ Flight(s.out, r.epoch) \in Nat
        /\ r.reader.size \in Nat /\ r.released \in Nat /\ Granted(r.out, s.epoch) \in Nat
        /\ OwnBufferSize[Other(p)] \in Nat
    BY <1>1, NetFacts, PeerTypes, WireType, PeerFacts, ModulusFacts
  <2>3. Net(t) + Flight(t.out, r.epoch) <= Net(s) + Flight(s.out, r.epoch)
    BY DEF OnWire
  <2> QED
    BY <2>1, <2>2, <2>3 DEF Conserved
<1>6. Conserved(Other(p), r, t)
  <2>1. Conserved(Other(p), r, s)
    BY DEF Both, Directed
  <2>2. /\ Net(r) \in Nat /\ Flight(r.out, s.epoch) \in Nat /\ s.reader.size \in Nat /\ s.released \in Nat
        /\ Granted(s.out, r.epoch) \in Nat /\ OwnBufferSize[Other(Other(p))] \in Nat
    BY <1>1, NetFacts, PeerTypes, WireType, PeerFacts, ModulusFacts
  <2>3. Granted(t.out, r.epoch) = Granted(s.out, r.epoch) + GrantOf(r.epoch, packet)
    BY DEF OnWire
  <2>4. GrantOf(r.epoch, packet) \in Nat /\ t.released \in Nat /\ t.released + GrantOf(r.epoch, packet) <= s.released
    BY <2>2 DEF GrantOf
  <2> QED
    BY <2>1, <2>2, <2>3, <2>4 DEF Conserved
<1>7. Current(t, r) /\ Current(r, t)
  <2>1. Current(s, r) /\ Current(r, s)
    BY DEF Both, Directed
  <2> QED
    BY <1>2, <2>1 DEF Current
<1>8. InitUnderWay(p, t, r) /\ InitUnderWay(Other(p), r, t)
  <2>1. InitUnderWay(Other(p), r, s)
    BY DEF Both, Directed
  <2>2. \A i \in DOMAIN t.out : t.out[i].op # "init"
    BY <1>2, <1>3, <1>4 DEF Handshake
  <2>3. InitUnderWay(Other(p), r, t)
    BY <1>2, <1>3, <2>1 DEF InitUnderWay
  <2> QED
    BY <2>2, <2>3 DEF InitUnderWay
<1>9. ResponseOwed(t, r) /\ ResponseOwed(r, t)
  <2>1. ResponseOwed(s, r)
    BY DEF Both, Directed
  <2>2. ResponseOwed(t, r)
    BY <1>2, <1>3, <2>1 DEF ResponseOwed
  <2> QED
    BY <1>4, <2>2 DEF ResponseOwed
<1>10. ResponseUnderWay(p, t, r) /\ ResponseUnderWay(Other(p), r, t)
  <2>1. ResponseUnderWay(p, s, r)
    BY DEF Both, Directed
  <2>2. SUFFICES ASSUME NEW i \in DOMAIN t.out, t.out[i].op = "initResponse"
                 PROVE  ResponseUnderWay(p, t, r)
    BY <1>4 DEF ResponseUnderWay
  <2>3. i \in DOMAIN s.out /\ s.out[i].op = "initResponse"
    BY <1>2, <1>3, <2>2 DEF Handshake
  <2>4. s.released = 0 /\ s.other = r.epoch
    BY <2>1, <2>3 DEF ResponseUnderWay
  <2>5. packet.op = "message" /\ t.released = 0
    BY <2>4
  <2>6. \A j \in DOMAIN t.out : t.out[j].op = "initResponse" => j \in DOMAIN s.out
    BY <1>2, <1>3 DEF Handshake
  <2> QED
    BY <1>2, <1>3, <2>1, <2>4, <2>5, <2>6 DEF ResponseUnderWay
<1> QED
  BY <1>1, <1>5, <1>6, <1>7, <1>8, <1>9, <1>10 DEF Both, Directed

LEMMA ReleaseWindowKeeps ==
    ASSUME NEW p \in Peers, NEW s, NEW r, Both(p, s, r), s.sending = "no", s.initialized,
           ~s.sendInitResponse, ReleaseDue(s)
    PROVE  Both(p, SendReleaseWindow(s), r)
<1> DEFINE packet == PacketReleaseWindow(s.released, s.other)
           t == SendReleaseWindow(s)
<1>1. s \in PeerStates /\ Local(p, s)
  BY DEF Both, Directed, Local
<1>2. /\ packet \in Packets /\ packet.size = ReleaseWindowSize /\ packet.op = "releaseWindow"
      /\ packet.epoch = s.other /\ packet.window = s.released
  <2>1. s.other \in 0 .. MaxStarts /\ s.released \in Uint16
    BY <1>1, PeerTypes
  <2> QED
    BY <2>1, PacketTypes DEF PacketReleaseWindow, Packet
<1> HIDE DEF packet
<1>3. /\ t.initialized = s.initialized /\ t.released = 0 /\ t.sendInitResponse = s.sendInitResponse
      /\ t.reader = s.reader /\ t.out = Append(s.out, packet) /\ t.epoch = s.epoch /\ t.other = s.other
      /\ t.requested = s.requested /\ t.sending = "releaseWindow" /\ t.size = packet.size /\ t.window = s.window
  BY <1>1 DEF PeerStates, SendReleaseWindow, SendPacket, packet
<1>4. t \in PeerStates
  <2>1. s.out \in Seq(Packets) /\ packet.size \in Uint16 /\ 0 \in Uint16
    <3>1. s.out \in Seq(Packets)
      BY <1>1, PeerTypes
    <3>2. packet.size \in Uint16 /\ 0 \in Uint16
      BY <1>2, ModulusFacts DEF Packets, Uint16
    <3> QED
      BY <3>1, <3>2
  <2>2. Append(s.out, packet) \in Seq(Packets) /\ "releaseWindow" \in Operations
    BY <1>2, <2>1 DEF Operations
  <2> QED
    BY <1>1, <2>1, <2>2 DEF PeerStates, SendReleaseWindow, SendPacket, packet
<1> HIDE DEF t
<1>5. Sending(s) = 0 /\ packet.size <= s.window /\ t.sending \in {"initResponse", "releaseWindow", "message"}
  BY <1>2, <1>3 DEF Sending, ReleaseDue
<1>6. OnWire(s, t, packet)
  BY <1>1, <1>2, <1>3, <1>4, <1>5, PutOnWire
<1>7. Local(p, t)
  BY <1>1, <1>2, <1>3, <1>4 DEF Local
<1>8. s.released # 0
  BY SizeFacts DEF ReleaseDue
<1> QED
  BY <1>2, <1>3, <1>4, <1>6, <1>7, <1>8, SpeakKeeps DEF t

LEMMA SetNextStateKeeps ==
    ASSUME NEW p \in Peers, NEW s, NEW r, Both(p, s, r)
    PROVE  Both(p, SetNextState(p, s), r)
<1>1. CASE s.sending # "no" \/ ~s.initialized
  BY <1>1 DEF SetNextState
<1>2. CASE s.sending = "no" /\ s.initialized /\ s.sendInitResponse /\ s.reader = NoPacket
  BY <1>2, InitResponseKeeps DEF SetNextState
<1>3. CASE s.sending = "no" /\ s.initialized /\ s.sendInitResponse /\ s.reader # NoPacket
  BY <1>3 DEF SetNextState
<1>4. CASE s.sending = "no" /\ s.initialized /\ ~s.sendInitResponse /\ MessageFits(s)
  BY <1>4, StreamAvailableKeeps DEF SetNextState
<1>5. CASE s.sending = "no" /\ s.initialized /\ ~s.sendInitResponse /\ ~MessageFits(s) /\ ReleaseDue(s)
  BY <1>5, ReleaseWindowKeeps DEF SetNextState
<1>6. CASE s.sending = "no" /\ s.initialized /\ ~s.sendInitResponse /\ ~MessageFits(s) /\ ~ReleaseDue(s)
  BY <1>6 DEF SetNextState
<1> QED
  BY <1>1, <1>2, <1>3, <1>4, <1>5, <1>6

LEMMA FilledKeeps ==
    ASSUME NEW p \in Peers, NEW s, NEW r, Both(p, s, r), s.sending = "filling", NEW written \in {0, s.size}
    PROVE  Both(p, SendPacket(s, "message", PacketMessage(written, s.other)), r)
<1> DEFINE packet == PacketMessage(written, s.other)
           t == SendPacket(s, "message", packet)
<1>1. s \in PeerStates /\ Local(p, s) /\ s.initialized
  BY DEF Both, Directed, Local, Uninitialized
<1>2. /\ written \in Nat /\ written <= s.size /\ s.size \in Nat /\ s.window \in Nat /\ s.window <= Modulus - 1
      /\ s.size <= MaxSendMessageSize(p) /\ MessageSize(s.size + 1) + ReleaseWindowSize <= s.window
  BY <1>1, PeerTypes, ModulusFacts DEF Local
<1>3. /\ MessageSize(written + 1) \in Nat /\ MessageSize(written + 1) + ReleaseWindowSize <= s.window
      /\ MessageSize(written + 1) + ReleaseWindowSize <= OwnBufferSize[Other(p)]
      /\ MessageSize(written + 1) \in Uint16
  <2>1. written + 1 \in Nat /\ s.size + 1 \in Nat /\ written + 1 <= s.size + 1
    BY <1>2
  <2>2. MessageSize(written + 1) \in Nat /\ MessageSize(s.size + 1) \in Nat
    BY <2>1, SizeFacts
  <2>3. MessageSize(written + 1) <= MessageSize(s.size + 1)
    BY <2>1, MessageSizeGrows
  <2>4. MessageSize(s.size + 1) + ReleaseWindowSize <= OwnBufferSize[Other(p)]
    BY <1>2, MaxFits
  <2>5. OwnBufferSize[Other(p)] \in Nat /\ ReleaseWindowSize = 5 /\ Modulus \in Nat
    BY PeerFacts, ModulusFacts, SizeFacts
  <2> QED
    BY <1>2, <2>2, <2>3, <2>4, <2>5 DEF Uint16
<1>4. /\ packet \in Packets /\ packet.size = MessageSize(written + 1) /\ packet.op = "message" /\ packet.epoch = s.other
  <2>1. s.other \in 0 .. MaxStarts /\ s.released \in Uint16
    BY <1>1, PeerTypes
  <2> QED
    BY <1>2, <1>3, <2>1, PacketTypes DEF PacketMessage, Packet
<1> HIDE DEF packet
<1>5. /\ t.initialized = s.initialized /\ t.released = s.released /\ t.sendInitResponse = s.sendInitResponse
      /\ t.reader = s.reader /\ t.out = Append(s.out, packet) /\ t.epoch = s.epoch /\ t.other = s.other
      /\ t.requested = s.requested /\ t.sending = "message" /\ t.size = packet.size /\ t.window = s.window
  BY <1>1 DEF PeerStates, SendPacket
<1>6. t \in PeerStates
  <2>1. s.out \in Seq(Packets) /\ packet.size \in Uint16
    BY <1>1, <1>4, PeerTypes DEF Packets
  <2>2. Append(s.out, packet) \in Seq(Packets) /\ "message" \in Operations
    BY <1>4, <2>1 DEF Operations
  <2> QED
    BY <1>1, <2>1, <2>2 DEF PeerStates, SendPacket
<1> HIDE DEF t
<1>7. Sending(s) = 0 /\ t.sending \in {"initResponse", "releaseWindow", "message"}
  BY <1>5 DEF Sending
<1>8. packet.size <= s.window /\ packet.size \in Nat /\ packet.size + ReleaseWindowSize <= s.window
  BY <1>2, <1>3, <1>4, SizeFacts
<1>9. OnWire(s, t, packet)
  BY <1>1, <1>4, <1>5, <1>6, <1>7, <1>8, PutOnWire
<1>10. Net(t) >= ReleaseWindowSize
  <2>1. Net(t) = s.window - packet.size /\ ReleaseWindowSize = 5
    BY <1>9, SizeFacts DEF OnWire
  <2> QED
    BY <1>2, <1>8, <2>1
<1>11. Local(p, t)
  BY <1>1, <1>3, <1>4, <1>5, <1>6, <1>10 DEF Local
<1> QED
  BY <1>1, <1>4, <1>5, <1>6, <1>9, <1>11, SpeakKeeps DEF t, packet

\* The application lets go of the reader: what it held is to be given back.
LEMMA DoneKeeps ==
    ASSUME NEW p \in Peers, NEW s, NEW r, Both(p, s, r), s.reader # NoPacket
    PROVE  LET t == [s EXCEPT !.released = (@ + s.reader.size) % Modulus, !.reader = NoPacket]
           IN  Both(p, t, r) /\ t.reader = NoPacket /\ t.out = s.out
<1> DEFINE back == (s.released + s.reader.size) % Modulus
           t == [s EXCEPT !.released = back, !.reader = NoPacket]
<1>1. s \in PeerStates /\ r \in PeerStates /\ Local(p, s)
  BY DEF Both, Directed, Local
<1>2. s.released \in Uint16 /\ s.reader.size \in Uint16 /\ s.released \in Nat /\ s.reader.size \in Nat
  BY <1>1, PeerTypes
<1>3. Conserved(Other(p), r, s) /\ Conserved(p, s, r)
  BY DEF Both, Directed
<1>4. /\ Net(r) \in Nat /\ Flight(r.out, s.epoch) \in Nat /\ Granted(s.out, r.epoch) \in Nat
      /\ OwnBufferSize[Other(Other(p))] \in Nat /\ OwnBufferSize[Other(Other(p))] <= Modulus - 1 /\ Modulus \in Nat
  BY <1>1, NetFacts, PeerTypes, WireType, PeerFacts, ModulusFacts
<1>5. s.released + s.reader.size < Modulus
  BY <1>2, <1>3, <1>4 DEF Conserved
<1>6. back = s.released + s.reader.size /\ back \in Uint16
  BY <1>2, <1>5, WindowArithmetic
<1> HIDE DEF back
<1>7. t \in PeerStates
  BY <1>1, <1>6 DEF PeerStates
<1>8. /\ t.initialized = s.initialized /\ t.released = back /\ t.sendInitResponse = s.sendInitResponse
      /\ t.reader = NoPacket /\ t.out = s.out /\ t.epoch = s.epoch /\ t.other = s.other
      /\ t.requested = s.requested /\ t.sending = s.sending /\ t.size = s.size /\ t.window = s.window
  BY <1>1 DEF PeerStates
<1>9. t = [s EXCEPT !.released = (@ + s.reader.size) % Modulus, !.reader = NoPacket]
  BY DEF back
<1> HIDE DEF t
<1>10. /\ s.initialized /\ ~s.sendInitResponse
       /\ \A i \in DOMAIN s.out : s.out[i].op \notin Handshake
  BY DEF Both, Directed, Local, Uninitialized, ResponseOwed, ResponseUnderWay, InitUnderWay, Handshake
<1>11. Net(t) = Net(s) /\ NoPacket.size = 0
  BY <1>8 DEF Net, Sending, NoPacket, Packet
<1>12. Local(p, t)
  BY <1>1, <1>7, <1>8, <1>10, <1>11 DEF Local
<1>13. Conserved(p, t, r)
  BY <1>3, <1>8, <1>11 DEF Conserved
<1>14. Conserved(Other(p), r, t)
  BY <1>2, <1>3, <1>4, <1>6, <1>8, <1>11 DEF Conserved
<1>15. Current(t, r) /\ Current(r, t)
  BY <1>8 DEF Both, Directed, Current
<1>16. InitUnderWay(p, t, r) /\ InitUnderWay(Other(p), r, t)
  BY <1>8 DEF Both, Directed, InitUnderWay
<1>17. ResponseOwed(t, r) /\ ResponseOwed(r, t)
  BY <1>8, <1>10 DEF Both, Directed, ResponseOwed
<1>18. ResponseUnderWay(p, t, r) /\ ResponseUnderWay(Other(p), r, t)
  <2>1. ResponseUnderWay(p, t, r)
    BY <1>8, <1>10 DEF ResponseUnderWay, Handshake
  <2> QED
    BY <1>8, <2>1 DEF Both, Directed, ResponseUnderWay
<1>19. Both(p, t, r)
  BY <1>12, <1>13, <1>14, <1>15, <1>16, <1>17, <1>18 DEF Both, Directed
<1> QED
  BY <1>8, <1>9, <1>19

-----------------------------------------------------------------------------
(* p receives the first packet on the wire to it.                           *)

\* The wire without its first packet
Taken(r, q, packet) ==
    /\ q \in PeerStates /\ packet \in Packets /\ Len(r.out) \in Nat /\ 1 \in DOMAIN r.out /\ r.out[1] = packet
    /\ \A i \in DOMAIN q.out : i + 1 \in DOMAIN r.out /\ i + 1 > 1 /\ q.out[i] = r.out[i + 1]
    /\ \A i \in DOMAIN q.out : i + 1 = Len(r.out) => i = Len(q.out)
    /\ Len(r.out) = 1 => q.out = <<>>
    /\ q.initialized = r.initialized /\ q.released = r.released /\ q.sendInitResponse = r.sendInitResponse
    /\ q.reader = r.reader /\ q.epoch = r.epoch /\ q.other = r.other /\ q.requested = r.requested
    /\ q.sending = r.sending /\ q.size = r.size /\ q.window = r.window /\ Net(q) = Net(r)
    /\ \A epoch : /\ Flight(r.out, epoch) = SizeOf(epoch, packet) + Flight(q.out, epoch)
                  /\ Granted(r.out, epoch) = GrantOf(epoch, packet) + Granted(q.out, epoch)

LEMMA TakeFirst ==
    ASSUME NEW r \in PeerStates, r.out # <<>>
    PROVE  Taken(r, [r EXCEPT !.out = Tail(@)], Head(r.out))
<1> DEFINE q == [r EXCEPT !.out = Tail(@)]
<1>1. r.out \in Seq(Packets)
  BY PeerTypes
<1>2. /\ Head(r.out) \in Packets /\ Tail(r.out) \in Seq(Packets)
      /\ \A epoch : /\ Flight(r.out, epoch) = SizeOf(epoch, Head(r.out)) + Flight(Tail(r.out), epoch)
                    /\ Granted(r.out, epoch) = GrantOf(epoch, Head(r.out)) + Granted(Tail(r.out), epoch)
  BY <1>1, WireTail
<1>3. /\ q \in PeerStates /\ q.out = Tail(r.out)
      /\ q.initialized = r.initialized /\ q.released = r.released /\ q.sendInitResponse = r.sendInitResponse
      /\ q.reader = r.reader /\ q.epoch = r.epoch /\ q.other = r.other /\ q.requested = r.requested
      /\ q.sending = r.sending /\ q.size = r.size /\ q.window = r.window
  BY <1>2 DEF PeerStates
<1> HIDE DEF q
<1>4. Net(q) = Net(r)
  BY <1>3 DEF Net, Sending
<1>5. /\ Len(r.out) \in Nat /\ Len(r.out) >= 1 /\ 1 \in DOMAIN r.out /\ r.out[1] = Head(r.out)
      /\ DOMAIN r.out = 1 .. Len(r.out) /\ Len(Tail(r.out)) = Len(r.out) - 1 /\ DOMAIN Tail(r.out) = 1 .. Len(r.out) - 1
      /\ \A i \in 1 .. Len(r.out) - 1 : Tail(r.out)[i] = r.out[i + 1]
  BY <1>1
<1>6. Len(r.out) = 1 => Tail(r.out) = <<>>
  BY <1>2, <1>5
<1> QED
  BY <1>2, <1>3, <1>4, <1>5, <1>6 DEF Taken, q

LEMMA TakenKeepsLocal ==
    ASSUME NEW o \in Peers, NEW r, NEW q, NEW packet, Local(o, r), Taken(r, q, packet)
    PROVE  Local(o, q)
BY DEF Local, Taken, Uninitialized

\* The handshake starts over: the other end has nothing yet and p nothing for it on the wire.
LEMMA InitReceivedKeeps ==
    ASSUME NEW p \in Peers, NEW s, NEW r, NEW q, NEW packet, Both(p, s, r), s.reader = NoPacket,
           Taken(r, q, packet), packet.op = "init"
    PROVE  Both(p, ReceivedInit(s, packet), q)
<1> DEFINE t == ReceivedInit(s, packet)
           B == OwnBufferSize[Other(p)]
<1>1. s \in PeerStates /\ r \in PeerStates /\ q \in PeerStates /\ Local(p, s) /\ Local(Other(p), r)
  BY DEF Both, Directed, Local, Taken
<1>2. /\ Len(r.out) = 1 /\ ~r.initialized /\ packet.epoch = r.epoch /\ packet.window = B
      /\ s.other # r.epoch /\ ~s.sendInitResponse
      /\ \A j \in DOMAIN s.out : s.out[j].op \notin Handshake /\ s.out[j].epoch # r.epoch
  BY DEF Both, Directed, InitUnderWay, Taken
<1>3. q.out = <<>> /\ q.epoch = r.epoch /\ ~q.initialized /\ DOMAIN q.out = {}
  BY <1>2 DEF Taken
<1>4. B \in Uint16 /\ B \in Nat /\ B >= 11 /\ B <= Modulus - 1
  BY PeerFacts, ModulusFacts
<1>5. /\ t.initialized = TRUE /\ t.released = s.released /\ t.sendInitResponse = TRUE
      /\ t.reader = s.reader /\ t.out = s.out /\ t.epoch = s.epoch /\ t.other = r.epoch
      /\ t.requested = s.requested /\ t.sending = s.sending /\ t.size = s.size /\ t.window = B
  BY <1>1, <1>2 DEF PeerStates, ReceivedInit
<1>6. t \in PeerStates
  <2>1. packet.window \in Uint16 /\ packet.epoch \in 0 .. MaxStarts
    BY DEF Taken, Packets
  <2> QED
    BY <1>1, <2>1 DEF PeerStates, ReceivedInit
<1> HIDE DEF t, B
<1>7. Sending(t) = Sending(s) /\ Sending(t) + ReleaseWindowSize <= B /\ Sending(t) \in Nat
  <2>1. Sending(t) = Sending(s)
    BY <1>5 DEF Sending
  <2>2. Sending(s) = 0 \/ Sending(s) = ReleaseWindowSize \/ Sending(s) + ReleaseWindowSize <= B
    BY <1>1 DEF Sending, Local, B
  <2> QED
    BY <1>1, <1>4, <2>1, <2>2, NetFacts, SizeFacts
<1>8. Net(t) = B - Sending(t)
  BY <1>4, <1>5, <1>6, <1>7, NetFacts, SizeFacts
<1>9. Local(p, t)
  <2>1. Net(t) >= ReleaseWindowSize
    BY <1>4, <1>7, <1>8, SizeFacts
  <2>2. s.sending = "filling" => MessageSize(s.size + 1) + ReleaseWindowSize <= B
    BY <1>1, MaxFits, PeerTypes DEF Local, B
  <2> QED
    BY <1>1, <1>5, <1>6, <2>1, <2>2 DEF Local
<1>10. Local(Other(p), q)
  BY <1>1, PeerFacts, TakenKeepsLocal
<1>11. Conserved(p, t, q)
  <2>1. q.reader.size = 0 /\ q.released = 0
    BY <1>3, <1>10 DEF Local, Uninitialized, NoPacket, Packet
  <2>2. Granted(q.out, t.epoch) = 0
    BY <1>3, WireEmpty
  <2>3. Flight(t.out, q.epoch) = 0
    <3>1. s.out \in Seq(Packets)
      BY <1>1, PeerTypes
    <3>2. \A i \in DOMAIN s.out : SizeOf(r.epoch, s.out[i]) = 0
      BY <1>2 DEF SizeOf, Handshake
    <3> QED
      BY <1>3, <1>5, <3>1, <3>2, WireZero
  <2> QED
    BY <1>4, <1>7, <1>8, <2>1, <2>2, <2>3 DEF Conserved, B
<1>12. Conserved(Other(p), q, t)
  <2>1. Conserved(Other(p), r, s)
    BY DEF Both, Directed
  <2>2. Flight(r.out, s.epoch) = SizeOf(s.epoch, packet) + Flight(q.out, s.epoch) /\ Net(q) = Net(r)
    BY DEF Taken
  <2>3. SizeOf(s.epoch, packet) \in Nat /\ Flight(q.out, s.epoch) \in Nat
    BY <1>1, PacketSizes, PeerTypes, WireType, ModulusFacts DEF Taken
  <2>4. /\ Net(r) \in Nat /\ s.reader.size \in Nat /\ s.released \in Nat
        /\ Granted(s.out, r.epoch) \in Nat /\ OwnBufferSize[Other(Other(p))] \in Nat
    BY <1>1, NetFacts, PeerTypes, WireType, PeerFacts, ModulusFacts
  <2> QED
    BY <1>3, <1>5, <2>1, <2>2, <2>3, <2>4 DEF Conserved
<1>13. Current(t, q) /\ Current(q, t)
  <2>1. Current(s, r) /\ Current(r, s) /\ q.other = r.other /\ r.epoch \in Nat
    BY <1>1, PeerTypes DEF Both, Directed, Taken
  <2> QED
    BY <1>3, <1>5, <2>1 DEF Current
<1>14. InitUnderWay(p, t, q) /\ InitUnderWay(Other(p), q, t)
  BY <1>2, <1>3, <1>5 DEF InitUnderWay, Handshake
<1>15. ResponseOwed(t, q) /\ ResponseOwed(q, t)
  <2>1. ~q.sendInitResponse
    BY <1>3, <1>10 DEF Local, Uninitialized
  <2> QED
    BY <1>2, <1>3, <1>5, <2>1 DEF ResponseOwed
<1>16. ResponseUnderWay(p, t, q) /\ ResponseUnderWay(Other(p), q, t)
  BY <1>2, <1>3, <1>5 DEF ResponseUnderWay, Handshake
<1> QED
  BY <1>9, <1>10, <1>11, <1>12, <1>13, <1>14, <1>15, <1>16 DEF Both, Directed, t

\* The handshake ends: p has been silent, and what follows the response is messages for it.
LEMMA InitResponseReceivedKeeps ==
    ASSUME NEW p \in Peers, NEW s, NEW r, NEW q, NEW packet, Both(p, s, r), s.reader = NoPacket,
           Taken(r, q, packet), packet.op = "initResponse"
    PROVE  Both(p, ReceivedInitResponse(s, packet), q)
<1> DEFINE t == ReceivedInitResponse(s, packet)
           B == OwnBufferSize[Other(p)]
<1>1. s \in PeerStates /\ r \in PeerStates /\ q \in PeerStates /\ Local(p, s) /\ Local(Other(p), r)
  BY DEF Both, Directed, Local, Taken
<1>2. /\ r.initialized /\ r.other = s.epoch /\ r.reader = NoPacket /\ r.released = 0
      /\ ~r.sendInitResponse /\ ~s.initialized /\ s.out = <<>>
      /\ packet.epoch = r.epoch /\ packet.window = B /\ packet.size = ReleaseWindowSize
  BY DEF Both, Directed, ResponseUnderWay, Taken
<1>3. \A j \in DOMAIN q.out :
          q.out[j].op \notin Handshake /\ q.out[j].op # "releaseWindow" /\ q.out[j].epoch = s.epoch
  <2>1. \A j \in DOMAIN r.out : j > 1 =>
            r.out[j].op \notin Handshake /\ r.out[j].op # "releaseWindow" /\ r.out[j].epoch = s.epoch
    BY DEF Both, Directed, ResponseUnderWay, Taken
  <2> QED
    BY <2>1 DEF Taken
<1>4. B \in Uint16 /\ B \in Nat /\ B >= 11 /\ B <= Modulus - 1
  BY PeerFacts, ModulusFacts
<1>5. /\ t.initialized = TRUE /\ t.released = ReleaseWindowSize /\ t.sendInitResponse = FALSE
      /\ t.reader = NoPacket /\ t.out = <<>> /\ t.epoch = s.epoch /\ t.other = r.epoch
      /\ t.requested = 0 /\ t.sending \in {"off", "init", "no"} /\ t.size = s.size /\ t.window = B
  BY <1>1, <1>2 DEF PeerStates, ReceivedInitResponse, Local, Uninitialized
<1>6. t \in PeerStates
  <2>1. packet.window \in Uint16 /\ packet.epoch \in 0 .. MaxStarts /\ packet.size \in Uint16
    BY DEF Taken, Packets
  <2> QED
    BY <1>1, <2>1 DEF PeerStates, ReceivedInitResponse
<1> HIDE DEF t, B
<1>7. Sending(t) = 0 /\ Net(t) = B
  <2>1. Sending(t) = 0
    BY <1>5 DEF Sending
  <2> QED
    BY <1>4, <1>5, <1>6, <2>1, NetFacts
<1>8. Local(p, t)
  <2>1. 0 <= MaxSendMessageSize(p)
    BY MaxFits
  <2> QED
    BY <1>5, <1>6, <2>1 DEF Local
<1>9. Local(Other(p), q)
  BY <1>1, PeerFacts, TakenKeepsLocal
<1>10. q.epoch = r.epoch /\ q.initialized /\ q.other = s.epoch /\ q.reader.size = 0 /\ q.released = 0 /\ Net(q) = Net(r)
  BY <1>2 DEF Taken, NoPacket, Packet
<1>11. Conserved(p, t, q)
  <2>1. Granted(q.out, s.epoch) = 0
    <3>1. q.out \in Seq(Packets) /\ \A i \in DOMAIN q.out : GrantOf(s.epoch, q.out[i]) = 0
      BY <1>1, <1>3, PeerTypes DEF GrantOf
    <3> QED
      BY <3>1, WireZero
  <2>2. Flight(t.out, q.epoch) = 0
    BY <1>5, WireEmpty
  <2> QED
    BY <1>4, <1>5, <1>7, <1>10, <2>1, <2>2 DEF Conserved, B
<1>12. Conserved(Other(p), q, t)
  <2>1. Conserved(Other(p), r, s)
    BY DEF Both, Directed
  <2>2. SizeOf(s.epoch, packet) = ReleaseWindowSize
    BY <1>2 DEF SizeOf
  <2>3. Flight(r.out, s.epoch) = ReleaseWindowSize + Flight(q.out, s.epoch)
    BY <2>2 DEF Taken
  <2>4. Flight(q.out, s.epoch) \in Nat /\ Net(r) \in Nat /\ OwnBufferSize[Other(Other(p))] \in Nat
    BY <1>1, NetFacts, PeerTypes, WireType, PeerFacts, ModulusFacts
  <2>5. s.reader.size = 0 /\ t.reader.size = 0 /\ s.released = 0
    BY <1>1, <1>2, <1>5 DEF NoPacket, Packet, Local, Uninitialized
  <2>6. Granted(s.out, r.epoch) = 0 /\ Granted(t.out, q.epoch) = 0
    BY <1>2, <1>5, WireEmpty
  <2>7. ReleaseWindowSize = 5 /\ t.released = ReleaseWindowSize /\ t.epoch = s.epoch
    BY <1>5, SizeFacts
  <2>8. Net(r) + (5 + Flight(q.out, s.epoch)) <= OwnBufferSize[Other(Other(p))]
    BY <2>1, <2>3, <2>4, <2>5, <2>6, <2>7 DEF Conserved
  <2> QED
    BY <1>10, <2>4, <2>5, <2>6, <2>7, <2>8 DEF Conserved
<1>13. Current(t, q) /\ Current(q, t)
  <2>1. r.epoch \in Nat /\ s.epoch \in Nat /\ DOMAIN t.out = {}
    BY <1>1, <1>5, PeerTypes
  <2> QED
    BY <1>3, <1>5, <1>10, <2>1 DEF Current
<1>14. InitUnderWay(p, t, q) /\ InitUnderWay(Other(p), q, t)
  BY <1>3, <1>5 DEF InitUnderWay, Handshake
<1>15. ResponseOwed(t, q) /\ ResponseOwed(q, t)
  BY <1>2, <1>5 DEF ResponseOwed, Taken
<1>16. ResponseUnderWay(p, t, q) /\ ResponseUnderWay(Other(p), q, t)
  BY <1>3, <1>5 DEF ResponseUnderWay, Handshake
<1> QED
  BY <1>8, <1>9, <1>11, <1>12, <1>13, <1>14, <1>15, <1>16 DEF Both, Directed, t

\* What p keeps of its session when a packet of the session is taken from the wire
LEMMA SessionTaken ==
    ASSUME NEW p \in Peers, NEW s, NEW r, NEW q, NEW packet, NEW t, Both(p, s, r), Taken(r, q, packet),
           packet.op \notin Handshake,
           t.initialized = s.initialized, t.sendInitResponse = s.sendInitResponse, t.out = s.out,
           t.epoch = s.epoch, t.other = s.other, s.initialized \/ t = s
    PROVE  /\ Current(t, q) /\ Current(q, t)
           /\ InitUnderWay(p, t, q) /\ InitUnderWay(Other(p), q, t)
           /\ ResponseOwed(t, q) /\ ResponseOwed(q, t)
           /\ ResponseUnderWay(p, t, q) /\ ResponseUnderWay(Other(p), q, t)
<1>1. /\ q.initialized = r.initialized /\ q.sendInitResponse = r.sendInitResponse /\ q.reader = r.reader
      /\ q.released = r.released /\ q.epoch = r.epoch /\ q.other = r.other
      /\ 1 \in DOMAIN r.out /\ r.out # <<>>
      /\ \A i \in DOMAIN q.out : i + 1 \in DOMAIN r.out /\ q.out[i] = r.out[i + 1]
  BY DEF Taken
<1>2. Current(t, q) /\ Current(q, t)
  BY <1>1 DEF Both, Directed, Current
<1>3. InitUnderWay(p, t, q)
  BY <1>1 DEF Both, Directed, InitUnderWay
<1>4. InitUnderWay(Other(p), q, t)
  <2>1. InitUnderWay(Other(p), r, s)
    BY DEF Both, Directed
  <2>2. \A i \in DOMAIN q.out : i + 1 = Len(r.out) => i = Len(q.out)
    BY DEF Taken
  <2> QED
    BY <1>1, <2>1, <2>2 DEF InitUnderWay
<1>5. ResponseOwed(t, q)
  BY <1>1 DEF Both, Directed, ResponseOwed
<1>6. ResponseOwed(q, t)
  BY <1>1 DEF Both, Directed, ResponseOwed
<1>7. ResponseUnderWay(p, t, q)
  BY <1>1 DEF Both, Directed, ResponseUnderWay
<1>8. ResponseUnderWay(Other(p), q, t)
  <2>1. ResponseUnderWay(Other(p), r, s)
    BY DEF Both, Directed
  <2>2. SUFFICES ASSUME NEW i \in DOMAIN q.out, q.out[i].op = "initResponse"
                 PROVE  ResponseUnderWay(Other(p), q, t)
    BY DEF ResponseUnderWay
  <2>3. i + 1 \in DOMAIN r.out /\ r.out[i + 1].op = "initResponse"
    BY <1>1, <2>2
  <2>4. ~s.initialized /\ t = s
    BY <2>1, <2>3 DEF ResponseUnderWay
  <2>5. DOMAIN q.out \subseteq Int
    <3>1. q.out \in Seq(Packets)
      BY PeerTypes DEF Taken
    <3> QED
      BY <3>1
  <2>6. \A j, k \in DOMAIN q.out : (j # k => j + 1 # k + 1) /\ (j > k => j + 1 > k + 1)
    BY <2>5
  <2> QED
    BY <1>1, <2>1, <2>4, <2>6 DEF ResponseUnderWay
<1> QED
  BY <1>2, <1>3, <1>4, <1>5, <1>6, <1>7, <1>8

LEMMA ReleaseReceivedKeeps ==
    ASSUME NEW p \in Peers, NEW s, NEW r, NEW q, NEW packet, Both(p, s, r),
           Taken(r, q, packet), packet.op = "releaseWindow", s.initialized
    PROVE  Both(p, ReceivedReleaseWindow(s, packet), q)
<1> DEFINE t == ReceivedReleaseWindow(s, packet)
           B == OwnBufferSize[Other(p)]
           C == OwnBufferSize[Other(Other(p))]
<1>1. s \in PeerStates /\ r \in PeerStates /\ q \in PeerStates /\ Local(p, s) /\ Local(Other(p), r) /\ packet \in Packets
  BY DEF Both, Directed, Local, Taken
<1>2. packet.op \notin Handshake /\ packet.epoch = s.epoch
  BY DEF Both, Directed, Current, Taken, Handshake
<1>3. SizeOf(s.epoch, packet) = packet.size /\ GrantOf(s.epoch, packet) = packet.window
  BY <1>2 DEF SizeOf, GrantOf, Handshake
<1>4. packet.size \in Uint16 /\ packet.window \in Uint16 /\ packet.size \in Nat /\ packet.window \in Nat
  BY <1>1, ModulusFacts DEF Packets
<1>5. /\ Flight(r.out, s.epoch) = packet.size + Flight(q.out, s.epoch)
      /\ Granted(r.out, s.epoch) = packet.window + Granted(q.out, s.epoch)
      /\ q.epoch = r.epoch /\ q.reader = r.reader /\ q.released = r.released /\ Net(q) = Net(r)
  BY <1>3 DEF Taken
<1>6. /\ Net(s) \in Nat /\ Net(r) \in Nat /\ Flight(s.out, r.epoch) \in Nat /\ Flight(q.out, s.epoch) \in Nat
      /\ Granted(s.out, r.epoch) \in Nat /\ Granted(q.out, s.epoch) \in Nat
      /\ s.reader.size \in Nat /\ s.released \in Nat /\ r.reader.size \in Nat /\ r.released \in Nat
  BY <1>1, NetFacts, PeerTypes, WireType
<1>7. B \in Nat /\ B <= Modulus - 1 /\ C \in Nat /\ C <= Modulus - 1 /\ Modulus \in Nat
  BY PeerFacts, ModulusFacts
<1> HIDE DEF B, C
<1>8. Net(s) + Flight(s.out, r.epoch) + r.reader.size + r.released + (packet.window + Granted(q.out, s.epoch)) <= B
  BY <1>5 DEF Both, Directed, Conserved, B
<1>9. Net(r) + (packet.size + Flight(q.out, s.epoch)) + s.reader.size + s.released + Granted(s.out, r.epoch) <= C
  BY <1>5 DEF Both, Directed, Conserved, C
<1>10. Net(s) + packet.window < Modulus /\ s.released + packet.size < Modulus
  BY <1>4, <1>6, <1>7, <1>8, <1>9
<1>11. s.window \in Uint16 /\ s.released \in Uint16 /\ Sending(s) \in Uint16 /\ s.window \in Nat
  BY <1>1, PeerTypes, NetFacts
<1>12. /\ (s.released + packet.size) % Modulus = s.released + packet.size
       /\ (s.released + packet.size) % Modulus \in Uint16 /\ (s.window + packet.window) % Modulus \in Uint16
  BY <1>4, <1>10, <1>11, WindowArithmetic
<1>13. t \in PeerStates
  BY <1>1, <1>12 DEF PeerStates, ReceivedReleaseWindow
<1>14. /\ t.initialized = s.initialized /\ t.released = s.released + packet.size /\ t.sendInitResponse = s.sendInitResponse
       /\ t.reader = s.reader /\ t.out = s.out /\ t.epoch = s.epoch /\ t.other = s.other
       /\ t.requested = s.requested /\ t.sending = s.sending /\ t.size = s.size
       /\ t.window = (s.window + packet.window) % Modulus
  BY <1>1, <1>12 DEF PeerStates, ReceivedReleaseWindow
<1> HIDE DEF t
<1>15. Net(t) = Net(s) + packet.window
  <2>1. Sending(t) = Sending(s)
    BY <1>14 DEF Sending
  <2>2. ((s.window + Modulus - Sending(s)) % Modulus) + packet.window < Modulus
    BY <1>10 DEF Net
  <2>3. (((s.window + packet.window) % Modulus) + Modulus - Sending(s)) % Modulus
           = ((s.window + Modulus - Sending(s)) % Modulus) + packet.window
    BY <1>4, <1>11, <2>2, WindowArithmetic
  <2> QED
    BY <1>14, <2>1, <2>3 DEF Net
<1>16. Local(p, t)
  <2>1. s.sending = "filling" => t.window = s.window + packet.window
    <3>1. s.sending = "filling" => Sending(s) = 0
      BY DEF Sending
    <3>2. s.sending = "filling" => Net(s) = s.window
      BY <1>1, <1>11, <3>1, NetFacts
    <3>3. s.sending = "filling" => s.window + packet.window < Modulus
      BY <1>10, <3>2
    <3> QED
      BY <1>4, <1>11, <1>14, <3>3, WindowArithmetic
  <2>2. s.sending = "filling" => MessageSize(s.size + 1) + ReleaseWindowSize <= t.window
    <3>1. s.size \in Nat
      BY <1>1, PeerTypes
    <3>2. MessageSize(s.size + 1) \in Nat /\ ReleaseWindowSize = 5
      BY <3>1, SizeFacts
    <3>3. s.sending = "filling" => MessageSize(s.size + 1) + ReleaseWindowSize <= s.window
      BY <1>1 DEF Local
    <3> QED
      BY <1>4, <1>11, <2>1, <3>2, <3>3
  <2>3. s.sendInitResponse => Net(t) >= ReleaseWindowSize
    <3>1. s.sendInitResponse => Net(s) >= ReleaseWindowSize
      BY <1>1 DEF Local
    <3> QED
      BY <1>4, <1>6, <1>15, <3>1, SizeFacts
  <2> QED
    BY <1>1, <1>13, <1>14, <2>2, <2>3 DEF Local
<1>17. Local(Other(p), q)
  BY <1>1, PeerFacts, TakenKeepsLocal
<1>18. Conserved(p, t, q)
  BY <1>4, <1>5, <1>6, <1>7, <1>8, <1>14, <1>15 DEF Conserved, B
<1>19. Conserved(Other(p), q, t)
  BY <1>4, <1>5, <1>6, <1>7, <1>9, <1>14 DEF Conserved, C
<1>20. /\ Current(t, q) /\ Current(q, t)
       /\ InitUnderWay(p, t, q) /\ InitUnderWay(Other(p), q, t)
       /\ ResponseOwed(t, q) /\ ResponseOwed(q, t)
       /\ ResponseUnderWay(p, t, q) /\ ResponseUnderWay(Other(p), q, t)
  BY <1>2, <1>14, SessionTaken
<1> QED
  BY <1>16, <1>17, <1>18, <1>19, <1>20 DEF Both, Directed, t

LEMMA MessageReceivedKeeps ==
    ASSUME NEW p \in Peers, NEW s, NEW r, NEW q, NEW packet, Both(p, s, r), s.reader = NoPacket,
           Taken(r, q, packet), packet.op = "message", s.initialized
    PROVE  Both(p, [s EXCEPT !.reader = packet], q)
<1> DEFINE t == [s EXCEPT !.reader = packet]
<1>1. s \in PeerStates /\ r \in PeerStates /\ q \in PeerStates /\ Local(p, s) /\ Local(Other(p), r) /\ packet \in Packets
  BY DEF Both, Directed, Local, Taken
<1>2. packet.op \notin Handshake /\ packet.epoch = s.epoch
  BY DEF Both, Directed, Current, Taken, Handshake
<1>3. SizeOf(s.epoch, packet) = packet.size /\ GrantOf(s.epoch, packet) = 0
  BY <1>2 DEF SizeOf, GrantOf
<1>4. packet.size \in Nat
  BY <1>1, ModulusFacts DEF Packets
<1>5. /\ Flight(r.out, s.epoch) = packet.size + Flight(q.out, s.epoch)
      /\ Granted(r.out, s.epoch) = 0 + Granted(q.out, s.epoch)
      /\ q.epoch = r.epoch /\ q.reader = r.reader /\ q.released = r.released /\ Net(q) = Net(r)
  BY <1>3 DEF Taken
<1>6. /\ Net(s) \in Nat /\ Net(r) \in Nat /\ Flight(s.out, r.epoch) \in Nat /\ Flight(q.out, s.epoch) \in Nat
      /\ Granted(s.out, r.epoch) \in Nat /\ Granted(q.out, s.epoch) \in Nat
      /\ s.released \in Nat /\ r.reader.size \in Nat /\ r.released \in Nat
  BY <1>1, NetFacts, PeerTypes, WireType
<1>7. t \in PeerStates
  BY <1>1 DEF PeerStates
<1>8. /\ t.initialized = s.initialized /\ t.released = s.released /\ t.sendInitResponse = s.sendInitResponse
      /\ t.reader = packet /\ t.out = s.out /\ t.epoch = s.epoch /\ t.other = s.other
      /\ t.requested = s.requested /\ t.sending = s.sending /\ t.size = s.size /\ t.window = s.window
  BY <1>1 DEF PeerStates
<1> HIDE DEF t
<1>9. Net(t) = Net(s) /\ s.reader.size = 0
  BY <1>8 DEF Net, Sending, NoPacket, Packet
<1>10. Local(p, t)
  BY <1>1, <1>2, <1>7, <1>8, <1>9 DEF Local
<1>11. Local(Other(p), q)
  BY <1>1, PeerFacts, TakenKeepsLocal
<1>12. Conserved(p, t, q)
  BY <1>5, <1>6, <1>8, <1>9 DEF Both, Directed, Conserved
<1>13. Conserved(Other(p), q, t)
  <2>1. Net(r) + (packet.size + Flight(q.out, s.epoch)) + 0 + s.released + Granted(s.out, r.epoch) <= OwnBufferSize[Other(Other(p))]
    BY <1>5, <1>9 DEF Both, Directed, Conserved
  <2>2. OwnBufferSize[Other(Other(p))] \in Nat
    BY PeerFacts, ModulusFacts
  <2> QED
    BY <1>4, <1>5, <1>6, <1>8, <2>1, <2>2 DEF Conserved
<1>14. /\ Current(t, q) /\ Current(q, t)
       /\ InitUnderWay(p, t, q) /\ InitUnderWay(Other(p), q, t)
       /\ ResponseOwed(t, q) /\ ResponseOwed(q, t)
       /\ ResponseUnderWay(p, t, q) /\ ResponseUnderWay(Other(p), q, t)
  BY <1>2, <1>8, SessionTaken
<1> QED
  BY <1>10, <1>11, <1>12, <1>13, <1>14 DEF Both, Directed, t

\* Before the handshake, packets of a session are dropped.
LEMMA DroppedKeeps ==
    ASSUME NEW p \in Peers, NEW s, NEW r, NEW q, NEW packet, Both(p, s, r), Taken(r, q, packet),
           packet.op \notin Handshake
    PROVE  Both(p, s, q)
<1>1. s \in PeerStates /\ r \in PeerStates /\ q \in PeerStates /\ Local(p, s) /\ Local(Other(p), r) /\ packet \in Packets
  BY DEF Both, Directed, Local, Taken
<1>2. /\ Flight(r.out, s.epoch) = SizeOf(s.epoch, packet) + Flight(q.out, s.epoch)
      /\ Granted(r.out, s.epoch) = GrantOf(s.epoch, packet) + Granted(q.out, s.epoch)
      /\ q.epoch = r.epoch /\ q.reader = r.reader /\ q.released = r.released /\ Net(q) = Net(r)
  BY DEF Taken
<1>3. SizeOf(s.epoch, packet) \in Nat /\ GrantOf(s.epoch, packet) \in Nat
  BY <1>1, PacketSizes, ModulusFacts
<1>4. /\ Net(s) \in Nat /\ Net(r) \in Nat /\ Flight(s.out, r.epoch) \in Nat /\ Flight(q.out, s.epoch) \in Nat
      /\ Granted(s.out, r.epoch) \in Nat /\ Granted(q.out, s.epoch) \in Nat
      /\ s.released \in Nat /\ s.reader.size \in Nat /\ r.reader.size \in Nat /\ r.released \in Nat
      /\ OwnBufferSize[Other(p)] \in Nat /\ OwnBufferSize[Other(Other(p))] \in Nat
  BY <1>1, NetFacts, PeerTypes, WireType, PeerFacts, ModulusFacts
<1>5. Local(Other(p), q)
  BY <1>1, PeerFacts, TakenKeepsLocal
<1>6. Conserved(p, s, r) /\ Conserved(Other(p), r, s)
  BY DEF Both, Directed
<1>7. Conserved(p, s, q)
  BY <1>2, <1>3, <1>4, <1>6 DEF Conserved
<1>8. Conserved(Other(p), q, s)
  BY <1>2, <1>3, <1>4, <1>6 DEF Conserved
<1>9. /\ Current(s, q) /\ Current(q, s)
      /\ InitUnderWay(p, s, q) /\ InitUnderWay(Other(p), q, s)
      /\ ResponseOwed(s, q) /\ ResponseOwed(q, s)
      /\ ResponseUnderWay(p, s, q) /\ ResponseUnderWay(Other(p), q, s)
  BY SessionTaken
<1> QED
  BY <1>1, <1>5, <1>7, <1>8, <1>9 DEF Both, Directed

LEMMA ReceivedKeeps ==
    ASSUME NEW p \in Peers, NEW s, NEW r, Both(p, s, r), s.reader = NoPacket, r.out # <<>>
    PROVE  Both(p, SetNextState(p, Received(s, Head(r.out))), [r EXCEPT !.out = Tail(@)])
<1> DEFINE packet == Head(r.out)
           q == [r EXCEPT !.out = Tail(@)]
<1>1. r \in PeerStates
  BY DEF Both, Directed, Local
<1>2. Taken(r, q, packet)
  BY <1>1, TakeFirst
<1>3. packet.op \in Operations
  BY <1>2 DEF Taken, Packets
<1> HIDE DEF packet, q
<1>4. Both(p, Received(s, packet), q)
  <2>1. CASE packet.op = "init"
    BY <1>2, <2>1, InitReceivedKeeps DEF Received
  <2>2. CASE packet.op = "initResponse"
    BY <1>2, <2>2, InitResponseReceivedKeeps DEF Received
  <2>3. CASE packet.op = "releaseWindow" /\ s.initialized
    BY <1>2, <2>3, ReleaseReceivedKeeps DEF Received
  <2>4. CASE packet.op = "message" /\ s.initialized
    BY <1>2, <2>4, MessageReceivedKeeps DEF Received
  <2>5. CASE packet.op \in {"releaseWindow", "message"} /\ ~s.initialized
    <3>1. packet.op \notin Handshake /\ Received(s, packet) = s
      BY <2>5 DEF Received, Handshake
    <3> QED
      BY <1>2, <3>1, DroppedKeeps
  <2> QED
    BY <1>3, <2>1, <2>2, <2>3, <2>4, <2>5 DEF Operations
<1>5. Both(p, SetNextState(p, Received(s, packet)), q)
  BY <1>4, SetNextStateKeeps
<1> QED
  BY <1>5 DEF packet, q

-----------------------------------------------------------------------------
(* An end starts, or starts over.                                           *)

\* What is left of the packets out
LeftOf(out, left) ==
    /\ left \in Seq(Packets)
    /\ \A i \in DOMAIN left : \E j \in DOMAIN out : left[i] = out[j]

LEMMA RemainingFacts ==
    ASSUME NEW s \in PeerStates, NEW left,
           left = s.out \/ (s.out # <<>> /\ left = Front(s.out))
    PROVE  /\ LeftOf(s.out, left)
           /\ \A epoch : /\ Flight(left, epoch) <= Flight(s.out, epoch)
                         /\ Granted(left, epoch) <= Granted(s.out, epoch)
<1>1. s.out \in Seq(Packets)
  BY PeerTypes
<1>2. CASE left = s.out
  <2>1. \A epoch : Flight(s.out, epoch) \in Nat /\ Granted(s.out, epoch) \in Nat
    BY <1>1, WireType
  <2> QED
    BY <1>1, <1>2, <2>1 DEF LeftOf
<1>3. CASE s.out # <<>> /\ left = Front(s.out)
  BY <1>1, <1>3, WireFront DEF LeftOf
<1> QED
  BY <1>2, <1>3

LEMMA ArrivingFacts ==
    ASSUME NEW out \in Seq(Packets), NEW left,
           left \in Suffixes(out) \/ left = out \/ (out # <<>> /\ left = Tail(out))
    PROVE  LeftOf(out, left)
<1>1. CASE left = out
  BY <1>1 DEF LeftOf
<1>2. CASE left = <<>>
  <2>1. <<>> \in Seq(Packets) /\ DOMAIN <<>> = {}
    OBVIOUS
  <2> QED
    BY <1>2, <2>1 DEF LeftOf
<1>3. ASSUME NEW l \in 1 .. Len(out), left = SubSeq(out, l, Len(out))
      PROVE  LeftOf(out, left)
  <2>1. Len(out) \in Nat /\ DOMAIN out = 1 .. Len(out)
    OBVIOUS
  <2>2. l \in Int /\ Len(out) \in Int /\ \A i \in l .. Len(out) : out[i] \in Packets
    BY <1>3, <2>1
  <2>3. /\ left \in Seq(Packets) /\ Len(left) = Len(out) - l + 1
        /\ \A i \in 1 .. Len(out) - l + 1 : left[i] = out[l + i - 1]
    <3>1. /\ SubSeq(out, l, Len(out)) \in Seq(Packets)
          /\ Len(SubSeq(out, l, Len(out))) = IF l <= Len(out) THEN Len(out) - l + 1 ELSE 0
          /\ \A i \in 1 .. Len(out) - l + 1 : SubSeq(out, l, Len(out))[i] = out[l + i - 1]
      BY <2>2, SubSeqProperties
    <3>2. l <= Len(out)
      BY <1>3, <2>1
    <3> QED
      BY <1>3, <3>1, <3>2
  <2>4. \A i \in DOMAIN left : left[i] = out[l + i - 1] /\ l + i - 1 \in DOMAIN out
    <3>1. DOMAIN left = 1 .. Len(out) - l + 1
      BY <2>3
    <3> QED
      BY <1>3, <2>1, <2>3, <3>1
  <2> QED
    BY <2>3, <2>4 DEF LeftOf
<1>4. CASE out # <<>> /\ left = Tail(out)
  <2>1. left \in Seq(Packets) /\ \A i \in DOMAIN left : left[i] = out[i + 1] /\ i + 1 \in DOMAIN out
    BY <1>4
  <2> QED
    BY <2>1 DEF LeftOf
<1> QED
  BY <1>1, <1>2, <1>3, <1>4 DEF Suffixes

\* Nothing of a handshake is left: all that is on the wire to p, or of what p gave back,
\* belongs to incarnations that are over.
LEMMA StartOverKeeps ==
    ASSUME NEW p \in Peers, NEW s, NEW r, Both(p, s, r), s.epoch < MaxStarts,
           NEW remaining, LeftOf(s.out, remaining),
           \A epoch : /\ Flight(remaining, epoch) <= Flight(s.out, epoch)
                      /\ Granted(remaining, epoch) <= Granted(s.out, epoch),
           NEW arriving, LeftOf(r.out, arriving),
           ~r.sendInitResponse, \A i \in DOMAIN s.out : s.out[i].op \notin Handshake,
           \A i \in DOMAIN arriving : arriving[i].op \notin Handshake
    PROVE  Both(p, [Fresh(p, s.epoch + 1) EXCEPT !.out = remaining \o @], [r EXCEPT !.out = arriving])
<1> DEFINE epoch == s.epoch + 1
           packet == PacketInit(p, epoch)
           t == [Fresh(p, s.epoch + 1) EXCEPT !.out = remaining \o @]
           q == [r EXCEPT !.out = arriving]
           n == Len(remaining)
<1>1. s \in PeerStates /\ r \in PeerStates /\ Local(p, s) /\ Local(Other(p), r)
  BY DEF Both, Directed, Local
<1>2. /\ remaining \in Seq(Packets) /\ arriving \in Seq(Packets) /\ n \in Nat
      /\ DOMAIN remaining = 1 .. n
  BY DEF LeftOf
<1>3. s.epoch \in Nat /\ epoch \in 0 .. MaxStarts /\ epoch > s.epoch
  BY <1>1, PeerTypes, WindowAssumption
<1>4. /\ packet \in Packets /\ packet.op = "init" /\ packet.epoch = epoch /\ packet.window = OwnBufferSize[p]
  <2>1. 0 \in Uint16
    BY ModulusFacts DEF Uint16
  <2> QED
    BY <1>3, <2>1, PacketTypes DEF PacketInit, Packet
<1> HIDE DEF packet, epoch
<1>5. remaining \o <<packet>> = Append(remaining, packet)
  BY <1>2, <1>4
<1>6. /\ t.initialized = FALSE /\ t.released = 0 /\ t.sendInitResponse = FALSE
      /\ t.reader = NoPacket /\ t.out = Append(remaining, packet) /\ t.epoch = epoch /\ t.other = 0
      /\ t.requested = 0 /\ t.sending = "init" /\ t.size = MessageSize(ControlSize) /\ t.window = 0
  BY <1>5 DEF Fresh, packet, epoch
<1>7. t \in PeerStates
  <2>1. Append(remaining, packet) \in Seq(Packets)
    BY <1>2, <1>4
  <2>2. 0 \in Uint16 /\ MessageSize(ControlSize) \in Uint16 /\ 0 \in 0 .. MaxStarts /\ "init" \in Operations
    BY ModulusFacts, SizeFacts, WindowAssumption DEF Uint16, ReleaseWindowSize, Operations
  <2>3. Fresh(p, epoch) \in PeerStates
    <3>1. <<packet>> \in Seq(Packets)
      BY <1>4
    <3> QED
      BY <1>3, <2>2, <3>1 DEF Fresh, PeerStates, packet
  <2>4. Fresh(p, epoch).out = <<packet>>
    BY DEF Fresh, packet
  <2>5. t = [Fresh(p, epoch) EXCEPT !.out = Append(remaining, packet)]
    BY <1>5, <2>4 DEF epoch
  <2> QED
    BY <2>1, <2>3, <2>5 DEF PeerStates
<1>8. /\ q \in PeerStates /\ q.out = arriving
      /\ q.initialized = r.initialized /\ q.released = r.released /\ q.sendInitResponse = r.sendInitResponse
      /\ q.reader = r.reader /\ q.epoch = r.epoch /\ q.other = r.other /\ q.requested = r.requested
      /\ q.sending = r.sending /\ q.size = r.size /\ q.window = r.window
  BY <1>1, <1>2 DEF PeerStates
<1> HIDE DEF t, q
<1>9. Net(q) = Net(r) /\ Net(t) = 0
  <2>1. Sending(t) = 0
    BY <1>6 DEF Sending
  <2>2. Net(t) = 0
    BY <1>6, <1>7, <2>1, NetFacts
  <2> QED
    BY <1>8, <2>2 DEF Net, Sending
<1>10. /\ DOMAIN t.out = 1 .. n + 1 /\ Len(t.out) = n + 1 /\ t.out[n + 1] = packet
       /\ \A i \in 1 .. n : t.out[i] = remaining[i]
  BY <1>2, <1>4, <1>6
<1>11. \A i \in DOMAIN t.out : i = n + 1 \/ \E j \in DOMAIN s.out : t.out[i] = s.out[j]
  BY <1>2, <1>10 DEF LeftOf
<1>12. \A i \in DOMAIN t.out : i # n + 1 => t.out[i].op \notin Handshake
  BY <1>11
<1>13. Current(s, r) /\ Current(r, s)
  BY DEF Both, Directed
<1>14. \A i \in DOMAIN arriving : arriving[i].epoch <= s.epoch /\ arriving[i].epoch \in Nat
  <2>1. \A i \in DOMAIN arriving : arriving[i] \in Packets
    BY <1>2
  <2>2. \A i \in DOMAIN arriving : arriving[i].epoch \in Nat
    BY <2>1 DEF Packets
  <2>3. \A i \in DOMAIN arriving : arriving[i].epoch <= s.epoch
    BY <1>13 DEF Current, LeftOf
  <2> QED
    BY <2>2, <2>3
<1>15. \A i \in DOMAIN arriving : arriving[i].epoch # epoch /\ arriving[i].epoch <= epoch
  BY <1>3, <1>14
<1>16. Local(p, t)
  <2>1. 0 <= MaxSendMessageSize(p)
    BY MaxFits
  <2> QED
    BY <1>6, <1>7, <2>1 DEF Local, Uninitialized
<1>17. Local(Other(p), q)
  BY <1>1, <1>8, <1>9 DEF Local, Uninitialized
<1>18. Granted(arriving, epoch) = 0 /\ Flight(arriving, epoch) = 0
  <2>1. \A i \in DOMAIN arriving : GrantOf(epoch, arriving[i]) = 0 /\ SizeOf(epoch, arriving[i]) = 0
    BY <1>15 DEF GrantOf, SizeOf, Handshake
  <2> QED
    BY <1>2, <2>1, WireZero
<1>19. Flight(t.out, r.epoch) <= Flight(s.out, r.epoch) /\ Granted(t.out, r.epoch) <= Granted(s.out, r.epoch)
  <2>1. SizeOf(r.epoch, packet) = 0 /\ GrantOf(r.epoch, packet) = 0
    BY <1>4 DEF SizeOf, GrantOf
  <2>2. /\ Flight(Append(remaining, packet), r.epoch) = Flight(remaining, r.epoch) + SizeOf(r.epoch, packet)
        /\ Granted(Append(remaining, packet), r.epoch) = Granted(remaining, r.epoch) + GrantOf(r.epoch, packet)
    BY <1>2, <1>4, WireAppend
  <2>3. Flight(remaining, r.epoch) \in Nat /\ Granted(remaining, r.epoch) \in Nat
    BY <1>2, WireType
  <2>4. Flight(t.out, r.epoch) = Flight(remaining, r.epoch) /\ Granted(t.out, r.epoch) = Granted(remaining, r.epoch)
    BY <1>6, <2>1, <2>2, <2>3
  <2> QED
    BY <2>4
<1>20. /\ Net(s) \in Nat /\ Net(r) \in Nat /\ Flight(s.out, r.epoch) \in Nat /\ Flight(t.out, r.epoch) \in Nat
       /\ Granted(s.out, r.epoch) \in Nat /\ Granted(t.out, r.epoch) \in Nat
       /\ Flight(r.out, s.epoch) \in Nat /\ Granted(r.out, s.epoch) \in Nat
       /\ s.released \in Nat /\ s.reader.size \in Nat /\ r.reader.size \in Nat /\ r.released \in Nat
       /\ OwnBufferSize[Other(p)] \in Nat /\ OwnBufferSize[Other(Other(p))] \in Nat
  BY <1>1, <1>7, NetFacts, PeerTypes, WireType, PeerFacts, ModulusFacts
<1>21. Conserved(p, s, r) /\ Conserved(Other(p), r, s)
  BY DEF Both, Directed
<1>22. Conserved(p, t, q)
  <2>1. Net(t) = 0 /\ Granted(q.out, t.epoch) = 0 /\ q.epoch = r.epoch /\ q.reader = r.reader /\ q.released = r.released
    BY <1>6, <1>8, <1>9, <1>18
  <2> QED
    BY <1>19, <1>20, <1>21, <2>1 DEF Conserved
<1>23. Conserved(Other(p), q, t)
  <2>1. Net(q) = Net(r) /\ Flight(q.out, t.epoch) = 0 /\ q.epoch = r.epoch /\ t.reader.size = 0 /\ t.released = 0
    BY <1>6, <1>8, <1>9, <1>18 DEF NoPacket, Packet
  <2> QED
    BY <1>19, <1>20, <1>21, <2>1 DEF Conserved
<1>24. Current(t, q)
  <2>1. r.epoch \in Nat
    BY <1>1, PeerTypes
  <2> QED
    BY <1>4, <1>6, <1>8, <1>10, <1>11, <1>13, <2>1 DEF Current, Handshake
<1>25. Current(q, t)
  <2>1. r.other \in Nat /\ r.other <= s.epoch
    BY <1>1, <1>13, PeerTypes DEF Current
  <2> QED
    BY <1>3, <1>6, <1>8, <1>15, <2>1 DEF Current
<1>26. InitUnderWay(p, t, q)
  <2>1. r.other \in Nat /\ r.other <= s.epoch
    BY <1>1, <1>13, PeerTypes DEF Current
  <2>2. q.other # epoch
    BY <1>3, <1>8, <2>1
  <2>3. \A i \in DOMAIN t.out : t.out[i].op = "init" => i = n + 1
    BY <1>12 DEF Handshake
  <2> QED
    BY <1>4, <1>6, <1>8, <1>10, <1>15, <2>2, <2>3 DEF InitUnderWay
<1>27. InitUnderWay(Other(p), q, t) /\ ResponseUnderWay(Other(p), q, t)
  BY <1>8 DEF InitUnderWay, ResponseUnderWay, Handshake
<1>28. ResponseOwed(t, q) /\ ResponseOwed(q, t)
  BY <1>6, <1>8 DEF ResponseOwed
<1>29. ResponseUnderWay(p, t, q)
  <2>1. \A i \in DOMAIN t.out : t.out[i].op # "initResponse"
    BY <1>4, <1>10, <1>12 DEF Handshake
  <2> QED
    BY <2>1 DEF ResponseUnderWay
<1>30. Both(p, t, q)
  BY <1>16, <1>17, <1>22, <1>23, <1>24, <1>25, <1>26, <1>27, <1>28, <1>29 DEF Both, Directed
<1> QED
  BY <1>30 DEF t, q

-----------------------------------------------------------------------------
(* The invariant.                                                           *)

LEMMA InvBoth ==
    ASSUME NEW p \in Peers
    PROVE  SessionInv <=> Both(p, peers[p], peers[Other(p)])
BY PeerFacts DEF SessionInv, Both

\* The step of one end, with what it leaves of the other
LEMMA StepBoth ==
    ASSUME NEW p \in Peers, NEW t, NEW q, TypeOK, Both(p, t, q),
           peers' = [peers EXCEPT ![p] = t, ![Other(p)] = q]
    PROVE  SessionInv' /\ TypeOK'
<1>1. Other(p) \in Peers /\ Other(p) # p /\ Other(Other(p)) = p /\ Peers = {p, Other(p)}
  BY PeerFacts
<1>2. peers'[p] = t /\ peers'[Other(p)] = q
  BY <1>1 DEF TypeOK
<1>3. t \in PeerStates /\ q \in PeerStates
  BY DEF Both, Directed, Local
<1>4. TypeOK'
  BY <1>1, <1>3 DEF TypeOK
<1>5. SessionInv'
  BY <1>1, <1>2 DEF SessionInv, Both
<1> QED
  BY <1>4, <1>5

LEMMA SessionInit == Init => SessionInv /\ TypeOK
<1> SUFFICES ASSUME Init
             PROVE  SessionInv /\ TypeOK
  OBVIOUS
<1>1. /\ Off.initialized = FALSE /\ Off.released = 0 /\ Off.sendInitResponse = FALSE
      /\ Off.reader = NoPacket /\ Off.out = <<>> /\ Off.epoch = 0 /\ Off.other = 0
      /\ Off.requested = 0 /\ Off.sending = "off" /\ Off.size = MessageSize(ControlSize) /\ Off.window = 0
  BY DEF Off, Fresh
<1>2. Off \in PeerStates
  <2>1. 0 \in Uint16 /\ MessageSize(ControlSize) \in Uint16 /\ 0 \in 0 .. MaxStarts /\ "init" \in Operations
    BY ModulusFacts, SizeFacts, WindowAssumption DEF Uint16, ReleaseWindowSize, Operations
  <2> DEFINE p == CHOOSE p \in Peers : TRUE
  <2>2. p \in Peers
    BY WindowAssumption
  <2> HIDE DEF p
  <2>3. PacketInit(p, 0) \in Packets
    BY <2>1, <2>2, PacketTypes
  <2>4. <<PacketInit(p, 0)>> \in Seq(Packets) /\ <<>> \in Seq(Packets)
    BY <2>3
  <2>5. Fresh(p, 0) \in PeerStates
    BY <2>1, <2>4 DEF Fresh, PeerStates
  <2> QED
    BY <2>4, <2>5 DEF Off, PeerStates, p
<1> HIDE DEF Off
<1>3. Net(Off) = 0 /\ DOMAIN Off.out = {} /\ NoPacket.size = 0
  <2>1. Sending(Off) = 0
    BY <1>1 DEF Sending
  <2> QED
    BY <1>1, <1>2, <2>1, NetFacts DEF NoPacket, Packet
<1>4. ASSUME NEW p \in Peers
      PROVE  Directed(p, Off, Off)
  <2>1. 0 <= MaxSendMessageSize(p)
    BY MaxFits
  <2>2. Local(p, Off)
    BY <1>1, <1>2, <2>1 DEF Local, Uninitialized
  <2>3. Flight(Off.out, Off.epoch) = 0 /\ Granted(Off.out, Off.epoch) = 0
    BY <1>1, WireEmpty
  <2>4. OwnBufferSize[Other(p)] \in Nat
    BY PeerFacts, ModulusFacts
  <2>5. Conserved(p, Off, Off)
    BY <1>1, <1>3, <2>3, <2>4 DEF Conserved
  <2> QED
    BY <1>1, <1>3, <2>2, <2>5 DEF Directed, Current, InitUnderWay, ResponseOwed, ResponseUnderWay
<1> QED
  BY <1>2, <1>4, PeerFacts DEF Init, SessionInv, TypeOK

\* No end starts while a handshake of the other is under way.
NoCrossing == ~Crossing

LEMMA StartOverInv ==
    ASSUME NoCrossing, SessionInv, TypeOK, NEW p \in Peers,
           NEW remaining \in Remaining(p), NEW arriving, LeftOf(peers[Other(p)].out, arriving),
           StartOver(p, remaining, arriving)
    PROVE  SessionInv' /\ TypeOK'
<1> DEFINE s == peers[p]
           r == peers[Other(p)]
<1>1. Both(p, s, r)
  BY InvBoth
<1>2. s \in PeerStates /\ r \in PeerStates
  BY <1>1 DEF Both, Directed, Local
<1>3. /\ LeftOf(s.out, remaining)
      /\ \A epoch : /\ Flight(remaining, epoch) <= Flight(s.out, epoch)
                    /\ Granted(remaining, epoch) <= Granted(s.out, epoch)
  <2>1. remaining = s.out \/ (s.out # <<>> /\ remaining = Front(s.out))
    <3>1. \/ remaining \in {peers[p].out}
          \/ remaining \in (IF peers[p].sending \notin {"off", "no", "filling"} /\ peers[p].out # <<>>
                            THEN {Front(peers[p].out)} ELSE {})
      BY Zenon DEF Remaining
    <3> QED
      BY <3>1
  <2> HIDE DEF s
  <2> QED
    BY <1>2, <2>1, RemainingFacts
<1>4. s.out \in Seq(Packets) /\ arriving \in Seq(Packets)
  BY <1>2, PeerTypes DEF LeftOf
<1>5. ~r.sendInitResponse /\ \A packet \in Range(s.out \o arriving) : packet.op \notin {"init", "initResponse"}
  BY DEF StartOver, NoHandshake, NoCrossing
<1>6. /\ peers' = [peers EXCEPT ![p] = [Fresh(p, s.epoch + 1) EXCEPT !.out = remaining \o @],
                                ![Other(p)] = [r EXCEPT !.out = arriving]]
      /\ s.epoch < MaxStarts
  <2>1. Other(p) \in Peers /\ Other(p) # p /\ DOMAIN peers = Peers
    BY PeerFacts DEF TypeOK
  <2>2. [peers EXCEPT ![p] = [Fresh(p, s.epoch + 1) EXCEPT !.out = remaining \o @]][Other(p)] = r
    BY <2>1
  <2> QED
    BY <2>2 DEF StartOver
<1> HIDE DEF s, r
<1>7. /\ \A i \in DOMAIN s.out : s.out[i].op \notin Handshake
      /\ \A i \in DOMAIN arriving : arriving[i].op \notin Handshake
  <2>1. \A i \in DOMAIN s.out : i \in DOMAIN (s.out \o arriving) /\ (s.out \o arriving)[i] = s.out[i]
    BY <1>4
  <2>2. \A i \in DOMAIN arriving : /\ Len(s.out) + i \in DOMAIN (s.out \o arriving)
                                   /\ (s.out \o arriving)[Len(s.out) + i] = arriving[i]
    BY <1>4
  <2> QED
    BY <1>5, <2>1, <2>2 DEF Range, Handshake
<1>8. LeftOf(r.out, arriving)
  BY DEF r
<1>9. Both(p, [Fresh(p, s.epoch + 1) EXCEPT !.out = remaining \o @], [r EXCEPT !.out = arriving])
  BY <1>1, <1>3, <1>5, <1>6, <1>7, <1>8, StartOverKeeps
<1> QED
  BY <1>6, <1>9, StepBoth

LEMMA ReceiveInv ==
    ASSUME TypeOK, NEW p \in Peers, NEW s, Both(p, s, peers[Other(p)]), s.reader = NoPacket,
           Receive(p, s)
    PROVE  SessionInv' /\ TypeOK'
<1> DEFINE r == peers[Other(p)]
           t == SetNextState(p, Received(s, Head(r.out)))
           q == [r EXCEPT !.out = Tail(@)]
<1>1. peers' = [peers EXCEPT ![p] = t, ![Other(p)] = q] /\ r.out # <<>>
  <2>1. Other(p) \in Peers /\ Other(p) # p /\ DOMAIN peers = Peers
    BY PeerFacts DEF TypeOK
  <2>2. [peers EXCEPT ![p] = t][Other(p)] = r
    BY <2>1
  <2> QED
    BY <2>2 DEF Receive
<1>2. Both(p, t, q)
  BY <1>1, ReceivedKeeps
<1> HIDE DEF t, q
<1> QED
  BY <1>1, <1>2, StepBoth

LEMMA BecomeInv ==
    ASSUME TypeOK, NEW p \in Peers, NEW t, Both(p, t, peers[Other(p)]), Become(p, t)
    PROVE  SessionInv' /\ TypeOK'
<1> DEFINE r == peers[Other(p)]
<1>1. peers' = [peers EXCEPT ![p] = t, ![Other(p)] = r]
  BY PeerFacts DEF Become, TypeOK
<1> QED
  BY <1>1, StepBoth

LEMMA SessionNext ==
    ASSUME NoCrossing, SessionInv, TypeOK, [Next]_peers
    PROVE  SessionInv' /\ TypeOK'
<1>1. ASSUME NEW p \in Peers, RequestSendMessage(p)
      PROVE  SessionInv' /\ TypeOK'
  <2>1. PICK size \in Requests : /\ size <= MaxSendMessageSize(p)
                                 /\ Become(p, SetNextState(p, [peers[p] EXCEPT !.requested = size]))
    BY <1>1 DEF RequestSendMessage
  <2>2. size \in Nat /\ peers[p].initialized
    BY <1>1, WindowAssumption DEF RequestSendMessage
  <2>3. Both(p, peers[p], peers[Other(p)])
    BY InvBoth
  <2>4. Both(p, [peers[p] EXCEPT !.requested = size], peers[Other(p)])
    BY <2>1, <2>2, <2>3, RequestKeeps
  <2>5. Both(p, SetNextState(p, [peers[p] EXCEPT !.requested = size]), peers[Other(p)])
    BY <2>4, SetNextStateKeeps
  <2> QED
    BY <2>1, <2>5, BecomeInv
<1>2. ASSUME NEW p \in Peers, StreamFilled(p)
      PROVE  SessionInv' /\ TypeOK'
  <2>1. PICK written \in {0, peers[p].size} :
            Become(p, SendPacket(peers[p], "message", PacketMessage(written, peers[p].other)))
    BY <1>2 DEF StreamFilled
  <2>2. Both(p, peers[p], peers[Other(p)]) /\ peers[p].sending = "filling"
    BY <1>2, InvBoth DEF StreamFilled
  <2>3. Both(p, SendPacket(peers[p], "message", PacketMessage(written, peers[p].other)), peers[Other(p)])
    BY <2>2, FilledKeeps
  <2> QED
    BY <2>1, <2>3, BecomeInv
<1>3. ASSUME NEW p \in Peers, MessageSent(p)
      PROVE  SessionInv' /\ TypeOK'
  <2> DEFINE s == peers[p]
             sent == [s EXCEPT !.sending = "no", !.size = 0,
                         !.window = IF s.sending = "init" THEN @ ELSE (@ + Modulus - s.size) % Modulus]
  <2>1. /\ s.sending \in {"init", "initResponse", "releaseWindow", "message"}
        /\ Become(p, SetNextState(p, sent))
    BY <1>3 DEF MessageSent
  <2>2. Both(p, s, peers[Other(p)])
    BY InvBoth
  <2>3. Both(p, sent, peers[Other(p)])
    BY <2>1, <2>2, SentKeeps
  <2> HIDE DEF sent
  <2>4. Both(p, SetNextState(p, sent), peers[Other(p)])
    BY <2>3, SetNextStateKeeps
  <2> QED
    BY <2>1, <2>4, BecomeInv
<1>4. ASSUME NEW p \in Peers, ReceivedMessage(p)
      PROVE  SessionInv' /\ TypeOK'
  <2>1. Both(p, peers[p], peers[Other(p)])
    BY InvBoth
  <2> QED
    BY <1>4, <2>1, ReceiveInv DEF ReceivedMessage
<1>5. ASSUME NEW p \in Peers, ReaderReleased(p)
      PROVE  SessionInv' /\ TypeOK'
  <2> DEFINE s == peers[p]
             done == [s EXCEPT !.released = (@ + s.reader.size) % Modulus, !.reader = NoPacket]
  <2>1. s.reader # NoPacket /\ (Become(p, SetNextState(p, done)) \/ Receive(p, done))
    BY <1>5 DEF ReaderReleased
  <2>2. Both(p, s, peers[Other(p)])
    BY InvBoth
  <2>3. Both(p, done, peers[Other(p)]) /\ done.reader = NoPacket
    BY <2>1, <2>2, DoneKeeps
  <2> HIDE DEF done
  <2>4. Both(p, SetNextState(p, done), peers[Other(p)])
    BY <2>3, SetNextStateKeeps
  <2> QED
    BY <2>1, <2>3, <2>4, BecomeInv, ReceiveInv
<1>6. ASSUME NEW p \in Peers
      PROVE  peers[Other(p)].out \in Seq(Packets)
  BY PeerFacts, PeerTypes DEF SessionInv, Directed, Local
<1>7. ASSUME NEW p \in Peers, PowerCycle(p)
      PROVE  SessionInv' /\ TypeOK'
  <2>1. PICK remaining \in Remaining(p), arriving \in Suffixes(peers[Other(p)].out) : StartOver(p, remaining, arriving)
    BY <1>7 DEF PowerCycle
  <2>2. LeftOf(peers[Other(p)].out, arriving)
    <3>1. peers[Other(p)].out \in Seq(Packets)
      BY <1>6
    <3> QED
      BY <2>1, <3>1, ArrivingFacts
  <2> QED
    BY <2>1, <2>2, StartOverInv
<1>8. ASSUME NEW p \in Peers, Reset(p)
      PROVE  SessionInv' /\ TypeOK'
  <2> DEFINE out == peers[Other(p)].out
  <2>1. PICK remaining \in Remaining(p) :
            StartOver(p, remaining, out) \/ (out # <<>> /\ StartOver(p, remaining, Tail(out)))
    BY <1>8 DEF Reset
  <2>2. LeftOf(out, out) /\ (out # <<>> => LeftOf(out, Tail(out)))
    <3>1. out \in Seq(Packets)
      BY <1>6
    <3> HIDE DEF out
    <3> QED
      BY <3>1, ArrivingFacts
  <2> QED
    BY <2>1, <2>2, StartOverInv
<1>9. CASE UNCHANGED peers
  BY <1>9 DEF SessionInv, TypeOK
<1> QED
  BY <1>1, <1>2, <1>3, <1>4, <1>5, <1>7, <1>8, <1>9 DEF Next, Request, Start, Step

-----------------------------------------------------------------------------
(* The theorems.                                                            *)

LEMMA SessionInvAlways ==
    ASSUME NoCrossing
    PROVE  Spec => [](SessionInv /\ TypeOK)
<1>1. SessionInv /\ TypeOK /\ [Next]_peers => (SessionInv /\ TypeOK)'
  BY SessionNext
<1> QED
  BY <1>1, SessionInit, PTL DEF Spec

\* Whatever the sizes of the buffers and of the messages, and however often the ends
\* are power cycled or reset, the bytes under way to an end and held by its
\* application never exceed the buffer it announced, and no end
\* ever thinks that it may send more than that.
THEOREM BuffersNeverOverrun ==
    ASSUME NoCrossing
    PROVE  Spec => []ReceiverNeverOverrun
<1>1. ASSUME SessionInv
      PROVE  ReceiverNeverOverrun
  <2>1. ASSUME NEW p \in Peers
        PROVE  /\ Buffered(p) <= OwnBufferSize[p]
               /\ peers[p].window <= OwnBufferSize[Other(p)] + Sending(peers[p])
    <3> DEFINE s == peers[p]
               r == peers[Other(p)]
    <3>1. Both(p, s, r)
      BY <1>1, InvBoth
    <3>2. s \in PeerStates /\ r \in PeerStates /\ Other(Other(p)) = p
      BY <3>1, PeerFacts DEF Both, Directed, Local
    <3>3. Conserved(p, s, r) /\ Conserved(Other(p), r, s)
      BY <3>1 DEF Both, Directed
    <3> HIDE DEF s, r
    <3>4. /\ Net(s) \in Nat /\ Net(r) \in Nat /\ Flight(s.out, r.epoch) \in Nat /\ Granted(s.out, r.epoch) \in Nat
          /\ Flight(r.out, s.epoch) \in Nat /\ Granted(r.out, s.epoch) \in Nat
          /\ s.released \in Nat /\ s.reader.size \in Nat /\ r.reader.size \in Nat /\ r.released \in Nat
          /\ OwnBufferSize[Other(p)] \in Nat /\ OwnBufferSize[p] \in Nat
      BY <3>2, NetFacts, PeerTypes, WireType, PeerFacts, ModulusFacts
    <3>5. s.reader.size + Flight(r.out, s.epoch) <= OwnBufferSize[p]
      BY <3>2, <3>3, <3>4 DEF Conserved
    <3>6. Net(s) <= OwnBufferSize[Other(p)]
      BY <3>3, <3>4 DEF Conserved
    <3>7. s.window \in Nat /\ Sending(s) \in Nat /\ (Sending(s) <= s.window => Net(s) = s.window - Sending(s))
      BY <3>2, NetFacts, PeerTypes
    <3>8. s.window <= OwnBufferSize[Other(p)] + Sending(s)
      BY <3>4, <3>6, <3>7
    <3> QED
      BY <3>5, <3>8 DEF Buffered, s, r
  <2> QED
    BY <2>1 DEF ReceiverNeverOverrun
<1> QED
  BY <1>1, SessionInvAlways, PTL

\* No end ever hands a message to its application that was meant for an earlier
\* incarnation of it, however many of them are still on the wire when it starts.
THEOREM SessionsAreKeptApart ==
    ASSUME NoCrossing
    PROVE  Spec => []SessionsNeverMix
<1>1. SessionInv => SessionsNeverMix
  BY DEF SessionInv, Directed, Local, SessionsNeverMix
<1> QED
  BY <1>1, SessionInvAlways, PTL

\* The members keep their types: no size or window ever leaves its uint16_t.
THEOREM WindowedTypeCorrect ==
    ASSUME NoCrossing
    PROVE  Spec => []TypeOK
BY SessionInvAlways, PTL

=============================================================================
