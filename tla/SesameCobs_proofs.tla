------------------------- MODULE SesameCobs_proofs -------------------------
(***************************************************************************)
(* Proofs about SesameCobs for messages of any contents and length, frames *)
(* of any size, any number of bytes under way and resets of either end     *)
(* between any two of them.                                                *)
(*                                                                         *)
(* Before and after each byte on the line is a place: where in which       *)
(* message the sender was.  The invariant says that there are places such  *)
(* that each byte leads from one to the next as the encoding has it, that  *)
(* the first one is where the receiver is and the last one where the       *)
(* sender is.                                                              *)
(***************************************************************************)
EXTENDS SesameCobs, SequenceTheorems, WellFoundedInduction, TLAPS

-----------------------------------------------------------------------------
(* Places.                                                                  *)

Messages == [contents : Seq(0 .. MaxFrame + 1), first : BOOLEAN, size : Nat, cut : BOOLEAN]

\* A place is in the packet of a message, when its first overhead byte is before
\* it, or between packets: behind a delimiter, which was sent for that message, or
\* where nothing was sent.
Places ==
    [in      : BOOLEAN,
     message : Nat,
     at      : Nat,         \* the bytes of the contents before the place
     end     : Nat,         \* those before the end of the frame
     full    : BOOLEAN,     \* the frame is one of MaxFrame bytes: no delimiter follows
     filled  : Nat]         \* the full frames before this one

Between(m) == [in |-> FALSE, message |-> m, at |-> 0, end |-> 0, full |-> TRUE, filled |-> 0]

\* The bytes of the packet before the place
Sent(p) == IF p.in THEN 1 + p.at + p.filled ELSE 0

\* The delimiter before the first packet counts for that packet
Extra(l, m) == IF l[m].first THEN 1 ELSE 0

GoodPlace(l, p) ==
    /\ p \in Places /\ p.message <= Len(l)
    /\ ~p.in => p = Between(p.message)
    /\ p.in => /\ 1 <= p.message
               /\ p.at <= p.end /\ p.end <= Len(l[p.message].contents)
               /\ p.filled * MaxFrame + (IF p.full THEN MaxFrame ELSE 0) <= p.end
               /\ ~p.full => p.filled * MaxFrame <= p.at

CutAt(l, p) == p.in /\ l[p.message].cut

\* The byte y is a delimiter.  It ends the packet, or is the one that is sent first
\* after a reset of the sender.
DelimiterStep(l, p, y, q) ==
    /\ y.byte = messageDelimiter
    /\ q = Between(y.message)
    /\ p.in /\ ~CutAt(l, p) =>
           /\ y.message = p.message
           /\ p.at = Len(l[p.message].contents)
           /\ l[p.message].size = Sent(p) + 1 + Extra(l, p.message)
    /\ ~p.in \/ y.message # p.message => p.message < y.message /\ l[y.message].first

\* The byte y is the overhead of the next frame.  It stands for the delimiter in the
\* contents that ended the frame before, if that was not a full one.
OverheadStep(l, p, y, q) ==
    LET c == l[y.message].contents
    IN
    /\ y.byte \in 1 .. MaxFrame + 1
    /\ q.in /\ q.message = y.message
    /\ p.in => p.message = y.message
    /\ p.at = p.end
    /\ q.at = (IF p.full THEN p.at ELSE p.at + 1)
    /\ q.end = q.at + y.byte - 1
    /\ ~p.full => c[q.at] = messageDelimiter
    /\ q.full <=> (y.byte = MaxFrame + 1)
    /\ q.filled = (IF p.in /\ p.full THEN p.filled + 1 ELSE p.filled)

\* The byte y is one of the contents.
DataStep(l, p, y, q) ==
    /\ p.in /\ p.message = y.message /\ p.at < p.end
    /\ y.byte = l[y.message].contents[p.at + 1] /\ y.byte # messageDelimiter
    /\ q = [p EXCEPT !.at = p.at + 1]

Step(l, p, y, q) ==
    /\ p.message <= y.message /\ y.message \in 1 .. Len(l)
    /\ DelimiterStep(l, p, y, q) \/ OverheadStep(l, p, y, q) \/ DataStep(l, p, y, q)

-----------------------------------------------------------------------------
(* The receiver at the first place.                                         *)

ReceiverType(r) ==
    /\ r \in [nextOverhead : Nat \ {0}, pseudo : BOOLEAN, message : Seq(Nat), size : Nat,
              encoded : Nat, reader : Nat, from : SUBSET Nat, counted : SUBSET Nat]
    /\ r.reader = 0 => Len(r.message) = r.size
    /\ r.reader # 0 => r.size = 0 /\ Len(r.message) = r.reader

\* What the receiver knows is what the place says.
InStep(l, r, p) ==
    /\ r.size = p.at
    /\ r.nextOverhead = p.end - p.at + 1
    /\ r.pseudo <=> p.full
    /\ p.in => \A i \in 1 .. p.at : r.message[i] = l[p.message].contents[i]

\* What was counted, of which messages.
Counts(l, r, p) ==
    /\ r.counted \subseteq 1 .. p.message
    /\ r.counted = {} => r.encoded = 0
    /\ p.in /\ r.counted # {} => p.message \in r.counted
    /\ p.in /\ ~CutAt(l, p) => p.message \in r.counted
    /\ \A m \in r.counted : r.counted = {m} /\ ~l[m].cut =>
           IF p.in
           THEN r.encoded = Sent(p) \/ (l[m].first /\ r.encoded = Sent(p) + 1)
           ELSE r.encoded = 1 /\ l[m].first

Receiver(l, r, p) ==
    /\ ReceiverType(r)
    /\ r.reader # 0 => ~p.in
    /\ r.from \subseteq {p.message}
    /\ ~p.in => r.from = {}
    /\ InStep(l, r, p) \/ CutAt(l, p)
    /\ Counts(l, r, p)

-----------------------------------------------------------------------------
(* The sender at the last place.                                            *)

SenderType(t) ==
    t \in [requested : BOOLEAN, writer : BOOLEAN, onRelease : {"send", "clear"},
           storage : Seq(0 .. MaxFrame + 1), dataToSend : Seq(0 .. MaxFrame + 1), frameSize : Nat,
           first : BOOLEAN, sending : BOOLEAN, resetting : BOOLEAN, size : Nat,
           serial : Seq(0 .. MaxFrame + 1), callback : {"none", "first", "overhead", "data", "last"},
           outstanding : BOOLEAN]

\* data is what follows the first a bytes of c.
RestOf(data, c, a) ==
    /\ a + Len(data) = Len(c)
    /\ \A i \in 1 .. Len(data) : data[i] = c[a + i]

\* k bytes after the first a of c are a frame.
IsFrame(c, a, k) ==
    /\ k <= MaxFrame /\ a + k <= Len(c)
    /\ \A i \in 1 .. k : c[a + i] # messageDelimiter
    /\ k = MaxFrame \/ a + k = Len(c) \/ c[a + k + 1] = messageDelimiter

Idle(l, t, p) ==
    /\ t.serial = <<>> /\ t.size = 0 /\ ~t.resetting
    /\ p.in => CutAt(l, p) /\ t.first

SendingFirst(l, t, p) ==
    LET m == Len(l)
    IN
    /\ t.callback = "first"
    /\ p.message < m /\ (p.in => CutAt(l, p))
    /\ Len(t.serial) = 1 /\ t.serial[1] = messageDelimiter
    /\ RestOf(t.dataToSend, l[m].contents, 0)
    /\ l[m].first /\ t.size = 1

\* The overhead of the frame after place p is being sent.
SendingOverhead(l, t, p) ==
    LET m == Len(l)
        c == l[m].contents
        a == IF p.full THEN p.at ELSE p.at + 1
    IN
    /\ t.callback = "overhead"
    /\ p.in => p.message = m
    /\ p.at = p.end
    /\ ~p.full => a <= Len(c) /\ c[a] = messageDelimiter
    /\ RestOf(t.dataToSend, c, a)
    /\ t.frameSize >= 1 /\ IsFrame(c, a, t.frameSize - 1)
    /\ Len(t.serial) = 1 /\ t.serial[1] = t.frameSize
    /\ t.size = Extra(l, m) + Sent(p) + 1

\* Place p is in the frame of which dataToSend begins with, or at its end.
InFrame(l, t, p) ==
    LET m == Len(l)
        c == l[m].contents
        a == p.end - t.frameSize
    IN
    /\ p.in /\ p.message = m
    /\ t.frameSize <= p.end /\ a <= p.at
    /\ RestOf(t.dataToSend, c, a)
    /\ IsFrame(c, a, t.frameSize)
    /\ p.full <=> (t.frameSize = MaxFrame)
    /\ t.size = Extra(l, m) + Sent(p) + Len(t.serial)

SendingData(l, t, p) ==
    LET c == l[Len(l)].contents
    IN
    /\ t.callback = "data"
    /\ InFrame(l, t, p)
    /\ Len(t.serial) >= 1 /\ Len(t.serial) = p.end - p.at
    /\ \A i \in 1 .. Len(t.serial) : t.serial[i] = c[p.at + i]

SendingLast(l, t, p) ==
    LET m == Len(l)
    IN
    /\ t.callback = "last"
    /\ p.in /\ p.message = m
    /\ p.at = p.end /\ p.end = Len(l[m].contents)
    /\ Len(t.serial) = 1 /\ t.serial[1] = messageDelimiter
    /\ t.size = Extra(l, m) + Sent(p) + 1

Sender(l, t, p) ==
    /\ SenderType(t)
    /\ t.writer => ~t.sending
    /\ t.requested => t.outstanding
    /\ ~t.sending => Idle(l, t, p)
    /\ t.sending =>
           /\ Len(l) >= 1 /\ l[Len(l)].size = 0 /\ l[Len(l)].contents # <<>>
           /\ t.resetting => l[Len(l)].cut /\ t.first
           /\ SendingFirst(l, t, p) \/ SendingOverhead(l, t, p) \/ SendingData(l, t, p) \/ SendingLast(l, t, p)

-----------------------------------------------------------------------------
(* The invariant.                                                           *)

Log(l) ==
    /\ l \in Seq(Messages)
    /\ \A m \in 1 .. Len(l) :
           /\ l[m].contents # <<>>
           /\ l[m].size <= MessageSize(Len(l[m].contents)) + Extra(l, m)

Received(l, v) ==
    /\ v \in [contents : Seq(Nat), from : SUBSET Nat, encoded : Nat, counted : SUBSET Nat]
    /\ v.from \subseteq 1 .. Len(l)
    /\ v.from # {} => v.encoded >= 1
    /\ \A m \in v.from :
           /\ v.from = {m}
           /\ ~l[m].cut => /\ v.contents = l[m].contents
                           /\ v.counted = {m} =>
                                  \/ v.encoded = l[m].size
                                  \/ l[m].first /\ v.encoded + 1 = l[m].size

Line(y) == y \in Seq([byte : 0 .. MaxFrame + 1, message : Nat])

\* places lead along the line.
Along(l, y, places) ==
    /\ places \in Seq(Places) /\ Len(places) = Len(y) + 1
    /\ \A i \in 1 .. Len(places) : GoodPlace(l, places[i])
    /\ \A i \in 1 .. Len(y) : Step(l, places[i], y[i], places[i + 1])

Connected(l, y, r, t, places) ==
    /\ Along(l, y, places)
    /\ Receiver(l, r, places[1])
    /\ Sender(l, t, places[Len(places)])

CobsInv ==
    /\ Log(log) /\ Line(line) /\ Received(log, received)
    /\ asserted \in BOOLEAN /\ resets \in Nat
    /\ \E places \in Seq(Places) : Connected(log, line, rx, tx, places)

-----------------------------------------------------------------------------
(* Frames.                                                                  *)

\* A set of natural numbers that is not empty has a least one.
LEMMA LeastNatural ==
    ASSUME NEW S \in SUBSET Nat, S # {}
    PROVE  \E x \in S : \A y \in S : x <= y
<1>1. IsWellFoundedOn(OpToRel(<, Nat), Nat)
  BY NatLessThanWellFounded
<1>2. PICK x \in S : \A y \in S : ~(<<y, x>> \in OpToRel(<, Nat))
  BY <1>1, WFMin, Zenon
<1>3. ASSUME NEW y \in S
      PROVE  x <= y
  <2>1. ~(<<y, x>> \in {ss \in Nat \X Nat : ss[1] < ss[2]})
    BY <1>2 DEF OpToRel
  <2>2. x \in Nat /\ y \in Nat
    OBVIOUS
  <2>3. <<y, x>> \in Nat \X Nat /\ <<y, x>>[1] = y /\ <<y, x>>[2] = x
    BY <2>2
  <2>4. ~(y < x)
    BY <2>1, <2>3
  <2> QED
    BY <2>2, <2>4
<1> QED
  BY <1>3

\* What FindDelimiter promises of its result k: a frame of the data that is left.
Delimits(k, data) ==
    /\ k \in Nat /\ k <= MaxFrame /\ k <= Len(data)
    /\ \A i \in 1 .. k : data[i] # messageDelimiter
    /\ k = MaxFrame \/ k = Len(data) \/ data[k + 1] = messageDelimiter

\* FindDelimiter finds the end of a frame in any data.
LEMMA FindDelimiterResult ==
    ASSUME NEW data \in Seq(0 .. MaxFrame + 1)
    PROVE  Delimits(FindDelimiter(data), data)
<1> DEFINE most == IF Len(data) < MaxFrame THEN Len(data) ELSE MaxFrame
           P(k) == /\ \A i \in 1 .. k : data[i] # messageDelimiter
                   /\ k = most \/ data[k + 1] = messageDelimiter
           S == {k \in Nat : k = most \/ (k < most /\ data[k + 1] = messageDelimiter)}
<1>0. MaxFrame \in Nat /\ Len(data) \in Nat /\ most \in Nat /\ most <= MaxFrame /\ most <= Len(data)
      /\ (most = MaxFrame \/ most = Len(data))
  BY CobsAssumption
<1> HIDE DEF most
<1>1. most \in S
  BY <1>0
<1>2. PICK k \in S : \A y \in S : k <= y
  BY <1>1, LeastNatural
<1>3. k \in 0 .. most
  BY <1>0, <1>1, <1>2
<1>4. ASSUME NEW i \in 1 .. k
      PROVE  data[i] # messageDelimiter
  <2>1. i - 1 \in Nat /\ i - 1 < k /\ i - 1 < most /\ (i - 1) + 1 = i
    BY <1>0, <1>3
  <2>2. i - 1 \notin S
    BY <1>2, <2>1
  <2> QED
    BY <2>1, <2>2
<1>5. P(k)
  BY <1>2, <1>4
<1>6. FindDelimiter(data) = CHOOSE j \in 0 .. most : P(j)
  BY DEF FindDelimiter, most
<1> HIDE DEF P
<1>7. FindDelimiter(data) \in 0 .. most /\ P(FindDelimiter(data))
  BY <1>3, <1>5, <1>6
<1> QED
  BY <1>0, <1>7 DEF P, Delimits

-----------------------------------------------------------------------------
(* The log only grows, and what was cut stays cut.                          *)

Grown(l, k) ==
    /\ k \in Seq(Messages) /\ Len(l) <= Len(k)
    /\ \A m \in 1 .. Len(l) :
           /\ k[m].contents = l[m].contents
           /\ k[m].first = l[m].first
           /\ l[m].cut => k[m].cut
           /\ l[m].size = 0 \/ k[m].size = l[m].size

\* A message of the log has its fields.
LEMMA MessageFields ==
    ASSUME NEW l \in Seq(Messages), NEW m \in 1 .. Len(l)
    PROVE  /\ l[m] \in Messages
           /\ l[m].contents \in Seq(0 .. MaxFrame + 1) /\ Len(l[m].contents) \in Nat
           /\ l[m].first \in BOOLEAN /\ l[m].cut \in BOOLEAN /\ l[m].size \in Nat
           /\ Extra(l, m) \in {0, 1}
<1>1. l[m] \in Messages
  OBVIOUS
<1>2. /\ l[m].contents \in Seq(0 .. MaxFrame + 1)
      /\ l[m].first \in BOOLEAN /\ l[m].cut \in BOOLEAN /\ l[m].size \in Nat
  BY <1>1 DEF Messages
<1> QED
  BY <1>1, <1>2 DEF Extra

\* A place stays one.
LEMMA PlaceGrown ==
    ASSUME NEW l \in Seq(Messages), NEW k, Grown(l, k), NEW p, GoodPlace(l, p)
    PROVE  GoodPlace(k, p) /\ (CutAt(l, p) => CutAt(k, p))
<1>1. p.message \in Nat /\ p.message <= Len(l) /\ Len(l) \in Nat /\ Len(k) \in Nat
  BY DEF GoodPlace, Places, Grown
<1>2. CASE p.in
  <2>1. p.message \in 1 .. Len(l)
    BY <1>1, <1>2 DEF GoodPlace
  <2>2. k[p.message].contents = l[p.message].contents /\ (l[p.message].cut => k[p.message].cut)
    BY <2>1 DEF Grown
  <2> QED
    BY <1>1, <2>1, <2>2 DEF GoodPlace, CutAt, Grown
<1>3. CASE ~p.in
  BY <1>1, <1>3 DEF GoodPlace, CutAt, Grown
<1> QED
  BY <1>2, <1>3

\* A byte leads from place to place as before.
LEMMA StepGrown ==
    ASSUME NEW l \in Seq(Messages), NEW k, Grown(l, k), NEW p, NEW q, NEW y,
           GoodPlace(l, p), GoodPlace(l, q), Step(l, p, y, q)
    PROVE  Step(k, p, y, q)
<1>1. y.message \in 1 .. Len(l) /\ y.message \in 1 .. Len(k)
  BY DEF Step, Grown
<1>2. /\ k[y.message].contents = l[y.message].contents
      /\ k[y.message].first = l[y.message].first
  BY <1>1 DEF Grown
<1>3. CASE DelimiterStep(l, p, y, q)
  <2>1. ASSUME p.in, ~CutAt(k, p)
        PROVE  /\ y.message = p.message
               /\ p.at = Len(k[p.message].contents)
               /\ k[p.message].size = Sent(p) + 1 + Extra(k, p.message)
    <3>1. ~CutAt(l, p)
      BY <2>1, PlaceGrown
    <3>2. /\ y.message = p.message
          /\ p.at = Len(l[p.message].contents)
          /\ l[p.message].size = Sent(p) + 1 + Extra(l, p.message)
      BY <2>1, <3>1, <1>3 DEF DelimiterStep
    <3>3. Sent(p) \in Nat /\ Extra(l, p.message) \in {0, 1}
      BY DEF Sent, GoodPlace, Places, Extra
    <3>4. k[p.message].size = l[p.message].size
      <4>1. l[p.message].size # 0
        BY <3>2, <3>3
      <4> QED
        BY <1>1, <3>2, <4>1 DEF Grown
    <3>5. Extra(k, p.message) = Extra(l, p.message)
      BY <1>2, <3>2 DEF Extra
    <3> QED
      BY <3>2, <3>4, <3>5, <1>2
  <2>2. DelimiterStep(k, p, y, q)
    BY <1>2, <1>3, <2>1 DEF DelimiterStep
  <2> QED
    BY <1>1, <2>2 DEF Step
<1>4. CASE OverheadStep(l, p, y, q)
  BY <1>1, <1>2, <1>4 DEF OverheadStep, Step
<1>5. CASE DataStep(l, p, y, q)
  BY <1>1, <1>2, <1>5 DEF DataStep, Step
<1> QED
  BY <1>3, <1>4, <1>5 DEF Step

\* Places lead along the line as before.
LEMMA AlongGrown ==
    ASSUME NEW l \in Seq(Messages), NEW k, Grown(l, k), NEW y, NEW places, Line(y), Along(l, y, places)
    PROVE  Along(k, y, places)
<1>1. Len(y) \in Nat /\ Len(places) = Len(y) + 1 /\ places \in Seq(Places)
  BY DEF Line, Along
<1>2. ASSUME NEW i \in 1 .. Len(places)
      PROVE  GoodPlace(k, places[i])
  <2>1. GoodPlace(l, places[i])
    BY DEF Along
  <2> QED
    BY <2>1, PlaceGrown
<1>3. ASSUME NEW i \in 1 .. Len(y)
      PROVE  Step(k, places[i], y[i], places[i + 1])
  <2>1. i \in 1 .. Len(places) /\ i + 1 \in 1 .. Len(places)
    BY <1>1
  <2>2. GoodPlace(l, places[i]) /\ GoodPlace(l, places[i + 1]) /\ Step(l, places[i], y[i], places[i + 1])
    BY <2>1 DEF Along
  <2> QED
    BY <2>2, StepGrown
<1> QED
  BY <1>1, <1>2, <1>3 DEF Along

\* What was forwarded is what it was.
LEMMA ReceivedGrown ==
    ASSUME NEW l \in Seq(Messages), NEW k, Grown(l, k), NEW v, Received(l, v)
    PROVE  Received(k, v)
<1>1. v.from \subseteq 1 .. Len(k) /\ v.encoded \in Nat
  BY DEF Received, Grown
<1>2. ASSUME NEW m \in v.from, ~k[m].cut
      PROVE  /\ v.contents = k[m].contents
             /\ v.counted = {m} => \/ v.encoded = k[m].size
                                   \/ k[m].first /\ v.encoded + 1 = k[m].size
  <2>1. m \in 1 .. Len(l)
    BY DEF Received
  <2>2. k[m].contents = l[m].contents /\ k[m].first = l[m].first /\ ~l[m].cut
        /\ (l[m].size = 0 \/ k[m].size = l[m].size)
    BY <1>2, <2>1 DEF Grown
  <2>3. v.encoded >= 1
    BY DEF Received
  <2>4. v.contents = l[m].contents
        /\ (v.counted = {m} => v.encoded = l[m].size \/ (l[m].first /\ v.encoded + 1 = l[m].size))
    BY <2>2 DEF Received
  <2> QED
    BY <1>1, <2>2, <2>3, <2>4
<1> QED
  BY <1>1, <1>2 DEF Received

\* The receiver is where it was.
LEMMA ReceiverGrown ==
    ASSUME NEW l \in Seq(Messages), NEW k, Grown(l, k), NEW r, NEW p, GoodPlace(l, p), Receiver(l, r, p)
    PROVE  Receiver(k, r, p)
<1>1. p.message \in Nat /\ p.message <= Len(l)
  BY DEF GoodPlace, Places
<1>2. CutAt(l, p) => CutAt(k, p)
  BY PlaceGrown
<1>3. p.in => k[p.message].contents = l[p.message].contents
  BY <1>1 DEF GoodPlace, Grown
<1>4. InStep(l, r, p) => InStep(k, r, p)
  BY <1>3 DEF InStep
<1>5. Counts(k, r, p)
  <2>1. ASSUME NEW m \in r.counted
        PROVE  k[m].first = l[m].first /\ (l[m].cut => k[m].cut)
    <3>1. m \in 1 .. Len(l)
      BY <1>1 DEF Receiver, Counts
    <3> QED
      BY <3>1 DEF Grown
  <2> QED
    BY <1>2, <2>1 DEF Receiver, Counts
<1> QED
  BY <1>2, <1>4, <1>5 DEF Receiver

\* The sender is where it was, when no message was added and the last one got no size.
LEMMA SenderGrown ==
    ASSUME NEW l \in Seq(Messages), NEW k, Grown(l, k), Len(k) = Len(l), NEW t, NEW p, GoodPlace(l, p),
           Sender(l, t, p), t.sending => k[Len(l)].size = l[Len(l)].size
    PROVE  Sender(k, t, p)
<1>1. CutAt(l, p) => CutAt(k, p)
  BY PlaceGrown
<1>2. CASE ~t.sending
  BY <1>1, <1>2 DEF Sender, Idle
<1>3. CASE t.sending
  <2>1. Len(l) \in 1 .. Len(l)
    BY <1>3 DEF Sender
  <2>2. /\ k[Len(l)].contents = l[Len(l)].contents /\ k[Len(l)].first = l[Len(l)].first
        /\ k[Len(l)].size = l[Len(l)].size /\ (l[Len(l)].cut => k[Len(l)].cut)
    BY <1>3, <2>1 DEF Grown
  <2>3. Extra(k, Len(l)) = Extra(l, Len(l))
    BY <2>2 DEF Extra
  <2>4. SendingFirst(l, t, p) => SendingFirst(k, t, p)
    BY <1>1, <2>2 DEF SendingFirst
  <2>5. SendingOverhead(l, t, p) => SendingOverhead(k, t, p)
    BY <2>2, <2>3 DEF SendingOverhead
  <2>6. SendingData(l, t, p) => SendingData(k, t, p)
    BY <2>2, <2>3 DEF SendingData, InFrame
  <2>7. SendingLast(l, t, p) => SendingLast(k, t, p)
    BY <2>2, <2>3 DEF SendingLast
  <2> QED
    BY <1>3, <2>2, <2>4, <2>5, <2>6, <2>7 DEF Sender
<1> QED
  BY <1>2, <1>3

-----------------------------------------------------------------------------
(* The steps of the sender.                                                 *)

\* t has what d has but for the bytes it sends.
SameMembers(d, t) ==
    /\ d.requested = t.requested /\ d.writer = t.writer /\ d.first = t.first
    /\ d.sending = t.sending /\ d.resetting = t.resetting /\ d.outstanding = t.outstanding

\* What holds of the sender throughout a message.
Busy(l, t) ==
    /\ SenderType(t) /\ t.sending /\ ~t.writer
    /\ t.requested => t.outstanding
    /\ Len(l) >= 1 /\ l[Len(l)].size = 0 /\ l[Len(l)].contents # <<>>
    /\ t.resetting => l[Len(l)].cut /\ t.first

LEMMA BusySame ==
    ASSUME NEW l, NEW t, NEW d, Busy(l, t), SenderType(d), SameMembers(d, t)
    PROVE  Busy(l, d)
BY DEF Busy, SameMembers, SenderType

\* What SendData leaves.
Sends(d, t, bytes, callback) ==
    /\ SenderType(d) /\ SameMembers(d, t)
    /\ d.serial = bytes /\ d.callback = callback /\ d.size = t.size + Len(bytes)
    /\ d.dataToSend = t.dataToSend /\ d.frameSize = t.frameSize

LEMMA SendDataSends ==
    ASSUME NEW t, SenderType(t), NEW bytes \in Seq(0 .. MaxFrame + 1),
           NEW callback \in {"first", "overhead", "data", "last"}
    PROVE  Sends(SendData(t, bytes, callback), t, bytes, callback)
<1>1. t.size + Len(bytes) \in Nat
  BY DEF SenderType
<1> QED
  BY <1>1 DEF SenderType, SendData, SameMembers, Sends

\* The next frame begins after place p.
Ready(l, t, p) ==
    LET m == Len(l)
        c == l[m].contents
        a == IF p.full THEN p.at ELSE p.at + 1
    IN
    /\ p.in => p.message = m
    /\ p.at = p.end
    /\ ~p.full => a <= Len(c) /\ c[a] = messageDelimiter
    /\ RestOf(t.dataToSend, c, a)
    /\ t.size = Extra(l, m) + Sent(p)

\* SendFrame begins the next frame.
LEMMA SendFrameSends ==
    ASSUME NEW l \in Seq(Messages), NEW t, NEW p, GoodPlace(l, p), Busy(l, t), Ready(l, t, p)
    PROVE  Sender(l, SendFrame(t), p)
<1> DEFINE k == FindDelimiter(t.dataToSend)
           u == [t EXCEPT !.frameSize = k + 1]
           d == SendData(u, <<k + 1>>, "overhead")
           m == Len(l)
           c == l[m].contents
           a == IF p.full THEN p.at ELSE p.at + 1
<1>1. SendFrame(t) = d
  BY DEF SendFrame
<1>2. Delimits(k, t.dataToSend)
  BY FindDelimiterResult DEF Busy, SenderType
<1>3. k \in Nat /\ k + 1 \in Nat /\ k + 1 \in 0 .. MaxFrame + 1 /\ MaxFrame \in Nat
  BY <1>2, CobsAssumption DEF Delimits
<1> HIDE DEF k
<1>4. /\ SenderType(u) /\ SameMembers(u, t) /\ u.frameSize = k + 1
      /\ u.dataToSend = t.dataToSend /\ u.size = t.size
  BY <1>3 DEF Busy, SenderType, SameMembers
<1> HIDE DEF u
<1>5. <<k + 1>> \in Seq(0 .. MaxFrame + 1) /\ Len(<<k + 1>>) = 1 /\ <<k + 1>>[1] = k + 1
  BY <1>3
<1>6. /\ SenderType(d) /\ SameMembers(d, u)
      /\ d.serial = <<k + 1>> /\ d.callback = "overhead" /\ d.size = u.size + 1
      /\ d.dataToSend = u.dataToSend /\ d.frameSize = u.frameSize
  <2>1. Sends(d, u, <<k + 1>>, "overhead")
    BY <1>4, <1>5, SendDataSends
  <2> QED
    BY <2>1, <1>5 DEF Sends
<1> HIDE DEF d
<1>7. Busy(l, d)
  BY <1>4, <1>6, BusySame DEF Busy
<1>8. m \in 1 .. Len(l) /\ c \in Seq(0 .. MaxFrame + 1) /\ Len(c) \in Nat /\ a \in Nat
  BY MessageFields DEF Busy, GoodPlace, Places
<1>9. t.dataToSend \in Seq(0 .. MaxFrame + 1)
  BY DEF Busy, SenderType
<1>10. IsFrame(c, a, k)
  <2>1. RestOf(t.dataToSend, c, a)
    BY DEF Ready
  <2> HIDE DEF a, c
  <2>2. a + k <= Len(c)
    BY <1>2, <1>3, <1>8, <1>9, <2>1 DEF Delimits, RestOf
  <2>3. ASSUME NEW i \in 1 .. k
        PROVE  c[a + i] # messageDelimiter
    <3>1. t.dataToSend[i] # messageDelimiter /\ k <= Len(t.dataToSend)
      BY <1>2 DEF Delimits
    <3>2. i \in 1 .. Len(t.dataToSend)
      BY <1>3, <1>9, <3>1
    <3> QED
      BY <2>1, <3>1, <3>2 DEF RestOf
  <2>4. k = MaxFrame \/ a + k = Len(c) \/ c[a + k + 1] = messageDelimiter
    <3>1. CASE k = MaxFrame
      BY <3>1
    <3>2. CASE k = Len(t.dataToSend)
      BY <3>2, <1>3, <1>8, <1>9, <2>1 DEF RestOf
    <3>3. CASE k # Len(t.dataToSend) /\ t.dataToSend[k + 1] = messageDelimiter
      <4>1. k + 1 \in 1 .. Len(t.dataToSend)
        BY <3>3, <1>2, <1>3, <1>9 DEF Delimits
      <4>2. t.dataToSend[k + 1] = c[a + (k + 1)]
        BY <4>1, <2>1 DEF RestOf
      <4>3. a + (k + 1) = a + k + 1
        BY <1>3, <1>8
      <4> QED
        BY <3>3, <4>2, <4>3
    <3> QED
      BY <3>1, <3>2, <3>3, <1>2 DEF Delimits
  <2> QED
    BY <1>2, <2>2, <2>3, <2>4 DEF IsFrame, Delimits
<1>11. SendingOverhead(l, d, p)
  <2>1. d.frameSize = k + 1 /\ d.frameSize >= 1 /\ d.frameSize - 1 = k
    BY <1>3, <1>4, <1>6
  <2>2. IsFrame(c, a, d.frameSize - 1)
    BY <1>10, <2>1
  <2>3. d.size = Extra(l, m) + Sent(p) + 1
    BY <1>4, <1>6 DEF Ready
  <2>4. Len(d.serial) = 1 /\ d.serial[1] = d.frameSize
    BY <1>5, <1>6, <2>1
  <2>5. RestOf(d.dataToSend, c, a)
    BY <1>4, <1>6 DEF Ready
  <2> QED
    BY <1>6, <2>1, <2>2, <2>3, <2>4, <2>5 DEF SendingOverhead, Ready
<1> QED
  BY <1>1, <1>7, <1>11 DEF Sender, Busy

\* When nothing is to be sent, CheckReadyToSendUserData leaves an idle sender, whose
\* writer is in use when there was a request.
LEMMA CheckReadyIdle ==
    ASSUME NEW l, NEW u, NEW p, SenderType(u), ~u.sending, ~u.resetting, u.size = 0, u.serial = <<>>,
           p.in => CutAt(l, p) /\ u.first
    PROVE  Sender(l, CheckReadyToSendUserData(u), p)
<1>1. CASE u.requested
  <2> DEFINE v == [u EXCEPT !.requested = FALSE, !.writer = TRUE]
  <2>1. /\ SenderType(v) /\ ~v.sending /\ ~v.resetting /\ v.size = 0 /\ v.serial = <<>>
        /\ v.first = u.first /\ ~v.requested
    BY DEF SenderType
  <2>2. CheckReadyToSendUserData(u) = v
    BY <1>1 DEF CheckReadyToSendUserData
  <2> HIDE DEF v
  <2> QED
    BY <2>1, <2>2 DEF Sender, Idle
<1>2. CASE ~u.requested
  BY <1>2 DEF CheckReadyToSendUserData, Sender, Idle
<1> QED
  BY <1>1, <1>2

LEMMA FinishResetIdle ==
    ASSUME NEW l, NEW t, NEW p, SenderType(t), t.serial = <<>>, p.in => CutAt(l, p) /\ t.first
    PROVE  Sender(l, FinishReset(t), p)
<1> DEFINE u == [t EXCEPT !.resetting = FALSE, !.sending = FALSE, !.size = 0, !.callback = "none"]
<1>1. /\ SenderType(u) /\ ~u.sending /\ ~u.resetting /\ u.size = 0 /\ u.serial = <<>>
      /\ u.first = t.first
  BY DEF SenderType
<1>2. FinishReset(t) = CheckReadyToSendUserData(u)
  BY DEF FinishReset
<1> HIDE DEF u
<1> QED
  BY <1>1, <1>2, CheckReadyIdle

\* The packet's end is sent after its last frame.
LEMMA LastDelimiterFollows ==
    ASSUME NEW l \in Seq(Messages), NEW t, NEW p, GoodPlace(l, p), Busy(l, t),
           p.in, p.message = Len(l), p.at = p.end, p.end = Len(l[Len(l)].contents),
           t.size = Extra(l, Len(l)) + Sent(p)
    PROVE  Sender(l, SendData(t, <<messageDelimiter>>, "last"), p)
<1> DEFINE d == SendData(t, <<messageDelimiter>>, "last")
<1>1. <<messageDelimiter>> \in Seq(0 .. MaxFrame + 1) /\ Len(<<messageDelimiter>>) = 1
      /\ <<messageDelimiter>>[1] = messageDelimiter
  BY CobsAssumption DEF messageDelimiter
<1>2. /\ SenderType(d) /\ SameMembers(d, t)
      /\ d.serial = <<messageDelimiter>> /\ d.callback = "last" /\ d.size = t.size + 1
  <2>1. Sends(d, t, <<messageDelimiter>>, "last")
    BY <1>1, SendDataSends DEF Busy
  <2> QED
    BY <2>1, <1>1 DEF Sends
<1> HIDE DEF d
<1>3. Busy(l, d)
  BY <1>2, BusySame
<1>4. SendingLast(l, d, p)
  BY <1>1, <1>2 DEF SendingLast
<1> QED
  BY <1>3, <1>4 DEF Sender, Busy, d

\* What follows n bytes of what follows a bytes.
LEMMA DiscardHeadRest ==
    ASSUME NEW S, NEW data \in Seq(S), NEW c \in Seq(S), NEW a \in Nat, NEW n \in Nat, n <= Len(data),
           RestOf(data, c, a)
    PROVE  /\ DiscardHead(data, n) \in Seq(S)
           /\ Len(DiscardHead(data, n)) = Len(data) - n
           /\ RestOf(DiscardHead(data, n), c, a + n)
<1> DEFINE rest == SubSeq(data, n + 1, Len(data))
<1>1. Len(data) \in Nat /\ Len(c) \in Nat /\ a + Len(data) = Len(c)
  BY DEF RestOf
<1>2. rest \in Seq(S) /\ Len(rest) = Len(data) - n
      /\ \A i \in 1 .. Len(data) - n : rest[i] = data[n + i]
  BY <1>1
<1> HIDE DEF rest
<1>3. ASSUME NEW i \in 1 .. Len(rest)
      PROVE  rest[i] = c[a + n + i]
  <2>1. n + i \in 1 .. Len(data) /\ i \in 1 .. Len(data) - n
    BY <1>1, <1>2
  <2>2. data[n + i] = c[a + (n + i)]
    BY <2>1 DEF RestOf
  <2>3. a + (n + i) = a + n + i
    BY <1>1, <1>2
  <2> QED
    BY <1>2, <2>1, <2>2, <2>3
<1>4. a + n + Len(rest) = Len(c)
  BY <1>1, <1>2
<1> QED
  BY <1>2, <1>3, <1>4 DEF DiscardHead, rest, RestOf

\* The tail of what follows.
LEMMA TailRest ==
    ASSUME NEW S, NEW data \in Seq(S), NEW c \in Seq(S), NEW a \in Nat, data # <<>>, RestOf(data, c, a)
    PROVE  Tail(data) \in Seq(S) /\ RestOf(Tail(data), c, a + 1)
<1>1. Len(data) \in Nat /\ Len(data) >= 1 /\ Len(c) \in Nat /\ a + Len(data) = Len(c)
  BY DEF RestOf
<1>2. Tail(data) \in Seq(S) /\ Len(Tail(data)) = Len(data) - 1
      /\ \A i \in 1 .. Len(data) - 1 : Tail(data)[i] = data[i + 1]
  BY <1>1
<1>3. ASSUME NEW i \in 1 .. Len(Tail(data))
      PROVE  Tail(data)[i] = c[a + 1 + i]
  <2>1. i + 1 \in 1 .. Len(data) /\ i \in 1 .. Len(data) - 1
    BY <1>1, <1>2
  <2>2. data[i + 1] = c[a + (i + 1)]
    BY <2>1 DEF RestOf
  <2>3. a + (i + 1) = a + 1 + i
    BY <1>1, <1>2
  <2> QED
    BY <1>2, <2>1, <2>2, <2>3
<1> QED
  BY <1>1, <1>2, <1>3 DEF RestOf

\* Of a frame that is sent, the next one or the end of the packet follows.
LEMMA SendFrameDoneSends ==
    ASSUME NEW l \in Seq(Messages), NEW t, NEW p, GoodPlace(l, p), Busy(l, t), InFrame(l, t, p),
           p.at = p.end, t.serial = <<>>
    PROVE  Sender(l, SendFrameDone(t), p)
<1> DEFINE m == Len(l)
           c == l[m].contents
           k == t.frameSize
           a == p.end - k
           rest == DiscardHead(t.dataToSend, k)
<1>1. /\ m \in 1 .. Len(l) /\ c \in Seq(0 .. MaxFrame + 1) /\ Len(c) \in Nat
      /\ k \in Nat /\ p.end \in Nat /\ a \in Nat /\ a + k = p.end /\ MaxFrame \in Nat
      /\ t.dataToSend \in Seq(0 .. MaxFrame + 1)
  <2>1. m \in 1 .. Len(l)
    BY DEF Busy
  <2>2. c \in Seq(0 .. MaxFrame + 1) /\ Len(c) \in Nat
    BY <2>1, MessageFields
  <2>3. k \in Nat /\ t.dataToSend \in Seq(0 .. MaxFrame + 1)
    BY DEF Busy, SenderType
  <2>4. p.end \in Nat
    BY DEF GoodPlace, Places
  <2>5. k <= p.end
    BY DEF InFrame
  <2> QED
    BY <2>1, <2>2, <2>3, <2>4, <2>5, CobsAssumption
<1>2. RestOf(t.dataToSend, c, a) /\ IsFrame(c, a, k) /\ p.in /\ p.message = m
      /\ (p.full <=> (k = MaxFrame))
  BY DEF InFrame
<1>3. t.size = Extra(l, m) + Sent(p)
  <2>1. t.size = Extra(l, m) + Sent(p) + 0
    BY DEF InFrame
  <2>2. Extra(l, m) + Sent(p) \in Nat
    <3>1. Sent(p) \in Nat
      BY DEF Sent, GoodPlace, Places
    <3>2. Extra(l, m) \in {0, 1}
      BY <1>1, MessageFields
    <3> QED
      BY <3>1, <3>2
  <2> QED
    BY <2>1, <2>2
<1>4. /\ rest \in Seq(0 .. MaxFrame + 1)
      /\ RestOf(rest, c, p.end)
  <2> HIDE DEF a, c, k
  <2>1. k <= Len(t.dataToSend)
    BY <1>1, <1>2 DEF RestOf, IsFrame
  <2> QED
    BY <1>1, <1>2, <2>1, DiscardHeadRest
<1>5. CASE rest = <<>> \/ k = MaxFrame
  <2> DEFINE u == [t EXCEPT !.dataToSend = rest]
  <2>1. /\ SenderType(u) /\ SameMembers(u, t) /\ u.dataToSend = rest
        /\ u.size = t.size /\ u.serial = <<>>
    BY <1>4 DEF Busy, SenderType, SameMembers
  <2>2. SendFrameDone(t) = SendOrDone(u)
    BY <1>5 DEF SendFrameDone
  <2> HIDE DEF u, rest
  <2>3. Busy(l, u)
    BY <2>1, BusySame
  <2>4. CASE u.resetting
    <3>1. SenderType(u) /\ u.serial = <<>> /\ CutAt(l, p) /\ u.first
      BY <2>1, <2>3, <2>4, <1>2 DEF Busy, CutAt
    <3>2. Sender(l, FinishReset(u), p)
      BY <3>1, FinishResetIdle
    <3> QED
      BY <2>2, <2>4, <3>2 DEF SendOrDone
  <2>5. CASE ~u.resetting /\ rest = <<>>
    <3>1. p.end = Len(c)
      BY <1>1, <1>4, <2>5 DEF RestOf
    <3>2. Sender(l, SendData(u, <<messageDelimiter>>, "last"), p)
      BY <1>2, <1>3, <2>1, <2>3, <3>1, LastDelimiterFollows
    <3> QED
      BY <2>1, <2>2, <2>5, <3>2 DEF SendOrDone
  <2>6. CASE ~u.resetting /\ rest # <<>>
    <3>1. Ready(l, u, p)
      BY <1>2, <1>3, <1>4, <1>5, <2>1, <2>6 DEF Ready
    <3>2. Sender(l, SendFrame(u), p)
      BY <2>3, <3>1, SendFrameSends
    <3> QED
      BY <2>1, <2>2, <2>6, <3>2 DEF SendOrDone
  <2> QED
    BY <2>4, <2>5, <2>6
<1>6. CASE ~(rest = <<>> \/ k = MaxFrame)
  <2> DEFINE u == [t EXCEPT !.dataToSend = Tail(rest)]
  <2>1. Tail(rest) \in Seq(0 .. MaxFrame + 1) /\ RestOf(Tail(rest), c, p.end + 1)
    <3> HIDE DEF rest, c
    <3> QED
      BY <1>1, <1>4, <1>6, TailRest
  <2>2. /\ SenderType(u) /\ SameMembers(u, t) /\ u.dataToSend = Tail(rest)
        /\ u.size = t.size /\ u.serial = <<>>
    BY <2>1 DEF Busy, SenderType, SameMembers
  <2>3. SendFrameDone(t) = SendFrame(u)
    BY <1>6 DEF SendFrameDone
  <2>4. c[p.end + 1] = messageDelimiter /\ p.end + 1 <= Len(c)
    <3> HIDE DEF rest, c, a, k
    <3>1. Len(rest) >= 1 /\ p.end + Len(rest) = Len(c)
      BY <1>4, <1>6 DEF RestOf
    <3>2. a + k # Len(c) /\ a + k + 1 = p.end + 1
      BY <1>1, <1>4, <3>1
    <3>3. k # MaxFrame
      BY <1>6 DEF k
    <3>4. c[a + k + 1] = messageDelimiter
      BY <1>2, <3>2, <3>3 DEF IsFrame
    <3>5. p.end + 1 <= Len(c)
      BY <1>1, <1>4, <3>1
    <3> QED
      BY <3>2, <3>4, <3>5
  <2> HIDE DEF u
  <2>5. Busy(l, u)
    BY <2>2, BusySame
  <2>6. Ready(l, u, p)
    BY <1>2, <1>3, <1>6, <2>1, <2>2, <2>4 DEF Ready
  <2> QED
    BY <2>3, <2>5, <2>6, SendFrameSends
<1> QED
  BY <1>5, <1>6

-----------------------------------------------------------------------------
(* A byte goes onto the line.                                               *)

\* t is what x is when the serial port has sent a byte.
Popped(t, x) ==
    /\ SenderType(t) /\ SameMembers(t, x) /\ t.serial = Tail(x.serial) /\ t.callback = x.callback
    /\ t.size = x.size /\ t.dataToSend = x.dataToSend /\ t.frameSize = x.frameSize

\* With the byte y the sender moves to a place, where d describes it.
Moves(l, p, y, d) == \E q \in Places : GoodPlace(l, q) /\ Step(l, p, y, q) /\ Sender(l, d, q)

LEMMA PopBusy ==
    ASSUME NEW l, NEW p, NEW x, Sender(l, x, p), x.serial # <<>>
    PROVE  /\ x.sending /\ Busy(l, x)
           /\ Popped([x EXCEPT !.serial = Tail(x.serial)], x)
           /\ Busy(l, [x EXCEPT !.serial = Tail(x.serial)])
<1>1. x.sending /\ Busy(l, x)
  BY DEF Sender, Idle, Busy
<1> DEFINE t == [x EXCEPT !.serial = Tail(x.serial)]
<1>2. Tail(x.serial) \in Seq(0 .. MaxFrame + 1)
  BY DEF Sender, SenderType
<1>3. Popped(t, x)
  BY <1>1, <1>2 DEF Busy, Popped, SenderType, SameMembers
<1> HIDE DEF t
<1>4. Busy(l, t)
  BY <1>1, <1>3, BusySame DEF Popped
<1> QED
  BY <1>1, <1>3, <1>4 DEF t

\* The tail of a single byte is empty.
LEMMA TailOfOne ==
    ASSUME NEW S, NEW s \in Seq(S), Len(s) = 1
    PROVE  Tail(s) = <<>>
<1>1. s # <<>>
  OBVIOUS
<1>2. Tail(s) \in Seq(S) /\ Len(Tail(s)) = 0
  BY <1>1
<1>3. \A e \in Seq(S) : Len(e) = 0 => e = <<>>
  OBVIOUS
<1> QED
  BY <1>2, <1>3

\* The delimiter that is sent first.
LEMMA FirstDelimiterMoves ==
    ASSUME NEW l \in Seq(Messages), NEW p, GoodPlace(l, p), NEW x, NEW t, SenderType(x), SendingFirst(l, x, p),
           Popped(t, x), Busy(l, t)
    PROVE  Moves(l, p, [byte |-> x.serial[1], message |-> Len(l)], SendOrDone(t))
<1> DEFINE m == Len(l)
           q == Between(m)
           y == [byte |-> x.serial[1], message |-> m]
<1>1. m \in 1 .. Len(l)
  BY DEF Busy
<1>2. q \in Places /\ GoodPlace(l, q) /\ ~q.in /\ q.full /\ q.at = 0 /\ q.end = 0 /\ Sent(q) = 0
  BY <1>1 DEF GoodPlace, Places, Between, Sent
<1>3. y.byte = messageDelimiter /\ y.message = m
  BY DEF SendingFirst
<1>4. p.message \in Nat /\ p.message < m /\ (p.in => CutAt(l, p)) /\ l[m].first
  BY DEF SendingFirst, GoodPlace, Places
<1> HIDE DEF y
<1>5. DelimiterStep(l, p, y, q)
  BY <1>1, <1>3, <1>4 DEF DelimiterStep
<1>6. Step(l, p, y, q)
  BY <1>1, <1>3, <1>4, <1>5 DEF Step
<1> HIDE DEF q
<1>7. t.serial = <<>>
  BY TailOfOne DEF Popped, SendingFirst, SenderType
<1>8. RestOf(t.dataToSend, l[m].contents, 0) /\ t.size = 1
  BY DEF Popped, SendingFirst
<1>9. t.dataToSend # <<>>
  <2>1. l[m].contents \in Seq(0 .. MaxFrame + 1) /\ l[m].contents # <<>>
    BY <1>1, MessageFields DEF Busy
  <2>2. Len(l[m].contents) # 0
    BY <2>1
  <2> QED
    BY <1>8, <2>2 DEF RestOf
<1>10. CASE t.resetting
  <2>1. SenderType(t)
    BY DEF Busy
  <2>2. Sender(l, FinishReset(t), q)
    BY <1>2, <1>7, <2>1, FinishResetIdle
  <2>3. SendOrDone(t) = FinishReset(t)
    BY <1>10 DEF SendOrDone
  <2> QED
    BY <1>2, <1>6, <2>2, <2>3 DEF Moves, y
<1>11. CASE ~t.resetting
  <2>1. Extra(l, m) = 1
    BY <1>4 DEF Extra
  <2>2. Ready(l, t, q)
    BY <1>2, <1>8, <2>1 DEF Ready
  <2>3. Sender(l, SendFrame(t), q)
    BY <1>2, <2>2, SendFrameSends
  <2>4. SendOrDone(t) = SendFrame(t)
    BY <1>9, <1>11 DEF SendOrDone
  <2> QED
    BY <1>2, <1>6, <2>3, <2>4 DEF Moves, y
<1> QED
  BY <1>10, <1>11

\* The place after an overhead byte.
InNextFrame(l, p, k) ==
    LET a == IF p.full THEN p.at ELSE p.at + 1
    IN  [in |-> TRUE, message |-> Len(l), at |-> a, end |-> a + k, full |-> (k = MaxFrame),
         filled |-> IF p.in /\ p.full THEN p.filled + 1 ELSE p.filled]

\* It is one, and the full frames before it are so many that they fit.
LEMMA NextFramePlace ==
    ASSUME NEW l \in Seq(Messages), NEW p, GoodPlace(l, p), Len(l) >= 1, p.at = p.end,
           NEW k \in Nat, k <= MaxFrame,
           (IF p.full THEN p.at ELSE p.at + 1) + k <= Len(l[Len(l)].contents)
    PROVE  GoodPlace(l, InNextFrame(l, p, k)) /\ InNextFrame(l, p, k) \in Places
<1> DEFINE q == InNextFrame(l, p, k)
           a == IF p.full THEN p.at ELSE p.at + 1
           f == IF p.in /\ p.full THEN p.filled + 1 ELSE p.filled
<1>1. /\ p.at \in Nat /\ p.end \in Nat /\ p.filled \in Nat /\ p.full \in BOOLEAN /\ p.in \in BOOLEAN
      /\ MaxFrame \in Nat /\ Len(l) \in Nat
  BY CobsAssumption DEF GoodPlace, Places
<1>2. a \in Nat /\ f \in Nat /\ a + k \in Nat
  BY SMTT(30), <1>1
<1>3. /\ q.in /\ q.message = Len(l) /\ q.at = a /\ q.end = a + k /\ q.filled = f
      /\ q.full = (k = MaxFrame) /\ q \in Places
  BY <1>1, <1>2 DEF InNextFrame, Places
<1> HIDE DEF q
<1>4. f * MaxFrame \in Nat /\ f * MaxFrame <= a
  <2>1. CASE p.in /\ p.full
    <3>1. p.filled * MaxFrame + MaxFrame <= p.end
      BY <2>1 DEF GoodPlace
    <3>2. f * MaxFrame = p.filled * MaxFrame + MaxFrame
      BY <1>1, <2>1
    <3>3. a = p.end
      BY <2>1
    <3> QED
      BY SMTT(30), <1>1, <1>2, <3>1, <3>2, <3>3
  <2>2. CASE p.in /\ ~p.full
    <3>1. p.filled * MaxFrame <= p.at /\ f = p.filled /\ a = p.at + 1
      BY <2>2 DEF GoodPlace
    <3>2. p.filled * MaxFrame \in Nat
      BY <1>1
    <3> QED
      BY <1>1, <3>1, <3>2
  <2>3. CASE ~p.in
    <3>1. p.filled = 0 /\ f = 0
      BY <2>3 DEF GoodPlace, Between
    <3> QED
      BY <1>1, <1>2, <3>1
  <2> QED
    BY <2>1, <2>2, <2>3
<1> HIDE DEF a, f
<1>5. f * MaxFrame + (IF q.full THEN MaxFrame ELSE 0) <= a + k
  <2>1. q.full => f * MaxFrame + MaxFrame <= a + k
    <3>1. q.full => k = MaxFrame
      BY <1>3
    <3> QED
      BY <1>1, <1>2, <1>4, <3>1
  <2>2. f * MaxFrame + 0 <= a + k
    BY <1>2, <1>4
  <2> QED
    BY <2>1, <2>2
<1>6. a + k <= Len(l[Len(l)].contents)
  BY DEF a
<1>7. GoodPlace(l, q)
  BY <1>1, <1>2, <1>3, <1>4, <1>5, <1>6 DEF GoodPlace
<1> QED
  BY <1>3, <1>7 DEF q

\* The first k bytes of a sequence.
LEMMA HeadBytes ==
    ASSUME NEW S, NEW data \in Seq(S), NEW k \in Nat, k <= Len(data)
    PROVE  /\ SubSeq(data, 1, k) \in Seq(S) /\ Len(SubSeq(data, 1, k)) = k
           /\ \A i \in 1 .. k : SubSeq(data, 1, k)[i] = data[i]
OBVIOUS

\* The overhead byte of a frame.
LEMMA OverheadMoves ==
    ASSUME NEW l \in Seq(Messages), NEW p, GoodPlace(l, p), NEW x, NEW t, SenderType(x),
           SendingOverhead(l, x, p), Popped(t, x), Busy(l, t)
    PROVE  Moves(l, p, [byte |-> x.serial[1], message |-> Len(l)], OverheadSent(t))
<1> DEFINE m == Len(l)
           c == l[m].contents
           a == IF p.full THEN p.at ELSE p.at + 1
           k == t.frameSize - 1
           q == InNextFrame(l, p, k)
           y == [byte |-> x.serial[1], message |-> m]
           v == [t EXCEPT !.frameSize = t.frameSize - 1]
<1>1. /\ m \in 1 .. Len(l) /\ c \in Seq(0 .. MaxFrame + 1) /\ Len(c) \in Nat
      /\ p.at \in Nat /\ p.filled \in Nat /\ a \in Nat /\ MaxFrame \in Nat /\ p.message \in Nat
  <2>1. m \in 1 .. Len(l)
    BY DEF Busy
  <2>2. c \in Seq(0 .. MaxFrame + 1) /\ Len(c) \in Nat
    BY <2>1, MessageFields
  <2>3. p.at \in Nat /\ p.filled \in Nat /\ p.message \in Nat
    BY DEF GoodPlace, Places
  <2> QED
    BY <2>1, <2>2, <2>3, CobsAssumption
<1>2. /\ x.frameSize = t.frameSize /\ t.frameSize \in Nat /\ t.frameSize >= 1
      /\ k \in Nat /\ t.frameSize = k + 1
  BY DEF SendingOverhead, Popped, SenderType
<1>3. IsFrame(c, a, k) /\ RestOf(t.dataToSend, c, a) /\ t.dataToSend \in Seq(0 .. MaxFrame + 1)
  BY <1>2 DEF SendingOverhead, Popped, SenderType
<1>4. y.byte = k + 1 /\ y.message = m
  BY <1>2 DEF SendingOverhead
<1>5. t.serial = <<>>
  BY TailOfOne DEF Popped, SendingOverhead, SenderType
<1>6. /\ SenderType(v) /\ SameMembers(v, t) /\ v.frameSize = k /\ v.serial = <<>>
      /\ v.dataToSend = t.dataToSend /\ v.size = t.size
  BY <1>2, <1>5 DEF Popped, SenderType, SameMembers
<1>7. Busy(l, v)
  <2> HIDE DEF v
  <2> QED
    BY <1>6, BusySame
<1>8. GoodPlace(l, q) /\ q \in Places
  <2>1. k <= MaxFrame /\ a + k <= Len(c) /\ p.at = p.end /\ Len(l) >= 1
    BY <1>1, <1>3 DEF IsFrame, SendingOverhead
  <2> HIDE DEF k
  <2> QED
    BY <1>2, <2>1, NextFramePlace
<1>9. /\ q.in /\ q.message = m /\ q.at = a /\ q.end = a + k /\ (q.full <=> (k = MaxFrame))
      /\ q.filled = (IF p.in /\ p.full THEN p.filled + 1 ELSE p.filled)
  BY DEF InNextFrame
<1>10. Sent(q) = Sent(p) + 1 /\ Sent(p) \in Nat
  <2>1. CASE p.in
    <3>1. Sent(q) = 1 + q.at + q.filled /\ Sent(p) = 1 + p.at + p.filled
      BY <1>9, <2>1 DEF Sent
    <3>2. CASE p.full
      <4>1. q.at = p.at /\ q.filled = p.filled + 1
        BY <1>9, <2>1, <3>2
      <4> QED
        BY <1>1, <3>1, <4>1
    <3>3. CASE ~p.full
      <4>1. q.at = p.at + 1 /\ q.filled = p.filled
        BY <1>9, <2>1, <3>3
      <4>2. p.at \in Nat /\ p.filled \in Nat
        BY <1>1
      <4> QED
        BY <3>1, <4>1, <4>2
    <3> QED
      BY <3>2, <3>3
  <2>2. CASE ~p.in
    <3>1. p.at = 0 /\ p.full /\ p.filled = 0
      BY <2>2 DEF GoodPlace, Between
    <3> QED
      BY <1>1, <1>9, <2>2, <3>1 DEF Sent
  <2> QED
    BY <2>1, <2>2
<1> HIDE DEF q, y, v, k
<1>11. OverheadStep(l, p, y, q)
  <2>1. y.byte \in 1 .. MaxFrame + 1 /\ (y.byte = MaxFrame + 1 <=> k = MaxFrame)
    <3>1. k <= MaxFrame /\ MaxFrame \in Nat /\ k \in Nat
      BY <1>1, <1>2, <1>3 DEF IsFrame
    <3> QED
      BY <1>4, <3>1
  <2>2. q.end = q.at + y.byte - 1
    BY <1>1, <1>2, <1>4, <1>9
  <2> QED
    BY <1>4, <1>9, <2>1, <2>2 DEF OverheadStep, SendingOverhead
<1>12. Step(l, p, y, q)
  <2>1. p.message <= m
    BY DEF GoodPlace
  <2> QED
    BY <1>1, <1>4, <1>11, <2>1 DEF Step
<1>13. /\ k <= q.end /\ q.end - k = a /\ a <= q.at /\ Extra(l, m) \in {0, 1}
       /\ t.size = Extra(l, m) + Sent(q)
  <2>1. Extra(l, m) \in {0, 1}
    BY <1>1, MessageFields
  <2>2. t.size = Extra(l, m) + Sent(p) + 1
    BY DEF Popped, SendingOverhead
  <2> QED
    <3> HIDE DEF a
    <3>1. a \in Nat /\ k \in Nat /\ q.at = a /\ q.end = a + k
      BY <1>1, <1>2, <1>9
    <3>2. k <= q.end /\ q.end - k = a /\ a <= q.at
      BY <3>1
    <3>3. t.size = Extra(l, m) + Sent(q)
      BY <1>10, <2>1, <2>2
    <3> QED
      BY <2>1, <3>2, <3>3
<1>14. CASE t.resetting
  <2>1. SenderType(v) /\ v.serial = <<>> /\ CutAt(l, q) /\ v.first
    BY <1>6, <1>7, <1>9, <1>14 DEF Busy, CutAt, SameMembers
  <2>2. Sender(l, FinishReset(v), q)
    BY <2>1, FinishResetIdle
  <2>3. OverheadSent(t) = FinishReset(v)
    BY <1>14 DEF OverheadSent, v
  <2> QED
    BY <1>8, <1>12, <2>2, <2>3 DEF Moves, y
<1>15. CASE ~t.resetting /\ t.frameSize > 1
  <2> DEFINE bytes == SubSeq(t.dataToSend, 1, k)
             d == SendData(v, bytes, "data")
  <2>1. k <= Len(t.dataToSend) /\ k >= 1
    BY <1>1, <1>2, <1>3, <1>15 DEF IsFrame, RestOf
  <2>2. bytes \in Seq(0 .. MaxFrame + 1) /\ Len(bytes) = k
        /\ \A i \in 1 .. k : bytes[i] = t.dataToSend[i]
    BY <1>2, <1>3, <2>1, HeadBytes
  <2> HIDE DEF bytes
  <2>3. Sends(d, v, bytes, "data")
    BY <1>6, <2>2, SendDataSends
  <2>4. OverheadSent(t) = d
    BY <1>15 DEF OverheadSent, v, bytes, k
  <2> HIDE DEF d
  <2>5. /\ SenderType(d) /\ SameMembers(d, v) /\ d.serial = bytes /\ d.callback = "data"
        /\ d.size = t.size + k /\ d.dataToSend = t.dataToSend /\ d.frameSize = k
    BY <1>6, <2>2, <2>3 DEF Sends
  <2>6. InFrame(l, d, q)
    <3>1. d.size = Extra(l, m) + Sent(q) + Len(d.serial)
      BY <1>13, <2>2, <2>5
    <3> QED
      BY <1>3, <1>9, <1>13, <2>5, <3>1 DEF InFrame
  <2>7. ASSUME NEW i \in 1 .. Len(d.serial)
        PROVE  d.serial[i] = c[q.at + i]
    <3>1. i \in 1 .. k /\ i \in 1 .. Len(t.dataToSend)
      BY <1>2, <1>3, <2>1, <2>2, <2>5
    <3> QED
      BY <1>3, <1>9, <2>2, <2>5, <3>1 DEF RestOf
  <2>8. Len(d.serial) = q.end - q.at /\ Len(d.serial) >= 1
    <3> HIDE DEF a
    <3>1. a \in Nat /\ k \in Nat /\ q.at = a /\ q.end = a + k /\ Len(d.serial) = k
      BY <1>1, <1>2, <1>9, <2>2, <2>5
    <3> QED
      BY <2>1, <3>1
  <2>9. SendingData(l, d, q)
    BY <2>5, <2>6, <2>7, <2>8 DEF SendingData
  <2>10. Busy(l, d)
    BY <1>7, <2>5, BusySame
  <2>11. Sender(l, d, q)
    BY <2>9, <2>10 DEF Sender, Busy
  <2> QED
    BY <1>8, <1>12, <2>4, <2>11 DEF Moves, y
<1>16. CASE ~t.resetting /\ ~(t.frameSize > 1)
  <2>1. k = 0
    BY <1>2, <1>16
  <2>2. OverheadSent(t) = SendFrameDone(v)
    BY <1>16 DEF OverheadSent, v
  <2>3. q.at = q.end
    BY <1>1, <1>9, <2>1
  <2>4. v.size = Extra(l, m) + Sent(q) + Len(v.serial)
    BY <1>6, <1>10, <1>13
  <2>5. InFrame(l, v, q)
    BY <1>3, <1>6, <1>9, <1>13, <2>4 DEF InFrame
  <2>6. Sender(l, SendFrameDone(v), q)
    BY <1>6, <1>7, <1>8, <2>3, <2>5, SendFrameDoneSends
  <2> QED
    BY <1>8, <1>12, <2>2, <2>6 DEF Moves, y
<1> QED
  BY <1>14, <1>15, <1>16

\* A byte of the contents.
LEMMA DataMoves ==
    ASSUME NEW l \in Seq(Messages), NEW p, GoodPlace(l, p), NEW x, NEW t, SenderType(x),
           SendingData(l, x, p), Popped(t, x), Busy(l, t)
    PROVE  Moves(l, p, [byte |-> x.serial[1], message |-> Len(l)],
                 IF t.serial # <<>> THEN t ELSE SendFrameDone(t))
<1> DEFINE m == Len(l)
           c == l[m].contents
           k == t.frameSize
           a == p.end - k
           q == [p EXCEPT !.at = p.at + 1]
           y == [byte |-> x.serial[1], message |-> m]
<1>1. /\ m \in 1 .. Len(l) /\ c \in Seq(0 .. MaxFrame + 1) /\ Len(c) \in Nat
      /\ p.at \in Nat /\ p.filled \in Nat /\ p.end \in Nat /\ MaxFrame \in Nat /\ p.message \in Nat /\ k \in Nat
  <2>1. m \in 1 .. Len(l)
    BY DEF Busy
  <2>2. c \in Seq(0 .. MaxFrame + 1) /\ Len(c) \in Nat
    BY <2>1, MessageFields
  <2>3. p.at \in Nat /\ p.filled \in Nat /\ p.message \in Nat /\ p.end \in Nat
    BY DEF GoodPlace, Places
  <2>4. k \in Nat
    BY DEF Busy, SenderType
  <2> QED
    BY <2>1, <2>2, <2>3, <2>4, CobsAssumption
<1>2. /\ x.serial \in Seq(0 .. MaxFrame + 1) /\ Len(x.serial) >= 1 /\ Len(x.serial) = p.end - p.at
      /\ x.serial[1] = c[p.at + 1] /\ Len(x.serial) \in Nat
      /\ \A i \in 1 .. Len(x.serial) : x.serial[i] = c[p.at + i]
  BY DEF SendingData, SenderType
<1>3. /\ p.in /\ p.message = m /\ k <= p.end /\ a <= p.at
      /\ RestOf(t.dataToSend, c, a) /\ IsFrame(c, a, k)
      /\ p.full <=> (k = MaxFrame)
      /\ t.size = Extra(l, m) + Sent(p) + Len(x.serial)
  BY DEF Popped, SendingData, InFrame
<1>4. p.at < p.end /\ a \in Nat /\ a + k = p.end
  <2>1. p.at \in Nat /\ p.end \in Nat /\ k \in Nat /\ k <= p.end /\ 1 <= p.end - p.at
    BY <1>1, <1>2, <1>3
  <2> QED
    BY <2>1
<1>5. /\ q.in /\ q.message = m /\ q.at = p.at + 1 /\ q.end = p.end /\ (q.full <=> p.full)
      /\ q.filled = p.filled /\ q \in Places
  <2>1. p \in Places /\ p.at + 1 \in Nat
    BY <1>1 DEF GoodPlace
  <2> QED
    BY <1>3, <2>1 DEF Places
<1>6. Sent(q) = Sent(p) + 1 /\ Sent(p) \in Nat /\ Extra(l, m) \in {0, 1}
  <2>1. Extra(l, m) \in {0, 1}
    BY <1>1, MessageFields
  <2>2. Sent(q) = 1 + q.at + q.filled /\ Sent(p) = 1 + p.at + p.filled
    BY <1>3, <1>5 DEF Sent
  <2> QED
    <3>1. p.at \in Nat /\ p.filled \in Nat /\ q.at = p.at + 1 /\ q.filled = p.filled
      BY <1>1, <1>5
    <3> HIDE DEF q
    <3> QED
      BY <2>1, <2>2, <3>1
<1>7. c[p.at + 1] # messageDelimiter
  <2> HIDE DEF c, a, k
  <2>1. (p.at + 1) - a \in 1 .. k /\ a + ((p.at + 1) - a) = p.at + 1
    BY SMTT(30), <1>1, <1>3, <1>4
  <2> QED
    BY <1>3, <2>1 DEF IsFrame
<1>8. DataStep(l, p, y, q)
  BY <1>2, <1>3, <1>4, <1>7 DEF DataStep
<1>9. Step(l, p, y, q)
  BY <1>1, <1>3, <1>8 DEF Step
<1>10. GoodPlace(l, q)
  <2>1. p.filled * MaxFrame \in Nat
    BY <1>1
  <2> HIDE DEF q
  <2> QED
    <3>1. q.message <= Len(l) /\ 1 <= q.message /\ q.at <= q.end
      BY <1>1, <1>4, <1>5
    <3>2. q.end <= Len(l[q.message].contents)
      BY <1>3, <1>5 DEF GoodPlace
    <3>3. q.filled * MaxFrame + (IF q.full THEN MaxFrame ELSE 0) <= q.end
      BY <1>3, <1>5 DEF GoodPlace
    <3>4. ~q.full => q.filled * MaxFrame <= q.at
      <4>1. ~p.full => p.filled * MaxFrame <= p.at
        BY <1>3 DEF GoodPlace
      <4>2. p.filled * MaxFrame <= p.at => p.filled * MaxFrame <= p.at + 1
        BY <1>1, <2>1
      <4> QED
        BY <1>5, <4>1, <4>2
    <3> QED
      BY <1>5, <3>1, <3>2, <3>3, <3>4 DEF GoodPlace
<1>11. /\ t.serial = Tail(x.serial) /\ t.serial \in Seq(0 .. MaxFrame + 1)
       /\ Len(t.serial) = Len(x.serial) - 1
       /\ \A i \in 1 .. Len(t.serial) : t.serial[i] = x.serial[i + 1]
  <2> DEFINE s == x.serial
  <2>1. s \in Seq(0 .. MaxFrame + 1) /\ Len(s) >= 1
    BY <1>2
  <2> HIDE DEF s
  <2>2. s # <<>>
    BY <2>1
  <2>3. /\ Tail(s) \in Seq(0 .. MaxFrame + 1) /\ Len(Tail(s)) = Len(s) - 1
        /\ \A i \in 1 .. Len(Tail(s)) : Tail(s)[i] = s[i + 1]
    BY <2>1, <2>2
  <2>4. t.serial = Tail(s)
    BY DEF Popped, s
  <2> QED
    BY <2>3, <2>4 DEF s
<1> HIDE DEF q, y
<1>12. InFrame(l, t, q)
  <2>1. t.size = Extra(l, m) + Sent(q) + Len(t.serial)
    <3>1. /\ t.size = Extra(l, m) + Sent(p) + Len(x.serial) /\ Len(t.serial) = Len(x.serial) - 1
          /\ Len(x.serial) \in Nat
      BY <1>2, <1>3, <1>11
    <3> DEFINE e == Extra(l, m)
               sp == Sent(p)
               sq == Sent(q)
               lx == Len(x.serial)
               lt == Len(t.serial)
    <3>2. /\ sq = sp + 1 /\ sp \in Nat /\ e \in Nat /\ lx \in Nat /\ lt = lx - 1
          /\ t.size = e + sp + lx
      BY <1>6, <3>1
    <3> HIDE DEF e, sp, sq, lx, lt
    <3>3. t.size = e + sq + lt
      BY <3>2
    <3> QED
      BY <3>3 DEF e, sq, lt
  <2>2. a <= q.at
    BY <1>1, <1>3, <1>5
  <2> QED
    BY <1>3, <1>5, <2>1, <2>2 DEF InFrame
<1>13. Len(t.serial) = q.end - q.at
  <2>1. /\ p.at \in Nat /\ p.end \in Nat /\ Len(t.serial) = (p.end - p.at) - 1
        /\ q.end = p.end /\ q.at = p.at + 1
    BY <1>1, <1>2, <1>5, <1>11
  <2> QED
    BY <2>1
<1>14. CASE t.serial # <<>>
  <2>1. Len(t.serial) >= 1
    BY <1>11, <1>14
  <2>2. ASSUME NEW i \in 1 .. Len(t.serial)
        PROVE  t.serial[i] = c[q.at + i]
    <3>1. i + 1 \in 1 .. Len(x.serial) /\ p.at + (i + 1) = q.at + i
      <4>1. Len(x.serial) \in Nat /\ Len(t.serial) = Len(x.serial) - 1 /\ p.at \in Nat /\ q.at = p.at + 1
        BY <1>1, <1>2, <1>5, <1>11
      <4> QED
        BY <4>1
    <3>2. t.serial[i] = x.serial[i + 1]
      BY <1>11
    <3>3. x.serial[i + 1] = c[p.at + (i + 1)]
      BY <1>2, <3>1
    <3> QED
      BY <3>1, <3>2, <3>3
  <2>3. t.callback = "data"
    BY DEF Popped, SendingData
  <2>4. SendingData(l, t, q)
    BY <1>12, <1>13, <2>1, <2>2, <2>3 DEF SendingData
  <2>5. Sender(l, t, q)
    BY <2>4 DEF Sender, Busy
  <2> QED
    BY <1>5, <1>9, <1>10, <1>14, <2>5 DEF Moves, y
<1>15. CASE t.serial = <<>>
  <2>1. q.at = q.end
    BY <1>1, <1>5, <1>13, <1>15
  <2>2. Sender(l, SendFrameDone(t), q)
    BY <1>10, <1>12, <1>15, <2>1, SendFrameDoneSends
  <2> QED
    BY <1>5, <1>9, <1>10, <1>15, <2>2 DEF Moves, y
<1> QED
  BY <1>14, <1>15

\* A number of multiples that fit is at most the quotient.
LEMMA QuotientBounds ==
    ASSUME NEW n \in Nat, NEW d \in Nat \ {0}, NEW f \in Nat, f * d <= n
    PROVE  n \div d \in Nat /\ f <= n \div d
<1> DEFINE q == n \div d
           r == n % d
<1>1. q \in Nat /\ r \in Nat /\ r < d /\ n = d * q + r
  OBVIOUS
<1> HIDE DEF q, r
<1>2. SUFFICES ASSUME q < f
               PROVE  FALSE
  BY <1>1 DEF q
<1>3. f - q - 1 \in Nat /\ f = q + 1 + (f - q - 1)
  BY <1>1, <1>2
<1>4. f * d = d * q + d + (f - q - 1) * d
  BY <1>1, <1>3
<1>5. (f - q - 1) * d \in Nat /\ d * q \in Nat
  BY <1>1, <1>3
<1> QED
  BY <1>1, <1>4, <1>5

\* The log when the packet is complete.
Completed(l, t, size) == IF ~t.resetting THEN [l EXCEPT ![Len(l)].size = size] ELSE l

\* The delimiter that ends the packet.
LEMMA LastDelimiterMoves ==
    ASSUME NEW l, Log(l), NEW p, GoodPlace(l, p), NEW x, NEW t, SenderType(x),
           SendingLast(l, x, p), Popped(t, x), Busy(l, t)
    PROVE  /\ Grown(l, Completed(l, t, x.size)) /\ Log(Completed(l, t, x.size))
           /\ Len(Completed(l, t, x.size)) = Len(l)
           /\ Moves(Completed(l, t, x.size), p, [byte |-> x.serial[1], message |-> Len(l)], LastDelimiterSent(t))
<1> DEFINE m == Len(l)
           n == Len(l[m].contents)
           k == Completed(l, t, x.size)
           q == Between(m)
           y == [byte |-> x.serial[1], message |-> m]
<1>1. /\ l \in Seq(Messages) /\ m \in 1 .. Len(l) /\ l[m] \in Messages /\ n \in Nat
      /\ MaxFrame \in Nat \ {0} /\ x.size \in Nat /\ Extra(l, m) \in {0, 1}
  <2>1. l \in Seq(Messages) /\ m \in 1 .. Len(l)
    BY DEF Log, Busy
  <2> QED
    BY <2>1, MessageFields, CobsAssumption DEF SenderType
<1>2. /\ p.in /\ p.message = m /\ p.at = p.end /\ p.end = n /\ x.size = Extra(l, m) + Sent(p) + 1
      /\ y.byte = messageDelimiter /\ y.message = m
  BY DEF SendingLast
<1>3. p.filled \in Nat /\ Sent(p) = 1 + n + p.filled /\ Sent(p) \in Nat
  <2>1. p.filled \in Nat
    BY DEF GoodPlace, Places
  <2>2. Sent(p) = 1 + n + p.filled
    BY <1>2 DEF Sent
  <2> QED
    BY <1>1, <2>1, <2>2
<1>4. x.size <= MessageSize(n) + Extra(l, m)
  <2>1. p.filled * MaxFrame <= n
    <3>1. p.filled * MaxFrame \in Nat
      BY <1>1, <1>3
    <3>2. p.filled * MaxFrame + (IF p.full THEN MaxFrame ELSE 0) <= n
      BY <1>2 DEF GoodPlace
    <3> QED
      BY <1>1, <3>1, <3>2
  <2>2. n \div MaxFrame \in Nat /\ p.filled <= n \div MaxFrame
    BY <1>1, <1>3, <2>1, QuotientBounds
  <2>3. MessageSize(n) = n + n \div MaxFrame + 2
    BY DEF MessageSize
  <2>4. x.size = Extra(l, m) + (1 + n + p.filled) + 1
    BY <1>2, <1>3
  <2> HIDE DEF n, m
  <2> QED
    BY SMTT(30), <1>1, <1>3, <2>2, <2>3, <2>4
<1> HIDE DEF y
<1>5. Grown(l, k) /\ Log(k) /\ Len(k) = Len(l) /\ (~t.resetting => k[m].size = x.size)
  <2>1. CASE ~t.resetting
    <3> DEFINE z == [l[m] EXCEPT !.size = x.size]
    <3>1. z \in Messages /\ z.contents = l[m].contents /\ z.first = l[m].first /\ z.cut = l[m].cut
          /\ z.size = x.size
      BY <1>1 DEF Messages
    <3>2. k = [l EXCEPT ![m] = z]
      BY <2>1 DEF Completed
    <3> HIDE DEF z
    <3>3. k \in Seq(Messages) /\ Len(k) = Len(l) /\ k[m] = z
          /\ \A j \in 1 .. Len(l) : j # m => k[j] = l[j]
      BY <1>1, <3>1, <3>2
    <3> HIDE DEF k
    <3>4. l[m].size = 0
      BY DEF Busy
    <3>5. ASSUME NEW j \in 1 .. Len(l)
          PROVE  /\ k[j].contents = l[j].contents /\ k[j].first = l[j].first /\ (l[j].cut => k[j].cut)
                 /\ (l[j].size = 0 \/ k[j].size = l[j].size)
                 /\ k[j].size <= MessageSize(Len(k[j].contents)) + Extra(k, j)
      <4>1. CASE j = m
        <5>1. Extra(k, m) = Extra(l, m)
          BY <3>1, <3>3 DEF Extra
        <5> QED
          BY <1>4, <3>1, <3>3, <3>4, <4>1, <5>1
      <4>2. CASE j # m
        <5>1. k[j] = l[j] /\ Extra(k, j) = Extra(l, j)
          BY <3>3, <4>2 DEF Extra
        <5> QED
          BY <5>1 DEF Log
      <4> QED
        BY <4>1, <4>2
    <3>6. Grown(l, k)
      BY <1>1, <3>3, <3>5 DEF Grown
    <3>7. Log(k)
      BY <3>3, <3>5 DEF Log
    <3>8. k[m].size = x.size
      BY <3>1, <3>3
    <3> QED
      BY <3>3, <3>6, <3>7, <3>8 DEF k
  <2>2. CASE t.resetting
    <3>1. k = l
      BY <2>2 DEF Completed
    <3>2. l \in Seq(Messages) /\ Grown(l, l)
      BY <1>1 DEF Grown
    <3> QED
      BY <2>2, <3>1, <3>2
  <2> QED
    BY <2>1, <2>2
<1> HIDE DEF k
<1>6. q \in Places /\ GoodPlace(k, q) /\ ~q.in
  BY <1>1, <1>5 DEF GoodPlace, Places, Between
<1>7. Step(k, p, y, q)
  <2>1. ASSUME ~CutAt(k, p)
        PROVE  /\ p.at = Len(k[p.message].contents)
               /\ k[p.message].size = Sent(p) + 1 + Extra(k, p.message)
    <3>1. k[m].contents = l[m].contents /\ k[m].first = l[m].first /\ (l[m].cut => k[m].cut)
      BY <1>1, <1>5 DEF Grown
    <3>2. ~l[m].cut
      BY <1>2, <2>1, <3>1 DEF CutAt
    <3>3. k[m].size = x.size
      BY <1>5, <3>2 DEF Busy
    <3>4. Extra(k, m) = Extra(l, m)
      BY <3>1 DEF Extra
    <3>5. x.size = Sent(p) + 1 + Extra(l, m)
      BY <1>1, <1>2, <1>3
    <3> QED
      BY <1>2, <3>1, <3>3, <3>4, <3>5
  <2>2. DelimiterStep(k, p, y, q)
    BY <1>2, <2>1 DEF DelimiterStep
  <2> QED
    BY <1>1, <1>2, <1>5, <2>2 DEF Step
<1>8. t.serial = <<>>
  BY TailOfOne DEF Popped, SendingLast, SenderType
<1> HIDE DEF q
<1>9. Sender(k, LastDelimiterSent(t), q)
  <2>1. CASE t.resetting
    <3>1. SenderType(t)
      BY DEF Busy
    <3>2. Sender(k, FinishReset(t), q)
      BY <1>6, <1>8, <3>1, FinishResetIdle
    <3> QED
      BY <2>1, <3>2 DEF LastDelimiterSent
  <2>2. CASE ~t.resetting
    <3> DEFINE u == [t EXCEPT !.storage = <<>>, !.dataToSend = <<>>, !.size = 0,
                              !.sending = FALSE, !.callback = "none", !.outstanding = FALSE]
    <3>1. SenderType(u) /\ ~u.sending /\ ~u.resetting /\ u.size = 0 /\ u.serial = <<>>
      BY ZenonT(30), <1>8, <2>2 DEF Busy, SenderType
    <3>2. LastDelimiterSent(t) = CheckReadyToSendUserData(u)
      BY <2>2 DEF LastDelimiterSent
    <3> HIDE DEF u
    <3> QED
      BY <1>6, <3>1, <3>2, CheckReadyIdle
  <2> QED
    BY <2>1, <2>2
<1>10. Moves(k, p, y, LastDelimiterSent(t))
  BY <1>6, <1>7, <1>9 DEF Moves
<1> QED
  BY <1>5, <1>10 DEF k, y

\* The sender at place p, with a byte to send, moves with it.
LEMMA ByteSentMoves ==
    ASSUME Log(log), NEW p, GoodPlace(log, p), Sender(log, tx, p), ByteSent
    PROVE  /\ Grown(log, log') /\ Log(log')
           /\ [byte |-> tx.serial[1], message |-> Len(log)] \in [byte : 0 .. MaxFrame + 1, message : Nat]
           /\ line' = Append(line, [byte |-> tx.serial[1], message |-> Len(log)])
           /\ Moves(log', p, [byte |-> tx.serial[1], message |-> Len(log)], tx')
<1> DEFINE t == [tx EXCEPT !.serial = Tail(tx.serial)]
           y == [byte |-> tx.serial[1], message |-> Len(log)]
<1>1. tx.serial # <<>> /\ SenderType(tx) /\ tx.serial \in Seq(0 .. MaxFrame + 1) /\ log \in Seq(Messages)
  BY DEF ByteSent, Sender, SenderType, Log
<1>2. /\ tx.sending /\ Busy(log, tx) /\ Popped(t, tx) /\ Busy(log, t)
  BY <1>1, PopBusy
<1>3. line' = Append(line, y)
  BY <1>1 DEF ByteSent
<1>4. y \in [byte : 0 .. MaxFrame + 1, message : Nat]
  <2>1. 1 \in 1 .. Len(tx.serial) /\ Len(log) \in Nat
    BY <1>1
  <2>2. tx.serial[1] \in 0 .. MaxFrame + 1
    BY <1>1, <2>1, ElementOfSeq
  <2> QED
    BY <2>1, <2>2
<1>5. /\ tx' = IF t.serial # <<>> THEN t
               ELSE CASE t.callback = "first"    -> SendOrDone(t)
                      [] t.callback = "overhead" -> OverheadSent(t)
                      [] t.callback = "data"     -> SendFrameDone(t)
                      [] t.callback = "last"     -> LastDelimiterSent(t)
      /\ log' = IF t.callback = "last" /\ ~t.resetting THEN [log EXCEPT ![Len(log)].size = tx.size] ELSE log
  BY DEF ByteSent
<1> HIDE DEF t
<1>6. t.callback = tx.callback /\ t.serial = Tail(tx.serial)
  BY <1>2 DEF Popped
<1>7. Grown(log, log)
  BY <1>1 DEF Grown
<1>8. CASE SendingFirst(log, tx, p)
  <2>1. t.callback = "first" /\ t.serial = <<>>
    BY <1>1, <1>6, <1>8, TailOfOne DEF SendingFirst
  <2>2. tx' = SendOrDone(t) /\ log' = log
    BY <1>5, <2>1
  <2>3. Moves(log, p, y, SendOrDone(t))
    BY <1>1, <1>2, <1>8, FirstDelimiterMoves
  <2> QED
    BY <1>3, <1>4, <1>7, <2>2, <2>3
<1>9. CASE SendingOverhead(log, tx, p)
  <2>1. t.callback = "overhead" /\ t.serial = <<>>
    BY <1>1, <1>6, <1>9, TailOfOne DEF SendingOverhead
  <2>2. tx' = OverheadSent(t) /\ log' = log
    BY <1>5, <2>1
  <2>3. Moves(log, p, y, OverheadSent(t))
    BY <1>1, <1>2, <1>9, OverheadMoves
  <2> QED
    BY <1>3, <1>4, <1>7, <2>2, <2>3
<1>10. CASE SendingData(log, tx, p)
  <2>1. t.callback = "data"
    BY <1>6, <1>10 DEF SendingData
  <2>2. tx' = (IF t.serial # <<>> THEN t ELSE SendFrameDone(t)) /\ log' = log
    <3>1. t.callback # "first" /\ t.callback # "overhead" /\ t.callback # "last"
      BY <2>1
    <3>2. CASE t.serial # <<>>
      BY <1>5, <2>1, <3>2
    <3>3. CASE t.serial = <<>>
      BY <1>5, <2>1, <3>1, <3>3
    <3> QED
      BY <3>2, <3>3
  <2>3. Moves(log, p, y, IF t.serial # <<>> THEN t ELSE SendFrameDone(t))
    BY <1>1, <1>2, <1>10, DataMoves
  <2> QED
    BY <1>3, <1>4, <1>7, <2>2, <2>3
<1>11. CASE SendingLast(log, tx, p)
  <2>1. t.callback = "last" /\ t.serial = <<>>
    BY <1>1, <1>6, <1>11, TailOfOne DEF SendingLast
  <2>2. tx' = LastDelimiterSent(t) /\ log' = Completed(log, t, tx.size)
    BY <1>5, <2>1 DEF Completed
  <2>3. /\ Grown(log, log') /\ Log(log')
        /\ Moves(log', p, y, LastDelimiterSent(t))
    BY <1>1, <1>2, <1>11, <2>2, LastDelimiterMoves
  <2> QED
    BY <1>3, <1>4, <2>2, <2>3
<1> QED
  BY <1>2, <1>8, <1>9, <1>10, <1>11 DEF Sender

-----------------------------------------------------------------------------
(* The receiver takes a byte.                                               *)

Bytes == [byte : 0 .. MaxFrame + 1, message : Nat]

\* What is written down of the byte y before it is looked at.
Noted(r, y) ==
    [r EXCEPT !.from = IF y.byte = messageDelimiter THEN @ ELSE @ \cup {y.message},
              !.counted = @ \cup {y.message}]

Taken(r, y) ==
    IF Noted(r, y).nextOverhead = 1 THEN ExtractOverhead(Noted(r, y), y.byte) ELSE ExtractData(Noted(r, y), y.byte)

Forwarded(r, y) ==
    [contents |-> SubSeq(Taken(r, y).message, 1, Taken(r, y).reader), from |-> Noted(r, y).from,
     encoded |-> Noted(r, y).encoded + 1, counted |-> Noted(r, y).counted]

LEMMA NotedFields ==
    ASSUME NEW r, ReceiverType(r), NEW y \in Bytes
    PROVE  /\ ReceiverType(Noted(r, y))
           /\ Noted(r, y).nextOverhead = r.nextOverhead /\ Noted(r, y).pseudo = r.pseudo
           /\ Noted(r, y).message = r.message /\ Noted(r, y).size = r.size
           /\ Noted(r, y).encoded = r.encoded /\ Noted(r, y).reader = r.reader
           /\ Noted(r, y).from = (IF y.byte = messageDelimiter THEN r.from ELSE r.from \cup {y.message})
           /\ Noted(r, y).counted = r.counted \cup {y.message}
BY DEF Noted, ReceiverType, Bytes

\* A byte that is no delimiter is counted, and adds to the message what is there of
\* it: nothing, when it is the overhead after a full frame.
LEMMA TakenFields ==
    ASSUME NEW r, ReceiverType(r), r.reader = 0, NEW y \in Bytes, y.byte # messageDelimiter
    PROVE  /\ ReceiverType(Taken(r, y)) /\ Taken(r, y).reader = 0
           /\ Taken(r, y).encoded = r.encoded + 1
           /\ Taken(r, y).from = r.from \cup {y.message}
           /\ Taken(r, y).counted = r.counted \cup {y.message}
           /\ r.nextOverhead = 1 =>
                  /\ Taken(r, y).nextOverhead = y.byte
                  /\ Taken(r, y).pseudo <=> (y.byte = MaxFrame + 1)
                  /\ r.pseudo => Taken(r, y).message = r.message /\ Taken(r, y).size = r.size
                  /\ ~r.pseudo => /\ Taken(r, y).message = Append(r.message, messageDelimiter)
                                  /\ Taken(r, y).size = r.size + 1
           /\ r.nextOverhead # 1 =>
                  /\ Taken(r, y).nextOverhead = r.nextOverhead - 1
                  /\ Taken(r, y).pseudo = r.pseudo
                  /\ Taken(r, y).message = Append(r.message, y.byte)
                  /\ Taken(r, y).size = r.size + 1
<1> DEFINE n == Noted(r, y)
           b == y.byte
<1>1. /\ ReceiverType(n) /\ n.reader = 0 /\ n.nextOverhead = r.nextOverhead /\ n.pseudo = r.pseudo
      /\ n.message = r.message /\ n.size = r.size /\ n.encoded = r.encoded
      /\ n.from = r.from \cup {y.message} /\ n.counted = r.counted \cup {y.message}
  BY ZenonT(30), NotedFields
<1>2. b \in Nat \ {0} /\ b # messageDelimiter /\ messageDelimiter \in Nat
  BY CobsAssumption DEF Bytes, messageDelimiter
<1>3. Taken(r, y) = IF n.nextOverhead = 1 THEN ExtractOverhead(n, b) ELSE ExtractData(n, b)
  BY DEF Taken
<1> HIDE DEF n, b
<1>4. n.encoded + 1 \in Nat /\ n.size + 1 \in Nat
      /\ (n.nextOverhead # 1 => n.nextOverhead - 1 \in Nat \ {0})
  BY <1>1 DEF ReceiverType
<1>5. CASE n.nextOverhead = 1
  <2> DEFINE u == [n EXCEPT !.encoded = n.encoded + 1, !.nextOverhead = b, !.pseudo = (b = MaxFrame + 1)]
  <2>1. /\ ReceiverType(u) /\ u.reader = 0 /\ u.nextOverhead = b /\ (u.pseudo <=> (b = MaxFrame + 1))
        /\ u.message = n.message /\ u.size = n.size /\ u.encoded = n.encoded + 1
        /\ u.from = n.from /\ u.counted = n.counted
    BY <1>1, <1>2, <1>4 DEF ReceiverType
  <2>2. Taken(r, y) = IF n.pseudo THEN u ELSE ReceivedPayload(u, messageDelimiter)
    BY <1>2, <1>3, <1>5 DEF ExtractOverhead
  <2> HIDE DEF u
  <2>3. CASE n.pseudo
    BY <1>1, <1>5, <2>1, <2>2, <2>3 DEF b
  <2>4. CASE ~n.pseudo
    <3> DEFINE w == [u EXCEPT !.message = Append(u.message, messageDelimiter), !.size = u.size + 1]
    <3>1. /\ Append(u.message, messageDelimiter) \in Seq(Nat)
          /\ Len(Append(u.message, messageDelimiter)) = u.size + 1
      <4>1. u.message \in Seq(Nat) /\ Len(u.message) = u.size
        BY <2>1 DEF ReceiverType
      <4> QED
        BY <1>2, <4>1
    <3>2. /\ ReceiverType(w) /\ w.reader = 0 /\ w.nextOverhead = u.nextOverhead /\ w.pseudo = u.pseudo
          /\ w.message = Append(u.message, messageDelimiter) /\ w.size = u.size + 1
          /\ w.encoded = u.encoded /\ w.from = u.from /\ w.counted = u.counted
      BY <1>4, <2>1, <3>1 DEF ReceiverType
    <3>3. Taken(r, y) = w
      BY <2>2, <2>4 DEF ReceivedPayload
    <3> HIDE DEF w
    <3> QED
      BY <1>1, <1>5, <2>1, <2>4, <3>2, <3>3 DEF b
  <2> QED
    BY <2>3, <2>4
<1>6. CASE n.nextOverhead # 1
  <2> DEFINE u == [n EXCEPT !.encoded = n.encoded + 1, !.nextOverhead = n.nextOverhead - 1]
             w == [u EXCEPT !.message = Append(u.message, b), !.size = u.size + 1]
  <2>1. /\ ReceiverType(u) /\ u.reader = 0 /\ u.nextOverhead = n.nextOverhead - 1 /\ u.pseudo = n.pseudo
        /\ u.message = n.message /\ u.size = n.size /\ u.encoded = n.encoded + 1
        /\ u.from = n.from /\ u.counted = n.counted
    BY <1>1, <1>4, <1>6 DEF ReceiverType
  <2>2. Taken(r, y) = w
    BY <1>2, <1>3, <1>6 DEF ExtractData, ReceivedPayload
  <2> HIDE DEF u
  <2>3. /\ Append(u.message, b) \in Seq(Nat)
        /\ Len(Append(u.message, b)) = u.size + 1
    BY <1>2, <2>1 DEF ReceiverType
  <2>4. /\ ReceiverType(w) /\ w.reader = 0 /\ w.nextOverhead = u.nextOverhead /\ w.pseudo = u.pseudo
        /\ w.message = Append(u.message, b) /\ w.size = u.size + 1
        /\ w.encoded = u.encoded /\ w.from = u.from /\ w.counted = u.counted
    BY <1>4, <2>1, <2>3 DEF ReceiverType
  <2> HIDE DEF w
  <2> QED
    BY <1>1, <1>6, <2>1, <2>2, <2>4 DEF b
<1> QED
  BY <1>5, <1>6

\* Every byte but a delimiter leads into the packet of its message, one byte further.
LEMMA StepInto ==
    ASSUME NEW l, NEW p, NEW q, NEW y, GoodPlace(l, p), GoodPlace(l, q), Step(l, p, y, q),
           OverheadStep(l, p, y, q) \/ DataStep(l, p, y, q)
    PROVE  /\ q.in /\ q.message = y.message /\ (p.in => p.message = y.message)
           /\ Sent(q) = Sent(p) + 1 /\ Sent(p) \in Nat /\ (~p.in => Sent(p) = 0)
<1>1. p.at \in Nat /\ p.filled \in Nat /\ q.at \in Nat /\ q.filled \in Nat
  BY DEF GoodPlace, Places
<1>2. /\ p.in => Sent(p) = 1 + p.at + p.filled
      /\ ~p.in => Sent(p) = 0
      /\ Sent(p) \in Nat
  BY <1>1 DEF Sent
<1>3. CASE OverheadStep(l, p, y, q)
  <2>1. q.in /\ q.message = y.message /\ (p.in => p.message = y.message)
        /\ q.at = (IF p.full THEN p.at ELSE p.at + 1)
        /\ q.filled = (IF p.in /\ p.full THEN p.filled + 1 ELSE p.filled)
    BY <1>3 DEF OverheadStep
  <2>2. Sent(q) = 1 + q.at + q.filled
    BY <2>1 DEF Sent
  <2>3. CASE p.in /\ p.full
    BY <1>1, <1>2, <2>1, <2>2, <2>3
  <2>4. CASE p.in /\ ~p.full
    <3>1. q.at = p.at + 1 /\ q.filled = p.filled
      BY <2>1, <2>4
    <3> QED
      BY <1>1, <1>2, <2>1, <2>2, <2>4, <3>1
  <2>5. CASE ~p.in
    <3>1. p.at = 0 /\ p.full /\ p.filled = 0
      BY <2>5 DEF GoodPlace, Between
    <3>2. q.at = 0 /\ q.filled = 0
      BY <2>1, <2>5, <3>1
    <3> QED
      BY <1>1, <1>2, <2>1, <2>2, <2>5, <3>2
  <2> QED
    BY <2>3, <2>4, <2>5
<1>4. CASE DataStep(l, p, y, q)
  <2>1. p.in /\ p.message = y.message /\ q = [p EXCEPT !.at = p.at + 1] /\ p \in Places
    BY <1>4 DEF DataStep, GoodPlace
  <2>2. q.in /\ q.message = y.message /\ q.at = p.at + 1 /\ q.filled = p.filled
    BY <2>1 DEF Places
  <2>3. Sent(q) = 1 + q.at + q.filled
    BY <2>2 DEF Sent
  <2> QED
    BY <1>1, <1>2, <2>1, <2>2, <2>3
<1> QED
  BY <1>3, <1>4

\* What is counted when the receiver takes a byte but a delimiter.
LEMMA CountsInto ==
    ASSUME NEW l \in Seq(Messages), NEW p, NEW q, NEW y \in Bytes, GoodPlace(l, p), GoodPlace(l, q), Step(l, p, y, q),
           q.in, q.message = y.message, p.in => p.message = y.message,
           Sent(q) = Sent(p) + 1, Sent(p) \in Nat, ~p.in => Sent(p) = 0,
           NEW r, NEW u, ReceiverType(r), Counts(l, r, p),
           u.encoded = r.encoded + 1, u.counted = r.counted \cup {y.message}
    PROVE  Counts(l, u, q)
<1> DEFINE m == y.message
<1>1. m \in 1 .. Len(l) /\ p.message \in Nat /\ p.message <= m /\ r.encoded \in Nat
  BY DEF Step, GoodPlace, Places, ReceiverType
<1>2. u.counted \subseteq 1 .. m
  <2>1. r.counted \subseteq 1 .. p.message
    BY DEF Counts
  <2> QED
    BY <1>1, <2>1
<1>3. ASSUME u.counted = {m}, ~l[m].cut
      PROVE  u.encoded = Sent(q) \/ (l[m].first /\ u.encoded = Sent(q) + 1)
  <2>1. CASE r.counted = {}
    <3>1. r.encoded = 0
      BY <2>1 DEF Counts
    <3>2. ~p.in
      BY <1>3, <2>1 DEF Counts, CutAt
    <3> QED
      BY <3>1, <3>2
  <2>2. CASE r.counted # {}
    <3>1. r.counted = {m}
      BY <1>3, <2>2
    <3>2. CASE p.in
      <4>1. r.encoded = Sent(p) \/ (l[m].first /\ r.encoded = Sent(p) + 1)
        BY <1>3, <3>1, <3>2 DEF Counts
      <4> QED
        BY <1>1, <4>1
    <3>3. CASE ~p.in
      <4>1. r.encoded = 1 /\ l[m].first
        BY <1>3, <3>1, <3>3 DEF Counts
      <4> QED
        BY <3>3, <4>1
    <3> QED
      BY <3>2, <3>3
  <2> QED
    BY <2>1, <2>2
<1>4. m \in u.counted
  OBVIOUS
<1> QED
  BY <1>2, <1>3, <1>4 DEF Counts

\* The receiver takes a byte that is no delimiter.
LEMMA ReceiverGoesOn ==
    ASSUME NEW l, Log(l), NEW p, NEW q, NEW y \in Bytes, GoodPlace(l, p), GoodPlace(l, q), Step(l, p, y, q),
           NEW r, Receiver(l, r, p), r.reader = 0,
           OverheadStep(l, p, y, q) \/ DataStep(l, p, y, q)
    PROVE  Receiver(l, Taken(r, y), q) /\ Taken(r, y).reader = 0
<1> DEFINE u == Taken(r, y)
           m == y.message
           c == l[m].contents
<1>1. /\ q.in /\ q.message = m /\ (p.in => p.message = m)
      /\ Sent(q) = Sent(p) + 1 /\ Sent(p) \in Nat /\ (~p.in => Sent(p) = 0)
  BY StepInto
<1>2. y.byte # messageDelimiter /\ y.byte \in Nat /\ m \in 1 .. Len(l) /\ l \in Seq(Messages)
      /\ MaxFrame \in Nat
  BY CobsAssumption DEF OverheadStep, DataStep, messageDelimiter, Bytes, Step, Log
<1>3. c \in Seq(0 .. MaxFrame + 1) /\ Len(c) \in Nat
  BY <1>2, MessageFields
<1>4. ReceiverType(r) /\ Counts(l, r, p)
  BY DEF Receiver
<1>5. /\ ReceiverType(u) /\ u.reader = 0 /\ u.encoded = r.encoded + 1
      /\ u.from = r.from \cup {m} /\ u.counted = r.counted \cup {m}
  BY <1>2, <1>4, TakenFields
<1>6. u.from \subseteq {q.message}
  BY <1>1, <1>5 DEF Receiver
<1>7. Counts(l, u, q)
  <2> HIDE DEF u
  <2> QED
    BY <1>1, <1>2, <1>4, <1>5, CountsInto
<1>8. InStep(l, u, q) \/ CutAt(l, q)
  <2>1. CASE CutAt(l, p)
    BY <1>1, <2>1 DEF CutAt
  <2>2. CASE InStep(l, r, p)
    <3>1. /\ p.at \in Nat /\ p.end \in Nat /\ r.nextOverhead \in Nat /\ r.size = p.at
          /\ r.nextOverhead = p.end - p.at + 1 /\ (r.pseudo <=> p.full)
          /\ r.message \in Seq(Nat) /\ Len(r.message) = r.size
      BY <1>4, <2>2 DEF InStep, GoodPlace, Places, ReceiverType
    <3>2. ASSUME NEW i \in 1 .. p.at
          PROVE  r.message[i] = c[i]
      <4>1. CASE p.in
        BY <1>1, <2>2, <4>1 DEF InStep
      <4>2. CASE ~p.in
        BY <4>2 DEF GoodPlace, Between
      <4> QED
        BY <4>1, <4>2
    <3>3. CASE OverheadStep(l, p, y, q)
      <4>1. /\ p.at = p.end /\ q.at = (IF p.full THEN p.at ELSE p.at + 1)
            /\ q.end = q.at + y.byte - 1
            /\ (~p.full => c[q.at] = messageDelimiter) /\ (q.full <=> (y.byte = MaxFrame + 1))
        BY <3>3 DEF OverheadStep
      <4>2. r.nextOverhead = 1
        BY <3>1, <4>1
      <4>3. /\ u.nextOverhead = y.byte /\ (u.pseudo <=> (y.byte = MaxFrame + 1))
            /\ (r.pseudo => u.message = r.message /\ u.size = r.size)
            /\ (~r.pseudo => u.message = Append(r.message, messageDelimiter) /\ u.size = r.size + 1)
        BY <1>2, <1>4, <4>2, TakenFields
      <4> HIDE DEF u, c
      <4>4. u.nextOverhead = q.end - q.at + 1
        <5>1. q.at \in Nat /\ y.byte \in Nat /\ q.end = q.at + y.byte - 1
          BY <1>2, <4>1 DEF GoodPlace, Places
        <5> QED
          BY <4>3, <5>1
      <4>5. CASE p.full
        <5>1. u.size = q.at /\ q.at = p.at /\ u.message = r.message
          BY <3>1, <4>1, <4>3, <4>5
        <5> QED
          BY <1>1, <3>2, <4>1, <4>3, <4>4, <5>1 DEF InStep, c
      <4>6. CASE ~p.full
        <5>1. u.size = q.at /\ q.at = p.at + 1 /\ u.message = Append(r.message, messageDelimiter)
              /\ c[q.at] = messageDelimiter
          BY <3>1, <4>1, <4>3, <4>6
        <5>2. ASSUME NEW i \in 1 .. q.at
              PROVE  u.message[i] = c[i]
          <6>1. CASE i = p.at + 1
            BY <3>1, <5>1, <6>1
          <6>2. CASE i # p.at + 1
            <7>1. i \in 1 .. p.at
              BY <3>1, <5>1, <6>2
            <7>2. u.message[i] = r.message[i]
              BY <3>1, <5>1, <7>1
            <7> QED
              BY <3>2, <7>1, <7>2
          <6> QED
            BY <6>1, <6>2
        <5> QED
          BY <1>1, <4>1, <4>3, <4>4, <5>1, <5>2 DEF InStep, c
      <4> QED
        BY <4>5, <4>6
    <3>4. CASE DataStep(l, p, y, q)
      <4>1. /\ p.in /\ p.at < p.end /\ y.byte = c[p.at + 1] /\ q = [p EXCEPT !.at = p.at + 1] /\ p \in Places
        BY <3>4 DEF DataStep, GoodPlace
      <4>2. q.at = p.at + 1 /\ q.end = p.end /\ (q.full <=> p.full)
        BY <4>1 DEF Places
      <4>3. r.nextOverhead # 1
        BY <3>1, <4>1
      <4>4. /\ u.nextOverhead = r.nextOverhead - 1 /\ u.pseudo = r.pseudo
            /\ u.message = Append(r.message, y.byte) /\ u.size = r.size + 1
        BY <1>2, <1>4, <4>3, TakenFields
      <4> HIDE DEF u, c
      <4>5. u.nextOverhead = q.end - q.at + 1 /\ u.size = q.at
        BY <3>1, <4>2, <4>4
      <4>6. ASSUME NEW i \in 1 .. q.at
            PROVE  u.message[i] = c[i]
        <5>1. CASE i = p.at + 1
          BY <1>2, <3>1, <4>1, <4>4, <5>1
        <5>2. CASE i # p.at + 1
          <6>1. i \in 1 .. p.at
            BY <3>1, <4>2, <5>2
          <6>2. u.message[i] = r.message[i]
            BY <1>2, <3>1, <4>4, <6>1
          <6> QED
            BY <3>2, <6>1, <6>2
        <5> QED
          BY <5>1, <5>2
      <4> QED
        BY <1>1, <3>1, <4>2, <4>4, <4>5, <4>6 DEF InStep, c
    <3> QED
      BY <3>3, <3>4
  <2> QED
    BY <2>1, <2>2 DEF Receiver
<1> HIDE DEF u
<1>9. Receiver(l, u, q)
  BY <1>1, <1>5, <1>6, <1>7, <1>8 DEF Receiver
<1> QED
  BY <1>5, <1>9 DEF u

LEMMA SeqOfMore ==
    ASSUME NEW S, NEW T, S \subseteq T, NEW s \in Seq(S)
    PROVE  s \in Seq(T)
OBVIOUS

\* The receiver takes a delimiter.
LEMMA ReceiverEnds ==
    ASSUME NEW l, Log(l), NEW p, NEW q, NEW y \in Bytes, GoodPlace(l, p), GoodPlace(l, q), Step(l, p, y, q),
           NEW r, Receiver(l, r, p), r.reader = 0, DelimiterStep(l, p, y, q)
    PROVE  /\ Receiver(l, Taken(r, y), q)
           /\ Taken(r, y).reader # 0 => Received(l, Forwarded(r, y))
<1> DEFINE n == Noted(r, y)
           m == y.message
           v == [n EXCEPT !.encoded = n.encoded + 1, !.nextOverhead = 1, !.pseudo = TRUE, !.from = {}]
<1>1. /\ ReceiverType(n) /\ n.reader = 0 /\ n.message = r.message /\ n.size = r.size /\ n.encoded = r.encoded
      /\ n.from = r.from /\ n.counted = r.counted \cup {m} /\ ReceiverType(r) /\ y.byte = messageDelimiter
  BY ZenonT(30), NotedFields DEF Receiver, DelimiterStep
<1>2. m \in 1 .. Len(l) /\ l \in Seq(Messages) /\ p.message \in Nat /\ p.message <= m /\ p.at \in Nat
  BY DEF Step, Log, GoodPlace, Places
<1>3. Taken(r, y) = IF n.size = 0 THEN v ELSE [v EXCEPT !.size = 0, !.reader = n.size, !.encoded = 0, !.counted = {}]
  BY <1>1 DEF Taken, ExtractOverhead, ExtractData, MessageBoundary
<1> HIDE DEF n
<1>4. /\ r.encoded \in Nat /\ r.size \in Nat /\ r.message \in Seq(Nat) /\ Len(r.message) = r.size
      /\ r.counted \subseteq 1 .. p.message /\ r.encoded + 1 \in Nat /\ 1 \in Nat \ {0}
      /\ r.from \subseteq {p.message} /\ (~p.in => r.from = {})
  BY <1>1 DEF Receiver, ReceiverType, Counts
<1>5. /\ ReceiverType(v) /\ v.reader = 0 /\ v.nextOverhead = 1 /\ v.pseudo = TRUE /\ v.message = r.message
      /\ v.size = r.size /\ v.encoded = r.encoded + 1 /\ v.from = {} /\ v.counted = r.counted \cup {m}
  BY <1>1, <1>4 DEF ReceiverType
<1> HIDE DEF v
<1>6. q = Between(m) /\ ~q.in /\ q.message = m /\ q.at = 0 /\ q.end = 0 /\ q.full = TRUE
  BY DEF DelimiterStep, Between
\* The packet of a message that was not cut is complete.
<1>7. ASSUME p.in, ~CutAt(l, p)
      PROVE  /\ m = p.message /\ p.at = Len(l[m].contents) /\ p.at # 0
             /\ l[m].size = Sent(p) + 1 + Extra(l, m)
             /\ InStep(l, r, p)
  <2>1. /\ m = p.message /\ p.at = Len(l[m].contents)
        /\ l[m].size = Sent(p) + 1 + Extra(l, m)
    BY <1>7 DEF DelimiterStep
  <2>2. l[m].contents # <<>> /\ l[m].contents \in Seq(0 .. MaxFrame + 1)
    BY <1>2, MessageFields DEF Log
  <2>3. p.at # 0
    BY <2>1, <2>2
  <2> QED
    BY <1>7, <2>1, <2>3 DEF Receiver
<1>8. CASE r.size = 0
  <2>1. Taken(r, y) = v
    BY <1>1, <1>3, <1>8
  <2>2. InStep(l, v, q)
    BY <1>5, <1>6, <1>8 DEF InStep
  <2>3. ASSUME v.counted = {m}, ~l[m].cut
        PROVE  v.encoded = 1 /\ l[m].first
    <3>1. ~p.in \/ m # p.message
      <4>1. SUFFICES ASSUME p.in, m = p.message
                     PROVE  FALSE
        OBVIOUS
      <4>2. ~CutAt(l, p)
        BY <2>3, <4>1 DEF CutAt
      <4> QED
        BY <1>7, <1>8, <4>1, <4>2 DEF InStep
    <3>2. p.message < m /\ l[m].first
      BY <3>1 DEF DelimiterStep
    <3>3. m \notin r.counted
      BY <1>2, <1>4, <3>2
    <3>4. r.counted = {}
      BY <1>5, <2>3, <3>3
    <3>5. r.encoded = 0
      BY <3>4 DEF Receiver, Counts
    <3> QED
      BY <1>5, <3>2, <3>5
  <2>4. v.counted \subseteq 1 .. m /\ m \in v.counted
    BY <1>2, <1>4, <1>5
  <2>5. Counts(l, v, q)
    BY <1>6, <2>3, <2>4 DEF Counts, CutAt
  <2> QED
    BY <1>5, <1>6, <2>1, <2>2, <2>5 DEF Receiver
<1>9. CASE r.size # 0
  <2> DEFINE w == [v EXCEPT !.size = 0, !.reader = r.size, !.encoded = 0, !.counted = {}]
  <2>1. Taken(r, y) = w
    BY <1>1, <1>3, <1>9
  <2>2. /\ ReceiverType(w) /\ w.reader = r.size /\ w.size = 0 /\ w.nextOverhead = 1 /\ w.pseudo = TRUE
        /\ w.encoded = 0 /\ w.counted = {} /\ w.from = {} /\ w.message = r.message
    BY <1>4, <1>5, <1>9 DEF ReceiverType
  <2> HIDE DEF w
  <2>3. InStep(l, w, q)
    BY <1>6, <2>2 DEF InStep
  <2>4. Counts(l, w, q)
    BY <1>6, <2>2 DEF Counts
  <2>5. Receiver(l, w, q)
    BY <1>6, <2>2, <2>3, <2>4 DEF Receiver
  <2> DEFINE f == Forwarded(r, y)
  <2>6. /\ f.contents = SubSeq(r.message, 1, r.size) /\ f.from = r.from /\ f.encoded = r.encoded + 1
        /\ f.counted = r.counted \cup {m}
        /\ f = [contents |-> SubSeq(r.message, 1, r.size), from |-> r.from, encoded |-> r.encoded + 1,
                 counted |-> r.counted \cup {m}]
    BY <1>1, <2>1, <2>2 DEF Forwarded, n
  <2>7. /\ f.contents \in Seq(Nat) /\ Len(f.contents) = r.size
        /\ \A i \in 1 .. r.size : f.contents[i] = r.message[i]
    BY SMTT(30), <1>4, <2>6, HeadBytes
  <2>8. f \in [contents : Seq(Nat), from : SUBSET Nat, encoded : Nat, counted : SUBSET Nat]
    <3>1. r.from \subseteq Nat /\ r.counted \cup {m} \subseteq Nat
      BY <1>2, <1>4
    <3> QED
      BY <1>4, <2>6, <2>7, <3>1
  <2>9. f.from \subseteq 1 .. Len(l) /\ f.encoded >= 1
    <3>1. p.in => p.message \in 1 .. Len(l)
      BY <1>2 DEF GoodPlace
    <3> QED
      BY <1>4, <2>6, <3>1
  <2> HIDE DEF f
  <2>10. ASSUME NEW j \in f.from, ~l[j].cut
         PROVE  /\ f.contents = l[j].contents
                /\ f.counted = {j} => \/ f.encoded = l[j].size
                                      \/ l[j].first /\ f.encoded + 1 = l[j].size
    <3>1. p.in /\ j = p.message /\ ~CutAt(l, p)
      BY <1>4, <2>6, <2>10 DEF CutAt
    <3>2. /\ m = j /\ p.at = Len(l[m].contents)
          /\ l[m].size = Sent(p) + 1 + Extra(l, m) /\ InStep(l, r, p)
      BY <1>7, <3>1
    <3>3. r.size = p.at /\ \A i \in 1 .. p.at : r.message[i] = l[m].contents[i]
      BY <3>1, <3>2 DEF InStep
    <3>4. f.contents = l[m].contents
      <4>1. l[m].contents \in Seq(Nat)
        <5>1. l[m].contents \in Seq(0 .. MaxFrame + 1)
          BY <1>2, MessageFields
        <5>2. 0 .. MaxFrame + 1 \subseteq Nat
          BY CobsAssumption
        <5> DEFINE d == l[m].contents
                   S == 0 .. MaxFrame + 1
        <5>3. d \in Seq(S) /\ S \subseteq Nat
          BY <5>1, <5>2
        <5> HIDE DEF d, S
        <5>4. d \in Seq(Nat)
          BY <5>3, SeqOfMore
        <5> QED
          BY <5>4 DEF d
      <4>2. Len(f.contents) = Len(l[m].contents)
        BY <2>7, <3>2, <3>3
      <4>3. \A i \in 1 .. Len(f.contents) : f.contents[i] = l[m].contents[i]
        BY <2>7, <3>2, <3>3
      <4> QED
        BY <2>7, <4>1, <4>2, <4>3, SeqEqual
    <3>5. ASSUME f.counted = {j}
          PROVE  f.encoded = l[j].size \/ (l[j].first /\ f.encoded + 1 = l[j].size)
      <4>1. m \in r.counted
        BY <3>1, <3>2 DEF Receiver, Counts
      <4>2. r.counted = {m}
        BY <2>6, <3>2, <3>5, <4>1
      <4>3. ~l[m].cut
        BY <2>10, <3>2
      <4>4. r.encoded = Sent(p) \/ (l[m].first /\ r.encoded = Sent(p) + 1)
        BY <3>1, <4>1, <4>2, <4>3 DEF Receiver, Counts
      <4>5. Sent(p) \in Nat
        BY DEF Sent, GoodPlace, Places
      <4>6. CASE l[m].first
        <5>1. Extra(l, m) = 1
          BY <4>6 DEF Extra
        <5> QED
          BY <1>4, <2>6, <3>2, <4>4, <4>5, <4>6, <5>1
      <4>7. CASE ~l[m].first
        <5>1. Extra(l, m) = 0
          BY <4>7 DEF Extra
        <5> QED
          BY <1>4, <2>6, <3>2, <4>4, <4>5, <4>7, <5>1
      <4> QED
        BY <4>6, <4>7
    <3> QED
      BY <3>2, <3>4, <3>5
  <2>11. \A j \in f.from : f.from = {j}
    BY <1>4, <2>6
  <2>12. Received(l, f)
    BY <2>8, <2>9, <2>10, <2>11 DEF Received
  <2> QED
    BY <2>1, <2>5, <2>12 DEF f
<1> QED
  BY <1>8, <1>9

-----------------------------------------------------------------------------
(* The places along the line.                                               *)

\* The byte b is behind the line y, and q behind its places.
Extended(l, y, places, b, q) ==
    /\ Along(l, Append(y, b), Append(places, q))
    /\ Append(places, q)[1] = places[1]
    /\ Append(places, q)[Len(Append(places, q))] = q
    /\ Line(Append(y, b))

LEMMA AlongAppend ==
    ASSUME NEW l, NEW y, Line(y), NEW places, Along(l, y, places), NEW b \in Bytes, NEW q \in Places,
           GoodPlace(l, q), Step(l, places[Len(places)], b, q)
    PROVE  Extended(l, y, places, b, q)
<1> DEFINE z == Append(y, b)
           s == Append(places, q)
<1>1. /\ y \in Seq(Bytes) /\ Len(y) \in Nat /\ places \in Seq(Places) /\ Len(places) = Len(y) + 1
  BY DEF Line, Along, Bytes
<1>2. /\ z \in Seq(Bytes) /\ Len(z) = Len(y) + 1 /\ z[Len(y) + 1] = b
      /\ \A i \in 1 .. Len(y) : z[i] = y[i]
  BY <1>1
<1>3. /\ s \in Seq(Places) /\ Len(s) = Len(places) + 1 /\ s[Len(places) + 1] = q
      /\ \A i \in 1 .. Len(places) : s[i] = places[i]
  BY <1>1
<1> HIDE DEF z, s
<1>4. ASSUME NEW i \in 1 .. Len(s)
      PROVE  GoodPlace(l, s[i])
  <2>1. CASE i = Len(places) + 1
    BY <1>3, <2>1
  <2>2. CASE i # Len(places) + 1
    <3>1. i \in 1 .. Len(places)
      BY <1>1, <1>3, <2>2
    <3>2. s[i] = places[i] /\ GoodPlace(l, places[i])
      BY <1>3, <3>1 DEF Along
    <3> QED
      BY <3>2
  <2> QED
    BY <2>1, <2>2
<1>5. ASSUME NEW i \in 1 .. Len(z)
      PROVE  Step(l, s[i], z[i], s[i + 1])
  <2>1. CASE i = Len(y) + 1
    <3>1. s[i] = places[Len(places)] /\ z[i] = b /\ s[i + 1] = q
      BY <1>1, <1>2, <1>3, <2>1
    <3> QED
      BY <3>1
  <2>2. CASE i # Len(y) + 1
    <3>1. i \in 1 .. Len(y) /\ i \in 1 .. Len(places) /\ i + 1 \in 1 .. Len(places)
      BY <1>1, <1>2, <2>2
    <3>2. s[i] = places[i] /\ s[i + 1] = places[i + 1] /\ z[i] = y[i]
      BY <1>2, <1>3, <3>1
    <3>3. Step(l, places[i], y[i], places[i + 1])
      BY <3>1 DEF Along
    <3> QED
      BY <3>2, <3>3
  <2> QED
    BY <2>1, <2>2
<1>6. Along(l, z, s)
  BY <1>1, <1>2, <1>3, <1>4, <1>5 DEF Along
<1>7. s[1] = places[1] /\ s[Len(s)] = q
  BY <1>1, <1>3
<1>8. Line(z)
  BY <1>2 DEF Line, Bytes
<1> QED
  BY <1>6, <1>7, <1>8 DEF z, s, Extended

LEMMA AlongTail ==
    ASSUME NEW l, NEW y, Line(y), y # <<>>, NEW places, Along(l, y, places)
    PROVE  /\ Along(l, Tail(y), Tail(places))
           /\ Tail(places)[1] = places[2]
           /\ Tail(places)[Len(Tail(places))] = places[Len(places)]
           /\ Line(Tail(y))
           /\ GoodPlace(l, places[1]) /\ GoodPlace(l, places[2]) /\ Step(l, places[1], y[1], places[2])
           /\ y[1] \in Bytes /\ Head(y) = y[1]
<1> DEFINE z == Tail(y)
           s == Tail(places)
<1>1. /\ y \in Seq(Bytes) /\ Len(y) \in Nat /\ Len(y) >= 1
      /\ places \in Seq(Places) /\ Len(places) = Len(y) + 1
  BY DEF Line, Along, Bytes
<1>2. /\ z \in Seq(Bytes) /\ Len(z) = Len(y) - 1 /\ \A i \in 1 .. Len(z) : z[i] = y[i + 1]
  BY <1>1
<1>3. /\ s \in Seq(Places) /\ Len(s) = Len(places) - 1 /\ \A i \in 1 .. Len(s) : s[i] = places[i + 1]
  <2>1. places # <<>>
    BY <1>1
  <2> QED
    BY <1>1, <2>1
<1>4. y[1] \in Bytes /\ Head(y) = y[1]
  BY <1>1
<1> HIDE DEF z, s
<1>5. ASSUME NEW i \in 1 .. Len(s)
      PROVE  GoodPlace(l, s[i])
  <2>1. i + 1 \in 1 .. Len(places)
    BY <1>1, <1>3
  <2>2. GoodPlace(l, places[i + 1])
    BY <2>1 DEF Along
  <2> QED
    BY <1>3, <2>2
<1>6. ASSUME NEW i \in 1 .. Len(z)
      PROVE  Step(l, s[i], z[i], s[i + 1])
  <2>1. i + 1 \in 1 .. Len(y) /\ i \in 1 .. Len(s) /\ i + 1 \in 1 .. Len(s)
    BY <1>1, <1>2, <1>3
  <2>2. Step(l, places[i + 1], y[i + 1], places[(i + 1) + 1])
    BY <2>1 DEF Along
  <2>3. s[i] = places[i + 1] /\ s[i + 1] = places[(i + 1) + 1] /\ z[i] = y[i + 1]
    BY <1>2, <1>3, <2>1
  <2> QED
    BY <2>2, <2>3
<1>7. Along(l, z, s)
  BY <1>1, <1>2, <1>3, <1>5, <1>6 DEF Along
<1>8. s[1] = places[2] /\ s[Len(s)] = places[Len(places)]
  <2>1. 1 \in 1 .. Len(s) /\ Len(s) \in 1 .. Len(s) /\ Len(s) + 1 = Len(places) /\ 1 + 1 = 2
    BY <1>1, <1>3
  <2> QED
    BY <1>3, <2>1
<1>9. Line(z)
  BY <1>2 DEF Line, Bytes
<1>10. GoodPlace(l, places[1]) /\ GoodPlace(l, places[2]) /\ Step(l, places[1], y[1], places[2])
  <2>1. 1 \in 1 .. Len(places) /\ 2 \in 1 .. Len(places) /\ 1 \in 1 .. Len(y) /\ 1 + 1 = 2
    BY <1>1
  <2>2. Step(l, places[1], y[1], places[1 + 1])
    BY <2>1 DEF Along
  <2> QED
    BY <2>1, <2>2 DEF Along
<1> QED
  BY <1>4, <1>7, <1>8, <1>9, <1>10 DEF z, s

\* The ends of the line are places.
LEMMA AlongEnds ==
    ASSUME NEW l, NEW y, Line(y), NEW places, Along(l, y, places)
    PROVE  /\ GoodPlace(l, places[1]) /\ GoodPlace(l, places[Len(places)])
           /\ places[Len(places)] \in Places
           /\ y = <<>> => places[Len(places)] = places[1]
           /\ y # <<>> => /\ Len(y) \in 1 .. Len(y)
                          /\ places[Len(places)].message = y[Len(y)].message
<1>1. Len(y) \in Nat /\ Len(places) = Len(y) + 1 /\ places \in Seq(Places) /\ y \in Seq(Bytes)
  BY DEF Line, Along, Bytes
<1>2. GoodPlace(l, places[1]) /\ GoodPlace(l, places[Len(places)])
  <2>1. 1 \in 1 .. Len(places) /\ Len(places) \in 1 .. Len(places)
    BY <1>1
  <2> QED
    BY <2>1 DEF Along
<1>3. places[Len(places)] \in Places
  BY <1>2 DEF GoodPlace
<1>4. y = <<>> => places[Len(places)] = places[1]
  BY <1>1
<1>5. ASSUME y # <<>>
      PROVE  Len(y) \in 1 .. Len(y) /\ places[Len(places)].message = y[Len(y)].message
  <2>1. Len(y) \in 1 .. Len(y)
    BY <1>1, <1>5
  <2>2. Step(l, places[Len(y)], y[Len(y)], places[Len(y) + 1])
    BY <2>1 DEF Along
  <2> DEFINE p == places[Len(y)]
             b == y[Len(y)]
             q == places[Len(y) + 1]
  <2>3. q.message = b.message
    <3>1. CASE DelimiterStep(l, p, b, q)
      BY <3>1 DEF DelimiterStep, Between
    <3>2. CASE OverheadStep(l, p, b, q)
      BY <3>2 DEF OverheadStep
    <3>3. CASE DataStep(l, p, b, q)
      <4>1. Len(y) \in 1 .. Len(places)
        BY <1>1, <2>1
      <4>2. p \in Places
        BY <1>1, <4>1
      <4> QED
        BY <3>3, <4>2 DEF DataStep, Places
    <3> QED
      BY <2>2, <3>1, <3>2, <3>3 DEF Step
  <2> QED
    BY <1>1, <2>1, <2>3
<1> QED
  BY <1>2, <1>3, <1>4, <1>5

\* A line that holds nothing.
LEMMA AlongNothing ==
    ASSUME NEW l, NEW q \in Places, GoodPlace(l, q)
    PROVE  /\ Along(l, <<>>, <<q>>) /\ Line(<<>>) /\ <<q>> \in Seq(Places)
           /\ <<q>>[1] = q /\ Len(<<q>>) = 1
<1>1. <<q>> \in Seq(Places) /\ <<q>>[1] = q /\ Len(<<q>>) = 1 /\ Len(<<>>) = 0
  OBVIOUS
<1>2. \A i \in 1 .. Len(<<q>>) : GoodPlace(l, <<q>>[i])
  BY <1>1
<1>3. \A i \in 1 .. Len(<<>>) : FALSE
  BY <1>1
<1>4. Along(l, <<>>, <<q>>)
  BY <1>1, <1>2, <1>3 DEF Along
<1>5. Line(<<>>)
  BY DEF Line
<1> QED
  BY <1>1, <1>4, <1>5

-----------------------------------------------------------------------------
(* The invariant is inductive: one lemma per action.                        *)

\* What CobsInv says but for the places.
Recorded == Log(log) /\ Line(line) /\ Received(log, received) /\ asserted \in BOOLEAN /\ resets \in Nat

\* A sender of which only the requests and the flags of a reset change.
LEMMA SenderKept ==
    ASSUME NEW l, NEW p, NEW t, NEW d, Sender(l, t, p), t.sending, SenderType(d), ~d.writer, d.sending,
           d.requested => d.outstanding, d.resetting => l[Len(l)].cut /\ d.first,
           d.serial = t.serial, d.callback = t.callback, d.size = t.size, d.dataToSend = t.dataToSend,
           d.frameSize = t.frameSize
    PROVE  Sender(l, d, p)
<1>1. SendingFirst(l, t, p) => SendingFirst(l, d, p)
  BY DEF SendingFirst
<1>2. SendingOverhead(l, t, p) => SendingOverhead(l, d, p)
  BY DEF SendingOverhead
<1>3. SendingData(l, t, p) => SendingData(l, d, p)
  BY DEF SendingData, InFrame
<1>4. SendingLast(l, t, p) => SendingLast(l, d, p)
  BY DEF SendingLast
<1> QED
  BY <1>1, <1>2, <1>3, <1>4 DEF Sender

LEMMA RequestSendMessageKeepsInv ==
    ASSUME CobsInv, RequestSendMessage
    PROVE  CobsInv'
<1>1. PICK places \in Seq(Places) : Connected(log, line, rx, tx, places)
  BY DEF CobsInv
<1> DEFINE p == places[Len(places)]
           u == [tx EXCEPT !.requested = TRUE, !.outstanding = TRUE]
<1>2. Sender(log, tx, p) /\ SenderType(tx)
  BY <1>1 DEF Connected, Sender
<1>3. /\ tx' = CheckReadyToSendUserData(u) /\ asserted' \in BOOLEAN
      /\ line' = line /\ rx' = rx /\ log' = log /\ received' = received /\ resets' = resets
  <2>1. tx.requested \in BOOLEAN /\ tx.writer \in BOOLEAN
    BY <1>2 DEF SenderType
  <2> QED
    BY <2>1 DEF RequestSendMessage
<1>4. /\ SenderType(u) /\ u.requested /\ u.outstanding /\ u.writer = tx.writer /\ u.sending = tx.sending
      /\ u.resetting = tx.resetting /\ u.first = tx.first /\ u.serial = tx.serial /\ u.callback = tx.callback
      /\ u.size = tx.size /\ u.dataToSend = tx.dataToSend /\ u.frameSize = tx.frameSize
  BY <1>2 DEF SenderType
<1> HIDE DEF u, p
<1>5. Sender(log, tx', p)
  <2>1. CASE tx.sending
    <3>1. tx' = u
      BY <1>3, <1>4, <2>1 DEF CheckReadyToSendUserData
    <3>2. ~u.writer /\ u.sending /\ (u.resetting => log[Len(log)].cut /\ u.first)
      BY <1>2, <1>4, <2>1 DEF Sender
    <3>3. Sender(log, u, p)
      BY <1>2, <1>4, <2>1, <3>2, SenderKept
    <3> QED
      BY <3>1, <3>3
  <2>2. CASE ~tx.sending
    <3>1. Idle(log, tx, p)
      BY <1>2, <2>2 DEF Sender
    <3>2. ~u.sending /\ ~u.resetting /\ u.size = 0 /\ u.serial = <<>> /\ (p.in => CutAt(log, p) /\ u.first)
      BY <1>4, <2>2, <3>1 DEF Idle
    <3> QED
      BY <1>3, <1>4, <3>2, CheckReadyIdle
  <2> QED
    BY <2>1, <2>2
<1>6. Connected(log', line', rx', tx', places)
  BY <1>1, <1>3, <1>5 DEF Connected, p
<1> QED
  BY <1>3, <1>6 DEF CobsInv

\* A new message in the log.
Added(l, k, contents, first) ==
    /\ Grown(l, k) /\ Log(k) /\ Len(k) = Len(l) + 1
    /\ k[Len(k)].contents = contents /\ k[Len(k)].first = first
    /\ k[Len(k)].size = 0
    /\ contents \in Seq(0 .. MaxFrame + 1) /\ contents # <<>>

LEMMA LogAppended ==
    ASSUME NEW l, Log(l), NEW contents \in Contents, NEW first \in BOOLEAN
    PROVE  Added(l, Append(l, [contents |-> contents, first |-> first, size |-> 0, cut |-> FALSE]), contents, first)
<1> DEFINE z == [contents |-> contents, first |-> first, size |-> 0, cut |-> FALSE]
           k == Append(l, z)
<1>1. contents \in Seq(0 .. MaxFrame + 1) /\ contents # <<>> /\ MaxFrame \in Nat \ {0}
  BY CobsAssumption
<1>2. z \in Messages /\ z.contents = contents /\ z.first = first /\ z.size = 0 /\ z.cut = FALSE
  BY <1>1 DEF Messages
<1> HIDE DEF z
<1>3. l \in Seq(Messages) /\ Len(l) \in Nat
  BY DEF Log
<1>4. k \in Seq(Messages) /\ Len(k) = Len(l) + 1 /\ k[Len(l) + 1] = z
      /\ \A j \in 1 .. Len(l) : k[j] = l[j]
  BY <1>2, <1>3
<1> HIDE DEF k
<1>5. Grown(l, k)
  BY <1>3, <1>4 DEF Grown
<1>6. ASSUME NEW j \in 1 .. Len(k)
      PROVE  k[j].contents # <<>> /\ k[j].size <= MessageSize(Len(k[j].contents)) + Extra(k, j)
  <2>1. CASE j = Len(l) + 1
    <3>1. Len(contents) \in Nat /\ Len(contents) \div MaxFrame \in Nat
      <4>1. Len(contents) \in Nat /\ MaxFrame \in Nat \ {0} /\ 0 \in Nat
        BY <1>1
      <4>2. 0 * MaxFrame <= Len(contents)
        BY <4>1
      <4> QED
        BY <4>1, <4>2, QuotientBounds
    <3>2. MessageSize(Len(contents)) \in Nat
      BY <3>1 DEF MessageSize
    <3>3. Extra(k, j) \in Nat
      BY DEF Extra
    <3> QED
      BY <1>1, <1>2, <1>4, <2>1, <3>2, <3>3
  <2>2. CASE j # Len(l) + 1
    <3>1. j \in 1 .. Len(l)
      BY <1>3, <1>4, <2>2
    <3>2. k[j] = l[j] /\ Extra(k, j) = Extra(l, j)
      BY <1>4, <3>1 DEF Extra
    <3> QED
      BY <3>1, <3>2 DEF Log
  <2> QED
    BY <2>1, <2>2
<1>7. Log(k)
  BY <1>4, <1>6 DEF Log
<1> QED
  BY <1>1, <1>2, <1>4, <1>5, <1>7 DEF k, z, Added

\* What the log growing leaves as it was.
LEMMA GrownKeeps ==
    ASSUME Recorded, NEW places \in Seq(Places), Connected(log, line, rx, tx, places), NEW k, Grown(log, k)
    PROVE  /\ Along(k, line, places) /\ Receiver(k, rx, places[1]) /\ Received(k, received)
           /\ GoodPlace(log, places[Len(places)]) /\ GoodPlace(k, places[Len(places)])
           /\ CutAt(log, places[Len(places)]) => CutAt(k, places[Len(places)])
<1>1. log \in Seq(Messages) /\ Line(line) /\ Along(log, line, places) /\ Receiver(log, rx, places[1])
      /\ Received(log, received)
  BY DEF Recorded, Log, Connected
<1>2. GoodPlace(log, places[1]) /\ GoodPlace(log, places[Len(places)])
  BY <1>1, AlongEnds
<1>3. Along(k, line, places)
  BY <1>1, AlongGrown
<1>4. Receiver(k, rx, places[1])
  BY <1>1, <1>2, ReceiverGrown
<1>5. Received(k, received)
  BY <1>1, ReceivedGrown
<1> QED
  BY <1>1, <1>2, <1>3, <1>4, <1>5, PlaceGrown

\* SendStreamFilled begins to send the message that was added to the log.
LEMMA SendStreamFilledSends ==
    ASSUME NEW k \in Seq(Messages), NEW p, GoodPlace(k, p), Len(k) >= 1, p.message < Len(k),
           NEW contents \in Seq(0 .. MaxFrame + 1), contents # <<>>,
           k[Len(k)].contents = contents, k[Len(k)].size = 0,
           NEW t, SenderType(t), ~t.writer, ~t.sending, ~t.resetting, t.size = 0, t.serial = <<>>, t.storage = contents,
           t.requested => t.outstanding, p.in => CutAt(k, p) /\ t.first, k[Len(k)].first = t.first
    PROVE  Sender(k, SendStreamFilled(t), p)
<1> DEFINE u == [t EXCEPT !.sending = TRUE, !.dataToSend = t.storage]
           m == Len(k)
<1>1. /\ SenderType(u) /\ u.sending = TRUE /\ u.dataToSend = contents /\ u.size = 0 /\ u.serial = <<>>
      /\ ~u.writer /\ ~u.resetting /\ u.first = t.first /\ (u.requested => u.outstanding)
  BY DEF SenderType
<1>2. SendStreamFilled(t) = IF t.first THEN SendData([u EXCEPT !.first = FALSE], <<messageDelimiter>>, "first")
                            ELSE SendOrDone(u)
  BY DEF SendStreamFilled
<1>3. RestOf(contents, contents, 0)
  BY DEF RestOf
<1>4. Busy(k, u)
  BY <1>1 DEF Busy
<1> HIDE DEF u
<1>5. CASE t.first
  <2> DEFINE v == [u EXCEPT !.first = FALSE]
             d == SendData(v, <<messageDelimiter>>, "first")
  <2>1. /\ SenderType(v) /\ v.sending = TRUE /\ v.dataToSend = contents /\ v.size = 0
        /\ ~v.writer /\ ~v.resetting /\ (v.requested => v.outstanding)
    BY <1>1 DEF SenderType
  <2>2. Busy(k, v)
    BY <2>1 DEF Busy
  <2> HIDE DEF v
  <2>3. <<messageDelimiter>> \in Seq(0 .. MaxFrame + 1) /\ Len(<<messageDelimiter>>) = 1
        /\ <<messageDelimiter>>[1] = messageDelimiter
    BY CobsAssumption DEF messageDelimiter
  <2>4. Sends(d, v, <<messageDelimiter>>, "first")
    BY <2>1, <2>3, SendDataSends
  <2> HIDE DEF d
  <2>5. Busy(k, d)
    BY <2>2, <2>4, BusySame DEF Sends
  <2>6. SendingFirst(k, d, p)
    BY <1>3, <1>5, <2>1, <2>3, <2>4 DEF SendingFirst, Sends
  <2>7. Sender(k, d, p)
    BY <2>5, <2>6 DEF Sender, Busy
  <2> QED
    BY <1>2, <1>5, <2>7 DEF d, v
<1>6. CASE ~t.first
  <2>1. p = Between(p.message) /\ ~p.in
    BY <1>6 DEF GoodPlace
  <2>2. p.at = 0 /\ p.end = 0 /\ p.full = TRUE /\ Sent(p) = 0
    BY <2>1 DEF Between, Sent
  <2>3. Extra(k, m) = 0
    BY <1>6 DEF Extra
  <2>4. Ready(k, u, p)
    BY <1>1, <1>3, <2>1, <2>2, <2>3 DEF Ready
  <2>5. Sender(k, SendFrame(u), p)
    BY <1>4, <2>4, SendFrameSends
  <2>6. SendOrDone(u) = SendFrame(u)
    BY <1>1 DEF SendOrDone
  <2> QED
    BY <1>2, <1>6, <2>5, <2>6
<1> QED
  BY <1>5, <1>6

LEMMA WriteKeepsInv ==
    ASSUME CobsInv, Write
    PROVE  CobsInv'
<1>1. PICK places \in Seq(Places) : Connected(log, line, rx, tx, places)
  BY DEF CobsInv
<1>2. PICK contents \in Contents : WriterReleased(contents)
  BY DEF Write
<1> DEFINE p == places[Len(places)]
<1>3. Recorded
  BY DEF CobsInv, Recorded
<1>4. /\ Sender(log, tx, p) /\ SenderType(tx) /\ tx.writer
      /\ line' = line /\ rx' = rx /\ received' = received /\ resets' = resets /\ asserted' = asserted
  BY <1>1, <1>2 DEF Connected, Sender, WriterReleased
<1>5. /\ ~tx.sending /\ tx.serial = <<>> /\ tx.size = 0 /\ ~tx.resetting /\ (tx.requested => tx.outstanding)
      /\ (p.in => CutAt(log, p) /\ tx.first) /\ tx.first \in BOOLEAN
  BY <1>4 DEF Sender, Idle, SenderType
<1>6. CASE tx.onRelease = "send"
  <2> DEFINE t == [tx EXCEPT !.writer = FALSE, !.storage = contents]
             k == Append(log, [contents |-> contents, first |-> tx.first, size |-> 0, cut |-> FALSE])
  <2>1. tx' = SendStreamFilled(t) /\ log' = k
    BY <1>2, <1>6 DEF WriterReleased
  <2>2. /\ Grown(log, k) /\ Log(k) /\ Len(k) = Len(log) + 1
        /\ k[Len(k)].contents = contents /\ k[Len(k)].first = tx.first
        /\ k[Len(k)].size = 0
        /\ contents \in Seq(0 .. MaxFrame + 1) /\ contents # <<>>
    <3>1. Added(log, k, contents, tx.first)
      BY <1>3, <1>5, LogAppended DEF Recorded
    <3> QED
      BY <3>1 DEF Added
  <2> HIDE DEF k, p
  <2>3. /\ SenderType(t) /\ ~t.writer /\ ~t.sending /\ ~t.resetting /\ t.size = 0 /\ t.serial = <<>>
        /\ t.storage = contents /\ (t.requested => t.outstanding) /\ t.first = tx.first
    BY <1>4, <1>5, <2>2 DEF SenderType
  <2> HIDE DEF t
  <2>4. /\ Along(k, line, places) /\ Receiver(k, rx, places[1]) /\ Received(k, received)
        /\ GoodPlace(log, p) /\ GoodPlace(k, p) /\ (CutAt(log, p) => CutAt(k, p))
    BY <1>1, <1>3, <2>2, GrownKeeps DEF p
  <2>5. p.message < Len(k) /\ Len(k) >= 1 /\ k \in Seq(Messages)
    <3>1. p.message \in Nat /\ p.message <= Len(log) /\ log \in Seq(Messages) /\ k \in Seq(Messages)
      BY <1>3, <2>2, <2>4 DEF GoodPlace, Places, Recorded, Log
    <3>2. Len(log) \in Nat
      BY <3>1
    <3> QED
      BY <2>2, <3>1, <3>2
  <2>6. Sender(k, SendStreamFilled(t), p)
    BY <1>5, <2>2, <2>3, <2>4, <2>5, SendStreamFilledSends
  <2>7. Connected(log', line', rx', tx', places)
    BY <1>4, <2>1, <2>4, <2>6 DEF Connected, p
  <2> QED
    BY <1>3, <1>4, <2>1, <2>2, <2>4, <2>7 DEF CobsInv, Recorded
<1>7. CASE tx.onRelease # "send"
  <2> DEFINE t == [tx EXCEPT !.writer = FALSE, !.storage = <<>>, !.onRelease = "send"]
  <2>1. tx' = t /\ log' = log
    BY <1>2, <1>7 DEF WriterReleased
  <2>2. /\ SenderType(t) /\ ~t.writer /\ ~t.sending /\ ~t.resetting /\ t.size = 0 /\ t.serial = <<>>
        /\ (t.requested => t.outstanding) /\ t.first = tx.first
    BY <1>4, <1>5 DEF SenderType
  <2> HIDE DEF t
  <2>3. Sender(log, t, p)
    BY <1>5, <2>2 DEF Sender, Idle
  <2>4. Connected(log', line', rx', tx', places)
    BY <1>1, <1>4, <2>1, <2>3 DEF Connected
  <2> QED
    BY <1>3, <1>4, <2>1, <2>4 DEF CobsInv, Recorded
<1> QED
  BY <1>6, <1>7

LEMMA ByteSentKeepsInv ==
    ASSUME CobsInv, ByteSent
    PROVE  CobsInv'
<1>1. PICK places \in Seq(Places) : Connected(log, line, rx, tx, places)
  BY DEF CobsInv
<1>2. Recorded
  BY DEF CobsInv, Recorded
<1> DEFINE p == places[Len(places)]
           y == [byte |-> tx.serial[1], message |-> Len(log)]
<1>3. rx' = rx /\ received' = received /\ resets' = resets /\ asserted' = asserted
  BY DEF ByteSent
<1>4. Log(log) /\ Line(line) /\ Along(log, line, places) /\ Sender(log, tx, p)
  BY <1>1, <1>2 DEF Recorded, Connected
<1>5. GoodPlace(log, p)
  BY <1>4, AlongEnds
<1>6. /\ Grown(log, log') /\ Log(log') /\ y \in Bytes /\ line' = Append(line, y) /\ Moves(log', p, y, tx')
  BY <1>4, <1>5, ByteSentMoves DEF Bytes
<1> HIDE DEF y
<1>7. PICK q \in Places : GoodPlace(log', q) /\ Step(log', p, y, q) /\ Sender(log', tx', q)
  BY <1>6 DEF Moves
<1>8. Along(log', line, places) /\ Receiver(log', rx, places[1]) /\ Received(log', received)
  BY <1>1, <1>2, <1>6, GrownKeeps
<1> DEFINE s == Append(places, q)
<1>9. Along(log', line', s) /\ s[1] = places[1] /\ s[Len(s)] = q /\ Line(line')
  <2> DEFINE k == log'
  <2>1. Line(line) /\ Along(k, line, places) /\ y \in Bytes /\ GoodPlace(k, q)
        /\ Step(k, places[Len(places)], y, q)
    BY <1>4, <1>6, <1>7, <1>8
  <2> HIDE DEF k
  <2>2. /\ Along(k, Append(line, y), s) /\ s[1] = places[1] /\ s[Len(s)] = q /\ Line(Append(line, y))
    <3>1. Extended(k, line, places, y, q)
      BY <2>1, AlongAppend
    <3> QED
      BY <3>1 DEF Extended
  <2> QED
    BY <1>6, <2>2 DEF k
<1>10. s \in Seq(Places)
  BY <1>9 DEF Along
<1> HIDE DEF s
<1>11. Connected(log', line', rx', tx', s)
  BY <1>3, <1>7, <1>8, <1>9 DEF Connected
<1> QED
  BY <1>2, <1>3, <1>6, <1>8, <1>9, <1>10, <1>11 DEF CobsInv, Recorded

LEMMA DataReceivedKeepsInv ==
    ASSUME CobsInv, DataReceived
    PROVE  CobsInv'
<1>1. PICK places \in Seq(Places) : Connected(log, line, rx, tx, places)
  BY DEF CobsInv
<1>2. Recorded
  BY DEF CobsInv, Recorded
<1> DEFINE p == places[1]
           q == places[2]
           y == Head(line)
<1>3. /\ rx.reader = 0 /\ line # <<>> /\ line' = Tail(line)
      /\ tx' = tx /\ log' = log /\ resets' = resets /\ asserted' = asserted
  BY DEF DataReceived
<1>4. /\ rx' = Taken(rx, y)
      /\ received' = IF Taken(rx, y).reader = 0 THEN received ELSE Forwarded(rx, y)
  BY DEF DataReceived, Taken, Noted, Forwarded
<1>5. Log(log) /\ Line(line) /\ Along(log, line, places) /\ Receiver(log, rx, p)
      /\ Sender(log, tx, places[Len(places)])
  BY <1>1, <1>2 DEF Recorded, Connected
<1>6. /\ Along(log, Tail(line), Tail(places))
      /\ Tail(places)[1] = q /\ Tail(places)[Len(Tail(places))] = places[Len(places)]
      /\ Line(Tail(line))
      /\ GoodPlace(log, p) /\ GoodPlace(log, q) /\ Step(log, p, y, q) /\ y \in Bytes
  BY ZenonT(30), <1>3, <1>5, AlongTail
<1> DEFINE s == Tail(places)
<1>7. s \in Seq(Places)
  BY <1>6 DEF Along
<1> HIDE DEF y, s
<1>8. /\ Receiver(log, Taken(rx, y), q)
      /\ Taken(rx, y).reader # 0 => Received(log, Forwarded(rx, y))
  <2>1. CASE DelimiterStep(log, p, y, q)
    BY <1>3, <1>5, <1>6, <2>1, ReceiverEnds
  <2>2. CASE OverheadStep(log, p, y, q) \/ DataStep(log, p, y, q)
    BY <1>3, <1>5, <1>6, <2>2, ReceiverGoesOn
  <2> QED
    BY <1>6, <2>1, <2>2 DEF Step
<1>9. Received(log, received')
  BY <1>2, <1>4, <1>8 DEF Recorded
<1>10. Connected(log', line', rx', tx', s)
  BY <1>3, <1>4, <1>5, <1>6, <1>8 DEF Connected, s
<1> QED
  BY <1>2, <1>3, <1>6, <1>7, <1>9, <1>10 DEF CobsInv, Recorded

\* A reader's release leaves nothing of the message.
LEMMA ReaderReleasedKeepsInv ==
    ASSUME CobsInv, ReaderReleased
    PROVE  CobsInv'
<1>1. PICK places \in Seq(Places) : Connected(log, line, rx, tx, places)
  BY DEF CobsInv
<1> DEFINE p == places[1]
           u == [rx EXCEPT !.message = DiscardHead(rx.message, rx.reader), !.reader = 0]
<1>2. /\ rx.reader # 0 /\ rx' = u
      /\ tx' = tx /\ line' = line /\ log' = log /\ received' = received /\ resets' = resets /\ asserted' = asserted
  BY DEF ReaderReleased
<1>3. /\ Receiver(log, rx, p) /\ ReceiverType(rx) /\ ~p.in /\ rx.size = 0 /\ rx.message \in Seq(Nat)
      /\ Len(rx.message) = rx.reader /\ rx.reader \in Nat
  BY <1>1, <1>2 DEF Connected, Receiver, ReceiverType
<1>4. DiscardHead(rx.message, rx.reader) \in Seq(Nat) /\ Len(DiscardHead(rx.message, rx.reader)) = 0
  BY <1>3 DEF DiscardHead
<1>5. /\ ReceiverType(u) /\ u.reader = 0 /\ u.size = rx.size /\ u.nextOverhead = rx.nextOverhead
      /\ u.pseudo = rx.pseudo /\ u.encoded = rx.encoded /\ u.from = rx.from /\ u.counted = rx.counted
  BY <1>3, <1>4 DEF ReceiverType
<1> HIDE DEF u, p
<1>6. InStep(log, u, p) /\ Counts(log, u, p)
  <2>1. InStep(log, rx, p)
    BY <1>3 DEF Receiver, CutAt
  <2> QED
    BY <1>3, <1>5, <2>1 DEF InStep, Counts, Receiver
<1>7. Receiver(log, u, p)
  BY <1>3, <1>5, <1>6 DEF Receiver
<1>8. Connected(log', line', rx', tx', places)
  BY <1>1, <1>2, <1>7 DEF Connected, p
<1> QED
  BY <1>2, <1>8 DEF CobsInv

\* The log when the messages of S are cut
MarkedCut(l, S) == [m \in DOMAIN l |-> IF m \in S THEN [l[m] EXCEPT !.cut = TRUE] ELSE l[m]]

CutBy(l, k, S) ==
    /\ Grown(l, k) /\ Log(k) /\ Len(k) = Len(l)
    /\ \A m \in 1 .. Len(l) : k[m].size = l[m].size /\ (m \in S => k[m].cut)

LEMMA MarkedCutCuts ==
    ASSUME NEW l, Log(l), NEW S
    PROVE  CutBy(l, MarkedCut(l, S), S)
<1> DEFINE k == MarkedCut(l, S)
<1>1. l \in Seq(Messages) /\ Len(l) \in Nat /\ DOMAIN l = 1 .. Len(l)
  BY DEF Log
<1>2. ASSUME NEW m \in 1 .. Len(l)
      PROVE  /\ k[m] \in Messages /\ k[m].contents = l[m].contents /\ k[m].first = l[m].first
             /\ (l[m].cut => k[m].cut) /\ k[m].size = l[m].size /\ (m \in S => k[m].cut)
  <2>1. l[m] \in Messages
    BY <1>1
  <2>2. CASE m \in S
    <3>1. k[m] = [l[m] EXCEPT !.cut = TRUE]
      BY <1>1, <2>2 DEF MarkedCut
    <3> QED
      BY <2>1, <2>2, <3>1 DEF Messages
  <2>3. CASE m \notin S
    <3>1. k[m] = l[m]
      BY <1>1, <2>3 DEF MarkedCut
    <3> QED
      BY <2>1, <2>3, <3>1
  <2> QED
    BY <2>2, <2>3
<1>3. k \in [1 .. Len(l) -> Messages]
  <2>1. k = [m \in 1 .. Len(l) |-> k[m]]
    BY <1>1 DEF MarkedCut
  <2> QED
    BY <1>2, <2>1
<1> HIDE DEF k
<1>4. k \in Seq(Messages) /\ Len(k) = Len(l)
  BY <1>1, <1>3
<1>5. Grown(l, k)
  BY <1>1, <1>2, <1>4 DEF Grown
<1>6. ASSUME NEW m \in 1 .. Len(l)
      PROVE  k[m].contents # <<>> /\ k[m].size <= MessageSize(Len(k[m].contents)) + Extra(k, m)
  <2>1. Extra(k, m) = Extra(l, m)
    BY <1>2 DEF Extra
  <2> QED
    BY <1>2, <2>1 DEF Log
<1>7. Log(k)
  BY <1>4, <1>6 DEF Log
<1> QED
  BY <1>2, <1>4, <1>5, <1>7 DEF CutBy, k

\* The message under way, if any, is cut when the sender is reset.
LEMMA CutMessageCuts ==
    ASSUME Log(log), tx.sending \in BOOLEAN, tx.sending => Len(log) >= 1
    PROVE  CutBy(log, CutMessage, IF tx.sending THEN {Len(log)} ELSE {})
<1>1. log \in Seq(Messages) /\ Len(log) \in Nat /\ DOMAIN log = 1 .. Len(log)
  BY DEF Log
<1>2. CASE tx.sending
  <2> DEFINE z == [log[Len(log)] EXCEPT !.cut = TRUE]
  <2>1. CutMessage = [log EXCEPT ![Len(log)] = z]
    BY <1>2 DEF CutMessage
  <2>2. MarkedCut(log, {Len(log)}) = [m \in 1 .. Len(log) |-> IF m = Len(log) THEN z ELSE log[m]]
    BY <1>1 DEF MarkedCut
  <2> HIDE DEF z
  <2>3. [log EXCEPT ![Len(log)] = z] = [m \in 1 .. Len(log) |-> IF m = Len(log) THEN z ELSE log[m]]
    BY <1>1
  <2>4. CutMessage = MarkedCut(log, {Len(log)})
    BY <2>1, <2>2, <2>3
  <2> QED
    BY <1>2, <2>4, MarkedCutCuts
<1>3. CASE ~tx.sending
  <2>1. CutMessage = log
    BY <1>3 DEF CutMessage
  <2> QED
    BY <1>1, <1>3, <2>1 DEF CutBy, Grown
<1> QED
  BY <1>2, <1>3

\* Where the sender stops, it stops at the end of a packet or in a message that is cut.
LEMMA SenderStopsInCut ==
    ASSUME NEW l, NEW k, NEW p, Sender(l, tx, p), CutAt(l, p) => CutAt(k, p),
           tx.sending => k[Len(l)].cut, p.in
    PROVE  CutAt(k, p)
<1>1. CASE ~tx.sending
  BY <1>1 DEF Sender, Idle
<1>2. CASE tx.sending
  <2>1. CASE SendingFirst(l, tx, p)
    BY <2>1 DEF SendingFirst
  <2>2. CASE p.message = Len(l)
    BY <1>2, <2>2 DEF CutAt
  <2> QED
    BY <1>2, <2>1, <2>2 DEF Sender, SendingOverhead, SendingData, InFrame, SendingLast
<1> QED
  BY <1>1, <1>2

LEMMA ResetSenderKeepsInv ==
    ASSUME CobsInv, ResetSender
    PROVE  CobsInv'
<1>1. PICK places \in Seq(Places) : Connected(log, line, rx, tx, places)
  BY DEF CobsInv
<1>2. Recorded
  BY DEF CobsInv, Recorded
<1> DEFINE p == places[Len(places)]
           k == CutMessage
           t == [tx EXCEPT !.storage = IF tx.writer THEN @ ELSE <<>>,
                           !.onRelease = IF tx.writer THEN "clear" ELSE @,
                           !.first = TRUE, !.requested = FALSE, !.outstanding = FALSE]
<1>3. Sender(log, tx, p) /\ SenderType(tx) /\ tx.sending \in BOOLEAN /\ (tx.sending => Len(log) >= 1)
      /\ log \in Seq(Messages)
  BY <1>1, <1>2 DEF Connected, Sender, SenderType, Recorded, Log
<1>4. /\ tx' = (IF t.sending THEN [t EXCEPT !.resetting = TRUE] ELSE FinishReset(t))
      /\ log' = k /\ line' = line /\ rx' = rx /\ received' = received /\ asserted' = asserted
      /\ resets' = resets + 1
  BY DEF ResetSender, SomeReset
<1>5. CutBy(log, k, IF tx.sending THEN {Len(log)} ELSE {})
  BY <1>2, <1>3, CutMessageCuts DEF Recorded
<1>6. /\ SenderType(t) /\ t.first = TRUE /\ t.requested = FALSE /\ t.outstanding = FALSE /\ t.writer = tx.writer
      /\ t.sending = tx.sending /\ t.serial = tx.serial /\ t.callback = tx.callback /\ t.size = tx.size
      /\ t.dataToSend = tx.dataToSend /\ t.frameSize = tx.frameSize
  <2> DEFINE storage == IF tx.writer THEN tx.storage ELSE <<>>
             onRelease == IF tx.writer THEN "clear" ELSE tx.onRelease
             u == [tx EXCEPT !.storage = storage, !.onRelease = onRelease]
  <2>1. storage \in Seq(0 .. MaxFrame + 1) /\ onRelease \in {"send", "clear"}
    <3>1. tx.storage \in Seq(0 .. MaxFrame + 1) /\ tx.onRelease \in {"send", "clear"}
      BY <1>3 DEF SenderType
    <3>2. CASE tx.writer
      BY <3>1, <3>2
    <3>3. CASE ~tx.writer
      BY <3>1, <3>3
    <3> QED
      BY <3>2, <3>3
  <2>2. t = [u EXCEPT !.first = TRUE, !.requested = FALSE, !.outstanding = FALSE]
    BY <1>3 DEF SenderType
  <2> HIDE DEF storage, onRelease
  <2>3. /\ SenderType(u) /\ u.writer = tx.writer
        /\ u.sending = tx.sending /\ u.serial = tx.serial /\ u.callback = tx.callback /\ u.size = tx.size
        /\ u.dataToSend = tx.dataToSend /\ u.frameSize = tx.frameSize
    BY <1>3, <2>1 DEF SenderType
  <2> HIDE DEF u, t
  <2> QED
    BY <2>2, <2>3 DEF SenderType
<1> HIDE DEF k, t, p
<1>7. /\ Grown(log, k) /\ Log(k) /\ Len(k) = Len(log)
      /\ (tx.sending => k[Len(log)].size = log[Len(log)].size /\ k[Len(log)].cut)
  BY <1>3, <1>5 DEF CutBy
<1>8. /\ Along(k, line, places) /\ Receiver(k, rx, places[1]) /\ Received(k, received)
      /\ GoodPlace(log, p) /\ GoodPlace(k, p) /\ (CutAt(log, p) => CutAt(k, p))
  BY <1>1, <1>2, <1>7, GrownKeeps DEF p
<1>9. Sender(k, tx', p)
  <2>1. CASE tx.sending
    <3> DEFINE d == [t EXCEPT !.resetting = TRUE]
    <3>1. /\ SenderType(d) /\ d.first = TRUE /\ d.requested = FALSE /\ d.writer = t.writer
          /\ d.sending = t.sending /\ d.serial = t.serial /\ d.callback = t.callback /\ d.size = t.size
          /\ d.dataToSend = t.dataToSend /\ d.frameSize = t.frameSize
      BY <1>6 DEF SenderType
    <3>2. tx' = d
      BY <1>4, <1>6, <2>1
    <3> HIDE DEF d
    <3>3. Sender(k, tx, p)
      BY <1>3, <1>7, <1>8, SenderGrown
    <3>4. ~d.writer /\ d.sending
      BY <1>3, <1>6, <2>1, <3>1 DEF Sender
    <3>5. Sender(k, d, p)
      BY <1>6, <1>7, <2>1, <3>1, <3>3, <3>4, SenderKept
    <3> QED
      BY <3>2, <3>5
  <2>2. CASE ~tx.sending
    <3>1. tx' = FinishReset(t)
      BY <1>4, <1>6, <2>2
    <3>2. t.serial = <<>>
      BY <1>3, <1>6, <2>2 DEF Sender, Idle
    <3>3. p.in => CutAt(k, p)
      BY <1>3, <1>7, <1>8, SenderStopsInCut
    <3> QED
      BY <1>6, <3>1, <3>2, <3>3, FinishResetIdle
  <2> QED
    BY <2>1, <2>2
<1>10. Connected(log', line', rx', tx', places)
  BY <1>4, <1>8, <1>9 DEF Connected, p
<1> QED
  BY <1>2, <1>4, <1>7, <1>8, <1>10 DEF CobsInv, Recorded

LEMMA SenderRestartsKeepsInv ==
    ASSUME CobsInv, SenderRestarts
    PROVE  CobsInv'
<1>1. PICK places \in Seq(Places) : Connected(log, line, rx, tx, places)
  BY DEF CobsInv
<1>2. Recorded
  BY DEF CobsInv, Recorded
<1> DEFINE p == places[Len(places)]
           k == CutMessage
<1>3. Sender(log, tx, p) /\ tx.sending \in BOOLEAN /\ (tx.sending => Len(log) >= 1) /\ log \in Seq(Messages)
  BY <1>1, <1>2 DEF Connected, Sender, SenderType, Recorded, Log
<1>4. /\ tx' = FreshSender /\ log' = k /\ line' = line /\ rx' = rx /\ received' = received /\ asserted' = asserted
      /\ resets' = resets + 1
  BY DEF SenderRestarts, SomeReset
<1>5. CutBy(log, k, IF tx.sending THEN {Len(log)} ELSE {})
  BY <1>2, <1>3, CutMessageCuts DEF Recorded
<1> HIDE DEF k, p
<1>6. Grown(log, k) /\ Log(k) /\ (tx.sending => k[Len(log)].cut)
  BY <1>3, <1>5 DEF CutBy
<1>7. /\ Along(k, line, places) /\ Receiver(k, rx, places[1]) /\ Received(k, received)
      /\ (CutAt(log, p) => CutAt(k, p))
  BY <1>1, <1>2, <1>6, GrownKeeps DEF p
<1>8. p.in => CutAt(k, p)
  BY <1>3, <1>6, <1>7, SenderStopsInCut
<1>9. Sender(k, FreshSender, p)
  <2>1. SenderType(FreshSender)
    BY DEF FreshSender, SenderType
  <2> QED
    BY <1>8, <2>1 DEF FreshSender, Sender, Idle
<1>10. Connected(log', line', rx', tx', places)
  BY <1>4, <1>7, <1>9 DEF Connected, p
<1> QED
  BY <1>2, <1>4, <1>6, <1>7, <1>10 DEF CobsInv, Recorded

\* A receiver that begins anew is where it should be, or in a message that is cut.
LEMMA FreshReceiverFits ==
    ASSUME NEW l, NEW p, GoodPlace(l, p), p.in => CutAt(l, p)
    PROVE  Receiver(l, FreshReceiver, p)
<1>1. ReceiverType(FreshReceiver)
  BY DEF FreshReceiver, ReceiverType
<1>2. ~p.in => p.at = 0 /\ p.end = 0 /\ p.full = TRUE
  BY DEF GoodPlace, Between
<1>3. InStep(l, FreshReceiver, p) \/ CutAt(l, p)
  BY <1>2 DEF InStep, FreshReceiver
<1>4. Counts(l, FreshReceiver, p)
  BY DEF Counts, FreshReceiver
<1> QED
  BY <1>1, <1>3, <1>4 DEF Receiver, FreshReceiver

LEMMA ResetReceiverKeepsInv ==
    ASSUME CobsInv, ResetReceiver
    PROVE  CobsInv'
<1>1. PICK places \in Seq(Places) : Connected(log, line, rx, tx, places)
  BY DEF CobsInv
<1>2. Recorded
  BY DEF CobsInv, Recorded
<1> DEFINE p == places[1]
           k == MarkedCut(log, rx.counted)
<1>3. /\ rx' = FreshReceiver /\ log' = k /\ line' = line /\ tx' = tx /\ received' = received /\ asserted' = asserted
      /\ resets' = resets + 1
  BY DEF ResetReceiver, SomeReset, Begun, MarkedCut
<1>4. CutBy(log, k, rx.counted)
  BY <1>2, MarkedCutCuts DEF Recorded
<1> HIDE DEF k
<1>5. Grown(log, k) /\ Log(k) /\ Len(k) = Len(log) /\ log \in Seq(Messages)
  BY <1>2, <1>4 DEF CutBy, Recorded, Log
<1>6. /\ Along(k, line, places) /\ Received(k, received) /\ GoodPlace(log, places[Len(places)])
  BY <1>1, <1>2, <1>5, GrownKeeps
<1>7. GoodPlace(log, p) /\ GoodPlace(k, p) /\ (CutAt(log, p) => CutAt(k, p)) /\ Receiver(log, rx, p)
  <2>1. Line(line) /\ Along(log, line, places) /\ Receiver(log, rx, p)
    BY <1>1, <1>2 DEF Recorded, Connected
  <2>2. GoodPlace(log, p)
    BY <2>1, AlongEnds
  <2> QED
    BY <1>5, <2>1, <2>2, PlaceGrown
<1>8. p.in => CutAt(k, p)
  <2>1. ASSUME p.in, ~CutAt(log, p)
        PROVE  k[p.message].cut
    <3>1. p.message \in rx.counted
      BY <1>7, <2>1 DEF Receiver, Counts
    <3>2. p.message \in 1 .. Len(log)
      BY <1>7, <2>1 DEF GoodPlace, Places
    <3> QED
      BY <1>4, <3>1, <3>2 DEF CutBy
  <2> QED
    BY <1>7, <2>1 DEF CutAt
<1>9. Receiver(k, FreshReceiver, p)
  BY <1>7, <1>8, FreshReceiverFits
<1>10. Sender(k, tx, places[Len(places)])
  <2>1. Sender(log, tx, places[Len(places)])
    BY <1>1 DEF Connected
  <2>2. tx.sending => Len(log) \in 1 .. Len(log)
    BY <1>5, <2>1 DEF Sender
  <2>3. tx.sending => k[Len(log)].size = log[Len(log)].size
    BY <1>4, <2>2 DEF CutBy
  <2> QED
    BY <1>5, <1>6, <2>1, <2>3, SenderGrown
<1>11. Connected(log', line', rx', tx', places)
  BY <1>3, <1>6, <1>9, <1>10 DEF Connected
<1> QED
  BY <1>2, <1>3, <1>5, <1>6, <1>11 DEF CobsInv, Recorded

LEMMA ReceiverRestartsKeepsInv ==
    ASSUME CobsInv, ReceiverRestarts
    PROVE  CobsInv'
<1>1. PICK places \in Seq(Places) : Connected(log, line, rx, tx, places)
  BY DEF CobsInv
<1>2. Recorded
  BY DEF CobsInv, Recorded
<1> DEFINE p == places[Len(places)]
           S == {m \in DOMAIN log : m \in rx.counted \/ \E i \in DOMAIN line : line[i].message = m}
           k == MarkedCut(log, S)
<1>3. /\ rx' = FreshReceiver /\ log' = k /\ line' = <<>> /\ tx' = tx /\ received' = received /\ asserted' = asserted
      /\ resets' = resets + 1
  BY DEF ReceiverRestarts, SomeReset, Begun, MarkedCut
<1>4. CutBy(log, k, S)
  BY <1>2, MarkedCutCuts DEF Recorded
<1> HIDE DEF k
<1>5. Grown(log, k) /\ Log(k) /\ Len(k) = Len(log) /\ log \in Seq(Messages) /\ DOMAIN log = 1 .. Len(log)
  BY <1>2, <1>4 DEF CutBy, Recorded, Log
<1>6. /\ Received(k, received) /\ GoodPlace(log, p) /\ GoodPlace(k, p) /\ (CutAt(log, p) => CutAt(k, p))
  BY <1>1, <1>2, <1>5, GrownKeeps
<1>7. Line(line) /\ Along(log, line, places) /\ Receiver(log, rx, places[1]) /\ Sender(log, tx, p)
  BY <1>1, <1>2 DEF Recorded, Connected
<1>8. p \in Places
  BY <1>7, AlongEnds
<1>9. p.in => CutAt(k, p)
  <2>1. ASSUME p.in, ~CutAt(log, p)
        PROVE  k[p.message].cut
    <3>1. p.message \in 1 .. Len(log)
      BY <1>6, <2>1 DEF GoodPlace, Places
    <3>2. CASE line = <<>>
      <4>1. p = places[1]
        BY <1>7, <3>2, AlongEnds
      <4>2. p.message \in rx.counted
        BY <1>7, <2>1, <4>1 DEF Receiver, Counts
      <4> QED
        BY <1>4, <1>5, <3>1, <4>2 DEF CutBy
    <3>3. CASE line # <<>>
      <4>1. Len(line) \in 1 .. Len(line) /\ p.message = line[Len(line)].message
        BY <1>7, <3>3, AlongEnds
      <4>2. Len(line) \in DOMAIN line
        BY <1>7, <4>1 DEF Line
      <4>3. p.message \in S
        BY <1>5, <3>1, <4>1, <4>2
      <4> QED
        BY <1>4, <3>1, <4>3 DEF CutBy
    <3> QED
      BY <3>2, <3>3
  <2> QED
    BY <1>6, <2>1 DEF CutAt
<1> HIDE DEF p
<1>10. Receiver(k, FreshReceiver, p)
  BY <1>6, <1>9, FreshReceiverFits
<1>11. Sender(k, tx, p)
  <2>1. tx.sending => Len(log) \in 1 .. Len(log)
    BY <1>5, <1>7 DEF Sender
  <2>2. tx.sending => k[Len(log)].size = log[Len(log)].size
    BY <1>4, <2>1 DEF CutBy
  <2> QED
    BY <1>5, <1>6, <1>7, <2>2, SenderGrown
<1>12. /\ Along(k, <<>>, <<p>>) /\ Line(<<>>) /\ <<p>> \in Seq(Places) /\ <<p>>[1] = p /\ Len(<<p>>) = 1
  BY <1>6, <1>8, AlongNothing
<1>13. Connected(log', line', rx', tx', <<p>>)
  BY <1>3, <1>10, <1>11, <1>12 DEF Connected
<1>14. Log(log') /\ Line(line') /\ Received(log', received') /\ asserted' \in BOOLEAN /\ resets' \in Nat
  <2>1. asserted \in BOOLEAN /\ resets \in Nat
    BY <1>2 DEF Recorded
  <2>2. resets + 1 \in Nat
    BY <2>1
  <2> QED
    BY <1>3, <1>5, <1>6, <1>12, <2>1, <2>2
<1> DEFINE s == <<p>>
<1>15. s \in Seq(Places) /\ Connected(log', line', rx', tx', s)
  BY <1>12, <1>13
<1> HIDE DEF s
<1> QED
  BY <1>14, <1>15 DEF CobsInv

-----------------------------------------------------------------------------
(* The theorems.                                                            *)

LEMMA CobsInvInit == Init => CobsInv
<1>1. SUFFICES ASSUME Init
               PROVE  CobsInv
  OBVIOUS
<1> DEFINE q == Between(0)
<1>2. /\ tx = FreshSender /\ rx = FreshReceiver /\ line = <<>> /\ log = <<>>
      /\ received = [contents |-> <<>>, from |-> {}, encoded |-> 0, counted |-> {}]
      /\ resets = 0 /\ asserted = FALSE
  BY <1>1 DEF Init
<1>3. q \in Places /\ GoodPlace(log, q) /\ ~q.in
  BY <1>2 DEF Between, Places, GoodPlace
<1> HIDE DEF q
<1>4. Along(log, <<>>, <<q>>) /\ Line(<<>>) /\ <<q>> \in Seq(Places) /\ <<q>>[1] = q /\ Len(<<q>>) = 1
  BY <1>3, AlongNothing
<1>5. Log(log) /\ Line(line) /\ Received(log, received) /\ asserted \in BOOLEAN /\ resets \in Nat
  <2>1. Log(<<>>)
    BY DEF Log
  <2>2. Received(log, received)
    BY <1>2 DEF Received
  <2> QED
    BY <1>2, <1>4, <2>1, <2>2
<1>6. Receiver(log, rx, q)
  BY <1>2, <1>3, FreshReceiverFits
<1>7. Sender(log, tx, q)
  <2>1. SenderType(FreshSender)
    BY DEF FreshSender, SenderType
  <2> QED
    BY <1>2, <1>3, <2>1 DEF FreshSender, Sender, Idle
<1>8. Connected(log, line, rx, tx, <<q>>)
  BY <1>2, <1>4, <1>6, <1>7 DEF Connected
<1> DEFINE s == <<q>>
<1>9. s \in Seq(Places) /\ Connected(log, line, rx, tx, s)
  BY <1>4, <1>8
<1> HIDE DEF s
<1> QED
  BY <1>5, <1>9 DEF CobsInv

LEMMA CobsInvStep == CobsInv /\ [Next]_vars => CobsInv'
<1>1. SUFFICES ASSUME CobsInv, [Next]_vars
               PROVE  CobsInv'
  OBVIOUS
<1>2. CASE RequestSendMessage
  BY <1>1, <1>2, RequestSendMessageKeepsInv
<1>3. CASE Write
  BY <1>1, <1>3, WriteKeepsInv
<1>4. CASE ByteSent
  BY <1>1, <1>4, ByteSentKeepsInv
<1>5. CASE DataReceived
  BY <1>1, <1>5, DataReceivedKeepsInv
<1>6. CASE ReaderReleased
  BY <1>1, <1>6, ReaderReleasedKeepsInv
<1>7. CASE ResetSender
  BY <1>1, <1>7, ResetSenderKeepsInv
<1>8. CASE SenderRestarts
  BY <1>1, <1>8, SenderRestartsKeepsInv
<1>9. CASE ResetReceiver
  BY <1>1, <1>9, ResetReceiverKeepsInv
<1>10. CASE ReceiverRestarts
  BY <1>1, <1>10, ReceiverRestartsKeepsInv
<1>11. CASE UNCHANGED vars
  BY <1>1, <1>11 DEF CobsInv, vars
<1> QED
  BY <1>1, <1>2, <1>3, <1>4, <1>5, <1>6, <1>7, <1>8, <1>9, <1>10, <1>11 DEF Next

LEMMA CobsInvImplies == CobsInv => ForwardedIntact /\ SizesAddUp
<1>1. SUFFICES ASSUME CobsInv
               PROVE  ForwardedIntact /\ SizesAddUp
  OBVIOUS
<1>2. Log(log) /\ Received(log, received) /\ DOMAIN log = 1 .. Len(log)
  BY <1>1 DEF CobsInv, Log
<1>3. ForwardedIntact
  BY <1>2 DEF Received, ForwardedIntact
<1>4. SizesAddUp
  BY <1>2 DEF Received, Log, Extra, SizesAddUp
<1> QED
  BY <1>3, <1>4

\* Spec => []CobsInv: at all times there are places along the line, from where the
\* receiver is to where the sender is.
THEOREM EndsStayConnected == Spec => []CobsInv
<1>1. Init => CobsInv
  BY CobsInvInit
<1>2. CobsInv /\ [Next]_vars => CobsInv'
  BY CobsInvStep
<1> QED
  BY <1>1, <1>2, PTL DEF Spec

\* For any messages, any size of frames and resets of either end between any two
\* bytes, ReceivedMessage forwards nothing that was put together from two messages,
\* and a message that neither end cut is forwarded as it was written.
THEOREM MessagesAreForwardedIntact == Spec => []ForwardedIntact
<1>1. CobsInv => ForwardedIntact
  BY CobsInvImplies
<1> QED
  BY <1>1, EndsStayConnected, PTL

\* For any messages and any size of frames, a message takes no more of the line than
\* MessageSize announces, and ReceivedMessage gives the size that MessageSent gave.
THEOREM EncodedSizesAddUp == Spec => []SizesAddUp
<1>1. CobsInv => SizesAddUp
  BY CobsInvImplies
<1> QED
  BY <1>1, EndsStayConnected, PTL

-----------------------------------------------------------------------------
(* The assertions of the streams.                                           *)

\* The layer above requests nothing while it still has a writer, one from before a
\* reset included, which the code nowhere enforces: SharedOptional::Emplace asserts
\* when it does.
RequestsInTurn == ~RequestsEarly

LEMMA NeverAssertsStep ==
    ASSUME RequestsInTurn
    PROVE  CobsInv /\ NeverAsserts /\ [Next]_vars => NeverAsserts'
<1>1. SUFFICES ASSUME CobsInv, NeverAsserts, [Next]_vars
               PROVE  asserted' = FALSE
  BY DEF NeverAsserts
<1>2. asserted \in BOOLEAN /\ asserted = FALSE
  BY <1>1 DEF CobsInv, NeverAsserts
<1>3. CASE RequestSendMessage
  <2>1. PICK places \in Seq(Places) : Connected(log, line, rx, tx, places)
    BY <1>1 DEF CobsInv
  <2>2. tx.requested => tx.outstanding
    BY <2>1 DEF Connected, Sender
  <2>3. ~tx.outstanding /\ ~tx.writer /\ asserted' = (tx.requested \/ (tx.writer /\ ~tx.sending))
    BY <1>3 DEF RequestSendMessage, RequestsInTurn
  <2> QED
    BY <2>2, <2>3
<1>4. CASE ~RequestSendMessage
  <2>1. asserted' = asserted
    BY <1>1, <1>4 DEF Next, vars, Write, WriterReleased, ByteSent, DataReceived, ReaderReleased, ResetSender,
                      SenderRestarts, ResetReceiver, ReceiverRestarts
  <2> QED
    BY <1>2, <2>1
<1> QED
  BY <1>3, <1>4

\* When the layer above requests in turn, no stream is emplaced while it is in use,
\* however resets of either end and requests meet: a reset takes back the request
\* that waits for the message being sent, and the answer to it.
THEOREM StreamsNeverEmplacedTwice ==
    ASSUME RequestsInTurn
    PROVE  Spec => []NeverAsserts
<1>1. Init => NeverAsserts
  BY DEF Init, NeverAsserts
<1>2. CobsInv /\ NeverAsserts /\ [Next]_vars => NeverAsserts'
  BY NeverAssertsStep
<1> QED
  BY <1>1, <1>2, EndsStayConnected, PTL DEF Spec
=============================================================================
