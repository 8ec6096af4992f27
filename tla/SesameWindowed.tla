--------------------------- MODULE SesameWindowed ---------------------------
(***************************************************************************)
(* Two services::SesameWindowed instances on the two ends of a serial      *)
(* line, each on its own SesameCobs: the initialisation handshake, the     *)
(* window that keeps a sender from overrunning the receiver's buffer, and  *)
(* the release of window by the receiver.  Either end may be power cycled  *)
(* or reset at any time.                                                   *)
(*                                                                         *)
(* A packet is its operation, its encoded size and the window it carries.  *)
(* SesameCobs hands over one received packet at a time, keeps the order,   *)
(* and sends one packet at a time.  A packet is on the wire from the       *)
(* moment its stream is filled, and stays there until the other end's      *)
(* SesameCobs forwards it; MessageSent comes before or after that.         *)
(*                                                                         *)
(* maxUsableBufferSize always equals the other's ownBufferSize when it is  *)
(* used.  The state objects of the code are told apart by what is being    *)
(* sent; a state object that has finished sending reacts like no other     *)
(* does, for SetNextState does nothing until its conditions change.        *)
(***************************************************************************)
EXTENDS Naturals, Sequences, FiniteSets, SequencesExt

CONSTANTS
    Peers,          \* the two ends
    OwnBufferSize,  \* ownBufferSize of each: what it announces as its window
    Requests,       \* sizes the applications ask to send
    MaxStarts,      \* bound: how often each end starts or is reset
    Crossing        \* whether an end may start while the other's handshake is under way

Modulus == 65536            \* of uint16_t
Uint16 == 0 .. Modulus - 1

\* SesameCobs::MessageSize
MessageSize(size) == size + size \div 254 + 2

ControlSize == 3                            \* sizeof(PacketReleaseWindow)
ReleaseWindowSize == MessageSize(ControlSize)

ASSUME WindowAssumption ==
    /\ \E p, q \in Peers : p # q /\ Peers = {p, q}
    /\ OwnBufferSize \in [Peers -> Uint16]
    \* bufferSizeForMessage of an empty message; with less, MaxSendMessageSize wraps
    /\ \A p \in Peers : OwnBufferSize[p] >= 2 * MessageSize(1) + ReleaseWindowSize
    /\ Requests \subseteq Nat \ {0}
    /\ MaxStarts \in Nat
    /\ Crossing \in BOOLEAN

Other(p) == CHOOSE q \in Peers : q # p

VARIABLE peers  \* the state of each end, with the packets it has put on the wire

\* MaxSendMessageSize
MaxSendMessageSize(p) ==
    LET usable == IF OwnBufferSize[p] < OwnBufferSize[Other(p)]
                  THEN OwnBufferSize[p] ELSE OwnBufferSize[Other(p)]
    IN  (usable - 1 - ReleaseWindowSize - MessageSize(1)) \div 2

-----------------------------------------------------------------------------
(* Packets.  epoch is history: for init and initResponse the incarnation of *)
(* the sender, for the others the receiver's incarnation known to it.       *)

Packet(op, size, window, epoch) == [op |-> op, size |-> size, window |-> window, epoch |-> epoch]
NoPacket == Packet("none", 0, 0, 0)

PacketInit(p, epoch) == Packet("init", MessageSize(ControlSize), OwnBufferSize[p], epoch)
PacketInitResponse(p, epoch) == Packet("initResponse", MessageSize(ControlSize), OwnBufferSize[p], epoch)
PacketReleaseWindow(window, epoch) == Packet("releaseWindow", ReleaseWindowSize, window, epoch)
PacketMessage(size, epoch) == Packet("message", MessageSize(size + 1), 0, epoch)

\* A peer as its constructor or Reset leaves it: sending an init.
Fresh(p, epoch) ==
    [initialized |-> FALSE,
     window |-> 0,              \* otherAvailableWindow
     released |-> 0,            \* releasedWindow
     sendInitResponse |-> FALSE,
     sending |-> "init",        \* what the state object sends; "no" for ~sending
     size |-> MessageSize(ControlSize), \* of the packet being sent
     requested |-> 0,           \* requestedSendMessageSize, 0 for none
     reader |-> NoPacket,       \* receivedMessageReader
     out |-> <<PacketInit(p, epoch)>>,
     epoch |-> epoch,
     other |-> 0]               \* history: the incarnation of the other it knows of

Off == [Fresh(CHOOSE p \in Peers : TRUE, 0) EXCEPT !.sending = "off", !.out = <<>>]

-----------------------------------------------------------------------------
(* SetNextState, and what it starts to send, as a function of the state s.  *)

\* The state objects' Request, SendMessageStreamAvailable and the filled stream.
SendPacket(s, what, packet) ==
    [s EXCEPT !.sending = what, !.size = packet.size, !.out = Append(@, packet)]

SendInitResponse(p, s) ==
    [SendPacket(s, "initResponse", PacketInitResponse(p, s.epoch)) EXCEPT
        !.released = 0, !.sendInitResponse = FALSE]

SendReleaseWindow(s) ==
    [SendPacket(s, "releaseWindow", PacketReleaseWindow(s.released, s.other)) EXCEPT !.released = 0]

\* The application gets the writer; nothing is sent until it lets go of it.
SendMessageStreamAvailable(s) ==
    [s EXCEPT !.sending = "filling", !.size = s.requested, !.requested = 0]

\* Mutant: the window is not looked at.
MessageFitsAnyWindow(s) == s.requested # 0

MessageFits(s) == s.requested # 0 /\ MessageSize(s.requested + 1) + ReleaseWindowSize <= s.window

\* Mutant: the size of a release is released at once.
ReleaseDueAtOnce(s) == s.released >= ReleaseWindowSize /\ ReleaseWindowSize <= s.window

ReleaseDue(s) == s.released > ReleaseWindowSize /\ ReleaseWindowSize <= s.window

SetNextState(p, s) ==
    IF s.sending # "no" \/ ~s.initialized THEN s
    ELSE IF s.sendInitResponse THEN
        IF s.reader = NoPacket THEN SendInitResponse(p, s) ELSE s
    ELSE IF MessageFits(s) THEN SendMessageStreamAvailable(s)
    ELSE IF ReleaseDue(s) THEN SendReleaseWindow(s)
    ELSE s

-----------------------------------------------------------------------------
(* What SesameCobs and the application call.                                *)

Become(p, s) == peers' = [peers EXCEPT ![p] = s]

RequestSendMessage(p) ==
    /\ peers[p].initialized
    /\ peers[p].requested = 0
    /\ \E size \in Requests :
           /\ size <= MaxSendMessageSize(p)
           /\ Become(p, SetNextState(p, [peers[p] EXCEPT !.requested = size]))

\* The application lets go of the writer after writing up to as much as it asked for.
StreamFilled(p) ==
    /\ peers[p].sending = "filling"
    /\ \E written \in {0, peers[p].size} :
           Become(p, SendPacket(peers[p], "message", PacketMessage(written, peers[p].other)))

\* Init messages do not count against the window.
MessageSent(p) ==
    LET s == peers[p] IN
    /\ s.sending \in {"init", "initResponse", "releaseWindow", "message"}
    /\ Become(p, SetNextState(p,
           [s EXCEPT !.sending = "no", !.size = 0,
                     !.window = IF s.sending = "init" THEN @ ELSE (@ + Modulus - s.size) % Modulus]))

\* The state after ReceivedMessage is called with a packet, up to SetNextState.
ReceivedInit(s, packet) ==
    [s EXCEPT !.window = packet.window, !.other = packet.epoch,
              !.sendInitResponse = TRUE, !.initialized = TRUE]

ReceivedInitResponse(s, packet) ==
    [s EXCEPT !.window = packet.window, !.other = packet.epoch,
              !.released = packet.size, !.initialized = TRUE]

ReceivedReleaseWindow(s, packet) ==
    [s EXCEPT !.released = (@ + packet.size) % Modulus, !.window = (@ + packet.window) % Modulus]

\* Mutant: messages are taken before the handshake is done.
ReceivedUninitialized(s, packet) ==
    CASE packet.op = "init" -> ReceivedInit(s, packet)
      [] packet.op = "initResponse" -> ReceivedInitResponse(s, packet)
      [] packet.op = "releaseWindow" /\ s.initialized -> ReceivedReleaseWindow(s, packet)
      [] packet.op = "message" -> [s EXCEPT !.reader = packet]
      [] OTHER -> s

Received(s, packet) ==
    CASE packet.op = "init" -> ReceivedInit(s, packet)
      [] packet.op = "initResponse" -> ReceivedInitResponse(s, packet)
      [] packet.op = "releaseWindow" /\ s.initialized -> ReceivedReleaseWindow(s, packet)
      [] packet.op = "message" /\ s.initialized -> [s EXCEPT !.reader = packet]
      [] OTHER -> s

\* The other's first packet on the wire is received in the state s of p.
Receive(p, s) ==
    /\ peers[Other(p)].out # <<>>
    /\ peers' = [peers EXCEPT ![p] = SetNextState(p, Received(s, Head(peers[Other(p)].out))),
                              ![Other(p)].out = Tail(@)]

\* SesameCobs takes no packet while the reader of the previous one exists.
ReceivedMessage(p) ==
    /\ peers[p].sending # "off"
    /\ peers[p].reader = NoPacket
    /\ Receive(p, peers[p])

\* Mutant: nobody looks whether window has to be released.
ReaderReleasedSilently(p) ==
    /\ peers[p].reader # NoPacket
    /\ Become(p, [peers[p] EXCEPT !.released = (@ + peers[p].reader.size) % Modulus, !.reader = NoPacket])

\* The application lets go of the reader.  SesameCobs then takes the next packet
\* if it is there already, before SetNextState is called for this one.
ReaderReleased(p) ==
    LET s == peers[p]
        done == [s EXCEPT !.released = (@ + s.reader.size) % Modulus, !.reader = NoPacket]
    IN  /\ s.reader # NoPacket
        /\ \/ Become(p, SetNextState(p, done))
           \/ Receive(p, done)

-----------------------------------------------------------------------------
(* Starting and resetting.                                                  *)

\* No handshake is under way: the other is not sending its part of one, does not
\* owe it, and nothing of one is on the wire, where arriving goes to p.
NoHandshake(p, arriving) ==
    /\ peers[Other(p)].sending \notin {"init", "initResponse"}
    /\ ~peers[Other(p)].sendInitResponse
    /\ \A packet \in Range(peers[p].out \o arriving) : packet.op \notin {"init", "initResponse"}

\* The packets of p on the wire when p stops; the one being sent may be cut.
Remaining(p) ==
    {peers[p].out} \cup
        (IF peers[p].sending \notin {"off", "no", "filling"} /\ peers[p].out # <<>>
         THEN {Front(peers[p].out)} ELSE {})

\* p starts over; of the packets on the wire to p the first ones are lost.
StartOver(p, remaining, arriving) ==
    LET s == Fresh(p, peers[p].epoch + 1) IN
    /\ peers[p].epoch < MaxStarts
    /\ Crossing \/ NoHandshake(p, arriving)
    /\ peers' = [peers EXCEPT ![p] = [s EXCEPT !.out = remaining \o @], ![Other(p)].out = arriving]

\* Power is switched on, or off and on, and SesameWindowed is constructed: what
\* was on its way to p is gone, but for what the serial port, which is up before,
\* has received since.
PowerCycle(p) ==
    \E remaining \in Remaining(p), arriving \in Suffixes(peers[Other(p)].out) :
        StartOver(p, remaining, arriving)

\* Reset, which the application calls without a reader or a writer in its hands.
\* The packet that SesameCobs is receiving is lost, the others remain.
Reset(p) ==
    /\ peers[p].sending \notin {"off", "filling"}
    /\ peers[p].reader = NoPacket
    /\ \E remaining \in Remaining(p) :
           \/ StartOver(p, remaining, peers[Other(p)].out)
           \/ peers[Other(p)].out # <<>> /\ StartOver(p, remaining, Tail(peers[Other(p)].out))

-----------------------------------------------------------------------------

Init == peers = [p \in Peers |-> Off]

Request == \E p \in Peers : RequestSendMessage(p)
Start == \E p \in Peers : PowerCycle(p) \/ Reset(p)

Step(p) == StreamFilled(p) \/ MessageSent(p) \/ ReceivedMessage(p) \/ ReaderReleased(p)

Next == Request \/ Start \/ \E p \in Peers : Step(p)

\* Packets are sent and arrive, and the application lets go of the writers and
\* the readers it is given.
Fairness ==
    \A p \in Peers :
        /\ WF_peers(StreamFilled(p))
        /\ WF_peers(MessageSent(p))
        /\ WF_peers(ReceivedMessage(p))
        /\ WF_peers(ReaderReleased(p))

Spec == Init /\ [][Next]_peers /\ Fairness

-----------------------------------------------------------------------------
(* Properties.                                                              *)

Operations == {"init", "initResponse", "releaseWindow", "message"}
Packets == [op : Operations, size : Uint16, window : Uint16, epoch : 0 .. MaxStarts]

PeerStates ==
    [initialized : BOOLEAN, window : Uint16, released : Uint16, sendInitResponse : BOOLEAN,
     sending : Operations \cup {"off", "no", "filling"}, size : Uint16, requested : Uint16,
     reader : Packets \cup {NoPacket}, out : Seq(Packets), epoch : 0 .. MaxStarts, other : 0 .. MaxStarts]

\* The members keep their types.
TypeOK == peers \in [Peers -> PeerStates]

\* The sum of a sequence of sizes: its bytes, each with the packet it is in, counted.
Total(sizes) == Cardinality(UNION {{i} \X (1 .. sizes[i]) : i \in DOMAIN sizes})

\* The bytes that p's receive buffers must hold: the packet the application is
\* reading, and what is on the wire to p and counts against the window.  What was
\* sent to an earlier incarnation is dropped when it arrives and waits for nobody.
SizeOf(epoch, packet) ==
    IF packet.op = "init" \/ (packet.op # "initResponse" /\ packet.epoch # epoch)
    THEN 0 ELSE packet.size
Flight(out, epoch) == Total([i \in DOMAIN out |-> SizeOf(epoch, out[i])])
Buffered(p) == peers[p].reader.size + Flight(peers[Other(p)].out, peers[p].epoch)

\* What of the window is being used; it is subtracted when the packet is sent.
Sending(s) == IF s.sending \in {"initResponse", "releaseWindow", "message"} THEN s.size ELSE 0

\* A sender never has more bytes under way than the buffer that the receiver
\* announced can hold, nor thinks it may send more than that: this is what the
\* window is for.  A subtraction from it that wraps shows here, too.
ReceiverNeverOverrun ==
    \A p \in Peers :
        /\ peers[p].sending # "off" => Buffered(p) <= OwnBufferSize[p]
        /\ peers[p].window <= OwnBufferSize[Other(p)] + Sending(peers[p])

\* A message is handed to the application only when its sender knew of the
\* current incarnation of the receiver: sessions never mix.
SessionsNeverMix ==
    \A p \in Peers : peers[p].reader # NoPacket => peers[p].reader.epoch = peers[p].epoch

\* Neither end is started a second time.
OneSession == \A p \in Peers : [](peers[p].epoch <= 1)

\* Every message within MaxSendMessageSize that is requested is sent, or dropped
\* by a reset: the window does not dry up.  Not so when an end starts again while
\* a message is sent to it.
RequestsServed == \A p \in Peers : peers[p].requested # 0 ~> peers[p].requested = 0

\* Unless an end starts a second time, every request is served.
EveryRequestServed == OneSession => RequestsServed

\* When the applications have nothing more to say, the line falls silent: releases
\* of window do not keep on causing each other.
FallsSilent ==
    OneSession /\ <>[][~Request]_peers => <>[](\A p \in Peers : peers[p].sending \in {"no", "off"})

=============================================================================
