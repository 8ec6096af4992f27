-------------------------------- MODULE Echo --------------------------------
(***************************************************************************)
(* services::EchoOnSesame on the two ends of a Sesame connection: the      *)
(* proxies and the send side of EchoOnStreams on one end, its receive side *)
(* and a service on the other.  Either end may be power cycled, or reset   *)
(* by its application, at any time.                                        *)
(*                                                                         *)
(* A method is a header and a number of pieces of contents; a Sesame       *)
(* message carries at most MaxPieces of one method.  Sesame is what the    *)
(* module SesameWindowed shows of it: messages arrive in order, one at a   *)
(* time; those sent to an earlier session are dropped; a handshake calls   *)
(* Initialized on both ends; a request outlives the handshake that the     *)
(* other end starts, but not a Reset.  Callbacks run in the call that      *)
(* causes them, so a call with all it causes is one step.                  *)
(***************************************************************************)
EXTENDS Integers, Sequences, FiniteSets, SequencesExt

CONSTANTS
    Proxies,        \* the proxies of the sending end
    NoProxy,        \* sendingProxy == nullptr
    Sizes,          \* the sizes of methods: pieces of contents behind the header
    MaxPieces,      \* pieces that fit a Sesame message
    MaxMethods,     \* bound: how many methods are sent
    MaxStarts,      \* bound: how often an end starts over
    ResetsWhenBusy, \* whether applications call Reset while a method is sent or read
    LateDone        \* whether a service may finish a method of an earlier session

ASSUME EchoAssumption ==
    /\ NoProxy \notin Proxies
    /\ Sizes \subseteq Nat /\ MaxPieces \in Nat \ {0}
    /\ MaxMethods \in Nat /\ MaxStarts \in Nat
    /\ ResetsWhenBusy \in BOOLEAN /\ LateDone \in BOOLEAN

VARIABLES
    snd,        \* the members of the sending EchoOnSesame
    onGranted,  \* the proxies that wait for their grant
    wire,       \* the messages between the ends
    handshake,  \* the handshake under way
    rcv,        \* the members of the receiving EchoOnSesame, and its service
    crashed,    \* an assertion fails, a null pointer is used, or a message is misread
    methods,    \* history: how many methods were sent
    starts      \* how often an end started over

vars == <<snd, onGranted, wire, handshake, rcv, crashed, methods, starts>>

Piece(m, size, i) == [method |-> m, size |-> size, index |-> i]
MethodPieces(m, size) == [i \in 1 .. size + 1 |-> Piece(m, size, i - 1)]

Message(pieces) == [type |-> "message", pieces |-> pieces]
Control(type) == [type |-> type, pieces |-> <<>>]

Least(x, y) == IF x <= y THEN x ELSE y

-----------------------------------------------------------------------------
(* The send side: EchoOnStreams and EchoOnSesame, as functions of snd.      *)

FreshSender ==
    [requesters  |-> <<>>,      \* sendRequesters
     sending     |-> NoProxy,   \* sendingProxy
     serializer  |-> <<>>,      \* methodSerializer: the pieces it still has to write
     partlySent  |-> FALSE,
     skip        |-> FALSE,     \* skipNextStream
     requested   |-> FALSE,     \* requestedSize
     initialized |-> FALSE,
     sesame      |-> FALSE]     \* a RequestSendMessage that Sesame has to answer

RequestSendStream(s) ==
    IF s.initialized THEN [s EXCEPT !.sesame = TRUE] ELSE [s EXCEPT !.requested = TRUE]

TryGrantSend(s) ==
    IF ~s.skip /\ s.sending = NoProxy /\ s.requesters # <<>>
    THEN RequestSendStream([s EXCEPT !.sending = Head(s.requesters), !.requesters = Tail(@)])
    ELSE s

\* Mutant: the stream that was requested for the rest of the message is not skipped.
MutSenderInitialized(s) ==
    LET t == IF s.partlySent
             THEN [s EXCEPT !.initialized = TRUE, !.sending = NoProxy, !.serializer = <<>>]
             ELSE [s EXCEPT !.initialized = TRUE]
    IN  IF t.requested THEN RequestSendStream([t EXCEPT !.requested = FALSE]) ELSE t

\* Mutant: what was requested before the handshake is not requested after it.
MutSenderForgets(s) ==
    IF s.partlySent
    THEN [s EXCEPT !.initialized = TRUE, !.sending = NoProxy, !.serializer = <<>>, !.skip = TRUE]
    ELSE [s EXCEPT !.initialized = TRUE]

\* EchoOnSesame::Initialized with the send half of EchoOnStreams::Initialized
SenderInitialized(s) ==
    LET t == IF s.partlySent
             THEN [s EXCEPT !.initialized = TRUE, !.sending = NoProxy, !.serializer = <<>>, !.skip = TRUE]
             ELSE [s EXCEPT !.initialized = TRUE]
    IN  IF t.requested THEN RequestSendStream([t EXCEPT !.requested = FALSE]) ELSE t

Running == crashed = "no"

\* ServiceProxy::RequestSend and EchoOnStreams::RequestSend
RequestSend(p) ==
    /\ Running /\ p \notin onGranted /\ methods + Cardinality(onGranted) < MaxMethods
    /\ onGranted' = onGranted \cup {p}
    /\ snd' = TryGrantSend([snd EXCEPT !.requesters = Append(@, p)])
    /\ UNCHANGED <<wire, handshake, rcv, crashed, methods, starts>>

\* ~ServiceProxy and CancelRequestSend, of a proxy that waits
CancelRequestSend(p) ==
    /\ Running /\ p \in onGranted
    /\ onGranted' = onGranted \ {p}
    /\ IF Contains(snd.requesters, p)
       THEN /\ snd' = [snd EXCEPT !.requesters = RemoveAt(@, CHOOSE i \in DOMAIN @ : @[i] = p)]
            /\ UNCHANGED crashed
       ELSE /\ crashed' = IF snd.sending = p THEN "no" ELSE "assertion"
            /\ snd' = [snd EXCEPT !.sending = NoProxy, !.skip = TRUE]
    /\ UNCHANGED <<wire, handshake, rcv, methods, starts>>

\* SendStreamAvailable: the stream is skipped, or the serializer, that of a new
\* method of this size when there is none, writes what fits.
SendStreamAvailable(size) ==
    LET s == [snd EXCEPT !.sesame = FALSE]
        granting == s.serializer = <<>>
        pieces == IF granting THEN MethodPieces(methods + 1, size) ELSE s.serializer
        n == Least(MaxPieces, Len(pieces))
        rest == SubSeq(pieces, n + 1, Len(pieces))
        t == [s EXCEPT !.serializer = rest, !.partlySent = (rest # <<>>)]
    IN
    /\ Running /\ snd.sesame /\ snd.initialized
    /\ Len(wire) < 2
    /\ IF snd.skip
       THEN /\ snd' = TryGrantSend([s EXCEPT !.skip = FALSE])
            /\ wire' = Append(wire, Message(<<>>))
            /\ UNCHANGED <<onGranted, methods, crashed>>
       ELSE /\ snd' = IF t.partlySent THEN RequestSendStream(t)
                                      ELSE TryGrantSend([t EXCEPT !.sending = NoProxy])
            /\ wire' = Append(wire, Message(SubSeq(pieces, 1, n)))
            /\ onGranted' = IF granting THEN onGranted \ {snd.sending} ELSE onGranted
            /\ methods' = IF granting THEN methods + 1 ELSE methods
            /\ crashed' = IF granting /\ snd.sending = NoProxy THEN "null" ELSE "no"
    /\ UNCHANGED <<handshake, rcv, starts>>

-----------------------------------------------------------------------------
(* The receive side, as functions of rcv.  r.stream is what bufferedReader  *)
(* still has: what was buffered, and then the r.left pieces of the reader.  *)

FreshReceiver ==
    [initialized  |-> FALSE,
     open         |-> FALSE,    \* readerPtr != nullptr
     stream       |-> <<>>,     \* bufferedReader
     left         |-> 0,
     buffer       |-> <<>>,     \* receiveBuffer, when there is no bufferedReader
     limit        |-> -1,       \* what limitedReader has left, -1 when there is none
     held         |-> FALSE,    \* limitedReaderAccess.Referenced()
     deserializer |-> "none",   \* methodDeserializer
     busy         |-> 0,        \* the methods the service is executing
     got          |-> <<>>,     \* history: the pieces of the method in reception
     executed     |-> 0,        \* history: the method executed last
     crashed      |-> "no"]

\* bufferedReader = std::nullopt buffers the remainder
CloseReader(r) ==
    IF r.open THEN [r EXCEPT !.open = FALSE, !.buffer = r.stream, !.stream = <<>>, !.left = 0] ELSE r

Extracted(r, n) ==
    [r EXCEPT !.stream = SubSeq(@, n + 1, Len(@)),
              !.left = Least(@, Len(r.stream) - n),
              !.got = @ \o SubSeq(r.stream, 1, n)]

\* StartReceiveMessage with StartMethod
StartReceiveMessage(r) ==
    CASE r.stream = <<>> -> CloseReader(r)
      [] r.stream # <<>> /\ Head(r.stream).index = 0 ->
            Extracted([r EXCEPT !.limit = Head(r.stream).size, !.deserializer = "collecting", !.got = <<>>], 1)
      [] OTHER -> [r EXCEPT !.crashed = "misread", !.open = FALSE]

LimitedReaderDone(r) ==
    IF r.limit = 0
    THEN [r EXCEPT !.limit = -1, !.deserializer = "executing", !.busy = @ + 1, !.executed = Head(r.got).method]
    ELSE r

\* ContinueReceiveMessage: the deserializer takes all there is, or holds on to
\* the reader.
ContinueReceiveMessage(r, hold) ==
    LET n == Least(r.limit, Len(r.stream))
    IN
    CASE r.deserializer = "none" -> [r EXCEPT !.crashed = "null", !.open = FALSE]
      [] r.deserializer # "none" /\ hold -> [r EXCEPT !.held = TRUE]
      [] OTHER -> LimitedReaderDone([Extracted(r, n) EXCEPT !.limit = @ - n])

\* A method in reception goes on.
ContinueMethod(r, hold) == IF r.limit # -1 /\ r.open THEN ContinueReceiveMessage(r, hold) ELSE r

\* A method is received when there is data and none is in reception or executed.
ReceiveMethod(r, hold) ==
    IF r.open /\ r.deserializer = "none" /\ ~r.held
    THEN ContinueMethod(IF r.limit = -1 THEN StartReceiveMessage(r) ELSE r, hold)
    ELSE r

CloseWhenEmpty(r) == IF r.open /\ r.left = 0 /\ ~r.held THEN CloseReader(r) ELSE r

Received(r) == rcv' = [r EXCEPT !.crashed = "no"] /\ crashed' = r.crashed

\* DataReceived, from r on.  Messages of a Sesame connection have pieces of one
\* method, so the loop runs at most twice.
DataReceived(r, hold) ==
    \E a \in {ContinueMethod(r, hold)} :
    \E b \in {ReceiveMethod(a, hold)} :
    \E c \in {ReceiveMethod(b, hold)} :
        Received(CloseWhenEmpty(c))

\* Mutant: the message in reception stays in reception.
MutReceiverInitialized(r) == [CloseReader(r) EXCEPT !.initialized = TRUE]

\* EchoOnSesame::Initialized with the receive half of EchoOnStreams::Initialized
ReceiverInitialized(r) ==
    [CloseReader(r) EXCEPT !.initialized = TRUE, !.limit = -1, !.deserializer = "none"]

\* ReceivedMessage: Sesame forwards a message when the reader of the last one
\* is gone, and drops it before the handshake.
ReceivedMessage(hold) ==
    /\ Running /\ wire # <<>> /\ Head(wire).type = "message"
    /\ ~rcv.open /\ ~rcv.held
    /\ wire' = Tail(wire)
    /\ IF rcv.initialized
       THEN DataReceived([rcv EXCEPT !.open = TRUE,
                                     !.stream = rcv.buffer \o Head(wire).pieces,
                                     !.left = Len(Head(wire).pieces),
                                     !.buffer = <<>>], hold)
       ELSE UNCHANGED <<rcv, crashed>>
    /\ UNCHANGED <<snd, onGranted, handshake, methods, starts>>

\* The deserializer reads n pieces and lets go of the reader.
ReaderReleased(n, hold) ==
    /\ Running /\ rcv.held
    /\ n <= Least(rcv.limit, Len(rcv.stream))
    /\ LET t == [rcv EXCEPT !.held = FALSE]
       IN  IF rcv.open
           THEN DataReceived(LimitedReaderDone([Extracted(t, n) EXCEPT !.limit = @ - n]), hold)
           ELSE Received(t)
    /\ UNCHANGED <<snd, onGranted, wire, handshake, methods, starts>>

\* Mutant: the data that waits is not received.
MutMethodDone(hold) ==
    /\ Running /\ rcv.busy > 0
    /\ Received([rcv EXCEPT !.busy = @ - 1, !.deserializer = "none"])
    /\ UNCHANGED <<snd, onGranted, wire, handshake, methods, starts>>

\* Service::MethodDone and ServiceDone
MethodDone(hold) ==
    /\ Running /\ rcv.busy > 0
    /\ LET r == [rcv EXCEPT !.busy = @ - 1, !.deserializer = "none"]
       IN  IF r.open THEN DataReceived(r, hold) ELSE Received(r)
    /\ UNCHANGED <<snd, onGranted, wire, handshake, methods, starts>>

-----------------------------------------------------------------------------
(* Starting over, and the handshakes of Sesame.                             *)

StartsOver == Running /\ handshake = "none" /\ starts < MaxStarts /\ starts' = starts + 1

\* The sending end is power cycled: what it has on the wire may be cut.
SenderRestarts ==
    /\ StartsOver
    /\ snd' = FreshSender
    /\ onGranted' = {}
    /\ \E n \in 0 .. Len(wire) : wire' = Append(SubSeq(wire, 1, n), Control("init"))
    /\ handshake' = "sender"
    /\ UNCHANGED <<rcv, crashed, methods>>

ReceiverRestarts ==
    /\ StartsOver
    /\ rcv' = [FreshReceiver EXCEPT !.executed = rcv.executed]
    /\ handshake' = "receiver"
    /\ UNCHANGED <<snd, onGranted, wire, crashed, methods>>

\* EchoOnSesame::Reset on the sending end
SenderResets ==
    /\ StartsOver /\ (ResetsWhenBusy \/ (snd.sending = NoProxy /\ ~snd.skip))
    /\ snd' = [snd EXCEPT !.initialized = FALSE, !.requested = FALSE, !.sesame = FALSE]
    /\ wire' = Append(wire, Control("init"))
    /\ handshake' = "sender"
    /\ UNCHANGED <<onGranted, rcv, crashed, methods>>

\* EchoOnSesame::Reset on the receiving end, with ReleaseReader
ReceiverResets ==
    /\ StartsOver /\ (ResetsWhenBusy \/ ~rcv.open)
    /\ rcv' = [CloseReader(rcv) EXCEPT !.initialized = FALSE]
    /\ handshake' = "receiver"
    /\ UNCHANGED <<snd, onGranted, wire, crashed, methods>>

\* The other end receives the init, when its reader is gone, and answers; the
\* answer goes behind what is on the wire.
InitReachesReceiver ==
    /\ Running /\ wire # <<>> /\ Head(wire).type = "init"
    /\ ~rcv.open /\ ~rcv.held /\ (LateDone \/ rcv.busy = 0)
    /\ wire' = Tail(wire)
    /\ rcv' = ReceiverInitialized(rcv)
    /\ handshake' = "senderAnswered"
    /\ UNCHANGED <<snd, onGranted, crashed, methods, starts>>

InitResponseReachesSender ==
    /\ Running /\ handshake = "senderAnswered"
    /\ snd' = SenderInitialized(snd)
    /\ handshake' = "none"
    /\ UNCHANGED <<onGranted, wire, rcv, crashed, methods, starts>>

InitReachesSender ==
    /\ Running /\ handshake = "receiver"
    /\ snd' = SenderInitialized(snd)
    /\ wire' = Append(wire, Control("initResponse"))
    /\ handshake' = "receiverAnswered"
    /\ UNCHANGED <<onGranted, rcv, crashed, methods, starts>>

InitResponseReachesReceiver ==
    /\ Running /\ wire # <<>> /\ Head(wire).type = "initResponse"
    /\ ~rcv.open /\ ~rcv.held /\ (LateDone \/ rcv.busy = 0)
    /\ wire' = Tail(wire)
    /\ rcv' = ReceiverInitialized(rcv)
    /\ handshake' = "none"
    /\ UNCHANGED <<snd, onGranted, crashed, methods, starts>>

-----------------------------------------------------------------------------

Init ==
    /\ snd = FreshSender /\ rcv = FreshReceiver
    /\ onGranted = {}
    /\ wire = <<Control("init")>> /\ handshake = "sender"
    /\ crashed = "no"
    /\ methods = 0 /\ starts = 0

Connection ==
    \/ InitReachesReceiver \/ InitResponseReachesSender
    \/ InitReachesSender \/ InitResponseReachesReceiver
Send == \E size \in Sizes : SendStreamAvailable(size)
Receive == \E hold \in BOOLEAN : ReceivedMessage(hold)
Release == \E hold \in BOOLEAN, n \in 0 .. MaxPieces : ReaderReleased(n, hold)
Done == \E hold \in BOOLEAN : MethodDone(hold)

Next ==
    \/ \E p \in Proxies : RequestSend(p) \/ CancelRequestSend(p)
    \/ Send \/ Receive \/ Release \/ Done
    \/ Connection
    \/ SenderRestarts \/ ReceiverRestarts \/ SenderResets \/ ReceiverResets

\* Sesame answers requests, delivers messages and completes its handshakes, and
\* the service reads to the end, lets go of the reader, and finishes methods.
ReadAll == ReaderReleased(Least(rcv.limit, Len(rcv.stream)), FALSE)

Fairness == WF_vars(Send) /\ WF_vars(Receive \/ ReadAll \/ Done) /\ WF_vars(Connection)

Spec == Init /\ [][Next]_vars /\ Fairness

-----------------------------------------------------------------------------
(* Properties.                                                              *)

\* No call ever fails an assertion, uses a deserializer that is gone, or takes
\* pieces from the middle of a method for its header, whenever an end starts over.
NeverCrashes == crashed = "no"

\* One method at a time is executed, with all its pieces, in order, and no others.
ExecutedWhole ==
    /\ rcv.busy <= 1
    /\ rcv.deserializer = "executing" =>
           rcv.got = MethodPieces(Head(rcv.got).method, Head(rcv.got).size)

\* Every proxy that waits is granted (or destroyed, or lost with its end).
EveryRequestGranted ==
    \A p \in Proxies : p \in onGranted ~> p \notin onGranted

\* Unless an end starts over, every method that is granted is executed.
EveryMethodExecuted ==
    \A m \in 1 .. MaxMethods :
        methods >= m ~> rcv.executed >= m \/ starts > 0

=============================================================================
