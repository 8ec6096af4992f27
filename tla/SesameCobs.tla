----------------------------- MODULE SesameCobs -----------------------------
(***************************************************************************)
(* services::SesameCobs: the send half of one end, the serial line, and    *)
(* the receive half of the other end, byte by byte.  A message is sent as  *)
(* frames, each an overhead byte that says how far the next delimiter is,  *)
(* and then that many bytes; the delimiter itself only stands between      *)
(* packets.  Either end may be reset by the layer above it, or power       *)
(* cycled, between any two bytes.                                          *)
(*                                                                         *)
(* The layer above, services::SesameWindowed, has one request outstanding  *)
(* until MessageSent, and requests anew after a Reset.  Each byte on the   *)
(* line carries the number of the message it was sent for, which no action *)
(* looks at: it is there for the properties.                               *)
(***************************************************************************)
EXTENDS Integers, Sequences

CONSTANTS
    MaxFrame,       \* the bytes of a frame, 254 in the code
    Contents,       \* the contents of messages, sequences of bytes
    MaxMessages,    \* bound: how many messages are written
    MaxResets,      \* bound: how often an end is reset or power cycled
    LineRoom,       \* bound: how many bytes the receiver may be behind
    RequestsEarly   \* whether the layer above requests while it has the writer of before

messageDelimiter == 0

ASSUME CobsAssumption ==
    /\ MaxFrame \in Nat \ {0}
    /\ <<>> \notin Contents /\ Contents \subseteq Seq(0 .. MaxFrame + 1)
    /\ MaxMessages \in Nat /\ MaxResets \in Nat /\ LineRoom \in Nat \ {0}
    /\ RequestsEarly \in BOOLEAN

VARIABLES
    tx,         \* the members of the sending SesameCobs
    line,       \* the bytes under way
    rx,         \* the members of the receiving SesameCobs
    log,        \* history: for each message its contents, the size reported, whether it was cut
    received,   \* history: what was forwarded last
    resets,     \* how often an end was reset or power cycled
    asserted    \* an assertion failed

vars == <<tx, line, rx, log, received, resets, asserted>>

-----------------------------------------------------------------------------
(* The send half, as functions of tx.                                       *)

FreshSender ==
    [requested    |-> FALSE,    \* sendReqestedSize
     writer       |-> FALSE,    \* sendStream is in use
     onRelease    |-> "send",   \* what OnAllocatable of sendStream does
     storage      |-> <<>>,     \* sendStorage
     dataToSend   |-> <<>>,
     frameSize    |-> 0,
     first        |-> TRUE,     \* sendingFirstPacket
     sending      |-> FALSE,    \* sendingUserData
     resetting    |-> FALSE,
     size         |-> 0,        \* sendSizeEncoded
     serial       |-> <<>>,     \* what the serial port has still to send
     callback     |-> "none",   \* and what it calls then
     outstanding  |-> FALSE]    \* the layer above waits for MessageSent

SendData(t, bytes, callback) ==
    [t EXCEPT !.serial = bytes, !.callback = callback, !.size = @ + Len(bytes)]

CheckReadyToSendUserData(t) ==
    IF ~t.sending /\ t.requested THEN [t EXCEPT !.requested = FALSE, !.writer = TRUE] ELSE t

\* Mutant: what was requested meanwhile is forgotten.
MutFinishReset(t) == [t EXCEPT !.resetting = FALSE, !.sending = FALSE, !.size = 0, !.callback = "none"]

FinishReset(t) ==
    CheckReadyToSendUserData([t EXCEPT !.resetting = FALSE, !.sending = FALSE, !.size = 0, !.callback = "none"])

\* The number of bytes before the first delimiter, in one frame at most
FindDelimiter(data) ==
    LET most == IF Len(data) < MaxFrame THEN Len(data) ELSE MaxFrame
    IN  CHOOSE k \in 0 .. most :
            /\ \A i \in 1 .. k : data[i] # messageDelimiter
            /\ k = most \/ data[k + 1] = messageDelimiter

SendFrame(t) ==
    LET frameSize == FindDelimiter(t.dataToSend) + 1
    IN  SendData([t EXCEPT !.frameSize = frameSize], <<frameSize>>, "overhead")

SendOrDone(t) ==
    CASE t.resetting -> FinishReset(t)
      [] ~t.resetting /\ t.dataToSend = <<>> -> SendData(t, <<messageDelimiter>>, "last")
      [] OTHER -> SendFrame(t)

MessageSize(size) == size + size \div MaxFrame + 2

DiscardHead(data, n) == SubSeq(data, n + 1, Len(data))

SendFrameDone(t) ==
    LET rest == DiscardHead(t.dataToSend, t.frameSize)
    IN  IF rest = <<>> \/ t.frameSize = MaxFrame
        THEN SendOrDone([t EXCEPT !.dataToSend = rest])
        ELSE SendFrame([t EXCEPT !.dataToSend = Tail(rest)])

OverheadSent(t) ==
    CASE t.resetting -> FinishReset([t EXCEPT !.frameSize = @ - 1])
      [] ~t.resetting /\ t.frameSize > 1 ->
            SendData([t EXCEPT !.frameSize = @ - 1], SubSeq(t.dataToSend, 1, t.frameSize - 1), "data")
      [] OTHER -> SendFrameDone([t EXCEPT !.frameSize = @ - 1])

\* The packet is complete, and MessageSent is called.
LastDelimiterSent(t) ==
    IF t.resetting
    THEN FinishReset(t)
    ELSE CheckReadyToSendUserData([t EXCEPT !.storage = <<>>, !.dataToSend = <<>>, !.size = 0,
                                            !.sending = FALSE, !.callback = "none", !.outstanding = FALSE])

\* Mutant: nothing separates the packet from the remains before it.
MutSendStreamFilled(t) == SendOrDone([t EXCEPT !.sending = TRUE, !.dataToSend = t.storage, !.first = FALSE])

SendStreamFilled(t) ==
    LET u == [t EXCEPT !.sending = TRUE, !.dataToSend = t.storage]
    IN  IF t.first THEN SendData([u EXCEPT !.first = FALSE], <<messageDelimiter>>, "first") ELSE SendOrDone(u)

-----------------------------------------------------------------------------
(* The actions of the sending end.                                          *)

Running == ~asserted

\* There is one request at a time, and a stream that is in use cannot be emplaced.
RequestSendMessage ==
    /\ Running /\ ~tx.outstanding /\ Len(log) < MaxMessages
    /\ RequestsEarly \/ ~tx.writer
    /\ asserted' = (tx.requested \/ (tx.writer /\ ~tx.sending))
    /\ tx' = CheckReadyToSendUserData([tx EXCEPT !.requested = TRUE, !.outstanding = TRUE])
    /\ UNCHANGED <<line, rx, log, received, resets>>

\* The layer above has written its message and lets go of the writer.
WriterReleased(contents) ==
    /\ Running /\ tx.writer
    /\ IF tx.onRelease = "send"
       THEN /\ tx' = SendStreamFilled([tx EXCEPT !.writer = FALSE, !.storage = contents])
            /\ log' = Append(log, [contents |-> contents, first |-> tx.first, size |-> 0, cut |-> FALSE])
       ELSE /\ tx' = [tx EXCEPT !.writer = FALSE, !.storage = <<>>, !.onRelease = "send"]
            /\ UNCHANGED log
    /\ UNCHANGED <<line, rx, received, resets, asserted>>

\* The serial port sends a byte, and after the last one calls back.
ByteSent ==
    LET t == [tx EXCEPT !.serial = Tail(@)]
    IN
    /\ Running /\ tx.serial # <<>> /\ Len(line) < LineRoom
    /\ line' = Append(line, [byte |-> Head(tx.serial), message |-> Len(log)])
    /\ tx' = IF t.serial # <<>> THEN t
             ELSE CASE t.callback = "first"    -> SendOrDone(t)
                    [] t.callback = "overhead" -> OverheadSent(t)
                    [] t.callback = "data"     -> SendFrameDone(t)
                    [] t.callback = "last"     -> LastDelimiterSent(t)
    /\ log' = IF t.callback = "last" /\ ~t.resetting THEN [log EXCEPT ![Len(log)].size = tx.size] ELSE log
    /\ UNCHANGED <<rx, received, resets, asserted>>

\* The message being sent, if any, will not be completed.
CutMessage == IF tx.sending THEN [log EXCEPT ![Len(log)].cut = TRUE] ELSE log

SomeReset == Running /\ resets < MaxResets /\ resets' = resets + 1

\* Mutant: the request outlives the reset.
MutResetSender ==
    /\ SomeReset
    /\ LET t == [tx EXCEPT !.storage = IF tx.writer THEN @ ELSE <<>>,
                           !.onRelease = IF tx.writer THEN "clear" ELSE @,
                           !.first = TRUE, !.outstanding = FALSE]
       IN  tx' = IF t.sending THEN [t EXCEPT !.resetting = TRUE] ELSE FinishReset(t)
    /\ log' = CutMessage
    /\ UNCHANGED <<line, rx, received, asserted>>

ResetSender ==
    /\ SomeReset
    /\ LET t == [tx EXCEPT !.storage = IF tx.writer THEN @ ELSE <<>>,
                           !.onRelease = IF tx.writer THEN "clear" ELSE @,
                           !.first = TRUE, !.requested = FALSE, !.outstanding = FALSE]
       IN  tx' = IF t.sending THEN [t EXCEPT !.resetting = TRUE] ELSE FinishReset(t)
    /\ log' = CutMessage
    /\ UNCHANGED <<line, rx, received, asserted>>

SenderRestarts ==
    /\ SomeReset
    /\ tx' = FreshSender
    /\ log' = CutMessage
    /\ UNCHANGED <<line, rx, received, asserted>>

-----------------------------------------------------------------------------
(* The receive half.                                                        *)

FreshReceiver ==
    [nextOverhead |-> 1,
     pseudo       |-> TRUE,     \* overheadPositionIsPseudo
     message      |-> <<>>,     \* receivedMessage
     size         |-> 0,        \* currentMessageSize
     encoded      |-> 0,        \* receiveSizeEncoded
     reader       |-> 0,        \* the size of the message whose reader is in use
     from         |-> {},       \* history: the messages whose bytes are in the packet
     counted      |-> {}]       \* history: and those whose bytes are in encoded

ReceivedPayload(r, byte) == [r EXCEPT !.message = Append(@, byte), !.size = @ + 1]

\* FinishMessage forwards a message that is not empty.
MessageBoundary(r) ==
    LET u == [r EXCEPT !.encoded = @ + 1, !.nextOverhead = 1, !.pseudo = TRUE, !.from = {}]
    IN  IF r.size = 0 THEN u ELSE [u EXCEPT !.size = 0, !.reader = r.size, !.encoded = 0, !.counted = {}]

\* Mutant: the overhead is not counted.
MutExtractOverhead(r, byte) ==
    LET u == [r EXCEPT !.nextOverhead = byte, !.pseudo = (byte = MaxFrame + 1)]
    IN  CASE byte = messageDelimiter                -> MessageBoundary(r)
          [] byte # messageDelimiter /\ r.pseudo    -> u
          [] OTHER                                  -> ReceivedPayload(u, messageDelimiter)

ExtractOverhead(r, byte) ==
    LET u == [r EXCEPT !.encoded = @ + 1, !.nextOverhead = byte, !.pseudo = (byte = MaxFrame + 1)]
    IN  CASE byte = messageDelimiter                -> MessageBoundary(r)
          [] byte # messageDelimiter /\ r.pseudo    -> u
          [] OTHER                                  -> ReceivedPayload(u, messageDelimiter)

\* Mutant: a delimiter within a frame is data.
MutExtractData(r, byte) == ReceivedPayload([r EXCEPT !.encoded = @ + 1, !.nextOverhead = @ - 1], byte)

ExtractData(r, byte) ==
    IF byte = messageDelimiter
    THEN MessageBoundary(r)
    ELSE ReceivedPayload([r EXCEPT !.encoded = @ + 1, !.nextOverhead = @ - 1], byte)

\* DataReceived takes bytes as long as no reader is in use.  The ranges in which
\* it takes them make no difference.
DataReceived ==
    LET byte == Head(line).byte
        m == Head(line).message
        r == [rx EXCEPT !.from = IF byte = messageDelimiter THEN @ ELSE @ \cup {m}, !.counted = @ \cup {m}]
        u == IF r.nextOverhead = 1 THEN ExtractOverhead(r, byte) ELSE ExtractData(r, byte)
    IN
    /\ Running /\ rx.reader = 0 /\ line # <<>>
    /\ line' = Tail(line)
    /\ rx' = u
    /\ received' = IF u.reader = 0 THEN received
                   ELSE [contents |-> SubSeq(u.message, 1, u.reader), from |-> r.from,
                         encoded |-> r.encoded + 1, counted |-> r.counted]
    /\ UNCHANGED <<tx, log, resets, asserted>>

\* The reader's release erases the message and goes on with what has arrived.
ReaderReleased ==
    /\ Running /\ rx.reader # 0
    /\ rx' = [rx EXCEPT !.message = DiscardHead(@, rx.reader), !.reader = 0]
    /\ UNCHANGED <<tx, line, log, received, resets, asserted>>

\* The messages a part of which the receiving end has taken already
Begun == [m \in DOMAIN log |-> IF m \in rx.counted THEN [log[m] EXCEPT !.cut = TRUE] ELSE log[m]]

\* Reset of the receiving end, whose layer above asserts that it has no reader
ResetReceiver ==
    /\ SomeReset /\ rx.reader = 0
    /\ rx' = FreshReceiver
    /\ log' = Begun
    /\ UNCHANGED <<tx, line, received, asserted>>

\* A power cycle also loses the bytes that have arrived at the serial port.
ReceiverRestarts ==
    /\ SomeReset
    /\ rx' = FreshReceiver
    /\ line' = <<>>
    /\ log' = [m \in DOMAIN log |->
                   IF \E i \in DOMAIN line : line[i].message = m THEN [log[m] EXCEPT !.cut = TRUE] ELSE Begun[m]]
    /\ UNCHANGED <<tx, received, asserted>>

-----------------------------------------------------------------------------

Init ==
    /\ tx = FreshSender /\ rx = FreshReceiver
    /\ line = <<>> /\ log = <<>>
    /\ received = [contents |-> <<>>, from |-> {}, encoded |-> 0, counted |-> {}]
    /\ resets = 0 /\ asserted = FALSE

Write == \E contents \in Contents : WriterReleased(contents)

Next ==
    \/ RequestSendMessage \/ Write \/ ByteSent
    \/ DataReceived \/ ReaderReleased
    \/ ResetSender \/ SenderRestarts \/ ResetReceiver \/ ReceiverRestarts

\* The serial ports keep going, and the layers above let go of writers and readers.
Fairness ==
    WF_vars(Write) /\ WF_vars(ByteSent) /\ WF_vars(DataReceived \/ ReaderReleased)

Spec == Init /\ [][Next]_vars /\ Fairness

-----------------------------------------------------------------------------
(* Properties.                                                              *)

\* No stream is emplaced while it is in use, however resets and requests meet
\* (SharedOptional::Emplace asserts it).
NeverAsserts == ~asserted

\* What is forwarded comes from one message, whatever was cut before it, and when
\* that message was not itself cut, it is exactly what was written.
ForwardedIntact ==
    \A m \in received.from :
        /\ received.from = {m}
        /\ ~log[m].cut => received.contents = log[m].contents

\* The sizes by which SesameWindowed charges its window and releases it add up: a
\* message takes no more of the line than MessageSize announced, but for the
\* delimiter before the first one after a reset; and the size that is given with
\* it to the receiver is the one that MessageSent gave the sender, unless remains
\* of a cut message count in it.  The first delimiter after a reset may count for
\* the remains it ends.
SizesAddUp ==
    /\ \A m \in DOMAIN log : log[m].size <= MessageSize(Len(log[m].contents)) + (IF log[m].first THEN 1 ELSE 0)
    /\ \A m \in received.from :
           received.counted = {m} /\ ~log[m].cut =>
               \/ received.encoded = log[m].size
               \/ log[m].first /\ received.encoded + 1 = log[m].size

\* Every message that neither end cuts is forwarded.
EveryMessageForwarded ==
    \A m \in 1 .. MaxMessages :
        m \in DOMAIN log ~> (\E n \in received.from : m <= n) \/ (m \in DOMAIN log /\ log[m].cut)

\* Every request ends in MessageSent or in a reset of the sending end.
EveryRequestAnswered == tx.outstanding ~> ~tx.outstanding
=============================================================================
