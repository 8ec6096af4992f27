--------------------------- MODULE InterruptQueues ---------------------------
(***************************************************************************)
(* The two byte queues between an interrupt and the event dispatcher, each *)
(* with the code that fills and empties it:                                *)
(*   "irqWriter"  infra::QueueForOneReaderOneIrqWriter, filled by a serial *)
(*                port and emptied by services::TerminalBase or through    *)
(*                its StreamReader;                                        *)
(*   "atomic"     infra::AtomicByteQueue with infra::AtomicTriggerScheduler *)
(*                in hal::BufferedSerialCommunicationOnUnbuffered.         *)
(*                                                                         *)
(* Every access of one side to what the other side writes is a step.  The  *)
(* writer is an interrupt, which the reader does not run within, or, with  *)
(* the serial ports of hal/unix and hal/windows, a thread.  Bytes are      *)
(* numbered in the order in which they are written.                        *)
(***************************************************************************)
EXTENDS Naturals, Sequences

CONSTANTS
    N,          \* the size of the storage, one more than the queue holds
    MaxRange,   \* the most bytes one interrupt brings
    MaxBytes,   \* bound: how many bytes are written
    Threaded    \* the queues whose writer is a thread of its own, as on a host

ASSUME QueueAssumption ==
    /\ N \in Nat /\ N >= 2
    /\ MaxRange \in Nat \ {0} /\ MaxBytes \in Nat
    /\ Threaded \subseteq {"irqWriter", "atomic"}

VARIABLES
    kind,       \* which of the two queues
    storage,    \* buffer, storage
    b,          \* contentsBegin, b: an offset in the storage; N is its end
    e,          \* contentsEnd, e
    flag,       \* notificationScheduled, AtomicTriggerScheduler::scheduled
    pending,    \* actions of the queue that wait in the event dispatcher
    irq,        \* the writer: where it is, the bytes still to copy, the begin it loaded
    main,       \* the reader: where it is, the offset and what is available of its stream
    aborted     \* an assertion failed

VARIABLES
    published,  \* history: how many bytes were made available
    consumed,   \* history: how many bytes were released by the reader
    arrived     \* history: how many bytes the writer was given

queueVars == <<kind, storage, b, e, flag, pending, irq, main, aborted>>
vars == <<queueVars, published, consumed, arrived>>

-----------------------------------------------------------------------------
(* Size, Full, Empty and the contiguous ranges.                             *)

\* Both compute the size from one value of each pointer.
Size(begin, end) == IF begin <= end THEN end - begin ELSE N + end - begin
Empty == b = e
Full == Size(b, e) = N - 1

\* ContiguousRange and PeekContiguousRange: the offset of the byte start behind
\* the begin, and how many bytes follow it in one piece.
Wrap(a) == IF a >= N THEN a - N ELSE a
ContiguousSize(start) ==
    LET begin == Wrap(b + start)
    IN  IF begin <= e THEN e - begin ELSE N - begin

Least(x, y) == IF x <= y THEN x ELSE y

-----------------------------------------------------------------------------
(* The writer.                                                              *)

Running == ~aborted

Go(step) == irq' = [irq EXCEPT !.pc = step]

\* The caller's part: n bytes arrive, and there is room for them, which is up to
\* the application to see to.
Arrives(n) ==
    /\ Running /\ irq.pc = "idle"
    /\ arrived + n <= MaxBytes
    /\ Size(b, e) + n <= N - 1
    /\ arrived' = arrived + n

\* AddFromInterrupt(element): the assertion; the copy follows.
AddElement ==
    /\ kind = "irqWriter"
    /\ Arrives(1)
    /\ aborted' = Full
    /\ irq' = [pc |-> "copy", left |-> 1, begin |-> b]
    /\ UNCHANGED <<kind, storage, b, e, flag, pending, main, published, consumed>>

\* AddFromInterrupt(data): the assertion, and the early return of
\* AddFromInterruptUnchecked when the first piece does not fit.
AddRange(n) ==
    LET copySize == Least(n, N - e)
    IN
    /\ kind = "irqWriter"
    /\ Arrives(n)
    /\ aborted' = Full
    /\ irq' = IF b <= e \/ b > e + copySize
              THEN [pc |-> "copy", left |-> n, begin |-> b]
              ELSE irq
    /\ UNCHANGED <<kind, storage, b, e, flag, pending, main, published, consumed>>

\* What ReceiveData does first: really_assert, and the assertion of Push.
ReceiveData(n) ==
    /\ kind = "atomic"
    /\ Arrives(n)
    /\ aborted' = (Size(b, e) + n > N - 1)
    /\ irq' = [pc |-> "copy", left |-> n, begin |-> b]
    /\ UNCHANGED <<kind, storage, b, e, flag, pending, main, published, consumed>>

\* The copy of one piece behind the end.
Piece == Least(irq.left, N - e)
\* Mutant: the last byte of a piece is not copied.
MutCopy ==
    /\ Running /\ irq.pc = "copy"
    /\ storage' = [a \in 0 .. N - 1 |->
                      IF a \in e .. e + Piece - 2 THEN published + a - e + 1 ELSE storage[a]]
    /\ Go("publish")
    /\ UNCHANGED <<kind, b, e, flag, pending, main, aborted, published, consumed, arrived>>

Copy ==
    /\ Running /\ irq.pc = "copy"
    /\ storage' = [a \in 0 .. N - 1 |->
                      IF a \in e .. e + Piece - 1 THEN published + a - e + 1 ELSE storage[a]]
    /\ Go("publish")
    /\ UNCHANGED <<kind, b, e, flag, pending, main, aborted, published, consumed, arrived>>

\* The end moves behind the piece.  QueueForOneReaderOneIrqWriter goes to the
\* begin of the storage in the same assignment, AtomicByteQueue in the next one.
Publish ==
    LET end == e + Piece
        rest == irq.left - Piece
    IN
    /\ Running /\ irq.pc = "publish"
    /\ e' = IF kind = "irqWriter" /\ end = N THEN 0 ELSE end
    /\ published' = published + Piece
    /\ irq' = [irq EXCEPT !.left = rest,
                          !.pc = CASE e' = N -> "wrap" [] e' # N /\ rest > 0 -> "copy" [] OTHER -> "notify"]
    \* assert(begin <= contentsEnd || begin > contentsEnd + data.size())
    /\ aborted' = (kind = "irqWriter" /\ ~(irq.begin <= e' \/ irq.begin > e' + rest))
    /\ UNCHANGED <<kind, storage, b, flag, pending, main, consumed, arrived>>

WrapEnd ==
    /\ Running /\ irq.pc = "wrap"
    /\ e' = 0
    /\ Go(IF irq.left > 0 THEN "copy" ELSE "notify")
    /\ UNCHANGED <<kind, storage, b, flag, pending, main, aborted, published, consumed, arrived>>

\* NotifyDataAvailable first looks whether there is something to read;
\* AtomicTriggerScheduler::Schedule does not.
Notify ==
    /\ Running /\ irq.pc = "notify"
    /\ Go(IF kind = "irqWriter" /\ Empty THEN "idle" ELSE "exchange")
    /\ UNCHANGED <<kind, storage, b, e, flag, pending, main, aborted, published, consumed, arrived>>

\* The exchange of the flag, and EventDispatcher::Schedule when it was clear.
Schedule ==
    /\ Running /\ irq.pc = "exchange"
    /\ flag' = TRUE
    /\ pending' = IF flag THEN pending ELSE pending + 1
    /\ Go("idle")
    /\ UNCHANGED <<kind, storage, b, e, main, aborted, published, consumed, arrived>>

WriterStep == Copy \/ Publish \/ WrapEnd \/ Notify \/ Schedule

-----------------------------------------------------------------------------
(* The reader: the action in the dispatcher and what it calls.  main.last   *)
(* is history: the byte that was extracted last.                            *)

ReaderRuns == Running /\ (irq.pc = "idle" \/ kind \in Threaded)

\* The dispatcher executes the action: DataAvailable, or the lambda of
\* AtomicTriggerScheduler; the flag is cleared before the callback looks.
Execute ==
    /\ ReaderRuns /\ main.pc = "idle" /\ pending > 0
    /\ pending' = pending - 1
    /\ main' = [main EXCEPT !.pc = "clear"]
    /\ UNCHANGED <<kind, storage, b, e, flag, irq, aborted, published, consumed, arrived>>

\* Mutant: the flag is not cleared.
MutClearFlag ==
    /\ ReaderRuns /\ main.pc = "clear"
    /\ main' = [main EXCEPT !.pc = "look"]
    /\ UNCHANGED <<kind, storage, b, e, flag, pending, irq, aborted, published, consumed, arrived>>

ClearFlag ==
    /\ ReaderRuns /\ main.pc = "clear"
    /\ flag' = FALSE
    /\ main' = [main EXCEPT !.pc = "look"]
    /\ UNCHANGED <<kind, storage, b, e, pending, irq, aborted, published, consumed, arrived>>

\* The callback looks whether there is more, and reads until there is not; a
\* StreamReader is constructed, or the reader of the port, whose offset is 0.
\* What is available is taken at the construction, or anew at each look.
Look ==
    /\ ReaderRuns /\ main.pc = "look"
    /\ main' = IF Size(b, e) = 0 THEN [main EXCEPT !.pc = "idle"]
               ELSE [main EXCEPT !.pc = "read", !.offset = 0, !.available = Size(b, e)]
    /\ UNCHANGED <<kind, storage, b, e, flag, pending, irq, aborted, published, consumed, arrived>>

\* Get: one byte, released at once.
Get ==
    /\ ReaderRuns /\ kind = "irqWriter" /\ main.pc = "read" /\ main.offset = 0
    /\ main' = [main EXCEPT !.pc = "get", !.last = storage[b]]
    /\ UNCHANGED <<kind, storage, b, e, flag, pending, irq, aborted, published, consumed, arrived>>

GetMovesBegin ==
    /\ ReaderRuns /\ main.pc = "get"
    /\ b' = IF b = N - 1 THEN 0 ELSE b + 1
    /\ consumed' = consumed + 1
    /\ main' = [main EXCEPT !.pc = "look"]
    /\ UNCHANGED <<kind, storage, e, flag, pending, irq, aborted, published, arrived>>

\* Extract and ExtractContiguousRange: up to n bytes of the contiguous range.
Extract(n) ==
    LET piece == Least(n, IF kind = "irqWriter"
                          THEN Least(ContiguousSize(main.offset), main.available - main.offset)
                          ELSE ContiguousSize(main.offset))
    IN
    /\ ReaderRuns /\ main.pc = "read" /\ piece > 0
    /\ main' = [main EXCEPT !.offset = @ + piece,
                            !.last = storage[Wrap(b + main.offset) + piece - 1]]
    /\ UNCHANGED <<kind, storage, b, e, flag, pending, irq, aborted, published, consumed, arrived>>

\* Rewind, to the begin, after some bytes.
Rewind ==
    /\ ReaderRuns /\ main.pc = "read" /\ main.offset > 0
    /\ main' = [main EXCEPT !.offset = 0]
    /\ UNCHANGED <<kind, storage, b, e, flag, pending, irq, aborted, published, consumed, arrived>>

\* Commit or AckReceived: Consume(offset), or Pop(offset), where the begin goes
\* to the begin of the storage, or to its end, in a step of its own.
Commit ==
    LET atEnd == N - b
    IN
    /\ ReaderRuns /\ main.pc = "read" /\ main.offset > 0
    /\ IF kind = "irqWriter"
       THEN IF b + main.offset >= N
            THEN b' = 0 /\ consumed' = consumed + atEnd /\ main' = [main EXCEPT !.pc = "popRest", !.offset = @ - atEnd]
            ELSE b' = b + main.offset /\ consumed' = consumed + main.offset /\ main' = [main EXCEPT !.pc = "look", !.offset = 0]
       ELSE LET taken == Least(main.offset, atEnd)
            IN  /\ b' = b + taken
                /\ consumed' = consumed + taken
                /\ main' = IF b' = N THEN [main EXCEPT !.pc = "popRest", !.offset = @ - taken]
                                     ELSE [main EXCEPT !.pc = "look", !.offset = 0]
    /\ UNCHANGED <<kind, storage, e, flag, pending, irq, aborted, published, arrived>>

\* Mutant: what is released behind the begin of the storage is forgotten.
MutCommitRest ==
    /\ ReaderRuns /\ main.pc = "popRest"
    /\ b' = 0
    /\ consumed' = consumed + main.offset
    /\ main' = [main EXCEPT !.pc = "look", !.offset = 0]
    /\ UNCHANGED <<kind, storage, e, flag, pending, irq, aborted, published, arrived>>

\* contentsBegin += amount, or b = storage.begin() + size - takenFromEnd.
CommitRest ==
    /\ ReaderRuns /\ main.pc = "popRest"
    /\ b' = main.offset
    /\ consumed' = consumed + main.offset
    /\ main' = [main EXCEPT !.pc = "look", !.offset = 0]
    /\ UNCHANGED <<kind, storage, e, flag, pending, irq, aborted, published, arrived>>

-----------------------------------------------------------------------------

Init ==
    /\ kind \in {"irqWriter", "atomic"}
    /\ storage = [a \in 0 .. N - 1 |-> 0]
    /\ b = 0 /\ e = 0
    /\ flag = FALSE /\ pending = 0
    /\ irq = [pc |-> "idle", left |-> 0, begin |-> 0]
    /\ main = [pc |-> "idle", offset |-> 0, available |-> 0, last |-> 0]
    /\ aborted = FALSE
    /\ published = 0 /\ consumed = 0 /\ arrived = 0

Interrupt == AddElement \/ \E n \in 1 .. MaxRange : AddRange(n) \/ ReceiveData(n)
Read == Get \/ \E n \in {1, N} : Extract(n)
ReaderStep == Execute \/ ClearFlag \/ Look \/ Read \/ GetMovesBegin \/ Commit \/ CommitRest

Next == Interrupt \/ WriterStep \/ ReaderStep \/ Rewind

Spec == Init /\ [][Next]_vars

-----------------------------------------------------------------------------
(* Properties.                                                              *)

Unread == [k \in 1 .. Size(b, e) |-> storage[Wrap(b + k - 1)]]

WriterStates ==
    [pc : {"idle", "copy", "publish", "wrap", "notify", "exchange"}, left : 0 .. MaxRange, begin : 0 .. N]
ReaderStates ==
    [pc : {"idle", "clear", "look", "read", "get", "popRest"},
     offset : 0 .. N - 1, available : 0 .. N - 1, last : 0 .. MaxBytes]

\* The members keep their types.
TypeOK ==
    /\ kind \in {"irqWriter", "atomic"}
    /\ storage \in [0 .. N - 1 -> 0 .. MaxBytes]
    /\ b \in 0 .. N /\ e \in 0 .. N
    /\ flag \in BOOLEAN /\ pending \in Nat
    /\ irq \in WriterStates /\ main \in ReaderStates
    /\ aborted \in BOOLEAN
    /\ arrived \in 0 .. MaxBytes /\ published \in 0 .. arrived /\ consumed \in 0 .. published

\* Both queues are streams of bytes: the writer's and the reader's steps, in any
\* interleaving and through every wrap of the storage, put and take bytes in
\* order.
Stream == INSTANCE ByteStream WITH Capacity <- N - 1, contents <- Unread, sent <- published
ImplementsStream == Stream!Spec

\* The byte the reader extracted last is the one that follows what it released
\* and extracted before: it reads no byte twice, skips none, and none that the
\* writer has not finished or writes over.
ReaderInOrder ==
    /\ main.pc = "read" /\ main.offset > 0 => main.last = consumed + main.offset
    /\ main.pc = "get" => main.last = consumed + 1

\* For a caller that sees to the room no byte is lost or misread: neither the
\* assertions, which look at a begin that was loaded earlier, nor the early return
\* of AddFromInterruptUnchecked come in the way of bytes that fit, and the reader
\* reads them in order.
NoByteLost == ~aborted /\ published + irq.left = arrived /\ ReaderInOrder

\* Nothing waits unread without somebody who will look: an action in the
\* dispatcher, the callback, or the writer on its way to schedule one.  However
\* fast bytes arrive, the queue takes one place in the dispatcher.
OneWakeup ==
    /\ ~aborted /\ b # e => pending > 0 \/ main.pc # "idle" \/ irq.pc # "idle"
    /\ pending <= 1

=============================================================================
