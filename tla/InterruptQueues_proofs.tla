----------------------- MODULE InterruptQueues_proofs -----------------------
(***************************************************************************)
(* Proofs about InterruptQueues, for a storage of any size, ranges of any  *)
(* length and any number of bytes: no byte is lost or misread, no wake-up  *)
(* is missed, and both queues implement ByteStream.                        *)
(***************************************************************************)
EXTENDS InterruptQueues, SequenceTheorems, TLAPS

\* AtomicByteQueue is filled by an interrupt.  With a thread the reader can run
\* while the end is one past the storage.
AtomicByInterrupt == "atomic" \notin Threaded

\* Where the pointers may be: only AtomicByteQueue has them at the end of the
\* storage, and only in the middle of Push and of Pop.
PointersInside ==
    /\ e = N <=> irq.pc = "wrap"
    /\ b = N => main.pc = "popRest" /\ kind = "atomic"
    /\ irq.pc = "wrap" => kind = "atomic"

\* What is stored and what is still to be copied leave one unit of the storage
\* free; the counts are those of the pointers.
RoomLeft ==
    /\ Size(b, e) + irq.left <= N - 1
    /\ published = consumed + Size(b, e)
    /\ arrived = published + irq.left
    /\ irq.pc \in {"copy", "publish"} => irq.left > 0
    /\ irq.pc \in {"idle", "notify", "exchange"} => irq.left = 0

\* There was room behind the begin that AddFromInterrupt loaded, also when the
\* reader has moved the begin since.
LoadedBeginRoom ==
    kind = "irqWriter" /\ irq.pc \in {"copy", "publish"} =>
        irq.begin < N /\ Size(irq.begin, e) + irq.left <= N - 1

\* Every unit between the begin and the end holds the byte with its number, and
\* what was copied behind the end holds the ones that come next.
Filled ==
    \A a \in 0 .. N - 1 :
        /\ b <= a /\ (a < e \/ e < b) => storage[a] = consumed + 1 + a - b
        /\ a < e /\ e < b => storage[a] = consumed + 1 + a + N - b

Copied ==
    irq.pc = "publish" => \A a \in e .. e + Piece - 1 : storage[a] = published + a - e + 1

\* The reader's stream stays within what is stored.
ReaderInside ==
    /\ main.pc \in {"read", "popRest"} => main.offset <= Size(b, e)
    /\ main.pc \in {"read", "get"} => Size(b, e) > 0
    /\ main.pc = "get" => kind = "irqWriter"
    /\ main.pc = "popRest" => b = IF kind = "irqWriter" THEN 0 ELSE N

\* The flag is set exactly while an action is in the dispatcher or has not yet
\* cleared it.
FlagMeansPending ==
    /\ pending \in {0, 1}
    /\ flag <=> pending = 1 \/ main.pc = "clear"
    /\ main.pc = "clear" => pending = 0

QueueInv ==
    /\ TypeOK /\ ~aborted
    /\ PointersInside /\ RoomLeft /\ LoadedBeginRoom
    /\ Filled /\ Copied
    /\ ReaderInside /\ ReaderInOrder
    /\ FlagMeansPending /\ OneWakeup

\* The types of what the proofs calculate with.
LEMMA NumberTypes ==
    ASSUME TypeOK
    PROVE  /\ b \in 0 .. N /\ e \in 0 .. N
           /\ irq.left \in Nat /\ irq.begin \in 0 .. N
           /\ main.offset \in 0 .. N - 1 /\ main.available \in Nat /\ main.last \in Nat
           /\ published \in Nat /\ consumed \in Nat /\ arrived \in 0 .. MaxBytes
           /\ published <= arrived /\ consumed <= published
<1>1. irq.left \in Nat /\ irq.begin \in 0 .. N
  BY QueueAssumption DEF TypeOK, WriterStates
<1>2. main.offset \in 0 .. N - 1 /\ main.available \in Nat /\ main.last \in Nat
  BY QueueAssumption DEF TypeOK, ReaderStates
<1> QED
  BY QueueAssumption, <1>1, <1>2 DEF TypeOK

\* What a step of the writer, or of the reader, to another place changes.
LEMMA WriterGoes ==
    ASSUME irq \in WriterStates, NEW step \in {"idle", "copy", "publish", "wrap", "notify", "exchange"},
           irq' = [irq EXCEPT !.pc = step]
    PROVE  irq' \in WriterStates /\ irq'.pc = step /\ irq'.left = irq.left /\ irq'.begin = irq.begin
BY DEF WriterStates

\* The reader goes on, with its stream at an offset.
LEMMA ReaderGoes ==
    ASSUME main \in ReaderStates, NEW step \in {"idle", "clear", "look", "read", "get", "popRest"},
           NEW offset \in 0 .. N - 1, NEW available \in 0 .. N - 1,
           \/ main' = [main EXCEPT !.pc = step, !.offset = offset]
           \/ main' = [main EXCEPT !.pc = step, !.offset = offset, !.available = available]
    PROVE  main' \in ReaderStates /\ main'.pc = step /\ main'.offset = offset
BY DEF ReaderStates

LEMMA ZeroOffset == 0 \in 0 .. N - 1
BY QueueAssumption

LEMMA QueueInitInv == Init => QueueInv
<1> SUFFICES ASSUME Init
             PROVE  QueueInv
  OBVIOUS
<1> USE QueueAssumption DEF Init
<1>1. TypeOK /\ ~aborted
  <2>1. aborted = FALSE /\ flag \in BOOLEAN /\ aborted \in BOOLEAN
    OBVIOUS
  <2>2. storage \in [0 .. N - 1 -> 0 .. MaxBytes] /\ b \in 0 .. N /\ e \in 0 .. N /\ kind \in {"irqWriter", "atomic"}
    OBVIOUS
  <2>3. irq \in WriterStates /\ main \in ReaderStates
    BY DEF WriterStates, ReaderStates
  <2>4. pending \in Nat /\ arrived \in 0 .. MaxBytes /\ published \in 0 .. arrived /\ consumed \in 0 .. published
    OBVIOUS
  <2> QED
    BY <2>1, <2>2, <2>3, <2>4 DEF TypeOK
<1>2. PointersInside /\ RoomLeft /\ LoadedBeginRoom
  BY DEF PointersInside, RoomLeft, LoadedBeginRoom, Size
<1>3. Filled /\ Copied
  BY DEF Filled, Copied
<1>4. ReaderInside /\ ReaderInOrder /\ FlagMeansPending /\ OneWakeup
  BY DEF ReaderInside, ReaderInOrder, FlagMeansPending, OneWakeup
<1> QED
  BY <1>1, <1>2, <1>3, <1>4 DEF QueueInv

\* What the caller gives the writer fits: no assertion fails, AddFromInterrupt
\* does not return early, and the copy begins.
LEMMA ArrivesInv ==
    ASSUME QueueInv, NEW n \in 1 .. MaxRange,
           (AddElement /\ n = 1) \/ AddRange(n) \/ ReceiveData(n)
    PROVE  QueueInv'
<1> USE QueueAssumption DEF QueueInv
<1>1. /\ irq.pc = "idle" /\ arrived' = arrived + n /\ arrived' <= MaxBytes
      /\ Size(b, e) + n <= N - 1
      /\ UNCHANGED <<kind, storage, b, e, flag, pending, main, published, consumed>>
  BY DEF AddElement, AddRange, ReceiveData, Arrives
<1>2. b \in 0 .. N /\ e \in 0 .. N - 1
  BY <1>1 DEF TypeOK, PointersInside
<1>3. aborted' = FALSE
  <2>1. Full = FALSE /\ (Size(b, e) + n > N - 1) = FALSE
    BY <1>1, <1>2 DEF Full, Size
  <2> QED
    BY <2>1, Zenon DEF AddElement, AddRange, ReceiveData
<1>4. irq' = [pc |-> "copy", left |-> n, begin |-> b]
  <2>1. ASSUME AddRange(n)
        PROVE  b <= e \/ b > e + Least(n, N - e)
    BY <1>1, <1>2 DEF Size, Least
  <2> QED
    BY <2>1 DEF AddElement, AddRange, ReceiveData
<1>5. TypeOK'
  <2>1. irq' \in WriterStates /\ arrived' \in 0 .. MaxBytes /\ published \in 0 .. arrived'
    BY <1>1, <1>2, <1>4 DEF TypeOK, WriterStates
  <2> QED
    BY <1>1, <1>3, <2>1 DEF TypeOK
<1>6. PointersInside' /\ RoomLeft' /\ LoadedBeginRoom'
  <2>1. irq'.pc = "copy" /\ irq'.left = n /\ irq'.begin = b
    BY <1>4
  <2> QED
    BY <1>1, <1>2, <2>1, NumberTypes DEF PointersInside, RoomLeft, LoadedBeginRoom, Size
<1>7. Filled' /\ Copied' /\ ReaderInside' /\ ReaderInOrder' /\ FlagMeansPending' /\ OneWakeup'
  BY <1>1, <1>4 DEF Filled, Copied, ReaderInside, Size, ReaderInOrder, FlagMeansPending, OneWakeup
<1> QED
  BY <1>3, <1>5, <1>6, <1>7

\* The copy touches no unit between the begin and the end.
LEMMA CopyInv == QueueInv /\ Copy => QueueInv'
<1> SUFFICES ASSUME QueueInv, Copy
             PROVE  QueueInv'
  OBVIOUS
<1> USE QueueAssumption DEF QueueInv
<1>1. /\ irq.pc = "copy" /\ irq' = [irq EXCEPT !.pc = "publish"]
      /\ UNCHANGED <<kind, b, e, flag, pending, main, aborted, published, consumed, arrived>>
  BY DEF Copy, Go
<1>2. irq' \in WriterStates /\ irq'.pc = "publish" /\ irq'.left = irq.left /\ irq'.begin = irq.begin
  BY <1>1, WriterGoes DEF TypeOK
<1>3. /\ b \in 0 .. N /\ e \in 0 .. N - 1 /\ irq.left \in 1 .. N - 1
      /\ Piece \in 1 .. irq.left /\ e + Piece <= N
      /\ Piece' = Piece
  <2>1. b \in 0 .. N /\ e \in 0 .. N - 1 /\ irq.left \in 1 .. N - 1
    BY <1>1, NumberTypes DEF PointersInside, RoomLeft, Size
  <2> QED
    BY <1>1, <1>2, <2>1 DEF Piece, Least
<1>4. \A a \in 0 .. N - 1 :
          storage'[a] = IF e <= a /\ a < e + Piece THEN published + a - e + 1 ELSE storage[a]
  BY <1>3 DEF Copy
<1>5. TypeOK'
  <2>1. storage' \in [0 .. N - 1 -> 0 .. MaxBytes]
    <3>1. \A a \in 0 .. N - 1 : e <= a /\ a < e + Piece => published + a - e + 1 \in 0 .. MaxBytes
      BY <1>3, NumberTypes DEF RoomLeft
    <3>2. storage' = [a \in 0 .. N - 1 |-> storage'[a]]
      BY DEF Copy
    <3> QED
      BY <1>4, <3>1, <3>2 DEF TypeOK
  <2> QED
    BY <1>1, <1>2, <2>1 DEF TypeOK
<1>6. PointersInside' /\ RoomLeft' /\ LoadedBeginRoom'
  BY <1>1, <1>2 DEF PointersInside, RoomLeft, LoadedBeginRoom, Size
<1>7. Filled'
  BY <1>1, <1>3, <1>4, NumberTypes DEF Filled, RoomLeft, Size
<1>8. Copied'
  BY <1>1, <1>3, <1>4 DEF Copied
<1>9. ReaderInside' /\ ReaderInOrder' /\ FlagMeansPending' /\ OneWakeup'
  BY <1>1, <1>2 DEF ReaderInside, Size, ReaderInOrder, FlagMeansPending, OneWakeup
<1> QED
  BY <1>1, <1>5, <1>6, <1>7, <1>8, <1>9

\* The end moves behind what was copied: the bytes come in order behind those
\* that wait, and the assertion on the begin loaded earlier holds.
LEMMA PublishInv == QueueInv /\ Publish => QueueInv'
<1> SUFFICES ASSUME QueueInv, Publish
             PROVE  QueueInv'
  OBVIOUS
<1> USE QueueAssumption DEF QueueInv
<1> DEFINE rest == irq.left - Piece
           end == e + Piece
           step == CASE e' = N -> "wrap" [] e' # N /\ rest > 0 -> "copy" [] OTHER -> "notify"
<1>1. /\ irq.pc = "publish" /\ irq' = [irq EXCEPT !.left = rest, !.pc = step]
      /\ e' = IF kind = "irqWriter" /\ end = N THEN 0 ELSE end
      /\ published' = published + Piece
      /\ UNCHANGED <<kind, storage, b, flag, pending, main, consumed, arrived>>
  BY DEF Publish
<1>2. /\ b \in 0 .. N /\ e \in 0 .. N - 1 /\ irq.left \in 1 .. N - 1
      /\ Piece \in 1 .. irq.left /\ end <= N /\ (Piece = irq.left \/ end = N)
  <2>1. b \in 0 .. N /\ e \in 0 .. N - 1 /\ irq.left \in 1 .. N - 1
    BY <1>1, NumberTypes DEF PointersInside, RoomLeft, Size
  <2> QED
    BY <2>1 DEF Piece, Least
<1>3. step \in {"wrap", "copy", "notify"}
  OBVIOUS
<1>4. /\ irq' \in WriterStates /\ irq'.pc = step /\ irq'.left = rest /\ irq'.begin = irq.begin
  <2>1. rest \in 0 .. MaxRange
    BY <1>2 DEF TypeOK, WriterStates
  <2> HIDE DEF step
  <2> QED
    BY <1>1, <1>3, <2>1 DEF TypeOK, WriterStates
<1>5. e' \in 0 .. N /\ rest \in Nat /\ (e' = N => kind = "atomic")
  <2>1. kind \in {"irqWriter", "atomic"}
    BY DEF TypeOK
  <2> QED
    BY <1>1, <1>2, <2>1
<1>6. aborted' = FALSE
  <2>1. kind = "irqWriter" => irq.begin <= e' \/ irq.begin > e' + rest
    BY <1>1, <1>2, NumberTypes DEF LoadedBeginRoom, Size
  <2>2. aborted' = (kind = "irqWriter" /\ ~(irq.begin <= e' \/ irq.begin > e' + rest))
    BY DEF Publish
  <2> HIDE DEF rest
  <2> QED
    BY <2>1, <2>2, Zenon
<1>7. Size(b, e') = Size(b, e) + Piece
  BY <1>1, <1>2, NumberTypes DEF Size, RoomLeft
<1>8. RoomLeft' /\ PointersInside'
  <2>1. /\ (step = "wrap" <=> e' = N) /\ (step = "copy" => rest > 0)
        /\ (step = "notify" => rest = 0)
    BY <1>5
  <2> HIDE DEF step
  <2>2. RoomLeft'
    BY <1>1, <1>2, <1>3, <1>4, <1>5, <1>7, <2>1, NumberTypes DEF RoomLeft, Size
  <2>3. PointersInside'
    BY <1>1, <1>3, <1>4, <1>5, <2>1 DEF PointersInside
  <2> QED
    BY <2>2, <2>3
<1>9. TypeOK'
  <2>1. published' \in 0 .. arrived' /\ consumed' \in 0 .. published'
    BY <1>1, <1>2, NumberTypes DEF RoomLeft
  <2> QED
    BY <1>1, <1>4, <1>5, <1>6, <2>1 DEF TypeOK
<1>10. LoadedBeginRoom'
  <2> HIDE DEF step
  <2> QED
    BY <1>1, <1>2, <1>3, <1>4, NumberTypes DEF LoadedBeginRoom, Size
<1>11. Filled'
  <2>1. \A a \in 0 .. N - 1 : e <= a /\ a < end => storage[a] = published + a - e + 1
    BY <1>1, <1>2 DEF Copied
  <2> QED
    BY <1>1, <1>2, <2>1, NumberTypes DEF Filled, RoomLeft, Size
<1>12. Copied' /\ FlagMeansPending' /\ OneWakeup' /\ ReaderInOrder'
  <2> HIDE DEF step
  <2> QED
    BY <1>1, <1>3, <1>4 DEF Copied, FlagMeansPending, OneWakeup, ReaderInOrder
<1>13. ReaderInside'
  BY <1>1, <1>2, <1>7, NumberTypes DEF ReaderInside, Size
<1> QED
  BY <1>6, <1>8, <1>9, <1>10, <1>11, <1>12, <1>13

\* The end of AtomicByteQueue goes from the end of the storage to its begin; the
\* reader does not run in between.
LEMMA WrapEndInv == QueueInv /\ WrapEnd => QueueInv'
<1> SUFFICES ASSUME QueueInv, WrapEnd
             PROVE  QueueInv'
  OBVIOUS
<1> USE QueueAssumption DEF QueueInv
<1> DEFINE step == IF irq.left > 0 THEN "copy" ELSE "notify"
<1>1. /\ irq.pc = "wrap" /\ irq' = [irq EXCEPT !.pc = step] /\ e' = 0
      /\ UNCHANGED <<kind, storage, b, flag, pending, main, aborted, published, consumed, arrived>>
  BY DEF WrapEnd, Go
<1>2. irq' \in WriterStates /\ irq'.pc = step /\ irq'.left = irq.left /\ irq'.begin = irq.begin
  BY <1>1, WriterGoes DEF TypeOK
<1>3. e = N /\ kind = "atomic" /\ b \in 0 .. N /\ irq.left \in Nat
  BY <1>1, NumberTypes DEF PointersInside
<1>4. b # 0 /\ Size(b, e') = Size(b, e)
  BY <1>1, <1>3 DEF RoomLeft, Size
<1>5. TypeOK'
  BY <1>1, <1>2 DEF TypeOK
<1>6. PointersInside' /\ RoomLeft' /\ LoadedBeginRoom'
  BY <1>1, <1>2, <1>3, <1>4 DEF PointersInside, RoomLeft, LoadedBeginRoom
<1>7. Filled' /\ Copied'
  BY <1>1, <1>2, <1>3, <1>4, NumberTypes DEF Filled, Copied
<1>8. ReaderInside' /\ ReaderInOrder' /\ FlagMeansPending' /\ OneWakeup'
  BY <1>1, <1>2, <1>4 DEF ReaderInside, ReaderInOrder, FlagMeansPending, OneWakeup
<1> QED
  BY <1>1, <1>5, <1>6, <1>7, <1>8

\* The writer ends with nothing to read or with an action in the dispatcher.
LEMMA NotifyInv == QueueInv /\ (Notify \/ Schedule) => QueueInv'
<1> SUFFICES ASSUME QueueInv, Notify \/ Schedule
             PROVE  QueueInv'
  OBVIOUS
<1> USE QueueAssumption DEF QueueInv
<1>1. /\ irq.pc \in {"notify", "exchange"}
      /\ UNCHANGED <<kind, storage, b, e, main, aborted, published, consumed, arrived>>
  BY DEF Notify, Schedule
<1>2. PICK step \in {"idle", "exchange"} : irq' = [irq EXCEPT !.pc = step]
  BY DEF Notify, Schedule, Go
<1>3. irq' \in WriterStates /\ irq'.pc = step /\ irq'.left = irq.left /\ irq'.begin = irq.begin
  BY <1>2, WriterGoes DEF TypeOK
<1>4. FlagMeansPending' /\ flag' \in BOOLEAN /\ pending' \in Nat
  <2>1. CASE Notify
    BY <1>1, <2>1 DEF Notify, FlagMeansPending, TypeOK
  <2>2. CASE Schedule /\ flag
    BY <1>1, <2>2, Zenon DEF Schedule, FlagMeansPending, TypeOK
  <2>3. CASE Schedule /\ ~flag
    <3>1. flag' = TRUE /\ pending = 0 /\ main.pc # "clear" /\ pending' = pending + 1
      BY <2>3, Zenon DEF Schedule, FlagMeansPending
    <3> QED
      BY <1>1, <3>1 DEF FlagMeansPending
  <2> QED
    BY <2>1, <2>2, <2>3
<1>5. TypeOK'
  BY <1>1, <1>3, <1>4 DEF TypeOK
<1>6. PointersInside' /\ RoomLeft' /\ LoadedBeginRoom'
  BY <1>1, <1>3 DEF PointersInside, RoomLeft, LoadedBeginRoom
<1>7. Filled' /\ Copied' /\ ReaderInside' /\ ReaderInOrder'
  BY <1>1, <1>3 DEF Filled, Copied, ReaderInside, ReaderInOrder
<1>8. OneWakeup'
  <2>1. CASE Notify
    <3>1. irq'.pc = "idle" => b = e
      BY <2>1, WriterGoes DEF Notify, Go, Empty, TypeOK
    <3>2. pending' = pending
      BY <2>1 DEF Notify
    <3> QED
      BY <1>1, <3>1, <3>2 DEF OneWakeup, FlagMeansPending
  <2>2. CASE Schedule
    BY <1>1, <1>4, <2>2 DEF Schedule, OneWakeup, FlagMeansPending
  <2> QED
    BY <2>1, <2>2
<1> QED
  BY <1>1, <1>4, <1>5, <1>6, <1>7, <1>8

\* The reader never runs while the end is one past the storage.
LEMMA ReaderSeesEnd ==
    ASSUME AtomicByInterrupt, QueueInv, ReaderRuns
    PROVE  e \in 0 .. N - 1
<1>1. irq.pc # "wrap"
  BY DEF QueueInv, ReaderRuns, AtomicByInterrupt, PointersInside
<1> QED
  BY <1>1, NumberTypes, QueueAssumption DEF QueueInv, PointersInside

\* A step of the reader that leaves the begin where it is.
LEMMA ReaderStaysInv ==
    ASSUME QueueInv, main' \in ReaderStates,
           UNCHANGED <<kind, storage, b, e, irq, aborted, published, consumed, arrived>>,
           main.pc # "popRest" /\ main'.pc # "popRest",
           flag' \in BOOLEAN, FlagMeansPending', ReaderInside', ReaderInOrder',
           main'.pc = "idle" => b = e
    PROVE  QueueInv'
<1> USE QueueAssumption DEF QueueInv
<1>1. TypeOK'
  BY DEF TypeOK, FlagMeansPending
<1>2. PointersInside' /\ RoomLeft' /\ LoadedBeginRoom'
  BY DEF PointersInside, RoomLeft, LoadedBeginRoom
<1>3. Filled' /\ Copied'
  BY DEF Filled, Copied, Piece
<1>4. OneWakeup'
  BY DEF OneWakeup, FlagMeansPending
<1> QED
  BY <1>1, <1>2, <1>3, <1>4

\* A step of the reader that releases t bytes.
LEMMA ReaderReleasesInv ==
    ASSUME QueueInv, e \in 0 .. N - 1, main' \in ReaderStates,
           UNCHANGED <<kind, storage, e, flag, pending, irq, aborted, published, arrived>>,
           NEW t \in Nat, t <= Size(b, e), consumed' = consumed + t,
           b' \in 0 .. N, b' = b + t \/ b' = b + t - N,
           main.pc # "clear", main'.pc \in {"look", "popRest"},
           b' = N => kind = "atomic" /\ main'.pc = "popRest",
           main'.pc = "popRest" => /\ b' = IF kind = "irqWriter" THEN 0 ELSE N
                                   /\ main'.offset <= Size(b, e) - t
    PROVE  QueueInv'
<1> USE QueueAssumption DEF QueueInv
<1>1. Size(b', e') = Size(b, e) - t
  BY NumberTypes DEF Size
<1>2. TypeOK'
  <2>1. consumed' \in 0 .. published'
    BY NumberTypes DEF RoomLeft, Size
  <2> QED
    BY <2>1 DEF TypeOK
<1>3. PointersInside' /\ RoomLeft' /\ LoadedBeginRoom'
  <2>1. RoomLeft'
    BY <1>1, NumberTypes DEF RoomLeft, Size
  <2> QED
    BY <2>1 DEF PointersInside, LoadedBeginRoom
<1>4. Filled'
  BY NumberTypes DEF Filled, Size
<1>5. Copied'
  BY DEF Copied, Piece
<1>6. ReaderInside' /\ ReaderInOrder'
  BY <1>1 DEF ReaderInside, ReaderInOrder
<1>7. FlagMeansPending' /\ OneWakeup'
  BY DEF FlagMeansPending, OneWakeup
<1> QED
  BY <1>2, <1>3, <1>4, <1>5, <1>6, <1>7

LEMMA ExecuteInv == QueueInv /\ (Execute \/ ClearFlag) => QueueInv'
<1> SUFFICES ASSUME QueueInv, Execute \/ ClearFlag
             PROVE  QueueInv'
  OBVIOUS
<1> USE QueueAssumption DEF QueueInv
<1>1. PICK step \in {"clear", "look"} : main' = [main EXCEPT !.pc = step]
  BY DEF Execute, ClearFlag
<1>2. main' \in ReaderStates /\ main'.pc = step /\ main'.offset = main.offset
  BY <1>1 DEF TypeOK, ReaderStates
<1>3. main.pc \in {"idle", "clear"}
      /\ UNCHANGED <<kind, storage, b, e, irq, aborted, published, consumed, arrived>>
  BY DEF Execute, ClearFlag
<1>4. flag' \in BOOLEAN /\ FlagMeansPending'
  <2>1. CASE Execute
    <3>1. pending = 1 /\ flag' = flag /\ flag /\ pending' = 0 /\ main'.pc = "clear"
      BY <2>1, <1>2 DEF Execute, FlagMeansPending, TypeOK, ReaderStates
    <3> QED
      BY <3>1 DEF FlagMeansPending, TypeOK
  <2>2. CASE ClearFlag
    <3>1. flag' = FALSE /\ pending' = 0 /\ pending' # 1 /\ main'.pc = "look"
      BY <2>2, <1>2 DEF ClearFlag, FlagMeansPending, TypeOK, ReaderStates
    <3> QED
      BY <3>1, Zenon DEF FlagMeansPending
  <2> QED
    BY <2>1, <2>2
<1>5. ReaderInside' /\ ReaderInOrder'
  BY <1>2, <1>3 DEF ReaderInside, ReaderInOrder
<1> QED
  BY <1>2, <1>3, <1>4, <1>5, ReaderStaysInv

\* The callback ends only when there is nothing left; a stream begins at the begin.
LEMMA LookInv ==
    ASSUME AtomicByInterrupt, QueueInv, Look
    PROVE  QueueInv'
<1> USE QueueAssumption DEF QueueInv
<1>1. e \in 0 .. N - 1 /\ b \in 0 .. N /\ b # N
  BY ReaderSeesEnd, NumberTypes DEF Look, PointersInside
<1>2. Size(b, e) \in 0 .. N - 1 /\ (Size(b, e) = 0 => b = e)
  BY <1>1 DEF Size
<1>3. main.pc = "look"
      /\ UNCHANGED <<kind, storage, b, e, flag, pending, irq, aborted, published, consumed, arrived>>
  BY DEF Look
<1>4. CASE Size(b, e) = 0
  <2>1. main' \in ReaderStates /\ main'.pc = "idle"
    BY <1>4 DEF Look, TypeOK, ReaderStates
  <2> QED
    BY <1>2, <1>3, <1>4, <2>1, ReaderStaysInv
       DEF TypeOK, FlagMeansPending, ReaderInside, ReaderInOrder
<1>5. CASE Size(b, e) # 0
  <2>1. main' \in ReaderStates /\ main'.pc = "read" /\ main'.offset = 0
    <3>1. main' = [main EXCEPT !.pc = "read", !.offset = 0, !.available = Size(b, e)]
      BY <1>5 DEF Look
    <3> QED
      BY <1>2, <3>1, ZeroOffset, ReaderGoes DEF TypeOK
  <2>2. ReaderInside' /\ ReaderInOrder'
    <3>1. Size(b', e') > 0 /\ 0 <= Size(b', e')
      BY <1>2, <1>3, <1>5
    <3> QED
      BY <2>1, <3>1 DEF ReaderInside, ReaderInOrder
  <2> QED
    BY <1>3, <2>1, <2>2, ReaderStaysInv DEF TypeOK, FlagMeansPending
<1> QED
  BY <1>4, <1>5

LEMMA GetInv ==
    ASSUME AtomicByInterrupt, QueueInv, Get
    PROVE  QueueInv'
<1> USE QueueAssumption DEF QueueInv
<1>1. e \in 0 .. N - 1 /\ b \in 0 .. N - 1
  BY ReaderSeesEnd, NumberTypes DEF Get, PointersInside
<1>2. main.pc = "read" /\ kind = "irqWriter" /\ main' = [main EXCEPT !.pc = "get", !.last = storage[b]]
      /\ UNCHANGED <<kind, storage, b, e, flag, pending, irq, aborted, published, consumed, arrived>>
  BY DEF Get
<1>3. main' \in ReaderStates /\ main'.pc = "get" /\ main'.last = storage[b]
  BY <1>1, <1>2 DEF TypeOK, ReaderStates
<1>4. Size(b, e) > 0
  BY <1>2 DEF ReaderInside
<1>5. storage[b] = consumed + 1
  BY <1>1, <1>4, NumberTypes DEF Filled, Size
<1>6. ReaderInside' /\ ReaderInOrder'
  BY <1>2, <1>3, <1>4, <1>5 DEF ReaderInside, ReaderInOrder
<1> QED
  BY <1>2, <1>3, <1>6, ReaderStaysInv DEF TypeOK, FlagMeansPending

\* What is extracted comes next, also where the contents go on at the begin of
\* the storage.
LEMMA ExtractInv ==
    ASSUME AtomicByInterrupt, QueueInv, NEW n \in {1, N}, Extract(n)
    PROVE  QueueInv'
<1> USE QueueAssumption DEF QueueInv
<1> DEFINE begin == Wrap(b + main.offset)
<1>1. PICK piece \in 1 .. N :
          /\ piece <= ContiguousSize(main.offset)
          /\ main' = [main EXCEPT !.offset = @ + piece, !.last = storage[begin + piece - 1]]
  <2> DEFINE p == Least(n, IF kind = "irqWriter"
                           THEN Least(ContiguousSize(main.offset), main.available - main.offset)
                           ELSE ContiguousSize(main.offset))
  <2>1. ContiguousSize(main.offset) \in Int /\ main.available - main.offset \in Int
    BY NumberTypes DEF ContiguousSize, Wrap
  <2>2. p > 0 /\ main' = [main EXCEPT !.offset = @ + p, !.last = storage[begin + p - 1]]
    BY DEF Extract
  <2>3. p \in 1 .. N /\ p <= ContiguousSize(main.offset)
    BY <2>1, <2>2 DEF Least
  <2> QED
    BY <2>2, <2>3
<1>2. main.pc = "read" /\ ReaderRuns
      /\ UNCHANGED <<kind, storage, b, e, flag, pending, irq, aborted, published, consumed, arrived>>
  BY DEF Extract
<1>3. e \in 0 .. N - 1 /\ b \in 0 .. N - 1
  BY <1>2, ReaderSeesEnd, NumberTypes DEF PointersInside
<1>4. /\ main.offset + piece <= Size(b, e) /\ Size(b, e) <= N - 1
      /\ begin + piece - 1 \in 0 .. N - 1
      /\ storage[begin + piece - 1] = consumed + main.offset + piece
  <2>1. main.offset \in Nat /\ main.offset <= Size(b, e)
    BY <1>2, NumberTypes DEF ReaderInside
  <2>2. main.offset + piece <= Size(b, e) /\ begin + piece - 1 \in 0 .. N - 1
    BY <1>1, <1>3, <2>1 DEF ContiguousSize, Wrap, Size
  <2>3. Size(b, e) <= N - 1
    BY <1>3 DEF Size
  <2>4. storage[begin + piece - 1] = consumed + main.offset + piece
    BY <1>1, <1>3, <2>1, <2>2, NumberTypes DEF Filled, ContiguousSize, Wrap, Size
  <2> QED
    BY <2>2, <2>3, <2>4
<1>5. main' \in ReaderStates /\ main'.pc = "read" /\ main'.offset = main.offset + piece
      /\ main'.last = storage[begin + piece - 1]
  <2>1. main.offset + piece \in 0 .. N - 1 /\ storage[begin + piece - 1] \in 0 .. MaxBytes
    <3>1. main.offset + piece \in 0 .. N - 1
      BY <1>1, <1>3, <1>4, NumberTypes DEF Size
    <3>2. storage[begin + piece - 1] \in 0 .. MaxBytes
      BY <1>4 DEF TypeOK
    <3> QED
      BY <3>1, <3>2
  <2> HIDE DEF begin
  <2> QED
    BY <1>1, <1>2, <2>1 DEF TypeOK, ReaderStates
<1>6. ReaderInside' /\ ReaderInOrder'
  <2> HIDE DEF begin
  <2> QED
    BY <1>2, <1>4, <1>5, NumberTypes DEF ReaderInside, ReaderInOrder
<1> QED
  BY <1>2, <1>5, <1>6, ReaderStaysInv DEF TypeOK, FlagMeansPending

LEMMA RewindInv == QueueInv /\ Rewind => QueueInv'
<1> SUFFICES ASSUME QueueInv, Rewind
             PROVE  QueueInv'
  OBVIOUS
<1> USE QueueAssumption DEF QueueInv
<1>1. main.pc = "read" /\ main' = [main EXCEPT !.offset = 0]
      /\ UNCHANGED <<kind, storage, b, e, flag, pending, irq, aborted, published, consumed, arrived>>
  BY DEF Rewind
<1>2. main' \in ReaderStates /\ main'.pc = "read" /\ main'.offset = 0
  BY <1>1, ZeroOffset DEF TypeOK, ReaderStates
<1>3. ReaderInside' /\ ReaderInOrder'
  BY <1>1, <1>2, NumberTypes DEF ReaderInside, ReaderInOrder, Size
<1> QED
  BY <1>1, <1>2, <1>3, ReaderStaysInv DEF TypeOK, FlagMeansPending

LEMMA GetMovesBeginInv ==
    ASSUME AtomicByInterrupt, QueueInv, GetMovesBegin
    PROVE  QueueInv'
<1> USE QueueAssumption DEF QueueInv
<1>1. /\ main.pc = "get" /\ main' = [main EXCEPT !.pc = "look"]
      /\ consumed' = consumed + 1
      /\ b' = IF b = N - 1 THEN 0 ELSE b + 1
      /\ UNCHANGED <<kind, storage, e, flag, pending, irq, aborted, published, arrived>>
  BY DEF GetMovesBegin
<1>2. e \in 0 .. N - 1 /\ b \in 0 .. N - 1
  BY <1>1, ReaderSeesEnd, NumberTypes DEF GetMovesBegin, PointersInside
<1>3. main' \in ReaderStates /\ main'.pc = "look"
  BY <1>1 DEF TypeOK, ReaderStates
<1>4. 1 <= Size(b, e)
  BY <1>1, <1>2 DEF ReaderInside, Size
<1>5. b' \in 0 .. N - 1 /\ (b' = b + 1 \/ b' = b + 1 - N)
  BY <1>1, <1>2
<1> QED
  BY <1>1, <1>2, <1>3, <1>4, <1>5, ReaderReleasesInv

\* Consume and Pop: as far as the end of the storage, and then the rest.
LEMMA CommitInv ==
    ASSUME AtomicByInterrupt, QueueInv, Commit
    PROVE  QueueInv'
<1> USE QueueAssumption DEF QueueInv
<1>1. main.pc = "read" /\ main.offset > 0 /\ ReaderRuns
      /\ UNCHANGED <<kind, storage, e, flag, pending, irq, aborted, published, arrived>>
  BY DEF Commit
<1>2. e \in 0 .. N - 1 /\ b \in 0 .. N - 1 /\ main.offset \in 1 .. N - 1
  BY <1>1, ReaderSeesEnd, NumberTypes DEF PointersInside
<1>3. main.offset <= Size(b, e)
  BY <1>1 DEF ReaderInside
<1>4. CASE b + main.offset >= N
  <2> DEFINE t == N - b
  <2>1. t \in Nat /\ t <= main.offset /\ main.offset - t \in 0 .. N - 1
    BY <1>2, <1>4
  <2>2. /\ consumed' = consumed + t /\ main' = [main EXCEPT !.pc = "popRest", !.offset = @ - t]
        /\ b' = IF kind = "irqWriter" THEN 0 ELSE N
    <3>1. Least(main.offset, t) = t /\ b + t = N
      BY <1>2, <2>1 DEF Least
    <3>2. CASE kind = "irqWriter"
      BY <1>4, <3>2 DEF Commit
    <3>3. CASE kind # "irqWriter"
      BY <3>1, <3>3 DEF Commit
    <3> QED
      BY <3>2, <3>3
  <2>3. main' \in ReaderStates /\ main'.pc = "popRest" /\ main'.offset = main.offset - t
    <3> HIDE DEF t
    <3> QED
      BY <2>1, <2>2 DEF TypeOK, ReaderStates
  <2>4. b' \in 0 .. N /\ (b' = b + t \/ b' = b + t - N) /\ (b' = N => kind = "atomic")
    BY <1>2, <2>2 DEF TypeOK
  <2>5. t <= Size(b, e) /\ main'.offset <= Size(b, e) - t
    BY <1>2, <1>3, <2>1, <2>3 DEF Size
  <2> HIDE DEF t
  <2> QED
    BY <1>1, <1>2, <2>1, <2>2, <2>3, <2>4, <2>5, ReaderReleasesInv
<1>5. CASE b + main.offset < N
  <2>1. /\ consumed' = consumed + main.offset /\ main' = [main EXCEPT !.pc = "look", !.offset = 0]
        /\ b' = b + main.offset
    BY <1>2, <1>5 DEF Commit, Least
  <2>2. main' \in ReaderStates /\ main'.pc = "look"
    BY <2>1, ZeroOffset, ReaderGoes DEF TypeOK
  <2>3. b' \in 0 .. N /\ b' # N /\ main.offset \in Nat
    BY <1>2, <1>5, <2>1
  <2> QED
    BY <1>1, <1>2, <1>3, <2>1, <2>2, <2>3, ReaderReleasesInv
<1> QED
  BY <1>2, <1>4, <1>5

LEMMA CommitRestInv ==
    ASSUME AtomicByInterrupt, QueueInv, CommitRest
    PROVE  QueueInv'
<1> USE QueueAssumption DEF QueueInv
<1>1. main.pc = "popRest" /\ ReaderRuns /\ main' = [main EXCEPT !.pc = "look", !.offset = 0]
      /\ consumed' = consumed + main.offset /\ b' = main.offset
      /\ UNCHANGED <<kind, storage, e, flag, pending, irq, aborted, published, arrived>>
  BY DEF CommitRest
<1>2. e \in 0 .. N - 1 /\ main.offset \in 0 .. N - 1
  BY <1>1, ReaderSeesEnd, NumberTypes
<1>3. main.offset <= Size(b, e) /\ b \in {0, N}
  BY <1>1 DEF ReaderInside
<1>4. main' \in ReaderStates /\ main'.pc = "look"
  BY <1>1, ZeroOffset, ReaderGoes DEF TypeOK
<1>5. b' \in 0 .. N /\ b' # N /\ (b' = b + main.offset \/ b' = b + main.offset - N)
  BY <1>1, <1>2, <1>3
<1> QED
  BY <1>1, <1>2, <1>3, <1>4, <1>5, ReaderReleasesInv

LEMMA QueueNextInv ==
    ASSUME AtomicByInterrupt, QueueInv, [Next]_vars
    PROVE  QueueInv'
<1>1. CASE Interrupt
  <2>1. 1 \in 1 .. MaxRange
    BY QueueAssumption
  <2> QED
    BY <1>1, <2>1, ArrivesInv DEF Interrupt
<1>2. CASE WriterStep
  BY <1>2, CopyInv, PublishInv, WrapEndInv, NotifyInv DEF WriterStep
<1>3. CASE ReaderStep
  BY <1>3, ExecuteInv, LookInv, GetInv, ExtractInv, GetMovesBeginInv, CommitInv, CommitRestInv
     DEF ReaderStep, Read
<1>4. CASE Rewind
  BY <1>4, RewindInv
<1>5. CASE UNCHANGED vars
  BY <1>5 DEF vars, queueVars, QueueInv, TypeOK, PointersInside, RoomLeft, LoadedBeginRoom, Size,
              Filled, Copied, Piece, ReaderInside, ReaderInOrder, FlagMeansPending, OneWakeup
<1> QED
  BY <1>1, <1>2, <1>3, <1>4, <1>5 DEF Next

\* For a storage of any size: no assertion fails, no byte that fits is dropped, and
\* the reader reads what was written, in order, while both move the pointers.
THEOREM QueueLosesNothing ==
    ASSUME AtomicByInterrupt
    PROVE  Spec => []NoByteLost
<1>1. QueueInv /\ [Next]_vars => QueueInv'
  BY QueueNextInv
<1>2. QueueInv => NoByteLost
  BY NumberTypes DEF QueueInv, NoByteLost, RoomLeft
<1> QED
  BY <1>1, <1>2, QueueInitInv, PTL DEF Spec

\* For a storage of any size: bytes that wait have somebody who will look at them,
\* and the queue takes one place in the dispatcher.
THEOREM QueueAlwaysWakes ==
    ASSUME AtomicByInterrupt
    PROVE  Spec => []OneWakeup
<1>1. QueueInv /\ [Next]_vars => QueueInv'
  BY QueueNextInv
<1>2. QueueInv => OneWakeup
  BY DEF QueueInv
<1> QED
  BY <1>1, <1>2, QueueInitInv, PTL DEF Spec

-----------------------------------------------------------------------------
(* Both queues implement ByteStream.                                        *)

\* The n bytes that follow the first c.
Numbered(c, n) == [k \in 1 .. n |-> c + k]

LEMMA NumberedSeq ==
    ASSUME NEW c \in Nat, NEW n \in Nat
    PROVE  Numbered(c, n) \in Seq(Nat) /\ Len(Numbered(c, n)) = n
BY DEF Numbered

LEMMA NumberedConcat ==
    ASSUME NEW c \in Nat, NEW n \in Nat, NEW m \in Nat
    PROVE  Numbered(c, n) \o Numbered(c + n, m) = Numbered(c, n + m)
BY DEF Numbered

LEMMA NumberedSubSeq ==
    ASSUME NEW c \in Nat, NEW n \in Nat, NEW t \in 0 .. n
    PROVE  SubSeq(Numbered(c, n), t + 1, n) = Numbered(c + t, n - t)
BY DEF Numbered

\* What waits between the begin and the end is the bytes that were published and
\* not yet released.
LEMMA UnreadNumbered == QueueInv => Unread = Numbered(consumed, published - consumed)
<1> SUFFICES ASSUME QueueInv
             PROVE  Unread = Numbered(consumed, published - consumed)
  OBVIOUS
<1>1. Size(b, e) = published - consumed /\ Size(b, e) \in Nat
  BY NumberTypes, QueueAssumption DEF QueueInv, RoomLeft, Size
<1>2. \A k \in 1 .. Size(b, e) : storage[Wrap(b + k - 1)] = consumed + k
  BY NumberTypes, QueueAssumption DEF QueueInv, RoomLeft, Size, Wrap, Filled
<1> QED
  BY <1>1, <1>2 DEF Unread, Numbered

\* Where the reader releases bytes, how many, and that nothing else changes the
\* counts but the move of the end.
LEMMA CountsChange ==
    ASSUME AtomicByInterrupt, QueueInv, [Next]_vars
    PROVE  \/ Publish
           \/ UNCHANGED <<published, consumed>>
           \/ published' = published /\ \E t \in Nat : consumed' = consumed + t
<1>1. CASE Interrupt
  BY <1>1 DEF Interrupt, AddElement, AddRange, ReceiveData
<1>2. CASE WriterStep
  BY <1>2 DEF WriterStep, Copy, WrapEnd, Notify, Schedule
<1>3. CASE Rewind \/ Execute \/ ClearFlag \/ Look \/ Read
  BY <1>3 DEF Rewind, Execute, ClearFlag, Look, Read, Get, Extract
<1>4. CASE GetMovesBegin
  BY <1>4 DEF GetMovesBegin
<1>5. CASE Commit
  <2>1. b \in 0 .. N /\ main.offset \in Nat /\ N - b \in Nat /\ Least(main.offset, N - b) \in Nat
    BY NumberTypes, QueueAssumption DEF QueueInv, Least
  <2>2. PICK t \in {N - b, main.offset, Least(main.offset, N - b)} :
            consumed' = consumed + t /\ published' = published
    BY <1>5 DEF Commit
  <2> QED
    BY <2>1, <2>2
<1>6. CASE CommitRest
  BY <1>6, NumberTypes DEF CommitRest, QueueInv
<1>7. CASE UNCHANGED vars
  BY <1>7 DEF vars
<1> QED
  BY <1>1, <1>2, <1>3, <1>4, <1>5, <1>6, <1>7 DEF Next, ReaderStep

LEMMA StreamInitRefined == Init => Stream!Init
<1> SUFFICES ASSUME Init
             PROVE  Stream!Init
  OBVIOUS
<1>1. Unread = Numbered(0, 0) /\ published = 0
  BY QueueInitInv, UnreadNumbered DEF Init
<1>2. Numbered(0, 0) = <<>>
  BY DEF Numbered
<1> QED
  BY <1>1, <1>2 DEF Stream!Init

LEMMA StreamNextRefined ==
    ASSUME AtomicByInterrupt, QueueInv, [Next]_vars
    PROVE  [Stream!Next]_<<Unread, published>>
<1> DEFINE n == published - consumed
<1>1. QueueInv'
  BY QueueNextInv
<1>2. Unread = Numbered(consumed, n) /\ Unread' = Numbered(consumed', published' - consumed')
  <2>1. (QueueInv => Unread = Numbered(consumed, published - consumed))'
    BY UnreadNumbered, PTL
  <2> QED
    BY <1>1, <2>1, UnreadNumbered
<1>3. n \in Nat /\ n = Size(b, e) /\ consumed \in Nat /\ published \in Nat /\ published = consumed + n
  <2>1. Size(b, e) \in Nat
    BY NumberTypes, QueueAssumption DEF QueueInv, Size
  <2> QED
    BY <2>1, NumberTypes DEF QueueInv, RoomLeft
<1>4. Len(Unread) = n
  BY <1>2, <1>3, NumberedSeq
<1>5. CASE UNCHANGED <<published, consumed>>
  BY <1>2, <1>5
<1>6. CASE Publish
  <2>1. Piece \in 1 .. N - 1 /\ n + Piece <= N - 1
    BY <1>3, <1>6, NumberTypes, QueueAssumption
       DEF Publish, QueueInv, PointersInside, RoomLeft, Piece, Least
  <2>2. published' = published + Piece /\ consumed' = consumed
    BY <1>6 DEF Publish
  <2>3. Unread' = Unread \o Numbered(published, Piece)
    <3>1. Unread' = Numbered(consumed, n + Piece)
      BY <1>2, <1>3, <2>1, <2>2
    <3>2. Numbered(consumed, n) \o Numbered(consumed + n, Piece) = Numbered(consumed, n + Piece)
      <4>1. Piece \in Nat
        BY <2>1
      <4> HIDE DEF n
      <4> QED
        BY <1>3, <4>1, NumberedConcat
    <3> QED
      BY <1>2, <1>3, <3>1, <3>2
  <2>4. Stream!Put(Piece)
    BY <1>4, <2>1, <2>2, <2>3 DEF Stream!Put, Numbered
  <2> QED
    BY <2>1, <2>4 DEF Stream!Next
<1>7. ASSUME NEW t \in Nat, published' = published, consumed' = consumed + t
      PROVE  [Stream!Next]_<<Unread, published>>
  <2>1. t \in 0 .. n
    BY <1>1, <1>3, <1>7 DEF QueueInv, TypeOK
  <2>2. Unread' = SubSeq(Unread, t + 1, n)
    <3>1. Unread' = Numbered(consumed + t, n - t)
      BY <1>2, <1>3, <1>7
    <3> QED
      BY <1>2, <1>3, <2>1, <3>1, NumberedSubSeq
  <2>3. CASE t = 0
    BY <1>2, <1>3, <1>7, <2>3
  <2>4. CASE t # 0
    <3>1. t \in 1 .. N - 1
      BY <1>3, <2>1, <2>4, NumberTypes, QueueAssumption DEF QueueInv, RoomLeft
    <3>2. Stream!Take(t)
      BY <1>4, <1>7, <2>1, <2>2 DEF Stream!Take
    <3> QED
      BY <3>1, <3>2 DEF Stream!Next
  <2> QED
    BY <2>3, <2>4
<1> QED
  BY <1>5, <1>6, <1>7, CountsChange

\* Both queues, with a storage of any size N and whatever the interleaving, are
\* the stream of bytes that ByteStream specifies, of capacity N - 1.
THEOREM QueueImplementsStream ==
    ASSUME AtomicByInterrupt
    PROVE  Spec => ImplementsStream
<1>1. QueueInv /\ [Next]_vars => QueueInv'
  BY QueueNextInv
<1>2. QueueInv /\ [Next]_vars => [Stream!Next]_<<Unread, published>>
  BY StreamNextRefined
<1> QED
  BY <1>1, <1>2, QueueInitInv, StreamInitRefined, PTL DEF Spec, ImplementsStream, Stream!Spec

=============================================================================
