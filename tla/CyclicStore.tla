----------------------------- MODULE CyclicStore -----------------------------
(***************************************************************************)
(* services::CyclicStore: a log of records in flash that reclaims its      *)
(* oldest sector when it is full, recovers its position after a reset, and *)
(* is read and erased through iterators.                                   *)
(*                                                                         *)
(* Flash is modelled byte by byte, with the status bytes of the code.  All *)
(* operations claim the same resource, so one is under way at a time; an   *)
(* operation that only reads is one step, one that writes is one step for  *)
(* each write or erase, and a reset may come between any two steps and     *)
(* within the writes of more than one byte.                                *)
(***************************************************************************)
EXTENDS Integers, Sequences, FiniteSets, Bitwise, SequencesExt

CONSTANTS
    NumberOfSectors,
    SizeOfSector,       \* all sectors have one size
    RecordSizes,        \* the sizes of the records that are added
    MaxRecords,         \* bound: how many records are added
    MaxResets,          \* bound: how many resets there are
    ClearsWhileReading  \* the application also clears the store while it has an iterator

\* The size of a block's header and of a sector's status.
HeaderSize == 3
StatusSize == 1

ASSUME CyclicStoreAssumption ==
    /\ NumberOfSectors \in Nat /\ NumberOfSectors >= 2
    /\ SizeOfSector \in Nat
    /\ RecordSizes \subseteq 1 .. SizeOfSector - HeaderSize - StatusSize
    /\ MaxRecords \in 1 .. 239 /\ MaxResets \in Nat
    /\ ClearsWhileReading \in BOOLEAN

VARIABLES
    flash,          \* the bytes
    startAddress,   \* where reading starts
    endAddress,     \* where the next block goes
    pc,             \* what the operation under way does next
    sectorIndex,    \* the next sector EraseAll erases
    record,         \* the record Add writes: its number, size and bytes written
    iterator,       \* the iterator of the application, a set with at most one
    added,          \* how many records were added
    resets,         \* how many resets there were
    outside         \* an address outside the flash was accessed: anything may happen

storeVars == <<flash, startAddress, endAddress, pc, sectorIndex, record, iterator, added, resets, outside>>

VARIABLES
    log,            \* history: the records that are complete, in order
    lastRead        \* history: the last record the iterator read, 0 when none

vars == <<storeVars, log, lastRead>>

-----------------------------------------------------------------------------
(* hal::Flash                                                               *)

TotalSize == NumberOfSectors * SizeOfSector
Addresses == 0 .. TotalSize - 1
SectorOfAddress(a) == a \div SizeOfSector
AddressOfSector(i) == i * SizeOfSector
AddressOffsetInSector(a) == a % SizeOfSector
AtStartOfSector(a) == AddressOffsetInSector(a) = 0
StartOfNextSector(a) == AddressOfSector(SectorOfAddress(a) + 1)
StartOfNextSectorCyclical(a) == AddressOfSector((SectorOfAddress(a) + 1) % NumberOfSectors)
StartOfPreviousSectorCyclical(a) ==
    AddressOfSector((SectorOfAddress(a) + NumberOfSectors - 1) % NumberOfSectors)

\* Programming clears bits, it never sets one.
Programmed(f, a, byte) == [f EXCEPT ![a] = @ & byte]
Erased(f, i) == [a \in Addresses |-> IF SectorOfAddress(a) = i THEN 255 ELSE f[a]]

\* CyclicStore::BlockStatus and CyclicStore::SectorStatus
empty == 255
emptyUntilEnd == 127
writingLength == 254
writingData == 252
dataReady == 248
erased == 240

used == 254
firstInCycle == 252

\* A header read near the end of the flash goes on at its begin.
BlockHeader(f, a) ==
    [status |-> f[a % TotalSize],
     length |-> f[(a + 1) % TotalSize] + 256 * f[(a + 2) % TotalSize]]

-----------------------------------------------------------------------------
(* Recovery, as functions of the flash.                                     *)

RecoverPhase ==
    {"searchingStartOrEmpty", "checkingAllUsed", "checkingUsedFollowedByEmpty",
     "checkingAllEmpty", "checkingAllUsedOrAllEmpty", "corrupt"}

\* What the scan of sector i makes of the phase p and the addresses found.
RecoverSector(f, r, i) ==
    LET status == f[AddressOfSector(i)]
        At(p, start, end) == [phase |-> p, start |-> start, end |-> end]
        To(p) == [r EXCEPT !.phase = p]
    IN
    CASE status = firstInCycle /\ r.phase = "searchingStartOrEmpty" ->
            At(IF i = 0 THEN "checkingUsedFollowedByEmpty" ELSE "checkingAllUsed",
               AddressOfSector(i), AddressOfSector(i))
      [] status = used /\ r.phase = "checkingAllUsedOrAllEmpty" -> To("checkingAllUsed")
      [] status = used /\ r.phase \in {"checkingUsedFollowedByEmpty",
                                       "searchingStartOrEmpty", "checkingAllUsed"} -> r
      [] status = empty /\ r.phase = "searchingStartOrEmpty" ->
            At("checkingAllUsedOrAllEmpty",
               StartOfNextSectorCyclical(AddressOfSector(i)), AddressOfSector(i))
      [] status = empty /\ r.phase = "checkingAllUsedOrAllEmpty" -> At("checkingAllEmpty", 0, 0)
      [] status = empty /\ r.phase = "checkingUsedFollowedByEmpty" ->
            At("checkingAllEmpty", r.start, AddressOfSector(i))
      [] status = empty /\ r.phase = "checkingAllEmpty" -> r
      [] OTHER -> To("corrupt")

RecoveredSectors(f) ==
    FoldLeft(LAMBDA r, i : RecoverSector(f, r, i),
             [phase |-> "searchingStartOrEmpty", start |-> 0, end |-> 0],
             [i \in 1 .. NumberOfSectors |-> i - 1])

\* The loop of RecoverEndAddress, at address a with the header h read last.
RECURSIVE EndAddressFrom(_, _, _)
EndAddressFrom(f, a, h) ==
    LET Read(b) == EndAddressFrom(f, b, BlockHeader(f, b))
        data == a + HeaderSize
    IN
    IF h.status = empty \/ AtStartOfSector(a) THEN a
    ELSE
    CASE h.status \in {dataReady, erased} /\ SectorOfAddress(data) = SectorOfAddress(data + h.length) ->
            Read(data + h.length)
      [] h.status \in {dataReady, erased} /\ SectorOfAddress(data) # SectorOfAddress(data + h.length) ->
            StartOfNextSectorCyclical(data)
      [] h.status = writingLength -> Read(data)
      [] h.status = writingData -> Read(data + h.length)
      [] OTHER -> StartOfNextSectorCyclical(a)

RecoverEndAddress(f, end) ==
    LET a == StartOfPreviousSectorCyclical(end) + StatusSize
    IN  EndAddressFrom(f, a, BlockHeader(f, a))

\* The loop of SanitizeSector within one sector: s holds the start address, the
\* sanitize address and the addresses where emptyUntilEnd is written.
RECURSIVE SanitizeFrom(_, _, _)
SanitizeFrom(f, s, sector) ==
    LET h == BlockHeader(f, s.address)
        next == CASE h.status \in {dataReady, writingData, erased} ->
                        (s.address + HeaderSize + h.length) % TotalSize
                  [] h.status = writingLength -> (s.address + HeaderSize) % TotalSize
                  [] OTHER -> StartOfNextSectorCyclical(s.address)
        known == h.status \in {dataReady, writingData, erased, writingLength, empty, emptyUntilEnd}
        skipped == IF AddressOffsetInSector(next) >= SizeOfSector - HeaderSize
                   THEN StartOfNextSectorCyclical(next)
                   ELSE next
        old == IF known THEN s.address ELSE next
    IN
    IF SectorOfAddress(s.address) # sector THEN s
    ELSE SanitizeFrom(f,
            [address |-> skipped,
             start   |-> IF h.status # dataReady /\ s.start = old THEN skipped ELSE s.start,
             writes  |-> IF h.status = empty THEN Append(s.writes, s.address) ELSE s.writes],
            sector)

SanitizeSector(f, s, sector) ==
    LET a == AddressOfSector(sector)
    IN  SanitizeFrom(f,
            [s EXCEPT !.address = a + StatusSize,
                      !.start = IF s.start = a THEN a + StatusSize ELSE @],
            sector)

\* The sectors from the start up to the one with the end.
SectorsToSanitize(start, end) ==
    LET first == SectorOfAddress(start)
        last == SectorOfAddress(end) + (IF SectorOfAddress(end) >= first THEN 0 ELSE NumberOfSectors)
    IN  [i \in 1 .. last - first |-> (first + i - 1) % NumberOfSectors]

RECURSIVE UpdateStartAddressInLastSector(_, _, _)
UpdateStartAddressInLastSector(f, start, end) ==
    LET a == IF AddressOffsetInSector(start) = 0 THEN start + StatusSize ELSE start
        h == BlockHeader(f, a)
    IN
    IF SectorOfAddress(start) # SectorOfAddress(end) \/ start >= end THEN start
    ELSE
    CASE h.status \in {writingData, erased} ->
            UpdateStartAddressInLastSector(f, (a + HeaderSize + h.length) % TotalSize, end)
      [] h.status = writingLength ->
            UpdateStartAddressInLastSector(f, (a + HeaderSize) % TotalSize, end)
      [] OTHER -> start

\* All of Recover but the erase of a corrupt flash: the addresses, the writes
\* of SanitizeSector, and whether the flash is to be erased first.
Recovered(f) ==
    LET r == RecoveredSectors(f)
        corrupt == r.phase \in {"corrupt", "searchingStartOrEmpty"}
        end == IF r.end # r.start \/ r.phase # "checkingAllEmpty"
               THEN RecoverEndAddress(f, r.end)
               ELSE r.end
        s == FoldLeft(LAMBDA t, i : SanitizeSector(f, t, i),
                      [address |-> 0, start |-> r.start, writes |-> <<>>],
                      SectorsToSanitize(r.start, end))
    IN
    IF corrupt \/ end = TotalSize
    THEN [erase |-> corrupt, start |-> 0, end |-> IF corrupt THEN 0 ELSE end, writes |-> <<>>]
    ELSE [erase  |-> FALSE,
          start  |-> UpdateStartAddressInLastSector(f, s.start, end),
          end    |-> end,
          writes |-> s.writes]

\* The flash after the first n writes of SanitizeSector.
Sanitized(f, writes, n) ==
    FoldLeft(LAMBDA g, a : Programmed(g, a, emptyUntilEnd), f, SubSeq(writes, 1, n))

-----------------------------------------------------------------------------
(* CyclicStore::Iterator.  The steps of Read are functions of the flash and *)
(* of the iterator's members, with the start address it may move.           *)

\* Iterator::Iterator(store)
NewIterator ==
    [delayed |-> TRUE, address |-> 0, used |-> TRUE, first |-> TRUE,
     previousErased |-> TRUE, previous |-> 0]

UpdateAddress(s, newAddress) ==
    [s EXCEPT !.start = IF @ = s.address THEN newAddress ELSE @, !.address = newAddress]

\* Sets s.outside when it reads the status of a sector that does not exist.
ReadSectorStatusIfAtStart(f, s) ==
    LET t == IF SectorOfAddress(s.address) # SectorOfAddress(s.address + HeaderSize - 1)
             THEN UpdateAddress(s, StartOfNextSector(s.address))
             ELSE s
        status == f[t.address]
    IN
    CASE ~AtStartOfSector(t.address) -> t
      [] AtStartOfSector(t.address) /\ t.address \notin Addresses -> [t EXCEPT !.outside = TRUE]
      [] OTHER ->
            [(IF status = empty THEN t ELSE UpdateAddress(t, t.address + StatusSize))
                EXCEPT !.used = (status = used) \/ (status = firstInCycle /\ t.first),
                       !.first = FALSE]

\* One round of the loop of Read, before the status of the next sector.
ReadBlock(f, s) ==
    LET h == BlockHeader(f, s.address)
        behind == IF SectorOfAddress(s.address + HeaderSize) = SectorOfAddress(s.address)
                  THEN s.address + HeaderSize
                  ELSE StartOfNextSectorCyclical(s.address)
        ready == [s EXCEPT !.address = behind]
        t == UpdateAddress(s, behind)
    IN
    CASE h.status = dataReady /\ AddressOffsetInSector(behind) + h.length <= SizeOfSector ->
            [ready EXCEPT !.address = (behind + h.length) % TotalSize,
                          !.previous = behind - HeaderSize,
                          !.previousErased = FALSE,
                          !.found = f[behind]]
      [] h.status = dataReady /\ AddressOffsetInSector(behind) + h.length > SizeOfSector ->
            UpdateAddress(ready, StartOfNextSectorCyclical(behind))
      [] h.status = emptyUntilEnd ->
            IF AtStartOfSector(behind) THEN t ELSE UpdateAddress(t, StartOfNextSectorCyclical(behind))
      [] h.status = empty ->
            [UpdateAddress(t, behind - HeaderSize) EXCEPT !.reachedEnd = TRUE, !.outside = (behind = 0)]
      [] h.status = writingLength -> t
      [] h.status \in {writingData, erased} -> UpdateAddress(t, behind + h.length)
      [] OTHER -> UpdateAddress(t, StartOfNextSectorCyclical(behind))

RECURSIVE ReadFrom(_, _)
ReadFrom(f, s) ==
    IF s.used /\ s.found = 0 /\ ~s.reachedEnd /\ ~s.outside
    THEN LET t == ReadBlock(f, s)
         IN  ReadFrom(f, IF t.outside THEN t ELSE ReadSectorStatusIfAtStart(f, t))
    ELSE s

\* Iterator::Read: what it leaves in its members, the record found (0 when
\* none), and the start address.
IteratorRead(f, i, start) ==
    ReadFrom(f, ReadSectorStatusIfAtStart(f,
        [address        |-> IF i.delayed THEN start ELSE i.address,
         used           |-> i.used,
         first          |-> i.first,
         previousErased |-> i.previousErased,
         previous       |-> i.previous,
         start          |-> start,
         found          |-> 0,
         reachedEnd     |-> FALSE,
         outside        |-> FALSE]))

\* The members of the iterator that IteratorRead left in s.
MembersOf(s) ==
    [delayed |-> FALSE, address |-> s.address, used |-> s.used, first |-> s.first,
     previousErased |-> s.previousErased, previous |-> s.previous]

\* Mutant: the iterator is not told.
MutSectorIsErased(i, sector) == i

\* Iterator::SectorIsErased
SectorIsErased(i, sector) ==
    LET moved == IF SectorOfAddress(i.address) = sector
                 THEN [i EXCEPT !.address = StartOfNextSectorCyclical(@), !.first = TRUE]
                 ELSE i
    IN  [moved EXCEPT !.previousErased = @ \/ SectorOfAddress(i.previous) = sector]

\* Stands for what is read once an address outside the flash was accessed.
Undefined == -1

\* Everything an iterator still reads.
RECURSIVE ReadAll(_, _, _)
ReadAll(f, i, start) ==
    LET s == IteratorRead(f, i, start)
    IN  CASE s.outside -> <<Undefined>>
          [] ~s.outside /\ s.found = 0 -> <<>>
          [] OTHER -> <<s.found>> \o ReadAll(f, MembersOf(s), s.start)

\* What is read after a reset, when it comes now.
Contents(f) ==
    LET r == Recovered(f)
    IN  CASE r.erase -> <<>>
          [] r.end = TotalSize -> <<Undefined>>
          [] OTHER -> ReadAll(Sanitized(f, r.writes, Len(r.writes)), NewIterator, r.start)

-----------------------------------------------------------------------------
(* The operations of the store.                                             *)

NoRecord == [number |-> 0, size |-> 0, written |-> 0]

\* A write of an operation: the next step is step.
Write(a, byte, step) ==
    /\ flash' = Programmed(flash, a, byte)
    /\ pc' = step

Wrapped(a) == IF a = TotalSize THEN 0 ELSE a

\* Add and AddPartial of a record of this total size, with
\* FillSectorIfDataDoesNotFit.
Add(size) ==
    /\ pc = "idle" /\ added < MaxRecords
    /\ added' = added + 1
    /\ record' = [number |-> added + 1, size |-> size, written |-> 0]
    /\ IF AddressOffsetInSector(endAddress) + HeaderSize + size > SizeOfSector
       THEN /\ Write(endAddress, emptyUntilEnd, "erase")
            /\ endAddress' = StartOfNextSectorCyclical(endAddress)
       ELSE /\ pc' = IF AtStartOfSector(endAddress) THEN "erase" ELSE "writeLengthStatus"
            /\ UNCHANGED <<flash, endAddress>>
    /\ UNCHANGED <<startAddress, sectorIndex, iterator, resets, outside, log, lastRead>>

\* EraseSectorIfAtStart, the erase.
EraseSectorIfAtStart ==
    /\ pc = "erase"
    /\ flash' = Erased(flash, SectorOfAddress(endAddress))
    /\ log' = SelectSeq(log, LAMBDA r : r.sector # SectorOfAddress(endAddress))
    /\ pc' = "markFirst"
    /\ UNCHANGED <<startAddress, endAddress, sectorIndex, record, iterator, added, resets, outside, lastRead>>

\* Mutant: the start address is left in the sector that was erased.
MutMarkFirstInCycle ==
    LET next == StartOfNextSectorCyclical(endAddress)
    IN
    /\ pc = "markFirst"
    /\ IF flash[next] = used
       THEN Write(next, firstInCycle, "writeSectorStatus")
       ELSE pc' = "writeSectorStatus" /\ UNCHANGED flash
    /\ UNCHANGED <<startAddress, endAddress, sectorIndex, record, iterator, added, resets, outside, log, lastRead>>

\* The next sector becomes the first in the cycle when it is in use: by
\* EraseSectorIfAtStart when reading started in the sector just erased, and starts
\* there from now on; else by WriteSectorStatusIfAtStartOfSector.
MarkFirstInCycle ==
    LET next == StartOfNextSectorCyclical(endAddress)
        sector == SectorOfAddress(endAddress)
    IN
    /\ pc = "markFirst"
    /\ IF flash[next] = used
       THEN Write(next, firstInCycle, "writeSectorStatus")
       ELSE pc' = "writeSectorStatus" /\ UNCHANGED flash
    /\ IF flash[next] = used /\ SectorOfAddress(startAddress) = sector
       THEN /\ startAddress' = next
            /\ iterator' = {SectorIsErased(i, sector) : i \in iterator}
       ELSE UNCHANGED <<startAddress, iterator>>
    /\ UNCHANGED <<endAddress, sectorIndex, record, added, resets, outside, log, lastRead>>

WriteSectorStatusIfAtStartOfSector ==
    /\ pc = "writeSectorStatus"
    /\ Write(endAddress, IF endAddress = startAddress THEN firstInCycle ELSE used, "writeLengthStatus")
    /\ endAddress' = endAddress + StatusSize
    /\ UNCHANGED <<startAddress, sectorIndex, record, iterator, added, resets, outside, log, lastRead>>

\* WriteRange: the status bytes, the length, the data (all of it, or what is at
\* hand of a partial record) and the status that completes the record.
WriteLengthStatus ==
    /\ pc = "writeLengthStatus"
    /\ Write(endAddress, writingLength, "writeLength")
    /\ UNCHANGED <<startAddress, endAddress, sectorIndex, record, iterator, added, resets, outside, log, lastRead>>

WithLength(f) == Programmed(Programmed(f, endAddress + 1, record.size % 256), endAddress + 2, record.size \div 256)

WriteLength ==
    /\ pc = "writeLength"
    /\ flash' = WithLength(flash)
    /\ pc' = "writeDataStatus"
    /\ UNCHANGED <<startAddress, endAddress, sectorIndex, record, iterator, added, resets, outside, log, lastRead>>

\* Mutant: the record is marked as complete before its data is written.
MutWriteDataStatus ==
    /\ pc = "writeDataStatus"
    /\ Write(endAddress, dataReady, "writeData")
    /\ UNCHANGED <<startAddress, endAddress, sectorIndex, record, iterator, added, resets, outside, log, lastRead>>

WriteDataStatus ==
    /\ pc = "writeDataStatus"
    /\ Write(endAddress, writingData, "writeData")
    /\ UNCHANGED <<startAddress, endAddress, sectorIndex, record, iterator, added, resets, outside, log, lastRead>>

WithData(f, n) ==
    [a \in Addresses |->
        IF a \in endAddress + HeaderSize + record.written .. endAddress + HeaderSize + record.written + n - 1
        THEN f[a] & record.number
        ELSE f[a]]

WriteData(n) ==
    /\ pc = "writeData"
    /\ flash' = WithData(flash, n)
    /\ record' = [record EXCEPT !.written = @ + n]
    /\ pc' = IF record.written + n = record.size THEN "writeReady" ELSE "writeData"
    /\ UNCHANGED <<startAddress, endAddress, sectorIndex, iterator, added, resets, outside, log, lastRead>>

WriteReady ==
    /\ pc = "writeReady"
    /\ Write(endAddress, dataReady, "idle")
    /\ endAddress' = Wrapped(endAddress + record.written + HeaderSize)
    /\ record' = NoRecord
    /\ log' = Append(log, [number |-> record.number, sector |-> SectorOfAddress(endAddress)])
    /\ UNCHANGED <<startAddress, sectorIndex, iterator, added, resets, outside, lastRead>>

\* Clear and ClearUrgent
Clear ==
    /\ pc = "idle"
    /\ ClearsWhileReading \/ iterator = {}
    /\ startAddress' = 0
    /\ endAddress' = 0
    /\ sectorIndex' = 0
    /\ pc' = "eraseAll"
    /\ UNCHANGED <<flash, record, iterator, added, resets, outside, log, lastRead>>

\* One sector of flash.EraseAll, in Clear and in Recover.
EraseAll ==
    /\ pc = "eraseAll"
    /\ flash' = Erased(flash, sectorIndex)
    /\ log' = SelectSeq(log, LAMBDA r : r.sector # sectorIndex)
    /\ \/ /\ sectorIndex + 1 < NumberOfSectors
          /\ sectorIndex' = sectorIndex + 1
          /\ UNCHANGED pc
       \/ /\ sectorIndex + 1 = NumberOfSectors
          /\ sectorIndex' = 0
          /\ pc' = "idle"
    /\ UNCHANGED <<startAddress, endAddress, record, iterator, added, resets, outside, lastRead>>

-----------------------------------------------------------------------------
(* The iterator.                                                            *)

Begin ==
    /\ iterator = {}
    /\ iterator' = {NewIterator}
    /\ lastRead' = 0
    /\ UNCHANGED <<flash, startAddress, endAddress, pc, sectorIndex, record, added, resets, outside, log>>

Destroy ==
    /\ iterator # {}
    /\ iterator' = {}
    /\ lastRead' = 0
    /\ UNCHANGED <<flash, startAddress, endAddress, pc, sectorIndex, record, added, resets, outside, log>>

Read ==
    /\ pc = "idle"
    /\ \E i \in iterator :
        LET s == IteratorRead(flash, i, startAddress)
        IN  IF s.outside
            THEN /\ outside' = TRUE /\ pc' = "outside"
                 /\ UNCHANGED <<iterator, startAddress, lastRead>>
            ELSE /\ iterator' = {MembersOf(s)}
                 /\ startAddress' = s.start
                 /\ lastRead' = IF s.found = 0 THEN lastRead ELSE s.found
                 /\ UNCHANGED <<outside, pc>>
    /\ UNCHANGED <<flash, endAddress, sectorIndex, record, added, resets, log>>

ErasePrevious ==
    /\ pc = "idle"
    /\ \E i \in iterator :
        /\ ~i.previousErased
        /\ flash' = Programmed(flash, i.previous, erased)
        /\ startAddress' = IF i.previous \in {startAddress, startAddress + StatusSize}
                           THEN i.address
                           ELSE startAddress
        /\ iterator' = {[i EXCEPT !.previousErased = TRUE]}
        /\ log' = SelectSeq(log, LAMBDA r : r.number # flash[i.previous + HeaderSize])
    /\ UNCHANGED <<endAddress, pc, sectorIndex, record, added, resets, outside, lastRead>>

-----------------------------------------------------------------------------
(* Resets.                                                                  *)

\* What a write of several bytes that is cut leaves: some of the bytes.
CutWrites ==
    CASE pc = "writeLength" -> {flash, Programmed(flash, endAddress + 1, record.size % 256)}
      [] pc = "writeData" -> {flash, WithData(flash, 1)}
      [] OTHER -> {flash}

\* Recover goes on from here at the next start.
Reset ==
    /\ pc \notin {"recover", "outside"} /\ resets < MaxResets
    /\ resets' = resets + 1
    /\ flash' \in CutWrites
    /\ pc' = "recover"
    /\ startAddress' = 0 /\ endAddress' = 0 /\ sectorIndex' = 0
    /\ record' = NoRecord
    /\ iterator' = {} /\ lastRead' = 0
    /\ log' = IF Contents(flash') = <<>> THEN <<>> ELSE log
    /\ UNCHANGED <<added, outside>>

\* Recover, up to the erase of a corrupt flash or to its end; or up to one of
\* the writes of SanitizeSector and a reset behind it.
Recover ==
    LET r == Recovered(flash)
    IN
    /\ pc = "recover"
    /\ \E n \in 0 .. Len(r.writes) :
        /\ flash' = Sanitized(flash, r.writes, n)
        /\ IF n = Len(r.writes)
           THEN /\ startAddress' = r.start
                /\ endAddress' = r.end
                /\ outside' = (r.end = TotalSize)
                /\ pc' = CASE r.erase -> "eraseAll" [] r.end = TotalSize -> "outside" [] OTHER -> "idle"
           ELSE UNCHANGED <<startAddress, endAddress, pc, outside>>
    /\ UNCHANGED <<sectorIndex, record, iterator, added, resets, log, lastRead>>

Init ==
    /\ flash = [a \in Addresses |-> 255]
    /\ startAddress = 0 /\ endAddress = 0
    /\ pc = "recover" /\ sectorIndex = 0
    /\ record = NoRecord
    /\ iterator = {} /\ lastRead = 0
    /\ added = 0 /\ resets = 0
    /\ outside = FALSE
    /\ log = <<>>

Next ==
    \/ \E size \in RecordSizes : Add(size)
    \/ EraseSectorIfAtStart \/ MarkFirstInCycle \/ WriteSectorStatusIfAtStartOfSector
    \/ WriteLengthStatus \/ WriteLength \/ WriteDataStatus
    \/ \E n \in {1, record.size - record.written} : WriteData(n)
    \/ WriteReady
    \/ Clear \/ EraseAll
    \/ Begin \/ Destroy \/ Read \/ ErasePrevious
    \/ Reset \/ Recover

Spec == Init /\ [][Next]_vars

-----------------------------------------------------------------------------
(* Properties.                                                              *)

Numbers(l) == [k \in DOMAIN l |-> l[k].number]

\* The complete records are read first, or the reading leaves the flash.  Once
\* all are read, an iterator that started within the newest sector may go on to
\* the first one and around the flash a second time.
IsLog(numbers) == IsPrefix(Numbers(log), numbers) \/ Contains(numbers, Undefined)

\* Whenever a reset comes, the store that recovers reads the complete records,
\* all of them and in order, and nothing else: no record that was cut, erased
\* or reclaimed, and no other bytes.  This is so whenever recovery does not take
\* the flash for corrupt.
RecordsSurviveReset ==
    pc # "outside" /\ ~Recovered(flash).erase => IsLog(Contents(flash))

\* Recovery never takes what resets leave behind for corrupt, so that no
\* complete record is lost to a reset.  Not so once all sectors are in use.
NoResetLosesRecords ==
    pc \notin {"eraseAll", "outside"} /\ log # <<>> => ~Recovered(flash).erase

\* Between operations a new iterator reads the complete records, whatever was
\* added, erased and reclaimed: what the store knows in memory (the start address
\* that Add, Read and ErasePrevious move) agrees with the flash.
StoreAgreesWithFlash ==
    pc = "idle" /\ ~Recovered(flash).erase => IsLog(ReadAll(flash, NewIterator, startAddress))

\* Whatever is added, erased or reclaimed between its reads, an iterator that
\* returns a record while there are complete ones behind its last one returns
\* the first of those, or starts over at the oldest (as it does when the sector
\* it waits in is reclaimed): it never skips a record, nor takes other bytes for
\* one.
NeverSkips ==
    [][lastRead' \notin {lastRead, 0} /\ ~Recovered(flash).erase =>
        LET later == SelectSeq(Numbers(log), LAMBDA n : n > lastRead)
        IN  later = <<>> \/ lastRead' \in {Head(later), log[1].number}]_vars

\* No operation accesses an address outside the flash.  Not so when a record ends
\* at the end of the flash.
StaysInside == ~outside

=============================================================================
