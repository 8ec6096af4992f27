-------------------------- MODULE Bootloader_proofs --------------------------
(***************************************************************************)
(* Proofs about StatusJournal and about Bootloader, which keeps one.  The  *)
(* first part is about the journal alone: no unit is programmed twice for  *)
(* any layout of the flash, and for a journal within one sector what is    *)
(* recorded reads back and the journal implements StatusRegister.          *)
(*                                                                         *)
(* The rest is about Bootloader, for any packs, any number of images,      *)
(* chunks, units and sectors, and resets at any moment.  A journal of      *)
(* several sectors is no register: an erase that a reset cuts between two  *)
(* of them leaves entries behind erased units, which may come to light     *)
(* again.  The second part says what of it can, the third one that the     *)
(* boot sequence and the application never record to such a journal.       *)
(***************************************************************************)
EXTENDS Bootloader, TLAPS

-----------------------------------------------------------------------------
(* The journal alone.                                                       *)

\* While the journal is being erased, the sectors EraseAll went past are erased
\* and the address the entry goes to afterwards is 0.
ErasedBehind ==
    phase = "erase" =>
        /\ address = 0
        /\ \A u \in Units : SectorOfUnit[u] < sector => flash[u] = Erased

\* A write is under way for a Record, never for a Clear.
WritesAnEntry == phase = "write" => entry \in Entries

JournalInv ==
    /\ JournalTypeOK
    /\ NoUnitProgrammedTwice
    /\ ErasedBehind
    /\ WritesAnEntry

\* Facts about the contents of a unit that several proofs use.
LEMMA UnitFacts ==
    /\ Erased \in UnitContents /\ Torn \in UnitContents /\ Erased # Torn
    /\ IsErased(Erased) /\ ~IsValid(Erased) /\ ~IsErased(Torn) /\ ~IsValid(Torn)
    /\ \A e \in Entries : IsValid(e) /\ ~IsErased(e) /\ e \in UnitContents /\ e # Erased
    /\ \A c \in UnitContents : IsErased(c) => c = Erased
    /\ \A c \in UnitContents : IsValid(c) => c \in Entries
BY DEF UnitContents, Entries, Erased, Torn, IsErased, IsValid

LEMMA MakeEntryType ==
    ASSUME NEW status \in UpgradePackStatus, NEW errorCode \in ErrorCodes
    PROVE  MakeStatusJournalEntry(status, errorCode) \in Entries
BY DEF MakeStatusJournalEntry, Entries

LEMMA ZeroInRange == 0 \in Units /\ 0 \in Sectors
BY GeometryAssumption DEF Units, Sectors

LEMMA SectorSetToType ==
    ASSUME flash \in [Units -> UnitContents], NEW s, NEW c \in UnitContents
    PROVE  SectorSetTo(s, c) \in [Units -> UnitContents]
BY DEF SectorSetTo

LEMMA JournalInitInv == JournalInit => JournalInv
BY UnitFacts, ZeroInRange
   DEF JournalInit, JournalInv, JournalTypeOK, NoUnitProgrammedTwice, ErasedBehind, WritesAnEntry

LEMMA JournalNextInv == JournalInv /\ [JournalNext]_jvars => JournalInv'
<1> SUFFICES ASSUME JournalInv, [JournalNext]_jvars
             PROVE  JournalInv'
  OBVIOUS
<1> USE DEF JournalInv
<1>1. ASSUME NEW status \in RecordedStatuses, NEW errorCode \in ErrorCodes,
             RecordBegin(status, errorCode)
      PROVE  JournalInv'
  <2>1. entry' \in Entries
    BY <1>1, MakeEntryType DEF RecordBegin, RecordedStatuses
  <2>2. CASE address' \in FirstErased(flash) /\ phase' = "write"
    <3>1. address' \in Units /\ flash[address'] = Erased
      BY <2>2, UnitFacts DEF FirstErased, JournalTypeOK
    <3> QED
      BY <1>1, <2>1, <2>2, <3>1, ZeroInRange
         DEF RecordBegin, JournalTypeOK, NoUnitProgrammedTwice, ErasedBehind, WritesAnEntry
  <2>3. CASE phase' = "erase" /\ address' = 0
    <3>1. \A u \in Units : ~(SectorOfUnit[u] < 0)
      BY GeometryAssumption DEF Sectors
    <3> QED
      BY <1>1, <2>1, <2>3, <3>1, ZeroInRange
         DEF RecordBegin, JournalTypeOK, NoUnitProgrammedTwice, ErasedBehind, WritesAnEntry
  <2> QED
    BY <1>1, <2>2, <2>3 DEF RecordBegin
<1>2. CASE Clear
  <2>1. \A u \in Units : ~(SectorOfUnit[u] < 0)
    BY GeometryAssumption DEF Sectors
  <2> QED
    BY <1>2, <2>1, ZeroInRange
       DEF Clear, JournalTypeOK, NoUnitProgrammedTwice, ErasedBehind, WritesAnEntry
<1>3. CASE EraseSector
  <2>1. flash' \in [Units -> UnitContents]
    BY <1>3, UnitFacts, SectorSetToType DEF EraseSector, JournalTypeOK
  <2>2. address = 0 /\ phase = "erase" /\ cut' \in BOOLEAN
    BY <1>3 DEF EraseSector, ErasedBehind, JournalTypeOK
  <2>3. \A u \in Units : SectorOfUnit[u] < sector + 1 => flash'[u] = Erased
    BY <1>3, GeometryAssumption
       DEF EraseSector, SectorSetTo, ErasedBehind, JournalTypeOK, Sectors
  <2>4. CASE sector + 1 < NumberOfSectors /\ sector' = sector + 1 /\ UNCHANGED <<phase, address, entry>>
    <3>1. sector' \in Sectors
      BY <2>4, GeometryAssumption DEF JournalTypeOK, Sectors
    <3> QED
      BY <2>1, <2>2, <2>3, <2>4, <3>1
         DEF JournalTypeOK, NoUnitProgrammedTwice, ErasedBehind, WritesAnEntry
  <2>5. CASE sector + 1 = NumberOfSectors /\ entry # Erased /\ phase' = "write" /\ UNCHANGED <<sector, address, entry>>
    <3>1. flash'[0] = Erased
      BY <2>3, <2>5, ZeroInRange, GeometryAssumption DEF Sectors
    <3> QED
      BY <2>1, <2>2, <2>5, <3>1
         DEF JournalTypeOK, NoUnitProgrammedTwice, ErasedBehind, WritesAnEntry
  <2>6. CASE Return
    BY <2>1, <2>2, <2>6, ZeroInRange
       DEF Return, JournalTypeOK, NoUnitProgrammedTwice, ErasedBehind, WritesAnEntry
  <2> QED
    BY <1>3, <2>4, <2>5, <2>6 DEF EraseSector
<1>4. CASE WriteEntry
  <2>1. flash' \in [Units -> UnitContents]
    BY <1>4, UnitFacts DEF WriteEntry, JournalTypeOK, WritesAnEntry
  <2> QED
    BY <1>4, <2>1, ZeroInRange
       DEF WriteEntry, Return, JournalTypeOK, NoUnitProgrammedTwice, ErasedBehind, WritesAnEntry
<1>5. CASE PowerLoss
  <2>1. flash' \in [Units -> UnitContents]
    BY <1>5, UnitFacts, SectorSetToType DEF PowerLoss, JournalTypeOK, WritesAnEntry
  <2> QED
    BY <1>5, <2>1, ZeroInRange
       DEF PowerLoss, Return, JournalTypeOK, NoUnitProgrammedTwice, ErasedBehind, WritesAnEntry
<1>6. CASE UNCHANGED jvars
  BY <1>6 DEF jvars, JournalTypeOK, NoUnitProgrammedTwice, ErasedBehind, WritesAnEntry
<1> QED
  BY <1>1, <1>2, <1>3, <1>4, <1>5, <1>6
     DEF JournalNext, JournalStep, Record, RecordSame

\* The flash, the operation under way and its locals keep their types.
THEOREM JournalTypeCorrect == JournalSpec => []JournalTypeOK
<1>1. JournalInv => JournalTypeOK
  BY DEF JournalInv
<1> QED
  BY <1>1, JournalInitInv, JournalNextInv, PTL DEF JournalSpec

\* For every layout of units over sectors, and with resets at any point of a
\* write or an erase, Record programs erased units only.
THEOREM JournalNeverProgramsTwice == JournalSpec => []NoUnitProgrammedTwice
<1>1. JournalInv => NoUnitProgrammedTwice
  BY DEF JournalInv
<1> QED
  BY <1>1, JournalInitInv, JournalNextInv, PTL DEF JournalSpec

-----------------------------------------------------------------------------
(* A journal within one sector.                                             *)

SingleSector == NumberOfSectors = 1

\* Nothing is programmed behind an erased unit.  Two sectors do not keep this:
\* an erase cut between them leaves entries behind erased units.
Contiguous == \A u, v \in Units : u < v /\ flash[u] = Erased => flash[v] = Erased

\* Record writes the first erased unit.
WritesFirstErased ==
    phase = "write" => \A u \in Units : u < address => flash[u] # Erased

SectorInv == JournalInv /\ Contiguous /\ WritesFirstErased

Journals == [Units -> UnitContents]

LEMMA ValueType ==
    ASSUME NEW f \in Journals
    PROVE  Value(f) \in Entries \cup {Erased}
<1>1. CASE Latest(f) = {}
  BY <1>1 DEF Value
<1>2. CASE Latest(f) # {}
  <2> DEFINE u == CHOOSE w \in Latest(f) : TRUE
  <2>1. u \in Latest(f)
    BY <1>2
  <2>2. f[u] \in Entries
    BY <2>1, UnitFacts DEF Latest, Scanned, Journals
  <2> QED
    BY <1>2, <2>2 DEF Value
<1> QED
  BY <1>1, <1>2

\* A journal none of whose units holds an entry reads empty.
LEMMA NoEntryReadsEmpty ==
    ASSUME NEW f, \A u \in Units : ~IsValid(f[u])
    PROVE  Value(f) = Erased
BY DEF Value, Latest, Scanned

\* The value depends on the latest unit only.
LEMMA ValueAt ==
    ASSUME NEW f, NEW u \in Latest(f)
    PROVE  Value(f) = f[u]
<1>1. \A v \in Latest(f) : v = u
  BY DEF Latest, Scanned, Units
<1> QED
  BY <1>1 DEF Value

LEMMA UnitsBelow ==
    ASSUME NEW u \in Units
    PROVE  u \in Nat /\ \A v : v \in 0 .. u <=> v \in Units /\ v <= u
BY GeometryAssumption DEF Units

\* The scan of a journal whose first n units are programmed and whose others
\* are erased looks at those n.
LEMMA ScannedPrefix ==
    ASSUME NEW f, NEW n \in Nat,
           \A u \in Units : (u < n => ~IsErased(f[u])) /\ (n <= u => IsErased(f[u]))
    PROVE  Scanned(f) = {u \in Units : u < n}
<1>1. ASSUME NEW u \in Units, u < n
      PROVE  u \in Scanned(f)
  <2>1. \A v \in 0 .. u : v \in Units /\ v < n
    BY <1>1, UnitsBelow
  <2> QED
    BY <2>1 DEF Scanned
<1>2. ASSUME NEW u \in Scanned(f)
      PROVE  u \in Units /\ u < n
  <2>1. u \in Units /\ u \in 0 .. u /\ u \in Nat
    BY UnitsBelow DEF Scanned
  <2>2. ~IsErased(f[u])
    BY <2>1 DEF Scanned
  <2> QED
    BY <2>1, <2>2
<1> QED
  BY <1>1, <1>2

\* An entry written to the first erased unit of a contiguous journal is the
\* one that is read back.
LEMMA WrittenIsLatest ==
    ASSUME NEW f \in Journals, NEW a \in Units, NEW e \in Entries,
           \A u \in Units : u < a => f[u] # Erased,
           \A u \in Units : a < u => f[u] = Erased
    PROVE  Value([f EXCEPT ![a] = e]) = e
<1> DEFINE g == [f EXCEPT ![a] = e]
<1>0. \A u \in Units : u \in Nat
  BY UnitsBelow
<1>1. g \in Journals /\ g[a] = e /\ \A u \in Units \ {a} : g[u] = f[u]
  BY UnitFacts DEF Journals
<1> HIDE DEF g
<1>2. \A u \in Units : (u < a + 1 => ~IsErased(g[u])) /\ (a + 1 <= u => IsErased(g[u]))
  BY <1>0, <1>1, UnitFacts DEF Journals
<1>3. Scanned(g) = {u \in Units : u < a + 1}
  BY <1>0, <1>2, ScannedPrefix
<1>4. a \in Scanned(g) /\ \A u \in Scanned(g) : u <= a
  BY <1>0, <1>3
<1>5. a \in Latest(g)
  BY <1>1, <1>4, UnitFacts DEF Latest
<1>6. Value(g) = e
  BY <1>1, <1>5, ValueAt
<1> QED
  BY <1>6 DEF g

\* A torn entry in the first erased unit of a contiguous journal changes
\* nothing of what is read.
LEMMA TornIsSkipped ==
    ASSUME NEW f \in Journals, NEW a \in Units,
           \A u \in Units : u < a => f[u] # Erased,
           \A u \in Units : a <= u => f[u] = Erased
    PROVE  Value([f EXCEPT ![a] = Torn]) = Value(f)
<1> DEFINE g == [f EXCEPT ![a] = Torn]
<1>0. \A u \in Units : u \in Nat
  BY UnitsBelow
<1>1. g \in Journals /\ g[a] = Torn /\ \A u \in Units \ {a} : g[u] = f[u]
  BY UnitFacts DEF Journals
<1> HIDE DEF g
<1>2. \A u \in Units : (u < a => ~IsErased(f[u])) /\ (a <= u => IsErased(f[u]))
  BY UnitFacts DEF Journals
<1>3. \A u \in Units : (u < a + 1 => ~IsErased(g[u])) /\ (a + 1 <= u => IsErased(g[u]))
  BY <1>0, <1>1, <1>2, UnitFacts
<1>4. Scanned(f) = {u \in Units : u < a}
  BY <1>0, <1>2, ScannedPrefix
<1>5. Scanned(g) = {u \in Units : u < a + 1}
  BY <1>0, <1>3, ScannedPrefix
<1>6. \A u \in Units : u < a => (IsValid(g[u]) <=> IsValid(f[u])) /\ g[u] = f[u]
  BY <1>0, <1>1
<1>7. ~IsValid(g[a])
  BY <1>1, UnitFacts
<1>8. Latest(f) = Latest(g) /\ Latest(f) \subseteq {u \in Units : u < a}
  <2>1. \A u \in Scanned(g) : IsValid(g[u]) => u \in Scanned(f)
    BY <1>0, <1>4, <1>5, <1>7
  <2>2. \A u \in Scanned(f) : u \in Scanned(g) /\ (IsValid(g[u]) <=> IsValid(f[u]))
    BY <1>0, <1>4, <1>5, <1>6
  <2>3. \A u : u \in Latest(f) <=> u \in Latest(g)
    BY <2>1, <2>2 DEF Latest
  <2> QED
    BY <1>4, <2>3 DEF Latest
<1>9. Value(g) = Value(f)
  <2>1. CASE Latest(f) = {}
    BY <1>8, <2>1 DEF Value
  <2>2. CASE Latest(f) # {}
    <3>1. PICK u \in Latest(f) : TRUE
      BY <2>2
    <3>2. Value(f) = f[u] /\ Value(g) = g[u]
      BY <1>8, <3>1, ValueAt
    <3> QED
      BY <1>6, <1>8, <3>1, <3>2
  <2> QED
    BY <2>1, <2>2
<1> QED
  BY <1>9 DEF g

\* In one sector an erase sets every unit.
LEMMA SingleSectorSetTo ==
    ASSUME SingleSector, NEW c
    PROVE  SectorSetTo(0, c) = [u \in Units |-> c]
<1>1. \A u \in Units : SectorOfUnit[u] = 0
  BY GeometryAssumption DEF SingleSector, Sectors
<1> QED
  BY <1>1 DEF SectorSetTo

LEMMA SectorInitInv == JournalInit => SectorInv
BY JournalInitInv DEF SectorInv, JournalInit, Contiguous, WritesFirstErased

LEMMA SectorNextInv ==
    ASSUME SingleSector, SectorInv, [JournalNext]_jvars
    PROVE  SectorInv'
<1>1. JournalInv'
  BY JournalNextInv DEF SectorInv
<1> SUFFICES Contiguous' /\ WritesFirstErased'
  BY <1>1 DEF SectorInv
<1> USE DEF SectorInv, JournalInv
<1>2. ASSUME NEW status \in RecordedStatuses, NEW errorCode \in ErrorCodes,
             RecordBegin(status, errorCode)
      PROVE  Contiguous' /\ WritesFirstErased'
  <2>1. CASE address' \in FirstErased(flash) /\ phase' = "write"
    BY <1>2, <2>1, UnitFacts DEF RecordBegin, FirstErased, Contiguous, WritesFirstErased, JournalTypeOK
  <2>2. CASE phase' = "erase"
    BY <1>2, <2>2 DEF RecordBegin, Contiguous, WritesFirstErased
  <2> QED
    BY <1>2, <2>1, <2>2 DEF RecordBegin
<1>3. CASE Clear
  BY <1>3 DEF Clear, Contiguous, WritesFirstErased
<1>4. CASE EraseSector
  <2>1. sector = 0 /\ flash' = [u \in Units |-> Erased]
    BY <1>4, SingleSectorSetTo, GeometryAssumption
       DEF EraseSector, JournalTypeOK, Sectors, SingleSector
  <2>2. address' = 0
    BY <1>4 DEF EraseSector, ErasedBehind, Return
  <2> QED
    BY <2>1, <2>2 DEF Contiguous, WritesFirstErased, Units
<1>5. CASE WriteEntry
  <2>1. entry # Erased
    BY <1>5, UnitFacts DEF WriteEntry, WritesAnEntry
  <2> QED
    BY <1>5, <2>1 DEF WriteEntry, Return, Contiguous, WritesFirstErased, JournalTypeOK, Units
<1>6. CASE PowerLoss
  <2>1. CASE phase = "write"
    <3>1. PICK u \in {flash[address], Torn, entry} : flash' = [flash EXCEPT ![address] = u]
      BY <1>6, <2>1 DEF PowerLoss
    <3>2. \A v \in Units : address < v => flash[v] = Erased
      BY <2>1 DEF Contiguous, NoUnitProgrammedTwice, JournalTypeOK
    <3>3. \A v \in Units : v < address => flash[v] # Erased
      BY <2>1 DEF WritesFirstErased
    <3>4. Contiguous'
      BY <3>1, <3>2, <3>3 DEF Contiguous, JournalTypeOK, Units
    <3> QED
      BY <1>6, <3>4 DEF PowerLoss, Return, WritesFirstErased
  <2>2. CASE phase = "erase"
    <3>1. sector = 0
      BY GeometryAssumption DEF JournalTypeOK, Sectors, SingleSector
    <3>2. flash' \in {flash, [u \in Units |-> Torn], [u \in Units |-> Erased]}
      BY <1>6, <2>2, <3>1, SingleSectorSetTo DEF PowerLoss
    <3>3. Contiguous'
      BY <3>2, UnitFacts DEF Contiguous
    <3> QED
      BY <1>6, <3>3 DEF PowerLoss, Return, WritesFirstErased
  <2> QED
    BY <1>6, <2>1, <2>2 DEF PowerLoss
<1>7. CASE UNCHANGED jvars
  BY <1>7 DEF jvars, Contiguous, WritesFirstErased
<1> QED
  BY <1>2, <1>3, <1>4, <1>5, <1>6, <1>7
     DEF JournalNext, JournalStep, Record, RecordSame

LEMMA SectorInvReadsBack == SectorInv => RecordReadsBack
<1> SUFFICES ASSUME SectorInv, phase = "write"
             PROVE  Value([flash EXCEPT ![address] = entry]) = entry
  BY DEF RecordReadsBack
<1>1. \A u \in Units : u < address => flash[u] # Erased
  BY DEF SectorInv, WritesFirstErased
<1>2. \A u \in Units : address < u => flash[u] = Erased
  BY DEF SectorInv, JournalInv, JournalTypeOK, Contiguous, NoUnitProgrammedTwice
<1>3. flash \in Journals /\ address \in Units /\ entry \in Entries
  BY DEF SectorInv, JournalInv, JournalTypeOK, WritesAnEntry, Journals
<1> QED
  BY <1>1, <1>2, <1>3, WrittenIsLatest

\* In a journal within one sector, of any number of units, what is recorded
\* is what Status() and ErrorCode() return once the write completes.
THEOREM SectorRecordReadsBack ==
    ASSUME SingleSector
    PROVE  JournalSpec => []RecordReadsBack
<1>1. JournalInit => SectorInv
  BY SectorInitInv
<1>2. SectorInv /\ [JournalNext]_jvars => SectorInv'
  BY SectorNextInv
<1> QED
  BY <1>1, <1>2, SectorInvReadsBack, PTL DEF JournalSpec

-----------------------------------------------------------------------------
(* A journal within one sector implements StatusRegister.                   *)

LEMMA RegisterInitRefined == JournalInit => Register!RegisterInit
<1> SUFFICES ASSUME JournalInit
             PROVE  Register!RegisterInit
  OBVIOUS
<1>1. Value(flash) = Erased
  BY NoEntryReadsEmpty, UnitFacts DEF JournalInit
<1> QED
  BY <1>1 DEF JournalInit, Register!RegisterInit

LEMMA RegisterNextRefined ==
    ASSUME SingleSector, SectorInv, [JournalNext]_jvars
    PROVE  [Register!RegisterNext]_(Register!rvars)
<1> USE DEF SectorInv, JournalInv
<1>1. Value(flash) \in Entries \cup {Erased}
  BY ValueType DEF JournalTypeOK, Journals
<1>2. ASSUME NEW status \in RecordedStatuses, NEW errorCode \in ErrorCodes,
             RecordBegin(status, errorCode)
      PROVE  \E v \in Entries \cup {Erased} : Register!Begin(v)
  <2>1. entry' \in Entries
    BY <1>2, MakeEntryType DEF RecordBegin, RecordedStatuses
  <2>2. Register!Begin(entry')
    BY <1>2 DEF RecordBegin, Register!Begin
  <2> QED
    BY <2>1, <2>2
<1>3. ASSUME Clear
      PROVE  Register!Begin(Erased)
  BY <1>3 DEF Clear, Register!Begin
<1>4. ASSUME EraseSector
      PROVE  Register!Forget \/ Register!Finish
  <2>1. flash' = [u \in Units |-> Erased]
    BY <1>4, SingleSectorSetTo, GeometryAssumption
       DEF EraseSector, JournalTypeOK, Sectors, SingleSector
  <2>2. Value(flash') = Erased
    BY <2>1, NoEntryReadsEmpty, UnitFacts
  <2>3. phase = "erase" /\ sector + 1 = NumberOfSectors /\ cut' = cut
    BY <1>4, GeometryAssumption DEF EraseSector, JournalTypeOK, Sectors, SingleSector
  <2>4. CASE entry # Erased
    <3>1. phase' = "write" /\ entry' = entry
      BY <1>4, <2>3, <2>4, GeometryAssumption DEF EraseSector
    <3> QED
      BY <2>2, <2>3, <3>1 DEF Register!Forget
  <2>5. CASE entry = Erased
    <3>1. phase' = "idle"
      BY <1>4, <2>3, <2>5, GeometryAssumption DEF EraseSector, Return
    <3> QED
      BY <2>2, <2>3, <2>5, <3>1 DEF Register!Finish
  <2> QED
    BY <2>4, <2>5
<1>5. ASSUME WriteEntry
      PROVE  Register!Finish
  <2>1. Value(flash') = entry
    BY <1>5, SectorInvReadsBack DEF WriteEntry, RecordReadsBack
  <2> QED
    BY <1>5, <2>1 DEF WriteEntry, Return, Register!Finish
<1>6. ASSUME PowerLoss
      PROVE  Register!Interrupt
  <2>1. phase # "idle" /\ phase' = "idle" /\ cut' = TRUE
    BY <1>6 DEF PowerLoss, Return
  <2>2. CASE phase = "write"
    <3>1. PICK u \in {flash[address], Torn, entry} : flash' = [flash EXCEPT ![address] = u]
      BY <1>6, <2>2 DEF PowerLoss
    <3>2. ASSUME u = flash[address]
          PROVE  flash' = flash
      BY <3>1, <3>2 DEF JournalTypeOK
    <3>3. ASSUME u = entry
          PROVE  Value(flash') = entry
      BY <2>2, <3>1, <3>3, SectorInvReadsBack DEF RecordReadsBack
    <3>4. ASSUME u = Torn
          PROVE  Value(flash') = Value(flash)
      <4>1. \A v \in Units : address <= v => flash[v] = Erased
        BY <2>2 DEF Contiguous, NoUnitProgrammedTwice, JournalTypeOK, Units
      <4>2. \A v \in Units : v < address => flash[v] # Erased
        BY <2>2 DEF WritesFirstErased
      <4> QED
        BY <3>1, <3>4, <4>1, <4>2, TornIsSkipped DEF JournalTypeOK, Journals
    <3>5. flash' = flash \/ Value(flash') \in {Value(flash), entry}
      BY <3>2, <3>3, <3>4
    <3> QED
      BY <2>1, <3>5 DEF Register!Interrupt
  <2>3. CASE phase = "erase"
    <3>1. sector = 0
      BY GeometryAssumption DEF JournalTypeOK, Sectors, SingleSector
    <3>2. flash' \in {flash, [u \in Units |-> Torn], [u \in Units |-> Erased]}
      BY <1>6, <2>3, <3>1, SingleSectorSetTo DEF PowerLoss
    <3>3. flash' # flash => Value(flash') = Erased
      BY <3>2, NoEntryReadsEmpty, UnitFacts
    <3> QED
      BY <2>1, <3>3 DEF Register!Interrupt
  <2> QED
    BY <1>6, <2>2, <2>3 DEF PowerLoss
<1>7. ASSUME UNCHANGED jvars
      PROVE  UNCHANGED Register!rvars
  BY <1>7 DEF jvars, Register!rvars
<1> QED
  BY <1>2, <1>3, <1>4, <1>5, <1>6, <1>7
     DEF JournalNext, JournalStep, Record, RecordSame, Register!RegisterNext

\* A journal within one sector, of any number of units, is the register
\* StatusRegister specifies: whatever resets cut, its users see the old
\* value, the new one, or the empty one.
THEOREM SectorImplementsRegister ==
    ASSUME SingleSector
    PROVE  JournalSpec => ImplementsRegister
<1>1. JournalInit => SectorInv
  BY SectorInitInv
<1>2. SectorInv /\ [JournalNext]_jvars => SectorInv'
  BY SectorNextInv
<1>3. SectorInv /\ [JournalNext]_jvars => [Register!RegisterNext]_(Register!rvars)
  BY RegisterNextRefined
<1> QED
  BY <1>1, <1>2, <1>3, RegisterInitRefined, PTL
     DEF JournalSpec, ImplementsRegister, Register!RegisterSpec

-----------------------------------------------------------------------------
(* The journal in any number of sectors.                                    *)

\* The last valid entry of all units, scanned or not, if there is one.
LastValid(f) == {u \in Units : IsValid(f[u]) /\ \A v \in Units : IsValid(f[v]) => v <= u}
LastEntries(f) == {f[u] : u \in LastValid(f)}

\* No entry is before an erased unit that others follow: the erase that left them
\* began at the first sector.
Gap ==
    \A u, v, w \in Units :
        w < u /\ u < v /\ flash[u] = Erased /\ flash[v] # Erased => ~IsValid(flash[w])

GapInv ==
    /\ JournalInv
    /\ Gap
    /\ phase = "write" => Contiguous /\ WritesFirstErased

\* What the journal holds when the operation under way, if any, is done.
Becoming == IF phase = "idle" THEN Value(flash) ELSE entry

\* What it may hold, now, then, or after resets.
Held == {Value(flash), Becoming} \cup LastEntries(flash)

LEMMA ValueIsLast ==
    ASSUME flash \in Journals, Gap
    PROVE  Value(flash) \in {Erased} \cup LastEntries(flash)
<1>1. CASE Latest(flash) = {}
  BY <1>1 DEF Value
<1>2. ASSUME NEW u \in Latest(flash)
      PROVE  Value(flash) \in LastEntries(flash)
  <2>1. Value(flash) = flash[u]
    BY ValueAt
  <2>2. u \in Units /\ IsValid(flash[u]) /\ \A v \in 0 .. u : ~IsErased(flash[v])
    BY DEF Latest, Scanned
  <2>3. ASSUME NEW v \in Units, IsValid(flash[v]), ~(v <= u)
        PROVE  FALSE
    <3>1. v \notin Scanned(flash)
      BY <2>3 DEF Latest
    <3>2. PICK w \in 0 .. v : IsErased(flash[w])
      BY <3>1 DEF Scanned
    <3>3. w \in Units /\ w < v /\ u < w /\ flash[w] = Erased /\ flash[v] # Erased
      BY <2>2, <2>3, <3>2, UnitsBelow, UnitFacts DEF Journals
    <3> QED
      BY <2>2, <3>3 DEF Gap
  <2>4. u \in LastValid(flash)
    BY <2>2, <2>3 DEF LastValid
  <2> QED
    BY <2>1, <2>4 DEF LastEntries
<1> QED
  BY <1>1, <1>2

\* A journal with a gap reads empty.
LEMMA GapReadsEmpty ==
    ASSUME flash \in Journals, Gap, ~Contiguous
    PROVE  Value(flash) = Erased
<1>1. PICK a \in Units, c \in Units : a < c /\ flash[a] = Erased /\ flash[c] # Erased
  BY DEF Contiguous
<1>2. ASSUME NEW u \in Latest(flash)
      PROVE  FALSE
  <2>1. u \in Units /\ IsValid(flash[u]) /\ \A v \in 0 .. u : ~IsErased(flash[v])
    BY DEF Latest, Scanned
  <2>2. u < a
    BY <1>1, <2>1, UnitsBelow, UnitFacts
  <2> QED
    BY <1>1, <2>1, <2>2 DEF Gap
<1> QED
  BY <1>2 DEF Value

\* An erase of a sector, whole or cut, after those before it: no entry comes to
\* light that was not the last.
LEMMA SectorSetGap ==
    ASSUME flash \in Journals, Gap, NEW s \in Sectors, NEW c \in {Erased, Torn},
           \A u \in Units : SectorOfUnit[u] < s => flash[u] = Erased,
           flash' = SectorSetTo(s, c)
    PROVE  Gap' /\ LastEntries(flash') \subseteq LastEntries(flash)
<1>1. \A u \in Units : u \in Nat /\ SectorOfUnit[u] \in Nat
  BY GeometryAssumption DEF Units, Sectors
<1>2. s \in Nat
  BY DEF Sectors
<1>3. \A u \in Units : /\ SectorOfUnit[u] <= s => ~IsValid(flash'[u])
                       /\ s < SectorOfUnit[u] => flash'[u] = flash[u]
  BY <1>1, <1>2, UnitFacts DEF SectorSetTo
<1>4. Gap'
  <2> SUFFICES ASSUME NEW u \in Units, NEW v \in Units, NEW w \in Units,
                      w < u, u < v, flash'[u] = Erased, flash'[v] # Erased, IsValid(flash'[w])
               PROVE  FALSE
    BY DEF Gap
  <2>1. s < SectorOfUnit[w]
    BY <1>1, <1>2, <1>3
  <2>2. s < SectorOfUnit[u] /\ s < SectorOfUnit[v]
    BY <1>1, <1>2, <2>1, GeometryAssumption
  <2> QED
    BY <1>3, <2>1, <2>2 DEF Gap
<1>5. ASSUME NEW u \in LastValid(flash')
      PROVE  u \in LastValid(flash) /\ flash'[u] = flash[u]
  <2>1. u \in Units /\ IsValid(flash'[u]) /\ \A v \in Units : IsValid(flash'[v]) => v <= u
    BY DEF LastValid
  <2>2. s < SectorOfUnit[u] /\ flash'[u] = flash[u]
    BY <1>1, <1>2, <1>3, <2>1
  <2>3. ASSUME NEW v \in Units, IsValid(flash[v])
        PROVE  v <= u
    <3>1. CASE s < SectorOfUnit[v]
      BY <1>3, <2>1, <2>3, <3>1
    <3>2. CASE SectorOfUnit[v] <= s
      BY <1>1, <1>2, <2>1, <2>2, <3>2, GeometryAssumption
    <3> QED
      BY <1>1, <1>2, <3>1, <3>2
  <2> QED
    BY <2>1, <2>2, <2>3 DEF LastValid
<1> QED
  BY <1>4, <1>5 DEF LastEntries

\* In a journal without a gap the last entry is the one that is read.
LEMMA ContiguousLast ==
    ASSUME flash \in Journals, Contiguous
    PROVE  Gap /\ LastEntries(flash) \subseteq {Value(flash)}
<1>1. Gap
  BY DEF Gap, Contiguous
<1>2. ASSUME NEW u \in LastValid(flash)
      PROVE  flash[u] = Value(flash)
  <2>1. u \in Units /\ IsValid(flash[u]) /\ \A v \in Units : IsValid(flash[v]) => v <= u
    BY DEF LastValid
  <2>2. flash[u] # Erased
    BY <2>1, UnitFacts
  <2>3. ASSUME NEW v \in 0 .. u
        PROVE  ~IsErased(flash[v])
    <3>1. v \in Units /\ (v < u \/ v = u)
      BY <2>1, UnitsBelow
    <3> QED
      BY <2>1, <2>2, <3>1, UnitFacts DEF Contiguous, Journals
  <2>4. u \in Latest(flash)
    BY <2>1, <2>3 DEF Latest, Scanned
  <2> QED
    BY <2>4, ValueAt
<1> QED
  BY <1>1, <1>2 DEF LastEntries

LEMMA JournalKept ==
    ASSUME GapInv, UNCHANGED jvars
    PROVE  /\ GapInv' /\ Held' = Held /\ Becoming' = Becoming
           /\ (Contiguous' <=> Contiguous)
<1>1. JournalInv'
  BY JournalNextInv DEF GapInv
<1> QED
  BY <1>1 DEF GapInv, Gap, Contiguous, WritesFirstErased, Held, Becoming, jvars

LEMMA RecordEffect ==
    ASSUME GapInv, Contiguous, NEW s \in RecordedStatuses, NEW c \in ErrorCodes, Record(s, c)
    PROVE  /\ GapInv' /\ Contiguous' /\ phase = "idle" /\ flash' = flash
           /\ Becoming' = MakeStatusJournalEntry(s, c)
           /\ Held' \subseteq Held \cup {MakeStatusJournalEntry(s, c)}
           /\ Value(flash) = MakeStatusJournalEntry(s, c) => phase' = "idle"
<1> DEFINE e == MakeStatusJournalEntry(s, c)
<1>1. JournalInv'
  BY JournalNextInv DEF GapInv, JournalNext
<1>2. phase = "idle" /\ flash' = flash
  BY DEF Record, RecordSame, RecordBegin, jvars
<1>3. Contiguous'
  BY <1>2 DEF Contiguous
<1>4. CASE RecordSame(s, c)
  <2>1. UNCHANGED jvars /\ Value(flash) = e
    BY <1>4 DEF RecordSame
  <2>2. Becoming' = e /\ phase' = "idle"
    BY <1>2, <2>1 DEF Becoming, jvars
  <2> QED
    BY <1>2, <1>3, <2>1, <2>2, JournalKept
<1>5. CASE RecordBegin(s, c)
  <2>1. Value(flash) # e
    <3>1. e \in Entries
      BY MakeEntryType DEF RecordedStatuses
    <3>2. Latest(flash) = {} => Value(flash) = Erased
      BY DEF Value
    <3> QED
      BY <1>5, <3>1, <3>2, UnitFacts DEF RecordBegin
  <2>2. entry' = e /\ phase' # "idle"
    BY <1>5 DEF RecordBegin
  <2>3. Becoming' = e
    BY <2>2 DEF Becoming
  <2>4. phase' = "write" => WritesFirstErased'
    <3> SUFFICES ASSUME phase' = "write", NEW u \in Units, u < address'
                 PROVE  flash'[u] # Erased
      BY DEF WritesFirstErased
    <3>1. address' \in FirstErased(flash)
      BY <1>5 DEF RecordBegin
    <3> QED
      BY <1>2, <3>1, UnitFacts DEF FirstErased
  <2>5. GapInv'
    BY <1>1, <1>2, <1>3, <2>4 DEF GapInv, Gap
  <2> QED
    BY <1>2, <1>3, <2>1, <2>3, <2>5 DEF Held
<1> QED
  BY <1>4, <1>5 DEF Record

LEMMA ClearEffect ==
    ASSUME GapInv, Clear
    PROVE  /\ GapInv' /\ phase = "idle" /\ phase' # "idle" /\ flash' = flash
           /\ Becoming' = Erased /\ Held' \subseteq Held \cup {Erased}
<1>1. JournalInv'
  BY JournalNextInv DEF GapInv, JournalNext
<1>2. phase = "idle" /\ phase' = "erase" /\ flash' = flash /\ entry' = Erased
  BY DEF Clear
<1>3. GapInv'
  BY <1>1, <1>2 DEF GapInv, Gap
<1>4. Becoming' = Erased
  BY <1>2 DEF Becoming
<1> QED
  BY <1>2, <1>3, <1>4 DEF Held

LEMMA GapInvFacts ==
    ASSUME GapInv
    PROVE  /\ flash \in Journals /\ Gap /\ sector \in Sectors /\ address \in Units
           /\ entry \in Entries \cup {Erased}
           /\ phase = "write" => /\ entry \in Entries
                                 /\ \A u \in Units : u < address => flash[u] # Erased
                                 /\ \A u \in Units : address <= u => flash[u] = Erased
           /\ phase = "erase" => \A u \in Units : SectorOfUnit[u] < sector => flash[u] = Erased
<1> USE DEF GapInv, JournalInv, JournalTypeOK
<1>1. ASSUME phase = "write", NEW u \in Units, address <= u
      PROVE  flash[u] = Erased
  <2>1. flash[address] = Erased /\ address \in Units
    BY <1>1 DEF NoUnitProgrammedTwice
  <2>2. u = address \/ address < u
    BY <1>1, UnitsBelow
  <2> QED
    BY <1>1, <2>1, <2>2 DEF Contiguous
<1> QED
  BY <1>1 DEF Journals, ErasedBehind, WritesAnEntry, WritesFirstErased

LEMMA StepEffect ==
    ASSUME GapInv, JournalStep
    PROVE  /\ GapInv' /\ phase # "idle" /\ Becoming' = Becoming
           /\ Held' \subseteq Held \cup {Erased}
           /\ phase' = "idle" => Contiguous'
<1>1. JournalInv'
  BY JournalNextInv DEF GapInv, JournalNext
<1>2. flash' \in Journals
  BY <1>1 DEF JournalInv, JournalTypeOK, Journals
<1>3. CASE EraseSector
  <2>1. phase = "erase" /\ flash' = SectorSetTo(sector, Erased)
    BY <1>3 DEF EraseSector
  <2>2. Gap' /\ LastEntries(flash') \subseteq LastEntries(flash)
    BY <2>1, GapInvFacts, SectorSetGap
  <2>3. ASSUME sector + 1 = NumberOfSectors
        PROVE  \A u \in Units : flash'[u] = Erased
    <3>1. \A u \in Units : SectorOfUnit[u] < sector \/ SectorOfUnit[u] = sector
      BY <2>3, GapInvFacts, GeometryAssumption DEF Sectors
    <3> QED
      BY <2>1, <3>1, GapInvFacts DEF SectorSetTo
  <2>4. phase' # "erase" => Contiguous' /\ Value(flash') = Erased
    <3>1. phase' # "erase" => sector + 1 = NumberOfSectors
      BY <1>3 DEF EraseSector
    <3> QED
      BY <2>3, <3>1, NoEntryReadsEmpty, UnitFacts DEF Contiguous
  <2>5. phase' = "write" => WritesFirstErased'
    BY <1>3, UnitsBelow DEF EraseSector, WritesFirstErased, GapInv, JournalInv, ErasedBehind, Return
  <2>6. GapInv'
    BY <1>1, <2>2, <2>4, <2>5 DEF GapInv
  <2>7. Becoming' = Becoming
    <3>1. CASE phase' = "idle"
      <4>1. entry = Erased
        BY <1>3, <3>1 DEF EraseSector
      <4> QED
        BY <2>1, <2>4, <3>1, <4>1 DEF Becoming
    <3>2. CASE phase' # "idle"
      <4>1. entry' = entry
        BY <1>3, <3>2 DEF EraseSector, Return
      <4> QED
        BY <2>1, <3>2, <4>1 DEF Becoming
    <3> QED
      BY <3>1, <3>2
  <2>8. Value(flash') \in {Erased} \cup LastEntries(flash')
    <3>1. (flash \in Journals /\ Gap => Value(flash) \in {Erased} \cup LastEntries(flash))'
      BY ValueIsLast, PTL
    <3> QED
      BY <1>2, <2>2, <3>1
  <2> QED
    BY <2>1, <2>2, <2>4, <2>6, <2>7, <2>8 DEF Held
<1>4. CASE WriteEntry
  <2>1. phase = "write" /\ phase' = "idle" /\ flash' = [flash EXCEPT ![address] = entry]
    BY <1>4 DEF WriteEntry, Return
  <2>2. Value(flash') = entry
    <3>1. \A u \in Units : address < u => flash[u] = Erased
      BY <2>1, GapInvFacts, UnitsBelow
    <3> QED
      BY <2>1, <3>1, GapInvFacts, WrittenIsLatest
  <2>3. Contiguous'
    <3> SUFFICES ASSUME NEW u \in Units, NEW v \in Units, u < v, flash'[u] = Erased
                 PROVE  flash'[v] = Erased
      BY DEF Contiguous
    <3>1. u # address /\ ~(u < address)
      BY <2>1, GapInvFacts, UnitFacts DEF Journals
    <3>2. address < v /\ v # address
      BY <3>1, GapInvFacts, UnitsBelow
    <3> QED
      BY <2>1, <3>2, GapInvFacts, UnitsBelow DEF Journals
  <2>4. Gap' /\ LastEntries(flash') \subseteq {Value(flash')}
    <3>1. (flash \in Journals /\ Contiguous => Gap /\ LastEntries(flash) \subseteq {Value(flash)})'
      BY ContiguousLast, PTL
    <3> QED
      BY <1>2, <2>3, <3>1
  <2>5. GapInv'
    BY <1>1, <2>1, <2>4 DEF GapInv
  <2>6. Becoming = entry /\ Becoming' = entry
    BY <2>1, <2>2 DEF Becoming
  <2> QED
    BY <2>1, <2>2, <2>3, <2>4, <2>5, <2>6 DEF Held
<1> QED
  BY <1>3, <1>4 DEF JournalStep

LEMMA CutEffect ==
    ASSUME GapInv, PowerLoss
    PROVE  /\ GapInv' /\ phase # "idle" /\ phase' = "idle"
           /\ Held' \subseteq Held \cup {Erased}
<1>1. JournalInv'
  BY JournalNextInv DEF GapInv, JournalNext
<1>2. flash' \in Journals
  BY <1>1 DEF JournalInv, JournalTypeOK, Journals
<1>3. phase # "idle" /\ phase' = "idle"
  BY DEF PowerLoss, Return
<1>4. Becoming' = Value(flash') /\ Becoming = entry
  BY <1>3 DEF Becoming
<1> SUFFICES /\ Gap'
             /\ LastEntries(flash') \subseteq Held \cup {Erased}
             /\ Value(flash') \in Held \cup {Erased}
  BY <1>1, <1>3, <1>4 DEF GapInv, Held
<1>5. CASE phase = "erase"
  <2>1. flash' \in {flash, SectorSetTo(sector, Torn), SectorSetTo(sector, Erased)}
    BY <1>5 DEF PowerLoss
  <2>2. Gap' /\ LastEntries(flash') \subseteq LastEntries(flash)
    <3>1. CASE flash' = flash
      BY <3>1, GapInvFacts DEF Gap
    <3>2. CASE flash' = SectorSetTo(sector, Torn)
      BY <1>5, <3>2, GapInvFacts, SectorSetGap
    <3>3. CASE flash' = SectorSetTo(sector, Erased)
      BY <1>5, <3>3, GapInvFacts, SectorSetGap
    <3> QED
      BY <2>1, <3>1, <3>2, <3>3
  <2>3. Value(flash') \in {Erased} \cup LastEntries(flash')
    <3>1. (flash \in Journals /\ Gap => Value(flash) \in {Erased} \cup LastEntries(flash))'
      BY ValueIsLast, PTL
    <3> QED
      BY <1>2, <2>2, <3>1
  <2> QED
    BY <2>2, <2>3 DEF Held
<1>6. CASE phase = "write"
  <2>1. PICK c \in {flash[address], Torn, entry} : flash' = [flash EXCEPT ![address] = c]
    BY <1>6 DEF PowerLoss
  <2>2. c \in UnitContents
    BY <1>6, GapInvFacts, UnitFacts DEF Journals
  <2>3. Contiguous'
    <3> SUFFICES ASSUME NEW u \in Units, NEW v \in Units, u < v, flash'[u] = Erased
                 PROVE  flash'[v] = Erased
      BY DEF Contiguous
    <3>1. ~(u < address)
      BY <1>6, <2>1, GapInvFacts, UnitsBelow DEF Journals
    <3>2. address < v /\ v # address
      BY <3>1, GapInvFacts, UnitsBelow
    <3> QED
      BY <1>6, <2>1, <3>2, GapInvFacts, UnitsBelow DEF Journals
  <2>4. Gap' /\ LastEntries(flash') \subseteq {Value(flash')}
    <3>1. (flash \in Journals /\ Contiguous => Gap /\ LastEntries(flash) \subseteq {Value(flash)})'
      BY ContiguousLast, PTL
    <3> QED
      BY <1>2, <2>3, <3>1
  <2>5. Value(flash') \in {Value(flash), entry}
    <3>1. CASE c = flash[address]
      <4>1. flash' = flash
        BY <2>1, <3>1, GapInvFacts DEF Journals
      <4> QED
        BY <4>1
    <3>2. CASE c = Torn
      BY <1>6, <2>1, <3>2, GapInvFacts, TornIsSkipped
    <3>3. CASE c = entry
      <4>1. \A u \in Units : address < u => flash[u] = Erased
        BY <1>6, GapInvFacts, UnitsBelow
      <4> QED
        BY <1>6, <2>1, <3>3, <4>1, GapInvFacts, WrittenIsLatest
    <3> QED
      BY <2>1, <3>1, <3>2, <3>3
  <2> QED
    BY <1>4, <2>4, <2>5 DEF Held
<1> QED
  BY <1>5, <1>6 DEF PowerLoss

-----------------------------------------------------------------------------
(* The bootloader.                                                          *)

DeployStartedEntry == MakeStatusJournalEntry("deployStarted", 0)
InvalidEntry == MakeStatusJournalEntry("invalid", 0)

Startable == ApplicationIsStartable(slot, descriptor)

\* Slot s with descriptor d holds all of image i (SlotHolds).
Holds(s, d, i) == ApplicationIsStartable(s, d) /\ \A k \in 1 .. d.size : s[k] = i

\* The checks of UpgradePackLoader::Load
Passed(p) == p.magic /\ p.version /\ p.product /\ p.signed

Installing == {"erase", "copy", "describe"}

\* What may be in the slot: parts of the image of production, and of images that
\* pass all checks.
Writable ==
    {Blank, Garbled, InitialImage} \cup
        UNION {{p.images[i].image : i \in {j \in DOMAIN p.images : Refusal(p.images[j]) = {}}} :
                p \in {q \in Packs : Passed(q)}}

BootTypes ==
    /\ GapInv
    /\ pc \in {"reset", "load", "writeError", "upgrade", "image", "erase", "copy", "describe",
               "start", "halt", "application", "download", "received"}
    /\ pack \in Packs
    /\ slot \in [Chunks -> Writable]
    /\ image \in Nat /\ chunk \in Nat /\ code \in ErrorCodes

\* A descriptor is only ever computed over one image that may be trusted.
TrustedDescriptor(d) ==
    d.kind = "valid" =>
        /\ d.size \in Nat
        /\ \E i \in Trusted : d.sha256 = [k \in 1 .. d.size |-> i]

\* Without an application to start the journal says so, nothing is about to change
\* it, and the boot sequence goes on to install.
Recoverable ==
    ~Startable =>
        /\ phase = "idle" /\ Becoming = DeployStartedEntry
        /\ Installable(pack)
        /\ pc \in {"reset", "load", "upgrade", "image"} \cup Installing
        /\ pc = "image" => image = 1

\* From the checks of the loader to the end of the installation
Deploying ==
    /\ pc \in {"upgrade", "image"} \cup Installing => Passed(pack)
    /\ pc \in {"image"} \cup Installing => Becoming = DeployStartedEntry /\ image >= 1
    /\ pc = "image" /\ image > 1 =>
           /\ image - 1 \in DOMAIN pack.images
           /\ Refusal(pack.images[1]) = {}
           /\ Holds(slot, descriptor, pack.images[image - 1].image)
    /\ pc \in Installing =>
           /\ phase = "idle"
           /\ image \in DOMAIN pack.images
           /\ Refusal(pack.images[1]) = {} /\ Refusal(pack.images[image]) = {}

\* The chunks that are copied
Copying ==
    /\ pc = "erase" => chunk \in Chunks
    /\ pc = "copy" => chunk \in 1 .. ImageChunks /\ \A k \in 1 .. chunk - 1 : slot[k] = pack.images[image].image
    /\ pc = "describe" => \A k \in 1 .. ImageChunks : slot[k] = pack.images[image].image

\* What the journal says is true, now and when the operation under way is done.
Truthful(p, s, d, v) ==
    /\ v.status = "deployed" /\ p.images # <<>> => Holds(s, d, p.images[Len(p.images)].image)
    /\ v.status = "invalid" => Rejections(p) # {} /\ v.error \in {0} \cup Rejections(p)

JournalTrue == \A v \in Held : Truthful(pack, slot, descriptor, v)

\* Nobody records to a journal with a gap.  An error is written with its code, and
\* the journal is empty while a pack is received.
JournalOwned ==
    /\ ~Contiguous /\ phase = "idle" => pc \in {"reset", "start", "halt", "application"}
    /\ pc = "writeError" => Becoming = InvalidEntry /\ code \in Rejections(pack)
    /\ pc = "download" => Becoming = Erased
    /\ pc = "received" => phase = "idle" /\ Becoming = Erased

BootInv ==
    /\ BootTypes
    /\ TrustedDescriptor(descriptor) /\ Recoverable
    /\ Deploying /\ Copying
    /\ JournalTrue /\ JournalOwned

-----------------------------------------------------------------------------
(* Facts the proofs of the steps share.                                     *)

LEMMA PackFacts ==
    ASSUME NEW p \in Packs
    PROVE  /\ Len(p.images) \in Nat /\ DOMAIN p.images = 1 .. Len(p.images)
           /\ p.images # <<>> <=> Len(p.images) >= 1
           /\ \A i \in DOMAIN p.images : p.images[i].size \in Nat
<1>1. p.images \in Seq({p.images[i] : i \in DOMAIN p.images})
  BY BootloaderAssumption
<1>2. \A i \in DOMAIN p.images : p.images[i].size \in Nat
  BY BootloaderAssumption
<1>3. Len(p.images) \in Nat /\ DOMAIN p.images = 1 .. Len(p.images)
  BY <1>1
<1>4. p.images # <<>> <=> Len(p.images) >= 1
  BY <1>1
<1> QED
  BY <1>2, <1>3, <1>4

LEMMA RefusalFacts ==
    ASSUME NEW i
    PROVE  /\ Refusal(i) \subseteq ErrorCodes
           /\ Refusal(i) = {} => i.size >= 1 /\ i.size <= SlotChunks /\ i.image \in FittingImages
BY BootloaderAssumption DEF Refusal, SizeFits, ImageStartFitsTarget

\* An image that is installed may be written and trusted.
LEMMA InstalledImage ==
    ASSUME NEW p \in Packs, Passed(p), NEW i \in DOMAIN p.images, Refusal(p.images[i]) = {}
    PROVE  p.images[i].image \in Writable /\ p.images[i].image \in Trusted
<1>1. p \in {q \in Packs : Passed(q)} /\ p \in {q \in Packs : q.signed /\ q.product /\ q.version /\ q.magic}
  BY DEF Passed
<1> QED
  BY <1>1 DEF Writable, Trusted

\* Values that say nothing about pack and slot
LEMMA TruthfulFacts ==
    ASSUME NEW p, NEW s, NEW d, NEW status, NEW errorCode
    PROVE  /\ Truthful(p, s, d, Erased)
           /\ status \notin {"deployed", "invalid"} =>
                  Truthful(p, s, d, MakeStatusJournalEntry(status, errorCode))
BY DEF Truthful, Erased, MakeStatusJournalEntry

LEMMA EntryFacts ==
    /\ DeployStartedEntry.status = "deployStarted" /\ InvalidEntry.status = "invalid"
    /\ Erased.status = "empty" /\ DeployStartedEntry # Erased
BY DEF DeployStartedEntry, InvalidEntry, MakeStatusJournalEntry, Erased

\* An idle journal without a gap holds what it reads and nothing else.
LEMMA HeldWhenIdle ==
    ASSUME GapInv, Contiguous, phase = "idle"
    PROVE  Held = {Value(flash)} /\ Becoming = Value(flash)
BY GapInvFacts, ContiguousLast DEF Held, Becoming

\* A step that writes nothing but the journal, and there only the value e.
LEMMA TruthKept ==
    ASSUME JournalTrue, UNCHANGED <<pack, slot, descriptor>>,
           NEW e, Truthful(pack, slot, descriptor, e), Held' \subseteq Held \cup {Erased, e}
    PROVE  JournalTrue'
BY TruthfulFacts DEF JournalTrue

LEMMA BootInitInv == BootInit => BootInv
<1> SUFFICES ASSUME BootInit
             PROVE  BootInv
  OBVIOUS
<1> USE DEF BootInit
<1>1. GapInv /\ Contiguous /\ phase = "idle" /\ Value(flash) = Erased
  <2>1. JournalInv /\ Contiguous
    BY JournalInitInv, SectorInitInv DEF SectorInv
  <2>2. Value(flash) = Erased
    BY NoEntryReadsEmpty, UnitFacts DEF JournalInit
  <2> QED
    BY <2>1, <2>2, ContiguousLast DEF GapInv, JournalInit, JournalInv, JournalTypeOK, Journals
<1>2. Held = {Erased} /\ Becoming = Erased
  BY <1>1, HeldWhenIdle
<1>3. BootTypes
  BY <1>1, BootloaderAssumption, ErrorCodesAssumption DEF BootTypes, Writable
<1>4. 1 \in Chunks /\ \A k \in Chunks : slot[k] = InitialImage
  BY BootloaderAssumption DEF Chunks
<1>5. /\ descriptor.kind = "valid" /\ descriptor.size = SlotChunks
      /\ descriptor.sha256 = [k \in 1 .. SlotChunks |-> slot[k]]
  BY DEF MakeImageDescriptor
<1>6. TrustedDescriptor(descriptor)
  <2>1. descriptor.sha256 = [k \in 1 .. descriptor.size |-> InitialImage]
    BY <1>4, <1>5 DEF Chunks
  <2>2. InitialImage \in Trusted
    BY DEF Trusted
  <2> QED
    BY <1>5, <2>1, <2>2, BootloaderAssumption DEF TrustedDescriptor
<1>7. Startable
  BY <1>4, <1>5, BootloaderAssumption DEF Startable, ApplicationIsStartable, ImageStartFitsTarget
<1>8. JournalTrue
  BY <1>2, TruthfulFacts DEF JournalTrue
<1> QED
  BY <1>1, <1>2, <1>3, <1>6, <1>7, <1>8
     DEF BootInv, Recoverable, Deploying, Copying, JournalOwned, Installing

-----------------------------------------------------------------------------
(* The steps of the boot sequence.                                          *)

\* Control goes elsewhere and nothing is written.
LEMMA GotoEffect ==
    ASSUME BootInv, NEW place, Goto(place), UNCHANGED <<pack, slot, descriptor>>
    PROVE  /\ GapInv' /\ phase = "idle" /\ phase' = "idle" /\ pc' = place
           /\ Becoming' = Becoming /\ Becoming = Value(flash) /\ (Contiguous' <=> Contiguous)
           /\ (Startable' <=> Startable) /\ TrustedDescriptor(descriptor)' /\ JournalTrue'
<1>1. phase = "idle" /\ pc' = place /\ UNCHANGED jvars
  BY DEF Goto
<1>2. GapInv' /\ Held' = Held /\ Becoming' = Becoming /\ (Contiguous' <=> Contiguous)
  BY <1>1, JournalKept DEF BootInv, BootTypes
<1>3. JournalTrue'
  BY <1>2, TruthfulFacts, TruthKept DEF BootInv
<1> QED
  BY <1>1, <1>2, <1>3 DEF BootInv, Startable, TrustedDescriptor, jvars, Becoming

LEMMA ResetInv ==
    ASSUME BootInv, Reset
    PROVE  BootInv'
<1>1. ASSUME Goto("load"), InstallRequested
      PROVE  BootInv'
  <2>1. Contiguous
    BY <1>1, GapReadsEmpty, GapInvFacts, EntryFacts DEF BootInv, BootTypes, InstallRequested, Status
  <2>2. BootTypes'
    BY <1>1, GotoEffect DEF Reset, BootInv, BootTypes
  <2> QED
    BY <1>1, <2>1, <2>2, GotoEffect
       DEF Reset, BootInv, Recoverable, Deploying, Copying, JournalOwned, Installing
<1>2. ASSUME Goto("start"), ~InstallRequested
      PROVE  BootInv'
  <2>1. Startable
    BY <1>2, EntryFacts, GotoEffect DEF Reset, BootInv, Recoverable, InstallRequested, Status
  <2>2. BootTypes'
    BY <1>2, GotoEffect DEF Reset, BootInv, BootTypes
  <2> QED
    BY <1>2, <2>1, <2>2, GotoEffect
       DEF Reset, BootInv, Recoverable, Deploying, Copying, JournalOwned, Installing
<1> QED
  BY <1>1, <1>2 DEF Reset

LEMMA StartInv ==
    ASSUME BootInv, Start
    PROVE  BootInv'
<1>1. Startable
  BY DEF BootInv, Recoverable, Start, Installing
<1>2. Goto("application") /\ UNCHANGED <<pack, slot, descriptor, image, chunk, code>>
  BY <1>1 DEF Start, Startable
<1>3. BootTypes'
  BY <1>2, GotoEffect DEF BootInv, BootTypes
<1> QED
  BY <1>1, <1>2, <1>3, GotoEffect
     DEF BootInv, Recoverable, Deploying, Copying, JournalOwned, Installing

\* A record made from a journal without a gap, of a value that is true.
LEMMA RecordStep ==
    ASSUME BootInv, Contiguous, NEW s \in RecordedStatuses, NEW c \in ErrorCodes, Record(s, c),
           UNCHANGED <<pack, slot, descriptor>>,
           Truthful(pack, slot, descriptor, MakeStatusJournalEntry(s, c))
    PROVE  /\ GapInv' /\ phase = "idle" /\ Contiguous' /\ JournalTrue'
           /\ Becoming = Value(flash) /\ Becoming' = MakeStatusJournalEntry(s, c)
           /\ Becoming = Becoming' => phase' = "idle"
           /\ (Startable' <=> Startable) /\ TrustedDescriptor(descriptor)'
<1>1. GapInv
  BY DEF BootInv, BootTypes
<1> DEFINE e == MakeStatusJournalEntry(s, c)
<1>2. /\ GapInv' /\ Contiguous' /\ phase = "idle" /\ Becoming' = e
      /\ Held' \subseteq Held \cup {e}
      /\ Value(flash) = e => phase' = "idle"
  BY <1>1, RecordEffect
<1>3. Becoming = Value(flash)
  BY <1>2 DEF Becoming
<1>4. JournalTrue'
  <2>1. Truthful(pack, slot, descriptor, e) /\ Held' \subseteq Held \cup {Erased, e} /\ JournalTrue
    BY <1>2 DEF BootInv
  <2> QED
    BY <2>1, TruthKept
<1>5. (Startable' <=> Startable) /\ TrustedDescriptor(descriptor)'
  BY DEF BootInv, Startable, TrustedDescriptor
<1> QED
  BY <1>2, <1>3, <1>4, <1>5

\* MarkAsError, when the application in the slot is whole
LEMMA MarkAsErrorInv ==
    ASSUME BootInv, NEW c \in Rejections(pack) \cap ErrorCodes, Startable, Contiguous, MarkAsError(c),
           UNCHANGED <<pack, slot, descriptor>>, image' \in Nat, chunk' \in Nat
    PROVE  BootInv'
<1>1. Truthful(pack, slot, descriptor, InvalidEntry)
  BY DEF Truthful, InvalidEntry, MakeStatusJournalEntry
<1>2. /\ GapInv' /\ Contiguous' /\ JournalTrue' /\ Becoming' = InvalidEntry
      /\ (Startable' <=> Startable) /\ TrustedDescriptor(descriptor)'
  <2>1. Record("invalid", 0) /\ "invalid" \in RecordedStatuses /\ 0 \in ErrorCodes
    BY ErrorCodesAssumption DEF MarkAsError, RecordedStatuses, UpgradePackStatus
  <2> QED
    BY <1>1, <2>1, RecordStep DEF InvalidEntry
<1>3. pc' = "writeError" /\ code' = c /\ pack' = pack
  BY DEF MarkAsError
<1>4. BootTypes'
  BY <1>2, <1>3 DEF BootInv, BootTypes
<1> QED
  BY <1>2, <1>3, <1>4 DEF BootInv, Recoverable, Deploying, Copying, JournalOwned, Installing

LEMMA LoadInv ==
    ASSUME BootInv, Load
    PROVE  BootInv'
<1>1. pc = "load" /\ UNCHANGED <<pack, slot, descriptor, image, chunk>>
  BY DEF Load
<1>2. phase = "idle"
  BY DEF Load, Goto, MarkAsError, Record, RecordSame, RecordBegin
<1>3. Contiguous
  BY <1>1, <1>2 DEF BootInv, JournalOwned
<1>4. ~Startable => Passed(pack)
  BY DEF BootInv, Recoverable, Installable, Passed
<1>5. ASSUME Goto("start"), ~pack.magic, UNCHANGED code
      PROVE  BootInv'
  <2>1. Startable
    BY <1>4, <1>5 DEF Passed
  <2>2. BootTypes'
    BY <1>1, <1>5, GotoEffect DEF BootInv, BootTypes
  <2> QED
    BY <1>1, <1>5, <2>1, <2>2, GotoEffect
       DEF BootInv, Recoverable, Deploying, Copying, JournalOwned, Installing
<1>6. ASSUME Goto("upgrade"), Passed(pack), UNCHANGED code
      PROVE  BootInv'
  <2>1. BootTypes'
    BY <1>1, <1>6, GotoEffect DEF BootInv, BootTypes
  <2> QED
    BY <1>1, <1>3, <1>6, <2>1, GotoEffect
       DEF BootInv, Recoverable, Deploying, Copying, JournalOwned, Installing
<1>7. ASSUME NEW c, c \in Rejections(pack), c \in ErrorCodes, MarkAsError(c), ~Passed(pack)
      PROVE  BootInv'
  <2>1. image' \in Nat /\ chunk' \in Nat
    BY <1>1 DEF BootInv, BootTypes
  <2> QED
    BY <1>1, <1>3, <1>4, <1>7, <2>1, MarkAsErrorInv
<1>8. {UnknownHeaderVersion, UnknownProductName, InvalidSignature} \subseteq ErrorCodes
  BY BootloaderAssumption
<1>9. CASE pack.magic /\ ~pack.version /\ MarkAsError(UnknownHeaderVersion)
  BY <1>7, <1>8, <1>9 DEF Rejections, Passed
<1>10. CASE pack.magic /\ pack.version /\ ~pack.product /\ MarkAsError(UnknownProductName)
  BY <1>7, <1>8, <1>10 DEF Rejections, Passed
<1>11. CASE pack.magic /\ pack.version /\ pack.product /\ ~pack.signed /\ MarkAsError(InvalidSignature)
  BY <1>7, <1>8, <1>11 DEF Rejections, Passed
<1> QED
  BY <1>5, <1>6, <1>9, <1>10, <1>11 DEF Load, Passed

LEMMA WriteErrorInv ==
    ASSUME BootInv, WriteError
    PROVE  BootInv'
<1>1. /\ pc = "writeError" /\ pc' = "start" /\ code' = 0 /\ Record(Status(flash), code)
      /\ UNCHANGED <<pack, slot, descriptor, image, chunk>>
  BY DEF WriteError
<1>2. phase = "idle"
  BY <1>1 DEF Record, RecordSame, RecordBegin
<1>3. Contiguous /\ Value(flash) = InvalidEntry /\ code \in Rejections(pack) /\ code \in ErrorCodes
  BY <1>1, <1>2 DEF BootInv, BootTypes, JournalOwned, Becoming
<1>4. Startable
  BY <1>1 DEF BootInv, Recoverable, Installing
<1>5. Record("invalid", code) /\ "invalid" \in RecordedStatuses
  BY <1>1, <1>3, EntryFacts DEF Status, RecordedStatuses, UpgradePackStatus
<1>6. Truthful(pack, slot, descriptor, MakeStatusJournalEntry("invalid", code))
  BY <1>3 DEF Truthful, MakeStatusJournalEntry
<1>7. GapInv' /\ Contiguous' /\ JournalTrue' /\ (Startable' <=> Startable) /\ TrustedDescriptor(descriptor)'
  BY <1>1, <1>3, <1>5, <1>6, RecordStep
<1>8. BootTypes'
  BY <1>1, <1>7, ErrorCodesAssumption DEF BootInv, BootTypes
<1> QED
  BY <1>1, <1>4, <1>7, <1>8 DEF BootInv, Recoverable, Deploying, Copying, JournalOwned, Installing

LEMMA MarkAsDeployStartedInv ==
    ASSUME BootInv, MarkAsDeployStarted
    PROVE  BootInv'
<1>1. /\ pc = "upgrade" /\ pc' = "image" /\ image' = 1 /\ Record("deployStarted", 0)
      /\ UNCHANGED <<pack, slot, descriptor, chunk, code>>
  BY DEF MarkAsDeployStarted
<1>2. phase = "idle"
  BY <1>1 DEF Record, RecordSame, RecordBegin
<1>3. Contiguous
  BY <1>1, <1>2 DEF BootInv, JournalOwned
<1>4. "deployStarted" \in RecordedStatuses /\ 0 \in ErrorCodes
  BY ErrorCodesAssumption DEF RecordedStatuses, UpgradePackStatus
<1>5. /\ GapInv' /\ Contiguous' /\ JournalTrue' /\ (Startable' <=> Startable) /\ TrustedDescriptor(descriptor)'
      /\ Becoming' = DeployStartedEntry
      /\ Becoming = Becoming' => phase' = "idle"
  <2>1. Truthful(pack, slot, descriptor, DeployStartedEntry)
    BY TruthfulFacts DEF DeployStartedEntry
  <2> QED
    BY <1>1, <1>3, <1>4, <2>1, RecordStep DEF DeployStartedEntry
<1>6. BootTypes'
  BY <1>1, <1>5 DEF BootInv, BootTypes
<1> QED
  BY <1>1, <1>5, <1>6 DEF BootInv, Recoverable, Deploying, Copying, JournalOwned, Installing

LEMMA TryUpgradeImageInv ==
    ASSUME BootInv, TryUpgradeImage
    PROVE  BootInv'
<1>1. /\ pc = "image" /\ phase = "idle" /\ image <= Len(pack.images)
      /\ UNCHANGED <<pack, slot, descriptor>>
  BY DEF TryUpgradeImage
<1>2. Contiguous /\ Passed(pack) /\ Becoming = DeployStartedEntry /\ image >= 1 /\ image \in Nat /\ pack \in Packs
  BY <1>1 DEF BootInv, BootTypes, Deploying, JournalOwned
<1>3. image \in DOMAIN pack.images
  BY <1>1, <1>2, PackFacts
<1>4. CASE Refusal(pack.images[image]) = {} /\ Goto("erase") /\ chunk' = 1 /\ UNCHANGED <<image, code>>
  <2>1. Refusal(pack.images[1]) = {}
    BY <1>1, <1>2, <1>4 DEF BootInv, Deploying
  <2>2. BootTypes'
    BY <1>1, <1>4, GotoEffect DEF BootInv, BootTypes
  <2>3. chunk' \in Chunks
    BY <1>4, BootloaderAssumption DEF Chunks
  <2>4. Recoverable'
    BY <1>1, <1>4, GotoEffect DEF BootInv, Recoverable, Installing
  <2>5. Deploying' /\ Copying'
    BY <1>1, <1>2, <1>3, <1>4, <2>1, <2>3, GotoEffect DEF Deploying, Copying, Installing
  <2>6. JournalOwned'
    BY <1>1, <1>2, <1>4, GotoEffect DEF JournalOwned
  <2> QED
    BY <1>1, <1>4, <2>2, <2>4, <2>5, <2>6, GotoEffect DEF BootInv
<1>5. ASSUME NEW c \in Refusal(pack.images[image]), MarkAsError(c), image' = 0, UNCHANGED chunk
      PROVE  BootInv'
  <2>1. Startable
    BY <1>1, <1>5 DEF BootInv, Recoverable, Installable
  <2>2. c \in Rejections(pack)
    BY <1>2, <1>3, <1>5 DEF Rejections, Passed
  <2>3. c \in ErrorCodes
    BY <1>5, RefusalFacts
  <2>4. image' \in Nat /\ chunk' \in Nat
    BY <1>5 DEF BootInv, BootTypes
  <2> QED
    BY <1>1, <1>2, <1>5, <2>1, <2>2, <2>3, <2>4, MarkAsErrorInv
<1> QED
  BY <1>4, <1>5 DEF TryUpgradeImage

LEMMA MarkAsDeployedInv ==
    ASSUME BootInv, MarkAsDeployed
    PROVE  BootInv'
<1>1. /\ pc = "image" /\ image > Len(pack.images) /\ pc' = "start" /\ image' = 0
      /\ Record("deployed", 0) /\ UNCHANGED <<pack, slot, descriptor, chunk, code>>
  BY DEF MarkAsDeployed
<1>2. phase = "idle"
  BY <1>1 DEF Record, RecordSame, RecordBegin
<1>3. Contiguous /\ pack \in Packs /\ image \in Nat
  BY <1>1, <1>2 DEF BootInv, BootTypes, JournalOwned
<1>4. Startable
  <2> SUFFICES ASSUME ~Startable
               PROVE  FALSE
    OBVIOUS
  <2>1. image = 1 /\ pack.images # <<>>
    BY <1>1 DEF BootInv, Recoverable, Installable
  <2> QED
    BY <1>1, <1>3, <2>1, PackFacts
<1>5. ASSUME pack.images # <<>>
      PROVE  Holds(slot, descriptor, pack.images[Len(pack.images)].image)
  <2>1. image > 1
    BY <1>1, <1>3, <1>5, PackFacts
  <2>2. image - 1 \in DOMAIN pack.images /\ Holds(slot, descriptor, pack.images[image - 1].image)
    BY <1>1, <2>1 DEF BootInv, Deploying
  <2>3. image - 1 = Len(pack.images)
    BY <1>1, <1>3, <2>2, PackFacts
  <2> QED
    BY <2>2, <2>3
<1>6. "deployed" \in RecordedStatuses /\ 0 \in ErrorCodes
  BY ErrorCodesAssumption DEF RecordedStatuses, UpgradePackStatus
<1>7. Truthful(pack, slot, descriptor, MakeStatusJournalEntry("deployed", 0))
  BY <1>5 DEF Truthful, MakeStatusJournalEntry
<1>8. GapInv' /\ Contiguous' /\ JournalTrue' /\ (Startable' <=> Startable) /\ TrustedDescriptor(descriptor)'
  BY <1>1, <1>3, <1>6, <1>7, RecordStep
<1>9. BootTypes'
  BY <1>1, <1>8 DEF BootInv, BootTypes
<1> QED
  BY <1>1, <1>4, <1>8, <1>9 DEF BootInv, Recoverable, Deploying, Copying, JournalOwned, Installing

-----------------------------------------------------------------------------
(* The installation.                                                        *)

\* What holds all through it: the journal says "deploy started" and nothing else,
\* so whatever becomes of the slot a reset leads back here.
LEMMA WhileInstalling ==
    ASSUME BootInv, pc \in Installing
    PROVE  /\ GapInv /\ phase = "idle" /\ Contiguous
           /\ Becoming = DeployStartedEntry /\ Held = {DeployStartedEntry}
           /\ Passed(pack) /\ Installable(pack) /\ pack \in Packs
           /\ image \in DOMAIN pack.images /\ image \in Nat /\ image >= 1
           /\ Refusal(pack.images[1]) = {} /\ Refusal(pack.images[image]) = {}
           /\ ImageChunks \in 1 .. SlotChunks /\ SlotChunks \in Nat
           /\ pack.images[image].image \in Writable \cap Trusted \cap FittingImages
<1>1. /\ GapInv /\ phase = "idle" /\ Contiguous /\ Becoming = DeployStartedEntry
      /\ Passed(pack) /\ pack \in Packs
      /\ image \in DOMAIN pack.images /\ image \in Nat /\ image >= 1
      /\ Refusal(pack.images[1]) = {} /\ Refusal(pack.images[image]) = {}
  BY DEF BootInv, BootTypes, Deploying, JournalOwned, Installing
<1>2. Held = {DeployStartedEntry}
  BY <1>1, HeldWhenIdle
<1>3. pack.images # <<>>
  BY <1>1
<1>4. Installable(pack)
  BY <1>1, <1>3 DEF Installable, Passed
<1>5. ImageChunks \in 1 .. SlotChunks /\ SlotChunks \in Nat
  BY <1>1, PackFacts, RefusalFacts, BootloaderAssumption DEF ImageChunks
<1> QED
  BY <1>1, <1>2, <1>4, <1>5, InstalledImage, RefusalFacts

\* A step of the installation, or a reset in it, that writes the slot
LEMMA InstallStep ==
    ASSUME BootInv, pc \in Installing, UNCHANGED jvars, UNCHANGED pack,
           pc' \in {"reset"} \cup Installing,
           slot' \in [Chunks -> Writable], TrustedDescriptor(descriptor'),
           image' \in Nat, chunk' \in Nat, code' \in ErrorCodes,
           pc' \in Installing => image' = image,
           Copying'
    PROVE  BootInv'
<1>1. /\ GapInv' /\ Held' = {DeployStartedEntry} /\ Becoming' = DeployStartedEntry
      /\ Contiguous' /\ phase' = "idle"
  BY WhileInstalling, JournalKept DEF jvars
<1>2. JournalTrue'
  BY <1>1, TruthfulFacts DEF JournalTrue, DeployStartedEntry
<1>3. BootTypes'
  BY <1>1 DEF BootInv, BootTypes, Installing
<1>4. Recoverable'
  BY <1>1, WhileInstalling DEF Recoverable, Installing
<1>5. Deploying'
  BY <1>1, WhileInstalling DEF Deploying, Installing
<1>6. JournalOwned'
  BY <1>1 DEF JournalOwned, Installing
<1> QED
  BY <1>2, <1>3, <1>4, <1>5, <1>6 DEF BootInv

LEMMA SlotSectorType ==
    ASSUME BootInv, NEW k \in Chunks, NEW c \in Writable
    PROVE  SlotSector(k, c) \in [Chunks -> Writable]
BY DEF BootInv, BootTypes, SlotSector

LEMMA DescriptorSectorTrusted ==
    ASSUME BootInv, NEW k, NEW d \in {NoDescriptor, TornDescriptor}
    PROVE  TrustedDescriptor(DescriptorSector(k, d))
BY DEF BootInv, DescriptorSector, TrustedDescriptor, NoDescriptor, TornDescriptor

LEMMA EraseForInv ==
    ASSUME BootInv, EraseFor
    PROVE  BootInv'
<1>1. /\ pc = "erase" /\ slot' = SlotSector(chunk, Blank)
      /\ descriptor' = DescriptorSector(chunk, NoDescriptor) /\ UNCHANGED <<pack, image, code>>
  BY DEF EraseFor
<1>2. pc \in Installing
  BY <1>1 DEF Installing
<1>3. chunk \in Chunks
  BY <1>1 DEF BootInv, Copying
<1>4. slot' \in [Chunks -> Writable]
  BY <1>1, <1>3, SlotSectorType DEF Writable
<1>5. TrustedDescriptor(descriptor')
  BY <1>1, DescriptorSectorTrusted
<1>6. image' \in Nat /\ code' \in ErrorCodes
  BY <1>1 DEF BootInv, BootTypes
<1>7. ASSUME NextSector(chunk) # 0, chunk' = NextSector(chunk), Goto("erase")
      PROVE  BootInv'
  <2>1. chunk' \in Chunks
    BY <1>2, <1>3, <1>7, WhileInstalling DEF NextSector, Chunks
  <2>2. pc' = "erase" /\ UNCHANGED jvars /\ chunk' \in Nat
    BY <1>7, <2>1 DEF Goto, Chunks
  <2>3. Copying'
    BY <2>1, <2>2 DEF Copying
  <2> QED
    BY <1>1, <1>2, <1>4, <1>5, <1>6, <2>2, <2>3, InstallStep DEF Installing
<1>8. ASSUME NextSector(chunk) = 0, chunk' = 1, Goto("copy")
      PROVE  BootInv'
  <2>1. ImageChunks' = ImageChunks
    BY <1>1 DEF ImageChunks
  <2>2. chunk' \in 1 .. ImageChunks' /\ chunk' - 1 = 0
    BY <1>2, <1>8, <2>1, WhileInstalling
  <2>3. pc' = "copy" /\ UNCHANGED jvars /\ chunk' \in Nat
    BY <1>8 DEF Goto
  <2>4. Copying'
    BY <2>2, <2>3 DEF Copying
  <2> QED
    BY <1>1, <1>2, <1>4, <1>5, <1>6, <2>3, <2>4, InstallStep DEF Installing
<1> QED
  BY <1>7, <1>8 DEF EraseFor

LEMMA CopyInv ==
    ASSUME BootInv, Copy
    PROVE  BootInv'
<1> DEFINE i == pack.images[image].image
<1>1. /\ pc = "copy" /\ slot' = SlotSector(chunk, i) /\ UNCHANGED <<pack, descriptor, image, code>>
  BY DEF Copy
<1>2. pc \in Installing
  BY <1>1 DEF Installing
<1>3. chunk \in 1 .. ImageChunks /\ \A k \in 1 .. chunk - 1 : slot[k] = i
  BY <1>1 DEF BootInv, Copying
<1>4. chunk \in Chunks /\ ImageChunks \in 1 .. SlotChunks /\ SlotChunks \in Nat
  BY <1>2, <1>3, WhileInstalling DEF Chunks
<1>5. slot' \in [Chunks -> Writable]
  BY <1>1, <1>2, <1>4, SlotSectorType, WhileInstalling
<1>6. \A k \in 1 .. chunk : slot'[k] = i
  BY <1>1, <1>3, <1>4 DEF BootInv, BootTypes, SlotSector, Chunks
<1>7. /\ image' \in Nat /\ code' \in ErrorCodes /\ TrustedDescriptor(descriptor')
      /\ ImageChunks' = ImageChunks /\ pack'.images[image'].image = i
  BY <1>1 DEF BootInv, BootTypes, ImageChunks
<1>8. ASSUME chunk < ImageChunks, chunk' = chunk + 1, Goto("copy")
      PROVE  BootInv'
  <2>1. pc' = "copy" /\ UNCHANGED jvars /\ chunk' \in Nat /\ chunk' \in 1 .. ImageChunks /\ chunk' - 1 = chunk
    BY <1>4, <1>8 DEF Goto, Chunks
  <2>2. Copying'
    BY <1>6, <1>7, <2>1 DEF Copying
  <2> QED
    BY <1>1, <1>2, <1>5, <1>7, <2>1, <2>2, InstallStep DEF Installing
<1>9. ASSUME chunk = ImageChunks, chunk' = 0, Goto("describe")
      PROVE  BootInv'
  <2>1. pc' = "describe" /\ UNCHANGED jvars /\ chunk' \in Nat
    BY <1>9 DEF Goto
  <2>2. Copying'
    BY <1>6, <1>7, <1>9, <2>1 DEF Copying
  <2> QED
    BY <1>1, <1>2, <1>5, <1>7, <2>1, <2>2, InstallStep DEF Installing
<1> QED
  BY <1>8, <1>9 DEF Copy

\* The descriptor computed at the end covers the image that was copied.
LEMMA DescribedImage ==
    ASSUME BootInv, pc = "describe"
    PROVE  /\ TrustedDescriptor(MakeImageDescriptor(slot, ImageChunks))
           /\ Holds(slot, MakeImageDescriptor(slot, ImageChunks), pack.images[image].image)
<1> DEFINE i == pack.images[image].image
<1> DEFINE d == MakeImageDescriptor(slot, ImageChunks)
<1>1. /\ ImageChunks \in 1 .. SlotChunks /\ SlotChunks \in Nat
      /\ i \in Trusted /\ i \in FittingImages
  BY WhileInstalling DEF Installing
<1>2. \A k \in 1 .. ImageChunks : slot[k] = i
  BY DEF BootInv, Copying
<1>3. d.kind = "valid" /\ d.size = ImageChunks /\ d.sha256 = [k \in 1 .. ImageChunks |-> slot[k]]
  BY DEF MakeImageDescriptor
<1> HIDE DEF d
<1>4. d.sha256 = [k \in 1 .. d.size |-> i]
  BY <1>2, <1>3
<1>5. TrustedDescriptor(d)
  BY <1>1, <1>3, <1>4 DEF TrustedDescriptor
<1>6. ApplicationIsStartable(slot, d)
  BY <1>1, <1>2, <1>3 DEF ApplicationIsStartable, ImageStartFitsTarget
<1>7. Holds(slot, d, i)
  BY <1>2, <1>3, <1>6 DEF Holds
<1> QED
  BY <1>5, <1>7 DEF d

LEMMA WriteDescriptorInv ==
    ASSUME BootInv, WriteDescriptor
    PROVE  BootInv'
<1>1. /\ pc = "describe" /\ pc' = "image" /\ phase = "idle" /\ UNCHANGED jvars
      /\ descriptor' = MakeImageDescriptor(slot, ImageChunks)
      /\ image' = image + 1 /\ UNCHANGED <<pack, slot, chunk, code>>
  BY DEF WriteDescriptor, Goto
<1>2. pc \in Installing
  BY <1>1 DEF Installing
<1>3. TrustedDescriptor(descriptor') /\ Holds(slot', descriptor', pack'.images[image].image)
  BY <1>1, DescribedImage
<1>4. Startable'
  BY <1>3 DEF Startable, Holds
<1>5. /\ GapInv' /\ Held' = {DeployStartedEntry} /\ Becoming' = DeployStartedEntry
      /\ Contiguous' /\ phase' = "idle"
  BY <1>1, <1>2, WhileInstalling, JournalKept DEF jvars
<1>6. JournalTrue'
  BY <1>5, TruthfulFacts DEF JournalTrue, DeployStartedEntry
<1>7. image' - 1 = image /\ image' >= 1 /\ image' \in Nat
  BY <1>1, <1>2, WhileInstalling
<1>8. BootTypes'
  BY <1>1, <1>5, <1>7 DEF BootInv, BootTypes
<1>9. Deploying'
  BY <1>1, <1>2, <1>3, <1>5, <1>7, WhileInstalling DEF Deploying, Installing
<1> QED
  BY <1>1, <1>3, <1>4, <1>5, <1>6, <1>8, <1>9 DEF BootInv, Recoverable, Copying, JournalOwned

-----------------------------------------------------------------------------
(* The journal's own steps, the application and resets.                     *)

LEMMA JournalStepInv ==
    ASSUME BootInv, JournalStep, UNCHANGED bvars
    PROVE  BootInv'
<1>1. /\ GapInv' /\ phase # "idle" /\ Becoming' = Becoming
      /\ Held' \subseteq Held \cup {Erased}
      /\ phase' = "idle" => Contiguous'
  BY StepEffect DEF BootInv, BootTypes
<1>2. UNCHANGED <<pc, pack, slot, descriptor, image, chunk, code>>
  BY DEF bvars
<1>3. Startable
  BY <1>1 DEF BootInv, Recoverable
<1>4. Startable' /\ TrustedDescriptor(descriptor')
  BY <1>2, <1>3 DEF Startable, BootInv
<1>5. JournalTrue'
  <2>1. Truthful(pack, slot, descriptor, Erased) /\ Held' \subseteq Held \cup {Erased, Erased} /\ JournalTrue
    BY <1>1, TruthfulFacts DEF BootInv
  <2> QED
    BY <1>2, <2>1, TruthKept
<1>6. BootTypes'
  BY <1>1, <1>2 DEF BootInv, BootTypes
<1>7. Deploying' /\ Copying'
  BY <1>1, <1>2 DEF BootInv, Deploying, Copying, ImageChunks
<1>8. JournalOwned'
  BY <1>1, <1>2 DEF BootInv, JournalOwned
<1> QED
  BY <1>4, <1>5, <1>6, <1>7, <1>8 DEF BootInv, Recoverable

LEMMA AppDownloadInv ==
    ASSUME BootInv, AppDownload
    PROVE  BootInv'
<1>1. /\ pc = "application" /\ pc' = "download" /\ Clear
      /\ UNCHANGED <<pack, slot, descriptor, image, chunk, code>>
  BY DEF AppDownload
<1>2. /\ GapInv' /\ phase' # "idle" /\ Becoming' = Erased
      /\ Held' \subseteq Held \cup {Erased}
  BY <1>1, ClearEffect DEF BootInv, BootTypes
<1>3. Startable
  BY <1>1 DEF BootInv, Recoverable, Installing
<1>4. Startable' /\ TrustedDescriptor(descriptor')
  BY <1>1, <1>3 DEF Startable, BootInv
<1>5. JournalTrue'
  <2>1. Truthful(pack, slot, descriptor, Erased) /\ Held' \subseteq Held \cup {Erased, Erased} /\ JournalTrue
    BY <1>2, TruthfulFacts DEF BootInv
  <2> QED
    BY <1>1, <2>1, TruthKept
<1>6. BootTypes'
  BY <1>1, <1>2 DEF BootInv, BootTypes
<1> QED
  BY <1>1, <1>2, <1>4, <1>5, <1>6 DEF BootInv, Recoverable, Deploying, Copying, JournalOwned, Installing

\* While a pack is received no unit holds an entry that could speak of the one
\* before it.
LEMMA AppReceiveInv ==
    ASSUME BootInv, AppReceive
    PROVE  BootInv'
<1>1. /\ pc = "download" /\ pc' = "received" /\ phase = "idle" /\ UNCHANGED jvars /\ pack' \in Packs
      /\ UNCHANGED <<slot, descriptor, image, chunk, code>>
  BY DEF AppReceive, Goto
<1>2. GapInv /\ Contiguous /\ Becoming = Erased
  BY <1>1 DEF BootInv, BootTypes, JournalOwned
<1>3. Held = {Erased}
  BY <1>1, <1>2, HeldWhenIdle
<1>4. GapInv' /\ Held' = {Erased} /\ Becoming' = Erased /\ Contiguous' /\ phase' = "idle"
  BY <1>1, <1>2, <1>3, JournalKept DEF jvars
<1>5. Startable
  BY <1>1 DEF BootInv, Recoverable, Installing
<1>6. Startable' /\ TrustedDescriptor(descriptor')
  BY <1>1, <1>5 DEF Startable, BootInv
<1>7. JournalTrue'
  BY <1>4, TruthfulFacts DEF JournalTrue
<1>8. BootTypes'
  BY <1>1, <1>4 DEF BootInv, BootTypes
<1> QED
  BY <1>1, <1>4, <1>6, <1>7, <1>8 DEF BootInv, Recoverable, Deploying, Copying, JournalOwned, Installing

\* The application records a status that says nothing of the slot.
LEMMA AppRecordInv ==
    ASSUME BootInv, pc \in {"application", "received"}, pc' = "application", Contiguous,
           NEW s \in {"downloaded", "readyToDeploy"}, Record(s, 0),
           UNCHANGED <<pack, slot, descriptor, image, chunk, code>>
    PROVE  BootInv'
<1>1. s \in RecordedStatuses /\ 0 \in ErrorCodes /\ s \notin {"deployed", "invalid"}
  BY ErrorCodesAssumption DEF RecordedStatuses, UpgradePackStatus
<1>2. Truthful(pack, slot, descriptor, MakeStatusJournalEntry(s, 0))
  BY <1>1, TruthfulFacts
<1>3. GapInv' /\ Contiguous' /\ JournalTrue' /\ (Startable' <=> Startable) /\ TrustedDescriptor(descriptor)'
  BY <1>1, <1>2, RecordStep
<1>4. Startable
  BY DEF BootInv, Recoverable, Installing
<1>5. BootTypes'
  BY <1>3 DEF BootInv, BootTypes
<1> QED
  BY <1>3, <1>4, <1>5 DEF BootInv, Recoverable, Deploying, Copying, JournalOwned, Installing

LEMMA ApplicationInv ==
    ASSUME BootInv, Application
    PROVE  BootInv'
<1>1. CASE AppDownloaded
  <2>1. Contiguous
    BY <1>1 DEF AppDownloaded, BootInv, JournalOwned
  <2> QED
    BY <1>1, <2>1, AppRecordInv DEF AppDownloaded
<1>2. CASE AppApply
  <2>1. Value(flash) # Erased
    BY <1>2, EntryFacts DEF AppApply, Status
  <2>2. Contiguous
    BY <2>1, GapReadsEmpty, GapInvFacts DEF BootInv, BootTypes
  <2> QED
    BY <1>2, <2>2, AppRecordInv DEF AppApply
<1>3. CASE AppReset
  <2>1. /\ pc = "application" /\ Goto("reset")
        /\ UNCHANGED <<pack, slot, descriptor, image, chunk, code>>
    BY <1>3 DEF AppReset
  <2>2. Startable
    BY <2>1 DEF BootInv, Recoverable, Installing
  <2>3. BootTypes'
    BY <2>1, GotoEffect DEF BootInv, BootTypes
  <2> QED
    BY <2>1, <2>2, <2>3, GotoEffect
       DEF BootInv, Recoverable, Deploying, Copying, JournalOwned, Installing
<1> QED
  BY <1>1, <1>2, <1>3, AppDownloadInv, AppReceiveInv DEF Application

LEMMA SystemPowerLossInv ==
    ASSUME BootInv, SystemPowerLoss
    PROVE  BootInv'
<1>1. /\ pc' = "reset" /\ image' = 0 /\ chunk' = 0 /\ code' = 0 /\ pack' = pack /\ SlotCut
      /\ PowerLoss \/ (phase = "idle" /\ UNCHANGED jvars)
  BY DEF SystemPowerLoss
<1>2. Copying' /\ image' \in Nat /\ chunk' \in Nat /\ code' \in ErrorCodes
  BY <1>1, ErrorCodesAssumption DEF Copying
<1>3. CASE pc \in Installing
  <2>1. UNCHANGED jvars
    BY <1>1, <1>3, WhileInstalling DEF PowerLoss
  <2>2. slot' \in [Chunks -> Writable] /\ TrustedDescriptor(descriptor')
    <3>1. CASE pc = "erase"
      <4>1. chunk \in Chunks /\ {Blank, Garbled} \subseteq Writable
        BY <3>1 DEF BootInv, Copying, Writable
      <4>2. \/ UNCHANGED <<slot, descriptor>>
            \/ /\ slot' = SlotSector(chunk, Garbled)
               /\ descriptor' = DescriptorSector(chunk, TornDescriptor)
            \/ /\ slot' = SlotSector(chunk, Blank)
               /\ descriptor' = DescriptorSector(chunk, NoDescriptor)
        BY <1>1, <3>1 DEF SlotCut
      <4>3. CASE UNCHANGED <<slot, descriptor>>
        BY <4>3 DEF BootInv, BootTypes
      <4> QED
        BY <4>1, <4>2, <4>3, SlotSectorType, DescriptorSectorTrusted
    <3>2. CASE pc = "copy"
      <4>1. PICK c \in {slot[chunk], Garbled, pack.images[image].image} : slot' = SlotSector(chunk, c)
        BY <1>1, <3>2 DEF SlotCut
      <4>2. chunk \in 1 .. ImageChunks /\ ImageChunks \in 1 .. SlotChunks /\ SlotChunks \in Nat
        BY <1>3, <3>2, WhileInstalling DEF BootInv, Copying
      <4>3. chunk \in Chunks
        BY <4>2 DEF Chunks
      <4>4. c \in Writable
        <5>1. slot[chunk] \in Writable /\ Garbled \in Writable
          BY <4>3 DEF BootInv, BootTypes, Writable
        <5> QED
          BY <1>3, <4>1, <5>1, WhileInstalling
      <4>5. descriptor' = descriptor
        BY <1>1, <3>2 DEF SlotCut
      <4> QED
        BY <4>1, <4>3, <4>4, <4>5, SlotSectorType DEF BootInv
    <3>3. CASE pc = "describe"
      <4>1. /\ slot' = slot
            /\ descriptor' \in {descriptor, TornDescriptor, MakeImageDescriptor(slot, ImageChunks)}
        BY <1>1, <3>3 DEF SlotCut
      <4>2. TrustedDescriptor(TornDescriptor)
        BY DEF TrustedDescriptor, TornDescriptor
      <4> QED
        BY <3>3, <4>1, <4>2, DescribedImage DEF BootInv, BootTypes
    <3> QED
      BY <1>3, <3>1, <3>2, <3>3 DEF Installing
  <2> QED
    BY <1>1, <1>2, <1>3, <2>1, <2>2, InstallStep DEF Installing
<1>4. CASE pc \notin Installing
  <2>1. UNCHANGED <<slot, descriptor>>
    BY <1>1, <1>4 DEF SlotCut, Installing
  <2>2. GapInv' /\ phase' = "idle" /\ Held' \subseteq Held \cup {Erased}
    BY <1>1, CutEffect, JournalKept DEF BootInv, BootTypes, jvars
  <2>3. ~Startable => phase = "idle" /\ Becoming' = Becoming
    BY <1>1, CutEffect, JournalKept DEF BootInv, BootTypes, Recoverable
  <2>4. (Startable' <=> Startable) /\ TrustedDescriptor(descriptor')
    BY <2>1 DEF Startable, BootInv
  <2>5. JournalTrue'
    <3>1. Truthful(pack, slot, descriptor, Erased) /\ Held' \subseteq Held \cup {Erased, Erased} /\ JournalTrue
      BY <2>2, TruthfulFacts DEF BootInv
    <3> QED
      BY <1>1, <2>1, <3>1, TruthKept
  <2>6. BootTypes'
    BY <1>1, <1>2, <2>1, <2>2 DEF BootInv, BootTypes
  <2>7. Recoverable'
    BY <1>1, <2>2, <2>3, <2>4 DEF BootInv, Recoverable
  <2> QED
    BY <1>1, <1>2, <2>4, <2>5, <2>6, <2>7 DEF BootInv, Deploying, JournalOwned, Installing
<1> QED
  BY <1>3, <1>4

LEMMA BootNextInv == BootInv /\ [BootNext]_vars => BootInv'
<1> SUFFICES ASSUME BootInv, [BootNext]_vars
             PROVE  BootInv'
  OBVIOUS
<1>1. CASE BootStep
  BY <1>1, ResetInv, StartInv, LoadInv, WriteErrorInv, MarkAsDeployStartedInv, TryUpgradeImageInv,
     MarkAsDeployedInv, EraseForInv, CopyInv, WriteDescriptorInv, JournalStepInv DEF BootStep
<1>2. CASE UNCHANGED vars
  <2>1. UNCHANGED jvars /\ UNCHANGED <<pc, pack, slot, descriptor, image, chunk, code>>
    BY <1>2 DEF vars, bvars
  <2>2. GapInv' /\ Held' = Held /\ Becoming' = Becoming /\ (Contiguous' <=> Contiguous) /\ phase' = phase
    BY <2>1, JournalKept DEF BootInv, BootTypes, jvars
  <2>3. JournalTrue'
    BY <2>1, <2>2 DEF BootInv, JournalTrue
  <2>4. BootTypes' /\ TrustedDescriptor(descriptor')
    BY <2>1, <2>2 DEF BootInv, BootTypes
  <2>5. Recoverable' /\ JournalOwned'
    BY <2>1, <2>2 DEF BootInv, Recoverable, JournalOwned, Startable
  <2>6. Deploying' /\ Copying'
    BY <2>1, <2>2 DEF BootInv, Deploying, Copying, ImageChunks
  <2> QED
    BY <2>3, <2>4, <2>5, <2>6 DEF BootInv
<1> QED
  BY <1>1, <1>2, ApplicationInv, SystemPowerLossInv DEF BootNext

-----------------------------------------------------------------------------
(* The theorems.                                                            *)

\* Whatever packs are staged and wherever resets strike in writing and erasing the
\* slot and the journal, also a journal of several sectors, a device that boots
\* finds an application to start or the pack to install once more.
THEOREM BootNeverBricks == BootSpec => []NoBrick
<1>1. BootInv => NoBrick
  <2> SUFFICES ASSUME BootInv, ~Startable
               PROVE  Status(flash) = "deployStarted" /\ Installable(pack)
    BY DEF NoBrick, Startable
  <2>1. phase = "idle" /\ Becoming = DeployStartedEntry /\ Installable(pack)
    BY DEF BootInv, Recoverable
  <2> QED
    BY <2>1, EntryFacts DEF Becoming, Status
<1> QED
  BY <1>1, BootInitInv, BootNextInv, PTL DEF BootSpec

\* The application that runs is one whole image, of production or of a pack that
\* passed the loader's checks; no mixture of two images is ever started.
THEOREM BootStartsOnlyTrusted == BootSpec => []StartsOnlyTrustedImages
<1>1. BootInv => StartsOnlyTrustedImages
  <2> SUFFICES ASSUME BootInv, pc = "application"
               PROVE  \E i \in Trusted : SlotHolds(i)
    BY DEF StartsOnlyTrustedImages
  <2>1. ApplicationIsStartable(slot, descriptor)
    BY DEF BootInv, Recoverable, Startable, Installing
  <2>2. descriptor.kind = "valid" /\ descriptor.sha256 = [k \in 1 .. descriptor.size |-> slot[k]]
    BY <2>1 DEF ApplicationIsStartable
  <2>3. PICK i \in Trusted : descriptor.sha256 = [k \in 1 .. descriptor.size |-> i]
    BY <2>2 DEF BootInv, TrustedDescriptor
  <2>4. \A k \in 1 .. descriptor.size : slot[k] = i
    BY <2>2, <2>3
  <2> QED
    BY <2>1, <2>4 DEF SlotHolds
<1> QED
  BY <1>1, BootInitInv, BootNextInv, PTL DEF BootSpec

LEMMA ValueHeld == Value(flash) \in Held
BY DEF Held

\* The journal says "deployed" only of a pack whose last image is in the slot,
\* whole, also when resets bring older entries of the journal to light.
THEOREM BootDeployedIsTrue == BootSpec => []DeployedMeansInstalled
<1>1. BootInv => DeployedMeansInstalled
  BY ValueHeld DEF BootInv, JournalTrue, Truthful, Holds, SlotHolds, DeployedMeansInstalled, Status
<1> QED
  BY <1>1, BootInitInv, BootNextInv, PTL DEF BootSpec

\* No image of a pack that cannot be installed has the contents of one that can,
\* nor of what production, an erase or a torn write leaves in the slot.
ImagesToldApart ==
    \A p \in Packs : ~Installable(p) => \A i \in DOMAIN p.images : p.images[i].image \notin Writable

\* The journal says "invalid" only of a pack that a check refuses, with that check's
\* error code or none; nothing of a pack refused before its first image is in the slot.
THEOREM BootInvalidIsTrue ==
    ASSUME ImagesToldApart
    PROVE  BootSpec => []InvalidMeansRejected
<1>1. BootInv => InvalidMeansRejected
  <2> SUFFICES ASSUME BootInv, Status(flash) = "invalid"
               PROVE  /\ Rejections(pack) # {} /\ ErrorCode(flash) \in {0} \cup Rejections(pack)
                      /\ ~Installable(pack) => InstalledNothing
    BY DEF InvalidMeansRejected
  <2>1. Rejections(pack) # {} /\ ErrorCode(flash) \in {0} \cup Rejections(pack)
    BY ValueHeld DEF BootInv, JournalTrue, Truthful, Status, ErrorCode
  <2>2. ASSUME ~Installable(pack)
        PROVE  InstalledNothing
    BY <2>2 DEF BootInv, BootTypes, ImagesToldApart, InstalledNothing
  <2> QED
    BY <2>1, <2>2
<1> QED
  BY <1>1, BootInitInv, BootNextInv, PTL DEF BootSpec

\* The members keep their types: the index of the image stays within the pack, the
\* sector to erase or to copy within the slot, and a descriptor never claims more.
THEOREM BootTypeCorrect == BootSpec => []BootTypeOK
<1> DEFINE DescriptorOK(d) == d.kind \in {"erased", "torn", "valid"} /\ d.size \in 0 .. SlotChunks
           Bounds == /\ image \in 0 .. Len(pack.images) + 1
                     /\ pc \notin {"image"} \cup Installing => image = 0
                     /\ chunk \in 0 .. SlotChunks
                     /\ DescriptorOK(descriptor)
<1>1. BootInit => Bounds
  <2> SUFFICES ASSUME BootInit
               PROVE  Bounds
    OBVIOUS
  <2>1. Len(pack.images) \in Nat /\ SlotChunks \in Nat
    BY BootloaderAssumption, PackFacts DEF BootInit
  <2> QED
    BY <2>1 DEF BootInit, MakeImageDescriptor, Installing
<1>2. ASSUME BootInv, Bounds, [BootNext]_vars
      PROVE  Bounds'
  <2>1. /\ SlotChunks \in Nat /\ SlotChunks >= 1 /\ pack \in Packs
        /\ Len(pack.images) \in Nat /\ DOMAIN pack.images = 1 .. Len(pack.images)
    BY <1>2, BootloaderAssumption, PackFacts DEF BootInv, BootTypes
  <2>2. pc \in Installing => image \in 1 .. Len(pack.images) /\ ImageChunks \in 1 .. SlotChunks
    BY SMTT(30), <1>2, <2>1, PackFacts, RefusalFacts DEF BootInv, Deploying, ImageChunks
  <2>3. DescriptorOK(NoDescriptor) /\ DescriptorOK(TornDescriptor)
    BY <2>1 DEF NoDescriptor, TornDescriptor
  <2>4. pc \in Installing => DescriptorOK(MakeImageDescriptor(slot, ImageChunks))
    BY <2>1, <2>2 DEF MakeImageDescriptor
  <2>5. /\ pc = "erase" => chunk \in 1 .. SlotChunks
        /\ pc = "copy" => chunk \in 1 .. ImageChunks
    BY <1>2 DEF BootInv, Copying, Chunks
  <2> HIDE DEF DescriptorOK
  <2>6. CASE Reset \/ Start \/ Load \/ WriteError \/ MarkAsDeployed \/ MarkAsDeployStarted
    <3>1. chunk' = chunk /\ descriptor' = descriptor /\ pack' = pack
      BY <2>6 DEF Reset, Start, Load, WriteError, MarkAsDeployed, MarkAsDeployStarted
    <3>2. (image' = 1 /\ pc' = "image") \/ (image' = 0 /\ pc' \notin {"image"} \cup Installing)
      BY <1>2, <2>6 DEF Reset, Start, Load, WriteError, MarkAsDeployed, MarkAsDeployStarted,
                        MarkAsError, Goto, Installing
    <3> QED
      BY <1>2, <2>1, <3>1, <3>2
  <2>7. CASE TryUpgradeImage
    <3>1. /\ descriptor' = descriptor /\ pack' = pack
          /\ \/ image' = image /\ image <= Len(pack.images) /\ pc' = "erase" /\ chunk' = 1
             \/ image' = 0 /\ pc' = "writeError" /\ chunk' = chunk
      BY <2>7 DEF TryUpgradeImage, MarkAsError, Goto
    <3> QED
      BY <1>2, <2>1, <3>1 DEF Installing
  <2>8. CASE EraseFor
    <3>1. pack' = pack /\ image' = image /\ pc' \in Installing
      BY <2>8 DEF EraseFor, Goto, Installing
    <3>2. chunk' \in 0 .. SlotChunks
      BY <2>1, <2>2, <2>5, <2>8 DEF EraseFor, NextSector, Installing
    <3>3. DescriptorOK(descriptor')
      BY <1>2, <2>3, <2>8 DEF EraseFor, DescriptorSector
    <3> QED
      BY <1>2, <3>1, <3>2, <3>3
  <2>9. CASE Copy
    <3>1. pack' = pack /\ image' = image /\ pc' \in Installing /\ descriptor' = descriptor
      BY <2>9 DEF Copy, Goto, Installing
    <3>2. chunk' \in 0 .. SlotChunks
      BY <2>1, <2>2, <2>5, <2>9 DEF Copy, Installing
    <3> QED
      BY <1>2, <3>1, <3>2
  <2>10. CASE WriteDescriptor
    <3>1. /\ pack' = pack /\ image' = image + 1 /\ pc' = "image" /\ chunk' = chunk
          /\ descriptor' = MakeImageDescriptor(slot, ImageChunks) /\ pc = "describe"
      BY <2>10 DEF WriteDescriptor, Goto
    <3> QED
      BY <1>2, <2>1, <2>2, <2>4, <3>1 DEF Installing
  <2>11. CASE Application
    <3>1. /\ pc \notin {"image"} \cup Installing /\ pc' \notin {"image"} \cup Installing
          /\ image' = image /\ chunk' = chunk /\ descriptor' = descriptor /\ (pack' = pack \/ pack' \in Packs)
      BY <2>11 DEF Application, AppDownload, AppReceive, AppDownloaded, AppApply, AppReset, Goto, Installing
    <3>2. Len(pack'.images) \in Nat
      BY <2>1, <3>1, PackFacts
    <3> QED
      BY <1>2, <3>1, <3>2
  <2>12. CASE SystemPowerLoss
    <3>1. pack' = pack /\ image' = 0 /\ chunk' = 0
      BY <2>12 DEF SystemPowerLoss
    <3>2. DescriptorOK(descriptor')
      BY <1>2, <2>3, <2>4, <2>12 DEF SystemPowerLoss, SlotCut, DescriptorSector, Installing
    <3> QED
      BY <2>1, <3>1, <3>2
  <2>13. CASE UNCHANGED bvars
    BY <1>2, <2>13 DEF bvars
  <2> QED
    BY <1>2, <2>6, <2>7, <2>8, <2>9, <2>10, <2>11, <2>12, <2>13 DEF BootNext, BootStep, vars
<1>3. ASSUME BootInv, Bounds
      PROVE  BootTypeOK
  <2>1. Writable \subseteq Images \cup {Blank, Garbled}
    BY DEF Writable, Images
  <2>2. slot \in [Chunks -> Images \cup {Blank, Garbled}]
    BY <1>3, <2>1 DEF BootInv, BootTypes
  <2> QED
    BY <1>3, <2>2 DEF BootInv, BootTypes, BootTypeOK, GapInv, JournalInv
<1> HIDE DEF Bounds
<1> QED
  BY <1>1, <1>2, <1>3, BootInitInv, BootNextInv, PTL DEF BootSpec

=============================================================================
