---------------------------- MODULE StatusJournal ----------------------------
(***************************************************************************)
(* bootloader::StatusJournal: the status and the error code of the staged  *)
(* upgrade pack, kept as a log of 16-byte entries in a flash region of its *)
(* own.  Flash is modelled per programming unit (one entry) and per sector *)
(* (what one erase clears); Record and Clear are split at every point      *)
(* where a reset leaves a different flash behind, and PowerLoss may strike *)
(* at each of them.                                                        *)
(*                                                                         *)
(* std::optional is a set with at most one element.                        *)
(***************************************************************************)
EXTENDS Naturals

CONSTANTS
    NumberOfUnits,      \* flash.TotalSize() / sizeof(StatusJournalEntry)
    NumberOfSectors,    \* flash.NumberOfSectors()
    SectorOfUnit,       \* the sector each unit lies in
    ErrorCodes          \* the error codes the callers record

Units == 0 .. NumberOfUnits - 1
Sectors == 0 .. NumberOfSectors - 1

ASSUME GeometryAssumption ==
    /\ NumberOfUnits \in Nat \ {0}
    /\ NumberOfSectors \in Nat \ {0}
    /\ SectorOfUnit \in [Units -> Sectors]
    /\ \A u, v \in Units : u <= v => SectorOfUnit[u] <= SectorOfUnit[v]

ASSUME ErrorCodesAssumption == 0 \in ErrorCodes

\* application::UpgradePackStatus
UpgradePackStatus ==
    {"empty", "downloaded", "readyToDeploy", "deployStarted", "deployed", "invalid"}

\* The callers of Record never record "empty": that is what Clear is for.
RecordedStatuses == UpgradePackStatus \ {"empty"}

VARIABLES
    flash,      \* the journal's flash: what each unit holds
    phase,      \* "idle", or what the operation under way does next
    sector,     \* the next sector EraseAll erases
    address,    \* the unit Record writes
    entry,      \* the entry Record writes; Erased in Clear
    cut         \* history: the last operation was cut by a reset

jvars == <<flash, phase, sector, address, entry, cut>>

-----------------------------------------------------------------------------
(* Entries.  A unit is erased, holds an entry whose check matches, or holds *)
(* anything else: the remains of a write or an erase that a reset cut.      *)

MakeStatusJournalEntry(status, errorCode) ==
    [kind |-> "entry", status |-> status, error |-> errorCode]

\* Erased also stands for what an empty journal reads: "empty" and no error.
Erased == [kind |-> "erased", status |-> "empty", error |-> 0]
Torn == [kind |-> "torn", status |-> "empty", error |-> 0]

Entries == [kind : {"entry"}, status : UpgradePackStatus, error : ErrorCodes]
UnitContents == Entries \cup {Erased, Torn}

IsErased(unit) == unit.kind = "erased"
IsValid(unit) == unit.kind = "entry"

-----------------------------------------------------------------------------
(* StatusJournal::Read: a scan up to the first erased unit.                 *)

\* Mutant: the scan stops at an entry that fails its check.
ScannedStopsAtTorn(f) == {u \in Units : \A v \in 0 .. u : IsValid(f[v])}

\* The units the loop of Read looks at before it meets an erased one.
Scanned(f) == {u \in Units : \A v \in 0 .. u : ~IsErased(f[v])}

\* Mutant: the scan keeps the first valid entry.
FirstValid(f) ==
    {u \in Scanned(f) : IsValid(f[u]) /\ \A v \in Scanned(f) : IsValid(f[v]) => u <= v}

\* scan.latest, as the unit it was read from.
Latest(f) ==
    {u \in Scanned(f) : IsValid(f[u]) /\ \A v \in Scanned(f) : IsValid(f[v]) => v <= u}

\* Mutant: the next entry goes behind the latest valid one.
UnitAfterLatest(f) ==
    {u \in Units : IF Latest(f) = {} THEN u = 0 ELSE u - 1 \in Latest(f)}

\* scan.firstErased
FirstErased(f) == {u \in Units : IsErased(f[u]) /\ \A v \in Units : v < u => ~IsErased(f[v])}

\* What the journal holds: its latest valid entry, Erased when there is none.
Value(f) == IF Latest(f) = {} THEN Erased ELSE f[CHOOSE u \in Latest(f) : TRUE]

Status(f) == Value(f).status
ErrorCode(f) == Value(f).error

-----------------------------------------------------------------------------
(* The operations.  While one is under way the caller waits for it, so the  *)
(* next begins only when the phase is "idle" again.                         *)

\* Record of a status and an error code equal to the current ones.
RecordSame(status, errorCode) ==
    /\ phase = "idle"
    /\ Latest(flash) # {} /\ Value(flash) = MakeStatusJournalEntry(status, errorCode)
    /\ UNCHANGED jvars

\* Record, up to its first change of the flash.
RecordBegin(status, errorCode) ==
    /\ phase = "idle"
    /\ Latest(flash) = {} \/ Value(flash) # MakeStatusJournalEntry(status, errorCode)
    /\ entry' = MakeStatusJournalEntry(status, errorCode)
    /\ \/ /\ address' \in FirstErased(flash)
          /\ phase' = "write"
       \/ /\ FirstErased(flash) = {}
          /\ address' = 0
          /\ phase' = "erase"
    /\ sector' = 0
    /\ cut' = FALSE
    /\ UNCHANGED flash

Record(status, errorCode) == RecordSame(status, errorCode) \/ RecordBegin(status, errorCode)

Clear ==
    /\ phase = "idle"
    /\ phase' = "erase"
    /\ sector' = 0
    /\ address' = 0
    /\ entry' = Erased
    /\ cut' = FALSE
    /\ UNCHANGED flash

\* The flash with every unit of sector s set to contents.
SectorSetTo(s, contents) ==
    [u \in Units |-> IF SectorOfUnit[u] = s THEN contents ELSE flash[u]]

\* The operation under way is over and its locals are gone.
Return ==
    /\ phase' = "idle"
    /\ sector' = 0
    /\ address' = 0
    /\ entry' = Erased

\* One sector of flash.EraseAll(); after the last one Clear returns.
EraseSector ==
    /\ phase = "erase"
    /\ flash' = SectorSetTo(sector, Erased)
    /\ UNCHANGED cut
    /\ \/ /\ sector + 1 < NumberOfSectors
          /\ sector' = sector + 1
          /\ UNCHANGED <<phase, address, entry>>
       \/ /\ sector + 1 = NumberOfSectors
          /\ entry # Erased
          /\ phase' = "write"
          /\ UNCHANGED <<sector, address, entry>>
       \/ /\ sector + 1 = NumberOfSectors
          /\ entry = Erased
          /\ Return

\* flash.WriteBuffer of the entry; Record returns.
WriteEntry ==
    /\ phase = "write"
    /\ flash' = [flash EXCEPT ![address] = entry]
    /\ UNCHANGED cut
    /\ Return

\* A reset in the middle of a write leaves the unit as it was, with some of
\* its bits, or complete; in the middle of a sector's erase it leaves the
\* sector as it was, unreadable, or erased.
PowerLoss ==
    /\ \/ /\ phase = "write"
          /\ \E u \in {flash[address], Torn, entry} : flash' = [flash EXCEPT ![address] = u]
       \/ /\ phase = "erase"
          /\ flash' \in {flash, SectorSetTo(sector, Torn), SectorSetTo(sector, Erased)}
    /\ cut' = TRUE
    /\ Return

JournalInit ==
    /\ flash = [u \in Units |-> Erased]
    /\ phase = "idle"
    /\ sector = 0
    /\ address = 0
    /\ entry = Erased
    /\ cut = FALSE

JournalStep == EraseSector \/ WriteEntry

JournalNext ==
    \/ \E status \in RecordedStatuses, errorCode \in ErrorCodes : Record(status, errorCode)
    \/ Clear
    \/ JournalStep
    \/ PowerLoss

JournalSpec == JournalInit /\ [][JournalNext]_jvars

-----------------------------------------------------------------------------
(* Properties.                                                              *)

JournalTypeOK ==
    /\ flash \in [Units -> UnitContents]
    /\ phase \in {"idle", "erase", "write"}
    /\ sector \in Sectors
    /\ address \in Units
    /\ entry \in Entries \cup {Erased}
    /\ cut \in BOOLEAN

\* Record only programs an erased unit, also after resets tore earlier
\* entries and when a full journal had to be erased first: flash with ECC
\* cannot program a unit twice.
NoUnitProgrammedTwice == phase = "write" => flash[address] = Erased

\* Once its write completes, the entry a Record writes is what Status() and
\* ErrorCode() return, whatever earlier operations and resets left behind.
RecordReadsBack ==
    phase = "write" => Value([flash EXCEPT ![address] = entry]) = entry

\* The register a journal within one sector implements.
Register == INSTANCE StatusRegister WITH
    Values <- Entries \cup {Erased},
    EmptyValue <- Erased,
    value <- Value(flash),
    busy <- phase # "idle",
    pending <- IF phase = "idle" THEN Erased ELSE entry

\* A journal within one sector, read through Status() and ErrorCode(), is
\* one register: a reset leaves the old value, the new value or the empty
\* one, and entries torn by earlier resets never show.
ImplementsRegister == Register!RegisterSpec

=============================================================================
