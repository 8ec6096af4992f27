------------------------- MODULE ConfigurationStore -------------------------
(***************************************************************************)
(* services::FactoryDefaultConfigurationStore over three flash blobs, one  *)
(* with the factory default and two of which one holds the configuration,  *)
(* while power may be lost at any moment.                                  *)
(*                                                                         *)
(* A configuration is its version: 0 is the factory default, and each      *)
(* change by the application is a new one.  A blob is erased, torn, or     *)
(* holds a version; the hash tells torn blobs from whole ones.  A flash    *)
(* operation takes effect when it is done; a power cut leaves what was,    *)
(* what was to be, or a torn blob.                                         *)
(***************************************************************************)
EXTENDS Integers, FiniteSets

CONSTANTS
    MaxVersion,     \* bound: how often the application changes the configuration
    MaxOperations,  \* bound: operationId, whose width is 32 bits in the code
    MaxCuts,        \* bound: how often power is lost
    MaxErases,      \* bound: how often the application erases the configuration
    EraseAnytime    \* whether it does so while a write is under way or held

ASSUME ConfigurationStoreAssumption ==
    /\ MaxVersion \in Nat /\ MaxOperations \in Nat /\ MaxCuts \in Nat /\ MaxErases \in Nat
    /\ EraseAnytime \in BOOLEAN

Erased == -1
Torn == -2
Blobs == {"factory", "blob1", "blob2"}

VARIABLES
    flash,          \* what each blob holds
    configuration,  \* the configuration in memory
    store,          \* the members of ConfigurationStoreBase
    lockCount,      \* LockGuards around
    recovery,       \* how far FactoryDefaultConfigurationStoreBase::Recover is
    write,          \* the write under way
    erase,          \* the erase under way
    version,        \* history: the newest version
    promised,       \* history: for each identifier given out, the configuration it stands for
    durable,        \* history: the newest configuration whose write was reported done
    cuts, erases

vars == <<flash, configuration, store, lockCount, recovery, write, erase, version, promised, durable, cuts, erases>>

FreshStore ==
    [active |-> "blob1", inactive |-> "blob2", operationId |-> 0, writingBlob |-> FALSE, writeRequested |-> FALSE]

Swap(s) == [s EXCEPT !.active = s.inactive, !.inactive = s.active]

\* Mutant: whatever is there is taken for a configuration.
MutBlobIsValid(content) == content # Erased

BlobIsValid(content) == content >= 0

NoWrite == [step |-> "none", content |-> Erased, id |-> 0]
NoErase == [step |-> "none", blob |-> "blob1", id |-> 0]

Ready == recovery = "ready"

-----------------------------------------------------------------------------
(* ConfigurationStoreBase::Write, and the erase of the other blob that      *)
(* follows it.  The configuration is serialized when Write is called.       *)

\* Write, in a store s
Written(s, locked) ==
    IF s.writingBlob \/ locked
    THEN /\ store' = [s EXCEPT !.writeRequested = TRUE]
         /\ write' = IF s.writingBlob THEN write ELSE NoWrite
    ELSE /\ store' = [s EXCEPT !.writeRequested = FALSE, !.writingBlob = TRUE, !.operationId = @ + 1]
         /\ write' = [step |-> "writing", content |-> configuration, id |-> s.operationId]

Promise(id) == [promised EXCEPT ![id] = configuration]

Write ==
    /\ Ready /\ store.operationId < MaxOperations
    /\ EraseAnytime \/ erase.step = "none"
    /\ Written(store, lockCount > 0)
    /\ promised' = Promise(store.operationId)
    /\ UNCHANGED <<flash, configuration, lockCount, recovery, erase, version, durable, cuts, erases>>

\* The blob is written and verified, and the other one is to be erased.
BlobWritten ==
    /\ write.step = "writing"
    /\ flash' = [flash EXCEPT ![store.active] = IF @ = Erased THEN write.content ELSE Torn]
    /\ write' = [write EXCEPT !.step = "erasing"]
    /\ UNCHANGED <<configuration, store, lockCount, recovery, erase, version, promised, durable, cuts, erases>>

\* BlobWriteDone, which starts the write requested meanwhile, and OperationDone
WriteDone ==
    /\ write.step = "erasing"
    /\ flash' = [flash EXCEPT ![store.inactive] = Erased]
    /\ LET s == [Swap(store) EXCEPT !.writingBlob = FALSE]
       IN  IF s.writeRequested
           THEN Written(s, lockCount > 0)
           ELSE store' = s /\ write' = NoWrite
    /\ durable' = promised[write.id]
    /\ promised' = [promised EXCEPT ![write.id] = Erased]
    /\ UNCHANGED <<configuration, lockCount, recovery, erase, version, cuts, erases>>

Lock ==
    /\ Ready /\ lockCount < 2
    /\ lockCount' = lockCount + 1
    /\ UNCHANGED <<flash, configuration, store, recovery, write, erase, version, promised, durable, cuts, erases>>

\* Mutant: what was requested meanwhile is not written.
MutUnlock ==
    /\ lockCount > 0
    /\ lockCount' = lockCount - 1
    /\ UNCHANGED <<flash, configuration, store, recovery, write, erase, version, promised, durable, cuts, erases>>

\* ~LockGuard: the last one writes what was requested meanwhile
Unlock ==
    /\ lockCount > 0
    /\ lockCount' = lockCount - 1
    /\ IF lockCount = 1 /\ store.writeRequested
       THEN Written(store, FALSE)
       ELSE UNCHANGED <<store, write>>
    /\ UNCHANGED <<flash, configuration, recovery, erase, version, promised, durable, cuts, erases>>

\* The application changes the configuration in memory.
Change ==
    /\ Ready /\ version < MaxVersion
    /\ version' = version + 1
    /\ configuration' = version + 1
    /\ UNCHANGED <<flash, store, lockCount, recovery, write, erase, promised, durable, cuts, erases>>

-----------------------------------------------------------------------------
(* ConfigurationStoreBase::Erase: first the inactive blob and then the      *)
(* active one, whatever else is under way.                                  *)

Erase ==
    /\ Ready /\ erases < MaxErases /\ store.operationId < MaxOperations /\ erase.step = "none"
    /\ EraseAnytime \/ ~(store.writingBlob \/ store.writeRequested)
    /\ erases' = erases + 1
    /\ store' = [store EXCEPT !.operationId = @ + 1]
    /\ erase' = [step |-> "inactive", blob |-> store.inactive, id |-> store.operationId]
    /\ durable' = 0
    /\ UNCHANGED <<flash, configuration, lockCount, recovery, write, version, promised, cuts>>

InactiveErased ==
    /\ erase.step = "inactive"
    /\ flash' = [flash EXCEPT ![erase.blob] = Erased]
    /\ erase' = [erase EXCEPT !.step = "active", !.blob = store.active]
    /\ UNCHANGED <<configuration, store, lockCount, recovery, write, version, promised, durable, cuts, erases>>

\* OperationDone, which ends a recovery that erased the blobs
ActiveErased ==
    /\ erase.step = "active"
    /\ flash' = [flash EXCEPT ![erase.blob] = Erased]
    /\ erase' = NoErase
    /\ recovery' = "ready"
    /\ durable' = IF promised[erase.id] # Erased THEN promised[erase.id] ELSE durable
    /\ promised' = [promised EXCEPT ![erase.id] = Erased]
    /\ UNCHANGED <<configuration, store, lockCount, write, version, cuts, erases>>

-----------------------------------------------------------------------------
(* Recovery.                                                                *)

Continue(step) ==
    /\ recovery' = step
    /\ UNCHANGED <<lockCount, write, version, promised, durable, cuts, erases>>

\* The factory default is recovered, or loaded by the application and written.
RecoverFactoryDefault ==
    /\ recovery = "factory"
    /\ configuration' = IF BlobIsValid(flash["factory"]) THEN flash["factory"] ELSE 0
    /\ Continue(IF BlobIsValid(flash["factory"]) THEN "first" ELSE "eraseFactory")
    /\ UNCHANGED <<flash, store, erase>>

EraseFactoryDefault ==
    /\ recovery = "eraseFactory"
    /\ flash' = [flash EXCEPT !["factory"] = Erased]
    /\ Continue("writeFactory")
    /\ UNCHANGED <<configuration, store, erase>>

WriteFactoryDefault ==
    /\ recovery = "writeFactory"
    /\ flash' = [flash EXCEPT !["factory"] = configuration]
    /\ Continue("firstAfterLoad")
    /\ UNCHANGED <<configuration, store, erase>>

\* OnBlobLoaded after the first blob was good or after both were tried, s being
\* the store then; without a configuration, one that was not good has to go
\* when the factory default was new.
BlobLoaded(s, loading) ==
    LET t == Swap(s)
        success == BlobIsValid(flash[t.inactive])
    IN
    /\ configuration' = IF success THEN flash[t.inactive] ELSE configuration
    /\ IF ~success /\ loading
       THEN /\ store' = [t EXCEPT !.operationId = @ + 1]
            /\ erase' = [step |-> "inactive", blob |-> t.inactive, id |-> t.operationId]
            /\ Continue("erasing")
       ELSE /\ store' = t
            /\ Continue("ready")
            /\ UNCHANGED erase

\* Mutant: the other blob is left as it is.
MutRecoverBlobs ==
    \E loading \in BOOLEAN :
        /\ recovery = IF loading THEN "firstAfterLoad" ELSE "first"
        /\ UNCHANGED flash
        /\ BlobLoaded(IF BlobIsValid(flash[store.active]) THEN store ELSE Swap(store), loading)

\* ConfigurationStoreBase::Recover: the first blob, or else the second, is read,
\* and the other one erased unless it is.
RecoverBlobs ==
    \E loading \in BOOLEAN :
        LET s == IF BlobIsValid(flash[store.active]) THEN store ELSE Swap(store)
        IN
        /\ recovery = IF loading THEN "firstAfterLoad" ELSE "first"
        /\ UNCHANGED flash
        /\ IF flash[s.inactive] = Erased
           THEN BlobLoaded(s, loading)
           ELSE /\ store' = s
                /\ Continue(IF loading THEN "eraseOtherAfterLoad" ELSE "eraseOther")
                /\ UNCHANGED <<configuration, erase>>

OtherErased ==
    \E loading \in BOOLEAN :
        /\ recovery = IF loading THEN "eraseOtherAfterLoad" ELSE "eraseOther"
        /\ flash' = [flash EXCEPT ![store.inactive] = Erased]
        /\ BlobLoaded(store, loading)

-----------------------------------------------------------------------------

\* What the blob may hold when power is lost in this state
Remains(b) ==
    {flash[b]}
    \cup (IF write.step = "writing" /\ b = store.active THEN {Torn, write.content} ELSE {})
    \cup (IF \/ write.step = "erasing" /\ b = store.inactive
             \/ erase.step # "none" /\ b = erase.blob
             \/ recovery \in {"eraseOther", "eraseOtherAfterLoad"} /\ b = store.inactive
             \/ recovery = "eraseFactory" /\ b = "factory"
          THEN {Torn, Erased} ELSE {})
    \cup (IF recovery = "writeFactory" /\ b = "factory" THEN {Torn, configuration} ELSE {})

PowerCut ==
    /\ cuts < MaxCuts
    /\ cuts' = cuts + 1
    /\ \E f \in Remains("factory"), b1 \in Remains("blob1"), b2 \in Remains("blob2") :
           flash' = [b \in Blobs |-> CASE b = "factory" -> f [] b = "blob1" -> b1 [] b = "blob2" -> b2]
    /\ configuration' = 0
    /\ store' = FreshStore /\ lockCount' = 0
    /\ recovery' = "factory"
    /\ write' = NoWrite /\ erase' = NoErase
    /\ promised' = [id \in 0 .. MaxOperations |-> Erased]
    /\ UNCHANGED <<version, durable, erases>>

Init ==
    /\ flash \in [Blobs -> {Erased, Torn}]
    /\ configuration = 0
    /\ store = FreshStore /\ lockCount = 0
    /\ recovery = "factory"
    /\ write = NoWrite /\ erase = NoErase
    /\ version = 0 /\ durable = 0
    /\ promised = [id \in 0 .. MaxOperations |-> Erased]
    /\ cuts = 0 /\ erases = 0

Flash ==
    \/ BlobWritten \/ WriteDone \/ InactiveErased \/ ActiveErased
    \/ RecoverFactoryDefault \/ EraseFactoryDefault \/ WriteFactoryDefault \/ RecoverBlobs \/ OtherErased

Next == Write \/ Lock \/ Unlock \/ Change \/ Erase \/ Flash \/ PowerCut

\* The flash finishes its operations, and locks are let go of.
Spec == Init /\ [][Next]_vars /\ WF_vars(Flash) /\ WF_vars(Unlock)

-----------------------------------------------------------------------------
(* Properties.                                                              *)

\* Once OperationDone has been given the identifier that Write returned, no power
\* cut, however many follow and wherever, brings back an older configuration.
DurableWhenDone == Ready => configuration >= durable

\* A blob is written only when it is erased, no flash has two operations at a
\* time, and the two blobs always take turns.
FlashUsedRight ==
    /\ {store.active, store.inactive} = {"blob1", "blob2"}
    /\ write.step = "writing" => flash[store.active] = Erased
    /\ write.step # "none" => Ready /\ erase.step = "none"
    /\ recovery = "writeFactory" => flash["factory"] = Erased

\* Unless locks overlap forever, every identifier that Write returns is reported
\* done, held writes included, or power is lost.
EveryWriteReported ==
    []<>(lockCount = 0) =>
        \A id \in 0 .. MaxOperations : promised[id] # Erased ~> promised[id] = Erased
=============================================================================
