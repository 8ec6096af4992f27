---------------------- MODULE ConfigurationStore_proofs ----------------------
(***************************************************************************)
(* Proofs about ConfigurationStore, for any number of changes, operations, *)
(* erases and power cuts, and an application that does not erase the       *)
(* configuration while a write is under way or held.                       *)
(***************************************************************************)
EXTENDS ConfigurationStore, TLAPS

\* The application calls Erase only between its writes, and Write only when an
\* erase is done.
ErasesBetweenWrites == ~EraseAnytime

ConfigurationBlobs == {"blob1", "blob2"}
Identifiers == 0 .. MaxOperations

Stores ==
    [active : ConfigurationBlobs, inactive : ConfigurationBlobs, operationId : Nat,
     writingBlob : BOOLEAN, writeRequested : BOOLEAN]
Writes == [step : {"none", "writing", "erasing"}, content : Int, id : Nat]
Erases == [step : {"none", "inactive", "active"}, blob : ConfigurationBlobs, id : Nat]

RecoverySteps ==
    {"factory", "eraseFactory", "writeFactory", "first", "firstAfterLoad",
     "eraseOther", "eraseOtherAfterLoad", "erasing", "ready"}

Types ==
    /\ flash \in [Blobs -> Int] /\ configuration \in Nat
    /\ store \in Stores /\ store.active # store.inactive
    /\ lockCount \in Nat /\ recovery \in RecoverySteps
    /\ write \in Writes /\ erase \in Erases
    /\ version \in Nat /\ durable \in Int
    /\ promised \in [Identifiers -> Int]

\* The blobs have been read.
Loaded == recovery \in {"ready", "erasing"}

\* One operation at a time on the two blobs
Exclusive ==
    /\ store.writingBlob <=> write.step # "none"
    /\ ~Ready => ~store.writingBlob /\ ~store.writeRequested
    /\ ~Loaded => store.operationId = 0
    /\ erase.step # "none" => Loaded /\ ~store.writingBlob /\ ~store.writeRequested
    /\ recovery = "writeFactory" => flash["factory"] = Erased

\* The blob that is written next is erased, and the one just written is whole.
Alternating ==
    /\ Loaded /\ write.step # "erasing" => flash[store.active] = Erased
    /\ write.step = "erasing" => flash[store.active] = write.content

\* Nothing is from the future.
Past ==
    /\ configuration <= version
    /\ \A b \in Blobs : flash[b] <= version
    /\ write.content <= version

\* What stands for an identifier is no newer than what is written for it, and
\* those not given out yet stand for nothing.
Promised ==
    /\ \A id \in Identifiers : promised[id] <= configuration /\ (~Ready => promised[id] = Erased)
    /\ \A id \in Identifiers : id > store.operationId => promised[id] = Erased
    /\ \A id \in Identifiers : id = store.operationId /\ ~store.writeRequested => promised[id] = Erased
    /\ store.writeRequested => store.operationId < MaxOperations
    /\ write.step # "none" => /\ write.id \in Identifiers /\ write.id < store.operationId
                              /\ write.content \in Nat
                              /\ durable <= write.content /\ promised[write.id] <= write.content
    /\ erase.step # "none" => erase.id \in Identifiers /\ promised[erase.id] = Erased

\* What a flash operation under way may change
Touched(b) ==
    \/ write.step = "writing" /\ b = store.active
    \/ write.step = "erasing" /\ b = store.inactive
    \/ erase.step # "none"
    \/ recovery \in {"eraseOther", "eraseOtherAfterLoad"} /\ b = store.inactive

\* No blob holds anything older than what was reported done, and one that nothing
\* touches holds as much.
Durable ==
    /\ Loaded => configuration >= durable
    /\ \A b \in ConfigurationBlobs : BlobIsValid(flash[b]) => flash[b] >= durable
    /\ durable > 0 => \E b \in ConfigurationBlobs : BlobIsValid(flash[b]) /\ ~Touched(b)

StoreInv == Types /\ Exclusive /\ Alternating /\ Past /\ Promised /\ Durable

-----------------------------------------------------------------------------
(* Facts the proofs of the steps share.                                     *)

LEMMA RecordFacts ==
    /\ FreshStore \in Stores /\ NoWrite \in Writes /\ NoErase \in Erases
    /\ FreshStore.active = "blob1" /\ FreshStore.inactive = "blob2" /\ FreshStore.operationId = 0
    /\ ~FreshStore.writingBlob /\ ~FreshStore.writeRequested
    /\ NoWrite.step = "none" /\ NoWrite.content = -1 /\ NoErase.step = "none"
    /\ "factory" \in Blobs /\ ConfigurationBlobs \subseteq Blobs /\ "factory" \notin ConfigurationBlobs
    /\ Erased = -1 /\ Torn = -2
BY DEF FreshStore, NoWrite, NoErase, Stores, Writes, Erases, ConfigurationBlobs, Blobs, Erased, Torn

LEMMA SwapFacts ==
    ASSUME NEW s \in Stores
    PROVE  /\ Swap(s) \in Stores
           /\ Swap(s).active = s.inactive /\ Swap(s).inactive = s.active
           /\ Swap(s).operationId = s.operationId
           /\ Swap(s).writingBlob = s.writingBlob /\ Swap(s).writeRequested = s.writeRequested
BY DEF Swap, Stores

LEMMA TwoBlobs ==
    ASSUME NEW s \in Stores, s.active # s.inactive
    PROVE  /\ s.active \in ConfigurationBlobs /\ s.inactive \in ConfigurationBlobs
           /\ \A b \in ConfigurationBlobs : b = s.active \/ b = s.inactive
           /\ {s.active, s.inactive} = {"blob1", "blob2"}
BY DEF Stores, ConfigurationBlobs

\* Write begins to write, or leaves a request.
LEMMA WrittenEffect ==
    ASSUME NEW s \in Stores, NEW locked \in BOOLEAN, Written(s, locked), write \in Writes, configuration \in Nat
    PROVE  /\ store' \in Stores /\ write' \in Writes
           /\ store'.active = s.active /\ store'.inactive = s.inactive
           /\ \/ /\ s.writingBlob \/ locked
                 /\ store'.operationId = s.operationId
                 /\ (store'.writingBlob <=> s.writingBlob) /\ store'.writeRequested
                 /\ s.writingBlob => write' = write
                 /\ ~s.writingBlob => write' = NoWrite
              \/ /\ ~s.writingBlob /\ ~locked
                 /\ store'.operationId = s.operationId + 1
                 /\ store'.writingBlob /\ ~store'.writeRequested
                 /\ write'.step = "writing" /\ write'.content = configuration /\ write'.id = s.operationId
<1>1. CASE s.writingBlob \/ locked
  <2>1. store' = [s EXCEPT !.writeRequested = TRUE] /\ write' = IF s.writingBlob THEN write ELSE NoWrite
    BY <1>1 DEF Written
  <2>2. /\ store' \in Stores /\ store'.active = s.active /\ store'.inactive = s.inactive
        /\ store'.operationId = s.operationId /\ store'.writingBlob = s.writingBlob /\ store'.writeRequested
    BY <2>1 DEF Stores
  <2>3. write' \in Writes /\ (s.writingBlob => write' = write) /\ (~s.writingBlob => write' = NoWrite)
    BY <2>1, RecordFacts
  <2> QED
    BY <1>1, <2>2, <2>3
<1>2. CASE ~(s.writingBlob \/ locked)
  <2>1. /\ store' = [s EXCEPT !.writeRequested = FALSE, !.writingBlob = TRUE, !.operationId = @ + 1]
        /\ write' = [step |-> "writing", content |-> configuration, id |-> s.operationId]
    BY <1>2 DEF Written
  <2>2. /\ store' \in Stores /\ store'.active = s.active /\ store'.inactive = s.inactive
        /\ store'.operationId = s.operationId + 1 /\ store'.writingBlob /\ ~store'.writeRequested
    <3>1. s.operationId + 1 \in Nat
      BY DEF Stores
    <3>2. store' \in Stores
      BY <2>1, <3>1 DEF Stores
    <3>3. store'.active = s.active /\ store'.inactive = s.inactive /\ store'.operationId = s.operationId + 1
      BY <2>1 DEF Stores
    <3>4. store'.writingBlob = TRUE /\ store'.writeRequested = FALSE
      BY <2>1 DEF Stores
    <3> QED
      BY <3>2, <3>3, <3>4
  <2>3. s.operationId \in Nat
    BY DEF Stores
  <2>4. /\ write' \in Writes
        /\ write'.step = "writing" /\ write'.content = configuration /\ write'.id = s.operationId
    BY <2>1, <2>3 DEF Writes
  <2> QED
    BY <1>2, <2>2, <2>4
<1> QED
  BY <1>1, <1>2

LEMMA StoreInitInv == Init => StoreInv
<1> SUFFICES ASSUME Init
             PROVE  StoreInv
  OBVIOUS
<1>1. Types
  BY RecordFacts, ConfigurationStoreAssumption DEF Init, Types, RecoverySteps, Identifiers
<1>2. Exclusive /\ Alternating
  BY RecordFacts DEF Init, Exclusive, Alternating, Ready, Loaded
<1>3. Past
  BY RecordFacts DEF Init, Past
<1>4. Promised
  BY RecordFacts, ConfigurationStoreAssumption DEF Init, Promised, Identifiers, Ready
<1>5. Durable
  BY RecordFacts DEF Init, Durable, Loaded, BlobIsValid
<1> QED
  BY <1>1, <1>2, <1>3, <1>4, <1>5 DEF StoreInv

-----------------------------------------------------------------------------
(* The steps of the application.                                            *)

LEMMA WriteInv ==
    ASSUME StoreInv, ErasesBetweenWrites, Write
    PROVE  StoreInv'
<1>1. /\ Ready /\ store.operationId < MaxOperations /\ erase.step = "none" /\ Written(store, lockCount > 0)
      /\ promised' = [promised EXCEPT ![store.operationId] = configuration]
      /\ UNCHANGED <<flash, configuration, lockCount, recovery, erase, version, durable>>
  BY DEF Write, ErasesBetweenWrites, Promise
<1> USE DEF StoreInv
<1>2. /\ store \in Stores /\ write \in Writes /\ configuration \in Nat /\ lockCount \in Nat
      /\ promised \in [Identifiers -> Int] /\ store.operationId \in Nat /\ durable \in Int
      /\ (lockCount > 0) \in BOOLEAN /\ MaxOperations \in Nat
  BY ConfigurationStoreAssumption DEF Types, Stores
<1>3. store.operationId \in Identifiers
  BY <1>1, <1>2 DEF Identifiers
<1>4. promised' \in [Identifiers -> Int]
  <2>1. configuration \in Int /\ promised \in [Identifiers -> Int]
    BY <1>2
  <2> QED
    BY <1>1, <2>1
<1> DEFINE Begins == /\ ~store.writingBlob
                     /\ store'.operationId = store.operationId + 1
                     /\ store'.writingBlob /\ ~store'.writeRequested
                     /\ write'.step = "writing" /\ write'.content = configuration /\ write'.id = store.operationId
           Waits == /\ store'.operationId = store.operationId
                    /\ (store'.writingBlob <=> store.writingBlob) /\ store'.writeRequested
                    /\ store.writingBlob => write' = write
                    /\ ~store.writingBlob => write' = NoWrite
<1>5. /\ store' \in Stores /\ write' \in Writes
      /\ store'.active = store.active /\ store'.inactive = store.inactive
      /\ Begins \/ Waits
  BY <1>1, <1>2, WrittenEffect
<1>6. Types'
  BY <1>1, <1>4, <1>5 DEF Types
<1>7. CASE Begins
  <2>1. write.step = "none" /\ Loaded
    BY <1>1, <1>7 DEF Exclusive, Loaded, Ready
  <2>2. Exclusive'
    BY <1>1, <1>7 DEF Exclusive, Ready, Loaded
  <2>3. Alternating'
    BY <1>1, <1>5, <1>7, <2>1 DEF Alternating, Loaded
  <2>4. Past'
    BY <1>1, <1>7 DEF Past
  <2>5. Promised'
    <3>1. \A id \in Identifiers : promised'[id] <= configuration' /\ (id > store'.operationId => promised'[id] = Erased)
      BY <1>1, <1>2, <1>3, <1>7 DEF Promised, Identifiers
    <3>2. \A id \in Identifiers : id = store'.operationId => promised'[id] = Erased
      BY <1>1, <1>2, <1>3, <1>7 DEF Promised, Identifiers
    <3>3. promised'[store.operationId] = configuration /\ durable <= configuration
      BY <1>1, <1>2, <1>3, <2>1 DEF Durable
    <3> QED
      BY <1>1, <1>2, <1>3, <1>7, <3>1, <3>2, <3>3 DEF Promised, Ready
  <2>6. Durable'
    <3>1. flash[store.active] = Erased /\ ~BlobIsValid(flash[store.active])
      BY <2>1, RecordFacts DEF Alternating, BlobIsValid
    <3>2. \A b : b # store.active /\ ~Touched(b) => ~Touched(b)'
      BY <1>1, <1>5, <1>7 DEF Touched, Ready
    <3> QED
      BY <1>1, <3>1, <3>2 DEF Durable, Loaded
  <2> QED
    BY <1>6, <2>2, <2>3, <2>4, <2>5, <2>6
<1>8. CASE Waits
  <2>1. write'.step = write.step /\ (write.step # "none" => write' = write)
    BY <1>8, RecordFacts DEF Exclusive
  <2>2. Exclusive'
    BY <1>1, <1>8, <2>1 DEF Exclusive, Ready, Loaded
  <2>3. Alternating'
    BY <1>1, <1>5, <2>1 DEF Alternating, Loaded
  <2>4. Past'
    BY <1>1, <1>2, <1>8, RecordFacts DEF Past, Types
  <2>5. Promised'
    <3>1. \A id \in Identifiers : promised'[id] <= configuration' /\ (id > store'.operationId => promised'[id] = Erased)
      BY <1>1, <1>2, <1>3, <1>8 DEF Promised, Identifiers
    <3>2. ASSUME write.step # "none"
          PROVE  /\ write'.id \in Identifiers /\ write'.id < store'.operationId /\ write'.content \in Nat
                 /\ durable' <= write'.content /\ promised'[write'.id] <= write'.content
      BY <1>1, <1>2, <1>3, <1>8, <2>1, <3>2 DEF Promised
    <3> QED
      BY <1>1, <1>8, <2>1, <3>1, <3>2 DEF Promised, Ready
  <2>6. Durable'
    BY <1>1, <1>5, <2>1 DEF Durable, Touched, Loaded
  <2> QED
    BY <1>6, <2>2, <2>3, <2>4, <2>5, <2>6
<1> QED
  BY <1>5, <1>7, <1>8

\* The numbers and the names in the state, for the leaves that need no more.
LEMMA Numbers ==
    ASSUME Types
    PROVE  /\ configuration \in Nat /\ version \in Nat /\ durable \in Int /\ MaxOperations \in Nat
           /\ store.operationId \in Nat /\ write.id \in Nat /\ write.content \in Int /\ erase.id \in Nat
           /\ flash \in [Blobs -> Int] /\ promised \in [Identifiers -> Int]
           /\ store.active \in ConfigurationBlobs /\ store.inactive \in ConfigurationBlobs
           /\ store.active # store.inactive /\ erase.blob \in ConfigurationBlobs
           /\ store.active \in Blobs /\ store.inactive \in Blobs /\ erase.blob \in Blobs
BY RecordFacts, ConfigurationStoreAssumption DEF Types, Stores, Writes, Erases

LEMMA LockInv ==
    ASSUME StoreInv, Lock
    PROVE  StoreInv'
<1>1. UNCHANGED <<flash, configuration, store, recovery, write, erase, version, promised, durable>>
  BY DEF Lock
<1>2. lockCount' \in Nat
  BY DEF Lock, StoreInv, Types
<1> QED
  BY <1>1, <1>2
     DEF StoreInv, Types, Exclusive, Alternating, Past, Promised, Durable, Touched, Ready, Loaded

LEMMA UnlockInv ==
    ASSUME StoreInv, Unlock
    PROVE  StoreInv'
<1> USE DEF StoreInv
<1>1. /\ UNCHANGED <<flash, configuration, recovery, erase, version, promised, durable>>
      /\ lockCount' \in Nat
  BY DEF Unlock, Types
<1>2. CASE UNCHANGED <<store, write>>
  BY <1>1, <1>2
     DEF Types, Exclusive, Alternating, Past, Promised, Durable, Touched, Ready, Loaded
<1>3. CASE lockCount = 1 /\ store.writeRequested /\ Written(store, FALSE)
  <2>1. Ready /\ Loaded /\ erase.step = "none"
    BY <1>3 DEF Exclusive, Ready, Loaded
  <2>2. store \in Stores /\ write \in Writes /\ configuration \in Nat /\ FALSE \in BOOLEAN
    BY DEF Types
  <2> DEFINE Begins == /\ ~store.writingBlob
                       /\ store'.operationId = store.operationId + 1
                       /\ store'.writingBlob /\ ~store'.writeRequested
                       /\ write'.step = "writing" /\ write'.content = configuration /\ write'.id = store.operationId
             Waits == /\ store.writingBlob
                      /\ store'.operationId = store.operationId
                      /\ store'.writingBlob /\ store'.writeRequested
                      /\ write' = write
  <2>3. /\ store' \in Stores /\ write' \in Writes
        /\ store'.active = store.active /\ store'.inactive = store.inactive
        /\ Begins \/ Waits
    BY <1>3, <2>2, WrittenEffect
  <2>4. Types'
    BY <1>1, <2>3 DEF Types
  <2>5. CASE Waits
    BY <1>1, <1>3, <2>3, <2>4, <2>5
       DEF Exclusive, Alternating, Past, Promised, Durable, Touched, Ready, Loaded
  <2>6. CASE Begins
    <3>1. write.step = "none"
      BY <2>6 DEF Exclusive
    <3>2. Exclusive'
      BY <1>1, <2>1, <2>6 DEF Exclusive, Ready, Loaded
    <3>3. Alternating' /\ Past'
      BY <1>1, <2>1, <2>3, <2>6, <3>1 DEF Alternating, Past, Loaded
    <3>4. Promised'
      <4>1. store.operationId \in Identifiers /\ durable <= configuration
        BY <1>3, <2>1, Numbers DEF Promised, Identifiers, Durable
      <4>2. \A id \in Identifiers : id >= store.operationId + 1 => promised[id] = Erased
        BY Numbers DEF Promised, Identifiers
      <4>3. \A id \in Identifiers : /\ id > store'.operationId => promised'[id] = Erased
                                    /\ id = store'.operationId => promised'[id] = Erased
        BY <1>1, <2>6, <4>2, Numbers DEF Identifiers
      <4> QED
        BY <1>1, <2>1, <2>6, <4>1, <4>3, Numbers DEF Promised, Ready
    <3>5. Durable'
      <4>1. flash[store.active] = Erased /\ ~BlobIsValid(flash[store.active])
        BY <2>1, <3>1, RecordFacts DEF Alternating, BlobIsValid
      <4>2. \A b : b # store.active /\ ~Touched(b) => ~Touched(b)'
        BY <1>1, <2>1, <2>3, <2>6 DEF Touched, Ready
      <4> QED
        BY <1>1, <4>1, <4>2 DEF Durable, Loaded
    <3> QED
      BY <2>4, <3>2, <3>3, <3>4, <3>5
  <2> QED
    BY <2>3, <2>5, <2>6
<1> QED
  BY <1>2, <1>3 DEF Unlock

LEMMA ChangeInv ==
    ASSUME StoreInv, Change
    PROVE  StoreInv'
<1> USE DEF StoreInv
<1>1. /\ UNCHANGED <<flash, store, lockCount, recovery, write, erase, promised, durable>>
      /\ version' = version + 1 /\ configuration' = version + 1
  BY DEF Change
<1>2. version' \in Nat /\ configuration' \in Nat /\ version < version' /\ configuration < configuration'
  BY <1>1, Numbers DEF Past
<1>3. Types'
  BY <1>1, <1>2 DEF Types
<1>4. Exclusive' /\ Alternating'
  BY <1>1 DEF Exclusive, Alternating, Ready, Loaded
<1>5. Past'
  BY <1>1, <1>2, Numbers DEF Past
<1>6. Promised'
  <2>1. \A id \in Identifiers : promised[id] <= configuration'
    BY <1>2, Numbers DEF Promised
  <2> QED
    BY <1>1, <2>1 DEF Promised, Ready
<1>7. Durable'
  <2>1. Loaded => configuration' >= durable
    BY <1>2, Numbers DEF Durable
  <2> QED
    BY <1>1, <2>1 DEF Durable, Touched, Loaded
<1> QED
  BY <1>3, <1>4, <1>5, <1>6, <1>7

LEMMA EraseInv ==
    ASSUME StoreInv, ErasesBetweenWrites, Erase
    PROVE  StoreInv'
<1> USE DEF StoreInv
<1>1. /\ Ready /\ store.operationId < MaxOperations /\ erase.step = "none"
      /\ ~store.writingBlob /\ ~store.writeRequested
      /\ store' = [store EXCEPT !.operationId = @ + 1]
      /\ erase' = [step |-> "inactive", blob |-> store.inactive, id |-> store.operationId]
      /\ durable' = 0
      /\ UNCHANGED <<flash, configuration, lockCount, recovery, write, version, promised>>
  BY DEF Erase, ErasesBetweenWrites
<1>2. store' \in Stores
  <2>1. store \in Stores /\ store.operationId + 1 \in Nat
    BY Numbers DEF Types
  <2> QED
    BY <1>1, <2>1 DEF Stores
<1>3. /\ store'.active = store.active /\ store'.inactive = store.inactive
      /\ store'.operationId = store.operationId + 1
      /\ store'.writingBlob = store.writingBlob /\ store'.writeRequested = store.writeRequested
  <2>1. store \in Stores
    BY DEF Types
  <2> QED
    BY <1>1, <2>1 DEF Stores
<1>4. erase' \in Erases /\ erase'.step = "inactive" /\ erase'.id = store.operationId
  BY <1>1, Numbers DEF Erases
<1>5. write.step = "none" /\ Loaded
  BY <1>1 DEF Exclusive, Ready, Loaded
<1>6. Types'
  BY <1>1, <1>2, <1>3, <1>4 DEF Types
<1>7. Exclusive' /\ Alternating' /\ Past'
  BY <1>1, <1>3, <1>5 DEF Exclusive, Alternating, Past, Ready, Loaded
<1>8. Promised'
  <2>1. store.operationId \in Identifiers
    BY <1>1, Numbers DEF Identifiers
  <2>2. promised[store.operationId] = Erased
    BY <1>1, <2>1 DEF Promised
  <2>3. \A id \in Identifiers : id >= store'.operationId => promised'[id] = Erased
    BY <1>1, <1>3, Numbers DEF Promised, Identifiers
  <2>4. \A id \in Identifiers : /\ id > store'.operationId => promised'[id] = Erased
                                /\ id = store'.operationId => promised'[id] = Erased
    BY <1>3, <2>3, Numbers DEF Identifiers
  <2> QED
    BY <1>1, <1>3, <1>4, <1>5, <2>1, <2>2, <2>4 DEF Promised, Ready
<1>9. Durable'
  BY <1>1, Numbers DEF Durable, BlobIsValid
<1> QED
  BY <1>6, <1>7, <1>8, <1>9

-----------------------------------------------------------------------------
(* The steps of the flash.                                                  *)

LEMMA BlobWrittenInv ==
    ASSUME StoreInv, BlobWritten
    PROVE  StoreInv'
<1> USE DEF StoreInv
<1>1. /\ write.step = "writing"
      /\ flash' = [flash EXCEPT ![store.active] = IF @ = Erased THEN write.content ELSE Torn]
      /\ write' = [write EXCEPT !.step = "erasing"]
      /\ UNCHANGED <<configuration, store, lockCount, recovery, erase, version, promised, durable>>
  BY DEF BlobWritten
<1>2. /\ write' \in Writes /\ write'.step = "erasing"
      /\ write'.content = write.content /\ write'.id = write.id
  BY <1>1 DEF Types, Writes
<1>3. Ready /\ Loaded /\ erase.step = "none" /\ flash[store.active] = Erased
  BY <1>1 DEF Exclusive, Alternating, Ready, Loaded
<1>4. /\ flash' \in [Blobs -> Int] /\ flash'[store.active] = write.content
      /\ \A b \in Blobs \ {store.active} : flash'[b] = flash[b]
  BY <1>1, <1>3, Numbers
<1>5. Types'
  BY <1>1, <1>2, <1>4 DEF Types
<1>6. Exclusive' /\ Alternating'
  BY <1>1, <1>2, <1>3, <1>4 DEF Exclusive, Alternating, Ready, Loaded
<1>7. Past'
  BY <1>1, <1>2, <1>4 DEF Past
<1>8. Promised'
  BY <1>1, <1>2 DEF Promised, Ready
<1>9. Durable'
  <2>1. write.content \in Nat /\ write.content >= durable
    BY <1>1, Numbers DEF Promised
  <2>2. BlobIsValid(flash'[store.active]) /\ flash'[store.active] >= durable
    BY <1>4, <2>1 DEF BlobIsValid
  <2>3. ~Touched(store.active)'
    BY <1>1, <1>2, <1>3, Numbers DEF Touched, Ready
  <2>4. \A b \in ConfigurationBlobs : BlobIsValid(flash'[b]) => flash'[b] >= durable
    BY <1>4, <2>2, RecordFacts DEF Durable
  <2> QED
    BY <1>1, <2>2, <2>3, <2>4, Numbers DEF Durable, Loaded
<1> QED
  BY <1>5, <1>6, <1>7, <1>8, <1>9

LEMMA WriteDoneInv ==
    ASSUME StoreInv, WriteDone
    PROVE  StoreInv'
<1> USE DEF StoreInv
<1> DEFINE s == [Swap(store) EXCEPT !.writingBlob = FALSE]
<1>1. /\ write.step = "erasing"
      /\ flash' = [flash EXCEPT ![store.inactive] = Erased]
      /\ IF s.writeRequested THEN Written(s, lockCount > 0) ELSE store' = s /\ write' = NoWrite
      /\ durable' = promised[write.id]
      /\ promised' = [promised EXCEPT ![write.id] = Erased]
      /\ UNCHANGED <<configuration, lockCount, recovery, erase, version>>
  BY DEF WriteDone
<1>2. /\ s \in Stores /\ s.active = store.inactive /\ s.inactive = store.active
      /\ s.operationId = store.operationId /\ ~s.writingBlob /\ s.writeRequested = store.writeRequested
  <2>1. Swap(store) \in Stores
    BY SwapFacts DEF Types
  <2>2. /\ s \in Stores /\ s.active = Swap(store).active /\ s.inactive = Swap(store).inactive
        /\ s.operationId = Swap(store).operationId
    BY <2>1 DEF Stores
  <2>3. s.writingBlob = FALSE /\ s.writeRequested = Swap(store).writeRequested
    BY <2>1 DEF Stores
  <2> QED
    BY <2>2, <2>3, SwapFacts DEF Types
<1> HIDE DEF s
<1>3. Ready /\ Loaded /\ erase.step = "none" /\ flash[store.active] = write.content
  BY <1>1 DEF Exclusive, Alternating, Ready, Loaded
<1>4. /\ write.id \in Identifiers /\ write.id < store.operationId /\ write.content \in Nat
      /\ promised[write.id] <= write.content /\ promised[write.id] <= configuration
  BY <1>1 DEF Promised
<1>5. /\ flash' \in [Blobs -> Int] /\ flash'[store.inactive] = Erased
      /\ flash'[store.active] = write.content
      /\ \A b \in Blobs \ {store.inactive} : flash'[b] = flash[b]
  BY <1>1, <1>3, Numbers, RecordFacts
<1>6. /\ promised' \in [Identifiers -> Int] /\ durable' \in Int /\ durable' <= configuration
      /\ \A id \in Identifiers : promised'[id] = Erased \/ promised'[id] = promised[id]
  BY <1>1, <1>4, Numbers, RecordFacts
<1> DEFINE Begins == /\ s.writeRequested
                     /\ store'.operationId = s.operationId + 1
                     /\ store'.writingBlob /\ ~store'.writeRequested
                     /\ write'.step = "writing" /\ write'.content = configuration /\ write'.id = s.operationId
           Rests == /\ store'.operationId = s.operationId
                    /\ ~store'.writingBlob /\ (store'.writeRequested <=> s.writeRequested)
                    /\ write' = NoWrite
<1>7. /\ store' \in Stores /\ write' \in Writes
      /\ store'.active = store.inactive /\ store'.inactive = store.active
      /\ Begins \/ Rests
  <2>1. CASE s.writeRequested /\ Written(s, lockCount > 0)
    <3>1. (lockCount > 0) \in BOOLEAN /\ write \in Writes /\ configuration \in Nat
      BY DEF Types
    <3> QED
      BY <1>2, <2>1, <3>1, WrittenEffect
  <2>2. CASE ~s.writeRequested /\ store' = s /\ write' = NoWrite
    BY <1>2, <2>2, RecordFacts
  <2> QED
    BY <1>1, <2>1, <2>2
<1>8. Types'
  BY <1>1, <1>5, <1>6, <1>7 DEF Types
<1>9. write'.step \in {"none", "writing"} /\ (store'.writingBlob <=> write'.step # "none")
  BY <1>7, RecordFacts
<1>10. Exclusive'
  BY <1>1, <1>3, <1>9 DEF Exclusive, Ready, Loaded
<1>11. Alternating'
  BY <1>5, <1>7, <1>9 DEF Alternating
<1>12. Past'
  <2>1. \A b \in Blobs : flash'[b] <= version
    BY <1>5, Numbers, RecordFacts DEF Past
  <2>2. write'.content <= version
    BY <1>7, Numbers, RecordFacts DEF Past
  <2> QED
    BY <1>1, <2>1, <2>2 DEF Past
<1>13. Promised'
  <2>1. \A id \in Identifiers : promised'[id] <= configuration'
    BY <1>1, <1>6, Numbers, RecordFacts DEF Promised
  <2>2. \A id \in Identifiers : id > store.operationId => promised'[id] = Erased
    BY <1>6 DEF Promised
  <2>3. \A id \in Identifiers : id = store.operationId /\ ~store.writeRequested => promised'[id] = Erased
    BY <1>6 DEF Promised
  <2>4. ~Ready' <=> ~Ready
    BY <1>1 DEF Ready
  <2>5. CASE Rests
    BY <1>1, <1>2, <1>3, <2>1, <2>2, <2>3, <2>4, <2>5, RecordFacts DEF Promised
  <2>6. CASE Begins
    <3>1. store.operationId \in Identifiers
      BY <1>2, <2>6, Numbers DEF Promised, Identifiers
    <3>2. \A id \in Identifiers : id >= store.operationId + 1 => promised'[id] = Erased
      BY <2>2, Numbers DEF Identifiers
    <3>3. \A id \in Identifiers : /\ id > store'.operationId => promised'[id] = Erased
                                  /\ id = store'.operationId => promised'[id] = Erased
      BY <1>2, <2>6, <3>2, Numbers DEF Identifiers
    <3>4. /\ write'.id \in Identifiers /\ write'.id < store'.operationId /\ write'.content \in Nat
          /\ durable' <= write'.content /\ promised'[write'.id] <= write'.content
      BY <1>1, <1>2, <1>6, <2>1, <2>6, <3>1, Numbers
    <3> QED
      BY <1>1, <1>3, <2>1, <2>4, <2>6, <3>3, <3>4 DEF Promised
  <2> QED
    BY <1>7, <2>5, <2>6
<1>14. Durable'
  <2>1. \A b \in ConfigurationBlobs : b = store.active \/ b = store.inactive
    BY TwoBlobs DEF Types
  <2>2. ~BlobIsValid(flash'[store.inactive]) /\ BlobIsValid(flash'[store.active]) /\ flash'[store.active] >= durable'
    BY <1>1, <1>4, <1>5, <1>6, RecordFacts DEF BlobIsValid
  <2>3. \A b \in ConfigurationBlobs : BlobIsValid(flash'[b]) => flash'[b] >= durable'
    BY <2>1, <2>2
  <2>4. \A b : b = store.active => ~Touched(b)'
    BY <1>1, <1>3, <1>7, <1>9, Numbers DEF Touched, Ready
  <2> QED
    BY <1>1, <1>6, <2>2, <2>3, <2>4, Numbers DEF Durable
<1> QED
  BY <1>8, <1>10, <1>11, <1>12, <1>13, <1>14

LEMMA InactiveErasedInv ==
    ASSUME StoreInv, InactiveErased
    PROVE  StoreInv'
<1> USE DEF StoreInv
<1>1. /\ erase.step = "inactive"
      /\ flash' = [flash EXCEPT ![erase.blob] = Erased]
      /\ erase' = [erase EXCEPT !.step = "active", !.blob = store.active]
      /\ UNCHANGED <<configuration, store, lockCount, recovery, write, version, promised, durable>>
  BY DEF InactiveErased
<1>2. erase' \in Erases /\ erase'.step = "active" /\ erase'.id = erase.id
  BY <1>1, Numbers DEF Types, Erases
<1>3. /\ flash' \in [Blobs -> Int]
      /\ \A b \in Blobs : flash'[b] = Erased \/ flash'[b] = flash[b]
  BY <1>1, Numbers, RecordFacts
<1>4. Loaded /\ write.step = "none"
  BY <1>1 DEF Exclusive
<1>5. Types'
  BY <1>1, <1>2, <1>3 DEF Types
<1>6. Exclusive' /\ Alternating'
  BY <1>1, <1>2, <1>3, <1>4, Numbers, RecordFacts DEF Exclusive, Alternating, Ready, Loaded
<1>7. Past'
  BY <1>1, <1>3, Numbers, RecordFacts DEF Past
<1>8. Promised'
  BY <1>1, <1>2 DEF Promised, Ready
<1>9. Durable'
  <2>1. ~(durable > 0)
    BY <1>1 DEF Durable, Touched
  <2> QED
    BY <1>1, <1>3, <2>1, RecordFacts DEF Durable, Loaded, BlobIsValid
<1> QED
  BY <1>5, <1>6, <1>7, <1>8, <1>9

LEMMA ActiveErasedInv ==
    ASSUME StoreInv, ActiveErased
    PROVE  StoreInv'
<1> USE DEF StoreInv
<1>1. /\ erase.step = "active"
      /\ flash' = [flash EXCEPT ![erase.blob] = Erased]
      /\ erase' = NoErase /\ recovery' = "ready"
      /\ UNCHANGED <<configuration, store, lockCount, write, version>>
  BY DEF ActiveErased
<1>2. Loaded /\ write.step = "none" /\ ~store.writingBlob /\ ~store.writeRequested
  BY <1>1 DEF Exclusive
<1>3. erase.id \in Identifiers /\ promised[erase.id] = Erased
  BY <1>1 DEF Promised
<1>4. durable' = durable /\ promised' = promised
  <2>1. durable' = durable
    BY <1>3 DEF ActiveErased
  <2>2. promised' = [promised EXCEPT ![erase.id] = Erased]
    BY DEF ActiveErased
  <2> QED
    BY <1>3, <2>1, <2>2, Numbers
<1>5. /\ flash' \in [Blobs -> Int]
      /\ \A b \in Blobs : flash'[b] = Erased \/ flash'[b] = flash[b]
  BY <1>1, Numbers, RecordFacts
<1>6. Types'
  BY <1>1, <1>4, <1>5, RecordFacts DEF Types, RecoverySteps
<1>7. Exclusive' /\ Alternating'
  BY <1>1, <1>2, <1>5, Numbers, RecordFacts DEF Exclusive, Alternating, Ready, Loaded
<1>8. Past'
  BY <1>1, <1>5, Numbers, RecordFacts DEF Past
<1>9. Promised'
  BY <1>1, <1>2, <1>4, RecordFacts DEF Promised, Ready
<1>10. Durable'
  <2>1. ~(durable > 0) /\ configuration >= durable
    BY <1>1, <1>2 DEF Durable, Touched
  <2> QED
    BY <1>1, <1>4, <1>5, <2>1, RecordFacts DEF Durable, BlobIsValid
<1> QED
  BY <1>6, <1>7, <1>8, <1>9, <1>10

-----------------------------------------------------------------------------
(* Recovery.                                                                *)

\* Until the blobs are read nothing is under way but the recovery.
LEMMA WhileRecovering ==
    ASSUME StoreInv, ~Loaded
    PROVE  /\ ~Ready /\ write.step = "none" /\ erase.step = "none"
           /\ ~store.writingBlob /\ ~store.writeRequested /\ store.operationId = 0
           /\ \A id \in Identifiers : promised[id] = Erased
BY DEF StoreInv, Exclusive, Promised, Ready, Loaded

\* A step that ends with the blobs not read yet
LEMMA RecoveringInv ==
    ASSUME StoreInv, ~Loaded, ~Loaded',
           UNCHANGED <<lockCount, write, version, promised, durable, erase>>,
           recovery' \in RecoverySteps, store' \in Stores, store'.active # store'.inactive,
           store'.operationId = store.operationId, ~store'.writingBlob, ~store'.writeRequested,
           configuration' \in Nat, configuration' <= version,
           flash' \in [Blobs -> Int], \A b \in Blobs : flash'[b] <= version,
           \A b \in ConfigurationBlobs : flash'[b] = flash[b],
           recovery' = "writeFactory" => flash'["factory"] = Erased,
           durable > 0 => \E b \in ConfigurationBlobs : BlobIsValid(flash[b]) /\ ~Touched(b)'
    PROVE  StoreInv'
<1>1. Types'
  BY DEF StoreInv, Types
<1>2. ~Ready'
  BY DEF Ready, Loaded
<1>3. Exclusive' /\ Alternating'
  BY <1>2, WhileRecovering DEF Exclusive, Alternating
<1>4. Past'
  BY DEF StoreInv, Past
<1>5. Promised'
  <2>1. \A id \in Identifiers : promised'[id] = Erased /\ promised'[id] <= configuration'
    BY WhileRecovering, RecordFacts
  <2> QED
    BY <2>1, WhileRecovering DEF Promised
<1>6. Durable'
  BY DEF StoreInv, Durable
<1> QED
  BY <1>1, <1>3, <1>4, <1>5, <1>6 DEF StoreInv

\* A recovery that does not touch the two blobs
LEMMA FactoryInv ==
    ASSUME StoreInv,
           RecoverFactoryDefault \/ EraseFactoryDefault \/ WriteFactoryDefault
    PROVE  StoreInv'
<1>1. /\ recovery \in {"factory", "eraseFactory", "writeFactory"}
      /\ recovery' \in {"eraseFactory", "writeFactory", "first", "firstAfterLoad"}
      /\ UNCHANGED <<lockCount, write, version, promised, durable, store, erase>>
  BY DEF RecoverFactoryDefault, EraseFactoryDefault, WriteFactoryDefault, Continue
<1>2. ~Loaded /\ ~Loaded' /\ recovery' \in RecoverySteps
  BY <1>1 DEF Loaded, RecoverySteps
<1>3. store' \in Stores /\ store'.active # store'.inactive /\ ~store'.writingBlob /\ ~store'.writeRequested
  BY <1>1, <1>2, WhileRecovering DEF StoreInv, Types
<1>4. configuration' \in Nat /\ configuration' <= version
  <2>1. CASE RecoverFactoryDefault
    BY <2>1, Numbers, RecordFacts DEF RecoverFactoryDefault, BlobIsValid, StoreInv, Past
  <2>2. CASE configuration' = configuration
    BY <2>2, Numbers DEF StoreInv, Past
  <2> QED
    BY <2>1, <2>2 DEF EraseFactoryDefault, WriteFactoryDefault
<1>5. /\ flash' \in [Blobs -> Int] /\ \A b \in Blobs : flash'[b] <= version
      /\ \A b \in ConfigurationBlobs : flash'[b] = flash[b]
      /\ recovery' = "writeFactory" => flash'["factory"] = Erased
  <2>1. CASE RecoverFactoryDefault
    <3>1. flash' = flash /\ recovery' # "writeFactory"
      BY <2>1 DEF RecoverFactoryDefault, Continue
    <3> QED
      BY <3>1, Numbers DEF StoreInv, Past
  <2>2. CASE EraseFactoryDefault
    <3>1. flash' = [flash EXCEPT !["factory"] = Erased]
      BY <2>2 DEF EraseFactoryDefault
    <3> QED
      BY <3>1, Numbers, RecordFacts DEF StoreInv, Past
  <2>3. CASE WriteFactoryDefault
    <3>1. flash' = [flash EXCEPT !["factory"] = configuration] /\ recovery' # "writeFactory"
      BY <2>3 DEF WriteFactoryDefault, Continue
    <3> QED
      BY <3>1, Numbers, RecordFacts DEF StoreInv, Past
  <2> QED
    BY <2>1, <2>2, <2>3
<1>6. \A b : ~Touched(b)'
  BY <1>1, <1>2, WhileRecovering DEF Touched
<1>7. durable > 0 => \E b \in ConfigurationBlobs : BlobIsValid(flash[b]) /\ ~Touched(b)'
  BY <1>6 DEF StoreInv, Durable
<1> QED
  BY <1>1, <1>2, <1>3, <1>4, <1>5, <1>7, RecoveringInv

\* The blobs have been read: the one that is kept, s.active, is whole or nothing was
\* reported done, and the other one is erased.
LEMMA BlobLoadedInv ==
    ASSUME StoreInv, ~Loaded, NEW loading \in BOOLEAN, NEW s \in Stores,
           s.active # s.inactive, s.operationId = store.operationId, ~s.writingBlob, ~s.writeRequested,
           durable > 0 => BlobIsValid(flash[s.active]),
           flash' = [flash EXCEPT ![s.inactive] = Erased],
           BlobLoaded(s, loading)
    PROVE  StoreInv'
<1> DEFINE t == Swap(s)
<1>1. /\ t \in Stores /\ t.active = s.inactive /\ t.inactive = s.active /\ t.operationId = 0
      /\ ~t.writingBlob /\ ~t.writeRequested
  BY SwapFacts, WhileRecovering
<1> HIDE DEF t
<1>2. s.active \in Blobs /\ s.inactive \in Blobs /\ s.active \in ConfigurationBlobs /\ s.inactive \in ConfigurationBlobs
  BY TwoBlobs, RecordFacts
<1>3. /\ flash' \in [Blobs -> Int] /\ flash'[s.inactive] = Erased
      /\ \A b \in Blobs \ {s.inactive} : flash'[b] = flash[b]
  BY <1>2, Numbers, RecordFacts DEF StoreInv
<1>4. configuration' = IF BlobIsValid(flash[s.active]) THEN flash[s.active] ELSE configuration
  BY <1>1 DEF BlobLoaded, t
<1>5. configuration' \in Nat /\ configuration' <= version /\ configuration' >= durable
  BY <1>2, <1>4, Numbers, RecordFacts DEF StoreInv, Past, Durable, BlobIsValid
<1>6. UNCHANGED <<lockCount, write, version, promised, durable>>
  BY DEF BlobLoaded, Continue
<1>7. write.step = "none" /\ erase.step = "none" /\ \A id \in Identifiers : promised[id] = Erased
  BY WhileRecovering
<1>8. /\ store' \in Stores /\ store'.active = s.inactive /\ store'.inactive = s.active
      /\ ~store'.writingBlob /\ ~store'.writeRequested
      /\ erase' \in Erases
      /\ \/ recovery' = "ready" /\ erase' = erase
         \/ /\ recovery' = "erasing" /\ ~BlobIsValid(flash[s.active])
            /\ erase'.id = 0
  <2>1. CASE store' = [t EXCEPT !.operationId = @ + 1] /\ recovery' = "erasing"
             /\ ~BlobIsValid(flash[t.inactive])
             /\ erase' = [step |-> "inactive", blob |-> t.inactive, id |-> t.operationId]
    <3>1. /\ store' \in Stores /\ store'.active = t.active /\ store'.inactive = t.inactive
      <4>1. t.operationId + 1 \in Nat
        BY <1>1
      <4> QED
        BY <1>1, <2>1, <4>1 DEF Stores
    <3>2. store'.writingBlob = t.writingBlob /\ store'.writeRequested = t.writeRequested
      BY <1>1, <2>1 DEF Stores
    <3>3. erase' \in Erases /\ erase'.id = 0
      BY <1>1, <1>2, <2>1 DEF Erases
    <3> QED
      BY <1>1, <2>1, <3>1, <3>2, <3>3
  <2>2. CASE store' = t /\ recovery' = "ready" /\ erase' = erase
    BY <1>1, <2>2 DEF StoreInv, Types
  <2> QED
    BY <2>1, <2>2 DEF BlobLoaded, Continue, t
<1>9. Types'
  BY <1>3, <1>5, <1>6, <1>8 DEF StoreInv, Types, RecoverySteps
<1>10. Loaded' /\ recovery' # "writeFactory"
  BY <1>8 DEF Loaded
<1>11. Exclusive' /\ Alternating'
  BY <1>3, <1>6, <1>7, <1>8, <1>10 DEF Exclusive, Alternating
<1>12. Past'
  BY <1>3, <1>5, <1>6, Numbers, RecordFacts DEF StoreInv, Past
<1>13. Promised'
  <2>1. \A id \in Identifiers : promised'[id] = Erased /\ promised'[id] <= configuration'
    BY <1>5, <1>6, <1>7, RecordFacts
  <2>2. 0 \in Identifiers
    BY Numbers DEF StoreInv, Identifiers
  <2>3. erase'.step # "none" => erase'.id = 0
    BY <1>7, <1>8
  <2> QED
    BY <1>6, <1>7, <1>8, <2>1, <2>2, <2>3 DEF Promised
<1>14. Durable'
  <2>1. \A b \in ConfigurationBlobs : BlobIsValid(flash'[b]) => flash'[b] >= durable
    BY <1>2, <1>3, RecordFacts DEF StoreInv, Durable, BlobIsValid
  <2>2. ASSUME durable > 0
        PROVE  BlobIsValid(flash'[s.active]) /\ \A b : b = s.active => ~Touched(b)'
    <3>1. recovery' = "ready" /\ erase' = erase
      BY <1>8, <2>2
    <3> QED
      BY <1>2, <1>3, <1>6, <1>7, <1>8, <2>2, <3>1 DEF Touched
  <2> QED
    BY <1>2, <1>5, <1>6, <2>1, <2>2 DEF Durable
<1> QED
  BY <1>9, <1>11, <1>12, <1>13, <1>14 DEF StoreInv

\* What the recovery steps that read the blobs find: the one that s makes active is
\* whole or nothing was reported done.
LEMMA RecoverBlobsInv ==
    ASSUME StoreInv, RecoverBlobs
    PROVE  StoreInv'
<1> DEFINE s == IF BlobIsValid(flash[store.active]) THEN store ELSE Swap(store)
<1>1. PICK loading \in BOOLEAN :
          /\ recovery = IF loading THEN "firstAfterLoad" ELSE "first"
          /\ UNCHANGED flash
          /\ IF flash[s.inactive] = Erased
             THEN BlobLoaded(s, loading)
             ELSE /\ store' = s
                  /\ Continue(IF loading THEN "eraseOtherAfterLoad" ELSE "eraseOther")
                  /\ UNCHANGED <<configuration, erase>>
  BY DEF RecoverBlobs
<1>2. recovery \in {"first", "firstAfterLoad"} /\ ~Loaded
  BY <1>1 DEF Loaded
<1>3. store \in Stores /\ store.active # store.inactive
  BY DEF StoreInv, Types
<1>4. /\ s \in Stores /\ s.active # s.inactive /\ s.operationId = store.operationId
      /\ ~s.writingBlob /\ ~s.writeRequested
  BY <1>2, <1>3, SwapFacts, WhileRecovering
<1>5. durable > 0 => BlobIsValid(flash[s.active])
  <2>1. \A b \in ConfigurationBlobs : b = store.active \/ b = store.inactive
    BY <1>3, TwoBlobs
  <2> QED
    BY <1>3, <2>1, SwapFacts DEF StoreInv, Durable
<1>6. s.active \in ConfigurationBlobs /\ s.inactive \in ConfigurationBlobs /\ s.inactive \in Blobs
  BY <1>4, TwoBlobs, RecordFacts
<1> HIDE DEF s
<1>7. CASE flash[s.inactive] = Erased /\ BlobLoaded(s, loading)
  <2>1. flash' = [flash EXCEPT ![s.inactive] = Erased]
    BY <1>1, <1>6, <1>7, Numbers DEF StoreInv
  <2> QED
    BY <1>2, <1>4, <1>5, <1>7, <2>1, BlobLoadedInv
<1>8. CASE store' = s /\ Continue(IF loading THEN "eraseOtherAfterLoad" ELSE "eraseOther")
           /\ UNCHANGED <<configuration, erase>>
  <2>1. /\ recovery' \in {"eraseOther", "eraseOtherAfterLoad"}
        /\ UNCHANGED <<lockCount, write, version, promised, durable, configuration, erase, flash>>
    BY <1>1, <1>8 DEF Continue
  <2>2. ~Loaded' /\ recovery' \in RecoverySteps /\ recovery' # "writeFactory"
    BY <2>1 DEF Loaded, RecoverySteps
  <2>3. /\ flash' \in [Blobs -> Int] /\ (\A b \in Blobs : flash'[b] <= version)
        /\ (\A b \in ConfigurationBlobs : flash'[b] = flash[b])
        /\ configuration' \in Nat /\ configuration' <= version
    BY <2>1, Numbers DEF StoreInv, Past
  <2>4. \A b : b = s.active => ~Touched(b)'
    BY <1>2, <1>4, <1>8, <2>1, WhileRecovering DEF Touched
  <2>5. durable > 0 => \E b \in ConfigurationBlobs : BlobIsValid(flash[b]) /\ ~Touched(b)'
    BY <1>5, <1>6, <2>4
  <2> QED
    BY <1>2, <1>4, <1>8, <2>1, <2>2, <2>3, <2>5, RecoveringInv
<1> QED
  BY <1>1, <1>7, <1>8

LEMMA OtherErasedInv ==
    ASSUME StoreInv, OtherErased
    PROVE  StoreInv'
<1>1. PICK loading \in BOOLEAN :
          /\ recovery = IF loading THEN "eraseOtherAfterLoad" ELSE "eraseOther"
          /\ flash' = [flash EXCEPT ![store.inactive] = Erased]
          /\ BlobLoaded(store, loading)
  BY DEF OtherErased
<1>2. recovery \in {"eraseOther", "eraseOtherAfterLoad"} /\ ~Loaded
  BY <1>1 DEF Loaded
<1>3. store \in Stores /\ store.active # store.inactive
  BY DEF StoreInv, Types
<1>4. durable > 0 => BlobIsValid(flash[store.active])
  <2>1. \A b \in ConfigurationBlobs : b = store.active \/ b = store.inactive
    BY <1>3, TwoBlobs
  <2> QED
    BY <1>2, <2>1 DEF StoreInv, Durable, Touched
<1> QED
  BY <1>1, <1>2, <1>3, <1>4, BlobLoadedInv, WhileRecovering

\* What a power cut leaves of a blob is no older than what was reported done, and
\* is all of it when nothing touched it.
LEMMA RemainsFacts ==
    ASSUME StoreInv, NEW b \in Blobs, NEW c \in Remains(b)
    PROVE  /\ c \in Int /\ c <= version
           /\ b \in ConfigurationBlobs /\ BlobIsValid(c) => c >= durable
           /\ b \in ConfigurationBlobs /\ ~Touched(b) => c = flash[b]
<1> USE DEF StoreInv
<1>1. CASE c = flash[b]
  BY <1>1, Numbers DEF Past, Durable
<1>2. CASE c \in {Torn, Erased}
  <2>1. ~BlobIsValid(c) /\ c \in Int /\ c <= version
    BY <1>2, Numbers, RecordFacts DEF BlobIsValid
  <2>2. c = flash[b] \/ ~(b \in ConfigurationBlobs /\ ~Touched(b))
    BY <1>2, Numbers, RecordFacts DEF Remains, Touched, Past
  <2> QED
    BY <2>1, <2>2
<1>3. CASE write.step = "writing" /\ b = store.active /\ c = write.content
  <2>1. Touched(b)
    BY <1>3 DEF Touched
  <2> QED
    BY <1>3, <2>1, Numbers DEF Past, Promised
<1>4. CASE recovery = "writeFactory" /\ b = "factory" /\ c = configuration
  BY <1>4, Numbers, RecordFacts DEF Past
<1> QED
  BY <1>1, <1>2, <1>3, <1>4 DEF Remains

LEMMA PowerCutInv ==
    ASSUME StoreInv, PowerCut
    PROVE  StoreInv'
<1>1. /\ configuration' = 0 /\ store' = FreshStore /\ lockCount' = 0 /\ recovery' = "factory"
      /\ write' = NoWrite /\ erase' = NoErase
      /\ promised' = [id \in Identifiers |-> Erased]
      /\ UNCHANGED <<version, durable>>
  BY DEF PowerCut, Identifiers
<1>2. PICK f \in Remains("factory"), b1 \in Remains("blob1"), b2 \in Remains("blob2") :
          flash' = [b \in Blobs |-> CASE b = "factory" -> f [] b = "blob1" -> b1 [] b = "blob2" -> b2]
  BY DEF PowerCut
<1>3. flash' = [b \in Blobs |-> IF b = "factory" THEN f ELSE IF b = "blob1" THEN b1 ELSE b2]
  BY <1>2 DEF Blobs
<1>4. \A b \in Blobs : flash'[b] \in Remains(b)
  BY <1>3 DEF Blobs
<1>5. \A b \in Blobs : /\ flash'[b] \in Int /\ flash'[b] <= version
                       /\ b \in ConfigurationBlobs /\ BlobIsValid(flash'[b]) => flash'[b] >= durable
                       /\ b \in ConfigurationBlobs /\ ~Touched(b) => flash'[b] = flash[b]
  BY <1>4, RemainsFacts
<1>6. flash' \in [Blobs -> Int]
  BY <1>3, <1>5
<1>7. Types'
  BY <1>1, <1>6, RecordFacts DEF StoreInv, Types, RecoverySteps
<1>8. Exclusive' /\ Alternating'
  BY <1>1, RecordFacts DEF Exclusive, Alternating, Ready, Loaded
<1>9. Past'
  BY <1>1, <1>5, Numbers, RecordFacts DEF StoreInv, Past
<1>10. Promised'
  BY <1>1, RecordFacts, ConfigurationStoreAssumption DEF Promised, Identifiers, Ready
<1>11. Durable'
  <2>1. ~Loaded' /\ \A b : ~Touched(b)'
    BY <1>1, RecordFacts DEF Loaded, Touched
  <2> QED
    BY <1>1, <1>5, <2>1, RecordFacts DEF StoreInv, Durable
<1> QED
  BY <1>7, <1>8, <1>9, <1>10, <1>11 DEF StoreInv

LEMMA StoreNextInv ==
    ASSUME ErasesBetweenWrites
    PROVE  StoreInv /\ [Next]_vars => StoreInv'
<1> SUFFICES ASSUME StoreInv, [Next]_vars
             PROVE  StoreInv'
  OBVIOUS
<1>1. CASE Flash
  BY <1>1, BlobWrittenInv, WriteDoneInv, InactiveErasedInv, ActiveErasedInv, FactoryInv,
     RecoverBlobsInv, OtherErasedInv DEF Flash
<1>2. CASE UNCHANGED vars
  BY <1>2
     DEF vars, StoreInv, Types, Exclusive, Alternating, Past, Promised, Durable, Touched, Ready, Loaded
<1> QED
  BY <1>1, <1>2, WriteInv, LockInv, UnlockInv, ChangeInv, EraseInv, PowerCutInv DEF Next

-----------------------------------------------------------------------------
(* The theorems.                                                            *)

\* A write that was reported done, also one that was held by a lock or by another
\* write and reported under its own identifier, survives any number of power cuts
\* at any moment: in a later write, in the erase of the blob it replaced, in the
\* recovery, and in the recovery from that.
THEOREM StoreIsDurable ==
    ASSUME ErasesBetweenWrites
    PROVE  Spec => []DurableWhenDone
<1>1. StoreInv => DurableWhenDone
  BY DEF StoreInv, Durable, DurableWhenDone, Ready, Loaded
<1> QED
  BY <1>1, StoreInitInv, StoreNextInv, PTL DEF Spec

\* The flash is never given two operations at a time, and a blob is written only
\* when it is erased, after every sequence of writes, erases and cut recoveries.
THEOREM StoreUsesFlashRight ==
    ASSUME ErasesBetweenWrites
    PROVE  Spec => []FlashUsedRight
<1>1. StoreInv => FlashUsedRight
  <2> SUFFICES ASSUME StoreInv
               PROVE  FlashUsedRight
    OBVIOUS
  <2>1. {store.active, store.inactive} = {"blob1", "blob2"}
    BY TwoBlobs DEF StoreInv, Types
  <2>2. write.step # "none" => Ready /\ Loaded /\ erase.step = "none"
    BY DEF StoreInv, Exclusive, Ready, Loaded
  <2> QED
    BY <2>1, <2>2 DEF StoreInv, Alternating, Exclusive, FlashUsedRight
<1> QED
  BY <1>1, StoreInitInv, StoreNextInv, PTL DEF Spec

=============================================================================
