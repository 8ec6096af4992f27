------------------------------ MODULE Bootloader ------------------------------
(***************************************************************************)
(* The single-stage bootloader: BootSequence at every reset, with the      *)
(* UpgradePackLoader and PackUpgrader it runs on the status journal, the   *)
(* ApplicationInstaller that writes the application slot, and the check    *)
(* that decides whether the application in the slot is started.  The       *)
(* application itself is external: it stages packs and asks for resets.    *)
(* A reset may strike between and within all flash operations.             *)
(*                                                                         *)
(* Data that the properties do not look into is abstracted: a pack is the  *)
(* outcome of each check on it; the slot is a row of chunks, one to a      *)
(* flash sector, holding the name of the image they were copied from; a    *)
(* SHA-256 is the row it was computed over.                                *)
(***************************************************************************)
EXTENDS StatusJournal, Sequences

CONSTANTS
    Packs,          \* what may be staged in the pack flash
    InitialPack,    \* what is there before the first download
    SlotChunks,     \* chunks in the slot; the descriptor shares the last one's sector
    InitialImage,   \* the image programmed at production
    FittingImages   \* images whose vectors and header fit this target

Images == {InitialImage} \cup UNION {{p.images[i].image : i \in DOMAIN p.images} : p \in Packs}
Chunks == 1 .. SlotChunks

\* Error codes of UpgradePackHeader.hpp and ApplicationInstaller.hpp
UnknownHeaderVersion == 0
InvalidSignature == 1
UnknownProductName == 2
NoSuitableImageUpgraderFound == 4
WrongTarget == 1000
WrongDestination == 1001
ImageSize == 1002

ASSUME BootloaderAssumption ==
    /\ SlotChunks \in Nat \ {0}
    /\ InitialPack \in Packs
    /\ InitialImage \in FittingImages
    /\ \A p \in Packs :
           /\ {p.magic, p.version, p.product, p.signed} \subseteq BOOLEAN
           /\ p.images \in Seq({p.images[i] : i \in DOMAIN p.images})
           /\ \A i \in DOMAIN p.images : p.images[i].destination \in BOOLEAN /\ p.images[i].size \in Nat
    /\ {UnknownHeaderVersion, InvalidSignature, UnknownProductName,
        NoSuitableImageUpgraderFound, WrongTarget, WrongDestination, ImageSize} \subseteq ErrorCodes

VARIABLES
    pc,         \* where the processor is: in the boot sequence or the application
    pack,       \* the contents of the pack flash
    slot,       \* the image area of the slot: what each chunk holds
    descriptor, \* the image descriptor at the end of the slot
    image,      \* PackUpgrader: index of the image being upgraded
    chunk,      \* ApplicationInstaller: next sector to erase or chunk to copy
    code        \* the error code MarkAsError is to write

bvars == <<pc, pack, slot, descriptor, image, chunk, code>>
vars == <<jvars, bvars>>

-----------------------------------------------------------------------------
(* The application slot.                                                    *)

Blank == "erased"
Garbled == "torn"

NoDescriptor == [kind |-> "erased", size |-> 0, sha256 |-> <<>>]
TornDescriptor == [kind |-> "torn", size |-> 0, sha256 |-> <<>>]

\* A descriptor over the first size chunks of s.
MakeImageDescriptor(s, size) ==
    [kind |-> "valid", size |-> size, sha256 |-> [k \in 1 .. size |-> s[k]]]

\* The vectors and the application header lie in the first chunk.
ImageStartFitsTarget(content) == content \in FittingImages

ApplicationIsStartable(s, d) ==
    /\ d.kind = "valid"
    /\ d.size <= SlotChunks
    /\ d.sha256 = [k \in 1 .. d.size |-> s[k]]
    /\ d.size >= 1
    /\ ImageStartFitsTarget(s[1])

\* The slot holds all of image i, and nothing else in its first size chunks.
SlotHolds(i) ==
    /\ ApplicationIsStartable(slot, descriptor)
    /\ \A k \in 1 .. descriptor.size : slot[k] = i

-----------------------------------------------------------------------------
(* BootSequence::Run.                                                       *)

\* Mutant: an interrupted installation is not taken up again.
OnlyReadyToDeploy == Status(flash) = "readyToDeploy"

InstallRequested == Status(flash) \in {"readyToDeploy", "deployStarted"}

\* Control goes on at the given place; the flash is left alone.
Goto(place) ==
    /\ phase = "idle"
    /\ pc' = place
    /\ UNCHANGED jvars

Reset ==
    /\ pc = "reset"
    /\ \/ InstallRequested /\ Goto("load")
       \/ ~InstallRequested /\ Goto("start")
    /\ UNCHANGED <<pack, slot, descriptor, image, chunk, code>>

\* ApplicationStarter::Start or Halt
Start ==
    /\ pc = "start"
    /\ \/ ApplicationIsStartable(slot, descriptor) /\ Goto("application")
       \/ ~ApplicationIsStartable(slot, descriptor) /\ Goto("halt")
    /\ UNCHANGED <<pack, slot, descriptor, image, chunk, code>>

-----------------------------------------------------------------------------
(* UpgradePackLoader and PackUpgrader, with the status in the journal.      *)

\* MarkAsError: WriteStatus(invalid), then WriteError, which records the error
\* code with the status it reads back.
MarkAsError(errorCode) ==
    /\ Record("invalid", 0)
    /\ code' = errorCode
    /\ pc' = "writeError"

WriteError ==
    /\ pc = "writeError"
    /\ Record(Status(flash), code)
    /\ pc' = "start"
    /\ code' = 0
    /\ UNCHANGED <<pack, slot, descriptor, image, chunk>>

\* Mutant: the signature is not verified.
LoadWithoutVerifier ==
    /\ pc = "load"
    /\ \/ ~pack.magic /\ Goto("start") /\ UNCHANGED code
       \/ pack.magic /\ ~pack.version /\ MarkAsError(UnknownHeaderVersion)
       \/ pack.magic /\ pack.version /\ ~pack.product /\ MarkAsError(UnknownProductName)
       \/ pack.magic /\ pack.version /\ pack.product /\ Goto("upgrade") /\ UNCHANGED code
    /\ UNCHANGED <<pack, slot, descriptor, image, chunk>>

\* Mutant: the error codes of the product and the signature are swapped.
LoadSwapsCodes ==
    /\ pc = "load"
    /\ \/ ~pack.magic /\ Goto("start") /\ UNCHANGED code
       \/ pack.magic /\ ~pack.version /\ MarkAsError(UnknownHeaderVersion)
       \/ pack.magic /\ pack.version /\ ~pack.product /\ MarkAsError(InvalidSignature)
       \/ pack.magic /\ pack.version /\ pack.product /\ ~pack.signed /\ MarkAsError(UnknownProductName)
       \/ /\ pack.magic /\ pack.version /\ pack.product /\ pack.signed
          /\ Goto("upgrade")
          /\ UNCHANGED code
    /\ UNCHANGED <<pack, slot, descriptor, image, chunk>>

\* UpgradePackLoader::Load, called from Install.
Load ==
    /\ pc = "load"
    /\ \/ ~pack.magic /\ Goto("start") /\ UNCHANGED code
       \/ pack.magic /\ ~pack.version /\ MarkAsError(UnknownHeaderVersion)
       \/ pack.magic /\ pack.version /\ ~pack.product /\ MarkAsError(UnknownProductName)
       \/ pack.magic /\ pack.version /\ pack.product /\ ~pack.signed /\ MarkAsError(InvalidSignature)
       \/ /\ pack.magic /\ pack.version /\ pack.product /\ pack.signed
          /\ Goto("upgrade")
          /\ UNCHANGED code
    /\ UNCHANGED <<pack, slot, descriptor, image, chunk>>

\* PackUpgrader::UpgradeFromImages up to its loop over the images.  Load has
\* found the magic and the header version right and nothing writes the pack
\* flash in between, so the two checks repeated here succeed.
MarkAsDeployStarted ==
    /\ pc = "upgrade"
    /\ Record("deployStarted", 0)
    /\ pc' = "image"
    /\ image' = 1
    /\ UNCHANGED <<pack, slot, descriptor, chunk, code>>

MarkAsDeployed ==
    /\ pc = "image"
    /\ image > Len(pack.images)
    /\ Record("deployed", 0)
    /\ pc' = "start"
    /\ image' = 0
    /\ UNCHANGED <<pack, slot, descriptor, chunk, code>>

SizeFits(size) == size >= 1 /\ size <= SlotChunks

\* Mutant: the image is not checked against the target.
RefusalWithoutTarget(i) ==
    IF i.name # "app" THEN {NoSuitableImageUpgraderFound}
    ELSE IF ~i.destination THEN {WrongDestination}
    ELSE IF ~SizeFits(i.size) THEN {ImageSize}
    ELSE {}

\* Why TryUpgradeImage and ApplicationInstaller::Upgrade refuse an image, in
\* the order of their checks; empty when they install it.
Refusal(i) ==
    IF i.name # "app" THEN {NoSuitableImageUpgraderFound}
    ELSE IF ~i.destination THEN {WrongDestination}
    ELSE IF ~SizeFits(i.size) THEN {ImageSize}
    ELSE IF ~ImageStartFitsTarget(i.image) THEN {WrongTarget}
    ELSE {}

\* PackUpgrader::TryUpgradeImage, up to the installer's first erase.
TryUpgradeImage ==
    /\ pc = "image"
    /\ phase = "idle"
    /\ image <= Len(pack.images)
    /\ \/ /\ Refusal(pack.images[image]) = {}
          /\ Goto("erase")
          /\ chunk' = 1
          /\ UNCHANGED <<image, code>>
       \/ /\ \E c \in Refusal(pack.images[image]) : MarkAsError(c)
          /\ image' = 0
          /\ UNCHANGED chunk
    /\ UNCHANGED <<pack, slot, descriptor>>

-----------------------------------------------------------------------------
(* ApplicationInstaller: EraseFor, Copy and WriteDescriptor.                *)

\* The size of the image being installed, in chunks.
ImageChunks == pack.images[image].size

\* The slot after the sector of chunk k is set to contents; the descriptor is in
\* the last sector.
SlotSector(k, contents) == [slot EXCEPT ![k] = contents]
DescriptorSector(k, contents) == IF k = SlotChunks THEN contents ELSE descriptor

\* The sector EraseFor erases after k, 0 when k was the last: the sectors of the
\* image first, and then the descriptor's unless the image reaches into it.
NextSector(k) ==
    IF k < ImageChunks THEN k + 1
    ELSE IF k < SlotChunks THEN SlotChunks
    ELSE 0

EraseFor ==
    /\ pc = "erase"
    /\ slot' = SlotSector(chunk, Blank)
    /\ descriptor' = DescriptorSector(chunk, NoDescriptor)
    /\ \/ NextSector(chunk) # 0 /\ chunk' = NextSector(chunk) /\ Goto("erase")
       \/ NextSector(chunk) = 0 /\ chunk' = 1 /\ Goto("copy")
    /\ UNCHANGED <<pack, image, code>>

\* Mutant: the copy stops one chunk early.
CopyShort ==
    /\ pc = "copy"
    /\ slot' = SlotSector(chunk, pack.images[image].image)
    /\ \/ chunk + 1 < ImageChunks /\ chunk' = chunk + 1 /\ Goto("copy")
       \/ chunk + 1 >= ImageChunks /\ chunk' = 0 /\ Goto("describe")
    /\ UNCHANGED <<pack, descriptor, image, code>>

Copy ==
    /\ pc = "copy"
    /\ slot' = SlotSector(chunk, pack.images[image].image)
    /\ \/ chunk < ImageChunks /\ chunk' = chunk + 1 /\ Goto("copy")
       \/ chunk = ImageChunks /\ chunk' = 0 /\ Goto("describe")
    /\ UNCHANGED <<pack, descriptor, image, code>>

\* The descriptor is computed from what is read back from the slot.
WriteDescriptor ==
    /\ pc = "describe"
    /\ descriptor' = MakeImageDescriptor(slot, ImageChunks)
    /\ image' = image + 1
    /\ Goto("image")
    /\ UNCHANGED <<pack, slot, chunk, code>>

-----------------------------------------------------------------------------
(* The application, as docs/Bootloader.md has it use the journal.           *)

AppDownload ==
    /\ pc = "application"
    /\ Clear
    /\ pc' = "download"
    /\ UNCHANGED <<pack, slot, descriptor, image, chunk, code>>

AppReceive ==
    /\ pc = "download"
    /\ pack' \in Packs
    /\ Goto("received")
    /\ UNCHANGED <<slot, descriptor, image, chunk, code>>

AppDownloaded ==
    /\ pc = "received"
    /\ Record("downloaded", 0)
    /\ pc' = "application"
    /\ UNCHANGED <<pack, slot, descriptor, image, chunk, code>>

AppApply ==
    /\ pc = "application"
    /\ Status(flash) = "downloaded"
    /\ Record("readyToDeploy", 0)
    /\ pc' = "application"
    /\ UNCHANGED <<pack, slot, descriptor, image, chunk, code>>

AppReset ==
    /\ pc = "application"
    /\ Goto("reset")
    /\ UNCHANGED <<pack, slot, descriptor, image, chunk, code>>

Application == AppDownload \/ AppReceive \/ AppDownloaded \/ AppApply \/ AppReset

-----------------------------------------------------------------------------
(* A reset anywhere.  The flash operation under way, if any, is cut.        *)

SlotCut ==
    \/ /\ pc = "erase"
       /\ \/ UNCHANGED <<slot, descriptor>>
          \/ /\ slot' = SlotSector(chunk, Garbled)
             /\ descriptor' = DescriptorSector(chunk, TornDescriptor)
          \/ /\ slot' = SlotSector(chunk, Blank)
             /\ descriptor' = DescriptorSector(chunk, NoDescriptor)
    \/ /\ pc = "copy"
       /\ \E c \in {slot[chunk], Garbled, pack.images[image].image} : slot' = SlotSector(chunk, c)
       /\ UNCHANGED descriptor
    \/ /\ pc = "describe"
       /\ descriptor' \in {descriptor, TornDescriptor, MakeImageDescriptor(slot, ImageChunks)}
       /\ UNCHANGED slot
    \/ /\ pc \notin {"erase", "copy", "describe"}
       /\ UNCHANGED <<slot, descriptor>>

SystemPowerLoss ==
    /\ \/ PowerLoss
       \/ phase = "idle" /\ UNCHANGED jvars
    /\ SlotCut
    /\ pc' = "reset"
    /\ image' = 0
    /\ chunk' = 0
    /\ code' = 0
    /\ UNCHANGED pack

-----------------------------------------------------------------------------

BootInit ==
    /\ JournalInit
    /\ pc = "reset"
    /\ pack = InitialPack
    /\ slot = [k \in Chunks |-> InitialImage]
    /\ descriptor = MakeImageDescriptor(slot, SlotChunks)
    /\ image = 0
    /\ chunk = 0
    /\ code = 0

BootStep ==
    \/ Reset \/ Start
    \/ Load \/ WriteError
    \/ MarkAsDeployStarted \/ TryUpgradeImage \/ MarkAsDeployed
    \/ EraseFor \/ Copy \/ WriteDescriptor
    \/ JournalStep /\ UNCHANGED bvars

BootNext == BootStep \/ Application \/ SystemPowerLoss

\* The processor does not stop by itself: what the boot sequence can do next
\* it does.  The application need not do anything.
BootSpec == BootInit /\ [][BootNext]_vars /\ WF_vars(BootStep)

\* A write of the slot fails, leaves something else in the chunk, and returns
\* like any other: hal::SynchronousFlash::WriteBuffer has no result.
CopyFault ==
    /\ pc = "copy"
    /\ slot' = SlotSector(chunk, Garbled)
    /\ \/ chunk < ImageChunks /\ chunk' = chunk + 1 /\ Goto("copy")
       \/ chunk = ImageChunks /\ chunk' = 0 /\ Goto("describe")
    /\ UNCHANGED <<pack, descriptor, image, code>>

FaultyBootSpec == BootInit /\ [][BootNext \/ CopyFault]_vars /\ WF_vars(BootStep)

-----------------------------------------------------------------------------
(* Properties.                                                              *)

\* The members keep their types.
BootTypeOK ==
    /\ JournalTypeOK
    /\ pc \in {"reset", "load", "writeError", "upgrade", "image", "erase", "copy", "describe",
               "start", "halt", "application", "download", "received"}
    /\ pack \in Packs
    /\ slot \in [Chunks -> Images \cup {Blank, Garbled}]
    /\ descriptor.kind \in {"erased", "torn", "valid"} /\ descriptor.size \in 0 .. SlotChunks
    /\ image \in 0 .. Len(pack.images) + 1
    /\ chunk \in 0 .. SlotChunks
    /\ code \in ErrorCodes

\* The pack passes the checks of the loader and its first image those of the
\* installer: a boot that finds it to be deployed writes the slot.
Installable(p) ==
    /\ p.magic /\ p.version /\ p.product /\ p.signed
    /\ p.images # <<>>
    /\ Refusal(p.images[1]) = {}

\* Whenever a reset strikes, the application in the slot can be started, or the
\* journal says "deploy started" and the staged pack can be installed again: no
\* reset leaves the device with nothing to run.
NoBrick ==
    \/ ApplicationIsStartable(slot, descriptor)
    \/ Status(flash) = "deployStarted" /\ Installable(pack)

\* An application that is started is one complete image, the one programmed at
\* production or one of a pack that passed the signature and product checks.
Trusted ==
    {InitialImage} \cup UNION {{p.images[i].image : i \in DOMAIN p.images} :
                                p \in {q \in Packs : q.signed /\ q.product /\ q.version /\ q.magic}}

StartsOnlyTrustedImages == pc = "application" => \E i \in Trusted : SlotHolds(i)

\* "deployed" is in the journal only when the slot holds the pack's last image.
DeployedMeansInstalled ==
    Status(flash) = "deployed" /\ pack.images # <<>> =>
        SlotHolds(pack.images[Len(pack.images)].image)

\* A pack is recorded as invalid only when one of its checks fails, with the
\* error code of that check, or 0 when a reset came before the code was written.
\* When it is its first image that is refused, the slot is left alone.
Rejections(p) ==
    IF ~p.version THEN {UnknownHeaderVersion}
    ELSE IF ~p.product THEN {UnknownProductName}
    ELSE IF ~p.signed THEN {InvalidSignature}
    ELSE UNION {Refusal(p.images[i]) : i \in DOMAIN p.images}

InstalledNothing == \A i \in DOMAIN pack.images : \A k \in Chunks : slot[k] # pack.images[i].image

InvalidMeansRejected ==
    Status(flash) = "invalid" =>
        /\ Rejections(pack) # {}
        /\ ErrorCode(flash) \in {0} \cup Rejections(pack)
        /\ ~Installable(pack) => InstalledNothing

\* "The signature and the target are checked before anything is erased, so a
\* pack that fails either leaves the old application in place"
\* (docs/Bootloader.md); not so when it is the second image that fails.
RejectedLeavesOldApplication == Status(flash) = "invalid" => InstalledNothing

\* When resets stop coming, the application runs again and again: installation
\* ends, and the boot sequence does not halt.
ApplicationRuns ==
    <>[][~SystemPowerLoss]_vars => []<>(pc \in {"application", "download", "received"})

=============================================================================
