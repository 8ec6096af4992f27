---------------------------- MODULE MCBootloader ----------------------------
(* Packs that fail each of the checks, and packs that pass them all.        *)
EXTENDS Bootloader

AppImage(i, size) == [name |-> "app", destination |-> TRUE, size |-> size, image |-> i]

Pack(images) ==
    [magic |-> TRUE, version |-> TRUE, product |-> TRUE, signed |-> TRUE, images |-> images]

\* One image each: what the pack tool writes.
GoodPack == Pack(<<AppImage("new", 2)>>)
LargePack == Pack(<<AppImage("large", 3)>>)
BlankFlash == [GoodPack EXCEPT !.magic = FALSE, !.images = <<>>]
Unsigned == [Pack(<<AppImage("forged", 1)>>) EXCEPT !.signed = FALSE]
OtherProduct == [Pack(<<AppImage("other", 1)>>) EXCEPT !.product = FALSE]
OldHeader == [Pack(<<AppImage("newer", 1)>>) EXCEPT !.version = FALSE]
TooLarge == Pack(<<AppImage("huge", 4)>>)
OtherChip == Pack(<<AppImage("alien", 1)>>)
Elsewhere == Pack(<<[AppImage("moved", 1) EXCEPT !.destination = FALSE]>>)
NotAnApp == Pack(<<[AppImage("radio", 1) EXCEPT !.name = "radio"]>>)

SinglePacks ==
    {BlankFlash, GoodPack, LargePack, Unsigned, OtherProduct, OldHeader,
     TooLarge, OtherChip, Elsewhere, NotAnApp}

Fitting == {"old", "new", "newer", "large", "forged", "other", "huge", "moved", "second"}

\* Two images to a pack; the second may be refused after the first is installed.
TwoImages == Pack(<<AppImage("new", 1), AppImage("second", 2)>>)
SecondRefused == Pack(<<AppImage("new", 1), AppImage("alien", 1)>>)
DoublePacks == {TwoImages, SecondRefused}
AllPacks == SinglePacks \cup DoublePacks

\* Two units per sector of the journal.
TwoUnitsPerSector == [u \in Units |-> u \div 2]

=============================================================================
