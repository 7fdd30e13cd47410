--------------------------- MODULE MCRemoteFlash ---------------------------
(***************************************************************************)
(* Instances of RemoteFlash for TLC: a flash of eight sectors of two pages *)
(* whose user area is the upper half, on a board whose program would take  *)
(* the second quarter for it if it did not know the id.                    *)
(***************************************************************************)
EXTENDS RemoteFlash

MCFiles == {"image"}

\* Three pages with contents of their own.
DistinctImage == <<Byte("image", 0), Byte("image", 1), Byte("image", 2)>>

\* Four pages, which fill their sectors to the end; two in a row are equal.
FullImage == <<Byte("image", 0), Byte("image", 1), Byte("image", 1), Byte("image", 2)>>

Setup(efinix, fallback, fix, boot) ==
  [efinix |-> efinix, fallback |-> fallback, fix |-> fix, boot |-> boot]

XilinxSetups ==
  {Setup(FALSE, fallback, fix, boot) :
     fallback \in BOOLEAN, fix \in BOOLEAN, boot \in BOOLEAN}
EfinixSetups ==
  {Setup(TRUE, fallback, FALSE, FALSE) : fallback \in BOOLEAN}

AllSetups == XilinxSetups \cup EfinixSetups

EfinixUserSetup == {Setup(TRUE, FALSE, FALSE, FALSE)}
PlainSetup == {Setup(FALSE, FALSE, FALSE, TRUE)}
=============================================================================
