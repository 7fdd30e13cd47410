------------------------- MODULE RemoteFlashProofs -------------------------
(***************************************************************************)
(* What TLAPS proves of RemoteFlash, for every image, every geometry and   *)
(* any number of datagrams lost and repeated: its types, that program and  *)
(* board are in step, that no boot block of another area is taken for the  *)
(* right one, that only the network makes a run fail, and which cells a    *)
(* write without losses can reach.                                         *)
(***************************************************************************)
EXTENDS RemoteFlash, SpiFlashProofs, SequenceTheorems

-----------------------------------------------------------------------------
(* Types *)

\* The calls before which the loop counter is at its beginning.
BeforeId  == {"scan", "name", "id"}
Preparing == BeforeId \cup {"checkBoot"}
Repairing == {"eraseBoot", "writeBoot", "recheckBoot"}
Writing   == {"erase", "program", "verifyBoot", "compare"}

CounterReset == pc \in Preparing \cup Repairing \cup {"verifyBoot"} => index = 0

TypeInv == TypeOK /\ CounterReset

\* The areas begin at multiples of a sector, and the boot block at cell 0.
LEMMA Areas ==
  /\ UserSpace \in Nat /\ UserSpace % SectorSize = 0 /\ 2 * UserSpace = FlashSize
  /\ LastSector \in Nat
  /\ \A id : UserSpaceOf(id) \in Nat
  /\ \A s, id : StartAddress(s, id) \in Nat
  /\ 0 \in Addresses /\ Decode(0) = 0
<1>1. PICK h \in Nat : FlashSectors = 2 * h
  BY MultipleIsProduct, RemoteAssumption, GeometryAssumption
<1>2. FlashSize = 2 * (h * SectorSize) /\ h * SectorSize \in Nat
  BY <1>1, GeometryAssumption DEF FlashSize
<1>3. UserSpace = h * SectorSize
  BY <1>2 DEF UserSpace
<1>4. (SectorSize * h) % SectorSize = 0 /\ SectorSize * h = h * SectorSize
  BY ProductIsMultiple, GeometryAssumption
<1>5. LastSector \in Nat
  <2>1. Len(Image) \in Nat \ {0}
    BY RemoteAssumption, EmptySeq
  <2>2. FilePages - 1 \in Nat
    BY <2>1, RemoteAssumption
  <2> QED BY ONLY QuotientAndRemainder, <2>2, GeometryAssumption DEF LastSector
<1>6. \A id : UserSpaceOf(id) \in Nat
  BY <1>2, <1>3, RemoteAssumption DEF UserSpaceOf
<1>7. 0 \in Addresses /\ Decode(0) = 0
  BY ChipType DEF Addresses, Decode
<1>8. \A s, id : StartAddress(s, id) \in Nat
  BY <1>6, GeometryAssumption DEF StartAddress
<1> QED BY <1>2, <1>3, <1>4, <1>5, <1>6, <1>7, <1>8

LEMMA ImageType ==
  /\ Len(Image) \in Nat \ {0}
  /\ \A i \in 1 .. Len(Image) : Image[i] \in Bytes /\ Image[i].src \in Files
<1>1. ASSUME NEW i \in 1 .. Len(Image)
      PROVE  Image[i] \in [src : Files, off : Nat]
  BY RemoteAssumption, ElementOfSeq
<1> QED BY <1>1, RemoteAssumption, EmptySeq DEF Bytes

LEMMA BootPageType == \A id : BootPage(id) \in Bytes
  BY Areas, BytesType DEF BootPage

LEMMA RequestType ==
  ASSUME NEW op \in {"readCookie", "readName", "readId", "readAddr", "readPage",
                     "setAddr", "erase", "program"},
         NEW a \in Nat, NEW page \in Bytes
  PROVE  Request(op, a, page) \in Requests /\ Order(op) \in Requests
  BY BytesType DEF Request, Order, Requests

LEMMA CallTypes ==
  ASSUME NEW a \in Nat, NEW page \in Bytes
  PROVE  /\ ReadPage(a) \in Seq(Requests)
         /\ WritePage(a, page) \in Seq(Requests)
         /\ EraseSector(a) \in Seq(Requests)
<1>1. /\ Request("setAddr", a, Erased) \in Requests
      /\ Request("program", 0, page) \in Requests
      /\ Order("readPage") \in Requests /\ Order("readAddr") \in Requests
      /\ Order("erase") \in Requests
  BY RequestType, BytesType
<1> QED BY <1>1 DEF ReadPage, WritePage, EraseSector

\* What each call sends.
LEMMA DatagramsOf ==
  /\ pc = "scan" => Datagrams = <<Order("readCookie")>>
  /\ pc = "name" => Datagrams = <<Order("readName")>>
  /\ pc = "id" => Datagrams = <<Order("readId")>>
  /\ pc \in {"checkBoot", "recheckBoot", "verifyBoot"} => Datagrams = ReadPage(0)
  /\ pc = "eraseBoot" => Datagrams = EraseSector(0)
  /\ pc = "writeBoot" => Datagrams = WritePage(0, BootPage(flash_id))
  /\ pc = "erase" => Datagrams = EraseSector(Start + index * SectorSize)
  /\ pc = "program" => Datagrams = WritePage(Start + index, Image[index + 1])
  /\ pc = "compare" => Datagrams = ReadPage(Start + index)
BY DEF Datagrams

LEMMA DatagramsType ==
  ASSUME TypeInv, pc \notin Final
  PROVE  Datagrams \in Seq(Requests)
<1>1. Start \in Nat /\ index \in Nat
  BY Areas DEF Start, TypeInv, TypeOK
<1>2. CASE pc \in BeforeId
  <2>1. \A op \in {"readCookie", "readName", "readId"} : Order(op) \in Requests
    BY RequestType, BytesType
  <2> QED BY <1>2, <2>1, DatagramsOf DEF BeforeId
<1>3. CASE pc \in {"checkBoot", "recheckBoot", "verifyBoot", "eraseBoot", "writeBoot"}
  BY <1>3, CallTypes, BootPageType, BytesType, DatagramsOf
<1>4. CASE pc = "erase"
  <2>1. Start + index * SectorSize \in Nat
    BY <1>1, GeometryAssumption
  <2> QED BY <1>4, <2>1, CallTypes, BytesType, DatagramsOf
<1>5. CASE pc = "program"
  <2>1. Image[index + 1] \in Bytes
    BY <1>1, <1>5, ImageType DEF TypeInv, TypeOK
  <2>2. Start + index \in Nat
    BY <1>1
  <2> QED BY <1>5, <2>1, <2>2, CallTypes, DatagramsOf
<1>6. CASE pc = "compare"
  <2>1. Start + index \in Nat
    BY <1>1
  <2> QED BY <1>6, <2>1, CallTypes, BytesType, DatagramsOf
<1> QED BY <1>2, <1>3, <1>4, <1>5, <1>6 DEF TypeInv, TypeOK, Final, BeforeId

\* The queues stay queues, whatever is taken from them or put in.
LEMMA QueueTypes ==
  ASSUME NEW S, NEW q \in Seq(S), q # <<>>
  PROVE  Head(q) \in S /\ Tail(q) \in Seq(S) /\ Twice(q) \in Seq(S)
<1>1. Head(q) \in S /\ Tail(q) \in Seq(S)
  BY HeadTailProperties
<1>2. <<Head(q)>> \in Seq(S)
  BY <1>1
<1> QED BY <1>1, <1>2, ConcatProperties DEF Twice

LEMMA TypeInit == Init => TypeInv
<1> SUFFICES ASSUME Init PROVE TypeInv
  OBVIOUS
<1>1. flash \in Memory
  BY BootPageType, BytesType, Areas DEF Init, Memory, Addresses
<1>2. toBoard \in Seq(Requests) /\ toHost \in Seq(Answers)
  BY DEF Init
<1>3. 0 \in 0 .. MaxLost /\ 0 \in 0 .. MaxRepeated
  BY RemoteAssumption
<1> QED BY <1>1, <1>2, <1>3 DEF Init, TypeInv, TypeOK, CounterReset, Final

LEMMA SendType ==
  ASSUME TypeInv, Send
  PROVE  TypeInv'
<1>1. toBoard' \in Seq(Requests)
  BY DatagramsType, ConcatProperties DEF Send, TypeInv, TypeOK
<1> QED BY <1>1 DEF Send, TypeInv, TypeOK, CounterReset, boardVars, wireVars

\* Receiving an answer, of which only pc, index and flash_id depend on the call.
LEMMA ReceiveType ==
  ASSUME TypeInv, Receive,
         pc' \in Preparing \cup Repairing \cup Writing \cup Final, index' \in Nat,
         pc' = "erase" => index' <= LastSector,
         pc' \in {"program", "compare"} => index' < Len(Image),
         pc' \in Preparing \cup Repairing \cup {"verifyBoot"} => index' = 0,
         flash_id' \in {"unread", "right", "wrong"}
  PROVE  TypeInv'
<1>1. toHost' \in Seq(Answers)
  BY QueueTypes DEF Receive, TypeInv, TypeOK
<1> QED BY <1>1 DEF Receive, TypeInv, TypeOK, CounterReset, boardVars, wireVars, Preparing,
                    BeforeId, Repairing, Writing, Final

LEMMA ScanType ==
  ASSUME TypeInv, ScanTimeout \/ ReceiveCookie \/ ReceiveName \/ ReceiveId
  PROVE  TypeInv'
<1>1. CASE ScanTimeout
  BY <1>1 DEF ScanTimeout, TypeInv, TypeOK, CounterReset, boardVars, wireVars, Final, Preparing,
              BeforeId, Repairing
<1>2. CASE ReceiveCookie \/ ReceiveName
  BY <1>2, ReceiveType DEF ReceiveCookie, ReceiveName, TypeInv, TypeOK, CounterReset, Final,
              Preparing, BeforeId, Repairing, Writing
<1>3. CASE ReceiveId
  BY <1>3, ReceiveType, Areas DEF ReceiveId, Programming, TypeInv, TypeOK, CounterReset, Final,
              Preparing, BeforeId, Repairing, Writing
<1> QED BY <1>1, <1>2, <1>3

LEMMA FlashCallType ==
  ASSUME TypeInv,
         ReceiveBootPage \/ BootErased \/ BootWritten \/ SectorDone \/ PageDone \/ ReceivePage
  PROVE  TypeInv'
<1> USE DEF Preparing, BeforeId, Repairing, Writing, Final
<1>1. CASE ReceiveBootPage
  <2>1. index = 0 /\ index' = 0 /\ flash_id' = flash_id
    BY <1>1 DEF ReceiveBootPage, TypeInv, CounterReset
  <2>2. pc' \in {"aborted", "erase", "compare", "eraseBoot", "failed"}
    BY <1>1 DEF ReceiveBootPage, Programming
  <2> QED BY <1>1, <2>1, <2>2, Areas, ImageType, ReceiveType DEF ReceiveBootPage, TypeInv, TypeOK
<1>2. CASE BootErased \/ BootWritten
  BY <1>2, ReceiveType DEF BootErased, BootWritten, Synchronise, TypeInv, TypeOK, CounterReset
<1>3. CASE SectorDone
  <2>1. index \in Nat /\ LastSector \in Nat /\ Len(Image) \in Nat \ {0}
    BY Areas, ImageType DEF TypeInv, TypeOK
  <2>2. \/ pc' = "erase" /\ index' = index + 1 /\ index < LastSector
        \/ pc' = "program" /\ index' = 0
    BY <1>3 DEF SectorDone, Synchronise, MoreSectors
  <2>3. Receive /\ flash_id' = flash_id
    BY <1>3 DEF SectorDone, Synchronise
  <2> QED BY <2>1, <2>2, <2>3, ReceiveType DEF TypeInv, TypeOK
<1>4. CASE PageDone
  <2>1. index \in Nat /\ Len(Image) \in Nat \ {0}
    BY ImageType DEF TypeInv, TypeOK
  <2>2. \/ pc' = "program" /\ index' = index + 1 /\ index + 1 < Len(Image)
        \/ pc' \in {"verifyBoot", "compare"} /\ index' = 0
    BY <1>4 DEF PageDone, Synchronise
  <2>3. Receive /\ flash_id' = flash_id
    BY <1>4 DEF PageDone, Synchronise
  <2> QED BY <2>1, <2>2, <2>3, ReceiveType DEF TypeInv, TypeOK
<1>5. CASE ReceivePage
  <2>1. index \in Nat /\ index' = index + 1
    BY <1>5 DEF ReceivePage, TypeInv, TypeOK
  <2>2. \/ pc' = "compare" /\ index + 1 < Len(Image)
        \/ pc' \in {"verified", "failed", "aborted"}
    BY <1>5 DEF ReceivePage
  <2>3. Receive /\ flash_id' = flash_id
    BY <1>5 DEF ReceivePage
  <2> QED BY <2>1, <2>2, <2>3, ReceiveType DEF TypeInv, TypeOK
<1> QED BY <1>1, <1>2, <1>3, <1>4, <1>5

\* The board and the network move what there is.
LEMMA BoardType ==
  ASSUME TypeInv, Board
  PROVE  TypeInv'
<1>1. PICK op : Serve(op)
  BY DEF Board, SetAddress, Erase, ProgramPage, SendPage, Reply
<1>2. toBoard # <<>> /\ Head(toBoard) \in Requests /\ toBoard' \in Seq(Requests)
  BY <1>1, QueueTypes DEF Serve, TypeInv, TypeOK
<1>3. Head(toBoard).at \in Nat /\ Head(toBoard).page \in Bytes
  BY <1>2 DEF Requests
<1>4. reg \in Int /\ flash[reg] \in Bytes /\ flash \in Memory
  BY DEF TypeInv, TypeOK, Addresses, Memory
<1>5. reg' \in Addresses /\ AfterTransfer \subseteq Addresses
  <2>1. AfterTransfer \subseteq Addresses
    BY <1>4, ChipType DEF AfterTransfer, TypeInv, TypeOK
  <2>2. Decode(Head(toBoard).at) \in Addresses
    BY <1>3, ChipType
  <2> QED BY <2>1, <2>2 DEF Board, SetAddress, Erase, ProgramPage, SendPage, Reply, boardVars,
                           TypeInv, TypeOK
<1>6. flash' \in Memory
  <2>1. CASE Erase
    BY <1>4, <2>1, MemoryType DEF Erase
  <2>2. CASE ProgramPage
    <3>1. Program(flash[reg], Head(toBoard).page) \in Bytes
      BY <1>3, <1>4, BytesType DEF Program
    <3> QED BY <2>2, <3>1 DEF ProgramPage, TypeInv, TypeOK, Memory
  <2>3. CASE UNCHANGED flash
    BY <1>4, <2>3
  <2> QED BY <2>1, <2>2, <2>3 DEF Board, SetAddress, SendPage, Reply, boardVars
<1>7. toHost' \in Seq(Answers)
  <2>1. \A kind \in {"cookie", "name", "id", "addr"} : Answer(kind, Erased) \in Answers
    BY BytesType DEF Answer, Answers
  <2>2. Answer("page", flash[reg]) \in Answers
    BY <1>4 DEF Answer, Answers
  <2>3. UNCHANGED toHost \/ \E a \in Answers : toHost' = Append(toHost, a)
    BY <2>1, <2>2 DEF Board, SetAddress, Erase, ProgramPage, SendPage, Reply
  <2> QED BY <2>3, AppendProperties DEF TypeInv, TypeOK
<1> QED BY <1>1, <1>2, <1>5, <1>6, <1>7 DEF Serve, hostVars, wireVars, TypeInv, TypeOK,
                                           CounterReset

LEMMA NetworkType ==
  ASSUME TypeInv, Lose \/ Repeat
  PROVE  TypeInv'
<1>1. CASE Lose
  <2>1. toBoard' \in Seq(Requests) /\ toHost' \in Seq(Answers)
    BY <1>1, QueueTypes DEF Lose, TypeInv, TypeOK
  <2>2. lost' \in 0 .. MaxLost
    BY <1>1, RemoteAssumption DEF Lose, TypeInv, TypeOK
  <2> QED BY <1>1, <2>1, <2>2 DEF Lose, hostVars, boardVars, TypeInv, TypeOK, CounterReset
<1>2. CASE Repeat
  <2>1. toBoard' \in Seq(Requests) /\ toHost' \in Seq(Answers)
    BY <1>2, QueueTypes DEF Repeat, TypeInv, TypeOK
  <2>2. repeated' \in 0 .. MaxRepeated
    BY <1>2, RemoteAssumption DEF Repeat, TypeInv, TypeOK
  <2> QED BY <1>2, <2>1, <2>2 DEF Repeat, hostVars, boardVars, TypeInv, TypeOK, CounterReset
<1> QED BY <1>1, <1>2

LEMMA TypeNext == TypeInv /\ [Next]_vars => TypeInv'
<1> SUFFICES ASSUME TypeInv, [Next]_vars PROVE TypeInv'
  OBVIOUS
<1>1. CASE Host
  BY <1>1, SendType, ScanType, FlashCallType DEF Host
<1>2. CASE Board
  BY <1>2, BoardType
<1>3. CASE Lose \/ Repeat
  BY <1>3, NetworkType
<1>4. CASE UNCHANGED vars
  BY <1>4 DEF vars, hostVars, boardVars, wireVars, TypeInv, TypeOK, CounterReset
<1> QED BY <1>1, <1>2, <1>3, <1>4 DEF Next

\* Every variable keeps its type, whatever image, geometry and setups, and
\* however many datagrams are lost or repeated.
THEOREM RemoteTypeCorrect == Spec => []TypeOK
<1>1. TypeInv => TypeOK
  BY DEF TypeInv
<1> QED BY <1>1, TypeInit, TypeNext, PTL DEF Spec

-----------------------------------------------------------------------------
(* Queues *)

\* Where the elements of a queue are after an element was taken or came twice.
LEMMA QueueParts ==
  ASSUME NEW S, NEW q \in Seq(S), q # <<>>
  PROVE  /\ Len(q) \in Nat \ {0} /\ Head(q) = q[1]
         /\ Len(Tail(q)) = Len(q) - 1
         /\ \A i \in 1 .. Len(q) - 1 : Tail(q)[i] = q[i + 1]
         /\ Len(Twice(q)) = Len(q) + 1
         /\ Twice(q)[1] = q[1]
         /\ \A i \in 2 .. Len(q) + 1 : Twice(q)[i] = q[i - 1]
<1>1. /\ Len(Tail(q)) = Len(q) - 1
      /\ \A i \in 1 .. Len(q) - 1 : Tail(q)[i] = q[i + 1]
  BY HeadTailProperties
<1>2. Len(q) \in Nat \ {0} /\ Head(q) = q[1]
  BY EmptySeq
<1>3. <<Head(q)>> \in Seq(S) /\ Len(<<Head(q)>>) = 1 /\ <<Head(q)>>[1] = q[1]
  BY <1>2, HeadTailProperties
<1>4. /\ Len(Twice(q)) = 1 + Len(q)
      /\ \A i \in 1 .. 1 + Len(q) : Twice(q)[i] = IF i <= 1 THEN <<Head(q)>>[i] ELSE q[i - 1]
  BY <1>3, ConcatProperties DEF Twice
<1> QED BY <1>1, <1>2, <1>3, <1>4

Elements(q) == {q[i] : i \in 1 .. Len(q)}

LEMMA QueueElements ==
  ASSUME NEW S, NEW q \in Seq(S)
  PROVE  /\ q # <<>> => /\ Head(q) \in Elements(q)
                        /\ Elements(Tail(q)) \subseteq Elements(q)
                        /\ Elements(Twice(q)) \subseteq Elements(q)
                        /\ Elements(q) = {Head(q)} \cup Elements(Tail(q))
         /\ \A r \in Seq(S) : Elements(q \o r) = Elements(q) \cup Elements(r)
         /\ \A e \in S : Elements(Append(q, e)) = Elements(q) \cup {e}
<1>1. ASSUME q # <<>>
      PROVE  /\ Head(q) \in Elements(q)
             /\ Elements(Tail(q)) \subseteq Elements(q)
             /\ Elements(Twice(q)) \subseteq Elements(q)
             /\ Elements(q) = {Head(q)} \cup Elements(Tail(q))
  <2> DEFINE n == Len(q)
  <2>1. /\ n \in Nat \ {0} /\ Head(q) = q[1]
        /\ Len(Tail(q)) = n - 1 /\ \A i \in 1 .. n - 1 : Tail(q)[i] = q[i + 1]
        /\ Len(Twice(q)) = n + 1
        /\ Twice(q)[1] = q[1] /\ \A i \in 2 .. n + 1 : Twice(q)[i] = q[i - 1]
    BY <1>1, QueueParts
  <2>2. Elements(Tail(q)) = {q[i] : i \in 2 .. n}
    <3>1. ASSUME NEW i \in 1 .. n - 1 PROVE i + 1 \in 2 .. n /\ Tail(q)[i] = q[i + 1]
      BY <2>1
    <3>2. ASSUME NEW i \in 2 .. n PROVE i - 1 \in 1 .. n - 1 /\ Tail(q)[i - 1] = q[i]
      BY <2>1
    <3> QED BY <2>1, <3>1, <3>2 DEF Elements
  <2>3. Elements(Twice(q)) \subseteq Elements(q)
    <3>1. ASSUME NEW i \in 1 .. n + 1 PROVE Twice(q)[i] \in Elements(q)
      <4>1. CASE i = 1
        BY <2>1, <4>1 DEF Elements
      <4>2. CASE i # 1
        <5>1. i - 1 \in 1 .. n /\ Twice(q)[i] = q[i - 1]
          BY <2>1, <4>2
        <5> QED BY <5>1 DEF Elements
      <4> QED BY <4>1, <4>2
    <3> QED BY <2>1, <3>1 DEF Elements
  <2>4. Elements(q) = {q[1]} \cup {q[i] : i \in 2 .. n}
    BY <2>1 DEF Elements
  <2> QED BY <2>1, <2>2, <2>3, <2>4
<1>2. ASSUME NEW r \in Seq(S) PROVE Elements(q \o r) = Elements(q) \cup Elements(r)
  <2> DEFINE m == Len(q)  n == Len(r)
  <2>1. /\ m \in Nat /\ n \in Nat /\ Len(q \o r) = m + n
        /\ \A i \in 1 .. m + n : (q \o r)[i] = IF i <= m THEN q[i] ELSE r[i - m]
    BY ConcatProperties, LenProperties
  <2>2. ASSUME NEW i \in 1 .. m PROVE i \in 1 .. m + n /\ (q \o r)[i] = q[i]
    BY <2>1
  <2>3. ASSUME NEW i \in 1 .. n PROVE i + m \in 1 .. m + n /\ (q \o r)[i + m] = r[i]
    BY <2>1
  <2>4. ASSUME NEW i \in 1 .. m + n PROVE (q \o r)[i] \in Elements(q) \cup Elements(r)
    <3>1. CASE i <= m
      BY <2>1, <3>1 DEF Elements
    <3>2. CASE ~(i <= m)
      <4>1. i - m \in 1 .. n /\ (q \o r)[i] = r[i - m]
        BY <2>1, <3>2
      <4> QED BY <4>1 DEF Elements
    <3> QED BY <3>1, <3>2
  <2> HIDE DEF m, n
  <2>5. Elements(q \o r) \subseteq Elements(q) \cup Elements(r)
    BY <2>1, <2>4 DEF Elements
  <2>6. Elements(q) \subseteq Elements(q \o r)
    BY <2>1, <2>2 DEF Elements, m
  <2>7. \A i \in 1 .. n : r[i] \in Elements(q \o r)
    BY <2>1, <2>3 DEF Elements
  <2>8. Elements(r) \subseteq Elements(q \o r)
    BY <2>7 DEF Elements, n
  <2> QED BY <2>5, <2>6, <2>8
<1>3. ASSUME NEW e \in S PROVE Elements(Append(q, e)) = Elements(q) \cup {e}
  <2>1. Append(q, e) = q \o <<e>> /\ <<e>> \in Seq(S) /\ Elements(<<e>>) = {e}
    BY AppendIsConcat DEF Elements
  <2> QED BY <1>2, <2>1
<1> QED BY <1>1, <1>2, <1>3

-----------------------------------------------------------------------------
(* The boot block of another area *)

\* A page that is no boot block, or the one that jumps to the user area.
OwnBoot(page) == page.src = "boot" => page.off = UserSpace

\* On a board whose boot block is not to be repaired no other boot block can
\* come up anywhere, so that a comparison with another one fails.
NoForeignBoot ==
  HasBootBlock(setup) /\ ~setup.fix =>
    /\ pc \notin Repairing
    /\ \A x \in Addresses : OwnBoot(flash[x])
    /\ \A r \in Elements(toBoard) : OwnBoot(r.page)
    /\ \A a \in Elements(toHost) : OwnBoot(a.page)
    /\ pc \in Writing => UserSpaceOf(flash_id) = UserSpace

LEMMA PagesOwned ==
  /\ OwnBoot(Erased) /\ OwnBoot(Junk)
  /\ \A i \in 1 .. Len(Image) : OwnBoot(Image[i])
  /\ \A x : OwnBoot(Byte("old", x))
  /\ OwnBoot(BootPage("right"))
  /\ \A id : OwnBoot(BootPage(id)) => UserSpaceOf(id) = UserSpace
<1>1. \A i \in 1 .. Len(Image) : Image[i].src # "boot"
  BY ImageType, RemoteAssumption
<1> QED BY <1>1 DEF OwnBoot, Erased, Junk, Byte, BootPage, UserSpaceOf

LEMMA CallElements ==
  ASSUME NEW a, NEW page
  PROVE  /\ Elements(ReadPage(a)) = {Request("setAddr", a, Erased), Order("readPage")}
         /\ Elements(WritePage(a, page)) =
              {Request("setAddr", a, Erased), Request("program", 0, page), Order("readAddr")}
         /\ Elements(EraseSector(a)) =
              {Request("setAddr", a, Erased), Order("erase"), Order("readAddr")}
BY DEF Elements, ReadPage, WritePage, EraseSector

\* The pages that a call sends when no boot block is written.
LEMMA PagesSent ==
  ASSUME TypeInv, pc \notin Final \cup Repairing
  PROVE  \A r \in Elements(Datagrams) : OwnBoot(r.page)
<1>1. \A op, a : OwnBoot(Request(op, a, Erased).page) /\ OwnBoot(Order(op).page)
  BY PagesOwned DEF Request, Order
<1>2. CASE pc \in BeforeId
  <2>1. \E op : Elements(Datagrams) = {Order(op)}
    BY <1>2, DatagramsOf DEF Elements, BeforeId
  <2> QED BY <1>1, <2>1
<1>3. CASE pc \in {"checkBoot", "verifyBoot", "compare", "erase"}
  <2>1. \E a : Datagrams = ReadPage(a) \/ Datagrams = EraseSector(a)
    BY <1>3, DatagramsOf
  <2>2. \E a : Elements(Datagrams) \subseteq {Request("setAddr", a, Erased), Order("readPage"),
                                            Order("erase"), Order("readAddr")}
    BY <2>1, CallElements
  <2> QED BY <1>1, <2>2
<1>4. CASE pc = "program"
  <2>1. OwnBoot(Image[index + 1])
    <3>1. index + 1 \in 1 .. Len(Image)
      BY <1>4, ImageType DEF TypeInv, TypeOK
    <3> QED BY <3>1, PagesOwned
  <2>2. OwnBoot(Request("program", 0, Image[index + 1]).page)
    BY <2>1 DEF Request
  <2> QED BY <1>1, <1>4, <2>2, DatagramsOf, CallElements
<1> QED BY <1>2, <1>3, <1>4 DEF TypeInv, TypeOK, BeforeId, Repairing, Final

LEMMA ForeignInit == Init => NoForeignBoot
<1> SUFFICES ASSUME Init PROVE NoForeignBoot
  OBVIOUS
<1>1. ASSUME NEW x \in Addresses PROVE OwnBoot(flash[x])
  BY PagesOwned DEF Init
<1>2. Elements(toBoard) = {} /\ Elements(toHost) = {}
  BY DEF Init, Elements
<1> QED BY <1>1, <1>2 DEF Init, NoForeignBoot, Repairing, Writing

LEMMA ForeignSend ==
  ASSUME TypeInv, NoForeignBoot, Send
  PROVE  NoForeignBoot'
<1> SUFFICES ASSUME HasBootBlock(setup), ~setup.fix PROVE NoForeignBoot'
  BY DEF Send, NoForeignBoot
<1>1. pc \notin Final \cup Repairing
  BY DEF Send, NoForeignBoot
<1>2. Elements(toBoard') = Elements(toBoard) \cup Elements(Datagrams)
  BY <1>1, DatagramsType, QueueElements DEF Send, TypeInv, TypeOK
<1>3. \A r \in Elements(toBoard') : OwnBoot(r.page)
  BY <1>1, <1>2, PagesSent DEF NoForeignBoot
<1> QED BY <1>3 DEF Send, NoForeignBoot, boardVars

LEMMA ForeignReceive ==
  ASSUME TypeInv, NoForeignBoot, Host, ~Send
  PROVE  NoForeignBoot'
<1> SUFFICES ASSUME HasBootBlock(setup), ~setup.fix PROVE NoForeignBoot'
  BY DEF Host, ScanTimeout, ReceiveCookie, ReceiveName, ReceiveId, ReceiveBootPage, BootErased,
         BootWritten, SectorDone, PageDone, ReceivePage, Synchronise, Receive, NoForeignBoot
<1> USE DEF Repairing, Writing
<1>1. CASE ScanTimeout
  BY <1>1 DEF ScanTimeout, NoForeignBoot, boardVars
<1>2. CASE Receive
  <2>1. Elements(toHost') \subseteq Elements(toHost) /\ Head(toHost) \in Elements(toHost)
    BY <1>2, QueueElements DEF Receive, TypeInv, TypeOK
  <2>2. /\ \A x \in Addresses : OwnBoot(flash'[x])
        /\ \A r \in Elements(toBoard') : OwnBoot(r.page)
        /\ \A a \in Elements(toHost') : OwnBoot(a.page)
        /\ setup' = setup
    BY <1>2, <2>1 DEF Receive, NoForeignBoot, boardVars
  <2>3. ReceiveBootPage /\ BootPageOK => UserSpaceOf(flash_id) = UserSpace
    BY <2>1, PagesOwned DEF NoForeignBoot, BootPageOK
  <2>4. CASE ReceiveBootPage
    <3>1. pc' \in Writing => UserSpaceOf(flash_id') = UserSpace
      BY <2>3, <2>4 DEF ReceiveBootPage
    <3>2. pc' \notin Repairing
      BY <2>4 DEF ReceiveBootPage, Programming, NoForeignBoot
    <3> QED BY <2>2, <3>1, <3>2 DEF NoForeignBoot
  <2>5. CASE ReceiveCookie \/ ReceiveName \/ ReceiveId
    BY <2>2, <2>5 DEF ReceiveCookie, ReceiveName, ReceiveId, NoForeignBoot
  <2>6. CASE BootErased \/ BootWritten
    BY <2>6 DEF BootErased, BootWritten, NoForeignBoot
  <2>7. CASE SectorDone \/ PageDone \/ ReceivePage
    <3>1. pc \in Writing /\ flash_id' = flash_id /\ pc' \notin Repairing
      BY <2>7 DEF SectorDone, PageDone, ReceivePage, Synchronise
    <3> QED BY <2>2, <3>1 DEF NoForeignBoot
  <2> QED BY <2>4, <2>5, <2>6, <2>7, <1>2 DEF Host, ScanTimeout, Receive
<1> QED BY <1>1, <1>2 DEF Host, ReceiveCookie, ReceiveName, ReceiveId, ReceiveBootPage,
             BootErased, BootWritten, SectorDone, PageDone, ReceivePage, Synchronise

LEMMA ForeignBoard ==
  ASSUME TypeInv, NoForeignBoot, Board
  PROVE  NoForeignBoot'
<1> SUFFICES ASSUME HasBootBlock(setup), ~setup.fix PROVE NoForeignBoot'
  BY DEF Board, SetAddress, Erase, ProgramPage, SendPage, Reply, Serve, NoForeignBoot
<1>1. /\ toBoard # <<>> /\ toBoard' = Tail(toBoard)
      /\ UNCHANGED <<setup, hostVars>>
  BY DEF Board, SetAddress, Erase, ProgramPage, SendPage, Reply, Serve
<1>2. Head(toBoard) \in Elements(toBoard) /\ Elements(toBoard') \subseteq Elements(toBoard)
  BY <1>1, QueueElements DEF TypeInv, TypeOK
<1>3. /\ \A x \in Addresses : OwnBoot(flash[x])
      /\ \A r \in Elements(toBoard') : OwnBoot(r.page)
      /\ OwnBoot(Head(toBoard).page)
      /\ reg \in Addresses
  BY <1>2 DEF NoForeignBoot, TypeInv, TypeOK
<1>4. ASSUME NEW x \in Addresses PROVE OwnBoot(flash'[x])
  <2>1. CASE Erase
    BY <1>3, <2>1, PagesOwned DEF Erase, SectorErased
  <2>2. CASE ProgramPage
    <3>1. OwnBoot(Program(flash[reg], Head(toBoard).page))
      BY <1>3, PagesOwned DEF Program
    <3> QED BY <1>3, <2>2, <3>1 DEF ProgramPage, TypeInv, TypeOK, Memory
  <2>3. CASE UNCHANGED flash
    BY <1>3, <2>3
  <2> QED BY <2>1, <2>2, <2>3 DEF Board, SetAddress, SendPage, Reply, boardVars
<1>5. \A a \in Elements(toHost') : OwnBoot(a.page)
  <2>1. UNCHANGED toHost \/ \E a \in Answers : toHost' = Append(toHost, a) /\ OwnBoot(a.page)
    <3>1. \A kind \in {"cookie", "name", "id", "addr"} :
            Answer(kind, Erased) \in Answers /\ OwnBoot(Answer(kind, Erased).page)
      BY BytesType, PagesOwned DEF Answer, Answers
    <3>2. flash[reg] \in Bytes
      BY DEF TypeInv, TypeOK, Memory
    <3>3. Answer("page", flash[reg]) \in Answers /\ OwnBoot(Answer("page", flash[reg]).page)
      BY <1>3, <3>2 DEF Answer, Answers
    <3> QED BY <3>1, <3>3 DEF Board, SetAddress, Erase, ProgramPage, SendPage, Reply
  <2>2. \A a \in Answers : Elements(Append(toHost, a)) = Elements(toHost) \cup {a}
    BY QueueElements DEF TypeInv, TypeOK
  <2> QED BY <2>1, <2>2 DEF NoForeignBoot
<1> QED BY <1>1, <1>3, <1>4, <1>5 DEF NoForeignBoot, hostVars

LEMMA ForeignNetwork ==
  ASSUME TypeInv, NoForeignBoot, Lose \/ Repeat
  PROVE  NoForeignBoot'
<1>1. /\ Elements(toBoard') \subseteq Elements(toBoard)
      /\ Elements(toHost') \subseteq Elements(toHost)
  BY QueueElements DEF Lose, Repeat, TypeInv, TypeOK
<1>2. UNCHANGED <<setup, hostVars, boardVars>>
  BY DEF Lose, Repeat
<1> QED BY <1>1, <1>2 DEF hostVars, boardVars, NoForeignBoot

LEMMA ForeignNext == TypeInv /\ NoForeignBoot /\ [Next]_vars => NoForeignBoot'
<1> SUFFICES ASSUME TypeInv, NoForeignBoot, [Next]_vars PROVE NoForeignBoot'
  OBVIOUS
<1>1. CASE Host
  BY <1>1, ForeignSend, ForeignReceive
<1>2. CASE Board
  BY <1>2, ForeignBoard
<1>3. CASE Lose \/ Repeat
  BY <1>3, ForeignNetwork
<1>4. CASE UNCHANGED vars
  BY <1>4 DEF vars, hostVars, boardVars, NoForeignBoot
<1> QED BY <1>1, <1>2, <1>3, <1>4 DEF Next

\* However many datagrams are lost or repeated, an area is erased only where
\* the boot block of the board jumps to, if that is not to be repaired.
THEOREM RemoteRightIdBeforeErase == Spec => []RightIdBeforeErase
<1>1. NoForeignBoot => RightIdBeforeErase
  BY DEF NoForeignBoot, RightIdBeforeErase, Writing
<1> QED BY <1>1, TypeInit, TypeNext, ForeignInit, ForeignNext, PTL DEF Spec

-----------------------------------------------------------------------------
(* Program and board in step *)

\* The request of a call that is answered, and the kind of its answer.
AskedOp ==
  CASE pc = "scan" -> "readCookie" [] pc = "name" -> "readName" [] pc = "id" -> "readId"
    [] pc \in {"checkBoot", "recheckBoot", "verifyBoot", "compare"} -> "readPage"
    [] OTHER -> "readAddr"
AwaitedKind ==
  CASE pc = "scan" -> "cookie" [] pc = "name" -> "name" [] pc = "id" -> "id"
    [] pc \in {"checkBoot", "recheckBoot", "verifyBoot", "compare"} -> "page"
    [] OTHER -> "addr"

IsSuffix(s, t) ==
  /\ Len(s) <= Len(t)
  /\ \A i \in 1 .. Len(s) : s[i] = t[i + Len(t) - Len(s)]

\* What is on its way is the rest of the call's datagrams, or its answer.
Lockstep ==
  repeated = 0 /\ pc \notin Final =>
    /\ ~awaiting => toBoard = <<>> /\ toHost = <<>>
    /\ IsSuffix(toBoard, Datagrams)
    /\ toHost # <<>> => toBoard = <<>> /\ Len(toHost) = 1 /\ Head(toHost).kind = AwaitedKind
    /\ pc \notin BeforeId => flash_id = "right"

\* Only the last datagram of a call is answered.
LEMMA DatagramsShape ==
  ASSUME TypeInv, pc \notin Final
  PROVE  /\ Len(Datagrams) \in 1 .. 3
         /\ Datagrams[Len(Datagrams)].op = AskedOp
         /\ \A i \in 1 .. Len(Datagrams) - 1 :
              Datagrams[i].op \in {"setAddr", "erase", "program"}
<1>1. CASE pc \in BeforeId
  <2>1. Datagrams = <<Order(AskedOp)>>
    BY <1>1, DatagramsOf DEF BeforeId, AskedOp
  <2> QED BY <2>1 DEF Order, Request
<1>2. CASE pc \in {"checkBoot", "recheckBoot", "verifyBoot", "compare"}
  <2>1. PICK a : Datagrams = ReadPage(a)
    BY <1>2, DatagramsOf
  <2> QED BY <1>2, <2>1 DEF ReadPage, Order, Request, AskedOp
<1>3. CASE pc \in {"eraseBoot", "erase"}
  <2>1. PICK a : Datagrams = EraseSector(a)
    BY <1>3, DatagramsOf
  <2> QED BY <1>3, <2>1 DEF EraseSector, Order, Request, AskedOp
<1>4. CASE pc \in {"writeBoot", "program"}
  <2>1. PICK a, page : Datagrams = WritePage(a, page)
    BY <1>4, DatagramsOf
  <2> QED BY <1>4, <2>1 DEF WritePage, Order, Request, AskedOp
<1> QED BY <1>1, <1>2, <1>3, <1>4 DEF TypeInv, TypeOK, BeforeId, Final

LEMMA OneLeft ==
  ASSUME NEW S, NEW q \in Seq(S), Len(q) = 1
  PROVE  q # <<>> /\ Tail(q) = <<>>
<1>1. q # <<>>
  BY EmptySeq
<1>2. Tail(q) \in Seq(S) /\ Len(Tail(q)) = 0
  BY <1>1, HeadTailProperties
<1> QED BY <1>1, <1>2, EmptySeq

LEMMA TailOfSuffix ==
  ASSUME NEW S, NEW s \in Seq(S), NEW t \in Seq(S), IsSuffix(s, t), s # <<>>
  PROVE  IsSuffix(Tail(s), t)
<1>1. /\ Len(s) \in Nat \ {0} /\ Len(t) \in Nat /\ Len(Tail(s)) = Len(s) - 1
      /\ \A i \in 1 .. Len(s) - 1 : Tail(s)[i] = s[i + 1]
  BY QueueParts, LenProperties
<1>2. ASSUME NEW i \in 1 .. Len(s) - 1
      PROVE  Tail(s)[i] = t[i + Len(t) - (Len(s) - 1)]
  <2>1. i + 1 \in 1 .. Len(s)
    BY <1>1
  <2>2. Tail(s)[i] = t[(i + 1) + Len(t) - Len(s)]
    BY <1>1, <2>1 DEF IsSuffix
  <2>3. (i + 1) + Len(t) - Len(s) = i + Len(t) - (Len(s) - 1)
    BY <1>1
  <2> QED BY <2>2, <2>3
<1> QED BY <1>1, <1>2 DEF IsSuffix

LEMMA LockstepInit == Init => Lockstep
<1> SUFFICES ASSUME Init PROVE Lockstep
  OBVIOUS
<1>1. pc \in BeforeId /\ ~awaiting /\ toBoard = <<>> /\ toHost = <<>>
  BY DEF Init, BeforeId
<1>2. Len(toBoard) = 0 /\ Len(Datagrams) \in Nat
  BY <1>1, TypeInit, DatagramsShape DEF BeforeId, Final
<1> QED BY <1>1, <1>2 DEF Lockstep, IsSuffix

LEMMA LockstepSend ==
  ASSUME TypeInv, Lockstep, Send
  PROVE  Lockstep'
<1> SUFFICES ASSUME repeated = 0 PROVE Lockstep'
  BY DEF Send, wireVars, Lockstep
<1>1. pc \notin Final /\ toBoard = <<>> /\ toHost = <<>>
  BY DEF Send, Lockstep
<1>2. Datagrams \in Seq(Requests) /\ Datagrams' = Datagrams
  BY <1>1, DatagramsType
     DEF Send, Datagrams, Start, StartAddress, UserSpaceOf, BootPage, HasBootBlock
<1>3. toBoard' = Datagrams'
  BY <1>1, <1>2, ConcatEmptySeq DEF Send
<1>4. IsSuffix(toBoard', Datagrams')
  BY <1>2, <1>3, LenProperties DEF IsSuffix
<1> QED BY <1>1, <1>4 DEF Send, Lockstep

\* Which answers are received, and what they do to the flash id.
LEMMA ReceiveSteps ==
  ASSUME Host, ~Send, ~ScanTimeout
  PROVE  /\ Receive
         /\ \/ pc' \in Final
            \/ pc' \in BeforeId /\ pc \in {"scan", "name"} /\ flash_id' = flash_id
            \/ ReceiveId
            \/ pc \notin BeforeId /\ flash_id' = flash_id
BY DEF Host, ReceiveCookie, ReceiveName, ReceiveId, ReceiveBootPage, BootErased, BootWritten,
       SectorDone, PageDone, ReceivePage, Synchronise, BeforeId, Final

LEMMA LockstepReceive ==
  ASSUME TypeInv, Lockstep, Host, ~Send
  PROVE  Lockstep'
<1>1. CASE ScanTimeout
  BY <1>1 DEF ScanTimeout, Lockstep, Final
<1>2. CASE ~ScanTimeout
  <2> SUFFICES ASSUME repeated = 0, pc' \notin Final PROVE Lockstep'
    BY <1>2, ReceiveSteps DEF Receive, wireVars, Lockstep
  <2>1. Receive /\ pc \notin Final
    BY <1>2, ReceiveSteps DEF Host, ReceiveCookie, ReceiveName, ReceiveId, ReceiveBootPage,
             BootErased, BootWritten, SectorDone, PageDone, ReceivePage, Final, ScanTimeout
  <2>2. toBoard = <<>> /\ Len(toHost) = 1 /\ Head(toHost).kind = AwaitedKind
    BY <2>1 DEF Receive, Lockstep
  <2>3. toHost' = <<>> /\ toBoard' = <<>> /\ awaiting' = FALSE /\ Len(toBoard') = 0
    BY <2>1, <2>2, OneLeft DEF Receive, TypeInv, TypeOK
  <2>4. pc' \notin BeforeId => flash_id' = "right"
    BY <1>2, <2>1, <2>2, ReceiveSteps DEF ReceiveId, AwaitedKind, Lockstep, BeforeId
  <2>5. Len(Datagrams') \in Nat
    <3>1. TypeInv'
      BY TypeNext DEF Next
    <3> QED BY <3>1, DatagramsShape
  <2>6. IsSuffix(toBoard', Datagrams')
    BY <2>3, <2>5 DEF IsSuffix
  <2> QED BY <2>3, <2>4, <2>6 DEF Lockstep
<1> QED BY <1>1, <1>2

LEMMA SameCall ==
  ASSUME UNCHANGED <<setup, pc, index, flash_id>>
  PROVE  Datagrams' = Datagrams /\ AskedOp' = AskedOp /\ AwaitedKind' = AwaitedKind
BY DEF Datagrams, AskedOp, AwaitedKind, Start, StartAddress, UserSpaceOf, BootPage, HasBootBlock

\* The board answers the last datagram of a call, and no other.
LEMMA BoardAnswers ==
  ASSUME TypeInv, Board
  PROVE  /\ toBoard # <<>> /\ toBoard' = Tail(toBoard)
         /\ UNCHANGED <<setup, hostVars, wireVars>>
         /\ \/ Head(toBoard).op \in {"setAddr", "erase", "program"} /\ toHost' = toHost
            \/ /\ Head(toBoard).op \notin {"setAddr", "erase", "program"}
               /\ \E a \in Answers :
                    /\ toHost' = Append(toHost, a)
                    /\ Head(toBoard).op = AskedOp /\ pc \notin Final => a.kind = AwaitedKind
               /\ UNCHANGED flash
<1>1. \A kind \in {"cookie", "name", "id", "addr"} : Answer(kind, Erased) \in Answers
  BY BytesType DEF Answer, Answers
<1>2. Answer("page", flash[reg]) \in Answers
  <2>1. flash[reg] \in Bytes
    BY DEF TypeInv, TypeOK, Memory
  <2> QED BY <2>1 DEF Answer, Answers
<1>3. CASE SetAddress \/ Erase \/ ProgramPage
  BY <1>3 DEF SetAddress, Erase, ProgramPage, Serve
<1>4. CASE SendPage
  <2>1. Head(toBoard).op = AskedOp => AwaitedKind = "page"
    BY <1>4 DEF SendPage, Serve, AskedOp, AwaitedKind
  <2> QED BY <1>2, <1>4, <2>1 DEF SendPage, Serve, Answer
<1>5. ASSUME NEW op, NEW kind, Reply(op, kind),
             <<op, kind>> \in {<<"readCookie", "cookie">>, <<"readName", "name">>,
                               <<"readId", "id">>, <<"readAddr", "addr">>}
      PROVE  /\ Head(toBoard).op \notin {"setAddr", "erase", "program"}
             /\ \E a \in Answers :
                  /\ toHost' = Append(toHost, a)
                  /\ Head(toBoard).op = AskedOp /\ pc \notin Final => a.kind = AwaitedKind
             /\ toBoard # <<>> /\ toBoard' = Tail(toBoard)
             /\ UNCHANGED <<setup, hostVars, wireVars, flash>>
  <2>1. op = AskedOp /\ pc \notin Final => kind = AwaitedKind
    BY <1>5 DEF AskedOp, AwaitedKind
  <2> QED BY <1>1, <1>5, <2>1 DEF Reply, Serve, Answer, boardVars
<1> QED BY <1>3, <1>4, <1>5 DEF Board

LEMMA LockstepBoard ==
  ASSUME TypeInv, Lockstep, Board
  PROVE  Lockstep'
<1> SUFFICES ASSUME repeated = 0, pc \notin Final PROVE Lockstep'
  BY BoardAnswers DEF hostVars, wireVars, Lockstep
<1> DEFINE D == Datagrams
<1>1. /\ toBoard # <<>> /\ toBoard' = Tail(toBoard) /\ toHost = <<>> /\ awaiting
      /\ IsSuffix(toBoard, D) /\ D \in Seq(Requests) /\ toBoard \in Seq(Requests)
  BY BoardAnswers, DatagramsType DEF Lockstep, TypeInv, TypeOK
<1>2. D' = D /\ AwaitedKind' = AwaitedKind /\ IsSuffix(toBoard', D)
  BY <1>1, BoardAnswers, SameCall, TailOfSuffix DEF hostVars
<1>3. toHost' # <<>> => toBoard' = <<>> /\ Len(toHost') = 1 /\ Head(toHost').kind = AwaitedKind
  <2> SUFFICES ASSUME toHost' # <<>>
               PROVE  toBoard' = <<>> /\ Len(toHost') = 1 /\ Head(toHost').kind = AwaitedKind
    OBVIOUS
  <2>1. Head(toBoard).op \notin {"setAddr", "erase", "program"}
    BY <1>1, BoardAnswers
  <2>2. /\ Head(toBoard) = D[1 + Len(D) - Len(toBoard)]
        /\ Len(toBoard) \in Nat \ {0} /\ Len(D) \in Nat /\ Len(toBoard) <= Len(D)
    <3>1. Head(toBoard) = toBoard[1] /\ Len(toBoard) \in Nat \ {0}
      BY <1>1, QueueParts
    <3> QED BY <1>1, <3>1, DatagramsShape DEF IsSuffix
  <2>3. Len(toBoard) = 1
    <3>1. SUFFICES ASSUME Len(toBoard) # 1 PROVE FALSE
      OBVIOUS
    <3>2. 1 + Len(D) - Len(toBoard) \in 1 .. Len(D) - 1
      <4>1. \A m, n \in Nat : m \notin {0, 1} /\ m <= n => 1 + n - m \in 1 .. n - 1
        OBVIOUS
      <4> HIDE DEF D
      <4> QED BY <2>2, <3>1, <4>1
    <3> QED BY <2>1, <2>2, <3>2, DatagramsShape
  <2>4. Head(toBoard).op = AskedOp
    BY <2>2, <2>3, DatagramsShape
  <2>5. PICK a \in Answers : toHost' = Append(<<>>, a) /\ a.kind = AwaitedKind
    BY <1>1, <2>1, <2>4, BoardAnswers
  <2>6. toHost' = <<a>>
    BY <2>5
  <2> QED BY <1>1, <2>3, <2>5, <2>6, OneLeft
<1> QED BY <1>1, <1>2, <1>3, BoardAnswers DEF Lockstep, hostVars

LEMMA LockstepNext == TypeInv /\ Lockstep /\ [Next]_vars => Lockstep'
<1> SUFFICES ASSUME TypeInv, Lockstep, [Next]_vars PROVE Lockstep'
  OBVIOUS
<1>1. CASE Host
  BY <1>1, LockstepSend, LockstepReceive
<1>2. CASE Board
  BY <1>2, LockstepBoard
<1>3. CASE Lose
  <2> SUFFICES ASSUME repeated = 0, pc \notin Final PROVE Lockstep'
    BY <1>3 DEF Lose, hostVars, Lockstep
  <2>1. Datagrams' = Datagrams /\ AwaitedKind' = AwaitedKind
    BY <1>3, SameCall DEF Lose, hostVars
  <2>2. IsSuffix(toBoard', Datagrams)
    BY <1>3, TailOfSuffix, DatagramsType DEF Lose, Lockstep, TypeInv, TypeOK
  <2>3. CASE toBoard # <<>> /\ toBoard' = Tail(toBoard) /\ UNCHANGED toHost
    BY <1>3, <2>1, <2>2, <2>3 DEF Lose, hostVars, Lockstep
  <2>4. CASE toHost # <<>> /\ toHost' = Tail(toHost) /\ UNCHANGED toBoard
    <3>1. toHost' = <<>>
      BY <2>4, OneLeft DEF Lockstep, TypeInv, TypeOK
    <3> QED BY <1>3, <2>1, <2>2, <2>4, <3>1 DEF Lose, hostVars, Lockstep
  <2> QED BY <1>3, <2>3, <2>4 DEF Lose
<1>4. CASE Repeat
  <2>1. repeated' # 0
    BY <1>4 DEF Repeat, TypeInv, TypeOK
  <2> QED BY <2>1 DEF Lockstep
<1>5. CASE UNCHANGED vars
  BY <1>5, SameCall DEF vars, hostVars, wireVars, Lockstep
<1> QED BY <1>1, <1>2, <1>3, <1>4, <1>5 DEF Next

\* As long as no datagram came twice, nothing is on its way between two calls,
\* however many were lost.
THEOREM RemoteInStep == Spec => []InStep
<1>1. Lockstep => InStep
  BY DEF Lockstep, InStep
<1> QED BY <1>1, TypeInit, TypeNext, LockstepInit, LockstepNext, PTL DEF Spec

-----------------------------------------------------------------------------
(* A network that does nothing wrong *)

StartRight == StartAddress(setup, "right")

LEMMA MaxSectorsType == \A id : MaxSectors(id) \in Int
BY Areas, GeometryAssumption DEF MaxSectors

\* A file that fits lies between the boot block and the end of the chip.
LEMMA AreaFits ==
  ASSUME TypeInv, FileFits
  PROVE  /\ Len(Image) <= (LastSector + 1) * SectorSize
         /\ StartRight + (LastSector + 1) * SectorSize <= FlashSize
         /\ StartRight \in Nat /\ StartRight % SectorSize = 0
         /\ HasBootBlock(setup) => StartRight >= SectorSize
<1> DEFINE l == LastSector + 1
<1>1. PICK h \in Nat : UserSpace = SectorSize * h
  BY MultipleIsProduct, Areas, GeometryAssumption
<1>2. h >= 1
  <2>1. CASE h = 0
    BY <1>1, <2>1, Areas, ChipType, GeometryAssumption
  <2> QED BY <1>1, <2>1
<1>3. UserSpace \div SectorSize = h
  <2>1. (h * SectorSize + 0) \div SectorSize = h
    BY Quotient, GeometryAssumption
  <2>2. h * SectorSize + 0 = UserSpace
    BY <1>1, GeometryAssumption
  <2> QED BY <2>1, <2>2
<1>4. l \in Nat \ {0} /\ l * SectorSize \in Nat
  BY Areas, GeometryAssumption
<1>5. Len(Image) <= l * SectorSize
  <2> DEFINE n == FilePages - 1   d == n \div SectorSize
  <2>1. n \in Nat /\ Len(Image) <= n + 1
    BY ImageType, RemoteAssumption
  <2>2. n = SectorSize * d + (n % SectorSize) /\ n % SectorSize \in 0 .. SectorSize - 1
        /\ d \in Nat
    BY ONLY QuotientAndRemainder, <2>1, GeometryAssumption
  <2>3. l = d + 1
    BY DEF LastSector
  <2>4. (d + 1) * SectorSize = SectorSize * d + SectorSize
    BY <2>2, GeometryAssumption
  <2> HIDE DEF d, n, l
  <2>5. n < l * SectorSize
    BY <2>2, <2>3, <2>4, GeometryAssumption
  <2> QED BY <1>4, <2>1, <2>5, ImageType
<1>6. LastSector + 1 <= MaxSectors("right")
  BY MaxSectorsType, Areas DEF FileFits
<1>7. UserSpaceOf("right") = UserSpace
  BY DEF UserSpaceOf
<1>8. CASE setup.fallback /\ setup.efinix
  <2>1. StartRight = 0 /\ ~HasBootBlock(setup)
    BY <1>8 DEF StartRight, StartAddress, HasBootBlock
  <2>2. l <= h
    BY <1>3, <1>6, <1>7, <2>1 DEF MaxSectors
  <2>3. l * SectorSize <= h * SectorSize
    BY <1>4, <2>2, GeometryAssumption
  <2> QED BY <1>1, <1>4, <1>5, <2>1, <2>3, Areas, GeometryAssumption
<1>9. CASE setup.fallback /\ ~setup.efinix
  <2>1. StartRight = SectorSize /\ HasBootBlock(setup)
    BY <1>9 DEF StartRight, StartAddress, HasBootBlock
  <2>2. l <= h - 1
    BY <1>3, <1>6, <1>7, <2>1 DEF MaxSectors, StartRight
  <2>3. l * SectorSize <= (h - 1) * SectorSize
    BY <1>4, <2>2, GeometryAssumption
  <2>4. SectorSize % SectorSize = 0
    BY GeometryAssumption
  <2>5. (h - 1) * SectorSize = SectorSize * h - SectorSize
    BY GeometryAssumption
  <2> QED BY <1>1, <1>4, <1>5, <2>1, <2>3, <2>4, <2>5, Areas, GeometryAssumption
<1>10. CASE ~setup.fallback
  <2>1. StartRight = UserSpace
    BY <1>7, <1>10 DEF StartRight, StartAddress
  <2>2. l <= h
    <3>1. MaxSectors("right") \in {h, h - 1}
      BY <1>3, <1>7 DEF MaxSectors
    <3> QED BY <1>4, <1>6, <3>1
  <2>3. l * SectorSize <= h * SectorSize
    BY <1>4, <2>2, GeometryAssumption
  <2>4. SectorSize * h >= SectorSize
    BY <1>2, GeometryAssumption
  <2> QED BY <1>1, <1>4, <1>5, <2>1, <2>3, <2>4, Areas, GeometryAssumption
<1> QED BY <1>8, <1>9, <1>10

\* Where the board is in a call, in which nothing was repeated.
LEMMA PlaceInCall ==
  ASSUME TypeInv, Lockstep, Board, repeated = 0, pc \notin Final
  PROVE  LET m == Len(toBoard)  n == Len(Datagrams)
         IN /\ m \in 1 .. n /\ n \in 1 .. 3 /\ Len(toBoard') = m - 1
            /\ Head(toBoard) = Datagrams[1 + n - m]
            /\ Head(toBoard).op = AskedOp \/ m > 1
            /\ awaiting /\ toHost = <<>>
<1>1. toBoard # <<>> /\ toBoard' = Tail(toBoard) /\ toBoard \in Seq(Requests)
  BY BoardAnswers DEF TypeInv, TypeOK
<1>2. awaiting /\ toHost = <<>> /\ IsSuffix(toBoard, Datagrams)
  BY <1>1 DEF Lockstep, TypeInv, TypeOK
<1>3. /\ Len(toBoard) \in Nat \ {0} /\ Head(toBoard) = toBoard[1]
      /\ Len(toBoard') = Len(toBoard) - 1
  BY <1>1, QueueParts
<1>4. Len(Datagrams) \in 1 .. 3 /\ Datagrams[Len(Datagrams)].op = AskedOp
  BY DatagramsShape
<1>5. /\ Len(toBoard) <= Len(Datagrams)
      /\ toBoard[1] = Datagrams[1 + Len(Datagrams) - Len(toBoard)]
  BY <1>2, <1>3 DEF IsSuffix
<1>6. CASE Len(toBoard) = 1
  <2>1. 1 + Len(Datagrams) - Len(toBoard) = Len(Datagrams)
    BY <1>4, <1>6
  <2> QED BY <1>2, <1>3, <1>4, <1>5, <1>6, <2>1
<1>7. CASE Len(toBoard) # 1
  BY <1>2, <1>3, <1>4, <1>5, <1>7
<1> QED BY <1>6, <1>7

\* The address that a call names first.
Target ==
  CASE pc = "erase" -> StartRight + index * SectorSize
    [] pc \in {"program", "compare"} -> StartRight + index
    [] OTHER -> 0

\* What the datagram served is, by its operation.
LEMMA ServedDatagram ==
  ASSUME TypeInv, Lockstep, Board, repeated = 0, pc \notin Final
  PROVE  LET m == Len(toBoard)  n == Len(Datagrams)  r == Head(toBoard)
         IN /\ r.op = "setAddr" => m = n /\ r.at = Target
            /\ r.op = "erase" => m = 2 /\ n = 3 /\ pc \in {"eraseBoot", "erase"}
            /\ r.op = "program" =>
                 /\ m = 2 /\ n = 3 /\ pc \in {"writeBoot", "program"}
                 /\ r.page = IF pc = "writeBoot" THEN BootPage("right") ELSE Image[index + 1]
            /\ r.op \notin {"setAddr", "erase", "program"} => m = 1 /\ r.op = AskedOp
            /\ pc \in {"eraseBoot", "writeBoot", "erase", "program"} => n = 3
            /\ pc \in {"checkBoot", "recheckBoot", "verifyBoot", "compare"} => n = 2
<1> DEFINE m == Len(toBoard)  n == Len(Datagrams)
<1>1. /\ m \in 1 .. n /\ n \in 1 .. 3 /\ Head(toBoard) = Datagrams[1 + n - m]
      /\ Head(toBoard).op = AskedOp \/ m > 1
  BY PlaceInCall
<1>2. pc \notin BeforeId => flash_id = "right" /\ Start = StartRight
  BY DEF Lockstep, Start, StartRight
<1>3. AskedOp \notin {"setAddr", "erase", "program"}
  BY DEF AskedOp
<1>4. CASE pc \in BeforeId
  <2>1. Datagrams = <<Order(AskedOp)>>
    BY <1>4, DatagramsOf DEF BeforeId, AskedOp
  <2> QED BY <1>1, <1>3, <1>4, <2>1 DEF Order, Request, BeforeId
<1>5. CASE pc \in {"checkBoot", "recheckBoot", "verifyBoot", "compare"}
  <2>1. Datagrams = ReadPage(Target)
    BY <1>2, <1>5, DatagramsOf DEF Target, BeforeId
  <2>2. n = 2 /\ Datagrams[1] = Request("setAddr", Target, Erased) /\ Datagrams[2] = Order("readPage")
    BY <2>1 DEF ReadPage
  <2> HIDE DEF m, n
  <2>3. \/ m = 2 /\ Head(toBoard) = Request("setAddr", Target, Erased)
        \/ m = 1 /\ Head(toBoard) = Order("readPage")
    BY <1>1, <2>2
  <2> QED BY <1>5, <2>2, <2>3 DEF Order, Request, AskedOp, m, n
<1>6. CASE pc \in {"eraseBoot", "erase"}
  <2>1. Datagrams = EraseSector(Target)
    BY <1>2, <1>6, DatagramsOf DEF Target, BeforeId
  <2>2. /\ n = 3 /\ Datagrams[1] = Request("setAddr", Target, Erased)
        /\ Datagrams[2] = Order("erase") /\ Datagrams[3] = Order("readAddr")
    BY <2>1 DEF EraseSector
  <2> HIDE DEF m, n
  <2>3. \/ m = 3 /\ Head(toBoard) = Request("setAddr", Target, Erased)
        \/ m = 2 /\ Head(toBoard) = Order("erase")
        \/ m = 1 /\ Head(toBoard) = Order("readAddr")
    BY <1>1, <2>2
  <2> QED BY <1>6, <2>2, <2>3 DEF Order, Request, AskedOp, m, n
<1>7. CASE pc \in {"writeBoot", "program"}
  <2> DEFINE page == IF pc = "writeBoot" THEN BootPage("right") ELSE Image[index + 1]
  <2>1. Datagrams = WritePage(Target, page)
    BY <1>2, <1>7, DatagramsOf DEF Target, BeforeId
  <2> HIDE DEF page
  <2>2. /\ n = 3 /\ Datagrams[1] = Request("setAddr", Target, Erased)
        /\ Datagrams[2] = Request("program", 0, page) /\ Datagrams[3] = Order("readAddr")
    BY <2>1 DEF WritePage
  <2> HIDE DEF m, n
  <2>3. \/ m = 3 /\ Head(toBoard) = Request("setAddr", Target, Erased)
        \/ m = 2 /\ Head(toBoard) = Request("program", 0, page)
        \/ m = 1 /\ Head(toBoard) = Order("readAddr")
    BY <1>1, <2>2
  <2>4. Head(toBoard).op = "program" => m = 2 /\ Head(toBoard).page = page
    BY <2>3 DEF Order, Request
  <2> QED BY <1>7, <2>2, <2>3, <2>4 DEF Order, Request, AskedOp, m, n, page
<1> QED BY <1>4, <1>5, <1>6, <1>7 DEF TypeInv, TypeOK, BeforeId, Final

\* How many datagrams a call has.
LEMMA CallLength ==
  /\ pc \in {"eraseBoot", "writeBoot", "erase", "program"} => Len(Datagrams) = 3
  /\ pc \in {"checkBoot", "recheckBoot", "verifyBoot", "compare"} => Len(Datagrams) = 2
<1>1. \A a, page : /\ Len(ReadPage(a)) = 2
                   /\ Len(WritePage(a, page)) = 3 /\ Len(EraseSector(a)) = 3
  BY DEF ReadPage, WritePage, EraseSector
<1> QED BY <1>1, DatagramsOf

\* The address of a call is one of the chip, behind the boot block.
LEMMA TargetFits ==
  ASSUME TypeInv, FileFits
  PROVE  /\ Target \in Addresses /\ Decode(Target) = Target
         /\ pc = "erase" => Target % SectorSize = 0 /\ Target + SectorSize <= FlashSize
         /\ HasBootBlock(setup) /\ pc \in {"erase", "program", "compare"} => Target >= SectorSize
         /\ \A i \in 0 .. Len(Image) - 1 : StartRight + i \in Addresses
<1>1. /\ Len(Image) \in Nat /\ StartRight \in Nat /\ LastSector \in Nat
      /\ StartRight + Len(Image) <= FlashSize
      /\ HasBootBlock(setup) => StartRight >= SectorSize
      /\ FlashSize \in Nat \ {0}
  <2>1. (LastSector + 1) * SectorSize \in Nat
    BY Areas, GeometryAssumption
  <2> QED BY <2>1, AreaFits, ImageType, Areas, ChipType
<1>2. \A i \in 0 .. Len(Image) - 1 : StartRight + i \in Addresses
  BY <1>1 DEF Addresses
<1>3. \A a \in Addresses : Decode(a) = a
  BY <1>1 DEF Addresses, Decode
<1>4. CASE pc = "erase"
  <2>1. index \in Nat /\ index + 1 <= LastSector + 1 /\ Target = StartRight + index * SectorSize
    BY <1>1, <1>4 DEF TypeInv, TypeOK, Target
  <2>2. (index + 1) * SectorSize <= (LastSector + 1) * SectorSize
    BY <1>1, <2>1, GeometryAssumption
  <2>3. /\ (index + 1) * SectorSize = index * SectorSize + SectorSize
        /\ index * SectorSize \in Nat /\ (LastSector + 1) * SectorSize \in Nat
    BY <1>1, <2>1, GeometryAssumption
  <2>4. StartRight + index * SectorSize + SectorSize <= FlashSize
    BY <1>1, <2>2, <2>3, AreaFits, GeometryAssumption
  <2>5. (StartRight + index * SectorSize) % SectorSize = 0
    <3>1. PICK q \in Nat : StartRight = SectorSize * q
      BY MultipleIsProduct, AreaFits, GeometryAssumption
    <3>2. StartRight + index * SectorSize = SectorSize * (q + index) /\ q + index \in Nat
      BY <2>1, <3>1, GeometryAssumption
    <3> QED BY <3>2, ProductIsMultiple, GeometryAssumption
  <2>6. Target \in Addresses
    BY <1>1, <2>1, <2>3, <2>4, GeometryAssumption DEF Addresses
  <2>7. HasBootBlock(setup) => Target >= SectorSize
    BY <1>1, <2>1, <2>3, GeometryAssumption
  <2> QED BY <1>2, <1>3, <1>4, <2>1, <2>4, <2>5, <2>6, <2>7
<1>5. CASE pc \in {"program", "compare"}
  <2>1. index \in 0 .. Len(Image) - 1 /\ Target = StartRight + index
    BY <1>1, <1>5 DEF TypeInv, TypeOK, Target
  <2>2. Target \in Addresses
    BY <1>2, <2>1
  <2>3. HasBootBlock(setup) => Target >= SectorSize
    BY <1>1, <2>1, GeometryAssumption
  <2> QED BY <1>2, <1>3, <1>5, <2>2, <2>3
<1>6. CASE pc \notin {"erase", "program", "compare"}
  <2>1. Target = 0
    BY <1>6 DEF Target
  <2> QED BY <1>2, <1>3, <1>6, <2>1, Areas
<1> QED BY <1>4, <1>5, <1>6

\* Nothing was lost or repeated, the file fits, and the boot block, where there
\* is one, is valid or to be repaired.
Quiet ==
  /\ lost = 0 /\ repeated = 0 /\ FileFits
  /\ HasBootBlock(setup) => setup.boot \/ setup.fix

\* The second of three datagrams is served, and the sectors or pages done then.
Served == awaiting /\ Len(toBoard) <= 1
Ahead  == IF Served THEN index + 1 ELSE index

BootState ==
  /\ pc \in {"checkBoot", "verifyBoot"} \cup Repairing => HasBootBlock(setup)
  /\ pc = "eraseBoot" /\ Served => flash[0] = Erased
  /\ pc = "writeBoot" => flash[0] = IF Served THEN BootPage("right") ELSE Erased
  /\ HasBootBlock(setup) /\ (pc \in {"recheckBoot"} \cup Writing \/ (pc \in Preparing /\ setup.boot))
       => flash[0] = BootPage("right")

FileState ==
  /\ pc = "erase" =>
       \A i \in 0 .. Ahead * SectorSize - 1 : flash[StartRight + i] = Erased
  /\ pc = "program" =>
       \A i \in 0 .. Len(Image) - 1 :
         flash[StartRight + i] = IF i < Ahead THEN Image[i + 1] ELSE Erased
  /\ pc \in {"verifyBoot", "compare"} =>
       \A i \in 0 .. Len(Image) - 1 : flash[StartRight + i] = Image[i + 1]

\* Once the address is served, the register holds it until it is used.
Pointer ==
  pc \notin BeforeId \cup Final /\ awaiting /\ Len(toBoard) = Len(Datagrams) - 1
    => reg = Target

Answered ==
  toHost # <<>> =>
    /\ pc \in {"checkBoot", "recheckBoot", "verifyBoot"} => Head(toHost).page = flash[0]
    /\ pc = "compare" => Head(toHost).page = flash[StartRight + index]

Progress ==
  Quiet => /\ pc \notin {"failed", "aborted"}
           /\ BootState /\ FileState /\ Pointer /\ Answered

LEMMA ProgressInit == Init => Progress
BY Areas DEF Init, Progress, Repairing, BootState, FileState, Pointer, Answered, BeforeId, Preparing, Writing

LEMMA ProgressSend ==
  ASSUME TypeInv, Lockstep, Progress, Send
  PROVE  Progress'
<1> SUFFICES ASSUME Quiet PROVE Progress'
  BY DEF Send, wireVars, Progress, Quiet, FileFits, LastSector, MaxSectors, HasBootBlock,
         StartAddress, UserSpaceOf
<1>1. pc \notin Final /\ toBoard = <<>> /\ toHost = <<>> /\ ~awaiting /\ awaiting'
  BY DEF Send, Lockstep, Quiet
<1>2. UNCHANGED <<setup, pc, index, flash_id, flash, toHost>>
  BY DEF Send, boardVars
<1>3. Len(toBoard') = Len(Datagrams) /\ Datagrams' = Datagrams /\ Len(Datagrams) \in Nat
  <2>1. Datagrams \in Seq(Requests)
    BY <1>1, DatagramsType
  <2>2. toBoard' = Datagrams
    BY <1>1, <2>1, ConcatEmptySeq DEF Send
  <2> QED BY <1>2, <2>1, <2>2, SameCall
<1>4. ~Served /\ (pc \in {"eraseBoot", "writeBoot", "erase", "program"} => ~Served')
  BY <1>1, <1>3, CallLength DEF Served
<1>5. BootState'
  BY <1>2, <1>4 DEF BootState, Progress, BootPage, UserSpaceOf, HasBootBlock
<1>6. FileState'
  BY <1>2, <1>4 DEF FileState, Progress, Ahead, StartRight, StartAddress, UserSpaceOf
<1>7. Pointer' /\ Answered'
  BY <1>1, <1>2, <1>3 DEF Pointer, Answered
<1> QED BY <1>2, <1>5, <1>6, <1>7 DEF Progress

\* An answer is received when all of its call is done.
LEMMA ProgressReceive ==
  ASSUME TypeInv, Lockstep, Progress, Host, ~Send
  PROVE  Progress'
<1>1. /\ UNCHANGED <<setup, flash, lost, repeated>>
      /\ ~awaiting' /\ awaiting
  BY DEF Host, ScanTimeout, ReceiveCookie, ReceiveName, ReceiveId, ReceiveBootPage, BootErased,
         BootWritten, SectorDone, PageDone, ReceivePage, Synchronise, Receive, boardVars, wireVars
<1> SUFFICES ASSUME Quiet PROVE Progress'
  BY <1>1 DEF Progress, Quiet, FileFits, LastSector, MaxSectors, HasBootBlock,
              StartAddress, UserSpaceOf
<1>2. ~Served' /\ Ahead' = index' /\ index \in Nat /\ index' \in Nat
  <2>1. index' \in Nat
    BY TypeNext DEF Next, TypeInv, TypeOK
  <2>2. index \in Nat
    BY DEF TypeInv, TypeOK
  <2>3. ~Served'
    BY <1>1 DEF Served
  <2>4. Ahead' = index'
    BY <2>3, Zenon DEF Ahead
  <2> QED BY <2>1, <2>2, <2>3, <2>4, Zenon
<1>3. CASE ScanTimeout
  BY <1>3 DEF ScanTimeout, Progress, BootState, FileState, Pointer, Answered, Final, BeforeId,
              Preparing, Repairing, Writing
<1>4. CASE ~ScanTimeout
  <2>1. Receive /\ pc \notin Final
    BY <1>4, ReceiveSteps DEF Host, ReceiveCookie, ReceiveName, ReceiveId, ReceiveBootPage,
             BootErased, BootWritten, SectorDone, PageDone, ReceivePage, Final, ScanTimeout
  <2>2. toBoard = <<>> /\ Len(toHost) = 1 /\ Head(toHost).kind = AwaitedKind /\ toHost # <<>>
    BY <2>1 DEF Receive, Lockstep, Quiet
  <2>3. toHost' = <<>>
    BY <2>1, <2>2, OneLeft DEF Receive, TypeInv, TypeOK
  <2>4. Pointer' /\ Answered'
    BY <1>1, <2>3 DEF Pointer, Answered
  <2>5. Served /\ Ahead = index + 1
    BY <1>1, <2>2 DEF Served, Ahead
  <2>6. pc \notin BeforeId => flash_id = "right"
    BY <2>1 DEF Lockstep, Quiet
  <2>7. Programming("right") = "erase"
    BY Areas, MaxSectorsType DEF Programming, Quiet, FileFits
  <2>8. BootPage("right")' = BootPage("right") /\ StartRight' = StartRight
        /\ HasBootBlock(setup)' = HasBootBlock(setup)
    BY <1>1 DEF BootPage, UserSpaceOf, StartRight, StartAddress, HasBootBlock
  <2>9. pc' \notin {"failed", "aborted"} /\ BootState' /\ FileState'
    <3> USE DEF BeforeId, Preparing, Repairing, Writing
    <3>1. CASE ReceiveCookie \/ ReceiveName
      <4>1. pc \in {"scan", "name"} /\ pc' \in {"name", "id", "notFound"}
        BY <2>2, <3>1 DEF ReceiveCookie, ReceiveName, AwaitedKind, TooShort, Length
      <4> QED BY <1>1, <2>8, <4>1 DEF BootState, FileState, Progress
    <3>2. CASE ReceiveId
      <4>1. pc = "id" /\ pc' = IF HasBootBlock(setup) THEN "checkBoot" ELSE "erase"
        BY <2>2, <2>7, <3>2 DEF ReceiveId, AwaitedKind
      <4>2. index' = 0 /\ Ahead' * SectorSize = 0
        BY <1>2, <3>2, <4>1, GeometryAssumption DEF ReceiveId, TypeInv, CounterReset
      <4>3. 0 .. Ahead' * SectorSize - 1 = {}
        BY <4>2
      <4> QED BY <1>1, <2>8, <4>1, <4>3 DEF BootState, FileState, Progress
    <3>3. CASE ReceiveBootPage
      <4>1. pc \in {"checkBoot", "recheckBoot", "verifyBoot"} /\ index' = index /\ index = 0
        BY <3>3 DEF ReceiveBootPage, TypeInv, CounterReset, Repairing
      <4>2. ~TooShort(256) /\ Head(toHost).page = flash[0] /\ flash_id = "right"
        BY <2>2, <2>6, <4>1 DEF TooShort, Length, AwaitedKind, Answered, Progress
      <4>3. BootPageOK <=> flash[0] = BootPage("right")
        BY <4>2 DEF BootPageOK
      <4>4. \/ pc' = "erase" /\ flash[0] = BootPage("right")
            \/ pc = "verifyBoot" /\ pc' = "compare" /\ flash[0] = BootPage("right")
            \/ pc = "checkBoot" /\ pc' = "eraseBoot"
            \/ pc' = "failed" /\ flash[0] # BootPage("right") /\ (pc # "checkBoot" \/ ~setup.fix)
        BY <2>7, <3>3, <4>1, <4>2, <4>3 DEF ReceiveBootPage
      <4>8. HasBootBlock(setup)
        BY <4>1 DEF Progress, BootState, Repairing
      <4>5. pc' # "failed"
        <5>1. pc \in {"recheckBoot", "verifyBoot"} => flash[0] = BootPage("right")
          BY <4>8 DEF BootState, Progress, Served
        <5>2. pc = "checkBoot" /\ setup.boot => flash[0] = BootPage("right")
          BY <4>8 DEF BootState, Progress
        <5>3. setup.boot \/ setup.fix
          BY <4>8 DEF Quiet
        <5> QED BY <4>1, <4>4, <5>1, <5>2, <5>3
      <4>6. Ahead' * SectorSize = 0
        BY <1>2, <4>1, GeometryAssumption
      <4>7. 0 .. Ahead' * SectorSize - 1 = {}
        BY <4>6
      <4> QED BY <1>1, <1>2, <2>8, <4>1, <4>4, <4>5, <4>7 DEF BootState, FileState, Progress
    <3>4. CASE BootErased \/ BootWritten
      <4>1. \/ pc = "eraseBoot" /\ pc' = "writeBoot"
            \/ pc = "writeBoot" /\ pc' = "recheckBoot"
        BY <3>4 DEF BootErased, BootWritten, Synchronise
      <4> QED BY <1>1, <1>2, <2>5, <2>8, <4>1 DEF BootState, FileState, Progress
    <3>5. CASE SectorDone
      <4>1. pc = "erase" /\ \/ pc' = "erase" /\ index' = index + 1
                            \/ pc' = "program" /\ index' = 0 /\ index + 1 > LastSector
        BY <1>2, <3>5, Areas DEF SectorDone, Synchronise, MoreSectors
      <4>2. \A i \in 0 .. (index + 1) * SectorSize - 1 : flash[StartRight + i] = Erased
        BY <2>5, <4>1 DEF FileState, Progress
      <4>3. ASSUME pc' = "program", NEW i \in 0 .. Len(Image) - 1
            PROVE  flash[StartRight + i] = Erased
        <5>1. index = LastSector
          BY <1>2, <4>1, <4>3, Areas DEF TypeInv, TypeOK
        <5>2. Len(Image) <= (index + 1) * SectorSize /\ (index + 1) * SectorSize \in Nat
          BY <1>2, <5>1, AreaFits, GeometryAssumption DEF Quiet
        <5>3. i \in 0 .. (index + 1) * SectorSize - 1
          BY <5>2, ImageType
        <5> QED BY <4>2, <5>3
      <4>4. BootState'
        BY <1>1, <2>8, <4>1 DEF BootState, Progress, Served
      <4>5. FileState'
        BY <1>1, <1>2, <2>8, <4>1, <4>2, <4>3 DEF FileState
      <4> QED BY <4>1, <4>4, <4>5
    <3>6. CASE PageDone
      <4>1. pc = "program" /\ \/ pc' = "program" /\ index' = index + 1
                              \/ pc' = "compare" /\ index + 1 >= Len(Image)
                              \/ /\ pc' = "verifyBoot" /\ HasBootBlock(setup)
                                 /\ index + 1 >= Len(Image)
        BY <1>2, <3>6, ImageType DEF PageDone, Synchronise
      <4>2. \A i \in 0 .. Len(Image) - 1 :
              flash[StartRight + i] = IF i < index + 1 THEN Image[i + 1] ELSE Erased
        BY <2>5, <4>1 DEF FileState, Progress
      <4>3. \A i \in 0 .. Len(Image) - 1 : pc' # "program" => i < index + 1
        BY <1>2, <4>1, ImageType
      <4>4. BootState'
        BY <1>1, <2>8, <4>1 DEF BootState, Progress, Served
      <4>5. FileState'
        BY <1>1, <1>2, <2>8, <4>1, <4>2, <4>3 DEF FileState
      <4> QED BY <4>1, <4>4, <4>5
    <3>7. CASE ReceivePage
      <4>1. pc = "compare" /\ index \in 0 .. Len(Image) - 1
        BY <1>2, <3>7, ImageType DEF ReceivePage, TypeInv, TypeOK
      <4>2. ~TooShort(256) /\ PageEqual
        BY <2>2, <4>1 DEF TooShort, Length, AwaitedKind, Answered, Progress, FileState, PageEqual
      <4>3. pc' \in {"compare", "verified"}
        BY <3>7, <4>2 DEF ReceivePage
      <4> QED BY <1>1, <1>2, <2>8, <4>1, <4>3 DEF BootState, FileState, Progress
    <3> QED BY <1>4, <3>1, <3>2, <3>3, <3>4, <3>5, <3>6, <3>7, <2>1 DEF Host, Receive
  <2> QED BY <2>4, <2>9 DEF Progress
<1> QED BY <1>3, <1>4

\* Where the board is when it erases, programs or reads, and in which state it
\* leaves the call.
LEMMA BoardInCall ==
  ASSUME TypeInv, Lockstep, Progress, Quiet, Board, pc \notin Final
  PROVE  /\ Datagrams' = Datagrams /\ Len(toBoard') = Len(toBoard) - 1
         /\ Len(toBoard) \in 1 .. 3 /\ awaiting /\ awaiting' /\ toHost = <<>>
         /\ UNCHANGED <<setup, pc, index, flash_id, lost, repeated>>
         /\ Head(toBoard).op \in {"erase", "program", "readPage"} => reg = Target
<1>1. repeated = 0
  BY DEF Quiet
<1>2. /\ Len(toBoard) \in 1 .. Len(Datagrams) /\ Len(Datagrams) \in 1 .. 3
      /\ Len(toBoard') = Len(toBoard) - 1 /\ awaiting /\ toHost = <<>>
  BY <1>1, PlaceInCall
<1>3. UNCHANGED <<setup, pc, index, flash_id, awaiting, lost, repeated>>
  BY BoardAnswers DEF hostVars, wireVars
<1>4. Head(toBoard).op \in {"erase", "program"} =>
        Len(toBoard) = Len(Datagrams) - 1 /\ pc \notin BeforeId
  <2>1. Head(toBoard).op \in {"erase", "program"} =>
          /\ Len(toBoard) = 2 /\ Len(Datagrams) = 3
          /\ pc \in {"eraseBoot", "erase", "writeBoot", "program"}
    BY <1>1, ServedDatagram
  <2>2. 3 - 1 = 2
    OBVIOUS
  <2> QED BY <2>1, <2>2, Zenon DEF BeforeId
<1>5. Head(toBoard).op = "readPage" => Len(toBoard) = Len(Datagrams) - 1 /\ pc \notin BeforeId
  <2> SUFFICES ASSUME Head(toBoard).op = "readPage"
               PROVE  Len(toBoard) = Len(Datagrams) - 1 /\ pc \notin BeforeId
    OBVIOUS
  <2>1. Len(toBoard) = 1 /\ AskedOp = "readPage"
    BY <1>1, ServedDatagram
  <2>2. pc \in {"checkBoot", "recheckBoot", "verifyBoot", "compare"}
    BY <2>1 DEF AskedOp
  <2> QED BY <2>1, <2>2, CallLength DEF BeforeId
<1>6. Head(toBoard).op \in {"erase", "program", "readPage"} => reg = Target
  BY <1>2, <1>4, <1>5 DEF Pointer, Progress
<1>7. Datagrams' = Datagrams
  BY <1>3, SameCall
<1>8. Len(toBoard) \in 1 .. 3
  <2>1. \A n \in 1 .. 3 : \A m \in 1 .. n : m \in 1 .. 3
    OBVIOUS
  <2> QED BY <1>2, <2>1, Zenon
<1> QED BY <1>2, <1>3, <1>6, <1>7, <1>8

\* An address or a request for an answer that is served.
LEMMA ProgressTransfer ==
  ASSUME TypeInv, Lockstep, Progress, Quiet, pc \notin Final, Board, ~Erase, ~ProgramPage
  PROVE  Progress'
<1>1. /\ Datagrams' = Datagrams /\ Len(toBoard') = Len(toBoard) - 1
      /\ Len(toBoard) \in 1 .. 3 /\ awaiting /\ awaiting' /\ toHost = <<>>
      /\ UNCHANGED <<setup, pc, index, flash_id, lost, repeated>>
  BY BoardInCall
<1>2. flash' = flash
  BY DEF Board, SetAddress, SendPage, Reply, boardVars
<1>3. pc \in {"eraseBoot", "writeBoot", "erase", "program"} => (Served' <=> Served)
  <2>1. Head(toBoard).op = "setAddr" => Len(toBoard) = Len(Datagrams)
    BY ServedDatagram DEF Quiet
  <2>2. Head(toBoard).op # "setAddr" => Len(toBoard) = 1
    <3>1. Head(toBoard).op \notin {"erase", "program"}
      BY DEF Board, SetAddress, SendPage, Reply, Serve, Erase, ProgramPage
    <3> QED BY <3>1, ServedDatagram DEF Quiet
  <2>3. SUFFICES ASSUME pc \in {"eraseBoot", "writeBoot", "erase", "program"}
                 PROVE  Served' <=> Served
    OBVIOUS
  <2>4. Len(toBoard) \in {1, 3}
    BY <2>1, <2>2, <2>3, CallLength
  <2>5. Len(toBoard) <= 1 <=> Len(toBoard') <= 1
    BY <1>1, <2>4
  <2> QED BY <1>1, <2>5 DEF Served
<1>4. BootState'
  BY <1>1, <1>2, <1>3 DEF BootState, Progress, BootPage, UserSpaceOf, HasBootBlock
<1>5. FileState'
  BY <1>1, <1>2, <1>3 DEF FileState, Progress, Ahead, StartRight, StartAddress, UserSpaceOf
<1>6. Pointer'
  <2> SUFFICES ASSUME pc \notin BeforeId, Len(toBoard') = Len(Datagrams) - 1
               PROVE  reg' = Target'
    BY <1>1 DEF Pointer
  <2>1. Len(Datagrams) \in {2, 3}
    BY CallLength DEF BeforeId, TypeInv, TypeOK, Final
  <2>2. Len(toBoard) = Len(Datagrams)
    BY <1>1, <2>1
  <2>3. Head(toBoard).op = "setAddr" /\ Head(toBoard).at = Target
    BY <2>1, <2>2, ServedDatagram DEF Quiet
  <2>4. reg' = Decode(Target)
    BY <2>3 DEF Board, SetAddress, SendPage, Reply, Serve, Erase, ProgramPage
  <2>5. Decode(Target) = Target /\ Target' = Target
    BY <1>1, TargetFits DEF Quiet, Target, StartRight, StartAddress, UserSpaceOf
  <2> QED BY <2>4, <2>5
<1>7. Answered'
  <2>1. CASE SendPage
    <3>1. reg = Target
      BY <2>1, BoardInCall DEF SendPage, Serve
    <3>2. toHost' = <<Answer("page", flash[Target])>>
      BY <1>1, <2>1, <3>1 DEF SendPage
    <3>3. Head(toHost').page = flash[Target]
      BY <3>2 DEF Answer
    <3> QED BY <1>1, <1>2, <3>3 DEF Answered, Target, StartRight, StartAddress, UserSpaceOf
  <2>2. CASE SetAddress
    BY <1>1, <2>2 DEF SetAddress, Answered
  <2>3. CASE Head(toBoard).op \in {"readCookie", "readName", "readId", "readAddr"}
    <3>1. AskedOp # "readPage"
      BY <2>3, ServedDatagram DEF Quiet
    <3> QED BY <1>1, <3>1 DEF Answered, AskedOp
  <2> QED BY <2>1, <2>2, <2>3 DEF Board, Reply, Serve
<1> QED BY <1>1, <1>4, <1>5, <1>6, <1>7 DEF Progress

\* A sector that is erased: the boot block's, or the next one of the file.
LEMMA ProgressErase ==
  ASSUME TypeInv, Lockstep, Progress, Quiet, pc \notin Final, Erase
  PROVE  Progress'
<1>1. /\ Datagrams' = Datagrams /\ Len(toBoard') = Len(toBoard) - 1
      /\ Len(toBoard) \in 1 .. 3 /\ awaiting /\ awaiting' /\ toHost = <<>> /\ reg = Target
      /\ UNCHANGED <<setup, pc, index, flash_id, lost, repeated, toHost, reg>>
  BY BoardInCall DEF Board, Erase, Serve
<1>2. Len(toBoard) = 2 /\ Len(Datagrams) = 3 /\ pc \in {"eraseBoot", "erase"}
  BY ServedDatagram DEF Quiet, Board, Erase, Serve
<1>3. ~Served /\ Served' /\ Ahead = index /\ Ahead' = index + 1
  <2>1. ~Served /\ Served'
    BY <1>1, <1>2 DEF Served
  <2> QED BY <1>1, <2>1 DEF Ahead
<1>4. /\ Target \in Addresses /\ Decode(Target) = Target /\ Target % SectorSize = 0
      /\ HasBootBlock(setup) /\ pc = "erase" => Target >= SectorSize
  <2>1. pc = "eraseBoot" => Target = 0 /\ 0 % SectorSize = 0
    BY GeometryAssumption DEF Target
  <2> QED BY <1>2, <2>1, TargetFits DEF Quiet
<1>5. \A x \in Addresses :
        flash'[x] = IF x \in Target .. Target + SectorSize - 1 THEN Erased ELSE flash[x]
  BY <1>1, <1>4, SectorCells DEF Erase, SectorErased
<1>6. UNCHANGED <<BootPage("right"), StartRight, HasBootBlock(setup)>>
  BY <1>1 DEF BootPage, UserSpaceOf, StartRight, StartAddress, HasBootBlock
<1>7. pc = "eraseBoot" => flash'[0] = Erased
  <2>1. pc = "eraseBoot" => Target = 0 /\ 0 \in 0 .. 0 + SectorSize - 1
    BY GeometryAssumption DEF Target
  <2> QED BY <1>5, <2>1, Areas
<1>8. HasBootBlock(setup) /\ pc = "erase" => flash'[0] = flash[0]
  <2>1. HasBootBlock(setup) /\ pc = "erase" => 0 \notin Target .. Target + SectorSize - 1
    BY <1>4, ChipType, GeometryAssumption DEF Addresses
  <2> QED BY <1>5, <2>1, Areas
<1>9. BootState'
  BY <1>1, <1>2, <1>6, <1>7, <1>8
     DEF BootState, Progress, Preparing, BeforeId, Repairing, Writing
<1>10. ASSUME pc = "erase", NEW i \in 0 .. (index + 1) * SectorSize - 1
       PROVE  flash'[StartRight + i] = Erased
  <2>1. index \in Nat /\ Target = StartRight + index * SectorSize /\ StartRight \in Nat
    BY <1>10, Areas DEF TypeInv, TypeOK, Target, StartRight
  <2>2. /\ (index + 1) * SectorSize = index * SectorSize + SectorSize
        /\ index * SectorSize \in Nat
    BY <2>1, GeometryAssumption
  <2>3. StartRight + i \in Addresses
    BY <1>10, <2>1, <2>2, TargetFits, ChipType, GeometryAssumption DEF Quiet, Addresses
  <2>4. CASE i < index * SectorSize
    <3>1. flash[StartRight + i] = Erased
      BY <1>3, <1>10, <2>2, <2>4 DEF FileState, Progress
    <3> QED BY <1>5, <2>3, <3>1
  <2>5. CASE i >= index * SectorSize
    <3>1. StartRight + i \in Target .. Target + SectorSize - 1
      BY <1>10, <2>1, <2>2, <2>5, GeometryAssumption
    <3> QED BY <1>5, <2>3, <3>1
  <2> QED BY <1>10, <2>2, <2>4, <2>5, GeometryAssumption
<1>11. FileState'
  BY <1>1, <1>2, <1>3, <1>6, <1>10 DEF FileState
<1>12. Pointer' /\ Answered'
  BY <1>1, <1>2 DEF Pointer, Answered
<1> QED BY <1>1, <1>2, <1>9, <1>11, <1>12 DEF Progress

\* A page that is programmed into erased cells: the boot block's, or the next
\* one of the file.
LEMMA ProgressProgram ==
  ASSUME TypeInv, Lockstep, Progress, Quiet, pc \notin Final, ProgramPage
  PROVE  Progress'
<1>1. /\ Datagrams' = Datagrams /\ Len(toBoard') = Len(toBoard) - 1
      /\ Len(toBoard) \in 1 .. 3 /\ awaiting /\ awaiting' /\ toHost = <<>> /\ reg = Target
      /\ UNCHANGED <<setup, pc, index, flash_id, lost, repeated, toHost>>
  BY BoardInCall DEF Board, ProgramPage, Serve
<1>2. /\ Len(toBoard) = 2 /\ Len(Datagrams) = 3 /\ pc \in {"writeBoot", "program"}
      /\ Head(toBoard).page = IF pc = "writeBoot" THEN BootPage("right") ELSE Image[index + 1]
  BY ServedDatagram DEF Quiet, Board, ProgramPage, Serve
<1>3. ~Served /\ Served' /\ Ahead = index /\ Ahead' = index + 1
  <2>1. ~Served /\ Served'
    BY <1>1, <1>2 DEF Served
  <2> QED BY <1>1, <2>1 DEF Ahead
<1>4. /\ Target \in Addresses
      /\ HasBootBlock(setup) /\ pc = "program" => Target >= SectorSize
      /\ \A i \in 0 .. Len(Image) - 1 : StartRight + i \in Addresses
  BY TargetFits DEF Quiet
<1>5. /\ flash'[Target] = Program(flash[Target], Head(toBoard).page)
      /\ \A x \in Addresses : x # Target => flash'[x] = flash[x]
  BY <1>1, <1>4 DEF ProgramPage, TypeInv, TypeOK, Memory
<1>6. UNCHANGED <<BootPage("right"), StartRight, HasBootBlock(setup)>>
  BY <1>1 DEF BootPage, UserSpaceOf, StartRight, StartAddress, HasBootBlock
<1>7. pc = "writeBoot" => flash'[0] = BootPage("right")
  <2>1. pc = "writeBoot" => Target = 0 /\ flash[0] = Erased
    BY <1>3 DEF Target, BootState, Progress
  <2> QED BY <1>2, <1>5, <2>1 DEF Program
<1>8. HasBootBlock(setup) /\ pc = "program" => flash'[0] = flash[0]
  <2>1. HasBootBlock(setup) /\ pc = "program" => 0 # Target
    BY <1>4, GeometryAssumption
  <2> QED BY <1>5, <2>1, Areas
<1>9. BootState'
  BY <1>1, <1>2, <1>3, <1>6, <1>7, <1>8
     DEF BootState, Progress, Preparing, BeforeId, Repairing, Writing
<1>10. ASSUME pc = "program", NEW i \in 0 .. Len(Image) - 1
       PROVE  flash'[StartRight + i] = IF i < index + 1 THEN Image[i + 1] ELSE Erased
  <2>1. /\ index \in Nat /\ Target = StartRight + index /\ StartRight \in Nat
        /\ Len(Image) \in Nat /\ index < Len(Image)
    BY <1>10, Areas, ImageType DEF TypeInv, TypeOK, Target, StartRight
  <2>2. \A j \in 0 .. Len(Image) - 1 :
          flash[StartRight + j] = IF j < index THEN Image[j + 1] ELSE Erased
    BY <1>3, <1>10 DEF FileState, Progress
  <2>3. CASE i = index
    <3>1. flash[Target] = Erased
      BY <2>1, <2>2, <2>3
    <3>2. flash'[Target] = Image[index + 1]
      BY <1>2, <1>5, <1>10, <3>1 DEF Program
    <3> QED BY <2>1, <2>3, <3>2
  <2>4. CASE i # index
    <3>1. StartRight + i # Target /\ (i < index + 1 <=> i < index)
      BY <2>1, <2>4
    <3> QED BY <1>4, <1>5, <2>2, <3>1
  <2> QED BY <2>3, <2>4
<1>11. FileState'
  BY <1>1, <1>2, <1>3, <1>6, <1>10 DEF FileState
<1>12. Pointer' /\ Answered'
  BY <1>1, <1>2 DEF Pointer, Answered
<1> QED BY <1>1, <1>2, <1>9, <1>11, <1>12 DEF Progress

LEMMA ProgressNext == TypeInv /\ Lockstep /\ Progress /\ [Next]_vars => Progress'
<1> SUFFICES ASSUME TypeInv, Lockstep, Progress, [Next]_vars PROVE Progress'
  OBVIOUS
<1>1. CASE Host
  BY <1>1, ProgressSend, ProgressReceive
<1>2. CASE Board
  <2>1. UNCHANGED <<setup, hostVars, wireVars>>
    BY <1>2, BoardAnswers
  <2>2. Quiet' = Quiet
    BY <2>1 DEF Quiet, FileFits, LastSector, MaxSectors, HasBootBlock, StartAddress,
                UserSpaceOf, wireVars
  <2>3. CASE ~Quiet
    BY <2>2, <2>3 DEF Progress
  <2>4. CASE Quiet /\ pc \in Final
    BY <1>2, <2>1, <2>4 DEF Progress, BootState, FileState, Pointer, Answered, Final, BeforeId,
                            Preparing, Repairing, Writing, hostVars
  <2>5. CASE Quiet /\ pc \notin Final
    BY <1>2, <2>5, ProgressTransfer, ProgressErase, ProgressProgram
  <2> QED BY <2>3, <2>4, <2>5
<1>3. CASE Lose \/ Repeat
  <2>1. lost' # 0 \/ repeated' # 0
    BY <1>3 DEF Lose, Repeat, TypeInv, TypeOK
  <2> QED BY <2>1 DEF Progress, Quiet
<1>4. CASE UNCHANGED vars
  <2>1. UNCHANGED <<Quiet, BootState, FileState, Answered, Datagrams, Target>>
    BY <1>4, SameCall
       DEF vars, hostVars, boardVars, wireVars, Quiet, FileFits, LastSector, MaxSectors,
           HasBootBlock, StartAddress, UserSpaceOf, BootState, BootPage, FileState, Served,
           Ahead, StartRight, Answered, Target
  <2> QED BY <1>4, <2>1 DEF vars, hostVars, boardVars, Progress, Pointer
<1> QED BY <1>1, <1>2, <1>3, <1>4 DEF Next

\* A write over a network that does nothing wrong, of a file that fits, fails
\* only at a boot block that is bad and not to be repaired: every sector was
\* erased, every page programmed once into erased cells, and every comparison
\* saw the cells it was made for.
THEOREM RemoteFailsOnlyWithNetwork == Spec => []FailsOnlyWithNetwork
<1>1. TypeInv /\ Progress => FailsOnlyWithNetwork
  <2>1. TypeInv /\ lost + repeated = 0 => lost = 0 /\ repeated = 0
    BY RemoteAssumption DEF TypeInv, TypeOK
  <2> QED BY <2>1 DEF Progress, Quiet, FailsOnlyWithNetwork
<1> QED BY <1>1, TypeInit, TypeNext, LockstepInit, LockstepNext, ProgressInit, ProgressNext,
           PTL DEF Spec

-----------------------------------------------------------------------------
(* What a write without losses may reach *)

\* Where the elements are after others were put behind them.
LEMMA QueueLonger ==
  ASSUME NEW S, NEW q \in Seq(S)
  PROVE  /\ Len(q) \in Nat
         /\ \A r \in Seq(S) :
              /\ Len(r) \in Nat /\ Len(q \o r) = Len(q) + Len(r)
              /\ \A i \in 1 .. Len(q) : (q \o r)[i] = q[i]
              /\ \A i \in 1 .. Len(r) : (q \o r)[Len(q) + i] = r[i]
         /\ \A e \in S :
              /\ Len(Append(q, e)) = Len(q) + 1
              /\ \A i \in 1 .. Len(q) : Append(q, e)[i] = q[i]
              /\ Append(q, e)[Len(q) + 1] = e
<1>1. Len(q) \in Nat
  BY LenProperties
<1>2. ASSUME NEW r \in Seq(S)
      PROVE  /\ Len(r) \in Nat /\ Len(q \o r) = Len(q) + Len(r)
             /\ \A i \in 1 .. Len(q) : (q \o r)[i] = q[i]
             /\ \A i \in 1 .. Len(r) : (q \o r)[Len(q) + i] = r[i]
  <2> DEFINE m == Len(q)  n == Len(r)
  <2>1. /\ m \in Nat /\ n \in Nat /\ Len(q \o r) = m + n
        /\ \A i \in 1 .. m + n : (q \o r)[i] = IF i <= m THEN q[i] ELSE r[i - m]
    BY ConcatProperties, LenProperties
  <2>2. ASSUME NEW i \in 1 .. m PROVE (q \o r)[i] = q[i]
    BY <2>1
  <2>3. ASSUME NEW i \in 1 .. n PROVE (q \o r)[m + i] = r[i]
    <3>1. m + i \in 1 .. m + n /\ ~(m + i <= m) /\ (m + i) - m = i
      BY <2>1
    <3> QED BY <2>1, <3>1
  <2> QED BY <2>1, <2>2, <2>3
<1>3. ASSUME NEW e \in S
      PROVE  /\ Len(Append(q, e)) = Len(q) + 1
             /\ \A i \in 1 .. Len(q) : Append(q, e)[i] = q[i]
             /\ Append(q, e)[Len(q) + 1] = e
  BY <1>1, AppendProperties
<1> QED BY <1>1, <1>2, <1>3

EarlyOps   == {"readCookie", "readName", "readId"}
EarlyKinds == {"cookie", "name", "id"}

\* Before the id is read, only the scan and the opening are on their way.
EarlyOnly ==
  pc \in BeforeId => /\ \A r \in Elements(toBoard) : r.op \in EarlyOps
                     /\ \A a \in Elements(toHost) : a.kind \in EarlyKinds

\* The answer with the id comes before any page, or its request is on its way.
IdComing(host, brd) ==
  \/ \E i \in 1 .. Len(host) :
       host[i].kind = "id" /\ \A j \in 1 .. i : host[j].kind \in EarlyKinds
  \/ /\ \A j \in 1 .. Len(host) : host[j].kind \in EarlyKinds
     /\ \E i \in 1 .. Len(brd) :
          brd[i].op = "readId" /\ \A j \in 1 .. i : brd[j].op \in EarlyOps

LEMMA IdReceived ==
  ASSUME NEW host \in Seq(Answers), NEW brd \in Seq(Requests), IdComing(host, brd), host # <<>>
  PROVE  /\ Head(host).kind \in EarlyKinds
         /\ Head(host).kind # "id" => IdComing(Tail(host), brd)
<1> DEFINE n == Len(host)  t == Tail(host)
<1>1. /\ n \in Nat \ {0} /\ Head(host) = host[1] /\ Len(t) = n - 1
      /\ \A i \in 1 .. n - 1 : t[i] = host[i + 1]
  BY QueueParts
<1> HIDE DEF n, t
<1>2. ASSUME NEW i \in 1 .. n, host[i].kind = "id", \A j \in 1 .. i : host[j].kind \in EarlyKinds
      PROVE  /\ Head(host).kind \in EarlyKinds
             /\ Head(host).kind # "id" => IdComing(t, brd)
  <2>1. 1 \in 1 .. i
    BY <1>1
  <2>2. ASSUME Head(host).kind # "id" PROVE IdComing(t, brd)
    <3>1. i # 1
      BY <1>1, <1>2, <2>2
    <3>2. i - 1 \in 1 .. n - 1 /\ (i - 1) + 1 = i
      BY <1>1, <3>1
    <3>3. t[i - 1] = host[i]
      BY <1>1, <3>2
    <3>4. ASSUME NEW j \in 1 .. i - 1 PROVE t[j].kind \in EarlyKinds
      <4>1. j + 1 \in 1 .. i /\ j \in 1 .. n - 1
        BY <1>1
      <4> QED BY <1>1, <1>2, <4>1
    <3> QED BY <1>1, <1>2, <3>2, <3>3, <3>4 DEF IdComing
  <2> QED BY <1>1, <1>2, <2>1, <2>2
<1>3. ASSUME \A j \in 1 .. n : host[j].kind \in EarlyKinds,
             NEW i \in 1 .. Len(brd), brd[i].op = "readId",
             \A j \in 1 .. i : brd[j].op \in EarlyOps
      PROVE  /\ Head(host).kind \in EarlyKinds
             /\ IdComing(t, brd)
  <2>1. ASSUME NEW j \in 1 .. n - 1 PROVE t[j].kind \in EarlyKinds
    <3>1. j + 1 \in 1 .. n
      BY <1>1
    <3> QED BY <1>1, <1>3, <3>1
  <2> QED BY <1>1, <1>3, <2>1 DEF IdComing
<1> QED BY <1>2, <1>3 DEF IdComing, n, t

LEMMA IdSent ==
  ASSUME NEW host \in Seq(Answers), NEW brd \in Seq(Requests), NEW d \in Seq(Requests)
  PROVE  /\ IdComing(host, brd) => IdComing(host, brd \o d)
         /\ /\ \A r \in Elements(brd \o d) : r.op \in EarlyOps
            /\ \A a \in Elements(host) : a.kind \in EarlyKinds
            /\ \E r \in Elements(d) : r.op = "readId"
            => IdComing(host, brd \o d)
<1> DEFINE n == Len(brd)  m == Len(d)  c == brd \o d
<1>1. /\ n \in Nat /\ m \in Nat /\ Len(c) = n + m
      /\ \A i \in 1 .. n : c[i] = brd[i]
      /\ \A i \in 1 .. m : c[n + i] = d[i]
  BY QueueLonger
<1>2. ASSUME IdComing(host, brd) PROVE IdComing(host, c)
  <2>1. CASE \E i \in 1 .. Len(host) :
               host[i].kind = "id" /\ \A j \in 1 .. i : host[j].kind \in EarlyKinds
    BY <2>1 DEF IdComing
  <2>2. CASE /\ \A j \in 1 .. Len(host) : host[j].kind \in EarlyKinds
             /\ \E i \in 1 .. n : brd[i].op = "readId" /\ \A j \in 1 .. i : brd[j].op \in EarlyOps
    <3>1. PICK i \in 1 .. n : brd[i].op = "readId" /\ \A j \in 1 .. i : brd[j].op \in EarlyOps
      BY <2>2
    <3> HIDE DEF n, m, c
    <3>2. i \in 1 .. Len(c) /\ c[i].op = "readId" /\ \A j \in 1 .. i : c[j].op \in EarlyOps
      BY <1>1, <3>1
    <3> QED BY <2>2, <3>2 DEF IdComing
  <2> QED BY <1>2, <2>1, <2>2 DEF IdComing
<1>3. ASSUME \A r \in Elements(c) : r.op \in EarlyOps,
             \A a \in Elements(host) : a.kind \in EarlyKinds,
             NEW r \in Elements(d), r.op = "readId"
      PROVE  IdComing(host, c)
  <2>1. PICK i \in 1 .. m : r = d[i]
    BY <1>3 DEF Elements
  <2> HIDE DEF n, m, c
  <2>2. n + i \in 1 .. Len(c) /\ c[n + i].op = "readId"
    <3>1. n + i \in 1 .. n + m /\ c[n + i] = d[i]
      BY <1>1
    <3> QED BY <1>1, <1>3, <2>1, <3>1
  <2>3. ASSUME NEW j \in 1 .. n + i PROVE c[j].op \in EarlyOps
    <3>1. j \in 1 .. Len(c)
      BY <1>1, <2>2
    <3> QED BY <1>3, <3>1 DEF Elements
  <2>4. \A j \in 1 .. Len(host) : host[j].kind \in EarlyKinds
    BY <1>3 DEF Elements
  <2> QED BY <2>2, <2>3, <2>4 DEF IdComing
<1> QED BY <1>2, <1>3

LEMMA IdServed ==
  ASSUME NEW host \in Seq(Answers), NEW brd \in Seq(Requests), IdComing(host, brd), brd # <<>>
  PROVE  /\ Head(brd).op \notin EarlyOps => IdComing(host, Tail(brd))
         /\ \A a \in Answers :
              (Head(brd).op \in EarlyOps
                 => a.kind \in EarlyKinds /\ (Head(brd).op = "readId" => a.kind = "id"))
              => IdComing(Append(host, a), Tail(brd))
<1> DEFINE n == Len(brd)  t == Tail(brd)  m == Len(host)
<1>1. /\ n \in Nat \ {0} /\ Head(brd) = brd[1] /\ Len(t) = n - 1
      /\ \A i \in 1 .. n - 1 : t[i] = brd[i + 1]
  BY QueueParts
<1>2. /\ m \in Nat
      /\ \A a \in Answers : /\ Len(Append(host, a)) = m + 1
                            /\ \A i \in 1 .. m : Append(host, a)[i] = host[i]
                            /\ Append(host, a)[m + 1] = a
  BY QueueLonger
<1>3. CASE \E i \in 1 .. m : host[i].kind = "id" /\ \A j \in 1 .. i : host[j].kind \in EarlyKinds
  <2>1. PICK i \in 1 .. m : host[i].kind = "id" /\ \A j \in 1 .. i : host[j].kind \in EarlyKinds
    BY <1>3
  <2>2. ASSUME NEW a \in Answers PROVE IdComing(Append(host, a), t)
    <3> DEFINE h == Append(host, a)
    <3>1. Len(h) = m + 1 /\ \A k \in 1 .. m : h[k] = host[k]
      BY <1>2
    <3> HIDE DEF h, m
    <3>2. i \in 1 .. Len(h) /\ h[i].kind = "id" /\ \A j \in 1 .. i : h[j].kind \in EarlyKinds
      BY <1>2, <2>1, <3>1
    <3> QED BY <3>2 DEF IdComing, h
  <2>3. IdComing(host, t)
    BY <1>3 DEF IdComing
  <2> QED BY <2>2, <2>3
<1>4. CASE /\ \A j \in 1 .. m : host[j].kind \in EarlyKinds
           /\ \E i \in 1 .. n : brd[i].op = "readId" /\ \A j \in 1 .. i : brd[j].op \in EarlyOps
  <2>1. PICK i \in 1 .. n : brd[i].op = "readId" /\ \A j \in 1 .. i : brd[j].op \in EarlyOps
    BY <1>4
  <2>2. Head(brd).op \in EarlyOps
    BY <1>1, <2>1
  <2>3. ASSUME NEW a \in Answers, a.kind \in EarlyKinds, Head(brd).op = "readId" => a.kind = "id"
        PROVE  IdComing(Append(host, a), t)
    <3> DEFINE h == Append(host, a)
    <3>1. Len(h) = m + 1 /\ (\A k \in 1 .. m : h[k] = host[k]) /\ h[m + 1] = a
      BY <1>2
    <3> HIDE DEF h, m, n, t
    <3>2. \A j \in 1 .. Len(h) : h[j].kind \in EarlyKinds
      BY <1>2, <1>4, <2>3, <3>1
    <3>3. CASE i = 1
      <4>1. m + 1 \in 1 .. Len(h) /\ h[m + 1].kind = "id"
        BY <1>1, <1>2, <2>1, <2>3, <3>1, <3>3
      <4>2. \A j \in 1 .. m + 1 : h[j].kind \in EarlyKinds
        BY <3>1, <3>2
      <4> QED BY <4>1, <4>2 DEF IdComing, h
    <3>4. CASE i # 1
      <4>1. i - 1 \in 1 .. Len(t) /\ t[i - 1] = brd[i]
        BY <1>1, <3>4
      <4>2. ASSUME NEW j \in 1 .. i - 1 PROVE t[j].op \in EarlyOps
        <5>1. j + 1 \in 1 .. i /\ j \in 1 .. n - 1
          BY <1>1
        <5> QED BY <1>1, <2>1, <5>1
      <4> QED BY <2>1, <3>2, <4>1, <4>2 DEF IdComing, h
    <3> QED BY <3>3, <3>4
  <2> QED BY <2>2, <2>3
<1> QED BY <1>3, <1>4 DEF IdComing

LEMMA IdRepeated ==
  ASSUME NEW host \in Seq(Answers), NEW brd \in Seq(Requests), IdComing(host, brd)
  PROVE  /\ host # <<>> => IdComing(Twice(host), brd)
         /\ brd # <<>> => IdComing(host, Twice(brd))
<1>1. ASSUME host # <<>> PROVE IdComing(Twice(host), brd)
  <2> DEFINE n == Len(host)  t == Twice(host)
  <2>1. /\ n \in Nat \ {0} /\ Len(t) = n + 1 /\ t[1] = host[1]
        /\ \A i \in 2 .. n + 1 : t[i] = host[i - 1]
    BY <1>1, QueueParts
  <2> HIDE DEF n, t
  <2>2. ASSUME NEW i \in 1 .. n, host[i].kind = "id", \A j \in 1 .. i : host[j].kind \in EarlyKinds
        PROVE  IdComing(t, brd)
    <3>1. i + 1 \in 1 .. Len(t) /\ t[i + 1].kind = "id"
      <4>1. i + 1 \in 2 .. n + 1 /\ (i + 1) - 1 = i
        BY <2>1
      <4> QED BY <2>1, <2>2, <4>1
    <3>2. ASSUME NEW j \in 1 .. i + 1 PROVE t[j].kind \in EarlyKinds
      <4>1. j = 1 \/ (j \in 2 .. n + 1 /\ j - 1 \in 1 .. i)
        BY <2>1
      <4>2. 1 \in 1 .. i
        BY <2>1
      <4> QED BY <2>1, <2>2, <4>1, <4>2
    <3> QED BY <3>1, <3>2 DEF IdComing
  <2>3. ASSUME \A j \in 1 .. n : host[j].kind \in EarlyKinds
        PROVE  \A j \in 1 .. n + 1 : t[j].kind \in EarlyKinds
    <3>1. ASSUME NEW j \in 1 .. n + 1 PROVE t[j].kind \in EarlyKinds
      <4>1. j = 1 \/ (j \in 2 .. n + 1 /\ j - 1 \in 1 .. n)
        BY <2>1
      <4>2. 1 \in 1 .. n
        BY <2>1
      <4> QED BY <2>1, <2>3, <4>1, <4>2
    <3> QED BY <3>1
  <2> QED BY <2>1, <2>2, <2>3 DEF IdComing, n, t
<1>2. ASSUME brd # <<>> PROVE IdComing(host, Twice(brd))
  <2> DEFINE n == Len(brd)  t == Twice(brd)
  <2>1. /\ n \in Nat \ {0} /\ Len(t) = n + 1 /\ t[1] = brd[1]
        /\ \A i \in 2 .. n + 1 : t[i] = brd[i - 1]
    BY <1>2, QueueParts
  <2> HIDE DEF n, t
  <2>2. ASSUME \A j \in 1 .. Len(host) : host[j].kind \in EarlyKinds,
               NEW i \in 1 .. n, brd[i].op = "readId", \A j \in 1 .. i : brd[j].op \in EarlyOps
        PROVE  IdComing(host, t)
    <3>1. i + 1 \in 1 .. Len(t) /\ t[i + 1].op = "readId"
      <4>1. i + 1 \in 2 .. n + 1 /\ (i + 1) - 1 = i
        BY <2>1
      <4> QED BY <2>1, <2>2, <4>1
    <3>2. ASSUME NEW j \in 1 .. i + 1 PROVE t[j].op \in EarlyOps
      <4>1. j = 1 \/ (j \in 2 .. n + 1 /\ j - 1 \in 1 .. i)
        BY <2>1
      <4>2. 1 \in 1 .. i
        BY <2>1
      <4> QED BY <2>1, <2>2, <4>1, <4>2
    <3> QED BY <2>2, <3>1, <3>2 DEF IdComing
  <2> QED BY <2>2 DEF IdComing, n, t
<1> QED BY <1>1, <1>2

\* Which answer the board gives to which datagram.
Replies == {<<"readCookie", "cookie">>, <<"readName", "name">>, <<"readId", "id">>,
            <<"readAddr", "addr">>, <<"readPage", "page">>}

LEMMA BoardReplies ==
  ASSUME TypeInv, Board
  PROVE  /\ toBoard # <<>> /\ toBoard' = Tail(toBoard) /\ Head(toBoard) \in Elements(toBoard)
         /\ UNCHANGED <<setup, hostVars, wireVars>>
         /\ \/ Head(toBoard).op \in {"setAddr", "erase", "program"} /\ toHost' = toHost
            \/ /\ \E a \in Answers : /\ toHost' = Append(toHost, a)
                                     /\ <<Head(toBoard).op, a.kind>> \in Replies
                                     /\ a.kind = "page" => a.page = flash[reg]
               /\ Head(toBoard).op # "readPage" => reg' = reg
               /\ UNCHANGED flash
<1>1. \A kind \in {"cookie", "name", "id", "addr"} : Answer(kind, Erased) \in Answers
  BY BytesType DEF Answer, Answers
<1>2. Answer("page", flash[reg]) \in Answers
  <2>1. flash[reg] \in Bytes
    BY DEF TypeInv, TypeOK, Memory
  <2> QED BY <2>1 DEF Answer, Answers
<1>3. CASE SetAddress \/ Erase \/ ProgramPage
  BY <1>3, QueueElements DEF SetAddress, Erase, ProgramPage, Serve, TypeInv, TypeOK
<1>4. CASE SendPage
  BY <1>2, <1>4, QueueElements DEF SendPage, Serve, Answer, Replies, TypeInv, TypeOK
<1>5. ASSUME NEW op, NEW kind, Reply(op, kind),
             <<op, kind>> \in {<<"readCookie", "cookie">>, <<"readName", "name">>,
                               <<"readId", "id">>, <<"readAddr", "addr">>}
      PROVE  /\ \E a \in Answers : /\ toHost' = Append(toHost, a)
                                   /\ <<Head(toBoard).op, a.kind>> \in Replies
                                   /\ a.kind = "page" => a.page = flash[reg]
             /\ toBoard # <<>> /\ toBoard' = Tail(toBoard) /\ Head(toBoard) \in Elements(toBoard)
             /\ UNCHANGED <<setup, hostVars, wireVars, flash, reg>>
  <2>1. /\ Answer(kind, Erased) \in Answers /\ Answer(kind, Erased).kind = kind
        /\ kind # "page" /\ <<op, kind>> \in Replies
    BY <1>1, <1>5 DEF Answer, Replies
  <2>2. /\ toHost' = Append(toHost, Answer(kind, Erased)) /\ Head(toBoard).op = op
        /\ toBoard # <<>> /\ toBoard' = Tail(toBoard)
        /\ UNCHANGED <<setup, hostVars, wireVars, flash, reg>>
    BY <1>5 DEF Reply, Serve, boardVars
  <2>3. Head(toBoard) \in Elements(toBoard)
    BY <2>2, QueueElements DEF TypeInv, TypeOK
  <2> QED BY <2>1, <2>2, <2>3
<1> QED BY <1>3, <1>4, <1>5 DEF Board

LEMMA EarlyNext == TypeInv /\ EarlyOnly /\ [Next]_vars => EarlyOnly'
<1> SUFFICES ASSUME TypeInv, EarlyOnly, [Next]_vars, pc' \in BeforeId PROVE EarlyOnly'
  BY DEF EarlyOnly
<1>1. CASE Send
  <2>1. pc \in BeforeId /\ toHost' = toHost /\ toBoard' = toBoard \o Datagrams
    BY <1>1 DEF Send
  <2>2. PICK op \in EarlyOps : Datagrams = <<Order(op)>>
    BY <2>1, DatagramsOf DEF BeforeId, EarlyOps
  <2>3. Elements(Datagrams) = {Order(op)} /\ Order(op).op = op
    BY <2>2 DEF Elements, Order, Request
  <2>4. Elements(toBoard') = Elements(toBoard) \cup Elements(Datagrams)
    BY <2>1, DatagramsType, QueueElements DEF TypeInv, TypeOK, BeforeId, Final
  <2> QED BY <2>1, <2>3, <2>4 DEF EarlyOnly
<1>2. CASE Host /\ ~Send /\ ~ScanTimeout
  <2>1. Receive /\ pc \in BeforeId
    BY <1>2, ReceiveSteps DEF ReceiveId, BeforeId, Programming, Final, Host, ReceiveCookie,
       ReceiveName, ReceiveBootPage, BootErased, BootWritten, SectorDone, PageDone, ReceivePage,
       Synchronise
  <2>2. Elements(toHost') \subseteq Elements(toHost) /\ toBoard' = toBoard
    BY <2>1, QueueElements DEF Receive, TypeInv, TypeOK
  <2> QED BY <2>1, <2>2 DEF EarlyOnly
<1>3. CASE ScanTimeout
  BY <1>3 DEF ScanTimeout, BeforeId
<1>4. CASE Board
  <2>1. /\ pc \in BeforeId /\ toBoard # <<>> /\ toBoard' = Tail(toBoard)
        /\ Head(toBoard).op \in EarlyOps
    BY <1>4, BoardReplies DEF hostVars, EarlyOnly
  <2>2. Elements(toBoard') \subseteq Elements(toBoard)
    BY <2>1, QueueElements DEF TypeInv, TypeOK
  <2>3. PICK a \in Answers : toHost' = Append(toHost, a) /\ a.kind \in EarlyKinds
    BY <1>4, <2>1, BoardReplies DEF Replies, EarlyOps, EarlyKinds
  <2>4. Elements(toHost') = Elements(toHost) \cup {a}
    BY <2>3, QueueElements DEF TypeInv, TypeOK
  <2> QED BY <2>1, <2>2, <2>3, <2>4 DEF EarlyOnly
<1>5. CASE Lose \/ Repeat
  <2>1. /\ Elements(toBoard') \subseteq Elements(toBoard)
        /\ Elements(toHost') \subseteq Elements(toHost)
    BY <1>5, QueueElements DEF Lose, Repeat, TypeInv, TypeOK
  <2>2. pc' = pc
    BY <1>5 DEF Lose, Repeat, hostVars
  <2> QED BY <2>1, <2>2 DEF EarlyOnly
<1>6. CASE UNCHANGED vars
  BY <1>6 DEF vars, hostVars, EarlyOnly
<1> QED BY <1>1, <1>2, <1>3, <1>4, <1>5, <1>6 DEF Next, Host

LEMMA EarlyInit == Init => EarlyOnly
BY DEF Init, EarlyOnly, Elements

\* Without losses the id that was asked for arrives before a page that was
\* asked for later, so that a program that got another answer in its place
\* takes the id for the page of the boot block, and aborts.
RightId ==
  lost = 0 =>
    /\ (pc = "id" /\ awaiting) \/ (pc = "checkBoot" /\ flash_id # "right")
         => IdComing(toHost, toBoard)
    /\ HasBootBlock(setup) /\ pc \in Repairing \cup Writing => flash_id = "right"

LEMMA RightIdInit == Init => RightId
BY DEF Init, RightId, Repairing, Writing

LEMMA LossesStay ==
  ASSUME TypeInv, [Next]_vars
  PROVE  /\ lost \in Nat /\ lost' = 0 => lost = 0 /\ ~Lose
         /\ repeated \in Nat /\ repeated' = 0 => repeated = 0 /\ ~Repeat
         /\ setup' = setup
<1>1. lost \in Nat /\ repeated \in Nat
  BY RemoteAssumption DEF TypeInv, TypeOK
<1>2. CASE Lose \/ Repeat
  BY <1>1, <1>2 DEF Lose, Repeat
<1>3. CASE Host /\ ~Send /\ ~ScanTimeout
  BY <1>1, <1>3, ReceiveSteps DEF Receive, wireVars, Lose, Repeat
<1>4. CASE Send \/ ScanTimeout
  BY <1>1, <1>4 DEF Send, ScanTimeout, wireVars, Lose, Repeat
<1>5. CASE Board
  BY <1>1, <1>5, BoardReplies DEF wireVars, Lose, Repeat
<1>6. CASE UNCHANGED vars
  BY <1>1, <1>6 DEF vars, wireVars, Lose, Repeat
<1> QED BY <1>2, <1>3, <1>4, <1>5, <1>6 DEF Next

\* An answer of the scan or of the opening is too short for a page.
LEMMA EarlyIsShort ==
  ASSUME toHost # <<>>, Head(toHost).kind \in EarlyKinds
  PROVE  TooShort(256)
BY DEF TooShort, Length, EarlyKinds

LEMMA ShortOrPage ==
  ASSUME toHost \in Seq(Answers), toHost # <<>>, ~TooShort(256)
  PROVE  Head(toHost).kind = "page"
<1>1. Head(toHost) \in Answers
  BY QueueTypes
<1> QED BY <1>1 DEF TooShort, Length, Answers

LEMMA RightIdNext == TypeInv /\ EarlyOnly /\ RightId /\ [Next]_vars => RightId'
<1> SUFFICES ASSUME TypeInv, EarlyOnly, RightId, [Next]_vars, lost' = 0 PROVE RightId'
  BY DEF RightId
<1>1. lost = 0 /\ ~Lose /\ setup' = setup /\ HasBootBlock(setup') = HasBootBlock(setup)
  BY LossesStay DEF HasBootBlock, TypeInv, TypeOK
<1>2. toHost \in Seq(Answers) /\ toBoard \in Seq(Requests)
  BY DEF TypeInv, TypeOK
<1>3. CASE Send
  <2>1. /\ toBoard' = toBoard \o Datagrams /\ Datagrams \in Seq(Requests)
        /\ UNCHANGED <<pc, flash_id, toHost>>
    BY <1>3, DatagramsType DEF Send
  <2>2. ASSUME pc = "id" PROVE IdComing(toHost', toBoard')
    <3>1. \E r \in Elements(Datagrams) : r.op = "readId"
      <4>1. Datagrams = <<Order("readId")>> /\ Order("readId").op = "readId"
        BY <2>2, DatagramsOf DEF Order, Request
      <4>2. Elements(Datagrams) = {Order("readId")}
        BY <4>1 DEF Elements
      <4> QED BY <4>1, <4>2
    <3>2. /\ \A r \in Elements(toBoard') : r.op \in EarlyOps
          /\ \A a \in Elements(toHost') : a.kind \in EarlyKinds
      BY <2>1, <2>2, EarlyNext DEF EarlyOnly, BeforeId
    <3> QED BY <1>2, <2>1, <3>1, <3>2, IdSent
  <2>3. ASSUME pc = "checkBoot", flash_id # "right" PROVE IdComing(toHost', toBoard')
    BY <1>1, <1>2, <2>1, <2>3, IdSent DEF RightId
  <2> QED BY <1>1, <2>1, <2>2, <2>3 DEF RightId
<1>4. CASE Host /\ ~Send /\ ~ScanTimeout
  <2>1. /\ awaiting /\ toHost # <<>> /\ toHost' = Tail(toHost) /\ toBoard' = toBoard
        /\ awaiting' = FALSE
    BY <1>4, ReceiveSteps DEF Receive
  <2>2. CASE ReceiveId
    <3>1. /\ pc = "id" /\ flash_id' = (IF Head(toHost).kind = "id" THEN "right" ELSE "wrong")
          /\ HasBootBlock(setup) => pc' = "checkBoot"
      BY <2>2 DEF ReceiveId
    <3>2. flash_id' # "right" => IdComing(toHost', toBoard')
      BY <1>1, <1>2, <2>1, <3>1, IdReceived DEF RightId
    <3> QED BY <1>1, <2>1, <3>1, <3>2 DEF RightId, Repairing, Writing
  <2>3. CASE ReceiveBootPage
    <3>1. pc = "checkBoot" /\ flash_id # "right" => pc' = "aborted"
      BY <1>1, <1>2, <2>1, <2>3, IdReceived, EarlyIsShort DEF RightId, ReceiveBootPage
    <3>2. pc # "checkBoot" => pc \in Repairing \cup Writing
      BY <2>3 DEF ReceiveBootPage, Repairing, Writing
    <3>3. flash_id' = flash_id /\ pc' \notin {"id", "checkBoot"}
      BY <2>3 DEF ReceiveBootPage, Programming
    <3> QED BY <1>1, <2>1, <3>1, <3>2, <3>3 DEF RightId, Repairing, Writing
  <2>4. CASE ReceiveCookie \/ ReceiveName
    BY <1>1, <2>1, <2>4 DEF ReceiveCookie, ReceiveName, RightId, Repairing, Writing
  <2>5. CASE BootErased \/ BootWritten \/ SectorDone \/ PageDone \/ ReceivePage
    <3>1. /\ pc \in Repairing \cup Writing /\ flash_id' = flash_id
          /\ pc' \notin {"id", "checkBoot"}
      BY <2>5 DEF BootErased, BootWritten, SectorDone, PageDone, ReceivePage, Synchronise,
         Repairing, Writing
    <3> QED BY <1>1, <2>1, <3>1 DEF RightId
  <2> QED BY <1>4, <2>2, <2>3, <2>4, <2>5 DEF Host
<1>5. CASE ScanTimeout
  BY <1>5 DEF ScanTimeout, RightId, Repairing, Writing
<1>6. CASE Board
  <2>1. /\ toBoard # <<>> /\ toBoard' = Tail(toBoard)
        /\ UNCHANGED <<pc, awaiting, flash_id>>
    BY <1>6, BoardReplies DEF hostVars
  <2>2. IdComing(toHost, toBoard) => IdComing(toHost', toBoard')
    <3>1. CASE Head(toBoard).op \in {"setAddr", "erase", "program"} /\ toHost' = toHost
      BY <1>2, <2>1, <3>1, IdServed DEF EarlyOps
    <3>2. CASE \E a \in Answers : toHost' = Append(toHost, a) /\ <<Head(toBoard).op, a.kind>> \in Replies
      <4>1. PICK a \in Answers :
              toHost' = Append(toHost, a) /\ <<Head(toBoard).op, a.kind>> \in Replies
        BY <3>2
      <4>2. Head(toBoard).op \in EarlyOps
              => a.kind \in EarlyKinds /\ (Head(toBoard).op = "readId" => a.kind = "id")
        BY <4>1 DEF Replies, EarlyOps, EarlyKinds
      <4> QED BY <1>2, <2>1, <4>1, <4>2, IdServed
    <3> QED BY <1>6, <3>1, <3>2, BoardReplies
  <2> QED BY <1>1, <2>1, <2>2 DEF RightId
<1>7. CASE Repeat
  <2>1. IdComing(toHost, toBoard) => IdComing(toHost', toBoard')
    BY <1>2, <1>7, IdRepeated DEF Repeat
  <2> QED BY <1>1, <1>7, <2>1 DEF Repeat, hostVars, RightId
<1>8. CASE UNCHANGED vars
  BY <1>1, <1>8 DEF vars, hostVars, RightId
<1> QED BY <1>1, <1>3, <1>4, <1>5, <1>6, <1>7, <1>8 DEF Next, Host

\* Every order to read a page comes behind an address.
ReadsAddressed(brd) ==
  \A i \in 1 .. Len(brd) : brd[i].op = "readPage" => \E j \in 1 .. i - 1 : brd[j].op = "setAddr"

PageComing(host) == \E a \in Elements(host) : a.kind = "page"

\* The first page that arrives is this one.
FirstPage(host, page) ==
  \A i \in 1 .. Len(host) : host[i].kind = "page" =>
    host[i].page = page \/ \E j \in 1 .. i - 1 : host[j].kind = "page"

LEMMA ReadsSent ==
  ASSUME NEW brd \in Seq(Requests), NEW d \in Seq(Requests), ReadsAddressed(brd), ReadsAddressed(d)
  PROVE  ReadsAddressed(brd \o d)
<1> DEFINE n == Len(brd)  m == Len(d)  c == brd \o d
<1>1. /\ n \in Nat /\ m \in Nat /\ Len(c) = n + m
      /\ \A i \in 1 .. n : c[i] = brd[i]
      /\ \A i \in 1 .. m : c[n + i] = d[i]
  BY QueueLonger
<1> SUFFICES ASSUME NEW i \in 1 .. Len(c), c[i].op = "readPage"
             PROVE  \E j \in 1 .. i - 1 : c[j].op = "setAddr"
  BY DEF ReadsAddressed
<1> HIDE DEF c
<1>2. CASE i \in 1 .. n
  <2>1. PICK j \in 1 .. i - 1 : brd[j].op = "setAddr"
    BY <1>1, <1>2 DEF ReadsAddressed
  <2>2. j \in 1 .. n
    BY <1>1, <1>2
  <2> QED BY <1>1, <2>1, <2>2
<1>3. CASE i \notin 1 .. n
  <2>1. i - n \in 1 .. m /\ n + (i - n) = i
    BY <1>1, <1>3
  <2>2. PICK j \in 1 .. (i - n) - 1 : d[j].op = "setAddr"
    BY <1>1, <2>1 DEF ReadsAddressed
  <2>3. j \in 1 .. m /\ n + j \in 1 .. i - 1
    BY <1>1, <2>1
  <2> QED BY <1>1, <2>2, <2>3
<1> QED BY <1>2, <1>3

LEMMA ReadsServed ==
  ASSUME NEW brd \in Seq(Requests), brd # <<>>, ReadsAddressed(brd)
  PROVE  /\ Head(brd).op # "readPage"
         /\ Head(brd).op # "setAddr" => ReadsAddressed(Tail(brd))
         /\ ReadsAddressed(Twice(brd))
<1> DEFINE n == Len(brd)  t == Tail(brd)  w == Twice(brd)
<1>1. /\ n \in Nat \ {0} /\ Head(brd) = brd[1] /\ Len(t) = n - 1
      /\ \A i \in 1 .. n - 1 : t[i] = brd[i + 1]
      /\ Len(w) = n + 1 /\ w[1] = brd[1]
      /\ \A i \in 2 .. n + 1 : w[i] = brd[i - 1]
  BY QueueParts
<1>2. Head(brd).op # "readPage"
  <2>1. 1 \in 1 .. n /\ \A j \in 1 .. 1 - 1 : FALSE
    BY <1>1
  <2> QED BY <1>1, <2>1 DEF ReadsAddressed
<1> HIDE DEF n, t, w
<1>3. ASSUME Head(brd).op # "setAddr" PROVE ReadsAddressed(t)
  <2> SUFFICES ASSUME NEW i \in 1 .. n - 1, t[i].op = "readPage"
               PROVE  \E j \in 1 .. i - 1 : t[j].op = "setAddr"
    BY <1>1 DEF ReadsAddressed
  <2>1. i + 1 \in 1 .. n /\ t[i] = brd[i + 1] /\ (i + 1) - 1 = i
    BY <1>1
  <2>2. PICK j \in 1 .. i : brd[j].op = "setAddr"
    BY <2>1 DEF ReadsAddressed, n
  <2>3. j # 1
    BY <1>1, <1>3, <2>2
  <2>4. j - 1 \in 1 .. i - 1 /\ j - 1 \in 1 .. n - 1 /\ (j - 1) + 1 = j
    BY <1>1, <2>3
  <2>5. t[j - 1] = brd[j]
    BY <1>1, <2>4
  <2> QED BY <2>2, <2>4, <2>5
<1>4. ReadsAddressed(w)
  <2> SUFFICES ASSUME NEW i \in 1 .. n + 1, w[i].op = "readPage"
               PROVE  \E j \in 1 .. i - 1 : w[j].op = "setAddr"
    BY <1>1 DEF ReadsAddressed
  <2>1. i # 1
    BY <1>1, <1>2
  <2>2. i \in 2 .. n + 1 /\ i - 1 \in 1 .. n
    BY <1>1, <2>1
  <2>3. PICK j \in 1 .. (i - 1) - 1 : brd[j].op = "setAddr"
    BY <1>1, <2>2 DEF ReadsAddressed, n
  <2>4. j + 1 \in 1 .. i - 1 /\ j + 1 \in 2 .. n + 1 /\ (j + 1) - 1 = j
    BY <1>1, <2>2
  <2>5. w[j + 1] = brd[j]
    BY <1>1, <2>4
  <2> QED BY <2>3, <2>4, <2>5
<1> QED BY <1>2, <1>3, <1>4 DEF t, w

LEMMA FirstPageKept ==
  ASSUME NEW host \in Seq(Answers), NEW page, FirstPage(host, page)
  PROVE  /\ host # <<>> /\ Head(host).kind = "page" => Head(host).page = page
         /\ host # <<>> /\ Head(host).kind # "page" => FirstPage(Tail(host), page)
         /\ host # <<>> => FirstPage(Twice(host), page)
         /\ \A a \in Answers : (a.kind = "page" => a.page = page \/ PageComing(host))
              => FirstPage(Append(host, a), page)
<1> DEFINE n == Len(host)
<1>1. ASSUME host # <<>>
      PROVE  /\ Head(host).kind = "page" => Head(host).page = page
             /\ Head(host).kind # "page" => FirstPage(Tail(host), page)
             /\ FirstPage(Twice(host), page)
  <2> DEFINE t == Tail(host)  w == Twice(host)
  <2>1. /\ n \in Nat \ {0} /\ Head(host) = host[1] /\ Len(t) = n - 1
        /\ \A i \in 1 .. n - 1 : t[i] = host[i + 1]
        /\ Len(w) = n + 1 /\ w[1] = host[1]
        /\ \A i \in 2 .. n + 1 : w[i] = host[i - 1]
    BY <1>1, QueueParts
  <2>2. ASSUME Head(host).kind = "page" PROVE Head(host).page = page
    <3>1. 1 \in 1 .. n /\ \A j \in 1 .. 1 - 1 : FALSE
      BY <2>1
    <3> QED BY <2>1, <2>2, <3>1 DEF FirstPage
  <2> HIDE DEF n, t, w
  <2>3. ASSUME Head(host).kind # "page" PROVE FirstPage(t, page)
    <3> SUFFICES ASSUME NEW i \in 1 .. n - 1, t[i].kind = "page", t[i].page # page
                 PROVE  \E j \in 1 .. i - 1 : t[j].kind = "page"
      BY <2>1 DEF FirstPage
    <3>1. i + 1 \in 1 .. n /\ t[i] = host[i + 1] /\ (i + 1) - 1 = i
      BY <2>1
    <3>2. PICK j \in 1 .. i : host[j].kind = "page"
      BY <3>1 DEF FirstPage, n
    <3>3. j # 1
      BY <2>1, <2>3, <3>2
    <3>4. j - 1 \in 1 .. i - 1 /\ j - 1 \in 1 .. n - 1 /\ (j - 1) + 1 = j
      BY <2>1, <3>3
    <3>5. t[j - 1] = host[j]
      BY <2>1, <3>4
    <3> QED BY <3>2, <3>4, <3>5
  <2>4. FirstPage(w, page)
    <3> SUFFICES ASSUME NEW i \in 1 .. n + 1, w[i].kind = "page", w[i].page # page
                 PROVE  \E j \in 1 .. i - 1 : w[j].kind = "page"
      BY <2>1 DEF FirstPage
    <3>1. i # 1
      BY <2>1, <2>2
    <3>2. i \in 2 .. n + 1 /\ i - 1 \in 1 .. n
      BY <2>1, <3>1
    <3>3. PICK j \in 1 .. (i - 1) - 1 : host[j].kind = "page"
      BY <2>1, <3>2 DEF FirstPage, n
    <3>4. j + 1 \in 1 .. i - 1 /\ j + 1 \in 2 .. n + 1 /\ (j + 1) - 1 = j
      BY <2>1, <3>2
    <3>5. w[j + 1] = host[j]
      BY <2>1, <3>4
    <3> QED BY <3>3, <3>4, <3>5
  <2> QED BY <2>2, <2>3, <2>4 DEF t, w
<1>2. ASSUME NEW a \in Answers, a.kind = "page" => a.page = page \/ PageComing(host)
      PROVE  FirstPage(Append(host, a), page)
  <2> DEFINE h == Append(host, a)
  <2>1. /\ n \in Nat /\ Len(h) = n + 1 /\ h[n + 1] = a
        /\ \A i \in 1 .. n : h[i] = host[i]
    BY QueueLonger
  <2> HIDE DEF h
  <2> SUFFICES ASSUME NEW i \in 1 .. n + 1, h[i].kind = "page", h[i].page # page
               PROVE  \E j \in 1 .. i - 1 : h[j].kind = "page"
    BY <2>1 DEF FirstPage, h
  <2>2. CASE i \in 1 .. n
    <3>1. PICK j \in 1 .. i - 1 : host[j].kind = "page"
      BY <2>1, <2>2 DEF FirstPage
    <3>2. j \in 1 .. n
      BY <2>1, <2>2
    <3> QED BY <2>1, <3>1, <3>2
  <2>3. CASE i \notin 1 .. n
    <3>1. i = n + 1 /\ PageComing(host)
      BY <1>2, <2>1, <2>3
    <3>2. PICK j \in 1 .. n : host[j].kind = "page"
      BY <3>1 DEF PageComing, Elements
    <3>3. j \in 1 .. i - 1
      BY <2>1, <3>1
    <3> QED BY <2>1, <3>2, <3>3
  <2> QED BY <2>2, <2>3
<1> QED BY <1>1, <1>2

\* A boot block that is valid is the first page that the program sees, and
\* until then nothing is sent that could change it.
BlockSeen ==
  /\ flash[0] = BootPage("right")
  /\ \A r \in Elements(toBoard) :
       r.op \notin {"erase", "program"} /\ (r.op = "setAddr" => r.at = 0)
  /\ reg = 0 \/ PageComing(toHost) \/ ReadsAddressed(toBoard)
  /\ FirstPage(toHost, BootPage("right"))

Untouched ==
  /\ pc \in Repairing => setup.fix
  /\ pc \in Repairing \cup {"checkBoot"} => HasBootBlock(setup)
  /\ lost = 0 /\ HasBootBlock(setup) /\ setup.boot =>
       /\ pc \notin Repairing
       /\ pc \in Preparing => BlockSeen

LEMMA UntouchedInit == Init => Untouched
<1> SUFFICES ASSUME Init PROVE Untouched
  OBVIOUS
<1>1. HasBootBlock(setup) /\ setup.boot => flash[0] = BootPage("right")
  BY Areas DEF Init
<1>2. /\ Elements(toBoard) = {} /\ ReadsAddressed(toBoard)
      /\ FirstPage(toHost, BootPage("right"))
  BY DEF Init, Elements, ReadsAddressed, FirstPage
<1> QED BY <1>1, <1>2 DEF Init, Untouched, BlockSeen, Repairing

LEMMA BlockSeenSend ==
  ASSUME TypeInv, BlockSeen, pc \in Preparing, Send
  PROVE  BlockSeen'
<1>1. /\ toBoard' = toBoard \o Datagrams /\ UNCHANGED <<toHost, reg, flash>>
      /\ Datagrams \in Seq(Requests) /\ toBoard \in Seq(Requests)
  BY DatagramsType DEF Send, boardVars, TypeInv, TypeOK
<1>2. \/ \E op \in EarlyOps : Datagrams = <<Order(op)>>
      \/ Datagrams = ReadPage(0)
  BY DatagramsOf DEF Preparing, BeforeId, EarlyOps
<1>3. /\ \A r \in Elements(Datagrams) :
           r.op \notin {"erase", "program"} /\ (r.op = "setAddr" => r.at = 0)
      /\ ReadsAddressed(Datagrams)
  <2>1. ASSUME NEW op \in EarlyOps, Datagrams = <<Order(op)>>
        PROVE  /\ Elements(Datagrams) = {Order(op)} /\ Order(op).op = op
               /\ Len(Datagrams) = 1 /\ Datagrams[1].op = op
    BY <2>1 DEF Elements, Order, Request
  <2>2. ASSUME Datagrams = ReadPage(0)
        PROVE  /\ Elements(Datagrams) = {Request("setAddr", 0, Erased), Order("readPage")}
               /\ Len(Datagrams) = 2 /\ Datagrams[1].op = "setAddr"
    <3>1. Elements(Datagrams) = {Request("setAddr", 0, Erased), Order("readPage")}
      BY <2>2, CallElements
    <3> QED BY <2>2, <3>1 DEF ReadPage, Request
  <2> QED BY <1>2, <2>1, <2>2 DEF EarlyOps, Order, Request, ReadsAddressed
<1>4. Elements(toBoard') = Elements(toBoard) \cup Elements(Datagrams)
  BY <1>1, QueueElements
<1>5. ReadsAddressed(toBoard) => ReadsAddressed(toBoard')
  BY <1>1, <1>3, ReadsSent
<1>6. BootPage("right")' = BootPage("right")
  BY DEF BootPage, UserSpaceOf
<1> QED BY <1>1, <1>3, <1>4, <1>5, <1>6 DEF BlockSeen

LEMMA BlockSeenBoard ==
  ASSUME TypeInv, BlockSeen, Board
  PROVE  BlockSeen'
<1>1. /\ toBoard # <<>> /\ toBoard' = Tail(toBoard) /\ Head(toBoard) \in Elements(toBoard)
      /\ Elements(toBoard') \subseteq Elements(toBoard)
      /\ toBoard \in Seq(Requests) /\ toHost \in Seq(Answers)
  BY BoardReplies, QueueElements DEF TypeInv, TypeOK
<1>2. BootPage("right")' = BootPage("right")
  BY DEF BootPage, UserSpaceOf
<1>3. Head(toBoard).op \notin {"erase", "program"}
  BY <1>1 DEF BlockSeen
<1>4. CASE Head(toBoard).op = "setAddr"
  <2>1. SetAddress
    BY <1>4 DEF Board, Erase, ProgramPage, SendPage, Reply, Serve
  <2>2. reg' = 0 /\ UNCHANGED <<toHost, flash>>
    BY <1>1, <1>4, <2>1, Areas DEF SetAddress, BlockSeen
  <2> QED BY <1>1, <1>2, <2>2 DEF BlockSeen
<1>5. CASE Head(toBoard).op # "setAddr"
  <2>1. PICK a \in Answers :
          /\ toHost' = Append(toHost, a) /\ <<Head(toBoard).op, a.kind>> \in Replies
          /\ a.kind = "page" => a.page = flash[reg]
    BY <1>3, <1>5, BoardReplies
  <2>2. flash' = flash /\ (Head(toBoard).op # "readPage" => reg' = reg)
    BY <1>3, <1>5, BoardReplies
  <2>3. Elements(toHost') = Elements(toHost) \cup {a}
    BY <1>1, <2>1, QueueElements
  <2>4. a.kind = "page" <=> Head(toBoard).op = "readPage"
    BY <2>1 DEF Replies
  <2>5. a.kind = "page" => a.page = BootPage("right") \/ PageComing(toHost)
    <3>1. Head(toBoard).op = "readPage" => ~ReadsAddressed(toBoard)
      BY <1>1, ReadsServed
    <3> QED BY <2>1, <2>4, <3>1 DEF BlockSeen
  <2>6. FirstPage(toHost', BootPage("right"))
    BY <1>1, <2>1, <2>5, FirstPageKept DEF BlockSeen
  <2>7. reg' = 0 \/ PageComing(toHost') \/ ReadsAddressed(toBoard')
    <3>1. PageComing(toHost) \/ a.kind = "page" => PageComing(toHost')
      BY <2>3 DEF PageComing
    <3>2. ReadsAddressed(toBoard) => ReadsAddressed(toBoard')
      BY <1>1, <1>5, ReadsServed
    <3> QED BY <2>2, <2>4, <3>1, <3>2 DEF BlockSeen
  <2> QED BY <1>1, <1>2, <2>2, <2>6, <2>7 DEF BlockSeen
<1> QED BY <1>4, <1>5

LEMMA BlockSeenRepeat ==
  ASSUME TypeInv, BlockSeen, Repeat
  PROVE  BlockSeen'
<1>1. BootPage("right")' = BootPage("right") /\ UNCHANGED <<reg, flash>>
  BY DEF BootPage, UserSpaceOf, Repeat, boardVars
<1>2. toBoard \in Seq(Requests) /\ toHost \in Seq(Answers)
  BY DEF TypeInv, TypeOK
<1>3. CASE toBoard # <<>> /\ toBoard' = Twice(toBoard) /\ UNCHANGED toHost
  <2>1. Elements(toBoard') \subseteq Elements(toBoard)
    BY <1>2, <1>3, QueueElements
  <2>2. ReadsAddressed(toBoard) => ReadsAddressed(toBoard')
    BY <1>2, <1>3, ReadsServed
  <2> QED BY <1>1, <1>3, <2>1, <2>2 DEF BlockSeen
<1>4. CASE toHost # <<>> /\ toHost' = Twice(toHost) /\ UNCHANGED toBoard
  <2>1. FirstPage(toHost', BootPage("right"))
    BY <1>2, <1>4, FirstPageKept DEF BlockSeen
  <2>2. PageComing(toHost) => PageComing(toHost')
    <3>1. ASSUME NEW a \in Elements(toHost), a.kind = "page" PROVE PageComing(toHost')
      <4>1. \A q \in Seq(Answers) : q # <<>> => Elements(q) \subseteq Elements(Twice(q))
        <5> SUFFICES ASSUME NEW q \in Seq(Answers), q # <<>>, NEW i \in 1 .. Len(q)
                     PROVE  q[i] \in Elements(Twice(q))
          BY DEF Elements
        <5>1. /\ Len(q) \in Nat /\ Len(Twice(q)) = Len(q) + 1
              /\ \A k \in 2 .. Len(q) + 1 : Twice(q)[k] = q[k - 1]
          BY QueueParts
        <5>2. i + 1 \in 2 .. Len(q) + 1 /\ (i + 1) - 1 = i /\ i + 1 \in 1 .. Len(q) + 1
          BY <5>1
        <5>3. Twice(q)[i + 1] = q[i]
          BY <5>1, <5>2
        <5> QED BY <5>1, <5>2, <5>3 DEF Elements
      <4> QED BY <1>2, <1>4, <3>1, <4>1 DEF PageComing
    <3> QED BY <3>1 DEF PageComing
  <2> QED BY <1>1, <1>4, <2>1, <2>2 DEF BlockSeen
<1> QED BY <1>3, <1>4 DEF Repeat

LEMMA UntouchedNext ==
  TypeInv /\ EarlyOnly /\ RightId /\ Untouched /\ [Next]_vars => Untouched'
<1> SUFFICES ASSUME TypeInv, EarlyOnly, RightId, Untouched, [Next]_vars PROVE Untouched'
  OBVIOUS
<1>1. setup' = setup /\ HasBootBlock(setup') = HasBootBlock(setup)
  BY LossesStay DEF HasBootBlock
<1>2. lost' = 0 => lost = 0 /\ ~Lose
  BY LossesStay, RemoteAssumption DEF TypeInv, TypeOK
<1>3. CASE UNCHANGED pc
  <2>1. ASSUME pc \in Preparing, BlockSeen, ~Lose PROVE BlockSeen'
    <3>1. CASE Send
      BY <2>1, <3>1, BlockSeenSend
    <3>2. CASE Board
      BY <2>1, <3>2, BlockSeenBoard
    <3>3. CASE Repeat
      BY <2>1, <3>3, BlockSeenRepeat
    <3>4. CASE UNCHANGED vars
      BY <2>1, <3>4 DEF vars, boardVars, BlockSeen, BootPage, UserSpaceOf
    <3>5. CASE Host /\ ~Send
      BY <1>3, <2>1, <3>5 DEF Host, ScanTimeout, ReceiveCookie, ReceiveName, ReceiveId,
         ReceiveBootPage, BootErased, BootWritten, SectorDone, PageDone, ReceivePage,
         Synchronise, Preparing, BeforeId, Programming
    <3> QED BY <2>1, <3>1, <3>2, <3>3, <3>4, <3>5 DEF Next
  <2> QED BY <1>1, <1>2, <1>3, <2>1 DEF Untouched
<1>4. CASE pc' # pc
  <2>1. Host /\ ~Send
    BY <1>4, BoardReplies DEF Next, Send, Lose, Repeat, vars, hostVars
  <2>2. CASE ScanTimeout
    BY <2>2 DEF ScanTimeout, Untouched, Repairing, Preparing, BeforeId
  <2>3. CASE ~ScanTimeout
    <3>1. /\ toHost # <<>> /\ toHost' = Tail(toHost)
          /\ UNCHANGED <<toBoard, reg, flash>> /\ toHost \in Seq(Answers)
          /\ toBoard \in Seq(Requests)
      BY <2>1, <2>3, ReceiveSteps DEF Receive, boardVars, TypeInv, TypeOK
    <3>2. CASE pc \in BeforeId
      <4>1. pc' \notin Repairing /\ (pc' = "checkBoot" => HasBootBlock(setup))
        BY <2>1, <2>3, <3>2 DEF Host, ReceiveCookie, ReceiveName, ReceiveId, ReceiveBootPage,
           BootErased, BootWritten, SectorDone, PageDone, ReceivePage, Programming, BeforeId,
           Repairing
      <4>2. ASSUME BlockSeen PROVE BlockSeen'
        <5>1. Head(toHost).kind # "page" /\ ~PageComing(toHost)
          BY <3>1, <3>2, QueueElements DEF EarlyOnly, EarlyKinds, PageComing
        <5>2. FirstPage(toHost', BootPage("right"))
          BY <3>1, <4>2, <5>1, FirstPageKept DEF BlockSeen
        <5>3. BootPage("right")' = BootPage("right")
          BY DEF BootPage, UserSpaceOf
        <5> QED BY <3>1, <4>2, <5>1, <5>2, <5>3 DEF BlockSeen
      <4> QED BY <1>1, <1>2, <3>2, <4>1, <4>2 DEF Untouched, Preparing
    <3>3. CASE pc \notin BeforeId
      <4>1. pc' \notin Preparing
        BY <1>4, <2>1, <2>3, <3>3 DEF Host, ReceiveCookie, ReceiveName, ReceiveId, ReceiveBootPage,
           BootErased, BootWritten, SectorDone, PageDone, ReceivePage, Synchronise, Programming,
           BeforeId, Preparing
      <4>2. pc' \in Repairing => pc \in Repairing \/ (pc = "checkBoot" /\ ReceiveBootPage)
        BY <2>1, <2>3, <3>3 DEF Host, ReceiveCookie, ReceiveName, ReceiveId, ReceiveBootPage,
           BootErased, BootWritten, SectorDone, PageDone, ReceivePage, Synchronise, Programming,
           BeforeId, Repairing
      <4>3. ASSUME pc = "checkBoot", ReceiveBootPage, lost = 0, BlockSeen PROVE pc' \notin Repairing
        <5>1. CASE TooShort(256)
          BY <4>3, <5>1 DEF ReceiveBootPage, Repairing
        <5>2. CASE ~TooShort(256)
          <6>1. flash_id = "right"
            BY <3>1, <4>3, <5>2, IdReceived, EarlyIsShort DEF RightId
          <6>2. Head(toHost).page = BootPage("right")
            BY <3>1, <4>3, <5>2, ShortOrPage, FirstPageKept DEF BlockSeen
          <6> QED BY <4>3, <5>2, <6>1, <6>2 DEF ReceiveBootPage, BootPageOK, Programming, Repairing
        <5> QED BY <5>1, <5>2
      <4>4. pc = "checkBoot" /\ ReceiveBootPage /\ pc' \in Repairing => setup.fix
        BY DEF ReceiveBootPage, Programming, Repairing
      <4> QED BY <1>1, <1>2, <4>1, <4>2, <4>3, <4>4 DEF Untouched, Preparing
    <3> QED BY <3>2, <3>3
  <2> QED BY <2>2, <2>3
<1> QED BY <1>3, <1>4

\* Every erase and every page comes behind its address, where E are the
\* addresses of the sectors and P those of the pages, except at the head of the
\* queue, where a datagram may have been repeated any number of times.
RunTo(brd, i) == \A j \in 1 .. i : brd[j].op = brd[1].op

Addressed(brd, E, P) ==
  \A i \in 2 .. Len(brd) : brd[i].op \in {"erase", "program"} =>
    \/ /\ brd[i - 1].op = "setAddr"
       /\ brd[i - 1].at \in IF brd[i].op = "erase" THEN E ELSE P
    \/ RunTo(brd, i)

\* The board's register is right for what comes next: it has moved past the
\* address of a page only for pages that came twice.
Aimed(brd, at, copies, E, P) ==
  /\ Addressed(brd, E, P)
  /\ brd # <<>> /\ brd[1].op = "erase" => \E a \in E : at = Decode(a)
  /\ brd # <<>> /\ brd[1].op = "program" =>
       \E a \in P, k \in 0 .. copies :
         /\ at = Decode(a + k)
         /\ \A i \in 1 .. Len(brd) : RunTo(brd, i) => k + i - 1 <= copies

LEMMA AddressedKept ==
  ASSUME NEW brd \in Seq(Requests), brd # <<>>, NEW E, NEW P, Addressed(brd, E, P)
  PROVE  Addressed(Tail(brd), E, P) /\ Addressed(Twice(brd), E, P)
<1> DEFINE n == Len(brd)  t == Tail(brd)  w == Twice(brd)
           Fits(op) == IF op = "erase" THEN E ELSE P
<1>1. /\ n \in Nat \ {0} /\ Len(t) = n - 1
      /\ \A i \in 1 .. n - 1 : t[i] = brd[i + 1]
      /\ Len(w) = n + 1 /\ w[1] = brd[1]
      /\ \A i \in 2 .. n + 1 : w[i] = brd[i - 1]
  BY QueueParts
<1>2. \A i \in 2 .. n : brd[i].op \in {"erase", "program"} =>
        \/ brd[i - 1].op = "setAddr" /\ brd[i - 1].at \in Fits(brd[i].op)
        \/ RunTo(brd, i)
  BY DEF Addressed
<1> HIDE DEF n, t, w, Fits
<1>3. Addressed(t, E, P)
  <2> SUFFICES ASSUME NEW i \in 2 .. n - 1, t[i].op \in {"erase", "program"}, ~RunTo(t, i)
               PROVE  t[i - 1].op = "setAddr" /\ t[i - 1].at \in Fits(t[i].op)
    BY <1>1 DEF Addressed, Fits
  <2>1. i + 1 \in 2 .. n /\ (i + 1) - 1 = i /\ i \in 1 .. n - 1
        /\ i - 1 \in 1 .. n - 1 /\ (i - 1) + 1 = i
    BY <1>1
  <2>2. t[i] = brd[i + 1] /\ t[i - 1] = brd[i]
    BY <1>1, <2>1
  <2>3. ~RunTo(brd, i + 1)
    <3>1. PICK j \in 1 .. i : t[j].op # t[1].op
      BY DEF RunTo
    <3>2. j \in 1 .. n - 1 /\ 1 \in 1 .. n - 1 /\ j + 1 \in 1 .. i + 1 /\ 1 + 1 \in 1 .. i + 1
      BY <1>1, <2>1
    <3>3. t[j] = brd[j + 1] /\ t[1] = brd[1 + 1]
      BY <1>1, <3>2
    <3> QED BY <3>1, <3>2, <3>3 DEF RunTo
  <2> QED BY <1>2, <2>1, <2>2, <2>3
<1>4. Addressed(w, E, P)
  <2> SUFFICES ASSUME NEW i \in 2 .. n + 1, w[i].op \in {"erase", "program"}, ~RunTo(w, i)
               PROVE  w[i - 1].op = "setAddr" /\ w[i - 1].at \in Fits(w[i].op)
    BY <1>1 DEF Addressed, Fits
  <2>1. PICK j \in 1 .. i : w[j].op # w[1].op
    BY DEF RunTo
  <2>2. j # 1
    BY <2>1
  <2>3. j \in 2 .. n + 1 /\ w[j] = brd[j - 1] /\ j - 1 \in 1 .. i - 1
    BY <1>1, <2>2
  <2>4. brd[j - 1].op # brd[1].op
    BY <1>1, <2>1, <2>3
  <2>5. ~RunTo(brd, i - 1) /\ j - 1 # 1
    BY <2>3, <2>4 DEF RunTo
  <2>6. i - 1 \in 2 .. n /\ i - 1 \in 2 .. n + 1 /\ w[i] = brd[i - 1]
    BY <1>1, <2>3, <2>5
  <2>7. w[i - 1] = brd[(i - 1) - 1]
    BY <1>1, <2>6
  <2> QED BY <1>2, <2>5, <2>6, <2>7
<1> QED BY <1>3, <1>4 DEF t, w

\* The arithmetic of addresses that wrap.
LEMMA Remainder ==
  ASSUME NEW p \in Nat \ {0}, NEW q \in Nat, NEW r \in 0 .. p - 1
  PROVE  (q * p + r) % p = r
<1> DEFINE x == q * p + r
<1>1. x \in Nat /\ x = p * (x \div p) + (x % p)
  BY SMT
<1>2. x \div p = q
  BY Quotient
<1>3. p * q = q * p /\ x % p \in Int
  BY <1>1
<1> QED BY <1>1, <1>2, <1>3

LEMMA Division ==
  ASSUME NEW p \in Nat \ {0}, NEW a \in Nat
  PROVE  \E q \in Nat, r \in 0 .. p - 1 : a = q * p + r /\ r = a % p
<1>1. a = p * (a \div p) + (a % p) /\ a \div p \in Nat /\ a % p \in 0 .. p - 1
  BY QuotientAndRemainder
<1>2. p * (a \div p) = (a \div p) * p
  BY <1>1
<1> QED BY <1>1, <1>2

LEMMA DecodeSum ==
  ASSUME NEW a \in Nat, NEW k \in Nat
  PROVE  Decode(Decode(a) + k) = Decode(a + k)
<1> DEFINE F == FlashSize
<1>1. F \in Nat \ {0}
  BY ChipType
<1> HIDE DEF F
<1>2. PICK q \in Nat, r \in 0 .. F - 1 : a = q * F + r /\ r = a % F
  BY <1>1, Division
<1>3. r + k \in Nat
  BY <1>1
<1>4. PICK p \in Nat, s \in 0 .. F - 1 : r + k = p * F + s /\ s = (r + k) % F
  BY <1>1, <1>3, Division
<1>5. a + k = (q + p) * F + s
  <2>1. (q + p) * F = q * F + p * F /\ q * F \in Nat /\ p * F \in Nat
    BY <1>1
  <2>2. a = q * F + r /\ r + k = p * F + s
    BY <1>2, <1>4
  <2>3. r \in Nat /\ s \in Nat
    BY <1>1
  <2> QED BY <2>1, <2>2, <2>3
<1>6. ((q + p) * F + s) % F = s
  <2>1. q + p \in Nat
    OBVIOUS
  <2> QED BY <1>1, <2>1, Remainder
<1>7. (a + k) % F = (r + k) % F
  BY <1>4, <1>5, <1>6
<1> QED BY <1>2, <1>7 DEF Decode, F

LEMMA AlignedDecode ==
  ASSUME NEW a \in Nat, a % SectorSize = 0
  PROVE  Decode(a) \in Addresses /\ Decode(a) % SectorSize = 0
<1> DEFINE S == SectorSize  F == FlashSize
<1>1. S \in Nat \ {0} /\ FlashSectors \in Nat
  BY GeometryAssumption
<1>2. F \in Nat \ {0} /\ F = FlashSectors * S
  BY ChipType DEF FlashSize
<1> HIDE DEF S, F
<1>3. PICK u \in Nat : a = S * u
  BY <1>1, MultipleIsProduct DEF S
<1>4. PICK q \in Nat, r \in 0 .. F - 1 : a = q * F + r /\ r = a % F
  BY <1>2, Division
<1> DEFINE v == q * FlashSectors
<1>5. v \in Nat /\ q * F = S * v
  BY <1>1, <1>2
<1>6. r \in Nat /\ S * u = S * v + r
  BY <1>2, <1>3, <1>4, <1>5
<1> HIDE DEF v
<1>7. r = S * (u - v)
  <2>1. S * (u - v) = S * u - S * v /\ S * u \in Nat /\ S * v \in Nat
    BY <1>1, <1>5
  <2> QED BY <1>6, <2>1
<1>8. u - v \in Nat
  <2>1. CASE u < v
    <3>1. S * u + S <= S * v
      <4>1. u + 1 <= v
        BY <1>5, <2>1
      <4>2. S * (u + 1) <= S * v
        BY <1>1, <1>5, <4>1
      <4>3. S * (u + 1) = S * u + S
        BY <1>1
      <4> QED BY <4>2, <4>3
    <3>2. S * u \in Nat /\ S * v \in Nat
      BY <1>1, <1>5
    <3> QED BY <1>1, <1>6, <3>1, <3>2
  <2> QED BY <1>5, <2>1
<1>9. (S * (u - v)) % S = 0
  BY <1>1, <1>8, ProductIsMultiple
<1>10. r % S = 0
  BY <1>7, <1>9
<1>11. Decode(a) = r
  BY <1>4 DEF Decode, F
<1> QED BY <1>10, <1>11, ChipType DEF S

LEMMA AimedSent ==
  ASSUME NEW brd \in Seq(Requests), NEW d \in Seq(Requests), NEW at, NEW c \in Nat, NEW E, NEW P,
         Aimed(brd, at, c, E, P), Addressed(d, E, P),
         d # <<>>, d[1].op \notin {"erase", "program"}
  PROVE  Aimed(brd \o d, at, c, E, P)
<1> DEFINE n == Len(brd)  m == Len(d)  q == brd \o d
           Good(op) == IF op = "erase" THEN E ELSE P
<1>1. /\ n \in Nat /\ m \in Nat \ {0} /\ Len(q) = n + m
      /\ \A i \in 1 .. n : q[i] = brd[i]
      /\ \A i \in 1 .. m : q[n + i] = d[i]
  BY QueueLonger, EmptySeq
<1>2. /\ \A i \in 2 .. n : brd[i].op \in {"erase", "program"} =>
           \/ brd[i - 1].op = "setAddr" /\ brd[i - 1].at \in Good(brd[i].op)
           \/ RunTo(brd, i)
      /\ \A i \in 2 .. m : d[i].op \in {"erase", "program"} =>
           \/ d[i - 1].op = "setAddr" /\ d[i - 1].at \in Good(d[i].op)
           \/ RunTo(d, i)
  BY DEF Aimed, Addressed
<1>3. brd = <<>> <=> n = 0
  BY EmptySeq
<1> HIDE DEF n, m, q, Good
<1>4. Addressed(q, E, P)
  <2> SUFFICES ASSUME NEW i \in 2 .. n + m, q[i].op \in {"erase", "program"}, ~RunTo(q, i)
               PROVE  q[i - 1].op = "setAddr" /\ q[i - 1].at \in Good(q[i].op)
    BY <1>1 DEF Addressed, Good
  <2>1. CASE i <= n
    <3>1. i \in 2 .. n /\ i - 1 \in 1 .. n /\ i \in 1 .. n
      BY <1>1, <2>1
    <3>2. q[i] = brd[i] /\ q[i - 1] = brd[i - 1]
      BY <1>1, <3>1
    <3>3. ~RunTo(brd, i)
      <4>1. \A j \in 1 .. i : q[j] = brd[j]
        BY <1>1, <3>1
      <4>2. 1 \in 1 .. i
        BY <3>1
      <4> QED BY <4>1, <4>2 DEF RunTo
    <3> QED BY <1>2, <3>1, <3>2, <3>3
  <2>2. CASE i = n + 1
    <3>1. 1 \in 1 .. m
      BY <1>1
    <3>2. q[i] = d[1]
      BY <1>1, <2>2, <3>1
    <3> QED BY <3>2
  <2>3. CASE i > n + 1
    <3>1. /\ i - n \in 2 .. m /\ i - n \in 1 .. m /\ (i - n) - 1 \in 1 .. m
          /\ n + (i - n) = i /\ n + ((i - n) - 1) = i - 1
      BY <1>1, <2>3
    <3>2. q[i] = d[i - n] /\ q[i - 1] = d[(i - n) - 1]
      BY <1>1, <3>1
    <3>3. ~RunTo(d, i - n)
      <4>1. i - n \in 1 .. i - n
        BY <3>1
      <4> QED BY <3>2, <4>1 DEF RunTo
    <3> QED BY <1>2, <3>1, <3>2, <3>3
  <2> QED BY <1>1, <2>1, <2>2, <2>3
<1>5. CASE n = 0
  <2>1. q[1] = d[1]
    <3>1. 1 \in 1 .. m /\ n + 1 = 1
      BY <1>1, <1>5
    <3> QED BY <1>1, <3>1
  <2> QED BY <1>4, <2>1 DEF Aimed, q
<1>6. CASE n # 0
  <2>1. 1 \in 1 .. n /\ q[1] = brd[1] /\ brd # <<>>
    BY <1>1, <1>3, <1>6
  <2>2. ASSUME q[1].op = "program"
        PROVE  \E a \in P, k \in 0 .. c :
                 /\ at = Decode(a + k)
                 /\ \A i \in 1 .. Len(q) : RunTo(q, i) => k + i - 1 <= c
    <3>1. PICK a \in P, k \in 0 .. c :
            at = Decode(a + k) /\ \A i \in 1 .. n : RunTo(brd, i) => k + i - 1 <= c
      BY <2>1, <2>2 DEF Aimed, n
    <3>2. ASSUME NEW i \in 1 .. Len(q), RunTo(q, i) PROVE k + i - 1 <= c
      <4>1. CASE i \in 1 .. n
        <5>1. \A j \in 1 .. i : q[j] = brd[j]
          BY <1>1, <4>1
        <5>2. RunTo(brd, i)
          BY <2>1, <3>2, <5>1 DEF RunTo
        <5> QED BY <3>1, <4>1, <5>2
      <4>2. CASE i \notin 1 .. n
        <5>1. n + 1 \in 1 .. i /\ 1 \in 1 .. m
          BY <1>1, <4>2
        <5>2. q[n + 1] = d[1]
          BY <1>1, <5>1
        <5> QED BY <2>2, <3>2, <5>1, <5>2 DEF RunTo
      <4> QED BY <4>1, <4>2
    <3> QED BY <3>1, <3>2
  <2>3. q[1].op = "erase" => \E a \in E : at = Decode(a)
    BY <2>1 DEF Aimed
  <2> QED BY <1>4, <2>2, <2>3 DEF Aimed, q
<1> QED BY <1>5, <1>6

LEMMA AimedRepeated ==
  ASSUME NEW brd \in Seq(Requests), NEW at, NEW c \in Nat, NEW E, NEW P,
         Aimed(brd, at, c, E, P)
  PROVE  /\ Aimed(brd, at, c + 1, E, P)
         /\ brd # <<>> => Aimed(Twice(brd), at, c + 1, E, P)
<1> DEFINE n == Len(brd)  w == Twice(brd)
<1>1. ASSUME brd # <<>>, brd[1].op = "program"
      PROVE  \E a \in P, k \in 0 .. c :
               /\ at = Decode(a + k)
               /\ \A i \in 1 .. n : RunTo(brd, i) => k + i - 1 <= c
  BY <1>1 DEF Aimed
<1>2. Aimed(brd, at, c + 1, E, P)
  <2>1. ASSUME brd # <<>>, brd[1].op = "program"
        PROVE  \E a \in P, k \in 0 .. c + 1 :
                 /\ at = Decode(a + k)
                 /\ \A i \in 1 .. n : RunTo(brd, i) => k + i - 1 <= c + 1
    <3>1. PICK a \in P, k \in 0 .. c :
            at = Decode(a + k) /\ \A i \in 1 .. n : RunTo(brd, i) => k + i - 1 <= c
      BY <1>1, <2>1
    <3>2. n \in Nat
      BY LenProperties
    <3>3. ASSUME NEW i \in 1 .. n, RunTo(brd, i) PROVE k + i - 1 <= c + 1
      <4>1. k + i - 1 <= c
        BY <3>1, <3>3
      <4> HIDE DEF n
      <4> QED BY <3>2, <4>1
    <3>4. k \in 0 .. c + 1
      OBVIOUS
    <3> QED BY <3>1, <3>3, <3>4
  <2> QED BY <2>1 DEF Aimed
<1>3. ASSUME brd # <<>> PROVE Aimed(w, at, c + 1, E, P)
  <2>1. /\ n \in Nat \ {0} /\ Len(w) = n + 1 /\ w[1] = brd[1]
        /\ \A i \in 2 .. n + 1 : w[i] = brd[i - 1]
    BY <1>3, QueueParts
  <2>2. Addressed(w, E, P)
    BY <1>3, AddressedKept DEF Aimed
  <2>3. ASSUME w[1].op = "program"
        PROVE  \E a \in P, k \in 0 .. c + 1 :
                 /\ at = Decode(a + k)
                 /\ \A i \in 1 .. Len(w) : RunTo(w, i) => k + i - 1 <= c + 1
    <3>1. PICK a \in P, k \in 0 .. c :
            at = Decode(a + k) /\ \A i \in 1 .. n : RunTo(brd, i) => k + i - 1 <= c
      BY <1>1, <1>3, <2>1, <2>3
    <3> HIDE DEF n, w
    <3>2. ASSUME NEW i \in 1 .. n + 1, RunTo(w, i) PROVE k + i - 1 <= c + 1
      <4>1. CASE i = 1
        BY <4>1
      <4>2. CASE i # 1
        <5>1. i - 1 \in 1 .. n
          BY <2>1, <4>2
        <5>2. ASSUME NEW j \in 1 .. i - 1 PROVE brd[j].op = brd[1].op
          <6>1. j + 1 \in 1 .. i /\ j + 1 \in 2 .. n + 1 /\ (j + 1) - 1 = j
            BY <2>1, <4>2
          <6>2. w[j + 1] = brd[j]
            BY <2>1, <6>1
          <6> QED BY <2>1, <3>2, <6>1, <6>2 DEF RunTo
        <5>3. k + (i - 1) - 1 <= c
          BY <3>1, <5>1, <5>2 DEF RunTo
        <5> QED BY <2>1, <5>3
      <4> QED BY <4>1, <4>2
    <3>3. k \in 0 .. c + 1
      OBVIOUS
    <3> QED BY <2>1, <3>1, <3>2, <3>3
  <2>4. w[1].op = "erase" => \E a \in E : at = Decode(a)
    BY <1>3, <2>1 DEF Aimed
  <2> QED BY <2>2, <2>3, <2>4 DEF Aimed
<1> QED BY <1>2, <1>3

\* How serving a datagram moves the register.
Moved(r, at, next) ==
  /\ r.op = "setAddr" => next = Decode(r.at)
  /\ r.op = "erase" => next = at
  /\ r.op = "program" => next \in {at, Decode(at + 1)}

LEMMA AimedServed ==
  ASSUME NEW brd \in Seq(Requests), brd # <<>>, NEW at, NEW next, NEW c \in Nat,
         NEW E \in SUBSET Nat, NEW P \in SUBSET Nat,
         Aimed(brd, at, c, E, P), Moved(Head(brd), at, next)
  PROVE  Aimed(Tail(brd), next, c, E, P)
<1> DEFINE n == Len(brd)  t == Tail(brd)
<1>1. /\ n \in Nat \ {0} /\ Head(brd) = brd[1] /\ Len(t) = n - 1
      /\ \A i \in 1 .. n - 1 : t[i] = brd[i + 1]
  BY QueueParts
<1>2. Addressed(t, E, P)
  BY AddressedKept DEF Aimed
<1>3. t # <<>> => n >= 2 /\ t[1] = brd[2]
  <2>1. t # <<>> => Len(t) # 0
    BY QueueTypes, EmptySeq
  <2>2. n >= 2 => 1 \in 1 .. n - 1 /\ 1 + 1 = 2
    BY <1>1
  <2> HIDE DEF n, t
  <2> QED BY <1>1, <2>1, <2>2
<1>4. \A i \in 2 .. n : brd[i].op \in {"erase", "program"} =>
        \/ /\ brd[i - 1].op = "setAddr"
           /\ brd[i - 1].at \in IF brd[i].op = "erase" THEN E ELSE P
        \/ RunTo(brd, i)
  BY DEF Aimed, Addressed
<1> HIDE DEF n, t
<1>5. ASSUME t # <<>>, t[1].op \in {"erase", "program"}
      PROVE  \/ brd[1].op = "setAddr" /\ brd[1].at \in IF t[1].op = "erase" THEN E ELSE P
             \/ brd[1].op = t[1].op
  <2>1. 2 \in 2 .. n /\ 2 - 1 = 1 /\ t[1] = brd[2]
    BY <1>1, <1>3, <1>5
  <2>2. RunTo(brd, 2) => brd[2].op = brd[1].op
    <3>1. 2 \in 1 .. 2
      OBVIOUS
    <3> QED BY <3>1 DEF RunTo
  <2> QED BY <1>4, <1>5, <2>1, <2>2
<1>6. ASSUME t # <<>>, t[1].op = "erase" PROVE \E a \in E : next = Decode(a)
  BY <1>1, <1>5, <1>6 DEF Aimed, Moved
<1>7. ASSUME t # <<>>, t[1].op = "program"
      PROVE  \E a \in P, k \in 0 .. c :
               /\ next = Decode(a + k)
               /\ \A i \in 1 .. n - 1 : RunTo(t, i) => k + i - 1 <= c
  <2>1. CASE brd[1].op = "setAddr"
    <3>1. brd[1].at \in P /\ next = Decode(brd[1].at) /\ brd[1].at \in Nat
      BY <1>1, <1>5, <1>7, <2>1 DEF Moved
    <3>2. ASSUME NEW i \in 1 .. n - 1, RunTo(t, i) PROVE i = 1
      <4>1. SUFFICES ASSUME i # 1 PROVE FALSE
        OBVIOUS
      <4>2. 2 \in 1 .. i /\ 2 \in 1 .. n - 1 /\ 2 + 1 = 3 /\ 3 \in 2 .. n /\ 3 - 1 = 2
        BY <1>1, <4>1
      <4>3. t[2].op = "program" /\ t[2] = brd[3] /\ t[1] = brd[2]
        BY <1>1, <1>3, <1>7, <3>2, <4>2 DEF RunTo
      <4>4. ~RunTo(brd, 3)
        <5>1. 3 \in 1 .. 3
          OBVIOUS
        <5> QED BY <2>1, <4>3, <5>1 DEF RunTo
      <4> QED BY <1>4, <1>7, <4>2, <4>3, <4>4
    <3>3. brd[1].at + 0 = brd[1].at /\ 0 \in 0 .. c
      BY <3>1
    <3>4. \A i \in 1 .. n - 1 : RunTo(t, i) => 0 + i - 1 <= c
      BY <3>2
    <3> QED BY <3>1, <3>3, <3>4
  <2>2. CASE brd[1].op = "program"
    <3>1. PICK a \in P, k \in 0 .. c :
            at = Decode(a + k) /\ \A i \in 1 .. n : RunTo(brd, i) => k + i - 1 <= c
      BY <2>2 DEF Aimed, n
    <3>2. ASSUME NEW i \in 1 .. n - 1, RunTo(t, i) PROVE k + (i + 1) - 1 <= c
      <4>1. ASSUME NEW j \in 1 .. i + 1 PROVE brd[j].op = brd[1].op
        <5>1. CASE j = 1
          BY <5>1
        <5>2. CASE j # 1
          <6>1. j - 1 \in 1 .. i /\ j - 1 \in 1 .. n - 1 /\ (j - 1) + 1 = j
            BY <1>1, <5>2
          <6>2. t[j - 1] = brd[j] /\ t[j - 1].op = t[1].op
            BY <1>1, <3>2, <6>1 DEF RunTo
          <6> QED BY <1>7, <2>2, <6>2
        <5> QED BY <5>1, <5>2
      <4>2. i + 1 \in 1 .. n /\ RunTo(brd, i + 1)
        BY <1>1, <4>1 DEF RunTo
      <4> QED BY <3>1, <4>2
    <3>3. CASE next = at
      <4>1. ASSUME NEW i \in 1 .. n - 1, RunTo(t, i) PROVE k + i - 1 <= c
        <5>1. k + (i + 1) - 1 <= c
          BY <3>2, <4>1
        <5> QED BY <1>1, <5>1
      <4> QED BY <3>1, <3>3, <4>1
    <3>4. CASE next = Decode(at + 1)
      <4>1. next = Decode(a + (k + 1))
        <5>1. a \in Nat /\ a + k \in Nat /\ (a + k) + 1 = a + (k + 1)
          OBVIOUS
        <5> QED BY <3>1, <3>4, <5>1, DecodeSum
      <4>2. k + 1 \in 0 .. c
        <5>1. 1 \in 1 .. n - 1 /\ RunTo(t, 1)
          BY <1>1, <1>3, <1>7 DEF RunTo
        <5>2. k + (1 + 1) - 1 <= c
          BY <3>2, <5>1
        <5> QED BY <5>2
      <4>3. ASSUME NEW i \in 1 .. n - 1, RunTo(t, i) PROVE (k + 1) + i - 1 <= c
        <5>1. k + (i + 1) - 1 <= c
          BY <3>2, <4>3
        <5> QED BY <1>1, <5>1
      <4> QED BY <4>1, <4>2, <4>3
    <3> QED BY <1>1, <2>2, <3>3, <3>4 DEF Moved
  <2> QED BY <1>5, <1>7, <2>1, <2>2
<1> QED BY <1>1, <1>2, <1>6, <1>7 DEF Aimed, t

\* The addresses of the sectors and the pages that the program means.
Repaired == IF setup.fix /\ ~setup.boot THEN {0} ELSE {}
SectorStarts == {StartRight + i * SectorSize : i \in 0 .. LastSector} \cup Repaired
PageStarts == {StartRight + i : i \in 0 .. Len(Image) - 1} \cup Repaired

NothingLost == lost = 0 /\ (HasBootBlock(setup) \/ repeated = 0)

AllAimed == NothingLost => Aimed(toBoard, reg, repeated, SectorStarts, PageStarts)

LEMMA StartsType ==
  TypeInv => SectorStarts \in SUBSET Nat /\ PageStarts \in SUBSET Nat
<1> SUFFICES ASSUME TypeInv PROVE SectorStarts \in SUBSET Nat /\ PageStarts \in SUBSET Nat
  OBVIOUS
<1>1. StartRight \in Nat /\ LastSector \in Nat /\ Len(Image) \in Nat
  BY Areas, ImageType DEF StartRight
<1>2. ASSUME NEW i \in 0 .. LastSector PROVE StartRight + i * SectorSize \in Nat
  <2>1. i * SectorSize \in Nat
    BY <1>1, GeometryAssumption
  <2> QED BY <1>1, <2>1
<1>3. ASSUME NEW i \in 0 .. Len(Image) - 1 PROVE StartRight + i \in Nat
  BY <1>1
<1>4. Repaired \subseteq Nat
  BY DEF Repaired
<1> QED BY <1>2, <1>3, <1>4 DEF SectorStarts, PageStarts

\* Every call erases or programs behind its address, and at one that is meant.
LEMMA CallAddressed ==
  ASSUME TypeInv, Lockstep, RightId, Untouched, NothingLost, pc \notin Final
  PROVE  /\ Addressed(Datagrams, SectorStarts, PageStarts)
         /\ Datagrams # <<>> /\ Datagrams[1].op \notin {"erase", "program"}
<1> DEFINE E == SectorStarts  P == PageStarts
<1>1. \A op : Order(op).op = op /\ \A a, p : Request(op, a, p).op = op /\ Request(op, a, p).at = a
  BY DEF Order, Request
<1>2. pc \in {"erase", "program"} => Start = StartRight
  BY DEF Lockstep, RightId, NothingLost, Writing, BeforeId, Final, Start, StartRight
<1>3. pc \in {"eraseBoot", "writeBoot"} => 0 \in E /\ 0 \in P
  BY DEF Untouched, NothingLost, Repairing, SectorStarts, PageStarts, Repaired
<1>4. CASE pc \in BeforeId
  <2>1. PICK op \in EarlyOps : Datagrams = <<Order(op)>>
    BY <1>4, DatagramsOf DEF BeforeId, EarlyOps
  <2>2. Len(Datagrams) = 1 /\ Datagrams[1].op = op /\ Datagrams # <<>>
    BY <1>1, <2>1
  <2> QED BY <2>2 DEF Addressed, EarlyOps
<1>5. CASE pc \in {"checkBoot", "recheckBoot", "verifyBoot", "compare"}
  <2>1. PICK a : Datagrams = ReadPage(a)
    BY <1>5, DatagramsOf
  <2>2. Len(Datagrams) = 2 /\ Datagrams[1].op = "setAddr" /\ Datagrams[2].op = "readPage"
        /\ Datagrams # <<>>
    BY <1>1, <2>1 DEF ReadPage
  <2>3. 2 .. 2 = {2}
    OBVIOUS
  <2> QED BY <2>2, <2>3 DEF Addressed
<1>6. CASE pc \in {"eraseBoot", "erase"}
  <2>1. PICK a \in E : Datagrams = EraseSector(a)
    <3>1. CASE pc = "erase"
      <4>1. index \in 0 .. LastSector
        BY <3>1, Areas DEF TypeInv, TypeOK
      <4>2. Start + index * SectorSize \in E
        BY <1>2, <3>1, <4>1 DEF SectorStarts
      <4> QED BY <3>1, <4>2, DatagramsOf
    <3> QED BY <1>3, <1>6, <3>1, DatagramsOf
  <2>2. /\ Len(Datagrams) = 3 /\ Datagrams # <<>>
        /\ Datagrams[1].op = "setAddr" /\ Datagrams[1].at = a
        /\ Datagrams[2].op = "erase" /\ Datagrams[3].op = "readAddr"
    BY <1>1, <2>1 DEF EraseSector
  <2>3. 2 .. 3 = {2, 3} /\ 2 - 1 = 1
    OBVIOUS
  <2> QED BY <2>2, <2>3 DEF Addressed
<1>7. CASE pc \in {"writeBoot", "program"}
  <2>1. PICK a \in P : \E page : Datagrams = WritePage(a, page)
    <3>1. CASE pc = "program"
      <4>1. index \in 0 .. Len(Image) - 1
        BY <3>1, ImageType DEF TypeInv, TypeOK
      <4>2. Start + index \in P
        BY <1>2, <3>1, <4>1 DEF PageStarts
      <4> QED BY <3>1, <4>2, DatagramsOf
    <3> QED BY <1>3, <1>7, <3>1, DatagramsOf
  <2>2. /\ Len(Datagrams) = 3 /\ Datagrams # <<>>
        /\ Datagrams[1].op = "setAddr" /\ Datagrams[1].at = a
        /\ Datagrams[2].op = "program" /\ Datagrams[3].op = "readAddr"
    BY <1>1, <2>1 DEF WritePage
  <2>3. 2 .. 3 = {2, 3} /\ 2 - 1 = 1
    OBVIOUS
  <2> QED BY <2>2, <2>3 DEF Addressed
<1> QED BY <1>4, <1>5, <1>6, <1>7 DEF TypeInv, TypeOK, BeforeId, Final

LEMMA AimedInit == Init => AllAimed
<1> SUFFICES ASSUME Init PROVE AllAimed
  OBVIOUS
<1>1. toBoard = <<>> /\ Len(toBoard) = 0
  BY DEF Init
<1>2. 2 .. 0 = {}
  OBVIOUS
<1> QED BY <1>1, <1>2 DEF AllAimed, Aimed, Addressed

\* What serving the head of the queue does to register and flash.
LEMMA BoardMoves ==
  ASSUME TypeInv, Board
  PROVE  /\ Moved(Head(toBoard), reg, reg')
         /\ \/ flash' = flash
            \/ Head(toBoard).op = "erase" /\ flash' = SectorErased(flash, reg)
            \/ /\ Head(toBoard).op = "program"
               /\ \A x \in Addresses \ {reg} : flash'[x] = flash[x]
<1>1. CASE SetAddress
  BY <1>1 DEF SetAddress, Serve, Moved
<1>2. CASE Erase
  BY <1>2 DEF Erase, Serve, Moved
<1>3. CASE ProgramPage
  BY <1>3 DEF ProgramPage, Serve, Moved, AfterTransfer, TypeInv, TypeOK, Memory
<1>4. CASE SendPage
  BY <1>4 DEF SendPage, Serve, Moved
<1>5. ASSUME NEW op, NEW kind, Reply(op, kind), op \notin {"setAddr", "erase", "program"}
      PROVE  Moved(Head(toBoard), reg, reg') /\ flash' = flash
  BY <1>5 DEF Reply, Serve, boardVars, Moved
<1> QED BY <1>1, <1>2, <1>3, <1>4, <1>5 DEF Board

LEMMA AimedNext ==
  TypeInv /\ Lockstep /\ RightId /\ Untouched /\ AllAimed /\ [Next]_vars => AllAimed'
<1> SUFFICES ASSUME TypeInv, Lockstep, RightId, Untouched, AllAimed, [Next]_vars, NothingLost'
             PROVE  Aimed(toBoard, reg, repeated, SectorStarts, PageStarts)'
  BY DEF AllAimed
<1> DEFINE E == SectorStarts  P == PageStarts
<1>1. setup' = setup /\ NothingLost /\ ~Lose
  BY LossesStay, RemoteAssumption DEF NothingLost, HasBootBlock, TypeInv, TypeOK
<1>2. SectorStarts' = E /\ PageStarts' = P
  BY <1>1 DEF SectorStarts, PageStarts, Repaired, StartRight, StartAddress, UserSpaceOf
<1>3. /\ Aimed(toBoard, reg, repeated, E, P) /\ toBoard \in Seq(Requests) /\ repeated \in Nat
      /\ E \in SUBSET Nat /\ P \in SUBSET Nat
  BY <1>1, StartsType, RemoteAssumption DEF AllAimed, TypeInv, TypeOK
<1> SUFFICES Aimed(toBoard', reg', repeated', E, P)
  BY <1>2 DEF Aimed, Addressed, RunTo
<1> HIDE DEF E, P
<1>4. CASE Send
  <2>1. /\ toBoard' = toBoard \o Datagrams /\ UNCHANGED <<reg, repeated>> /\ pc \notin Final
        /\ Datagrams \in Seq(Requests)
    BY <1>4, DatagramsType DEF Send, boardVars, wireVars
  <2>2. /\ Addressed(Datagrams, E, P)
        /\ Datagrams # <<>> /\ Datagrams[1].op \notin {"erase", "program"}
    BY <1>1, <2>1, CallAddressed DEF E, P
  <2> QED BY <1>3, <2>1, <2>2, AimedSent
<1>5. CASE Host /\ ~Send
  <2>1. UNCHANGED <<toBoard, reg, repeated>>
    BY <1>5, ReceiveSteps DEF Receive, ScanTimeout, boardVars, wireVars
  <2> QED BY <1>3, <2>1
<1>6. CASE Board
  <2>1. /\ toBoard # <<>> /\ toBoard' = Tail(toBoard) /\ repeated' = repeated
        /\ Moved(Head(toBoard), reg, reg')
    BY <1>6, BoardReplies, BoardMoves DEF wireVars
  <2> QED BY <1>3, <2>1, AimedServed
<1>7. CASE Repeat
  <2>1. /\ reg' = reg /\ repeated' = repeated + 1
        /\ toBoard' = toBoard \/ (toBoard # <<>> /\ toBoard' = Twice(toBoard))
    BY <1>7 DEF Repeat, boardVars
  <2> QED BY <1>3, <2>1, AimedRepeated
<1>8. CASE UNCHANGED vars
  BY <1>3, <1>8 DEF vars, boardVars, wireVars
<1> QED BY <1>1, <1>4, <1>5, <1>6, <1>7, <1>8 DEF Next

\* The cells of a sector and of a page that was aimed at are the file's own,
\* or the boot block's.
LEMMA SectorsOwn ==
  ASSUME TypeInv, NEW a \in SectorStarts
  PROVE  SectorOf(Decode(a)) \subseteq OwnSectors \cup BootCells
<1> SUFFICES ASSUME NEW x \in SectorOf(Decode(a)) PROVE x \in OwnSectors \cup BootCells
  OBVIOUS
<1>1. /\ SectorSize \in Nat \ {0} /\ StartRight \in Nat /\ LastSector \in Nat /\ x \in Addresses
      /\ x \in Nat
  BY Areas, GeometryAssumption DEF StartRight, SectorOf, Addresses
<1>2. StartRight % SectorSize = 0
  <2>1. UserSpace % SectorSize = 0 /\ UserSpaceOf("right") = UserSpace
    BY Areas DEF UserSpaceOf
  <2>2. 0 % SectorSize = 0 /\ SectorSize % SectorSize = 0
    BY <1>1
  <2>3. StartRight \in {0, SectorSize, UserSpace}
    BY <2>1 DEF StartRight, StartAddress
  <2> QED BY <2>1, <2>2, <2>3
<1>3. ASSUME NEW b \in Nat, b % SectorSize = 0, a = b
      PROVE  \E r \in 0 .. SectorSize - 1 : x = Decode(b + r)
  <2>1. Decode(b) \in Addresses /\ Decode(b) % SectorSize = 0
    BY <1>3, AlignedDecode
  <2>2. Decode(b) \in Nat
    BY <2>1 DEF Addresses
  <2>3. x \in Decode(b) .. Decode(b) + SectorSize - 1
    BY <1>1, <1>3, <2>1, SectorCells
  <2> DEFINE r == x - Decode(b)
  <2>4. r \in 0 .. SectorSize - 1 /\ Decode(b) + r = x
    BY <1>1, <2>2, <2>3
  <2>5. Decode(x) = x
    <3>1. FlashSize \in Nat \ {0} /\ x \in 0 .. FlashSize - 1
      BY <1>1, ChipType DEF Addresses
    <3> QED BY ONLY <3>1 DEF Decode
  <2> QED BY <2>4, <2>5, DecodeSum
<1>4. CASE a \in Repaired
  <2>1. a = 0 /\ setup.fix /\ ~setup.boot
    BY <1>4 DEF Repaired
  <2>2. 0 % SectorSize = 0
    BY <1>1
  <2>3. PICK r \in 0 .. SectorSize - 1 : x = Decode(0 + r)
    BY <1>3, <2>1, <2>2
  <2> QED BY <1>1, <2>1, <2>3 DEF BootCells, Reached
<1>5. CASE a \notin Repaired
  <2>1. PICK i \in 0 .. LastSector : a = StartRight + i * SectorSize
    BY <1>5 DEF SectorStarts
  <2>2. i * SectorSize \in Nat /\ (i * SectorSize) % SectorSize = 0
    <3>1. i * SectorSize = SectorSize * i /\ i * SectorSize \in Nat
      BY <1>1
    <3> QED BY <1>1, <3>1, ProductIsMultiple
  <2>3. a \in Nat /\ a % SectorSize = 0
    <3>1. PICK u \in Nat : StartRight = SectorSize * u
      BY <1>1, <1>2, MultipleIsProduct
    <3>2. SectorSize * (u + i) = SectorSize * u + SectorSize * i
      BY <1>1
    <3>3. SectorSize * i = i * SectorSize /\ u + i \in Nat
      BY <1>1
    <3>4. a = SectorSize * (u + i)
      BY <2>1, <3>1, <3>2, <3>3
    <3>5. a \in Nat
      BY <1>1, <2>1, <2>2
    <3> QED BY <1>1, <3>3, <3>4, <3>5, ProductIsMultiple
  <2>4. PICK r \in 0 .. SectorSize - 1 : x = Decode(a + r)
    BY <1>3, <2>3
  <2> DEFINE k == i * SectorSize + r
  <2>5. a + r = StartRight + k
    BY <1>1, <2>1, <2>2
  <2>6. k \in 0 .. (LastSector + 1) * SectorSize - 1
    <3>1. i * SectorSize + SectorSize <= (LastSector + 1) * SectorSize
      <4>1. (i + 1) * SectorSize <= (LastSector + 1) * SectorSize
        BY <1>1
      <4>2. (i + 1) * SectorSize = i * SectorSize + SectorSize
        BY <1>1
      <4> QED BY <4>1, <4>2
    <3>2. (LastSector + 1) * SectorSize \in Nat
      BY <1>1
    <3> QED BY <1>1, <2>2, <3>1, <3>2
  <2>7. x = Decode(StartRight + k)
    BY <2>4, <2>5
  <2> HIDE DEF k
  <2> QED BY <1>1, <2>6, <2>7 DEF OwnSectors, Reached, StartRight
<1> QED BY <1>4, <1>5

LEMMA PagesOwn ==
  ASSUME TypeInv, NEW a \in PageStarts, NEW k \in 0 .. repeated
  PROVE  Decode(a + k) \in OwnPages \cup BootCells
<1>1. StartRight \in Nat /\ Len(Image) \in Nat /\ repeated \in Nat /\ a \in Nat
  BY Areas, ImageType, StartsType, RemoteAssumption DEF StartRight, TypeInv, TypeOK
<1>2. Decode(a + k) \in Addresses
  BY <1>1, ChipType
<1>3. CASE a \in Repaired
  <2>1. a = 0 /\ setup.fix /\ ~setup.boot /\ k \in 0 .. (1 + repeated) - 1
    BY <1>1, <1>3 DEF Repaired
  <2> QED BY <1>2, <2>1 DEF BootCells, Reached
<1>4. CASE a \notin Repaired
  <2>1. PICK i \in 0 .. Len(Image) - 1 : a = StartRight + i
    BY <1>4 DEF PageStarts
  <2>2. i + k \in 0 .. (Len(Image) + repeated) - 1 /\ a + k = StartRight + (i + k)
    BY <1>1, <2>1
  <2> QED BY <1>2, <2>2 DEF OwnPages, Reached, StartRight
<1> QED BY <1>3, <1>4

LEMMA OthersStep ==
  ASSUME TypeInv, AllAimed, [Next]_vars, NothingLost,
         NEW x \in Addresses \ (OwnSectors \cup OwnPages \cup BootCells)
  PROVE  flash'[x] = flash[x]
<1>1. CASE Board
  <2>1. /\ toBoard # <<>> /\ toBoard \in Seq(Requests) /\ Head(toBoard) = toBoard[1]
        /\ Aimed(toBoard, reg, repeated, SectorStarts, PageStarts)
    BY <1>1, BoardReplies, QueueParts DEF AllAimed, TypeInv, TypeOK
  <2>2. CASE flash' = flash
    BY <2>2
  <2>3. CASE Head(toBoard).op = "erase" /\ flash' = SectorErased(flash, reg)
    <3>1. PICK a \in SectorStarts : reg = Decode(a)
      BY <2>1, <2>3 DEF Aimed
    <3>2. x \notin SectorOf(reg)
      BY <3>1, SectorsOwn
    <3> QED BY <2>3, <3>2 DEF SectorErased
  <2>4. CASE /\ Head(toBoard).op = "program"
             /\ \A y \in Addresses \ {reg} : flash'[y] = flash[y]
    <3>1. PICK a \in PageStarts, k \in 0 .. repeated : reg = Decode(a + k)
      BY <2>1, <2>4 DEF Aimed
    <3>2. x # reg
      BY <3>1, PagesOwn
    <3> QED BY <2>4, <3>2
  <2> QED BY <1>1, <2>2, <2>3, <2>4, BoardMoves
<1>2. CASE Host /\ ~Send /\ ~ScanTimeout
  BY <1>2, ReceiveSteps DEF Receive, boardVars
<1>3. CASE Send \/ ScanTimeout \/ Lose \/ Repeat \/ UNCHANGED vars
  BY <1>3 DEF Send, ScanTimeout, Lose, Repeat, vars, boardVars
<1> QED BY <1>1, <1>2, <1>3 DEF Next

RemoteInv == TypeInv /\ Lockstep /\ EarlyOnly /\ RightId /\ Untouched /\ AllAimed

\* Without losses, and on a board whose boot block is looked at first or whose
\* answers come once, nothing but the sectors and pages of the file and a boot
\* block that is being repaired changes, but for the pages behind one that the
\* network delivered again.
THEOREM RemoteOthersKept == Spec => OthersKept
<1>1. Init => RemoteInv
  BY TypeInit, LockstepInit, EarlyInit, RightIdInit, UntouchedInit, AimedInit DEF RemoteInv
<1>2. RemoteInv /\ [Next]_vars => RemoteInv'
  BY TypeNext, LockstepNext, EarlyNext, RightIdNext, UntouchedNext, AimedNext DEF RemoteInv
<1>3. RemoteInv /\ [Next]_vars =>
        [ lost = 0 /\ (HasBootBlock(setup) \/ repeated = 0)
            => \A x \in Addresses \ (OwnSectors \cup OwnPages \cup BootCells) :
                 flash'[x] = flash[x] ]_vars
  BY OthersStep DEF RemoteInv, NothingLost
<1> QED BY <1>1, <1>2, <1>3, PTL DEF Spec, OthersKept
=============================================================================
