--------------------------- MODULE InitramfsProofs ---------------------------
(***************************************************************************)
(* Proofs about Initramfs, for a binary of any length.                     *)
(***************************************************************************)
EXTENDS Initramfs, TLAPS

USE BinariesAssumption

(***************************************************************************)
(* pad() writes up to where the kernel looks.                              *)
(***************************************************************************)
LEMMA PaddedBounds ==
    ASSUME NEW n \in Nat
    PROVE  Padded(n) \in n .. n + 3 /\ Padded(n) % 4 = 0
<1> DEFINE q == (n + 3) \div 4
<1>1. q \in Nat /\ 4 * q <= n + 3 /\ n + 3 < 4 * q + 4
    OBVIOUS
<1>2. (4 * q) % 4 = 0
    BY <1>1
<1>3. QED
    BY <1>1, <1>2 DEF Padded

LEMMA AlignedIsPadded ==
    ASSUME NEW n \in Nat
    PROVE  Aligned(n) = Padded(n)
<1>1. \E m \in n .. n + 3 : m % 4 = 0
    BY PaddedBounds
<1>2. Aligned(n) \in n .. n + 3 /\ Aligned(n) % 4 = 0
    BY <1>1 DEF Aligned
<1>3. \A a, b \in n .. n + 3 : a % 4 = 0 /\ b % 4 = 0 => a = b
    OBVIOUS
<1>4. QED
    BY <1>2, <1>3, PaddedBounds

\* What the proofs need to know of the table of entries.
LEMMA EntriesCount == Len(Entries) = 6 /\ Trailer = 7 /\ Member = 1 .. 7
<1>1. Len(Entries) = 6
    BY DEF Entries
<1>2. QED
    BY <1>1 DEF Trailer, Member

LEMMA OnlyConsoleIsInADirectory ==
    /\ \A k \in 1 .. 6 : Entries[k].in = "" \/ (k = 5 /\ Entries[k].in = "dev")
    /\ Entries[1].name = "dev"
<1>1. /\ Entries[1].in = "" /\ Entries[2].in = "" /\ Entries[3].in = ""
      /\ Entries[4].in = "" /\ Entries[5].in = "dev" /\ Entries[6].in = ""
      /\ Entries[1].name = "dev"
    BY DEF Entries, Entry
<1>2. \A k \in 1 .. 6 : k = 1 \/ k = 2 \/ k = 3 \/ k = 4 \/ k = 5 \/ k = 6
    OBVIOUS
<1>3. QED
    BY <1>1, <1>2

LEMMA NameLenNat ==
    ASSUME NEW k \in 1 .. 7
    PROVE  NameLen(k) \in Nat
<1>1. CASE k = 7
    BY <1>1, EntriesCount DEF NameLen
<1>2. CASE k # 7
    <2>1. /\ Entries[1].length = 3 /\ Entries[2].length = 4 /\ Entries[3].length = 3
          /\ Entries[4].length = 3 /\ Entries[5].length = 11 /\ Entries[6].length = 4
        BY DEF Entries, Entry
    <2>2. k = 1 \/ k = 2 \/ k = 3 \/ k = 4 \/ k = 5 \/ k = 6
        BY <1>2
    <2>3. Entries[k].length \in Nat
        BY <2>1, <2>2
    <2>4. QED
        BY <1>2, <2>3, EntriesCount DEF NameLen
<1>3. QED
    BY <1>1, <1>2

LEMMA FileSizeNat ==
    ASSUME binary \in Binaries, NEW k \in 1 .. 7
    PROVE  FileSize(k) \in Nat
BY DEF FileSize

-----------------------------------------------------------------------------

\* Where an entry put at offset h has its data, and where the next one goes.
DataOf(k, h) == Padded(h + HeaderLen + NameLen(k) + 1)
NextOf(k, h) == Padded(DataOf(k, h) + FileSize(k))

(***************************************************************************)
(* The inductive invariant: entries lie one after the other, each at the   *)
(* offset the one before it ends at, and the kernel stands at the header   *)
(* that follows what it has unpacked.                                      *)
(***************************************************************************)
Layout ==
    /\ \A k \in 1 .. Len(buf) :
           /\ buf[k].name = buf[k].header + HeaderLen
           /\ buf[k].data = DataOf(k, buf[k].header)
           /\ buf[k].header + HeaderLen <= len
           /\ NextOf(k, buf[k].header) = IF k = Len(buf) THEN len ELSE buf[k + 1].header
    /\ \A j, k \in 1 .. Len(buf) : j < k => buf[j].header < buf[k].header
    /\ IF buf = <<>> THEN len = 0 ELSE buf[1].header = 0

Progress ==
    /\ reader = "waiting" => pos = 0 /\ unpacked = <<>>
    /\ reader # "waiting" => Len(buf) = 7 /\ Len(unpacked) <= 6
                             /\ pos = buf[Len(unpacked) + 1].header
    /\ \A k \in 1 .. Len(unpacked) : unpacked[k] = k
    /\ reader = "done" => Len(unpacked) = 6

ArchiveInv == ArchiveTypeOK /\ Layout /\ Progress

LEMMA ArchiveInvInit ==
    ASSUME ArchiveInit
    PROVE  ArchiveInv
<1>1. ArchiveTypeOK
    <2>1. <<>> \in Seq(Place) /\ <<>> \in Seq(1 .. Len(Entries))
        OBVIOUS
    <2>2. Len(<<>>) <= Trailer
        BY EntriesCount
    <2>3. QED
        BY <2>1, <2>2 DEF ArchiveInit, ArchiveTypeOK
<1>2. Layout /\ Progress
    BY DEF ArchiveInit, Layout, Progress
<1>3. QED
    BY <1>1, <1>2 DEF ArchiveInv

LEMMA NextOfBounds ==
    ASSUME binary \in Binaries, NEW k \in 1 .. 7, NEW h \in Nat
    PROVE  /\ DataOf(k, h) \in Nat /\ NextOf(k, h) \in Nat
           /\ h + HeaderLen <= NextOf(k, h)
<1>1. h + HeaderLen + NameLen(k) + 1 \in Nat
    BY NameLenNat DEF HeaderLen
<1>2. DataOf(k, h) \in Nat /\ h + HeaderLen + NameLen(k) + 1 <= DataOf(k, h)
    BY <1>1, PaddedBounds DEF DataOf
<1>3. DataOf(k, h) + FileSize(k) \in Nat
    BY <1>2, FileSizeNat
<1>4. NextOf(k, h) \in Nat /\ DataOf(k, h) + FileSize(k) <= NextOf(k, h)
    BY <1>3, PaddedBounds DEF NextOf
<1>5. QED
    BY <1>1, <1>2, <1>4, FileSizeNat, NameLenNat DEF HeaderLen

-----------------------------------------------------------------------------

LEMMA AddStep ==
    ASSUME ArchiveInv, Add
    PROVE  ArchiveInv'
<1> DEFINE K == Len(buf) + 1
           new == [header |-> len, name |-> len + HeaderLen, data |-> DataOf(K, len)]
<1>1. /\ binary \in Binaries /\ len \in Nat /\ Len(buf) \in Nat /\ K \in 1 .. 7
      /\ buf \in Seq(Place)
    <2>1. binary \in Binaries /\ len \in Nat /\ buf \in Seq(Place)
        BY DEF ArchiveInv, ArchiveTypeOK
    <2>2. Len(buf) \in Nat
        BY <2>1
    <2>3. Len(buf) < 7
        BY EntriesCount DEF Add
    <2>4. QED
        BY <2>1, <2>2, <2>3
<1>2. buf' = Append(buf, new) /\ len' = NextOf(K, len)
    BY DEF Add, DataOf, NextOf
<1>3. /\ DataOf(K, len) \in Nat /\ NextOf(K, len) \in Nat
      /\ len + HeaderLen <= NextOf(K, len) /\ len + HeaderLen \in Nat
    <2>1. len + HeaderLen \in Nat
        BY <1>1 DEF HeaderLen
    <2>2. QED
        BY <1>1, <2>1, NextOfBounds
<1>0. new \in Place
    BY <1>1, <1>3 DEF Place
<1>4. /\ Len(buf') = K /\ buf'[K] = new /\ \A k \in 1 .. Len(buf) : buf'[k] = buf[k]
      /\ buf' \in Seq(Place)
    BY <1>0, <1>1, <1>2
<1>5. \A k \in 1 .. K : k = K \/ (k \in 1 .. Len(buf) /\ k # K)
    BY <1>1
<1>6. new.header = len /\ new.name = len + HeaderLen /\ new.data = DataOf(K, len)
    OBVIOUS
<1>7. \A k, h : DataOf(k, h)' = DataOf(k, h) /\ NextOf(k, h)' = NextOf(k, h)
    BY DEF Add, DataOf, NextOf, FileSize, NameLen, Padded
<1>8. ArchiveTypeOK'
    BY <1>1, <1>2, <1>3, <1>4, EntriesCount DEF ArchiveInv, ArchiveTypeOK, Add, readerVars
<1>9. \A k \in 1 .. Len(buf) : buf[k].header \in Nat /\ buf[k].header < len
    <2>1. \A k \in 1 .. Len(buf) : buf[k] \in Place
        BY <1>1
    <2>2. \A k \in 1 .. Len(buf) : buf[k].header + HeaderLen <= len
        BY DEF ArchiveInv, Layout
    <2>3. SUFFICES ASSUME NEW k \in 1 .. Len(buf)
          PROVE  buf[k].header \in Nat /\ buf[k].header < len
        OBVIOUS
    <2>4. buf[k].header \in Nat
        BY <2>1 DEF Place
    <2>5. buf[k].header + 110 <= len
        BY <2>2 DEF HeaderLen
    <2>6. len \in Nat
        BY <1>1
    <2>7. QED
        BY <2>4, <2>5, <2>6
<1>10. Layout'
    <2>1. \A k \in 1 .. Len(buf') :
             /\ buf'[k].name = buf'[k].header + HeaderLen
             /\ buf'[k].data = DataOf(k, buf'[k].header)
             /\ buf'[k].header + HeaderLen <= len'
             /\ NextOf(k, buf'[k].header) = IF k = Len(buf') THEN len' ELSE buf'[k + 1].header
        <3> SUFFICES ASSUME NEW k \in 1 .. K
                     PROVE  /\ buf'[k].name = buf'[k].header + HeaderLen
                            /\ buf'[k].data = DataOf(k, buf'[k].header)
                            /\ buf'[k].header + HeaderLen <= len'
                            /\ NextOf(k, buf'[k].header)
                                  = IF k = K THEN len' ELSE buf'[k + 1].header
            BY <1>4
        <3>1. CASE k = K
            BY <3>1, <1>2, <1>3, <1>4, <1>6
        <3>2. CASE k # K
            <4>1. k \in 1 .. Len(buf) /\ buf'[k] = buf[k]
                BY <3>2, <1>4, <1>5
            <4>2. /\ buf[k].name = buf[k].header + HeaderLen
                  /\ buf[k].data = DataOf(k, buf[k].header)
                  /\ buf[k].header + HeaderLen <= len
                  /\ NextOf(k, buf[k].header) = IF k = Len(buf) THEN len ELSE buf[k + 1].header
                BY <4>1 DEF ArchiveInv, Layout
            <4>3. buf[k].header + HeaderLen <= len'
                <5>1. HeaderLen \in Nat /\ buf[k].header \in Nat
                    BY <4>1, <1>9 DEF HeaderLen
                <5>2. len <= len'
                    BY <5>1, <1>1, <1>2, <1>3
                <5>3. QED
                    BY <4>1, <4>2, <5>1, <5>2, <1>1, <1>2, <1>3
            <4>4. (IF k = Len(buf) THEN len ELSE buf[k + 1].header) = buf'[k + 1].header
                <5>1. CASE k = Len(buf)
                    BY <5>1, <1>4, <1>6
                <5>2. CASE k # Len(buf)
                    <6>1. k + 1 \in 1 .. Len(buf)
                        BY <4>1, <5>2, <1>1
                    <6>2. QED
                        BY <6>1, <5>2, <1>4
                <5>3. QED
                    BY <5>1, <5>2
            <4>5. QED
                BY <3>2, <4>1, <4>2, <4>3, <4>4
        <3>3. QED
            BY <3>1, <3>2
    <2>2. \A j, k \in 1 .. Len(buf') : j < k => buf'[j].header < buf'[k].header
        <3> SUFFICES ASSUME NEW j \in 1 .. K, NEW k \in 1 .. K, j < k
                     PROVE  buf'[j].header < buf'[k].header
            BY <1>4
        <3>1. j \in 1 .. Len(buf) /\ buf'[j] = buf[j]
            <4>1. j \in 1 .. Len(buf)
                BY <1>1
            <4>2. QED
                BY <4>1, <1>4
        <3>2. CASE k = K
            BY <3>1, <3>2, <1>4, <1>6, <1>9
        <3>3. CASE k # K
            <4>1. k \in 1 .. Len(buf) /\ buf'[k] = buf[k]
                BY <3>3, <1>4, <1>5
            <4>2. QED
                BY <3>1, <4>1 DEF ArchiveInv, Layout
        <3>4. QED
            BY <3>2, <3>3
    <2>3. buf' # <<>> /\ buf'[1].header = 0
        <3>1. buf' # <<>>
            BY <1>1, <1>4
        <3>2. CASE buf = <<>>
            <4>1. Len(buf) = 0 /\ len = 0
                BY <3>2 DEF ArchiveInv, Layout
            <4>2. buf'[1] = new
                BY <4>1, <1>4
            <4>3. QED
                BY <3>1, <4>1, <4>2, <1>6
        <3>3. CASE buf # <<>>
            <4>1. 1 \in 1 .. Len(buf)
                BY <3>3, <1>1
            <4>2. QED
                BY <3>3, <4>1, <1>4 DEF ArchiveInv, Layout
        <3>4. QED
            BY <3>1, <3>2, <3>3
    <2>4. QED
        BY <2>1, <2>2, <2>3, <1>7 DEF Layout
<1>11. Progress'
    BY DEF ArchiveInv, Progress, Add, readerVars
<1>12. QED
    BY <1>8, <1>10, <1>11 DEF ArchiveInv

LEMMA StartStep ==
    ASSUME ArchiveInv, StartKernel
    PROVE  ArchiveInv'
<1>1. ArchiveTypeOK'
    BY DEF ArchiveInv, ArchiveTypeOK, StartKernel, writerVars
<1>2. Layout'
    BY DEF ArchiveInv, Layout, StartKernel, writerVars, DataOf, NextOf, FileSize, NameLen, Padded
<1>3. Len(buf) = 7 /\ pos = 0 /\ unpacked = <<>> /\ Len(unpacked) = 0
    BY EntriesCount DEF ArchiveInv, Progress, StartKernel
<1>4. buf[1].header = 0
    <2>1. buf # <<>>
        BY <1>3
    <2>2. QED
        BY <2>1 DEF ArchiveInv, Layout
<1>5. Progress'
    BY <1>3, <1>4 DEF Progress, StartKernel, writerVars
<1>6. QED
    BY <1>1, <1>2, <1>5 DEF ArchiveInv

(***************************************************************************)
(* The offset at which the kernel stands is one entry's alone, and what it *)
(* looks for there is where the writer put it.                             *)
(***************************************************************************)
LEMMA StandsAtNext ==
    ASSUME ArchiveInv, reader = "reading"
    PROVE  LET j == Len(unpacked) + 1
           IN  /\ j \in 1 .. 7 /\ Len(buf) = 7 /\ pos \in Nat
               /\ pos = buf[j].header
               /\ \A k \in 1 .. 7 : Finds(k) => k = j
               /\ DataAt(c_namesize(j)) = DataOf(j, pos)
               /\ NextAt(c_namesize(j), FileSize(j)) = NextOf(j, pos)
<1> DEFINE j == Len(unpacked) + 1
<1>1. /\ j \in 1 .. 7 /\ Len(buf) = 7 /\ pos = buf[j].header /\ pos \in Nat
      /\ binary \in Binaries
    <2>1. Len(unpacked) \in Nat /\ pos \in Nat /\ binary \in Binaries
        BY DEF ArchiveInv, ArchiveTypeOK
    <2>2. Len(unpacked) <= 6 /\ Len(buf) = 7 /\ pos = buf[j].header
        BY DEF ArchiveInv, Progress
    <2>3. QED
        BY <2>1, <2>2
<1>2. \A k \in 1 .. 7 : buf[k].header \in Nat
    <2>1. buf \in Seq(Place)
        BY DEF ArchiveInv, ArchiveTypeOK
    <2>2. Len(buf) = 7
        BY <1>1
    <2>3. \A k \in 1 .. Len(buf) : buf[k] \in Place
        BY <2>1
    <2>4. QED
        BY <2>2, <2>3 DEF Place
<1> HIDE DEF j
<1>3. \A k \in 1 .. 7 : Finds(k) => k = j
    <2> SUFFICES ASSUME NEW k \in 1 .. 7, Finds(k)
                 PROVE  k = j
        OBVIOUS
    <2>1. buf[k].header = buf[j].header
        BY <1>1 DEF Finds
    <2>2. \A a, b \in 1 .. 7 : a < b => buf[a].header < buf[b].header
        BY <1>1 DEF ArchiveInv, Layout
    <2>3. ~(k < j) /\ ~(j < k)
        BY <2>1, <2>2, <1>1, <1>2
    <2>4. QED
        BY <2>3, <1>1
<1>4. pos + HeaderLen + NameLen(j) + 1 \in Nat /\ pos + HeaderLen + c_namesize(j) \in Nat
    BY <1>1, NameLenNat DEF HeaderLen, c_namesize
<1>5. pos + HeaderLen + c_namesize(j) = pos + HeaderLen + NameLen(j) + 1
    BY <1>1, NameLenNat DEF HeaderLen, c_namesize
<1>6. DataAt(c_namesize(j)) = DataOf(j, pos)
    BY <1>4, <1>5, AlignedIsPadded DEF DataAt, DataOf
<1>7. DataOf(j, pos) + FileSize(j) \in Nat
    <2>1. DataOf(j, pos) \in Nat
        BY <1>1, NextOfBounds
    <2>2. FileSize(j) \in Nat
        BY <1>1, FileSizeNat
    <2>3. QED
        BY <2>1, <2>2
<1>8. NextAt(c_namesize(j), FileSize(j)) = NextOf(j, pos)
    BY <1>6, <1>7, AlignedIsPadded DEF NextAt, NextOf
<1>9. QED
    BY <1>1, <1>3, <1>6, <1>8 DEF j

LEMMA UnpackStep ==
    ASSUME ArchiveInv, NEW k \in Member, Unpack(k)
    PROVE  ArchiveInv'
<1> DEFINE j == Len(unpacked) + 1
<1>1. k \in 1 .. 7 /\ k # 7 /\ Finds(k) /\ reader = "reading"
    BY EntriesCount DEF Unpack
<1>2. /\ k = j /\ j \in 1 .. 6 /\ Len(buf) = 7 /\ pos \in Nat /\ pos = buf[j].header
      /\ NextAt(c_namesize(j), FileSize(j)) = NextOf(j, pos)
    BY <1>1, StandsAtNext
<1>3. /\ unpacked \in Seq(1 .. 6) /\ Len(unpacked) = j - 1 /\ binary \in Binaries
      /\ \A i \in 1 .. Len(unpacked) : unpacked[i] = i
    BY EntriesCount DEF ArchiveInv, ArchiveTypeOK, Progress
<1>4. Entries[j].in = "" \/ UnpackedName(Entries[j].in)
    <2>1. CASE j # 5
        BY <2>1, <1>2, OnlyConsoleIsInADirectory
    <2>2. CASE j = 5
        <3>1. 1 \in 1 .. Len(unpacked) /\ unpacked[1] = 1
            BY <2>2, <1>3
        <3>2. QED
            BY <2>2, <1>2, <3>1, OnlyConsoleIsInADirectory DEF UnpackedName
    <2>3. QED
        BY <2>1, <2>2
<1>5. unpacked' = Append(unpacked, j)
    BY <1>2, <1>4 DEF Unpack
<1>6. /\ Len(unpacked') = j /\ unpacked' \in Seq(1 .. 6)
      /\ \A i \in 1 .. j : unpacked'[i] = i
    <2>1. Len(unpacked') = j /\ unpacked' \in Seq(1 .. 6) /\ unpacked'[j] = j
        BY <1>2, <1>3, <1>5
    <2>2. \A i \in 1 .. Len(unpacked) : unpacked'[i] = i
        BY <1>2, <1>3, <1>5
    <2>3. \A i \in 1 .. j : i = j \/ i \in 1 .. Len(unpacked)
        BY <1>2, <1>3
    <2>4. QED
        BY <2>1, <2>2, <2>3
<1>7. pos' = buf[j + 1].header
    <2>1. pos' = NextOf(j, buf[j].header)
        BY <1>2 DEF Unpack
    <2>2. j \in 1 .. Len(buf) /\ j # Len(buf)
        BY <1>2
    <2>3. QED
        BY <2>1, <2>2 DEF ArchiveInv, Layout
<1>8. pos' \in Nat
    <2>1. j + 1 \in 1 .. Len(buf)
        BY <1>2
    <2>2. buf[j + 1] \in Place
        BY <2>1 DEF ArchiveInv, ArchiveTypeOK
    <2>3. QED
        BY <1>7, <2>2 DEF Place
<1>9. UNCHANGED <<binary, buf, len, reader>>
    BY DEF Unpack, writerVars
<1>10. ArchiveTypeOK'
    BY <1>6, <1>8, <1>9, EntriesCount DEF ArchiveInv, ArchiveTypeOK
<1>11. Layout'
    BY <1>9 DEF ArchiveInv, Layout, DataOf, NextOf, FileSize, NameLen, Padded
<1>12. Progress'
    BY <1>1, <1>2, <1>6, <1>7, <1>9 DEF Progress
<1>13. QED
    BY <1>10, <1>11, <1>12 DEF ArchiveInv

LEMMA EndStep ==
    ASSUME ArchiveInv, EndOfArchive
    PROVE  ArchiveInv'
<1>1. reader = "reading" /\ Finds(7)
    BY EntriesCount DEF EndOfArchive
<1>2. Len(unpacked) + 1 = 7 /\ Len(buf) = 7
    BY <1>1, StandsAtNext
<1>3. Len(unpacked) = 6
    <2>1. Len(unpacked) \in Nat
        BY DEF ArchiveInv, ArchiveTypeOK
    <2>2. \A n \in Nat : n + 1 = 7 => n = 6
        OBVIOUS
    <2>3. QED
        BY <1>2, <2>1, <2>2, Zenon
<1>4. ArchiveTypeOK'
    BY DEF ArchiveInv, ArchiveTypeOK, EndOfArchive, writerVars
<1>5. Layout'
    BY DEF ArchiveInv, Layout, EndOfArchive, writerVars, DataOf, NextOf, FileSize, NameLen, Padded
<1>6. Progress'
    BY <1>1, <1>3 DEF ArchiveInv, Progress, EndOfArchive, writerVars
<1>7. QED
    BY <1>4, <1>5, <1>6 DEF ArchiveInv

LEMMA ArchiveInvStep ==
    ASSUME ArchiveInv, ArchiveNext
    PROVE  ArchiveInv'
BY AddStep, StartStep, UnpackStep, EndStep DEF ArchiveNext, KernelUnpacks

\* A step of the rest of the system leaves the archive as it is.
LEMMA ArchiveInvStutter ==
    ASSUME ArchiveInv, UNCHANGED archiveVars
    PROVE  ArchiveInv'
BY DEF ArchiveInv, ArchiveTypeOK, Layout, Progress, archiveVars, writerVars, readerVars,
       DataOf, NextOf, FileSize, NameLen, Padded

THEOREM ArchiveInvariance == ArchiveSpec => []ArchiveInv
<1>1. ArchiveInv /\ [ArchiveNext]_archiveVars => ArchiveInv'
    BY ArchiveInvStep, ArchiveInvStutter
<1>2. QED
    BY <1>1, ArchiveInvInit, PTL DEF ArchiveSpec

-----------------------------------------------------------------------------

(***************************************************************************)
(* Where the kernel stands there is a header, and at the end it has        *)
(* unpacked every entry in order.                                          *)
(***************************************************************************)
LEMMA InvReadsBack ==
    ASSUME ArchiveInv
    PROVE  ReadsBack
<1> DEFINE j == Len(unpacked) + 1
<1>1. ASSUME reader = "reading"
      PROVE  \E k \in Member : Finds(k)
    <2>1. /\ j \in 1 .. 7 /\ Len(buf) = 7 /\ pos = buf[j].header
          /\ DataAt(c_namesize(j)) = DataOf(j, pos)
        BY <1>1, StandsAtNext
    <2>2. /\ buf[j].name = pos + HeaderLen /\ buf[j].data = DataOf(j, pos)
          /\ pos + HeaderLen <= len
        BY <2>1 DEF ArchiveInv, Layout
    <2>3. Finds(j)
        BY <2>1, <2>2 DEF Finds, c_namesize
    <2>4. QED
        BY <2>1, <2>3, EntriesCount
<1>2. ASSUME reader = "done"
      PROVE  unpacked = [k \in 1 .. Len(Entries) |-> k]
    <2>1. /\ unpacked \in Seq(1 .. 6) /\ Len(unpacked) = 6
          /\ \A k \in 1 .. 6 : unpacked[k] = k
        BY <1>2, EntriesCount DEF ArchiveInv, ArchiveTypeOK, Progress
    <2>2. unpacked = [k \in 1 .. 6 |-> k]
        BY <2>1
    <2>3. QED
        BY <2>2, EntriesCount
<1>3. QED
    BY <1>1, <1>2 DEF ReadsBack

(***************************************************************************)
(* buildInitramfs and its reader agree, whatever the length of the binary. *)
(***************************************************************************)
THEOREM ArchiveReadsBack == ArchiveSpec => []ReadsBack
BY ArchiveInvariance, InvReadsBack, PTL

=============================================================================
