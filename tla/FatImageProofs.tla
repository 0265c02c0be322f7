--------------------------- MODULE FatImageProofs ---------------------------
(***************************************************************************)
(* The FAT16 boot image is sound for every file length and every geometry  *)
(* FatAssumption admits, the one of fatimg.go included: the invariants TLC *)
(* checks on a scaled-down volume hold in general.                         *)
(***************************************************************************)
EXTENDS FatImage, TLAPS

-----------------------------------------------------------------------------
\* Rounding up: the quotient covers a, and one less would not.
LEMMA CeilDivProps ==
    ASSUME NEW a \in Nat, NEW b \in Nat \ {0}
    PROVE  /\ CeilDiv(a, b) \in Nat
           /\ a <= CeilDiv(a, b) * b
           /\ a > 0 => (CeilDiv(a, b) - 1) * b < a
           /\ a > 0 => CeilDiv(a, b) > 0
  <1> DEFINE n == a + b - 1
             q == n \div b
  <1>1. n \in Nat /\ q \in Int /\ q * b <= n /\ n < (q + 1) * b
    BY Z3
  <1>2. q \in Nat
    <2>1. CASE q < 0
      <3>1. (q + 1) * b <= 0
        BY <1>1, <2>1, Z3
      <3>2. QED
        BY <1>1, <3>1
    <2>2. QED
      BY <1>1, <2>1
  <1>3. (q + 1) * b = q * b + b /\ (q - 1) * b = q * b - b
    BY <1>1, Z3
  <1>4. a > 0 => q > 0
    <2>1. q = 0 => q * b = 0
      BY <1>2
    <2>2. q * b \in Int
      BY <1>1
    <2>3. QED
      BY <1>1, <1>2, <1>3, <2>1, <2>2
  <1>5. q * b \in Int
    BY <1>1
  <1> HIDE DEF q
  <1>6. a <= q * b /\ (a > 0 => (q - 1) * b < a)
    BY <1>1, <1>3, <1>5
  <1>7. QED
    BY <1>2, <1>4, <1>6 DEF CeilDiv, q

\* With at least two bytes to the sector, a table of n entries of two bytes
\* needs no more than n sectors.
LEMMA TwoPerSector ==
    ASSUME NEW n \in Nat \ {0}, NEW b \in Nat, b > 1
    PROVE  CeilDiv(n * 2, b) <= n
  <1> DEFINE q == CeilDiv(n * 2, b)
  <1>1. q \in Nat /\ (q - 1) * b < n * 2 /\ q > 0
    BY CeilDivProps
  <1> HIDE DEF q
  <1>2. (q - 1) * 2 <= (q - 1) * b
    BY <1>1, Z3
  <1>3. (q - 1) * b \in Int /\ (q - 1) * 2 \in Int
    BY <1>1
  <1>4. (q - 1) * 2 < n * 2
    BY <1>1, <1>2, <1>3
  <1>5. q <= n
    BY <1>1, <1>4
  <1>6. QED
    BY <1>5 DEF q

-----------------------------------------------------------------------------
\* The sizes buildGrubFATImage computes, once both early returns are passed.
Sized == len \in Nat \ {0} /\ DataClusters <= MaxClusters

\* The sizes fit together: the file in the data area, the table's entries in
\* its sectors, every cluster number below the reserved values.
LEMMA Sizes ==
    ASSUME Sized
    PROVE  /\ FileClusters \in Nat \ {0}
           /\ len <= FileClusters * ClusterBytes
           /\ (FileClusters - 1) * ClusterBytes < len
           /\ DataClusters \in Nat
           /\ 2 + FileClusters <= DataClusters /\ MinFAT16 <= DataClusters
           /\ FatSectors \in Nat \ {0} /\ FatSectors < Word
           /\ RootDirSectors \in Nat
           /\ TotalSectors = 1 + 2 * FatSectors + RootDirSectors + DataClusters
           /\ (FatSectors * BytesPerSector) \div 2 \in Nat
           /\ FatEntries <= (FatSectors * BytesPerSector) \div 2
           /\ ClusterBytes = BytesPerSector
  <1> USE FatAssumption
  <1>1. ClusterBytes = BytesPerSector /\ BytesPerSector \in Nat \ {0}
    BY DEF ClusterBytes, SectorsPerCluster
  <1>2. /\ FileClusters \in Nat \ {0}
        /\ len <= FileClusters * ClusterBytes
        /\ (FileClusters - 1) * ClusterBytes < len
    <2>1. CeilDiv(len, BytesPerSector) \in Nat
      BY <1>1, CeilDivProps DEF Sized
    <2>2. /\ len <= CeilDiv(len, BytesPerSector) * BytesPerSector
          /\ (CeilDiv(len, BytesPerSector) - 1) * BytesPerSector < len
          /\ CeilDiv(len, BytesPerSector) > 0
      BY <1>1, CeilDivProps DEF Sized
    <2>3. QED
      BY <1>1, <2>1, <2>2 DEF FileClusters
  <1>3. /\ DataClusters \in Nat
        /\ 2 + FileClusters <= DataClusters /\ MinFAT16 <= DataClusters
    BY <1>2 DEF DataClusters
  <1>4. FatEntries \in Nat \ {0} /\ FatEntries < Word
    BY <1>3 DEF FatEntries, Sized, MaxClusters
  <1>5. /\ FatSectors \in Nat \ {0}
        /\ FatEntries * 2 <= FatSectors * BytesPerSector
    BY <1>1, <1>4, CeilDivProps DEF FatSectors
  <1>6. FatSectors < Word
    <2>1. CeilDiv(FatEntries * 2, BytesPerSector) <= FatEntries
      BY <1>4, TwoPerSector
    <2>2. QED
      BY <1>4, <1>5, <2>1 DEF FatSectors
  <1>7. RootDirSectors \in Nat
    <2>1. RootEntries * DirEntryBytes \in Nat
      OBVIOUS
    <2>2. QED
      BY <1>1, <2>1, CeilDivProps DEF RootDirSectors
  <1>8. TotalSectors = 1 + 2 * FatSectors + RootDirSectors + DataClusters
    BY <1>3, <1>5, <1>7 DEF TotalSectors, ReservedSectors, NumFATs, SectorsPerCluster
  <1>9. /\ (FatSectors * BytesPerSector) \div 2 \in Nat
        /\ FatEntries <= (FatSectors * BytesPerSector) \div 2
    <2> DEFINE bytes == FatSectors * BytesPerSector
    <2>1. bytes \in Nat /\ FatEntries * 2 <= bytes
      BY <1>1, <1>5
    <2> HIDE DEF bytes
    <2>2. bytes \div 2 \in Nat /\ FatEntries <= bytes \div 2
      BY <2>1, <1>4
    <2>3. QED
      BY <2>2 DEF bytes
  <1>10. QED
    BY <1>1, <1>2, <1>3, <1>5, <1>6, <1>7, <1>8, <1>9

-----------------------------------------------------------------------------
TableSize == (FatSectors * BytesPerSector) \div 2

\* The entry the loop gives the n-th cluster of the file.
LinkOf(n) == IF n = FileClusters - 1 THEN EOC ELSE FileFirst + n + 1

\* While the chain is put and afterwards: the sizes were accepted, the boot
\* sector holds them unreduced, and the first i links are in place.
Building ==
    pc \in {"chain", "done"} =>
      /\ Sized
      /\ bpb = [fatSz16  |-> FatSectors,
                totSec16 |-> IF TotalSectors < Word THEN TotalSectors ELSE 0,
                totSec32 |-> TotalSectors]
      /\ \A n \in 0 .. i - 1 : fat[FileFirst + n] = LinkOf(n)

Placed ==
    pc = "done" =>
      /\ i = FileClusters
      /\ extents = {BootSector} \cup Copies

Started ==
    /\ pc = "start" => i = 0
    /\ pc = "chain" => extents = {BootSector}

IInv == TypeOK /\ Building /\ Placed /\ Started

\* A file of any length has a whole number of clusters.
LEMMA FileClustersNat == len \in Nat => FileClusters \in Nat
  BY FatAssumption, CeilDivProps DEF FileClusters, ClusterBytes, SectorsPerCluster

LEMMA InitInv == Init => IInv
  BY FileClustersNat DEF Init, IInv, TypeOK, Building, Placed, Started

LEMMA NextInv == IInv /\ [Next]_vars => IInv'
  <1> SUFFICES ASSUME IInv, [Next]_vars PROVE IInv'
    OBVIOUS
  <1> USE DEF IInv
  <1>0. len \in Nat /\ FileClusters \in Nat
    BY FatAssumption, FileClustersNat DEF TypeOK
  <1>1. ASSUME len' = len
        PROVE  /\ FileClusters' = FileClusters /\ FatSectors' = FatSectors
               /\ TotalSectors' = TotalSectors /\ DataClusters' = DataClusters
               /\ RootStart' = RootStart /\ Sized' = Sized
               /\ TableSize' = TableSize
               /\ \A n : LinkOf(n)' = LinkOf(n)
               /\ Copies' = Copies
    <2>1. /\ FatSectors' = FatSectors /\ RootStart' = RootStart
          /\ \A c : ClusterOffset(c)' = ClusterOffset(c)
      BY <1>1 DEF FatSectors, FatEntries, DataClusters, FileClusters, RootStart, ClusterOffset,
                  DataStart, RootDirSectors
    <2>2. \A k : FatCopy(k)' = FatCopy(k)
      BY <2>1 DEF FatCopy
    <2>3. Copies' = Copies
      BY <1>1, <2>1, <2>2 DEF Copies
    <2>4. QED
      BY <1>1, <2>1, <2>3 DEF FileClusters, FatSectors, TotalSectors, DataClusters, RootStart, Sized, LinkOf,
                  FatEntries, RootDirSectors, TableSize
  <1>2. CASE Refuse
    BY <1>2, <1>1 DEF Refuse, TypeOK, Building, Placed, Started
  <1>3. CASE Layout
    <2>1. Sized
      BY <1>0, <1>3 DEF Layout, Sized
    <2>2. TableSize \in Nat
      BY <2>1, Sizes DEF TableSize
    <2>3. fat' \in [0 .. TableSize - 1 -> 0 .. Word - 1]
      BY <1>3, <2>2, FatAssumption DEF Layout, TableSize, Media, EOC, MaxClusters
    <2>4. TypeOK'
      BY <1>1, <1>3, <2>3 DEF Layout, TypeOK, TableSize
    <2>5. FatSectors % Word = FatSectors
      BY <2>1, Sizes, FatAssumption
    <2>6. i = 0
      BY <1>3 DEF Layout, Started
    <2>7. Building' /\ Placed' /\ Started'
      BY <1>1, <1>3, <2>1, <2>5, <2>6 DEF Layout, Building, Placed, Started
    <2>8. QED
      BY <2>4, <2>7
  <1>4. CASE PutChain
    <2>1. Sized /\ FileClusters \in Nat \ {0} /\ i \in 0 .. FileClusters - 1
      BY <1>0, <1>4, Sizes DEF PutChain, Building, TypeOK
    <2>2. /\ TableSize \in Nat
          /\ FileFirst + i < TableSize
          /\ FileFirst + i + 1 < Word
      BY <2>1, Sizes, FatAssumption DEF FatEntries, FileFirst, Sized, MaxClusters, TableSize
    <2>3. (FileFirst + i + 1) % Word = FileFirst + i + 1
      BY <2>1, <2>2, FatAssumption DEF FileFirst
    <2>4. fat \in [0 .. TableSize - 1 -> 0 .. Word - 1]
      BY <1>4 DEF PutChain, TypeOK, TableSize
    <2>5. fat' = [fat EXCEPT ![FileFirst + i] = LinkOf(i)]
      BY <1>4, <2>3 DEF PutChain, LinkOf
    <2>6. LinkOf(i) \in 0 .. Word - 1
      BY <2>1, <2>2, FatAssumption DEF LinkOf, EOC, FileFirst, MaxClusters
    <2>7. fat' \in [0 .. TableSize - 1 -> 0 .. Word - 1]
      BY <2>4, <2>5, <2>6
    <2>8. TypeOK'
      BY <1>1, <1>4, <2>1, <2>7 DEF PutChain, TypeOK, TableSize
    <2>9. ASSUME NEW n \in 0 .. i' - 1 PROVE fat'[FileFirst + n] = LinkOf(n)
      <3>1. n \in 0 .. i /\ FileFirst + n \in 0 .. TableSize - 1
        BY <1>4, <2>1, <2>2 DEF PutChain, FileFirst
      <3>2. CASE n = i
        BY <2>4, <2>5, <3>1, <3>2
      <3>3. CASE n # i
        <4>1. FileFirst + n # FileFirst + i /\ n \in 0 .. i - 1
          BY <3>1, <3>3, <2>1 DEF FileFirst
        <4>2. fat[FileFirst + n] = LinkOf(n)
          BY <1>4, <4>1 DEF PutChain, Building
        <4>3. QED
          BY <2>4, <2>5, <3>1, <4>1, <4>2
      <3>4. QED
        BY <3>2, <3>3
    <2>10. Building' /\ Placed' /\ Started'
      BY <1>1, <1>4, <2>9 DEF PutChain, Building, Placed, Started
    <2>11. QED
      BY <2>8, <2>10
  <1>5. CASE CopyIn
    <2>1. len' = len /\ i' = i /\ fat' = fat /\ bpb' = bpb /\ pc = "chain" /\ pc' = "done"
      BY <1>5 DEF CopyIn
    <2>2. TypeOK'
      BY <1>1, <2>1 DEF TypeOK
    <2>3. Building' /\ Started'
      BY <1>1, <2>1 DEF Building, Started
    <2>4. i = FileClusters /\ extents = {BootSector}
      BY <1>5, <2>1 DEF CopyIn, Started
    <2>5. Placed'
      BY <1>1, <1>5, <2>1, <2>4 DEF CopyIn, Placed
    <2>6. QED
      BY <2>2, <2>3, <2>5
  <1>6. CASE UNCHANGED vars
    <2>1. /\ len' = len /\ i' = i /\ fat' = fat /\ bpb' = bpb /\ pc' = pc
          /\ extents' = extents
      BY <1>6 DEF vars
    <2>2. TypeOK'
      BY <1>1, <2>1 DEF TypeOK
    <2>3. Building' /\ Started'
      BY <1>1, <2>1 DEF Building, Started
    <2>4. Placed'
      BY <1>1, <2>1 DEF Placed
    <2>5. QED
      BY <2>2, <2>3, <2>4
  <1>7. QED
    BY <1>2, <1>3, <1>4, <1>5, <1>6 DEF Next

THEOREM Invariance == Spec => []IInv
  BY InitInv, NextInv, PTL DEF Spec

-----------------------------------------------------------------------------
\* What a reader computes from the boot sector is what the builder used.
LEMMA ReaderAgrees ==
    ASSUME IInv, pc = "done"
    PROVE  /\ Sized
           /\ bpb.fatSz16 = FatSectors
           /\ ReadTotal = TotalSectors
           /\ ReadData = 1 + 2 * FatSectors + RootDirSectors
           /\ CountClusters = DataClusters
  <1>1. /\ Sized
        /\ bpb = [fatSz16  |-> FatSectors,
                  totSec16 |-> IF TotalSectors < Word THEN TotalSectors ELSE 0,
                  totSec32 |-> TotalSectors]
    BY DEF IInv, Building
  <1>2. /\ FatSectors \in Nat \ {0} /\ RootDirSectors \in Nat /\ DataClusters \in Nat
        /\ TotalSectors = 1 + 2 * FatSectors + RootDirSectors + DataClusters
    BY <1>1, Sizes
  <1>3. ReadTotal = TotalSectors
    BY <1>1, <1>2 DEF ReadTotal
  <1>4. ReadData = 1 + 2 * FatSectors + RootDirSectors
    BY <1>1, <1>2 DEF ReadData, ReadRoot, RootDirSectors, ReservedSectors, NumFATs
  <1>5. CountClusters = DataClusters
    BY <1>2, <1>3, <1>4 DEF CountClusters, SectorsPerCluster
  <1>6. QED
    BY <1>1, <1>3, <1>4, <1>5

\* The table of a volume under construction never leaves its bounds: no
\* cluster of the file falls outside it and no entry outgrows a word.
THEOREM TypeCorrect == Spec => []TypeOK
  <1>1. IInv => TypeOK
    BY DEF IInv
  <1>2. QED
    BY <1>1, Invariance, PTL

\* Following the table from cluster 4 reads the whole file, in order, and
\* stops where it ends, up to the largest file a volume admits.
THEOREM ChainCorrect == Spec => []ChainReadsFile
  <1>1. IInv => ChainReadsFile
    <2> SUFFICES ASSUME IInv, pc = "done" PROVE ChainReadsFile
      BY DEF ChainReadsFile
    <2>1. Sized /\ CountClusters = DataClusters
      BY ReaderAgrees
    <2>2. /\ FileClusters \in Nat \ {0} /\ DataClusters \in Nat
          /\ 2 + FileClusters <= DataClusters
          /\ TableSize \in Nat /\ FatEntries <= TableSize
          /\ len <= FileClusters * ClusterBytes
          /\ (FileClusters - 1) * ClusterBytes < len
      BY <2>1, Sizes DEF TableSize
    <2>3. fat \in [0 .. TableSize - 1 -> 0 .. Word - 1] /\ i = FileClusters
      BY DEF IInv, TypeOK, Placed, TableSize
    <2>4. ASSUME NEW n \in 0 .. FileClusters - 1
          PROVE  /\ FileFirst + n \in DOMAIN fat
                 /\ FileFirst + n <= CountClusters + 1
                 /\ IF n = FileClusters - 1 THEN fat[FileFirst + n] = EOC
                    ELSE fat[FileFirst + n] = FileFirst + n + 1 /\ FileFirst + n + 1 < Bad
      <3>1. fat[FileFirst + n] = LinkOf(n)
        BY <2>3 DEF IInv, Building
      <3>2. FileFirst + n <= DataClusters + 1
        BY <2>2 DEF FileFirst
      <3>3. FileFirst + n \in 0 .. TableSize - 1
        BY <2>2, <3>2 DEF FileFirst, FatEntries
      <3>4. n # FileClusters - 1 => FileFirst + n + 1 < Bad
        BY <2>1, <2>2, FatAssumption DEF FileFirst, Bad, Sized, MaxClusters
      <3>5. QED
        BY <2>1, <2>3, <3>1, <3>2, <3>3, <3>4 DEF LinkOf
    <2>5. QED
      BY <2>2, <2>4 DEF ChainReadsFile
  <1>2. QED
    BY <1>1, Invariance, PTL

\* Firmware takes the volume for FAT16 whatever the file's size.
THEOREM AlwaysFAT16 == Spec => []CountsAsFAT16
  <1>1. IInv => CountsAsFAT16
    <2> SUFFICES ASSUME IInv, pc = "done" PROVE CountClusters \in MinFAT16 .. MaxClusters
      BY DEF CountsAsFAT16
    <2>1. Sized /\ CountClusters = DataClusters
      BY ReaderAgrees
    <2>2. DataClusters \in Nat /\ MinFAT16 <= DataClusters /\ DataClusters <= MaxClusters
      BY <2>1, Sizes DEF Sized
    <2>3. QED
      BY <2>1, <2>2, FatAssumption DEF MaxClusters
  <1>2. QED
    BY <1>1, Invariance, PTL

\* Both tables, the three directories and the file's first cluster are where
\* the boot sector's fields send a reader.
THEOREM ReaderAlwaysFindsFile == Spec => []ReaderFindsFile
  <1>1. IInv => ReaderFindsFile
    <2> SUFFICES ASSUME IInv, pc = "done" PROVE ReaderFindsFile
      BY DEF ReaderFindsFile
    <2>1. /\ bpb.fatSz16 = FatSectors
          /\ ReadData = 1 + 2 * FatSectors + RootDirSectors
          /\ Sized
      BY ReaderAgrees
    <2>2. extents = {BootSector} \cup Copies
      BY DEF IInv, Placed
    <2>3. FatSectors \in Nat /\ RootDirSectors \in Nat /\ BytesPerSector \in Nat
      BY <2>1, Sizes, FatAssumption
    <2>4. ReadRoot * BytesPerSector = RootStart
      BY <2>1 DEF ReadRoot, RootStart
    <2>5. ASSUME NEW c \in Nat PROVE ReadCluster(c) = ClusterOffset(c)
      <3>1. ReadCluster(c) = (1 + 2 * FatSectors + RootDirSectors + (c - 2)) * BytesPerSector
        BY <2>1, <2>3 DEF ReadCluster, SectorsPerCluster
      <3>2. ClusterOffset(c) = (1 + 2 * FatSectors) * BytesPerSector
                + RootDirSectors * BytesPerSector + (c - 2) * BytesPerSector
        BY <2>3, FatAssumption DEF ClusterOffset, DataStart, RootStart, ClusterBytes,
              SectorsPerCluster, ReservedSectors, NumFATs
      <3>3. QED
        BY <3>1, <3>2, <2>3, Z3
    <2>6. At(ReservedSectors * BytesPerSector, "fat")
      <3>0. 0 \in 0 .. NumFATs - 1
        BY DEF NumFATs
      <3>1. FatCopy(0) \in extents
        BY <2>2, <3>0 DEF Copies
      <3>2. FatCopy(0).at = ReservedSectors * BytesPerSector /\ FatCopy(0).what = "fat"
        BY <2>3 DEF FatCopy, Extent, ReservedSectors
      <3>3. QED
        BY <3>1, <3>2 DEF At
    <2>7. At((ReservedSectors + bpb.fatSz16) * BytesPerSector, "fat")
      <3>0. 1 \in 0 .. NumFATs - 1
        BY DEF NumFATs
      <3>1. FatCopy(1) \in extents
        BY <2>2, <3>0 DEF Copies
      <3>2. FatCopy(1).at = (ReservedSectors + bpb.fatSz16) * BytesPerSector
            /\ FatCopy(1).what = "fat"
        BY <2>1, <2>3 DEF FatCopy, Extent, ReservedSectors
      <3>3. QED
        BY <3>1, <3>2 DEF At
    <2>8. ASSUME NEW pos, NEW size, NEW what, Extent(pos, size, what) \in extents
          PROVE  At(pos, what)
      <3>1. Extent(pos, size, what).at = pos /\ Extent(pos, size, what).what = what
        BY DEF Extent
      <3>2. QED
        BY <2>8, <3>1 DEF At
    <2>9. /\ Extent(RootStart, DirEntryBytes, "root") \in extents
          /\ Extent(ClusterOffset(2), 3 * DirEntryBytes, "efi") \in extents
          /\ Extent(ClusterOffset(3), 3 * DirEntryBytes, "boot dir") \in extents
          /\ Extent(ClusterOffset(FileFirst), len, "grub") \in extents
      BY <2>2 DEF Copies
    <2>10. /\ At(RootStart, "root") /\ At(ClusterOffset(2), "efi")
           /\ At(ClusterOffset(3), "boot dir") /\ At(ClusterOffset(FileFirst), "grub")
      BY <2>8, <2>9
    <2>11. ReadCluster(2) = ClusterOffset(2) /\ ReadCluster(3) = ClusterOffset(3)
           /\ ReadCluster(FileFirst) = ClusterOffset(FileFirst)
      BY <2>5 DEF FileFirst
    <2>12. QED
      BY <2>4, <2>6, <2>7, <2>10, <2>11 DEF ReaderFindsFile
  <1>2. QED
    BY <1>1, Invariance, PTL

\* The image in bytes: the boot sector, the two tables, the root directory and
\* the data area follow one another without a gap, and the data area ends the
\* image.
LEMMA LayoutInBytes ==
    ASSUME Sized
    PROVE  LET table == FatSectors * BytesPerSector
               root  == RootDirSectors * BytesPerSector
               data  == DataClusters * BytesPerSector
               from  == BytesPerSector + 2 * table
           IN  /\ BytesPerSector \in Nat /\ DirEntryBytes \in Nat /\ len \in Nat
               /\ table \in Nat /\ root \in Nat /\ data \in Nat
               /\ 3 * DirEntryBytes <= BytesPerSector
               /\ DirEntryBytes <= root
               /\ 2 * BytesPerSector + len <= data
               /\ FatCopy(0) = Extent(BytesPerSector, table, "fat")
               /\ FatCopy(1) = Extent(BytesPerSector + table, table, "fat")
               /\ RootStart = from
               /\ ClusterOffset(2) = from + root
               /\ ClusterOffset(3) = from + root + BytesPerSector
               /\ ClusterOffset(FileFirst) = from + root + 2 * BytesPerSector
               /\ TotalSectors * BytesPerSector = from + root + data
  <1> DEFINE B     == BytesPerSector
             table == FatSectors * B
             root  == RootDirSectors * B
             data  == DataClusters * B
             file  == FileClusters * B
  <1>1. /\ B \in Nat \ {0} /\ DirEntryBytes \in Nat \ {0} /\ RootEntries \in Nat \ {0}
        /\ 3 * DirEntryBytes <= B /\ len \in Nat
    BY FatAssumption DEF Sized
  <1>2. /\ FatSectors \in Nat /\ RootDirSectors \in Nat /\ DataClusters \in Nat
        /\ FileClusters \in Nat /\ 2 + FileClusters <= DataClusters
        /\ len <= file /\ ClusterBytes = B
        /\ TotalSectors = 1 + 2 * FatSectors + RootDirSectors + DataClusters
    BY Sizes
  <1>3. table \in Nat /\ root \in Nat /\ data \in Nat /\ file \in Nat
    BY <1>1, <1>2
  <1>4. DirEntryBytes <= root
    <2> DEFINE entries == RootEntries * DirEntryBytes
    <2>1. entries \in Nat /\ DirEntryBytes <= entries
      <3>1. entries \in Nat
        BY <1>1
      <3>2. (RootEntries - 1) * DirEntryBytes >= 0
        BY <1>1, Z3
      <3>3. (RootEntries - 1) * DirEntryBytes = entries - DirEntryBytes
        BY <1>1, Z3
      <3>4. QED
        BY <1>1, <3>1, <3>2, <3>3
    <2>2. entries <= CeilDiv(entries, B) * B
      BY <1>1, <2>1, CeilDivProps
    <2>3. entries <= root
      BY <2>2 DEF RootDirSectors
    <2> HIDE DEF entries, root
    <2>4. QED
      BY <1>1, <1>3, <2>1, <2>3
  <1>5. 2 * B + len <= data
    <2>1. (2 + FileClusters) * B = 2 * B + file
      BY <1>1, <1>2, Z3
    <2>2. (2 + FileClusters) * B <= data
      <3>1. (DataClusters - (2 + FileClusters)) * B >= 0
        BY <1>1, <1>2, Z3
      <3>2. (DataClusters - (2 + FileClusters)) * B = data - (2 + FileClusters) * B
        BY <1>1, <1>2, Z3
      <3>3. (2 + FileClusters) * B \in Int
        BY <1>1, <1>2
      <3> HIDE DEF data
      <3>4. QED
        BY <1>3, <3>1, <3>2, <3>3 DEF data
    <2> HIDE DEF data, file
    <2>3. QED
      BY <1>1, <1>2, <1>3, <2>1, <2>2
  <1>6. FatCopy(0) = Extent(B, table, "fat") /\ FatCopy(1) = Extent(B + table, table, "fat")
    <2>1. (ReservedSectors + 0 * FatSectors) * B = B
      BY <1>1, <1>2 DEF ReservedSectors
    <2>2. (ReservedSectors + 1 * FatSectors) * B = B + table
      BY <1>1, <1>2, Z3 DEF ReservedSectors
    <2>3. QED
      BY <2>1, <2>2 DEF FatCopy
  <1>7. RootStart = B + 2 * table
    BY <1>1, <1>2, Z3 DEF RootStart, ReservedSectors, NumFATs
  <1>8. \A c \in Nat : ClusterOffset(c) = B + 2 * table + root + (c - 2) * B
    BY <1>2, <1>7 DEF ClusterOffset, DataStart
  <1>9. TotalSectors * B = B + 2 * table + root + data
    BY <1>1, <1>2, Z3
  <1>10. /\ ClusterOffset(2) = B + 2 * table + root
         /\ ClusterOffset(3) = B + 2 * table + root + B
         /\ ClusterOffset(FileFirst) = B + 2 * table + root + 2 * B
    <2> HIDE DEF table, root
    <2>1. QED
      BY <1>1, <1>3, <1>8 DEF FileFirst
  <1>11. QED
    BY <1>1, <1>3, <1>4, <1>5, <1>6, <1>7, <1>9, <1>10

\* No byte of the image is written twice, whatever the geometry: neither table
\* reaches the next or the root directory, no directory outgrows its cluster,
\* and the file's last byte is in the volume.
THEOREM NothingOverlaps == Spec => []ExtentsDisjoint
  <1>1. IInv => ExtentsDisjoint
    <2> SUFFICES ASSUME IInv, pc = "done" PROVE ExtentsDisjoint
      BY DEF ExtentsDisjoint
    <2> DEFINE B     == BytesPerSector
               D     == DirEntryBytes
               table == FatSectors * B
               root  == RootDirSectors * B
               data  == DataClusters * B
               from  == B + 2 * table
               end   == TotalSectors * B
    <2>1. /\ B \in Nat /\ D \in Nat /\ len \in Nat
          /\ table \in Nat /\ root \in Nat /\ data \in Nat
          /\ 3 * D <= B /\ D <= root /\ 2 * B + len <= data
          /\ end = from + root + data
      BY ReaderAgrees, LayoutInBytes
    <2>2. /\ FatCopy(0) = Extent(B, table, "fat")
          /\ FatCopy(1) = Extent(B + table, table, "fat")
          /\ RootStart = from
          /\ ClusterOffset(2) = from + root
          /\ ClusterOffset(3) = from + root + B
          /\ ClusterOffset(FileFirst) = from + root + 2 * B
      BY ReaderAgrees, LayoutInBytes
    <2> DEFINE p1 == Extent(0, B, "boot")
               p2 == Extent(B, table, "fat")
               p3 == Extent(B + table, table, "fat")
               p4 == Extent(from, D, "root")
               p5 == Extent(from + root, 3 * D, "efi")
               p6 == Extent(from + root + B, 3 * D, "boot dir")
               p7 == Extent(from + root + 2 * B, len, "grub")
               parts == {p1, p2, p3, p4, p5, p6, p7}
    <2>3. extents = parts
      <3>1. extents = {BootSector} \cup Copies
        BY DEF IInv, Placed
      <3>2. {FatCopy(k) : k \in 0 .. NumFATs - 1} = {FatCopy(0), FatCopy(1)}
        <4>1. 0 .. NumFATs - 1 = {0, 1}
          BY DEF NumFATs
        <4>2. QED
          BY <4>1
      <3>3. QED
        BY <2>2, <3>1, <3>2 DEF Copies, BootSector
    <2>4. extents = parts /\ end = TotalSectors * BytesPerSector
      BY <2>3
    <2> HIDE DEF B, D, table, root, data, end
    <2>5. /\ p1.at = 0 /\ p1.size = B /\ p2.at = B /\ p2.size = table
          /\ p3.at = B + table /\ p3.size = table /\ p4.at = from /\ p4.size = D
          /\ p5.at = from + root /\ p5.size = 3 * D
          /\ p6.at = from + root + B /\ p6.size = 3 * D
          /\ p7.at = from + root + 2 * B /\ p7.size = len
      BY DEF Extent
    <2> HIDE DEF p1, p2, p3, p4, p5, p6, p7
    <2>6. /\ p1.at \in Nat /\ p2.at \in Nat /\ p3.at \in Nat /\ p4.at \in Nat
          /\ p5.at \in Nat /\ p6.at \in Nat /\ p7.at \in Nat
          /\ p1.size \in Nat /\ p2.size \in Nat /\ p3.size \in Nat /\ p4.size \in Nat
          /\ p5.size \in Nat /\ p6.size \in Nat /\ p7.size \in Nat
          /\ end \in Nat
      BY <2>1, <2>5
    <2>7. /\ p1.at + p1.size <= p2.at /\ p2.at + p2.size <= p3.at
          /\ p3.at + p3.size <= p4.at /\ p4.at + p4.size <= p5.at
          /\ p5.at + p5.size <= p6.at /\ p6.at + p6.size <= p7.at
          /\ p7.at + p7.size <= end
      BY <2>1, <2>5
    <2>8. \A x \in parts : x.at + x.size <= end
      BY <2>6, <2>7
    <2>9. \A x, y \in parts : x = y \/ x.at + x.size <= y.at \/ y.at + y.size <= x.at
      BY <2>6, <2>7
    <2> HIDE DEF parts
    <2>10. QED
      BY <2>4, <2>8, <2>9 DEF ExtentsDisjoint
  <1>2. QED
    BY <1>1, Invariance, PTL

-----------------------------------------------------------------------------
\* A file that a FAT16 volume has room for: two clusters go to the directories.
Fits == 0 < len /\ len <= (MaxClusters - 2) * ClusterBytes

\* An image is refused only for an application that is empty or too big for any
\* FAT16 volume, and made only for one that is neither (fatimg.go:58, 72).
RefusesOnlyMisfits ==
    /\ pc = "error" => ~Fits
    /\ pc \in {"chain", "done"} => Fits

\* The check of the cluster count is the check that the file fits.
LEMMA FitsIfSized ==
    ASSUME len \in Nat \ {0}
    PROVE  DataClusters <= MaxClusters <=> Fits
  <1> DEFINE B == BytesPerSector
             n == FileClusters
             m == MaxClusters - 2
  <1>1. B \in Nat \ {0} /\ ClusterBytes = B /\ MaxClusters \in Int /\ 4 <= MaxClusters
        /\ MinDataClusters \in Nat /\ MinDataClusters <= MaxClusters
    BY FatAssumption DEF ClusterBytes, SectorsPerCluster, MaxClusters
  <1>2. n \in Nat /\ len <= n * B /\ (n - 1) * B < len
    BY <1>1, CeilDivProps DEF FileClusters
  <1>3. DataClusters <= MaxClusters <=> n <= m
    BY <1>1, <1>2 DEF DataClusters
  <1>4. m \in Nat
    BY <1>1
  <1> HIDE DEF B, n, m
  <1>5. n <= m => n * B <= m * B
    BY <1>1, <1>2, <1>4, Z3
  <1>6. m < n => m * B <= (n - 1) * B
    <2>1. m < n => m <= n - 1 /\ n - 1 \in Int
      BY <1>2, <1>4
    <2>2. QED
      BY <1>1, <1>4, <2>1, Z3
  <1>7. n * B \in Int /\ m * B \in Int /\ (n - 1) * B \in Int
    BY <1>1, <1>2, <1>4
  <1>8. n <= m <=> len <= m * B
    BY <1>2, <1>4, <1>5, <1>6, <1>7
  <1>9. QED
    BY <1>1, <1>3, <1>8 DEF Fits, B, m

\* No application that fits is turned away, and none that does not is written
\* in part (buildGrubFATImage's two early returns).
THEOREM RefusalIsExact == Spec => []RefusesOnlyMisfits
  <1>1. Init => RefusesOnlyMisfits
    BY DEF Init, RefusesOnlyMisfits
  <1>2. IInv /\ RefusesOnlyMisfits /\ [Next]_vars => RefusesOnlyMisfits'
    <2> SUFFICES ASSUME IInv, RefusesOnlyMisfits, [Next]_vars PROVE RefusesOnlyMisfits'
      OBVIOUS
    <2>1. len' = len /\ Fits' = Fits /\ len \in Nat
      BY FatAssumption DEF vars, Next, Refuse, Layout, PutChain, CopyIn, Fits, ClusterBytes, IInv, TypeOK
    <2>2. CASE Refuse
      <3>1. pc' = "error" /\ (len = 0 \/ DataClusters > MaxClusters)
        BY <2>2 DEF Refuse
      <3>2. CASE len = 0
        BY <2>1, <3>1, <3>2 DEF RefusesOnlyMisfits, Fits
      <3>3. CASE len # 0
        <4>1. DataClusters \in Int /\ MaxClusters \in Int
          BY <2>1, FatAssumption, FileClustersNat DEF DataClusters, MaxClusters
        <4>2. ~Fits
          BY <2>1, <3>1, <3>3, <4>1, FitsIfSized
        <4>3. QED
          BY <2>1, <3>1, <4>2 DEF RefusesOnlyMisfits
      <3>4. QED
        BY <3>2, <3>3
    <2>3. CASE Layout
      <3>1. pc' = "chain" /\ len > 0 /\ DataClusters <= MaxClusters
        BY <2>3 DEF Layout
      <3>2. Fits
        BY <2>1, <3>1, FitsIfSized
      <3>3. QED
        BY <2>1, <3>1, <3>2 DEF RefusesOnlyMisfits
    <2>4. CASE PutChain \/ CopyIn \/ UNCHANGED vars
      BY <2>1, <2>4 DEF PutChain, CopyIn, vars, RefusesOnlyMisfits
    <2>5. QED
      BY <2>2, <2>3, <2>4 DEF Next
  <1>3. QED
    BY <1>1, <1>2, Invariance, PTL DEF Spec

=============================================================================
