------------------------------ MODULE FatImage ------------------------------
(***************************************************************************)
(* buildGrubFATImage (fatimg.go): a FAT16 volume, built in memory, that    *)
(* holds one file, \EFI\BOOT\BOOTX64.EFI.  The volume is modelled by its   *)
(* BPB fields, its allocation table, and the extents of bytes copied into  *)
(* the image; what firmware finds in it is computed from those alone, by   *)
(* the rules of the FAT specification.                                     *)
(***************************************************************************)
EXTENDS Integers

CONSTANTS
    BytesPerSector,     \* fatBytesPerSector, 512
    RootEntries,        \* fatRootEntries, 512
    DirEntryBytes,      \* bytes of one directory entry, 32
    MinDataClusters,    \* fatMinDataClusters, 4200
    Word,               \* 2^16: one FAT entry
    MinFAT16,           \* fewest clusters of a FAT16 volume, 4085
    MaxLen              \* bound on the length of the GRUB application

NumFATs == 2
ReservedSectors == 1
SectorsPerCluster == 1
EOC   == Word - 1       \* 0xFFFF
Media == Word - 8       \* 0xFFF8
Bad   == Word - 9       \* 0xFFF7: this value and those above are no links
MaxClusters == Word - 12   \* 65524

ASSUME FatAssumption ==
    /\ BytesPerSector \in Nat /\ BytesPerSector > 1
    /\ RootEntries \in Nat \ {0} /\ DirEntryBytes \in Nat \ {0}
    /\ 3 * DirEntryBytes <= BytesPerSector
    /\ Word \in Nat /\ MinFAT16 \in Nat /\ MinDataClusters \in Nat
    /\ 4 <= MinFAT16 /\ MinFAT16 <= MinDataClusters /\ MinDataClusters <= MaxClusters
    /\ MaxLen \in Nat

VARIABLES
    len,      \* len(grub)
    pc,
    i,        \* the loop index of the chain
    fat,      \* the allocation table, cluster number -> entry
    bpb,      \* [fatSz16, totSec16, totSec32]: fields of the boot sector
    extents   \* what was copied into the image: [at, size, what]

vars == <<len, pc, i, fat, bpb, extents>>

CeilDiv(a, b) == (a + b - 1) \div b

ClusterBytes == BytesPerSector * SectorsPerCluster
FileClusters == CeilDiv(len, ClusterBytes)

\* The cluster count left as the file needs it.
DataClustersUnforced == 2 + FileClusters

\* Cluster 2 = \EFI, cluster 3 = \EFI\BOOT, the file from cluster 4 on.
DataClusters == IF 2 + FileClusters < MinDataClusters
                THEN MinDataClusters ELSE 2 + FileClusters

\* FAT entries counted as if clusters were numbered from 0.
FatEntriesFromZero == DataClusters

FatEntries     == DataClusters + 2
FatSectors     == CeilDiv(FatEntries * 2, BytesPerSector)
RootDirSectors == CeilDiv(RootEntries * DirEntryBytes, BytesPerSector)

\* The volume's size with the boot sector forgotten.
TotalSectorsNoBoot == NumFATs * FatSectors + RootDirSectors
                        + DataClusters * SectorsPerCluster

TotalSectors   == ReservedSectors + NumFATs * FatSectors + RootDirSectors
                    + DataClusters * SectorsPerCluster

\* The root directory taken to follow the first table.
RootStartOneTable == (ReservedSectors + FatSectors) * BytesPerSector

RootStart == (ReservedSectors + NumFATs * FatSectors) * BytesPerSector
DataStart == RootStart + RootDirSectors * BytesPerSector

ClusterOffset(c) == DataStart + (c - 2) * ClusterBytes

FileFirst == 4

\* An extent of bytes copied into the image.
Extent(at, size, what) == [at |-> at, size |-> size, what |-> what]

BootSector == Extent(0, BytesPerSector, "boot")

\* The k-th copy of the table.
FatCopy(k) == Extent((ReservedSectors + k * FatSectors) * BytesPerSector,
                     FatSectors * BytesPerSector, "fat")

\* The copies of the table, the three directories and the file's data.
Copies ==
    {FatCopy(k) : k \in 0 .. NumFATs - 1} \cup
    {Extent(RootStart, DirEntryBytes, "root"),
     Extent(ClusterOffset(2), 3 * DirEntryBytes, "efi"),
     Extent(ClusterOffset(3), 3 * DirEntryBytes, "boot dir"),
     Extent(ClusterOffset(FileFirst), len, "grub")}

-----------------------------------------------------------------------------
Init ==
    /\ len \in 0..MaxLen
    /\ pc = "start"
    /\ i = 0
    /\ fat = <<>>
    /\ bpb = [fatSz16 |-> 0, totSec16 |-> 0, totSec32 |-> 0]
    /\ extents = {}

\* The two early returns.
Refuse ==
    /\ pc = "start"
    /\ len = 0 \/ DataClusters > MaxClusters
    /\ pc' = "error"
    /\ UNCHANGED <<len, i, fat, bpb, extents>>

\* The table is laid out for FatEntries entries, the boot sector is written
\* and the four fixed entries are put.
Layout ==
    /\ pc = "start"
    /\ len > 0 /\ DataClusters <= MaxClusters
    /\ bpb' = [fatSz16  |-> FatSectors % Word,
               totSec16 |-> IF TotalSectors < Word THEN TotalSectors ELSE 0,
               totSec32 |-> TotalSectors]
    /\ fat' = [c \in 0 .. ((FatSectors * BytesPerSector) \div 2) - 1 |->
                 IF c = 0 THEN Media ELSE IF c \in 1..3 THEN EOC ELSE 0]
    /\ extents' = {BootSector}
    /\ pc' = "chain"
    /\ UNCHANGED <<len, i>>

\* The loop run once too often.
PutChainOnceMore ==
    /\ pc = "chain" /\ i <= FileClusters
    /\ fat' = [fat EXCEPT ![FileFirst + i] =
                 IF i = FileClusters - 1 THEN EOC ELSE (FileFirst + i + 1) % Word]
    /\ i' = i + 1
    /\ UNCHANGED <<len, pc, bpb, extents>>

\* One round of the loop over the file's clusters.
PutChain ==
    /\ pc = "chain" /\ i < FileClusters
    /\ fat' = [fat EXCEPT ![FileFirst + i] =
                 IF i = FileClusters - 1 THEN EOC ELSE (FileFirst + i + 1) % Word]
    /\ i' = i + 1
    /\ UNCHANGED <<len, pc, bpb, extents>>

CopyIn ==
    /\ pc = "chain" /\ i = FileClusters
    /\ extents' = extents \cup Copies
    /\ pc' = "done"
    /\ UNCHANGED <<len, i, fat, bpb>>

Next == Refuse \/ Layout \/ PutChain \/ CopyIn

Spec == Init /\ [][Next]_vars

-----------------------------------------------------------------------------
(* A FAT reader, from the boot sector alone. *)

ReadTotal      == IF bpb.totSec16 # 0 THEN bpb.totSec16 ELSE bpb.totSec32
ReadRoot       == ReservedSectors + NumFATs * bpb.fatSz16
ReadData       == ReadRoot + CeilDiv(RootEntries * DirEntryBytes, BytesPerSector)
CountClusters  == (ReadTotal - ReadData) \div SectorsPerCluster
ReadCluster(c) == (ReadData + (c - 2) * SectorsPerCluster) * BytesPerSector
At(pos, what)  == \E x \in extents : x.at = pos /\ x.what = what

-----------------------------------------------------------------------------
(* Properties. *)

TypeOK ==
    /\ len \in 0..MaxLen
    /\ pc \in {"start", "chain", "done", "error"}
    /\ i \in Nat /\ i <= FileClusters
    /\ pc \in {"start", "error"} => fat = <<>>
    /\ pc \in {"chain", "done"} =>
         fat \in [0 .. ((FatSectors * BytesPerSector) \div 2) - 1 -> 0 .. Word - 1]

\* The file's clusters are linked in order, within the table and the volume,
\* no link is mistaken for a reserved mark, and exactly the last one ends the
\* chain (fatimg.go:121-128 against the cluster limit at 72).
ChainReadsFile ==
    pc = "done" =>
      /\ \A n \in 0 .. FileClusters - 1 :
           /\ FileFirst + n \in DOMAIN fat
           /\ FileFirst + n <= CountClusters + 1
           /\ IF n = FileClusters - 1 THEN fat[FileFirst + n] = EOC
              ELSE fat[FileFirst + n] = FileFirst + n + 1 /\ FileFirst + n + 1 < Bad
      /\ len <= FileClusters * ClusterBytes
      /\ (FileClusters - 1) * ClusterBytes < len

\* Firmware counts the clusters of a FAT16 volume: never those of a FAT12 or
\* a FAT32 one, whatever the size of the file.
CountsAsFAT16 ==
    pc = "done" => CountClusters \in MinFAT16 .. MaxClusters

\* What firmware looks for where the boot sector says it is, is there.
ReaderFindsFile ==
    pc = "done" =>
      /\ At(ReservedSectors * BytesPerSector, "fat")
      /\ At((ReservedSectors + bpb.fatSz16) * BytesPerSector, "fat")
      /\ At(ReadRoot * BytesPerSector, "root")
      /\ At(ReadCluster(2), "efi")
      /\ At(ReadCluster(3), "boot dir")
      /\ At(ReadCluster(FileFirst), "grub")

\* Nothing copied into the image overlaps anything else or runs past its end.
ExtentsDisjoint ==
    pc = "done" =>
      /\ \A x \in extents : x.at + x.size <= TotalSectors * BytesPerSector
      /\ \A x, y \in extents : x = y \/ x.at + x.size <= y.at \/ y.at + y.size <= x.at

=============================================================================
