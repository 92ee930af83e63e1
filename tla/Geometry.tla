------------------------------- MODULE Geometry -------------------------------
(***************************************************************************)
(* The layout of a FAT16 image (service/utils/fat/geometry.py): how many     *)
(* sectors the table takes depends on how many clusters there are, and the   *)
(* other way round.  _calc_geometry starts from a table of one sector and    *)
(* repeats until a pass leaves the table as it was, at most ten times.       *)
(***************************************************************************)
EXTENDS Naturals

MinMb == 10
MaxMb == 1024
BytesPerSector == 512
ReservedSectors == 4
FatCount == 2
RootEntries == 512
RootSectors == (RootEntries * 32) \div BytesPerSector
SectorsPerTrack == 63
Heads == 255
ClusterFirst == 2
EocMark == 65528

Ceil(a, b) == (a + b - 1) \div b

\* Mutant of SectorsPerCluster: the smaller cluster is kept for one step longer.
SmallClusters(mb) == IF mb <= 256 THEN 4 ELSE IF mb <= 512 THEN 16 ELSE 32

SectorsPerCluster(mb) ==
    IF mb <= 128 THEN 4 ELSE IF mb <= 256 THEN 8 ELSE IF mb <= 512 THEN 16 ELSE 32

TotalSectors(mb) == mb * 2048
DataStart(spf) == ReservedSectors + FatCount * spf + RootSectors
DataClusters(mb, spf) == (TotalSectors(mb) - DataStart(spf)) \div SectorsPerCluster(mb)
FatSectors(clusters) == Ceil((clusters + ClusterFirst) * 2, BytesPerSector)

VARIABLES
    mb,        \* size asked for
    spf,       \* sectors of one table
    start,     \* first sector of the data
    clusters,  \* data clusters
    pass,      \* passes of the loop
    fixed      \* the last one changed nothing

layoutVars == <<mb, spf, start, clusters, pass, fixed>>

LayoutInit ==
    /\ mb \in MinMb..MaxMb
    /\ spf = 1 /\ start = 0 /\ clusters = 0
    /\ pass = 0 /\ fixed = FALSE

Passes == 10
Calculated == fixed \/ pass = Passes

\* One pass of the loop of _calc_geometry.
Refine ==
    /\ ~Calculated
    /\ start' = DataStart(spf)
    /\ clusters' = DataClusters(mb, spf)
    /\ spf' = FatSectors(clusters')
    /\ fixed' = (spf' = spf)
    /\ pass' = pass + 1
    /\ UNCHANGED mb

LayoutSpec == LayoutInit /\ [][Refine]_layoutVars

\* What _calc_geometry returns.
Layout ==
    [total |-> TotalSectors(mb), spc |-> SectorsPerCluster(mb), spf |-> spf,
     start |-> start, clusters |-> clusters]

------------------------------------------------------------------------------
(* The boot sector, and its readers *)

\* Mutant of BootSector: the wide field is used from one sector too late.
BootSectorLate(g) ==
    [spc |-> g.spc % 256, spf |-> g.spf % 65536,
     total16 |-> IF g.total <= 65536 THEN g.total % 65536 ELSE 0,
     total32 |-> IF g.total > 65536 THEN g.total ELSE 0]

\* _build_boot_sector: the fields that depend on the size, in their widths.
BootSector(g) ==
    [spc |-> g.spc % 256, spf |-> g.spf % 65536,
     total16 |-> IF g.total <= 65535 THEN g.total % 65536 ELSE 0,
     total32 |-> IF g.total > 65535 THEN g.total ELSE 0]

\* _read_geometry
Parse(b) ==
    LET total == IF b.total16 # 0 THEN b.total16 ELSE b.total32
        first == ReservedSectors + FatCount * b.spf + RootSectors
    IN [total |-> total, spc |-> b.spc, spf |-> b.spf, start |-> first,
        clusters |-> (total - first) \div b.spc]

\* format_fat16 sizes the file up to whole cylinders.
FileSectors(g) == Ceil(g.total, SectorsPerTrack * Heads) * (SectorsPerTrack * Heads)

\* dosbox._build_drive_mount_lines: the cylinders of the IMGMOUNT line.
MountCylinders(g) == Ceil(g.total, SectorsPerTrack * Heads)

------------------------------------------------------------------------------
(* Properties *)

\* The loop ends by itself ("in at most 3 passes", geometry.py:46) with numbers that
\* agree: the table has an entry for every cluster, the last cluster lies on the
\* disk, the number of clusters is one FAT16 can have (geometry.py:32, image.py:66)
\* and no cluster's number is an end mark.
LayoutFits ==
    Calculated =>
        /\ fixed /\ pass <= 3
        /\ start = DataStart(spf)
        /\ (clusters + ClusterFirst) * 2 <= spf * BytesPerSector
        /\ start + clusters * SectorsPerCluster(mb) <= TotalSectors(mb)
        /\ 4085 <= clusters /\ clusters <= 65524
        /\ ClusterFirst + clusters - 1 < EocMark

\* What is read from the boot sector is what was computed, and the cylinders DOSBox-X
\* is told are those of the file.
GeometryRoundTrips ==
    Calculated =>
        /\ Parse(BootSector(Layout)) = Layout
        /\ MountCylinders(Parse(BootSector(Layout))) * SectorsPerTrack * Heads
              = FileSectors(Layout)

\* For every size: a layout that fits, and that its readers find again.
LayoutIsSound == LayoutFits /\ GeometryRoundTrips
==============================================================================
