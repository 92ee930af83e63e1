-------------------------------- MODULE Fat16 ---------------------------------
(***************************************************************************)
(* A FAT16 volume and the writing of a file into it: service/utils/fat.     *)
(* The volume is the allocation table, the directories and the clusters'    *)
(* contents; write_file_to_image is a sequence of steps, each one or a few  *)
(* writes to the image, between which the backend may die or the volume     *)
(* turn out to be full.  Nothing is ever freed on an image: the code has no *)
(* operation that deletes or replaces a file.                               *)
(*                                                                          *)
(* A component of a path is a long name; on the image it is its 8.3 form,   *)
(* which several long names may share.  Sizes are counted in clusters.      *)
(***************************************************************************)
EXTENDS Naturals, Sequences, FiniteSets

CONSTANTS
    NumClusters,  \* data clusters of the volume
    RootSlots,    \* entries of the root directory
    SubSlots,     \* entries of a subdirectory besides . and ..
    Names,        \* long names of files and directories
    Short,        \* long name -> its 8.3 form
    Paths,        \* the files that may be written: sequences of long names
    Size,         \* file -> clusters its data fills
    NoFile

FirstCluster == 2
Clusters == FirstCluster..(FirstCluster + NumClusters - 1)
\* The directory that is not a cluster: 0 where an entry has to name it.
Root == 0
Dirs == Clusters \cup {Root}
Free == 0
EOC == FirstCluster + NumClusters
Shorts == {Short[n] : n \in Names}

ASSUME Fat16Assumption ==
    /\ NumClusters \in Nat
    /\ RootSlots \in Nat
    /\ SubSlots \in Nat
    /\ Short \in [Names -> Shorts]
    /\ Paths \subseteq Seq(Names) \ {<< >>}
    /\ Size \in [Paths -> Nat]
    /\ NoFile \notin Paths

VARIABLES
    fat,    \* cluster -> Free, EOC or the next cluster
    dir,    \* directory -> its entries, in the order of their slots
    chunk,  \* cluster -> <<file, position>> of the data in it, or << >>
    op      \* the write_file_to_image in progress

volVars == <<fat, dir, chunk, op>>

Stages == {"idle", "walk", "mkdir", "alloc", "data", "entry", "written", "failed"}
Entry == [name : Shorts, kind : {"dir", "file"}, first : Clusters, size : Nat]
NoOp == [stage |-> "idle", file |-> NoFile, at |-> 0, in |-> Root, got |-> << >>]

VolumeTypeOK ==
    /\ fat \in [Clusters -> Clusters \cup {Free, EOC}]
    /\ dir \in [Dirs -> Seq(Entry)]
    /\ chunk \in [Clusters -> (Paths \X Nat) \cup {<< >>}]
    /\ op \in [stage : Stages, file : Paths \cup {NoFile}, at : Nat, in : Dirs,
               got : Seq(Clusters)]

BlankVolume ==
    /\ fat = [c \in Clusters |-> Free]
    /\ dir = [d \in Dirs |-> << >>]
    /\ chunk = [c \in Clusters |-> << >>]

VolumeInit == BlankVolume /\ op = NoOp

------------------------------------------------------------------------------
(* Reading *)

Slots(d) == IF d = Root THEN RootSlots ELSE SubSlots
FreeSlot(d) == Len(dir[d]) < Slots(d)

\* _find_in_dir: the entries of that name; no two entries of a directory have one.
Found(d, n) == {i \in DOMAIN dir[d] : dir[d][i].name = n}
TheEntry(d, n) == dir[d][CHOOSE i \in Found(d, n) : TRUE]

\* _to_83 of every component.
ShortPath(p) == [i \in DOMAIN p |-> Short[p[i]]]
Need(p) == IF Size[p] = 0 THEN 1 ELSE Size[p]
Content(p) == [i \in 1..Size[p] |-> <<p, i>>]

\* _walk_path without create, one component: the subdirectory n of d, or EOC where
\* there is none.
Subdir(d, n) ==
    IF d \in Dirs /\ \E i \in Found(d, n) : dir[d][i].kind = "dir"
    THEN TheEntry(d, n).first
    ELSE EOC

\* The directories the loop of _walk_path comes through, and the one that should hold
\* the last component.
Descent(q) ==
    LET cluster[i \in 1..Len(q)] ==
            IF i = 1 THEN Root ELSE Subdir(cluster[i - 1], q[i - 1])
    IN cluster
DirOf(q) == Descent(q)[Len(q)]

\* _read_cluster_chain from each cluster on, for at most n steps; a chain that has not
\* come to its end after as many steps as there are clusters loops, or has run into a
\* free cluster.
ChainsUpTo ==
    LET chain[n \in 1..NumClusters] ==
            [c \in Clusters |->
                IF n = 1 \/ fat[c] \notin Clusters THEN <<c>>
                ELSE <<c>> \o chain[n - 1][fat[c]]]
    IN chain
Chain(first) == ChainsUpTo[NumClusters][first]

\* read_file_from_image: what is read at the path q, or Absent for an error.
Absent == << <<NoFile, 0>> >>
ReadFile(q) ==
    LET d == DirOf(q)
        n == q[Len(q)]
    IN IF d = EOC \/ Found(d, n) = {} THEN Absent
       ELSE LET e == TheEntry(d, n)
                s == Chain(e.first)
            IN IF e.kind = "dir" \/ fat[s[Len(s)]] # EOC \/ Len(s) < e.size THEN Absent
               ELSE [i \in 1..e.size |-> chunk[s[i]]]

------------------------------------------------------------------------------
(* Writing: write_file_to_image *)

Goto(s) == op' = [op EXCEPT !.stage = s]

\* Mutant of FreeClusters: the mark of a chain's last cluster is not seen.
FreeOrLast == {c \in Clusters : fat[c] \in {Free, EOC}}
FreeClusters == {c \in Clusters : fat[c] = Free}

\* Mutant of Lowest: clusters are counted from 0.
LowestFromZero(n) == [i \in 1..n |->
    (CHOOSE c \in FreeClusters : Cardinality({d \in FreeClusters : d < c}) = i - 1)
        - FirstCluster]

\* The n lowest free clusters, in their order (_find_free_cluster).
Lowest(n) == [i \in 1..n |->
    CHOOSE c \in FreeClusters : Cardinality({d \in FreeClusters : d < c}) = i - 1]

\* fat after clusters[i] has been linked to clusters[i + 1].
Linked(clusters) ==
    [c \in Clusters |->
        IF \E i \in DOMAIN clusters : clusters[i] = c
        THEN LET i == CHOOSE i \in DOMAIN clusters : clusters[i] = c
             IN IF i = Len(clusters) THEN EOC ELSE clusters[i + 1]
        ELSE fat[c]]

\* format_fat16
Format ==
    /\ fat' = [c \in Clusters |-> Free]
    /\ dir' = [d \in Dirs |-> << >>]
    /\ chunk' = [c \in Clusters |-> << >>]

StartWrite(p) ==
    /\ op.stage = "idle"
    /\ op' = [stage |-> "walk", file |-> p, at |-> 0, in |-> Root, got |-> << >>]
    /\ UNCHANGED <<fat, dir, chunk>>

NextName == Short[op.file[op.at + 1]]
AtName == op.at + 1 = Len(op.file)

\* _walk_path(create=True), one component that exists.
Walk ==
    /\ op.stage = "walk" /\ ~AtName
    /\ Found(op.in, NextName) # {}
    /\ LET e == TheEntry(op.in, NextName)
       IN IF e.kind = "dir"
          THEN op' = [op EXCEPT !.at = @ + 1, !.in = e.first]
          ELSE Goto("failed")
    /\ UNCHANGED <<fat, dir, chunk>>

\* _create_subdir up to the cluster of the new directory.
AllocDir ==
    /\ op.stage = "walk" /\ ~AtName
    /\ Found(op.in, NextName) = {}
    /\ IF FreeClusters = {}
       THEN Goto("failed") /\ UNCHANGED fat
       ELSE fat' = Linked(Lowest(1)) /\ op' = [op EXCEPT !.stage = "mkdir", !.got = Lowest(1)]
    /\ UNCHANGED <<dir, chunk>>

\* The rest of it: the cluster is cleared, then the parent gets the entry.
PutDir ==
    /\ op.stage = "mkdir"
    /\ LET c == op.got[1]
           e == [name |-> NextName, kind |-> "dir", first |-> c, size |-> 0]
       IN IF FreeSlot(op.in)
          THEN /\ dir' = [[dir EXCEPT ![c] = << >>] EXCEPT ![op.in] = Append(@, e)]
               /\ op' = [op EXCEPT !.stage = "walk", !.at = @ + 1, !.in = c, !.got = << >>]
          ELSE /\ dir' = [dir EXCEPT ![c] = << >>]
               /\ Goto("failed")
    /\ UNCHANGED <<fat, chunk>>

\* Mutant of CheckName: a name that exists gets a second entry.
CheckNothing ==
    /\ op.stage = "walk" /\ AtName
    /\ Goto("alloc")
    /\ UNCHANGED <<fat, dir, chunk>>

\* A name that exists is refused.
CheckName ==
    /\ op.stage = "walk" /\ AtName
    /\ Goto(IF Found(op.in, NextName) = {} THEN "alloc" ELSE "failed")
    /\ UNCHANGED <<fat, dir, chunk>>

\* _alloc_clusters: every cluster taken is marked before the next is looked for, and
\* those taken before the volume turns out to be full stay marked.
Alloc ==
    /\ op.stage = "alloc"
    /\ IF Need(op.file) <= Cardinality(FreeClusters)
       THEN LET got == Lowest(Need(op.file))
            IN fat' = Linked(got) /\ op' = [op EXCEPT !.stage = "data", !.got = got]
       ELSE /\ fat' = [c \in Clusters |-> IF c \in FreeClusters THEN EOC ELSE fat[c]]
            /\ Goto("failed")
    /\ UNCHANGED <<dir, chunk>>

WriteData ==
    /\ op.stage = "data"
    /\ chunk' = [c \in Clusters |->
                    IF \E i \in DOMAIN op.got : op.got[i] = c
                    THEN <<op.file, CHOOSE i \in DOMAIN op.got : op.got[i] = c>>
                    ELSE chunk[c]]
    /\ Goto("entry")
    /\ UNCHANGED <<fat, dir>>

\* The entry comes last; without a free slot the clusters stay allocated.
PutEntry ==
    /\ op.stage = "entry"
    /\ IF FreeSlot(op.in)
       THEN /\ dir' = [dir EXCEPT ![op.in] =
                          Append(@, [name |-> NextName, kind |-> "file",
                                     first |-> op.got[1], size |-> Size[op.file]])]
            /\ Goto("written")
       ELSE Goto("failed") /\ UNCHANGED dir
    /\ UNCHANGED <<fat, chunk>>

WriteStep == Walk \/ AllocDir \/ PutDir \/ CheckName \/ Alloc \/ WriteData \/ PutEntry

\* The call returns, or its exception leaves it.
EndWrite == op.stage \in {"written", "failed"} /\ op' = NoOp /\ UNCHANGED <<fat, dir, chunk>>

\* The image is made anew, or is gone and with it any write to it.
Renew == Format /\ op' = NoOp

\* The backend dies.
DropWrite == op' = NoOp /\ UNCHANGED <<fat, dir, chunk>>

VolumeNext == Renew \/ DropWrite \/ EndWrite \/ WriteStep \/ \E p \in Paths : StartWrite(p)

VolumeSpec == VolumeInit /\ [][VolumeNext]_volVars

------------------------------------------------------------------------------
(* Properties *)

\* What the image holds, as a tree.
Tree ==
    LET read == [q \in {ShortPath(p) : p \in Paths} |-> ReadFile(q)]
    IN [q \in {q \in DOMAIN read : read[q] # Absent} |-> read[q]]

Files == INSTANCE FileTree WITH
    Sources <- Paths, Path <- ShortPath, Content <- Content, tree <- Tree

\* The volume is a tree of files: a write shows its file at once and whole and leaves
\* the others alone, wherever it fails or is cut off.
VolumeIsTree == Files!Spec

\* The allocation table and the directories agree (fat_table.py, directory.py): a
\* chain never runs into a free cluster, never meets another chain and always
\* ends, and an entry points at the beginning of a chain that no other entry has.
NoCrossLinks ==
    /\ \A c \in Clusters : fat[c] \in Clusters => fat[c] > c /\ fat[fat[c]] # Free
    /\ \A c, d \in Clusters : fat[c] \in Clusters /\ fat[c] = fat[d] => c = d
    /\ \A d \in Dirs : \A i \in DOMAIN dir[d] :
          /\ fat[dir[d][i].first] # Free
          /\ \A c \in Clusters : fat[c] # dir[d][i].first
          /\ \A e \in Dirs : \A j \in DOMAIN dir[e] :
                dir[d][i].first = dir[e][j].first => d = e /\ i = j

\* The comparison after each copy (drive_hydration.py:42) never finds a difference: a
\* file reads back as its own data, next to whatever else has been written.
ReadBackMatches ==
    op.stage = "written" => ReadFile(ShortPath(op.file)) = Content(op.file)
==============================================================================
