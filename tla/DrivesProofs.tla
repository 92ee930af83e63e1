------------------------------ MODULE DrivesProofs -----------------------------
(***************************************************************************)
(* Proofs about Fat16 and Drives, for volumes, directories, files, names and *)
(* launches of any size and number.                                          *)
(*                                                                           *)
(* First the volume on its own: Inv says that chains and entries agree, and   *)
(* VolumeInv adds what reading needs, that no two entries of a directory have *)
(* one name, that the chain of a file is a run as long as its entry says, and *)
(* where a write in progress has come to.  The paths that _walk_path follows  *)
(* and the chains that _read_cluster_chain follows are of any length; what    *)
(* holds all along them is proved at the least place where it would not.      *)
(* Every step Keeps what can be read, so that files read back, and the tree   *)
(* that the volume shows is the one of FileTree.                              *)
(*                                                                           *)
(* Then the drive: its launches, flags and changes (ControlInv), and what its *)
(* image holds (StoredInv).  Last, the layout of an image, for every size.    *)
(***************************************************************************)
EXTENDS Drives, Geometry, FiniteSetTheorems, WellFoundedInduction, TLAPS

\* Clusters are taken in their order and never given back: those from k on are free.
Taken(k) == \A c \in Clusters : fat[c] = Free <=> c >= k
Segment == \E k \in FirstCluster..EOC : Taken(k)

\* The cluster is the beginning of a chain that has no entry yet.
ChainHead(c) ==
    /\ fat[c] # Free
    /\ \A b \in Clusters : fat[b] # c
    /\ \A d \in Dirs : \A i \in DOMAIN dir[d] : dir[d][i].first # c

\* A write in progress has a next component, and the clusters it has taken.
OpInv ==
    /\ op.stage \notin {"idle", "written", "failed"} => op.file \in Paths /\ op.at < Len(op.file)
    /\ op.stage = "mkdir" => op.at + 1 < Len(op.file)
    /\ op.stage \in {"mkdir", "data", "entry"} => Len(op.got) > 0 /\ ChainHead(op.got[1])

Inv == VolumeTypeOK /\ Segment /\ OpInv /\ NoCrossLinks

------------------------------------------------------------------------------
(* Allocation *)

LEMMA ClusterFacts ==
    /\ NumClusters \in Nat
    /\ FirstCluster = 2
    /\ Clusters = 2..(NumClusters + 1)
    /\ EOC = NumClusters + 2
    /\ EOC \notin Clusters /\ Free \notin Clusters /\ Free # EOC
  BY Fat16Assumption DEF Clusters, FirstCluster, EOC, Free

\* The free clusters below one of them are an interval.
LEMMA FreeIs ==
    ASSUME NEW k \in FirstCluster..EOC, Taken(k)
    PROVE  /\ FreeClusters = k..(NumClusters + 1)
           /\ Cardinality(FreeClusters) = NumClusters + 2 - k
           /\ \A c \in FreeClusters : Cardinality({d \in FreeClusters : d < c}) = c - k
<1>0. k \in Int /\ 2 <= k /\ k <= NumClusters + 2
  BY ClusterFacts
<1>1. FreeClusters = k..(NumClusters + 1)
  <2>1. \A c \in Clusters : c \in FreeClusters <=> c >= k
    BY DEF Taken, FreeClusters
  <2>2. FreeClusters \subseteq Clusters
    BY DEF FreeClusters
  <2>3. \A c : c \in Clusters <=> c \in Int /\ 2 <= c /\ c <= NumClusters + 1
    BY ClusterFacts
  <2>4. \A c \in FreeClusters : c \in k..(NumClusters + 1)
    BY <1>0, <2>1, <2>2, <2>3, ClusterFacts
  <2>5. \A c \in k..(NumClusters + 1) : c \in FreeClusters
    BY <1>0, <2>1, <2>3, ClusterFacts
  <2> QED
    BY <2>4, <2>5
<1>2. Cardinality(FreeClusters) = NumClusters + 2 - k
  <2>1. Cardinality(k..(NumClusters + 1))
          = IF k > NumClusters + 1 THEN 0 ELSE NumClusters + 1 - k + 1
    BY <1>0, ClusterFacts, FS_Interval
  <2> QED
    BY <1>0, <1>1, <2>1, ClusterFacts
<1>3. ASSUME NEW c \in FreeClusters
      PROVE  Cardinality({d \in FreeClusters : d < c}) = c - k
  <2>1. c \in Int /\ k <= c /\ c <= NumClusters + 1
    BY <1>0, <1>1, ClusterFacts
  <2>2. {d \in FreeClusters : d < c} = k..(c - 1)
    BY <2>1, <1>0, <1>1, ClusterFacts
  <2>3. Cardinality(k..(c - 1)) = IF k > c - 1 THEN 0 ELSE c - 1 - k + 1
    BY <2>1, <1>0, FS_Interval
  <2>4. Cardinality(k..(c - 1)) = c - k
    BY <2>1, <2>3, <1>0
  <2> QED
    BY <2>2, <2>4, Zenon
<1> QED
  BY <1>1, <1>2, <1>3

LEMMA OneFree == ASSUME Segment, FreeClusters # {} PROVE 1 <= Cardinality(FreeClusters)
<1>1. PICK k \in FirstCluster..EOC : Taken(k)
  BY DEF Segment
<1>2. FreeClusters = k..(NumClusters + 1) /\ Cardinality(FreeClusters) = NumClusters + 2 - k
  BY <1>1, FreeIs
<1>3. k \in Nat
  BY ClusterFacts
<1> QED
  BY <1>2, <1>3, ClusterFacts

\* Lowest gives the next clusters, one after the other.
LEMMA LowestIs ==
    ASSUME NEW k \in FirstCluster..EOC, Taken(k),
           NEW n \in Nat, n <= Cardinality(FreeClusters)
    PROVE  /\ k + n <= NumClusters + 2
           /\ Lowest(n) = [i \in 1..n |-> k + i - 1]
           /\ Lowest(n) \in Seq(Clusters) /\ Len(Lowest(n)) = n
<1>1. k + n <= NumClusters + 2
  BY FreeIs, ClusterFacts
<1>2. ASSUME NEW i \in 1..n
      PROVE  (CHOOSE c \in FreeClusters :
                 Cardinality({d \in FreeClusters : d < c}) = i - 1) = k + i - 1
  <2>1. k + i - 1 \in FreeClusters
    BY <1>1, FreeIs, ClusterFacts
  <2>2. ASSUME NEW c \in FreeClusters
        PROVE  Cardinality({d \in FreeClusters : d < c}) = i - 1 <=> c = k + i - 1
    <3> DEFINE below == Cardinality({d \in FreeClusters : d < c})
    <3>1. below = c - k
      BY FreeIs
    <3>2. c \in Int /\ k \in Int
      BY FreeIs, ClusterFacts
    <3> HIDE DEF below
    <3>3. below = i - 1 <=> c = k + i - 1
      BY <3>1, <3>2
    <3> QED
      BY <3>3 DEF below
  <2> QED
    BY <2>1, <2>2
<1>3. Lowest(n) = [i \in 1..n |-> k + i - 1]
  BY <1>2 DEF Lowest
<1>4. \A i \in 1..n : k + i - 1 \in Clusters
  <2>1. k \in Int /\ 2 <= k
    BY ClusterFacts
  <2> QED
    BY <2>1, <1>1, ClusterFacts
<1> QED
  BY <1>1, <1>3, <1>4

\* The table after an allocation: one new chain, from k on.
LEMMA LinkedIs ==
    ASSUME NEW k \in FirstCluster..EOC, Taken(k), VolumeTypeOK,
           NEW n \in Nat \ {0}, n <= Cardinality(FreeClusters)
    PROVE  /\ Linked(Lowest(n)) \in [Clusters -> Clusters \cup {Free, EOC}]
           /\ \A c \in Clusters :
                 Linked(Lowest(n))[c] = IF c < k \/ c >= k + n THEN fat[c]
                                        ELSE IF c = k + n - 1 THEN EOC ELSE c + 1
<1> DEFINE got == Lowest(n)
<1>1. /\ k + n <= NumClusters + 2
      /\ got = [i \in 1..n |-> k + i - 1]
      /\ Len(got) = n
  BY LowestIs
<1> HIDE DEF got
<1>2. ASSUME NEW c \in Clusters
      PROVE  Linked(got)[c] = IF c < k \/ c >= k + n THEN fat[c]
                              ELSE IF c = k + n - 1 THEN EOC ELSE c + 1
  <2>1. CASE c < k \/ c >= k + n
    <3>1. ~\E i \in DOMAIN got : got[i] = c
      BY <1>1, <2>1, ClusterFacts
    <3> QED
      BY <3>1, <2>1 DEF Linked
  <2>2. CASE ~(c < k \/ c >= k + n)
    <3>1. c - k + 1 \in DOMAIN got /\ got[c - k + 1] = c
      BY <1>1, <2>2, ClusterFacts
    <3>2. \A i \in DOMAIN got : got[i] = c <=> i = c - k + 1
      BY <1>1, <2>2, ClusterFacts
    <3>3. (CHOOSE i \in DOMAIN got : got[i] = c) = c - k + 1
      BY <3>1, <3>2
    <3>4. Linked(got)[c] = IF c - k + 1 = Len(got) THEN EOC ELSE got[c - k + 1 + 1]
      BY <3>1, <3>3 DEF Linked
    <3> QED
      BY <3>4, <1>1, <2>2, ClusterFacts
  <2> QED
    BY <2>1, <2>2
<1>3. ASSUME NEW c \in Clusters
      PROVE  Linked(got)[c] \in Clusters \cup {Free, EOC}
  <2>1. fat[c] \in Clusters \cup {Free, EOC}
    BY DEF VolumeTypeOK
  <2>2. ~(c < k \/ c >= k + n) /\ c # k + n - 1 => c + 1 \in Clusters
    BY <1>1, ClusterFacts
  <2> QED
    BY <1>2, <2>1, <2>2
<1>4. Linked(got) = [c \in Clusters |-> Linked(got)[c]]
  BY DEF Linked
<1> QED
  BY <1>2, <1>3, <1>4 DEF got

------------------------------------------------------------------------------
(* What the steps do to the table and the directories *)

OpType == [stage : Stages, file : Paths \cup {NoFile}, at : Nat, in : Dirs, got : Seq(Clusters)]

LEMMA NoOpType == NoOp \in OpType
<1>1. << >> \in Seq(Clusters) /\ Root \in Dirs /\ "idle" \in Stages
  BY DEF Dirs, Stages
<1> QED
  BY <1>1 DEF NoOp, OpType

LEMMA OpFields ==
    ASSUME NEW o \in OpType
    PROVE  /\ \A s \in Stages : [o EXCEPT !.stage = s] \in OpType
           /\ \A s \in Stages, g \in Seq(Clusters) : [o EXCEPT !.stage = s, !.got = g] \in OpType
           /\ \A d \in Dirs : [o EXCEPT !.at = @ + 1, !.in = d] \in OpType
           /\ \A s \in Stages, d \in Dirs, g \in Seq(Clusters) :
                 [o EXCEPT !.stage = s, !.at = @ + 1, !.in = d, !.got = g] \in OpType
<1>1. o.stage \in Stages /\ o.file \in Paths \cup {NoFile} /\ o.at \in Nat
      /\ o.in \in Dirs /\ o.got \in Seq(Clusters)
  BY DEF OpType
<1>2. o.at + 1 \in Nat
  BY <1>1
<1>3. ASSUME NEW s \in Stages, NEW d \in Dirs, NEW g \in Seq(Clusters)
      PROVE  /\ [o EXCEPT !.stage = s] \in OpType
             /\ [o EXCEPT !.stage = s, !.got = g] \in OpType
  BY <1>1, Zenon DEF OpType
<1>4. ASSUME NEW s \in Stages, NEW d \in Dirs, NEW g \in Seq(Clusters)
      PROVE  /\ [o EXCEPT !.at = @ + 1, !.in = d] \in OpType
             /\ [o EXCEPT !.stage = s, !.at = @ + 1, !.in = d, !.got = g] \in OpType
  BY <1>1, <1>2 DEF OpType
<1> QED
  BY <1>3, <1>4, NoOpType, Zenon DEF OpType

\* An allocation of n clusters makes one chain of clusters that were free.
LEMMA Allocates ==
    ASSUME Inv, NEW n \in Nat \ {0}, n <= Cardinality(FreeClusters),
           fat' = Linked(Lowest(n)), UNCHANGED dir
    PROVE  /\ fat' \in [Clusters -> Clusters \cup {Free, EOC}]
           /\ Segment' /\ NoCrossLinks'
           /\ Lowest(n) \in Seq(Clusters) /\ Len(Lowest(n)) = n
           /\ \A h \in Clusters : h = Lowest(n)[1] => ChainHead(h)'
<1>1. PICK k \in FirstCluster..EOC : Taken(k)
  BY DEF Inv, Segment
<1>2. /\ k \in Nat /\ 2 <= k /\ k + n <= NumClusters + 2
      /\ Lowest(n) = [i \in 1..n |-> k + i - 1]
      /\ Lowest(n) \in Seq(Clusters) /\ Len(Lowest(n)) = n
  BY <1>1, LowestIs, ClusterFacts
<1>3. /\ fat' \in [Clusters -> Clusters \cup {Free, EOC}]
      /\ \A c \in Clusters : fat'[c] = IF c < k \/ c >= k + n THEN fat[c]
                                        ELSE IF c = k + n - 1 THEN EOC ELSE c + 1
  BY <1>1, LinkedIs DEF Inv
<1>4. \A c \in Clusters : fat[c] = Free <=> c >= k
  BY <1>1 DEF Taken
<1>5. \A c \in Clusters : fat'[c] = Free <=> c >= k + n
  BY <1>2, <1>3, <1>4, ClusterFacts
<1>6. Segment'
  <2>1. k + n \in FirstCluster..EOC
    BY <1>2, ClusterFacts
  <2>2. Taken(k + n)'
    BY <1>5 DEF Taken
  <2> QED
    BY <2>1, <2>2 DEF Segment
\* Links of old chains stay below k, those of the new one above.
<1>7. \A c \in Clusters : fat'[c] \in Clusters =>
         \/ c < k /\ fat'[c] = fat[c] /\ fat[c] < k
         \/ k <= c /\ c + 1 < k + n /\ fat'[c] = c + 1
  <2>1. ASSUME NEW c \in Clusters, fat'[c] \in Clusters, c < k
        PROVE  fat'[c] = fat[c] /\ fat[c] < k
    <3>1. fat'[c] = fat[c]
      BY <2>1, <1>3
    <3>2. fat[c] \in Clusters /\ fat[fat[c]] # Free
      BY <3>1, <2>1 DEF Inv, NoCrossLinks
    <3>3. ~(fat[c] >= k)
      BY <3>2, <1>4
    <3> QED
      BY <3>1, <3>2, <3>3, <1>2, ClusterFacts
  <2>2. ASSUME NEW c \in Clusters, fat'[c] \in Clusters, c >= k
        PROVE  c + 1 < k + n /\ fat'[c] = c + 1
    BY <2>2, <1>2, <1>3, <1>4, ClusterFacts, SMTT(30)
  <2> QED
    BY <2>1, <2>2, <1>2, ClusterFacts
<1>8. \A d \in Dirs : \A i \in DOMAIN dir[d] :
         /\ dir[d][i].first \in Clusters
         /\ dir[d][i].first < k
  <2>1. ASSUME NEW d \in Dirs, NEW i \in DOMAIN dir[d]
        PROVE  dir[d][i].first \in Clusters /\ fat[dir[d][i].first] # Free
    <3>1. dir[d] \in Seq(Entry)
      BY DEF Inv, VolumeTypeOK
    <3>2. dir[d][i] \in Entry
      BY <3>1
    <3> QED
      BY <3>2 DEF Inv, Entry, NoCrossLinks
  <2>2. \A c \in Clusters : fat[c] # Free => c < k
    BY <1>2, <1>4, ClusterFacts
  <2> QED
    BY <2>1, <2>2
<1>9. NoCrossLinks'
  <2>1. ASSUME NEW c \in Clusters, fat'[c] \in Clusters
        PROVE  fat'[c] > c /\ fat'[fat'[c]] # Free
    BY <2>1, <1>2, <1>5, <1>7, ClusterFacts, SMTT(30) DEF Inv, NoCrossLinks
  <2>2. ASSUME NEW c \in Clusters, NEW d \in Clusters, fat'[c] \in Clusters, fat'[c] = fat'[d]
        PROVE  c = d
    BY <2>2, <1>2, <1>7, ClusterFacts, SMTT(30) DEF Inv, NoCrossLinks
  <2>3. ASSUME NEW d \in Dirs, NEW i \in DOMAIN dir[d]
        PROVE  /\ fat'[dir[d][i].first] # Free
               /\ \A c \in Clusters : fat'[c] # dir[d][i].first
    <3>1. dir[d][i].first \in Clusters /\ dir[d][i].first < k
      BY <1>8
    <3>2. \A c \in Clusters : fat[c] # dir[d][i].first
      BY DEF Inv, NoCrossLinks
    <3> DEFINE f == dir[d][i].first
    <3> HIDE DEF f
    <3>3. f \in Clusters /\ f < k /\ \A c \in Clusters : fat[c] # f
      BY <3>1, <3>2 DEF f
    <3>4. fat'[f] # Free
      BY <3>3, <1>2, <1>5, ClusterFacts
    <3>5. ASSUME NEW c \in Clusters, fat'[c] = f
          PROVE  FALSE
      BY <3>3, <3>5, <1>2, <1>7, ClusterFacts
    <3> QED
      BY <3>4, <3>5 DEF f
  <2>4. \A d \in Dirs : \A i \in DOMAIN dir[d] : \A e \in Dirs : \A j \in DOMAIN dir[e] :
           dir[d][i].first = dir[e][j].first => d = e /\ i = j
    BY DEF Inv, NoCrossLinks
  <2> QED
    BY <2>1, <2>2, <2>3, <2>4 DEF NoCrossLinks
<1>10. ASSUME NEW h \in Clusters, h = Lowest(n)[1]
       PROVE  ChainHead(h)'
  <2>1. h = k
    BY <1>2, <1>10
  <2>2. fat'[h] # Free
    BY <2>1, <1>2, <1>5
  <2>3. ASSUME NEW b \in Clusters, fat'[b] = h
        PROVE  FALSE
    BY <2>1, <2>3, <1>2, <1>7, ClusterFacts
  <2>4. \A d \in Dirs : \A i \in DOMAIN dir[d] : dir[d][i].first # h
    BY <2>1, <1>2, <1>8, ClusterFacts
  <2> QED
    BY <2>2, <2>3, <2>4 DEF ChainHead
<1> QED
  BY <1>2, <1>3, <1>6, <1>9, <1>10

\* The entries of a directory that gets one more.
LEMMA EntriesAre ==
    ASSUME NEW base \in [Dirs -> Seq(Entry)], NEW d \in Dirs, NEW e \in Entry,
           dir' = [base EXCEPT ![d] = Append(@, e)]
    PROVE  /\ dir' \in [Dirs -> Seq(Entry)]
           /\ \A x \in Dirs : \A i \in DOMAIN base[x] : i \in DOMAIN dir'[x] /\ dir'[x][i] = base[x][i]
           /\ \A x \in Dirs : \A i \in DOMAIN dir'[x] :
                 \/ i \in DOMAIN base[x] /\ dir'[x][i] = base[x][i]
                 \/ x = d /\ i = Len(base[d]) + 1 /\ dir'[x][i] = e
           /\ Len(base[d]) + 1 \in DOMAIN dir'[d] /\ dir'[d][Len(base[d]) + 1] = e
<1>1. dir' \in [Dirs -> Seq(Entry)]
  <2>1. Append(base[d], e) \in Seq(Entry)
    OBVIOUS
  <2> QED
    BY <2>1
<1>2. \A x \in Dirs : x # d => dir'[x] = base[x]
  OBVIOUS
<1>3. dir'[d] = Append(base[d], e)
  OBVIOUS
<1>4. /\ \A i \in DOMAIN base[d] :
            i \in DOMAIN Append(base[d], e) /\ Append(base[d], e)[i] = base[d][i]
      /\ \A i \in DOMAIN Append(base[d], e) :
            \/ i \in DOMAIN base[d] /\ Append(base[d], e)[i] = base[d][i]
            \/ i = Len(base[d]) + 1 /\ Append(base[d], e)[i] = e
      /\ Len(base[d]) + 1 \in DOMAIN Append(base[d], e)
      /\ Append(base[d], e)[Len(base[d]) + 1] = e
  <2>1. base[d] \in Seq(Entry)
    OBVIOUS
  <2> QED
    BY <2>1
<1> QED
  BY <1>1, <1>2, <1>3, <1>4

\* Clearing directories, and an entry for the head of a chain, cross no links.
LEMMA Enters ==
    ASSUME Inv, UNCHANGED fat,
           NEW base \in [Dirs -> Seq(Entry)], \A x \in Dirs : base[x] \in {dir[x], << >>},
           NEW d \in Dirs, NEW e \in Entry,
           \/ dir' = base
           \/ ChainHead(e.first) /\ dir' = [base EXCEPT ![d] = Append(@, e)]
    PROVE  dir' \in [Dirs -> Seq(Entry)] /\ NoCrossLinks'
<1>1. dir' \in [Dirs -> Seq(Entry)]
  BY EntriesAre
\* Every entry is an old one, or the new one.
<1>2. \A x \in Dirs : \A i \in DOMAIN dir'[x] :
         \/ i \in DOMAIN dir[x] /\ dir'[x][i] = dir[x][i]
         \/ ChainHead(e.first) /\ x = d /\ i = Len(base[d]) + 1 /\ dir'[x][i] = e
  <2>1. ASSUME NEW x \in Dirs, NEW i \in DOMAIN base[x]
        PROVE  i \in DOMAIN dir[x] /\ base[x][i] = dir[x][i]
    OBVIOUS
  <2>2. CASE dir' = base
    BY <2>1, <2>2
  <2>3. CASE ChainHead(e.first) /\ dir' = [base EXCEPT ![d] = Append(@, e)]
    <3>1. \A x \in Dirs : \A i \in DOMAIN dir'[x] :
             \/ i \in DOMAIN base[x] /\ dir'[x][i] = base[x][i]
             \/ x = d /\ i = Len(base[d]) + 1 /\ dir'[x][i] = e
      BY <2>3, EntriesAre
    <3> QED
      BY <2>1, <2>3, <3>1
  <2> QED
    BY <2>2, <2>3
<1>3. ASSUME NEW x \in Dirs, NEW i \in DOMAIN dir'[x]
      PROVE  /\ fat[dir'[x][i].first] # Free
             /\ \A c \in Clusters : fat[c] # dir'[x][i].first
             /\ \A y \in Dirs : \A j \in DOMAIN dir'[y] :
                   dir'[x][i].first = dir'[y][j].first => x = y /\ i = j
  <2>1. CASE i \in DOMAIN dir[x] /\ dir'[x][i] = dir[x][i]
    <3>1. /\ fat[dir[x][i].first] # Free
          /\ \A c \in Clusters : fat[c] # dir[x][i].first
          /\ \A y \in Dirs : \A j \in DOMAIN dir[y] :
                dir[x][i].first = dir[y][j].first => x = y /\ i = j
      BY <2>1 DEF Inv, NoCrossLinks
    <3>2. ChainHead(e.first) => dir[x][i].first # e.first
      BY <2>1 DEF ChainHead
    <3>3. ASSUME NEW y \in Dirs, NEW j \in DOMAIN dir'[y], dir'[x][i].first = dir'[y][j].first
          PROVE  x = y /\ i = j
      <4>1. CASE j \in DOMAIN dir[y] /\ dir'[y][j] = dir[y][j]
        BY <2>1, <3>1, <3>3, <4>1
      <4>2. CASE ChainHead(e.first) /\ dir'[y][j] = e
        BY <2>1, <3>2, <3>3, <4>2
      <4> QED
        BY <1>2, <4>1, <4>2
    <3> QED
      BY <2>1, <3>1, <3>3
  <2>2. CASE ChainHead(e.first) /\ x = d /\ i = Len(base[d]) + 1 /\ dir'[x][i] = e
    <3>1. /\ fat[e.first] # Free
          /\ \A c \in Clusters : fat[c] # e.first
      BY <2>2 DEF ChainHead
    <3>2. ASSUME NEW y \in Dirs, NEW j \in DOMAIN dir'[y], e.first = dir'[y][j].first
          PROVE  x = y /\ i = j
      <4>1. ~(j \in DOMAIN dir[y] /\ dir'[y][j] = dir[y][j])
        BY <2>2, <3>2 DEF ChainHead
      <4> QED
        BY <1>2, <2>2, <4>1
    <3> QED
      BY <2>2, <3>1, <3>2
  <2> QED
    BY <1>2, <2>1, <2>2
<1> QED
  BY <1>1, <1>3 DEF Inv, NoCrossLinks

------------------------------------------------------------------------------
(* The invariant *)

\* Nothing but the write in progress changes.
LEMMA OpOnly ==
    ASSUME Inv, UNCHANGED <<fat, dir, chunk>>, op' \in OpType, OpInv'
    PROVE  Inv'
  BY DEF Inv, VolumeTypeOK, OpType, Segment, Taken, NoCrossLinks

LEMMA HeadStays ==
    ASSUME UNCHANGED <<fat, dir>>, NEW c, ChainHead(c)
    PROVE  ChainHead(c)'
  BY DEF ChainHead

LEMMA InvTypes ==
    ASSUME Inv
    PROVE  /\ op \in OpType
           /\ op.stage \in Stages /\ op.at \in Nat /\ op.in \in Dirs /\ op.got \in Seq(Clusters)
           /\ fat \in [Clusters -> Clusters \cup {Free, EOC}]
           /\ dir \in [Dirs -> Seq(Entry)]
           /\ op.stage \notin {"idle", "written", "failed"} =>
                 /\ op.file \in Paths
                 /\ op.file \in Seq(Names) /\ Len(op.file) \in Nat
                 /\ op.at + 1 \in DOMAIN op.file /\ op.at < Len(op.file)
                 /\ NextName \in Shorts
           /\ op.stage \in {"mkdir", "data", "entry"} =>
                 Len(op.got) > 0 /\ op.got[1] \in Clusters /\ ChainHead(op.got[1])
           /\ op.stage = "mkdir" => op.at + 1 < Len(op.file)
<1>1. op \in OpType
  BY DEF Inv, VolumeTypeOK, OpType
<1>2. /\ op.stage \in Stages /\ op.at \in Nat /\ op.in \in Dirs /\ op.got \in Seq(Clusters)
  BY <1>1 DEF OpType
<1>3. ASSUME op.stage \notin {"idle", "written", "failed"}
      PROVE  /\ op.file \in Paths
             /\ op.file \in Seq(Names) /\ Len(op.file) \in Nat
             /\ op.at + 1 \in DOMAIN op.file /\ op.at < Len(op.file)
             /\ NextName \in Shorts
  <2>1. op.file \in Paths /\ op.at < Len(op.file)
    BY <1>3 DEF Inv, OpInv
  <2>2. op.file \in Seq(Names)
    BY <2>1, Fat16Assumption
  <2>3. op.at + 1 \in DOMAIN op.file
    BY <1>2, <2>1, <2>2
  <2>4. op.file[op.at + 1] \in Names
    BY <2>2, <2>3
  <2> QED
    BY <2>1, <2>2, <2>3, <2>4, Fat16Assumption DEF NextName
<1>4. ASSUME op.stage \in {"mkdir", "data", "entry"}
      PROVE  Len(op.got) > 0 /\ op.got[1] \in Clusters /\ ChainHead(op.got[1])
  <2>1. Len(op.got) > 0 /\ ChainHead(op.got[1])
    BY <1>4 DEF Inv, OpInv
  <2> QED
    BY <1>2, <2>1
<1> QED
  BY <1>1, <1>2, <1>3, <1>4 DEF Inv, VolumeTypeOK, OpInv

\* The cluster of a directory that is being made.
LEMMA AtMkdir ==
    ASSUME Inv, op.stage = "mkdir", NEW c, c = op.got[1]
    PROVE  /\ c \in Clusters /\ c \in Dirs /\ c # Root /\ ChainHead(c)
           /\ op.in \in Dirs /\ NextName \in Shorts /\ dir \in [Dirs -> Seq(Entry)]
<1>1. c \in Clusters /\ ChainHead(c) /\ op.in \in Dirs /\ NextName \in Shorts
      /\ dir \in [Dirs -> Seq(Entry)]
  BY InvTypes
<1>2. c \in Dirs /\ c # Root
  BY <1>1, ClusterFacts DEF Dirs, Root
<1> QED
  BY <1>1, <1>2

LEMMA GotoType ==
    ASSUME Inv, NEW s \in Stages, Goto(s)
    PROVE  op' \in OpType /\ op'.stage = s /\ op'.file = op.file /\ op'.at = op.at /\ op'.got = op.got
<1>1. op \in OpType /\ op' = [op EXCEPT !.stage = s]
  BY InvTypes DEF Goto
<1> QED
  BY <1>1, OpFields DEF OpType

LEMMA WalkInv == Inv /\ Walk => Inv'
<1> SUFFICES ASSUME Inv, Walk PROVE Inv'
  OBVIOUS
<1> USE DEF Walk
<1>1. CASE Goto("failed")
  <2>1. op' \in OpType /\ op'.stage = "failed"
    BY <1>1, GotoType DEF Stages
  <2> QED
    BY <2>1, OpOnly DEF OpInv
<1>2. CASE op' = [op EXCEPT !.at = @ + 1, !.in = TheEntry(op.in, NextName).first]
  <2>1. TheEntry(op.in, NextName) \in Entry
    <3>1. \A i \in Found(op.in, NextName) : dir[op.in][i] \in Entry
      BY InvTypes DEF Found
    <3> QED
      BY <3>1 DEF TheEntry
  <2>2. TheEntry(op.in, NextName).first \in Dirs
    BY <2>1 DEF Entry, Dirs
  <2>3. /\ op' \in OpType /\ op'.stage = "walk" /\ op'.file = op.file /\ op'.at = op.at + 1
    BY <1>2, <2>2, InvTypes, OpFields DEF OpType
  <2>4. op.file \in Paths /\ op.at + 1 < Len(op.file)
    BY InvTypes DEF AtName
  <2> QED
    BY <2>3, <2>4, OpOnly DEF OpInv
<1> QED
  BY <1>1, <1>2

LEMMA AllocDirInv == Inv /\ AllocDir => Inv'
<1> SUFFICES ASSUME Inv, AllocDir PROVE Inv'
  OBVIOUS
<1>0. op.stage = "walk" /\ ~AtName /\ UNCHANGED <<dir, chunk>>
  BY DEF AllocDir
<1>1. CASE FreeClusters = {}
  <2>1. Goto("failed") /\ UNCHANGED fat
    BY <1>1 DEF AllocDir
  <2>2. op' \in OpType /\ op'.stage = "failed"
    BY <2>1, GotoType DEF Stages
  <2> QED
    BY <1>0, <2>1, <2>2, OpOnly DEF OpInv
<1>2. CASE FreeClusters # {}
  <2> DEFINE got == Lowest(1)
  <2>1. 1 <= Cardinality(FreeClusters)
    BY <1>2, OneFree DEF Inv
  <2>2. fat' = Linked(got) /\ op' = [op EXCEPT !.stage = "mkdir", !.got = got]
    BY <1>2 DEF AllocDir
  <2>3. /\ fat' \in [Clusters -> Clusters \cup {Free, EOC}]
        /\ Segment' /\ NoCrossLinks'
        /\ got \in Seq(Clusters) /\ Len(got) = 1
        /\ \A h \in Clusters : h = got[1] => ChainHead(h)'
    <3>1. 1 \in Nat \ {0}
      OBVIOUS
    <3> QED
      BY <1>0, <2>1, <2>2, <3>1, Allocates
  <2> HIDE DEF got
  <2>4. op' \in OpType
    BY <2>2, <2>3, InvTypes, OpFields DEF Stages
  <2>5. op'.stage = "mkdir" /\ op'.file = op.file /\ op'.at = op.at /\ op'.got = got
    BY <2>2, InvTypes DEF OpType
  <2>6. PICK h \in Clusters : h = got[1]
    BY <2>3
  <2>7. ChainHead(h)' /\ op'.got[1] = h
    BY <2>3, <2>5, <2>6
  <2>8. op.file \in Paths /\ op.at + 1 < Len(op.file)
    BY <1>0, InvTypes DEF AtName
  <2>9. OpInv'
    <3>1. op'.file \in Paths /\ op'.at < Len(op'.file) /\ op'.at + 1 < Len(op'.file)
      <4>1. op.at < Len(op.file)
        BY <1>0, InvTypes
      <4> QED
        BY <2>5, <2>8, <4>1
    <3>2. Len(op'.got) > 0
      <4>1. Len(op'.got) = 1
        BY <2>3, <2>5, Zenon
      <4> QED
        BY <4>1
    <3>3. ChainHead(op.got[1])'
      BY <2>7
    <3> QED
      BY <3>1, <3>2, <3>3 DEF OpInv
  <2> QED
    BY <1>0, <2>3, <2>4, <2>9 DEF Inv, VolumeTypeOK, OpType
<1> QED
  BY <1>1, <1>2

LEMMA PutDirInv == Inv /\ PutDir => Inv'
<1> SUFFICES ASSUME Inv, PutDir PROVE Inv'
  OBVIOUS
<1> DEFINE c == op.got[1]
           e == [name |-> NextName, kind |-> "dir", first |-> c, size |-> 0]
           base == [dir EXCEPT ![c] = << >>]
<1>1. op.stage = "mkdir" /\ UNCHANGED <<fat, chunk>>
  BY DEF PutDir
<1>2. c \in Clusters /\ c \in Dirs /\ ChainHead(c) /\ e \in Entry
  BY <1>1, InvTypes DEF Dirs, Entry
<1>3. /\ base \in [Dirs -> Seq(Entry)]
      /\ \A x \in Dirs : base[x] \in {dir[x], << >>}
  BY <1>2, InvTypes
<1>4. CASE FreeSlot(op.in)
  <2>1. op' = [op EXCEPT !.stage = "walk", !.at = @ + 1, !.in = c, !.got = << >>]
    BY <1>4 DEF PutDir
  <2>2. dir' = [base EXCEPT ![op.in] = Append(@, e)]
    BY <1>4 DEF PutDir
  <2>3. e.first = c
    OBVIOUS
  <2> HIDE DEF base, e
  <2>4. dir' \in [Dirs -> Seq(Entry)] /\ NoCrossLinks'
    BY <1>1, <1>2, <1>3, <2>2, <2>3, InvTypes, Enters
  <2> HIDE DEF c
  <2>5. op' \in OpType
    <3>1. "walk" \in Stages /\ << >> \in Seq(Clusters)
      BY DEF Stages
    <3> QED
      BY <1>2, <2>1, <3>1, InvTypes, OpFields
  <2>6. op'.stage = "walk" /\ op'.file = op.file /\ op'.at = op.at + 1
    BY <2>1, InvTypes DEF OpType
  <2>7. OpInv'
    BY <1>1, <2>6, InvTypes DEF OpInv
  <2> QED
    BY <1>1, <2>4, <2>5, <2>7 DEF Inv, VolumeTypeOK, OpType, Segment, Taken
<1>5. CASE ~FreeSlot(op.in)
  <2>1. dir' = base /\ Goto("failed")
    BY <1>5 DEF PutDir
  <2> HIDE DEF base, e
  <2>2. dir' \in [Dirs -> Seq(Entry)] /\ NoCrossLinks'
    BY <1>1, <1>2, <1>3, <2>1, InvTypes, Enters
  <2>3. op' \in OpType /\ op'.stage = "failed"
    BY <2>1, GotoType DEF Stages
  <2> QED
    BY <1>1, <2>2, <2>3 DEF Inv, VolumeTypeOK, OpType, OpInv, Segment, Taken
<1> QED
  BY <1>4, <1>5

\* CheckName, WriteData and PutEntry keep what the write has taken.
LEMMA CheckNameInv == Inv /\ CheckName => Inv'
<1> SUFFICES ASSUME Inv, CheckName PROVE Inv'
  OBVIOUS
<1>1. /\ op.stage = "walk" /\ UNCHANGED <<fat, dir, chunk>>
      /\ Goto("alloc") \/ Goto("failed")
  BY DEF CheckName
<1>2. op' \in OpType /\ op'.stage \in {"alloc", "failed"} /\ op'.file = op.file /\ op'.at = op.at
  BY <1>1, GotoType DEF Stages
<1>3. op.file \in Paths /\ op.at < Len(op.file)
  BY <1>1, InvTypes
<1>4. OpInv'
  BY <1>2, <1>3 DEF OpInv
<1> QED
  BY <1>1, <1>2, <1>4, OpOnly

LEMMA AllocInv == Inv /\ Alloc => Inv'
<1> SUFFICES ASSUME Inv, Alloc PROVE Inv'
  OBVIOUS
<1> DEFINE n == Need(op.file)
<1>0. op.stage = "alloc" /\ UNCHANGED <<dir, chunk>>
  BY DEF Alloc
<1>1. op.file \in Paths /\ op.at < Len(op.file) /\ n \in Nat \ {0}
  <2>1. op.file \in Paths /\ op.at < Len(op.file)
    BY <1>0, InvTypes
  <2>2. Size[op.file] \in Nat
    BY <2>1, Fat16Assumption
  <2> QED
    BY <2>1, <2>2 DEF Need
<1>2. CASE n <= Cardinality(FreeClusters)
  <2> DEFINE got == Lowest(n)
  <2>1. fat' = Linked(got) /\ op' = [op EXCEPT !.stage = "data", !.got = got]
    BY <1>2 DEF Alloc
  <2> HIDE DEF n
  <2>2. /\ fat' \in [Clusters -> Clusters \cup {Free, EOC}]
        /\ Segment' /\ NoCrossLinks'
        /\ got \in Seq(Clusters) /\ Len(got) = n
        /\ \A h \in Clusters : h = got[1] => ChainHead(h)'
    BY <1>0, <1>1, <1>2, <2>1, Allocates
  <2> HIDE DEF got
  <2>3. op' \in OpType
    BY <2>1, <2>2, InvTypes, OpFields DEF Stages
  <2>4. op'.stage = "data" /\ op'.file = op.file /\ op'.at = op.at /\ op'.got = got
    BY <2>1, InvTypes DEF OpType
  <2>5. PICK h \in Clusters : h = got[1]
    BY <1>1, <2>2
  <2>6. ChainHead(h)' /\ op'.got[1] = h
    BY <2>2, <2>4, <2>5
  <2>7. OpInv'
    <3>1. Len(op'.got) = n
      BY <2>2, <2>4, Zenon
    <3>2. Len(op'.got) > 0
      BY <1>1, <3>1
    <3>3. ChainHead(op.got[1])'
      BY <2>6
    <3>4. op'.file \in Paths /\ op'.at < Len(op'.file)
      BY <1>1, <2>4
    <3> QED
      BY <2>4, <3>2, <3>3, <3>4 DEF OpInv
  <2> QED
    BY <1>0, <2>2, <2>3, <2>7 DEF Inv, VolumeTypeOK, OpType
\* The volume is full: what was free becomes chains of one cluster without an entry.
<1>3. CASE ~(n <= Cardinality(FreeClusters))
  <2>1. /\ fat' = [c \in Clusters |-> IF c \in FreeClusters THEN EOC ELSE fat[c]]
        /\ Goto("failed")
    BY <1>3 DEF Alloc
  <2>2. \A c \in Clusters : fat'[c] = IF fat[c] = Free THEN EOC ELSE fat[c]
    BY <2>1 DEF FreeClusters
  <2>3. fat' \in [Clusters -> Clusters \cup {Free, EOC}]
    BY <2>1, InvTypes
  <2>4. \A c \in Clusters : fat'[c] # Free
    BY <2>2, ClusterFacts
  <2>5. Segment'
    <3>1. EOC \in FirstCluster..EOC
      BY ClusterFacts
    <3>2. \A c \in Clusters : ~(c >= EOC)
      BY ClusterFacts
    <3>3. Taken(EOC)'
      BY <2>4, <3>2 DEF Taken
    <3> QED
      BY <3>1, <3>3 DEF Segment
  <2>6. \A c \in Clusters : fat'[c] \in Clusters => fat'[c] = fat[c]
    BY <2>2, ClusterFacts
  <2>7. ASSUME NEW d \in Dirs, NEW i \in DOMAIN dir[d]
        PROVE  dir[d][i].first \in Clusters
    <3>1. dir[d] \in Seq(Entry)
      BY InvTypes
    <3>2. dir[d][i] \in Entry
      BY <3>1
    <3> QED
      BY <3>2 DEF Entry
  <2>8. NoCrossLinks'
    <3>1. \A c \in Clusters : fat'[c] \in Clusters => fat'[c] > c /\ fat'[fat'[c]] # Free
      BY <2>4, <2>6 DEF Inv, NoCrossLinks
    <3>2. \A c, d \in Clusters : fat'[c] \in Clusters /\ fat'[c] = fat'[d] => c = d
      BY <2>6 DEF Inv, NoCrossLinks
    <3>3. ASSUME NEW d \in Dirs, NEW i \in DOMAIN dir[d]
          PROVE  /\ fat'[dir[d][i].first] # Free
                 /\ \A c \in Clusters : fat'[c] # dir[d][i].first
                 /\ \A e \in Dirs : \A j \in DOMAIN dir[e] :
                       dir[d][i].first = dir[e][j].first => d = e /\ i = j
      BY <2>4, <2>6, <2>7 DEF Inv, NoCrossLinks
    <3> QED
      BY <1>0, <3>1, <3>2, <3>3 DEF NoCrossLinks
  <2>9. op' \in OpType /\ op'.stage = "failed"
    BY <2>1, GotoType DEF Stages
  <2> QED
    BY <1>0, <2>3, <2>5, <2>8, <2>9 DEF Inv, VolumeTypeOK, OpType, OpInv
<1> QED
  BY <1>2, <1>3

LEMMA WriteDataInv == Inv /\ WriteData => Inv'
<1> SUFFICES ASSUME Inv, WriteData PROVE Inv'
  OBVIOUS
<1>1. op.stage = "data" /\ Goto("entry") /\ UNCHANGED <<fat, dir>>
  BY DEF WriteData
<1>2. chunk' \in [Clusters -> (Paths \X Nat) \cup {<< >>}]
  <2>1. DOMAIN op.got \subseteq Nat
    BY InvTypes
  <2>2. ASSUME NEW c \in Clusters, \E i \in DOMAIN op.got : op.got[i] = c
        PROVE  (CHOOSE i \in DOMAIN op.got : op.got[i] = c) \in Nat
    BY <2>1, <2>2
  <2>3. op.file \in Paths
    BY <1>1, InvTypes
  <2>4. chunk \in [Clusters -> (Paths \X Nat) \cup {<< >>}]
    BY DEF Inv, VolumeTypeOK
  <2> QED
    BY <2>2, <2>3, <2>4 DEF WriteData
<1>3. op' \in OpType /\ op'.stage = "entry" /\ op'.file = op.file /\ op'.at = op.at
      /\ op'.got = op.got
  BY <1>1, GotoType DEF Stages
<1>4. OpInv'
  <2>1. /\ op.file \in Paths /\ op.at < Len(op.file)
        /\ Len(op.got) > 0 /\ ChainHead(op.got[1])
    BY <1>1, InvTypes
  <2>2. ChainHead(op.got[1])'
    BY <1>1, <1>3, <2>1 DEF ChainHead
  <2> QED
    BY <1>3, <2>1, <2>2 DEF OpInv
<1> QED
  BY <1>1, <1>2, <1>3, <1>4 DEF Inv, VolumeTypeOK, OpType, Segment, Taken, NoCrossLinks

LEMMA PutEntryInv == Inv /\ PutEntry => Inv'
<1> SUFFICES ASSUME Inv, PutEntry PROVE Inv'
  OBVIOUS
<1> DEFINE e == [name |-> NextName, kind |-> "file", first |-> op.got[1], size |-> Size[op.file]]
<1>1. op.stage = "entry" /\ UNCHANGED <<fat, chunk>>
  BY DEF PutEntry
<1>2. /\ e \in Entry /\ e.first = op.got[1] /\ ChainHead(op.got[1])
      /\ op.in \in Dirs /\ dir \in [Dirs -> Seq(Entry)]
  <2>1. Size[op.file] \in Nat
    BY <1>1, InvTypes, Fat16Assumption
  <2>2. e.first = op.got[1]
    OBVIOUS
  <2>3. NextName \in Shorts /\ op.got[1] \in Clusters /\ ChainHead(op.got[1])
    BY <1>1, InvTypes
  <2>4. e \in Entry
    BY <2>1, <2>3, Zenon DEF Entry
  <2> QED
    BY <2>2, <2>3, <2>4, InvTypes
<1> HIDE DEF e
<1>3. CASE FreeSlot(op.in)
  <2>1. dir' = [dir EXCEPT ![op.in] = Append(@, e)] /\ Goto("written")
    BY <1>3 DEF PutEntry, e
  <2>2. dir' \in [Dirs -> Seq(Entry)] /\ NoCrossLinks'
    BY <1>1, <1>2, <2>1, Enters
  <2>3. op' \in OpType /\ op'.stage = "written"
    BY <2>1, GotoType DEF Stages
  <2> QED
    BY <1>1, <2>2, <2>3 DEF Inv, VolumeTypeOK, OpType, OpInv, Segment, Taken
<1>4. CASE ~FreeSlot(op.in)
  <2>1. Goto("failed") /\ UNCHANGED dir
    BY <1>4 DEF PutEntry
  <2>2. op' \in OpType /\ op'.stage = "failed"
    BY <2>1, GotoType DEF Stages
  <2> QED
    BY <1>1, <2>1, <2>2, OpOnly DEF OpInv
<1> QED
  BY <1>3, <1>4

LEMMA StartWriteInv == ASSUME Inv, NEW p \in Paths, StartWrite(p) PROVE Inv'
<1>1. /\ op' = [stage |-> "walk", file |-> p, at |-> 0, in |-> Root, got |-> << >>]
      /\ UNCHANGED <<fat, dir, chunk>>
  BY DEF StartWrite
<1>2. op' \in OpType
  <2>1. << >> \in Seq(Clusters) /\ Root \in Dirs /\ "walk" \in Stages
    BY DEF Dirs, Stages
  <2> QED
    BY <1>1, <2>1 DEF OpType
<1>3. p \in Seq(Names) /\ p # << >>
  BY Fat16Assumption
<1>4. OpInv'
  BY <1>1, <1>3 DEF OpInv
<1> QED
  BY <1>1, <1>2, <1>4, OpOnly

\* A fresh image, a write that returns or is dropped.
LEMMA BlankInv ==
    ASSUME fat = [c \in Clusters |-> Free], dir = [d \in Dirs |-> << >>],
           chunk = [c \in Clusters |-> << >>], op = NoOp
    PROVE  Inv
<1>1. VolumeTypeOK
  <2>1. /\ fat \in [Clusters -> Clusters \cup {Free, EOC}]
        /\ dir \in [Dirs -> Seq(Entry)]
        /\ chunk \in [Clusters -> (Paths \X Nat) \cup {<< >>}]
    OBVIOUS
  <2> QED
    BY <2>1, NoOpType DEF VolumeTypeOK, OpType
<1>2. Segment
  <2>1. Taken(FirstCluster) /\ FirstCluster \in FirstCluster..EOC
    BY ClusterFacts DEF Taken
  <2> QED
    BY <2>1 DEF Segment
<1>3. NoCrossLinks
  BY ClusterFacts DEF NoCrossLinks
<1>4. OpInv
  BY DEF OpInv, NoOp
<1> QED
  BY <1>1, <1>2, <1>3, <1>4 DEF Inv

LEMMA IdleInv == ASSUME Inv, op' = NoOp, UNCHANGED <<fat, dir, chunk>> PROVE Inv'
  BY NoOpType, OpOnly DEF OpInv, NoOp

LEMMA InitInv == VolumeInit => Inv
  BY BlankInv DEF VolumeInit, BlankVolume

LEMMA FormatInv ==
    ASSUME Format, op' \in OpType, op'.stage \in {"idle", "written", "failed"}
    PROVE  Inv'
<1>1. /\ fat' = [c \in Clusters |-> Free] /\ dir' = [d \in Dirs |-> << >>]
      /\ chunk' = [c \in Clusters |-> << >>]
  BY DEF Format
<1>2. VolumeTypeOK'
  <2>1. /\ fat' \in [Clusters -> Clusters \cup {Free, EOC}]
        /\ dir' \in [Dirs -> Seq(Entry)]
        /\ chunk' \in [Clusters -> (Paths \X Nat) \cup {<< >>}]
    BY <1>1
  <2> QED
    BY <2>1 DEF VolumeTypeOK, OpType
<1>3. Segment'
  <2>1. Taken(FirstCluster)' /\ FirstCluster \in FirstCluster..EOC
    BY <1>1, ClusterFacts DEF Taken
  <2> QED
    BY <2>1 DEF Segment
<1>4. NoCrossLinks'
  BY <1>1, ClusterFacts DEF NoCrossLinks
<1>5. OpInv'
  BY DEF OpInv
<1> QED
  BY <1>2, <1>3, <1>4, <1>5 DEF Inv

LEMMA RenewInv == Renew => Inv'
  BY FormatInv, NoOpType DEF Renew, NoOp

LEMMA NextInv == Inv /\ [VolumeNext]_volVars => Inv'
<1> SUFFICES ASSUME Inv, [VolumeNext]_volVars PROVE Inv'
  OBVIOUS
<1>1. CASE Renew
  BY <1>1, RenewInv
<1>2. CASE DropWrite
  BY <1>2, IdleInv DEF DropWrite
<1>3. CASE EndWrite
  BY <1>3, IdleInv DEF EndWrite
<1>4. CASE WriteStep
  BY <1>4, WalkInv, AllocDirInv, PutDirInv, CheckNameInv, AllocInv, WriteDataInv, PutEntryInv
     DEF WriteStep
<1>5. CASE \E p \in Paths : StartWrite(p)
  BY <1>5, StartWriteInv
<1>6. CASE UNCHANGED volVars
  BY <1>6 DEF volVars, Inv, VolumeTypeOK, Segment, Taken, OpInv, ChainHead, NoCrossLinks
<1> QED
  BY <1>1, <1>2, <1>3, <1>4, <1>5, <1>6 DEF VolumeNext

\* The table holds links, ends and free marks, the directories hold entries, and a
\* write in progress is at one of its steps, on an image of any size.
THEOREM VolumeTypeCorrect == VolumeSpec => []VolumeTypeOK
<1>1. Inv => VolumeTypeOK
  BY DEF Inv
<1> QED
  BY InitInv, NextInv, <1>1, PTL DEF VolumeSpec

\* Whatever is written in whatever order, wherever a write fails for want of clusters
\* or of a slot, and wherever it is cut off, the chains on the image stay apart, none
\* runs into free space, and no two entries share one (fat_table.py, directory.py).
THEOREM LinksNeverCross == VolumeSpec => []NoCrossLinks
<1>1. Inv => NoCrossLinks
  BY DEF Inv
<1> QED
  BY InitInv, NextInv, <1>1, PTL DEF VolumeSpec

------------------------------------------------------------------------------
(* Induction.  The theorems of the library take an operator; these take sets.   *)

\* A set of numbers that is not empty has a least one.
LEMMA LeastNat ==
    ASSUME NEW T \in SUBSET Nat, T # {}
    PROVE  \E m \in T : \A n \in T : m <= n
<1> DEFINE Below == {0..n : n \in T}
<1>1. Below \subseteq FiniteSubsetsOf(Nat) /\ Below # {}
  <2>1. ASSUME NEW n \in T
        PROVE  0..n \in FiniteSubsetsOf(Nat)
    <3>1. IsFiniteSet(0..n)
      BY FS_Interval
    <3> QED
      BY <3>1 DEF FiniteSubsetsOf
  <2> QED
    BY <2>1
<1>2. PICK x \in Below : \A y \in Below : <<y, x>> \notin StrictSubsetOrdering(Nat)
  BY <1>1, FS_StrictSubsetOrderingWellFounded, WFMin, Zenon
<1>3. PICK m \in T : x = 0..m
  OBVIOUS
<1>4. ASSUME NEW n \in T, n < m
      PROVE  FALSE
  <2>1. 0..n \in Below /\ 0..n \subseteq x /\ 0..n # x
    BY <1>3, <1>4
  <2>2. 0..n \in SUBSET Nat /\ x \in SUBSET Nat
    BY <1>3
  <2> QED
    BY <1>2, <2>1, <2>2 DEF StrictSubsetOrdering
<1> QED
  BY <1>4

\* What holds at the first place and goes from each to the next holds at all.
LEMMA Upwards ==
    ASSUME NEW n \in Nat, NEW T, 1 \in T,
           \A i \in 1..n : i < n /\ i \in T => i + 1 \in T
    PROVE  \A i \in 1..n : i \in T
<1> DEFINE Missing == {i \in 1..n : i \notin T}
<1> SUFFICES ASSUME Missing # {} PROVE FALSE
  OBVIOUS
<1>1. PICK m \in Missing : \A i \in Missing : m <= i
  <2>1. Missing \in SUBSET Nat
    OBVIOUS
  <2> HIDE DEF Missing
  <2> QED
    BY <2>1, LeastNat, Zenon
<1>2. m # 1 /\ m \in 1..n
  OBVIOUS
<1>3. m - 1 \in 1..n /\ m - 1 < n
  BY <1>2
<1>4. m - 1 \notin Missing
  BY <1>1, <1>3
<1>5. (m - 1) + 1 \in T
  BY <1>3, <1>4
<1> QED
  BY <1>2, <1>5

\* A function that is computed place by place exists.
LEMMA Iterates ==
    ASSUME NEW S, NEW x \in S, NEW n \in Nat, NEW step \in [1..n -> [S -> S]]
    PROVE  \E f \in [1..n -> S] :
              \A i \in 1..n : f[i] = (IF i = 1 THEN x ELSE step[i - 1][f[i - 1]])
<1> DEFINE Computes(k, f) ==
              \A i \in 1..k : f[i] = IF i = 1 THEN x ELSE step[i - 1][f[i - 1]]
           T == {k \in 1..n : \E f \in [1..n -> S] : Computes(k, f)}
<1>1. 1 \in 1..n => 1 \in T
  <2>1. [i \in 1..n |-> x] \in [1..n -> S]
    OBVIOUS
  <2>2. 1 \in 1..n => Computes(1, [i \in 1..n |-> x])
    OBVIOUS
  <2> QED
    BY <2>1, <2>2
<1>2. ASSUME NEW k \in 1..n, k < n, k \in T
      PROVE  k + 1 \in T
  <2>1. PICK f \in [1..n -> S] : Computes(k, f)
    BY <1>2
  <2>2. PICK y : y = step[k][f[k]]
    OBVIOUS
  <2>3. y \in S
    BY <2>2
  <2>4. PICK g : g = [f EXCEPT ![k + 1] = y]
    OBVIOUS
  <2>5. k + 1 \in 1..n /\ k \in Int
    BY <1>2
  <2>6. g \in [1..n -> S] /\ g[k + 1] = y /\ \A i \in 1..n : i # k + 1 => g[i] = f[i]
    BY <2>3, <2>4, <2>5
  <2>7. ASSUME NEW i \in 1..(k + 1)
        PROVE  g[i] = IF i = 1 THEN x ELSE step[i - 1][g[i - 1]]
    <3>1. CASE i = k + 1
      <4>1. i # 1 /\ i - 1 = k /\ g[k] = f[k]
        BY <2>5, <2>6, <3>1
      <4> QED
        BY <2>2, <2>6, <3>1, <4>1
    <3>2. CASE i # k + 1
      <4>1. i \in 1..k /\ g[i] = f[i]
        BY <2>5, <2>6, <3>2
      <4>2. i # 1 => i - 1 \in 1..n /\ i - 1 # k + 1
        BY <2>5, <3>2
      <4>3. i # 1 => g[i - 1] = f[i - 1]
        BY <2>6, <4>2
      <4>4. f[i] = IF i = 1 THEN x ELSE step[i - 1][f[i - 1]]
        BY <2>1, <4>1
      <4> QED
        BY <4>1, <4>3, <4>4
    <3> QED
      BY <3>1, <3>2
  <2>8. Computes(k + 1, g)
    BY <2>7
  <2> QED
    BY <2>5, <2>6, <2>8
<1>3. CASE n = 0
  <2>1. PICK f : f = [i \in 1..n |-> x]
    OBVIOUS
  <2>2. 1..n = {}
    BY <1>3
  <2>3. f \in [1..n -> S]
    BY <2>1
  <2>4. \A i \in 1..n : f[i] = IF i = 1 THEN x ELSE step[i - 1][f[i - 1]]
    BY <2>2
  <2> QED
    BY <2>3, <2>4
<1>4. CASE n # 0
  <2>1. 1 \in T /\ n \in 1..n
    BY <1>1, <1>4
  <2>2. \A i \in 1..n : i < n /\ i \in T => i + 1 \in T
    BY <1>2
  <2> HIDE DEF T
  <2>3. n \in T
    BY <2>1, <2>2, Upwards
  <2>4. PICK f \in [1..n -> S] : Computes(n, f)
    BY <2>3 DEF T
  <2> QED
    BY <2>4
<1> QED
  BY <1>3, <1>4

------------------------------------------------------------------------------
(* Reading *)

LEMMA SubdirType ==
    ASSUME VolumeTypeOK, NEW d, NEW n
    PROVE  Subdir(d, n) \in Dirs \cup {EOC}
<1>1. CASE d \in Dirs /\ \E i \in Found(d, n) : dir[d][i].kind = "dir"
  <2>1. dir[d] \in Seq(Entry)
    BY <1>1 DEF VolumeTypeOK
  <2>2. \A i \in Found(d, n) : dir[d][i] \in Entry
    BY <2>1 DEF Found
  <2>3. TheEntry(d, n) \in Entry
    BY <1>1, <2>2 DEF TheEntry
  <2> QED
    BY <1>1, <2>3 DEF Subdir, Entry, Dirs
<1>2. CASE ~(d \in Dirs /\ \E i \in Found(d, n) : dir[d][i].kind = "dir")
  BY <1>2 DEF Subdir
<1> QED
  BY <1>1, <1>2

LEMMA StepsDown ==
    ASSUME VolumeTypeOK, NEW q, NEW n \in Nat
    PROVE  \E f \in [1..n -> Dirs \cup {EOC}] :
              f = [i \in 1..n |-> IF i = 1 THEN Root ELSE Subdir(f[i - 1], q[i - 1])]
<1>1. PICK S : S = Dirs \cup {EOC}
  OBVIOUS
<1>2. Root \in S
  BY <1>1 DEF Dirs
<1>3. PICK step : step = [i \in 1..n |-> [d \in S |-> Subdir(d, q[i])]]
  OBVIOUS
<1>4. step \in [1..n -> [S -> S]]
  BY <1>1, <1>3, SubdirType
<1>5. PICK f \in [1..n -> S] :
         \A i \in 1..n : f[i] = IF i = 1 THEN Root ELSE step[i - 1][f[i - 1]]
  BY <1>2, <1>4, Iterates
<1>6. ASSUME NEW i \in 1..n, i # 1
      PROVE  step[i - 1][f[i - 1]] = Subdir(f[i - 1], q[i - 1])
  <2>1. i - 1 \in 1..n
    BY <1>6
  <2>2. f[i - 1] \in S
    BY <2>1, <1>5
  <2> QED
    BY <1>3, <2>1, <2>2
<1>7. f = [i \in 1..n |-> IF i = 1 THEN Root ELSE Subdir(f[i - 1], q[i - 1])]
  BY <1>5, <1>6
<1> QED
  BY <1>1, <1>7

\* The walk to a path is what its loop computes.
LEMMA DescentIs ==
    ASSUME VolumeTypeOK, NEW q, Len(q) \in Nat
    PROVE  /\ Descent(q) \in [1..Len(q) -> Dirs \cup {EOC}]
           /\ \A i \in 1..Len(q) :
                 Descent(q)[i] = IF i = 1 THEN Root ELSE Subdir(Descent(q)[i - 1], q[i - 1])
<1>1. PICK f : f = [i \in 1..Len(q) |-> IF i = 1 THEN Root ELSE Subdir(f[i - 1], q[i - 1])]
  BY StepsDown
<1>2. Descent(q) = [i \in 1..Len(q) |->
                       IF i = 1 THEN Root ELSE Subdir(Descent(q)[i - 1], q[i - 1])]
  BY <1>1 DEF Descent
<1>3. \A i \in 1..Len(q) :
         Descent(q)[i] = IF i = 1 THEN Root ELSE Subdir(Descent(q)[i - 1], q[i - 1])
  BY <1>2, Zenon
<1>4. \A i \in 1..Len(q) : Descent(q)[i] \in Dirs \cup {EOC}
  BY <1>3, SubdirType DEF Dirs
<1> QED
  BY <1>2, <1>3, <1>4

\* The chains are what the loop over the links computes.
LEMMA ChainsAre ==
    ASSUME VolumeTypeOK
    PROVE  \A n \in 1..NumClusters, c \in Clusters :
              ChainsUpTo[n][c] = IF n = 1 \/ fat[c] \notin Clusters THEN <<c>>
                                 ELSE <<c>> \o ChainsUpTo[n - 1][fat[c]]
<1>1. PICK S : S = [Clusters -> Seq(Clusters)]
  OBVIOUS
<1>2. PICK x : x = [c \in Clusters |-> <<c>>]
  OBVIOUS
<1>3. PICK next : next = [g \in S |-> [c \in Clusters |->
                             IF fat[c] \notin Clusters THEN <<c>> ELSE <<c>> \o g[fat[c]]]]
  OBVIOUS
<1>4. PICK step : step = [n \in 1..NumClusters |-> next]
  OBVIOUS
<1>5. x \in S /\ NumClusters \in Nat
  BY <1>1, <1>2, ClusterFacts
<1>6. next \in [S -> S]
  <2>1. ASSUME NEW g \in S, NEW c \in Clusters, fat[c] \in Clusters
        PROVE  <<c>> \o g[fat[c]] \in Seq(Clusters)
    BY <1>1, <2>1
  <2>2. ASSUME NEW g \in S
        PROVE  next[g] \in S
    BY <1>1, <1>3, <2>1
  <2> QED
    BY <1>3, <2>2
<1>7. step \in [1..NumClusters -> [S -> S]]
  BY <1>4, <1>6
<1>8. PICK f \in [1..NumClusters -> S] :
         \A n \in 1..NumClusters : f[n] = IF n = 1 THEN x ELSE step[n - 1][f[n - 1]]
  BY <1>5, <1>7, Iterates
<1>9. ASSUME NEW n \in 1..NumClusters
      PROVE  f[n] = [c \in Clusters |->
                       IF n = 1 \/ fat[c] \notin Clusters THEN <<c>>
                       ELSE <<c>> \o f[n - 1][fat[c]]]
  <2>1. CASE n = 1
    BY <1>2, <1>8, <2>1
  <2>2. CASE n # 1
    <3>1. n - 1 \in 1..NumClusters
      BY <2>2, <1>5
    <3>2. f[n] = next[f[n - 1]] /\ f[n - 1] \in S
      BY <3>1, <2>2, <1>4, <1>8
    <3> QED
      BY <3>2, <2>2, <1>3
  <2> QED
    BY <2>1, <2>2
<1>10. f = [n \in 1..NumClusters |-> [c \in Clusters |->
               IF n = 1 \/ fat[c] \notin Clusters THEN <<c>>
               ELSE <<c>> \o f[n - 1][fat[c]]]]
  BY <1>8, <1>9
<1>11. ChainsUpTo = [n \in 1..NumClusters |-> [c \in Clusters |->
               IF n = 1 \/ fat[c] \notin Clusters THEN <<c>>
               ELSE <<c>> \o ChainsUpTo[n - 1][fat[c]]]]
  BY <1>10 DEF ChainsUpTo
<1>12. ASSUME NEW n \in 1..NumClusters
       PROVE  ChainsUpTo[n] = [c \in Clusters |->
                 IF n = 1 \/ fat[c] \notin Clusters THEN <<c>>
                 ELSE <<c>> \o ChainsUpTo[n - 1][fat[c]]]
  BY <1>11, Zenon
<1>13. ASSUME NEW n \in 1..NumClusters, NEW c \in Clusters
       PROVE  ChainsUpTo[n][c] = IF n = 1 \/ fat[c] \notin Clusters THEN <<c>>
                                 ELSE <<c>> \o ChainsUpTo[n - 1][fat[c]]
  BY <1>12
<1> QED
  BY <1>13

\* No two entries of a directory have one name.
NamesDiffer ==
    \A d \in Dirs : \A i, j \in DOMAIN dir[d] : dir[d][i].name = dir[d][j].name => i = j

HasDir(d, n, c) ==
    \E i \in DOMAIN dir[d] :
        dir[d][i].name = n /\ dir[d][i].kind = "dir" /\ dir[d][i].first = c
HasFile(d, n, c, s) ==
    \E i \in DOMAIN dir[d] :
        /\ dir[d][i].name = n /\ dir[d][i].kind = "file"
        /\ dir[d][i].first = c /\ dir[d][i].size = s

\* From the root to the directory d by the components of q before the k-th.
LeadsTo(q, k, d) ==
    \E t \in [1..k -> Dirs] :
        /\ t[1] = Root /\ t[k] = d
        /\ \A i \in 1..k : i # k => HasDir(t[i], q[i], t[i + 1])

\* A chain of n clusters next to each other.
Run(c, n) ==
    \A b \in c..(c + n - 1) : b \in Clusters /\ fat[b] = IF b = c + n - 1 THEN EOC ELSE b + 1

NeedOf(s) == IF s = 0 THEN 1 ELSE s

LEMMA EntryOf ==
    ASSUME VolumeTypeOK, NEW d \in Dirs, NEW i \in DOMAIN dir[d]
    PROVE  dir[d][i] \in Entry /\ dir[d][i].first \in Clusters /\ dir[d][i].size \in Nat
<1>1. dir[d] \in Seq(Entry)
  BY DEF VolumeTypeOK
<1>2. dir[d][i] \in Entry
  BY <1>1
<1> QED
  BY <1>2 DEF Entry

\* A name finds the one entry that has it.
LEMMA EntryFound ==
    ASSUME NamesDiffer, NEW d \in Dirs, NEW i \in DOMAIN dir[d]
    PROVE  Found(d, dir[d][i].name) = {i} /\ TheEntry(d, dir[d][i].name) = dir[d][i]
<1>1. Found(d, dir[d][i].name) = {i}
  BY DEF NamesDiffer, Found
<1> QED
  BY <1>1 DEF TheEntry

LEMMA SubdirIs ==
    ASSUME VolumeTypeOK, NamesDiffer, NEW d \in Dirs, NEW n
    PROVE  /\ \A c : HasDir(d, n, c) => Subdir(d, n) = c
           /\ Subdir(d, n) # EOC => HasDir(d, n, Subdir(d, n))
<1>1. ASSUME NEW c, HasDir(d, n, c)
      PROVE  Subdir(d, n) = c
  <2>1. PICK i \in DOMAIN dir[d] :
           dir[d][i].name = n /\ dir[d][i].kind = "dir" /\ dir[d][i].first = c
    BY <1>1 DEF HasDir
  <2> QED
    BY <2>1, EntryFound DEF Subdir
<1>2. ASSUME Subdir(d, n) # EOC
      PROVE  HasDir(d, n, Subdir(d, n))
  <2>1. PICK i \in Found(d, n) : dir[d][i].kind = "dir"
    BY <1>2 DEF Subdir
  <2>2. i \in DOMAIN dir[d] /\ dir[d][i].name = n
    BY DEF Found
  <2> QED
    BY <2>1, <2>2, EntryFound DEF Subdir, HasDir
<1> QED
  BY <1>1, <1>2

\* The walk ends in the directory that the path leads to, if there is one.
LEMMA DirOfIs ==
    ASSUME VolumeTypeOK, NamesDiffer, NEW q, Len(q) \in Nat \ {0}
    PROVE  /\ \A d \in Dirs : LeadsTo(q, Len(q), d) => DirOf(q) = d
           /\ DirOf(q) # EOC => DirOf(q) \in Dirs /\ LeadsTo(q, Len(q), DirOf(q))
<1>0. PICK n \in Nat \ {0} : n = Len(q)
  OBVIOUS
<1>1. PICK w : w = Descent(q)
  OBVIOUS
<1>2. /\ w \in [1..n -> Dirs \cup {EOC}]
      /\ \A i \in 1..n : w[i] = IF i = 1 THEN Root ELSE Subdir(w[i - 1], q[i - 1])
  <2>1. Len(q) \in Nat
    OBVIOUS
  <2> QED
    BY <1>0, <1>1, <2>1, DescentIs, Zenon
<1>3. DirOf(q) = w[n]
  BY <1>0, <1>1 DEF DirOf
<1>4. EOC \notin Dirs
  BY ClusterFacts DEF Dirs, Root
<1>5. ASSUME NEW d \in Dirs, LeadsTo(q, n, d)
      PROVE  w[n] = d
  <2>1. PICK t \in [1..n -> Dirs] :
           /\ t[1] = Root /\ t[n] = d
           /\ \A i \in 1..n : i # n => HasDir(t[i], q[i], t[i + 1])
    BY <1>5 DEF LeadsTo
  <2>2. PICK T : T = {i \in 1..n : w[i] = t[i]}
    OBVIOUS
  <2>3. 1 \in T
    BY <1>2, <2>1, <2>2
  <2>4. ASSUME NEW i \in 1..n, i < n, i \in T
        PROVE  i + 1 \in T
    <3>1. i + 1 \in 1..n /\ i + 1 # 1 /\ (i + 1) - 1 = i
      BY <2>4
    <3>2. w[i + 1] = Subdir(w[i], q[i])
      BY <1>2, <3>1
    <3>3. w[i] = t[i] /\ t[i] \in Dirs /\ HasDir(t[i], q[i], t[i + 1])
      BY <2>1, <2>2, <2>4
    <3> QED
      BY <2>2, <3>1, <3>2, <3>3, SubdirIs
  <2>5. n \in T
    BY <2>3, <2>4, Upwards
  <2> QED
    BY <2>1, <2>2, <2>5
<1>6. ASSUME w[n] # EOC
      PROVE  w[n] \in Dirs /\ LeadsTo(q, n, w[n])
  <2>1. w[n] \in Dirs
    BY <1>2, <1>6
\* From the end upwards: what is not a directory has no subdirectory.
  <2>2. PICK T : T = {i \in 1..n : w[n + 1 - i] \in Dirs}
    OBVIOUS
  <2>3. 1 \in T
    BY <2>1, <2>2
  <2>4. ASSUME NEW i \in 1..n, i < n, i \in T
        PROVE  i + 1 \in T
    <3>1. n + 1 - i \in 1..n /\ n + 1 - i # 1 /\ (n + 1 - i) - 1 = n - i
          /\ n - i \in 1..n /\ n + 1 - (i + 1) = n - i /\ i + 1 \in 1..n
      BY <2>4
    <3>2. w[n + 1 - i] = Subdir(w[n - i], q[n - i])
      BY <1>2, <3>1
    <3>3. w[n + 1 - i] \in Dirs
      BY <2>2, <2>4
    <3>4. w[n - i] \in Dirs
      BY <1>4, <3>2, <3>3 DEF Subdir
    <3> QED
      BY <2>2, <3>1, <3>4
  <2>5. \A i \in 1..n : i \in T
    BY <2>3, <2>4, Upwards
  <2>6. \A i \in 1..n : w[i] \in Dirs
    <3>1. ASSUME NEW i \in 1..n
          PROVE  w[i] \in Dirs
      <4>1. n + 1 - i \in 1..n /\ n + 1 - (n + 1 - i) = i
        OBVIOUS
      <4> QED
        BY <2>2, <2>5, <4>1
    <3> QED
      BY <3>1
  <2>7. ASSUME NEW i \in 1..n, i # n
        PROVE  HasDir(w[i], q[i], w[i + 1])
    <3>1. i + 1 \in 1..n /\ i + 1 # 1 /\ (i + 1) - 1 = i
      BY <2>7
    <3>2. w[i + 1] = Subdir(w[i], q[i])
      BY <1>2, <3>1
    <3>3. w[i] \in Dirs /\ w[i + 1] # EOC
      BY <1>4, <2>6, <3>1
    <3> QED
      BY <3>2, <3>3, SubdirIs
  <2>8. w \in [1..n -> Dirs] /\ w[1] = Root
    BY <1>2, <2>6
  <2> QED
    BY <2>1, <2>7, <2>8 DEF LeadsTo
<1> QED
  BY <1>0, <1>3, <1>5, <1>6

LEMMA OnePlus ==
    ASSUME NEW c \in Nat, NEW k \in Nat, NEW s, s = [i \in 1..k |-> c + 1 + i - 1]
    PROVE  <<c>> \o s = [i \in 1..(k + 1) |-> c + i - 1]
<1>1. s \in Seq(Nat) /\ Len(s) = k
  OBVIOUS
<1>2. Len(<<c>> \o s) = k + 1 /\ <<c>> \o s \in Seq(Nat)
  BY <1>1
<1>3. ASSUME NEW i \in 1..(k + 1)
      PROVE  (<<c>> \o s)[i] = c + i - 1
  BY <1>1
<1> QED
  BY <1>2, <1>3

\* The chain of a run is the run.
LEMMA ChainIs ==
    ASSUME VolumeTypeOK, NEW c \in Clusters, NEW n \in Nat \ {0}, Run(c, n)
    PROVE  Chain(c) = [i \in 1..n |-> c + i - 1]
<1> DEFINE last == c + n - 1
<1>1. /\ c \in Nat /\ last \in Nat /\ last \in Clusters /\ n <= NumClusters
      /\ \A b \in c..last : b \in Clusters /\ fat[b] = IF b = last THEN EOC ELSE b + 1
  <2>1. \A b \in c..last : b \in Clusters /\ fat[b] = IF b = last THEN EOC ELSE b + 1
    BY DEF Run
  <2>2. c \in Nat /\ c >= 2
    BY ClusterFacts
  <2>3. last \in c..last
    BY <2>2
  <2>4. last \in Clusters
    BY <2>1, <2>3
  <2> QED
    BY <2>1, <2>2, <2>4, ClusterFacts
<1> HIDE DEF last
<1>2. PICK ch : ch = ChainsUpTo
  OBVIOUS
<1>3. \A m \in 1..NumClusters, b \in Clusters :
         ch[m][b] = IF m = 1 \/ fat[b] \notin Clusters THEN <<b>>
                    ELSE <<b>> \o ch[m - 1][fat[b]]
  BY <1>2, ChainsAre, Zenon
\* Whatever the number of steps, if there are enough.
<1> DEFINE Reads(k) == \A m \in k..NumClusters :
              ch[m][last + 1 - k] = [i \in 1..k |-> (last + 1 - k) + i - 1]
<1>4. PICK T : T = {k \in 1..n : Reads(k)}
  OBVIOUS
<1>5. last = c + n - 1
  BY DEF last
<1>6. 1 \in T
  <2>1. last + 1 - 1 = last /\ fat[last] = EOC /\ EOC \notin Clusters
    BY <1>1, <1>5, ClusterFacts
  <2>2. ASSUME NEW m \in 1..NumClusters
        PROVE  ch[m][last] = <<last>>
    BY <1>1, <1>3, <2>1
  <2>3. <<last>> = [i \in 1..1 |-> last + i - 1]
    BY <1>1
  <2>4. Reads(1)
    BY <2>1, <2>2, <2>3
  <2> QED
    BY <1>4, <2>4
<1>7. ASSUME NEW k \in 1..n, k < n, k \in T
      PROVE  k + 1 \in T
  <2>1. PICK b \in Nat : b = last + 1 - (k + 1)
    BY <1>1, <1>5, <1>7
  <2>2. b \in c..last /\ b # last /\ b + 1 \in c..last /\ b + 1 = last + 1 - k
    BY <1>1, <1>5, <1>7, <2>1
  <2>3. b \in Clusters /\ b + 1 \in Clusters /\ fat[b] = b + 1
    BY <1>1, <2>2
  <2>4. ASSUME NEW m \in (k + 1)..NumClusters
        PROVE  ch[m][b] = [i \in 1..(k + 1) |-> b + i - 1]
    <3>1. m \in 1..NumClusters /\ m # 1 /\ m - 1 \in k..NumClusters /\ NumClusters \in Nat
      BY <1>7, <2>4, ClusterFacts
    <3>2. ch[m][b] = <<b>> \o ch[m - 1][b + 1]
      <4>1. ~(m = 1 \/ fat[b] \notin Clusters) /\ fat[b] = b + 1
        BY <2>3, <3>1
      <4>2. ch[m][b] = <<b>> \o ch[m - 1][fat[b]]
        BY <1>3, <2>3, <3>1, <4>1, Zenon
      <4> QED
        BY <4>1, <4>2
    <3>3. ch[m - 1][b + 1] = [i \in 1..k |-> b + 1 + i - 1]
      BY <1>4, <1>7, <2>2, <3>1
    <3> QED
      BY <3>2, <3>3, OnePlus
  <2>5. Reads(k + 1)
    BY <2>1, <2>4
  <2> QED
    BY <1>4, <1>7, <2>5
<1> HIDE DEF Reads
<1>8. n \in T
  BY <1>6, <1>7, Upwards
<1>9. Reads(n)
  BY <1>4, <1>8
<1>10. last + 1 - n = c /\ NumClusters \in n..NumClusters
  BY <1>1, <1>5, ClusterFacts
<1>11. ch[NumClusters][c] = [i \in 1..n |-> c + i - 1]
  BY <1>9, <1>10 DEF Reads
<1> QED
  BY <1>2, <1>11 DEF Chain

\* A file reads as what is in its clusters.
LEMMA ReadIs ==
    ASSUME VolumeTypeOK, NamesDiffer, NEW q, Len(q) \in Nat \ {0},
           NEW d \in Dirs, LeadsTo(q, Len(q), d),
           NEW c \in Clusters, NEW s \in Nat, HasFile(d, q[Len(q)], c, s), Run(c, NeedOf(s))
    PROVE  ReadFile(q) = [i \in 1..s |-> chunk[c + i - 1]]
<1>1. DirOf(q) = d /\ d # EOC
  BY DirOfIs, ClusterFacts DEF Dirs, Root
<1>2. PICK j \in DOMAIN dir[d] :
         /\ dir[d][j].name = q[Len(q)] /\ dir[d][j].kind = "file"
         /\ dir[d][j].first = c /\ dir[d][j].size = s
  BY DEF HasFile
<1>3. Found(d, q[Len(q)]) = {j} /\ TheEntry(d, q[Len(q)]) = dir[d][j]
  BY <1>2, EntryFound
<1>4. PICK n \in Nat \ {0} : n = NeedOf(s)
  BY DEF NeedOf
<1>5. PICK ch : ch = Chain(c)
  OBVIOUS
<1>6. ch = [i \in 1..n |-> c + i - 1]
  BY <1>4, <1>5, ChainIs
<1>7. c \in Nat /\ Len(ch) = n /\ ch[n] = c + n - 1 /\ s <= n
  BY <1>4, <1>6, ClusterFacts DEF NeedOf
<1>8. fat[c + n - 1] = EOC
  <2>1. Run(c, n) /\ c + n - 1 \in c..(c + n - 1)
    BY <1>4, <1>7
  <2> QED
    BY <2>1 DEF Run
<1>9. ~(Len(ch) < s) /\ fat[ch[Len(ch)]] = EOC
  BY <1>7, <1>8
<1>10. [i \in 1..s |-> chunk[ch[i]]] = [i \in 1..s |-> chunk[c + i - 1]]
  BY <1>6, <1>7
<1>11. DirOf(q) # EOC /\ Found(DirOf(q), q[Len(q)]) # {}
  BY <1>1, <1>3
<1>12. ReadFile(q) = LET e == dir[d][j]
                         z == Chain(e.first)
                     IN IF e.kind = "dir" \/ fat[z[Len(z)]] # EOC \/ Len(z) < e.size THEN Absent
                        ELSE [i \in 1..e.size |-> chunk[z[i]]]
  BY <1>1, <1>3, <1>11 DEF ReadFile
<1>13. ReadFile(q) = IF fat[ch[Len(ch)]] # EOC \/ Len(ch) < s THEN Absent
                     ELSE [i \in 1..s |-> chunk[ch[i]]]
  BY <1>2, <1>5, <1>12
<1> QED
  BY <1>9, <1>10, <1>13

\* What can be read has a directory that the path leads to and an entry there.
LEMMA ReadHas ==
    ASSUME VolumeTypeOK, NamesDiffer, NEW q, Len(q) \in Nat \ {0}, ReadFile(q) # Absent
    PROVE  \E d \in Dirs, c \in Clusters, s \in Nat :
              LeadsTo(q, Len(q), d) /\ HasFile(d, q[Len(q)], c, s)
<1>1. PICK d : d = DirOf(q)
  OBVIOUS
<1>2. PICK n : n = q[Len(q)]
  OBVIOUS
<1>3. d # EOC /\ Found(d, n) # {} /\ TheEntry(d, n).kind # "dir"
  BY <1>1, <1>2 DEF ReadFile
<1>4. d \in Dirs /\ LeadsTo(q, Len(q), d)
  BY <1>1, <1>3, DirOfIs
<1>5. PICK i \in DOMAIN dir[d] : dir[d][i].name = n
  BY <1>3 DEF Found
<1>6. dir[d][i].kind # "dir" /\ dir[d][i] \in Entry
  BY <1>3, <1>4, <1>5, EntryFound, EntryOf
<1>7. HasFile(d, n, dir[d][i].first, dir[d][i].size)
  BY <1>5, <1>6 DEF HasFile, Entry
<1> QED
  BY <1>2, <1>4, <1>7, EntryOf

------------------------------------------------------------------------------
(* What has been written stays *)

\* The chain of a file is as long as its entry says.
FilesWhole ==
    \A d \in Dirs : \A i \in DOMAIN dir[d] :
        dir[d][i].kind = "file" => Run(dir[d][i].first, NeedOf(dir[d][i].size))

\* A write is in the directory its path leads to; from the check of the name on nothing
\* there has it, and what it has taken is one run, which soon holds the data.
WriteInv ==
    /\ op.stage \in {"walk", "mkdir", "alloc", "data", "entry"} =>
         LeadsTo(ShortPath(op.file), op.at + 1, op.in)
    /\ op.stage \in {"alloc", "data", "entry"} => op.at + 1 = Len(op.file)
    /\ op.stage \in {"mkdir", "alloc", "data", "entry"} => Found(op.in, NextName) = {}
    /\ op.stage \in {"data", "entry"} =>
         /\ Run(op.got[1], Need(op.file))
         /\ op.got = [i \in 1..Need(op.file) |-> op.got[1] + i - 1]
    /\ op.stage = "entry" =>
         \A i \in 1..Size[op.file] : chunk[op.got[1] + i - 1] = <<op.file, i>>

VolumeInv == Inv /\ NamesDiffer /\ FilesWhole /\ WriteInv

\* The file is on the volume with all of its data.
Stored(p) ==
    \E d \in Dirs, c \in Clusters :
        /\ LeadsTo(ShortPath(p), Len(p), d)
        /\ HasFile(d, Short[p[Len(p)]], c, Size[p])
        /\ \A i \in 1..Size[p] : chunk[c + i - 1] = <<p, i>>

WrittenStored == op.stage = "written" => op.file \in Paths /\ Stored(op.file)

\* A directory that can be come to.
Known(d) == d = Root \/ \E x \in Dirs : \E i \in DOMAIN dir[x] : dir[x][i].first = d

\* A step loses no link, no entry and no data of a file.
Keeps ==
    /\ \A c \in Clusters : fat[c] # Free => fat'[c] = fat[c]
    /\ \A d \in Dirs : Known(d) =>
          \A i \in DOMAIN dir[d] : i \in DOMAIN dir'[d] /\ dir'[d][i] = dir[d][i]
    /\ \A d \in Dirs : \A i \in DOMAIN dir[d] : dir[d][i].kind = "file" =>
          \A b \in Clusters :
              b \in dir[d][i].first..(dir[d][i].first + NeedOf(dir[d][i].size) - 1)
                => chunk'[b] = chunk[b]

LEMMA ShortIs ==
    ASSUME NEW p \in Paths
    PROVE  /\ Len(p) \in Nat \ {0} /\ DOMAIN p = 1..Len(p)
           /\ ShortPath(p) \in Seq(Shorts) /\ Len(ShortPath(p)) = Len(p)
           /\ \A i \in 1..Len(p) : ShortPath(p)[i] = Short[p[i]]
           /\ Size[p] \in Nat /\ Need(p) = NeedOf(Size[p]) /\ Need(p) \in Nat \ {0}
           /\ Size[p] <= Need(p)
<1>1. p \in Seq(Names) /\ p # << >> /\ Size[p] \in Nat
  BY Fat16Assumption
<1>2. \A i \in 1..Len(p) : Short[p[i]] \in Shorts
  BY <1>1, Fat16Assumption
<1> QED
  BY <1>1, <1>2 DEF ShortPath, Need, NeedOf

LEMMA RunStays ==
    ASSUME Keeps, NEW c \in Nat, NEW n \in Nat, Run(c, n)
    PROVE  Run(c, n)'
<1>1. \A b \in c..(c + n - 1) : b \in Clusters /\ fat[b] # Free /\ fat'[b] = fat[b]
  BY ClusterFacts DEF Run, Keeps
<1> QED
  BY <1>1 DEF Run

\* Runs whose beginnings nothing leads to do not meet.
LEMMA RunsApart ==
    ASSUME NEW c \in Nat, NEW n \in Nat, Run(c, n), \A b \in Clusters : fat[b] # c,
           NEW d \in Nat, NEW m \in Nat, Run(d, m), \A b \in Clusters : fat[b] # d,
           c # d, NEW b \in Nat, b \in c..(c + n - 1), b \in d..(d + m - 1)
    PROVE  FALSE
<1>1. CASE c < d
  <2>1. d - 1 \in c..(c + n - 1) /\ d - 1 # c + n - 1 /\ (d - 1) + 1 = d
    BY <1>1
  <2>2. d - 1 \in Clusters /\ fat[d - 1] = d
    BY <2>1 DEF Run
  <2> QED
    BY <2>2
<1>2. CASE d < c
  <2>1. c - 1 \in d..(d + m - 1) /\ c - 1 # d + m - 1 /\ (c - 1) + 1 = c
    BY <1>2
  <2>2. c - 1 \in Clusters /\ fat[c - 1] = c
    BY <2>1 DEF Run
  <2> QED
    BY <2>2
<1> QED
  BY <1>1, <1>2

LEMMA LeadsStays ==
    ASSUME Keeps, NEW q, NEW k \in Nat \ {0}, NEW d, LeadsTo(q, k, d)
    PROVE  LeadsTo(q, k, d)' /\ Known(d) /\ d \in Dirs
<1>1. PICK t \in [1..k -> Dirs] :
         /\ t[1] = Root /\ t[k] = d
         /\ \A i \in 1..k : i # k => HasDir(t[i], q[i], t[i + 1])
  BY DEF LeadsTo
<1>2. ASSUME NEW i \in 1..k
      PROVE  Known(t[i])
  <2>1. CASE i = 1
    BY <1>1, <2>1 DEF Known
  <2>2. CASE i # 1
    <3>1. i - 1 \in 1..k /\ i - 1 # k /\ (i - 1) + 1 = i
      BY <2>2
    <3>2. HasDir(t[i - 1], q[i - 1], t[i])
      BY <1>1, <3>1
    <3> QED
      BY <3>1, <3>2 DEF HasDir, Known
  <2> QED
    BY <2>1, <2>2
<1>3. ASSUME NEW i \in 1..k, i # k
      PROVE  HasDir(t[i], q[i], t[i + 1])'
  <2>1. PICK j \in DOMAIN dir[t[i]] :
           /\ dir[t[i]][j].name = q[i] /\ dir[t[i]][j].kind = "dir"
           /\ dir[t[i]][j].first = t[i + 1]
    BY <1>1, <1>3 DEF HasDir
  <2>2. j \in DOMAIN dir'[t[i]] /\ dir'[t[i]][j] = dir[t[i]][j]
    BY <1>2 DEF Keeps
  <2> QED
    BY <2>1, <2>2 DEF HasDir
<1>4. LeadsTo(q, k, d)'
  BY <1>1, <1>3 DEF LeadsTo
<1>5. k \in 1..k
  OBVIOUS
<1> QED
  BY <1>1, <1>2, <1>4, <1>5

LEMMA FileStays ==
    ASSUME Keeps, NEW d \in Dirs, Known(d), NEW n, NEW c, NEW s, HasFile(d, n, c, s)
    PROVE  HasFile(d, n, c, s)'
  BY DEF Keeps, HasFile

LEMMA StoredStays ==
    ASSUME Inv, FilesWhole, Keeps, NEW p \in Paths, Stored(p)
    PROVE  Stored(p)'
<1>1. PICK d \in Dirs, c \in Clusters :
         /\ LeadsTo(ShortPath(p), Len(p), d)
         /\ HasFile(d, Short[p[Len(p)]], c, Size[p])
         /\ \A i \in 1..Size[p] : chunk[c + i - 1] = <<p, i>>
  BY DEF Stored
<1>2. PICK q : q = ShortPath(p)
  OBVIOUS
<1>3. PICK n : n = Short[p[Len(p)]]
  OBVIOUS
<1>4. LeadsTo(q, Len(p), d)' /\ Known(d)
  BY <1>1, <1>2, ShortIs, LeadsStays
<1>5. HasFile(d, n, c, Size[p])'
  BY <1>1, <1>3, <1>4, FileStays
<1>6. PICK j \in DOMAIN dir[d] :
         dir[d][j].kind = "file" /\ dir[d][j].first = c /\ dir[d][j].size = Size[p]
  BY <1>1 DEF HasFile
<1>7. Run(c, Need(p))
  BY <1>6, ShortIs DEF FilesWhole
<1>8. ASSUME NEW i \in 1..Size[p]
      PROVE  chunk'[c + i - 1] = <<p, i>>
  <2>1. c + i - 1 \in c..(c + Need(p) - 1)
    BY ShortIs, ClusterFacts
  <2>2. c + i - 1 \in Clusters
    BY <1>7, <2>1 DEF Run
  <2>3. chunk'[c + i - 1] = chunk[c + i - 1]
    BY <1>6, <2>1, <2>2, ShortIs DEF Keeps
  <2> QED
    BY <1>1, <2>3
<1> QED
  BY <1>2, <1>3, <1>4, <1>5, <1>8 DEF Stored

\* A file that is stored reads back as its own data.
LEMMA StoredReads ==
    ASSUME VolumeInv, NEW p \in Paths, Stored(p)
    PROVE  ReadFile(ShortPath(p)) = Content(p)
<1>1. PICK d \in Dirs, c \in Clusters :
         /\ LeadsTo(ShortPath(p), Len(p), d)
         /\ HasFile(d, Short[p[Len(p)]], c, Size[p])
         /\ \A i \in 1..Size[p] : chunk[c + i - 1] = <<p, i>>
  BY DEF Stored
<1>2. PICK q : q = ShortPath(p)
  OBVIOUS
<1>3. Len(q) = Len(p) /\ Len(q) \in Nat \ {0} /\ q[Len(q)] = Short[p[Len(p)]]
  BY <1>2, ShortIs
<1>4. PICK j \in DOMAIN dir[d] :
         dir[d][j].kind = "file" /\ dir[d][j].first = c /\ dir[d][j].size = Size[p]
  BY <1>1 DEF HasFile
<1>5. Run(c, NeedOf(Size[p])) /\ Size[p] \in Nat
  BY <1>4, ShortIs DEF VolumeInv, FilesWhole
<1>6. VolumeTypeOK /\ NamesDiffer
  BY DEF VolumeInv, Inv
<1>7. ReadFile(q) = [i \in 1..Size[p] |-> chunk[c + i - 1]]
  BY <1>1, <1>2, <1>3, <1>5, <1>6, ReadIs
<1> QED
  BY <1>1, <1>2, <1>7 DEF Content

\* One directory further on.
LEMMA LeadsOn ==
    ASSUME NEW q, NEW k \in Nat \ {0}, NEW d, NEW c \in Dirs,
           LeadsTo(q, k, d)', HasDir(d, q[k], c)'
    PROVE  LeadsTo(q, k + 1, c)'
<1>1. PICK t \in [1..k -> Dirs] :
         /\ t[1] = Root /\ t[k] = d
         /\ \A i \in 1..k : i # k => HasDir(t[i], q[i], t[i + 1])'
  BY DEF LeadsTo
<1>2. PICK u : u = [i \in 1..(k + 1) |-> IF i = k + 1 THEN c ELSE t[i]]
  OBVIOUS
<1>3. u \in [1..(k + 1) -> Dirs] /\ u[1] = Root /\ u[k + 1] = c
  BY <1>1, <1>2
<1>4. ASSUME NEW i \in 1..(k + 1), i # k + 1
      PROVE  HasDir(u[i], q[i], u[i + 1])'
  <2>1. CASE i = k
    <3>1. u[i] = d /\ u[i + 1] = c
      BY <1>1, <1>2, <2>1
    <3> QED
      BY <2>1, <3>1
  <2>2. CASE i # k
    <3>1. i \in 1..k /\ u[i] = t[i] /\ u[i + 1] = t[i + 1]
      BY <1>2, <1>4, <2>2
    <3> QED
      BY <1>1, <2>2, <3>1
  <2> QED
    BY <2>1, <2>2
<1> QED
  BY <1>3, <1>4 DEF LeadsTo

LEMMA SameKeeps ==
    ASSUME UNCHANGED <<fat, dir, chunk>>
    PROVE  Keeps /\ (NamesDiffer /\ FilesWhole => NamesDiffer' /\ FilesWhole')
  BY DEF Keeps, NamesDiffer, FilesWhole, Run

\* An allocation takes what was free, one cluster after the other.
LEMMA AllocatesRun ==
    ASSUME Inv, NEW n \in Nat \ {0}, n <= Cardinality(FreeClusters), fat' = Linked(Lowest(n))
    PROVE  /\ \A c \in Clusters : fat[c] # Free => fat'[c] = fat[c]
           /\ Lowest(n) = [i \in 1..n |-> Lowest(n)[1] + i - 1]
           /\ \A h \in Clusters : h = Lowest(n)[1] => Run(h, n)'
<1>1. PICK k \in FirstCluster..EOC : Taken(k)
  BY DEF Inv, Segment
<1>2. /\ k \in Nat /\ 2 <= k /\ k + n <= NumClusters + 2
      /\ Lowest(n) = [i \in 1..n |-> k + i - 1]
  BY <1>1, LowestIs, ClusterFacts
<1>3. \A c \in Clusters : fat'[c] = IF c < k \/ c >= k + n THEN fat[c]
                                    ELSE IF c = k + n - 1 THEN EOC ELSE c + 1
  BY <1>1, LinkedIs DEF Inv
<1>4. \A c \in Clusters : fat[c] # Free => c < k
  <2>1. \A c \in Clusters : c \in Int
    BY ClusterFacts
  <2> QED
    BY <1>1, <1>2, <2>1 DEF Taken
<1>5. Lowest(n)[1] = k
  BY <1>2
<1>6. ASSUME NEW b \in k..(k + n - 1)
      PROVE  b \in Clusters /\ fat'[b] = IF b = k + n - 1 THEN EOC ELSE b + 1
  BY <1>2, <1>3, ClusterFacts
<1>7. Run(k, n)'
  BY <1>6 DEF Run
<1> QED
  BY <1>2, <1>3, <1>4, <1>5, <1>7

\* An entry of a new name leaves names different and files whole.
LEMMA EntersWell ==
    ASSUME Inv, NamesDiffer, FilesWhole, Keeps,
           NEW base \in [Dirs -> Seq(Entry)], \A x \in Dirs : base[x] \in {dir[x], << >>},
           NEW d \in Dirs, NEW e \in Entry,
           \/ dir' = base
           \/ /\ dir' = [base EXCEPT ![d] = Append(@, e)]
              /\ Found(d, e.name) = {}
              /\ e.kind = "file" => Run(e.first, NeedOf(e.size))'
    PROVE  NamesDiffer' /\ FilesWhole'
<1>1. \A x \in Dirs : \A i \in DOMAIN base[x] : i \in DOMAIN dir[x] /\ base[x][i] = dir[x][i]
  OBVIOUS
<1>2. \A x \in Dirs : \A i \in DOMAIN dir'[x] :
         \/ i \in DOMAIN dir[x] /\ dir'[x][i] = dir[x][i]
         \/ /\ x = d /\ i = Len(base[d]) + 1 /\ dir'[x][i] = e
            /\ Found(d, e.name) = {}
            /\ e.kind = "file" => Run(e.first, NeedOf(e.size))'
  <2>1. CASE dir' = base
    BY <1>1, <2>1
  <2>2. CASE /\ dir' = [base EXCEPT ![d] = Append(@, e)]
             /\ Found(d, e.name) = {}
             /\ e.kind = "file" => Run(e.first, NeedOf(e.size))'
    <3>1. \A x \in Dirs : \A i \in DOMAIN dir'[x] :
             \/ i \in DOMAIN base[x] /\ dir'[x][i] = base[x][i]
             \/ x = d /\ i = Len(base[d]) + 1 /\ dir'[x][i] = e
      BY <2>2, EntriesAre
    <3> QED
      BY <1>1, <2>2, <3>1
  <2> QED
    BY <2>1, <2>2
<1>3. NamesDiffer'
  <2>1. ASSUME NEW x \in Dirs, NEW i \in DOMAIN dir'[x], NEW j \in DOMAIN dir'[x],
               dir'[x][i].name = dir'[x][j].name
        PROVE  i = j
    <3>1. CASE i \in DOMAIN dir[x] /\ dir'[x][i] = dir[x][i]
               /\ j \in DOMAIN dir[x] /\ dir'[x][j] = dir[x][j]
      BY <2>1, <3>1 DEF NamesDiffer
    <3>2. CASE dir'[x][i] = e /\ x = d /\ i = Len(base[d]) + 1 /\ Found(d, e.name) = {}
      BY <1>2, <2>1, <3>2 DEF Found
    <3>3. CASE dir'[x][j] = e /\ x = d /\ j = Len(base[d]) + 1 /\ Found(d, e.name) = {}
      BY <1>2, <2>1, <3>3 DEF Found
    <3> QED
      BY <1>2, <3>1, <3>2, <3>3
  <2> QED
    BY <2>1 DEF NamesDiffer
<1>4. FilesWhole'
  <2>1. ASSUME NEW x \in Dirs, NEW i \in DOMAIN dir'[x], dir'[x][i].kind = "file"
        PROVE  Run(dir[x][i].first, NeedOf(dir[x][i].size))'
    <3>1. CASE i \in DOMAIN dir[x] /\ dir'[x][i] = dir[x][i]
      <4>1. PICK c \in Nat : c = dir[x][i].first
        BY <3>1, EntryOf, ClusterFacts DEF Inv
      <4>2. PICK n \in Nat : n = NeedOf(dir[x][i].size)
        BY <3>1, EntryOf DEF Inv, NeedOf
      <4>3. Run(c, n)
        BY <2>1, <3>1, <4>1, <4>2 DEF FilesWhole
      <4>4. Run(c, n)'
        BY <4>3, RunStays
      <4> QED
        BY <3>1, <4>1, <4>2, <4>4
    <3>2. CASE dir'[x][i] = e /\ (e.kind = "file" => Run(e.first, NeedOf(e.size))')
      BY <2>1, <3>2
    <3> QED
      BY <1>2, <3>1, <3>2
  <2> QED
    BY <2>1 DEF FilesWhole
<1> QED
  BY <1>3, <1>4

LEMMA SameDirs ==
    ASSUME Inv, NamesDiffer, FilesWhole, Keeps, UNCHANGED dir
    PROVE  NamesDiffer' /\ FilesWhole'
<1>1. NamesDiffer'
  BY DEF NamesDiffer
<1>2. FilesWhole'
  <2>1. ASSUME NEW x \in Dirs, NEW i \in DOMAIN dir[x], dir[x][i].kind = "file"
        PROVE  Run(dir[x][i].first, NeedOf(dir[x][i].size))'
    <3>1. PICK c \in Nat : c = dir[x][i].first
      BY EntryOf, ClusterFacts DEF Inv
    <3>2. PICK n \in Nat : n = NeedOf(dir[x][i].size)
      BY EntryOf DEF Inv, NeedOf
    <3>3. Run(c, n)'
      BY <2>1, <3>1, <3>2, RunStays DEF FilesWhole
    <3> QED
      BY <3>1, <3>2, <3>3
  <2> QED
    BY <2>1 DEF FilesWhole
<1> QED
  BY <1>1, <1>2

\* The way of a write that stays where it is.
LEMMA WayStays ==
    ASSUME Keeps, op.at + 1 \in Nat \ {0}, LeadsTo(ShortPath(op.file), op.at + 1, op.in),
           op'.file = op.file, op'.at = op.at, op'.in = op.in
    PROVE  LeadsTo(ShortPath(op.file), op.at + 1, op.in)'
<1>1. PICK q : q = ShortPath(op.file)
  OBVIOUS
<1>2. PICK k \in Nat \ {0} : k = op.at + 1
  OBVIOUS
<1>3. PICK d : d = op.in
  OBVIOUS
<1>4. LeadsTo(q, k, d)'
  BY <1>1, <1>2, <1>3, LeadsStays
<1> QED
  BY <1>1, <1>2, <1>3, <1>4

\* What a write knows of its path.
LEMMA AtWrite ==
    ASSUME VolumeInv, op.stage \in {"walk", "mkdir", "alloc", "data", "entry"}
    PROVE  /\ op.file \in Paths /\ op.at + 1 \in Nat \ {0} /\ op.at + 1 \in 1..Len(op.file)
           /\ LeadsTo(ShortPath(op.file), op.at + 1, op.in)
           /\ ShortPath(op.file)[op.at + 1] = NextName
<1>1. op.file \in Paths /\ op.at \in Nat /\ op.at + 1 \in DOMAIN op.file
  BY InvTypes DEF VolumeInv
<1>2. op.at + 1 \in 1..Len(op.file) /\ op.at + 1 \in Nat \ {0}
  BY <1>1, ShortIs
<1> QED
  BY <1>1, <1>2, ShortIs DEF VolumeInv, WriteInv, NextName

LEMMA WalkVolume == VolumeInv /\ Walk => VolumeInv' /\ Keeps
<1> SUFFICES ASSUME VolumeInv, Walk PROVE VolumeInv' /\ Keeps
  OBVIOUS
<1>1. Inv' /\ Keeps /\ NamesDiffer' /\ FilesWhole'
  BY WalkInv, SameKeeps DEF Walk, VolumeInv
<1>2. op.stage = "walk" /\ Found(op.in, NextName) # {} /\ UNCHANGED <<fat, dir, chunk>>
  BY DEF Walk
<1>3. CASE Goto("failed")
  <2>1. op'.stage = "failed"
    BY <1>3, GotoType DEF Stages, VolumeInv
  <2> QED
    BY <1>1, <2>1 DEF VolumeInv, WriteInv
<1>4. CASE ~Goto("failed")
  <2>1. PICK e : e = TheEntry(op.in, NextName)
    OBVIOUS
  <2>2. e.kind = "dir" /\ op' = [op EXCEPT !.at = @ + 1, !.in = e.first]
    BY <1>4, <2>1 DEF Walk
  <2>3. op'.stage = "walk" /\ op'.file = op.file /\ op'.at = op.at + 1 /\ op'.in = e.first
    BY <1>2, <2>2, InvTypes DEF OpType, VolumeInv
  <2>4. PICK i \in DOMAIN dir[op.in] : dir[op.in][i] = e /\ e.name = NextName
    BY <1>2, <2>1 DEF Found, TheEntry
  <2>5. e.first \in Dirs
    BY <2>4, EntryOf, InvTypes DEF VolumeInv, Inv, Dirs
  <2>6. PICK q : q = ShortPath(op.file)
    OBVIOUS
  <2>7. PICK d : d = op.in
    OBVIOUS
  <2>8. PICK k \in Nat \ {0} : k = op.at + 1
    BY <1>2, AtWrite
  <2>9. PICK c \in Dirs : c = e.first
    BY <2>5
  <2>10. LeadsTo(q, k, d) /\ q[k] = NextName
    BY <1>2, <2>6, <2>7, <2>8, AtWrite
  <2>11. LeadsTo(q, k, d)'
    BY <1>1, <2>10, LeadsStays
  <2>12. HasDir(d, q[k], c)'
    BY <1>2, <2>2, <2>4, <2>7, <2>9, <2>10 DEF HasDir
  <2>13. LeadsTo(q, k + 1, c)'
    BY <2>11, <2>12, LeadsOn
  <2>14. LeadsTo(ShortPath(op.file), op.at + 1, op.in)'
    BY <2>3, <2>6, <2>8, <2>9, <2>13
  <2> QED
    BY <1>1, <2>3, <2>14 DEF VolumeInv, WriteInv
<1> QED
  BY <1>3, <1>4

LEMMA AllocDirVolume == VolumeInv /\ AllocDir => VolumeInv' /\ Keeps
<1> SUFFICES ASSUME VolumeInv, AllocDir PROVE VolumeInv' /\ Keeps
  OBVIOUS
<1>1. /\ op.stage = "walk" /\ Found(op.in, NextName) = {} /\ UNCHANGED <<dir, chunk>>
      /\ Inv /\ Inv'
  BY AllocDirInv DEF AllocDir, VolumeInv
<1>2. CASE FreeClusters = {}
  <2>1. Goto("failed") /\ UNCHANGED fat
    BY <1>2 DEF AllocDir
  <2>2. op'.stage = "failed"
    BY <2>1, GotoType DEF Stages, VolumeInv
  <2>3. Keeps /\ NamesDiffer' /\ FilesWhole'
    BY <1>1, <2>1, SameKeeps DEF VolumeInv
  <2> QED
    BY <1>1, <2>2, <2>3 DEF VolumeInv, WriteInv
<1>3. CASE FreeClusters # {}
  <2>1. fat' = Linked(Lowest(1)) /\ op' = [op EXCEPT !.stage = "mkdir", !.got = Lowest(1)]
    BY <1>3 DEF AllocDir
  <2>2. \A c \in Clusters : fat[c] # Free => fat'[c] = fat[c]
    <3>1. 1 \in Nat \ {0} /\ 1 <= Cardinality(FreeClusters)
      BY <1>1, <1>3, OneFree DEF Inv
    <3> QED
      BY <1>1, <2>1, <3>1, AllocatesRun
  <2>3. Keeps
    BY <1>1, <2>2 DEF Keeps
  <2>4. NamesDiffer' /\ FilesWhole'
    BY <1>1, <2>3, SameDirs DEF VolumeInv
  <2>5. op'.stage = "mkdir" /\ op'.file = op.file /\ op'.at = op.at /\ op'.in = op.in
    BY <1>1, <2>1, InvTypes DEF OpType
  <2>6. LeadsTo(ShortPath(op.file), op.at + 1, op.in)'
    BY <1>1, <2>3, <2>5, AtWrite, WayStays
  <2>7. Found(op.in, NextName)' = {}
    BY <1>1, <2>5 DEF Found, NextName
  <2> QED
    BY <1>1, <2>3, <2>4, <2>5, <2>6, <2>7 DEF VolumeInv, WriteInv
<1> QED
  BY <1>2, <1>3

LEMMA PutDirVolume == VolumeInv /\ PutDir => VolumeInv' /\ Keeps
<1> SUFFICES ASSUME VolumeInv, PutDir PROVE VolumeInv' /\ Keeps
  OBVIOUS
<1>0. PICK c : c = op.got[1]
  OBVIOUS
<1>1. PICK e : e = [name |-> NextName, kind |-> "dir", first |-> c, size |-> 0]
  OBVIOUS
<1>2. PICK base : base = [dir EXCEPT ![c] = << >>]
  OBVIOUS
<1>3. /\ op.stage = "mkdir" /\ UNCHANGED <<fat, chunk>>
      /\ Inv /\ Inv' /\ Found(op.in, NextName) = {}
  BY PutDirInv DEF PutDir, VolumeInv, WriteInv
<1>4. /\ c \in Clusters /\ c \in Dirs /\ c # Root /\ ChainHead(c)
      /\ op.in \in Dirs /\ dir \in [Dirs -> Seq(Entry)] /\ NextName \in Shorts
  BY <1>0, <1>3, AtMkdir
<1>5. e \in Entry /\ e.name = NextName /\ e.kind = "dir" /\ e.first = c
  BY <1>1, <1>4 DEF Entry
<1>6. /\ base \in [Dirs -> Seq(Entry)]
      /\ \A x \in Dirs : base[x] \in {dir[x], << >>}
      /\ \A x \in Dirs : Known(x) => base[x] = dir[x]
  BY <1>2, <1>4 DEF Known, ChainHead
<1>7. CASE FreeSlot(op.in)
  <2>1. /\ op' = [op EXCEPT !.stage = "walk", !.at = @ + 1, !.in = c, !.got = << >>]
        /\ dir' = [base EXCEPT ![op.in] = Append(@, e)]
    BY <1>7, <1>0, <1>1, <1>2 DEF PutDir
  <2>2. \A x \in Dirs : \A i \in DOMAIN base[x] : i \in DOMAIN dir'[x] /\ dir'[x][i] = base[x][i]
    BY <1>4, <1>5, <1>6, <2>1, EntriesAre
  <2>3. Keeps
    BY <1>3, <1>6, <2>2 DEF Keeps
  <2>4. NamesDiffer' /\ FilesWhole'
    BY <1>3, <1>4, <1>5, <1>6, <2>1, <2>3, EntersWell DEF VolumeInv
  <2>5. op'.stage = "walk" /\ op'.file = op.file /\ op'.at = op.at + 1 /\ op'.in = c
    BY <1>3, <2>1, InvTypes DEF OpType
  <2>6. PICK q : q = ShortPath(op.file)
    OBVIOUS
  <2>7. PICK d : d = op.in
    OBVIOUS
  <2>8. PICK k \in Nat \ {0} : k = op.at + 1
    BY <1>3, AtWrite
  <2>9. LeadsTo(q, k, d) /\ q[k] = NextName
    BY <1>3, <2>6, <2>7, <2>8, AtWrite
  <2>10. LeadsTo(q, k, d)'
    BY <2>3, <2>9, LeadsStays
  <2>11. HasDir(d, q[k], c)'
    <3>1. /\ Len(base[d]) + 1 \in DOMAIN dir'[d]
          /\ dir'[d][Len(base[d]) + 1] = e
      BY <1>4, <1>5, <1>6, <2>1, <2>7, EntriesAre
    <3> QED
      BY <3>1, <1>5, <2>9 DEF HasDir
  <2>12. LeadsTo(q, k + 1, c)'
    BY <1>4, <2>10, <2>11, LeadsOn
  <2>13. LeadsTo(ShortPath(op.file), op.at + 1, op.in)'
    BY <2>5, <2>6, <2>8, <2>12
  <2> QED
    BY <1>3, <2>3, <2>4, <2>5, <2>13 DEF VolumeInv, WriteInv
<1>8. CASE ~FreeSlot(op.in)
  <2>1. dir' = base /\ Goto("failed")
    BY <1>8, <1>0, <1>2 DEF PutDir
  <2>2. op'.stage = "failed"
    BY <1>3, <2>1, GotoType DEF Stages
  <2>3. Keeps
    BY <1>3, <1>6, <2>1 DEF Keeps
  <2>4. NamesDiffer' /\ FilesWhole'
    BY <1>3, <1>4, <1>5, <1>6, <2>1, <2>3, EntersWell DEF VolumeInv
  <2> QED
    BY <1>3, <2>2, <2>3, <2>4 DEF VolumeInv, WriteInv
<1> QED
  BY <1>7, <1>8

LEMMA CheckNameVolume == VolumeInv /\ CheckName => VolumeInv' /\ Keeps
<1> SUFFICES ASSUME VolumeInv, CheckName PROVE VolumeInv' /\ Keeps
  OBVIOUS
<1>1. /\ op.stage = "walk" /\ AtName /\ UNCHANGED <<fat, dir, chunk>>
      /\ Goto(IF Found(op.in, NextName) = {} THEN "alloc" ELSE "failed")
  BY DEF CheckName
<1>2. Inv /\ Inv' /\ Keeps /\ NamesDiffer' /\ FilesWhole'
  BY <1>1, CheckNameInv, SameKeeps DEF VolumeInv
<1>3. CASE Found(op.in, NextName) = {}
  <2>1. /\ op'.stage = "alloc" /\ op'.file = op.file /\ op'.at = op.at /\ op'.in = op.in
    BY <1>1, <1>2, <1>3, InvTypes DEF Goto, OpType
  <2>2. LeadsTo(ShortPath(op.file), op.at + 1, op.in)'
    BY <1>1, <1>2, <2>1, AtWrite, WayStays
  <2>3. Found(op.in, NextName)' = {}
    BY <1>1, <1>3, <2>1 DEF Found, NextName
  <2>4. (op.at + 1 = Len(op.file))'
    BY <1>1, <2>1 DEF AtName
  <2> QED
    BY <1>2, <2>1, <2>2, <2>3, <2>4 DEF VolumeInv, WriteInv
<1>4. CASE Found(op.in, NextName) # {}
  <2>1. op'.stage = "failed"
    BY <1>1, <1>2, <1>4, GotoType DEF Stages
  <2> QED
    BY <1>2, <2>1 DEF VolumeInv, WriteInv
<1> QED
  BY <1>3, <1>4

LEMMA AllocVolume == VolumeInv /\ Alloc => VolumeInv' /\ Keeps
<1> SUFFICES ASSUME VolumeInv, Alloc PROVE VolumeInv' /\ Keeps
  OBVIOUS
<1>1. op.stage = "alloc" /\ UNCHANGED <<dir, chunk>> /\ Inv /\ Inv'
  BY AllocInv DEF Alloc, VolumeInv
<1>2. PICK n \in Nat \ {0} : n = Need(op.file)
  BY <1>1, AtWrite, ShortIs
<1>3. CASE n <= Cardinality(FreeClusters)
  <2>1. PICK got : got = Lowest(n)
    OBVIOUS
  <2>2. fat' = Linked(got) /\ op' = [op EXCEPT !.stage = "data", !.got = got]
    BY <1>2, <1>3, <2>1 DEF Alloc
  <2>3. /\ \A c \in Clusters : fat[c] # Free => fat'[c] = fat[c]
        /\ got = [i \in 1..n |-> got[1] + i - 1]
        /\ \A h \in Clusters : h = got[1] => Run(h, n)'
    BY <1>1, <1>3, <2>1, <2>2, AllocatesRun
  <2>4. got[1] \in Clusters
    <3>1. got \in Seq(Clusters) /\ Len(got) = n
      BY <1>1, <1>3, <2>1, <2>2, Allocates
    <3> QED
      BY <3>1
  <2>5. PICK h \in Clusters : h = got[1]
    BY <2>4
  <2>6. Run(h, n)'
    BY <2>3, <2>5
  <2>7. Keeps
    BY <1>1, <2>3 DEF Keeps
  <2>8. NamesDiffer' /\ FilesWhole'
    BY <1>1, <2>7, SameDirs DEF VolumeInv
  <2>9. /\ op'.stage = "data" /\ op'.file = op.file /\ op'.at = op.at /\ op'.in = op.in
        /\ op'.got = got
    BY <1>1, <2>2, InvTypes DEF OpType
  <2>10. LeadsTo(ShortPath(op.file), op.at + 1, op.in)'
    BY <1>1, <2>7, <2>9, AtWrite, WayStays
  <2>11. Found(op.in, NextName)' = {} /\ (op.at + 1 = Len(op.file))'
    BY <1>1, <2>9 DEF Found, NextName, VolumeInv, WriteInv
  <2>12. op'.got[1] = h /\ Need(op.file)' = n
    BY <1>2, <2>5, <2>9 DEF Need
  <2>13. Run(op.got[1], Need(op.file))'
    BY <2>6, <2>12
  <2>14. (op.got = [i \in 1..Need(op.file) |-> op.got[1] + i - 1])'
    BY <2>3, <2>9, <2>12
  <2> QED
    BY <1>1, <2>7, <2>8, <2>9, <2>10, <2>11, <2>13, <2>14 DEF VolumeInv, WriteInv
<1>4. CASE ~(n <= Cardinality(FreeClusters))
  <2>1. /\ fat' = [c \in Clusters |-> IF c \in FreeClusters THEN EOC ELSE fat[c]]
        /\ Goto("failed")
    BY <1>2, <1>4 DEF Alloc
  <2>2. op'.stage = "failed"
    BY <1>1, <2>1, GotoType DEF Stages
  <2>3. Keeps
    BY <1>1, <2>1 DEF Keeps, FreeClusters
  <2>4. NamesDiffer' /\ FilesWhole'
    BY <1>1, <2>3, SameDirs DEF VolumeInv
  <2> QED
    BY <1>1, <2>2, <2>3, <2>4 DEF VolumeInv, WriteInv
<1> QED
  BY <1>3, <1>4

\* The data go where no file has its own.
LEMMA WriteDataVolume == VolumeInv /\ WriteData => VolumeInv' /\ Keeps
<1> SUFFICES ASSUME VolumeInv, WriteData PROVE VolumeInv' /\ Keeps
  OBVIOUS
<1>1. /\ op.stage = "data" /\ Goto("entry") /\ UNCHANGED <<fat, dir>> /\ Inv /\ Inv'
      /\ VolumeTypeOK /\ NoCrossLinks
  BY WriteDataInv DEF WriteData, VolumeInv, Inv
<1>2. PICK p \in Paths : p = op.file
  BY <1>1, AtWrite
<1>3. PICK n \in Nat \ {0} : n = Need(p)
  BY ShortIs
<1>4. PICK h \in Clusters : h = op.got[1]
  BY <1>1, InvTypes
<1>5. /\ h \in Nat /\ ChainHead(h) /\ Run(h, n)
      /\ op.got = [i \in 1..n |-> h + i - 1]
  BY <1>1, <1>2, <1>3, <1>4, InvTypes, ClusterFacts DEF VolumeInv, WriteInv
<1>6. chunk' = [c \in Clusters |-> IF \E i \in 1..n : op.got[i] = c
                                   THEN <<p, CHOOSE i \in 1..n : op.got[i] = c>>
                                   ELSE chunk[c]]
  <2>1. DOMAIN op.got = 1..n
    BY <1>5
  <2> QED
    BY <1>2, <2>1 DEF WriteData
<1>7. ASSUME NEW c \in Clusters, c \notin h..(h + n - 1)
      PROVE  chunk'[c] = chunk[c]
  <2>1. ~\E i \in 1..n : op.got[i] = c
    BY <1>5, <1>7, ClusterFacts
  <2> QED
    BY <1>6, <2>1
<1>8. ASSUME NEW i \in 1..n
      PROVE  chunk'[h + i - 1] = <<p, i>>
  <2>1. h + i - 1 \in Clusters
    <3>1. h + i - 1 \in h..(h + n - 1)
      BY <1>5
    <3> QED
      BY <3>1, <1>5 DEF Run
  <2>2. \A k \in 1..n : op.got[k] = h + i - 1 <=> k = i
    BY <1>5
  <2>3. (CHOOSE k \in 1..n : op.got[k] = h + i - 1) = i
    BY <2>2
  <2> QED
    BY <1>6, <2>1, <2>2, <2>3
<1>9. Keeps
  <2>1. ASSUME NEW d \in Dirs, NEW i \in DOMAIN dir[d], dir[d][i].kind = "file",
               NEW b \in Clusters,
               b \in dir[d][i].first..(dir[d][i].first + NeedOf(dir[d][i].size) - 1)
        PROVE  chunk'[b] = chunk[b]
    <3>1. PICK c \in Clusters : c = dir[d][i].first
      BY <1>1, EntryOf
    <3>2. PICK m \in Nat : m = NeedOf(dir[d][i].size)
      BY <1>1, EntryOf DEF NeedOf
    <3>3. Run(c, m)
      BY <2>1, <3>1, <3>2 DEF VolumeInv, FilesWhole
    <3>4. c # h
      BY <1>5, <3>1 DEF ChainHead
    <3>5. \A a \in Clusters : fat[a] # c
      BY <1>1, <3>1 DEF NoCrossLinks
    <3>6. \A a \in Clusters : fat[a] # h
      BY <1>5 DEF ChainHead
    <3>7. c \in Nat /\ b \in Nat /\ n \in Nat /\ b \in c..(c + m - 1)
      BY <2>1, <3>1, <3>2, ClusterFacts
    <3>8. b \notin h..(h + n - 1)
      BY <1>5, <3>2, <3>3, <3>4, <3>5, <3>6, <3>7, RunsApart
    <3> QED
      BY <1>7, <3>8
  <2> QED
    BY <1>1, <2>1 DEF Keeps
<1>10. NamesDiffer' /\ FilesWhole'
  BY <1>1, <1>9, SameDirs DEF VolumeInv
<1>11. /\ op'.stage = "entry" /\ op'.file = op.file /\ op'.at = op.at /\ op'.in = op.in
       /\ op'.got = op.got
  BY <1>1, InvTypes DEF Goto, OpType
<1>12. LeadsTo(ShortPath(op.file), op.at + 1, op.in)'
  BY <1>1, <1>9, <1>11, AtWrite, WayStays
<1>13. Found(op.in, NextName)' = {} /\ (op.at + 1 = Len(op.file))'
  BY <1>1, <1>11 DEF Found, NextName, VolumeInv, WriteInv
<1>14. Run(op.got[1], Need(op.file))' /\ (op.got = [i \in 1..Need(op.file) |-> op.got[1] + i - 1])'
  <2>1. Run(h, n)'
    BY <1>1, <1>5 DEF Run
  <2>2. op'.got[1] = h /\ Need(op.file)' = n
    BY <1>2, <1>3, <1>4, <1>11 DEF Need
  <2>3. Run(op.got[1], Need(op.file))'
    BY <2>1, <2>2
  <2> QED
    BY <1>5, <1>11, <2>2, <2>3
<1>15. (\A i \in 1..Size[op.file] : chunk[op.got[1] + i - 1] = <<op.file, i>>)'
  <2>1. ASSUME NEW i \in 1..Size[p]
        PROVE  chunk'[h + i - 1] = <<p, i>>
    <3>1. i \in 1..n
      BY <1>3, ShortIs
    <3> QED
      BY <1>8, <3>1
  <2> QED
    BY <1>2, <1>4, <1>11, <2>1
<1> QED
  BY <1>1, <1>9, <1>10, <1>11, <1>12, <1>13, <1>14, <1>15 DEF VolumeInv, WriteInv

\* With its entry the file is there, as a whole.
LEMMA PutEntryVolume ==
    VolumeInv /\ PutEntry => VolumeInv' /\ Keeps /\ WrittenStored'
<1> SUFFICES ASSUME VolumeInv, PutEntry
             PROVE  VolumeInv' /\ Keeps /\ WrittenStored'
  OBVIOUS
<1>1. /\ op.stage = "entry" /\ UNCHANGED <<fat, chunk>> /\ Inv /\ Inv'
      /\ Found(op.in, NextName) = {}
  BY PutEntryInv DEF PutEntry, VolumeInv, WriteInv
<1>2. PICK p \in Paths : p = op.file
  BY <1>1, AtWrite
<1>3. PICK h \in Clusters : h = op.got[1]
  BY <1>1, InvTypes
<1>4. PICK e : e = [name |-> NextName, kind |-> "file", first |-> h, size |-> Size[p]]
  OBVIOUS
<1>5. op.in \in Dirs /\ dir \in [Dirs -> Seq(Entry)] /\ NextName \in Shorts /\ Size[p] \in Nat
  BY <1>1, InvTypes, ShortIs
<1>6. /\ e \in Entry /\ e.name = NextName /\ e.kind = "file" /\ e.first = h /\ e.size = Size[p]
  BY <1>4, <1>5 DEF Entry
<1>7. CASE FreeSlot(op.in)
  <2>1. dir' = [dir EXCEPT ![op.in] = Append(@, e)] /\ Goto("written")
    BY <1>2, <1>3, <1>4, <1>7 DEF PutEntry
  <2>2. /\ \A x \in Dirs : \A i \in DOMAIN dir[x] : i \in DOMAIN dir'[x] /\ dir'[x][i] = dir[x][i]
        /\ Len(dir[op.in]) + 1 \in DOMAIN dir'[op.in]
        /\ dir'[op.in][Len(dir[op.in]) + 1] = e
    BY <1>5, <1>6, <2>1, EntriesAre
  <2>3. Keeps
    BY <1>1, <2>2 DEF Keeps
  <2>4. PICK n \in Nat : n = NeedOf(Size[p])
    BY <1>5 DEF NeedOf
  <2>5. Run(h, n)'
    <3>1. Run(h, n)
      BY <1>1, <1>2, <1>3, <2>4, ShortIs DEF VolumeInv, WriteInv
    <3>2. h \in Nat
      BY ClusterFacts
    <3> QED
      BY <2>3, <3>1, <3>2, RunStays
  <2>6. Run(e.first, NeedOf(e.size))'
    BY <1>6, <2>4, <2>5
  <2>7. PICK base : base = dir
    OBVIOUS
  <2>8. /\ base \in [Dirs -> Seq(Entry)] /\ \A x \in Dirs : base[x] \in {dir[x], << >>}
        /\ dir' = [base EXCEPT ![op.in] = Append(@, e)]
        /\ Found(op.in, e.name) = {}
    BY <1>1, <1>5, <1>6, <2>1, <2>7
  <2>9. NamesDiffer' /\ FilesWhole'
    BY <1>1, <1>5, <1>6, <2>3, <2>6, <2>8, EntersWell DEF VolumeInv
  <2>10. op'.stage = "written" /\ op'.file = op.file
    BY <1>1, <2>1, GotoType DEF Stages
  <2>11. PICK q : q = ShortPath(p)
    OBVIOUS
  <2>12. PICK d \in Dirs : d = op.in
    BY <1>5
  <2>13. PICK m : m = Short[p[Len(p)]]
    OBVIOUS
  <2>14. LeadsTo(q, Len(p), d)' /\ m = NextName
    <3>1. op.at + 1 = Len(op.file)
      BY <1>1 DEF VolumeInv, WriteInv
    <3>2. LeadsTo(q, Len(p), d) /\ m = NextName
      BY <1>1, <1>2, <2>11, <2>12, <2>13, <3>1, AtWrite DEF NextName
    <3>3. Len(p) \in Nat \ {0}
      BY ShortIs
    <3> QED
      BY <2>3, <3>2, <3>3, LeadsStays
  <2>15. HasFile(d, m, h, Size[p])'
    BY <1>6, <2>2, <2>12, <2>14 DEF HasFile
  <2>16. \A i \in 1..Size[p] : chunk'[h + i - 1] = <<p, i>>
    BY <1>1, <1>2, <1>3 DEF VolumeInv, WriteInv
  <2>17. Stored(p)'
    BY <2>11, <2>13, <2>14, <2>15, <2>16 DEF Stored
  <2>18. Stored(op.file)' /\ op'.file \in Paths
    BY <1>2, <2>10, <2>17
  <2> QED
    BY <1>1, <2>3, <2>9, <2>10, <2>18 DEF VolumeInv, WriteInv, WrittenStored
<1>8. CASE ~FreeSlot(op.in)
  <2>1. Goto("failed") /\ UNCHANGED dir
    BY <1>8 DEF PutEntry
  <2>2. op'.stage = "failed"
    BY <1>1, <2>1, GotoType DEF Stages
  <2>3. Keeps /\ NamesDiffer' /\ FilesWhole'
    BY <1>1, <2>1, SameKeeps DEF VolumeInv
  <2> QED
    BY <1>1, <2>2, <2>3 DEF VolumeInv, WriteInv, WrittenStored
<1> QED
  BY <1>7, <1>8

LEMMA StartVolume ==
    ASSUME VolumeInv, NEW p \in Paths, StartWrite(p)
    PROVE  VolumeInv' /\ Keeps
<1>1. /\ op' = [stage |-> "walk", file |-> p, at |-> 0, in |-> Root, got |-> << >>]
      /\ UNCHANGED <<fat, dir, chunk>>
  BY DEF StartWrite
<1>2. Inv' /\ Keeps /\ NamesDiffer' /\ FilesWhole'
  BY <1>1, StartWriteInv, SameKeeps DEF VolumeInv
<1>3. LeadsTo(ShortPath(op.file), op.at + 1, op.in)'
  <2>1. PICK t : t = [i \in 1..1 |-> Root]
    OBVIOUS
  <2>2. t \in [1..1 -> Dirs] /\ t[1] = Root
    BY <2>1 DEF Dirs
  <2>3. \A i \in 1..1 : i = 1
    OBVIOUS
  <2>4. PICK q : q = ShortPath(p)
    OBVIOUS
  <2>5. LeadsTo(q, 1, Root)'
    BY <2>2, <2>3 DEF LeadsTo
  <2>6. op'.file = p /\ op'.at + 1 = 1 /\ op'.in = Root
    BY <1>1
  <2> QED
    BY <2>4, <2>5, <2>6
<1> QED
  BY <1>1, <1>2, <1>3 DEF VolumeInv, WriteInv

LEMMA IdleVolume ==
    ASSUME VolumeInv, op' = NoOp, UNCHANGED <<fat, dir, chunk>>
    PROVE  VolumeInv' /\ Keeps
<1>1. Inv' /\ Keeps /\ NamesDiffer' /\ FilesWhole'
  BY IdleInv, SameKeeps DEF VolumeInv
<1> QED
  BY <1>1 DEF VolumeInv, WriteInv, NoOp

LEMMA BlankVolumeInv == VolumeInit => VolumeInv
<1> SUFFICES ASSUME VolumeInit PROVE VolumeInv
  OBVIOUS
<1>1. Inv /\ dir = [d \in Dirs |-> << >>] /\ op = NoOp
  BY InitInv DEF VolumeInit, BlankVolume
<1>2. NamesDiffer /\ FilesWhole
  BY <1>1 DEF NamesDiffer, FilesWhole
<1> QED
  BY <1>1, <1>2 DEF VolumeInv, WriteInv, NoOp

LEMMA FormatVolume ==
    ASSUME Format, op' \in OpType, op'.stage \in {"idle", "written", "failed"}
    PROVE  VolumeInv'
<1>1. Inv' /\ dir' = [d \in Dirs |-> << >>]
  BY FormatInv DEF Format
<1>2. NamesDiffer' /\ FilesWhole'
  BY <1>1 DEF NamesDiffer, FilesWhole
<1> QED
  BY <1>1, <1>2 DEF VolumeInv, WriteInv

\* A step that leaves the volume alone.
LEMMA SameVolume ==
    ASSUME VolumeInv, UNCHANGED volVars
    PROVE  VolumeInv' /\ Keeps /\ (WrittenStored => WrittenStored')
<1>1. UNCHANGED <<fat, dir, chunk, op>>
  BY DEF volVars
<1>2. Inv'
  BY NextInv DEF VolumeInv
<1>3. Keeps /\ NamesDiffer' /\ FilesWhole'
  BY <1>1, SameKeeps DEF VolumeInv
<1>4. WriteInv'
  BY <1>1 DEF VolumeInv, WriteInv, LeadsTo, HasDir, Run, Found, NextName
<1>5. \A p \in Paths : Stored(p) => Stored(p)'
  BY <1>3, StoredStays DEF VolumeInv
<1>6. WrittenStored => WrittenStored'
  BY <1>1, <1>5 DEF WrittenStored
<1> QED
  BY <1>2, <1>3, <1>4, <1>6 DEF VolumeInv

LEMMA WriteVolume ==
    VolumeInv /\ WriteStep =>
        VolumeInv' /\ Keeps /\ WrittenStored'
<1> SUFFICES ASSUME VolumeInv, WriteStep
             PROVE  VolumeInv' /\ Keeps /\ WrittenStored'
  OBVIOUS
<1>1. CASE PutEntry
  BY <1>1, PutEntryVolume
<1>2. CASE ~PutEntry
  <2>1. VolumeInv' /\ Keeps
    BY <1>2, WalkVolume, AllocDirVolume, PutDirVolume, CheckNameVolume, AllocVolume,
       WriteDataVolume DEF WriteStep
  <2>2. op'.stage # "written"
    <3>1. op \in OpType
      BY InvTypes DEF VolumeInv
    <3>2. op.stage # "written"
      BY <1>2 DEF WriteStep, Walk, AllocDir, PutDir, CheckName, Alloc, WriteData
    <3> QED
      BY <1>2, <3>1, <3>2
         DEF WriteStep, Walk, AllocDir, PutDir, CheckName, Alloc, WriteData, Goto, OpType
  <2> QED
    BY <2>1, <2>2 DEF WrittenStored
<1> QED
  BY <1>1, <1>2

LEMMA VolumeStep ==
    VolumeInv /\ WrittenStored /\ [VolumeNext]_volVars =>
        VolumeInv' /\ WrittenStored' /\ (Renew \/ Keeps)
<1> SUFFICES ASSUME VolumeInv, WrittenStored, [VolumeNext]_volVars
             PROVE  VolumeInv' /\ WrittenStored' /\ (Renew \/ Keeps)
  OBVIOUS
<1>1. CASE Renew
  <2>1. Format /\ op' = NoOp
    BY <1>1 DEF Renew
  <2>2. VolumeInv' /\ op'.stage = "idle"
    BY <2>1, FormatVolume, NoOpType DEF NoOp
  <2> QED
    BY <1>1, <2>2 DEF WrittenStored
<1>2. CASE DropWrite \/ EndWrite
  <2>1. op' = NoOp /\ UNCHANGED <<fat, dir, chunk>>
    BY <1>2 DEF DropWrite, EndWrite
  <2>2. VolumeInv' /\ Keeps /\ op'.stage = "idle"
    BY <2>1, IdleVolume DEF NoOp
  <2> QED
    BY <2>2 DEF WrittenStored
<1>3. CASE WriteStep
  BY <1>3, WriteVolume
<1>4. CASE \E p \in Paths : StartWrite(p)
  <2>1. PICK p \in Paths : StartWrite(p)
    BY <1>4
  <2>2. VolumeInv' /\ Keeps /\ op'.stage = "walk"
    BY <2>1, StartVolume DEF StartWrite
  <2> QED
    BY <2>2 DEF WrittenStored
<1>5. CASE UNCHANGED volVars
  BY <1>5, SameVolume
<1> QED
  BY <1>1, <1>2, <1>3, <1>4, <1>5 DEF VolumeNext

LEMMA VolumeInvAlways == VolumeSpec => [](VolumeInv /\ WrittenStored)
<1>1. VolumeInit => VolumeInv /\ WrittenStored
  BY BlankVolumeInv DEF VolumeInit, WrittenStored, NoOp
<1>2. VolumeInv /\ WrittenStored /\ [VolumeNext]_volVars => (VolumeInv /\ WrittenStored)'
  BY VolumeStep
<1> QED
  BY <1>1, <1>2, PTL DEF VolumeSpec

\* After every write that succeeds the file reads back as what was written, on a volume
\* of any size and fill, next to files and directories of any number, under any names.
THEOREM WritesReadBack == VolumeSpec => []ReadBackMatches
<1>1. VolumeInv /\ WrittenStored => ReadBackMatches
  BY StoredReads DEF WrittenStored, ReadBackMatches
<1> QED
  BY <1>1, VolumeInvAlways, PTL

------------------------------------------------------------------------------
(* The volume is a tree of files *)

FileAt(p, d, c, s) ==
    LeadsTo(ShortPath(p), Len(p), d) /\ HasFile(d, Short[p[Len(p)]], c, s)

\* What reading gives, for each path.
ReadsTell ==
    \A p \in Paths :
        /\ \A d \in Dirs, c \in Clusters, s \in Nat : FileAt(p, d, c, s) =>
              /\ ReadFile(ShortPath(p)) = [i \in 1..s |-> chunk[c + i - 1]]
              /\ ReadFile(ShortPath(p)) # Absent
        /\ ReadFile(ShortPath(p)) # Absent =>
              \E d \in Dirs, c \in Clusters, s \in Nat : FileAt(p, d, c, s)

LEMMA ReadsToldNow == VolumeInv => ReadsTell
<1> SUFFICES ASSUME VolumeInv, NEW p \in Paths
             PROVE  /\ \A d \in Dirs, c \in Clusters, s \in Nat : FileAt(p, d, c, s) =>
                          /\ ReadFile(ShortPath(p)) = [i \in 1..s |-> chunk[c + i - 1]]
                          /\ ReadFile(ShortPath(p)) # Absent
                    /\ ReadFile(ShortPath(p)) # Absent =>
                          \E d \in Dirs, c \in Clusters, s \in Nat : FileAt(p, d, c, s)
  BY DEF ReadsTell
<1>1. VolumeTypeOK /\ NamesDiffer
  BY DEF VolumeInv, Inv
<1>2. PICK q : q = ShortPath(p)
  OBVIOUS
<1>3. Len(q) = Len(p) /\ Len(q) \in Nat \ {0} /\ q[Len(q)] = Short[p[Len(p)]]
  BY <1>2, ShortIs
<1>4. ASSUME NEW d \in Dirs, NEW c \in Clusters, NEW s \in Nat, FileAt(p, d, c, s)
      PROVE  ReadFile(q) = [i \in 1..s |-> chunk[c + i - 1]] /\ ReadFile(q) # Absent
  <2>1. LeadsTo(q, Len(q), d) /\ HasFile(d, q[Len(q)], c, s)
    BY <1>2, <1>3, <1>4 DEF FileAt
  <2>2. PICK j \in DOMAIN dir[d] :
           dir[d][j].kind = "file" /\ dir[d][j].first = c /\ dir[d][j].size = s
    BY <2>1 DEF HasFile
  <2>3. Run(c, NeedOf(s))
    BY <2>2 DEF VolumeInv, FilesWhole
  <2>4. ReadFile(q) = [i \in 1..s |-> chunk[c + i - 1]]
    BY <1>1, <1>3, <2>1, <2>3, ReadIs
  <2>5. [i \in 1..s |-> chunk[c + i - 1]] # Absent
    <3>1. SUFFICES ASSUME [i \in 1..s |-> chunk[c + i - 1]] = Absent PROVE FALSE
      OBVIOUS
    <3>2. 1 \in 1..s /\ chunk[c + 1 - 1] = <<NoFile, 0>>
      <4>1. DOMAIN Absent = 1..1 /\ Absent[1] = <<NoFile, 0>>
        BY DEF Absent
      <4> QED
        BY <3>1, <4>1
    <3>3. c + 1 - 1 = c
      BY ClusterFacts
    <3>4. chunk[c] \in (Paths \X Nat) \cup {<< >>}
      BY <1>1 DEF VolumeTypeOK
    <3>5. <<NoFile, 0>> \notin (Paths \X Nat) \cup {<< >>}
      BY Fat16Assumption
    <3> QED
      BY <3>2, <3>3, <3>4, <3>5
  <2> QED
    BY <2>4, <2>5
<1>5. ASSUME ReadFile(q) # Absent
      PROVE  \E d \in Dirs, c \in Clusters, s \in Nat : FileAt(p, d, c, s)
  BY <1>1, <1>2, <1>3, <1>5, ReadHas DEF FileAt
<1> QED
  BY <1>2, <1>4, <1>5

LEMMA ReadsToldNext == VolumeInv' => ReadsTell'
  BY ReadsToldNow, PTL

\* What could be read reads the same after a step that keeps it.
LEMMA ReadStays ==
    ASSUME VolumeInv, VolumeInv', Keeps, NEW p \in Paths, ReadFile(ShortPath(p)) # Absent
    PROVE  ReadFile(ShortPath(p))' = ReadFile(ShortPath(p))
<1>1. PICK d \in Dirs, c \in Clusters, s \in Nat : FileAt(p, d, c, s)
  BY ReadsToldNow DEF ReadsTell
<1>2. ReadFile(ShortPath(p)) = [i \in 1..s |-> chunk[c + i - 1]]
  BY <1>1, ReadsToldNow DEF ReadsTell
<1>3. PICK q : q = ShortPath(p)
  OBVIOUS
<1>4. PICK m : m = Short[p[Len(p)]]
  OBVIOUS
<1>5. FileAt(p, d, c, s)'
  <2>1. LeadsTo(q, Len(p), d) /\ HasFile(d, m, c, s)
    BY <1>1, <1>3, <1>4 DEF FileAt
  <2>2. LeadsTo(q, Len(p), d)' /\ Known(d)
    BY <2>1, ShortIs, LeadsStays
  <2>3. HasFile(d, m, c, s)'
    BY <2>1, <2>2, FileStays
  <2> QED
    BY <1>3, <1>4, <2>2, <2>3 DEF FileAt
<1>6. ReadFile(ShortPath(p))' = [i \in 1..s |-> chunk'[c + i - 1]]
  BY <1>5, ReadsToldNext DEF ReadsTell
<1>7. PICK j \in DOMAIN dir[d] :
         dir[d][j].kind = "file" /\ dir[d][j].first = c /\ dir[d][j].size = s
  BY <1>1 DEF FileAt, HasFile
<1>8. Run(c, NeedOf(s))
  BY <1>7 DEF VolumeInv, FilesWhole
<1>9. ASSUME NEW i \in 1..s
      PROVE  chunk'[c + i - 1] = chunk[c + i - 1]
  <2>1. c + i - 1 \in c..(c + NeedOf(s) - 1)
    BY ClusterFacts DEF NeedOf
  <2>2. c + i - 1 \in Clusters
    BY <1>8, <2>1 DEF Run
  <2> QED
    BY <1>7, <2>1, <2>2 DEF Keeps
<1> QED
  BY <1>2, <1>6, <1>9

\* A directory has one path.
LEMMA OneWay ==
    ASSUME Inv, NEW q, NEW k \in Nat \ {0}, NEW r, NEW m \in Nat \ {0}, NEW d,
           LeadsTo(q, k, d), LeadsTo(r, m, d)
    PROVE  k = m /\ \A i \in 1..k : i # k => q[i] = r[i]
<1>1. PICK t \in [1..k -> Dirs] :
         t[1] = Root /\ t[k] = d /\ \A i \in 1..k : i # k => HasDir(t[i], q[i], t[i + 1])
  BY DEF LeadsTo
<1>2. PICK u \in [1..m -> Dirs] :
         u[1] = Root /\ u[m] = d /\ \A i \in 1..m : i # m => HasDir(u[i], r[i], u[i + 1])
  BY DEF LeadsTo
<1>3. ASSUME NEW x \in Dirs, NEW n, HasDir(x, n, Root)
      PROVE  FALSE
  BY <1>3, EntryOf, ClusterFacts DEF HasDir, Root, Inv
<1>4. ASSUME NEW x \in Dirs, NEW y \in Dirs, NEW n, NEW o, NEW c, HasDir(x, n, c), HasDir(y, o, c)
      PROVE  x = y /\ n = o
  <2>1. PICK i \in DOMAIN dir[x] : dir[x][i].name = n /\ dir[x][i].first = c
    BY <1>4 DEF HasDir
  <2>2. PICK j \in DOMAIN dir[y] : dir[y][j].name = o /\ dir[y][j].first = c
    BY <1>4 DEF HasDir
  <2> QED
    BY <2>1, <2>2 DEF Inv, NoCrossLinks
\* The last directories of the two ways are the same, as far as both go.
<1>5. PICK T : T = {i \in 1..k : i <= m /\ t[k + 1 - i] = u[m + 1 - i]
                       /\ \A j \in 1..i : j # 1 => q[k + 1 - j] = r[m + 1 - j]}
  OBVIOUS
<1>6. 1 \in T
  BY <1>1, <1>2, <1>5
<1>7. ASSUME NEW i \in 1..k, i < k, i \in T
      PROVE  i + 1 \in T
  <2>1. i <= m /\ t[k + 1 - i] = u[m + 1 - i] /\ \A j \in 1..i : j # 1 => q[k + 1 - j] = r[m + 1 - j]
    BY <1>5, <1>7
  <2>2. k - i \in 1..k /\ k - i # k /\ (k - i) + 1 = k + 1 - i
    BY <1>7
  <2>3. HasDir(t[k - i], q[k - i], t[k + 1 - i]) /\ t[k - i] \in Dirs
    BY <1>1, <2>2
  <2>4. i # m
    <3>1. CASE i = m
      <4>1. m + 1 - i = 1
        BY <3>1
      <4>2. t[k + 1 - i] = Root
        BY <1>2, <2>1, <4>1
      <4> QED
        BY <1>3, <2>3, <4>2
    <3> QED
      BY <3>1
  <2>5. m - i \in 1..m /\ m - i # m /\ (m - i) + 1 = m + 1 - i
    BY <1>7, <2>1, <2>4
  <2>6. HasDir(u[m - i], r[m - i], u[m + 1 - i]) /\ u[m - i] \in Dirs
    BY <1>2, <2>5
  <2>7. t[k - i] = u[m - i] /\ q[k - i] = r[m - i]
    BY <1>4, <2>1, <2>3, <2>6
  <2>8. /\ i + 1 \in 1..k /\ i + 1 <= m
        /\ k + 1 - (i + 1) = k - i /\ m + 1 - (i + 1) = m - i
    BY <1>7, <2>1, <2>4
  <2>9. ASSUME NEW j \in 1..(i + 1), j # 1
        PROVE  q[k + 1 - j] = r[m + 1 - j]
    <3>1. CASE j = i + 1
      BY <2>7, <2>8, <3>1
    <3>2. CASE j # i + 1
      BY <2>1, <2>9, <3>2
    <3> QED
      BY <3>1, <3>2
  <2> QED
    BY <1>5, <2>7, <2>8, <2>9
<1>8. k \in T
  <2>1. \A i \in 1..k : i < k /\ i \in T => i + 1 \in T
    BY <1>7
  <2>2. k \in Nat /\ k \in 1..k
    OBVIOUS
  <2>3. \A i \in 1..k : i \in T
    BY <1>6, <2>1, <2>2, Upwards, Zenon
  <2> QED
    BY <2>2, <2>3
<1>9. k <= m /\ t[1] = u[m + 1 - k] /\ \A j \in 1..k : j # 1 => q[k + 1 - j] = r[m + 1 - j]
  <2>1. k + 1 - k = 1
    OBVIOUS
  <2> QED
    BY <1>5, <1>8, <2>1
<1>10. k = m
  <2>1. CASE k # m
    <3>1. m - k \in 1..m /\ m - k # m /\ (m - k) + 1 = m + 1 - k
      BY <1>9, <2>1
    <3>2. HasDir(u[m - k], r[m - k], Root) /\ u[m - k] \in Dirs
      BY <1>1, <1>2, <1>9, <3>1
    <3> QED
      BY <1>3, <3>2
  <2> QED
    BY <2>1
<1>11. ASSUME NEW i \in 1..k, i # k
       PROVE  q[i] = r[i]
  <2>1. k + 1 - i \in 1..k /\ k + 1 - i # 1 /\ k + 1 - (k + 1 - i) = i /\ m + 1 - (k + 1 - i) = i
    BY <1>10, <1>11
  <2> QED
    BY <1>9, <2>1
<1> QED
  BY <1>10, <1>11

\* No file comes into sight by a step whose new entries are of empty directories.
LEMMA NoNewFile ==
    ASSUME VolumeInv, VolumeInv', NEW p \in Paths, ReadFile(ShortPath(p))' # Absent,
           \A x \in Dirs : \A i \in DOMAIN dir'[x] :
              \/ i \in DOMAIN dir[x] /\ dir'[x][i] = dir[x][i]
              \/ dir'[x][i].kind = "dir" /\ dir'[dir'[x][i].first] = << >>
    PROVE  ReadFile(ShortPath(p)) # Absent
<1>1. PICK d \in Dirs, c \in Clusters, s \in Nat : FileAt(p, d, c, s)'
  BY ReadsToldNext DEF ReadsTell
<1>2. PICK q : q = ShortPath(p)
  OBVIOUS
<1>3. PICK m : m = Short[p[Len(p)]]
  OBVIOUS
<1>4. PICK k \in Nat \ {0} : k = Len(p)
  BY ShortIs
<1>5. LeadsTo(q, k, d)' /\ HasFile(d, m, c, s)'
  BY <1>1, <1>2, <1>3, <1>4 DEF FileAt
<1>6. HasFile(d, m, c, s) /\ dir'[d] # << >>
  <2>1. PICK j \in DOMAIN dir'[d] :
           /\ dir'[d][j].name = m /\ dir'[d][j].kind = "file"
           /\ dir'[d][j].first = c /\ dir'[d][j].size = s
    BY <1>5 DEF HasFile
  <2>2. j \in DOMAIN dir[d] /\ dir'[d][j] = dir[d][j]
    BY <2>1
  <2> QED
    BY <2>1, <2>2 DEF HasFile
<1>7. PICK t \in [1..k -> Dirs] :
         t[1] = Root /\ t[k] = d /\ \A i \in 1..k : i # k => HasDir(t[i], q[i], t[i + 1])'
  BY <1>5 DEF LeadsTo
<1>8. ASSUME NEW i \in 1..k
      PROVE  dir'[t[i]] # << >>
  <2>1. CASE i = k
    BY <1>6, <1>7, <2>1
  <2>2. CASE i # k
    <3>1. PICK j \in DOMAIN dir'[t[i]] : TRUE
      BY <1>7, <2>2 DEF HasDir
    <3> QED
      BY <3>1
  <2> QED
    BY <2>1, <2>2
<1>9. ASSUME NEW i \in 1..k, i # k
      PROVE  HasDir(t[i], q[i], t[i + 1])
  <2>1. PICK j \in DOMAIN dir'[t[i]] :
           /\ dir'[t[i]][j].name = q[i] /\ dir'[t[i]][j].kind = "dir"
           /\ dir'[t[i]][j].first = t[i + 1]
    BY <1>7, <1>9 DEF HasDir
  <2>2. t[i] \in Dirs /\ dir'[t[i + 1]] # << >>
    BY <1>8, <1>9
  <2>3. j \in DOMAIN dir[t[i]] /\ dir'[t[i]][j] = dir[t[i]][j]
    BY <2>1, <2>2
  <2> QED
    BY <2>1, <2>3 DEF HasDir
<1>10. LeadsTo(q, k, d)
  BY <1>7, <1>9 DEF LeadsTo
<1>11. FileAt(p, d, c, s)
  BY <1>2, <1>3, <1>4, <1>6, <1>10 DEF FileAt
<1> QED
  BY <1>11, ReadsToldNow DEF ReadsTell

ShortPaths == {ShortPath(p) : p \in Paths}

LEMMA TreeIs ==
    /\ DOMAIN Tree = {q \in ShortPaths : ReadFile(q) # Absent}
    /\ Tree = [q \in {q \in ShortPaths : ReadFile(q) # Absent} |-> ReadFile(q)]
<1>1. Tree = [q \in {q \in ShortPaths : ReadFile(q) # Absent} |-> ReadFile(q)]
  BY DEF Tree, ShortPaths
<1> QED
  BY <1>1

LEMMA TreeIsNext ==
    /\ DOMAIN Tree' = {q \in ShortPaths : ReadFile(q)' # Absent}
    /\ Tree' = [q \in {q \in ShortPaths : ReadFile(q)' # Absent} |-> ReadFile(q)']
<1>1. Tree' = [q \in {q \in ShortPaths : ReadFile(q)' # Absent} |-> ReadFile(q)']
  BY DEF Tree, ShortPaths, Absent
<1> QED
  BY <1>1

\* A step that keeps what there is and shows no file leaves the tree alone.
LEMMA TreeStays ==
    ASSUME VolumeInv, VolumeInv', Keeps,
           \A x \in Dirs : \A i \in DOMAIN dir'[x] :
              \/ i \in DOMAIN dir[x] /\ dir'[x][i] = dir[x][i]
              \/ dir'[x][i].kind = "dir" /\ dir'[dir'[x][i].first] = << >>
    PROVE  Tree' = Tree
<1>1. ASSUME NEW q \in ShortPaths
      PROVE  ReadFile(q)' = ReadFile(q)
  <2>1. PICK p \in Paths : q = ShortPath(p)
    BY DEF ShortPaths
  <2>2. ReadFile(q) # Absent => ReadFile(q)' = ReadFile(q)
    BY <2>1, ReadStays
  <2>3. ReadFile(q)' # Absent => ReadFile(q) # Absent
    BY <2>1, NoNewFile
  <2> QED
    BY <2>2, <2>3
<1> QED
  BY <1>1, TreeIs, TreeIsNext

LEMMA ReadBackNow == VolumeInv /\ WrittenStored => ReadBackMatches
  BY StoredReads DEF WrittenStored, ReadBackMatches

LEMMA ReadBackNext == VolumeInv' /\ WrittenStored' => ReadBackMatches'
  BY ReadBackNow, PTL

\* The entry adds its file to the tree.
LEMMA PutEntryAdds ==
    ASSUME VolumeInv, PutEntry, FreeSlot(op.in)
    PROVE  op.file \in Paths /\ Files!Add(op.file)
<1>1. /\ op.stage = "entry" /\ UNCHANGED <<fat, chunk>> /\ Inv /\ NamesDiffer /\ VolumeTypeOK
      /\ Found(op.in, NextName) = {} /\ op.at + 1 = Len(op.file)
  BY DEF PutEntry, VolumeInv, WriteInv, Inv
<1>2. VolumeInv' /\ Keeps /\ WrittenStored'
  BY PutEntryVolume
<1>3. PICK p \in Paths : p = op.file
  BY <1>1, AtWrite
<1>4. Goto("written")
  BY DEF PutEntry
<1>5. op'.stage = "written" /\ op'.file = p
  BY <1>1, <1>3, <1>4, GotoType DEF Stages
<1>6. PICK q : q = ShortPath(p)
  OBVIOUS
<1>7. PICK d \in Dirs : d = op.in
  BY <1>1, InvTypes
<1>8. PICK n : n = NextName
  OBVIOUS
<1>9. PICK k \in Nat \ {0} : k = Len(p)
  BY ShortIs
<1>10. /\ LeadsTo(q, k, d) /\ Found(d, n) = {} /\ n = Short[p[k]]
       /\ q = ShortPath(p) /\ Len(q) = k /\ q[k] = n
  BY <1>1, <1>3, <1>6, <1>7, <1>8, <1>9, AtWrite, ShortIs DEF NextName
<1>11. ReadFile(q)' = Content(p)
  BY <1>2, <1>3, <1>5, <1>6, ReadBackNext DEF ReadBackMatches
<1>12. ReadFile(q)' # Absent
  <2>1. PICK x \in Dirs, c \in Clusters :
           LeadsTo(ShortPath(p), Len(p), x)' /\ HasFile(x, Short[p[Len(p)]], c, Size[p])'
    BY <1>2, <1>5 DEF WrittenStored, Stored
  <2>2. FileAt(p, x, c, Size[p])'
    BY <2>1 DEF FileAt
  <2> QED
    BY <1>2, <1>6, <2>2, ShortIs, ReadsToldNext DEF ReadsTell
<1>13. ReadFile(q) = Absent
  <2>1. SUFFICES ASSUME ReadFile(q) # Absent PROVE FALSE
    OBVIOUS
  <2>2. PICK x \in Dirs, c \in Clusters, s \in Nat : FileAt(p, x, c, s)
    BY <1>6, <2>1, ReadsToldNow DEF ReadsTell
  <2>3. LeadsTo(q, k, x) /\ HasFile(x, n, c, s)
    BY <2>2, <1>9, <1>10 DEF FileAt
  <2>4. x = d
    BY <1>1, <1>10, <2>3, DirOfIs
  <2> QED
    BY <1>10, <2>3, <2>4 DEF HasFile, Found
\* Any other file that can be read could be read before.
<1>14. ASSUME NEW p2 \in Paths, ReadFile(ShortPath(p2))' # Absent, ShortPath(p2) # q
       PROVE  ReadFile(ShortPath(p2)) # Absent
  <2>1. PICK e : e = [name |-> n, kind |-> "file", first |-> op.got[1], size |-> Size[p]]
    OBVIOUS
  <2>2. dir' = [dir EXCEPT ![d] = Append(@, e)] /\ e.kind = "file" /\ e.name = n
    BY <1>3, <1>7, <1>8, <2>1 DEF PutEntry
  <2>3. e \in Entry /\ dir \in [Dirs -> Seq(Entry)]
    <3>1. op.got[1] \in Clusters /\ NextName \in Shorts /\ dir \in [Dirs -> Seq(Entry)]
      BY <1>1, InvTypes
    <3> QED
      BY <1>8, <2>1, <3>1, ShortIs DEF Entry
  <2>4. \A x \in Dirs : \A i \in DOMAIN dir'[x] :
           \/ i \in DOMAIN dir[x] /\ dir'[x][i] = dir[x][i]
           \/ x = d /\ dir'[x][i] = e
    BY <2>2, <2>3, EntriesAre
  <2>5. PICK x \in Dirs, c \in Clusters, s \in Nat : FileAt(p2, x, c, s)'
    BY <1>2, <1>14, ReadsToldNext DEF ReadsTell
  <2>6. PICK r : r = ShortPath(p2)
    OBVIOUS
  <2>7. PICK j \in Nat \ {0} : j = Len(p2)
    BY ShortIs
  <2>8. PICK o : o = Short[p2[Len(p2)]]
    OBVIOUS
  <2>9. LeadsTo(r, j, x)' /\ HasFile(x, o, c, s)'
    BY <2>5, <2>6, <2>7, <2>8 DEF FileAt
  <2>10. PICK t \in [1..j -> Dirs] :
            t[1] = Root /\ t[j] = x /\ \A i \in 1..j : i # j => HasDir(t[i], r[i], t[i + 1])'
    BY <2>9 DEF LeadsTo
  <2>11. ASSUME NEW i \in 1..j, i # j
         PROVE  HasDir(t[i], r[i], t[i + 1])
    <3>1. PICK h \in DOMAIN dir'[t[i]] :
             /\ dir'[t[i]][h].name = r[i] /\ dir'[t[i]][h].kind = "dir"
             /\ dir'[t[i]][h].first = t[i + 1]
      BY <2>10, <2>11 DEF HasDir
    <3>2. h \in DOMAIN dir[t[i]] /\ dir'[t[i]][h] = dir[t[i]][h]
      BY <2>2, <2>4, <3>1
    <3> QED
      BY <3>1, <3>2 DEF HasDir
  <2>12. LeadsTo(r, j, x)
    BY <2>10, <2>11 DEF LeadsTo
  <2>13. PICK h \in DOMAIN dir'[x] :
            /\ dir'[x][h].name = o /\ dir'[x][h].kind = "file"
            /\ dir'[x][h].first = c /\ dir'[x][h].size = s
    BY <2>9 DEF HasFile
  <2>14. CASE h \in DOMAIN dir[x] /\ dir'[x][h] = dir[x][h]
    <3>1. HasFile(x, o, c, s)
      BY <2>13, <2>14 DEF HasFile
    <3>2. FileAt(p2, x, c, s)
      BY <2>6, <2>7, <2>8, <2>12, <3>1 DEF FileAt
    <3> QED
      BY <3>2, ReadsToldNow DEF ReadsTell
  <2>15. CASE x = d /\ dir'[x][h] = e
    <3>1. o = n
      BY <2>2, <2>13, <2>15
    <3>2. j = k /\ \A i \in 1..j : i # j => r[i] = q[i]
      BY <1>1, <1>10, <2>12, <2>15, OneWay
    <3>3. r[j] = q[k]
      <4>1. j \in 1..Len(p2)
        BY <2>7
      <4>2. r[j] = Short[p2[j]]
        BY <2>6, <4>1, ShortIs
      <4> QED
        BY <1>10, <2>7, <2>8, <3>1, <4>2
    <3>4. r \in Seq(Shorts) /\ Len(r) = j /\ q \in Seq(Shorts) /\ Len(q) = k
      BY <1>6, <1>9, <2>6, <2>7, ShortIs
    <3>5. r = q
      BY <3>2, <3>3, <3>4
    <3> QED
      BY <1>14, <2>6, <3>5
  <2> QED
    BY <2>4, <2>14, <2>15
<1>15. q \in ShortPaths
  BY <1>6 DEF ShortPaths
<1>16. ASSUME NEW r \in ShortPaths, r # q
       PROVE  ReadFile(r)' = ReadFile(r)
  <2>1. PICK p2 \in Paths : r = ShortPath(p2)
    BY DEF ShortPaths
  <2>2. ReadFile(r) # Absent => ReadFile(r)' = ReadFile(r)
    BY <1>2, <2>1, ReadStays
  <2>3. ReadFile(r)' # Absent => ReadFile(r) # Absent
    BY <1>14, <1>16, <2>1
  <2> QED
    BY <2>2, <2>3
<1>17. q \notin DOMAIN Tree
  BY <1>13, TreeIs
<1>18. {r \in ShortPaths : ReadFile(r)' # Absent} = {r \in ShortPaths : ReadFile(r) # Absent} \cup {q}
  BY <1>12, <1>15, <1>16
<1>19. Tree' = [r \in DOMAIN Tree \cup {q} |-> IF r = q THEN Content(p) ELSE Tree[r]]
  <2>1. DOMAIN Tree' = DOMAIN Tree \cup {q}
    BY <1>18, TreeIs, TreeIsNext
  <2>2. Tree'[q] = Content(p)
    BY <1>11, <1>12, <1>15, TreeIsNext
  <2>3. ASSUME NEW r \in DOMAIN Tree
        PROVE  r # q /\ Tree'[r] = Tree[r]
    BY <1>16, <1>17, <1>18, TreeIs, TreeIsNext
  <2> QED
    BY <2>1, <2>2, <2>3, TreeIsNext
<1>20. Files!Add(p)
  BY <1>6, <1>17, <1>19 DEF Files!Add
<1> QED
  BY <1>3, <1>20

\* PutDir shows an empty directory; the other steps of a write leave the directories.
LEMMA WriteAdds ==
    ASSUME VolumeInv, WriteStep
    PROVE  Tree' = Tree \/ \E p \in Paths : Files!Add(p)
<1>1. VolumeInv' /\ Keeps
  BY WriteVolume
<1>2. CASE PutEntry /\ FreeSlot(op.in)
  BY <1>2, PutEntryAdds
<1>3. CASE UNCHANGED dir
  BY <1>1, <1>3, TreeStays
<1>4. CASE PutDir
  <2>1. PICK c : c = op.got[1]
    OBVIOUS
  <2>2. PICK e : e = [name |-> NextName, kind |-> "dir", first |-> c, size |-> 0]
    OBVIOUS
  <2>3. PICK base : base = [dir EXCEPT ![c] = << >>]
    OBVIOUS
  <2>4. /\ op.stage = "mkdir" /\ c \in Clusters /\ c \in Dirs /\ c # Root /\ ChainHead(c)
        /\ op.in \in Dirs /\ dir \in [Dirs -> Seq(Entry)] /\ NextName \in Shorts
    <3>1. Inv /\ op.stage = "mkdir"
      BY <1>4 DEF VolumeInv, PutDir
    <3> QED
      BY <2>1, <3>1, AtMkdir
  <2>5. e \in Entry /\ e.kind = "dir" /\ e.first = c
    BY <2>2, <2>4 DEF Entry
  <2>6. /\ base \in [Dirs -> Seq(Entry)] /\ base[c] = << >>
        /\ \A x \in Dirs : \A i \in DOMAIN base[x] : i \in DOMAIN dir[x] /\ base[x][i] = dir[x][i]
    BY <2>3, <2>4
  <2>7. op.in # c
    <3>1. PICK d : d = op.in
      OBVIOUS
    <3>2. PICK k \in Nat \ {0} : k = op.at + 1
      BY <2>4, AtWrite
    <3>3. PICK q : q = ShortPath(op.file)
      OBVIOUS
    <3>4. LeadsTo(q, k, d)
      BY <2>4, <3>1, <3>2, <3>3, AtWrite
    <3>5. Known(d)
      BY <1>1, <3>4, LeadsStays
    <3> QED
      BY <2>4, <3>1, <3>5 DEF Known, ChainHead
  <2>8. CASE FreeSlot(op.in)
    <3>1. dir' = [base EXCEPT ![op.in] = Append(@, e)]
      BY <1>4, <2>1, <2>2, <2>3, <2>8 DEF PutDir
    <3>2. dir'[c] = << >>
      BY <2>4, <2>6, <2>7, <3>1
    <3>3. \A x \in Dirs : \A i \in DOMAIN dir'[x] :
             \/ i \in DOMAIN base[x] /\ dir'[x][i] = base[x][i]
             \/ dir'[x][i] = e
      <4>1. base \in [Dirs -> Seq(Entry)] /\ op.in \in Dirs /\ e \in Entry
        BY <2>4, <2>5, <2>6
      <4> QED
        BY <3>1, <4>1, EntriesAre
    <3> QED
      BY <1>1, <2>5, <2>6, <3>2, <3>3, TreeStays
  <2>9. CASE ~FreeSlot(op.in)
    <3>1. dir' = base
      BY <1>4, <2>1, <2>3, <2>9 DEF PutDir
    <3> QED
      BY <1>1, <2>6, <3>1, TreeStays
  <2> QED
    BY <2>8, <2>9
<1> QED
  BY <1>2, <1>3, <1>4 DEF WriteStep, Walk, AllocDir, CheckName, Alloc, WriteData, PutEntry

LEMMA BlankTree ==
    ASSUME VolumeInv, dir = [d \in Dirs |-> << >>]
    PROVE  Tree = << >>
<1>1. ASSUME NEW q \in ShortPaths
      PROVE  ReadFile(q) = Absent
  <2>1. PICK p \in Paths : q = ShortPath(p)
    BY DEF ShortPaths
  <2>2. \A d \in Dirs, c \in Clusters, s \in Nat : ~FileAt(p, d, c, s)
    BY DEF FileAt, HasFile
  <2> QED
    BY <2>1, <2>2, ReadsToldNow DEF ReadsTell
<1>2. {q \in ShortPaths : ReadFile(q) # Absent} = {}
  BY <1>1
<1>3. Tree = [q \in {} |-> ReadFile(q)]
  BY <1>2, TreeIs
<1> QED
  BY <1>3

LEMMA BlankTreeNow == VolumeInv /\ dir = [d \in Dirs |-> << >>] => Tree = << >>
  BY BlankTree

LEMMA BlankTreeNext == VolumeInv' /\ (dir = [d \in Dirs |-> << >>])' => (Tree = << >>)'
  BY BlankTreeNow, PTL

LEMMA TreeStep ==
    VolumeInv /\ WrittenStored /\ [VolumeNext]_volVars => [Files!Next]_Tree
<1> SUFFICES ASSUME VolumeInv, WrittenStored, [VolumeNext]_volVars PROVE [Files!Next]_Tree
  OBVIOUS
<1>1. VolumeInv' /\ (Renew \/ Keeps)
  BY VolumeStep
<1>2. CASE Renew
  <2>1. Tree' = << >>
    BY <1>1, <1>2, BlankTreeNext DEF Renew, Format
  <2> QED
    BY <2>1 DEF Files!Next, Files!Clear
<1>3. CASE WriteStep
  BY <1>3, WriteAdds DEF Files!Next
<1>4. CASE ~Renew /\ ~WriteStep
  <2>1. UNCHANGED dir
    BY <1>4 DEF VolumeNext, volVars, DropWrite, EndWrite, StartWrite
  <2> QED
    BY <1>1, <1>4, <2>1, TreeStays
<1> QED
  BY <1>2, <1>3, <1>4

\* On a volume of any size a file appears at once and whole, under a name that was
\* free, and stays as it is until the image goes, wherever a write fails or is cut off.
THEOREM VolumeImplementsTree == VolumeSpec => VolumeIsTree
<1>1. VolumeInit => Files!Init
  BY BlankVolumeInv, BlankTree DEF VolumeInit, BlankVolume, Files!Init
<1> QED
  BY <1>1, VolumeInvAlways, TreeStep, PTL DEF VolumeSpec, VolumeIsTree, Files!Spec

------------------------------------------------------------------------------
(* Drives: the flags and the launches *)

Late == {"ready", "dispatched", "conf", "running"}
\* Where a launch has the event loop.
AtLoop == {"resolved", "drive", "unlinked", "sized", "copying", "ready"}

ControlType ==
    /\ installed \in BOOLEAN /\ requires \in BOOLEAN
    /\ patched \in BOOLEAN /\ again \in BOOLEAN /\ saved \in BOOLEAN
    /\ bundle \in BOOLEAN /\ row \in BOOLEAN
    /\ image \in {"none", "fat", "made"}
    /\ folder \in FileSets
    /\ copied \subseteq folder
    /\ busy \in Launches \cup {NoLaunch}
    /\ launch \in [Launches -> Launch]
    /\ deleting \in {"idle", "read", "unlinked"}
    /\ removing \in {"idle", "read", "unlinked", "dropped"}

LoopInv ==
    /\ \A l \in Launches : launch[l].pc \in AtLoop <=> busy = l
    /\ op.stage # "idle" \/ copied # {} => \E l \in Launches : At(l, "copying")
    /\ op.stage # "idle" => op.file \in folder
    /\ OpenForWrite => image = "fat"

FlagsInv ==
    /\ requires => image # "fat"
    /\ \A l \in Launches :
          launch[l].pc \in {"unlinked", "sized", "copying"} => NeedsHydration(l)
    /\ ~patched => \A l \in Launches :
          /\ launch[l].pc \in AtLoop \ {"ready"} => launch[l].installed = installed
          /\ launch[l].pc \in Late => installed \/ requires

SavesInv ==
    /\ saved => image # "none" /\ (installed \/ requires \/ again)
    /\ \A l \in Launches :
          /\ launch[l].pc = "running" => image # "none"
          /\ launch[l].pc \in Late => installed \/ requires \/ again
          /\ launch[l].pc \in {"resolved", "drive"} =>
                /\ launch[l].installed => installed \/ again
                /\ NeedsHydration(l) /\ saved => again
                /\ NeedsHydration(l) => \A m \in Launches : launch[m].pc \in Late => again

ControlInv == ControlType /\ LoopInv /\ FlagsInv /\ SavesInv

LEMMA Apart == NoLaunch \notin Launches
  BY DrivesAssumption DEF NoLaunch

\* One launch moves to another place.
LEMMA GoIs ==
    ASSUME launch \in [Launches -> Launch], NEW l \in Launches, NEW pc \in Pcs, Go(l, pc)
    PROVE  /\ launch' \in [Launches -> Launch]
           /\ launch'[l].pc = pc /\ launch'[l].installed = launch[l].installed
           /\ \A m \in Launches : m # l => launch'[m] = launch[m]
  BY DEF Go, Launch

LEMMA FailIs ==
    ASSUME launch \in [Launches -> Launch], NEW l \in Launches,
           launch' = [launch EXCEPT ![l] = NotLaunched]
    PROVE  /\ launch' \in [Launches -> Launch]
           /\ launch'[l].pc = "idle"
           /\ \A m \in Launches : m # l => launch'[m] = launch[m]
  BY DEF NotLaunched, Launch, Pcs

\* Routes that change rows only.
LEMMA RowsControl ==
    ASSUME ControlInv, bundle' \in BOOLEAN, row' \in BOOLEAN,
           UNCHANGED <<installed, requires, disk, op, copied, busy, launch, history>>,
           deleting' \in {"idle", "read", "unlinked"},
           removing' \in {"idle", "read", "unlinked", "dropped"}
    PROVE  ControlInv'
<1>1. ControlType'
  BY DEF ControlInv, ControlType, disk, history
<1>2. LoopInv'
  BY DEF ControlInv, LoopInv, At, OpenForWrite, disk
<1>3. FlagsInv'
  BY DEF ControlInv, FlagsInv, NeedsHydration, disk, history
<1>4. SavesInv'
  BY DEF ControlInv, SavesInv, NeedsHydration, disk, history
<1> QED
  BY <1>1, <1>2, <1>3, <1>4 DEF ControlInv

\* A deletion unlinks the image: no emulator has it mounted and nobody writes to it.
LEMMA UnlinkControl ==
    ASSUME ControlInv, image = "none" \/ CanUnlink, Unlink,
           UNCHANGED <<rows, op, copied, busy, launch, history>>,
           deleting' \in {"idle", "read", "unlinked"},
           removing' \in {"idle", "read", "unlinked", "dropped"}
    PROVE  ControlInv'
<1>1. image' = "none" /\ saved' = FALSE /\ folder' = folder
  BY DEF Unlink
<1>2. ~OpenForWrite /\ \A l \in Launches : launch[l].pc # "running"
  BY DEF CanUnlink, Mounted, ControlInv, LoopInv, SavesInv
<1>3. ControlType'
  BY <1>1 DEF ControlInv, ControlType, rows, history
<1>4. LoopInv'
  BY <1>1, <1>2 DEF ControlInv, LoopInv, At, OpenForWrite
<1>5. FlagsInv'
  BY <1>1 DEF ControlInv, FlagsInv, NeedsHydration, rows, history
<1>6. SavesInv'
  BY <1>1, <1>2 DEF ControlInv, SavesInv, NeedsHydration, rows, history
<1> QED
  BY <1>3, <1>4, <1>5, <1>6 DEF ControlInv

LEMMA PatchInstalledControl ==
    ASSUME ControlInv, PatchInstalled
    PROVE  ControlInv'
<1>1. /\ installed' = ~installed /\ patched' = TRUE /\ again' = (again \/ installed)
      /\ UNCHANGED <<bundle, requires, row, disk, op, copied, busy, launch, threads>>
  BY DEF PatchInstalled
<1>2. ControlType'
  BY <1>1 DEF ControlInv, ControlType, disk, threads
<1>3. LoopInv'
  BY <1>1 DEF ControlInv, LoopInv, At, OpenForWrite, disk
<1>4. FlagsInv'
  BY <1>1 DEF ControlInv, FlagsInv, NeedsHydration, disk
<1>5. SavesInv'
  BY <1>1 DEF ControlInv, ControlType, SavesInv, NeedsHydration, disk
<1> QED
  BY <1>2, <1>3, <1>4, <1>5 DEF ControlInv

LEMMA FormatImageControl ==
    ASSUME ControlInv, NEW l \in Launches, FormatImage(l), ~Fail(l)
    PROVE  ControlInv'
<1>1. /\ busy = l /\ launch[l].pc = "sized" /\ Go(l, "copying") /\ image' = "fat"
      /\ UNCHANGED <<op, copied, busy, rows, saved, folder, threads, history>>
  BY DEF FormatImage, At
<1>2. /\ launch' \in [Launches -> Launch]
      /\ launch'[l].pc = "copying" /\ launch'[l].installed = launch[l].installed
      /\ \A m \in Launches : m # l => launch'[m] = launch[m]
  BY <1>1, GoIs DEF ControlInv, ControlType, Pcs
<1>3. ControlType'
  BY <1>1, <1>2 DEF ControlInv, ControlType, rows, threads, history
<1>4. LoopInv'
  BY <1>1, <1>2 DEF ControlInv, LoopInv, At, OpenForWrite, AtLoop
<1>5. FlagsInv'
  BY <1>1, <1>2 DEF ControlInv, FlagsInv, NeedsHydration, rows, history, AtLoop, Late
<1>6. SavesInv'
  BY <1>1, <1>2 DEF ControlInv, SavesInv, NeedsHydration, rows, history, Late
<1> QED
  BY <1>3, <1>4, <1>5, <1>6 DEF ControlInv

LEMMA CopyFileControl ==
    ASSUME ControlInv, NEW l \in Launches, NEW p \in Paths, CopyFile(l, p), ~Fail(l)
    PROVE  ControlInv'
<1>1. /\ busy = l /\ launch[l].pc = "copying" /\ p \in folder /\ image = "fat"
      /\ op'.file = p
      /\ UNCHANGED <<copied, busy, launch, rows, image, saved, folder, threads, history>>
  BY DEF CopyFile, At, StartWrite
<1>2. ControlType'
  BY <1>1 DEF ControlInv, ControlType, rows, threads, history
<1>3. LoopInv'
  BY <1>1 DEF ControlInv, LoopInv, At, OpenForWrite
<1>4. FlagsInv'
  BY <1>1 DEF ControlInv, FlagsInv, NeedsHydration, rows, history
<1>5. SavesInv'
  BY <1>1 DEF ControlInv, SavesInv, NeedsHydration, rows, history
<1> QED
  BY <1>2, <1>3, <1>4, <1>5 DEF ControlInv

\* The emulator runs with an image: one it was told to make, or one that is there.
LEMMA MountControl ==
    ASSUME ControlInv, NEW l \in Launches, Mount(l)
    PROVE  ControlInv'
<1>1. /\ launch[l].pc = "conf"
      /\ UNCHANGED <<rows, saved, folder, op, copied, busy, threads, history>>
  BY DEF Mount
<1>2. PICK pc \in {"idle", "running"} : Go(l, pc) /\ (pc = "running" => image' # "none")
  BY DEF Mount
<1>3. /\ image' \in {"none", "fat", "made"} /\ (image # "none" => image' = image)
      /\ image' = "fat" => image = "fat"
  BY DEF Mount, ControlInv, ControlType
<1>4. /\ launch' \in [Launches -> Launch] /\ launch'[l].pc = pc
      /\ \A m \in Launches : m # l => launch'[m] = launch[m]
  BY <1>2, GoIs DEF ControlInv, ControlType, Pcs
<1>5. ControlType'
  BY <1>1, <1>3, <1>4 DEF ControlInv, ControlType, rows, threads, history
<1>6. LoopInv'
  BY <1>1, <1>2, <1>3, <1>4 DEF ControlInv, LoopInv, At, OpenForWrite, AtLoop
<1>7. FlagsInv'
  BY <1>1, <1>2, <1>3, <1>4 DEF ControlInv, FlagsInv, NeedsHydration, rows, history, AtLoop,
                                Late
<1>8. SavesInv'
  BY <1>1, <1>2, <1>3, <1>4 DEF ControlInv, SavesInv, NeedsHydration, rows, history, Late
<1> QED
  BY <1>5, <1>6, <1>7, <1>8 DEF ControlInv

LEMMA SaveControl ==
    ASSUME ControlInv, NEW l \in Launches, Save(l)
    PROVE  ControlInv'
<1>1. /\ launch[l].pc = "running" /\ saved' = TRUE
      /\ UNCHANGED <<rows, image, folder, op, copied, busy, launch, threads, history>>
  BY DEF Save
<1>2. ControlType'
  BY <1>1 DEF ControlInv, ControlType, rows, threads, history
<1>3. LoopInv'
  BY <1>1 DEF ControlInv, LoopInv, At, OpenForWrite
<1>4. FlagsInv'
  BY <1>1 DEF ControlInv, FlagsInv, NeedsHydration, rows, history
<1>5. SavesInv'
  BY <1>1 DEF ControlInv, SavesInv, NeedsHydration, rows, history, Late
<1> QED
  BY <1>2, <1>3, <1>4, <1>5 DEF ControlInv

\* A request that ends without its launch.
LEMMA FailControl ==
    ASSUME ControlInv, NEW l \in Launches, busy = l, Fail(l),
           UNCHANGED <<rows, image, saved, folder, threads, history>>
    PROVE  ControlInv'
<1>1. /\ launch' \in [Launches -> Launch] /\ launch'[l].pc = "idle"
      /\ \A m \in Launches : m # l => launch'[m] = launch[m]
  BY FailIs DEF ControlInv, ControlType, Fail
<1>2. op'.stage = "idle" /\ copied' = {} /\ busy' = NoLaunch
  BY DEF Fail, NoOp
<1>3. ControlType'
  BY <1>1, <1>2 DEF ControlInv, ControlType, rows, threads, history
<1>4. LoopInv'
  BY <1>1, <1>2, Apart DEF ControlInv, LoopInv, OpenForWrite, AtLoop
<1>5. FlagsInv'
  BY <1>1 DEF ControlInv, FlagsInv, NeedsHydration, rows, history, AtLoop, Late
<1>6. SavesInv'
  BY <1>1 DEF ControlInv, SavesInv, NeedsHydration, rows, history, Late
<1> QED
  BY <1>3, <1>4, <1>5, <1>6 DEF ControlInv

LEMMA ExitControl ==
    ASSUME ControlInv, NEW l \in Launches, Exit(l)
    PROVE  ControlInv'
<1>1. /\ launch' \in [Launches -> Launch] /\ launch'[l].pc = "idle"
      /\ \A m \in Launches : m # l => launch'[m] = launch[m]
  BY FailIs DEF ControlInv, ControlType, Exit
<1>2. launch[l].pc \notin AtLoop
  BY DEF Exit, AtLoop
<1>3. ControlType'
  BY <1>1 DEF ControlInv, ControlType, Exit, rows, disk, threads, history
<1>4. LoopInv'
  BY <1>1, <1>2 DEF ControlInv, LoopInv, Exit, disk, OpenForWrite, At, AtLoop
<1>5. FlagsInv'
  BY <1>1 DEF ControlInv, FlagsInv, Exit, NeedsHydration, rows, disk, history, AtLoop, Late
<1>6. SavesInv'
  BY <1>1 DEF ControlInv, SavesInv, Exit, NeedsHydration, rows, disk, history, Late
<1> QED
  BY <1>3, <1>4, <1>5, <1>6 DEF ControlInv

LEMMA CrashControl ==
    ASSUME ControlInv, Crash
    PROVE  ControlInv'
<1>1. /\ launch' \in [Launches -> Launch]
      /\ \A m \in Launches : launch'[m].pc = "idle"
  BY DEF Crash, NotLaunched, Launch, Pcs
<1>2. op'.stage = "idle" /\ copied' = {} /\ busy' = NoLaunch
  BY DEF Crash, NoOp
<1>3. ControlType'
  BY <1>1, <1>2 DEF ControlInv, ControlType, Crash, rows, disk, history
<1>4. LoopInv'
  BY <1>1, <1>2, Apart DEF LoopInv, OpenForWrite, AtLoop
<1>5. FlagsInv'
  BY <1>1 DEF ControlInv, FlagsInv, Crash, rows, disk, history, AtLoop, Late
<1>6. SavesInv'
  BY <1>1 DEF ControlInv, SavesInv, Crash, rows, disk, history, Late
<1> QED
  BY <1>3, <1>4, <1>5, <1>6 DEF ControlInv

\* A step of the writing keeps to its file, and needs an image that is the volume.
LEMMA WriteFileControl ==
    ASSUME VolumeInv, ControlInv, NEW l \in Launches, WriteFile(l)
    PROVE  ControlInv'
<1>1. op \in OpType /\ WriteStep
  BY InvTypes DEF VolumeInv, WriteFile
<1>2. op'.file = op.file /\ op.stage # "idle" /\ OpenForWrite
  <2>1. OpenForWrite
    BY <1>1 DEF WriteStep, Walk, AllocDir, PutDir, CheckName, Alloc, WriteData, PutEntry,
                OpenForWrite
  <2>2. op'.file = op.file
    BY <1>1 DEF WriteStep, Walk, AllocDir, PutDir, CheckName, Alloc, WriteData, PutEntry,
                Goto, OpType
  <2> QED
    BY <2>1, <2>2 DEF OpenForWrite
<1>3. ControlType'
  BY DEF ControlInv, ControlType, WriteFile, rows, threads, history
<1>4. LoopInv'
  BY <1>2 DEF ControlInv, LoopInv, WriteFile, At, OpenForWrite
<1>5. FlagsInv'
  BY DEF ControlInv, FlagsInv, WriteFile, NeedsHydration, rows, history
<1>6. SavesInv'
  BY DEF ControlInv, SavesInv, WriteFile, NeedsHydration, rows, history
<1> QED
  BY <1>3, <1>4, <1>5, <1>6 DEF ControlInv

LEMMA CompareControl ==
    ASSUME ControlInv, NEW l \in Launches, Compare(l), ~Fail(l)
    PROVE  ControlInv'
<1>1. /\ busy = l /\ launch[l].pc = "copying" /\ op.stage = "written"
      /\ copied' = copied \cup {op.file} /\ op' = NoOp
      /\ UNCHANGED <<busy, launch, rows, disk, threads, history>>
  BY DEF Compare, At
<1>2. ControlType'
  BY <1>1 DEF ControlInv, ControlType, LoopInv, rows, disk, threads, history
<1>3. LoopInv'
  BY <1>1 DEF ControlInv, LoopInv, At, OpenForWrite, NoOp, disk
<1>4. FlagsInv'
  BY <1>1 DEF ControlInv, FlagsInv, NeedsHydration, rows, disk, history
<1>5. SavesInv'
  BY <1>1 DEF ControlInv, SavesInv, NeedsHydration, rows, disk, history
<1> QED
  BY <1>2, <1>3, <1>4, <1>5 DEF ControlInv

\* The launch that ends the copy is the only one that has the event loop.
LEMMA MarkInstalledControl ==
    ASSUME ControlInv, NEW l \in Launches, MarkInstalled(l), ~Fail(l)
    PROVE  ControlInv'
<1>1. /\ busy = l /\ launch[l].pc = "copying" /\ op.stage = "idle"
      /\ installed' = TRUE /\ again' = FALSE /\ copied' = {}
      /\ UNCHANGED <<op, busy, bundle, requires, row, image, saved, folder, threads, patched>>
  BY DEF MarkInstalled, At, disk
<1>2. /\ launch' \in [Launches -> Launch] /\ launch'[l].pc = "ready"
      /\ \A m \in Launches : m # l => launch'[m] = launch[m]
  <2>1. launch \in [Launches -> Launch]
    BY DEF ControlInv, ControlType
  <2>2. launch' = [launch EXCEPT ![l].pc = "ready", ![l].expired = TRUE]
    BY DEF MarkInstalled
  <2> QED
    BY <2>1, <2>2 DEF Launch, Pcs
<1>3. \A m \in Launches : m # l => launch'[m].pc \notin AtLoop
  BY <1>1, <1>2 DEF ControlInv, LoopInv
<1>4. ControlType'
  BY <1>1, <1>2 DEF ControlInv, ControlType, threads
<1>5. LoopInv'
  BY <1>1, <1>2, <1>3 DEF ControlInv, LoopInv, OpenForWrite, AtLoop
<1>6. FlagsInv'
  BY <1>1, <1>2, <1>3 DEF ControlInv, FlagsInv, AtLoop
<1>7. SavesInv'
  BY <1>1, <1>2, <1>3 DEF ControlInv, SavesInv, AtLoop
<1> QED
  BY <1>4, <1>5, <1>6, <1>7 DEF ControlInv

LEMMA DispatchControl ==
    ASSUME ControlInv, NEW l \in Launches, Dispatch(l), ~Fail(l)
    PROVE  ControlInv'
<1>1. /\ busy = l /\ launch[l].pc = "ready" /\ busy' = NoLaunch /\ Go(l, "dispatched")
      /\ UNCHANGED <<op, copied, rows, disk, threads, history>>
  BY DEF Dispatch, At
<1>2. /\ launch' \in [Launches -> Launch] /\ launch'[l].pc = "dispatched"
      /\ \A m \in Launches : m # l => launch'[m] = launch[m]
  BY <1>1, GoIs DEF ControlInv, ControlType, Pcs
<1>3. op.stage = "idle" /\ copied = {}
  BY <1>1 DEF ControlInv, LoopInv, At
<1>4. ControlType'
  BY <1>1, <1>2 DEF ControlInv, ControlType, rows, disk, threads, history
<1>5. LoopInv'
  BY <1>1, <1>2, <1>3, Apart DEF ControlInv, LoopInv, OpenForWrite, AtLoop
<1>6. FlagsInv'
  BY <1>1, <1>2 DEF ControlInv, FlagsInv, NeedsHydration, rows, disk, history, AtLoop, Late
<1>7. SavesInv'
  BY <1>1, <1>2 DEF ControlInv, SavesInv, NeedsHydration, rows, disk, history, Late
<1> QED
  BY <1>4, <1>5, <1>6, <1>7 DEF ControlInv

LEMMA ResolveControl ==
    ASSUME ControlInv, NEW l \in Launches, Resolve(l)
    PROVE  ControlInv'
<1>1. /\ busy = NoLaunch /\ busy' = l /\ launch[l].pc = "idle"
      /\ UNCHANGED <<rows, disk, op, copied, threads, history>>
  BY DEF Resolve
<1>2. /\ launch' \in [Launches -> Launch]
      /\ launch'[l].pc = "resolved" /\ launch'[l].installed = installed
      /\ \A m \in Launches : m # l => launch'[m] = launch[m]
  <2>1. launch \in [Launches -> Launch] /\ installed \in BOOLEAN /\ row \in BOOLEAN
    BY DEF ControlInv, ControlType
  <2>2. launch' = [launch EXCEPT ![l] = [NotLaunched EXCEPT
                      !.pc = "resolved", !.installed = installed, !.drive = row]]
    BY DEF Resolve
  <2>3. PICK i \in BOOLEAN, d \in BOOLEAN : i = installed /\ d = row
    BY <2>1
  <2>4. NotLaunched \in Launch
    BY DEF NotLaunched, Launch, Pcs
  <2>5. launch' = [launch EXCEPT ![l] = [NotLaunched EXCEPT
                      !.pc = "resolved", !.installed = i, !.drive = d]]
    BY <2>2, <2>3
  <2> QED
    BY <2>1, <2>3, <2>4, <2>5 DEF Launch, Pcs
<1>3. op.stage = "idle" /\ copied = {}
  BY <1>1, Apart DEF ControlInv, LoopInv, At
<1>4. ControlType'
  BY <1>1, <1>2 DEF ControlInv, ControlType, rows, disk, threads, history
<1>5. LoopInv'
  BY <1>1, <1>2, <1>3, Apart DEF ControlInv, LoopInv, OpenForWrite, AtLoop
<1>6. FlagsInv'
  BY <1>1, <1>2 DEF ControlInv, FlagsInv, NeedsHydration, rows, disk, history, AtLoop, Late
<1>7. SavesInv'
  BY <1>1, <1>2 DEF ControlInv, SavesInv, NeedsHydration, rows, disk, history, Late
<1> QED
  BY <1>4, <1>5, <1>6, <1>7 DEF ControlInv

LEMMA EnsureDriveControl ==
    ASSUME ControlInv, NEW l \in Launches, EnsureDrive(l), ~Fail(l)
    PROVE  ControlInv'
<1>1. /\ busy = l /\ launch[l].pc = "resolved" /\ Go(l, "drive") /\ row' \in BOOLEAN
      /\ UNCHANGED <<op, copied, busy, bundle, installed, requires, disk, threads, history>>
  BY DEF EnsureDrive, At, ControlInv, ControlType
<1>2. /\ launch' \in [Launches -> Launch]
      /\ launch'[l].pc = "drive" /\ launch'[l].installed = launch[l].installed
      /\ \A m \in Launches : m # l => launch'[m] = launch[m]
  BY <1>1, GoIs DEF ControlInv, ControlType, Pcs
<1>3. ControlType'
  BY <1>1, <1>2 DEF ControlInv, ControlType, disk, threads, history
<1>4. LoopInv'
  BY <1>1, <1>2 DEF ControlInv, LoopInv, disk, At, OpenForWrite, AtLoop
<1>5. FlagsInv'
  BY <1>1, <1>2 DEF ControlInv, FlagsInv, NeedsHydration, disk, history, AtLoop, Late
<1>6. SavesInv'
  BY <1>1, <1>2 DEF ControlInv, SavesInv, NeedsHydration, disk, history, Late
<1> QED
  BY <1>3, <1>4, <1>5, <1>6 DEF ControlInv

\* A launch that copies nothing found the files copied, or no files to be copied.
LEMMA SkipCopyControl ==
    ASSUME ControlInv, NEW l \in Launches, SkipCopy(l)
    PROVE  ControlInv'
<1>1. /\ busy = l /\ launch[l].pc = "drive" /\ ~NeedsHydration(l) /\ Go(l, "ready")
      /\ UNCHANGED <<rows, disk, op, copied, busy, threads, history>>
  BY DEF SkipCopy, At
<1>2. /\ launch' \in [Launches -> Launch]
      /\ launch'[l].pc = "ready" /\ launch'[l].installed = launch[l].installed
      /\ \A m \in Launches : m # l => launch'[m] = launch[m]
  BY <1>1, GoIs DEF ControlInv, ControlType, Pcs
<1>3. \A m \in Launches : m # l => launch'[m].pc \notin AtLoop
  BY <1>1, <1>2 DEF ControlInv, LoopInv
<1>4. installed \/ requires \/ again
  BY <1>1 DEF ControlInv, SavesInv, NeedsHydration
<1>5. ControlType'
  BY <1>1, <1>2 DEF ControlInv, ControlType, rows, disk, threads, history
<1>6. LoopInv'
  BY <1>1, <1>2 DEF ControlInv, LoopInv, disk, At, OpenForWrite, AtLoop
<1>7. FlagsInv'
  BY <1>1, <1>2 DEF ControlInv, FlagsInv, NeedsHydration, rows, disk, history, AtLoop, Late
<1>8. SavesInv'
  BY <1>1, <1>2, <1>3, <1>4 DEF ControlInv, SavesInv, rows, disk, history, AtLoop, Late
<1> QED
  BY <1>5, <1>6, <1>7, <1>8 DEF ControlInv

\* With no emulator at it the image goes; if it held changes, the user has asked for it.
LEMMA UnlinkImageControl ==
    ASSUME ControlInv, NEW l \in Launches, UnlinkImage(l), ~Fail(l)
    PROVE  ControlInv'
<1>1. /\ busy = l /\ launch[l].pc = "drive" /\ NeedsHydration(l) /\ Go(l, "unlinked")
      /\ image' = "none" /\ saved' = FALSE
      /\ UNCHANGED <<folder, op, copied, busy, rows, threads, history>>
  BY DEF UnlinkImage, At, Unlink
<1>2. /\ launch' \in [Launches -> Launch]
      /\ launch'[l].pc = "unlinked" /\ launch'[l].installed = launch[l].installed
      /\ \A m \in Launches : m # l => launch'[m] = launch[m]
  BY <1>1, GoIs DEF ControlInv, ControlType, Pcs
<1>3. op.stage = "idle" /\ copied = {}
  BY <1>1 DEF ControlInv, LoopInv, At
<1>4. \A m \in Launches : launch[m].pc # "running"
  BY <1>1 DEF UnlinkImage, CanUnlink, Mounted, ControlInv, SavesInv
<1>5. ControlType'
  BY <1>1, <1>2 DEF ControlInv, ControlType, rows, threads, history
<1>6. LoopInv'
  BY <1>1, <1>2, <1>3 DEF ControlInv, LoopInv, OpenForWrite, AtLoop
<1>7. FlagsInv'
  BY <1>1, <1>2 DEF ControlInv, FlagsInv, NeedsHydration, rows, history, AtLoop, Late
<1>8. SavesInv'
  BY <1>1, <1>2, <1>4 DEF ControlInv, SavesInv, NeedsHydration, rows, history, Late
<1> QED
  BY <1>5, <1>6, <1>7, <1>8 DEF ControlInv

LEMMA SetSizeControl ==
    ASSUME ControlInv, NEW l \in Launches, SetSize(l), ~Fail(l)
    PROVE  ControlInv'
<1>1. /\ busy = l /\ launch[l].pc = "unlinked"
      /\ UNCHANGED <<op, copied, busy, rows, disk, threads, history>>
  BY DEF SetSize, At
<1>2. /\ launch' \in [Launches -> Launch]
      /\ launch'[l].pc = "sized" /\ launch'[l].installed = launch[l].installed
      /\ \A m \in Launches : m # l => launch'[m] = launch[m]
  <2>1. launch \in [Launches -> Launch]
    BY DEF ControlInv, ControlType
  <2>2. CASE Go(l, "sized")
    BY <2>1, <2>2, GoIs DEF Pcs
  <2>3. CASE launch' = [launch EXCEPT ![l].pc = "sized", ![l].expired = TRUE]
    BY <2>1, <2>3 DEF Launch, Pcs
  <2> QED
    BY <2>2, <2>3 DEF SetSize
<1>3. ControlType'
  BY <1>1, <1>2 DEF ControlInv, ControlType, rows, disk, threads, history
<1>4. LoopInv'
  BY <1>1, <1>2 DEF ControlInv, LoopInv, disk, At, OpenForWrite, AtLoop
<1>5. FlagsInv'
  BY <1>1, <1>2 DEF ControlInv, FlagsInv, NeedsHydration, rows, disk, history, AtLoop, Late
<1>6. SavesInv'
  BY <1>1, <1>2 DEF ControlInv, SavesInv, NeedsHydration, rows, disk, history, Late
<1> QED
  BY <1>3, <1>4, <1>5, <1>6 DEF ControlInv

LEMMA WriteConfControl ==
    ASSUME ControlInv, NEW l \in Launches, WriteConf(l)
    PROVE  ControlInv'
<1>1. /\ launch[l].pc = "dispatched"
      /\ UNCHANGED <<op, copied, busy, rows, disk, threads, history>>
  BY DEF WriteConf
<1>2. /\ launch' \in [Launches -> Launch]
      /\ launch'[l].pc = "conf" /\ launch'[l].installed = launch[l].installed
      /\ \A m \in Launches : m # l => launch'[m] = launch[m]
  <2>1. launch \in [Launches -> Launch]
    BY DEF ControlInv, ControlType
  <2>2. PICK b \in BOOLEAN : b = (image = "none")
    OBVIOUS
  <2>3. launch' = [launch EXCEPT ![l].pc = "conf", ![l].make = b]
    BY <2>2 DEF WriteConf
  <2> QED
    BY <2>1, <2>3 DEF Launch, Pcs
<1>3. ControlType'
  BY <1>1, <1>2 DEF ControlInv, ControlType, rows, disk, threads, history
<1>4. LoopInv'
  BY <1>1, <1>2 DEF ControlInv, LoopInv, disk, At, OpenForWrite, AtLoop
<1>5. FlagsInv'
  BY <1>1, <1>2 DEF ControlInv, FlagsInv, NeedsHydration, rows, disk, history, AtLoop, Late
<1>6. SavesInv'
  BY <1>1, <1>2 DEF ControlInv, SavesInv, NeedsHydration, rows, disk, history, Late
<1> QED
  BY <1>3, <1>4, <1>5, <1>6 DEF ControlInv

------------------------------------------------------------------------------
(* Drives: what the image holds *)

\* As long as the image is the volume, what has been copied is on it; and once the
\* bundle is marked as installed, but by hand, all that the folder holds.
StoredInv ==
    image = "fat" =>
        /\ \A p \in copied : Stored(p)
        /\ WrittenStored
        /\ ~patched /\ installed => \A p \in folder : Stored(p)

DriveInv == VolumeInv /\ ControlInv /\ StoredInv

LEMMA FolderIs ==
    ASSUME DriveInv
    PROVE  folder \subseteq Paths /\ copied \subseteq Paths
  BY DrivesAssumption DEF DriveInv, ControlInv, ControlType

\* A step that loses nothing and copies nothing.
LEMMA StoredKept ==
    ASSUME DriveInv, Keeps, folder' = folder, copied' \subseteq copied,
           image' = "fat" => image = "fat" /\ WrittenStored',
           ~patched' /\ installed' => ~patched /\ installed
    PROVE  StoredInv'
<1>1. Inv /\ FilesWhole
  BY DEF DriveInv, VolumeInv
<1>2. \A p \in Paths : Stored(p) => Stored(p)'
  BY <1>1, StoredStays
<1>3. image = "fat" => /\ \A p \in copied : Stored(p)
                       /\ ~patched /\ installed => \A p \in folder : Stored(p)
  BY DEF DriveInv, StoredInv
<1> QED
  BY <1>2, <1>3, FolderIs DEF StoredInv

\* Steps that leave the disk alone.
LEMMA QuietStored ==
    ASSUME DriveInv, UNCHANGED <<disk, op, copied>>,
           ~patched' /\ installed' => ~patched /\ installed
    PROVE  VolumeInv' /\ StoredInv'
<1>1. UNCHANGED volVars /\ folder' = folder /\ image' = image /\ copied' = copied
  BY DEF disk, volVars
<1>2. VolumeInv' /\ Keeps /\ (WrittenStored => WrittenStored')
  BY <1>1, SameVolume DEF DriveInv
<1>3. image = "fat" => WrittenStored
  BY DEF DriveInv, StoredInv
<1> QED
  BY <1>1, <1>2, <1>3, StoredKept

LEMMA FailStored ==
    ASSUME DriveInv, NEW l \in Launches, Fail(l),
           UNCHANGED <<image, folder, fat, dir, chunk, installed, patched>>
    PROVE  VolumeInv' /\ StoredInv'
<1>1. op' = NoOp /\ copied' = {}
  BY DEF Fail
<1>2. VolumeInv' /\ Keeps
  BY <1>1, IdleVolume DEF DriveInv
<1>3. WrittenStored'
  BY <1>1 DEF WrittenStored, NoOp
<1> QED
  BY <1>1, <1>2, <1>3, StoredKept

\* The image is unlinked while nobody writes to it.
LEMMA UnlinkStored ==
    ASSUME DriveInv, image = "none" \/ CanUnlink, Unlink, UNCHANGED op
    PROVE  VolumeInv' /\ StoredInv'
<1>1. ~OpenForWrite
  BY DEF CanUnlink, DriveInv, ControlInv, LoopInv
<1>2. op' \in OpType /\ op'.stage \in {"idle", "written", "failed"}
  BY <1>1, InvTypes DEF DriveInv, VolumeInv, OpenForWrite
<1>3. VolumeInv'
  BY <1>2, FormatVolume DEF Unlink
<1> QED
  BY <1>3 DEF Unlink, StoredInv

\* A new volume is empty, and the bundle is not marked as installed.
LEMMA FormatImageStored ==
    ASSUME DriveInv, NEW l \in Launches, FormatImage(l), ~Fail(l)
    PROVE  VolumeInv' /\ StoredInv'
<1>1. busy = l /\ launch[l].pc = "sized" /\ Format
      /\ UNCHANGED <<op, copied, installed, patched>>
  BY DEF FormatImage, At, rows, history
<1>2. op.stage = "idle" /\ copied = {}
  BY <1>1 DEF DriveInv, ControlInv, LoopInv, At
<1>3. ~patched => ~installed
  BY <1>1 DEF DriveInv, ControlInv, FlagsInv, NeedsHydration, AtLoop
<1>4. op' \in OpType /\ op'.stage = "idle"
  BY <1>1, <1>2, InvTypes DEF DriveInv, VolumeInv
<1>5. VolumeInv'
  BY <1>1, <1>4, FormatVolume
<1> QED
  BY <1>1, <1>2, <1>3, <1>4, <1>5 DEF StoredInv, WrittenStored

LEMMA CopyFileStored ==
    ASSUME DriveInv, NEW l \in Launches, NEW p \in Paths, CopyFile(l, p), ~Fail(l)
    PROVE  VolumeInv' /\ StoredInv'
<1>1. StartWrite(p) /\ UNCHANGED <<copied, image, folder, installed, patched>> /\ image = "fat"
  BY DEF CopyFile, rows, history
<1>2. VolumeInv' /\ Keeps
  BY <1>1, StartVolume DEF DriveInv
<1>3. WrittenStored'
  BY <1>1 DEF StartWrite, WrittenStored
<1> QED
  BY <1>1, <1>2, <1>3, StoredKept

LEMMA WriteFileStored ==
    ASSUME DriveInv, NEW l \in Launches, WriteFile(l)
    PROVE  VolumeInv' /\ StoredInv'
<1>1. WriteStep /\ UNCHANGED <<copied, image, folder, installed, patched>>
  BY DEF WriteFile, rows, history
<1>2. VolumeInv' /\ Keeps /\ WrittenStored'
  BY <1>1, WriteVolume DEF DriveInv
<1> QED
  BY <1>1, <1>2, StoredKept

\* The file that compares equal joins those that have been copied.
LEMMA CompareStored ==
    ASSUME DriveInv, NEW l \in Launches, Compare(l), ~Fail(l)
    PROVE  VolumeInv' /\ StoredInv'
<1>1. /\ op.stage = "written" /\ image = "fat"
      /\ copied' = copied \cup {op.file} /\ op' = NoOp
      /\ UNCHANGED <<image, folder, fat, dir, chunk, installed, patched>>
  BY DEF Compare, disk, rows, history
<1>2. VolumeInv' /\ Keeps
  BY <1>1, IdleVolume DEF DriveInv
<1>3. Inv /\ FilesWhole
  BY DEF DriveInv, VolumeInv
<1>4. \A p \in Paths : Stored(p) => Stored(p)'
  BY <1>2, <1>3, StoredStays
<1>5. /\ \A p \in copied : Stored(p)
      /\ op.file \in Paths /\ Stored(op.file)
      /\ ~patched /\ installed => \A p \in folder : Stored(p)
  BY <1>1 DEF DriveInv, StoredInv, WrittenStored
<1>6. \A p \in copied' : Stored(p)'
  BY <1>1, <1>4, <1>5, FolderIs
<1>7. ~patched' /\ installed' => \A p \in folder' : Stored(p)'
  BY <1>1, <1>4, <1>5, FolderIs
<1>8. WrittenStored'
  BY <1>1 DEF WrittenStored, NoOp
<1> QED
  BY <1>2, <1>6, <1>7, <1>8 DEF StoredInv

\* The bundle is marked when every file of the folder has been compared.
LEMMA MarkInstalledStored ==
    ASSUME DriveInv, NEW l \in Launches, MarkInstalled(l), ~Fail(l)
    PROVE  VolumeInv' /\ StoredInv'
<1>1. /\ copied = folder /\ copied' = {} /\ UNCHANGED volVars
      /\ UNCHANGED <<image, folder>>
  BY DEF MarkInstalled, disk, volVars
<1>2. VolumeInv' /\ Keeps /\ (WrittenStored => WrittenStored')
  BY <1>1, SameVolume DEF DriveInv
<1>3. Inv /\ FilesWhole
  BY DEF DriveInv, VolumeInv
<1>4. \A p \in Paths : Stored(p) => Stored(p)'
  BY <1>2, <1>3, StoredStays
<1>5. image = "fat" => WrittenStored /\ \A p \in folder : Stored(p)
  BY <1>1 DEF DriveInv, StoredInv
<1> QED
  BY <1>1, <1>2, <1>4, <1>5, FolderIs DEF StoredInv

LEMMA MountStored ==
    ASSUME DriveInv, NEW l \in Launches, Mount(l)
    PROVE  VolumeInv' /\ StoredInv'
<1>1. /\ UNCHANGED volVars /\ UNCHANGED <<folder, copied, installed, patched>>
      /\ image' = "fat" => image = "fat"
  BY DEF Mount, volVars, rows, history
<1>2. VolumeInv' /\ Keeps /\ (WrittenStored => WrittenStored')
  BY <1>1, SameVolume DEF DriveInv
<1>3. image = "fat" => WrittenStored
  BY DEF DriveInv, StoredInv
<1> QED
  BY <1>1, <1>2, <1>3, StoredKept

LEMMA CrashStored ==
    ASSUME DriveInv, Crash
    PROVE  VolumeInv' /\ StoredInv'
<1>1. /\ op' = NoOp /\ copied' = {}
      /\ UNCHANGED <<image, folder, fat, dir, chunk, installed, patched>>
  BY DEF Crash, disk, rows, history
<1>2. VolumeInv' /\ Keeps
  BY <1>1, IdleVolume DEF DriveInv
<1>3. WrittenStored'
  BY <1>1 DEF WrittenStored, NoOp
<1> QED
  BY <1>1, <1>2, <1>3, StoredKept

------------------------------------------------------------------------------
(* Drives: every step *)

\* A request that fails changes nothing that lasts.
LEMMA FailKeeps ==
    ASSUME DriveInv, NEW l \in Launches, Fail(l),
           \/ EnsureDrive(l) \/ UnlinkImage(l) \/ SetSize(l) \/ FormatImage(l)
           \/ (\E p \in Paths : CopyFile(l, p)) \/ WriteFailed(l) \/ Compare(l)
           \/ MarkInstalled(l) \/ Dispatch(l)
    PROVE  /\ busy = l
           /\ UNCHANGED <<rows, image, saved, folder, fat, dir, chunk, threads, history>>
<1>1. busy = l
  BY DEF EnsureDrive, UnlinkImage, SetSize, FormatImage, CopyFile, WriteFailed, Compare,
         MarkInstalled, Dispatch, At
<1>2. busy' # busy /\ busy' = NoLaunch /\ launch'[l].pc = "idle"
  BY <1>1, Apart, FailIs DEF Fail, DriveInv, ControlInv, ControlType
<1>3. \A pc \in Pcs : pc # "idle" => ~Go(l, pc)
  BY <1>2, GoIs DEF DriveInv, ControlInv, ControlType
<1>4. UNCHANGED <<rows, image, saved, folder, fat, dir, chunk, threads, history>>
  BY <1>2, <1>3
     DEF EnsureDrive, UnlinkImage, SetSize, FormatImage, CopyFile, WriteFailed, Compare,
         MarkInstalled, Dispatch, rows, disk, threads, history, Pcs
<1> QED
  BY <1>1, <1>4

LEMMA FailStep ==
    ASSUME DriveInv, NEW l \in Launches, Fail(l),
           \/ EnsureDrive(l) \/ UnlinkImage(l) \/ SetSize(l) \/ FormatImage(l)
           \/ (\E p \in Paths : CopyFile(l, p)) \/ WriteFailed(l) \/ Compare(l)
           \/ MarkInstalled(l) \/ Dispatch(l)
    PROVE  DriveInv'
<1>1. /\ busy = l
      /\ UNCHANGED <<rows, image, saved, folder, fat, dir, chunk, threads, history>>
  BY FailKeeps
<1>2. ControlInv'
  BY <1>1, FailControl DEF DriveInv
<1>3. VolumeInv' /\ StoredInv'
  BY <1>1, FailStored DEF rows, history
<1> QED
  BY <1>2, <1>3 DEF DriveInv

LEMMA RequestStep ==
    ASSUME DriveInv, NEW l \in Launches, ~Fail(l),
           \/ Resolve(l) \/ EnsureDrive(l) \/ SkipCopy(l) \/ UnlinkImage(l) \/ SetSize(l)
           \/ FormatImage(l) \/ (\E p \in Paths : CopyFile(l, p)) \/ WriteFile(l)
           \/ WriteFailed(l) \/ Compare(l) \/ MarkInstalled(l) \/ Dispatch(l)
    PROVE  DriveInv'
<1>0. ControlInv /\ VolumeInv
  BY DEF DriveInv
<1>1. CASE Resolve(l)
  BY <1>0, <1>1, ResolveControl, QuietStored DEF DriveInv, Resolve, rows, history
<1>2. CASE EnsureDrive(l)
  <2>1. UNCHANGED <<disk, op, copied, installed, patched>>
    BY <1>2 DEF EnsureDrive, history
  <2> QED
    BY <1>0, <1>2, <2>1, EnsureDriveControl, QuietStored DEF DriveInv
<1>3. CASE SkipCopy(l)
  BY <1>0, <1>3, SkipCopyControl, QuietStored DEF DriveInv, SkipCopy, rows, history
<1>4. CASE UnlinkImage(l)
  <2>1. (image = "none" \/ CanUnlink) /\ Unlink /\ UNCHANGED op
    BY <1>4 DEF UnlinkImage
  <2> QED
    BY <1>0, <1>4, <2>1, UnlinkImageControl, UnlinkStored DEF DriveInv
<1>5. CASE SetSize(l)
  <2>1. UNCHANGED <<disk, op, copied, installed, patched>>
    BY <1>5 DEF SetSize, rows, history
  <2> QED
    BY <1>0, <1>5, <2>1, SetSizeControl, QuietStored DEF DriveInv
<1>6. CASE FormatImage(l)
  BY <1>0, <1>6, FormatImageControl, FormatImageStored DEF DriveInv
<1>7. CASE \E p \in Paths : CopyFile(l, p)
  BY <1>0, <1>7, CopyFileControl, CopyFileStored DEF DriveInv
<1>8. CASE WriteFile(l)
  BY <1>0, <1>8, WriteFileControl, WriteFileStored DEF DriveInv
<1>9. CASE WriteFailed(l)
  BY <1>9 DEF WriteFailed
<1>10. CASE Compare(l)
  BY <1>0, <1>10, CompareControl, CompareStored DEF DriveInv
<1>11. CASE MarkInstalled(l)
  BY <1>0, <1>11, MarkInstalledControl, MarkInstalledStored DEF DriveInv
<1>12. CASE Dispatch(l)
  <2>1. UNCHANGED <<disk, op, copied, installed, patched>>
    BY <1>12 DEF Dispatch, rows, history
  <2> QED
    BY <1>0, <1>12, <2>1, DispatchControl, QuietStored DEF DriveInv
<1> QED
  BY <1>1, <1>2, <1>3, <1>4, <1>5, <1>6, <1>7, <1>8, <1>9, <1>10, <1>11, <1>12

LEMMA EmulatorStep ==
    ASSUME DriveInv, NEW l \in Launches,
           WriteConf(l) \/ Mount(l) \/ Save(l) \/ Exit(l)
    PROVE  DriveInv'
<1>0. ControlInv
  BY DEF DriveInv
<1>1. CASE WriteConf(l)
  BY <1>0, <1>1, WriteConfControl, QuietStored DEF DriveInv, WriteConf, rows, history
<1>2. CASE Mount(l)
  BY <1>0, <1>2, MountControl, MountStored DEF DriveInv
<1>3. CASE Save(l)
  <2>1. UNCHANGED volVars /\ UNCHANGED <<image, folder, copied, installed, patched>>
    BY <1>3 DEF Save, volVars, rows, history
  <2>2. VolumeInv' /\ Keeps /\ (WrittenStored => WrittenStored')
    BY <2>1, SameVolume DEF DriveInv
  <2>3. image = "fat" => WrittenStored
    BY DEF DriveInv, StoredInv
  <2> QED
    BY <1>0, <1>3, <2>1, <2>2, <2>3, SaveControl, StoredKept DEF DriveInv
<1>4. CASE Exit(l)
  BY <1>0, <1>4, ExitControl, QuietStored DEF DriveInv, Exit, rows, history
<1> QED
  BY <1>1, <1>2, <1>3, <1>4

LEMMA ThreadStep ==
    ASSUME DriveInv,
           \/ DeleteDrive \/ DeleteDriveImage \/ DeleteDriveRow
           \/ DeleteBundle \/ DeleteBundleImage \/ DeleteBundleDrive \/ DeleteBundleRow
           \/ PatchInstalled \/ Crash
    PROVE  DriveInv'
<1>0. ControlInv
  BY DEF DriveInv
<1>1. CASE DeleteDrive \/ DeleteDriveRow \/ DeleteBundle \/ DeleteBundleDrive \/ DeleteBundleRow
  <2>1. UNCHANGED <<installed, requires, disk, op, copied, busy, launch, history>>
    BY <1>1 DEF DeleteDrive, DeleteDriveRow, DeleteBundle, DeleteBundleDrive,
                DeleteBundleRow, rows
  <2>2. /\ bundle' \in BOOLEAN /\ row' \in BOOLEAN
        /\ deleting' \in {"idle", "read", "unlinked"}
        /\ removing' \in {"idle", "read", "unlinked", "dropped"}
    BY <1>0, <1>1 DEF DeleteDrive, DeleteDriveRow, DeleteBundle, DeleteBundleDrive,
                      DeleteBundleRow, rows, ControlInv, ControlType
  <2> QED
    BY <1>0, <2>1, <2>2, RowsControl, QuietStored DEF DriveInv, history
<1>2. CASE DeleteDriveImage \/ DeleteBundleImage
  <2>1. /\ UNCHANGED <<rows, op, copied, busy, launch, history>>
        /\ deleting' \in {"idle", "read", "unlinked"}
        /\ removing' \in {"idle", "read", "unlinked", "dropped"}
    BY <1>0, <1>2 DEF DeleteDriveImage, DeleteBundleImage, ControlInv, ControlType
  <2>2. \/ (image = "none" \/ CanUnlink) /\ Unlink
        \/ UNCHANGED disk
    BY <1>2 DEF DeleteDriveImage, DeleteBundleImage
  <2>3. CASE (image = "none" \/ CanUnlink) /\ Unlink
    BY <1>0, <2>1, <2>3, UnlinkControl, UnlinkStored DEF DriveInv
  <2>4. CASE UNCHANGED disk
    <3>1. bundle' \in BOOLEAN /\ row' \in BOOLEAN
      BY <1>0, <2>1 DEF rows, ControlInv, ControlType
    <3> QED
      BY <1>0, <2>1, <2>4, <3>1, RowsControl, QuietStored DEF DriveInv, rows, history
  <2> QED
    BY <2>2, <2>3, <2>4
<1>3. CASE PatchInstalled
  BY <1>0, <1>3, PatchInstalledControl, QuietStored DEF DriveInv, PatchInstalled
<1>4. CASE Crash
  BY <1>0, <1>4, CrashControl, CrashStored DEF DriveInv
<1> QED
  BY <1>1, <1>2, <1>3, <1>4

LEMMA StillStep == ASSUME DriveInv, UNCHANGED vars PROVE DriveInv'
<1>1. UNCHANGED <<disk, op, copied, installed, patched>>
  BY DEF vars, rows, history
<1>2. VolumeInv' /\ StoredInv'
  BY <1>1, QuietStored
<1>3. ControlInv
  BY DEF DriveInv
<1>4. ControlInv'
  BY <1>3, RowsControl DEF vars, rows, threads, ControlInv, ControlType
<1> QED
  BY <1>2, <1>4 DEF DriveInv

LEMMA DriveInit == Init => DriveInv
<1> SUFFICES ASSUME Init PROVE DriveInv
  OBVIOUS
<1>1. VolumeInv /\ op = NoOp
  BY BlankVolumeInv DEF Init, VolumeInit
<1>2. launch \in [Launches -> Launch] /\ \A l \in Launches : launch[l].pc = "idle"
  BY DEF Init, NotLaunched, Launch, Pcs
<1>3. ControlType
  BY <1>2 DEF Init, ControlType
<1>4. LoopInv
  BY <1>1, <1>2, Apart DEF Init, LoopInv, NoOp, OpenForWrite, AtLoop
<1>5. FlagsInv /\ SavesInv /\ StoredInv
  BY <1>2 DEF Init, FlagsInv, SavesInv, StoredInv, AtLoop, Late
<1> QED
  BY <1>1, <1>3, <1>4, <1>5 DEF DriveInv, ControlInv

LEMMA DriveNext == DriveInv /\ [Next]_vars => DriveInv'
<1> SUFFICES ASSUME DriveInv, [Next]_vars PROVE DriveInv'
  OBVIOUS
<1>1. CASE UNCHANGED vars
  BY <1>1, StillStep
<1>2. ASSUME NEW l \in Launches,
             \/ Resolve(l) \/ EnsureDrive(l) \/ SkipCopy(l) \/ UnlinkImage(l) \/ SetSize(l)
             \/ FormatImage(l) \/ (\E p \in Paths : CopyFile(l, p)) \/ WriteFile(l)
             \/ WriteFailed(l) \/ Compare(l) \/ MarkInstalled(l) \/ Dispatch(l)
      PROVE  DriveInv'
  <2>1. CASE ~Fail(l)
    BY <1>2, <2>1, RequestStep
  <2>2. CASE Fail(l) /\ ~Resolve(l) /\ ~SkipCopy(l) /\ ~WriteFile(l)
    BY <1>2, <2>2, FailStep
  <2>3. CASE Resolve(l) \/ SkipCopy(l) \/ WriteFile(l)
    <3>1. ~Fail(l)
      BY <2>3, Apart DEF Resolve, SkipCopy, WriteFile, At, Fail
    <3> QED
      BY <1>2, <3>1, RequestStep
  <2> QED
    BY <2>1, <2>2, <2>3
<1> QED
  BY <1>1, <1>2, EmulatorStep, ThreadStep DEF Next

LEMMA DriveInvAlways == Spec => []DriveInv
  BY DriveInit, DriveNext, PTL DEF Spec

LEMMA TypesOfDrives == DriveInv => TypeOK
  BY DEF DriveInv, VolumeInv, Inv, ControlInv, ControlType, TypeOK

\* Every variable of the drive keeps to its type, with any number of launches at any
\* point of any copy.
THEOREM DrivesTypeCorrect == Spec => []TypeOK
  BY DriveInvAlways, TypesOfDrives, PTL

\* A step takes changes made inside the drive away only by deleting it, or after the
\* user has marked the game as not installed: a launch that is to copy files has read
\* `installed' while nothing else was copying, and an emulator's image cannot be
\* unlinked.
THEOREM ChangesSurvive == Spec => SavesSurvive
<1>1. DriveInv /\ [Next]_vars => (saved /\ ~saved' => DeletesImage \/ again)
  <2> SUFFICES ASSUME DriveInv, [Next]_vars, saved, ~saved', ~DeletesImage PROVE again
    OBVIOUS
  <2>1. saved \in BOOLEAN /\ saved' # saved
    BY DEF DriveInv, ControlInv, ControlType
  <2>2. ~DeleteDriveImage /\ ~DeleteBundleImage
    BY <2>1 DEF DeleteDriveImage, DeleteBundleImage, DeletesImage, disk
  <2>3. PICK l \in Launches : UnlinkImage(l)
    <3>1. UNCHANGED saved => FALSE
      BY <2>1
    <3> QED
      BY <2>1, <2>2, <3>1
         DEF Next, vars, disk, Resolve, EnsureDrive, SkipCopy, SetSize, FormatImage, CopyFile,
             WriteFile, WriteFailed, Compare, MarkInstalled, Dispatch, WriteConf, Mount, Save,
             Exit, DeleteDrive, DeleteDriveRow, DeleteBundle, DeleteBundleDrive,
             DeleteBundleRow, PatchInstalled, Crash
  <2> QED
    BY <2>3 DEF UnlinkImage, At, DriveInv, ControlInv, SavesInv
<1> QED
  BY <1>1, DriveInvAlways, PTL DEF Spec, SavesSurvive

\* The table and the directories agree wherever a copy, a deletion or the end of the
\* backend cuts in.
THEOREM DriveLinksNeverCross == Spec => []NoCrossLinks
<1>1. DriveInv => NoCrossLinks
  BY DEF DriveInv, VolumeInv, Inv
<1> QED
  BY <1>1, DriveInvAlways, PTL

\* What has been compared stays as it was, and a game that runs from a volume of the
\* backend's finds all of its files whole, as long as nobody sets the flag by hand.
THEOREM CopiesAreFaithful == Spec => []HydrationIsFaithful
<1>1. DriveInv => HydrationIsFaithful
  <2> SUFFICES ASSUME DriveInv PROVE HydrationIsFaithful
    OBVIOUS
  <2>1. \A p \in Paths : Stored(p) => ReadFile(ShortPath(p)) = Content(p)
    BY StoredReads DEF DriveInv
  <2>2. busy = NoLaunch => ReadBackMatches
    <3>1. busy = NoLaunch => op.stage = "idle"
      BY Apart DEF DriveInv, ControlInv, LoopInv, At
    <3> QED
      BY <3>1 DEF ReadBackMatches
  <2>3. CopiesMatch
    BY <2>1, FolderIs DEF DriveInv, StoredInv, WrittenStored, CopiesMatch
  <2>4. MountedIsComplete
    <3> SUFFICES ASSUME NEW l \in Launches, launch[l].pc = "running", image = "fat", ~patched,
                        NEW p \in folder
                 PROVE  ReadFile(ShortPath(p)) = Content(p)
      BY DEF MountedIsComplete
    <3>1. installed
      BY DEF DriveInv, ControlInv, FlagsInv, Late
    <3>2. Stored(p)
      BY <3>1 DEF DriveInv, StoredInv
    <3> QED
      BY <2>1, <3>2, FolderIs
  <2> QED
    BY <2>2, <2>3, <2>4 DEF HydrationIsFaithful
<1> QED
  BY <1>1, DriveInvAlways, PTL

------------------------------------------------------------------------------
(* Geometry: the layout, for every size *)

\* The sectors of the table that the loop comes to.
Table(m) ==
    IF m <= 128 THEN 2 * m
    ELSE IF m <= 256 THEN m
    ELSE IF m <= 512 THEN (m + 1) \div 2
    ELSE (m + 3) \div 4

\* The data start after the reserved sectors, both tables and the root directory.
LEMMA Starts == \A t \in Nat : DataStart(t) = 36 + 2 * t
BY DEF DataStart, RootSectors, RootEntries, BytesPerSector, ReservedSectors, FatCount

\* For every size, a table that was one sector and one that is right lead to the right one.
LEMMA TableIsReached ==
    ASSUME NEW m \in MinMb..MaxMb, NEW t \in {1, Table(m)}
    PROVE  FatSectors(DataClusters(m, t)) = Table(m)
<1> USE DEF Table, FatSectors, DataClusters, Ceil, SectorsPerCluster, TotalSectors, DataStart,
            RootSectors, RootEntries, BytesPerSector, ReservedSectors, FatCount, ClusterFirst,
            MinMb, MaxMb
<1>1. CASE m <= 128
  BY <1>1
<1>2. CASE 128 < m /\ m <= 256
  BY <1>2
<1>3. CASE 256 < m /\ m <= 512
  BY <1>3
<1>4. CASE 512 < m
  BY <1>4
<1> QED
  BY <1>1, <1>2, <1>3, <1>4

\* That table and the data fill the disk, with as many clusters as FAT16 can have.
LEMMA TableFits ==
    ASSUME NEW m \in MinMb..MaxMb
    PROVE  /\ Table(m) \in 2..256 /\ DataClusters(m, Table(m)) \in Nat
           /\ 4085 <= DataClusters(m, Table(m)) /\ DataClusters(m, Table(m)) <= 65524
           /\ (DataClusters(m, Table(m)) + ClusterFirst) * 2 <= Table(m) * BytesPerSector
           /\ DataStart(Table(m)) + DataClusters(m, Table(m)) * SectorsPerCluster(m) <= TotalSectors(m)
<1>1. CASE m <= 128
  <2>1. SectorsPerCluster(m) = 4 /\ Table(m) = 2 * m
    BY <1>1 DEF SectorsPerCluster, Table
  <2>2. DataClusters(m, Table(m)) = (m * 2048 - 36 - 2 * (2 * m)) \div 4
    BY <2>1, Starts DEF DataClusters, TotalSectors, MinMb, MaxMb
  <2> PICK n : n = (m * 2048 - 36 - 2 * (2 * m)) \div 4
    OBVIOUS
  <2>3. /\ Table(m) \in 2..256 /\ n \in Nat /\ 4085 <= n /\ n <= 65524
        /\ (n + 2) * 2 <= Table(m) * 512
        /\ 36 + 2 * (2 * m) + n * 4 <= m * 2048
    BY <1>1, <2>1 DEF MinMb, MaxMb
  <2> QED
    BY <2>1, <2>2, <2>3, Starts DEF TotalSectors, ClusterFirst, BytesPerSector
<1>2. CASE 128 < m /\ m <= 256
  <2>1. SectorsPerCluster(m) = 8 /\ Table(m) = m
    BY <1>2 DEF SectorsPerCluster, Table
  <2>2. DataClusters(m, Table(m)) = (m * 2048 - 36 - 2 * (m)) \div 8
    BY <2>1, Starts DEF DataClusters, TotalSectors, MinMb, MaxMb
  <2> PICK n : n = (m * 2048 - 36 - 2 * (m)) \div 8
    OBVIOUS
  <2>3. /\ Table(m) \in 2..256 /\ n \in Nat /\ 4085 <= n /\ n <= 65524
        /\ (n + 2) * 2 <= Table(m) * 512
        /\ 36 + 2 * (m) + n * 8 <= m * 2048
    BY <1>2, <2>1 DEF MinMb, MaxMb
  <2> QED
    BY <2>1, <2>2, <2>3, Starts DEF TotalSectors, ClusterFirst, BytesPerSector
<1>3. CASE 256 < m /\ m <= 512
  <2>1. SectorsPerCluster(m) = 16 /\ Table(m) = ((m + 1) \div 2)
    BY <1>3 DEF SectorsPerCluster, Table
  <2>2. DataClusters(m, Table(m)) = (m * 2048 - 36 - 2 * (((m + 1) \div 2))) \div 16
    BY <2>1, Starts DEF DataClusters, TotalSectors, MinMb, MaxMb
  <2> PICK n : n = (m * 2048 - 36 - 2 * (((m + 1) \div 2))) \div 16
    OBVIOUS
  <2>3. /\ Table(m) \in 2..256 /\ n \in Nat /\ 4085 <= n /\ n <= 65524
        /\ (n + 2) * 2 <= Table(m) * 512
        /\ 36 + 2 * (((m + 1) \div 2)) + n * 16 <= m * 2048
    BY <1>3, <2>1 DEF MinMb, MaxMb
  <2> QED
    BY <2>1, <2>2, <2>3, Starts DEF TotalSectors, ClusterFirst, BytesPerSector
<1>4. CASE 512 < m
  <2>1. SectorsPerCluster(m) = 32 /\ Table(m) = ((m + 3) \div 4)
    BY <1>4 DEF SectorsPerCluster, Table
  <2>2. DataClusters(m, Table(m)) = (m * 2048 - 36 - 2 * (((m + 3) \div 4))) \div 32
    BY <2>1, Starts DEF DataClusters, TotalSectors, MinMb, MaxMb
  <2> PICK n : n = (m * 2048 - 36 - 2 * (((m + 3) \div 4))) \div 32
    OBVIOUS
  <2>3. /\ Table(m) \in 2..256 /\ n \in Nat /\ 4085 <= n /\ n <= 65524
        /\ (n + 2) * 2 <= Table(m) * 512
        /\ 36 + 2 * (((m + 3) \div 4)) + n * 32 <= m * 2048
    BY <1>4, <2>1 DEF MinMb, MaxMb
  <2> QED
    BY <2>1, <2>2, <2>3, Starts DEF TotalSectors, ClusterFirst, BytesPerSector
<1> QED
  BY <1>1, <1>2, <1>3, <1>4 DEF MinMb, MaxMb

\* The first pass finds the table, and the second that it is right.
LayoutInv ==
    /\ mb \in MinMb..MaxMb
    /\ \/ pass = 0 /\ spf = 1 /\ ~fixed
       \/ pass = 1 /\ spf = Table(mb) /\ ~fixed
       \/ /\ pass = 2 /\ spf = Table(mb) /\ fixed
          /\ start = DataStart(spf) /\ clusters = DataClusters(mb, spf)

LEMMA LayoutStep == LayoutInv /\ [Refine]_layoutVars => LayoutInv'
<1> SUFFICES ASSUME LayoutInv, [Refine]_layoutVars PROVE LayoutInv'
  OBVIOUS
<1>1. CASE Refine
  <2>1. /\ mb' = mb /\ pass' = pass + 1 /\ ~fixed
        /\ start' = DataStart(spf) /\ clusters' = DataClusters(mb, spf)
        /\ spf' = FatSectors(DataClusters(mb, spf)) /\ fixed' = (spf' = spf)
    BY <1>1 DEF Refine, Calculated
  <2>2. spf \in {1, Table(mb)} /\ mb \in MinMb..MaxMb /\ pass \in {0, 1}
    BY <2>1 DEF LayoutInv
  <2>3. spf' = Table(mb)
    <3>1. FatSectors(DataClusters(mb, spf)) = Table(mb)
      BY <2>2, TableIsReached
    <3> QED
      BY <2>1, <3>1
  <2>4. Table(mb) # 1
    BY <2>2, TableFits
  <2>5. CASE pass = 0
    <3>1. spf' # spf /\ pass' = 1
      BY <2>1, <2>3, <2>4, <2>5 DEF LayoutInv
    <3>2. ~fixed'
      BY <2>1, <3>1, Zenon
    <3> QED
      BY <2>1, <2>2, <2>3, <3>1, <3>2 DEF LayoutInv
  <2>6. CASE pass = 1
    <3>1. spf = Table(mb) /\ spf' = spf /\ pass' = 2
      BY <2>1, <2>3, <2>6 DEF LayoutInv
    <3>2. fixed'
      BY <2>1, <3>1, Zenon
    <3> QED
      BY <2>1, <2>2, <2>3, <3>1, <3>2 DEF LayoutInv
  <2> QED
    BY <2>2, <2>5, <2>6
<1>2. CASE UNCHANGED layoutVars
  BY <1>2 DEF LayoutInv, layoutVars
<1> QED
  BY <1>1, <1>2

\* What the boot sector says of the layout is read back, in the widths of its fields.
LEMMA ReadsBack ==
    ASSUME NEW m \in MinMb..MaxMb,
           NEW g, g = [total |-> TotalSectors(m), spc |-> SectorsPerCluster(m), spf |-> Table(m),
                       start |-> DataStart(Table(m)), clusters |-> DataClusters(m, Table(m))]
    PROVE  Parse(BootSector(g)) = g
<1>1. /\ g.total = TotalSectors(m) /\ g.spc = SectorsPerCluster(m) /\ g.spf = Table(m)
      /\ g.start = DataStart(g.spf) /\ g.clusters = DataClusters(m, g.spf)
  OBVIOUS
<1>2. /\ g.total \in Nat \ {0} /\ g.spc \in {4, 8, 16, 32} /\ g.spf \in 2..256
  <2>1. TotalSectors(m) \in Nat \ {0} /\ SectorsPerCluster(m) \in {4, 8, 16, 32}
    BY DEF TotalSectors, SectorsPerCluster, MinMb, MaxMb
  <2> QED
    BY <1>1, <2>1, TableFits
<1>3. g.spc % 256 = g.spc /\ g.spf % 65536 = g.spf
  BY <1>2
<1>4. g.total <= 65535 => g.total % 65536 = g.total /\ g.total # 0
  BY <1>2
<1> PICK b : b = BootSector(g)
  OBVIOUS
<1>5. /\ b.spc = g.spc /\ b.spf = g.spf
      /\ (IF b.total16 # 0 THEN b.total16 ELSE b.total32) = g.total
  BY <1>2, <1>3, <1>4 DEF BootSector
<1>6. Parse(b) = [total |-> g.total, spc |-> g.spc, spf |-> g.spf, start |-> DataStart(g.spf),
                  clusters |-> (g.total - DataStart(g.spf)) \div g.spc]
  BY <1>5 DEF Parse, DataStart
<1> QED
  BY <1>1, <1>6 DEF DataClusters

\* For every size an image may have, the loop ends with a layout that fits, and what is
\* read from the boot sector is that layout.
THEOREM LayoutsAreSound == LayoutSpec => []LayoutIsSound
<1>1. LayoutInit => LayoutInv
  BY DEF LayoutInit, LayoutInv
<1>2. LayoutInv => LayoutIsSound
  <2> SUFFICES ASSUME LayoutInv, Calculated PROVE LayoutIsSound
    BY DEF LayoutIsSound, LayoutFits, GeometryRoundTrips
  <2>1. /\ mb \in MinMb..MaxMb /\ pass = 2 /\ fixed /\ spf = Table(mb)
        /\ start = DataStart(spf) /\ clusters = DataClusters(mb, Table(mb))
    BY DEF LayoutInv, Calculated, Passes
  <2>2. LayoutFits
    <3>1. /\ clusters \in Nat /\ 4085 <= clusters /\ clusters <= 65524
          /\ (clusters + ClusterFirst) * 2 <= spf * BytesPerSector
          /\ start + clusters * SectorsPerCluster(mb) <= TotalSectors(mb)
      BY <2>1, TableFits
    <3>2. ClusterFirst + clusters - 1 < EocMark
      BY <3>1 DEF ClusterFirst, EocMark
    <3> QED
      BY <2>1, <3>1, <3>2 DEF LayoutFits
  <2>3. Parse(BootSector(Layout)) = Layout
    BY <2>1, ReadsBack DEF Layout
  <2>4. Layout.total \in Nat
    BY <2>1 DEF Layout, TotalSectors, MinMb, MaxMb
  <2>5. MountCylinders(Layout) * SectorsPerTrack * Heads = FileSectors(Layout)
    BY <2>4 DEF MountCylinders, FileSectors, Ceil, SectorsPerTrack, Heads
  <2> QED
    BY <2>2, <2>3, <2>5 DEF LayoutIsSound, GeometryRoundTrips
<1> QED
  BY <1>1, <1>2, LayoutStep, PTL DEF LayoutSpec
==============================================================================
