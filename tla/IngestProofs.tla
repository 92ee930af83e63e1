------------------------------ MODULE IngestProofs ------------------------------
(* What Ingest promises holds for any requests, names and number of ingests: an   *)
(* ingest that fails with nothing at work beside it leaves the files as they were, *)
(* the folder of a game has the game's slug for a name, and no file is tracked     *)
(* twice unless a first disc was found elsewhere.  One ingest or deletion at a     *)
(* time, of requests that keep apart, the rows find their files as well.           *)
(*                                                                                 *)
(* The undo stack is read as a journal: undoing it, newest first, leads from the   *)
(* files there are to those there were, but for the folder the ingest staged.      *)
(* Each step that renames or moves pushes the entry that takes it back, because    *)
(* nothing lay where it put things: a file lies only in a folder that is there.    *)
(* For the rows to find their files, that stack has to lead through good files     *)
(* only: IngestInv says where it leads, LibraryInv by which way.                   *)
EXTENDS MCIngest, FiniteSetTheorems, SequenceTheorems, WellFoundedInduction, TLAPS

\* What an undo stack holds.
UndoOps == DirOps \cup FileOps

\* The rows of a disc set whose first disc was found elsewhere.
Repointed(i) == req[i].shape = "discs" /\ req[i].dedup

\* The files an ingest will track lie in the folder it takes for its own, but for a
\* first disc that was found elsewhere.
AtHome(i) ==
    /\ folder[i] \in Names
    /\ leaves[i] # <<>>
    /\ \A k \in DOMAIN leaves[i] : leaves[i][k].dir = folder[i] \/ (Repointed(i) /\ k = 1)
    /\ Repointed(i) => Len(leaves[i]) >= 2

\* What an ingest has done, and knows, at each stage.
Knows(i) ==
    /\ pc[i] = "idle" => undo[i] = <<>> /\ dest[i] = NoName
    /\ pc[i] # "idle" => req[i] \in Requests
    /\ pc[i] \in {"dedup", "dropping", "guard", "placing"} => undo[i] = <<>>
    /\ pc[i] = "dedup" => /\ req[i].shape # "dir" /\ req[i].dedup /\ dest[i] \in Names
                          /\ AtHome(i) /\ leaves[i][1].dir = dest[i] /\ folder[i] = dest[i]
    /\ pc[i] \in {"dedup", "dropping", "guard", "placing"} /\ req[i].shape = "file" => leaves[i] # <<>>
    /\ pc[i] = "dropping" => req[i].shape = "file" /\ dest[i] \in Names
    /\ pc[i] = "guard" => req[i].shape # "discs" /\ (req[i].shape = "dir" => folder[i] \in Names)
    /\ pc[i] = "placing" => req[i].shape = "file" /\ folder[i] \in Names
    /\ pc[i] \in {"naming", "persisting", "done"} => AtHome(i)
    /\ pc[i] = "naming" => Len(undo[i]) <= 1
    /\ pc[i] \in {"persisting", "undoing"} => Len(undo[i]) <= 2
    /\ pc[i] = "undoing" => ending[i] \in {"rejected", "failed"}
    /\ pc[i] \in {"persisting", "done"} => slug[i] = folder[i]

\* The rows of a bundle are those of the leaves of its ingest, which has ended well;
\* and no two bundles have one slug.
RowsAre ==
    \A r \in rows : /\ r.bundle \in Ingests /\ pc[r.bundle] = "done"
                    /\ BundleRows(r.bundle) = {RowOf(r.bundle, k) : k \in DOMAIN leaves[r.bundle]}
SlugsDiffer == \A r, s \in rows : r.slug = s.slug => r.bundle = s.bundle

\* Every file is in a folder that is there.
HousedIn(D, F) == \A f \in F : f.dir \in D \cup {Root}
Housed == HousedIn(dirs, files)

\* Beside an ingest that is not overlapped nothing is at work.
OverlapKnown == \A i \in Running \ overlapped : Running = {i} /\ deleting = {}

\* The undo stack as what it does to folders D and files F.
AtIn(F, p) == {f \in F : f.dir = p.dir /\ f.stem = p.stem}
Renamed(F, old, new) == {[f EXCEPT !.dir = IF @ = old THEN new ELSE @] : f \in F}
PutAt(f, q) == [dir |-> q.dir, stem |-> q.stem, content |-> f.content]
Moved(F, p, q) == (F \ AtIn(F, p)) \cup {PutAt(f, q) : f \in AtIn(F, p)}
CanUndo(op, D, F) ==
    IF op.kind = "dir" THEN op.new \in D /\ op.old \notin D
    ELSE AtIn(F, op.new) # {} /\ AtIn(F, op.old) = {} /\ op.old.dir \in D \cup {Root}
FoldersBack(op, D) == IF op.kind = "dir" THEN (D \ {op.new}) \cup {op.old} ELSE D
FilesBack(op, F) == IF op.kind = "dir" THEN Renamed(F, op.new, op.old) ELSE Moved(F, op.new, op.old)
Outside(F, d) == {f \in F : f.dir # d}

\* Undone newest first, the files but those in d are those of b.
Leads(u, D, F, d, b) ==
    /\ u = <<>> => Outside(F, d) = b
    /\ Len(u) = 1 => CanUndo(u[1], D, F) /\ Outside(FilesBack(u[1], F), d) = b
    /\ Len(u) = 2 => /\ CanUndo(u[2], D, F)
                     /\ CanUndo(u[1], FoldersBack(u[2], D), FilesBack(u[2], F))
                     /\ Outside(FilesBack(u[1], FilesBack(u[2], F)), d) = b
Journal(i) == Leads(undo[i], dirs, files, dest[i], before[i])
Journals == \A i \in Running \ overlapped : Journal(i)

\* The types, with leaves and undo stacks as sequences.
Typed ==
    /\ LibraryTypeOK
    /\ pc \in [Ingests -> IngestStages]
    /\ DOMAIN req = Ingests
    /\ dest \in [Ingests -> Names \cup {NoName}]
    /\ leaves \in [Ingests -> Seq(Paths)]
    /\ folder \in [Ingests -> Names \cup {NoName}]
    /\ slug \in [Ingests -> Names \cup {NoName}]
    /\ undo \in [Ingests -> Seq(UndoOps)]
    /\ before \in [Ingests -> SUBSET Files]
    /\ ending \in [Ingests -> Ended]
    /\ deleting \in SUBSET Bundles

IngestInv ==
    /\ Typed /\ overlapped \in SUBSET Ingests
    /\ \A i \in Ingests : Knows(i)
    /\ RowsAre /\ SlugsDiffer /\ Housed /\ OverlapKnown /\ Journals

-------------------------------------------------------------------------------
\* Any set of naturals has a least one.
LEMMA LeastNat ==
    ASSUME NEW T \in SUBSET Nat, T # {}
    PROVE  \E m \in T : \A n \in T : m <= n
<1> DEFINE Below == {0..n : n \in T}
<1>1. Below \subseteq FiniteSubsetsOf(Nat) /\ Below # {}
  <2>1. ASSUME NEW n \in T
        PROVE  0..n \in FiniteSubsetsOf(Nat)
    <3>1. IsFiniteSet(0..n)
      BY FS_Interval
    <3> QED
      BY <3>1 DEF FiniteSubsetsOf
  <2> QED
    BY <2>1
<1>2. PICK x \in Below : \A y \in Below : <<y, x>> \notin StrictSubsetOrdering(Nat)
  BY <1>1, FS_StrictSubsetOrderingWellFounded, WFMin, Zenon
<1>3. PICK m \in T : x = 0..m
  OBVIOUS
<1>4. ASSUME NEW n \in T, n < m
      PROVE  FALSE
  <2>1. 0..n \in Below /\ 0..n \subseteq x /\ 0..n # x
    BY <1>3, <1>4
  <2>2. 0..n \in SUBSET Nat /\ x \in SUBSET Nat
    BY <1>3
  <2> QED
    BY <1>2, <2>1, <2>2 DEF StrictSubsetOrdering
<1> QED
  BY <1>4

\* The name that unique_slug finds is one and is free, if one is.
LEMMA UniqueSlugIs ==
    ASSUME NEW name \in Names, NEW taken, HasFree(name, taken)
    PROVE  UniqueSlug(name, taken) \in Names \ taken
<1>1. PICK b \in Bases, n \in 1..MaxSuffix : name = <<b, n>>
  BY DEF Names
<1> DEFINE T == {k \in 1..MaxSuffix : k >= n /\ <<b, k>> \notin taken}
<1>2. T # {} /\ T \subseteq Nat
  BY <1>1 DEF HasFree
<1>3. PICK m \in T : \A k \in T : m <= k
  BY <1>2, LeastNat
<1>4. PICK new : new = <<b, m>>
  OBVIOUS
<1>5. /\ new \in Names /\ new \notin taken /\ new[1] = name[1] /\ new[2] >= name[2]
      /\ \A k \in name[2]..(new[2] - 1) : <<name[1], k>> \in taken
  <2>1. new \in Names /\ new \notin taken /\ new[1] = b /\ new[2] = m /\ name[1] = b /\ name[2] = n
    BY <1>1, <1>3, <1>4 DEF Names
  <2>2. ASSUME NEW k \in n..(m - 1)
        PROVE  <<b, k>> \in taken
    <3>1. k \in 1..MaxSuffix /\ k >= n /\ k < m /\ m \in Nat
      BY <1>3, LibraryAssumption
    <3> QED
      BY <1>3, <3>1
  <2> QED
    BY <1>3, <2>1, <2>2
<1> QED
  BY <1>5 DEF UniqueSlug
-------------------------------------------------------------------------------
(* Folders renamed, files moved, and back.                                       *)

LEMMA NamesAre ==
    /\ Root \notin Names /\ NoName \notin Names /\ NoName # Root
    /\ \A b \in Bases : Plain(b) \in Names
BY LibraryAssumption, IngestAssumption DEF Plain, Names

LEMMA FileIs ==
    ASSUME NEW f \in Files
    PROVE  /\ f = [dir |-> f.dir, stem |-> f.stem, content |-> f.content]
           /\ f.dir \in Names \cup {Root} /\ f.stem \in Bases /\ f.content \in Contents
           /\ \A d : [f EXCEPT !.dir = d] = [dir |-> d, stem |-> f.stem, content |-> f.content]
           /\ PathOf(f) \in Paths
           /\ \A p \in Paths : PathOf(f) = p <=> f.dir = p.dir /\ f.stem = p.stem
<1>1. /\ f = [dir |-> f.dir, stem |-> f.stem, content |-> f.content]
      /\ f.dir \in Names \cup {Root} /\ f.stem \in Bases /\ f.content \in Contents
  BY DEF Files
<1>2. ASSUME NEW d
      PROVE  [f EXCEPT !.dir = d] = [dir |-> d, stem |-> f.stem, content |-> f.content]
  BY DEF Files
<1>3. PathOf(f) = [dir |-> f.dir, stem |-> f.stem] /\ PathOf(f) \in Paths
  BY <1>1 DEF PathOf, Paths
<1>4. ASSUME NEW p \in Paths
      PROVE  PathOf(f) = p <=> f.dir = p.dir /\ f.stem = p.stem
  <2>1. p = [dir |-> p.dir, stem |-> p.stem]
    BY DEF Paths
  <2> QED
    BY <1>3, <2>1
<1> QED
  BY <1>1, <1>2, <1>3, <1>4

LEMMA AtIs ==
    ASSUME Typed, NEW p \in Paths
    PROVE  At(p) = AtIn(files, p)
<1>1. files \subseteq Files
  BY DEF Typed, LibraryTypeOK
<1> QED
  BY <1>1, FileIs DEF At, AtIn

\* One file after a folder was renamed.
Rehoused(f, old, new) == [dir |-> IF f.dir = old THEN new ELSE f.dir, stem |-> f.stem, content |-> f.content]

LEMMA RenamedIs ==
    ASSUME NEW F \in SUBSET Files, NEW old, NEW new
    PROVE  Renamed(F, old, new) = {Rehoused(f, old, new) : f \in F}
<1>1. ASSUME NEW f \in F
      PROVE  [f EXCEPT !.dir = IF @ = old THEN new ELSE @] = Rehoused(f, old, new)
  <2>1. [f EXCEPT !.dir = IF f.dir = old THEN new ELSE f.dir] = Rehoused(f, old, new)
    BY FileIs DEF Rehoused
  <2> QED
    BY <2>1
<1> QED
  BY <1>1 DEF Renamed

LEMMA RenamedTyped ==
    ASSUME NEW F \in SUBSET Files, NEW old, NEW new \in Names,
           NEW D \in SUBSET Names, HousedIn(D, F)
    PROVE  /\ Renamed(F, old, new) \in SUBSET Files
           /\ HousedIn((D \ {old}) \cup {new}, Renamed(F, old, new))
<1>1. ASSUME NEW f \in F
      PROVE  /\ Rehoused(f, old, new) \in Files
             /\ Rehoused(f, old, new).dir \in ((D \ {old}) \cup {new}) \cup {Root}
  <2>1. f \in Files /\ f.dir \in D \cup {Root} /\ f.stem \in Bases /\ f.content \in Contents
    BY FileIs DEF HousedIn
  <2> QED
    BY <2>1, NamesAre DEF Rehoused, Files
<1> QED
  BY <1>1, RenamedIs DEF HousedIn

\* Nothing was in the new folder: renaming it back brings everything back.
LEMMA RenameBack ==
    ASSUME NEW F \in SUBSET Files, NEW D \in SUBSET Names, HousedIn(D, F),
           NEW old \in D, NEW new \in Names, new \notin D
    PROVE  /\ Renamed(Renamed(F, old, new), new, old) = F
           /\ (((D \ {old}) \cup {new}) \ {new}) \cup {old} = D
           /\ new \in (D \ {old}) \cup {new} /\ old \notin (D \ {old}) \cup {new}
<1>1. PICK G : G = Renamed(F, old, new)
  OBVIOUS
<1>2. G \in SUBSET Files /\ G = {Rehoused(f, old, new) : f \in F}
  <2>1. Renamed(F, old, new) \in SUBSET Files
    BY RenamedTyped
  <2>2. Renamed(F, old, new) = {Rehoused(f, old, new) : f \in F}
    BY RenamedIs
  <2> QED
    BY <1>1, <2>1, <2>2
<1>3. ASSUME NEW f \in F
      PROVE  Rehoused(Rehoused(f, old, new), new, old) = f
  <2>1. f.dir # new /\ f = [dir |-> f.dir, stem |-> f.stem, content |-> f.content]
    BY FileIs, NamesAre DEF HousedIn
  <2> QED
    BY <2>1 DEF Rehoused
<1>4. {Rehoused(g, new, old) : g \in G} = F
  BY <1>2, <1>3
<1>5. Renamed(G, new, old) = F
  BY <1>2, <1>4, RenamedIs
<1> QED
  BY <1>1, <1>5

LEMMA MovedTyped ==
    ASSUME NEW F \in SUBSET Files, NEW p, NEW q \in Paths,
           NEW D, HousedIn(D, F), q.dir \in D \cup {Root}
    PROVE  Moved(F, p, q) \in SUBSET Files /\ HousedIn(D, Moved(F, p, q))
<1>1. ASSUME NEW f \in AtIn(F, p)
      PROVE  PutAt(f, q) \in Files /\ PutAt(f, q).dir = q.dir
  BY FileIs DEF PutAt, AtIn, Files, Paths
<1> QED
  BY <1>1, FileIs DEF Moved, HousedIn, AtIn

\* Nothing was at the target: moving what is there back brings everything back.
LEMMA MoveBack ==
    ASSUME NEW F \in SUBSET Files, NEW p \in Paths, NEW q \in Paths,
           AtIn(F, p) # {}, AtIn(F, q) = {}
    PROVE  /\ Moved(Moved(F, p, q), q, p) = F
           /\ AtIn(Moved(F, p, q), q) # {} /\ AtIn(Moved(F, p, q), p) = {}
<1>1. PICK G : G = Moved(F, p, q)
  OBVIOUS
<1>2. G = (F \ AtIn(F, p)) \cup {PutAt(f, q) : f \in AtIn(F, p)}
  BY <1>1 DEF Moved
<1>3. G \in SUBSET Files
  <2>1. ASSUME NEW f \in AtIn(F, p)
        PROVE  PutAt(f, q) \in Files
    BY FileIs DEF PutAt, AtIn, Files, Paths
  <2> QED
    BY <1>2, <2>1
<1>4. ~ (p.dir = q.dir /\ p.stem = q.stem)
  BY DEF AtIn
<1>5. ASSUME NEW f \in AtIn(F, p)
      PROVE  /\ PutAt(f, q).dir = q.dir /\ PutAt(f, q).stem = q.stem
             /\ PutAt(PutAt(f, q), p) = f
  <2>1. f = [dir |-> f.dir, stem |-> f.stem, content |-> f.content] /\ f.dir = p.dir /\ f.stem = p.stem
    BY FileIs DEF AtIn
  <2> QED
    BY <2>1 DEF PutAt
<1>6. AtIn(G, q) = {PutAt(f, q) : f \in AtIn(F, p)}
  <2>1. \A f \in F : ~ (f.dir = q.dir /\ f.stem = q.stem)
    BY DEF AtIn
  <2>2. \A g \in G : g \in AtIn(G, q) <=> g.dir = q.dir /\ g.stem = q.stem
    BY DEF AtIn
  <2>3. AtIn(G, q) \subseteq G
    BY DEF AtIn
  <2> QED
    BY <1>2, <1>5, <2>1, <2>2, <2>3
<1>7. AtIn(G, p) = {}
  BY <1>2, <1>4, <1>5 DEF AtIn
<1>8. G \ AtIn(G, q) = F \ AtIn(F, p)
  <2>1. \A f \in F : f \notin AtIn(G, q)
    BY DEF AtIn
  <2> QED
    BY <1>2, <1>6, <2>1
<1>9. {PutAt(g, p) : g \in AtIn(G, q)} = AtIn(F, p)
  BY <1>5, <1>6
<1>10. Moved(G, q, p) = F
  <2>1. Moved(G, q, p) = (F \ AtIn(F, p)) \cup AtIn(F, p)
    BY <1>3, <1>8, <1>9 DEF Moved
  <2> QED
    BY <2>1 DEF AtIn
<1> QED
  BY <1>1, <1>6, <1>7, <1>10

-------------------------------------------------------------------------------
(* The undo stack, as steps push on it and an undo pops from it.                 *)

LEMMA LeadsNone ==
    ASSUME NEW D, NEW F, NEW d, NEW b
    PROVE  Leads(<<>>, D, F, d, b) <=> Outside(F, d) = b
BY DEF Leads

LEMMA PushedIs ==
    ASSUME NEW u \in Seq(UndoOps), Len(u) <= 1, NEW op \in UndoOps
    PROVE  /\ Append(u, op) \in Seq(UndoOps) /\ Len(Append(u, op)) = Len(u) + 1
           /\ Append(u, op) # <<>>
           /\ u = <<>> => Append(u, op)[1] = op
           /\ Len(u) = 1 => Append(u, op)[1] = u[1] /\ Append(u, op)[2] = op
           /\ u = <<>> \/ Len(u) = 1
<1>1. Len(u) \in Nat /\ (u = <<>> <=> Len(u) = 0)
  OBVIOUS
<1>2. PICK v : v = Append(u, op)
  OBVIOUS
<1>3. v \in Seq(UndoOps) /\ Len(v) = Len(u) + 1
  BY <1>2
<1>4. v # <<>>
  BY <1>1, <1>3
<1>5. u = <<>> => v[1] = op
  BY <1>2
<1>6. Len(u) = 1 => v[1] = u[1] /\ v[2] = op
  <2>1. (\A k \in 1..Len(u) : v[k] = u[k]) /\ v[Len(u) + 1] = op
    BY <1>2, AppendProperties
  <2> QED
    BY <2>1
<1>7. u = <<>> \/ Len(u) = 1
  <2>1. PICK n \in Nat : n = Len(u)
    BY <1>1
  <2> QED
    BY <1>1, <2>1
<1> QED
  BY <1>2, <1>3, <1>4, <1>5, <1>6, <1>7

LEMMA PushLeads ==
    ASSUME NEW u \in Seq(UndoOps), Len(u) <= 1, NEW op \in UndoOps,
           NEW D, NEW F, NEW E, NEW G, NEW d, NEW b, Leads(u, D, F, d, b),
           CanUndo(op, E, G), FilesBack(op, G) = F,
           u = <<>> \/ FoldersBack(op, E) = D
    PROVE  Leads(Append(u, op), E, G, d, b)
<1>1. PICK v : v = Append(u, op)
  OBVIOUS
<1>2. CASE u = <<>>
  <2>1. Len(v) = 1 /\ v # <<>> /\ v[1] = op
    BY <1>1, <1>2, PushedIs
  <2>2. Outside(F, d) = b
    BY <1>2, LeadsNone
  <2> QED
    BY <1>1, <2>1, <2>2 DEF Leads
<1>3. CASE Len(u) = 1
  <2>1. Len(v) = 2 /\ v # <<>> /\ v[1] = u[1] /\ v[2] = op
    <3>1. /\ Len(v) = Len(u) + 1 /\ v # <<>>
          /\ Len(u) = 1 => v[1] = u[1] /\ v[2] = op
      BY <1>1, PushedIs, Zenon
    <3> QED
      BY <1>3, <3>1
  <2>2. CanUndo(u[1], D, F) /\ Outside(FilesBack(u[1], F), d) = b
    BY <1>3 DEF Leads
  <2>3. u # <<>>
    BY <1>3
  <2> QED
    BY <1>1, <2>1, <2>2, <2>3 DEF Leads
<1> QED
  BY <1>2, <1>3, PushedIs

LEMMA PushRename ==
    ASSUME NEW u \in Seq(UndoOps), Len(u) <= 1,
           NEW D \in SUBSET Names, NEW F \in SUBSET Files, HousedIn(D, F),
           NEW old \in D, NEW new \in Names, new \notin D,
           NEW d, NEW b, Leads(u, D, F, d, b)
    PROVE  Leads(Append(u, [kind |-> "dir", old |-> old, new |-> new]),
                 (D \ {old}) \cup {new}, Renamed(F, old, new), d, b)
<1>1. PICK op : op = [kind |-> "dir", old |-> old, new |-> new]
  OBVIOUS
<1>2. op \in UndoOps /\ op.kind = "dir" /\ op.old = old /\ op.new = new
  BY <1>1 DEF UndoOps, DirOps
<1>3. PICK E, G : E = (D \ {old}) \cup {new} /\ G = Renamed(F, old, new)
  OBVIOUS
<1>4. Renamed(G, new, old) = F /\ (E \ {new}) \cup {old} = D /\ new \in E /\ old \notin E
  BY <1>3, RenameBack
<1>5. CanUndo(op, E, G) /\ FilesBack(op, G) = F /\ FoldersBack(op, E) = D
  BY <1>2, <1>4 DEF CanUndo, FilesBack, FoldersBack
<1>6. Leads(Append(u, op), E, G, d, b)
  BY <1>2, <1>5, PushLeads
<1> QED
  BY <1>1, <1>3, <1>6

LEMMA PushMove ==
    ASSUME NEW D, NEW E, NEW F \in SUBSET Files, HousedIn(D, F), D \subseteq E,
           NEW p \in Paths, NEW q \in Paths, AtIn(F, p) # {}, AtIn(F, q) = {},
           NEW d, NEW b, Leads(<<>>, D, F, d, b)
    PROVE  Leads(Append(<<>>, [kind |-> "file", old |-> p, new |-> q]), E, Moved(F, p, q), d, b)
<1>1. PICK op : op = [kind |-> "file", old |-> p, new |-> q]
  OBVIOUS
<1>2. op \in UndoOps /\ op.kind = "file" /\ op.old = p /\ op.new = q
  BY <1>1 DEF UndoOps, FileOps
<1>3. PICK G : G = Moved(F, p, q)
  OBVIOUS
<1>4. Moved(G, q, p) = F /\ AtIn(G, q) # {} /\ AtIn(G, p) = {}
  BY <1>3, MoveBack
<1>5. p.dir \in E \cup {Root}
  BY DEF AtIn, HousedIn
<1>6. CanUndo(op, E, G) /\ FilesBack(op, G) = F
  BY <1>2, <1>4, <1>5 DEF CanUndo, FilesBack
<1>7. <<>> \in Seq(UndoOps) /\ Len(<<>>) <= 1
  OBVIOUS
<1>8. Leads(Append(<<>>, op), E, G, d, b)
  BY <1>2, <1>6, <1>7, PushLeads
<1> QED
  BY <1>1, <1>3, <1>8

LEMMA PopIs ==
    ASSUME NEW u \in Seq(UndoOps), u # <<>>, Len(u) <= 2
    PROVE  /\ u[Len(u)] \in UndoOps
           /\ SubSeq(u, 1, Len(u) - 1) \in Seq(UndoOps)
           /\ Len(SubSeq(u, 1, Len(u) - 1)) = Len(u) - 1
           /\ Len(u) = 1 \/ Len(u) = 2
           /\ Len(u) = 1 => SubSeq(u, 1, Len(u) - 1) = <<>>
           /\ Len(u) = 2 => SubSeq(u, 1, Len(u) - 1)[1] = u[1]
<1>1. Len(u) \in Nat /\ Len(u) # 0
  OBVIOUS
<1>2. Len(u) = 1 \/ Len(u) = 2
  <2>1. PICK n \in Nat : n = Len(u)
    BY <1>1
  <2> QED
    BY <1>1, <2>1
<1>3. u[Len(u)] \in UndoOps
  BY <1>1
<1>4. PICK v : v = SubSeq(u, 1, Len(u) - 1)
  OBVIOUS
<1>5. v \in Seq(UndoOps) /\ Len(v) = Len(u) - 1
  <2>1. CASE Len(u) = 1
    <3>1. v = SubSeq(u, 1, 0)
      BY <1>4, <2>1
    <3> QED
      BY <2>1, <3>1
  <2>2. CASE Len(u) = 2
    <3>1. v = SubSeq(u, 1, 1)
      BY <1>4, <2>2
    <3> QED
      BY <2>2, <3>1
  <2> QED
    BY <1>2, <2>1, <2>2
<1>6. Len(u) = 1 => v = <<>>
  BY <1>5
<1>7. Len(u) = 2 => v[1] = u[1]
  <2>1. ASSUME Len(u) = 2
        PROVE  v[1] = u[1]
    <3>1. v = SubSeq(u, 1, 1)
      BY <1>4, <2>1
    <3> QED
      BY <2>1, <3>1
  <2> QED
    BY <2>1
<1> QED
  BY <1>2, <1>3, <1>4, <1>5, <1>6, <1>7

LEMMA PopLeads ==
    ASSUME NEW u \in Seq(UndoOps), u # <<>>, Len(u) <= 2,
           NEW D, NEW F, NEW d, NEW b, Leads(u, D, F, d, b)
    PROVE  /\ CanUndo(u[Len(u)], D, F)
           /\ Leads(SubSeq(u, 1, Len(u) - 1), FoldersBack(u[Len(u)], D), FilesBack(u[Len(u)], F), d, b)
<1>1. PICK v : v = SubSeq(u, 1, Len(u) - 1)
  OBVIOUS
<1>2. CASE Len(u) = 1
  <2>1. v = <<>>
    BY <1>1, <1>2, PopIs
  <2>2. CanUndo(u[1], D, F) /\ Outside(FilesBack(u[1], F), d) = b
    BY <1>2 DEF Leads
  <2>3. u[Len(u)] = u[1]
    BY <1>2
  <2>4. Leads(v, FoldersBack(u[1], D), FilesBack(u[1], F), d, b)
    BY <2>1, <2>2, LeadsNone
  <2> QED
    BY <1>1, <2>2, <2>3, <2>4
<1>3. CASE Len(u) = 2
  <2>1. Len(v) = 1 /\ v[1] = u[1] /\ v # <<>>
    BY <1>1, <1>3, PopIs
  <2>2. /\ CanUndo(u[2], D, F)
        /\ CanUndo(u[1], FoldersBack(u[2], D), FilesBack(u[2], F))
        /\ Outside(FilesBack(u[1], FilesBack(u[2], F)), d) = b
    BY <1>3 DEF Leads
  <2> QED
    BY <1>1, <1>3, <2>1, <2>2 DEF Leads
<1> QED
  BY <1>2, <1>3, PopIs

-------------------------------------------------------------------------------
(* What a step of one ingest leaves behind.                                      *)

Only(i) ==
    \A j \in Ingests \ {i} :
        /\ pc'[j] = pc[j] /\ req'[j] = req[j] /\ dest'[j] = dest[j] /\ leaves'[j] = leaves[j]
        /\ folder'[j] = folder[j] /\ slug'[j] = slug[j] /\ undo'[j] = undo[j] /\ before'[j] = before[j]
        /\ ending'[j] = ending[j]

Keeps(i) ==
    /\ Typed' /\ Only(i) /\ Knows(i)' /\ Housed' /\ deleting' = deleting
    /\ pc[i] \notin Ended /\ pc'[i] # "idle" /\ (pc[i] = "idle" => pc'[i] \notin Ended)
    /\ i \in Running' /\ i \notin overlapped => Journal(i)'

LEMMA RequestIs ==
    ASSUME NEW r \in Requests
    PROVE  /\ r.shape \in {"file", "dir", "discs"} /\ r.title \in Bases
           /\ r.parts \in Seq([stem : Bases, content : Contents]) /\ r.parts # <<>>
           /\ r.shape = "discs" => r.staged
           /\ r.shape = "discs" /\ r.dedup => Len(r.parts) >= 2
BY IngestAssumption DEF RequestType

LEMMA RunningIs ==
    ASSUME NEW i \in Ingests
    PROVE  i \in Running <=> pc[i] \notin {"done", "rejected", "failed", "idle"}
BY DEF Running, Ended

LEMMA RunningNext ==
    ASSUME NEW i \in Ingests
    PROVE  i \in Running' <=> pc'[i] \notin {"done", "rejected", "failed", "idle"}
BY DEF Running, Ended

\* A step that touches neither the disk nor the undo stack.
LEMMA QuietKeeps ==
    ASSUME IngestInv, NEW i \in Ingests, pc[i] \notin Ended \cup {"idle"},
           UNCHANGED <<dirs, files, dest, undo, before, deleting>>,
           Typed', Only(i), Knows(i)', pc'[i] # "idle"
    PROVE  Keeps(i)
<1>1. Housed'
  BY DEF IngestInv, Housed, HousedIn
<1>2. i \in Running /\ i \notin overlapped => Journal(i)
  BY DEF IngestInv, Journals
<1>3. i \in Running
  BY DEF Running
<1>4. Journal(i) => Journal(i)'
  BY DEF Journal
<1> QED
  BY <1>1, <1>2, <1>3, <1>4 DEF Keeps

\* The lookup finds nothing, and nothing changes but the stage.
LEMMA DedupMissKeeps ==
    ASSUME IngestInv, NEW i \in Ingests, DedupMiss(i)
    PROVE  Keeps(i)
<1>1. /\ pc[i] = "dedup" /\ pc' = [pc EXCEPT ![i] = AfterDedup(req[i])]
      /\ UNCHANGED <<dirs, files, rows, req, dest, leaves, folder, slug, undo, before, ending, deleting>>
  BY DEF DedupMiss, Goto, libraryVars
<1>2. Typed /\ Knows(i)
  BY DEF IngestInv
<1>3. AfterDedup(req[i]) \in {"naming", "guard"} /\ (AfterDedup(req[i]) = "guard" => req[i].shape # "discs")
  BY DEF AfterDedup
<1>4. Typed'
  BY <1>1, <1>2, <1>3 DEF Typed, LibraryTypeOK, IngestStages
<1>5. Only(i) /\ pc'[i] = AfterDedup(req[i])
  BY <1>1, <1>2 DEF Only, Typed
<1>6. Knows(i)'
  BY <1>1, <1>2, <1>3, <1>5 DEF Knows, AtHome, Repointed
<1> QED
  BY <1>1, <1>3, <1>4, <1>5, <1>6, QuietKeeps DEF Ended

\* Whatever is wrong, the ingest goes on to undo what it has done.
LEMMA RaiseKeeps ==
    ASSUME IngestInv, NEW i \in Ingests, NEW how \in {"rejected", "failed"}, pc[i] \in {"dedup", "guard", "placing", "naming", "persisting"},
           Raise(i, how),
           UNCHANGED <<dirs, files, rows, req, dest, leaves, folder, slug, undo, before, deleting>>
    PROVE  Keeps(i)
<1>1. pc' = [pc EXCEPT ![i] = "undoing"] /\ ending' = [ending EXCEPT ![i] = how]
  BY DEF Raise, Goto
<1>2. Typed /\ Knows(i)
  BY DEF IngestInv
<1>3. how \in Ended
  BY DEF Ended
<1>4. Typed'
  BY <1>1, <1>2, <1>3 DEF Typed, LibraryTypeOK, IngestStages
<1>5. Only(i) /\ pc'[i] = "undoing" /\ ending'[i] = how
  BY <1>1, <1>2 DEF Only, Typed
<1>6. Knows(i)'
  <2>1. undo[i] \in Seq(UndoOps) /\ Len(undo[i]) <= 2
    BY <1>2 DEF Knows, Typed
  <2>2. req[i] \in Requests
    BY <1>2 DEF Knows
  <2> QED
    BY <1>5, <2>1, <2>2 DEF Knows
<1> QED
  BY <1>4, <1>5, <1>6, QuietKeeps DEF Ended

LEMMA TwinsAre ==
    ASSUME Typed, NEW p, NEW f \in Twins(p)
    PROVE  f \in files /\ f \in Files /\ PathOf(f) \in Paths /\ PathOf(f).dir = f.dir
<1>1. f \in files /\ f \in Files
  BY DEF Twins, Typed, LibraryTypeOK
<1> QED
  BY <1>1, FileIs DEF PathOf

LEMMA OneLeaf ==
    ASSUME NEW p \in Paths
    PROVE  <<p>> \in Seq(Paths) /\ Len(<<p>>) = 1 /\ <<p>> # <<>> /\ <<p>>[1] = p /\ DOMAIN <<p>> = {1}
OBVIOUS

\* The upload goes on with the file that is there.
LEMMA DedupFileKeeps ==
    ASSUME IngestInv, NEW i \in Ingests, DedupFile(i)
    PROVE  Keeps(i)
<1>1. PICK f \in Twins(Anchor(i)) :
        /\ pc[i] = "dedup" /\ req[i].shape = "file" /\ pc' = [pc EXCEPT ![i] = "dropping"]
        /\ leaves' = [leaves EXCEPT ![i] = <<PathOf(f)>>]
        /\ UNCHANGED <<dirs, files, rows, req, dest, folder, slug, undo, before, ending, deleting>>
  BY DEF DedupFile, Goto, libraryVars
<1>2. Typed /\ Knows(i)
  BY DEF IngestInv
<1>3. PICK p \in Paths : p = PathOf(f)
  BY <1>2, TwinsAre
<1>4. leaves' = [leaves EXCEPT ![i] = <<p>>] /\ leaves' \in [Ingests -> Seq(Paths)]
  BY <1>1, <1>2, <1>3, OneLeaf DEF Typed
<1>5. Typed'
  BY <1>1, <1>2, <1>4 DEF Typed, LibraryTypeOK, IngestStages
<1>6. Only(i) /\ pc'[i] = "dropping" /\ leaves'[i] = <<p>>
  BY <1>1, <1>2, <1>4 DEF Only, Typed
<1>7. Knows(i)'
  BY <1>1, <1>2, <1>6, OneLeaf DEF Knows
<1> QED
  BY <1>1, <1>5, <1>6, <1>7, QuietKeeps DEF Ended

\* What it staged goes, and the files are those of before.
LEMMA DropOwnKeeps ==
    ASSUME IngestInv, NEW i \in Ingests, DropOwn(i)
    PROVE  Keeps(i)
<1>1. /\ pc[i] = "dropping" /\ pc' = [pc EXCEPT ![i] = "guard"]
      /\ UNCHANGED <<rows, req, dest, leaves, folder, slug, undo, before, ending, deleting>>
      /\ RmTrees({dest[i]})
  BY DEF DropOwn, Goto
<1>2. Typed /\ Knows(i) /\ Housed
  BY DEF IngestInv
<1>3. dest[i] \in Names /\ req[i].shape = "file" /\ undo[i] = <<>> /\ leaves[i] # <<>> /\ req[i] \in Requests
  BY <1>1, <1>2 DEF Knows
<1>4. dirs' = dirs \ {dest[i]} /\ files' = Outside(files, dest[i])
  BY <1>1, <1>3, NamesAre DEF RmTrees, Outside
<1>5. Typed'
  BY <1>1, <1>2, <1>4 DEF Typed, LibraryTypeOK, IngestStages, Outside
<1>6. Only(i) /\ pc'[i] = "guard"
  BY <1>1, <1>2 DEF Only, Typed
<1>7. Knows(i)'
  BY <1>1, <1>3, <1>6 DEF Knows
<1>8. Housed'
  BY <1>2, <1>4 DEF Housed, HousedIn, Outside
<1>9. i \notin overlapped => Journal(i)'
  <2>1. ASSUME i \notin overlapped
        PROVE  Leads(<<>>, dirs', files', dest[i], before[i])
    <3>1. i \in Running
      BY <1>1, RunningIs
    <3>2. Leads(<<>>, dirs, files, dest[i], before[i])
      BY <1>3, <2>1, <3>1 DEF IngestInv, Journals, Journal
    <3>3. Outside(files, dest[i]) = before[i]
      BY <3>2, LeadsNone
    <3>4. Outside(Outside(files, dest[i]), dest[i]) = before[i]
      BY <3>3 DEF Outside
    <3> QED
      BY <1>4, <3>4, LeadsNone
  <2> QED
    BY <1>1, <1>3, <2>1 DEF Journal
<1> QED
  BY <1>1, <1>5, <1>6, <1>7, <1>8, <1>9 DEF Keeps, Ended

\* The first disc is led elsewhere; the others keep the folder named for them.
LEMMA DedupAnchorKeeps ==
    ASSUME IngestInv, NEW i \in Ingests, DedupAnchor(i)
    PROVE  Keeps(i)
<1>1. PICK f \in Twins(Anchor(i)) :
        /\ pc[i] = "dedup" /\ req[i].shape = "discs"
        /\ \/ /\ Raise(i, "rejected")
              /\ UNCHANGED <<files, leaves>>
           \/ /\ files' = files \ At(Anchor(i))
              /\ leaves' = [leaves EXCEPT ![i][1] = PathOf(f)]
              /\ pc' = [pc EXCEPT ![i] = "naming"]
              /\ UNCHANGED ending
        /\ UNCHANGED <<dirs, rows, req, dest, folder, slug, undo, before, deleting>>
  BY DEF DedupAnchor, Goto
<1>2. Typed /\ Knows(i) /\ Housed
  BY DEF IngestInv
<1>3. CASE Raise(i, "rejected") /\ UNCHANGED <<files, leaves>>
  BY <1>1, <1>3, RaiseKeeps DEF Ended
<1>4. CASE /\ files' = files \ At(Anchor(i))
           /\ leaves' = [leaves EXCEPT ![i][1] = PathOf(f)]
           /\ pc' = [pc EXCEPT ![i] = "naming"]
           /\ UNCHANGED ending
  <2>1. /\ AtHome(i) /\ leaves[i][1].dir = dest[i] /\ folder[i] = dest[i] /\ undo[i] = <<>>
        /\ req[i].dedup /\ req[i] \in Requests /\ dest[i] \in Names
    BY <1>1, <1>2 DEF Knows
  <2>2. PICK p \in Paths : p = PathOf(f)
    BY <1>2, TwinsAre
  <2>3. PICK u \in Seq(Paths) : u = leaves[i]
    BY <1>2 DEF Typed
  <2>4. PICK v : v = [u EXCEPT ![1] = p]
    OBVIOUS
  <2>5. v \in Seq(Paths) /\ DOMAIN v = DOMAIN u /\ Len(v) = Len(u) /\ \A k \in DOMAIN u : k # 1 => v[k] = u[k]
    <3>1. u # <<>>
      BY <2>1, <2>3 DEF AtHome
    <3>2. 1 \in 1..Len(u)
      BY <3>1
    <3> QED
      BY <2>4, <3>2, ExceptSeq
  <2>6. leaves' = [leaves EXCEPT ![i] = v] /\ leaves'[i] = v
    BY <1>2, <1>4, <2>2, <2>3, <2>4 DEF Typed
  <2>7. Typed'
    BY <1>1, <1>2, <1>4, <2>5, <2>6 DEF Typed, LibraryTypeOK, IngestStages
  <2>8. Only(i) /\ pc'[i] = "naming"
    BY <1>1, <1>2, <1>4, <2>6 DEF Only, Typed
  <2>9. AtHome(i)'
    <3>1. Repointed(i)
      BY <1>1, <2>1 DEF Repointed
    <3>2. Repointed(i)' /\ folder'[i] = folder[i] /\ folder[i] \in Names
      BY <1>1, <3>1, <2>1 DEF Repointed, AtHome
    <3>3. Len(u) >= 2 /\ u # <<>> /\ \A k \in DOMAIN u : u[k].dir = folder[i] \/ k = 1
      BY <2>1, <2>3, <3>1 DEF AtHome
    <3>4. Len(v) >= 2 /\ v # <<>> /\ \A k \in DOMAIN v : v[k].dir = folder[i] \/ k = 1
      BY <2>5, <3>3
    <3> QED
      BY <2>6, <3>2, <3>4 DEF AtHome
  <2>10. Knows(i)'
    BY <1>1, <2>1, <2>8, <2>9 DEF Knows
  <2>11. Housed'
    BY <1>1, <1>2, <1>4 DEF Housed, HousedIn
  <2>12. i \notin overlapped => Journal(i)'
    <3>1. ASSUME i \notin overlapped
          PROVE  Leads(<<>>, dirs', files', dest[i], before[i])
      <4>1. i \in Running
        BY <1>1, RunningIs
      <4>2. Leads(<<>>, dirs, files, dest[i], before[i])
        BY <2>1, <3>1, <4>1 DEF IngestInv, Journals, Journal
      <4>3. Outside(files, dest[i]) = before[i]
        BY <4>2, LeadsNone
      <4>4. Anchor(i) \in Paths /\ Anchor(i).dir = dest[i]
        <5>1. u # <<>> /\ Anchor(i) = u[1]
          BY <2>1, <2>3 DEF Anchor, AtHome
        <5> QED
          BY <2>1, <2>3, <5>1
      <4>5. At(Anchor(i)) = AtIn(files, Anchor(i))
        BY <1>2, <4>4, AtIs
      <4>6. Outside(files \ AtIn(files, Anchor(i)), dest[i]) = Outside(files, dest[i])
        BY <4>4 DEF Outside, AtIn
      <4>7. Outside(files', dest[i]) = before[i]
        BY <1>4, <4>3, <4>5, <4>6
      <4> QED
        BY <4>7, LeadsNone
    <3> QED
      BY <1>1, <2>1, <3>1 DEF Journal
  <2> QED
    BY <1>1, <2>7, <2>8, <2>10, <2>11, <2>12 DEF Keeps, Ended
<1> QED
  BY <1>1, <1>3, <1>4

LEMMA DedupGoneKeeps ==
    ASSUME IngestInv, NEW i \in Ingests, DedupGone(i)
    PROVE  Keeps(i)
BY RaiseKeeps DEF DedupGone, libraryVars, Ended

LEMMA GuardRefusesKeeps ==
    ASSUME IngestInv, NEW i \in Ingests, GuardRefuses(i)
    PROVE  Keeps(i)
BY RaiseKeeps DEF GuardRefuses, libraryVars, Ended

LEMMA NameRefusedKeeps ==
    ASSUME IngestInv, NEW i \in Ingests, NameRefused(i)
    PROVE  Keeps(i)
BY RaiseKeeps DEF NameRefused, libraryVars, Ended

LEMMA SlugCollisionKeeps ==
    ASSUME IngestInv, NEW i \in Ingests, SlugCollision(i)
    PROVE  Keeps(i)
BY RaiseKeeps DEF SlugCollision, libraryVars, Ended

LEMMA FaultKeeps ==
    ASSUME IngestInv, NEW i \in Ingests, Fault(i)
    PROVE  Keeps(i)
BY RaiseKeeps DEF Fault, libraryVars, Ended

LEMMA AnchorIs ==
    ASSUME Typed, NEW i \in Ingests, leaves[i] # <<>>
    PROVE  Anchor(i) \in Paths /\ Anchor(i).dir \in Names \cup {Root} /\ Anchor(i).stem \in Bases
<1>1. PICK u \in Seq(Paths) : u = leaves[i]
  BY DEF Typed
<1>2. u[1] \in Paths
  BY <1>1
<1> QED
  BY <1>1, <1>2 DEF Anchor, Paths

LEMMA TargetIs ==
    ASSUME Typed, NEW i \in Ingests, leaves[i] # <<>>, folder[i] \in Names
    PROVE  Target(i) \in Paths /\ Target(i).dir = folder[i]
BY AnchorIs DEF Target, Paths

\* The leaf is a file of the folder that is tracked.
LEMMA GuardDirKeeps ==
    ASSUME IngestInv, NEW i \in Ingests, GuardDir(i)
    PROVE  Keeps(i)
<1>1. PICK f \in Inside(folder[i]) :
        /\ pc[i] = "guard" /\ req[i].shape = "dir" /\ pc' = [pc EXCEPT ![i] = "naming"]
        /\ leaves' = [leaves EXCEPT ![i] = <<PathOf(f)>>]
        /\ UNCHANGED <<dirs, files, rows, req, dest, folder, slug, undo, before, ending, deleting>>
  BY DEF GuardDir, Goto, libraryVars
<1>2. Typed /\ Knows(i)
  BY DEF IngestInv
<1>3. f \in Files /\ f.dir = folder[i]
  BY <1>2 DEF Inside, Typed, LibraryTypeOK
<1>4. PICK p \in Paths : p = PathOf(f)
  BY <1>3, FileIs
<1>5. p.dir = folder[i]
  BY <1>3, <1>4 DEF PathOf
<1>6. leaves' = [leaves EXCEPT ![i] = <<p>>] /\ leaves' \in [Ingests -> Seq(Paths)]
  BY <1>1, <1>2, <1>4, OneLeaf DEF Typed
<1>7. Typed'
  BY <1>1, <1>2, <1>6 DEF Typed, LibraryTypeOK, IngestStages
<1>8. Only(i) /\ pc'[i] = "naming" /\ leaves'[i] = <<p>>
  BY <1>1, <1>2, <1>6 DEF Only, Typed
<1>9. undo[i] = <<>> /\ folder[i] \in Names /\ req[i] \in Requests
  BY <1>1, <1>2 DEF Knows
<1>10. AtHome(i)'
  BY <1>1, <1>5, <1>8, <1>9, OneLeaf DEF AtHome, Repointed
<1>11. Knows(i)'
  BY <1>1, <1>8, <1>9, <1>10 DEF Knows
<1> QED
  BY <1>1, <1>7, <1>8, <1>11, QuietKeeps DEF Ended

\* The folder to place the file in is a name.
LEMMA GuardFileKeeps ==
    ASSUME IngestInv, NEW i \in Ingests, GuardFile(i)
    PROVE  Keeps(i)
<1>0. PICK stem, canonical, usedFor :
        /\ stem = Anchor(i).stem /\ canonical = [dir |-> Plain(stem), stem |-> stem]
        /\ usedFor = {d \in Names : [dir |-> d, stem |-> stem] \in TrackedPaths}
  OBVIOUS
<1>1. /\ pc[i] = "guard" /\ req[i].shape = "file"
      /\ \/ /\ folder' = [folder EXCEPT ![i] = Plain(stem)]
            /\ Goto(i, "placing")
            /\ UNCHANGED ending
         \/ /\ Raise(i, "rejected")
            /\ UNCHANGED folder
         \/ /\ HasFree(Plain(stem), dirs \cup usedFor)
            /\ folder' = [folder EXCEPT ![i] = UniqueSlug(Plain(stem), dirs \cup usedFor)]
            /\ Goto(i, "placing")
            /\ UNCHANGED ending
      /\ UNCHANGED <<dirs, files, rows, req, dest, leaves, slug, undo, before, deleting>>
  BY <1>0 DEF GuardFile, libraryVars
<1>2. Typed /\ Knows(i)
  BY DEF IngestInv
<1>3. undo[i] = <<>> /\ leaves[i] # <<>> /\ req[i] \in Requests
  BY <1>1, <1>2 DEF Knows
<1>4. CASE Raise(i, "rejected") /\ UNCHANGED folder
  BY <1>1, <1>4, RaiseKeeps DEF Ended
<1>5. ASSUME NEW d \in Names, folder' = [folder EXCEPT ![i] = d], Goto(i, "placing"), UNCHANGED ending
      PROVE  Keeps(i)
  <2>1. Typed'
    BY <1>1, <1>2, <1>5 DEF Typed, LibraryTypeOK, IngestStages, Goto
  <2>2. Only(i) /\ pc'[i] = "placing" /\ folder'[i] = d
    BY <1>1, <1>2, <1>5 DEF Only, Typed, Goto
  <2>3. Knows(i)'
    BY <1>1, <1>3, <2>2 DEF Knows
  <2> QED
    BY <1>1, <2>1, <2>2, <2>3, QuietKeeps DEF Ended
<1>6. Plain(stem) \in Names
  <2>1. leaves[i] # <<>>
    BY <1>3
  <2> QED
    BY <1>0, <1>2, <2>1, AnchorIs, NamesAre
<1>7. HasFree(Plain(stem), dirs \cup usedFor) => UniqueSlug(Plain(stem), dirs \cup usedFor) \in Names
  BY <1>6, UniqueSlugIs
<1> QED
  BY <1>1, <1>4, <1>5, <1>6, <1>7

\* The leaf is the file that lies in the folder already.
LEMMA PlaceReuseKeeps ==
    ASSUME IngestInv, NEW i \in Ingests, PlaceReuse(i)
    PROVE  Keeps(i)
<1>1. /\ pc[i] = "placing" /\ pc' = [pc EXCEPT ![i] = "naming"]
      /\ leaves' = [leaves EXCEPT ![i] = <<Target(i)>>]
      /\ UNCHANGED <<dirs, files, rows, req, dest, folder, slug, undo, before, ending, deleting>>
  BY DEF PlaceReuse, Goto, libraryVars
<1>2. Typed /\ Knows(i)
  BY DEF IngestInv
<1>3. /\ undo[i] = <<>> /\ req[i].shape = "file" /\ leaves[i] # <<>>
      /\ folder[i] \in Names /\ req[i] \in Requests
  BY <1>1, <1>2 DEF Knows
<1>4. leaves[i] # <<>>
  BY <1>3
<1>5. PICK p \in Paths : p = Target(i) /\ p.dir = folder[i]
  BY <1>2, <1>3, <1>4, TargetIs
<1>6. leaves' = [leaves EXCEPT ![i] = <<p>>] /\ leaves' \in [Ingests -> Seq(Paths)]
  BY <1>1, <1>2, <1>5, OneLeaf DEF Typed
<1>7. Typed'
  BY <1>1, <1>2, <1>6 DEF Typed, LibraryTypeOK, IngestStages
<1>8. Only(i) /\ pc'[i] = "naming" /\ leaves'[i] = <<p>>
  BY <1>1, <1>2, <1>6 DEF Only, Typed
<1>9. AtHome(i)'
  BY <1>1, <1>3, <1>5, <1>8, OneLeaf DEF AtHome, Repointed
<1>10. Knows(i)'
  BY <1>1, <1>3, <1>8, <1>9 DEF Knows
<1> QED
  BY <1>1, <1>7, <1>8, <1>10, QuietKeeps DEF Ended

\* Nothing is in the new folder, for it is not there: renaming back restores.
LEMMA PlaceRenameKeeps ==
    ASSUME IngestInv, NEW i \in Ingests, PlaceRename(i)
    PROVE  Keeps(i)
<1>0. PICK home, new : home = Anchor(i).dir /\ new = folder[i]
  OBVIOUS
<1>1. /\ pc[i] = "placing" /\ home # Root /\ home \in dirs /\ new \notin dirs
      /\ dirs' = (dirs \ {home}) \cup {new} /\ files' = Renamed(files, home, new)
      /\ undo' = [undo EXCEPT ![i] = Append(@, [kind |-> "dir", old |-> home, new |-> new])]
      /\ leaves' = [leaves EXCEPT ![i] = <<Target(i)>>]
      /\ pc' = [pc EXCEPT ![i] = "naming"]
      /\ UNCHANGED <<rows, req, dest, folder, slug, before, ending, deleting>>
  BY <1>0 DEF PlaceRename, Goto, MayRename, RenameDir, Push, Renamed
<1>2. Typed /\ Knows(i) /\ HousedIn(dirs, files)
  BY DEF IngestInv, Housed
<1>3. /\ undo[i] = <<>> /\ req[i].shape = "file" /\ leaves[i] # <<>>
      /\ new \in Names /\ req[i] \in Requests
  BY <1>0, <1>1, <1>2 DEF Knows
<1>4. dirs \in SUBSET Names /\ files \in SUBSET Files /\ home \in Names
  BY <1>1, <1>2 DEF Typed, LibraryTypeOK
<1>5. PICK p \in Paths : p = Target(i) /\ p.dir = new
  <2>1. leaves[i] # <<>>
    BY <1>3
  <2> QED
    BY <1>0, <1>2, <1>3, <2>1, TargetIs
<1>6. leaves' = [leaves EXCEPT ![i] = <<p>>] /\ leaves' \in [Ingests -> Seq(Paths)]
  BY <1>1, <1>2, <1>5, OneLeaf DEF Typed
<1>7. PICK op \in UndoOps : op = [kind |-> "dir", old |-> home, new |-> new]
  BY <1>3, <1>4 DEF UndoOps, DirOps
<1>8. undo' = [undo EXCEPT ![i] = Append(<<>>, op)] /\ undo' \in [Ingests -> Seq(UndoOps)]
      /\ Append(<<>>, op) \in Seq(UndoOps) /\ Len(Append(<<>>, op)) = 1
  <2>1. Append(<<>>, op) \in Seq(UndoOps) /\ Len(Append(<<>>, op)) = 1
    OBVIOUS
  <2>2. undo' = [undo EXCEPT ![i] = Append(<<>>, op)]
    BY <1>1, <1>3, <1>7
  <2> QED
    BY <1>2, <2>1, <2>2 DEF Typed
<1>9. dirs' \in SUBSET Names /\ files' \in SUBSET Files /\ Housed'
  <2>1. /\ Renamed(files, home, new) \in SUBSET Files
        /\ HousedIn((dirs \ {home}) \cup {new}, Renamed(files, home, new))
    BY <1>2, <1>3, <1>4, RenamedTyped
  <2> QED
    BY <1>1, <1>3, <1>4, <2>1 DEF Housed
<1>10. Typed'
  BY <1>1, <1>2, <1>6, <1>8, <1>9 DEF Typed, LibraryTypeOK, IngestStages
<1>11. Only(i) /\ pc'[i] = "naming" /\ leaves'[i] = <<p>> /\ undo'[i] = Append(<<>>, op)
  BY <1>1, <1>2, <1>6, <1>8 DEF Only, Typed
<1>12. AtHome(i)'
  BY <1>0, <1>1, <1>3, <1>5, <1>11, OneLeaf DEF AtHome, Repointed
<1>13. Knows(i)'
  BY <1>1, <1>3, <1>8, <1>11, <1>12 DEF Knows
<1>14. i \notin overlapped => Journal(i)'
  <2>1. ASSUME i \notin overlapped
        PROVE  Journal(i)'
    <3>1. i \in Running
      BY <1>1, RunningIs
    <3>2. Leads(<<>>, dirs, files, dest[i], before[i])
      BY <1>3, <2>1, <3>1 DEF IngestInv, Journals, Journal
    <3>3. <<>> \in Seq(UndoOps) /\ Len(<<>>) <= 1
      OBVIOUS
    <3>4. Leads(Append(<<>>, op), (dirs \ {home}) \cup {new}, Renamed(files, home, new), dest[i], before[i])
      BY <1>1, <1>2, <1>3, <1>4, <1>7, <3>2, <3>3, PushRename
    <3> QED
      BY <1>1, <1>11, <3>4 DEF Journal
  <2> QED
    BY <2>1
<1> QED
  BY <1>1, <1>9, <1>10, <1>11, <1>13, <1>14 DEF Keeps, Ended

\* Nothing is at the target: moving back restores.
LEMMA PlaceMoveKeeps ==
    ASSUME IngestInv, NEW i \in Ingests, PlaceMove(i)
    PROVE  Keeps(i)
<1>0. PICK p, q : p = Anchor(i) /\ q = Target(i)
  OBVIOUS
<1>1. /\ pc[i] = "placing" /\ Present(p) /\ ~Present(q)
      /\ dirs' = dirs \cup {folder[i]} /\ MoveFile(p, q)
      /\ undo' = [undo EXCEPT ![i] = Append(@, [kind |-> "file", old |-> p, new |-> q])]
      /\ leaves' = [leaves EXCEPT ![i] = <<q>>]
      /\ pc' = [pc EXCEPT ![i] = "naming"]
      /\ UNCHANGED <<rows, req, dest, folder, slug, before, ending, deleting>>
  BY <1>0 DEF PlaceMove, Goto, Push
<1>2. Typed /\ Knows(i) /\ HousedIn(dirs, files)
  BY DEF IngestInv, Housed
<1>3. /\ undo[i] = <<>> /\ req[i].shape = "file" /\ leaves[i] # <<>>
      /\ folder[i] \in Names /\ req[i] \in Requests
  BY <1>1, <1>2 DEF Knows
<1>4. dirs \in SUBSET Names /\ files \in SUBSET Files
  BY <1>2 DEF Typed, LibraryTypeOK
<1>5. p \in Paths /\ q \in Paths /\ q.dir = folder[i]
  BY <1>0, <1>2, <1>3, AnchorIs, TargetIs
<1>6. AtIn(files, p) # {} /\ AtIn(files, q) = {} /\ files' = Moved(files, p, q)
  BY <1>1, <1>2, <1>5, AtIs DEF Present, MoveFile, Moved, PutAt
<1>7. leaves' = [leaves EXCEPT ![i] = <<q>>] /\ leaves' \in [Ingests -> Seq(Paths)]
  BY <1>1, <1>2, <1>5, OneLeaf DEF Typed
<1>8. PICK op \in UndoOps : op = [kind |-> "file", old |-> p, new |-> q]
  BY <1>5 DEF UndoOps, FileOps
<1>9. undo' = [undo EXCEPT ![i] = Append(<<>>, op)] /\ undo' \in [Ingests -> Seq(UndoOps)]
      /\ Append(<<>>, op) \in Seq(UndoOps) /\ Len(Append(<<>>, op)) = 1
  <2>1. Append(<<>>, op) \in Seq(UndoOps) /\ Len(Append(<<>>, op)) = 1
    OBVIOUS
  <2>2. undo' = [undo EXCEPT ![i] = Append(<<>>, op)]
    BY <1>1, <1>3, <1>8
  <2> QED
    BY <1>2, <2>1, <2>2 DEF Typed
<1>10. dirs' \in SUBSET Names /\ files' \in SUBSET Files /\ Housed'
  <2>1. HousedIn(dirs \cup {folder[i]}, files)
    BY <1>2 DEF HousedIn
  <2>2. Moved(files, p, q) \in SUBSET Files /\ HousedIn(dirs \cup {folder[i]}, Moved(files, p, q))
    BY <1>4, <1>5, <2>1, MovedTyped
  <2> QED
    BY <1>1, <1>3, <1>4, <1>6, <2>2 DEF Housed
<1>11. Typed'
  BY <1>1, <1>2, <1>7, <1>9, <1>10 DEF Typed, LibraryTypeOK, IngestStages
<1>12. Only(i) /\ pc'[i] = "naming" /\ leaves'[i] = <<q>> /\ undo'[i] = Append(<<>>, op)
  BY <1>1, <1>2, <1>7, <1>9 DEF Only, Typed
<1>13. AtHome(i)'
  BY <1>1, <1>3, <1>5, <1>12, OneLeaf DEF AtHome, Repointed
<1>14. Knows(i)'
  BY <1>1, <1>3, <1>9, <1>12, <1>13 DEF Knows
<1>15. i \notin overlapped => Journal(i)'
  <2>1. ASSUME i \notin overlapped
        PROVE  Journal(i)'
    <3>1. i \in Running
      BY <1>1, RunningIs
    <3>2. Leads(<<>>, dirs, files, dest[i], before[i])
      BY <1>3, <2>1, <3>1 DEF IngestInv, Journals, Journal
    <3>3. PICK E : E = dirs \cup {folder[i]}
      OBVIOUS
    <3>4. Leads(Append(<<>>, op), E, Moved(files, p, q), dest[i], before[i])
      BY <1>2, <1>4, <1>5, <1>6, <1>8, <3>2, <3>3, PushMove
    <3> QED
      BY <1>1, <1>6, <1>12, <3>3, <3>4 DEF Journal
  <2> QED
    BY <2>1
<1> QED
  BY <1>1, <1>10, <1>11, <1>12, <1>14, <1>15 DEF Keeps, Ended

\* At most an empty folder is made.
LEMMA PlaceRefusedKeeps ==
    ASSUME IngestInv, NEW i \in Ingests, PlaceRefused(i)
    PROVE  Keeps(i)
<1>1. /\ pc[i] = "placing" /\ pc' = [pc EXCEPT ![i] = "undoing"] /\ ending' = [ending EXCEPT ![i] = "failed"]
      /\ dirs' = dirs \/ dirs' = dirs \cup {folder[i]}
      /\ UNCHANGED <<files, rows, req, dest, leaves, folder, slug, undo, before, deleting>>
  BY DEF PlaceRefused, Raise, Goto
<1>2. Typed /\ Knows(i) /\ Housed
  BY DEF IngestInv
<1>3. undo[i] = <<>> /\ folder[i] \in Names /\ req[i] \in Requests
  BY <1>1, <1>2 DEF Knows
<1>4. dirs' \in SUBSET Names /\ dirs \subseteq dirs'
  BY <1>1, <1>2, <1>3 DEF Typed, LibraryTypeOK
<1>5. Typed'
  BY <1>1, <1>2, <1>4 DEF Typed, LibraryTypeOK, IngestStages, Ended
<1>6. Only(i) /\ pc'[i] = "undoing" /\ ending'[i] = "failed"
  BY <1>1, <1>2 DEF Only, Typed
<1>7. Knows(i)'
  <2>1. undo'[i] = <<>> /\ Len(<<>>) <= 2 /\ req'[i] \in Requests
    BY <1>1, <1>3
  <2> QED
    BY <1>6, <2>1 DEF Knows
<1>8. Housed'
  BY <1>1, <1>2, <1>4 DEF Housed, HousedIn
<1>9. i \notin overlapped => Journal(i)'
  <2>1. ASSUME i \notin overlapped
        PROVE  Journal(i)'
    <3>1. i \in Running
      BY <1>1, RunningIs
    <3>2. Leads(<<>>, dirs, files, dest[i], before[i])
      BY <1>3, <2>1, <3>1 DEF IngestInv, Journals, Journal
    <3>3. Leads(<<>>, dirs', files, dest[i], before[i])
      BY <3>2, LeadsNone
    <3> QED
      BY <1>1, <1>3, <3>3 DEF Journal
  <2> QED
    BY <2>1
<1> QED
  BY <1>1, <1>5, <1>6, <1>7, <1>8, <1>9 DEF Keeps, Ended

\* What the folder is renamed to is a name.
LEMMA FolderNameIs ==
    ASSUME Typed, NEW i \in Ingests, req[i] \in Requests, NamesLeft(i)
    PROVE  FolderName(i) \in Names
<1>1. PICK n : n = Plain(req[i].title)
  OBVIOUS
<1>2. n \in Names
  BY <1>1, RequestIs, NamesAre
<1>3. PICK free : free = UniqueSlug(n, Slugs)
  OBVIOUS
<1>4. HasFree(n, Slugs) /\ HasFree(free, dirs \cup TrackedDirs)
  BY <1>1, <1>3 DEF NamesLeft
<1>5. free \in Names
  BY <1>2, <1>3, <1>4, UniqueSlugIs
<1>6. UniqueSlug(free, dirs \cup TrackedDirs) \in Names
  BY <1>4, <1>5, UniqueSlugIs
<1> QED
  BY <1>1, <1>3, <1>5, <1>6 DEF FolderName

\* The paths follow the folder.
LEMMA RebaseIs ==
    ASSUME Typed, NEW i \in Ingests, AtHome(i), NEW new \in Names
    PROVE  /\ Rebase(i, new) \in Seq(Paths) /\ Rebase(i, new) # <<>>
           /\ DOMAIN Rebase(i, new) = DOMAIN leaves[i] /\ Len(Rebase(i, new)) = Len(leaves[i])
           /\ \A k \in DOMAIN leaves[i] : Rebase(i, new)[k].dir = new \/ (Repointed(i) /\ k = 1)
<1>1. PICK u \in Seq(Paths) : u = leaves[i]
  BY DEF Typed
<1>2. ASSUME NEW k \in DOMAIN u
      PROVE  /\ [u[k] EXCEPT !.dir = IF @ = folder[i] THEN new ELSE @] \in Paths
             /\ [u[k] EXCEPT !.dir = IF @ = folder[i] THEN new ELSE @].dir
                  = IF u[k].dir = folder[i] THEN new ELSE u[k].dir
  <2>1. PICK p \in Paths : p = u[k]
    BY <1>2
  <2>2. PICK d \in Names \cup {Root} : d = IF p.dir = folder[i] THEN new ELSE p.dir
    BY DEF Paths
  <2>3. [p EXCEPT !.dir = d] \in Paths /\ [p EXCEPT !.dir = d].dir = d
    BY DEF Paths
  <2> QED
    BY <2>1, <2>2, <2>3
<1>3. PICK v : v = [k \in DOMAIN u |-> [u[k] EXCEPT !.dir = IF @ = folder[i] THEN new ELSE @]]
  OBVIOUS
<1>4. DOMAIN u = 1..Len(u) /\ Len(u) \in Nat
  OBVIOUS
<1>5. v \in [1..Len(u) -> Paths]
  BY <1>2, <1>3, <1>4
<1>6. v \in Seq(Paths) /\ DOMAIN v = DOMAIN u /\ Len(v) = Len(u)
  BY <1>4, <1>5
<1>7. u # <<>> /\ \A k \in DOMAIN u : u[k].dir = folder[i] \/ (Repointed(i) /\ k = 1)
  BY <1>1 DEF AtHome
<1>8. v # <<>>
  BY <1>6, <1>7
<1>9. \A k \in DOMAIN u : v[k].dir = new \/ (Repointed(i) /\ k = 1)
  BY <1>2, <1>3, <1>7
<1>10. Rebase(i, new) = v
  BY <1>1, <1>3 DEF Rebase
<1> QED
  BY <1>1, <1>6, <1>8, <1>9, <1>10

\* The second entry of the journal, and the paths follow the folder.
LEMMA NameKeeps ==
    ASSUME IngestInv, NEW i \in Ingests, Name(i)
    PROVE  Keeps(i)
<1>0. PICK new, old : new = FolderName(i) /\ old = folder[i]
  OBVIOUS
<1>1. /\ pc[i] = "naming" /\ NamesLeft(i)
      /\ \/ new = old /\ UNCHANGED <<dirs, files, undo>>
         \/ /\ old \in dirs /\ new \notin dirs
            /\ dirs' = (dirs \ {old}) \cup {new} /\ files' = Renamed(files, old, new)
            /\ undo' = [undo EXCEPT ![i] = Append(@, [kind |-> "dir", old |-> old, new |-> new])]
      /\ leaves' = [leaves EXCEPT ![i] = Rebase(i, new)]
      /\ folder' = [folder EXCEPT ![i] = new]
      /\ slug' = [slug EXCEPT ![i] = new]
      /\ pc' = [pc EXCEPT ![i] = "persisting"]
      /\ UNCHANGED <<rows, req, dest, before, ending, deleting>>
  BY <1>0 DEF Name, FinalSlug, Goto, MayRename, RenameDir, Push, Renamed
<1>2. Typed /\ Knows(i) /\ HousedIn(dirs, files)
  BY DEF IngestInv, Housed
<1>3. AtHome(i) /\ Len(undo[i]) <= 1 /\ req[i] \in Requests
  BY <1>1, <1>2 DEF Knows
<1>4. new \in Names /\ dirs \in SUBSET Names /\ files \in SUBSET Files
  BY <1>0, <1>1, <1>2, <1>3, FolderNameIs DEF Typed, LibraryTypeOK
<1>5. PICK v \in Seq(Paths) : v = Rebase(i, new)
  BY <1>2, <1>3, <1>4, RebaseIs
<1>6. /\ v # <<>> /\ DOMAIN v = DOMAIN leaves[i] /\ Len(v) = Len(leaves[i])
      /\ \A k \in DOMAIN v : v[k].dir = new \/ (Repointed(i) /\ k = 1)
  BY <1>2, <1>3, <1>4, <1>5, RebaseIs
<1>7. leaves' = [leaves EXCEPT ![i] = v] /\ leaves' \in [Ingests -> Seq(Paths)]
  BY <1>1, <1>2, <1>5 DEF Typed
<1>8. PICK u \in Seq(UndoOps) : u = undo[i]
  BY <1>2 DEF Typed
<1>9. folder' \in [Ingests -> Names \cup {NoName}] /\ slug' \in [Ingests -> Names \cup {NoName}]
      /\ pc' \in [Ingests -> IngestStages]
  BY <1>1, <1>2, <1>4 DEF Typed, IngestStages
<1>10. ASSUME Typed', Only(i), Len(undo'[i]) <= 2
       PROVE  Knows(i)'
  <2>1. pc'[i] = "persisting" /\ leaves'[i] = v /\ folder'[i] = new /\ slug'[i] = new
    BY <1>1, <1>2, <1>7 DEF Typed
  <2>2. Repointed(i) => Len(v) >= 2
    BY <1>3, <1>6 DEF AtHome
  <2>3. AtHome(i)'
    BY <1>1, <1>4, <1>6, <2>1, <2>2 DEF AtHome, Repointed
  <2> QED
    BY <1>1, <1>3, <1>10, <2>1, <2>3 DEF Knows
<1>11. CASE new = old /\ UNCHANGED <<dirs, files, undo>>
  <2>1. Typed'
    BY <1>1, <1>2, <1>7, <1>9, <1>11 DEF Typed, LibraryTypeOK
  <2>2. Only(i) /\ pc'[i] = "persisting"
    BY <1>1, <1>2, <1>11 DEF Only, Typed
  <2>3. Len(undo'[i]) <= 2
    BY <1>3, <1>8, <1>11
  <2>4. Knows(i)'
    BY <1>10, <2>1, <2>2, <2>3
  <2> QED
    BY <1>1, <1>11, <2>1, <2>2, <2>4, QuietKeeps DEF Ended
<1>12. CASE /\ old \in dirs /\ new \notin dirs
            /\ dirs' = (dirs \ {old}) \cup {new} /\ files' = Renamed(files, old, new)
            /\ undo' = [undo EXCEPT ![i] = Append(@, [kind |-> "dir", old |-> old, new |-> new])]
  <2>1. PICK op \in UndoOps : op = [kind |-> "dir", old |-> old, new |-> new]
    BY <1>4, <1>12 DEF UndoOps, DirOps
  <2>2. Append(u, op) \in Seq(UndoOps) /\ Len(Append(u, op)) <= 2
    BY <1>3, <1>8, PushedIs
  <2>3. undo' = [undo EXCEPT ![i] = Append(u, op)] /\ undo' \in [Ingests -> Seq(UndoOps)]
    BY <1>2, <1>8, <1>12, <2>1, <2>2 DEF Typed
  <2>4. dirs' \in SUBSET Names /\ files' \in SUBSET Files /\ Housed'
    <3>1. /\ Renamed(files, old, new) \in SUBSET Files
          /\ HousedIn((dirs \ {old}) \cup {new}, Renamed(files, old, new))
      BY <1>2, <1>4, RenamedTyped
    <3> QED
      BY <1>4, <1>12, <3>1 DEF Housed
  <2>5. Typed'
    BY <1>1, <1>2, <1>7, <1>9, <2>3, <2>4 DEF Typed, LibraryTypeOK
  <2>6. Only(i) /\ pc'[i] = "persisting" /\ undo'[i] = Append(u, op)
    BY <1>1, <1>2, <2>3 DEF Only, Typed
  <2>7. Knows(i)'
    BY <1>10, <2>2, <2>5, <2>6
  <2>8. i \notin overlapped => Journal(i)'
    <3>1. ASSUME i \notin overlapped
          PROVE  Journal(i)'
      <4>1. i \in Running
        BY <1>1, RunningIs
      <4>2. Leads(u, dirs, files, dest[i], before[i])
        BY <1>8, <3>1, <4>1 DEF IngestInv, Journals, Journal
      <4>3. Leads(Append(u, op), (dirs \ {old}) \cup {new}, Renamed(files, old, new), dest[i], before[i])
        BY <1>2, <1>3, <1>4, <1>8, <1>12, <2>1, <4>2, PushRename
      <4> QED
        BY <1>1, <1>12, <2>6, <4>3 DEF Journal
    <3> QED
      BY <3>1
  <2> QED
    BY <1>1, <2>4, <2>5, <2>6, <2>7, <2>8 DEF Keeps, Ended
<1> QED
  BY <1>1, <1>11, <1>12

\* The newest entry can be undone, if nothing else was at work.
LEMMA UndoKeeps ==
    ASSUME IngestInv, NEW i \in Ingests, Undo(i)
    PROVE  Keeps(i)
<1>0. PICK u, op : u = undo[i] /\ op = u[Len(u)]
  OBVIOUS
<1>1. /\ pc[i] = "undoing" /\ u # <<>>
      /\ undo' = [undo EXCEPT ![i] = SubSeq(u, 1, Len(u) - 1)]
      /\ IF op.kind = "dir"
         THEN IF MayRename(op.new, op.old) THEN RenameDir(op.new, op.old) ELSE UNCHANGED <<dirs, files>>
         ELSE /\ IF Present(op.new) /\ ~Present(op.old) /\ op.old.dir \in dirs \cup {Root}
                 THEN MoveFile(op.new, op.old) ELSE UNCHANGED files
              /\ UNCHANGED dirs
      /\ UNCHANGED <<rows, pc, req, dest, leaves, folder, slug, before, ending, deleting>>
  BY <1>0 DEF Undo
<1>2. Typed /\ Knows(i) /\ HousedIn(dirs, files)
  BY DEF IngestInv, Housed
<1>3. u \in Seq(UndoOps) /\ Len(u) <= 2 /\ req[i] \in Requests /\ ending[i] \in {"rejected", "failed"}
  BY <1>0, <1>1, <1>2 DEF Knows, Typed
<1>4. PICK w \in Seq(UndoOps) : w = SubSeq(u, 1, Len(u) - 1)
  BY <1>1, <1>3, PopIs
<1>5. op \in UndoOps /\ Len(w) <= 2
  <2>1. op \in UndoOps /\ Len(w) = Len(u) - 1 /\ (Len(u) = 1 \/ Len(u) = 2)
    BY <1>0, <1>1, <1>3, <1>4, PopIs
  <2>2. CASE Len(u) = 1
    BY <2>1, <2>2
  <2>3. CASE Len(u) = 2
    BY <2>1, <2>3
  <2> QED
    BY <2>1, <2>2, <2>3
<1>6. dirs \in SUBSET Names /\ files \in SUBSET Files
  BY <1>2 DEF Typed, LibraryTypeOK
<1>7. /\ CanUndo(op, dirs, files) => dirs' = FoldersBack(op, dirs) /\ files' = FilesBack(op, files)
      /\ ~CanUndo(op, dirs, files) => UNCHANGED <<dirs, files>>
  <2>1. CASE op.kind = "dir"
    BY <1>1, <2>1 DEF CanUndo, FoldersBack, FilesBack, MayRename, RenameDir, Renamed
  <2>2. CASE op.kind # "dir"
    <3>1. op.new \in Paths /\ op.old \in Paths
      BY <1>5, <2>2 DEF UndoOps, DirOps, FileOps
    <3>2. At(op.new) = AtIn(files, op.new) /\ At(op.old) = AtIn(files, op.old)
      BY <1>2, <3>1, AtIs
    <3> QED
      BY <1>1, <2>2, <3>2 DEF CanUndo, FoldersBack, FilesBack, Present, MoveFile, Moved, PutAt
  <2> QED
    BY <2>1, <2>2
<1>8. dirs' \in SUBSET Names /\ files' \in SUBSET Files /\ HousedIn(dirs', files')
  <2>1. CASE CanUndo(op, dirs, files) /\ op.kind = "dir"
    <3>1. op.old \in Names
      BY <1>5, <2>1 DEF UndoOps, DirOps, FileOps
    <3>2. dirs' = (dirs \ {op.new}) \cup {op.old} /\ files' = Renamed(files, op.new, op.old)
      BY <1>7, <2>1 DEF FoldersBack, FilesBack
    <3>3. /\ Renamed(files, op.new, op.old) \in SUBSET Files
          /\ HousedIn((dirs \ {op.new}) \cup {op.old}, Renamed(files, op.new, op.old))
      BY <1>2, <1>6, <3>1, RenamedTyped
    <3> QED
      BY <1>6, <3>1, <3>2, <3>3
  <2>2. CASE CanUndo(op, dirs, files) /\ op.kind # "dir"
    <3>1. op.old \in Paths /\ op.old.dir \in dirs \cup {Root}
      BY <1>5, <2>2 DEF UndoOps, DirOps, FileOps, CanUndo
    <3>2. dirs' = dirs /\ files' = Moved(files, op.new, op.old)
      BY <1>7, <2>2 DEF FoldersBack, FilesBack
    <3>3. Moved(files, op.new, op.old) \in SUBSET Files /\ HousedIn(dirs, Moved(files, op.new, op.old))
      BY <1>2, <1>6, <3>1, MovedTyped
    <3> QED
      BY <1>6, <3>2, <3>3
  <2>3. CASE ~CanUndo(op, dirs, files)
    BY <1>2, <1>6, <1>7, <2>3
  <2> QED
    BY <2>1, <2>2, <2>3
<1>9. undo' = [undo EXCEPT ![i] = w] /\ undo' \in [Ingests -> Seq(UndoOps)]
  BY <1>1, <1>2, <1>4 DEF Typed
<1>10. Typed'
  BY <1>1, <1>2, <1>8, <1>9 DEF Typed, LibraryTypeOK
<1>11. Only(i) /\ pc'[i] = "undoing" /\ undo'[i] = w
  BY <1>1, <1>2, <1>9 DEF Only, Typed
<1>12. Knows(i)'
  BY <1>1, <1>3, <1>5, <1>11 DEF Knows
<1>13. i \notin overlapped => Journal(i)'
  <2>1. ASSUME i \notin overlapped
        PROVE  Journal(i)'
    <3>1. i \in Running
      BY <1>1, RunningIs
    <3>2. Leads(u, dirs, files, dest[i], before[i])
      BY <1>0, <2>1, <3>1 DEF IngestInv, Journals, Journal
    <3>3. CanUndo(op, dirs, files) /\ Leads(w, FoldersBack(op, dirs), FilesBack(op, files), dest[i], before[i])
      BY <1>0, <1>1, <1>3, <1>4, <3>2, PopLeads
    <3> QED
      BY <1>1, <1>7, <1>11, <3>3 DEF Journal
  <2> QED
    BY <2>1
<1> QED
  BY <1>1, <1>8, <1>10, <1>11, <1>12, <1>13 DEF Keeps, Ended, Housed

\* What clean-up leaves: the files but those of the folder that was staged.
LEMMA CleanUpLeaves ==
    ASSUME IngestInv, NEW i \in Ingests, CleanUp(i)
    PROVE  dirs' = dirs \ {dest[i]} /\ files' = Outside(files, dest[i])
<1>1. Typed
  BY DEF IngestInv
<1>2. Root \notin {dest[i]}
  BY <1>1, NamesAre DEF Typed
<1> QED
  BY <1>2 DEF CleanUp, RmTrees, Outside

\* The staged folder goes; what is left is housed.
LEMMA CleanUpKeeps ==
    ASSUME IngestInv, NEW i \in Ingests, CleanUp(i)
    PROVE  Keeps(i)
<1>1. /\ pc[i] = "undoing" /\ pc' = [pc EXCEPT ![i] = ending[i]]
      /\ UNCHANGED <<rows, req, dest, leaves, folder, slug, undo, before, ending, deleting>>
  BY DEF CleanUp, Goto
<1>2. Typed /\ Knows(i) /\ Housed
  BY DEF IngestInv
<1>3. req[i] \in Requests /\ ending[i] \in {"rejected", "failed"}
  BY <1>1, <1>2 DEF Knows
<1>4. dirs' = dirs \ {dest[i]} /\ files' = Outside(files, dest[i])
  BY CleanUpLeaves
<1>5. Typed'
  BY <1>1, <1>2, <1>3, <1>4 DEF Typed, LibraryTypeOK, IngestStages, Outside
<1>6. Only(i) /\ pc'[i] = ending[i]
  BY <1>1, <1>2 DEF Only, Typed
<1>7. Knows(i)'
  BY <1>1, <1>3, <1>6 DEF Knows
<1>8. Housed'
  BY <1>2, <1>4 DEF Housed, HousedIn, Outside
<1>9. i \notin Running'
  BY <1>3, <1>6, RunningNext
<1> QED
  BY <1>1, <1>3, <1>5, <1>6, <1>7, <1>8, <1>9 DEF Keeps, Ended

-------------------------------------------------------------------------------
(* The start of an ingest.                                                       *)

\* The parts of a request, laid into a folder.
LEMMA PartsAre ==
    ASSUME NEW r \in Requests, NEW d \in Names \cup {Root}
    PROVE  /\ PutInto(d, r) \in SUBSET Files /\ \A f \in PutInto(d, r) : f.dir = d
           /\ PathsIn(d, r) \in Seq(Paths) /\ PathsIn(d, r) # <<>>
           /\ Len(PathsIn(d, r)) = Len(r.parts)
           /\ \A k \in DOMAIN PathsIn(d, r) : PathsIn(d, r)[k].dir = d
           /\ r.parts[1].stem \in Bases
<1>1. PICK s \in Seq([stem : Bases, content : Contents]) : s = r.parts /\ s # <<>>
  BY RequestIs
<1>2. ASSUME NEW k \in DOMAIN s
      PROVE  s[k].stem \in Bases /\ s[k].content \in Contents
  <2>1. PICK P : P = [stem : Bases, content : Contents]
    OBVIOUS
  <2>2. s \in Seq(P)
    BY <2>1
  <2>3. s[k] \in P
    BY <2>2
  <2> QED
    BY <2>1, <2>3
<1>3. PutInto(d, r) \in SUBSET Files /\ \A f \in PutInto(d, r) : f.dir = d
  BY <1>1, <1>2 DEF PutInto, Files
<1>4. PICK v : v = [k \in DOMAIN s |-> [dir |-> d, stem |-> s[k].stem]]
  OBVIOUS
<1>5. DOMAIN s = 1..Len(s) /\ Len(s) \in Nat /\ Len(s) # 0
  BY <1>1
<1>6. v \in [1..Len(s) -> Paths] /\ \A k \in DOMAIN s : v[k].dir = d
  BY <1>2, <1>4, <1>5 DEF Paths
<1>7. v \in Seq(Paths) /\ Len(v) = Len(s) /\ DOMAIN v = DOMAIN s
  BY <1>5, <1>6
<1>8. v # <<>>
  BY <1>5, <1>7
<1>9. PathsIn(d, r) = v
  BY <1>1, <1>4 DEF PathsIn
<1>10. 1 \in DOMAIN s
  BY <1>5
<1> QED
  BY <1>1, <1>2, <1>3, <1>6, <1>7, <1>8, <1>9, <1>10

\* An ingest begins with an empty journal and nothing staged.
LEMMA BeginIs ==
    ASSUME IngestInv, NEW i \in Ingests, NEW r \in Requests, NEW stage \in {"dedup", "guard", "naming"},
           NEW files0, Begin(i, r, stage, files0)
    PROVE  /\ pc[i] = "idle" /\ undo[i] = <<>> /\ dest[i] = NoName
           /\ pc' = [pc EXCEPT ![i] = stage] /\ pc'[i] = stage
           /\ req' = [req EXCEPT ![i] = r] /\ req'[i] = r
           /\ before' = [before EXCEPT ![i] = files0] /\ before'[i] = files0
           /\ pc' \in [Ingests -> IngestStages] /\ DOMAIN req' = Ingests
           /\ files0 \in SUBSET Files => before' \in [Ingests -> SUBSET Files]
           /\ UNCHANGED <<rows, slug, undo, ending, deleting>>
<1>1. /\ pc[i] = "idle" /\ pc' = [pc EXCEPT ![i] = stage] /\ req' = [req EXCEPT ![i] = r]
      /\ before' = [before EXCEPT ![i] = files0]
      /\ UNCHANGED <<rows, slug, undo, ending, deleting>>
  BY DEF Begin, NextToStart, Goto
<1>2. Typed /\ Knows(i)
  BY DEF IngestInv
<1>3. undo[i] = <<>> /\ dest[i] = NoName
  BY <1>1, <1>2 DEF Knows
<1>4. stage \in IngestStages
  BY DEF IngestStages
<1> QED
  BY <1>1, <1>2, <1>3, <1>4 DEF Typed

\* A folder that was not there holds nothing but what is staged.
LEMMA StageKeeps ==
    ASSUME IngestInv, NEW i \in Ingests, NEW r \in Requests, Stage(i, r)
    PROVE  Keeps(i)
<1>0. PICK d, stage : /\ d = UniqueSlug(Plain(r.title), dirs)
                      /\ stage = IF r.dedup /\ r.shape # "dir" THEN "dedup" ELSE AfterDedup(r)
  OBVIOUS
<1>1. /\ HasFree(Plain(r.title), dirs) /\ Begin(i, r, stage, files)
      /\ dirs' = dirs \cup {d} /\ files' = files \cup PutInto(d, r)
      /\ dest' = [dest EXCEPT ![i] = d]
      /\ leaves' = [leaves EXCEPT ![i] = PathsIn(d, r)]
      /\ folder' = [folder EXCEPT ![i] = d]
  BY <1>0 DEF Stage
<1>2. Typed /\ HousedIn(dirs, files)
  BY DEF IngestInv, Housed
<1>3. dirs \in SUBSET Names /\ files \in SUBSET Files
  BY <1>2 DEF Typed, LibraryTypeOK
<1>4. d \in Names /\ d \notin dirs /\ d # Root
  <2>1. Plain(r.title) \in Names
    BY RequestIs, NamesAre
  <2> QED
    BY <1>0, <1>1, <2>1, UniqueSlugIs, NamesAre
<1>5. /\ stage \in {"dedup", "guard", "naming"}
      /\ stage = "dedup" => r.dedup /\ r.shape # "dir"
      /\ stage = "guard" => r.shape # "discs"
  BY <1>0 DEF AfterDedup
<1>6. /\ pc[i] = "idle" /\ undo[i] = <<>>
      /\ pc' = [pc EXCEPT ![i] = stage] /\ pc'[i] = stage
      /\ req' = [req EXCEPT ![i] = r] /\ req'[i] = r
      /\ before' = [before EXCEPT ![i] = files] /\ before'[i] = files
      /\ pc' \in [Ingests -> IngestStages] /\ DOMAIN req' = Ingests
      /\ before' \in [Ingests -> SUBSET Files]
      /\ UNCHANGED <<rows, slug, undo, ending, deleting>>
  BY <1>1, <1>3, <1>5, BeginIs
<1>7. /\ PutInto(d, r) \in SUBSET Files /\ \A f \in PutInto(d, r) : f.dir = d
      /\ PathsIn(d, r) \in Seq(Paths) /\ PathsIn(d, r) # <<>>
      /\ Len(PathsIn(d, r)) = Len(r.parts)
      /\ \A k \in DOMAIN PathsIn(d, r) : PathsIn(d, r)[k].dir = d
  BY <1>4, PartsAre
<1>8. Typed'
  BY <1>1, <1>2, <1>3, <1>4, <1>6, <1>7 DEF Typed, LibraryTypeOK
<1>9. Only(i)
  BY <1>1, <1>2, <1>6 DEF Only, Typed
<1>10. leaves'[i] = PathsIn(d, r) /\ folder'[i] = d /\ dest'[i] = d
  BY <1>1, <1>2 DEF Typed
<1>11. AtHome(i)' /\ leaves'[i][1].dir = d
  <2>1. PICK v \in Seq(Paths) : v = PathsIn(d, r)
    BY <1>7
  <2>2. v # <<>> /\ (\A k \in DOMAIN v : v[k].dir = d) /\ v[1].dir = d
    BY <1>7, <2>1
  <2>3. Repointed(i)' => Len(v) >= 2
    BY <1>6, <1>7, <2>1, RequestIs DEF Repointed
  <2> QED
    BY <1>4, <1>10, <2>1, <2>2, <2>3 DEF AtHome
<1>12. Knows(i)'
  <2>1. undo'[i] = <<>> /\ Len(undo'[i]) <= 1
    BY <1>6
  <2> QED
    BY <1>4, <1>5, <1>6, <1>7, <1>10, <1>11, <2>1 DEF Knows
<1>13. Housed'
  BY <1>1, <1>2, <1>7 DEF Housed, HousedIn
<1>14. Journal(i)'
  <2>1. Outside(files', d) = files
    BY <1>1, <1>2, <1>4, <1>7 DEF Outside, HousedIn
  <2> QED
    BY <1>6, <1>10, <2>1, LeadsNone DEF Journal
<1> QED
  BY <1>5, <1>6, <1>8, <1>9, <1>12, <1>13, <1>14 DEF Keeps, Ended

\* The file is there before the ingest begins.
LEMMA AdoptFileKeeps ==
    ASSUME IngestInv, NEW i \in Ingests, NEW r \in Requests, AdoptFile(i, r)
    PROVE  Keeps(i)
<1>0. PICK p : p = [dir |-> Root, stem |-> r.parts[1].stem]
  OBVIOUS
<1>1. /\ r.shape = "file" /\ files' = files \cup PutInto(Root, r)
      /\ Begin(i, r, "guard", files')
      /\ leaves' = [leaves EXCEPT ![i] = <<p>>]
      /\ UNCHANGED <<dirs, dest, folder>>
  BY <1>0 DEF AdoptFile
<1>2. Typed /\ HousedIn(dirs, files)
  BY DEF IngestInv, Housed
<1>3. files \in SUBSET Files /\ dirs \in SUBSET Names
  BY <1>2 DEF Typed, LibraryTypeOK
<1>4. /\ PutInto(Root, r) \in SUBSET Files /\ \A f \in PutInto(Root, r) : f.dir = Root
      /\ p \in Paths
  <2>1. /\ PutInto(Root, r) \in SUBSET Files /\ \A f \in PutInto(Root, r) : f.dir = Root
        /\ r.parts[1].stem \in Bases
    BY PartsAre
  <2> QED
    BY <1>0, <2>1 DEF Paths
<1>5. PICK F \in SUBSET Files : F = files'
  BY <1>1, <1>3, <1>4
<1>6. /\ pc[i] = "idle" /\ undo[i] = <<>> /\ dest[i] = NoName
      /\ pc' = [pc EXCEPT ![i] = "guard"] /\ pc'[i] = "guard"
      /\ req' = [req EXCEPT ![i] = r] /\ req'[i] = r
      /\ before' = [before EXCEPT ![i] = F] /\ before'[i] = F
      /\ pc' \in [Ingests -> IngestStages] /\ DOMAIN req' = Ingests
      /\ before' \in [Ingests -> SUBSET Files]
      /\ UNCHANGED <<rows, slug, undo, ending, deleting>>
  <2>1. Begin(i, r, "guard", F)
    BY <1>1, <1>5
  <2> QED
    BY <2>1, BeginIs
<1>7. leaves' = [leaves EXCEPT ![i] = <<p>>] /\ leaves' \in [Ingests -> Seq(Paths)]
  BY <1>1, <1>2, <1>4, OneLeaf DEF Typed
<1>8. Typed'
  BY <1>1, <1>2, <1>5, <1>6, <1>7 DEF Typed, LibraryTypeOK
<1>9. Only(i) /\ leaves'[i] = <<p>>
  BY <1>1, <1>2, <1>6, <1>7 DEF Only, Typed
<1>10. Knows(i)'
  BY <1>1, <1>4, <1>6, <1>9, OneLeaf DEF Knows
<1>11. Housed'
  BY <1>1, <1>2, <1>4 DEF Housed, HousedIn
<1>12. Journal(i)'
  <2>1. Outside(F, NoName) = F
    BY FileIs, NamesAre DEF Outside
  <2>2. dest'[i] = NoName /\ files' = F /\ undo'[i] = <<>> /\ before'[i] = F
    BY <1>1, <1>5, <1>6
  <2> QED
    BY <2>1, <2>2, LeadsNone DEF Journal
<1> QED
  BY <1>6, <1>8, <1>9, <1>10, <1>11, <1>12 DEF Keeps, Ended

\* So is the folder.
LEMMA AdoptDirKeeps ==
    ASSUME IngestInv, NEW i \in Ingests, NEW r \in Requests, AdoptDir(i, r)
    PROVE  Keeps(i)
<1>1. PICK d \in {e \in dirs : Inside(e) = PutInto(e, r)} \cup ({Plain(r.title)} \ dirs) :
        /\ dirs' = dirs \cup {d}
        /\ files' = IF d \in dirs THEN files ELSE files \cup PutInto(d, r)
        /\ folder' = [folder EXCEPT ![i] = d]
        /\ r.shape = "dir" /\ Begin(i, r, "guard", files')
        /\ UNCHANGED <<dest, leaves>>
  BY DEF AdoptDir
<1>2. Typed /\ HousedIn(dirs, files)
  BY DEF IngestInv, Housed
<1>3. files \in SUBSET Files /\ dirs \in SUBSET Names /\ d \in Names
  BY <1>1, <1>2, RequestIs, NamesAre DEF Typed, LibraryTypeOK
<1>4. PutInto(d, r) \in SUBSET Files /\ \A f \in PutInto(d, r) : f.dir = d
  BY <1>3, PartsAre
<1>5. PICK F \in SUBSET Files : F = files'
  BY <1>1, <1>3, <1>4
<1>6. /\ pc[i] = "idle" /\ undo[i] = <<>> /\ dest[i] = NoName
      /\ pc' = [pc EXCEPT ![i] = "guard"] /\ pc'[i] = "guard"
      /\ req' = [req EXCEPT ![i] = r] /\ req'[i] = r
      /\ before' = [before EXCEPT ![i] = F] /\ before'[i] = F
      /\ pc' \in [Ingests -> IngestStages] /\ DOMAIN req' = Ingests
      /\ before' \in [Ingests -> SUBSET Files]
      /\ UNCHANGED <<rows, slug, undo, ending, deleting>>
  <2>1. Begin(i, r, "guard", F)
    BY <1>1, <1>5
  <2> QED
    BY <2>1, BeginIs
<1>7. Typed'
  BY <1>1, <1>2, <1>3, <1>5, <1>6 DEF Typed, LibraryTypeOK
<1>8. Only(i) /\ folder'[i] = d
  BY <1>1, <1>2, <1>6 DEF Only, Typed
<1>9. Knows(i)'
  BY <1>1, <1>3, <1>6, <1>8 DEF Knows
<1>10. Housed'
  BY <1>1, <1>2, <1>4 DEF Housed, HousedIn
<1>11. Journal(i)'
  <2>1. Outside(F, NoName) = F
    BY FileIs, NamesAre DEF Outside
  <2>2. dest'[i] = NoName /\ files' = F /\ undo'[i] = <<>> /\ before'[i] = F
    BY <1>1, <1>5, <1>6
  <2> QED
    BY <2>1, <2>2, LeadsNone DEF Journal
<1> QED
  BY <1>6, <1>7, <1>8, <1>9, <1>10, <1>11 DEF Keeps, Ended

-------------------------------------------------------------------------------
(* Rows.                                                                         *)

\* The slug was free; the rows of the bundle are those of its leaves.
LEMMA PersistKeeps ==
    ASSUME IngestInv, NEW i \in Ingests, Persist(i)
    PROVE  Keeps(i) /\ RowsAre' /\ SlugsDiffer'
<1>0. PICK New : New = {RowOf(i, k) : k \in DOMAIN leaves[i]}
  OBVIOUS
<1>1. /\ pc[i] = "persisting" /\ slug[i] \notin Slugs
      /\ rows' = rows \cup New /\ pc' = [pc EXCEPT ![i] = "done"]
      /\ UNCHANGED <<dirs, files, req, dest, leaves, folder, slug, undo, before, ending, deleting>>
  BY <1>0 DEF Persist, Goto, SlugTaken
<1>2. Typed /\ Knows(i) /\ RowsAre /\ SlugsDiffer
  BY DEF IngestInv
<1>3. AtHome(i) /\ slug[i] = folder[i] /\ folder[i] \in Names /\ req[i] \in Requests
  BY <1>1, <1>2 DEF Knows, AtHome
<1>4. ASSUME NEW s \in New
      PROVE  s \in Rows /\ s.bundle = i /\ s.slug = slug[i]
  <2>1. PICK u \in Seq(Paths) : u = leaves[i]
    BY <1>2 DEF Typed
  <2>2. PICK k \in DOMAIN u : s = RowOf(i, k)
    BY <1>0, <2>1
  <2>3. PICK p \in Paths : p = u[k]
    BY <2>2
  <2>4. p.dir \in Names \cup {Root}
    BY DEF Paths
  <2>5. PICK e \in Names \cup {Root} : e = IF req[i].shape = "discs" THEN p.dir ELSE folder[i]
    BY <1>3, <2>4
  <2>6. s = [bundle |-> i, slug |-> slug[i], path |-> p, folder |-> e]
    BY <2>1, <2>2, <2>3, <2>5 DEF RowOf
  <2>7. i \in Bundles /\ slug[i] \in Names
    BY <1>3, IngestAssumption
  <2> QED
    BY <2>6, <2>7 DEF Rows
<1>5. \A r \in rows : r.bundle # i
  BY <1>1, <1>2 DEF RowsAre
<1>6. rows' \in SUBSET Rows
  BY <1>1, <1>2, <1>4 DEF Typed, LibraryTypeOK
<1>7. Typed'
  BY <1>1, <1>2, <1>6 DEF Typed, LibraryTypeOK, IngestStages
<1>8. Only(i) /\ pc'[i] = "done"
  BY <1>1, <1>2 DEF Only, Typed
<1>9. Knows(i)'
  BY <1>1, <1>2, <1>3, <1>8 DEF Knows, AtHome, Repointed
<1>10. Keeps(i)
  BY <1>1, <1>7, <1>8, <1>9, QuietKeeps DEF Ended
<1>11. RowsAre'
  <2>1. ASSUME NEW j \in Ingests, NEW k
        PROVE  RowOf(j, k)' = RowOf(j, k)
    BY <1>1 DEF RowOf
  <2>2. \A j \in Ingests : {RowOf(j, k) : k \in DOMAIN leaves[j]}' = {RowOf(j, k) : k \in DOMAIN leaves[j]}
    BY <1>1 DEF RowOf
  <2>3. BundleRows(i)' = New
    BY <1>1, <1>4, <1>5 DEF BundleRows
  <2>4. ASSUME NEW j, j # i
        PROVE  BundleRows(j)' = BundleRows(j)
    BY <1>1, <1>4, <2>4 DEF BundleRows
  <2>5. ASSUME NEW r \in rows'
        PROVE  /\ r.bundle \in Ingests /\ pc'[r.bundle] = "done"
               /\ BundleRows(r.bundle)' = {RowOf(r.bundle, k) : k \in DOMAIN leaves[r.bundle]}'
    <3>1. CASE r \in New
      <4>1. PICK j \in Ingests : j = i /\ j = r.bundle
        BY <1>4, <3>1
      <4> QED
        BY <1>0, <1>8, <2>2, <2>3, <4>1
    <3>2. CASE r \in rows
      <4>1. r.bundle \in Ingests /\ pc[r.bundle] = "done" /\ r.bundle # i
            /\ BundleRows(r.bundle) = {RowOf(r.bundle, k) : k \in DOMAIN leaves[r.bundle]}
        BY <1>2, <1>5, <3>2 DEF RowsAre
      <4>2. pc'[r.bundle] = "done"
        BY <1>8, <4>1 DEF Only
      <4> QED
        BY <2>2, <2>4, <4>1, <4>2
    <3> QED
      BY <1>1, <3>1, <3>2
  <2> QED
    BY <2>5 DEF RowsAre
<1>12. SlugsDiffer'
  <2>1. \A r \in rows : r.slug # slug[i]
    BY <1>1 DEF Slugs
  <2> QED
    BY <1>1, <1>2, <1>4, <2>1 DEF SlugsDiffer
<1> QED
  BY <1>10, <1>11, <1>12

\* A step that leaves the rows leaves what they are the rows of.
LEMMA RowsStay ==
    ASSUME IngestInv, NEW i \in Ingests, Keeps(i), rows' = rows
    PROVE  RowsAre' /\ SlugsDiffer'
<1>1. RowsAre /\ SlugsDiffer
  BY DEF IngestInv
<1>2. Only(i) /\ pc[i] # "done"
  BY DEF Keeps, Ended
<1>3. ASSUME NEW r \in rows
      PROVE  /\ pc'[r.bundle] = "done" /\ r.bundle \in Ingests
             /\ BundleRows(r.bundle)' = {RowOf(r.bundle, k) : k \in DOMAIN leaves[r.bundle]}'
  <2>1. PICK j \in Ingests : j = r.bundle
    BY <1>1 DEF RowsAre
  <2>2. pc[j] = "done" /\ j # i /\ BundleRows(j) = {RowOf(j, k) : k \in DOMAIN leaves[j]}
    BY <1>1, <1>2, <2>1 DEF RowsAre
  <2>3. /\ pc'[j] = pc[j] /\ leaves'[j] = leaves[j] /\ slug'[j] = slug[j]
        /\ req'[j] = req[j] /\ folder'[j] = folder[j]
    BY <1>2, <2>2 DEF Only
  <2>4. {RowOf(j, k) : k \in DOMAIN leaves[j]}' = {RowOf(j, k) : k \in DOMAIN leaves[j]}
    BY <2>3 DEF RowOf
  <2>5. BundleRows(j)' = BundleRows(j)
    BY DEF BundleRows
  <2> QED
    BY <2>1, <2>2, <2>3, <2>4, <2>5
<1>4. RowsAre'
  BY <1>3 DEF RowsAre
<1> QED
  BY <1>1, <1>4 DEF SlugsDiffer

\* A step of one ingest leaves what the others know; and an ingest that is not
\* overlapped is alone.
LEMMA KeepsInv ==
    ASSUME IngestInv, NEW i \in Ingests, Keeps(i), RowsAre', SlugsDiffer', Watch
    PROVE  IngestInv'
<1>1. /\ Typed' /\ Only(i) /\ Knows(i)' /\ Housed' /\ deleting' = deleting
      /\ pc[i] \notin Ended /\ pc'[i] # "idle" /\ (pc[i] = "idle" => pc'[i] \notin Ended)
      /\ i \in Running' /\ i \notin overlapped => Journal(i)'
  BY DEF Keeps
<1>2. /\ overlapped \in SUBSET Ingests /\ (\A j \in Ingests : Knows(j))
      /\ OverlapKnown /\ Journals
  BY DEF IngestInv
<1>3. /\ overlapped \subseteq overlapped' /\ overlapped' \in SUBSET Ingests
      /\ \A j \in Running' : j \notin overlapped' => Running' \ {j} = {} /\ deleting' = {}
  BY <1>2 DEF Watch, Running
<1>4. ASSUME NEW j \in Ingests, j # i
      PROVE  Knows(j)'
  <2>1. /\ pc'[j] = pc[j] /\ req'[j] = req[j] /\ dest'[j] = dest[j] /\ leaves'[j] = leaves[j]
        /\ folder'[j] = folder[j] /\ slug'[j] = slug[j] /\ undo'[j] = undo[j] /\ ending'[j] = ending[j]
    BY <1>1, <1>4 DEF Only
  <2>2. Knows(j)
    BY <1>2
  <2> QED
    BY <2>1, <2>2 DEF Knows, AtHome, Repointed
<1>5. OverlapKnown'
  BY <1>3 DEF OverlapKnown
<1>6. ASSUME NEW j \in Running', j \notin overlapped'
      PROVE  Journal(j)'
  <2>1. CASE j = i
    BY <1>1, <1>3, <1>6, <2>1
  <2>2. CASE j # i
    <3>1. j \in Ingests /\ pc'[j] = pc[j] /\ pc'[j] \notin Ended \cup {"idle"}
      BY <1>1, <1>6, <2>2 DEF Only, Running
    <3>2. j \in Running
      BY <3>1 DEF Running
    <3>3. i \notin Running'
      BY <1>3, <1>6, <2>2
    <3>4. i \in Running
      BY <1>1, <3>3 DEF Running
    <3> QED
      BY <1>2, <1>3, <1>6, <2>2, <3>2, <3>4 DEF OverlapKnown
  <2> QED
    BY <2>1, <2>2
<1> QED
  BY <1>1, <1>3, <1>4, <1>5, <1>6 DEF IngestInv, Journals

\* Whoever is at work is overlapped.
LEMMA DeleteMediaKeeps ==
    ASSUME IngestInv, NEW b \in Bundles, DeleteMedia(b), Watch
    PROVE  IngestInv'
<1>1. /\ deleting' = deleting \cup {b} /\ RmTrees({r.folder : r \in BundleRows(b)})
      /\ UNCHANGED <<rows, pc, req, dest, leaves, folder, slug, undo, before, ending>>
  BY DEF DeleteMedia
<1>2. /\ Typed /\ overlapped \in SUBSET Ingests /\ (\A j \in Ingests : Knows(j))
      /\ RowsAre /\ SlugsDiffer /\ HousedIn(dirs, files)
  BY DEF IngestInv, Housed
<1>3. Typed' /\ Housed'
  <2>1. dirs \in SUBSET Names /\ files \in SUBSET Files
    BY <1>2 DEF Typed, LibraryTypeOK
  <2>2. dirs' \in SUBSET Names /\ files' \in SUBSET Files /\ HousedIn(dirs', files')
    BY <1>1, <1>2, <2>1 DEF RmTrees, HousedIn
  <2> QED
    BY <1>1, <1>2, <2>2 DEF Typed, LibraryTypeOK, Housed
<1>4. \A j \in Ingests : Knows(j)'
  BY <1>1, <1>2 DEF Knows, AtHome, Repointed
<1>5. RowsAre' /\ SlugsDiffer'
  BY <1>1, <1>2 DEF RowsAre, SlugsDiffer, BundleRows, RowOf
<1>6. Running' \subseteq overlapped' /\ overlapped' \in SUBSET Ingests
  BY <1>1, <1>2 DEF Watch, Running
<1> QED
  BY <1>3, <1>4, <1>5, <1>6 DEF IngestInv, OverlapKnown, Journals

\* The rows of one bundle go, and the disk stays.
LEMMA DeleteRowsKeeps ==
    ASSUME IngestInv, NEW b \in Bundles, DeleteRows(b), Watch
    PROVE  IngestInv'
<1>1. /\ rows' = rows \ BundleRows(b) /\ deleting' = deleting \ {b}
      /\ UNCHANGED <<dirs, files, pc, req, dest, leaves, folder, slug, undo, before, ending>>
  BY DEF DeleteRows
<1>2. /\ Typed /\ overlapped \in SUBSET Ingests /\ (\A j \in Ingests : Knows(j))
      /\ RowsAre /\ SlugsDiffer /\ Housed /\ Journals
  BY DEF IngestInv
<1>3. Typed' /\ Housed'
  BY <1>1, <1>2 DEF Typed, LibraryTypeOK, Housed, HousedIn
<1>4. \A j \in Ingests : Knows(j)'
  BY <1>1, <1>2 DEF Knows, AtHome, Repointed
<1>5. RowsAre'
  <2>1. ASSUME NEW r \in rows'
        PROVE  /\ r.bundle \in Ingests /\ pc'[r.bundle] = "done"
               /\ BundleRows(r.bundle)' = {RowOf(r.bundle, k) : k \in DOMAIN leaves[r.bundle]}'
    <3>1. r \in rows /\ r.bundle # b
      BY <1>1 DEF BundleRows
    <3>2. BundleRows(r.bundle)' = BundleRows(r.bundle)
      BY <1>1, <3>1 DEF BundleRows
    <3>3. {RowOf(r.bundle, k) : k \in DOMAIN leaves[r.bundle]}' = {RowOf(r.bundle, k) : k \in DOMAIN leaves[r.bundle]}
      BY <1>1 DEF RowOf
    <3> QED
      BY <1>1, <1>2, <3>1, <3>2, <3>3 DEF RowsAre
  <2> QED
    BY <2>1 DEF RowsAre
<1>6. SlugsDiffer'
  BY <1>1, <1>2 DEF SlugsDiffer
<1>7. Running' = Running
  BY <1>1 DEF Running
<1>8. overlapped' \in SUBSET Ingests /\ OverlapKnown'
  BY <1>1, <1>2 DEF Watch, Running, OverlapKnown
<1>9. Journals'
  <2>1. overlapped \subseteq overlapped'
    BY DEF Watch
  <2>2. ASSUME NEW j
        PROVE  Journal(j)' = Journal(j)
    BY <1>1 DEF Journal
  <2> QED
    BY <1>2, <1>7, <2>1, <2>2 DEF Journals
<1> QED
  BY <1>3, <1>4, <1>5, <1>6, <1>8, <1>9 DEF IngestInv

-------------------------------------------------------------------------------
(* The invariant.                                                                *)

LEMMA IngestInit == Init => IngestInv
<1> SUFFICES ASSUME Init
             PROVE  IngestInv
  OBVIOUS
<1> USE DEF Init, LibraryInit
<1>1. <<>> \in Seq(Paths) /\ <<>> \in Seq(UndoOps)
  OBVIOUS
<1>2. Typed
  BY <1>1 DEF Typed, LibraryTypeOK, IngestStages, Ended
<1>3. \A i \in Ingests : Knows(i)
  <2>1. ASSUME NEW i \in Ingests
        PROVE  pc[i] = "idle" /\ undo[i] = <<>> /\ dest[i] = NoName
    OBVIOUS
  <2> QED
    BY <2>1 DEF Knows
<1>4. RowsAre /\ SlugsDiffer /\ Housed
  BY DEF RowsAre, SlugsDiffer, Housed, HousedIn
<1>5. Running = {}
  BY DEF Running
<1> QED
  BY <1>2, <1>3, <1>4, <1>5 DEF IngestInv, OverlapKnown, Journals

\* Every step of an ingest keeps what it knows.
LEMMA StepKeeps ==
    ASSUME IngestInv, NEW i \in Ingests,
           Start(i) \/ Dedup(i) \/ Guard(i) \/ Place(i) \/ Finish(i) \/ GiveUp(i)
    PROVE  Keeps(i) /\ RowsAre' /\ SlugsDiffer'
<1>1. CASE Persist(i)
  BY <1>1, PersistKeeps
<1>2. ASSUME Keeps(i), rows' = rows
      PROVE  Keeps(i) /\ RowsAre' /\ SlugsDiffer'
  BY <1>2, RowsStay
<1>3. CASE Start(i)
  <2>1. PICK r \in Requests : Stage(i, r) \/ AdoptFile(i, r) \/ AdoptDir(i, r)
    BY <1>3 DEF Start
  <2>2. rows' = rows
    BY <2>1 DEF Stage, AdoptFile, AdoptDir, Begin
  <2>3. Keeps(i)
    BY <2>1, StageKeeps, AdoptFileKeeps, AdoptDirKeeps
  <2> QED
    BY <1>2, <2>2, <2>3
<1>4. CASE Dedup(i)
  <2>1. rows' = rows
    BY <1>4 DEF Dedup, DedupMiss, DedupGone, DedupFile, DropOwn, DedupAnchor, libraryVars
  <2>2. Keeps(i)
    BY <1>4, DedupMissKeeps, DedupGoneKeeps, DedupFileKeeps, DropOwnKeeps, DedupAnchorKeeps DEF Dedup
  <2> QED
    BY <1>2, <2>1, <2>2
<1>5. CASE Guard(i)
  <2>1. rows' = rows
    BY <1>5 DEF Guard, GuardRefuses, GuardDir, GuardFile, libraryVars
  <2>2. Keeps(i)
    BY <1>5, GuardRefusesKeeps, GuardDirKeeps, GuardFileKeeps DEF Guard
  <2> QED
    BY <1>2, <2>1, <2>2
<1>6. CASE Place(i)
  <2>1. rows' = rows
    BY <1>6 DEF Place, PlaceRename, PlaceMove, PlaceReuse, PlaceRefused, libraryVars
  <2>2. Keeps(i)
    BY <1>6, PlaceRenameKeeps, PlaceMoveKeeps, PlaceReuseKeeps, PlaceRefusedKeeps DEF Place
  <2> QED
    BY <1>2, <2>1, <2>2
<1>7. CASE Name(i) \/ NameRefused(i) \/ SlugCollision(i)
  <2>1. rows' = rows
    BY <1>7 DEF Name, NameRefused, SlugCollision, libraryVars
  <2>2. Keeps(i)
    BY <1>7, NameKeeps, NameRefusedKeeps, SlugCollisionKeeps
  <2> QED
    BY <1>2, <2>1, <2>2
<1>8. CASE GiveUp(i)
  <2>1. rows' = rows
    BY <1>8 DEF GiveUp, Fault, Undo, CleanUp, libraryVars
  <2>2. Keeps(i)
    BY <1>8, FaultKeeps, UndoKeeps, CleanUpKeeps DEF GiveUp
  <2> QED
    BY <1>2, <2>1, <2>2
<1> QED
  BY <1>1, <1>3, <1>4, <1>5, <1>6, <1>7, <1>8 DEF Finish

LEMMA IngestStep == IngestInv /\ [Next]_vars => IngestInv'
<1> SUFFICES ASSUME IngestInv, [Next]_vars
             PROVE  IngestInv'
  OBVIOUS
<1>1. ASSUME NEW i \in Ingests, Watch,
             Start(i) \/ Dedup(i) \/ Guard(i) \/ Place(i) \/ Finish(i) \/ GiveUp(i)
      PROVE  IngestInv'
  BY <1>1, StepKeeps, KeepsInv
<1>2. ASSUME NEW b \in Bundles, Watch, DeleteMedia(b) \/ DeleteRows(b)
      PROVE  IngestInv'
  BY <1>2, DeleteMediaKeeps, DeleteRowsKeeps
<1>3. CASE UNCHANGED vars
  <2>1. UNCHANGED <<dirs, files, rows, pc, req, dest, leaves, folder, slug, undo, before, ending, deleting, overlapped>>
    BY <1>3 DEF vars, libraryVars, ingestVars
  <2>2. Typed' /\ overlapped' \in SUBSET Ingests
    BY <2>1 DEF IngestInv, Typed, LibraryTypeOK
  <2>3. \A i \in Ingests : Knows(i)'
    BY <2>1 DEF IngestInv, Knows, AtHome, Repointed
  <2>4. RowsAre' /\ SlugsDiffer' /\ Housed' /\ OverlapKnown' /\ Journals'
    BY <2>1 DEF IngestInv, RowsAre, SlugsDiffer, BundleRows, RowOf, Housed, HousedIn, OverlapKnown, Running,
                Journals, Journal
  <2> QED
    BY <2>2, <2>3, <2>4 DEF IngestInv
<1> QED
  BY <1>1, <1>2, <1>3 DEF Next

LEMMA IngestInvHolds == Spec => []IngestInv
BY IngestInit, IngestStep, PTL DEF Spec

-------------------------------------------------------------------------------
(* What it implies.                                                              *)

\* For any requests and any number of ingests and deletions at once, every variable
\* of the ingest pipeline keeps its type; the undo stacks stay short.
THEOREM IngestTypeCorrect == Spec => []TypeOK
<1>1. IngestInv => TypeOK
  <2> SUFFICES ASSUME IngestInv
               PROVE  TypeOK
    OBVIOUS
  <2>1. Typed /\ overlapped \in SUBSET Ingests /\ \A i \in Ingests : Knows(i)
    BY DEF IngestInv
  <2>2. \A i \in Ingests : pc[i] # "idle" => req[i] \in Requests
    BY <2>1 DEF Knows
  <2>3. ASSUME NEW i \in Ingests, NEW k \in DOMAIN leaves[i]
        PROVE  leaves[i][k] \in Paths
    <3>1. leaves[i] \in Seq(Paths)
      BY <2>1 DEF Typed
    <3> QED
      BY <3>1
  <2>4. ASSUME NEW i \in Ingests, NEW k \in DOMAIN undo[i]
        PROVE  undo[i][k] \in IF undo[i][k].kind = "dir" THEN DirOps ELSE FileOps
    <3>1. PICK u \in Seq(UndoOps) : u = undo[i]
      BY <2>1 DEF Typed
    <3>2. PICK op \in UndoOps : op = u[k]
      BY <3>1
    <3>3. op \in IF op.kind = "dir" THEN DirOps ELSE FileOps
      BY DEF UndoOps, DirOps, FileOps
    <3> QED
      BY <3>1, <3>2, <3>3
  <2> QED
    BY <2>1, <2>2, <2>3, <2>4 DEF TypeOK, Typed
<1> QED
  BY <1>1, IngestInvHolds, PTL

\* An empty journal: only the staged folder is left, and clean-up removes it.
LEMMA CleanUpRestores ==
    ASSUME IngestInv, NEW i \in Ingests, i \notin overlapped, CleanUp(i)
    PROVE  files' = before[i]
<1>1. pc[i] = "undoing" /\ undo[i] = <<>>
  BY DEF CleanUp
<1>2. i \in Running
  BY <1>1, RunningIs
<1>3. Leads(<<>>, dirs, files, dest[i], before[i])
  BY <1>1, <1>2 DEF IngestInv, Journals, Journal
<1> QED
  BY <1>3, LeadsNone, CleanUpLeaves

\* For any requests and any number of ingests: one that is refused or fails, at
\* whatever step, with no other ingest or deletion at work beside it at any time,
\* ends with exactly the files there were before it.
THEOREM FailuresRestore == Spec => FailureRestoresLibrary
<1>1. IngestInv /\ [Next]_vars => [Restores]_vars
  <2> SUFFICES ASSUME IngestInv, Next, NEW i \in Ingests, i \notin overlapped, pc[i] = "undoing", pc'[i] # "undoing"
               PROVE  files' = before[i]
    BY DEF Restores, CleansUp
  <2>1. CASE CleanUp(i)
    BY <2>1, CleanUpRestores
  <2>2. ASSUME NEW j \in Ingests, j # i,
               Start(j) \/ Dedup(j) \/ Guard(j) \/ Place(j) \/ Finish(j) \/ GiveUp(j)
        PROVE  FALSE
    BY <2>2, StepKeeps DEF Keeps, Only
  <2>3. CASE Start(i) \/ Dedup(i) \/ Guard(i) \/ Place(i) \/ Finish(i) \/ Fault(i)
    BY <2>3 DEF Start, Stage, AdoptFile, AdoptDir, Begin, NextToStart,
                Dedup, DedupMiss, DedupGone, DedupFile, DropOwn, DedupAnchor, Guard, GuardRefuses, GuardDir, GuardFile,
                Place, PlaceRename, PlaceMove, PlaceReuse, PlaceRefused, Finish, Name, NameRefused, Persist, SlugCollision,
                Fault
  <2>4. CASE Undo(i)
    BY <2>4 DEF Undo
  <2>5. ASSUME NEW b \in Bundles, DeleteMedia(b) \/ DeleteRows(b)
        PROVE  FALSE
    BY <2>5 DEF DeleteMedia, DeleteRows
  <2> QED
    BY <2>1, <2>2, <2>3, <2>4, <2>5 DEF Next, GiveUp
<1> QED
  BY <1>1, IngestInvHolds, PTL DEF Spec, FailureRestoresLibrary

\* One of the files lies in the folder that is the ingest's own.
LEMMA HomeLeaf ==
    ASSUME Typed, NEW i \in Ingests, AtHome(i)
    PROVE  \E k \in DOMAIN leaves[i] : leaves[i][k].dir = folder[i]
<1>1. PICK u \in Seq(Paths) : u = leaves[i]
  BY DEF Typed
<1>2. u # <<>> /\ (\A k \in DOMAIN u : u[k].dir = folder[i] \/ (Repointed(i) /\ k = 1))
      /\ (Repointed(i) => Len(u) >= 2)
  BY <1>1 DEF AtHome
<1>3. DOMAIN u = 1..Len(u) /\ Len(u) \in Nat /\ Len(u) # 0
  BY <1>2
<1>4. CASE Repointed(i)
  <2>1. 2 \in DOMAIN u
    BY <1>2, <1>3, <1>4
  <2> QED
    BY <1>1, <1>2, <2>1
<1>5. CASE ~Repointed(i)
  <2>1. 1 \in DOMAIN u
    BY <1>3
  <2> QED
    BY <1>1, <1>2, <1>5, <2>1
<1> QED
  BY <1>4, <1>5

\* The folder of a leaf that is at home has the slug for a name.
LEMMA SlugsAre ==
    ASSUME IngestInv
    PROVE  SlugIsFolderName
<1> SUFFICES ASSUME NEW r \in rows
             PROVE  \E s \in BundleRows(r.bundle) : s.folder = r.slug
  BY DEF SlugIsFolderName
<1>1. PICK i \in Ingests : /\ i = r.bundle /\ pc[i] = "done"
                           /\ BundleRows(i) = {RowOf(i, k) : k \in DOMAIN leaves[i]}
  BY DEF IngestInv, RowsAre
<1>2. Typed /\ AtHome(i) /\ slug[i] = folder[i]
  BY <1>1 DEF IngestInv, Knows
<1>3. r \in BundleRows(i)
  BY <1>1 DEF BundleRows
<1>4. r.slug = slug[i]
  BY <1>1, <1>3 DEF RowOf
<1>5. PICK k \in DOMAIN leaves[i] : leaves[i][k].dir = folder[i]
  BY <1>2, HomeLeaf
<1>6. RowOf(i, k) \in BundleRows(i) /\ RowOf(i, k).folder = folder[i]
  BY <1>1, <1>5 DEF RowOf
<1> QED
  BY <1>1, <1>2, <1>4, <1>6

\* For any requests, whatever ingests and deletions overlap and fail: a game's folder,
\* found free on disk, is named by the slug, found free in the database.
THEOREM SlugsNameFolders == Spec => []SlugIsFolderName
BY SlugsAre, IngestInvHolds, PTL

\* The path of a row is in the folder that has the row's slug for a name.
LEMMA PathsAtHome ==
    ASSUME IngestInv, NEW r \in rows, ~Repointed(r.bundle)
    PROVE  /\ r.path.dir = r.slug
           /\ r.bundle \in Ingests
           /\ r = [bundle |-> r.bundle, slug |-> r.slug, path |-> r.path, folder |-> folder[r.bundle]]
<1>1. PICK i \in Ingests : /\ i = r.bundle /\ pc[i] = "done"
                           /\ BundleRows(i) = {RowOf(i, k) : k \in DOMAIN leaves[i]}
  BY DEF IngestInv, RowsAre
<1>2. Typed /\ AtHome(i) /\ slug[i] = folder[i]
  BY <1>1 DEF IngestInv, Knows
<1>3. PICK k \in DOMAIN leaves[i] : r = RowOf(i, k)
  BY <1>1 DEF BundleRows
<1>4. leaves[i][k].dir = folder[i]
  BY <1>1, <1>2, <1>3 DEF AtHome
<1>5. r = [bundle |-> i, slug |-> slug[i], path |-> leaves[i][k], folder |-> folder[i]]
  BY <1>3, <1>4 DEF RowOf
<1> QED
  BY <1>1, <1>2, <1>4, <1>5

\* No two rows have one path, first discs that were found elsewhere excepted.
TrackedOnce ==
    \A r, s \in rows : r.path = s.path /\ ~Repointed(r.bundle) /\ ~Repointed(s.bundle) => r = s

LEMMA TrackedOnceIs ==
    ASSUME IngestInv
    PROVE  TrackedOnce
<1> SUFFICES ASSUME NEW r \in rows, NEW s \in rows,
                    r.path = s.path, ~Repointed(r.bundle), ~Repointed(s.bundle)
             PROVE  r = s
  BY DEF TrackedOnce
<1>1. r.slug = s.slug
  BY PathsAtHome
<1>2. r.bundle = s.bundle
  BY <1>1 DEF IngestInv, SlugsDiffer
<1> QED
  BY <1>1, <1>2, PathsAtHome

\* For any requests, whatever ingests and deletions overlap: a file is tracked by one
\* row at most.  The exception is real, two disc sets can be led to one orphan.
THEOREM FilesTrackedOnce == Spec => []TrackedOnce
BY TrackedOnceIs, IngestInvHolds, PTL

--------------------------------------------------------------------------------
(* Rows that find their files. *)

\* Files of one size have one content.
SizesTell == \A c, e \in Contents : Size[c] = Size[e] => c = e

Wanted == Sought(Requests)

\* Files F: one at a path, no two in a folder that are looked up, and no first disc
\* lies loose.
Tidy(F) ==
    /\ F \in SUBSET Files
    /\ \A f, g \in F : f.dir = g.dir /\ f.stem = g.stem => f = g
    /\ \A f, g \in F : f.dir = g.dir /\ f.dir # Root /\ {f.content, g.content} \subseteq Wanted => f = g
    /\ \A f \in F : f.dir = Root => f.content \notin FirstDiscs(Requests)

\* The rows R find their files in F, with the content that the requests Q brought; and
\* what is looked up in a folder that rows track is tracked.
Finds(F, R, Q) ==
    \A r \in R :
        /\ AtIn(F, r.path) # {}
        /\ SizesTell /\ Q[r.bundle].staged => \A f \in AtIn(F, r.path) : f.content \in Brought(Q[r.bundle])
        /\ \A f \in F : f.dir = r.folder /\ f.content \in Wanted =>
               \E s \in R : s.path.dir = f.dir /\ s.path.stem = f.stem

Good(F, R, Q) == Tidy(F) /\ Finds(F, R, Q)

\* Undone newest first, the files stay good.
Through(u, F, R, Q) ==
    /\ Good(F, R, Q)
    /\ Len(u) = 1 => Good(FilesBack(u[1], F), R, Q)
    /\ Len(u) = 2 => /\ Good(FilesBack(u[2], F), R, Q)
                     /\ Good(FilesBack(u[1], FilesBack(u[2], F)), R, Q)

\* Bundles have folders of their own, and no two rows one path.
Parted(R) ==
    /\ \A r \in R : r.folder = r.path.dir /\ r.folder # Root
    /\ \A r, s \in R : r.folder = s.folder => r.bundle = s.bundle
    /\ \A r, s \in R : r.path = s.path => r = s

Untracked(d, R) == \A r \in R : r.folder # d

\* The file an upload goes on with: of the content that was uploaded, and alone of those
\* that are looked up; if its folder is tracked, so is the file itself.
Led(p, F, R, q) ==
    /\ q.staged => \A f \in AtIn(F, p) : f.content \in Brought(q)
    /\ Untracked(p.dir, R) \/ \E s \in R : s.path = p
    /\ \A g \in F : g.dir = p.dir /\ p.dir # Root /\ g.content \in Wanted => g.stem = p.stem

\* The files that an ingest is about to track: in folders that no row tracks, and there.
Settled(u, F, R, q) ==
    /\ \A k \in DOMAIN u :
         /\ u[k].dir # Root /\ Untracked(u[k].dir, R)
         /\ AtIn(F, u[k]) # {}
         /\ SizesTell /\ q.staged => \A f \in AtIn(F, u[k]) : f.content \in Brought(q)
         /\ \A g \in F : g.dir = u[k].dir /\ g.content \in Wanted =>
                \E l \in DOMAIN u : u[l].dir = g.dir /\ u[l].stem = g.stem
    /\ \A k, l \in DOMAIN u : u[k] = u[l] => k = l

Holding(d, F) == {f \in F : f.dir = d}

Ready(i) ==
    /\ pc[i] = "dedup" => leaves[i] = PathsIn(dest[i], req[i]) /\ Holding(dest[i], files) = PutInto(dest[i], req[i])
    /\ pc[i] \in {"dropping", "guard", "placing"} /\ req[i].shape = "file" => Led(leaves[i][1], files, rows, req[i])
    /\ pc[i] = "guard" /\ req[i].shape = "dir" => Holding(folder[i], files) = PutInto(folder[i], req[i])
    /\ pc[i] = "placing" =>
         /\ AtIn(files, leaves[i][1]) # {}
         /\ \A r \in rows : r.path # leaves[i][1] /\ r.path # Target(i)
    /\ pc[i] \in {"naming", "persisting"} => Settled(leaves[i], files, rows, req[i])

Kept == {r \in rows : r.bundle \notin deleting}

\* No two ingests or deletions at a time, as a bound and as what follows from it.
Alone == Cardinality(Running) + Cardinality(deleting) <= 1
OneAtWork ==
    /\ overlapped = {}
    /\ \A i, j \in Running : i = j
    /\ Running # {} => deleting = {}
    /\ \A a, b \in deleting : a = b

LibraryInv ==
    /\ OneAtWork
    /\ Parted(rows)
    /\ Good(files, Kept, req)
    /\ \A i \in Running :
         /\ Untracked(dest[i], rows)
         /\ Through(undo[i], files, rows, req)
         /\ Ready(i)

-------------------------------------------------------------------------------
(* Requests that are apart.                                                      *)

\* What a request lays into a folder: one file of a name, and one that is looked up.
LEMMA LaidIs ==
    ASSUME Apart(Requests), NEW r \in Requests, NEW d \in Names \cup {Root}
    PROVE  LET A == PutInto(d, r) IN
           /\ A \in SUBSET Files
           /\ \A f \in A : f.dir = d /\ f.content \in Brought(r)
           /\ \A f, g \in A : f.stem = g.stem => f = g
           /\ \A f, g \in A : {f.content, g.content} \subseteq Wanted => f = g
           /\ r.shape # "discs" => \A f, g \in A : f.content \in Wanted => f = g
           /\ r.shape = "file" /\ ~r.staged => \A f \in A : f.content \notin FirstDiscs(Requests)
           /\ r.shape = "file" => A = {[dir |-> d, stem |-> r.parts[1].stem, content |-> r.parts[1].content]}
           /\ \A k \in DOMAIN r.parts : [dir |-> d, stem |-> r.parts[k].stem, content |-> r.parts[k].content] \in A
           /\ \A f \in A : \E k \in DOMAIN r.parts : f.stem = r.parts[k].stem /\ f.content = r.parts[k].content
<1> DEFINE A == PutInto(d, r)
<1> DEFINE Laid(k) == [dir |-> d, stem |-> r.parts[k].stem, content |-> r.parts[k].content]
<1>1. A \in SUBSET Files /\ \A f \in A : f.dir = d
  BY PartsAre
<1>2. A = {Laid(k) : k \in DOMAIN r.parts}
  BY DEF PutInto
<1>3. /\ \A k, l \in DOMAIN r.parts : r.parts[k].stem = r.parts[l].stem => k = l
      /\ r.shape = "file" => Len(r.parts) = 1
      /\ r.shape = "dir" /\ Len(r.parts) # 1 => Brought(r) \cap Wanted = {}
      /\ r.shape = "discs" =>
           \A k, l \in DOMAIN r.parts : {r.parts[k].content, r.parts[l].content} \subseteq Wanted => k = l
      /\ r.shape = "file" /\ ~r.staged => Brought(r) \cap FirstDiscs(Requests) = {}
  BY DEF Apart, Wanted
<1>4. /\ r.shape \in {"file", "dir", "discs"}
      /\ r.parts \in Seq([stem : Bases, content : Contents]) /\ r.parts # <<>>
  BY RequestIs
<1>5. \A k \in DOMAIN r.parts : r.parts[k].content \in Brought(r)
  BY DEF Brought
<1>6. Len(r.parts) = 1 => DOMAIN r.parts = {1}
  BY <1>4
<1>7. \A f \in A : f.content \in Brought(r)
  BY <1>2, <1>5
<1>8. \A f, g \in A : f.stem = g.stem => f = g
  BY <1>2, <1>3
<1>9. Len(r.parts) = 1 => A = {Laid(1)}
  BY <1>2, <1>6
<1>10. ASSUME r.shape # "discs", NEW f \in A, NEW g \in A, f.content \in Wanted
       PROVE  f = g
  <2>1. Len(r.parts) = 1
    BY <1>3, <1>4, <1>7, <1>10
  <2> QED
    BY <1>9, <2>1
<1>11. ASSUME NEW f \in A, NEW g \in A, {f.content, g.content} \subseteq Wanted
       PROVE  f = g
  <2>1. CASE r.shape = "discs"
    <3>1. PICK k, l \in DOMAIN r.parts : f = Laid(k) /\ g = Laid(l)
      BY <1>2
    <3> QED
      BY <1>3, <1>11, <2>1, <3>1
  <2> QED
    BY <1>10, <1>11, <2>1
<1>12. r.shape = "file" /\ ~r.staged => \A f \in A : f.content \notin FirstDiscs(Requests)
  BY <1>3, <1>7
<1>13. \A k \in DOMAIN r.parts : Laid(k) \in A
  BY <1>2
<1>14. \A f \in A : \E k \in DOMAIN r.parts : f.stem = r.parts[k].stem /\ f.content = r.parts[k].content
  BY <1>2
<1> QED
  BY <1>1, <1>3, <1>7, <1>8, <1>9, <1>10, <1>11, <1>12, <1>13, <1>14

-------------------------------------------------------------------------------
(* Good files, as they are laid, removed, renamed and moved.                     *)

\* Files go from folders that no row tracks.
LEMMA GoodLess ==
    ASSUME NEW F, NEW R, NEW Q, Good(F, R, Q), Parted(R), NEW G \in SUBSET F,
           \A f \in F \ G : Untracked(f.dir, R)
    PROVE  Good(G, R, Q)
<1>1. Tidy(F) /\ Finds(F, R, Q)
  BY DEF Good
<1>2. Tidy(G)
  BY <1>1 DEF Tidy
<1>3. ASSUME NEW r \in R
      PROVE  AtIn(G, r.path) = AtIn(F, r.path)
  <2>1. \A f \in AtIn(F, r.path) : f \in F /\ f.dir = r.folder
    BY DEF AtIn, Parted
  <2> QED
    BY <2>1 DEF AtIn, Untracked
<1>4. Finds(G, R, Q)
  BY <1>1, <1>3 DEF Finds
<1> QED
  BY <1>2, <1>4 DEF Good

\* Files are laid where no row tracks any.
LEMMA GoodMore ==
    ASSUME NEW F, NEW R, NEW Q, Good(F, R, Q), Parted(R), NEW A,
           Tidy(F \cup A), \A f \in A : Untracked(f.dir, R)
    PROVE  Good(F \cup A, R, Q)
<1>1. Finds(F, R, Q)
  BY DEF Good
<1>2. ASSUME NEW r \in R
      PROVE  AtIn(F \cup A, r.path) = AtIn(F, r.path)
  BY DEF AtIn, Parted, Untracked
<1>3. ASSUME NEW r \in R
      PROVE  \A f \in F \cup A : f.dir = r.folder => f \in F
  BY DEF Untracked
<1>4. Finds(F \cup A, R, Q)
  BY <1>1, <1>2, <1>3 DEF Finds
<1> QED
  BY <1>4 DEF Good

\* A request is laid into a folder in which nothing was.
LEMMA TidyLaid ==
    ASSUME Apart(Requests), NEW F, Tidy(F), NEW r \in Requests, NEW d \in Names,
           \A f \in F : f.dir # d
    PROVE  Tidy(F \cup PutInto(d, r))
<1>1. PICK A : A = PutInto(d, r)
  OBVIOUS
<1>2. /\ A \in SUBSET Files /\ \A f \in A : f.dir = d
      /\ \A f, g \in A : f.stem = g.stem => f = g
      /\ \A f, g \in A : {f.content, g.content} \subseteq Wanted => f = g
  BY <1>1, LaidIs
<1>3. d # Root
  BY NamesAre
<1>4. Tidy(F \cup A)
  BY <1>2, <1>3 DEF Tidy
<1> QED
  BY <1>1, <1>4

\* Rows find their files in folders that are there.
LEMMA FoundHoused ==
    ASSUME NEW F, NEW R, NEW Q, Good(F, R, Q), Parted(R), NEW D, HousedIn(D, F), NEW d, d \notin D
    PROVE  Untracked(d, R)
<1>1. ASSUME NEW r \in R
      PROVE  r.folder \in D
  <2>1. PICK f \in F : f.dir = r.path.dir
    BY DEF Good, Finds, AtIn
  <2> QED
    BY <2>1 DEF Parted, HousedIn
<1> QED
  BY <1>1 DEF Untracked

\* A folder is renamed that no row tracks.
LEMMA GoodRenamed ==
    ASSUME NEW F, NEW R, NEW Q, Good(F, R, Q), Parted(R),
           NEW D \in SUBSET Names, HousedIn(D, F), NEW old \in D, NEW new \in Names, new \notin D,
           Untracked(old, R)
    PROVE  Good(Renamed(F, old, new), R, Q)
<1>1. Tidy(F) /\ Finds(F, R, Q) /\ F \in SUBSET Files
  BY DEF Good, Tidy
<1>2. PICK G : G = Renamed(F, old, new)
  OBVIOUS
<1>3. G \in SUBSET Files /\ G = {Rehoused(f, old, new) : f \in F}
  <2>1. Renamed(F, old, new) \in SUBSET Files
    BY <1>1, RenamedTyped
  <2>2. Renamed(F, old, new) = {Rehoused(f, old, new) : f \in F}
    BY <1>1, RenamedIs
  <2> QED
    BY <1>2, <2>1, <2>2
<1>4. \A f \in F : f.dir # new
  BY NamesAre DEF HousedIn
<1>5. old # Root /\ new # Root
  BY NamesAre
<1>6. \A f \in F : /\ Rehoused(f, old, new).dir = IF f.dir = old THEN new ELSE f.dir
                   /\ Rehoused(f, old, new).stem = f.stem /\ Rehoused(f, old, new).content = f.content
  BY DEF Rehoused
<1>7. ASSUME NEW f \in F, NEW g \in F, Rehoused(f, old, new).dir = Rehoused(g, old, new).dir
      PROVE  f.dir = g.dir
  BY <1>4, <1>6, <1>7
<1>8. Tidy(G)
  <2>1. ASSUME NEW a \in G, NEW b \in G, a.dir = b.dir,
               a.stem = b.stem \/ (a.dir # Root /\ {a.content, b.content} \subseteq Wanted)
        PROVE  a = b
    <3>1. PICK f, g \in F : a = Rehoused(f, old, new) /\ b = Rehoused(g, old, new)
      BY <1>3
    <3>2. f.dir = g.dir /\ (f.dir = Root => a.dir = Root)
      BY <1>5, <1>6, <1>7, <2>1, <3>1
    <3>3. f = g
      BY <1>1, <1>6, <2>1, <3>1, <3>2 DEF Tidy
    <3> QED
      BY <3>1, <3>3
  <2>2. ASSUME NEW a \in G, a.dir = Root
        PROVE  a.content \notin FirstDiscs(Requests)
    <3>1. PICK f \in F : a = Rehoused(f, old, new)
      BY <1>3
    <3> QED
      BY <1>1, <1>5, <1>6, <2>2, <3>1 DEF Tidy
  <2> QED
    BY <1>3, <2>1, <2>2 DEF Tidy
<1>9. Untracked(new, R)
  BY FoundHoused
<1>10. ASSUME NEW f \in F, f.dir # old
       PROVE  Rehoused(f, old, new) = f
  BY <1>1, <1>10, FileIs DEF Rehoused
<1>11. ASSUME NEW d, d # old, d # new
       PROVE  \A g : g \in G /\ g.dir = d <=> g \in F /\ g.dir = d
  BY <1>3, <1>6, <1>10, <1>11
<1>12. ASSUME NEW r \in R
       PROVE  /\ AtIn(G, r.path) = AtIn(F, r.path)
              /\ \A g \in G : g.dir = r.folder => g \in F
  <2>1. r.folder # old /\ r.folder # new /\ r.folder = r.path.dir
    BY <1>9 DEF Untracked, Parted
  <2> QED
    BY <1>11, <2>1 DEF AtIn
<1>13. Finds(G, R, Q)
  BY <1>1, <1>12 DEF Finds
<1> QED
  BY <1>2, <1>8, <1>13 DEF Good

\* A file that no row tracks is moved into an empty folder.
LEMMA GoodMoved ==
    ASSUME NEW F, NEW R \in SUBSET Rows, NEW Q, Good(F, R, Q), Parted(R), NEW p \in Paths, NEW q \in Paths,
           q.dir # Root, \A f \in F : f.dir # q.dir, \A r \in R : r.path # p
    PROVE  Good(Moved(F, p, q), R, Q)
<1>1. Tidy(F) /\ Finds(F, R, Q) /\ F \in SUBSET Files
  BY DEF Good, Tidy
<1>2. PICK G : G = Moved(F, p, q)
  OBVIOUS
<1>3. G = (F \ AtIn(F, p)) \cup {PutAt(f, q) : f \in AtIn(F, p)}
  BY <1>2 DEF Moved
<1>4. \A f \in AtIn(F, p) : /\ PutAt(f, q) \in Files /\ f \in F
                            /\ PutAt(f, q).dir = q.dir /\ PutAt(f, q).stem = q.stem
  BY <1>1, FileIs DEF PutAt, AtIn, Files, Paths
<1>5. \A f, g \in AtIn(F, p) : f = g
  BY <1>1 DEF Tidy, AtIn
<1>6. Tidy(G)
  <2>1. G \in SUBSET Files
    BY <1>1, <1>3, <1>4
  <2>2. ASSUME NEW a \in G, NEW b \in G, a.dir = b.dir,
               a.stem = b.stem \/ (a.dir # Root /\ {a.content, b.content} \subseteq Wanted)
        PROVE  a = b
    <3>1. CASE a.dir = q.dir
      <4>1. a \notin F /\ b \notin F
        BY <2>2, <3>1
      <4> QED
        BY <1>3, <1>5, <4>1
    <3>2. CASE a.dir # q.dir
      <4>1. a \in F /\ b \in F
        BY <1>3, <1>4, <2>2, <3>2
      <4> QED
        BY <1>1, <2>2, <4>1 DEF Tidy
    <3> QED
      BY <3>1, <3>2
  <2>3. \A a \in G : a.dir = Root => a \in F
    BY <1>3, <1>4
  <2> QED
    BY <1>1, <2>1, <2>2, <2>3 DEF Tidy
<1>7. ASSUME NEW r \in R
      PROVE  AtIn(G, r.path) = AtIn(F, r.path) /\ \A g \in G : g.dir = r.folder => g \in F
  <2>1. r.folder # q.dir /\ r.folder = r.path.dir
    <3>1. PICK f \in F : f.dir = r.path.dir
      BY <1>1 DEF Finds, AtIn
    <3> QED
      BY <3>1 DEF Parted
  <2>2. \A f \in AtIn(F, p) : f \notin AtIn(F, r.path)
    <3>1. ASSUME NEW f \in AtIn(F, p), f \in AtIn(F, r.path)
          PROVE  FALSE
      <4>1. r.path \in Paths
        BY DEF Rows
      <4> QED
        BY <3>1, <4>1 DEF AtIn, Paths
    <3> QED
      BY <3>1
  <2> QED
    BY <1>3, <1>4, <2>1, <2>2 DEF AtIn
<1>8. Finds(G, R, Q)
  BY <1>1, <1>7 DEF Finds
<1> QED
  BY <1>2, <1>6, <1>8 DEF Good

\* An entry is pushed that takes back what was done.
LEMMA PushThrough ==
    ASSUME NEW u \in Seq(UndoOps), Len(u) <= 1, NEW op \in UndoOps,
           NEW F, NEW G, NEW R, NEW Q, Through(u, F, R, Q), Good(G, R, Q), FilesBack(op, G) = F
    PROVE  Through(Append(u, op), G, R, Q)
<1>1. PICK v : v = Append(u, op)
  OBVIOUS
<1>2. CASE u = <<>>
  <2>1. Len(v) = 1 /\ v[1] = op
    BY <1>1, <1>2, PushedIs
  <2> QED
    BY <1>1, <2>1 DEF Through
<1>3. CASE Len(u) = 1
  <2>1. Len(v) = 2 /\ v[1] = u[1] /\ v[2] = op
    <3>1. /\ Len(v) = Len(u) + 1
          /\ Len(u) = 1 => v[1] = u[1] /\ v[2] = op
      BY <1>1, PushedIs, Zenon
    <3> QED
      BY <1>3, <3>1
  <2>2. Good(F, R, Q) /\ Good(FilesBack(u[1], F), R, Q)
    BY <1>3 DEF Through
  <2> QED
    BY <1>1, <2>1, <2>2 DEF Through
<1> QED
  BY <1>2, <1>3, PushedIs

LEMMA PopThrough ==
    ASSUME NEW u \in Seq(UndoOps), u # <<>>, Len(u) <= 2,
           NEW F, NEW R, NEW Q, Through(u, F, R, Q)
    PROVE  Through(SubSeq(u, 1, Len(u) - 1), FilesBack(u[Len(u)], F), R, Q)
<1>1. PICK v : v = SubSeq(u, 1, Len(u) - 1)
  OBVIOUS
<1>2. CASE Len(u) = 1
  <2>1. Len(v) = 0 /\ u[Len(u)] = u[1]
    BY <1>1, <1>2, PopIs
  <2>2. Good(FilesBack(u[1], F), R, Q)
    BY <1>2 DEF Through
  <2> QED
    BY <1>1, <2>1, <2>2 DEF Through
<1>3. CASE Len(u) = 2
  <2>1. Len(v) = 1 /\ v[1] = u[1] /\ u[Len(u)] = u[2]
    BY <1>1, <1>3, PopIs
  <2>2. Good(FilesBack(u[2], F), R, Q) /\ Good(FilesBack(u[1], FilesBack(u[2], F)), R, Q)
    BY <1>3 DEF Through
  <2>3. PICK G : G = FilesBack(u[2], F)
    OBVIOUS
  <2>4. Through(v, G, R, Q)
    BY <2>1, <2>2, <2>3 DEF Through
  <2> QED
    BY <1>1, <2>1, <2>3, <2>4
<1> QED
  BY <1>2, <1>3, PopIs

LEMMA ThroughNone ==
    ASSUME NEW F, NEW R, NEW Q
    PROVE  Through(<<>>, F, R, Q) <=> Good(F, R, Q)
<1>1. Len(<<>>) = 0
  OBVIOUS
<1> QED
  BY <1>1 DEF Through

\* What is good for all rows is good for those of some bundles, and for requests that
\* are the same for the bundles.
LEMMA GoodFewer ==
    ASSUME NEW F, NEW R, NEW S \in SUBSET R, NEW Q, NEW P, Good(F, R, Q), Parted(R),
           \A r \in R, s \in S : r.bundle = s.bundle => r \in S,
           \A r \in S : P[r.bundle] = Q[r.bundle]
    PROVE  Good(F, S, P)
<1>1. Tidy(F) /\ Finds(F, R, Q)
  BY DEF Good
<1>2. ASSUME NEW r \in S, NEW f \in F, f.dir = r.folder, f.content \in Wanted
      PROVE  \E s \in S : s.path.dir = f.dir /\ s.path.stem = f.stem
  <2>1. PICK s \in R : s.path.dir = f.dir /\ s.path.stem = f.stem
    BY <1>1, <1>2 DEF Finds
  <2>2. s.bundle = r.bundle
    BY <1>2, <2>1 DEF Parted
  <2> QED
    BY <2>1, <2>2
<1>3. Finds(F, S, P)
  BY <1>1, <1>2 DEF Finds
<1> QED
  BY <1>1, <1>3 DEF Good

LEMMA ThroughFewer ==
    ASSUME NEW u, NEW F, NEW R, NEW S \in SUBSET R, NEW Q, NEW P, Through(u, F, R, Q), Parted(R),
           \A r \in R, s \in S : r.bundle = s.bundle => r \in S,
           \A r \in S : P[r.bundle] = Q[r.bundle]
    PROVE  Through(u, F, S, P)
<1>1. \A G : Good(G, R, Q) => Good(G, S, P)
  BY GoodFewer
<1> QED
  BY <1>1 DEF Through

-------------------------------------------------------------------------------
(* One ingest or deletion at a time.                                             *)

LEMMA FewAreFinite ==
    ASSUME NEW S, \A a, b \in S : a = b, NEW x
    PROVE  \A T \in SUBSET (S \cup {x}) : IsFiniteSet(T)
<1>1. IsFiniteSet(S)
  <2>1. CASE S = {}
    BY <2>1, FS_EmptySet
  <2>2. CASE S # {}
    <3>1. PICK a \in S : S = {a}
      BY <2>2
    <3> QED
      BY <3>1, FS_Singleton
  <2> QED
    BY <2>1, <2>2
<1>2. IsFiniteSet(S \cup {x})
  BY <1>1, FS_AddElement
<1> QED
  BY <1>2, FS_Subset

LEMMA AtMostOne ==
    ASSUME NEW S, NEW T, IsFiniteSet(S), IsFiniteSet(T), Cardinality(S) + Cardinality(T) <= 1
    PROVE  (\A a, b \in S : a = b) /\ (\A a, b \in T : a = b) /\ (S = {} \/ T = {})
<1>1. Cardinality(S) \in Nat /\ Cardinality(T) \in Nat
  BY FS_CardinalityType
<1>2. ASSUME NEW U, IsFiniteSet(U), Cardinality(U) <= 1, NEW a \in U, NEW b \in U
      PROVE  a = b
  <2>1. SUFFICES ASSUME a # b PROVE FALSE
    OBVIOUS
  <2>2. IsFiniteSet({a}) /\ Cardinality({a}) = 1
    BY FS_Singleton
  <2>3. Cardinality({a} \cup {b}) = 2
    BY <2>1, <2>2, FS_AddElement
  <2>4. Cardinality({a} \cup {b}) <= Cardinality(U)
    BY <1>2, FS_Subset
  <2>5. Cardinality(U) \in Nat
    BY <1>2, FS_CardinalityType
  <2> QED
    BY <1>2, <2>3, <2>4, <2>5
<1>3. Cardinality(S) <= 1 /\ Cardinality(T) <= 1 /\ (Cardinality(S) = 0 \/ Cardinality(T) = 0)
  BY <1>1
<1>4. S = {} \/ T = {}
  BY <1>3, FS_EmptySet
<1>5. (\A a, b \in S : a = b) /\ (\A a, b \in T : a = b)
  BY <1>2, <1>3
<1> QED
  BY <1>4, <1>5

\* Where ingests and deletions are not let overlap, they do not.
LEMMA OneAtWorkNext ==
    ASSUME OneAtWork, Watch, Alone', NEW x,
           Running' \subseteq Running \cup {x}, deleting' \subseteq deleting \cup {x}
    PROVE  OneAtWork'
<1>1. PICK S, T, U, V : S = Running' /\ T = deleting' /\ U = Running /\ V = deleting
  OBVIOUS
<1>2. IsFiniteSet(S) /\ IsFiniteSet(T)
  <2>1. (\A a, b \in U : a = b) /\ (\A a, b \in V : a = b)
    BY <1>1 DEF OneAtWork
  <2>2. S \in SUBSET (U \cup {x}) /\ T \in SUBSET (V \cup {x})
    BY <1>1
  <2> QED
    BY <2>1, <2>2, FewAreFinite
<1>3. Cardinality(S) + Cardinality(T) <= 1
  BY <1>1 DEF Alone
<1>4. (\A a, b \in S : a = b) /\ (\A a, b \in T : a = b) /\ (S = {} \/ T = {})
  BY <1>2, <1>3, AtMostOne
<1>5. overlapped' = {}
  BY <1>1, <1>4 DEF Watch, OneAtWork
<1> QED
  BY <1>1, <1>4, <1>5 DEF OneAtWork

-------------------------------------------------------------------------------
(* What a step of one ingest leaves to the library.                              *)

Lasts(i) ==
    /\ Parted(rows') /\ Good(files', rows', req')
    /\ i \in Running' =>
         Untracked(dest'[i], rows') /\ Through(undo'[i], files', rows', req') /\ Ready(i)'

LEMMA LastsInv ==
    ASSUME LibraryInv, NEW i \in Ingests, Keeps(i), Lasts(i), OneAtWork'
    PROVE  LibraryInv'
<1>1. deleting' = {}
  <2>1. deleting' = deleting /\ pc[i] \notin Ended /\ pc'[i] # "idle" /\ (pc[i] = "idle" => pc'[i] \notin Ended)
    BY DEF Keeps
  <2>2. CASE pc[i] = "idle"
    <3>1. i \in Running'
      BY <2>1, <2>2 DEF Running
    <3> QED
      BY <3>1 DEF OneAtWork
  <2>3. CASE pc[i] # "idle"
    <3>1. i \in Running
      BY <2>1, <2>3 DEF Running
    <3> QED
      BY <2>1, <3>1 DEF LibraryInv, OneAtWork
  <2> QED
    BY <2>2, <2>3
<1>2. Kept' = rows'
  BY <1>1 DEF Kept
<1>3. ASSUME NEW j \in Running'
      PROVE  j = i
  <2>1. CASE j # i
    <3>1. j \in Ingests /\ pc'[j] = pc[j]
      BY <2>1 DEF Running, Keeps, Only
    <3>2. j \in Running
      BY <3>1 DEF Running
    <3>3. i \in Running \/ i \in Running'
      BY DEF Keeps, Running
    <3> QED
      BY <2>1, <3>2, <3>3 DEF LibraryInv, OneAtWork
  <2> QED
    BY <2>1
<1>4. Good(files', Kept', req') /\ Parted(rows')
  BY <1>2 DEF Lasts
<1>5. Good(files, Kept, req)' /\ Parted(rows)'
  BY <1>4
<1>6. ASSUME NEW j \in Running'
      PROVE  /\ Untracked(dest[j], rows)'
             /\ Through(undo[j], files, rows, req)'
             /\ Ready(j)'
  BY <1>3, <1>6 DEF Lasts
<1> QED
  BY <1>5, <1>6 DEF LibraryInv

\* What holds while an ingest runs.
LEMMA WhileRunning ==
    ASSUME LibraryInv, IngestInv, NEW i \in Ingests, pc[i] \notin Ended \cup {"idle"}
    PROVE  /\ i \in Running /\ i \notin overlapped /\ deleting = {} /\ Kept = rows
           /\ Parted(rows) /\ Good(files, rows, req) /\ Tidy(files)
           /\ Untracked(dest[i], rows) /\ Through(undo[i], files, rows, req) /\ Ready(i)
           /\ rows \in SUBSET Rows /\ files \in SUBSET Files /\ dirs \in SUBSET Names
           /\ HousedIn(dirs, files) /\ Typed /\ Knows(i) /\ req[i] \in Requests
<1>1. i \in Running
  BY DEF Running
<1>2. deleting = {} /\ Kept = rows /\ i \notin overlapped
  BY <1>1 DEF LibraryInv, OneAtWork, Kept
<1>3. Typed /\ Knows(i) /\ HousedIn(dirs, files)
  BY DEF IngestInv, Housed
<1>4. req[i] \in Requests
  BY <1>3 DEF Knows
<1> QED
  BY <1>1, <1>2, <1>3, <1>4 DEF LibraryInv, Good, Typed, LibraryTypeOK

\* A step that touches neither files nor rows.
LEMMA QuietLasts ==
    ASSUME LibraryInv, IngestInv, NEW i \in Ingests, pc[i] \notin Ended \cup {"idle"},
           UNCHANGED <<files, rows, req, dest, undo>>, Ready(i)'
    PROVE  Lasts(i)
<1>1. /\ Parted(rows) /\ Good(files, rows, req)
      /\ Untracked(dest[i], rows) /\ Through(undo[i], files, rows, req)
  BY WhileRunning
<1> QED
  BY <1>1 DEF Lasts

\* What goes wrong leaves the files to be undone.
LEMMA RaiseLasts ==
    ASSUME LibraryInv, IngestInv, NEW i \in Ingests, pc[i] \notin Ended \cup {"idle"},
           UNCHANGED <<files, rows, req, dest, undo>>, NEW how, Raise(i, how)
    PROVE  Lasts(i)
<1>1. pc'[i] = "undoing"
  BY DEF IngestInv, Typed, Raise, Goto
<1>2. Ready(i)'
  BY <1>1 DEF Ready
<1> QED
  BY <1>2, QuietLasts

LEMMA RefusalsLast ==
    ASSUME LibraryInv, IngestInv, NEW i \in Ingests,
           DedupGone(i) \/ GuardRefuses(i) \/ PlaceRefused(i) \/ NameRefused(i) \/ SlugCollision(i) \/ Fault(i)
    PROVE  Lasts(i)
<1>1. /\ pc[i] \in {"dedup", "guard", "placing", "naming", "persisting"}
      /\ UNCHANGED <<files, rows, req, dest, undo>>
      /\ Raise(i, "failed") \/ Raise(i, "rejected")
  BY DEF DedupGone, GuardRefuses, PlaceRefused, NameRefused, SlugCollision, Fault, libraryVars
<1> QED
  BY <1>1, RaiseLasts DEF Ended

-------------------------------------------------------------------------------
(* From the staged files to the paths of the rows.                               *)

LEMMA PathsInIs ==
    ASSUME NEW r \in Requests, NEW d
    PROVE  /\ DOMAIN PathsIn(d, r) = DOMAIN r.parts
           /\ \A k \in DOMAIN r.parts : PathsIn(d, r)[k].dir = d /\ PathsIn(d, r)[k].stem = r.parts[k].stem
BY DEF PathsIn

LEMMA FirstPart ==
    ASSUME NEW r \in Requests
    PROVE  1 \in DOMAIN r.parts
<1>1. r.parts \in Seq([stem : Bases, content : Contents]) /\ r.parts # <<>>
  BY RequestIs
<1> QED
  BY <1>1

\* One file of a request at a path of its folder.
LEMMA LaidAt ==
    ASSUME Apart(Requests), NEW r \in Requests, NEW d \in Names, NEW F, Holding(d, F) = PutInto(d, r),
           NEW k \in DOMAIN r.parts, NEW p, p.dir = d, p.stem = r.parts[k].stem
    PROVE  \E f \in F : /\ AtIn(F, p) = {f} /\ f.dir = d /\ f.stem = p.stem
                        /\ f.content = r.parts[k].content /\ f.content \in Brought(r)
<1> DEFINE f == [dir |-> d, stem |-> r.parts[k].stem, content |-> r.parts[k].content]
<1>1. f \in PutInto(d, r) /\ f.content \in Brought(r) /\ \A g \in PutInto(d, r) : g.stem = f.stem => g = f
  BY LaidIs
<1>2. \A g : g \in PutInto(d, r) <=> g \in F /\ g.dir = d
  BY DEF Holding
<1>3. f \in F /\ AtIn(F, p) = {f}
  BY <1>1, <1>2 DEF AtIn
<1> QED
  BY <1>1, <1>3

\* All that was staged becomes the discs of a set.
LEMMA FreshSettled ==
    ASSUME Apart(Requests), NEW r \in Requests, NEW d \in Names, NEW F, Holding(d, F) = PutInto(d, r),
           NEW R, Untracked(d, R)
    PROVE  Settled(PathsIn(d, r), F, R, r)
<1>1. PICK u : u = PathsIn(d, r)
  OBVIOUS
<1>2. /\ DOMAIN u = DOMAIN r.parts
      /\ \A k \in DOMAIN u : u[k].dir = d /\ u[k].stem = r.parts[k].stem
  BY <1>1, PathsInIs
<1>3. d # Root
  BY NamesAre
<1>4. ASSUME NEW k \in DOMAIN u
      PROVE  AtIn(F, u[k]) # {} /\ \A f \in AtIn(F, u[k]) : f.content \in Brought(r)
  <2>1. PICK p : p = u[k]
    OBVIOUS
  <2>2. k \in DOMAIN r.parts /\ p.dir = d /\ p.stem = r.parts[k].stem
    BY <1>2, <2>1
  <2>3. PICK f \in F : AtIn(F, p) = {f} /\ f.content \in Brought(r)
    BY <2>2, LaidAt
  <2> QED
    BY <2>1, <2>3
<1>5. ASSUME NEW g \in F, g.dir = d
      PROVE  \E l \in DOMAIN u : u[l].dir = g.dir /\ u[l].stem = g.stem
  <2>1. g \in PutInto(d, r)
    BY <1>5 DEF Holding
  <2>2. PICK l \in DOMAIN r.parts : g.stem = r.parts[l].stem
    BY <2>1, LaidIs
  <2> QED
    BY <1>2, <1>5, <2>2
<1>6. ASSUME NEW k \in DOMAIN u, NEW l \in DOMAIN u, u[k] = u[l]
      PROVE  k = l
  <2>1. k \in DOMAIN r.parts /\ l \in DOMAIN r.parts /\ r.parts[k].stem = r.parts[l].stem
    BY <1>2, <1>6
  <2> QED
    BY <2>1 DEF Apart
<1>7. Settled(u, F, R, r)
  BY <1>2, <1>3, <1>4, <1>5, <1>6 DEF Settled
<1> QED
  BY <1>1, <1>7

\* The one file that was staged is alone in its folder.
LEMMA FreshLed ==
    ASSUME Apart(Requests), NEW r \in Requests, NEW d \in Names, NEW F, Holding(d, F) = PutInto(d, r),
           NEW R, Untracked(d, R), r.shape = "file"
    PROVE  Led(PathsIn(d, r)[1], F, R, r)
<1>1. PICK p : p = PathsIn(d, r)[1]
  OBVIOUS
<1>2. p.dir = d /\ p.stem = r.parts[1].stem /\ 1 \in DOMAIN r.parts
  BY <1>1, PathsInIs, FirstPart
<1>3. PICK f \in F : AtIn(F, p) = {f} /\ f.content \in Brought(r)
  BY <1>2, LaidAt
<1>4. ASSUME NEW g \in F, g.dir = d
      PROVE  g.stem = p.stem
  <2>1. g \in PutInto(d, r)
    BY <1>4 DEF Holding
  <2> QED
    BY <1>2, <2>1, LaidIs
<1>5. Led(p, F, R, r)
  BY <1>2, <1>3, <1>4 DEF Led
<1> QED
  BY <1>1, <1>5

LEMMA DedupMissLasts ==
    ASSUME Apart(Requests), LibraryInv, IngestInv, NEW i \in Ingests, DedupMiss(i)
    PROVE  Lasts(i)
<1>1. /\ pc[i] = "dedup" /\ pc' = [pc EXCEPT ![i] = AfterDedup(req[i])]
      /\ UNCHANGED <<files, rows, req, dest, leaves, folder, undo>>
  BY DEF DedupMiss, Goto, libraryVars
<1>2. pc[i] \notin Ended \cup {"idle"}
  BY <1>1 DEF Ended
<1>3. /\ Untracked(dest[i], rows) /\ Ready(i) /\ Typed /\ Knows(i) /\ req[i] \in Requests
  BY <1>2, WhileRunning
<1>4. PICK r \in Requests, d \in Names : r = req[i] /\ d = dest[i]
  BY <1>1, <1>3 DEF Knows
<1>5. leaves[i] = PathsIn(d, r) /\ Holding(d, files) = PutInto(d, r) /\ r.shape # "dir"
  BY <1>1, <1>3, <1>4 DEF Ready, Knows
<1>6. Settled(leaves[i], files, rows, r)
  BY <1>3, <1>4, <1>5, FreshSettled
<1>7. r.shape = "file" => Led(leaves[i][1], files, rows, r)
  BY <1>3, <1>4, <1>5, FreshLed
<1>8. pc'[i] \in {"naming", "guard"}
  BY <1>1, <1>3 DEF AfterDedup, Typed
<1>9. Ready(i)'
  BY <1>1, <1>4, <1>5, <1>6, <1>7, <1>8 DEF Ready
<1> QED
  BY <1>1, <1>2, <1>9, QuietLasts

\* What is found for the first file of a request: another file, of that content.
LEMMA TwinIs ==
    ASSUME Apart(Requests), NEW F, Tidy(F), NEW r \in Requests, NEW d \in Names,
           Holding(d, F) = PutInto(d, r), NEW p \in Paths, p.dir = d, p.stem = r.parts[1].stem,
           NEW f \in F, PathOf(f) # p, NEW g \in AtIn(F, p), f.content = g.content,
           r.dedup, r.shape # "dir"
    PROVE  /\ f.content \in Wanted /\ f.content \in Brought(r) /\ f.dir # d
           /\ r.shape = "discs" => f.dir # Root
           /\ \A h \in F : h.dir = f.dir /\ h.stem = f.stem => h = f
           /\ \A h \in F : h.dir = f.dir /\ f.dir # Root /\ h.content \in Wanted => h = f
<1>1. /\ g \in F /\ g.dir = d /\ g.stem = p.stem
      /\ g.content = r.parts[1].content /\ g.content \in Brought(r)
  <2>1. 1 \in DOMAIN r.parts
    BY FirstPart
  <2>2. PICK h \in F : /\ AtIn(F, p) = {h} /\ h.dir = d /\ h.stem = p.stem
                       /\ h.content = r.parts[1].content /\ h.content \in Brought(r)
    BY <2>1, LaidAt
  <2> QED
    BY <2>2
<1>2. g.content \in Wanted /\ (r.shape = "discs" => g.content \in FirstDiscs(Requests))
  BY <1>1 DEF Wanted, Sought, FirstDiscs
<1>3. f.dir # d
  <2>1. ASSUME f.dir = d
        PROVE  f = g
    BY <1>1, <1>2, <2>1, NamesAre DEF Tidy
  <2>2. PathOf(g) = p
    BY <1>1, FileIs DEF AtIn, Tidy
  <2> QED
    BY <2>1, <2>2
<1> QED
  BY <1>1, <1>2, <1>3 DEF Tidy

\* The file that is there takes the place of the upload.
LEMMA DedupFileLasts ==
    ASSUME Apart(Requests), LibraryInv, IngestInv, NEW i \in Ingests, DedupFile(i)
    PROVE  Lasts(i)
<1>1. PICK f \in Twins(Anchor(i)) :
        /\ pc[i] = "dedup" /\ req[i].shape = "file" /\ pc' = [pc EXCEPT ![i] = "dropping"]
        /\ leaves' = [leaves EXCEPT ![i] = <<PathOf(f)>>]
        /\ UNCHANGED <<files, rows, req, dest, folder, undo>>
  BY DEF DedupFile, Goto, libraryVars
<1>2. pc[i] \notin Ended \cup {"idle"}
  BY <1>1 DEF Ended
<1>3. /\ Ready(i) /\ Typed /\ Knows(i) /\ req[i] \in Requests /\ Good(files, rows, req) /\ Tidy(files)
      /\ rows \in SUBSET Rows
  BY <1>2, WhileRunning
<1>4. PICK r \in Requests, d \in Names : r = req[i] /\ d = dest[i]
  BY <1>1, <1>3 DEF Knows
<1>5. leaves[i] = PathsIn(d, r) /\ Holding(d, files) = PutInto(d, r) /\ r.dedup /\ r.shape = "file"
  BY <1>1, <1>3, <1>4 DEF Ready, Knows
<1>6. PICK p \in Paths : p = Anchor(i) /\ p.dir = d /\ p.stem = r.parts[1].stem
  <2>1. Anchor(i) \in Paths
    BY <1>1, <1>3, AnchorIs DEF Knows
  <2> QED
    BY <1>5, <2>1, PathsInIs, FirstPart DEF Anchor
<1>7. f \in files /\ f \in Files /\ PathOf(f) # p /\ \E g \in AtIn(files, p) : f.content = g.content
  <2>1. At(p) = AtIn(files, p)
    BY <1>3, AtIs
  <2> QED
    BY <1>3, <1>6, <2>1, TwinsAre DEF Twins
<1>8. PICK q \in Paths : q = PathOf(f)
  BY <1>7, FileIs
<1>9. q.dir = f.dir /\ q.stem = f.stem
  BY <1>8 DEF PathOf
<1>10. /\ f.content \in Wanted /\ f.content \in Brought(r)
       /\ \A h \in files : h.dir = f.dir /\ h.stem = f.stem => h = f
       /\ \A h \in files : h.dir = f.dir /\ f.dir # Root /\ h.content \in Wanted => h = f
  BY <1>3, <1>5, <1>6, <1>7, TwinIs
<1>11. Untracked(q.dir, rows) \/ \E s \in rows : s.path = q
  <2>1. ASSUME NEW t \in rows, t.folder = q.dir
        PROVE  \E s \in rows : s.path = q
    <3>1. PICK s \in rows : s.path.dir = f.dir /\ s.path.stem = f.stem
      BY <1>3, <1>7, <1>9, <1>10, <2>1 DEF Good, Finds
    <3>2. s.path \in Paths
      BY <1>3 DEF Rows
    <3> QED
      BY <1>9, <3>1, <3>2 DEF Paths
  <2> QED
    BY <2>1 DEF Untracked
<1>12. Led(q, files, rows, r)
  BY <1>9, <1>10, <1>11 DEF Led, AtIn
<1>13. pc'[i] = "dropping" /\ leaves'[i] = <<q>> /\ leaves'[i][1] = q
  BY <1>1, <1>3, <1>8 DEF Typed
<1>14. Ready(i)'
  BY <1>1, <1>4, <1>12, <1>13 DEF Ready
<1> QED
  BY <1>1, <1>2, <1>14, QuietLasts

\* The row will track one file of a folder in which none is looked up beside it.
LEMMA GuardDirLasts ==
    ASSUME Apart(Requests), LibraryInv, IngestInv, NEW i \in Ingests, GuardDir(i)
    PROVE  Lasts(i)
<1>1. PICK f \in Inside(folder[i]) :
        /\ pc[i] = "guard" /\ req[i].shape = "dir" /\ pc' = [pc EXCEPT ![i] = "naming"]
        /\ leaves' = [leaves EXCEPT ![i] = <<PathOf(f)>>]
        /\ ~RefuseTracked(i)
        /\ UNCHANGED <<files, rows, req, dest, folder, undo>>
  BY DEF GuardDir, Goto, libraryVars
<1>2. pc[i] \notin Ended \cup {"idle"}
  BY <1>1 DEF Ended
<1>3. /\ Ready(i) /\ Typed /\ Knows(i) /\ req[i] \in Requests /\ Tidy(files)
  BY <1>2, WhileRunning
<1>4. PICK r \in Requests, d \in Names : r = req[i] /\ d = folder[i]
  BY <1>1, <1>3 DEF Knows
<1>5. Holding(d, files) = PutInto(d, r) /\ r.shape = "dir"
  BY <1>1, <1>3, <1>4 DEF Ready
<1>6. f \in files /\ f \in Files /\ f.dir = d /\ f \in PutInto(d, r)
  BY <1>1, <1>3, <1>4, <1>5 DEF Inside, Holding, Typed, LibraryTypeOK
<1>7. PICK q \in Paths : q = PathOf(f)
  BY <1>6, FileIs
<1>8. q.dir = d /\ q.stem = f.stem
  BY <1>6, <1>7 DEF PathOf
<1>9. Untracked(d, rows) /\ d # Root
  BY <1>1, <1>4, <1>5, NamesAre DEF RefuseTracked, TrackedDirs, Untracked
<1>10. PICK u : u = <<q>>
  OBVIOUS
<1>11. DOMAIN u = {1} /\ u[1] = q
  BY <1>7, <1>10, OneLeaf
<1>12. \A g \in AtIn(files, q) : g = f
  BY <1>3, <1>6, <1>8 DEF Tidy, AtIn
<1>13. f \in AtIn(files, q) /\ f.content \in Brought(r)
  BY <1>6, <1>8, LaidIs DEF AtIn
<1>14. ASSUME NEW g \in files, g.dir = d, g.content \in Wanted
       PROVE  g.stem = q.stem
  <2>1. g \in PutInto(d, r)
    BY <1>5, <1>14 DEF Holding
  <2> QED
    BY <1>5, <1>6, <1>8, <1>14, <2>1, LaidIs
<1>15. Settled(u, files, rows, r)
  BY <1>8, <1>9, <1>11, <1>12, <1>13, <1>14 DEF Settled
<1>16. pc'[i] = "naming" /\ leaves'[i] = u
  BY <1>1, <1>3, <1>7, <1>10 DEF Typed
<1>17. Ready(i)'
  BY <1>1, <1>4, <1>15, <1>16 DEF Ready
<1> QED
  BY <1>1, <1>2, <1>17, QuietLasts

\* The folder that goes is tracked by no row, and the file the upload goes on with lies
\* elsewhere or the guard will refuse it.
LEMMA DropOwnLasts ==
    ASSUME LibraryInv, IngestInv, NEW i \in Ingests, DropOwn(i)
    PROVE  Lasts(i)
<1>1. /\ pc[i] = "dropping" /\ pc' = [pc EXCEPT ![i] = "guard"]
      /\ UNCHANGED <<rows, req, dest, leaves, folder, undo>>
      /\ RmTrees({dest[i]})
  BY DEF DropOwn, Goto
<1>2. pc[i] \notin Ended \cup {"idle"}
  BY <1>1 DEF Ended
<1>3. /\ Ready(i) /\ Typed /\ Knows(i) /\ req[i] \in Requests /\ Good(files, rows, req)
      /\ Untracked(dest[i], rows) /\ Parted(rows)
  BY <1>2, WhileRunning
<1>4. undo[i] = <<>> /\ req[i].shape = "file" /\ dest[i] \in Names /\ pc'[i] = "guard"
  BY <1>1, <1>3 DEF Knows, Typed
<1>5. PICK G : G = files' /\ G = Outside(files, dest[i])
  BY <1>1, <1>4, NamesAre DEF RmTrees, Outside
<1>6. G \in SUBSET files /\ \A f \in files \ G : f.dir = dest[i]
  BY <1>5 DEF Outside
<1>7. Good(G, rows, req)
  BY <1>3, <1>6, GoodLess
<1>8. PICK p : p = leaves[i][1]
  OBVIOUS
<1>9. Led(p, files, rows, req[i])
  BY <1>1, <1>3, <1>4, <1>8 DEF Ready
<1>10. Led(p, G, rows, req[i])
  BY <1>6, <1>9 DEF Led, AtIn
<1>11. Ready(i)'
  BY <1>1, <1>4, <1>5, <1>8, <1>10 DEF Ready
<1>12. Through(undo[i], G, rows, req)
  BY <1>4, <1>7, ThroughNone
<1> QED
  BY <1>1, <1>3, <1>5, <1>7, <1>11, <1>12 DEF Lasts

\* The files of a set whose first disc lies elsewhere: the others in the folder of the
\* upload, the first where it was found.
LEMMA LedElsewhere ==
    ASSUME Apart(Requests), NEW F, Tidy(F), NEW r \in Requests, NEW d \in Names,
           Holding(d, F) = PutInto(d, r), NEW R, Untracked(d, R),
           NEW p, p.dir = d, p.stem = r.parts[1].stem,
           NEW f \in F, f.dir # d, f.dir # Root, Untracked(f.dir, R), f.content \in Brought(r),
           \A h \in F : h.dir = f.dir /\ h.stem = f.stem => h = f,
           \A h \in F : h.dir = f.dir /\ h.content \in Wanted => h = f,
           NEW v, DOMAIN v = DOMAIN r.parts, v[1].dir = f.dir, v[1].stem = f.stem,
           \A k \in DOMAIN v : k # 1 => v[k].dir = d /\ v[k].stem = r.parts[k].stem
    PROVE  Settled(v, F \ AtIn(F, p), R, r)
<1>1. PICK G : G = F \ AtIn(F, p)
  OBVIOUS
<1>2. d # Root /\ 1 \in DOMAIN v
  BY NamesAre, FirstPart
<1>3. f \in G /\ AtIn(G, v[1]) = {f}
  BY <1>1 DEF AtIn
<1>4. \A k, l \in DOMAIN r.parts : r.parts[k].stem = r.parts[l].stem => k = l
  BY DEF Apart
<1>5. ASSUME NEW k \in DOMAIN v, k # 1
      PROVE  AtIn(G, v[k]) # {} /\ \A g \in AtIn(G, v[k]) : g.content \in Brought(r)
  <2>1. PICK q : q = v[k]
    OBVIOUS
  <2>2. k \in DOMAIN r.parts /\ q.dir = d /\ q.stem = r.parts[k].stem
    BY <1>5, <2>1
  <2>3. PICK g \in F : AtIn(F, q) = {g} /\ g.content \in Brought(r)
    BY <2>2, LaidAt
  <2>4. q.stem # p.stem
    BY <1>2, <1>4, <1>5, <2>2
  <2>5. AtIn(G, q) = AtIn(F, q)
    BY <1>1, <2>4 DEF AtIn
  <2> QED
    BY <2>1, <2>3, <2>5
<1>6. ASSUME NEW g \in G, g.dir = d
      PROVE  \E l \in DOMAIN v : v[l].dir = g.dir /\ v[l].stem = g.stem
  <2>1. g \in PutInto(d, r)
    BY <1>1, <1>6 DEF Holding
  <2>2. PICK l \in DOMAIN r.parts : g.stem = r.parts[l].stem
    BY <2>1, LaidIs
  <2>3. l # 1
    BY <1>1, <1>6, <2>2 DEF AtIn
  <2> QED
    BY <1>6, <2>2, <2>3
<1>7. ASSUME NEW k \in DOMAIN v, NEW l \in DOMAIN v, v[k] = v[l]
      PROVE  k = l
  <2>1. k = 1 <=> l = 1
    BY <1>7
  <2>2. CASE k # 1
    <3>1. r.parts[k].stem = r.parts[l].stem
      BY <1>7, <2>1, <2>2
    <3> QED
      BY <1>4, <3>1
  <2> QED
    BY <2>1, <2>2
<1>8. ASSUME NEW k \in DOMAIN v
      PROVE  /\ v[k].dir # Root /\ Untracked(v[k].dir, R)
             /\ AtIn(G, v[k]) # {} /\ \A g \in AtIn(G, v[k]) : g.content \in Brought(r)
             /\ \A g \in G : g.dir = v[k].dir /\ g.content \in Wanted =>
                    \E l \in DOMAIN v : v[l].dir = g.dir /\ v[l].stem = g.stem
  <2>1. CASE k = 1
    <3>1. \A g \in G : g.dir = f.dir /\ g.content \in Wanted => g = f
      BY <1>1
    <3> QED
      BY <1>2, <1>3, <2>1, <3>1
  <2>2. CASE k # 1
    BY <1>2, <1>5, <1>6, <2>2
  <2> QED
    BY <2>1, <2>2
<1>9. Settled(v, G, R, r)
  BY <1>7, <1>8 DEF Settled
<1> QED
  BY <1>1, <1>9

LEMMA DedupAnchorLasts ==
    ASSUME Apart(Requests), LibraryInv, IngestInv, NEW i \in Ingests, DedupAnchor(i)
    PROVE  Lasts(i)
<1>1. PICK f \in Twins(Anchor(i)) :
        /\ pc[i] = "dedup" /\ req[i].shape = "discs"
        /\ \/ /\ Raise(i, "rejected")
              /\ UNCHANGED <<files, leaves>>
           \/ /\ PathOf(f) \notin TrackedPaths
              /\ files' = files \ At(Anchor(i))
              /\ leaves' = [leaves EXCEPT ![i][1] = PathOf(f)]
              /\ pc' = [pc EXCEPT ![i] = "naming"]
        /\ UNCHANGED <<rows, req, dest, folder, undo>>
  BY DEF DedupAnchor, Goto
<1>2. pc[i] \notin Ended \cup {"idle"}
  BY <1>1 DEF Ended
<1>3. CASE Raise(i, "rejected") /\ UNCHANGED <<files, leaves>>
  BY <1>1, <1>2, <1>3, RaiseLasts
<1>4. CASE /\ PathOf(f) \notin TrackedPaths
           /\ files' = files \ At(Anchor(i))
           /\ leaves' = [leaves EXCEPT ![i][1] = PathOf(f)]
           /\ pc' = [pc EXCEPT ![i] = "naming"]
  <2>1. /\ Ready(i) /\ Typed /\ Knows(i) /\ req[i] \in Requests /\ Good(files, rows, req) /\ Tidy(files)
        /\ rows \in SUBSET Rows /\ Parted(rows) /\ Untracked(dest[i], rows)
    BY <1>2, WhileRunning
  <2>2. PICK r \in Requests, d \in Names : r = req[i] /\ d = dest[i]
    BY <1>1, <2>1 DEF Knows
  <2>3. /\ leaves[i] = PathsIn(d, r) /\ Holding(d, files) = PutInto(d, r) /\ r.dedup /\ r.shape = "discs"
        /\ undo[i] = <<>>
    BY <1>1, <2>1, <2>2 DEF Ready, Knows
  <2>4. PICK p \in Paths : p = Anchor(i) /\ p.dir = d /\ p.stem = r.parts[1].stem
    <3>1. leaves[i] # <<>>
      BY <1>1, <2>1 DEF Knows, AtHome
    <3>2. Anchor(i) \in Paths
      BY <2>1, <3>1, AnchorIs
    <3> QED
      BY <2>3, <3>2, PathsInIs, FirstPart DEF Anchor
  <2>5. At(p) = AtIn(files, p)
    BY <2>1, AtIs
  <2>6. f \in files /\ f \in Files /\ PathOf(f) # p /\ \E g \in AtIn(files, p) : f.content = g.content
    BY <2>1, <2>4, <2>5, TwinsAre DEF Twins
  <2>7. PICK q \in Paths : q = PathOf(f) /\ q.dir = f.dir /\ q.stem = f.stem
    BY <2>6, FileIs DEF PathOf
  <2>8. /\ f.content \in Wanted /\ f.content \in Brought(r) /\ f.dir # d /\ f.dir # Root
        /\ \A h \in files : h.dir = f.dir /\ h.stem = f.stem => h = f
        /\ \A h \in files : h.dir = f.dir /\ h.content \in Wanted => h = f
    BY <2>1, <2>3, <2>4, <2>6, TwinIs
  <2>9. Untracked(f.dir, rows)
    <3>1. ASSUME NEW t \in rows, t.folder = f.dir
          PROVE  FALSE
      <4>1. PICK s \in rows : s.path.dir = f.dir /\ s.path.stem = f.stem
        BY <2>1, <2>6, <2>8, <3>1 DEF Good, Finds
      <4>2. s.path \in Paths
        BY <2>1 DEF Rows
      <4>3. s.path = q
        BY <2>7, <4>1, <4>2 DEF Paths
      <4> QED
        BY <1>4, <2>7, <4>3 DEF TrackedPaths
    <3> QED
      BY <3>1 DEF Untracked
  <2>10. PICK u \in Seq(Paths) : u = leaves[i]
    BY <2>1 DEF Typed
  <2>11. PICK v : v = leaves'[i] /\ v = [u EXCEPT ![1] = q]
    BY <1>4, <2>1, <2>7, <2>10 DEF Typed
  <2>12. /\ DOMAIN u = DOMAIN r.parts /\ 1 \in DOMAIN u
         /\ \A k \in DOMAIN u : u[k].dir = d /\ u[k].stem = r.parts[k].stem
    BY <2>3, <2>10, PathsInIs, FirstPart
  <2>13. /\ DOMAIN v = DOMAIN r.parts /\ v[1] = q
         /\ \A k \in DOMAIN v : k # 1 => v[k].dir = d /\ v[k].stem = r.parts[k].stem
    BY <2>11, <2>12
  <2>14. PICK G : G = files' /\ G = files \ AtIn(files, p)
    BY <1>4, <2>4, <2>5
  <2>15. Settled(v, G, rows, r)
    BY <2>1, <2>2, <2>3, <2>4, <2>6, <2>7, <2>8, <2>9, <2>13, <2>14, LedElsewhere
  <2>16. Good(G, rows, req)
    <3>1. G \in SUBSET files /\ \A g \in files \ G : g.dir = d
      BY <2>4, <2>14 DEF AtIn
    <3> QED
      BY <2>1, <2>2, <3>1, GoodLess
  <2>17. pc'[i] = "naming"
    BY <1>4, <2>1 DEF Typed
  <2>18. Ready(i)'
    BY <1>1, <2>2, <2>11, <2>14, <2>15, <2>17 DEF Ready
  <2>19. Through(undo[i], G, rows, req)
    BY <2>3, <2>16, ThroughNone
  <2> QED
    BY <1>1, <2>1, <2>14, <2>16, <2>18, <2>19 DEF Lasts
<1> QED
  BY <1>1, <1>3, <1>4

\* The folder a file is to go to has no row at that path.
LEMMA GuardFileLasts ==
    ASSUME LibraryInv, IngestInv, NEW i \in Ingests, GuardFile(i)
    PROVE  Lasts(i)
<1>0. PICK stem, canonical, usedFor :
        /\ stem = Anchor(i).stem /\ canonical = [dir |-> Plain(stem), stem |-> stem]
        /\ usedFor = {d \in Names : [dir |-> d, stem |-> stem] \in TrackedPaths}
  OBVIOUS
<1>1. /\ pc[i] = "guard" /\ req[i].shape = "file" /\ ~SourceMissing(i) /\ ~RefuseTracked(i)
      /\ \/ /\ canonical \notin TrackedPaths
            /\ folder' = [folder EXCEPT ![i] = Plain(stem)]
            /\ Goto(i, "placing")
         \/ Raise(i, "rejected")
         \/ /\ HasFree(Plain(stem), dirs \cup usedFor)
            /\ folder' = [folder EXCEPT ![i] = UniqueSlug(Plain(stem), dirs \cup usedFor)]
            /\ Goto(i, "placing")
      /\ UNCHANGED <<files, rows, req, dest, leaves, undo>>
  BY <1>0 DEF GuardFile, libraryVars
<1>2. pc[i] \notin Ended \cup {"idle"}
  BY <1>1 DEF Ended
<1>3. Ready(i) /\ Typed /\ Knows(i)
  BY <1>2, WhileRunning
<1>4. PICK p \in Paths : p = Anchor(i) /\ p = leaves[i][1] /\ stem \in Bases
  <2>1. leaves[i] # <<>>
    BY <1>1, <1>3 DEF Knows
  <2> QED
    BY <1>0, <1>3, <2>1, AnchorIs DEF Anchor
<1>5. AtIn(files, p) # {} /\ p \notin TrackedPaths
  BY <1>1, <1>3, <1>4, AtIs DEF SourceMissing, Present, RefuseTracked
<1>6. CASE Raise(i, "rejected")
  BY <1>1, <1>2, <1>6, RaiseLasts
<1>7. ASSUME NEW d, [dir |-> d, stem |-> stem] \notin TrackedPaths,
             folder' = [folder EXCEPT ![i] = d], Goto(i, "placing")
      PROVE  Lasts(i)
  <2>1. pc'[i] = "placing" /\ folder'[i] = d
    BY <1>3, <1>7 DEF Typed, Goto
  <2>2. Target(i)' = [dir |-> d, stem |-> stem]
    BY <1>0, <1>1, <2>1 DEF Target, Anchor
  <2>3. \A r \in rows : r.path # p /\ r.path # Target(i)'
    BY <1>5, <1>7, <2>2 DEF TrackedPaths
  <2>4. Led(p, files, rows, req[i])
    BY <1>1, <1>3, <1>4 DEF Ready
  <2>5. Ready(i)'
    BY <1>1, <1>4, <1>5, <2>1, <2>3, <2>4 DEF Ready
  <2> QED
    BY <1>1, <1>2, <2>5, QuietLasts
<1>8. HasFree(Plain(stem), dirs \cup usedFor) =>
        UniqueSlug(Plain(stem), dirs \cup usedFor) \in Names \ (dirs \cup usedFor)
  BY <1>4, NamesAre, UniqueSlugIs
<1>9. \A d \in Names \ usedFor : [dir |-> d, stem |-> stem] \notin TrackedPaths
  BY <1>0
<1> QED
  BY <1>0, <1>1, <1>6, <1>7, <1>8, <1>9

-------------------------------------------------------------------------------
(* Placing and naming.                                                           *)

\* Files about to be tracked follow the folder they are in.
LEMMA SettledRenamed ==
    ASSUME NEW F \in SUBSET Files, NEW D \in SUBSET Names, HousedIn(D, F),
           NEW old \in D, NEW new \in Names, new \notin D, NEW R, Untracked(new, R), NEW q,
           NEW u, Settled(u, F, R, q), NEW v, DOMAIN v = DOMAIN u,
           \A k \in DOMAIN u : /\ u[k] \in Paths /\ v[k].stem = u[k].stem
                               /\ v[k].dir = IF u[k].dir = old THEN new ELSE u[k].dir
    PROVE  Settled(v, Renamed(F, old, new), R, q)
<1>1. PICK G : G = Renamed(F, old, new) /\ G = {Rehoused(f, old, new) : f \in F}
  BY RenamedIs
<1>2. \A f \in F : /\ Rehoused(f, old, new).dir = IF f.dir = old THEN new ELSE f.dir
                   /\ Rehoused(f, old, new).stem = f.stem /\ Rehoused(f, old, new).content = f.content
  BY DEF Rehoused
<1>3. \A f \in F : f.dir # new
  BY NamesAre DEF HousedIn
<1>4. old # Root /\ new # Root
  BY NamesAre
<1>5. ASSUME NEW k \in DOMAIN u
      PROVE  /\ u[k].dir # Root /\ u[k].dir # new /\ Untracked(u[k].dir, R) /\ AtIn(F, u[k]) # {}
             /\ SizesTell /\ q.staged => \A f \in AtIn(F, u[k]) : f.content \in Brought(q)
             /\ \A g \in F : g.dir = u[k].dir /\ g.content \in Wanted =>
                    \E l \in DOMAIN u : u[l].dir = g.dir /\ u[l].stem = g.stem
  <2>1. PICK f \in F : f.dir = u[k].dir
    BY DEF Settled, AtIn
  <2> QED
    BY <1>3, <2>1 DEF Settled
<1>6. ASSUME NEW k \in DOMAIN u, NEW g \in F, Rehoused(g, old, new).dir = v[k].dir
      PROVE  g.dir = u[k].dir
  BY <1>2, <1>3, <1>5, <1>6
<1>7. ASSUME NEW k \in DOMAIN u
      PROVE  /\ v[k].dir # Root /\ Untracked(v[k].dir, R)
             /\ AtIn(G, v[k]) # {}
             /\ SizesTell /\ q.staged => \A f \in AtIn(G, v[k]) : f.content \in Brought(q)
  <2>1. v[k].dir # Root /\ Untracked(v[k].dir, R)
    BY <1>4, <1>5
  <2>2. PICK f \in F : f.dir = u[k].dir /\ f.stem = u[k].stem
    BY <1>5 DEF AtIn
  <2>3. Rehoused(f, old, new) \in AtIn(G, v[k])
    BY <1>1, <1>2, <2>2 DEF AtIn
  <2>4. ASSUME NEW g \in AtIn(G, v[k])
        PROVE  \E h \in AtIn(F, u[k]) : g.content = h.content
    <3>1. PICK h \in F : g = Rehoused(h, old, new)
      BY <1>1 DEF AtIn
    <3>2. Rehoused(h, old, new).dir = v[k].dir /\ Rehoused(h, old, new).stem = v[k].stem
      BY <3>1 DEF AtIn
    <3>3. h \in AtIn(F, u[k])
      BY <1>2, <1>6, <3>2 DEF AtIn
    <3> QED
      BY <1>2, <3>1, <3>3
  <2> QED
    BY <1>5, <2>1, <2>3, <2>4
<1>8. ASSUME NEW k \in DOMAIN u, NEW g \in G, g.dir = v[k].dir, g.content \in Wanted
      PROVE  \E l \in DOMAIN u : v[l].dir = g.dir /\ v[l].stem = g.stem
  <2>1. PICK h \in F : g = Rehoused(h, old, new)
    BY <1>1
  <2>2. h.dir = u[k].dir /\ h.content \in Wanted /\ h.stem = g.stem
    BY <1>2, <1>6, <1>8, <2>1
  <2>3. PICK l \in DOMAIN u : u[l].dir = h.dir /\ u[l].stem = h.stem
    BY <1>5, <2>2
  <2>4. v[l].dir = v[k].dir
    BY <2>2, <2>3
  <2> QED
    BY <1>8, <2>2, <2>3, <2>4
<1>9. ASSUME NEW k \in DOMAIN u, NEW l \in DOMAIN u, v[k] = v[l]
      PROVE  k = l
  <2>1. u[k].dir = u[l].dir /\ u[k].stem = u[l].stem
    BY <1>5, <1>9
  <2>2. u[k] = u[l]
    BY <2>1 DEF Paths
  <2> QED
    BY <2>2 DEF Settled
<1>10. Settled(v, G, R, q)
  BY <1>7, <1>8, <1>9 DEF Settled
<1> QED
  BY <1>1, <1>10

\* One file about to be tracked.
LEMMA OneSettled ==
    ASSUME NEW F, NEW R, NEW q, NEW p \in Paths, p.dir # Root, Untracked(p.dir, R), AtIn(F, p) # {},
           SizesTell /\ q.staged => \A f \in AtIn(F, p) : f.content \in Brought(q),
           \A g \in F : g.dir = p.dir /\ g.content \in Wanted => g.stem = p.stem
    PROVE  Settled(<<p>>, F, R, q)
<1>1. PICK u : u = <<p>>
  OBVIOUS
<1>2. DOMAIN u = {1} /\ u[1] = p
  BY <1>1, OneLeaf
<1>3. Settled(u, F, R, q)
  BY <1>2 DEF Settled
<1> QED
  BY <1>1, <1>3

\* What an ingest knows that places its file.
LEMMA WhilePlacing ==
    ASSUME LibraryInv, IngestInv, NEW i \in Ingests, pc[i] = "placing"
    PROVE  /\ Anchor(i) \in Paths /\ Anchor(i) = leaves[i][1] /\ AtIn(files, Anchor(i)) # {}
           /\ Target(i) \in Paths /\ Target(i).dir = folder[i] /\ Target(i).stem = Anchor(i).stem
           /\ folder[i] \in Names /\ folder[i] # Root /\ undo[i] = <<>> /\ req[i].shape = "file"
           /\ Led(Anchor(i), files, rows, req[i])
           /\ \A r \in rows : r.path # Anchor(i) /\ r.path # Target(i)
           /\ Anchor(i).dir # Root => Untracked(Anchor(i).dir, rows)
<1>1. Typed /\ Knows(i) /\ Ready(i)
  BY WhileRunning DEF Ended
<1>2. leaves[i] # <<>> /\ folder[i] \in Names /\ undo[i] = <<>> /\ req[i].shape = "file"
  BY <1>1 DEF Knows
<1>3. Anchor(i) \in Paths /\ Target(i) \in Paths /\ Target(i).dir = folder[i] /\ folder[i] # Root
  BY <1>1, <1>2, AnchorIs, TargetIs, NamesAre
<1>4. Target(i).stem = Anchor(i).stem /\ Anchor(i) = leaves[i][1]
  BY DEF Target, Anchor
<1>5. /\ Led(Anchor(i), files, rows, req[i]) /\ AtIn(files, Anchor(i)) # {}
      /\ \A r \in rows : r.path # Anchor(i) /\ r.path # Target(i)
  BY <1>1, <1>2 DEF Ready, Anchor
<1>6. Untracked(Anchor(i).dir, rows)
  BY <1>5 DEF Led
<1> QED
  BY <1>2, <1>3, <1>4, <1>5, <1>6

\* A folder that holds at most the file at which no row has its file.
LEMMA NotCrowded ==
    ASSUME LibraryInv, IngestInv, NEW i \in Ingests, pc[i] = "placing", ~Crowded(i)
    PROVE  /\ Untracked(folder[i], rows)
           /\ \A f \in files : f.dir = folder[i] => f.stem = Target(i).stem
<1>1. Typed /\ rows \in SUBSET Rows /\ files \in SUBSET Files /\ Good(files, rows, req) /\ Parted(rows)
  BY WhileRunning DEF Ended
<1>2. PICK q \in Paths : q = Target(i) /\ q.dir = folder[i] /\ \A r \in rows : r.path # q
  BY WhilePlacing
<1>3. \A f \in files : f.dir = folder[i] => f.stem = q.stem
  BY <1>1, <1>2, FileIs DEF Crowded, Inside
<1>4. ASSUME NEW t \in rows, t.folder = folder[i]
      PROVE  FALSE
  <2>1. PICK f \in files : f.dir = t.path.dir /\ f.stem = t.path.stem
    BY <1>1 DEF Good, Finds, AtIn
  <2>2. t.path.dir = q.dir /\ t.path.stem = q.stem
    BY <1>1, <1>2, <1>3, <1>4, <2>1 DEF Parted
  <2>3. t.path \in Paths
    BY <1>1 DEF Rows
  <2> QED
    BY <1>2, <2>2, <2>3 DEF Paths
<1> QED
  BY <1>2, <1>3, <1>4 DEF Untracked

\* The file that is there has the content of the upload, for sizes tell.
LEMMA PlaceReuseLasts ==
    ASSUME LibraryInv, IngestInv, NEW i \in Ingests, PlaceReuse(i)
    PROVE  Lasts(i)
<1>0. PICK p, q : p = Anchor(i) /\ q = Target(i)
  OBVIOUS
<1>1. /\ pc[i] = "placing" /\ pc' = [pc EXCEPT ![i] = "naming"] /\ ~Crowded(i)
      /\ Present(q) /\ Present(p) /\ SizeAt(q) = SizeAt(p)
      /\ leaves' = [leaves EXCEPT ![i] = <<q>>]
      /\ UNCHANGED <<files, rows, req, dest, folder, undo>>
  BY <1>0 DEF PlaceReuse, Goto, SameSize, libraryVars
<1>2. pc[i] \notin Ended \cup {"idle"}
  BY <1>1 DEF Ended
<1>3. Typed /\ Tidy(files) /\ files \in SUBSET Files
  BY <1>2, WhileRunning
<1>4. /\ p \in Paths /\ q \in Paths /\ q.dir = folder[i] /\ folder[i] # Root
      /\ Led(p, files, rows, req[i])
  BY <1>0, <1>1, WhilePlacing
<1>5. Untracked(q.dir, rows) /\ \A f \in files : f.dir = q.dir => f.stem = q.stem
  BY <1>0, <1>1, <1>4, NotCrowded
<1>6. PICK f, g : AtIn(files, p) = {f} /\ At(p) = {f} /\ AtIn(files, q) = {g} /\ At(q) = {g}
  <2>1. At(p) = AtIn(files, p) /\ At(q) = AtIn(files, q)
    BY <1>3, <1>4, AtIs
  <2>2. PICK f \in AtIn(files, p), g \in AtIn(files, q) : TRUE
    BY <1>1, <2>1 DEF Present
  <2>3. (\A h \in AtIn(files, p) : h = f) /\ (\A h \in AtIn(files, q) : h = g)
    BY <1>3, <2>2 DEF Tidy, AtIn
  <2> QED
    BY <2>1, <2>2, <2>3
<1>7. SizesTell => f.content = g.content
  <2>1. Size[f.content] = Size[g.content]
    <3>1. (CHOOSE h \in At(p) : TRUE) = f /\ (CHOOSE h \in At(q) : TRUE) = g
      BY <1>6
    <3> QED
      BY <1>1, <3>1 DEF SizeAt
  <2>2. f \in files /\ g \in files
    BY <1>6 DEF AtIn
  <2>3. f.content \in Contents /\ g.content \in Contents
    BY <1>3, <2>2, FileIs
  <2> QED
    BY <2>1, <2>3 DEF SizesTell
<1>8. req[i].staged => f.content \in Brought(req[i])
  BY <1>4, <1>6 DEF Led
<1>9. Settled(<<q>>, files, rows, req[i])
  BY <1>4, <1>5, <1>6, <1>7, <1>8, OneSettled
<1>10. pc'[i] = "naming" /\ leaves'[i] = <<q>>
  BY <1>1, <1>3 DEF Typed
<1>11. Ready(i)'
  BY <1>1, <1>9, <1>10 DEF Ready
<1> QED
  BY <1>1, <1>2, <1>11, QuietLasts

\* No row tracks the folder that is renamed.
LEMMA PlaceRenameLasts ==
    ASSUME LibraryInv, IngestInv, NEW i \in Ingests, PlaceRename(i)
    PROVE  Lasts(i)
<1>0. PICK p, q, home, new : p = Anchor(i) /\ q = Target(i) /\ home = p.dir /\ new = folder[i]
  OBVIOUS
<1>1. /\ pc[i] = "placing" /\ home # Root /\ home \in dirs /\ new \notin dirs
      /\ files' = Renamed(files, home, new)
      /\ undo' = [undo EXCEPT ![i] = Append(@, [kind |-> "dir", old |-> home, new |-> new])]
      /\ leaves' = [leaves EXCEPT ![i] = <<q>>]
      /\ pc' = [pc EXCEPT ![i] = "naming"]
      /\ UNCHANGED <<rows, req, dest, folder>>
  BY <1>0 DEF PlaceRename, Goto, MayRename, RenameDir, Push, Renamed
<1>2. pc[i] \notin Ended \cup {"idle"}
  BY <1>1 DEF Ended
<1>3. /\ Typed /\ files \in SUBSET Files /\ dirs \in SUBSET Names /\ HousedIn(dirs, files)
      /\ Good(files, rows, req) /\ Parted(rows) /\ Untracked(dest[i], rows)
  BY <1>2, WhileRunning
<1>4. /\ p \in Paths /\ q \in Paths /\ q.dir = new /\ q.stem = p.stem /\ new \in Names
      /\ AtIn(files, p) # {} /\ undo[i] = <<>> /\ Led(p, files, rows, req[i]) /\ Untracked(home, rows)
  BY <1>0, <1>1, WhilePlacing
<1>5. PICK G : G = files' /\ G = Renamed(files, home, new)
  BY <1>1
<1>6. Good(G, rows, req)
  BY <1>1, <1>3, <1>4, <1>5, GoodRenamed
<1>7. Settled(<<p>>, files, rows, req[i])
  <2>1. /\ req[i].staged => \A f \in AtIn(files, p) : f.content \in Brought(req[i])
        /\ \A g \in files : g.dir = p.dir /\ g.content \in Wanted => g.stem = p.stem
    BY <1>0, <1>1, <1>4 DEF Led
  <2> QED
    BY <1>0, <1>1, <1>4, <2>1, OneSettled
<1>8. Settled(<<q>>, G, rows, req[i])
  <2>1. PICK u, v : u = <<p>> /\ v = <<q>>
    OBVIOUS
  <2>2. DOMAIN u = {1} /\ u[1] = p /\ DOMAIN v = {1} /\ v[1] = q
    BY <1>4, <2>1, OneLeaf
  <2>3. Untracked(new, rows)
    BY <1>1, <1>3, FoundHoused
  <2>4. Settled(v, Renamed(files, home, new), rows, req[i])
    BY <1>0, <1>1, <1>3, <1>4, <1>7, <2>1, <2>2, <2>3, SettledRenamed
  <2> QED
    BY <1>5, <2>1, <2>4
<1>9. Through(undo'[i], G, rows, req)
  <2>1. PICK op \in UndoOps : op = [kind |-> "dir", old |-> home, new |-> new]
    BY <1>1, <1>3, <1>4 DEF UndoOps, DirOps
  <2>2. FilesBack(op, G) = files
    <3>1. Renamed(Renamed(files, home, new), new, home) = files
      BY <1>1, <1>3, <1>4, RenameBack
    <3> QED
      BY <1>5, <2>1, <3>1 DEF FilesBack
  <2>3. PICK u \in Seq(UndoOps) : u = undo[i] /\ u = <<>> /\ Len(u) <= 1
    <3>1. <<>> \in Seq(UndoOps) /\ Len(<<>>) <= 1
      OBVIOUS
    <3> QED
      BY <1>4, <3>1
  <2>4. Through(u, files, rows, req)
    BY <1>2, <2>3, WhileRunning
  <2>5. Through(Append(u, op), G, rows, req)
    BY <1>6, <2>1, <2>2, <2>3, <2>4, PushThrough
  <2>6. undo'[i] = Append(u, op)
    BY <1>1, <1>3, <2>1, <2>3 DEF Typed
  <2> QED
    BY <2>5, <2>6
<1>10. pc'[i] = "naming" /\ leaves'[i] = <<q>>
  BY <1>1, <1>3 DEF Typed
<1>11. Ready(i)'
  BY <1>1, <1>5, <1>8, <1>10 DEF Ready
<1> QED
  BY <1>1, <1>3, <1>5, <1>6, <1>9, <1>11 DEF Lasts

\* The file is moved into an empty folder.
LEMMA PlaceMoveLasts ==
    ASSUME LibraryInv, IngestInv, NEW i \in Ingests, PlaceMove(i)
    PROVE  Lasts(i)
<1>0. PICK p, q : p = Anchor(i) /\ q = Target(i)
  OBVIOUS
<1>1. /\ pc[i] = "placing" /\ ~Crowded(i) /\ Present(p) /\ ~Present(q) /\ MoveFile(p, q)
      /\ undo' = [undo EXCEPT ![i] = Append(@, [kind |-> "file", old |-> p, new |-> q])]
      /\ leaves' = [leaves EXCEPT ![i] = <<q>>]
      /\ pc' = [pc EXCEPT ![i] = "naming"]
      /\ UNCHANGED <<rows, req, dest, folder>>
  BY <1>0 DEF PlaceMove, Goto, Push
<1>2. pc[i] \notin Ended \cup {"idle"}
  BY <1>1 DEF Ended
<1>3. /\ Typed /\ files \in SUBSET Files /\ rows \in SUBSET Rows
      /\ Good(files, rows, req) /\ Parted(rows) /\ Untracked(dest[i], rows)
  BY <1>2, WhileRunning
<1>4. /\ p \in Paths /\ q \in Paths /\ q.dir = folder[i] /\ q.dir # Root
      /\ undo[i] = <<>> /\ Led(p, files, rows, req[i])
      /\ \A r \in rows : r.path # p
  BY <1>0, <1>1, WhilePlacing
<1>5. AtIn(files, p) # {} /\ AtIn(files, q) = {}
  BY <1>1, <1>3, <1>4, AtIs DEF Present
<1>6. PICK G : G = files' /\ G = Moved(files, p, q)
  BY <1>1, <1>3, <1>4, AtIs DEF MoveFile, Moved, PutAt
<1>7. Untracked(q.dir, rows) /\ \A f \in files : f.dir # q.dir
  <2>1. Untracked(q.dir, rows) /\ \A f \in files : f.dir = q.dir => f.stem = q.stem
    BY <1>0, <1>1, <1>4, NotCrowded
  <2> QED
    BY <1>5, <2>1 DEF AtIn
<1>8. Good(G, rows, req)
  BY <1>3, <1>4, <1>6, <1>7, GoodMoved
<1>9. G = (files \ AtIn(files, p)) \cup {PutAt(f, q) : f \in AtIn(files, p)}
  BY <1>6 DEF Moved
<1>10. \A f : PutAt(f, q).dir = q.dir /\ PutAt(f, q).stem = q.stem /\ PutAt(f, q).content = f.content
  BY DEF PutAt
<1>11. AtIn(G, q) # {}
  BY <1>5, <1>9, <1>10 DEF AtIn
<1>12. ASSUME NEW g \in G, g.dir = q.dir
       PROVE  g.stem = q.stem /\ \E f \in AtIn(files, p) : g.content = f.content
  <2>1. g \notin files
    BY <1>7, <1>12
  <2> QED
    BY <1>9, <1>10, <2>1
<1>13. req[i].staged => \A g \in AtIn(G, q) : g.content \in Brought(req[i])
  <2>1. \A g \in AtIn(G, q) : \E f \in AtIn(files, p) : g.content = f.content
    BY <1>12 DEF AtIn
  <2> QED
    BY <1>4, <2>1 DEF Led
<1>14. Settled(<<q>>, G, rows, req[i])
  BY <1>4, <1>7, <1>11, <1>12, <1>13, OneSettled
<1>15. Through(undo'[i], G, rows, req)
  <2>1. PICK op \in UndoOps : op = [kind |-> "file", old |-> p, new |-> q]
    BY <1>4 DEF UndoOps, FileOps
  <2>2. FilesBack(op, G) = files
    <3>1. Moved(Moved(files, p, q), q, p) = files
      BY <1>3, <1>4, <1>5, MoveBack
    <3> QED
      BY <1>6, <2>1, <3>1 DEF FilesBack
  <2>3. PICK u \in Seq(UndoOps) : u = undo[i] /\ u = <<>> /\ Len(u) <= 1
    <3>1. <<>> \in Seq(UndoOps) /\ Len(<<>>) <= 1
      OBVIOUS
    <3> QED
      BY <1>4, <3>1
  <2>4. Through(u, files, rows, req)
    BY <1>2, <2>3, WhileRunning
  <2>5. Through(Append(u, op), G, rows, req)
    BY <1>8, <2>1, <2>2, <2>3, <2>4, PushThrough
  <2>6. undo'[i] = Append(u, op)
    BY <1>1, <1>3, <2>1, <2>3 DEF Typed
  <2> QED
    BY <2>5, <2>6
<1>16. pc'[i] = "naming" /\ leaves'[i] = <<q>>
  BY <1>1, <1>3 DEF Typed
<1>17. Ready(i)'
  BY <1>1, <1>6, <1>14, <1>16 DEF Ready
<1> QED
  BY <1>1, <1>3, <1>6, <1>8, <1>15, <1>17 DEF Lasts

\* The paths after the folder was renamed.
LEMMA RebasedFields ==
    ASSUME Typed, NEW i \in Ingests, NEW new \in Names
    PROVE  /\ DOMAIN Rebase(i, new) = DOMAIN leaves[i]
           /\ \A k \in DOMAIN leaves[i] :
                /\ leaves[i][k] \in Paths
                /\ Rebase(i, new)[k].stem = leaves[i][k].stem
                /\ Rebase(i, new)[k].dir = IF leaves[i][k].dir = folder[i] THEN new ELSE leaves[i][k].dir
<1>1. PICK u \in Seq(Paths) : u = leaves[i]
  BY DEF Typed
<1>2. PICK v : v = [k \in DOMAIN u |-> [u[k] EXCEPT !.dir = IF @ = folder[i] THEN new ELSE @]]
  OBVIOUS
<1>3. Rebase(i, new) = v
  BY <1>1, <1>2 DEF Rebase
<1>4. ASSUME NEW k \in DOMAIN u
      PROVE  /\ u[k] \in Paths /\ v[k].stem = u[k].stem
             /\ v[k].dir = IF u[k].dir = folder[i] THEN new ELSE u[k].dir
  <2>1. PICK p \in Paths : p = u[k]
    BY <1>4
  <2>2. PICK d : d = IF p.dir = folder[i] THEN new ELSE p.dir
    OBVIOUS
  <2>3. v[k] = [p EXCEPT !.dir = d]
    BY <1>2, <2>1, <2>2
  <2>4. [p EXCEPT !.dir = d].stem = p.stem /\ [p EXCEPT !.dir = d].dir = d
    BY DEF Paths
  <2> QED
    BY <2>1, <2>2, <2>3, <2>4
<1>5. DOMAIN v = DOMAIN u
  BY <1>2
<1> QED
  BY <1>1, <1>3, <1>4, <1>5

LEMMA NameLasts ==
    ASSUME LibraryInv, IngestInv, NEW i \in Ingests, Name(i)
    PROVE  Lasts(i)
<1>0. PICK new, old : new = FolderName(i) /\ old = folder[i]
  OBVIOUS
<1>1. /\ pc[i] = "naming" /\ NamesLeft(i)
      /\ \/ new = old /\ UNCHANGED <<files, undo>>
         \/ /\ old \in dirs /\ new \notin dirs /\ files' = Renamed(files, old, new)
            /\ undo' = [undo EXCEPT ![i] = Append(@, [kind |-> "dir", old |-> old, new |-> new])]
      /\ leaves' = [leaves EXCEPT ![i] = Rebase(i, new)]
      /\ pc' = [pc EXCEPT ![i] = "persisting"]
      /\ UNCHANGED <<rows, req, dest>>
  BY <1>0 DEF Name, Goto, MayRename, RenameDir, Push, Renamed
<1>2. pc[i] \notin Ended \cup {"idle"}
  BY <1>1 DEF Ended
<1>3. /\ Typed /\ files \in SUBSET Files /\ dirs \in SUBSET Names /\ HousedIn(dirs, files)
      /\ Good(files, rows, req) /\ Parted(rows) /\ Untracked(dest[i], rows)
      /\ Ready(i) /\ Knows(i) /\ req[i] \in Requests
  BY <1>2, WhileRunning
<1>4. AtHome(i) /\ Len(undo[i]) <= 1 /\ Settled(leaves[i], files, rows, req[i])
  BY <1>1, <1>3 DEF Knows, Ready
<1>5. new \in Names
  BY <1>0, <1>1, <1>3, FolderNameIs
<1>6. PICK u, v : u = leaves[i] /\ v = Rebase(i, new)
  OBVIOUS
<1>7. /\ DOMAIN v = DOMAIN u
      /\ \A k \in DOMAIN u : /\ u[k] \in Paths /\ v[k].stem = u[k].stem
                             /\ v[k].dir = IF u[k].dir = old THEN new ELSE u[k].dir
  BY <1>0, <1>3, <1>5, <1>6, RebasedFields
<1>8. pc'[i] = "persisting" /\ leaves'[i] = v
  BY <1>1, <1>3, <1>6 DEF Typed
<1>9. CASE new = old /\ UNCHANGED <<files, undo>>
  <2>1. v \in Seq(Paths) /\ u \in Seq(Paths)
    BY <1>3, <1>4, <1>5, <1>6, RebaseIs DEF Typed
  <2>2. ASSUME NEW k \in DOMAIN u
        PROVE  v[k] = u[k]
    <3>1. v[k] \in Paths /\ u[k] \in Paths
      BY <1>7, <2>1
    <3>2. v[k].dir = u[k].dir /\ v[k].stem = u[k].stem
      BY <1>7, <1>9
    <3> QED
      BY <3>1, <3>2 DEF Paths
  <2>3. v = u
    BY <1>7, <2>1, <2>2
  <2>4. Ready(i)'
    BY <1>1, <1>4, <1>6, <1>8, <1>9, <2>3 DEF Ready
  <2> QED
    BY <1>1, <1>2, <1>9, <2>4, QuietLasts
<1>10. CASE /\ old \in dirs /\ new \notin dirs /\ files' = Renamed(files, old, new)
            /\ undo' = [undo EXCEPT ![i] = Append(@, [kind |-> "dir", old |-> old, new |-> new])]
  <2>1. PICK G : G = files' /\ G = Renamed(files, old, new)
    BY <1>10
  <2>2. Untracked(old, rows)
    BY <1>0, <1>3, <1>4, HomeLeaf DEF Settled
  <2>3. Good(G, rows, req)
    BY <1>3, <1>5, <1>10, <2>1, <2>2, GoodRenamed
  <2>4. Untracked(new, rows)
    BY <1>3, <1>10, FoundHoused
  <2>5. Settled(v, Renamed(files, old, new), rows, req[i])
    BY <1>3, <1>4, <1>5, <1>6, <1>7, <1>10, <2>4, SettledRenamed
  <2>6. Through(undo'[i], G, rows, req)
    <3>1. PICK op \in UndoOps : op = [kind |-> "dir", old |-> old, new |-> new]
      BY <1>3, <1>5, <1>10 DEF UndoOps, DirOps
    <3>2. FilesBack(op, G) = files
      <4>1. Renamed(Renamed(files, old, new), new, old) = files
        BY <1>3, <1>5, <1>10, RenameBack
      <4> QED
        BY <2>1, <3>1, <4>1 DEF FilesBack
    <3>3. PICK w \in Seq(UndoOps) : w = undo[i] /\ Len(w) <= 1
      BY <1>3, <1>4 DEF Typed
    <3>4. Through(w, files, rows, req)
      BY <1>2, <3>3, WhileRunning
    <3>5. Through(Append(w, op), G, rows, req)
      BY <2>3, <3>1, <3>2, <3>3, <3>4, PushThrough
    <3>6. undo'[i] = Append(w, op)
      BY <1>3, <1>10, <3>1, <3>3 DEF Typed
    <3> QED
      BY <3>5, <3>6
  <2>7. Ready(i)'
    BY <1>1, <1>8, <2>1, <2>5 DEF Ready
  <2> QED
    BY <1>1, <1>3, <2>1, <2>3, <2>6, <2>7 DEF Lasts
<1> QED
  BY <1>1, <1>9, <1>10

-------------------------------------------------------------------------------
(* Rows, or undo.                                                                *)

\* The new rows find their files, in folders that no row tracks.
LEMMA PersistLasts ==
    ASSUME LibraryInv, IngestInv, NEW i \in Ingests, Persist(i)
    PROVE  Lasts(i)
<1>0. PICK New, u : New = {RowOf(i, k) : k \in DOMAIN leaves[i]} /\ u = leaves[i]
  OBVIOUS
<1>1. /\ pc[i] = "persisting" /\ rows' = rows \cup New /\ pc' = [pc EXCEPT ![i] = "done"]
      /\ UNCHANGED <<files, req>>
  BY <1>0 DEF Persist, Goto
<1>2. pc[i] \notin Ended \cup {"idle"}
  BY <1>1 DEF Ended
<1>3. /\ Typed /\ Good(files, rows, req) /\ Parted(rows) /\ Ready(i) /\ Knows(i) /\ req[i] \in Requests
  BY <1>2, WhileRunning
<1>4. AtHome(i) /\ Settled(u, files, rows, req[i])
  BY <1>0, <1>1, <1>3 DEF Knows, Ready
<1>5. ASSUME NEW s \in New
      PROVE  \E k \in DOMAIN u : s = RowOf(i, k) /\ s.path = u[k] /\ s.folder = u[k].dir /\ s.bundle = i
  <2>1. PICK k \in DOMAIN u : s = RowOf(i, k)
    BY <1>0
  <2>2. s.path = u[k] /\ s.bundle = i /\ s.folder = IF req[i].shape = "discs" THEN u[k].dir ELSE folder[i]
    BY <1>0, <2>1 DEF RowOf
  <2>3. req[i].shape # "discs" => u[k].dir = folder[i]
    BY <1>0, <1>4 DEF AtHome, Repointed
  <2> QED
    BY <2>1, <2>2, <2>3
<1>6. ASSUME NEW s \in New
      PROVE  s.folder = s.path.dir /\ s.folder # Root /\ Untracked(s.folder, rows) /\ s.bundle = i
  BY <1>4, <1>5 DEF Settled
<1>7. ASSUME NEW s \in New, NEW t \in New, s.path = t.path
      PROVE  s = t
  <2>1. PICK k, l \in DOMAIN u : s = RowOf(i, k) /\ s.path = u[k] /\ t = RowOf(i, l) /\ t.path = u[l]
    BY <1>5
  <2>2. k = l
    BY <1>4, <1>7, <2>1 DEF Settled
  <2> QED
    BY <2>1, <2>2
<1>8. Parted(rows \cup New)
  <2>1. \A r \in rows, s \in New : r.folder # s.folder /\ r.path # s.path
    BY <1>3, <1>6 DEF Parted, Untracked
  <2>2. \A r \in rows \cup New : r.folder = r.path.dir /\ r.folder # Root
    BY <1>3, <1>6 DEF Parted
  <2>3. ASSUME NEW r \in rows \cup New, NEW s \in rows \cup New
        PROVE  /\ r.folder = s.folder => r.bundle = s.bundle
               /\ r.path = s.path => r = s
    <3>1. CASE r \in rows /\ s \in rows
      BY <1>3, <3>1 DEF Parted
    <3>2. CASE r \in New /\ s \in New
      BY <1>6, <1>7, <3>2
    <3> QED
      BY <2>1, <3>1, <3>2
  <2> QED
    BY <2>2, <2>3 DEF Parted
<1>9. Finds(files, rows \cup New, req)
  <2>1. ASSUME NEW r \in rows
        PROVE  /\ AtIn(files, r.path) # {}
               /\ SizesTell /\ req[r.bundle].staged =>
                    \A f \in AtIn(files, r.path) : f.content \in Brought(req[r.bundle])
               /\ \A f \in files : f.dir = r.folder /\ f.content \in Wanted =>
                    \E s \in rows \cup New : s.path.dir = f.dir /\ s.path.stem = f.stem
    BY <1>3 DEF Good, Finds
  <2>2. ASSUME NEW r \in New
        PROVE  /\ AtIn(files, r.path) # {}
               /\ SizesTell /\ req[r.bundle].staged =>
                    \A f \in AtIn(files, r.path) : f.content \in Brought(req[r.bundle])
               /\ \A f \in files : f.dir = r.folder /\ f.content \in Wanted =>
                    \E s \in rows \cup New : s.path.dir = f.dir /\ s.path.stem = f.stem
    <3>1. PICK k \in DOMAIN u : r.path = u[k] /\ r.folder = u[k].dir /\ r.bundle = i
      BY <1>5
    <3>2. /\ AtIn(files, r.path) # {}
          /\ SizesTell /\ req[i].staged => \A f \in AtIn(files, r.path) : f.content \in Brought(req[i])
      BY <1>4, <3>1 DEF Settled
    <3>3. ASSUME NEW f \in files, f.dir = r.folder, f.content \in Wanted
          PROVE  \E s \in New : s.path.dir = f.dir /\ s.path.stem = f.stem
      <4>1. PICK l \in DOMAIN u : u[l].dir = f.dir /\ u[l].stem = f.stem
        BY <1>4, <3>1, <3>3 DEF Settled
      <4>2. PICK s : s = RowOf(i, l) /\ s \in New
        BY <1>0
      <4>3. s.path = u[l]
        BY <1>0, <4>2 DEF RowOf
      <4> QED
        BY <4>1, <4>2, <4>3
    <3> QED
      BY <3>1, <3>2, <3>3
  <2> QED
    BY <2>1, <2>2 DEF Finds
<1>10. i \notin Running'
  <2>1. pc'[i] = "done"
    BY <1>1, <1>3 DEF Typed
  <2> QED
    BY <2>1, RunningNext
<1>11. Good(files, rows \cup New, req)
  BY <1>3, <1>9 DEF Good
<1> QED
  BY <1>1, <1>8, <1>10, <1>11 DEF Lasts

\* Undoing gives back files that were good.
LEMMA UndoLasts ==
    ASSUME LibraryInv, IngestInv, NEW i \in Ingests, Undo(i)
    PROVE  Lasts(i)
<1>0. PICK u, op : u = undo[i] /\ op = u[Len(u)]
  OBVIOUS
<1>1. /\ pc[i] = "undoing" /\ u # <<>>
      /\ undo' = [undo EXCEPT ![i] = SubSeq(u, 1, Len(u) - 1)]
      /\ IF op.kind = "dir"
         THEN IF MayRename(op.new, op.old) THEN RenameDir(op.new, op.old) ELSE UNCHANGED <<dirs, files>>
         ELSE /\ IF Present(op.new) /\ ~Present(op.old) /\ op.old.dir \in dirs \cup {Root}
                 THEN MoveFile(op.new, op.old) ELSE UNCHANGED files
              /\ UNCHANGED dirs
      /\ UNCHANGED <<rows, pc, req, dest>>
  BY <1>0 DEF Undo
<1>2. pc[i] \notin Ended \cup {"idle"}
  BY <1>1 DEF Ended
<1>3. /\ Typed /\ Knows(i) /\ Parted(rows) /\ Untracked(dest[i], rows)
      /\ Through(u, files, rows, req) /\ i \in Running /\ i \notin overlapped
  BY <1>0, <1>2, WhileRunning
<1>4. u \in Seq(UndoOps) /\ Len(u) <= 2
  BY <1>0, <1>1, <1>3 DEF Knows, Typed
<1>5. op \in UndoOps
  BY <1>0, <1>1, <1>4, PopIs
<1>6. CanUndo(op, dirs, files)
  <2>1. Leads(u, dirs, files, dest[i], before[i])
    BY <1>0, <1>3 DEF IngestInv, Journals, Journal
  <2> QED
    BY <1>0, <1>1, <1>4, <2>1, PopLeads
<1>7. files' = FilesBack(op, files)
  <2>1. CASE op.kind = "dir"
    BY <1>1, <1>6, <2>1 DEF CanUndo, FilesBack, MayRename, RenameDir, Renamed
  <2>2. CASE op.kind # "dir"
    <3>1. op.new \in Paths /\ op.old \in Paths
      BY <1>5, <2>2 DEF UndoOps, DirOps, FileOps
    <3>2. At(op.new) = AtIn(files, op.new) /\ At(op.old) = AtIn(files, op.old)
      BY <1>3, <3>1, AtIs
    <3> QED
      BY <1>1, <1>6, <2>2, <3>2 DEF CanUndo, FilesBack, Present, MoveFile, Moved, PutAt
  <2> QED
    BY <2>1, <2>2
<1>8. PICK w, G : w = SubSeq(u, 1, Len(u) - 1) /\ G = FilesBack(op, files)
  OBVIOUS
<1>9. Through(w, G, rows, req)
  BY <1>0, <1>1, <1>3, <1>4, <1>8, PopThrough
<1>10. undo'[i] = w /\ pc'[i] = "undoing"
  BY <1>1, <1>3, <1>8 DEF Typed
<1>11. Ready(i)'
  BY <1>10 DEF Ready
<1> QED
  BY <1>1, <1>3, <1>7, <1>8, <1>9, <1>10, <1>11 DEF Lasts, Through

\* Clean-up takes the folder that was staged, which no row tracks.
LEMMA CleanUpLasts ==
    ASSUME LibraryInv, IngestInv, NEW i \in Ingests, CleanUp(i)
    PROVE  Lasts(i)
<1>1. /\ pc[i] = "undoing" /\ pc' = [pc EXCEPT ![i] = ending[i]]
      /\ UNCHANGED <<rows, req>>
  BY DEF CleanUp, Goto
<1>2. pc[i] \notin Ended \cup {"idle"}
  BY <1>1 DEF Ended
<1>3. /\ Typed /\ Knows(i) /\ Good(files, rows, req) /\ Parted(rows) /\ Untracked(dest[i], rows)
  BY <1>2, WhileRunning
<1>4. PICK G : G = files' /\ G = Outside(files, dest[i])
  BY CleanUpLeaves
<1>5. G \in SUBSET files /\ \A f \in files \ G : f.dir = dest[i]
  BY <1>4 DEF Outside
<1>6. Good(G, rows, req)
  BY <1>3, <1>5, GoodLess
<1>7. i \notin Running'
  <2>1. pc'[i] \in {"rejected", "failed"}
    BY <1>1, <1>3 DEF Typed, Knows
  <2> QED
    BY <2>1, RunningNext
<1> QED
  BY <1>1, <1>3, <1>4, <1>6, <1>7 DEF Lasts

-------------------------------------------------------------------------------
(* Starting.                                                                     *)

\* What an ingest finds that starts with nothing else at work.
LEMMA WhileStarting ==
    ASSUME LibraryInv, IngestInv, NEW i \in Ingests, pc[i] = "idle", i \in Running', OneAtWork',
           deleting' = deleting, NEW r, req' = [req EXCEPT ![i] = r]
    PROVE  /\ Parted(rows) /\ Good(files, rows, req') /\ Tidy(files)
           /\ rows \in SUBSET Rows /\ Untracked(NoName, rows) /\ Untracked(Root, rows)
<1>1. deleting = {} /\ Kept = rows
  BY DEF OneAtWork, Kept
<1>2. Parted(rows) /\ Good(files, rows, req)
  BY <1>1 DEF LibraryInv
<1>3. Typed /\ RowsAre
  BY DEF IngestInv
<1>4. \A s \in rows : req'[s.bundle] = req[s.bundle]
  <2>1. \A s \in rows : s.bundle \in Ingests /\ s.bundle # i
    BY <1>3 DEF RowsAre
  <2> QED
    BY <1>3, <2>1 DEF Typed
<1>5. Good(files, rows, req')
  BY <1>2, <1>4, GoodFewer
<1>6. rows \in SUBSET Rows
  BY <1>3 DEF Typed, LibraryTypeOK
<1>7. \A s \in rows : s.folder \in Names \cup {Root} /\ s.folder # Root
  BY <1>2, <1>6 DEF Rows, Parted
<1>8. Untracked(NoName, rows) /\ Untracked(Root, rows)
  BY <1>7, NamesAre DEF Untracked
<1> QED
  BY <1>2, <1>5, <1>6, <1>8 DEF Good

\* A folder with a name that was free: nothing was in it, and no row tracks it.
LEMMA LaidAnew ==
    ASSUME Apart(Requests), NEW F, NEW R, NEW Q, Good(F, R, Q), Parted(R),
           NEW D \in SUBSET Names, HousedIn(D, F), NEW d \in Names, d \notin D, NEW r \in Requests
    PROVE  /\ Good(F \cup PutInto(d, r), R, Q) /\ Untracked(d, R)
           /\ Holding(d, F \cup PutInto(d, r)) = PutInto(d, r)
<1>1. PICK A : A = PutInto(d, r)
  OBVIOUS
<1>2. \A f \in A : f.dir = d
  BY <1>1, LaidIs
<1>3. \A f \in F : f.dir # d
  BY NamesAre DEF HousedIn
<1>4. Untracked(d, R)
  BY FoundHoused
<1>5. Tidy(F \cup A)
  BY <1>1, <1>3, TidyLaid DEF Good
<1>6. \A f \in A : Untracked(f.dir, R)
  BY <1>2, <1>4
<1>7. Good(F \cup A, R, Q)
  BY <1>5, <1>6, GoodMore
<1>8. Holding(d, F \cup A) = A
  BY <1>2, <1>3 DEF Holding
<1> QED
  BY <1>1, <1>4, <1>7, <1>8

LEMMA StageLasts ==
    ASSUME Apart(Requests), LibraryInv, IngestInv, NEW i \in Ingests, NEW r \in Requests, Stage(i, r), OneAtWork'
    PROVE  Lasts(i)
<1>0. PICK d, stage : /\ d = UniqueSlug(Plain(r.title), dirs)
                      /\ stage = IF r.dedup /\ r.shape # "dir" THEN "dedup" ELSE AfterDedup(r)
  OBVIOUS
<1>1. /\ HasFree(Plain(r.title), dirs) /\ Begin(i, r, stage, files)
      /\ files' = files \cup PutInto(d, r)
      /\ dest' = [dest EXCEPT ![i] = d]
      /\ leaves' = [leaves EXCEPT ![i] = PathsIn(d, r)]
      /\ folder' = [folder EXCEPT ![i] = d]
  BY <1>0 DEF Stage
<1>2. Typed /\ HousedIn(dirs, files) /\ dirs \in SUBSET Names
  BY DEF IngestInv, Housed, Typed, LibraryTypeOK
<1>3. d \in Names /\ d \notin dirs
  <2>1. Plain(r.title) \in Names
    BY RequestIs, NamesAre
  <2> QED
    BY <1>0, <1>1, <2>1, UniqueSlugIs
<1>4. /\ stage \in {"dedup", "guard", "naming"}
      /\ stage = "guard" => r.shape # "discs"
  BY <1>0 DEF AfterDedup
<1>5. /\ pc[i] = "idle" /\ undo[i] = <<>> /\ pc'[i] = stage
      /\ req' = [req EXCEPT ![i] = r] /\ req'[i] = r
      /\ UNCHANGED <<rows, undo, deleting>>
  BY <1>1, <1>4, BeginIs
<1>6. i \in Running'
  BY <1>4, <1>5, RunningNext
<1>7. Parted(rows) /\ Good(files, rows, req')
  BY <1>5, <1>6, WhileStarting
<1>8. PICK F, Q : F = files' /\ F = files \cup PutInto(d, r) /\ Q = req'
  BY <1>1
<1>9. Good(F, rows, Q) /\ Untracked(d, rows) /\ Holding(d, F) = PutInto(d, r)
  BY <1>2, <1>3, <1>7, <1>8, LaidAnew
<1>10. dest'[i] = d /\ leaves'[i] = PathsIn(d, r) /\ folder'[i] = d
  BY <1>1, <1>2 DEF Typed
<1>11. Settled(PathsIn(d, r), F, rows, r)
  BY <1>3, <1>9, FreshSettled
<1>12. r.shape = "file" => Led(PathsIn(d, r)[1], F, rows, r)
  BY <1>3, <1>9, FreshLed
<1>13. Ready(i)'
  BY <1>4, <1>5, <1>8, <1>9, <1>10, <1>11, <1>12 DEF Ready
<1>14. Through(undo[i], F, rows, Q)
  BY <1>5, <1>9, ThroughNone
<1> QED
  BY <1>5, <1>7, <1>8, <1>9, <1>10, <1>13, <1>14 DEF Lasts

\* A loose file is nobody's companion, and is no first disc.
LEMMA AdoptFileLasts ==
    ASSUME Apart(Requests), LibraryInv, IngestInv, NEW i \in Ingests, NEW r \in Requests, AdoptFile(i, r), OneAtWork'
    PROVE  Lasts(i)
<1>0. PICK p : p = [dir |-> Root, stem |-> r.parts[1].stem]
  OBVIOUS
<1>1. /\ r.shape = "file" /\ ~r.staged /\ files' = files \cup PutInto(Root, r)
      /\ At(p) \in {{}, PutInto(Root, r)}
      /\ Begin(i, r, "guard", files')
      /\ leaves' = [leaves EXCEPT ![i] = <<p>>]
      /\ UNCHANGED <<dest, folder>>
  BY <1>0 DEF AdoptFile
<1>2. Typed /\ files \in SUBSET Files
  BY DEF IngestInv, Typed, LibraryTypeOK
<1>3. p \in Paths /\ p.dir = Root /\ p.stem = r.parts[1].stem
  <2>1. r.parts[1].stem \in Bases
    BY PartsAre
  <2> QED
    BY <1>0, <2>1 DEF Paths
<1>4. PICK F, A, Q : F = files' /\ A = PutInto(Root, r) /\ F = files \cup A /\ Q = req'
  BY <1>1
<1>5. PICK g : /\ A = {g} /\ g.dir = Root /\ g.stem = p.stem /\ g \in Files
               /\ g.content \notin FirstDiscs(Requests)
  <2>1. /\ A = {[dir |-> Root, stem |-> r.parts[1].stem, content |-> r.parts[1].content]}
        /\ A \in SUBSET Files /\ \A f \in A : f.content \notin FirstDiscs(Requests)
    BY <1>1, <1>4, LaidIs
  <2> QED
    BY <1>3, <2>1
<1>6. /\ pc[i] = "idle" /\ undo[i] = <<>> /\ dest[i] = NoName /\ pc'[i] = "guard"
      /\ req' = [req EXCEPT ![i] = r] /\ req'[i] = r
      /\ UNCHANGED <<rows, undo, deleting>>
  <2>1. Begin(i, r, "guard", F)
    BY <1>1, <1>4
  <2> QED
    BY <2>1, BeginIs
<1>7. i \in Running'
  BY <1>6, RunningNext
<1>8. /\ Parted(rows) /\ Good(files, rows, Q) /\ Tidy(files)
      /\ Untracked(NoName, rows) /\ Untracked(Root, rows)
  BY <1>4, <1>6, <1>7, WhileStarting
<1>9. Tidy(F)
  <2>1. At(p) = AtIn(files, p)
    BY <1>2, <1>3, AtIs
  <2>2. \A f \in files : f.dir = Root /\ f.stem = g.stem => f = g
    BY <1>1, <1>3, <1>4, <1>5, <2>1 DEF AtIn
  <2> QED
    BY <1>4, <1>5, <1>8, <2>2 DEF Tidy
<1>10. Good(F, rows, Q)
  <2>1. \A f \in A : Untracked(f.dir, rows)
    BY <1>5, <1>8
  <2>2. Tidy(files \cup A)
    BY <1>4, <1>9
  <2>3. Good(files \cup A, rows, Q)
    BY <1>8, <2>1, <2>2, GoodMore
  <2> QED
    BY <1>4, <2>3
<1>11. leaves'[i] = <<p>> /\ leaves'[i][1] = p
  BY <1>1, <1>2, <1>3, OneLeaf DEF Typed
<1>12. Led(p, F, rows, r)
  BY <1>1, <1>3, <1>8 DEF Led
<1>13. Ready(i)'
  BY <1>1, <1>4, <1>6, <1>11, <1>12 DEF Ready
<1>14. Through(undo[i], F, rows, Q)
  BY <1>6, <1>10, ThroughNone
<1> QED
  BY <1>1, <1>4, <1>6, <1>8, <1>10, <1>13, <1>14 DEF Lasts

LEMMA AdoptDirLasts ==
    ASSUME Apart(Requests), LibraryInv, IngestInv, NEW i \in Ingests, NEW r \in Requests, AdoptDir(i, r), OneAtWork'
    PROVE  Lasts(i)
<1>1. PICK d \in {e \in dirs : Inside(e) = PutInto(e, r)} \cup ({Plain(r.title)} \ dirs) :
        /\ files' = IF d \in dirs THEN files ELSE files \cup PutInto(d, r)
        /\ folder' = [folder EXCEPT ![i] = d]
        /\ r.shape = "dir" /\ Begin(i, r, "guard", files')
        /\ UNCHANGED dest
  BY DEF AdoptDir
<1>2. Typed /\ HousedIn(dirs, files) /\ dirs \in SUBSET Names
  BY DEF IngestInv, Housed, Typed, LibraryTypeOK
<1>3. d \in Names
  BY <1>1, <1>2, RequestIs, NamesAre
<1>4. PICK F, Q : F = files' /\ Q = req'
  OBVIOUS
<1>5. /\ pc[i] = "idle" /\ undo[i] = <<>> /\ dest[i] = NoName /\ pc'[i] = "guard"
      /\ req' = [req EXCEPT ![i] = r] /\ req'[i] = r
      /\ UNCHANGED <<rows, undo, deleting>>
  <2>1. Begin(i, r, "guard", F)
    BY <1>1, <1>4
  <2> QED
    BY <2>1, BeginIs
<1>6. i \in Running'
  BY <1>5, RunningNext
<1>7. Parted(rows) /\ Good(files, rows, Q) /\ Untracked(NoName, rows)
  BY <1>4, <1>5, <1>6, WhileStarting
<1>8. Good(F, rows, Q) /\ Holding(d, F) = PutInto(d, r)
  <2>1. CASE d \in dirs
    BY <1>1, <1>4, <1>7, <2>1 DEF Inside, Holding
  <2>2. CASE d \notin dirs
    <3>1. F = files \cup PutInto(d, r)
      BY <1>1, <1>4, <2>2
    <3> QED
      BY <1>2, <1>3, <1>7, <2>2, <3>1, LaidAnew
  <2> QED
    BY <2>1, <2>2
<1>9. folder'[i] = d
  BY <1>1, <1>2 DEF Typed
<1>10. Ready(i)'
  BY <1>1, <1>4, <1>5, <1>8, <1>9 DEF Ready
<1>11. Through(undo[i], F, rows, Q)
  BY <1>5, <1>8, ThroughNone
<1> QED
  BY <1>1, <1>4, <1>5, <1>7, <1>8, <1>10, <1>11 DEF Lasts

-------------------------------------------------------------------------------
(* Deleting.                                                                     *)

\* The folders that go are those of one bundle, whose rows are not looked after any more.
LEMMA DeleteMediaSound ==
    ASSUME LibraryInv, IngestInv, NEW b \in Bundles, DeleteMedia(b), OneAtWork'
    PROVE  LibraryInv'
<1>1. /\ deleting' = deleting \cup {b} /\ RmTrees({r.folder : r \in BundleRows(b)})
      /\ UNCHANGED <<rows, req>>
  BY DEF DeleteMedia
<1>2. Running' = {}
  BY <1>1 DEF OneAtWork
<1>3. PICK J, K : /\ J = Kept /\ K = Kept'
                  /\ J = {r \in rows : r.bundle \notin deleting}
                  /\ K = {r \in rows : r.bundle \notin deleting \cup {b}}
  BY <1>1 DEF Kept
<1>4. Parted(rows) /\ Good(files, J, req)
  BY <1>3 DEF LibraryInv
<1>5. Parted(J) /\ Parted(K)
  BY <1>3, <1>4 DEF Parted
<1>6. Good(files, K, req)
  <2>1. K \in SUBSET J /\ \A r \in J, s \in K : r.bundle = s.bundle => r \in K
    BY <1>3
  <2> QED
    BY <1>4, <1>5, <2>1, GoodFewer
<1>7. PICK G : G = files' /\ G = {f \in files : f.dir \notin {r.folder : r \in BundleRows(b)}}
  <2>1. Root \notin {r.folder : r \in BundleRows(b)}
    BY <1>4 DEF BundleRows, Parted
  <2> QED
    BY <1>1, <2>1 DEF RmTrees
<1>8. Good(G, K, req)
  <2>1. ASSUME NEW f \in files \ G
        PROVE  Untracked(f.dir, K)
    <3>1. PICK r \in rows : r.bundle = b /\ r.folder = f.dir
      BY <1>7 DEF BundleRows
    <3>2. \A s \in K : s \in rows /\ s.bundle # b
      BY <1>3
    <3> QED
      BY <1>4, <3>1, <3>2 DEF Parted, Untracked
  <2> QED
    BY <1>5, <1>6, <1>7, <2>1, GoodLess
<1>9. Good(files, Kept, req)' /\ Parted(rows)'
  BY <1>1, <1>3, <1>4, <1>7, <1>8
<1> QED
  BY <1>2, <1>9 DEF LibraryInv

\* An ingest is ready as before when the rows of a bundle go.
LEMMA ReadyFewer ==
    ASSUME NEW i, Ready(i), NEW b, rows' = rows \ BundleRows(b), Parted(rows),
           UNCHANGED <<files, pc, req, dest, leaves, folder>>
    PROVE  Ready(i)'
<1>1. PICK R : R = rows' /\ R = rows \ BundleRows(b)
  OBVIOUS
<1>2. R \subseteq rows /\ \A r \in rows, s \in rows : r.bundle = s.bundle /\ s \notin R => r \notin R
  BY <1>1 DEF BundleRows
<1>3. ASSUME NEW d, Untracked(d, rows)
      PROVE  Untracked(d, R)
  BY <1>2, <1>3 DEF Untracked
<1>4. ASSUME NEW p, NEW q, Led(p, files, rows, q)
      PROVE  Led(p, files, R, q)
  <2>1. Untracked(p.dir, R) \/ \E s \in R : s.path = p
    <3>1. CASE Untracked(p.dir, rows)
      BY <1>3, <3>1
    <3>2. ASSUME NEW s \in rows, s.path = p, s \notin R
          PROVE  Untracked(p.dir, R)
      BY <1>2, <3>2 DEF Parted, Untracked
    <3> QED
      BY <1>4, <3>1, <3>2 DEF Led
  <2> QED
    BY <1>4, <2>1 DEF Led
<1>5. ASSUME NEW u, NEW q, Settled(u, files, rows, q)
      PROVE  Settled(u, files, R, q)
  BY <1>3, <1>5 DEF Settled
<1>6. Target(i)' = Target(i)
  BY DEF Target, Anchor
<1>7. pc[i] \in {"dropping", "guard", "placing"} /\ req[i].shape = "file" => Led(leaves[i][1], files, R, req[i])
  BY <1>4 DEF Ready
<1>8. pc[i] = "placing" => \A r \in R : r.path # leaves[i][1] /\ r.path # Target(i)
  BY <1>2 DEF Ready
<1>9. pc[i] \in {"naming", "persisting"} => Settled(leaves[i], files, R, req[i])
  BY <1>5 DEF Ready
<1> QED
  BY <1>1, <1>6, <1>7, <1>8, <1>9 DEF Ready

LEMMA DeleteRowsSound ==
    ASSUME LibraryInv, IngestInv, NEW b \in Bundles, DeleteRows(b), OneAtWork'
    PROVE  LibraryInv'
<1>1. /\ rows' = rows \ BundleRows(b) /\ deleting' = deleting \ {b}
      /\ UNCHANGED <<files, pc, req, dest, leaves, folder, undo>>
  BY DEF DeleteRows
<1>2. Running' = Running
  BY <1>1 DEF Running
<1>3. PICK R : R = rows' /\ R \in SUBSET rows /\ \A r \in rows : r \in R <=> r.bundle # b
  BY <1>1 DEF BundleRows
<1>4. PICK J, K : /\ J = Kept /\ K = Kept'
                  /\ J = {r \in rows : r.bundle \notin deleting}
                  /\ K = {r \in R : r.bundle \notin deleting \ {b}}
  BY <1>1, <1>3 DEF Kept
<1>5. Parted(rows) /\ Good(files, J, req)
  BY <1>4 DEF LibraryInv
<1>6. Parted(J) /\ Parted(R)
  BY <1>3, <1>4, <1>5 DEF Parted
<1>7. Good(files, K, req)
  <2>1. K \in SUBSET J /\ \A r \in J, s \in K : r.bundle = s.bundle => r \in K
    BY <1>3, <1>4
  <2> QED
    BY <1>5, <1>6, <2>1, GoodFewer
<1>8. ASSUME NEW i \in Running
      PROVE  /\ Untracked(dest[i], R)
             /\ Through(undo[i], files, R, req)
             /\ Ready(i)'
  <2>1. Untracked(dest[i], rows) /\ Through(undo[i], files, rows, req) /\ Ready(i)
    BY DEF LibraryInv
  <2>2. Untracked(dest[i], R)
    BY <1>3, <2>1 DEF Untracked
  <2>3. Through(undo[i], files, R, req)
    BY <1>3, <1>5, <2>1, ThroughFewer
  <2>4. Ready(i)'
    BY <1>1, <1>5, <2>1, ReadyFewer
  <2> QED
    BY <2>2, <2>3, <2>4
<1>9. Good(files, Kept, req)' /\ Parted(rows)'
  BY <1>1, <1>3, <1>4, <1>6, <1>7
<1>10. \A i \in Running' : Untracked(dest[i], rows)' /\ Through(undo[i], files, rows, req)' /\ Ready(i)'
  BY <1>1, <1>2, <1>3, <1>8
<1> QED
  BY <1>9, <1>10 DEF LibraryInv

-------------------------------------------------------------------------------
(* The library stays sound.                                                      *)

LEMMA LibraryAtFirst == Init => LibraryInv
<1> SUFFICES ASSUME Init
             PROVE  LibraryInv
  OBVIOUS
<1>1. rows = {} /\ files = {} /\ Running = {} /\ deleting = {} /\ overlapped = {}
  BY DEF Init, LibraryInit, Running
<1>2. Kept = {}
  BY <1>1 DEF Kept
<1>3. Good({}, {}, req)
  BY DEF Good, Tidy, Finds
<1> QED
  BY <1>1, <1>2, <1>3 DEF LibraryInv, OneAtWork, Parted

LEMMA StepLasts ==
    ASSUME Apart(Requests), LibraryInv, IngestInv, NEW i \in Ingests, OneAtWork',
           Start(i) \/ Dedup(i) \/ Guard(i) \/ Place(i) \/ Finish(i) \/ GiveUp(i)
    PROVE  Lasts(i)
<1>1. CASE Start(i)
  <2>1. PICK r \in Requests : Stage(i, r) \/ AdoptFile(i, r) \/ AdoptDir(i, r)
    BY <1>1 DEF Start
  <2> QED
    BY <2>1, StageLasts, AdoptFileLasts, AdoptDirLasts
<1>2. CASE Dedup(i)
  BY <1>2, DedupMissLasts, RefusalsLast, DedupFileLasts, DropOwnLasts, DedupAnchorLasts DEF Dedup
<1>3. CASE Guard(i)
  BY <1>3, RefusalsLast, GuardDirLasts, GuardFileLasts DEF Guard
<1>4. CASE Place(i)
  BY <1>4, RefusalsLast, PlaceRenameLasts, PlaceMoveLasts, PlaceReuseLasts DEF Place
<1>5. CASE Finish(i)
  BY <1>5, RefusalsLast, NameLasts, PersistLasts DEF Finish
<1>6. CASE GiveUp(i)
  BY <1>6, RefusalsLast, UndoLasts, CleanUpLasts DEF GiveUp
<1> QED
  BY <1>1, <1>2, <1>3, <1>4, <1>5, <1>6

\* Where only one may start at a time, one is at work at a time: whatever starts finds
\* nothing else at work, and whatever else steps was at work already.
LEMMA NothingAtWork ==
    ASSUME OneAtWork, MayStart, MaxActive = 1
    PROVE  Running = {} /\ deleting = {}
<1>1. PICK S, T : S = Running /\ T = deleting
  OBVIOUS
<1>2. IsFiniteSet(S) /\ IsFiniteSet(T)
  <2>1. (\A a, b \in S : a = b) /\ (\A a, b \in T : a = b)
    BY <1>1 DEF OneAtWork
  <2> QED
    BY <2>1, FewAreFinite
<1>3. Cardinality(S) \in Nat /\ Cardinality(T) \in Nat /\ Cardinality(S) + Cardinality(T) < 1
  BY <1>1, <1>2, FS_CardinalityType DEF MayStart
<1>4. Cardinality(S) = 0 /\ Cardinality(T) = 0
  BY <1>3
<1> QED
  BY <1>1, <1>2, <1>4, FS_EmptySet

LEMMA OneAtWorkStep ==
    ASSUME MaxActive = 1, IngestInv, OneAtWork, [Next]_vars
    PROVE  OneAtWork'
<1>1. ASSUME Watch, Running' \subseteq Running, deleting' \subseteq deleting
      PROVE  OneAtWork'
  BY <1>1 DEF OneAtWork, Watch
<1>2. ASSUME Watch, Running = {}, deleting = {}, NEW x,
             \/ Running' \subseteq {x} /\ deleting' = {}
             \/ Running' = {} /\ deleting' \subseteq {x}
      PROVE  OneAtWork'
  BY <1>2 DEF OneAtWork, Watch
<1>3. ASSUME NEW i \in Ingests, Watch,
             Start(i) \/ Dedup(i) \/ Guard(i) \/ Place(i) \/ Finish(i) \/ GiveUp(i)
      PROVE  OneAtWork'
  <2>1. Keeps(i)
    BY <1>3, StepKeeps
  <2>2. Running' \subseteq Running \cup {i} /\ deleting' = deleting
    BY <2>1 DEF Keeps, Only, Running
  <2>3. CASE pc[i] = "idle"
    <3>1. Start(i)
      BY <1>3, <2>3 DEF Dedup, DedupMiss, DedupGone, DedupFile, DropOwn, DedupAnchor,
                        Guard, GuardRefuses, GuardDir, GuardFile,
                        Place, PlaceRename, PlaceMove, PlaceReuse, PlaceRefused,
                        Finish, Name, NameRefused, Persist, SlugCollision, GiveUp, Fault, Undo, CleanUp
    <3>2. MayStart
      BY <3>1 DEF Start, Stage, AdoptFile, AdoptDir, Begin
    <3>3. Running = {} /\ deleting = {}
      BY <3>2, NothingAtWork
    <3> QED
      BY <1>2, <1>3, <2>2, <3>3
  <2>4. CASE pc[i] # "idle"
    <3>1. i \in Running
      BY <2>1, <2>4 DEF Keeps, Running
    <3> QED
      BY <1>1, <1>3, <2>2, <3>1
  <2> QED
    BY <2>3, <2>4
<1>4. ASSUME NEW b \in Bundles, Watch, DeleteMedia(b)
      PROVE  OneAtWork'
  <2>1. Running = {} /\ deleting = {}
    BY <1>4, NothingAtWork DEF DeleteMedia
  <2>2. pc' = pc /\ deleting' = deleting \cup {b}
    BY <1>4 DEF DeleteMedia
  <2>3. Running' = Running
    BY <2>2 DEF Running
  <2> QED
    BY <1>2, <1>4, <2>1, <2>2, <2>3
<1>5. ASSUME NEW b \in Bundles, Watch, DeleteRows(b)
      PROVE  OneAtWork'
  <2>1. pc' = pc /\ deleting' \subseteq deleting
    BY <1>5 DEF DeleteRows
  <2>2. Running' = Running
    BY <2>1 DEF Running
  <2> QED
    BY <1>1, <1>5, <2>1, <2>2
<1>6. CASE UNCHANGED vars
  <2>1. pc' = pc /\ deleting' = deleting /\ overlapped' = overlapped
    BY <1>6 DEF vars, ingestVars
  <2>2. Running' = Running
    BY <2>1 DEF Running
  <2> QED
    BY <2>1, <2>2 DEF OneAtWork
<1> QED
  BY <1>3, <1>4, <1>5, <1>6 DEF Next

\* So is it where the steps are those after which only one is at work.
LEMMA AloneStep ==
    ASSUME IngestInv, OneAtWork, [Next]_vars, Alone'
    PROVE  OneAtWork'
<1>1. ASSUME NEW i \in Ingests, Watch,
             Start(i) \/ Dedup(i) \/ Guard(i) \/ Place(i) \/ Finish(i) \/ GiveUp(i)
      PROVE  OneAtWork'
  <2>1. Keeps(i)
    BY <1>1, StepKeeps
  <2>2. Running' \subseteq Running \cup {i} /\ deleting' \subseteq deleting \cup {i}
    BY <2>1 DEF Keeps, Only, Running
  <2> QED
    BY <1>1, <2>2, OneAtWorkNext
<1>2. ASSUME NEW b \in Bundles, Watch, DeleteMedia(b) \/ DeleteRows(b)
      PROVE  OneAtWork'
  <2>1. pc' = pc /\ deleting' \subseteq deleting \cup {b}
    BY <1>2 DEF DeleteMedia, DeleteRows
  <2>2. Running' \subseteq Running \cup {b}
    BY <2>1 DEF Running
  <2> QED
    BY <1>2, <2>1, <2>2, OneAtWorkNext
<1>3. CASE UNCHANGED vars
  <2>1. pc' = pc /\ deleting' = deleting /\ overlapped' = overlapped
    BY <1>3 DEF vars, ingestVars
  <2>2. Running' = Running
    BY <2>1 DEF Running
  <2> QED
    BY <2>1, <2>2 DEF OneAtWork
<1> QED
  BY <1>1, <1>2, <1>3 DEF Next

LEMMA LibraryStands ==
    ASSUME LibraryInv, UNCHANGED vars
    PROVE  LibraryInv'
<1>1. UNCHANGED <<files, rows, pc, req, dest, leaves, folder, undo, deleting, overlapped>>
  BY DEF vars, libraryVars, ingestVars
<1>2. UNCHANGED <<Running, Kept>>
  BY <1>1 DEF Running, Kept
<1>3. OneAtWork' /\ Parted(rows)' /\ Good(files, Kept, req)'
  BY <1>1, <1>2 DEF LibraryInv, OneAtWork
<1>4. ASSUME NEW i \in Running'
      PROVE  Untracked(dest[i], rows)' /\ Through(undo[i], files, rows, req)' /\ Ready(i)'
  BY <1>1, <1>2, <1>4 DEF LibraryInv, Ready, Target, Anchor
<1> QED
  BY <1>3, <1>4 DEF LibraryInv

LEMMA LibraryStep ==
    ASSUME Apart(Requests), LibraryInv, IngestInv, [Next]_vars, OneAtWork'
    PROVE  LibraryInv'
<1>1. ASSUME NEW i \in Ingests,
             Start(i) \/ Dedup(i) \/ Guard(i) \/ Place(i) \/ Finish(i) \/ GiveUp(i)
      PROVE  LibraryInv'
  BY <1>1, StepKeeps, StepLasts, LastsInv
<1>2. ASSUME NEW b \in Bundles, DeleteMedia(b) \/ DeleteRows(b)
      PROVE  LibraryInv'
  BY <1>2, DeleteMediaSound, DeleteRowsSound
<1>3. CASE UNCHANGED vars
  BY <1>3, LibraryStands
<1> QED
  BY <1>1, <1>2, <1>3 DEF Next

\* What is invariant says that rows find their files, and which.
LEMMA RowsFind ==
    ASSUME IngestInv, LibraryInv
    PROVE  RowsFindable /\ (SizesTell => RowHasItsContent) /\ OneRowPerFile
<1>1. Typed /\ rows \in SUBSET Rows
  BY DEF IngestInv, Typed, LibraryTypeOK
<1>2. ASSUME NEW r \in rows, r.bundle \notin deleting
      PROVE  /\ Present(r.path)
             /\ SizesTell /\ req[r.bundle].staged => \A f \in At(r.path) : f.content \in Brought(req[r.bundle])
  <2>1. At(r.path) = AtIn(files, r.path)
    BY <1>1, AtIs DEF Rows
  <2>2. r \in Kept
    BY <1>2 DEF Kept
  <2> QED
    BY <2>1, <2>2 DEF LibraryInv, Good, Finds, Present
<1>3. RowsFindable
  BY <1>2 DEF RowsFindable
<1>4. SizesTell => RowHasItsContent
  BY <1>2 DEF RowHasItsContent, Brought
<1> QED
  BY <1>3, <1>4 DEF LibraryInv, Parted, OneRowPerFile

\* For any number of ingests, names and requests that stay out of each other's folders:
\* one at a time, whatever fails and is deleted in between, the row of a game finds a file
\* at its path, through the renames of its own ingest and of later ones, and no file is
\* tracked twice, first discs that were found elsewhere included.
THEOREM RowsStayFindable ==
    ASSUME Apart(Requests), MaxActive = 1
    PROVE  Spec => [](RowsFindable /\ OneRowPerFile)
<1>1. Init => IngestInv /\ LibraryInv
  BY IngestInit, LibraryAtFirst
<1>2. IngestInv /\ LibraryInv /\ [Next]_vars => IngestInv' /\ LibraryInv'
  BY IngestStep, OneAtWorkStep, LibraryStep DEF LibraryInv
<1>3. IngestInv /\ LibraryInv => RowsFindable /\ OneRowPerFile
  BY RowsFind
<1> QED
  BY <1>1, <1>2, <1>3, PTL DEF Spec

-------------------------------------------------------------------------------
(* The instance.                                                                 *)

\* What the steps of the instance keep: those of one ingest or deletion at a time, and
\* those of two, of which none looks a first disc up.
MCInv ==
    /\ IngestInv /\ turn \in {"alone", "pair"}
    /\ turn = "alone" => LibraryInv
    /\ turn = "pair" => \A i \in Ingests : pc[i] # "idle" => ~Repointed(i)

\* Of two at a time, each is still a step of the ingest.
LEMMA MCStepIs ==
    ASSUME MCPair \subseteq Ingests, [MCNext]_<<vars, turn>>
    PROVE  [Next]_vars
<1>1. CASE NextAlone
  BY <1>1 DEF NextAlone
<1>2. CASE NextPair
  <2>1. MCPair \subseteq Bundles
    BY IngestAssumption
  <2> QED
    BY <1>2, <2>1 DEF NextPair, Next, GiveUp
<1>3. CASE UNCHANGED <<vars, turn>>
  BY <1>3
<1> QED
  BY <1>1, <1>2, <1>3 DEF MCNext

\* A first disc is not looked up by an ingest that runs beside another.
LEMMA PairStep ==
    ASSUME MCPair \subseteq Ingests, IngestInv, NextPair, \A i \in Ingests : pc[i] # "idle" => ~Repointed(i)
    PROVE  \A i \in Ingests : pc'[i] # "idle" => ~Repointed(i)'
<1>1. ASSUME NEW i \in Ingests, Start(i), req'[i] \in PairRequests, NEW j \in Ingests, pc'[j] # "idle"
      PROVE  ~Repointed(j)'
  <2>1. Keeps(i)
    BY <1>1, StepKeeps
  <2>2. CASE j = i
    BY <1>1, <2>2 DEF PairRequests, Repointed
  <2>3. CASE j # i
    BY <1>1, <2>1, <2>3 DEF Keeps, Only, Repointed
  <2> QED
    BY <2>2, <2>3
<1>2. ASSUME NEW i \in Ingests, Dedup(i) \/ Guard(i) \/ Place(i) \/ Finish(i) \/ Undo(i) \/ CleanUp(i),
             NEW j \in Ingests, pc'[j] # "idle"
      PROVE  ~Repointed(j)'
  <2>1. Keeps(i)
    BY <1>2, StepKeeps DEF GiveUp
  <2>2. req' = req /\ pc[i] # "idle"
    BY <1>2 DEF Dedup, DedupMiss, DedupGone, DedupFile, DropOwn, DedupAnchor,
                Guard, GuardRefuses, GuardDir, GuardFile,
                Place, PlaceRename, PlaceMove, PlaceReuse, PlaceRefused,
                Finish, Name, NameRefused, Persist, SlugCollision, Undo, CleanUp
  <2>3. pc[j] # "idle"
    BY <1>2, <2>1, <2>2 DEF Keeps, Only
  <2> QED
    BY <2>2, <2>3 DEF Repointed
<1>3. ASSUME NEW b, DeleteMedia(b) \/ DeleteRows(b), NEW j \in Ingests, pc'[j] # "idle"
      PROVE  ~Repointed(j)'
  BY <1>3 DEF DeleteMedia, DeleteRows, Repointed
<1> QED
  BY <1>1, <1>2, <1>3 DEF NextPair

LEMMA MCStep ==
    ASSUME Apart(Requests), MCPair \subseteq Ingests, MCInv, [MCNext]_<<vars, turn>>
    PROVE  MCInv'
<1>1. IngestInv'
  BY MCStepIs, IngestStep DEF MCInv
<1>2. turn' = turn
  BY DEF MCNext
<1>3. CASE NextAlone /\ turn = "alone"
  <2>1. Alone'
    BY <1>3 DEF NextAlone, Alone
  <2>2. LibraryInv /\ IngestInv /\ OneAtWork /\ Next
    BY <1>3 DEF MCInv, LibraryInv, NextAlone
  <2>3. LibraryInv'
    BY <2>1, <2>2, AloneStep, LibraryStep
  <2> QED
    BY <1>1, <1>2, <1>3, <2>3 DEF MCInv
<1>4. CASE NextPair /\ turn = "pair"
  <2>1. \A i \in Ingests : pc'[i] # "idle" => ~Repointed(i)'
    BY <1>4, PairStep DEF MCInv
  <2> QED
    BY <1>1, <1>2, <1>4, <2>1 DEF MCInv
<1>5. CASE UNCHANGED <<vars, turn>>
  <2>1. UNCHANGED <<files, rows, pc, req, dest, leaves, folder, undo, deleting, overlapped>>
    BY <1>5 DEF vars, libraryVars, ingestVars
  <2>2. LibraryInv => LibraryInv'
    BY <1>5, LibraryStands
  <2> QED
    BY <1>1, <1>2, <2>1, <2>2 DEF MCInv, Repointed
<1> QED
  BY <1>3, <1>4, <1>5 DEF MCNext, MCInv

LEMMA SoundIs ==
    ASSUME SizesTell, MCInv
    PROVE  LibraryIsSound
<1>1. IngestInv /\ SlugIsFolderName
  BY SlugsAre DEF MCInv
<1>2. CASE turn = "alone"
  BY <1>1, <1>2, RowsFind DEF MCInv, LibraryIsSound
<1>3. CASE turn = "pair"
  <2>1. \A r \in rows : ~Repointed(r.bundle)
    BY <1>1, <1>3 DEF MCInv, IngestInv, RowsAre
  <2>2. OneRowPerFile
    BY <1>1, <2>1, TrackedOnceIs DEF TrackedOnce, OneRowPerFile
  <2> QED
    BY <1>1, <1>3, <2>2 DEF LibraryIsSound
<1> QED
  BY <1>2, <1>3 DEF MCInv

\* What the run checks, for any number of ingests, names and requests that stay out of each
\* other's folders, with sizes that tell contents apart: one at a time, whatever fails and
\* is deleted in between, each row finds a file that was ingested for it, also when the
\* ingest reused one that was there; two at a time, no file is tracked twice; and the
\* folder of a game has its slug for a name.
THEOREM LibraryStaysSound ==
    ASSUME Apart(Requests), SizesTell, MCPair \subseteq Ingests
    PROVE  MCSpec => []LibraryIsSound
<1>1. MCInit => MCInv
  <2> SUFFICES ASSUME MCInit
               PROVE  MCInv
    OBVIOUS
  <2>1. IngestInv /\ LibraryInv
    BY IngestInit, LibraryAtFirst DEF MCInit
  <2>2. \A i \in Ingests : pc[i] = "idle"
    BY DEF MCInit, Init
  <2> QED
    BY <2>1, <2>2 DEF MCInv, MCInit
<1>2. MCInv /\ [MCNext]_<<vars, turn>> => MCInv'
  BY MCStep
<1>3. MCInv => LibraryIsSound
  BY SoundIs
<1> QED
  BY <1>1, <1>2, <1>3, PTL DEF MCSpec
================================================================================
