------------------------------ MODULE ShelfProofs ------------------------------
(* What is kept in the library stays whole, for any titles, discs, environments,    *)
(* slugs, images and number of requests at once.  First the catalog: an edit reads a *)
(* row in one step and writes the columns that differ in a later one, and CatalogInv *)
(* says of every edit in flight what it will leave behind.  Then the disk images of  *)
(* the environments, with MachinesInv.  Last the archive and its links, with         *)
(* ArchiveInv.                                                                       *)
EXTENDS MCShelf, FiniteSetTheorems, WellFoundedInduction, TLAPS

\* The rows of bundles that exist, and of environments that do.
FullRows == [era : Eras, pc : BOOLEAN, env : Environments \cup {Nil}, profile : BOOLEAN,
             launch : Leaves \cup {Nil}, display : Leaves \cup {Nil}]
Columns == {"era", "pc", "env", "profile", "launch", "display"}
LeafRows == [of : Bundles \cup {Nil}, disc : Nat, hashed : BOOLEAN, status : Statuses]
FullEnvironments == [era : Eras, system : BOOLEAN, image : BOOLEAN, installed : BOOLEAN]
Files == {"good", "changed", "unreadable", "missing"}

\* A row as an UPDATE of some of its columns leaves it.
Over(new, row) == [c \in DOMAIN NoBundle |-> IF c \in DOMAIN new THEN new[c] ELSE row[c]]

\* The disc number a leaf gets when an edit is committed.
DiscAfter(p, l) == IF l \in DOMAIN p.discs THEN p.discs[l] ELSE leaf["game"][l].disc

PatchTyped(p) ==
    /\ p = [bundle |-> p.bundle, row |-> p.row, discs |-> p.discs]
    /\ p.bundle \in Bundles
    /\ \A row \in FullRows : Over(p.row, row) \in FullRows
    /\ "env" \in DOMAIN p.row => p.row.env \in Environments \cup {Nil}
    /\ DOMAIN p.discs \subseteq Leaves
    /\ \A l \in DOMAIN p.discs : p.discs[l] \in Nat

Shape ==
    /\ bundle \in [Bundles -> FullRows \cup {NoBundle}]
    /\ leaf \in [Kinds -> [Leaves -> LeafRows]]
    /\ media \in [Kinds -> [Leaves -> Files]]
    /\ environment \in [Environments -> FullEnvironments \cup {NoEnvironment}]
    /\ IsFiniteSet(There)
    /\ DOMAIN patch = Patchers
    /\ \A r \in Patchers : patch[r] = NoPatch \/ PatchTyped(patch[r])
    /\ mixed \subseteq Bundles
    /\ cut \subseteq Bundles \X Leaves

\* Every leaf is of a bundle of its table that exists.
LeavesKnown ==
    \A k \in Kinds, l \in Leaves :
        leaf[k][l] # NoLeaf => leaf[k][l].of \in Listed /\ KindOf(leaf[k][l].of) = k

\* Every environment a bundle names exists.
EnvironmentsKnown == \A b \in Listed : bundle[b].env \in There \cup {Nil}

\* What a row says is so of a bundle that was not edited twice at once.
Agrees(b, row) ==
    /\ row.pc = IsPc(row.era)
    /\ MayBind(row)
    /\ \A l \in {row.launch, row.display} \ {Nil} : l \in LeavesOf(b) \/ <<b, l>> \in cut

RowsAgree == \A b \in Listed \ mixed : Agrees(b, bundle[b])
DiscsAgree ==
    \A b \in (Games \cap Listed) \ mixed :
        {leaf["game"][l].disc : l \in LeavesOf(b)} = 1..Cardinality(LeavesOf(b))

\* An edit in flight will leave its bundle as right as it found it,
PatchesAgree ==
    \A r \in Patchers :
        LET p == patch[r] IN
        p.bundle \in Listed \ mixed =>
            /\ Agrees(p.bundle, Over(p.row, bundle[p.bundle]))
            /\ p.bundle \in Games =>
                {DiscAfter(p, l) : l \in LeavesOf(p.bundle)} = 1..Cardinality(LeavesOf(p.bundle))

\* and writes to no leaf of another bundle, unless that bundle came in between.
PatchesKeepOff ==
    \A r \in Patchers : \A l \in DOMAIN patch[r].discs :
        leaf["game"][l].of \in {Nil, patch[r].bundle} \cup mixed

\* What was found right or wrong with a file was found by its hash.
HashedFirst ==
    \A l \in Leaves :
        leaf["game"][l].status \in {"verified", "caution", "mismatch"} => leaf["game"][l].hashed

CatalogInv ==
    /\ Shape /\ LeavesKnown /\ EnvironmentsKnown /\ RowsAgree /\ DiscsAgree
    /\ PatchesAgree /\ PatchesKeepOff /\ HashedFirst

-------------------------------------------------------------------------------
(* Lemmas about the rows.                                                        *)

LEMMA ColumnsAre ==
    /\ DOMAIN NoBundle = Columns
    /\ NoBundle.era = Nil /\ NoBundle.env = Nil /\ NoBundle.launch = Nil /\ NoBundle.display = Nil
    /\ Nil \notin Eras /\ Nil \notin Leaves /\ Nil \notin Environments /\ Nil \notin Bundles
    /\ NoBundle \notin FullRows
    /\ \A row \in FullRows : row.era # Nil /\ row # NoBundle
BY CatalogAssumption DEF NoBundle, Columns, FullRows

LEMMA RecordIs ==
    ASSUME NEW f, f = [c \in Columns |-> f[c]],
           f.era \in Eras, f.pc \in BOOLEAN, f.env \in Environments \cup {Nil},
           f.profile \in BOOLEAN, f.launch \in Leaves \cup {Nil}, f.display \in Leaves \cup {Nil}
    PROVE  f \in FullRows
BY DEF FullRows, Columns

LEMMA RowIs ==
    ASSUME NEW row \in FullRows
    PROVE  row = [c \in Columns |-> row[c]] /\ DOMAIN row = Columns
BY DEF FullRows, Columns

\* What an UPDATE leaves is again a row, when each column it sets has its type.
LEMMA OverIs ==
    ASSUME NEW new, NEW row \in FullRows
    PROVE  /\ Over(new, row) = [c \in Columns |-> IF c \in DOMAIN new THEN new[c] ELSE row[c]]
           /\ DOMAIN new \cap Columns = {} => Over(new, row) = row
<1>1. Over(new, row) = [c \in Columns |-> IF c \in DOMAIN new THEN new[c] ELSE row[c]]
  BY ColumnsAre DEF Over
<1>2. ASSUME DOMAIN new \cap Columns = {}
      PROVE  Over(new, row) = row
  BY <1>1, <1>2, RowIs
<1> QED
  BY <1>1, <1>2

\* The columns that differ turn the row that was read into the one that was made.
LEMMA DirtyIs ==
    ASSUME NEW new \in FullRows, NEW old \in FullRows
    PROVE  /\ \A row \in FullRows : Over(Dirty(new, old), row) \in FullRows
           /\ Over(Dirty(new, old), old) = new
           /\ "env" \in DOMAIN Dirty(new, old) => Dirty(new, old).env \in Environments \cup {Nil}
<1>1. DOMAIN old = Columns /\ DOMAIN new = Columns
  BY RowIs
<1>2. PICK d : d = Dirty(new, old)
  OBVIOUS
<1>3. /\ DOMAIN d = {c \in Columns : new[c] # old[c]}
      /\ \A c \in DOMAIN d : d[c] = new[c]
  BY <1>1, <1>2 DEF Dirty
<1>4. ASSUME NEW row \in FullRows
      PROVE  Over(d, row) \in FullRows
  <2>1. PICK f : f = [c \in Columns |-> IF c \in DOMAIN d THEN d[c] ELSE row[c]]
    OBVIOUS
  <2>2. \A c \in Columns : f[c] = new[c] \/ f[c] = row[c]
    BY <2>1, <1>3
  <2>3. /\ f.era \in Eras /\ f.env \in Environments \cup {Nil}
        /\ f.launch \in Leaves \cup {Nil} /\ f.display \in Leaves \cup {Nil}
    BY <2>2 DEF Columns, FullRows
  <2>4. f.pc \in BOOLEAN
    BY <2>2 DEF Columns, FullRows
  <2>5. f.profile \in BOOLEAN
    BY <2>2 DEF Columns, FullRows
  <2>6. f = [c \in Columns |-> f[c]]
    BY <2>1
  <2>7. f \in FullRows
    BY <2>3, <2>4, <2>5, <2>6, RecordIs
  <2>8. Over(d, row) = f
    BY <2>1, OverIs
  <2> QED
    BY <2>7, <2>8
<1>5. Over(d, old) = new
  <2>1. \A c \in Columns : (IF c \in DOMAIN d THEN d[c] ELSE old[c]) = new[c]
    BY <1>3
  <2>2. Over(d, old) = [c \in Columns |-> new[c]]
    BY <2>1, OverIs
  <2> QED
    BY <2>2, RowIs
<1>6. "env" \in DOMAIN d => d.env \in Environments \cup {Nil}
  BY <1>3 DEF Columns, FullRows
<1> QED
  BY <1>2, <1>4, <1>5, <1>6

\* What a PATCH makes of a row.
LEMMA PatchedIs ==
    ASSUME NEW old \in FullRows, NEW f \in Fields
    PROVE  /\ Patched(old, f) \in FullRows
           /\ Patched(old, f).era = (IF f.era = Keep THEN old.era ELSE f.era)
           /\ Patched(old, f).pc = (IF f.era = Keep THEN old.pc ELSE IsPc(f.era))
           /\ Patched(old, f).env = (IF f.env = Keep THEN old.env ELSE f.env)
           /\ Patched(old, f).launch = (IF f.launch = Keep THEN old.launch ELSE f.launch)
           /\ Patched(old, f).display = (IF f.display = Keep THEN old.display ELSE f.display)
<1>1. PICK g : g = [c \in Columns |->
                      IF c = "pc" THEN IF f.era = Keep THEN old.pc ELSE IsPc(f.era)
                      ELSE IF f[c] = Keep THEN old[c] ELSE f[c]]
  OBVIOUS
<1>2. Patched(old, f) = g
  BY <1>1, RowIs DEF Patched
<1>3. f \in [era : Eras \cup {Keep}, env : Environments \cup {Keep, Nil}, profile : BOOLEAN \cup {Keep},
             launch : Leaves \cup {Keep, Nil}, display : Leaves \cup {Keep, Nil}]
  BY DEF Fields
<1>4. /\ g.era = (IF f.era = Keep THEN old.era ELSE f.era)
      /\ g.env = (IF f.env = Keep THEN old.env ELSE f.env)
      /\ g.launch = (IF f.launch = Keep THEN old.launch ELSE f.launch)
      /\ g.display = (IF f.display = Keep THEN old.display ELSE f.display)
  BY <1>1 DEF Columns
<1>5. g.pc = (IF f.era = Keep THEN old.pc ELSE IsPc(f.era))
  BY <1>1, Zenon DEF Columns
<1>6. g.profile = (IF f.profile = Keep THEN old.profile ELSE f.profile)
  BY <1>1, Zenon DEF Columns
<1>7. g.era \in Eras /\ g.env \in Environments \cup {Nil}
  BY <1>3, <1>4 DEF FullRows
<1>8. g.launch \in Leaves \cup {Nil} /\ g.display \in Leaves \cup {Nil}
  BY <1>3, <1>4 DEF FullRows
<1>9. g.pc \in BOOLEAN
  <2>1. old.pc \in BOOLEAN
    BY DEF FullRows
  <2>2. IsPc(f.era) \in BOOLEAN
    BY DEF IsPc
  <2> QED
    BY <1>5, <2>1, <2>2, Zenon
<1>10. g.profile \in BOOLEAN
  <2>1. old.profile \in BOOLEAN
    BY DEF FullRows
  <2>2. f.profile \in BOOLEAN \cup {Keep}
    BY <1>3
  <2> QED
    BY <1>6, <2>1, <2>2, Zenon
<1>11. g = [c \in Columns |-> g[c]]
  BY <1>1
<1>12. g \in FullRows
  BY <1>7, <1>8, <1>9, <1>10, <1>11, RecordIs
<1> QED
  BY <1>2, <1>4, <1>5, <1>12

\* A worker with no edit has no bundle and writes nothing.
LEMMA NoPatchIs ==
    /\ NoPatch.bundle = Nil /\ DOMAIN NoPatch.discs = {} /\ DOMAIN NoPatch.row = {}
    /\ \A p : PatchTyped(p) => p # NoPatch
<1>1. NoPatch.bundle = Nil /\ DOMAIN NoPatch.discs = {} /\ DOMAIN NoPatch.row = {}
  BY DEF NoPatch
<1> QED
  BY <1>1, ColumnsAre DEF PatchTyped
-------------------------------------------------------------------------------
(* The bulk query's fold.  The theorems of the library about folds and about     *)
(* induction take an operator; these take sets and functions.                    *)

\* A set of numbers that is not empty has a least one.
LEMMA LeastNat ==
    ASSUME NEW T \in SUBSET Nat, T # {}
    PROVE  \E m \in T : \A n \in T : m <= n
<1> DEFINE Below == {0..n : n \in T}
<1>1. Below \subseteq FiniteSubsetsOf(Nat) /\ Below # {}
  <2>1. ASSUME NEW n \in T
        PROVE  0..n \in FiniteSubsetsOf(Nat)
    <3>1. IsFiniteSet(0..n)
      BY FS_Interval
    <3> QED
      BY <3>1 DEF FiniteSubsetsOf
  <2> QED
    BY <2>1
<1>2. PICK x \in Below : \A y \in Below : <<y, x>> \notin StrictSubsetOrdering(Nat)
  BY <1>1, FS_StrictSubsetOrderingWellFounded, WFMin, Zenon
<1>3. PICK m \in T : x = 0..m
  OBVIOUS
<1>4. ASSUME NEW n \in T, n < m
      PROVE  FALSE
  <2>1. 0..n \in Below /\ 0..n \subseteq x /\ 0..n # x
    BY <1>3, <1>4
  <2>2. 0..n \in SUBSET Nat /\ x \in SUBSET Nat
    BY <1>3
  <2> QED
    BY <1>2, <2>1, <2>2 DEF StrictSubsetOrdering
<1> QED
  BY <1>4

\* What holds of zero and goes from each number to the next holds of all.
LEMMA Upwards ==
    ASSUME NEW T, 0 \in T, \A n \in Nat : n \in T => n + 1 \in T
    PROVE  Nat \subseteq T
<1> DEFINE Missing == Nat \ T
<1> SUFFICES ASSUME Missing # {} PROVE FALSE
  OBVIOUS
<1>1. PICK m \in Missing : \A n \in Missing : m <= n
  <2>1. Missing \in SUBSET Nat
    OBVIOUS
  <2> HIDE DEF Missing
  <2> QED
    BY <2>1, LeastNat, Zenon
<1>2. m # 0 /\ m \in Nat
  OBVIOUS
<1>3. m - 1 \in Nat /\ m - 1 \notin Missing
  BY <1>1, <1>2
<1>4. (m - 1) + 1 \in T
  BY <1>3
<1> QED
  BY <1>2, <1>4

\* What the recursive function inside a fold computes, over the subsets of S.
Folding(f, S, base, op) ==
    \A s \in SUBSET S :
        f[s] = IF s = {} THEN base
               ELSE op[CHOOSE x \in s : TRUE][f[s \ {CHOOSE x \in s : TRUE}]]

\* The fold over a finite set, one element at a time, has a value for every subset.
LEMMA FoldExists ==
    ASSUME NEW S, IsFiniteSet(S), NEW V, NEW base \in V, NEW op \in [S -> [V -> V]]
    PROVE  \E f \in [SUBSET S -> V] : Folding(f, S, base, op)
<1>1. PICK pick : pick = [s \in SUBSET S |-> CHOOSE x \in s : TRUE]
  OBVIOUS
<1>2. \A s \in SUBSET S : s # {} => pick[s] \in s
  BY <1>1
<1>3. PICK next : next = [f \in [SUBSET S -> V] |-> [s \in SUBSET S |->
                            IF s = {} THEN base ELSE op[pick[s]][f[s \ {pick[s]}]]]]
  OBVIOUS
<1>4. next \in [[SUBSET S -> V] -> [SUBSET S -> V]]
  <2>1. ASSUME NEW f \in [SUBSET S -> V], NEW s \in SUBSET S, s # {}
        PROVE  op[pick[s]][f[s \ {pick[s]}]] \in V
    <3>1. pick[s] \in S /\ s \ {pick[s]} \in SUBSET S
      BY <1>2, <2>1
    <3> QED
      BY <3>1
  <2>2. ASSUME NEW f \in [SUBSET S -> V]
        PROVE  next[f] \in [SUBSET S -> V]
    BY <1>3, <2>1
  <2> QED
    BY <1>3, <2>2
<1>5. \A f \in [SUBSET S -> V], s \in SUBSET S :
         next[f][s] = IF s = {} THEN base ELSE op[pick[s]][f[s \ {pick[s]}]]
  BY <1>3
<1> DEFINE Right(n, f) == \A s \in SUBSET S : Cardinality(s) <= n => f[s] = next[f][s]
           T == {n \in Nat : \E f \in [SUBSET S -> V] : Right(n, f)}
<1>6. ASSUME NEW s \in SUBSET S
      PROVE  /\ IsFiniteSet(s) /\ Cardinality(s) \in Nat
             /\ Cardinality(s) = 0 <=> s = {}
             /\ s # {} => Cardinality(s \ {pick[s]}) = Cardinality(s) - 1
  <2>1. IsFiniteSet(s) /\ Cardinality(s) \in Nat
    BY FS_Subset, FS_CardinalityType
  <2>2. Cardinality(s) = 0 <=> s = {}
    BY <2>1, FS_EmptySet
  <2>3. s # {} => Cardinality(s \ {pick[s]}) = Cardinality(s) - 1
    BY <1>2, <2>1, FS_RemoveElement
  <2> QED
    BY <2>1, <2>2, <2>3
<1>7. 0 \in T
  <2>1. PICK f : f = [s \in SUBSET S |-> base]
    OBVIOUS
  <2>2. f \in [SUBSET S -> V]
    BY <2>1
  <2>3. ASSUME NEW s \in SUBSET S, Cardinality(s) <= 0
        PROVE  f[s] = next[f][s]
    <3>1. s = {}
      <4>1. Cardinality(s) \in Nat /\ (Cardinality(s) = 0 <=> s = {})
        BY <1>6
      <4>2. Cardinality(s) = 0
        BY <2>3, <4>1
      <4> QED
        BY <4>1, <4>2
    <3> QED
      BY <1>5, <2>1, <2>2, <3>1
  <2> QED
    BY <2>2, <2>3
<1>8. ASSUME NEW n \in Nat, n \in T
      PROVE  n + 1 \in T
  <2>1. PICK f \in [SUBSET S -> V] : Right(n, f)
    BY <1>8
  <2>2. PICK g : g = next[f]
    OBVIOUS
  <2>3. g \in [SUBSET S -> V]
    BY <1>4, <2>2
  <2>4. ASSUME NEW s \in SUBSET S, Cardinality(s) <= n + 1, s # {}
        PROVE  g[s] = next[g][s]
    <3>1. PICK t : t = s \ {pick[s]}
      OBVIOUS
    <3>2. t \in SUBSET S /\ Cardinality(t) <= n
      <4>1. Cardinality(t) = Cardinality(s) - 1 /\ Cardinality(s) \in Nat
        BY <1>6, <2>4, <3>1
      <4> QED
        BY <2>4, <3>1, <4>1
    <3>3. f[t] = g[t]
      BY <2>1, <2>2, <3>2
    <3>4. g[s] = op[pick[s]][f[t]]
      BY <1>5, <2>2, <2>4, <3>1
    <3>5. next[g][s] = op[pick[s]][g[t]]
      BY <1>5, <2>3, <2>4, <3>1
    <3> QED
      BY <3>3, <3>4, <3>5
  <2>5. g[{}] = next[g][{}]
    BY <1>5, <2>2, <2>3
  <2>6. Right(n + 1, g)
    BY <2>4, <2>5
  <2> QED
    BY <2>3, <2>6
<1>9. Nat \subseteq T
  <2> HIDE DEF T
  <2> QED
    BY <1>7, <1>8, Upwards
<1>10. Cardinality(S) \in T
  <2> HIDE DEF T
  <2> QED
    BY <1>9, FS_CardinalityType
<1>11. PICK f \in [SUBSET S -> V] : Right(Cardinality(S), f)
  BY <1>10
<1>12. ASSUME NEW s \in SUBSET S
       PROVE  f[s] = next[f][s]
  <2>1. Cardinality(s) <= Cardinality(S)
    BY FS_Subset
  <2> QED
    BY <1>11, <2>1
<1>13. ASSUME NEW s \in SUBSET S
       PROVE  f[s] = IF s = {} THEN base
                     ELSE op[CHOOSE x \in s : TRUE][f[s \ {CHOOSE x \in s : TRUE}]]
  <2>1. pick[s] = CHOOSE x \in s : TRUE
    BY <1>1
  <2>2. f[s] = IF s = {} THEN base ELSE op[pick[s]][f[s \ {pick[s]}]]
    BY <1>5, <1>12
  <2> QED
    BY <2>1, <2>2
<1> QED
  BY <1>13 DEF Folding

\* The first of a set of environments, in the order both queries sort them.
First(e, s) == e \in s /\ \A d \in s : Before(e, d)

LEMMA BeforeIs ==
    ASSUME Shape, NEW d \in There, NEW e \in There, NEW f \in There
    PROVE  /\ Before(d, d)
           /\ Before(d, e) \/ Before(e, d)
           /\ Before(d, e) /\ Before(e, f) => Before(d, f)
           /\ Before(d, e) /\ Before(e, d) => d = e
<1>1. d \in Nat /\ e \in Nat /\ f \in Nat
  BY CatalogAssumption DEF There
<1>2. environment[d].image \in BOOLEAN /\ environment[e].image \in BOOLEAN /\ environment[f].image \in BOOLEAN
  BY DEF Shape, There, FullEnvironments
<1> QED
  BY <1>1, <1>2 DEF Before

\* The fold of the bulk query ends at the first row of an era, if there is one.
LEMMA ByEraIs ==
    ASSUME Shape, NEW era
    PROVE  IF SystemRows(era) = {} THEN ByEra(era) = Nil ELSE First(ByEra(era), SystemRows(era))
<1>1. PICK S : S = SystemRows(era)
  OBVIOUS
<1>2. S \subseteq There /\ IsFiniteSet(S) /\ Nil \notin S
  <2>1. S \subseteq There /\ There \subseteq Environments
    BY <1>1 DEF SystemRows, There
  <2> QED
    BY <2>1, FS_Subset, CatalogAssumption DEF Shape
<1>3. PICK V : V = S \cup {Nil}
  OBVIOUS
<1>4. PICK op : op = [e \in S |-> [best \in V |-> IF best = Nil \/ Before(e, best) THEN e ELSE best]]
  OBVIOUS
<1>5. op \in [S -> [V -> V]]
  BY <1>3, <1>4
<1>6. PICK f \in [SUBSET S -> V] : Folding(f, S, Nil, op)
  <2>1. Nil \in V /\ IsFiniteSet(S)
    BY <1>2, <1>3
  <2> QED
    BY <1>5, <2>1, FoldExists, Zenon
<1>7. ASSUME NEW s \in SUBSET S
      PROVE  f[s] = IF s = {} THEN Nil
                    ELSE LET x == CHOOSE x \in s : TRUE
                         IN  IF f[s \ {x}] = Nil \/ Before(x, f[s \ {x}]) THEN x ELSE f[s \ {x}]
  <2>1. CASE s = {}
    BY <1>6, <2>1 DEF Folding
  <2>2. CASE s # {}
    <3>1. PICK x : x = CHOOSE y \in s : TRUE
      OBVIOUS
    <3>2. x \in S /\ f[s \ {x}] \in V
      BY <2>2, <3>1, <1>6
    <3>3. op[x][f[s \ {x}]] = IF f[s \ {x}] = Nil \/ Before(x, f[s \ {x}]) THEN x ELSE f[s \ {x}]
      BY <1>4, <3>2
    <3>4. f[s] = op[x][f[s \ {x}]]
      BY <1>6, <2>2, <3>1 DEF Folding
    <3> QED
      BY <2>2, <3>1, <3>3, <3>4
  <2> QED
    BY <2>1, <2>2
<1>8. PICK g : /\ g = [s \in SUBSET S |->
                         IF s = {} THEN Nil
                         ELSE LET x == CHOOSE x \in s : TRUE
                              IN  IF g[s \ {x}] = Nil \/ Before(x, g[s \ {x}]) THEN x ELSE g[s \ {x}]]
               /\ ByEra(era) = g[S]
  <2>1. f = [s \in SUBSET S |->
               IF s = {} THEN Nil
               ELSE LET x == CHOOSE x \in s : TRUE
                    IN  IF f[s \ {x}] = Nil \/ Before(x, f[s \ {x}]) THEN x ELSE f[s \ {x}]]
    BY <1>6, <1>7
  <2>2. f = [s \in SUBSET SystemRows(era) |->
               IF s = {} THEN Nil
               ELSE LET x == CHOOSE x \in s : TRUE
                    IN  IF f[s \ {x}] = Nil \/ Before(x, f[s \ {x}]) THEN x ELSE f[s \ {x}]]
    BY <1>1, <2>1
  <2>3. \E h : /\ h = [s \in SUBSET SystemRows(era) |->
                         IF s = {} THEN Nil
                         ELSE LET x == CHOOSE x \in s : TRUE
                              IN  IF h[s \ {x}] = Nil \/ Before(x, h[s \ {x}]) THEN x ELSE h[s \ {x}]]
               /\ ByEra(era) = h[SystemRows(era)]
    BY <2>2 DEF ByEra, FoldSet, MapThenFoldSet
  <2> QED
    BY <1>1, <2>3
<1>9. \A s \in SUBSET S :
         g[s] = IF s = {} THEN Nil
                ELSE LET x == CHOOSE x \in s : TRUE
                     IN  IF g[s \ {x}] = Nil \/ Before(x, g[s \ {x}]) THEN x ELSE g[s \ {x}]
  BY <1>8, Zenon
<1> DEFINE T == {n \in Nat : \A s \in SUBSET S : Cardinality(s) = n /\ s # {} => First(g[s], s)}
<1>10. ASSUME NEW s \in SUBSET S
       PROVE  IsFiniteSet(s) /\ Cardinality(s) \in Nat /\ (Cardinality(s) = 0 <=> s = {})
  <2>1. IsFiniteSet(s) /\ Cardinality(s) \in Nat
    BY <1>2, FS_Subset, FS_CardinalityType
  <2> QED
    BY <2>1, FS_EmptySet
<1>11. 0 \in T
  BY <1>10
<1>12. ASSUME NEW n \in Nat, n \in T
       PROVE  n + 1 \in T
  <2>1. ASSUME NEW s \in SUBSET S, Cardinality(s) = n + 1, s # {}
        PROVE  First(g[s], s)
    <3>1. PICK x : x = CHOOSE y \in s : TRUE
      OBVIOUS
    <3>2. x \in s
      BY <2>1, <3>1
    <3>3. PICK t : t = s \ {x}
      OBVIOUS
    <3>4. t \in SUBSET S /\ s = t \cup {x} /\ x \in There
      BY <3>2, <3>3, <1>2
    <3>5. Cardinality(t) = n
      <4>1. Cardinality(t) = Cardinality(s) - 1
        BY <1>10, <3>2, <3>3, FS_RemoveElement
      <4> QED
        BY <2>1, <4>1
    <3>6. g[s] = IF g[t] = Nil \/ Before(x, g[t]) THEN x ELSE g[t]
      BY <1>9, <2>1, <3>1, <3>3
    <3>7. CASE t = {}
      <4>1. g[t] = Nil
        BY <1>9, <3>4, <3>7
      <4>2. g[s] = x /\ s = {x}
        BY <3>4, <3>6, <3>7, <4>1
      <4>3. Before(x, x)
        BY <3>4, BeforeIs
      <4> QED
        BY <4>2, <4>3 DEF First
    <3>8. CASE t # {}
      <4>1. First(g[t], t)
        BY <1>12, <3>4, <3>5, <3>8
      <4>2. g[t] \in There /\ g[t] # Nil
        BY <4>1, <3>4, <1>2 DEF First
      <4>3. CASE Before(x, g[t])
        <5>1. g[s] = x
          BY <3>6, <4>3
        <5>2. \A d \in t : d \in There /\ Before(g[t], d)
          BY <4>1, <3>4, <1>2 DEF First
        <5>3. \A d \in t : Before(x, d)
          BY <4>2, <4>3, <5>2, <3>4, BeforeIs
        <5>4. Before(x, x)
          BY <3>4, BeforeIs
        <5> QED
          BY <5>1, <5>3, <5>4, <3>4, <3>2 DEF First
      <4>4. CASE ~Before(x, g[t])
        <5>1. g[s] = g[t]
          BY <3>6, <4>2, <4>4
        <5>2. Before(g[t], x)
          BY <4>2, <4>4, <3>4, BeforeIs
        <5> QED
          BY <5>1, <5>2, <4>1, <3>4 DEF First
      <4> QED
        BY <4>3, <4>4
    <3> QED
      BY <3>7, <3>8
  <2> QED
    BY <2>1
<1>13. Cardinality(S) \in T
  <2>1. Nat \subseteq T
    <3> HIDE DEF T
    <3> QED
      BY <1>11, <1>12, Upwards
  <2>2. Cardinality(S) \in Nat
    BY <1>10
  <2> QED
    BY <2>1, <2>2
<1>14. S # {} => First(g[S], S)
  BY <1>13
<1>15. S = {} => g[S] = Nil
  BY <1>9
<1> QED
  BY <1>1, <1>8, <1>14, <1>15

\* One query or the other, they find the same environment.
LEMMA LookupIsByEra ==
    ASSUME Shape, NEW era
    PROVE  Lookup(era) = ByEra(era)
<1>1. CASE SystemRows(era) = {}
  BY <1>1, ByEraIs DEF Lookup
<1>2. CASE SystemRows(era) # {}
  <2>1. First(ByEra(era), SystemRows(era))
    BY <1>2, ByEraIs
  <2>2. First(Lookup(era), SystemRows(era))
    BY <1>2, <2>1 DEF Lookup, First
  <2>3. SystemRows(era) \subseteq There
    BY DEF SystemRows
  <2>4. PICK d, e \in There : d = ByEra(era) /\ e = Lookup(era)
    BY <2>1, <2>2, <2>3 DEF First
  <2>5. Before(d, e) /\ Before(e, d)
    BY <2>1, <2>2, <2>4 DEF First
  <2> QED
    BY <2>4, <2>5, BeforeIs
<1> QED
  BY <1>1, <1>2
-------------------------------------------------------------------------------
(* Lemmas about the state.                                                       *)

\* S are the leaves of an order, and place is the number it gives to each.
Numbers(n, order, S, place) ==
    /\ S = {order[i] : i \in 1..n} /\ order[1] \in S /\ S \subseteq Leaves
    /\ DOMAIN order = 1..n /\ Cardinality(1..n) = n /\ Cardinality(S) = n
    /\ place \in [S -> 1..n] /\ {place[l] : l \in S} = 1..n
    /\ \A l \in S : place[l] = CHOOSE i \in 1..n : order[i] = l

\* An order names each of its leaves once, and so numbers them without a gap.
LEMMA OrderIs ==
    ASSUME NEW n \in Nat, n # 0, NEW order \in [1..n -> Leaves],
           \A i, j \in 1..n : order[i] = order[j] => i = j
    PROVE  \E S, place : Numbers(n, order, S, place)
<1>1. PICK S : S = {order[i] : i \in 1..n}
  OBVIOUS
<1>2. DOMAIN order = 1..n /\ S \subseteq Leaves
  BY <1>1
<1>3. IsFiniteSet(1..n) /\ Cardinality(1..n) = n
  BY FS_Interval
<1>4. Cardinality(S) = n
  <2>1. order \in Bijection(1..n, S)
    BY <1>1 DEF Bijection, Injection, Surjection, IsInjective
  <2>2. ExistsBijection(1..n, S)
    BY <2>1 DEF ExistsBijection
  <2> QED
    BY <1>3, <2>2, FS_Bijection
<1>5. PICK place : place = [l \in S |-> CHOOSE i \in 1..n : order[i] = l]
  OBVIOUS
<1>6. \A l \in S : place[l] \in 1..n /\ order[place[l]] = l
  BY <1>1, <1>5
<1>7. ASSUME NEW i \in 1..n
      PROVE  i \in {place[l] : l \in S}
  <2>1. order[i] \in S /\ place[order[i]] = i
    BY <1>1, <1>6
  <2> QED
    BY <2>1
<1>8. place \in [S -> 1..n]
  BY <1>5, <1>6
<1>9. {place[l] : l \in S} = 1..n
  BY <1>6, <1>7
<1>10. \A l \in S : place[l] = CHOOSE i \in 1..n : order[i] = l
  BY <1>5
<1>11. order[1] \in S
  BY <1>1
<1>12. Numbers(n, order, S, place)
  BY <1>1, <1>2, <1>3, <1>4, <1>8, <1>9, <1>10, <1>11 DEF Numbers
<1> QED
  BY <1>12

LEMMA OrdersAre ==
    ASSUME NEW order \in Orders
    PROVE  \E n \in Nat : /\ n # 0 /\ order \in [1..n -> Leaves]
                          /\ \A i, j \in 1..n : order[i] = order[j] => i = j
<1>1. PICK n \in 1..2 : order \in {f \in [1..n -> Leaves] : \A i, j \in 1..n : f[i] = f[j] => i = j}
  BY DEF Orders
<1> QED
  BY <1>1

LEMMA ListedIs ==
    ASSUME Shape
    PROVE  /\ \A b \in Bundles : b \in Listed <=> bundle[b] \in FullRows
           /\ \A b \in Bundles : b \notin Listed <=> bundle[b] = NoBundle
           /\ Listed \subseteq Bundles
           /\ \A b \in Bundles : KindOf(b) \in Kinds
           /\ \A b \in Games : KindOf(b) = "game"
BY ColumnsAre DEF Shape, Listed, KindOf, Kinds, Bundles

\* A leaf of a bundle is in the table of the bundle's kind.
LEMMA LeavesAre ==
    ASSUME Shape, LeavesKnown, NEW k \in Kinds, NEW l \in Leaves
    PROVE  /\ (leaf[k][l].of = Nil <=> leaf[k][l] = NoLeaf)
           /\ \A b \in Bundles : leaf[k][l].of = b => b \in Listed /\ KindOf(b) = k
<1>1. NoLeaf.of = Nil /\ Nil \notin Bundles /\ Listed \subseteq Bundles
  BY CatalogAssumption, ListedIs DEF NoLeaf
<1> QED
  BY <1>1 DEF LeavesKnown

LEMMA InitInv == CatalogInit => CatalogInv
<1> SUFFICES ASSUME CatalogInit
             PROVE  CatalogInv
  OBVIOUS
<1>1. Listed = {} /\ There = {}
  BY DEF CatalogInit, Listed, There
<1>2. Shape
  <2>1. NoLeaf \in LeafRows
    BY DEF NoLeaf, LeafRows, Statuses
  <2>2. leaf \in [Kinds -> [Leaves -> LeafRows]]
    BY <2>1 DEF CatalogInit
  <2>3. IsFiniteSet(There)
    BY <1>1, FS_EmptySet
  <2> QED
    BY <2>2, <2>3 DEF CatalogInit, Shape, Files
<1>3. LeavesKnown
  BY DEF CatalogInit, LeavesKnown
<1>4. EnvironmentsKnown /\ RowsAgree /\ DiscsAgree
  BY <1>1 DEF EnvironmentsKnown, RowsAgree, DiscsAgree
<1>5. PatchesAgree
  BY <1>1 DEF PatchesAgree
<1>6. PatchesKeepOff
  BY NoPatchIs DEF CatalogInit, PatchesKeepOff
<1>7. HashedFirst
  <2>1. \A l \in Leaves : leaf["game"][l] = NoLeaf
    BY DEF CatalogInit, Kinds
  <2>2. NoLeaf.status = "unchecked"
    BY DEF NoLeaf
  <2> QED
    BY <2>1, <2>2 DEF HashedFirst
<1> QED
  BY <1>2, <1>3, <1>4, <1>5, <1>6, <1>7 DEF CatalogInv
-------------------------------------------------------------------------------
(* Bundles come and go.                                                          *)

\* What is inserted: leaves in an order, each named once, with the verdict they share.
Fits(n, order, verdict) ==
    /\ n \in Nat /\ n # 0 /\ order \in [1..n -> Leaves]
    /\ \A i, j \in 1..n : order[i] = order[j] => i = j
    /\ verdict \in [hashed : BOOLEAN, status : Statuses]
    /\ verdict.status \in {"verified", "caution", "mismatch"} => verdict.hashed

LEMMA InsertKeeps ==
    ASSUME CatalogInv,
           NEW b \in Bundles, NEW era \in Eras, NEW env \in There \cup {Nil}, NEW profile \in BOOLEAN,
           NEW n, NEW order, NEW verdict, Fits(n, order, verdict),
           Insert_(b, era, env, profile, order, verdict)
    PROVE  CatalogInv'
<1>0. /\ n \in Nat /\ n # 0 /\ order \in [1..n -> Leaves]
      /\ \A i, j \in 1..n : order[i] = order[j] => i = j
      /\ verdict \in [hashed : BOOLEAN, status : Statuses]
      /\ verdict.status \in {"verified", "caution", "mismatch"} => verdict.hashed
  BY DEF Fits
<1> USE <1>0
<1>1. PICK S, place : Numbers(n, order, S, place)
  BY OrderIs, Zenon
<1>2. /\ S = {order[i] : i \in 1..n} /\ order[1] \in S /\ S \subseteq Leaves
      /\ DOMAIN order = 1..n /\ Cardinality(1..n) = n /\ Cardinality(S) = n
      /\ place \in [S -> 1..n] /\ {place[l] : l \in S} = 1..n
  BY <1>1 DEF Numbers
<1>3. \A l \in S : place[l] = CHOOSE i \in 1..n : order[i] = l
  BY <1>1 DEF Numbers
<1>4. PICK row : row = [era |-> era, pc |-> IsPc(era), env |-> env, profile |-> profile,
                        launch |-> order[1], display |-> order[1]]
  OBVIOUS
<1>5. PICK K : K = KindOf(b)
  OBVIOUS
<1>6. PICK new : new = [l \in S |-> [of |-> b, disc |-> place[l],
                                    hashed |-> verdict.hashed, status |-> verdict.status]]
  OBVIOUS
<1>7. Shape /\ LeavesKnown /\ K \in Kinds /\ (b \in Games => K = "game")
  BY <1>5, ListedIs DEF CatalogInv
<1>8. /\ bundle[b] = NoBundle
      /\ \A l \in S : leaf[K][l] = NoLeaf
      /\ MayBind(row)
      /\ bundle' = [bundle EXCEPT ![b] = row]
      /\ leaf' = [leaf EXCEPT ![K] = [l \in Leaves |-> IF l \in S THEN new[l] ELSE leaf[K][l]]]
      /\ mixed' = IF \E r \in Patchers : patch[r].bundle = b \/ DOMAIN patch[r].discs \cap S # {}
                  THEN mixed \cup {b} ELSE mixed
      /\ UNCHANGED <<media, environment, patch, cut>>
  <2>1. \A l : (\E i \in 1..n : order[i] = l) <=> l \in S
    BY <1>2
  <2>2. \A l \in S : [of |-> b, disc |-> CHOOSE i \in 1..n : order[i] = l,
                      hashed |-> verdict.hashed, status |-> verdict.status] = new[l]
    BY <1>3, <1>6
  <2>3. PICK m : m = Cardinality(DOMAIN order)
    OBVIOUS
  <2>4. m = n
    BY <1>2, <2>3
  <2>5. /\ bundle[b] = NoBundle
        /\ \A i \in 1..m : leaf[K][order[i]] = NoLeaf
        /\ MayBind(row)
        /\ bundle' = [bundle EXCEPT ![b] = row]
        /\ leaf' = [leaf EXCEPT ![K] = [l \in Leaves |->
                IF \E i \in 1..m : order[i] = l
                THEN [of |-> b, disc |-> CHOOSE i \in 1..m : order[i] = l,
                      hashed |-> verdict.hashed, status |-> verdict.status]
                ELSE leaf[K][l]]]
        /\ mixed' = IF \E r \in Patchers : \/ patch[r].bundle = b
                                            \/ DOMAIN patch[r].discs \cap {order[i] : i \in 1..m} # {}
                    THEN mixed \cup {b} ELSE mixed
        /\ UNCHANGED <<media, environment, patch, cut>>
    BY <1>4, <1>5, <2>3 DEF Insert_
  <2>6. \A l \in Leaves :
           (IF \E i \in 1..m : order[i] = l
            THEN [of |-> b, disc |-> CHOOSE i \in 1..m : order[i] = l,
                  hashed |-> verdict.hashed, status |-> verdict.status]
            ELSE leaf[K][l]) = IF l \in S THEN new[l] ELSE leaf[K][l]
    <3>1. ASSUME NEW l \in S
          PROVE  /\ \E i \in 1..m : order[i] = l
                 /\ [of |-> b, disc |-> CHOOSE i \in 1..m : order[i] = l,
                     hashed |-> verdict.hashed, status |-> verdict.status] = new[l]
      <4>1. \E i \in 1..n : order[i] = l
        BY <2>1
      <4>2. [of |-> b, disc |-> CHOOSE i \in 1..n : order[i] = l,
             hashed |-> verdict.hashed, status |-> verdict.status] = new[l]
        BY <2>2
      <4> QED
        BY <2>4, <4>1, <4>2
    <3>2. ASSUME NEW l \in Leaves, l \notin S
          PROVE  ~ \E i \in 1..m : order[i] = l
      <4>1. ~ \E i \in 1..n : order[i] = l
        BY <2>1, <3>2
      <4> QED
        BY <2>4, <4>1
    <3> QED
      BY <3>1, <3>2
  <2>7. leaf' = [leaf EXCEPT ![K] = [l \in Leaves |-> IF l \in S THEN new[l] ELSE leaf[K][l]]]
    BY <2>5, <2>6
  <2>8. {order[i] : i \in 1..m} = S
    BY <2>4, <1>2
  <2>9. \A l \in S : leaf[K][l] = NoLeaf
    <3>1. ASSUME NEW l \in S
          PROVE  leaf[K][l] = NoLeaf
      <4>1. PICK i \in 1..n : order[i] = l
        BY <2>1
      <4>2. i \in 1..m
        BY <2>4, <4>1
      <4>3. leaf[K][order[i]] = NoLeaf
        BY <2>5, <4>2, Zenon
      <4> QED
        BY <4>1, <4>3
    <3> QED
      BY <3>1
  <2> QED
    BY <2>5, <2>7, <2>8, <2>9
<1>9. \A k \in Kinds, l \in Leaves :
         leaf'[k][l] = IF k = K /\ l \in S THEN new[l] ELSE leaf[k][l]
  BY <1>7, <1>8 DEF Shape
<1>10. \A l \in S : /\ new[l] \in LeafRows /\ new[l].of = b /\ new[l].disc = place[l]
                     /\ new[l].status = verdict.status /\ new[l].hashed = verdict.hashed
                     /\ new[l] # NoLeaf
  <2>1. ASSUME NEW l \in S
        PROVE  /\ new[l].of = b /\ new[l].disc = place[l]
               /\ new[l].status = verdict.status /\ new[l].hashed = verdict.hashed
    BY <1>6
  <2>2. verdict.hashed \in BOOLEAN /\ verdict.status \in Statuses
    OBVIOUS
  <2>7. PICK h \in BOOLEAN : h = verdict.hashed
    BY <2>2
  <2>8. \A l \in S : new[l] = [of |-> b, disc |-> place[l], hashed |-> h, status |-> verdict.status]
    BY <1>6, <2>7
  <2>3. \A l \in S : new[l] \in LeafRows
    <3>1. ASSUME NEW l \in S
          PROVE  new[l] \in LeafRows
      <4>1. place \in [S -> 1..n]
        BY <1>2
      <4>2. place[l] \in Nat
        BY <4>1
      <4>3. b \in Bundles \cup {Nil} /\ verdict.status \in Statuses
        OBVIOUS
      <4>4. PICK d, st : d = place[l] /\ st = verdict.status
        OBVIOUS
      <4>5. new[l] = [of |-> b, disc |-> d, hashed |-> h, status |-> st]
        BY <2>8, <4>4
      <4> QED
        BY <4>2, <4>3, <4>4, <4>5 DEF LeafRows
    <3> QED
      BY <3>1
  <2>4. NoLeaf.of = Nil /\ Nil # b
    BY CatalogAssumption DEF NoLeaf
  <2> QED
    BY <2>1, <2>3, <2>4
<1>11. /\ row \in FullRows /\ row.pc = IsPc(row.era) /\ row.env = env
       /\ row.launch = order[1] /\ row.display = order[1]
  <2>1. PICK pc \in BOOLEAN : pc = IsPc(era)
    <3>1. IsPc(era) \in BOOLEAN
      BY DEF IsPc
    <3> QED
      BY <3>1, Zenon
  <2>2. env \in Environments \cup {Nil}
    BY DEF There
  <2>3. order[1] \in Leaves
    BY <1>2
  <2>4. row = [era |-> era, pc |-> pc, env |-> env, profile |-> profile,
               launch |-> order[1], display |-> order[1]]
    BY <1>4, <2>1
  <2>5. row \in FullRows
    BY <2>2, <2>3, <2>4 DEF FullRows
  <2>6. row.pc = pc /\ row.era = era
    BY <2>4
  <2> QED
    BY <2>1, <2>4, <2>5, <2>6
<1>12. /\ \A c \in Bundles : bundle'[c] = IF c = b THEN row ELSE bundle[c]
       /\ bundle' \in [Bundles -> FullRows \cup {NoBundle}]
  BY <1>7, <1>8, <1>11 DEF Shape
<1>13. b \notin Listed /\ Listed' = Listed \cup {b} /\ There' = There
  <2>1. row # NoBundle
    BY <1>11, ColumnsAre
  <2> QED
    BY <1>8, <1>12, <2>1 DEF Listed, There
<1>14. \A l \in Leaves : leaf[K][l].of # b
  BY <1>7, <1>13, LeavesAre
<1>15. LeavesOf(b)' = S
  <2>1. \A l \in Leaves : leaf'[K][l].of = b <=> l \in S
    BY <1>7, <1>9, <1>10, <1>14
  <2> QED
    BY <1>2, <1>5, <2>1 DEF LeavesOf
<1>16. ASSUME NEW c \in Bundles, c # b
       PROVE  /\ LeavesOf(c)' = LeavesOf(c)
              /\ \A l \in LeavesOf(c) : leaf'[KindOf(c)][l] = leaf[KindOf(c)][l]
  <2>1. PICK k : k = KindOf(c)
    OBVIOUS
  <2>2. k \in Kinds
    BY <1>7, <2>1, ListedIs
  <2>3. ASSUME NEW l \in Leaves, k = K, l \in S
        PROVE  leaf[k][l].of # c /\ leaf'[k][l].of # c
    <3>1. leaf[k][l].of = Nil
      BY <1>8, <2>3 DEF NoLeaf
    <3>2. leaf'[k][l].of = b
      BY <1>9, <1>10, <2>2, <2>3
    <3> QED
      BY <1>16, <3>1, <3>2, CatalogAssumption
  <2>4. \A l \in Leaves : ~(k = K /\ l \in S) => leaf'[k][l] = leaf[k][l]
    BY <1>9, <2>2
  <2>5. \A l \in Leaves : leaf'[k][l].of = c <=> leaf[k][l].of = c
    BY <2>3, <2>4
  <2>6. \A l \in Leaves : leaf[k][l].of = c => leaf'[k][l] = leaf[k][l]
    BY <2>3, <2>4
  <2> QED
    BY <2>1, <2>5, <2>6 DEF LeavesOf
<1>17. mixed \subseteq mixed' /\ mixed' \subseteq mixed \cup {b} /\ cut' = cut /\ patch' = patch
  BY <1>8
<1>18. Shape'
  <2>1. leaf' \in [Kinds -> [Leaves -> LeafRows]]
    <3>1. [l \in Leaves |-> IF l \in S THEN new[l] ELSE leaf[K][l]] \in [Leaves -> LeafRows]
      BY <1>7, <1>10 DEF Shape
    <3> QED
      BY <1>7, <1>8, <3>1 DEF Shape
  <2>2. IsFiniteSet(There)'
    BY <1>7, <1>13 DEF Shape
  <2> QED
    BY <1>7, <1>8, <1>12, <1>17, <2>1, <2>2 DEF Shape, PatchTyped, Over
<1>19. LeavesKnown'
  <2>1. ASSUME NEW k \in Kinds, NEW l \in Leaves, leaf'[k][l] # NoLeaf
        PROVE  leaf'[k][l].of \in Listed' /\ KindOf(leaf'[k][l].of) = k
    <3>1. CASE k = K /\ l \in S
      BY <1>5, <1>9, <1>10, <1>13, <3>1
    <3>2. CASE ~(k = K /\ l \in S)
      BY <1>7, <1>9, <1>13, <2>1, <3>2 DEF LeavesKnown
    <3> QED
      BY <3>1, <3>2
  <2> QED
    BY <2>1 DEF LeavesKnown, KindOf
<1>20. EnvironmentsKnown'
  BY <1>11, <1>12, <1>13, ListedIs, <1>7 DEF EnvironmentsKnown, CatalogInv
<1>21. ASSUME NEW c \in Bundles, c # b, NEW was, Agrees(c, was)
       PROVE  Agrees(c, was)'
  BY <1>16, <1>17, <1>21 DEF Agrees, MayBind, IsPc
<1>22. RowsAgree'
  <2>1. Agrees(b, row)'
    BY <1>2, <1>8, <1>11, <1>15 DEF Agrees, MayBind, IsPc
  <2>2. Agrees(b, bundle[b])'
    BY <1>12, <2>1
  <2>3. ASSUME NEW c \in Listed \ mixed
        PROVE  Agrees(c, bundle[c])'
    <3>1. PICK was : was = bundle[c]
      OBVIOUS
    <3>2. c \in Bundles /\ c # b
      BY <1>7, <1>13, ListedIs
    <3>3. Agrees(c, was)
      BY <3>1 DEF CatalogInv, RowsAgree
    <3>4. Agrees(c, was)'
      BY <1>21, <3>2, <3>3
    <3> QED
      BY <1>12, <3>1, <3>2, <3>4
  <2> QED
    BY <1>13, <1>17, <2>2, <2>3 DEF RowsAgree
<1>23. DiscsAgree'
  <2>1. ASSUME b \in Games
        PROVE  {leaf'["game"][l].disc : l \in LeavesOf(b)'} = 1..Cardinality(LeavesOf(b)')
    <3>1. \A l \in S : leaf'["game"][l].disc = place[l]
      <4>1. K = "game" /\ K \in Kinds /\ S \subseteq Leaves
        BY <1>2, <1>7, <2>1
      <4> QED
        BY <1>9, <1>10, <4>1
    <3>2. {leaf'["game"][l].disc : l \in S} = {place[l] : l \in S}
      BY <3>1
    <3>3. {place[l] : l \in S} = 1..Cardinality(S)
      BY <1>2
    <3> QED
      BY <1>15, <3>2, <3>3, Zenon
  <2>2. ASSUME NEW c \in (Games \cap Listed) \ mixed
        PROVE  {leaf'["game"][l].disc : l \in LeavesOf(c)'} = 1..Cardinality(LeavesOf(c)')
    <3>1. c \in Bundles /\ c # b /\ KindOf(c) = "game"
      BY <1>7, <1>13, ListedIs
    <3>2. LeavesOf(c)' = LeavesOf(c) /\ \A l \in LeavesOf(c) : leaf'["game"][l] = leaf["game"][l]
      BY <1>16, <3>1
    <3>3. {leaf["game"][l].disc : l \in LeavesOf(c)} = 1..Cardinality(LeavesOf(c))
      BY DEF CatalogInv, DiscsAgree
    <3> QED
      BY <3>2, <3>3
  <2> QED
    BY <1>13, <1>17, <2>1, <2>2 DEF DiscsAgree
<1>24. PatchesAgree'
  <2>1. ASSUME NEW r \in Patchers, NEW c, c = patch[r].bundle, c \in Listed' \ mixed'
        PROVE  c \in Bundles /\ c # b /\ c \in Listed \ mixed
    BY <1>7, <1>8, <1>13, <1>17, <2>1, ListedIs
  <2>2. ASSUME NEW r \in Patchers, NEW c, c = patch[r].bundle, c \in Listed' \ mixed'
        PROVE  /\ Agrees(c, Over(patch[r].row, bundle[c]))'
               /\ c \in Games =>
                    {DiscAfter(patch[r], l)' : l \in LeavesOf(c)'} = 1..Cardinality(LeavesOf(c)')
    <3>1. c \in Bundles /\ c # b /\ c \in Listed \ mixed
      BY <2>1, <2>2
    <3>2. PICK was : was = Over(patch[r].row, bundle[c])
      OBVIOUS
    <3>3. /\ Agrees(c, was)
          /\ c \in Games => {DiscAfter(patch[r], l) : l \in LeavesOf(c)} = 1..Cardinality(LeavesOf(c))
      BY <2>2, <3>1, <3>2 DEF CatalogInv, PatchesAgree
    <3>4. Agrees(c, was)'
      BY <1>21, <3>1, <3>3
    <3>5. bundle'[c] = bundle[c] /\ patch' = patch
      BY <1>12, <1>17, <3>1
    <3>6. Over(patch[r].row, bundle[c])' = was
      BY <3>2, <3>5 DEF Over
    <3>7. Agrees(c, Over(patch[r].row, bundle[c]))'
      BY <3>4, <3>6 DEF Agrees
    <3>8. ASSUME c \in Games
          PROVE  {DiscAfter(patch[r], l)' : l \in LeavesOf(c)'} = 1..Cardinality(LeavesOf(c)')
      <4>1. KindOf(c) = "game"
        BY <3>8, <1>7, ListedIs
      <4>2. LeavesOf(c)' = LeavesOf(c) /\ \A l \in LeavesOf(c) : leaf'["game"][l] = leaf["game"][l]
        BY <1>16, <3>1, <4>1
      <4>3. \A l \in LeavesOf(c) : DiscAfter(patch[r], l)' = DiscAfter(patch[r], l)
        BY <3>5, <4>2 DEF DiscAfter
      <4> QED
        BY <3>3, <3>8, <4>2, <4>3
    <3> QED
      BY <3>7, <3>8
  <2> QED
    BY <1>17, <2>2 DEF PatchesAgree
<1>25. PatchesKeepOff'
  <2>1. ASSUME NEW r \in Patchers, NEW l \in DOMAIN patch[r].discs
        PROVE  leaf'["game"][l].of \in {Nil, patch[r].bundle} \cup mixed'
    <3>1. l \in Leaves
      BY <1>7, NoPatchIs DEF Shape, PatchTyped
    <3>2. "game" \in Kinds
      BY DEF Kinds
    <3>3. CASE K = "game" /\ l \in S
      <4>1. leaf'["game"][l].of = b
        BY <1>9, <1>10, <3>1, <3>2, <3>3
      <4>2. b \in mixed'
        BY <1>8, <3>3
      <4> QED
        BY <4>1, <4>2
    <3>4. CASE ~(K = "game" /\ l \in S)
      BY <1>9, <1>17, <3>1, <3>2, <3>4 DEF CatalogInv, PatchesKeepOff
    <3> QED
      BY <3>3, <3>4
  <2> QED
    BY <1>17, <2>1 DEF PatchesKeepOff
<1>26. HashedFirst'
  <2>1. "game" \in Kinds
    BY DEF Kinds
  <2>2. ASSUME NEW l \in Leaves, leaf'["game"][l].status \in {"verified", "caution", "mismatch"}
        PROVE  leaf'["game"][l].hashed
    <3>1. CASE K = "game" /\ l \in S
      BY <1>9, <1>10, <2>1, <2>2, <3>1
    <3>2. CASE ~(K = "game" /\ l \in S)
      BY <1>9, <2>1, <2>2, <3>2 DEF CatalogInv, HashedFirst
    <3> QED
      BY <3>1, <3>2
  <2> QED
    BY <2>2 DEF HashedFirst
<1> QED
  BY <1>18, <1>19, <1>20, <1>22, <1>23, <1>24, <1>25, <1>26 DEF CatalogInv

LEMMA CreateKeeps ==
    ASSUME CatalogInv, NEW b \in Bundles, NEW era \in Eras,
           \/ \E profile \in BOOLEAN, order \in Orders : CreateGame(b, era, profile, order)
           \/ \E env \in Environments \cup {Nil}, l \in Leaves : CreateApp(b, era, env, l)
    PROVE  CatalogInv'
<1>1. ASSUME NEW profile \in BOOLEAN, NEW order \in Orders, CreateGame(b, era, profile, order)
      PROVE  CatalogInv'
  <2>1. PICK env \in DefaultsFor(era), verdict \in Classify("good") \cup Classify("changed") :
           Insert_(b, era, env, profile, order, verdict)
    BY <1>1 DEF CreateGame
  <2>2. env \in There \cup {Nil}
    BY DEF DefaultsFor
  <2>3. /\ verdict \in [hashed : BOOLEAN, status : Statuses]
        /\ verdict.status \in {"verified", "caution", "mismatch"} => verdict.hashed
    <3>1. CASE verdict \in Classify("good")
      <4>1. verdict = [hashed |-> TRUE, status |-> "verified"]
        BY <3>1 DEF Classify
      <4> QED
        BY <4>1 DEF Statuses
    <3>2. CASE verdict \in Classify("changed")
      <4>1. verdict \in [hashed : {TRUE}, status : {"not_in_index", "mismatch", "caution"}]
        BY <3>2 DEF Classify
      <4>2. verdict.hashed /\ verdict.hashed \in BOOLEAN
        BY <4>1
      <4>3. verdict.status \in Statuses
        BY <4>1 DEF Statuses
      <4>4. verdict = [hashed |-> verdict.hashed, status |-> verdict.status]
        BY <4>1
      <4> QED
        BY <4>2, <4>3, <4>4
    <3> QED
      BY <2>1, <3>1, <3>2
  <2>4. PICK n \in Nat : /\ n # 0 /\ order \in [1..n -> Leaves]
                         /\ \A i, j \in 1..n : order[i] = order[j] => i = j
    BY OrdersAre
  <2>5. Fits(n, order, verdict)
    BY <2>3, <2>4 DEF Fits
  <2> QED
    BY <2>1, <2>2, <2>5, InsertKeeps
<1>2. ASSUME NEW env \in Environments \cup {Nil}, NEW l \in Leaves, CreateApp(b, era, env, l)
      PROVE  CatalogInv'
  <2>1. PICK order, verdict : /\ order = <<l>> /\ verdict = [hashed |-> FALSE, status |-> "unchecked"]
    OBVIOUS
  <2>2. PICK n \in Nat, profile \in BOOLEAN : n = 1 /\ profile = FALSE
    OBVIOUS
  <2>3. /\ order \in [1..n -> Leaves] /\ n # 0
        /\ \A i, j \in 1..n : order[i] = order[j] => i = j
    BY <2>1, <2>2
  <2>4. /\ verdict \in [hashed : BOOLEAN, status : Statuses]
        /\ verdict.status \in {"verified", "caution", "mismatch"} => verdict.hashed
    BY <2>1 DEF Statuses
  <2>5. env \in There \cup {Nil} /\ Insert_(b, era, env, profile, order, verdict)
    BY <1>2, <2>1, <2>2, Zenon DEF CreateApp
  <2>6. Fits(n, order, verdict)
    BY <2>2, <2>3, <2>4 DEF Fits
  <2> QED
    BY <2>2, <2>5, <2>6, InsertKeeps
<1> QED
  BY <1>1, <1>2

\* A step that leaves a bundle, and the numbers of its discs, as they are.
Undisturbed(c) ==
    /\ bundle'[c] = bundle[c]
    /\ \A l \in Leaves : l \in LeavesOf(c) \/ <<c, l>> \in cut => l \in LeavesOf(c)' \/ <<c, l>> \in cut'
    /\ c \in Games => /\ LeavesOf(c)' = LeavesOf(c)
                      /\ \A l \in LeavesOf(c) : leaf'["game"][l].disc = leaf["game"][l].disc

LEMMA AgreesStays ==
    ASSUME NEW c, NEW was, was.launch \in Leaves \cup {Nil}, was.display \in Leaves \cup {Nil},
           Undisturbed(c), Agrees(c, was)
    PROVE  Agrees(c, was)'
BY DEF Undisturbed, Agrees, MayBind, IsPc

\* What was right of such a bundle stays right of it,
LEMMA BundleStays ==
    ASSUME CatalogInv, NEW c, c \in Listed \ mixed, Undisturbed(c)
    PROVE  /\ Agrees(c, bundle[c])'
           /\ c \in Games =>
                {leaf'["game"][l].disc : l \in LeavesOf(c)'} = 1..Cardinality(LeavesOf(c)')
<1>1. Agrees(c, bundle[c])'
  <2>1. PICK was : was = bundle[c]
    OBVIOUS
  <2>2. was \in FullRows
    BY <2>1, ListedIs DEF CatalogInv
  <2>3. Agrees(c, was)
    BY <2>1 DEF CatalogInv, RowsAgree
  <2>4. Agrees(c, was)'
    BY <2>2, <2>3, AgreesStays DEF FullRows
  <2>5. bundle'[c] = was
    BY <2>1 DEF Undisturbed
  <2> QED
    BY <2>4, <2>5
<1>2. ASSUME c \in Games
      PROVE  {leaf'["game"][l].disc : l \in LeavesOf(c)'} = 1..Cardinality(LeavesOf(c)')
  <2>1. c \in (Games \cap Listed) \ mixed
    BY <1>2
  <2>2. {leaf["game"][l].disc : l \in LeavesOf(c)} = 1..Cardinality(LeavesOf(c))
    BY <2>1 DEF CatalogInv, DiscsAgree
  <2>3. LeavesOf(c)' = LeavesOf(c)
    BY <1>2 DEF Undisturbed
  <2>4. \A l \in LeavesOf(c) : leaf'["game"][l].disc = leaf["game"][l].disc
    BY <1>2 DEF Undisturbed
  <2> QED
    BY <2>2, <2>3, <2>4
<1> QED
  BY <1>1, <1>2

LEMMA BundlesStay ==
    ASSUME CatalogInv,
           \A c \in Listed' \ mixed' : c \in Listed \ mixed /\ Undisturbed(c)
    PROVE  RowsAgree' /\ DiscsAgree'
BY BundleStays DEF RowsAgree, DiscsAgree

\* and an edit of one of them that was right stays right.
PatchAgrees(r) ==
    LET p == patch[r] IN
    p.bundle \in Listed \ mixed =>
        /\ Agrees(p.bundle, Over(p.row, bundle[p.bundle]))
        /\ p.bundle \in Games =>
            {DiscAfter(p, l) : l \in LeavesOf(p.bundle)} = 1..Cardinality(LeavesOf(p.bundle))

LEMMA PatchesAgreeIs == PatchesAgree <=> \A r \in Patchers : PatchAgrees(r)
BY DEF PatchesAgree, PatchAgrees

LEMMA PatchesAgreeNext == (PatchesAgree <=> \A r \in Patchers : PatchAgrees(r))'
BY PatchesAgreeIs, PTL

LEMMA PatchStays ==
    ASSUME CatalogInv, NEW r \in Patchers, patch'[r] = patch[r],
           patch[r].bundle \in Listed' \ mixed' =>
                patch[r].bundle \in Listed \ mixed /\ Undisturbed(patch[r].bundle)
    PROVE  PatchAgrees(r)'
<1>1. PICK p, c : p = patch[r] /\ c = p.bundle
  OBVIOUS
<1> SUFFICES ASSUME c \in Listed' \ mixed'
             PROVE  /\ Agrees(c, Over(p.row, bundle[c]))'
                    /\ c \in Games => {DiscAfter(p, l)' : l \in LeavesOf(c)'} = 1..Cardinality(LeavesOf(c)')
  BY <1>1 DEF PatchAgrees
<1>2. c \in Listed \ mixed /\ Undisturbed(c)
  BY <1>1
<1>3. PICK was : was = Over(p.row, bundle[c])
  OBVIOUS
<1>4. bundle'[c] = bundle[c] /\ bundle[c] \in FullRows /\ c \in Bundles
  BY <1>2, ListedIs DEF Undisturbed, CatalogInv
<1>5. Shape /\ p # NoPatch
  BY <1>1, <1>4, NoPatchIs, CatalogAssumption DEF CatalogInv
<1>6. was \in FullRows
  BY <1>1, <1>3, <1>4, <1>5 DEF Shape, PatchTyped
<1>7. /\ Agrees(c, was)
      /\ c \in Games => {DiscAfter(p, l) : l \in LeavesOf(c)} = 1..Cardinality(LeavesOf(c))
  BY <1>1, <1>2, <1>3 DEF CatalogInv, PatchesAgree
<1>8. Agrees(c, was)'
  BY <1>2, <1>6, <1>7, AgreesStays DEF FullRows
<1>9. Over(p.row, bundle[c])' = was
  BY <1>3, <1>4 DEF Over
<1>10. Agrees(c, Over(p.row, bundle[c]))'
  BY <1>8, <1>9 DEF Agrees
<1>11. ASSUME c \in Games
       PROVE  {DiscAfter(p, l)' : l \in LeavesOf(c)'} = 1..Cardinality(LeavesOf(c)')
  <2>1. LeavesOf(c)' = LeavesOf(c)
    BY <1>2, <1>11 DEF Undisturbed
  <2>2. \A l \in LeavesOf(c) : leaf'["game"][l].disc = leaf["game"][l].disc
    BY <1>2, <1>11 DEF Undisturbed
  <2>3. \A l \in LeavesOf(c) : DiscAfter(p, l)' = DiscAfter(p, l)
    BY <2>2 DEF DiscAfter
  <2> QED
    BY <1>7, <1>11, <2>1, <2>3
<1> QED
  BY <1>10, <1>11

LEMMA DeleteBundleKeeps ==
    ASSUME CatalogInv, NEW b \in Bundles, DeleteBundle(b)
    PROVE  CatalogInv'
<1>1. Shape /\ LeavesKnown /\ b \in Listed
  BY DEF DeleteBundle, CatalogInv
<1>2. PICK K : K = KindOf(b)
  OBVIOUS
<1>3. /\ bundle' = [bundle EXCEPT ![b] = NoBundle]
      /\ leaf' = [leaf EXCEPT ![K] = [l \in Leaves |->
                     IF leaf[K][l].of = b THEN NoLeaf ELSE leaf[K][l]]]
      /\ mixed' = mixed \ {b} /\ cut' = {c \in cut : c[1] # b}
      /\ UNCHANGED <<media, environment, patch>>
  BY <1>2 DEF DeleteBundle
<1>4. K \in Kinds /\ NoLeaf \in LeafRows /\ NoLeaf.of = Nil /\ "game" \in Kinds /\ Nil \notin Bundles
  BY <1>1, <1>2, ListedIs, CatalogAssumption DEF LeafRows, NoLeaf, Statuses, Kinds
<1>5. \A c \in Bundles : bundle'[c] = IF c = b THEN NoBundle ELSE bundle[c]
  BY <1>1, <1>3 DEF Shape
<1>6. Listed' = Listed \ {b} /\ There' = There
  BY <1>3, <1>5 DEF Listed, There
<1>7. \A k \in Kinds, l \in Leaves :
         leaf'[k][l] = IF k = K /\ leaf[K][l].of = b THEN NoLeaf ELSE leaf[k][l]
  BY <1>1, <1>3, <1>4 DEF Shape
<1>8. \A k \in Kinds, l \in Leaves : leaf[k][l].of = b => k = K
  BY <1>1, <1>2, LeavesAre
<1>9. \A k \in Kinds, l \in Leaves :
         leaf'[k][l] = IF leaf[k][l].of = b THEN NoLeaf ELSE leaf[k][l]
  BY <1>7, <1>8
<1>10. \A c \in Listed' \ mixed' : c \in Listed \ mixed /\ Undisturbed(c)
  <2>1. ASSUME NEW c, c \in Listed' \ mixed'
        PROVE  c \in Listed \ mixed /\ c \in Bundles /\ c # b
    BY <1>1, <1>3, <1>6, <2>1, ListedIs
  <2>2. ASSUME NEW c, c \in Listed' \ mixed'
        PROVE  Undisturbed(c)
    <3>1. c \in Bundles /\ c # b
      BY <2>1, <2>2
    <3>2. PICK k \in Kinds : k = KindOf(c)
      BY <1>1, <3>1, ListedIs
    <3>3. \A l \in Leaves : /\ leaf'[k][l].of = c <=> leaf[k][l].of = c
                            /\ leaf[k][l].of = c => leaf'[k][l] = leaf[k][l]
      BY <1>4, <1>9, <3>1, <3>2
    <3>4. LeavesOf(c)' = LeavesOf(c)
      BY <3>2, <3>3 DEF LeavesOf
    <3>5. c \in Games => \A l \in LeavesOf(c) : leaf'["game"][l].disc = leaf["game"][l].disc
      <4>1. c \in Games => k = "game"
        BY <1>1, <3>2, ListedIs
      <4> QED
        BY <3>2, <3>3, <4>1 DEF LeavesOf
    <3>6. \A l \in Leaves : <<c, l>> \in cut => <<c, l>> \in cut'
      BY <1>3, <3>1
    <3>7. bundle'[c] = bundle[c]
      BY <1>5, <3>1
    <3> QED
      BY <3>4, <3>5, <3>6, <3>7 DEF Undisturbed
  <2> QED
    BY <2>1, <2>2
<1>11. RowsAgree' /\ DiscsAgree'
  BY <1>10, BundlesStay
<1>12. PatchesAgree'
  <2>1. \A r \in Patchers : PatchAgrees(r)'
    BY <1>3, <1>10, PatchStays
  <2> QED
    BY <2>1, PatchesAgreeNext
<1>13. Shape'
  <2>1. bundle' \in [Bundles -> FullRows \cup {NoBundle}]
    BY <1>1, <1>3 DEF Shape
  <2>2. leaf' \in [Kinds -> [Leaves -> LeafRows]]
    <3>1. [l \in Leaves |-> IF leaf[K][l].of = b THEN NoLeaf ELSE leaf[K][l]] \in [Leaves -> LeafRows]
      BY <1>1, <1>4 DEF Shape
    <3> QED
      BY <1>1, <1>3, <3>1 DEF Shape
  <2>3. IsFiniteSet(There)'
    BY <1>1, <1>6 DEF Shape
  <2>4. mixed' \subseteq Bundles /\ cut' \subseteq Bundles \X Leaves
    BY <1>1, <1>3 DEF Shape
  <2> QED
    BY <1>1, <1>3, <2>1, <2>2, <2>3, <2>4 DEF Shape, PatchTyped, Over
<1>14. LeavesKnown'
  <2>1. ASSUME NEW k \in Kinds, NEW l \in Leaves, leaf'[k][l] # NoLeaf
        PROVE  leaf'[k][l].of \in Listed' /\ KindOf(leaf'[k][l].of) = k
    <3>1. leaf'[k][l] = leaf[k][l] /\ leaf[k][l].of # b
      BY <1>9, <2>1
    <3> QED
      BY <1>1, <1>6, <2>1, <3>1 DEF LeavesKnown
  <2> QED
    BY <2>1 DEF LeavesKnown, KindOf
<1>15. EnvironmentsKnown'
  BY <1>1, <1>5, <1>6, ListedIs DEF EnvironmentsKnown, CatalogInv
<1>16. PatchesKeepOff'
  <2>1. ASSUME NEW r \in Patchers, NEW l \in DOMAIN patch[r].discs
        PROVE  leaf'["game"][l].of \in {Nil, patch[r].bundle} \cup mixed'
    <3>1. l \in Leaves
      BY <1>1, NoPatchIs DEF Shape, PatchTyped
    <3>2. leaf["game"][l].of \in {Nil, patch[r].bundle} \cup mixed
      BY DEF CatalogInv, PatchesKeepOff
    <3> QED
      BY <1>3, <1>4, <1>9, <3>1, <3>2
  <2> QED
    BY <1>3, <2>1 DEF PatchesKeepOff
<1>17. HashedFirst'
  <2>1. NoLeaf.status = "unchecked"
    BY DEF NoLeaf
  <2> QED
    BY <1>4, <1>9, <2>1 DEF HashedFirst, CatalogInv
<1> QED
  BY <1>11, <1>12, <1>13, <1>14, <1>15, <1>16, <1>17 DEF CatalogInv

LEMMA DeleteAppLeafKeeps ==
    ASSUME CatalogInv, NEW x \in Leaves, DeleteAppLeaf(x)
    PROVE  CatalogInv'
<1>1. Shape /\ LeavesKnown /\ leaf["app"][x] # NoLeaf
  BY DEF DeleteAppLeaf, CatalogInv
<1>2. /\ leaf' = [leaf EXCEPT !["app"][x] = NoLeaf]
      /\ cut' = cut \cup {<<leaf["app"][x].of, x>>}
      /\ UNCHANGED <<bundle, media, environment, patch, mixed>>
  BY DEF DeleteAppLeaf
<1>3. /\ "app" \in Kinds /\ "game" \in Kinds
      /\ NoLeaf \in LeafRows /\ NoLeaf.of = Nil /\ Nil \notin Bundles
  BY CatalogAssumption DEF LeafRows, NoLeaf, Statuses, Kinds
<1>4. leaf["app"][x].of \in Bundles /\ Listed' = Listed /\ There' = There
  BY <1>1, <1>2, <1>3, ListedIs DEF LeavesKnown, Listed, There
<1>5. \A k \in Kinds, l \in Leaves :
         leaf'[k][l] = IF k = "app" /\ l = x THEN NoLeaf ELSE leaf[k][l]
  BY <1>1, <1>2, <1>3 DEF Shape
<1>6. leaf'["game"] = leaf["game"]
  BY <1>1, <1>2, <1>3 DEF Shape
<1>7. \A c \in Listed' \ mixed' : c \in Listed \ mixed /\ Undisturbed(c)
  <2>1. ASSUME NEW c, c \in Listed' \ mixed'
        PROVE  Undisturbed(c)
    <3>1. c \in Bundles
      BY <1>1, <1>4, <2>1, ListedIs
    <3>2. PICK k \in Kinds : k = KindOf(c)
      BY <1>1, <3>1, ListedIs
    <3>3. ASSUME NEW l \in Leaves, leaf[k][l].of = c
          PROVE  leaf'[k][l].of = c \/ <<c, l>> \in cut'
      BY <1>2, <1>5, <3>2, <3>3
    <3>4. \A l \in Leaves : l \in LeavesOf(c) \/ <<c, l>> \in cut => l \in LeavesOf(c)' \/ <<c, l>> \in cut'
      BY <1>2, <3>2, <3>3 DEF LeavesOf
    <3>5. c \in Games => LeavesOf(c)' = LeavesOf(c)
      <4>1. c \in Games => KindOf(c) = "game"
        BY <1>1, ListedIs
      <4> QED
        BY <1>6, <4>1 DEF LeavesOf
    <3> QED
      BY <1>2, <1>6, <3>4, <3>5 DEF Undisturbed
  <2> QED
    BY <1>2, <1>4, <2>1
<1>8. RowsAgree' /\ DiscsAgree'
  BY <1>7, BundlesStay
<1>9. PatchesAgree'
  <2>1. \A r \in Patchers : PatchAgrees(r)'
    BY <1>2, <1>7, PatchStays
  <2> QED
    BY <2>1, PatchesAgreeNext
<1>10. Shape'
  <2>1. leaf' \in [Kinds -> [Leaves -> LeafRows]]
    BY <1>1, <1>2, <1>3 DEF Shape
  <2>2. IsFiniteSet(There)'
    BY <1>1, <1>4 DEF Shape
  <2>3. cut' \subseteq Bundles \X Leaves
    BY <1>1, <1>2, <1>4 DEF Shape
  <2> QED
    BY <1>1, <1>2, <2>1, <2>2, <2>3 DEF Shape, PatchTyped, Over
<1>11. LeavesKnown'
  <2>1. ASSUME NEW k \in Kinds, NEW l \in Leaves, leaf'[k][l] # NoLeaf
        PROVE  leaf'[k][l].of \in Listed' /\ KindOf(leaf'[k][l].of) = k
    BY <1>1, <1>4, <1>5, <2>1 DEF LeavesKnown
  <2> QED
    BY <2>1 DEF LeavesKnown, KindOf
<1>12. EnvironmentsKnown'
  BY <1>2, <1>4 DEF EnvironmentsKnown, CatalogInv
<1>13. PatchesKeepOff'
  BY <1>2, <1>6 DEF PatchesKeepOff, CatalogInv
<1>14. HashedFirst'
  BY <1>6 DEF HashedFirst, CatalogInv
<1> QED
  BY <1>8, <1>9, <1>10, <1>11, <1>12, <1>13, <1>14 DEF CatalogInv
-------------------------------------------------------------------------------
(* Edits.                                                                        *)

\* A step that changes nothing but an edit.
LEMMA OnlyPatch ==
    ASSUME CatalogInv, NEW r \in Patchers, NEW p,
           patch' = [patch EXCEPT ![r] = p], p = NoPatch \/ PatchTyped(p),
           UNCHANGED <<bundle, leaf, media, environment, mixed, cut>>,
           PatchAgrees(r)',
           \A l \in DOMAIN p.discs : leaf["game"][l].of \in {Nil, p.bundle} \cup mixed
    PROVE  CatalogInv'
<1>1. Shape /\ Listed' = Listed /\ There' = There
  BY DEF CatalogInv, Listed, There
<1>2. \A o \in Patchers : patch'[o] = IF o = r THEN p ELSE patch[o]
  BY <1>1 DEF Shape
<1>3. \A c \in Listed : Undisturbed(c)
  BY DEF Undisturbed, LeavesOf
<1>4. RowsAgree' /\ DiscsAgree'
  BY <1>1, <1>3, BundlesStay
<1>5. PatchesAgree'
  <2>1. \A o \in Patchers \ {r} : PatchAgrees(o)'
    BY <1>1, <1>2, <1>3, PatchStays
  <2> QED
    BY <2>1, PatchesAgreeNext
<1>6. Shape'
  <2>1. IsFiniteSet(There)'
    BY <1>1 DEF Shape
  <2>2. \A o \in Patchers : patch'[o] = NoPatch \/ PatchTyped(patch'[o])
    BY <1>1, <1>2 DEF Shape
  <2>3. DOMAIN patch' = Patchers
    BY <1>1 DEF Shape
  <2> QED
    BY <1>1, <2>1, <2>2, <2>3 DEF Shape, PatchTyped, Over
<1>7. LeavesKnown'
  BY <1>1 DEF LeavesKnown, CatalogInv, KindOf
<1>8. EnvironmentsKnown'
  BY <1>1 DEF EnvironmentsKnown, CatalogInv
<1>9. PatchesKeepOff'
  BY <1>2 DEF PatchesKeepOff, CatalogInv
<1>10. HashedFirst'
  BY DEF HashedFirst, CatalogInv
<1> QED
  BY <1>4, <1>5, <1>6, <1>7, <1>8, <1>9, <1>10 DEF CatalogInv

\* The discs of a bundle run from one without a gap when these numbers are set.
Numbered(b, discs) ==
    {IF l \in DOMAIN discs THEN discs[l] ELSE leaf["game"][l].disc : l \in LeavesOf(b)}
        = 1..Cardinality(LeavesOf(b))

\* What an edit says of its bundle, when it alone has changed.
LEMMA PatchStarts ==
    ASSUME CatalogInv, NEW r \in Patchers, NEW b, NEW row, NEW discs, NEW new,
           patch' = [patch EXCEPT ![r] = [bundle |-> b, row |-> row, discs |-> discs]],
           UNCHANGED <<bundle, leaf, media, environment, mixed, cut>>,
           Over(row, bundle[b]) = new,
           b \in Listed \ mixed => Agrees(b, new),
           b \in Listed \ mixed /\ b \in Games => Numbered(b, discs)
    PROVE  PatchAgrees(r)'
<1>1. PICK p : p = [bundle |-> b, row |-> row, discs |-> discs]
  OBVIOUS
<1>2. p.bundle = b /\ p.row = row /\ p.discs = discs /\ patch'[r] = p
  BY <1>1 DEF CatalogInv, Shape
<1>3. Listed' = Listed /\ LeavesOf(b)' = LeavesOf(b)
  BY DEF Listed, LeavesOf
<1>4. \A l : DiscAfter(p, l)' = IF l \in DOMAIN discs THEN discs[l] ELSE leaf["game"][l].disc
  BY <1>2 DEF DiscAfter
<1>5. Over(row, bundle[b])' = new
  BY DEF Over
<1>6. b \in Listed \ mixed => Agrees(b, Over(row, bundle[b]))'
  BY <1>3, <1>5 DEF Agrees, MayBind, IsPc
<1>7. ASSUME b \in Listed \ mixed, b \in Games
      PROVE  {DiscAfter(p, l)' : l \in LeavesOf(b)'} = 1..Cardinality(LeavesOf(b)')
  <2>1. {DiscAfter(p, l)' : l \in LeavesOf(b)} =
           {IF l \in DOMAIN discs THEN discs[l] ELSE leaf["game"][l].disc : l \in LeavesOf(b)}
    BY <1>4
  <2> QED
    BY <1>3, <1>7, <2>1 DEF Numbered
<1> SUFFICES ASSUME b \in Listed' \ mixed'
             PROVE  /\ Agrees(b, Over(row, bundle[b]))'
                    /\ b \in Games => {DiscAfter(p, l)' : l \in LeavesOf(b)'} = 1..Cardinality(LeavesOf(b)')
  BY <1>2 DEF PatchAgrees
<1>8. b \in Listed \ mixed
  BY <1>3
<1> QED
  BY <1>6, <1>7, <1>8

LEMMA BeginPatchKeeps ==
    ASSUME CatalogInv, NEW r \in Patchers, NEW b \in Bundles, NEW f \in Fields, BeginPatch(r, b, f)
    PROVE  CatalogInv'
<1>1. PICK old, new, row, discs : old = bundle[b] /\ new = Patched(old, f) /\ row = Dirty(new, old) /\ discs = <<>>
  OBVIOUS
<1>2. /\ b \in Listed /\ MayBind(new)
      /\ {f.launch, f.display} \subseteq LeavesOf(b) \cup {Keep, Nil}
      /\ patch' = [patch EXCEPT ![r] = [bundle |-> b, row |-> row, discs |-> discs]]
      /\ UNCHANGED <<bundle, leaf, media, environment, mixed, cut>>
  BY <1>1 DEF BeginPatch
<1>3. old \in FullRows /\ Shape
  BY <1>1, <1>2, ListedIs DEF CatalogInv
<1>4. /\ new \in FullRows
      /\ new.era = (IF f.era = Keep THEN old.era ELSE f.era)
      /\ new.pc = (IF f.era = Keep THEN old.pc ELSE IsPc(f.era))
      /\ new.launch = (IF f.launch = Keep THEN old.launch ELSE f.launch)
      /\ new.display = (IF f.display = Keep THEN old.display ELSE f.display)
  BY <1>1, <1>3, PatchedIs
<1>5. /\ \A was \in FullRows : Over(row, was) \in FullRows
      /\ Over(row, old) = new
      /\ "env" \in DOMAIN row => row.env \in Environments \cup {Nil}
  BY <1>1, <1>3, <1>4, DirtyIs
<1>6. DOMAIN discs = {}
  BY <1>1
<1>7. ASSUME b \in Listed \ mixed
      PROVE  Agrees(b, new)
  <2>1. Agrees(b, old)
    BY <1>1, <1>7 DEF CatalogInv, RowsAgree
  <2>2. new.pc = IsPc(new.era)
    BY <1>4, <2>1 DEF Agrees
  <2>3. \A l \in {new.launch, new.display} \ {Nil} : l \in LeavesOf(b) \/ <<b, l>> \in cut
    BY <1>2, <1>4, <2>1 DEF Agrees
  <2> QED
    BY <1>2, <2>2, <2>3 DEF Agrees
<1>8. ASSUME b \in Listed \ mixed, b \in Games
      PROVE  Numbered(b, discs)
  <2>1. {leaf["game"][l].disc : l \in LeavesOf(b)} = 1..Cardinality(LeavesOf(b))
    BY <1>8 DEF CatalogInv, DiscsAgree
  <2>2. \A l \in LeavesOf(b) :
           (IF l \in DOMAIN discs THEN discs[l] ELSE leaf["game"][l].disc) = leaf["game"][l].disc
    BY <1>6
  <2> QED
    BY <2>1, <2>2 DEF Numbered
<1>9. PatchAgrees(r)'
  BY <1>1, <1>2, <1>5, <1>7, <1>8, PatchStarts
<1>10. PICK p : p = [bundle |-> b, row |-> row, discs |-> discs]
  OBVIOUS
<1>11. PatchTyped(p) /\ DOMAIN p.discs = {}
  BY <1>5, <1>6, <1>10 DEF PatchTyped
<1> QED
  BY <1>2, <1>9, <1>10, <1>11, OnlyPatch

LEMMA BeginReorderKeeps ==
    ASSUME CatalogInv, NEW r \in Patchers, NEW b \in Bundles, NEW order \in Orders,
           BeginReorder(r, b, order)
    PROVE  CatalogInv'
<1>1. PICK n \in Nat : /\ n # 0 /\ order \in [1..n -> Leaves]
                       /\ \A i, j \in 1..n : order[i] = order[j] => i = j
  BY OrdersAre
<1>2. PICK S, place : Numbers(n, order, S, place)
  BY <1>1, OrderIs
<1>3. /\ S = {order[i] : i \in 1..n} /\ order[1] \in S /\ S \subseteq Leaves
      /\ DOMAIN order = 1..n /\ Cardinality(S) = n
      /\ place \in [S -> 1..n] /\ {place[l] : l \in S} = 1..n
  BY <1>2 DEF Numbers
<1>4. \A l \in S : place[l] = CHOOSE i \in 1..n : order[i] = l
  BY <1>2 DEF Numbers
<1>5. LeavesOf(b) = S /\ b \in Listed /\ b \in Games
  BY <1>3 DEF BeginReorder
<1>6. PICK old, new, row, discs, was :
         /\ old = bundle[b] /\ new = [old EXCEPT !.launch = order[1]] /\ row = Dirty(new, old)
         /\ was = [l \in S |-> leaf["game"][l].disc] /\ discs = Dirty(place, was)
  OBVIOUS
<1>7. /\ patch' = [patch EXCEPT ![r] = [bundle |-> b, row |-> row, discs |-> discs]]
      /\ UNCHANGED <<bundle, leaf, media, environment, mixed, cut>>
  <2>1. [l \in LeavesOf(b) |-> CHOOSE i \in DOMAIN order : order[i] = l] = place
    BY <1>3, <1>4, <1>5
  <2> QED
    BY <1>5, <1>6, <2>1 DEF BeginReorder
<1>8. old \in FullRows /\ Shape
  BY <1>5, <1>6, ListedIs DEF CatalogInv
<1>9. /\ new \in FullRows
      /\ new.era = old.era /\ new.pc = old.pc /\ new.env = old.env
      /\ new.launch = order[1] /\ new.display = old.display
  <2>1. order[1] \in Leaves \cup {Nil}
    BY <1>3
  <2> QED
    BY <1>6, <1>8, <2>1 DEF FullRows
<1>10. /\ \A any \in FullRows : Over(row, any) \in FullRows
       /\ Over(row, old) = new
       /\ "env" \in DOMAIN row => row.env \in Environments \cup {Nil}
  BY <1>6, <1>8, <1>9, DirtyIs
<1>11. /\ DOMAIN discs \subseteq S /\ \A l \in DOMAIN discs : discs[l] = place[l]
       /\ \A l \in S : (IF l \in DOMAIN discs THEN discs[l] ELSE leaf["game"][l].disc) = place[l]
  BY <1>6 DEF Dirty
<1>12. ASSUME b \in Listed \ mixed
       PROVE  Agrees(b, new)
  <2>1. Agrees(b, old)
    BY <1>6, <1>12 DEF CatalogInv, RowsAgree
  <2> QED
    BY <1>3, <1>5, <1>9, <2>1 DEF Agrees, MayBind
<1>13. Numbered(b, discs)
  <2>1. {IF l \in DOMAIN discs THEN discs[l] ELSE leaf["game"][l].disc : l \in S} = {place[l] : l \in S}
    BY <1>11
  <2> QED
    BY <1>3, <1>5, <2>1 DEF Numbered
<1>14. PatchAgrees(r)'
  BY <1>6, <1>7, <1>10, <1>12, <1>13, PatchStarts
<1>15. PICK p : p = [bundle |-> b, row |-> row, discs |-> discs]
  OBVIOUS
<1>16. PatchTyped(p) /\ DOMAIN p.discs = DOMAIN discs /\ p.bundle = b
  <2>1. ASSUME NEW l \in DOMAIN discs
        PROVE  l \in Leaves /\ discs[l] \in Nat
    <3>1. l \in S /\ discs[l] = place[l]
      BY <1>11
    <3>2. S \subseteq Leaves /\ place[l] \in 1..n
      BY <1>3, <3>1
    <3> QED
      BY <3>1, <3>2
  <2> QED
    BY <1>10, <1>15, <2>1 DEF PatchTyped
<1>17. \A l \in DOMAIN discs : leaf["game"][l].of = b
  <2>1. KindOf(b) = "game"
    BY <1>5, <1>8, ListedIs
  <2> QED
    BY <1>5, <1>11, <2>1 DEF LeavesOf
<1> QED
  BY <1>7, <1>14, <1>15, <1>16, <1>17, OnlyPatch

LEMMA CommitKeeps ==
    ASSUME CatalogInv, NEW r \in Patchers, CommitPatch(r)
    PROVE  CatalogInv'
<1>1. PICK p, b : p = patch[r] /\ b = p.bundle
  OBVIOUS
<1>2. /\ p # NoPatch /\ Shape /\ LeavesKnown
      /\ patch' = [patch EXCEPT ![r] = NoPatch] /\ UNCHANGED <<media, environment, cut>>
  BY <1>1 DEF CommitPatch, CatalogInv
<1>3. /\ PatchTyped(p) /\ b \in Bundles
      /\ DOMAIN p.discs \subseteq Leaves /\ \A l \in DOMAIN p.discs : p.discs[l] \in Nat
  BY <1>1, <1>2 DEF Shape, PatchTyped
<1>4. \A o \in Patchers : patch'[o] = IF o = r THEN NoPatch ELSE patch[o]
  BY <1>2 DEF Shape
<1>5. NoPatch.bundle = Nil /\ DOMAIN NoPatch.discs = {} /\ Nil \notin Bundles /\ Listed \subseteq Bundles
  BY <1>2, NoPatchIs, CatalogAssumption, ListedIs
<1>6. CASE ~Applies(p)
  <2>1. UNCHANGED <<bundle, leaf, media, environment, mixed, cut>>
    BY <1>1, <1>6, <1>2 DEF CommitPatch
  <2>2. PatchAgrees(r)'
    <3>1. patch'[r].bundle \notin Listed'
      BY <1>4, <1>5, <2>1 DEF Listed
    <3> QED
      BY <3>1 DEF PatchAgrees
  <2>3. PICK none : none = NoPatch
    OBVIOUS
  <2>4. patch' = [patch EXCEPT ![r] = none] /\ DOMAIN none.discs = {}
    BY <1>2, <1>5, <2>3
  <2> QED
    BY <2>1, <2>2, <2>3, <2>4, OnlyPatch
<1>7. CASE Applies(p)
  <2>1. PICK row : row = Over(p.row, bundle[b])
    OBVIOUS
  <2>2. /\ bundle' = [bundle EXCEPT ![b] = row]
        /\ leaf' = [leaf EXCEPT !["game"] = [l \in Leaves |->
                IF l \in DOMAIN p.discs THEN [leaf["game"][l] EXCEPT !.disc = p.discs[l]]
                                        ELSE leaf["game"][l]]]
        /\ mixed' = IF \E o \in Patchers \ {r} : patch[o].bundle = b THEN mixed \cup {b} ELSE mixed
    BY <1>1, <1>2, <1>3, <1>7, <2>1 DEF CommitPatch, Over, Shape
  <2>3. /\ DOMAIN p.row # {} => b \in Listed
        /\ \A l \in DOMAIN p.discs : leaf["game"][l] # NoLeaf
        /\ "env" \in DOMAIN p.row => p.row.env \in There \cup {Nil}
    BY <1>1, <1>2, <1>3, <1>7, ListedIs DEF Applies
  <2>4. mixed \subseteq mixed' /\ mixed' \subseteq mixed \cup {b}
    BY <2>2
  <2>5. b \in Listed => row \in FullRows /\ row.env \in There \cup {Nil}
    <3>1. ASSUME b \in Listed
          PROVE  row \in FullRows /\ row.env \in There \cup {Nil}
      <4>1. PICK was \in FullRows : was = bundle[b]
        BY <1>2, <1>3, <3>1, ListedIs
      <4>2. row \in FullRows
        BY <1>3, <2>1, <4>1 DEF PatchTyped
      <4>3. was.env \in There \cup {Nil}
        BY <3>1, <4>1 DEF CatalogInv, EnvironmentsKnown
      <4>4. row = [c \in Columns |-> IF c \in DOMAIN p.row THEN p.row[c] ELSE was[c]]
        BY <2>1, <4>1, OverIs
      <4>5. row.env = IF "env" \in DOMAIN p.row THEN p.row.env ELSE was.env
        BY <4>4 DEF Columns
      <4> QED
        BY <2>3, <4>2, <4>3, <4>5
    <3> QED
      BY <3>1
  <2>6. b \notin Listed => row = NoBundle
    <3>1. ASSUME b \notin Listed
          PROVE  row = NoBundle
      <4>1. bundle[b] = NoBundle /\ DOMAIN p.row = {}
        BY <1>2, <1>3, <2>3, <3>1, ListedIs
      <4>2. row = [c \in DOMAIN NoBundle |-> NoBundle[c]]
        BY <2>1, <4>1 DEF Over
      <4> QED
        BY <4>2 DEF NoBundle
    <3> QED
      BY <3>1
  <2>7. \A c \in Bundles : bundle'[c] = IF c = b THEN row ELSE bundle[c]
    BY <1>2, <2>2 DEF Shape
  <2>8. Listed' = Listed /\ There' = There
    <3>1. \A c \in Bundles : bundle'[c] # NoBundle <=> bundle[c] # NoBundle
      BY <1>2, <2>5, <2>6, <2>7, ColumnsAre, ListedIs
    <3> QED
      BY <1>2, <3>1 DEF Listed, There
  <2>9. "game" \in Kinds /\ leaf'["game"] = [l \in Leaves |->
                IF l \in DOMAIN p.discs THEN [leaf["game"][l] EXCEPT !.disc = p.discs[l]]
                                        ELSE leaf["game"][l]]
    BY <1>2, <2>2 DEF Shape, Kinds
  <2>10. \A l \in Leaves : /\ leaf'["game"][l] \in LeafRows
                           /\ leaf'["game"][l].of = leaf["game"][l].of
                           /\ leaf'["game"][l].hashed = leaf["game"][l].hashed
                           /\ leaf'["game"][l].status = leaf["game"][l].status
                           /\ leaf'["game"][l].disc = DiscAfter(p, l)
                           /\ l \notin DOMAIN p.discs => leaf'["game"][l] = leaf["game"][l]
    <3>1. ASSUME NEW l \in Leaves
          PROVE  /\ leaf'["game"][l] \in LeafRows
                 /\ leaf'["game"][l].of = leaf["game"][l].of
                 /\ leaf'["game"][l].hashed = leaf["game"][l].hashed
                 /\ leaf'["game"][l].status = leaf["game"][l].status
                 /\ leaf'["game"][l].disc = DiscAfter(p, l)
                 /\ l \notin DOMAIN p.discs => leaf'["game"][l] = leaf["game"][l]
      <4>1. leaf["game"][l] \in LeafRows
        BY <1>2, <2>9 DEF Shape
      <4>2. CASE l \in DOMAIN p.discs
        <5>1. PICK d \in Nat, was \in LeafRows : d = p.discs[l] /\ was = leaf["game"][l]
          BY <1>3, <4>1, <4>2
        <5>2. leaf'["game"][l] = [was EXCEPT !.disc = d]
          BY <2>9, <4>2, <5>1
        <5>3. DiscAfter(p, l) = d
          BY <4>2, <5>1 DEF DiscAfter
        <5> QED
          BY <4>2, <5>1, <5>2, <5>3 DEF LeafRows
      <4>3. CASE l \notin DOMAIN p.discs
        BY <2>9, <4>1, <4>3 DEF DiscAfter
      <4> QED
        BY <4>2, <4>3
    <3> QED
      BY <3>1
  <2>11. \A k \in Kinds : k # "game" => leaf'[k] = leaf[k]
    BY <1>2, <2>2 DEF Shape
  <2>12. \A k \in Kinds, l \in Leaves : leaf'[k][l].of = leaf[k][l].of
    BY <2>10, <2>11
  <2>13. \A c \in Bundles : LeavesOf(c)' = LeavesOf(c)
    BY <1>2, <2>12, ListedIs DEF LeavesOf
  <2>14. ASSUME NEW c, c \in Listed' \ mixed', c # b
         PROVE  c \in Listed \ mixed /\ Undisturbed(c)
    <3>1. c \in Listed \ mixed /\ c \in Bundles
      BY <1>5, <2>4, <2>8, <2>14
    <3>2. ASSUME c \in Games, NEW l \in LeavesOf(c)
          PROVE  leaf'["game"][l].disc = leaf["game"][l].disc
      <4>1. l \in Leaves /\ leaf["game"][l].of = c
        BY <1>2, <3>2, ListedIs DEF LeavesOf
      <4>2. l \in DOMAIN p.discs => leaf["game"][l].of \in {Nil, b} \cup mixed
        BY <1>1 DEF CatalogInv, PatchesKeepOff
      <4>3. l \notin DOMAIN p.discs
        BY <1>5, <2>14, <3>1, <4>1, <4>2
      <4> QED
        BY <2>10, <4>1, <4>3
    <3>3. bundle'[c] = bundle[c]
      BY <2>7, <2>14, <3>1
    <3> QED
      BY <1>2, <2>13, <3>1, <3>2, <3>3 DEF Undisturbed
  <2>15. ASSUME b \in Listed' \ mixed'
         PROVE  /\ Agrees(b, bundle[b])'
                /\ b \in Games => {leaf'["game"][l].disc : l \in LeavesOf(b)'} = 1..Cardinality(LeavesOf(b)')
    <3>1. b \in Listed \ mixed
      BY <2>4, <2>8, <2>15
    <3>2. /\ Agrees(b, row)
          /\ b \in Games => {DiscAfter(p, l) : l \in LeavesOf(b)} = 1..Cardinality(LeavesOf(b))
      BY <1>1, <2>1, <3>1 DEF CatalogInv, PatchesAgree
    <3>3. LeavesOf(b)' = LeavesOf(b) /\ LeavesOf(b) \subseteq Leaves /\ cut' = cut
      BY <1>2, <1>3, <2>13 DEF LeavesOf
    <3>4. Agrees(b, row)'
      BY <3>2, <3>3 DEF Agrees, MayBind, IsPc
    <3>5. bundle'[b] = row
      BY <1>3, <2>7
    <3>6. Agrees(b, bundle[b])'
      BY <3>4, <3>5
    <3>7. {leaf'["game"][l].disc : l \in LeavesOf(b)} = {DiscAfter(p, l) : l \in LeavesOf(b)}
      BY <2>10, <3>3
    <3> QED
      BY <3>2, <3>3, <3>6, <3>7
  <2>16. RowsAgree'
    <3>1. ASSUME NEW c, c \in Listed' \ mixed'
          PROVE  Agrees(c, bundle[c])'
      BY <2>14, <2>15, <3>1, BundleStays
    <3> QED
      BY <3>1 DEF RowsAgree
  <2>17. DiscsAgree'
    <3>1. ASSUME NEW c, c \in Games, c \in Listed' \ mixed'
          PROVE  {leaf'["game"][l].disc : l \in LeavesOf(c)'} = 1..Cardinality(LeavesOf(c)')
      <4>1. CASE c = b
        BY <2>15, <3>1, <4>1
      <4>2. CASE c # b
        BY <2>14, <3>1, <4>2, BundleStays
      <4> QED
        BY <4>1, <4>2
    <3> QED
      BY <3>1 DEF DiscsAgree
  <2>18. PatchesAgree'
    <3>1. PatchAgrees(r)'
      <4>1. patch'[r].bundle \notin Listed'
        BY <1>4, <1>5, <2>8
      <4> QED
        BY <4>1 DEF PatchAgrees
    <3>2. ASSUME NEW o \in Patchers, o # r
          PROVE  PatchAgrees(o)'
      <4>1. patch[o].bundle \in Listed' \ mixed' => patch[o].bundle # b
        BY <2>2, <3>2
      <4>2. patch'[o] = patch[o]
        BY <1>4, <3>2
      <4> QED
        BY <2>14, <4>1, <4>2, PatchStays
    <3> QED
      BY <3>1, <3>2, PatchesAgreeNext
  <2>19. Shape'
    <3>1. bundle' \in [Bundles -> FullRows \cup {NoBundle}]
      BY <1>2, <2>2, <2>5, <2>6 DEF Shape
    <3>2. leaf' \in [Kinds -> [Leaves -> LeafRows]]
      <4>1. leaf'["game"] \in [Leaves -> LeafRows]
        BY <2>9, <2>10
      <4>2. DOMAIN leaf' = Kinds /\ leaf' = [k \in Kinds |-> leaf'[k]]
        BY <1>2, <2>2 DEF Shape
      <4>3. \A k \in Kinds : leaf'[k] \in [Leaves -> LeafRows]
        BY <1>2, <2>11, <4>1 DEF Shape
      <4> QED
        BY <4>2, <4>3
    <3>3. IsFiniteSet(There)'
      BY <1>2, <2>8 DEF Shape
    <3>4. mixed' \subseteq Bundles
      BY <1>2, <1>3, <2>4 DEF Shape
    <3>5. DOMAIN patch' = Patchers /\ \A o \in Patchers : patch'[o] = NoPatch \/ PatchTyped(patch'[o])
      BY <1>2, <1>4 DEF Shape
    <3> QED
      BY <1>2, <3>1, <3>2, <3>3, <3>4, <3>5 DEF Shape, PatchTyped, Over
  <2>20. LeavesKnown'
    <3>1. ASSUME NEW k \in Kinds, NEW l \in Leaves, leaf'[k][l] # NoLeaf
          PROVE  leaf'[k][l].of \in Listed' /\ KindOf(leaf'[k][l].of) = k
      <4>1. leaf[k][l] # NoLeaf
        BY <2>3, <2>10, <2>11, <3>1
      <4> QED
        BY <1>2, <2>8, <2>12, <4>1 DEF LeavesKnown
    <3> QED
      BY <3>1 DEF LeavesKnown, KindOf
  <2>21. EnvironmentsKnown'
    BY <1>2, <1>5, <2>5, <2>7, <2>8 DEF EnvironmentsKnown, CatalogInv
  <2>22. PatchesKeepOff'
    <3>1. ASSUME NEW o \in Patchers, o # r, NEW l \in DOMAIN patch[o].discs
          PROVE  leaf'["game"][l].of \in {Nil, patch[o].bundle} \cup mixed'
      <4>1. l \in Leaves
        BY <1>2, NoPatchIs DEF Shape, PatchTyped
      <4>2. leaf["game"][l].of \in {Nil, patch[o].bundle} \cup mixed
        BY DEF CatalogInv, PatchesKeepOff
      <4> QED
        BY <2>4, <2>10, <4>1, <4>2
    <3> QED
      BY <1>4, <1>5, <3>1 DEF PatchesKeepOff
  <2>23. HashedFirst'
    BY <2>10 DEF HashedFirst, CatalogInv
  <2> QED
    BY <2>16, <2>17, <2>18, <2>19, <2>20, <2>21, <2>22, <2>23 DEF CatalogInv
<1> QED
  BY <1>6, <1>7
-------------------------------------------------------------------------------
(* Files, verdicts and environments.                                             *)

LEMMA DriftKeeps ==
    ASSUME CatalogInv, NEW k \in Kinds, NEW l \in Leaves, NEW file \in Files, Drift(k, l, file)
    PROVE  CatalogInv'
<1>1. Shape /\ media' = [media EXCEPT ![k][l] = file]
  BY DEF Drift, CatalogInv
<1>2. UNCHANGED <<bundle, leaf, environment, patch, mixed, cut>>
  BY DEF Drift
<1>3. media' \in [Kinds -> [Leaves -> Files]]
  BY <1>1 DEF Shape
<1>4. Listed' = Listed /\ There' = There
  BY <1>2 DEF Listed, There
<1>5. Shape'
  <2>1. IsFiniteSet(There)'
    BY <1>1, <1>4 DEF Shape
  <2> QED
    BY <1>1, <1>2, <1>3, <2>1 DEF Shape, PatchTyped, Over
<1>6. \A c \in Listed : Undisturbed(c)
  BY <1>2 DEF Undisturbed, LeavesOf
<1>7. RowsAgree' /\ DiscsAgree'
  BY <1>2, <1>4, <1>6, BundlesStay
<1>8. PatchesAgree'
  <2>1. \A r \in Patchers : PatchAgrees(r)'
    BY <1>2, <1>4, <1>6, PatchStays
  <2> QED
    BY <2>1, PatchesAgreeNext
<1>9. LeavesKnown' /\ EnvironmentsKnown' /\ PatchesKeepOff' /\ HashedFirst'
  BY <1>2, <1>4 DEF LeavesKnown, EnvironmentsKnown, PatchesKeepOff, HashedFirst, CatalogInv, KindOf
<1> QED
  BY <1>5, <1>7, <1>8, <1>9 DEF CatalogInv

\* What the classification of a file says, and that of a leaf whose file was never hashed.
LEMMA VerdictsAre ==
    ASSUME NEW l \in Leaves, media["game"][l] \in Files, NEW v \in Verdicts(l)
    PROVE  /\ v.hashed \in BOOLEAN /\ v.status \in Statuses
           /\ v.status \in {"verified", "caution", "mismatch"} => v.hashed /\ leaf["game"][l].hashed
<1>1. CASE leaf["game"][l].hashed
  <2>1. v \in Classify(media["game"][l])
    BY <1>1 DEF Verdicts
  <2>2. CASE media["game"][l] = "good"
    <3>1. v = [hashed |-> TRUE, status |-> "verified"]
      BY <2>1, <2>2 DEF Classify
    <3> QED
      BY <1>1, <3>1 DEF Statuses
  <2>3. CASE media["game"][l] = "changed"
    <3>1. v \in [hashed : {TRUE}, status : {"not_in_index", "mismatch", "caution"}]
      BY <2>1, <2>3 DEF Classify
    <3>2. v.hashed /\ v.hashed \in BOOLEAN
      BY <3>1
    <3>3. v.status \in Statuses
      BY <3>1 DEF Statuses
    <3> QED
      BY <1>1, <3>2, <3>3
  <2>4. CASE media["game"][l] \notin {"good", "changed"}
    <3>1. v = [hashed |-> FALSE, status |-> "unchecked"]
      BY <2>1, <2>4 DEF Classify, Files
    <3> QED
      BY <3>1 DEF Statuses
  <2> QED
    BY <2>2, <2>3, <2>4
<1>2. CASE ~leaf["game"][l].hashed
  <2>1. v \in {[hashed |-> FALSE, status |-> "unchecked"], [hashed |-> TRUE, status |-> "not_in_index"]}
    BY <1>2 DEF Verdicts
  <2>2. CASE v = [hashed |-> FALSE, status |-> "unchecked"]
    BY <2>2 DEF Statuses
  <2>3. CASE v = [hashed |-> TRUE, status |-> "not_in_index"]
    BY <2>3 DEF Statuses
  <2> QED
    BY <2>1, <2>2, <2>3
<1> QED
  BY <1>1, <1>2

\* What a check of some leaves does to each leaf.
LEMMA ReverifyIs ==
    ASSUME CatalogInv, NEW b \in Bundles, NEW which \in SUBSET Leaves, Reverify(b, which)
    PROVE  /\ UNCHANGED <<bundle, media, environment, patch, mixed, cut>>
           /\ leaf' \in [Kinds -> [Leaves -> LeafRows]]
           /\ leaf'["app"] = leaf["app"]
           /\ \A l \in Leaves :
                /\ leaf'["game"][l].of = leaf["game"][l].of
                /\ leaf'["game"][l].disc = leaf["game"][l].disc
                /\ leaf["game"][l] = NoLeaf => leaf'["game"][l] = NoLeaf
                /\ \/ leaf'["game"][l] = leaf["game"][l]
                   \/ leaf'["game"][l].status \in {"verified", "caution", "mismatch"} =>
                        leaf'["game"][l].hashed /\ leaf["game"][l].hashed
<1>1. PICK verdict :
        /\ verdict \in [which -> [hashed : BOOLEAN, status : Statuses]]
        /\ \A l \in which : verdict[l] \in Verdicts(l)
        /\ leaf' = [leaf EXCEPT !["game"] = [l \in Leaves |->
                IF l \in which THEN [leaf["game"][l] EXCEPT !.hashed = verdict[l].hashed,
                                                            !.status = verdict[l].status]
                ELSE leaf["game"][l]]]
  BY DEF Reverify
<1>2. /\ Shape /\ LeavesKnown /\ "game" \in Kinds /\ "app" \in Kinds /\ which \subseteq LeavesOf(b)
      /\ b \in Games /\ UNCHANGED <<bundle, media, environment, patch, mixed, cut>>
  BY DEF Reverify, CatalogInv, Kinds
<1>3. leaf'["game"] = [l \in Leaves |->
                IF l \in which THEN [leaf["game"][l] EXCEPT !.hashed = verdict[l].hashed,
                                                            !.status = verdict[l].status]
                ELSE leaf["game"][l]]
  BY <1>1, <1>2 DEF Shape
<1>4. ASSUME NEW l \in which
      PROVE  /\ leaf'["game"][l] \in LeafRows
             /\ leaf'["game"][l].of = leaf["game"][l].of
             /\ leaf'["game"][l].disc = leaf["game"][l].disc
             /\ leaf["game"][l] # NoLeaf
             /\ leaf'["game"][l].status \in {"verified", "caution", "mismatch"} =>
                    leaf'["game"][l].hashed /\ leaf["game"][l].hashed
  <2>1. PICK was \in LeafRows : was = leaf["game"][l]
    BY <1>2 DEF Shape
  <2>2. PICK v : v = verdict[l] /\ v \in Verdicts(l)
    BY <1>1
  <2>3. media["game"][l] \in Files
    BY <1>2 DEF Shape
  <2>4. /\ v.hashed \in BOOLEAN /\ v.status \in Statuses
        /\ v.status \in {"verified", "caution", "mismatch"} => v.hashed /\ was.hashed
    BY <2>1, <2>2, <2>3, VerdictsAre
  <2>5. PICK h \in BOOLEAN, s \in Statuses : h = v.hashed /\ s = v.status
    BY <2>4
  <2>6. PICK is : is = [was EXCEPT !.hashed = h, !.status = s]
    OBVIOUS
  <2>7. is = leaf'["game"][l]
    BY <1>3, <2>1, <2>2, <2>5, <2>6
  <2>8. /\ is \in LeafRows /\ is.of = was.of /\ is.disc = was.disc /\ is.status = s
        /\ is.hashed = h
    BY <2>6 DEF LeafRows
  <2>9. was # NoLeaf
    <3>1. KindOf(b) = "game"
      BY <1>2, ListedIs
    <3>2. was.of = b
      BY <1>2, <2>1, <3>1 DEF LeavesOf
    <3> QED
      BY <3>2, CatalogAssumption DEF NoLeaf
  <2> QED
    BY <2>1, <2>4, <2>5, <2>7, <2>8, <2>9
<1>5. \A l \in Leaves \ which : leaf'["game"][l] = leaf["game"][l]
  BY <1>3
<1>6. leaf' \in [Kinds -> [Leaves -> LeafRows]]
  <2>1. leaf'["game"] \in [Leaves -> LeafRows]
    <3>1. \A l \in Leaves : leaf'["game"][l] \in LeafRows
      <4>1. \A l \in Leaves \ which : leaf'["game"][l] \in LeafRows
        BY <1>2, <1>5 DEF Shape
      <4> QED
        BY <1>4, <4>1
    <3>2. leaf'["game"] = [l \in Leaves |-> leaf'["game"][l]]
      BY <1>3
    <3> QED
      BY <3>1, <3>2
  <2>2. leaf' = [leaf EXCEPT !["game"] = leaf'["game"]]
    BY <1>1, <1>2, <1>3 DEF Shape
  <2> QED
    BY <1>2, <2>1, <2>2 DEF Shape
<1>7. leaf'["app"] = leaf["app"]
  BY <1>1, <1>2 DEF Shape
<1> QED
  BY <1>2, <1>4, <1>5, <1>6, <1>7

LEMMA ReverifyKeeps ==
    ASSUME CatalogInv, NEW b \in Bundles, NEW which \in SUBSET Leaves, Reverify(b, which)
    PROVE  CatalogInv'
<1>1. Shape /\ LeavesKnown
  BY DEF CatalogInv
<1>2. /\ UNCHANGED <<bundle, media, environment, patch, mixed, cut>>
      /\ leaf' \in [Kinds -> [Leaves -> LeafRows]]
      /\ leaf'["app"] = leaf["app"]
      /\ \A l \in Leaves :
            /\ leaf'["game"][l].of = leaf["game"][l].of
            /\ leaf'["game"][l].disc = leaf["game"][l].disc
            /\ leaf["game"][l] = NoLeaf => leaf'["game"][l] = NoLeaf
            /\ \/ leaf'["game"][l] = leaf["game"][l]
               \/ leaf'["game"][l].status \in {"verified", "caution", "mismatch"} =>
                    leaf'["game"][l].hashed /\ leaf["game"][l].hashed
  BY ReverifyIs
<1>3. Listed' = Listed /\ There' = There
  BY <1>2 DEF Listed, There
<1>4. \A k \in Kinds, l \in Leaves : /\ leaf'[k][l].of = leaf[k][l].of
                                     /\ leaf'[k][l] # NoLeaf => leaf[k][l] # NoLeaf
  BY <1>2 DEF Kinds
<1>5. \A c \in Listed : Undisturbed(c)
  <2>1. ASSUME NEW c \in Listed
        PROVE  LeavesOf(c)' = LeavesOf(c) /\ LeavesOf(c) \subseteq Leaves
    BY <1>1, <1>4, ListedIs DEF LeavesOf
  <2> QED
    BY <1>2, <2>1 DEF Undisturbed
<1>6. Shape'
  <2>1. IsFiniteSet(There)'
    BY <1>1, <1>3 DEF Shape
  <2> QED
    BY <1>1, <1>2, <2>1 DEF Shape, PatchTyped, Over
<1>7. RowsAgree' /\ DiscsAgree'
  BY <1>2, <1>3, <1>5, BundlesStay
<1>8. PatchesAgree'
  <2>1. \A r \in Patchers : PatchAgrees(r)'
    BY <1>2, <1>3, <1>5, PatchStays
  <2> QED
    BY <2>1, PatchesAgreeNext
<1>9. LeavesKnown'
  <2>1. ASSUME NEW k \in Kinds, NEW l \in Leaves, leaf'[k][l] # NoLeaf
        PROVE  leaf'[k][l].of \in Listed' /\ KindOf(leaf'[k][l].of) = k
    BY <1>1, <1>3, <1>4, <2>1 DEF LeavesKnown
  <2> QED
    BY <2>1 DEF LeavesKnown, KindOf
<1>10. EnvironmentsKnown'
  BY <1>2, <1>3 DEF EnvironmentsKnown, CatalogInv
<1>11. PatchesKeepOff'
  <2>1. \A r \in Patchers : DOMAIN patch[r].discs \subseteq Leaves
    BY <1>1, NoPatchIs DEF Shape, PatchTyped
  <2> QED
    BY <1>2, <2>1 DEF PatchesKeepOff, CatalogInv
<1>12. HashedFirst'
  BY <1>2 DEF HashedFirst, CatalogInv
<1> QED
  BY <1>6, <1>7, <1>8, <1>9, <1>10, <1>11, <1>12 DEF CatalogInv

\* A row that has lost its environment is as right as it was.
LEMMA AgreesWithout ==
    ASSUME NEW c, NEW was, NEW is, Agrees(c, was),
           is.pc = was.pc, is.era = was.era, is.launch = was.launch, is.display = was.display,
           is.env \in {was.env, Nil}
    PROVE  Agrees(c, is)
BY DEF Agrees, MayBind

LEMMA EnvironmentKeeps ==
    ASSUME CatalogInv, NEW e \in Environments,
           environment' \in [Environments -> FullEnvironments \cup {NoEnvironment}],
           There' = There \cup {e},
           UNCHANGED <<bundle, leaf, media, patch, mixed, cut>>
    PROVE  CatalogInv'
<1>1. Shape /\ Listed' = Listed
  BY DEF Listed, CatalogInv
<1>2. Shape'
  <2>1. IsFiniteSet(There)'
    BY <1>1, FS_AddElement DEF Shape
  <2> QED
    BY <1>1, <2>1 DEF Shape, PatchTyped, Over
<1>3. \A c \in Listed : Undisturbed(c)
  BY DEF Undisturbed, LeavesOf
<1>4. RowsAgree' /\ DiscsAgree'
  BY <1>1, <1>3, BundlesStay
<1>5. PatchesAgree'
  <2>1. \A r \in Patchers : PatchAgrees(r)'
    BY <1>1, <1>3, PatchStays
  <2> QED
    BY <2>1, PatchesAgreeNext
<1>6. LeavesKnown' /\ EnvironmentsKnown' /\ PatchesKeepOff' /\ HashedFirst'
  BY <1>1 DEF LeavesKnown, EnvironmentsKnown, PatchesKeepOff, HashedFirst, CatalogInv, KindOf
<1> QED
  BY <1>2, <1>4, <1>5, <1>6 DEF CatalogInv

\* Environments that are made or changed.
LEMMA NewEnvironmentKeeps ==
    ASSUME CatalogInv, NEW e \in Environments, NEW era \in Eras, NEW system \in BOOLEAN, NEW image \in BOOLEAN,
           NewEnvironment(e, era, system, image)
    PROVE  CatalogInv'
<1>1. PICK done \in BOOLEAN : done = (image /\ ~system)
  BY Zenon
<1>2. PICK row : row = [era |-> era, system |-> system, image |-> image, installed |-> done]
  OBVIOUS
<1>3. row \in FullEnvironments /\ row # NoEnvironment
  <2>1. row.era = era /\ NoEnvironment.era = Nil
    BY <1>2 DEF NoEnvironment
  <2> QED
    BY <1>2, <2>1, CatalogAssumption DEF FullEnvironments
<1>4. environment' = [environment EXCEPT ![e] = row] /\ UNCHANGED <<bundle, leaf, media, patch, mixed, cut>>
  BY <1>1, <1>2 DEF NewEnvironment
<1>5. environment' \in [Environments -> FullEnvironments \cup {NoEnvironment}]
  BY <1>3, <1>4 DEF CatalogInv, Shape
<1>6. There' = There \cup {e}
  BY <1>3, <1>4 DEF There, CatalogInv, Shape
<1> QED
  BY <1>4, <1>5, <1>6, EnvironmentKeeps

LEMMA EditEnvironmentKeeps ==
    ASSUME CatalogInv, NEW e \in Environments, NEW row \in FullEnvironments, EditEnvironment(e, row)
    PROVE  CatalogInv'
<1>1. /\ environment' = [environment EXCEPT ![e] = row]
      /\ UNCHANGED <<bundle, leaf, media, patch, mixed, cut>>
  BY DEF EditEnvironment
<1>2. row # NoEnvironment
  <2>1. NoEnvironment.era = Nil
    BY DEF NoEnvironment
  <2> QED
    BY <2>1, CatalogAssumption DEF FullEnvironments
<1>3. environment' \in [Environments -> FullEnvironments \cup {NoEnvironment}]
  BY <1>1 DEF CatalogInv, Shape
<1>4. There' = There \cup {e}
  BY <1>1, <1>2 DEF There, CatalogInv, Shape
<1> QED
  BY <1>1, <1>3, <1>4, EnvironmentKeeps

LEMMA DropEnvironmentKeeps ==
    ASSUME CatalogInv, NEW e \in Environments, DropEnvironment(e)
    PROVE  CatalogInv'
<1>1. /\ environment' = [environment EXCEPT ![e] = NoEnvironment]
      /\ bundle' = [b \in Bundles |-> IF bundle[b].env = e THEN [bundle[b] EXCEPT !.env = Nil] ELSE bundle[b]]
      /\ UNCHANGED <<leaf, media, patch, mixed, cut>>
      /\ Shape /\ e # Nil
  BY CatalogAssumption DEF DropEnvironment, CatalogInv
<1>2. There' = There \ {e}
  BY <1>1 DEF There, Shape
<1>3. ASSUME NEW b \in Bundles, NEW was, was = bundle[b], NEW is, is = bundle'[b]
      PROVE  /\ was = NoBundle => is = NoBundle
             /\ was \in FullRows =>
                  /\ is \in FullRows
                  /\ is.era = was.era /\ is.pc = was.pc /\ is.launch = was.launch /\ is.display = was.display
                  /\ is.env = IF was.env = e THEN Nil ELSE was.env
                  /\ \A c \in Columns : is[c] = IF c = "env" /\ was.env = e THEN Nil ELSE was[c]
  <2>1. is = IF was.env = e THEN [was EXCEPT !.env = Nil] ELSE was
    BY <1>1, <1>3
  <2>2. was = NoBundle => is = NoBundle
    BY <1>1, <2>1 DEF NoBundle
  <2>3. ASSUME was \in FullRows
        PROVE  /\ is \in FullRows
               /\ is.era = was.era /\ is.pc = was.pc /\ is.launch = was.launch /\ is.display = was.display
               /\ is.env = IF was.env = e THEN Nil ELSE was.env
               /\ \A c \in Columns : is[c] = IF c = "env" /\ was.env = e THEN Nil ELSE was[c]
    <3>1. CASE was.env = e
      <4>1. is = [was EXCEPT !.env = Nil]
        BY <2>1, <3>1
      <4>2. /\ is \in FullRows /\ is.era = was.era /\ is.pc = was.pc /\ is.launch = was.launch
            /\ is.display = was.display /\ is.profile = was.profile /\ is.env = Nil
        BY <2>3, <4>1 DEF FullRows
      <4> QED
        BY <3>1, <4>2 DEF Columns
    <3>2. CASE was.env # e
      BY <2>1, <2>3, <3>2
    <3> QED
      BY <3>1, <3>2
  <2> QED
    BY <2>2, <2>3
<1>4. bundle' \in [Bundles -> FullRows \cup {NoBundle}]
  <2>1. \A b \in Bundles : bundle'[b] \in FullRows \cup {NoBundle}
    BY <1>1, <1>3 DEF Shape
  <2> QED
    BY <1>1, <2>1
<1>5. Listed' = Listed
  <2>1. \A b \in Bundles : bundle'[b] = NoBundle <=> bundle[b] = NoBundle
    BY <1>1, <1>3, ColumnsAre DEF Shape
  <2> QED
    BY <2>1 DEF Listed
<1>6. \A c : LeavesOf(c)' = LeavesOf(c)
  BY <1>1 DEF LeavesOf
<1>7. ASSUME NEW c, NEW was, Agrees(c, was)
      PROVE  Agrees(c, was)'
  BY <1>1, <1>6, <1>7 DEF Agrees, MayBind, IsPc
<1>8. Shape'
  <2>1. IsFiniteSet(There)'
    BY <1>1, <1>2, FS_RemoveElement DEF Shape
  <2>2. environment' \in [Environments -> FullEnvironments \cup {NoEnvironment}]
    BY <1>1 DEF Shape
  <2> QED
    BY <1>1, <1>4, <2>1, <2>2 DEF Shape, PatchTyped, Over
<1>9. RowsAgree'
  <2>1. ASSUME NEW c \in Listed \ mixed
        PROVE  Agrees(c, bundle[c])'
    <3>1. PICK was, is : was = bundle[c] /\ is = bundle'[c]
      OBVIOUS
    <3>2. was \in FullRows /\ c \in Bundles
      BY <1>1, <3>1, ListedIs
    <3>3. Agrees(c, was)
      BY <3>1 DEF CatalogInv, RowsAgree
    <3>4. Agrees(c, is)
      BY <1>3, <3>1, <3>2, <3>3, AgreesWithout
    <3>5. Agrees(c, is)'
      BY <1>7, <3>4
    <3> QED
      BY <3>1, <3>5
  <2> QED
    BY <1>1, <1>5, <2>1 DEF RowsAgree
<1>10. DiscsAgree'
  BY <1>1, <1>5, <1>6 DEF DiscsAgree, CatalogInv
<1>11. PatchesAgree'
  <2>1. ASSUME NEW r \in Patchers, NEW p, p = patch[r], NEW c, c = p.bundle, c \in Listed \ mixed
        PROVE  /\ Agrees(c, Over(p.row, bundle[c]))'
               /\ c \in Games => {DiscAfter(p, l)' : l \in LeavesOf(c)'} = 1..Cardinality(LeavesOf(c)')
    <3>1. PICK was, is : was = bundle[c] /\ is = bundle'[c]
      OBVIOUS
    <3>2. was \in FullRows /\ c \in Bundles
      BY <1>1, <2>1, <3>1, ListedIs
    <3>3. is \in FullRows /\ \A x \in Columns : is[x] = IF x = "env" /\ was.env = e THEN Nil ELSE was[x]
      BY <1>3, <3>1, <3>2
    <3>4. PICK old, new : old = Over(p.row, was) /\ new = Over(p.row, is)
      OBVIOUS
    <3>5. /\ Agrees(c, old)
          /\ c \in Games => {DiscAfter(p, l) : l \in LeavesOf(c)} = 1..Cardinality(LeavesOf(c))
      BY <2>1, <3>1, <3>4 DEF CatalogInv, PatchesAgree
    <3>6. /\ old = [x \in Columns |-> IF x \in DOMAIN p.row THEN p.row[x] ELSE was[x]]
          /\ new = [x \in Columns |-> IF x \in DOMAIN p.row THEN p.row[x] ELSE is[x]]
      BY <3>2, <3>3, <3>4, OverIs
    <3>7. /\ new.pc = old.pc /\ new.era = old.era /\ new.launch = old.launch /\ new.display = old.display
          /\ new.env \in {old.env, Nil}
      BY <3>3, <3>6 DEF Columns
    <3>8. Agrees(c, new)'
      BY <1>7, <3>5, <3>7, AgreesWithout
    <3>9. Over(p.row, bundle[c])' = new
      BY <3>1, <3>4 DEF Over
    <3>10. Agrees(c, Over(p.row, bundle[c]))'
      BY <3>8, <3>9 DEF Agrees
    <3>11. \A l : DiscAfter(p, l)' = DiscAfter(p, l)
      BY <1>1 DEF DiscAfter
    <3> QED
      BY <1>6, <3>5, <3>10, <3>11
  <2> QED
    BY <1>1, <1>5, <2>1 DEF PatchesAgree
<1>12. LeavesKnown' /\ PatchesKeepOff' /\ HashedFirst'
  BY <1>1, <1>5 DEF LeavesKnown, PatchesKeepOff, HashedFirst, CatalogInv, KindOf
<1>13. EnvironmentsKnown'
  <2>1. ASSUME NEW c \in Listed
        PROVE  bundle'[c].env \in There' \cup {Nil}
    <3>1. PICK was, is : was = bundle[c] /\ is = bundle'[c]
      OBVIOUS
    <3>2. was \in FullRows /\ c \in Bundles
      BY <1>1, <3>1, ListedIs
    <3>3. is.env = IF was.env = e THEN Nil ELSE was.env
      BY <1>3, <3>1, <3>2
    <3>4. was.env \in There \cup {Nil}
      BY <3>1 DEF CatalogInv, EnvironmentsKnown
    <3> QED
      BY <1>2, <3>1, <3>3, <3>4
  <2> QED
    BY <1>5, <2>1 DEF EnvironmentsKnown
<1> QED
  BY <1>8, <1>9, <1>10, <1>11, <1>12, <1>13 DEF CatalogInv
-------------------------------------------------------------------------------
(* The theorems.                                                                 *)

LEMMA CatalogNextKeeps == CatalogInv /\ [CatalogNext]_catalogVars => CatalogInv'
<1> SUFFICES ASSUME CatalogInv, [CatalogNext]_catalogVars
             PROVE  CatalogInv'
  OBVIOUS
<1>1. ASSUME NEW b \in Bundles, NEW era \in Eras,
             \/ \E profile \in BOOLEAN, order \in Orders : CreateGame(b, era, profile, order)
             \/ \E env \in Environments \cup {Nil}, l \in Leaves : CreateApp(b, era, env, l)
      PROVE  CatalogInv'
  BY <1>1, CreateKeeps
<1>2. ASSUME NEW b \in Bundles, DeleteBundle(b)
      PROVE  CatalogInv'
  BY <1>2, DeleteBundleKeeps
<1>3. ASSUME NEW l \in Leaves, DeleteAppLeaf(l)
      PROVE  CatalogInv'
  BY <1>3, DeleteAppLeafKeeps
<1>4. ASSUME NEW r \in Patchers, CommitPatch(r)
      PROVE  CatalogInv'
  BY <1>4, CommitKeeps
<1>5. ASSUME NEW r \in Patchers, NEW b \in Bundles, NEW f \in Fields, BeginPatch(r, b, f)
      PROVE  CatalogInv'
  BY <1>5, BeginPatchKeeps
<1>6. ASSUME NEW r \in Patchers, NEW b \in Bundles, NEW order \in Orders, BeginReorder(r, b, order)
      PROVE  CatalogInv'
  BY <1>6, BeginReorderKeeps
<1>7. ASSUME NEW k \in Kinds, NEW l \in Leaves, NEW file \in {"good", "changed", "unreadable", "missing"},
             Drift(k, l, file)
      PROVE  CatalogInv'
  BY <1>7, DriftKeeps DEF Files
<1>8. ASSUME NEW b \in Bundles, NEW which \in SUBSET Leaves, Reverify(b, which)
      PROVE  CatalogInv'
  BY <1>8, ReverifyKeeps
<1>9. ASSUME NEW e \in Environments, DropEnvironment(e)
      PROVE  CatalogInv'
  BY <1>9, DropEnvironmentKeeps
<1>10. ASSUME NEW e \in Environments, NEW era \in Eras, NEW system \in BOOLEAN, NEW image \in BOOLEAN,
              NewEnvironment(e, era, system, image)
       PROVE  CatalogInv'
  BY <1>10, NewEnvironmentKeeps
<1>11. ASSUME NEW e \in Environments, NEW row, EditEnvironment(e, row),
              \/ \E era \in PcEras : row = [environment[e] EXCEPT !.era = era]
              \/ \E image \in BOOLEAN : row = [environment[e] EXCEPT !.image = image]
              \/ \E done \in BOOLEAN : row = [environment[e] EXCEPT !.installed = done]
       PROVE  CatalogInv'
  <2>1. environment[e] \in FullEnvironments
    BY <1>11 DEF EditEnvironment, There, CatalogInv, Shape
  <2>2. PcEras \subseteq Eras
    BY CatalogAssumption
  <2>3. row \in FullEnvironments
    BY <1>11, <2>1, <2>2 DEF FullEnvironments
  <2> QED
    BY <1>11, <2>3, EditEnvironmentKeeps
<1>12. CASE UNCHANGED catalogVars
  <2>1. UNCHANGED <<bundle, leaf, media, environment, patch, mixed, cut>>
    BY <1>12 DEF catalogVars
  <2>2. Shape /\ Listed' = Listed /\ There' = There
    BY <2>1 DEF CatalogInv, Listed, There
  <2>3. Shape'
    <3>1. IsFiniteSet(There)'
      BY <2>2 DEF Shape
    <3> QED
      BY <2>1, <2>2, <3>1 DEF Shape, PatchTyped, Over
  <2>4. \A c \in Listed : Undisturbed(c)
    BY <2>1 DEF Undisturbed, LeavesOf
  <2>5. RowsAgree' /\ DiscsAgree'
    BY <2>1, <2>2, <2>4, BundlesStay
  <2>6. PatchesAgree'
    <3>1. \A r \in Patchers : PatchAgrees(r)'
      BY <2>1, <2>2, <2>4, PatchStays
    <3> QED
      BY <3>1, PatchesAgreeNext
  <2>7. LeavesKnown' /\ EnvironmentsKnown' /\ PatchesKeepOff' /\ HashedFirst'
    BY <2>1, <2>2 DEF LeavesKnown, EnvironmentsKnown, PatchesKeepOff, HashedFirst, CatalogInv, KindOf
  <2> QED
    BY <2>3, <2>5, <2>6, <2>7 DEF CatalogInv
<1> QED
  BY <1>1, <1>2, <1>3, <1>4, <1>5, <1>6, <1>7, <1>8, <1>9, <1>10, <1>11, <1>12 DEF CatalogNext

LEMMA CatalogIsInv == CatalogSpec => []CatalogInv
BY InitInv, CatalogNextKeeps, PTL DEF CatalogSpec

\* Whatever is created, edited, checked and deleted, by however many requests at once,
\* every row of the catalog keeps the type of its columns (models/game.py, models/app.py).
THEOREM CatalogTypeCorrect == CatalogSpec => []CatalogTypeOK
<1>1. CatalogInv => CatalogTypeOK
  <2> SUFFICES ASSUME CatalogInv
               PROVE  CatalogTypeOK
    OBVIOUS
  <2>1. NoBundle \in Rows /\ FullRows \subseteq Rows
    BY DEF NoBundle, Rows, FullRows
  <2>2. bundle \in [Bundles -> Rows]
    BY <2>1 DEF CatalogInv, Shape
  <2>3. environment \in [Environments -> [era : Eras \cup {Nil}, system : BOOLEAN,
                                          image : BOOLEAN, installed : BOOLEAN]]
    <3>1. /\ NoEnvironment \in [era : Eras \cup {Nil}, system : BOOLEAN, image : BOOLEAN, installed : BOOLEAN]
          /\ FullEnvironments \subseteq [era : Eras \cup {Nil}, system : BOOLEAN, image : BOOLEAN, installed : BOOLEAN]
      BY DEF NoEnvironment, FullEnvironments
    <3> QED
      BY <3>1 DEF CatalogInv, Shape
  <2>4. \A r \in Patchers : patch[r].bundle \in Bundles \cup {Nil}
    BY NoPatchIs DEF CatalogInv, Shape, PatchTyped
  <2> QED
    BY <2>2, <2>3, <2>4 DEF CatalogInv, Shape, CatalogTypeOK, LeafRows, Files
<1> QED
  BY <1>1, CatalogIsInv, PTL

\* A bundle that no two edits changed at once has the type its era implies, an
\* environment only when it is a PC title, discs of its own to launch and to show, and
\* disc numbers without a gap; and no bundle names an environment that is gone
\* (service/games/items.py, service/apps/items.py).
THEOREM BundlesStayWhole == CatalogSpec => []BundlesAgree
<1>1. CatalogInv => BundlesAgree
  BY DEF CatalogInv, BundlesAgree, EnvironmentsKnown, RowsAgree, DiscsAgree, Agrees
<1> QED
  BY <1>1, CatalogIsInv, PTL

\* The page of a title, which asks for its environment alone, and the list, which asks
\* for all at once, name the same reason; and the launch names it too, when it has a
\* disc (service/utils/era_defaults.py).
THEOREM ReasonsStayAgreed == CatalogSpec => []ReasonsAgree
<1>1. CatalogInv => ReasonsAgree
  <2> SUFFICES ASSUME CatalogInv, NEW b \in Listed
               PROVE  /\ DetailReason(b) = ListReason(b)
                      /\ LaunchReason(b) \in {DetailReason(b), "no_launch_disc"}
    BY DEF ReasonsAgree
  <2>1. Lookup(bundle[b].era) = ByEra(bundle[b].era)
    BY LookupIsByEra DEF CatalogInv
  <2>2. Resolve(b) = ResolveBulk(b)
    BY <2>1 DEF Resolve, ResolveBulk
  <2>3. DetailReason(b) = ListReason(b)
    BY <2>2 DEF DetailReason, ListReason
  <2>4. PICK e : e = Resolve(b)
    OBVIOUS
  <2>5. bundle[b].pc \in BOOLEAN /\ bundle[b].profile \in BOOLEAN
    <3>1. bundle[b] \in FullRows
      BY ListedIs DEF CatalogInv
    <3> QED
      BY <3>1 DEF FullRows
  <2>6. LaunchReason(b) # "no_launch_disc" =>
           LaunchReason(b) = IF ~bundle[b].profile THEN "no_profile"
                             ELSE IF ~bundle[b].pc THEN "ready"
                             ELSE IF e # Nil /\ environment[e].era # bundle[b].era
                                  THEN "environment_era_mismatch"
                             ELSE Readiness(b, e)
    BY <2>4 DEF LaunchReason
  <2>7. CASE ~bundle[b].profile \/ ~bundle[b].pc
    <3>1. PICK x : x = IF bundle[b].pc THEN Resolve(b) ELSE Nil
      OBVIOUS
    <3>2. DetailReason(b) = Readiness(b, x)
      BY <3>1 DEF DetailReason
    <3>3. Readiness(b, x) = IF ~bundle[b].profile THEN "no_profile" ELSE "ready"
      BY <2>7 DEF Readiness
    <3> QED
      BY <2>3, <2>6, <2>7, <3>2, <3>3
  <2>8. CASE bundle[b].profile /\ bundle[b].pc
    <3>1. DetailReason(b) = Readiness(b, e)
      BY <2>4, <2>8 DEF DetailReason
    <3>2. CASE e # Nil /\ environment[e].era # bundle[b].era
      <4>1. Readiness(b, e) = "environment_era_mismatch"
        BY <2>8, <3>2 DEF Readiness
      <4> QED
        BY <2>3, <2>6, <2>8, <3>1, <3>2, <4>1
    <3>3. CASE ~(e # Nil /\ environment[e].era # bundle[b].era)
      BY <2>3, <2>6, <2>8, <3>1, <3>3
    <3> QED
      BY <3>2, <3>3
  <2> QED
    BY <2>3, <2>5, <2>7, <2>8
<1> QED
  BY <1>1, CatalogIsInv, PTL

\* A game whose worst leaf is verified has no other.
LEMMA WorstIs ==
    ASSUME CatalogInv, NEW b \in Games, Worst(b) = "verified", NEW l \in Leaves, leaf["game"][l].of = b
    PROVE  leaf["game"][l].status = "verified"
<1>1. PICK severity : severity = [s \in Statuses |-> CASE s = "verified" -> 0 [] s = "not_in_index" -> 1
                         [] s = "unchecked" -> 2 [] s = "mismatch" -> 3 [] OTHER -> 4]
  OBVIOUS
<1>2. /\ \A s \in Statuses : severity[s] \in 0..4
      /\ severity["verified"] = 0 /\ \A s \in Statuses : severity[s] = 0 => s = "verified"
  BY <1>1 DEF Statuses
<1>3. PICK found : found = {leaf["game"][x].status : x \in LeavesOf(b)}
  OBVIOUS
<1>4. LeavesOf(b) \subseteq Leaves /\ l \in LeavesOf(b)
  BY ListedIs DEF LeavesOf, CatalogInv, Bundles
<1>5. found \subseteq Statuses /\ leaf["game"][l].status \in found
  BY <1>3, <1>4 DEF CatalogInv, Shape, LeafRows, Kinds
<1>6. \E s \in found : \A t \in found : severity[t] <= severity[s]
  <2>1. PICK T : T = {4 - severity[s] : s \in found}
    OBVIOUS
  <2>2. T \in SUBSET Nat /\ T # {}
    BY <1>2, <1>5, <2>1
  <2>3. PICK m \in T : \A n \in T : m <= n
    BY <2>2, LeastNat, Zenon
  <2>4. PICK s \in found : m = 4 - severity[s]
    BY <2>1, <2>3
  <2>5. \A t \in found : 4 - severity[s] <= 4 - severity[t]
    BY <2>1, <2>3, <2>4
  <2>6. \A t \in found : severity[t] \in 0..4
    BY <1>2, <1>5
  <2> QED
    BY <2>5, <2>6
<1>7. Worst(b) = CHOOSE s \in found : \A t \in found : severity[t] <= severity[s]
  BY <1>1, <1>3 DEF Worst
<1>8. \A t \in found : severity[t] <= severity["verified"]
  BY <1>6, <1>7
<1>9. severity[leaf["game"][l].status] = 0
  BY <1>2, <1>5, <1>8
<1> QED
  BY <1>2, <1>5, <1>9

LEMMA WorstNow ==
    CatalogInv => \A b \in Games : Worst(b) = "verified" =>
        \A l \in Leaves : leaf["game"][l].of = b => leaf["game"][l].status = "verified"
BY WorstIs

LEMMA WorstNext ==
    CatalogInv' => (\A b \in Games : Worst(b) = "verified" =>
        \A l \in Leaves : leaf["game"][l].of = b => leaf["game"][l].status = "verified")'
BY WorstNow, PTL

LEMMA InsertTouches ==
    ASSUME CatalogInv, NEW b \in Bundles, NEW era, NEW env, NEW profile, NEW order, NEW verdict,
           Insert_(b, era, env, profile, order, verdict), NEW l \in Leaves
    PROVE  leaf'["game"][l] = leaf["game"][l] \/ leaf'["game"][l].of # leaf["game"][l].of
<1>1. PICK n, K : n = Cardinality(DOMAIN order) /\ K = KindOf(b)
  OBVIOUS
<1>2. /\ \A i \in 1..n : leaf[K][order[i]] = NoLeaf
      /\ leaf' = [leaf EXCEPT ![K] = [x \in Leaves |->
                IF \E i \in 1..n : order[i] = x
                THEN [of |-> b, disc |-> CHOOSE i \in 1..n : order[i] = x,
                      hashed |-> verdict.hashed, status |-> verdict.status]
                ELSE leaf[K][x]]]
  BY <1>1 DEF Insert_
<1>3. Shape /\ K \in Kinds /\ "game" \in Kinds /\ NoLeaf.of # b
  BY <1>1, ListedIs, CatalogAssumption DEF CatalogInv, Kinds, NoLeaf
<1>4. CASE K = "game" /\ \E i \in 1..n : order[i] = l
  <2>1. leaf["game"][l] = NoLeaf
    BY <1>2, <1>4
  <2>2. leaf'["game"][l] = [of |-> b, disc |-> CHOOSE i \in 1..n : order[i] = l,
                            hashed |-> verdict.hashed, status |-> verdict.status]
    BY <1>2, <1>3, <1>4 DEF Shape
  <2> QED
    BY <1>3, <2>1, <2>2
<1>5. CASE ~(K = "game" /\ \E i \in 1..n : order[i] = l)
  BY <1>2, <1>3, <1>5 DEF Shape
<1> QED
  BY <1>4, <1>5

\* What a step may do to the status of a game's disc.
LEMMA StatusSteps ==
    ASSUME CatalogInv, [CatalogNext]_catalogVars, NEW l \in Leaves,
           leaf'["game"][l].status \in {"verified", "caution", "mismatch"},
           leaf'["game"][l].of = leaf["game"][l].of, leaf'["game"][l].status # leaf["game"][l].status
    PROVE  leaf["game"][l].hashed
<1>1. ASSUME NEW b \in Bundles, NEW era \in Eras,
             \/ \E profile \in BOOLEAN, order \in Orders : CreateGame(b, era, profile, order)
             \/ \E env \in Environments \cup {Nil}, x \in Leaves : CreateApp(b, era, env, x)
      PROVE  FALSE
  <2>1. PICK env, profile, order, verdict : Insert_(b, era, env, profile, order, verdict)
    BY <1>1 DEF CreateGame, CreateApp
  <2> QED
    BY <2>1, InsertTouches
<1>2. ASSUME NEW b \in Bundles, DeleteBundle(b)
      PROVE  FALSE
  <2>1. leaf'["game"][l] \in {NoLeaf, leaf["game"][l]}
    BY <1>2, ListedIs DEF DeleteBundle, CatalogInv, Shape, Kinds
  <2>2. NoLeaf.status = "unchecked"
    BY DEF NoLeaf
  <2> QED
    BY <2>1, <2>2
<1>3. ASSUME NEW x \in Leaves, DeleteAppLeaf(x)
      PROVE  FALSE
  BY <1>3 DEF DeleteAppLeaf, CatalogInv, Shape, Kinds
<1>4. ASSUME NEW r \in Patchers, CommitPatch(r)
      PROVE  FALSE
  <2>1. CASE Applies(patch[r])
    <3>1. leaf' = [leaf EXCEPT !["game"] = [x \in Leaves |->
                    IF x \in DOMAIN patch[r].discs THEN [leaf["game"][x] EXCEPT !.disc = patch[r].discs[x]]
                                            ELSE leaf["game"][x]]]
      BY <1>4, <2>1 DEF CommitPatch
    <3>2. PICK was \in LeafRows : was = leaf["game"][l]
      BY DEF CatalogInv, Shape, Kinds
    <3>3. leaf'["game"][l] \in {was, [was EXCEPT !.disc = patch[r].discs[l]]}
      BY <3>1, <3>2 DEF CatalogInv, Shape, Kinds
    <3> QED
      BY <3>2, <3>3 DEF LeafRows
  <2>2. CASE ~Applies(patch[r])
    BY <1>4, <2>2 DEF CommitPatch
  <2> QED
    BY <2>1, <2>2
<1>5. ASSUME NEW b \in Bundles, NEW which \in SUBSET Leaves, Reverify(b, which)
      PROVE  leaf["game"][l].hashed
  BY <1>5, ReverifyIs
<1>6. ASSUME UNCHANGED leaf
      PROVE  FALSE
  BY <1>6
<1>7. \/ UNCHANGED leaf
      \/ \E b \in Bundles, era \in Eras :
            \/ \E profile \in BOOLEAN, order \in Orders : CreateGame(b, era, profile, order)
            \/ \E env \in Environments \cup {Nil}, x \in Leaves : CreateApp(b, era, env, x)
      \/ \E b \in Bundles : DeleteBundle(b)
      \/ \E x \in Leaves : DeleteAppLeaf(x)
      \/ \E r \in Patchers : CommitPatch(r)
      \/ \E b \in Bundles, which \in SUBSET Leaves : Reverify(b, which)
  BY DEF CatalogNext, catalogVars, BeginPatch, BeginReorder, Drift, DropEnvironment, NewEnvironment,
         EditEnvironment
<1> QED
  BY <1>1, <1>2, <1>3, <1>4, <1>5, <1>6, <1>7

\* A disc is called verified, caution or mismatch only if its file was hashed, and never
\* of a check that only now computes one; and a game is called verified when all of its
\* discs are (service/games/items.py).
THEOREM VerdictsStayEarned == CatalogSpec => VerdictsAreEarned
<1>1. CatalogInv /\ CatalogInv' /\ [CatalogNext]_catalogVars =>
         [/\ \A l \in Leaves :
              LET was == leaf["game"][l]
                  is == leaf'["game"][l]
              IN  is.status \in {"verified", "caution", "mismatch"} =>
                      is.hashed /\ (was.of = is.of /\ was.status # is.status => was.hashed)
          /\ \A b \in Games : bundle'[b] # NoBundle /\ Worst(b)' = "verified" =>
              \A l \in Leaves : leaf'["game"][l].of = b => leaf'["game"][l].status = "verified"]_catalogVars
  <2> SUFFICES ASSUME CatalogInv, CatalogInv', [CatalogNext]_catalogVars
               PROVE  /\ \A l \in Leaves :
                            leaf'["game"][l].status \in {"verified", "caution", "mismatch"} =>
                              /\ leaf'["game"][l].hashed
                              /\ leaf["game"][l].of = leaf'["game"][l].of
                                 /\ leaf["game"][l].status # leaf'["game"][l].status => leaf["game"][l].hashed
                      /\ \A b \in Games : bundle'[b] # NoBundle /\ Worst(b)' = "verified" =>
                           \A l \in Leaves : leaf'["game"][l].of = b => leaf'["game"][l].status = "verified"
    OBVIOUS
  <2>1. \A l \in Leaves : leaf'["game"][l].status \in {"verified", "caution", "mismatch"} => leaf'["game"][l].hashed
    BY DEF CatalogInv, HashedFirst
  <2>2. \A l \in Leaves : leaf'["game"][l].status \in {"verified", "caution", "mismatch"}
            /\ leaf["game"][l].of = leaf'["game"][l].of /\ leaf["game"][l].status # leaf'["game"][l].status
            => leaf["game"][l].hashed
    BY StatusSteps
  <2>3. \A b \in Games : Worst(b)' = "verified" =>
            \A l \in Leaves : leaf'["game"][l].of = b => leaf'["game"][l].status = "verified"
    BY WorstNext
  <2> QED
    BY <2>1, <2>2, <2>3
<1> QED
  BY <1>1, CatalogIsInv, PTL DEF CatalogSpec, VerdictsAreEarned

-------------------------------------------------------------------------------
(* Environments: what they are made of, and the disks they work on.             *)

MRows == [era : Eras_, label : Labels \cup {Unset}, work : Paths \cup {Unset}, base : Paths \cup {Unset}]

Jobs == [kind : {"none", "create", "launch", "delete"}, on : Machines \cup {Unset}, row : MRows,
         path : Paths \cup {Unset}, wrote : BOOLEAN]

\* A request that provisions writes at the path of the slug it has read.
Sound(j) ==
    /\ j.kind \in {"create", "launch"} =>
            j.on \in Machines /\ j.row.label \in Labels /\ j.path = Vm(j.row.label)
    /\ j.kind = "delete" => j.on \in Machines
    /\ j.wrote => j.kind \in {"create", "launch"}

Typed ==
    /\ machine \in [Machines -> MRows]
    /\ disk \in [Paths -> Contents]
    /\ worker \in [Workers -> Jobs]
    /\ \A w \in Workers : Sound(worker[w])
    /\ handed \subseteq Paths /\ rushed \subseteq Paths
    /\ renamed \subseteq Labels /\ cleared \subseteq Machines
    /\ \A e \in Machines : machine[e].label = Unset => machine[e] = Bare

LabelsDiffer ==
    \A d, e \in Machines : machine[d].label = machine[e].label /\ machine[d].label # Unset => d = e

\* An image of the user's is only reached by who was handed it.
OwnImagesKept ==
    \A p \in OwnImages \ handed :
        /\ disk[p] = "os"
        /\ \A e \in Machines : machine[e].work # p
        /\ \A w \in Workers : worker[w].path # p

MadeOrMaking ==
    \A e \in Standing \ cleared :
        machine[e].work # Unset \/ \E w \in Workers : worker[w].kind = "create" /\ worker[w].on = e

\* A file that is about to go is nobody else's.
DeletesAlone ==
    \A w \in Workers :
        worker[w].kind = "delete" /\ worker[w].path # Unset /\ worker[w].path \notin rushed =>
            \A e \in Machines : machine[e].work = worker[w].path => e = worker[w].on

\* A disk that was provisioned is its slug's, until the slug or the disk is given away.
DisksNamed ==
    \A e \in Machines, l \in Labels :
        machine[e].work = Vm(l) /\ Vm(l) \notin handed \cup rushed /\ l \notin renamed =>
            machine[e].label = l

\* Nobody works on a disk that is still to be written.
WritesAlone ==
    \A w \in Workers :
        /\ worker[w].kind \in {"create", "launch"}
        /\ worker[w].path \notin handed \cup rushed /\ worker[w].row.label \notin renamed
        => \A e \in Machines : machine[e].work # worker[w].path

MachinesInv ==
    /\ Typed /\ LabelsDiffer /\ OwnImagesKept /\ MadeOrMaking
    /\ DeletesAlone /\ DisksNamed /\ WritesAlone

-------------------------------------------------------------------------------
(* Lemmas about the operators.                                                   *)

\* A slug has a path of its own, which is none of the user's.
LEMMA VmIs ==
    /\ \A l \in Labels : Vm(l) \in Paths /\ Vm(l) # Unset /\ Vm(l) \notin OwnImages
    /\ \A k, l \in Labels : Vm(k) = Vm(l) => k = l
    /\ \A l \in Labels : l # Unset
    /\ OwnImages \subseteq Paths /\ Unset \notin Paths
BY MachinesAssumption DEF Vm, Paths

\* A row before there is an environment, and a worker that serves no request.
LEMMA BareIs ==
    /\ Bare \in MRows /\ Bare.label = Unset /\ Bare.work = Unset
    /\ Waiting \in Jobs /\ Sound(Waiting) /\ Waiting.kind = "none" /\ Waiting.path = Unset
    /\ Waiting.row = Bare /\ ~Waiting.wrote
BY DEF Bare, MRows, Waiting, Jobs, Sound, Eras_

\* One row changes.
LEMMA OneMachine ==
    ASSUME Typed, NEW e \in Machines, NEW n \in MRows, machine' = [machine EXCEPT ![e] = n]
    PROVE  /\ machine' \in [Machines -> MRows]
           /\ machine'[e] = n /\ \A d \in Machines \ {e} : machine'[d] = machine[d]
BY DEF Typed

\* One request goes on.
LEMMA OneWorker ==
    ASSUME Typed, NEW w \in Workers, NEW j \in Jobs, Sound(j), worker' = [worker EXCEPT ![w] = j]
    PROVE  /\ worker' \in [Workers -> Jobs] /\ \A v \in Workers : Sound(worker'[v])
           /\ worker'[w] = j /\ \A v \in Workers \ {w} : worker'[v] = worker[v]
BY DEF Typed

\* Who is busy with a path, when somebody takes it.
LEMMA RushedIs ==
    ASSUME NEW p, p # Unset, NEW w \in Workers, worker[w].path = p
    PROVE  Rushed(p) = {p}
BY DEF Rushed, Busy
-------------------------------------------------------------------------------
(* The actions that change a row and no request.                                 *)

\* A row that is made or edited: its disk is the one it had, or one that was handed.
LEMMA KeepsEdit ==
    ASSUME MachinesInv, NEW e \in Machines, NEW n \in MRows, n.label # Unset,
           machine' = [machine EXCEPT ![e] = n], UNCHANGED <<disk, worker>>,
           n.label = machine[e].label \/ FreeLabel(n.label),
           machine[e].label \in renamed' \cup {Unset, n.label},
           renamed \subseteq renamed', renamed' \subseteq Labels,
           handed \subseteq handed', handed' \subseteq Paths,
           rushed \subseteq rushed', rushed' \subseteq Paths,
           n.work # machine[e].work /\ n.work # Unset =>
                n.work \in handed' /\ Rushed(n.work) \subseteq rushed',
           cleared' \subseteq Machines, cleared \subseteq cleared' \cup {e},
           e \in cleared' \/ n.work # Unset
                \/ (n.work = machine[e].work /\ machine[e] # Bare /\ e \notin cleared)
    PROVE  MachinesInv'
<1> USE DEF MachinesInv
<1>1. /\ machine' \in [Machines -> MRows]
      /\ machine'[e] = n /\ \A d \in Machines \ {e} : machine'[d] = machine[d]
    BY OneMachine
<1>2. n.label \in Labels /\ n.work \in Paths \cup {Unset}
    BY DEF MRows
<1>3. \A p \in Paths, w \in Workers : worker[w].path = p => Rushed(p) = {p}
    BY RushedIs, VmIs
<1>4. Typed'
    BY <1>1 DEF Typed
<1>5. LabelsDiffer'
    BY <1>1, <1>2 DEF LabelsDiffer, FreeLabel
<1>6. OwnImagesKept'
    BY <1>1, VmIs DEF OwnImagesKept
<1>7. MadeOrMaking'
    BY <1>1, BareIs DEF MadeOrMaking, Standing
<1>8. DeletesAlone'
    BY <1>1, <1>2, <1>3 DEF DeletesAlone
<1>9. DisksNamed'
    BY <1>1, <1>2, VmIs DEF DisksNamed, Typed, Bare
<1>10. WritesAlone'
    BY <1>1, <1>2, <1>3, VmIs DEF WritesAlone, Typed, Sound
<1> QED BY <1>4, <1>5, <1>6, <1>7, <1>8, <1>9, <1>10

\* A machine made with an image of the user's has a disk at once, and it is handed out.
LEMMA KeepsCreateWith ==
    ASSUME MachinesInv, NEW e \in Machines, NEW era \in Eras_, NEW l \in Labels, NEW p \in Paths,
           CreateWith(e, era, l, p)
    PROVE  MachinesInv'
<1> DEFINE n == [era |-> era, label |-> l, work |-> p, base |-> Unset]
<1>1. n \in MRows /\ n.label = l /\ n.work = p /\ l # Unset /\ p # Unset
    BY VmIs DEF MRows
<1>2. /\ machine' = [machine EXCEPT ![e] = n] /\ UNCHANGED <<disk, worker, renamed>>
      /\ machine[e] = Bare /\ FreeLabel(l) /\ handed' = handed \cup {p}
      /\ rushed' = rushed \cup Rushed(p) /\ cleared' = cleared \ {e}
    BY DEF CreateWith, Standing
<1> HIDE DEF n
<1>3. Rushed(p) \subseteq Paths
    BY DEF Rushed
<1> QED BY <1>1, <1>2, <1>3, KeepsEdit, BareIs DEF MachinesInv, Typed

\* A PATCH of the image hands the new one out, and rushes who is busy with it.
LEMMA KeepsPatchWork ==
    ASSUME MachinesInv, NEW e \in Machines, NEW p \in Paths \cup {Unset}, PatchWork(e, p)
    PROVE  MachinesInv'
<1> DEFINE n == [machine[e] EXCEPT !.work = p]
<1>1. machine[e] \in MRows /\ machine[e].label # Unset
    BY DEF MachinesInv, Typed, PatchWork, Standing
<1>2. n \in MRows /\ n.label = machine[e].label /\ n.work = p
    BY <1>1 DEF MRows
<1>3. /\ machine' = [machine EXCEPT ![e] = n] /\ UNCHANGED <<disk, worker, renamed>>
      /\ handed' = handed \cup ({p} \ {Unset})
      /\ rushed' = rushed \cup Rushed(p) /\ cleared' = IF p = Unset THEN cleared \cup {e} ELSE cleared
    BY DEF PatchWork
<1> HIDE DEF n
<1>4. Rushed(p) \subseteq Paths
    BY DEF Rushed
<1> QED BY <1>1, <1>2, <1>3, <1>4, KeepsEdit DEF MachinesInv, Typed

\* A PATCH of the base image leaves every disk.
LEMMA KeepsPatchBase ==
    ASSUME MachinesInv, NEW e \in Machines, NEW p \in Paths \cup {Unset}, PatchBase(e, p)
    PROVE  MachinesInv'
<1> DEFINE n == [machine[e] EXCEPT !.base = p]
<1>1. machine[e] \in MRows /\ machine[e].label # Unset /\ machine[e] # Bare
    BY DEF MachinesInv, Typed, PatchBase, Standing
<1>2. n \in MRows /\ n.label = machine[e].label /\ n.work = machine[e].work
    BY <1>1 DEF MRows
<1>3. machine' = [machine EXCEPT ![e] = n] /\ UNCHANGED <<disk, worker, renamed, handed, rushed, cleared>>
    BY DEF PatchBase
<1> HIDE DEF n
<1> QED BY <1>1, <1>2, <1>3, KeepsEdit DEF MachinesInv, Typed

\* A PATCH of the label takes a free one, and gives the old one away.
LEMMA KeepsPatchLabel ==
    ASSUME MachinesInv, NEW e \in Machines, NEW l \in Labels, PatchLabel(e, l)
    PROVE  MachinesInv'
<1> DEFINE n == [machine[e] EXCEPT !.label = l]
<1>1. machine[e] \in MRows /\ machine[e].label # Unset /\ machine[e] # Bare
    BY DEF MachinesInv, Typed, PatchLabel, Standing
<1>2. n \in MRows /\ n.label = l /\ n.work = machine[e].work /\ l # Unset
    BY <1>1, VmIs DEF MRows
<1>3. /\ machine' = [machine EXCEPT ![e] = n] /\ UNCHANGED <<disk, worker, handed, rushed, cleared>>
      /\ FreeLabel(l) /\ renamed' = renamed \cup {machine[e].label} /\ machine[e].label \in Labels
    BY <1>1 DEF PatchLabel, MRows
<1> HIDE DEF n
<1> QED BY <1>1, <1>2, <1>3, KeepsEdit DEF MachinesInv, Typed

\* The user installs a system on a disk that is there.
LEMMA KeepsInstall ==
    ASSUME MachinesInv, NEW e \in Machines, Install(e)
    PROVE  MachinesInv'
<1> USE DEF MachinesInv
<1>1. /\ UNCHANGED <<machine, worker, handed, renamed, rushed, cleared>>
      /\ disk' = [disk EXCEPT ![machine[e].work] = "os"] /\ machine[e].work \in Paths
    BY DEF Install, Typed, MRows
<1>2. disk' \in [Paths -> Contents] /\ \A p \in Paths : disk'[p] \in {disk[p], "os"}
    BY <1>1 DEF Typed, Contents
<1>3. Typed'
    BY <1>1, <1>2 DEF Typed
<1>4. OwnImagesKept'
    BY <1>1, <1>2, VmIs DEF OwnImagesKept
<1> QED BY <1>1, <1>3, <1>4 DEF LabelsDiffer, MadeOrMaking, Standing, DeletesAlone, DisksNamed, WritesAlone
-------------------------------------------------------------------------------
(* The requests.                                                                 *)

\* A request that ends, or begins to provision or to delete, and a row that goes with it.
LEMMA KeepsRequest ==
    ASSUME MachinesInv, NEW w \in Workers, NEW j \in Jobs, Sound(j),
           worker' = [worker EXCEPT ![w] = j], disk' \in [Paths -> Contents],
           \A p \in OwnImages \ handed : disk'[p] = disk[p],
           \/ machine' = machine
           \/ \E e \in Machines : machine' = [machine EXCEPT ![e] = Bare],
           j.path \notin OwnImages \/ j.path \in handed,
           rushed \subseteq rushed', rushed' \subseteq Paths, UNCHANGED <<handed, renamed>>,
           cleared \subseteq cleared', cleared' \subseteq Machines,
           j.kind = "delete" /\ j.path # Unset /\ j.path \notin rushed' =>
                \A e \in Machines : machine'[e].work = j.path => e = j.on,
           j.kind \in {"create", "launch"} /\ j.path \notin handed \cup rushed' /\ j.row.label \notin renamed
                => \A e \in Machines : machine'[e].work # j.path,
           worker[w].kind = "create" =>
                \/ j.kind = "create" /\ j.on = worker[w].on
                \/ machine'[worker[w].on].work # Unset \/ machine'[worker[w].on] = Bare
    PROVE  MachinesInv'
<1> USE DEF MachinesInv
<1>1. /\ worker' \in [Workers -> Jobs] /\ \A v \in Workers : Sound(worker'[v])
      /\ worker'[w] = j /\ \A v \in Workers \ {w} : worker'[v] = worker[v]
    BY OneWorker
<1>2. /\ machine' \in [Machines -> MRows]
      /\ \A e \in Machines : machine'[e] = machine[e] \/ machine'[e] = Bare
    BY BareIs, OneMachine DEF Typed
<1>3. Typed'
    BY <1>1, <1>2 DEF Typed
<1>4. LabelsDiffer'
    BY <1>2, BareIs DEF LabelsDiffer
<1>5. OwnImagesKept'
    BY <1>1, <1>2, BareIs, VmIs DEF OwnImagesKept
<1>6. MadeOrMaking'
    BY <1>1, <1>2, BareIs DEF MadeOrMaking, Standing
<1>7. DeletesAlone'
    BY <1>1, <1>2, BareIs DEF DeletesAlone
<1>8. DisksNamed'
    BY <1>2, BareIs, VmIs DEF DisksNamed
<1>9. WritesAlone'
    BY <1>1, <1>2, BareIs, VmIs DEF WritesAlone, Sound
<1> QED BY <1>3, <1>4, <1>5, <1>6, <1>7, <1>8, <1>9

\* A launch provisions at the path of its slug, which is nobody's disk.
LEMMA KeepsLaunch ==
    ASSUME MachinesInv, NEW w \in Workers, NEW e \in Machines, Launch(w, e)
    PROVE  MachinesInv'
<1> DEFINE l == machine[e].label
           j == [Waiting EXCEPT !.kind = "launch", !.on = e, !.row = machine[e], !.path = Vm(l)]
<1>1. /\ worker[w] = Waiting /\ worker' = [worker EXCEPT ![w] = j]
      /\ UNCHANGED <<machine, disk, handed, renamed, rushed, cleared>>
      /\ machine[e] # Bare /\ machine[e].work = Unset
    BY DEF Launch, Standing
<1>2. machine[e] \in MRows /\ l \in Labels
    BY <1>1 DEF MachinesInv, Typed, MRows
<1>3. /\ j.kind = "launch" /\ j.on = e /\ j.row = machine[e] /\ j.path = Vm(l) /\ ~j.wrote
    BY DEF Waiting
<1>4. j \in Jobs /\ Sound(j)
    BY <1>2, VmIs DEF Waiting, Jobs, Sound
<1> HIDE DEF j
<1>5. Vm(l) \notin handed \cup rushed /\ l \notin renamed => \A d \in Machines : machine[d].work # Vm(l)
    BY <1>1, <1>2, VmIs DEF MachinesInv, DisksNamed, LabelsDiffer
<1>6. j.kind \in {"create", "launch"} /\ j.path \notin handed \cup rushed' /\ j.row.label \notin renamed
        => \A d \in Machines : machine'[d].work # j.path
    BY <1>1, <1>3, <1>5
<1>7. /\ j.path \notin OwnImages /\ j.kind # "delete" /\ worker[w].kind # "create"
      /\ disk' \in [Paths -> Contents] /\ rushed \subseteq rushed' /\ rushed' \subseteq Paths
      /\ cleared \subseteq cleared' /\ cleared' \subseteq Machines
    BY <1>1, <1>2, <1>3, VmIs, BareIs DEF MachinesInv, Typed
<1> QED BY <1>1, <1>4, <1>6, <1>7, KeepsRequest

\* The disk is written at the path of the slug, which is none of the user's images.
LEMMA KeepsWriteDisk ==
    ASSUME MachinesInv, NEW w \in Workers, WriteDisk(w)
    PROVE  MachinesInv'
<1> DEFINE p == worker[w].path
           j == [worker[w] EXCEPT !.wrote = TRUE]
           c == IF worker[w].row.base # Unset /\ disk[worker[w].row.base] = "os" THEN "os" ELSE "blank"
<1>1. /\ worker[w].kind \in {"create", "launch"} /\ worker' = [worker EXCEPT ![w] = j]
      /\ disk' = [disk EXCEPT ![p] = c]
      /\ UNCHANGED <<machine, handed, renamed, cleared>>
      /\ rushed' = IF Busy(p) # {w} THEN rushed \cup {p} ELSE rushed
    BY DEF WriteDisk, MachinesInv, Typed, Jobs
<1>2. worker[w] \in Jobs /\ Sound(worker[w]) /\ c \in Contents
    BY DEF MachinesInv, Typed, Contents
<1>3. p \in Paths /\ p \notin OwnImages
    BY <1>1, <1>2, VmIs DEF Sound
<1>4. /\ j.kind = worker[w].kind /\ j.on = worker[w].on /\ j.row = worker[w].row /\ j.path = p
      /\ j \in Jobs /\ Sound(j)
    BY <1>1, <1>2 DEF Jobs, Sound
<1> HIDE DEF j, c
<1>5. disk' \in [Paths -> Contents] /\ \A q \in OwnImages \ handed : disk'[q] = disk[q]
    BY <1>1, <1>2, <1>3, VmIs DEF MachinesInv, Typed
<1>6. p \notin handed \cup rushed' /\ worker[w].row.label \notin renamed => \A d \in Machines : machine[d].work # p
    BY <1>1 DEF MachinesInv, WritesAlone
<1>7. rushed \subseteq rushed' /\ rushed' \subseteq Paths
    BY <1>1, <1>3 DEF MachinesInv, Typed
<1>8. /\ machine' = machine /\ handed' = handed /\ renamed' = renamed /\ cleared' = cleared
      /\ cleared \subseteq Machines
    BY <1>1 DEF MachinesInv, Typed
<1>9. j.kind # "delete" /\ (worker[w].kind = "create" => j.kind = "create" /\ j.on = worker[w].on)
    BY <1>1, <1>4
<1> QED BY <1>1, <1>3, <1>4, <1>5, <1>6, <1>7, <1>8, <1>9, KeepsRequest

\* A provisioning that fails takes the row of a create with it.
LEMMA KeepsFailDisk ==
    ASSUME MachinesInv, NEW w \in Workers, FailDisk(w)
    PROVE  MachinesInv'
<1>1. /\ worker[w].kind \in {"create", "launch"} /\ worker' = [worker EXCEPT ![w] = Waiting]
      /\ machine' = IF worker[w].kind = "create" THEN [machine EXCEPT ![worker[w].on] = Bare] ELSE machine
      /\ UNCHANGED <<disk, handed, renamed, rushed, cleared>>
    BY DEF FailDisk, AfterFailure
<1>2. worker[w].on \in Machines
    BY <1>1 DEF MachinesInv, Typed, Sound
<1>3. worker[w].kind = "create" => machine'[worker[w].on] = Bare
    BY <1>1, <1>2 DEF MachinesInv, Typed
<1> QED BY <1>1, <1>2, <1>3, BareIs, VmIs, KeepsRequest DEF MachinesInv, Typed

\* A deletion takes the image that only its own row has.
LEMMA KeepsBeginDelete ==
    ASSUME MachinesInv, NEW w \in Workers, NEW e \in Machines, BeginDelete(w, e)
    PROVE  MachinesInv'
<1> DEFINE p == IF machine[e].work = Unset \/ StillReferenced(e) THEN Unset ELSE machine[e].work
           j == [Waiting EXCEPT !.kind = "delete", !.on = e, !.row.label = machine[e].label, !.path = p]
<1>1. /\ worker[w] = Waiting /\ worker' = [worker EXCEPT ![w] = j]
      /\ UNCHANGED <<machine, disk, handed, renamed, rushed, cleared>>
    BY DEF BeginDelete
<1>2. machine[e] \in MRows /\ p \in Paths \cup {Unset}
    BY DEF MachinesInv, Typed, MRows
<1>3. p # Unset => p = machine[e].work /\ \A d \in Machines : machine[d].work = p => d = e
    BY DEF StillReferenced
<1> HIDE DEF p
<1>4. j.kind = "delete" /\ j.on = e /\ j.path = p
    BY DEF Waiting
<1>5. j \in Jobs /\ Sound(j)
    <2>1. [Bare EXCEPT !.label = machine[e].label] \in MRows
        BY <1>2, BareIs DEF MRows
    <2> QED BY <1>2, <2>1 DEF Waiting, Jobs, Sound
<1> HIDE DEF j
<1>6. p \notin OwnImages \/ p \in handed
    BY <1>2, <1>3, VmIs DEF MachinesInv, OwnImagesKept
<1> QED BY <1>1, <1>3, <1>4, <1>5, <1>6, BareIs, KeepsRequest DEF MachinesInv, Typed

\* An image goes that no other row works on.
LEMMA KeepsUnlink ==
    ASSUME MachinesInv, NEW w \in Workers, Unlink_(w)
    PROVE  MachinesInv'
<1> DEFINE p == worker[w].path
           j == [worker[w] EXCEPT !.path = Unset]
<1>1. /\ worker[w].kind = "delete" /\ p # Unset /\ worker' = [worker EXCEPT ![w] = j]
      /\ disk' \in {disk, [disk EXCEPT ![p] = "none"]}
      /\ UNCHANGED <<machine, handed, renamed, rushed, cleared>>
    BY DEF Unlink_, MachinesInv, Typed, Jobs
<1>2. worker[w] \in Jobs /\ Sound(worker[w])
    BY DEF MachinesInv, Typed
<1>3. j.kind = "delete" /\ j.path = Unset /\ j \in Jobs /\ Sound(j)
    BY <1>1, <1>2 DEF Jobs, Sound
<1> HIDE DEF j
<1>4. disk' \in [Paths -> Contents] /\ \A q \in OwnImages \ handed : disk'[q] = disk[q]
    BY <1>1, VmIs DEF MachinesInv, OwnImagesKept, Typed, Contents
<1> QED BY <1>1, <1>3, <1>4, VmIs, KeepsRequest DEF MachinesInv, Typed

\* A row goes, and its label is free again.
LEMMA KeepsDeleteRow ==
    ASSUME MachinesInv, NEW w \in Workers, DeleteRow(w)
    PROVE  MachinesInv'
<1>1. /\ worker[w].kind = "delete" /\ worker' = [worker EXCEPT ![w] = Waiting]
      /\ machine' = [machine EXCEPT ![worker[w].on] = Bare]
      /\ UNCHANGED <<disk, handed, renamed, rushed, cleared>>
    BY DEF DeleteRow
<1>2. worker[w].on \in Machines
    BY <1>1 DEF MachinesInv, Typed, Sound
<1> QED BY <1>1, <1>2, BareIs, VmIs, KeepsRequest DEF MachinesInv, Typed

\* The slug is free, so nobody works on a disk of that name, unless it was given away.
LEMMA KeepsCreateBare ==
    ASSUME MachinesInv, NEW w \in Workers, NEW e \in Machines, NEW era \in Eras_, NEW l \in Labels,
           NEW base \in Paths \cup {Unset}, CreateBare(w, e, era, l, base)
    PROVE  MachinesInv'
<1> USE DEF MachinesInv
<1> DEFINE n == [era |-> era, label |-> l, work |-> Unset, base |-> base]
           j == [Waiting EXCEPT !.kind = "create", !.on = e, !.row = n, !.path = Vm(l)]
<1>1. /\ worker[w] = Waiting /\ machine[e] = Bare /\ FreeLabel(l)
      /\ machine' = [machine EXCEPT ![e] = n] /\ worker' = [worker EXCEPT ![w] = j]
      /\ cleared' = cleared \ {e} /\ UNCHANGED <<disk, handed, renamed, rushed>>
    BY DEF CreateBare, Standing
<1>2. n \in MRows /\ n.label = l /\ n.work = Unset
    BY DEF MRows
<1> HIDE DEF n
<1>3. j.kind = "create" /\ j.on = e /\ j.row = n /\ j.path = Vm(l) /\ ~j.wrote
    BY DEF Waiting
<1>4. j \in Jobs /\ Sound(j)
    BY <1>2, VmIs DEF Waiting, Jobs, Sound
<1> HIDE DEF j
<1>5. /\ machine' \in [Machines -> MRows]
      /\ machine'[e] = n /\ \A d \in Machines \ {e} : machine'[d] = machine[d]
    BY <1>1, <1>2, OneMachine
<1>6. /\ worker' \in [Workers -> Jobs] /\ \A v \in Workers : Sound(worker'[v])
      /\ worker'[w] = j /\ \A v \in Workers \ {w} : worker'[v] = worker[v]
    BY <1>1, <1>4, OneWorker
<1>7. Typed'
    BY <1>1, <1>2, <1>5, <1>6, VmIs DEF Typed
<1>8. LabelsDiffer'
    BY <1>1, <1>2, <1>5 DEF LabelsDiffer, FreeLabel
<1>9. OwnImagesKept'
    BY <1>1, <1>2, <1>3, <1>5, <1>6, VmIs DEF OwnImagesKept
<1>10. MadeOrMaking'
    BY <1>1, <1>3, <1>5, <1>6, BareIs DEF MadeOrMaking, Standing
<1>11. DeletesAlone'
    BY <1>1, <1>2, <1>3, <1>5, <1>6, VmIs DEF DeletesAlone
<1>12. DisksNamed'
    BY <1>1, <1>2, <1>5, VmIs DEF DisksNamed
<1>13. WritesAlone'
    <2>1. Vm(l) \notin handed \cup rushed /\ l \notin renamed => \A d \in Machines : machine[d].work # Vm(l)
        BY <1>1 DEF DisksNamed, FreeLabel
    <2> QED BY <1>1, <1>2, <1>3, <1>5, <1>6, <2>1, VmIs DEF WritesAlone, Sound
<1> QED BY <1>7, <1>8, <1>9, <1>10, <1>11, <1>12, <1>13

\* The path is committed to the row, which has the slug still, or the path is a rushed one.
LEMMA KeepsCommitDisk ==
    ASSUME MachinesInv, NEW w \in Workers, CommitDisk(w)
    PROVE  MachinesInv'
<1> USE DEF MachinesInv
<1> DEFINE e == worker[w].on
           p == worker[w].path
           n == [machine[e] EXCEPT !.work = p]
<1>1. /\ worker' = [worker EXCEPT ![w] = Waiting]
      /\ machine' = IF e \in Standing THEN [machine EXCEPT ![e] = n] ELSE machine
      /\ rushed' = IF Busy(p) # {w} \/ machine[e].label # worker[w].row.label THEN rushed \cup {p} ELSE rushed
      /\ UNCHANGED <<disk, handed, renamed, cleared>>
    BY DEF CommitDisk
<1>2. /\ e \in Machines /\ worker[w].row.label \in Labels /\ p = Vm(worker[w].row.label) /\ machine[e] \in MRows
      /\ p \in Paths /\ p # Unset /\ p \notin OwnImages
    BY VmIs DEF CommitDisk, Typed, Sound
<1>3. n \in MRows /\ n.label = machine[e].label /\ n.work = p
    BY <1>2 DEF MRows
<1> HIDE DEF n
<1>4. /\ machine' \in [Machines -> MRows]
      /\ machine'[e] = IF machine[e] # Bare THEN n ELSE Bare
      /\ \A d \in Machines \ {e} : machine'[d] = machine[d]
    BY <1>1, <1>2, <1>3, OneMachine DEF Typed, Standing
<1>5. /\ worker' \in [Workers -> Jobs] /\ \A v \in Workers : Sound(worker'[v])
      /\ worker'[w] = Waiting /\ \A v \in Workers \ {w} : worker'[v] = worker[v]
    BY <1>1, BareIs, OneWorker
<1>6. rushed \subseteq rushed' /\ rushed' \subseteq rushed \cup {p}
    BY <1>1
<1>7. \A v \in Workers \ {w} : worker[v].path = p => p \in rushed'
    BY <1>1 DEF Busy
<1>8. Typed'
    BY <1>1, <1>2, <1>3, <1>4, <1>5, <1>6 DEF Typed
<1>9. LabelsDiffer'
    BY <1>3, <1>4, BareIs DEF LabelsDiffer
<1>10. OwnImagesKept'
    BY <1>1, <1>2, <1>3, <1>4, <1>5, BareIs, VmIs DEF OwnImagesKept
<1>11. MadeOrMaking'
    BY <1>1, <1>2, <1>3, <1>4, <1>5, BareIs DEF MadeOrMaking, Standing
<1>12. DeletesAlone'
    BY <1>1, <1>3, <1>4, <1>5, <1>6, <1>7, BareIs DEF DeletesAlone
<1>13. DisksNamed'
    BY <1>1, <1>2, <1>3, <1>4, <1>6, BareIs, VmIs DEF DisksNamed
<1>14. WritesAlone'
    BY <1>1, <1>3, <1>4, <1>5, <1>6, <1>7, BareIs, VmIs DEF WritesAlone, Sound, Typed
<1> QED BY <1>8, <1>9, <1>10, <1>11, <1>12, <1>13, <1>14

\* What a crash cuts short is known to be without an image.
LEMMA KeepsCrash ==
    ASSUME MachinesInv, Crash
    PROVE  MachinesInv'
<1> USE DEF MachinesInv
<1>1. /\ worker' = [w \in Workers |-> Waiting] /\ \A w \in Workers : worker'[w] = Waiting
      /\ cleared' = cleared \cup {e \in Standing : machine[e].work = Unset}
      /\ UNCHANGED <<machine, disk, handed, renamed, rushed>>
    BY DEF Crash
<1>2. Typed'
    BY <1>1, BareIs DEF Typed, Standing
<1>3. OwnImagesKept'
    BY <1>1, BareIs, VmIs DEF OwnImagesKept
<1>4. MadeOrMaking'
    BY <1>1 DEF MadeOrMaking, Standing
<1>5. DeletesAlone' /\ WritesAlone'
    BY <1>1, BareIs DEF DeletesAlone, WritesAlone
<1> QED BY <1>1, <1>2, <1>3, <1>4, <1>5 DEF LabelsDiffer, DisksNamed
-------------------------------------------------------------------------------
(* The invariant holds, and what follows from it.                                *)

\* There are the user's images and nothing else at first.
LEMMA InvHoldsAtFirst ==
    ASSUME MachinesInit
    PROVE  MachinesInv
<1> USE DEF MachinesInit
<1>1. Typed
    BY BareIs DEF Typed, Contents
<1>2. LabelsDiffer /\ MadeOrMaking
    BY BareIs DEF LabelsDiffer, MadeOrMaking, Standing
<1>3. OwnImagesKept
    BY BareIs, VmIs DEF OwnImagesKept
<1>4. DeletesAlone /\ DisksNamed /\ WritesAlone
    BY BareIs, VmIs DEF DeletesAlone, DisksNamed, WritesAlone
<1> QED BY <1>1, <1>2, <1>3, <1>4 DEF MachinesInv

\* Every step of a request, a user or a crash keeps it.
LEMMA InvIsKept ==
    ASSUME MachinesInv, [MachinesNext]_machinesVars
    PROVE  MachinesInv'
<1>1. ASSUME NEW e \in Machines, NEW era \in Eras_, NEW l \in Labels, NEW p \in Paths, CreateWith(e, era, l, p)
      PROVE  MachinesInv'
    BY <1>1, KeepsCreateWith
<1>2. ASSUME NEW e \in Machines, NEW p \in Paths \cup {Unset}, PatchWork(e, p) \/ PatchBase(e, p)
      PROVE  MachinesInv'
    BY <1>2, KeepsPatchWork, KeepsPatchBase
<1>3. ASSUME NEW e \in Machines, NEW l \in Labels, PatchLabel(e, l)
      PROVE  MachinesInv'
    BY <1>3, KeepsPatchLabel
<1>4. ASSUME NEW e \in Machines, Install(e)
      PROVE  MachinesInv'
    BY <1>4, KeepsInstall
<1>5. ASSUME NEW w \in Workers, NEW e \in Machines, NEW era \in Eras_, NEW l \in Labels,
             NEW p \in Paths \cup {Unset}, CreateBare(w, e, era, l, p)
      PROVE  MachinesInv'
    BY <1>5, KeepsCreateBare
<1>6. ASSUME NEW w \in Workers, NEW e \in Machines, Launch(w, e) \/ BeginDelete(w, e)
      PROVE  MachinesInv'
    BY <1>6, KeepsLaunch, KeepsBeginDelete
<1>7. ASSUME NEW w \in Workers, WriteDisk(w) \/ CommitDisk(w) \/ FailDisk(w) \/ Unlink_(w) \/ DeleteRow(w)
      PROVE  MachinesInv'
    BY <1>7, KeepsWriteDisk, KeepsCommitDisk, KeepsFailDisk, KeepsUnlink, KeepsDeleteRow
<1>8. CASE Crash
    BY <1>8, KeepsCrash
<1>9. CASE UNCHANGED machinesVars
    BY <1>9 DEF machinesVars, MachinesInv, Typed, LabelsDiffer, OwnImagesKept, MadeOrMaking, Standing,
                DeletesAlone, DisksNamed, WritesAlone
<1> QED BY <1>1, <1>2, <1>3, <1>4, <1>5, <1>6, <1>7, <1>8, <1>9 DEF MachinesNext

\* So it holds throughout.
LEMMA InvHolds == MachinesSpec => []MachinesInv
<1>1. MachinesInit => MachinesInv
    BY InvHoldsAtFirst
<1>2. MachinesInv /\ [MachinesNext]_machinesVars => MachinesInv'
    BY InvIsKept
<1> QED BY <1>1, <1>2, PTL DEF MachinesSpec

\* Every row, disk and request is of its type.
THEOREM MachinesTypeCorrect == MachinesSpec => []MachinesTypeOK
<1>1. MachinesInv => MachinesTypeOK
    BY DEF MachinesInv, Typed, MachinesTypeOK, MRows, Jobs
<1> QED BY <1>1, InvHolds, PTL

\* A provisioning that fails leaves no row behind, however the requests of
\* environments.py interleave and the ids are used again, and an image of the user's
\* that no environment was handed is as the user left it.
THEOREM MachinesAreWhole == MachinesSpec => []NoHalfMadeMachines
<1>1. MachinesInv => NoHalfMadeMachines
    BY DEF MachinesInv, MadeOrMaking, OwnImagesKept, NoHalfMadeMachines
<1> QED BY <1>1, InvHolds, PTL

\* Only an unlink, a provisioning and an installation touch a disk.
LEMMA DisksTouched ==
    ASSUME MachinesNext
    PROVE  \/ disk' = disk
           \/ \E e \in Machines : Install(e)
           \/ \E w \in Workers : WriteDisk(w) \/ Unlink_(w)
<1>1. \A e \in Machines :
        /\ \A era \in Eras_, l \in Labels, p \in Paths : CreateWith(e, era, l, p) => disk' = disk
        /\ \A p \in Paths \cup {Unset} : PatchWork(e, p) \/ PatchBase(e, p) => disk' = disk
        /\ \A l \in Labels : PatchLabel(e, l) => disk' = disk
    BY DEF CreateWith, PatchWork, PatchBase, PatchLabel
<1>2. \A w \in Workers, e \in Machines :
        /\ \A era \in Eras_, l \in Labels, p \in Paths \cup {Unset} : CreateBare(w, e, era, l, p) => disk' = disk
        /\ Launch(w, e) \/ BeginDelete(w, e) => disk' = disk
    <2>1. ASSUME NEW w \in Workers, NEW e \in Machines, NEW era \in Eras_, NEW l \in Labels,
                 NEW p \in Paths \cup {Unset}, CreateBare(w, e, era, l, p)
          PROVE  disk' = disk
        BY <2>1 DEF CreateBare
    <2>2. ASSUME NEW w \in Workers, NEW e \in Machines, Launch(w, e) \/ BeginDelete(w, e)
          PROVE  disk' = disk
        BY <2>2 DEF Launch, BeginDelete
    <2> QED BY <2>1, <2>2
<1>3. \A w \in Workers : CommitDisk(w) \/ FailDisk(w) \/ DeleteRow(w) => disk' = disk
    BY DEF CommitDisk, FailDisk, DeleteRow
<1>4. Crash => disk' = disk
    BY DEF Crash
<1> QED BY <1>1, <1>2, <1>3, <1>4 DEF MachinesNext

\* No step deletes or writes over the disk of another environment.
LEMMA ImageSurvives ==
    ASSUME MachinesInv, MachinesNext, NEW e \in Standing, NEW p \in Paths, machine[e].work = p,
           ~Deleting(e), p \notin rushed'
    PROVE  /\ disk[p] # "none" => disk'[p] # "none"
           /\ disk[p] = "os" /\ Dedicated(p) => disk'[p] = "os"
<1> USE DEF MachinesInv
<1>1. disk \in [Paths -> Contents] /\ e \in Machines
    BY DEF Typed, Standing
<1>2. ASSUME NEW d \in Machines, Install(d)
      PROVE  disk'[p] \in {disk[p], "os"}
    BY <1>1, <1>2 DEF Install
<1>3. ASSUME NEW w \in Workers, Unlink_(w)
      PROVE  disk'[p] = disk[p]
    <2>1. rushed' = rushed /\ worker[w].kind = "delete" /\ worker[w].path # Unset
        BY <1>3 DEF Unlink_
    <2>2. worker[w].path # p
        BY <1>1, <2>1 DEF DeletesAlone, Deleting
    <2> QED BY <1>1, <1>3, <2>2 DEF Unlink_
<1>4. ASSUME NEW w \in Workers, WriteDisk(w)
      PROVE  /\ disk'[p] # "none" \/ disk'[p] = disk[p]
             /\ disk[p] = "os" /\ Dedicated(p) => disk'[p] = disk[p]
    <2>1. /\ worker[w].kind \in {"create", "launch"} /\ rushed \subseteq rushed' /\ worker[w].path \in Paths
          /\ worker[w].path = Vm(worker[w].row.label) /\ worker[w].row.label \in Labels
        BY <1>4, VmIs DEF WriteDisk, Typed, Sound
    <2>2. CASE worker[w].path = p
        <3>1. disk'[p] # "none"
            BY <1>1, <1>4, <2>2 DEF WriteDisk
        <3>2. ~Dedicated(p)
            BY <1>1, <2>1, <2>2 DEF WritesAlone, Dedicated
        <3> QED BY <3>1, <3>2
    <2>3. CASE worker[w].path # p
        BY <1>1, <1>4, <2>1, <2>3 DEF WriteDisk
    <2> QED BY <2>2, <2>3
<1> QED BY <1>1, <1>2, <1>3, <1>4, DisksTouched

\* delete_environment_item, provision_86box_vm and the edits of a row spare the disk that
\* another environment works on, whatever requests overlap, unless on that very path.
THEOREM ImagesSurvive == MachinesSpec => LiveImagesSurvive
<1> DEFINE Kept ==
        \A e \in Standing :
            LET p == machine[e].work IN
            machine'[e].work = p /\ p # Unset /\ ~Deleting(e) /\ p \notin rushed' =>
                /\ disk[p] # "none" => disk'[p] # "none"
                /\ disk[p] = "os" /\ Dedicated(p) => disk'[p] = "os"
<1>1. MachinesInv /\ [MachinesNext]_machinesVars => [Kept]_machinesVars
    <2>1. ASSUME MachinesInv, MachinesNext
          PROVE  Kept
        <3>1. \A e \in Standing : machine[e].work \in Paths \cup {Unset}
            BY <2>1 DEF MachinesInv, Typed, MRows, Standing
        <3> QED BY <2>1, <3>1, ImageSurvives
    <2> QED BY <2>1
<1>2. [][Kept]_machinesVars => LiveImagesSurvive
    BY PTL DEF LiveImagesSurvive
<1> QED BY <1>1, <1>2, InvHolds, PTL DEF MachinesSpec

-------------------------------------------------------------------------------
(* The archive.  Links are removed from the middle of their list, so first what the *)
(* list is afterwards.                                                              *)

\* What holds at the first place and goes from each to the next holds at all.
LEMMA PlaceByPlace ==
    ASSUME NEW n \in Nat, NEW T, 1 \in T,
           \A i \in 1..n : i < n /\ i \in T => i + 1 \in T
    PROVE  \A i \in 1..n : i \in T
<1> DEFINE Missing == {i \in 1..n : i \notin T}
<1> SUFFICES ASSUME Missing # {} PROVE FALSE
  OBVIOUS
<1>1. PICK m \in Missing : \A i \in Missing : m <= i
  <2>1. Missing \in SUBSET Nat
    OBVIOUS
  <2> HIDE DEF Missing
  <2> QED
    BY <2>1, LeastNat, Zenon
<1>2. m # 1 /\ m \in 1..n
  OBVIOUS
<1>3. m - 1 \in 1..n /\ m - 1 < n
  BY <1>2
<1>4. m - 1 \notin Missing
  BY <1>1, <1>3
<1>5. (m - 1) + 1 \in T
  BY <1>3, <1>4
<1> QED
  BY <1>2, <1>5

\* A function that is computed place by place exists.
LEMMA Iterates ==
    ASSUME NEW S, NEW x \in S, NEW n \in Nat, NEW step \in [1..n -> [S -> S]]
    PROVE  \E f \in [1..n -> S] :
              \A i \in 1..n : f[i] = (IF i = 1 THEN x ELSE step[i - 1][f[i - 1]])
<1> DEFINE Computes(k, f) ==
              \A i \in 1..k : f[i] = IF i = 1 THEN x ELSE step[i - 1][f[i - 1]]
           T == {k \in 1..n : \E f \in [1..n -> S] : Computes(k, f)}
<1>1. 1 \in 1..n => 1 \in T
  <2>1. [i \in 1..n |-> x] \in [1..n -> S]
    OBVIOUS
  <2>2. 1 \in 1..n => Computes(1, [i \in 1..n |-> x])
    OBVIOUS
  <2> QED
    BY <2>1, <2>2
<1>2. ASSUME NEW k \in 1..n, k < n, k \in T
      PROVE  k + 1 \in T
  <2>1. PICK f \in [1..n -> S] : Computes(k, f)
    BY <1>2
  <2>2. PICK y : y = step[k][f[k]]
    OBVIOUS
  <2>3. y \in S
    BY <2>2
  <2>4. PICK g : g = [f EXCEPT ![k + 1] = y]
    OBVIOUS
  <2>5. k + 1 \in 1..n /\ k \in Int
    BY <1>2
  <2>6. g \in [1..n -> S] /\ g[k + 1] = y /\ \A i \in 1..n : i # k + 1 => g[i] = f[i]
    BY <2>3, <2>4, <2>5
  <2>7. ASSUME NEW i \in 1..(k + 1)
        PROVE  g[i] = IF i = 1 THEN x ELSE step[i - 1][g[i - 1]]
    <3>1. CASE i = k + 1
      <4>1. i # 1 /\ i - 1 = k /\ g[k] = f[k]
        BY <2>5, <2>6, <3>1
      <4> QED
        BY <2>2, <2>6, <3>1, <4>1
    <3>2. CASE i # k + 1
      <4>1. i \in 1..k /\ g[i] = f[i]
        BY <2>5, <2>6, <3>2
      <4>2. i # 1 => i - 1 \in 1..n /\ i - 1 # k + 1
        BY <2>5, <3>2
      <4>3. i # 1 => g[i - 1] = f[i - 1]
        BY <2>6, <4>2
      <4>4. f[i] = IF i = 1 THEN x ELSE step[i - 1][f[i - 1]]
        BY <2>1, <4>1
      <4> QED
        BY <4>1, <4>3, <4>4
    <3> QED
      BY <3>1, <3>2
  <2>8. Computes(k + 1, g)
    BY <2>7
  <2> QED
    BY <2>5, <2>6, <2>8
<1>3. CASE n = 0
  <2>1. PICK f : f = [i \in 1..n |-> x]
    OBVIOUS
  <2>2. 1..n = {}
    BY <1>3
  <2>3. f \in [1..n -> S]
    BY <2>1
  <2>4. \A i \in 1..n : f[i] = IF i = 1 THEN x ELSE step[i - 1][f[i - 1]]
    BY <2>2
  <2> QED
    BY <2>3, <2>4
<1>4. CASE n # 0
  <2>1. 1 \in T /\ n \in 1..n
    BY <1>1, <1>4
  <2>2. \A i \in 1..n : i < n /\ i \in T => i + 1 \in T
    BY <1>2
  <2> HIDE DEF T
  <2>3. n \in T
    BY <2>1, <2>2, PlaceByPlace
  <2>4. PICK f \in [1..n -> S] : Computes(n, f)
    BY <2>3 DEF T
  <2> QED
    BY <2>4
<1> QED
  BY <1>3, <1>4

Joints == Ends \X Ends
LinksTyped == links \in Seq(Joints)
OrderedJoints == {p \in Joints : Rank[p[1]] < Rank[p[2]]}

\* What the recursive function in Remaining computes.
IsKept(g, gone) ==
    g = [i \in 1..(Len(links) + 1) |->
           IF i = 1 THEN <<>>
           ELSE IF links[i - 1] \in gone THEN g[i - 1] ELSE Append(g[i - 1], links[i - 1])]

LEMMA LinksExist ==
    ASSUME LinksTyped, NEW gone
    PROVE  \E g : IsKept(g, gone)
<1>1. PICK S : S = Seq(Joints)
  OBVIOUS
<1>2. PICK n : n = Len(links) + 1
  OBVIOUS
<1>3. n \in Nat /\ n # 0 /\ <<>> \in S
  BY <1>1, <1>2 DEF LinksTyped
<1>4. PICK step : step = [i \in 1..n |-> [s \in S |->
                            IF i = n \/ links[i] \in gone THEN s ELSE Append(s, links[i])]]
  OBVIOUS
<1>5. step \in [1..n -> [S -> S]]
  <2>1. ASSUME NEW i \in 1..n, NEW s \in S, i # n
        PROVE  Append(s, links[i]) \in S
    <3>1. links[i] \in Joints
      BY <1>2, <2>1 DEF LinksTyped
    <3> QED
      BY <1>1, <3>1
  <2> QED
    BY <1>4, <2>1
<1>6. PICK f \in [1..n -> S] :
         \A i \in 1..n : f[i] = (IF i = 1 THEN <<>> ELSE step[i - 1][f[i - 1]])
  <2>0. PICK none : none = <<>>
    OBVIOUS
  <2>1. n \in Nat /\ none \in S
    BY <1>3, <2>0
  <2>2. \E f \in [1..n -> S] :
           \A i \in 1..n : f[i] = (IF i = 1 THEN none ELSE step[i - 1][f[i - 1]])
    BY <1>5, <2>1, Iterates
  <2> QED
    BY <2>0, <2>2
<1>7. ASSUME NEW i \in 1..n, i # 1
      PROVE  step[i - 1][f[i - 1]] =
                (IF links[i - 1] \in gone THEN f[i - 1] ELSE Append(f[i - 1], links[i - 1]))
  <2>1. i - 1 \in 1..n /\ i - 1 # n
    BY <1>3, <1>7
  <2>2. f[i - 1] \in S
    BY <2>1, <1>6
  <2> QED
    BY <1>4, <2>1, <2>2
<1>8. f = [i \in 1..n |-> IF i = 1 THEN <<>>
                          ELSE IF links[i - 1] \in gone THEN f[i - 1]
                               ELSE Append(f[i - 1], links[i - 1])]
  BY <1>6, <1>7
<1> QED
  BY <1>2, <1>8 DEF IsKept

\* What is left of the links are those that are not gone, each once.
LEMMA RemainingIs ==
    ASSUME LinksTyped, NEW gone
    PROVE  /\ Remaining(gone) \in Seq(Joints)
           /\ {Remaining(gone)[i] : i \in 1..Len(Remaining(gone))} = Pairs \ gone
           /\ (\A i, j \in 1..Len(links) : links[i] = links[j] => i = j) =>
                 \A i, j \in 1..Len(Remaining(gone)) :
                    Remaining(gone)[i] = Remaining(gone)[j] => i = j
<1> PICK n : n = Len(links) + 1
  OBVIOUS
<1>0. n \in Nat /\ n # 0 /\ n - 1 = Len(links)
  BY DEF LinksTyped
<1>1. PICK f : IsKept(f, gone) /\ Remaining(gone) = f[n]
  <2>1. Remaining(gone) = (CHOOSE g : IsKept(g, gone))[n]
    BY DEF Remaining, IsKept
  <2> QED
    BY <2>1, LinksExist
<1>2. f = [i \in 1..n |-> IF i = 1 THEN <<>>
                          ELSE IF links[i - 1] \in gone THEN f[i - 1]
                               ELSE Append(f[i - 1], links[i - 1])]
  BY <1>1 DEF IsKept
<1>3. ASSUME NEW i \in 1..n
      PROVE  f[i] = IF i = 1 THEN <<>>
                    ELSE IF links[i - 1] \in gone THEN f[i - 1] ELSE Append(f[i - 1], links[i - 1])
  BY <1>2
<1> DEFINE Once == \A i, j \in 1..Len(links) : links[i] = links[j] => i = j
           Kept(i) == /\ f[i] \in Seq(Joints)
                      /\ \A k \in 1..Len(f[i]) : \E j \in 1..(i - 1) : f[i][k] = links[j] /\ links[j] \notin gone
                      /\ \A j \in 1..(i - 1) : links[j] \notin gone => \E k \in 1..Len(f[i]) : f[i][k] = links[j]
                      /\ Once => \A k, l \in 1..Len(f[i]) : f[i][k] = f[i][l] => k = l
<1>4. Kept(1)
  <2>1. f[1] = <<>>
    BY <1>0, <1>3
  <2> QED
    BY <2>1
<1>5. ASSUME NEW i \in 1..n, i < n, Kept(i)
      PROVE  Kept(i + 1)
  <2>1. i + 1 \in 1..n /\ i + 1 # 1 /\ (i + 1) - 1 = i /\ i \in 1..Len(links) /\ links[i] \in Joints
    BY <1>0, <1>5 DEF LinksTyped
  <2>2. f[i + 1] = IF links[i] \in gone THEN f[i] ELSE Append(f[i], links[i])
    BY <1>3, <2>1
  <2>3. \A j : j \in 1..i <=> j \in 1..(i - 1) \/ j = i
    BY <2>1
  <2>4. CASE links[i] \in gone
    <3>1. f[i + 1] = f[i]
      BY <2>2, <2>4
    <3> QED
      BY <1>5, <2>1, <2>3, <2>4, <3>1
  <2>5. CASE links[i] \notin gone
    <3> PICK s \in Seq(Joints) : s = f[i]
      BY <1>5
    <3> PICK x : x = links[i]
      OBVIOUS
    <3> PICK t : t = Append(s, x)
      OBVIOUS
    <3>1. f[i + 1] = t
      BY <2>2, <2>5
    <3>2. /\ t \in Seq(Joints) /\ Len(s) \in Nat /\ Len(t) = Len(s) + 1
          /\ \A k \in 1..Len(s) : t[k] = s[k]
          /\ t[Len(s) + 1] = x
      BY <2>1
    <3>3. \A k : k \in 1..Len(t) <=> k \in 1..Len(s) \/ k = Len(s) + 1
      BY <3>2
    <3>4. ASSUME NEW k \in 1..Len(t)
          PROVE  \E j \in 1..i : t[k] = links[j] /\ links[j] \notin gone
      <4>1. CASE k = Len(s) + 1
        <5>1. t[k] = links[i] /\ i \in 1..i
          BY <2>1, <3>2, <4>1
        <5> QED
          BY <2>5, <5>1
      <4>2. CASE k # Len(s) + 1
        <5>1. k \in 1..Len(s) /\ t[k] = s[k]
          BY <3>2, <3>3, <4>2
        <5>2. PICK j \in 1..(i - 1) : s[k] = links[j] /\ links[j] \notin gone
          BY <1>5, <5>1
        <5> QED
          BY <2>3, <5>1, <5>2
      <4> QED
        BY <4>1, <4>2
    <3>5. ASSUME NEW j \in 1..i, links[j] \notin gone
          PROVE  \E k \in 1..Len(t) : t[k] = links[j]
      <4>1. CASE j = i
        BY <3>2, <3>3, <4>1
      <4>2. CASE j # i
        <5>1. PICK k \in 1..Len(s) : s[k] = links[j]
          BY <1>5, <2>3, <3>5, <4>2
        <5> QED
          BY <3>2, <3>3, <5>1
      <4> QED
        BY <4>1, <4>2
    <3>6. Once => \A k, l \in 1..Len(t) : t[k] = t[l] => k = l
      <4>1. Once => \A k \in 1..Len(s) : s[k] # x
        <5> SUFFICES ASSUME Once, NEW k \in 1..Len(s), s[k] = x
                     PROVE  FALSE
          OBVIOUS
        <5>1. PICK j \in 1..(i - 1) : s[k] = links[j]
          BY <1>5
        <5>2. j \in 1..Len(links) /\ j # i
          BY <2>1
        <5> QED
          BY <2>1, <5>1, <5>2
      <4>2. Once => \A k, l \in 1..Len(s) : s[k] = s[l] => k = l
        BY <1>5
      <4> HIDE DEF Once
      <4> QED
        BY <3>2, <3>3, <4>1, <4>2
    <3>7. 1..((i + 1) - 1) = 1..i
      BY <2>1
    <3>8. \A j \in 1..((i + 1) - 1) : links[j] \notin gone => \E k \in 1..Len(f[i + 1]) : f[i + 1][k] = links[j]
      BY <3>1, <3>5, <3>7, Zenon
    <3>9. \A k \in 1..Len(f[i + 1]) : \E j \in 1..((i + 1) - 1) : f[i + 1][k] = links[j] /\ links[j] \notin gone
      BY <3>1, <3>4, <3>7, Zenon
    <3>10. f[i + 1] \in Seq(Joints)
      BY <3>1, <3>2
    <3>11. Once => \A k, l \in 1..Len(f[i + 1]) : f[i + 1][k] = f[i + 1][l] => k = l
      BY <3>1, <3>6
    <3> HIDE DEF Once
    <3> QED
      BY <3>8, <3>9, <3>10, <3>11, Zenon
  <2> QED
    BY <2>4, <2>5
<1>6. Kept(n)
  <2> HIDE DEF Kept
  <2> PICK T : T = {i \in 1..n : Kept(i)}
    OBVIOUS
  <2>1. 1 \in T /\ n \in 1..n
    BY <1>0, <1>4
  <2>2. \A i \in 1..n : i < n /\ i \in T => i + 1 \in T
    BY <1>0, <1>5
  <2>3. \A i \in 1..n : i \in T
    BY <1>0, <2>1, <2>2, PlaceByPlace
  <2> QED
    BY <2>1, <2>3
<1>7. {f[n][i] : i \in 1..Len(f[n])} = Pairs \ gone
  <2>1. DOMAIN links = 1..(n - 1)
    BY <1>0 DEF LinksTyped
  <2>2. ASSUME NEW i \in 1..Len(f[n])
        PROVE  f[n][i] \in Pairs \ gone
    <3>1. PICK j \in 1..(n - 1) : f[n][i] = links[j] /\ links[j] \notin gone
      BY <1>6
    <3> QED
      BY <2>1, <3>1 DEF Pairs
  <2>3. ASSUME NEW p \in Pairs, p \notin gone
        PROVE  \E i \in 1..Len(f[n]) : f[n][i] = p
    <3>1. PICK j \in 1..(n - 1) : links[j] = p
      BY <2>1 DEF Pairs
    <3> QED
      BY <1>6, <2>3, <3>1
  <2> HIDE DEF Kept
  <2> QED
    BY <2>2, <2>3
<1> QED
  BY <1>1, <1>6, <1>7

\* The requests that make a link, and those that make artwork.
Linking == [kind : {"link"}, title : {Void}, pair : OrderedJoints, album : {Void}, slug : {Void}]
Drawing == [kind : {"art"}, title : Titles, pair : {<<>>}, album : Albums \cup {Void},
            slug : Slugs \cup {Void}]

ListHolds ==
    /\ LinksTyped
    /\ \A i, j \in DOMAIN links : links[i] = links[j] => i = j
    /\ Pairs \subseteq OrderedJoints

ArchiveTyped ==
    /\ live \subseteq Ends
    /\ parent \in [Shots -> Albums \cup {Void}]
    /\ slug \in [Albums \cup Shots -> Slugs \cup {Void}]
    /\ hand \in [Hands -> {AtRest} \cup Linking \cup Drawing]
    /\ stray \subseteq Pairs
    /\ madeFor \in [Albums -> Titles \cup {Void}]
    /\ raced \subseteq Titles

PairsLive == \A p \in Pairs \ stray : {p[1], p[2]} \subseteq live

\* An album made for a title is linked to it, and both are there,
AlbumsLinked ==
    \A m \in Albums :
        madeFor[m] # Void => Sorted(madeFor[m], m) \in Pairs /\ {m, madeFor[m]} \subseteq live

\* and it is the only one, unless two requests raced.
OneEach ==
    \A m, n \in Albums :
        madeFor[m] # Void /\ madeFor[m] = madeFor[n] /\ madeFor[m] \notin raced => m = n

\* A request that found no album for its title, and did not race, collides with the one
\* that came in between.
SlugsCollide ==
    \A r \in Hands, n \in Albums :
        /\ hand[r].kind = "art" /\ hand[r].album = Void
        /\ madeFor[n] = hand[r].title /\ madeFor[n] \notin raced
        => hand[r].slug # Void /\ slug[n] = hand[r].slug

ArchiveInv ==
    ListHolds /\ ArchiveTyped /\ PairsLive /\ AlbumsLinked /\ OneEach /\ SlugsCollide

LEMMA SortedIs ==
    ASSUME NEW a \in Ends, NEW b \in Ends, a # b
    PROVE  /\ Sorted(a, b) \in OrderedJoints
           /\ {Sorted(a, b)[1], Sorted(a, b)[2]} = {a, b}
           /\ \A e : Touches(Sorted(a, b), e) <=> e \in {a, b}
<1>1. /\ Rank[a] \in Nat /\ Rank[b] \in Nat
      /\ Rank[a] < Rank[b] \/ Rank[b] < Rank[a]
  BY LinksAssumption
<1>2. CASE Rank[a] < Rank[b]
  <2>1. Sorted(a, b) = <<a, b>>
    BY <1>2 DEF Sorted
  <2> QED
    BY <1>2, <2>1 DEF OrderedJoints, Joints, Touches
<1>3. CASE Rank[b] < Rank[a]
  <2>1. Sorted(a, b) = <<b, a>>
    BY <1>1, <1>3 DEF Sorted
  <2> QED
    BY <1>3, <2>1 DEF OrderedJoints, Joints, Touches
<1> QED
  BY <1>1, <1>2, <1>3

LEMMA EndsDiffer ==
    /\ \A t \in Titles, m \in Albums : t # m /\ t \in Ends /\ m \in Ends
    /\ \A s \in Shots : s \notin Titles /\ s \notin Albums /\ s \in Ends
    /\ \A t \in Titles : t \notin Albums
    /\ Void \notin Ends
BY LinksAssumption DEF Ends

LEMMA HandIs ==
    ASSUME ArchiveTyped, NEW r \in Hands
    PROVE  /\ hand[r] = AtRest \/ hand[r] \in Linking \/ hand[r] \in Drawing
           /\ hand[r].kind = "link" => hand[r] \in Linking /\ hand[r].pair \in OrderedJoints
           /\ hand[r].kind = "art" =>
                 /\ hand[r] \in Drawing /\ hand[r].title \in Titles
                 /\ hand[r].album \in Albums \cup {Void} /\ hand[r].slug \in Slugs \cup {Void}
           /\ hand[r].kind \in {"none", "link", "art"}
           /\ hand[r].title \in Titles \cup {Void}
<1>1. hand[r] = AtRest \/ hand[r] \in Linking \/ hand[r] \in Drawing
  BY DEF ArchiveTyped
<1> PICK h : h = hand[r]
  OBVIOUS
<1>2. CASE h = AtRest
  BY <1>2 DEF AtRest
<1>3. CASE h \in Linking
  BY <1>3 DEF Linking
<1>4. CASE h \in Drawing
  BY <1>4 DEF Drawing
<1> QED
  BY <1>1, <1>2, <1>3, <1>4

\* What a step that removes links, and one that adds one, makes of the list.
LEMMA Sheds ==
    ASSUME ListHolds, NEW gone, links' = Remaining(gone)
    PROVE  ListHolds' /\ Pairs' = Pairs \ gone
<1> PICK l : l = Remaining(gone)
  OBVIOUS
<1>1. LinksTyped /\ DOMAIN links = 1..Len(links)
  BY DEF ListHolds, LinksTyped
<1>2. /\ l \in Seq(Joints)
      /\ {l[i] : i \in 1..Len(l)} = Pairs \ gone
      /\ (\A i, j \in 1..Len(links) : links[i] = links[j] => i = j) =>
            \A i, j \in 1..Len(l) : l[i] = l[j] => i = j
  BY <1>1, RemainingIs
<1>3. DOMAIN l = 1..Len(l)
  BY <1>2
<1>4. Pairs' = Pairs \ gone
  BY <1>2, <1>3 DEF Pairs
<1>5. \A i, j \in 1..Len(l) : l[i] = l[j] => i = j
  BY <1>1, <1>2 DEF ListHolds
<1>6. LinksTyped'
  BY <1>2 DEF LinksTyped
<1> QED
  BY <1>3, <1>4, <1>5, <1>6 DEF ListHolds

LEMMA Gains ==
    ASSUME ListHolds, NEW p \in OrderedJoints, p \notin Pairs, links' = Append(links, p)
    PROVE  ListHolds' /\ Pairs' = Pairs \cup {p}
<1> PICK l : l = Append(links, p)
  OBVIOUS
<1>1. p \in Joints /\ links \in Seq(Joints)
  BY DEF ListHolds, LinksTyped, OrderedJoints
<1>2. /\ l \in Seq(Joints) /\ Len(links) \in Nat /\ Len(l) = Len(links) + 1
      /\ DOMAIN l = 1..Len(l) /\ DOMAIN links = 1..Len(links)
      /\ \A i \in 1..Len(links) : l[i] = links[i]
      /\ l[Len(links) + 1] = p
  BY <1>1
<1>3. \A i : i \in 1..Len(l) <=> i \in 1..Len(links) \/ i = Len(links) + 1
  BY <1>2
<1>4. Pairs' = Pairs \cup {p}
  <2>1. Pairs' = {l[i] : i \in DOMAIN l}
    BY DEF Pairs
  <2>2. ASSUME NEW q \in Pairs'
        PROVE  q \in Pairs \cup {p}
    BY <1>2, <1>3, <2>1, <2>2 DEF Pairs
  <2>3. ASSUME NEW q \in Pairs
        PROVE  q \in Pairs'
    BY <1>2, <1>3, <2>1, <2>3 DEF Pairs
  <2>4. p \in Pairs'
    BY <1>2, <1>3, <2>1
  <2> QED
    BY <2>2, <2>3, <2>4
<1>5. \A i \in 1..Len(links) : links[i] # p
  BY <1>2 DEF Pairs
<1>6. \A i, j \in 1..Len(l) : l[i] = l[j] => i = j
  BY <1>2, <1>3, <1>5 DEF ListHolds
<1>7. LinksTyped'
  BY <1>2 DEF LinksTyped
<1>8. Pairs' \subseteq OrderedJoints
  BY <1>4 DEF ListHolds
<1> QED
  BY <1>2, <1>6, <1>7, <1>8, <1>4 DEF ListHolds

LEMMA Stays ==
    ASSUME ListHolds, links' = links
    PROVE  ListHolds' /\ Pairs' = Pairs
BY DEF ListHolds, LinksTyped, Pairs

LEMMA AlbumIs ==
    ASSUME ArchiveInv, NEW m \in Albums, madeFor[m] # Void
    PROVE  /\ madeFor[m] \in Titles /\ madeFor[m] \in live /\ m \in live
           /\ Sorted(madeFor[m], m) \in Pairs
           /\ \A e : Touches(Sorted(madeFor[m], m), e) <=> e \in {madeFor[m], m}
<1>1. madeFor[m] \in Titles
  BY DEF ArchiveInv, ArchiveTyped
<1>2. madeFor[m] \in Ends /\ m \in Ends /\ madeFor[m] # m
  BY <1>1, EndsDiffer
<1>3. \A e : Touches(Sorted(madeFor[m], m), e) <=> e \in {madeFor[m], m}
  BY <1>2, SortedIs, Zenon
<1> QED
  BY <1>1, <1>3 DEF ArchiveInv, AlbumsLinked

\* Steps that leave the links and what is known of them alone.
LEMMA QuietStep ==
    ASSUME ArchiveInv, ArchiveTyped', live \subseteq live', raced \subseteq raced',
           \A n \in Albums : madeFor[n] # Void => slug'[n] = slug[n],
           \A r \in Hands : hand'[r] = hand[r] \/ hand'[r].kind # "art"
                            \/ hand'[r].album # Void
                            \/ \A n \in Albums : madeFor[n] # hand'[r].title \/ madeFor[n] \in raced,
           UNCHANGED <<links, stray, madeFor>>
    PROVE  ArchiveInv'
<1>1. ListHolds' /\ Pairs' = Pairs
  BY Stays DEF ArchiveInv
<1>2. PairsLive'
  BY <1>1 DEF ArchiveInv, PairsLive
<1>3. AlbumsLinked'
  BY <1>1 DEF ArchiveInv, AlbumsLinked
<1>4. OneEach'
  BY DEF ArchiveInv, OneEach
<1>5. SlugsCollide'
  <2> SUFFICES ASSUME NEW r \in Hands, NEW n \in Albums,
                      hand'[r].kind = "art", hand'[r].album = Void,
                      madeFor[n] = hand'[r].title, madeFor[n] \notin raced'
               PROVE  hand'[r].slug # Void /\ slug'[n] = hand'[r].slug
    BY DEF SlugsCollide
  <2>1. hand'[r] = hand[r]
    OBVIOUS
  <2>2. hand[r].slug # Void /\ slug[n] = hand[r].slug
    BY <2>1 DEF ArchiveInv, SlugsCollide
  <2>3. madeFor[n] # Void
    <3>1. hand[r].title \in Titles
      BY <2>1, HandIs DEF ArchiveInv
    <3> QED
      BY <3>1, EndsDiffer
  <2> QED
    BY <2>1, <2>2, <2>3
<1> QED
  BY <1>1, <1>2, <1>3, <1>4, <1>5 DEF ArchiveInv

LEMMA HandsBecome ==
    ASSUME ArchiveTyped, NEW r \in Hands, NEW h \in {AtRest} \cup Linking \cup Drawing,
           hand' = [hand EXCEPT ![r] = h]
    PROVE  /\ hand' \in [Hands -> {AtRest} \cup Linking \cup Drawing]
           /\ hand'[r] = h
           /\ \A o \in Hands : o # r => hand'[o] = hand[o]
BY DEF ArchiveTyped

LEMMA SlugIs ==
    ASSUME NEW name \in Names, HasFree(name)
    PROVE  Unique(name) \in Slugs
<1> DEFINE Free == {n \in 1..MaxNumber : <<name, n>> \notin Taken}
<1>1. Free \in SUBSET Nat /\ Free # {}
  <2>1. PICK n \in 1..MaxNumber : <<name, n>> \notin Taken
    BY DEF HasFree
  <2>2. n \in Free
    BY <2>1
  <2>3. Free \subseteq 1..MaxNumber
    OBVIOUS
  <2> HIDE DEF Free
  <2> QED
    BY LinksAssumption, <2>2, <2>3
<1>2. PICK n \in Free : \A k \in Free : n <= k
  <2> HIDE DEF Free
  <2> QED
    BY <1>1, LeastNat, Zenon
<1>3. \A m \in 1..(n - 1) : m \in 1..MaxNumber /\ ~(n <= m)
  BY LinksAssumption
<1>4. \A m \in 1..(n - 1) : <<name, m>> \in Taken
  BY <1>2, <1>3
<1>5. FirstFree(name) \in 1..MaxNumber
  BY <1>2, <1>4 DEF FirstFree
<1> QED
  BY <1>5 DEF Unique, Slugs

LEMMA CreateTitleArchive ==
    ASSUME ArchiveInv, NEW t \in Titles, CreateTitle(t)
    PROVE  ArchiveInv'
<1>1. ArchiveTyped'
  <2>1. Pairs' = Pairs
    BY Stays DEF ArchiveInv, CreateTitle
  <2> QED
    BY <2>1 DEF ArchiveInv, ArchiveTyped, CreateTitle, Ends
<1>2. live \subseteq live' /\ raced \subseteq raced'
  BY DEF CreateTitle
<1> QED
  BY <1>1, <1>2, QuietStep DEF CreateTitle

LEMMA CreateAlbumArchive ==
    ASSUME ArchiveInv, NEW m \in Albums, NEW name \in Names, CreateAlbum(m, name)
    PROVE  ArchiveInv'
<1>1. Unique(name) \in Slugs
  BY SlugIs DEF CreateAlbum
<1>2. ArchiveTyped'
  <2>1. Pairs' = Pairs
    BY Stays DEF ArchiveInv, CreateAlbum
  <2> QED
    BY <1>1, <2>1 DEF ArchiveInv, ArchiveTyped, CreateAlbum, Ends
<1>3. \A n \in Albums : madeFor[n] # Void => n # m
  BY AlbumIs DEF CreateAlbum
<1>4. \A n \in Albums : madeFor[n] # Void => slug'[n] = slug[n]
  BY <1>3 DEF CreateAlbum, ArchiveInv, ArchiveTyped
<1> QED
  BY <1>2, <1>4, QuietStep DEF CreateAlbum

LEMMA CreateShotArchive ==
    ASSUME ArchiveInv, NEW s \in Shots, NEW m \in Albums, NEW name \in Names, CreateShot(s, m, name)
    PROVE  ArchiveInv'
<1>1. Unique(name) \in Slugs
  BY SlugIs DEF CreateShot
<1>2. ArchiveTyped'
  <2>1. Pairs' = Pairs
    BY Stays DEF ArchiveInv, CreateShot
  <2> QED
    BY <1>1, <2>1 DEF ArchiveInv, ArchiveTyped, CreateShot, Ends
<1>3. \A n \in Albums : n # s
  BY EndsDiffer
<1>4. \A n \in Albums : madeFor[n] # Void => slug'[n] = slug[n]
  BY <1>3 DEF CreateShot, ArchiveInv, ArchiveTyped
<1> QED
  BY <1>2, <1>4, QuietStep DEF CreateShot

LEMMA MoveShotArchive ==
    ASSUME ArchiveInv, NEW s \in Shots, NEW m \in Albums \cup {Void}, MoveShot(s, m)
    PROVE  ArchiveInv'
<1>1. ArchiveTyped'
  <2>1. Pairs' = Pairs
    BY Stays DEF ArchiveInv, MoveShot
  <2> QED
    BY <2>1 DEF ArchiveInv, ArchiveTyped, MoveShot
<1> QED
  BY <1>1, QuietStep DEF MoveShot

\* A request that ends, or that only makes a link.
LEMMA RequestEnds ==
    ASSUME ArchiveInv, NEW r \in Hands, NEW h \in {AtRest} \cup Linking,
           hand' = [hand EXCEPT ![r] = h],
           UNCHANGED <<live, parent, slug, links, stray, madeFor, raced>>
    PROVE  ArchiveInv'
<1>1. /\ hand' \in [Hands -> {AtRest} \cup Linking \cup Drawing]
      /\ hand'[r] = h
      /\ \A o \in Hands : o # r => hand'[o] = hand[o]
  BY HandsBecome DEF ArchiveInv
<1>2. h.kind # "art"
  BY DEF AtRest, Linking
<1>3. ArchiveTyped'
  <2>1. Pairs' = Pairs
    BY Stays DEF ArchiveInv
  <2> QED
    BY <1>1, <2>1 DEF ArchiveInv, ArchiveTyped
<1> QED
  BY <1>1, <1>2, <1>3, QuietStep

LEMMA GiveUpArchive ==
    ASSUME ArchiveInv, NEW r \in Hands, GiveUp(r)
    PROVE  ArchiveInv'
BY RequestEnds DEF GiveUp

LEMMA BeginLinkArchive ==
    ASSUME ArchiveInv, NEW r \in Hands, NEW a \in Ends, NEW b \in Ends, BeginLink(r, a, b)
    PROVE  ArchiveInv'
<1> PICK p : p = Sorted(a, b)
  OBVIOUS
<1>1. p \in OrderedJoints
  BY SortedIs DEF BeginLink
<1> PICK h : h = [AtRest EXCEPT !.kind = "link", !.pair = p]
  OBVIOUS
<1>2. h \in Linking
  <2>1. [AtRest EXCEPT !.kind = "link"] =
           [kind |-> "link", title |-> Void, pair |-> <<>>, album |-> Void, slug |-> Void]
    BY DEF AtRest
  <2>2. h = [[AtRest EXCEPT !.kind = "link"] EXCEPT !.pair = p]
    OBVIOUS
  <2>3. h = [kind |-> "link", title |-> Void, pair |-> p, album |-> Void, slug |-> Void]
    BY <2>1, <2>2
  <2> QED
    BY <1>1, <2>3 DEF Linking
<1> QED
  BY <1>2, RequestEnds DEF BeginLink

\* What an allocation of artwork knows, and what it leaves.
LEMMA EarliestIs ==
    ASSUME ArchiveInv, NEW t \in Titles
    PROVE  /\ Earliest(t) \in Albums \cup {Void}
           /\ Earliest(t) = Void => \A m \in Albums : madeFor[m] # t
<1>1. links \in Seq(Joints) /\ DOMAIN links = 1..Len(links) /\ Len(links) \in Nat
  BY DEF ArchiveInv, ListHolds, LinksTyped
<1>2. AlbumsOf(t) \in SUBSET Nat
  BY <1>1 DEF AlbumsOf
<1>3. ASSUME AlbumsOf(t) # {}
      PROVE  Earliest(t) \in Albums
  <2>1. PICK i \in AlbumsOf(t) : \A j \in AlbumsOf(t) : i <= j
    BY <1>2, <1>3, LeastNat, Zenon
  <2>2. PICK first : first = CHOOSE k \in AlbumsOf(t) : \A j \in AlbumsOf(t) : k <= j
    OBVIOUS
  <2>3. first \in AlbumsOf(t)
    BY <2>1, <2>2
  <2>4. {links[first][1], links[first][2]} \cap Albums # {}
    BY <2>3 DEF AlbumsOf
  <2>5. \E m \in {links[first][1], links[first][2]} : m \in Albums
    BY <2>4
  <2>6. Earliest(t) = CHOOSE m \in {links[first][1], links[first][2]} : m \in Albums
    BY <1>3, <2>2 DEF Earliest
  <2> QED
    BY <2>5, <2>6
<1>4. ASSUME NEW m \in Albums, madeFor[m] = t
      PROVE  AlbumsOf(t) # {}
  <2>1. t # Void
    BY EndsDiffer
  <2>2. /\ m \in live /\ Sorted(t, m) \in Pairs
        /\ \A e : Touches(Sorted(t, m), e) <=> e \in {t, m}
    BY <1>4, <2>1, AlbumIs
  <2> PICK p : p = Sorted(t, m)
    OBVIOUS
  <2>3. PICK i \in DOMAIN links : links[i] = p
    BY <2>2 DEF Pairs
  <2>4. Touches(p, t) /\ m \in {p[1], p[2]}
    BY <2>2 DEF Touches
  <2>5. i \in AlbumsOf(t)
    BY <2>2, <2>3, <2>4 DEF AlbumsOf
  <2> QED
    BY <2>5
<1>5. CASE AlbumsOf(t) = {}
  <2>1. Earliest(t) = Void
    BY <1>5 DEF Earliest
  <2> QED
    BY <1>4, <1>5, <2>1
<1>6. CASE AlbumsOf(t) # {}
  <2>1. Earliest(t) \in Albums
    BY <1>3, <1>6
  <2>2. Earliest(t) # Void
    BY <2>1, EndsDiffer, LinksAssumption DEF Ends
  <2> QED
    BY <2>1, <2>2
<1> QED
  BY <1>5, <1>6

LEMMA BeginArtArchive ==
    ASSUME ArchiveInv, NEW r \in Hands, NEW t \in Titles, BeginArt(r, t)
    PROVE  ArchiveInv'
<1> PICK m : m = Earliest(t)
  OBVIOUS
<1>1. m \in Albums \cup {Void} /\ (m = Void => \A n \in Albums : madeFor[n] # t)
  BY EarliestIs
<1> PICK h : h = [AtRest EXCEPT !.kind = "art", !.title = t, !.album = m]
  OBVIOUS
<1>2. h = [kind |-> "art", title |-> t, pair |-> <<>>, album |-> m, slug |-> Void]
  <2>1. PICK h1 : h1 = [AtRest EXCEPT !.kind = "art"]
    OBVIOUS
  <2>2. h1 = [kind |-> "art", title |-> Void, pair |-> <<>>, album |-> Void, slug |-> Void]
    BY <2>1 DEF AtRest
  <2>3. PICK h2 : h2 = [h1 EXCEPT !.title = t]
    OBVIOUS
  <2>4. h2 = [kind |-> "art", title |-> t, pair |-> <<>>, album |-> Void, slug |-> Void]
    BY <2>2, <2>3
  <2>5. h = [h2 EXCEPT !.album = m]
    BY <2>1, <2>3
  <2> QED
    BY <2>4, <2>5
<1>3. h \in Drawing /\ h.title = t /\ h.album = m
  BY <1>1, <1>2 DEF Drawing
<1>4. hand' = [hand EXCEPT ![r] = h]
  BY DEF BeginArt
<1>5. /\ hand' \in [Hands -> {AtRest} \cup Linking \cup Drawing]
      /\ hand'[r] = h
      /\ \A o \in Hands : o # r => hand'[o] = hand[o]
  BY <1>3, <1>4, HandsBecome DEF ArchiveInv
<1>6. ArchiveTyped'
  <2>1. Pairs' = Pairs
    BY Stays DEF ArchiveInv, BeginArt
  <2> QED
    BY <1>5, <2>1 DEF ArchiveInv, ArchiveTyped, BeginArt
<1>7. UNCHANGED <<live, parent, slug, links, stray, madeFor, raced>>
  BY DEF BeginArt
<1>8. \A o \in Hands : hand'[o] = hand[o] \/ hand'[o].kind # "art" \/ hand'[o].album # Void
                       \/ \A n \in Albums : madeFor[n] # hand'[o].title \/ madeFor[n] \in raced
  BY <1>1, <1>3, <1>5
<1> QED
  BY <1>6, <1>7, <1>8, QuietStep

LEMMA NameArtArchive ==
    ASSUME ArchiveInv, NEW r \in Hands, NameArt(r)
    PROVE  ArchiveInv'
<1> PICK g : g = hand[r]
  OBVIOUS
<1>1. /\ g.kind = "art" /\ g.album = Void /\ g.slug = Void
      /\ g \in Drawing /\ g.title \in Titles
  BY HandIs DEF NameArt, ArchiveInv
<1>2. Name[g.title] \in Names
  BY <1>1, LinksAssumption
<1> PICK sl : sl = Unique(Name[g.title])
  OBVIOUS
<1>3. sl \in Slugs
  BY <1>2, SlugIs DEF NameArt
<1> PICK h : h = [g EXCEPT !.slug = sl]
  OBVIOUS
<1>4. h \in Drawing /\ h.title = g.title
  BY <1>1, <1>3 DEF Drawing
<1>5. hand' = [hand EXCEPT ![r] = h]
  BY DEF NameArt
<1>6. /\ hand' \in [Hands -> {AtRest} \cup Linking \cup Drawing]
      /\ hand'[r] = h
      /\ \A o \in Hands : o # r => hand'[o] = hand[o]
  BY <1>4, <1>5, HandsBecome DEF ArchiveInv
<1>7. ArchiveTyped'
  <2>1. Pairs' = Pairs
    BY Stays DEF ArchiveInv, NameArt
  <2> QED
    BY <1>6, <2>1 DEF ArchiveInv, ArchiveTyped, NameArt
<1>8. UNCHANGED <<live, parent, slug, links, stray, madeFor, raced>>
  BY DEF NameArt
<1>9. \A n \in Albums : madeFor[n] # g.title \/ madeFor[n] \in raced
  BY <1>1 DEF ArchiveInv, SlugsCollide
<1>10. \A o \in Hands : hand'[o] = hand[o] \/ hand'[o].kind # "art" \/ hand'[o].album # Void
                       \/ \A n \in Albums : madeFor[n] # hand'[o].title \/ madeFor[n] \in raced
  <2>1. hand'[r].title = g.title
    BY <1>4, <1>6
  <2>2. \A n \in Albums : madeFor[n] # hand'[r].title \/ madeFor[n] \in raced
    BY <1>9, <2>1
  <2> QED
    BY <1>6, <2>2, Zenon
<1> QED
  BY <1>7, <1>8, <1>10, QuietStep

\* Steps that remove links, with what they take from the albums.
LEMMA RemovalStep ==
    ASSUME ArchiveInv, ArchiveTyped', ListHolds', NEW gone, Pairs' = Pairs \ gone,
           raced' \subseteq raced, hand' = hand,
           \A p \in Pairs' \ stray' : p \in Pairs \ stray /\ {p[1], p[2]} \subseteq live',
           \A m \in Albums : madeFor'[m] # Void =>
               /\ madeFor'[m] = madeFor[m] /\ slug'[m] = slug[m]
               /\ Sorted(madeFor[m], m) \notin gone
               /\ {m, madeFor[m]} \subseteq live'
               /\ madeFor[m] \in raced => madeFor[m] \in raced'
    PROVE  ArchiveInv'
<1>1. PairsLive'
  BY DEF PairsLive
<1>2. AlbumsLinked'
  BY DEF ArchiveInv, AlbumsLinked
<1>3. OneEach'
  <2> SUFFICES ASSUME NEW m \in Albums, NEW n \in Albums,
                      madeFor'[m] # Void, madeFor'[m] = madeFor'[n], madeFor'[m] \notin raced'
               PROVE  m = n
    BY DEF OneEach
  <2>1. madeFor[m] = madeFor'[m] /\ madeFor[n] = madeFor'[n] /\ madeFor[m] \notin raced
    OBVIOUS
  <2> QED
    BY <2>1 DEF ArchiveInv, OneEach
<1>4. SlugsCollide'
  <2> SUFFICES ASSUME NEW r \in Hands, NEW n \in Albums,
                      hand[r].kind = "art", hand[r].album = Void,
                      madeFor'[n] = hand[r].title, madeFor'[n] \notin raced'
               PROVE  hand[r].slug # Void /\ slug'[n] = hand[r].slug
    BY DEF SlugsCollide
  <2>1. hand[r].title # Void
    <3>1. hand[r].title \in Titles
      BY HandIs DEF ArchiveInv
    <3> QED
      BY <3>1, EndsDiffer
  <2>2. madeFor[n] = madeFor'[n] /\ slug'[n] = slug[n] /\ madeFor[n] \notin raced
    BY <2>1
  <2> QED
    BY <2>2 DEF ArchiveInv, SlugsCollide
<1> QED
  BY <1>1, <1>2, <1>3, <1>4 DEF ArchiveInv

LEMMA DeleteTitleArchive ==
    ASSUME ArchiveInv, NEW t \in Titles, DeleteTitle(t)
    PROVE  ArchiveInv'
<1> PICK gone : gone = {p \in Pairs : Touches(p, t)}
  OBVIOUS
<1>1. ListHolds' /\ Pairs' = Pairs \ gone
  BY Sheds DEF ArchiveInv, DeleteTitle, Without
<1>2. ArchiveTyped'
  <2>1. live' \subseteq Ends /\ stray' \subseteq Pairs' /\ raced' \subseteq Titles
    BY <1>1 DEF ArchiveInv, ArchiveTyped, DeleteTitle
  <2>2. madeFor' \in [Albums -> Titles \cup {Void}]
    BY DEF ArchiveInv, ArchiveTyped, DeleteTitle
  <2> QED
    BY <2>1, <2>2 DEF ArchiveInv, ArchiveTyped, DeleteTitle
<1>3. ASSUME NEW p \in Pairs' \ stray'
      PROVE  p \in Pairs \ stray /\ {p[1], p[2]} \subseteq live'
  <2>1. p \in Pairs /\ ~Touches(p, t) /\ p \notin stray
    BY <1>1, <1>3 DEF DeleteTitle
  <2>2. {p[1], p[2]} \subseteq live
    BY <2>1 DEF ArchiveInv, PairsLive
  <2>3. t \notin {p[1], p[2]}
    BY <2>1 DEF Touches
  <2> QED
    BY <2>1, <2>2, <2>3 DEF DeleteTitle
<1>4. ASSUME NEW m \in Albums, madeFor'[m] # Void
      PROVE  /\ madeFor'[m] = madeFor[m] /\ slug'[m] = slug[m]
             /\ Sorted(madeFor[m], m) \notin gone
             /\ {m, madeFor[m]} \subseteq live'
             /\ madeFor[m] \in raced => madeFor[m] \in raced'
  <2>1. madeFor'[m] = madeFor[m] /\ madeFor[m] # t /\ m # t
    BY <1>4, EndsDiffer DEF DeleteTitle
  <2>2. /\ m \in live /\ madeFor[m] \in live
        /\ ~Touches(Sorted(madeFor[m], m), t)
    BY <1>4, <2>1, AlbumIs
  <2> QED
    BY <2>1, <2>2 DEF DeleteTitle
<1>5. raced' \subseteq raced /\ hand' = hand
  BY DEF DeleteTitle
<1> QED
  BY <1>1, <1>2, <1>3, <1>4, <1>5, RemovalStep

LEMMA DeleteShotArchive ==
    ASSUME ArchiveInv, NEW s \in Shots, DeleteShot(s)
    PROVE  ArchiveInv'
<1> PICK gone : gone = {p \in Pairs : Touches(p, s)}
  OBVIOUS
<1>1. ListHolds' /\ Pairs' = Pairs \ gone
  BY Sheds DEF ArchiveInv, DeleteShot, Without
<1>2. ArchiveTyped'
  <2>1. live' \subseteq Ends /\ stray' \subseteq Pairs'
    BY <1>1 DEF ArchiveInv, ArchiveTyped, DeleteShot
  <2> QED
    BY <2>1 DEF ArchiveInv, ArchiveTyped, DeleteShot
<1>3. ASSUME NEW p \in Pairs' \ stray'
      PROVE  p \in Pairs \ stray /\ {p[1], p[2]} \subseteq live'
  <2>1. p \in Pairs /\ ~Touches(p, s) /\ p \notin stray
    BY <1>1, <1>3 DEF DeleteShot
  <2>2. {p[1], p[2]} \subseteq live
    BY <2>1 DEF ArchiveInv, PairsLive
  <2>3. s \notin {p[1], p[2]}
    BY <2>1 DEF Touches
  <2> QED
    BY <2>1, <2>2, <2>3 DEF DeleteShot
<1>4. ASSUME NEW m \in Albums, madeFor'[m] # Void
      PROVE  /\ madeFor'[m] = madeFor[m] /\ slug'[m] = slug[m]
             /\ Sorted(madeFor[m], m) \notin gone
             /\ {m, madeFor[m]} \subseteq live'
             /\ madeFor[m] \in raced => madeFor[m] \in raced'
  <2>1. madeFor[m] # Void /\ madeFor[m] \in Titles
    BY <1>4 DEF DeleteShot, ArchiveInv, ArchiveTyped
  <2>2. madeFor[m] # s /\ m # s
    BY <2>1, EndsDiffer
  <2>3. /\ m \in live /\ madeFor[m] \in live
        /\ ~Touches(Sorted(madeFor[m], m), s)
    BY <2>1, <2>2, AlbumIs
  <2>4. slug'[m] = slug[m]
    BY <2>2 DEF DeleteShot, ArchiveInv, ArchiveTyped
  <2> QED
    BY <2>2, <2>3, <2>4 DEF DeleteShot
<1>5. raced' \subseteq raced /\ hand' = hand
  BY DEF DeleteShot
<1> QED
  BY <1>1, <1>2, <1>3, <1>4, <1>5, RemovalStep

LEMMA DeleteAlbumArchive ==
    ASSUME ArchiveInv, NEW m \in Albums, DeleteAlbum(m)
    PROVE  ArchiveInv'
<1> PICK gone : gone = {p \in Pairs : Touches(p, m)}
  OBVIOUS
<1> PICK shots : shots = {s \in Shots : parent[s] = m}
  OBVIOUS
<1>0. /\ live' = live \ ({m} \cup shots)
      /\ parent' = [s \in Shots |-> IF s \in shots THEN Void ELSE parent[s]]
      /\ slug' = [e \in Albums \cup Shots |-> IF e \in {m} \cup shots THEN Void ELSE slug[e]]
      /\ links' = Remaining(gone)
      /\ stray' = {p \in stray \cup {q \in Pairs : \E s \in shots : Touches(q, s)} : ~Touches(p, m)}
      /\ madeFor' = [madeFor EXCEPT ![m] = Void]
      /\ UNCHANGED <<hand, raced>>
  BY DEF DeleteAlbum, Without
<1>1. ListHolds' /\ Pairs' = Pairs \ gone
  BY <1>0, Sheds DEF ArchiveInv
<1>2. ArchiveTyped'
  <2>1. live' \subseteq Ends
    BY <1>0 DEF ArchiveInv, ArchiveTyped
  <2>2. stray' \subseteq Pairs'
    BY <1>0, <1>1 DEF ArchiveInv, ArchiveTyped
  <2>3. parent' \in [Shots -> Albums \cup {Void}]
    BY <1>0 DEF ArchiveInv, ArchiveTyped
  <2>4. slug' \in [Albums \cup Shots -> Slugs \cup {Void}]
    BY <1>0 DEF ArchiveInv, ArchiveTyped
  <2>5. madeFor' \in [Albums -> Titles \cup {Void}]
    BY <1>0 DEF ArchiveInv, ArchiveTyped
  <2> QED
    BY <1>0, <2>1, <2>2, <2>3, <2>4, <2>5 DEF ArchiveInv, ArchiveTyped
<1>3. ASSUME NEW p \in Pairs' \ stray'
      PROVE  p \in Pairs \ stray /\ {p[1], p[2]} \subseteq live'
  <2>1. p \in Pairs /\ ~Touches(p, m)
    BY <1>1, <1>3
  <2>2. p \notin stray /\ \A s \in shots : ~Touches(p, s)
    BY <1>0, <1>3, <2>1
  <2>3. {p[1], p[2]} \subseteq live
    BY <2>1, <2>2 DEF ArchiveInv, PairsLive
  <2>4. \A e \in {m} \cup shots : e \notin {p[1], p[2]}
    BY <2>1, <2>2 DEF Touches
  <2> QED
    BY <1>0, <2>1, <2>2, <2>3, <2>4
<1>4. ASSUME NEW n \in Albums, madeFor'[n] # Void
      PROVE  /\ madeFor'[n] = madeFor[n] /\ slug'[n] = slug[n]
             /\ Sorted(madeFor[n], n) \notin gone
             /\ {n, madeFor[n]} \subseteq live'
             /\ madeFor[n] \in raced => madeFor[n] \in raced'
  <2>1. n # m /\ madeFor'[n] = madeFor[n] /\ madeFor[n] \in Titles
    BY <1>0, <1>4 DEF ArchiveInv, ArchiveTyped
  <2>2. madeFor[n] \notin {m} \cup shots /\ n \notin {m} \cup shots
    BY <2>1, EndsDiffer
  <2>3. madeFor[n] # Void
    BY <1>4, <2>1
  <2>4. /\ n \in live /\ madeFor[n] \in live
        /\ ~Touches(Sorted(madeFor[n], n), m)
    BY <2>2, <2>3, AlbumIs
  <2>5. slug'[n] = slug[n]
    BY <1>0, <2>2
  <2> QED
    BY <1>0, <2>1, <2>2, <2>4, <2>5
<1> QED
  BY <1>0, <1>1, <1>2, <1>3, <1>4, RemovalStep

LEMMA UnlinkArchive ==
    ASSUME ArchiveInv, NEW a \in Ends, NEW b \in Ends, Unlink(a, b)
    PROVE  ArchiveInv'
<1> PICK gone : gone = {Sorted(a, b)}
  OBVIOUS
<1>1. ListHolds' /\ Pairs' = Pairs \ gone
  BY Sheds DEF ArchiveInv, Unlink
<1>2. ArchiveTyped'
  <2>1. stray' \subseteq Pairs'
    BY <1>1 DEF ArchiveInv, ArchiveTyped, Unlink
  <2>2. madeFor' \in [Albums -> Titles \cup {Void}]
    BY DEF ArchiveInv, ArchiveTyped, Unlink
  <2> QED
    BY <2>1, <2>2 DEF ArchiveInv, ArchiveTyped, Unlink
<1>3. ASSUME NEW p \in Pairs' \ stray'
      PROVE  p \in Pairs \ stray /\ {p[1], p[2]} \subseteq live'
  <2>1. p \in Pairs /\ p \notin stray
    BY <1>1, <1>3 DEF Unlink
  <2> QED
    BY <2>1 DEF ArchiveInv, PairsLive, Unlink
<1>4. ASSUME NEW m \in Albums, madeFor'[m] # Void
      PROVE  /\ madeFor'[m] = madeFor[m] /\ slug'[m] = slug[m]
             /\ Sorted(madeFor[m], m) \notin gone
             /\ {m, madeFor[m]} \subseteq live'
             /\ madeFor[m] \in raced => madeFor[m] \in raced'
  <2>1. madeFor'[m] = madeFor[m] /\ ~(m \in {a, b} /\ madeFor[m] \in {a, b})
    BY <1>4 DEF Unlink
  <2>2. /\ m \in live /\ madeFor[m] \in live
        /\ \A e : Touches(Sorted(madeFor[m], m), e) <=> e \in {madeFor[m], m}
    BY <1>4, <2>1, AlbumIs
  <2>3. Sorted(madeFor[m], m) # Sorted(a, b)
    <3> SUFFICES ASSUME Sorted(madeFor[m], m) = Sorted(a, b) PROVE FALSE
      OBVIOUS
    <3>1. \A e \in {madeFor[m], m} : e \in {a, b}
      BY <2>2 DEF Touches, Sorted
    <3> QED
      BY <2>1, <3>1
  <2> QED
    BY <2>1, <2>2, <2>3 DEF Unlink
<1>5. raced' \subseteq raced /\ hand' = hand
  BY DEF Unlink
<1> QED
  BY <1>1, <1>2, <1>3, <1>4, <1>5, RemovalStep

LEMMA CommitLinkArchive ==
    ASSUME ArchiveInv, NEW r \in Hands, CommitLink(r)
    PROVE  ArchiveInv'
<1> PICK p : p = hand[r].pair
  OBVIOUS
<1>0. /\ hand' = [hand EXCEPT ![r] = AtRest]
      /\ IF p \in Pairs THEN UNCHANGED <<links, stray>>
         ELSE /\ links' = Append(links, p)
              /\ stray' = IF {p[1], p[2]} \subseteq live THEN stray ELSE stray \cup {p}
      /\ UNCHANGED <<live, parent, slug, madeFor, raced>>
      /\ p \in OrderedJoints
  BY HandIs DEF CommitLink, ArchiveInv
<1>1. CASE p \in Pairs
  BY <1>0, <1>1, RequestEnds
<1>2. CASE p \notin Pairs
  <2>1. ListHolds' /\ Pairs' = Pairs \cup {p}
    BY <1>0, <1>2, Gains DEF ArchiveInv
  <2>2. stray' = (IF {p[1], p[2]} \subseteq live THEN stray ELSE stray \cup {p})
    BY <1>0, <1>2
  <2>3. /\ hand' \in [Hands -> {AtRest} \cup Linking \cup Drawing]
        /\ hand'[r] = AtRest
        /\ \A o \in Hands : o # r => hand'[o] = hand[o]
    BY <1>0, HandsBecome DEF ArchiveInv
  <2>4. ArchiveTyped'
    <3>1. stray' \subseteq Pairs'
      BY <2>1, <2>2 DEF ArchiveInv, ArchiveTyped
    <3> QED
      BY <1>0, <2>3, <3>1 DEF ArchiveInv, ArchiveTyped
  <2>5. PairsLive'
    BY <1>0, <2>1, <2>2 DEF ArchiveInv, PairsLive
  <2>6. AlbumsLinked'
    BY <1>0, <2>1 DEF ArchiveInv, AlbumsLinked
  <2>7. OneEach'
    BY <1>0 DEF ArchiveInv, OneEach
  <2>8. SlugsCollide'
    <3> SUFFICES ASSUME NEW o \in Hands, NEW n \in Albums,
                        hand'[o].kind = "art", hand'[o].album = Void,
                        madeFor[n] = hand'[o].title, madeFor[n] \notin raced
                 PROVE  hand'[o].slug # Void /\ slug[n] = hand'[o].slug
      BY <1>0 DEF SlugsCollide
    <3>1. o # r
      BY <2>3 DEF AtRest
    <3> QED
      BY <2>3, <3>1 DEF ArchiveInv, SlugsCollide
  <2> QED
    BY <2>1, <2>4, <2>5, <2>6, <2>7, <2>8 DEF ArchiveInv
<1> QED
  BY <1>1, <1>2

\* Artwork joins an album that is there.
LEMMA JoinArchive ==
    ASSUME ArchiveInv, NEW r \in Hands, NEW m \in Albums, NEW s \in Shots,
           hand' = [hand EXCEPT ![r] = AtRest], JoinAlbum(r, m, s)
    PROVE  ArchiveInv'
<1>1. /\ hand' \in [Hands -> {AtRest} \cup Linking \cup Drawing]
      /\ hand'[r] = AtRest
      /\ \A o \in Hands : o # r => hand'[o] = hand[o]
  BY HandsBecome DEF ArchiveInv
<1>2. ArchiveTyped'
  <2>1. Pairs' = Pairs
    BY Stays DEF ArchiveInv, JoinAlbum
  <2>2. live' \subseteq Ends /\ parent' \in [Shots -> Albums \cup {Void}]
    BY EndsDiffer DEF ArchiveInv, ArchiveTyped, JoinAlbum
  <2> QED
    BY <1>1, <2>1, <2>2 DEF ArchiveInv, ArchiveTyped, JoinAlbum
<1>3. AtRest.kind # "art"
  BY DEF AtRest
<1> QED
  BY <1>1, <1>2, <1>3, QuietStep DEF JoinAlbum

\* Artwork makes an album: no other of the title's is there, or the slugs would collide.
LEMMA NewAlbumArchive ==
    ASSUME ArchiveInv, NEW r \in Hands, NEW m \in Albums, NEW s \in Shots,
           hand[r].kind = "art", hand[r].album = Void, hand[r].slug # Void,
           ~Collides(hand[r].slug),
           hand' = [hand EXCEPT ![r] = AtRest], NewAlbum(r, m, s)
    PROVE  ArchiveInv'
<1> PICK g : g = hand[r]
  OBVIOUS
<1> PICK t : t = g.title
  OBVIOUS
<1> PICK p : p = Sorted(t, m)
  OBVIOUS
<1>0. /\ m \notin live /\ p \notin Pairs
      /\ live' = live \cup {m, s}
      /\ parent' = [parent EXCEPT ![s] = m]
      /\ slug' = [slug EXCEPT ![m] = g.slug]
      /\ links' = Append(links, p)
      /\ stray' = (IF t \in live THEN stray ELSE stray \cup {p})
      /\ madeFor' = [madeFor EXCEPT ![m] = IF t \in live THEN t ELSE Void]
      /\ raced' = (IF Late(r) # {} THEN raced \cup {t} ELSE raced)
  BY DEF NewAlbum
<1>1. /\ g \in Drawing /\ t \in Titles /\ g.slug \in Slugs
      /\ g.kind = "art" /\ g.album = Void /\ g.slug # Void
  BY HandIs DEF ArchiveInv
<1>2. /\ p \in OrderedJoints /\ {p[1], p[2]} = {t, m}
      /\ t # m /\ t # Void /\ t \in Ends /\ m \in Ends /\ s \in Ends /\ m # s
  <2>1. t # m /\ t # Void /\ t \in Ends /\ m \in Ends /\ s \in Ends /\ m # s
    BY <1>1, EndsDiffer
  <2> QED
    BY <2>1, SortedIs
<1>3. ListHolds' /\ Pairs' = Pairs \cup {p}
  BY <1>0, <1>2, Gains DEF ArchiveInv
<1>4. /\ hand' \in [Hands -> {AtRest} \cup Linking \cup Drawing]
      /\ hand'[r] = AtRest
      /\ \A o \in Hands : o # r => hand'[o] = hand[o]
  BY HandsBecome DEF ArchiveInv
<1>5. /\ slug' \in [Albums \cup Shots -> Slugs \cup {Void}]
      /\ slug'[m] = g.slug /\ \A n \in Albums : n # m => slug'[n] = slug[n]
  BY <1>0, <1>1 DEF ArchiveInv, ArchiveTyped
<1>6. /\ madeFor' \in [Albums -> Titles \cup {Void}]
      /\ madeFor'[m] = (IF t \in live THEN t ELSE Void)
      /\ \A n \in Albums : n # m => madeFor'[n] = madeFor[n]
  BY <1>0, <1>1 DEF ArchiveInv, ArchiveTyped
<1>7. ArchiveTyped'
  <2>1. live' \subseteq Ends /\ parent' \in [Shots -> Albums \cup {Void}]
    BY <1>0, <1>2 DEF ArchiveInv, ArchiveTyped
  <2>2. stray' \subseteq Pairs' /\ raced' \subseteq Titles
    BY <1>0, <1>1, <1>3 DEF ArchiveInv, ArchiveTyped
  <2> QED
    BY <1>4, <1>5, <1>6, <2>1, <2>2 DEF ArchiveTyped
<1>8. PairsLive'
  <2> SUFFICES ASSUME NEW q \in Pairs' \ stray'
               PROVE  {q[1], q[2]} \subseteq live'
    BY DEF PairsLive
  <2>1. CASE q = p
    <3>1. t \in live
      BY <1>0, <2>1
    <3> QED
      BY <1>0, <1>2, <2>1, <3>1
  <2>2. CASE q # p
    <3>1. q \in Pairs \ stray
      BY <1>0, <1>3, <2>2
    <3> QED
      BY <1>0, <3>1 DEF ArchiveInv, PairsLive
  <2> QED
    BY <2>1, <2>2
<1>9. AlbumsLinked'
  <2> SUFFICES ASSUME NEW n \in Albums, madeFor'[n] # Void
               PROVE  Sorted(madeFor'[n], n) \in Pairs' /\ {n, madeFor'[n]} \subseteq live'
    BY DEF AlbumsLinked
  <2>1. CASE n = m
    BY <1>0, <1>3, <1>6, <2>1
  <2>2. CASE n # m
    BY <1>0, <1>3, <1>6, <2>2 DEF ArchiveInv, AlbumsLinked
  <2> QED
    BY <2>1, <2>2
<1>10. \A n \in Albums : madeFor[n] = t => t \in raced
  <2> SUFFICES ASSUME NEW n \in Albums, madeFor[n] = t, t \notin raced
               PROVE  FALSE
    OBVIOUS
  <2>1. slug[n] = g.slug
    BY <1>1 DEF ArchiveInv, SlugsCollide
  <2>2. n \in live
    BY <1>2, AlbumIs
  <2> QED
    BY <2>1, <2>2 DEF Collides
<1>11. raced \subseteq raced'
  BY <1>0
<1>12. OneEach'
  <2> SUFFICES ASSUME NEW n \in Albums, NEW k \in Albums,
                      madeFor'[n] # Void, madeFor'[n] = madeFor'[k], madeFor'[n] \notin raced'
               PROVE  n = k
    BY DEF OneEach
  <2>1. CASE n # m /\ k # m
    BY <1>6, <1>11, <2>1 DEF ArchiveInv, OneEach
  <2>2. ASSUME NEW i \in Albums, i # m, madeFor'[i] = madeFor'[m], madeFor'[m] # Void,
               madeFor'[m] \notin raced'
        PROVE  FALSE
    BY <1>6, <1>10, <1>11, <2>2
  <2> QED
    BY <2>1, <2>2
<1>13. SlugsCollide'
  <2> SUFFICES ASSUME NEW o \in Hands, NEW n \in Albums,
                      hand'[o].kind = "art", hand'[o].album = Void,
                      madeFor'[n] = hand'[o].title, madeFor'[n] \notin raced'
               PROVE  hand'[o].slug # Void /\ slug'[n] = hand'[o].slug
    BY DEF SlugsCollide
  <2>1. o # r /\ hand'[o] = hand[o]
    BY <1>4 DEF AtRest
  <2>2. hand[o].title # Void
    <3>1. hand[o].title \in Titles
      BY <2>1, HandIs DEF ArchiveInv
    <3> QED
      BY <3>1, EndsDiffer
  <2>3. CASE n = m
    <3>1. hand[o].title = t
      BY <1>6, <2>1, <2>2, <2>3
    <3>2. Late(r) = {}
      BY <1>0, <2>1, <3>1
    <3>3. hand[o].slug = hand[r].slug
      BY <2>1, <3>1, <3>2 DEF Late
    <3> QED
      BY <1>1, <1>5, <2>1, <2>3, <3>3
  <2>4. CASE n # m
    BY <1>5, <1>6, <1>11, <2>1, <2>4 DEF ArchiveInv, SlugsCollide
  <2> QED
    BY <2>3, <2>4
<1> QED
  BY <1>3, <1>7, <1>8, <1>9, <1>12, <1>13 DEF ArchiveInv

LEMMA CommitArtArchive ==
    ASSUME ArchiveInv, NEW r \in Hands, NEW m \in Albums, NEW s \in Shots, CommitArt(r, m, s)
    PROVE  ArchiveInv'
<1>1. /\ hand[r].kind = "art" /\ hand[r].title \in Titles
      /\ hand[r].album \in Albums \cup {Void}
      /\ hand' = [hand EXCEPT ![r] = AtRest]
  BY HandIs DEF ArchiveInv, CommitArt
<1>2. CASE AlbumFor(r) # Void /\ JoinAlbum(r, AlbumFor(r), s)
  <2>1. AlbumFor(r) \in Albums
    BY <1>1, <1>2, EarliestIs DEF AlbumFor
  <2> QED
    BY <1>1, <1>2, <2>1, JoinArchive
<1>3. CASE AlbumFor(r) = Void /\ ~Collides(hand[r].slug) /\ NewAlbum(r, m, s)
  <2>1. hand[r].album = Void
    BY <1>3 DEF AlbumFor
  <2>2. hand[r].slug # Void
    BY <2>1 DEF CommitArt
  <2> QED
    BY <1>1, <1>3, <2>1, <2>2, NewAlbumArchive
<1> QED
  BY <1>2, <1>3 DEF CommitArt
-------------------------------------------------------------------------------
LEMMA ArchiveInit == LinksInit => ArchiveInv
<1> SUFFICES ASSUME LinksInit PROVE ArchiveInv
  OBVIOUS
<1>1. links = <<>> /\ DOMAIN links = {} /\ Pairs = {}
  BY DEF LinksInit, Pairs
<1>2. ListHolds
  BY <1>1 DEF ListHolds, LinksTyped
<1>3. ArchiveTyped
  BY <1>1 DEF LinksInit, ArchiveTyped
<1>4. PairsLive
  BY <1>1 DEF PairsLive
<1>5. \A m \in Albums : madeFor[m] = Void
  BY DEF LinksInit
<1>6. AlbumsLinked /\ OneEach
  BY <1>5 DEF AlbumsLinked, OneEach
<1>7. \A r \in Hands : hand[r].kind # "art"
  BY DEF LinksInit, AtRest
<1>8. SlugsCollide
  BY <1>7 DEF SlugsCollide
<1> QED
  BY <1>2, <1>3, <1>4, <1>6, <1>8 DEF ArchiveInv

LEMMA ArchiveStep == ArchiveInv /\ [LinksNext]_linksVars => ArchiveInv'
<1> SUFFICES ASSUME ArchiveInv, [LinksNext]_linksVars PROVE ArchiveInv'
  OBVIOUS
<1>1. ASSUME NEW t \in Titles, CreateTitle(t) \/ DeleteTitle(t)
      PROVE  ArchiveInv'
  BY <1>1, CreateTitleArchive, DeleteTitleArchive
<1>2. ASSUME NEW m \in Albums, DeleteAlbum(m) \/ \E name \in Names : CreateAlbum(m, name)
      PROVE  ArchiveInv'
  BY <1>2, DeleteAlbumArchive, CreateAlbumArchive
<1>3. ASSUME NEW s \in Shots,
             \/ DeleteShot(s)
             \/ \E m \in Albums \cup {Void} : MoveShot(s, m)
             \/ \E m \in Albums, name \in Names : CreateShot(s, m, name)
      PROVE  ArchiveInv'
  BY <1>3, DeleteShotArchive, MoveShotArchive, CreateShotArchive
<1>4. ASSUME NEW a \in Ends, NEW b \in Ends, Unlink(a, b)
      PROVE  ArchiveInv'
  BY <1>4, UnlinkArchive
<1>5. ASSUME NEW r \in Hands,
             \/ CommitLink(r) \/ NameArt(r) \/ GiveUp(r)
             \/ \E a, b \in Ends : BeginLink(r, a, b)
             \/ \E t \in Titles : BeginArt(r, t)
             \/ \E m \in Albums, s \in Shots : CommitArt(r, m, s)
      PROVE  ArchiveInv'
  BY <1>5, CommitLinkArchive, NameArtArchive, GiveUpArchive, BeginLinkArchive,
     BeginArtArchive, CommitArtArchive
<1>6. CASE UNCHANGED linksVars
  <2>1. UNCHANGED <<live, parent, slug, links, hand, stray, madeFor, raced>>
    BY <1>6 DEF linksVars
  <2>2. ArchiveTyped'
    <3>1. Pairs' = Pairs
      BY <2>1 DEF Pairs
    <3> QED
      BY <2>1, <3>1 DEF ArchiveInv, ArchiveTyped
  <2> QED
    BY <2>1, <2>2, QuietStep
<1> QED
  BY <1>1, <1>2, <1>3, <1>4, <1>5, <1>6 DEF LinksNext

\* What every state of the archive satisfies.
LEMMA ArchiveAlways == LinksSpec => []ArchiveInv
BY ArchiveInit, ArchiveStep, PTL DEF LinksSpec

\* Type correctness of the archive, for any number of titles, media and requests.
THEOREM LinksTypeCorrect == LinksSpec => []LinksTypeOK
<1>1. ArchiveInv => LinksTypeOK
  <2> SUFFICES ASSUME ArchiveInv PROVE LinksTypeOK
    OBVIOUS
  <2>1. \A r \in Hands : hand[r].kind \in {"none", "link", "art"} /\ hand[r].title \in Titles \cup {Void}
    BY HandIs DEF ArchiveInv
  <2>2. links \in Seq(Ends \X Ends)
    BY DEF ArchiveInv, ListHolds, LinksTyped, Joints
  <2> QED
    BY <2>1, <2>2 DEF ArchiveInv, ArchiveTyped, LinksTypeOK
<1> QED
  BY <1>1, ArchiveAlways, PTL

\* Whatever is deleted, made or given an id again at the same time: links join two things
\* that exist, once, and the artwork of a title is in one album, but for the links that
\* were made while an end went and the titles whose requests raced.
THEOREM ArchiveStaysSound == LinksSpec => []ArchiveIsSound
<1>1. ArchiveInv => LinksAreSound
  <2> SUFFICES ASSUME ArchiveInv PROVE LinksAreSound
    OBVIOUS
  <2>1. \A p \in Pairs : p[1] # p[2] /\ <<p[2], p[1]>> \notin Pairs
    <3> SUFFICES ASSUME NEW p \in Pairs
                 PROVE  p[1] # p[2] /\ <<p[2], p[1]>> \notin Pairs
      OBVIOUS
    <3>1. /\ p \in Joints /\ Rank[p[1]] < Rank[p[2]]
          /\ Rank[p[1]] \in Nat /\ Rank[p[2]] \in Nat
      BY LinksAssumption DEF ArchiveInv, ListHolds, OrderedJoints, Joints
    <3> PICK q : q = <<p[2], p[1]>>
      OBVIOUS
    <3>2. q \notin OrderedJoints
      BY <3>1 DEF OrderedJoints
    <3> QED
      BY <3>1, <3>2 DEF ArchiveInv, ListHolds
  <2> QED
    BY <2>1 DEF ArchiveInv, ListHolds, PairsLive, LinksAreSound
<1>2. ArchiveInv => OneAlbumPerTitle
  <2> SUFFICES ASSUME ArchiveInv, NEW t \in live \cap Titles, t \notin raced
               PROVE  Cardinality({m \in Albums : madeFor[m] = t}) <= 1
    BY DEF OneAlbumPerTitle
  <2> PICK M : M = {m \in Albums : madeFor[m] = t}
    OBVIOUS
  <2>1. \A m, n \in M : m = n
    BY EndsDiffer DEF ArchiveInv, OneEach
  <2>2. CASE M = {}
    BY <2>2, FS_EmptySet
  <2>3. CASE M # {}
    <3>1. PICK m : M = {m}
      BY <2>1, <2>3
    <3>2. Cardinality({m}) = 1
      BY FS_Singleton
    <3> QED
      BY <3>1, <3>2
  <2> QED
    BY <2>2, <2>3
<1>3. ArchiveInv => ArchiveIsSound
  BY <1>1, <1>2 DEF ArchiveIsSound
<1> QED
  BY <1>3, ArchiveAlways, PTL
-------------------------------------------------------------------------------
\* Side by side, as the runs have them: a step moves one of the components and leaves
\* the variables of the others, so a behaviour is one of each of them.
LEMMA OneOfEach == MCSpec => CatalogSpec /\ LinksSpec /\ MachinesSpec
<1>1. MCInit => CatalogInit /\ LinksInit /\ MachinesInit
  BY DEF MCInit
<1>2. [MCNext]_<<MCVars, turn>> =>
        [CatalogNext]_catalogVars /\ [LinksNext]_linksVars /\ [MachinesNext]_machinesVars
  BY DEF MCNext, MCVars, Others, MCCatalog
<1> QED
  BY <1>1, <1>2, PTL DEF MCSpec, CatalogSpec, LinksSpec, MachinesSpec

\* Type correctness of all of it at once, whichever component moves.
THEOREM ShelfTypeCorrect == MCSpec => []TypeOK
<1>1. MCInit => turn \in MCTurns
  BY DEF MCInit
<1>2. turn \in MCTurns /\ [MCNext]_<<MCVars, turn>> => (turn \in MCTurns)'
  BY DEF MCNext, MCVars, Others
<1>3. MCSpec => [](turn \in MCTurns)
  BY <1>1, <1>2, PTL DEF MCSpec
<1>4. turn \in MCTurns /\ CatalogTypeOK /\ LinksTypeOK /\ MachinesTypeOK => TypeOK
  BY DEF TypeOK
<1> QED
  BY <1>3, <1>4, OneOfEach, CatalogTypeCorrect, LinksTypeCorrect, MachinesTypeCorrect, PTL
===============================================================================
