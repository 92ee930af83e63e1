------------------------------ MODULE AccessProofs ------------------------------
(* What the routes let through, for any accounts, ratings, maps of severities and  *)
(* number of requests at once: an account sees exactly what was neither restricted *)
(* nor rated away from it, no rating from a provider opens more than the one before *)
(* it, a confirmation token confirms once, and what it was issued for, and a window *)
(* of the limiter lets through no attempt more and none less than it may.  And what *)
(* the routes install, for any releases and any number of tasks: the status of an  *)
(* install is true of its files, and an interrupted clone leaves nothing in the way *)
(* of the next one.                                                                 *)
EXTENDS MCAccess, AccountsProofs, BackendsProofs, FiniteSetTheorems, TLAPS

\* An edit in flight is of a game that is there, and unless it was overtaken it has
\* read the rating that the game has and was confirmed where that has to be.
EditsKnow ==
    \A r \in Editors :
        edit[r] # Calm =>
            /\ edit[r].game \in there["game"]
            /\ ~edit[r].changed =>
                /\ edit[r].from = rating[edit[r].game]
                /\ NeedsConfirmation(edit[r].from, edit[r].to) => edit[r].confirmed

\* The last rating that a provider gave, unconfirmed, needed no confirmation.
LastKnown ==
    last.by # "none" =>
        /\ last.game \in there["game"]
        /\ last.by = "enrich" /\ ~last.confirmed /\ ~last.changed =>
                ~NeedsConfirmation(last.from, rating[last.game])

VisibilityInv == VisibilityTypeOK /\ EditsKnow /\ LastKnown

Edits == [game : Entities \cup {NULL}, from : Values, to : Values,
          confirmed : BOOLEAN, changed : BOOLEAN]

Lasts == [by : {"none", "enrich", "patch"}, game : Entities \cup {NULL}, from : Values,
          confirmed : BOOLEAN, changed : BOOLEAN]
-------------------------------------------------------------------------------
(* Lemmas about the operators.                                                   *)

\* An editor that changes nothing, and no rating written.
LEMMA CalmIs ==
    /\ Calm \in Edits /\ Calm.game = NULL
    /\ Nothing \in Lasts /\ Nothing.by = "none"
    /\ NULL \notin Entities
<1>1. NULL \in Entities \cup {NULL} /\ Unrated \in Values /\ FALSE \in BOOLEAN
    BY DEF Values
<1>2. Calm \in Edits
    BY <1>1 DEF Calm, Edits
<1>3. Nothing \in Lasts
    BY <1>1 DEF Nothing, Lasts
<1> QED BY <1>2, <1>3, VisibilityAssumption DEF Calm, Nothing

\* A map of severities maps ratings to integers.
LEMMA OrdinalsAre ==
    ASSUME custom \in RatingMaps \cup {NoMap}
    PROVE  DOMAIN Ordinals \subseteq Ratings /\ \A r \in DOMAIN Ordinals : Ordinals[r] \in Int
<1>1. CASE custom = NoMap
    <2>1. Ordinals = Severity
        BY <1>1 DEF Ordinals
    <2> QED BY <2>1, VisibilityAssumption
<1>2. CASE custom # NoMap
    <2>1. Ordinals = custom /\ custom \in RatingMaps
        BY <1>2 DEF Ordinals
    <2>2. DOMAIN custom \subseteq Ratings /\ custom \in [DOMAIN custom -> Int]
        BY <2>1, VisibilityAssumption
    <2> QED BY <2>1, <2>2
<1> QED BY <1>1, <1>2

\* The column of a domain holds the bundle of a row of that domain, and no other.
LEMMA RestrictedIs ==
    ASSUME rows \subseteq [user : Viewers, domain : Domains, entity : Entities],
           NEW d \in Domains, NEW u \in Viewers, NEW e \in Entities
    PROVE  /\ e \in RestrictedIds(d, u) <=> [user |-> u, domain |-> d, entity |-> e] \in rows
           /\ NULL \notin RestrictedIds(d, u)
<1> DEFINE mine == {x \in rows : x.user = u}
<1>1. NULL \notin RestrictedIds(d, u)
    BY DEF RestrictedIds
<1>2. ASSUME e \in RestrictedIds(d, u)
      PROVE  [user |-> u, domain |-> d, entity |-> e] \in rows
    <2>1. e \in {Column(row, d) : row \in mine} /\ e # NULL
        BY <1>2 DEF RestrictedIds
    <2>2. PICK row \in mine : e = Column(row, d)
        BY <2>1
    <2>3. row \in rows /\ row.user = u /\ row.domain = d /\ row.entity = e
        BY <2>1, <2>2 DEF Column
    <2>4. row \in [user : Viewers, domain : Domains, entity : Entities]
        BY <2>3
    <2>5. row = [user |-> u, domain |-> d, entity |-> e]
        BY <2>3, <2>4
    <2> QED BY <2>3, <2>5
<1>3. ASSUME [user |-> u, domain |-> d, entity |-> e] \in rows
      PROVE  e \in RestrictedIds(d, u)
    <2> DEFINE row == [user |-> u, domain |-> d, entity |-> e]
    <2>1. row \in mine /\ Column(row, d) = e
        BY <1>3 DEF Column
    <2>2. e # NULL
        BY VisibilityAssumption
    <2> QED BY <2>1, <2>2 DEF RestrictedIds
<1> QED BY <1>1, <1>2, <1>3

\* Whoever may see a game by its new rating was allowed to by the old one, if the
\* change from it needs no confirmation.
LEMMA NothingOpens ==
    ASSUME custom \in RatingMaps \cup {NoMap}, NEW old \in Values, NEW new \in Values,
           old # Unrated, ~NeedsConfirmation(old, new), NEW u \in Viewers, PassesRating(u, new)
    PROVE  PassesRating(u, old)
<1>1. CASE new = old
    BY <1>1
<1>2. CASE new # old
    <2>1. /\ new # Unrated /\ old \in DOMAIN Ordinals /\ new \in DOMAIN Ordinals
          /\ ~(Ordinals[new] < Ordinals[old])
        BY <1>2 DEF NeedsConfirmation
    <2>2. ASSUME ceiling[u] # NoCeiling
          PROVE  old \in Allowed(u)
        <3>1. new \in Allowed(u)
            BY <2>1, <2>2 DEF PassesRating
        <3>2. ceiling[u] \in DOMAIN Ordinals /\ Ordinals[new] <= Ordinals[ceiling[u]]
            BY <3>1 DEF Allowed
        <3>3. /\ Ordinals[new] \in Int /\ Ordinals[old] \in Int /\ Ordinals[ceiling[u]] \in Int
            BY <2>1, <3>2, OrdinalsAre
        <3>4. Ordinals[old] <= Ordinals[ceiling[u]]
            BY <2>1, <3>2, <3>3
        <3> QED BY <2>1, <3>2, <3>4 DEF Allowed
    <2> QED BY <2>2 DEF PassesRating
<1> QED BY <1>1, <1>2
-------------------------------------------------------------------------------
(* The filters.                                                                  *)

\* What is restricted is what is hidden: a consequence of the rows' types.
LEMMA FiltersHide ==
    ASSUME VisibilityTypeOK
    PROVE  RestrictionsAreExact
<1> SUFFICES ASSUME NEW u \in Viewers
             PROVE  /\ \A d \in Domains \ {"game"} :
                         Visible(d, u) = {e \in there[d] : [user |-> u, domain |-> d, entity |-> e] \notin rows}
                    /\ \A e \in there["game"] : ceiling[u] = NoCeiling /\ ~blocks[u] =>
                         (e \in Visible("game", u) <=> [user |-> u, domain |-> "game", entity |-> e] \notin rows)
                    /\ VisibleItems(u) =
                         {i \in items : [user |-> u, domain |-> "media", entity |-> i.bundle] \notin rows}
    BY DEF RestrictionsAreExact
<1>1. /\ u # Boss /\ "game" \in Domains /\ "media" \in Domains /\ NULL \notin Entities
      /\ rows \subseteq [user : Viewers, domain : Domains, entity : Entities]
      /\ items \subseteq [bundle : Entities \cup {NULL}]
      /\ \A d \in Domains : there[d] \subseteq Entities
    BY VisibilityAssumption DEF VisibilityTypeOK
<1>2. \A d \in Domains, e \in Entities :
        NotIn(e, RestrictedIds(d, u)) <=> [user |-> u, domain |-> d, entity |-> e] \notin rows
    BY <1>1, RestrictedIs DEF NotIn
<1>3. \A d \in Domains \ {"game"} :
        Visible(d, u) = {e \in there[d] : [user |-> u, domain |-> d, entity |-> e] \notin rows}
    BY <1>1, <1>2 DEF Visible
<1>4. \A e \in there["game"] : ceiling[u] = NoCeiling /\ ~blocks[u] =>
        (e \in Visible("game", u) <=> [user |-> u, domain |-> "game", entity |-> e] \notin rows)
    BY <1>1, <1>2 DEF Visible, PassesRating
<1>5. VisibleItems(u) = {i \in items : [user |-> u, domain |-> "media", entity |-> i.bundle] \notin rows}
    <2>1. \A i \in items : i.bundle \in Entities \cup {NULL}
        BY <1>1
    <2>2. [user |-> u, domain |-> "media", entity |-> NULL] \notin rows
        BY <1>1
    <2>3. \A i \in items :
            (i.bundle = NULL \/ NotIn(i.bundle, RestrictedIds("media", u)))
                <=> [user |-> u, domain |-> "media", entity |-> i.bundle] \notin rows
        BY <1>1, <1>2, <2>1, <2>2
    <2> QED BY <1>1, <2>3 DEF VisibleItems
<1> QED BY <1>3, <1>4, <1>5

\* The last rating of a provider opens nothing.
LEMMA CeilingStays ==
    ASSUME VisibilityInv
    PROVE  CeilingHolds
<1> SUFFICES ASSUME NEW e \in there["game"], last.by = "enrich", last.game = e, ~last.confirmed,
                    ~last.changed, last.from # Unrated, NEW u \in Viewers, PassesRating(u, rating[e])
             PROVE  PassesRating(u, last.from)
    BY DEF CeilingHolds
<1>1. /\ custom \in RatingMaps \cup {NoMap} /\ last.from \in Values
      /\ e \in Entities /\ rating[e] \in Values
    BY VisibilityAssumption DEF VisibilityInv, VisibilityTypeOK
<1>2. ~NeedsConfirmation(last.from, rating[e])
    BY DEF VisibilityInv, LastKnown
<1> QED BY <1>1, <1>2, NothingOpens
-------------------------------------------------------------------------------
(* The steps.                                                                    *)

\* What has to be confirmed depends on the map alone.
LEMMA MapStays ==
    ASSUME UNCHANGED custom
    PROVE  \A old, new : NeedsConfirmation(old, new)' <=> NeedsConfirmation(old, new)
BY DEF NeedsConfirmation, Ordinals

\* Rows, items and what viewers may see have no part in a rating.
LEMMA KeepsBesides ==
    ASSUME VisibilityInv, VisibilityTypeOK', there["game"] \subseteq there'["game"],
           \A e \in there["game"] : rating'[e] = rating[e], UNCHANGED <<custom, edit, last>>
    PROVE  VisibilityInv'
<1>1. EditsKnow'
    BY MapStays DEF VisibilityInv, EditsKnow
<1>2. LastKnown'
    BY MapStays DEF VisibilityInv, LastKnown
<1> QED BY <1>1, <1>2 DEF VisibilityInv

\* A new bundle has had no rating changed.
LEMMA KeepsCreate ==
    ASSUME VisibilityInv, NEW d \in Domains, NEW e \in Entities, Create(d, e)
    PROVE  VisibilityInv'
<1>1. /\ e \notin there[d] /\ there' = [there EXCEPT ![d] = there[d] \cup {e}]
      /\ UNCHANGED <<items, rows, ceiling, blocks, custom, edit, last>>
    BY DEF Create
<1>2. /\ there \in [Domains -> SUBSET Entities] /\ rating \in [Entities -> Values]
    BY DEF VisibilityInv, VisibilityTypeOK
<1>3. PICK r \in Values : rating' = IF d = "game" THEN [rating EXCEPT ![e] = r] ELSE rating
    BY DEF Create
<1>4. there' \in [Domains -> SUBSET Entities] /\ there["game"] \subseteq there'["game"]
    BY <1>1, <1>2, VisibilityAssumption
<1>5. rating' \in [Entities -> Values] /\ \A x \in there["game"] : rating'[x] = rating[x]
    BY <1>1, <1>2, <1>3
<1>6. VisibilityTypeOK'
    BY <1>1, <1>4, <1>5 DEF VisibilityInv, VisibilityTypeOK
<1> QED BY <1>1, <1>4, <1>5, <1>6, KeepsBesides

\* A game that goes takes its edits and its last rating along.
LEMMA KeepsDelete ==
    ASSUME VisibilityInv, NEW d \in Domains, NEW e \in Entities, Delete(d, e)
    PROVE  VisibilityInv'
<1>1. /\ there' = [there EXCEPT ![d] = there[d] \ {e}]
      /\ rows' = {x \in rows : x.domain # d \/ x.entity # e}
      /\ items' = (IF d = "media" THEN {i \in items : i.bundle # e} ELSE items)
      /\ rating' = (IF d = "game" THEN [rating EXCEPT ![e] = Unrated] ELSE rating)
      /\ edit' = (IF d = "game"
                  THEN [r \in Editors |-> IF edit[r].game = e THEN Calm ELSE edit[r]] ELSE edit)
      /\ last' = (IF d = "game" /\ last.game = e THEN Nothing ELSE last)
      /\ UNCHANGED <<ceiling, blocks, custom>>
    BY DEF Delete
<1>2. /\ there \in [Domains -> SUBSET Entities] /\ rating \in [Entities -> Values]
      /\ edit \in [Editors -> Edits] /\ last \in Lasts
      /\ items \subseteq [bundle : Entities \cup {NULL}]
      /\ rows \subseteq [user : Viewers, domain : Domains, entity : Entities]
    BY DEF VisibilityInv, VisibilityTypeOK, Edits, Lasts
<1>3. there' \in [Domains -> SUBSET Entities]
    BY <1>1, <1>2
<1>4. rating' \in [Entities -> Values]
    BY <1>1, <1>2 DEF Values
<1>5. edit' \in [Editors -> Edits]
    BY <1>1, <1>2, CalmIs
<1>6. last' \in Lasts
    BY <1>1, <1>2, CalmIs
<1>7. VisibilityTypeOK'
    BY <1>1, <1>2, <1>3, <1>4, <1>5, <1>6 DEF VisibilityInv, VisibilityTypeOK, Edits, Lasts
<1>8. CASE d # "game"
    <2>1. there'["game"] = there["game"] /\ rating' = rating
        BY <1>1, <1>2, <1>8, VisibilityAssumption
    <2>2. edit' = edit /\ last' = last
        BY <1>1, <1>8
    <2> QED BY <1>1, <1>7, <2>1, <2>2, KeepsBesides
<1>9. CASE d = "game"
    <2>1. /\ there'["game"] = there["game"] \ {e}
          /\ \A x \in Entities \ {e} : rating'[x] = rating[x]
        BY <1>1, <1>2, <1>9
    <2>2. \A r \in Editors : edit'[r] = Calm \/ (edit'[r] = edit[r] /\ edit[r].game # e)
        BY <1>1, <1>9
    <2>3. there["game"] \subseteq Entities
        BY <1>2, VisibilityAssumption
    <2>4. EditsKnow'
        BY <1>1, <2>1, <2>2, <2>3, MapStays DEF VisibilityInv, EditsKnow
    <2>5. last'.by = "none" \/ (last' = last /\ last.game # e)
        BY <1>1, <1>9, CalmIs
    <2>6. LastKnown'
        BY <1>1, <2>1, <2>3, <2>5, MapStays DEF VisibilityInv, LastKnown
    <2> QED BY <1>7, <2>4, <2>6 DEF VisibilityInv
<1> QED BY <1>8, <1>9

\* Another map: whatever is in flight was decided by the map before it.
LEMMA KeepsSetMap ==
    ASSUME VisibilityInv, NEW m \in RatingMaps \cup {NoMap}, SetMap(m)
    PROVE  VisibilityInv'
<1>1. /\ custom' = m /\ last' = Nothing
      /\ edit' = [r \in Editors |-> IF edit[r] = Calm THEN Calm ELSE [edit[r] EXCEPT !.changed = TRUE]]
      /\ UNCHANGED <<there, rating, items, rows, ceiling, blocks>>
    BY DEF SetMap
<1>2. edit \in [Editors -> Edits]
    BY DEF VisibilityInv, VisibilityTypeOK, Edits
<1>3. \A r \in Editors : edit[r] # Calm =>
        /\ edit'[r] \in Edits /\ edit'[r].game = edit[r].game
        /\ edit'[r].changed
    BY <1>1, <1>2 DEF Edits
<1>4. \A r \in Editors : edit[r] = Calm => edit'[r] = Calm
    BY <1>1
<1>5. edit' \in [Editors -> Edits]
    BY <1>1, <1>3, <1>4, CalmIs
<1>6. VisibilityTypeOK'
    BY <1>1, <1>5, CalmIs DEF VisibilityInv, VisibilityTypeOK, Edits, Lasts
<1>7. EditsKnow'
    BY <1>1, <1>3, <1>4 DEF VisibilityInv, EditsKnow
<1>8. LastKnown'
    BY <1>1, CalmIs DEF LastKnown
<1> QED BY <1>6, <1>7, <1>8 DEF VisibilityInv

\* An edit begins with the rating that it has read, and is confirmed if it has to be.
LEMMA KeepsBeginEnrich ==
    ASSUME VisibilityInv, NEW r \in Editors, NEW e \in Entities, NEW raw \in Values,
           NEW confirmed \in BOOLEAN, BeginEnrich(r, e, raw, confirmed)
    PROVE  VisibilityInv'
<1> PICK n : n = [game |-> e, from |-> rating[e], to |-> Normalized(raw),
                  confirmed |-> confirmed, changed |-> FALSE]
    OBVIOUS
<1>1. /\ e \in there["game"] /\ (NeedsConfirmation(rating[e], Normalized(raw)) => confirmed)
      /\ edit' = [edit EXCEPT ![r] = n]
      /\ UNCHANGED <<there, rating, items, rows, ceiling, blocks, custom, last>>
    BY DEF BeginEnrich
<1>2. /\ rating \in [Entities -> Values] /\ edit \in [Editors -> Edits]
    BY DEF VisibilityInv, VisibilityTypeOK, Edits
<1>3. n.game = e /\ n.from = rating[e] /\ n.to = Normalized(raw)
    OBVIOUS
<1>4. (n.confirmed <=> confirmed) /\ ~n.changed
    OBVIOUS
<1>5. n \in Edits
    <2>1. Normalized(raw) \in Values /\ rating[e] \in Values /\ e \in Entities \cup {NULL}
        BY <1>2 DEF Normalized, Values
    <2>2. FALSE \in BOOLEAN
        OBVIOUS
    <2> QED BY <2>1, <2>2, Zenon DEF Edits
<1>6. edit' \in [Editors -> Edits] /\ edit'[r] = n /\ \A q \in Editors \ {r} : edit'[q] = edit[q]
    BY <1>1, <1>2, <1>5
<1>7. VisibilityTypeOK'
    BY <1>1, <1>6 DEF VisibilityInv, VisibilityTypeOK, Edits
<1>8. EditsKnow'
    BY <1>1, <1>3, <1>4, <1>6, MapStays DEF VisibilityInv, EditsKnow
<1>9. LastKnown'
    BY <1>1, MapStays DEF VisibilityInv, LastKnown
<1> QED BY <1>7, <1>8, <1>9 DEF VisibilityInv

\* Whoever had read the rating of a game that is changed now is overtaken.
LEMMA OvertakenIs ==
    ASSUME VisibilityInv, NEW e \in there["game"]
    PROVE  /\ Overtaken(e) \in [Editors -> Edits]
           /\ \A r \in Editors :
                /\ edit[r].game # e => Overtaken(e)[r] = edit[r]
                /\ edit[r].game = e => Overtaken(e)[r].game = e /\ Overtaken(e)[r].changed
<1>1. edit \in [Editors -> Edits]
    BY DEF VisibilityInv, VisibilityTypeOK, Edits
<1>2. \A r \in Editors :
        LET n == [edit[r] EXCEPT !.changed = TRUE] IN n \in Edits /\ n.game = edit[r].game /\ n.changed
    BY <1>1 DEF Edits
<1> QED BY <1>1, <1>2 DEF Overtaken

\* A rating is written: r is done, or there is no r, and all others are overtaken.
LEMMA RatingKeepsWrite ==
    ASSUME VisibilityInv, NEW e \in there["game"], NEW v \in Values, rating' = [rating EXCEPT ![e] = v],
           edit' \in [Editors -> Edits],
           \A r \in Editors : edit'[r] \in {Calm, Overtaken(e)[r]},
           last' \in Lasts, last'.game = e,
           last'.by = "enrich" /\ ~last'.confirmed /\ ~last'.changed => ~NeedsConfirmation(last'.from, v),
           UNCHANGED <<there, items, rows, ceiling, blocks, custom>>
    PROVE  VisibilityInv'
<1>1. /\ there["game"] \subseteq Entities /\ rating \in [Entities -> Values] /\ e \in Entities
    BY VisibilityAssumption DEF VisibilityInv, VisibilityTypeOK
<1>2. /\ rating' \in [Entities -> Values] /\ rating'[e] = v
      /\ \A x \in Entities \ {e} : rating'[x] = rating[x]
    BY <1>1
<1>3. VisibilityTypeOK'
    BY <1>2 DEF VisibilityInv, VisibilityTypeOK, Edits, Lasts
<1>4. EditsKnow'
    <2> SUFFICES ASSUME NEW r \in Editors, edit'[r] # Calm
                 PROVE  /\ edit'[r].game \in there["game"]
                        /\ ~edit'[r].changed =>
                            /\ edit'[r].from = rating'[edit'[r].game]
                            /\ NeedsConfirmation(edit'[r].from, edit'[r].to) => edit'[r].confirmed
        BY MapStays DEF EditsKnow
    <2>1. edit'[r] = Overtaken(e)[r]
        OBVIOUS
    <2>2. CASE edit[r].game = e
        BY <2>1, <2>2, OvertakenIs
    <2>3. CASE edit[r].game # e
        BY <1>1, <1>2, <2>1, <2>3, OvertakenIs DEF VisibilityInv, EditsKnow
    <2> QED BY <2>2, <2>3
<1>5. LastKnown'
    BY <1>2, MapStays DEF LastKnown
<1> QED BY <1>3, <1>4, <1>5 DEF VisibilityInv

\* What a provider's rating is written over is what was read, unless it was overtaken.
LEMMA KeepsCommitEnrich ==
    ASSUME VisibilityInv, NEW r \in Editors, CommitEnrich(r)
    PROVE  VisibilityInv'
<1> PICK e : e = edit[r].game
    OBVIOUS
<1> PICK v : v = IF edit[r].to # edit[r].from THEN edit[r].to ELSE rating[e]
    OBVIOUS
<1> PICK n : n = [by |-> "enrich", game |-> e, from |-> rating[e],
                  confirmed |-> edit[r].confirmed, changed |-> edit[r].changed]
    OBVIOUS
<1>1. /\ edit[r] # Calm /\ last' = n
      /\ rating' = (IF edit[r].to # edit[r].from THEN [rating EXCEPT ![e] = edit[r].to] ELSE rating)
      /\ edit' = [Overtaken(e) EXCEPT ![r] = Calm]
      /\ UNCHANGED <<there, items, rows, ceiling, blocks, custom>>
    BY DEF CommitEnrich
<1>2. e \in there["game"] /\ (~edit[r].changed =>
                /\ edit[r].from = rating[e]
                /\ NeedsConfirmation(edit[r].from, edit[r].to) => edit[r].confirmed)
    BY <1>1 DEF VisibilityInv, EditsKnow
<1>3. /\ edit[r] \in Edits /\ rating \in [Entities -> Values] /\ there["game"] \subseteq Entities
    BY VisibilityAssumption DEF VisibilityInv, VisibilityTypeOK, Edits
<1>4. /\ v \in Values /\ rating' = [rating EXCEPT ![e] = v] /\ rating[e] \in Values
      /\ edit[r].confirmed \in BOOLEAN /\ edit[r].changed \in BOOLEAN /\ e \in Entities
    BY <1>1, <1>2, <1>3 DEF Edits
<1>5. n.by = "enrich" /\ n.game = e /\ n.from = rating[e]
    OBVIOUS
<1>6. (n.confirmed <=> edit[r].confirmed) /\ (n.changed <=> edit[r].changed)
    BY <1>4
<1>7. n \in Lasts
    <2>1. e \in Entities \cup {NULL} /\ "enrich" \in {"none", "enrich", "patch"}
        BY <1>4
    <2> QED BY <1>4, <2>1, Zenon DEF Lasts
<1>8. n.by = "enrich" /\ ~n.confirmed /\ ~n.changed => ~NeedsConfirmation(n.from, v)
    BY <1>2, <1>5, <1>6
<1>9. /\ edit' \in [Editors -> Edits]
      /\ \A q \in Editors : edit'[q] \in {Calm, Overtaken(e)[q]}
    BY <1>1, <1>2, CalmIs, OvertakenIs
<1> QED BY <1>1, <1>2, <1>4, <1>5, <1>7, <1>8, <1>9, RatingKeepsWrite

\* A PATCH asks nothing, and is not held to it.
LEMMA KeepsPatchRating ==
    ASSUME VisibilityInv, NEW e \in Entities, NEW value \in Values, PatchRating(e, value)
    PROVE  VisibilityInv'
<1> PICK n : n = [by |-> "patch", game |-> e, from |-> rating[e], confirmed |-> FALSE, changed |-> FALSE]
    OBVIOUS
<1>1. /\ e \in there["game"] /\ rating' = [rating EXCEPT ![e] = value] /\ last' = n
      /\ edit' = Overtaken(e) /\ UNCHANGED <<there, items, rows, ceiling, blocks, custom>>
    BY DEF PatchRating
<1>2. rating[e] \in Values
    BY DEF VisibilityInv, VisibilityTypeOK
<1>3. n.by = "patch" /\ n.game = e
    OBVIOUS
<1>4. n \in Lasts
    <2>1. e \in Entities \cup {NULL} /\ "patch" \in {"none", "enrich", "patch"} /\ FALSE \in BOOLEAN
        OBVIOUS
    <2> QED BY <1>2, <2>1, Zenon DEF Lasts
<1>5. edit' \in [Editors -> Edits] /\ \A r \in Editors : edit'[r] \in {Calm, Overtaken(e)[r]}
    BY <1>1, OvertakenIs
<1> QED BY <1>1, <1>3, <1>4, <1>5, RatingKeepsWrite

\* A restriction is put on a bundle, or taken from it.
LEMMA KeepsSetRestrictions ==
    ASSUME VisibilityInv, NEW d \in Domains, NEW e \in Entities, NEW by, NEW users \in SUBSET Viewers,
           SetRestrictions(d, e, by, users)
    PROVE  VisibilityInv'
<1>1. /\ rows' = {x \in rows : x.domain # d \/ x.entity # e}
                    \cup {[user |-> u, domain |-> d, entity |-> e] : u \in users}
      /\ UNCHANGED <<there, rating, items, ceiling, blocks, custom, edit, last>>
    BY DEF SetRestrictions
<1>2. rows' \subseteq [user : Viewers, domain : Domains, entity : Entities]
    BY <1>1 DEF VisibilityInv, VisibilityTypeOK
<1>3. VisibilityTypeOK'
    BY <1>1, <1>2 DEF VisibilityInv, VisibilityTypeOK
<1> QED BY <1>1, <1>3, KeepsBesides

\* Media items come and go.
LEMMA KeepsItems ==
    ASSUME VisibilityInv, NEW bundle \in Entities \cup {NULL}, PutItem(bundle) \/ DropItem(bundle)
    PROVE  VisibilityInv'
<1>1. UNCHANGED <<there, rating, rows, ceiling, blocks, custom, edit, last>>
    BY DEF PutItem, DropItem
<1>2. items' \subseteq [bundle : Entities \cup {NULL}]
    BY DEF PutItem, DropItem, VisibilityInv, VisibilityTypeOK
<1>3. VisibilityTypeOK'
    BY <1>1, <1>2 DEF VisibilityInv, VisibilityTypeOK
<1> QED BY <1>1, <1>3, KeepsBesides

\* A ceiling is set, and an account is deleted.
LEMMA KeepsViewers ==
    ASSUME VisibilityInv, NEW u \in Viewers, NEW max \in Ratings \cup {NoCeiling}, NEW block \in BOOLEAN,
           PatchViewer(u, max, block) \/ DeleteViewer(u)
    PROVE  VisibilityInv'
<1>1. UNCHANGED <<there, rating, items, custom, edit, last>>
    BY DEF PatchViewer, DeleteViewer
<1>2. /\ ceiling \in [Viewers -> Ratings \cup {NoCeiling}] /\ blocks \in [Viewers -> BOOLEAN]
      /\ rows \subseteq [user : Viewers, domain : Domains, entity : Entities]
    BY DEF VisibilityInv, VisibilityTypeOK
<1>3. ceiling' \in [Viewers -> Ratings \cup {NoCeiling}] /\ blocks' \in [Viewers -> BOOLEAN]
    BY <1>2 DEF PatchViewer, DeleteViewer
<1>4. rows' \subseteq [user : Viewers, domain : Domains, entity : Entities]
    BY <1>2 DEF PatchViewer, DeleteViewer
<1>5. VisibilityTypeOK'
    BY <1>1, <1>3, <1>4 DEF VisibilityInv, VisibilityTypeOK
<1> QED BY <1>1, <1>5, KeepsBesides

\* Before anything is there.
LEMMA VisibleAtStart ==
    ASSUME VisibilityInit
    PROVE  VisibilityInv
<1> USE DEF VisibilityInit
<1>1. edit \in [Editors -> Edits] /\ last \in Lasts
    BY CalmIs
<1>2. there \in [Domains -> SUBSET Entities] /\ rating \in [Entities -> Values]
    BY DEF Values
<1>3. VisibilityTypeOK
    BY <1>1, <1>2 DEF VisibilityTypeOK, Edits, Lasts
<1>4. EditsKnow /\ LastKnown
    BY CalmIs DEF EditsKnow, LastKnown
<1> QED BY <1>3, <1>4 DEF VisibilityInv

\* Every step keeps it.
LEMMA VisibleIsKept ==
    ASSUME VisibilityInv, [VisibilityNext]_visibilityVars
    PROVE  VisibilityInv'
<1>1. ASSUME NEW d \in Domains, NEW e \in Entities, Create(d, e) \/ Delete(d, e)
      PROVE  VisibilityInv'
    BY <1>1, KeepsCreate, KeepsDelete
<1>2. ASSUME NEW d \in Domains, NEW e \in Entities, NEW by \in Everyone, NEW users \in SUBSET Viewers,
             SetRestrictions(d, e, by, users)
      PROVE  VisibilityInv'
    BY <1>2, KeepsSetRestrictions
<1>3. ASSUME NEW bundle \in Entities \cup {NULL}, PutItem(bundle) \/ DropItem(bundle)
      PROVE  VisibilityInv'
    BY <1>3, KeepsItems
<1>4. ASSUME NEW u \in Viewers, DeleteViewer(u)
      PROVE  VisibilityInv'
    <2>1. NoCeiling \in Ratings \cup {NoCeiling} /\ FALSE \in BOOLEAN
        OBVIOUS
    <2> QED BY <1>4, <2>1, KeepsViewers
<1>5. ASSUME NEW u \in Viewers, NEW max \in Ratings \cup {NoCeiling}, NEW block \in BOOLEAN,
             PatchViewer(u, max, block)
      PROVE  VisibilityInv'
    BY <1>5, KeepsViewers
<1>6. ASSUME NEW m \in RatingMaps \cup {NoMap}, SetMap(m)
      PROVE  VisibilityInv'
    BY <1>6, KeepsSetMap
<1>7. ASSUME NEW r \in Editors, NEW e \in Entities, NEW raw \in Values, NEW confirmed \in BOOLEAN,
             BeginEnrich(r, e, raw, confirmed)
      PROVE  VisibilityInv'
    BY <1>7, KeepsBeginEnrich
<1>8. ASSUME NEW r \in Editors, CommitEnrich(r)
      PROVE  VisibilityInv'
    BY <1>8, KeepsCommitEnrich
<1>9. ASSUME NEW e \in Entities, NEW value \in Values, PatchRating(e, value)
      PROVE  VisibilityInv'
    BY <1>9, KeepsPatchRating
<1>10. CASE UNCHANGED visibilityVars
    <2>1. VisibilityTypeOK'
        BY <1>10 DEF visibilityVars, VisibilityInv, VisibilityTypeOK
    <2>2. /\ there["game"] \subseteq there'["game"] /\ \A e \in there["game"] : rating'[e] = rating[e]
          /\ UNCHANGED <<custom, edit, last>>
        BY <1>10 DEF visibilityVars
    <2> QED BY <2>1, <2>2, KeepsBesides
<1> QED BY <1>1, <1>2, <1>3, <1>4, <1>5, <1>6, <1>7, <1>8, <1>9, <1>10 DEF VisibilityNext

\* The invariant holds in every state of every behaviour.
LEMMA VisibleAlways == VisibilitySpec => []VisibilityInv
<1>1. VisibilityInit => VisibilityInv
    BY VisibleAtStart
<1>2. VisibilityInv /\ [VisibilityNext]_visibilityVars => VisibilityInv'
    BY VisibleIsKept
<1> QED BY <1>1, <1>2, PTL DEF VisibilitySpec

\* Bundles, ratings, restrictions, ceilings and edits in flight always have the form
\* that the tables and the requests give them.
THEOREM VisibilityTypeCorrect == VisibilitySpec => []VisibilityTypeOK
<1>1. VisibilityInv => VisibilityTypeOK
    BY DEF VisibilityInv
<1> QED BY <1>1, VisibleAlways, PTL

\* For any accounts, bundles, ratings and maps of severities, and any requests at once:
\* an account is kept from exactly what was restricted for it, and no unconfirmed rating
\* of a provider shows a game to an account that the rating before hid it from.
THEOREM FiltersHold == VisibilitySpec => []FiltersAreExact
<1>1. VisibilityInv => FiltersAreExact
    BY FiltersHide, CeilingStays DEF VisibilityInv, FiltersAreExact
<1> QED BY <1>1, VisibleAlways, PTL
-------------------------------------------------------------------------------
(* The confirmation tokens.                                                      *)

\* What a thread waits to do.
Waits ==
    {NoCall} \cup [op : {"attempt"}, key : Keys, at : Nat]
             \cup [op : {"consume"}, token : Slips, target : Targets, at : Nat]

\* A token that can be consumed was never presented, and is for what it was issued for;
\* one that is presented was issued.
TokensInv ==
    /\ issued \in [Slips -> Targets \cup {Nobody}]
    /\ tokens \in [Slips -> [target : Targets \cup {Nobody}, expires : Nat]]
    /\ now \in Nat /\ calls \in [Callers -> Waits]
    /\ \A c \in Callers : calls[c].op = "consume" => issued[calls[c].token] # Nobody
    /\ \A t \in presented : t \in Slips /\ issued[t] # Nobody
    /\ \A t \in Slips : tokens[t].target # Nobody => t \notin presented /\ tokens[t].target = issued[t]
    /\ accepted \subseteq [token : Slips, target : Targets, again : BOOLEAN]
    /\ TokensSingleUse

\* The tokens that have expired are gone, the others as they were.
LEMMA UnexpiredIs ==
    ASSUME tokens \in [Slips -> [target : Targets \cup {Nobody}, expires : Nat]]
    PROVE  /\ Unexpired \in [Slips -> [target : Targets \cup {Nobody}, expires : Nat]]
           /\ \A t \in Slips : Unexpired[t] \in {NoEntry, tokens[t]}
           /\ NoEntry.target = Nobody
           /\ NoEntry \in [target : Targets \cup {Nobody}, expires : Nat]
BY DEF Unexpired, NoEntry

\* A thread that waits for something else leaves the tokens.
LEMMA KeepsTokens ==
    ASSUME TokensInv, UNCHANGED tokenVars, now' \in Nat,
           calls' \in [Callers -> Waits],
           \A c \in Callers : calls'[c] = calls[c] \/
                (calls'[c].op = "consume" => issued[calls'[c].token] # Nobody)
    PROVE  TokensInv'
BY DEF TokensInv, tokenVars, TokensSingleUse

\* One thread turns to something else.
LEMMA OneThread ==
    ASSUME calls \in [Callers -> Waits], NEW c \in Callers, NEW n \in Waits,
           calls' = [calls EXCEPT ![c] = n]
    PROVE  /\ calls' \in [Callers -> Waits] /\ calls'[c] = n
           /\ \A d \in Callers \ {c} : calls'[d] = calls[d]
OBVIOUS

\* What a thread presents is a token, for a target.
LEMMA PresentsWhat ==
    ASSUME calls \in [Callers -> Waits], NEW c \in Callers, calls[c].op = "consume"
    PROVE  calls[c].token \in Slips /\ calls[c].target \in Targets
BY DEF Waits, NoCall

\* A new token was never issued, so never presented.
LEMMA KeepsIssue ==
    ASSUME TokensInv, NEW t \in Slips, NEW target \in Targets, Issue(t, target)
    PROVE  TokensInv'
<1> PICK n : n = [target |-> target, expires |-> now + TokenTTL]
    OBVIOUS
<1>1. /\ issued[t] = Nobody /\ tokens' = [Unexpired EXCEPT ![t] = n]
      /\ issued' = [issued EXCEPT ![t] = target]
      /\ UNCHANGED <<now, calls, presented, accepted>>
    BY DEF Issue
<1>2. n \in [target : Targets \cup {Nobody}, expires : Nat] /\ n.target = target
    BY GuardsAssumption DEF TokensInv
<1>3. /\ tokens' \in [Slips -> [target : Targets \cup {Nobody}, expires : Nat]] /\ tokens'[t] = n
      /\ \A s \in Slips \ {t} : tokens'[s] \in {NoEntry, tokens[s]}
    BY <1>1, <1>2, UnexpiredIs DEF TokensInv
<1>4. /\ issued' \in [Slips -> Targets \cup {Nobody}] /\ issued'[t] = target
      /\ \A s \in Slips \ {t} : issued'[s] = issued[s]
    BY <1>1 DEF TokensInv
<1>5. target # Nobody /\ t \notin presented
    BY <1>1, GuardsAssumption DEF TokensInv
<1>6. \A s \in Slips : tokens'[s].target # Nobody => s \notin presented' /\ tokens'[s].target = issued'[s]
    BY <1>1, <1>2, <1>3, <1>4, <1>5, UnexpiredIs DEF TokensInv
<1>7. \A a \in accepted : a.token # t
    BY <1>1, GuardsAssumption DEF TokensInv, TokensSingleUse
<1>8. TokensSingleUse'
    BY <1>1, <1>4, <1>7 DEF TokensInv, TokensSingleUse
<1>9. \A s \in Slips : issued[s] # Nobody => issued'[s] # Nobody
    BY <1>4, <1>5
<1> QED BY <1>1, <1>3, <1>4, <1>6, <1>8, <1>9 DEF TokensInv

\* Whoever presents a token first takes it away from everybody.
LEMMA KeepsConsume ==
    ASSUME TokensInv, NEW c \in Callers, Consume(c)
    PROVE  TokensInv'
<1> PICK t : t = calls[c].token
    OBVIOUS
<1> PICK target : target = calls[c].target
    OBVIOUS
<1> PICK entry : entry = Unexpired[t]
    OBVIOUS
<1> PICK a : a = [token |-> t, target |-> target, again |-> t \in presented]
    OBVIOUS
<1>1. /\ calls[c].op = "consume" /\ tokens' = [Unexpired EXCEPT ![t] = NoEntry]
      /\ presented' = presented \cup {t}
      /\ accepted' = (IF entry.target = target /\ calls[c].at <= entry.expires
                      THEN accepted \cup {a} ELSE accepted)
      /\ calls' = [calls EXCEPT ![c] = NoCall] /\ UNCHANGED <<now, issued>>
    BY DEF Consume, Popped
<1>2. t \in Slips /\ target \in Targets /\ issued[t] # Nobody /\ target # Nobody
    BY <1>1, PresentsWhat, GuardsAssumption DEF TokensInv
<1>3. /\ tokens' \in [Slips -> [target : Targets \cup {Nobody}, expires : Nat]] /\ tokens'[t] = NoEntry
      /\ \A s \in Slips \ {t} : tokens'[s] \in {NoEntry, tokens[s]}
    BY <1>1, <1>2, UnexpiredIs DEF TokensInv
<1>4. a.token = t /\ a.target = target
    OBVIOUS
<1>5. a.again <=> t \in presented
    OBVIOUS
<1>6. entry.target = target => t \notin presented /\ target = issued[t]
    BY <1>2, UnexpiredIs DEF TokensInv
<1>7. TokensSingleUse'
    BY <1>1, <1>4, <1>5, <1>6 DEF TokensInv, TokensSingleUse
<1>8. accepted' \subseteq [token : Slips, target : Targets, again : BOOLEAN]
    <2>1. (t \in presented) \in BOOLEAN
        OBVIOUS
    <2>2. a \in [token : Slips, target : Targets, again : BOOLEAN]
        BY <1>2, <2>1, Zenon
    <2> QED BY <1>1, <2>2 DEF TokensInv
<1>9. \A s \in Slips : tokens'[s].target # Nobody => s \notin presented' /\ tokens'[s].target = issued'[s]
    BY <1>1, <1>2, <1>3, UnexpiredIs DEF TokensInv
<1>10. /\ calls' \in [Callers -> Waits]
       /\ \A d \in Callers : calls'[d].op = "consume" => issued'[calls'[d].token] # Nobody
    <2>1. NoCall \in Waits /\ NoCall.op = "none"
        BY DEF Waits, NoCall
    <2>2. /\ calls' \in [Callers -> Waits] /\ calls'[c] = NoCall
          /\ \A d \in Callers \ {c} : calls'[d] = calls[d]
        BY <1>1, <2>1, OneThread DEF TokensInv
    <2> QED BY <1>1, <2>1, <2>2 DEF TokensInv
<1>11. \A s \in presented' : s \in Slips /\ issued'[s] # Nobody
    BY <1>1, <1>2 DEF TokensInv
<1> QED BY <1>1, <1>3, <1>7, <1>8, <1>9, <1>10, <1>11 DEF TokensInv

LEMMA TokensAtStart == GuardsInit => TokensInv
<1> SUFFICES ASSUME GuardsInit PROVE TokensInv
    OBVIOUS
<1> USE DEF GuardsInit
<1>1. \A t \in Slips : tokens[t] = NoEntry /\ NoEntry.target = Nobody
    BY DEF NoEntry
<1>2. tokens \in [Slips -> [target : Targets \cup {Nobody}, expires : Nat]]
    BY DEF NoEntry
<1>3. calls \in [Callers -> Waits] /\ \A c \in Callers : calls[c].op = "none"
    BY DEF NoCall, Waits
<1> QED BY <1>1, <1>2, <1>3 DEF TokensInv, TokensSingleUse

LEMMA TokensAreKept == TokensInv /\ [GuardsNext]_guardVars => TokensInv'
<1> SUFFICES ASSUME TokensInv, [GuardsNext]_guardVars PROVE TokensInv'
    OBVIOUS
<1>1. ASSUME NEW c \in Callers, NEW k \in Keys, Arrive(c, k)
      PROVE  TokensInv'
    <2> PICK n : n = [op |-> "attempt", key |-> k, at |-> now]
        OBVIOUS
    <2>1. calls' = [calls EXCEPT ![c] = n] /\ n.op = "attempt" /\ now' = now /\ UNCHANGED tokenVars
        BY <1>1 DEF Arrive
    <2>2. n \in Waits
        BY DEF Waits, TokensInv
    <2>3. /\ calls' \in [Callers -> Waits] /\ calls'[c] = n
          /\ \A d \in Callers \ {c} : calls'[d] = calls[d]
        BY <2>1, <2>2, OneThread DEF TokensInv
    <2> QED BY <2>1, <2>3, KeepsTokens DEF TokensInv
<1>2. ASSUME NEW c \in Callers, CheckAndRecord(c)
      PROVE  TokensInv'
    <2>1. calls' = [calls EXCEPT ![c] = NoCall] /\ now' = now /\ UNCHANGED tokenVars
        BY <1>2 DEF CheckAndRecord
    <2>2. NoCall \in Waits /\ NoCall.op = "none"
        BY DEF Waits, NoCall
    <2>3. /\ calls' \in [Callers -> Waits] /\ calls'[c] = NoCall
          /\ \A d \in Callers \ {c} : calls'[d] = calls[d]
        BY <2>1, <2>2, OneThread DEF TokensInv
    <2> QED BY <2>1, <2>2, <2>3, KeepsTokens DEF TokensInv
<1>3. ASSUME NEW c \in Callers, NEW t \in Slips, NEW target \in Targets, Present(c, t, target)
      PROVE  TokensInv'
    <2> PICK n : n = [op |-> "consume", token |-> t, target |-> target, at |-> now]
        OBVIOUS
    <2>1. /\ calls' = [calls EXCEPT ![c] = n] /\ n.token = t /\ n.target = target
          /\ issued[t] # Nobody /\ now' = now /\ UNCHANGED tokenVars
        BY <1>3 DEF Present
    <2>2. n \in Waits
        BY DEF Waits, TokensInv
    <2>3. /\ calls' \in [Callers -> Waits] /\ calls'[c] = n
          /\ \A d \in Callers \ {c} : calls'[d] = calls[d]
        BY <2>1, <2>2, OneThread DEF TokensInv
    <2> QED BY <2>1, <2>3, KeepsTokens DEF TokensInv
<1>4. ASSUME NEW c \in Callers, Consume(c)
      PROVE  TokensInv'
    BY <1>4, KeepsConsume
<1>5. ASSUME NEW t \in Slips, NEW target \in Targets, Issue(t, target)
      PROVE  TokensInv'
    BY <1>5, KeepsIssue
<1>6. CASE Tick
    <2>1. now' \in Nat /\ calls' = calls /\ UNCHANGED tokenVars
        BY <1>6 DEF Tick, TokensInv
    <2> QED BY <2>1, KeepsTokens DEF TokensInv
<1>7. CASE UNCHANGED guardVars
    <2>1. now' = now /\ calls' = calls /\ UNCHANGED tokenVars
        BY <1>7 DEF guardVars, tokenVars
    <2> QED BY <2>1, KeepsTokens DEF TokensInv
<1> QED BY <1>1, <1>2, <1>3, <1>4, <1>5, <1>6, <1>7 DEF GuardsNext

-------------------------------------------------------------------------------
(* The limiter.                                                                  *)

\* A thread that has read the clock waits for the lock no longer than it may.
CallsAreRecent ==
    \A c \in Callers : calls[c] # NoCall => calls[c].at <= now /\ now <= calls[c].at + MaxWait

\* The counted attempts of a key are allowed ones, each at most a wait out of order; one
\* that is no longer counted has left the window, or will within a wait.
KeyIsTrue(k) ==
    /\ IsFiniteSet(allowed[k]) /\ attempts[k] \subseteq allowed[k]
    /\ \A a \in allowed[k] : a.n <= Cardinality(allowed[k]) /\ a.at <= now
    /\ attempts[k] # {} => windows[k] = Window[k]
    /\ \A a, b \in attempts[k] : a.n <= b.n => a.at <= b.at + MaxWait
    /\ \A a \in allowed[k] \ attempts[k] : a.at <= now - Window[k] + MaxWait

Refusals == {NoCall} \cup [op : {"attempt"}, key : Keys, at : 0..MaxNow]

LimitInv ==
    /\ now \in 0..MaxNow /\ lastSweep \in 0..MaxNow
    /\ attempts \in [Keys -> SUBSET Stamps] /\ allowed \in [Keys -> SUBSET Stamps]
    /\ windows \in [Keys -> Nat] /\ refusal \in Refusals
    /\ CallsAreRecent
    /\ \A k \in Keys : KeyIsTrue(k)
    /\ LimiterIsExact

\* The attempts of a stale key have left its window, or will within a wait.
LEMMA StaleMeans ==
    ASSUME LimitInv, NEW k \in Keys, NEW at \in 0..MaxNow, Stale(k, at)
    PROVE  \A b \in attempts[k] : b.at <= at - Window[k] + MaxWait
<1> SUFFICES ASSUME NEW b \in attempts[k]
             PROVE  b.at <= at - Window[k] + MaxWait
    OBVIOUS
<1>1. attempts[k] \subseteq Stamps /\ Window[k] \in Nat /\ MaxWait \in Nat
    BY GuardsAssumption DEF LimitInv
<1>2. windows[k] = Window[k]
    BY DEF LimitInv, KeyIsTrue
<1>3. PICK a \in attempts[k] : a.at <= at - windows[k] /\ b.n <= a.n
    BY DEF Stale
<1>4. b.at <= a.at + MaxWait
    BY <1>3 DEF LimitInv, KeyIsTrue
<1>5. a.at \in Nat /\ b.at \in Nat /\ at \in Nat
    BY <1>1, GuardsAssumption DEF Stamps
<1> QED BY <1>1, <1>2, <1>3, <1>4, <1>5

\* What check_and_record of a key sees: the attempts in its window, and no key is swept
\* whose attempts may still be in theirs.
Sees(k, at, times, swept) ==
    /\ at <= now /\ now <= at + MaxWait
    /\ \A j \in swept : \A b \in attempts[j] : b.at <= at - Window[j] + MaxWait
    /\ times = IF k \in swept THEN {} ELSE {a \in attempts[k] : a.at > at - Window[k]}

\* What it does.
Records(k, at, times, swept) ==
    /\ lastSweep' \in {lastSweep, at}
    /\ \A j \in Keys \ {k} :
        /\ attempts'[j] = IF j \in swept THEN {} ELSE attempts[j]
        /\ windows'[j] = IF j \in swept THEN 0 ELSE windows[j]
        /\ allowed'[j] = allowed[j]
    /\ windows'[k] = Window[k]
    /\ attempts' = [j \in Keys |-> attempts'[j]]
    /\ windows' = [j \in Keys |-> windows'[j]] /\ allowed' = [j \in Keys |-> allowed'[j]]

LEMMA RecordIs ==
    ASSUME TokensInv, LimitInv, NEW c \in Callers, CheckAndRecord(c)
    PROVE  \E k \in Keys, at \in 0..MaxNow, swept \in SUBSET Keys :
            \E times \in SUBSET attempts[k] :
                /\ Sees(k, at, times, swept) /\ Records(k, at, times, swept)
                /\ \/ /\ Cardinality(times) >= Limit[k] /\ attempts'[k] = times
                      /\ refusal' = [op |-> "attempt", key |-> k, at |-> at]
                      /\ allowed' = allowed
                   \/ LET new == [n |-> Cardinality(allowed[k]) + 1, at |-> at]
                      IN  /\ ~(Cardinality(times) >= Limit[k])
                          /\ attempts'[k] = times \cup {new}
                          /\ allowed'[k] = allowed[k] \cup {new} /\ refusal' = refusal
<1> PICK k : k = calls[c].key
    OBVIOUS
<1> PICK at : at = calls[c].at
    OBVIOUS
<1> PICK swept : swept = Swept(at)
    OBVIOUS
<1> PICK times : times = IF k \in swept THEN {} ELSE After(attempts[k], at - Window[k])
    OBVIOUS
<1> PICK new : new = [n |-> Cardinality(allowed[k]) + 1, at |-> at]
    OBVIOUS
<1>1. calls[c].op = "attempt" /\ calls[c] \in Waits /\ calls[c] # NoCall
    BY DEF CheckAndRecord, TokensInv, NoCall
<1>2. k \in Keys /\ at \in Nat /\ at <= now /\ now <= at + MaxWait
    BY <1>1 DEF Waits, NoCall, LimitInv, CallsAreRecent
<1>3. at \in 0..MaxNow
    BY <1>2, GuardsAssumption DEF LimitInv
<1>4. swept \in SUBSET Keys /\ \A j \in swept : Stale(j, at)
    BY DEF Swept
<1>5. times \in SUBSET attempts[k]
    BY DEF After
<1>6. Sees(k, at, times, swept)
    BY <1>2, <1>3, <1>4, StaleMeans DEF Sees, After
<1>7. /\ lastSweep' = IF SweepDue(at) THEN at ELSE lastSweep
      /\ attempts' = [j \in Keys |->
            IF j = k THEN (IF Cardinality(times) >= Limit[k] THEN times ELSE times \cup {new})
            ELSE IF j \in swept THEN {} ELSE attempts[j]]
      /\ windows' = [j \in Keys |->
            IF j = k THEN Window[k] ELSE IF j \in swept THEN 0 ELSE windows[j]]
      /\ IF Cardinality(times) >= Limit[k]
         THEN refusal' = [op |-> "attempt", key |-> k, at |-> at] /\ UNCHANGED allowed
         ELSE allowed' = [allowed EXCEPT ![k] = @ \cup {new}] /\ UNCHANGED refusal
    BY DEF CheckAndRecord
<1>8. Records(k, at, times, swept)
    BY <1>2, <1>7 DEF Records, LimitInv
<1>9. CASE Cardinality(times) >= Limit[k]
    BY <1>2, <1>3, <1>4, <1>5, <1>6, <1>7, <1>8, <1>9
<1>10. CASE ~(Cardinality(times) >= Limit[k])
    <2>1. /\ attempts'[k] = times \cup {new} /\ refusal' = refusal
          /\ allowed'[k] = allowed[k] \cup {new}
        BY <1>2, <1>7, <1>10 DEF LimitInv
    <2> QED BY <1>2, <1>3, <1>4, <1>5, <1>6, <1>8, <1>10, <2>1
<1> QED BY <1>9, <1>10

\* The sweep loses no attempt of another key that may still be in its window.
LEMMA OthersStay ==
    ASSUME LimitInv, now' = now, NEW k \in Keys, NEW at \in 0..MaxNow,
           NEW swept \in SUBSET Keys, NEW times \in SUBSET attempts[k],
           Sees(k, at, times, swept), Records(k, at, times, swept), NEW j \in Keys \ {k}
    PROVE  KeyIsTrue(j)'
<1>1. /\ allowed'[j] = allowed[j] /\ attempts[j] \subseteq Stamps /\ allowed[j] \subseteq Stamps
      /\ KeyIsTrue(j) /\ at <= now /\ now \in Nat /\ at \in Nat
      /\ Window[j] \in Nat /\ MaxWait \in Nat
    BY GuardsAssumption DEF LimitInv, Records, Sees
<1>2. CASE j \notin swept
    <2>1. attempts'[j] = attempts[j] /\ windows'[j] = windows[j]
        BY <1>2 DEF Records
    <2> QED BY <1>1, <2>1 DEF KeyIsTrue
<1>3. CASE j \in swept
    <2>1. attempts'[j] = {} /\ \A b \in attempts[j] : b.at <= at - Window[j] + MaxWait
        BY <1>3 DEF Records, Sees
    <2>2. \A b \in attempts[j] : b.at <= now - Window[j] + MaxWait
        <3> SUFFICES ASSUME NEW b \in attempts[j]
                     PROVE  b.at <= now - Window[j] + MaxWait
            OBVIOUS
        <3>1. b.at \in Nat /\ b.at <= at - Window[j] + MaxWait
            BY <1>1, <2>1 DEF Stamps
        <3> QED BY <1>1, <3>1
    <2> QED BY <1>1, <2>1, <2>2 DEF KeyIsTrue
<1> QED BY <1>2, <1>3

\* What check_and_record no longer counts has left the window, or will within a wait.
LEMMA UncountedLeft ==
    ASSUME LimitInv, NEW k \in Keys, NEW at \in 0..MaxNow,
           NEW swept \in SUBSET Keys, NEW times \in SUBSET attempts[k],
           Sees(k, at, times, swept), NEW a \in allowed[k] \ times
    PROVE  a.at <= at - Window[k] + 2 * MaxWait /\ a.at <= now - Window[k] + MaxWait
<1>1. /\ attempts[k] \subseteq Stamps /\ allowed[k] \subseteq Stamps
      /\ KeyIsTrue(k) /\ at <= now /\ now <= at + MaxWait /\ now \in Nat /\ at \in Nat
      /\ Window[k] \in Nat /\ MaxWait \in Nat
    BY GuardsAssumption DEF LimitInv, Sees
<1>2. a.at \in Nat
    BY <1>1 DEF Stamps
<1>3. CASE a \notin attempts[k]
    <2>1. a.at <= now - Window[k] + MaxWait
        BY <1>1, <1>3 DEF KeyIsTrue
    <2> QED BY <1>1, <1>2, <2>1
<1>4. CASE a \in attempts[k]
    <2>1. a.at <= at - Window[k] + MaxWait
        <3>1. CASE k \in swept
            BY <1>4, <3>1 DEF Sees
        <3>2. CASE k \notin swept
            <4>1. ~(a.at > at - Window[k])
                BY <1>4, <3>2 DEF Sees
            <4> QED BY <1>1, <1>2, <4>1
        <3> QED BY <3>1, <3>2
    <2> QED BY <1>1, <1>2, <2>1
<1> QED BY <1>3, <1>4

\* A refused attempt counts for nothing.
LEMMA RefusedStays ==
    ASSUME LimitInv, now' = now, NEW k \in Keys, NEW at \in 0..MaxNow,
           NEW swept \in SUBSET Keys, NEW times \in SUBSET attempts[k],
           Sees(k, at, times, swept), Records(k, at, times, swept),
           attempts'[k] = times, allowed'[k] = allowed[k]
    PROVE  KeyIsTrue(k)'
<1>1. KeyIsTrue(k)
    BY DEF LimitInv
<1>2. windows'[k] = Window[k]
    BY DEF Records
<1>3. \A a \in allowed[k] \ times : a.at <= now - Window[k] + MaxWait
    BY UncountedLeft
<1> QED BY <1>1, <1>2, <1>3 DEF KeyIsTrue

\* An attempt that is allowed is the last one, and at most a wait out of order.
LEMMA AllowedIsLast ==
    ASSUME LimitInv, now' = now, NEW k \in Keys, NEW at \in 0..MaxNow,
           NEW swept \in SUBSET Keys, NEW times \in SUBSET attempts[k],
           Sees(k, at, times, swept), Records(k, at, times, swept), NEW new \in Stamps,
           new.n = Cardinality(allowed[k]) + 1, new.at = at,
           attempts'[k] = times \cup {new}, allowed'[k] = allowed[k] \cup {new}
    PROVE  new \notin allowed[k] /\ KeyIsTrue(k)'
<1>1. /\ attempts[k] \subseteq Stamps /\ allowed[k] \subseteq Stamps /\ times \subseteq allowed[k]
      /\ KeyIsTrue(k) /\ at <= now /\ now <= at + MaxWait /\ now \in Nat /\ at \in Nat
      /\ Window[k] \in Nat /\ MaxWait \in Nat
    BY GuardsAssumption DEF LimitInv, Sees, KeyIsTrue
<1>2. PICK size \in Nat : size = Cardinality(allowed[k])
    BY <1>1, FS_CardinalityType DEF KeyIsTrue
<1>3. \A a \in allowed[k] : a.n \in Nat /\ a.at \in Nat /\ a.n <= size /\ a.at <= now
    BY <1>1, <1>2 DEF KeyIsTrue, Stamps
<1>4. new \notin allowed[k]
    BY <1>2, <1>3
<1>5. IsFiniteSet(allowed'[k]) /\ Cardinality(allowed'[k]) = size + 1
    BY <1>1, <1>2, <1>4, FS_AddElement DEF KeyIsTrue
<1>6. \A a \in allowed'[k] : a.n <= Cardinality(allowed'[k]) /\ a.at <= now'
    BY <1>1, <1>2, <1>3, <1>5
<1>7. windows'[k] = Window[k]
    BY DEF Records
<1>8. \A a, b \in attempts'[k] : a.n <= b.n => a.at <= b.at + MaxWait
    <2> SUFFICES ASSUME NEW a \in times \cup {new}, NEW b \in times \cup {new}, a.n <= b.n
                 PROVE  a.at <= b.at + MaxWait
        OBVIOUS
    <2>1. CASE b = new
        <3>1. a.at \in Nat /\ a.at <= now
            BY <1>1, <1>3
        <3> QED BY <1>1, <2>1, <3>1
    <2>2. CASE b # new /\ a = new
        <3>1. b.n \in Nat /\ b.n <= size
            BY <1>1, <1>3, <2>2
        <3> QED BY <1>2, <2>2, <3>1
    <2>3. CASE b # new /\ a # new
        BY <1>1, <2>3 DEF KeyIsTrue
    <2> QED BY <2>1, <2>2, <2>3
<1>9. \A a \in allowed'[k] \ attempts'[k] : a.at <= now' - Window[k] + MaxWait
    BY UncountedLeft
<1>10. attempts'[k] \subseteq allowed'[k]
    BY <1>1
<1> QED BY <1>4, <1>5, <1>6, <1>7, <1>8, <1>9, <1>10 DEF KeyIsTrue

\* The stamps of times in the half-open interval, as a set.
In(times, after, until) == {a \in times : after < a.at /\ a.at <= until}

\* Before another attempt is allowed, less than the limit of them is in any window that
\* it falls in: they are all still counted.
LEMMA WindowHolds ==
    ASSUME LimitInv, now' = now, NEW k \in Keys, NEW at \in 0..MaxNow,
           NEW swept \in SUBSET Keys, NEW times \in SUBSET attempts[k],
           Sees(k, at, times, swept), NEW new \in Stamps, new.at = at,
           ~(Cardinality(times) >= Limit[k]), allowed'[k] = allowed[k] \cup {new},
           NEW t \in 0..MaxNow
    PROVE  Within(allowed'[k], t - Window[k] + 2 * MaxWait, t) <= Limit[k]
<1> PICK after : after = t - Window[k] + 2 * MaxWait
    OBVIOUS
<1>1. /\ allowed[k] \subseteq Stamps /\ attempts[k] \subseteq allowed[k]
      /\ IsFiniteSet(allowed[k]) /\ at \in Nat /\ t \in Nat
      /\ Window[k] \in Nat /\ MaxWait \in Nat /\ Limit[k] \in Nat /\ after \in Int
    BY GuardsAssumption DEF LimitInv, KeyIsTrue
<1>2. Cardinality(In(allowed[k], after, t)) <= Limit[k]
    BY DEF LimitInv, LimiterIsExact, Within, In
<1>3. CASE ~(after < at /\ at <= t)
    <2>1. In(allowed'[k], after, t) = In(allowed[k], after, t)
        BY <1>3 DEF In
    <2> QED BY <1>2, <2>1 DEF Within, In
<1>4. CASE after < at /\ at <= t
    <2>1. In(allowed[k], after, t) \subseteq times
        <3> SUFFICES ASSUME NEW a \in allowed[k] \ times, after < a.at, a.at <= t
                     PROVE  FALSE
            BY DEF In
        <3>1. a.at \in Nat
            BY <1>1 DEF Stamps
        <3>2. a.at <= at - Window[k] + 2 * MaxWait
            BY UncountedLeft
        <3> QED BY <1>1, <1>4, <3>1, <3>2
    <2>2. IsFiniteSet(times) /\ Cardinality(times) \in Nat
        BY <1>1, FS_Subset, FS_CardinalityType
    <2>3. /\ IsFiniteSet(In(allowed[k], after, t)) /\ Cardinality(In(allowed[k], after, t)) \in Nat
          /\ Cardinality(In(allowed[k], after, t)) <= Cardinality(times)
        BY <2>1, <2>2, FS_Subset, FS_CardinalityType
    <2>4. In(allowed'[k], after, t) = In(allowed[k], after, t) \cup {new}
        BY <1>4 DEF In
    <2>5. Cardinality(In(allowed'[k], after, t)) \in
                {Cardinality(In(allowed[k], after, t)), Cardinality(In(allowed[k], after, t)) + 1}
        <3>1. Cardinality(In(allowed[k], after, t) \cup {new}) =
                IF new \in In(allowed[k], after, t) THEN Cardinality(In(allowed[k], after, t))
                ELSE Cardinality(In(allowed[k], after, t)) + 1
            BY <2>3, FS_AddElement, Zenon
        <3> QED BY <2>4, <3>1
    <2>6. Cardinality(In(allowed'[k], after, t)) <= Limit[k]
        BY <1>1, <2>2, <2>3, <2>5
    <2> QED BY <2>6 DEF Within, In
<1> QED BY <1>3, <1>4

\* An attempt is refused only when the window before it is full.
LEMMA RefusalHolds ==
    ASSUME LimitInv, NEW k \in Keys, NEW at \in 0..MaxNow,
           NEW swept \in SUBSET Keys, NEW times \in SUBSET attempts[k],
           Sees(k, at, times, swept), Cardinality(times) >= Limit[k]
    PROVE  Within(allowed[k], at - Window[k], MaxNow) >= Limit[k]
<1> PICK after : after = at - Window[k]
    OBVIOUS
<1>1. /\ allowed[k] \subseteq Stamps /\ attempts[k] \subseteq allowed[k]
      /\ IsFiniteSet(allowed[k]) /\ Limit[k] \in Nat
    BY GuardsAssumption DEF LimitInv, KeyIsTrue
<1>2. times \subseteq In(allowed[k], after, MaxNow)
    BY <1>1 DEF Sees, In, Stamps
<1>3. IsFiniteSet(In(allowed[k], after, MaxNow))
    BY <1>1, FS_Subset DEF In
<1>4. /\ Cardinality(times) \in Nat /\ Cardinality(In(allowed[k], after, MaxNow)) \in Nat
      /\ Cardinality(times) <= Cardinality(In(allowed[k], after, MaxNow))
    BY <1>2, <1>3, FS_Subset, FS_CardinalityType
<1>5. Cardinality(In(allowed[k], after, MaxNow)) >= Limit[k]
    BY <1>1, <1>4
<1> QED BY <1>5 DEF Within, In

\* More attempts do not leave fewer in a window.
LEMMA WindowsGrow ==
    ASSUME NEW S, NEW T, S \subseteq T, IsFiniteSet(T), NEW after, NEW until,
           NEW limit \in Nat, Within(S, after, until) >= limit
    PROVE  Within(T, after, until) >= limit
<1>1. In(S, after, until) \subseteq In(T, after, until)
    BY DEF In
<1>2. IsFiniteSet(In(T, after, until))
    BY FS_Subset DEF In
<1>3. /\ Cardinality(In(S, after, until)) \in Nat /\ Cardinality(In(T, after, until)) \in Nat
      /\ Cardinality(In(S, after, until)) <= Cardinality(In(T, after, until))
    BY <1>1, <1>2, FS_Subset, FS_CardinalityType
<1>4. Cardinality(In(S, after, until)) >= limit
    BY DEF Within, In
<1>5. Cardinality(In(T, after, until)) >= limit
    BY <1>3, <1>4
<1> QED BY <1>5 DEF Within, In

\* check_and_record.
LEMMA KeepsRecord ==
    ASSUME TokensInv, LimitInv, NEW c \in Callers, CheckAndRecord(c)
    PROVE  LimitInv'
<1>1. PICK k \in Keys, at \in 0..MaxNow, swept \in SUBSET Keys : \E times \in SUBSET attempts[k] :
        /\ Sees(k, at, times, swept) /\ Records(k, at, times, swept)
        /\ \/ /\ Cardinality(times) >= Limit[k] /\ attempts'[k] = times
              /\ refusal' = [op |-> "attempt", key |-> k, at |-> at]
              /\ allowed' = allowed
           \/ LET new == [n |-> Cardinality(allowed[k]) + 1, at |-> at]
              IN  /\ ~(Cardinality(times) >= Limit[k])
                  /\ attempts'[k] = times \cup {new}
                  /\ allowed'[k] = allowed[k] \cup {new} /\ refusal' = refusal
    BY RecordIs
<1>2. PICK times \in SUBSET attempts[k] :
        /\ Sees(k, at, times, swept) /\ Records(k, at, times, swept)
        /\ \/ /\ Cardinality(times) >= Limit[k] /\ attempts'[k] = times
              /\ refusal' = [op |-> "attempt", key |-> k, at |-> at]
              /\ allowed' = allowed
           \/ LET new == [n |-> Cardinality(allowed[k]) + 1, at |-> at]
              IN  /\ ~(Cardinality(times) >= Limit[k])
                  /\ attempts'[k] = times \cup {new}
                  /\ allowed'[k] = allowed[k] \cup {new} /\ refusal' = refusal
    BY <1>1
<1> PICK new : new = [n |-> Cardinality(allowed[k]) + 1, at |-> at]
    OBVIOUS
<1>3. calls' = [calls EXCEPT ![c] = NoCall] /\ now' = now
    BY DEF CheckAndRecord
<1>4. CallsAreRecent'
    BY <1>3 DEF CallsAreRecent, LimitInv, TokensInv
<1>5. \A j \in Keys \ {k} : KeyIsTrue(j)' /\ allowed'[j] = allowed[j]
    BY <1>2, <1>3, OthersStay DEF Records
<1>6. /\ now' \in 0..MaxNow /\ lastSweep' \in 0..MaxNow /\ windows' \in [Keys -> Nat]
      /\ \A j \in Keys \ {k} : attempts'[j] \in SUBSET Stamps
    BY <1>2, <1>3, GuardsAssumption DEF LimitInv, Records
<1>7. attempts[k] \subseteq Stamps /\ allowed[k] \subseteq Stamps /\ IsFiniteSet(allowed[k])
    BY DEF LimitInv, KeyIsTrue
<1>8. CASE /\ Cardinality(times) >= Limit[k] /\ attempts'[k] = times
           /\ refusal' = [op |-> "attempt", key |-> k, at |-> at] /\ allowed' = allowed
    <2>1. KeyIsTrue(k)'
        BY <1>2, <1>3, <1>8, RefusedStays
    <2>2. attempts' \in [Keys -> SUBSET Stamps] /\ allowed' \in [Keys -> SUBSET Stamps]
        <3>1. \A j \in Keys : attempts'[j] \in SUBSET Stamps
            BY <1>6, <1>7, <1>8
        <3> QED BY <1>2, <1>8, <3>1 DEF Records, LimitInv
    <2>3. refusal' \in Refusals /\ refusal'.key = k /\ refusal'.at = at
        BY <1>8 DEF Refusals
    <2>4. Within(allowed[k], at - Window[k], MaxNow) >= Limit[k]
        BY <1>2, <1>8, RefusalHolds
    <2>5. LimiterIsExact'
        BY <1>8, <2>3, <2>4 DEF LimiterIsExact, LimitInv
    <2> QED BY <1>4, <1>5, <1>6, <2>1, <2>2, <2>3, <2>5 DEF LimitInv
<1>9. CASE /\ ~(Cardinality(times) >= Limit[k]) /\ attempts'[k] = times \cup {new}
           /\ allowed'[k] = allowed[k] \cup {new} /\ refusal' = refusal
    <2>1. new \in Stamps /\ new.n = Cardinality(allowed[k]) + 1 /\ new.at = at
        BY <1>7, FS_CardinalityType DEF Stamps
    <2>2. KeyIsTrue(k)'
        BY <1>2, <1>3, <1>9, <2>1, AllowedIsLast
    <2>3. attempts' \in [Keys -> SUBSET Stamps] /\ allowed' \in [Keys -> SUBSET Stamps]
        <3>1. \A j \in Keys : attempts'[j] \in SUBSET Stamps /\ allowed'[j] \in SUBSET Stamps
            BY <1>5, <1>6, <1>7, <1>9, <2>1 DEF LimitInv
        <3> QED BY <1>2, <3>1 DEF Records
    <2>4. \A j \in Keys, t \in 0..MaxNow : Within(allowed'[j], t - Window[j] + 2 * MaxWait, t) <= Limit[j]
        <3> SUFFICES ASSUME NEW j \in Keys, NEW t \in 0..MaxNow
                     PROVE  Within(allowed'[j], t - Window[j] + 2 * MaxWait, t) <= Limit[j]
            OBVIOUS
        <3>1. CASE j = k
            BY <1>2, <1>3, <1>9, <2>1, <3>1, WindowHolds
        <3>2. CASE j # k
            BY <1>5, <3>2 DEF LimitInv, LimiterIsExact
        <3> QED BY <3>1, <3>2
    <2>5. refusal # NoCall =>
            Within(allowed'[refusal.key], refusal.at - Window[refusal.key], MaxNow) >= Limit[refusal.key]
        <3> SUFFICES ASSUME refusal # NoCall
                     PROVE  Within(allowed'[refusal.key], refusal.at - Window[refusal.key], MaxNow)
                                >= Limit[refusal.key]
            OBVIOUS
        <3> PICK j : j = refusal.key
            OBVIOUS
        <3> PICK after : after = refusal.at - Window[j]
            OBVIOUS
        <3>1. j \in Keys /\ Limit[j] \in Nat
            BY GuardsAssumption DEF LimitInv, Refusals
        <3>2. Within(allowed[j], after, MaxNow) >= Limit[j]
            BY DEF LimitInv, LimiterIsExact
        <3>3. allowed[j] \subseteq allowed'[j]
            BY <1>5, <1>9, <3>1
        <3>4. IsFiniteSet(allowed'[j])
            BY <1>5, <2>2, <3>1 DEF KeyIsTrue
        <3>5. Within(allowed'[j], after, MaxNow) >= Limit[j]
            BY <3>1, <3>2, <3>3, <3>4, WindowsGrow
        <3> QED BY <3>5
    <2>6. LimiterIsExact'
        BY <1>9, <2>4, <2>5 DEF LimiterIsExact
    <2> QED BY <1>4, <1>5, <1>6, <1>9, <2>2, <2>3, <2>6 DEF LimitInv
<1> QED BY <1>2, <1>8, <1>9

\* The other steps of the guards leave what is counted; time only lets attempts leave.
LEMMA KeepsLimit ==
    ASSUME LimitInv, UNCHANGED limitVars, now' \in 0..MaxNow, now <= now', CallsAreRecent'
    PROVE  LimitInv'
<1>1. UNCHANGED <<attempts, windows, lastSweep, allowed, refusal>>
    BY DEF limitVars
<1>2. ASSUME NEW k \in Keys
      PROVE  KeyIsTrue(k)'
    <2>1. /\ KeyIsTrue(k) /\ allowed[k] \subseteq Stamps /\ Window[k] \in Nat /\ MaxWait \in Nat
          /\ now \in Nat /\ now' \in Nat
        BY GuardsAssumption DEF LimitInv
    <2>2. \A a \in allowed[k] : a.at \in Nat
        BY <2>1 DEF Stamps
    <2>3. \A a \in allowed[k] : a.at <= now'
        BY <2>1, <2>2 DEF KeyIsTrue
    <2>4. \A a \in allowed[k] \ attempts[k] : a.at <= now' - Window[k] + MaxWait
        <3> SUFFICES ASSUME NEW a \in allowed[k] \ attempts[k]
                     PROVE  a.at <= now' - Window[k] + MaxWait
            OBVIOUS
        <3>1. a.at <= now - Window[k] + MaxWait
            BY <2>1 DEF KeyIsTrue
        <3> QED BY <2>1, <2>2, <3>1
    <2> QED BY <1>1, <2>1, <2>3, <2>4 DEF KeyIsTrue
<1>3. LimiterIsExact'
    BY <1>1 DEF LimiterIsExact, LimitInv
<1> QED BY <1>1, <1>2, <1>3 DEF LimitInv

LEMMA LimitAtStart == GuardsInit => LimitInv
<1> SUFFICES ASSUME GuardsInit PROVE LimitInv
    OBVIOUS
<1> USE DEF GuardsInit
<1>1. 0 \in 0..MaxNow
    BY GuardsAssumption
<1>2. CallsAreRecent
    BY DEF CallsAreRecent
<1>3. /\ attempts \in [Keys -> SUBSET Stamps] /\ allowed \in [Keys -> SUBSET Stamps]
      /\ windows \in [Keys -> Nat] /\ refusal \in Refusals
    BY DEF Refusals
<1>4. \A k \in Keys : KeyIsTrue(k)
    BY FS_EmptySet DEF KeyIsTrue
<1>5. \A k \in Keys, t \in 0..MaxNow : Within(allowed[k], t - Window[k] + 2 * MaxWait, t) <= Limit[k]
    <2> SUFFICES ASSUME NEW k \in Keys, NEW t \in 0..MaxNow
                 PROVE  Within(allowed[k], t - Window[k] + 2 * MaxWait, t) <= Limit[k]
        OBVIOUS
    <2>1. In(allowed[k], t - Window[k] + 2 * MaxWait, t) = {}
        BY DEF In
    <2>2. Within(allowed[k], t - Window[k] + 2 * MaxWait, t) = 0
        BY <2>1, FS_EmptySet DEF Within, In
    <2> QED BY <2>2, GuardsAssumption
<1>6. LimiterIsExact
    BY <1>5 DEF LimiterIsExact
<1> QED BY <1>1, <1>2, <1>3, <1>4, <1>6 DEF LimitInv

LEMMA LimitIsKept == TokensInv /\ LimitInv /\ [GuardsNext]_guardVars => LimitInv'
<1> SUFFICES ASSUME TokensInv, LimitInv, [GuardsNext]_guardVars PROVE LimitInv'
    OBVIOUS
<1>1. now \in Nat /\ MaxWait \in Nat /\ now \in 0..MaxNow
    BY GuardsAssumption DEF LimitInv
<1>2. ASSUME NEW c \in Callers, NEW n, calls' = [calls EXCEPT ![c] = n], now' = now,
             UNCHANGED limitVars, n # NoCall => n.at = now
      PROVE  LimitInv'
    <2>1. CallsAreRecent'
        BY <1>1, <1>2 DEF CallsAreRecent, LimitInv, TokensInv
    <2> QED BY <1>1, <1>2, <2>1, KeepsLimit
<1>3. ASSUME NEW c \in Callers, NEW k \in Keys, Arrive(c, k)
      PROVE  LimitInv'
    <2> PICK n : n = [op |-> "attempt", key |-> k, at |-> now]
        OBVIOUS
    <2>1. calls' = [calls EXCEPT ![c] = n] /\ n.at = now /\ now' = now /\ UNCHANGED limitVars
        BY <1>3 DEF Arrive
    <2> QED BY <1>2, <2>1
<1>4. ASSUME NEW c \in Callers, CheckAndRecord(c)
      PROVE  LimitInv'
    BY <1>4, KeepsRecord
<1>5. ASSUME NEW c \in Callers, NEW t \in Slips, NEW target \in Targets, Present(c, t, target)
      PROVE  LimitInv'
    <2> PICK n : n = [op |-> "consume", token |-> t, target |-> target, at |-> now]
        OBVIOUS
    <2>1. calls' = [calls EXCEPT ![c] = n] /\ n.at = now /\ now' = now /\ UNCHANGED limitVars
        BY <1>5 DEF Present
    <2> QED BY <1>2, <2>1
<1>6. ASSUME NEW c \in Callers, Consume(c)
      PROVE  LimitInv'
    <2>1. calls' = [calls EXCEPT ![c] = NoCall] /\ now' = now /\ UNCHANGED limitVars
        BY <1>6 DEF Consume
    <2> QED BY <1>2, <2>1
<1>7. ASSUME NEW t \in Slips, NEW target \in Targets, Issue(t, target)
      PROVE  LimitInv'
    <2>1. calls' = calls /\ now' = now /\ UNCHANGED limitVars
        BY <1>7 DEF Issue
    <2>2. CallsAreRecent'
        BY <2>1 DEF CallsAreRecent, LimitInv
    <2> QED BY <1>1, <2>1, <2>2, KeepsLimit
<1>8. CASE Tick
    <2>1. /\ calls' = calls /\ now' = now + 1 /\ now < MaxNow /\ UNCHANGED limitVars
          /\ \A c \in Callers : calls[c] # NoCall => now - calls[c].at < MaxWait
        BY <1>8 DEF Tick
    <2>2. now' \in 0..MaxNow /\ now <= now'
        BY <1>1, <2>1, GuardsAssumption
    <2>3. \A c \in Callers : calls[c] # NoCall => calls[c].at \in Nat
        BY DEF TokensInv, Waits
    <2>4. CallsAreRecent'
        <3> SUFFICES ASSUME NEW c \in Callers, calls[c] # NoCall
                     PROVE  calls[c].at <= now' /\ now' <= calls[c].at + MaxWait
            BY <2>1 DEF CallsAreRecent
        <3>1. calls[c].at <= now /\ now - calls[c].at < MaxWait /\ calls[c].at \in Nat
            BY <2>1, <2>3 DEF LimitInv, CallsAreRecent
        <3> QED BY <1>1, <2>1, <3>1
    <2> QED BY <2>1, <2>2, <2>4, KeepsLimit
<1>9. CASE UNCHANGED guardVars
    <2>1. calls' = calls /\ now' = now /\ UNCHANGED limitVars
        BY <1>9 DEF guardVars, limitVars
    <2>2. CallsAreRecent'
        BY <2>1 DEF CallsAreRecent, LimitInv
    <2> QED BY <1>1, <2>1, <2>2, KeepsLimit
<1> QED BY <1>3, <1>4, <1>5, <1>6, <1>7, <1>8, <1>9 DEF GuardsNext

LEMMA GuardsHoldAlways == GuardsSpec => [](TokensInv /\ LimitInv)
BY TokensAtStart, TokensAreKept, LimitAtStart, LimitIsKept, PTL DEF GuardsSpec

\* For any keys, limits, windows, sweep interval, threads and tokens, the variables of
\* the two guards have their types.
THEOREM GuardsTypeCorrect == GuardsSpec => []GuardsTypeOK
<1>1. TokensInv /\ LimitInv => GuardsTypeOK
    <2> SUFFICES ASSUME TokensInv, LimitInv PROVE GuardsTypeOK
        OBVIOUS
    <2>1. \A c \in Callers : calls[c].op \in {"none", "attempt", "consume"}
        BY DEF TokensInv, Waits, NoCall
    <2> QED BY <2>1 DEF TokensInv, LimitInv, GuardsTypeOK
<1> QED BY <1>1, GuardsHoldAlways, PTL

\* For any limit, window and sweep interval of each key, and however long a call that has
\* read the clock may wait for the lock: whatever is swept and in whatever order the
\* calls get the lock, a key is allowed no more than its limit in a window (less twice
\* that wait), and refused only when so many were allowed in its window; and a
\* confirmation token is accepted only when it is presented for the first time, and only
\* for what it was issued for.
THEOREM GuardsHold == GuardsSpec => []GuardsAreExact
<1>1. TokensInv /\ LimitInv => GuardsAreExact
    BY DEF TokensInv, LimitInv, GuardsAreExact
<1> QED BY <1>1, GuardsHoldAlways, PTL

---------------------------------------------------------------------------------
(* Installs: who is at work on which directory, and what that says of its files.   *)

InstallStages == {"off", "fetch", "extract", "clone", "git", "lock", "whole", "remove", "forget"}
JobType == [stage : InstallStages, slug : Packages, todo : SUBSET Parts, good : BOOLEAN, alone : BOOLEAN]

Writing(j) == job[j].stage \in {"fetch", "extract"}

\* InstallsTypeOK says of the tasks only their stage.
InstallsTyped == InstallsTypeOK /\ job \in [Jobs_ -> JobType]

\* What is downloaded is a release, and all of it is still to be written.
DownloadsReleases ==
    \A j \in Jobs_ :
        /\ Writing(j) => job[j].slug \in Releases
        /\ job[j].stage = "fetch" => job[j].todo = Parts

\* A task that is alone shares its directory with no other.
AloneIsAlone ==
    \A i, j \in Jobs_ :
        Writing(i) /\ Writing(j) /\ job[i].slug = job[j].slug /\ job[i].alone => i = j

\* What it has written so far is whole, since its archive was the right one.
WrittenIsWhole ==
    \A j \in Jobs_ :
        job[j].stage = "extract" /\ job[j].alone =>
            job[j].good /\ \A x \in Parts \ job[j].todo : part[job[j].slug][x] = "good"

\* Nobody writes the files of an emulator that is called complete.
CompleteIsQuiet ==
    \A s \in Releases \ doubted :
        status[s] = "complete" => \A j \in Jobs_ : Writing(j) => job[j].slug # s

\* A clone that is half done is somebody's.
HalfDoneIsOwned == roms \in {"git", "lock"} => \E j \in Jobs_ : job[j].stage = roms

InstallsInv ==
    /\ InstallsTyped
    /\ DownloadsReleases
    /\ AloneIsAlone
    /\ WrittenIsWhole
    /\ CompleteIsQuiet
    /\ HalfDoneIsOwned
    /\ StatusIsTrue
-------------------------------------------------------------------------------
\* Disturbing the tasks that write s takes from them that they are alone, and no more.
LEMMA DisturbedIs ==
    ASSUME InstallsTyped, NEW s
    PROVE  /\ Disturbed(s, job) \in [Jobs_ -> JobType]
           /\ \A i \in Jobs_ :
                LET d == Disturbed(s, job)[i] IN
                /\ d.stage = job[i].stage /\ d.slug = job[i].slug
                /\ d.todo = job[i].todo /\ d.good = job[i].good
                /\ d.alone => job[i].alone /\ (Writing(i) => job[i].slug # s)
<1> DEFINE d(i) == IF i \in Writers(s) THEN [job[i] EXCEPT !.alone = FALSE] ELSE job[i]
<1>1. ASSUME NEW i \in Jobs_
      PROVE  /\ d(i) \in JobType
             /\ d(i).stage = job[i].stage /\ d(i).slug = job[i].slug
             /\ d(i).todo = job[i].todo /\ d(i).good = job[i].good
             /\ d(i).alone => job[i].alone /\ (Writing(i) => job[i].slug # s)
    <2>1. job[i] \in JobType
        BY DEF InstallsTyped
    <2> QED BY <2>1 DEF Writers, Writing, JobType
<1>2. Disturbed(s, job) = [i \in Jobs_ |-> d(i)]
    BY DEF Disturbed
<1> QED BY <1>1, <1>2

\* A new download is alone only if nobody writes the same directory, and disturbs those who do.
LEMMA KeepsBeginInstall ==
    ASSUME InstallsInv, NEW j \in Jobs_, NEW s \in Packages, BeginInstall(j, s)
    PROVE  InstallsInv'
<1> USE InstallsAssumption DEF InstallsInv, InstallsTyped, InstallsTypeOK, JobType, InstallStages, Writing, Packages, Off, BeginInstall
<1> DEFINE n == [Off EXCEPT !.stage = "fetch", !.slug = s, !.todo = Parts, !.alone = (Writers(s) = {})]
<1>1. job' = [Disturbed(s, job) EXCEPT ![j] = n]
    OBVIOUS
<1>2. /\ n \in JobType /\ (n.alone => Writers(s) = {})
      /\ n.stage = "fetch" /\ n.slug = s /\ n.todo = Parts
    OBVIOUS
<1>3. s \in Releases /\ status' = [status EXCEPT ![s] = "downloading"]
      /\ UNCHANGED <<part, roms, recorded, running, doubted>> /\ job[j] = Off
    OBVIOUS
<1> HIDE DEF n, BeginInstall
<1>4. Disturbed(s, job) \in [Jobs_ -> JobType]
    BY DisturbedIs
<1> HIDE DEF JobType
<1>5. /\ job' \in [Jobs_ -> JobType]
      /\ job'[j] = n
      /\ \A i \in Jobs_ \ {j} : job'[i] = Disturbed(s, job)[i]
    BY <1>1, <1>2, <1>4
<1> USE DEF JobType
<1>6. InstallsTyped'
    BY <1>2, <1>5, <1>3, DisturbedIs DEF InstallsTyped
<1>7. DownloadsReleases'
    BY <1>2, <1>5, <1>3, DisturbedIs DEF DownloadsReleases
<1>8. AloneIsAlone'
    <2> SUFFICES ASSUME NEW i \in Jobs_, NEW k \in Jobs_, Writing(i)', Writing(k)',
                        job'[i].slug = job'[k].slug, job'[i].alone
                 PROVE  i = k
        BY DEF AloneIsAlone
    <2>1. CASE i = j
        BY <1>2, <1>5, <1>3, <2>1, DisturbedIs DEF Writers
    <2>2. CASE i # j
        <3>1. Writing(i) /\ job[i].alone /\ job[i].slug # s /\ job'[i].slug = job[i].slug
            BY <1>5, <2>2, DisturbedIs
        <3>2. k # j
            BY <1>2, <1>5, <3>1
        <3>3. Writing(k) /\ job'[k].slug = job[k].slug
            BY <1>5, <3>2, DisturbedIs
        <3> QED BY <3>1, <3>3 DEF AloneIsAlone
    <2> QED BY <2>1, <2>2
<1>9. WrittenIsWhole'
    BY <1>2, <1>5, <1>3, DisturbedIs, SMTT(30) DEF WrittenIsWhole
<1>10. CompleteIsQuiet'
    BY <1>2, <1>5, <1>3, DisturbedIs DEF CompleteIsQuiet
<1>11. HalfDoneIsOwned'
    BY <1>2, <1>5, <1>3, DisturbedIs DEF HalfDoneIsOwned
<1>12. StatusIsTrue'
    BY <1>2, <1>5, <1>3, DisturbedIs DEF StatusIsTrue
<1> QED BY <1>6, <1>7, <1>8, <1>9, <1>10, <1>11, <1>12

\* A deletion that begins touches no file yet.
LEMMA KeepsBeginDelete ==
    ASSUME InstallsInv, NEW j \in Jobs_, NEW s \in Packages, BeginDelete_(j, s)
    PROVE  InstallsInv'
<1> USE InstallsAssumption DEF InstallsInv, InstallsTyped, InstallsTypeOK, JobType, InstallStages, Writing, Packages, Off, BeginDelete_
<1>1. InstallsTyped'
    BY DEF InstallsTyped
<1>2. DownloadsReleases'
    BY DEF DownloadsReleases
<1>3. AloneIsAlone'
    BY DEF AloneIsAlone
<1>4. WrittenIsWhole'
    BY DEF WrittenIsWhole
<1>5. CompleteIsQuiet'
    BY DEF CompleteIsQuiet
<1>6. HalfDoneIsOwned'
    BY DEF HalfDoneIsOwned
<1>7. StatusIsTrue'
    BY DEF StatusIsTrue
<1> QED BY <1>1, <1>2, <1>3, <1>4, <1>5, <1>6, <1>7

\* What is extracted has the digest it should have, and nothing of it is written yet.
LEMMA KeepsFetch ==
    ASSUME InstallsInv, NEW j \in Jobs_, NEW good \in BOOLEAN, Fetch(j, good)
    PROVE  InstallsInv'
<1> USE InstallsAssumption DEF InstallsInv, InstallsTyped, InstallsTypeOK, JobType, InstallStages, Writing, Packages, Off, Fetch
<1> DEFINE n == [job[j] EXCEPT !.stage = "extract", !.good = good]
<1>1. job' = [job EXCEPT ![j] = n]
    OBVIOUS
<1>2. n \in JobType /\ n.stage = "extract" /\ n.slug = job[j].slug /\ n.todo = Parts
      /\ n.good = TRUE /\ n.alone = job[j].alone
    BY DEF DownloadsReleases, DigestMatches
<1> HIDE DEF n
<1>3. job \in [Jobs_ -> JobType]
    BY DEF InstallsTyped
<1> HIDE DEF InstallsTyped, JobType, Fetch
<1>4. /\ job' \in [Jobs_ -> JobType] /\ job'[j] = n
      /\ \A i \in Jobs_ \ {j} : job'[i] = job[i]
    BY <1>1, <1>2, <1>3
<1> USE DEF InstallsTyped, JobType, Fetch
<1>5. InstallsTyped'
    BY <1>2, <1>4 DEF InstallsTyped
<1>6. DownloadsReleases'
    BY <1>2, <1>4 DEF DownloadsReleases
<1>7. AloneIsAlone'
    BY <1>2, <1>4 DEF AloneIsAlone
<1>8. WrittenIsWhole'
    <2> SUFFICES ASSUME NEW i \in Jobs_, job'[i].stage = "extract", job'[i].alone
                 PROVE  job'[i].good /\ \A y \in Parts \ job'[i].todo : part'[job'[i].slug][y] = "good"
        BY DEF WrittenIsWhole
    <2>1. CASE i = j
        BY <1>2, <1>4, <2>1
    <2>2. CASE i # j
        <3>1. job'[i] = job[i]
            BY <1>4, <2>2
        <3> QED BY <3>1 DEF WrittenIsWhole
    <2> QED BY <2>1, <2>2
<1>9. CompleteIsQuiet'
    BY <1>2, <1>4 DEF CompleteIsQuiet
<1>10. HalfDoneIsOwned'
    BY <1>2, <1>4 DEF HalfDoneIsOwned
<1>11. StatusIsTrue'
    BY <1>2, <1>4 DEF StatusIsTrue
<1> QED BY <1>5, <1>6, <1>7, <1>8, <1>9, <1>10, <1>11

\* A file is torn by a task that still has to write it; one that is alone tears its own.
LEMMA KeepsOpenMember ==
    ASSUME InstallsInv, NEW j \in Jobs_, NEW x \in Parts, OpenMember(j, x)
    PROVE  InstallsInv'
<1> USE InstallsAssumption DEF InstallsInv, InstallsTyped, InstallsTypeOK, JobType, InstallStages, Writing, Packages, Off, OpenMember
<1> DEFINE t == job[j].slug
<1>1. t \in Releases /\ x \in job[j].todo /\ Writing(j)
    BY DEF DownloadsReleases
<1>2. /\ part'[t] = [part[t] EXCEPT ![x] = "torn"]
      /\ \A r \in Releases \ {t} : part'[r] = part[r]
    BY <1>1
<1>3. InstallsTyped'
    BY DEF InstallsTyped
<1>4. DownloadsReleases'
    BY DEF DownloadsReleases
<1>5. AloneIsAlone'
    BY DEF AloneIsAlone
<1>6. WrittenIsWhole'
    <2> SUFFICES ASSUME NEW i \in Jobs_, job'[i].stage = "extract", job'[i].alone
                 PROVE  job'[i].good /\ \A y \in Parts \ job'[i].todo : part'[job'[i].slug][y] = "good"
        BY DEF WrittenIsWhole
    <2>1. job[i].good /\ \A y \in Parts \ job[i].todo : part[job[i].slug][y] = "good"
        BY DEF WrittenIsWhole
    <2>2. CASE job[i].slug = t
        <3>1. i = j
            BY <1>1, <2>2 DEF AloneIsAlone
        <3> QED BY <1>1, <1>2, <2>1, <3>1
    <2>3. CASE job[i].slug # t
        <3>1. job[i].slug \in Releases
            BY DEF DownloadsReleases
        <3> QED BY <1>2, <2>1, <2>3, <3>1
    <2> QED BY <2>2, <2>3
<1>7. CompleteIsQuiet'
    BY DEF CompleteIsQuiet
<1>8. HalfDoneIsOwned'
    BY DEF HalfDoneIsOwned
<1>9. StatusIsTrue'
    <2>1. \A s \in Releases \ doubted : status[s] = "complete" => s # t
        BY <1>1 DEF CompleteIsQuiet
    <2> QED BY <1>2, <2>1 DEF StatusIsTrue
<1> QED BY <1>3, <1>4, <1>5, <1>6, <1>7, <1>8, <1>9

\* The archive is right, so the file is whole.
LEMMA KeepsWriteMember ==
    ASSUME InstallsInv, NEW j \in Jobs_, NEW x \in Parts, WriteMember(j, x)
    PROVE  InstallsInv'
<1> USE InstallsAssumption DEF InstallsInv, InstallsTyped, InstallsTypeOK, JobType, InstallStages, Writing, Packages, Off, WriteMember
<1> DEFINE t == job[j].slug
<1>1. t \in Releases /\ x \in job[j].todo /\ Writing(j)
    BY DEF DownloadsReleases
<1>2. /\ part'[t][x] = (IF job[j].good THEN "good" ELSE "torn")
      /\ \A y \in Parts \ {x} : part'[t][y] = part[t][y]
      /\ \A r \in Releases \ {t} : part'[r] = part[r]
    BY <1>1
<1>3. /\ job'[j].stage = job[j].stage /\ job'[j].slug = t /\ job'[j].good = job[j].good
      /\ job'[j].alone = job[j].alone /\ job'[j].todo = job[j].todo \ {x}
      /\ \A i \in Jobs_ \ {j} : job'[i] = job[i]
    OBVIOUS
<1>4. InstallsTyped'
    <2>1. part' \in [Releases -> [Parts -> {"none", "torn", "good"}]]
        <3> DEFINE row == [part[t] EXCEPT ![x] = IF job[j].good THEN "good" ELSE "torn"]
        <3>1. row \in [Parts -> {"none", "torn", "good"}]
            BY <1>1
        <3>2. part' = [part EXCEPT ![t] = row]
            OBVIOUS
        <3> HIDE DEF row
        <3> QED BY <1>1, <3>1, <3>2
    <2>2. job' \in [Jobs_ -> JobType]
        <3>1. [job[j] EXCEPT !.todo = @ \ {x}] \in JobType
            BY DEF InstallsTyped
        <3> QED BY <3>1
    <2>3. \A i \in Jobs_ : job'[i].stage = job[i].stage
        BY <1>3
    <2> QED BY <2>1, <2>2, <2>3 DEF InstallsTyped
<1>5. DownloadsReleases'
    BY DEF DownloadsReleases
<1>6. AloneIsAlone'
    BY DEF AloneIsAlone
<1>7. WrittenIsWhole'
    <2> SUFFICES ASSUME NEW i \in Jobs_, job'[i].stage = "extract", job'[i].alone
                 PROVE  job'[i].good /\ \A y \in Parts \ job'[i].todo : part'[job'[i].slug][y] = "good"
        BY DEF WrittenIsWhole
    <2>0. job[i].stage = "extract" /\ job[i].alone
        BY <1>3
    <2>1. job[i].good /\ \A y \in Parts \ job[i].todo : part[job[i].slug][y] = "good"
        BY <2>0 DEF WrittenIsWhole
    <2>2. CASE i = j
        BY <1>2, <1>3, <2>1, <2>2
    <2>3. CASE i # j
        <3>1. job[i].slug \in Releases /\ job[i].slug # t
            BY <1>1, <2>0, <2>3 DEF DownloadsReleases, AloneIsAlone
        <3> QED BY <1>2, <1>3, <2>1, <2>3, <3>1
    <2> QED BY <2>2, <2>3
<1>8. CompleteIsQuiet'
    BY DEF CompleteIsQuiet
<1>9. HalfDoneIsOwned'
    BY DEF HalfDoneIsOwned
<1>10. StatusIsTrue'
    <2>1. \A s \in Releases \ doubted : status[s] = "complete" => s # t
        BY <1>1 DEF CompleteIsQuiet
    <2> QED BY <1>2, <2>1 DEF StatusIsTrue
<1> QED BY <1>4, <1>5, <1>6, <1>7, <1>8, <1>9, <1>10

\* A deletion that stops half way leaves doubt about the emulator.
LEMMA KeepsFailRemove ==
    ASSUME InstallsInv, NEW j \in Jobs_, NEW x \in Parts, FailRemove(j, x)
    PROVE  InstallsInv'
<1> USE InstallsAssumption DEF InstallsInv, InstallsTyped, InstallsTypeOK, JobType, InstallStages, Writing, Packages, Off, FailRemove
<1> DEFINE t == job[j].slug
<1>1. /\ job' \in [Jobs_ -> JobType] /\ job'[j] = Off
      /\ \A i \in Jobs_ \ {j} : job'[i] = Disturbed(t, job)[i]
    BY DisturbedIs
<1>2. \A r \in Releases \ {t} : part'[r] = part[r]
    OBVIOUS
<1>3. InstallsTyped'
    BY <1>1 DEF InstallsTyped
<1>4. DownloadsReleases'
    BY <1>1, <1>2, DisturbedIs DEF DownloadsReleases
<1>5. AloneIsAlone'
    BY <1>1, <1>2, DisturbedIs DEF AloneIsAlone
<1>6. WrittenIsWhole'
    BY <1>1, <1>2, DisturbedIs DEF WrittenIsWhole
<1>7. CompleteIsQuiet'
    BY <1>1, <1>2, DisturbedIs DEF CompleteIsQuiet
<1>8. HalfDoneIsOwned'
    BY <1>1, <1>2, DisturbedIs DEF HalfDoneIsOwned
<1>9. StatusIsTrue'
    BY <1>1, <1>2, DisturbedIs DEF StatusIsTrue
<1> QED BY <1>3, <1>4, <1>5, <1>6, <1>7, <1>8, <1>9

\* A task that was alone has written every part, and nobody else is at work there.
LEMMA KeepsFinishInstall ==
    ASSUME InstallsInv, NEW j \in Jobs_, FinishInstall(j)
    PROVE  InstallsInv'
<1> USE InstallsAssumption DEF InstallsInv, InstallsTyped, InstallsTypeOK, JobType, InstallStages, Writing, Packages, Off, FinishInstall
<1> DEFINE t == job[j].slug
<1>1. t \in Releases /\ Writing(j) /\ t # Pack
    BY DEF DownloadsReleases
<1>2. job[j].alone => \A y \in Parts : part[t][y] = "good"
    BY DEF WrittenIsWhole
<1>3. job[j].alone => \A i \in Jobs_ \ {j} : Writing(i) => job[i].slug # t
    BY <1>1 DEF AloneIsAlone
<1>4. job'[j] = Off /\ \A i \in Jobs_ \ {j} : job'[i] = job[i]
    OBVIOUS
<1>5. \A r \in Packages \ {t} : status'[r] = status[r]
    OBVIOUS
<1>6. \A r \in (Releases \cup {Pack}) \ {t} : r \in doubted' <=> r \in doubted
    OBVIOUS
<1>7. t \notin doubted' => job[j].alone
    OBVIOUS
<1>8. InstallsTyped'
    BY DEF InstallsTyped
<1>9. DownloadsReleases'
    BY <1>1, <1>2, <1>3, <1>4, <1>5, <1>6, <1>7 DEF DownloadsReleases
<1>10. AloneIsAlone'
    BY <1>1, <1>2, <1>3, <1>4, <1>5, <1>6, <1>7 DEF AloneIsAlone
<1>11. WrittenIsWhole'
    BY <1>1, <1>2, <1>3, <1>4, <1>5, <1>6, <1>7 DEF WrittenIsWhole
<1>12. CompleteIsQuiet'
    BY <1>1, <1>2, <1>3, <1>4, <1>5, <1>6, <1>7 DEF CompleteIsQuiet
<1>13. HalfDoneIsOwned'
    BY <1>1, <1>2, <1>3, <1>4, <1>5, <1>6, <1>7 DEF HalfDoneIsOwned
<1>14. StatusIsTrue'
    BY <1>1, <1>2, <1>3, <1>4, <1>5, <1>6, <1>7 DEF StatusIsTrue
<1> QED BY <1>8, <1>9, <1>10, <1>11, <1>12, <1>13, <1>14

\* A failed install is in error, whatever it left.
LEMMA KeepsFailInstall ==
    ASSUME InstallsInv, NEW j \in Jobs_, FailInstall(j)
    PROVE  InstallsInv'
<1> USE InstallsAssumption DEF InstallsInv, InstallsTyped, InstallsTypeOK, JobType, InstallStages, Writing, Packages, Off, FailInstall
<1>1. InstallsTyped'
    BY DEF InstallsTyped
<1>2. DownloadsReleases'
    BY DEF DownloadsReleases
<1>3. AloneIsAlone'
    BY DEF AloneIsAlone
<1>4. WrittenIsWhole'
    BY DEF WrittenIsWhole
<1>5. CompleteIsQuiet'
    BY DEF CompleteIsQuiet
<1>6. HalfDoneIsOwned'
    BY DEF HalfDoneIsOwned
<1>7. StatusIsTrue'
    BY DEF StatusIsTrue
<1> QED BY <1>1, <1>2, <1>3, <1>4, <1>5, <1>6, <1>7

\* A clone that begins is not complete.
LEMMA KeepsBeginClone ==
    ASSUME InstallsInv, NEW j \in Jobs_, BeginClone(j)
    PROVE  InstallsInv'
<1> USE InstallsAssumption DEF InstallsInv, InstallsTyped, InstallsTypeOK, JobType, InstallStages, Writing, Packages, Off, BeginClone
<1>1. InstallsTyped'
    BY DEF InstallsTyped
<1>2. DownloadsReleases'
    BY DEF DownloadsReleases
<1>3. AloneIsAlone'
    BY DEF AloneIsAlone
<1>4. WrittenIsWhole'
    BY DEF WrittenIsWhole
<1>5. CompleteIsQuiet'
    BY DEF CompleteIsQuiet
<1>6. HalfDoneIsOwned'
    BY DEF HalfDoneIsOwned
<1>7. StatusIsTrue'
    BY DEF StatusIsTrue
<1> QED BY <1>1, <1>2, <1>3, <1>4, <1>5, <1>6, <1>7

\* Each step of a clone takes the directory over from the one before.
LEMMA KeepsCloneStep ==
    ASSUME InstallsInv, NEW j \in Jobs_, CloneStep(j)
    PROVE  InstallsInv'
<1> USE InstallsAssumption DEF InstallsInv, InstallsTyped, InstallsTypeOK, JobType, InstallStages, Writing, Packages, Off, CloneStep
<1>1. InstallsTyped'
    BY SMTT(30) DEF InstallsTyped
<1>2. DownloadsReleases'
    BY DEF DownloadsReleases
<1>3. AloneIsAlone'
    BY DEF AloneIsAlone
<1>4. WrittenIsWhole'
    BY DEF WrittenIsWhole
<1>5. CompleteIsQuiet'
    BY DEF CompleteIsQuiet
<1>6. HalfDoneIsOwned'
    BY DEF HalfDoneIsOwned
<1>7. StatusIsTrue'
    BY DEF StatusIsTrue
<1> QED BY <1>1, <1>2, <1>3, <1>4, <1>5, <1>6, <1>7

\* A clone reports what it finds; another clone or a deletion may have been there.
LEMMA KeepsFinishClone ==
    ASSUME InstallsInv, NEW j \in Jobs_, FinishClone(j)
    PROVE  InstallsInv'
<1> USE InstallsAssumption DEF InstallsInv, InstallsTyped, InstallsTypeOK, JobType, InstallStages, Writing, Packages, Off, FinishClone
<1>1. InstallsTyped'
    BY DEF InstallsTyped
<1>2. DownloadsReleases'
    BY DEF DownloadsReleases
<1>3. AloneIsAlone'
    BY DEF AloneIsAlone
<1>4. WrittenIsWhole'
    BY DEF WrittenIsWhole
<1>5. CompleteIsQuiet'
    BY DEF CompleteIsQuiet
<1>6. HalfDoneIsOwned'
    BY DEF HalfDoneIsOwned
<1>7. StatusIsTrue'
    BY DEF StatusIsTrue
<1> QED BY <1>1, <1>2, <1>3, <1>4, <1>5, <1>6, <1>7

\* git takes away what it wrote; a clone that was refused leaves the directory.
LEMMA KeepsFailClone ==
    ASSUME InstallsInv, NEW j \in Jobs_, FailClone(j)
    PROVE  InstallsInv'
<1> USE InstallsAssumption DEF InstallsInv, InstallsTyped, InstallsTypeOK, JobType, InstallStages, Writing, Packages, Off, FailClone
<1>1. InstallsTyped'
    BY DEF InstallsTyped
<1>2. DownloadsReleases'
    BY DEF DownloadsReleases
<1>3. AloneIsAlone'
    BY DEF AloneIsAlone
<1>4. WrittenIsWhole'
    BY DEF WrittenIsWhole
<1>5. CompleteIsQuiet'
    BY DEF CompleteIsQuiet
<1>6. HalfDoneIsOwned'
    BY DEF HalfDoneIsOwned
<1>7. StatusIsTrue'
    BY DEF StatusIsTrue
<1> QED BY <1>1, <1>2, <1>3, <1>4, <1>5, <1>6, <1>7

\* A deletion disturbs the tasks at work there and leaves doubt about what it removes.
LEMMA KeepsRemoveFiles ==
    ASSUME InstallsInv, NEW j \in Jobs_, RemoveFiles(j)
    PROVE  InstallsInv'
<1> USE InstallsAssumption DEF InstallsInv, InstallsTyped, InstallsTypeOK, JobType, InstallStages, Writing, Packages, Off, RemoveFiles
<1> DEFINE t == job[j].slug
<1>1. /\ job' \in [Jobs_ -> JobType] /\ job'[j].stage = "forget"
      /\ \A i \in Jobs_ \ {j} : job'[i] = Disturbed(t, job)[i]
    BY DisturbedIs
<1>2. \A r \in Releases \ {t} : part'[r] = part[r]
    OBVIOUS
<1>3. InstallsTyped'
    BY <1>1, <1>2, DisturbedIs DEF InstallsTyped, Missing_, Parts
<1>4. DownloadsReleases'
    BY <1>1, <1>2, DisturbedIs DEF DownloadsReleases
<1>5. AloneIsAlone'
    BY <1>1, <1>2, DisturbedIs DEF AloneIsAlone
<1>6. WrittenIsWhole'
    <2> HIDE DEF InstallsInv, InstallsTyped, InstallsTypeOK, JobType, Writing, Off, RemoveFiles
    <2> SUFFICES ASSUME NEW i \in Jobs_, job'[i].stage = "extract", job'[i].alone
                 PROVE  job'[i].good /\ \A y \in Parts \ job'[i].todo : part'[job'[i].slug][y] = "good"
        BY DEF WrittenIsWhole
    <2> USE DEF InstallsInv, InstallsTyped, InstallsTypeOK, JobType, Writing, Off, RemoveFiles
    <2>1. /\ i # j /\ job'[i] = Disturbed(t, job)[i] /\ Disturbed(t, job)[i].alone
          /\ Disturbed(t, job)[i].stage = "extract"
        BY <1>1
    <2>2. job[i].stage = "extract" /\ job[i].alone /\ job[i].slug # t
        BY <2>1, DisturbedIs
    <2>3. job[i].slug \in Releases
        BY <2>2 DEF DownloadsReleases
    <2>4. job'[i].slug = job[i].slug /\ job'[i].good = job[i].good /\ job'[i].todo = job[i].todo
        BY <2>1, DisturbedIs
    <2>5. job[i].good /\ \A y \in Parts \ job[i].todo : part[job[i].slug][y] = "good"
        BY <2>2 DEF WrittenIsWhole
    <2>6. part'[job[i].slug] = part[job[i].slug]
        BY <1>2, <2>2, <2>3
    <2>7. job'[i].good
        BY <2>4, <2>5, Zenon
    <2>8. \A y \in Parts \ job'[i].todo : part'[job'[i].slug][y] = "good"
        BY <2>4, <2>5, <2>6
    <2> QED BY <2>7, <2>8
<1>7. CompleteIsQuiet'
    BY <1>1, <1>2, DisturbedIs DEF CompleteIsQuiet
<1>8. HalfDoneIsOwned'
    BY <1>1, <1>2, DisturbedIs DEF HalfDoneIsOwned
<1>9. StatusIsTrue'
    BY <1>1, <1>2, DisturbedIs DEF StatusIsTrue
<1> QED BY <1>3, <1>4, <1>5, <1>6, <1>7, <1>8, <1>9

\* The status is reset.
LEMMA KeepsForget ==
    ASSUME InstallsInv, NEW j \in Jobs_, Forget(j)
    PROVE  InstallsInv'
<1> USE InstallsAssumption DEF InstallsInv, InstallsTyped, InstallsTypeOK, JobType, InstallStages, Writing, Packages, Off, Forget
<1>1. InstallsTyped'
    BY DEF InstallsTyped
<1>2. DownloadsReleases'
    BY DEF DownloadsReleases
<1>3. AloneIsAlone'
    BY DEF AloneIsAlone
<1>4. WrittenIsWhole'
    BY DEF WrittenIsWhole
<1>5. CompleteIsQuiet'
    BY DEF CompleteIsQuiet
<1>6. HalfDoneIsOwned'
    BY DEF HalfDoneIsOwned
<1>7. StatusIsTrue'
    BY DEF StatusIsTrue
<1> QED BY <1>1, <1>2, <1>3, <1>4, <1>5, <1>6, <1>7

\* A session begins.
LEMMA KeepsRun ==
    ASSUME InstallsInv, NEW s \in Releases, Run_(s)
    PROVE  InstallsInv'
<1> USE InstallsAssumption DEF InstallsInv, InstallsTyped, InstallsTypeOK, JobType, InstallStages, Writing, Packages, Off, Run_
<1>1. InstallsTyped'
    BY DEF InstallsTyped
<1>2. DownloadsReleases'
    BY DEF DownloadsReleases
<1>3. AloneIsAlone'
    BY DEF AloneIsAlone
<1>4. WrittenIsWhole'
    BY DEF WrittenIsWhole
<1>5. CompleteIsQuiet'
    BY DEF CompleteIsQuiet
<1>6. HalfDoneIsOwned'
    BY DEF HalfDoneIsOwned
<1>7. StatusIsTrue'
    BY DEF StatusIsTrue
<1> QED BY <1>1, <1>2, <1>3, <1>4, <1>5, <1>6, <1>7

\* A session ends.
LEMMA InstallsKeepQuit ==
    ASSUME InstallsInv, NEW s \in Releases, Quit_(s)
    PROVE  InstallsInv'
<1> USE InstallsAssumption DEF InstallsInv, InstallsTyped, InstallsTypeOK, JobType, InstallStages, Writing, Packages, Off, Quit_
<1>1. InstallsTyped'
    BY DEF InstallsTyped
<1>2. DownloadsReleases'
    BY DEF DownloadsReleases
<1>3. AloneIsAlone'
    BY DEF AloneIsAlone
<1>4. WrittenIsWhole'
    BY DEF WrittenIsWhole
<1>5. CompleteIsQuiet'
    BY DEF CompleteIsQuiet
<1>6. HalfDoneIsOwned'
    BY DEF HalfDoneIsOwned
<1>7. StatusIsTrue'
    BY DEF StatusIsTrue
<1> QED BY <1>1, <1>2, <1>3, <1>4, <1>5, <1>6, <1>7

\* Looking at the pack changes only its record.
LEMMA KeepsVerifyPack ==
    ASSUME InstallsInv, VerifyPack
    PROVE  InstallsInv'
<1> USE InstallsAssumption DEF InstallsInv, InstallsTyped, InstallsTypeOK, JobType, InstallStages, Writing, Packages, Off, VerifyPack
<1>1. InstallsTyped'
    BY DEF InstallsTyped
<1>2. DownloadsReleases'
    BY DEF DownloadsReleases
<1>3. AloneIsAlone'
    BY DEF AloneIsAlone
<1>4. WrittenIsWhole'
    BY DEF WrittenIsWhole
<1>5. CompleteIsQuiet'
    BY DEF CompleteIsQuiet
<1>6. HalfDoneIsOwned'
    BY DEF HalfDoneIsOwned
<1>7. StatusIsTrue'
    BY DEF StatusIsTrue
<1> QED BY <1>1, <1>2, <1>3, <1>4, <1>5, <1>6, <1>7

\* No task survives, and only what was cut short is in doubt.
LEMMA KeepsRestart ==
    ASSUME InstallsInv, Restart
    PROVE  InstallsInv'
<1> USE InstallsAssumption DEF InstallsInv, InstallsTyped, InstallsTypeOK, JobType, InstallStages, Writing, Packages, Off, Restart
<1>1. InstallsTyped'
    BY DEF InstallsTyped, Interrupted, Parts
<1>2. DownloadsReleases'
    BY DEF DownloadsReleases, Interrupted, Parts
<1>3. AloneIsAlone'
    BY DEF AloneIsAlone, Interrupted, Parts
<1>4. WrittenIsWhole'
    BY DEF WrittenIsWhole, Interrupted, Parts
<1>5. CompleteIsQuiet'
    BY DEF CompleteIsQuiet, Interrupted, Parts
<1>6. HalfDoneIsOwned'
    BY DEF HalfDoneIsOwned, Interrupted, Parts
<1>7. StatusIsTrue'
    BY DEF StatusIsTrue, Interrupted, Parts
<1> QED BY <1>1, <1>2, <1>3, <1>4, <1>5, <1>6, <1>7

-------------------------------------------------------------------------------
\* In the beginning nothing is installed and nobody is at work.
LEMMA InstallsHoldAtStart == InstallsInit => InstallsInv
<1> SUFFICES ASSUME InstallsInit PROVE InstallsInv
    OBVIOUS
<1>1. job \in [Jobs_ -> JobType] /\ \A j \in Jobs_ : job[j] = Off
    BY DEF InstallsInit, Off, JobType, InstallStages, Packages
<1>2. \A j \in Jobs_ : ~Writing(j) /\ job[j].stage = "off"
    BY <1>1 DEF Off, Writing
<1>3. InstallsTypeOK
    BY <1>2 DEF InstallsInit, InstallsTypeOK, Missing_, Parts
<1>4. StatusIsTrue
    BY InstallsAssumption DEF InstallsInit, StatusIsTrue, Packages
<1>5. HalfDoneIsOwned
    BY DEF InstallsInit, HalfDoneIsOwned
<1> QED BY <1>1, <1>2, <1>3, <1>4, <1>5
       DEF InstallsInv, InstallsTyped, Writing, DownloadsReleases, AloneIsAlone, WrittenIsWhole, CompleteIsQuiet

\* Every step, and none, keeps the invariant.
LEMMA InstallsAreKept == InstallsInv /\ [InstallsNext]_installsVars => InstallsInv'
<1> SUFFICES ASSUME InstallsInv, [InstallsNext]_installsVars PROVE InstallsInv'
    OBVIOUS
<1>1. CASE InstallsNext
    BY <1>1, KeepsBeginInstall, KeepsBeginDelete, KeepsFetch, KeepsOpenMember,
        KeepsWriteMember, KeepsFailRemove, KeepsFinishInstall, KeepsFailInstall,
        KeepsBeginClone, KeepsCloneStep, KeepsFinishClone, KeepsFailClone,
        KeepsRemoveFiles, KeepsForget, KeepsRun, InstallsKeepQuit, KeepsVerifyPack,
        KeepsRestart DEF InstallsNext
<1>2. CASE UNCHANGED installsVars
    BY <1>2 DEF installsVars, InstallsInv, InstallsTyped, InstallsTypeOK, Writing, DownloadsReleases, AloneIsAlone,
                WrittenIsWhole, CompleteIsQuiet, HalfDoneIsOwned, StatusIsTrue
<1> QED BY <1>1, <1>2

\* A directory that is half cloned belongs to a clone that is still at it.
LEMMA InstallsInvGives == InstallsInv => InstallsAreTrue
BY DEF InstallsInv, InstallsTyped, InstallsTypeOK, HalfDoneIsOwned, InstallsAreTrue, CloneCanBeRetried

\* For any releases and any number of tasks, every variable of the installs keeps its type.
THEOREM InstallsTypeCorrect == InstallsSpec => []InstallsTypeOK
<1>1. InstallsInv => InstallsTypeOK
    BY DEF InstallsInv, InstallsTyped
<1> QED BY <1>1, InstallsHoldAtStart, InstallsAreKept, PTL DEF InstallsSpec

\* For any releases and any number of installs, clones, deletions and restarts at once:
\* what is called complete is whole but for the doubts the property names, and a clone
\* that was cut short can be asked for again.
THEOREM StatusHolds == InstallsSpec => []InstallsAreTrue
BY InstallsHoldAtStart, InstallsAreKept, InstallsInvGives, PTL DEF InstallsSpec
-------------------------------------------------------------------------------
\* Side by side, as the runs have them: a step moves one of the components and leaves
\* the variables of the others, so a behaviour is one of each of them.
LEMMA OneOfEach ==
    MCSpec => AccountsSpec /\ GuardsSpec /\ VisibilitySpec /\ InstallsSpec /\ BackendsSpec
<1>1. MCInit => AccountsInit /\ GuardsInit /\ VisibilityInit /\ InstallsInit /\ BackendsInit
  BY DEF MCInit
<1>2. [MCNext]_<<MCVars, turn>> =>
        /\ [AccountsNext]_accountVars /\ [GuardsNext]_guardVars /\ [VisibilityNext]_visibilityVars
        /\ [InstallsNext]_installsVars /\ [BackendsNext]_backendsVars
  BY DEF MCNext, MCVars, Others
<1> QED
  BY <1>1, <1>2, PTL DEF MCSpec, AccountsSpec, GuardsSpec, VisibilitySpec, InstallsSpec, BackendsSpec

\* Type correctness of all of it at once, whichever component moves.
THEOREM AccessTypeCorrect == MCSpec => []TypeOK
<1>1. MCInit => turn \in MCTurns
  BY DEF MCInit
<1>2. turn \in MCTurns /\ [MCNext]_<<MCVars, turn>> => (turn \in MCTurns)'
  BY DEF MCNext, MCVars, Others
<1>3. MCSpec => [](turn \in MCTurns)
  BY <1>1, <1>2, PTL DEF MCSpec
<1>4. /\ turn \in MCTurns
      /\ AccountsTypeOK /\ GuardsTypeOK /\ VisibilityTypeOK /\ InstallsTypeOK /\ BackendsTypeOK
      => TypeOK
  BY DEF TypeOK
<1> QED
  BY <1>3, <1>4, OneOfEach, AccountsTypeCorrect, GuardsTypeCorrect, VisibilityTypeCorrect,
     InstallsTypeCorrect, BackendsTypeCorrect, PTL
===============================================================================
