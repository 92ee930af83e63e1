------------------------------ MODULE Visibility ------------------------------
(* What an account may see: the filters of core/dependencies.py, the restrictions *)
(* of api/routes/restrictions.py, and the two ways a game's rating is changed,    *)
(* service/games/enrich.py and the PATCH of a game.                               *)
EXTENDS Integers, FiniteSets

CONSTANTS Boss, Viewers,          \* the owner, who sees everything, and the others
          Ratings, Scheme,        \* content_ratings of config/constants.yaml
          Severity,               \* their order within their scheme
          Unrated, Unknown,       \* no rating, and one that is in no map
          RatingMaps,             \* values of the setting rating_ordinals
          NoMap,                  \* it is not set
          NoCeiling,              \* max_content_rating is NULL
          Domains,                \* "game", "media", "app"
          Entities,               \* ids, the same numbers in every domain
          NULL,                   \* a column that is NULL
          Editors                 \* requests that may change a rating at once

ASSUME VisibilityAssumption ==
    /\ Boss \notin Viewers
    /\ Unrated \notin Ratings /\ Unknown \notin Ratings \cup {Unrated}
    /\ DOMAIN Scheme = Ratings /\ Severity \in [Ratings -> Nat]
    /\ NoMap \notin RatingMaps /\ NoCeiling \notin Ratings
    /\ \A m \in RatingMaps : DOMAIN m \subseteq Ratings /\ m \in [DOMAIN m -> Int]
    /\ "game" \in Domains /\ "media" \in Domains
    /\ NULL \notin Entities

VARIABLES there,      \* the bundles of each domain
          rating,     \* content_rating of each game
          items,      \* media items: the bundle of each, NULL for a standalone one
          rows,       \* the table restrictions
          ceiling,    \* max_content_rating of each viewer
          blocks,     \* block_unrated_media of each viewer
          custom,     \* the setting rating_ordinals
          edit,       \* the changes of a rating in flight
          (* What has happened, for the properties. *)
          last        \* the last rating written: how, and from what

visibilityVars == <<there, rating, items, rows, ceiling, blocks, custom, edit, last>>

Everyone == Viewers \cup {Boss}
Values == Ratings \cup {Unrated, Unknown}
Calm == [game |-> NULL, from |-> Unrated, to |-> Unrated, confirmed |-> FALSE, changed |-> FALSE]
Nothing == [by |-> "none", game |-> NULL, from |-> Unrated, confirmed |-> FALSE, changed |-> FALSE]

VisibilityInit ==
    /\ there = [d \in Domains |-> {}]
    /\ rating = [e \in Entities |-> Unrated]
    /\ items = {}
    /\ rows = {}
    /\ ceiling = [u \in Viewers |-> NoCeiling]
    /\ blocks = [u \in Viewers |-> FALSE]
    /\ custom \in RatingMaps \cup {NoMap}
    /\ edit = [r \in Editors |-> Calm]
    /\ last = Nothing
-------------------------------------------------------------------------------
(* The filters.                                                                  *)

\* _load_rating_ordinals: the setting, or the order of each scheme.
Ordinals == IF custom = NoMap THEN Severity ELSE custom

\* `NOT IN' over a column: with a NULL among the values it is never true.
NotIn(e, column) == e \notin column /\ NULL \notin column

\* A row of restrictions has one of the three columns; the others are NULL.
Column(row, d) == IF row.domain = d THEN row.entity ELSE NULL

\* _restricted_bundle_ids
\* Mutant of RestrictedIds: without `isnot(None)'.
RestrictedIdsWithNulls(d, u) == {Column(row, d) : row \in {x \in rows : x.user = u}}
RestrictedIds(d, u) == {Column(row, d) : row \in {x \in rows : x.user = u}} \ {NULL}

\* What the ceiling of u lets through; nothing, when the map does not know it.
Allowed(u) ==
    IF ceiling[u] \in DOMAIN Ordinals
    THEN {r \in DOMAIN Ordinals : Ordinals[r] <= Ordinals[ceiling[u]]}
    ELSE {}

PassesRating(u, r) ==
    /\ blocks[u] => r # Unrated
    /\ ceiling[u] # NoCeiling => r = Unrated \/ r \in Allowed(u)

\* get_filtered_game_item_bundles, get_filtered_app_items,
\* get_filtered_media_item_bundles
Visible(d, u) ==
    IF u = Boss THEN there[d]
    ELSE {e \in there[d] :
            NotIn(e, RestrictedIds(d, u)) /\ (d = "game" => PassesRating(u, rating[e]))}

\* get_filtered_media_items
VisibleItems(u) ==
    IF u = Boss THEN items
    ELSE {i \in items : i.bundle = NULL \/ NotIn(i.bundle, RestrictedIds("media", u))}
-------------------------------------------------------------------------------
(* The rows come and go.                                                         *)

Create(d, e) ==
    /\ e \notin there[d]
    /\ there' = [there EXCEPT ![d] = @ \cup {e}]
    /\ \E r \in Values \ {Unknown} :
            rating' = IF d = "game" THEN [rating EXCEPT ![e] = r] ELSE rating
    /\ UNCHANGED <<items, rows, ceiling, blocks, custom, edit, last>>

\* The rows that refer to a bundle go with it (ON DELETE CASCADE).
Delete(d, e) ==
    /\ e \in there[d]
    /\ there' = [there EXCEPT ![d] = @ \ {e}]
    /\ rows' = {x \in rows : x.domain # d \/ x.entity # e}
    /\ items' = IF d = "media" THEN {i \in items : i.bundle # e} ELSE items
    /\ rating' = IF d = "game" THEN [rating EXCEPT ![e] = Unrated] ELSE rating
    /\ edit' = IF d = "game"
               THEN [r \in Editors |-> IF edit[r].game = e THEN Calm ELSE edit[r]] ELSE edit
    /\ last' = IF d = "game" /\ last.game = e THEN Nothing ELSE last
    /\ UNCHANGED <<ceiling, blocks, custom>>

\* A media item is added to a bundle, or to none, or goes.
PutItem(bundle) ==
    /\ bundle # NULL => bundle \in there["media"]
    /\ items' = items \cup {[bundle |-> bundle]}
    /\ UNCHANGED <<there, rating, rows, ceiling, blocks, custom, edit, last>>

DropItem(bundle) ==
    /\ items' = items \ {[bundle |-> bundle]}
    /\ UNCHANGED <<there, rating, rows, ceiling, blocks, custom, edit, last>>

\* set_restrictions: an admin who sees the bundle replaces its rows.
SetRestrictions(d, e, by, users) ==
    /\ e \in Visible(d, by)
    /\ rows' = {x \in rows : x.domain # d \/ x.entity # e}
                   \cup {[user |-> u, domain |-> d, entity |-> e] : u \in users}
    /\ UNCHANGED <<there, rating, items, ceiling, blocks, custom, edit, last>>

\* PATCH of an account, with validate_max_content_rating.
PatchViewer(u, max, block) ==
    /\ max = NoCeiling \/ max \in DOMAIN Ordinals
    /\ ceiling' = [ceiling EXCEPT ![u] = max]
    /\ blocks' = [blocks EXCEPT ![u] = block]
    /\ UNCHANGED <<there, rating, items, rows, custom, edit, last>>

\* DELETE of an account, whose id the next one may get.
DeleteViewer(u) ==
    /\ rows' = {x \in rows : x.user # u}
    /\ ceiling' = [ceiling EXCEPT ![u] = NoCeiling]
    /\ blocks' = [blocks EXCEPT ![u] = FALSE]
    /\ UNCHANGED <<there, rating, items, custom, edit, last>>

\* rating_ordinals is set in the database; no route writes it.
SetMap(m) ==
    /\ custom' = m
    /\ edit' = [r \in Editors |-> IF edit[r] = Calm THEN Calm ELSE [edit[r] EXCEPT !.changed = TRUE]]
    /\ last' = Nothing
    /\ UNCHANGED <<there, rating, items, rows, ceiling, blocks>>
-------------------------------------------------------------------------------
(* The rating of a game is changed.                                              *)

\* normalize_content_rating
Normalized(raw) == IF raw \in Ratings THEN raw ELSE Unrated

\* rating_change_requires_confirmation
\* Mutant of NeedsConfirmation: by the order of the scheme, not by the map.
NeedsConfirmationByScheme(old, new) ==
    /\ old # Unrated /\ new # old
    /\ \/ new = Unrated
       \/ old \notin Ratings \/ new \notin Ratings
       \/ Scheme[old] # Scheme[new]
       \/ Severity[new] < Severity[old]
NeedsConfirmation(old, new) ==
    /\ old # Unrated /\ new # old
    /\ \/ new = Unrated
       \/ old \notin Ratings \/ new \notin Ratings
       \/ Scheme[old] # Scheme[new]
       \/ old \notin DOMAIN Ordinals \/ new \notin DOMAIN Ordinals
       \/ Ordinals[new] < Ordinals[old]

\* enrich_entity reads the game and refuses, or goes on to its commit.
BeginEnrich(r, e, raw, confirmed) ==
    /\ edit[r] = Calm
    /\ e \in there["game"]
    /\ NeedsConfirmation(rating[e], Normalized(raw)) => confirmed
    /\ edit' = [edit EXCEPT ![r] = [game |-> e, from |-> rating[e], to |-> Normalized(raw),
                                    confirmed |-> confirmed, changed |-> FALSE]]
    /\ UNCHANGED <<there, rating, items, rows, ceiling, blocks, custom, last>>

\* The others in flight on the same game have read a rating that is no longer there.
Overtaken(e) ==
    [r \in Editors |-> IF edit[r].game = e THEN [edit[r] EXCEPT !.changed = TRUE] ELSE edit[r]]

\* The commit writes the column if it differs from what was read.
CommitEnrich(r) ==
    LET e == edit[r].game IN
    /\ edit[r] # Calm
    /\ rating' = IF edit[r].to # edit[r].from THEN [rating EXCEPT ![e] = edit[r].to] ELSE rating
    /\ last' = [by |-> "enrich", game |-> e, from |-> rating[e],
                confirmed |-> edit[r].confirmed, changed |-> edit[r].changed]
    /\ edit' = [Overtaken(e) EXCEPT ![r] = Calm]
    /\ UNCHANGED <<there, items, rows, ceiling, blocks, custom>>

\* PATCH /game-item-bundle writes the rating as it is given, and asks nothing.
PatchRating(e, value) ==
    /\ e \in there["game"]
    /\ rating' = [rating EXCEPT ![e] = value]
    /\ last' = [by |-> "patch", game |-> e, from |-> rating[e], confirmed |-> FALSE, changed |-> FALSE]
    /\ edit' = Overtaken(e)
    /\ UNCHANGED <<there, items, rows, ceiling, blocks, custom>>
-------------------------------------------------------------------------------
VisibilityNext ==
    \/ \E d \in Domains, e \in Entities :
        \/ Create(d, e) \/ Delete(d, e)
        \/ \E by \in Everyone, users \in SUBSET Viewers : SetRestrictions(d, e, by, users)
    \/ \E bundle \in Entities \cup {NULL} : PutItem(bundle) \/ DropItem(bundle)
    \/ \E u \in Viewers : DeleteViewer(u)
    \/ \E u \in Viewers, max \in Ratings \cup {NoCeiling}, block \in BOOLEAN : PatchViewer(u, max, block)
    \/ \E m \in RatingMaps \cup {NoMap} : SetMap(m)
    \/ \E r \in Editors :
        \/ \E e \in Entities, raw \in Values, confirmed \in BOOLEAN : BeginEnrich(r, e, raw, confirmed)
        \/ CommitEnrich(r)
    \/ \E e \in Entities, value \in Values : PatchRating(e, value)

VisibilitySpec == VisibilityInit /\ [][VisibilityNext]_visibilityVars
-------------------------------------------------------------------------------
VisibilityTypeOK ==
    /\ there \in [Domains -> SUBSET Entities]
    /\ rating \in [Entities -> Values]
    /\ items \subseteq [bundle : Entities \cup {NULL}]
    /\ rows \subseteq [user : Viewers, domain : Domains, entity : Entities]
    /\ ceiling \in [Viewers -> Ratings \cup {NoCeiling}]
    /\ blocks \in [Viewers -> BOOLEAN]
    /\ custom \in RatingMaps \cup {NoMap}
    /\ edit \in [Editors -> [game : Entities \cup {NULL}, from : Values, to : Values,
                              confirmed : BOOLEAN, changed : BOOLEAN]]
    /\ last \in [by : {"none", "enrich", "patch"}, game : Entities \cup {NULL}, from : Values,
                 confirmed : BOOLEAN, changed : BOOLEAN]

\* A restriction hides exactly the bundle it names, and the items in it: one on a
\* game hides no app and blanks no list of media, though the rows of the three
\* domains share a table and the columns of the other two are NULL in each.
RestrictionsAreExact ==
    \A u \in Viewers :
        /\ \A d \in Domains \ {"game"} :
            Visible(d, u) = {e \in there[d] : [user |-> u, domain |-> d, entity |-> e] \notin rows}
        /\ \A e \in there["game"] : ceiling[u] = NoCeiling /\ ~blocks[u] =>
            (e \in Visible("game", u) <=> [user |-> u, domain |-> "game", entity |-> e] \notin rows)
        /\ VisibleItems(u) = {i \in items : [user |-> u, domain |-> "media", entity |-> i.bundle] \notin rows}

\* Under any map of severities, a rating from a metadata provider that nobody
\* confirmed shows a game to no account that the rating before hid it from, unless
\* another change of the rating or of the map came between its read and its commit.
CeilingHolds ==
    \A e \in there["game"] :
        last.by = "enrich" /\ last.game = e /\ ~last.confirmed /\ ~last.changed /\ last.from # Unrated =>
            \A u \in Viewers : PassesRating(u, rating[e]) => PassesRating(u, last.from)

\* What an account is kept from is what was restricted or rated for it, no more and
\* no less.
FiltersAreExact == RestrictionsAreExact /\ CeilingHolds
===============================================================================
