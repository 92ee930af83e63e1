-------------------------------- MODULE Links --------------------------------
(* The archive of media and the links between titles and media: api/routes/      *)
(* entity_links.py, api/routes/media.py, models/media.py, and the media that      *)
(* service/games/media_link.py makes of a game's downloaded artwork. A link names *)
(* its two ends by type and id and no foreign key watches it, so every delete has *)
(* to remove the links itself, and an id is used again.                           *)
EXTENDS Naturals, FiniteSets, Sequences

CONSTANTS Titles,              \* games and apps, by id
          Albums, Shots,       \* media item bundles and media items, by id
          Rank,                \* the order of (type, id) over all of them
          Name,                \* the slug base of a title's name, Titles -> Names
          Names, MaxNumber,    \* slugs are <<name, number>>, title, title-2, ...
          Void,                \* no id, no slug
          Hands                \* requests in flight

Ends == Titles \cup Albums \cup Shots
Slugs == Names \X (1..MaxNumber)

ASSUME LinksAssumption ==
    /\ Rank \in [Ends -> Nat] /\ \A a, b \in Ends : Rank[a] = Rank[b] => a = b
    /\ Name \in [Titles -> Names]
    /\ MaxNumber \in Nat
    /\ Void \notin Ends
    /\ Titles \cap Albums = {} /\ Titles \cap Shots = {} /\ Albums \cap Shots = {}

VARIABLES live,       \* the titles, albums and shots that exist
          parent,     \* media_item_bundle_id of each shot
          slug,       \* the slug of each album and shot
          links,      \* media_links: pairs of ends, in the order of their ids
          hand,       \* the requests between their checks and their commit
          (* What has happened, for the properties. *)
          stray,      \* links whose end went while nobody looked after them
          madeFor,    \* the title whose artwork an album was made for, while linked
          raced       \* titles that two requests made artwork for at once

linksVars == <<live, parent, slug, links, hand, stray, madeFor, raced>>

AtRest == [kind |-> "none", title |-> Void, pair |-> <<>>, album |-> Void, slug |-> Void]

LinksInit ==
    /\ live = {}
    /\ parent = [s \in Shots |-> Void]
    /\ slug = [e \in Albums \cup Shots |-> Void]
    /\ links = <<>>
    /\ hand = [r \in Hands |-> AtRest]
    /\ stray = {}
    /\ madeFor = [m \in Albums |-> Void]
    /\ raced = {}
-------------------------------------------------------------------------------
\* make_entity_link: the pair, sorted.
\* Mutant of Sorted: the pair as it was sent.
SortedNot(a, b) == <<a, b>>
Sorted(a, b) == IF Rank[a] < Rank[b] THEN <<a, b>> ELSE <<b, a>>

Pairs == {links[i] : i \in DOMAIN links}

\* The links without some of them, the others in the order they have.
Remaining(gone) ==
    LET kept[i \in 1..(Len(links) + 1)] ==
            IF i = 1 THEN <<>>
            ELSE IF links[i - 1] \in gone THEN kept[i - 1] ELSE Append(kept[i - 1], links[i - 1])
    IN  kept[Len(links) + 1]

\* delete_links_for: on either side.
\* Mutant of Touches: on the first side only.
TouchesFirst(p, e) == p[1] = e
Touches(p, e) == e \in {p[1], p[2]}
Without(e) == Remaining({p \in Pairs : Touches(p, e)})

\* unique_media_slug: the first number nobody has, over albums and shots.
Taken == {slug[e] : e \in live \ Titles}
\* Mutant of FirstFree: numbers from zero.
FirstFreeFromZero(name) == CHOOSE n \in 0..MaxNumber : /\ <<name, n>> \notin Taken
                                                       /\ \A m \in 0..(n - 1) : <<name, m>> \in Taken
FirstFree(name) == CHOOSE n \in 1..MaxNumber : /\ <<name, n>> \notin Taken
                                               /\ \A m \in 1..(n - 1) : <<name, m>> \in Taken
Unique(name) == <<name, FirstFree(name)>>
HasFree(name) == \E n \in 1..MaxNumber : <<name, n>> \notin Taken

\* _linked_items_for, the albums only: the one with the lowest link id, of those there.
AlbumsOf(t) == {i \in DOMAIN links : Touches(links[i], t) /\ {links[i][1], links[i][2]} \cap Albums \cap live # {}}
Earliest(t) ==
    IF AlbumsOf(t) = {} THEN Void
    ELSE LET first == CHOOSE i \in AlbumsOf(t) : \A j \in AlbumsOf(t) : i <= j
         IN  CHOOSE m \in {links[first][1], links[first][2]} : m \in Albums
-------------------------------------------------------------------------------
(* Titles and media come and go.                                                 *)

\* A request that has read the title's row, or its links, may still be in flight.
CreateTitle(t) ==
    /\ t \notin live
    /\ live' = live \cup {t}
    /\ raced' = IF \E r \in Hands : hand[r].title = t THEN raced \cup {t} ELSE raced
    /\ UNCHANGED <<parent, slug, links, hand, stray, madeFor>>

\* delete_library_collection, delete_app_item_bundle
DeleteTitle(t) ==
    /\ t \in live
    /\ live' = live \ {t}
    /\ links' = Without(t)
    /\ stray' = {p \in stray : ~Touches(p, t)}
    /\ madeFor' = [m \in Albums |-> IF madeFor[m] = t THEN Void ELSE madeFor[m]]
    /\ raced' = raced \ {t}
    /\ UNCHANGED <<parent, slug, hand>>

\* create_media_item_bundle
CreateAlbum(m, name) ==
    /\ m \notin live /\ HasFree(name)
    /\ live' = live \cup {m}
    /\ slug' = [slug EXCEPT ![m] = Unique(name)]
    /\ UNCHANGED <<parent, links, hand, stray, madeFor, raced>>

\* create_media_item in an album that is there. One without an album gets an album of
\* its own first, as CreateAlbum and this.
CreateShot(s, m, name) ==
    /\ s \notin live /\ m \in live /\ HasFree(name)
    /\ live' = live \cup {s}
    /\ parent' = [parent EXCEPT ![s] = m]
    /\ slug' = [slug EXCEPT ![s] = Unique(name)]
    /\ UNCHANGED <<links, hand, stray, madeFor, raced>>

\* update_media_item
MoveShot(s, m) ==
    /\ s \in live /\ m \in (Albums \cap live) \cup {Void} /\ parent[s] # m
    /\ parent' = [parent EXCEPT ![s] = m]
    /\ UNCHANGED <<live, slug, links, hand, stray, madeFor, raced>>

\* delete_media_item
DeleteShot(s) ==
    /\ s \in live
    /\ live' = live \ {s}
    /\ parent' = [parent EXCEPT ![s] = Void]
    /\ slug' = [slug EXCEPT ![s] = Void]
    /\ links' = Without(s)
    /\ stray' = {p \in stray : ~Touches(p, s)}
    /\ UNCHANGED <<hand, madeFor, raced>>

\* delete_media_item_bundle: its shots go with it, and the links of those stay.
DeleteAlbum(m) ==
    LET gone == {s \in Shots : parent[s] = m} IN
    /\ m \in live
    /\ live' = live \ ({m} \cup gone)
    /\ parent' = [s \in Shots |-> IF s \in gone THEN Void ELSE parent[s]]
    /\ slug' = [e \in Albums \cup Shots |-> IF e \in {m} \cup gone THEN Void ELSE slug[e]]
    /\ links' = Without(m)
    /\ stray' = {p \in stray \cup {q \in Pairs : \E s \in gone : Touches(q, s)} : ~Touches(p, m)}
    /\ madeFor' = [madeFor EXCEPT ![m] = Void]
    /\ UNCHANGED <<hand, raced>>
-------------------------------------------------------------------------------
(* Links are made and removed by hand.                                           *)

\* create_entity_link, as far as its checks; one that exists is answered as it is.
BeginLink(r, a, b) ==
    /\ hand[r] = AtRest
    /\ a # b /\ {a, b} \subseteq live
    /\ Sorted(a, b) \notin Pairs
    /\ hand' = [hand EXCEPT ![r] = [AtRest EXCEPT !.kind = "link", !.pair = Sorted(a, b)]]
    /\ UNCHANGED <<live, parent, slug, links, stray, madeFor, raced>>

\* The INSERT, which the unique constraint may refuse; nothing looks at the ends again.
CommitLink(r) ==
    LET p == hand[r].pair IN
    /\ hand[r].kind = "link"
    /\ hand' = [hand EXCEPT ![r] = AtRest]
    /\ IF p \in Pairs THEN UNCHANGED <<links, stray>>
       ELSE /\ links' = Append(links, p)
            /\ stray' = IF {p[1], p[2]} \subseteq live THEN stray ELSE stray \cup {p}
    /\ UNCHANGED <<live, parent, slug, madeFor, raced>>

\* delete_entity_link: both ends have to exist.
Unlink(a, b) ==
    /\ {a, b} \subseteq live /\ Sorted(a, b) \in Pairs
    /\ links' = Remaining({Sorted(a, b)})
    /\ stray' = stray \ {Sorted(a, b)}
    /\ madeFor' = [m \in Albums |-> IF m \in {a, b} /\ madeFor[m] \in {a, b} THEN Void ELSE madeFor[m]]
    /\ UNCHANGED <<live, parent, slug, hand, raced>>
-------------------------------------------------------------------------------
(* create_linked_media_from_metadata: the links are read, the images downloaded, *)
(* a slug chosen, and the rows inserted.                                         *)

BeginArt(r, t) ==
    /\ hand[r] = AtRest
    /\ t \in live
    /\ hand' = [hand EXCEPT ![r] = [AtRest EXCEPT !.kind = "art", !.title = t, !.album = Earliest(t)]]
    /\ UNCHANGED <<live, parent, slug, links, stray, madeFor, raced>>

NameArt(r) ==
    /\ hand[r].kind = "art" /\ hand[r].album = Void /\ hand[r].slug = Void
    /\ HasFree(Name[hand[r].title])
    /\ hand' = [hand EXCEPT ![r].slug = Unique(Name[hand[r].title])]
    /\ UNCHANGED <<live, parent, slug, links, stray, madeFor, raced>>

\* The shots join an album that is there.
JoinAlbum(r, m, s) ==
    /\ m \in live
    /\ live' = live \cup {s}
    /\ parent' = [parent EXCEPT ![s] = m]
    /\ UNCHANGED <<slug, links, stray, madeFor, raced>>

\* Others that found no album for the title, and will not collide on the slug.
Late(r) == {o \in Hands \ {r} : /\ hand[o].title = hand[r].title /\ hand[o].album = Void
                                /\ hand[o].slug # hand[r].slug}

\* A new album, its shots and its link, in one transaction; a link of an album that
\* had this id before makes the insert fail.
NewAlbum(r, m, s) ==
    LET t == hand[r].title
        p == Sorted(t, m)
    IN  /\ m \notin live
        /\ p \notin Pairs
        /\ live' = live \cup {m, s}
        /\ parent' = [parent EXCEPT ![s] = m]
        /\ slug' = [slug EXCEPT ![m] = hand[r].slug]
        /\ links' = Append(links, p)
        /\ stray' = IF t \in live THEN stray ELSE stray \cup {p}
        /\ madeFor' = [madeFor EXCEPT ![m] = IF t \in live THEN t ELSE Void]
        /\ raced' = IF Late(r) # {} THEN raced \cup {t} ELSE raced

Collides(sl) == \E m \in Albums \cap live : slug[m] = sl

\* Mutant of AlbumFor: artwork always goes to an album of its own.
AlbumForAnew(r) == Void
\* The album the shots go to, Void for a new one: the one read, or, when the slug was
\* taken in between, the one that is linked now.
AlbumFor(r) == IF hand[r].album # Void THEN hand[r].album
               ELSE IF Collides(hand[r].slug) THEN Earliest(hand[r].title) ELSE Void

CommitArt(r, m, s) ==
    /\ hand[r].kind = "art"
    /\ hand[r].album # Void \/ hand[r].slug # Void
    /\ s \notin live
    /\ hand' = [hand EXCEPT ![r] = AtRest]
    /\ \/ AlbumFor(r) # Void /\ JoinAlbum(r, AlbumFor(r), s)
       \/ AlbumFor(r) = Void /\ ~Collides(hand[r].slug) /\ NewAlbum(r, m, s)

\* A download fails, the insert does, or the title and the album collide.
GiveUp(r) ==
    /\ hand[r] # AtRest
    /\ hand' = [hand EXCEPT ![r] = AtRest]
    /\ UNCHANGED <<live, parent, slug, links, stray, madeFor, raced>>
-------------------------------------------------------------------------------
LinksNext ==
    \/ \E t \in Titles : CreateTitle(t) \/ DeleteTitle(t)
    \/ \E m \in Albums : DeleteAlbum(m) \/ \E name \in Names : CreateAlbum(m, name)
    \/ \E s \in Shots : \/ DeleteShot(s)
                        \/ \E m \in Albums \cup {Void} : MoveShot(s, m)
                        \/ \E m \in Albums, name \in Names : CreateShot(s, m, name)
    \/ \E a, b \in Ends : Unlink(a, b)
    \/ \E r \in Hands :
        \/ CommitLink(r) \/ NameArt(r) \/ GiveUp(r)
        \/ \E a, b \in Ends : BeginLink(r, a, b)
        \/ \E t \in Titles : BeginArt(r, t)
        \/ \E m \in Albums, s \in Shots : CommitArt(r, m, s)

LinksSpec == LinksInit /\ [][LinksNext]_linksVars
-------------------------------------------------------------------------------
LinksTypeOK ==
    /\ live \subseteq Ends
    /\ parent \in [Shots -> Albums \cup {Void}]
    /\ \A e \in DOMAIN slug : slug[e] = Void \/ slug[e] \in Slugs
    /\ links \in Seq(Ends \X Ends)
    /\ \A r \in Hands : hand[r].kind \in {"none", "link", "art"} /\ hand[r].title \in Titles \cup {Void}
    /\ stray \subseteq Pairs
    /\ madeFor \in [Albums -> Titles \cup {Void}]
    /\ raced \subseteq Titles

\* Whatever is deleted and whichever ids are used again, a link joins two things that
\* exist, never a thing to itself and no two things twice, unless it was made while one
\* of its ends was being deleted or its end went with the album it was in.
LinksAreSound ==
    /\ \A i, j \in DOMAIN links : links[i] = links[j] => i = j
    /\ \A p \in Pairs : p[1] # p[2] /\ <<p[2], p[1]>> \notin Pairs
    /\ \A p \in Pairs \ stray : {p[1], p[2]} \subseteq live

\* The artwork of a title is kept in one album: a retry, or a second request that lost
\* the slug to the first, joins the album of the first, unless it chose its slug after
\* the first had committed and had read the links before.
OneAlbumPerTitle ==
    \A t \in live \cap Titles :
        t \in raced \/ Cardinality({m \in Albums : madeFor[m] = t}) <= 1

\* What the archive keeps of a title: links that join what exists, and one album.
ArchiveIsSound == LinksAreSound /\ OneAlbumPerTitle
===============================================================================
