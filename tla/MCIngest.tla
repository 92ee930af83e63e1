------------------------------- MODULE MCIngest -------------------------------
(* Instances of Ingest for TLC. *)
EXTENDS Ingest, TLC

CONSTANTS doom, quake, c1, c2, c3, c4

VARIABLE turn     \* three ingests one after the other, or two at once

MCIngests == 1..3
MCPair == 1..2
MCBases == {doom, quake}
MCContents == {c1, c2, c3, c4}

Part(stem, content) == [stem |-> stem, content |-> content]
File(title, stem, content, move) ==
    [shape |-> "file", staged |-> TRUE, dedup |-> TRUE, move |-> move, title |-> title,
     parts |-> <<Part(stem, content)>>]
Loose(title, stem, content) ==
    [shape |-> "file", staged |-> FALSE, dedup |-> FALSE, move |-> FALSE, title |-> title,
     parts |-> <<Part(stem, content)>>]
Folder(title, staged, parts) ==
    [shape |-> "dir", staged |-> staged, dedup |-> FALSE, move |-> FALSE, title |-> title, parts |-> parts]
Discs(title, dedup, parts) ==
    [shape |-> "discs", staged |-> TRUE, dedup |-> dedup, move |-> FALSE, title |-> title, parts |-> parts]

\* Uploads whose title and file name agree or not, of equal and of different
\* content, a loose file, folders uploaded and found, discs with and without
\* the anchor's lookup.  No upload matches a file beside the tracked one.
MCRequests ==
    {File(doom, doom, c1, FALSE), File(quake, doom, c1, FALSE), File(doom, doom, c2, FALSE),
     Loose(doom, quake, c1), Folder(quake, FALSE, <<Part(doom, c2)>>),
     Folder(doom, TRUE, <<Part(quake, c2)>>),
     Discs(doom, TRUE, <<Part(doom, c3), Part(quake, c4)>>),
     Discs(quake, FALSE, <<Part(doom, c3), Part(quake, c4)>>)}

\* The same without the lookup of anchors: an anchor repointed at discs that are
\* still being staged would be tracked twice.
PairRequests == {r \in MCRequests : ~(r.shape = "discs" /\ r.dedup)}

\* A title that differs from the file name, and a folder that is in the way.
MoveRequests == {File(quake, doom, c1, TRUE), Folder(doom, FALSE, <<Part(quake, c2)>>)}

\* A file that is already in the library, beside the tracked file of a game.
CompanionRequests == {Folder(doom, TRUE, <<Part(doom, c1), Part(quake, c2)>>), File(quake, quake, c2, FALSE)}

\* Uploads under one title, some of them of content that is there already.
RaceRequests == {File(doom, doom, c1, FALSE), File(quake, quake, c1, FALSE), File(quake, quake, c2, FALSE)}

\* The uploads do not get into each other's folders, but for the companion.
ASSUME RequestsAssumption == Apart(MCRequests) /\ ~Apart(CompanionRequests)

DistinctSizes == (c1 :> 1) @@ (c2 :> 2) @@ (c3 :> 3) @@ (c4 :> 4)
------------------------------------------------------------------------------
\* One ingest or deletion at a time, any of which may fail.  The third is an upload.
NextAlone ==
    /\ Next
    /\ Cardinality(Running') + Cardinality(deleting') <= 1
    /\ \A i \in Ingests \ MCPair : req'[i] # NoName => req'[i].staged

\* Two of them overlap, without faults.
NextPair ==
    /\ \/ \E i \in MCPair :
           \/ Start(i) /\ req'[i] \in PairRequests
           \/ Dedup(i) \/ Guard(i) \/ Place(i) \/ Finish(i) \/ Undo(i) \/ CleanUp(i)
       \/ \E b \in MCPair : DeleteMedia(b) \/ DeleteRows(b)
    /\ Watch

MCNext ==
    /\ UNCHANGED turn
    /\ IF turn = "alone" THEN NextAlone ELSE NextPair

MCInit == turn \in {"alone", "pair"} /\ Init
PlainInit == turn = "alone" /\ Init

MCSpec == MCInit /\ [][MCNext]_<<vars, turn>> /\ Fairness
MCPlain == PlainInit /\ [][MCNext]_<<vars, turn>>

\* What the library lists is what is on disk, file by file and under its own name;
\* two ingests at once may take each other's files, but track none twice.
LibraryIsSound ==
    /\ OneRowPerFile /\ SlugIsFolderName
    /\ turn = "alone" => RowsFindable /\ RowHasItsContent
==============================================================================
