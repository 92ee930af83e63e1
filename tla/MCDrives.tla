------------------------------- MODULE MCDrives -------------------------------
(* Every size of an image is laid out.  A volume of four clusters is written to in *)
(* any way; some sets of files fit it exactly, others fill up its data, its root   *)
(* or its subdirectory; two names are one in 8.3, and a file and a directory share *)
(* a name.  And drives are made, mounted and deleted on such a volume.             *)
EXTENDS Drives, Geometry, TLC

CONSTANTS l1, l2

VARIABLE turn     \* the sizes, the volume or the drives

MCNames == {"game", "game1", "data", "sub"}
MCShort == [n \in MCNames |-> IF n = "game1" THEN "game" ELSE n]
MCPaths == {<<"game">>, <<"game1">>, <<"sub">>, <<"data">>, <<"sub", "data">>, <<"sub", "game">>}
MCSize == [p \in MCPaths |->
              CASE p = <<"game1">> -> 0 [] p[Len(p)] = "data" -> 2 [] OTHER -> 1]
MCFileSets == {{<<"game">>, <<"sub", "data">>},
               {<<"data">>, <<"sub", "data">>},
               {<<"sub", "data">>, <<"sub", "game">>},
               {<<"game">>, <<"game1">>}}
Symmetric == Permutations(Launches)

MCInit ==
    /\ turn \in {"sizes", "volume", "drives"}
    /\ LayoutInit /\ Init
    /\ turn # "sizes" => mb = MinMb
    /\ turn # "drives" => ~requires /\ folder = {<<"game">>, <<"game1">>}

MCNext ==
    \/ turn = "sizes" /\ Refine /\ UNCHANGED <<vars, turn>>
    \/ turn = "volume" /\ VolumeNext
       /\ UNCHANGED <<rows, image, saved, folder, copied, busy, launch, threads, history, layoutVars, turn>>
    \/ turn = "drives" /\ Next /\ UNCHANGED <<layoutVars, turn>>
MCSpec == MCInit /\ [][MCNext]_<<vars, layoutVars, turn>>

\* The volume is a tree of files: a write shows its file at once and whole and
\* leaves the others alone, wherever it fails or is cut off.
FT == INSTANCE FileTree WITH Sources <- Paths, Path <- ShortPath, Content <- Content,
                             tree <- IF turn = "volume" THEN Tree ELSE << >>
ImplementsFileTree == FT!Spec

\* The volume on its own goes without the file that only the folders have.
MCBound == turn = "volume" => op.file # <<"data">>
==============================================================================
