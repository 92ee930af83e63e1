------------------------------- MODULE MCShelf -------------------------------
(* What is kept: the catalog of titles and environments, the links to the media,  *)
(* and the disk images, each on an instance of its own.                           *)
EXTENDS Catalog, Links, Machines, TLC

CONSTANTS r1, r2, id1, id2, x1, m1, m2

VARIABLE turn     \* the component that moves

MCTurns == {"edits", "readiness", "verdicts", "links", "machines"}
MCCatalog == {"edits", "readiness", "verdicts"}

MCVars == <<catalogVars, linksVars, machinesVars>>

MCInit == turn \in MCTurns /\ CatalogInit /\ LinksInit /\ MachinesInit

\* All but the variables of one component stay.
Others(p) ==
    /\ UNCHANGED turn
    /\ IF p \in MCCatalog THEN TRUE ELSE UNCHANGED catalogVars
    /\ IF p = "links" THEN TRUE ELSE UNCHANGED linksVars
    /\ IF p = "machines" THEN TRUE ELSE UNCHANGED machinesVars

MCNext ==
    \/ turn \in MCCatalog /\ CatalogNext /\ Others(turn)
    \/ turn = "links" /\ LinksNext /\ Others("links")
    \/ turn = "machines" /\ MachinesNext /\ Others("machines")

MCSpec == MCInit /\ [][MCNext]_<<MCVars, turn>>
-------------------------------------------------------------------------------
(* The instances.                                                                *)

MCEmulator == [e \in Eras |-> CASE e = "dos" -> "dosbox-x" [] e = "ps2" -> "pcsx2" [] OTHER -> "86box"]

MCRank == (id1 :> 1) @@ (id2 :> 2) @@ (m1 :> 3) @@ (m2 :> 4) @@ (x1 :> 0)
MCName == [t \in Titles |-> "n"]

MCSymmetry == Permutations({r1, r2}) \cup Permutations(Machines) \cup Permutations(Leaves)
-------------------------------------------------------------------------------
(* The bounds of each.                                                           *)

\* Edits of one bundle at once, or its readiness, or its verdicts.
CatalogBound ==
    LET Settled == \A r \in Patchers : patch[r] = NoPatch
        Verified == \A n \in Kinds, l \in Leaves : media[n][l] = "good" /\ leaf[n][l].status \in {"verified", "unchecked"}
        Machine == [era |-> "win98", system |-> FALSE, image |-> TRUE, installed |-> TRUE]
        Edits ==
            /\ Verified
            /\ environment[2] = NoEnvironment /\ environment[1] \in {NoEnvironment, Machine}
            /\ \A b \in Listed : ~bundle[b].profile /\ bundle[b].era \in {"win98", "ps2"}
            /\ mixed # {} => Settled
            /\ (\A r \in Patchers : patch[r] # NoPatch) =>
                    \A r \in Patchers : DOMAIN patch[r].row \subseteq {"era", "pc", "env", "launch"}
        Ready ==
            /\ Verified /\ Settled
            /\ environment[2] = NoEnvironment \/ environment[2].system
            /\ \A n \in Kinds : Cardinality({l \in Leaves : leaf[n][l] # NoLeaf}) <= 1
            /\ \A b \in Listed : bundle[b].launch # Nil /\ bundle[b].display = bundle[b].launch
        Verdict ==
            /\ Settled
            /\ \A e \in Environments : environment[e] = NoEnvironment
            /\ \A b \in Listed : b \in Games /\ ~bundle[b].profile /\ bundle[b].era = "ps2"
    IN  /\ Cardinality(Listed) <= 1
        /\ turn = "edits" => Edits
        /\ turn = "readiness" => Ready
        /\ turn = "verdicts" => Verdict

\* Links made by hand between a title, an album and a shot, or artwork of one title.
LinksBound ==
    /\ Len(links) <= 2 /\ Pairs \cap (Titles \X Titles) = {}
    /\ \/ /\ \A r \in Hands : hand[r].kind \in {"none", "link"}
          /\ m2 \notin live /\ madeFor[m1] = Void /\ raced = {}
       \/ /\ \A r \in Hands : hand[r].kind \in {"none", "art"}
          /\ id2 \notin live /\ stray = {}

\* One path or slug given away by hand; one environment when it has a base or is a DOS one.
MachinesBound ==
    /\ rushed = {} /\ Cardinality(renamed) + Cardinality(handed) <= 1
    /\ renamed \cup handed # {} => \E w \in Workers : worker[w] = Waiting
    /\ \A e \in Standing : machine[e].base \in {Unset} \cup OwnImages
    /\ cleared # {} \/ (\E e \in Standing : machine[e].base # Unset \/ machine[e].era = "dos") =>
            Cardinality(Standing) <= 1 /\ renamed = {}

MCBound == CatalogBound /\ LinksBound /\ MachinesBound
-------------------------------------------------------------------------------
(* The types of all of them.                                                     *)
TypeOK ==
    /\ turn \in MCTurns
    /\ CatalogTypeOK /\ LinksTypeOK /\ MachinesTypeOK
===============================================================================
