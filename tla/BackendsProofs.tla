----------------------------- MODULE BackendsProofs -----------------------------
(* What Backends promises holds for any users, media, paths and packages: an emulator *)
(* starts as its launch asked, and what launches leave behind is cleaned up.           *)
EXTENDS Backends, SequenceTheorems, TLAPS

Plans == {<<>>, <<"prepare">>, <<"prepare", "slirp">>, <<"slirp">>, <<"provision">>,
          <<"folder">>, <<"folder", "forbid">>, <<"forbid">>}

Polls == [last : Nat, same : Nat, quiet : Nat]
Sights == [disc : Discs \cup {Absent}, net : BOOLEAN, base : BOOLEAN, ready : BOOLEAN]

Launches == [at : {"idle", "edit", "ready", "spawned", "running", "installing", "playing"},
             disc : Discs \cup {Absent}, net : BOOLEAN, wrap : BOOLEAN, left : SUBSET (Discs \cup Dirs),
             todo : Plans, draft : ConfType \cup Polls \cup {Absent}, saw : Sights \cup {Absent},
             alone : BOOLEAN]

Helpers == [at : {"idle", "waiting", "writing"}, draft : ConfType \cup {Absent},
            litter : SUBSET (Discs \cup Dirs)]

RouteCalls == [path : Chosen \cup {Absent}, draft : ConfType \cup {Absent}]

\* What is left to edit, by the network that the profile allows.
PlansOf(net) ==
    CASE family = "86box" -> IF net THEN {<<"prepare", "slirp">>, <<"slirp">>, <<>>} ELSE {<<"prepare">>, <<>>}
      [] family = "xemu" -> {<<"provision">>, <<>>}
      [] family = "flycast" -> IF net THEN {<<"folder">>, <<>>} ELSE {<<"folder", "forbid">>, <<"forbid">>, <<>>}
      [] OTHER -> {<<>>}

\* How a launch stands at each stage.
InOrder(l) ==
    /\ l.at \in {"edit", "ready", "spawned", "running"} => family # "rpcs3"
    /\ l.at \notin {"ready", "spawned", "running"} => l.left = {}
    /\ l.left # {} => family \in {"86box", "dosbox"}
    /\ l.wrap => family = "86box"
    /\ l.at = "edit" =>
            /\ l.todo \in PlansOf(l.net)
            /\ l.draft # Absent => l.draft \in ConfType /\ l.todo # <<>>
    /\ l.at = "installing" => l.draft \in Polls
    /\ l.at = "running" => l.saw \in Sights

Helping(h) ==
    /\ h.at = "writing" => family = "xemu" /\ h.draft \in ConfType
    /\ h.litter # {} => family \in {"86box", "dosbox"}

BackendsTyped ==
    /\ BackendsTypeOK
    /\ launched \in [Players -> Launches] /\ \A p \in Players : InOrder(launched[p])
    /\ helper \in [Players -> Helpers] /\ \A p \in Players : Helping(helper[p])
    /\ request \in RouteCalls /\ (request # NoRequest => request.draft \in ConfType)

\* The file c as the edits of a launch make it.
Arranged(l, c) ==
    /\ family = "86box" => c.disc = InDrive(c, l.disc) /\ c.base = ~installed /\ c.net = l.net
    /\ family = "xemu" => c.disc = l.disc /\ c.net = l.net
    /\ family = "flycast" => (c.net => l.net)

\* The file c as far as it is edited, with the edits in todo to come.
Underway(l, todo, c) ==
    /\ todo = <<>> => Arranged(l, c)
    /\ todo = <<"slirp">> => c.disc = InDrive(c, l.disc) /\ c.base = ~installed

\* So the file is while nobody else has written it.
OnItsWay(l) ==
    /\ l.at \in {"ready", "spawned"} => Arranged(l, conf)
    /\ l.at = "edit" => Underway(l, l.todo, conf)
    /\ l.at = "edit" /\ l.draft # Absent => l.draft = conf

\* What the emulator has read is what was asked.
AsAsked(l) ==
    LET wanted == IF family = "86box" /\ l.disc \notin Mountable THEN Absent ELSE l.disc
    IN  /\ (l.alone \/ family = "dosbox") =>
                /\ l.saw.disc = wanted
                /\ IF family = "flycast" THEN l.saw.net => l.net ELSE l.saw.net = l.net
        /\ family \in {"xemu", "flycast"} /\ l.disc # Absent => l.saw.disc = l.disc
        /\ l.alone /\ family = "86box" => l.saw.base = ~l.saw.ready

Started(l) ==
    /\ l.at \in {"edit", "ready", "spawned"} /\ l.alone => OnItsWay(l)
    /\ l.at = "running" => AsAsked(l)

Starts == \A p \in Players : Started(launched[p])

\* A poll has seen no more of the package than there is, and has looked no oftener in
\* vain than the installer stays quiet.
Watched(l) ==
    l.at = "installing" =>
        /\ l.draft.last <= title.parts
        /\ l.draft.last = title.parts /\ title.parts \in 1..(Whole - 1) => l.draft.same + 1 <= l.draft.quiet

Installs == InstallersRunOut /\ \A p \in Players : Watched(launched[p])

BackendsInv == BackendsTyped /\ Starts /\ ChosenPathKept /\ NothingLeftBehind /\ Installs
-------------------------------------------------------------------------------
(* Lemmas about the operators.                                                   *)

\* Sequences of one element, joined.
LEMMA JoinedToNone ==
    ASSUME NEW a
    PROVE  <<a>> \o <<>> = <<a>>
<1>1. <<a>> \in Seq({a})
    OBVIOUS
<1> QED BY <1>1, ConcatEmptySeq

\* The same for two of one element.
LEMMA JoinedTo ==
    ASSUME NEW a, NEW b
    PROVE  <<a>> \o <<b>> = <<a, b>>
<1> DEFINE S == {a, b}
           s == <<a>>
           t == <<b>>
           u == <<a, b>>
<1>1. s \in Seq(S) /\ t \in Seq(S) /\ u \in Seq(S)
    OBVIOUS
<1>2. Len(s) = 1 /\ Len(t) = 1 /\ Len(u) = 2
    OBVIOUS
<1>3. s[1] = a /\ t[1] = b /\ u[1] = a /\ u[2] = b
    OBVIOUS
<1> HIDE DEF S, s, t, u
<1>4. /\ s \o t \in Seq(S) /\ Len(s \o t) = Len(s) + Len(t)
      /\ \A i \in 1..(Len(s) + Len(t)) : (s \o t)[i] = IF i <= Len(s) THEN s[i] ELSE t[i - Len(s)]
    BY <1>1, ConcatProperties
<1>5. (s \o t)[1] = a /\ (s \o t)[2] = b
    BY <1>2, <1>3, <1>4
<1>6. \A i \in 1..Len(s \o t) : (s \o t)[i] = u[i]
    BY <1>2, <1>3, <1>4, <1>5
<1>7. s \o t = u
    BY <1>1, <1>2, <1>4, <1>6, SeqEqual
<1> QED BY <1>7 DEF s, t, u

\* The edits that a launch begins with; only a family without any is ready at once.
LEMMA EditsAre ==
    ASSUME NEW net \in BOOLEAN, family \in Families
    PROVE  /\ EditsOf([net |-> net]) \in PlansOf(net) \cap Plans
           /\ EditsOf([net |-> net]) # <<"slirp">>
           /\ family \in {"86box", "xemu", "flycast"} => EditsOf([net |-> net]) # <<>>
<1> DEFINE l == [net |-> net]
<1>1. l.net = net
    OBVIOUS
<1> HIDE DEF l
<1>2. /\ <<"prepare">> \o <<"slirp">> = <<"prepare", "slirp">> /\ <<"prepare">> \o <<>> = <<"prepare">>
      /\ <<"folder">> \o <<"forbid">> = <<"folder", "forbid">> /\ <<"folder">> \o <<>> = <<"folder">>
    <2>1. <<"prepare">> \o <<"slirp">> = <<"prepare", "slirp">>
        BY JoinedTo
    <2>2. <<"folder">> \o <<"forbid">> = <<"folder", "forbid">>
        BY JoinedTo
    <2>3. <<"prepare">> \o <<>> = <<"prepare">> /\ <<"folder">> \o <<>> = <<"folder">>
        BY JoinedToNone
    <2> QED BY <2>1, <2>2, <2>3
<1>3. CASE family = "86box"
    <2>1. /\ <<"prepare">> \notin {<<>>, <<"slirp">>}
          /\ <<"prepare", "slirp">> \notin {<<>>, <<"slirp">>}
        OBVIOUS
    <2> QED BY <1>1, <1>2, <1>3, <2>1 DEF EditsOf, PlansOf, Plans
<1>4. CASE family = "xemu"
    <2>1. <<"provision">> \notin {<<>>, <<"slirp">>}
        OBVIOUS
    <2> QED BY <2>1, <1>1, <1>4 DEF EditsOf, PlansOf, Plans
<1>5. CASE family = "flycast"
    <2>1. /\ <<"folder">> \notin {<<>>, <<"slirp">>}
          /\ <<"folder", "forbid">> \notin {<<>>, <<"slirp">>}
        OBVIOUS
    <2> QED BY <1>1, <1>2, <1>5, <2>1 DEF EditsOf, PlansOf, Plans
<1>6. CASE family \in {"dosbox", "rpcs3"}
    <2>1. <<>> # <<"slirp">>
        OBVIOUS
    <2> QED BY <2>1, <1>1, <1>6 DEF EditsOf, PlansOf, Plans
<1> QED BY <1>3, <1>4, <1>5, <1>6 DEF Families, l

\* The edits are made one by one.
LEMMA PlansRun ==
    /\ Head(<<"prepare">>) = "prepare" /\ Tail(<<"prepare">>) = <<>>
    /\ Head(<<"prepare", "slirp">>) = "prepare" /\ Tail(<<"prepare", "slirp">>) = <<"slirp">>
    /\ Head(<<"slirp">>) = "slirp" /\ Tail(<<"slirp">>) = <<>>
    /\ Head(<<"provision">>) = "provision" /\ Tail(<<"provision">>) = <<>>
    /\ Head(<<"folder">>) = "folder" /\ Tail(<<"folder">>) = <<>>
    /\ Head(<<"folder", "forbid">>) = "folder" /\ Tail(<<"folder", "forbid">>) = <<"forbid">>
    /\ Head(<<"forbid">>) = "forbid" /\ Tail(<<"forbid">>) = <<>>
<1>1. Head(<<"prepare">>) = "prepare" /\ Tail(<<"prepare">>) = <<>>
    OBVIOUS
<1>2. Head(<<"prepare", "slirp">>) = "prepare" /\ Tail(<<"prepare", "slirp">>) = <<"slirp">>
    OBVIOUS
<1>3. Head(<<"slirp">>) = "slirp" /\ Tail(<<"slirp">>) = <<>>
    OBVIOUS
<1>4. Head(<<"provision">>) = "provision" /\ Tail(<<"provision">>) = <<>>
    OBVIOUS
<1>5. Head(<<"folder">>) = "folder" /\ Tail(<<"folder">>) = <<>>
    OBVIOUS
<1>6. Head(<<"folder", "forbid">>) = "folder" /\ Tail(<<"folder", "forbid">>) = <<"forbid">>
    OBVIOUS
<1>7. Head(<<"forbid">>) = "forbid" /\ Tail(<<"forbid">>) = <<>>
    OBVIOUS
<1> QED BY <1>1, <1>2, <1>3, <1>4, <1>5, <1>6, <1>7
\* A launch that has not begun, and a helper that has nothing to do.
LEMMA NothingIs ==
    /\ NoLaunch_ \in Launches /\ InOrder(NoLaunch_) /\ Started(NoLaunch_) /\ Watched(NoLaunch_)
    /\ NoLaunch_.left = {} /\ NoLaunch_.at = "idle"
    /\ NoHelper \in Helpers /\ Helping(NoHelper) /\ NoHelper.litter = {}
    /\ NoRequest \in RouteCalls /\ NoRequest.draft = Absent
<1>1. NoLaunch_ \in Launches
    BY DEF NoLaunch_, Launches, Plans
<1>2. InOrder(NoLaunch_) /\ Started(NoLaunch_) /\ Watched(NoLaunch_)
    BY DEF NoLaunch_, InOrder, Started, Watched
<1> QED BY <1>1, <1>2 DEF NoLaunch_, NoHelper, Helpers, Helping, NoRequest, RouteCalls

\* What is asked of a launch and of a helper depends on the emulator alone.
LEMMA FamilyStays ==
    ASSUME UNCHANGED fixedVars
    PROVE  /\ \A l : InOrder(l)' <=> InOrder(l)
           /\ \A h : Helping(h)' <=> Helping(h)
<1>1. family' = family
    BY DEF fixedVars
<1>2. \A net : PlansOf(net)' = PlansOf(net)
    BY <1>1 DEF PlansOf
<1> QED BY <1>1, <1>2 DEF InOrder, Helping

\* One launch changes.
LEMMA PlayerMoves ==
    ASSUME launched \in [Players -> Launches], NEW p \in Players, NEW n \in Launches,
           launched' = [launched EXCEPT ![p] = n]
    PROVE  /\ launched' \in [Players -> Launches]
           /\ launched'[p] = n /\ \A q \in Players \ {p} : launched'[q] = launched[q]
OBVIOUS

\* The launches whose file somebody else has written know it.
LEMMA InterfereIs ==
    ASSUME launched \in [Players -> Launches], NEW by
    PROVE  /\ Interfere(by) \in [Players -> Launches]
           /\ \A q \in Players :
                /\ q = by \/ launched[q].at \notin {"edit", "ready", "spawned"} =>
                        Interfere(by)[q] = launched[q]
                /\ q # by /\ launched[q].at \in {"edit", "ready", "spawned"} =>
                        Interfere(by)[q] = [launched[q] EXCEPT !.alone = FALSE]
<1>1. \A q \in Players : [launched[q] EXCEPT !.alone = FALSE] \in Launches
    <2>1. \A l \in Launches : [l EXCEPT !.alone = FALSE] \in Launches
        BY DEF Launches
    <2> QED BY <2>1
<1>2. Interfere(by) = [q \in Players |->
            IF q # by /\ launched[q].at \in {"edit", "ready", "spawned"}
            THEN [launched[q] EXCEPT !.alone = FALSE] ELSE launched[q]]
    BY DEF Interfere
<1>3. Interfere(by) \in [Players -> Launches]
    BY <1>1, <1>2
<1> QED BY <1>2, <1>3

\* A launch that is told so is as sound as before, and no more is said of its file.
LEMMA ToldIs ==
    ASSUME NEW l \in Launches, InOrder(l), NEW n, n = [l EXCEPT !.alone = FALSE],
           l.at \in {"edit", "ready", "spawned"}
    PROVE  n \in Launches /\ InOrder(n) /\ ~n.alone /\ n.at = l.at /\ n.left = l.left
<1>1. /\ n \in Launches /\ n.at = l.at /\ n.left = l.left /\ n.wrap = l.wrap /\ n.todo = l.todo
      /\ n.net = l.net /\ n.draft = l.draft /\ n.saw = l.saw
    BY DEF Launches
<1>2. ~n.alone
    BY DEF Launches
<1> QED BY <1>1, <1>2 DEF InOrder

\* What is known of the file, while it stays.
LEMMA FileStays ==
    ASSUME UNCHANGED <<fixedVars, conf, installed>>
    PROVE  \A l : Started(l)' <=> Started(l)
BY DEF Started, OnItsWay, Underway, Arranged, AsAsked, InDrive, fixedVars

\* One launch and its helper change, and the file stays.
LEMMA KeepsOneLaunch ==
    ASSUME BackendsInv, NEW p \in Players, NEW n \in Launches, InOrder(n), Started(n)', Watched(n)',
           launched' = [launched EXCEPT ![p] = n],
           UNCHANGED <<fixedVars, confVars, installed>>,
           NEW h \in Helpers, Helping(h), helper' = [helper EXCEPT ![p] = h],
           title' \in [parts : 0..Whole, flag : BOOLEAN], title'.parts = title.parts,
           cutShort' \in BOOLEAN, hurried' \in BOOLEAN, InstallersRunOut',
           litter' \subseteq Discs \cup Dirs, spilled' \subseteq litter',
           litter' \subseteq spilled' \cup n.left \cup h.litter
                \cup UNION {launched[q].left \cup helper[q].litter : q \in Players \ {p}}
    PROVE  BackendsInv'
<1> USE DEF BackendsInv
<1>1. /\ launched' \in [Players -> Launches]
      /\ launched'[p] = n /\ \A q \in Players \ {p} : launched'[q] = launched[q]
    BY PlayerMoves DEF BackendsTyped
<1>2. /\ helper' \in [Players -> Helpers]
      /\ helper'[p] = h /\ \A q \in Players \ {p} : helper'[q] = helper[q]
    BY DEF BackendsTyped
<1>3. BackendsTyped'
    <2>1. \A q \in Players : InOrder(launched[q])'
        BY <1>1, FamilyStays DEF BackendsTyped
    <2>2. \A q \in Players : launched'[q].at \in {"idle", "edit", "ready", "spawned", "running",
                                                   "installing", "playing"}
        BY <1>1 DEF Launches
    <2>3. \A q \in Players : helper'[q].at \in {"idle", "waiting", "writing"}
        BY <1>2 DEF Helpers
    <2>4. BackendsTypeOK'
        <3>1. /\ family' = family /\ setting' = setting /\ conf' = conf /\ installed' = installed
              /\ request' = request /\ path' = path /\ tangled' = tangled
            BY DEF fixedVars, confVars
        <3>2. litter' \subseteq Discs \cup Dirs /\ spilled' \subseteq litter'
            BY DEF BackendsTyped, BackendsTypeOK
        <3>3. title' \in [parts : 0..Whole, flag : BOOLEAN]
            OBVIOUS
        <3>4. tangled' \in BOOLEAN /\ hurried' \in BOOLEAN /\ cutShort' \in BOOLEAN
            BY <3>1 DEF BackendsTyped, BackendsTypeOK
        <3>5. family' \in Families /\ setting' \in {Absent, TRUE, FALSE}
            BY <3>1 DEF BackendsTyped, BackendsTypeOK
        <3>6. conf' \in ConfType' /\ installed' \in BOOLEAN
            BY <3>1 DEF BackendsTyped, BackendsTypeOK, ConfType
        <3>7. request'.path \in Chosen \cup {Absent} /\ path' \in Chosen \cup {Absent}
            BY <3>1 DEF BackendsTyped, BackendsTypeOK
        <3>8. {tangled', hurried', cutShort'} \subseteq BOOLEAN
            BY <3>4
        <3> QED BY <2>2, <2>3, <3>2, <3>3, <3>5, <3>6, <3>7, <3>8 DEF BackendsTypeOK
    <2>5. \A q \in Players : Helping(helper[q])'
        BY <1>2, FamilyStays DEF BackendsTyped
    <2> QED BY <1>1, <1>2, <2>1, <2>4, <2>5 DEF BackendsTyped, confVars, ConfType, RouteCalls, NoRequest
<1>4. Starts'
    BY <1>1, FileStays DEF Starts, confVars
<1>5. ChosenPathKept'
    BY DEF ChosenPathKept, confVars
<1>6. NothingLeftBehind'
    BY <1>1, <1>2 DEF NothingLeftBehind
<1>7. Installs'
    BY <1>1 DEF Installs, Watched
<1> QED BY <1>3, <1>4, <1>5, <1>6, <1>7

\* The same, when what is on disk stays: the launch keeps or hands on what it left.
LEMMA KeepsQuietLaunch ==
    ASSUME BackendsInv, NEW p \in Players, NEW n \in Launches, InOrder(n), Started(n)', Watched(n),
           launched' = [launched EXCEPT ![p] = n],
           NEW h \in Helpers, Helping(h), helper' = [helper EXCEPT ![p] = h],
           launched[p].left \cup helper[p].litter \subseteq n.left \cup h.litter,
           UNCHANGED <<fixedVars, confVars, titleVars, litterVars, installed>>
    PROVE  BackendsInv'
<1>1. title' = title /\ hurried' = hurried /\ cutShort' = cutShort /\ litter' = litter /\ spilled' = spilled
    BY DEF titleVars, litterVars
<1>2. Watched(n)'
    BY <1>1 DEF Watched
<1>3. /\ title \in [parts : 0..Whole, flag : BOOLEAN] /\ {hurried, cutShort} \subseteq BOOLEAN
      /\ litter \subseteq Discs \cup Dirs /\ spilled \subseteq litter
    BY DEF BackendsInv, BackendsTyped, BackendsTypeOK
<1>4. InstallersRunOut'
    BY <1>1 DEF BackendsInv, Installs, InstallersRunOut
<1>5. litter' \subseteq spilled' \cup n.left \cup h.litter
            \cup UNION {launched[q].left \cup helper[q].litter : q \in Players \ {p}}
    BY <1>1 DEF BackendsInv, NothingLeftBehind
<1>6. UNCHANGED <<fixedVars, confVars, installed>>
    OBVIOUS
<1> QED BY <1>1, <1>2, <1>3, <1>4, <1>5, <1>6, KeepsOneLaunch
-------------------------------------------------------------------------------
(* The actions of a launch that leave the file.                                  *)

\* A helper that stays is one that it changes to.
LEMMA SameHelper ==
    ASSUME BackendsTyped, NEW p \in Players, UNCHANGED helper
    PROVE  helper[p] \in Helpers /\ Helping(helper[p]) /\ helper' = [helper EXCEPT ![p] = helper[p]]
BY DEF BackendsTyped

\* A launch begins with all its edits before it.
LEMMA KeepsBegin ==
    ASSUME BackendsInv, NEW p \in Players, NEW d \in Discs \cup {Absent}, NEW net \in BOOLEAN,
           NEW wrap \in BOOLEAN, Begin(p, d, net, wrap)
    PROVE  BackendsInv'
<1> DEFINE todo == EditsOf([net |-> net])
<1> PICK n : n = [NoLaunch_ EXCEPT !.at = "edit", !.disc = d, !.net = net, !.wrap = wrap, !.todo = todo]
    OBVIOUS
<1>1. /\ family # "rpcs3" /\ launched[p].at = "idle" /\ (wrap => family = "86box")
      /\ launched' = [launched EXCEPT ![p] = n]
      /\ UNCHANGED <<fixedVars, confVars, titleVars, litterVars, installed, helper>>
    BY DEF Begin
<1>2. /\ todo \in PlansOf(net) \cap Plans
      /\ todo # <<"slirp">> /\ (family \in {"86box", "xemu", "flycast"} => todo # <<>>)
    BY EditsAre DEF BackendsInv, BackendsTyped, BackendsTypeOK
<1> HIDE DEF todo
<1>3. /\ n.at = "edit" /\ n.disc = d /\ n.net = net /\ n.wrap = wrap /\ n.todo = todo
      /\ n.left = {} /\ n.draft = Absent /\ n.alone
    BY DEF NoLaunch_
<1>4. n \in Launches
    <2> PICK m : m = [NoLaunch_ EXCEPT !.at = "edit", !.disc = d, !.net = net]
        OBVIOUS
    <2>1. m \in Launches
        BY NothingIs DEF Launches
    <2>2. n = [m EXCEPT !.wrap = wrap, !.todo = todo]
        BY DEF NoLaunch_
    <2> QED BY <1>2, <2>1, <2>2 DEF Launches
<1>5. InOrder(n)
    BY <1>1, <1>2, <1>3 DEF InOrder
<1>6. Started(n)
    BY <1>1, <1>2, <1>3 DEF Started, OnItsWay, Underway, Arranged
<1>7. Started(n)'
    BY <1>1, <1>6, FileStays DEF confVars
<1>8. Watched(n)
    BY <1>3 DEF Watched
<1>9. launched[p].left = {}
    BY <1>1 DEF BackendsInv, BackendsTyped, InOrder
<1> QED BY <1>1, <1>3, <1>4, <1>5, <1>7, <1>8, <1>9, KeepsQuietLaunch, SameHelper DEF BackendsInv

\* What has been read is the file as it is.
LEMMA KeepsReadFile ==
    ASSUME BackendsInv, NEW p \in Players, ReadFile(p)
    PROVE  BackendsInv'
<1> PICK n : n = [launched[p] EXCEPT !.draft = conf]
    OBVIOUS
<1>1. /\ launched[p] \in Launches /\ InOrder(launched[p]) /\ Started(launched[p])
      /\ conf \in ConfType
    BY DEF BackendsInv, BackendsTyped, BackendsTypeOK, Starts
<1>2. /\ launched[p].at = "edit" /\ launched[p].todo # <<>>
      /\ launched' = [launched EXCEPT ![p] = n]
      /\ UNCHANGED <<fixedVars, confVars, titleVars, litterVars, installed, helper>>
    BY <1>1 DEF ReadFile
<1>3. /\ n.at = "edit" /\ n.disc = launched[p].disc /\ n.net = launched[p].net
      /\ n.wrap = launched[p].wrap /\ n.todo = launched[p].todo /\ n.left = launched[p].left
      /\ n.draft = conf /\ n.alone = launched[p].alone
    BY <1>1, <1>2 DEF Launches
<1>4. n \in Launches
    BY <1>1 DEF Launches
<1>5. InOrder(n)
    BY <1>1, <1>2, <1>3 DEF InOrder
<1>6. Started(n)
    BY <1>1, <1>2, <1>3 DEF Started, OnItsWay, Underway, Arranged
<1>7. Started(n)'
    BY <1>2, <1>6, FileStays DEF confVars
<1>8. Watched(n)
    BY <1>3 DEF Watched
<1> QED BY <1>2, <1>3, <1>4, <1>5, <1>7, <1>8, KeepsQuietLaunch, SameHelper DEF BackendsInv

\* A launch that ends with nothing to clean up.
LEMMA KeepsEnd ==
    ASSUME BackendsInv, NEW p \in Players, launched[p].at \in {"edit", "installing", "playing"},
           launched' = [launched EXCEPT ![p] = NoLaunch_],
           UNCHANGED <<fixedVars, confVars, titleVars, litterVars, installed, helper>>
    PROVE  BackendsInv'
<1>1. launched[p].left = {}
    BY DEF BackendsInv, BackendsTyped, InOrder
<1>2. Started(NoLaunch_)'
    BY NothingIs, FileStays DEF confVars
<1> QED BY <1>1, <1>2, NothingIs, KeepsQuietLaunch, SameHelper DEF BackendsInv

\* A launch that is refused has left nothing.
LEMMA KeepsRefuse ==
    ASSUME BackendsInv, NEW p \in Players, Refuse(p)
    PROVE  BackendsInv'
BY KeepsEnd DEF Refuse

\* Nor has a launch of a package.
LEMMA KeepsClosePackage ==
    ASSUME BackendsInv, NEW p \in Players, ClosePackage(p)
    PROVE  BackendsInv'
BY KeepsEnd DEF ClosePackage

\* The file stays as the edits have made it.
LEMMA KeepsSpawn ==
    ASSUME BackendsInv, NEW p \in Players, NEW override, Spawn(p, override)
    PROVE  BackendsInv'
<1> PICK n : n = [launched[p] EXCEPT !.at = "spawned"]
    OBVIOUS
<1>1. launched[p] \in Launches /\ InOrder(launched[p]) /\ Started(launched[p])
    BY DEF BackendsInv, BackendsTyped, Starts
<1>2. /\ launched[p].at = "ready" /\ launched' = [launched EXCEPT ![p] = n]
      /\ UNCHANGED <<fixedVars, confVars, titleVars, litterVars, installed, helper>>
    BY <1>1 DEF Spawn
<1>3. /\ n.at = "spawned" /\ n.disc = launched[p].disc /\ n.net = launched[p].net
      /\ n.wrap = launched[p].wrap /\ n.left = launched[p].left /\ n.alone = launched[p].alone
    BY <1>1 DEF Launches
<1>4. n \in Launches
    BY <1>1 DEF Launches
<1>5. InOrder(n)
    BY <1>1, <1>2, <1>3 DEF InOrder
<1>6. Started(n)
    BY <1>1, <1>2, <1>3 DEF Started, OnItsWay, Arranged
<1>7. Started(n)'
    BY <1>2, <1>6, FileStays DEF confVars
<1>8. Watched(n)
    BY <1>3 DEF Watched
<1> QED BY <1>2, <1>3, <1>4, <1>5, <1>7, <1>8, KeepsQuietLaunch, SameHelper DEF BackendsInv

\* The emulator reads the file that the edits have made, or its command line.
LEMMA KeepsBoot ==
    ASSUME BackendsInv, NEW p \in Players, Boot(p)
    PROVE  BackendsInv'
<1> DEFINE l == launched[p]
           s == [disc |-> IF OnCommandLine(l) THEN l.disc ELSE conf.disc,
                 net |-> IF family = "dosbox" THEN l.net ELSE conf.net,
                 base |-> conf.base, ready |-> installed]
<1> PICK n : n = [l EXCEPT !.at = "running", !.saw = s]
    OBVIOUS
<1>1. /\ l \in Launches /\ InOrder(l) /\ Started(l)
      /\ conf \in ConfType /\ installed \in BOOLEAN /\ family \in Families
    BY DEF BackendsInv, BackendsTyped, BackendsTypeOK, Starts
<1>2. /\ l.at = "spawned" /\ launched' = [launched EXCEPT ![p] = n]
      /\ UNCHANGED <<fixedVars, confVars, titleVars, litterVars, installed, helper>>
    BY DEF Boot
<1>3. s \in Sights
    BY <1>1 DEF Sights, ConfType, Launches
<1>4. /\ s.disc = (IF OnCommandLine(l) THEN l.disc ELSE conf.disc)
      /\ s.net = (IF family = "dosbox" THEN l.net ELSE conf.net)
      /\ s.base = conf.base /\ s.ready = installed
    OBVIOUS
<1> HIDE DEF s
<1>5. /\ n.at = "running" /\ n.disc = l.disc /\ n.net = l.net /\ n.wrap = l.wrap
      /\ n.left = l.left /\ n.alone = l.alone /\ n.saw = s
    BY <1>1 DEF Launches
<1>6. n \in Launches
    BY <1>1, <1>3 DEF Launches
<1> HIDE DEF l
<1>7. InOrder(n)
    BY <1>1, <1>2, <1>3, <1>5 DEF InOrder
<1>8. l.alone => Arranged(l, conf)
    BY <1>1, <1>2 DEF Started, OnItsWay
<1>9. family # "rpcs3"
    BY <1>1, <1>2 DEF InOrder
<1>10. AsAsked(n)
    <2>1. CASE family = "86box"
        BY <1>4, <1>5, <1>8, <2>1 DEF AsAsked, Arranged, InDrive, OnCommandLine
    <2>2. CASE family = "xemu"
        BY <1>4, <1>5, <1>8, <2>2 DEF AsAsked, Arranged, OnCommandLine
    <2>3. CASE family = "flycast"
        BY <1>4, <1>5, <1>8, <2>3 DEF AsAsked, Arranged, OnCommandLine
    <2>4. CASE family = "dosbox"
        BY <1>4, <1>5, <2>4 DEF AsAsked, OnCommandLine
    <2> QED BY <1>1, <1>9, <2>1, <2>2, <2>3, <2>4 DEF Families
<1>11. Started(n)
    BY <1>5, <1>10 DEF Started
<1>12. Started(n)'
    BY <1>2, <1>11, FileStays DEF confVars
<1>13. Watched(n)
    BY <1>5 DEF Watched
<1> QED
    BY <1>2, <1>5, <1>6, <1>7, <1>12, <1>13, KeepsQuietLaunch, SameHelper DEF BackendsInv, l

\* What is put beside the media is the launch's own.
LEMMA KeepsPutBeside ==
    ASSUME BackendsInv, NEW p \in Players, NEW left \in SUBSET (Discs \cup Dirs), PutBeside(p, left)
    PROVE  BackendsInv'
<1> PICK n : n = [launched[p] EXCEPT !.at = "ready", !.left = left]
    OBVIOUS
<1>1. /\ launched[p] \in Launches /\ InOrder(launched[p]) /\ Started(launched[p])
      /\ title \in [parts : 0..Whole, flag : BOOLEAN] /\ {hurried, cutShort} \subseteq BOOLEAN
      /\ litter \subseteq Discs \cup Dirs /\ spilled \subseteq litter
    BY DEF BackendsInv, BackendsTyped, BackendsTypeOK, Starts
<1>2. /\ launched[p].at = "edit" /\ launched[p].todo = <<>>
      /\ launched' = [launched EXCEPT ![p] = n] /\ litter' = litter \cup left /\ spilled' = spilled
      /\ UNCHANGED <<fixedVars, confVars, titleVars, installed, helper>>
    BY <1>1 DEF PutBeside
<1>3. left # {} => family \in {"86box", "dosbox"}
    BY <1>1 DEF PutBeside, InOrder
<1>4. /\ n.at = "ready" /\ n.disc = launched[p].disc /\ n.net = launched[p].net
      /\ n.wrap = launched[p].wrap /\ n.left = left /\ n.alone = launched[p].alone
    BY <1>1 DEF Launches
<1>5. n \in Launches
    BY <1>1 DEF Launches
<1>6. InOrder(n)
    BY <1>1, <1>2, <1>3, <1>4 DEF InOrder
<1>7. Started(n)
    BY <1>1, <1>2, <1>4 DEF Started, OnItsWay, Underway, Arranged
<1>8. Started(n)'
    BY <1>2, <1>7, FileStays DEF confVars
<1>9. Watched(n)'
    BY <1>4 DEF Watched
<1>10. title' = title /\ hurried' = hurried /\ cutShort' = cutShort
    BY <1>2 DEF titleVars
<1>11. InstallersRunOut'
    BY <1>10 DEF BackendsInv, Installs, InstallersRunOut
<1>12. launched[p].left = {}
    BY <1>1, <1>2 DEF InOrder
<1>13. /\ litter' \subseteq Discs \cup Dirs /\ spilled' \subseteq litter'
       /\ litter' \subseteq spilled' \cup n.left \cup helper[p].litter
            \cup UNION {launched[q].left \cup helper[q].litter : q \in Players \ {p}}
    BY <1>1, <1>2, <1>4, <1>12 DEF BackendsInv, NothingLeftBehind
<1>14. helper[p] \in Helpers /\ Helping(helper[p]) /\ helper' = [helper EXCEPT ![p] = helper[p]]
    BY <1>2, SameHelper DEF BackendsInv
<1>15. launched' = [launched EXCEPT ![p] = n] /\ UNCHANGED <<fixedVars, confVars, installed>>
    BY <1>2
<1>16. /\ title' \in [parts : 0..Whole, flag : BOOLEAN] /\ title'.parts = title.parts
       /\ cutShort' \in BOOLEAN /\ hurried' \in BOOLEAN
    BY <1>1, <1>10
<1> QED BY <1>5, <1>6, <1>8, <1>9, <1>11, <1>13, <1>14, <1>15, <1>16, KeepsOneLaunch

\* A launch that fails once it is ready: what it left is undone or spilled.
LEMMA KeepsFailure ==
    ASSUME BackendsInv, NEW p \in Players, launched' = [launched EXCEPT ![p] = NoLaunch_],
           litter' \subseteq litter, spilled' \subseteq litter',
           (spilled \cup launched[p].left) \cap litter' \subseteq spilled',
           UNCHANGED <<fixedVars, confVars, titleVars, installed, helper>>
    PROVE  BackendsInv'
<1>1. /\ title \in [parts : 0..Whole, flag : BOOLEAN] /\ {hurried, cutShort} \subseteq BOOLEAN
      /\ litter \subseteq Discs \cup Dirs
    BY DEF BackendsInv, BackendsTyped, BackendsTypeOK
<1>2. Started(NoLaunch_)' /\ Watched(NoLaunch_)'
    BY NothingIs, FileStays DEF confVars, Watched, NoLaunch_
<1>3. title' = title /\ hurried' = hurried /\ cutShort' = cutShort
    BY DEF titleVars
<1>4. InstallersRunOut'
    BY <1>3 DEF BackendsInv, Installs, InstallersRunOut
<1>5. litter' \subseteq spilled' \cup NoLaunch_.left \cup helper[p].litter
            \cup UNION {launched[q].left \cup helper[q].litter : q \in Players \ {p}}
    BY DEF BackendsInv, NothingLeftBehind
<1>6. helper[p] \in Helpers /\ Helping(helper[p]) /\ helper' = [helper EXCEPT ![p] = helper[p]]
    BY SameHelper DEF BackendsInv
<1>7. UNCHANGED <<fixedVars, confVars, installed>>
    OBVIOUS
<1> QED BY <1>1, <1>2, <1>3, <1>4, <1>5, <1>6, <1>7, NothingIs, KeepsOneLaunch

\* A start that fails undoes what it left (86box), or spills it (dosbox).
LEMMA KeepsSpawnFails ==
    ASSUME BackendsInv, NEW p \in Players, SpawnFails(p)
    PROVE  BackendsInv'
<1>1. /\ family \in {"86box", "xemu", "flycast", "dosbox"} /\ spilled \subseteq litter
      /\ launched[p].left # {} => family \in {"86box", "dosbox"}
    BY DEF BackendsInv, BackendsTyped, BackendsTypeOK, InOrder, SpawnFails, Families
<1>2. litter' \subseteq litter /\ spilled' \subseteq litter'
    BY <1>1 DEF SpawnFails, Undone
<1>3. (spilled \cup launched[p].left) \cap litter' \subseteq spilled'
    BY <1>1 DEF SpawnFails, Undone
<1> QED BY <1>2, <1>3, KeepsFailure DEF SpawnFails

\* Without a container what was left is spilled.
LEMMA KeepsCageFails ==
    ASSUME BackendsInv, NEW p \in Players, NEW override, CageFails(p, override)
    PROVE  BackendsInv'
<1>1. spilled \subseteq litter
    BY DEF BackendsInv, BackendsTyped, BackendsTypeOK
<1> QED BY <1>1, KeepsFailure DEF CageFails
-------------------------------------------------------------------------------
(* The actions that write the file.                                              *)

\* A file made of its parts.
LEMMA ConfIs ==
    ASSUME NEW d \in Discs \cup {Absent}, NEW base \in BOOLEAN, NEW net \in BOOLEAN,
           NEW a \in Chosen \cup {Absent, "default"}
    PROVE  [disc |-> d, base |-> base, net |-> net, path |-> a] \in ConfType
BY DEF ConfType

\* An edit keeps a path that is set, and does what Underway says.
LEMMA EditsArrange ==
    ASSUME NEW l \in Launches, InOrder(l), l.at = "edit", l.todo # <<>>, NEW c \in ConfType,
           family \in Families, installed \in BOOLEAN, Underway(l, l.todo, c) \/ ~l.alone,
           NEW e, e = Edited(Head(l.todo), l, c)
    PROVE  /\ e \in ConfType /\ (c.path # Absent => e.path = c.path)
           /\ Tail(l.todo) \in PlansOf(l.net) \cap Plans
           /\ l.alone => Underway(l, Tail(l.todo), e)
<1>1. l.todo \in PlansOf(l.net) /\ l.net \in BOOLEAN /\ l.disc \in Discs \cup {Absent}
    BY DEF InOrder, Launches
<1>2. \A d \in Discs \cup {Absent} : InDrive(c, d) \in Discs \cup {Absent}
    BY BackendsAssumption DEF InDrive
<1>3. InDrive(c, l.disc) = InDrive(e, l.disc)
    BY DEF InDrive
<1>4. <<>> # <<"slirp">> /\ <<"forbid">> # <<"slirp">> /\ <<"forbid">> # <<>>
    OBVIOUS
<1>5. CASE l.todo = <<"prepare">>
    <2>0. <<"prepare">> \notin {<<>>, <<"prepare", "slirp">>, <<"slirp">>, <<"provision">>,
                <<"folder">>, <<"folder", "forbid">>, <<"forbid">>}
        OBVIOUS
    <2>1. family = "86box" /\ l.net = FALSE
        BY <1>1, <1>5, <2>0 DEF PlansOf, Families
    <2>2. e = [c EXCEPT !.disc = InDrive(c, l.disc), !.base = ~installed, !.net = FALSE]
        BY <1>5, PlansRun DEF Edited, Prepared
    <2>3. /\ e \in ConfType /\ e.path = c.path
          /\ e.disc = InDrive(c, l.disc) /\ e.base = ~installed /\ e.net = FALSE
        BY <1>1, <1>2, <2>2 DEF ConfType
    <2>4. Tail(l.todo) = <<>>
        BY <1>5, PlansRun
    <2> QED BY <1>3, <1>4, <2>1, <2>3, <2>4 DEF Underway, Arranged, PlansOf, Plans
<1>6. CASE l.todo = <<"prepare", "slirp">>
    <2>0. <<"prepare", "slirp">> \notin {<<>>, <<"prepare">>, <<"slirp">>, <<"provision">>,
                <<"folder">>, <<"folder", "forbid">>, <<"forbid">>}
        OBVIOUS
    <2>1. family = "86box" /\ l.net = TRUE
        BY <1>1, <1>6, <2>0 DEF PlansOf, Families
    <2>2. e = [c EXCEPT !.disc = InDrive(c, l.disc), !.base = ~installed, !.net = FALSE]
        BY <1>6, PlansRun DEF Edited, Prepared
    <2>3. /\ e \in ConfType /\ e.path = c.path
          /\ e.disc = InDrive(c, l.disc) /\ e.base = ~installed
        BY <1>1, <1>2, <2>2 DEF ConfType
    <2>4. Tail(l.todo) = <<"slirp">>
        BY <1>6, PlansRun
    <2> QED BY <1>3, <1>4, <2>1, <2>3, <2>4 DEF Underway, PlansOf, Plans
<1>7. CASE l.todo = <<"slirp">>
    <2>0. <<"slirp">> \notin {<<>>, <<"prepare">>, <<"prepare", "slirp">>, <<"provision">>,
                <<"folder">>, <<"folder", "forbid">>, <<"forbid">>}
        OBVIOUS
    <2>1. family = "86box" /\ l.net = TRUE
        BY <1>1, <1>7, <2>0 DEF PlansOf, Families
    <2>2. e = [c EXCEPT !.net = TRUE]
        BY <1>7, PlansRun DEF Edited, Networked
    <2>3. /\ e \in ConfType /\ e.path = c.path /\ e.disc = c.disc /\ e.base = c.base /\ e.net = TRUE
        BY <2>2 DEF ConfType
    <2>4. Tail(l.todo) = <<>>
        BY <1>7, PlansRun
    <2> QED BY <1>3, <1>4, <1>7, <2>1, <2>3, <2>4 DEF Underway, Arranged, PlansOf, Plans
<1>8. CASE l.todo = <<"provision">>
    <2>0. <<"provision">> \notin {<<>>, <<"prepare">>, <<"prepare", "slirp">>, <<"slirp">>,
                <<"folder">>, <<"folder", "forbid">>, <<"forbid">>}
        OBVIOUS
    <2>1. family = "xemu"
        BY <1>1, <1>8, <2>0 DEF PlansOf, Families
    <2>2. e = [disc |-> l.disc, base |-> FALSE, net |-> l.net, path |-> AssetPath(c)]
        BY <1>8, PlansRun DEF Edited, Provisioned
    <2>3. /\ AssetPath(c) \in Chosen \cup {Absent, "default"}
          /\ c.path # Absent => AssetPath(c) = c.path
        BY DEF ConfType, AssetPath
    <2>5. /\ e \in ConfType /\ e.disc = l.disc /\ e.net = l.net
          /\ e.path = AssetPath(c)
        <3>1. FALSE \in BOOLEAN
            OBVIOUS
        <3>2. [disc |-> l.disc, base |-> FALSE, net |-> l.net, path |-> AssetPath(c)] \in ConfType
            BY <1>1, <2>3, <3>1, ConfIs
        <3>3. e \in ConfType
            BY <2>2, <3>2, Zenon
        <3>4. e.disc = l.disc /\ e.path = AssetPath(c)
            BY <2>2
        <3>5. e.net = l.net
            BY <2>2
        <3> QED BY <3>3, <3>4, <3>5
    <2>4. Tail(l.todo) = <<>>
        BY <1>8, PlansRun
    <2> QED BY <1>4, <2>1, <2>3, <2>4, <2>5 DEF Underway, Arranged, PlansOf, Plans
<1>9. CASE l.todo = <<"folder">>
    <2>0. <<"folder">> \notin {<<>>, <<"prepare">>, <<"prepare", "slirp">>, <<"slirp">>,
                <<"provision">>, <<"folder", "forbid">>, <<"forbid">>}
        OBVIOUS
    <2>1. family = "flycast" /\ l.net = TRUE
        BY <1>1, <1>9, <2>0 DEF PlansOf, Families
    <2>2. e = c
        BY <1>9, PlansRun DEF Edited
    <2>4. Tail(l.todo) = <<>>
        BY <1>9, PlansRun
    <2> QED BY <1>4, <2>1, <2>2, <2>4 DEF Underway, Arranged, PlansOf, Plans
<1>10. CASE l.todo = <<"folder", "forbid">>
    <2>0. <<"folder", "forbid">> \notin {<<>>, <<"prepare">>, <<"prepare", "slirp">>, <<"slirp">>,
                <<"provision">>, <<"folder">>, <<"forbid">>}
        OBVIOUS
    <2>1. family = "flycast" /\ l.net = FALSE
        BY <1>1, <1>10, <2>0 DEF PlansOf, Families
    <2>2. e = c
        BY <1>10, PlansRun DEF Edited
    <2>4. Tail(l.todo) = <<"forbid">>
        BY <1>10, PlansRun
    <2> QED BY <1>4, <2>1, <2>2, <2>4 DEF Underway, PlansOf, Plans
<1>11. CASE l.todo = <<"forbid">>
    <2>0. <<"forbid">> \notin {<<>>, <<"prepare">>, <<"prepare", "slirp">>, <<"slirp">>,
                <<"provision">>, <<"folder">>, <<"folder", "forbid">>}
        OBVIOUS
    <2>1. family = "flycast" /\ l.net = FALSE
        BY <1>1, <1>11, <2>0 DEF PlansOf, Families
    <2>2. e = [c EXCEPT !.net = FALSE]
        BY <1>11, PlansRun DEF Edited, Restricted
    <2>3. e \in ConfType /\ e.path = c.path /\ e.net = FALSE
        BY <2>2 DEF ConfType
    <2>4. Tail(l.todo) = <<>>
        BY <1>11, PlansRun
    <2> QED BY <1>4, <2>1, <2>3, <2>4 DEF Underway, Arranged, PlansOf, Plans
<1> QED BY <1>5, <1>6, <1>7, <1>8, <1>9, <1>10, <1>11 DEF Launches, Plans

\* Whatever is written, launches that are told expect nothing of the file.
LEMMA KeepsTold ==
    ASSUME BackendsInv, NEW by, NEW n, launched' \in [Players -> Launches],
           \A q \in Players \ {by} : launched'[q] = Interfere(by)[q],
           by \in Players =>
                /\ launched'[by] = n /\ n \in Launches /\ InOrder(n) /\ Started(n)' /\ Watched(n)
                /\ launched[by].left \cup helper[by].litter \subseteq n.left \cup helper'[by].litter,
           helper' \in [Players -> Helpers], \A q \in Players : Helping(helper'[q]),
           \A q \in Players \ {by} : helper[q].litter \subseteq helper'[q].litter,
           conf' \in ConfType, installed' \in BOOLEAN, tangled' \in BOOLEAN,
           path' \in Chosen \cup {Absent}, ChosenPathKept',
           request' \in RouteCalls, request' # NoRequest => request'.draft \in ConfType,
           UNCHANGED <<fixedVars, titleVars, litterVars>>
    PROVE  BackendsInv'
<1>1. /\ launched \in [Players -> Launches]
      /\ \A q \in Players : InOrder(launched[q]) /\ Started(launched[q]) /\ Watched(launched[q])
    BY DEF BackendsInv, BackendsTyped, Starts, Installs
<1>2. \A l : l.at \notin {"edit", "ready", "spawned"} /\ Started(l) => Started(l)'
    BY DEF Started, AsAsked, fixedVars
<1>3. /\ title' = title /\ hurried' = hurried /\ cutShort' = cutShort
      /\ litter' = litter /\ spilled' = spilled
    BY DEF titleVars, litterVars
<1>4. \A q \in Players \ {by} :
        /\ InOrder(launched'[q]) /\ Started(launched[q])' /\ Watched(launched'[q])
        /\ launched'[q].left = launched[q].left
    <2> SUFFICES ASSUME NEW q \in Players \ {by}
                 PROVE  /\ InOrder(launched'[q]) /\ Started(launched[q])' /\ Watched(launched'[q])
                        /\ launched'[q].left = launched[q].left
        OBVIOUS
    <2>1. CASE launched[q].at \in {"edit", "ready", "spawned"}
        <3>1. launched'[q] = [launched[q] EXCEPT !.alone = FALSE]
            BY <1>1, <2>1, InterfereIs
        <3>2. /\ InOrder(launched'[q]) /\ ~launched'[q].alone /\ launched'[q].at = launched[q].at
              /\ launched'[q].left = launched[q].left
            BY <1>1, <2>1, <3>1, ToldIs
        <3> QED BY <2>1, <3>2 DEF Started, Watched
    <2>2. CASE launched[q].at \notin {"edit", "ready", "spawned"}
        <3>1. launched'[q] = launched[q]
            BY <1>1, <2>2, InterfereIs
        <3>2. Started(launched[q])'
            BY <1>1, <1>2, <2>2, <3>1
        <3> QED BY <1>1, <3>1, <3>2
    <2> QED BY <2>1, <2>2
<1>5. \A q \in Players : InOrder(launched'[q]) /\ Started(launched[q])' /\ Watched(launched'[q])
    BY <1>4
<1>6. \A q \in Players : InOrder(launched[q])' /\ Helping(helper[q])'
    BY <1>5, FamilyStays
<1>7. BackendsTyped'
    <2>1. \A q \in Players : launched'[q].at \in {"idle", "edit", "ready", "spawned", "running",
                                                   "installing", "playing"}
        BY DEF Launches
    <2>2. \A q \in Players : helper'[q].at \in {"idle", "waiting", "writing"}
        BY DEF Helpers
    <2>3. request'.path \in Chosen \cup {Absent}
        BY DEF RouteCalls
    <2>4. BackendsTypeOK'
        BY <1>3, <2>1, <2>2, <2>3 DEF BackendsInv, BackendsTyped, BackendsTypeOK, ConfType, fixedVars
    <2> QED BY <1>6, <2>4 DEF BackendsTyped, ConfType, RouteCalls, NoRequest
<1>8. Starts'
    BY <1>5 DEF Starts
<1>9. NothingLeftBehind'
    BY <1>3, <1>4 DEF BackendsInv, NothingLeftBehind
<1>10. Installs'
    <2>1. \A l : Watched(l)' <=> Watched(l)
        BY <1>3 DEF Watched
    <2> QED BY <1>3, <1>5, <2>1 DEF BackendsInv, Installs, InstallersRunOut
<1> QED BY <1>7, <1>8, <1>9, <1>10 DEF BackendsInv

\* What the requests and helpers are, when they stay.
LEMMA OthersSettled ==
    ASSUME BackendsInv
    PROVE  /\ UNCHANGED helper =>
                /\ helper' \in [Players -> Helpers] /\ \A q \in Players : Helping(helper'[q])
                /\ \A q \in Players : helper'[q] = helper[q]
           /\ UNCHANGED request => request' \in RouteCalls /\ (request' # NoRequest => request'.draft \in ConfType)
           /\ family \in Families /\ conf \in ConfType /\ installed \in BOOLEAN /\ tangled \in BOOLEAN
           /\ path \in Chosen \cup {Absent}
BY DEF BackendsInv, BackendsTyped, BackendsTypeOK

\* An edit is written: everybody else is told, and the path stays.
LEMMA KeepsWriteFile ==
    ASSUME BackendsInv, NEW p \in Players, WriteFile(p)
    PROVE  BackendsInv'
<1> DEFINE l == launched[p]
<1> PICK n : n = [l EXCEPT !.draft = Absent, !.todo = Tail(l.todo)]
    OBVIOUS
<1> PICK e : e = Edited(Head(l.todo), l, l.draft)
    OBVIOUS
<1>1. /\ launched \in [Players -> Launches] /\ l \in Launches /\ InOrder(l) /\ Started(l)
      /\ family \in Families /\ installed \in BOOLEAN /\ tangled \in BOOLEAN
      /\ path \in Chosen \cup {Absent}
    BY DEF BackendsInv, BackendsTyped, BackendsTypeOK, Starts
<1>2. /\ l.at = "edit" /\ l.draft # Absent
      /\ conf' = e /\ tangled' = (tangled \/ l.draft # conf)
      /\ launched' = [Interfere(p) EXCEPT ![p] = n]
      /\ UNCHANGED <<fixedVars, request, path, titleVars, litterVars, installed, helper>>
    BY DEF WriteFile, WriteConf
<1>3. l.draft \in ConfType /\ l.todo # <<>>
    BY <1>1, <1>2 DEF InOrder
<1>4. l.alone => l.draft = conf /\ Underway(l, l.todo, l.draft)
    BY <1>1, <1>2 DEF Started, OnItsWay
<1>5. /\ e \in ConfType /\ (l.draft.path # Absent => e.path = l.draft.path)
      /\ Tail(l.todo) \in PlansOf(l.net) \cap Plans
      /\ l.alone => Underway(l, Tail(l.todo), e)
    <2> PICK c : c = l.draft
        OBVIOUS
    <2>1. c \in ConfType /\ e = Edited(Head(l.todo), l, c) /\ (Underway(l, l.todo, c) \/ ~l.alone)
        BY <1>3, <1>4
    <2> QED BY <1>1, <1>2, <1>3, <2>1, EditsArrange
<1>6. /\ n.at = "edit" /\ n.disc = l.disc /\ n.net = l.net /\ n.wrap = l.wrap
      /\ n.left = l.left /\ n.alone = l.alone /\ n.draft = Absent /\ n.todo = Tail(l.todo)
    BY <1>1, <1>2 DEF Launches
<1>7. n \in Launches
    BY <1>1, <1>5 DEF Launches
<1> HIDE DEF l
<1>8. InOrder(n)
    BY <1>1, <1>2, <1>5, <1>6 DEF InOrder
<1>9. Started(n)'
    <2>1. \A d \in {l.disc} : InDrive(conf, d)' = InDrive(e, d)
        BY <1>2 DEF InDrive
    <2>2. l.alone => Underway(n, n.todo, conf)'
        BY <1>2, <1>5, <1>6, <2>1 DEF Underway, Arranged, InDrive, fixedVars
    <2> QED BY <1>6, <2>2 DEF Started, OnItsWay
<1>10. Watched(n)
    BY <1>6 DEF Watched
<1>11. /\ launched' \in [Players -> Launches] /\ launched'[p] = n
       /\ \A q \in Players \ {p} : launched'[q] = Interfere(p)[q]
    BY <1>1, <1>2, <1>7, InterfereIs
<1>12. ChosenPathKept'
    BY <1>2, <1>5 DEF BackendsInv, ChosenPathKept
<1>13. conf' \in ConfType /\ installed' \in BOOLEAN /\ tangled' \in BOOLEAN /\ path' \in Chosen \cup {Absent}
    BY <1>1, <1>2, <1>5
<1>14. /\ helper' \in [Players -> Helpers] /\ \A q \in Players : Helping(helper'[q])
       /\ \A q \in Players : helper'[q] = helper[q]
       /\ request' \in RouteCalls /\ (request' # NoRequest => request'.draft \in ConfType)
       /\ UNCHANGED <<fixedVars, titleVars, litterVars>>
    BY <1>2, OthersSettled
<1>15. launched[p].left \cup helper[p].litter \subseteq n.left \cup helper'[p].litter
    BY <1>6, <1>14 DEF l
<1> QED BY <1>7, <1>8, <1>9, <1>10, <1>11, <1>12, <1>13, <1>14, <1>15, KeepsTold

\* A system is installed: launches that have prepared the file for none are told.
LEMMA KeepsInstallSystem ==
    ASSUME BackendsInv, NEW p \in Players, InstallSystem(p)
    PROVE  BackendsInv'
<1> PICK n : n = launched[p]
    OBVIOUS
<1>1. /\ launched \in [Players -> Launches] /\ n \in Launches /\ InOrder(n) /\ Started(n) /\ Watched(n)
    BY DEF BackendsInv, BackendsTyped, Starts, Installs
<1>2. /\ launched[p].at = "running" /\ installed' = TRUE /\ launched' = Interfere(p)
      /\ UNCHANGED <<fixedVars, confVars, titleVars, litterVars, helper>>
    BY DEF InstallSystem
<1>3. Started(n)'
    BY <1>1, <1>2 DEF Started, AsAsked, fixedVars
<1>4. launched' \in [Players -> Launches] /\ launched'[p] = n
    BY <1>1, <1>2, InterfereIs
<1>5. ChosenPathKept'
    BY <1>2 DEF BackendsInv, ChosenPathKept, confVars
<1>6. UNCHANGED <<conf, request, path, tangled>>
    BY <1>2 DEF confVars
<1>7. conf' \in ConfType /\ installed' \in BOOLEAN /\ tangled' \in BOOLEAN /\ path' \in Chosen \cup {Absent}
    BY <1>2, <1>6, OthersSettled
<1>8. /\ helper' \in [Players -> Helpers] /\ \A q \in Players : Helping(helper'[q])
      /\ \A q \in Players : helper'[q] = helper[q]
      /\ request' \in RouteCalls /\ (request' # NoRequest => request'.draft \in ConfType)
      /\ UNCHANGED <<fixedVars, titleVars, litterVars>>
    BY <1>2, <1>6, OthersSettled
<1>9. launched[p].left \cup helper[p].litter \subseteq n.left \cup helper'[p].litter
    BY <1>8
<1> QED BY <1>1, <1>2, <1>3, <1>4, <1>5, <1>7, <1>8, <1>9, KeepsTold

\* The helper of a launch takes over what it left.
LEMMA HelpsIs ==
    ASSUME NEW l \in Launches, InOrder(l)
    PROVE  Helps(l) \in Helpers /\ Helping(Helps(l)) /\ Helps(l).litter = l.left
<1>1. CASE l.left # {} \/ (family = "xemu" /\ l.disc # Absent)
    <2>1. Helps(l) = [at |-> "waiting", draft |-> Absent, litter |-> l.left]
        BY <1>1 DEF Helps
    <2> QED BY <2>1 DEF Helpers, Helping, Launches, InOrder
<1>2. CASE ~(l.left # {} \/ (family = "xemu" /\ l.disc # Absent))
    BY <1>2, NothingIs DEF Helps
<1> QED BY <1>1, <1>2

\* The helper takes over what the launch left, whether the emulator saves or not.
LEMMA KeepsQuit ==
    ASSUME BackendsInv, NEW p \in Players, NEW saves \in BOOLEAN, Quit(p, saves)
    PROVE  BackendsInv'
<1> PICK l : l = launched[p]
    OBVIOUS
<1> PICK h : h = Helps(l)
    OBVIOUS
<1>1. /\ launched \in [Players -> Launches] /\ l \in Launches /\ InOrder(l)
      /\ conf \in ConfType /\ helper \in [Players -> Helpers] /\ \A q \in Players : Helping(helper[q])
    BY DEF BackendsInv, BackendsTyped, BackendsTypeOK
<1>2. h \in Helpers /\ Helping(h) /\ h.litter = l.left
    BY <1>1, HelpsIs
<1>3. /\ helper[p] = NoHelper /\ helper' = [helper EXCEPT ![p] = h]
      /\ UNCHANGED <<fixedVars, request, path, tangled, titleVars, litterVars, installed>>
    BY DEF Quit
<1>4. launched[p].left \cup helper[p].litter \subseteq NoLaunch_.left \cup h.litter
    BY <1>2, <1>3, NothingIs
<1>5. CASE ~saves
    <2>1. launched' = [launched EXCEPT ![p] = NoLaunch_] /\ conf' = conf
        BY <1>5 DEF Quit
    <2>2. UNCHANGED <<fixedVars, confVars, titleVars, litterVars, installed>>
        BY <1>3, <2>1 DEF confVars
    <2>3. Started(NoLaunch_)'
        BY <2>2, NothingIs, FileStays DEF confVars
    <2> QED BY <1>2, <1>3, <1>4, <2>1, <2>2, <2>3, NothingIs, KeepsQuietLaunch
<1>6. CASE saves
    <2>1. /\ l.at = "running" /\ launched' = [Interfere(p) EXCEPT ![p] = NoLaunch_]
          /\ conf' = [conf EXCEPT !.disc = l.saw.disc, !.net = l.saw.net]
        BY <1>6 DEF Quit
    <2>2. l.saw.disc \in Discs \cup {Absent} /\ l.saw.net \in BOOLEAN
        BY <1>1, <2>1 DEF InOrder, Sights
    <2>3. conf' \in ConfType /\ conf'.path = conf.path
        BY <1>1, <2>1, <2>2 DEF ConfType
    <2>4. ChosenPathKept'
        BY <1>3, <2>3 DEF BackendsInv, ChosenPathKept
    <2>5. /\ launched' \in [Players -> Launches] /\ launched'[p] = NoLaunch_
          /\ \A q \in Players \ {p} : launched'[q] = Interfere(p)[q]
        BY <1>1, <2>1, NothingIs, InterfereIs
    <2>6. /\ helper' \in [Players -> Helpers] /\ helper'[p] = h
          /\ \A q \in Players \ {p} : helper'[q] = helper[q]
        BY <1>1, <1>2, <1>3
    <2>7. \A q \in Players : Helping(helper'[q])
        BY <1>1, <1>2, <2>6
    <2>8. Started(NoLaunch_)'
        BY DEF Started, NoLaunch_
    <2>9. /\ installed' \in BOOLEAN /\ tangled' \in BOOLEAN /\ path' \in Chosen \cup {Absent}
          /\ request' \in RouteCalls /\ (request' # NoRequest => request'.draft \in ConfType)
          /\ UNCHANGED <<fixedVars, titleVars, litterVars>>
        BY <1>3, OthersSettled
    <2>10. launched[p].left \cup helper[p].litter \subseteq NoLaunch_.left \cup helper'[p].litter
        BY <1>4, <2>6
    <2> QED BY <2>3, <2>4, <2>5, <2>6, <2>7, <2>8, <2>9, <2>10, NothingIs, KeepsTold
<1> QED BY <1>5, <1>6
-------------------------------------------------------------------------------
(* The helpers, and the request that sets a path.                                *)

\* A launch that stays is one that it changes to.
LEMMA SameLaunch ==
    ASSUME BackendsInv, NEW p \in Players, UNCHANGED launched
    PROVE  /\ launched[p] \in Launches /\ InOrder(launched[p]) /\ Started(launched[p]) /\ Watched(launched[p])
           /\ launched' = [launched EXCEPT ![p] = launched[p]]
BY DEF BackendsInv, BackendsTyped, Starts, Installs

\* A helper removes what it took over.
LEMMA KeepsCleanUp ==
    ASSUME BackendsInv, NEW p \in Players, CleanUp(p)
    PROVE  BackendsInv'
<1> PICK n : n = launched[p]
    OBVIOUS
<1>1. /\ litter' = litter \ helper[p].litter /\ spilled' = spilled \ helper[p].litter
      /\ helper' = [helper EXCEPT ![p] = NoHelper]
      /\ UNCHANGED <<fixedVars, confVars, installed>> /\ UNCHANGED titleVars /\ UNCHANGED launched
    BY DEF CleanUp
<1>2. /\ n \in Launches /\ InOrder(n) /\ Started(n) /\ Watched(n)
      /\ launched' = [launched EXCEPT ![p] = n]
    BY <1>1, SameLaunch
<1>3. Started(n)'
    BY <1>1, <1>2, FileStays DEF confVars
<1>4. title' = title /\ hurried' = hurried /\ cutShort' = cutShort
    BY <1>1 DEF titleVars
<1>5. /\ title \in [parts : 0..Whole, flag : BOOLEAN] /\ {hurried, cutShort} \subseteq BOOLEAN
      /\ litter \subseteq Discs \cup Dirs /\ spilled \subseteq litter
    BY DEF BackendsInv, BackendsTyped, BackendsTypeOK
<1>6. Watched(n)'
    BY <1>2, <1>4 DEF Watched
<1>7. InstallersRunOut'
    BY <1>4 DEF BackendsInv, Installs, InstallersRunOut
<1>8. /\ litter' \subseteq Discs \cup Dirs /\ spilled' \subseteq litter'
      /\ litter' \subseteq spilled' \cup n.left \cup NoHelper.litter
            \cup UNION {launched[q].left \cup helper[q].litter : q \in Players \ {p}}
    BY <1>1, <1>5 DEF BackendsInv, NothingLeftBehind
<1>9. UNCHANGED <<fixedVars, confVars, installed>> /\ helper' = [helper EXCEPT ![p] = NoHelper]
    BY <1>1
<1> QED BY <1>2, <1>3, <1>4, <1>5, <1>6, <1>7, <1>8, <1>9, NothingIs, KeepsOneLaunch

\* A helper reads the file of xemu; it has no litter.
LEMMA KeepsClearRead ==
    ASSUME BackendsInv, NEW p \in Players, ClearRead(p)
    PROVE  BackendsInv'
<1> PICK n : n = launched[p]
    OBVIOUS
<1> PICK h : h = [helper[p] EXCEPT !.at = "writing", !.draft = conf]
    OBVIOUS
<1>1. /\ helper[p] \in Helpers /\ Helping(helper[p]) /\ conf \in ConfType
    BY DEF BackendsInv, BackendsTyped, BackendsTypeOK
<1>2. /\ family = "xemu" /\ helper' = [helper EXCEPT ![p] = h]
      /\ UNCHANGED <<fixedVars, confVars, titleVars, litterVars, installed>> /\ UNCHANGED launched
    BY <1>1 DEF ClearRead
<1>3. h.at = "writing" /\ h.draft = conf /\ h.litter = helper[p].litter
    BY <1>1 DEF Helpers
<1>4. h \in Helpers
    BY <1>1 DEF Helpers
<1>5. Helping(h)
    BY <1>1, <1>2, <1>3 DEF Helping
<1>6. /\ n \in Launches /\ InOrder(n) /\ Started(n) /\ Watched(n)
      /\ launched' = [launched EXCEPT ![p] = n]
    BY <1>2, SameLaunch
<1>7. Started(n)'
    BY <1>2, <1>6, FileStays DEF confVars
<1> QED BY <1>2, <1>3, <1>4, <1>5, <1>6, <1>7, KeepsQuietLaunch

\* A helper clears the disc: every launch is told, and the path stays.
LEMMA KeepsClearWrite ==
    ASSUME BackendsInv, NEW p \in Players, ClearWrite(p)
    PROVE  BackendsInv'
<1> PICK c : c = helper[p].draft
    OBVIOUS
<1> PICK e : e = [c EXCEPT !.disc = Absent]
    OBVIOUS
<1>1. /\ launched \in [Players -> Launches] /\ helper \in [Players -> Helpers]
      /\ \A q \in Players : Helping(helper[q])
      /\ Absent \notin Players
    BY BackendsAssumption DEF BackendsInv, BackendsTyped
<1>2. /\ helper[p].at = "writing" /\ conf' = e /\ tangled' = (tangled \/ c # conf)
      /\ launched' = Interfere(Absent) /\ helper' = [helper EXCEPT ![p] = NoHelper]
      /\ UNCHANGED <<fixedVars, request, path, titleVars, litterVars, installed>>
    BY DEF ClearWrite, WriteConf
<1>3. c \in ConfType /\ helper[p].litter = {}
    BY <1>1, <1>2 DEF Helping
<1>4. e \in ConfType /\ e.path = c.path
    BY <1>3 DEF ConfType
<1>5. ChosenPathKept'
    BY <1>2, <1>4 DEF BackendsInv, ChosenPathKept
<1>6. launched' \in [Players -> Launches] /\ \A q \in Players \ {Absent} : launched'[q] = Interfere(Absent)[q]
    BY <1>1, <1>2, InterfereIs
<1>7. /\ helper' \in [Players -> Helpers] /\ helper'[p] = NoHelper
      /\ \A q \in Players \ {p} : helper'[q] = helper[q]
    BY <1>1, <1>2, NothingIs
<1>8. /\ \A q \in Players : Helping(helper'[q])
      /\ \A q \in Players \ {Absent} : helper[q].litter \subseteq helper'[q].litter
    BY <1>1, <1>3, <1>7, NothingIs
<1>9. /\ conf' \in ConfType /\ installed' \in BOOLEAN /\ path' \in Chosen \cup {Absent}
      /\ request' \in RouteCalls /\ (request' # NoRequest => request'.draft \in ConfType)
      /\ UNCHANGED <<fixedVars, titleVars, litterVars>>
    BY <1>2, <1>4, OthersSettled
<1>10. tangled' \in BOOLEAN
    BY <1>2, OthersSettled
<1> QED BY <1>1, <1>5, <1>6, <1>7, <1>8, <1>9, <1>10, KeepsTold

\* The path is set: every launch is told.
LEMMA KeepsPatchWrite ==
    ASSUME BackendsInv, PatchWrite
    PROVE  BackendsInv'
<1> PICK c : c = request.draft
    OBVIOUS
<1> PICK e : e = [c EXCEPT !.path = request.path]
    OBVIOUS
<1>1. /\ launched \in [Players -> Launches] /\ Absent \notin Players
      /\ request.path \in Chosen \cup {Absent}
    BY BackendsAssumption DEF BackendsInv, BackendsTyped, BackendsTypeOK
<1>2. /\ request # NoRequest /\ conf' = e /\ tangled' = (tangled \/ c # conf)
      /\ launched' = Interfere(Absent) /\ path' = request.path /\ request' = NoRequest
      /\ UNCHANGED <<fixedVars, titleVars, litterVars, installed, helper>>
    BY DEF PatchWrite, WriteConf
<1>3. c \in ConfType
    BY <1>2 DEF BackendsInv, BackendsTyped
<1>4. e \in ConfType /\ e.path = request.path
    BY <1>1, <1>3 DEF ConfType
<1>5. ChosenPathKept'
    BY <1>2, <1>4 DEF ChosenPathKept
<1>6. launched' \in [Players -> Launches] /\ \A q \in Players \ {Absent} : launched'[q] = Interfere(Absent)[q]
    BY <1>1, <1>2, InterfereIs
<1>7. /\ helper' \in [Players -> Helpers] /\ \A q \in Players : Helping(helper'[q])
      /\ \A q \in Players \ {Absent} : helper[q].litter \subseteq helper'[q].litter
    BY <1>2, OthersSettled
<1>8. /\ conf' \in ConfType /\ installed' \in BOOLEAN /\ path' \in Chosen \cup {Absent}
      /\ request' \in RouteCalls /\ (request' # NoRequest => request'.draft \in ConfType)
      /\ UNCHANGED <<fixedVars, titleVars, litterVars>>
    BY <1>1, <1>2, <1>4, NothingIs, OthersSettled
<1>9. tangled' \in BOOLEAN
    BY <1>2, OthersSettled
<1> QED BY <1>1, <1>5, <1>6, <1>7, <1>8, <1>9, KeepsTold

\* A request reads the file and changes nothing.
LEMMA KeepsPatchRead ==
    ASSUME BackendsInv, NEW a \in Chosen, PatchRead(a)
    PROVE  BackendsInv'
<1> USE DEF BackendsInv
<1>1. /\ UNCHANGED <<fixedVars, conf, installed>> /\ UNCHANGED <<path, tangled, launched, helper>>
      /\ UNCHANGED <<titleVars, litterVars>> /\ request' = [path |-> a, draft |-> conf]
    BY DEF PatchRead
<1>2. /\ title' = title /\ hurried' = hurried /\ cutShort' = cutShort
      /\ litter' = litter /\ spilled' = spilled
    BY <1>1 DEF titleVars, litterVars
<1>3. conf \in ConfType
    BY DEF BackendsTyped, BackendsTypeOK
<1>4. request' \in RouteCalls /\ request'.draft \in ConfType /\ request'.path \in Chosen \cup {Absent}
    BY <1>1, <1>3 DEF RouteCalls
<1>5. BackendsTypeOK'
    BY <1>1, <1>2, <1>4 DEF BackendsTyped, BackendsTypeOK, ConfType, fixedVars
<1>6. BackendsTyped'
    BY <1>1, <1>4, <1>5, FamilyStays DEF BackendsTyped, ConfType, RouteCalls
<1>7. Starts'
    BY <1>1, FileStays DEF Starts
<1>8. ChosenPathKept' /\ NothingLeftBehind' /\ Installs'
    BY <1>1, <1>2 DEF ChosenPathKept, NothingLeftBehind, Installs, InstallersRunOut, Watched
<1> QED BY <1>6, <1>7, <1>8
-------------------------------------------------------------------------------
(* The packages.                                                                 *)

\* A package as BackendsTyped knows it.
LEMMA PackageIs ==
    ASSUME BackendsInv
    PROVE  /\ title \in [parts : 0..Whole, flag : BOOLEAN] /\ title.parts \in Nat /\ title.parts <= Whole
           /\ hurried \in BOOLEAN /\ cutShort \in BOOLEAN
           /\ litter \subseteq Discs \cup Dirs /\ spilled \subseteq litter
           /\ Recorded(title) \in [parts : 0..Whole, flag : BOOLEAN]
           /\ Recorded(title).parts = title.parts /\ Recorded(title).flag
           /\ Whole \in Nat /\ Bootable \in Nat /\ Bootable > 0 /\ Bootable <= Whole
           /\ StableChecks \in Nat /\ StableChecks > 0
<1>1. /\ title \in [parts : 0..Whole, flag : BOOLEAN] /\ hurried \in BOOLEAN /\ cutShort \in BOOLEAN
      /\ litter \subseteq Discs \cup Dirs /\ spilled \subseteq litter
    BY DEF BackendsInv, BackendsTyped, BackendsTypeOK
<1>2. /\ Whole \in Nat /\ Bootable \in Nat /\ Bootable > 0 /\ Bootable <= Whole
      /\ StableChecks \in Nat /\ StableChecks > 0
    BY BackendsAssumption
<1>3. title.parts \in Nat /\ title.parts <= Whole
    BY <1>1, <1>2
<1>4. Recorded(title) = [title EXCEPT !.flag = TRUE]
    BY DEF Recorded
<1>5. /\ Recorded(title) \in [parts : 0..Whole, flag : BOOLEAN]
      /\ Recorded(title).parts = title.parts
    BY <1>1, <1>4
<1>6. Recorded(title).flag
    BY <1>1, <1>4
<1> QED BY <1>1, <1>2, <1>3, <1>5, <1>6

\* A launch of a package changes, and the file and the litter stay.
LEMMA KeepsPackage ==
    ASSUME BackendsInv, NEW p \in Players, NEW n \in Launches, InOrder(n), Started(n), Watched(n)',
           launched' = [launched EXCEPT ![p] = n], launched[p].left = {},
           title' \in {title, Recorded(title)}, InstallersRunOut',
           hurried' \in BOOLEAN, cutShort' \in BOOLEAN,
           UNCHANGED <<fixedVars, confVars, litterVars, installed, helper>>
    PROVE  BackendsInv'
<1>1. title' \in [parts : 0..Whole, flag : BOOLEAN] /\ title'.parts = title.parts
    BY PackageIs
<1>2. litter' = litter /\ spilled' = spilled
    BY DEF litterVars
<1>3. /\ litter' \subseteq Discs \cup Dirs /\ spilled' \subseteq litter'
      /\ litter' \subseteq spilled' \cup n.left \cup helper[p].litter
            \cup UNION {launched[q].left \cup helper[q].litter : q \in Players \ {p}}
    BY <1>2, PackageIs DEF BackendsInv, NothingLeftBehind
<1>4. UNCHANGED <<fixedVars, conf, installed>> /\ UNCHANGED <<fixedVars, confVars, installed>>
    BY DEF confVars
<1>5. Started(n)'
    BY <1>4, FileStays
<1>6. helper[p] \in Helpers /\ Helping(helper[p]) /\ helper' = [helper EXCEPT ![p] = helper[p]]
    BY SameHelper DEF BackendsInv
<1> QED BY <1>1, <1>3, <1>4, <1>5, <1>6, KeepsOneLaunch

\* A package that can boot counts as installed: complete, or hurried.
LEMMA KeepsBeginPackage ==
    ASSUME BackendsInv, NEW p \in Players, BeginPackage(p)
    PROVE  BackendsInv'
<1>1. /\ launched[p].at = "idle"
      /\ UNCHANGED <<fixedVars, confVars, litterVars, installed, helper>> /\ cutShort' = cutShort
    BY DEF BeginPackage
<1>2. launched[p].left = {}
    BY <1>1 DEF BackendsInv, BackendsTyped, InOrder
<1>3. CASE title.parts >= Bootable
    <2> PICK n : n = [NoLaunch_ EXCEPT !.at = "playing"]
        OBVIOUS
    <2>1. /\ title' = Recorded(title) /\ hurried' = (hurried \/ title.parts < Whole)
          /\ launched' = [launched EXCEPT ![p] = n]
        BY <1>3 DEF BeginPackage
    <2>2. /\ n \in Launches /\ n.at = "playing" /\ n.left = {} /\ ~n.wrap
        BY NothingIs DEF Launches, NoLaunch_
    <2>3. InOrder(n) /\ Started(n) /\ Watched(n)'
        BY <2>2 DEF InOrder, Started, Watched
    <2>4. ~hurried' => title'.parts = Whole
        BY <2>1, PackageIs
    <2>5. InstallersRunOut'
        BY <1>1, <2>4 DEF BackendsInv, Installs, InstallersRunOut
    <2>6. hurried' \in BOOLEAN /\ cutShort' \in BOOLEAN
        BY <1>1, <2>1, PackageIs
    <2> QED BY <1>1, <1>2, <2>1, <2>2, <2>3, <2>5, <2>6, KeepsPackage
<1>4. CASE ~(title.parts >= Bootable)
    <2> PICK n : n = [NoLaunch_ EXCEPT !.at = "installing", !.draft = NoPoll]
        OBVIOUS
    <2>1. /\ title' = title /\ hurried' = hurried
          /\ launched' = [launched EXCEPT ![p] = n]
        BY <1>4 DEF BeginPackage
    <2>2. NoPoll \in Polls /\ NoPoll.last = 0
        BY DEF NoPoll, Polls
    <2>3. /\ n \in Launches /\ n.at = "installing" /\ n.left = {} /\ ~n.wrap /\ n.draft = NoPoll
        BY <2>2, NothingIs DEF Launches, NoLaunch_
    <2>4. InOrder(n) /\ Started(n)
        BY <2>2, <2>3 DEF InOrder, Started
    <2>5. Watched(n)'
        BY <2>1, <2>2, <2>3, PackageIs DEF Watched
    <2>6. InstallersRunOut'
        BY <1>1, <2>1 DEF BackendsInv, Installs, InstallersRunOut
    <2>7. hurried' \in BOOLEAN /\ cutShort' \in BOOLEAN
        BY <1>1, <2>1, PackageIs
    <2> QED BY <1>1, <1>2, <2>1, <2>3, <2>4, <2>5, <2>6, <2>7, KeepsPackage
<1> QED BY <1>3, <1>4

\* A poll ends an installer only when it has been still for longer than it ever is.
LEMMA KeepsPoll ==
    ASSUME BackendsInv, NEW p \in Players, Poll(p)
    PROVE  BackendsInv'
<1> PICK w : w = launched[p].draft
    OBVIOUS
<1> PICK k : k = Unchanged(w, title.parts)
    OBVIOUS
<1> PICK busy : busy = (title.parts \in 1..(Whole - 1))
    OBVIOUS
<1>1. /\ launched[p] \in Launches /\ InOrder(launched[p]) /\ Watched(launched[p])
    BY DEF BackendsInv, BackendsTyped, Installs
<1>2. /\ launched[p].at = "installing" /\ (busy => w.quiet < StableChecks)
      /\ UNCHANGED <<fixedVars, confVars, litterVars, installed, helper>> /\ hurried' = hurried
    BY DEF Poll, Installing
<1>3. /\ launched[p].left = {} /\ w \in Polls
      /\ w.last = title.parts /\ busy => w.same + 1 <= w.quiet
    BY <1>1, <1>2 DEF InOrder, Watched
<1>4. k = (IF w.last = title.parts /\ title.parts # 0 THEN w.same + 1 ELSE 0) /\ k \in Nat
    BY <1>3 DEF Unchanged, Polls
<1>5. busy /\ k # 0 => k <= w.quiet
    BY <1>3, <1>4
<1>6. CASE k >= StableChecks /\ title.parts >= Bootable
    <2>1. /\ launched' = [launched EXCEPT ![p] = NoLaunch_] /\ title' = Recorded(title)
          /\ cutShort' = (cutShort \/ title.parts < Whole)
        BY <1>6 DEF Poll
    <2>2. w.quiet \in Nat
        BY <1>3 DEF Polls
    <2>3. ~busy
        BY <1>2, <1>4, <1>5, <1>6, <2>2, PackageIs
    <2>4. title.parts = Whole
        BY <1>6, <2>3, PackageIs
    <2>5. InstallersRunOut'
        BY <1>2, <2>1, <2>4, PackageIs DEF BackendsInv, Installs, InstallersRunOut
    <2>6. Started(NoLaunch_) /\ Watched(NoLaunch_)'
        BY DEF Started, Watched, NoLaunch_
    <2>7. hurried' \in BOOLEAN /\ cutShort' \in BOOLEAN
        BY <1>2, <2>1, PackageIs
    <2> QED BY <1>2, <1>3, <2>1, <2>5, <2>6, <2>7, NothingIs, KeepsPackage
<1>7. CASE ~(k >= StableChecks /\ title.parts >= Bootable)
    <2> PICK x : x = [last |-> title.parts, same |-> IF k > StableChecks THEN StableChecks ELSE k,
                      quiet |-> IF busy THEN w.quiet + 1 ELSE 0]
        OBVIOUS
    <2> PICK n : n = [launched[p] EXCEPT !.draft = x]
        OBVIOUS
    <2>1. /\ launched' = [launched EXCEPT ![p] = n] /\ title' = title /\ cutShort' = cutShort
        BY <1>1, <1>7 DEF Poll
    <2>2. /\ x.last = title.parts /\ x.same = (IF k > StableChecks THEN StableChecks ELSE k)
          /\ x.quiet = (IF busy THEN w.quiet + 1 ELSE 0)
        OBVIOUS
    <2>3. x \in Polls /\ x.same <= k
        BY <1>3, <1>4, <2>2, PackageIs DEF Polls
    <2>4. n \in Launches
        BY <1>1, <2>3 DEF Launches
    <2>5. /\ n.at = "installing" /\ n.left = {} /\ n.wrap = launched[p].wrap /\ n.draft = x
        BY <1>1, <1>2, <1>3 DEF Launches
    <2>6. InOrder(n) /\ Started(n)
        BY <1>1, <2>3, <2>5 DEF InOrder, Started
    <2>7. busy => x.same + 1 <= x.quiet
        BY <1>3, <1>4, <1>5, <2>2, <2>3 DEF Polls
    <2>8. Watched(n)'
        BY <2>1, <2>2, <2>5, <2>7, PackageIs DEF Watched
    <2>9. InstallersRunOut'
        BY <1>2, <2>1 DEF BackendsInv, Installs, InstallersRunOut
    <2>10. hurried' \in BOOLEAN /\ cutShort' \in BOOLEAN
        BY <1>2, <2>1, PackageIs
    <2> QED BY <1>2, <1>3, <2>1, <2>4, <2>6, <2>8, <2>9, <2>10, KeepsPackage
<1> QED BY <1>6, <1>7

\* An installer that writes starts every poll's count anew.
LEMMA KeepsUnpack ==
    ASSUME BackendsInv, NEW p \in Players, Unpack(p)
    PROVE  BackendsInv'
<1> USE DEF BackendsInv
<1>1. /\ title.parts < Whole /\ title' = [title EXCEPT !.parts = title.parts + 1]
      /\ launched' = [q \in Players |->
            IF Installing(q) THEN [launched[q] EXCEPT !.draft.quiet = 0] ELSE launched[q]]
      /\ hurried' = hurried /\ cutShort' = cutShort
      /\ UNCHANGED <<fixedVars, confVars, litterVars, installed, helper>>
    BY DEF Unpack
<1>2. /\ title' \in [parts : 0..Whole, flag : BOOLEAN] /\ title'.parts = title.parts + 1
      /\ title.parts \in Nat
    BY <1>1, PackageIs
<1>3. title'.flag = title.flag
    BY <1>1, PackageIs
<1>4. \A q \in Players :
        /\ launched[q] \in Launches /\ InOrder(launched[q]) /\ Started(launched[q]) /\ Watched(launched[q])
    BY DEF BackendsTyped, Starts, Installs
<1>5. \A q \in Players : ~Installing(q) => launched'[q] = launched[q]
    BY <1>1
<1>6. \A q \in Players : Installing(q) =>
        /\ launched'[q] \in Launches /\ launched'[q].at = "installing" /\ launched'[q].left = launched[q].left
        /\ launched'[q].wrap = launched[q].wrap /\ launched'[q].draft \in Polls
        /\ launched'[q].draft.last = launched[q].draft.last
    <2> SUFFICES ASSUME NEW q \in Players, Installing(q)
                 PROVE  /\ launched'[q] \in Launches /\ launched'[q].at = "installing"
                        /\ launched'[q].left = launched[q].left /\ launched'[q].wrap = launched[q].wrap
                        /\ launched'[q].draft \in Polls
                        /\ launched'[q].draft.last = launched[q].draft.last
        OBVIOUS
    <2> PICK w : w = launched[q].draft
        OBVIOUS
    <2> PICK x : x = [w EXCEPT !.quiet = 0]
        OBVIOUS
    <2>1. launched[q].at = "installing" /\ w \in Polls
        BY <1>4 DEF Installing, InOrder
    <2>2. x \in Polls /\ x.last = w.last
        BY <2>1 DEF Polls
    <2>3. launched'[q] = [launched[q] EXCEPT !.draft = x]
        BY <1>1, <1>4 DEF Launches
    <2> QED BY <1>4, <2>1, <2>2, <2>3 DEF Launches
<1>7. \A q \in Players : launched'[q] \in Launches /\ InOrder(launched'[q]) /\ launched'[q].left = launched[q].left
    BY <1>4, <1>5, <1>6 DEF InOrder, Installing
<1>8. launched' \in [Players -> Launches]
    BY <1>1, <1>7
<1>9. \A q \in Players : Started(launched'[q])
    BY <1>4, <1>5, <1>6 DEF Started
<1>10. \A q \in Players : Watched(launched[q])'
    <2> SUFFICES ASSUME NEW q \in Players PROVE Watched(launched[q])'
        OBVIOUS
    <2>1. CASE Installing(q)
        <3>1. launched[q].draft \in Polls /\ launched[q].draft.last <= title.parts
            BY <1>4, <2>1 DEF Installing, InOrder, Watched
        <3>2. launched[q].draft.last \in Nat
            BY <3>1 DEF Polls
        <3>3. launched'[q].draft.last <= title'.parts /\ launched'[q].draft.last # title'.parts
            BY <1>2, <1>6, <2>1, <3>1, <3>2
        <3> QED BY <3>3 DEF Watched
    <2>2. CASE ~Installing(q)
        BY <1>5, <2>2 DEF Installing, Watched
    <2> QED BY <2>1, <2>2
<1>11. /\ UNCHANGED <<fixedVars, conf, installed>> /\ UNCHANGED <<request, path, tangled, helper>>
       /\ litter' = litter /\ spilled' = spilled
    BY <1>1 DEF confVars, litterVars
<1>12. BackendsTyped'
    <2>1. \A q \in Players : launched'[q].at \in {"idle", "edit", "ready", "spawned", "running",
                                                   "installing", "playing"}
        BY <1>7 DEF Launches
    <2>2. BackendsTypeOK'
        BY <1>1, <1>2, <1>11, <2>1 DEF BackendsTyped, BackendsTypeOK, ConfType, fixedVars
    <2>3. \A q \in Players : InOrder(launched[q])' /\ Helping(helper[q])'
        BY <1>7, <1>11, FamilyStays DEF BackendsTyped
    <2> QED BY <1>8, <1>11, <2>2, <2>3 DEF BackendsTyped, ConfType, RouteCalls, NoRequest
<1>13. Starts'
    BY <1>9, <1>11, FileStays DEF Starts
<1>14. ChosenPathKept' /\ NothingLeftBehind'
    BY <1>7, <1>11 DEF ChosenPathKept, NothingLeftBehind
<1>15. InstallersRunOut'
    BY <1>1, <1>2, <1>3, PackageIs DEF Installs, InstallersRunOut
<1> QED BY <1>10, <1>12, <1>13, <1>14, <1>15 DEF Installs

\* The server takes every launch along and spills what they left.
LEMMA KeepsServerDies ==
    ASSUME BackendsInv, ServerDies
    PROVE  BackendsInv'
<1> USE DEF BackendsInv
<1>1. /\ launched' = [q \in Players |-> NoLaunch_] /\ helper' = [q \in Players |-> NoHelper]
      /\ request' = NoRequest /\ spilled' = spilled \cup litter /\ litter' = litter
      /\ UNCHANGED <<fixedVars, conf, installed>> /\ UNCHANGED <<path, tangled>> /\ UNCHANGED titleVars
    BY DEF ServerDies
<1>2. title' = title /\ hurried' = hurried /\ cutShort' = cutShort
    BY <1>1 DEF titleVars
<1>3. /\ launched' \in [Players -> Launches] /\ helper' \in [Players -> Helpers]
      /\ \A q \in Players : launched'[q] = NoLaunch_ /\ helper'[q] = NoHelper
    BY <1>1, NothingIs
<1>4. NoLaunch_.at = "idle" /\ NoHelper.at = "idle" /\ NoRequest.path = Absent
    BY DEF NoLaunch_, NoHelper, NoRequest
<1>5. BackendsTypeOK'
    BY <1>1, <1>2, <1>3, <1>4 DEF BackendsTyped, BackendsTypeOK, ConfType, fixedVars
<1>6. \A q \in Players : InOrder(launched[q])' /\ Helping(helper[q])' /\ Started(launched[q])'
    BY <1>1, <1>3, FamilyStays, FileStays, NothingIs
<1>7. BackendsTyped'
    BY <1>1, <1>3, <1>5, <1>6, NothingIs DEF BackendsTyped, RouteCalls, NoRequest
<1>8. Starts'
    BY <1>6 DEF Starts
<1>9. ChosenPathKept' /\ NothingLeftBehind'
    BY <1>1 DEF ChosenPathKept, NothingLeftBehind
<1>10. Installs'
    BY <1>2, <1>3, <1>4 DEF Installs, InstallersRunOut, Watched
<1> QED BY <1>7, <1>8, <1>9, <1>10
-------------------------------------------------------------------------------
(* The theorems.                                                                 *)

\* Before anything is launched.
LEMMA InvHoldsAtStart ==
    ASSUME BackendsInit
    PROVE  BackendsInv
<1> USE DEF BackendsInit
<1>1. /\ launched \in [Players -> Launches] /\ helper \in [Players -> Helpers]
      /\ \A q \in Players : launched[q] = NoLaunch_ /\ helper[q] = NoHelper
    BY NothingIs
<1>2. NoLaunch_.at = "idle" /\ NoHelper.at = "idle" /\ NoRequest.path = Absent
    BY DEF NoLaunch_, NoHelper, NoRequest
<1>3. conf \in ConfType
    <2>1. Absent \in Discs \cup {Absent} /\ Absent \in Chosen \cup {Absent, "default"}
          /\ FALSE \in BOOLEAN /\ TRUE \in BOOLEAN
        OBVIOUS
    <2>2. NoConf \in ConfType
        BY <2>1, ConfIs DEF NoConf
    <2> QED BY <2>2
<1>4. title \in [parts : 0..Whole, flag : BOOLEAN] /\ title.parts = 0
    BY BackendsAssumption
<1>5. ~title.flag
    OBVIOUS
<1>6. BackendsTypeOK
    BY <1>1, <1>2, <1>3, <1>4 DEF BackendsTypeOK
<1>7. BackendsTyped
    BY <1>1, <1>6, NothingIs DEF BackendsTyped
<1>8. Starts /\ ChosenPathKept /\ NothingLeftBehind
    BY <1>1, NothingIs DEF Starts, ChosenPathKept, NothingLeftBehind
<1>9. Installs
    BY <1>1, <1>5, NothingIs DEF Installs, InstallersRunOut
<1> QED BY <1>7, <1>8, <1>9 DEF BackendsInv

\* Every step keeps it.
LEMMA BackendsKept ==
    ASSUME BackendsInv, [BackendsNext]_backendsVars
    PROVE  BackendsInv'
<1>1. ASSUME NEW p \in Players, NEW d \in Discs \cup {Absent}, NEW net \in BOOLEAN,
             NEW wrap \in BOOLEAN, Begin(p, d, net, wrap)
      PROVE  BackendsInv'
    BY <1>1, KeepsBegin
<1>2. ASSUME NEW p \in Players, ReadFile(p) \/ WriteFile(p) \/ Refuse(p)
      PROVE  BackendsInv'
    BY <1>2, KeepsReadFile, KeepsWriteFile, KeepsRefuse
<1>3. ASSUME NEW p \in Players, NEW left \in SUBSET (Discs \cup Dirs), PutBeside(p, left)
      PROVE  BackendsInv'
    BY <1>3, KeepsPutBeside
<1>4. ASSUME NEW p \in Players, NEW override, Spawn(p, override) \/ CageFails(p, override)
      PROVE  BackendsInv'
    BY <1>4, KeepsSpawn, KeepsCageFails
<1>5. ASSUME NEW p \in Players, SpawnFails(p) \/ Boot(p) \/ InstallSystem(p)
      PROVE  BackendsInv'
    BY <1>5, KeepsSpawnFails, KeepsBoot, KeepsInstallSystem
<1>6. ASSUME NEW p \in Players, NEW saves \in BOOLEAN, Quit(p, saves)
      PROVE  BackendsInv'
    BY <1>6, KeepsQuit
<1>7. ASSUME NEW p \in Players, CleanUp(p) \/ ClearRead(p) \/ ClearWrite(p)
      PROVE  BackendsInv'
    BY <1>7, KeepsCleanUp, KeepsClearRead, KeepsClearWrite
<1>8. ASSUME NEW p \in Players, BeginPackage(p) \/ Unpack(p) \/ Poll(p) \/ ClosePackage(p)
      PROVE  BackendsInv'
    BY <1>8, KeepsBeginPackage, KeepsUnpack, KeepsPoll, KeepsClosePackage
<1>9. ASSUME NEW a \in Chosen, PatchRead(a)
      PROVE  BackendsInv'
    BY <1>9, KeepsPatchRead
<1>10. CASE PatchWrite
    BY <1>10, KeepsPatchWrite
<1>11. CASE ServerDies
    BY <1>11, KeepsServerDies
<1>12. CASE UNCHANGED backendsVars
    <2>1. /\ family' = family /\ setting' = setting /\ conf' = conf /\ installed' = installed
          /\ launched' = launched /\ helper' = helper /\ request' = request /\ path' = path
          /\ tangled' = tangled /\ litter' = litter /\ spilled' = spilled /\ title' = title
          /\ hurried' = hurried /\ cutShort' = cutShort
        BY <1>12 DEF backendsVars, fixedVars, confVars, titleVars, litterVars
    <2>2. UNCHANGED <<fixedVars, conf, installed>>
        BY <2>1 DEF fixedVars
    <2>3. BackendsTyped'
        <3>1. BackendsTypeOK'
            <4>1. /\ family' \in Families /\ setting' \in {Absent, TRUE, FALSE}
                  /\ conf' \in ConfType' /\ installed' \in BOOLEAN
                BY <2>1 DEF BackendsInv, BackendsTyped, BackendsTypeOK, ConfType
            <4>2. \A p \in Players :
                    /\ launched'[p].at \in {"idle", "edit", "ready", "spawned", "running",
                                            "installing", "playing"}
                    /\ helper'[p].at \in {"idle", "waiting", "writing"}
                BY <2>1 DEF BackendsInv, BackendsTyped, BackendsTypeOK
            <4>3. request'.path \in Chosen \cup {Absent} /\ path' \in Chosen \cup {Absent}
                BY <2>1 DEF BackendsInv, BackendsTyped, BackendsTypeOK
            <4>4. litter' \subseteq Discs \cup Dirs /\ spilled' \subseteq litter'
                BY <2>1 DEF BackendsInv, BackendsTyped, BackendsTypeOK
            <4>5. /\ title' \in [parts : 0..Whole, flag : BOOLEAN]
                  /\ {tangled', hurried', cutShort'} \subseteq BOOLEAN
                BY <2>1 DEF BackendsInv, BackendsTyped, BackendsTypeOK
            <4> QED BY <4>1, <4>2, <4>3, <4>4, <4>5 DEF BackendsTypeOK
        <3>2. \A p \in Players : InOrder(launched[p])' /\ Helping(helper[p])'
            BY <2>1, <2>2, FamilyStays DEF BackendsInv, BackendsTyped
        <3> QED BY <2>1, <3>1, <3>2 DEF BackendsInv, BackendsTyped, ConfType, RouteCalls, NoRequest
    <2>4. Starts'
        BY <2>1, <2>2, FileStays DEF BackendsInv, Starts
    <2>5. ChosenPathKept' /\ NothingLeftBehind'
        BY <2>1 DEF BackendsInv, ChosenPathKept, NothingLeftBehind
    <2>6. Installs'
        BY <2>1 DEF BackendsInv, Installs, InstallersRunOut, Watched
    <2> QED BY <2>3, <2>4, <2>5, <2>6 DEF BackendsInv
<1> QED
    BY <1>1, <1>2, <1>3, <1>4, <1>5, <1>6, <1>7, <1>8, <1>9, <1>10, <1>11, <1>12 DEF BackendsNext

\* The invariant holds in every state of every behaviour.
LEMMA BackendsHold == BackendsSpec => []BackendsInv
<1>1. BackendsInit => BackendsInv
    BY InvHoldsAtStart
<1>2. BackendsInv /\ [BackendsNext]_backendsVars => BackendsInv'
    BY BackendsKept
<1> QED BY <1>1, <1>2, PTL DEF BackendsSpec

\* The configuration file, the launches, the helpers and what they leave on disk always
\* have the form that the code gives them, whatever is launched.
THEOREM BackendsTypeCorrect == BackendsSpec => []BackendsTypeOK
<1>1. BackendsInv => BackendsTypeOK
    BY DEF BackendsInv, BackendsTyped
<1> QED BY <1>1, BackendsHold, PTL

\* For any users, media, paths and settings: a launch under whose edits nobody else has
\* written the file starts with its disc, its network and its installation disc as
\* asked, and a private file or a disc on the command line holds against everybody.
THEOREM StartsHold == BackendsSpec => []StartsAsAsked
<1>1. BackendsInv => StartsAsAsked
    BY DEF BackendsInv, Starts, Started, AsAsked, StartsAsAsked
<1> QED BY <1>1, BackendsHold, PTL

\* However launches, failures, exits and deaths of the server alternate: a path that an
\* administrator set stays as long as no write undoes another's, what launches left on
\* disk is only there while somebody will remove it (or is spilled), no installer is
\* ended before it is done, and no package is taken for installed before it is complete
\* unless somebody has booted it by then.
THEOREM AftermathHolds == BackendsSpec => []AftermathIsClean
<1>1. BackendsInv => AftermathIsClean
    BY DEF BackendsInv, Installs, AftermathIsClean
<1> QED BY <1>1, BackendsHold, PTL
===============================================================================
