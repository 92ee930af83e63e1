------------------------------- MODULE MCLaunch -------------------------------
(* Model values and slots for the instances of Launch that TLC checks.      *)
EXTENDS Launch, TLC

CONSTANTS l1, l2, game, app, env, pA, pB, pC, pS, dos, alice, bob

\* pA and pB are two of alice's profiles for one emulator, pC is bob's profile
\* for it, pS a shared profile with no emulator slug.
MCProfileSlug == [p \in Profiles |-> IF p = pS THEN NoSlug ELSE dos]
MCProfileUser == [p \in Profiles |-> CASE p \in {pA, pB} -> alice
                                       [] p = pC -> bob
                                       [] p = pS -> NoUser]
MCKind == [t \in Targets |-> CASE t = game -> "game"
                               [] t = app -> "app"
                               [] t = env -> "environment"]

\* The pairs of launches of the run `launch': of one collection by profiles that do not
\* collide, of two targets by such profiles, of two targets by profiles that collide by
\* emulator and user, and of one environment by one profile.
Scenes == {<<<<app, app>>, <<pA, pS>>>>, <<<<app, env>>, <<pA, pS>>>>,
           <<<<app, env>>, <<pA, pB>>>>, <<<<env, env>>, <<pS, pS>>>>}

MCInit ==
    /\ Init
    /\ \E l \in Launches : \E k \in Launches \ {l} :
            <<<<target[l], target[k]>>, <<profile[l], profile[k]>>>> \in Scenes

MCSpec == MCInit /\ [][Next]_vars
LaunchSymmetry == Permutations(Launches)
==============================================================================
