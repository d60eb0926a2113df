------------------------------ MODULE MCServices ------------------------------
(***************************************************************************)
(* The components beside the match engine and the matchmaking.  They have  *)
(* no variable in common, so a behaviour is one of one component: `part`   *)
(* says of which, and the others stay where they begin.                    *)
(***************************************************************************)
EXTENDS PluginReleases, Accounts, Seasons, Catalogue, Sockets, TLC

VARIABLE part

\* Sets whose members are alike have common members, so that these few
\* permutations rename all of them.
CONSTANTS Pair, Others
Symmetry == Permutations(Slots) \cup Permutations(Pair) \cup Permutations(Others)

T(person, trusted, ids) == [person |-> person, trusted |-> trusted, ids |-> ids]
CONSTANTS Somebody, Platform
\* Tokens of the administrator, who has linked no platform, of another person
\* who signs in with the plugin of his platform, and of a plugin without a
\* person.
Presented == {T(AdminPerson, None, << >>),
              T(Somebody, Platform, <<Platform>>), T(None, Platform, <<Platform>>)}

FromWebsite == {T(AdminPerson, None, << >>)}

\* The winner gains more than the loser loses, until it is corrected.
Computed == {<<2, 1>>}
DecidedByModerator == {<<1, 1>>}

Init ==
    /\ part \in {"releases", "accounts", "seasons", "catalogue", "sockets"}
    /\ ReleasesInit
    /\ AccountsInit
    /\ SeasonsInit
    /\ CatalogueInit
    /\ SocketsInit

ReleasesStep ==
    /\ part = "releases"
    /\ ReleasesNext
    /\ UNCHANGED <<part, accountsVars, seasonsVars, catalogueVars, socketsVars>>
AccountsStep ==
    /\ part = "accounts"
    /\ AccountsNext
    /\ UNCHANGED <<part, releasesVars, seasonsVars, catalogueVars, socketsVars>>
SeasonsStep ==
    /\ part = "seasons"
    /\ SeasonsNext
    /\ UNCHANGED <<part, releasesVars, accountsVars, catalogueVars, socketsVars>>
CatalogueStep ==
    /\ part = "catalogue"
    /\ CatalogueNext
    /\ UNCHANGED <<part, releasesVars, accountsVars, seasonsVars, socketsVars>>
SocketsStep ==
    /\ part = "sockets"
    /\ SocketsNext
    /\ UNCHANGED <<part, releasesVars, accountsVars, seasonsVars, catalogueVars>>

Next == \/ ReleasesStep \/ AccountsStep \/ SeasonsStep
        \/ CatalogueStep \/ SocketsStep

Spec == Init /\ [][Next]_<<part, releasesVars, accountsVars, seasonsVars,
                          catalogueVars, socketsVars>>
=============================================================================
