------------------------------ MODULE MCWants ------------------------------
(* A series of two seasons with an episode each, both aired long ago, and  *)
(* a third that is announced without episodes; a film that comes out       *)
(* tomorrow; the policy chases the whole backlog or the current season.    *)
EXTENDS Wants, TLC

E11 == <<"show", 1, 1>>
E21 == <<"show", 2, 1>>
S2 == <<"show", 2, 0>>
Movie == <<"film", 0, 0>>

Wants4 == {E11, E21, S2, Movie}
Entries == {<<"show", 0, 0>>, S2, E21, Movie}
FirstLists == {{}, {S2}, {Movie}}
Listings == "show" :> {<<1, 1>>, <<2, 1>>, <<3, 0>>}
Dates == (E11 :> -30) @@ (E21 :> -20) @@ (S2 :> Unknown) @@ (Movie :> 1)
Shelves == {<<{E11}, {E11}>>, <<{E11, E21}, {E11}>>}
Mode(m) == [assumePrior |-> TRUE, skipWatched |-> TRUE, sequential |-> FALSE, lead |-> 1,
            backlog |-> m, back |-> 0, grace |-> 7, autoRemove |-> TRUE]
Modes == {Mode("all"), Mode("current_season")}

\* What is on the watchlist from the start is there beside a series that is owned in
\* part, the film under one policy: it has no part in either.  Beside the others
\* an entry comes as the one change from outside.
MCInit ==
    /\ Init
    /\ listed # {} => plex = {E11}
    /\ listed = {Movie} => policy = Mode("current_season")

MCSpec == MCInit /\ [][Next]_vars /\ Fairness
=============================================================================
