------------------------------ MODULE MCSearch ------------------------------
(* A season of two episodes, offered as a single and as a pack by a tracker *)
(* each.  A task takes one want at a time, the button takes both.           *)
EXTENDS Search, TLC

CONSTANTS single, pack, full, now

E1 == <<"show", 1, 1>>
E2 == <<"show", 1, 2>>

Wants == {E1, E2}
NewestFirst == {<<E2, E1>>}
SeasonSpan == (single :> {E1}) @@ (pack :> {E1, E2})
SeasonKind == (single :> "episode") @@ (pack :> "pack")
Trackers == (single :> "a") @@ (pack :> "b")
Sizes == (single :> 2) @@ (pack :> 8)
Everything == [s \in Searcher |-> Want]
DefaultPolicy ==
    [preferPacks |-> TRUE, packMin |-> 2, everything |-> FALSE, autoBelow |-> 0,
     sizeGate |-> 10, gateMultiSeason |-> TRUE, gatePacks |-> TRUE]
=============================================================================
