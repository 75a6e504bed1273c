---------------------------- MODULE MCDownloads ----------------------------
(* Constants for checking Downloads: one episode offered as one release    *)
(* (One...), and a season of two episodes with a single and a pack.        *)
EXTENDS Downloads, TLC

CONSTANTS single, pack, e1, e2

OneSpan == single :> {e1}
OneKind == single :> "episode"

SeasonSpan == (single :> {e1}) @@ (pack :> {e1, e2})
SeasonKind == (single :> "episode") @@ (pack :> "pack")

Rows == Permutations(Row)
=============================================================================
