---------------------------- MODULE MCSupervisor ----------------------------
(* Cadences below and above the back-off cap; the default is the one between. *)
EXTENDS Settings

Cadences == {1, 3, 6}
=============================================================================
