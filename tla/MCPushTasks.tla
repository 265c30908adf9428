---------------------------- MODULE MCPushTasks ----------------------------
(* Small instances of PushTasks: an output that refers to itself and to a  *)
(* library, with the files of either intact, changed in place or resized.  *)
EXTENDS PushTasks, TLC

CONSTANTS out, lib, own, other, malformed, narOut, narLib, garbled

Pair == (out :> {out, lib}) @@ (lib :> {})
NarOfPair == (out :> narOut) @@ (lib :> narLib)

Unsigned == (out :> {}) @@ (lib :> {})
OwnSigned == (out :> {own}) @@ (lib :> {other})
SigsOfPair == { Unsigned, OwnSigned }

Intact == (out :> "intact") @@ (lib :> "intact")
DisksOfPair ==
  { Intact,
    (out :> "garbled") @@ (lib :> "intact"),
    (out :> "intact") @@ (lib :> "resized") }
=============================================================================
