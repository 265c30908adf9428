---------------------------- MODULE MCPushSystem ----------------------------
(* Small instances of PushSystem: an output and the library it refers to.  *)
EXTENDS PushSystem, TLC

CONSTANTS out, lib, own, excluded, malformed, narOut, narLib, garbled

OutAndLib == (out :> {out, lib}) @@ (lib :> {})
NarOfPair == (out :> narOut) @@ (lib :> narLib)

SigsOfPair ==
  { (out :> {}) @@ (lib :> {}),
    (out :> {}) @@ (lib :> {excluded}),
    (out :> {malformed}) @@ (lib :> {own}) }

Intact == { (out :> "intact") @@ (lib :> "intact") }
=============================================================================
