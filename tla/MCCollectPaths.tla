--------------------------- MODULE MCCollectPaths ---------------------------
(* Small instances of CollectPaths: an output that refers to itself, to two *)
(* libraries and, through them, to a common one; the signatures that matter *)
(* to the filter in a few combinations.                                     *)
EXTENDS CollectPaths, TLC

CONSTANTS out, liba, libb, libc, own, excluded, other, malformed

Diamond == (out :> {out, liba, libb}) @@ (liba :> {libc}) @@ (libb :> {libc}) @@ (libc :> {})
Chain == (out :> {out, liba}) @@ (liba :> {libb}) @@ (libb :> {})

NoSigs(rows) == [r \in rows |-> {}]

\* Unsigned paths; a library from the excluded cache and one already signed;
\* a signature the filter lets through; one that does not parse.
SigsOfDiamond ==
  { NoSigs({out, liba, libb, libc}),
    (out :> {}) @@ (liba :> {excluded}) @@ (libb :> {own, other}) @@ (libc :> {other}),
    (out :> {own}) @@ (liba :> {}) @@ (libb :> {}) @@ (libc :> {malformed}) }

SigsOfChain ==
  { NoSigs({out, liba, libb}),
    (out :> {other}) @@ (liba :> {own}) @@ (libb :> {excluded}),
    (out :> {own}) @@ (liba :> {malformed}) @@ (libb :> {}) }
=============================================================================
