----------------------------- MODULE MCTagCache -----------------------------
(* Small instances of TagCache: all short keys over characters of each     *)
(* kind, keys of the shapes Nix uses, and keys with no or too long a tag.  *)
EXTENDS TagCache

CONSTANTS r, s, p, q

\* `a', `c', `C', `4', `-', `_' and one that takes two bytes and two digits: the
\* base32 tag of `a' is `c4', and `C4' is decoded like it.
Short == BoundedSeq({97, 99, 67, 52, 45, 95, 233}, 2) \ {<<>>}

Word(n) == [i \in 1..n |-> 97]

\* <hash>.narinfo, nar/<hash>.nar.zst, realisations/sha256:<hash>!<name>.doi;
\* and the two that would be confused if `_' was not encoded.
Shaped ==
  { << Word(32) \o <<46>> \o Word(7) >>,
    << Word(3), Word(52) \o <<46>> \o Word(3) \o <<46>> \o Word(3) >>,
    << Word(12), Word(6) \o <<58>> \o Word(64) \o <<33>> \o Word(6) \o <<46>> \o Word(3) >>,
    << Word(1), <<>> >>, << Word(1) \o <<95, 76, 95>> >> }

\* log/<hash>-<name>.drv with a long name, and no key at all.
Log == << Word(3), Word(32) \o <<45>> \o Word(100) \o <<46>> \o Word(3) >>
Empty == << <<>> >>

In(registry, repository, keys) ==
  { [registry |-> registry, repository |-> repository, parts |-> k] : k \in keys }

\* The repository of one part is no repository a path can name, and there is
\* a second registry.
Everything ==
  In(r, <<p, q>>, { <<k>> : k \in Short } \cup Shaped \cup {Log, Empty})
    \cup In(r, <<p>>, { << <<99, 52>> >> }) \cup In(s, <<p, q>>, { << <<45>> >> })

OfNix == In(r, <<p, q>>, Shaped \cup {Log})

AllNames == {r, s, p, q}

AllOptions ==
  { <<"base32_dnssec">>, <<"custom">>, <<"custom", "base32_dnssec">>,
    <<"base32_dnssec", "custom">> }

CustomOnly == { <<"custom">>, <<"custom", "base32_dnssec">> }
=============================================================================
