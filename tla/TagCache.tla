------------------------------ MODULE TagCache ------------------------------
(***************************************************************************)
(* A registry whose items are addressed by URL at the server and by        *)
(* location in `oranc push', while the tag encodings are reconfigured: the *)
(* way of a key to its reference and back.  The registry is external, and  *)
(* here it answers (for its failures see LayerLookup).                     *)
(***************************************************************************)
EXTENDS TagEncoding

CONSTANTS
  Names,            \* of registries, and of the parts of repositories
  Locations,        \* what is pushed and asked for
  OptionSets,       \* the sequences of encodings configured, main one first
  RepositoryParts,  \* --repository-parts
  MaxPuts           \* bound on `puts'

\* A location names its repository, and its key, by their parts between `/'.
ASSUME TagAssumption ==
  /\ OptionSets \subseteq Seq(Encodings) \ {<<>>}
  /\ {RepositoryParts, MaxPuts} \subseteq Nat
  /\ Locations \subseteq
       [registry : Names, repository : Seq(Names), parts : Seq(Seq(CodePoints)) \ {<<>>}]
  /\ \A l \in Locations : \A i \in DOMAIN l.parts : \A j \in DOMAIN l.parts[i] :
       IsScalar(l.parts[i][j]) /\ l.parts[i][j] # 47

VARIABLES
  encodings,  \* tag_encoding, then fallback_encodings
  puts,       \* the puts so far, each with the encoding of its tag
  store       \* store[r]: the put whose item the registry has under r

vars == <<encodings, puts, store>>

\* join("/").
Join(parts) == Tail(FlattenSeq([i \in DOMAIN parts |-> <<47>> \o parts[i]]))

KeyOf == [l \in Locations |-> Join(l.parts)]

\* OciLocation::reference, for one encoding.
ReferenceOf ==
  [l \in Locations |->
     [e \in Encodings |-> <<l.registry, l.repository, key_to_tag(e, KeyOf[l])>>]]

TypeOK ==
  /\ encodings \in OptionSets
  /\ puts \in Seq([location : Locations, encoding : Encodings])
  /\ Len(puts) <= MaxPuts
  /\ DOMAIN store \subseteq { ReferenceOf[l][e] : l \in Locations, e \in Encodings }
  /\ \A r \in DOMAIN store :
       /\ store[r] \in DOMAIN puts
       /\ r = ReferenceOf[puts[store[r]].location][puts[store[r]].encoding]

Init ==
  /\ encodings \in OptionSets
  /\ puts = <<>>
  /\ store = <<>>

----------------------------------------------------------------------------
(* OciLocation from a request.                                             *)

IllFormed == [registry |-> "none", repository |-> "none", parts |-> <<>>]

\* Mutant: one part too many in the repository.
SplitLate == RepositoryParts + 1

\* Where the path is split off: the rest is the key.
SplitAt == RepositoryParts

\* from_request_parts: what no query parameter gives is taken from the path.
Located(url) ==
  LET registry == IF url.registry # <<>> THEN url.registry[1] ELSE Head(url.path)
      rest == IF url.registry # <<>> THEN url.path ELSE Tail(url.path)
  IN IF url.repository # <<>>
       THEN [registry |-> registry, repository |-> url.repository[1], parts |-> rest]
     ELSE IF Len(rest) <= SplitAt
       THEN IllFormed
       ELSE [registry |-> registry,
             repository |-> SubSeq(rest, 1, SplitAt),
             parts |-> SubSeq(rest, SplitAt + 1, Len(rest))]

\* The URLs of a location: each of registry and repository in the path or as
\* a query parameter; in the path a repository must have RepositoryParts parts.
Urls(l) ==
  { [registry |-> IF inQuery.registry THEN <<l.registry>> ELSE <<>>,
     repository |-> IF inQuery.repository THEN <<l.repository>> ELSE <<>>,
     path |-> (IF inQuery.registry THEN <<>> ELSE <<l.registry>>)
                \o (IF inQuery.repository THEN <<>> ELSE l.repository) \o l.parts] :
    inQuery \in { q \in [registry : BOOLEAN, repository : BOOLEAN] :
                    q.repository \/ Len(l.repository) = RepositoryParts } }

\* What the requests for l say it is.
Requested == [l \in Locations |-> { Located(u) : u \in Urls(l) }]

----------------------------------------------------------------------------

MainEncoding == Head(encodings)

\* Mutant: the last fallback in place of the main reference.
LastReference(l) == ReferenceOf[l][encodings[Len(encodings)]]

\* registry::put drops the fallbacks.
PutReference(l) == ReferenceOf[l][MainEncoding]

\* registry::put for a location; the registry refuses an illegal tag.
Put(l) ==
  LET reference == PutReference(l)
  IN /\ Len(puts) < MaxPuts
     /\ puts' = Append(puts, [location |-> l, encoding |-> MainEncoding])
     /\ store' = IF Legal(reference[3])
                   THEN [r \in DOMAIN store \cup {reference} |->
                           IF r = reference THEN Len(puts) + 1 ELSE store[r]]
                   ELSE store
     /\ UNCHANGED encodings

\* `oranc push' names the location itself, a PUT names it by an URL.
Push == \E l \in Locations : Put(l)
ServerPut == \E l \in Locations : \E m \in Requested[l] \cap Locations : Put(m)

\* oranc is started with other --tag-encoding and --fallback-encodings.
Reconfigure ==
  /\ encodings' \in OptionSets \ {encodings}
  /\ UNCHANGED <<puts, store>>

Next == Push \/ ServerPut \/ Reconfigure

Spec == Init /\ [][Next]_vars

\* Mutant: the fallbacks are not asked.
MainOnly(l) == <<ReferenceOf[l][MainEncoding]>>

\* references_merged: the references a lookup asks, in this order.
ReferencesMerged(l) == [i \in DOMAIN encodings |-> ReferenceOf[l][encodings[i]]]

\* The put whose item a lookup of l returns, 0 for none.
Found(l) ==
  LET references == ReferencesMerged(l)
      there == { i \in DOMAIN references : references[i] \in DOMAIN store }
  IN IF there = {} THEN 0 ELSE store[references[Min(there)]]

----------------------------------------------------------------------------
(* Properties.                                                             *)

\* The puts of l that the registry took.
PutsOf(l) ==
  { i \in DOMAIN puts : puts[i].location = l /\ Legal(ReferenceOf[l][puts[i].encoding][3]) }

Newest(S) == CHOOSE i \in S : \A j \in S : j <= i

\* The encodings those puts were made under.
Used(l) == { puts[i].encoding : i \in PutsOf(l) }

\* Of these the one of the newest put is configured, and asked first: so on
\* the way of README.md:14, from base32-dnssec to custom with base32-dnssec as
\* the fallback; not so after the main encoding was rolled back.
NewestFirst(l) ==
  \E i \in DOMAIN encodings :
    /\ encodings[i] = puts[Newest(PutsOf(l))].encoding
    /\ \A j \in 1..(i - 1) : encodings[j] \notin Used(l)

\* However the encodings are reconfigured, whoever asks for an item, by any of
\* its URLs, gets a version of it exactly if an encoding it was put under is
\* still configured, and gets its newest version exactly if the encoding of
\* that one comes first among these.
\* (A Plain key may be hidden by another key: see MixupsArePlain.)
NewestFound ==
  (\A i \in DOMAIN puts : ~Plain(KeyOf[puts[i].location])) =>
    \A l \in Locations : PutsOf(l) # {} =>
      \A m \in Requested[l] :
        /\ m \in Locations
        /\ Found(m) # 0 <=> \E i \in DOMAIN encodings : encodings[i] \in Used(l)
        /\ Found(m) # 0 => Found(m) \in PutsOf(l)
        /\ Found(m) = Newest(PutsOf(l)) <=> NewestFirst(l)

\* A lookup returns what was put for another key only if one of the two keys
\* is Plain: of Nix's keys none is.
MixupsArePlain ==
  \A l \in Locations :
    Found(l) # 0 /\ puts[Found(l)].location # l =>
      LET other == puts[Found(l)]
      IN Plain(KeyOf[l]) \/ Plain(KeyOf[other.location])

\* `oranc tag decode' prints the key of every tag that was made by the main
\* encoding; and of those a custom fallback made, unless the key is all base32
\* symbols, in either case.  (The tags of a base32 fallback, as README.md:14 has
\* it for old caches, it prints unchanged: as custom tags they are their own keys.)
DecodesBack ==
  \A r \in DOMAIN store :
    LET put == puts[store[r]]
        key == KeyOf[put.location]
        fallback == \E i \in DOMAIN encodings : encodings[i] = put.encoding
    IN \/ put.encoding = MainEncoding
       \/ MainEncoding = "base32_dnssec" /\ ~LooksBase32(key) /\ fallback
       => DecodeTag(encodings, r[3]) = key

\* The encodings keep to the alphabet of tags: of a key only the length can
\* make its tag illegal.
OnlyLengthMatters ==
  \A i \in DOMAIN puts :
    LET reference == ReferenceOf[puts[i].location][puts[i].encoding]
    IN Len(reference[3]) \in 1..128 => Legal(reference[3])

\* convert.rs:72: "A tag MUST be at most 128 characters in length and MUST
\* match the following regular expression".
TagsFit ==
  \A i \in DOMAIN puts : Legal(ReferenceOf[puts[i].location][puts[i].encoding][3])
=============================================================================
