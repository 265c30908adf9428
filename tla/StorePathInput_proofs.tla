----------------------- MODULE StorePathInput_proofs -----------------------
(* What holds of canonicalize_store_path_input for every file system.      *)
EXTENDS StorePathInput, TLAPS

\* The line is in every set that has the path and each link to a member.
Reached == LeadsTo(input, {path})

IInv ==
  /\ TypeOK
  /\ Reached
  /\ input \in StorePaths => path = input
  /\ OutcomeOfChain

LEMMA InitIInv == Init => IInv
BY DEF Init, IInv, TypeOK, Reached, LeadsTo, OutcomeOfChain

\* Where the path leads, the line leads.
LEMMA ArrivesToo ==
  ASSUME Reached, NEW T \in SUBSET Locations, path \in T
  PROVE  LeadsTo(input, T)
BY DEF Reached, LeadsTo

LEMMA FollowIInv == IInv /\ Follow => IInv'
<1> SUFFICES ASSUME IInv, Follow PROVE IInv'
  OBVIOUS
<1>1. IsLink(path) /\ path' = fs[path].target /\ UNCHANGED <<fs, input, outcome>>
  BY DEF Follow
<1>2. path \in Locations /\ path' \in Locations
  <2>1. fs[path] \in Entries /\ fs[path].kind = "symlink"
    BY <1>1 DEF IsLink, IInv, TypeOK
  <2> QED BY <1>1, <2>1 DEF Entries, IInv, TypeOK
<1>3. Reached'
  <2> SUFFICES ASSUME NEW S \in SUBSET Locations, path' \in S,
                      \A k \in Locations : IsLink(k) /\ fs[k].target \in S => k \in S
               PROVE  input \in S
    BY <1>1 DEF Reached, LeadsTo, IsLink
  <2>1. path \in S
    BY <1>1, <1>2
  <2> QED BY <2>1 DEF IInv, Reached, LeadsTo
<1>4. OutcomeOfChain'
  BY <1>1 DEF Follow, OutcomeOfChain
<1>5. input \notin StorePaths
  BY DEF Follow, InStore
<1> QED BY <1>1, <1>2, <1>3, <1>4, <1>5 DEF IInv, TypeOK

LEMMA RejectIInv == IInv /\ Reject => IInv'
<1> SUFFICES ASSUME IInv, Reject PROVE IInv'
  OBVIOUS
<1>1. /\ fs[path] \in Entries /\ fs[path].kind # "symlink" /\ path \in Locations
      /\ outcome' = IF fs[path].kind = "missing" THEN "io_error" ELSE "invalid_store_path"
      /\ UNCHANGED <<fs, input, path>>
  BY DEF Reject, IsLink, IInv, TypeOK
<1>2. fs[path].kind = "missing" => LeadsTo(input, Missing)
  BY <1>1, ArrivesToo DEF IInv, Missing
<1>3. fs[path].kind # "missing" => LeadsTo(input, NoLinks)
  <2>1. fs[path].kind # "missing" => fs[path].kind = "other"
    BY <1>1 DEF Entries
  <2> QED BY <1>1, <2>1, ArrivesToo DEF IInv, NoLinks
<1> QED
  BY <1>1, <1>2, <1>3
  DEF IInv, TypeOK, Reached, OutcomeOfChain, LeadsTo, IsLink, Missing, NoLinks

LEMMA NextIInv == IInv /\ [Next]_vars => IInv'
<1> SUFFICES ASSUME IInv, [Next]_vars PROVE IInv'
  OBVIOUS
<1>1. CASE Accept
  <2>1. path \in StorePaths
    BY <1>1 DEF Accept, InStore, IInv
  <2> QED
    BY <1>1, <2>1 DEF Accept, IInv, TypeOK, Reached, OutcomeOfChain, LeadsTo, IsLink
<1>2. CASE UNCHANGED vars
  BY <1>2 DEF vars, IInv, TypeOK, Reached, OutcomeOfChain, LeadsTo, IsLink, Missing, NoLinks
<1> QED BY <1>1, <1>2, FollowIInv, RejectIInv DEF Next, Canonicalize, Ended

\* The state has its type: every path a link leads to is a location.
THEOREM InputTypeCorrect == Spec => []TypeOK
<1>1. IInv => TypeOK
  BY DEF IInv
<1> QED BY <1>1, InitIInv, NextIInv, PTL DEF Spec

\* For every file system and every chain of links: what is accepted, an I/O
\* error and an invalid store path each say where the chain arrives.
THEOREM OutcomesOfChains == Spec => []OutcomeOfChain
<1>1. IInv => OutcomeOfChain
  BY DEF IInv
<1> QED BY <1>1, InitIInv, NextIInv, PTL DEF Spec
=============================================================================
