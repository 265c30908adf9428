---------------------------- MODULE BinaryCache ----------------------------
(***************************************************************************)
(* What a pusher promises to the readers of a Nix binary cache: a listed   *)
(* path can be fetched, nothing listed is ever withdrawn, and a path the   *)
(* pusher announced as pushed is listed.  PushTasks implements this.       *)
(***************************************************************************)
CONSTANTS
  Paths,     \* store paths
  Contents,  \* contents of store paths (NARs)
  Nothing    \* stands for the content of a path that is not listed

VARIABLES
  stored,    \* the contents a reader can download
  listing,   \* listing[p]: the content p's narinfo points to
  announced  \* the paths the last push reported as pushed

cacheVars == <<stored, listing, announced>>

Listed == { p \in Paths : listing[p] # Nothing }

Init ==
  /\ stored = {}
  /\ listing = [p \in Paths |-> Nothing]
  /\ announced = {}

Upload(c) ==
  /\ stored' = stored \cup {c}
  /\ UNCHANGED <<listing, announced>>

\* A path is listed, or listed anew, with a content that is already there.
List(p, c) ==
  /\ c \in stored
  /\ listing' = [listing EXCEPT ![p] = c]
  /\ UNCHANGED <<stored, announced>>

\* A push reports success, or a new one begins and there is no report yet.
Announce(S) ==
  /\ S \subseteq Listed
  /\ announced' = S
  /\ UNCHANGED <<stored, listing>>

Next ==
  \/ \E c \in Contents : Upload(c)
  \/ \E p \in Paths, c \in Contents : List(p, c)
  \/ \E S \in SUBSET Paths : Announce(S)

Spec == Init /\ [][Next]_cacheVars
=============================================================================
