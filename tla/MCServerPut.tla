---------------------------- MODULE MCServerPut ----------------------------
(* A small instance of ServerPut: two clients put different items.         *)
EXTENDS ServerPut

CONSTANTS old, new

Retries == {0, 1, 3}

\* A registry whose other failures carry no error envelope, or one that does
\* not mention MANIFEST_UNKNOWN.
Honest == { {{"TOOMANYREQUESTS"}} }
=============================================================================
