--------------------------- MODULE MCHttpsClient ---------------------------
(***************************************************************************)
(* The applications HttpsClient is checked with.                           *)
(***************************************************************************)
EXTENDS HttpsClient

Do(then, close) == [then |-> then, close |-> close]

(* Ask at once, wait for the server, give up, or do nothing at all.        *)
Opening == {Do("write", FALSE), Do("read", FALSE), Do("none", TRUE), Do("none", FALSE)}

(* Ask again, wait on, close, or ask for a last time and close already.    *)
Talking == Opening \cup {Do("write", TRUE)}
=============================================================================
