--------------------------- MODULE MCHttpsSession ---------------------------
(***************************************************************************)
(* The routing tables HttpsSession is checked with.                        *)
(***************************************************************************)
EXTENDS HttpsSession

Keep == <<"keep_alive">>
End  == <<"need_eof">>

Request(routed, m, r) == [routed |-> routed, by_method |-> m, by_resource |-> r]

(* At most one handler answers: a route of the method, else the default    *)
(* one, or none; some responses end the connection.                        *)
OneAnswer ==
  {Request(TRUE, Keep, Keep), Request(FALSE, <<>>, Keep),
   Request(FALSE, <<>>, End), Request(TRUE, End, <<>>),
   Request(FALSE, <<>>, <<>>)}

(* Two routes of the same method match, and both handlers answer.          *)
TwoRoutes == {Request(TRUE, Keep \o Keep, <<>>)}
=============================================================================
