---------------------------- MODULE WsConnection ----------------------------
(***************************************************************************)
(* The connection of include/base.hpp: connection_base<Derived> forwards   *)
(* every operation to a boost::beast websocket stream.  A connection is    *)
(* the part of a session's record that these operators read and change:    *)
(*   ops      how many operations of each kind were started and have not   *)
(*            yet called their completion handler;                         *)
(*   status   what the stream is good for;                                 *)
(*   frame    the opcode the next written message gets (text or binary);   *)
(*   got      the opcode of the last message read, "none" before one;      *)
(*   sending  what the last started write took: the number of chunks its   *)
(*            buffer held, and the frame opcode.                           *)
(* The stream itself is Boost.Beast: what its operations may answer is     *)
(* Answers and Broken below, read off the way the sessions use it.         *)
(***************************************************************************)
EXTENDS Naturals

Kinds    == {"handshake", "read", "write", "ping", "pong", "close"}
Frames   == {"text", "binary"}
Statuses == {"http", "handshaking", "open", "closing", "closed", "failed"}

(* The fields of a freshly made connection: no websocket yet, text frames. *)
NoOps     == [k \in Kinds |-> 0]
NoSending == [size |-> 0, frame |-> "text"]

Start(c, k) == [c EXCEPT !.ops[k] = @ + 1]

(* async_accept / async_accept_ex on the server, async_handshake /         *)
(* async_handshake_ex on the client: the stream is being opened.           *)
AsyncHandshake(c) == [Start(c, "handshake") EXCEPT !.status = "handshaking"]

AsyncRead(c) == Start(c, "read")

(* async_write takes buf.data() as it is now: bytes appended later are not *)
(* part of this message.                                                   *)
AsyncWrite(c, size) ==
  [Start(c, "write") EXCEPT !.sending = [size |-> size, frame |-> c.frame]]

AsyncPing(c) == Start(c, "ping")

AsyncPong(c) == Start(c, "pong")

(* async_close starts the closing handshake of an open stream; on any      *)
(* other stream it only fails.                                             *)
AsyncClose(c) ==
  [Start(c, "close") EXCEPT !.status = IF @ = "open" THEN "closing" ELSE @]

-----------------------------------------------------------------------------
(* The stream.                                                             *)

(* The answers an outstanding operation of kind k may get.  Nothing is     *)
(* said about when: an open stream owes no answer to a read, a write or a  *)
(* close.  An answer may have been on its way when the stream left "open", *)
(* so an "ok" is still possible while it closes.                           *)
Answers(c, k) ==
  CASE k = "handshake" -> IF c.status = "handshaking" THEN {"ok", "fail"}
                                                      ELSE {"fail"}
    [] k = "read"      -> CASE c.status = "open"    -> {"ok"}
                            [] c.status = "closing" -> {"ok", "closed", "fail"}
                            [] c.status = "closed"  -> {"closed", "fail"}
                            [] OTHER                -> {"fail"}
    [] k = "close"     -> CASE c.status = "closing" -> {"ok"}
                            [] c.status = "closed"  -> {"ok", "fail"}
                            [] OTHER                -> {"fail"}
    [] OTHER           -> CASE c.status = "open"    -> {"ok"}
                            [] c.status \in {"closing", "closed"} -> {"ok", "fail"}
                            [] OTHER                -> {"fail"}

(* What the stream becomes when an operation of kind k is answered ec.     *)
StatusAfter(c, k, ec) ==
  CASE k = "handshake" /\ ec = "ok"   -> "open"
    [] k = "handshake" /\ ec = "fail" -> "failed"
    [] k = "read"  /\ ec = "closed"   -> "closed"
    [] k = "close" /\ ec = "ok"       -> "closed"
    [] OTHER                          -> c.status

(* Operation k is answered: it is no longer outstanding.                   *)
Answer(c, k, ec) ==
  [c EXCEPT !.ops[k]  = @ - 1,
            !.status  = StatusAfter(c, k, ec),
            !.sending = IF k = "write" THEN NoSending ELSE @]

Outstanding(c, k) == c.ops[k] > 0

NothingOutstanding(c) == \A k \in Kinds : ~Outstanding(c, k)
=============================================================================
