-------------------------- MODULE ServerSessionOps --------------------------
(***************************************************************************)
(* The operations of session<true> (include/session.hpp), each a function  *)
(* from the session before the call to the session after it.  A session is *)
(* one record: its own members, its timer, its connection (WsConnection),  *)
(* and one history field, "quiet", that no code reads.                     *)
(***************************************************************************)
EXTENDS WsConnection

Deadlines   == {"max", "armed", "expired"}
TimerCbs    == {"none", "ping", "close"}
FrameModes  == {"keep", "auto", "text", "binary"}
Calls       == {"none", "ping", "pong", "close"}
Launches    == {"no", "default", "ping"}

(* What a user handler may do with the session it is given: choose the     *)
(* frame type, append one chunk to the output buffer, call do_read, send a *)
(* control frame, and launch the timer.                                    *)
Script  == [frame : FrameModes, out : BOOLEAN, read : BOOLEAN,
            call : Calls, launch : Launches]
Nothing == [frame |-> "keep", out |-> FALSE, read |-> FALSE,
            call |-> "none", launch |-> "no"]

Session ==
  [accepted : BOOLEAN, readable : BOOLEAN, auto_frame : BOOLEAN,
   on_timer_cb : TimerCbs, output : Nat,
   deadline : Deadlines, waits : Nat, due : Nat, quiet : BOOLEAN,
   ops : [Kinds -> Nat], status : Statuses, frame : Frames,
   got : Frames \cup {"none"}, sending : [size : Nat, frame : Frames]]

NewSession ==
  [accepted |-> FALSE, readable |-> TRUE, auto_frame |-> TRUE,
   on_timer_cb |-> "none", output |-> 0,
   deadline |-> "max", waits |-> 0, due |-> 0, quiet |-> FALSE,
   ops |-> NoOps, status |-> "http", frame |-> "text",
   got |-> "none", sending |-> NoSending]

-----------------------------------------------------------------------------
(* The timer: "waits" completion handlers wait for the deadline, "due" ones *)
(* have been released and wait for a thread.  Moving the deadline cancels  *)
(* every wait, which releases its handler too.                             *)

ExpiresAfter(s) ==
  [s EXCEPT !.deadline = "armed", !.due = @ + s.waits, !.waits = 0]

AsyncWait(s) ==
  [s EXCEPT !.waits = IF s.deadline = "expired" THEN @ ELSE @ + 1,
            !.due   = IF s.deadline = "expired" THEN @ + 1 ELSE @]

LaunchTimer(s) == AsyncWait(s)

LaunchTimerWith(s, f) == AsyncWait([s EXCEPT !.on_timer_cb = f])

-----------------------------------------------------------------------------

DoAccept(s) ==
  IF s.accepted THEN s ELSE AsyncHandshake(ExpiresAfter(s))

DoPing(s) ==
  IF ~s.accepted THEN s
  ELSE AsyncPing(ExpiresAfter([s EXCEPT !.quiet = TRUE]))

DoPong(s) == IF ~s.accepted THEN s ELSE AsyncPong(ExpiresAfter(s))

DoClose(s) == IF ~s.accepted THEN s ELSE AsyncClose(ExpiresAfter(s))

(* Mutant: do_read forgets to clear readable.                              *)
DoReadKeepsReadable(s) ==
  IF ~s.accepted \/ ~s.readable THEN s ELSE AsyncRead(ExpiresAfter(s))

DoRead(s) ==
  IF ~s.accepted \/ ~s.readable THEN s
  ELSE AsyncRead([ExpiresAfter(s) EXCEPT !.readable = FALSE])

DoWrite(s) == IF ~s.accepted THEN s ELSE AsyncWrite(s, s.output)

SetFrame(s, mode) ==
  CASE mode = "keep" -> s
    [] mode = "auto" -> [s EXCEPT !.auto_frame = TRUE]
    [] OTHER         -> [s EXCEPT !.auto_frame = FALSE, !.frame = mode]

-----------------------------------------------------------------------------
(* A user handler running script c.                                        *)

Append1(s, out) == [s EXCEPT !.output = IF out THEN @ + 1 ELSE @]

ReadIf(s, read) == IF read THEN DoRead(s) ELSE s

SendControl(s, call) ==
  CASE call = "ping"  -> DoPing(s)
    [] call = "pong"  -> DoPong(s)
    [] call = "close" -> DoClose(s)
    [] OTHER          -> s

LaunchIf(s, launch) ==
  CASE launch = "default" -> LaunchTimer(s)
    [] launch = "ping"    -> LaunchTimerWith(s, "ping")
    [] OTHER              -> s

UserHandler(s, c) ==
  LaunchIf(SendControl(ReadIf(Append1(SetFrame(s, c.frame), c.out), c.read),
                       c.call), c.launch)

(* An unset std::function is not called.                                   *)
Handlers(scripts) == IF scripts = {} THEN {Nothing} ELSE scripts

-----------------------------------------------------------------------------
(* The completion handlers, for the answer "ok"; c is what the user's      *)
(* handler does.  For any other answer they return and change nothing.     *)
(* The input buffer is left out: of a message only its frame type is kept. *)

WriteOrRead(s) == IF s.output > 0 THEN DoWrite(s)
                  ELSE IF s.readable THEN DoRead(s) ELSE s

(* Mutant: on_accept sets the frame from a message that was never read.    *)
AcceptedAutoFrame(s, c) ==
  WriteOrRead([UserHandler([s EXCEPT !.accepted = TRUE], c) EXCEPT !.frame = s.got])

Accepted(s, c) == WriteOrRead(UserHandler([s EXCEPT !.accepted = TRUE], c))

AutoFrame(s) == [s EXCEPT !.frame = IF s.auto_frame THEN s.got ELSE @]

(* Mutant: the frame is set after the answer was handed to the stream.     *)
ReceivedLateFrame(s, got, c) ==
  AutoFrame(WriteOrRead(UserHandler(
    [s EXCEPT !.readable = TRUE, !.got = got, !.quiet = FALSE], c)))

Received(s, got, c) ==
  WriteOrRead(AutoFrame(UserHandler(
    [s EXCEPT !.readable = TRUE, !.got = got, !.quiet = FALSE], c)))

(* Mutants: on_write keeps what it has written, or does not read on.       *)
WrittenKeepsOutput(s) == IF s.readable THEN DoRead(s) ELSE s

WrittenNoRead(s) == [s EXCEPT !.output = 0]

Written(s) ==
  LET consumed == [s EXCEPT !.output = 0]
  IN  IF s.readable THEN DoRead(consumed) ELSE consumed

(* What on_timer does once it has found the deadline expired, up to its    *)
(* launch_timer if there is one: with a user handler it runs that, and the *)
(* chat server's handlers begin with do_ping and with do_close; without    *)
(* one it closes.                                                          *)
Expired(s) ==
  CASE s.on_timer_cb = "ping"  -> DoPing(s)
    [] s.on_timer_cb = "close" -> DoClose(s)
    [] OTHER                   -> AsyncClose(ExpiresAfter(s))
=============================================================================
