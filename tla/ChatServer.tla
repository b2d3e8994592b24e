----------------------------- MODULE ChatServer -----------------------------
(***************************************************************************)
(* The chat server of examples/ex3_chat_server: one server session for     *)
(* each client (ServerSessionOps), and the list of clients and messages    *)
(* the sessions share under main_mutex.                                    *)
(*                                                                         *)
(* A handler runs on the strand of its own session, but broadcasts by      *)
(* appending to the output buffers of other sessions and calling their     *)
(* do_write; on_write of those sessions runs on their own strands and does *)
(* not take the mutex.  So on_message and on_close are several actions:    *)
(* the work done when the mutex was taken, an append and a do_write for    *)
(* each receiver, the release, and what on_read does after on_message.     *)
(*                                                                         *)
(* Of a session's timer only whether it was launched is kept: when it      *)
(* expires, and whether it then pings or closes, is left open.             *)
(* (ServerSession models that.)                                            *)
(***************************************************************************)
EXTENDS ServerSessionOps, ChatMessage, FiniteSets
LOCAL INSTANCE FiniteSetsExt

CONSTANTS
  Clients,     \* the browsers or programs that connect
  NameOf,      \* the name each of them answers the question with
  Inputs,      \* the other texts they may send, chat messages or not
  Threads,     \* threads running the io_context, processor::start(Threads)
  MaxMessages, \* bound: messages stored
  MaxWrites,   \* bound: a session with so many writes outstanding reads nothing
  MaxTimed     \* bound: pings and closes outstanding, over all sessions

(* Any text is a name, an empty one and one with a colon too.              *)
ASSUME NamesAssumption == NameOf \in [Clients -> Text]
ASSUME PhrasesAssumption ==
  {"What is your name?", "Hello ", "Input to chat room!", "is leaving"} \subseteq Symbols
ASSUME InputsAssumption == Inputs \subseteq Text
ASSUME ServerBoundsAssumption ==
  Threads \in Nat \ {0} /\ MaxMessages \in Nat /\ MaxWrites \in Nat \ {0} /\ MaxTimed \in Nat \ {0}

VARIABLES
  sessions, \* the session of each client
  buffer,   \* its output buffer, whose size is the session's "output"
  clients,  \* the list of clients, those who gave their name
  messages, \* the messages stored, oldest first
  pc,       \* what the session's strand is doing, see Stages
  input,    \* the chat messages its on_message was given and has stored
  todo,     \* the receivers its handler has still to visit
  at,       \* the receiver it has appended to and not called do_write of
  crashed,  \* what threw in a handler: nothing catches, the program ends
  said,     \* history: how many handlers have stored messages
  told,     \* history: the last of those whose messages each was sent
  shown     \* history: the messages each client's program has displayed

vars == <<sessions, buffer, clients, messages, pc, input, todo, at, crashed,
          said, told, shown>>

(* "introducing" and "speaking" are the two branches of on_message,        *)
(* "leaving" is on_close; "after" is on_read once on_message returned.     *)
Stages  == {"idle", "introducing", "speaking", "leaving", "after"}
Holding == {"introducing", "speaking", "leaving"}

(* unordered_map::at, and the parser's string::substr.                     *)
Crashes == {"no", "at", "substr"}

TypeOK ==
  /\ sessions \in [Clients -> Session]
  /\ buffer \in [Clients -> Text]
  /\ \A c \in Clients : sessions[c].output = Len(buffer[c])
  /\ clients \subseteq Clients
  /\ messages \in Seq([payload : Text, nickname : Text])
  /\ pc \in [Clients -> Stages]
  /\ input \in [Clients -> Text]
  /\ todo \in [Clients -> SUBSET Clients]
  /\ at \in [Clients -> SUBSET Clients]
  /\ crashed \in Crashes
  /\ said \in Nat
  /\ told \in [Clients -> Nat]
  /\ shown \in [Clients -> SUBSET [payload : Text, nickname : Text]]

Init ==
  /\ sessions = [c \in Clients |-> NewSession]
  /\ buffer = [c \in Clients |-> <<>>]
  /\ clients = {}
  /\ messages = <<>>
  /\ pc = [c \in Clients |-> "idle"]
  /\ input = [c \in Clients |-> <<>>]
  /\ todo = [c \in Clients |-> {}]
  /\ at = [c \in Clients |-> {}]
  /\ crashed = "no"
  /\ said = 0
  /\ told = [c \in Clients |-> 0]
  /\ shown = [c \in Clients |-> {}]
-----------------------------------------------------------------------------
Question   == <<"What is your name?">>
Hello(c)   == <<"Hello ">> \o NameOf[c]
Joined(c)  == Message(NameOf[c], <<"Input to chat room!">>)
Leaving(c) == Message(<<"is leaving">>, NameOf[c])

(* What the chat client (examples/ex4_chat_client) displays of one message *)
(* of the stream: the chat messages behind a greeting, if there is one.    *)
Displayed(c, text) ==
  LET chat == IF Substr(text, 0, Len(Hello(c))) = Hello(c)
              THEN From(text, Len(Hello(c))) ELSE text
      read == Parse(chat)
  IN  IF read.outcome = "ok" THEN Range(read.messages) ELSE {}

(* The session's part of putting text into its output buffer.              *)
Fill(s, text) == [s EXCEPT !.output = Len(text)]

(* What session c's step to s, with this text in its buffer, adds to what  *)
(* its client displays: the text, if the step handed it to the stream.     *)
Handed(c, s, text) ==
  IF s.ops["write"] > sessions[c].ops["write"] THEN Displayed(c, text) ELSE {}

Step(c, s) == sessions' = [sessions EXCEPT ![c] = s]

(* The thread that runs a handler; a session's strand runs one at a time.  *)
Busy == {c \in Clients : pc[c] # "idle"}

ThreadFree == crashed = "no" /\ Cardinality(Busy) < Threads

Starts(c) == ThreadFree /\ pc[c] = "idle"

(* Mutant: the handlers do not take the mutex.                             *)
NoLock(c) == TRUE

(* lock_guard: no other handler holds main_mutex.                          *)
Locks(c) == \A d \in Clients : pc[d] \notin Holding

(* getConnection()->stream().next_layer().is_open(): the socket is closed  *)
(* by the closing handshake once the outstanding read was told, and by     *)
(* nobody when the connection breaks.                                      *)
IsOpen(s) == s.status # "closed" \/ Outstanding(s, "read")

-----------------------------------------------------------------------------
(* The "/ws" route: upgrade_session and do_accept.                         *)
Upgrade(c) ==
  /\ ThreadFree
  /\ sessions[c].status = "http"
  /\ Step(c, DoAccept(sessions[c]))
  /\ UNCHANGED <<buffer, clients, messages, pc, input, todo, at, crashed, said, told, shown>>

Completes(c, k, ec) ==
  /\ Starts(c)
  /\ Outstanding(sessions[c], k)
  /\ ec \in Answers(sessions[c], k)

(* Mutant: on_accept sets the frame from a message that was never read.    *)
OnAcceptAutoFrame(c) ==
  /\ UNCHANGED <<clients, messages, pc, input, todo, at, crashed, said, told, shown>>
  /\ Completes(c, "handshake", "ok")
  /\ buffer' = [buffer EXCEPT ![c] = Question]
  /\ Step(c, WriteOrRead(AutoFrame(Fill(
       [Answer(sessions[c], "handshake", "ok") EXCEPT !.accepted = TRUE], Question))))

(* on_accept: the question is the first output.                            *)
OnAccept(c) ==
  /\ UNCHANGED <<clients, messages, pc, input, todo, at, crashed, said, told, shown>>
  /\ \/ /\ Completes(c, "handshake", "ok")
        /\ buffer' = [buffer EXCEPT ![c] = Question]
        /\ Step(c, WriteOrRead(Fill(
             [Answer(sessions[c], "handshake", "ok") EXCEPT !.accepted = TRUE], Question)))
     \/ /\ Completes(c, "handshake", "fail")
        /\ Step(c, Answer(sessions[c], "handshake", "fail"))
        /\ UNCHANGED buffer

(* on_read up to the call of on_message.                                   *)
Heard(c) ==
  [Answer(sessions[c], "read", "ok") EXCEPT !.readable = TRUE, !.got = "text", !.quiet = FALSE]

(* Put text into c's buffer, which tells it what the first n handlers      *)
(* stored.                                                                 *)
Put(c, text, n) ==
  /\ buffer' = [buffer EXCEPT ![c] = @ \o text]
  /\ told'   = [told EXCEPT ![c] = n]

(* "My name is ...": greet, store that c joined, send the whole history,   *)
(* and tell everybody who is on the list already, c among them if it has   *)
(* been here before.                                                       *)
Introduce(c) ==
  /\ messages' = Append(messages, Joined(c))
  /\ said' = said + 1
  /\ Put(c, Hello(c) \o Serialize(messages'), said')
  /\ Step(c, Fill(Heard(c), buffer'[c]))
  /\ todo' = [todo EXCEPT ![c] = clients]
  /\ clients' = clients \cup {c}
  /\ pc' = [pc EXCEPT ![c] = "introducing"]
  /\ UNCHANGED <<input, crashed>>

(* Anything else, from anybody, is parsed.  What was read of it is stored, *)
(* and the text as it came is given back to who sent it and told to        *)
(* everybody else on the list.  An invalid one is ignored; one that makes  *)
(* the parser throw ends the program.                                      *)
Speak(c, text) ==
  LET read == Parse(text)
  IN  /\ pc' = [pc EXCEPT ![c] = "speaking"]
      /\ UNCHANGED clients
      /\ \/ /\ read.outcome = "ok"
            /\ messages' = messages \o read.messages
            /\ said' = said + 1
            /\ Put(c, text, IF c \in clients THEN said' ELSE told[c])
            /\ Step(c, Fill(Heard(c), buffer'[c]))
            /\ input' = [input EXCEPT ![c] = text]
            /\ todo' = [todo EXCEPT ![c] = clients \ {c}]
            /\ UNCHANGED crashed
         \/ /\ read.outcome = "invalid"
            /\ Step(c, DoRead(Heard(c)))
            /\ UNCHANGED <<buffer, messages, input, todo, crashed, said, told>>
         \/ /\ read.outcome = "throws"
            /\ Step(c, Heard(c))
            /\ crashed' = "substr"
            /\ UNCHANGED <<buffer, messages, input, todo, said, told>>

OnRead(c) ==
  \/ /\ Completes(c, "read", "ok")
     /\ Locks(c)
     /\ Len(messages) < MaxMessages /\ sessions[c].ops["write"] < MaxWrites
     /\ \/ Introduce(c)
        \/ \E text \in Inputs : Speak(c, text)
     /\ UNCHANGED <<at, shown>>
  \/ \E ec \in {"closed", "fail"} :
       /\ Completes(c, "read", ec)
       /\ Step(c, Answer(sessions[c], "read", ec))
       /\ UNCHANGED <<buffer, clients, messages, pc, input, todo, at, crashed, said, told, shown>>

(* The peer's close frame, heard while a read is outstanding: on_close     *)
(* stores that c leaves and tells the others.  A client that is not on the *)
(* list makes clients.at throw.                                            *)
OnClose(c) ==
  /\ Starts(c)
  /\ Outstanding(sessions[c], "read")
  /\ sessions[c].status \in {"open", "closing"}
  /\ Locks(c)
  /\ Len(messages) < MaxMessages
  /\ Step(c, [sessions[c] EXCEPT !.status = "closed"])
  /\ IF c \in clients
     THEN /\ messages' = Append(messages, Leaving(c))
          /\ said' = said + 1
          /\ todo' = [todo EXCEPT ![c] = clients \ {c}]
          /\ pc' = [pc EXCEPT ![c] = "leaving"]
          /\ UNCHANGED crashed
     ELSE /\ crashed' = "at"
          /\ UNCHANGED <<messages, said, todo, pc>>
  /\ UNCHANGED <<buffer, clients, input, at, told, shown>>

(* What on_message and on_close tell the others: the chat messages as they *)
(* came, or the last one stored.                                           *)
News(c) == IF pc[c] = "speaking" THEN input[c] ELSE Serialize(<<messages[Len(messages)]>>)

(* Mutant: a receiver whose last write is still outstanding is left out.   *)
BroadcastToIdle(c, d) ==
  /\ crashed = "no" /\ pc[c] \in Holding /\ at[c] = {}
  /\ d \in todo[c]
  /\ todo' = [todo EXCEPT ![c] = @ \ {d}]
  /\ IF IsOpen(sessions[d]) /\ ~Outstanding(sessions[d], "write")
     THEN /\ Put(d, News(c), said)
          /\ Step(d, Fill(sessions[d], buffer'[d]))
          /\ at' = [at EXCEPT ![c] = {d}]
     ELSE UNCHANGED <<buffer, told, sessions, at>>
  /\ UNCHANGED <<clients, messages, pc, input, crashed, said, shown>>

(* One turn of the broadcast loop: append the news to the output of        *)
(* receiver d.  Only an introduction does not ask for an open socket.      *)
Broadcast(c, d) ==
  /\ crashed = "no" /\ pc[c] \in Holding /\ at[c] = {}
  /\ d \in todo[c]
  /\ todo' = [todo EXCEPT ![c] = @ \ {d}]
  /\ IF pc[c] = "introducing" \/ IsOpen(sessions[d])
     THEN /\ Put(d, News(c), said)
          /\ Step(d, Fill(sessions[d], buffer'[d]))
          /\ at' = [at EXCEPT ![c] = {d}]
     ELSE UNCHANGED <<buffer, told, sessions, at>>
  /\ UNCHANGED <<clients, messages, pc, input, crashed, said, shown>>

(* ... and its do_write, whatever that session is doing.                   *)
BroadcastWrite(c) ==
  /\ crashed = "no"
  /\ \E d \in at[c] :
       LET s == DoWrite(sessions[d])
       IN  /\ Step(d, s)
           /\ shown' = [shown EXCEPT ![d] = @ \cup Handed(d, s, buffer[d])]
  /\ at' = [at EXCEPT ![c] = {}]
  /\ UNCHANGED <<buffer, clients, messages, pc, input, todo, crashed, said, told>>

(* Everybody was told: on_message launches the timer, and the mutex is     *)
(* released.                                                               *)
Unlock(c) ==
  /\ crashed = "no" /\ pc[c] \in Holding /\ todo[c] = {} /\ at[c] = {}
  /\ IF pc[c] = "leaving"
     THEN pc' = [pc EXCEPT ![c] = "idle"] /\ UNCHANGED sessions
     ELSE /\ pc' = [pc EXCEPT ![c] = "after"]
          /\ Step(c, [sessions[c] EXCEPT !.on_timer_cb = "ping"])
  /\ input' = [input EXCEPT ![c] = <<>>]
  /\ UNCHANGED <<buffer, clients, messages, todo, at, crashed, said, told, shown>>

(* Mutant: on_read prefers the next read to what is in the buffer.         *)
ReadEndReadsFirst(c) ==
  /\ crashed = "no" /\ pc[c] = "after"
  /\ LET s == DoRead(AutoFrame(sessions[c]))
     IN  /\ Step(c, s)
         /\ shown' = [shown EXCEPT ![c] = @ \cup Handed(c, s, buffer[c])]
  /\ pc' = [pc EXCEPT ![c] = "idle"]
  /\ UNCHANGED <<buffer, clients, messages, input, todo, at, crashed, said, told>>

(* The rest of on_read.                                                    *)
ReadEnd(c) ==
  /\ crashed = "no" /\ pc[c] = "after"
  /\ LET s == WriteOrRead(AutoFrame(sessions[c]))
     IN  /\ Step(c, s)
         /\ shown' = [shown EXCEPT ![c] = @ \cup Handed(c, s, buffer[c])]
  /\ pc' = [pc EXCEPT ![c] = "idle"]
  /\ UNCHANGED <<buffer, clients, messages, input, todo, at, crashed, said, told>>

OnWrite(c) ==
  /\ UNCHANGED <<clients, messages, pc, input, todo, at, crashed, said, told, shown>>
  /\ \/ /\ Completes(c, "write", "ok")
        /\ Step(c, Written(Answer(sessions[c], "write", "ok")))
        /\ buffer' = [buffer EXCEPT ![c] = <<>>]
     \/ /\ Completes(c, "write", "fail")
        /\ Step(c, Answer(sessions[c], "write", "fail"))
        /\ UNCHANGED buffer

(* on_ping and on_close of the session: only the error is looked at.       *)
OnSent(c) ==
  /\ \E k \in {"ping", "close"}, ec \in {"ok", "fail"} :
       Completes(c, k, ec) /\ Step(c, Answer(sessions[c], k, ec))
  /\ UNCHANGED <<buffer, clients, messages, pc, input, todo, at, crashed, said, told, shown>>

(* A pong arrives while a read is outstanding: on_pong launches the timer. *)
OnPong(c) ==
  /\ Starts(c)
  /\ Outstanding(sessions[c], "read")
  /\ sessions[c].status = "open"
  /\ Step(c, [sessions[c] EXCEPT !.on_timer_cb = "ping", !.quiet = FALSE])
  /\ UNCHANGED <<buffer, clients, messages, pc, input, todo, at, crashed, said, told, shown>>

(* The operations timers have started and that are still outstanding.      *)
Timed ==
  MapThenSumSet(LAMBDA c : sessions[c].ops["ping"] + sessions[c].ops["close"], Clients)

(* Mutant: a client whose keep-alive closes it is taken off the list.      *)
OnTimerErases(c) ==
  /\ ThreadFree
  /\ sessions[c].on_timer_cb # "none" /\ Timed < MaxTimed
  /\ \/ Step(c, DoPing(sessions[c])) /\ UNCHANGED clients
     \/ Step(c, DoClose(sessions[c])) /\ clients' = clients \ {c}
  /\ UNCHANGED <<buffer, messages, pc, input, todo, at, crashed, said, told, shown>>

(* The timer of a session expires once it was launched: it pings, or it    *)
(* closes.  This is not a handler of the session's strand.                 *)
OnTimer(c) ==
  /\ ThreadFree
  /\ sessions[c].on_timer_cb # "none" /\ Timed < MaxTimed
  /\ Step(c, DoPing(sessions[c])) \/ Step(c, DoClose(sessions[c]))
  /\ UNCHANGED <<buffer, clients, messages, pc, input, todo, at, crashed, said, told, shown>>

NetworkFails(c) ==
  /\ crashed = "no"
  /\ sessions[c].status \in {"handshaking", "open", "closing"}
  /\ Step(c, [sessions[c] EXCEPT !.status = "failed"])
  /\ UNCHANGED <<buffer, clients, messages, pc, input, todo, at, crashed, said, told, shown>>

(* Nothing goes on once the program has ended or every stream is gone.     *)
Over(c) ==
  pc[c] = "idle" /\ sessions[c].status \in {"closed", "failed"} /\ NothingOutstanding(sessions[c])

Ended == (crashed # "no" \/ \A c \in Clients : Over(c)) /\ UNCHANGED vars

Next ==
  \/ \E c \in Clients :
       \/ Upgrade(c) \/ OnAccept(c) \/ OnRead(c) \/ OnClose(c)
       \/ \E d \in Clients : Broadcast(c, d)
       \/ BroadcastWrite(c) \/ Unlock(c) \/ ReadEnd(c)
       \/ OnWrite(c) \/ OnSent(c) \/ OnPong(c) \/ OnTimer(c) \/ NetworkFails(c)
  \/ Ended

Spec == Init /\ [][Next]_vars
-----------------------------------------------------------------------------
(* Safety.                                                                 *)

(* "Repeated asynchronous reading is impossible!": however many do_write   *)
(* calls of other sessions end in on_write, no session reads twice.        *)
ReadsAreSingle == \A c \in Clients : sessions[c].ops["read"] <= 1

(* An open session always waits for something, a message or the end of a   *)
(* write: broadcasts and ignored messages never leave it idle.             *)
OpenGoesOn ==
  \A c \in Clients :
    sessions[c].status = "open" /\ pc[c] = "idle"
      => sessions[c].ops["read"] + sessions[c].ops["write"] > 0

(* Nothing waits in the output buffer of an open session without a write   *)
(* whose end will empty it.                                                *)
NothingLeft ==
  \A c \in Clients :
    /\ sessions[c].status = "open" /\ pc[c] = "idle"
    /\ \A d \in Clients : c \notin at[d]
    /\ buffer[c] # <<>>
    => sessions[c].ops["write"] > 0

Connected(c) == sessions[c].status \in {"open", "closing"}

(* Whenever nobody holds the mutex, whatever was stored has been put into  *)
(* the buffer of everybody on the list who is connected.                   *)
EveryoneIsTold ==
  (\A c \in Clients : pc[c] \notin Holding) =>
    \A c \in clients : Connected(c) => told[c] = said

(* While it is connected, everybody on the list is sent what was stored    *)
(* handler by handler, in the order it was stored, without a gap.          *)
ToldInOrder ==
  [][\A c \in clients : Connected(c) => told'[c] \in {told[c], told[c] + 1}]_vars

(* "Serializing and send last messages to remote host": the history a new  *)
(* client is greeted with parses back to the messages stored.              *)
HistoryReadable ==
  LET text == Serialize(messages)
  IN  messages # <<>> =>
        Parse(text) = [outcome |-> "ok", messages |-> messages, used |-> Len(text)]

(* What a client that introduces itself is sent does, exactly if all that  *)
(* is stored has something in it and a name without a colon: neither       *)
(* serialize nor the server's handlers ask for either, whatever they store.*)
HistoryNeedsPlain ==
  LET plain(m) == m.payload # <<>> /\ ":" \notin Range(m.nickname)
  IN  (\E c \in Clients : pc[c] = "introducing") =>
        (HistoryReadable <=> \A i \in DOMAIN messages : plain(messages[i]))

(* "Received invalid chat message. Ignored": no text a client sends as a   *)
(* chat message ends the program.  This is not so (see the README): in     *)
(* MCChatServer_chatroom.cfg TLC refutes it with CutShort.                 *)
InvalidIsIgnored == crashed # "substr"

(* Who gave its name may leave: clients.at throws only when a client that  *)
(* never did closes its connection.                                        *)
NamedMayLeave ==
  crashed = "at" => \E c \in Clients : sessions[c].status = "closed" /\ told[c] = 0

(* "Broadcasting received messages": once its writes are done, a connected *)
(* client has displayed every message.                                     *)
NothingMissed ==
  \A c \in clients :
    /\ sessions[c].status = "open" /\ sessions[c].ops["write"] = 0
    /\ \A d \in Clients : pc[d] = "idle"
    => Range(messages) \subseteq shown[c]
=============================================================================
