------------------------------- MODULE Server -------------------------------
(***************************************************************************)
(* sc_app and sc_appd over their stream socket: main() of                  *)
(* src/src/sc_app.c, and the loop of main() of src/src/sc_appd.c with the  *)
(* send() that SC_PRINT and SC_ERR make of every message.                  *)
(*                                                                         *)
(* The daemon serves one connection after the other: accept, one recv, the *)
(* command, close.  Clients wait in the backlog of the socket.  What a     *)
(* command does is left out but for what the loop depends on: the messages *)
(* it sends, as the bytes that a stream is made of, and the file           *)
(* descriptors it needs and never gives back.                              *)
(***************************************************************************)
EXTENDS Naturals, Sequences, SequencesExt

CONSTANTS
  Clients,
  Commands,   \* the command lines that clients send
  Bytes,      \* what messages are made of
  Prefix,     \* "ERROR: ", with which SC_ERR begins its messages
  BufSize,    \* SOCKBUF_MAX, the most that sc_app receives in one call
  Output,     \* Output[c]: the messages of command c, one for each send()
  Failed,     \* the message of a command that has no descriptor left
  Opens,      \* Opens[c]: the descriptors it has open at the same time
  Leaks,      \* Leaks[c]: those that it does not close
  Empty,      \* what recv() gets from a client that ended without sending
  Backlog,    \* connections that wait while one is being served
  OwnFds,     \* descriptors of the daemon itself, the socket included
  MaxFds,     \* the limit of open descriptors
  MayDie      \* TRUE when processes may be killed and accept() may fail

ASSUME CommandsAssumption ==
  /\ Empty \in Commands
  /\ \A c \in Commands : /\ Output[c] \in Seq(Seq(Bytes))
                         /\ Opens[c] \in Nat /\ Leaks[c] \in 0 .. Opens[c]
ASSUME BytesAssumption ==
  /\ Prefix \in Seq(Bytes) /\ Prefix # <<>> /\ Failed \in Seq(Bytes)
  /\ BufSize \in Nat \ {0}
ASSUME LimitsAssumption ==
  /\ OwnFds \in Nat /\ MaxFds \in Nat /\ OwnFds < MaxFds
  /\ Backlog \in Nat \ {0} /\ MayDie \in BOOLEAN

-----------------------------------------------------------------------------

VARIABLES
  pc,       \* where the daemon is in its loop
  queue,    \* the connections waiting for accept()
  cur,      \* the client of Client_FD
  todo,     \* the messages the command has still to send
  used,     \* open descriptors of the daemon
  client,   \* client[k]: what the process is doing
  sent,     \* sent[k]: the command line of the client
  inbox,    \* inbox[k]: bytes in the socket
  conn,     \* conn[k]: "open", or how the daemon's end was closed
  status,   \* status[k]: Ret, and at the end the exit status
  ran,      \* history: ran[k] is TRUE when the daemon took the command
  said,     \* history: said[k] is all that the daemon has sent for k
  last,     \* history: last[k] is the last message of these
  got       \* history: got[k] is all that the client has received

daemon  == <<pc, cur, todo, used>>
process == <<client, sent, status, got>>
history == <<ran, said, last>>
vars    == <<daemon, process, queue, inbox, conn, history>>

Init ==
  /\ pc = "accept" /\ queue = <<>>
  /\ cur \in Clients /\ todo = <<>> /\ used = OwnFds
  /\ client = [k \in Clients |-> "none"]
  /\ sent = [k \in Clients |-> Empty]
  /\ inbox = [k \in Clients |-> <<>>]
  /\ conn = [k \in Clients |-> "open"]
  /\ status = [k \in Clients |-> "ok"]
  /\ ran = [k \in Clients |-> FALSE]
  /\ said = [k \in Clients |-> <<>>]
  /\ last = [k \in Clients |-> <<>>]
  /\ got = [k \in Clients |-> <<>>]

-----------------------------------------------------------------------------
(* sc_app.                                                                 *)

\* A new process connects; without a daemon it fails.
Connect(k, c) ==
  /\ client[k] = "none" /\ c # Empty
  /\ sent' = [sent EXCEPT ![k] = c]
  /\ inbox' = [inbox EXCEPT ![k] = <<>>]
  /\ conn' = [conn EXCEPT ![k] = "open"]
  /\ ran' = [ran EXCEPT ![k] = FALSE]
  /\ said' = [said EXCEPT ![k] = <<>>]
  /\ last' = [last EXCEPT ![k] = <<>>]
  /\ got' = [got EXCEPT ![k] = <<>>]
  /\ \/ /\ pc # "down" /\ Len(queue) <= Backlog
        /\ queue' = Append(queue, k)
        /\ client' = [client EXCEPT ![k] = "connected"]
        /\ status' = [status EXCEPT ![k] = "ok"]
     \/ /\ pc = "down" /\ UNCHANGED queue
        /\ client' = [client EXCEPT ![k] = "done"]
        /\ status' = [status EXCEPT ![k] = "error"]
  /\ UNCHANGED daemon

\* send() of the command line; without MSG_NOSIGNAL, a client whose
\* connection is gone is ended by the signal SIGPIPE.
Send(k) ==
  /\ client[k] = "connected"
  /\ \/ /\ conn[k] = "open" /\ UNCHANGED status
        /\ client' = [client EXCEPT ![k] = "waiting"]
     \/ /\ conn[k] # "open"
        /\ client' = [client EXCEPT ![k] = "done"]
        /\ status' = [status EXCEPT ![k] = "sigpipe"]
  /\ UNCHANGED <<daemon, queue, sent, inbox, conn, history, got>>

(***************************************************************************)
(* recv() returns the bytes that have arrived, or as many of them as fit   *)
(* into the buffer: where one message ends and the next begins is lost.    *)
(* strstr() looks for the prefix anywhere in this piece, and the exit      *)
(* status is that of the last piece.  A piece that fills the buffer leaves *)
(* no room for a terminating zero, and strstr() goes on behind it.         *)
(***************************************************************************)
Occurs(bytes) == Prefix \in SubSeqs(bytes)

Bug_Verdicts(piece) ==           \* wrong: only the beginning is looked at
  IF IsPrefix(Prefix, piece) THEN {"error"}
  ELSE IF Len(piece) < BufSize THEN {"ok"} ELSE {"ok", "error"}
Verdicts(piece) ==
  IF Occurs(piece) THEN {"error"}
  ELSE IF Len(piece) < BufSize THEN {"ok"} ELSE {"ok", "error"}

Received(bytes) == IF Len(bytes) < BufSize THEN Len(bytes) ELSE BufSize

Receive(k) ==
  /\ client[k] = "waiting" /\ inbox[k] # <<>>
  /\ LET n == Received(inbox[k])
         piece == SubSeq(inbox[k], 1, n) IN
     /\ inbox' = [inbox EXCEPT ![k] = SubSeq(@, n + 1, Len(@))]
     /\ \E s \in Verdicts(piece) : status' = [status EXCEPT ![k] = s]
     /\ got' = [got EXCEPT ![k] = @ \o piece]
  /\ UNCHANGED <<daemon, queue, client, sent, conn, history>>

\* recv() returns 0 and Ret stays as it is; or -1, after a reset.
Bug_EndOfInput(k) ==             \* wrong: a reset is taken for the end
  /\ client[k] = "waiting" /\ inbox[k] = <<>> /\ conn[k] # "open"
  /\ client' = [client EXCEPT ![k] = "done"]
  /\ UNCHANGED <<daemon, queue, sent, inbox, conn, status, history, got>>
EndOfInput(k) ==
  /\ client[k] = "waiting" /\ inbox[k] = <<>> /\ conn[k] # "open"
  /\ client' = [client EXCEPT ![k] = "done"]
  /\ status' = [status EXCEPT ![k] = IF conn[k] = "reset" THEN "error" ELSE @]
  /\ UNCHANGED <<daemon, queue, sent, inbox, conn, history, got>>

\* The user calls sc_app again.
Again(k) ==
  /\ \/ client[k] = "done"
     \/ client[k] = "killed" /\ conn[k] # "open"
  /\ client' = [client EXCEPT ![k] = "none"]
  /\ UNCHANGED <<daemon, queue, sent, inbox, conn, status, history, got>>

\* A client is killed; a command line that it has sent stays in the socket.
Kill(k) ==
  /\ MayDie /\ client[k] \in {"connected", "waiting"}
  /\ client' = [client EXCEPT ![k] = "killed"]
  /\ sent' = [sent EXCEPT ![k] = IF client[k] = "waiting" THEN @ ELSE Empty]
  /\ UNCHANGED <<daemon, queue, inbox, conn, status, history, got>>

-----------------------------------------------------------------------------
(* sc_appd.                                                                *)

\* accept() needs a descriptor; a failure, of any cause, ends the daemon.
Accept ==
  /\ pc = "accept" /\ queue # <<>> /\ used < MaxFds
  /\ cur' = Head(queue) /\ queue' = Tail(queue)
  /\ used' = used + 1
  /\ pc' = "recv"
  /\ UNCHANGED <<process, todo, inbox, conn, history>>

\* Its end closes every connection; one with unread data is reset.
HangUp ==
  /\ conn' = [k \in Clients |->
               IF k \in ToSet(queue) \/ (k = cur /\ pc = "recv") THEN "reset"
               ELSE IF k = cur /\ pc = "print" THEN "end" ELSE conn[k]]
  /\ queue' = <<>> /\ pc' = "down" /\ todo' = <<>>

AcceptFails ==
  /\ pc = "accept" /\ queue # <<>>
  /\ used >= MaxFds \/ MayDie
  /\ HangUp
  /\ UNCHANGED <<process, cur, used, inbox, history>>

(***************************************************************************)
(* The one recv() waits for the client.  Parse_Options, the constraints    *)
(* and the command itself come to what they print.  A command that cannot  *)
(* open what it needs prints an error, and has nothing to leak.            *)
(***************************************************************************)
Fits(c) == used + Opens[c] <= MaxFds
Messages(c) == IF Fits(c) THEN Output[c] ELSE <<Failed>>

Run ==
  /\ pc = "recv" /\ client[cur] \in {"waiting", "killed"}
  /\ todo' = Messages(sent[cur])
  /\ ran' = [ran EXCEPT ![cur] = TRUE]
  /\ used' = IF Fits(sent[cur]) THEN used + Leaks[sent[cur]] ELSE used
  /\ pc' = "print"
  /\ UNCHANGED <<process, queue, cur, inbox, conn, said, last>>

\* send() with MSG_NOSIGNAL: a client that is gone loses the message.
Bug_SendMessage ==               \* wrong: it goes to the newest client
  /\ pc = "print" /\ todo # <<>>
  /\ LET to == IF queue = <<>> THEN cur ELSE Last(queue) IN
     inbox' = [inbox EXCEPT ![to] = @ \o Head(todo)]
  /\ said' = [said EXCEPT ![cur] = @ \o Head(todo)]
  /\ last' = [last EXCEPT ![cur] = Head(todo)]
  /\ todo' = Tail(todo)
  /\ UNCHANGED <<process, pc, queue, cur, used, conn, ran>>
SendMessage ==
  /\ pc = "print" /\ todo # <<>>
  /\ inbox' = [inbox EXCEPT ![cur] =
                 IF client[cur] = "killed" THEN @ ELSE @ \o Head(todo)]
  /\ said' = [said EXCEPT ![cur] = @ \o Head(todo)]
  /\ last' = [last EXCEPT ![cur] = Head(todo)]
  /\ todo' = Tail(todo)
  /\ UNCHANGED <<process, pc, queue, cur, used, conn, ran>>

Bug_Close ==                     \* wrong: only after an answer is it closed
  /\ pc = "print" /\ todo = <<>> /\ pc' = "accept"
  /\ IF said[cur] = <<>> THEN UNCHANGED <<conn, used>>
       ELSE conn' = [conn EXCEPT ![cur] = "end"] /\ used' = used - 1
  /\ UNCHANGED <<process, queue, cur, todo, inbox, history>>
Close ==
  /\ pc = "print" /\ todo = <<>>
  /\ conn' = [conn EXCEPT ![cur] = "end"]
  /\ used' = used - 1
  /\ pc' = "accept"
  /\ UNCHANGED <<process, queue, cur, todo, inbox, history>>

\* The daemon is killed, with every connection it has or has queued.
Die ==
  /\ MayDie /\ pc # "down"
  /\ HangUp
  /\ UNCHANGED <<process, cur, used, inbox, history>>

\* It is started again: unlink(), bind().
Restart ==
  /\ pc = "down"
  /\ pc' = "accept" /\ used' = OwnFds
  /\ UNCHANGED <<process, queue, cur, todo, inbox, conn, history>>

Serve == Accept \/ AcceptFails \/ Run \/ SendMessage \/ Close
Proceed(k) == Send(k) \/ Receive(k) \/ EndOfInput(k)

Next ==
  \/ \E k \in Clients : \/ Again(k) \/ Kill(k)
                        \/ \E c \in Commands : Connect(k, c)
  \/ \E k \in Clients : Proceed(k)
  \/ Serve \/ Die \/ Restart

Spec == Init /\ [][Next]_vars

\* Processes that can run do run; nothing is said of kills and restarts.
FairSpec == Spec /\ WF_vars(Serve) /\ \A k \in Clients : WF_vars(Proceed(k))

-----------------------------------------------------------------------------
(* Properties.                                                             *)

TypeOK ==
  /\ pc \in {"accept", "recv", "print", "down"}
  /\ queue \in Seq(Clients) /\ Len(queue) <= Backlog + 1
  /\ cur \in Clients
  /\ todo \in Seq(Seq(Bytes))
  /\ used \in OwnFds .. MaxFds
  /\ client \in [Clients ->
                 {"none", "connected", "waiting", "done", "killed"}]
  /\ sent \in [Clients -> Commands]
  /\ inbox \in [Clients -> Seq(Bytes)]
  /\ conn \in [Clients -> {"open", "end", "reset"}]
  /\ status \in [Clients -> {"ok", "error", "sigpipe"}]
  /\ ran \in [Clients -> BOOLEAN]
  /\ said \in [Clients -> Seq(Bytes)]
  /\ last \in [Clients -> Seq(Bytes)]
  /\ got \in [Clients -> Seq(Bytes)]

(***************************************************************************)
(* The commands that leak descriptors (see the README) never make accept() *)
(* fail, and so never end the daemon: the descriptor of the connection is  *)
(* open while they run, and closed when the loop comes back to accept().   *)
(***************************************************************************)
AcceptSucceeds == pc = "accept" => used < MaxFds

(***************************************************************************)
(* What a client has received and what is on its way to it is what the     *)
(* daemon has sent for its command, every byte and in order, whoever else  *)
(* connects, waits, or is killed.                                          *)
(***************************************************************************)
OwnAnswer ==
  \A k \in Clients :
    client[k] \in {"connected", "waiting"} =>
      got[k] \o inbox[k] = said[k]

(***************************************************************************)
(* A client that ends with status 0 had its command taken by the daemon,   *)
(* even when the daemon was killed: what was still waiting is told.        *)
(***************************************************************************)
OkMeansTaken ==
  \A k \in Clients : client[k] = "done" /\ status[k] = "ok" => ran[k]

(***************************************************************************)
(* A client whose whole answer is shorter than the buffer ends with an     *)
(* error when the last message of the daemon is one, and with status 0     *)
(* when none is, however the messages came together in its pieces.  Of a   *)
(* longer answer it cannot be said: a piece may end within the prefix.     *)
(***************************************************************************)
ExitTells ==
  \A k \in Clients :
    client[k] = "done" /\ ran[k] /\ Len(said[k]) < BufSize =>
      /\ Occurs(last[k]) => status[k] = "error"
      /\ ~Occurs(said[k]) => status[k] = "ok"

(***************************************************************************)
(* Every client that has connected comes to an end, answered or told,      *)
(* whoever is before it in the backlog, even one that is killed before it  *)
(* has sent its command.                                                   *)
(***************************************************************************)
Answered ==
  \A k \in Clients :
    client[k] = "connected" ~> client[k] \in {"done", "killed"}

=============================================================================
