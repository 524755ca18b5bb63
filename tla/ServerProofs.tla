---------------------------- MODULE ServerProofs ----------------------------
(***************************************************************************)
(* Proofs about Server, for any clients, commands, backlog and limit of    *)
(* descriptors, and for kills of any process at any moment.                *)
(***************************************************************************)
EXTENDS Server, SequenceTheorems, TLAPS

(***************************************************************************)
(* While a connection is open, the descriptor of it is among those in use: *)
(* this is the one that a leaking command cannot take.                     *)
(***************************************************************************)
Counted == /\ pc = "accept" => used < MaxFds
           /\ pc \in {"recv", "print"} => OwnFds < used

\* A connection that the daemon still has to close.
Live(k) == conn[k] = "open" /\ client[k] \in {"connected", "waiting", "killed"}

\* Every client is in the backlog at most once, and not while it is served.
Waiting == /\ \A i \in 1 .. Len(queue) : Live(queue[i])
           /\ \A i, j \in 1 .. Len(queue) : queue[i] = queue[j] => i = j
Serving == pc \in {"recv", "print"} =>
             Live(cur) /\ \A i \in 1 .. Len(queue) : queue[i] # cur

\* Only a connection whose command was taken comes to a regular end.
Taken == /\ pc = "print" => ran[cur]
         /\ \A k \in Clients : conn[k] = "end" => ran[k]

IInv == TypeOK /\ Counted /\ Waiting /\ Serving /\ Taken /\ OkMeansTaken

-----------------------------------------------------------------------------
(* The backlog as a sequence.                                              *)

\* A new connection is the last of the backlog.
LEMMA Joined ==
  ASSUME NEW k \in Clients, queue \in Seq(Clients), queue' = Append(queue, k)
  PROVE  /\ queue' \in Seq(Clients) /\ Len(queue') = Len(queue) + 1
         /\ \A i \in 1 .. Len(queue) : queue'[i] = queue[i]
         /\ queue'[Len(queue) + 1] = k
OBVIOUS

\* The first connection leaves it, and the others move up.
LEMMA Left ==
  ASSUME queue \in Seq(Clients), queue # <<>>, queue' = Tail(queue)
  PROVE  /\ Head(queue) \in Clients /\ Head(queue) = queue[1]
         /\ queue' \in Seq(Clients) /\ Len(queue') = Len(queue) - 1
         /\ Len(queue) \in Nat \ {0}
         /\ \A i \in 1 .. Len(queue') : queue'[i] = queue[i + 1]
OBVIOUS

\* Who waits in the backlog is a client.
LEMMA Members ==
  ASSUME queue \in Seq(Clients)
  PROVE  \A i \in 1 .. Len(queue) : queue[i] \in Clients
OBVIOUS

-----------------------------------------------------------------------------
(* One lemma per action.                                                   *)

\* A client connects, to the end of the backlog or in vain.
LEMMA ConnectIInv ==
  ASSUME IInv, NEW k \in Clients, NEW c \in Commands, Connect(k, c)
  PROVE  IInv'
<1> USE DEF IInv
<1>1. queue \in Seq(Clients)
  BY DEF TypeOK
<1>2. \A i \in 1 .. Len(queue) : queue[i] \in Clients /\ queue[i] # k
  <2>1. client[k] = "none"
    BY DEF Connect
  <2> QED BY <1>1, <2>1, Members DEF Waiting, Live
<1>3. /\ client[k] = "none" /\ pc' = pc /\ cur' = cur
      /\ used' = used /\ todo' = todo
      /\ conn' = [conn EXCEPT ![k] = "open"]
      /\ ran' = [ran EXCEPT ![k] = FALSE]
      /\ \E s \in {"connected", "done"} : client' = [client EXCEPT ![k] = s]
      /\ \E s \in {"ok", "error", "sigpipe"} :
           status' = [status EXCEPT ![k] = s]
  BY DEF Connect, daemon
<1>4. Counted'
  BY <1>3 DEF Counted
<1>5. Taken' /\ OkMeansTaken'
  BY <1>3 DEF Connect, Taken, OkMeansTaken, TypeOK, Serving, Live
<1>6. \A j \in Clients \ {k} : conn'[j] = conn[j] /\ client'[j] = client[j]
  BY <1>3 DEF TypeOK
<1>7. \A i \in 1 .. Len(queue) :
        conn'[queue[i]] = "open"
        /\ client'[queue[i]] \in {"connected", "waiting", "killed"}
  BY <1>2, <1>6 DEF Waiting, Live
<1>8. pc \in {"recv", "print"} => cur # k /\ Live(cur)'
  BY <1>3, <1>6 DEF Serving, Live, TypeOK
<1>9. CASE /\ pc # "down" /\ Len(queue) <= Backlog /\ queue' = Append(queue, k)
           /\ client' = [client EXCEPT ![k] = "connected"]
  <2>1. /\ queue' \in Seq(Clients) /\ Len(queue') = Len(queue) + 1
        /\ \A i \in 1 .. Len(queue) : queue'[i] = queue[i]
        /\ queue'[Len(queue) + 1] = k
    BY <1>1, <1>9, Joined
  <2>2. conn'[k] = "open" /\ client'[k] = "connected"
    BY <1>3, <1>9 DEF TypeOK
  <2>3. \A i \in 1 .. Len(queue') : i \in 1 .. Len(queue) \/ i = Len(queue) + 1
    BY <1>1, <2>1
  <2>4. \A i \in 1 .. Len(queue') : Live(queue[i])'
    BY <1>7, <2>1, <2>2, <2>3 DEF Live
  <2>5. \A i, j \in 1 .. Len(queue') : queue'[i] = queue'[j] => i = j
    BY <1>2, <2>1, <2>3 DEF Waiting
  <2>6. Serving'
    <3>1. ASSUME pc \in {"recv", "print"}, NEW i \in 1 .. Len(queue')
          PROVE  queue'[i] # cur
      BY <1>8, <2>1, <2>3, <3>1 DEF Serving
    <3> QED BY <1>3, <1>8, <3>1 DEF Serving, Live
  <2>7. TypeOK'
    BY <1>1, <1>3, <1>9, <2>1, LimitsAssumption DEF TypeOK, Connect
  <2> QED BY <1>4, <1>5, <2>4, <2>5, <2>6, <2>7 DEF Waiting
<1>10. CASE UNCHANGED queue /\ client' = [client EXCEPT ![k] = "done"]
  <2>1. Waiting'
    BY <1>7, <1>10 DEF Waiting, Live
  <2>2. Serving'
    BY <1>3, <1>10, <1>8 DEF Serving, Live
  <2>3. TypeOK'
    BY <1>1, <1>3, <1>10 DEF TypeOK, Connect
  <2> QED BY <1>4, <1>5, <2>1, <2>2, <2>3
<1> QED BY <1>9, <1>10 DEF Connect

(***************************************************************************)
(* The steps of a client that has connected leave the daemon and the       *)
(* backlog alone; it ends only when it has no connection left.             *)
(***************************************************************************)
LEMMA ClientIInv ==
  ASSUME IInv, NEW k \in Clients, UNCHANGED <<daemon, queue, conn, ran>>,
         client[k] # "none",
         \E s \in {"connected", "waiting", "killed", "done", "none"} :
           /\ client' = [client EXCEPT ![k] = s]
           /\ s \in {"done", "none"} => ~Live(k),
         client'[k] = "done" /\ status'[k] = "ok" => ran[k],
         \A j \in Clients \ {k} : status'[j] = status[j],
         TypeOK'
  PROVE  IInv'
<1> USE DEF IInv, daemon
<1>1. \A j \in Clients : Live(j) => Live(j)'
  BY DEF Live, TypeOK
<1>2. \A i \in 1 .. Len(queue) : queue[i] \in Clients
  BY Members DEF TypeOK
<1>3. Waiting'
  BY <1>1, <1>2 DEF Waiting
<1>4. Serving'
  BY <1>1 DEF Serving, TypeOK
<1>5. Counted' /\ Taken'
  BY DEF Counted, Taken
<1>6. OkMeansTaken'
  BY DEF OkMeansTaken, TypeOK
<1> QED BY <1>3, <1>4, <1>5, <1>6

\* The command line is sent, or the connection is already closed.
LEMMA SendIInv ==
  ASSUME IInv, NEW k \in Clients, Send(k)
  PROVE  IInv'
<1>1. TypeOK'
  BY DEF IInv, TypeOK, Send, daemon, history
<1>2. CASE conn[k] = "open" /\ client' = [client EXCEPT ![k] = "waiting"]
  <2>1. client'[k] # "done"
    BY <1>2 DEF IInv, TypeOK
  <2> QED BY <1>1, <1>2, <2>1, ClientIInv DEF Send, history
<1>3. CASE /\ ~Live(k) /\ client' = [client EXCEPT ![k] = "done"]
           /\ status' = [status EXCEPT ![k] = "sigpipe"]
  <2>1. status'[k] # "ok" /\ \A j \in Clients \ {k} : status'[j] = status[j]
    BY <1>3 DEF IInv, TypeOK
  <2> QED BY <1>1, <1>3, <2>1, ClientIInv DEF Send, history
<1> QED BY <1>2, <1>3 DEF Send, Live

\* There is a piece to be received, of what has arrived.
LEMMA Piece ==
  ASSUME IInv, NEW k \in Clients, Receive(k)
  PROVE  \E n \in Nat, p \in Seq(Bytes), r \in Seq(Bytes),
          s \in {"ok", "error"} :
           /\ n \in 1 .. Len(inbox[k]) /\ n = Received(inbox[k])
           /\ p = SubSeq(inbox[k], 1, n)
           /\ r = SubSeq(inbox[k], n + 1, Len(inbox[k]))
           /\ s \in Verdicts(p)
           /\ inbox' = [inbox EXCEPT ![k] = r]
           /\ status' = [status EXCEPT ![k] = s]
           /\ got' = [got EXCEPT ![k] = @ \o p]
<1>1. PICK i \in Seq(Bytes) : i = inbox[k]
  BY DEF IInv, TypeOK
<1>2. i # <<>> /\ Len(i) \in Nat \ {0}
  BY <1>1, EmptySeq DEF Receive
<1>3. PICK n \in Nat : n = Received(i)
  BY <1>2, BytesAssumption DEF Received
<1>4. n \in 1 .. Len(i)
  BY <1>2, <1>3, BytesAssumption DEF Received
<1>5. \A j \in 1 .. Len(i) : i[j] \in Bytes
  BY ElementOfSeq
<1>6. SubSeq(i, 1, n) \in Seq(Bytes) /\ SubSeq(i, n + 1, Len(i)) \in Seq(Bytes)
  BY <1>2, <1>4, <1>5, SubSeqProperties
<1>7. PICK p \in Seq(Bytes), r \in Seq(Bytes) :
        p = SubSeq(i, 1, n) /\ r = SubSeq(i, n + 1, Len(i))
  BY <1>6
<1>8. PICK s \in {"ok", "error"} :
        s \in Verdicts(p) /\ status' = [status EXCEPT ![k] = s]
  BY <1>1, <1>3, <1>7 DEF Receive, Verdicts
<1>9. /\ inbox' = [inbox EXCEPT ![k] = r]
      /\ got' = [got EXCEPT ![k] = @ \o p]
  BY <1>1, <1>3, <1>7 DEF Receive
<1> QED BY <1>1, <1>3, <1>4, <1>7, <1>8, <1>9

\* A piece is received.
LEMMA ReceiveIInv ==
  ASSUME IInv, NEW k \in Clients, Receive(k)
  PROVE  IInv'
<1>1. PICK p \in Seq(Bytes), r \in Seq(Bytes), s \in {"ok", "error"} :
        /\ s \in Verdicts(p)
        /\ inbox' = [inbox EXCEPT ![k] = r]
        /\ status' = [status EXCEPT ![k] = s]
        /\ got' = [got EXCEPT ![k] = @ \o p]
  BY Piece
<1>2. PICK g \in Seq(Bytes) : g = got[k] \o p
  BY ConcatProperties DEF IInv, TypeOK
<1>3. got' = [got EXCEPT ![k] = g]
  BY <1>1, <1>2 DEF IInv, TypeOK
<1>4. UNCHANGED <<daemon, queue, client, sent, conn, history>>
  BY DEF Receive
<1>5. TypeOK'
  BY <1>1, <1>3, <1>4 DEF IInv, TypeOK, daemon, history
<1>6. \A j \in Clients \ {k} : status'[j] = status[j]
  BY <1>1 DEF IInv, TypeOK
<1>7. client[k] = "waiting" /\ client' = [client EXCEPT ![k] = "waiting"]
  BY DEF IInv, TypeOK, Receive
<1>8. client'[k] # "done"
  BY <1>7 DEF IInv, TypeOK
<1> QED BY <1>5, <1>6, <1>7, <1>8, ClientIInv DEF Receive, history

\* The end of the connection ends the client.
LEMMA EndIInv ==
  ASSUME IInv, NEW k \in Clients, EndOfInput(k)
  PROVE  IInv'
<1>1. TypeOK'
  BY DEF IInv, TypeOK, EndOfInput, daemon, history
<1>2. client'[k] = "done" /\ status'[k] = "ok" => ran[k]
  BY DEF IInv, TypeOK, EndOfInput, Taken
<1> QED BY <1>1, <1>2, ClientIInv DEF IInv, TypeOK, EndOfInput, history, Live

\* Clients are called again, and killed.
LEMMA AgainIInv ==
  ASSUME IInv, NEW k \in Clients, Again(k) \/ Kill(k)
  PROVE  IInv'
<1>1. CASE Again(k)
  <2>1. client[k] # "none" /\ ~Live(k)
    BY <1>1 DEF Again, Live
  <2>2. TypeOK'
    BY <1>1 DEF IInv, TypeOK, Again, daemon, history
  <2> QED
    BY <1>1, <2>1, <2>2, ClientIInv DEF IInv, TypeOK, Again, history
<1>2. CASE Kill(k)
  <2>1. TypeOK'
    BY <1>2, CommandsAssumption DEF IInv, TypeOK, Kill, daemon, history
  <2> QED
    BY <1>2, <2>1, ClientIInv DEF IInv, TypeOK, Kill, history
<1> QED BY <1>1, <1>2

\* The oldest connection of the backlog is taken, for one descriptor.
LEMMA AcceptIInv ==
  ASSUME IInv, Accept
  PROVE  IInv'
<1> USE DEF IInv, Accept, process, history
<1>1. queue \in Seq(Clients) /\ queue # <<>> /\ queue' = Tail(queue)
  BY DEF TypeOK
<1>2. /\ cur' \in Clients /\ cur' = queue[1]
      /\ queue' \in Seq(Clients) /\ Len(queue') = Len(queue) - 1
      /\ Len(queue) \in Nat \ {0}
      /\ \A i \in 1 .. Len(queue') : queue'[i] = queue[i + 1]
  BY <1>1, Left
<1>3. \A i \in 1 .. Len(queue') : i + 1 \in 1 .. Len(queue) /\ i + 1 # 1
  BY <1>2
<1>4. TypeOK'
  <2>1. used' \in OwnFds .. MaxFds
    BY LimitsAssumption DEF TypeOK
  <2>2. Len(queue') <= Backlog + 1
    BY <1>2, LimitsAssumption DEF TypeOK
  <2> QED BY <1>2, <2>1, <2>2 DEF TypeOK
<1>5. Counted' /\ Taken'
  BY LimitsAssumption DEF Counted, Taken, TypeOK
<1>6. \A i \in 1 .. Len(queue') : Live(queue[i])'
  BY <1>2, <1>3 DEF Waiting, Live
<1>7. \A i, j \in 1 .. Len(queue') : queue'[i] = queue'[j] => i = j
  <2> SUFFICES ASSUME NEW i \in 1 .. Len(queue'), NEW j \in 1 .. Len(queue'),
                      queue'[i] = queue'[j]
               PROVE  i = j
    OBVIOUS
  <2>1. i + 1 = j + 1
    BY <1>2, <1>3 DEF Waiting
  <2> QED BY <2>1
<1>8. 1 \in 1 .. Len(queue)
  BY <1>2
<1>9. \A i \in 1 .. Len(queue') : queue'[i] # cur'
  BY <1>2, <1>3, <1>8 DEF Waiting
<1>10. Live(cur)'
  BY <1>2, <1>8 DEF Waiting, Live
<1>11. Serving'
  BY <1>9, <1>10 DEF Serving
<1>12. OkMeansTaken'
  BY DEF OkMeansTaken
<1> QED BY <1>4, <1>5, <1>6, <1>7, <1>11, <1>12 DEF Waiting

\* The end of the daemon closes what it has and what it has queued.
LEMMA HangUpIInv ==
  ASSUME IInv, HangUp, UNCHANGED <<process, cur, used, inbox, history>>
  PROVE  IInv'
<1> USE DEF IInv, HangUp, process, history
<1>1. TypeOK'
  BY LimitsAssumption DEF TypeOK
<1>2. Counted' /\ Waiting' /\ Serving'
  BY DEF Counted, Waiting, Serving
<1>3. Taken'
  BY DEF Taken, TypeOK
<1>4. OkMeansTaken'
  BY DEF OkMeansTaken
<1> QED BY <1>1, <1>2, <1>3, <1>4

\* A command may leak what it has opened, but there was room for it.
LEMMA RunIInv ==
  ASSUME IInv, Run
  PROVE  IInv'
<1> USE DEF IInv, Run, process
<1>1. cur \in Clients /\ sent[cur] \in Commands
  BY DEF TypeOK
<1>2. Messages(sent[cur]) \in Seq(Seq(Bytes))
  <2>1. Output[sent[cur]] \in Seq(Seq(Bytes))
    BY <1>1, CommandsAssumption
  <2>2. <<Failed>> \in Seq(Seq(Bytes))
    BY BytesAssumption
  <2> QED BY <2>1, <2>2 DEF Messages
<1>3. used' \in OwnFds .. MaxFds /\ used <= used'
  <2>1. PICK o \in Nat : o = Opens[sent[cur]]
    BY <1>1, CommandsAssumption
  <2>2. PICK l \in 0 .. o : l = Leaks[sent[cur]]
    BY <1>1, <2>1, CommandsAssumption
  <2>3. used' = IF used + o <= MaxFds THEN used + l ELSE used
    BY <2>1, <2>2 DEF Fits
  <2> QED BY <2>3, LimitsAssumption DEF TypeOK
<1>4. TypeOK'
  BY <1>1, <1>2, <1>3 DEF TypeOK
<1>5. Counted'
  BY <1>3, LimitsAssumption DEF Counted, TypeOK
<1>6. Waiting' /\ Serving'
  BY DEF Waiting, Serving, Live
<1>7. Taken' /\ OkMeansTaken'
  BY <1>1 DEF Taken, OkMeansTaken, TypeOK
<1> QED BY <1>4, <1>5, <1>6, <1>7

\* What a message adds to the socket and to what was said.
LEMMA Message ==
  ASSUME IInv, SendMessage
  PROVE  \E m \in Seq(Bytes), i \in Seq(Bytes), t \in Seq(Bytes) :
           /\ cur \in Clients /\ todo' \in Seq(Seq(Bytes))
           /\ i = inbox[cur] \o m /\ t = said[cur] \o m
           /\ inbox' = [inbox EXCEPT
                          ![cur] = IF client[cur] = "killed" THEN @ ELSE i]
           /\ said' = [said EXCEPT ![cur] = t]
           /\ last' = [last EXCEPT ![cur] = m]
<1>1. todo \in Seq(Seq(Bytes)) /\ todo # <<>> /\ cur \in Clients
  BY DEF IInv, TypeOK, SendMessage
<1>2. PICK m \in Seq(Bytes) : m = Head(todo)
  BY <1>1, HeadTailProperties
<1>3. Tail(todo) \in Seq(Seq(Bytes))
  BY <1>1, HeadTailProperties
<1>4. PICK b \in Seq(Bytes), d \in Seq(Bytes) : b = inbox[cur] /\ d = said[cur]
  BY <1>1 DEF IInv, TypeOK
<1>5. PICK i \in Seq(Bytes), t \in Seq(Bytes) : i = b \o m /\ t = d \o m
  BY ConcatProperties
<1> QED BY <1>1, <1>2, <1>3, <1>4, <1>5 DEF SendMessage

\* A message goes to the client that is served.
LEMMA SendMessageIInv ==
  ASSUME IInv, SendMessage
  PROVE  IInv'
<1> USE DEF IInv, SendMessage, process
<1>1. PICK m \in Seq(Bytes), i \in Seq(Bytes), t \in Seq(Bytes) :
        /\ cur \in Clients /\ todo' \in Seq(Seq(Bytes))
        /\ inbox' = [inbox EXCEPT
                       ![cur] = IF client[cur] = "killed" THEN @ ELSE i]
        /\ said' = [said EXCEPT ![cur] = t]
        /\ last' = [last EXCEPT ![cur] = m]
  BY Message
<1>2. /\ inbox' \in [Clients -> Seq(Bytes)]
      /\ said' \in [Clients -> Seq(Bytes)]
      /\ last' \in [Clients -> Seq(Bytes)]
  BY <1>1 DEF TypeOK
<1>3. TypeOK'
  BY <1>1, <1>2 DEF TypeOK
<1>4. Counted' /\ Waiting' /\ Serving' /\ Taken' /\ OkMeansTaken'
  BY DEF Counted, Waiting, Serving, Live, Taken, OkMeansTaken
<1> QED BY <1>3, <1>4

\* The connection is closed, and its descriptor is free again.
LEMMA CloseIInv ==
  ASSUME IInv, Close
  PROVE  IInv'
<1> USE DEF IInv, Close, process, history
<1>1. TypeOK'
  BY LimitsAssumption DEF TypeOK, Counted
<1>2. Counted'
  BY LimitsAssumption DEF TypeOK, Counted
<1>3. \A i \in 1 .. Len(queue) : queue[i] \in Clients \ {cur}
  BY Members DEF Serving, TypeOK
<1>4. \A k \in Clients \ {cur} : Live(k) => Live(k)'
  BY DEF Live, TypeOK
<1>5. Waiting' /\ Serving'
  BY <1>3, <1>4 DEF Waiting, Serving
<1>6. Taken' /\ OkMeansTaken'
  BY DEF Taken, OkMeansTaken, TypeOK
<1> QED BY <1>1, <1>2, <1>5, <1>6

\* A daemon that is started again has its own descriptors only.
LEMMA RestartIInv ==
  ASSUME IInv, Restart
  PROVE  IInv'
BY LimitsAssumption
DEF IInv, Restart, process, history, TypeOK, Counted, Waiting, Serving, Live,
    Taken, OkMeansTaken

\* A state that does not change keeps the invariant.
LEMMA StutterIInv ==
  ASSUME IInv, UNCHANGED vars
  PROVE  IInv'
BY DEF IInv, vars, daemon, process, history, TypeOK, Counted, Waiting, Serving,
   Live, Taken, OkMeansTaken

-----------------------------------------------------------------------------

\* The invariant holds whoever connects, is killed or is started again.
THEOREM Inductive == Spec => []IInv
<1>1. Init => IInv
  BY CommandsAssumption, LimitsAssumption
  DEF Init, IInv, TypeOK, Counted, Waiting, Serving, Taken, OkMeansTaken
<1>2. IInv /\ [Next]_vars => IInv'
  <2> SUFFICES ASSUME IInv, [Next]_vars PROVE IInv'
    OBVIOUS
  <2>1. CASE \E k \in Clients, c \in Commands : Connect(k, c)
    BY <2>1, ConnectIInv
  <2>2. CASE \E k \in Clients : Again(k) \/ Kill(k)
    BY <2>2, AgainIInv
  <2>3. CASE \E k \in Clients : Proceed(k)
    BY <2>3, SendIInv, ReceiveIInv, EndIInv DEF Proceed
  <2>4. CASE Accept
    BY <2>4, AcceptIInv
  <2>5. CASE AcceptFails \/ Die
    BY <2>5, HangUpIInv DEF AcceptFails, Die
  <2>6. CASE Run
    BY <2>6, RunIInv
  <2>7. CASE SendMessage
    BY <2>7, SendMessageIInv
  <2>8. CASE Close
    BY <2>8, CloseIInv
  <2>9. CASE Restart
    BY <2>9, RestartIInv
  <2>10. CASE UNCHANGED vars
    BY <2>10, StutterIInv
  <2> QED
    BY <2>1, <2>2, <2>3, <2>4, <2>5, <2>6, <2>7, <2>8, <2>9, <2>10
    DEF Next, Serve
<1> QED BY <1>1, <1>2, PTL DEF Spec

\* Connections, messages and processes keep their types.
THEOREM TypeCorrect == Spec => []TypeOK
<1>1. IInv => TypeOK
  BY DEF IInv
<1> QED BY <1>1, Inductive, PTL

(***************************************************************************)
(* Whatever the commands leak and whatever the limit is, the loop comes    *)
(* back to accept() with a descriptor to spare.                            *)
(***************************************************************************)
THEOREM DescriptorToSpare == Spec => []AcceptSucceeds
<1>1. IInv => AcceptSucceeds
  BY DEF IInv, Counted, AcceptSucceeds
<1> QED BY <1>1, Inductive, PTL

(***************************************************************************)
(* A client that exits with status 0 was served: for any number of         *)
(* clients, a daemon that is killed, or started again, never passes for a  *)
(* success.                                                                *)
(***************************************************************************)
THEOREM SuccessIsServed == Spec => []OkMeansTaken
<1>1. IInv => OkMeansTaken
  BY DEF IInv
<1> QED BY <1>1, Inductive, PTL

-----------------------------------------------------------------------------
(* What a client receives.                                                 *)

\* The daemon is at the command of client k.
Printing(k) == pc = "print" /\ cur = k

\* Nothing was taken, sent or received for the client yet.
Untouched(k) ==
  /\ ~ran[k] /\ got[k] = <<>> /\ inbox[k] = <<>>
  /\ said[k] = <<>> /\ last[k] = <<>>

\* A connection is untouched until its command is taken, and is only reset
\* before that.
Fresh(k) ==
  /\ Live(k) /\ ~Printing(k) => Untouched(k)
  /\ client[k] = "connected" => Untouched(k) /\ ~Printing(k)
  /\ conn[k] = "reset" => ~ran[k]

\* The whole answer has room in the buffer: no piece of it is cut.
Short(k) == Len(said[k]) < BufSize

\* The last message is still to be received, with what came before it and was
\* not received either; or it was received, in the last piece.
Ahead(k) == \E f \in Seq(Bytes) : inbox[k] = f \o last[k]
Heard(k) ==
  /\ Ahead(k) \/ (inbox[k] = <<>> /\ (Occurs(last[k]) => status[k] = "error"))
  /\ ~Occurs(said[k]) => status[k] = "ok"

\* What was received and what is on its way is what was sent.
Receiving(k) ==
  client[k] \in {"connected", "waiting"} =>
    /\ got[k] \o inbox[k] = said[k]
    /\ Short(k) => Heard(k)

\* A client that has ended was told by its status what it was told in words.
Ended(k) ==
  client[k] = "done" /\ ran[k] /\ Short(k) =>
    /\ Occurs(last[k]) => status[k] = "error"
    /\ ~Occurs(said[k]) => status[k] = "ok"

Served(k) == Fresh(k) /\ Receiving(k) /\ Ended(k)
AnswerInv == \A k \in Clients : Served(k)

\* Concatenation under a name of its own, which keeps it whole in a proof.
Cat(a, b) == a \o b

\* Where a sequence is cut into two does not matter.
LEMMA Cut ==
  ASSUME NEW S, NEW g \in Seq(S), NEW a \in Seq(S), NEW b \in Seq(S)
  PROVE  Cat(Cat(g, a), b) = Cat(g, Cat(a, b))
BY ConcatAssociative DEF Cat

\* Receiving moves the front of what has arrived to what was received.
LEMMA Moves ==
  ASSUME NEW S, NEW g \in Seq(S), NEW i \in Seq(S), NEW n \in 1 .. Len(i)
  PROVE  (g \o SubSeq(i, 1, n)) \o SubSeq(i, n + 1, Len(i)) = g \o i
<1>1. Len(i) \in Nat
  BY LenProperties
<1>2. \A j \in 1 .. Len(i) : i[j] \in S
  BY ElementOfSeq
<1>3. SubSeq(i, 1, n) \in Seq(S) /\ SubSeq(i, n + 1, Len(i)) \in Seq(S)
  BY <1>1, <1>2, SubSeqProperties
<1>4. 1 \in 1 .. Len(i) + 1 /\ n \in 1 - 1 .. Len(i)
      /\ Len(i) \in n .. Len(i)
  BY <1>1
<1>5. SubSeq(i, 1, n) \o SubSeq(i, n + 1, Len(i)) = SubSeq(i, 1, Len(i))
  BY <1>4, ConcatAdjacentSubSeq
<1>6. SubSeq(i, 1, Len(i)) = i
  BY SubSeqFull
<1>7. PICK a \in Seq(S), b \in Seq(S) :
        a = SubSeq(i, 1, n) /\ b = SubSeq(i, n + 1, Len(i)) /\ a \o b = i
  BY <1>3, <1>5, <1>6
<1>8. Cat(Cat(g, a), b) = Cat(g, Cat(a, b))
  BY Cut
<1> QED BY <1>7, <1>8 DEF Cat

\* A place where the prefix is.
LEMMA Found ==
  ASSUME NEW q, NEW u \in 0 .. Len(q), NEW v \in 0 .. Len(q),
         Prefix = SubSeq(q, u + 1, v)
  PROVE  Occurs(q)
BY DEF Occurs, SubSeqs

\* What occurs at the end of a sequence occurs in it.
LEMMA OccursAtEnd ==
  ASSUME NEW g \in Seq(Bytes), NEW p \in Seq(Bytes), Occurs(p)
  PROVE  Occurs(g \o p)
<1>1. PICK i \in 0 .. Len(p), j \in 0 .. Len(p) : Prefix = SubSeq(p, i + 1, j)
  BY DEF Occurs, SubSeqs
<1>2. PICK m \in Nat, n \in Nat : m = Len(g) /\ n = Len(p)
  BY LenProperties
<1>3. i + 1 <= j
  BY <1>1, <1>2, SubSeqEmpty, BytesAssumption
<1>4. /\ m + i \in 0 .. m + n /\ m + j \in 0 .. m + n
      /\ m + i + 1 \in m + 1 .. m + n /\ m + j \in m + 1 .. m + n
      /\ m + i + 1 - m = i + 1 /\ m + j - m = j
  BY <1>1, <1>2, <1>3
<1>5. SubSeq(g \o p, m + i + 1, m + j) = SubSeq(p, i + 1, j)
  BY <1>2, <1>4, SubSeqOfConcat2
<1>6. Len(g \o p) = m + n
  BY <1>2, ConcatProperties
<1>7. PICK q : q = g \o p
  OBVIOUS
<1>8. PICK u \in Nat, v \in Nat : u = m + i /\ v = m + j
  BY <1>1, <1>2
<1>9. /\ u \in 0 .. Len(q) /\ v \in 0 .. Len(q)
      /\ Prefix = SubSeq(q, u + 1, v)
  BY <1>1, <1>4, <1>5, <1>6, <1>7, <1>8
<1> QED BY <1>7, <1>9, Found

\* What occurs at the beginning of a sequence occurs in it.
LEMMA OccursBefore ==
  ASSUME NEW p \in Seq(Bytes), NEW r \in Seq(Bytes), Occurs(p)
  PROVE  Occurs(p \o r)
<1>1. PICK i \in 0 .. Len(p), j \in 0 .. Len(p) : Prefix = SubSeq(p, i + 1, j)
  BY DEF Occurs, SubSeqs
<1>2. PICK m \in Nat, n \in Nat : m = Len(p) /\ n = Len(r)
  BY LenProperties
<1>3. i + 1 <= j
  BY <1>1, <1>2, SubSeqEmpty, BytesAssumption
<1>4. /\ i \in 0 .. m + n /\ j \in 0 .. m + n
      /\ i + 1 \in 1 .. m /\ j \in 1 .. m
  BY <1>1, <1>2, <1>3
<1>5. SubSeq(p \o r, i + 1, j) = SubSeq(p, i + 1, j)
  BY <1>2, <1>4, SubSeqOfConcat1
<1>6. Len(p \o r) = m + n
  BY <1>2, ConcatProperties
<1>7. PICK q : q = p \o r
  OBVIOUS
<1>8. /\ i \in 0 .. Len(q) /\ j \in 0 .. Len(q)
      /\ Prefix = SubSeq(q, i + 1, j)
  BY <1>1, <1>4, <1>5, <1>6, <1>7
<1> QED BY <1>7, <1>8, Found

\* The prefix of an error is not found where nothing was said.
LEMMA OccursNot == ~Occurs(<<>>)
<1>1. Len(<<>>) = 0 /\ SubSeq(<<>>, 0 + 1, 0) = <<>>
  BY EmptySeq, SubSeqEmpty
<1>2. \A i, j \in 0 .. 0 : SubSeq(<<>>, i + 1, j) = <<>>
  BY <1>1
<1> QED BY <1>1, <1>2, BytesAssumption DEF Occurs, SubSeqs

\* A client whose own connection and process do not change is served as before.
LEMMA Bystander ==
  ASSUME AnswerInv, NEW k \in Clients,
         client'[k] = client[k], conn'[k] = conn[k], status'[k] = status[k],
         inbox'[k] = inbox[k], got'[k] = got[k],
         ran'[k] = ran[k], said'[k] = said[k], last'[k] = last[k],
         Printing(k)' <=> Printing(k)
  PROVE  Served(k)'
<1>1. Fresh(k) /\ Receiving(k) /\ Ended(k)
  BY DEF AnswerInv, Served
<1>2. Fresh(k)'
  BY <1>1 DEF Fresh, Live, Untouched
<1>3. Receiving(k)'
  BY <1>1 DEF Receiving, Short, Heard, Ahead
<1>4. Ended(k)'
  BY <1>1 DEF Ended, Short
<1> QED BY <1>2, <1>3, <1>4 DEF Served

\* A new connection starts with nothing.
LEMMA ConnectServes ==
  ASSUME IInv, AnswerInv, NEW k \in Clients, NEW c \in Commands, Connect(k, c)
  PROVE  AnswerInv'
<1>1. /\ client[k] = "none"
      /\ pc' = pc /\ cur' = cur /\ todo' = todo
      /\ inbox' = [inbox EXCEPT ![k] = <<>>]
      /\ conn' = [conn EXCEPT ![k] = "open"]
      /\ ran' = [ran EXCEPT ![k] = FALSE]
      /\ said' = [said EXCEPT ![k] = <<>>]
      /\ last' = [last EXCEPT ![k] = <<>>]
      /\ got' = [got EXCEPT ![k] = <<>>]
  BY DEF Connect, daemon
<1>2. PICK p \in {"connected", "done"}, s \in {"ok", "error", "sigpipe"} :
        /\ client' = [client EXCEPT ![k] = p]
        /\ status' = [status EXCEPT ![k] = s]
        /\ p = "connected" => s = "ok"
  BY DEF Connect
<1>3. ASSUME NEW j \in Clients \ {k} PROVE Served(j)'
  BY <1>1, <1>2, Bystander DEF IInv, TypeOK, Printing
<1>4. /\ client'[k] = p /\ status'[k] = s /\ inbox'[k] = <<>>
      /\ conn'[k] = "open" /\ ran'[k] = FALSE /\ said'[k] = <<>>
      /\ last'[k] = <<>> /\ got'[k] = <<>>
  BY <1>1, <1>2 DEF IInv, TypeOK
<1>5. ~Printing(k)'
  BY <1>1 DEF IInv, Serving, Live, Printing
<1>6. Fresh(k)' /\ Ended(k)'
  BY <1>4, <1>5 DEF Fresh, Untouched, Ended
<1>7. Receiving(k)'
  <2>1. <<>> \o <<>> = <<>> /\ <<>> \in Seq(Bytes)
    OBVIOUS
  <2>2. Ahead(k)'
    BY <1>4, <2>1 DEF Ahead
  <2>3. p = "connected" => Heard(k)'
    BY <1>2, <1>4, <2>2 DEF Heard
  <2> QED BY <1>4, <2>1, <2>3 DEF Receiving
<1> QED BY <1>3, <1>6, <1>7 DEF AnswerInv, Served

\* The command line is on its way, or was never taken.
LEMMA SendServes ==
  ASSUME IInv, AnswerInv, NEW k \in Clients, Send(k)
  PROVE  AnswerInv'
<1>1. /\ client[k] = "connected" /\ pc' = pc /\ cur' = cur /\ todo' = todo
      /\ inbox' = inbox /\ conn' = conn /\ ran' = ran /\ said' = said
      /\ last' = last /\ got' = got
  BY DEF Send, daemon, history
<1>2. ASSUME NEW j \in Clients \ {k} PROVE Served(j)'
  <2>1. client'[j] = client[j] /\ status'[j] = status[j]
    BY DEF Send, IInv, TypeOK
  <2> QED BY <1>1, <2>1, Bystander DEF Printing
<1>3. Fresh(k) /\ Receiving(k) /\ Untouched(k)
  BY <1>1 DEF AnswerInv, Served, Fresh
<1>4. CASE conn[k] = "open" /\ client'[k] = "waiting" /\ status'[k] = status[k]
  <2>1. Fresh(k)'
    BY <1>1, <1>3, <1>4 DEF Fresh, Untouched, Live
  <2>2. Receiving(k)'
    BY <1>1, <1>3, <1>4 DEF Receiving, Short, Heard, Ahead
  <2> QED BY <1>2, <1>4, <2>1, <2>2 DEF AnswerInv, Served, Ended
<1>5. CASE conn[k] # "open" /\ client'[k] = "done"
  BY <1>1, <1>2, <1>3, <1>5
  DEF AnswerInv, Served, Fresh, Receiving, Ended, Untouched, Live
<1> QED BY <1>4, <1>5 DEF Send, IInv, TypeOK

\* What is received was sent for this client, and the status is told by it.
LEMMA ReceiveServes ==
  ASSUME IInv, AnswerInv, NEW k \in Clients, Receive(k)
  PROVE  AnswerInv'
<1>1. PICK n \in Nat, p \in Seq(Bytes), r \in Seq(Bytes),
           s \in {"ok", "error"} :
        /\ n \in 1 .. Len(inbox[k]) /\ n = Received(inbox[k])
        /\ p = SubSeq(inbox[k], 1, n)
        /\ r = SubSeq(inbox[k], n + 1, Len(inbox[k]))
        /\ s \in Verdicts(p)
        /\ inbox' = [inbox EXCEPT ![k] = r]
        /\ status' = [status EXCEPT ![k] = s]
        /\ got' = [got EXCEPT ![k] = @ \o p]
  BY Piece
<1>2. /\ client[k] = "waiting" /\ pc' = pc /\ cur' = cur
      /\ client' = client /\ conn' = conn /\ ran' = ran /\ said' = said
      /\ last' = last
  BY DEF Receive, daemon, history
<1>3. ASSUME NEW j \in Clients \ {k} PROVE Served(j)'
  <2>1. inbox'[j] = inbox[j] /\ status'[j] = status[j] /\ got'[j] = got[j]
    BY <1>1 DEF IInv, TypeOK
  <2> QED BY <1>2, <2>1, Bystander DEF Printing
<1>4. PICK g \in Seq(Bytes), i \in Seq(Bytes) : g = got[k] /\ i = inbox[k]
  BY DEF IInv, TypeOK
<1>5. i # <<>>
  BY <1>4 DEF Receive
<1>6. got'[k] = g \o p /\ inbox'[k] = r /\ status'[k] = s
  BY <1>1, <1>4 DEF IInv, TypeOK
<1>7. Fresh(k) /\ Receiving(k)
  BY DEF AnswerInv, Served
<1>8. Fresh(k)'
  BY <1>2, <1>4, <1>5, <1>7 DEF Fresh, Untouched, Live, Printing
<1>9. g \o i = said[k] /\ (Short(k) => Heard(k))
  BY <1>2, <1>4, <1>7 DEF Receiving
<1>10. (g \o p) \o r = said[k]
  <2>1. n \in 1 .. Len(i)
    BY <1>1, <1>4
  <2>2. (g \o SubSeq(i, 1, n)) \o SubSeq(i, n + 1, Len(i)) = g \o i
    BY <2>1, Moves
  <2> QED BY <1>1, <1>4, <1>9, <2>2
<1>11. ASSUME Short(k) PROVE Heard(k)'
  <2>1. Len(g) \in Nat /\ Len(i) \in Nat /\ Len(g \o i) = Len(g) + Len(i)
    BY LenProperties, ConcatProperties
  <2>2. Len(i) < BufSize
    BY <1>9, <1>11, <2>1, BytesAssumption DEF Short
  <2>3. n = Len(i)
    BY <1>1, <1>4, <2>2 DEF Received
  <2>4. p = i
    BY <1>1, <1>4, <2>3, SubSeqFull
  <2>5. r = <<>>
    <3>1. Len(i) + 1 \in Int /\ Len(i) \in Int /\ Len(i) < Len(i) + 1
      BY <2>1
    <3> QED BY <1>1, <1>4, <2>3, <3>1, SubSeqEmpty
  <2>6. s = IF Occurs(i) THEN "error" ELSE "ok"
    BY <1>1, <2>2, <2>4 DEF Verdicts
  <2>7. Occurs(last[k]) => s = "error"
    <3> SUFFICES ASSUME Occurs(last[k]) PROVE Occurs(i)
      BY <2>6
    <3>1. PICK f \in Seq(Bytes) : i = f \o last[k]
      BY <1>4, <1>5, <1>9, <1>11 DEF Heard, Ahead
    <3>2. last[k] \in Seq(Bytes)
      BY DEF IInv, TypeOK
    <3> QED BY <3>1, <3>2, OccursAtEnd
  <2>8. ~Occurs(said[k]) => s = "ok"
    BY <1>9, <2>6, OccursAtEnd
  <2> QED BY <1>2, <1>6, <2>5, <2>7, <2>8 DEF Heard
<1>12. Receiving(k)'
  BY <1>2, <1>6, <1>10, <1>11 DEF Receiving, Short
<1> QED BY <1>2, <1>3, <1>8, <1>12 DEF AnswerInv, Served, Ended

\* At the end of the input the status stays, or was never earned.
LEMMA EndServes ==
  ASSUME IInv, AnswerInv, NEW k \in Clients, EndOfInput(k)
  PROVE  AnswerInv'
<1>1. /\ client[k] = "waiting" /\ conn[k] # "open" /\ inbox[k] = <<>>
      /\ pc' = pc /\ cur' = cur
      /\ inbox' = inbox /\ conn' = conn /\ ran' = ran /\ said' = said
      /\ last' = last /\ got' = got
      /\ client' = [client EXCEPT ![k] = "done"]
      /\ status' = [status EXCEPT
                      ![k] = IF conn[k] = "reset" THEN "error" ELSE @]
  BY DEF EndOfInput, daemon, history
<1>2. ASSUME NEW j \in Clients \ {k} PROVE Served(j)'
  <2>1. client'[j] = client[j] /\ status'[j] = status[j]
    BY <1>1 DEF IInv, TypeOK
  <2> QED BY <1>1, <2>1, Bystander DEF Printing
<1>3. client'[k] = "done" /\ (conn[k] # "reset" => status'[k] = status[k])
  BY <1>1 DEF IInv, TypeOK
<1>4. Fresh(k) /\ Receiving(k)
  BY DEF AnswerInv, Served
<1>5. Fresh(k)' /\ Receiving(k)'
  BY <1>1, <1>3, <1>4 DEF Fresh, Receiving, Live
<1>6. Ended(k)'
  <2> SUFFICES ASSUME ran[k], Short(k)
               PROVE  /\ Occurs(last[k]) => status[k] = "error"
                      /\ ~Occurs(said[k]) => status[k] = "ok"
    BY <1>1, <1>3, <1>4 DEF Ended, Short, Fresh
  <2>1. Heard(k)
    BY <1>1, <1>4 DEF Receiving
  <2>2. CASE Ahead(k)
    <3>1. PICK f \in Seq(Bytes) : <<>> = f \o last[k]
      BY <1>1, <2>2 DEF Ahead
    <3>2. PICK l \in Seq(Bytes) : l = last[k]
      BY DEF IInv, TypeOK
    <3>3. f \o l = <<>>
      BY <3>1, <3>2
    <3>4. l = <<>>
      BY <3>3, ConcatEqualIffEmpty
    <3> QED BY <2>1, <3>2, <3>4, OccursNot DEF Heard
  <2> QED BY <2>1, <2>2 DEF Heard
<1> QED BY <1>2, <1>5, <1>6 DEF AnswerInv, Served

\* A client that is called again or killed claims nothing.
LEMMA AgainServes ==
  ASSUME IInv, AnswerInv, NEW k \in Clients, Again(k) \/ Kill(k)
  PROVE  AnswerInv'
<1>1. PICK p \in {"none", "killed"} :
        /\ client' = [client EXCEPT ![k] = p]
        /\ p = "none" => ~Live(k)
        /\ p = "killed" => client[k] \in {"connected", "waiting"}
  BY DEF Again, Kill, Live
<1>2. /\ pc' = pc /\ cur' = cur /\ status' = status
      /\ inbox' = inbox /\ conn' = conn /\ ran' = ran /\ said' = said
      /\ last' = last /\ got' = got
  BY DEF Again, Kill, daemon, history
<1>3. ASSUME NEW j \in Clients \ {k} PROVE Served(j)'
  <2>1. client'[j] = client[j]
    BY <1>1 DEF IInv, TypeOK
  <2> QED BY <1>2, <2>1, Bystander DEF Printing
<1>4. client'[k] = p
  BY <1>1 DEF IInv, TypeOK
<1>5. Fresh(k)
  BY DEF AnswerInv, Served
<1>6. Fresh(k)' /\ Receiving(k)' /\ Ended(k)'
  BY <1>1, <1>2, <1>4, <1>5
  DEF Fresh, Receiving, Ended, Live, Untouched, Printing
<1> QED BY <1>3, <1>6 DEF AnswerInv, Served

\* The next connection is taken, nothing has been done for it.
LEMMA AcceptServes ==
  ASSUME IInv, AnswerInv, Accept
  PROVE  AnswerInv'
BY Bystander DEF Accept, process, history, AnswerInv, Printing

\* The end of the daemon resets those only whose command it had not taken.
LEMMA HangUpServes ==
  ASSUME IInv, AnswerInv, HangUp,
         UNCHANGED <<process, cur, used, inbox, history>>
  PROVE  AnswerInv'
<1>1. SUFFICES ASSUME NEW k \in Clients PROVE Served(k)'
  BY DEF AnswerInv
<1>2. Fresh(k) /\ Receiving(k) /\ Ended(k)
  BY DEF AnswerInv, Served
<1>3. ~Printing(k)'
  BY DEF HangUp, Printing
<1>4. /\ client' = client /\ status' = status /\ got' = got /\ ran' = ran
      /\ said' = said /\ last' = last /\ inbox' = inbox /\ cur' = cur
  BY DEF process, history
<1>5. k \in ToSet(queue) => Live(k) /\ ~Printing(k)
  <2> SUFFICES ASSUME NEW i \in 1 .. Len(queue), k = queue[i]
               PROVE  Live(k) /\ ~Printing(k)
    BY DEF ToSet, IInv, TypeOK
  <2> QED BY DEF IInv, Waiting, Serving, Printing
<1>6. conn'[k] = IF k \in ToSet(queue) \/ (k = cur /\ pc = "recv") THEN "reset"
                 ELSE IF k = cur /\ pc = "print" THEN "end" ELSE conn[k]
  BY DEF HangUp
<1>7. k = cur /\ pc = "recv" => Live(k) /\ ~Printing(k)
  BY DEF IInv, Serving, Printing
<1>8. Fresh(k)'
  <2>1. conn'[k] = "reset" => ~ran[k]
    BY <1>2, <1>5, <1>6, <1>7 DEF Fresh, Untouched
  <2>2. conn'[k] = "open" => conn[k] = "open" /\ ~Printing(k)
    BY <1>6 DEF Printing
  <2> QED BY <1>2, <1>3, <1>4, <2>1, <2>2 DEF Fresh, Untouched, Live
<1>9. Receiving(k)'
  BY <1>2, <1>4 DEF Receiving, Short, Heard, Ahead
<1>10. Ended(k)'
  BY <1>2, <1>4 DEF Ended, Short
<1> QED BY <1>8, <1>9, <1>10 DEF Served

\* A command that is taken has said nothing yet.
LEMMA RunServes ==
  ASSUME IInv, AnswerInv, Run
  PROVE  AnswerInv'
<1>1. /\ pc = "recv" /\ pc' = "print" /\ cur' = cur /\ inbox' = inbox
      /\ conn' = conn /\ client' = client /\ status' = status /\ got' = got
      /\ client[cur] \in {"waiting", "killed"}
      /\ ran' = [ran EXCEPT ![cur] = TRUE]
      /\ said' = said /\ last' = last
  BY DEF Run, process
<1>2. PICK k \in Clients : k = cur
  BY DEF IInv, TypeOK
<1>3. ASSUME NEW j \in Clients \ {k} PROVE Served(j)'
  <2>1. ran'[j] = ran[j]
    BY <1>1, <1>2 DEF IInv, TypeOK
  <2> QED BY <1>1, <1>2, <2>1, Bystander DEF Printing
<1>4. Live(k) /\ Receiving(k)
  BY <1>1, <1>2 DEF IInv, Serving, AnswerInv, Served
<1>5. Fresh(k)' /\ Ended(k)'
  BY <1>1, <1>2, <1>4 DEF Fresh, Live, Printing, Ended
<1>6. Receiving(k)'
  BY <1>1, <1>4 DEF Receiving, Short, Heard, Ahead
<1> QED BY <1>3, <1>5, <1>6 DEF AnswerInv, Served

\* The message that is sent is behind what has arrived before.
LEMMA SendMessageServes ==
  ASSUME IInv, AnswerInv, SendMessage
  PROVE  AnswerInv'
<1>1. /\ pc = "print" /\ pc' = pc /\ cur' = cur
      /\ conn' = conn /\ client' = client
      /\ status' = status /\ got' = got /\ ran' = ran
  BY DEF SendMessage, process
<1>2. PICK k \in Clients : k = cur
  BY DEF IInv, TypeOK
<1>3. PICK m \in Seq(Bytes), i \in Seq(Bytes), t \in Seq(Bytes) :
        /\ i = inbox[k] \o m /\ t = said[k] \o m
        /\ inbox' = [inbox EXCEPT ![k] = IF client[k] = "killed" THEN @ ELSE i]
        /\ said' = [said EXCEPT ![k] = t]
        /\ last' = [last EXCEPT ![k] = m]
  BY <1>2, Message
<1>4. ASSUME NEW j \in Clients \ {k} PROVE Served(j)'
  <2>1. inbox'[j] = inbox[j] /\ said'[j] = said[j] /\ last'[j] = last[j]
    BY <1>3 DEF IInv, TypeOK
  <2> QED BY <1>1, <1>2, <2>1, Bystander DEF Printing
<1>5. Live(k) /\ Printing(k) /\ Printing(k)'
  BY <1>1, <1>2 DEF IInv, Serving, Printing
<1>6. Fresh(k) /\ Receiving(k)
  BY DEF AnswerInv, Served
<1>7. Fresh(k)' /\ Ended(k)'
  BY <1>1, <1>5, <1>6 DEF Fresh, Live, Ended
<1>8. ASSUME client[k] = "waiting" PROVE Receiving(k)'
  <2>1. PICK g \in Seq(Bytes), b \in Seq(Bytes), d \in Seq(Bytes) :
          g = got[k] /\ b = inbox[k] /\ d = said[k]
    BY DEF IInv, TypeOK
  <2>2. g \o b = d /\ (Short(k) => Heard(k))
    BY <1>6, <1>8, <2>1 DEF Receiving
  <2>3. inbox'[k] = i /\ said'[k] = t /\ last'[k] = m
    BY <1>3, <1>8 DEF IInv, TypeOK
  <2>4. i = Cat(b, m) /\ t = Cat(Cat(g, b), m)
    BY <1>3, <2>1, <2>2 DEF Cat
  <2>5. g \o i = t
    <3>1. Cat(Cat(g, b), m) = Cat(g, Cat(b, m))
      BY Cut
    <3> QED BY <2>4, <3>1 DEF Cat
  <2>6. Ahead(k)'
    BY <1>3, <2>1, <2>3 DEF Ahead
  <2>7. Short(k)' => Short(k)
    <3>1. Len(d) \in Nat /\ Len(m) \in Nat /\ Len(d \o m) = Len(d) + Len(m)
      BY LenProperties, ConcatProperties
    <3> QED BY <1>3, <2>1, <2>3, <3>1, BytesAssumption DEF Short
  <2>8. ~Occurs(t) /\ Short(k) => status[k] = "ok"
    <3> SUFFICES ASSUME ~Occurs(t), Short(k) PROVE status[k] = "ok"
      OBVIOUS
    <3>1. ~Occurs(d)
      BY <1>3, <2>1, OccursBefore
    <3> QED BY <2>1, <2>2, <3>1 DEF Heard
  <2>9. Short(k)' => Heard(k)'
    <3> SUFFICES ASSUME Short(k)' PROVE Heard(k)'
      OBVIOUS
    <3>1. ~Occurs(said[k])' => status'[k] = "ok"
      BY <1>1, <2>3, <2>7, <2>8
    <3> QED BY <2>6, <3>1 DEF Heard
  <2> QED BY <1>1, <2>1, <2>3, <2>5, <2>9 DEF Receiving
<1>9. client[k] \in {"waiting", "killed"}
  BY <1>5, <1>6 DEF Live, Fresh
<1>10. Receiving(k)'
  BY <1>1, <1>8, <1>9 DEF Receiving
<1> QED BY <1>4, <1>7, <1>10 DEF AnswerInv, Served

\* A connection that is closed was answered.
LEMMA CloseServes ==
  ASSUME IInv, AnswerInv, Close
  PROVE  AnswerInv'
<1>1. /\ pc = "print" /\ pc' = "accept" /\ cur' = cur
      /\ inbox' = inbox /\ conn' = [conn EXCEPT ![cur] = "end"]
      /\ client' = client /\ status' = status /\ got' = got
      /\ ran' = ran /\ said' = said /\ last' = last
  BY DEF Close, process, history
<1>2. PICK k \in Clients : k = cur
  BY DEF IInv, TypeOK
<1>3. ASSUME NEW j \in Clients \ {k} PROVE Served(j)'
  <2>1. conn'[j] = conn[j]
    BY <1>1, <1>2 DEF IInv, TypeOK
  <2> QED BY <1>1, <1>2, <2>1, Bystander DEF Printing
<1>4. Live(k) /\ Printing(k) /\ conn'[k] = "end" /\ ~Printing(k)'
  BY <1>1, <1>2 DEF IInv, TypeOK, Serving, Printing
<1>5. Fresh(k) /\ Receiving(k)
  BY DEF AnswerInv, Served
<1>6. Fresh(k)' /\ Ended(k)'
  BY <1>1, <1>4, <1>5 DEF Fresh, Live, Ended
<1>7. Receiving(k)'
  BY <1>1, <1>5 DEF Receiving, Short, Heard, Ahead
<1> QED BY <1>3, <1>6, <1>7 DEF AnswerInv, Served

\* A daemon that is started again knows nothing of those it had.
LEMMA RestartServes ==
  ASSUME AnswerInv, Restart \/ UNCHANGED vars
  PROVE  AnswerInv'
<1>1. ASSUME NEW k \in Clients PROVE Served(k)'
  BY Bystander
  DEF Restart, vars, daemon, process, history, Printing
<1> QED BY <1>1 DEF AnswerInv

\* Every client is served for itself, whatever the others do.
THEOREM AllServed == Spec => []AnswerInv
<1>1. Init => AnswerInv
  <2> SUFFICES ASSUME Init, NEW k \in Clients PROVE Served(k)
    BY DEF AnswerInv
  <2>1. client[k] = "none" /\ conn[k] = "open"
    BY DEF Init
  <2> QED BY <2>1 DEF Served, Fresh, Live, Receiving, Ended
<1>2. IInv /\ AnswerInv /\ [Next]_vars => AnswerInv'
  <2> SUFFICES ASSUME IInv, AnswerInv, [Next]_vars PROVE AnswerInv'
    OBVIOUS
  <2>1. CASE \E k \in Clients, c \in Commands : Connect(k, c)
    BY <2>1, ConnectServes
  <2>2. CASE \E k \in Clients : Again(k) \/ Kill(k)
    BY <2>2, AgainServes
  <2>3. CASE \E k \in Clients : Proceed(k)
    BY <2>3, SendServes, ReceiveServes, EndServes DEF Proceed
  <2>4. CASE Accept
    BY <2>4, AcceptServes
  <2>5. CASE AcceptFails \/ Die
    BY <2>5, HangUpServes DEF AcceptFails, Die
  <2>6. CASE Run
    BY <2>6, RunServes
  <2>7. CASE SendMessage
    BY <2>7, SendMessageServes
  <2>8. CASE Close
    BY <2>8, CloseServes
  <2>9. CASE Restart \/ UNCHANGED vars
    BY <2>9, RestartServes
  <2> QED
    BY <2>1, <2>2, <2>3, <2>4, <2>5, <2>6, <2>7, <2>8, <2>9 DEF Next, Serve
<1> QED BY <1>1, <1>2, Inductive, PTL DEF Spec

(***************************************************************************)
(* What a client has received and what is on its way is all that the       *)
(* daemon has sent for its command, for any number of clients in the       *)
(* backlog and pieces of any length.                                       *)
(***************************************************************************)
THEOREM AnswersAreOwn == Spec => []OwnAnswer
<1>1. AnswerInv => OwnAnswer
  BY DEF AnswerInv, Served, Receiving, OwnAnswer
<1> QED BY <1>1, AllServed, PTL

(***************************************************************************)
(* The exit status of a client whose answer is shorter than the buffer is  *)
(* an error when the last message is one, and 0 when none is: for any      *)
(* messages, any prefix and any buffer, and whatever was received at once. *)
(***************************************************************************)
THEOREM StatusTells == Spec => []ExitTells
<1>1. AnswerInv => ExitTells
  BY DEF AnswerInv, Served, Ended, Short, ExitTells
<1> QED BY <1>1, AllServed, PTL

=============================================================================
