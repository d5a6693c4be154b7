--------------------------- MODULE SessionsProofs ---------------------------
(***************************************************************************)
(* What holds of clients and of the threads that serve them, for any       *)
(* number of clients and users, any backlog and any buffer, as long as     *)
(* every text is short and plain.                                          *)
(*                                                                         *)
(* The inductive invariant says, for each place a client may be in, what   *)
(* is on its two wires, where its thread is and what is in the thread's    *)
(* document (SessionRight); that a client that leaves may take the         *)
(* coordinator with it, and nothing else does but a race in clientmap      *)
(* (DownRight); and that, until there was one, what a thread would parse   *)
(* again is a name that is taken (TakenRight).                             *)
(***************************************************************************)
EXTENDS Sessions, TLAPS, SequenceTheorems

PlainTexts == Shape \subseteq {"plain"}

(* What is sent and what is being done for client c.                       *)
Wires(c, in, out) == inbox[c] = in /\ outbox[c] = out

Unheard(c) ==
  Wires(c, <<>>, <<>>) /\ server[c] = "none" /\ ask[c] = NoAsk /\ document[c] = NoAsk

Joining(c) ==
  Wires(c, <<Syn>>, <<>>) /\ server[c] = "none" /\ ask[c] = NoAsk
  /\ document[c] = NoAsk

Joined(c) ==
  Wires(c, <<>>, <<Connected>>) /\ server[c] = "recv" /\ ask[c] = NoAsk
  /\ document[c] = NoAsk

Resting(c) == inbox[c] = <<>> /\ server[c] = "recv" /\ ask[c] = NoAsk

Sent(c) == Wires(c, <<ask[c]>>, <<>>) /\ server[c] = "recv" /\ ask[c] \in Request

Using(c) ==
  Wires(c, <<>>, <<>>) /\ server[c] \in {"map", "hung"} /\ ask[c] \in Request
  /\ ask[c].purpose \in Purpose /\ document[c] = ask[c]

Left(c) ==
  inbox[c] = <<>> /\ server[c] \in {"recv", "map", "hung"} /\ ask[c] = NoAsk

Answered(c) ==
  /\ inbox[c] = <<>> /\ server[c] = "recv"
  /\ ask[c] \in Request /\ document[c] = ask[c]
  /\ Len(outbox[c]) = 1
  /\ Head(outbox[c]).member = Member(ask[c])
  /\ ask[c].purpose = "data" => Head(outbox[c]).text = "value"

SessionRight(c) ==
  /\ pc[c] \in {"off", "syn"} => end[c] = "open" /\ Unheard(c)
  /\ pc[c] = "ack" => end[c] = "open" /\ (Joining(c) \/ Joined(c))
  /\ pc[c] \in {"ready", "spin"} =>
       end[c] = "open" /\ Resting(c) /\ outbox[c] = <<>>
  /\ pc[c] = "wait" => end[c] = "open" /\ (Sent(c) \/ Using(c) \/ Answered(c))
  /\ pc[c] = "out" =>
       \/ end[c] = "open" /\ Unheard(c) /\ coord = "down"
       \/ end[c] \in {"closed", "dead"} /\ Left(c)
  /\ pc[c] = "killed" =>
       \/ /\ end[c] = "closed"
          /\ Unheard(c) \/ Joining(c) \/ Joined(c) \/ Sent(c) \/ Using(c)
       \/ /\ end[c] = "dead" /\ inbox[c] = <<>> /\ outbox[c] # <<>>
          /\ server[c] \in {"recv", "map", "hung"}
          /\ ask[c] \in Request /\ document[c] = ask[c]
       \/ /\ end[c] = "reset" /\ inbox[c] = <<>> /\ outbox[c] # <<>>
          /\ server[c] \in {"recv", "ended"}
  /\ pc[c] = "aborted" => coord = "down"

(* The loop has accepted, or has yet to accept, only who has no thread.    *)
Queued(c) == c = current \/ \E i \in DOMAIN backlog : backlog[i] = c

LoopRight ==
  /\ \A i, j \in DOMAIN backlog : backlog[i] = backlog[j] => i = j
  /\ \A i \in DOMAIN backlog : backlog[i] # current
  /\ \A c \in Client : Queued(c) => server[c] = "none" /\ pc[c] # "off"

(* Only a client that has left ends the coordinator, or a broken clientmap. *)
DownRight ==
  coord = "down" => raced \/ \E c \in Client : pc[c] \in {"out", "killed"} /\ end[c] # "open"

(* A request for a name that a thread would serve again: it is taken.      *)
TakenRight ==
  ~raced => \A c \in Client : server[c] = "recv" /\ document[c].purpose = "create_user" =>
    clientmap[document[c].user] # NoPassword

SessionsInv ==
  /\ TypeOK
  /\ \A c \in Client : SessionRight(c)
  /\ LoopRight
  /\ DownRight
  /\ TakenRight

(* Who inserts does so for the client that waits for it, and is alone.     *)
InsertRight ==
  ~raced => \A c \in Client : server[c] = "map" /\ Inserts(document[c]) =>
    /\ Using(c)
    /\ \A d \in Client \ {c} : server[d] # "map"
----------------------------------------------------------------------------
(* Requests, messages and what recv gives.                                 *)

(* A request is sent as one unit, and is neither no request nor Junk.      *)
LEMMA RequestFacts ==
  ASSUME PlainTexts, NEW r \in Request
  PROVE  /\ r.purpose \in {"create_user", "login", "data"}
         /\ Units(r) = <<r>>
         /\ r # Junk /\ r # NoAsk
         /\ r.purpose \in Purpose => r.user \in User /\ r.password \in Password
<1>1. CASE r \in [purpose : Purpose, user : User, password : Password]
  <2>1. r.purpose \in {"create_user", "login"} /\ r.user \in User
        /\ r.password \in Password
    BY <1>1 DEF Purpose
  <2>2. Units(r) = <<r>>
    BY <2>1 DEF Units
  <2>3. r # Junk
    <3>1. "purpose" \in DOMAIN r /\ "purpose" \notin DOMAIN Junk
      BY <1>1 DEF Junk
    <3> QED
      BY <3>1
  <2> QED
    BY <2>1, <2>2, <2>3 DEF NoAsk
<1>2. CASE r \in [purpose : {"data"}, shape : Shape]
  <2>1. r.purpose = "data" /\ r.shape = "plain"
    BY <1>2 DEF PlainTexts
  <2>2. Units(r) = <<r>>
    BY <2>1 DEF Units
  <2>3. r # Junk
    <3>1. "purpose" \in DOMAIN r /\ "purpose" \notin DOMAIN Junk
      BY <1>2 DEF Junk
    <3> QED
      BY <3>1
  <2> QED
    BY <2>1, <2>2, <2>3 DEF NoAsk, Purpose
<1> QED
  BY <1>1, <1>2 DEF Request

(* The greeting parses.                                                    *)
LEMMA SynIsNoJunk == Syn # Junk /\ Syn.type = "client"
BY DEF Syn, Junk

(* What is sent on an empty wire is all there is on it.                    *)
LEMMA OneMessage ==
  ASSUME NEW x
  PROVE  /\ Append(<< >>, x) = <<x>> /\ << >> \o <<x>> = <<x>>
         /\ Len(<<x>>) = 1 /\ Head(<<x>>) = x /\ <<x>> # << >>
OBVIOUS

(* One message is received whole.                                          *)
LEMMA OneText ==
  ASSUME TypeOK, NEW c \in Client, NEW x, inbox[c] = <<x>>
  PROVE  /\ HasText(c) /\ ~HasError(c) /\ Text(c) = x
         /\ x # Junk => Parses(c)
         /\ Taken(c) => inbox' = [inbox EXCEPT ![c] = << >>]
<1>1. Fits(c) = 1
  BY AcceptAssumption, OneMessage DEF Fits
<1>2. Received(c) = <<x>>
  <2> DEFINE S == {x}
  <2>1. <<x>> \in Seq(S) /\ Len(<<x>>) = 1
    BY OneMessage
  <2>2. SubSeq(<<x>>, 1, 1) = <<x>>
    BY <2>1, SubSeqFull
  <2> QED
    BY <1>1, <2>2 DEF Received
<1>3. SubSeq(<<x>>, 2, 1) = << >>
  OBVIOUS
<1>4. Taken(c) => inbox' = [inbox EXCEPT ![c] = << >>]
  <2>1. SubSeq(inbox[c], Fits(c) + 1, Len(inbox[c])) = << >>
    BY <1>1, <1>3, OneMessage
  <2> QED
    BY <2>1 DEF Taken
<1>5. Text(c) = x
  BY OneMessage DEF Text
<1>6. x # Junk => Parses(c)
  <2>1. x # Junk => <<x>> # <<Junk>>
    BY OneMessage
  <2> QED
    BY <1>2, <2>1, OneMessage DEF Parses
<1> QED
  BY <1>4, <1>5, <1>6, OneMessage DEF HasText, HasError

(* Nothing does not parse, and is received only from a closed wire.        *)
LEMMA NoText ==
  ASSUME TypeOK, NEW c \in Client, inbox[c] = << >>
  PROVE  /\ ~Parses(c)
         /\ HasText(c) <=> end[c] \in {"closed", "dead"}
         /\ HasError(c) <=> end[c] = "reset"
         /\ Taken(c) => inbox' = [inbox EXCEPT ![c] = << >>]
<1>1. Fits(c) = 0
  BY AcceptAssumption DEF Fits
<1>2. Len(Received(c)) = 0
  <2>1. SubSeq(<< >>, 1, 0) = << >>
    OBVIOUS
  <2> QED
    BY <1>1, <2>1 DEF Received
<1>3. Taken(c) => inbox' = [inbox EXCEPT ![c] = << >>]
  <2>1. SubSeq(<< >>, 1, 0) = << >>
    OBVIOUS
  <2>2. SubSeq(inbox[c], Fits(c) + 1, Len(inbox[c])) = << >>
    BY <1>1, <2>1
  <2> QED
    BY <2>2 DEF Taken
<1> QED
  BY <1>2, <1>3 DEF Parses, HasText, HasError
----------------------------------------------------------------------------
(* What a step of client c, or for client c, does to the others: nothing,  *)
(* except that the coordinator may end.                                    *)
Step(c) ==
  \/ Proceed(c) \/ logout(c) \/ Kill(c) \/ \E r \in Request : send_command(c, r)
  \/ alwaysListen(c) \/ clientHandle(c)

Same(d) ==
  /\ pc'[d] = pc[d] /\ ask'[d] = ask[d]
  /\ server'[d] = server[d] /\ document'[d] = document[d]
  /\ inbox'[d] = inbox[d] /\ outbox'[d] = outbox[d] /\ end'[d] = end[d]

(* A step for one client leaves the wires, the thread and the program of   *)
(* every other as they are.                                                *)
LEMMA OthersStep ==
  ASSUME TypeOK, NEW c \in Client, Step(c), NEW d \in Client, d # c
  PROVE  Same(d)
<1> USE SessionsAssumption DEF Same, TypeOK, AcceptTypeOK, wires, loop, program,
        handlers, Goto, Send, Close, Answer
<1>1. CASE Proceed(c)
  BY <1>1 DEF Proceed, connection_establish, connection_refused, send_syn,
     recv_response, recv_fails, Connect
<1>2. CASE logout(c) \/ Kill(c)
  BY <1>2 DEF logout, Kill
<1>3. CASE \E r \in Request : send_command(c, r)
  BY <1>3 DEF send_command
<1>4. CASE alwaysListen(c)
  BY <1>4 DEF alwaysListen, accept, FirstMessage, FirstFails, Taken
<1>5. CASE clientHandle(c)
  <2>1. CASE create_user(c) \/ login(c)
    BY <2>1 DEF create_user, login, Leave, Respond
  <2>3. CASE enter_clientmap(c) \/ clientmap_broken(c)
    BY <2>3 DEF enter_clientmap, clientmap_broken, Leave, Receive, Respond, Silent, Taken
  <2>2. CASE serveData(c) \/ clientHandleAsserts(c) \/ clientHandleReturns(c)
    BY <2>2 DEF serveData, clientHandleAsserts, clientHandleReturns, Receive,
       Respond, Taken
  <2> QED
    BY <1>5, <2>1, <2>2, <2>3 DEF clientHandle
<1> QED
  BY <1>1, <1>2, <1>3, <1>4, <1>5 DEF Step

(* A coordinator that has ended stays so.                                  *)
LEMMA StaysDown ==
  ASSUME NEW c \in Client, Step(c), coord = "down"
  PROVE  coord' = "down"
BY DEF Step, Proceed, connection_establish, connection_refused, send_syn,
   recv_response, recv_fails, logout, Kill, send_command, alwaysListen, accept,
   FirstMessage, FirstFails, clientHandle, create_user, login, enter_clientmap,
       clientmap_broken, Leave,
   serveData, clientHandleAsserts, clientHandleReturns, Receive, Connect

(* A race is never forgotten.                                              *)
LEMMA StaysRaced ==
  ASSUME NEW c \in Client, Step(c), raced
  PROVE  raced'
BY DEF Step, Proceed, connection_establish, connection_refused, send_syn,
   recv_response, recv_fails, logout, Kill, send_command, alwaysListen, accept,
   FirstMessage, FirstFails, clientHandle, create_user, login, enter_clientmap,
   clientmap_broken, Leave, serveData, clientHandleAsserts, clientHandleReturns,
   accounts

(* A client that is left alone is as it was.                               *)
LEMMA OthersRight ==
  ASSUME TypeOK, NEW c \in Client, Step(c), NEW d \in Client, d # c, SessionRight(d)
  PROVE  SessionRight(d)'
<1>1. Same(d)
  BY OthersStep
<1>2. coord = "down" => coord' = "down"
  BY StaysDown
<1> QED
  BY <1>1, <1>2 DEF Same, SessionRight, Wires, Unheard, Joining, Joined,
     Resting, Left, Sent, Using, Answered
----------------------------------------------------------------------------
(* A step of the client itself keeps its session right.                    *)
LEMMA ClientRight ==
  ASSUME PlainTexts, TypeOK, NEW c \in Client, SessionRight(c),
         \/ Proceed(c) \/ logout(c) \/ Kill(c)
         \/ \E r \in Request : send_command(c, r)
  PROVE  SessionRight(c)'
<1> USE SessionsAssumption DEF wires, loop, program, handlers, accounts, Goto, Wires, Unheard,
        Joining, Joined, Resting, Left, Sent, Using, Answered
<1>a. /\ inbox \in [Client -> Seq(Request \cup {Syn, Junk})]
      /\ DOMAIN pc = Client /\ DOMAIN ask = Client /\ DOMAIN inbox = Client
      /\ DOMAIN outbox = Client /\ DOMAIN end = Client
      /\ coord \in {"up", "down"}
  BY DEF TypeOK, AcceptTypeOK
<1>1. CASE connection_establish(c)
  BY <1>1, <1>a DEF connection_establish, SessionRight, Connect
<1>2. CASE connection_refused(c)
  BY <1>2, <1>a DEF connection_refused, SessionRight
<1>3. CASE send_syn(c)
  <2>1. inbox'[c] = <<Syn>>
    BY <1>3, <1>a, OneMessage DEF send_syn, Send, SessionRight
  <2> QED
    BY <1>3, <1>a, <2>1 DEF send_syn, SessionRight
<1>4. CASE recv_response(c)
  <2>1. pc[c] \in {"ack", "wait"} /\ outbox[c] # << >>
    BY <1>4, OneMessage DEF recv_response
  <2>2. end[c] = "open" /\ inbox[c] = << >> /\ server[c] = "recv"
    BY <2>1 DEF SessionRight
  <2> QED
    BY <1>4, <1>a, <2>1, <2>2 DEF recv_response, SessionRight
<1>5. CASE recv_fails(c)
  <2>1. pc[c] \in {"ack", "wait"}
    BY <1>5 DEF recv_fails
  <2>2. \/ outbox[c] = << >>
        \/ (Len(outbox[c]) = 1 /\ Head(outbox[c]).member = Member(ask[c]))
    <3>1. Len(<<Connected>>) = 1 /\ Head(<<Connected>>) = Connected
      BY OneMessage
    <3>2. Connected.member = Member(NoAsk)
      BY DEF Connected, Reply
    <3> QED
      BY <2>1, <3>1, <3>2 DEF SessionRight
  <2>3. coord = "down" /\ coord' = coord
    <3>1. \/ outbox[c] = << >> /\ coord = "down"
          \/ Len(outbox[c]) > 1
          \/ Len(outbox[c]) = 1 /\ Head(outbox[c]).member # Member(ask[c])
      BY <1>5 DEF recv_fails
    <3>2. CASE outbox[c] = << >>
      <4>1. Len(outbox[c]) = 0
        BY <3>2
      <4> QED
        BY <1>5, <3>1, <4>1 DEF recv_fails
    <3>3. CASE Len(outbox[c]) = 1 /\ Head(outbox[c]).member = Member(ask[c])
      BY <3>1, <3>3
    <3> QED
      BY <2>2, <3>2, <3>3
  <2>4. pc'[c] = "aborted"
    BY <1>5, <1>a DEF recv_fails
  <2> QED
    BY <2>3, <2>4 DEF SessionRight
<1>6. CASE logout(c)
  BY <1>6, <1>a DEF logout, SessionRight, Close, Left
<1>7. CASE Kill(c)
  <2>1. /\ pc[c] \in {"syn", "ack", "wait"} /\ pc'[c] = "killed"
        /\ end'[c] = IF outbox[c] = << >> THEN "closed" ELSE "reset"
        /\ UNCHANGED <<inbox, outbox, ask, server, document>>
    BY <1>7, <1>a DEF Kill, Close
  <2> QED
    BY <2>1, OneMessage DEF SessionRight
<1>8. ASSUME NEW r \in Request, send_command(c, r) PROVE SessionRight(c)'
  <2>1. pc[c] = "ready" /\ pc'[c] = "wait" /\ ask'[c] = r
        /\ UNCHANGED <<outbox, end, server, document>>
    BY <1>8, <1>a DEF send_command
  <2>2. inbox'[c] = <<r>>
    <3>1. Units(r) = <<r>>
      BY RequestFacts
    <3> QED
      BY <1>8, <1>a, <2>1, <3>1, OneMessage DEF send_command, Send, SessionRight
  <2> QED
    BY <2>1, <2>2 DEF SessionRight
<1> QED
  BY <1>1, <1>2, <1>3, <1>4, <1>5, <1>6, <1>7, <1>8 DEF Proceed

(* A request that a thread receives: it is the client's own, or that of a  *)
(* client that has left, which the thread repeats.                         *)
LEMMA Receiving ==
  ASSUME PlainTexts, TypeOK, NEW c \in Client, SessionRight(c), coord = "up",
         server[c] = "recv", HasText(c)
  PROVE  \/ /\ Sent(c) /\ pc[c] \in {"wait", "killed"} /\ end[c] \in {"open", "closed"}
            /\ pc[c] = "wait" <=> end[c] = "open"
            /\ Parses(c) /\ Parsed(c) = ask[c]
            /\ Taken(c) => inbox' = [inbox EXCEPT ![c] = << >>]
         \/ /\ inbox[c] = << >> /\ end[c] \in {"closed", "dead"}
            /\ pc[c] \in {"out", "killed"}
            /\ end[c] = "dead" \/ ask[c] = NoAsk
            /\ ~Parses(c) /\ Parsed(c) = document[c]
            /\ Taken(c) => inbox' = [inbox EXCEPT ![c] = << >>]
<1>1. CASE Sent(c)
  <2>1. ask[c] \in Request /\ inbox[c] = <<ask[c]>>
    BY <1>1 DEF Sent, Wires
  <2>2. ask[c] # Junk /\ ask[c] # NoAsk
    BY <2>1, RequestFacts
  <2>3. /\ Parses(c) /\ Parsed(c) = ask[c]
        /\ Taken(c) => inbox' = [inbox EXCEPT ![c] = << >>]
    BY <2>1, <2>2, OneText DEF Parsed
  <2>4. pc[c] \in {"off", "syn", "ack", "ready", "wait", "out", "spin", "killed", "aborted"}
    BY DEF TypeOK
  <2>5. inbox[c] # << >>
    BY <2>1, OneMessage
  <2> QED
    BY <1>1, <2>2, <2>3, <2>4, <2>5 DEF SessionRight, Unheard, Joining, Joined,
       Resting, Left, Using, Answered, Sent, Wires
<1>2. CASE ~Sent(c)
  <2>1. inbox[c] = << >>
    <3>1. pc[c] \in {"off", "syn", "ack", "ready", "wait", "out", "spin", "killed", "aborted"}
      BY DEF TypeOK
    <3> QED
      BY <1>2, <3>1 DEF SessionRight, Unheard, Joining, Joined, Resting, Left,
         Using, Answered, Wires
  <2>2. ~Parses(c) /\ end[c] \in {"closed", "dead"}
        /\ (Taken(c) => inbox' = [inbox EXCEPT ![c] = << >>])
    BY <2>1, NoText
  <2>3. pc[c] \in {"off", "syn", "ack", "ready", "wait", "out", "spin", "killed", "aborted"}
    BY DEF TypeOK
  <2>4. pc[c] \in {"out", "killed"} /\ (end[c] = "dead" \/ ask[c] = NoAsk)
    BY <1>2, <2>2, <2>3 DEF SessionRight, Unheard, Joining, Joined, Resting, Left,
       Using, Wires
  <2> QED
    BY <2>1, <2>2, <2>4 DEF Parsed
<1> QED
  BY <1>1, <1>2

(* An answer to what a thread has received keeps the session right, or the *)
(* coordinator ends because the client has left.                           *)
LEMMA AnswerRight ==
  ASSUME PlainTexts, TypeOK, NEW c \in Client, SessionRight(c), NEW text, NEW purpose,
         Receive(c, purpose), purpose # "none", purpose = "data" => text = "value",
         Respond(c, Parsed(c), text), UNCHANGED server
  PROVE  /\ SessionRight(c)'
         /\ coord' = "down" => pc[c] \in {"out", "killed"} /\ end[c] # "open"
<1> USE DEF Receive, loop, program
<1>a. /\ outbox \in [Client -> Seq([member : {"status", "value"},
                     text : {"connected", "success", "exists", "failure", "invalid",
                             "value"}])]
      /\ DOMAIN document = Client /\ DOMAIN inbox = Client
      /\ DOMAIN end = Client /\ end[c] \in {"open", "closed", "dead", "reset"}
  BY SessionsAssumption DEF TypeOK, AcceptTypeOK
<1>b. /\ pc' = pc /\ ask' = ask /\ server' = server
      /\ server[c] = "recv" /\ coord = "up" /\ document'[c] = Parsed(c)
      /\ Parsed(c).purpose = purpose
  BY <1>a
<1>1. CASE /\ Sent(c) /\ pc[c] \in {"wait", "killed"} /\ end[c] \in {"open", "closed"}
           /\ pc[c] = "wait" <=> end[c] = "open"
           /\ Parses(c) /\ Parsed(c) = ask[c]
           /\ Taken(c) => inbox' = [inbox EXCEPT ![c] = << >>]
  <2>1. inbox'[c] = << >> /\ outbox[c] = << >> /\ ask[c] \in Request
    BY <1>a, <1>1 DEF Sent, Wires
  <2>2. PICK m : m = Reply(ask[c], text)
    OBVIOUS
  <2>3. outbox'[c] = <<m>> /\ coord' = coord
        /\ end'[c] = IF end[c] = "open" THEN "open" ELSE "dead"
    BY <1>a, <1>1, <2>1, <2>2, OneMessage DEF Respond, Answer
  <2>4. m.member = Member(ask[c]) /\ (ask[c].purpose = "data" => m.text = "value")
    BY <1>b, <1>1, <2>2 DEF Reply
  <2>5. CASE end[c] = "open"
    <3>1. Answered(c)'
      BY <1>b, <1>1, <2>1, <2>3, <2>4, OneMessage DEF Answered
    <3> QED
      BY <1>b, <1>1, <2>3, <2>5, <3>1 DEF SessionRight
  <2>6. CASE end[c] = "closed"
    BY <1>b, <1>1, <2>1, <2>3, <2>6, OneMessage DEF SessionRight
  <2> QED
    BY <1>1, <1>b, <2>3, <2>5, <2>6
<1>2. CASE /\ inbox[c] = << >> /\ end[c] \in {"closed", "dead"}
           /\ pc[c] \in {"out", "killed"}
           /\ end[c] = "dead" \/ ask[c] = NoAsk
           /\ ~Parses(c) /\ Parsed(c) = document[c]
           /\ Taken(c) => inbox' = [inbox EXCEPT ![c] = << >>]
  <2>1. inbox'[c] = << >> /\ document'[c] = document[c]
    BY <1>a, <1>2
  <2>2. CASE pc[c] = "out"
    <3>1. Left(c)
      BY <1>2, <1>b, <2>2 DEF SessionRight, Unheard
    <3>2. Left(c)'
      BY <3>1, <2>1, <1>b DEF Left
    <3>3. end'[c] \in {"closed", "dead"}
      BY <1>a, <1>2 DEF Respond
    <3> QED
      BY <1>b, <1>2, <2>2, <3>2, <3>3 DEF SessionRight
  <2>3. CASE pc[c] = "killed"
    <3>1. end[c] = "dead"
      <4>1. NoAsk.purpose = "none"
        BY DEF NoAsk
      <4> QED
        BY <4>1, <1>2, <1>b, <2>3, OneMessage
           DEF SessionRight, Unheard, Joining, Joined, Sent, Using, Wires
    <3>2. coord' = "down" /\ end' = end /\ outbox' = outbox
      BY <3>1 DEF Respond
    <3> QED
      BY <1>b, <1>2, <2>1, <2>3, <3>1, <3>2 DEF SessionRight
  <2> QED
    BY <1>2, <2>2, <2>3
<1>3. HasText(c)
  OBVIOUS
<1> QED
  BY <1>b, <1>1, <1>2, <1>3, Receiving

(* The coordinator ends at a thread of c only when c has left, or when     *)
(* there was a race.                                                       *)
EndsRight(c) ==
  coord' = "down" => coord = "down" \/ raced \/ (pc[c] \in {"out", "killed"} /\ end[c] # "open")

(* The loop, as far as it is at client c.                                  *)
LEMMA ListenRight ==
  ASSUME PlainTexts, TypeOK, NEW c \in Client, SessionRight(c), LoopRight,
         alwaysListen(c)
  PROVE  SessionRight(c)' /\ EndsRight(c) /\ pc' = pc /\ end' = end
<1> USE SessionsAssumption DEF wires, loop, program, handlers, accounts, Wires, Unheard, Joining,
        Joined, Resting, Left, Sent, Using, Answered
<1>a. /\ DOMAIN server = Client /\ DOMAIN inbox = Client /\ DOMAIN outbox = Client
      /\ DOMAIN end = Client /\ end[c] \in {"open", "closed", "dead", "reset"}
      /\ pc[c] \in {"off", "syn", "ack", "ready", "wait", "out", "spin", "killed",
                    "aborted"}
  BY DEF TypeOK, AcceptTypeOK
<1>1. CASE accept(c) /\ UNCHANGED <<accounts, program, handlers>>
  BY <1>1, <1>a DEF accept, SessionRight, EndsRight
<1>b. current = c => server[c] = "none" /\ pc[c] # "off"
  BY DEF LoopRight, Queued
<1>2. CASE FirstMessage(c, "client") /\ Answer(c, Connected)
           /\ server' = [server EXCEPT ![c] = "recv"]
           /\ UNCHANGED <<accounts, program, document>>
  <2>1. coord = "up" /\ current = c /\ Parses(c) /\ Taken(c) /\ coord' = coord
        /\ end' = end
    BY <1>2 DEF FirstMessage
  <2>2. inbox[c] # << >>
    BY <2>1, NoText
  <2>3. Joining(c) /\ (pc[c] = "ack" \/ (pc[c] = "killed" /\ end[c] = "closed"))
    BY <1>a, <1>b, <2>1, <2>2 DEF SessionRight
  <2>4. inbox'[c] = << >>
    BY <1>a, <2>1, <2>3, OneText
  <2>5. outbox'[c] = <<Connected>>
    BY <1>2, <1>a, <2>3, OneMessage DEF Answer
  <2>6. Joined(c)' /\ server'[c] = "recv"
    BY <1>2, <1>a, <2>3, <2>4, <2>5
  <2> QED
    BY <1>2, <2>1, <2>3, <2>6 DEF SessionRight, EndsRight
<1>3. CASE FirstFails(c) /\ UNCHANGED <<accounts, program, handlers>>
  <2>1. coord = "up" /\ current = c /\ (HasError(c) \/ (HasText(c) /\ ~Parses(c)))
        /\ coord' = "down" /\ wires' = wires
    BY <1>3 DEF FirstFails
  <2>2. ~Joining(c)
    BY <2>1, OneText, SynIsNoJunk
  <2>3. server[c] = "none" /\ end[c] # "open" /\ pc[c] = "killed"
    <3>1. server[c] = "none" /\ inbox[c] = << >>
      BY <1>a, <1>b, <2>1, <2>2 DEF SessionRight
    <3>2. end[c] # "open"
      BY <1>a, <2>1, <3>1, NoText
    <3> QED
      BY <1>a, <2>1, <3>1, <3>2 DEF SessionRight
  <2>4. UNCHANGED <<pc, ask, server, document, inbox, outbox, end>>
    BY <1>3, <2>1
  <2> QED
    BY <2>1, <2>3, <2>4 DEF SessionRight, EndsRight
<1> QED
  BY <1>1, <1>2, <1>3 DEF alwaysListen

(* The coordinator ends; nothing else of c changes.                        *)
LEMMA EndingRight ==
  ASSUME NEW c \in Client, SessionRight(c), coord = "up", coord' = "down", Same(c)
  PROVE  SessionRight(c)'
BY DEF Same, SessionRight, Wires, Unheard, Joining, Joined, Resting, Left, Sent,
   Using, Answered

(* Where a thread is that is in clientmap.                                 *)
LEMMA InMap ==
  ASSUME TypeOK, NEW c \in Client, SessionRight(c), coord = "up", server[c] = "map"
  PROVE  \/ Using(c) /\ pc[c] = "wait" /\ end[c] = "open"
         \/ Using(c) /\ pc[c] = "killed" /\ end[c] = "closed"
         \/ Left(c) /\ pc[c] = "out" /\ end[c] \in {"closed", "dead"}
         \/ /\ pc[c] = "killed" /\ end[c] = "dead" /\ inbox[c] = << >>
            /\ outbox[c] # << >> /\ ask[c] \in Request /\ document[c] = ask[c]
<1>1. pc[c] \in {"off", "syn", "ack", "ready", "wait", "out", "spin", "killed",
                 "aborted"}
  BY DEF TypeOK
<1> QED
  BY <1>1 DEF SessionRight, Unheard, Joining, Joined, Resting, Left, Sent, Answered

(* A thread that leaves clientmap answers.                                 *)
LEMMA LeaveRight ==
  ASSUME PlainTexts, TypeOK, NEW c \in Client, SessionRight(c), NEW text, Leave(c, text)
  PROVE  /\ SessionRight(c)' /\ EndsRight(c) /\ pc' = pc
         /\ (end[c] # "open" => end'[c] # "open")
         /\ coord' = "down" => pc[c] \in {"out", "killed"} /\ end[c] # "open"
<1>a. /\ DOMAIN server = Client /\ DOMAIN outbox = Client
      /\ DOMAIN end = Client /\ end[c] \in {"open", "closed", "dead", "reset"}
  BY SessionsAssumption DEF TypeOK, AcceptTypeOK
<1>1. /\ server[c] = "map" /\ coord = "up" /\ server'[c] = "recv"
      /\ UNCHANGED <<inbox, pc, ask, document>> /\ Respond(c, document[c], text)
  BY <1>a DEF Leave, program
<1>2. end[c] # "open" => end'[c] # "open"
  BY <1>a, <1>1 DEF Respond
<1>3. CASE Using(c) /\ (pc[c] = "wait" \/ pc[c] = "killed")
           /\ end[c] = IF pc[c] = "wait" THEN "open" ELSE "closed"
  <2>1. PICK m : m = Reply(ask[c], text)
    OBVIOUS
  <2>2. outbox'[c] = <<m>> /\ coord' = "up"
        /\ end'[c] = IF end[c] = "open" THEN "open" ELSE "dead"
    BY <1>a, <1>1, <1>3, <2>1, OneMessage DEF Respond, Answer, Using, Wires
  <2>3. m.member = Member(ask[c]) /\ ask[c].purpose # "data"
    BY <1>3, <2>1 DEF Reply, Using, Purpose
  <2>4. CASE pc[c] = "wait"
    <3>1. Answered(c)'
      BY <1>1, <1>3, <2>2, <2>3, OneMessage DEF Answered, Using, Wires
    <3> QED
      BY <1>1, <1>2, <1>3, <2>2, <2>4, <3>1 DEF SessionRight, EndsRight
  <2>5. CASE pc[c] = "killed"
    BY <1>1, <1>2, <1>3, <2>2, <2>5, OneMessage DEF SessionRight, Using, Wires, EndsRight
  <2> QED
    BY <1>3, <2>4, <2>5
<1>4. CASE Left(c) /\ pc[c] = "out" /\ end[c] \in {"closed", "dead"}
  <2>1. Left(c)' /\ end'[c] \in {"closed", "dead"}
    BY <1>a, <1>1, <1>4 DEF Left, Respond
  <2> QED
    BY <1>1, <1>2, <1>4, <2>1 DEF SessionRight, EndsRight
<1>5. CASE /\ pc[c] = "killed" /\ end[c] = "dead" /\ inbox[c] = << >>
           /\ outbox[c] # << >> /\ ask[c] \in Request /\ document[c] = ask[c]
  <2>1. coord' = "down" /\ end' = end /\ outbox' = outbox
    BY <1>1, <1>5 DEF Respond
  <2> QED
    BY <1>1, <1>2, <1>5, <2>1 DEF SessionRight, EndsRight
<1> QED
  BY <1>1, <1>3, <1>4, <1>5, InMap

(* A thread enters clientmap with the request of its client, or with the   *)
(* last one of a client that has left.                                     *)
LEMMA EnterRight ==
  ASSUME PlainTexts, TypeOK, NEW c \in Client, SessionRight(c), enter_clientmap(c)
  PROVE  /\ SessionRight(c)' /\ server'[c] = "map" /\ server[c] = "recv"
         /\ Using(c)' \/ Parsed(c) = document[c]
         /\ document'[c] = Parsed(c) /\ Parsed(c).purpose \in Purpose
         /\ UNCHANGED <<coord, end, outbox, pc, ask, clientmap>>
<1>a. /\ DOMAIN server = Client /\ DOMAIN inbox = Client /\ DOMAIN document = Client
  BY SessionsAssumption DEF TypeOK, AcceptTypeOK
<1>1. /\ coord = "up" /\ server[c] = "recv" /\ HasText(c)
      /\ Parsed(c).purpose \in Purpose /\ document'[c] = Parsed(c) /\ Taken(c)
      /\ pc' = pc /\ ask' = ask /\ server'[c] = "map"
      /\ UNCHANGED <<coord, end, outbox, clientmap>>
  BY <1>a DEF enter_clientmap, Receive, program, Silent
<1>2. CASE /\ Sent(c) /\ pc[c] \in {"wait", "killed"} /\ end[c] \in {"open", "closed"}
           /\ pc[c] = "wait" <=> end[c] = "open"
           /\ Parsed(c) = ask[c]
           /\ inbox' = [inbox EXCEPT ![c] = << >>]
  <2>1. Using(c)'
    BY <1>a, <1>1, <1>2 DEF Using, Sent, Wires
  <2> QED
    BY <1>1, <1>2, <2>1 DEF SessionRight
<1>3. CASE /\ inbox[c] = << >> /\ end[c] \in {"closed", "dead"}
           /\ pc[c] \in {"out", "killed"}
           /\ end[c] = "dead" \/ ask[c] = NoAsk
           /\ Parsed(c) = document[c]
           /\ inbox' = [inbox EXCEPT ![c] = << >>]
  <2>1. inbox'[c] = << >> /\ document'[c] = document[c]
    BY <1>a, <1>1, <1>3
  <2>2. CASE pc[c] = "out"
    <3>1. Left(c)
      BY <1>1, <1>3, <2>2 DEF SessionRight
    <3>2. Left(c)'
      BY <1>1, <2>1, <3>1 DEF Left
    <3> QED
      BY <1>1, <1>3, <2>2, <3>2 DEF SessionRight
  <2>3. CASE pc[c] = "killed"
    <3>1. end[c] = "dead"
      <4>1. NoAsk.purpose = "none" /\ "none" \notin Purpose
        BY DEF NoAsk, Purpose
      <4>2. document[c].purpose \in Purpose
        BY <1>1, <1>3
      <4>3. ask[c] = NoAsk => end[c] = "dead"
        BY <4>1, <4>2, <1>1, <1>3, <2>3, RequestFacts
           DEF SessionRight, Unheard, Joining, Joined, Sent, Using, Wires
      <4> QED
        BY <1>3, <4>3
    <3> QED
      BY <1>1, <1>3, <2>1, <2>3, <3>1 DEF SessionRight
  <2> QED
    BY <1>1, <1>3, <2>2, <2>3
<1> QED
  BY <1>1, <1>2, <1>3, Receiving

(* A thread is lost in a broken clientmap, or ends the coordinator.        *)
LEMMA BrokenRight ==
  ASSUME PlainTexts, TypeOK, NEW c \in Client, SessionRight(c), clientmap_broken(c)
  PROVE  SessionRight(c)' /\ EndsRight(c) /\ pc' = pc
         /\ (end[c] # "open" => end'[c] # "open")
<1>1. CASE \E text \in Answers(document[c].purpose) : Leave(c, text)
  BY <1>1, LeaveRight
<1>2. CASE /\ coord = "up" /\ server[c] = "map"
           /\ \/ server' = [server EXCEPT ![c] = "hung"] /\ UNCHANGED coord
              \/ coord' = "down" /\ UNCHANGED server
           /\ UNCHANGED <<loop, wires, program, document, raced>>
  <2>1. /\ server'[c] \in {"map", "hung"}
        /\ UNCHANGED <<inbox, outbox, end, pc, ask, document>>
    BY <1>2 DEF TypeOK, wires, program
  <2>2. raced
    BY DEF clientmap_broken
  <2>3. SessionRight(c)'
    BY <1>2, <2>1, InMap DEF SessionRight, Using, Left, Wires
  <2> QED
    BY <2>1, <2>2, <2>3 DEF EndsRight
<1> QED
  BY <1>1, <1>2 DEF clientmap_broken

(* The thread of client c.                                                 *)
LEMMA HandlerRight ==
  ASSUME PlainTexts, TypeOK, NEW c \in Client, SessionRight(c), TakenRight,
         clientHandle(c)
  PROVE  SessionRight(c)' /\ EndsRight(c) /\ pc' = pc
         /\ (end[c] # "open" => end'[c] # "open")
<1>a. /\ DOMAIN server = Client /\ DOMAIN inbox = Client /\ DOMAIN document = Client
      /\ DOMAIN end = Client /\ end[c] \in {"open", "closed", "dead", "reset"}
      /\ pc[c] \in {"off", "syn", "ack", "ready", "wait", "out", "spin", "killed",
                    "aborted"}
  BY SessionsAssumption DEF TypeOK, AcceptTypeOK
<1>b. ASSUME NEW text, NEW purpose, Receive(c, purpose), purpose # "none",
             purpose = "data" => text = "value", Respond(c, Parsed(c), text),
             UNCHANGED server
      PROVE  SessionRight(c)' /\ EndsRight(c) /\ pc' = pc
             /\ (end[c] # "open" => end'[c] # "open")
  <2>1. pc' = pc
    BY <1>b DEF Receive, program
  <2>2. end[c] # "open" => end'[c] # "open"
    BY <1>a, <1>b DEF Respond
  <2> QED
    BY <1>b, <2>1, <2>2, AnswerRight DEF EndsRight
<1>1. CASE create_user(c) \/ login(c)
  BY <1>1, LeaveRight DEF create_user, login
<1>2. CASE enter_clientmap(c)
  BY <1>2, EnterRight DEF EndsRight
<1>3. CASE clientmap_broken(c)
  BY <1>3, BrokenRight
<1>c. ASSUME NEW purpose, Receive(c, purpose), coord' = "down",
             UNCHANGED <<end, outbox, accounts, server>>, ~Parses(c)
      PROVE  SessionRight(c)' /\ EndsRight(c) /\ pc' = pc
             /\ (end[c] # "open" => end'[c] # "open")
  <2>1. /\ coord = "up" /\ server[c] = "recv" /\ HasText(c) /\ Taken(c)
        /\ document' = [document EXCEPT ![c] = Parsed(c)] /\ pc' = pc /\ ask' = ask
    BY <1>c DEF Receive, program
  <2>2. /\ end[c] \in {"closed", "dead"} /\ pc[c] \in {"out", "killed"}
        /\ inbox[c] = << >> /\ Parsed(c) = document[c]
        /\ inbox' = [inbox EXCEPT ![c] = << >>]
    BY <1>c, <2>1, Receiving
  <2>3. Same(c)
    BY <1>a, <1>c, <2>1, <2>2 DEF Same
  <2> QED
    BY <1>c, <2>1, <2>2, <2>3, EndingRight DEF EndsRight
<1>4. CASE serveData(c)
  <2>1. CASE Parses(c)
    BY <1>4, <1>b, <2>1 DEF serveData
  <2>2. CASE ~Parses(c)
    BY <1>4, <1>c, <2>2 DEF serveData
  <2> QED
    BY <2>1, <2>2
<1>5. CASE clientHandleAsserts(c)
  <2>1. ~Parses(c)
    <3>1. coord = "up" /\ server[c] = "recv" /\ HasText(c) /\ Parsed(c).purpose = "none"
      BY <1>5 DEF clientHandleAsserts, Receive
    <3>2. ask[c] \in Request => ask[c].purpose # "none"
      BY RequestFacts
    <3> QED
      BY <3>1, <3>2, Receiving DEF Sent
  <2> QED
    BY <1>5, <1>c, <2>1 DEF clientHandleAsserts
<1>6. CASE clientHandleReturns(c)
  <2>1. /\ coord = "up" /\ server[c] = "recv" /\ server'[c] = "ended"
        /\ HasError(c)
        /\ UNCHANGED <<coord, inbox, outbox, end, pc, ask, document>>
    BY <1>6, <1>a DEF clientHandleReturns, wires, program
  <2>2. inbox[c] = << >> /\ end[c] = "reset"
    BY <2>1 DEF HasError
  <2>3. pc[c] = "killed" /\ outbox[c] # << >>
    BY <1>a, <2>1, <2>2 DEF SessionRight
  <2> QED
    BY <2>1, <2>2, <2>3 DEF SessionRight, EndsRight
<1> QED
  BY <1>1, <1>2, <1>3, <1>4, <1>5, <1>6 DEF clientHandle

(* What any step of c, or for c, does to its session.                      *)
LEMMA OwnStep ==
  ASSUME PlainTexts, SessionsInv, NEW c \in Client, Step(c)
  PROVE  /\ SessionRight(c)'
         /\ \/ EndsRight(c) /\ coord' # coord /\ pc' = pc
            \/ coord' = coord
         /\ end[c] # "open" => end'[c] # "open"
         /\ pc[c] \in {"out", "killed"} => pc'[c] = pc[c]
<1>a. /\ TypeOK /\ SessionRight(c) /\ LoopRight /\ TakenRight
      /\ DOMAIN end = Client /\ DOMAIN pc = Client
  BY SessionsAssumption DEF SessionsInv, TypeOK, AcceptTypeOK
<1>1. CASE Proceed(c) \/ logout(c) \/ Kill(c) \/ \E r \in Request : send_command(c, r)
  <2>1. SessionRight(c)'
    BY <1>1, <1>a, ClientRight
  <2>2. coord' = coord /\ (pc[c] \in {"out", "killed"} => pc'[c] = pc[c])
    BY <1>1, <1>a DEF Proceed, connection_establish, connection_refused,
       send_syn, recv_response, recv_fails, logout, Kill, send_command, Goto
  <2>3. end[c] # "open" => end'[c] # "open"
    BY <1>1, <1>a DEF Proceed, connection_establish, connection_refused,
       send_syn, recv_response, recv_fails, logout, Kill, send_command, Close,
       wires
  <2> QED
    BY <2>1, <2>2, <2>3
<1>2. CASE alwaysListen(c)
  BY <1>2, <1>a, ListenRight
<1>3. CASE clientHandle(c)
  BY <1>3, <1>a, HandlerRight
<1> QED
  BY <1>1, <1>2, <1>3 DEF Step
----------------------------------------------------------------------------
(* The other parts of the invariant.                                       *)

(* Every step keeps DownRight.                                             *)
LEMMA DownStep ==
  ASSUME PlainTexts, SessionsInv, NEW c \in Client, Step(c)
  PROVE  DownRight'
<1> SUFFICES ASSUME coord' = "down", ~raced'
             PROVE  \E d \in Client : pc'[d] \in {"out", "killed"} /\ end'[d] # "open"
  BY DEF DownRight
<1>3. ~raced
  BY StaysRaced
<1>1. CASE coord = "down"
  <2>1. PICK d \in Client : pc[d] \in {"out", "killed"} /\ end[d] # "open"
    BY <1>1, <1>3 DEF SessionsInv, DownRight
  <2>2. CASE d = c
    BY <2>1, <2>2, OwnStep
  <2>3. CASE d # c
    BY <2>1, <2>3, OthersStep DEF Same, SessionsInv
  <2> QED
    BY <2>2, <2>3
<1>2. CASE coord # "down"
  <2>1. pc[c] \in {"out", "killed"} /\ end[c] # "open"
    BY <1>2, <1>3, OwnStep DEF EndsRight
  <2> QED
    BY <2>1, OwnStep
<1> QED
  BY <1>1, <1>2

(* Every step keeps LoopRight: the accept loop takes each client once.     *)
LEMMA LoopStep ==
  ASSUME SessionsInv, NEW c \in Client, Step(c)
  PROVE  LoopRight'
<1> USE SessionsAssumption DEF loop, handlers, program, wires, accounts
<1>a. /\ backlog \in Seq(Client) /\ current \in Client \cup {NoPeer} /\ NoPeer \notin Client
      /\ DOMAIN pc = Client /\ DOMAIN server = Client
      /\ server \in [Client -> {"none", "recv", "map", "hung", "ended"}]
      /\ LoopRight
  BY AcceptAssumption DEF TypeOK, AcceptTypeOK, SessionsInv
<1>1. CASE connection_establish(c)
  <2>1. backlog' = Append(backlog, c) /\ current' = current /\ server' = server
        /\ pc[c] = "off" /\ pc' = [pc EXCEPT ![c] = "syn"]
    BY <1>1 DEF connection_establish, Connect, Goto
  <2>2. current # c /\ \A i \in DOMAIN backlog : backlog[i] # c
    BY <1>a, <2>1 DEF LoopRight, Queued
  <2>3. server[c] = "none"
    BY <2>1 DEF SessionsInv, SessionRight, Unheard
  <2>4. /\ DOMAIN backlog = 1 .. Len(backlog) /\ Len(backlog) \in Nat
        /\ DOMAIN backlog' = 1 .. Len(backlog) + 1
        /\ \A i \in 1 .. Len(backlog) : backlog'[i] = backlog[i]
        /\ backlog'[Len(backlog) + 1] = c
    BY <1>a, <2>1, AppendProperties, LenProperties
  <2>5. \A i \in DOMAIN backlog' : \/ i \in DOMAIN backlog /\ backlog'[i] = backlog[i]
                                   \/ i = Len(backlog) + 1 /\ backlog'[i] = c
    BY <2>4
  <2>6. \A i, j \in DOMAIN backlog' : backlog'[i] = backlog'[j] => i = j
    BY <1>a, <2>2, <2>5 DEF LoopRight
  <2>7. \A i \in DOMAIN backlog' : backlog'[i] # current'
    BY <1>a, <2>1, <2>2, <2>5 DEF LoopRight
  <2>8. ASSUME NEW d \in Client, Queued(d)' PROVE server'[d] = "none" /\ pc'[d] # "off"
    <3>1. CASE d = c
      BY <1>a, <2>1, <2>3, <3>1
    <3>2. CASE d # c
      <4>1. Queued(d)
        BY <2>1, <2>5, <2>8, <3>2 DEF Queued
      <4> QED
        BY <1>a, <2>1, <3>2, <4>1 DEF LoopRight
    <3> QED
      BY <3>1, <3>2
  <2> QED
    BY <2>6, <2>7, <2>8 DEF LoopRight
<1>2. CASE accept(c) /\ UNCHANGED <<accounts, program, handlers>>
  <2>1. /\ current = NoPeer /\ current' = c /\ c = Head(backlog) /\ backlog # << >>
        /\ backlog' = Tail(backlog) /\ UNCHANGED <<pc, server>>
    BY <1>2 DEF accept
  <2>2. /\ c = backlog[1] /\ 1 \in DOMAIN backlog
        /\ \A i \in DOMAIN backlog' :
              i \in Nat \ {0} /\ i + 1 \in DOMAIN backlog /\ backlog'[i] = backlog[i + 1]
    BY <1>a, <2>1, HeadTailProperties, LenProperties
  <2>3. \A i, j \in DOMAIN backlog' : backlog'[i] = backlog'[j] => i = j
    <3> SUFFICES ASSUME NEW i \in DOMAIN backlog', NEW j \in DOMAIN backlog',
                        backlog'[i] = backlog'[j]
                 PROVE  i = j
      OBVIOUS
    <3>1. i + 1 = j + 1
      BY <1>a, <2>2 DEF LoopRight
    <3> QED
      BY <2>2, <3>1
  <2>4. \A i \in DOMAIN backlog' : backlog'[i] # current'
    <3> SUFFICES ASSUME NEW i \in DOMAIN backlog', backlog'[i] = c PROVE FALSE
      BY <2>1
    <3>1. i + 1 = 1
      BY <1>a, <2>2 DEF LoopRight
    <3> QED
      BY <2>2, <3>1
  <2>5. \A d \in Client : Queued(d)' => Queued(d)
    BY <2>1, <2>2 DEF Queued
  <2> QED
    BY <1>a, <2>1, <2>3, <2>4, <2>5 DEF LoopRight
<1>3. CASE FirstMessage(c, "client") /\ server' = [server EXCEPT ![c] = "recv"]
           /\ UNCHANGED <<accounts, program, document>>
  <2>1. current = c /\ current' = NoPeer /\ UNCHANGED <<backlog, pc>>
    BY <1>3 DEF FirstMessage
  <2>2. \A i \in DOMAIN backlog : backlog[i] # c /\ backlog[i] \in Client
    BY <1>a, <2>1 DEF LoopRight
  <2> QED
    BY <1>a, <1>3, <2>1, <2>2 DEF LoopRight, Queued
<1>4. ASSUME backlog' = backlog, current' = current,
             pc'[c] # "off" \/ pc' = pc,
             \A d \in Client : d # c => pc'[d] = pc[d],
             \/ server' = server
             \/ server[c] # "none" /\ \A d \in Client : d # c => server'[d] = server[d]
      PROVE  LoopRight'
  BY <1>a, <1>4 DEF LoopRight, Queued
<1>5. CASE \/ connection_refused(c) \/ send_syn(c) \/ recv_response(c) \/ recv_fails(c)
           \/ logout(c) \/ Kill(c) \/ \E r \in Request : send_command(c, r)
  BY <1>a, <1>4, <1>5 DEF connection_refused, send_syn, recv_response,
     recv_fails, logout, Kill, send_command, Goto
<1>6. CASE FirstFails(c) /\ UNCHANGED <<accounts, program, handlers>>
  BY <1>4, <1>6 DEF FirstFails
<1>7. CASE clientHandle(c)
  BY <1>a, <1>4, <1>7 DEF clientHandle, create_user, login, enter_clientmap,
     clientmap_broken, Leave, serveData, clientHandleAsserts,
     clientHandleReturns, Receive
<1> QED
  BY <1>1, <1>2, <1>3, <1>5, <1>6, <1>7 DEF Step, Proceed, alwaysListen

(* Every step keeps TakenRight: nothing is ever taken out of clientmap.    *)
LEMMA TakenStep ==
  ASSUME PlainTexts, SessionsInv, NEW c \in Client, Step(c)
  PROVE  TakenRight'
<1> USE SessionsAssumption DEF handlers, program, accounts
<1>a. /\ TypeOK /\ SessionRight(c) /\ TakenRight /\ LoopRight
      /\ DOMAIN server = Client /\ DOMAIN document = Client /\ DOMAIN clientmap = User
  BY DEF SessionsInv, TypeOK
<1>n. raced => raced'
  BY StaysRaced
<1>b. NoAsk.purpose = "none"
  BY DEF NoAsk
<1>1. ASSUME clientmap' = clientmap,
             \/ server'[c] = server[c] /\ document'[c] = document[c]
             \/ server'[c] # "recv"
             \/ document'[c].purpose # "create_user"
             \/ clientmap[document'[c].user] # NoPassword
      PROVE  TakenRight'
  BY <1>a, <1>1, <1>n, OthersStep DEF TakenRight, Same
<1>2. CASE \/ Proceed(c) \/ logout(c) \/ Kill(c)
           \/ \E r \in Request : send_command(c, r)
  BY <1>1, <1>2 DEF Proceed, connection_establish, connection_refused, send_syn,
     recv_response, recv_fails, logout, Kill, send_command
<1>3. CASE alwaysListen(c)
  <2>1. CASE accept(c) /\ UNCHANGED <<accounts, program, handlers>>
    BY <1>1, <2>1
  <2>2. CASE FirstFails(c) /\ UNCHANGED <<accounts, program, handlers>>
    BY <1>1, <2>2
  <2>3. CASE FirstMessage(c, "client") /\ UNCHANGED <<accounts, program, document>>
    <3>1. document[c] = NoAsk
      <4>1. server[c] = "none"
        BY <1>a, <2>3 DEF FirstMessage, LoopRight, Queued
      <4>2. inbox[c] # << >>
        BY <1>a, <2>3, NoText DEF FirstMessage
      <4>3. pc[c] \in {"off", "syn", "ack", "ready", "wait", "out", "spin", "killed",
                       "aborted"} /\ coord = "up"
        BY <2>3 DEF FirstMessage, SessionsInv, TypeOK
      <4> QED
        BY <1>a, <4>1, <4>2, <4>3 DEF SessionRight, Unheard, Joining, Joined,
           Resting, Left, Sent, Using, Answered, Wires
    <3> QED
      BY <1>1, <1>b, <2>3, <3>1
  <2> QED
    BY <1>3, <2>1, <2>2, <2>3 DEF alwaysListen
<1>4. CASE enter_clientmap(c)
  BY <1>1, <1>4, <1>a, EnterRight
<1>5. CASE create_user(c)
  <2>1. ~raced /\ document' = document /\ server[c] = "map"
        /\ document[c].purpose = "create_user"
    BY <1>5 DEF create_user, Leave
  <2>2. document[c].user \in User /\ document[c].password \in Password
    <3>1. document[c] \in Request
      BY <1>b, <2>1 DEF SessionsInv, TypeOK
    <3> QED
      BY <2>1, <3>1, RequestFacts DEF Purpose
  <2>3. clientmap'[document[c].user] # NoPassword
    BY <1>5, <1>a, <2>1, <2>2 DEF create_user, Inserts
  <2>4. \A u \in User : clientmap[u] # NoPassword => clientmap'[u] # NoPassword
    BY <1>5, <1>a, <2>2 DEF create_user
  <2>6. ASSUME NEW d \in Client, server'[d] = "recv",
               document'[d].purpose = "create_user"
        PROVE  clientmap'[document'[d].user] # NoPassword
    <3>1. CASE d = c
      BY <2>1, <2>3, <3>1
    <3>2. CASE d # c
      <4>1. server[d] = "recv"
        BY <1>a, <2>6, <3>2, OthersStep DEF Same
      <4>2. clientmap[document[d].user] # NoPassword
        BY <1>a, <2>1, <2>6, <4>1 DEF TakenRight
      <4>3. document[d].user \in User
        <5>1. document[d] \in Request
          BY <1>b, <2>1, <2>6 DEF SessionsInv, TypeOK
        <5> QED
          BY <5>1, <2>1, <2>6, RequestFacts DEF Purpose
      <4> QED
        BY <2>1, <2>4, <2>6, <4>2, <4>3
    <3> QED
      BY <3>1, <3>2
  <2> QED
    BY <2>6 DEF TakenRight
<1>8. CASE login(c)
  BY <1>1, <1>8, <1>a DEF login, Leave
<1>9. CASE clientmap_broken(c)
  BY <1>n, <1>9 DEF clientmap_broken, TakenRight
<1>6. CASE serveData(c) \/ clientHandleAsserts(c)
  <2>1. document'[c].purpose # "create_user" /\ clientmap' = clientmap
    BY <1>6, <1>a DEF serveData, clientHandleAsserts, Receive
  <2> QED
    BY <1>1, <2>1
<1>7. CASE clientHandleReturns(c)
  BY <1>1, <1>7, <1>a DEF clientHandleReturns
<1> QED
  BY <1>2, <1>3, <1>4, <1>5, <1>6, <1>7, <1>8, <1>9 DEF Step, clientHandle

Text6 == {"connected", "success", "exists", "failure", "invalid", "value"}
Replies == [member : {"status", "value"}, text : Text6]

(* Each step keeps every variable in its type.                             *)
LEMMA TypeStep ==
  ASSUME PlainTexts, SessionsInv, NEW c \in Client, Step(c)
  PROVE  TypeOK'
<1> USE SessionsAssumption DEF handlers, program, loop, wires, accounts
<1> DEFINE M == Request \cup {Syn, Junk}
<1>a. /\ coord \in {"up", "down"}
      /\ backlog \in Seq(Peer) /\ Len(backlog) <= BACKLOG
      /\ current \in Peer \cup {NoPeer}
      /\ inbox \in [Peer -> Seq(M)] /\ outbox \in [Peer -> Seq(Replies)]
      /\ end \in [Peer -> {"open", "closed", "dead", "reset"}]
      /\ clientmap \in [User -> Password \cup {NoPassword}]
      /\ pc \in [Client -> {"off", "syn", "ack", "ready", "wait", "out", "spin",
                            "killed", "aborted"}]
      /\ ask \in [Client -> Request \cup {NoAsk}]
      /\ commands \in 0 .. MaxCommands
      /\ server \in [Client -> {"none", "recv", "map", "hung", "ended"}]
      /\ document \in [Client -> Request \cup {NoAsk}]
      /\ raced \in BOOLEAN
      /\ TypeOK /\ SessionRight(c) /\ TakenRight /\ LoopRight
  BY DEF SessionsInv, TypeOK, AcceptTypeOK, Replies, Text6
<1>r. \A r, t : t \in Text6 => Reply(r, t) \in Replies
  BY DEF Reply, Replies, Member
<1>1. coord' \in {"up", "down"}
  BY <1>a DEF Step, Proceed, connection_establish, connection_refused, send_syn,
     recv_response, recv_fails, logout, Kill, send_command, alwaysListen,
     accept, FirstMessage, FirstFails, clientHandle, create_user, login,
     enter_clientmap,
       clientmap_broken, Leave, serveData, clientHandleAsserts, clientHandleReturns, Respond,
     Silent
<1>2. backlog' \in Seq(Peer) /\ Len(backlog') <= BACKLOG
      /\ current' \in Peer \cup {NoPeer}
  <2>1. CASE connection_establish(c)
    <3>1. Append(backlog, c) \in Seq(Peer)
          /\ Len(Append(backlog, c)) = Len(backlog) + 1
      BY <1>a, AppendProperties
    <3>2. Len(backlog) < BACKLOG /\ Len(backlog) \in Nat /\ BACKLOG \in Nat
      BY <2>1, <1>a, AcceptAssumption, LenProperties DEF connection_establish,
         Connect
    <3>3. Len(backlog) + 1 <= BACKLOG
      BY <3>2
    <3> QED
      BY <1>a, <2>1, <3>1, <3>3 DEF connection_establish, Connect
  <2>2. CASE accept(c)
    <3>1. backlog # << >> /\ backlog' = Tail(backlog) /\ current' = c
      BY <2>2 DEF accept
    <3>2. Tail(backlog) \in Seq(Peer) /\ Len(Tail(backlog)) = Len(backlog) - 1
          /\ Len(backlog) \in Nat /\ BACKLOG \in Nat
      BY <1>a, <3>1, AcceptAssumption, HeadTailProperties, LenProperties
    <3> QED
      BY <1>a, <3>1, <3>2
  <2>3. CASE FirstMessage(c, "client")
    BY <1>a, <2>3 DEF FirstMessage
  <2>4. CASE UNCHANGED loop
    BY <1>a, <2>4
  <2> QED
    BY <2>1, <2>2, <2>3, <2>4 DEF Step, Proceed, connection_refused, send_syn,
       recv_response, recv_fails, logout, Kill, send_command, alwaysListen,
       FirstFails, clientHandle, create_user, login, enter_clientmap,
       clientmap_broken, Leave, serveData,
       clientHandleAsserts, clientHandleReturns, Receive
<1>3. inbox' \in [Peer -> Seq(M)]
  <2>1. CASE Taken(c)
    <3>1. SubSeq(inbox[c], Fits(c) + 1, Len(inbox[c])) \in Seq(M)
      <4>1. inbox[c] \in Seq(M) /\ Len(inbox[c]) \in Nat /\ Fits(c) \in Nat
            /\ DOMAIN inbox[c] = 1 .. Len(inbox[c])
        BY <1>a, AcceptAssumption, LenProperties DEF Fits
      <4>2. /\ Fits(c) + 1 \in Int
            /\ \A i \in Fits(c) + 1 .. Len(inbox[c]) : i \in 1 .. Len(inbox[c])
        BY <4>1
      <4>3. \A i \in Fits(c) + 1 .. Len(inbox[c]) : inbox[c][i] \in M
        BY <4>1, <4>2, ElementOfSeq
      <4> QED
        BY <4>1, <4>2, <4>3, SubSeqProperties
    <3> QED
      BY <1>a, <2>1, <3>1 DEF Taken
  <2>2. CASE inbox' = inbox
    BY <1>a, <2>2
  <2>3. ASSUME NEW x \in M, Send(c, <<x>>) PROVE inbox' \in [Peer -> Seq(M)]
    <3>1. inbox[c] \o <<x>> \in Seq(M)
      <4>1. inbox[c] \in Seq(M) /\ <<x>> \in Seq(M)
        BY <1>a, OneMessage
      <4> QED
        BY <4>1, ConcatProperties
    <3> QED
      BY <1>a, <2>3, <3>1 DEF Send
  <2>4. CASE send_syn(c)
    BY <2>3, <2>4 DEF send_syn
  <2>5. CASE \E r \in Request : send_command(c, r)
    BY <2>3, <2>5, RequestFacts DEF send_command
  <2> HIDE DEF M
  <2> QED
    BY <2>1, <2>2, <2>4, <2>5 DEF Step, Proceed, connection_establish,
       connection_refused, recv_response, recv_fails, logout, Kill,
       alwaysListen, accept, FirstMessage, FirstFails, clientHandle,
       create_user, login, enter_clientmap,
       clientmap_broken, Leave, serveData, clientHandleAsserts,
       clientHandleReturns, Receive
<1> HIDE DEF M
<1>4. outbox' \in [Peer -> Seq(Replies)]
      /\ end' \in [Peer -> {"open", "closed", "dead", "reset"}]
  <2>1. ASSUME NEW r, NEW t \in Text6, Answer(c, Reply(r, t))
        PROVE  outbox' \in [Peer -> Seq(Replies)]
    <3>1. Append(outbox[c], Reply(r, t)) \in Seq(Replies)
      BY <1>a, <1>r, AppendProperties
    <3> QED
      BY <1>a, <2>1, <3>1 DEF Answer
  <2>2. ASSUME NEW r, NEW t \in Text6, Respond(c, r, t)
        PROVE  outbox' \in [Peer -> Seq(Replies)]
               /\ end' \in [Peer -> {"open", "closed", "dead", "reset"}]
    BY <1>a, <2>1, <2>2 DEF Respond
  <2>3. CASE \/ connection_establish(c) \/ connection_refused(c) \/ send_syn(c)
             \/ logout(c) \/ Kill(c)
             \/ \E r \in Request : send_command(c, r)
    BY <1>a, <2>3 DEF connection_establish, connection_refused, send_syn,
       logout, Kill, send_command, Close
  <2>4. CASE recv_response(c)
    BY <1>a, <2>4, EmptySeq DEF recv_response
  <2>12. CASE recv_fails(c)
    BY <1>a, <2>12, EmptySeq DEF recv_fails, Close
  <2>5. CASE alwaysListen(c)
    BY <1>a, <2>1, <2>5 DEF alwaysListen, accept, FirstMessage, FirstFails,
       Connected, Text6
  <2>6. ASSUME NEW t \in Text6, Leave(c, t)
        PROVE  outbox' \in [Peer -> Seq(Replies)]
               /\ end' \in [Peer -> {"open", "closed", "dead", "reset"}]
    BY <2>2, <2>6 DEF Leave
  <2>9. CASE create_user(c)
    BY <2>6, <2>9 DEF create_user, Text6
  <2>7. CASE login(c)
    <3>1. PICK t : t \in Text6 /\ Leave(c, t)
      <4>1. PICK t : t = CASE clientmap[document[c].user] = document[c].password -> "success"
                           [] clientmap[document[c].user] = NoPassword -> "failure"
                           [] OTHER -> "invalid"
        OBVIOUS
      <4>2. t \in {"success", "failure", "invalid"}
        BY <4>1
      <4> QED
        BY <2>7, <4>1, <4>2 DEF login, Text6
    <3> QED
      BY <2>6, <3>1
  <2>10. CASE enter_clientmap(c)
    BY <1>a, <2>10 DEF enter_clientmap, Silent
  <2>11. CASE clientmap_broken(c)
    <3>1. \A p : Answers(p) \subseteq Text6
      BY DEF Answers, Text6
    <3> QED
      BY <1>a, <2>6, <2>11, <3>1 DEF clientmap_broken
  <2>8. CASE serveData(c) \/ clientHandleAsserts(c) \/ clientHandleReturns(c)
    BY <1>a, <2>2, <2>8 DEF serveData, clientHandleAsserts, clientHandleReturns,
       Text6
  <2> QED
    BY <2>3, <2>4, <2>5, <2>7, <2>8, <2>9, <2>10, <2>11, <2>12
       DEF Step, Proceed, clientHandle
<1>5. clientmap' \in [User -> Password \cup {NoPassword}]
  <2>1. CASE create_user(c)
    <3>1. document[c] \in Request
      <4>1. NoAsk.purpose = "none"
        BY DEF NoAsk
      <4> QED
        BY <1>a, <2>1, <4>1 DEF create_user
    <3>2. document[c].user \in User /\ document[c].password \in Password
      BY <2>1, <3>1, RequestFacts DEF create_user, Purpose
    <3> QED
      BY <1>a, <2>1, <3>2 DEF create_user
  <2>2. CASE clientmap' = clientmap
    BY <1>a, <2>2
  <2> QED
    BY <2>1, <2>2 DEF Step, Proceed, connection_establish, connection_refused,
       send_syn, recv_response, recv_fails, logout, Kill, send_command,
       alwaysListen, clientHandle, enter_clientmap, clientmap_broken, login,
       serveData, clientHandleAsserts, clientHandleReturns
<1>10. raced' \in BOOLEAN
  BY <1>a DEF Step, Proceed, connection_establish, connection_refused,
     send_syn, recv_response, recv_fails, logout, Kill, send_command,
     alwaysListen, clientHandle, enter_clientmap, clientmap_broken, create_user,
     login, Leave, serveData, clientHandleAsserts, clientHandleReturns
<1>6. /\ pc' \in [Client -> {"off", "syn", "ack", "ready", "wait", "out", "spin",
                             "killed", "aborted"}]
      /\ ask' \in [Client -> Request \cup {NoAsk}]
      /\ commands' \in 0 .. MaxCommands
  <2>1. ASSUME NEW r \in Request, send_command(c, r)
        PROVE  commands' \in 0 .. MaxCommands
               /\ ask' \in [Client -> Request \cup {NoAsk}]
    <3>1. commands < MaxCommands /\ commands' = commands + 1
      BY <2>1 DEF send_command
    <3>2. commands + 1 \in 0 .. MaxCommands
      BY <1>a, <3>1
    <3> QED
      BY <1>a, <2>1, <3>1, <3>2 DEF send_command
  <2>2. CASE \E r \in Request : send_command(c, r)
    BY <1>a, <2>1, <2>2 DEF send_command, Goto
  <2>3. CASE Proceed(c) \/ logout(c) \/ Kill(c)
    <3>0. ASSUME NEW v \in {"syn", "out", "ack", "spin"},
                 pc' = [pc EXCEPT ![c] = v], ask' = ask, commands' = commands
          PROVE  /\ pc' \in [Client -> {"off", "syn", "ack", "ready", "wait", "out",
                                         "spin", "killed", "aborted"}]
                 /\ ask' \in [Client -> Request \cup {NoAsk}]
                 /\ commands' \in 0 .. MaxCommands
      BY <1>a, <3>0
    <3>1. CASE connection_establish(c) \/ connection_refused(c) \/ send_syn(c)
      <4>1. /\ ask' = ask /\ commands' = commands
            /\ \/ pc' = [pc EXCEPT ![c] = "syn"]
               \/ pc' = [pc EXCEPT ![c] = "out"]
               \/ pc' = [pc EXCEPT ![c] = "ack"]
        BY <3>1, Zenon DEF connection_establish, connection_refused, send_syn, Goto
      <4> QED
        BY <3>0, <4>1
    <3>2. CASE recv_response(c)
      BY <1>a, <3>2 DEF recv_response, Goto
    <3>3. CASE recv_fails(c)
      BY <1>a, <3>3 DEF recv_fails, Goto
    <3>4. CASE logout(c)
      <4>1. /\ ask' = ask /\ commands' = commands
            /\ \/ pc' = [pc EXCEPT ![c] = "out"]
               \/ pc' = [pc EXCEPT ![c] = "spin"]
        BY <3>4, Zenon DEF logout, Goto
      <4> QED
        BY <3>0, <4>1
    <3>5. CASE Kill(c)
      BY <1>a, <3>5 DEF Kill, Goto
    <3> QED
      BY <2>3, <3>1, <3>2, <3>3, <3>4, <3>5 DEF Proceed
  <2>4. CASE UNCHANGED program
    BY <1>a, <2>4
  <2> QED
    BY <2>2, <2>3, <2>4 DEF Step, alwaysListen, clientHandle, create_user,
       login, enter_clientmap,
       clientmap_broken, Leave, serveData, clientHandleAsserts, clientHandleReturns,
       Receive
<1>7. server' \in [Client -> {"none", "recv", "map", "hung", "ended"}]
  BY <1>a DEF Step, Proceed, connection_establish, connection_refused, send_syn,
     recv_response, recv_fails, logout, Kill, send_command, alwaysListen,
     clientHandle, create_user, login, enter_clientmap,
       clientmap_broken, Leave, serveData,
     clientHandleAsserts, clientHandleReturns
<1>8. document' \in [Client -> Request \cup {NoAsk}]
  <2>1. ASSUME NEW purpose, Receive(c, purpose)
        PROVE  document' \in [Client -> Request \cup {NoAsk}]
    <3>1. Parsed(c) \in Request \cup {NoAsk}
      <4>1. Parsed(c) = ask[c] \/ Parsed(c) = document[c]
        BY <1>a, <2>1, Receiving DEF Receive
      <4>2. ask[c] \in Request \cup {NoAsk} /\ document[c] \in Request \cup {NoAsk}
        BY <1>a
      <4> QED
        BY <4>1, <4>2
    <3> QED
      BY <1>a, <2>1, <3>1 DEF Receive
  <2>2. CASE document' = document
    BY <1>a, <2>2
  <2> QED
    BY <2>1, <2>2 DEF Step, Proceed, connection_establish, connection_refused,
       send_syn, recv_response, recv_fails, logout, Kill, send_command,
       alwaysListen, clientHandle, create_user, login, enter_clientmap,
       clientmap_broken, Leave, serveData,
       clientHandleAsserts, clientHandleReturns
<1>9. ASSUME NEW d \in Client, server'[d] = "map"
      PROVE  document'[d].purpose \in Purpose
  <2>a. server[d] = "map" => document[d].purpose \in Purpose
    BY DEF SessionsInv, TypeOK
  <2>1. CASE d # c
    BY <1>9, <2>a, <1>a, <2>1, OthersStep DEF Same
  <2>2. CASE d = c /\ enter_clientmap(c)
    BY <1>a, <2>2, EnterRight
  <2>3. CASE d = c /\ ~enter_clientmap(c)
    <3>1. server[c] = "map" /\ document'[c] = document[c]
      BY <1>1, <1>9, <1>a, <2>3 DEF Step, Proceed, connection_establish,
         connection_refused, send_syn, recv_response, recv_fails, logout, Kill,
         send_command, alwaysListen, clientHandle, clientmap_broken, create_user,
         login, Leave, serveData, clientHandleAsserts, clientHandleReturns, Receive
    <3> QED
      BY <2>3, <2>a, <3>1
  <2> QED
    BY <2>1, <2>2, <2>3
<1> QED
  BY <1>1, <1>2, <1>3, <1>4, <1>5, <1>6, <1>7, <1>8, <1>9, <1>10
     DEF TypeOK, AcceptTypeOK, Replies, Text6, M

(* The invariant is inductive.                                             *)
LEMMA SessionsInvInit == Init => SessionsInv
<1> SUFFICES ASSUME Init PROVE SessionsInv
  OBVIOUS
<1> USE SessionsAssumption DEF Init, AcceptInit
<1>1. TypeOK
  <2>1. << >> \in Seq(Peer) /\ Len(<< >>) <= BACKLOG
    BY AcceptAssumption
  <2>2. AcceptTypeOK(Request \cup {Syn, Junk},
                     [member : {"status", "value"},
                      text : {"connected", "success", "exists", "failure", "invalid",
                              "value"}])
    BY <2>1 DEF AcceptTypeOK
  <2>3. /\ clientmap \in [User -> Password \cup {NoPassword}]
        /\ pc \in [Client -> {"off", "syn", "ack", "ready", "wait", "out", "spin",
                              "killed", "aborted"}]
        /\ ask \in [Client -> Request \cup {NoAsk}] /\ commands \in 0 .. MaxCommands
    OBVIOUS
  <2>4. /\ server \in [Client -> {"none", "recv", "map", "hung", "ended"}]
        /\ document \in [Client -> Request \cup {NoAsk}]
        /\ \A c \in Client : server[c] # "map"
        /\ raced \in BOOLEAN
    OBVIOUS
  <2> QED
    BY <2>2, <2>3, <2>4 DEF TypeOK
<1>2. \A c \in Client : SessionRight(c)
  BY DEF SessionRight, Unheard, Wires
<1>3. LoopRight
  BY AcceptAssumption DEF LoopRight, Queued
<1> QED
  BY <1>1, <1>2, <1>3 DEF SessionsInv, DownRight, TakenRight

(* Every step keeps the inductive invariant.                               *)
LEMMA SessionsInvStep == PlainTexts /\ SessionsInv /\ [Next]_vars => SessionsInv'
<1> SUFFICES ASSUME PlainTexts, SessionsInv, [Next]_vars PROVE SessionsInv'
  OBVIOUS
<1>1. ASSUME NEW c \in Client, Step(c) PROVE SessionsInv'
  <2>1. \A d \in Client : SessionRight(d)'
    BY <1>1, OwnStep, OthersRight DEF SessionsInv
  <2>2. TypeOK'
    BY <1>1, TypeStep
  <2> QED
    BY <1>1, <2>1, <2>2, LoopStep, DownStep, TakenStep DEF SessionsInv
<1>2. CASE UNCHANGED vars
  <2> USE <1>2 DEF vars, program, handlers, accounts, loop, wires
  <2>1. TypeOK'
    BY DEF SessionsInv, TypeOK, AcceptTypeOK
  <2>2. ASSUME NEW c \in Client PROVE SessionRight(c)'
    BY DEF SessionsInv, SessionRight, Wires, Unheard, Joining, Joined, Resting, Left,
       Sent, Using, Answered
  <2>3. LoopRight' /\ DownRight' /\ TakenRight'
    BY DEF SessionsInv, LoopRight, Queued, DownRight, TakenRight
  <2> QED
    BY <2>1, <2>2, <2>3 DEF SessionsInv
<1> QED
  BY <1>1, <1>2 DEF Next, Step

(* While texts are short and plain, what is on a client's wires and in its *)
(* thread's document is what the client's place in its program says        *)
(* (Client.cpp, and clientHandle in coordination_server.cpp): the          *)
(* inductive invariant.                                                    *)
THEOREM SessionsInvariant == ASSUME PlainTexts PROVE Spec => []SessionsInv
<1> USE PlainTexts
<1> QED
  BY SessionsInvInit, SessionsInvStep, PTL DEF Spec

(* As long as nobody leaves and there was no race in clientmap, each       *)
(* client is answered by an answer to its own request, and none is         *)
(* disturbed by another.                                                   *)
THEOREM ClientsUndisturbed ==
  ASSUME PlainTexts PROVE Spec => []NobodyDisturbed
<1>1. PlainTexts /\ SessionsInv => NobodyDisturbed
  <2> SUFFICES ASSUME PlainTexts, SessionsInv, ~raced,
                      \A c \in Client : end[c] = "open" \/ pc[c] = "aborted"
               PROVE  /\ coord = "up" /\ \A c \in Client : pc[c] # "aborted"
                      /\ AnswersOwnRequest
    BY DEF NobodyDisturbed
  <2>1. coord = "up"
    BY DEF SessionsInv, DownRight, TypeOK, AcceptTypeOK
  <2>2. \A c \in Client : pc[c] # "aborted"
    BY <2>1 DEF SessionsInv, SessionRight
  <2>3. ASSUME NEW c \in Client, outbox[c] # << >>
        PROVE  Joined(c) \/ Answered(c)
    <3>1. end[c] = "open" /\ SessionRight(c) /\ pc[c] # "aborted"
          /\ pc[c] \in {"off", "syn", "ack", "ready", "wait", "out", "spin", "killed",
                        "aborted"}
      BY <2>2 DEF SessionsInv, TypeOK
    <3> QED
      BY <2>1, <2>3, <3>1 DEF SessionRight, Unheard, Joining, Sent, Using,
         Wires
  <2>4. ASSUME NEW c \in Client, outbox[c] # << >>
        PROVE  /\ Len(outbox[c]) = 1
               /\ ask[c].purpose = "data" => Head(outbox[c]).text = "value"
               /\ ask[c].purpose \in Purpose => document[c] = ask[c]
    <3>1. CASE Joined(c)
      <4>1. NoAsk.purpose \notin Purpose \cup {"data"}
        BY DEF NoAsk, Purpose
      <4> QED
        BY <3>1, <4>1, OneMessage DEF Joined, Wires
    <3>2. CASE Answered(c)
      BY <3>2 DEF Answered
    <3> QED
      BY <2>3, <2>4, <3>1, <3>2
  <2> QED
    BY <2>1, <2>2, <2>4 DEF AnswersOwnRequest
<1> USE PlainTexts
<1> QED
  BY <1>1, SessionsInvariant, PTL

----------------------------------------------------------------------------
(* Accounts, until there is a race in clientmap.                           *)

(* Only the insertion of a new user changes clientmap.                     *)
LEMMA MapChanges ==
  ASSUME NEW c \in Client, Step(c), clientmap' # clientmap
  PROVE  create_user(c)
BY DEF Step, Proceed, connection_establish, connection_refused, send_syn,
   recv_response, recv_fails, logout, Kill, send_command, alwaysListen,
   clientHandle, enter_clientmap, login, clientmap_broken, serveData,
   clientHandleAsserts, clientHandleReturns, accounts

(* A step other than a thread's entry leaves who is in clientmap where it  *)
(* was, with the request it had.                                           *)
LEMMA StaysIn ==
  ASSUME SessionsInv, NEW c \in Client, Step(c), ~enter_clientmap(c), ~raced',
         server'[c] = "map"
  PROVE  /\ server[c] = "map" /\ document'[c] = document[c]
         /\ Using(c) => Using(c)'
<1> USE SessionsAssumption DEF handlers, program, accounts, wires
<1>a. /\ DOMAIN server = Client /\ DOMAIN document = Client /\ DOMAIN inbox = Client
      /\ DOMAIN outbox = Client /\ DOMAIN ask = Client /\ SessionRight(c) /\ TypeOK
  BY DEF SessionsInv, TypeOK, AcceptTypeOK
<1>1. server[c] = "map" /\ document'[c] = document[c]
  BY <1>a, StaysRaced DEF Step, Proceed, connection_establish, connection_refused,
     send_syn, recv_response, recv_fails, logout, Kill, send_command,
     alwaysListen, clientHandle, clientmap_broken, create_user, login, Leave,
     serveData, clientHandleAsserts, clientHandleReturns, Receive
<1>2. ~clientHandle(c)
  BY <1>1, <1>a, StaysRaced DEF clientHandle, clientmap_broken, create_user, login, Leave,
     serveData, clientHandleAsserts, clientHandleReturns, Receive
<1>3. ASSUME Using(c) PROVE Using(c)'
  <2>1. server'[c] = server[c] /\ outbox[c] = << >> /\ inbox[c] = << >>
    BY <1>1, <1>3 DEF Using, Wires
  <2>2. CASE connection_establish(c) \/ connection_refused(c) \/ logout(c) \/ Kill(c)
    BY <1>3, <2>1, <2>2 DEF connection_establish, connection_refused, logout, Kill,
       Using, Wires
  <2>3. ~send_syn(c) /\ ~recv_response(c)
    <3>1. ~send_syn(c)
      BY <1>1, <1>a DEF send_syn, Goto, SessionRight, Unheard
    <3>2. Len(outbox[c]) # 1
      BY <2>1
    <3> QED
      BY <3>1, <3>2 DEF recv_response
  <2>4. CASE recv_fails(c)
    BY <1>3, <1>a, <2>1, <2>4 DEF recv_fails, Using, Wires
  <2>5. \A r \in Request : ~send_command(c, r)
    BY <1>1, <1>a DEF send_command, Goto, SessionRight, Resting
  <2>6. CASE alwaysListen(c)
    <3>1. ~FirstMessage(c, "client")
      BY <2>1, <1>a, NoText DEF FirstMessage
    <3> QED
      BY <1>3, <2>1, <2>6, <3>1 DEF alwaysListen, accept, FirstFails, Using, Wires
  <2> QED
    BY <1>2, <2>2, <2>3, <2>4, <2>5, <2>6 DEF Step, Proceed
<1> QED
  BY <1>1, <1>3

(* Every step keeps InsertRight.                                           *)
LEMMA InsertStep ==
  PlainTexts /\ SessionsInv /\ InsertRight /\ [Next]_vars => InsertRight'
<1> SUFFICES ASSUME PlainTexts, SessionsInv, InsertRight, [Next]_vars
             PROVE  InsertRight'
  OBVIOUS
<1>1. ASSUME NEW c \in Client, Step(c) PROVE InsertRight'
  <2> SUFFICES ASSUME ~raced', NEW d \in Client, server'[d] = "map", Inserts(document[d])'
               PROVE  /\ Using(d)'
                      /\ \A e \in Client \ {d} : server'[e] # "map"
    BY DEF InsertRight
  <2>a. \A e \in Client : e # c => Same(e)
    BY <1>1, OthersStep DEF SessionsInv
  <2>b. ~raced /\ TypeOK /\ SessionRight(c) /\ TakenRight
    BY <1>1, StaysRaced DEF SessionsInv
  <2>1. CASE enter_clientmap(c)
    <3>1. /\ server'[c] = "map" /\ server[c] = "recv" /\ clientmap' = clientmap
          /\ (Using(c)' \/ Parsed(c) = document[c]) /\ document'[c] = Parsed(c)
      BY <2>1, <2>b, EnterRight
    <3>2. \A e \in Client \ {c} :
            server[e] = "map" => ~Inserts(document[e]) /\ ~Inserts(Parsed(c))
      BY <2>1, <2>b DEF enter_clientmap
    <3>3. CASE d = c
      <4>1. Inserts(Parsed(c))
        BY <3>1, <3>3 DEF Inserts
      <4>2. ~(Parsed(c) = document[c])
        BY <2>b, <3>1, <4>1 DEF TakenRight, Inserts
      <4> QED
        BY <2>a, <3>1, <3>2, <3>3, <4>1, <4>2 DEF Same
    <3>4. CASE d # c
      <4>1. server[d] = "map" /\ document'[d] = document[d]
        BY <2>a, <3>4 DEF Same
      <4>2. Inserts(document[d])
        BY <3>1, <4>1 DEF Inserts
      <4> QED
        BY <3>2, <3>4, <4>1, <4>2
    <3> QED
      BY <3>3, <3>4
  <2>2. CASE ~enter_clientmap(c)
    <3>1. \A e \in Client : server'[e] = "map" =>
            server[e] = "map" /\ document'[e] = document[e] /\ (Using(e) => Using(e)')
      <4>1. ASSUME NEW e \in Client, server'[e] = "map", e # c
            PROVE  server[e] = "map" /\ document'[e] = document[e]
                   /\ (Using(e) => Using(e)')
        BY <2>a, <4>1 DEF Same, Using, Wires
      <4>2. server'[c] = "map" =>
              server[c] = "map" /\ document'[c] = document[c] /\ (Using(c) => Using(c)')
        BY <1>1, <2>2, StaysIn
      <4> QED
        BY <4>1, <4>2
    <3>2. document[d].purpose = "create_user" /\ document[d].user \in User
      <4>1. document'[d].purpose = "create_user" /\ document'[d] = document[d]
        BY <3>1 DEF Inserts
      <4>2. document[d] \in Request
        <5>1. NoAsk.purpose = "none"
          BY DEF NoAsk
        <5> QED
          BY <4>1, <5>1, <2>b DEF TypeOK
      <4> QED
        BY <4>1, <4>2, RequestFacts DEF Purpose
    <3>3. Inserts(document[d])
      <4>1. clientmap'[document[d].user] = NoPassword
        BY <3>1 DEF Inserts
      <4>2. CASE clientmap' = clientmap
        BY <3>2, <4>1, <4>2 DEF Inserts
      <4>3. CASE create_user(c) /\ clientmap' # clientmap
        <5>1. /\ document[c].purpose = "create_user"
              /\ clientmap' = [clientmap EXCEPT ![document[c].user] = document[c].password]
          BY <4>3 DEF create_user
        <5>2. document[c] \in Request
          <6>1. NoAsk.purpose = "none"
            BY DEF NoAsk
          <6> QED
            BY <5>1, <6>1, <2>b DEF TypeOK
        <5>3. document[c].password # NoPassword
          BY <5>1, <5>2, RequestFacts, SessionsAssumption DEF Purpose
        <5> QED
          BY <2>b, <3>2, <4>1, <5>1, <5>3 DEF Inserts, TypeOK
      <4> QED
        BY <1>1, <4>2, <4>3, MapChanges
    <3> QED
      BY <2>b, <3>1, <3>3 DEF InsertRight
  <2> QED
    BY <2>1, <2>2
<1>2. CASE UNCHANGED vars
  BY <1>2 DEF vars, handlers, accounts, program, loop, wires, InsertRight, Inserts,
     Using, Wires
<1> QED
  BY <1>1, <1>2 DEF Next, Step

(* What a client has called, and what is on its way to it.                 *)
CallOf(c) == IF ask[c].purpose = "data" THEN NoAsk ELSE ask[c]

ResultOf(c) ==
  IF ask[c].purpose \in Purpose /\ outbox[c] # << >>
  THEN Head(outbox[c]).text ELSE "none"

Calls == [c \in Client |-> CallOf(c)]
Results == [c \in Client |-> ResultOf(c)]

Stutters(c) == CallOf(c)' = CallOf(c) /\ ResultOf(c)' = ResultOf(c)

Performs(c) ==
  /\ CallOf(c) # NoAsk /\ ResultOf(c) = "none"
  /\ CallOf(c)' = CallOf(c)
  /\ ResultOf(c)' = Contract!Outcome(CallOf(c))
  /\ clientmap' = IF CallOf(c).purpose = "create_user"
                     /\ Contract!Outcome(CallOf(c)) = "success"
                  THEN [clientmap EXCEPT ![CallOf(c).user] = CallOf(c).password]
                  ELSE clientmap

(* What the step of c is to Accounts, from what it does to c.              *)
LEMMA MappedStep ==
  ASSUME TypeOK, NEW c \in Client, Step(c),
         \/ Performs(c)
         \/ /\ clientmap' = clientmap
            /\ \/ Stutters(c)
               \/ ResultOf(c) # "none" /\ CallOf(c)' = NoAsk /\ ResultOf(c)' = "none"
               \/ /\ CallOf(c) = NoAsk /\ ResultOf(c)' = ResultOf(c)
                  /\ CallOf(c)' \in {r \in Request : r.purpose # "data"}
  PROVE  [Contract!Next]_(Contract!vars)
<1>1. \A d \in Client : d # c => CallOf(d)' = CallOf(d) /\ ResultOf(d)' = ResultOf(d)
  BY OthersStep DEF Same, CallOf, ResultOf
<1>2. Calls' = [Calls EXCEPT ![c] = CallOf(c)']
      /\ Results' = [Results EXCEPT ![c] = ResultOf(c)']
  BY <1>1 DEF Calls, Results
<1>3. Calls[c] = CallOf(c) /\ Results[c] = ResultOf(c)
  BY DEF Calls, Results
<1>4. /\ Calls = [d \in Client |-> IF ask[d].purpose = "data" THEN NoAsk ELSE ask[d]]
      /\ Results = [d \in Client |->
                      IF ask[d].purpose \in Purpose /\ outbox[d] # << >>
                      THEN Head(outbox[d]).text ELSE "none"]
      /\ Calls' = [d \in Client |-> IF ask'[d].purpose = "data" THEN NoAsk ELSE ask'[d]]
      /\ Results' = [d \in Client |->
                       IF ask'[d].purpose \in Purpose /\ outbox'[d] # << >>
                       THEN Head(outbox'[d]).text ELSE "none"]
  BY DEF Calls, Results, CallOf, ResultOf
<1>5. CASE Performs(c)
  <2>1. PICK r : r = CallOf(c)
    OBVIOUS
  <2>2. PICK o : o = Contract!Outcome(r)
    OBVIOUS
  <2>3. /\ Calls[c] = r /\ r # NoAsk /\ Results[c] = "none" /\ Calls' = Calls
        /\ Results' = [Results EXCEPT ![c] = o]
        /\ clientmap' = IF r.purpose = "create_user" /\ o = "success"
                        THEN [clientmap EXCEPT ![r.user] = r.password] ELSE clientmap
    <3>1. Calls' = Calls
      BY <1>2, <1>5 DEF Calls, Performs
    <3> QED
      BY <1>2, <1>3, <1>5, <2>1, <2>2, <3>1 DEF Performs
  <2>4. Contract!Perform(c)
    BY <1>4, <2>2, <2>3 DEF Contract!Perform
  <2> QED
    BY <2>4 DEF Contract!Next
<1>6. CASE clientmap' = clientmap /\ Stutters(c)
  <2>1. Calls' = Calls /\ Results' = Results
    BY <1>2, <1>6 DEF Stutters, Calls, Results
  <2> QED
    BY <1>4, <1>6, <2>1 DEF Contract!vars
<1>7. CASE /\ clientmap' = clientmap
           /\ ResultOf(c) # "none" /\ CallOf(c)' = NoAsk /\ ResultOf(c)' = "none"
  <2>1. Contract!Return(c)
    BY <1>2, <1>3, <1>4, <1>7 DEF Contract!Return
  <2> QED
    BY <2>1 DEF Contract!Next
<1>8. CASE /\ clientmap' = clientmap
           /\ CallOf(c) = NoAsk /\ ResultOf(c)' = ResultOf(c)
           /\ CallOf(c)' \in {r \in Request : r.purpose # "data"}
  <2>1. PICK r \in {r \in Request : r.purpose # "data"} : r = CallOf(c)'
    BY <1>8
  <2>2. Results' = Results
    BY <1>2, <1>8 DEF Results
  <2>3. Contract!Call(c, r)
    BY <1>2, <1>3, <1>4, <1>8, <2>1, <2>2 DEF Contract!Call
  <2> QED
    BY <2>1, <2>3 DEF Contract!Next
<1> QED
  BY <1>5, <1>6, <1>7, <1>8

(* The answer to a request for data is nothing to Accounts.                *)
LEMMA DataMapped ==
  ASSUME PlainTexts, SessionsInv, NEW c \in Client,
         Receive(c, "data"), Respond(c, Parsed(c), "value")
  PROVE  Stutters(c)
<1>a. /\ TypeOK /\ SessionRight(c) /\ coord = "up" /\ server[c] = "recv" /\ HasText(c)
      /\ ask' = ask /\ Parsed(c).purpose = "data"
  BY DEF SessionsInv, Receive, program
<1>b. NoAsk.purpose = "none" /\ "none" \notin Purpose /\ "data" \notin Purpose
  BY DEF NoAsk, Purpose
<1>1. CASE Parsed(c) = ask[c]
  BY <1>a, <1>b, <1>1 DEF Stutters, CallOf, ResultOf
<1>2. CASE ask[c] = NoAsk
  BY <1>a, <1>b, <1>2 DEF Stutters, CallOf, ResultOf
<1>3. CASE end[c] = "dead"
  BY <1>a, <1>3 DEF Respond, Stutters, CallOf, ResultOf
<1> QED
  BY <1>a, <1>1, <1>2, <1>3, Receiving

(* An answer that leaves clientmap alone is the request's effect when it   *)
(* is given to the client that waits for it, and nothing when the thread   *)
(* repeats the request of a client that has left.                          *)
LEMMA AnswerMapped ==
  ASSUME PlainTexts, SessionsInv, NEW c \in Client, NEW text,
         Leave(c, text), text = Contract!Outcome(document[c]),
         document[c].purpose = "create_user" => text # "success",
         clientmap' = clientmap
  PROVE  Performs(c) \/ Stutters(c)
<1>a. /\ TypeOK /\ SessionRight(c) /\ coord = "up" /\ server[c] = "map"
      /\ ask' = ask /\ Respond(c, document[c], text)
      /\ DOMAIN outbox = Client
  BY SessionsAssumption DEF SessionsInv, TypeOK, AcceptTypeOK, Leave, program
<1>b. NoAsk.purpose = "none" /\ "none" \notin Purpose /\ "data" \notin Purpose
  BY DEF NoAsk, Purpose
<1>1. CASE Using(c) /\ end[c] \in {"open", "closed"}
  <2>1. PICK m : m = Reply(ask[c], text)
    OBVIOUS
  <2>2. outbox[c] = << >> /\ ask[c] \in Request /\ ask[c].purpose \in Purpose
        /\ document[c] = ask[c]
    BY <1>1 DEF Using, Wires
  <2>3. outbox'[c] = <<m>> /\ m.text = text
    BY <1>1, <1>a, <2>1, <2>2, OneMessage DEF Respond, Answer, Reply
  <2>4. ask[c] # NoAsk /\ ask[c].purpose # "data"
    BY <1>b, <2>2
  <2>5. CallOf(c) = ask[c] /\ CallOf(c)' = ask[c] /\ ResultOf(c) = "none"
    BY <1>a, <2>2, <2>4 DEF CallOf, ResultOf
  <2>6. ResultOf(c)' = text
    BY <1>a, <2>2, <2>3, OneMessage DEF ResultOf
  <2> QED
    BY <2>2, <2>4, <2>5, <2>6 DEF Performs
<1>2. CASE ask[c] = NoAsk
  BY <1>a, <1>b, <1>2 DEF Stutters, CallOf, ResultOf
<1>3. CASE end[c] = "dead"
  BY <1>a, <1>3 DEF Respond, Stutters, CallOf, ResultOf
<1> QED
  BY <1>a, <1>1, <1>2, <1>3, InMap DEF Left

(* A step that changes neither what is asked nor what is answered.         *)
LEMMA QuietStep ==
  ASSUME NEW c \in Client, ask' = ask, outbox' = outbox
  PROVE  Stutters(c)
BY DEF Stutters, CallOf, ResultOf

(* Every step is a step of Accounts, or leaves it unchanged.               *)
LEMMA RefinementStep ==
  PlainTexts /\ SessionsInv /\ InsertRight /\ [Next]_vars
    => [Contract!Next \/ raced']_(Contract!vars)
<1> SUFFICES ASSUME PlainTexts, SessionsInv, InsertRight, [Next]_vars, ~raced'
             PROVE  [Contract!Next]_(Contract!vars)
  OBVIOUS
<1>b. NoAsk.purpose = "none" /\ "none" \notin Purpose /\ "data" \notin Purpose
  BY DEF NoAsk, Purpose
<1>1. ASSUME NEW c \in Client, Step(c) PROVE [Contract!Next]_(Contract!vars)
  <2> USE DEF program, handlers, wires, accounts
  <2>a. /\ TypeOK /\ SessionRight(c) /\ LoopRight /\ coord \in {"up", "down"}
        /\ pc[c] \in {"off", "syn", "ack", "ready", "wait", "out", "spin", "killed",
                      "aborted"}
        /\ ask[c] \in Request \cup {NoAsk}
        /\ DOMAIN ask = Client /\ DOMAIN outbox = Client
    BY SessionsAssumption DEF SessionsInv, TypeOK, AcceptTypeOK
  <2>b. \A r \in Request : /\ r.purpose \in {"create_user", "login", "data"} /\ r # NoAsk
                           /\ r.purpose \in Purpose => r.user \in User /\ r.password \in Password
    BY RequestFacts
  <2>1. CASE ask' = ask /\ outbox' = outbox /\ clientmap' = clientmap
    BY <1>1, <2>a, <2>1, QuietStep, MappedStep
  <2>2. CASE recv_response(c)
    <3>1. outbox'[c] = << >> /\ ask'[c] = NoAsk /\ clientmap' = clientmap
      BY <2>2, <2>a DEF recv_response
    <3>2. CallOf(c)' = NoAsk /\ ResultOf(c)' = "none"
      BY <1>b, <3>1 DEF CallOf, ResultOf
    <3>3. pc[c] \in {"ack", "wait"} /\ outbox[c] # << >>
      BY <2>2, OneMessage DEF recv_response, Goto
    <3>4. CASE ask[c].purpose \notin Purpose
      <4>1. CallOf(c) = NoAsk /\ ResultOf(c) = "none"
        BY <2>a, <2>b, <3>4 DEF CallOf, ResultOf, Purpose
      <4> QED
        BY <1>1, <2>a, <3>1, <3>2, <4>1, MappedStep DEF Stutters
    <3>5. CASE ask[c].purpose \in Purpose
      <4>1. Answered(c)
        BY <1>b, <2>a, <3>3, <3>5 DEF SessionRight, Joining, Joined, Sent,
           Using, Wires
      <4>2. ResultOf(c) = Head(outbox[c]).text
        BY <3>3, <3>5 DEF ResultOf
      <4>3. ResultOf(c) # "none"
        <5>1. outbox[c] \in Seq(Replies)
          BY <2>a, SessionsAssumption DEF TypeOK, AcceptTypeOK, Replies, Text6
        <5>2. Head(outbox[c]) \in Replies
          BY <3>3, <5>1, HeadTailProperties
        <5> QED
          BY <4>2, <5>2 DEF Replies, Text6
      <4> QED
        BY <1>1, <2>a, <3>1, <3>2, <4>3, MappedStep
    <3> QED
      BY <3>4, <3>5
  <2>3. ASSUME NEW r \in Request, send_command(c, r)
        PROVE  [Contract!Next]_(Contract!vars)
    <3>1. /\ pc[c] = "ready" /\ ask'[c] = r /\ outbox' = outbox /\ clientmap' = clientmap
      BY <2>3, <2>a DEF send_command, Goto
    <3>2. ask[c] = NoAsk /\ outbox[c] = << >>
      BY <2>a, <3>1 DEF SessionRight, Resting
    <3>3. CallOf(c) = NoAsk /\ ResultOf(c) = "none" /\ ResultOf(c)' = "none"
      BY <1>b, <3>1, <3>2 DEF CallOf, ResultOf
    <3>4. CASE r.purpose = "data"
      <4>1. CallOf(c)' = NoAsk
        BY <3>1, <3>4 DEF CallOf
      <4> QED
        BY <1>1, <2>a, <3>1, <3>3, <4>1, MappedStep DEF Stutters
    <3>5. CASE r.purpose # "data"
      <4>1. CallOf(c)' = r
        BY <3>1, <3>5 DEF CallOf
      <4> QED
        BY <1>1, <2>a, <3>1, <3>3, <3>5, <4>1, MappedStep
    <3> QED
      BY <3>4, <3>5
  <2>12. CASE recv_fails(c)
    <3>1. ask' = ask /\ clientmap' = clientmap /\ outbox'[c] = << >>
      BY <2>12, <2>a DEF recv_fails
    <3>2. ResultOf(c)' = "none" /\ CallOf(c)' = CallOf(c)
      BY <3>1 DEF CallOf, ResultOf
    <3>3. pc[c] \in {"ack", "wait"}
      BY <2>12 DEF recv_fails, Goto
    <3>4. ResultOf(c) = "none"
      <4>1. CASE outbox[c] = << >>
        BY <4>1 DEF ResultOf
      <4>2. CASE Joined(c)
        BY <1>b, <4>2 DEF Joined, ResultOf
      <4>3. ~Answered(c)
        <5>1. \/ outbox[c] = << >>
              \/ Len(outbox[c]) > 1
              \/ Len(outbox[c]) = 1 /\ Head(outbox[c]).member # Member(ask[c])
          BY <2>12 DEF recv_fails
        <5>2. outbox[c] = << >> => Len(outbox[c]) = 0
          OBVIOUS
        <5>3. Len(outbox[c]) = 1 => ~(Len(outbox[c]) > 1)
          OBVIOUS
        <5> QED
          BY <5>1, <5>2, <5>3 DEF Answered
      <4> QED
        BY <2>a, <3>3, <4>1, <4>2, <4>3 DEF SessionRight, Joining, Sent, Using, Wires
    <3> QED
      BY <1>1, <2>a, <3>1, <3>2, <3>4, MappedStep DEF Stutters
  <2>4. CASE Proceed(c) \/ logout(c) \/ Kill(c) \/ \E r \in Request : send_command(c, r)
    BY <2>1, <2>2, <2>3, <2>4, <2>12 DEF Proceed, connection_establish,
       connection_refused, send_syn, recv_fails, logout, Kill
  <2>5. CASE alwaysListen(c)
    <3>1. CASE FirstMessage(c, "client") /\ UNCHANGED <<accounts, program, document>>
      <4>1. server[c] = "none" /\ coord = "up"
        BY <2>a, <3>1 DEF FirstMessage, LoopRight, Queued
      <4>2. inbox[c] # << >>
        BY <2>a, <3>1, NoText DEF FirstMessage
      <4>3. ask[c] = NoAsk /\ ask' = ask /\ clientmap' = clientmap
        BY <2>a, <3>1, <4>1, <4>2 DEF SessionRight, Unheard, Joining, Joined,
           Resting, Left, Sent, Using, Answered, Wires
      <4>4. Stutters(c)
        BY <1>b, <4>3 DEF Stutters, CallOf, ResultOf
      <4> QED
        BY <1>1, <2>a, <4>3, <4>4, MappedStep
    <3>2. CASE \/ accept(c) /\ UNCHANGED <<accounts, program, handlers>>
               \/ FirstFails(c) /\ UNCHANGED <<accounts, program, handlers>>
      BY <2>1, <3>2 DEF accept, FirstFails
    <3> QED
      BY <2>5, <3>1, <3>2 DEF alwaysListen
  <2>6. CASE enter_clientmap(c)
    <3>1. ask' = ask /\ outbox' = outbox /\ clientmap' = clientmap
      BY <2>a, <2>6, EnterRight
    <3> QED
      BY <2>1, <3>1
  <2>7. CASE create_user(c)
    <3>1. /\ document[c].purpose = "create_user" /\ ~raced /\ server[c] = "map"
          /\ ask' = ask /\ coord = "up"
      BY <2>7 DEF create_user, Leave
    <3>2. CASE ~Inserts(document[c])
      <4>1. Leave(c, "exists") /\ clientmap' = clientmap
        BY <2>7, <3>2 DEF create_user
      <4>2. Contract!Outcome(document[c]) = "exists"
        BY <3>1, <3>2 DEF Contract!Outcome, Inserts
      <4>3. Performs(c) \/ Stutters(c)
        BY <4>1, <4>2, AnswerMapped
      <4> QED
        BY <1>1, <2>a, <4>1, <4>3, MappedStep
    <3>3. CASE Inserts(document[c])
      <4>1. Using(c) /\ Respond(c, document[c], "success")
        BY <2>7, <3>1, <3>3 DEF InsertRight, create_user, Leave
      <4>2. end[c] \in {"open", "closed"}
        <5>1. ask[c] # NoAsk /\ outbox[c] = << >>
          BY <2>b, <4>1 DEF Using, Wires
        <5> QED
          BY <2>a, <3>1, <5>1, InMap DEF Left
      <4>3. ask[c] \in Request /\ ask[c].purpose = "create_user" /\ document[c] = ask[c]
            /\ outbox[c] = << >>
        BY <3>1, <4>1 DEF Using, Wires
      <4>4. clientmap[ask[c].user] = NoPassword
        BY <3>3, <4>3 DEF Inserts
      <4>5. clientmap' = [clientmap EXCEPT ![ask[c].user] = ask[c].password]
        BY <2>7, <3>3, <4>3 DEF create_user
      <4>6. PICK m : m = Reply(ask[c], "success")
        OBVIOUS
      <4>7. outbox'[c] = <<m>> /\ m.text = "success"
        BY <2>a, <4>1, <4>2, <4>3, <4>6, OneMessage DEF Respond, Answer, Reply
      <4>8. /\ CallOf(c) = ask[c] /\ CallOf(c)' = ask[c] /\ ResultOf(c) = "none"
            /\ ResultOf(c)' = "success" /\ ask[c] # NoAsk
        BY <2>b, <3>1, <4>3, <4>7, OneMessage DEF CallOf, ResultOf, Purpose
      <4>9. Contract!Outcome(ask[c]) = "success"
        BY <4>3, <4>4 DEF Contract!Outcome
      <4>10. Performs(c)
        BY <4>3, <4>5, <4>8, <4>9 DEF Performs
      <4> QED
        BY <1>1, <2>a, <4>10, MappedStep
    <3> QED
      BY <3>2, <3>3
  <2>11. CASE clientmap_broken(c)
    BY <1>1, <2>11, StaysRaced DEF clientmap_broken
  <2>8. CASE login(c)
    <3>1. PICK t : t = CASE clientmap[document[c].user] = document[c].password -> "success"
                         [] clientmap[document[c].user] = NoPassword -> "failure"
                         [] OTHER -> "invalid"
      OBVIOUS
    <3>2. Leave(c, t) /\ clientmap' = clientmap /\ document[c].purpose = "login"
      BY <2>8, <3>1 DEF login
    <3>3. document[c] \in Request
      <4>1. document[c] \in Request \cup {NoAsk}
        BY <2>a DEF TypeOK
      <4> QED
        BY <1>b, <3>2, <4>1
    <3>4. document[c].password # NoPassword
      BY <2>b, <3>2, <3>3, SessionsAssumption DEF Purpose
    <3>5. t = Contract!Outcome(document[c])
      <4>1. CASE clientmap[document[c].user] = NoPassword
        BY <3>1, <3>2, <3>4, <4>1 DEF Contract!Outcome
      <4>2. CASE clientmap[document[c].user] # NoPassword
        BY <3>1, <3>2, <3>4, <4>2 DEF Contract!Outcome
      <4> QED
        BY <4>1, <4>2
    <3>6. Performs(c) \/ Stutters(c)
      BY <3>2, <3>5, AnswerMapped
    <3> QED
      BY <1>1, <2>a, <3>2, <3>6, MappedStep
  <2>9. CASE serveData(c)
    <3>1. CASE Parses(c)
      <4>1. Receive(c, "data") /\ Respond(c, Parsed(c), "value") /\ clientmap' = clientmap
        BY <2>9, <3>1 DEF serveData
      <4>2. Stutters(c)
        BY <4>1, DataMapped
      <4> QED
        BY <1>1, <2>a, <4>1, <4>2, MappedStep
    <3>2. CASE ~Parses(c)
      BY <2>1, <2>9, <3>2 DEF serveData, Receive
    <3> QED
      BY <3>1, <3>2
  <2>10. CASE clientHandleAsserts(c) \/ clientHandleReturns(c)
    BY <2>1, <2>10 DEF clientHandleAsserts, clientHandleReturns, Receive
  <2> QED
    BY <1>1, <2>4, <2>5, <2>6, <2>7, <2>8, <2>9, <2>10, <2>11 DEF Step, clientHandle
<1>2. CASE UNCHANGED vars
  BY <1>2 DEF vars, program, wires, accounts, Contract!vars
<1> QED
  BY <1>1, <1>2 DEF Next, Step

(* The initial states are initial states of Accounts.                      *)
LEMMA RefinementInit == Init => Contract!Init /\ InsertRight
<1> SUFFICES ASSUME Init PROVE Contract!Init /\ InsertRight
  OBVIOUS
<1>1. NoAsk.purpose = "none" /\ NoAsk.purpose \notin Purpose
  BY DEF NoAsk, Purpose
<1> QED
  BY <1>1 DEF Init, AcceptInit, Contract!Init, InsertRight

(* Until a thread uses clientmap while another inserts into it, which no   *)
(* lock prevents, create_user and login are operations on one table,       *)
(* however the threads interleave and whoever leaves.                      *)
THEOREM SessionsImplementAccounts ==
  ASSUME PlainTexts PROVE Spec => ImplementsAccounts
<1>1. Spec => [](SessionsInv /\ InsertRight)
  <2>1. Init => SessionsInv /\ InsertRight
    BY SessionsInvInit, RefinementInit
  <2>2. PlainTexts /\ (SessionsInv /\ InsertRight) /\ [Next]_vars
          => (SessionsInv /\ InsertRight)'
    BY SessionsInvStep, InsertStep
  <2> QED
    BY <2>1, <2>2, PTL DEF Spec
<1>2. PlainTexts /\ (SessionsInv /\ InsertRight) /\ [Next]_vars
        => [Contract!Next \/ raced']_(Contract!vars)
  BY RefinementStep
<1>3. Init => Contract!Init
  BY RefinementInit
<1> QED
  BY <1>1, <1>2, <1>3, PTL DEF Spec, ImplementsAccounts
=============================================================================
