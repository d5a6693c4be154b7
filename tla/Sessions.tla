------------------------------ MODULE Sessions ------------------------------
(***************************************************************************)
(* Clients and the coordinator's threads that serve them: the program of   *)
(* Client.cpp, from connect to logout, and clientHandle with create_user   *)
(* and login.  A thread parses every text into the same document, and a    *)
(* text that does not parse leaves in it what was there before.  A request *)
(* for data is answered; how, is in StoreService.                          *)
(***************************************************************************)
EXTENDS AcceptLoop

CONSTANTS
  Client, User, Password, NoPassword,
  Shape,        \* of the requests for data, see Units
  Leaver,       \* the clients whose process may be killed
  MaxCommands   \* of all clients together

ASSUME SessionsAssumption ==
  /\ Client = Peer /\ Leaver \subseteq Client
  /\ NoPassword \notin Password
  /\ Shape \subseteq {"plain", "nested", "long"}
  /\ MaxCommands \in Nat

VARIABLES
  clientmap,  \* the password of each user
  pc,         \* where each client is
  ask,        \* its last request, NoAsk once it is answered
  commands,   \* how many were sent
  server,     \* the coordinator's thread of each client
  document,   \* what it has parsed last, NoAsk while it is null
  raced       \* has a thread used clientmap while another inserted into it?

program == <<pc, ask, commands>>
handlers == <<server, document>>
accounts == <<clientmap, raced>>
vars == <<coord, loop, wires, accounts, program, server, document>>

Purpose == {"create_user", "login"}
Request == [purpose : Purpose, user : User, password : Password]
             \cup [purpose : {"data"}, shape : Shape]
NoAsk == [purpose |-> "none"]
Syn == [type |-> "client"]

(* create_json_string quotes nothing: a value that has quotes of its own    *)
(* does not parse.  Nor does what is cut at BUFFERSIZE, nor the rest of it. *)
Units(r) ==
  CASE r.purpose = "data" /\ r.shape = "nested" -> <<Junk>>
    [] r.purpose = "data" /\ r.shape = "long" -> [i \in 1..(BUFFERSIZE + 1) |-> Junk]
    [] OTHER -> <<r>>

(* The member of an answer that the client reads: status or value.         *)
Member(r) == IF r.purpose \in {"login", "none"} THEN "status" ELSE "value"
Reply(r, v) == [member |-> Member(r), text |-> v]
Connected == Reply(NoAsk, "connected")

Init ==
  /\ AcceptInit
  /\ clientmap = [u \in User |-> NoPassword]
  /\ pc = [c \in Client |-> "off"]
  /\ ask = [c \in Client |-> NoAsk]
  /\ commands = 0
  /\ server = [c \in Client |-> "none"]
  /\ document = [c \in Client |-> NoAsk]
  /\ raced = FALSE

----------------------------------------------------------------------------
(***************************************************************************)
(* The client.                                                             *)
(***************************************************************************)
Goto(c, from, to) == pc[c] \in from /\ pc' = [pc EXCEPT ![c] = to]

connection_establish(c) ==
  /\ Connect(c)
  /\ Goto(c, {"off"}, "syn")
  /\ UNCHANGED <<coord, current, wires, accounts, ask, commands, handlers>>

(* Nobody listens: main returns 1.                                         *)
connection_refused(c) ==
  /\ coord = "down"
  /\ Goto(c, {"off"}, "out")
  /\ UNCHANGED <<coord, loop, wires, accounts, ask, commands, handlers>>

send_syn_only(c) ==                 \* mutant: does not wait for "connected"
  /\ Goto(c, {"syn"}, "ready")
  /\ Send(c, <<Syn>>)
  /\ UNCHANGED <<coord, loop, outbox, end, accounts, ask, commands, handlers>>

send_syn(c) ==
  /\ Goto(c, {"syn"}, "ack")
  /\ Send(c, <<Syn>>)
  /\ UNCHANGED <<coord, loop, outbox, end, accounts, ask, commands, handlers>>

send_command(c, r) ==
  /\ commands < MaxCommands
  /\ Goto(c, {"ready"}, "wait")
  /\ Send(c, Units(r))
  /\ ask' = [ask EXCEPT ![c] = r]
  /\ commands' = commands + 1
  /\ UNCHANGED <<coord, loop, outbox, end, accounts, handlers>>

(* One recv, of all there is; the text parses and has the member.          *)
recv_response(c) ==
  /\ Len(outbox[c]) = 1 /\ Head(outbox[c]).member = Member(ask[c])
  /\ Goto(c, {"ack", "wait"}, "ready")
  /\ outbox' = [outbox EXCEPT ![c] = <<>>]
  /\ ask' = [ask EXCEPT ![c] = NoAsk]
  /\ UNCHANGED <<coord, loop, inbox, end, accounts, commands, handlers>>

(* It does not, or the coordinator is gone and the text is empty: the      *)
(* assertion on the member ends the client, which has read all there was.  *)
recv_fails(c) ==
  /\ \/ outbox[c] = <<>> /\ coord = "down"
     \/ Len(outbox[c]) > 1
     \/ Len(outbox[c]) = 1 /\ Head(outbox[c]).member # Member(ask[c])
  /\ Goto(c, {"ack", "wait"}, "aborted")
  /\ Close(c, "closed")
  /\ outbox' = [outbox EXCEPT ![c] = <<>>]
  /\ UNCHANGED <<coord, loop, inbox, accounts, ask, commands, handlers>>

(* logout has no statement: nothing is sent, and what its caller compares  *)
(* with 1 is not initialized, so main returns or calls it for ever.        *)
logout(c) ==
  \/ /\ Goto(c, {"ready"}, "out")
     /\ Close(c, "closed")
     /\ UNCHANGED <<coord, loop, inbox, outbox, accounts, ask, commands, handlers>>
  \/ /\ Goto(c, {"ready"}, "spin")
     /\ UNCHANGED <<coord, loop, wires, accounts, ask, commands, handlers>>

Kill(c) ==
  /\ c \in Leaver
  /\ Goto(c, {"syn", "ack", "wait"}, "killed")
  /\ Close(c, IF outbox[c] = <<>> THEN "closed" ELSE "reset")
  /\ UNCHANGED <<coord, loop, inbox, outbox, accounts, ask, commands, handlers>>

----------------------------------------------------------------------------
(***************************************************************************)
(* The coordinator: the accept loop, and clientHandle with what it calls.  *)
(***************************************************************************)
alwaysListen(c) ==
  \/ accept(c) /\ UNCHANGED <<accounts, program, handlers>>
  \/ /\ FirstMessage(c, "client")
     /\ Answer(c, Connected)
     /\ server' = [server EXCEPT ![c] = "recv"]
     /\ UNCHANGED <<accounts, program, document>>
  \/ FirstFails(c) /\ UNCHANGED <<accounts, program, handlers>>

(* A send on c's connection.  To a peer that has closed it the first is    *)
(* lost on the way, the next raises SIGPIPE, which ends the coordinator.   *)
Respond(c, r, text) ==
  IF end[c] \in {"open", "closed"}
  THEN /\ Answer(c, Reply(r, text))
       /\ end' = [end EXCEPT ![c] = IF @ = "open" THEN "open" ELSE "dead"]
       /\ UNCHANGED coord
  ELSE coord' = "down" /\ UNCHANGED <<end, outbox>>

Silent == UNCHANGED <<coord, end, outbox>>

(* document.Parse after a recv, and the branch for the purpose that is     *)
(* then in the document.                                                   *)
Parsed(c) == IF Parses(c) THEN Text(c) ELSE document[c]

Receive(c, purpose) ==
  /\ coord = "up" /\ server[c] = "recv"
  /\ HasText(c)
  /\ Parsed(c).purpose = purpose
  /\ document' = [document EXCEPT ![c] = Parsed(c)]
  /\ Taken(c)
  /\ UNCHANGED <<loop, program>>

(* clientmap is a std::map and has no lock.  A thread is in it from its    *)
(* call of insert or find until that returns.  Threads that only look      *)
(* something up do not disturb one another; insert only looks up a name    *)
(* that is taken.                                                          *)
Inserts(r) == r.purpose = "create_user" /\ clientmap[r.user] = NoPassword

enter_clientmap(c) ==
  /\ \E p \in Purpose : Receive(c, p)
  /\ server' = [server EXCEPT ![c] = "map"]
  /\ raced' = (raced \/ \E d \in Client \ {c} :
                  server[d] = "map" /\ (Inserts(document[d]) \/ Inserts(Parsed(c))))
  /\ Silent /\ UNCHANGED clientmap

(* It returns, and the thread answers.                                     *)
Leave(c, text) ==
  /\ coord = "up" /\ server[c] = "map"
  /\ Respond(c, document[c], text)
  /\ server' = [server EXCEPT ![c] = "recv"]
  /\ UNCHANGED <<loop, inbox, program, document, raced>>

overwrite_user(c) ==                \* mutant: operator[] for insert
  /\ document[c].purpose = "create_user" /\ ~raced
  /\ Leave(c, "success")
  /\ clientmap' = [clientmap EXCEPT ![document[c].user] = document[c].password]

create_user_silent(c) ==            \* mutant: nothing is sent for a name taken
  /\ document[c].purpose = "create_user" /\ ~raced
  /\ Inserts(document[c])
  /\ Leave(c, "success")
  /\ clientmap' = [clientmap EXCEPT ![document[c].user] = document[c].password]

create_user(c) ==
  /\ document[c].purpose = "create_user" /\ ~raced
  /\ IF Inserts(document[c])
     THEN /\ Leave(c, "success")
          /\ clientmap' = [clientmap EXCEPT ![document[c].user] = document[c].password]
     ELSE Leave(c, "exists") /\ UNCHANGED clientmap

login(c) ==
  /\ document[c].purpose = "login" /\ ~raced
  /\ LET found == clientmap[document[c].user] IN
     Leave(c, CASE found = document[c].password -> "success"
                [] found = NoPassword -> "failure"
                [] OTHER -> "invalid")
  /\ UNCHANGED clientmap

(* What a map is after a race is undefined: whoever uses it gets any       *)
(* answer, never leaves it, or ends the coordinator.  What is left of the  *)
(* map is not followed.                                                    *)
Answers(purpose) ==
  IF purpose = "login" THEN {"success", "failure", "invalid"} ELSE {"success", "exists"}

clientmap_broken(c) ==
  /\ raced
  /\ \/ \E text \in Answers(document[c].purpose) : Leave(c, text)
     \/ /\ coord = "up" /\ server[c] = "map"
        /\ \/ server' = [server EXCEPT ![c] = "hung"] /\ UNCHANGED coord
           \/ coord' = "down" /\ UNCHANGED server
        /\ UNCHANGED <<loop, wires, program, document, raced>>
  /\ UNCHANGED clientmap

(* getData, putData, deleteData or updateData, to slaves that answer.      *)
(* They parse the text again, into a document of their own.                *)
serveData(c) ==
  /\ Receive(c, "data")
  /\ IF Parses(c) THEN Respond(c, Parsed(c), "value")
     ELSE coord' = "down" /\ UNCHANGED <<end, outbox>>
  /\ UNCHANGED <<accounts, server>>

(* The document is still null: HasMember asserts that it is an object.     *)
clientHandleAsserts(c) ==
  /\ Receive(c, "none")
  /\ coord' = "down"
  /\ UNCHANGED <<end, outbox, accounts, server>>

(* recv returns -1: the thread returns.                                    *)
clientHandleReturns(c) ==
  /\ coord = "up" /\ server[c] = "recv"
  /\ HasError(c)
  /\ server' = [server EXCEPT ![c] = "ended"]
  /\ UNCHANGED <<coord, loop, wires, accounts, program, document>>

clientHandle(c) ==
  \/ enter_clientmap(c) \/ create_user(c) \/ login(c) \/ clientmap_broken(c)
  \/ serveData(c) \/ clientHandleAsserts(c) \/ clientHandleReturns(c)

----------------------------------------------------------------------------
(* What a client does without its user.                                    *)
Proceed(c) ==
  \/ connection_establish(c) \/ connection_refused(c) \/ send_syn(c)
  \/ recv_response(c) \/ recv_fails(c)

Next ==
  \E c \in Client :
    \/ Proceed(c) \/ logout(c) \/ Kill(c) \/ \E r \in Request : send_command(c, r)
    \/ alwaysListen(c) \/ clientHandle(c)

(* Processes and threads run; what a user types is up to the user.         *)
Spec ==
  /\ Init /\ [][Next]_vars
  /\ \A c \in Client :
       WF_vars(Proceed(c)) /\ WF_vars(alwaysListen(c)) /\ WF_vars(clientHandle(c))
----------------------------------------------------------------------------
TypeOK ==
  /\ AcceptTypeOK(Request \cup {Syn, Junk},
                  [member : {"status", "value"},
                   text : {"connected", "success", "exists", "failure", "invalid",
                           "value"}])
  /\ clientmap \in [User -> Password \cup {NoPassword}]
  /\ pc \in [Client -> {"off", "syn", "ack", "ready", "wait", "out", "spin",
                        "killed", "aborted"}]
  /\ ask \in [Client -> Request \cup {NoAsk}]
  /\ commands \in 0..MaxCommands
  /\ server \in [Client -> {"none", "recv", "map", "hung", "ended"}]
  /\ document \in [Client -> Request \cup {NoAsk}]
  /\ \A c \in Client :
       server[c] = "map" => document[c].purpose \in Purpose
  /\ raced \in BOOLEAN

(* "exists/added/failure" (README.md:77), "success/exists/failure"         *)
(* (README.md:91): the one answer on its way to a client is an answer to   *)
(* the request that the client waits for, so that an update that is        *)
(* reported has been made.                                                 *)
AnswersOwnRequest ==
  \A c \in Client : outbox[c] # <<>> =>
    /\ Len(outbox[c]) = 1
    /\ LET answer == Head(outbox[c]) IN
       ask[c].purpose = "data" /\ answer.member = "value" => answer.text = "value"
    /\ ask[c].purpose \in Purpose => document[c] = ask[c]

(* Every text that does not parse repeats the request before it or ends    *)
(* the coordinator (coordination_server.cpp:173, 187), and an answer       *)
(* without the member that is expected ends a client.  As long as nobody   *)
(* leaves, every text is short and plain and no thread has used clientmap  *)
(* while another inserted, none of it happens: no two messages are         *)
(* received as one text, no answer is taken for another's.                 *)
NobodyDisturbed ==
  (~raced /\ \A c \in Client : end[c] = "open" \/ pc[c] = "aborted")
    => /\ coord = "up"
       /\ \A c \in Client : pc[c] # "aborted"
       /\ AnswersOwnRequest

(* However the threads interleave and whoever leaves, create_user and      *)
(* login look like operations on one table, two clients are never both     *)
(* given a name: as long as no thread is in clientmap while another        *)
(* inserts, which nothing prevents.                                        *)
Contract ==
  INSTANCE Accounts WITH
    NoCall <- NoAsk, NoResult <- "none",
    Request <- {r \in Request : r.purpose # "data"},
    accounts <- clientmap,
    call <- [c \in Client |-> IF ask[c].purpose = "data" THEN NoAsk ELSE ask[c]],
    result <- [c \in Client |->
                 IF ask[c].purpose \in Purpose /\ outbox[c] # <<>>
                 THEN Head(outbox[c]).text ELSE "none"]

ImplementsAccounts ==
  Contract!Init /\ [][Contract!Next \/ raced']_(Contract!vars)

(* The loop serves one first message at a time and a client has one        *)
(* request at a time: every client that connects, and every request, is    *)
(* answered, whoever else leaves, unless the coordinator has ended or the  *)
(* client's own thread is lost in a broken clientmap.                      *)
Served ==
  \A c \in Client :
    pc[c] \in {"off", "syn", "ack", "wait"}
      ~> \/ pc[c] = "ready" \/ end[c] # "open"
         \/ coord = "down" \/ (server[c] = "hung" /\ raced)
=============================================================================
