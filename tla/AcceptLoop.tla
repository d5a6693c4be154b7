----------------------------- MODULE AcceptLoop -----------------------------
(***************************************************************************)
(* The coordinator's accept loop (alwaysListen) and the connections it     *)
(* hands out.  A peer is one run of a client or of a slave: it connects    *)
(* once.  The loop takes one connection at a time and waits for its first  *)
(* message before it takes the next.  A text that is not one JSON message  *)
(* leaves the loop's new document null, and the assertion on its members   *)
(* ends the coordinator with all its threads.                              *)
(*   A connection is a stream: recv takes what there is, up to BUFFERSIZE  *)
(* units.  A unit is a short message, or a piece of one that does not fit  *)
(* or does not parse (Junk).                                               *)
(*   Sessions and Membership put the two kinds of peers on top.            *)
(***************************************************************************)
EXTENDS Naturals, Sequences

CONSTANTS
  Peer, NoPeer,
  BACKLOG,       \* connections the kernel completes ahead of accept
  BUFFERSIZE     \* units that one recv takes

ASSUME AcceptAssumption ==
  NoPeer \notin Peer /\ {BACKLOG, BUFFERSIZE} \subseteq Nat \ {0}

VARIABLES
  coord,    \* "up", or "down" once the process has ended
  backlog,  \* connected, not yet accepted
  current,  \* the peer whose first message the loop waits for
  inbox,    \* sent by each peer, not yet received by the coordinator
  outbox,   \* sent to each peer, not yet received by it
  end       \* of each peer's side: "open", "closed" by the peer, "dead" once
            \* it has refused what came after that, "reset" if it closed with
            \* a message unread

Junk == [type |-> "junk"]

loop == <<backlog, current>>
wires == <<inbox, outbox, end>>

AcceptInit ==
  /\ coord = "up"
  /\ backlog = <<>>
  /\ current = NoPeer
  /\ inbox = [p \in Peer |-> <<>>]
  /\ outbox = [p \in Peer |-> <<>>]
  /\ end = [p \in Peer |-> "open"]

(* The socket calls of a peer, and send of the coordinator.                *)
Connect(p) ==
  /\ coord = "up"
  /\ Len(backlog) < BACKLOG
  /\ backlog' = Append(backlog, p)

Send(p, units) == inbox' = [inbox EXCEPT ![p] = @ \o units]
Answer(p, m) == outbox' = [outbox EXCEPT ![p] = Append(@, m)]
Close(p, how) == end' = [end EXCEPT ![p] = how]

(* What recv gives the coordinator on p's connection: a text, the empty    *)
(* text (0 bytes) once the peer has closed it, or an error (-1), which     *)
(* only a reset gives.  With none of them it blocks.                       *)
Fits(p) == IF Len(inbox[p]) < BUFFERSIZE THEN Len(inbox[p]) ELSE BUFFERSIZE
Received(p) == SubSeq(inbox[p], 1, Fits(p))
Taken(p) == inbox' = [inbox EXCEPT ![p] = SubSeq(@, Fits(p) + 1, Len(@))]
HasText(p) == inbox[p] # <<>> \/ end[p] \in {"closed", "dead"}
HasError(p) == inbox[p] = <<>> /\ end[p] = "reset"

(* One whole message in the text, and nothing else.                        *)
Parses(p) == Len(Received(p)) = 1 /\ Received(p) # <<Junk>>
Text(p) == Head(inbox[p])

accept(p) ==
  /\ coord = "up" /\ current = NoPeer
  /\ backlog # <<>> /\ p = Head(backlog)
  /\ current' = p
  /\ backlog' = Tail(backlog)
  /\ UNCHANGED <<coord, wires>>

(* The first message parses and has a type: the handler's thread starts.   *)
FirstMessage(p, type) ==
  /\ coord = "up" /\ current = p
  /\ Parses(p) /\ Text(p).type = type
  /\ Taken(p)
  /\ current' = NoPeer
  /\ UNCHANGED <<coord, backlog, end>>

(* It does not, and document["type"] is an assertion; or recv fails, and   *)
(* alwaysListen returns to main.  Either way the process ends.             *)
FirstFails(p) ==
  /\ coord = "up" /\ current = p
  /\ HasError(p) \/ (HasText(p) /\ ~Parses(p))
  /\ coord' = "down"
  /\ UNCHANGED <<loop, wires>>

AcceptTypeOK(message, answer) ==
  /\ coord \in {"up", "down"}
  /\ backlog \in Seq(Peer) /\ Len(backlog) <= BACKLOG
  /\ current \in Peer \cup {NoPeer}
  /\ inbox \in [Peer -> Seq(message)]
  /\ outbox \in [Peer -> Seq(answer)]
  /\ end \in [Peer -> {"open", "closed", "dead", "reset"}]
=============================================================================
