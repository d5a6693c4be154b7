----------------------------- MODULE Migration -----------------------------
(***************************************************************************)
(* The death of slaves: the coordinator's migrationInitDown, one thread    *)
(* per dead slave, tells two of the living to fetch and merge tables, and  *)
(* the slaves carry the commands out, each under its one mutex.  A slave   *)
(* is named by its point on the ring, a key by its hash; the ring is       *)
(* RingTree.  The client's write is an update: one leg to the primary, one *)
(* to the slave that holds the backup.  The finer steps of a slave are in  *)
(* SlaveServer, those of the data path in StoreService.                    *)
(***************************************************************************)
EXTENDS Integers, FiniteSets

CONSTANTS
  Node, NULL, Hash,  \* of the ring
  Slave, Key,
  MaxWrites,         \* how many writes a run makes, each of a new value
  MinSurvivors,      \* slaves die until so many are left
  LastMayDie,        \* does the last slave of the ring die as well?
  LastWritten,       \* are keys of the last slave written as well?
  OverlapWrites      \* how many writes, if slaves die during a migration

ASSUME MigrationAssumption ==
  /\ NULL \notin Node
  /\ Hash \subseteq Nat
  /\ Slave \subseteq Hash
  /\ Key \subseteq Nat
  /\ {MaxWrites, MinSurvivors, OverlapWrites} \subseteq Nat
  /\ {LastMayDie, LastWritten} \subseteq BOOLEAN

VARIABLES
  treeRoot, left, right, hash, plan, up,   \* the ring
  life,    \* "new", "up" or "down", of each slave
  data,    \* the tables of each slave: data_client is "curr", the other "prev"
  todo,    \* the commands whose threads wait for the slave's mutex
  holder,  \* the get that holds a slave's mutex
  answer,  \* what a peer has answered to that get
  job,     \* the thread in migrationInitDown, of each dead slave
  req,     \* the write under way
  acked,   \* the last value of each key that a client was told is stored
  written, \* how many writes there were
  touched, \* the keys written while a slave was dead or a migration at work
  crossed, \* the keys of which a write was under way when a migration began
  overlapped \* has a slave died before the last death's migration was over?

ring == <<treeRoot, left, right, hash, plan, up>>
slaves == <<data, todo, holder, answer>>
client == <<req, acked, written, touched>>
past == <<crossed, overlapped>>
vars == <<ring, life, slaves, job, client, past>>

Ring == INSTANCE RingTree

Value == 1..MaxWrites
None == 0
Table == [Key -> Value \cup {None}]
Empty == [k \in Key |-> None]
Over(new, old) == [k \in Key |-> IF new[k] = None THEN old[k] ELSE new[k]]

Idle == [task |-> "idle"]
NoAnswer == [k \in {} |-> None]
NoJob == [pc |-> "none"]
NoReq == [key |-> -1]

Init ==
  /\ Ring!Init
  /\ life = [s \in Slave |-> "new"]
  /\ data = [s \in Slave |-> [w \in {"curr", "prev"} |-> Empty]]
  /\ todo = [s \in Slave |-> {}]
  /\ holder = [s \in Slave |-> Idle]
  /\ answer = [s \in Slave |-> NoAnswer]
  /\ job = [s \in Slave |-> NoJob]
  /\ req = NoReq
  /\ acked = [k \in Key |-> None]
  /\ written = 0
  /\ touched = {}
  /\ crossed = {}
  /\ overlapped = FALSE

Formed == \A s \in Slave : life[s] # "new"
Alive == {s \in Slave : life[s] = "up"}
AtWork(x) == job[x].pc \notin {"none", "done"}

(* No slave is dead and unnoticed, and no migration is in progress.        *)
Calm == \A s \in Slave : ~AtWork(s) /\ (life[s] = "down" => job[s].pc = "done")

(* A slave registers for the first time: slaveHandle up to its insertBST.  *)
Join(s) ==
  /\ life[s] = "new"
  /\ Ring!Register(s)
  /\ life' = [life EXCEPT ![s] = "up"]
  /\ UNCHANGED <<slaves, job, client, past>>
----------------------------------------------------------------------------
(***************************************************************************)
(* The coordinator's thread for a dead slave.                              *)
(***************************************************************************)

CanServe(s) == \/ todo[s] # {} /\ holder[s] = Idle
               \/ answer[s] # NoAnswer

Blocked(w) == life[req[w]] = "up" /\ holder[req[w]] # Idle

SleepTooShort == TRUE               \* mutant: no sleep(4) anywhere

(* sleep(4) is longer than what slaves and coordinator can do meanwhile.   *)
SleepOver ==
  /\ \A s \in Slave : ~CanServe(s)
  /\ req # NoReq => req.legs # {} /\ \A w \in req.legs : Blocked(w)

(* Nothing is waited for here, so that a write may have been routed before *)
(* the deletion and be carried out after it.  The nodes are kept as        *)
(* pointers; what is in them is read when a step needs it.                 *)
Detect(x) ==
  /\ life[x] = "down" /\ job[x] = NoJob
  /\ Ring!SlaveDown(x)
  /\ job' = [job EXCEPT ![x] =
               [pc |-> "step1", pre |-> plan'.pre, succ |-> plan'.succ,
                succsucc |-> plan'.succsucc]]
  /\ crossed' = IF req = NoReq THEN crossed ELSE crossed \cup {req.key}
  /\ UNCHANGED <<life, slaves, client, overlapped>>

(* connect_to_slave and send: nothing reaches a slave that is dead.        *)
Tell(s, command) ==
  todo' = IF life[s] = "up" THEN [todo EXCEPT ![s] = @ \cup {command}] ELSE todo

Get(x, step, from, what) ==
  [task |-> "get", from |-> from, what |-> what, job |-> x, step |-> step]
Merge(x, step) == [task |-> "merge", job |-> x, step |-> step]
Send(to, what) == [task |-> "send", to |-> to, what |-> what]

Step(x, from, to) ==
  /\ job[x].pc = from
  /\ job' = [job EXCEPT ![x].pc = to]
  /\ UNCHANGED <<ring, life, data, holder, answer, client, past>>

Step1BySuccessor(x) ==              \* mutant: succ told to ask itself
  /\ Step(x, "step1", "step2")
  /\ Tell(hash[job[x].succ], Get(x, 1, hash[job[x].succ], "prev"))

(* Step 1: succsucc gets the prev of succ, to its own prev.                *)
Step1(x) ==
  /\ Step(x, "step1", "step2")
  /\ Tell(hash[job[x].succsucc], Get(x, 1, hash[job[x].succ], "prev"))

Step2AtOnce(x) ==                   \* mutant: no sleep(4) before
  /\ Step(x, "step2", "step3")
  /\ Tell(hash[job[x].succ], Merge(x, 2))

(* Step 2: succ merges its prev into its curr.                             *)
Step2(x) ==
  /\ Step(x, "step2", "step3")
  /\ SleepOver
  /\ Tell(hash[job[x].succ], Merge(x, 2))

Step3Prev(x) ==                     \* mutant: prev for curr
  /\ Step(x, "step3", "end")
  /\ SleepOver
  /\ Tell(hash[job[x].succ], Get(x, 3, hash[job[x].pre], "prev"))

(* Step 3: succ gets the curr of pre, to its prev.                         *)
Step3(x) ==
  /\ Step(x, "step3", "end")
  /\ SleepOver
  /\ Tell(hash[job[x].succ], Get(x, 3, hash[job[x].pre], "curr"))

MigrationDone(x) ==
  /\ Step(x, "end", "done")
  /\ SleepOver
  /\ UNCHANGED todo
----------------------------------------------------------------------------
(***************************************************************************)
(* handle_migration_thread on slave s, which needs the slave's mutex.      *)
(***************************************************************************)
Begin(s, c, task) ==
  /\ c \in todo[s] /\ c.task = task
  /\ holder[s] = Idle
  /\ UNCHANGED <<ring, life, job, client, past>>

mergeForgets(s, c) ==               \* mutant: clear() without the copy
  /\ Begin(s, c, "merge")
  /\ data' = [data EXCEPT ![s].prev = Empty]
  /\ todo' = [todo EXCEPT ![s] = @ \ {c}]
  /\ UNCHANGED <<holder, answer>>

merge_maps(s, c) ==
  /\ Begin(s, c, "merge")
  /\ data' = [data EXCEPT ![s] = [curr |-> Over(@.prev, @.curr), prev |-> Empty]]
  /\ todo' = [todo EXCEPT ![s] = @ \ {c}]
  /\ UNCHANGED <<holder, answer>>

send_map(s, c) ==
  /\ Begin(s, c, "send")
  /\ answer' = [answer EXCEPT ![c.to] = data[s][c.what]]
  /\ todo' = [todo EXCEPT ![s] = @ \ {c}]
  /\ UNCHANGED <<data, holder>>

(* get_data asks the peer and waits, with the mutex held.  A peer that     *)
(* cannot be reached leaves an empty answer.                               *)
get_data(s, c) ==
  /\ Begin(s, c, "get")
  /\ holder' = [holder EXCEPT ![s] = c]
  /\ LET rest == [todo EXCEPT ![s] = @ \ {c}] IN
     IF life[c.from] = "up"
     THEN /\ todo' = [rest EXCEPT ![c.from] = @ \cup {Send(s, c.what)}]
          /\ UNCHANGED answer
     ELSE todo' = rest /\ answer' = [answer EXCEPT ![s] = Empty]
  /\ UNCHANGED data

addToMap(s) ==
  /\ answer[s] # NoAnswer
  /\ data' = [data EXCEPT ![s].prev = Over(answer[s], @)]
  /\ answer' = [answer EXCEPT ![s] = NoAnswer]
  /\ holder' = [holder EXCEPT ![s] = Idle]
  /\ UNCHANGED <<ring, life, todo, job, client, past>>

Serve(s) ==
  \/ \E c \in todo[s] : merge_maps(s, c) \/ send_map(s, c) \/ get_data(s, c)
  \/ addToMap(s)
----------------------------------------------------------------------------
(***************************************************************************)
(* One client's writes.                                                    *)
(***************************************************************************)
Primary(k) == Ring!Route(k)

(* The secondary of the last slave is not initialized: any slave.          *)
Secondaries(p) ==
  LET n == Ring!findSuccessor(treeRoot, left, right, hash, p)
  IN IF n = NULL THEN Ring!Points ELSE {hash[n]}

IsLast(p) == \A q \in Ring!Points : q <= p

Request(k) ==
  /\ Formed /\ up /\ req = NoReq
  /\ written < IF overlapped THEN OverlapWrites ELSE MaxWrites
  /\ LastWritten \/ ~IsLast(Primary(k))
  /\ written' = written + 1
  /\ \E s \in Secondaries(Primary(k)) :
       req' = [key |-> k, value |-> written', legs |-> {"curr", "prev"}, ok |-> FALSE,
               curr |-> Primary(k), prev |-> s]
  /\ touched' = IF Calm THEN touched \ {k} ELSE touched \cup {k}
  /\ crossed' = IF Calm THEN crossed \ {k} ELSE crossed
  /\ UNCHANGED <<ring, life, slaves, job, acked, overlapped>>

(* data_modify_ThreadFn and updateData on the slave, once no migration     *)
(* holds the slave's mutex; with a dead slave the leg just fails.          *)
Leg(w) ==
  /\ req # NoReq /\ w \in req.legs
  /\ LET s == req[w]
         reached == life[s] = "up"
     IN /\ ~Blocked(w)
        /\ data' = IF reached THEN [data EXCEPT ![s][w][req.key] = req.value]
                   ELSE data
        /\ req' = [req EXCEPT !.legs = @ \ {w},
                              !.ok = @ \/ (w = "curr" /\ reached)]
  /\ UNCHANGED <<ring, life, todo, holder, answer, job, acked, written, touched, past>>

Reply ==
  /\ req # NoReq /\ req.legs = {}
  /\ acked' = IF req.ok THEN [acked EXCEPT ![req.key] = req.value] ELSE acked
  /\ req' = NoReq
  /\ UNCHANGED <<ring, life, slaves, job, written, touched, past>>
----------------------------------------------------------------------------
(* A process dies with all its threads; a peer that waits for its table    *)
(* reads the end of the connection, an empty answer.                       *)
Die(s) ==
  /\ Formed /\ life[s] = "up"
  /\ Cardinality(Alive) > MinSurvivors
  /\ Calm \/ written <= OverlapWrites
  /\ LastMayDie \/ ~IsLast(s)
  /\ life' = [life EXCEPT ![s] = "down"]
  /\ todo' = [todo EXCEPT ![s] = {}]
  /\ holder' = [holder EXCEPT ![s] = Idle]
  /\ answer' = [p \in Slave |->
                  CASE p = s -> NoAnswer
                    [] p # s /\ answer[p] = NoAnswer /\ holder[p] # Idle
                       /\ holder[p].from = s -> Empty
                    [] OTHER -> answer[p]]
  /\ touched' = IF req = NoReq THEN touched ELSE touched \cup {req.key}
  /\ overlapped' = (overlapped \/ ~Calm)
  /\ UNCHANGED <<ring, data, job, req, acked, written, crossed>>

Next ==
  \/ \E s \in Slave : Join(s) \/ Detect(s) \/ Step1(s) \/ Step2(s) \/ Step3(s)
                      \/ MigrationDone(s) \/ Serve(s) \/ Die(s)
  \/ \E k \in Key : Request(k)
  \/ \E w \in {"curr", "prev"} : Leg(w)
  \/ Reply

Spec == Init /\ [][Next]_vars
----------------------------------------------------------------------------
Commands(tasks) ==
  [task : tasks \cap {"get"}, from : Slave, what : {"curr", "prev"},
   job : Slave, step : {1, 3}]
  \cup [task : tasks \cap {"merge"}, job : Slave, step : {2}]
  \cup [task : tasks \cap {"send"}, to : Slave, what : {"curr", "prev"}]

TypeOK ==
  /\ life \in [Slave -> {"new", "up", "down"}]
  /\ data \in [Slave -> [{"curr", "prev"} -> Table]]
  /\ \A s \in Slave :
       /\ todo[s] \subseteq Commands({"get", "merge", "send"})
       /\ holder[s] \in Commands({"get"}) \cup {Idle}
       /\ answer[s] \in Table \cup {NoAnswer}
       /\ job[s] \in {NoJob}
            \cup [pc : {"step1", "step2", "step3", "end", "done"},
                  pre : Node, succ : Node, succsucc : Node]
  /\ req \in {NoReq}
       \cup [key : Key, value : Value, legs : SUBSET {"curr", "prev"},
             ok : BOOLEAN, curr : Slave, prev : Slave]
  /\ acked \in Table
  /\ written \in 0..MaxWrites
  /\ touched \subseteq Key
  /\ crossed \subseteq Key
  /\ overlapped \in BOOLEAN

(* One slave is left: findMinimum makes succ and succsucc of it            *)
(* (coordination_server.cpp:658, 661).                                     *)
Lone == Formed /\ \A s, t \in Alive : s = t

(* Deaths came one after the other so far, and two slaves are left.        *)
Apart == ~overlapped /\ ~Lone

(* "Migration: Step-1 complete" and so on (coordination_server.cpp:689,    *)
(* 709, 731): nobody reports that a step is done, a sleep ends; by then    *)
(* the slave has carried the step's command out, whatever requests and     *)
(* other commands it had to wait for.                                      *)
Announced(x) == CASE job[x].pc = "step3" -> 1
                  [] job[x].pc = "end" -> 2
                  [] job[x].pc = "done" -> 3
                  [] OTHER -> 0

StepsComplete ==
  Apart =>
    \A s \in Slave : \A c \in todo[s] \cup {holder[s]} :
      c.task \in {"get", "merge"} => c.step > Announced(c.job)

(* get_data waits for a peer's thread with its own slave's mutex held      *)
(* (SlaveServer.cpp:427), and that thread needs the peer's mutex.          *)
WaitsFor(s) ==
  IF holder[s] # Idle /\ answer[s] = NoAnswer THEN {holder[s].from} ELSE {}

Circles ==
  {S \in (SUBSET Slave) \ {{}} : \A s \in S : WaitsFor(s) \cap S # {}}

(* Slaves wait for one another, for ever, in two cases only: one slave is  *)
(* left, which is told to ask itself, or a slave has died before the       *)
(* migration for another death was over.                                   *)
NoCircularWait == Circles # {} => Lone \/ overlapped

(* And of one migration alone the gets of steps 1 and 3 never meet in a    *)
(* circle, however deaths overlap: in a circle a slave asks itself, or two *)
(* migrations' gets take part.                                             *)
CirclesTakeTwo ==
  \A S \in Circles :
    \/ \E s \in S : WaitsFor(s) = {s}
    \/ \E s, t \in S : holder[s].job # holder[t].job

AtRest == Formed /\ Calm /\ req = NoReq

(* What a table should hold of an acknowledged key: the last value, or     *)
(* some value if it was written while the ring was not calm (a merge puts  *)
(* the backup's value over a newer one).                                   *)
Kept(k, v) == IF k \in touched THEN v # None ELSE v = acked[k]

InPrimary(k) == Kept(k, data[Primary(k)].curr[k])

InSecondary(k) == \A s \in Secondaries(Primary(k)) : Kept(k, data[s].prev[k])

(* Acknowledged, and by a write that no migration's beginning has crossed: *)
(* such a write may leave one copy, or none where the tables have moved to.*)
Promised(k) == acked[k] # None /\ k \notin crossed

(* The tree of slaves that registered in the order of their points: there  *)
(* bst_upperBound is the upper bound.                                      *)
Ascending == \A n \in Ring!Linked : left[n] = NULL

(* Deaths, one after the other, lose nothing while two slaves are left:    *)
(* once the migrations are over the slave that is now the primary of a key *)
(* has it in data_client, also when it was written between the death and   *)
(* the end of the migration.                                               *)
KeysServed ==
  AtRest /\ Apart /\ Ascending => \A k \in Key : Promised(k) => InPrimary(k)

(* And the slave that is now its secondary has it in data_secondary, so    *)
(* that the next death can be survived as well: what steps 1 and 3 are for *)
(* (coordination_server.cpp:669, 692).                                     *)
BackedUp ==
  AtRest /\ Apart /\ Ascending =>
    \A k \in Key : Promised(k) /\ ~IsLast(Primary(k)) => InSecondary(k)

(* "If value exist then value else failure" (README.md:34): whatever the   *)
(* order of registrations, a get of an acknowledged key finds it on the    *)
(* slave that it is sent to.                                               *)
GetFinds ==
  AtRest /\ Apart => \A k \in Key : Promised(k) => InPrimary(k)
=============================================================================
