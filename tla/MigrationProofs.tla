-------------------------- MODULE MigrationProofs --------------------------
(***************************************************************************)
(* What holds of migrations, for any number of slaves, keys and writes, as *)
(* long as slaves die one after the other and two are left (Apart).        *)
(*                                                                         *)
(* The coordinator never hears that a step is done: it sleeps.  The        *)
(* inductive invariant says that there is one migration at a time          *)
(* (OneAtWork), that of its commands one at most is pending, and the one   *)
(* that the thread sleeps for (OnlyOne, OfItsStep), and that a slave that  *)
(* holds its mutex for an answer has it already or has asked somebody      *)
(* else, who is alive and still has to send it (WaitRight).  Such a peer   *)
(* can go on, so that a sleep that ends finds nothing pending.             *)
(*   That the slaves that are told to exchange tables are different ones   *)
(* (Neighbours) follows from what RingTreeProofs shows of the ring's tree: *)
(* the ring holds the slaves that live and the one whose death has not     *)
(* been noticed (RingOK), and two at least live (Apart).                   *)
(*   What is in the tables (DataInv) is followed through the steps of a    *)
(* migration: not what succ's tables hold while a merge is due, but what   *)
(* they will hold after it (Merged), and what a get that is under way will *)
(* leave in a backup (Backup1, Backup3).  A merge prefers the backup's     *)
(* value, a get the peer's; that this is never an old value over a newer   *)
(* one is since a table has only keys that are routed to its slave or to   *)
(* one before it (Behind).                                                 *)
(***************************************************************************)
EXTENDS Migration, FiniteSetTheorems, TLAPS

(* The nodes found for a migration name slaves, and succ is neither of the *)
(* slaves that it exchanges tables with.                                   *)
Neighbours ==
  \A x \in Slave : AtWork(x) =>
    /\ {hash[job[x].pre], hash[job[x].succ], hash[job[x].succsucc]} \subseteq Slave
    /\ hash[job[x].succ] \notin {hash[job[x].pre], hash[job[x].succsucc]}

(* Only what the proofs need of the variables' types; a job's slave is     *)
(* dead.                                                                   *)
Types ==
  /\ life \in [Slave -> {"new", "up", "down"}]
  /\ DOMAIN todo = Slave /\ DOMAIN holder = Slave
  /\ DOMAIN answer = Slave /\ DOMAIN job = Slave /\ DOMAIN data = Slave
  /\ \A s \in Slave : DOMAIN data[s] = {"curr", "prev"}
  /\ \A s \in Slave : \A w \in {"curr", "prev"} : DOMAIN data[s][w] = Key
  /\ \A x \in Slave : job[x].pc # "none" => life[x] = "down"
  /\ \A x \in Slave :
       job[x].pc \in {"none", "step1", "step2", "step3", "end", "done"}

(* One dead slave at most has yet to be migrated.                          *)
OneAtWork ==
  \A x, y \in Slave :
    /\ life[x] = "down" /\ job[x].pc # "done"
    /\ life[y] = "down" /\ job[y].pc # "done"
    => x = y

(* The coordinator's commands that slave s has not carried out.            *)
Pending(s) ==
  {c \in todo[s] : c.task # "send"} \cup {c \in {holder[s]} : c # Idle}

(* One command at most is pending among all slaves.                        *)
OnlyOne ==
  /\ \A s, t \in Slave : \A c \in Pending(s), d \in Pending(t) : s = t /\ c = d
  /\ \A s \in Slave : holder[s] \notin todo[s]

(* What is pending is the command of the step its thread sleeps for.       *)
OfItsStep ==
  \A s \in Slave : \A c \in Pending(s) :
    /\ c.job \in Slave
    /\ \/ c.task = "get" /\ c.step = 1 /\ job[c.job].pc = "step2"
       \/ c.task = "merge" /\ c.step = 2 /\ job[c.job].pc = "step3"
       \/ c.task = "get" /\ c.step = 3 /\ job[c.job].pc = "end"
    /\ c.task = "get" =>
         c.from \in Slave /\ c.from # s /\ c.what \in {"curr", "prev"}

(* A slave waits for an answer only inside a get_data, whose peer lives    *)
(* and has been told to send; and nobody sends but to a slave that waits.  *)
WaitRight ==
  /\ \A s \in Slave : holder[s] # Idle => holder[s].task = "get"
  /\ \A s \in Slave : answer[s] # NoAnswer => holder[s] # Idle
  /\ \A s \in Slave : holder[s] # Idle /\ answer[s] = NoAnswer =>
       /\ life[holder[s].from] = "up"
       /\ Send(s, holder[s].what) \in todo[holder[s].from]
  /\ \A p \in Slave : \A c \in todo[p] : c.task = "send" =>
       /\ c.to \in Slave /\ holder[c.to] # Idle /\ answer[c.to] = NoAnswer
       /\ holder[c.to].from = p /\ c = Send(c.to, holder[c.to].what)

MigrationInv == Types /\ OneAtWork /\ OnlyOne /\ OfItsStep /\ WaitRight

----------------------------------------------------------------------------
(* A command that is pending is one of a job that is at work.              *)
LEMMA PendingAtWork ==
  ASSUME MigrationInv, NEW s \in Slave, NEW c \in Pending(s)
  PROVE  /\ c.job \in Slave /\ AtWork(c.job) /\ job[c.job].pc # "step1"
         /\ life[c.job] = "down" /\ job[c.job].pc # "done"
BY DEF MigrationInv, OfItsStep, AtWork, Types

(* When nothing is pending no slave waits, and none is asked.              *)
NonePending ==
  \A s \in Slave : holder[s] = Idle /\ answer[s] = NoAnswer /\ todo[s] = {}

(* Nothing pending: nothing to do anywhere, no answers on their way.       *)
LEMMA NothingPending ==
  ASSUME MigrationInv, \A s \in Slave : Pending(s) = {}
  PROVE  NonePending
<1>1. ASSUME NEW s \in Slave PROVE holder[s] = Idle
  BY DEF Pending
<1>2. ASSUME NEW s \in Slave PROVE answer[s] = NoAnswer
  BY <1>1 DEF MigrationInv, WaitRight
<1>3. ASSUME NEW s \in Slave, NEW c \in todo[s] PROVE FALSE
  BY <1>1, <1>3 DEF Pending, MigrationInv, WaitRight
<1> QED
  BY <1>1, <1>2, <1>3 DEF NonePending

(* A sleep that is over leaves nothing pending: a slave that still waited  *)
(* would wait for one that can go on.                                      *)
LEMMA SleepEnds ==
  ASSUME MigrationInv, SleepOver
  PROVE  NonePending
<1>1. \A s \in Slave : ~CanServe(s)
  BY DEF SleepOver
<1>2. ASSUME NEW s \in Slave, holder[s] # Idle PROVE FALSE
  <2>1. answer[s] = NoAnswer
    BY <1>1 DEF CanServe
  <2>2. holder[s] \in Pending(s) /\ holder[s].task = "get"
    BY <1>2 DEF Pending, MigrationInv, WaitRight
  <2>3. PICK q \in Slave : q = holder[s].from /\ q # s
    BY <2>2 DEF MigrationInv, OfItsStep
  <2>4. todo[q] # {}
    BY <1>2, <2>1, <2>3 DEF MigrationInv, WaitRight
  <2>5. holder[q] # Idle
    BY <1>1, <2>4 DEF CanServe
  <2>6. holder[q] \in Pending(q)
    BY <2>5 DEF Pending
  <2> QED
    BY <2>2, <2>3, <2>6 DEF MigrationInv, OnlyOne
<1> QED
  BY <1>1, <1>2 DEF CanServe, NonePending

(* The thread of x goes on and tells slave s what the step is.             *)
NewCommand(x, to, s, cmd) ==
  /\ AtWork(x) /\ job' = [job EXCEPT ![x].pc = to]
  /\ Tell(s, cmd) /\ UNCHANGED <<life, data, holder, answer>>
  /\ cmd # Idle /\ cmd.job = x
  /\ \/ cmd.task = "get" /\ cmd.step = 1 /\ to = "step2"
     \/ cmd.task = "merge" /\ cmd.step = 2 /\ to = "step3"
     \/ cmd.task = "get" /\ cmd.step = 3 /\ to = "end"
  /\ cmd.task = "get" =>
       cmd.from \in Slave /\ cmd.from # s /\ cmd.what \in {"curr", "prev"}

(* A new command, when nothing is pending: it is the only one.             *)
LEMMA Told ==
  ASSUME MigrationInv, NonePending, NEW x \in Slave, NEW to, NEW s, NEW cmd,
         NewCommand(x, to, s, cmd)
  PROVE  MigrationInv'
<1> USE DEF NewCommand
<1>a. Types /\ OneAtWork
  BY DEF MigrationInv
<1>1. /\ \A y \in Slave : y # x => job'[y] = job[y]
      /\ job'[x].pc = to /\ DOMAIN job' = Slave /\ job[x].pc \notin {"none", "done"}
  BY <1>a DEF Types, AtWork
<1>2. /\ DOMAIN todo' = Slave
      /\ \A t \in Slave : todo'[t] \subseteq {cmd} /\ (t # s => todo'[t] = {})
  BY <1>a DEF Types, NonePending, Tell
<1>3. Types'
  BY <1>a, <1>1, <1>2 DEF Types
<1>4. OneAtWork'
  BY <1>a, <1>1 DEF OneAtWork
<1>5. \A t \in Slave : Pending(t)' \subseteq {cmd} /\ (t # s => Pending(t)' = {})
  BY <1>2 DEF Pending, NonePending
<1>6. OnlyOne'
  BY <1>2, <1>5 DEF OnlyOne, NonePending
<1>7. OfItsStep'
  BY <1>1, <1>5 DEF OfItsStep
<1>8. WaitRight'
  BY <1>2 DEF WaitRight, NonePending
<1> QED
  BY <1>3, <1>4, <1>6, <1>7, <1>8 DEF MigrationInv

(* What leaves commands, threads and processes alone.                      *)
LEMMA Aside ==
  ASSUME MigrationInv, UNCHANGED <<life, todo, holder, answer, job>>,
         DOMAIN data' = Slave, \A s \in Slave : DOMAIN data'[s] = {"curr", "prev"},
         \A s \in Slave : \A w \in {"curr", "prev"} : DOMAIN data'[s][w] = Key
  PROVE  MigrationInv'
BY DEF MigrationInv, Types, OneAtWork, OnlyOne, Pending, OfItsStep, WaitRight

(* The coordinator's thread.                                               *)
LEMMA CoordinatorStep ==
  ASSUME MigrationInv, Neighbours, NEW x \in Slave,
         Detect(x) \/ Step1(x) \/ Step2(x) \/ Step3(x) \/ MigrationDone(x)
  PROVE  MigrationInv'
<1>a. Types /\ OneAtWork
  BY DEF MigrationInv
<1>b. ASSUME AtWork(x)
      PROVE  /\ {hash[job[x].pre], hash[job[x].succ], hash[job[x].succsucc]} \subseteq Slave
             /\ hash[job[x].succ] \notin {hash[job[x].pre], hash[job[x].succsucc]}
  BY <1>b DEF Neighbours
<1>1. CASE Detect(x)
  <2>1. /\ life[x] = "down" /\ job[x].pc = "none"
        /\ \A y \in Slave : y # x => job'[y] = job[y]
        /\ job'[x].pc = "step1" /\ DOMAIN job' = Slave
        /\ UNCHANGED <<life, data, todo, holder, answer>>
    BY <1>1, <1>a DEF Detect, Types, NoJob, slaves
  <2>2. Types' /\ OneAtWork'
    BY <1>a, <2>1 DEF Types, OneAtWork
  <2>3. OnlyOne' /\ WaitRight'
    BY <2>1 DEF MigrationInv, OnlyOne, WaitRight, Pending
  <2>4. OfItsStep'
    BY <2>1 DEF MigrationInv, OfItsStep, Pending
  <2> QED
    BY <2>2, <2>3, <2>4 DEF MigrationInv
<1>2. CASE Step1(x)
  <2>1. /\ job[x].pc = "step1" /\ job' = [job EXCEPT ![x].pc = "step2"] /\ AtWork(x)
        /\ UNCHANGED <<life, data, holder, answer>>
    BY <1>2 DEF Step1, Step, AtWork
  <2>2. NonePending
    <3>1. life[x] = "down"
      BY <1>a, <2>1 DEF Types
    <3>2. \A s \in Slave : Pending(s) = {}
      BY <1>a, <2>1, <3>1, PendingAtWork DEF OneAtWork
    <3> QED
      BY <3>2, NothingPending
  <2>3. PICK cmd : cmd = Get(x, 1, hash[job[x].succ], "prev")
    OBVIOUS
  <2>4. /\ cmd.task = "get" /\ cmd.job = x /\ cmd.step = 1 /\ cmd.what = "prev"
        /\ cmd.from = hash[job[x].succ] /\ cmd # Idle
    BY <2>3 DEF Get, Idle
  <2>5. PICK s : s = hash[job[x].succsucc]
    OBVIOUS
  <2>6. Tell(s, cmd)
    BY <1>2, <2>3, <2>5 DEF Step1
  <2>7. cmd.from \in Slave /\ cmd.from # s
    BY <1>b, <2>1, <2>4, <2>5
  <2>8. PICK to : to = "step2"
    OBVIOUS
  <2>9. job' = [job EXCEPT ![x].pc = to]
    BY <2>1, <2>8
  <2> QED
    <3>1. NewCommand(x, to, s, cmd)
      BY <2>1, <2>4, <2>6, <2>7, <2>8, <2>9 DEF NewCommand
    <3> QED
      BY <2>2, <3>1, Told
<1>3. CASE Step2(x)
  <2>1. /\ job[x].pc = "step2" /\ job' = [job EXCEPT ![x].pc = "step3"] /\ AtWork(x)
        /\ UNCHANGED <<life, data, holder, answer>> /\ SleepOver
    BY <1>3 DEF Step2, Step, AtWork
  <2>2. PICK cmd : cmd = Merge(x, 2)
    OBVIOUS
  <2>3. cmd.task = "merge" /\ cmd.job = x /\ cmd.step = 2 /\ cmd # Idle
    BY <2>2 DEF Merge, Idle
  <2>4. PICK s : s = hash[job[x].succ]
    OBVIOUS
  <2>5. Tell(s, cmd)
    BY <1>3, <2>2, <2>4 DEF Step2
  <2>6. PICK to : to = "step3"
    OBVIOUS
  <2>7. job' = [job EXCEPT ![x].pc = to] /\ NonePending
    BY <2>1, <2>6, SleepEnds
  <2> QED
    <3>1. NewCommand(x, to, s, cmd)
      BY <2>1, <2>3, <2>5, <2>6, <2>7 DEF NewCommand
    <3> QED
      BY <2>7, <3>1, Told
<1>4. CASE Step3(x)
  <2>1. /\ job[x].pc = "step3" /\ job' = [job EXCEPT ![x].pc = "end"] /\ AtWork(x)
        /\ UNCHANGED <<life, data, holder, answer>> /\ SleepOver
    BY <1>4 DEF Step3, Step, AtWork
  <2>2. PICK cmd : cmd = Get(x, 3, hash[job[x].pre], "curr")
    OBVIOUS
  <2>3. /\ cmd.task = "get" /\ cmd.job = x /\ cmd.step = 3 /\ cmd.what = "curr"
        /\ cmd.from = hash[job[x].pre] /\ cmd # Idle
    BY <2>2 DEF Get, Idle
  <2>4. PICK s : s = hash[job[x].succ]
    OBVIOUS
  <2>5. Tell(s, cmd)
    BY <1>4, <2>2, <2>4 DEF Step3
  <2>6. cmd.from \in Slave /\ cmd.from # s
    BY <1>b, <2>1, <2>3, <2>4
  <2>7. PICK to : to = "end"
    OBVIOUS
  <2>8. job' = [job EXCEPT ![x].pc = to] /\ NonePending
    BY <2>1, <2>7, SleepEnds
  <2> QED
    <3>1. NewCommand(x, to, s, cmd)
      BY <2>1, <2>3, <2>5, <2>6, <2>7, <2>8 DEF NewCommand
    <3> QED
      BY <2>8, <3>1, Told
<1>5. CASE MigrationDone(x)
  <2>1. /\ job[x].pc = "end" /\ SleepOver /\ UNCHANGED <<life, data, todo, holder, answer>>
        /\ \A y \in Slave : y # x => job'[y] = job[y]
        /\ job'[x].pc = "done" /\ DOMAIN job' = Slave
    BY <1>5, <1>a DEF MigrationDone, Step, Types
  <2>2. NonePending
    BY <2>1, SleepEnds
  <2>3. Types' /\ OneAtWork'
    BY <1>a, <2>1 DEF Types, OneAtWork
  <2>4. \A s \in Slave : Pending(s)' = {}
    BY <2>1, <2>2 DEF Pending, NonePending
  <2>5. OnlyOne' /\ OfItsStep' /\ WaitRight'
    BY <2>1, <2>2, <2>4 DEF OnlyOne, OfItsStep, WaitRight, NonePending
  <2> QED
    BY <2>3, <2>5 DEF MigrationInv
<1> QED
  BY <1>1, <1>2, <1>3, <1>4, <1>5

----------------------------------------------------------------------------
(* The slaves.                                                             *)

(* Whose mutex is held has the one command that is pending.                *)
LEMMA HolderOnly ==
  ASSUME MigrationInv, NEW s \in Slave, NEW t \in Slave,
         Pending(s) # {}, holder[t] # Idle
  PROVE  s = t
BY DEF MigrationInv, OnlyOne, Pending

(* A command that a thread begins with is the only one pending, unless it  *)
(* is a table to send.                                                     *)
LEMMA BeginAlone ==
  ASSUME MigrationInv, NEW s \in Slave, NEW c \in todo[s], c.task # "send"
  PROVE  /\ c \in Pending(s)
         /\ \A t \in Slave : holder[t] = Idle /\ answer[t] = NoAnswer
         /\ \A t \in Slave : Pending(t) \subseteq {c} /\ (t # s => Pending(t) = {})
         /\ \A t \in Slave : todo[t] \subseteq {c} /\ (t # s => todo[t] = {})
<1>1. c \in Pending(s)
  BY DEF Pending
<1>2. \A t \in Slave : Pending(t) \subseteq {c} /\ (t # s => Pending(t) = {})
  BY <1>1 DEF MigrationInv, OnlyOne
<1>3. ASSUME NEW t \in Slave, holder[t] # Idle PROVE FALSE
  <2>1. holder[t] \in Pending(t)
    BY <1>3 DEF Pending
  <2> QED
    BY <1>2, <2>1 DEF MigrationInv, OnlyOne
<1>4. \A t \in Slave : answer[t] = NoAnswer
  BY <1>3 DEF MigrationInv, WaitRight
<1>5. \A t \in Slave : \A d \in todo[t] : d.task # "send"
  BY <1>3 DEF MigrationInv, WaitRight
<1>6. \A t \in Slave : todo[t] \subseteq Pending(t)
  BY <1>5 DEF Pending
<1> QED
  BY <1>1, <1>2, <1>3, <1>4, <1>6

(* merge_maps ends what was pending.                                       *)
LEMMA MergeStep ==
  ASSUME MigrationInv, NEW s \in Slave, NEW c \in todo[s], merge_maps(s, c)
  PROVE  MigrationInv'
<1>1. /\ c.task = "merge" /\ todo' = [todo EXCEPT ![s] = @ \ {c}]
      /\ data' = [data EXCEPT ![s] =
                    [curr |-> Over(data[s].prev, data[s].curr), prev |-> Empty]]
      /\ UNCHANGED <<life, job, holder, answer>>
  BY DEF merge_maps, Begin
<1>2. /\ \A t \in Slave : holder[t] = Idle /\ answer[t] = NoAnswer
      /\ \A t \in Slave : todo[t] \subseteq {c} /\ (t # s => todo[t] = {})
  BY <1>1, BeginAlone
<1>a. Types
  BY DEF MigrationInv
<1>3. /\ DOMAIN todo' = Slave /\ \A t \in Slave : todo'[t] = {}
  BY <1>a, <1>1, <1>2 DEF Types
<1>4. /\ DOMAIN data' = Slave
      /\ \A t \in Slave : DOMAIN data'[t] = {"curr", "prev"}
      /\ \A t \in Slave : \A w \in {"curr", "prev"} : DOMAIN data'[t][w] = Key
  <2>1. PICK curr : curr = Over(data[s].prev, data[s].curr)
    OBVIOUS
  <2>2. DOMAIN curr = Key
    BY <2>1 DEF Over
  <2>3. PICK prev : prev = Empty
    OBVIOUS
  <2>4. DOMAIN prev = Key
    BY <2>3 DEF Empty
  <2>5. data' = [data EXCEPT ![s] = [curr |-> curr, prev |-> prev]]
    BY <1>1, <2>1, <2>3
  <2> QED
    BY <1>a, <2>2, <2>4, <2>5 DEF Types
<1>5. Types' /\ OneAtWork'
  BY <1>a, <1>1, <1>3, <1>4 DEF MigrationInv, Types, OneAtWork
<1>6. \A t \in Slave : Pending(t)' = {}
  BY <1>1, <1>2, <1>3 DEF Pending
<1>7. OnlyOne' /\ OfItsStep' /\ WaitRight'
  BY <1>1, <1>2, <1>3, <1>6 DEF OnlyOne, OfItsStep, WaitRight
<1> QED
  BY <1>5, <1>7 DEF MigrationInv

(* send_map answers the one slave that waits.                              *)
LEMMA SendStep ==
  ASSUME MigrationInv, Key # {}, NEW s \in Slave, NEW c \in todo[s], send_map(s, c)
  PROVE  MigrationInv'
<1>1. /\ c.task = "send" /\ todo' = [todo EXCEPT ![s] = @ \ {c}]
      /\ answer' = [answer EXCEPT ![c.to] = data[s][c.what]]
      /\ UNCHANGED <<life, job, holder, data>>
  BY DEF send_map, Begin
<1>a. Types /\ OnlyOne /\ WaitRight /\ OfItsStep /\ OneAtWork
  BY DEF MigrationInv
<1>2. PICK t \in Slave : /\ t = c.to /\ holder[t] # Idle /\ answer[t] = NoAnswer
                         /\ holder[t].from = s /\ c = Send(t, holder[t].what)
  BY <1>a, <1>1 DEF WaitRight
<1>3. c.what \in {"curr", "prev"}
  <2>1. holder[t] \in Pending(t) /\ holder[t].task = "get"
    BY <1>a, <1>2 DEF Pending, WaitRight
  <2>2. holder[t].what \in {"curr", "prev"}
    BY <1>a, <2>1 DEF OfItsStep
  <2>3. c.what = holder[t].what
    BY <1>2 DEF Send
  <2> QED
    BY <2>2, <2>3
<1>4. data[s][c.what] # NoAnswer
  <2>1. DOMAIN data[s][c.what] = Key
    BY <1>a, <1>3 DEF Types
  <2>2. DOMAIN NoAnswer = {}
    BY DEF NoAnswer
  <2> QED
    BY <2>1, <2>2
<1>5. /\ DOMAIN todo' = Slave /\ todo'[s] = todo[s] \ {c}
      /\ \A q \in Slave : q # s => todo'[q] = todo[q]
      /\ DOMAIN answer' = Slave /\ answer'[t] # NoAnswer
      /\ \A q \in Slave : q # t => answer'[q] = answer[q]
  BY <1>a, <1>1, <1>2, <1>4 DEF Types
<1>6. Types' /\ OneAtWork'
  BY <1>a, <1>1, <1>5 DEF Types, OneAtWork
<1>7. \A q \in Slave : Pending(q)' = Pending(q)
  BY <1>1, <1>5 DEF Pending
<1>8. OnlyOne' /\ OfItsStep'
  BY <1>a, <1>1, <1>5, <1>7 DEF OnlyOne, OfItsStep
<1>9. WaitRight'
  <2>1. \A q \in Slave : /\ holder'[q] # Idle => holder'[q].task = "get"
                         /\ answer'[q] # NoAnswer => holder'[q] # Idle
    BY <1>a, <1>1, <1>2, <1>5 DEF WaitRight
  <2>2. ASSUME NEW q \in Slave, holder[q] # Idle, answer'[q] = NoAnswer
        PROVE  life[holder[q].from] = "up"
               /\ Send(q, holder[q].what) \in todo'[holder[q].from]
    <3>1. q # t /\ answer[q] = NoAnswer
      BY <1>5, <2>2
    <3>2. life[holder[q].from] = "up" /\ Send(q, holder[q].what) \in todo[holder[q].from]
      BY <1>a, <2>2, <3>1 DEF WaitRight
    <3>3. holder[q].from \in Slave
      BY <1>a, <2>2 DEF Pending, WaitRight, OfItsStep
    <3>4. Send(q, holder[q].what) # c
      BY <1>2, <3>1 DEF Send
    <3> QED
      BY <1>5, <3>2, <3>3, <3>4
  <2>3. ASSUME NEW p \in Slave, NEW d \in todo'[p], d.task = "send"
        PROVE  /\ d.to \in Slave /\ holder[d.to] # Idle /\ answer'[d.to] = NoAnswer
               /\ holder[d.to].from = p /\ d = Send(d.to, holder[d.to].what)
    <3>1. d \in todo[p]
      BY <1>5, <2>3
    <3>2. /\ d.to \in Slave /\ holder[d.to] # Idle /\ answer[d.to] = NoAnswer
          /\ holder[d.to].from = p /\ d = Send(d.to, holder[d.to].what)
      BY <1>a, <2>3, <3>1 DEF WaitRight
    <3>3. d.to # t
      <4>1. ASSUME d.to = t PROVE FALSE
        <5>1. p = s /\ d = c
          BY <1>2, <3>2, <4>1
        <5> QED
          BY <1>5, <2>3, <5>1
      <4> QED
        BY <4>1
    <3> QED
      BY <1>5, <3>2, <3>3
  <2> QED
    BY <1>1, <2>1, <2>2, <2>3 DEF WaitRight
<1> QED
  BY <1>6, <1>8, <1>9 DEF MigrationInv

(* get_data asks a peer that lives and is not the slave itself.            *)
LEMMA GetStep ==
  ASSUME MigrationInv, Key # {}, NEW s \in Slave, NEW c \in todo[s], get_data(s, c)
  PROVE  MigrationInv'
<1>a. Types /\ OnlyOne /\ WaitRight /\ OfItsStep /\ OneAtWork
  BY DEF MigrationInv
<1>1. /\ c.task = "get" /\ holder' = [holder EXCEPT ![s] = c]
      /\ UNCHANGED <<life, job, data>>
  BY DEF get_data, Begin
<1>2. /\ c \in Pending(s) /\ \A t \in Slave : holder[t] = Idle /\ answer[t] = NoAnswer
      /\ \A t \in Slave : Pending(t) \subseteq {c} /\ (t # s => Pending(t) = {})
      /\ \A t \in Slave : todo[t] \subseteq {c} /\ (t # s => todo[t] = {})
  BY <1>1, BeginAlone
<1>3. PICK p \in Slave : p = c.from /\ p # s /\ c.what \in {"curr", "prev"}
  BY <1>a, <1>1, <1>2 DEF OfItsStep
<1>4. c # Idle
  <2>1. Idle.task = "idle"
    BY DEF Idle
  <2> QED
    BY <1>1, <2>1
<1>5. /\ DOMAIN holder' = Slave /\ holder'[s] = c
      /\ \A t \in Slave : t # s => holder'[t] = Idle
  BY <1>a, <1>1, <1>2 DEF Types
<1>6. Empty # NoAnswer
  <2>1. DOMAIN Empty = Key /\ DOMAIN NoAnswer = {}
    BY DEF Empty, NoAnswer
  <2> QED
    BY <2>1
<1>7. CASE life[p] = "up"
  <2>1. PICK m : m = Send(s, c.what)
    OBVIOUS
  <2>2. m.task = "send" /\ m.to = s
    BY <2>1 DEF Send
  <2>3. /\ DOMAIN todo' = Slave /\ answer' = answer
        /\ todo'[p] = {m} /\ \A t \in Slave : t # p => todo'[t] = {}
    <3>1. /\ todo' = [[todo EXCEPT ![s] = @ \ {c}] EXCEPT ![p] = @ \cup {m}]
          /\ answer' = answer
      BY <1>3, <1>7, <2>1 DEF get_data
    <3> QED
      BY <1>a, <1>2, <1>3, <3>1 DEF Types
  <2>4. Types' /\ OneAtWork'
    BY <1>a, <1>1, <1>5, <2>3 DEF Types, OneAtWork
  <2>5. \A t \in Slave : Pending(t)' \subseteq {c} /\ (t # s => Pending(t)' = {})
    BY <1>5, <2>2, <2>3 DEF Pending
  <2>6. OnlyOne'
    <3>1. \A t \in Slave : holder'[t] \notin todo'[t]
      <4>1. Idle.task = "idle"
        BY DEF Idle
      <4> QED
        BY <1>1, <1>5, <2>2, <2>3, <4>1
    <3> QED
      BY <2>5, <3>1 DEF OnlyOne
  <2>7. OfItsStep'
    BY <1>a, <1>1, <1>2, <2>5 DEF OfItsStep
  <2>8. WaitRight'
    BY <1>1, <1>2, <1>3, <1>4, <1>5, <1>7, <2>1, <2>2, <2>3 DEF WaitRight
  <2> QED
    BY <2>4, <2>6, <2>7, <2>8 DEF MigrationInv
<1>8. CASE life[p] # "up"
  <2>1. /\ todo' = [todo EXCEPT ![s] = @ \ {c}]
        /\ answer' = [answer EXCEPT ![s] = Empty]
    BY <1>3, <1>8 DEF get_data
  <2>2. /\ DOMAIN todo' = Slave /\ \A t \in Slave : todo'[t] = {}
        /\ DOMAIN answer' = Slave /\ answer'[s] # NoAnswer
        /\ \A t \in Slave : t # s => answer'[t] = NoAnswer
    BY <1>a, <1>2, <1>6, <2>1 DEF Types
  <2>3. Types' /\ OneAtWork'
    BY <1>a, <1>1, <1>5, <2>2 DEF Types, OneAtWork
  <2>4. \A t \in Slave : Pending(t)' \subseteq {c} /\ (t # s => Pending(t)' = {})
    BY <1>5, <2>2 DEF Pending
  <2>5. OnlyOne' /\ OfItsStep'
    BY <1>a, <1>1, <1>2, <2>2, <2>4 DEF OnlyOne, OfItsStep
  <2>6. WaitRight'
    BY <1>1, <1>4, <1>5, <2>2 DEF WaitRight
  <2> QED
    BY <2>3, <2>5, <2>6 DEF MigrationInv
<1> QED
  BY <1>7, <1>8

(* addToMap ends the get_data, and with it what was pending.               *)
LEMMA AddStep ==
  ASSUME MigrationInv, NEW s \in Slave, addToMap(s)
  PROVE  MigrationInv'
<1>a. Types /\ OnlyOne /\ WaitRight /\ OfItsStep /\ OneAtWork
  BY DEF MigrationInv
<1>1. /\ answer[s] # NoAnswer /\ UNCHANGED <<life, todo, job>>
      /\ DOMAIN holder' = Slave /\ DOMAIN answer' = Slave
      /\ holder'[s] = Idle /\ answer'[s] = NoAnswer
      /\ \A t \in Slave : t # s => holder'[t] = holder[t] /\ answer'[t] = answer[t]
  BY <1>a DEF addToMap, Types
<1>2. /\ DOMAIN data' = Slave
      /\ \A t \in Slave : DOMAIN data'[t] = {"curr", "prev"}
      /\ \A t \in Slave : \A w \in {"curr", "prev"} : DOMAIN data'[t][w] = Key
  <2>1. PICK m : m = Over(answer[s], data[s].prev)
    OBVIOUS
  <2>2. DOMAIN m = Key
    BY <2>1 DEF Over
  <2>3. data' = [data EXCEPT ![s].prev = m]
    BY <2>1 DEF addToMap
  <2> QED
    BY <1>a, <2>2, <2>3 DEF Types
<1>3. Types' /\ OneAtWork'
  BY <1>a, <1>1, <1>2 DEF Types, OneAtWork
<1>4. \A t \in Slave : Pending(t)' \subseteq Pending(t)
  BY <1>1 DEF Pending
<1>5. OfItsStep'
  BY <1>a, <1>1, <1>4 DEF OfItsStep
<1>6. OnlyOne'
  <2>1. holder[s] \in Pending(s)
    BY <1>a, <1>1 DEF WaitRight, Pending
  <2>2. ASSUME NEW t \in Slave, holder'[t] \in todo'[t] PROVE FALSE
    <3>1. t = s
      BY <1>a, <1>1, <2>2 DEF OnlyOne
    <3>2. Idle \in todo[s] /\ Idle.task = "idle"
      BY <1>1, <2>2, <3>1 DEF Idle
    <3>3. Idle \in Pending(s) /\ holder[s] # Idle
      BY <1>a, <1>1, <3>2 DEF Pending, WaitRight
    <3> QED
      BY <1>a, <2>1, <3>3 DEF OnlyOne
  <2> QED
    BY <1>a, <1>4, <2>2 DEF OnlyOne
<1>7. WaitRight'
  <2>1. \A p \in Slave : \A c \in todo[p] : c.task = "send" => c.to # s
    BY <1>a, <1>1 DEF WaitRight
  <2> QED
    BY <1>a, <1>1, <2>1 DEF WaitRight
<1> QED
  BY <1>3, <1>5, <1>6, <1>7 DEF MigrationInv

----------------------------------------------------------------------------
(* Slaves come and go.                                                     *)

(* A slave that registers does not meddle with a migration.                *)
LEMMA JoinStep ==
  ASSUME MigrationInv, NEW s \in Slave, Join(s)
  PROVE  MigrationInv'
<1>a. Types /\ OnlyOne /\ WaitRight /\ OfItsStep /\ OneAtWork
  BY DEF MigrationInv
<1>1. /\ life[s] = "new" /\ life' = [life EXCEPT ![s] = "up"]
      /\ UNCHANGED <<data, todo, holder, answer, job>>
  BY DEF Join, slaves
<1>2. \A t \in Slave : /\ life[t] = "up" => life'[t] = "up"
                       /\ life'[t] = "down" <=> life[t] = "down"
  BY <1>a, <1>1 DEF Types
<1>3. Types' /\ OneAtWork'
  BY <1>a, <1>1, <1>2 DEF Types, OneAtWork
<1>4. OnlyOne' /\ OfItsStep'
  BY <1>a, <1>1 DEF OnlyOne, OfItsStep, Pending
<1>5. \A t \in Slave : holder[t] # Idle => holder[t].from \in Slave
  BY <1>a DEF WaitRight, OfItsStep, Pending
<1>6. WaitRight'
  BY <1>a, <1>1, <1>2, <1>5 DEF WaitRight
<1> QED
  BY <1>3, <1>4, <1>6 DEF MigrationInv

(* A slave dies when no migration is at work, so that nobody waits for it. *)
LEMMA DieStep ==
  ASSUME MigrationInv, ~overlapped', NEW s \in Slave, Die(s)
  PROVE  MigrationInv'
<1>a. Types /\ OneAtWork
  BY DEF MigrationInv
<1>1. /\ Calm /\ life[s] = "up" /\ life' = [life EXCEPT ![s] = "down"]
      /\ todo' = [todo EXCEPT ![s] = {}] /\ holder' = [holder EXCEPT ![s] = Idle]
      /\ UNCHANGED <<data, job>>
  BY DEF Die
<1>2. NonePending
  <2>1. \A t \in Slave : Pending(t) = {}
    BY <1>1, PendingAtWork DEF Calm
  <2> QED
    BY <2>1, NothingPending
<1>3. answer' = [p \in Slave |-> NoAnswer]
  <2>1. \A p \in Slave :
          (CASE p = s -> NoAnswer
             [] p # s /\ answer[p] = NoAnswer /\ holder[p] # Idle
                /\ holder[p].from = s -> Empty
             [] OTHER -> answer[p]) = NoAnswer
    BY <1>2 DEF NonePending
  <2> QED
    BY <2>1 DEF Die
<1>4. /\ DOMAIN todo' = Slave /\ DOMAIN holder' = Slave
      /\ \A t \in Slave : todo'[t] = {} /\ holder'[t] = Idle /\ answer'[t] = NoAnswer
  BY <1>a, <1>1, <1>2, <1>3 DEF Types, NonePending
<1>5. Types'
  BY <1>a, <1>1, <1>3, <1>4 DEF Types
<1>6. OneAtWork'
  BY <1>a, <1>1 DEF Types, OneAtWork, Calm
<1>7. \A t \in Slave : Pending(t)' = {}
  BY <1>4 DEF Pending
<1>8. OnlyOne' /\ OfItsStep' /\ WaitRight'
  BY <1>4, <1>7 DEF OnlyOne, OfItsStep, WaitRight
<1> QED
  BY <1>5, <1>6, <1>8 DEF MigrationInv

----------------------------------------------------------------------------
(* Nobody is dead at the start, and nothing pending.                       *)
LEMMA MigrationInvInit == Init => MigrationInv
<1> SUFFICES ASSUME Init PROVE MigrationInv
  OBVIOUS
<1>1. \A s \in Slave : /\ life[s] = "new" /\ todo[s] = {} /\ holder[s] = Idle
                       /\ answer[s] = NoAnswer /\ job[s].pc = "none"
  BY DEF Init, NoJob
<1>2. Types
  <2>1. DOMAIN Empty = Key
    BY DEF Empty
  <2> QED
    BY <1>1, <2>1 DEF Init, Types
<1>3. \A s \in Slave : Pending(s) = {}
  BY <1>1 DEF Pending
<1> QED
  BY <1>1, <1>2, <1>3 DEF MigrationInv, OneAtWork, OnlyOne, OfItsStep, WaitRight

(* Every step keeps the inductive invariant.                               *)
LEMMA MigrationInvStep ==
  ~overlapped' /\ Key # {} /\ Neighbours /\ MigrationInv /\ [Next]_vars => MigrationInv'
<1> SUFFICES ASSUME ~overlapped', Key # {}, Neighbours, MigrationInv, [Next]_vars
             PROVE  MigrationInv'
  OBVIOUS
<1>a. Types
  BY DEF MigrationInv
<1>1. ASSUME NEW s \in Slave,
             Detect(s) \/ Step1(s) \/ Step2(s) \/ Step3(s) \/ MigrationDone(s)
      PROVE  MigrationInv'
  BY <1>1, CoordinatorStep
<1>2. ASSUME NEW s \in Slave, Serve(s) PROVE MigrationInv'
  BY <1>2, MergeStep, SendStep, GetStep, AddStep DEF Serve
<1>3. ASSUME NEW s \in Slave, Join(s) \/ Die(s) PROVE MigrationInv'
  BY <1>3, JoinStep, DieStep
<1>4. ASSUME NEW k \in Key, Request(k) PROVE MigrationInv'
  BY <1>4, <1>a, Aside DEF Request, Types, slaves
<1>5. ASSUME NEW w \in {"curr", "prev"}, Leg(w) PROVE MigrationInv'
  <2>1. UNCHANGED <<life, todo, holder, answer, job>>
    BY <1>5 DEF Leg
  <2>2. \/ data' = data
        \/ data' = [data EXCEPT ![req[w]][w][req.key] = req.value]
    BY <1>5 DEF Leg
  <2>3. /\ DOMAIN data' = Slave
        /\ \A s \in Slave : DOMAIN data'[s] = {"curr", "prev"}
        /\ \A s \in Slave : \A v \in {"curr", "prev"} : DOMAIN data'[s][v] = Key
    BY <1>a, <2>2 DEF Types
  <2> QED
    BY <2>1, <2>3, Aside
<1>6. CASE Reply
  BY <1>6, <1>a, Aside DEF Reply, Types, slaves
<1>7. CASE UNCHANGED vars
  BY <1>7, <1>a, Aside DEF vars, Types, slaves
<1> QED
  BY <1>1, <1>2, <1>3, <1>4, <1>5, <1>6, <1>7 DEF Next

----------------------------------------------------------------------------
(***************************************************************************)
(* The ring during migrations, from what is proved of its tree.            *)
(***************************************************************************)
Proved == INSTANCE RingTreeProofs

(* A module's instance has its own copy of what it extends.                *)
LEMMA SameSets ==
  ASSUME NEW S
  PROVE  /\ Proved!IsFiniteSet(S) <=> IsFiniteSet(S)
         /\ Proved!Cardinality(S) = Cardinality(S)
BY DEF Proved!IsFiniteSet, IsFiniteSet, Proved!Cardinality, Cardinality

(* The two instances of the tree are the same: a registration of the one   *)
(* is one of the other,                                                    *)
LEMMA SameRegister ==
  ASSUME NEW v PROVE Ring!Register(v) <=> Proved!Register(v)
BY DEF Ring!Register, Proved!Register, Ring!insertBST, Proved!insertBST,
       Ring!leafFor, Proved!leafFor, Ring!Linked, Proved!Linked,
       Ring!Below, Proved!Below, Ring!NoPlan, Proved!NoPlan

(* and a death too.                                                        *)
LEMMA SameSlaveDown ==
  ASSUME NEW v PROVE Ring!SlaveDown(v) <=> Proved!SlaveDown(v)
<1>1. ASSUME NEW r, NEW l
      PROVE  /\ Ring!findMinimum(r, l) = Proved!findMinimum(r, l)
             /\ Ring!findMaximum(r, l) = Proved!findMaximum(r, l)
  BY DEF Ring!findMinimum, Proved!findMinimum, Ring!findMaximum, Proved!findMaximum
<1>2. ASSUME NEW a, NEW l, NEW r, NEW h, NEW w
      PROVE  /\ Ring!Search(a, l, r, h, w) = Proved!Search(a, l, r, h, w)
             /\ Ring!bst_upperBound(a, l, r, h, w)
                  = Proved!bst_upperBound(a, l, r, h, w)
             /\ Ring!findSuccessor(a, l, r, h, w)
                  = Proved!findSuccessor(a, l, r, h, w)
  BY DEF Ring!Search, Proved!Search, Ring!bst_upperBound, Proved!bst_upperBound,
         Ring!findSuccessor, Proved!findSuccessor, Ring!Walk, Proved!Walk,
         Ring!findMinimum, Proved!findMinimum
<1>3. Ring!PredecessorOnRing(v) = Proved!PredecessorOnRing(v)
  <2>1. Ring!findPredecessor(v) = Proved!findPredecessor(v)
    BY DEF Ring!findPredecessor, Proved!findPredecessor, Ring!Walk, Proved!Walk,
           Ring!findMaximum, Proved!findMaximum
  <2> QED
    BY <1>1, <2>1 DEF Ring!PredecessorOnRing, Proved!PredecessorOnRing
<1>4. Ring!deleteBST(v) = Proved!deleteBST(v)
  <2>1. ASSUME NEW n, NEW h PROVE Ring!Unlinked(n, h) = Proved!Unlinked(n, h)
    BY DEF Ring!Unlinked, Proved!Unlinked
  <2> QED
    BY <1>1, <1>2, <2>1 DEF Ring!deleteBST, Proved!deleteBST
<1>5. ASSUME NEW t PROVE Ring!BoundIn(t, v) = Proved!BoundIn(t, v)
  BY <1>2 DEF Ring!BoundIn, Proved!BoundIn
<1>6. ASSUME NEW p, NEW t, NEW b
      PROVE  Ring!TakeOver(v, p, t, b) <=> Proved!TakeOver(v, p, t, b)
  BY <1>1, <1>2 DEF Ring!TakeOver, Proved!TakeOver, Ring!NoPlan, Proved!NoPlan
<1>7. Ring!Linked = Proved!Linked
  BY DEF Ring!Linked, Proved!Linked, Ring!Below, Proved!Below
<1> QED
  BY <1>3, <1>4, <1>5, <1>6, <1>7
     DEF Ring!SlaveDown, Proved!SlaveDown, Ring!migrationInitDown,
         Proved!migrationInitDown

(* The slaves that have a node on the ring.                                *)
Members ==
  {s \in Slave : life[s] = "up"} \cup {s \in Slave : life[s] = "down" /\ job[s].pc = "none"}

(* The nodes that a migration was told of are before and after the dead    *)
(* slave, and after the one that takes over.                               *)
FoundOnRing(x) ==
  /\ job[x] \in [pc : {"step1", "step2", "step3", "end"}, pre : Proved!Linked,
                 succ : Proved!Linked, succsucc : Proved!Linked]
  /\ Proved!IsBefore(job[x].pre, x)
  /\ Proved!Takes(x, job[x].succ) /\ job[x].succ = Proved!Taker(x)
  /\ Proved!IsAfter(job[x].succsucc, hash[job[x].succ])
  /\ hash[job[x].pre] # hash[job[x].succ]

(* The ring holds the slaves that live and the one whose death has not     *)
(* been noticed, each once.                                                *)
RingOK ==
  /\ Proved!RingInv
  /\ Proved!Distinct
  /\ Proved!Points = Members
  /\ \A x \in Slave : AtWork(x) => FoundOnRing(x)
  /\ \A x \in Slave : life[x] = "down" => Formed

(* With RingOK, the slaves of a migration are different ones.              *)
LEMMA FoundNeighbours == RingOK => Neighbours
<1> SUFFICES ASSUME RingOK, NEW x \in Slave, AtWork(x)
    PROVE /\ {hash[job[x].pre], hash[job[x].succ], hash[job[x].succsucc]} \subseteq Slave
          /\ hash[job[x].succ] \notin {hash[job[x].pre], hash[job[x].succsucc]}
  BY DEF Neighbours
<1>1. FoundOnRing(x)
  BY DEF RingOK
<1>2. \A n \in Proved!Linked : hash[n] \in Slave /\ hash[n] \in Nat
  BY MigrationAssumption DEF RingOK, Members, Proved!Points
<1>3. ASSUME hash[job[x].succ] = hash[job[x].succsucc] PROVE FALSE
  BY <1>1, <1>2, <1>3 DEF FoundOnRing, Proved!IsAfter
<1> QED
  BY <1>1, <1>2, <1>3 DEF FoundOnRing

(* What does not change the ring changes nothing that is said of it.       *)
LEMMA SameRing ==
  ASSUME UNCHANGED ring
  PROVE  /\ Proved!Linked' = Proved!Linked /\ Proved!Points' = Proved!Points
         /\ Proved!Distinct' = Proved!Distinct
         /\ \A m, v : /\ Proved!IsBefore(m, v)' = Proved!IsBefore(m, v)
                      /\ Proved!Takes(v, m)' = Proved!Takes(v, m)
                      /\ Proved!IsAfter(m, v)' = Proved!IsAfter(m, v)
                      /\ Proved!Taker(v)' = Proved!Taker(v)
<1>1. Proved!Linked' = Proved!Linked /\ hash' = hash
  BY DEF ring, Proved!Linked, Proved!Below
<1> QED
  BY <1>1 DEF ring, Proved!Points, Proved!Distinct, Proved!IsBefore, Proved!Takes,
              Proved!IsAfter, Proved!Taker, Proved!UpperBound

(* A step of the ring, or none, keeps the invariant of its tree.           *)
LEMMA RingStays ==
  ASSUME Proved!RingInv,
         \/ UNCHANGED ring
         \/ \E s \in Slave : Ring!Register(s) \/ Ring!SlaveDown(s)
  PROVE  Proved!RingInv'
<1>1. CASE UNCHANGED ring
  <2>1. UNCHANGED Proved!vars
    BY <1>1 DEF ring, Proved!vars
  <2> QED
    BY <2>1, Proved!RingInvNext, MigrationAssumption
<1>2. ASSUME NEW s \in Slave, Ring!Register(s) \/ Ring!SlaveDown(s)
      PROVE  Proved!RingInv'
  <2>1. Proved!Next
    BY <1>2, SameRegister, SameSlaveDown, MigrationAssumption DEF Proved!Next
  <2> QED
    BY <2>1, Proved!RingInvNext, MigrationAssumption
<1> QED
  BY <1>1, <1>2

(* What a ring has of slaves is finite and in Nat.                         *)
LEMMA RingTypes ==
  ASSUME RingOK
  PROVE  /\ Proved!NodesOK /\ Proved!HashedTree
         /\ hash \in [Node -> Hash \cup {0}] /\ Proved!Linked \subseteq Node
         /\ IsFiniteSet(Proved!Linked) /\ IsFiniteSet(Members)
         /\ IsFiniteSet(Alive) /\ Cardinality(Alive) \in Nat
<1>1. /\ Proved!TypeOK /\ Proved!Whole /\ IsFiniteSet(Proved!Linked)
      /\ \A n \in Proved!Linked : hash[n] \in Hash
      /\ Members = Proved!Points
  BY SameSets DEF RingOK, Proved!RingInv
<1>2. Proved!NodesOK
  BY <1>1, Proved!LinkedType, MigrationAssumption
<1>3. Proved!HashedTree
  BY <1>1 DEF Proved!HashedTree, Proved!Whole
<1>4. IsFiniteSet(Members)
  <2> DEFINE f == [n \in Proved!Linked |-> hash[n]]
  <2>1. \A n \in Proved!Linked : f[n] = hash[n]
    OBVIOUS
  <2>2. f \in Surjection(Proved!Linked, Members)
    BY <1>1 DEF Surjection, Proved!Points
  <2> QED
    BY <1>1, <2>2, FS_Surjection
<1>5. IsFiniteSet(Alive)
  <2>1. Alive \subseteq Members
    BY DEF Alive, Members
  <2> QED
    BY <1>4, <2>1, FS_Subset
<1> QED
  BY <1>1, <1>2, <1>3, <1>4, <1>5, FS_CardinalityType DEF Proved!TypeOK, Proved!NodesOK

(* A slave that registers comes on the ring, before any migration.         *)
LEMMA JoinRing ==
  ASSUME MigrationInv, RingOK, NEW s \in Slave, Join(s)
  PROVE  RingOK'
<1>1. /\ life[s] = "new" /\ life' = [life EXCEPT ![s] = "up"]
      /\ job' = job /\ Proved!Register(s) /\ Types
  BY SameRegister DEF Join, MigrationInv
<1>2. \A x \in Slave : life[x] # "down" /\ job[x].pc = "none"
  BY <1>1 DEF RingOK, Formed, Types
<1>3. \A x \in Slave : life'[x] # "down" /\ ~AtWork(x)'
  BY <1>1, <1>2 DEF AtWork, Types
<1>4. Proved!HashedTree /\ s \in Hash
  BY RingTypes, MigrationAssumption
<1>5. PICK new \in Node \ Proved!Linked :
        /\ Proved!Linked' = Proved!Linked \cup {new}
        /\ hash' = [hash EXCEPT ![new] = s]
  BY <1>1, <1>4, Proved!RegisterStep, MigrationAssumption
<1>6. hash \in [Node -> Hash \cup {0}] /\ Proved!Linked \subseteq Node
  BY RingTypes
<1>7. \A n \in Proved!Linked : hash'[n] = hash[n] /\ hash[n] # s
  BY <1>1, <1>5, <1>6 DEF RingOK, Proved!Points, Members
<1>8. hash'[new] = s
  BY <1>5, <1>6
<1>9. Proved!Points' = Proved!Points \cup {s}
  BY <1>5, <1>7, <1>8 DEF Proved!Points
<1>10. Members' = Members \cup {s}
  BY <1>1, <1>2 DEF Members, Types
<1>11. Proved!Distinct'
  BY <1>5, <1>7, <1>8 DEF RingOK, Proved!Distinct
<1>12. Proved!RingInv'
  BY RingStays DEF RingOK, Join
<1> QED
  BY <1>3, <1>9, <1>10, <1>11, <1>12 DEF RingOK

(* The slave that a migration begins for leaves the ring.                  *)
LEMMA DetectRing ==
  ASSUME MigrationInv, ~Lone', RingOK, NEW x \in Slave, Detect(x)
  PROVE  RingOK'
<1>1. /\ life[x] = "down" /\ job[x].pc = "none" /\ Types /\ OneAtWork
      /\ life' = life /\ Proved!SlaveDown(x)
      /\ DOMAIN job' = Slave /\ \A y \in Slave \ {x} : job'[y] = job[y]
      /\ job'[x] = [pc |-> "step1", pre |-> plan'.pre, succ |-> plan'.succ,
                    succsucc |-> plan'.succsucc]
  BY SameSlaveDown DEF Detect, MigrationInv, Types, NoJob
<1>2. /\ Proved!HashedTree /\ x \in Hash /\ x \in Nat
      /\ IsFiniteSet(Proved!Linked)
      /\ hash \in [Node -> Hash \cup {0}] /\ Proved!Linked \subseteq Node
  BY RingTypes, MigrationAssumption
<1>3. PICK n, gone :
        /\ n \in Proved!Linked /\ hash[n] = x /\ gone \in Proved!Linked
        /\ Proved!Linked' = Proved!Linked \ {gone}
        /\ hash' = [hash EXCEPT ![n] = hash[gone]]
  BY <1>1, <1>2, Proved!DeathStep, MigrationAssumption
<1>4. hash'[n] = hash[gone] /\ \A m \in Proved!Linked \ {n} : hash'[m] = hash[m]
  BY <1>2, <1>3
<1>5. Proved!Distinct'
  BY <1>3, <1>4 DEF RingOK, Proved!Distinct
<1>6. Proved!Points' = Proved!Points \ {x}
  <2>1. \A m \in Proved!Linked' : hash'[m] \in Proved!Points /\ hash'[m] # x
    BY <1>3, <1>4 DEF Proved!Points, Proved!Distinct, RingOK
  <2>2. ASSUME NEW p \in Proved!Points, p # x PROVE \E m \in Proved!Linked' : hash'[m] = p
    <3>1. PICK m \in Proved!Linked : hash[m] = p
      BY DEF Proved!Points
    <3>2. m # n
      BY <1>3, <2>2, <3>1
    <3> QED
      BY <1>3, <1>4, <3>1, <3>2
  <2> QED
    BY <2>1, <2>2 DEF Proved!Points
<1>7. Members' = Members \ {x} /\ Members' = Alive /\ Alive' = Alive
  <2>1. \A y \in Slave : life[y] = "down" /\ job[y].pc # "done" => y = x
    BY <1>1 DEF OneAtWork
  <2>2. \A y \in Slave : (y \in Members') <=> (y # x /\ y \in Members)
    BY <1>1 DEF Members
  <2>3. \A y \in Slave : (y # x /\ y \in Members) <=> life[y] = "up"
    <3>1. life[x] = "down"
      BY <1>1
    <3> QED
      BY <2>1, <3>1 DEF Members
  <2> QED
    BY <1>1, <2>2, <2>3 DEF Members, Alive
<1>8. Cardinality(Proved!Points') > 1
  <2>1. Formed'
    BY <1>1 DEF RingOK, Formed
  <2>2. PICK s, t \in Alive : s # t
    BY <1>7, <2>1 DEF Lone
  <2>3. IsFiniteSet({s}) /\ Cardinality({s}) = 1
    BY FS_Singleton
  <2>4. IsFiniteSet({s} \cup {t}) /\ Cardinality({s} \cup {t}) = 2
    BY <2>2, <2>3, FS_AddElement
  <2>5. Cardinality({s} \cup {t}) <= Cardinality(Alive) /\ Cardinality(Alive) \in Nat
    BY <2>2, FS_Subset, RingTypes
  <2>6. Proved!Points' = Alive
    BY <1>6, <1>7 DEF RingOK
  <2> QED
    BY <2>4, <2>5, <2>6
<1>9. treeRoot' # NULL
  <2>1. (Proved!Whole => Proved!NodesOK)'
    BY Proved!LinkedType, MigrationAssumption, PTL
  <2>2. Proved!RingInv'
    BY RingStays DEF RingOK, Detect
  <2>3. ASSUME Proved!Linked' = {} PROVE FALSE
    <3>1. Proved!Points' = {}
      BY <2>3 DEF Proved!Points
    <3> QED
      BY <1>8, <3>1, FS_EmptySet
  <2> QED
    BY <2>1, <2>2, <2>3 DEF Proved!RingInv, Proved!NodesOK
<1>10. Proved!PlanFor(x)'
  BY <1>1, <1>2, <1>9, SameSets, Proved!PlanStep, MigrationAssumption
<1>11. FoundOnRing(x)'
  <2>1. /\ plan' \in [gone : {x}, pre : Proved!Linked', succ : Proved!Linked',
                      succsucc : Proved!Linked']
        /\ Proved!IsBefore(plan.pre, x)'
        /\ Proved!Takes(x, plan.succ)' /\ plan'.succ = Proved!Taker(x)'
        /\ Proved!IsAfter(plan.succsucc, hash[plan.succ])'
        /\ Proved!PredecessorSurvives'
    BY <1>5, <1>10 DEF Proved!PlanFor
  <2>2. job'[x].pre = plan'.pre /\ job'[x].succ = plan'.succ
        /\ job'[x].succsucc = plan'.succsucc
    BY <1>1
  <2>3. hash'[plan'.pre] # hash'[plan'.succ]
    BY <1>2, <1>8, <2>1, SameSets DEF Proved!PredecessorSurvives
  <2>4. job'[x] \in [pc : {"step1", "step2", "step3", "end"}, pre : Proved!Linked',
                     succ : Proved!Linked', succsucc : Proved!Linked']
    BY <1>1, <2>1
  <2> QED
    BY <2>1, <2>2, <2>3, <2>4 DEF FoundOnRing
<1>12. \A y \in Slave : AtWork(y)' => y = x
  BY <1>1 DEF AtWork, OneAtWork, Types
<1>13. Proved!RingInv'
  BY RingStays DEF RingOK, Detect
<1> QED
  BY <1>1, <1>5, <1>6, <1>7, <1>11, <1>12, <1>13 DEF RingOK, Formed

(* What leaves the ring and the processes alone.                           *)
LEMMA AsideRing ==
  ASSUME RingOK, UNCHANGED <<ring, life>>,
         \/ job' = job
         \/ \E x \in Slave : \E to \in {"step2", "step3", "end", "done"} :
              /\ AtWork(x) /\ DOMAIN job = Slave
              /\ job' = [job EXCEPT ![x].pc = to]
  PROVE  RingOK'
<1>1. \A x \in Slave :
        /\ job'[x].pc = "none" <=> job[x].pc = "none"
        /\ AtWork(x)' =>
             /\ AtWork(x)
             /\ \E w : job'[x] = [job[x] EXCEPT !.pc = w]
                      /\ w \in {"step1", "step2", "step3", "end"}
  <2>1. CASE job' = job
    BY <2>1 DEF AtWork, RingOK, FoundOnRing
  <2>2. ASSUME NEW x \in Slave, NEW to \in {"step2", "step3", "end", "done"},
               AtWork(x), DOMAIN job = Slave, job' = [job EXCEPT ![x].pc = to]
        PROVE  /\ \A y \in Slave \ {x} : job'[y] = job[y]
               /\ job'[x].pc = to /\ job'[x] = [job[x] EXCEPT !.pc = to]
    <3>1. "pc" \in DOMAIN job[x]
      BY <2>2 DEF RingOK, FoundOnRing
    <3> QED
      BY <2>2, <3>1
  <2>3. ASSUME NEW x \in Slave, NEW to \in {"step2", "step3", "end", "done"},
               AtWork(x), DOMAIN job = Slave, job' = [job EXCEPT ![x].pc = to],
               NEW y \in Slave
        PROVE  /\ job'[y].pc = "none" <=> job[y].pc = "none"
               /\ AtWork(y)' =>
                    /\ AtWork(y)
                    /\ \E w : job'[y] = [job[y] EXCEPT !.pc = w]
                             /\ w \in {"step1", "step2", "step3", "end"}
    <3>1. CASE y = x
      BY <2>2, <2>3, <3>1 DEF AtWork
    <3>2. CASE y # x
      <4>1. job'[y] = job[y]
        BY <2>2, <2>3, <3>2
      <4>2. AtWork(y) => job[y].pc \in {"step1", "step2", "step3", "end"}
                        /\ job[y] = [job[y] EXCEPT !.pc = job[y].pc]
        BY DEF RingOK, FoundOnRing
      <4> QED
        BY <4>1, <4>2 DEF AtWork
    <3> QED
      BY <3>1, <3>2
  <2> QED
    BY <2>1, <2>3
<1>2. Proved!RingInv'
  BY RingStays DEF RingOK
<1>3. Members' = Members /\ Alive' = Alive /\ Formed' = Formed
  BY <1>1 DEF Members, Alive, Formed
<1>4. \A x \in Slave : AtWork(x)' => FoundOnRing(x)'
  <2> SUFFICES ASSUME NEW x \in Slave, AtWork(x)' PROVE FoundOnRing(x)'
    OBVIOUS
  <2>1. FoundOnRing(x) /\ hash' = hash
    BY <1>1 DEF RingOK, ring
  <2>2. /\ job'[x] \in [pc : {"step1", "step2", "step3", "end"}, pre : Proved!Linked,
                        succ : Proved!Linked, succsucc : Proved!Linked]
        /\ job'[x].pre = job[x].pre /\ job'[x].succ = job[x].succ
        /\ job'[x].succsucc = job[x].succsucc
    BY <1>1, <2>1 DEF FoundOnRing
  <2> QED
    BY <2>1, <2>2, SameRing DEF FoundOnRing
<1> QED
  BY <1>2, <1>3, <1>4, SameRing DEF RingOK

(* A slave that dies stays on the ring until that is noticed.              *)
LEMMA DieRing ==
  ASSUME MigrationInv, RingOK, NEW s \in Slave, Die(s)
  PROVE  RingOK'
<1>1. /\ life[s] = "up" /\ life' = [life EXCEPT ![s] = "down"]
      /\ Formed /\ job' = job /\ Types /\ UNCHANGED ring
  BY DEF Die, MigrationInv
<1>2. job[s].pc = "none"
  BY <1>1 DEF Types
<1>3. Members' = Members /\ Formed'
  BY <1>1, <1>2 DEF Members, Formed, Types
<1>5. \A x \in Slave : AtWork(x)' => FoundOnRing(x)'
  <2> SUFFICES ASSUME NEW x \in Slave, AtWork(x)' PROVE FoundOnRing(x)'
    OBVIOUS
  <2>1. FoundOnRing(x) /\ hash' = hash
    BY <1>1 DEF RingOK, AtWork, ring
  <2> QED
    BY <1>1, <2>1, SameRing DEF FoundOnRing
<1>6. Proved!RingInv'
  BY <1>1, RingStays DEF RingOK
<1> QED
  BY <1>1, <1>3, <1>5, <1>6, SameRing DEF RingOK

(* Every step keeps what is said of the ring.                              *)
LEMMA RingOKStep ==
  ~Lone' /\ MigrationInv /\ RingOK /\ [Next]_vars => RingOK'
<1> SUFFICES ASSUME ~Lone', MigrationInv, RingOK, [Next]_vars
             PROVE  RingOK'
  OBVIOUS
<1>1. ASSUME NEW s \in Slave, Join(s) \/ Detect(s) \/ Die(s) PROVE RingOK'
  BY <1>1, JoinRing, DetectRing, DieRing
<1>2. ASSUME NEW s \in Slave, Step1(s) \/ Step2(s) \/ Step3(s) \/ MigrationDone(s)
      PROVE  RingOK'
  <2>1. /\ UNCHANGED <<ring, life>> /\ DOMAIN job = Slave /\ AtWork(s)
        /\ \E to \in {"step2", "step3", "end", "done"} :
             job' = [job EXCEPT ![s].pc = to]
    BY <1>2 DEF Step1, Step2, Step3, MigrationDone, Step, AtWork, MigrationInv, Types
  <2> QED
    BY <2>1, AsideRing
<1>3. ASSUME UNCHANGED <<ring, life, job>> PROVE RingOK'
  BY <1>3, AsideRing
<1> QED
  BY <1>1, <1>2, <1>3
     DEF Next, vars, Serve, merge_maps, send_map, get_data, addToMap, Begin,
         Request, Leg, Reply

(* The ring is empty at the start, as nobody has registered.               *)
LEMMA RingOKInit == Init => RingOK
<1> SUFFICES ASSUME Init PROVE RingOK
  OBVIOUS
<1>1. Proved!Init
  BY DEF Init, Ring!Init, Proved!Init, Ring!NoPlan, Proved!NoPlan
<1>2. Proved!RingInv
  BY <1>1, Proved!RingInvInit, MigrationAssumption
<1>3. Proved!Linked = {}
  <2>1. Proved!NodesOK
    BY <1>2, Proved!LinkedType, MigrationAssumption DEF Proved!RingInv
  <2> QED
    BY <1>1, <2>1 DEF Proved!NodesOK, Proved!Init
<1>4. \A s \in Slave : life[s] = "new" /\ job[s].pc = "none"
  BY DEF Init, NoJob
<1> QED
  BY <1>2, <1>3, <1>4 DEF RingOK, Proved!Distinct, Proved!Points, Members, AtWork

(* A slave is new, lives or is dead.                                       *)
LifeOK == life \in [Slave -> {"new", "up", "down"}]

(* It always is.                                                           *)
LEMMA LifeStays == LifeOK /\ [Next]_vars => LifeOK'
<1> SUFFICES ASSUME LifeOK, [Next]_vars PROVE LifeOK'
  OBVIOUS
<1>1. ASSUME NEW s \in Slave, Join(s) \/ Die(s) PROVE LifeOK'
  BY <1>1 DEF LifeOK, Join, Die
<1>2. CASE UNCHANGED life
  BY <1>2 DEF LifeOK
<1> QED
  BY <1>1, <1>2 DEF Next, vars, Detect, Step1, Step2, Step3, MigrationDone, Step,
     Serve, merge_maps, send_map, get_data, addToMap, Begin, Request, Leg, Reply

(* Deaths that have overlapped have, and who is left alone stays so: if    *)
(* times are good, they were before.                                       *)
LEMMA ApartBefore == LifeOK /\ [Next]_vars /\ Apart' => Apart
<1> SUFFICES ASSUME LifeOK, [Next]_vars, Apart' PROVE Apart
  OBVIOUS
<1>1. ~overlapped
  <2>1. overlapped' = overlapped \/ overlapped' = (overlapped \/ ~Calm)
    <3>1. ASSUME NEW s \in Slave, Die(s)
          PROVE  overlapped' = overlapped \/ overlapped' = (overlapped \/ ~Calm)
      BY <3>1 DEF Die
    <3>2. CASE UNCHANGED overlapped
      BY <3>2
    <3> QED
      BY <3>1, <3>2 DEF Next, vars, past, Join, Detect, Step1, Step2, Step3,
         MigrationDone, Step, Serve, merge_maps, send_map, get_data, addToMap, Begin,
         Request, Leg, Reply
  <2> QED
    BY <2>1 DEF Apart
<1>2. ASSUME Formed PROVE Formed' /\ Alive' \subseteq Alive
  <2>1. ASSUME NEW s \in Slave, Die(s) PROVE Formed' /\ Alive' \subseteq Alive
    BY <1>2, <2>1 DEF Die, Formed, Alive, LifeOK
  <2>2. ASSUME NEW s \in Slave, Join(s) PROVE FALSE
    BY <1>2, <2>2 DEF Join, Formed
  <2>3. CASE UNCHANGED life
    BY <1>2, <2>3 DEF Formed, Alive
  <2> QED
    BY <2>1, <2>2, <2>3 DEF Next, vars, Detect, Step1, Step2, Step3, MigrationDone,
       Step, Serve, merge_maps, send_map, get_data, addToMap, Begin, Request, Leg, Reply
<1>3. ~Lone
  BY <1>2 DEF Lone, Apart
<1> QED
  BY <1>1, <1>3 DEF Apart

(* As long as no death comes before the migration for the last is over and *)
(* two slaves are left, one migration is at work, of its commands at most  *)
(* the one it sleeps for is pending (migrationInitDown,                    *)
(* coordination_server.cpp), and a slave that waits for a peer's table     *)
(* gets it; the ring holds the slaves that it should: the inductive        *)
(* invariant.                                                              *)
THEOREM MigrationInvariant ==
  ASSUME Key # {}
  PROVE  Spec => [](LifeOK /\ (Apart => MigrationInv /\ RingOK))
<1>1. ASSUME LifeOK, Apart => MigrationInv /\ RingOK, [Next]_vars, Apart'
      PROVE  (MigrationInv /\ RingOK)'
  <2>1. MigrationInv /\ RingOK /\ ~overlapped' /\ ~Lone'
    BY <1>1, ApartBefore DEF Apart
  <2> QED
    BY <1>1, <2>1, MigrationInvStep, RingOKStep, FoundNeighbours
<1>2. (LifeOK /\ (Apart => MigrationInv /\ RingOK)) /\ [Next]_vars
        => (LifeOK /\ (Apart => MigrationInv /\ RingOK))'
  BY <1>1, LifeStays
<1>3. Init => LifeOK
  BY DEF Init, LifeOK
<1> QED
  BY <1>2, <1>3, MigrationInvInit, RingOKInit, PTL DEF Spec

(* A step that is reported has been carried out, however long a slave had  *)
(* to wait for its mutex and for its peer.                                 *)
THEOREM StepsAreComplete ==
  ASSUME Key # {} PROVE Spec => []StepsComplete
<1>1. (Apart => MigrationInv) => StepsComplete
  <2> SUFFICES ASSUME MigrationInv, NEW s \in Slave, NEW c \in todo[s] \cup {holder[s]},
                      c.task \in {"get", "merge"}
               PROVE  c.step > Announced(c.job)
    BY DEF StepsComplete
  <2>1. c \in Pending(s)
    <3>1. Idle.task = "idle"
      BY DEF Idle
    <3> QED
      BY <3>1 DEF Pending
  <2>2. \/ c.step = 1 /\ job[c.job].pc = "step2"
        \/ c.step = 2 /\ job[c.job].pc = "step3"
        \/ c.step = 3 /\ job[c.job].pc = "end"
    BY <2>1 DEF MigrationInv, OfItsStep
  <2> QED
    BY <2>2 DEF Announced
<1> QED
  BY <1>1, MigrationInvariant, PTL

(* No slaves wait for one another (SlaveServer.cpp:427), unless one is     *)
(* left alone or deaths have overlapped: whatever the number of slaves,    *)
(* one migration by itself cannot bring a circle about.                    *)
THEOREM NobodyWaitsInACircle ==
  ASSUME Key # {} PROVE Spec => []NoCircularWait
<1>1. (Apart => MigrationInv) => NoCircularWait
  <2> SUFFICES ASSUME MigrationInv, NEW S \in SUBSET Slave, S # {},
                      \A s \in S : WaitsFor(s) \cap S # {}
               PROVE  FALSE
    BY DEF NoCircularWait, Circles, Apart
  <2>1. PICK s \in S : TRUE
    OBVIOUS
  <2>2. holder[s] # Idle /\ holder[s].from \in S
    BY <2>1 DEF WaitsFor
  <2>3. holder[s] \in Pending(s) /\ holder[s].task = "get"
    BY <2>1, <2>2 DEF Pending, MigrationInv, WaitRight
  <2>4. PICK q \in S : q = holder[s].from /\ q # s
    BY <2>1, <2>2, <2>3 DEF MigrationInv, OfItsStep
  <2>5. holder[q] # Idle
    BY <2>4 DEF WaitsFor
  <2>6. holder[q] \in Pending(q)
    BY <2>5 DEF Pending
  <2> QED
    BY <2>1, <2>3, <2>4, <2>6 DEF MigrationInv, OnlyOne
<1> QED
  BY <1>1, MigrationInvariant, PTL

----------------------------------------------------------------------------
(***************************************************************************)
(* The data.                                                               *)
(***************************************************************************)
Points == Proved!Points
Follows(p, q) == Proved!Follows(p, q)
Least(p) == \A q \in Points : p <= q

(* The slaves that a migration tells to exchange tables.                   *)
Pre(x) == hash[job[x].pre]
Succ(x) == hash[job[x].succ]
Succsucc(x) == hash[job[x].succsucc]

(* The value v of key k is what table w of its primary, or of the slave    *)
(* that follows it, may hold: that of the last acknowledged write, or some *)
(* value if it was written in troubled times; while a write of it is under *)
(* way, its value once the write's leg is over, and until then anything.   *)
(* Nothing is said of a key whose write the beginning of a migration has   *)
(* crossed, until it is written again.                                     *)
Under(k) == req # NoReq /\ req.key = k

Stored(w) == IF w = "curr" THEN req.ok ELSE "prev" \notin req.legs

Good(k, w, v) ==
  IF k \in crossed \/ (Under(k) /\ w \in req.legs) THEN TRUE
  ELSE IF k \in touched THEN acked[k] # None \/ (Under(k) /\ Stored(w)) => v # None
  ELSE IF Under(k) THEN v = req.value
  ELSE acked[k] # None => v = acked[k]

(* Before the slaves have all registered nothing is stored.                *)
Fresh ==
  ~Formed => /\ req = NoReq /\ \A k \in Key : acked[k] = None
             /\ \A s \in Slave : \A w \in {"curr", "prev"} :
                  \A k \in Key : data[s][w][k] = None

(* A write under way goes where its key belongs,                           *)
Homed == req.curr = Primary(req.key) /\ Follows(req.curr, req.prev)

(* or did so until migration x began, which makes the backup the primary,  *)
(* or the backup one that is dead; the write is over when x's first sleep  *)
(* is.                                                                     *)
Missed(x) ==
  /\ AtWork(x) /\ job[x].pc \in {"step1", "step2"} /\ req.key \in crossed
  /\ \/ req.curr = x /\ req.prev = Succ(x) /\ Primary(req.key) = Succ(x)
     \/ req.prev = x /\ req.curr = Primary(req.key)

(* Troubled times are those between a death and the end of its migration.  *)
Requested ==
  /\ DOMAIN acked = Key /\ written \in Nat
  /\ req # NoReq =>
       /\ Formed
       /\ req \in [key : Key, value : Nat \ {None}, legs : SUBSET {"curr", "prev"},
                   ok : BOOLEAN, curr : Slave, prev : Slave]
       /\ Homed \/ \E x \in Slave : Missed(x)
       /\ req.ok => "curr" \notin req.legs
       /\ req.key \notin touched => Calm /\ ("curr" \in req.legs \/ req.ok)

NotTheLast ==
  \A x \in Slave : life[x] = "down" /\ job[x].pc # "done" => \E q \in Points : q > x

(* A command has come to the slave it was meant for.                       *)
Addressed ==
  \A t \in Slave : \A c \in Pending(t) :
    \/ c.task = "merge" /\ t = Succ(c.job)
    \/ c.task = "get" /\ c.step = 1 /\ t = Succsucc(c.job)
       /\ c.from = Succ(c.job) /\ c.what = "prev"
    \/ c.task = "get" /\ c.step = 3 /\ t = Succ(c.job)
       /\ c.from = Pre(c.job) /\ c.what = "curr"

(* What tables will hold once the commands of the step are carried out.    *)
Best(new, old) == IF new = None THEN old ELSE new

ToMerge(x) ==
  AtWork(x) /\ \/ job[x].pc \in {"step1", "step2"}
               \/ job[x].pc = "step3" /\ Pending(Succ(x)) # {}

Merged(x, k) ==
  IF ToMerge(x) THEN Best(data[Succ(x)].prev[k], data[Succ(x)].curr[k])
  ELSE data[Succ(x)].curr[k]

Laid(t, from, what, k) ==
  IF Pending(t) = {} THEN data[t].prev[k]
  ELSE Best(IF answer[t] # NoAnswer THEN answer[t][k] ELSE data[from][what][k],
            data[t].prev[k])

Backup1(x, k) ==
  CASE job[x].pc = "step1" -> Best(data[Succ(x)].prev[k], data[Succsucc(x)].prev[k])
    [] job[x].pc = "step2" -> Laid(Succsucc(x), Succ(x), "prev", k)
    [] OTHER -> data[Succsucc(x)].prev[k]

Backup3(x, k) == Laid(Succ(x), Pre(x), "curr", k)

(* Of the slaves that live, the primary of a key and the one that follows  *)
(* have it.                                                                *)
CalmData ==
  \A k \in Key :
    /\ life[Primary(k)] = "up" => Good(k, "curr", data[Primary(k)].curr[k])
    /\ \A q \in Points : Follows(Primary(k), q) /\ life[q] = "up" =>
         Good(k, "prev", data[q].prev[k])

(* During a migration they have it already, or will have.                  *)
WorkData(x) ==
  \A k \in Key :
    /\ Good(k, "curr", IF Primary(k) = Succ(x) THEN Merged(x, k)
                       ELSE data[Primary(k)].curr[k])
    /\ \A q \in Points : Follows(Primary(k), q) =>
         IF Primary(k) = Succ(x) THEN Good(k, "prev", Backup1(x, k))
         ELSE IF Primary(k) = Pre(x)
         THEN job[x].pc = "end" => Good(k, "prev", Backup3(x, k))
         ELSE Good(k, "prev", data[q].prev[k])

(* What a slave has in its tables is routed to it or to a point before it, *)
(* so that merging them puts no old value over a newer one.                *)
Behind ==
  \A r \in Points, k \in Key :
    /\ data[r].curr[k] # None => Primary(k) <= r
    /\ data[r].prev[k] # None =>
         IF \E x \in Slave : ToMerge(x) /\ r = Succ(x) THEN Primary(k) <= r
         ELSE Primary(k) < r \/ Least(r)

AnswerBehind ==
  \A x \in Slave : \A k \in Key :
    /\ AtWork(x) /\ job[x].pc = "step2" /\ answer[Succsucc(x)] # NoAnswer
         /\ answer[Succsucc(x)][k] # None => Primary(k) <= Succ(x)
    /\ AtWork(x) /\ job[x].pc = "end" /\ answer[Succ(x)] # NoAnswer
         /\ answer[Succ(x)][k] # None => Primary(k) <= Pre(x)

Quiet == Formed /\ \A x \in Slave : ~AtWork(x)

DataInv ==
  /\ Fresh /\ Requested /\ NotTheLast /\ Addressed
  /\ Quiet => CalmData
  /\ \A x \in Slave : AtWork(x) => WorkData(x)
  /\ Behind /\ AnswerBehind

(* What the data of a run is routed by is the same in both instances.      *)
LEMMA SameRoute ==
  /\ Ring!Points = Points /\ Ring!Linked = Proved!Linked
  /\ \A k : Primary(k) = Proved!Route(k)
  /\ \A p : Ring!findSuccessor(treeRoot, left, right, hash, p)
              = Proved!findSuccessor(treeRoot, left, right, hash, p)
<1>1. Ring!Linked = Proved!Linked
  BY DEF Ring!Linked, Proved!Linked, Ring!Below, Proved!Below
<1>2. ASSUME NEW r, NEW l PROVE Ring!findMinimum(r, l) = Proved!findMinimum(r, l)
  BY DEF Ring!findMinimum, Proved!findMinimum
<1>3. ASSUME NEW p
      PROVE  Ring!findSuccessor(treeRoot, left, right, hash, p)
               = Proved!findSuccessor(treeRoot, left, right, hash, p)
  BY <1>2 DEF Ring!findSuccessor, Proved!findSuccessor, Ring!Walk, Proved!Walk
<1>4. ASSUME NEW k PROVE Ring!UpperBound(k) = Proved!UpperBound(k)
  BY DEF Ring!UpperBound, Proved!UpperBound, Ring!bst_upperBound, Proved!bst_upperBound
<1>5. ASSUME NEW k PROVE Primary(k) = Proved!Route(k)
  BY <1>2, <1>4 DEF Primary, Ring!Route, Proved!Route
<1> QED
  BY <1>1, <1>3, <1>5 DEF Points, Ring!Points, Proved!Points

(* What does not change the ring changes no key's primary.                 *)
LEMMA SameKeys ==
  ASSUME UNCHANGED ring
  PROVE  /\ Points' = Points
         /\ \A k : Primary(k)' = Primary(k)
         /\ \A p, q : Follows(p, q)' = Follows(p, q)
         /\ \A p : Least(p)' = Least(p)
<1>1. Points' = Points
  BY SameRing DEF Points
<1>2. \A k : Primary(k)' = Primary(k)
  BY DEF Primary, Ring!Route, Ring!UpperBound, ring
<1>3. \A p, q : Follows(p, q)' = Follows(p, q)
  BY <1>1 DEF Follows, Proved!Follows, Points
<1> QED
  BY <1>1, <1>2, <1>3 DEF Least

(* The ring of points, and what is routed to which.                        *)
Routed(k, p) ==
  /\ p \in Points
  /\ \/ p >= k /\ \A q \in Points : q >= k => p <= q
     \/ (\A q \in Points : q < k) /\ Least(p)

RoutesOK ==
  /\ Points \subseteq Slave /\ Points \subseteq Nat
  /\ \A k \in Key : Routed(k, Primary(k))
  /\ \A p \in Points : ~IsLast(p) => \A q \in Secondaries(p) : Follows(p, q)

(* On a ring of slaves that registered in order, keys have the primaries   *)
(* and secondaries that the ring of points gives them.                     *)
LEMMA Routes ==
  MigrationInv /\ RingOK /\ Ascending /\ Formed /\ ~Lone /\ Slave # {} => RoutesOK
<1> SUFFICES ASSUME MigrationInv, RingOK, Ascending, Formed, ~Lone, Slave # {}
             PROVE  RoutesOK
  OBVIOUS
<1>1. /\ Points = Members /\ Points \subseteq Slave /\ Points \subseteq Nat
  BY MigrationAssumption DEF RingOK, Points, Members
<1>2. Proved!Linked # {}
  <2>1. PICK s \in Slave : TRUE
    OBVIOUS
  <2>2. CASE life[s] = "down"
    <3>1. Alive # {}
      BY DEF Lone
    <3> QED
      BY <1>1, <3>1 DEF Alive, Members, Points, Proved!Points
  <2>3. CASE life[s] # "down"
    <3>1. life[s] = "up"
      BY <2>3 DEF Formed, MigrationInv, Types
    <3> QED
      BY <1>1, <3>1 DEF Members, Points, Proved!Points
  <2> QED
    BY <2>2, <2>3
<1>3. Proved!Whole /\ treeRoot # NULL /\ Proved!Distinct
  BY <1>2, RingTypes DEF RingOK, Proved!RingInv, Proved!NodesOK
<1>4. \A k \in Key : Routed(k, Primary(k))
  <2>1. Proved!RoutedOK
    BY <1>3, Proved!AscendingRoutes, MigrationAssumption
  <2>2. \A k \in Nat : Proved!Routed(k, Proved!Route(k))
    BY <2>1, SameRoute DEF Proved!RoutedOK, Proved!Chain, Ascending
  <2> QED
    BY <2>2, SameRoute, MigrationAssumption DEF Routed, Proved!Routed, Points, Least
<1>5. ASSUME NEW p \in Points, ~IsLast(p), NEW q \in Secondaries(p)
      PROVE  Follows(p, q)
  <2>1. Proved!NextPoint(p)
    BY <1>3, Proved!NextFollows, MigrationAssumption DEF Proved!NextPointOK, Points
  <2>2. PICK n : n = Proved!findSuccessor(treeRoot, left, right, hash, p)
    OBVIOUS
  <2>3. n # NULL /\ Follows(p, hash[n])
    BY <1>5, <2>1, <2>2, SameRoute DEF Proved!NextPoint, IsLast, Follows, Points
  <2>4. Secondaries(p) = {hash[n]}
    BY <2>2, <2>3, SameRoute DEF Secondaries
  <2> QED
    BY <1>5, <2>3, <2>4
<1> QED
  BY <1>1, <1>4, <1>5 DEF RoutesOK

(* A point is followed by one point, and follows one.                      *)
LEMMA FollowsOnce ==
  ASSUME RoutesOK, NEW p, NEW q, Follows(p, q)
  PROVE  /\ p \in Points /\ q \in Points /\ p < q
         /\ \A r : Follows(p, r) => r = q
         /\ \A r : Follows(r, q) => r = p
<1>1. Points \subseteq Nat
  BY DEF RoutesOK
<1>2. ASSUME NEW a, NEW b, Follows(a, b)
      PROVE  /\ a \in Points /\ b \in Points /\ a < b /\ a \in Nat /\ b \in Nat
             /\ \A r \in Points : r > a => b <= r
  BY <1>1, <1>2 DEF Follows, Proved!Follows, Points
<1>3. ASSUME NEW r, Follows(p, r) PROVE r = q
  <2>1. /\ q \in Points /\ p < q /\ q \in Nat /\ \A a \in Points : a > p => q <= a
    BY <1>2
  <2>2. /\ r \in Points /\ p < r /\ r \in Nat /\ \A a \in Points : a > p => r <= a
    BY <1>2, <1>3
  <2>3. p \in Nat
    BY <1>2
  <2> QED
    BY <2>1, <2>2, <2>3
<1>4. ASSUME NEW r, Follows(r, q) PROVE r = p
  <2>1. /\ p \in Points /\ p < q /\ p \in Nat /\ \A a \in Points : a > p => q <= a
    BY <1>2
  <2>2. /\ r \in Points /\ r < q /\ r \in Nat /\ \A a \in Points : a > r => q <= a
    BY <1>2, <1>4
  <2>3. q \in Nat
    BY <1>2
  <2> QED
    BY <2>1, <2>2, <2>3
<1> QED
  BY <1>2, <1>3, <1>4

(* The slaves of a migration x, which is not of the last slave: Succ(x) is *)
(* the next after x, Pre(x) before it and Succsucc(x) behind; they live.   *)
Around(x) ==
  /\ {Pre(x), Succ(x), Succsucc(x)} \subseteq Points
  /\ Succ(x) \notin {Pre(x), Succsucc(x)}
  /\ x \notin Points /\ Succ(x) > x /\ \A q \in Points : q > x => Succ(x) <= q
  /\ \A p, q : Follows(p, q) =>
       /\ p = Succ(x) <=> q = Succsucc(x)
       /\ p = Pre(x) <=> q = Succ(x)
  /\ Succsucc(x) > Succ(x) \/ Least(Succsucc(x))
  /\ Pre(x) < Succ(x) \/ Least(Succ(x))
  /\ \A q \in Points : life[q] = "up"

AroundOK == \A x \in Slave : AtWork(x) => Around(x)

(* What the coordinator found for a migration is just that.                *)
LEMMA FoundAround ==
  /\ MigrationInv /\ RingOK /\ Ascending /\ ~Lone /\ Slave # {}
  /\ NotTheLast
  => AroundOK
<1> SUFFICES ASSUME MigrationInv, RingOK, Ascending, ~Lone, Slave # {},
                    NotTheLast, NEW x \in Slave, AtWork(x)
             PROVE  Around(x)
  BY DEF AroundOK
<1>1. /\ FoundOnRing(x) /\ life[x] = "down" /\ job[x].pc \notin {"none", "done"}
      /\ Formed /\ OneAtWork /\ Points = Members
  BY DEF RingOK, MigrationInv, Types, AtWork, Points
<1>2. RoutesOK
  BY <1>1, Routes
<1>3. \A q \in Points : life[q] = "up"
  BY <1>1 DEF Members, OneAtWork
<1>4. x \notin Points /\ x \in Nat
  BY <1>1, <1>3, MigrationAssumption
<1>5. PICK s, m, w : s = Succ(x) /\ m = Pre(x) /\ w = Succsucc(x)
  OBVIOUS
<1>6. {s, m, w} \subseteq Points /\ s \notin {m, w}
  <2>1. s \notin {m, w}
    BY <1>5, FoundNeighbours DEF Neighbours, Succ, Pre, Succsucc
  <2> QED
    BY <1>1, <1>5, <2>1 DEF FoundOnRing, Succ, Pre, Succsucc, Points, Proved!Points
<1>7. s > x /\ \A q \in Points : q > x => s <= q
  <2>1. Proved!Whole /\ treeRoot # NULL
    BY <1>6, RingTypes DEF RingOK, Proved!RingInv, Proved!NodesOK, Points, Proved!Points
  <2>2. Proved!RoutedOK
    BY <2>1, Proved!AscendingRoutes, MigrationAssumption
  <2>3. Proved!Routed(x, Proved!Route(x))
    BY <1>4, <2>2, SameRoute DEF Proved!RoutedOK, Proved!Chain, Ascending
  <2>4. Proved!Route(x) = s
    BY <1>1, <1>5 DEF FoundOnRing, Proved!Taker, Proved!Route, Succ
  <2>5. \E q \in Points : q > x
    BY <1>1 DEF NotTheLast
  <2>6. /\ s \in Points
        /\ \/ s >= x /\ \A q \in Points : q >= x => s <= q
           \/ (\A q \in Points : q < x) /\ \A q \in Points : s <= q
    BY <2>3, <2>4 DEF Proved!Routed, Points
  <2>7. Points \subseteq Nat
    BY <1>2 DEF RoutesOK
  <2> QED
    BY <1>4, <2>5, <2>6, <2>7
<1>8. \/ m < x /\ \A q \in Points : q < x => q <= m
      \/ \A q \in Points : q >= x /\ q <= m
  BY <1>1, <1>5 DEF FoundOnRing, Proved!IsBefore, Pre, Points, Proved!Points
<1>9. \/ w > s /\ \A q \in Points : q > s => w <= q
      \/ \A q \in Points : q <= s /\ w <= q
  BY <1>1, <1>5 DEF FoundOnRing, Proved!IsAfter, Succ, Succsucc, Points, Proved!Points
<1>10. ASSUME NEW p, NEW q, Follows(p, q)
       PROVE  (p = s <=> q = w) /\ (p = m <=> q = s)
  <2>1. p \in Points /\ q \in Points /\ p < q /\ \A r \in Points : r > p => q <= r
    BY <1>10 DEF Follows, Proved!Follows, Points
  <2>2. /\ p \in Nat /\ q \in Nat /\ s \in Nat /\ m \in Nat /\ w \in Nat
        /\ Points \subseteq Nat
    BY <1>2, <1>6, <2>1 DEF RoutesOK
  <2>3. p = s <=> q = w
    BY <1>6, <1>9, <2>1, <2>2
  <2>4. p = m <=> q = s
    BY <1>4, <1>6, <1>7, <1>8, <2>1, <2>2
  <2> QED
    BY <2>3, <2>4
<1>11. (w > s \/ Least(w)) /\ (m < s \/ Least(s))
  <2>1. Points \subseteq Nat /\ s \in Nat /\ m \in Nat /\ w \in Nat
    BY <1>2, <1>6 DEF RoutesOK
  <2>2. w > s \/ Least(w)
    BY <1>9 DEF Least
  <2>3. m < s \/ Least(s)
    BY <1>4, <1>6, <1>7, <1>8, <2>1 DEF Least
  <2> QED
    BY <2>2, <2>3
<1> QED
  BY <1>3, <1>4, <1>5, <1>6, <1>7, <1>10, <1>11 DEF Around

(* A request: what was good for its key still is.                          *)
LEMMA RequestGood ==
  ASSUME NEW k0 \in Key, Request(k0), NEW k, NEW w \in {"curr", "prev"}, NEW v,
         Good(k, w, v)
  PROVE  Good(k, w, v)'
<1>1. /\ ~Under(k) /\ req = NoReq /\ acked' = acked
      /\ touched' = touched \ {k0} \/ touched' = touched \cup {k0}
      /\ crossed' = crossed \ {k0} \/ crossed' = crossed
  BY DEF Request, Under
<1>2. PICK s : req' = [key |-> k0, value |-> written', legs |-> {"curr", "prev"},
                       ok |-> FALSE, curr |-> Primary(k0), prev |-> s]
  BY DEF Request
<1>3. req'.key = k0 /\ w \in req'.legs
  BY <1>2
<1>4. CASE k # k0
  <2>1. /\ ~Under(k)' /\ (k \in touched' <=> k \in touched)
        /\ (k \in crossed' <=> k \in crossed)
    BY <1>1, <1>3, <1>4 DEF Under
  <2> QED
    BY <1>1, <2>1 DEF Good
<1>5. CASE k = k0
  <2>1. req' # NoReq
    <3>1. req'.key \in Nat /\ NoReq.key = -1
      BY <1>3, MigrationAssumption DEF NoReq
    <3> QED
      BY <3>1
  <2>2. Under(k)'
    BY <1>3, <1>5, <2>1 DEF Under
  <2> QED
    BY <1>3, <2>2 DEF Good
<1> QED
  BY <1>4, <1>5

(* The reply makes the value the last one that was acknowledged.           *)
LEMMA ReplyGood ==
  ASSUME Requested, Reply, NEW k \in Key, NEW w \in {"curr", "prev"}, NEW v,
         Good(k, w, v)
  PROVE  Good(k, w, v)'
<1>1. /\ req # NoReq /\ req.legs = {} /\ UNCHANGED <<touched, crossed>> /\ ~Under(k)'
      /\ acked' = IF req.ok THEN [acked EXCEPT ![req.key] = req.value] ELSE acked
      /\ req.ok \in BOOLEAN /\ DOMAIN acked = Key /\ req.value # None
      /\ req.key \notin touched => req.ok
  BY DEF Reply, Requested, Under, past
<1>2. CASE req.key # k
  BY <1>1, <1>2 DEF Good, Under
<1>3. CASE req.key = k /\ req.ok
  <2>1. acked'[k] = req.value /\ Under(k) /\ Stored(w)
    BY <1>1, <1>3 DEF Under, Stored
  <2> QED
    BY <1>1, <2>1 DEF Good
<1>4. CASE req.key = k /\ ~req.ok
  BY <1>1, <1>4 DEF Good, Under
<1> QED
  BY <1>2, <1>3, <1>4

(* What a leg makes of the values that are good.                           *)
LegGoodFor(w0) ==
  \A k, v : \A w \in {"curr", "prev"} :
    /\ Good(k, w, v) /\ (k # req.key \/ w # w0) => Good(k, w, v)'
    /\ k = req.key /\ v = req.value => Good(k, w0, v)'
    /\ k = req.key /\ k \in touched /\ v # None => Good(k, w, v)'
    /\ k \in crossed => Good(k, w, v)'

(* A leg of a write that finds its slave stores the value, which is good   *)
(* there; nothing else changes.                                            *)
LEMMA LegGood ==
  ASSUME Requested, NEW w0 \in {"curr", "prev"}, Leg(w0)
  PROVE  LegGoodFor(w0)
<1> SUFFICES ASSUME NEW k, NEW w \in {"curr", "prev"}, NEW v
             PROVE  /\ Good(k, w, v) /\ (k # req.key \/ w # w0) => Good(k, w, v)'
                    /\ k = req.key /\ v = req.value => Good(k, w0, v)'
                    /\ k = req.key /\ k \in touched /\ v # None => Good(k, w, v)'
                    /\ k \in crossed => Good(k, w, v)'
  BY DEF LegGoodFor
<1>1. /\ req # NoReq /\ UNCHANGED <<acked, touched, crossed>> /\ w0 \in req.legs
      /\ req' = [req EXCEPT !.legs = @ \ {w0},
                            !.ok = @ \/ (w0 = "curr" /\ life[req[w0]] = "up")]
      /\ req \in [key : Key, value : Nat \ {None}, legs : SUBSET {"curr", "prev"},
                   ok : BOOLEAN, curr : Slave, prev : Slave]
  BY DEF Leg, Requested, past
<1>2. /\ req'.key = req.key /\ req'.value = req.value /\ req'.legs = req.legs \ {w0}
      /\ req'.ok = (req.ok \/ (w0 = "curr" /\ life[req[w0]] = "up"))
      /\ req' \in [key : Key, value : Nat \ {None}, legs : SUBSET {"curr", "prev"},
                   ok : BOOLEAN, curr : Slave, prev : Slave]
  BY <1>1
<1>3. req' # NoReq
  <2>1. req'.key \in Nat
    BY <1>2, MigrationAssumption
  <2>2. NoReq.key = -1
    BY DEF NoReq
  <2> QED
    BY <2>1, <2>2
<1>4. Under(k)' <=> Under(k)
  BY <1>1, <1>2, <1>3 DEF Under
<1>5. k # req.key => (Good(k, w, v)' <=> Good(k, w, v))
  BY <1>1, <1>4 DEF Good, Under
<1>6. w # w0 => (w \in req'.legs <=> w \in req.legs) /\ (Stored(w)' <=> Stored(w))
  BY <1>2 DEF Stored
<1>7. k = req.key /\ v = req.value => Good(k, w0, v)'
  BY <1>1, <1>2, <1>3 DEF Good, Under
<1>8. k = req.key /\ k \in touched /\ v # None => Good(k, w, v)'
  BY <1>1 DEF Good
<1>9. Good(k, w, v) /\ w # w0 => Good(k, w, v)'
  BY <1>1, <1>2, <1>4, <1>6 DEF Good
<1>10. k \in crossed => Good(k, w, v)'
  BY <1>1 DEF Good
<1> QED
  BY <1>5, <1>7, <1>8, <1>9, <1>10

(* What the proofs about the data know of ring and migrations.             *)
Known == MigrationInv /\ RingOK /\ AroundOK /\ (Formed => RoutesOK)

(* What is said of processes, threads and commands does not change if they *)
(* do not.                                                                 *)
LEMMA Unmoved ==
  ASSUME UNCHANGED <<ring, life, todo, holder, answer, job>>
  PROVE  /\ Points' = Points /\ (Formed' <=> Formed) /\ (Calm' <=> Calm)
         /\ (Quiet' <=> Quiet) /\ hash' = hash
         /\ \A k : Primary(k)' = Primary(k)
         /\ \A p, q : Follows(p, q)' <=> Follows(p, q)
         /\ \A p : Least(p)' <=> Least(p)
         /\ \A x : /\ AtWork(x)' <=> AtWork(x)
                   /\ ToMerge(x)' <=> ToMerge(x)
                   /\ Pre(x)' = Pre(x) /\ Succ(x)' = Succ(x)
                   /\ Succsucc(x)' = Succsucc(x)
                   /\ Pending(x)' = Pending(x)
<1>1. \A x : /\ (AtWork(x)' <=> AtWork(x)) /\ Pending(x)' = Pending(x)
             /\ Pre(x)' = Pre(x) /\ Succ(x)' = Succ(x) /\ Succsucc(x)' = Succsucc(x)
  BY DEF ring, AtWork, Pending, Pre, Succ, Succsucc
<1>2. (Formed' <=> Formed) /\ (Calm' <=> Calm) /\ (Quiet' <=> Quiet)
  BY <1>1 DEF Formed, Calm, Quiet
<1>3. \A x : ToMerge(x)' <=> ToMerge(x)
  BY <1>1 DEF ToMerge
<1>4. hash' = hash
  BY DEF ring
<1> QED
  BY <1>1, <1>2, <1>3, <1>4, SameKeys

(* Nor does where a write goes if the keys keep their places and the       *)
(* migrations do not go past their first sleep.                            *)
LEMMA HomedStays ==
  ASSUME req' # NoReq => /\ req # NoReq /\ req'.key = req.key
                         /\ req'.curr = req.curr /\ req'.prev = req.prev,
         crossed' = crossed,
         \A k : Primary(k)' = Primary(k), \A p, q : Follows(p, q)' <=> Follows(p, q),
         \A x \in Slave :
           AtWork(x) /\ job[x].pc \in {"step1", "step2"} =>
             AtWork(x)' /\ job'[x].pc \in {"step1", "step2"} /\ Succ(x)' = Succ(x),
         Requested, req' # NoReq
  PROVE  Homed' \/ \E x \in Slave : Missed(x)'
<1>1. CASE Homed
  BY <1>1 DEF Homed
<1>2. ASSUME NEW x \in Slave, Missed(x) PROVE Missed(x)'
  BY <1>2 DEF Missed
<1> QED
  BY <1>1, <1>2 DEF Requested

(* A client's steps leave those parts of the invariant alone that are not  *)
(* about its write or the data.                                            *)
LEMMA ClientAside ==
  ASSUME DataInv, UNCHANGED <<ring, life, todo, holder, answer, job>>
  PROVE  NotTheLast' /\ Addressed' /\ AnswerBehind'
<1>1. NotTheLast'
  BY Unmoved DEF DataInv, NotTheLast
<1>2. Addressed'
  BY Unmoved DEF DataInv, Addressed
<1>3. AnswerBehind'
  BY Unmoved DEF DataInv, AnswerBehind
<1> QED
  BY <1>1, <1>2, <1>3

(* A request, or the reply to it: the data are as they were.               *)
LEMMA AskedData ==
  ASSUME Known, DataInv, UNCHANGED <<ring, life, todo, holder, answer, job, data>>,
         \A k \in Key : \A w \in {"curr", "prev"} : \A v :
                        Good(k, w, v) => Good(k, w, v)'
  PROVE  /\ (Quiet => CalmData)' /\ (\A x \in Slave : AtWork(x) => WorkData(x))'
         /\ Behind'
<1> USE Unmoved
<1>1. Quiet' => CalmData'
  BY DEF DataInv, CalmData
<1>2. ASSUME NEW x \in Slave, AtWork(x)' PROVE WorkData(x)'
  <2>1. WorkData(x) /\ job' = job
    BY <1>2 DEF DataInv
  <2>2. \A k : /\ Merged(x, k)' = Merged(x, k)
               /\ Backup1(x, k)' = Backup1(x, k) /\ Backup3(x, k)' = Backup3(x, k)
    <3>1. \A t, from, what, k : Laid(t, from, what, k)' = Laid(t, from, what, k)
      BY DEF Laid
    <3> QED
      BY <3>1 DEF Merged, Backup1, Backup3
  <2> QED
    BY <2>1, <2>2 DEF WorkData
<1>3. Behind'
  BY DEF DataInv, Behind
<1> QED
  BY <1>1, <1>2, <1>3

(* The client's request.                                                   *)
LEMMA RequestData ==
  ASSUME ~LastWritten, Known, DataInv, NEW k0 \in Key, Request(k0)
  PROVE  DataInv'
<1>1. /\ Formed /\ req = NoReq /\ written' = written + 1 /\ ~IsLast(Primary(k0))
      /\ UNCHANGED <<ring, life, todo, holder, answer, job, data, acked>>
      /\ touched' = IF Calm THEN touched \ {k0} ELSE touched \cup {k0}
  BY DEF Request, slaves
<1>2. PICK s \in Secondaries(Primary(k0)) :
        req' = [key |-> k0, value |-> written', legs |-> {"curr", "prev"},
                ok |-> FALSE, curr |-> Primary(k0), prev |-> s]
  BY DEF Request
<1>3. /\ Points \subseteq Slave /\ Points \subseteq Nat /\ Primary(k0) \in Points
  BY <1>1 DEF Known, RoutesOK, Routed
<1>4. Follows(Primary(k0), s) /\ s \in Points
  BY <1>1, <1>2, <1>3, FollowsOnce DEF Known, RoutesOK
<1>5. Requested'
  <2>1. /\ DOMAIN acked' = Key /\ written' \in Nat \ {None}
    BY <1>1 DEF DataInv, Requested, None
  <2>2. req' \in [key : Key, value : Nat \ {None}, legs : SUBSET {"curr", "prev"},
                  ok : BOOLEAN, curr : Slave, prev : Slave]
    BY <1>2, <1>3, <1>4, <2>1
  <2>3. /\ req'.key = k0 /\ req'.curr = Primary(k0) /\ req'.prev = s /\ ~req'.ok
        /\ "curr" \in req'.legs
    BY <1>2
  <2>4. k0 \notin touched' => Calm
    BY <1>1
  <2>5. Homed'
    BY <1>1, <1>4, <2>3, Unmoved DEF Homed
  <2> QED
    BY <1>1, <2>1, <2>2, <2>3, <2>4, <2>5, Unmoved DEF Requested
<1>6. Fresh'
  BY <1>1, Unmoved DEF Fresh
<1>7. /\ (Quiet => CalmData)' /\ (\A x \in Slave : AtWork(x) => WorkData(x))'
      /\ Behind'
  BY <1>1, RequestGood, AskedData
<1> QED
  BY <1>1, <1>5, <1>6, <1>7, ClientAside DEF DataInv

(* The reply to it.                                                        *)
LEMMA ReplyData ==
  ASSUME Known, DataInv, Reply
  PROVE  DataInv'
<1>1. /\ req # NoReq /\ req' = NoReq /\ Formed /\ written' = written
      /\ UNCHANGED <<ring, life, todo, holder, answer, job, data>>
      /\ DOMAIN acked' = Key
  BY DEF Reply, slaves, DataInv, Requested
<1>2. Requested' /\ Fresh'
  BY <1>1, Unmoved DEF DataInv, Requested, Fresh
<1>3. /\ (Quiet => CalmData)' /\ (\A x \in Slave : AtWork(x) => WorkData(x))'
      /\ Behind'
  <2>1. \A k \in Key : \A w \in {"curr", "prev"} : \A v :
                        Good(k, w, v) => Good(k, w, v)'
    BY ReplyGood DEF DataInv
  <2> QED
    BY <1>1, <2>1, AskedData
<1> QED
  BY <1>1, <1>2, <1>3, ClientAside DEF DataInv

(* When no death waits for its migration, the slaves of the ring live.     *)
LEMMA CalmAlive ==
  ASSUME RingOK, Calm, NEW q \in Points
  PROVE  life[q] = "up"
<1>1. q \in Members
  BY DEF RingOK, Points
<1>2. life[q] = "up" \/ (q \in Slave /\ life[q] = "down" /\ job[q].pc = "none")
  BY <1>1 DEF Members
<1>3. q \in Slave /\ life[q] = "down" => job[q].pc = "done"
  BY DEF Calm
<1> QED
  BY <1>2, <1>3

(* What a leg does to the data.                                            *)
Legged(w0, reached) ==
  \A s \in Slave, w \in {"curr", "prev"}, k \in Key :
    data'[s][w][k] = IF reached /\ s = req[w0] /\ w = w0 /\ k = req.key THEN req.value
                     ELSE data[s][w][k]

(* A leg while no migration is at work.                                    *)
LEMMA LegCalm ==
  ASSUME Known, DataInv, NEW w0 \in {"curr", "prev"}, Leg(w0),
         Legged(w0, life[req[w0]] = "up"), Quiet
  PROVE  CalmData'
<1>1. /\ req # NoReq /\ UNCHANGED <<ring, life, todo, holder, answer, job>>
      /\ req.curr = Primary(req.key) /\ Follows(req.curr, req.prev)
      /\ Points \subseteq Slave /\ \A k \in Key : Primary(k) \in Points
      /\ CalmData /\ RoutesOK
  BY DEF Leg, DataInv, Requested, Homed, Missed, Quiet, Known, RoutesOK, Routed
<1>a. /\ Points' = Points /\ life' = life /\ \A k : Primary(k)' = Primary(k)
      /\ \A p, q : Follows(p, q)' <=> Follows(p, q)
  BY <1>1, Unmoved
<1>b. LegGoodFor(w0)
  BY LegGood DEF DataInv
<1>2. ASSUME NEW k \in Key, life[Primary(k)] = "up"
      PROVE  Good(k, "curr", data[Primary(k)].curr[k])'
  <2>1. Good(k, "curr", data[Primary(k)].curr[k])
    BY <1>1, <1>2 DEF CalmData
  <2>2. data'[Primary(k)].curr[k] =
          IF w0 = "curr" /\ k = req.key THEN req.value ELSE data[Primary(k)].curr[k]
    BY <1>1, <1>2 DEF Legged
  <2>3. PICK v : v = data[Primary(k)].curr[k]
    OBVIOUS
  <2>4. PICK u : u = data'[Primary(k)].curr[k]
    OBVIOUS
  <2>5. Good(k, "curr", u)'
    BY <1>b, <2>1, <2>2, <2>3, <2>4 DEF LegGoodFor
  <2> QED
    BY <1>a, <2>4, <2>5
<1>3. ASSUME NEW k \in Key, NEW q \in Points, Follows(Primary(k), q), life[q] = "up"
      PROVE  Good(k, "prev", data[q].prev[k])'
  <2>1. Good(k, "prev", data[q].prev[k])
    BY <1>1, <1>3 DEF CalmData
  <2>2. k = req.key => q = req.prev
    BY <1>1, <1>3, FollowsOnce
  <2>3. data'[q].prev[k] =
          IF w0 = "prev" /\ k = req.key THEN req.value ELSE data[q].prev[k]
    BY <1>1, <1>3, <2>2 DEF Legged
  <2>4. PICK v : v = data[q].prev[k]
    OBVIOUS
  <2>5. PICK u : u = data'[q].prev[k]
    OBVIOUS
  <2>6. Good(k, "prev", u)'
    BY <1>b, <2>1, <2>3, <2>4, <2>5 DEF LegGoodFor
  <2> QED
    BY <2>5, <2>6
<1> QED
  BY <1>a, <1>2, <1>3 DEF CalmData

(* A leg while migration x is at work: all slaves of the ring live, times  *)
(* are troubled, so that any value is good for the key that is written.    *)
LEMMA LegWork ==
  ASSUME Known, DataInv, NEW w0 \in {"curr", "prev"}, Leg(w0),
         Legged(w0, life[req[w0]] = "up"), NEW x \in Slave, AtWork(x)
  PROVE  WorkData(x)'
<1>1. /\ req # NoReq /\ UNCHANGED <<ring, life, todo, holder, answer, job>>
      /\ Formed /\ req.value # None
      /\ req.key \notin crossed =>
           req.curr = Primary(req.key) /\ Follows(req.curr, req.prev)
      /\ req.key \notin touched => Calm
  BY DEF Leg, DataInv, Requested, Homed, Missed
<1>2. /\ Points \subseteq Slave /\ \A k \in Key : Primary(k) \in Points
      /\ WorkData(x) /\ RoutesOK /\ Around(x)
  BY <1>1 DEF DataInv, Known, RoutesOK, Routed, AroundOK
<1>3. req.key \in touched
  BY <1>1 DEF Calm
<1>4. /\ Points' = Points /\ \A k : Primary(k)' = Primary(k)
      /\ \A p, q : Follows(p, q)' <=> Follows(p, q)
      /\ Succ(x)' = Succ(x) /\ Pre(x)' = Pre(x) /\ Succsucc(x)' = Succsucc(x)
      /\ (ToMerge(x)' <=> ToMerge(x)) /\ \A s : Pending(s)' = Pending(s)
  BY <1>1, Unmoved
<1>5. LegGoodFor(w0)
  BY LegGood DEF DataInv
<1>6. PICK s, m, n : s = Succ(x) /\ m = Pre(x) /\ n = Succsucc(x)
  OBVIOUS
<1>7. /\ {s, m, n} \subseteq Points /\ s # m /\ s # n
      /\ \A p, q : Follows(p, q) => (p = s <=> q = n) /\ (p = m <=> q = s)
  BY <1>2, <1>6 DEF Around
<1>a. ASSUME NEW k \in crossed, NEW w \in {"curr", "prev"}, NEW v
      PROVE  Good(k, w, v)'
  BY <1>5 DEF LegGoodFor
<1> DEFINE Here(k, w, t) == w0 = w /\ k = req.key /\ t = req[w]
<1>8. ASSUME NEW k \in Key \ crossed, NEW t \in Points
      PROVE  /\ data'[t].curr[k] = IF Here(k, "curr", t) THEN req.value ELSE data[t].curr[k]
             /\ data'[t].prev[k] = IF Here(k, "prev", t) THEN req.value ELSE data[t].prev[k]
  <2>1. k = req.key => life[req[w0]] = "up"
    BY <1>1, <1>2, FollowsOnce DEF Around
  <2> QED
    BY <1>2, <2>1 DEF Legged
<1>9. ASSUME NEW k \in Key \ crossed
      PROVE  Good(k, "curr", IF Primary(k) = Succ(x) THEN Merged(x, k)
                             ELSE data[Primary(k)].curr[k])'
  <2>1. CASE Primary(k) = s
    <3>1. PICK v : v = Merged(x, k)
      OBVIOUS
    <3>2. PICK u : u = Merged(x, k)'
      OBVIOUS
    <3>3. Good(k, "curr", v)
      BY <1>2, <1>6, <2>1, <3>1 DEF WorkData
    <3>4. (u = v /\ ~Here(k, "curr", Primary(k))) \/ (k = req.key /\ u # None)
      BY <1>1, <1>4, <1>6, <1>7, <1>8, <2>1, <3>1, <3>2 DEF Merged, Best
    <3>5. Good(k, "curr", u)'
      BY <1>1, <1>3, <1>5, <3>3, <3>4 DEF LegGoodFor
    <3> QED
      BY <1>4, <1>6, <2>1, <3>2, <3>5
  <2>2. CASE Primary(k) # s
    <3>1. PICK v : v = data[Primary(k)].curr[k]
      OBVIOUS
    <3>2. PICK u : u = data'[Primary(k)].curr[k]
      OBVIOUS
    <3>3. Good(k, "curr", v)
      BY <1>2, <1>6, <2>2, <3>1 DEF WorkData
    <3>4. (u = v /\ ~Here(k, "curr", Primary(k))) \/ (k = req.key /\ u # None)
      BY <1>1, <1>2, <1>8, <3>1, <3>2
    <3>5. Good(k, "curr", u)'
      BY <1>1, <1>3, <1>5, <3>3, <3>4 DEF LegGoodFor
    <3> QED
      BY <1>4, <1>6, <2>2, <3>2, <3>5
  <2> QED
    BY <2>1, <2>2
<1>10. ASSUME NEW k \in Key \ crossed, NEW q \in Points, Follows(Primary(k), q)
       PROVE  IF Primary(k) = s THEN Good(k, "prev", Backup1(x, k))'
              ELSE IF Primary(k) = m
              THEN job'[x].pc = "end" => Good(k, "prev", Backup3(x, k))'
              ELSE Good(k, "prev", data[q].prev[k])'
  <2>0. k = req.key => q = req.prev
    BY <1>1, <1>2, <1>10, FollowsOnce
  <2>1. CASE Primary(k) = s
    <3>1. PICK v : v = Backup1(x, k)
      OBVIOUS
    <3>2. PICK u : u = Backup1(x, k)'
      OBVIOUS
    <3>3. Good(k, "prev", v)
      BY <1>2, <1>6, <1>10, <2>1, <3>1 DEF WorkData
    <3>4. q = n
      BY <1>7, <1>10, <2>1
    <3>5. (u = v /\ ~Here(k, "prev", q)) \/ (k = req.key /\ u # None)
      BY <1>1, <1>4, <1>6, <1>7, <1>8, <2>0, <3>1, <3>2, <3>4
         DEF Backup1, Laid, Best
    <3>6. Good(k, "prev", u)'
      BY <1>3, <1>5, <2>0, <3>3, <3>5 DEF LegGoodFor
    <3> QED
      BY <2>1, <3>2, <3>6
  <2>2. CASE Primary(k) # s /\ Primary(k) = m
    <3> SUFFICES ASSUME job[x].pc = "end" PROVE Good(k, "prev", Backup3(x, k))'
      BY <1>1, <2>2
    <3>1. PICK v : v = Backup3(x, k)
      OBVIOUS
    <3>2. PICK u : u = Backup3(x, k)'
      OBVIOUS
    <3>3. Good(k, "prev", v)
      BY <1>2, <1>6, <1>10, <2>2, <3>1 DEF WorkData
    <3>4. q = s
      BY <1>7, <1>10, <2>2
    <3>5. (u = v /\ ~Here(k, "prev", q)) \/ (k = req.key /\ u # None)
      BY <1>1, <1>4, <1>6, <1>7, <1>8, <2>0, <3>1, <3>2, <3>4
         DEF Backup3, Laid, Best
    <3>6. Good(k, "prev", u)'
      BY <1>3, <1>5, <2>0, <3>3, <3>5 DEF LegGoodFor
    <3> QED
      BY <3>2, <3>6
  <2>3. CASE Primary(k) # s /\ Primary(k) # m
    <3>1. PICK v : v = data[q].prev[k]
      OBVIOUS
    <3>2. PICK u : u = data'[q].prev[k]
      OBVIOUS
    <3>3. Good(k, "prev", v)
      BY <1>2, <1>6, <1>10, <2>3, <3>1 DEF WorkData
    <3>4. (u = v /\ ~Here(k, "prev", q)) \/ (k = req.key /\ u # None)
      BY <1>1, <1>8, <3>1, <3>2
    <3>5. Good(k, "prev", u)'
      BY <1>3, <1>5, <2>0, <3>3, <3>4 DEF LegGoodFor
    <3> QED
      BY <2>3, <3>2, <3>5
  <2> QED
    BY <2>1, <2>2, <2>3
<1>11. ASSUME NEW k \in Key
       PROVE  Good(k, "curr", IF Primary(k) = Succ(x) THEN Merged(x, k)
                              ELSE data[Primary(k)].curr[k])'
  BY <1>9, <1>a
<1>12. ASSUME NEW k \in Key, NEW q \in Points, Follows(Primary(k), q)
       PROVE  IF Primary(k) = s THEN Good(k, "prev", Backup1(x, k))'
              ELSE IF Primary(k) = m
              THEN job'[x].pc = "end" => Good(k, "prev", Backup3(x, k))'
              ELSE Good(k, "prev", data[q].prev[k])'
  BY <1>10, <1>12, <1>a
<1> HIDE DEF Here
<1> QED
  BY <1>4, <1>6, <1>11, <1>12 DEF WorkData

(* A leg of the write.                                                     *)
LEMMA LegData ==
  ASSUME Known, DataInv, NEW w0 \in {"curr", "prev"}, Leg(w0)
  PROVE  DataInv'
<1>1. /\ req # NoReq /\ UNCHANGED <<ring, life, todo, holder, answer, job>>
      /\ UNCHANGED <<acked, written, touched, crossed>> /\ w0 \in req.legs
      /\ Formed /\ (Homed \/ \E x \in Slave : Missed(x))
      /\ req \in [key : Key, value : Nat \ {None}, legs : SUBSET {"curr", "prev"},
                   ok : BOOLEAN, curr : Slave, prev : Slave]
      /\ req.ok => "curr" \notin req.legs
      /\ req.key \notin touched => Calm /\ ("curr" \in req.legs \/ req.ok)
      /\ Types
  BY DEF Leg, DataInv, Requested, Known, MigrationInv, past
<1>2. /\ Points \subseteq Slave /\ Points \subseteq Nat
      /\ \A k \in Key : Primary(k) \in Points
      /\ Homed => /\ req.curr \in Points /\ req.prev \in Points
                  /\ req.curr < req.prev /\ req.curr = Primary(req.key)
  BY <1>1, FollowsOnce DEF Known, RoutesOK, Routed, Homed
<1>3. Legged(w0, life[req[w0]] = "up")
  <2> SUFFICES ASSUME NEW s \in Slave, NEW w \in {"curr", "prev"}, NEW k \in Key
               PROVE  data'[s][w][k] =
                        IF life[req[w0]] = "up" /\ s = req[w0] /\ w = w0 /\ k = req.key
                        THEN req.value ELSE data[s][w][k]
    BY DEF Legged
  <2>1. data' = IF life[req[w0]] = "up"
                THEN [data EXCEPT ![req[w0]][w0][req.key] = req.value] ELSE data
    BY DEF Leg
  <2>2. DOMAIN data = Slave /\ DOMAIN data[s] = {"curr", "prev"} /\ DOMAIN data[s][w] = Key
    BY <1>1 DEF Types
  <2> QED
    BY <2>1, <2>2
<1>4. /\ req' = [req EXCEPT !.legs = @ \ {w0},
                            !.ok = @ \/ (w0 = "curr" /\ life[req[w0]] = "up")]
  BY DEF Leg
<1>5. /\ req'.key = req.key /\ req'.curr = req.curr /\ req'.prev = req.prev
      /\ req'.legs = req.legs \ {w0}
      /\ w0 # "curr" => req'.ok = req.ok
      /\ w0 = "curr" /\ life[req.curr] = "up" => req'.ok
      /\ req' \in [key : Key, value : Nat \ {None}, legs : SUBSET {"curr", "prev"},
                   ok : BOOLEAN, curr : Slave, prev : Slave]
  BY <1>1, <1>4
<1>6. Requested'
  <2>1. req'.ok => "curr" \notin req'.legs
    BY <1>1, <1>5
  <2>2. ASSUME req.key \notin touched PROVE Calm' /\ ("curr" \in req'.legs \/ req'.ok)
    <3>1. Calm /\ Homed
      BY <1>1, <2>2 DEF Calm, Missed
    <3>2. Calm' /\ life[req.curr] = "up"
      BY <1>1, <1>2, <3>1, CalmAlive, Unmoved DEF Known
    <3> QED
      BY <1>1, <1>5, <2>2, <3>2
  <2>3. Formed'
    BY <1>1, Unmoved
  <2>4. Homed' \/ \E x \in Slave : Missed(x)'
    <3>1. /\ \A k : Primary(k)' = Primary(k)
          /\ \A p, q : Follows(p, q)' <=> Follows(p, q)
          /\ \A x \in Slave : (AtWork(x)' <=> AtWork(x)) /\ Succ(x)' = Succ(x)
      BY <1>1, Unmoved
    <3>2. CASE Homed
      BY <1>5, <3>1, <3>2 DEF Homed
    <3>3. ASSUME NEW x \in Slave, Missed(x) PROVE Missed(x)'
      BY <1>1, <1>5, <3>1, <3>3 DEF Missed
    <3> QED
      BY <1>1, <3>2, <3>3
  <2> QED
    BY <1>1, <1>5, <2>1, <2>2, <2>3, <2>4 DEF Requested, DataInv
<1>7. Fresh'
  BY <1>1, Unmoved DEF Fresh
<1>8. Quiet' => CalmData'
  BY <1>1, <1>3, LegCalm, Unmoved
<1>9. ASSUME NEW x \in Slave, AtWork(x)' PROVE WorkData(x)'
  BY <1>1, <1>3, <1>9, LegWork, Unmoved
<1>10. Behind'
  <2>1. /\ Points' = Points /\ \A k : Primary(k)' = Primary(k)
        /\ \A p : Least(p)' <=> Least(p)
        /\ \A x : (ToMerge(x)' <=> ToMerge(x)) /\ Succ(x)' = Succ(x)
    BY <1>1, Unmoved
  <2>2. ASSUME NEW r \in Points, NEW k \in Key
        PROVE  /\ data'[r].curr[k] # None => Primary(k) <= r
               /\ data'[r].prev[k] # None =>
                    IF \E x \in Slave : ToMerge(x) /\ r = Succ(x) THEN Primary(k) <= r
                    ELSE Primary(k) < r \/ Least(r)
    <3>1. /\ data[r].curr[k] # None => Primary(k) <= r
          /\ data[r].prev[k] # None =>
               IF \E x \in Slave : ToMerge(x) /\ r = Succ(x) THEN Primary(k) <= r
               ELSE Primary(k) < r \/ Least(r)
      BY DEF DataInv, Behind
    <3>2. /\ \/ data'[r].curr[k] = data[r].curr[k]
             \/ r = req.curr /\ k = req.key /\ life[r] = "up"
          /\ \/ data'[r].prev[k] = data[r].prev[k]
             \/ r = req.prev /\ k = req.key /\ life[r] = "up"
      BY <1>2, <1>3 DEF Legged
    <3>3. Primary(k) \in Nat /\ r \in Nat
      BY <1>2
    <3>a. ASSUME NEW x \in Slave, Missed(x), k = req.key, life[r] = "up"
          PROVE  /\ r = req.curr => r = Primary(k)
                 /\ r = req.prev => r = Primary(k) /\ ToMerge(x) /\ r = Succ(x)
      <4>1. life[x] = "down"
        BY <1>1, <3>a DEF Missed, AtWork, Types
      <4> QED
        BY <3>a, <4>1 DEF Missed, ToMerge
    <3>b. ASSUME k = req.key, life[r] = "up"
          PROVE  /\ r = req.curr => Primary(k) <= r
                 /\ r = req.prev =>
                      IF \E x \in Slave : ToMerge(x) /\ r = Succ(x) THEN Primary(k) <= r
                      ELSE Primary(k) < r \/ Least(r)
      <4>1. CASE Homed
        BY <1>2, <3>3, <3>b, <4>1
      <4>2. ASSUME NEW x \in Slave, Missed(x)
            PROVE  /\ r = req.curr => Primary(k) <= r
                   /\ r = req.prev => Primary(k) <= r /\ ToMerge(x) /\ r = Succ(x)
        BY <3>3, <3>a, <3>b, <4>2
      <4> QED
        BY <1>1, <4>1, <4>2
    <3>4. data'[r].curr[k] # None => Primary(k) <= r
      BY <3>1, <3>2, <3>b
    <3> QED
      BY <3>1, <3>2, <3>4, <3>b
  <2> QED
    BY <2>1, <2>2 DEF Behind
<1> QED
  BY <1>1, <1>6, <1>7, <1>8, <1>9, <1>10, ClientAside DEF DataInv

(* A step that leaves clients, ring and processes alone, and what the      *)
(* tables of a migration will hold, keeps what is said of that migration.  *)
LEMMA WorkKept ==
  ASSUME Known, DataInv, NEW x \in Slave, AtWork(x),
         UNCHANGED <<ring, life, req, acked, touched, crossed>>,
         Pre(x)' = Pre(x), Succ(x)' = Succ(x), Succsucc(x)' = Succsucc(x),
         \A k \in Key : Merged(x, k)' = Merged(x, k) /\ Backup1(x, k)' = Backup1(x, k),
         job'[x].pc = "end" =>
           \/ job[x].pc = "end" /\ \A k \in Key : Backup3(x, k)' = Backup3(x, k)
           \/ \A k \in Key : Primary(k) = Pre(x) => Good(k, "prev", Backup3(x, k))',
         \A q \in Points, k \in Key :
           /\ q # Succ(x) => data'[q].curr[k] = data[q].curr[k]
           /\ q \notin {Succ(x), Succsucc(x)} => data'[q].prev[k] = data[q].prev[k]
  PROVE  WorkData(x)'
<1>1. /\ Points' = Points /\ \A k : Primary(k)' = Primary(k)
      /\ \A p, q : Follows(p, q)' <=> Follows(p, q)
  BY SameKeys
<1>2. \A k, w, v : Good(k, w, v)' <=> Good(k, w, v)
  BY DEF Good, Under, Stored
<1>3. WorkData(x) /\ Around(x) /\ \A k \in Key : Primary(k) \in Points
  BY DEF DataInv, Known, AroundOK, RingOK, MigrationInv, Types, AtWork, RoutesOK, Routed
<1>4. ASSUME NEW k \in Key
      PROVE  Good(k, "curr", IF Primary(k) = Succ(x) THEN Merged(x, k)
                             ELSE data[Primary(k)].curr[k])'
  <2>1. CASE Primary(k) = Succ(x)
    BY <1>1, <1>2, <1>3, <2>1 DEF WorkData
  <2>2. CASE Primary(k) # Succ(x)
    BY <1>1, <1>2, <1>3, <2>2 DEF WorkData
  <2> QED
    BY <2>1, <2>2
<1>5. ASSUME NEW k \in Key, NEW q \in Points, Follows(Primary(k), q)
      PROVE  IF Primary(k) = Succ(x) THEN Good(k, "prev", Backup1(x, k))'
             ELSE IF Primary(k) = Pre(x)
             THEN job'[x].pc = "end" => Good(k, "prev", Backup3(x, k))'
             ELSE Good(k, "prev", data[q].prev[k])'
  <2>1. CASE Primary(k) = Succ(x)
    BY <1>1, <1>2, <1>3, <1>5, <2>1 DEF WorkData
  <2>2. CASE Primary(k) # Succ(x) /\ Primary(k) = Pre(x)
    BY <1>1, <1>2, <1>3, <1>5, <2>2 DEF WorkData
  <2>3. CASE Primary(k) # Succ(x) /\ Primary(k) # Pre(x)
    <3>1. q \notin {Succ(x), Succsucc(x)}
      BY <1>3, <1>5, <2>3 DEF Around
    <3> QED
      BY <1>1, <1>2, <1>3, <1>5, <2>3, <3>1 DEF WorkData
  <2> QED
    BY <2>1, <2>2, <2>3
<1> QED
  BY <1>1, <1>4, <1>5 DEF WorkData

(* A slave's step during migration x.                                      *)
LEMMA ServeParts ==
  ASSUME Known, DataInv, NEW x \in Slave, AtWork(x),
         UNCHANGED <<ring, life, job, client, past>>,
         \A t \in Slave : Pending(t)' \subseteq Pending(t),
         WorkData(x)', Behind', AnswerBehind'
  PROVE  DataInv'
<1>1. /\ Points' = Points /\ \A k : Primary(k)' = Primary(k)
      /\ \A p, q : Follows(p, q)' <=> Follows(p, q)
  BY SameKeys
<1>2. Formed /\ OneAtWork /\ Types
  BY DEF Known, RingOK, MigrationInv, Types, AtWork
<1>3. /\ \A y : /\ AtWork(y)' <=> AtWork(y)
                /\ Pre(y)' = Pre(y) /\ Succ(y)' = Succ(y) /\ Succsucc(y)' = Succsucc(y)
      /\ (Formed' <=> Formed) /\ (Calm' <=> Calm)
  BY DEF AtWork, Pre, Succ, Succsucc, Formed, Calm, ring
<1>4. Fresh' /\ Requested'
  <2>1. Fresh'
    BY <1>2, <1>3 DEF Fresh
  <2>2. req' # NoReq => Homed' \/ \E y \in Slave : Missed(y)'
    BY <1>1, <1>3, HomedStays DEF DataInv, client, past
  <2> QED
    BY <1>1, <1>2, <1>3, <2>1, <2>2 DEF Requested, DataInv, client
<1>5. NotTheLast'
  BY <1>1 DEF NotTheLast, DataInv
<1>6. Addressed'
  BY <1>3 DEF Addressed, DataInv
<1>7. \A y \in Slave : AtWork(y)' => y = x
  BY <1>2, <1>3 DEF OneAtWork, AtWork, Types
<1>8. ~Quiet'
  BY <1>3 DEF Quiet
<1> QED
  BY <1>4, <1>5, <1>6, <1>7, <1>8 DEF DataInv

(* What is pending is a command of the one migration that is at work.      *)
LEMMA PendingOf ==
  ASSUME Known, DataInv, NEW s \in Slave, NEW c \in Pending(s)
  PROVE  /\ c.job \in Slave /\ AtWork(c.job) /\ Around(c.job)
         /\ Formed /\ RoutesOK /\ Points \subseteq Slave
         /\ \A k \in Key : Primary(k) \in Points
         /\ \A y \in Slave : AtWork(y) => y = c.job
         /\ \A t \in Slave : Pending(t) \subseteq {c} /\ (t # s => Pending(t) = {})
         /\ \/ c.task = "merge" /\ job[c.job].pc = "step3" /\ s = Succ(c.job)
            \/ /\ c.task = "get" /\ c.step = 1 /\ job[c.job].pc = "step2"
               /\ s = Succsucc(c.job) /\ c.from = Succ(c.job) /\ c.what = "prev"
            \/ /\ c.task = "get" /\ c.step = 3 /\ job[c.job].pc = "end"
               /\ s = Succ(c.job) /\ c.from = Pre(c.job) /\ c.what = "curr"
<1>1. /\ c.job \in Slave /\ AtWork(c.job) /\ life[c.job] = "down"
      /\ \/ c.task = "get" /\ c.step = 1 /\ job[c.job].pc = "step2"
         \/ c.task = "merge" /\ c.step = 2 /\ job[c.job].pc = "step3"
         \/ c.task = "get" /\ c.step = 3 /\ job[c.job].pc = "end"
  BY PendingAtWork DEF Known, MigrationInv, OfItsStep
<1>2. Formed /\ Around(c.job) /\ RoutesOK
  BY <1>1 DEF Known, RingOK, AroundOK
<1>3. \A y \in Slave : AtWork(y) => y = c.job
  BY <1>1 DEF Known, MigrationInv, OneAtWork, Types, AtWork
<1>4. \A t \in Slave : Pending(t) \subseteq {c} /\ (t # s => Pending(t) = {})
  BY DEF Known, MigrationInv, OnlyOne
<1>5. \/ c.task = "merge" /\ s = Succ(c.job)
      \/ c.task = "get" /\ c.step = 1 /\ s = Succsucc(c.job)
         /\ c.from = Succ(c.job) /\ c.what = "prev"
      \/ c.task = "get" /\ c.step = 3 /\ s = Succ(c.job)
         /\ c.from = Pre(c.job) /\ c.what = "curr"
  BY DEF DataInv, Addressed
<1> QED
  BY <1>1, <1>2, <1>3, <1>4, <1>5 DEF RoutesOK, Routed

(* merge_maps: the values that were to be merged are merged.               *)
LEMMA MergeData ==
  ASSUME Known, DataInv, NEW s \in Slave, NEW c \in todo[s], merge_maps(s, c)
  PROVE  DataInv'
<1>1. /\ c.task = "merge" /\ todo' = [todo EXCEPT ![s] = @ \ {c}]
      /\ data' = [data EXCEPT ![s] =
                    [curr |-> Over(data[s].prev, data[s].curr), prev |-> Empty]]
      /\ UNCHANGED <<ring, life, job, client, past, holder, answer>>
  BY DEF merge_maps, Begin
<1>a. MigrationInv /\ Types
  BY DEF Known, MigrationInv
<1>2. /\ c \in Pending(s) /\ \A t \in Slave : holder[t] = Idle
      /\ \A t \in Slave : todo[t] \subseteq {c} /\ (t # s => todo[t] = {})
  BY <1>a, <1>1, BeginAlone
<1>3. PICK x \in Slave : x = c.job
  BY <1>2, PendingOf
<1>4. /\ AtWork(x) /\ Around(x) /\ job[x].pc = "step3" /\ s = Succ(x)
      /\ \A y \in Slave : AtWork(y) => y = x
      /\ Points \subseteq Slave /\ Pending(s) # {}
  BY <1>1, <1>2, <1>3, PendingOf
<1>5. \A t \in Slave : Pending(t)' = {}
  BY <1>a, <1>1, <1>2 DEF Pending, Types
<1>6. /\ \A k \in Key : /\ data'[s].curr[k] = Best(data[s].prev[k], data[s].curr[k])
                        /\ data'[s].prev[k] = None
      /\ \A q \in Slave : q # s => data'[q] = data[q]
  <2>1. PICK curr : curr = Over(data[s].prev, data[s].curr)
    OBVIOUS
  <2>2. PICK prev : prev = Empty
    OBVIOUS
  <2>3. /\ \A k \in Key : curr[k] = Best(data[s].prev[k], data[s].curr[k])
        /\ \A k \in Key : prev[k] = None
    BY <2>1, <2>2 DEF Over, Empty, Best
  <2>4. data' = [data EXCEPT ![s] = [curr |-> curr, prev |-> prev]]
    BY <1>1, <2>1, <2>2
  <2> QED
    BY <1>a, <2>3, <2>4 DEF Types
<1>7. /\ Pre(x)' = Pre(x) /\ Succ(x)' = Succ(x) /\ Succsucc(x)' = Succsucc(x)
      /\ ToMerge(x) /\ ~ToMerge(x)' /\ job' = job
  BY <1>1, <1>4, <1>5 DEF Pre, Succ, Succsucc, ring, ToMerge
<1>8. WorkData(x)'
  <2>1. \A k \in Key : Merged(x, k)' = Merged(x, k)
    BY <1>4, <1>6, <1>7 DEF Merged
  <2>2. Succsucc(x) \in Slave /\ Succsucc(x) # s
    BY <1>4 DEF Around
  <2>3. \A k \in Key : Backup1(x, k)' = Backup1(x, k)
    BY <1>4, <1>6, <1>7, <2>2 DEF Backup1
  <2>4. /\ UNCHANGED <<ring, life, req, acked, touched, crossed>> /\ job'[x].pc # "end"
        /\ \A q \in Points, k \in Key :
             /\ q # Succ(x) => data'[q].curr[k] = data[q].curr[k]
             /\ q \notin {Succ(x), Succsucc(x)} => data'[q].prev[k] = data[q].prev[k]
    BY <1>1, <1>4, <1>6, <1>7 DEF client, past
  <2> QED
    BY <1>4, <1>7, <2>1, <2>3, <2>4, WorkKept
<1>9. Behind'
  <2>1. /\ Points' = Points /\ \A k : Primary(k)' = Primary(k)
        /\ \A p : Least(p)' <=> Least(p)
    BY <1>1, SameKeys
  <2>2. \A y \in Slave : ToMerge(y) => y = x
    BY <1>4 DEF ToMerge
  <2>3. \A y \in Slave : ~ToMerge(y)'
    BY <1>1, <1>4, <1>7 DEF ToMerge, AtWork
  <2>4. ASSUME NEW r \in Points, NEW k \in Key
        PROVE  /\ data'[r].curr[k] # None => Primary(k) <= r
               /\ data'[r].prev[k] # None => Primary(k) < r \/ Least(r)
    <3>1. /\ data[r].curr[k] # None => Primary(k) <= r
          /\ data[r].prev[k] # None =>
               IF \E y \in Slave : ToMerge(y) /\ r = Succ(y) THEN Primary(k) <= r
               ELSE Primary(k) < r \/ Least(r)
      BY DEF DataInv, Behind
    <3>2. CASE r # s
      BY <1>4, <1>6, <2>2, <3>1, <3>2
    <3>3. CASE r = s
      BY <1>4, <1>6, <1>7, <3>1, <3>3 DEF Best
    <3> QED
      BY <3>2, <3>3
  <2> QED
    BY <2>1, <2>3, <2>4 DEF Behind
<1>10. AnswerBehind'
  <2>1. \A y \in Slave : AtWork(y)' => y = x
    BY <1>1, <1>4 DEF AtWork
  <2> QED
    BY <1>4, <1>7, <2>1 DEF AnswerBehind
<1> QED
  BY <1>1, <1>4, <1>5, <1>8, <1>9, <1>10, ServeParts

(* What does not touch tables, migrations or what is pending leaves the    *)
(* data behind their primaries.                                            *)
LEMMA BehindKept ==
  ASSUME DataInv, UNCHANGED <<ring, data, job>>,
         \A t \in Slave : Pending(t)' = Pending(t), AroundOK, Points \subseteq Slave
  PROVE  Behind'
<1>1. /\ Points' = Points /\ \A k : Primary(k)' = Primary(k)
      /\ \A p : Least(p)' <=> Least(p)
  BY SameKeys
<1>2. \A y \in Slave : AtWork(y) => Succ(y) \in Slave
  BY DEF AroundOK, Around
<1>3. \A y \in Slave : (ToMerge(y)' <=> ToMerge(y)) /\ Succ(y)' = Succ(y)
  BY <1>2 DEF ToMerge, AtWork, Succ, ring
<1> QED
  BY <1>1, <1>3 DEF Behind, DataInv

(* send_map: the answer is what the table holds.                           *)
LEMMA SendData ==
  ASSUME Key # {}, Known, DataInv, NEW s \in Slave, NEW c \in todo[s], send_map(s, c)
  PROVE  DataInv'
<1>1. /\ c.task = "send" /\ todo' = [todo EXCEPT ![s] = @ \ {c}]
      /\ answer' = [answer EXCEPT ![c.to] = data[s][c.what]]
      /\ UNCHANGED <<ring, life, job, client, past, holder, data>>
  BY DEF send_map, Begin
<1>a. MigrationInv /\ Types /\ WaitRight
  BY DEF Known, MigrationInv
<1>2. PICK t \in Slave : /\ t = c.to /\ holder[t] # Idle /\ answer[t] = NoAnswer
                         /\ holder[t].from = s /\ c = Send(t, holder[t].what)
  BY <1>a, <1>1 DEF WaitRight
<1>3. PICK d : d = holder[t]
  OBVIOUS
<1>4. /\ d \in Pending(t) /\ d.task = "get" /\ d.from = s /\ d.what = c.what
  BY <1>a, <1>2, <1>3 DEF Pending, WaitRight, Send
<1>5. PICK x \in Slave : x = d.job
  BY <1>4, PendingOf
<1>6. /\ AtWork(x) /\ Around(x) /\ \A y \in Slave : AtWork(y) => y = x
      /\ Points \subseteq Slave /\ Pending(t) # {}
      /\ \/ /\ job[x].pc = "step2" /\ t = Succsucc(x) /\ s = Succ(x) /\ c.what = "prev"
         \/ /\ job[x].pc = "end" /\ t = Succ(x) /\ s = Pre(x) /\ c.what = "curr"
  BY <1>4, <1>5, PendingOf
<1>7. /\ answer'[t] = data[s][c.what] /\ answer'[t] # NoAnswer
      /\ \A q \in Slave : q # t => answer'[q] = answer[q]
  <2>1. DOMAIN data[s][c.what] = Key /\ DOMAIN NoAnswer = {} /\ DOMAIN answer = Slave
    BY <1>a, <1>6 DEF Types, NoAnswer
  <2> QED
    BY <1>1, <1>2, <2>1
<1>8. \A q \in Slave : Pending(q)' = Pending(q)
  BY <1>a, <1>1 DEF Pending, Types
<1>9. /\ Pre(x)' = Pre(x) /\ Succ(x)' = Succ(x) /\ Succsucc(x)' = Succsucc(x)
      /\ job' = job /\ Succ(x) \in Slave /\ Pre(x) \in Slave /\ Succsucc(x) \in Slave
      /\ Succ(x) # Succsucc(x)
  BY <1>1, <1>6 DEF Pre, Succ, Succsucc, ring, Around
<1>10. ToMerge(x)' <=> ToMerge(x)
  BY <1>8, <1>9 DEF ToMerge, AtWork
<1>11. WorkData(x)'
  <2>1. \A k \in Key : Merged(x, k)' = Merged(x, k)
    BY <1>1, <1>9, <1>10 DEF Merged
  <2>2. \A k \in Key : Backup1(x, k)' = Backup1(x, k)
    <3>1. CASE job[x].pc = "step2"
      <4>1. /\ t = Succsucc(x) /\ s = Succ(x) /\ answer[t] = NoAnswer
            /\ answer'[t] = data[s]["prev"] /\ answer'[t] # NoAnswer
        BY <1>2, <1>6, <1>7, <3>1
      <4>2. data' = data /\ Pending(t) # {}
        BY <1>1, <1>6
      <4> QED
        BY <1>1, <1>7, <1>8, <1>9, <3>1, <4>1, <4>2 DEF Backup1, Laid
    <3>2. CASE job[x].pc # "step2"
      BY <1>1, <1>9, <3>2 DEF Backup1
    <3> QED
      BY <3>1, <3>2
  <2>3. ASSUME job[x].pc = "end" PROVE \A k \in Key : Backup3(x, k)' = Backup3(x, k)
    <3>1. /\ t = Succ(x) /\ s = Pre(x) /\ answer[t] = NoAnswer
          /\ answer'[t] = data[s]["curr"] /\ answer'[t] # NoAnswer
      BY <1>2, <1>6, <1>7, <2>3
    <3>2. data' = data /\ Pending(t) # {}
      BY <1>1, <1>6
    <3> QED
      BY <1>8, <1>9, <3>1, <3>2 DEF Backup3, Laid
  <2>4. UNCHANGED <<ring, life, req, acked, touched, crossed, data>>
    BY <1>1 DEF client, past
  <2> QED
    BY <1>6, <1>9, <2>1, <2>2, <2>3, <2>4, WorkKept
<1>12. Behind'
  BY <1>1, <1>6, <1>8, BehindKept DEF Known
<1>13. AnswerBehind'
  <2>1. \A k : Primary(k)' = Primary(k)
    BY <1>1, SameKeys
  <2>2. \A y \in Slave : AtWork(y)' => y = x
    BY <1>6, <1>9 DEF AtWork
  <2>3. ASSUME NEW k \in Key, job[x].pc = "step2", answer'[Succsucc(x)][k] # None
        PROVE  Primary(k) <= Succ(x)
    <3>1. data[Succ(x)].prev[k] # None
      BY <1>6, <1>7, <2>3
    <3>2. ToMerge(x) /\ Succ(x) \in Points
      BY <1>6, <2>3 DEF ToMerge, Around
    <3> QED
      BY <3>1, <3>2 DEF DataInv, Behind
  <2>4. ASSUME NEW k \in Key, job[x].pc = "end", answer'[Succ(x)][k] # None
        PROVE  Primary(k) <= Pre(x)
    <3>1. data[Pre(x)].curr[k] # None /\ Pre(x) \in Points
      BY <1>6, <1>7, <2>4 DEF Around
    <3> QED
      BY <3>1 DEF DataInv, Behind
  <2> QED
    BY <1>9, <2>1, <2>2, <2>3, <2>4 DEF AnswerBehind
<1> QED
  BY <1>1, <1>6, <1>8, <1>11, <1>12, <1>13, ServeParts

(* get_data: the command is taken up and still pending; the peer, which    *)
(* lives, is asked.                                                        *)
LEMMA GetData ==
  ASSUME Known, DataInv, NEW s \in Slave, NEW c \in todo[s], get_data(s, c)
  PROVE  DataInv'
<1>1. /\ c.task = "get" /\ holder' = [holder EXCEPT ![s] = c]
      /\ UNCHANGED <<ring, life, job, client, past, data>>
  BY DEF get_data, Begin
<1>a. MigrationInv /\ Types
  BY DEF Known, MigrationInv
<1>2. /\ c \in Pending(s) /\ \A t \in Slave : holder[t] = Idle /\ answer[t] = NoAnswer
      /\ \A t \in Slave : todo[t] \subseteq {c} /\ (t # s => todo[t] = {})
  BY <1>a, <1>1, BeginAlone
<1>3. PICK x \in Slave : x = c.job
  BY <1>2, PendingOf
<1>4. /\ AtWork(x) /\ Around(x) /\ \A y \in Slave : AtWork(y) => y = x
      /\ Points \subseteq Slave /\ c.from \in {Succ(x), Pre(x)}
      /\ \A t \in Slave : Pending(t) \subseteq {c} /\ (t # s => Pending(t) = {})
  BY <1>1, <1>2, <1>3, PendingOf
<1>5. c # Idle
  <2>1. Idle.task = "idle"
    BY DEF Idle
  <2> QED
    BY <1>1, <2>1
<1>6. PICK p \in Slave : p = c.from /\ life[p] = "up"
  BY <1>4 DEF Around
<1>7. PICK m : m = Send(s, c.what) /\ m.task = "send"
  <2>1. Send(s, c.what).task = "send"
    BY DEF Send
  <2> QED
    BY <2>1
<1>8. /\ answer' = answer
      /\ todo' = [[todo EXCEPT ![s] = @ \ {c}] EXCEPT ![p] = @ \cup {m}]
  BY <1>6, <1>7 DEF get_data
<1>9. \A t \in Slave : Pending(t)' = Pending(t)
  <2>1. /\ DOMAIN todo = Slave /\ DOMAIN holder = Slave
    BY <1>a DEF Types
  <2>2. \A t \in Slave : /\ todo'[t] \subseteq (todo[t] \ {c}) \cup {m}
                         /\ holder'[t] = IF t = s THEN c ELSE Idle
    BY <1>1, <1>2, <1>8, <2>1
  <2>3. \A t \in Slave : \A d \in todo'[t] : d.task = "send"
    BY <1>2, <1>7, <2>2
  <2>4. ASSUME NEW t \in Slave PROVE Pending(t)' = IF t = s THEN {c} ELSE {}
    BY <1>5, <2>2, <2>3 DEF Pending
  <2>5. \A t \in Slave : Pending(t) = IF t = s THEN {c} ELSE {}
    BY <1>2, <1>4
  <2> QED
    BY <2>4, <2>5
<1>10. /\ Pre(x)' = Pre(x) /\ Succ(x)' = Succ(x) /\ Succsucc(x)' = Succsucc(x)
       /\ job' = job /\ Succ(x) \in Slave /\ Succsucc(x) \in Slave
  BY <1>1, <1>4 DEF Pre, Succ, Succsucc, ring, Around
<1>11. ToMerge(x)' <=> ToMerge(x)
  BY <1>9, <1>10 DEF ToMerge, AtWork
<1>12. WorkData(x)'
  <2>1. \A t \in Slave : \A from, what, k : Laid(t, from, what, k)' = Laid(t, from, what, k)
    BY <1>1, <1>8, <1>9 DEF Laid
  <2>2. \A k \in Key : /\ Merged(x, k)' = Merged(x, k)
                       /\ Backup1(x, k)' = Backup1(x, k) /\ Backup3(x, k)' = Backup3(x, k)
    BY <1>1, <1>10, <1>11, <2>1 DEF Merged, Backup1, Backup3
  <2>3. UNCHANGED <<ring, life, req, acked, touched, crossed, data>>
    BY <1>1 DEF client, past
  <2> QED
    BY <1>4, <1>10, <2>2, <2>3, WorkKept
<1>13. Behind'
  BY <1>1, <1>4, <1>9, BehindKept DEF Known
<1>14. AnswerBehind'
  <2>1. \A t \in Slave : answer'[t] = NoAnswer
    BY <1>2, <1>8
  <2>2. \A y \in Slave : AtWork(y)' => y = x
    BY <1>4, <1>10 DEF AtWork
  <2> QED
    BY <1>10, <2>1, <2>2 DEF AnswerBehind
<1> QED
  BY <1>1, <1>4, <1>9, <1>12, <1>13, <1>14, ServeParts

(* addToMap: the values that were to be laid are laid.                     *)
LEMMA AddData ==
  ASSUME Known, DataInv, NEW s \in Slave, addToMap(s)
  PROVE  DataInv'
<1>1. /\ answer[s] # NoAnswer
      /\ data' = [data EXCEPT ![s].prev = Over(answer[s], @)]
      /\ answer' = [answer EXCEPT ![s] = NoAnswer]
      /\ holder' = [holder EXCEPT ![s] = Idle]
      /\ UNCHANGED <<ring, life, todo, job, client, past>>
  BY DEF addToMap
<1>a. MigrationInv /\ Types /\ WaitRight /\ OnlyOne
  BY DEF Known, MigrationInv
<1>2. PICK d : d = holder[s]
  OBVIOUS
<1>3. d \in Pending(s) /\ d.task = "get"
  BY <1>a, <1>1, <1>2 DEF Pending, WaitRight
<1>4. PICK x \in Slave : x = d.job
  BY <1>3, PendingOf
<1>5. /\ AtWork(x) /\ Around(x) /\ \A y \in Slave : AtWork(y) => y = x
      /\ Points \subseteq Slave /\ \A k \in Key : Primary(k) \in Points
      /\ \A t \in Slave : Pending(t) \subseteq {d} /\ (t # s => Pending(t) = {})
      /\ \/ job[x].pc = "step2" /\ s = Succsucc(x)
         \/ job[x].pc = "end" /\ s = Succ(x)
  BY <1>3, <1>4, PendingOf
<1>6. \A t \in Slave : Pending(t)' = {}
  <2>1. holder'[s] = Idle /\ \A t \in Slave : t # s => holder'[t] = holder[t]
    BY <1>a, <1>1 DEF Types
  <2>2. d \notin todo[s]
    BY <1>a, <1>2 DEF OnlyOne
  <2>3. \A t \in Slave : Pending(t)' \subseteq Pending(t) \ {d}
    BY <1>1, <1>5, <2>1, <2>2 DEF Pending
  <2> QED
    BY <1>5, <2>3
<1>7. /\ \A k \in Key : /\ data'[s].prev[k] = Best(answer[s][k], data[s].prev[k])
                        /\ data'[s].curr[k] = data[s].curr[k]
      /\ \A q \in Slave : q # s => data'[q] = data[q]
  <2>1. PICK prev : prev = Over(answer[s], data[s].prev)
    OBVIOUS
  <2>2. \A k \in Key : prev[k] = Best(answer[s][k], data[s].prev[k])
    BY <2>1 DEF Over, Best
  <2>3. data' = [data EXCEPT ![s].prev = prev]
    BY <1>1, <2>1
  <2> QED
    BY <1>a, <2>2, <2>3 DEF Types
<1>8. /\ Pre(x)' = Pre(x) /\ Succ(x)' = Succ(x) /\ Succsucc(x)' = Succsucc(x)
      /\ job' = job /\ {Pre(x), Succ(x), Succsucc(x)} \subseteq Points
      /\ Succ(x) # Succsucc(x) /\ (ToMerge(x)' <=> ToMerge(x))
      /\ (ToMerge(x) <=> job[x].pc = "step2")
  BY <1>1, <1>5 DEF Pre, Succ, Succsucc, ring, Around, ToMerge, AtWork
<1>9. Pending(s) # {}
  BY <1>3
<1>10. WorkData(x)'
  <2>1. UNCHANGED <<ring, life, req, acked, touched, crossed>>
    BY <1>1 DEF client, past
  <2>2. CASE job[x].pc = "step2"
    <3>1. s = Succsucc(x)
      BY <1>5, <2>2
    <3>2. \A k \in Key : Merged(x, k)' = Merged(x, k)
      BY <1>5, <1>7, <1>8, <3>1 DEF Merged
    <3>3. \A k \in Key : Backup1(x, k)' = Backup1(x, k)
      BY <1>1, <1>5, <1>6, <1>7, <1>8, <1>9, <2>2, <3>1 DEF Backup1, Laid
    <3>4. \A q \in Points, k \in Key :
            /\ q # Succ(x) => data'[q].curr[k] = data[q].curr[k]
            /\ q \notin {Succ(x), Succsucc(x)} => data'[q].prev[k] = data[q].prev[k]
      BY <1>5, <1>7, <3>1
    <3> QED
      BY <1>5, <1>8, <2>1, <2>2, <3>2, <3>3, <3>4, WorkKept
  <2>3. CASE job[x].pc = "end"
    <3>1. s = Succ(x)
      BY <1>5, <2>3
    <3>2. \A k \in Key : Merged(x, k)' = Merged(x, k) /\ Backup1(x, k)' = Backup1(x, k)
      BY <1>5, <1>7, <1>8, <2>3, <3>1 DEF Merged, Backup1
    <3>3. \A k \in Key : Backup3(x, k)' = Backup3(x, k)
      BY <1>1, <1>5, <1>6, <1>7, <1>8, <1>9, <3>1 DEF Backup3, Laid
    <3>4. \A q \in Points, k \in Key :
            /\ q # Succ(x) => data'[q].curr[k] = data[q].curr[k]
            /\ q \notin {Succ(x), Succsucc(x)} => data'[q].prev[k] = data[q].prev[k]
      BY <1>5, <1>7, <3>1
    <3> QED
      BY <1>5, <1>8, <2>1, <2>3, <3>2, <3>3, <3>4, WorkKept
  <2> QED
    BY <1>5, <2>2, <2>3
<1>11. Behind'
  <2>1. /\ Points' = Points /\ \A k : Primary(k)' = Primary(k)
        /\ \A p : Least(p)' <=> Least(p)
    BY <1>1, SameKeys
  <2>2. \A y \in Slave : (ToMerge(y)' \/ ToMerge(y)) => y = x
    BY <1>5, <1>8 DEF ToMerge, AtWork
  <2>3. /\ Succ(x) \in Nat /\ Succsucc(x) \in Nat /\ Pre(x) \in Nat
        /\ \A k \in Key : Primary(k) \in Nat
    <3>1. Points \subseteq Nat
      BY <1>5, MigrationAssumption
    <3> QED
      BY <1>5, <1>8, <3>1
  <2>4. ASSUME NEW k \in Key, answer[s][k] # None
        PROVE  /\ Primary(k) < s \/ Least(s)
               /\ ~\E y \in Slave : ToMerge(y) /\ s = Succ(y)
    <3>1. CASE job[x].pc = "step2" /\ s = Succsucc(x)
      <4>1. Primary(k) <= Succ(x)
        BY <1>1, <1>5, <2>4, <3>1 DEF DataInv, AnswerBehind
      <4>2. Succsucc(x) > Succ(x) \/ Least(Succsucc(x))
        BY <1>5 DEF Around
      <4>3. Primary(k) < s \/ Least(s)
        BY <2>3, <3>1, <4>1, <4>2
      <4> QED
        BY <1>8, <2>2, <3>1, <4>3
    <3>2. CASE job[x].pc = "end" /\ s = Succ(x)
      <4>1. Primary(k) <= Pre(x)
        BY <1>1, <1>5, <2>4, <3>2 DEF DataInv, AnswerBehind
      <4>2. Pre(x) < Succ(x) \/ Least(Succ(x))
        BY <1>5 DEF Around
      <4>3. Primary(k) < s \/ Least(s)
        BY <2>3, <3>2, <4>1, <4>2
      <4> QED
        BY <1>8, <2>2, <3>2, <4>3
    <3> QED
      BY <1>5, <3>1, <3>2
  <2>5. ASSUME NEW r \in Points, NEW k \in Key
        PROVE  /\ data'[r].curr[k] # None => Primary(k) <= r
               /\ data'[r].prev[k] # None =>
                    IF \E y \in Slave : ToMerge(y) /\ r = Succ(y) THEN Primary(k) <= r
                    ELSE Primary(k) < r \/ Least(r)
    <3>1. /\ data[r].curr[k] # None => Primary(k) <= r
          /\ data[r].prev[k] # None =>
               IF \E y \in Slave : ToMerge(y) /\ r = Succ(y) THEN Primary(k) <= r
               ELSE Primary(k) < r \/ Least(r)
      BY DEF DataInv, Behind
    <3>2. /\ data'[r].curr[k] = data[r].curr[k]
          /\ \/ data'[r].prev[k] = data[r].prev[k]
             \/ r = s /\ answer[s][k] # None
      BY <1>5, <1>7 DEF Best
    <3> QED
      BY <2>4, <3>1, <3>2
  <2> QED
    BY <1>8, <2>1, <2>2, <2>5 DEF Behind
<1>12. AnswerBehind'
  <2>1. \A y \in Slave : AtWork(y)' => y = x
    BY <1>5, <1>8 DEF AtWork
  <2>2. answer'[s] = NoAnswer
    BY <1>a, <1>1 DEF Types
  <2> QED
    BY <1>5, <1>8, <2>1, <2>2 DEF AnswerBehind
<1> QED
  BY <1>1, <1>5, <1>6, <1>10, <1>11, <1>12, ServeParts

(* A sleep that ends finds no write under way: its legs would not be       *)
(* blocked.                                                                *)
LEMMA SleepIdle ==
  ASSUME Known, DataInv, SleepOver
  PROVE  NonePending /\ req = NoReq
<1>1. NonePending
  BY SleepEnds DEF Known
<1>2. ASSUME req # NoReq PROVE FALSE
  <2>1. req.legs \subseteq {"curr", "prev"} /\ req.curr \in Slave /\ req.prev \in Slave
    BY <1>2 DEF DataInv, Requested
  <2>2. PICK w \in req.legs : Blocked(w)
    BY <1>2 DEF SleepOver
  <2>3. req[w] \in Slave
    BY <2>1
  <2> QED
    BY <1>1, <2>2, <2>3 DEF Blocked, NonePending
<1> QED
  BY <1>1, <1>2

(* A step of the coordinator's thread for x.                               *)
LEMMA StepParts ==
  ASSUME Known, DataInv, NEW x \in Slave, AtWork(x),
         UNCHANGED <<ring, life, client, past>>,
         NEW to \in {"step2", "step3", "end", "done"}, job' = [job EXCEPT ![x].pc = to],
         to = "step2" \/ req = NoReq
  PROVE  /\ job'[x].pc = to /\ \A y \in Slave : AtWork(y)' => y = x
         /\ AtWork(x)' <=> to # "done"
         /\ Pre(x)' = Pre(x) /\ Succ(x)' = Succ(x) /\ Succsucc(x)' = Succsucc(x)
         /\ {Pre(x), Succ(x), Succsucc(x)} \subseteq Points /\ Points \subseteq Slave
         /\ Succ(x) # Succsucc(x) /\ \A k \in Key : Primary(k) \in Points
         /\ life[Succ(x)] = "up" /\ life[Succsucc(x)] = "up" /\ Formed /\ RoutesOK
         /\ Fresh' /\ Requested' /\ NotTheLast'
         /\ Points' = Points /\ \A k : Primary(k)' = Primary(k)
         /\ \A p, q : Follows(p, q)' <=> Follows(p, q)
         /\ \A p : Least(p)' <=> Least(p)
<1>1. Formed /\ OneAtWork /\ Types /\ Around(x) /\ RoutesOK /\ FoundOnRing(x)
  BY DEF Known, RingOK, MigrationInv, Types, AtWork, AroundOK
<1>2. /\ Points' = Points /\ \A k : Primary(k)' = Primary(k)
      /\ \A p, q : Follows(p, q)' <=> Follows(p, q)
      /\ \A p : Least(p)' <=> Least(p)
  BY SameKeys
<1>3. /\ job'[x] = [job[x] EXCEPT !.pc = to] /\ \A y \in Slave \ {x} : job'[y] = job[y]
  BY <1>1 DEF Types
<1>4. /\ job'[x].pc = to /\ job'[x].pre = job[x].pre /\ job'[x].succ = job[x].succ
      /\ job'[x].succsucc = job[x].succsucc
  BY <1>1, <1>3 DEF FoundOnRing
<1>5. Pre(x)' = Pre(x) /\ Succ(x)' = Succ(x) /\ Succsucc(x)' = Succsucc(x)
  BY <1>4 DEF Pre, Succ, Succsucc, ring
<1>6. /\ \A y \in Slave : AtWork(y)' => y = x
      /\ AtWork(x)' <=> to # "done"
  BY <1>1, <1>3, <1>4 DEF OneAtWork, AtWork, Types
<1>7. Formed' /\ ~Calm /\ (req # NoReq => req.key \in touched)
  BY <1>1 DEF Formed, Calm, DataInv, Requested
<1>8. Fresh' /\ Requested'
  <2>1. Fresh'
    BY <1>1, <1>7 DEF Fresh
  <2>2. ASSUME req' # NoReq PROVE Homed' \/ \E y \in Slave : Missed(y)'
    <3>1. to = "step2"
      BY <2>2 DEF client
    <3>2. \A y \in Slave : AtWork(y) => y = x
      BY <1>1 DEF OneAtWork, AtWork, Types
    <3> QED
      BY <1>2, <1>4, <1>5, <1>6, <2>2, <3>1, <3>2, HomedStays DEF DataInv, client, past
  <2> QED
    BY <1>1, <1>2, <1>7, <2>1, <2>2 DEF Requested, DataInv, client
<1>9. NotTheLast'
  BY <1>1, <1>2, <1>3 DEF NotTheLast, DataInv, AtWork
<1> QED
  BY <1>1, <1>2, <1>4, <1>5, <1>6, <1>8, <1>9 DEF Around, RoutesOK, Routed

(* It has told slave s a command, when nothing was pending.                *)
Commanded(x, s, cmd) ==
  /\ \A t \in Slave : Pending(t) = {} /\ Pending(t)' = IF t = s THEN {cmd} ELSE {}
  /\ \A t \in Slave : answer[t] = NoAnswer /\ answer'[t] = NoAnswer
  /\ cmd.job = x

(* So it has if the slave lives.                                           *)
LEMMA ToldAlone ==
  ASSUME Known, NonePending, NEW x, NEW s \in Slave, life[s] = "up",
         NEW cmd, cmd.job = x, cmd.task \in {"get", "merge"},
         Tell(s, cmd), UNCHANGED <<holder, answer>>
  PROVE  Commanded(x, s, cmd)
<1>1. todo' = [todo EXCEPT ![s] = @ \cup {cmd}] /\ DOMAIN todo = Slave
  BY DEF Tell, Known, MigrationInv, Types
<1>2. \A t \in Slave : todo'[t] = IF t = s THEN {cmd} ELSE {}
  BY <1>1 DEF NonePending
<1>3. \A t \in Slave : Pending(t) = {} /\ Pending(t)' = IF t = s THEN {cmd} ELSE {}
  BY <1>2 DEF Pending, NonePending
<1> QED
  BY <1>3 DEF Commanded, NonePending

(* Step 1.                                                                 *)
LEMMA Step1Data ==
  ASSUME Known, DataInv, NEW x \in Slave, Step1(x)
  PROVE  DataInv'
<1>1. /\ job[x].pc = "step1" /\ AtWork(x) /\ job' = [job EXCEPT ![x].pc = "step2"]
      /\ UNCHANGED <<ring, life, data, holder, answer, client, past>>
  BY DEF Step1, Step, AtWork
<1>2. NonePending
  <2>1. \A s \in Slave : Pending(s) = {}
    BY <1>1, PendingAtWork DEF Known, MigrationInv, OneAtWork, Types, AtWork
  <2> QED
    BY <2>1, NothingPending DEF Known
<1>3. /\ job'[x].pc = "step2" /\ \A y \in Slave : AtWork(y)' => y = x
      /\ AtWork(x)'
      /\ Pre(x)' = Pre(x) /\ Succ(x)' = Succ(x) /\ Succsucc(x)' = Succsucc(x)
      /\ {Pre(x), Succ(x), Succsucc(x)} \subseteq Points /\ Points \subseteq Slave
      /\ life[Succsucc(x)] = "up" /\ Fresh' /\ Requested' /\ NotTheLast'
      /\ Points' = Points /\ \A k : Primary(k)' = Primary(k)
      /\ \A p : Least(p)' <=> Least(p)
  BY <1>1, StepParts
<1>4. PICK cmd : cmd = Get(x, 1, Succ(x), "prev")
  OBVIOUS
<1>5. /\ cmd.task = "get" /\ cmd.job = x /\ cmd.step = 1
      /\ cmd.from = Succ(x) /\ cmd.what = "prev"
  BY <1>4 DEF Get
<1>6. Commanded(x, Succsucc(x), cmd)
  <2>1. Tell(Succsucc(x), cmd)
    BY <1>4 DEF Step1, Succ, Succsucc
  <2> QED
    BY <1>1, <1>2, <1>3, <1>5, <2>1, ToldAlone
<1>7. ToMerge(x) /\ ToMerge(x)'
  BY <1>1, <1>3 DEF ToMerge
<1>8. WorkData(x)'
  <2>1. \A k \in Key : Merged(x, k)' = Merged(x, k)
    BY <1>1, <1>3, <1>7 DEF Merged
  <2>2. \A k \in Key : Backup1(x, k)' = Backup1(x, k)
    BY <1>1, <1>3, <1>6 DEF Backup1, Laid, Commanded
  <2>3. UNCHANGED <<ring, life, req, acked, touched, crossed, data>>
    BY <1>1 DEF client, past
  <2> QED
    BY <1>1, <1>3, <2>1, <2>2, <2>3, WorkKept
<1>9. Addressed'
  BY <1>3, <1>5, <1>6 DEF Addressed, Commanded
<1>10. Behind' /\ AnswerBehind'
  <2>1. \A y \in Slave : (ToMerge(y) \/ ToMerge(y)') => y = x
    BY <1>1, <1>3 DEF ToMerge, Known, MigrationInv, OneAtWork, Types, AtWork
  <2>2. Behind'
    BY <1>1, <1>3, <1>7, <2>1 DEF Behind, DataInv
  <2>3. AnswerBehind'
    BY <1>3, <1>6 DEF AnswerBehind, Commanded
  <2> QED
    BY <2>2, <2>3
<1> QED
  BY <1>3, <1>8, <1>9, <1>10 DEF DataInv, Quiet

(* Step 2.                                                                 *)
LEMMA Step2Data ==
  ASSUME Known, DataInv, NEW x \in Slave, Step2(x)
  PROVE  DataInv'
<1>1. /\ job[x].pc = "step2" /\ AtWork(x) /\ job' = [job EXCEPT ![x].pc = "step3"]
      /\ UNCHANGED <<ring, life, data, holder, answer, client, past>> /\ SleepOver
  BY DEF Step2, Step, AtWork
<1>2. NonePending /\ req = NoReq
  BY <1>1, SleepIdle
<1>3. /\ job'[x].pc = "step3" /\ \A y \in Slave : AtWork(y)' => y = x
      /\ AtWork(x)'
      /\ Pre(x)' = Pre(x) /\ Succ(x)' = Succ(x) /\ Succsucc(x)' = Succsucc(x)
      /\ {Pre(x), Succ(x), Succsucc(x)} \subseteq Points /\ Points \subseteq Slave
      /\ life[Succ(x)] = "up" /\ Fresh' /\ Requested' /\ NotTheLast'
      /\ Points' = Points /\ \A k : Primary(k)' = Primary(k)
      /\ \A p : Least(p)' <=> Least(p)
  BY <1>1, <1>2, StepParts
<1>4. PICK cmd : cmd = Merge(x, 2)
  OBVIOUS
<1>5. cmd.task = "merge" /\ cmd.job = x
  BY <1>4 DEF Merge
<1>6. Commanded(x, Succ(x), cmd)
  <2>1. Tell(Succ(x), cmd)
    BY <1>4 DEF Step2, Succ
  <2> QED
    BY <1>1, <1>2, <1>3, <1>5, <2>1, ToldAlone
<1>7. ToMerge(x) /\ ToMerge(x)'
  BY <1>1, <1>3, <1>6 DEF ToMerge, Commanded
<1>8. WorkData(x)'
  <2>1. \A k \in Key : Merged(x, k)' = Merged(x, k)
    BY <1>1, <1>3, <1>7 DEF Merged
  <2>2. \A k \in Key : Backup1(x, k)' = Backup1(x, k)
    BY <1>1, <1>3, <1>6 DEF Backup1, Laid, Commanded
  <2>3. UNCHANGED <<ring, life, req, acked, touched, crossed, data>>
    BY <1>1 DEF client, past
  <2> QED
    BY <1>1, <1>3, <2>1, <2>2, <2>3, WorkKept
<1>9. Addressed'
  BY <1>3, <1>5, <1>6 DEF Addressed, Commanded
<1>10. Behind' /\ AnswerBehind'
  <2>1. \A y \in Slave : (ToMerge(y) \/ ToMerge(y)') => y = x
    BY <1>1, <1>3 DEF ToMerge, Known, MigrationInv, OneAtWork, Types, AtWork
  <2>2. Behind'
    BY <1>1, <1>3, <1>7, <2>1 DEF Behind, DataInv
  <2>3. AnswerBehind'
    BY <1>3, <1>6 DEF AnswerBehind, Commanded
  <2> QED
    BY <2>2, <2>3
<1> QED
  BY <1>3, <1>8, <1>9, <1>10 DEF DataInv, Quiet

(* Step 3: what the predecessor has in its table will be the backup.       *)
LEMMA Step3Data ==
  ASSUME Known, DataInv, NEW x \in Slave, Step3(x)
  PROVE  DataInv'
<1>1. /\ job[x].pc = "step3" /\ AtWork(x) /\ job' = [job EXCEPT ![x].pc = "end"]
      /\ UNCHANGED <<ring, life, data, holder, answer, client, past>> /\ SleepOver
  BY DEF Step3, Step, AtWork
<1>2. NonePending /\ req = NoReq
  BY <1>1, SleepIdle
<1>3. /\ job'[x].pc = "end" /\ \A y \in Slave : AtWork(y)' => y = x
      /\ AtWork(x)'
      /\ Pre(x)' = Pre(x) /\ Succ(x)' = Succ(x) /\ Succsucc(x)' = Succsucc(x)
      /\ {Pre(x), Succ(x), Succsucc(x)} \subseteq Points /\ Points \subseteq Slave
      /\ life[Succ(x)] = "up" /\ Fresh' /\ Requested' /\ NotTheLast'
      /\ Points' = Points /\ \A k : Primary(k)' = Primary(k)
      /\ \A p : Least(p)' <=> Least(p)
  BY <1>1, <1>2, StepParts
<1>4. PICK cmd : cmd = Get(x, 3, Pre(x), "curr")
  OBVIOUS
<1>5. /\ cmd.task = "get" /\ cmd.job = x /\ cmd.step = 3
      /\ cmd.from = Pre(x) /\ cmd.what = "curr"
  BY <1>4 DEF Get
<1>6. Commanded(x, Succ(x), cmd)
  <2>1. Tell(Succ(x), cmd)
    BY <1>4 DEF Step3, Succ, Pre
  <2> QED
    BY <1>1, <1>2, <1>3, <1>5, <2>1, ToldAlone
<1>7. ~ToMerge(x) /\ ~ToMerge(x)'
  BY <1>1, <1>3, <1>6 DEF ToMerge, Commanded
<1>8. WorkData(x)'
  <2>1. \A k \in Key : Merged(x, k)' = Merged(x, k)
    BY <1>1, <1>3, <1>7 DEF Merged
  <2>2. \A k \in Key : Backup1(x, k)' = Backup1(x, k)
    BY <1>1, <1>3 DEF Backup1
  <2>3. UNCHANGED <<ring, life, req, acked, touched, crossed, data>>
    BY <1>1 DEF client, past
  <2>4. ASSUME NEW k \in Key, Primary(k) = Pre(x) PROVE Good(k, "prev", Backup3(x, k))'
    <3>1. Pre(x) # Succ(x)
      BY <1>1 DEF Known, AroundOK, Around
    <3>2. Good(k, "curr", data[Pre(x)].curr[k])
      BY <1>1, <2>4, <3>1 DEF DataInv, WorkData
    <3>3. PICK u : u = Backup3(x, k)'
      OBVIOUS
    <3>4. u = Best(data[Pre(x)].curr[k], data[Succ(x)].prev[k])
      BY <1>1, <1>3, <1>6, <3>3 DEF Backup3, Laid, Commanded
    <3>5. Good(k, "prev", u)'
      BY <1>2, <2>3, <3>2, <3>4 DEF Good, Under, Best
    <3> QED
      BY <3>3, <3>5
  <2> QED
    BY <1>1, <1>3, <2>1, <2>2, <2>3, <2>4, WorkKept
<1>9. Addressed'
  BY <1>3, <1>5, <1>6 DEF Addressed, Commanded
<1>10. Behind' /\ AnswerBehind'
  <2>1. \A y \in Slave : (ToMerge(y) \/ ToMerge(y)') => y = x
    BY <1>1, <1>3 DEF ToMerge, Known, MigrationInv, OneAtWork, Types, AtWork
  <2>2. Behind'
    BY <1>1, <1>3, <1>7, <2>1 DEF Behind, DataInv
  <2>3. AnswerBehind'
    BY <1>3, <1>6 DEF AnswerBehind, Commanded
  <2> QED
    BY <2>2, <2>3
<1> QED
  BY <1>3, <1>8, <1>9, <1>10 DEF DataInv, Quiet

(* The end of the migration: what was to be in the tables is there.        *)
LEMMA DoneData ==
  ASSUME Known, DataInv, NEW x \in Slave, MigrationDone(x)
  PROVE  DataInv'
<1>1. /\ job[x].pc = "end" /\ AtWork(x) /\ job' = [job EXCEPT ![x].pc = "done"]
      /\ UNCHANGED <<ring, life, data, todo, holder, answer, client, past>> /\ SleepOver
  BY DEF MigrationDone, Step, AtWork
<1>2. NonePending /\ req = NoReq
  BY <1>1, SleepIdle
<1>3. /\ \A y \in Slave : ~AtWork(y)'
      /\ Points' = Points /\ \A k : Primary(k)' = Primary(k)
      /\ \A p, q : Follows(p, q)' <=> Follows(p, q)
      /\ \A p : Least(p)' <=> Least(p)
      /\ Fresh' /\ Requested' /\ NotTheLast'
      /\ \A k \in Key : Primary(k) \in Points
  BY <1>1, <1>2, StepParts
<1>4. /\ \A t \in Slave : Pending(t) = {} /\ Pending(t)' = {}
      /\ \A t \in Slave : answer'[t] = NoAnswer
  BY <1>1, <1>2 DEF NonePending, Pending
<1>5. Around(x) /\ WorkData(x) /\ Succ(x) \in Slave
  BY <1>1, <1>2, StepParts DEF Known, AroundOK, DataInv
<1>6. CalmData'
  <2>1. \A k, w, v : Good(k, w, v)' <=> Good(k, w, v)
    BY <1>1 DEF Good, Under, Stored, client, past
  <2>2. /\ \A k \in Key : Merged(x, k) = data[Succ(x)].curr[k]
        /\ \A k \in Key : Backup1(x, k) = data[Succsucc(x)].prev[k]
        /\ \A k \in Key : Backup3(x, k) = data[Succ(x)].prev[k]
    BY <1>1, <1>4, <1>5 DEF Merged, ToMerge, Backup1, Backup3, Laid
  <2>3. ASSUME NEW k \in Key
        PROVE  Good(k, "curr", data[Primary(k)].curr[k])
    BY <1>5, <2>2 DEF WorkData
  <2>4. ASSUME NEW k \in Key, NEW q \in Points, Follows(Primary(k), q)
        PROVE  Good(k, "prev", data[q].prev[k])
    <3>1. /\ Primary(k) = Succ(x) => q = Succsucc(x)
          /\ Primary(k) = Pre(x) => q = Succ(x)
      BY <1>5, <2>4 DEF Around
    <3> QED
      BY <1>1, <1>5, <2>2, <2>4, <3>1 DEF WorkData
  <2> QED
    BY <1>1, <1>3, <2>1, <2>3, <2>4 DEF CalmData
<1>7. Addressed' /\ AnswerBehind'
  BY <1>3, <1>4 DEF Addressed, AnswerBehind
<1>8. Behind'
  <2>1. \A y \in Slave : ~ToMerge(y) /\ ~ToMerge(y)'
    BY <1>1, <1>3 DEF ToMerge, Known, MigrationInv, OneAtWork, Types, AtWork
  <2> QED
    BY <1>1, <1>3, <2>1 DEF Behind, DataInv
<1> QED
  BY <1>3, <1>6, <1>7, <1>8 DEF DataInv

(* A slave dies while there is no migration: the values of a write that is *)
(* under way are not what they were to be.                                 *)
LEMMA DieData ==
  ASSUME ~overlapped', ~LastMayDie, Known, DataInv, NEW s \in Slave, Die(s)
  PROVE  DataInv'
<1>1. /\ Formed /\ Calm /\ life[s] = "up" /\ life' = [life EXCEPT ![s] = "down"]
      /\ ~IsLast(s) /\ Types /\ Members = Points
      /\ touched' = IF req = NoReq THEN touched ELSE touched \cup {req.key}
      /\ UNCHANGED <<ring, data, job, req, acked, written, crossed>>
      /\ todo' = [todo EXCEPT ![s] = {}] /\ holder' = [holder EXCEPT ![s] = Idle]
  BY DEF Die, Known, MigrationInv, RingOK, Points
<1>2. /\ Points' = Points /\ \A k : Primary(k)' = Primary(k)
      /\ \A p, q : Follows(p, q)' <=> Follows(p, q)
      /\ \A p : Least(p)' <=> Least(p)
      /\ Points \subseteq Slave /\ Points \subseteq Nat
  BY <1>1, SameKeys DEF Known, RoutesOK
<1>3. /\ \A y \in Slave : ~AtWork(y) /\ ~AtWork(y)' /\ ~ToMerge(y) /\ ~ToMerge(y)'
      /\ Quiet /\ Formed' /\ \A y \in Slave : life'[y] = "up" => life[y] = "up"
  BY <1>1 DEF Calm, AtWork, ToMerge, Quiet, Formed, Types
<1>4. \A t \in Slave : Pending(t)' = {}
  <2>1. \A t \in Slave : Pending(t) = {}
    BY <1>3, PendingAtWork DEF Known
  <2> QED
    BY <1>1, <2>1 DEF Pending, Types
<1>5. Fresh' /\ Addressed' /\ AnswerBehind'
  BY <1>3, <1>4 DEF Fresh, Addressed, AnswerBehind
<1>6. Requested'
  <2>1. req # NoReq => Homed'
    BY <1>1, <1>2, <1>3 DEF DataInv, Requested, Homed, Missed
  <2> QED
    BY <1>1, <1>2, <1>3, <2>1 DEF DataInv, Requested
<1>7. NotTheLast'
  <2>1. ASSUME NEW y \in Slave, life'[y] = "down", job'[y].pc # "done" PROVE y = s
    BY <1>1, <2>1 DEF Calm, Types
  <2>2. PICK q \in Points : ~(q <= s)
    BY <1>1, SameRoute DEF IsLast
  <2>3. q > s
    BY <1>2, <2>2, MigrationAssumption
  <2> QED
    BY <1>2, <2>1, <2>3 DEF NotTheLast
<1>8. Behind'
  BY <1>1, <1>2, <1>3 DEF Behind, DataInv
<1>9. ASSUME NEW k \in Key, NEW w \in {"curr", "prev"}, NEW v, Good(k, w, v)
      PROVE  Good(k, w, v)'
  <2>1. Under(k)' <=> Under(k)
    BY <1>1 DEF Under
  <2>2. Under(k) => req.value # None
    BY DEF Under, DataInv, Requested
  <2> QED
    BY <1>1, <1>9, <2>1, <2>2 DEF Good, Stored, Under
<1>10. CalmData'
  <2>1. CalmData
    BY <1>3 DEF DataInv
  <2>2. ASSUME NEW k \in Key, life'[Primary(k)'] = "up"
        PROVE  Good(k, "curr", data[Primary(k)].curr[k])'
    <3>1. PICK v : v = data[Primary(k)].curr[k]
      OBVIOUS
    <3>2. Primary(k)' = Primary(k) /\ life[Primary(k)] = "up"
      BY <1>1, <1>2, <2>2 DEF Known, RoutesOK, Types
    <3>3. Good(k, "curr", v)'
      BY <1>9, <2>1, <3>1, <3>2 DEF CalmData
    <3> QED
      BY <1>1, <3>1, <3>2, <3>3
  <2>3. ASSUME NEW k \in Key, NEW q \in Points', Follows(Primary(k), q)', life'[q] = "up"
        PROVE  Good(k, "prev", data[q].prev[k])'
    <3>1. PICK v : v = data[q].prev[k]
      OBVIOUS
    <3>2. Follows(Primary(k), q) /\ life[q] = "up" /\ q \in Points
      <4>1. PICK p : p = Primary(k)
        OBVIOUS
      <4>2. Follows(p, q)'
        BY <1>2, <2>3, <4>1
      <4> QED
        BY <1>2, <1>3, <2>3, <4>1, <4>2
    <3>3. Good(k, "prev", v)'
      BY <1>9, <2>1, <3>1, <3>2 DEF CalmData
    <3> QED
      BY <1>1, <3>1, <3>3
  <2> QED
    BY <2>2, <2>3 DEF CalmData
<1> QED
  BY <1>3, <1>5, <1>6, <1>7, <1>8, <1>10 DEF DataInv

(* A slave registers, before anything is stored.                           *)
LEMMA JoinData ==
  ASSUME Known, RingOK', DataInv, NEW s \in Slave, Join(s)
  PROVE  DataInv'
<1>1. /\ ~Formed /\ Types /\ life' = [life EXCEPT ![s] = "up"]
      /\ UNCHANGED <<data, todo, holder, answer, job, req, acked, written, touched>>
      /\ crossed' = crossed
  BY DEF Join, Formed, Known, MigrationInv, slaves, client, past
<1>2. /\ req = NoReq /\ \A k \in Key : acked[k] = None
      /\ \A t \in Slave : \A w \in {"curr", "prev"} : \A k \in Key : data[t][w][k] = None
  BY <1>1 DEF DataInv, Fresh
<1>3. \A y \in Slave : life[y] # "down" /\ job[y].pc = "none"
  BY <1>1 DEF Known, RingOK, Types
<1>4. \A y \in Slave : life'[y] # "down" /\ ~AtWork(y)' /\ ~AtWork(y)
  BY <1>1, <1>3 DEF AtWork, Types
<1>5. \A t \in Slave : Pending(t)' = {}
  <2>1. \A t \in Slave : Pending(t) = {}
    BY <1>4, PendingAtWork DEF Known
  <2> QED
    BY <1>1, <2>1 DEF Pending
<1>6. Points' \subseteq Slave
  <2>1. Members' \subseteq Slave
    BY DEF Members
  <2> QED
    BY <2>1 DEF RingOK, Points
<1>7. Fresh' /\ Requested' /\ NotTheLast' /\ Addressed' /\ AnswerBehind'
  BY <1>1, <1>2, <1>4, <1>5
     DEF Fresh, Requested, NotTheLast, Addressed, AnswerBehind, DataInv
<1>8. Behind'
  BY <1>1, <1>2, <1>6 DEF Behind
<1>9. CalmData'
  <2>1. \A k \in Key : \A w, v : Good(k, w, v)'
    BY <1>1, <1>2 DEF Good, Under
  <2> QED
    BY <2>1 DEF CalmData
<1> QED
  BY <1>4, <1>7, <1>8, <1>9 DEF DataInv

(* Slave x leaves the ring: its keys are routed to the next one after it,  *)
(* and no other key moves.                                                 *)
Leaves(x) ==
  LET s == Succ(x)' IN
  /\ Points' = Points \ {x} /\ s \in Points' /\ x \in Points
  /\ x < s /\ \A q \in Points' : q > x => s <= q
  /\ Points \subseteq Nat /\ Points \subseteq Slave
  /\ \A k \in Key : Primary(k) \in Points /\ Primary(k)' \in Points'
  /\ \A k \in Key : Primary(k)' = IF Primary(k) = x THEN s ELSE Primary(k)

(* It does so when it is taken off the points.                             *)
LEMMA RoutesLeave ==
  ASSUME RoutesOK, RoutesOK', NEW x \in Points, Points' = Points \ {x},
         Succ(x)' \in Points', Succ(x)' > x,
         \A q \in Points' : q > x => Succ(x)' <= q
  PROVE  Leaves(x)
<1>1. PICK s : s = Succ(x)'
  OBVIOUS
<1>2. /\ Points \subseteq Nat /\ Points \subseteq Slave
      /\ \A k \in Key : Routed(k, Primary(k))
      /\ \A k \in Key : Routed(k, Primary(k))'
  BY DEF RoutesOK
<1>3. ASSUME NEW k \in Key
      PROVE  /\ Primary(k) \in Points /\ Primary(k)' \in Points'
             /\ Primary(k)' = IF Primary(k) = x THEN s ELSE Primary(k)
  <2>1. PICK p : p = Primary(k)
    OBVIOUS
  <2>2. PICK u : u = Primary(k)'
    OBVIOUS
  <2>3. /\ p \in Points
        /\ \/ p >= k /\ \A q \in Points : q >= k => p <= q
           \/ (\A q \in Points : q < k) /\ \A q \in Points : p <= q
    BY <1>2, <2>1 DEF Routed, Least
  <2>4. /\ u \in Points'
        /\ \/ u >= k /\ \A q \in Points' : q >= k => u <= q
           \/ (\A q \in Points' : q < k) /\ \A q \in Points' : u <= q
    BY <1>2, <2>2 DEF Routed, Least
  <2>5. /\ k \in Nat /\ p \in Nat /\ u \in Nat /\ s \in Nat /\ x \in Nat
        /\ u \in Points /\ u # x /\ s \in Points /\ s # x
    BY <1>1, <1>2, <2>3, <2>4, MigrationAssumption
  <2>6. ASSUME p # x PROVE u = p
    <3>1. p \in Points'
      BY <2>3, <2>6
    <3>2. CASE p >= k /\ \A q \in Points : q >= k => p <= q
      BY <2>4, <2>5, <3>1, <3>2
    <3>3. CASE (\A q \in Points : q < k) /\ \A q \in Points : p <= q
      BY <2>4, <2>5, <3>1, <3>3
    <3> QED
      BY <2>3, <3>2, <3>3
  <2>7. ASSUME p = x PROVE u = s
    <3>1. s \in Points' /\ s > x /\ \A q \in Points' : q > x => s <= q
      BY <1>1
    <3>2. CASE p >= k /\ \A q \in Points : q >= k => p <= q
      <4>1. s >= k
        BY <2>5, <2>7, <3>1, <3>2
      <4>2. u >= k /\ u <= s
        BY <2>4, <2>5, <3>1, <4>1
      <4>3. x <= u
        BY <2>5, <2>7, <3>2, <4>2
      <4> QED
        BY <2>4, <2>5, <3>1, <4>2, <4>3
    <3>3. CASE (\A q \in Points : q < k) /\ \A q \in Points : p <= q
      <4>1. x <= u /\ u < k
        BY <2>5, <2>7, <3>3
      <4>2. u <= s
        BY <2>4, <2>5, <3>1, <4>1
      <4> QED
        BY <2>4, <2>5, <3>1, <4>1, <4>2
    <3> QED
      BY <2>3, <3>2, <3>3
  <2> QED
    BY <2>1, <2>2, <2>3, <2>4, <2>6, <2>7
<1> QED
  BY <1>1, <1>2, <1>3 DEF Leaves

(* The next slave followed x, and the others follow whom they followed.    *)
LEMMA FollowsLeave ==
  ASSUME NEW x, Leaves(x)
  PROVE  /\ Follows(x, Succ(x)')
         /\ \A p, q : Follows(p, q)' /\ (p = Succ(x)' \/ q # Succ(x)') => Follows(p, q)
<1>1. PICK s : s = Succ(x)'
  OBVIOUS
<1>2. /\ Points' = Points \ {x} /\ s \in Points' /\ x \in Points /\ x < s
      /\ \A q \in Points' : q > x => s <= q
      /\ Points \subseteq Nat
  BY <1>1 DEF Leaves
<1>3. Follows(x, s)
  BY <1>2 DEF Follows, Proved!Follows, Points
<1>4. ASSUME NEW p, NEW q, Follows(p, q)', p = s \/ q # s
      PROVE  Follows(p, q)
  <2>1. p \in Points' /\ q \in Points' /\ p < q /\ \A r \in Points' : r > p => q <= r
    BY <1>4 DEF Follows, Proved!Follows, Points
  <2>2. p \in Nat /\ q \in Nat /\ s \in Nat /\ x \in Nat
    BY <1>2, <2>1
  <2>3. x > p => q <= x
    BY <1>2, <1>4, <2>1, <2>2
  <2>4. p \in Points /\ q \in Points /\ \A r \in Points : r > p => q <= r
    BY <1>2, <2>1, <2>3
  <2> QED
    BY <2>1, <2>4 DEF Follows, Proved!Follows, Points
<1> QED
  BY <1>1, <1>3, <1>4

(* When a migration begins, what was good for a key is so still, and for   *)
(* either table.                                                           *)
LEMMA GoodAnywhere ==
  ASSUME UNCHANGED <<req, acked, touched>>,
         crossed' = IF req = NoReq THEN crossed ELSE crossed \cup {req.key}
  PROVE  \A k, w, v : Good(k, w, v) =>
           /\ Good(k, w, v)'
           /\ \A z : Good(k, z, v)'
           /\ \A z, old : Good(k, z, Best(v, old))'
<1> SUFFICES ASSUME NEW k, NEW w, NEW v, Good(k, w, v), NEW z
             PROVE  Good(k, z, v)' /\ \A old : Good(k, z, Best(v, old))'
  OBVIOUS
<1>1. CASE k \in crossed'
  BY <1>1 DEF Good
<1>2. CASE k \notin crossed'
  <2>1. k \notin crossed /\ ~Under(k) /\ ~Under(k)'
    BY <1>2 DEF Under
  <2> QED
    BY <1>2, <2>1 DEF Good, Best
<1> QED
  BY <1>1, <1>2

(* A migration begins: from now on what the dead slave had is what its     *)
(* backup has, and will be merged into the keys of the next slave.         *)
LEMMA DetectData ==
  ASSUME Known, RingOK', AroundOK', RoutesOK', NotTheLast', DataInv,
         NEW x \in Slave, Detect(x)
  PROVE  DataInv'
<1>1. /\ life[x] = "down" /\ job[x].pc = "none" /\ Types /\ OneAtWork
      /\ life' = life /\ UNCHANGED <<data, todo, holder, answer, req, acked, written, touched>>
      /\ DOMAIN job' = Slave /\ \A y \in Slave \ {x} : job'[y] = job[y]
      /\ job'[x].pc = "step1"
      /\ crossed' = IF req = NoReq THEN crossed ELSE crossed \cup {req.key}
  BY DEF Detect, Known, MigrationInv, Types, NoJob, slaves, client
<1>2. NonePending
  <2>1. \A y \in Slave : ~AtWork(y)
    BY <1>1 DEF AtWork, OneAtWork, Types
  <2> QED
    BY <2>1, PendingAtWork, NothingPending DEF Known
<1>3. Formed /\ RoutesOK /\ RingOK
  BY <1>1 DEF Known, RingOK
<1>4. /\ \A y \in Slave : ~AtWork(y) /\ (AtWork(y)' <=> y = x)
      /\ Quiet /\ Formed' /\ \A y \in Slave : y # x /\ life[y] = "down" => job[y].pc = "done"
  BY <1>1, <1>3 DEF AtWork, Quiet, OneAtWork, Formed, Types
<1>5. Around(x)'
  BY <1>4 DEF AroundOK
<1>6. PICK s, m, w : s = Succ(x)' /\ m = Pre(x)' /\ w = Succsucc(x)'
  OBVIOUS
<1>7. /\ s \in Points' /\ m \in Points' /\ w \in Points'
      /\ s # m /\ s # w /\ x \notin Points' /\ s > x
      /\ \A q \in Points' : q > x => s <= q
      /\ \A p, q : Follows(p, q)' => (p = s <=> q = w) /\ (p = m <=> q = s)
      /\ \A q \in Points' : life[q] = "up"
  BY <1>1, <1>5, <1>6 DEF Around
<1>8. Points' = Points \ {x} /\ x \in Points
  <2>1. Points = Members /\ Points' = Members'
    BY <1>3 DEF RingOK, Points
  <2>2. Members' = Members \ {x}
    BY <1>1 DEF Members
  <2> QED
    BY <1>1, <2>1, <2>2 DEF Members
<1>9. Leaves(x)
  BY <1>3, <1>6, <1>7, <1>8, RoutesLeave
<1>10. /\ Points \subseteq Nat /\ Points \subseteq Slave /\ Points' \subseteq Points
       /\ \A k \in Key : Primary(k) \in Points /\ Primary(k)' \in Points'
       /\ \A k \in Key : Primary(k)' = IF Primary(k) = x THEN s ELSE Primary(k)
       /\ Follows(x, s)
       /\ \A p, q : Follows(p, q)' /\ (p = s \/ q # s) => Follows(p, q)
       /\ x \in Nat /\ s \in Nat
  <2>1. Follows(x, s)
    BY <1>6, <1>9, FollowsLeave
  <2>2. \A p, q : Follows(p, q)' /\ (p = s \/ q # s) => Follows(p, q)
    BY <1>6, <1>9, FollowsLeave
  <2> QED
    BY <1>6, <1>7, <1>8, <1>9, <2>1, <2>2 DEF Leaves
<1>11. /\ \A y \in Slave : ~ToMerge(y) /\ (ToMerge(y)' <=> y = x)
  BY <1>1, <1>4 DEF ToMerge
<1>12. ASSUME NEW k \in Key, Primary(k) = s PROVE data[s].prev[k] = None
  <2>1. data[s].prev[k] # None => Primary(k) < s \/ Least(s)
    BY <1>7, <1>10, <1>11 DEF DataInv, Behind
  <2>2. ~Least(s)
    BY <1>7, <1>8, <1>10 DEF Least
  <2> QED
    BY <1>10, <1>12, <2>1, <2>2
<1>13. ASSUME NEW k \in Key
       PROVE  /\ life[Primary(k)] = "up" => Good(k, "curr", data[Primary(k)].curr[k])
              /\ \A q \in Points : Follows(Primary(k), q) /\ life[q] = "up" =>
                   Good(k, "prev", data[q].prev[k])
  BY <1>4 DEF DataInv, CalmData
<1>14. ASSUME NEW k \in Key
       PROVE  Good(k, "curr", IF Primary(k) = Succ(x) THEN Merged(x, k)
                              ELSE data[Primary(k)].curr[k])'
  <2>1. CASE Primary(k)' = s
    <3>1. Merged(x, k)' = Best(data[s].prev[k], data[s].curr[k])
      BY <1>1, <1>6, <1>11 DEF Merged
    <3>2. PICK u : u = Merged(x, k)'
      OBVIOUS
    <3>3. Good(k, "curr", u)'
      <4>1. CASE Primary(k) = x
        <5>1. Good(k, "prev", data[s].prev[k])
          BY <1>7, <1>10, <1>13, <4>1
        <5>2. PICK v, old : v = data[s].prev[k] /\ old = data[s].curr[k]
          OBVIOUS
        <5>3. u = Best(v, old) /\ Good(k, "prev", v)
          BY <3>1, <3>2, <5>1, <5>2
        <5>4. Good(k, "curr", Best(v, old))'
          BY <1>1, <5>3, GoodAnywhere
        <5> QED
          BY <5>3, <5>4
      <4>2. CASE Primary(k) # x
        <5>1. Primary(k) = s
          BY <1>10, <2>1, <4>2
        <5>2. Good(k, "curr", data[s].curr[k])
          BY <1>7, <1>13, <5>1
        <5>3. u = data[s].curr[k]
          BY <1>12, <3>1, <3>2, <5>1 DEF Best
        <5>4. Good(k, "curr", u)
          BY <5>2, <5>3
        <5> QED
          BY <1>1, <5>4, GoodAnywhere
      <4> QED
        BY <4>1, <4>2
    <3> QED
      BY <1>6, <2>1, <3>2, <3>3
  <2>2. CASE Primary(k)' # s
    <3>1. Primary(k)' = Primary(k) /\ life[Primary(k)] = "up"
      BY <1>7, <1>10, <2>2
    <3>2. PICK u : u = data[Primary(k)].curr[k]
      OBVIOUS
    <3>3. Good(k, "curr", u)'
      <4>1. Good(k, "curr", u)
        BY <1>13, <3>1, <3>2
      <4> QED
        BY <1>1, <4>1, GoodAnywhere
    <3> QED
      BY <1>1, <1>6, <2>2, <3>1, <3>2, <3>3
  <2> QED
    BY <2>1, <2>2
<1>15. ASSUME NEW k \in Key, NEW q \in Points', Follows(Primary(k), q)'
       PROVE  IF Primary(k)' = s THEN Good(k, "prev", Backup1(x, k))'
              ELSE Primary(k)' # m => Good(k, "prev", data[q].prev[k])'
  <2>1. CASE Primary(k)' = s
    <3>1. q = w
      BY <1>7, <1>15, <2>1
    <3>2. Backup1(x, k)' = Best(data[s].prev[k], data[w].prev[k])
      BY <1>1, <1>6 DEF Backup1
    <3>3. PICK u : u = Backup1(x, k)'
      OBVIOUS
    <3>4. Good(k, "prev", u)'
      <4>1. CASE Primary(k) = x
        <5>1. Good(k, "prev", data[s].prev[k])
          BY <1>7, <1>10, <1>13, <4>1
        <5>2. PICK v, old : v = data[s].prev[k] /\ old = data[w].prev[k]
          OBVIOUS
        <5>3. u = Best(v, old) /\ Good(k, "prev", v)
          BY <3>2, <3>3, <5>1, <5>2
        <5>4. Good(k, "prev", Best(v, old))'
          BY <1>1, <5>3, GoodAnywhere
        <5> QED
          BY <5>3, <5>4
      <4>2. CASE Primary(k) # x
        <5>1. Primary(k) = s
          BY <1>10, <2>1, <4>2
        <5>2. Follows(s, w)
          BY <1>10, <1>15, <2>1, <3>1
        <5>3. Good(k, "prev", data[w].prev[k])
          BY <1>7, <1>10, <1>13, <5>1, <5>2
        <5>4. u = data[w].prev[k]
          BY <1>12, <3>2, <3>3, <5>1 DEF Best
        <5>5. Good(k, "prev", u)
          BY <5>3, <5>4
        <5> QED
          BY <1>1, <5>5, GoodAnywhere
      <4> QED
        BY <4>1, <4>2
    <3> QED
      BY <2>1, <3>3, <3>4
  <2>2. CASE Primary(k)' # s /\ Primary(k)' # m
    <3>1. PICK p : p = Primary(k)'
      OBVIOUS
    <3>2. p = Primary(k) /\ q # s /\ Follows(p, q)
      BY <1>7, <1>10, <1>15, <2>2, <3>1
    <3>3. PICK u : u = data[q].prev[k]
      OBVIOUS
    <3>4. Good(k, "prev", u)
      BY <1>7, <1>10, <1>13, <3>2, <3>3
    <3>5. Good(k, "prev", u)'
      BY <1>1, <3>4, GoodAnywhere
    <3> QED
      BY <1>1, <2>2, <3>3, <3>5
  <2> QED
    BY <2>1, <2>2
<1>16. WorkData(x)'
  <2>1. job'[x].pc # "end"
    BY <1>1
  <2> QED
    BY <1>6, <1>14, <1>15, <2>1 DEF WorkData
<1>17. Behind'
  <2>1. ASSUME NEW r \in Points', NEW k \in Key
        PROVE  /\ data[r].curr[k] # None => Primary(k)' <= r
               /\ data[r].prev[k] # None =>
                    IF r = s THEN Primary(k)' <= r ELSE Primary(k)' < r \/ Least(r)'
    <3>1. /\ data[r].curr[k] # None => Primary(k) <= r
          /\ data[r].prev[k] # None => Primary(k) < r \/ Least(r)
      BY <1>10, <1>11 DEF DataInv, Behind
    <3>2. /\ r \in Nat /\ r # x /\ Primary(k) \in Nat /\ (r > x => s <= r)
      BY <1>7, <1>8, <1>10
    <3>3. Least(r) => r < x
      BY <1>8, <1>10, <3>2 DEF Least
    <3>4. Least(r) => Least(r)'
      BY <1>10 DEF Least
    <3> QED
      BY <1>7, <1>10, <3>1, <3>2, <3>3, <3>4
  <2>2. \A r : (\E y \in Slave : ToMerge(y) /\ r = Succ(y))' <=> r = s
    BY <1>6, <1>11
  <2> QED
    BY <1>1, <2>1, <2>2 DEF Behind
<1>18. Addressed' /\ AnswerBehind' /\ Fresh' /\ Requested'
  <2>1. \A t \in Slave : Pending(t)' = {} /\ answer'[t] = NoAnswer
    BY <1>1, <1>2 DEF NonePending, Pending
  <2>2. Fresh'
    BY <1>4 DEF Fresh
  <2>3. ASSUME req # NoReq
        PROVE  /\ req.key \in touched /\ req.key \in crossed' /\ req.key \in Key
               /\ req.curr = Primary(req.key) /\ Follows(req.curr, req.prev)
    <3>1. ~Calm /\ \A y \in Slave : ~Missed(y)
      BY <1>1, <1>4 DEF Calm, Missed
    <3> QED
      BY <1>1, <2>3, <3>1 DEF DataInv, Requested, Homed
  <2>4. ASSUME req # NoReq PROVE Homed' \/ Missed(x)'
    <3>1. CASE req.curr = x
      <4>1. req.prev = s /\ Primary(req.key)' = s
        BY <1>1, <1>3, <1>10, <2>3, <2>4, <3>1, FollowsOnce
      <4> QED
        BY <1>1, <1>4, <1>6, <2>3, <2>4, <3>1, <4>1 DEF Missed
    <3>2. CASE req.curr # x /\ req.prev = x
      <4>1. Primary(req.key)' = req.curr
        BY <1>1, <1>10, <2>3, <2>4, <3>2
      <4> QED
        BY <1>1, <1>4, <2>3, <2>4, <3>2, <4>1 DEF Missed
    <3>3. CASE req.curr # x /\ req.prev # x
      <4>1. Primary(req.key)' = req.curr
        BY <1>1, <1>10, <2>3, <2>4, <3>3
      <4>2. Follows(req.curr, req.prev)'
        BY <1>1, <1>8, <2>3, <2>4, <3>3 DEF Follows, Proved!Follows, Points
      <4> QED
        BY <1>1, <4>1, <4>2 DEF Homed
    <3> QED
      BY <3>1, <3>2, <3>3
  <2>5. Requested'
    BY <1>1, <1>4, <2>3, <2>4 DEF Requested, DataInv
  <2> QED
    BY <1>1, <1>4, <2>1, <2>2, <2>5 DEF Addressed, AnswerBehind
<1> QED
  BY <1>4, <1>16, <1>17, <1>18 DEF DataInv, Quiet

(* Nothing is stored at the start.                                         *)
LEMMA DataInvInit == Slave # {} /\ Init => DataInv
<1> SUFFICES ASSUME Slave # {}, Init PROVE DataInv
  OBVIOUS
<1>1. /\ \A s \in Slave : /\ life[s] = "new" /\ todo[s] = {} /\ holder[s] = Idle
                          /\ job[s].pc = "none"
      /\ req = NoReq /\ acked = [k \in Key |-> None] /\ written = 0
  BY DEF Init, NoJob
<1>2. \A s \in Slave : \A w \in {"curr", "prev"} : \A k \in Key : data[s][w][k] = None
  <2>1. \A k \in Key : Empty[k] = None
    BY DEF Empty
  <2> QED
    BY <2>1 DEF Init
<1>3. /\ ~Formed /\ \A s \in Slave : ~AtWork(s) /\ Pending(s) = {}
  BY <1>1 DEF Formed, AtWork, Pending
<1>4. Points = {}
  <2>1. Members = {}
    BY <1>1 DEF Members
  <2> QED
    BY <2>1, RingOKInit DEF RingOK, Points
<1>5. Fresh /\ Requested /\ NotTheLast /\ Addressed
  BY <1>1, <1>2, <1>3 DEF Fresh, Requested, NotTheLast, Addressed
<1> QED
  BY <1>3, <1>4, <1>5 DEF DataInv, Quiet, Behind, AnswerBehind

(* What is shown without the data, for an ascending tree.                  *)
Trusted == MigrationInv /\ RingOK /\ Ascending

(* It is what the proofs about the data know.                              *)

LEMMA TrustedKnown ==
  Slave # {} /\ ~Lone /\ Trusted /\ NotTheLast => Known
BY Routes, FoundAround DEF Known, Trusted

(* The dead slave is not the last of the ring when it leaves it.           *)
LEMMA StaysNotLast ==
  ASSUME Known, RingOK', DataInv, NEW x \in Slave, Detect(x)
  PROVE  NotTheLast'
<1>1. /\ life[x] = "down" /\ job[x].pc = "none" /\ Types /\ OneAtWork /\ RingOK
      /\ life' = life /\ DOMAIN job' = Slave /\ \A y \in Slave \ {x} : job'[y] = job[y]
  BY DEF Detect, Known, MigrationInv, Types, NoJob
<1>2. Points' = Points \ {x}
  <2>1. Points = Members /\ Points' = Members'
    BY <1>1 DEF RingOK, Points
  <2>2. job'[x].pc = "step1"
    BY <1>1 DEF Detect
  <2> QED
    BY <1>1, <2>1, <2>2 DEF Members
<1>3. \E q \in Points : q > x
  BY <1>1 DEF DataInv, NotTheLast
<1>4. \E q \in Points' : q > x
  BY <1>2, <1>3, MigrationAssumption
<1>5. \A y \in Slave : life'[y] = "down" /\ job'[y].pc # "done" => y = x
  BY <1>1 DEF OneAtWork
<1> QED
  BY <1>4, <1>5 DEF NotTheLast

(* Every step keeps what is said of the data.                              *)
LEMMA DataInvStep ==
  /\ Apart /\ Apart' /\ ~LastMayDie /\ ~LastWritten /\ Key # {} /\ Slave # {}
  /\ Trusted /\ Trusted' /\ DataInv /\ [Next]_vars
  => DataInv'
<1> SUFFICES ASSUME Apart, Apart', ~LastMayDie, ~LastWritten, Key # {}, Slave # {},
                    Trusted, Trusted', DataInv, [Next]_vars
             PROVE  DataInv'
  OBVIOUS
<1>1. Known /\ RingOK' /\ ~overlapped' /\ ~Lone'
  BY TrustedKnown DEF DataInv, Trusted, Apart
<1>2. ASSUME NEW s \in Slave, Detect(s) PROVE DataInv'
  <2>1. NotTheLast'
    BY <1>1, <1>2, StaysNotLast
  <2>2. (Slave # {} /\ ~Lone /\ Trusted /\ NotTheLast => Known)'
    BY TrustedKnown, PTL
  <2>3. Known'
    BY <1>1, <2>1, <2>2
  <2>4. AroundOK' /\ RoutesOK'
    <3>1. Formed'
      BY <1>1, <1>2 DEF Detect, RingOK, Known, Formed
    <3> QED
      BY <2>3, <3>1 DEF Known
  <2> QED
    BY <1>1, <1>2, <2>1, <2>4, DetectData
<1>3. ASSUME NEW s \in Slave, Step1(s) \/ Step2(s) \/ Step3(s) \/ MigrationDone(s)
      PROVE  DataInv'
  BY <1>1, <1>3, Step1Data, Step2Data, Step3Data, DoneData
<1>4. ASSUME NEW s \in Slave, Serve(s) PROVE DataInv'
  BY <1>1, <1>4, MergeData, SendData, GetData, AddData DEF Serve
<1>5. ASSUME NEW s \in Slave, Join(s) \/ Die(s) PROVE DataInv'
  BY <1>1, <1>5, JoinData, DieData
<1>6. ASSUME NEW k \in Key, Request(k) PROVE DataInv'
  BY <1>1, <1>6, RequestData
<1>7. ASSUME NEW w \in {"curr", "prev"}, Leg(w) PROVE DataInv'
  BY <1>1, <1>7, LegData
<1>8. CASE Reply
  BY <1>1, <1>8, ReplyData
<1>9. CASE UNCHANGED vars
  <2>1. /\ UNCHANGED <<ring, life, todo, holder, answer, job, data>>
        /\ UNCHANGED <<req, acked, written, touched, crossed>>
    BY <1>9 DEF vars, slaves, client, past
  <2>2. \A k, w, v : Good(k, w, v)' <=> Good(k, w, v)
    BY <2>1 DEF Good, Under, Stored
  <2>3. /\ (Quiet => CalmData)' /\ (\A x \in Slave : AtWork(x) => WorkData(x))'
        /\ Behind'
    BY <1>1, <2>1, <2>2, AskedData
  <2>4. Fresh' /\ Requested'
    <3>1. Fresh'
      BY <2>1, Unmoved DEF DataInv, Fresh
    <3>2. req' # NoReq => Homed' \/ \E x \in Slave : Missed(x)'
      BY <2>1, Unmoved, HomedStays DEF DataInv
    <3> QED
      BY <2>1, <3>1, <3>2, Unmoved DEF DataInv, Requested
  <2> QED
    BY <2>1, <2>3, <2>4, ClientAside DEF DataInv
<1> QED
  BY <1>2, <1>3, <1>4, <1>5, <1>6, <1>7, <1>8, <1>9 DEF Next

(* Slaves register in the order of their points.                           *)
InOrder == \A s \in Slave : Join(s) => \A p \in Ring!Points : p < s

(* The tree changes in two steps only.                                     *)
LEMMA RingSteps ==
  [Next]_vars => UNCHANGED ring \/ \E s \in Slave : Join(s) \/ Detect(s)
<1>1. ASSUME NEW s \in Slave,
             Step1(s) \/ Step2(s) \/ Step3(s) \/ MigrationDone(s) \/ Die(s)
      PROVE  UNCHANGED ring
  BY <1>1 DEF Step1, Step2, Step3, MigrationDone, Step, Die
<1>2. ASSUME NEW s \in Slave, Serve(s) PROVE UNCHANGED ring
  BY <1>2 DEF Serve, merge_maps, send_map, get_data, addToMap, Begin
<1>3. CASE (\E k \in Key : Request(k)) \/ (\E w \in {"curr", "prev"} : Leg(w)) \/ Reply
  BY <1>3 DEF Request, Leg, Reply
<1>4. CASE UNCHANGED vars
  BY <1>4 DEF vars
<1> QED
  BY <1>1, <1>2, <1>3, <1>4 DEF Next

(* Then the tree has no left children, then or later.                      *)
LEMMA AscendingStays ==
  RingOK /\ Ascending /\ [Next]_vars /\ [InOrder]_vars => Ascending'
<1> SUFFICES ASSUME RingOK, Ascending, [Next]_vars, [InOrder]_vars PROVE Ascending'
  OBVIOUS
<1>1. Ascending <=> Proved!Chain
  BY SameRoute DEF Ascending, Proved!Chain
<1>2. (Ascending <=> Proved!Chain)'
  <2>1. Ring!Linked' = Proved!Linked'
    BY DEF Ring!Linked, Proved!Linked, Ring!Below, Proved!Below
  <2> QED
    BY <2>1 DEF Ascending, Proved!Chain
<1>3. CASE UNCHANGED ring
  BY <1>1, <1>2, <1>3, SameRing DEF Proved!Chain, ring
<1>4. ASSUME NEW s \in Slave, Join(s) PROVE Ascending'
  <2>1. /\ life[s] = "new" /\ life' = [life EXCEPT ![s] = "up"]
        /\ Proved!Register(s) /\ s \in Hash
    BY <1>4, SameRegister, MigrationAssumption DEF Join
  <2>2. CASE UNCHANGED vars
    BY <1>3, <2>2 DEF vars
  <2>3. CASE InOrder
    <3>1. \A n \in Proved!Linked : hash[n] < s
      BY <1>4, <2>3, SameRoute DEF InOrder, Points, Proved!Points
    <3> QED
      BY <1>1, <1>2, <2>1, <3>1, RingTypes, Proved!RegisterChain, MigrationAssumption
  <2> QED
    BY <2>2, <2>3
<1>5. ASSUME NEW x \in Slave, Detect(x) PROVE Ascending'
  <2>1. Proved!SlaveDown(x) /\ x \in Hash
    BY <1>5, SameSlaveDown, MigrationAssumption DEF Detect
  <2> QED
    BY <1>1, <1>2, <2>1, RingTypes, Proved!DeathChain, MigrationAssumption
<1> QED
  BY <1>3, <1>4, <1>5, RingSteps

(* What each table holds, and what it will hold once the commands of the   *)
(* migration are carried out (steps 1 to 3 of migrationInitDown): the      *)
(* inductive invariant of the data, for slaves that registered in the      *)
(* order of their points.                                                  *)
THEOREM DataInvariant ==
  ASSUME ~LastMayDie, ~LastWritten, Key # {}, Slave # {}
  PROVE  Spec /\ [][InOrder]_vars => [](Apart => Trusted /\ DataInv)
<1> DEFINE Inv == LifeOK /\ (Apart => MigrationInv /\ RingOK)
           Data == Apart => Ascending /\ DataInv
<1>1. Spec => []Inv
  BY MigrationInvariant
<1>2. Init => Data
  <2> SUFFICES ASSUME Init PROVE Ascending
    BY DataInvInit
  <2>1. \A n \in Node : left[n] = NULL
    BY DEF Init, Ring!Init
  <2>2. Proved!Linked \subseteq Node
    BY RingOKInit, RingTypes
  <2> QED
    BY <2>1, <2>2, SameRoute DEF Ascending
<1>3. Inv /\ Inv' /\ Data /\ [Next]_vars /\ [InOrder]_vars => Data'
  <2> SUFFICES ASSUME Inv, Inv', Data, [Next]_vars, [InOrder]_vars, Apart'
               PROVE  (Ascending /\ DataInv)'
    OBVIOUS
  <2>1. Apart
    BY ApartBefore
  <2>2. Ascending'
    BY <2>1, AscendingStays
  <2>3. Trusted /\ Trusted' /\ DataInv
    BY <2>1, <2>2 DEF Trusted
  <2> QED
    BY <2>1, <2>2, <2>3, DataInvStep
<1>4. Inv /\ Data => (Apart => Trusted /\ DataInv)
  BY DEF Trusted
<1> HIDE DEF Inv, Data
<1> QED
  BY <1>1, <1>2, <1>3, <1>4, PTL DEF Spec

(* At rest the tables hold what they should.                               *)
LEMMA AtRestData ==
  ASSUME Slave # {}, Apart, Trusted, DataInv, AtRest
  PROVE  /\ Points \subseteq Nat /\ RoutesOK
         /\ \A k \in Key : Primary(k) \in Points
         /\ \A k \in Key : \A w, v : Good(k, w, v) /\ Promised(k) => Kept(k, v)
         /\ \A k \in Key :
              /\ Good(k, "curr", data[Primary(k)].curr[k])
              /\ \A q \in Points : Follows(Primary(k), q) =>
                   Good(k, "prev", data[q].prev[k])
<1>1. Formed /\ Calm /\ req = NoReq /\ Quiet /\ CalmData
  BY DEF AtRest, Calm, Quiet, DataInv
<1>2. RingOK /\ RoutesOK
  BY <1>1, TrustedKnown DEF Trusted, Known, DataInv, Apart
<1>3. \A q \in Points : life[q] = "up"
  BY <1>1, <1>2, CalmAlive
<1>4. Points \subseteq Nat /\ \A k \in Key : Primary(k) \in Points
  BY <1>2 DEF RoutesOK, Routed
<1>5. \A k \in Key : \A w, v : Good(k, w, v) /\ Promised(k) => Kept(k, v)
  BY <1>1 DEF Good, Under, Kept, Promised
<1> QED
  BY <1>1, <1>2, <1>3, <1>4, <1>5 DEF CalmData

(* Deaths one after the other lose nothing while two slaves are left: when *)
(* the migrations are over, the slave that get is sent to has every        *)
(* acknowledged key, and the last value of it if it was written in calm    *)
(* times; but for keys whose write the beginning of a migration has        *)
(* crossed.                                                                *)
THEOREM KeysAreServed ==
  ASSUME ~LastMayDie, ~LastWritten, Key # {}, Slave # {}
  PROVE  Spec /\ [][InOrder]_vars => []KeysServed
<1>1. (Apart => Trusted /\ DataInv) => KeysServed
  <2> SUFFICES ASSUME Apart, Trusted, DataInv, AtRest, NEW k \in Key, Promised(k)
               PROVE  Kept(k, data[Primary(k)].curr[k])
    BY DEF KeysServed, InPrimary
  <2> QED
    BY AtRestData
<1> QED
  BY <1>1, DataInvariant, PTL

(* And the slave that follows it holds the backup, so that the next death  *)
(* loses nothing either.                                                   *)
THEOREM KeysAreBackedUp ==
  ASSUME ~LastMayDie, ~LastWritten, Key # {}, Slave # {}
  PROVE  Spec /\ [][InOrder]_vars => []BackedUp
<1>1. (Apart => Trusted /\ DataInv) => BackedUp
  <2> SUFFICES ASSUME Apart, Trusted, DataInv, AtRest, NEW k \in Key, Promised(k),
                      ~IsLast(Primary(k)), NEW s \in Secondaries(Primary(k))
               PROVE  Kept(k, data[s].prev[k])
    BY DEF BackedUp, InSecondary
  <2>1. RoutesOK /\ Primary(k) \in Points
    BY AtRestData
  <2>2. Follows(Primary(k), s)
    BY <2>1 DEF RoutesOK
  <2>3. s \in Points
    BY <2>1, <2>2, FollowsOnce
  <2> QED
    BY <2>2, <2>3, AtRestData
<1> QED
  BY <1>1, DataInvariant, PTL

----------------------------------------------------------------------------
(* The coordinator's tree changes only as RingTree lets it: what is        *)
(* checked of the ring there holds of the ring here.                       *)
THEOREM RingIsTree == Spec => Ring!Spec
<1>1. [Next]_vars => [Ring!Next]_(Ring!vars)
  <2> SUFFICES ASSUME [Next]_vars PROVE [Ring!Next]_(Ring!vars)
    OBVIOUS
  <2>1. ASSUME NEW s \in Slave, Join(s) \/ Detect(s) PROVE Ring!Next
    BY <2>1, MigrationAssumption DEF Join, Detect, Ring!Next
  <2>2. CASE UNCHANGED ring
    BY <2>2 DEF ring, Ring!vars
  <2> QED
    BY <2>1, <2>2, RingSteps
<1>2. Init => Ring!Init
  BY DEF Init
<1> QED
  BY <1>1, <1>2, PTL DEF Spec, Ring!Spec
============================================================================
