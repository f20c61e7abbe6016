--------------------------- MODULE CodeCallerProofs ---------------------------
(***************************************************************************)
(* CodeCaller implements TaskHub, so that what is proved of the Hub among  *)
(* arbitrary daemons holds among the real ones, and the daemons keep their *)
(* own invariant when the real Hub sends the commands and restarts.        *)
(***************************************************************************)
EXTENDS CodeCaller, TaskHubProofs

\* AgentDaemon again, as CodeCaller instantiates it, with its theorems.
Alone == INSTANCE AgentDaemonProofs WITH
              Daemons <- Servers, inbox <- wire, MaxInbox <- MaxWire

-----------------------------------------------------------------------------
(* The two instances agree.                                                *)

\* The handlers of the Hub's commands.
LEMMA SameHandler ==
    ASSUME NEW s \in Servers, Daemon!Handler(s)
    PROVE  Alone!Handler(s)
BY DEF Daemon!Handler, Daemon!onTaskSubmit, Daemon!onTaskCancel,
       Daemon!onApprovalDecision, Daemon!Take, Daemon!Running, Daemon!start,
       Daemon!SetRunner, Daemon!emit, Daemon!NoRunner, Daemon!kill, Daemon!resume,
       Daemon!Answer,
       Alone!Handler, Alone!onTaskSubmit, Alone!onTaskCancel,
       Alone!onApprovalDecision, Alone!Take, Alone!Running, Alone!start,
       Alone!SetRunner, Alone!emit, Alone!NoRunner, Alone!kill, Alone!resume,
       Alone!Answer

\* The steps of a child.
LEMMA SameChild ==
    ASSUME NEW s \in Servers, NEW t \in Tasks, Daemon!Child(s, t)
    PROVE  Alone!Child(s, t)
BY DEF Daemon!Child, Daemon!onData, Daemon!onClose, Daemon!onError, Daemon!Running,
       Daemon!SetRunner, Daemon!dropTask, Daemon!emit, Daemon!Say, Daemon!NoRunner,
       Daemon!Results,
       Alone!Child, Alone!onData, Alone!onClose, Alone!onError, Alone!Running,
       Alone!SetRunner, Alone!dropTask, Alone!emit, Alone!Say, Alone!NoRunner,
       Alone!Results

\* The connection and the process.
LEMMA SameConnection ==
    ASSUME NEW s \in Servers,
           \/ Daemon!Break(s) \/ Daemon!onDisconnect(s)
           \/ Daemon!onConnect(s) \/ Daemon!shutdown(s)
    PROVE  Alone!Connection(s)
BY DEF Daemon!Break, Daemon!onDisconnect, Daemon!onConnect, Daemon!shutdown,
       Daemon!NoRunner,
       Alone!Connection, Alone!Break, Alone!onDisconnect, Alone!onConnect,
       Alone!shutdown, Alone!NoRunner

\* The invariant.
LEMMA SameInv == Daemon!DaemonInv <=> Alone!DaemonInv
BY DEF Daemon!DaemonInv, Daemon!DaemonTypeOK, Daemon!Told, Daemon!Pending, Daemon!Event,
       Daemon!Results, Daemon!Runner, Daemon!NoRunner, Daemon!Command,
       Alone!DaemonInv, Alone!DaemonTypeOK, Alone!Told, Alone!Pending, Alone!Event,
       Alone!Results, Alone!Runner, Alone!NoRunner, Alone!Command

\* What the daemons may do, they do here too.
LEMMA DaemonKeeps ==
    ASSUME Alone!DaemonInv, Alone!DaemonNext
    PROVE  Alone!DaemonInv'
BY Alone!DaemonStepOK, SystemBounds, BoundsAssumption

\* A step of the Hub changes nothing of the daemons but what is on the wire.
LEMMA HubKeeps ==
    ASSUME Alone!DaemonInv, IInv', UNCHANGED own
    PROVE  Alone!DaemonInv'
<1>1. wire' \in [Servers -> Seq(Alone!Command)]
  BY DEF IInv, TypeOK, Message, Alone!Command
<1> QED
  BY <1>1, Alone!InboxStep, SystemBounds, BoundsAssumption DEF own

-----------------------------------------------------------------------------
(* Every step of the system is one of TaskHub, or leaves the Hub alone.    *)

\* What is on the wire to s is taken, or lost with the connection.
LEMMA WireStep ==
    ASSUME IInv, NEW s \in Servers, UNCHANGED hubOwn,
           \/ UNCHANGED wire
           \/ wire[s] # <<>> /\ wire' = [wire EXCEPT ![s] = Tail(wire[s])]
           \/ wire' = [wire EXCEPT ![s] = <<>>]
    PROVE  [Next]_vars
<1>1. CASE UNCHANGED wire
  BY <1>1 DEF hubOwn, db, counters, vars
<1>2. CASE wire[s] # <<>> /\ wire' = [wire EXCEPT ![s] = Tail(wire[s])]
  <2>1. Deliver(s)
    BY <1>2 DEF Deliver, hubOwn, db, counters
  <2> QED
    BY <2>1 DEF Next, Presence
<1>3. CASE wire[s] # <<>> /\ wire' = [wire EXCEPT ![s] = <<>>]
  <2>1. Deliver(s)
    BY <1>3 DEF Deliver, hubOwn, db, counters
  <2> QED
    BY <2>1 DEF Next, Presence
<1>4. CASE wire[s] = <<>> /\ wire' = [wire EXCEPT ![s] = <<>>]
  <2>1. wire \in [Servers -> Seq(Message)]
    BY DEF IInv, TypeOK
  <2>2. wire' = wire
    BY <1>4, <2>1
  <2> QED
    BY <1>1, <2>2
<1> QED
  BY <1>1, <1>2, <1>3, <1>4

\* A step of a daemon.
LEMMA DaemonStepImplements ==
    ASSUME IInv, NEW s \in Servers, DaemonStep(s) \/ Reconnect(s)
    PROVE  [Next]_vars
<1>1. UNCHANGED hubOwn
  BY DEF DaemonStep, Reconnect
<1>2. CASE Daemon!Handler(s)
  <2>1. wire[s] # <<>> /\ wire' = [wire EXCEPT ![s] = Tail(wire[s])]
    BY <1>2 DEF Daemon!Handler, Daemon!onTaskSubmit, Daemon!onTaskCancel,
                Daemon!onApprovalDecision, Daemon!Take
  <2> QED
    BY <1>1, <2>1, WireStep
<1>3. ASSUME NEW t \in Tasks, Daemon!Child(s, t)
      PROVE  [Next]_vars
  <2>1. UNCHANGED wire
    BY <1>3 DEF Daemon!Child, Daemon!onData, Daemon!onClose, Daemon!onError
  <2> QED
    BY <1>1, <2>1, WireStep
<1>4. CASE Daemon!Break(s) \/ Daemon!shutdown(s)
  <2>1. wire' = [wire EXCEPT ![s] = <<>>]
    BY <1>4 DEF Daemon!Break, Daemon!shutdown
  <2> QED
    BY <1>1, <2>1, WireStep
<1>5. CASE Daemon!onDisconnect(s) \/ Daemon!onConnect(s)
  <2>1. UNCHANGED wire
    BY <1>5 DEF Daemon!onDisconnect, Daemon!onConnect
  <2> QED
    BY <1>1, <2>1, WireStep
<1> QED
  BY <1>2, <1>3, <1>4, <1>5 DEF DaemonStep, Reconnect

\* An event of a daemon.
LEMMA ReceiveImplements ==
    ASSUME Alone!DaemonInv, NEW c \in Slots, NEW s \in Servers, Receive(c, s)
    PROVE  [Next]_vars
<1>1. outbox[s] \in Seq(Alone!Event) /\ outbox[s] # <<>>
  BY DEF Alone!DaemonInv, Alone!DaemonTypeOK, Receive
<1>2. Head(outbox[s]) \in Alone!Event
  BY <1>1, HeadTailProperties
<1>3. PICK t \in Tasks : t = Head(outbox[s]).task
  BY <1>2 DEF Alone!Event
<1>4. \/ DaemonEvent(c, t)
      \/ UNCHANGED hubOwn
  BY <1>3, DaemonsReport DEF Receive, DaemonEvent
<1>5. UNCHANGED wire
  BY DEF Receive, Daemon!HubTakes
<1> QED
  BY <1>4, <1>5 DEF Next, hubOwn, db, counters, vars

\* All of them.
LEMMA StepImplements ==
    ASSUME IInv, Alone!DaemonInv, [SystemNext]_allVars
    PROVE  [Next]_vars
<1>1. CASE UNCHANGED allVars
  BY <1>1 DEF allVars
<1>2. CASE HubStep
  BY <1>2 DEF HubStep, Next
<1>3. ASSUME NEW c \in Slots, NEW s \in Servers, Receive(c, s)
      PROVE  [Next]_vars
  BY <1>3, ReceiveImplements
<1>4. ASSUME NEW s \in Servers, DaemonStep(s) \/ Reconnect(s)
      PROVE  [Next]_vars
  BY <1>4, DaemonStepImplements
<1>5. ASSUME NEW s \in Servers, Join(s) \/ Leave(s) \/ LoseWire(s)
      PROVE  [Next]_vars
  BY <1>5 DEF Join, Leave, LoseWire, Next, Presence
<1>6. ASSUME NEW s \in Servers, Mark(s)
      PROVE  [Next]_vars
  BY <1>6 DEF Mark, Next, Presence
<1>7. ASSUME NEW t \in Tasks, Wait(t)
      PROVE  [Next]_vars
  BY <1>7 DEF Wait, Next
<1>8. CASE Restart
  BY <1>8 DEF Restart, Next
<1> QED
  BY <1>1, <1>2, <1>3, <1>4, <1>5, <1>6, <1>7, <1>8 DEF SystemNext

-----------------------------------------------------------------------------
(* The daemons' invariant in the system.                                   *)

\* What a restart of the Hub leaves pending is what was buffered.
LEMMA JoinBack ==
    ASSUME NEW S, NEW a \in Seq(S), NEW b \in Seq(S)
    PROVE  \A i \in DOMAIN b : i + Len(a) \in DOMAIN (a \o b) /\ b[i] = (a \o b)[i + Len(a)]
OBVIOUS

\* A restart of the Hub breaks all connections at once.
LEMMA RestartKeeps ==
    ASSUME Alone!DaemonInv, IInv', Restart
    PROVE  Alone!DaemonInv'
<1>1. /\ link \in [Servers -> {"up", "broken", "down"}]
      /\ outbox \in [Servers -> Seq(Alone!Event)] /\ buffer \in [Servers -> Seq(Alone!Event)]
      /\ runner \in [Servers -> Alone!Runners] /\ runs \in [Servers -> Nat]
  BY DEF Alone!DaemonInv, Alone!DaemonTypeOK, Alone!Runners
<1>2. /\ link' = [s \in Servers |-> IF link[s] = "up" THEN "broken" ELSE link[s]]
      /\ outbox' = [s \in Servers |-> <<>>]
      /\ UNCHANGED <<buffer, runner, runs, losses>>
  BY DEF Restart
<1>3. wire' \in [Servers -> Seq(Alone!Command)]
  BY DEF IInv, TypeOK, Message, Alone!Command
<1>4. link' \in [Servers -> {"up", "broken", "down"}] /\ outbox' \in [Servers -> Seq(Alone!Event)]
  BY <1>1, <1>2
<1>5. Alone!DaemonTypeOK'
  BY <1>2, <1>3, <1>4 DEF Alone!DaemonInv, Alone!DaemonTypeOK
<1>6. ASSUME NEW s \in Servers
      PROVE  /\ link'[s] # "down" => buffer'[s] = <<>>
             /\ Alone!Told(Alone!Pending(s)', runs'[s], runner'[s])
  <2>1. link'[s] # "down" => buffer'[s] = <<>>
    BY <1>1, <1>2 DEF Alone!DaemonInv
  <2>2. PICK a \in Seq(Alone!Event) : a = outbox[s]
    BY <1>1
  <2>3. PICK b \in Seq(Alone!Event) : b = buffer[s]
    BY <1>1
  <2>4. Alone!Pending(s) = a \o b /\ a \o b \in Seq(Alone!Event)
    BY <2>2, <2>3 DEF Alone!Pending
  <2>5. Alone!Pending(s)' = b
    <3>1. Alone!Pending(s)' = <<>> \o b
      BY <1>2, <2>3 DEF Alone!Pending
    <3> QED
      BY <3>1, ConcatEmptySeq
  <2>6. PICK k \in Nat : k = Len(a)
    OBVIOUS
  <2>7. \A i \in DOMAIN b : i + k \in DOMAIN (a \o b) /\ b[i] = (a \o b)[i + k]
    BY <2>6, JoinBack
  <2>8. Alone!Told(a \o b, runs[s], runner[s]) /\ runs[s] \in Nat /\ runner[s] \in Alone!Runners
    BY <1>1, <2>4 DEF Alone!DaemonInv
  <2>9. Alone!Told(b, runs[s], runner[s])
    BY <2>4, <2>7, <2>8, Alone!ToldLess, SystemBounds, BoundsAssumption
  <2> QED
    BY <1>2, <2>1, <2>5, <2>9
<1> QED
  BY <1>5, <1>6 DEF Alone!DaemonInv

\* No step of the system breaks it.
LEMMA SystemKeeps ==
    ASSUME Alone!DaemonInv, IInv', [SystemNext]_allVars
    PROVE  Alone!DaemonInv'
<1>1. CASE UNCHANGED own
  BY <1>1, HubKeeps
<1>2. CASE HubStep
  BY <1>1, <1>2 DEF HubStep
<1>3. ASSUME NEW c \in Slots, NEW s \in Servers, Receive(c, s)
      PROVE  Alone!DaemonInv'
  <2>1. Alone!HubTakes(s)
    BY <1>3 DEF Receive, Daemon!HubTakes, Alone!HubTakes
  <2> QED
    BY <2>1, DaemonKeeps DEF Alone!DaemonNext, Alone!HubSide
<1>4. ASSUME NEW s \in Servers, DaemonStep(s) \/ Reconnect(s)
      PROVE  Alone!DaemonInv'
  BY <1>4, SameHandler, SameChild, SameConnection, DaemonKeeps
     DEF DaemonStep, Reconnect, Alone!DaemonNext
<1>5. ASSUME NEW s \in Servers, Join(s) \/ Leave(s) \/ LoseWire(s) \/ Mark(s)
      PROVE  Alone!DaemonInv'
  BY <1>1, <1>5 DEF Join, Leave, LoseWire, Mark
<1>6. ASSUME NEW t \in Tasks, Wait(t)
      PROVE  Alone!DaemonInv'
  BY <1>1, <1>6 DEF Wait
<1>7. CASE Restart
  BY <1>7, RestartKeeps
<1>8. CASE UNCHANGED allVars
  BY <1>1, <1>8 DEF allVars
<1> QED
  BY <1>2, <1>3, <1>4, <1>5, <1>6, <1>7, <1>8 DEF SystemNext

-----------------------------------------------------------------------------
(* The theorems.                                                           *)

\* The daemons of the system start as AgentDaemon says.
LEMMA StartOK ==
    ASSUME SystemInit
    PROVE  IInv /\ Alone!DaemonInv
<1>1. Alone!DaemonInit
  BY DEF SystemInit, Daemon!DaemonInit, Alone!DaemonInit, Daemon!NoRunner, Alone!NoRunner
<1> QED
  BY <1>1, InitOK, Alone!DaemonInitOK, SystemBounds, BoundsAssumption DEF SystemInit

\* The invariants of the Hub and of the daemons hold of the system.
THEOREM SystemInvariance == System => []SystemInv
<1> DEFINE Both == IInv /\ Alone!DaemonInv
<1>1. SystemInit => Both
  BY StartOK
<1>2. Both /\ [SystemNext]_allVars => Both'
  <2> SUFFICES ASSUME Both, [SystemNext]_allVars
               PROVE  Both'
    OBVIOUS
  <2>1. IInv'
    BY StepImplements, NextOK
  <2> QED
    BY <2>1, SystemKeeps
<1>3. Both => SystemInv
  BY SameInv DEF SystemInv
<1> HIDE DEF Both
<1> QED
  BY <1>1, <1>2, <1>3, PTL DEF System

\* The Hub with real daemons implements TaskHub, which lets daemons say
\* anything: Receive is an event, DaemonStep delivers or stutters.
THEOREM SystemImplementsHub == System => Spec
<1>1. SystemInit => Init
  BY DEF SystemInit
<1>2. SystemInv /\ [SystemNext]_allVars => [Next]_vars
  BY SameInv, StepImplements DEF SystemInv
<1> QED
  BY <1>1, <1>2, SystemInvariance, PTL DEF System, Spec

\* So what is proved of the Hub among arbitrary daemons is true of the system:
\* tasks stay with their owner, no server gets a task back that timed out on it,
\* without a restart no attempt is left DISPATCHING, and nothing but a restart
\* and a job's last failure loses sight of a QUEUED task.
THEOREM SystemKeepsHubPromises ==
    System => /\ [](OwnerIsolation /\ TimedOutServerRetired /\ NoOrphanDispatching)
              /\ NoQueuedTaskForgotten
BY SystemImplementsHub, OwnersIsolated, TimedOutServersRetired, NoneForgotten, NoOrphans,
   PTL

\* And what is proved of the daemons alone: the Hub hears of a task's runs one
\* after the other, and of nothing after a result, across its own restarts.
THEOREM SystemHearsRunsInOrder ==
    System => [](Daemon!ResultEndsRun /\ Daemon!NoResultWhileRunning)
<1>1. SystemInv => Daemon!ResultEndsRun
  BY DEF SystemInv, Daemon!DaemonInv, Daemon!Told, Daemon!ResultEndsRun
<1>2. ASSUME SystemInv, NEW s \in Servers, NEW t \in Tasks, NEW i \in DOMAIN Daemon!Pending(s),
             Daemon!Pending(s)[i].task = t, Daemon!Pending(s)[i].event \in Daemon!Results
      PROVE  Daemon!Pending(s)[i].run # runner[s][t].run
  <2>1. Daemon!Told(Daemon!Pending(s), runs[s], runner[s])
    BY <1>2 DEF SystemInv, Daemon!DaemonInv
  <2>2. Daemon!Pending(s)[i].run \in 1 .. runs[s] /\ runs[s] \in Nat
    BY <1>2, <2>1 DEF Daemon!Told, SystemInv, Daemon!DaemonInv, Daemon!DaemonTypeOK
  <2>3. CASE runner[s][t] = Daemon!NoRunner
    <3>1. runner[s][t].run = 0
      BY <2>3 DEF Daemon!NoRunner
    <3> QED
      BY <2>2, <3>1
  <2>4. CASE runner[s][t] # Daemon!NoRunner
    BY <1>2, <2>1, <2>4 DEF Daemon!Told
  <2> QED
    BY <2>3, <2>4
<1>3. SystemInv => Daemon!NoResultWhileRunning
  BY <1>2 DEF Daemon!NoResultWhileRunning
<1> QED
  BY <1>1, <1>3, SystemInvariance, PTL

-----------------------------------------------------------------------------
(* RejectionKills: what a step has to keep.                                *)

\* The first attempt of t stays what it is.
FirstKept(t) ==
    /\ Len(attempts'[t]) <= 1 => Len(attempts[t]) <= 1
    /\ attempts'[t] = <<>> <=> attempts[t] = <<>>
    /\ attempts[t] # <<>> => attempts'[t][1].server = attempts[t][1].server
    /\ Exists(t) => task'[t].server = task[t].server

\* A decision about t that is in flight keeps its server; a new one takes the
\* server of the task.
DecisionsKept(t) ==
    \A c \in Slots : Deciding(c, t)' =>
        \/ Deciding(c, t) /\ call'[c].server = call[c].server
        \/ Exists(t) /\ approval'[t] # "NONE" /\ call'[c].server = task[t].server

\* So does a dispatch job.
JobKept(t) ==
    /\ proc' # Idle /\ proc'.task = t => Exists(t) /\ proc'.server = task[t].server
    /\ proc'.pc \in {"candidates", "create"} /\ proc'.task = t /\ attempts'[t] = <<>>
            => proc'.server \in proc'.todo

\* A job that is left alone does.
LEMMA SameJob ==
    ASSUME IInv, NEW t \in Tasks, ServerKnown(t), FirstKept(t), UNCHANGED proc
    PROVE  JobKept(t) /\ (AboutToSend(t)' => AboutToSend(t))
BY DEF IInv, ProcOK, ServerKnown, FirstKept, JobKept, AboutToSend

\* Nothing about a missing task is in flight.
LEMMA OnlyTasks ==
    ASSUME IInv, NEW t \in Tasks
    PROVE  /\ attempts[t] # <<>> => Exists(t)
           /\ proc # Idle /\ proc.task = t => Exists(t)
           /\ approval[t] # "NONE" => Exists(t)
           /\ \A c \in Slots : Deciding(c, t) => Exists(t)
           /\ \A s \in Servers : \A i \in Submits(s, t) : Exists(t)
<1>1. \A c \in Slots : Deciding(c, t) => Exists(t)
  BY DEF IInv, CallOK, Deciding, Idle
<1>2. \A s \in Servers : \A i \in Submits(s, t) : Exists(t)
  BY DEF IInv, WireOK, Submits
<1> QED
  BY <1>1, <1>2 DEF IInv, AttemptsOK, ProcOK, ApprovalsOK

\* A step after which jobs and decisions know the server of the task.
LEMMA ServerFrame ==
    ASSUME IInv, NEW t \in Tasks, ServerKnown(t), FirstKept(t), DecisionsKept(t), JobKept(t),
           approval[t] # "NONE" => approval'[t] # "NONE"
    PROVE  ServerKnown(t)'
<1>1. attempts'[t] # <<>> => task'[t].server = attempts'[t][1].server
  BY OnlyTasks DEF ServerKnown, FirstKept
<1>2. /\ proc' # Idle /\ proc'.task = t => proc'.server = task'[t].server
      /\ proc'.pc \in {"candidates", "create"} /\ proc'.task = t /\ attempts'[t] = <<>>
            => proc'.server \in proc'.todo
  BY DEF JobKept, FirstKept
<1>3. \A c \in Slots : Deciding(c, t)' =>
         approval'[t] # "NONE" /\ call'[c].server = task'[t].server
  BY OnlyTasks DEF ServerKnown, FirstKept, DecisionsKept
<1> QED
  BY <1>1, <1>2, <1>3 DEF ServerKnown

\* A step that starts no child of t and sends no task:submit of t.
LEMMA SentFrame ==
    ASSUME SystemInv, NEW t \in Tasks, SentOnce(t), FirstKept(t),
           AboutToSend(t)' => AboutToSend(t),
           approval'[t] # "NONE" => Begun(t),
           \A s \in Servers :
              /\ Runs(s, t)' => Runs(s, t)
              /\ Asks(s, t)' => Begun(t)
              /\ \E k \in Nat : \A i \in Submits(s, t)' : i \in Nat /\ i + k \in Submits(s, t)
    PROVE  SentOnce(t)'
<1>1. Begun(t)' => Begun(t)
  BY DEF Begun
<1>2. ASSUME NEW s \in Servers, NEW i \in Submits(s, t)'
      PROVE  /\ s = task'[t].server
             /\ attempts'[t] # <<>> /\ ~Begun(t)' /\ ~AboutToSend(t)'
             /\ \A j \in Submits(s, t)' : j = i
  <2>1. PICK k \in Nat : \A j \in Submits(s, t)' : j \in Nat /\ j + k \in Submits(s, t)
    OBVIOUS
  <2>2. /\ i + k \in Submits(s, t) /\ Exists(t)
        /\ \A j \in Submits(s, t)' : j + k = i + k
    BY <1>2, <2>1, OnlyTasks DEF SentOnce, SystemInv
  <2>3. \A j \in Submits(s, t)' : j = i
    BY <1>2, <2>1, <2>2
  <2> QED
    BY <1>1, <2>2, <2>3 DEF SentOnce, FirstKept
<1>3. Begun(t)' => attempts'[t] # <<>> /\ ~AboutToSend(t)'
  BY <1>1 DEF SentOnce, FirstKept
<1>4. ASSUME NEW s \in Servers, Runs(s, t)'
      PROVE  s = task'[t].server
  <2>1. Runs(s, t) /\ Begun(t)
    BY <1>4 DEF Begun
  <2>2. Exists(t)
    BY <2>1, OnlyTasks DEF SentOnce, SystemInv
  <2> QED
    BY <2>1, <2>2 DEF SentOnce, FirstKept
<1> QED
  BY <1>2, <1>3, <1>4 DEF SentOnce

\* A step that loses no rejection of t.
LEMMA ObeyFrame ==
    ASSUME NEW t \in Tasks, Obeyed(t),
           \/ approval'[t] = "REJECTED" => approval[t] = "REJECTED"
           \/ \E c \in Slots : Rejecting(c, t)',
           \A s \in Servers :
              /\ Lives(s, t)' => Lives(s, t)
              /\ Rejections(s, t) # {} => Rejections(s, t)' # {} \/ ~Lives(s, t)',
           \A c \in Slots : Rejecting(c, t) =>
              \/ Rejecting(c, t)'
              \/ \A s \in Servers : Lives(s, t) => Rejections(s, t)' # {}
    PROVE  Obeyed(t)'
BY DEF Obeyed

\* All that is known of a task that was dispatched at most once.
TaskKnown(t) == ServerKnown(t) /\ SentOnce(t) /\ Obeyed(t)

\* A step concerns the tasks that were dispatched at most once, while nothing
\* is lost.
LEMMA CalmFrame ==
    ASSUME DecisionInv, Calm' => Calm, UNCHANGED <<link, room, serverStatus>>,
           ASSUME Calm, Calm', NEW t \in Tasks, Len(attempts'[t]) <= 1
           PROVE  Len(attempts[t]) <= 1 /\ (TaskKnown(t) => TaskKnown(t)')
    PROVE  DecisionInv'
<1> SUFFICES ASSUME Calm'
             PROVE  /\ \A s \in Servers : link'[s] = "up" /\ room'[s] /\ serverStatus'[s] = "ONLINE"
                    /\ \A t \in Tasks : Len(attempts'[t]) <= 1 => TaskKnown(t)'
  BY DEF DecisionInv, TaskKnown
<1>1. \A s \in Servers : link'[s] = "up" /\ room'[s] /\ serverStatus'[s] = "ONLINE"
  BY DEF DecisionInv
<1>2. \A t \in Tasks : Len(attempts[t]) <= 1 => TaskKnown(t)
  BY DEF DecisionInv, TaskKnown
<1> QED
  BY <1>1, <1>2

\* The messages on the wire are numbered.
LEMMA MessageNumbers ==
    ASSUME IInv, NEW s \in Servers, NEW t \in Tasks
    PROVE  \A i \in Submits(s, t) : i \in Nat /\ i + 0 = i
<1>1. wire[s] \in Seq(Message)
  BY DEF IInv, TypeOK
<1> QED
  BY <1>1 DEF Submits

\* A step that leaves a task and what is in flight about it as they are, or
\* takes some of it away.
LEMMA TaskFrame ==
    ASSUME SystemInv, NEW t \in Tasks, TaskKnown(t),
           FirstKept(t), JobKept(t), DecisionsKept(t),
           AboutToSend(t)' => AboutToSend(t),
           approval[t] # "NONE" => approval'[t] # "NONE",
           approval'[t] # "NONE" => Begun(t),
           approval'[t] = "REJECTED" => approval[t] = "REJECTED",
           \A c \in Slots : Rejecting(c, t) => Rejecting(c, t)',
           \A s \in Servers :
              /\ Runs(s, t)' => Runs(s, t)
              /\ Lives(s, t)' => Lives(s, t)
              /\ Asks(s, t)' => Begun(t)
              /\ \E k \in Nat : \A i \in Submits(s, t)' : i \in Nat /\ i + k \in Submits(s, t)
              /\ Rejections(s, t) # {} => Rejections(s, t)' # {} \/ ~Lives(s, t)'
    PROVE  TaskKnown(t)'
<1>1. ServerKnown(t) /\ SentOnce(t) /\ Obeyed(t) /\ IInv
  BY DEF TaskKnown, SystemInv
<1>2. ServerKnown(t)'
  BY <1>1, ServerFrame
<1>3. SentOnce(t)'
  BY <1>1, SentFrame
<1>4. Obeyed(t)'
  BY <1>1, ObeyFrame
<1> QED
  BY <1>2, <1>3, <1>4 DEF TaskKnown

\* A step of a handler, of the watchdog or of a child: the dispatch job stays
\* as it is and no task:submit is sent.
LEMMA DecisionFrame ==
    ASSUME SystemInv, DecisionInv,
           UNCHANGED <<link, room, serverStatus, proc>>, Calm' => Calm,
           \A t \in Tasks :
              /\ FirstKept(t) /\ DecisionsKept(t)
              /\ approval[t] # "NONE" => approval'[t] # "NONE"
              /\ approval'[t] # "NONE" => Begun(t)
              /\ approval'[t] = "REJECTED" => approval[t] = "REJECTED"
              /\ \A c \in Slots : Rejecting(c, t) => Rejecting(c, t)',
           \A s \in Servers, t \in Tasks :
              /\ Runs(s, t)' => Runs(s, t)
              /\ Lives(s, t)' => Lives(s, t)
              /\ Asks(s, t)' => Begun(t)
              /\ Submits(s, t)' \subseteq Submits(s, t)
              /\ Rejections(s, t) \subseteq Rejections(s, t)'
    PROVE  DecisionInv'
<1>1. ASSUME NEW t \in Tasks, TaskKnown(t)
      PROVE  TaskKnown(t)'
  <2>1. ServerKnown(t) /\ IInv
    BY <1>1 DEF TaskKnown, SystemInv
  <2>2. JobKept(t) /\ (AboutToSend(t)' => AboutToSend(t))
    BY <2>1, SameJob
  <2>3. \A s \in Servers :
          \E k \in Nat : \A i \in Submits(s, t)' : i \in Nat /\ i + k \in Submits(s, t)
    BY <2>1, MessageNumbers
  <2>4. \A s \in Servers : Rejections(s, t) # {} => Rejections(s, t)' # {}
    OBVIOUS
  <2> QED
    BY <1>1, <2>2, <2>3, <2>4, TaskFrame
<1>2. \A t \in Tasks : Len(attempts'[t]) <= 1 => Len(attempts[t]) <= 1
  BY DEF FirstKept
<1> QED
  BY <1>1, <1>2, CalmFrame

-----------------------------------------------------------------------------
(* RejectionKills: the handlers and the watchdog of the Hub.               *)

DecisionPcs == {"decide", "decideTask", "sendDecision"}

\* Only handlers that decide nothing go on.
CallsKept ==
    \A d \in Slots : \/ call'[d] = call[d]
                     \/ call[d].pc \notin DecisionPcs /\ call'[d].pc \notin DecisionPcs

\* Then the decisions in flight are what they were.
LEMMA CallsFrame ==
    ASSUME CallsKept, NEW t \in Tasks
    PROVE  /\ DecisionsKept(t)
           /\ \A c \in Slots : Rejecting(c, t) => Rejecting(c, t)'
BY DEF CallsKept, DecisionPcs, DecisionsKept, Deciding, Rejecting, Approved

\* Rows that are rewritten in place keep the first attempt.
LEMMA RowsKeepFirst ==
    ASSUME IInv, attempts' \in [Tasks -> Seq(AttemptRow)], NEW t \in Tasks,
           Len(attempts'[t]) = Len(attempts[t]),
           \A i \in 1 .. Len(attempts[t]) : attempts'[t][i].server = attempts[t][i].server,
           Exists(t) => task'[t].server = task[t].server
    PROVE  FirstKept(t)
<1>1. attempts[t] \in Seq(AttemptRow) /\ attempts'[t] \in Seq(AttemptRow)
  BY DEF IInv, TypeOK
<1>2. PICK n \in Nat : n = Len(attempts[t])
  BY <1>1
<1>3. (attempts[t] = <<>> <=> n = 0) /\ (attempts'[t] = <<>> <=> n = 0)
  BY <1>1, <1>2, EmptySeq
<1>4. n # 0 => 1 \in 1 .. n
  OBVIOUS
<1> QED
  BY <1>2, <1>3, <1>4 DEF FirstKept

\* A status that is written leaves the server of a task alone.
LEMMA StatusKeepsServer ==
    ASSUME IInv, NEW t \in Tasks, Exists(t), NEW status, SetTaskStatus(t, status),
           NEW u \in Tasks
    PROVE  task'[u].server = task[u].server
<1>1. task \in [Tasks -> {NoTask} \cup TaskRow] /\ task[t] \in TaskRow
  BY DEF IInv, TypeOK, Exists
<1>2. PICK b \in TaskRow : b = task[t]
  BY <1>1
<1>3. [b EXCEPT !.status = status, !.fresh = TRUE].server = b.server
  BY DEF TaskRow
<1>4. task'[t] = [b EXCEPT !.status = status, !.fresh = TRUE]
  BY <1>1, <1>2 DEF SetTaskStatus
<1>5. u # t => task'[u] = task[u]
  BY <1>1 DEF SetTaskStatus
<1> QED
  BY <1>2, <1>3, <1>4, <1>5

\* The handlers that rewrite the attempt they found.
LEMMA FoundRowKept ==
    ASSUME IInv, NEW c \in Slots,
           TouchAttempt(c) \/ FinishAttempt(c) \/ FinishCapacity(c), NEW u \in Tasks
    PROVE  FirstKept(u)
<1>0. UNCHANGED task /\ attempts \in [Tasks -> Seq(AttemptRow)]
  BY DEF TouchAttempt, FinishAttempt, FinishCapacity, IInv, TypeOK
<1>1. CASE call[c].row = 0
  <2>1. UNCHANGED attempts
    BY <1>1 DEF TouchAttempt, FinishAttempt, FinishCapacity
  <2> QED
    BY <1>0, <2>1 DEF FirstKept
<1>2. CASE call[c].row # 0
  <2>a. call[c].pc # "idle"
    BY DEF TouchAttempt, FinishAttempt, FinishCapacity
  <2>b. PICK t \in Tasks : t = call[c].task
    BY <2>a, InFlight
  <2>c. PICK n \in 1 .. Len(attempts[t]) : n = call[c].row
    BY <1>0, <1>2, <2>a, <2>b, InFlight
  <2>d. PICK old \in AttemptRow : old = attempts[t][n]
    BY <1>0
  <2>1. t = call[c].task /\ n = call[c].row /\ old = attempts[t][n]
    BY <2>b, <2>c, <2>d
  <2>2. PICK row : SetAttempt(t, n, row) /\ row \in AttemptRow /\ row.server = old.server
    <3>1. CASE TouchAttempt(c)
      <4>1. SetAttempt(t, n, [old EXCEPT !.status = "RUNNING", !.fresh = TRUE])
        BY <1>2, <2>1, <3>1 DEF TouchAttempt
      <4>2. /\ [old EXCEPT !.status = "RUNNING", !.fresh = TRUE] \in AttemptRow
            /\ [old EXCEPT !.status = "RUNNING", !.fresh = TRUE].server = old.server
        BY DEF AttemptRow, AttemptStatuses
      <4> QED
        BY <4>1, <4>2
    <3>2. CASE FinishAttempt(c)
      <4> DEFINE ok == call[c].to = "COMPLETED"
      <4>1. PICK b \in BOOLEAN : b = (ok /\ old.capacity)
        OBVIOUS
      <4>2. PICK st \in {"SUCCEEDED", "FAILED"} : st = IF ok THEN "SUCCEEDED" ELSE "FAILED"
        OBVIOUS
      <4>3. SetAttempt(t, n, [old EXCEPT !.status = IF ok THEN "SUCCEEDED" ELSE "FAILED",
                                         !.capacity = ok /\ @, !.fresh = TRUE])
        BY <1>2, <2>1, <3>2 DEF FinishAttempt
      <4>4. [old EXCEPT !.status = IF ok THEN "SUCCEEDED" ELSE "FAILED",
                        !.capacity = ok /\ @, !.fresh = TRUE]
              = [old EXCEPT !.status = st, !.capacity = b, !.fresh = TRUE]
        BY <4>1, <4>2
      <4>5. /\ [old EXCEPT !.status = st, !.capacity = b, !.fresh = TRUE] \in AttemptRow
            /\ [old EXCEPT !.status = st, !.capacity = b, !.fresh = TRUE].server = old.server
        BY DEF AttemptRow, AttemptStatuses
      <4> QED
        BY <4>3, <4>4, <4>5
    <3>3. CASE FinishCapacity(c)
      <4>1. SetAttempt(t, n, [old EXCEPT !.status = "FAILED", !.capacity = TRUE, !.fresh = TRUE])
        BY <1>2, <2>1, <3>3 DEF FinishCapacity
      <4>2. /\ [old EXCEPT !.status = "FAILED", !.capacity = TRUE, !.fresh = TRUE] \in AttemptRow
            /\ [old EXCEPT !.status = "FAILED", !.capacity = TRUE, !.fresh = TRUE].server = old.server
        BY DEF AttemptRow, AttemptStatuses
      <4> QED
        BY <4>1, <4>2
    <3> QED
      BY <3>1, <3>2, <3>3
  <2>3. /\ attempts' \in [Tasks -> Seq(AttemptRow)]
        /\ Len(attempts'[u]) = Len(attempts[u])
        /\ \A i \in 1 .. Len(attempts[u]) :
              attempts'[u][i] = IF u = t /\ i = n THEN row ELSE attempts[u][i]
    BY <1>0, <2>1, <2>2, RewriteRow
  <2> QED
    BY <1>0, <2>1, <2>2, <2>3, RowsKeepFirst
<1> QED
  BY <1>1, <1>2

\* Every handler keeps the first attempt and the server of a task.
LEMMA HandlerKeepsFirst ==
    ASSUME IInv, NEW u \in Tasks,
           \/ \E c \in Slots, t \in Tasks : UserRequest(c, t) \/ DaemonEvent(c, t)
           \/ \E c \in Slots : Continue(c)
    PROVE  FirstKept(u)
<1>1. CASE \E c \in Slots : TouchAttempt(c) \/ FinishAttempt(c) \/ FinishCapacity(c)
  BY <1>1, FoundRowKept
<1>2. CASE UNCHANGED attempts /\ UNCHANGED task
  BY <1>2 DEF FirstKept
<1>3. CASE /\ UNCHANGED attempts
           /\ \E c \in Slots : \E status : /\ call[c].pc # "idle"
                                           /\ SetTaskStatus(call[c].task, status)
  <2>0. PICK c \in Slots : \E status : call[c].pc # "idle" /\ SetTaskStatus(call[c].task, status)
    BY <1>3
  <2>1. PICK status : call[c].pc # "idle" /\ SetTaskStatus(call[c].task, status)
    BY <2>0
  <2>2. PICK t \in Tasks : t = call[c].task /\ Exists(t)
    BY <2>1, InFlight
  <2>3. task'[u].server = task[u].server
    BY <2>1, <2>2, StatusKeepsServer
  <2> QED
    BY <1>3, <2>3 DEF FirstKept
<1>4. CASE /\ UNCHANGED attempts
           /\ \E t \in Tasks : ~Exists(t) /\ \E x : task' = [task EXCEPT ![t] = x]
  <2>1. Exists(u) => task'[u] = task[u]
    BY <1>4
  <2> QED
    BY <1>4, <2>1 DEF FirstKept
<1>5. \/ \E c \in Slots : TouchAttempt(c) \/ FinishAttempt(c) \/ FinishCapacity(c)
      \/ UNCHANGED attempts /\ UNCHANGED task
      \/ /\ UNCHANGED attempts
         /\ \E c \in Slots : \E status : /\ call[c].pc # "idle"
                                         /\ SetTaskStatus(call[c].task, status)
      \/ /\ UNCHANGED attempts
         /\ \E t \in Tasks : ~Exists(t) /\ \E x : task' = [task EXCEPT ![t] = x]
  <2>1. ASSUME NEW c \in Slots, NEW t \in Tasks, UserRequest(c, t) \/ DaemonEvent(c, t)
        PROVE  /\ UNCHANGED attempts
               /\ \/ UNCHANGED task
                  \/ ~Exists(t) /\ \E x : task' = [task EXCEPT ![t] = x]
    <3>1. CASE \E s \in Servers, type \in SubmittedTypes : Submit(c, t, s, type)
      BY <3>1 DEF Submit
    <3>2. CASE Cancel(c, t) \/ \E approve \in BOOLEAN : Decide(c, t, approve)
      BY <3>2 DEF Cancel, Decide, db
    <3>3. CASE DaemonEvent(c, t)
      BY <3>3 DEF DaemonEvent, OnStatus, OnLog, OnResult, OnCapacityResult, OnApprovalRequest, db
    <3> QED
      BY <2>1, <3>1, <3>2, <3>3 DEF UserRequest
  <2>2. ASSUME NEW c \in Slots, Continue(c)
        PROVE  \/ TouchAttempt(c) \/ FinishAttempt(c) \/ FinishCapacity(c)
               \/ UNCHANGED attempts /\ UNCHANGED task
               \/ /\ UNCHANGED attempts
                  /\ call[c].pc # "idle" /\ \E status : SetTaskStatus(call[c].task, status)
    BY <2>2 DEF Continue, Enqueue, SendCancel, WriteStatus, WriteLogs, Failover, Requeue,
           DecideApproval, DecideTask, SendDecision, db
  <2> QED
    BY <2>1, <2>2
<1> QED
  BY <1>1, <1>2, <1>3, <1>4, <1>5

\* So do the watchdog and the clock.
LEMMA WatchKeepsFirst ==
    ASSUME IInv, NEW u \in Tasks, WatchdogStep \/ \E t \in Tasks : TimePasses(t)
    PROVE  FirstKept(u)
<1>0. attempts \in [Tasks -> Seq(AttemptRow)] /\ task \in [Tasks -> {NoTask} \cup TaskRow]
  BY DEF IInv, TypeOK
<1>1. CASE Scan \/ CountTimeouts \/ RequeueStuck
  <2>1. UNCHANGED <<task, attempts>>
    BY <1>1 DEF Scan, CountTimeouts, RequeueStuck, db
  <2> QED
    BY <2>1 DEF FirstKept
<1>2. CASE Settle
  <2>1. PICK status : SetTaskStatus(dog.at.task, status) /\ UNCHANGED attempts
    BY <1>2 DEF Settle
  <2>2. PICK t \in Tasks : t = dog.at.task /\ Exists(t)
    BY <1>2, OnWatch DEF Settle
  <2>3. task'[u].server = task[u].server
    BY <2>1, <2>2, StatusKeepsServer
  <2> QED
    BY <2>1, <2>3 DEF FirstKept
<1>3. CASE TimeOut
  <2>0. PICK t \in Tasks : t = dog.at.task
    BY <1>3, OnWatch DEF TimeOut
  <2>a. PICK n \in 1 .. Len(attempts[t]) : n = dog.at.row
    BY <1>3, <2>0, OnWatch DEF TimeOut
  <2>1. t = dog.at.task /\ n = dog.at.row
    BY <2>0, <2>a
  <2>2. PICK old \in AttemptRow : old = attempts[t][n]
    BY <1>0, <2>1
  <2> DEFINE row == [old EXCEPT !.status = "TIMED_OUT", !.capacity = FALSE]
  <2>3. row \in AttemptRow /\ row.server = old.server
    BY DEF AttemptRow, AttemptStatuses
  <2>4. SetAttempt(t, n, row) /\ UNCHANGED task
    BY <1>3, <2>1, <2>2 DEF TimeOut
  <2> HIDE DEF row
  <2>5. /\ attempts' \in [Tasks -> Seq(AttemptRow)]
        /\ Len(attempts'[u]) = Len(attempts[u])
        /\ \A i \in 1 .. Len(attempts[u]) :
              attempts'[u][i] = IF u = t /\ i = n THEN row ELSE attempts[u][i]
    BY <1>0, <2>1, <2>3, <2>4, RewriteRow
  <2> QED
    BY <2>2, <2>3, <2>4, <2>5, RowsKeepFirst
<1>4. ASSUME NEW t \in Tasks, TimePasses(t)
      PROVE  FirstKept(u)
  <2>1. PICK a \in Seq(AttemptRow) : a = attempts[t]
    BY <1>0
  <2> DEFINE b == [i \in DOMAIN a |-> [a[i] EXCEPT !.fresh = FALSE]]
  <2>2. attempts' = [attempts EXCEPT ![t] = b] /\ task' = [task EXCEPT ![t].fresh = FALSE] /\ Exists(t)
    BY <1>4, <2>1 DEF TimePasses
  <2>3. /\ b \in Seq(AttemptRow) /\ Len(b) = Len(a)
        /\ \A i \in 1 .. Len(a) : b[i].server = a[i].server
    <3>1. DOMAIN a = 1 .. Len(a) /\ Len(a) \in Nat
      OBVIOUS
    <3>2. ASSUME NEW i \in 1 .. Len(a)
          PROVE  /\ [a[i] EXCEPT !.fresh = FALSE] \in AttemptRow
                 /\ [a[i] EXCEPT !.fresh = FALSE].server = a[i].server
      <4>1. a[i] \in AttemptRow
        BY <3>1
      <4> QED
        BY <4>1 DEF AttemptRow
    <3> DEFINE aged(i) == [a[i] EXCEPT !.fresh = FALSE]
    <3>3. b = [i \in 1 .. Len(a) |-> aged(i)] /\ \A i \in 1 .. Len(a) : aged(i) \in AttemptRow
      BY <3>1, <3>2
    <3> HIDE DEF aged, b
    <3>4. b \in Seq(AttemptRow) /\ Len(b) = Len(a) /\ \A i \in 1 .. Len(a) : b[i] = aged(i)
      BY <3>1, <3>3, IsASeq
    <3> QED
      BY <3>2, <3>4 DEF aged
  <2> HIDE DEF b
  <2>4. Exists(u) => task'[u].server = task[u].server
    <3>1. task[t] \in TaskRow
      BY <1>0, <2>2 DEF Exists
    <3>2. [task[t] EXCEPT !.fresh = FALSE].server = task[t].server
      BY <3>1 DEF TaskRow
    <3> QED
      BY <1>0, <2>2, <3>2
  <2>5. /\ attempts' \in [Tasks -> Seq(AttemptRow)]
        /\ Len(attempts'[u]) = Len(attempts[u])
        /\ \A i \in 1 .. Len(attempts[u]) : attempts'[u][i].server = attempts[u][i].server
    <3>1. u = t => attempts'[u] = b /\ attempts[u] = a
      BY <1>0, <2>1, <2>2
    <3>2. u # t => attempts'[u] = attempts[u]
      BY <1>0, <2>2
    <3>3. attempts' \in [Tasks -> Seq(AttemptRow)]
      BY <1>0, <2>2, <2>3
    <3> QED
      BY <2>3, <3>1, <3>2, <3>3
  <2> QED
    BY <2>4, <2>5, RowsKeepFirst
<1> QED
  BY <1>1, <1>2, <1>3, <1>4 DEF WatchdogStep


\* A handler's step as the slots see it, with the server it remembers.
LEMMA CallServer ==
    ASSUME IInv, NEW c \in Slots
    PROVE  /\ \A pc, t, s, n, to :
                 Begin(c, Call(pc, t, s, n, to)) => call'[c].server = s
           /\ \A pc : Goto(c, pc) /\ call[c].pc # "idle" => call'[c].server = call[c].server
<1>1. call \in [Slots -> {Idle} \cup Activation]
  BY DEF IInv, TypeOK
<1>2. ASSUME NEW pc, NEW t, NEW s, NEW n, NEW to, Begin(c, Call(pc, t, s, n, to))
      PROVE  call'[c].server = s
  BY <1>1, <1>2 DEF Begin, Call
<1>3. ASSUME NEW pc, Goto(c, pc), call[c].pc # "idle"
      PROVE  call'[c].server = call[c].server
  <2>1. PICK a \in Activation : a = call[c]
    BY <1>1, <1>3 DEF Idle
  <2>2. call'[c] = [a EXCEPT !.pc = pc]
    BY <1>1, <1>3, <2>1 DEF Goto
  <2> QED
    BY <2>1, <2>2 DEF Activation
<1> QED
  BY <1>2, <1>3

\* The handlers that decide nothing.
Undecided(c) ==
    \/ \E t \in Tasks, s \in Servers, type \in SubmittedTypes : Submit(c, t, s, type)
    \/ \E t \in Tasks : Cancel(c, t)
    \/ Enqueue(c) \/ SendCancel(c) \/ WriteStatus(c) \/ WriteLogs(c)
    \/ TouchAttempt(c) \/ FinishAttempt(c) \/ FinishCapacity(c) \/ Failover(c) \/ Requeue(c)

\* They and the events leave the decisions in flight alone.
LEMMA UndecidedCalls ==
    ASSUME IInv, NEW c \in Slots, Undecided(c) \/ \E t \in Tasks : DaemonEvent(c, t)
    PROVE  CallsKept
<1> USE DEF DecisionPcs
<1>1. CASE \E t \in Tasks, s \in Servers, type \in SubmittedTypes : Submit(c, t, s, type)
  <2>1. PICK t \in Tasks : Begin(c, Call("enqueue", t, NoServer, 0, "QUEUED"))
    BY <1>1 DEF Submit
  <2> QED
    BY <2>1, CallChange DEF CallsKept
<1>2. CASE \E t \in Tasks : Cancel(c, t)
  <2>1. PICK t \in Tasks : Begin(c, Call("sendCancel", t, task[t].server, 0, "CANCELLED"))
    BY <1>2 DEF Cancel
  <2> QED
    BY <2>1, CallChange DEF CallsKept
<1>3. CASE \E t \in Tasks : DaemonEvent(c, t)
  <2>1. PICK t \in Tasks : DaemonEvent(c, t)
    BY <1>3
  <2>2. \E pc \in {"touch", "finish", "finishCapacity", "write"} : \E s, n, to :
            Begin(c, Call(pc, t, s, n, to))
    BY <2>1 DEF DaemonEvent, OnStatus, OnLog, OnResult, OnCapacityResult, OnApprovalRequest
  <2> QED
    BY <2>2, CallChange DEF CallsKept
<1>4. CASE \/ Enqueue(c) \/ SendCancel(c) \/ WriteStatus(c) \/ WriteLogs(c)
           \/ TouchAttempt(c) \/ FinishAttempt(c) \/ FinishCapacity(c)
           \/ Failover(c) \/ Requeue(c)
  <2>1. /\ call[c].pc \notin DecisionPcs /\ call[c].pc # "idle"
        /\ Return(c) \/ \E pc \in {"write", "failover", "requeue", "enqueue"} : Goto(c, pc)
    BY <1>4 DEF Enqueue, SendCancel, WriteStatus, WriteLogs, TouchAttempt, FinishAttempt,
                FinishCapacity, Failover, Requeue
  <2> QED
    BY <2>1, CallChange DEF CallsKept
<1> QED
  BY <1>1, <1>2, <1>3, <1>4 DEF Undecided

\* A step of the Hub between two daemons that do nothing.
LEMMA HubFrame ==
    ASSUME SystemInv, DecisionInv, CallsKept,
           UNCHANGED <<link, room, serverStatus, wire, proc, runner>>, Calm' => Calm,
           \A t \in Tasks :
              /\ FirstKept(t)
              /\ approval[t] # "NONE" => approval'[t] # "NONE"
              /\ approval'[t] # "NONE" => Begun(t)
              /\ approval'[t] = "REJECTED" => approval[t] = "REJECTED",
           \A s \in Servers, t \in Tasks : Asks(s, t)' => Begun(t)
    PROVE  DecisionInv'
<1>1. \A s \in Servers, t \in Tasks :
        /\ Runs(s, t)' => Runs(s, t)
        /\ Lives(s, t)' => Lives(s, t)
        /\ Submits(s, t)' \subseteq Submits(s, t)
        /\ Rejections(s, t) \subseteq Rejections(s, t)'
  BY DEF Runs, Lives, Submits, Rejections
<1>2. \A t \in Tasks : DecisionsKept(t) /\ \A c \in Slots : Rejecting(c, t) => Rejecting(c, t)'
  BY CallsFrame
<1> QED
  BY <1>1, <1>2, DecisionFrame

\* One more event on the wire.
LEMMA Emitted ==
    ASSUME IInv, NEW s \in Servers, NEW m \in Message,
           wire' = [wire EXCEPT ![s] = Append(@, m)]
    PROVE  \A r \in Servers, t \in Tasks :
              /\ Submits(r, t) \subseteq Submits(r, t)'
              /\ Rejections(r, t) \subseteq Rejections(r, t)'
              /\ \A i \in Submits(r, t)' \ Submits(r, t) :
                    /\ r = s /\ i = Len(wire[s]) + 1
                    /\ m.event = "task:submit" /\ m.task = t
<1>0. wire \in [Servers -> Seq(Message)]
  BY DEF IInv, TypeOK
<1>1. ASSUME NEW r \in Servers, NEW t \in Tasks
      PROVE  /\ Submits(r, t) \subseteq Submits(r, t)'
             /\ Rejections(r, t) \subseteq Rejections(r, t)'
             /\ \A i \in Submits(r, t)' \ Submits(r, t) :
                   /\ r = s /\ i = Len(wire[s]) + 1
                   /\ m.event = "task:submit" /\ m.task = t
  <2>1. CASE r # s
    BY <1>0, <2>1 DEF Submits, Rejections
  <2>2. CASE r = s
    <3>1. PICK w \in Seq(Message) : w = wire[s]
      BY <1>0
    <3>2. wire[r] = w /\ wire'[r] = Append(w, m)
      BY <1>0, <2>2, <3>1
    <3>3. /\ DOMAIN w = 1 .. Len(w) /\ Len(w) \in Nat
          /\ DOMAIN Append(w, m) = 1 .. Len(w) + 1
          /\ \A i \in 1 .. Len(w) : Append(w, m)[i] = w[i]
          /\ Append(w, m)[Len(w) + 1] = m
      OBVIOUS
    <3>4. PICK v : v = wire'[r]
      OBVIOUS
    <3>5. /\ DOMAIN v = 1 .. Len(w) + 1
          /\ \A i \in 1 .. Len(w) : v[i] = w[i]
          /\ v[Len(w) + 1] = m
      BY <3>2, <3>3, <3>4
    <3>6. PICK n \in Nat : n = Len(w)
      OBVIOUS
    <3>7. \A i \in 1 .. n + 1 : i \in 1 .. n \/ i = n + 1
      OBVIOUS
    <3>8. 1 .. n \subseteq 1 .. n + 1 /\ n + 1 \in 1 .. n + 1 /\ DOMAIN w = 1 .. n
      BY <3>3, <3>6
    <3> QED
      BY <2>2, <3>1, <3>2, <3>4, <3>5, <3>6, <3>7, <3>8 DEF Submits, Rejections
  <2> QED
    BY <2>1, <2>2
<1> QED
  BY <1>1

\* In particular a rejection.
LEMMA EmittedRejection ==
    ASSUME IInv, NEW s \in Servers, NEW t \in Tasks, NEW m \in Message,
           m = [event |-> "approval:decision", task |-> t, approved |-> FALSE],
           wire' = [wire EXCEPT ![s] = Append(@, m)]
    PROVE  Rejections(s, t)' # {}
<1>1. PICK w \in Seq(Message) : w = wire[s]
  BY DEF IInv, TypeOK
<1>2. wire'[s] = Append(w, m)
  BY <1>1 DEF IInv, TypeOK
<1>3. Len(w) + 1 \in DOMAIN Append(w, m) /\ Append(w, m)[Len(w) + 1] = m
  OBVIOUS
<1>4. Len(w) + 1 \in DOMAIN wire'[s] /\ wire'[s][Len(w) + 1] = m
  BY <1>2, <1>3
<1> QED
  BY <1>4 DEF Rejections

\* A daemon that does nothing keeps its child and what it has to say.
LEMMA SilentDaemons ==
    ASSUME UNCHANGED own, NEW s \in Servers, NEW t \in Tasks
    PROVE  /\ Runs(s, t)' <=> Runs(s, t)
           /\ Lives(s, t)' <=> Lives(s, t)
           /\ Asks(s, t)' => Begun(t)
BY DEF own, Runs, Lives, Asks, Begun

\* What has an approval has begun.
LEMMA ApprovalBegins ==
    ASSUME NEW t \in Tasks
    PROVE  approval[t] # "NONE" => Begun(t)
BY DEF Begun

\* The requests and the handlers that decide nothing.
LEMMA UndecidedKeeps ==
    ASSUME SystemInv, DecisionInv, NEW c \in Slots, Undecided(c), UNCHANGED own
    PROVE  DecisionInv'
<1>0. IInv /\ CallsKept
  BY UndecidedCalls DEF SystemInv
<1>1. \A t \in Tasks : FirstKept(t)
  <2>1. (\E t \in Tasks : UserRequest(c, t)) \/ Continue(c)
    BY DEF Undecided, UserRequest, Continue
  <2> QED
    BY <1>0, <2>1, HandlerKeepsFirst
<1>2. /\ UNCHANGED <<approval, room, serverStatus, proc>> /\ UNCHANGED <<link, runner>>
      /\ Calm' => Calm
  <2>1. UNCHANGED <<approval, room, serverStatus, proc, flips, crashes>>
    BY DEF Undecided, Submit, Cancel, Enqueue, SendCancel, WriteStatus, WriteLogs, TouchAttempt,
           FinishAttempt, FinishCapacity, Failover, Requeue, db, net, counters
  <2> QED
    BY <2>1 DEF own, Calm
<1>3. \A t \in Tasks :
        /\ FirstKept(t)
        /\ approval[t] # "NONE" => approval'[t] # "NONE"
        /\ approval'[t] # "NONE" => Begun(t)
        /\ approval'[t] = "REJECTED" => approval[t] = "REJECTED"
  BY <1>1, <1>2, ApprovalBegins
<1>4. CASE UNCHANGED wire
  BY <1>0, <1>2, <1>3, <1>4, SilentDaemons, HubFrame
<1>5. CASE SendCancel(c) /\ room[call[c].server]
  <2>1. call[c].task \in Tasks /\ call[c].server \in Servers
    BY <1>0, <1>5, InFlight DEF SendCancel, HoldsServer, Owned
  <2>2. PICK m \in Message :
           m.event = "task:cancel" /\ wire' = [wire EXCEPT ![call[c].server] = Append(@, m)]
    <3>1. [event |-> "task:cancel", task |-> call[c].task, approved |-> FALSE] \in Message
      BY <2>1 DEF Message
    <3> QED
      BY <1>5, <3>1 DEF SendCancel, Emit
  <2>3. \A s \in Servers, t \in Tasks :
          /\ Submits(s, t)' \subseteq Submits(s, t)
          /\ Rejections(s, t) \subseteq Rejections(s, t)'
    BY <1>0, <2>1, <2>2, Emitted
  <2>4. \A t \in Tasks :
          DecisionsKept(t) /\ \A d \in Slots : Rejecting(d, t) => Rejecting(d, t)'
    BY <1>0, CallsFrame
  <2> QED
    BY <1>2, <1>3, <2>3, <2>4, SilentDaemons, DecisionFrame
<1>6. UNCHANGED wire \/ (SendCancel(c) /\ room[call[c].server])
  BY DEF Undecided, Submit, Cancel, Enqueue, SendCancel, WriteStatus, WriteLogs, TouchAttempt,
         FinishAttempt, FinishCapacity, Failover, Requeue, net
<1> QED
  BY <1>4, <1>5, <1>6

\* A handler starts to decide: it reads the server of the task.
LEMMA DecideKeeps ==
    ASSUME SystemInv, DecisionInv, NEW c \in Slots, NEW u \in Tasks, NEW approve \in BOOLEAN,
           Decide(c, u, approve), UNCHANGED own
    PROVE  DecisionInv'
<1>0. IInv
  BY DEF SystemInv
<1>1. \A t \in Tasks : FirstKept(t)
  BY <1>0, HandlerKeepsFirst DEF UserRequest
<1>2. /\ UNCHANGED <<approval, room, serverStatus, proc, wire>> /\ UNCHANGED <<link, runner>>
      /\ Calm' => Calm
  BY DEF Decide, db, net, own, Calm
<1>3. \A t \in Tasks :
        /\ FirstKept(t)
        /\ approval[t] # "NONE" => approval'[t] # "NONE"
        /\ approval'[t] # "NONE" => Begun(t)
        /\ approval'[t] = "REJECTED" => approval[t] = "REJECTED"
  BY <1>1, <1>2, ApprovalBegins
<1>4. PICK to : Begin(c, Call("decide", u, task[u].server, 0, to))
  BY DEF Decide
<1>5. /\ call[c].pc = "idle" /\ call'[c].pc = "decide" /\ call'[c].task = u
      /\ call'[c].server = task[u].server
      /\ \A d \in Slots \ {c} : call'[d] = call[d]
  BY <1>0, <1>4, CallChange, CallServer
<1>6. Exists(u) /\ approval'[u] # "NONE"
  BY <1>0, <1>2 DEF Decide, IInv, ApprovalsOK
<1>7. \A t \in Tasks :
        DecisionsKept(t) /\ \A d \in Slots : Rejecting(d, t) => Rejecting(d, t)'
  BY <1>5, <1>6 DEF DecisionsKept, Deciding, Rejecting, Approved
<1>8. \A s \in Servers, t \in Tasks :
        /\ Submits(s, t)' \subseteq Submits(s, t)
        /\ Rejections(s, t) \subseteq Rejections(s, t)'
  BY <1>2 DEF Submits, Rejections
<1> QED
  BY <1>2, <1>3, <1>7, <1>8, SilentDaemons, DecisionFrame

\* The task is given the status of the decision.
LEMMA DecideTaskKeeps ==
    ASSUME SystemInv, DecisionInv, NEW c \in Slots, DecideTask(c), UNCHANGED own
    PROVE  DecisionInv'
<1>0. IInv
  BY DEF SystemInv
<1>1. \A t \in Tasks : FirstKept(t)
  BY <1>0, HandlerKeepsFirst DEF Continue
<1>2. /\ UNCHANGED <<approval, room, serverStatus, proc, wire>> /\ UNCHANGED <<link, runner>>
      /\ Calm' => Calm
  BY DEF DecideTask, net, counters, own, Calm
<1>3. \A t \in Tasks :
        /\ FirstKept(t)
        /\ approval[t] # "NONE" => approval'[t] # "NONE"
        /\ approval'[t] # "NONE" => Begun(t)
        /\ approval'[t] = "REJECTED" => approval[t] = "REJECTED"
  BY <1>1, <1>2, ApprovalBegins
<1>4. /\ call[c].pc = "decideTask" /\ call'[c].pc = "sendDecision"
      /\ call'[c].task = call[c].task /\ call'[c].server = call[c].server
      /\ call'[c].to = call[c].to
      /\ \A d \in Slots \ {c} : call'[d] = call[d]
  BY <1>0, CallChange, CallServer DEF DecideTask
<1>5. \A t \in Tasks :
        DecisionsKept(t) /\ \A d \in Slots : Rejecting(d, t) => Rejecting(d, t)'
  BY <1>4 DEF DecisionsKept, Deciding, Rejecting, Approved
<1>6. \A s \in Servers, t \in Tasks :
        /\ Submits(s, t)' \subseteq Submits(s, t)
        /\ Rejections(s, t) \subseteq Rejections(s, t)'
  BY <1>2 DEF Submits, Rejections
<1> QED
  BY <1>2, <1>3, <1>5, <1>6, SilentDaemons, DecisionFrame

\* The approval is decided: who writes REJECTED has still to send it.
LEMMA DecideApprovalKeeps ==
    ASSUME SystemInv, DecisionInv, NEW c \in Slots, DecideApproval(c), UNCHANGED own
    PROVE  DecisionInv'
<1>0. IInv /\ approval \in [Tasks -> {"NONE", "PENDING", "APPROVED", "REJECTED"}]
  BY Tables DEF SystemInv
<1>1. \A t \in Tasks : FirstKept(t)
  BY <1>0, HandlerKeepsFirst DEF Continue
<1>2. /\ UNCHANGED <<room, serverStatus, wire>> /\ UNCHANGED <<link, runner>> /\ UNCHANGED proc
      /\ Calm' => Calm
  BY DEF DecideApproval, net, counters, own, Calm
<1>3. PICK u \in Tasks : u = call[c].task
  BY <1>0, InFlight DEF DecideApproval
<1>4. /\ call[c].pc = "decide" /\ call'[c].pc = "decideTask"
      /\ call'[c].task = u /\ call'[c].server = call[c].server
      /\ call'[c].to = call[c].to
      /\ \A d \in Slots \ {c} : call'[d] = call[d]
  BY <1>0, <1>3, CallChange, CallServer DEF DecideApproval
<1>5. /\ \A t \in Tasks : t # u => approval'[t] = approval[t]
      /\ approval'[u] # "NONE" /\ (approval'[u] = "REJECTED" => ~Approved(c))
  BY <1>0, <1>3 DEF DecideApproval
<1>6. ASSUME NEW t \in Tasks, TaskKnown(t)
      PROVE  TaskKnown(t)'
  <2>1. ServerKnown(t) /\ SentOnce(t) /\ Obeyed(t) /\ FirstKept(t)
    BY <1>1, <1>6 DEF TaskKnown
  <2>2. JobKept(t) /\ (AboutToSend(t)' => AboutToSend(t))
    BY <1>0, <1>2, <2>1, SameJob
  <2>3. DecisionsKept(t) /\ \A d \in Slots : Rejecting(d, t) => Rejecting(d, t)'
    BY <1>3, <1>4 DEF DecisionsKept, Deciding, Rejecting, Approved
  <2>4. approval'[t] # "NONE" => Begun(t)
    <3>1. CASE t = u
      BY <1>3, <1>4, <2>1, <3>1, ApprovalBegins DEF ServerKnown, Deciding
    <3> QED
      BY <1>5, <3>1, ApprovalBegins
  <2>5. ServerKnown(t)'
    BY <1>0, <1>5, <2>1, <2>2, <2>3, ServerFrame
  <2>6. \A s \in Servers : Submits(s, t)' = Submits(s, t) /\ Rejections(s, t)' = Rejections(s, t)
    BY <1>2 DEF Submits, Rejections
  <2>7. SentOnce(t)'
    <3>1. \A s \in Servers :
            \E k \in Nat : \A i \in Submits(s, t)' : i \in Nat /\ i + k \in Submits(s, t)
      BY <1>0, <2>6, MessageNumbers
    <3> QED
      BY <2>1, <2>2, <2>4, <3>1, SilentDaemons, SentFrame
  <2>8. Obeyed(t)'
    <3>1. \/ approval'[t] = "REJECTED" => approval[t] = "REJECTED"
          \/ \E d \in Slots : Rejecting(d, t)'
      <4>1. CASE t = u /\ ~Approved(c)
        <5>1. Rejecting(c, t)'
          BY <1>4, <4>1 DEF Rejecting, Approved
        <5> QED
          BY <5>1
      <4> QED
        BY <1>5, <4>1
    <3> QED
      BY <2>1, <2>3, <2>6, <3>1, SilentDaemons, ObeyFrame
  <2> QED
    BY <2>5, <2>7, <2>8 DEF TaskKnown
<1>7. \A t \in Tasks : Len(attempts'[t]) <= 1 => Len(attempts[t]) <= 1
  BY <1>1 DEF FirstKept
<1> QED
  BY <1>2, <1>6, <1>7, CalmFrame

\* The decision is sent to the server on which the child runs.
LEMMA SendDecisionKeeps ==
    ASSUME SystemInv, DecisionInv, NEW c \in Slots, SendDecision(c), UNCHANGED own
    PROVE  DecisionInv'
<1>0. IInv
  BY DEF SystemInv
<1>1. \A t \in Tasks : FirstKept(t)
  BY <1>0, HandlerKeepsFirst DEF Continue
<1>2. /\ UNCHANGED <<approval, room, serverStatus>> /\ UNCHANGED <<link, runner>> /\ UNCHANGED proc
      /\ Calm' => Calm
  BY DEF SendDecision, db, counters, own, Calm
<1>3. PICK u \in Tasks : u = call[c].task
  BY <1>0, InFlight DEF SendDecision
<1>a. PICK r \in Servers : r = call[c].server
  BY <1>0, InFlight DEF SendDecision, HoldsServer, Owned
<1>4. /\ call[c].pc = "sendDecision" /\ call'[c].pc = "idle"
      /\ \A d \in Slots \ {c} : call'[d] = call[d]
  BY <1>0, CallChange DEF SendDecision
<1>5. ASSUME Calm, NEW t \in Tasks, TaskKnown(t)
      PROVE  TaskKnown(t)'
  <2>1. ServerKnown(t) /\ SentOnce(t) /\ Obeyed(t) /\ FirstKept(t)
    BY <1>1, <1>5 DEF TaskKnown
  <2>2. JobKept(t) /\ (AboutToSend(t)' => AboutToSend(t))
    BY <1>0, <1>2, <2>1, SameJob
  <2>3. DecisionsKept(t) /\ \A d \in Slots \ {c} : Rejecting(d, t) => Rejecting(d, t)'
    BY <1>4 DEF DecisionsKept, Deciding, Rejecting, Approved
  <2>4. PICK b \in BOOLEAN : b = Approved(c)
    BY DEF Approved
  <2>5. room[r]
    BY <1>5 DEF DecisionInv
  <2> DEFINE m == [event |-> "approval:decision", task |-> u, approved |-> b]
  <2>6. m \in Message /\ m.event # "task:submit" /\ wire' = [wire EXCEPT ![r] = Append(@, m)]
    BY <1>3, <1>a, <2>4, <2>5 DEF SendDecision, Emit, Message
  <2>7. \A s \in Servers :
          /\ Submits(s, t)' \subseteq Submits(s, t)
          /\ Rejections(s, t) \subseteq Rejections(s, t)'
    <3> HIDE DEF m
    <3> QED
      BY <1>0, <2>6, Emitted
  <2>8. ServerKnown(t)'
    BY <1>0, <1>2, <2>1, <2>2, <2>3, ServerFrame
  <2>9. SentOnce(t)'
    <3>1. \A s \in Servers :
            \E k \in Nat : \A i \in Submits(s, t)' : i \in Nat /\ i + k \in Submits(s, t)
      BY <1>0, <2>7, MessageNumbers
    <3> QED
      BY <1>2, <2>1, <2>2, <3>1, ApprovalBegins, SilentDaemons, SentFrame
  <2>10. Rejecting(c, t) => \A s \in Servers : Lives(s, t) => Rejections(s, t)' # {}
    <3> SUFFICES ASSUME Rejecting(c, t), NEW s \in Servers, Lives(s, t)
                 PROVE  Rejections(s, t)' # {}
      OBVIOUS
    <3>1. t = u /\ ~b
      BY <1>3, <2>4 DEF Rejecting
    <3>2. s = r
      BY <1>3, <1>4, <1>a, <2>1, <3>1 DEF Lives, SentOnce, ServerKnown, Deciding
    <3>3. m = [event |-> "approval:decision", task |-> t, approved |-> FALSE]
      BY <3>1
    <3> HIDE DEF m
    <3>4. PICK n \in Message :
             /\ n = [event |-> "approval:decision", task |-> t, approved |-> FALSE]
             /\ wire' = [wire EXCEPT ![s] = Append(@, n)]
      BY <2>6, <3>2, <3>3
    <3> QED
      BY <1>0, <3>4, EmittedRejection
  <2>11. Obeyed(t)'
    <3>1. \A s \in Servers :
            /\ Lives(s, t)' => Lives(s, t)
            /\ Rejections(s, t) # {} => Rejections(s, t)' # {} \/ ~Lives(s, t)'
      BY <2>7, SilentDaemons
    <3>2. \A d \in Slots : Rejecting(d, t) =>
              \/ Rejecting(d, t)'
              \/ \A s \in Servers : Lives(s, t) => Rejections(s, t)' # {}
      BY <2>3, <2>10
    <3> QED
      BY <1>2, <2>1, <3>1, <3>2, ObeyFrame
  <2> QED
    BY <2>8, <2>9, <2>11 DEF TaskKnown
<1>6. \A t \in Tasks : Len(attempts'[t]) <= 1 => Len(attempts[t]) <= 1
  BY <1>1 DEF FirstKept
<1> QED
  BY <1>2, <1>5, <1>6, CalmFrame

\* All the requests and handlers.
LEMMA HandlersKeep ==
    ASSUME SystemInv, DecisionInv, UNCHANGED own,
           \/ \E c \in Slots, t \in Tasks : UserRequest(c, t)
           \/ \E c \in Slots : Continue(c)
    PROVE  DecisionInv'
BY UndecidedKeeps, DecideKeeps, DecideTaskKeeps, DecideApprovalKeeps, SendDecisionKeeps
   DEF UserRequest, Continue, Undecided

\* An event of a daemon: an approval is only asked for by a child that has run.
LEMMA ReceiveKeeps ==
    ASSUME SystemInv, DecisionInv, NEW c \in Slots, NEW s \in Servers, Receive(c, s)
    PROVE  DecisionInv'
<1>0. IInv /\ outbox \in [Servers -> Seq(Daemon!Event)]
  BY DEF SystemInv, Daemon!DaemonInv, Daemon!DaemonTypeOK
<1>1. PICK q \in Seq(Daemon!Event) : q = outbox[s] /\ q # <<>>
  BY <1>0 DEF Receive
<1>2. PICK e \in Daemon!Event : e = Head(outbox[s])
  BY <1>1, HeadTailProperties
<1>3. PICK u \in Tasks : u = e.task
  BY DEF Daemon!Event
<1>4. outbox' = [outbox EXCEPT ![s] = Tail(q)] /\ UNCHANGED <<link, wire, runner>> /\ UNCHANGED losses
  BY <1>1 DEF Receive, Daemon!HubTakes
<1>5. ASSUME NEW r \in Servers, NEW t \in Tasks, Asks(r, t)'
      PROVE  Begun(t)
  <2>1. Asks(r, t)
    <3>1. CASE r # s
      BY <1>0, <1>4, <1>5, <3>1 DEF Asks
    <3>2. CASE r = s
      <4>1. outbox'[r] = Tail(q) /\ outbox[r] = q
        BY <1>0, <1>1, <1>4, <3>2
      <4>2. PICK i \in DOMAIN Tail(q) : Tail(q)[i].event = "APPROVAL" /\ Tail(q)[i].task = t
        BY <1>5, <4>1 DEF Asks
      <4>3. i + 1 \in DOMAIN q /\ q[i + 1] = Tail(q)[i]
        BY <1>1
      <4> QED
        BY <4>1, <4>2, <4>3 DEF Asks
    <3> QED
      BY <3>1, <3>2
  <2> QED
    BY <2>1 DEF Begun
<1>6. e.event = "APPROVAL" => Begun(u)
  <2>1. 1 \in DOMAIN q /\ q[1] = e
    BY <1>1, <1>2
  <2> QED
    BY <1>1, <1>3, <2>1 DEF Begun, Asks
<1>7. CASE DaemonEvent(c, u) /\ (approval' = approval \/ (OnApprovalRequest(c, u) /\ e.event = "APPROVAL"))
  <2>1. CallsKept
    BY <1>0, <1>7, UndecidedCalls
  <2>2. \A t \in Tasks : FirstKept(t)
    BY <1>0, <1>7, HandlerKeepsFirst
  <2>3. UNCHANGED <<room, serverStatus, proc>> /\ (Calm' => Calm)
    BY <1>4, <1>7 DEF DaemonEvent, OnStatus, OnLog, OnResult, OnCapacityResult, OnApprovalRequest,
                      net, Calm
  <2>4. \A t \in Tasks :
          /\ approval[t] # "NONE" => approval'[t] # "NONE"
          /\ approval'[t] # "NONE" => Begun(t)
          /\ approval'[t] = "REJECTED" => approval[t] = "REJECTED"
    <3>1. CASE approval' = approval
      BY <3>1, ApprovalBegins
    <3>2. CASE OnApprovalRequest(c, u) /\ e.event = "APPROVAL"
      BY <1>0, <1>6, <3>2, ApprovalBegins, Tables DEF OnApprovalRequest
    <3> QED
      BY <1>7, <3>1, <3>2
  <2> QED
    BY <1>4, <1>5, <2>1, <2>2, <2>3, <2>4, HubFrame
<1>8. CASE UNCHANGED hubOwn
  <2>1. CallsKept /\ \A t \in Tasks : FirstKept(t)
    BY <1>8 DEF hubOwn, db, CallsKept, FirstKept
  <2>2. UNCHANGED <<room, serverStatus, proc, approval>> /\ (Calm' => Calm)
    BY <1>4, <1>8 DEF hubOwn, db, counters, Calm
  <2> QED
    BY <1>4, <1>5, <2>1, <2>2, ApprovalBegins, HubFrame
<1>9. \/ DaemonEvent(c, u) /\ (approval' = approval \/ (OnApprovalRequest(c, u) /\ e.event = "APPROVAL"))
      \/ UNCHANGED hubOwn
  <2>1. CASE e.event = "RUNNING" /\ OnStatus(c, u, "RUNNING")
    BY <2>1, DaemonsReport DEF DaemonEvent, OnStatus, db
  <2>2. CASE e.event = "LOG" /\ OnLog(c, u)
    BY <2>2 DEF DaemonEvent, OnLog, OnStatus, db
  <2>3. CASE e.event \in {"COMPLETED", "FAILED"} /\ OnResult(c, u, e.event)
    BY <2>3 DEF DaemonEvent, OnResult, db
  <2>4. CASE e.event = "CAPACITY_EXHAUSTED" /\ OnCapacityResult(c, u)
    BY <2>4 DEF DaemonEvent, OnCapacityResult, db
  <2>5. CASE e.event = "APPROVAL" /\ OnApprovalRequest(c, u)
    BY <2>5 DEF DaemonEvent
  <2> QED
    BY <1>2, <1>3, <2>1, <2>2, <2>3, <2>4, <2>5 DEF Receive
<1> QED
  BY <1>7, <1>8, <1>9

-----------------------------------------------------------------------------
(* RejectionKills: the dispatch job.                                       *)

\* A step of the dispatch job that leaves task t where it is.
LEMMA JobFrame ==
    ASSUME SystemInv, UNCHANGED own, UNCHANGED <<call, approval>>,
           NEW t \in Tasks, TaskKnown(t), FirstKept(t), JobKept(t),
           AboutToSend(t)' => AboutToSend(t),
           \A s \in Servers : /\ Submits(s, t)' \subseteq Submits(s, t)
                              /\ Rejections(s, t) \subseteq Rejections(s, t)'
    PROVE  TaskKnown(t)'
<1>1. DecisionsKept(t) /\ \A c \in Slots : Rejecting(c, t) => Rejecting(c, t)'
  BY DEF DecisionsKept, Deciding, Rejecting, Approved
<1>2. \A s \in Servers :
        /\ \E k \in Nat : \A i \in Submits(s, t)' : i \in Nat /\ i + k \in Submits(s, t)
        /\ Rejections(s, t) # {} => Rejections(s, t)' # {}
  <2>1. IInv
    BY DEF SystemInv
  <2> QED
    BY <2>1, MessageNumbers
<1>3. /\ approval[t] # "NONE" => approval'[t] # "NONE"
      /\ approval'[t] # "NONE" => Begun(t)
      /\ approval'[t] = "REJECTED" => approval[t] = "REJECTED"
  BY ApprovalBegins
<1> QED
  BY <1>1, <1>2, <1>3, SilentDaemons, TaskFrame

\* The steps that send nothing.
LEMMA DispatchFrame ==
    ASSUME SystemInv, DecisionInv, UNCHANGED own,
           UNCHANGED <<call, approval, wire, room, serverStatus>>, UNCHANGED counters,
           ASSUME Calm, NEW t \in Tasks, TaskKnown(t)
           PROVE  JobKept(t) /\ (AboutToSend(t)' => AboutToSend(t)),
           ASSUME Calm, NEW t \in Tasks, Len(attempts[t]) <= 1, TaskKnown(t)
           PROVE  FirstKept(t),
           \A t \in Tasks : Len(attempts'[t]) <= 1 => Len(attempts[t]) <= 1
    PROVE  DecisionInv'
<1>1. UNCHANGED <<link, room, serverStatus>> /\ (Calm' => Calm)
  BY DEF own, counters, Calm
<1>2. \A s \in Servers, t \in Tasks :
        /\ Submits(s, t)' \subseteq Submits(s, t)
        /\ Rejections(s, t) \subseteq Rejections(s, t)'
  BY DEF Submits, Rejections
<1>3. ASSUME Calm, Calm', NEW t \in Tasks, Len(attempts'[t]) <= 1
      PROVE  Len(attempts[t]) <= 1 /\ (TaskKnown(t) => TaskKnown(t)')
  <2>1. Len(attempts[t]) <= 1
    BY <1>3
  <2>2. ASSUME TaskKnown(t) PROVE TaskKnown(t)'
    <3>1. FirstKept(t)
      BY <1>3, <2>1, <2>2
    <3>2. JobKept(t) /\ (AboutToSend(t)' => AboutToSend(t))
      BY <1>3, <2>2
    <3> QED
      BY <1>2, <2>2, <3>1, <3>2, JobFrame
  <2> QED
    BY <2>1, <2>2
<1> QED
  BY <1>1, <1>3, CalmFrame

\* A job is taken: it reads the server of the task.
LEMMA TakeJobKeeps ==
    ASSUME SystemInv, DecisionInv, UNCHANGED own, NEW j \in JobIds, TakeJob(j)
    PROVE  DecisionInv'
<1>0. IInv
  BY DEF SystemInv
<1>1. UNCHANGED <<call, approval, wire, room, serverStatus>> /\ UNCHANGED counters
  BY DEF TakeJob, db, net
<1>2. \A t \in Tasks : FirstKept(t) /\ (Len(attempts'[t]) <= 1 => Len(attempts[t]) <= 1)
  BY DEF TakeJob, db, FirstKept
<1>3. CASE UNCHANGED proc
  <2>1. ASSUME NEW t \in Tasks, TaskKnown(t)
        PROVE  JobKept(t) /\ (AboutToSend(t)' => AboutToSend(t))
    BY <1>0, <1>2, <1>3, <2>1, SameJob DEF TaskKnown
  <2> QED
    BY <1>1, <1>2, <2>1, DispatchFrame
<1>4. CASE proc' = [pc |-> "excluded", job |-> j, task |-> jobs[j].task,
                    server |-> task[jobs[j].task].server, todo |-> {}, row |-> 0]
  <2>1. jobs[j] # NoJob /\ Exists(jobs[j].task)
    BY <1>0 DEF IInv, JobsOK, TakeJob
  <2>2. /\ proc'.pc = "excluded" /\ proc'.task = jobs[j].task
        /\ proc'.server = task[jobs[j].task].server
    BY <1>4
  <2>3. \A t \in Tasks : JobKept(t) /\ ~AboutToSend(t)'
    BY <2>1, <2>2 DEF JobKept, AboutToSend
  <2> QED
    BY <1>1, <1>2, <2>3, DispatchFrame
<1> QED
  BY <1>3, <1>4 DEF TakeJob

\* A job that throws is gone.
LEMMA NoJobKept ==
    ASSUME proc' = Idle, NEW t \in Tasks
    PROVE  JobKept(t) /\ ~AboutToSend(t)'
BY DEF JobKept, AboutToSend, Idle

\* A task that was not dispatched yet has no server excluded.
LEMMA ReadExcludedKeeps ==
    ASSUME SystemInv, DecisionInv, UNCHANGED own, ReadExcluded
    PROVE  DecisionInv'
<1>0. IInv
  BY DEF SystemInv
<1>1. UNCHANGED <<call, approval, wire, room, serverStatus>> /\ UNCHANGED counters
  BY DEF ReadExcluded, db, net
<1>2. \A t \in Tasks : FirstKept(t) /\ (Len(attempts'[t]) <= 1 => Len(attempts[t]) <= 1)
  BY DEF ReadExcluded, db, FirstKept
<1>3. PICK u \in Tasks : u = proc.task
  BY <1>0, AtWork DEF ReadExcluded
<1>4. PICK s \in Servers : s = proc.server
  BY <1>0, AtWork DEF ReadExcluded
<1>5. PICK p \in Dispatching : p = proc
  BY <1>0, AtWork DEF ReadExcluded
<1>6. PICK left : left = Servers \ retryExcludedServerIds(u)
  OBVIOUS
<1>7. proc'.pc = "candidates" /\ proc'.task = u /\ proc'.server = s /\ proc'.todo = left
  BY <1>3, <1>4, <1>5, <1>6 DEF ReadExcluded, Dispatching
<1>8. ASSUME Calm, NEW t \in Tasks, TaskKnown(t)
      PROVE  JobKept(t) /\ (AboutToSend(t)' => AboutToSend(t))
  <2>1. CASE t = u
    <3>1. Exists(t) /\ s = task[t].server
      BY <1>0, <1>3, <1>4, <1>8, <2>1, AtWork DEF TaskKnown, ServerKnown, ReadExcluded
    <3>2. ASSUME attempts'[t] = <<>>
          PROVE  s \in left
      <4>1. attempts[t] = <<>>
        BY <1>2, <3>2 DEF FirstKept
      <4>2. retryExcludedServerIds(u) = {}
        BY <2>1, <4>1 DEF retryExcludedServerIds
      <4> QED
        BY <1>4, <1>6, <4>2
    <3> QED
      BY <1>7, <2>1, <3>1, <3>2 DEF JobKept, AboutToSend
  <2> QED
    BY <1>7, <2>1 DEF JobKept, AboutToSend
<1> QED
  BY <1>1, <1>2, <1>8, DispatchFrame

\* The candidates of a task that was not dispatched yet have its server among
\* them: it is ONLINE and not excluded.
LEMMA ChooseCandidatesKeeps ==
    ASSUME SystemInv, DecisionInv, UNCHANGED own, ChooseCandidates
    PROVE  DecisionInv'
<1>0. IInv
  BY DEF SystemInv
<1>1. UNCHANGED <<call, approval, wire, room, serverStatus>> /\ UNCHANGED counters
  BY DEF ChooseCandidates, db, net
<1>2. \A t \in Tasks : FirstKept(t) /\ (Len(attempts'[t]) <= 1 => Len(attempts[t]) <= 1)
  BY DEF ChooseCandidates, db, FirstKept
<1>3. CASE FailJob
  <2>1. proc' = Idle
    BY <1>3 DEF FailJob
  <2> QED
    BY <1>1, <1>2, <2>1, NoJobKept, DispatchFrame
<1> DEFINE found == getDispatchCandidates(proc.server, proc.todo)
<1>4. CASE proc' = [proc EXCEPT !.pc = "create", !.todo = found]
  <2>1. PICK u \in Tasks : u = proc.task
    BY <1>0, AtWork DEF ChooseCandidates
  <2>a. PICK s \in Servers : s = proc.server
    BY <1>0, AtWork DEF ChooseCandidates
  <2>2. PICK p \in Dispatching : p = proc
    BY <1>0, AtWork DEF ChooseCandidates
  <2>3. proc'.pc = "create" /\ proc'.task = u /\ proc'.server = s /\ proc'.todo = found
    BY <1>4, <2>1, <2>a, <2>2 DEF Dispatching
  <2>4. ASSUME Calm, NEW t \in Tasks, TaskKnown(t)
        PROVE  JobKept(t) /\ (AboutToSend(t)' => AboutToSend(t))
    <3>1. CASE t = u
      <4>1. Exists(t) /\ s = task[t].server
        BY <1>0, <2>1, <2>a, <2>4, <3>1, AtWork DEF TaskKnown, ServerKnown, ChooseCandidates
      <4>2. ASSUME attempts'[t] = <<>>
            PROVE  s \in found
        <5>1. attempts[t] = <<>>
          BY <1>2, <4>2 DEF FirstKept
        <5>2. s \in proc.todo
          BY <2>1, <2>a, <2>4, <3>1, <5>1 DEF TaskKnown, ServerKnown, ChooseCandidates
        <5>3. serverStatus[s] = "ONLINE"
          BY <2>4 DEF DecisionInv
        <5> QED
          BY <2>a, <5>2, <5>3 DEF getDispatchCandidates
      <4> HIDE DEF found
      <4> QED
        BY <2>3, <3>1, <4>1, <4>2 DEF JobKept, AboutToSend
    <3> QED
      BY <2>3, <3>1 DEF JobKept, AboutToSend
  <2> QED
    BY <1>1, <1>2, <2>4, DispatchFrame
<1> QED
  BY <1>3, <1>4 DEF ChooseCandidates

\* The first attempt of a task is on its own server.
LEMMA CreateAttemptKeeps ==
    ASSUME SystemInv, DecisionInv, UNCHANGED own, CreateAttempt
    PROVE  DecisionInv'
<1>0. IInv /\ attempts \in [Tasks -> Seq(AttemptRow)]
  BY Tables DEF SystemInv
<1>1. UNCHANGED <<call, approval, wire, room, serverStatus, task>> /\ UNCHANGED counters
  BY DEF CreateAttempt, net
<1>2. PICK u \in Tasks : u = proc.task
  BY <1>0, AtWork DEF CreateAttempt
<1>3. PICK p \in Dispatching : p = proc
  BY <1>0, AtWork DEF CreateAttempt
<1>4. PICK a \in Seq(AttemptRow) : a = attempts[u]
  BY <1>0
<1>5. PICK s \in Servers :
        /\ NextCandidate(p.todo, p.server, s)
        /\ attempts' = [attempts EXCEPT ![u] =
              Append(a, [server |-> s, status |-> "DISPATCHING", capacity |-> FALSE, fresh |-> TRUE])]
        /\ proc' = [p EXCEPT !.pc = "send", !.todo = @ \ {s}, !.row = Len(a) + 1]
  BY <1>2, <1>3, <1>4 DEF CreateAttempt
<1>6. PICK row \in AttemptRow :
         row = [server |-> s, status |-> "DISPATCHING", capacity |-> FALSE, fresh |-> TRUE]
  BY DEF AttemptRow, AttemptStatuses
<1>7. /\ attempts'[u] = Append(a, row) /\ row.server = s
      /\ \A t \in Tasks : t # u => attempts'[t] = attempts[t]
  BY <1>0, <1>5, <1>6
<1>8. proc'.pc = "send" /\ proc'.task = u /\ proc'.server = p.server
  BY <1>2, <1>3, <1>5 DEF Dispatching
<1>9. /\ Len(Append(a, row)) = Len(a) + 1 /\ Append(a, row) # <<>>
      /\ Len(a) <= 0 => a = <<>> /\ Append(a, row)[1] = row
  BY EmptySeq
<1>10. p.pc = "create"
  BY <1>3 DEF CreateAttempt
<1>11. \A s1 \in Servers, t \in Tasks :
        /\ Submits(s1, t)' = Submits(s1, t)
        /\ Rejections(s1, t)' = Rejections(s1, t)
  BY <1>1 DEF Submits, Rejections
<1>12. ASSUME Calm, Calm', NEW t \in Tasks, Len(attempts'[t]) <= 1
       PROVE  Len(attempts[t]) <= 1 /\ (TaskKnown(t) => TaskKnown(t)')
  <2>1. CASE t # u
    <3>1. FirstKept(t)
      BY <1>1, <1>7, <2>1 DEF FirstKept
    <3>2. JobKept(t) /\ ~AboutToSend(t)'
      BY <1>8, <2>1 DEF JobKept, AboutToSend
    <3>3. Len(attempts[t]) <= 1
      BY <1>7, <1>12, <2>1
    <3> QED
      BY <1>1, <1>11, <3>1, <3>2, <3>3, JobFrame
  <2>2. CASE t = u
    <3>1. Len(a) <= 0 /\ Len(attempts[t]) <= 1
      <4>1. Len(a) + 1 <= 1 /\ Len(a) \in Nat
        BY <1>7, <1>9, <1>12, <2>2
      <4> QED
        BY <1>4, <2>2, <4>1
    <3>2. attempts[t] = <<>> /\ attempts'[t] # <<>> /\ attempts'[t][1].server = s
      BY <1>4, <1>7, <1>9, <2>2, <3>1
    <3>3. ASSUME TaskKnown(t) PROVE TaskKnown(t)'
      <4>1. ServerKnown(t) /\ SentOnce(t)
        BY <3>3 DEF TaskKnown
      <4>2. p.server \in p.todo /\ p.server = task[t].server
        BY <1>2, <1>3, <1>10, <2>2, <3>2, <4>1 DEF ServerKnown, Idle
      <4>3. s = task[t].server
        BY <1>5, <4>2 DEF NextCandidate
      <4>4. ~Begun(t) /\ \A r \in Servers : Submits(r, t) = {}
        BY <3>2, <4>1 DEF SentOnce
      <4>5. ~Begun(t)'
        BY <1>1, <4>4 DEF Begun, own, Runs, Asks
      <4>6. \A r \in Servers : ~Runs(r, t)'
        BY <4>5 DEF Begun
      <4>7. SentOnce(t)'
        BY <1>11, <4>4, <4>5, <4>6 DEF SentOnce
      <4>8. Obeyed(t)'
        BY <4>6 DEF Obeyed, Lives
      <4>9. ServerKnown(t)'
        <5>1. \A c \in Slots : Deciding(c, t)' =>
                 approval'[t] # "NONE" /\ call'[c].server = task'[t].server
          BY <1>1, <4>1 DEF ServerKnown, Deciding
        <5> QED
          BY <1>1, <1>8, <3>2, <4>2, <4>3, <5>1 DEF ServerKnown
      <4> QED
        BY <4>7, <4>8, <4>9 DEF TaskKnown
    <3> QED
      BY <3>1, <3>3
  <2> QED
    BY <2>1, <2>2
<1>13. UNCHANGED <<link, room, serverStatus>> /\ (Calm' => Calm)
  BY <1>1 DEF own, counters, Calm
<1> QED
  BY <1>12, <1>13, CalmFrame

\* The only attempt of a task is the row the job works on.
LEMMA OnlyRow ==
    ASSUME IInv, proc.pc \in RowPcs, NEW t \in Tasks, t = proc.task,
           Len(attempts[t]) <= 1, ServerKnown(t)
    PROVE  attempts[t] # <<>> /\ Candidate = task[t].server
<1>1. attempts[t] \in Seq(AttemptRow) /\ proc.row \in 1 .. Len(attempts[t])
  BY AtWork, Tables DEF RowPcs
<1>2. PICK n \in Nat : n = Len(attempts[t])
  BY <1>1
<1>3. proc.row = 1 /\ n # 0
  BY <1>1, <1>2
<1>4. attempts[t] # <<>>
  BY <1>1, <1>2, <1>3, EmptySeq
<1> QED
  BY <1>3, <1>4 DEF Candidate, ServerKnown

\* The task is sent, once, to its server.
LEMMA SendTaskKeeps ==
    ASSUME SystemInv, DecisionInv, UNCHANGED own, SendTask
    PROVE  DecisionInv'
<1>0. IInv
  BY DEF SystemInv
<1>1. /\ UNCHANGED <<call, approval, room, serverStatus, task>> /\ UNCHANGED attempts
      /\ UNCHANGED counters
  BY DEF SendTask, db
<1>2. PICK u \in Tasks : u = proc.task /\ AboutToSend(u)
  BY <1>0, AtWork DEF SendTask, AboutToSend
<1>3. PICK p \in Dispatching : p = proc
  BY <1>0, AtWork DEF SendTask
<1>4. PICK r \in Servers : r = Candidate
  BY <1>0, CandidateOK DEF SendTask, RowPcs
<1>5. proc.pc = "send" /\ proc.pc \in RowPcs
  BY DEF SendTask, RowPcs
<1>6. proc'.pc \in {"setTask", "failAttempt"} /\ proc'.task = u /\ proc'.server = p.server
  BY <1>2, <1>3 DEF SendTask, Dispatching
<1>7. \A t \in Tasks : FirstKept(t)
  BY <1>1 DEF FirstKept
<1>8. \A t \in Tasks : ~AboutToSend(t)'
  BY <1>6 DEF AboutToSend
<1>9. ASSUME NEW t \in Tasks, ServerKnown(t)
      PROVE  JobKept(t)
  <2>1. t = u => Exists(t) /\ p.server = task[t].server
    BY <1>0, <1>2, <1>3, <1>5, <1>9, AtWork DEF ServerKnown
  <2> QED
    BY <1>6, <2>1 DEF JobKept
<1>10. ASSUME Calm, Calm', NEW t \in Tasks, Len(attempts'[t]) <= 1
       PROVE  Len(attempts[t]) <= 1 /\ (TaskKnown(t) => TaskKnown(t)')
  <2>1. Len(attempts[t]) <= 1
    BY <1>1, <1>10
  <2>2. room[r]
    BY <1>10 DEF DecisionInv
  <2>3. PICK m \in Message : /\ m.event = "task:submit" /\ m.task = u
                             /\ wire' = [wire EXCEPT ![r] = Append(@, m)]
    <3>1. [event |-> "task:submit", task |-> u, approved |-> FALSE] \in Message
      BY DEF Message
    <3> QED
      BY <1>2, <1>4, <2>2, <3>1 DEF SendTask, Emit
  <2>4. \A s \in Servers :
          /\ Rejections(s, t) \subseteq Rejections(s, t)'
          /\ \A i \in Submits(s, t)' \ Submits(s, t) : s = r /\ i = Len(wire[r]) + 1 /\ t = u
    BY <1>0, <2>3, Emitted
  <2>5. ASSUME TaskKnown(t) PROVE TaskKnown(t)'
    <3>1. ServerKnown(t) /\ SentOnce(t) /\ Obeyed(t) /\ JobKept(t)
      BY <1>9, <2>5 DEF TaskKnown
    <3>2. CASE t # u
      <4>1. \A s \in Servers : Submits(s, t)' \subseteq Submits(s, t)
        BY <2>4, <3>2
      <4> QED
        BY <1>1, <1>7, <1>8, <2>4, <2>5, <3>1, <4>1, JobFrame
    <3>3. CASE t = u
      <4>1. attempts[t] # <<>> /\ r = task[t].server
        BY <1>0, <1>2, <1>4, <1>5, <2>1, <3>1, <3>3, OnlyRow
      <4>2. ~Begun(t) /\ \A s \in Servers : Submits(s, t) = {}
        BY <1>2, <3>1, <3>3 DEF SentOnce
      <4>3. ~Begun(t)'
        BY <1>1, <4>2 DEF Begun, own, Runs, Asks
      <4>4. \A s \in Servers : ~Runs(s, t)'
        BY <4>3 DEF Begun
      <4>5. \A s \in Servers : \A i \in Submits(s, t)' : s = r /\ i = Len(wire[r]) + 1
        BY <2>4, <4>2
      <4>6. SentOnce(t)'
        BY <1>1, <1>8, <4>1, <4>3, <4>4, <4>5 DEF SentOnce
      <4>7. Obeyed(t)'
        BY <4>4 DEF Obeyed, Lives
      <4>8. ServerKnown(t)'
        <5>1. DecisionsKept(t)
          BY <1>1 DEF DecisionsKept, Deciding
        <5> QED
          BY <1>0, <1>1, <1>7, <3>1, <5>1, ServerFrame
      <4> QED
        BY <4>6, <4>7, <4>8 DEF TaskKnown
    <3> QED
      BY <3>2, <3>3
  <2> QED
    BY <2>1, <2>5
<1>11. UNCHANGED <<link, room, serverStatus>> /\ (Calm' => Calm)
  BY <1>1 DEF own, counters, Calm
<1> QED
  BY <1>10, <1>11, CalmFrame

\* The row of the only attempt names the server the task has already.
LEMMA SetTaskRunningKeeps ==
    ASSUME SystemInv, DecisionInv, UNCHANGED own, SetTaskRunning
    PROVE  DecisionInv'
<1>0. IInv /\ task \in [Tasks -> {NoTask} \cup TaskRow]
  BY Tables DEF SystemInv
<1>1. UNCHANGED <<call, approval, wire, room, serverStatus>> /\ UNCHANGED counters /\ UNCHANGED attempts
  BY DEF SetTaskRunning, net
<1>2. PICK u \in Tasks : u = proc.task /\ Exists(u)
  BY <1>0, AtWork DEF SetTaskRunning
<1>3. PICK p \in Dispatching : p = proc
  BY <1>0, AtWork DEF SetTaskRunning
<1>4. PICK r \in Servers : r = Candidate
  BY <1>0, CandidateOK DEF SetTaskRunning, RowPcs
<1>5. proc.pc = "setTask" /\ proc.pc \in RowPcs
  BY DEF SetTaskRunning, RowPcs
<1>6. proc'.pc = "setAttempt" /\ proc'.task = u /\ proc'.server = p.server
  BY <1>2, <1>3 DEF SetTaskRunning, Dispatching
<1>7. task'[u].server = r /\ \A t \in Tasks : t # u => task'[t] = task[t]
  <2>1. PICK b \in TaskRow : b = task[u]
    BY <1>0, <1>2 DEF Exists
  <2>2. task' = [task EXCEPT ![u] = [b EXCEPT !.server = r, !.status = "RUNNING", !.fresh = TRUE]]
    BY <1>2, <1>4, <2>1 DEF SetTaskRunning
  <2>3. [b EXCEPT !.server = r, !.status = "RUNNING", !.fresh = TRUE].server = r
    BY DEF TaskRow
  <2> QED
    BY <1>0, <2>2, <2>3
<1>8. ASSUME NEW t \in Tasks, Len(attempts[t]) <= 1, TaskKnown(t)
      PROVE  FirstKept(t)
  <2>1. ServerKnown(t)
    BY <1>8 DEF TaskKnown
  <2>2. t = u => r = task[t].server
    BY <1>0, <1>2, <1>4, <1>5, <1>8, <2>1, OnlyRow
  <2> QED
    BY <1>1, <1>7, <2>2 DEF FirstKept
<1>9. ASSUME NEW t \in Tasks, TaskKnown(t)
      PROVE  JobKept(t) /\ (AboutToSend(t)' => AboutToSend(t))
  <2>1. t = u => p.server = task[t].server
    BY <1>2, <1>3, <1>5, <1>9 DEF TaskKnown, ServerKnown, Idle
  <2> QED
    BY <1>2, <1>6, <2>1 DEF JobKept, AboutToSend
<1> QED
  BY <1>1, <1>8, <1>9, DispatchFrame

\* The job rewrites its row, or the logs of the task.
LEMMA EndOfJobKeeps ==
    ASSUME SystemInv, DecisionInv, UNCHANGED own, SetAttemptRunning \/ FailAttempt \/ LogFailure
    PROVE  DecisionInv'
<1>0. IInv
  BY DEF SystemInv
<1>1. UNCHANGED <<call, approval, wire, room, serverStatus>> /\ UNCHANGED counters
  BY DEF SetAttemptRunning, FailAttempt, LogFailure, net
<1>2. CASE LogFailure
  <2>1. PICK u \in Tasks : u = proc.task /\ Exists(u)
    BY <1>0, <1>2, AtWork DEF LogFailure
  <2>2. proc' = Idle /\ UNCHANGED attempts /\ SetTaskStatus(u, task[u].status)
    BY <1>2, <2>1 DEF LogFailure, FailJob
  <2>3. \A t \in Tasks : task'[t].server = task[t].server
    BY <1>0, <2>1, <2>2, StatusKeepsServer
  <2>4. \A t \in Tasks : FirstKept(t) /\ (Len(attempts'[t]) <= 1 => Len(attempts[t]) <= 1)
    BY <2>2, <2>3 DEF FirstKept
  <2> QED
    BY <1>1, <2>2, <2>4, NoJobKept, DispatchFrame
<1>3. CASE SetAttemptRunning \/ FailAttempt
  <2>1. proc.pc \in RowPcs /\ UNCHANGED task
    BY <1>3 DEF SetAttemptRunning, FailAttempt, RowPcs
  <2>2. PICK old \in AttemptRow : old = attempts[proc.task][proc.row] /\ old.server = Candidate
    BY <1>0, <2>1, CandidateOK DEF Candidate
  <2>3. PICK row \in AttemptRow : /\ row.server = Candidate /\ row.status # "TIMED_OUT"
                                  /\ SetAttempt(proc.task, proc.row, row)
    <3>1. CASE SetAttemptRunning
      <4>1. /\ [old EXCEPT !.status = "RUNNING", !.fresh = TRUE] \in AttemptRow
            /\ [old EXCEPT !.status = "RUNNING", !.fresh = TRUE].server = old.server
            /\ [old EXCEPT !.status = "RUNNING", !.fresh = TRUE].status = "RUNNING"
        BY DEF AttemptRow, AttemptStatuses
      <4> QED
        BY <2>2, <3>1, <4>1 DEF SetAttemptRunning
    <3>2. CASE FailAttempt
      <4> DEFINE new == [old EXCEPT !.status = "FAILED", !.capacity = FALSE, !.fresh = TRUE]
      <4>1. new \in AttemptRow /\ new.server = old.server /\ new.status = "FAILED"
        BY DEF AttemptRow, AttemptStatuses
      <4>2. SetAttempt(proc.task, proc.row, new)
        BY <2>2, <3>2 DEF FailAttempt
      <4> HIDE DEF new
      <4> QED
        BY <2>2, <4>1, <4>2
    <3> QED
      BY <1>3, <3>1, <3>2
  <2>4. RowsKept
    BY <1>0, <2>1, <2>3, RewriteOwnRow
  <2>5. \A t \in Tasks : FirstKept(t)
    BY <1>0, <2>1, <2>4, RowsKeepFirst DEF RowsKept
  <2>6. ASSUME NEW t \in Tasks, TaskKnown(t)
        PROVE  JobKept(t) /\ (AboutToSend(t)' => AboutToSend(t))
    <3>1. CASE SetAttemptRunning
      <4>1. proc' = Idle
        BY <3>1 DEF SetAttemptRunning
      <4> QED
        BY <4>1, NoJobKept
    <3>2. CASE FailAttempt
      <4>1. PICK u \in Tasks : u = proc.task /\ Exists(u) /\ proc.row \in 1 .. Len(attempts[u])
        BY <1>0, <2>1, AtWork DEF RowPcs
      <4>2. PICK p \in Dispatching : p = proc
        BY <1>0, <2>1, AtWork DEF RowPcs
      <4>3. /\ proc'.pc \in {"create", "logFailure"} /\ proc'.task = u
            /\ proc'.server = p.server
        BY <3>2, <4>1, <4>2 DEF FailAttempt, Dispatching
      <4>4. attempts[u] # <<>>
        <5>1. attempts[u] \in Seq(AttemptRow)
          BY <1>0, Tables
        <5>2. Len(attempts[u]) # 0
          BY <4>1, <5>1
        <5> QED
          BY <5>1, <5>2, EmptySeq
      <4>5. attempts'[u] # <<>>
        BY <2>5, <4>4 DEF FirstKept
      <4>6. t = u => p.server = task[t].server
        BY <2>1, <2>6, <4>1, <4>2 DEF TaskKnown, ServerKnown, Idle, RowPcs
      <4> QED
        BY <4>1, <4>3, <4>5, <4>6 DEF JobKept, AboutToSend
    <3> QED
      BY <1>3, <3>1, <3>2
  <2>7. \A t \in Tasks : Len(attempts'[t]) <= 1 => Len(attempts[t]) <= 1
    BY <2>5 DEF FirstKept
  <2> QED
    BY <1>1, <2>5, <2>6, <2>7, DispatchFrame
<1> QED
  BY <1>2, <1>3

\* All the steps of the Hub.
LEMMA HubStepKeeps ==
    ASSUME SystemInv, DecisionInv, HubStep \/ \E t \in Tasks : Wait(t)
    PROVE  DecisionInv'
<1>1. UNCHANGED own
  BY DEF HubStep, Wait
<1>2. CASE DispatchStep
  BY <1>1, <1>2, TakeJobKeeps, ReadExcludedKeeps, ChooseCandidatesKeeps,
     CreateAttemptKeeps, SendTaskKeeps, SetTaskRunningKeeps, EndOfJobKeeps DEF DispatchStep
<1>3. CASE WatchdogStep \/ \E t \in Tasks : TimePasses(t)
  <2>1. \A t \in Tasks : FirstKept(t)
    BY <1>3, WatchKeepsFirst DEF SystemInv
  <2>2. UNCHANGED <<call, approval, room, serverStatus, wire, proc>> /\ UNCHANGED counters
    BY <1>3 DEF WatchdogStep, Scan, CountTimeouts, TimeOut, Settle, RequeueStuck, TimePasses, db, net
  <2>3. CallsKept /\ (Calm' => Calm) /\ UNCHANGED <<link, runner>>
    BY <1>1, <2>2 DEF CallsKept, Calm, counters, own
  <2> QED
    BY <1>1, <2>1, <2>2, <2>3, ApprovalBegins, SilentDaemons, HubFrame
<1> QED
  BY <1>1, <1>2, <1>3, HandlersKeep DEF HubStep, Wait

-----------------------------------------------------------------------------
(* RejectionKills: the daemons.                                            *)

\* What is known of the state of the daemons.
LEMMA DaemonTypes ==
    ASSUME SystemInv
    PROVE  /\ IInv
           /\ wire \in [Servers -> Seq(Message)]
           /\ outbox \in [Servers -> Seq(Daemon!Event)]
           /\ runner \in [Servers -> [Tasks -> {Daemon!NoRunner} \cup Daemon!Runner]]
           /\ runs \in [Servers -> Nat]
BY Tables DEF SystemInv, Daemon!DaemonInv, Daemon!DaemonTypeOK

\* A step of a daemon that starts no child of task t.
LEMMA ChildFrame ==
    ASSUME SystemInv, UNCHANGED hubOwn, NEW t \in Tasks, TaskKnown(t),
           \A s \in Servers :
              /\ Runs(s, t)' => Runs(s, t)
              /\ Lives(s, t)' => Lives(s, t)
              /\ Asks(s, t)' => Begun(t)
              /\ \E k \in Nat : \A i \in Submits(s, t)' : i \in Nat /\ i + k \in Submits(s, t)
              /\ Rejections(s, t) # {} => Rejections(s, t)' # {} \/ ~Lives(s, t)'
    PROVE  TaskKnown(t)'
<1>1. UNCHANGED <<task, attempts, approval, call, proc>>
  BY DEF hubOwn, db
<1>2. FirstKept(t) /\ DecisionsKept(t) /\ \A c \in Slots : Rejecting(c, t) => Rejecting(c, t)'
  BY <1>1 DEF FirstKept, DecisionsKept, Deciding, Rejecting, Approved
<1>3. JobKept(t) /\ (AboutToSend(t)' => AboutToSend(t))
  BY <1>1, <1>2, DaemonTypes, SameJob DEF TaskKnown
<1>4. /\ approval[t] # "NONE" => approval'[t] # "NONE"
      /\ approval'[t] # "NONE" => Begun(t)
      /\ approval'[t] = "REJECTED" => approval[t] = "REJECTED"
  BY <1>1, ApprovalBegins
<1> QED
  BY <1>2, <1>3, <1>4, TaskFrame

\* Then what is known of the tasks follows for all of them.
LEMMA DaemonFrame ==
    ASSUME SystemInv, DecisionInv, UNCHANGED hubOwn, UNCHANGED <<link, losses>>,
           ASSUME NEW t \in Tasks, TaskKnown(t)
           PROVE  TaskKnown(t)'
    PROVE  DecisionInv'
<1>1. UNCHANGED <<link, room, serverStatus>> /\ UNCHANGED attempts /\ (Calm' => Calm)
  BY DEF hubOwn, db, counters, Calm
<1> QED
  BY <1>1, CalmFrame

RejectionOf(t, m) == m.event = "approval:decision" /\ m.task = t /\ ~m.approved

\* The daemon takes the first event of the wire.
LEMMA Taken ==
    ASSUME IInv, NEW s \in Servers, wire[s] # <<>>, wire' = [wire EXCEPT ![s] = Tail(@)],
           NEW r \in Servers, NEW t \in Tasks
    PROVE  /\ \E k \in Nat : \A i \in Submits(r, t)' : i \in Nat /\ i + k \in Submits(r, t)
           /\ Rejections(r, t) # {} =>
                 \/ Rejections(r, t)' # {}
                 \/ r = s /\ RejectionOf(t, Head(wire[s]))
<1>0. wire \in [Servers -> Seq(Message)]
  BY Tables
<1>1. CASE r # s
  <2>1. Submits(r, t)' = Submits(r, t) /\ Rejections(r, t)' = Rejections(r, t)
    BY <1>0, <1>1 DEF Submits, Rejections
  <2>2. \A i \in Submits(r, t)' : i \in Nat /\ i + 0 \in Submits(r, t)
    BY <2>1, MessageNumbers
  <2> QED
    BY <2>1, <2>2
<1>2. CASE r = s
  <2>1. PICK w \in Seq(Message) : w = wire[s] /\ w # <<>>
    BY <1>0
  <2>2. wire[r] = w /\ wire'[r] = Tail(w)
    BY <1>0, <1>2, <2>1
  <2>3. PICK n \in Nat : n = Len(w) /\ n # 0
    BY <2>1, EmptySeq
  <2>4. PICK v : v = Tail(w)
    OBVIOUS
  <2>5. /\ DOMAIN w = 1 .. n /\ DOMAIN v = 1 .. n - 1
        /\ \A i \in 1 .. n - 1 : v[i] = w[i + 1]
        /\ Head(w) = w[1]
    BY <2>1, <2>3, <2>4
  <2>6. \A i \in 1 .. n - 1 : i \in Nat /\ i + 1 \in 1 .. n
    OBVIOUS
  <2>7. \A i \in Submits(r, t)' : i \in Nat /\ i + 1 \in Submits(r, t)
    BY <2>2, <2>4, <2>5, <2>6 DEF Submits
  <2>8. ASSUME NEW i \in Rejections(r, t), i # 1
        PROVE  i - 1 \in Rejections(r, t)'
    <3>1. i \in 1 .. n /\ w[i] = [event |-> "approval:decision", task |-> t, approved |-> FALSE]
      BY <2>2, <2>5, <2>8 DEF Rejections
    <3>2. i - 1 \in 1 .. n - 1 /\ (i - 1) + 1 = i
      BY <2>8, <3>1
    <3>3. v[i - 1] = w[i]
      BY <2>5, <3>2
    <3> QED
      BY <2>2, <2>4, <2>5, <3>1, <3>2, <3>3 DEF Rejections
  <2>9. 1 \in Rejections(r, t) => RejectionOf(t, Head(w))
    BY <2>2, <2>5 DEF Rejections, RejectionOf
  <2> QED
    BY <1>2, <2>1, <2>7, <2>8, <2>9
<1> QED
  BY <1>1, <1>2

\* The runner of u at s is replaced by x.
LEMMA RunnerSet ==
    ASSUME SystemInv, NEW s \in Servers, NEW u \in Tasks, NEW x,
           runner' = [runner EXCEPT ![s][u] = x]
    PROVE  /\ runner'[s][u] = x
           /\ \A r \in Servers, t \in Tasks : r # s \/ t # u => runner'[r][t] = runner[r][t]
BY DaemonTypes

\* A runner that goes on, is killed or is dropped.
LEMMA RunnerGoesOn ==
    ASSUME SystemInv, NEW s \in Servers, NEW u \in Tasks, NEW x,
           runner' = [runner EXCEPT ![s][u] = x], Runs(s, u),
           x # Daemon!NoRunner /\ ~x.killedByHub => ~runner[s][u].killedByHub,
           NEW r \in Servers, NEW t \in Tasks
    PROVE  /\ Runs(r, t)' => Runs(r, t)
           /\ Lives(r, t)' => Lives(r, t)
<1>1. CASE r = s /\ t = u
  BY <1>1, RunnerSet DEF Runs, Lives
<1>2. CASE r # s \/ t # u
  BY <1>2, RunnerSet DEF Runs, Lives
<1> QED
  BY <1>1, <1>2

\* What a runner of u says: it asks for no approval but its own.
LEMMA Said ==
    ASSUME SystemInv, NEW s \in Servers, NEW u \in Tasks, NEW S \in SUBSET Daemon!Event,
           NEW events \in Seq(S), Daemon!emit(s, events),
           \A e \in S : e.event = "APPROVAL" => e.task = u /\ Runs(s, u),
           NEW r \in Servers, NEW t \in Tasks, Asks(r, t)'
    PROVE  Begun(t)
<1>1. CASE Asks(r, t)
  BY <1>1 DEF Begun
<1>2. CASE ~Asks(r, t)
  <2>1. outbox' = [outbox EXCEPT ![s] = @ \o events]
    BY <1>2 DEF Daemon!emit, Asks
  <2>2. r = s
    BY <1>2, <2>1, DaemonTypes DEF Asks
  <2>3. PICK q \in Seq(Daemon!Event) : q = outbox[s]
    BY DaemonTypes
  <2>4. outbox[r] = q /\ outbox'[r] = q \o events
    BY <2>1, <2>2, <2>3, DaemonTypes
  <2>5. PICK i \in DOMAIN (q \o events) :
           (q \o events)[i].event = "APPROVAL" /\ (q \o events)[i].task = t
    BY <2>4 DEF Asks
  <2>6. \/ i \in DOMAIN q /\ (q \o events)[i] = q[i]
        \/ i - Len(q) \in DOMAIN events /\ (q \o events)[i] = events[i - Len(q)]
    BY <2>3
  <2>7. i \notin DOMAIN q \/ (q \o events)[i] # q[i]
    BY <1>2, <2>4, <2>5 DEF Asks
  <2>8. PICK j \in DOMAIN events : events[j].event = "APPROVAL" /\ events[j].task = t
    BY <2>5, <2>6, <2>7
  <2>9. events[j] \in S
    OBVIOUS
  <2> QED
    BY <2>8, <2>9 DEF Begun
<1> QED
  BY <1>1, <1>2

\* A child that writes, ends or fails.
LEMMA ChildKeeps ==
    ASSUME SystemInv, DecisionInv, NEW s \in Servers, NEW u \in Tasks, Daemon!Child(s, u),
           UNCHANGED hubOwn
    PROVE  DecisionInv'
<1>0. PICK rn \in Daemon!Runner : rn = runner[s][u] /\ Runs(s, u) /\ rn.run \in Nat
  <2>1. Runs(s, u)
    BY DEF Daemon!Child, Daemon!onData, Daemon!onClose, Daemon!onError, Daemon!Running, Runs
  <2>2. runner[s][u] \in Daemon!Runner
    BY <2>1, DaemonTypes DEF Runs
  <2> QED
    BY <2>1, <2>2 DEF Daemon!Runner
<1>1. UNCHANGED <<link, losses, wire>>
  BY DEF Daemon!Child, Daemon!onData, Daemon!onClose, Daemon!onError
<1>2. \A e \in {"RUNNING", "LOG", "APPROVAL", "COMPLETED", "FAILED", "CAPACITY_EXHAUSTED"} :
        /\ Daemon!Say(s, u, e) \in Daemon!Event
        /\ Daemon!Say(s, u, e).event = e /\ Daemon!Say(s, u, e).task = u
  BY <1>0 DEF Daemon!Say, Daemon!Event
<1>3. PICK x : /\ runner' = [runner EXCEPT ![s][u] = x]
               /\ x # Daemon!NoRunner /\ ~x.killedByHub => ~rn.killedByHub
  <2>1. CASE \E prompt \in BOOLEAN : Daemon!onData(s, u, prompt)
    <3>1. PICK prompt \in BOOLEAN : Daemon!onData(s, u, prompt)
      BY <2>1
    <3>2. PICK b \in BOOLEAN :
             b = (rn.awaitingApproval \/ (prompt /\ ~rn.awaitingApproval))
      BY DEF Daemon!Runner
    <3>3. runner' = [runner EXCEPT ![s][u] = [rn EXCEPT !.awaitingApproval = b]]
      BY <1>0, <3>1, <3>2 DEF Daemon!onData, Daemon!SetRunner
    <3>4. [rn EXCEPT !.awaitingApproval = b].killedByHub = rn.killedByHub
      BY DEF Daemon!Runner
    <3> QED
      BY <3>3, <3>4
  <2>2. CASE \/ \E e \in Daemon!Results : Daemon!onClose(s, u, e)
             \/ Daemon!onError(s, u)
    BY <2>2 DEF Daemon!onClose, Daemon!onError, Daemon!dropTask, Daemon!SetRunner
  <2> QED
    BY <2>1, <2>2 DEF Daemon!Child
<1>4. ASSUME NEW r \in Servers, NEW t \in Tasks, Asks(r, t)'
      PROVE  Begun(t)
  <2>1. CASE \E prompt \in BOOLEAN : Daemon!onData(s, u, prompt)
    <3>1. PICK prompt \in BOOLEAN : Daemon!onData(s, u, prompt)
      BY <2>1
    <3>2. PICK l \in Daemon!Event : l = Daemon!Say(s, u, "LOG") /\ l.task = u
      BY <1>2
    <3>3. PICK a \in Daemon!Event : a = Daemon!Say(s, u, "APPROVAL") /\ a.task = u
      BY <1>2
    <3>4. PICK events \in Seq({l, a}) : Daemon!emit(s, events)
      <4>1. <<l>> \o <<a>> \in Seq({l, a}) /\ <<l>> \o <<>> \in Seq({l, a})
        OBVIOUS
      <4>2. Daemon!emit(s, <<l>> \o <<a>>) \/ Daemon!emit(s, <<l>> \o <<>>)
        BY <3>1, <3>2, <3>3 DEF Daemon!onData
      <4> QED
        BY <4>1, <4>2
    <3> QED
      BY <1>0, <1>4, <3>2, <3>3, <3>4, Said
  <2>2. CASE UNCHANGED outbox
    BY <1>4, <2>2 DEF Asks, Begun
  <2>3. CASE \E e \in Daemon!Results : Daemon!emit(s, <<Daemon!Say(s, u, e)>>)
    <3>1. PICK e \in Daemon!Results : Daemon!emit(s, <<Daemon!Say(s, u, e)>>)
      BY <2>3
    <3>2. PICK a \in Daemon!Event : a = Daemon!Say(s, u, e) /\ a.event # "APPROVAL"
      BY <1>2 DEF Daemon!Results
    <3>3. PICK S \in SUBSET Daemon!Event : S = {a}
      OBVIOUS
    <3>4. PICK events \in Seq(S) : Daemon!emit(s, events)
      <4>1. <<a>> \in Seq(S)
        BY <3>3
      <4> QED
        BY <3>1, <3>2, <4>1
    <3>5. \A f \in S : f.event # "APPROVAL"
      BY <3>2, <3>3
    <3> QED
      BY <1>4, <3>4, <3>5, Said
  <2> QED
    BY <2>1, <2>2, <2>3 DEF Daemon!Child, Daemon!onClose, Daemon!onError, Daemon!Results
<1>5. \A r \in Servers, t \in Tasks :
        /\ Runs(r, t)' => Runs(r, t)
        /\ Lives(r, t)' => Lives(r, t)
  BY <1>0, <1>3, RunnerGoesOn
<1>6. \A r \in Servers, t \in Tasks :
        /\ Rejections(r, t)' = Rejections(r, t)
        /\ \E k \in Nat : \A i \in Submits(r, t)' : i \in Nat /\ i + k \in Submits(r, t)
  <2>1. \A r \in Servers, t \in Tasks :
          Rejections(r, t)' = Rejections(r, t) /\ Submits(r, t)' = Submits(r, t)
    BY <1>1 DEF Submits, Rejections
  <2> QED
    BY <2>1, DaemonTypes, MessageNumbers
<1>7. ASSUME NEW t \in Tasks, TaskKnown(t)
      PROVE  TaskKnown(t)'
  BY <1>4, <1>5, <1>6, <1>7, ChildFrame
<1> QED
  BY <1>1, <1>7, DaemonFrame

\* A cancellation or a decision is taken: a rejection kills the child.
LEMMA CommandKeeps ==
    ASSUME SystemInv, DecisionInv, NEW s \in Servers,
           Daemon!onTaskCancel(s) \/ Daemon!onApprovalDecision(s), UNCHANGED hubOwn
    PROVE  DecisionInv'
<1>1. /\ wire[s] # <<>> /\ wire' = [wire EXCEPT ![s] = Tail(@)]
      /\ UNCHANGED <<link, losses, outbox>>
  BY DEF Daemon!onTaskCancel, Daemon!onApprovalDecision, Daemon!Take
<1>2. PICK m \in Message : m = Head(wire[s])
  BY <1>1, DaemonTypes, HeadTailProperties
<1>3. PICK u \in Tasks : u = m.task
  BY DEF Message
<1>4. CASE ~Runs(s, u)
  <2>1. UNCHANGED runner
    BY <1>2, <1>3, <1>4 DEF Daemon!onTaskCancel, Daemon!onApprovalDecision, Daemon!Running, Runs
  <2>2. \A r \in Servers, t \in Tasks :
          /\ Runs(r, t)' => Runs(r, t)
          /\ Lives(r, t)' => Lives(r, t)
    BY <2>1 DEF Runs, Lives
  <2>3. ~Lives(s, u)'
    BY <1>4, <2>2 DEF Lives
  <2>4. \A r \in Servers, t \in Tasks :
          Rejections(r, t) # {} => Rejections(r, t)' # {} \/ ~Lives(r, t)'
    <3>1. \A t \in Tasks : RejectionOf(t, Head(wire[s])) => t = u
      BY <1>2, <1>3 DEF RejectionOf
    <3> QED
      BY <1>1, <2>3, <3>1, DaemonTypes, Taken
  <2>5. ASSUME NEW t \in Tasks, TaskKnown(t)
        PROVE  TaskKnown(t)'
    <3>1. \A r \in Servers :
            /\ Asks(r, t)' => Begun(t)
            /\ \E k \in Nat : \A i \in Submits(r, t)' : i \in Nat /\ i + k \in Submits(r, t)
      BY <1>1, DaemonTypes, Taken DEF Asks, Begun
    <3> QED
      BY <2>2, <2>4, <2>5, <3>1, ChildFrame
  <2> QED
    BY <1>1, <2>5, DaemonFrame
<1>5. CASE Runs(s, u)
  <2>0. PICK rn \in Daemon!Runner : rn = runner[s][u]
    BY <1>5, DaemonTypes DEF Runs
  <2>1. PICK x : /\ runner' = [runner EXCEPT ![s][u] = x]
                 /\ x # Daemon!NoRunner /\ ~x.killedByHub => ~rn.killedByHub
                 /\ m.event = "approval:decision" /\ ~m.approved => x.killedByHub
    <3>1. [rn EXCEPT !.killedByHub = TRUE].killedByHub = TRUE
      BY DEF Daemon!Runner
    <3>2. [rn EXCEPT !.awaitingApproval = FALSE].killedByHub = rn.killedByHub
      BY DEF Daemon!Runner
    <3>3. CASE runner' = [runner EXCEPT ![s][u] = [rn EXCEPT !.killedByHub = TRUE]]
      BY <3>1, <3>3
    <3>4. CASE /\ runner' = [runner EXCEPT ![s][u] = [rn EXCEPT !.awaitingApproval = FALSE]]
               /\ m.approved
      BY <3>2, <3>4
    <3>5. \/ runner' = [runner EXCEPT ![s][u] = [rn EXCEPT !.killedByHub = TRUE]]
          \/ /\ runner' = [runner EXCEPT ![s][u] = [rn EXCEPT !.awaitingApproval = FALSE]]
             /\ m.approved
      <4>1. CASE Daemon!onTaskCancel(s)
        BY <1>2, <1>3, <1>5, <2>0, <4>1
           DEF Daemon!onTaskCancel, Daemon!Running, Runs, Daemon!kill, Daemon!SetRunner
      <4>2. CASE Daemon!onApprovalDecision(s)
        BY <1>2, <1>3, <1>5, <2>0, <4>2
           DEF Daemon!onApprovalDecision, Daemon!Running, Runs, Daemon!Answer, Daemon!kill,
               Daemon!resume, Daemon!SetRunner
      <4> QED
        BY <4>1, <4>2
    <3> QED
      BY <3>3, <3>4, <3>5
  <2>2. \A r \in Servers, t \in Tasks :
          /\ Runs(r, t)' => Runs(r, t)
          /\ Lives(r, t)' => Lives(r, t)
    BY <1>5, <2>0, <2>1, RunnerGoesOn
  <2>3. \A t \in Tasks :
          RejectionOf(t, Head(wire[s])) => ~Lives(s, t)'
    <3>0. runner'[s][u] = x
      <4>1. runner' = [runner EXCEPT ![s][u] = x]
        BY <2>1
      <4> QED
        BY <4>1, DaemonTypes
    <3>1. m.event = "approval:decision" /\ ~m.approved => ~Lives(s, u)'
      BY <2>1, <3>0 DEF Lives
    <3> QED
      BY <1>2, <1>3, <3>1 DEF RejectionOf
  <2>4. \A r \in Servers, t \in Tasks :
          Rejections(r, t) # {} => Rejections(r, t)' # {} \/ ~Lives(r, t)'
    <3> SUFFICES ASSUME NEW r \in Servers, NEW t \in Tasks, Rejections(r, t) # {}
                 PROVE  Rejections(r, t)' # {} \/ ~Lives(r, t)'
      OBVIOUS
    <3>1. Rejections(r, t)' # {} \/ (r = s /\ RejectionOf(t, Head(wire[s])))
      BY <1>1, DaemonTypes, Taken
    <3> QED
      BY <2>3, <3>1
  <2>5. ASSUME NEW t \in Tasks, TaskKnown(t)
        PROVE  TaskKnown(t)'
    <3>1. \A r \in Servers :
            /\ Asks(r, t)' => Begun(t)
            /\ \E k \in Nat : \A i \in Submits(r, t)' : i \in Nat /\ i + k \in Submits(r, t)
      BY <1>1, DaemonTypes, Taken DEF Asks, Begun
    <3> QED
      BY <2>2, <2>4, <2>5, <3>1, ChildFrame
  <2> QED
    BY <1>1, <2>5, DaemonFrame
<1> QED
  BY <1>4, <1>5

\* A task is started: its only submission is used up, and no approval of it
\* exists yet.
LEMMA StartKeeps ==
    ASSUME SystemInv, DecisionInv, NEW s \in Servers, Daemon!onTaskSubmit(s), UNCHANGED hubOwn
    PROVE  DecisionInv'
<1>1. /\ wire[s] # <<>> /\ wire' = [wire EXCEPT ![s] = Tail(@)] /\ UNCHANGED <<link, losses>>
      /\ Head(wire[s]).event = "task:submit"
  BY DEF Daemon!onTaskSubmit, Daemon!Take
<1>2. PICK m \in Message : m = Head(wire[s])
  BY <1>1, DaemonTypes, HeadTailProperties
<1>3. PICK u \in Tasks : u = m.task
  BY DEF Message
<1>4. 1 \in Submits(s, u)
  <2>1. wire[s] \in Seq(Message) /\ wire[s] # <<>>
    BY <1>1, DaemonTypes
  <2>2. 1 \in DOMAIN wire[s] /\ wire[s][1] = m
    BY <1>2, <2>1
  <2> QED
    BY <1>1, <1>2, <1>3, <2>2 DEF Submits
<1>5. \A r \in Servers, t \in Tasks : r # s \/ t # u => runner'[r][t] = runner[r][t]
  <2>1. CASE UNCHANGED runner
    BY <2>1
  <2>2. CASE \E x : runner' = [runner EXCEPT ![s][u] = x]
    BY <2>2, RunnerSet
  <2> QED
    BY <1>2, <1>3, <2>1, <2>2 DEF Daemon!onTaskSubmit, Daemon!start, Daemon!SetRunner
<1>6. ASSUME NEW r \in Servers, NEW t \in Tasks, Asks(r, t)'
      PROVE  Begun(t)
  <2>1. CASE UNCHANGED outbox
    BY <1>6, <2>1 DEF Asks, Begun
  <2>2. CASE Daemon!start(s, u)
    <3>1. PICK n \in Nat : n = runs[s] + 1
      BY DaemonTypes
    <3>2. PICK e \in {"RUNNING", "FAILED", "CAPACITY_EXHAUSTED"} :
             Daemon!emit(s, <<[event |-> e, task |-> u, run |-> n]>>)
      BY <2>2, <3>1 DEF Daemon!start
    <3>3. PICK a \in Daemon!Event : /\ a = [event |-> e, task |-> u, run |-> n]
                                    /\ a.event # "APPROVAL"
      <4>1. /\ [event |-> e, task |-> u, run |-> n] \in Daemon!Event
            /\ [event |-> e, task |-> u, run |-> n].event = e
        BY DEF Daemon!Event
      <4> QED
        BY <4>1
    <3>4. PICK S \in SUBSET Daemon!Event : S = {a}
      OBVIOUS
    <3>5. PICK events \in Seq(S) : Daemon!emit(s, events)
      <4>1. <<a>> \in Seq(S)
        BY <3>4
      <4> QED
        BY <3>2, <3>3, <4>1
    <3>6. \A f \in S : f.event # "APPROVAL"
      BY <3>3, <3>4
    <3> QED
      BY <1>6, <3>5, <3>6, Said
  <2> QED
    BY <1>2, <1>3, <2>1, <2>2 DEF Daemon!onTaskSubmit
<1>7. ASSUME NEW r \in Servers, NEW t \in Tasks
      PROVE  /\ \E k \in Nat : \A i \in Submits(r, t)' : i \in Nat /\ i + k \in Submits(r, t)
             /\ Rejections(r, t) # {} => Rejections(r, t)' # {}
  <2>1. ~RejectionOf(t, Head(wire[s]))
    BY <1>1 DEF RejectionOf
  <2> QED
    BY <1>1, <2>1, DaemonTypes, Taken
<1>8. ASSUME NEW t \in Tasks, TaskKnown(t)
      PROVE  TaskKnown(t)'
  <2>1. CASE t # u
    <3>1. \A r \in Servers : (Runs(r, t)' <=> Runs(r, t)) /\ (Lives(r, t)' <=> Lives(r, t))
      BY <1>5, <2>1 DEF Runs, Lives
    <3> QED
      BY <1>6, <1>7, <1>8, <3>1, ChildFrame
  <2>2. CASE t = u
    <3>0. UNCHANGED <<task, attempts, approval, call, proc>>
      BY DEF hubOwn, db
    <3>1. ServerKnown(t) /\ SentOnce(t)
      BY <1>8 DEF TaskKnown
    <3>2. /\ s = task[t].server /\ attempts[t] # <<>> /\ ~Begun(t) /\ ~AboutToSend(t)
          /\ \A j \in Submits(s, t) : j = 1
      BY <1>4, <2>2, <3>1 DEF SentOnce
    <3>3. \A r \in Servers : r # s => Submits(r, t) = {}
      BY <3>1, <3>2 DEF SentOnce
    <3>4. \A r \in Servers : Submits(r, t)' = {}
      <4>1. \A r \in Servers : r # s => Submits(r, t)' = {}
        BY <1>7, <3>3
      <4>2. Submits(s, t)' = {}
        <5>1. PICK v \in Seq(Message) : v = Tail(wire[s])
          BY <1>1, DaemonTypes, HeadTailProperties
        <5>2. wire'[s] = v /\ \A i \in DOMAIN v : i \in Nat /\ i + 1 \in DOMAIN wire[s] /\ v[i] = wire[s][i + 1]
          BY <1>1, <5>1, DaemonTypes
        <5>3. \A i \in Submits(s, t)' : i \in DOMAIN v /\ i + 1 \in Submits(s, t)
          BY <5>2 DEF Submits
        <5>4. \A i \in DOMAIN v : i # 0 /\ i \in Nat
          BY <5>1
        <5>5. \A i \in Submits(s, t)' : i + 1 = 1
          BY <3>2, <5>3
        <5> QED
          BY <5>3, <5>4, <5>5
      <4> QED
        BY <4>1, <4>2
    <3>5. \A r \in Servers : Runs(r, t)' => r = s
      BY <1>5, <3>2 DEF Runs, Begun
    <3>6. approval'[t] = "NONE" /\ ~AboutToSend(t)'
      BY <3>0, <3>2 DEF Begun, AboutToSend
    <3>7. SentOnce(t)'
      BY <3>0, <3>2, <3>4, <3>5, <3>6 DEF SentOnce
    <3>8. Obeyed(t)'
      BY <3>6 DEF Obeyed
    <3>9. ServerKnown(t)'
      <4>1. FirstKept(t) /\ DecisionsKept(t)
        BY <3>0 DEF FirstKept, DecisionsKept, Deciding
      <4>2. JobKept(t)
        BY <3>0, <3>1, <4>1, DaemonTypes, SameJob
      <4> QED
        BY <3>0, <3>1, <4>1, <4>2, DaemonTypes, ServerFrame
    <3> QED
      BY <3>7, <3>8, <3>9 DEF TaskKnown
  <2> QED
    BY <2>1, <2>2
<1> QED
  BY <1>1, <1>8, DaemonFrame

-----------------------------------------------------------------------------
(* RejectionKills: all together.                                           *)

\* Nothing has happened yet.
LEMMA DecisionStart ==
    ASSUME SystemInit
    PROVE  DecisionInv
<1>1. /\ \A s \in Servers : link[s] = "up" /\ room[s] /\ serverStatus[s] = "ONLINE"
      /\ proc = Idle /\ \A c \in Slots : call[c] = Idle
      /\ \A t \in Tasks : attempts[t] = <<>> /\ approval[t] = "NONE"
      /\ \A s \in Servers : wire[s] = <<>> /\ outbox[s] = <<>>
      /\ \A s \in Servers, t \in Tasks : runner[s][t] = Daemon!NoRunner
  BY DEF SystemInit, Init, Daemon!DaemonInit
<1>2. ASSUME NEW t \in Tasks
      PROVE  ServerKnown(t) /\ SentOnce(t) /\ Obeyed(t)
  <2>1. ~AboutToSend(t) /\ (\A c \in Slots : ~Deciding(c, t)) /\ proc.pc = "idle"
    BY <1>1 DEF AboutToSend, Deciding, Idle
  <2>2. \A s \in Servers : ~Runs(s, t) /\ ~Asks(s, t) /\ Submits(s, t) = {}
    BY <1>1 DEF Runs, Asks, Submits
  <2>3. ~Begun(t)
    BY <1>1, <2>2 DEF Begun
  <2> QED
    BY <1>1, <2>1, <2>2, <2>3 DEF ServerKnown, SentOnce, Obeyed
<1> QED
  BY <1>1, <1>2 DEF DecisionInv

\* A loss, a change of presence or a restart ends the calm; what needs one that
\* came before cannot happen while it lasts.
LEMMA FaultKeeps ==
    ASSUME SystemInv, DecisionInv,
           \/ Restart
           \/ \E s \in Servers :
                 \/ Join(s) \/ Leave(s) \/ LoseWire(s) \/ Mark(s) \/ Reconnect(s)
                 \/ (Daemon!Break(s) \/ Daemon!onDisconnect(s) \/ Daemon!shutdown(s)) /\ UNCHANGED hubOwn
    PROVE  DecisionInv'
<1>0. flips \in Nat /\ crashes \in Nat /\ losses \in Nat
  BY DEF SystemInv, IInv, TypeOK, Daemon!DaemonInv, Daemon!DaemonTypeOK
<1>1. SUFFICES ~Calm'
  BY DEF DecisionInv
<1>2. CASE Restart
  <2>1. crashes' = crashes + 1
    BY <1>2 DEF Restart, HubRestart
  <2> QED
    BY <1>0, <2>1 DEF Calm
<1>3. CASE \E s \in Servers : Join(s) \/ Leave(s) \/ Mark(s)
  <2>1. flips' = flips + 1
    BY <1>3 DEF Join, Leave, Mark, Connect, Disconnect, MarkPresence, Flip
  <2> QED
    BY <1>0, <2>1 DEF Calm
<1>4. CASE \E s \in Servers : Daemon!Break(s) \/ Daemon!shutdown(s)
  <2>1. losses' = losses + 1
    BY <1>4 DEF Daemon!Break, Daemon!shutdown
  <2> QED
    BY <1>0, <2>1 DEF Calm
<1>5. CASE \E s \in Servers :
              LoseWire(s) \/ Reconnect(s) \/ (Daemon!onDisconnect(s) /\ UNCHANGED hubOwn)
  <2>1. UNCHANGED <<losses, flips, crashes>> /\ \E s \in Servers : link[s] # "up"
    BY <1>5 DEF LoseWire, Deliver, Reconnect, Daemon!onConnect, Daemon!onDisconnect, own, hubOwn,
                counters
  <2> QED
    BY <2>1 DEF Calm, DecisionInv
<1> QED
  BY <1>2, <1>3, <1>4, <1>5

\* Every step of the system.
LEMMA DecisionStep ==
    ASSUME SystemInv, DecisionInv, [SystemNext]_allVars
    PROVE  DecisionInv'
<1>1. CASE UNCHANGED allVars
  BY <1>1 DEF allVars, vars, own, DecisionInv, Calm, ServerKnown, SentOnce, Obeyed, Submits,
              Rejections, Runs, Lives, Asks, Begun, AboutToSend, Deciding, Rejecting, Approved
<1>2. CASE HubStep \/ \E t \in Tasks : Wait(t)
  BY <1>2, HubStepKeeps
<1>3. CASE \E c \in Slots, s \in Servers : Receive(c, s)
  BY <1>3, ReceiveKeeps
<1>4. ASSUME NEW s \in Servers, DaemonStep(s)
      PROVE  DecisionInv'
  BY <1>4, StartKeeps, CommandKeeps, ChildKeeps, FaultKeeps DEF DaemonStep, Daemon!Handler
<1>5. CASE \/ Restart
           \/ \E s \in Servers :
                 Join(s) \/ Leave(s) \/ LoseWire(s) \/ Mark(s) \/ Reconnect(s)
  BY <1>5, FaultKeeps
<1> QED
  BY <1>1, <1>2, <1>3, <1>4, <1>5 DEF SystemNext

\* As long as no connection is lost, no presence changes and the Hub is not
\* restarted, the decision about a task that was dispatched once goes to the
\* server on which its only child runs, and a rejection that was written stays
\* on its way until the child is killed.
THEOREM DecisionInvariance == System => []DecisionInv
<1>1. SystemInit => DecisionInv
  BY DecisionStart
<1>2. SystemInv /\ DecisionInv /\ [SystemNext]_allVars => DecisionInv'
  BY DecisionStep
<1> QED
  BY <1>1, <1>2, SystemInvariance, PTL DEF System

\* A rejection is obeyed: once nothing is in flight, an approval that shows
\* REJECTED means that the child which asked for it is killed or gone, even if
\* two devices decided at once and differently (ApprovalsService.decide checks
\* PENDING an await before it writes, TaskRunner.decide obeys the last word).
THEOREM RejectionsKill == System => []RejectionKills
<1>1. SystemInv /\ DecisionInv => RejectionKills
  <2> SUFFICES ASSUME SystemInv, DecisionInv, Quiet, Calm, NEW t \in Tasks, NEW s \in Servers,
                      approval[t] = "REJECTED", Len(attempts[t]) = 1
               PROVE  runner[s][t] = Daemon!NoRunner \/ runner[s][t].killedByHub
    BY DEF RejectionKills, Calm
  <2>1. Obeyed(t)
    <3>1. Len(attempts[t]) <= 1
      OBVIOUS
    <3> QED
      BY <3>1 DEF DecisionInv
  <2>2. \A c \in Slots : ~Rejecting(c, t)
    BY DEF Quiet, Rejecting, Idle
  <2>3. Rejections(s, t) = {}
    BY DEF Quiet, Rejections
  <2>4. ~Lives(s, t)
    BY <2>1, <2>2, <2>3 DEF Obeyed
  <2> QED
    BY <2>4 DEF Lives, Runs
<1> QED
  BY <1>1, DecisionInvariance, SystemInvariance, PTL

=============================================================================
