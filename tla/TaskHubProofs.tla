---------------------------- MODULE TaskHubProofs ----------------------------
(***************************************************************************)
(* Proofs about TaskHub, for any set of tasks, servers, owners, handlers   *)
(* and jobs and any behaviour of the daemons.                              *)
(***************************************************************************)
EXTENDS TaskHub, TLAPS, SequenceTheorems, FiniteSetTheorems

-----------------------------------------------------------------------------
(* How steps may change the tables.                                        *)

\* Tasks stay, and stay with their owner.
TasksKept ==
    /\ task' \in [Tasks -> {NoTask} \cup TaskRow]
    /\ \A t \in Tasks : Exists(t) =>
          Exists(t)' /\ OwnerOf[task'[t].server] = OwnerOf[task[t].server]

\* Attempt rows are rewritten in place, and none becomes TIMED_OUT.
RowsKept ==
    /\ attempts' \in [Tasks -> Seq(AttemptRow)]
    /\ \A t \in Tasks :
          /\ Len(attempts'[t]) = Len(attempts[t])
          /\ \A i \in 1 .. Len(attempts[t]) :
                /\ attempts'[t][i].server = attempts[t][i].server
                /\ attempts'[t][i].status = "TIMED_OUT"
                      => attempts[t][i].status = "TIMED_OUT"

\* Jobs are added, and the ones in the queue left alone.
JobsKept ==
    /\ jobs' \in [JobIds -> {NoJob} \cup Job]
    /\ \A j \in JobIds : jobs[j] # NoJob => jobs'[j] = jobs[j]

-----------------------------------------------------------------------------
(* Lemmas about the operators.                                             *)

\* A rewritten row keeps its place and its table.
LEMMA RewriteRow ==
    ASSUME attempts \in [Tasks -> Seq(AttemptRow)],
           NEW t \in Tasks, NEW n \in 1 .. Len(attempts[t]),
           NEW row \in AttemptRow,
           SetAttempt(t, n, row)
    PROVE  /\ attempts' \in [Tasks -> Seq(AttemptRow)]
           /\ \A u \in Tasks :
                 /\ Len(attempts'[u]) = Len(attempts[u])
                 /\ \A i \in 1 .. Len(attempts[u]) :
                       attempts'[u][i] = IF u = t /\ i = n THEN row
                                                           ELSE attempts[u][i]
<1> DEFINE new == [attempts[t] EXCEPT ![n] = row]
<1>1. attempts[t] \in Seq(AttemptRow)
  OBVIOUS
<1>2. /\ new \in Seq(AttemptRow)
      /\ Len(new) = Len(attempts[t])
      /\ \A j \in 1 .. Len(attempts[t]) : new[j] = IF j = n THEN row ELSE attempts[t][j]
  BY <1>1, ExceptSeq
<1>3. attempts' = [attempts EXCEPT ![t] = new]
  BY DEF SetAttempt
<1> HIDE DEF new
<1>4. QED
  BY <1>2, <1>3

\* SetAttempt of a row that keeps its server and is not TIMED_OUT.
LEMMA RewriteKeepsRows ==
    ASSUME attempts \in [Tasks -> Seq(AttemptRow)],
           NEW t \in Tasks, NEW n \in 1 .. Len(attempts[t]),
           NEW row \in AttemptRow,
           row.server = attempts[t][n].server,
           row.status # "TIMED_OUT",
           SetAttempt(t, n, row)
    PROVE  RowsKept
BY RewriteRow DEF RowsKept

\* A step that leaves the attempts alone keeps the rows.
LEMMA UnchangedKeepsRows ==
    ASSUME attempts \in [Tasks -> Seq(AttemptRow)], UNCHANGED attempts
    PROVE  RowsKept
BY DEF RowsKept

LEMMA UnchangedKeepsTasks ==
    ASSUME task \in [Tasks -> {NoTask} \cup TaskRow], UNCHANGED task
    PROVE  TasksKept
BY DEF TasksKept, Exists

\* Writing a status keeps the task and its server.
LEMMA StatusKeepsTasks ==
    ASSUME task \in [Tasks -> {NoTask} \cup TaskRow],
           NEW t \in Tasks, Exists(t),
           NEW status \in TaskStatuses,
           SetTaskStatus(t, status)
    PROVE  TasksKept
<1>1. task[t] \in TaskRow
  BY DEF Exists
<1>2. task'[t] = [task[t] EXCEPT !.status = status, !.fresh = TRUE]
  BY DEF SetTaskStatus
<1>3. task'[t] \in TaskRow /\ task'[t].server = task[t].server
  BY <1>1, <1>2 DEF TaskRow
<1>4. task'[t] # NoTask
  BY <1>3 DEF TaskRow, NoTask, TaskStatuses
<1>5. \A u \in Tasks : u # t => task'[u] = task[u]
  BY DEF SetTaskStatus
<1>6. task' \in [Tasks -> {NoTask} \cup TaskRow]
  BY <1>1, <1>2, <1>3 DEF SetTaskStatus
<1>7. QED
  BY <1>3, <1>4, <1>5, <1>6 DEF TasksKept, Exists

-----------------------------------------------------------------------------
(* What survives a step that keeps the tasks and the attempt rows.         *)

\* What a handler remembers.
LEMMA CallFrame ==
    ASSUME IInv, TasksKept, RowsKept, NEW a \in {Idle} \cup Activation, CallOK(a)
    PROVE  CallOK(a)'
<1> SUFFICES ASSUME a # Idle PROVE CallOK(a)'
  BY DEF CallOK
<1>1. a.task \in Tasks
  BY DEF Activation
<1>2. Exists(a.task) /\ Exists(a.task)'
  BY <1>1 DEF CallOK, TasksKept
<1>3. Len(attempts'[a.task]) = Len(attempts[a.task])
  BY <1>1 DEF RowsKept
<1>4. OwnerOf[task'[a.task].server] = OwnerOf[task[a.task].server]
  BY <1>1, <1>2 DEF TasksKept
<1> QED
  BY <1>2, <1>3, <1>4 DEF CallOK, Owned

\* The rows of one task.
LEMMA RowsOf ==
    ASSUME IInv, RowsKept, NEW t \in Tasks
    PROVE  /\ DOMAIN attempts'[t] = DOMAIN attempts[t]
           /\ \A i \in DOMAIN attempts[t] :
                 /\ attempts'[t][i].server = attempts[t][i].server
                 /\ attempts'[t][i].status = "TIMED_OUT"
                       => attempts[t][i].status = "TIMED_OUT"
<1>1. attempts[t] \in Seq(AttemptRow) /\ attempts'[t] \in Seq(AttemptRow)
  BY DEF RowsKept, IInv, TypeOK
<1> QED
  BY <1>1 DEF RowsKept

\* What the dispatch job remembers.
LEMMA ProcFrame ==
    ASSUME IInv, TasksKept, RowsKept, JobsKept, UNCHANGED proc
    PROVE  ProcOK'
<1> SUFFICES ASSUME proc # Idle PROVE ProcOK'
  BY DEF ProcOK
<1>1. proc.task \in Tasks /\ proc.job \in JobIds
  BY DEF IInv, TypeOK, Dispatching
<1>2. Exists(proc.task) /\ Exists(proc.task)'
  BY <1>1 DEF IInv, ProcOK, TasksKept
<1>5. jobs[proc.job] # NoJob /\ jobs'[proc.job] = jobs[proc.job]
  BY <1>1 DEF IInv, ProcOK, JobsKept
<1>3. OwnerOf[task'[proc.task].server] = OwnerOf[task[proc.task].server]
  BY <1>1, <1>2 DEF TasksKept
<1>4. /\ DOMAIN attempts'[proc.task] = DOMAIN attempts[proc.task]
      /\ \A i \in DOMAIN attempts[proc.task] :
            /\ attempts'[proc.task][i].server = attempts[proc.task][i].server
            /\ attempts'[proc.task][i].status = "TIMED_OUT"
                  => attempts[proc.task][i].status = "TIMED_OUT"
  BY <1>1, RowsOf
<1> QED
  BY <1>2, <1>3, <1>4, <1>5 DEF IInv, ProcOK, Owned

\* What the watchdog job remembers.
LEMMA DogFrame ==
    ASSUME IInv, RowsKept, UNCHANGED dog, dog = Idle \/ UNCHANGED proc
    PROVE  DogOK'
<1> SUFFICES ASSUME dog # Idle PROVE DogOK'
  BY DEF DogOK
<1>1. \A k \in dog.todo \cup {dog.at} : k.task \in Tasks
  BY DEF IInv, TypeOK, Watching, Stuck
<1> QED
  BY <1>1 DEF IInv, DogOK, RowsKept

\* The attempt history.
LEMMA HistoryFrame ==
    ASSUME IInv, TasksKept, RowsKept
    PROVE  /\ TimedOutServerRetired'
           /\ AttemptsOK'
           /\ \A t \in Tasks : \A i \in DOMAIN attempts'[t] :
                 OwnerOf[attempts'[t][i].server] = OwnerOf[task'[t].server]
<1>1. ASSUME NEW t \in Tasks
      PROVE  /\ attempts[t] \in Seq(AttemptRow)
             /\ attempts'[t] \in Seq(AttemptRow)
             /\ DOMAIN attempts[t] = 1 .. Len(attempts[t])
             /\ DOMAIN attempts'[t] = 1 .. Len(attempts[t])
             /\ attempts'[t] # <<>> <=> attempts[t] # <<>>
  BY EmptySeq DEF RowsKept, IInv, TypeOK
<1>2. TimedOutServerRetired'
  BY <1>1 DEF IInv, TimedOutServerRetired, RowsKept
<1>3. ASSUME NEW t \in Tasks, attempts[t] # <<>>
      PROVE  Exists(t)' /\ OwnerOf[task'[t].server] = OwnerOf[task[t].server]
  BY <1>3 DEF IInv, AttemptsOK, TasksKept
<1>4. ASSUME NEW t \in Tasks, NEW i \in DOMAIN attempts'[t]
      PROVE  OwnerOf[attempts'[t][i].server] = OwnerOf[task'[t].server]
  <2>1. i \in DOMAIN attempts[t] /\ attempts[t] # <<>>
    BY <1>1
  <2>2. attempts'[t][i].server = attempts[t][i].server
    BY <1>1, <2>1 DEF RowsKept
  <2> QED
    BY <1>3, <2>1, <2>2 DEF IInv, OwnerIsolation
<1>5. AttemptsOK'
  BY <1>1, <1>3 DEF AttemptsOK
<1> QED
  BY <1>2, <1>4, <1>5

\* Jobs, approvals and messages a step leaves alone.
LEMMA TableFrame ==
    ASSUME IInv, TasksKept
    PROVE  /\ UNCHANGED approval => ApprovalsOK'
           /\ UNCHANGED jobs => JobsKept /\ JobsOK'
           /\ UNCHANGED wire => WireOK'
<1>1. UNCHANGED approval => ApprovalsOK'
  BY DEF IInv, ApprovalsOK, TasksKept
<1>2. \A j \in JobIds : jobs[j] # NoJob => jobs[j].task \in Tasks
  BY DEF IInv, TypeOK, Job
<1>3. UNCHANGED jobs => JobsKept /\ JobsOK'
  BY <1>2 DEF IInv, TypeOK, JobsOK, JobsKept, TasksKept
<1>4. \A s \in Servers : \A i \in DOMAIN wire[s] : wire[s][i].task \in Tasks
  <2> TAKE s \in Servers
  <2> TAKE i \in DOMAIN wire[s]
  <2>1. wire[s] \in Seq(Message)
    BY DEF IInv, TypeOK
  <2>2. wire[s][i] \in Message
    BY <2>1
  <2> QED
    BY <2>2 DEF Message
<1>5. UNCHANGED wire => WireOK'
  BY <1>4 DEF IInv, WireOK, TasksKept, Owned
<1> QED
  BY <1>1, <1>3, <1>5

\* Together: a step that keeps tasks and rows only has to account for what
\* else it changes.
LEMMA StepFrame ==
    ASSUME IInv, TasksKept, RowsKept, TypeOK',
           ApprovalsOK', JobsOK', WireOK',
           \A c \in Slots : CallOK(call[c])', ProcOK', DogOK'
    PROVE  IInv'
<1>1. OwnerIsolation'
  BY HistoryFrame DEF OwnerIsolation, WireOK, Owned
<1> QED
  BY <1>1, HistoryFrame DEF IInv

-----------------------------------------------------------------------------
(* The parts handlers are made of.                                         *)

\* The activation of slot c is replaced, the others are left alone.
OnlyCall(c) ==
    /\ call' \in [Slots -> {Idle} \cup Activation]
    /\ \A d \in Slots \ {c} : call'[d] = call[d]

HoldsServer == {"sendCancel", "finishCapacity", "failover", "decide",
                "decideTask", "sendDecision"}

LEMMA ReturnOK ==
    ASSUME IInv, NEW c \in Slots, Return(c)
    PROVE  OnlyCall(c) /\ CallOK(call[c])'
<1>1. call \in [Slots -> {Idle} \cup Activation]
  BY DEF IInv, TypeOK
<1> QED
  BY <1>1 DEF Return, OnlyCall, CallOK

LEMMA BeginOK ==
    ASSUME IInv, TasksKept, RowsKept,
           NEW c \in Slots, NEW pc \in CallPcs, NEW t \in Tasks,
           NEW s \in Servers \cup {NoServer}, NEW n \in Nat,
           NEW to \in TaskStatuses \cup {"LOG"},
           Begin(c, Call(pc, t, s, n, to)),
           Exists(t)', n \in 0 .. Len(attempts[t]),
           pc = "decide" => to # "LOG", pc # "decideTask",
           pc \in HoldsServer => Owned(s, t)'
    PROVE  OnlyCall(c) /\ CallOK(call[c])' /\ stimuli' \in Nat
<1> DEFINE a == Call(pc, t, s, n, to)
<1>1. call \in [Slots -> {Idle} \cup Activation] /\ stimuli \in Nat
  BY DEF IInv, TypeOK
<1>2. a \in Activation
  BY DEF Call, Activation
<1>3. call' = [call EXCEPT ![c] = a] /\ stimuli' = stimuli + 1
  BY DEF Begin, Stimulus
<1>4. OnlyCall(c) /\ stimuli' \in Nat /\ call'[c] = a
  BY <1>1, <1>2, <1>3 DEF OnlyCall
<1>5. a.pc = pc /\ a.task = t /\ a.server = s /\ a.row = n /\ a.to = to
  BY DEF Call
<1> HIDE DEF a
<1>6. Len(attempts'[t]) = Len(attempts[t])
  BY DEF RowsKept
<1>7. CallOK(call[c])'
  BY <1>4, <1>5, <1>6 DEF CallOK, HoldsServer
<1> QED
  BY <1>4, <1>7

LEMMA GotoOK ==
    ASSUME IInv, TasksKept, RowsKept,
           NEW c \in Slots, call[c] # Idle, NEW pc \in CallPcs, Goto(c, pc),
           pc \in {"decide", "decideTask"} => call[c].pc = "decide",
           pc \in HoldsServer => call[c].pc \in HoldsServer
    PROVE  OnlyCall(c) /\ CallOK(call[c])'
<1>1. call \in [Slots -> {Idle} \cup Activation] /\ call[c] \in Activation
  BY DEF IInv, TypeOK
<1>2. PICK a \in Activation : a = [call[c] EXCEPT !.pc = pc]
  BY <1>1 DEF Activation
<1>3. call' = [call EXCEPT ![c] = a]
  BY <1>1, <1>2 DEF Goto
<1>4. OnlyCall(c) /\ call'[c] = a
  BY <1>1, <1>3 DEF OnlyCall
<1>5. /\ a.pc = pc /\ a.task = call[c].task /\ a.server = call[c].server
      /\ a.row = call[c].row /\ a.to = call[c].to
  BY <1>1, <1>2 DEF Activation
<1>6. CallOK(call[c])
  BY DEF IInv
<1>7. CallOK(a)
  BY <1>1, <1>5, <1>6 DEF CallOK, HoldsServer
<1>8. CallOK(a)'
  BY <1>7, CallFrame
<1> QED
  BY <1>4, <1>8 DEF CallOK

LEMMA EmitOK ==
    ASSUME IInv, TasksKept, NEW s \in Servers, NEW t \in Tasks,
           NEW event \in {"task:submit", "task:cancel", "approval:decision"},
           NEW approved \in BOOLEAN, Emit(s, event, t, approved),
           Exists(t), Owned(s, t)
    PROVE  wire' \in [Servers -> Seq(Message)] /\ WireOK'
<1> DEFINE m == [event |-> event, task |-> t, approved |-> approved]
<1>1. wire \in [Servers -> Seq(Message)]
  BY DEF IInv, TypeOK
<1>2. m \in Message /\ m.task = t
  BY DEF Message
<1>3. wire' = [wire EXCEPT ![s] = Append(wire[s], m)]
  BY DEF Emit
<1> HIDE DEF m
<1>4. wire' \in [Servers -> Seq(Message)]
  BY <1>1, <1>2, <1>3
<1>5. Exists(t)' /\ Owned(s, t)'
  BY DEF TasksKept, Owned
<1>6. ASSUME NEW r \in Servers, NEW i \in DOMAIN wire'[r]
      PROVE  (Exists(wire[r][i].task) /\ Owned(r, wire[r][i].task))'
  <2>1. CASE r = s /\ i = Len(wire[s]) + 1
    <3>1. wire'[r][i] = m
      BY <1>1, <1>2, <1>3, <2>1
    <3> QED
      BY <1>2, <1>5, <2>1, <3>1
  <2>2. CASE ~(r = s /\ i = Len(wire[s]) + 1)
    <3>1. i \in DOMAIN wire[r] /\ wire'[r][i] = wire[r][i]
      BY <1>1, <1>2, <1>3, <2>2
    <3>2. wire[r][i] \in Message
      BY <1>1, <3>1
    <3>3. wire[r][i].task \in Tasks
      BY <3>2 DEF Message
    <3>4. Exists(wire[r][i].task) /\ Owned(r, wire[r][i].task)
      BY <3>1 DEF IInv, WireOK
    <3> QED
      BY <3>1, <3>3, <3>4 DEF TasksKept, Owned, Exists
  <2> QED
    BY <2>1, <2>2
<1> QED
  BY <1>4, <1>6 DEF WireOK

LEMMA AddJobOK ==
    ASSUME IInv, TasksKept, NEW t \in Tasks, Exists(t), AddJob(t)
    PROVE  JobsKept /\ JobsOK'
<1>1. PICK j \in JobIds : jobs[j] = NoJob /\ jobs' = [jobs EXCEPT ![j] = [task |-> t, left |-> JobTries]]
  BY DEF AddJob
<1>2. jobs \in [JobIds -> {NoJob} \cup Job]
  BY DEF IInv, TypeOK
<1>3. [task |-> t, left |-> JobTries] \in Job
  BY QueueAssumption DEF Job
<1>4. \A i \in JobIds : jobs[i] # NoJob => jobs[i].task \in Tasks /\ Exists(jobs[i].task)
  BY <1>2 DEF Job, IInv, JobsOK
<1>5. Exists(t)' /\ \A u \in Tasks : Exists(u) => Exists(u)'
  BY DEF TasksKept
<1>6. JobsKept
  BY <1>1, <1>2, <1>3 DEF JobsKept
<1>7. JobsOK'
  BY <1>1, <1>2, <1>4, <1>5 DEF JobsOK, Exists
<1> QED
  BY <1>6, <1>7

\* A step of a handler.
LEMMA HandlerStep ==
    ASSUME IInv, TasksKept, RowsKept, NEW c \in Slots,
           OnlyCall(c), CallOK(call[c])',
           UNCHANGED <<serverStatus, room, proc, dog>>,
           stimuli' \in Nat, flips' \in Nat, crashes' \in Nat,
           approval' \in [Tasks -> {"NONE", "PENDING", "APPROVED", "REJECTED"}],
           JobsKept, wire' \in [Servers -> Seq(Message)],
           ApprovalsOK', JobsOK', WireOK'
    PROVE  IInv'
<1>1. TypeOK'
  BY DEF IInv, TypeOK, OnlyCall, TasksKept, RowsKept, JobsKept
<1>2. ASSUME NEW d \in Slots
      PROVE  CallOK(call[d])'
  <2>1. CASE d = c
    BY <2>1
  <2>2. CASE d # c
    <3>1. call[d] \in {Idle} \cup Activation /\ call'[d] = call[d] /\ CallOK(call[d])
      BY <2>2 DEF IInv, TypeOK, OnlyCall
    <3>2. PICK a \in {Idle} \cup Activation : a = call[d]
      BY <3>1
    <3>3. CallOK(a)
      BY <3>1, <3>2 DEF CallOK
    <3>4. CallOK(a)'
      BY <3>3, CallFrame
    <3> QED
      BY <3>1, <3>2, <3>4 DEF CallOK
  <2> QED
    BY <2>1, <2>2
<1>3. ProcOK' /\ DogOK'
  BY ProcFrame, DogFrame
<1> QED
  BY <1>1, <1>2, <1>3, StepFrame

-----------------------------------------------------------------------------
(* One lemma per handler.                                                  *)

\* What the types say of the tables and of an activation in flight.
LEMMA Tables ==
    ASSUME IInv
    PROVE  /\ task \in [Tasks -> {NoTask} \cup TaskRow]
           /\ attempts \in [Tasks -> Seq(AttemptRow)]
           /\ approval \in [Tasks -> {"NONE", "PENDING", "APPROVED", "REJECTED"}]
           /\ wire \in [Servers -> Seq(Message)]
           /\ jobs \in [JobIds -> {NoJob} \cup Job]
           /\ stimuli \in Nat /\ flips \in Nat /\ crashes \in Nat
BY DEF IInv, TypeOK

LEMMA InFlight ==
    ASSUME IInv, NEW c \in Slots, call[c].pc # "idle"
    PROVE  /\ call[c] # Idle
           /\ call[c].task \in Tasks
           /\ Exists(call[c].task)
           /\ call[c].row \in 0 .. Len(attempts[call[c].task])
           /\ call[c].to \in TaskStatuses \cup {"LOG"}
           /\ call[c].pc = "decide" => call[c].to # "LOG"
           /\ call[c].pc = "decideTask" => call[c].to # "LOG"
           /\ call[c].pc \in HoldsServer => Owned(call[c].server, call[c].task)
<1>1. call[c] # Idle
  BY DEF Idle
<1>2. call[c] \in Activation
  BY <1>1 DEF IInv, TypeOK
<1>3. CallOK(call[c])
  BY DEF IInv
<1> QED
  BY <1>1, <1>2, <1>3 DEF CallOK, Activation, HoldsServer

LEMMA SubmitOK ==
    ASSUME IInv, NEW c \in Slots, NEW t \in Tasks, NEW s \in Servers,
           NEW type \in SubmittedTypes, Submit(c, t, s, type)
    PROVE  IInv'
<1> DEFINE row == [status |-> "QUEUED", server |-> s, type |-> type, fresh |-> TRUE]
<1>1. row \in TaskRow /\ row # NoTask
  BY ReportsAssumption DEF TaskRow, TaskStatuses, NoTask
<1>2. task' = [task EXCEPT ![t] = row] /\ ~Exists(t)
  BY DEF Submit
<1> HIDE DEF row
<1>3. TasksKept /\ Exists(t)'
  BY <1>1, <1>2, Tables DEF TasksKept, Exists
<1>4. RowsKept /\ UNCHANGED <<approval, jobs, wire>>
  BY Tables, UnchangedKeepsRows DEF Submit, net
<1>5. OnlyCall(c) /\ CallOK(call[c])' /\ stimuli' \in Nat
  <2>1. Begin(c, Call("enqueue", t, NoServer, 0, "QUEUED"))
    BY DEF Submit
  <2>2. 0 \in 0 .. Len(attempts[t])
    BY Tables
  <2> QED
    BY <1>3, <1>4, <2>1, <2>2, BeginOK DEF CallPcs, TaskStatuses, HoldsServer
<1> QED
  BY <1>3, <1>4, <1>5, Tables, TableFrame, HandlerStep DEF Submit, net

LEMMA EnqueueOK ==
    ASSUME IInv, NEW c \in Slots, Enqueue(c)
    PROVE  IInv'
<1>1. TasksKept /\ RowsKept /\ UNCHANGED <<approval, wire>>
  BY Tables, UnchangedKeepsRows, UnchangedKeepsTasks DEF Enqueue, db, net
<1>2. JobsKept /\ JobsOK'
  BY <1>1, InFlight, AddJobOK DEF Enqueue
<1>3. OnlyCall(c) /\ CallOK(call[c])'
  BY ReturnOK DEF Enqueue
<1> QED
  BY <1>1, <1>2, <1>3, Tables, TableFrame, HandlerStep DEF Enqueue, net, counters

LEMMA CancelOK ==
    ASSUME IInv, NEW c \in Slots, NEW t \in Tasks, Cancel(c, t)
    PROVE  IInv'
<1>1. TasksKept /\ RowsKept /\ UNCHANGED <<approval, jobs, wire>>
  BY Tables, UnchangedKeepsRows, UnchangedKeepsTasks DEF Cancel, db, net
<1>2. PICK s \in Servers : s = task[t].server
  BY Tables DEF Cancel, Exists, TaskRow
<1>3. Exists(t)' /\ Owned(s, t)' /\ 0 \in 0 .. Len(attempts[t])
  BY <1>1, <1>2, Tables DEF Cancel, TasksKept, Owned
<1>4. OnlyCall(c) /\ CallOK(call[c])' /\ stimuli' \in Nat
  <2>1. Begin(c, Call("sendCancel", t, s, 0, "CANCELLED"))
    BY <1>2 DEF Cancel
  <2> QED
    BY <1>1, <1>3, <2>1, BeginOK DEF CallPcs, TaskStatuses
<1> QED
  BY <1>1, <1>4, Tables, TableFrame, HandlerStep DEF Cancel, net

LEMMA SendCancelOK ==
    ASSUME IInv, NEW c \in Slots, SendCancel(c)
    PROVE  IInv'
<1>1. TasksKept /\ RowsKept /\ UNCHANGED <<approval, jobs>>
  BY Tables, UnchangedKeepsRows, UnchangedKeepsTasks DEF SendCancel, db
<1>2. /\ call[c] # Idle /\ call[c].task \in Tasks /\ Exists(call[c].task)
      /\ Owned(call[c].server, call[c].task)
  BY InFlight DEF SendCancel, HoldsServer
<1>3. CASE /\ Emit(call[c].server, "task:cancel", call[c].task, FALSE)
           /\ Goto(c, "write")
  <2>1. wire' \in [Servers -> Seq(Message)] /\ WireOK'
    BY <1>1, <1>2, <1>3, EmitOK DEF Owned
  <2>2. OnlyCall(c) /\ CallOK(call[c])'
    BY <1>1, <1>2, <1>3, GotoOK DEF CallPcs, HoldsServer
  <2> QED
    BY <1>1, <2>1, <2>2, Tables, TableFrame, HandlerStep DEF SendCancel, counters
<1>4. CASE Return(c) /\ UNCHANGED wire
  <2>1. OnlyCall(c) /\ CallOK(call[c])'
    BY <1>4, ReturnOK
  <2> QED
    BY <1>1, <1>4, <2>1, Tables, TableFrame, HandlerStep DEF SendCancel, counters
<1> QED
  BY <1>3, <1>4 DEF SendCancel

LEMMA WriteStatusOK ==
    ASSUME IInv, NEW c \in Slots, WriteStatus(c)
    PROVE  IInv'
<1>1. TasksKept
  BY InFlight, Tables, StatusKeepsTasks DEF WriteStatus
<1>2. RowsKept /\ UNCHANGED <<approval, jobs, wire>>
  BY Tables, UnchangedKeepsRows DEF WriteStatus, net
<1>3. OnlyCall(c) /\ CallOK(call[c])'
  BY ReturnOK DEF WriteStatus
<1> QED
  BY <1>1, <1>2, <1>3, Tables, TableFrame, HandlerStep DEF WriteStatus, net, counters

\* The start of an event handler that looks the current attempt up.
LEMMA LookUpOK ==
    ASSUME IInv, NEW c \in Slots, NEW t \in Tasks, Exists(t),
           NEW pc \in {"touch", "finish", "finishCapacity"},
           NEW s \in Servers \cup {NoServer},
           NEW to \in TaskStatuses \cup {"LOG"},
           pc = "finishCapacity" => Owned(s, t),
           \E n \in 0 .. Len(attempts[t]) : Begin(c, Call(pc, t, s, n, to)),
           UNCHANGED <<db, net, jobs, proc, dog, flips, crashes>>
    PROVE  IInv'
<1>1. TasksKept /\ RowsKept /\ UNCHANGED <<approval, jobs, wire>>
  BY Tables, UnchangedKeepsRows, UnchangedKeepsTasks DEF db, net
<1>2. PICK n \in 0 .. Len(attempts[t]) : Begin(c, Call(pc, t, s, n, to))
  OBVIOUS
<1>3. n \in Nat /\ Exists(t)' /\ (pc = "finishCapacity" => Owned(s, t)')
  BY <1>1, Tables DEF TasksKept, Owned
<1>4. OnlyCall(c) /\ CallOK(call[c])' /\ stimuli' \in Nat
  BY <1>1, <1>2, <1>3, BeginOK DEF CallPcs, HoldsServer
<1> QED
  BY <1>1, <1>4, Tables, TableFrame, HandlerStep DEF net

LEMMA OnStatusOK ==
    ASSUME IInv, NEW c \in Slots, NEW t \in Tasks,
           NEW status \in ReportedStatuses \cup {"LOG"}, OnStatus(c, t, status)
    PROVE  IInv'
<1>1. status \in TaskStatuses \cup {"LOG"}
  BY ReportsAssumption
<1> QED
  BY <1>1, LookUpOK DEF OnStatus

LEMMA OnResultOK ==
    ASSUME IInv, NEW c \in Slots, NEW t \in Tasks,
           NEW status \in {"COMPLETED", "FAILED"}, OnResult(c, t, status)
    PROVE  IInv'
BY LookUpOK DEF OnResult, TaskStatuses

LEMMA OnCapacityResultOK ==
    ASSUME IInv, NEW c \in Slots, NEW t \in Tasks, OnCapacityResult(c, t)
    PROVE  IInv'
<1>1. PICK s \in Servers : s = task[t].server
  BY Tables DEF OnCapacityResult, Exists, TaskRow
<1>2. Owned(s, t)
  BY <1>1 DEF Owned
<1> QED
  BY <1>1, <1>2, LookUpOK DEF OnCapacityResult, TaskStatuses

\* The second step of those handlers: the row that was found is rewritten.
LEMMA RewriteFoundOK ==
    ASSUME IInv, NEW c \in Slots, call[c].pc \in {"touch", "finish", "finishCapacity"},
           call[c].row # 0 =>
               \E row \in AttemptRow :
                   /\ row.status # "TIMED_OUT"
                   /\ row.server = attempts[call[c].task][call[c].row].server
                   /\ SetAttempt(call[c].task, call[c].row, row),
           call[c].row = 0 => UNCHANGED attempts,
           NEW pc \in {"write", "failover"}, Goto(c, pc),
           pc = "failover" => call[c].pc = "finishCapacity",
           UNCHANGED <<task, approval, net, jobs, proc, dog, counters>>
    PROVE  IInv'
<1>1. TasksKept
  BY Tables, UnchangedKeepsTasks
<1>2. RowsKept
  <2>1. CASE call[c].row = 0
    BY <2>1, Tables, UnchangedKeepsRows
  <2>2. CASE call[c].row # 0
    <3>1. call[c].task \in Tasks /\ call[c].row \in 1 .. Len(attempts[call[c].task])
      BY <2>2, InFlight, Tables
    <3> QED
      BY <2>2, <3>1, Tables, RewriteKeepsRows
  <2> QED
    BY <2>1, <2>2
<1>3. OnlyCall(c) /\ CallOK(call[c])'
  BY <1>1, <1>2, InFlight, GotoOK DEF CallPcs, HoldsServer
<1> QED
  BY <1>1, <1>2, <1>3, Tables, TableFrame, HandlerStep DEF net, counters

\* The row a handler found, as a record.
LEMMA FoundRow ==
    ASSUME IInv, NEW c \in Slots, call[c].pc # "idle", call[c].row # 0
    PROVE  attempts[call[c].task][call[c].row] \in AttemptRow
<1>1. call[c].task \in Tasks /\ call[c].row \in 1 .. Len(attempts[call[c].task])
  BY InFlight, Tables
<1>2. attempts[call[c].task] \in Seq(AttemptRow)
  BY <1>1, Tables
<1> QED
  BY <1>1, <1>2

LEMMA TouchAttemptOK ==
    ASSUME IInv, NEW c \in Slots, TouchAttempt(c)
    PROVE  IInv'
<1> DEFINE old == attempts[call[c].task][call[c].row]
           new == [old EXCEPT !.status = "RUNNING", !.fresh = TRUE]
<1>1. ASSUME call[c].row # 0
      PROVE  /\ new \in AttemptRow /\ new.status # "TIMED_OUT" /\ new.server = old.server
             /\ SetAttempt(call[c].task, call[c].row, new)
  <2>1. old \in AttemptRow
    BY <1>1, FoundRow DEF TouchAttempt
  <2>2. new \in AttemptRow /\ new.status # "TIMED_OUT" /\ new.server = old.server
    BY <2>1 DEF AttemptRow, AttemptStatuses
  <2>3. SetAttempt(call[c].task, call[c].row, new)
    BY <1>1 DEF TouchAttempt
  <2> QED
    BY <2>2, <2>3
<1> QED
  BY <1>1, RewriteFoundOK DEF TouchAttempt

LEMMA FinishAttemptOK ==
    ASSUME IInv, NEW c \in Slots, FinishAttempt(c)
    PROVE  IInv'
<1> DEFINE ok == call[c].to = "COMPLETED"
           old == attempts[call[c].task][call[c].row]
           status == IF ok THEN "SUCCEEDED" ELSE "FAILED"
           new == [old EXCEPT !.status = status, !.capacity = ok /\ @, !.fresh = TRUE]
<1>1. ASSUME call[c].row # 0
      PROVE  /\ new \in AttemptRow /\ new.status # "TIMED_OUT" /\ new.server = old.server
             /\ SetAttempt(call[c].task, call[c].row, new)
  <2>1. old \in AttemptRow
    BY <1>1, FoundRow DEF FinishAttempt
  <2>2. (ok /\ old.capacity) \in BOOLEAN
    OBVIOUS
  <2>3. PICK b \in BOOLEAN : b = (ok /\ old.capacity)
    BY <2>2
  <2>4. PICK st \in {"SUCCEEDED", "FAILED"} : st = status
    OBVIOUS
  <2>5. new = [old EXCEPT !.status = st, !.capacity = b, !.fresh = TRUE]
    BY <2>3, <2>4
  <2>6. new \in AttemptRow /\ new.status # "TIMED_OUT" /\ new.server = old.server
    BY <2>1, <2>5 DEF AttemptRow, AttemptStatuses
  <2>7. SetAttempt(call[c].task, call[c].row, new)
    BY <1>1 DEF FinishAttempt
  <2> QED
    BY <2>6, <2>7
<1> HIDE DEF new
<1> QED
  BY <1>1, RewriteFoundOK DEF FinishAttempt

LEMMA FinishCapacityOK ==
    ASSUME IInv, NEW c \in Slots, FinishCapacity(c)
    PROVE  IInv'
<1> DEFINE old == attempts[call[c].task][call[c].row]
           new == [old EXCEPT !.status = "FAILED", !.capacity = TRUE, !.fresh = TRUE]
<1>1. ASSUME call[c].row # 0
      PROVE  /\ new \in AttemptRow /\ new.status # "TIMED_OUT" /\ new.server = old.server
             /\ SetAttempt(call[c].task, call[c].row, new)
  <2>1. old \in AttemptRow
    BY <1>1, FoundRow DEF FinishCapacity
  <2>2. new \in AttemptRow /\ new.status # "TIMED_OUT" /\ new.server = old.server
    BY <2>1 DEF AttemptRow, AttemptStatuses
  <2>3. SetAttempt(call[c].task, call[c].row, new)
    BY <1>1 DEF FinishCapacity
  <2> QED
    BY <2>2, <2>3
<1> QED
  BY <1>1, RewriteFoundOK DEF FinishCapacity

LEMMA WriteLogsOK ==
    ASSUME IInv, NEW c \in Slots, WriteLogs(c)
    PROVE  IInv'
<1>1. PICK status \in TaskStatuses : status = task[call[c].task].status
  BY InFlight, Tables DEF WriteLogs, Exists, TaskRow
<1>2. TasksKept
  BY <1>1, InFlight, Tables, StatusKeepsTasks DEF WriteLogs
<1>3. RowsKept /\ UNCHANGED <<approval, jobs, wire>>
  BY Tables, UnchangedKeepsRows DEF WriteLogs, net
<1>4. OnlyCall(c) /\ CallOK(call[c])'
  BY ReturnOK DEF WriteLogs
<1> QED
  BY <1>2, <1>3, <1>4, Tables, TableFrame, HandlerStep DEF WriteLogs, net, counters

LEMMA FailoverOK ==
    ASSUME IInv, NEW c \in Slots, Failover(c)
    PROVE  IInv'
<1>1. TasksKept /\ RowsKept /\ UNCHANGED <<approval, jobs, wire>>
  BY Tables, UnchangedKeepsRows, UnchangedKeepsTasks DEF Failover, db, net
<1>2. CASE Return(c)
  BY <1>1, <1>2, ReturnOK, Tables, TableFrame, HandlerStep DEF Failover, net, counters
<1>3. CASE \E pc \in {"write", "requeue"} : Goto(c, pc)
  <2>1. OnlyCall(c) /\ CallOK(call[c])'
    BY <1>1, <1>3, InFlight, GotoOK DEF Failover, CallPcs, HoldsServer
  <2> QED
    BY <1>1, <2>1, Tables, TableFrame, HandlerStep DEF Failover, net, counters
<1> QED
  BY <1>2, <1>3 DEF Failover

LEMMA RequeueOK ==
    ASSUME IInv, NEW c \in Slots, Requeue(c)
    PROVE  IInv'
<1>1. TasksKept
  BY InFlight, Tables, StatusKeepsTasks DEF Requeue, TaskStatuses
<1>2. RowsKept /\ UNCHANGED <<approval, jobs, wire>>
  BY Tables, UnchangedKeepsRows DEF Requeue, net
<1>3. OnlyCall(c) /\ CallOK(call[c])'
  BY <1>1, <1>2, InFlight, GotoOK DEF Requeue, CallPcs, HoldsServer
<1> QED
  BY <1>1, <1>2, <1>3, Tables, TableFrame, HandlerStep DEF Requeue, net, counters

\* The approval handlers.
LEMMA OnApprovalRequestOK ==
    ASSUME IInv, NEW c \in Slots, NEW t \in Tasks, OnApprovalRequest(c, t)
    PROVE  IInv'
<1>1. TasksKept /\ RowsKept /\ UNCHANGED <<jobs, wire>>
  BY Tables, UnchangedKeepsRows, UnchangedKeepsTasks DEF OnApprovalRequest, net
<1>2. Exists(t) /\ Exists(t)' /\ 0 \in 0 .. Len(attempts[t])
  BY <1>1, Tables DEF OnApprovalRequest, TasksKept
<1>3. approval' \in [Tasks -> {"NONE", "PENDING", "APPROVED", "REJECTED"}]
  BY Tables DEF OnApprovalRequest
<1>4. \A u \in Tasks : u # t => approval'[u] = approval[u]
  BY Tables DEF OnApprovalRequest
<1>5. ApprovalsOK'
  BY <1>1, <1>2, <1>4 DEF IInv, ApprovalsOK, TasksKept
<1>6. OnlyCall(c) /\ CallOK(call[c])' /\ stimuli' \in Nat
  <2>1. Begin(c, Call("write", t, NoServer, 0, "AWAITING_APPROVAL"))
    BY DEF OnApprovalRequest
  <2> QED
    BY <1>1, <1>2, <2>1, BeginOK DEF CallPcs, TaskStatuses, HoldsServer
<1> QED
  BY <1>1, <1>3, <1>5, <1>6, Tables, TableFrame, HandlerStep DEF OnApprovalRequest, net

LEMMA DecideOK ==
    ASSUME IInv, NEW c \in Slots, NEW t \in Tasks, NEW approve \in BOOLEAN,
           Decide(c, t, approve)
    PROVE  IInv'
<1>1. TasksKept /\ RowsKept /\ UNCHANGED <<approval, jobs, wire>>
  BY Tables, UnchangedKeepsRows, UnchangedKeepsTasks DEF Decide, db, net
<1>2. Exists(t)
  BY DEF Decide, IInv, ApprovalsOK
<1>3. PICK s \in Servers : s = task[t].server
  BY <1>2, Tables DEF Exists, TaskRow
<1>4. PICK to \in {"RUNNING", "CANCELLED"} :
          to = IF approve THEN "RUNNING" ELSE "CANCELLED"
  OBVIOUS
<1>5. Exists(t)' /\ Owned(s, t)' /\ 0 \in 0 .. Len(attempts[t])
  BY <1>1, <1>2, <1>3, Tables DEF TasksKept, Owned
<1>6. OnlyCall(c) /\ CallOK(call[c])' /\ stimuli' \in Nat
  <2>1. Begin(c, Call("decide", t, s, 0, to))
    BY <1>3, <1>4 DEF Decide
  <2> QED
    BY <1>1, <1>5, <2>1, BeginOK DEF CallPcs, TaskStatuses
<1> QED
  BY <1>1, <1>6, Tables, TableFrame, HandlerStep DEF Decide, net

LEMMA DecideApprovalOK ==
    ASSUME IInv, NEW c \in Slots, DecideApproval(c)
    PROVE  IInv'
<1>1. TasksKept /\ RowsKept /\ UNCHANGED <<jobs, wire>>
  BY Tables, UnchangedKeepsRows, UnchangedKeepsTasks DEF DecideApproval, net
<1>2. call[c] # Idle /\ call[c].task \in Tasks /\ Exists(call[c].task)
  BY InFlight DEF DecideApproval
<1>3. approval' \in [Tasks -> {"NONE", "PENDING", "APPROVED", "REJECTED"}]
  BY Tables DEF DecideApproval
<1>4. \A u \in Tasks : u # call[c].task => approval'[u] = approval[u]
  BY Tables DEF DecideApproval
<1>5. ApprovalsOK'
  BY <1>1, <1>2, <1>4 DEF IInv, ApprovalsOK, TasksKept
<1>6. OnlyCall(c) /\ CallOK(call[c])'
  BY <1>1, <1>2, GotoOK DEF DecideApproval, CallPcs, HoldsServer
<1> QED
  BY <1>1, <1>3, <1>5, <1>6, Tables, TableFrame, HandlerStep
     DEF DecideApproval, net, counters

LEMMA DecideTaskOK ==
    ASSUME IInv, NEW c \in Slots, DecideTask(c)
    PROVE  IInv'
<1>1. TasksKept
  BY InFlight, Tables, StatusKeepsTasks DEF DecideTask
<1>2. RowsKept /\ UNCHANGED <<approval, jobs, wire>>
  BY Tables, UnchangedKeepsRows DEF DecideTask, net
<1>3. OnlyCall(c) /\ CallOK(call[c])'
  BY <1>1, <1>2, InFlight, GotoOK DEF DecideTask, CallPcs, HoldsServer
<1> QED
  BY <1>1, <1>2, <1>3, Tables, TableFrame, HandlerStep DEF DecideTask, net, counters

LEMMA SendDecisionOK ==
    ASSUME IInv, NEW c \in Slots, SendDecision(c)
    PROVE  IInv'
<1>1. TasksKept /\ RowsKept /\ UNCHANGED <<approval, jobs>>
  BY Tables, UnchangedKeepsRows, UnchangedKeepsTasks DEF SendDecision, db
<1>2. /\ call[c].task \in Tasks /\ Exists(call[c].task)
      /\ Owned(call[c].server, call[c].task)
  BY InFlight DEF SendDecision, HoldsServer
<1>3. wire' \in [Servers -> Seq(Message)] /\ WireOK'
  <2>1. CASE Emit(call[c].server, "approval:decision", call[c].task, Approved(c))
    <3>1. PICK b \in BOOLEAN : b = Approved(c)
      BY DEF Approved
    <3> QED
      BY <1>1, <1>2, <2>1, <3>1, EmitOK DEF Owned
  <2>2. CASE UNCHANGED wire
    BY <1>1, <2>2, Tables, TableFrame
  <2> QED
    BY <2>1, <2>2 DEF SendDecision
<1>4. OnlyCall(c) /\ CallOK(call[c])'
  BY ReturnOK DEF SendDecision
<1> QED
  BY <1>1, <1>3, <1>4, Tables, TableFrame, HandlerStep DEF SendDecision, counters

-----------------------------------------------------------------------------
(* The dispatch job.                                                       *)

\* A step of the worker that keeps tasks and rows: the handlers do not notice.
LEMMA WorkerStep ==
    ASSUME IInv, TasksKept, RowsKept,
           UNCHANGED <<approval, serverStatus, room, call, counters>>,
           jobs' \in [JobIds -> {NoJob} \cup Job], JobsOK',
           wire' \in [Servers -> Seq(Message)], WireOK',
           proc' \in {Idle} \cup Dispatching, ProcOK',
           dog' \in {Idle} \cup Watching, DogOK'
    PROVE  IInv'
<1>1. TypeOK'
  BY DEF IInv, TypeOK, TasksKept, RowsKept, counters
<1>2. ASSUME NEW c \in Slots
      PROVE  CallOK(call[c])'
  <2>1. PICK a \in {Idle} \cup Activation : a = call[c]
    BY DEF IInv, TypeOK
  <2>2. CallOK(a)
    BY <2>1 DEF IInv, CallOK
  <2>3. CallOK(a)'
    BY <2>2, CallFrame
  <2> QED
    BY <2>1, <2>3 DEF CallOK
<1> QED
  BY <1>1, <1>2, TableFrame, StepFrame

RowPcs == {"send", "setTask", "setAttempt", "failAttempt"}

\* What is known of a dispatch job being processed.
LEMMA AtWork ==
    ASSUME IInv, proc.pc # "idle"
    PROVE  /\ proc \in Dispatching /\ proc # Idle
           /\ proc.task \in Tasks /\ proc.job \in JobIds /\ proc.server \in Servers
           /\ proc.todo \subseteq Servers
           /\ Exists(proc.task) /\ Owned(proc.server, proc.task)
           /\ jobs[proc.job] \in Job /\ jobs[proc.job].left > 0
           /\ proc.pc \in RowPcs => proc.row \in 1 .. Len(attempts[proc.task])
           /\ dog = Idle
<1>1. proc # Idle
  BY DEF Idle
<1>2. proc \in Dispatching
  BY <1>1 DEF IInv, TypeOK
<1>3. /\ proc.task \in Tasks /\ proc.job \in JobIds /\ proc.server \in Servers
      /\ proc.todo \subseteq Servers
  BY <1>2 DEF Dispatching
<1>4. /\ Exists(proc.task) /\ Owned(proc.server, proc.task)
      /\ jobs[proc.job] # NoJob /\ jobs[proc.job].left > 0
      /\ proc.pc \in RowPcs => proc.row \in DOMAIN attempts[proc.task]
      /\ dog = Idle
  BY <1>1 DEF IInv, ProcOK, DogOK, RowPcs
<1>5. attempts[proc.task] \in Seq(AttemptRow) /\ jobs[proc.job] \in {NoJob} \cup Job
  BY <1>3, Tables
<1> QED
  BY <1>1, <1>2, <1>3, <1>4, <1>5

\* The job goes on to its next step.
LEMMA ProcMoves ==
    ASSUME IInv, TasksKept, RowsKept, UNCHANGED jobs, proc.pc # "idle",
           NEW pc \in ProcPcs, proc' = [proc EXCEPT !.pc = pc],
           proc.pc # "candidates", pc \in RowPcs => proc.pc \in RowPcs
    PROVE  proc' \in Dispatching /\ ProcOK'
<1>1. proc \in Dispatching /\ proc # Idle /\ proc.task \in Tasks
  BY AtWork
<1>2. proc' \in Dispatching
  BY <1>1 DEF Dispatching
<1>3. /\ proc'.pc = pc /\ proc'.job = proc.job /\ proc'.task = proc.task
      /\ proc'.server = proc.server /\ proc'.todo = proc.todo /\ proc'.row = proc.row
  BY <1>1 DEF Dispatching
<1>4. Exists(proc.task) /\ Exists(proc.task)'
  BY <1>1, AtWork DEF TasksKept
<1>5. OwnerOf[task'[proc.task].server] = OwnerOf[task[proc.task].server]
  BY <1>1, <1>4 DEF TasksKept
<1>6. /\ DOMAIN attempts'[proc.task] = DOMAIN attempts[proc.task]
      /\ \A i \in DOMAIN attempts[proc.task] :
            /\ attempts'[proc.task][i].server = attempts[proc.task][i].server
            /\ attempts'[proc.task][i].status = "TIMED_OUT"
                  => attempts[proc.task][i].status = "TIMED_OUT"
  BY <1>1, RowsOf
<1>7. /\ Owned(proc.server, proc.task)
      /\ \A s \in proc.todo : Owned(s, proc.task)
      /\ jobs[proc.job] # NoJob /\ jobs[proc.job].task = proc.task
      /\ jobs[proc.job].left > 0
      /\ proc.pc \in RowPcs => proc.row \in DOMAIN attempts[proc.task]
      /\ \A i \in DOMAIN attempts[proc.task] :
            attempts[proc.task][i].status = "TIMED_OUT"
                => attempts[proc.task][i].server \notin proc.todo
  BY <1>1 DEF IInv, ProcOK, RowPcs
<1> QED
  BY <1>2, <1>3, <1>4, <1>5, <1>6, <1>7 DEF ProcOK, Owned, RowPcs

\* The job throws: one try less, and the worker is free.
LEMMA FailJobOK ==
    ASSUME IInv, TasksKept, proc.pc # "idle", FailJob
    PROVE  /\ jobs' \in [JobIds -> {NoJob} \cup Job] /\ JobsOK'
           /\ proc' \in {Idle} \cup Dispatching /\ ProcOK'
           /\ dog = Idle
<1>1. /\ proc.job \in JobIds /\ jobs[proc.job] \in Job /\ jobs[proc.job].left > 0
      /\ dog = Idle
  BY AtWork
<1>2. PICK job \in Job : /\ job = [jobs[proc.job] EXCEPT !.left = @ - 1]
                         /\ job.task = jobs[proc.job].task
  <2>1. jobs[proc.job].left - 1 \in Nat
    BY <1>1 DEF Job
  <2>2. PICK n \in Nat : n = jobs[proc.job].left - 1
    BY <2>1
  <2>3. [jobs[proc.job] EXCEPT !.left = n] \in Job
    BY <1>1, <2>2 DEF Job
  <2> QED
    BY <1>1, <2>2, <2>3 DEF Job
<1>3. jobs' = [jobs EXCEPT ![proc.job] = job] /\ proc' = Idle
  BY <1>1, <1>2 DEF FailJob
<1>4. jobs' \in [JobIds -> {NoJob} \cup Job]
  BY <1>3, Tables
<1>5. jobs[proc.job] # NoJob
  BY <1>1 DEF NoJob, Job
<1>6. \A j \in JobIds : jobs[j] # NoJob => jobs[j].task \in Tasks /\ Exists(jobs[j].task)
  BY Tables DEF Job, IInv, JobsOK
<1>7. ASSUME NEW j \in JobIds, jobs'[j] # NoJob
      PROVE  jobs[j] # NoJob /\ jobs'[j].task = jobs[j].task
  BY <1>2, <1>3, <1>5, <1>7, Tables
<1>8. \A u \in Tasks : Exists(u) => task'[u] # NoTask
  BY DEF TasksKept, Exists
<1>9. JobsOK'
  BY <1>6, <1>7, <1>8 DEF JobsOK, Exists
<1> QED
  BY <1>1, <1>3, <1>4, <1>9 DEF ProcOK

LEMMA TakeJobOK ==
    ASSUME IInv, NEW j \in JobIds, TakeJob(j)
    PROVE  IInv'
<1>1. TasksKept /\ RowsKept /\ UNCHANGED wire
  BY Tables, UnchangedKeepsRows, UnchangedKeepsTasks DEF TakeJob, db, net
<1>2. proc = Idle /\ dog = Idle /\ dog' = Idle /\ DogOK'
  BY DEF TakeJob, WorkerFree, DogOK
<1>3. jobs[j] \in Job /\ jobs[j] # NoJob
  BY Tables DEF TakeJob
<1>4. jobs[j].task \in Tasks /\ Exists(jobs[j].task)
  BY <1>3 DEF Job, IInv, JobsOK
<1>5. CASE jobs' = [jobs EXCEPT ![j] = NoJob] /\ UNCHANGED proc
  <2>1. jobs' \in [JobIds -> {NoJob} \cup Job]
    BY <1>5, Tables
  <2>2. JobsOK'
    BY <1>1, <1>5, Tables DEF JobsOK, IInv, TakeJob, db, Exists
  <2>3. ProcOK' /\ proc' \in {Idle} \cup Dispatching
    BY <1>2, <1>5 DEF ProcOK
  <2> QED
    BY <1>1, <1>2, <2>1, <2>2, <2>3, Tables, TableFrame, WorkerStep
       DEF TakeJob, db, net, counters
<1>6. CASE /\ proc' = [pc |-> "excluded", job |-> j, task |-> jobs[j].task,
                       server |-> task[jobs[j].task].server, todo |-> {}, row |-> 0]
           /\ UNCHANGED jobs
  <2>1. PICK t \in Tasks : t = jobs[j].task
    BY <1>4
  <2>2. PICK s \in Servers : s = task[t].server
    BY <1>4, <2>1, Tables DEF Exists, TaskRow
  <2>3. proc' = [pc |-> "excluded", job |-> j, task |-> t, server |-> s,
                 todo |-> {}, row |-> 0]
    BY <1>6, <2>1, <2>2
  <2>4. proc' \in Dispatching
    BY <2>3 DEF Dispatching, ProcPcs
  <2>5. /\ proc'.pc = "excluded" /\ proc'.job = j /\ proc'.task = t
        /\ proc'.server = s /\ proc'.todo = {}
    BY <2>3
  <2>6. task'[t] # NoTask /\ task'[t].server = s /\ jobs'[j] = jobs[j] /\ jobs[j].left > 0
    BY <1>4, <1>6, <2>1, <2>2 DEF TakeJob, db, Exists
  <2>7. ProcOK'
    BY <1>3, <2>1, <2>5, <2>6 DEF ProcOK, Owned, Exists
  <2> QED
    BY <1>1, <1>2, <1>6, <2>4, <2>7, Tables, TableFrame, WorkerStep
       DEF TakeJob, db, net, counters
<1> QED
  BY <1>5, <1>6 DEF TakeJob

\* The servers left to choose from are those on which the task has not timed
\* out; the owner is looked at in the next step.
LEMMA ReadExcludedOK ==
    ASSUME IInv, ReadExcluded
    PROVE  IInv'
<1>1. TasksKept /\ RowsKept /\ UNCHANGED <<wire, task, attempts, dog, jobs>>
  BY Tables, UnchangedKeepsRows, UnchangedKeepsTasks DEF ReadExcluded, db, net
<1>2. /\ proc.pc = "excluded" /\ proc \in Dispatching /\ proc.task \in Tasks /\ dog = Idle
  BY AtWork DEF ReadExcluded
<1>3. PICK todo \in SUBSET Servers : todo = Servers \ retryExcludedServerIds(proc.task)
  OBVIOUS
<1>4. \A i \in DOMAIN attempts[proc.task] :
          attempts[proc.task][i].status = "TIMED_OUT"
              => attempts[proc.task][i].server \notin todo
  BY <1>3 DEF retryExcludedServerIds
<1>5. proc' = [proc EXCEPT !.pc = "candidates", !.todo = todo]
  BY <1>3 DEF ReadExcluded
<1>6. proc' \in Dispatching
  BY <1>2, <1>5 DEF Dispatching, ProcPcs
<1>7. /\ proc'.pc = "candidates" /\ proc'.job = proc.job /\ proc'.task = proc.task
      /\ proc'.server = proc.server /\ proc'.todo = todo
  BY <1>2, <1>5 DEF Dispatching
<1>8. /\ Exists(proc.task) /\ Owned(proc.server, proc.task)
      /\ jobs[proc.job] # NoJob /\ jobs[proc.job].task = proc.task
      /\ jobs[proc.job].left > 0
  BY <1>2 DEF IInv, ProcOK, Idle
<1>9. ProcOK'
  BY <1>1, <1>4, <1>7, <1>8 DEF ProcOK, Owned, Exists
<1> QED
  BY <1>1, <1>2, <1>6, <1>9, Tables, TableFrame, WorkerStep
     DEF ReadExcluded, db, net, counters, DogOK

LEMMA ChooseCandidatesOK ==
    ASSUME IInv, ChooseCandidates
    PROVE  IInv'
<1> DEFINE found == getDispatchCandidates(proc.server, proc.todo)
<1>1. TasksKept /\ RowsKept /\ UNCHANGED <<wire, task, attempts, dog>>
  BY Tables, UnchangedKeepsRows, UnchangedKeepsTasks DEF ChooseCandidates, db, net
<1>2. /\ proc.pc = "candidates" /\ proc \in Dispatching /\ proc.task \in Tasks
      /\ proc.server \in Servers /\ dog = Idle /\ proc # Idle
      /\ proc.todo \subseteq Servers
      /\ OwnerOf[proc.server] = OwnerOf[task[proc.task].server]
  BY AtWork DEF ChooseCandidates, Owned
<1>3. DogOK'
  BY <1>1, <1>2 DEF DogOK
<1>4. CASE proc' = [proc EXCEPT !.pc = "create", !.todo = found] /\ UNCHANGED jobs
  <2>1. PICK todo \in SUBSET Servers : todo = found
    BY <1>2 DEF getDispatchCandidates
  <2>2. \A s \in todo : OwnerOf[s] = OwnerOf[task[proc.task].server]
    BY <1>2, <2>1 DEF getDispatchCandidates
  <2>3. \A i \in DOMAIN attempts[proc.task] :
            attempts[proc.task][i].status = "TIMED_OUT"
                => attempts[proc.task][i].server \notin todo
    BY <1>2, <2>1 DEF getDispatchCandidates, IInv, ProcOK
  <2>4. proc' = [proc EXCEPT !.pc = "create", !.todo = todo]
    BY <1>4, <2>1
  <2>5. proc' \in Dispatching
    BY <1>2, <2>4 DEF Dispatching, ProcPcs
  <2>6. /\ proc'.pc = "create" /\ proc'.job = proc.job /\ proc'.task = proc.task
        /\ proc'.server = proc.server /\ proc'.todo = todo
    BY <1>2, <2>4 DEF Dispatching
  <2>7. /\ Exists(proc.task) /\ Owned(proc.server, proc.task)
        /\ jobs[proc.job] # NoJob /\ jobs[proc.job].task = proc.task
        /\ jobs[proc.job].left > 0
    BY <1>2 DEF IInv, ProcOK, Idle
  <2>8. ProcOK'
    BY <1>1, <1>4, <2>2, <2>3, <2>6, <2>7 DEF ProcOK, Owned, Exists
  <2> QED
    BY <1>1, <1>2, <1>3, <1>4, <2>5, <2>8, Tables, TableFrame, WorkerStep
       DEF ChooseCandidates, db, net, counters
<1>5. CASE FailJob
  BY <1>1, <1>2, <1>3, <1>5, FailJobOK, Tables, TableFrame, WorkerStep
     DEF ChooseCandidates, db, net, counters
<1> QED
  BY <1>4, <1>5 DEF ChooseCandidates

\* A step that changes the history otherwise: rows may be added or time out.
LEMMA HistoryStep ==
    ASSUME IInv,
           UNCHANGED <<task, approval, serverStatus, room, wire, jobs, call, counters>>,
           attempts' \in [Tasks -> Seq(AttemptRow)],
           \A t \in Tasks : Len(attempts'[t]) >= Len(attempts[t]),
           AttemptsOK', TimedOutServerRetired',
           \A t \in Tasks : \A i \in DOMAIN attempts'[t] :
               OwnerOf[attempts'[t][i].server] = OwnerOf[task[t].server],
           proc' \in {Idle} \cup Dispatching, ProcOK',
           dog' \in {Idle} \cup Watching, DogOK'
    PROVE  IInv'
<1>1. TypeOK'
  BY DEF IInv, TypeOK, counters
<1>2. ApprovalsOK' /\ JobsOK' /\ WireOK'
  BY Tables, UnchangedKeepsTasks, TableFrame
<1>3. OwnerIsolation'
  BY <1>2 DEF OwnerIsolation, WireOK, Owned
<1>4. ASSUME NEW c \in Slots
      PROVE  CallOK(call[c])'
  <2>1. CallOK(call[c]) /\ call[c] \in {Idle} \cup Activation
    BY DEF IInv, TypeOK
  <2>2. CASE call[c] = Idle
    BY <2>2 DEF CallOK
  <2>3. CASE call[c] # Idle
    <3>1. call[c].task \in Tasks
      BY <2>1, <2>3 DEF Activation
    <3>2. /\ Len(attempts'[call[c].task]) \in Nat /\ Len(attempts[call[c].task]) \in Nat
          /\ Len(attempts'[call[c].task]) >= Len(attempts[call[c].task])
      BY <3>1, Tables
    <3>3. call[c].row \in 0 .. Len(attempts'[call[c].task])
      BY <2>1, <2>3, <3>2 DEF CallOK
    <3> QED
      BY <2>1, <2>3, <3>3 DEF CallOK, Owned, Exists
  <2> QED
    BY <2>2, <2>3
<1> QED
  BY <1>1, <1>2, <1>3, <1>4 DEF IInv

\* The new attempt goes to a server the task has not timed out on, because
\* the candidates were chosen that way and no attempt of the task has timed
\* out since: the watchdog does not run while this job does.
LEMMA CreateAttemptOK ==
    ASSUME IInv, CreateAttempt
    PROVE  IInv'
<1>1. /\ proc.pc = "create" /\ proc \in Dispatching /\ proc # Idle /\ proc.task \in Tasks
      /\ proc.todo \subseteq Servers /\ Exists(proc.task) /\ dog = Idle
  BY AtWork DEF CreateAttempt
<1>2. PICK t \in Tasks : t = proc.task
  BY <1>1
<1>3. PICK s \in Servers :
          /\ NextCandidate(proc.todo, proc.server, s)
          /\ attempts' = [attempts EXCEPT ![proc.task] =
                Append(@, [server |-> s, status |-> "DISPATCHING",
                           capacity |-> FALSE, fresh |-> TRUE])]
          /\ proc' = [proc EXCEPT !.pc = "send", !.todo = @ \ {s},
                                  !.row = Len(attempts[proc.task]) + 1]
  BY DEF CreateAttempt
<1>4. PICK row \in AttemptRow :
          row = [server |-> s, status |-> "DISPATCHING", capacity |-> FALSE,
                 fresh |-> TRUE]
  BY DEF AttemptRow, AttemptStatuses
<1>5. row.server = s /\ row.status = "DISPATCHING"
  BY <1>4
<1>6. /\ attempts[t] \in Seq(AttemptRow) /\ Len(attempts[t]) \in Nat
      /\ DOMAIN attempts[t] = 1 .. Len(attempts[t])
  BY Tables
<1>7. PICK n \in Nat : n = Len(attempts[t])
  BY <1>6
<1>8. attempts' = [attempts EXCEPT ![t] = Append(attempts[t], row)]
  BY <1>2, <1>3, <1>4
<1>9. /\ attempts' \in [Tasks -> Seq(AttemptRow)]
      /\ \A u \in Tasks : u # t => attempts'[u] = attempts[u]
      /\ Len(attempts'[t]) = n + 1
      /\ attempts'[t][n + 1] = row
      /\ \A i \in 1 .. n : attempts'[t][i] = attempts[t][i]
      /\ DOMAIN attempts'[t] = 1 .. n + 1
  BY <1>6, <1>7, <1>8, Tables
<1>10. s \in proc.todo
  BY <1>3 DEF NextCandidate
<1>11. /\ Owned(proc.server, t) /\ \A r \in proc.todo : Owned(r, t)
       /\ jobs[proc.job] # NoJob /\ jobs[proc.job].task = t /\ jobs[proc.job].left > 0
       /\ \A i \in DOMAIN attempts[t] :
             attempts[t][i].status = "TIMED_OUT" => attempts[t][i].server \notin proc.todo
  BY <1>1, <1>2 DEF IInv, ProcOK
<1>12. UNCHANGED <<task, approval, serverStatus, room, wire, jobs, call, dog, counters>>
  BY DEF CreateAttempt, net
<1>13. proc' \in Dispatching /\ ProcOK'
  <2>1. PICK todo \in SUBSET Servers : todo = proc.todo \ {s}
    BY <1>1
  <2> PICK m \in Nat : m = n + 1
    OBVIOUS
  <2>2. proc' = [proc EXCEPT !.pc = "send", !.todo = todo, !.row = m]
    BY <1>2, <1>3, <1>7, <2>1
  <2>3. proc' \in Dispatching
    BY <1>1, <2>2 DEF Dispatching, ProcPcs
  <2>4. /\ proc'.pc = "send" /\ proc'.job = proc.job /\ proc'.task = t
        /\ proc'.server = proc.server /\ proc'.todo = todo /\ proc'.row = n + 1
    BY <1>1, <1>2, <2>2 DEF Dispatching
  <2>5. \A i \in DOMAIN attempts'[t] :
            attempts'[t][i].status = "TIMED_OUT" => attempts'[t][i].server \notin todo
    BY <1>5, <1>6, <1>7, <1>9, <1>11, <2>1
  <2>6. \A r \in todo : Owned(r, t)
    BY <1>11, <2>1
  <2>7. proc'.row \in DOMAIN attempts'[t] /\ Exists(t)
    BY <1>1, <1>2, <1>9, <2>4
  <2>8. ProcOK'
    BY <1>11, <1>12, <2>4, <2>5, <2>6, <2>7 DEF ProcOK, Owned, Exists
  <2> QED
    BY <2>3, <2>8
<1>14. DogOK' /\ dog' \in {Idle} \cup Watching
  BY <1>1, <1>12 DEF DogOK
<1>15. AttemptsOK'
  BY <1>1, <1>2, <1>9, <1>12 DEF IInv, AttemptsOK, Exists
<1>16. TimedOutServerRetired'
  <2>1. ASSUME NEW i \in DOMAIN attempts'[t], NEW j \in DOMAIN attempts'[t], i < j,
               attempts'[t][i].server = attempts'[t][j].server
        PROVE  attempts'[t][i].status # "TIMED_OUT"
    <3>1. i \in DOMAIN attempts[t] /\ attempts'[t][i] = attempts[t][i]
      BY <1>6, <1>7, <1>9, <2>1
    <3>2. CASE j = n + 1
      BY <1>5, <1>9, <1>10, <1>11, <2>1, <3>1, <3>2
    <3>3. CASE j # n + 1
      <4>1. j \in DOMAIN attempts[t] /\ attempts'[t][j] = attempts[t][j]
        BY <1>6, <1>7, <1>9, <3>3
      <4> QED
        BY <2>1, <3>1, <4>1 DEF IInv, TimedOutServerRetired
    <3> QED
      BY <3>2, <3>3
  <2> QED
    BY <1>9, <2>1 DEF IInv, TimedOutServerRetired
<1>17. ASSUME NEW u \in Tasks, NEW i \in DOMAIN attempts'[u]
       PROVE  OwnerOf[attempts'[u][i].server] = OwnerOf[task[u].server]
  <2>1. CASE u # t
    BY <1>9, <2>1 DEF IInv, OwnerIsolation
  <2>2. CASE u = t /\ i = n + 1
    BY <1>5, <1>9, <1>10, <1>11, <2>2 DEF Owned
  <2>3. CASE u = t /\ i # n + 1
    <3>1. i \in DOMAIN attempts[t] /\ attempts'[t][i] = attempts[t][i]
      BY <1>6, <1>7, <1>9, <2>3
    <3> QED
      BY <2>3, <3>1 DEF IInv, OwnerIsolation
  <2> QED
    BY <2>1, <2>2, <2>3
<1>18. \A u \in Tasks : Len(attempts'[u]) >= Len(attempts[u])
  <2>1. \A u \in Tasks : Len(attempts[u]) \in Nat
    BY Tables
  <2> QED
    BY <1>7, <1>9, <2>1
<1> QED
  BY <1>9, <1>12, <1>13, <1>14, <1>15, <1>16, <1>17, <1>18, HistoryStep

\* The attempt the job is working on.
LEMMA CandidateOK ==
    ASSUME IInv, proc.pc \in RowPcs
    PROVE  /\ attempts[proc.task][proc.row] \in AttemptRow
           /\ Candidate \in Servers /\ Owned(Candidate, proc.task)
<1>1. /\ proc.task \in Tasks /\ proc.row \in 1 .. Len(attempts[proc.task])
      /\ attempts[proc.task] \in Seq(AttemptRow)
  BY AtWork, Tables DEF RowPcs
<1>2. attempts[proc.task][proc.row] \in AttemptRow /\ proc.row \in DOMAIN attempts[proc.task]
  BY <1>1
<1> QED
  BY <1>1, <1>2 DEF Candidate, AttemptRow, Owned, IInv, OwnerIsolation

LEMMA SendTaskOK ==
    ASSUME IInv, SendTask
    PROVE  IInv'
<1>1. TasksKept /\ RowsKept /\ UNCHANGED jobs
  BY Tables, UnchangedKeepsRows, UnchangedKeepsTasks DEF SendTask, db
<1>2. /\ proc.pc = "send" /\ proc.task \in Tasks /\ Exists(proc.task) /\ dog = Idle
      /\ Candidate \in Servers /\ Owned(Candidate, proc.task)
  BY AtWork, CandidateOK DEF SendTask, RowPcs
<1>3. DogOK' /\ dog' \in {Idle} \cup Watching
  BY <1>2 DEF DogOK, SendTask
<1>4. proc' \in Dispatching /\ ProcOK'
  <2>1. PICK pc \in {"setTask", "failAttempt"} : proc' = [proc EXCEPT !.pc = pc]
    BY DEF SendTask
  <2> QED
    BY <1>1, <1>2, <2>1, ProcMoves DEF ProcPcs, RowPcs
<1>5. wire' \in [Servers -> Seq(Message)] /\ WireOK'
  <2>1. CASE Emit(Candidate, "task:submit", proc.task, FALSE)
    BY <1>1, <1>2, <2>1, EmitOK
  <2>2. CASE UNCHANGED wire
    BY <1>1, <2>2, Tables, TableFrame
  <2> QED
    BY <2>1, <2>2 DEF SendTask
<1> QED
  BY <1>1, <1>3, <1>4, <1>5, Tables, TableFrame, WorkerStep DEF SendTask, db, counters

\* The task moves to the candidate's server: another one of the same owner.
LEMMA SetTaskRunningOK ==
    ASSUME IInv, SetTaskRunning
    PROVE  IInv'
<1>1. /\ proc.pc = "setTask" /\ proc.task \in Tasks /\ Exists(proc.task) /\ dog = Idle
      /\ Candidate \in Servers /\ Owned(Candidate, proc.task)
  BY AtWork, CandidateOK DEF SetTaskRunning, RowPcs
<1>2. PICK t \in Tasks, s \in Servers : t = proc.task /\ s = Candidate
  BY <1>1
<1>3. TasksKept
  <2>1. task[t] \in TaskRow
    BY <1>1, <1>2, Tables DEF Exists
  <2> DEFINE row == [task[t] EXCEPT !.server = s, !.status = "RUNNING", !.fresh = TRUE]
  <2>2. row \in TaskRow /\ row.server = s
    BY <2>1 DEF TaskRow, TaskStatuses
  <2>3. row # NoTask
    BY <2>2 DEF TaskRow, NoTask, TaskStatuses
  <2>4. task' = [task EXCEPT ![t] = row]
    BY <1>2 DEF SetTaskRunning
  <2> HIDE DEF row
  <2> QED
    BY <1>1, <1>2, <2>2, <2>3, <2>4, Tables DEF TasksKept, Exists, Owned
<1>4. RowsKept /\ UNCHANGED <<jobs, wire, approval>>
  BY Tables, UnchangedKeepsRows DEF SetTaskRunning, net
<1>5. proc' \in Dispatching /\ ProcOK'
  BY <1>1, <1>3, <1>4, ProcMoves DEF SetTaskRunning, ProcPcs, RowPcs
<1>6. DogOK' /\ dog' \in {Idle} \cup Watching
  BY <1>1 DEF DogOK, SetTaskRunning
<1> QED
  BY <1>3, <1>4, <1>5, <1>6, Tables, TableFrame, WorkerStep
     DEF SetTaskRunning, net, counters

\* The job rewrites the row it has created.
LEMMA RewriteOwnRow ==
    ASSUME IInv, proc.pc \in RowPcs, NEW row \in AttemptRow,
           row.server = Candidate, row.status # "TIMED_OUT",
           SetAttempt(proc.task, proc.row, row)
    PROVE  RowsKept
<1>1. proc.task \in Tasks /\ proc.row \in 1 .. Len(attempts[proc.task])
  BY AtWork DEF RowPcs
<1> QED
  BY <1>1, Tables, RewriteKeepsRows DEF Candidate

LEMMA SetAttemptRunningOK ==
    ASSUME IInv, SetAttemptRunning
    PROVE  IInv'
<1>1. proc.pc = "setAttempt" /\ proc.job \in JobIds /\ dog = Idle
  BY AtWork DEF SetAttemptRunning
<1>2. TasksKept /\ UNCHANGED <<wire, approval>>
  BY Tables, UnchangedKeepsTasks DEF SetAttemptRunning, net
<1>3. RowsKept
  <2>1. attempts[proc.task][proc.row] \in AttemptRow
    BY <1>1, CandidateOK DEF RowPcs
  <2> DEFINE row == [attempts[proc.task][proc.row] EXCEPT !.status = "RUNNING",
                                                          !.fresh = TRUE]
  <2>2. row \in AttemptRow /\ row.server = Candidate /\ row.status # "TIMED_OUT"
    BY <2>1 DEF AttemptRow, AttemptStatuses, Candidate
  <2> QED
    BY <1>1, <2>2, RewriteOwnRow DEF SetAttemptRunning, RowPcs
<1>4. jobs' \in [JobIds -> {NoJob} \cup Job] /\ JobsOK'
  <2>1. jobs' = [jobs EXCEPT ![proc.job] = NoJob] /\ UNCHANGED task
    BY DEF SetAttemptRunning
  <2> QED
    BY <1>1, <2>1, Tables DEF IInv, JobsOK, Exists
<1>5. /\ proc' \in {Idle} \cup Dispatching /\ ProcOK'
      /\ dog' \in {Idle} \cup Watching /\ DogOK'
  BY <1>1 DEF SetAttemptRunning, ProcOK, DogOK
<1> QED
  BY <1>2, <1>3, <1>4, <1>5, Tables, TableFrame, WorkerStep
     DEF SetAttemptRunning, net, counters

LEMMA FailAttemptOK ==
    ASSUME IInv, FailAttempt
    PROVE  IInv'
<1>1. proc.pc = "failAttempt" /\ dog = Idle
  BY AtWork DEF FailAttempt
<1>2. TasksKept /\ UNCHANGED <<wire, approval, jobs>>
  BY Tables, UnchangedKeepsTasks DEF FailAttempt, net
<1>3. RowsKept
  <2>1. attempts[proc.task][proc.row] \in AttemptRow
    BY <1>1, CandidateOK DEF RowPcs
  <2> DEFINE row == [attempts[proc.task][proc.row] EXCEPT
                         !.status = "FAILED", !.capacity = FALSE, !.fresh = TRUE]
  <2>2. row \in AttemptRow /\ row.server = Candidate /\ row.status # "TIMED_OUT"
    BY <2>1 DEF AttemptRow, AttemptStatuses, Candidate
  <2> QED
    BY <1>1, <2>2, RewriteOwnRow DEF FailAttempt, RowPcs
<1>4. proc' \in Dispatching /\ ProcOK'
  <2>1. PICK pc \in {"logFailure", "create"} : proc' = [proc EXCEPT !.pc = pc]
    BY DEF FailAttempt
  <2> QED
    BY <1>1, <1>2, <1>3, <2>1, ProcMoves DEF ProcPcs, RowPcs
<1>5. dog' \in {Idle} \cup Watching /\ DogOK'
  BY <1>1 DEF FailAttempt, DogOK
<1> QED
  BY <1>2, <1>3, <1>4, <1>5, Tables, TableFrame, WorkerStep DEF FailAttempt, net, counters

LEMMA LogFailureOK ==
    ASSUME IInv, LogFailure
    PROVE  IInv'
<1>1. /\ proc.pc = "logFailure" /\ proc.task \in Tasks /\ Exists(proc.task) /\ dog = Idle
  BY AtWork DEF LogFailure
<1>2. PICK status \in TaskStatuses : status = task[proc.task].status
  BY <1>1, Tables DEF Exists, TaskRow
<1>3. TasksKept
  BY <1>1, <1>2, Tables, StatusKeepsTasks DEF LogFailure
<1>4. RowsKept /\ UNCHANGED <<wire, approval>>
  BY Tables, UnchangedKeepsRows DEF LogFailure, net
<1>5. dog' \in {Idle} \cup Watching /\ DogOK'
  BY <1>1 DEF LogFailure, DogOK
<1> QED
  BY <1>1, <1>3, <1>4, <1>5, FailJobOK, Tables, TableFrame, WorkerStep
     DEF LogFailure, net, counters

-----------------------------------------------------------------------------
(* The watchdog job.                                                       *)

\* What is known of a watchdog job being processed.
LEMMA OnWatch ==
    ASSUME IInv, dog.pc # "idle"
    PROVE  /\ dog \in Watching /\ dog # Idle /\ proc = Idle
           /\ dog.at \in Stuck /\ dog.todo \subseteq Stuck /\ dog.spent \in Nat
           /\ dog.at.task \in Tasks /\ dog.at.row \in 1 .. Len(attempts[dog.at.task])
           /\ dog.at.row = Len(attempts[dog.at.task])
           /\ \A k \in dog.todo : k.row # 0 /\ k.row = Len(attempts[k.task])
           /\ Exists(dog.at.task)
<1>1. dog # Idle
  BY DEF Idle
<1>2. dog \in Watching
  BY <1>1 DEF IInv, TypeOK
<1>3. /\ dog.at \in Stuck /\ dog.todo \subseteq Stuck /\ dog.spent \in Nat
      /\ dog.at.task \in Tasks /\ dog.at.row \in Nat
  BY <1>2 DEF Watching, Stuck
<1>4. /\ proc = Idle
      /\ \A k \in dog.todo \cup {dog.at} : k.row # 0 /\ k.row = Len(attempts[k.task])
  BY <1>1 DEF IInv, DogOK
<1>5. attempts[dog.at.task] # <<>>
  BY <1>4
<1>6. Exists(dog.at.task)
  BY <1>3, <1>5 DEF IInv, AttemptsOK
<1> QED
  BY <1>1, <1>2, <1>3, <1>4, <1>6

\* The watchdog goes on to its next step for the same task.
LEMMA DogMoves ==
    ASSUME IInv, dog.pc # "idle", UNCHANGED proc,
           NEW pc \in DogPcs, NEW n \in Nat,
           dog' = [dog EXCEPT !.pc = pc, !.spent = n],
           \A t \in Tasks : Len(attempts'[t]) = Len(attempts[t])
    PROVE  dog' \in Watching /\ DogOK' /\ ProcOK'
<1>1. dog \in Watching /\ proc = Idle
  BY OnWatch
<1>2. dog' \in Watching
  BY <1>1 DEF Watching
<1>3. dog'.at = dog.at /\ dog'.todo = dog.todo
  BY <1>1 DEF Watching
<1>4. \A k \in dog.todo \cup {dog.at} :
          k.task \in Tasks /\ k.row # 0 /\ k.row = Len(attempts[k.task])
  BY OnWatch DEF Stuck
<1>5. \A k \in dog.todo \cup {dog.at} : k.row # 0 /\ k.row = Len(attempts'[k.task])
  BY <1>4
<1> QED
  BY <1>1, <1>2, <1>3, <1>5 DEF DogOK, ProcOK

\* It takes up the next stuck task, or ends.
LEMMA NextStuckOK ==
    ASSUME IInv, proc = Idle, UNCHANGED proc,
           NEW todo \in SUBSET Stuck, NextStuck(todo),
           \A k \in todo : k.row # 0 /\ k.row = Len(attempts'[k.task])
    PROVE  dog' \in {Idle} \cup Watching /\ DogOK' /\ ProcOK'
<1>1. ProcOK'
  BY DEF ProcOK
<1>2. CASE dog' = Idle
  BY <1>1, <1>2 DEF DogOK
<1>3. CASE \E k \in todo : dog' = [pc |-> "count", todo |-> todo \ {k},
                                   at |-> k, spent |-> 0]
  <2>1. PICK k \in todo : dog' = [pc |-> "count", todo |-> todo \ {k},
                                  at |-> k, spent |-> 0]
    BY <1>3
  <2>2. dog' \in Watching /\ dog'.todo = todo \ {k} /\ dog'.at = k
    BY <2>1 DEF Watching, DogPcs
  <2> QED
    BY <1>1, <2>2 DEF DogOK
<1> QED
  BY <1>2, <1>3 DEF NextStuck

LEMMA ScanOK ==
    ASSUME IInv, Scan
    PROVE  IInv'
<1>1. TasksKept /\ RowsKept /\ UNCHANGED <<jobs, wire, approval, attempts, proc>>
  BY Tables, UnchangedKeepsRows, UnchangedKeepsTasks DEF Scan, db, net
<1>2. StuckTasks \in SUBSET Stuck
  BY BoundsAssumption DEF StuckTasks, Stuck
<1>3. \A k \in StuckTasks : k.row # 0 /\ k.row = Len(attempts[k.task])
  BY DEF StuckTasks
<1>4. dog' \in {Idle} \cup Watching /\ DogOK' /\ ProcOK'
  BY <1>1, <1>2, <1>3, NextStuckOK DEF Scan, WorkerFree
<1>5. proc' \in {Idle} \cup Dispatching
  BY DEF Scan, WorkerFree
<1> QED
  BY <1>1, <1>4, <1>5, Tables, TableFrame, WorkerStep DEF Scan, db, net, counters

LEMMA CountTimeoutsOK ==
    ASSUME IInv, CountTimeouts
    PROVE  IInv'
<1> DEFINE timedOut == {i \in DOMAIN attempts[dog.at.task] :
                           attempts[dog.at.task][i].status = "TIMED_OUT"}
<1>1. TasksKept /\ RowsKept /\ UNCHANGED <<jobs, wire, approval, attempts, proc>>
  BY Tables, UnchangedKeepsRows, UnchangedKeepsTasks DEF CountTimeouts, db, net
<1>2. dog.pc = "count" /\ dog.at.task \in Tasks /\ proc = Idle
  BY OnWatch DEF CountTimeouts
<1>3. Cardinality(timedOut) \in Nat
  <2>1. Len(attempts[dog.at.task]) \in Nat
        /\ DOMAIN attempts[dog.at.task] = 1 .. Len(attempts[dog.at.task])
    BY <1>2, Tables
  <2>2. IsFiniteSet(DOMAIN attempts[dog.at.task])
    BY <2>1, FS_Interval
  <2>3. timedOut \subseteq DOMAIN attempts[dog.at.task]
    OBVIOUS
  <2>4. IsFiniteSet(timedOut)
    BY <2>2, <2>3, FS_Subset
  <2> QED
    BY <2>4, FS_CardinalityType
<1>4. PICK n \in Nat : n = Cardinality(timedOut)
  BY <1>3
<1>5. dog' = [dog EXCEPT !.pc = "timeOut", !.spent = n]
  BY <1>4 DEF CountTimeouts
<1>6. dog' \in Watching /\ DogOK' /\ ProcOK'
  BY <1>1, <1>2, <1>5, DogMoves DEF DogPcs
<1> QED
  BY <1>1, <1>2, <1>6, Tables, TableFrame, WorkerStep DEF CountTimeouts, db, net, counters

\* The attempt that times out is the latest one of its task, so no attempt on
\* the same server follows it.
LEMMA TimeOutOK ==
    ASSUME IInv, TimeOut
    PROVE  IInv'
<1>1. /\ dog.pc = "timeOut" /\ proc = Idle /\ dog \in Watching /\ dog.spent \in Nat
      /\ dog.at.task \in Tasks /\ dog.at.row \in 1 .. Len(attempts[dog.at.task])
      /\ dog.at.row = Len(attempts[dog.at.task])
  BY OnWatch DEF TimeOut
<1>2. UNCHANGED <<task, approval, serverStatus, room, wire, jobs, call, proc, counters>>
  BY DEF TimeOut, net
<1>3. PICK t \in Tasks : t = dog.at.task
  BY <1>1
<1>4. PICK n \in 1 .. Len(attempts[t]) : n = dog.at.row /\ n = Len(attempts[t])
  BY <1>1, <1>3
<1> DEFINE old == attempts[t][n]
           new == [old EXCEPT !.status = "TIMED_OUT", !.capacity = FALSE]
<1>5. old \in AttemptRow
  <2>1. attempts[t] \in Seq(AttemptRow)
    BY Tables
  <2> QED
    BY <2>1
<1>6. new \in AttemptRow /\ new.server = old.server
  BY <1>5 DEF AttemptRow, AttemptStatuses
<1>7. SetAttempt(t, n, new)
  BY <1>3, <1>4 DEF TimeOut
<1> HIDE DEF new
<1>8. /\ attempts' \in [Tasks -> Seq(AttemptRow)]
      /\ \A u \in Tasks :
            /\ Len(attempts'[u]) = Len(attempts[u])
            /\ \A i \in 1 .. Len(attempts[u]) :
                  attempts'[u][i] = IF u = t /\ i = n THEN new ELSE attempts[u][i]
  BY <1>6, <1>7, Tables, RewriteRow
<1>9. \A u \in Tasks :
          /\ Len(attempts[u]) \in Nat
          /\ DOMAIN attempts[u] = 1 .. Len(attempts[u])
          /\ DOMAIN attempts'[u] = 1 .. Len(attempts[u])
          /\ attempts'[u] # <<>> => attempts[u] # <<>>
  <2> TAKE u \in Tasks
  <2>1. attempts[u] \in Seq(AttemptRow) /\ attempts'[u] \in Seq(AttemptRow)
    BY <1>8, Tables
  <2> QED
    BY <1>8, <2>1, EmptySeq
<1>10. \A u \in Tasks : \A i \in DOMAIN attempts[u] :
           /\ attempts'[u][i].server = attempts[u][i].server
           /\ ~(u = t /\ i = n) => attempts'[u][i] = attempts[u][i]
  BY <1>6, <1>8, <1>9
<1>11. TimedOutServerRetired'
  <2>1. ASSUME NEW u \in Tasks, NEW i \in DOMAIN attempts'[u],
               NEW j \in DOMAIN attempts'[u], i < j,
               attempts'[u][i].server = attempts'[u][j].server
        PROVE  attempts'[u][i].status # "TIMED_OUT"
    <3>1. i \in DOMAIN attempts[u] /\ j \in DOMAIN attempts[u]
      BY <1>9
    <3>2. ~(u = t /\ i = n)
      BY <1>4, <1>9, <2>1
    <3>3. attempts[u][i].server = attempts[u][j].server
          /\ attempts'[u][i] = attempts[u][i]
      BY <1>10, <2>1, <3>1, <3>2
    <3> QED
      BY <2>1, <3>1, <3>3 DEF IInv, TimedOutServerRetired
  <2> QED
    BY <2>1 DEF TimedOutServerRetired
<1>12. AttemptsOK'
  BY <1>2, <1>9 DEF IInv, AttemptsOK, Exists
<1>13. \A u \in Tasks : \A i \in DOMAIN attempts'[u] :
           OwnerOf[attempts'[u][i].server] = OwnerOf[task[u].server]
  BY <1>9, <1>10 DEF IInv, OwnerIsolation
<1>14. dog' \in Watching /\ DogOK' /\ ProcOK'
  <2>1. PICK m \in Nat : m = dog.spent
    BY <1>1
  <2>2. dog' = [dog EXCEPT !.pc = "settle", !.spent = m]
    BY <1>1, <2>1 DEF TimeOut, Watching
  <2> QED
    BY <1>1, <1>2, <1>8, <2>2, DogMoves DEF DogPcs
<1>15. \A u \in Tasks : Len(attempts'[u]) >= Len(attempts[u])
  BY <1>8, <1>9
<1> QED
  BY <1>1, <1>2, <1>8, <1>11, <1>12, <1>13, <1>14, <1>15, HistoryStep

LEMMA SettleOK ==
    ASSUME IInv, Settle
    PROVE  IInv'
<1>1. /\ dog.pc = "settle" /\ proc = Idle /\ dog \in Watching /\ dog.spent \in Nat
      /\ dog.at.task \in Tasks /\ Exists(dog.at.task) /\ dog.todo \in SUBSET Stuck
      /\ \A k \in dog.todo : k.row # 0 /\ k.row = Len(attempts[k.task])
  BY OnWatch DEF Settle
<1>2. RowsKept /\ UNCHANGED <<jobs, wire, approval, attempts, proc>>
  BY Tables, UnchangedKeepsRows DEF Settle, net
<1>3. TasksKept
  <2>1. \E status \in TaskStatuses : SetTaskStatus(dog.at.task, status)
    BY DEF Settle, TaskStatuses
  <2> QED
    BY <1>1, <2>1, Tables, StatusKeepsTasks
<1>4. dog' \in {Idle} \cup Watching /\ DogOK' /\ ProcOK'
  <2>1. CASE NextStuck(dog.todo)
    BY <1>1, <1>2, <2>1, NextStuckOK
  <2>2. CASE dog' = [dog EXCEPT !.pc = "requeue"]
    <3>1. PICK m \in Nat : m = dog.spent
      BY <1>1
    <3>2. dog' = [dog EXCEPT !.pc = "requeue", !.spent = m]
      BY <1>1, <2>2, <3>1 DEF Watching
    <3> QED
      BY <1>1, <1>2, <3>2, DogMoves DEF DogPcs
  <2> QED
    BY <2>1, <2>2 DEF Settle
<1> QED
  BY <1>1, <1>2, <1>3, <1>4, Tables, TableFrame, WorkerStep DEF Settle, net, counters

LEMMA RequeueStuckOK ==
    ASSUME IInv, RequeueStuck
    PROVE  IInv'
<1>1. /\ dog.pc = "requeue" /\ proc = Idle
      /\ dog.at.task \in Tasks /\ Exists(dog.at.task) /\ dog.todo \in SUBSET Stuck
      /\ \A k \in dog.todo : k.row # 0 /\ k.row = Len(attempts[k.task])
  BY OnWatch DEF RequeueStuck
<1>2. TasksKept /\ RowsKept /\ UNCHANGED <<wire, approval, attempts, proc>>
  BY Tables, UnchangedKeepsRows, UnchangedKeepsTasks DEF RequeueStuck, db, net
<1>3. JobsKept /\ JobsOK'
  BY <1>1, <1>2, AddJobOK DEF RequeueStuck
<1>4. dog' \in {Idle} \cup Watching /\ DogOK' /\ ProcOK'
  BY <1>1, <1>2, NextStuckOK DEF RequeueStuck
<1> QED
  BY <1>1, <1>2, <1>3, <1>4, Tables, TableFrame, WorkerStep
     DEF RequeueStuck, JobsKept, db, net, counters

-----------------------------------------------------------------------------
(* Time, restarts and the environment.                                     *)

LEMMA TimePassesOK ==
    ASSUME IInv, NEW t \in Tasks, TimePasses(t)
    PROVE  IInv'
<1>1. Exists(t) /\ proc = Idle /\ dog = Idle
      /\ UNCHANGED <<approval, serverStatus, room, wire, jobs, call, proc, dog, counters>>
  BY DEF TimePasses, WorkerFree, net
<1>2. TasksKept
  <2> DEFINE row == [task[t] EXCEPT !.fresh = FALSE]
  <2>1. task[t] \in TaskRow
    BY <1>1, Tables DEF Exists
  <2>2. row \in TaskRow /\ row.server = task[t].server
    BY <2>1 DEF TaskRow
  <2>3. row # NoTask
    BY <2>2 DEF TaskRow, NoTask, TaskStatuses
  <2>4. task' = [task EXCEPT ![t] = row]
    BY DEF TimePasses
  <2> HIDE DEF row
  <2> QED
    BY <2>2, <2>3, <2>4, Tables DEF TasksKept, Exists
<1>3. RowsKept
  <2> DEFINE old == attempts[t]
             aged(i) == [old[i] EXCEPT !.fresh = FALSE]
             new == [i \in 1 .. Len(old) |-> aged(i)]
  <2>1. old \in Seq(AttemptRow) /\ DOMAIN old = 1 .. Len(old) /\ Len(old) \in Nat
    BY Tables
  <2>2. \A i \in 1 .. Len(old) :
            /\ aged(i) \in AttemptRow /\ aged(i).server = old[i].server
            /\ aged(i).status = old[i].status
    <3> TAKE i \in 1 .. Len(old)
    <3>1. old[i] \in AttemptRow
      BY <2>1
    <3> QED
      BY <3>1 DEF AttemptRow
  <2>3. attempts' = [attempts EXCEPT ![t] = new]
    BY <2>1 DEF TimePasses
  <2> HIDE DEF aged, old
  <2>4. new \in Seq(AttemptRow) /\ Len(new) = Len(old)
        /\ \A i \in 1 .. Len(old) : new[i] = aged(i)
    BY <2>1, <2>2, IsASeq
  <2> HIDE DEF new
  <2>5. attempts' \in [Tasks -> Seq(AttemptRow)] /\ attempts'[t] = new
        /\ \A u \in Tasks : u # t => attempts'[u] = attempts[u]
    BY <2>3, <2>4, Tables
  <2> QED
    BY <2>2, <2>4, <2>5 DEF RowsKept, old
<1>4. /\ proc' \in {Idle} \cup Dispatching /\ ProcOK'
      /\ dog' \in {Idle} \cup Watching /\ DogOK'
  BY <1>1 DEF ProcOK, DogOK
<1> QED
  BY <1>1, <1>2, <1>3, <1>4, Tables, TableFrame, WorkerStep

\* A step that only concerns presence and the sockets.
LEMMA NetStep ==
    ASSUME IInv, UNCHANGED <<task, attempts, approval, jobs, call, proc, dog>>,
           serverStatus' \in [Servers -> {"ONLINE", "OFFLINE"}],
           room' \in [Servers -> BOOLEAN],
           wire' \in [Servers -> Seq(Message)], WireOK',
           stimuli' \in Nat, flips' \in Nat, crashes' \in Nat
    PROVE  IInv'
<1>1. TypeOK'
  BY DEF IInv, TypeOK
<1>2. /\ ApprovalsOK' /\ AttemptsOK' /\ JobsOK' /\ ProcOK' /\ DogOK'
      /\ TimedOutServerRetired' /\ \A c \in Slots : CallOK(call[c])'
  BY DEF IInv, ApprovalsOK, AttemptsOK, JobsOK, ProcOK, DogOK, TimedOutServerRetired,
         CallOK, Owned, Exists
<1>3. OwnerIsolation'
  BY DEF IInv, OwnerIsolation, WireOK, Owned
<1> QED
  BY <1>1, <1>2, <1>3 DEF IInv

\* Losing messages of a server keeps the rest in order.
LEMMA DropOK ==
    ASSUME IInv, UNCHANGED task, NEW s \in Servers,
           NEW rest \in {Tail(wire[s]), <<>>}, wire[s] # <<>>,
           wire' = [wire EXCEPT ![s] = rest]
    PROVE  wire' \in [Servers -> Seq(Message)] /\ WireOK'
<1>1. wire[s] \in Seq(Message)
  BY Tables
<1>2. rest \in Seq(Message) /\ \A i \in DOMAIN rest :
          \E j \in DOMAIN wire[s] : rest[i] = wire[s][j]
  <2>1. CASE rest = <<>>
    BY <2>1
  <2>2. CASE rest = Tail(wire[s])
    <3>1. /\ rest \in Seq(Message) /\ Len(rest) = Len(wire[s]) - 1
          /\ \A i \in 1 .. Len(rest) : rest[i] = wire[s][i + 1]
      BY <1>1, <2>2, HeadTailProperties
    <3>2. \A i \in DOMAIN rest : i + 1 \in DOMAIN wire[s] /\ rest[i] = wire[s][i + 1]
      BY <1>1, <3>1
    <3> QED
      BY <3>1, <3>2
  <2> QED
    BY <2>1, <2>2
<1>3. wire' \in [Servers -> Seq(Message)]
  BY <1>2, Tables
<1>4. ASSUME NEW r \in Servers, NEW i \in DOMAIN wire'[r]
      PROVE  (Exists(wire[r][i].task) /\ Owned(r, wire[r][i].task))'
  <2>1. PICK j \in DOMAIN wire[r] : wire'[r][i] = wire[r][j]
    BY <1>2, <1>4, Tables
  <2>2. Exists(wire[r][j].task) /\ Owned(r, wire[r][j].task)
    BY DEF IInv, WireOK
  <2> QED
    BY <2>1, <2>2 DEF Exists, Owned
<1> QED
  BY <1>3, <1>4 DEF WireOK

LEMMA DeliverOK ==
    ASSUME IInv, NEW s \in Servers, Deliver(s)
    PROVE  IInv'
<1>1. UNCHANGED <<task, attempts, approval, serverStatus, room, jobs, call, proc, dog,
                  stimuli, flips, crashes>>
  BY DEF Deliver, db, counters
<1>2. wire' \in [Servers -> Seq(Message)] /\ WireOK'
  BY <1>1, DropOK DEF Deliver
<1> QED
  BY <1>1, <1>2, Tables, NetStep DEF IInv, TypeOK

LEMMA DisconnectOK ==
    ASSUME IInv, NEW s \in Servers, Disconnect(s)
    PROVE  IInv'
<1>1. UNCHANGED <<task, attempts, approval, serverStatus, jobs, call, proc, dog,
                  stimuli, crashes>>
  BY DEF Disconnect, db
<1>2. /\ room' \in [Servers -> BOOLEAN] /\ flips' \in Nat
      /\ serverStatus' \in [Servers -> {"ONLINE", "OFFLINE"}]
  BY <1>1 DEF IInv, TypeOK, Disconnect, Flip
<1>3. wire' \in [Servers -> Seq(Message)] /\ WireOK'
  <2>1. wire' = [wire EXCEPT ![s] = <<>>]
    BY DEF Disconnect
  <2>2. CASE wire[s] = <<>>
    <3>1. wire' = wire
      BY <2>1, <2>2, Tables
    <3> QED
      BY <1>1, <3>1, Tables, UnchangedKeepsTasks, TableFrame
  <2>3. CASE wire[s] # <<>>
    BY <1>1, <2>1, <2>3, DropOK
  <2> QED
    BY <2>2, <2>3
<1> QED
  BY <1>1, <1>2, <1>3, Tables, NetStep

\* Connecting a socket, or writing a presence.
LEMMA PresenceOK ==
    ASSUME IInv, NEW s \in Servers,
           Connect(s) \/ \E status \in {"ONLINE", "OFFLINE"} : MarkPresence(s, status)
    PROVE  IInv'
<1>1. UNCHANGED <<task, attempts, approval, wire, jobs, call, proc, dog, stimuli, crashes>>
  BY DEF Connect, MarkPresence, db
<1>2. /\ room' \in [Servers -> BOOLEAN] /\ flips' \in Nat
      /\ serverStatus' \in [Servers -> {"ONLINE", "OFFLINE"}]
  <2>1. /\ room \in [Servers -> BOOLEAN] /\ flips \in Nat
        /\ serverStatus \in [Servers -> {"ONLINE", "OFFLINE"}]
    BY DEF IInv, TypeOK
  <2>2. CASE Connect(s)
    BY <2>1, <2>2 DEF Connect, Flip
  <2>3. CASE \E status \in {"ONLINE", "OFFLINE"} : MarkPresence(s, status)
    BY <2>1, <2>3 DEF MarkPresence, Flip
  <2> QED
    BY <2>2, <2>3
<1>3. wire' \in [Servers -> Seq(Message)] /\ WireOK'
  BY <1>1, Tables, UnchangedKeepsTasks, TableFrame
<1> QED
  BY <1>1, <1>2, <1>3, Tables, NetStep

LEMMA HubRestartOK ==
    ASSUME IInv, HubRestart
    PROVE  IInv'
<1>1. UNCHANGED <<task, attempts, approval, serverStatus, jobs, stimuli, flips>>
  BY DEF HubRestart, db
<1>2. /\ call' = [c \in Slots |-> Idle] /\ proc' = Idle /\ dog' = Idle
      /\ room' \in [Servers -> BOOLEAN] /\ crashes' \in Nat
      /\ wire' \in [Servers -> Seq(Message)]
      /\ \A s \in Servers : wire'[s] = <<>>
  BY Tables DEF HubRestart
<1>3. TypeOK'
  BY <1>1, <1>2 DEF IInv, TypeOK
<1>4. TasksKept /\ RowsKept
  BY <1>1, Tables, UnchangedKeepsRows, UnchangedKeepsTasks
<1>5. ApprovalsOK' /\ JobsOK' /\ WireOK'
  BY <1>1, <1>2, <1>4, TableFrame DEF WireOK
<1>6. ProcOK' /\ DogOK' /\ \A c \in Slots : CallOK(call[c])'
  BY <1>2 DEF ProcOK, DogOK, CallOK
<1> QED
  BY <1>3, <1>4, <1>5, <1>6, StepFrame

-----------------------------------------------------------------------------
(* The theorems.                                                           *)

\* The Hub starts with empty tables.
LEMMA InitOK == Init => IInv
<1> SUFFICES ASSUME Init PROVE IInv
  OBVIOUS
<1>1. TypeOK
  BY DEF Init, TypeOK
<1>2. ApprovalsOK /\ AttemptsOK /\ JobsOK
  BY DEF Init, ApprovalsOK, AttemptsOK, JobsOK
<1>3. WireOK /\ OwnerIsolation /\ TimedOutServerRetired
  BY DEF Init, WireOK, OwnerIsolation, TimedOutServerRetired
<1>4. ProcOK /\ DogOK /\ \A c \in Slots : CallOK(call[c])
  BY DEF Init, ProcOK, DogOK, CallOK
<1> QED
  BY <1>1, <1>2, <1>3, <1>4 DEF IInv

\* No handler, job or event of the environment breaks it.
LEMMA NextOK == IInv /\ [Next]_vars => IInv'
<1> SUFFICES ASSUME IInv, [Next]_vars PROVE IInv'
  OBVIOUS
<1>1. ASSUME NEW c \in Slots, NEW t \in Tasks, UserRequest(c, t)
      PROVE  IInv'
  BY <1>1, SubmitOK, CancelOK, DecideOK DEF UserRequest
<1>2. ASSUME NEW c \in Slots, NEW t \in Tasks, DaemonEvent(c, t)
      PROVE  IInv'
  BY <1>2, OnStatusOK, OnResultOK, OnCapacityResultOK, OnApprovalRequestOK
     DEF DaemonEvent, OnLog
<1>3. ASSUME NEW c \in Slots, Continue(c)
      PROVE  IInv'
  BY <1>3, EnqueueOK, SendCancelOK, WriteStatusOK, WriteLogsOK, TouchAttemptOK,
     FinishAttemptOK, FinishCapacityOK, FailoverOK, RequeueOK, DecideApprovalOK,
     DecideTaskOK, SendDecisionOK DEF Continue
<1>4. CASE DispatchStep
  BY <1>4, TakeJobOK, ReadExcludedOK, ChooseCandidatesOK, CreateAttemptOK, SendTaskOK,
     SetTaskRunningOK, SetAttemptRunningOK, FailAttemptOK, LogFailureOK
     DEF DispatchStep
<1>5. CASE WatchdogStep
  BY <1>5, ScanOK, CountTimeoutsOK, TimeOutOK, SettleOK, RequeueStuckOK
     DEF WatchdogStep
<1>6. ASSUME NEW s \in Servers, Presence(s)
      PROVE  IInv'
  BY <1>6, DeliverOK, DisconnectOK, PresenceOK DEF Presence
<1>7. CASE UNCHANGED vars
  <2>1. /\ UNCHANGED <<task, attempts, approval, jobs, call, proc, dog>>
        /\ UNCHANGED <<serverStatus, room, wire, stimuli, flips, crashes>>
    BY <1>7 DEF vars
  <2>2. WireOK'
    BY <2>1, Tables, UnchangedKeepsTasks, TableFrame
  <2> QED
    BY <2>1, <2>2, Tables, NetStep DEF IInv, TypeOK
<1> QED
  BY <1>1, <1>2, <1>3, <1>4, <1>5, <1>6, <1>7, TimePassesOK, HubRestartOK DEF Next

\* What the handlers and the jobs of the Hub rely on across their awaits
\* holds in every state, whatever daemons, users and the network do.
THEOREM Invariance == Spec => []IInv
<1>1. Init => IInv
  BY InitOK
<1>2. IInv /\ [Next]_vars => IInv'
  BY NextOK
<1> QED
  BY <1>1, <1>2, PTL DEF Spec

\* The tables, the queue and the locals of every handler keep their types.
THEOREM TypeCorrect == Spec => []TypeOK
<1>1. IInv => TypeOK
  BY DEF IInv
<1> QED
  BY <1>1, Invariance, PTL

\* No dispatch, failover or decision ever reaches a server of another user.
THEOREM OwnersIsolated == Spec => []OwnerIsolation
<1>1. IInv => OwnerIsolation
  BY DEF IInv
<1> QED
  BY <1>1, Invariance, PTL

\* A server that let a task time out is not given that task again.
THEOREM TimedOutServersRetired == Spec => []TimedOutServerRetired
<1>1. IInv => TimedOutServerRetired
  BY DEF IInv
<1> QED
  BY <1>1, Invariance, PTL

-----------------------------------------------------------------------------
(* Two more promises, both void after a restart of the Hub: no attempt row  *)
(* stays DISPATCHING behind the dispatch job that created it, and no QUEUED *)
(* task is without a job.  Both rest on IInv.                              *)

-----------------------------------------------------------------------------
(* NoOrphanDispatching.                                                    *)

\* A step that dispatches nothing: a DISPATCHING row was there before it.
NothingDispatched ==
    \A t \in Tasks : \A i \in DOMAIN attempts'[t] :
        attempts'[t][i].status = "DISPATCHING" =>
            i \in DOMAIN attempts[t] /\ attempts[t][i].status = "DISPATCHING"

\* The dispatch job goes on with the row it is working on.
RowHeld ==
    proc.pc \in RowPcs =>
        proc'.pc \in RowPcs /\ proc'.task = proc.task /\ proc'.row = proc.row

\* A step that dispatches nothing and holds the row, or a restart, leaves no
\* DISPATCHING row behind.
LEMMA OrphanFrame ==
    ASSUME NoOrphanDispatching, NothingDispatched, RowHeld,
           crashes' = 0 => crashes = 0
    PROVE  NoOrphanDispatching'
BY DEF NoOrphanDispatching, NothingDispatched, RowHeld, RowPcs

\* A row rewritten to another status.
LEMMA RewriteDispatchesNothing ==
    ASSUME IInv, NEW t \in Tasks, NEW n \in 1 .. Len(attempts[t]),
           NEW row \in AttemptRow, row.status # "DISPATCHING",
           SetAttempt(t, n, row)
    PROVE  /\ NothingDispatched
           /\ attempts'[t][n].status # "DISPATCHING"
<1>1. /\ attempts' \in [Tasks -> Seq(AttemptRow)]
      /\ \A u \in Tasks :
            /\ Len(attempts'[u]) = Len(attempts[u])
            /\ \A i \in 1 .. Len(attempts[u]) :
                  attempts'[u][i] = IF u = t /\ i = n THEN row ELSE attempts[u][i]
  BY Tables, RewriteRow
<1>2. ASSUME NEW u \in Tasks
      PROVE  DOMAIN attempts'[u] = DOMAIN attempts[u] /\ DOMAIN attempts[u] = 1 .. Len(attempts[u])
  <2>1. attempts[u] \in Seq(AttemptRow) /\ attempts'[u] \in Seq(AttemptRow)
    BY <1>1, Tables
  <2> QED
    BY <1>1, <2>1
<1> QED
  BY <1>1, <1>2 DEF NothingDispatched

\* The three handlers that rewrite the row they found.
LEMMA FoundRowDispatchesNothing ==
    ASSUME IInv, NEW c \in Slots,
           TouchAttempt(c) \/ FinishAttempt(c) \/ FinishCapacity(c)
    PROVE  NothingDispatched
<1>1. CASE call[c].row = 0
  <2>1. UNCHANGED attempts
    BY <1>1 DEF TouchAttempt, FinishAttempt, FinishCapacity
  <2> QED
    BY <2>1 DEF NothingDispatched
<1>2. CASE call[c].row # 0
  <2> DEFINE old == attempts[call[c].task][call[c].row]
  <2>1. /\ call[c].task \in Tasks /\ call[c].row \in 1 .. Len(attempts[call[c].task])
        /\ old \in AttemptRow
    BY <1>2, InFlight, Tables, FoundRow, SMTT(30) DEF TouchAttempt, FinishAttempt, FinishCapacity
  <2>2. \E row \in AttemptRow : /\ row.status # "DISPATCHING"
                                /\ SetAttempt(call[c].task, call[c].row, row)
    <3>1. CASE TouchAttempt(c)
      <4> DEFINE new == [old EXCEPT !.status = "RUNNING", !.fresh = TRUE]
      <4>1. new \in AttemptRow /\ new.status # "DISPATCHING"
        BY <2>1 DEF AttemptRow, AttemptStatuses
      <4>2. SetAttempt(call[c].task, call[c].row, new)
        BY <1>2, <3>1 DEF TouchAttempt
      <4> HIDE DEF new
      <4> QED
        BY <4>1, <4>2
    <3>2. CASE FinishAttempt(c)
      <4> DEFINE ok == call[c].to = "COMPLETED"
                 new == [old EXCEPT !.status = IF ok THEN "SUCCEEDED" ELSE "FAILED",
                                    !.capacity = ok /\ @, !.fresh = TRUE]
      <4>1. PICK b \in BOOLEAN : b = (ok /\ old.capacity)
        OBVIOUS
      <4>2. PICK st \in {"SUCCEEDED", "FAILED"} : st = IF ok THEN "SUCCEEDED" ELSE "FAILED"
        OBVIOUS
      <4>3. new = [old EXCEPT !.status = st, !.capacity = b, !.fresh = TRUE]
        BY <4>1, <4>2
      <4>4. new \in AttemptRow /\ new.status # "DISPATCHING"
        BY <2>1, <4>3 DEF AttemptRow, AttemptStatuses
      <4>5. SetAttempt(call[c].task, call[c].row, new)
        BY <1>2, <3>2 DEF FinishAttempt
      <4> HIDE DEF new
      <4> QED
        BY <4>4, <4>5
    <3>3. CASE FinishCapacity(c)
      <4> DEFINE new == [old EXCEPT !.status = "FAILED", !.capacity = TRUE, !.fresh = TRUE]
      <4>1. new \in AttemptRow /\ new.status # "DISPATCHING"
        BY <2>1 DEF AttemptRow, AttemptStatuses
      <4>2. SetAttempt(call[c].task, call[c].row, new)
        BY <1>2, <3>3 DEF FinishCapacity
      <4> HIDE DEF new
      <4> QED
        BY <4>1, <4>2
    <3> QED
      BY <3>1, <3>2, <3>3
  <2> QED
    BY <2>1, <2>2, RewriteDispatchesNothing
<1> QED
  BY <1>1, <1>2

\* Handlers leave the dispatch job alone.
LEMMA HandlerLeavesNoOrphan ==
    ASSUME IInv, NoOrphanDispatching,
           \/ \E c \in Slots, t \in Tasks : UserRequest(c, t) \/ DaemonEvent(c, t)
           \/ \E c \in Slots : Continue(c)
    PROVE  NoOrphanDispatching'
<1>1. UNCHANGED <<proc, crashes>>
  BY ZenonT(60) DEF UserRequest, DaemonEvent, Continue, Submit, Cancel, Decide, OnStatus, OnLog,
         OnResult, OnCapacityResult, OnApprovalRequest, Enqueue, SendCancel, WriteStatus,
         WriteLogs, TouchAttempt, FinishAttempt, FinishCapacity, Failover, Requeue,
         DecideApproval, DecideTask, SendDecision, counters
<1>2. \/ UNCHANGED attempts
      \/ \E c \in Slots : TouchAttempt(c) \/ FinishAttempt(c) \/ FinishCapacity(c)
  BY DEF UserRequest, DaemonEvent, Continue, Submit, Cancel, Decide, OnStatus, OnLog,
         OnResult, OnCapacityResult, OnApprovalRequest, Enqueue, SendCancel, WriteStatus,
         WriteLogs, Failover, Requeue, DecideApproval, DecideTask, SendDecision, db
<1>3. NothingDispatched
  BY <1>2, FoundRowDispatchesNothing DEF NothingDispatched
<1> QED
  BY <1>1, <1>3, OrphanFrame DEF RowHeld

\* The job creates its row when none is DISPATCHING, holds it, and rewrites
\* it before it lets go.
LEMMA DispatchLeavesNoOrphan ==
    ASSUME IInv, NoOrphanDispatching, DispatchStep
    PROVE  NoOrphanDispatching'
<1>0. UNCHANGED crashes
  BY DEF DispatchStep, TakeJob, ReadExcluded, ChooseCandidates, CreateAttempt, SendTask,
         SetTaskRunning, SetAttemptRunning, FailAttempt, LogFailure, counters
<1>1. CASE \E j \in JobIds : TakeJob(j)
  <2>1. UNCHANGED attempts /\ proc = Idle
    BY <1>1 DEF TakeJob, WorkerFree, db
  <2> QED
    BY <1>0, <2>1, OrphanFrame DEF NothingDispatched, RowHeld, RowPcs, Idle
<1>2. CASE ReadExcluded \/ ChooseCandidates \/ LogFailure
  <2>1. UNCHANGED attempts /\ proc.pc \notin RowPcs
    BY <1>2 DEF ReadExcluded, ChooseCandidates, LogFailure, db, RowPcs
  <2> QED
    BY <1>0, <2>1, OrphanFrame DEF NothingDispatched, RowHeld
<1>3. CASE SendTask \/ SetTaskRunning
  <2>1. UNCHANGED attempts
    BY <1>3 DEF SendTask, SetTaskRunning, db
  <2>2. proc \in Dispatching
    BY <1>3, AtWork DEF SendTask, SetTaskRunning
  <2>3. PICK pc \in {"setTask", "failAttempt", "setAttempt"} : proc' = [proc EXCEPT !.pc = pc]
    BY <1>3 DEF SendTask, SetTaskRunning
  <2>4. RowHeld
    BY <2>2, <2>3 DEF RowHeld, RowPcs, Dispatching
  <2> QED
    BY <1>0, <2>1, <2>4, OrphanFrame DEF NothingDispatched
<1>4. CASE SetAttemptRunning \/ FailAttempt
  <2> DEFINE old == attempts[proc.task][proc.row]
  <2>1. /\ proc.pc \in RowPcs /\ proc.task \in Tasks
        /\ proc.row \in 1 .. Len(attempts[proc.task]) /\ old \in AttemptRow
    BY <1>4, AtWork, CandidateOK DEF SetAttemptRunning, FailAttempt, RowPcs
  <2>2. \E row \in AttemptRow : /\ row.status # "DISPATCHING"
                                /\ SetAttempt(proc.task, proc.row, row)
    <3>1. CASE SetAttemptRunning
      <4> DEFINE new == [old EXCEPT !.status = "RUNNING", !.fresh = TRUE]
      <4>1. new \in AttemptRow /\ new.status # "DISPATCHING"
        BY <2>1 DEF AttemptRow, AttemptStatuses
      <4>2. SetAttempt(proc.task, proc.row, new)
        BY <3>1 DEF SetAttemptRunning
      <4> HIDE DEF new
      <4> QED
        BY <4>1, <4>2
    <3>2. CASE FailAttempt
      <4> DEFINE new == [old EXCEPT !.status = "FAILED", !.capacity = FALSE, !.fresh = TRUE]
      <4>1. new \in AttemptRow /\ new.status # "DISPATCHING"
        BY <2>1 DEF AttemptRow, AttemptStatuses
      <4>2. SetAttempt(proc.task, proc.row, new)
        BY <3>2 DEF FailAttempt
      <4> HIDE DEF new
      <4> QED
        BY <4>1, <4>2
    <3> QED
      BY <1>4, <3>1, <3>2
  <2>3. NothingDispatched /\ attempts'[proc.task][proc.row].status # "DISPATCHING"
    BY <2>1, <2>2, RewriteDispatchesNothing
  <2>4. ASSUME crashes' = 0, NEW t \in Tasks, NEW i \in DOMAIN attempts'[t],
               attempts'[t][i].status = "DISPATCHING"
        PROVE  FALSE
    <3>1. i \in DOMAIN attempts[t] /\ attempts[t][i].status = "DISPATCHING"
      BY <2>3, <2>4 DEF NothingDispatched
    <3>2. proc.task = t /\ proc.row = i
      BY <1>0, <2>4, <3>1 DEF NoOrphanDispatching
    <3> QED
      BY <2>3, <2>4, <3>2
  <2> QED
    BY <2>4 DEF NoOrphanDispatching
<1>5. CASE CreateAttempt
  <2>1. proc \in Dispatching /\ proc.task \in Tasks /\ proc.pc = "create"
    BY <1>5, AtWork DEF CreateAttempt
  <2>2. attempts[proc.task] \in Seq(AttemptRow)
    BY <2>1, Tables
  <2>3. PICK s \in Servers :
          /\ attempts' = [attempts EXCEPT ![proc.task] =
                Append(@, [server |-> s, status |-> "DISPATCHING",
                           capacity |-> FALSE, fresh |-> TRUE])]
          /\ proc' = [proc EXCEPT !.pc = "send", !.todo = @ \ {s},
                                  !.row = Len(attempts[proc.task]) + 1]
    BY <1>5 DEF CreateAttempt
  <2>4. proc'.pc = "send" /\ proc'.task = proc.task /\ proc'.row = Len(attempts[proc.task]) + 1
    BY <2>1, <2>3 DEF Dispatching
  <2> DEFINE row == [server |-> s, status |-> "DISPATCHING", capacity |-> FALSE, fresh |-> TRUE]
  <2>5. row \in AttemptRow
    BY DEF AttemptRow, AttemptStatuses
  <2>6. attempts'[proc.task] = Append(attempts[proc.task], row)
        /\ \A u \in Tasks : u # proc.task => attempts'[u] = attempts[u]
    BY <2>1, <2>3, Tables
  <2> HIDE DEF row
  <2>7. \A i \in DOMAIN attempts'[proc.task] :
            \/ i = Len(attempts[proc.task]) + 1
            \/ /\ i \in DOMAIN attempts[proc.task]
               /\ attempts'[proc.task][i] = attempts[proc.task][i]
    BY <2>2, <2>5, <2>6
  <2>8. ASSUME crashes' = 0, NEW t \in Tasks, NEW i \in DOMAIN attempts[t]
        PROVE  attempts[t][i].status # "DISPATCHING"
    BY <1>0, <2>1, <2>8 DEF NoOrphanDispatching
  <2> QED
    BY <2>4, <2>6, <2>7, <2>8 DEF NoOrphanDispatching
<1> QED
  BY <1>1, <1>2, <1>3, <1>4, <1>5 DEF DispatchStep

\* The watchdog rewrites a row to TIMED_OUT.
LEMMA WatchdogLeavesNoOrphan ==
    ASSUME IInv, NoOrphanDispatching, WatchdogStep
    PROVE  NoOrphanDispatching'
<1>1. UNCHANGED <<proc, crashes>>
  BY DEF WatchdogStep, Scan, CountTimeouts, TimeOut, Settle, RequeueStuck, counters
<1>2. CASE UNCHANGED attempts
  BY <1>1, <1>2, OrphanFrame DEF NothingDispatched, RowHeld
<1>3. CASE TimeOut
  <2> DEFINE old == attempts[dog.at.task][dog.at.row]
             new == [old EXCEPT !.status = "TIMED_OUT", !.capacity = FALSE]
  <2>1. dog.at.task \in Tasks /\ dog.at.row \in 1 .. Len(attempts[dog.at.task])
    BY <1>3, OnWatch DEF TimeOut
  <2>2. attempts[dog.at.task] \in Seq(AttemptRow)
    BY <2>1, Tables
  <2>3. old \in AttemptRow
    BY <2>1, <2>2
  <2>4. new \in AttemptRow /\ new.status # "DISPATCHING"
    BY <2>3 DEF AttemptRow, AttemptStatuses
  <2>5. SetAttempt(dog.at.task, dog.at.row, new)
    BY <1>3 DEF TimeOut
  <2> HIDE DEF new
  <2>6. NothingDispatched
    BY <2>1, <2>4, <2>5, RewriteDispatchesNothing
  <2> QED
    BY <1>1, <2>6, OrphanFrame DEF RowHeld
<1> QED
  BY <1>2, <1>3 DEF WatchdogStep, Scan, CountTimeouts, Settle, RequeueStuck, db

\* Ageing the rows keeps their statuses.
LEMMA TimeLeavesNoOrphan ==
    ASSUME IInv, NoOrphanDispatching, NEW t \in Tasks, TimePasses(t)
    PROVE  NoOrphanDispatching'
<1>1. UNCHANGED <<proc, crashes>>
  BY DEF TimePasses, counters
<1>2. ASSUME NEW i \in DOMAIN attempts[t]
      PROVE  [attempts[t][i] EXCEPT !.fresh = FALSE].status = attempts[t][i].status
  <2>1. attempts[t] \in Seq(AttemptRow)
    BY Tables
  <2>2. attempts[t][i] \in AttemptRow
    BY <2>1
  <2> QED
    BY <2>2 DEF AttemptRow
<1>3. /\ attempts'[t] = [i \in DOMAIN attempts[t] |-> [attempts[t][i] EXCEPT !.fresh = FALSE]]
      /\ \A u \in Tasks : u # t => attempts'[u] = attempts[u]
  BY Tables DEF TimePasses
<1>4. ASSUME NEW u \in Tasks
      PROVE  /\ DOMAIN attempts'[u] = DOMAIN attempts[u]
             /\ \A i \in DOMAIN attempts[u] : attempts'[u][i].status = attempts[u][i].status
  BY <1>2, <1>3, ZenonT(60)
<1>5. NothingDispatched
  BY <1>4 DEF NothingDispatched
<1> QED
  BY <1>1, <1>5, OrphanFrame DEF RowHeld

\* No step leaves a DISPATCHING row behind.
LEMMA NextLeavesNoOrphan ==
    ASSUME IInv, NoOrphanDispatching, [Next]_vars
    PROVE  NoOrphanDispatching'
<1>1. CASE HubRestart
  <2>1. crashes' # 0
    BY <1>1, Tables DEF HubRestart
  <2> QED
    BY <2>1 DEF NoOrphanDispatching
<1>2. CASE \E s \in Servers : Presence(s)
  <2>1. UNCHANGED <<attempts, proc, crashes>>
    BY <1>2 DEF Presence, Connect, Disconnect, Deliver, MarkPresence, db, counters
  <2> QED
    BY <2>1, OrphanFrame DEF NothingDispatched, RowHeld
<1>3. CASE UNCHANGED vars
  BY <1>3, OrphanFrame DEF vars, NothingDispatched, RowHeld
<1> QED
  BY <1>1, <1>2, <1>3, HandlerLeavesNoOrphan, DispatchLeavesNoOrphan,
     WatchdogLeavesNoOrphan, TimeLeavesNoOrphan DEF Next

\* Unless the Hub is restarted, every DISPATCHING row is the one the dispatch
\* job is working on: failover, the watchdog and late daemon events in between
\* leave none behind.
THEOREM NoOrphans == Spec => []NoOrphanDispatching
<1>1. Init => NoOrphanDispatching
  BY DEF Init, NoOrphanDispatching
<1>2. IInv /\ NoOrphanDispatching /\ [Next]_vars => NoOrphanDispatching'
  BY NextLeavesNoOrphan
<1> QED
  BY <1>1, <1>2, Invariance, PTL DEF Spec

-----------------------------------------------------------------------------
(* NoQueuedTaskForgotten.                                                  *)

\* A handler that is going to write a status will not write QUEUED: that is
\* written in the step before "enqueue", which only adds the job.
NoLateQueued ==
    \A c \in Slots :
        call[c].pc \notin {"idle", "enqueue"} => call[c].to # "QUEUED"

\* What NoQueuedTaskForgotten says of one step.
NoneLost ==
    \A t \in Tasks : Forgotten(t)' =>
        Forgotten(t) \/ (proc # Idle /\ LastTryFails(t)) \/ crashes' # crashes

\* A job of t that will read the task's status.
WillRead(j, t) ==
    /\ jobs[j] # NoJob /\ jobs[j].task = t /\ jobs[j].left > 0
    /\ ~(proc.pc = "setAttempt" /\ proc.job = j)

\* No step but Submit, Requeue and Settle makes a task QUEUED.
NothingQueued ==
    \A t \in Tasks : task'[t].status = "QUEUED" => task[t].status = "QUEUED"

\* Handlers and jobs that were about to look at t still are.
LookersKept(t) ==
    /\ \A j \in JobIds : WillRead(j, t) => WillRead(j, t)'
    /\ \A c \in Slots : call[c].pc = "enqueue" => call'[c] = call[c]
    /\ dog.pc = "requeue" => dog' = dog

LEMMA LookersFrame ==
    ASSUME NEW t \in Tasks, LookersKept(t), WillBeLookedAt(t)
    PROVE  WillBeLookedAt(t)'
BY DEF LookersKept, WillBeLookedAt, WillRead

\* A step that queues nothing and leaves the lookers alone.
LEMMA QueueFrame ==
    ASSUME NothingQueued,
           \A t \in Tasks : task[t].status = "QUEUED" =>
               \/ LookersKept(t)
               \/ task'[t].status # "QUEUED"
               \/ proc # Idle /\ LastTryFails(t)
    PROVE  NoneLost
BY LookersFrame DEF NoneLost, Forgotten, NothingQueued

\* What SetTaskStatus leaves in the table.
LEMMA StatusWritten ==
    ASSUME IInv, NEW t \in Tasks, Exists(t), NEW status, SetTaskStatus(t, status)
    PROVE  /\ task'[t].status = status
           /\ \A u \in Tasks : u # t => task'[u] = task[u]
<1>1. task[t] \in TaskRow
  BY Tables DEF Exists
<1>2. task'[t] = [task[t] EXCEPT !.status = status, !.fresh = TRUE]
  BY Tables DEF SetTaskStatus
<1>3. task'[t].status = status
  BY <1>1, <1>2 DEF TaskRow
<1>4. \A u \in Tasks : u # t => task'[u] = task[u]
  BY Tables DEF SetTaskStatus
<1> QED
  BY <1>3, <1>4

\* The job that is added is not the one being processed.
LEMMA AddedJobLooks ==
    ASSUME IInv, NEW t \in Tasks, AddJob(t), UNCHANGED proc
    PROVE  /\ \E j \in JobIds : WillRead(j, t)'
           /\ \A u \in Tasks : \A j \in JobIds : WillRead(j, u) => WillRead(j, u)'
<1>1. PICK j \in JobIds : jobs[j] = NoJob /\ jobs' = [jobs EXCEPT ![j] = [task |-> t, left |-> JobTries]]
  BY DEF AddJob
<1>2. jobs'[j] = [task |-> t, left |-> JobTries] /\ \A i \in JobIds : i # j => jobs'[i] = jobs[i]
  BY <1>1, Tables
<1>3. jobs'[j] # NoJob /\ jobs'[j].task = t /\ jobs'[j].left > 0
  BY <1>2, QueueAssumption DEF NoJob
<1>4. proc.pc = "setAttempt" => proc.job # j
  BY <1>1 DEF IInv, ProcOK, Idle
<1> QED
  BY <1>1, <1>2, <1>3, <1>4 DEF WillRead

\* How a handler's activation may change.
LEMMA CallChange ==
    ASSUME IInv, NEW c \in Slots
    PROVE  /\ \A pc, t, s, n, to :
                 Begin(c, Call(pc, t, s, n, to)) =>
                     /\ call[c].pc = "idle"
                     /\ call'[c].pc = pc /\ call'[c].task = t /\ call'[c].to = to
                     /\ \A d \in Slots \ {c} : call'[d] = call[d]
           /\ \A pc : Goto(c, pc) /\ call[c].pc # "idle" =>
                     /\ call'[c].pc = pc
                     /\ call'[c].task = call[c].task /\ call'[c].to = call[c].to
                     /\ \A d \in Slots \ {c} : call'[d] = call[d]
           /\ Return(c) =>
                     /\ call'[c].pc = "idle"
                     /\ \A d \in Slots \ {c} : call'[d] = call[d]
<1>1. call \in [Slots -> {Idle} \cup Activation]
  BY DEF IInv, TypeOK
<1>2. ASSUME NEW pc, NEW t, NEW s, NEW n, NEW to, Begin(c, Call(pc, t, s, n, to))
      PROVE  /\ call[c].pc = "idle"
             /\ call'[c].pc = pc /\ call'[c].task = t /\ call'[c].to = to
             /\ \A d \in Slots \ {c} : call'[d] = call[d]
  BY <1>1, <1>2 DEF Begin, Call, Idle
<1>3. ASSUME NEW pc, Goto(c, pc), call[c].pc # "idle"
      PROVE  /\ call'[c].pc = pc
             /\ call'[c].task = call[c].task /\ call'[c].to = call[c].to
             /\ \A d \in Slots \ {c} : call'[d] = call[d]
  <2>1. call[c] \in Activation
    BY <1>1, <1>3 DEF Idle
  <2>2. call'[c] = [call[c] EXCEPT !.pc = pc] /\ \A d \in Slots \ {c} : call'[d] = call[d]
    BY <1>1, <1>3 DEF Goto
  <2> QED
    BY <2>1, <2>2 DEF Activation
<1>4. ASSUME Return(c)
      PROVE  /\ call'[c].pc = "idle"
             /\ \A d \in Slots \ {c} : call'[d] = call[d]
  BY <1>1, <1>4 DEF Return, Idle
<1> QED
  BY <1>2, <1>3, <1>4

\* The start of a handler: it will not write QUEUED, except Submit, whose row
\* is already QUEUED and whose next step adds the job.
LEMMA RequestQueues ==
    ASSUME IInv, NoLateQueued, NEW c \in Slots, NEW t \in Tasks,
           UserRequest(c, t) \/ DaemonEvent(c, t)
    PROVE  NoneLost /\ NoLateQueued'
<1>1. UNCHANGED <<jobs, proc, dog, crashes>>
  BY DEF UserRequest, DaemonEvent, Submit, Cancel, Decide, OnStatus, OnLog, OnResult,
         OnCapacityResult, OnApprovalRequest
<1>2. \E pc, s, n, to :
          /\ Begin(c, Call(pc, t, s, n, to))
          /\ \/ UNCHANGED task /\ to # "QUEUED"
             \/ /\ pc = "enqueue"
                /\ \A u \in Tasks : u # t => task'[u] = task[u]
  <2>1. CASE \E s \in Servers, type \in SubmittedTypes : Submit(c, t, s, type)
    <3>1. /\ Begin(c, Call("enqueue", t, NoServer, 0, "QUEUED"))
          /\ \A u \in Tasks : u # t => task'[u] = task[u]
      BY <2>1, Tables DEF Submit
    <3> QED
      BY <3>1
  <2>2. CASE Cancel(c, t)
    <3>1. UNCHANGED task /\ Begin(c, Call("sendCancel", t, task[t].server, 0, "CANCELLED"))
      BY <2>2 DEF Cancel, db
    <3> QED
      BY <3>1
  <2>3. CASE \E approve \in BOOLEAN : Decide(c, t, approve)
    <3>1. PICK to \in {"RUNNING", "CANCELLED"} :
              UNCHANGED task /\ Begin(c, Call("decide", t, task[t].server, 0, to))
      BY <2>3 DEF Decide, db
    <3> QED
      BY <3>1
  <2>4. CASE \E status \in ReportedStatuses \cup {"LOG"} : OnStatus(c, t, status)
    <3>1. PICK status \in ReportedStatuses \cup {"LOG"}, n \in 0 .. Len(attempts[t]) :
              UNCHANGED task /\ Begin(c, Call("touch", t, NoServer, n, status))
      BY <2>4 DEF OnStatus, db
    <3>2. status # "QUEUED"
      BY ReportsAssumption
    <3> QED
      BY <3>1, <3>2
  <2>5. CASE \E status \in {"COMPLETED", "FAILED"} : OnResult(c, t, status)
    <3>1. PICK status \in {"COMPLETED", "FAILED"}, n \in 0 .. Len(attempts[t]) :
              UNCHANGED task /\ Begin(c, Call("finish", t, NoServer, n, status))
      BY <2>5 DEF OnResult, db
    <3> QED
      BY <3>1
  <2>6. CASE OnCapacityResult(c, t)
    <3>1. PICK n \in 0 .. Len(attempts[t]) :
              UNCHANGED task /\ Begin(c, Call("finishCapacity", t, task[t].server, n, "FAILED"))
      BY <2>6 DEF OnCapacityResult, db
    <3> QED
      BY <3>1
  <2>7. CASE OnApprovalRequest(c, t)
    <3>1. UNCHANGED task /\ Begin(c, Call("write", t, NoServer, 0, "AWAITING_APPROVAL"))
      BY <2>7 DEF OnApprovalRequest
    <3> QED
      BY <3>1
  <2> QED
    BY <2>1, <2>2, <2>3, <2>4, <2>5, <2>6, <2>7 DEF UserRequest, DaemonEvent, OnLog
<1>3. PICK pc, s, n, to :
          /\ Begin(c, Call(pc, t, s, n, to))
          /\ \/ UNCHANGED task /\ to # "QUEUED"
             \/ /\ pc = "enqueue"
                /\ \A u \in Tasks : u # t => task'[u] = task[u]
  BY <1>2
<1>4. /\ call[c].pc = "idle"
      /\ call'[c].pc = pc /\ call'[c].task = t /\ call'[c].to = to
      /\ \A d \in Slots \ {c} : call'[d] = call[d]
  BY <1>3, CallChange
<1>5. NoLateQueued'
  BY <1>3, <1>4 DEF NoLateQueued
<1>6. \A u \in Tasks : LookersKept(u)
  BY <1>1, <1>4 DEF LookersKept, WillRead
<1>7. CASE UNCHANGED task
  BY <1>1, <1>5, <1>6, <1>7, QueueFrame DEF NothingQueued
<1>8. CASE pc = "enqueue" /\ \A u \in Tasks : u # t => task'[u] = task[u]
  <2>1. WillBeLookedAt(t)'
    BY <1>4, <1>8 DEF WillBeLookedAt
  <2> QED
    BY <1>1, <1>5, <1>6, <1>8, <2>1, LookersFrame DEF NoneLost, Forgotten
<1> QED
  BY <1>3, <1>5, <1>7, <1>8

\* A handler that goes on or returns, and writes no status or another one than
\* QUEUED.
LEMMA PlainStepQueues ==
    ASSUME IInv, NoLateQueued, NEW c \in Slots,
           call[c].pc \notin {"idle", "enqueue"},
           Return(c) \/ \E pc \in CallPcs : Goto(c, pc),
           NothingQueued, UNCHANGED <<jobs, proc, dog, crashes>>
    PROVE  NoneLost /\ NoLateQueued'
<1>1. /\ \A d \in Slots \ {c} : call'[d] = call[d]
      /\ call'[c].pc = "idle" \/ call'[c].to = call[c].to
  BY CallChange
<1>2. NoLateQueued'
  BY <1>1 DEF NoLateQueued
<1>3. \A u \in Tasks : LookersKept(u)
  BY <1>1 DEF LookersKept, WillRead
<1> QED
  BY <1>2, <1>3, QueueFrame

\* Every other step of a handler.
LEMMA ContinueQueues ==
    ASSUME IInv, NoLateQueued, NEW c \in Slots, Continue(c)
    PROVE  NoneLost /\ NoLateQueued'
<1>1. CASE SendCancel(c) \/ TouchAttempt(c) \/ FinishAttempt(c) \/ FinishCapacity(c)
           \/ Failover(c) \/ DecideApproval(c) \/ SendDecision(c)
  <2>1. /\ call[c].pc \notin {"idle", "enqueue"}
        /\ UNCHANGED <<task, jobs, proc, dog, crashes>>
    BY <1>1 DEF SendCancel, TouchAttempt, FinishAttempt, FinishCapacity, Failover,
                DecideApproval, SendDecision, db, counters
  <2>2. Return(c) \/ \E pc \in {"write", "failover", "requeue", "decideTask"} : Goto(c, pc)
    BY <1>1 DEF SendCancel, TouchAttempt, FinishAttempt, FinishCapacity, Failover,
                DecideApproval, SendDecision
  <2> QED
    BY <2>1, <2>2, PlainStepQueues DEF NothingQueued, CallPcs
<1>2. CASE WriteStatus(c) \/ WriteLogs(c) \/ DecideTask(c)
  <2>1. /\ call[c].pc \notin {"idle", "enqueue"}
        /\ UNCHANGED <<jobs, proc, dog, crashes>>
        /\ Return(c) \/ Goto(c, "sendDecision")
    BY <1>2 DEF WriteStatus, WriteLogs, DecideTask, counters
  <2>2. call[c].task \in Tasks /\ Exists(call[c].task) /\ call[c].to # "QUEUED"
    BY <2>1, InFlight DEF NoLateQueued
  <2>3. \/ SetTaskStatus(call[c].task, call[c].to)
        \/ SetTaskStatus(call[c].task, task[call[c].task].status)
    BY <1>2 DEF WriteStatus, WriteLogs, DecideTask
  <2>4. NothingQueued
    BY <2>2, <2>3, StatusWritten DEF NothingQueued
  <2> QED
    BY <2>1, <2>4, PlainStepQueues DEF CallPcs
<1>3. CASE Requeue(c)
  <2>1. /\ call[c].pc = "requeue" /\ call[c].task \in Tasks /\ Exists(call[c].task)
        /\ UNCHANGED <<jobs, proc, dog, crashes>>
    BY <1>3, InFlight DEF Requeue, counters
  <2>2. /\ call'[c].pc = "enqueue" /\ call'[c].task = call[c].task
        /\ \A d \in Slots \ {c} : call'[d] = call[d]
    BY <1>3, <2>1, CallChange DEF Requeue
  <2>3. \A u \in Tasks : u # call[c].task => task'[u] = task[u]
    BY <1>3, <2>1, StatusWritten DEF Requeue
  <2>4. \A u \in Tasks : LookersKept(u)
    BY <2>1, <2>2 DEF LookersKept, WillRead
  <2>5. NoneLost
    <3> SUFFICES ASSUME NEW u \in Tasks, task'[u].status = "QUEUED", ~Forgotten(u)
                 PROVE  WillBeLookedAt(u)'
      BY DEF NoneLost, Forgotten
    <3>1. CASE u = call[c].task
      BY <2>2, <3>1 DEF WillBeLookedAt
    <3>2. CASE u # call[c].task
      BY <2>1, <2>3, <2>4, <3>2, LookersFrame DEF NoneLost, Forgotten
    <3> QED
      BY <3>1, <3>2
  <2>6. NoLateQueued'
    BY <2>2 DEF NoLateQueued
  <2> QED
    BY <2>5, <2>6
<1>4. CASE Enqueue(c)
  <2>1. /\ call[c].pc = "enqueue" /\ call[c].task \in Tasks
        /\ UNCHANGED <<task, proc, dog, crashes>> /\ AddJob(call[c].task)
    BY <1>4, InFlight DEF Enqueue, db, counters
  <2>2. /\ call'[c].pc = "idle"
        /\ \A d \in Slots \ {c} : call'[d] = call[d]
    BY <1>4, CallChange DEF Enqueue
  <2>3. PICK t \in Tasks : t = call[c].task
    BY <2>1
  <2>4. /\ \E j \in JobIds : WillRead(j, t)'
        /\ \A u \in Tasks : \A j \in JobIds : WillRead(j, u) => WillRead(j, u)'
    BY <2>1, <2>3, AddedJobLooks
  <2>5. ASSUME NEW u \in Tasks, WillBeLookedAt(u)
        PROVE  WillBeLookedAt(u)'
    <3>1. CASE u = t
      BY <2>4, <3>1 DEF WillBeLookedAt, WillRead
    <3>2. CASE \E j \in JobIds : WillRead(j, u)
      BY <2>4, <3>2 DEF WillBeLookedAt, WillRead
    <3>3. CASE \E d \in Slots \ {c} : call[d].pc = "enqueue" /\ call[d].task = u
      BY <2>2, <3>3 DEF WillBeLookedAt
    <3>4. CASE dog.pc = "requeue" /\ dog.at.task = u
      BY <2>1, <3>4 DEF WillBeLookedAt
    <3> QED
      BY <2>5, <2>3, <3>1, <3>2, <3>3, <3>4 DEF WillBeLookedAt, WillRead
  <2>6. NoneLost
    BY <2>1, <2>5 DEF NoneLost, Forgotten
  <2>7. NoLateQueued'
    BY <2>2 DEF NoLateQueued
  <2> QED
    BY <2>6, <2>7
<1> QED
  BY <1>1, <1>2, <1>3, <1>4 DEF Continue

\* A dispatch job counts until it has written RUNNING; when it throws it stays
\* in the queue, and the one that is dropped found its task not QUEUED.
LEMMA DispatchQueues ==
    ASSUME IInv, DispatchStep
    PROVE  NoneLost /\ UNCHANGED call
<1>0. UNCHANGED <<call, dog, crashes>>
  BY DEF DispatchStep, TakeJob, ReadExcluded, ChooseCandidates, CreateAttempt, SendTask,
         SetTaskRunning, SetAttemptRunning, FailAttempt, LogFailure, counters
<1>1. ASSUME FailJob, proc.pc # "idle"
      PROVE  \A u \in Tasks : LookersKept(u) \/ (proc # Idle /\ LastTryFails(u))
  <2>1. /\ proc.job \in JobIds /\ jobs[proc.job] \in Job /\ proc # Idle
        /\ jobs[proc.job].left > 0 /\ jobs[proc.job].left \in Nat
    BY <1>1, AtWork DEF Job
  <2>2. jobs'[proc.job] = [jobs[proc.job] EXCEPT !.left = @ - 1]
        /\ \A j \in JobIds : j # proc.job => jobs'[j] = jobs[j]
    BY <1>1, <2>1, Tables DEF FailJob
  <2>3. /\ jobs'[proc.job] # NoJob /\ jobs'[proc.job].task = jobs[proc.job].task
        /\ jobs'[proc.job].left = jobs[proc.job].left - 1
    BY <2>1, <2>2 DEF NoJob, Job
  <2>4. proc'.pc # "setAttempt"
    BY <1>1 DEF FailJob, Idle
  <2>5. jobs[proc.job].task = proc.task
    BY <2>1 DEF IInv, ProcOK
  <2>6. CASE jobs[proc.job].left # 1
    <3>1. jobs'[proc.job].left > 0
      BY <2>1, <2>3, <2>6
    <3> QED
      BY <1>0, <2>2, <2>3, <2>4, <3>1 DEF LookersKept, WillRead
  <2>7. CASE jobs[proc.job].left = 1
    <3>1. LastTryFails(proc.task)
      BY <1>1, <2>7 DEF LastTryFails
    <3>2. \A u \in Tasks : u # proc.task => LookersKept(u)
      BY <1>0, <2>2, <2>4, <2>5 DEF LookersKept, WillRead
    <3> QED
      BY <2>1, <3>1, <3>2
  <2> QED
    BY <2>6, <2>7
<1>2. ASSUME NEW j \in JobIds, TakeJob(j)
      PROVE  NoneLost
  <2>1. UNCHANGED task /\ proc'.pc # "setAttempt"
    BY <1>2 DEF TakeJob, WorkerFree, Idle, db
  <2>2. CASE UNCHANGED jobs
    BY <1>0, <2>1, <2>2, QueueFrame DEF NothingQueued, LookersKept, WillRead
  <2>3. CASE task[jobs[j].task].status # "QUEUED" /\ jobs' = [jobs EXCEPT ![j] = NoJob]
    <3>1. \A i \in JobIds : i # j => jobs'[i] = jobs[i]
      BY <2>3, Tables
    <3>2. \A u \in Tasks : task[u].status = "QUEUED" => LookersKept(u)
      BY <1>0, <2>1, <2>3, <3>1 DEF LookersKept, WillRead
    <3> QED
      BY <1>0, <2>1, <3>2, QueueFrame DEF NothingQueued
  <2> QED
    BY <1>2, <2>2, <2>3 DEF TakeJob
<1>8. CASE ReadExcluded
  <2>1. UNCHANGED <<task, jobs>> /\ proc \in Dispatching
    BY <1>8, AtWork DEF ReadExcluded, db
  <2>2. proc'.pc = "candidates"
    BY <1>8, <2>1 DEF ReadExcluded, Dispatching
  <2> QED
    BY <1>0, <2>1, <2>2, QueueFrame DEF NothingQueued, LookersKept, WillRead
<1>3. CASE ChooseCandidates
  <2>1. UNCHANGED task /\ proc.pc = "candidates" /\ proc \in Dispatching
    BY <1>3, AtWork DEF ChooseCandidates, db
  <2>2. CASE FailJob
    BY <1>0, <1>1, <2>1, <2>2, QueueFrame DEF NothingQueued
  <2>3. CASE \E todo : proc' = [proc EXCEPT !.pc = "create", !.todo = todo] /\ UNCHANGED jobs
    <3>1. proc'.pc = "create"
      BY <2>1, <2>3 DEF Dispatching
    <3> QED
      BY <1>0, <2>1, <2>3, <3>1, QueueFrame DEF NothingQueued, LookersKept, WillRead
  <2> QED
    BY <1>3, <2>2, <2>3 DEF ChooseCandidates
<1>4. CASE CreateAttempt \/ SendTask \/ FailAttempt
  <2>1. UNCHANGED <<task, jobs>>
    BY <1>4 DEF CreateAttempt, SendTask, FailAttempt, db
  <2>2. proc \in Dispatching
    BY <1>4, AtWork DEF CreateAttempt, SendTask, FailAttempt
  <2>3. proc'.pc # "setAttempt"
    <3>1. CASE CreateAttempt
      BY <2>2, <3>1 DEF CreateAttempt, Dispatching
    <3>2. CASE SendTask
      BY <2>2, <3>2 DEF SendTask, Dispatching
    <3>3. CASE FailAttempt
      <4>1. PICK pc \in {"logFailure", "create"} : proc' = [proc EXCEPT !.pc = pc]
        BY <3>3 DEF FailAttempt
      <4> QED
        BY <2>2, <4>1 DEF Dispatching
    <3> QED
      BY <1>4, <3>1, <3>2, <3>3
  <2> QED
    BY <1>0, <2>1, <2>3, QueueFrame DEF NothingQueued, LookersKept, WillRead
<1>5. CASE SetTaskRunning
  <2>1. /\ proc \in Dispatching /\ proc.task \in Tasks /\ proc.job \in JobIds
        /\ Exists(proc.task) /\ UNCHANGED jobs
    BY <1>5, AtWork DEF SetTaskRunning
  <2>2. jobs[proc.job].task = proc.task
    BY <2>1, AtWork, <1>5 DEF IInv, ProcOK, SetTaskRunning, Idle
  <2>3. proc'.pc = "setAttempt" /\ proc'.job = proc.job
    BY <1>5, <2>1 DEF SetTaskRunning, Dispatching
  <2>4. task[proc.task] \in TaskRow
    BY <2>1, Tables DEF Exists
  <2>5. /\ task'[proc.task] = [task[proc.task] EXCEPT !.server = Candidate,
                                   !.status = "RUNNING", !.fresh = TRUE]
        /\ \A u \in Tasks : u # proc.task => task'[u] = task[u]
    BY <1>5, <2>1, Tables DEF SetTaskRunning
  <2>6. task'[proc.task].status = "RUNNING"
    BY <2>4, <2>5 DEF TaskRow
  <2>7. \A u \in Tasks : u # proc.task => LookersKept(u)
    BY <1>0, <2>1, <2>2, <2>3, <1>5 DEF LookersKept, WillRead, SetTaskRunning
  <2> QED
    BY <1>0, <2>5, <2>6, <2>7, QueueFrame DEF NothingQueued
<1>6. CASE SetAttemptRunning
  <2>1. UNCHANGED task /\ proc.pc = "setAttempt" /\ proc' = Idle /\ proc.job \in JobIds
    BY <1>6, AtWork DEF SetAttemptRunning
  <2>2. \A j \in JobIds : j # proc.job => jobs'[j] = jobs[j]
    BY <1>6, <2>1, Tables DEF SetAttemptRunning
  <2> QED
    BY <1>0, <2>1, <2>2, QueueFrame DEF NothingQueued, LookersKept, WillRead, Idle
<1>7. CASE LogFailure
  <2>1. /\ proc.pc = "logFailure" /\ proc.task \in Tasks /\ Exists(proc.task)
        /\ FailJob /\ SetTaskStatus(proc.task, task[proc.task].status)
    BY <1>7, AtWork DEF LogFailure
  <2>2. NothingQueued
    BY <2>1, StatusWritten DEF NothingQueued
  <2> QED
    BY <1>0, <1>1, <2>1, <2>2, QueueFrame
<1> QED
  BY <1>0, <1>2, <1>3, <1>4, <1>5, <1>6, <1>7, <1>8 DEF DispatchStep

\* The watchdog writes QUEUED in the step before it adds the job.
LEMMA WatchdogQueues ==
    ASSUME IInv, WatchdogStep
    PROVE  NoneLost /\ UNCHANGED call
<1>1. UNCHANGED <<call, proc, crashes>>
  BY DEF WatchdogStep, Scan, CountTimeouts, TimeOut, Settle, RequeueStuck, counters
<1>2. CASE Scan \/ CountTimeouts \/ TimeOut
  <2>1. UNCHANGED <<task, jobs>> /\ dog.pc # "requeue"
    BY <1>2 DEF Scan, CountTimeouts, TimeOut, WorkerFree, Idle, db
  <2> QED
    BY <1>1, <2>1, QueueFrame DEF NothingQueued, LookersKept, WillRead
<1>3. CASE Settle
  <2>1. /\ dog.pc = "settle" /\ dog \in Watching /\ dog.at.task \in Tasks
        /\ Exists(dog.at.task) /\ UNCHANGED jobs
    BY <1>3, OnWatch DEF Settle
  <2>2. \A u \in Tasks : LookersKept(u)
    BY <1>1, <2>1 DEF LookersKept, WillRead
  <2>3. CASE SetTaskStatus(dog.at.task, "FAILED")
    <3>1. NothingQueued
      BY <2>1, <2>3, StatusWritten DEF NothingQueued
    <3> QED
      BY <1>1, <2>2, <3>1, QueueFrame
  <2>4. CASE SetTaskStatus(dog.at.task, "QUEUED") /\ dog' = [dog EXCEPT !.pc = "requeue"]
    <3>1. dog'.pc = "requeue" /\ dog'.at = dog.at
      BY <2>1, <2>4 DEF Watching
    <3>2. \A u \in Tasks : u # dog.at.task => task'[u] = task[u]
      BY <2>1, <2>4, StatusWritten
    <3> SUFFICES ASSUME NEW u \in Tasks, task'[u].status = "QUEUED", ~Forgotten(u)
                 PROVE  WillBeLookedAt(u)'
      BY <1>1 DEF NoneLost, Forgotten
    <3>3. CASE u = dog.at.task
      BY <3>1, <3>3 DEF WillBeLookedAt
    <3>4. CASE u # dog.at.task
      BY <1>1, <2>2, <3>2, <3>4, LookersFrame DEF NoneLost, Forgotten
    <3> QED
      BY <3>3, <3>4
  <2> QED
    BY <1>3, <2>3, <2>4 DEF Settle
<1>4. CASE RequeueStuck
  <2>1. /\ dog.pc = "requeue" /\ dog.at.task \in Tasks
        /\ UNCHANGED task /\ AddJob(dog.at.task)
    BY <1>4, OnWatch DEF RequeueStuck, db
  <2>2. PICK t \in Tasks : t = dog.at.task
    BY <2>1
  <2>3. /\ \E j \in JobIds : WillRead(j, t)'
        /\ \A u \in Tasks : \A j \in JobIds : WillRead(j, u) => WillRead(j, u)'
    BY <1>1, <2>1, <2>2, AddedJobLooks
  <2>4. ASSUME NEW u \in Tasks, WillBeLookedAt(u)
        PROVE  WillBeLookedAt(u)'
    <3>1. CASE u = t
      BY <2>3, <3>1 DEF WillBeLookedAt, WillRead
    <3>2. CASE \E j \in JobIds : WillRead(j, u)
      BY <2>3, <3>2 DEF WillBeLookedAt, WillRead
    <3>3. CASE \E c \in Slots : call[c].pc = "enqueue" /\ call[c].task = u
      BY <1>1, <3>3 DEF WillBeLookedAt
    <3> QED
      BY <2>2, <2>4, <3>1, <3>2, <3>3 DEF WillBeLookedAt, WillRead
  <2> QED
    BY <1>1, <2>1, <2>4 DEF NoneLost, Forgotten
<1> QED
  BY <1>2, <1>3, <1>4 DEF WatchdogStep

\* No step forgets a QUEUED task.
LEMMA NextQueues ==
    ASSUME IInv, NoLateQueued, [Next]_vars
    PROVE  NoneLost /\ NoLateQueued'
<1>1. ASSUME UNCHANGED call PROVE NoLateQueued'
  BY <1>1 DEF NoLateQueued
<1>2. ASSUME NEW t \in Tasks, TimePasses(t)
      PROVE  NoneLost /\ NoLateQueued'
  <2>1. UNCHANGED <<jobs, call, proc, dog, crashes>> /\ Exists(t)
    BY <1>2 DEF TimePasses, counters
  <2>2. task[t] \in TaskRow
    BY <2>1, Tables DEF Exists
  <2>3. /\ task'[t] = [task[t] EXCEPT !.fresh = FALSE]
        /\ \A u \in Tasks : u # t => task'[u] = task[u]
    BY <1>2, Tables DEF TimePasses
  <2>4. NothingQueued
    BY <2>2, <2>3 DEF NothingQueued, TaskRow
  <2> QED
    BY <1>1, <2>1, <2>4, QueueFrame DEF LookersKept, WillRead
<1>3. CASE HubRestart
  <2>1. crashes' # crashes /\ call' = [c \in Slots |-> Idle]
    BY <1>3, Tables DEF HubRestart
  <2> QED
    BY <2>1 DEF NoneLost, Forgotten, NoLateQueued, Idle
<1>4. CASE (\E s \in Servers : Presence(s)) \/ UNCHANGED vars
  <2>1. UNCHANGED <<task, jobs, call, proc, dog, crashes>>
    BY <1>4 DEF Presence, Connect, Disconnect, Deliver, MarkPresence, db, counters, vars
  <2> QED
    BY <1>1, <2>1, QueueFrame DEF NothingQueued, LookersKept, WillRead
<1> QED
  BY <1>1, <1>2, <1>3, <1>4, RequestQueues, ContinueQueues, DispatchQueues,
     WatchdogQueues DEF Next

\* No step of the Hub, a user, a daemon or the network leaves a QUEUED task
\* with nobody to look at it, but the failure of its job's last try and a
\* restart: no order of submits, retries, failovers, watchdog scans and late
\* events does.
THEOREM NoneForgotten == Spec => NoQueuedTaskForgotten
<1>1. Init => NoLateQueued
  BY DEF Init, NoLateQueued, Idle
<1>2. IInv /\ NoLateQueued /\ [Next]_vars => NoneLost /\ NoLateQueued'
  BY NextQueues
<1>3. Spec => [][NoneLost]_vars
  BY <1>1, <1>2, Invariance, PTL DEF Spec
<1> QED
  BY <1>3 DEF NoQueuedTaskForgotten, NoneLost

=============================================================================
