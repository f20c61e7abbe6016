------------------------------- MODULE TaskHub -------------------------------
(***************************************************************************)
(* Task orchestration in the Hub API: TasksService, TasksProcessor (the    *)
(* BullMQ worker: dispatch job and watchdog job), ApprovalsService,        *)
(* WorkerRegistry, CodexAdapter and RealtimeService.                       *)
(*                                                                         *)
(* The Hub is one Node process, so a handler runs undisturbed from one     *)
(* await to the next and anything may run in between.  Every database      *)
(* access, queue access or socket emission is therefore a step of its own; *)
(* what a handler remembers across its awaits is its record in call[c] (a  *)
(* REST request or a daemon event), proc (the dispatch job) or dog (the    *)
(* watchdog job).                                                          *)
(*                                                                         *)
(* The daemons and their sockets are an unconstrained environment here:    *)
(* any event about any task may arrive at any time and a server's presence *)
(* may change arbitrarily.  What is proved of this module thus holds for   *)
(* every daemon; module CodeCaller puts the real ones in.                  *)
(***************************************************************************)
EXTENDS Naturals, Sequences, FiniteSets

CONSTANTS
    Tasks,            \* ids of the Task rows that may be created
    Servers,          \* ids of the Server rows, each with a CODEX profile
    NoServer,         \* "no server" in a handler's locals
    OwnerOf,          \* Server.ownerId
    Rank,             \* position of Server.name in localeCompare order
    Slots,            \* handler activations that may be in flight at once
    JobIds,           \* BullMQ job ids
    JobTries,         \* the "attempts" option of a dispatch job (5)
    MaxRequeues,      \* TASK_WATCHDOG_MAX_REQUEUES (2)
    ReportedStatuses, \* statuses daemons put into task:statusUpdate
    SubmittedTypes,   \* worker types users ask for
    MaxAttempts,      \* bound on the attempt rows of a task
    MaxWire,          \* bound on undelivered messages to daemons
    MaxStimuli,       \* bound on requests and daemon events
    MaxFlips,         \* bound on presence changes
    MaxCrashes        \* bound on restarts of the Hub process

TaskStatuses == {"QUEUED", "RUNNING", "AWAITING_APPROVAL",
                 "COMPLETED", "FAILED", "CANCELLED"}
AttemptStatuses == {"DISPATCHING", "RUNNING", "SUCCEEDED", "FAILED", "TIMED_OUT"}
OpenStatuses == {"DISPATCHING", "RUNNING"}
WorkerTypes == {"CODEX", "CLAUDE", "GEMINI"}

\* The adapters WorkerRegistry's constructor registers.
SupportedTypes == {"CODEX"}

ASSUME ServersAssumption ==
    /\ NoServer \notin Servers
    /\ Rank \in [Servers -> Nat]
    /\ \A r, s \in Servers : Rank[r] = Rank[s] => r = s

ASSUME QueueAssumption == JobTries \in Nat \ {0} /\ MaxRequeues \in Nat \ {0}

ASSUME ReportsAssumption ==
    /\ ReportedStatuses \subseteq TaskStatuses \ {"QUEUED"}
    /\ SubmittedTypes \subseteq WorkerTypes

ASSUME BoundsAssumption ==
    /\ MaxAttempts \in Nat /\ MaxWire \in Nat
    /\ MaxStimuli \in Nat /\ MaxFlips \in Nat /\ MaxCrashes \in Nat

-----------------------------------------------------------------------------
VARIABLES
    task,         \* table tasks: NoTask, or status, serverId, workerType and
                  \* whether updatedAt is within the watchdog timeout
    attempts,     \* table task_attempts, the rows of a task by startedAt:
                  \* server, status, "failureReason starts with
                  \* CAPACITY_EXHAUSTED", lastSeenAt within the timeout
    approval,     \* table approvals, at most one row per task
    serverStatus, \* Server.status, what the candidate query believes
    room,         \* whether the socket room of a server has a member
    wire,         \* events emitted to a server's socket, not yet delivered
    jobs,         \* dispatch jobs: task and tries left, 0 = BullMQ "failed"
    call,         \* the handler activation of each slot
    proc,         \* the dispatch job the worker is processing
    dog,          \* the watchdog job the worker is processing
    stimuli,      \* requests and events so far, for MaxStimuli
    flips,        \* presence changes so far, for MaxFlips
    crashes

db == <<task, attempts, approval>>
net == <<serverStatus, room, wire>>
counters == <<stimuli, flips, crashes>>
vars == <<task, attempts, approval, serverStatus, room, wire, jobs,
          call, proc, dog, stimuli, flips, crashes>>

NoTask == [status |-> "NONE"]
NoJob == [left |-> 0]
Idle == [pc |-> "idle"]

TaskRow == [status : TaskStatuses, server : Servers, type : WorkerTypes,
            fresh : BOOLEAN]
AttemptRow == [server : Servers, status : AttemptStatuses,
               capacity : BOOLEAN, fresh : BOOLEAN]
Job == [task : Tasks, left : Nat]
Message == [event : {"task:submit", "task:cancel", "approval:decision"},
            task : Tasks, approved : BOOLEAN]

\* What a handler remembers: the task, the server it read, the attempt row it
\* found (0 = none) and the status it is going to write ("LOG": logs only).
CallPcs == {"enqueue", "sendCancel", "touch", "finish", "finishCapacity",
            "failover", "requeue", "write", "decide", "decideTask",
            "sendDecision"}
Activation == [pc : CallPcs, task : Tasks, server : Servers \cup {NoServer},
               row : Nat, to : TaskStatuses \cup {"LOG"}]
Call(pc, t, s, n, to) ==
    [pc |-> pc, task |-> t, server |-> s, row |-> n, to |-> to]

ProcPcs == {"excluded", "candidates", "create", "send", "setTask", "setAttempt",
            "failAttempt", "logFailure"}
Dispatching == [pc : ProcPcs, job : JobIds, task : Tasks, server : Servers,
                todo : SUBSET Servers, row : Nat]

DogPcs == {"count", "timeOut", "settle", "requeue"}
Stuck == [task : Tasks, row : Nat]
Watching == [pc : DogPcs, todo : SUBSET Stuck, at : Stuck, spent : Nat]

TypeOK ==
    /\ task \in [Tasks -> {NoTask} \cup TaskRow]
    /\ attempts \in [Tasks -> Seq(AttemptRow)]
    /\ approval \in [Tasks -> {"NONE", "PENDING", "APPROVED", "REJECTED"}]
    /\ serverStatus \in [Servers -> {"ONLINE", "OFFLINE"}]
    /\ room \in [Servers -> BOOLEAN]
    /\ wire \in [Servers -> Seq(Message)]
    /\ jobs \in [JobIds -> {NoJob} \cup Job]
    /\ call \in [Slots -> {Idle} \cup Activation]
    /\ proc \in {Idle} \cup Dispatching
    /\ dog \in {Idle} \cup Watching
    /\ stimuli \in Nat
    /\ flips \in Nat
    /\ crashes \in Nat

Init ==
    /\ task = [t \in Tasks |-> NoTask]
    /\ attempts = [t \in Tasks |-> <<>>]
    /\ approval = [t \in Tasks |-> "NONE"]
    /\ serverStatus = [s \in Servers |-> "ONLINE"]
    /\ room = [s \in Servers |-> TRUE]
    /\ wire = [s \in Servers |-> <<>>]
    /\ jobs = [j \in JobIds |-> NoJob]
    /\ call = [c \in Slots |-> Idle]
    /\ proc = Idle
    /\ dog = Idle
    /\ stimuli = 0
    /\ flips = 0
    /\ crashes = 0

-----------------------------------------------------------------------------
(* Queries and updates the handlers share.                                 *)

Exists(t) == task[t] # NoTask

\* findFirst of the latest open attempt: n is its row, 0 if there is none.
IsCurrent(t, n) ==
    LET open == {i \in DOMAIN attempts[t] : attempts[t][i].status \in OpenStatuses}
    IN \/ n = 0 /\ open = {}
       \/ n \in open /\ \A i \in open : i <= n

\* Mutant: only capacity failures exclude a server.
retryExcludedServerIds_CapacityOnly(t) ==
    {attempts[t][i].server : i \in
        {i \in DOMAIN attempts[t] : attempts[t][i].status = "FAILED" /\ attempts[t][i].capacity}}

\* Servers a retry avoids: a TIMED_OUT attempt, or a FAILED one for capacity.
retryExcludedServerIds(t) ==
    {attempts[t][i].server : i \in
        {i \in DOMAIN attempts[t] :
            \/ attempts[t][i].status = "TIMED_OUT"
            \/ attempts[t][i].status = "FAILED" /\ attempts[t][i].capacity}}

\* Mutant: the query forgets ownerId.
getDispatchCandidates_AnyOwner(preferred, allowed) ==
    {s \in allowed : serverStatus[s] = "ONLINE"}

\* The candidates of getDispatchCandidates, as a set: see NextCandidate.  The
\* servers allowed are those that are not excluded.
getDispatchCandidates(preferred, allowed) ==
    {s \in allowed : OwnerOf[s] = OwnerOf[preferred] /\ serverStatus[s] = "ONLINE"}

\* The sort of getDispatchCandidates: the preferred server, then by name.
NextCandidate(todo, preferred, s) ==
    /\ s \in todo
    /\ s # preferred => /\ preferred \notin todo
                        /\ \A r \in todo : Rank[s] <= Rank[r]

SetTaskStatus(t, status) ==
    task' = [task EXCEPT ![t] = [@ EXCEPT !.status = status, !.fresh = TRUE]]

SetAttempt(t, n, row) == attempts' = [attempts EXCEPT ![t][n] = row]

Emit(s, event, t, approved) ==
    /\ \A r \in Servers : Len(wire[r]) < MaxWire
    /\ wire' = [wire EXCEPT ![s] =
          Append(@, [event |-> event, task |-> t, approved |-> approved])]

AddJob(t) ==
    \E j \in JobIds :
        /\ jobs[j] = NoJob
        /\ jobs' = [jobs EXCEPT ![j] = [task |-> t, left |-> JobTries]]

Stimulus == stimuli < MaxStimuli /\ stimuli' = stimuli + 1
Flip == flips < MaxFlips /\ flips' = flips + 1
Begin(c, activation) ==
    Stimulus /\ call[c] = Idle /\ call' = [call EXCEPT ![c] = activation]
Goto(c, pc) == call' = [call EXCEPT ![c].pc = pc]
Return(c) == call' = [call EXCEPT ![c] = Idle]

-----------------------------------------------------------------------------
(* REST requests: submit and cancel.                                       *)

\* The owner of s submits t: the row is created, then the job is queued.
Submit(c, t, s, type) ==
    /\ ~Exists(t)
    /\ task' = [task EXCEPT ![t] = [status |-> "QUEUED", server |-> s,
                                    type |-> type, fresh |-> TRUE]]
    /\ Begin(c, Call("enqueue", t, NoServer, 0, "QUEUED"))
    /\ UNCHANGED <<attempts, approval, net, jobs, proc, dog, flips, crashes>>

Enqueue(c) ==
    /\ call[c].pc = "enqueue"
    /\ AddJob(call[c].task)
    /\ Return(c)
    /\ UNCHANGED <<db, net, proc, dog, counters>>

\* A type without an adapter is rejected before anything is sent.
Cancel(c, t) ==
    /\ Exists(t)
    /\ task[t].type \in SupportedTypes
    /\ Begin(c, Call("sendCancel", t, task[t].server, 0, "CANCELLED"))
    /\ UNCHANGED <<db, net, jobs, proc, dog, flips, crashes>>

\* dispatchToServer throws when the room is empty: the request ends with 503
\* and the task keeps its status.
SendCancel(c) ==
    /\ call[c].pc = "sendCancel"
    /\ \/ /\ room[call[c].server]
          /\ Emit(call[c].server, "task:cancel", call[c].task, FALSE)
          /\ Goto(c, "write")
       \/ /\ ~room[call[c].server]
          /\ Return(c)
          /\ UNCHANGED wire
    /\ UNCHANGED <<db, serverStatus, room, jobs, proc, dog, counters>>

\* updateStatus, the last step of cancel, of a status or result event, of an
\* approval request and of an exhausted capacity failover.
WriteStatus(c) ==
    /\ call[c].pc = "write"
    /\ call[c].to # "LOG"
    /\ SetTaskStatus(call[c].task, call[c].to)
    /\ Return(c)
    /\ UNCHANGED <<attempts, approval, net, jobs, proc, dog, counters>>

-----------------------------------------------------------------------------
(* Daemon events: status, log and result.                                  *)

\* touchRunningAttempt looks the current attempt up, then writes to that row.
OnStatus(c, t, status) ==
    /\ Exists(t)
    /\ \E n \in 0 .. Len(attempts[t]) :
          /\ IsCurrent(t, n)
          /\ Begin(c, Call("touch", t, NoServer, n, status))
    /\ UNCHANGED <<db, net, jobs, proc, dog, flips, crashes>>

OnLog(c, t) == OnStatus(c, t, "LOG")

TouchAttempt(c) ==
    LET t == call[c].task
        n == call[c].row
    IN /\ call[c].pc = "touch"
       /\ IF n = 0 THEN UNCHANGED attempts
          ELSE SetAttempt(t, n, [attempts[t][n] EXCEPT !.status = "RUNNING",
                                                       !.fresh = TRUE])
       /\ Goto(c, "write")
       /\ UNCHANGED <<task, approval, net, jobs, proc, dog, counters>>

\* task.update of the logs column, which also moves updatedAt.
WriteLogs(c) ==
    /\ call[c].pc = "write"
    /\ call[c].to = "LOG"
    /\ SetTaskStatus(call[c].task, task[call[c].task].status)
    /\ Return(c)
    /\ UNCHANGED <<attempts, approval, net, jobs, proc, dog, counters>>

OnResult(c, t, status) ==
    /\ Exists(t)
    /\ \E n \in 0 .. Len(attempts[t]) :
          /\ IsCurrent(t, n)
          /\ Begin(c, Call("finish", t, NoServer, n, status))
    /\ UNCHANGED <<db, net, jobs, proc, dog, flips, crashes>>

\* finishRunningAttempt; an undefined failureReason leaves the column alone.
FinishAttempt(c) ==
    LET t == call[c].task
        n == call[c].row
        ok == call[c].to = "COMPLETED"
    IN /\ call[c].pc = "finish"
       /\ IF n = 0 THEN UNCHANGED attempts
          ELSE SetAttempt(t, n,
                 [attempts[t][n] EXCEPT
                    !.status = IF ok THEN "SUCCEEDED" ELSE "FAILED",
                    !.capacity = ok /\ @,
                    !.fresh = TRUE])
       /\ Goto(c, "write")
       /\ UNCHANGED <<task, approval, net, jobs, proc, dog, counters>>

\* handleRetryableCapacityFailure: finish the current attempt, look for
\* another worker, then fail the task or queue it again.
OnCapacityResult(c, t) ==
    /\ Exists(t)
    /\ \E n \in 0 .. Len(attempts[t]) :
          /\ IsCurrent(t, n)
          /\ Begin(c, Call("finishCapacity", t, task[t].server, n, "FAILED"))
    /\ UNCHANGED <<db, net, jobs, proc, dog, flips, crashes>>

FinishCapacity(c) ==
    LET t == call[c].task
        n == call[c].row
    IN /\ call[c].pc = "finishCapacity"
       /\ IF n = 0 THEN UNCHANGED attempts
          ELSE SetAttempt(t, n, [attempts[t][n] EXCEPT !.status = "FAILED",
                                                       !.capacity = TRUE,
                                                       !.fresh = TRUE])
       /\ Goto(c, "failover")
       /\ UNCHANGED <<task, approval, net, jobs, proc, dog, counters>>

\* An unsupported type makes getDispatchCandidates throw: the handler ends.
Failover(c) ==
    LET t == call[c].task
        candidates == getDispatchCandidates(call[c].server,
                                            retryExcludedServerIds(t))
    IN /\ call[c].pc = "failover"
       /\ \/ task[t].type \notin SupportedTypes /\ Return(c)
          \/ /\ task[t].type \in SupportedTypes
             /\ Goto(c, IF candidates = {} THEN "write" ELSE "requeue")
       /\ UNCHANGED <<db, net, jobs, proc, dog, counters>>

Requeue(c) ==
    /\ call[c].pc = "requeue"
    /\ SetTaskStatus(call[c].task, "QUEUED")
    /\ Goto(c, "enqueue")
    /\ UNCHANGED <<attempts, approval, net, jobs, proc, dog, counters>>

-----------------------------------------------------------------------------
(* Approvals.                                                              *)

\* approval.create, then the task's status.  A second request of a task
\* violates the unique taskId: the handler throws before it writes anything.
OnApprovalRequest(c, t) ==
    /\ Exists(t)
    /\ approval[t] = "NONE"
    /\ approval' = [approval EXCEPT ![t] = "PENDING"]
    /\ Begin(c, Call("write", t, NoServer, 0, "AWAITING_APPROVAL"))
    /\ UNCHANGED <<task, attempts, net, jobs, proc, dog, flips, crashes>>

\* decide: the check that the approval is PENDING and the read of the task's
\* server, the two writes, and the emission to that server.
Decide(c, t, approve) ==
    /\ approval[t] = "PENDING"
    /\ Begin(c, Call("decide", t, task[t].server, 0,
                     IF approve THEN "RUNNING" ELSE "CANCELLED"))
    /\ UNCHANGED <<db, net, jobs, proc, dog, flips, crashes>>

Approved(c) == call[c].to = "RUNNING"

DecideApproval(c) ==
    /\ call[c].pc = "decide"
    /\ approval' = [approval EXCEPT ![call[c].task] =
                        IF Approved(c) THEN "APPROVED" ELSE "REJECTED"]
    /\ Goto(c, "decideTask")
    /\ UNCHANGED <<task, attempts, net, jobs, proc, dog, counters>>

DecideTask(c) ==
    /\ call[c].pc = "decideTask"
    /\ SetTaskStatus(call[c].task, call[c].to)
    /\ Goto(c, "sendDecision")
    /\ UNCHANGED <<attempts, approval, net, jobs, proc, dog, counters>>

\* Mutant: only an approval is sent, a rejection just ends the task.
SendDecision_ApprovedOnly(c) ==
    /\ call[c].pc = "sendDecision"
    /\ \/ /\ room[call[c].server] /\ Approved(c)
          /\ Emit(call[c].server, "approval:decision", call[c].task, TRUE)
       \/ ~(room[call[c].server] /\ Approved(c)) /\ UNCHANGED wire
    /\ Return(c)
    /\ UNCHANGED <<db, serverStatus, room, jobs, proc, dog, counters>>

\* An empty room is caught and logged: the decision is not sent again.
SendDecision(c) ==
    /\ call[c].pc = "sendDecision"
    /\ \/ /\ room[call[c].server]
          /\ Emit(call[c].server, "approval:decision", call[c].task, Approved(c))
       \/ ~room[call[c].server] /\ UNCHANGED wire
    /\ Return(c)
    /\ UNCHANGED <<db, serverStatus, room, jobs, proc, dog, counters>>

-----------------------------------------------------------------------------
(* The BullMQ worker.  Its concurrency is 1: a dispatch job and the        *)
(* watchdog job are never processed at the same time.                      *)

\* Mutant: a second job may start while the watchdog job is at an await.
WorkerFree_Parallel == proc = Idle

WorkerFree == proc = Idle /\ dog = Idle

\* Mutant: a failed try is not counted.
FailJob_Uncounted == UNCHANGED jobs /\ proc' = Idle

\* A job that throws is retried after a backoff until its tries are used up;
\* then BullMQ moves it to the failed set, where nothing looks at it.
FailJob ==
    /\ jobs' = [jobs EXCEPT ![proc.job].left = @ - 1]
    /\ proc' = Idle

\* Mutant: a job is handed out again although its tries are used up.
TakeJob_Spent(j) ==
    /\ WorkerFree
    /\ jobs[j] # NoJob
    /\ task[jobs[j].task].status = "QUEUED"
    /\ proc' = [pc |-> "excluded", job |-> j, task |-> jobs[j].task,
                server |-> task[jobs[j].task].server, todo |-> {}, row |-> 0]
    /\ UNCHANGED <<db, net, jobs, call, dog, counters>>

\* process: the read of the task; a task that is not QUEUED is skipped.
TakeJob(j) ==
    /\ WorkerFree
    /\ jobs[j] # NoJob
    /\ jobs[j].left > 0
    /\ LET t == jobs[j].task
       IN \/ /\ task[t].status # "QUEUED"
             /\ jobs' = [jobs EXCEPT ![j] = NoJob]
             /\ UNCHANGED proc
          \/ /\ task[t].status = "QUEUED"
             /\ proc' = [pc |-> "excluded", job |-> j, task |-> t,
                         server |-> task[t].server, todo |-> {}, row |-> 0]
             /\ UNCHANGED jobs
    /\ UNCHANGED <<db, net, call, dog, counters>>

\* The attempts are read first, the servers an await later.
ReadExcluded ==
    /\ proc.pc = "excluded"
    /\ proc' = [proc EXCEPT !.pc = "candidates",
                            !.todo = Servers \ retryExcludedServerIds(proc.task)]
    /\ UNCHANGED <<db, net, jobs, call, dog, counters>>

ChooseCandidates ==
    LET candidates == getDispatchCandidates(proc.server, proc.todo)
    IN /\ proc.pc = "candidates"
       /\ \/ /\ task[proc.task].type \in SupportedTypes
             /\ candidates # {}
             /\ proc' = [proc EXCEPT !.pc = "create", !.todo = candidates]
             /\ UNCHANGED jobs
          \/ /\ task[proc.task].type \notin SupportedTypes \/ candidates = {}
             /\ FailJob
       /\ UNCHANGED <<db, net, call, dog, counters>>

CreateAttempt ==
    /\ proc.pc = "create"
    /\ Len(attempts[proc.task]) < MaxAttempts
    /\ \E s \in Servers :
          /\ NextCandidate(proc.todo, proc.server, s)
          /\ attempts' = [attempts EXCEPT ![proc.task] =
                Append(@, [server |-> s, status |-> "DISPATCHING",
                           capacity |-> FALSE, fresh |-> TRUE])]
          /\ proc' = [proc EXCEPT !.pc = "send", !.todo = @ \ {s},
                                  !.row = Len(attempts[proc.task]) + 1]
    /\ UNCHANGED <<task, approval, net, jobs, call, dog, counters>>

Candidate == attempts[proc.task][proc.row].server

\* dispatchToCandidate: emit if a daemon is in the room, else throw.
SendTask ==
    /\ proc.pc = "send"
    /\ \/ /\ room[Candidate]
          /\ Emit(Candidate, "task:submit", proc.task, FALSE)
          /\ proc' = [proc EXCEPT !.pc = "setTask"]
       \/ /\ ~room[Candidate]
          /\ proc' = [proc EXCEPT !.pc = "failAttempt"]
          /\ UNCHANGED wire
    /\ UNCHANGED <<db, serverStatus, room, jobs, call, dog, counters>>

SetTaskRunning ==
    /\ proc.pc = "setTask"
    /\ task' = [task EXCEPT ![proc.task] =
          [@ EXCEPT !.server = Candidate, !.status = "RUNNING", !.fresh = TRUE]]
    /\ proc' = [proc EXCEPT !.pc = "setAttempt"]
    /\ UNCHANGED <<attempts, approval, net, jobs, call, dog, counters>>

\* Mutant: the attempt stays DISPATCHING when the job is done.
SetAttemptRunning_Forgotten ==
    /\ proc.pc = "setAttempt"
    /\ jobs' = [jobs EXCEPT ![proc.job] = NoJob]
    /\ proc' = Idle
    /\ UNCHANGED <<db, net, call, dog, counters>>

SetAttemptRunning ==
    /\ proc.pc = "setAttempt"
    /\ SetAttempt(proc.task, proc.row,
          [attempts[proc.task][proc.row] EXCEPT !.status = "RUNNING",
                                                !.fresh = TRUE])
    /\ jobs' = [jobs EXCEPT ![proc.job] = NoJob]
    /\ proc' = Idle
    /\ UNCHANGED <<task, approval, net, call, dog, counters>>

FailAttempt ==
    /\ proc.pc = "failAttempt"
    /\ SetAttempt(proc.task, proc.row,
          [attempts[proc.task][proc.row] EXCEPT !.status = "FAILED",
                                                !.capacity = FALSE,
                                                !.fresh = TRUE])
    /\ proc' = [proc EXCEPT !.pc = IF proc.todo = {} THEN "logFailure"
                                                     ELSE "create"]
    /\ UNCHANGED <<task, approval, net, jobs, call, dog, counters>>

\* The failover log goes to the task's logs column, then the job throws.
LogFailure ==
    /\ proc.pc = "logFailure"
    /\ SetTaskStatus(proc.task, task[proc.task].status)
    /\ FailJob
    /\ UNCHANGED <<attempts, approval, net, call, dog, counters>>

-----------------------------------------------------------------------------
(* The watchdog job.                                                       *)

\* Mutant: the oldest attempt is looked at instead of the latest.
StuckTasks_Oldest ==
    {k \in [task : Tasks, row : {1}] :
        LET rows == attempts[k.task]
        IN /\ task[k.task].status = "RUNNING"
           /\ ~task[k.task].fresh
           /\ rows # <<>>
           /\ rows[1].status \in OpenStatuses
           /\ ~rows[1].fresh}

\* RUNNING tasks without a recent update whose latest attempt is open and
\* was not heard of recently.
StuckTasks ==
    {k \in [task : Tasks, row : 1 .. MaxAttempts] :
        LET rows == attempts[k.task]
        IN /\ task[k.task].status = "RUNNING"
           /\ ~task[k.task].fresh
           /\ k.row = Len(rows)
           /\ rows[k.row].status \in OpenStatuses
           /\ ~rows[k.row].fresh}

NextStuck(todo) ==
    \/ todo = {} /\ dog' = Idle
    \/ \E k \in todo : dog' = [pc |-> "count", todo |-> todo \ {k},
                               at |-> k, spent |-> 0]

Scan ==
    /\ WorkerFree
    /\ StuckTasks # {}
    /\ NextStuck(StuckTasks)
    /\ UNCHANGED <<db, net, jobs, call, proc, counters>>

CountTimeouts ==
    /\ dog.pc = "count"
    /\ dog' = [dog EXCEPT !.pc = "timeOut",
                          !.spent = Cardinality({i \in DOMAIN attempts[dog.at.task] :
                             attempts[dog.at.task][i].status = "TIMED_OUT"})]
    /\ UNCHANGED <<db, net, jobs, call, proc, counters>>

TimeOut ==
    /\ dog.pc = "timeOut"
    /\ SetAttempt(dog.at.task, dog.at.row,
          [attempts[dog.at.task][dog.at.row] EXCEPT !.status = "TIMED_OUT",
                                                    !.capacity = FALSE])
    /\ dog' = [dog EXCEPT !.pc = "settle"]
    /\ UNCHANGED <<task, approval, net, jobs, call, proc, counters>>

\* Mutant: QUEUED is written, but no job is added.
Settle_NoJob ==
    /\ dog.pc = "settle"
    /\ SetTaskStatus(dog.at.task, IF dog.spent >= MaxRequeues THEN "FAILED" ELSE "QUEUED")
    /\ NextStuck(dog.todo)
    /\ UNCHANGED <<attempts, approval, net, jobs, call, proc, counters>>

Settle ==
    /\ dog.pc = "settle"
    /\ \/ /\ dog.spent >= MaxRequeues
          /\ SetTaskStatus(dog.at.task, "FAILED")
          /\ NextStuck(dog.todo)
       \/ /\ dog.spent < MaxRequeues
          /\ SetTaskStatus(dog.at.task, "QUEUED")
          /\ dog' = [dog EXCEPT !.pc = "requeue"]
    /\ UNCHANGED <<attempts, approval, net, jobs, call, proc, counters>>

RequeueStuck ==
    /\ dog.pc = "requeue"
    /\ AddJob(dog.at.task)
    /\ NextStuck(dog.todo)
    /\ UNCHANGED <<db, net, call, proc, counters>>

-----------------------------------------------------------------------------
(* Time, restarts and the environment.                                     *)

\* The watchdog timeout passes without a write to the task or its attempts:
\* Scan asks for both to be old, so nothing is lost by ageing them together.
\* The timeout is in minutes: no handler or job stays in flight that long.
TimePasses(t) ==
    /\ Exists(t)
    /\ WorkerFree
    /\ \A c \in Slots : call[c] = Idle
    /\ task' = [task EXCEPT ![t].fresh = FALSE]
    /\ attempts' = [attempts EXCEPT ![t] =
                      [i \in DOMAIN @ |-> [@[i] EXCEPT !.fresh = FALSE]]]
    /\ UNCHANGED <<approval, net, jobs, call, proc, dog, counters>>

\* The Hub process dies and is started again: the handlers in flight and the
\* sockets are gone, the database and the queue stay, and BullMQ hands the
\* job that was being processed out again as a stalled job.
HubRestart ==
    /\ crashes < MaxCrashes
    /\ crashes' = crashes + 1
    /\ call' = [c \in Slots |-> Idle]
    /\ proc' = Idle
    /\ dog' = Idle
    /\ room' = [s \in Servers |-> FALSE]
    /\ wire' = [s \in Servers |-> <<>>]
    /\ UNCHANGED <<db, serverStatus, jobs, stimuli, flips>>

\* A daemon's socket joins or leaves the server's room; what was emitted and
\* not delivered is lost with the connection.
Connect(s) ==
    /\ Flip
    /\ ~room[s]
    /\ room' = [room EXCEPT ![s] = TRUE]
    /\ UNCHANGED <<db, serverStatus, wire, jobs, call, proc, dog, stimuli, crashes>>

Disconnect(s) ==
    /\ Flip
    /\ room[s]
    /\ room' = [room EXCEPT ![s] = FALSE]
    /\ wire' = [wire EXCEPT ![s] = <<>>]
    /\ UNCHANGED <<db, serverStatus, jobs, call, proc, dog, stimuli, crashes>>

\* markHeartbeat or markOffline reaches the database, at any time.
MarkPresence(s, status) ==
    /\ Flip
    /\ serverStatus[s] # status
    /\ serverStatus' = [serverStatus EXCEPT ![s] = status]
    /\ UNCHANGED <<db, room, wire, jobs, call, proc, dog, stimuli, crashes>>

\* The daemon takes the next event, or the connection is lost with all.
Deliver(s) ==
    /\ wire[s] # <<>>
    /\ \E rest \in {Tail(wire[s]), <<>>} : wire' = [wire EXCEPT ![s] = rest]
    /\ UNCHANGED <<db, serverStatus, room, jobs, call, proc, dog, counters>>

-----------------------------------------------------------------------------
UserRequest(c, t) ==
    \/ \E s \in Servers, type \in SubmittedTypes : Submit(c, t, s, type)
    \/ Cancel(c, t)
    \/ \E approve \in BOOLEAN : Decide(c, t, approve)

DaemonEvent(c, t) ==
    \/ \E status \in ReportedStatuses : OnStatus(c, t, status)
    \/ OnLog(c, t)
    \/ \E status \in {"COMPLETED", "FAILED"} : OnResult(c, t, status)
    \/ OnCapacityResult(c, t)
    \/ OnApprovalRequest(c, t)

Continue(c) ==
    \/ Enqueue(c) \/ SendCancel(c) \/ WriteStatus(c) \/ WriteLogs(c)
    \/ TouchAttempt(c) \/ FinishAttempt(c)
    \/ FinishCapacity(c) \/ Failover(c) \/ Requeue(c)
    \/ DecideApproval(c) \/ DecideTask(c) \/ SendDecision(c)

DispatchStep ==
    \/ \E j \in JobIds : TakeJob(j)
    \/ ReadExcluded \/ ChooseCandidates \/ CreateAttempt \/ SendTask
    \/ SetTaskRunning \/ SetAttemptRunning \/ FailAttempt \/ LogFailure

WatchdogStep == Scan \/ CountTimeouts \/ TimeOut \/ Settle \/ RequeueStuck

Presence(s) ==
    \/ Connect(s) \/ Disconnect(s) \/ Deliver(s)
    \/ \E status \in {"ONLINE", "OFFLINE"} : MarkPresence(s, status)

Next ==
    \/ \E c \in Slots, t \in Tasks : UserRequest(c, t) \/ DaemonEvent(c, t)
    \/ \E c \in Slots : Continue(c)
    \/ DispatchStep
    \/ WatchdogStep
    \/ \E t \in Tasks : TimePasses(t)
    \/ HubRestart
    \/ \E s \in Servers : Presence(s)

Spec == Init /\ [][Next]_vars

\* The event loop resumes every handler whose await is over, BullMQ keeps
\* handing out jobs and the repeated watchdog job, emitted events leave the
\* wire, and time goes on.  Nothing is assumed of users, daemons or presence.
Fairness ==
    /\ \A c \in Slots : WF_vars(Continue(c))
    /\ WF_vars(DispatchStep)
    /\ WF_vars(WatchdogStep)
    /\ \A s \in Servers : WF_vars(Deliver(s))
    /\ \A t \in Tasks : WF_vars(TimePasses(t))

FairSpec == Spec /\ Fairness

-----------------------------------------------------------------------------
(* Properties.                                                             *)

\* A task stays with the user who submitted it: whatever failover does, its
\* server, its attempts and every event emitted about it belong to servers of
\* one owner (getDispatchCandidates filters on ownerId; the server a handler
\* read before an await is used after it).
OwnerIsolation ==
    /\ \A t \in Tasks : \A i \in DOMAIN attempts[t] :
          OwnerOf[attempts[t][i].server] = OwnerOf[task[t].server]
    /\ \A s \in Servers : \A i \in DOMAIN wire[s] :
          OwnerOf[s] = OwnerOf[task[wire[s][i].task].server]

\* A server on which an attempt of a task is TIMED_OUT is never given that
\* task again (retryExcludedServerIds is read awaits before the attempts it
\* decides on are created; watchdog, retries and late daemon events come in
\* between).
TimedOutServerRetired ==
    \A t \in Tasks : \A i, j \in DOMAIN attempts[t] :
        (i < j /\ attempts[t][i].server = attempts[t][j].server)
            => attempts[t][i].status # "TIMED_OUT"

\* A QUEUED task is on its way: a job of the queue that has tries left names
\* it, or a handler or the watchdog that has just written QUEUED is about to
\* add one.  A job that has already written RUNNING does not count, it will
\* not look again; nor does one whose tries are used up.
WillBeLookedAt(t) ==
    \/ \E j \in JobIds :
          /\ jobs[j] # NoJob /\ jobs[j].task = t /\ jobs[j].left > 0
          /\ ~(proc.pc = "setAttempt" /\ proc.job = j)
    \/ \E c \in Slots : call[c].pc = "enqueue" /\ call[c].task = t
    \/ dog.pc = "requeue" /\ dog.at.task = t
Forgotten(t) == task[t].status = "QUEUED" /\ ~WillBeLookedAt(t)
LastTryFails(t) == proc.task = t /\ jobs[proc.job].left = 1 /\ FailJob

\* Two steps alone leave a QUEUED task with nobody to look at it: the last try
\* of its job fails (process throws and nothing marks the task), or the Hub is
\* restarted, perhaps between the write of QUEUED and queue.add.  No order of
\* submissions, retries, failovers, watchdog scans and late events does.
NoQueuedTaskForgotten ==
    [][\A t \in Tasks : Forgotten(t)' =>
          Forgotten(t) \/ (proc # Idle /\ LastTryFails(t)) \/ crashes' # crashes]_vars

\* Unless the Hub was restarted, an attempt row is DISPATCHING only while the
\* dispatch job that created it is still working on it: no path of process
\* leaves one behind for finishRunningAttempt or the watchdog to mistake.
NoOrphanDispatching ==
    crashes = 0 =>
        \A t \in Tasks : \A i \in DOMAIN attempts[t] :
            attempts[t][i].status = "DISPATCHING" =>
                /\ proc.pc \in {"send", "setTask", "setAttempt", "failAttempt"}
                /\ proc.task = t
                /\ proc.row = i

\* A QUEUED task does not wait for ever on a job that could still run: it
\* leaves QUEUED, or all the tries of a job of it are used up.  What becomes of
\* it then is the question of ExhaustedTaskFails.
Exhausted(t) == \E j \in JobIds :
    jobs[j] # NoJob /\ jobs[j].task = t /\ jobs[j].left = 0
QueuedTaskTried ==
    \A t \in Tasks :
        (task[t].status = "QUEUED") ~> (task[t].status # "QUEUED" \/ Exhausted(t))

\* worker-failover-watchdog.md, State Machine Addition: a QUEUED task becomes
\* FAILED once "all dispatch attempts" are "exhausted"; in any case it does not
\* stay QUEUED.  The code throws from process and BullMQ keeps the failed job.
ExhaustedTaskFails ==
    \A t \in Tasks :
        (task[t].status = "QUEUED" /\ Exhausted(t)) ~> (task[t].status # "QUEUED")

\* The watchdog's promise: a task does not stay RUNNING on an open attempt
\* for ever once its daemon has fallen silent.
OnOpenAttempt(t) ==
    /\ task[t].status = "RUNNING"
    /\ attempts[t] # <<>>
    /\ attempts[t][Len(attempts[t])].status \in OpenStatuses
SilentTaskReclaimed ==
    \A t \in Tasks : OnOpenAttempt(t) ~> ~OnOpenAttempt(t)

-----------------------------------------------------------------------------
(* The inductive invariant behind OwnerIsolation, TimedOutServerRetired and *)
(* TypeOK; module TaskHubProofs has the proofs.                             *)

\* A server that may be used for a task: it belongs to the task's owner.
Owned(s, t) == s \in Servers /\ OwnerOf[s] = OwnerOf[task[t].server]

\* Nothing in the tables, the queue or on the wire is about a missing task.
ApprovalsOK == \A t \in Tasks : approval[t] # "NONE" => Exists(t)
AttemptsOK == \A t \in Tasks : attempts[t] # <<>> => Exists(t)
JobsOK == \A j \in JobIds : jobs[j] # NoJob => Exists(jobs[j].task)
WireOK == \A s \in Servers : \A i \in DOMAIN wire[s] :
              Exists(wire[s][i].task) /\ Owned(s, wire[s][i].task)

\* What a handler remembers over its awaits stays true of the tables.
CallOK(a) ==
    a # Idle =>
        /\ Exists(a.task)
        /\ a.row \in 0 .. Len(attempts[a.task])
        /\ a.pc \in {"decide", "decideTask"} => a.to # "LOG"
        /\ a.pc \in {"sendCancel", "finishCapacity", "failover", "decide",
                     "decideTask", "sendDecision"} => Owned(a.server, a.task)

\* So does what the dispatch job remembers: its job stays in the queue with a
\* try left, and no candidate it still has to try is a server on which the
\* task has timed out.
ProcOK ==
    proc # Idle =>
        /\ Exists(proc.task)
        /\ jobs[proc.job] # NoJob
        /\ jobs[proc.job].task = proc.task
        /\ jobs[proc.job].left > 0
        /\ Owned(proc.server, proc.task)
        /\ proc.pc # "candidates" => \A s \in proc.todo : Owned(s, proc.task)
        /\ proc.pc \in {"send", "setTask", "setAttempt", "failAttempt"}
              => proc.row \in DOMAIN attempts[proc.task]
        /\ \A i \in DOMAIN attempts[proc.task] :
              attempts[proc.task][i].status = "TIMED_OUT"
                  => attempts[proc.task][i].server \notin proc.todo

\* The watchdog job runs alone, and on the latest attempts only.
DogOK ==
    dog # Idle =>
        /\ proc = Idle
        /\ \A k \in dog.todo \cup {dog.at} :
              k.row # 0 /\ k.row = Len(attempts[k.task])

\* All of it: what the handlers, the two jobs and the tables know of each
\* other at every await of the Hub.
IInv ==
    /\ TypeOK
    /\ ApprovalsOK /\ AttemptsOK /\ JobsOK /\ WireOK
    /\ \A c \in Slots : CallOK(call[c])
    /\ ProcOK
    /\ DogOK
    /\ OwnerIsolation
    /\ TimedOutServerRetired

=============================================================================
