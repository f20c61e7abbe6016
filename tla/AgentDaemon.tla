----------------------------- MODULE AgentDaemon -----------------------------
(***************************************************************************)
(* The Agent Daemons: DaemonClient (client.js), which keeps the socket to  *)
(* the Hub and the map of runners, and TaskRunner (runner.js), which keeps *)
(* one child process.  A daemon is one Node process without an await in    *)
(* these handlers, so each handler is one step.                            *)
(*                                                                         *)
(* The child processes, the network and the Hub are the environment.       *)
(***************************************************************************)
EXTENDS Naturals, Sequences

CONSTANTS
    Tasks,      \* task ids the Hub may send
    Daemons,    \* one daemon per server
    MaxQueue,   \* bound on the events of a daemon that wait for the Hub
    MaxInbox,   \* bound on the commands of the Hub that wait for a daemon
    MaxRuns,    \* bound on the child processes a daemon starts
    MaxLosses   \* bound on lost connections and daemon restarts

ASSUME DaemonBounds ==
    /\ MaxQueue \in Nat /\ MaxInbox \in Nat
    /\ MaxRuns \in Nat /\ MaxLosses \in Nat

VARIABLES
    link,    \* "up"; "broken": lost, but socket.connected is still true;
             \* "down": socket.connected is false
    inbox,   \* events on their way from the Hub
    outbox,  \* events on their way to the Hub
    buffer,  \* DaemonClient.buffer
    runner,  \* DaemonClient.runners: NoRunner or the flags of a TaskRunner
    runs,    \* children started by each daemon, numbers the runs
    losses

daemonVars == <<link, inbox, outbox, buffer, runner, runs, losses>>

NoRunner == [run |-> 0]

\* What a daemon sends about a task; "run" says which child it is about and
\* is not part of the payload.
Event == [event : {"RUNNING", "LOG", "APPROVAL", "COMPLETED", "FAILED",
                   "CAPACITY_EXHAUSTED"},
          task : Tasks, run : Nat]
Results == {"COMPLETED", "FAILED", "CAPACITY_EXHAUSTED"}
Runner == [run : Nat \ {0}, awaitingApproval : BOOLEAN, killedByHub : BOOLEAN]
Command == [event : {"task:submit", "task:cancel", "approval:decision"},
            task : Tasks, approved : BOOLEAN]

DaemonTypeOK ==
    /\ link \in [Daemons -> {"up", "broken", "down"}]
    /\ inbox \in [Daemons -> Seq(Command)]
    /\ outbox \in [Daemons -> Seq(Event)]
    /\ buffer \in [Daemons -> Seq(Event)]
    /\ runner \in [Daemons -> [Tasks -> {NoRunner} \cup Runner]]
    /\ runs \in [Daemons -> Nat]
    /\ losses \in Nat

DaemonInit ==
    /\ link = [d \in Daemons |-> "up"]
    /\ inbox = [d \in Daemons |-> <<>>]
    /\ outbox = [d \in Daemons |-> <<>>]
    /\ buffer = [d \in Daemons |-> <<>>]
    /\ runner = [d \in Daemons |-> [t \in Tasks |-> NoRunner]]
    /\ runs = [d \in Daemons |-> 0]
    /\ losses = 0

-----------------------------------------------------------------------------
\* DaemonClient.emit of several events in a row.  A connected socket takes
\* them, and they are lost if the connection is gone without the socket
\* having noticed; a socket that knows it is disconnected leaves them to the
\* buffer.
emit(d, events) ==
    /\ Len(outbox[d]) + Len(buffer[d]) + Len(events) <= MaxQueue
    /\ outbox' = IF link[d] = "up" THEN [outbox EXCEPT ![d] = @ \o events]
                                   ELSE outbox
    /\ buffer' = IF link[d] = "down" THEN [buffer EXCEPT ![d] = @ \o events]
                                     ELSE buffer

Say(d, t, event) == [event |-> event, task |-> t, run |-> runner[d][t].run]

SetRunner(d, t, r) == runner' = [runner EXCEPT ![d][t] = r]
\* Mutant: the entry of the map is emptied, not deleted.
dropTask_Emptied(d, t) ==
    SetRunner(d, t, [run |-> 0, awaitingApproval |-> FALSE, killedByHub |-> FALSE])

dropTask(d, t) == SetRunner(d, t, NoRunner)
Running(d, t) == runner[d][t] # NoRunner

\* The next command of the Hub, taken by a handler.
Take(d, event) ==
    /\ link[d] = "up"
    /\ inbox[d] # <<>>
    /\ Head(inbox[d]).event = event
    /\ inbox' = [inbox EXCEPT ![d] = Tail(@)]

\* TaskRunner.start: a child is spawned and RUNNING is reported; spawn may
\* throw, which reports the failure at once.  The throw of buildSpawnPlan on a
\* template without a token is not caught and ends the daemon, see shutdown.
start(d, t) ==
    LET run == runs[d] + 1
        Tell(e) == emit(d, <<[event |-> e, task |-> t, run |-> run]>>)
    IN /\ runs[d] < MaxRuns
       /\ runs' = [runs EXCEPT ![d] = run]
       /\ \/ /\ SetRunner(d, t, [run |-> run, awaitingApproval |-> FALSE,
                                 killedByHub |-> FALSE])
             /\ Tell("RUNNING")
          \/ /\ \E e \in {"FAILED", "CAPACITY_EXHAUSTED"} : Tell(e)
             /\ UNCHANGED runner

\* onTaskSubmit: a task that is already running is left alone.
onTaskSubmit(d) ==
    /\ Take(d, "task:submit")
    /\ LET t == Head(inbox[d]).task
       IN IF Running(d, t) THEN UNCHANGED <<outbox, buffer, runner, runs>>
                           ELSE start(d, t)
    /\ UNCHANGED <<link, losses>>

\* kill: a runner that was killed by the Hub reports no result.
kill(d, t) == SetRunner(d, t, [runner[d][t] EXCEPT !.killedByHub = TRUE])

\* resume: the write of "y" to stdin has no effect, start has ended that
\* stream.
resume(d, t) == SetRunner(d, t, [runner[d][t] EXCEPT !.awaitingApproval = FALSE])

\* Mutant: a decision that is not being waited for is ignored.
Answer_WhenAsked(d, t, approved) ==
    IF ~runner[d][t].awaitingApproval THEN UNCHANGED runner
    ELSE IF approved THEN resume(d, t) ELSE kill(d, t)

\* TaskRunner.decide.
Answer(d, t, approved) == IF approved THEN resume(d, t) ELSE kill(d, t)

onTaskCancel(d) ==
    /\ Take(d, "task:cancel")
    /\ LET t == Head(inbox[d]).task
       IN IF Running(d, t) THEN kill(d, t) ELSE UNCHANGED runner
    /\ UNCHANGED <<link, outbox, buffer, runs, losses>>

onApprovalDecision(d) ==
    /\ Take(d, "approval:decision")
    /\ LET c == Head(inbox[d])
       IN IF Running(d, c.task) THEN Answer(d, c.task, c.approved)
                                ELSE UNCHANGED runner
    /\ UNCHANGED <<link, outbox, buffer, runs, losses>>

\* onData: a chunk is logged; if it looks like a prompt and no approval is
\* being waited for, the Hub is asked.
onData(d, t, prompt) ==
    /\ Running(d, t)
    /\ LET ask == prompt /\ ~runner[d][t].awaitingApproval
       IN /\ emit(d, <<Say(d, t, "LOG")>> \o
                     (IF ask THEN <<Say(d, t, "APPROVAL")>> ELSE <<>>))
          /\ SetRunner(d, t, [runner[d][t] EXCEPT !.awaitingApproval = @ \/ ask])
    /\ UNCHANGED <<link, inbox, runs, losses>>

\* Mutant: the result is reported, but the task is not dropped.
onClose_Kept(d, t, e) ==
    /\ Running(d, t)
    /\ IF runner[d][t].killedByHub THEN UNCHANGED <<outbox, buffer>>
       ELSE emit(d, <<Say(d, t, e)>>)
    /\ UNCHANGED <<link, inbox, runner, runs, losses>>

\* onClose: natural exit with the result e, or the end of a child the Hub has
\* killed.  DaemonOutput says which results an output leads to.
onClose(d, t, e) ==
    /\ Running(d, t)
    /\ IF runner[d][t].killedByHub THEN UNCHANGED <<outbox, buffer>>
       ELSE emit(d, <<Say(d, t, e)>>)
    /\ dropTask(d, t)
    /\ UNCHANGED <<link, inbox, runs, losses>>

\* The child's "error" event: finishFailed, even if the Hub killed the runner.
\* The "close" that follows finds exitHandled set and does nothing.
onError(d, t) ==
    /\ Running(d, t)
    /\ \E e \in {"FAILED", "CAPACITY_EXHAUSTED"} : emit(d, <<Say(d, t, e)>>)
    /\ dropTask(d, t)
    /\ UNCHANGED <<link, inbox, runs, losses>>

-----------------------------------------------------------------------------
(* The connection and the daemon process.                                  *)

\* The connection is lost with everything on its way.
Break(d) ==
    /\ losses < MaxLosses
    /\ losses' = losses + 1
    /\ link[d] = "up"
    /\ link' = [link EXCEPT ![d] = "broken"]
    /\ inbox' = [inbox EXCEPT ![d] = <<>>]
    /\ outbox' = [outbox EXCEPT ![d] = <<>>]
    /\ UNCHANGED <<buffer, runner, runs>>

\* The socket's "disconnect" event, after its ping timeout.
onDisconnect(d) ==
    /\ link[d] = "broken"
    /\ link' = [link EXCEPT ![d] = "down"]
    /\ UNCHANGED <<inbox, outbox, buffer, runner, runs, losses>>

\* Mutant: the buffer is flushed from its end.
onConnect_LastFirst(d) ==
    /\ link[d] = "down"
    /\ link' = [link EXCEPT ![d] = "up"]
    /\ outbox' = [outbox EXCEPT ![d] = @ \o [i \in DOMAIN buffer[d] |->
                                             buffer[d][Len(buffer[d]) + 1 - i]]]
    /\ buffer' = [buffer EXCEPT ![d] = <<>>]
    /\ UNCHANGED <<inbox, runner, runs, losses>>

\* The "connect" event of a reconnection: flushBuffer, in order, at once.
onConnect(d) ==
    /\ link[d] = "down"
    /\ link' = [link EXCEPT ![d] = "up"]
    /\ outbox' = [outbox EXCEPT ![d] = @ \o buffer[d]]
    /\ buffer' = [buffer EXCEPT ![d] = <<>>]
    /\ UNCHANGED <<inbox, runner, runs, losses>>

\* SIGTERM, SIGINT or the exit after an "io server disconnect", and the restart
\* that follows: the runners are disposed of and the socket is closed; the
\* buffer was only in memory.  An uncaught throw leaves the same: the command
\* that was being handled is gone with the others.
shutdown(d) ==
    /\ losses < MaxLosses
    /\ losses' = losses + 1
    /\ runner' = [runner EXCEPT ![d] = [t \in Tasks |-> NoRunner]]
    /\ buffer' = [buffer EXCEPT ![d] = <<>>]
    /\ inbox' = [inbox EXCEPT ![d] = <<>>]
    /\ link' = [link EXCEPT ![d] = "down"]
    /\ UNCHANGED <<outbox, runs>>

\* The Hub's side of the connection.
HubSends(d, command) ==
    /\ link[d] = "up"
    /\ Len(inbox[d]) < MaxInbox
    /\ inbox' = [inbox EXCEPT ![d] = Append(@, command)]
    /\ UNCHANGED <<link, outbox, buffer, runner, runs, losses>>

HubTakes(d) ==
    /\ outbox[d] # <<>>
    /\ outbox' = [outbox EXCEPT ![d] = Tail(@)]
    /\ UNCHANGED <<link, inbox, buffer, runner, runs, losses>>

-----------------------------------------------------------------------------
HubSide(d) ==
    \/ \E command \in Command :
          /\ command.approved => command.event = "approval:decision"
          /\ HubSends(d, command)
    \/ HubTakes(d)

Handler(d) == onTaskSubmit(d) \/ onTaskCancel(d) \/ onApprovalDecision(d)

Child(d, t) ==
    \/ \E prompt \in BOOLEAN : onData(d, t, prompt)
    \/ \E e \in Results : onClose(d, t, e)
    \/ onError(d, t)

Connection(d) == Break(d) \/ onDisconnect(d) \/ onConnect(d) \/ shutdown(d)

DaemonNext ==
    \E d \in Daemons :
        \/ Handler(d)
        \/ \E t \in Tasks : Child(d, t)
        \/ Connection(d)
        \/ HubSide(d)

DaemonSpec == DaemonInit /\ [][DaemonNext]_daemonVars

-----------------------------------------------------------------------------
(* Properties.                                                             *)

\* Everything a daemon still has to tell the Hub, in the order it will.
Pending(d) == outbox[d] \o buffer[d]

\* The Hub hears of a task's runs one after the other: whatever is delayed,
\* buffered and replayed, events of an older run never come after events of
\* a newer one, and nothing of a run comes after its result.
ResultEndsRun ==
    \A d \in Daemons : \A i, j \in DOMAIN Pending(d) :
        LET a == Pending(d)[i]
            b == Pending(d)[j]
        IN (i < j /\ a.task = b.task) =>
              /\ a.run <= b.run
              /\ a.event \in Results => a.run < b.run

\* What is still to be said about a runner in the map never includes its
\* result: a task the daemon would refuse as a duplicate has not ended yet.
NoResultWhileRunning ==
    \A d \in Daemons, t \in Tasks : \A i \in DOMAIN Pending(d) :
        (Pending(d)[i].task = t /\ Pending(d)[i].event \in Results)
            => Pending(d)[i].run # runner[d][t].run

-----------------------------------------------------------------------------
(* The inductive invariant behind ResultEndsRun and NoResultWhileRunning;   *)
(* module AgentDaemonProofs has the proofs.                                 *)

\* The events p fit what a daemon with n runs so far and the runners rn may
\* still have to say: they are about runs it has started, in order, none is
\* about a later run than the task's runner, and none is that runner's result.
Told(p, n, rn) ==
    /\ \A i, j \in DOMAIN p :
          (i < j /\ p[i].task = p[j].task) =>
              /\ p[i].run <= p[j].run
              /\ p[i].event \in Results => p[i].run < p[j].run
    /\ \A i \in DOMAIN p :
          /\ p[i].run \in 1 .. n
          /\ rn[p[i].task] # NoRunner =>
                /\ p[i].run <= rn[p[i].task].run
                /\ p[i].event \in Results => p[i].run # rn[p[i].task].run
    /\ \A t \in Tasks : rn[t] # NoRunner => rn[t].run <= n

\* A daemon buffers only while it knows that it is disconnected, so the buffer
\* is always newer than what was sent.
DaemonInv ==
    /\ DaemonTypeOK
    /\ \A d \in Daemons :
          /\ link[d] # "down" => buffer[d] = <<>>
          /\ Told(Pending(d), runs[d], runner[d])

=============================================================================
