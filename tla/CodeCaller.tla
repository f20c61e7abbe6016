------------------------------ MODULE CodeCaller ------------------------------
(***************************************************************************)
(* The whole task path: the Hub of TaskHub and a daemon of AgentDaemon on  *)
(* every server, joined by their sockets.  The Hub's wire[s] is the inbox  *)
(* of daemon s; the events of daemon s start the Hub's handlers in order.  *)
(*                                                                         *)
(* TaskHub lets daemons say anything at any time, so this system           *)
(* implements TaskHub: PROPERTY Spec below is TaskHub's specification.     *)
(***************************************************************************)
EXTENDS TaskHub

CONSTANTS MaxQueue, MaxRuns, MaxLosses

ASSUME SystemBounds == MaxQueue \in Nat /\ MaxRuns \in Nat /\ MaxLosses \in Nat

\* The status a daemon reports is RUNNING (the first event of TaskRunner.start).
ASSUME DaemonsReport == "RUNNING" \in ReportedStatuses

VARIABLES link, outbox, buffer, runner, runs, losses

Daemon == INSTANCE AgentDaemon WITH
              Daemons <- Servers, inbox <- wire, MaxInbox <- MaxWire

own == <<link, outbox, buffer, runner, runs, losses>>
\* The variables of the Hub a daemon cannot touch.
hubOwn == <<db, serverStatus, room, jobs, call, proc, dog, counters>>
allVars == <<vars, own>>

SystemInit == Init /\ Daemon!DaemonInit

-----------------------------------------------------------------------------
\* The gateway's handler for the next event of daemon s.  A second approval
\* request for a task fails on the unique taskId and changes nothing.
Receive(c, s) ==
    LET e == Head(outbox[s])
    IN /\ outbox[s] # <<>>
       /\ Daemon!HubTakes(s)
       /\ \/ e.event = "RUNNING" /\ OnStatus(c, e.task, "RUNNING")
          \/ e.event = "LOG" /\ OnLog(c, e.task)
          \/ e.event \in {"COMPLETED", "FAILED"} /\ OnResult(c, e.task, e.event)
          \/ e.event = "CAPACITY_EXHAUSTED" /\ OnCapacityResult(c, e.task)
          \/ e.event = "APPROVAL" /\ OnApprovalRequest(c, e.task)
          \/ /\ e.event = "APPROVAL"
             /\ approval[e.task] # "NONE"
             /\ UNCHANGED hubOwn

DaemonStep(s) ==
    /\ \/ Daemon!Handler(s)
       \/ \E t \in Tasks : Daemon!Child(s, t)
       \/ Daemon!Break(s) \/ Daemon!onDisconnect(s) \/ Daemon!shutdown(s)
    /\ UNCHANGED hubOwn

\* Mutant: what was emitted into the old connection survives it.
Leave_KeepsWire(s) ==
    /\ link[s] # "up"
    /\ Flip
    /\ room[s]
    /\ room' = [room EXCEPT ![s] = FALSE]
    /\ UNCHANGED <<db, serverStatus, wire, jobs, call, proc, dog, stimuli, crashes, own>>

\* Mutant: the buffer is not flushed.
Reconnect_NoFlush(s) ==
    /\ wire[s] = <<>> /\ link[s] = "down"
    /\ link' = [link EXCEPT ![s] = "up"]
    /\ UNCHANGED <<vars, outbox, buffer, runner, runs, losses>>

\* A new connection does not carry what was emitted into the old one.
Reconnect(s) == wire[s] = <<>> /\ Daemon!onConnect(s) /\ UNCHANGED hubOwn

\* The Hub's view of the connection lags behind: the socket joins its room
\* after the API key was looked up, and leaves it when the Hub notices.
Join(s) == link[s] = "up" /\ Connect(s) /\ UNCHANGED own
Leave(s) == link[s] # "up" /\ Disconnect(s) /\ UNCHANGED own

\* What the Hub emits into a dead connection is lost.
LoseWire(s) == link[s] # "up" /\ Deliver(s) /\ UNCHANGED own

\* A markHeartbeat or markOffline reaches the database: it may be that of an
\* older socket, so it need not agree with the room.
Mark(s) ==
    /\ \E status \in {"ONLINE", "OFFLINE"} : MarkPresence(s, status)
    /\ UNCHANGED own

\* A restart of the Hub breaks every connection.
Restart ==
    /\ HubRestart
    /\ link' = [s \in Servers |-> IF link[s] = "up" THEN "broken" ELSE link[s]]
    /\ outbox' = [s \in Servers |-> <<>>]
    /\ UNCHANGED <<buffer, runner, runs, losses>>

\* The watchdog timeout is long against the delivery of an event.
Wait(t) ==
    /\ \A s \in Servers : outbox[s] = <<>> /\ wire[s] = <<>>
    /\ TimePasses(t)
    /\ UNCHANGED own

HubStep ==
    /\ \/ \E c \in Slots, t \in Tasks : UserRequest(c, t)
       \/ \E c \in Slots : Continue(c)
       \/ DispatchStep
       \/ WatchdogStep
    /\ UNCHANGED own

SystemNext ==
    \/ HubStep
    \/ \E c \in Slots, s \in Servers : Receive(c, s)
    \/ \E s \in Servers :
          DaemonStep(s) \/ Reconnect(s) \/ Join(s) \/ Leave(s) \/ LoseWire(s) \/ Mark(s)
    \/ \E t \in Tasks : Wait(t)
    \/ Restart

System == SystemInit /\ [][SystemNext]_allVars

-----------------------------------------------------------------------------
(* Properties.                                                             *)

\* A rejection is obeyed: once nothing is in flight, an approval that shows
\* REJECTED means that the child which asked for it has been killed, even if
\* two devices decided at once and differently.  (A task that was dispatched
\* again, or a lost connection, is another matter: nobody is told again.)
Quiet ==
    /\ \A c \in Slots : call[c] = Idle
    /\ proc = Idle
    /\ \A s \in Servers : wire[s] = <<>> /\ outbox[s] = <<>>
RejectionKills ==
    (Quiet /\ losses = 0 /\ flips = 0 /\ crashes = 0) =>
        \A t \in Tasks, s \in Servers :
            (approval[t] = "REJECTED" /\ Len(attempts[t]) = 1)
                => (runner[s][t] = Daemon!NoRunner \/ runner[s][t].killedByHub)

\* No child waits in vain: once nothing is in flight, a daemon whose runner still
\* waits for an approval waits for one that is still to be decided.
DecidedMeansAnswered ==
    Quiet => \A t \in Tasks, s \in Servers :
        (link[s] = "up" /\ approval[t] \in {"APPROVED", "REJECTED"} /\ Len(attempts[t]) = 1)
            => \/ runner[s][t] = Daemon!NoRunner
               \/ runner[s][t].killedByHub
               \/ ~runner[s][t].awaitingApproval

\* Once a task is CANCELLED it stays CANCELLED, whatever the daemon still has
\* to say.
CancelledIsFinal ==
    [][\A t \in Tasks :
          task[t].status = "CANCELLED" => task'[t].status = "CANCELLED"]_allVars

-----------------------------------------------------------------------------
\* The invariants of the Hub and of the daemons survive the composition: the
\* Hub's restarts and lost connections do not mix up what the daemons buffer,
\* and no event of a daemon catches a handler of the Hub unprepared.
SystemInv == IInv /\ Daemon!DaemonInv

-----------------------------------------------------------------------------
(* The inductive invariant behind RejectionKills, relative to SystemInv.    *)

\* No connection was lost, no presence has changed, the Hub was not restarted.
Calm == losses = 0 /\ flips = 0 /\ crashes = 0

\* What of task t has been sent to s and not yet taken.
Submits(s, t) ==
    {i \in DOMAIN wire[s] : wire[s][i].event = "task:submit" /\ wire[s][i].task = t}
Rejections(s, t) ==
    {i \in DOMAIN wire[s] :
        wire[s][i] = [event |-> "approval:decision", task |-> t, approved |-> FALSE]}

Runs(s, t) == runner[s][t] # Daemon!NoRunner
Lives(s, t) == Runs(s, t) /\ ~runner[s][t].killedByHub
Asks(s, t) == \E i \in DOMAIN outbox[s] :
    outbox[s][i].event = "APPROVAL" /\ outbox[s][i].task = t
Begun(t) == approval[t] # "NONE" \/ \E s \in Servers : Runs(s, t) \/ Asks(s, t)
AboutToSend(t) == proc.pc = "send" /\ proc.task = t
Deciding(c, t) ==
    call[c].pc \in {"decide", "decideTask", "sendDecision"} /\ call[c].task = t
Rejecting(c, t) ==
    call[c].pc \in {"decideTask", "sendDecision"} /\ call[c].task = t /\ ~Approved(c)

\* The server of the task is the one of its only attempt (the preferred server
\* is ONLINE and comes first), so a decision goes where the child runs, however
\* early the task's server is read.
ServerKnown(t) ==
    /\ attempts[t] # <<>> => task[t].server = attempts[t][1].server
    /\ proc # Idle /\ proc.task = t => proc.server = task[t].server
    /\ proc.pc \in {"candidates", "create"} /\ proc.task = t /\ attempts[t] = <<>>
          => proc.server \in proc.todo
    /\ \A c \in Slots : Deciding(c, t) =>
          approval[t] # "NONE" /\ call[c].server = task[t].server

\* A task that has one attempt is sent once, to the server of that attempt; once
\* its child has run nothing will start another one.
SentOnce(t) ==
    /\ \A s \in Servers : \A i \in Submits(s, t) :
          /\ s = task[t].server
          /\ attempts[t] # <<>> /\ ~Begun(t) /\ ~AboutToSend(t)
          /\ \A j \in Submits(s, t) : j = i
    /\ Begun(t) => attempts[t] # <<>> /\ ~AboutToSend(t)
    /\ \A s \in Servers : Runs(s, t) => s = task[t].server

\* A rejection reaches the child: unless it is killed or gone, the rejection is
\* on the wire to it, or a handler has still to send it.
Obeyed(t) ==
    approval[t] = "REJECTED" =>
        \A s \in Servers : Lives(s, t) =>
            Rejections(s, t) # {} \/ \E c \in Slots : Rejecting(c, t)

\* The invariant: as long as nothing is lost, the decision about a task that was
\* dispatched once goes to the server on which its only child runs.
DecisionInv ==
    Calm => /\ \A s \in Servers : link[s] = "up" /\ room[s] /\ serverStatus[s] = "ONLINE"
            /\ \A t \in Tasks : Len(attempts[t]) <= 1 =>
                  ServerKnown(t) /\ SentOnce(t) /\ Obeyed(t)

=============================================================================
