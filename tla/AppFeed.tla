------------------------------- MODULE AppFeed -------------------------------
(***************************************************************************)
(* What the phone shows of the Hub: App.tsx loads whole lists (loadAll)    *)
(* and applies the events of its /app socket in between; AppGateway lets   *)
(* the socket join the room of its user and the services emit to that room *)
(* after their writes; NotificationsService pushes to registered devices.  *)
(*                                                                         *)
(* A row of the Hub is the number of its writes, an approval row is 1      *)
(* while PENDING and 2 once decided; 0 is no row.  The handlers that write *)
(* are TaskHub's; here they are reduced to what they write and emit.  An   *)
(* awaited call of the app or of the Hub is a step of its own, so events,  *)
(* responses and the reads of a load overtake each other as they may.      *)
(***************************************************************************)
EXTENDS Naturals, Sequences, SequencesExt

CONSTANTS
    Tasks,
    MaxOps,     \* bound on the operations of the app in flight at once
    MaxWrites,  \* bound on the writes to a task row
    MaxRows,    \* bound on the rows of push_tokens
    MaxActs     \* bound on what users, clocks and the network do to the app

ASSUME FeedAssumption == {MaxOps, MaxWrites, MaxRows, MaxActs} \subseteq Nat

VARIABLES
    hub,       \* tables tasks and approvals
    handlers,  \* handlers of the Hub that have still to write, emit or push
    pushRows,  \* table push_tokens, all of one device
    pushed,    \* messages handed to FCM about each row
    tokens,    \* the access token the app holds
    socket,    \* the /app connection
    channel,   \* events on their way to the app
    shown,     \* tasks and approvals of the app's state
    busy,
    op,        \* loadAll, createTask and the decisions in flight
    acts,
    seen,      \* the newest state of each row the app has ever been handed
    excused    \* why the app may be behind with a row; see BehindOnlyIfExcused

hubVars == <<hub, handlers, pushRows, pushed>>
session == <<tokens, socket, channel>>
appVars == <<session, shown, busy, op>>
told == <<seen, excused>>
feedVars == <<hubVars, appVars, acts, told>>

-----------------------------------------------------------------------------
T(t) == <<t, "task">>
A(t) == <<t, "approval">>
TaskRows == {T(t) : t \in Tasks}
ApprovalRows == {A(t) : t \in Tasks}
Rows == TaskRows \cup ApprovalRows
Versions == 0 .. (IF MaxWrites < 2 THEN 2 ELSE MaxWrites)
Ops == 1 .. MaxOps
None == 0
NoRow == <<"none", "none">>
Nothing == [r \in Rows |-> 0]

Event == [row : Rows, version : Versions]
\* step: what the handler does next; version: that of the row as it has read or
\* written it; by: the operation of the app that waits for it.
Handler == [step : {"decide", "task", "emit", "push"}, row : Rows, version : Versions,
            by : Ops \cup {None}]
Idle == [pc |-> "idle"]
Loading == [pc |-> "load"]
Kinds == {"create", "decide", "register"}
Operation ==
    {Idle}
    \cup [pc : {"post", "wait", "reply"}, kind : Kinds, row : Rows \cup {NoRow}]
    \cup {Loading} \cup [pc : {"loaded"}, rows : [Rows -> Versions]]

FeedTypeOK ==
    /\ hub \in [Rows -> Versions]
    /\ handlers \subseteq Handler
    /\ pushRows \in 0 .. MaxRows
    /\ pushed \in [Rows -> Nat]
    /\ tokens \in {"none", "valid", "expired"}
    /\ socket \in {"none", "connecting", "room", "down", "refused"}
    /\ channel \in Seq(Event)
    /\ shown \in [Rows -> Versions]
    /\ busy \in BOOLEAN
    /\ op \in [Ops -> Operation]
    /\ acts \in 0 .. MaxActs
    /\ seen \in [Rows -> Versions] /\ excused \in [Rows -> BOOLEAN]

FeedInit ==
    /\ hub = Nothing
    /\ handlers = {} /\ pushRows = 0 /\ pushed = Nothing
    /\ tokens = "none" /\ socket = "none" /\ channel = <<>>
    /\ shown = Nothing
    /\ busy = FALSE /\ op = [o \in Ops |-> Idle]
    /\ acts = 0 /\ seen = Nothing /\ excused = [r \in Rows |-> FALSE]

-----------------------------------------------------------------------------
(* What the app has been handed.                                           *)

\* The app is handed the versions f.  A row is no longer excused once its
\* newest version was handed, and is excused when an older one comes after it.
Handed(f) ==
    /\ seen' = [r \in Rows |->
          IF r \in DOMAIN f /\ f[r] > seen[r] THEN f[r] ELSE seen[r]]
    /\ excused' = [r \in Rows |->
          IF r \in DOMAIN f THEN f[r] # hub[r] /\ (excused[r] \/ f[r] < seen[r])
                            ELSE excused[r]]

\* The app will not be told of rs.
Excuse(rs) ==
    /\ excused' = [r \in Rows |-> excused[r] \/ r \in rs]
    /\ UNCHANGED seen

Lost(events) == {e.row : e \in ToSet(events)}

\* What the screens show of a row: ApprovalsList and the detail screen filter
\* the approvals that are PENDING.
Shows(r, version) == IF r \in ApprovalRows /\ version # 1 THEN 0 ELSE version
Differs(r) == Shows(r, shown[r]) # Shows(r, hub[r])

\* The rows the app would have got from the operation o.
Owed(o) ==
    CASE op[o].pc \in {"load", "loaded"} -> {r \in Rows : Differs(r)}
      [] op[o].pc = "reply" /\ op[o].kind = "create" -> {op[o].row}
      [] OTHER -> {}

\* Something happens that is not a step of the app or of the Hub.
Act == acts < MaxActs /\ acts' = acts + 1

-----------------------------------------------------------------------------
(* Handlers of the Hub.                                                    *)

Writable(t) == hub[T(t)] < MaxWrites

Write(r) == hub' = [hub EXCEPT ![r] = @ + 1]

\* Mutant: the row as it was read before the write is emitted.
UpdateAndNotify_OldRow(t) ==
    /\ hub[T(t)] > 0 /\ Writable(t)
    /\ Write(T(t))
    /\ handlers' = handlers \cup
          {[step |-> "emit", row |-> T(t), version |-> hub[T(t)], by |-> None]}
    /\ UNCHANGED <<pushRows, pushed, appVars, acts, told>>

\* updateStatus, updateTaskAndNotify and handleDaemonTaskLog: the row is
\* written, and emitted when the handler goes on.
UpdateAndNotify(t) ==
    /\ hub[T(t)] > 0 /\ Writable(t)
    /\ Write(T(t))
    /\ handlers' = handlers \cup
          {[step |-> "emit", row |-> T(t), version |-> hub[T(t)] + 1, by |-> None]}
    /\ UNCHANGED <<pushRows, pushed, appVars, acts, told>>

\* submit of another device, process and scanStuckTasksOnce write and emit
\* nothing.
UpdateSilently(t) ==
    /\ Writable(t)
    /\ Write(T(t))
    /\ Excuse({T(t)})
    /\ UNCHANGED <<handlers, pushRows, pushed, appVars, acts>>

\* The first request of a task creates its approval row.  A second one violates
\* the unique taskId: the create throws, nothing is written, emitted or pushed.
handleDaemonApprovalRequest(t) ==
    /\ hub[T(t)] > 0
    /\ IF hub[A(t)] = 0
       THEN /\ Write(A(t))
            /\ handlers' = handlers \cup
                  {[step |-> "task", row |-> A(t), version |-> 1, by |-> None]}
       ELSE UNCHANGED <<hub, handlers>>
    /\ UNCHANGED <<pushRows, pushed, appVars, acts, told>>

\* decide reads the approval and checks that it is PENDING (otherwise 400, see
\* Fail); the update is awaited, so two decisions may both get past the check.
decide(o) ==
    /\ op[o].pc = "post" /\ op[o].kind = "decide" /\ tokens # "expired"
    /\ hub[op[o].row] = 1
    /\ handlers' = handlers \cup
          {[step |-> "decide", row |-> op[o].row, version |-> 1, by |-> o]}
    /\ op' = [op EXCEPT ![o].pc = "wait"]
    /\ UNCHANGED <<hub, pushRows, pushed, session, shown, busy, acts, told>>

\* Mutant: the decision is added to what the row has, not set.
WriteDecision_Adds(h) ==
    /\ h.step = "decide"
    /\ Write(h.row)
    /\ handlers' = (handlers \ {h}) \cup {[h EXCEPT !.step = "task", !.version = hub'[h.row]]}
    /\ UNCHANGED <<pushRows, pushed, appVars, acts, told>>

\* The update of decide, by id and whatever the status is by now.
WriteDecision(h) ==
    /\ h.step = "decide"
    /\ hub' = [hub EXCEPT ![h.row] = 2]
    /\ handlers' = (handlers \ {h}) \cup {[h EXCEPT !.step = "task", !.version = 2]}
    /\ UNCHANGED <<pushRows, pushed, appVars, acts, told>>

\* The task.update of an approval request and of a decision: not emitted.  At
\* the bound, the task has the status already.
UpdateTask(h) ==
    /\ h.step = "task"
    /\ handlers' = (handlers \ {h}) \cup {[h EXCEPT !.step = "emit"]}
    /\ LET t == h.row[1]
       IN IF Writable(t) THEN Write(T(t)) /\ Excuse({T(t)})
                         ELSE UNCHANGED <<hub, told>>
    /\ UNCHANGED <<pushRows, pushed, appVars, acts>>

\* The handler of a request for approval goes on to sendPush, that of a
\* decision to the response.
IsRequest(h) == h.row \in ApprovalRows /\ h.version = 1

\* emitToUser: the sockets in the room get the event.  A decision then answers
\* the app.
Emit(h) ==
    /\ h.step = "emit"
    /\ IF socket = "room"
       THEN channel' = Append(channel, [row |-> h.row, version |-> h.version])
                /\ UNCHANGED told
       ELSE Excuse({h.row}) /\ UNCHANGED channel
    /\ op' = [o \in Ops |->
          IF o = h.by /\ op[o].pc = "wait" THEN [op[o] EXCEPT !.pc = "reply"] ELSE op[o]]
    /\ UNCHANGED <<hub, pushRows, pushed, tokens, socket, shown, busy, acts>>

\* Mutant: only an app that is not connected gets a push.
notifyUser_Either(h) ==
    /\ Emit(h)
    /\ handlers' = (handlers \ {h}) \cup
          (IF IsRequest(h) /\ socket # "room" THEN {[h EXCEPT !.step = "push"]} ELSE {})

\* notifyUser, after which a request for approval goes on to sendPush (so does
\* a result, which is left out).
notifyUser(h) ==
    /\ Emit(h)
    /\ handlers' = (handlers \ {h}) \cup
          (IF IsRequest(h) THEN {[h EXCEPT !.step = "push"]} ELSE {})

\* One message per row of push_tokens, in a Hub that has FCM configured; whether
\* FCM delivers it is not known.
sendPush(h) ==
    /\ h.step = "push"
    /\ pushed' = [pushed EXCEPT ![h.row] = @ + pushRows]
    /\ handlers' = handlers \ {h}
    /\ UNCHANGED <<hub, pushRows, appVars, acts, told>>

\* The token is encrypted with a new iv each time, so the upsert never finds
\* the row of an earlier registration of the same device.  The step is that of
\* the Hub; an app that got no token, or no answer, has changed nothing else.
registerPushToken ==
    /\ tokens = "valid" /\ pushRows < MaxRows /\ Act
    /\ pushRows' = pushRows + 1
    /\ UNCHANGED <<hub, handlers, pushed, appVars, told>>

-----------------------------------------------------------------------------
(* The session and its socket.                                             *)

\* A slot is free again when the Hub is done with its operation as well.
Free(o) == op[o] = Idle /\ \A h \in handlers : h.by # o
Slot(o) == Free(o) /\ \A p \in 1 .. o - 1 : ~Free(p)

\* Mutant: the effect is not run again for a new access token.
TokensChanged_SameSocket(o) ==
    /\ Slot(o)
    /\ tokens' = "valid"
    /\ socket' = IF tokens = "none" THEN "connecting" ELSE socket
    /\ channel' = channel
    /\ Excuse({})

\* The effect on [activeApiBaseUrl, loadAll, tokens]: the old socket is closed,
\* loadAll is started in the slot o, a new socket connects meanwhile.
TokensChanged(o) ==
    /\ Slot(o)
    /\ tokens' = "valid"
    /\ socket' = "connecting"
    /\ channel' = <<>>
    /\ Excuse(Lost(channel))

\* The button is disabled while busy.  The finally of login and the start of
\* loadAll race for the flag.
login(o) ==
    /\ tokens = "none" /\ ~busy /\ Act
    /\ TokensChanged(o)
    /\ op' = [op EXCEPT ![o] = Loading]
    /\ busy' \in BOOLEAN
    /\ UNCHANGED <<hubVars, shown>>

\* The lists are cleared; operations in flight go on with the token they have.
logout ==
    /\ tokens # "none" /\ Act
    /\ tokens' = "none" /\ socket' = "none" /\ channel' = <<>>
    /\ shown' = Nothing
    /\ Excuse(Lost(channel))
    /\ UNCHANGED <<hubVars, busy, op>>

Expire ==
    /\ tokens = "valid" /\ Act
    /\ tokens' = "expired"
    /\ UNCHANGED <<hubVars, socket, channel, shown, busy, op, told>>

\* A request of the operation o is answered 401; refreshSession gets new
\* tokens, saveTokens sets them (after a logout too), o is tried again.
refreshSession(o, p) ==
    /\ op[o].pc \in {"post", "load"} /\ tokens # "valid"
    /\ TokensChanged(p)
    /\ op' = [op EXCEPT ![p] = Loading]
    /\ busy' = TRUE
    /\ UNCHANGED <<hubVars, shown, acts>>

\* handleConnection of AppGateway: a token that is no longer valid is refused,
\* and socket.io does not reconnect after a disconnect by the server.
handleConnection ==
    /\ socket = "connecting"
    /\ socket' = IF tokens = "valid" THEN "room" ELSE "refused"
    /\ UNCHANGED <<hubVars, tokens, channel, shown, busy, op, acts, told>>

Drop ==
    /\ socket \in {"connecting", "room"}
    /\ Act
    /\ socket' = "down" /\ channel' = <<>>
    /\ Excuse(Lost(channel))
    /\ UNCHANGED <<hubVars, tokens, shown, busy, op>>

\* socket.io reconnects by itself; the lists are not loaded again.
Reconnect ==
    /\ socket = "down"
    /\ socket' = "connecting"
    /\ UNCHANGED <<hubVars, tokens, channel, shown, busy, op, acts, told>>

-----------------------------------------------------------------------------
(* The listeners.                                                          *)

\* Mutant: task:updated replaces like approval:resolved.
Listened_ReplacesOnly(e) ==
    IF e.row \in ApprovalRows /\ e.version = 1 THEN [shown EXCEPT ![e.row] = e.version]
    ELSE IF shown[e.row] # 0 THEN [shown EXCEPT ![e.row] = e.version] ELSE shown

\* task:updated and approval:pending put the row in front of the list,
\* approval:resolved replaces the row if it is there.
Listened(e) ==
    IF e.row \in ApprovalRows /\ e.version = 2 /\ shown[e.row] = 0
    THEN shown ELSE [shown EXCEPT ![e.row] = e.version]

Receive ==
    /\ channel # <<>>
    /\ shown' = Listened(Head(channel))
    /\ Handed([r \in {Head(channel).row} |-> Head(channel).version])
    /\ channel' = Tail(channel)
    /\ UNCHANGED <<hubVars, tokens, socket, busy, op, acts>>

-----------------------------------------------------------------------------
(* The operations.  An error ends one, and its finally clears busy.        *)

Begin(o, first) ==
    /\ Slot(o) /\ tokens # "none" /\ Act
    /\ op' = [op EXCEPT ![o] = first]
    /\ busy' = TRUE
    /\ UNCHANGED <<hubVars, session, shown, told>>

Post(kind, r) == [pc |-> "post", kind |-> kind, row |-> r]

\* The refresh button and the buttons of a new task and of a registration
\* request are disabled while busy.  A server is selected and a prompt typed.
RefreshButton(o) == ~busy /\ Begin(o, Loading)
createTask(o) == ~busy /\ Begin(o, Post("create", NoRow))
decideServerRegistration(o) == ~busy /\ Begin(o, Post("register", NoRow))

\* The buttons of ApprovalsList are not disabled.
decideApproval(o, t) == shown[A(t)] = 1 /\ Begin(o, Post("decide", A(t)))

\* The Hub's submit creates a task and emits nothing.
submit(o, t) ==
    /\ op[o].pc = "post" /\ op[o].kind = "create" /\ tokens # "expired"
    /\ hub[T(t)] = 0 /\ MaxWrites > 0
    /\ Write(T(t))
    /\ op' = [op EXCEPT ![o] = [pc |-> "reply", kind |-> "create", row |-> T(t)]]
    /\ UNCHANGED <<handlers, pushRows, pushed, session, shown, busy, acts, told>>

\* A decision about a registration request, which changes no task.
DecideRegistration(o) ==
    /\ op[o].pc = "post" /\ op[o].kind = "register" /\ tokens # "expired"
    /\ op' = [op EXCEPT ![o].pc = "reply"]
    /\ UNCHANGED <<hubVars, session, shown, busy, acts, told>>

\* The response: createTask puts the new task in front.  Then loadAll.
Reply(o) ==
    /\ op[o].pc = "reply"
    /\ IF op[o].kind = "create"
       THEN shown' = [shown EXCEPT ![op[o].row] = 1] /\ Handed([r \in {op[o].row} |-> 1])
       ELSE UNCHANGED <<shown, told>>
    /\ op' = [op EXCEPT ![o] = Loading]
    /\ busy' = TRUE
    /\ UNCHANGED <<hubVars, session, acts>>

\* The requests of loadAll are answered.  They are separate; no property is
\* about rows of two lists, so one moment stands for that of each of them.
Read(o) ==
    /\ op[o].pc = "load" /\ tokens # "expired"
    /\ op' = [op EXCEPT ![o] = [pc |-> "loaded", rows |-> hub]]
    /\ UNCHANGED <<hubVars, session, shown, busy, acts, told>>

\* loadAll sets all lists once all requests are answered.  Of the approvals
\* only the PENDING ones are in the response.
LoadAll(o) ==
    /\ op[o].pc = "loaded"
    /\ shown' = [r \in Rows |-> Shows(r, op[o].rows[r])]
    /\ Handed(op[o].rows)
    /\ op' = [op EXCEPT ![o] = Idle]
    /\ busy' = FALSE
    /\ UNCHANGED <<hubVars, session, acts>>

\* A request fails, is refused or times out, or new tokens are refused.  What
\* the Hub has begun goes on.  fetchHub repeats a request that got no answer on
\* its other URL before it gives up; to the Hub that is one more request, as
\* after another press of the button, and has no action of its own.
Abandon(o) ==
    /\ op[o] # Idle
    /\ op' = [op EXCEPT ![o] = Idle]
    /\ Excuse(Owed(o))
    /\ UNCHANGED <<hubVars, session, shown, acts>>

\* Mutant: busy is only cleared on success.
Fail_StaysBusy(o) == Abandon(o) /\ UNCHANGED busy

\* The catch and the finally of the operations.
Fail(o) == Abandon(o) /\ busy' = FALSE

-----------------------------------------------------------------------------
HubStep(h) == WriteDecision(h) \/ UpdateTask(h) \/ notifyUser(h) \/ sendPush(h)
Answered(o) == Reply(o) \/ Read(o) \/ LoadAll(o) \/ Fail(o)
Buttons(o) ==
    \/ RefreshButton(o) \/ createTask(o) \/ decideServerRegistration(o)
    \/ \E t \in Tasks : decideApproval(o, t)
HubAnswers(o) ==
    \/ decide(o) \/ DecideRegistration(o)
    \/ \E t \in Tasks : submit(o, t)

FeedNext ==
    \/ \E t \in Tasks :
          UpdateAndNotify(t) \/ UpdateSilently(t) \/ handleDaemonApprovalRequest(t)
    \/ \E h \in handlers : HubStep(h)
    \/ registerPushToken
    \/ \E o \in Ops : login(o) \/ Buttons(o) \/ HubAnswers(o) \/ Answered(o)
    \/ \E o, p \in Ops : refreshSession(o, p)
    \/ logout \/ Expire \/ handleConnection \/ Drop \/ Reconnect \/ Receive

\* The Hub goes on with what it has begun; every request of the app ends, by
\* the timeout of fetchHub if by nothing else; socket.io reconnects and
\* delivers (events are on their way only while the socket is in its room, so
\* one condition serves for both).  Nobody has to press a button.
FeedSpec ==
    /\ FeedInit /\ [][FeedNext]_feedVars
    /\ WF_feedVars(\E h \in handlers : HubStep(h))
    /\ \A o \in Ops : WF_feedVars(Answered(o))
    /\ WF_feedVars(handleConnection \/ Reconnect \/ Receive)

-----------------------------------------------------------------------------
(* Properties.                                                             *)

\* The newest version of r is on its way to the app: its handler has still to
\* emit it, it is on the socket, or in a response or a load in flight.
OnItsWay(r) ==
    \/ \E h \in handlers : h.row = r /\ h.version = hub[r] /\ h.step \in {"task", "emit"}
    \/ \E e \in ToSet(channel) : e.row = r /\ e.version = hub[r]
    \/ \E o \in Ops :
          \/ op[o].pc = "reply" /\ op[o].row = r /\ hub[r] = 1
          \/ op[o].pc = "load"
          \/ op[o].pc = "loaded" /\ op[o].rows[r] = hub[r]

\* A logged-in app shows each task and each pending approval as the Hub has it
\* unless the newest version is still on its way, or for one of these reasons:
\* the write is one that is never emitted (tasks.processor.ts:70, 145, 154 and
\* approvals.service.ts:56, 91 write a task and tell nobody; see StatusReflected),
\* the emission found no socket in the room or was lost with it, a load or a
\* response failed, or an older version (an earlier load, an emission of a
\* slower handler) came after a newer one.
BehindOnlyIfExcused ==
    tokens # "none" =>
        \A r \in Rows : Differs(r) => excused[r] \/ OnItsWay(r)

\* The spinner stops and the buttons come back: one flag is shared by all
\* operations, and each of them clears it however it ends.
BusyClears == busy ~> ~busy

\* "It reconnects whenever the access token changes": an app that keeps a valid
\* token is in the room of its user for good once the network holds, also
\* after the gateway has refused an expired token.
FeedReturns == <>[](tokens = "valid") => <>[](socket = "room")

\* FR-6.1, of the request that gets the approval row of its task: it is pushed
\* to a device that was registered before it was emitted, whether or not the
\* app is connected.  (A further request of the task gets no row and no push.)
ApprovalPushed ==
    \A t \in Tasks :
        (/\ \E h \in handlers : h.row = A(t) /\ h.version = 1 /\ h.step # "decide"
         /\ pushRows > 0) ~> (pushed[A(t)] > 0)

\* NFR-2.2: a change of a task's status is reflected in the client over the
\* WebSocket (here: at some time).  The least that could mean: an app that shows
\* a task as the Hub has it, and from then on stays connected with no operation
\* of its own in flight, never shows an old state of the task for good.
Watching == tokens = "valid" /\ socket = "room" /\ \A o \in Ops : op[o] = Idle
UpToDate(t) == shown[T(t)] # 0 /\ ~Differs(T(t))
StatusReflected ==
    \A t \in Tasks : [](UpToDate(t) /\ []Watching => []<>UpToDate(t))

-----------------------------------------------------------------------------
(* The inductive invariant behind BehindOnlyIfExcused.                     *)

\* What an operation is about.
OpOK(o) ==
    /\ op[o].pc = "wait" => op[o].kind = "decide"
    /\ op[o].pc = "post" /\ op[o].kind = "decide" => op[o].row \in ApprovalRows
    /\ op[o].pc = "reply" /\ op[o].kind = "create" =>
          op[o].row \in TaskRows /\ hub[op[o].row] >= 1

\* Nothing in flight, loaded or handed over is newer than the Hub.
NothingNewer ==
    /\ \A h \in handlers : h.version <= hub[h.row]
    /\ \A e \in ToSet(channel) : e.version <= hub[e.row]
    /\ \A o \in Ops : op[o].pc = "loaded" =>
          \A r \in Rows : op[o].rows[r] <= hub[r]
    /\ \A r \in Rows : seen[r] <= hub[r]

\* The newest version of r is in an event or in the response of createTask.
Carried(r) ==
    \/ \E h \in handlers : h.row = r /\ h.version = hub[r] /\ h.step \in {"task", "emit"}
    \/ \E e \in ToSet(channel) : e.row = r /\ e.version = hub[r]
    \/ \E o \in Ops : /\ op[o].pc = "reply" /\ op[o].kind = "create"
                      /\ op[o].row = r /\ hub[r] = 1

\* A load in flight brings the newest version of r.
BeingLoaded(r) ==
    \E o \in Ops :
        \/ op[o].pc = "load"
        \/ op[o].pc = "loaded" /\ op[o].rows[r] = hub[r]

\* No write goes unnoticed: its version is carried, the app has been handed it,
\* or it is excused.  The app may have been handed the newest version and show
\* an older one, which came later; that is why this does not follow from the
\* next conjunct, and why the next one is not inductive alone.
Announced(r) == Carried(r) \/ excused[r] \/ seen[r] = hub[r]

ShownOrComing(r) == Differs(r) => excused[r] \/ Carried(r) \/ BeingLoaded(r)

\* What the app shows is explained by what it was handed, by what is under way
\* to it, and by what was lost.
Explained ==
    /\ FeedTypeOK
    /\ \A o \in Ops : OpOK(o)
    /\ NothingNewer
    /\ \A r \in Rows : Announced(r)
    /\ tokens # "none" => \A r \in Rows : ShownOrComing(r)

\* A decision that got past its check finds the approval PENDING or decided by
\* another one, never without a row.
DecidingOK ==
    \A h \in handlers :
        h.step = "decide" => h.row \in ApprovalRows /\ hub[h.row] \in {1, 2}

\* The invariant.
FeedInv == Explained /\ DecidingOK

=============================================================================
