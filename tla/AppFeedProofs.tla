---------------------------- MODULE AppFeedProofs ----------------------------
(***************************************************************************)
(* Proofs about AppFeed, for any set of tasks and any bounds: the app is   *)
(* behind the Hub with a row only while its newest version is on its way   *)
(* or for one of the reasons that excuse it.                               *)
(***************************************************************************)
EXTENDS AppFeed, TLAPS, SequenceTheorems

-----------------------------------------------------------------------------
(* Rows, versions and operations.                                          *)

\* The versions of a row hold the states of an approval and the writes up to
\* the bound.
LEMMA VersionFacts ==
    /\ Versions \subseteq Nat
    /\ 0 \in Versions /\ 1 \in Versions /\ 2 \in Versions
    /\ \A n \in Nat : n < MaxWrites => n + 1 \in Versions
<1>1. MaxWrites \in Nat
  BY FeedAssumption
<1>2. CASE MaxWrites < 2
  <2>1. Versions = 0 .. 2
    BY <1>2 DEF Versions
  <2> QED
    BY <1>1, <1>2, <2>1
<1>3. CASE ~(MaxWrites < 2)
  <2>1. Versions = 0 .. MaxWrites
    BY <1>3 DEF Versions
  <2> QED
    BY <1>1, <1>3, <2>1
<1> QED
  BY <1>2, <1>3

\* Every row belongs to a task.
LEMMA RowFacts ==
    /\ \A t \in Tasks :
          /\ T(t) \in TaskRows /\ A(t) \in ApprovalRows
          /\ T(t) \in Rows /\ A(t) \in Rows
    /\ TaskRows \subseteq Rows /\ ApprovalRows \subseteq Rows
    /\ \A r \in Rows : r[1] \in Tasks
BY DEF T, A, TaskRows, ApprovalRows, Rows

\* An empty list is a list of rows.
LEMMA NothingIsRows == Nothing \in [Rows -> Versions] /\ \A r \in Rows : Nothing[r] = 0
BY VersionFacts DEF Nothing

\* What a step of an operation is worth, by its program counter.
LEMMA OperationFacts ==
    ASSUME NEW x \in Operation
    PROVE  /\ x.pc \in {"idle", "post", "wait", "reply", "load", "loaded"}
           /\ x.pc = "loaded" => x.rows \in [Rows -> Versions]
           /\ x.pc \in {"post", "wait", "reply"} =>
                 /\ x.kind \in Kinds
                 /\ x.row \in Rows \cup {NoRow}
                 /\ x = [pc |-> x.pc, kind |-> x.kind, row |-> x.row]
           /\ x.pc = "idle" => x = Idle
BY DEF Operation, Idle, Loading

\* The forms an operation takes.
LEMMA OperationForms ==
    /\ Idle \in Operation /\ Loading \in Operation
    /\ Idle.pc = "idle" /\ Loading.pc = "load"
    /\ \A f \in [Rows -> Versions] : [pc |-> "loaded", rows |-> f] \in Operation
    /\ \A p \in {"post", "wait", "reply"}, k \in Kinds, r \in Rows \cup {NoRow} :
          [pc |-> p, kind |-> k, row |-> r] \in Operation
BY DEF Operation, Idle, Loading

\* An operation goes on.
OpStep(o, x) ==
    /\ op' \in [Ops -> Operation]
    /\ op'[o] = x
    /\ \A p \in Ops : p # o => op'[p] = op[p]

\* So it does when the entry of one operation is overwritten.
LEMMA OpUpdate ==
    ASSUME op \in [Ops -> Operation], NEW o \in Ops, NEW x \in Operation,
           op' = [op EXCEPT ![o] = x]
    PROVE  OpStep(o, x)
BY DEF OpStep

\* The operation of a request goes to another step of the same request.
LEMMA OpMoves ==
    ASSUME op \in [Ops -> Operation], NEW o \in Ops,
           op[o].pc \in {"post", "wait", "reply"},
           NEW p \in {"post", "wait", "reply"},
           op' = [op EXCEPT ![o].pc = p]
    PROVE  OpStep(o, [pc |-> p, kind |-> op[o].kind, row |-> op[o].row])
<1>1. /\ op[o].kind \in Kinds /\ op[o].row \in Rows \cup {NoRow}
      /\ op[o] = [pc |-> op[o].pc, kind |-> op[o].kind, row |-> op[o].row]
  BY OperationFacts
<1>2. [op[o] EXCEPT !.pc = p] = [pc |-> p, kind |-> op[o].kind, row |-> op[o].row]
  BY <1>1
<1>3. op' = [op EXCEPT ![o] = [pc |-> p, kind |-> op[o].kind, row |-> op[o].row]]
  BY <1>2
<1> QED
  BY <1>1, <1>3, OperationForms, OpUpdate

-----------------------------------------------------------------------------
(* Writes, excuses and what the app is handed.                             *)

\* A write makes one row newer.
Wrote(r) ==
    /\ hub' \in [Rows -> Versions]
    /\ hub'[r] = hub[r] + 1
    /\ \A q \in Rows : q # r => hub'[q] = hub[q]
    /\ \A q \in Rows : hub[q] <= hub'[q]

\* So does the increment of the row's version.
LEMMA WriteFacts ==
    ASSUME hub \in [Rows -> Versions], NEW r \in Rows,
           hub[r] + 1 \in Versions, Write(r)
    PROVE  Wrote(r)
<1>1. hub' \in [Rows -> Versions]
  BY DEF Write
<1>2. /\ hub'[r] = hub[r] + 1
      /\ \A q \in Rows : q # r => hub'[q] = hub[q]
  BY DEF Write
<1>3. \A q \in Rows : hub[q] \in Nat
  BY VersionFacts
<1>4. \A q \in Rows : hub[q] <= hub'[q]
  BY <1>2, <1>3
<1> QED
  BY <1>1, <1>2, <1>4 DEF Wrote

\* Excuses only grow by the rows that are lost.
LEMMA ExcuseFacts ==
    ASSUME excused \in [Rows -> BOOLEAN], NEW rs, Excuse(rs)
    PROVE  /\ excused' \in [Rows -> BOOLEAN]
           /\ seen' = seen
           /\ \A r \in Rows : excused[r] \/ r \in rs => excused'[r]
BY DEF Excuse

\* The app is handed versions of the rows rs: the newest one settles a row, an
\* older one leaves it excused if it was or if the app had a newer one.
Told(rs, f) ==
    /\ seen' \in [Rows -> Versions] /\ excused' \in [Rows -> BOOLEAN]
    /\ \A r \in Rows : seen'[r] <= hub[r]
    /\ \A r \in Rows : excused[r] \/ seen[r] = hub[r] => excused'[r] \/ seen'[r] = hub[r]
    /\ \A r \in rs : f[r] = hub[r] => seen'[r] = hub[r]
    /\ \A r \in rs : f[r] # hub[r] /\ (excused[r] \/ seen[r] = hub[r]) => excused'[r]
    /\ \A r \in Rows \ rs : excused'[r] = excused[r]

\* So it is when a response, a load or an event comes in.
LEMMA HandedFacts ==
    ASSUME Explained, NEW rs \in SUBSET Rows, NEW f \in [rs -> Versions],
           \A r \in rs : f[r] <= hub[r],
           Handed(f)
    PROVE  Told(rs, f)
<1>1. /\ hub \in [Rows -> Versions] /\ seen \in [Rows -> Versions]
      /\ excused \in [Rows -> BOOLEAN] /\ \A r \in Rows : seen[r] <= hub[r]
  BY DEF Explained, FeedTypeOK, NothingNewer
<1>2. DOMAIN f = rs
  OBVIOUS
<1>3. /\ seen' = [r \in Rows |-> IF r \in rs /\ f[r] > seen[r] THEN f[r] ELSE seen[r]]
      /\ excused' = [r \in Rows |->
            IF r \in rs THEN f[r] # hub[r] /\ (excused[r] \/ f[r] < seen[r])
                        ELSE excused[r]]
  BY <1>2 DEF Handed
<1>4. \A r \in Rows : hub[r] \in Nat /\ seen[r] \in Nat
  BY <1>1, VersionFacts
<1>5. \A r \in rs : f[r] \in Nat
  BY VersionFacts
<1>6. seen' \in [Rows -> Versions] /\ \A r \in Rows : seen'[r] <= hub[r]
  BY <1>1, <1>3
<1>7. excused' \in [Rows -> BOOLEAN]
  BY <1>1, <1>3
<1>8. \A r \in rs : f[r] = hub[r] => seen'[r] = hub[r]
  BY <1>1, <1>3, <1>4, <1>5
<1>9. \A r \in rs : f[r] # hub[r] /\ seen[r] = hub[r] => f[r] < seen[r]
  BY <1>4, <1>5
<1>10. \A r \in rs : f[r] # hub[r] /\ (excused[r] \/ seen[r] = hub[r]) => excused'[r]
  BY <1>3, <1>9, Zenon
<1>11. \A r \in Rows \ rs : excused'[r] = excused[r] /\ seen'[r] = seen[r]
  BY <1>3
<1>12. \A r \in Rows : excused[r] \/ seen[r] = hub[r] => excused'[r] \/ seen'[r] = hub[r]
  BY <1>8, <1>10, <1>11, Zenon
<1> QED
  BY <1>6, <1>7, <1>8, <1>10, <1>11, <1>12, Zenon DEF Told

-----------------------------------------------------------------------------
(* Steps that leave the rows of the Hub alone.                             *)

\* What carries a row goes on carrying it.
CarriersKept ==
    /\ hub' = hub
    /\ \A h \in handlers : h.step \in {"task", "emit"} => h \in handlers'
    /\ ToSet(channel) \subseteq ToSet(channel')
    /\ \A o \in Ops : op[o].pc = "reply" /\ op[o].kind = "create" => op'[o] = op[o]

\* Then a row that was carried is carried.
LEMMA CarriedKept ==
    ASSUME CarriersKept, NEW r \in Rows, Carried(r)
    PROVE  Carried(r)'
<1>1. CASE \E h \in handlers : h.row = r /\ h.version = hub[r] /\ h.step \in {"task", "emit"}
  BY <1>1 DEF CarriersKept, Carried
<1>2. CASE \E e \in ToSet(channel) : e.row = r /\ e.version = hub[r]
  <2>1. \E e \in ToSet(channel') : e.row = r /\ e.version = hub'[r]
    BY <1>2 DEF CarriersKept
  <2>2. ToSet(channel') = ToSet(channel)'
    BY DEF ToSet
  <2> QED
    BY <2>1, <2>2 DEF Carried
<1>3. CASE \E o \in Ops : /\ op[o].pc = "reply" /\ op[o].kind = "create"
                          /\ op[o].row = r /\ hub[r] = 1
  <2>1. \E o \in Ops : /\ op'[o].pc = "reply" /\ op'[o].kind = "create"
                       /\ op'[o].row = r /\ hub'[r] = 1
    BY <1>3 DEF CarriersKept
  <2> QED
    BY <2>1 DEF Carried
<1> QED
  BY <1>1, <1>2, <1>3 DEF Carried

\* A step of the session that loses nothing.
LEMMA SessionFrame ==
    ASSUME Explained, FeedTypeOK', UNCHANGED <<hub, handlers, channel, shown, op, told>>,
           tokens' # "none" => tokens # "none"
    PROVE  Explained'
<1>1. seen' = seen /\ excused' = excused
  BY DEF told
<1>2. \A o \in Ops : OpOK(o)'
  BY DEF Explained, OpOK
<1>3. NothingNewer'
  BY <1>1 DEF Explained, NothingNewer, ToSet
<1>4. \A r \in Rows : Announced(r)'
  BY <1>1 DEF Explained, Announced, Carried, ToSet
<1>5. ASSUME tokens' # "none", NEW r \in Rows
      PROVE  ShownOrComing(r)'
  BY <1>1, <1>5 DEF Explained, ShownOrComing, Differs, Carried, BeingLoaded, ToSet
<1> QED
  BY <1>2, <1>3, <1>4, <1>5 DEF Explained

\* Steps of the session, of the push tokens and of the clock.
LEMMA SessionSteps ==
    ASSUME Explained,
           registerPushToken \/ Expire \/ handleConnection \/ Reconnect
    PROVE  Explained'
<1> USE DEF appVars, session, hubVars
<1>0. FeedTypeOK
  BY DEF Explained
<1>1. CASE registerPushToken
  <2>1. UNCHANGED <<hub, handlers, channel, shown, op, told, tokens, socket, busy, pushed>>
    BY <1>1 DEF registerPushToken
  <2>2. pushRows' \in 0 .. MaxRows /\ acts' \in 0 .. MaxActs
    BY <1>0, <1>1, FeedAssumption DEF registerPushToken, Act, FeedTypeOK
  <2>3. FeedTypeOK'
    BY <1>0, <2>1, <2>2 DEF FeedTypeOK, told
  <2> QED
    BY <2>1, <2>3, SessionFrame
<1>2. CASE Expire
  <2>1. /\ UNCHANGED <<hub, handlers, channel, shown, op, told, socket, busy, pushed, pushRows>>
        /\ tokens = "valid" /\ tokens' = "expired"
    BY <1>2 DEF Expire
  <2>2. acts' \in 0 .. MaxActs
    BY <1>0, <1>2, FeedAssumption DEF Expire, Act, FeedTypeOK
  <2>3. FeedTypeOK'
    BY <1>0, <2>1, <2>2 DEF FeedTypeOK, told
  <2> QED
    BY <2>1, <2>3, SessionFrame
<1>3. CASE handleConnection \/ Reconnect
  <2>1. /\ UNCHANGED <<hub, handlers, channel, shown, op, told, tokens, busy, pushed, pushRows, acts>>
        /\ socket' \in {"room", "refused", "connecting"}
    BY <1>3 DEF handleConnection, Reconnect
  <2>3. FeedTypeOK'
    BY <1>0, <2>1 DEF FeedTypeOK, told
  <2> QED
    BY <2>1, <2>3, SessionFrame
<1> QED
  BY <1>1, <1>2, <1>3

\* An event that is on the socket is lost with it, and its row excused.
LEMMA LossFacts ==
    ASSUME Explained, hub' = hub, handlers' = handlers, channel' = <<>>,
           Excuse(Lost(channel)),
           \A o \in Ops : op[o].pc = "reply" /\ op[o].kind = "create" => op'[o] = op[o],
           NEW r \in Rows
    PROVE  /\ Announced(r)'
           /\ Carried(r) \/ excused[r] => Carried(r)' \/ excused'[r]
<1>1. /\ excused' \in [Rows -> BOOLEAN] /\ seen' = seen
      /\ excused[r] \/ r \in Lost(channel) => excused'[r]
  BY ExcuseFacts DEF Explained, FeedTypeOK
<1>2. Carried(r) => Carried(r)' \/ excused'[r]
  <2>1. CASE \E e \in ToSet(channel) : e.row = r /\ e.version = hub[r]
    <3>1. r \in Lost(channel)
      BY <2>1 DEF Lost
    <3> QED
      BY <3>1, <1>1
  <2>2. CASE ~\E e \in ToSet(channel) : e.row = r /\ e.version = hub[r]
    BY <2>2 DEF Carried
  <2> QED
    BY <2>1, <2>2
<1>3. Announced(r)
  BY DEF Explained
<1>4. Announced(r)'
  BY <1>1, <1>2, <1>3 DEF Announced
<1> QED
  BY <1>1, <1>2, <1>4

\* The empty channel holds no event.
LEMMA EmptyChannel == ToSet(<<>>) = {} /\ <<>> \in Seq(Event)
BY DEF ToSet

\* The connection breaks, or the user logs out.
LEMMA LossSteps ==
    ASSUME Explained, Drop \/ logout
    PROVE  Explained'
<1> USE DEF session, hubVars
<1>0. FeedTypeOK
  BY DEF Explained
<1>1. /\ UNCHANGED <<hub, handlers, op, pushed, pushRows, busy>>
      /\ channel' = <<>> /\ Excuse(Lost(channel))
      /\ \/ UNCHANGED <<tokens, shown>> /\ socket' = "down"
         \/ tokens' = "none" /\ socket' = "none" /\ shown' = Nothing
  BY DEF Drop, logout
<1>2. acts' \in 0 .. MaxActs
  BY <1>0, FeedAssumption DEF Drop, logout, Act, FeedTypeOK
<1>3. excused' \in [Rows -> BOOLEAN] /\ seen' = seen
  BY <1>0, <1>1, ExcuseFacts DEF FeedTypeOK
<1>4. FeedTypeOK'
  BY <1>0, <1>1, <1>2, <1>3, NothingIsRows, EmptyChannel DEF FeedTypeOK
<1>5. \A o \in Ops : OpOK(o)'
  BY <1>1 DEF Explained, OpOK
<1>6. NothingNewer'
  <2>1. ToSet(channel)' = {}
    BY <1>1, EmptyChannel
  <2> QED
    BY <1>1, <1>3, <2>1 DEF Explained, NothingNewer
<1>7. \A r \in Rows : /\ Announced(r)'
                      /\ Carried(r) \/ excused[r] => Carried(r)' \/ excused'[r]
  BY <1>1, LossFacts
<1>8. ASSUME tokens' # "none", NEW r \in Rows
      PROVE  ShownOrComing(r)'
  <2>1. tokens # "none" /\ shown' = shown
    BY <1>1, <1>8
  <2>2. ShownOrComing(r)
    BY <2>1 DEF Explained
  <2>3. Differs(r)' = Differs(r) /\ BeingLoaded(r)' = BeingLoaded(r)
    BY <1>1, <2>1 DEF Differs, BeingLoaded
  <2> QED
    BY <1>7, <2>2, <2>3 DEF ShownOrComing
<1> QED
  BY <1>4, <1>5, <1>6, <1>7, <1>8 DEF Explained

-----------------------------------------------------------------------------
(* Steps of the operations that hand the app nothing.                      *)

\* An operation goes on; only a load that has been answered is no longer due.
LEMMA OpFrame ==
    ASSUME Explained, FeedTypeOK', NEW o \in Ops, NEW x, OpStep(o, x), OpOK(o)',
           UNCHANGED <<hub, channel, shown, told, tokens>>,
           handlers \subseteq handlers',
           \A h \in handlers' \ handlers : h.version <= hub[h.row],
           op[o].pc \in {"idle", "post", "load"},
           op[o].pc = "load" => x.pc = "loaded",
           x.pc = "loaded" => x.rows = hub
    PROVE  Explained'
<1>0. hub \in [Rows -> Versions] /\ \A r \in Rows : hub[r] \in Nat
  BY VersionFacts DEF Explained, FeedTypeOK
<1>1. seen' = seen /\ excused' = excused
  BY DEF told
<1>2. ASSUME NEW p \in Ops, p # o
      PROVE  OpOK(p)'
  BY <1>2 DEF Explained, OpOK, OpStep
<1>3. NothingNewer'
  <2>1. \A p \in Ops : op'[p].pc = "loaded" => \A r \in Rows : op'[p].rows[r] <= hub[r]
    BY <1>0 DEF Explained, NothingNewer, OpStep
  <2> QED
    BY <1>1, <2>1 DEF Explained, NothingNewer, ToSet
<1>4. CarriersKept
  BY DEF CarriersKept, OpStep
<1>5. \A r \in Rows : Announced(r)'
  BY <1>1, <1>4, CarriedKept DEF Explained, Announced
<1>6. ASSUME tokens' # "none", NEW r \in Rows
      PROVE  ShownOrComing(r)'
  <2>1. ShownOrComing(r) /\ Differs(r)' = Differs(r)
    BY <1>6 DEF Explained, Differs
  <2>2. BeingLoaded(r) => BeingLoaded(r)'
    BY DEF BeingLoaded, OpStep
  <2> QED
    BY <1>1, <1>4, <2>1, <2>2, CarriedKept DEF ShownOrComing
<1> QED
  BY <1>2, <1>3, <1>5, <1>6 DEF Explained

\* A button starts an operation.
LEMMA BeginStep ==
    ASSUME Explained, NEW o \in Ops, NEW first \in Operation,
           first.pc \in {"load", "post"},
           first.pc = "post" /\ first.kind = "decide" => first.row \in ApprovalRows,
           Begin(o, first)
    PROVE  Explained'
<1> USE DEF session, hubVars
<1>0. FeedTypeOK
  BY DEF Explained
<1>1. /\ UNCHANGED <<hub, handlers, pushed, pushRows, tokens, socket, channel, shown, told>>
      /\ busy' = TRUE /\ op' = [op EXCEPT ![o] = first] /\ op[o] = Idle
  BY DEF Begin, Slot, Free
<1>2. acts' \in 0 .. MaxActs
  BY <1>0, FeedAssumption DEF Begin, Act, FeedTypeOK
<1>3. OpStep(o, first)
  BY <1>0, <1>1, OpUpdate DEF FeedTypeOK
<1>4. FeedTypeOK'
  BY <1>0, <1>1, <1>2, <1>3 DEF FeedTypeOK, told, OpStep
<1>5. OpOK(o)'
  BY <1>3 DEF OpStep, OpOK
<1>6. op[o].pc = "idle"
  BY <1>1, OperationForms
<1> QED
  BY <1>1, <1>3, <1>4, <1>5, <1>6, OpFrame

\* The buttons of the app.
LEMMA ButtonSteps ==
    ASSUME Explained, NEW o \in Ops, Buttons(o)
    PROVE  Explained'
<1>1. ASSUME NEW k \in {"create", "register"}, Begin(o, Post(k, NoRow))
      PROVE  Explained'
  <2>1. Post(k, NoRow) \in Operation
    BY OperationForms DEF Post, Kinds
  <2>2. Post(k, NoRow).pc = "post" /\ Post(k, NoRow).kind # "decide"
    BY DEF Post
  <2> QED
    BY <1>1, <2>1, <2>2, BeginStep
<1>2. ASSUME NEW t \in Tasks, Begin(o, Post("decide", A(t)))
      PROVE  Explained'
  <2>1. Post("decide", A(t)) \in Operation
    BY OperationForms, RowFacts DEF Post, Kinds
  <2>2. Post("decide", A(t)).pc = "post" /\ Post("decide", A(t)).row \in ApprovalRows
    BY RowFacts DEF Post
  <2> QED
    BY <1>2, <2>1, <2>2, BeginStep
<1>3. ASSUME Begin(o, Loading)
      PROVE  Explained'
  BY <1>3, OperationForms, BeginStep
<1> QED
  BY <1>1, <1>2, <1>3
     DEF Buttons, RefreshButton, createTask, decideServerRegistration, decideApproval

\* A decision about a registration is answered.
LEMMA DecideRegistrationStep ==
    ASSUME Explained, NEW o \in Ops, DecideRegistration(o)
    PROVE  Explained'
<1> USE DEF session, hubVars
<1>0. FeedTypeOK
  BY DEF Explained
<1> DEFINE x == [pc |-> "reply", kind |-> op[o].kind, row |-> op[o].row]
<1>1. /\ UNCHANGED <<hub, handlers, pushed, pushRows, tokens, socket, channel, shown, busy, acts, told>>
      /\ op[o].pc = "post" /\ op[o].kind = "register"
  BY DEF DecideRegistration
<1>2. OpStep(o, x)
  BY <1>0, <1>1, OpMoves DEF DecideRegistration, FeedTypeOK
<1>3. FeedTypeOK'
  BY <1>0, <1>1, <1>2 DEF FeedTypeOK, told, OpStep
<1>4. OpOK(o)'
  BY <1>1, <1>2 DEF OpStep, OpOK
<1> HIDE DEF x
<1>5. x.pc = "reply"
  BY DEF x
<1> QED
  BY <1>1, <1>2, <1>3, <1>4, <1>5, OpFrame

\* The requests of a load are answered.
LEMMA ReadStep ==
    ASSUME Explained, NEW o \in Ops, Read(o)
    PROVE  Explained'
<1> USE DEF session, hubVars
<1>0. FeedTypeOK
  BY DEF Explained
<1> DEFINE x == [pc |-> "loaded", rows |-> hub]
<1>1. /\ UNCHANGED <<hub, handlers, pushed, pushRows, tokens, socket, channel, shown, busy, acts, told>>
      /\ op[o].pc = "load" /\ op' = [op EXCEPT ![o] = x]
  BY DEF Read
<1>2. x \in Operation
  BY <1>0, OperationForms DEF FeedTypeOK
<1>3. x.pc = "loaded" /\ x.rows = hub
  OBVIOUS
<1> HIDE DEF x
<1>4. OpStep(o, x)
  BY <1>0, <1>1, <1>2, OpUpdate DEF FeedTypeOK
<1>5. FeedTypeOK'
  BY <1>0, <1>1, <1>4 DEF FeedTypeOK, told, OpStep
<1>6. OpOK(o)'
  BY <1>3, <1>4 DEF OpStep, OpOK
<1> QED
  BY <1>1, <1>3, <1>4, <1>5, <1>6, OpFrame

\* New tokens: the socket of the old ones is closed, a load starts.
LEMMA TokensStep ==
    ASSUME Explained, NEW o \in Ops, TokensChanged(o), op' = [op EXCEPT ![o] = Loading],
           busy' \in BOOLEAN, acts' \in 0 .. MaxActs, UNCHANGED <<hubVars, shown>>
    PROVE  Explained'
<1>0. FeedTypeOK
  BY DEF Explained
<1>1. /\ UNCHANGED <<hub, handlers, pushed, pushRows, shown>>
      /\ tokens' = "valid" /\ socket' = "connecting" /\ channel' = <<>>
      /\ Excuse(Lost(channel)) /\ op[o] = Idle
  BY DEF TokensChanged, Slot, Free, hubVars
<1>2. op[o].pc = "idle" /\ OpStep(o, Loading)
  BY <1>0, <1>1, OperationForms, OpUpdate DEF FeedTypeOK
<1>3. excused' \in [Rows -> BOOLEAN] /\ seen' = seen
  BY <1>0, <1>1, ExcuseFacts DEF FeedTypeOK
<1>4. FeedTypeOK'
  BY <1>0, <1>1, <1>2, <1>3, EmptyChannel DEF FeedTypeOK, OpStep
<1>5. \A p \in Ops : OpOK(p)'
  BY <1>1, <1>2, OperationForms DEF Explained, OpOK, OpStep
<1>6. NothingNewer'
  <2>1. ToSet(channel)' = {}
    BY <1>1, EmptyChannel
  <2>2. \A p \in Ops : op'[p].pc = "loaded" => op'[p] = op[p]
    BY <1>2, OperationForms DEF OpStep
  <2> QED
    BY <1>1, <1>3, <2>1, <2>2 DEF Explained, NothingNewer
<1>7. \A r \in Rows : Announced(r)'
  BY <1>1, <1>2, LossFacts DEF OpStep
<1>8. \A r \in Rows : BeingLoaded(r)'
  BY <1>2, OperationForms DEF BeingLoaded, OpStep
<1> QED
  BY <1>4, <1>5, <1>6, <1>7, <1>8 DEF Explained, ShownOrComing

\* A login, and a refresh of the session by a request that was answered 401.
LEMMA LoginSteps ==
    ASSUME Explained, NEW o \in Ops, login(o) \/ \E q \in Ops : refreshSession(q, o)
    PROVE  Explained'
<1>0. acts \in 0 .. MaxActs
  BY DEF Explained, FeedTypeOK
<1>1. acts' \in 0 .. MaxActs
  BY <1>0, FeedAssumption DEF login, refreshSession, Act
<1> QED
  BY <1>1, TokensStep DEF login, refreshSession

-----------------------------------------------------------------------------
(* Writes of the Hub.                                                      *)

\* A row is written and carried or excused; everything else stays on its way.
LEMMA WriteFrame ==
    ASSUME Explained, FeedTypeOK', NEW r \in Rows, Wrote(r),
           Carried(r)' \/ excused'[r],
           UNCHANGED <<channel, shown, tokens, seen>>,
           \A q \in Rows : excused[q] => excused'[q],
           \A h \in handlers : h.step \in {"task", "emit"} =>
              \E g \in handlers' : g.row = h.row /\ g.version = h.version /\ g.step \in {"task", "emit"},
           \A h \in handlers' : h.version <= hub'[h.row],
           \A o \in Ops : OpOK(o)',
           \A o \in Ops :
              \/ op'[o] = op[o]
              \/ op[o].pc = "post" /\ op'[o].pc \in {"wait", "reply"}
    PROVE  Explained'
<1>0. /\ hub \in [Rows -> Versions] /\ channel \in Seq(Event) /\ op \in [Ops -> Operation]
      /\ seen \in [Rows -> Versions] /\ hub' \in [Rows -> Versions]
  BY DEF Explained, FeedTypeOK
<1>1. \A q \in Rows : hub[q] \in Nat /\ hub'[q] \in Nat /\ seen[q] \in Nat /\ hub[q] <= hub'[q]
  BY <1>0, VersionFacts DEF Wrote
<1>2. \A q \in Rows : q # r => hub'[q] = hub[q]
  BY DEF Wrote
<1>3. ASSUME NEW q \in Rows, q # r, Carried(q)
      PROVE  Carried(q)'
  BY <1>2, <1>3 DEF Carried, ToSet
<1>4. ASSUME NEW q \in Rows, q # r, BeingLoaded(q)
      PROVE  BeingLoaded(q)'
  BY <1>2, <1>4 DEF BeingLoaded
<1>5. ASSUME NEW q \in Rows
      PROVE  Announced(q)'
  <2>1. Announced(q)
    BY DEF Explained
  <2>2. CASE q = r
    BY <2>2 DEF Announced
  <2>3. CASE q # r
    BY <1>2, <1>3, <2>1, <2>3 DEF Announced
  <2> QED
    BY <2>2, <2>3
<1>6. ASSUME tokens' # "none", NEW q \in Rows
      PROVE  ShownOrComing(q)'
  <2>1. ShownOrComing(q)
    BY <1>6 DEF Explained
  <2>2. CASE q = r
    BY <2>2 DEF ShownOrComing
  <2>3. CASE q # r
    <3>1. Differs(q)' = Differs(q)
      BY <1>2, <2>3 DEF Differs
    <3> QED
      BY <1>3, <1>4, <2>1, <2>3, <3>1 DEF ShownOrComing
  <2> QED
    BY <2>2, <2>3
<1>7. NothingNewer'
  <2>1. ASSUME NEW e \in ToSet(channel)
        PROVE  e.version <= hub'[e.row]
    <3>1. e \in Event /\ e.version <= hub[e.row]
      BY <1>0 DEF Explained, NothingNewer, ToSet
    <3>2. e.row \in Rows /\ e.version \in Nat
      BY <3>1, VersionFacts DEF Event
    <3>3. hub[e.row] \in Nat /\ hub'[e.row] \in Nat /\ hub[e.row] <= hub'[e.row]
      BY <1>1, <3>2
    <3> QED
      BY <3>1, <3>2, <3>3
  <2>2. ASSUME NEW o \in Ops, op'[o].pc = "loaded", NEW q \in Rows
        PROVE  op'[o].rows[q] <= hub'[q]
    <3>1. op'[o] = op[o]
      BY <2>2
    <3>2. op[o].rows[q] <= hub[q]
      BY <2>2, <3>1 DEF Explained, NothingNewer
    <3>3. op[o].rows[q] \in Nat
      BY <1>0, <2>2, <3>1, OperationFacts, VersionFacts
    <3>4. hub[q] \in Nat /\ hub'[q] \in Nat /\ hub[q] <= hub'[q]
      BY <1>1
    <3> QED
      BY <3>1, <3>2, <3>3, <3>4
  <2>3. \A q \in Rows : seen[q] <= hub[q]
    BY DEF Explained, NothingNewer
  <2>4. \A q \in Rows : seen'[q] <= hub'[q]
    BY <1>1, <2>3
  <2>5. ToSet(channel)' = ToSet(channel)
    BY DEF ToSet
  <2> QED
    BY <2>1, <2>2, <2>4, <2>5 DEF NothingNewer
<1> QED
  BY <1>5, <1>6, <1>7 DEF Explained

\* A write leaves what the operations are about alone.
LEMMA WriteKeepsOps ==
    ASSUME Explained, NEW r \in Rows, Wrote(r), NEW o \in Ops, op'[o] = op[o]
    PROVE  OpOK(o)'
<1>1. OpOK(o)
  BY DEF Explained
<1>2. \A q \in Rows : hub[q] \in Nat /\ hub'[q] \in Nat /\ hub[q] <= hub'[q]
  BY VersionFacts DEF Explained, FeedTypeOK, Wrote
<1>3. ASSUME op[o].row \in TaskRows, hub[op[o].row] >= 1
      PROVE  hub'[op[o].row] >= 1
  <2>1. PICK q \in Rows : q = op[o].row
    BY <1>3, RowFacts
  <2>2. hub[q] \in Nat /\ hub'[q] \in Nat /\ hub[q] <= hub'[q] /\ hub[q] >= 1
    BY <1>2, <1>3, <2>1
  <2> QED
    BY <2>1, <2>2
<1> QED
  BY <1>1, <1>3 DEF OpOK

\* So it does with the versions of the handlers.
LEMMA WriteKeepsHandlers ==
    ASSUME Explained, NEW r \in Rows, Wrote(r), NEW h \in handlers
    PROVE  h.version <= hub'[h.row]
<1>1. h \in Handler /\ h.version <= hub[h.row]
  BY DEF Explained, FeedTypeOK, NothingNewer
<1>2. h.row \in Rows /\ h.version \in Nat
  BY <1>1, VersionFacts DEF Handler
<1>3. hub[h.row] \in Nat /\ hub'[h.row] \in Nat /\ hub[h.row] <= hub'[h.row]
  BY <1>2, VersionFacts DEF Explained, FeedTypeOK, Wrote
<1> QED
  BY <1>1, <1>2, <1>3

\* A handler has written a row and has still to emit it.
LEMMA HandlerWrites ==
    ASSUME Explained, NEW r \in Rows, Wrote(r), NEW g \in Handler,
           g.row = r, g.version = hub[r] + 1, g.step \in {"task", "emit"},
           NEW old \in SUBSET handlers, \A h \in old : h.step = "decide",
           handlers' = (handlers \ old) \cup {g},
           op' \in [Ops -> Operation],
           UNCHANGED <<pushRows, pushed, tokens, socket, channel, shown, busy, acts, told>>,
           \A o \in Ops : OpOK(o)',
           \A o \in Ops :
              \/ op'[o] = op[o]
              \/ op[o].pc = "post" /\ op'[o].pc \in {"wait", "reply"}
    PROVE  Explained'
<1>0. FeedTypeOK /\ seen' = seen /\ excused' = excused
  BY DEF Explained, told
<1>1. FeedTypeOK'
  BY <1>0 DEF FeedTypeOK, Wrote
<1>2. Carried(r)'
  BY DEF Carried, Wrote
<1>3. \A h \in handlers' : h.version <= hub'[h.row]
  <2>1. hub'[r] \in Nat /\ g.version = hub'[r]
    BY VersionFacts DEF Wrote
  <2> QED
    BY <2>1, WriteKeepsHandlers
<1> QED
  BY <1>0, <1>1, <1>2, <1>3, WriteFrame

\* An update that is emitted.
LEMMA UpdateAndNotifyStep ==
    ASSUME Explained, NEW t \in Tasks, UpdateAndNotify(t)
    PROVE  Explained'
<1> USE DEF appVars, session
<1>0. FeedTypeOK /\ T(t) \in Rows
  BY RowFacts DEF Explained
<1>1. hub[T(t)] \in Nat /\ hub[T(t)] + 1 \in Versions
  BY <1>0, VersionFacts DEF UpdateAndNotify, Writable, FeedTypeOK
<1>2. Wrote(T(t))
  BY <1>0, <1>1, WriteFacts DEF UpdateAndNotify, FeedTypeOK
<1> DEFINE g == [step |-> "emit", row |-> T(t), version |-> hub[T(t)] + 1, by |-> None]
<1>3. g \in Handler
  BY <1>0, <1>1 DEF Handler
<1>4. g.row = T(t) /\ g.version = hub[T(t)] + 1 /\ g.step \in {"task", "emit"}
  OBVIOUS
<1>5. /\ handlers' = handlers \cup {g}
      /\ UNCHANGED <<pushRows, pushed, tokens, socket, channel, shown, busy, acts, told, op>>
  BY DEF UpdateAndNotify
<1> HIDE DEF g
<1>6. \A o \in Ops : op'[o] = op[o]
  BY <1>5
<1>7. \A o \in Ops : OpOK(o)'
  BY <1>0, <1>2, <1>6, WriteKeepsOps
<1>8. op' \in [Ops -> Operation]
  BY <1>0, <1>5 DEF FeedTypeOK
<1>9. handlers' = (handlers \ {}) \cup {g} /\ {} \in SUBSET handlers
  BY <1>5
<1> QED
  BY <1>0, <1>2, <1>3, <1>4, <1>5, <1>6, <1>7, <1>8, <1>9, HandlerWrites

\* A request for approval: the first one of its task writes the approval, any
\* other changes nothing.
LEMMA ApprovalRequestStep ==
    ASSUME Explained, NEW t \in Tasks, handleDaemonApprovalRequest(t)
    PROVE  Explained'
<1> USE DEF appVars, session
<1>0. FeedTypeOK /\ A(t) \in Rows
  BY RowFacts DEF Explained
<1>5. UNCHANGED <<pushRows, pushed, tokens, socket, channel, shown, busy, acts, told, op>>
  BY DEF handleDaemonApprovalRequest
<1>6. CASE hub[A(t)] = 0
  <2>1. hub[A(t)] + 1 \in Versions
    BY <1>6, VersionFacts
  <2>2. Wrote(A(t))
    BY <1>0, <1>6, <2>1, WriteFacts DEF handleDaemonApprovalRequest, FeedTypeOK
  <2> DEFINE g == [step |-> "task", row |-> A(t), version |-> 1, by |-> None]
  <2>3. g \in Handler
    BY <1>0, VersionFacts DEF Handler
  <2>4. g.row = A(t) /\ g.version = hub[A(t)] + 1 /\ g.step \in {"task", "emit"}
    BY <1>6
  <2>5. handlers' = (handlers \ {}) \cup {g} /\ {} \in SUBSET handlers
    BY <1>6 DEF handleDaemonApprovalRequest
  <2> HIDE DEF g
  <2>6. \A o \in Ops : op'[o] = op[o]
    BY <1>5
  <2>7. \A o \in Ops : OpOK(o)'
    BY <1>0, <2>2, <2>6, WriteKeepsOps
  <2>8. op' \in [Ops -> Operation]
    BY <1>0, <1>5 DEF FeedTypeOK
  <2> QED
    BY <1>0, <1>5, <2>2, <2>3, <2>4, <2>5, <2>6, <2>7, <2>8, HandlerWrites
<1>7. CASE hub[A(t)] # 0
  <2>1. hub' = hub /\ handlers' = handlers
    BY <1>7 DEF handleDaemonApprovalRequest
  <2>2. FeedTypeOK'
    BY <1>0, <1>5, <2>1 DEF FeedTypeOK, told
  <2> QED
    BY <1>5, <2>1, <2>2, SessionFrame
<1> QED
  BY <1>6, <1>7

\* decide gets past its check: nothing is written yet.
LEMMA DecideStep ==
    ASSUME Explained, NEW o \in Ops, decide(o)
    PROVE  Explained'
<1> USE DEF session
<1>0. FeedTypeOK
  BY DEF Explained
<1>a. op[o].pc = "post" /\ op[o].kind = "decide" /\ hub[op[o].row] = 1
  BY DEF decide
<1>b. PICK r \in Rows : r = op[o].row
  BY <1>a, RowFacts DEF Explained, OpOK
<1> DEFINE g == [step |-> "decide", row |-> r, version |-> 1, by |-> o]
<1>1. g \in Handler /\ g.version <= hub[g.row]
  BY <1>a, <1>b, VersionFacts DEF Handler
<1>2. /\ handlers' = handlers \cup {g}
      /\ UNCHANGED <<hub, pushRows, pushed, tokens, socket, channel, shown, busy, acts, told>>
  BY <1>b DEF decide
<1> HIDE DEF g
<1> DEFINE x == [pc |-> "wait", kind |-> op[o].kind, row |-> op[o].row]
<1>3. OpStep(o, x)
  BY <1>0, <1>a, OpMoves DEF decide, FeedTypeOK
<1>4. x.pc = "wait" /\ x.kind = "decide"
  BY <1>a
<1> HIDE DEF x
<1>5. OpOK(o)'
  BY <1>3, <1>4 DEF OpOK, OpStep
<1>6. FeedTypeOK'
  BY <1>0, <1>1, <1>2, <1>3 DEF FeedTypeOK, told, OpStep
<1>7. handlers \subseteq handlers' /\ \A h \in handlers' \ handlers : h.version <= hub[h.row]
  BY <1>1, <1>2
<1> QED
  BY <1>a, <1>2, <1>3, <1>4, <1>5, <1>6, <1>7, OpFrame

\* A handler goes on without a write; what it has to emit stays.
LEMMA HandlerFrame ==
    ASSUME Explained, NEW h \in handlers, NEW g \in Handler,
           handlers' = (handlers \ {h}) \cup {g},
           g.row = h.row, g.version <= hub[g.row],
           h.step \in {"task", "emit"} =>
              g.version = h.version /\ g.step \in {"task", "emit"},
           UNCHANGED <<hub, pushRows, pushed, tokens, socket, channel, shown, busy, acts, op, told>>
    PROVE  Explained'
<1>0. FeedTypeOK /\ seen' = seen /\ excused' = excused
  BY DEF Explained, told
<1>1. FeedTypeOK'
  BY <1>0 DEF FeedTypeOK
<1>2. \A o \in Ops : OpOK(o)'
  BY DEF Explained, OpOK
<1>3. NothingNewer'
  BY <1>0 DEF Explained, NothingNewer, ToSet
<1>4. \A k \in handlers : k.step \in {"task", "emit"} =>
         \E l \in handlers' : l.row = k.row /\ l.version = k.version /\ l.step \in {"task", "emit"}
  OBVIOUS
<1>5. \A r \in Rows : Carried(r) => Carried(r)'
  BY <1>4 DEF Carried, ToSet
<1>6. \A r \in Rows : Announced(r)'
  BY <1>0, <1>5 DEF Explained, Announced
<1>7. ASSUME tokens' # "none", NEW r \in Rows
      PROVE  ShownOrComing(r)'
  <2>1. /\ ShownOrComing(r)
        /\ Differs(r)' = Differs(r) /\ BeingLoaded(r)' = BeingLoaded(r)
    BY <1>7 DEF Explained, Differs, BeingLoaded
  <2> QED
    BY <1>0, <1>5, <2>1 DEF ShownOrComing
<1> QED
  BY <1>1, <1>2, <1>3, <1>6, <1>7 DEF Explained

\* The write of a decision: the first one changes the row and has still to be
\* emitted, a second one finds it decided.
LEMMA WriteDecisionStep ==
    ASSUME Explained, DecidingOK, NEW h \in handlers, WriteDecision(h)
    PROVE  Explained'
<1> USE DEF appVars, session
<1>0. FeedTypeOK /\ h \in Handler /\ h.step = "decide" /\ h.version <= hub[h.row]
  BY DEF Explained, FeedTypeOK, NothingNewer, WriteDecision
<1>1. PICK r \in Rows : r = h.row
  BY <1>0 DEF Handler
<1> DEFINE g == [h EXCEPT !.step = "task", !.version = 2]
<1>2. g \in Handler /\ g.row = r /\ g.version = 2 /\ g.step = "task"
  BY <1>0, <1>1, VersionFacts DEF Handler
<1>3. /\ handlers' = (handlers \ {h}) \cup {g} /\ hub' = [hub EXCEPT ![r] = 2]
      /\ UNCHANGED <<pushRows, pushed, tokens, socket, channel, shown, busy, acts, op, told>>
  BY <1>1 DEF WriteDecision
<1> HIDE DEF g
<1>4. r \in ApprovalRows /\ hub[r] \in {1, 2}
  BY <1>0, <1>1 DEF DecidingOK
<1>5. CASE hub[r] = 2
  <2>1. hub' = hub
    BY <1>0, <1>3, <1>5 DEF FeedTypeOK
  <2>2. g.version <= hub[g.row]
    BY <1>2, <1>5
  <2> QED
    BY <1>0, <1>1, <1>2, <1>3, <2>1, <2>2, HandlerFrame
<1>6. CASE hub[r] = 1
  <2>1. Write(r) /\ hub[r] + 1 \in Versions
    BY <1>3, <1>6, VersionFacts DEF Write
  <2>2. Wrote(r)
    BY <1>0, <2>1, WriteFacts DEF FeedTypeOK
  <2>3. \A o \in Ops : op'[o] = op[o]
    BY <1>3
  <2>4. \A o \in Ops : OpOK(o)'
    BY <2>2, <2>3, WriteKeepsOps
  <2>5. op' \in [Ops -> Operation]
    BY <1>0, <1>3 DEF FeedTypeOK
  <2>6. {h} \in SUBSET handlers /\ \A k \in {h} : k.step = "decide"
    BY <1>0
  <2>7. g.version = hub[r] + 1 /\ g.step \in {"task", "emit"}
    BY <1>2, <1>6
  <2> QED
    BY <1>2, <1>3, <2>2, <2>3, <2>4, <2>5, <2>6, <2>7, HandlerWrites
<1> QED
  BY <1>4, <1>5, <1>6

\* A write that is never emitted.
LEMMA UpdateSilentlyStep ==
    ASSUME Explained, NEW t \in Tasks, UpdateSilently(t)
    PROVE  Explained'
<1> USE DEF appVars, session
<1>0. FeedTypeOK /\ T(t) \in Rows
  BY RowFacts DEF Explained
<1>1. hub[T(t)] \in Nat /\ hub[T(t)] + 1 \in Versions
  BY <1>0, VersionFacts DEF UpdateSilently, Writable, FeedTypeOK
<1>2. Wrote(T(t))
  BY <1>0, <1>1, WriteFacts DEF UpdateSilently, FeedTypeOK
<1>3. UNCHANGED <<handlers, pushRows, pushed, tokens, socket, channel, shown, busy, acts, op>>
  BY DEF UpdateSilently
<1>4. /\ excused' \in [Rows -> BOOLEAN] /\ seen' = seen /\ excused'[T(t)]
      /\ \A q \in Rows : excused[q] => excused'[q]
  BY <1>0, ExcuseFacts DEF UpdateSilently, FeedTypeOK
<1>5. FeedTypeOK'
  BY <1>0, <1>2, <1>3, <1>4 DEF FeedTypeOK, Wrote
<1>6. \A o \in Ops : op'[o] = op[o]
  BY <1>3
<1>7. \A o \in Ops : OpOK(o)'
  BY <1>0, <1>2, <1>6, WriteKeepsOps
<1>8. \A h \in handlers' : h.version <= hub'[h.row]
  BY <1>0, <1>2, <1>3, WriteKeepsHandlers
<1> QED
  BY <1>0, <1>2, <1>3, <1>4, <1>5, <1>6, <1>7, <1>8, WriteFrame

\* A new task is created; its response carries it.
LEMMA SubmitStep ==
    ASSUME Explained, NEW o \in Ops, NEW t \in Tasks, submit(o, t)
    PROVE  Explained'
<1> USE DEF session
<1>0. FeedTypeOK /\ T(t) \in Rows /\ T(t) \in TaskRows
  BY RowFacts DEF Explained
<1>a. op[o].pc = "post" /\ op[o].kind = "create" /\ hub[T(t)] = 0
  BY DEF submit
<1>1. hub[T(t)] + 1 \in Versions
  BY <1>a, VersionFacts
<1>2. Wrote(T(t)) /\ hub'[T(t)] = 1
  <2>1. Wrote(T(t))
    BY <1>0, <1>1, WriteFacts DEF submit, FeedTypeOK
  <2> QED
    BY <1>a, <2>1 DEF Wrote
<1>3. UNCHANGED <<handlers, pushRows, pushed, tokens, socket, channel, shown, busy, acts, told>>
  BY DEF submit
<1>4. seen' = seen /\ excused' = excused
  BY <1>3 DEF told
<1> DEFINE x == [pc |-> "reply", kind |-> "create", row |-> T(t)]
<1>5. x \in Operation
  BY <1>0, OperationForms DEF Kinds
<1>6. op' = [op EXCEPT ![o] = x]
  BY DEF submit
<1>7. x.pc = "reply" /\ x.kind = "create" /\ x.row = T(t)
  OBVIOUS
<1> HIDE DEF x
<1>8. OpStep(o, x)
  BY <1>0, <1>5, <1>6, OpUpdate DEF FeedTypeOK
<1>9. FeedTypeOK'
  BY <1>0, <1>2, <1>3, <1>4, <1>8 DEF FeedTypeOK, Wrote, OpStep
<1>10. \A p \in Ops : OpOK(p)'
  <2>1. OpOK(o)'
    BY <1>0, <1>2, <1>7, <1>8 DEF OpOK, OpStep
  <2> QED
    BY <1>0, <1>2, <1>8, <2>1, WriteKeepsOps DEF OpStep
<1>11. Carried(T(t))'
  BY <1>2, <1>7, <1>8 DEF Carried, OpStep
<1>12. \A p \in Ops : \/ op'[p] = op[p]
                      \/ op[p].pc = "post" /\ op'[p].pc \in {"wait", "reply"}
  BY <1>a, <1>7, <1>8 DEF OpStep
<1>13. \A h \in handlers' : h.version <= hub'[h.row]
  BY <1>0, <1>2, <1>3, WriteKeepsHandlers
<1> QED
  BY <1>0, <1>2, <1>3, <1>4, <1>9, <1>10, <1>11, <1>12, <1>13, WriteFrame

-----------------------------------------------------------------------------
(* The handlers of the Hub go on.                                          *)

\* The update of the task that goes with a request or a decision: the handler
\* has still to emit the approval, the task is not emitted.
LEMMA UpdateTaskStep ==
    ASSUME Explained, NEW h \in handlers, UpdateTask(h)
    PROVE  Explained'
<1> USE DEF appVars, session
<1>0. FeedTypeOK /\ h \in Handler /\ h.step = "task"
  BY DEF Explained, FeedTypeOK, UpdateTask
<1> DEFINE g == [h EXCEPT !.step = "emit"]
           t == h.row[1]
<1>1. /\ g \in Handler /\ g.row = h.row /\ g.version = h.version /\ g.step = "emit"
      /\ h.row \in Rows
  BY <1>0 DEF Handler
<1>2. /\ handlers' = (handlers \ {h}) \cup {g}
      /\ UNCHANGED <<pushRows, pushed, tokens, socket, channel, shown, busy, acts, op>>
      /\ IF Writable(t) THEN Write(T(t)) /\ Excuse({T(t)})
                        ELSE UNCHANGED <<hub, told>>
  BY DEF UpdateTask
<1>3. t \in Tasks /\ T(t) \in Rows
  BY <1>1, RowFacts
<1> HIDE DEF g, t
<1>4. \A k \in handlers : k.step \in {"task", "emit"} =>
         \E l \in handlers' : l.row = k.row /\ l.version = k.version /\ l.step \in {"task", "emit"}
  BY <1>1, <1>2
<1>5. handlers' \subseteq Handler
  BY <1>0, <1>1, <1>2 DEF FeedTypeOK
<1>6. CASE Writable(t)
  <2>1. hub[T(t)] \in Nat /\ hub[T(t)] + 1 \in Versions
    BY <1>0, <1>3, <1>6, VersionFacts DEF Writable, FeedTypeOK
  <2>2. Wrote(T(t))
    BY <1>0, <1>2, <1>3, <1>6, <2>1, WriteFacts DEF FeedTypeOK
  <2>3. /\ excused' \in [Rows -> BOOLEAN] /\ seen' = seen /\ excused'[T(t)]
        /\ \A q \in Rows : excused[q] => excused'[q]
    BY <1>0, <1>2, <1>3, <1>6, ExcuseFacts DEF FeedTypeOK
  <2>4. FeedTypeOK'
    BY <1>0, <1>2, <1>5, <2>2, <2>3 DEF FeedTypeOK, Wrote
  <2>5. \A o \in Ops : op'[o] = op[o]
    BY <1>2
  <2>6. \A o \in Ops : OpOK(o)'
    BY <1>3, <2>2, <2>5, WriteKeepsOps
  <2>7. \A k \in handlers : k.version <= hub'[k.row]
    BY <1>3, <2>2, WriteKeepsHandlers
  <2>8. \A k \in handlers' : k.version <= hub'[k.row]
    BY <1>1, <1>2, <2>7
  <2> QED
    BY <1>2, <1>3, <1>4, <2>2, <2>3, <2>4, <2>5, <2>6, <2>8, WriteFrame
<1>7. CASE ~Writable(t)
  <2>1. hub' = hub /\ told' = told
    BY <1>2, <1>7
  <2>2. g.version <= hub[g.row]
    BY <1>1 DEF Explained, NothingNewer
  <2> QED
    BY <1>0, <1>1, <1>2, <2>1, <2>2, HandlerFrame
<1> QED
  BY <1>6, <1>7

\* The operations after an emission: a decision that waited is answered.
LEMMA EmitOps ==
    ASSUME Explained, NEW h, Emit(h)
    PROVE  /\ op' \in [Ops -> Operation]
           /\ \A o \in Ops :
                 \/ op'[o] = op[o]
                 \/ /\ op[o].pc = "wait" /\ op'[o].pc = "reply"
                    /\ op'[o].kind = "decide"
<1>1. op \in [Ops -> Operation]
  BY DEF Explained, FeedTypeOK
<1>2. op' = [o \in Ops |->
         IF o = h.by /\ op[o].pc = "wait" THEN [op[o] EXCEPT !.pc = "reply"] ELSE op[o]]
  BY DEF Emit
<1>3. ASSUME NEW o \in Ops
      PROVE  /\ op'[o] \in Operation
             /\ \/ op'[o] = op[o]
                \/ /\ op[o].pc = "wait" /\ op'[o].pc = "reply"
                   /\ op'[o].kind = "decide"
  <2>1. CASE o = h.by /\ op[o].pc = "wait"
    <3>1. /\ op[o].kind \in Kinds /\ op[o].row \in Rows \cup {NoRow}
          /\ op[o] = [pc |-> op[o].pc, kind |-> op[o].kind, row |-> op[o].row]
      BY <1>1, <2>1, OperationFacts
    <3>2. [op[o] EXCEPT !.pc = "reply"]
            = [pc |-> "reply", kind |-> op[o].kind, row |-> op[o].row]
      BY <3>1
    <3>3. op'[o] = [pc |-> "reply", kind |-> op[o].kind, row |-> op[o].row]
      BY <1>2, <2>1, <3>2
    <3>4. op[o].kind = "decide"
      BY <2>1 DEF Explained, OpOK
    <3> QED
      BY <2>1, <3>1, <3>3, <3>4, OperationForms
  <2>2. CASE ~(o = h.by /\ op[o].pc = "wait")
    BY <1>1, <1>2, <2>2
  <2> QED
    BY <2>1, <2>2
<1> QED
  BY <1>2, <1>3

\* An event is appended to those on the socket.
LEMMA AppendedEvents ==
    ASSUME channel \in Seq(Event), NEW e \in Event
    PROVE  /\ Append(channel, e) \in Seq(Event)
           /\ ToSet(Append(channel, e)) = ToSet(channel) \cup {e}
<1>1. /\ Append(channel, e) \in Seq(Event)
      /\ DOMAIN Append(channel, e) = 1 .. Len(channel) + 1
      /\ Append(channel, e)[Len(channel) + 1] = e
      /\ \A i \in 1 .. Len(channel) : Append(channel, e)[i] = channel[i]
  OBVIOUS
<1>2. DOMAIN channel = 1 .. Len(channel) /\ Len(channel) \in Nat
  OBVIOUS
<1>3. \A i \in 1 .. Len(channel) + 1 : i = Len(channel) + 1 \/ i \in 1 .. Len(channel)
  BY <1>2
<1>4. /\ Len(channel) + 1 \in 1 .. Len(channel) + 1
      /\ \A i \in 1 .. Len(channel) : i \in 1 .. Len(channel) + 1
  BY <1>2
<1> QED
  BY <1>1, <1>2, <1>3, <1>4 DEF ToSet

\* notifyUser: the event is on the socket, or its row excused.
LEMMA NotifyStep ==
    ASSUME Explained, NEW h \in handlers, notifyUser(h)
    PROVE  Explained'
<1>0. FeedTypeOK /\ h \in Handler /\ h.step = "emit"
  BY DEF Explained, FeedTypeOK, notifyUser, Emit
<1> DEFINE g == [h EXCEPT !.step = "push"]
           e == [row |-> h.row, version |-> h.version]
<1>1. /\ g \in Handler /\ g.row = h.row /\ g.version = h.version /\ g.step = "push"
      /\ h.row \in Rows /\ e \in Event /\ e.row = h.row /\ e.version = h.version
  BY <1>0 DEF Handler, Event
<1>2. /\ handlers' \subseteq (handlers \ {h}) \cup {g}
      /\ handlers \ {h} \subseteq handlers'
  BY DEF notifyUser
<1>3. /\ UNCHANGED <<hub, pushRows, pushed, tokens, socket, shown, busy, acts>>
      /\ \/ channel' = Append(channel, e) /\ UNCHANGED told
         \/ Excuse({h.row}) /\ UNCHANGED channel
  BY DEF notifyUser, Emit
<1>4. /\ op' \in [Ops -> Operation]
      /\ \A o \in Ops :
            \/ op'[o] = op[o]
            \/ /\ op[o].pc = "wait" /\ op'[o].pc = "reply"
               /\ op'[o].kind = "decide"
  BY EmitOps DEF notifyUser
<1> HIDE DEF g, e
<1>5. /\ channel' \in Seq(Event)
      /\ ToSet(channel)' = ToSet(channel) \/ ToSet(channel)' = ToSet(channel) \cup {e}
      /\ excused' \in [Rows -> BOOLEAN] /\ seen' = seen
      /\ \A r \in Rows : excused[r] => excused'[r]
      /\ excused'[h.row] \/ e \in ToSet(channel)'
  <2>1. CASE channel' = Append(channel, e) /\ UNCHANGED told
    <3>1. channel' \in Seq(Event) /\ ToSet(channel') = ToSet(channel) \cup {e}
      BY <1>0, <1>1, <2>1, AppendedEvents DEF FeedTypeOK
    <3>2. ToSet(channel)' = ToSet(channel')
      BY DEF ToSet
    <3> QED
      BY <1>0, <2>1, <3>1, <3>2 DEF told, FeedTypeOK
  <2>2. CASE Excuse({h.row}) /\ UNCHANGED channel
    <3>1. /\ excused' \in [Rows -> BOOLEAN] /\ seen' = seen
          /\ \A r \in Rows : excused[r] \/ r \in {h.row} => excused'[r]
      BY <1>0, <2>2, ExcuseFacts DEF FeedTypeOK
    <3>2. ToSet(channel)' = ToSet(channel)
      BY <2>2 DEF ToSet
    <3> QED
      BY <1>0, <1>1, <2>2, <3>1, <3>2 DEF FeedTypeOK
  <2> QED
    BY <1>3, <2>1, <2>2
<1>6. FeedTypeOK'
  <2>1. handlers' \subseteq Handler
    BY <1>0, <1>1, <1>2 DEF FeedTypeOK
  <2> QED
    BY <1>0, <1>3, <1>4, <1>5, <2>1 DEF FeedTypeOK
<1>7. \A o \in Ops : OpOK(o)'
  BY <1>3, <1>4 DEF Explained, OpOK
<1>8. NothingNewer'
  <2>1. \A k \in handlers' : k.version <= hub[k.row]
    BY <1>1, <1>2 DEF Explained, NothingNewer
  <2>2. \A d \in ToSet(channel)' : d.version <= hub[d.row]
    BY <1>1, <1>5 DEF Explained, NothingNewer
  <2>3. \A o \in Ops : op'[o].pc = "loaded" => op'[o] = op[o]
    BY <1>4
  <2> QED
    BY <1>3, <1>5, <2>1, <2>2, <2>3 DEF Explained, NothingNewer
<1>9. ASSUME NEW r \in Rows, Carried(r)
      PROVE  Carried(r)' \/ excused'[r]
  <2>1. CASE \E k \in handlers : k.row = r /\ k.version = hub[r] /\ k.step \in {"task", "emit"}
    <3>1. PICK k \in handlers : k.row = r /\ k.version = hub[r] /\ k.step \in {"task", "emit"}
      BY <2>1
    <3>2. CASE k = h
      BY <1>1, <1>3, <1>5, <3>1, <3>2 DEF Carried
    <3>3. CASE k # h
      BY <1>2, <1>3, <3>1, <3>3 DEF Carried
    <3> QED
      BY <3>2, <3>3
  <2>2. CASE \E d \in ToSet(channel) : d.row = r /\ d.version = hub[r]
    BY <1>3, <1>5, <2>2 DEF Carried
  <2>3. CASE \E o \in Ops : /\ op[o].pc = "reply" /\ op[o].kind = "create"
                            /\ op[o].row = r /\ hub[r] = 1
    BY <1>3, <1>4, <2>3 DEF Carried
  <2> QED
    BY <1>9, <2>1, <2>2, <2>3 DEF Carried
<1>10. \A r \in Rows : Announced(r)'
  BY <1>3, <1>5, <1>9 DEF Explained, Announced
<1>11. ASSUME tokens' # "none", NEW r \in Rows
       PROVE  ShownOrComing(r)'
  <2>1. ShownOrComing(r) /\ Differs(r)' = Differs(r)
    BY <1>3, <1>11 DEF Explained, Differs
  <2>2. BeingLoaded(r) => BeingLoaded(r)'
    BY <1>3, <1>4 DEF BeingLoaded
  <2> QED
    BY <1>5, <1>9, <2>1, <2>2 DEF ShownOrComing
<1> QED
  BY <1>6, <1>7, <1>8, <1>10, <1>11 DEF Explained

\* The push messages of a request are handed over.
LEMMA SendPushStep ==
    ASSUME Explained, NEW h \in handlers, sendPush(h)
    PROVE  Explained'
<1> USE DEF appVars, session
<1>0. FeedTypeOK /\ h \in Handler /\ h.step = "push" /\ h.row \in Rows
  BY DEF Explained, FeedTypeOK, sendPush, Handler
<1>1. /\ handlers' = handlers \ {h}
      /\ UNCHANGED <<hub, pushRows, tokens, socket, channel, shown, busy, op, acts, told>>
  BY DEF sendPush
<1>2. pushed' \in [Rows -> Nat]
  <2>1. pushed[h.row] + pushRows \in Nat
    BY <1>0 DEF FeedTypeOK
  <2> QED
    BY <1>0, <2>1 DEF sendPush, FeedTypeOK
<1>3. seen' = seen /\ excused' = excused
  BY <1>1 DEF told
<1>4. FeedTypeOK'
  BY <1>0, <1>1, <1>2, <1>3 DEF FeedTypeOK
<1>5. \A o \in Ops : OpOK(o)'
  BY <1>1 DEF Explained, OpOK
<1>6. NothingNewer'
  BY <1>1, <1>3 DEF Explained, NothingNewer, ToSet
<1>7. CarriersKept
  BY <1>0, <1>1 DEF CarriersKept
<1>8. \A r \in Rows : Announced(r)'
  BY <1>1, <1>3, <1>7, CarriedKept DEF Explained, Announced
<1>9. ASSUME tokens' # "none", NEW r \in Rows
      PROVE  ShownOrComing(r)'
  <2>1. /\ ShownOrComing(r) /\ Differs(r)' = Differs(r)
        /\ BeingLoaded(r)' = BeingLoaded(r)
    BY <1>1, <1>9 DEF Explained, Differs, BeingLoaded
  <2> QED
    BY <1>3, <1>7, <2>1, CarriedKept DEF ShownOrComing
<1> QED
  BY <1>4, <1>5, <1>6, <1>8, <1>9 DEF Explained

-----------------------------------------------------------------------------
(* The app is handed something, or nothing.                                *)

\* A row that is not newest and was announced is carried or excused when an
\* older version of it is handed over.
LEMMA OlderIsExcused ==
    ASSUME Explained, NEW rs \in SUBSET Rows, NEW f, Told(rs, f),
           NEW r \in rs, f[r] # hub[r], ~Carried(r)
    PROVE  excused'[r]
<1>1. excused[r] \/ seen[r] = hub[r]
  BY DEF Explained, Announced
<1> QED
  BY <1>1 DEF Told

\* The response of an operation: createTask shows its task, and a load starts.
LEMMA ReplyStep ==
    ASSUME Explained, NEW o \in Ops, Reply(o)
    PROVE  Explained'
<1> USE DEF session, hubVars
<1>0. FeedTypeOK
  BY DEF Explained
<1>1. /\ UNCHANGED <<hub, handlers, pushed, pushRows, tokens, socket, channel, acts>>
      /\ busy' = TRUE /\ op[o].pc = "reply" /\ op' = [op EXCEPT ![o] = Loading]
  BY DEF Reply
<1>2. OpStep(o, Loading) /\ op'[o].pc = "load"
  BY <1>0, <1>1, OperationForms, OpUpdate DEF FeedTypeOK, OpStep
<1>3. \A p \in Ops : p # o => op'[p] = op[p]
  BY <1>2 DEF OpStep
<1>4. /\ shown' \in [Rows -> Versions] /\ seen' \in [Rows -> Versions]
      /\ excused' \in [Rows -> BOOLEAN]
      /\ \A r \in Rows : seen'[r] <= hub[r]
      /\ \A r \in Rows : Announced(r)'
  <2>1. CASE op[o].kind = "create"
    <3>1. PICK r \in Rows : r = op[o].row
      BY <1>1, <2>1, RowFacts DEF Explained, OpOK
    <3> DEFINE f == [q \in {r} |-> 1]
    <3>2. /\ shown' = [shown EXCEPT ![r] = 1] /\ Handed(f) /\ hub[r] >= 1
      BY <1>1, <2>1, <3>1 DEF Reply, Explained, OpOK
    <3>3. /\ {r} \in SUBSET Rows /\ f \in [{r} -> Versions]
          /\ \A q \in {r} : f[q] = 1 /\ f[q] <= hub[q]
      BY <3>2, VersionFacts
    <3> HIDE DEF f
    <3>4. Told({r}, f)
      BY <3>2, <3>3, HandedFacts
    <3>5. ASSUME NEW q \in Rows
          PROVE  Announced(q)'
      <4>1. Announced(q)
        BY DEF Explained
      <4>2. CASE excused[q] \/ seen[q] = hub[q]
        BY <1>1, <3>4, <4>2 DEF Told, Announced
      <4>3. CASE Carried(q) /\ q = r /\ hub[r] = 1
        BY <1>1, <3>3, <3>4, <4>3 DEF Told, Announced
      <4>4. CASE Carried(q) /\ ~(q = r /\ hub[r] = 1)
        <5>1. Carried(q)'
          BY <1>1, <1>3, <3>1, <4>4 DEF Carried, ToSet
        <5> QED
          BY <5>1 DEF Announced
      <4> QED
        BY <4>1, <4>2, <4>3, <4>4 DEF Announced
    <3>6. shown' \in [Rows -> Versions]
      BY <1>0, <3>2, VersionFacts DEF FeedTypeOK
    <3> QED
      BY <3>4, <3>5, <3>6 DEF Told
  <2>2. CASE op[o].kind # "create"
    <3>1. shown' = shown /\ seen' = seen /\ excused' = excused
      BY <2>2 DEF Reply, told
    <3>2. CarriersKept
      BY <1>1, <1>3, <2>2 DEF CarriersKept
    <3>3. \A r \in Rows : Announced(r)'
      BY <1>1, <3>1, <3>2, CarriedKept DEF Explained, Announced
    <3> QED
      BY <1>0, <3>1, <3>3 DEF Explained, FeedTypeOK, NothingNewer
  <2> QED
    BY <2>1, <2>2
<1>5. FeedTypeOK'
  BY <1>0, <1>1, <1>2, <1>4 DEF FeedTypeOK, OpStep
<1>6. \A p \in Ops : OpOK(p)'
  BY <1>1, <1>2, <1>3 DEF Explained, OpOK
<1>7. NothingNewer'
  <2>1. \A p \in Ops : op'[p].pc = "loaded" => op'[p] = op[p]
    BY <1>2, <1>3
  <2> QED
    BY <1>1, <1>4, <2>1 DEF Explained, NothingNewer, ToSet
<1>8. \A r \in Rows : BeingLoaded(r)'
  BY <1>2 DEF BeingLoaded
<1> QED
  BY <1>4, <1>5, <1>6, <1>7, <1>8 DEF Explained, ShownOrComing

\* loadAll sets the lists.
LEMMA LoadAllStep ==
    ASSUME Explained, NEW o \in Ops, LoadAll(o)
    PROVE  Explained'
<1> USE DEF session, hubVars
<1>0. FeedTypeOK
  BY DEF Explained
<1>1. /\ UNCHANGED <<hub, handlers, pushed, pushRows, tokens, socket, channel, acts>>
      /\ busy' = FALSE /\ op[o].pc = "loaded" /\ op' = [op EXCEPT ![o] = Idle]
  BY DEF LoadAll
<1>2. PICK f \in [Rows -> Versions] : f = op[o].rows
  BY <1>0, <1>1, OperationFacts DEF FeedTypeOK
<1>3. /\ shown' = [r \in Rows |-> Shows(r, f[r])] /\ Handed(f)
      /\ \A r \in Rows : f[r] <= hub[r]
  BY <1>1, <1>2 DEF LoadAll, Explained, NothingNewer
<1>4. Told(Rows, f)
  BY <1>3, HandedFacts
<1>5. OpStep(o, Idle) /\ op'[o].pc = "idle"
  BY <1>0, <1>1, OperationForms, OpUpdate DEF FeedTypeOK, OpStep
<1>6. shown' \in [Rows -> Versions]
  BY <1>3, VersionFacts DEF Shows
<1>7. FeedTypeOK'
  BY <1>0, <1>1, <1>4, <1>5, <1>6 DEF FeedTypeOK, OpStep, Told
<1>8. \A p \in Ops : OpOK(p)'
  BY <1>1, <1>5 DEF Explained, OpOK, OpStep
<1>9. NothingNewer'
  <2>1. \A p \in Ops : op'[p].pc = "loaded" => op'[p] = op[p]
    BY <1>5 DEF OpStep
  <2>2. \A r \in Rows : seen'[r] <= hub[r]
    BY <1>4 DEF Told
  <2> QED
    BY <1>1, <2>1, <2>2 DEF Explained, NothingNewer, ToSet
<1>10. CarriersKept
  BY <1>1, <1>5 DEF CarriersKept, OpStep
<1>11. ASSUME NEW r \in Rows
       PROVE  Announced(r)'
  BY <1>1, <1>4, <1>10, CarriedKept DEF Explained, Announced, Told
<1>12. ASSUME NEW r \in Rows
       PROVE  ShownOrComing(r)'
  <2>1. CASE f[r] = hub[r]
    <3>1. Shows(r, Shows(r, f[r])) = Shows(r, f[r])
      BY DEF Shows
    <3>2. shown'[r] = Shows(r, f[r]) /\ hub'[r] = hub[r]
      BY <1>1, <1>3
    <3>3. ~Differs(r)'
      BY <2>1, <3>1, <3>2 DEF Differs, Shows
    <3> QED
      BY <3>3 DEF ShownOrComing
  <2>2. CASE f[r] # hub[r] /\ Carried(r)
    BY <1>10, <2>2, CarriedKept DEF ShownOrComing
  <2>3. CASE f[r] # hub[r] /\ ~Carried(r)
    BY <1>4, <2>3, OlderIsExcused DEF ShownOrComing
  <2> QED
    BY <2>1, <2>2, <2>3
<1> QED
  BY <1>7, <1>8, <1>9, <1>11, <1>12 DEF Explained

\* An operation fails: what it would have brought is excused.
LEMMA FailStep ==
    ASSUME Explained, NEW o \in Ops, Fail(o)
    PROVE  Explained'
<1> USE DEF session, hubVars
<1>0. FeedTypeOK
  BY DEF Explained
<1>1. /\ UNCHANGED <<hub, handlers, pushed, pushRows, tokens, socket, channel, shown, acts>>
      /\ busy' = FALSE /\ op' = [op EXCEPT ![o] = Idle] /\ Excuse(Owed(o))
  BY DEF Fail, Abandon
<1>2. OpStep(o, Idle) /\ op'[o].pc = "idle"
  BY <1>0, <1>1, OperationForms, OpUpdate DEF FeedTypeOK, OpStep
<1>3. /\ excused' \in [Rows -> BOOLEAN] /\ seen' = seen
      /\ \A r \in Rows : excused[r] \/ r \in Owed(o) => excused'[r]
  BY <1>0, <1>1, ExcuseFacts DEF FeedTypeOK
<1>4. FeedTypeOK'
  BY <1>0, <1>1, <1>2, <1>3 DEF FeedTypeOK, OpStep
<1>5. \A p \in Ops : OpOK(p)'
  BY <1>1, <1>2 DEF Explained, OpOK, OpStep
<1>6. NothingNewer'
  <2>1. \A p \in Ops : op'[p].pc = "loaded" => op'[p] = op[p]
    BY <1>2 DEF OpStep
  <2> QED
    BY <1>1, <1>3, <2>1 DEF Explained, NothingNewer, ToSet
<1>7. ASSUME NEW r \in Rows, Carried(r)
      PROVE  Carried(r)' \/ excused'[r]
  <2>1. CASE op[o].pc = "reply" /\ op[o].kind = "create" /\ op[o].row = r
    <3>1. r \in Owed(o)
      BY <2>1 DEF Owed
    <3> QED
      BY <1>3, <3>1
  <2>2. CASE ~(op[o].pc = "reply" /\ op[o].kind = "create" /\ op[o].row = r)
    BY <1>1, <1>2, <1>7, <2>2 DEF Carried, ToSet, OpStep
  <2> QED
    BY <2>1, <2>2
<1>8. \A r \in Rows : Announced(r)'
  BY <1>1, <1>3, <1>7 DEF Explained, Announced
<1>9. ASSUME tokens' # "none", NEW r \in Rows
      PROVE  ShownOrComing(r)'
  <2>1. ShownOrComing(r) /\ Differs(r)' = Differs(r)
    BY <1>1, <1>9 DEF Explained, Differs
  <2>2. CASE op[o].pc \in {"load", "loaded"} /\ Differs(r)
    <3>1. r \in Owed(o)
      BY <2>2 DEF Owed
    <3> QED
      BY <1>3, <3>1 DEF ShownOrComing
  <2>3. CASE op[o].pc \notin {"load", "loaded"}
    <3>1. BeingLoaded(r) => BeingLoaded(r)'
      BY <1>1, <1>2, <2>3 DEF BeingLoaded, OpStep
    <3> QED
      BY <1>3, <1>7, <2>1, <3>1 DEF ShownOrComing
  <2> QED
    BY <2>1, <2>2, <2>3 DEF ShownOrComing
<1> QED
  BY <1>4, <1>5, <1>6, <1>8, <1>9 DEF Explained

\* The events on the socket are the first one and the rest.
LEMMA FirstEvent ==
    ASSUME channel \in Seq(Event), channel # <<>>
    PROVE  /\ Head(channel) \in Event
           /\ Tail(channel) \in Seq(Event)
           /\ ToSet(channel) = {Head(channel)} \cup ToSet(Tail(channel))
<1>1. /\ Head(channel) \in Event /\ Head(channel) = channel[1]
      /\ Tail(channel) \in Seq(Event)
      /\ DOMAIN Tail(channel) = 1 .. Len(channel) - 1
      /\ \A i \in 1 .. Len(channel) - 1 : Tail(channel)[i] = channel[i + 1]
  BY HeadTailProperties
<1>2. PICK n \in Nat : n = Len(channel) /\ n >= 1 /\ DOMAIN channel = 1 .. n
  BY EmptySeq, LenProperties
<1>3. \A i \in 1 .. n : i = 1 \/ (i - 1 \in 1 .. n - 1 /\ i = (i - 1) + 1)
  BY <1>2
<1>4. 1 \in 1 .. n /\ \A i \in 1 .. n - 1 : i + 1 \in 1 .. n
  BY <1>2
<1>5. ASSUME NEW e \in ToSet(channel)
      PROVE  e \in {Head(channel)} \cup ToSet(Tail(channel))
  <2>1. PICK i \in 1 .. n : e = channel[i]
    BY <1>2 DEF ToSet
  <2>2. CASE i = 1
    BY <1>1, <2>1, <2>2
  <2>3. CASE i - 1 \in 1 .. n - 1
    <3>1. e = Tail(channel)[i - 1]
      BY <1>1, <1>2, <1>3, <2>1, <2>3
    <3> QED
      BY <1>1, <1>2, <2>3, <3>1 DEF ToSet
  <2> QED
    BY <1>3, <2>2, <2>3
<1>6. \A e \in {Head(channel)} \cup ToSet(Tail(channel)) : e \in ToSet(channel)
  BY <1>1, <1>2, <1>4 DEF ToSet
<1> QED
  BY <1>1, <1>5, <1>6

\* An event is delivered.
LEMMA ReceiveStep ==
    ASSUME Explained, Receive
    PROVE  Explained'
<1> USE DEF hubVars
<1>0. FeedTypeOK
  BY DEF Explained
<1>1. /\ UNCHANGED <<hub, handlers, pushed, pushRows, tokens, socket, busy, op, acts>>
      /\ channel # <<>> /\ channel' = Tail(channel)
  BY DEF Receive
<1>2. PICK e \in Event :
         /\ e = Head(channel)
         /\ channel' \in Seq(Event)
         /\ ToSet(channel) = {e} \cup ToSet(channel')
  BY <1>0, <1>1, FirstEvent DEF FeedTypeOK
<1>3. ToSet(channel') = ToSet(channel)'
  BY DEF ToSet
<1>4. PICK r \in Rows, v \in Versions : r = e.row /\ v = e.version
  BY DEF Event
<1> DEFINE f == [q \in {r} |-> v]
<1>5. shown' = Listened(e) /\ Handed(f)
  BY <1>2, <1>4 DEF Receive
<1>6. /\ {r} \in SUBSET Rows /\ f \in [{r} -> Versions]
      /\ \A q \in {r} : f[q] = v /\ f[q] <= hub[q]
  BY <1>2, <1>4 DEF Explained, NothingNewer
<1> HIDE DEF f
<1>7. Told({r}, f)
  BY <1>5, <1>6, HandedFacts
<1>8. /\ shown' \in [Rows -> Versions]
      /\ \A q \in Rows : q # r => shown'[q] = shown[q]
      /\ shown'[r] = v \/ (r \in ApprovalRows /\ v = 2 /\ shown'[r] = 0)
  BY <1>0, <1>4, <1>5 DEF Listened, FeedTypeOK
<1>9. FeedTypeOK'
  BY <1>0, <1>1, <1>2, <1>7, <1>8 DEF FeedTypeOK, Told
<1>10. \A o \in Ops : OpOK(o)'
  BY <1>1 DEF Explained, OpOK
<1>11. NothingNewer'
  <2>1. \A q \in Rows : seen'[q] <= hub[q]
    BY <1>7 DEF Told
  <2>2. \A d \in ToSet(channel)' : d.version <= hub[d.row]
    BY <1>2, <1>3 DEF Explained, NothingNewer
  <2> QED
    BY <1>1, <2>1, <2>2 DEF Explained, NothingNewer
<1>12. ASSUME NEW q \in Rows, Carried(q), ~(q = r /\ v = hub[r])
       PROVE  Carried(q)'
  BY <1>1, <1>2, <1>3, <1>4, <1>12 DEF Carried
<1>13. ASSUME NEW q \in Rows
       PROVE  Announced(q)'
  <2>1. Announced(q)
    BY DEF Explained
  <2>2. CASE q = r /\ v = hub[r]
    BY <1>1, <1>6, <1>7, <2>2 DEF Told, Announced
  <2>3. CASE Carried(q) /\ ~(q = r /\ v = hub[r])
    BY <1>12, <2>3 DEF Announced
  <2>4. CASE excused[q] \/ seen[q] = hub[q]
    BY <1>1, <1>7, <2>4 DEF Told, Announced
  <2> QED
    BY <2>1, <2>2, <2>3, <2>4 DEF Announced
<1>14. ASSUME tokens' # "none", NEW q \in Rows
       PROVE  ShownOrComing(q)'
  <2>1. CASE q = r /\ v = hub[r]
    <3>1. Shows(r, shown'[r]) = Shows(r, v)
      BY <1>8 DEF Shows
    <3>2. ~Differs(q)'
      BY <1>1, <2>1, <3>1 DEF Differs, Shows
    <3> QED
      BY <3>2 DEF ShownOrComing
  <2>2. CASE q = r /\ v # hub[r]
    <3>1. CASE Carried(r)
      BY <1>12, <2>2, <3>1 DEF ShownOrComing
    <3>2. CASE ~Carried(r)
      BY <1>6, <1>7, <2>2, <3>2, OlderIsExcused DEF ShownOrComing
    <3> QED
      BY <3>1, <3>2
  <2>3. CASE q # r
    <3>1. ShownOrComing(q)
      BY <1>1, <1>14 DEF Explained
    <3>2. /\ Differs(q)' = Differs(q) /\ BeingLoaded(q)' = BeingLoaded(q)
      BY <1>1, <1>8, <2>3 DEF Differs, BeingLoaded
    <3>3. excused'[q] = excused[q]
      BY <1>7, <2>3 DEF Told
    <3> QED
      BY <1>12, <2>3, <3>1, <3>2, <3>3 DEF ShownOrComing
  <2> QED
    BY <2>1, <2>2, <2>3
<1> QED
  BY <1>9, <1>10, <1>11, <1>13, <1>14 DEF Explained

-----------------------------------------------------------------------------
(* Decisions in progress.                                                  *)

\* Only rows of approvals and no rows of tasks are decided.
LEMMA RowsApart == \A t \in Tasks : T(t) \notin ApprovalRows
BY DEF T, A, ApprovalRows

\* A decision in progress stays one about a row that can be decided.
LEMMA DecidingFrame ==
    ASSUME DecidingOK,
           \A h \in handlers' : h.step = "decide" => h \in handlers,
           \A r \in ApprovalRows : hub[r] \in {1, 2} => hub'[r] = hub[r]
    PROVE  DecidingOK'
BY DEF DecidingOK

\* So it does when a row is written that is no approval, or is none yet.
LEMMA DecidingWrites ==
    ASSUME Explained, DecidingOK, NEW r \in Rows, Write(r),
           r \in ApprovalRows => hub[r] = 0,
           \A h \in handlers' : h.step = "decide" => h \in handlers
    PROVE  DecidingOK'
<1>1. hub \in [Rows -> Versions]
  BY DEF Explained, FeedTypeOK
<1>2. \A q \in Rows : q # r => hub'[q] = hub[q]
  BY <1>1 DEF Write
<1>3. ASSUME NEW q \in ApprovalRows, hub[q] \in {1, 2}
      PROVE  hub'[q] = hub[q]
  BY <1>2, <1>3, RowFacts
<1> QED
  BY <1>3, DecidingFrame

\* Steps of the Hub's handlers.
LEMMA DecidingHub ==
    ASSUME Explained, DecidingOK, NEW h \in handlers, HubStep(h)
    PROVE  DecidingOK'
<1>0. h \in Handler /\ h.row \in Rows /\ hub \in [Rows -> Versions]
  BY DEF Explained, FeedTypeOK, Handler
<1>1. CASE WriteDecision(h)
  <2>1. h.step = "decide" /\ h.row \in ApprovalRows
    BY <1>1 DEF WriteDecision, DecidingOK
  <2>2. hub' = [hub EXCEPT ![h.row] = 2]
    BY <1>1 DEF WriteDecision
  <2>3. \A q \in ApprovalRows : hub[q] \in {1, 2} => hub'[q] \in {1, 2}
    BY <1>0, <2>2, RowFacts
  <2> DEFINE g == [h EXCEPT !.step = "task", !.version = 2]
  <2>4. handlers' = (handlers \ {h}) \cup {g}
    BY <1>1 DEF WriteDecision
  <2>5. g.step = "task"
    BY <1>0 DEF Handler
  <2> HIDE DEF g
  <2> QED
    BY <2>3, <2>4, <2>5 DEF DecidingOK
<1>2. CASE UpdateTask(h)
  <2> DEFINE g == [h EXCEPT !.step = "emit"]
             t == h.row[1]
  <2>1. handlers' = (handlers \ {h}) \cup {g} /\ g.step = "emit"
    BY <1>0, <1>2 DEF UpdateTask, Handler
  <2>2. t \in Tasks /\ T(t) \in Rows
    BY <1>0, RowFacts
  <2>3. Write(T(t)) \/ hub' = hub
    BY <1>2 DEF UpdateTask
  <2> HIDE DEF g, t
  <2>4. \A k \in handlers' : k.step = "decide" => k \in handlers
    BY <2>1
  <2> QED
    BY <2>2, <2>3, <2>4, RowsApart, DecidingWrites, DecidingFrame
<1>3. CASE notifyUser(h)
  <2> DEFINE g == [h EXCEPT !.step = "push"]
  <2>1. handlers' \subseteq handlers \cup {g} /\ g.step = "push" /\ hub' = hub
    BY <1>0, <1>3 DEF notifyUser, Emit, Handler
  <2> HIDE DEF g
  <2> QED
    BY <2>1, DecidingFrame
<1>4. CASE sendPush(h)
  BY <1>4, DecidingFrame DEF sendPush
<1> QED
  BY <1>1, <1>2, <1>3, <1>4 DEF HubStep

\* A decision gets past its check: the row is that of an approval, and PENDING.
LEMMA DecidingBegins ==
    ASSUME Explained, DecidingOK, NEW o \in Ops, decide(o)
    PROVE  DecidingOK'
<1> DEFINE g == [step |-> "decide", row |-> op[o].row, version |-> 1, by |-> o]
<1>1. handlers' = handlers \cup {g} /\ hub' = hub
  BY DEF decide
<1>2. g.row = op[o].row
  OBVIOUS
<1> HIDE DEF g
<1>3. op[o].row \in ApprovalRows /\ hub[op[o].row] = 1
  BY DEF decide, Explained, OpOK
<1> QED
  BY <1>1, <1>2, <1>3 DEF DecidingOK

\* Every other step.
LEMMA DecidingNext ==
    ASSUME Explained, DecidingOK, [FeedNext]_feedVars
    PROVE  DecidingOK'
<1>1. ASSUME NEW t \in Tasks,
             UpdateAndNotify(t) \/ UpdateSilently(t) \/ handleDaemonApprovalRequest(t)
      PROVE  DecidingOK'
  <2>1. T(t) \in Rows /\ A(t) \in Rows /\ T(t) \notin ApprovalRows
    BY RowFacts, RowsApart
  <2>2. CASE UpdateAndNotify(t)
    <3>1. Write(T(t)) /\ \A h \in handlers' : h.step = "decide" => h \in handlers
      BY <2>2 DEF UpdateAndNotify
    <3> QED
      BY <2>1, <3>1, DecidingWrites
  <2>3. CASE UpdateSilently(t)
    <3>1. Write(T(t)) /\ handlers' = handlers
      BY <2>3 DEF UpdateSilently
    <3> QED
      BY <2>1, <3>1, DecidingWrites
  <2>4. CASE handleDaemonApprovalRequest(t)
    <3>1. \A h \in handlers' : h.step = "decide" => h \in handlers
      BY <2>4 DEF handleDaemonApprovalRequest
    <3>2. (hub[A(t)] = 0 /\ Write(A(t))) \/ hub' = hub
      BY <2>4 DEF handleDaemonApprovalRequest
    <3> QED
      BY <2>1, <3>1, <3>2, DecidingWrites, DecidingFrame
  <2> QED
    BY <1>1, <2>2, <2>3, <2>4
<1>2. CASE \E h \in handlers : HubStep(h)
  BY <1>2, DecidingHub
<1>3. ASSUME NEW o \in Ops, NEW t \in Tasks, submit(o, t)
      PROVE  DecidingOK'
  <2>1. Write(T(t)) /\ handlers' = handlers
    BY <1>3 DEF submit
  <2> QED
    BY <2>1, RowFacts, RowsApart, DecidingWrites
<1>4. ASSUME NEW o \in Ops, decide(o)
      PROVE  DecidingOK'
  BY <1>4, DecidingBegins
<1>5. ASSUME hub' = hub, handlers' = handlers
      PROVE  DecidingOK'
  BY <1>5, DecidingFrame
<1>6. ASSUME NEW o \in Ops,
             login(o) \/ Buttons(o) \/ DecideRegistration(o) \/ Answered(o)
      PROVE  hub' = hub /\ handlers' = handlers
  BY <1>6 DEF login, Buttons, DecideRegistration, Answered, RefreshButton, createTask,
              decideServerRegistration, decideApproval, Begin, Reply, Read, LoadAll,
              Fail, Abandon, hubVars
<1>7. ASSUME \/ registerPushToken \/ logout \/ Expire \/ handleConnection \/ Drop
             \/ Reconnect \/ Receive \/ UNCHANGED feedVars
             \/ \E o, p \in Ops : refreshSession(o, p)
      PROVE  hub' = hub /\ handlers' = handlers
  BY <1>7 DEF registerPushToken, logout, Expire, handleConnection, Drop, Reconnect,
              Receive, refreshSession, feedVars, hubVars
<1> QED
  BY <1>1, <1>2, <1>3, <1>4, <1>5, <1>6, <1>7 DEF FeedNext, HubAnswers

-----------------------------------------------------------------------------
(* The theorems.                                                           *)

\* The app starts logged out, with empty lists, before an empty Hub.
LEMMA FeedInitExplained == FeedInit => Explained
<1> SUFFICES ASSUME FeedInit PROVE Explained
  OBVIOUS
<1>1. /\ hub = Nothing /\ handlers = {} /\ channel = <<>> /\ shown = Nothing
      /\ seen = Nothing /\ tokens = "none"
      /\ op \in [Ops -> Operation] /\ \A o \in Ops : op[o] = Idle
  BY OperationForms DEF FeedInit
<1>2. FeedTypeOK
  <2>1. pushed \in [Rows -> Nat]
    BY NothingIsRows, VersionFacts DEF FeedInit
  <2>2. pushRows \in 0 .. MaxRows /\ acts \in 0 .. MaxActs
    BY FeedAssumption DEF FeedInit
  <2>3. excused \in [Rows -> BOOLEAN] /\ busy \in BOOLEAN
    BY DEF FeedInit
  <2>4. socket \in {"none", "connecting", "room", "down", "refused"}
    BY DEF FeedInit
  <2> QED
    BY <1>1, <2>1, <2>2, <2>3, <2>4, NothingIsRows, EmptyChannel DEF FeedTypeOK
<1>3. \A o \in Ops : OpOK(o)
  BY <1>1, OperationForms DEF OpOK
<1>4. NothingNewer
  BY <1>1, NothingIsRows, EmptyChannel, OperationForms DEF NothingNewer
<1>5. \A r \in Rows : Announced(r)
  BY <1>1 DEF Announced
<1> QED
  BY <1>1, <1>2, <1>3, <1>4, <1>5 DEF Explained

\* Every step keeps the invariant.
LEMMA FeedNextExplained == FeedInv /\ [FeedNext]_feedVars => Explained'
<1> SUFFICES ASSUME Explained, DecidingOK, [FeedNext]_feedVars PROVE Explained'
  BY DEF FeedInv
<1>1. CASE \E t \in Tasks :
              UpdateAndNotify(t) \/ UpdateSilently(t) \/ handleDaemonApprovalRequest(t)
  BY <1>1, UpdateAndNotifyStep, UpdateSilentlyStep, ApprovalRequestStep
<1>2. CASE \E h \in handlers : HubStep(h)
  BY <1>2, WriteDecisionStep, UpdateTaskStep, NotifyStep, SendPushStep DEF HubStep
<1>3. CASE registerPushToken \/ Expire \/ handleConnection \/ Reconnect
  BY <1>3, SessionSteps
<1>4. CASE \E o \in Ops : login(o) \/ Buttons(o) \/ HubAnswers(o) \/ Answered(o)
  <2> SUFFICES ASSUME NEW o \in Ops,
                      login(o) \/ Buttons(o) \/ HubAnswers(o) \/ Answered(o)
               PROVE  Explained'
    BY <1>4
  <2>1. CASE login(o) \/ Buttons(o)
    BY <2>1, LoginSteps, ButtonSteps
  <2>2. CASE HubAnswers(o)
    BY <2>2, DecideStep, DecideRegistrationStep, SubmitStep DEF HubAnswers
  <2>3. CASE Answered(o)
    BY <2>3, ReplyStep, ReadStep, LoadAllStep, FailStep DEF Answered
  <2> QED
    BY <2>1, <2>2, <2>3
<1>5. CASE \E o, p \in Ops : refreshSession(o, p)
  BY <1>5, LoginSteps
<1>6. CASE logout \/ Drop
  BY <1>6, LossSteps
<1>7. CASE Receive
  BY <1>7, ReceiveStep
<1>8. CASE UNCHANGED feedVars
  <2>1. UNCHANGED <<hub, handlers, pushRows, pushed, tokens, socket, channel, shown, busy, op,
                    acts, told>>
    BY <1>8 DEF feedVars, hubVars, appVars, session
  <2>2. FeedTypeOK'
    BY <2>1 DEF Explained, FeedTypeOK, told
  <2> QED
    BY <2>1, <2>2, SessionFrame
<1> QED
  BY <1>1, <1>2, <1>3, <1>4, <1>5, <1>6, <1>7, <1>8 DEF FeedNext

\* What the app shows of a row is explained by what it was handed, by what is
\* on its way to it and by what was lost, after any interleaving of emissions,
\* responses, loads, logins and broken connections.
THEOREM FeedInvariance == FeedSpec => []FeedInv
<1>1. FeedInit => FeedInv
  BY FeedInitExplained DEF FeedInv, DecidingOK, FeedInit
<1>2. FeedInv /\ [FeedNext]_feedVars => FeedInv'
  BY FeedNextExplained, DecidingNext DEF FeedInv
<1> QED
  BY <1>1, <1>2, PTL DEF FeedSpec

\* The variables keep their types: an approval row has no state but PENDING and
\* decided, although two decisions may both get past the check and both write.
THEOREM FeedTypes == FeedSpec => []FeedTypeOK
<1>1. FeedInv => FeedTypeOK
  BY DEF FeedInv, Explained
<1> QED
  BY <1>1, FeedInvariance, PTL

\* A logged-in app is behind the Hub with a row only while the newest version
\* is on its way, or for a reason that excuses it.
THEOREM FeedIsBehindOnlyIfExcused == FeedSpec => []BehindOnlyIfExcused
<1>1. ASSUME FeedInv
      PROVE  BehindOnlyIfExcused
  <2> SUFFICES ASSUME tokens # "none", NEW r \in Rows, Differs(r)
               PROVE  excused[r] \/ OnItsWay(r)
    BY DEF BehindOnlyIfExcused
  <2>1. excused[r] \/ Carried(r) \/ BeingLoaded(r)
    BY <1>1 DEF FeedInv, Explained, ShownOrComing
  <2>2. Carried(r) => OnItsWay(r)
    BY DEF Carried, OnItsWay
  <2>3. BeingLoaded(r) => OnItsWay(r)
    BY DEF BeingLoaded, OnItsWay
  <2> QED
    BY <2>1, <2>2, <2>3
<1> QED
  BY <1>1, FeedInvariance, PTL

=============================================================================
