----------------------- MODULE ServerRegistrationProofs -----------------------
(***************************************************************************)
(* Proofs about ServerRegistration, for any set of users, machines and     *)
(* decisions in flight: the credential a machine ends with is good, and    *)
(* nobody else can get it.                                                 *)
(***************************************************************************)
EXTENDS ServerRegistration, TLAPS

-----------------------------------------------------------------------------
(* How steps may change the tables.                                        *)

\* Ids are only added, and a server in the table is left alone or removed.
ServersKept ==
    /\ server' \in [Ids -> {NoServer} \cup Server]
    /\ issued' \in 0 .. MaxServers /\ issued <= issued'
    /\ \A i \in 1 .. issued : server'[i] \in {server[i], NoServer}

\* Requests stay; one keeps its server and its key or loses them, and a new
\* one is of a user and has neither.
RowsKept ==
    /\ row' \in [Requests -> {NoRow} \cup Row]
    /\ \A r \in Requests :
          /\ row[r] # NoRow => row'[r] # NoRow
          /\ row'[r] # NoRow =>
                \/ /\ row[r] # NoRow
                   /\ row'[r].key \in {0, row[r].key}
                   /\ row'[r].server \in {0, row[r].server}
                \/ OwnerEmail[r] \in Users /\ row'[r].key = 0

-----------------------------------------------------------------------------
(* What survives such steps.                                               *)

\* What the types say.
LEMMA Types ==
    ASSUME RegistrationInv
    PROVE  /\ row \in [Requests -> {NoRow} \cup Row]
           /\ late \in [Requests -> BOOLEAN]
           /\ server \in [Ids -> {NoServer} \cup Server]
           /\ issued \in 0 .. MaxServers /\ MaxServers \in Nat
           /\ registrar \in [Requests -> Registrar]
           /\ call \in [Slots -> {Idle} \cup Decision]
           /\ losses \in 0 .. MaxLosses /\ MaxLosses \in Nat
BY RegistrationAssumption DEF RegistrationInv, RegistrationTypeOK

\* A key stays with its user.
LEMMA BelongsKept ==
    ASSUME RegistrationInv, ServersKept, NEW k, NEW r \in Requests, BelongsTo(k, r)
    PROVE  BelongsTo(k, r)'
BY Types DEF BelongsTo, ServersKept, NoServer

\* The requests stay good.
LEMMA RowsFrame ==
    ASSUME RegistrationInv, ServersKept, RowsKept
    PROVE  \A r \in Requests : RowOK(r)'
<1> SUFFICES ASSUME NEW r \in Requests, row'[r] # NoRow PROVE RowOK(r)'
  BY DEF RowOK
<1>1. CASE OwnerEmail[r] \in Users /\ row'[r].key = 0
  BY <1>1 DEF RowOK
<1>2. CASE /\ row[r] # NoRow
           /\ row'[r].key \in {0, row[r].key}
           /\ row'[r].server \in {0, row[r].server}
  <2>1. RowOK(r)
    BY DEF RegistrationInv
  <2>2. OwnerEmail[r] \in Users
    BY <1>2, <2>1 DEF RowOK
  <2>3. ASSUME row'[r].key # 0
        PROVE  /\ BelongsTo(row[r].key, r)'
               /\ row'[r].server \in {0, row'[r].key}
               /\ \A q \in Requests \ {r} : row'[q] # NoRow => row'[q].key # row'[r].key
    <3>1. row'[r].key = row[r].key /\ row[r].key # 0
      BY <1>2, <2>3
    <3>2. PICK k : k = row[r].key
      OBVIOUS
    <3>3. BelongsTo(k, r) /\ row[r].server \in {0, k}
          /\ \A q \in Requests \ {r} : row[q] # NoRow => row[q].key # k
      BY <1>2, <2>1, <3>1, <3>2 DEF RowOK
    <3>4. BelongsTo(k, r)'
      BY <3>3, BelongsKept
    <3>5. \A q \in Requests \ {r} : row'[q] # NoRow => row'[q].key # k
      BY <3>1, <3>2, <3>3 DEF RowsKept
    <3> QED
      BY <1>2, <3>1, <3>2, <3>3, <3>4, <3>5 DEF BelongsTo
  <2> QED
    BY <2>2, <2>3 DEF RowOK
<1> QED
  BY <1>1, <1>2 DEF RowsKept

\* What a run has read stays good while the run stays where it is.
LEMMA RegistrarFrame ==
    ASSUME RegistrationInv, ServersKept, RowsKept,
           NEW r \in Requests, registrar'[r] = registrar[r]
    PROVE  RegistrarOK(r)'
<1>1. RegistrarOK(r)
  BY DEF RegistrationInv
<1>2. registrar'[r].pc \in {"poll", "ask", "expire", "deliver"} => row'[r] # NoRow
  BY <1>1 DEF RegistrarOK, RowsKept
<1>3. ASSUME registrar[r].pc \in {"deliver", "done"}
      PROVE  /\ registrar'[r].server = registrar'[r].key
             /\ BelongsTo(registrar[r].key, r)'
             /\ \A q \in Requests :
                   (row'[q] # NoRow /\ row'[q].key = registrar'[r].key)
                       => registrar'[r].pc = "deliver" /\ q = r
  <2>1. PICK k : k = registrar[r].key
    OBVIOUS
  <2>2. /\ BelongsTo(k, r) /\ registrar[r].server = k
        /\ \A q \in Requests : (row[q] # NoRow /\ row[q].key = k)
              => registrar[r].pc = "deliver" /\ q = r
    BY <1>1, <1>3, <2>1 DEF RegistrarOK
  <2>3. BelongsTo(k, r)' /\ k # 0
    BY <2>2, BelongsKept, Types DEF BelongsTo
  <2>4. \A q \in Requests : (row'[q] # NoRow /\ row'[q].key = k)
            => registrar[r].pc = "deliver" /\ q = r
    BY <2>2, <2>3 DEF RowsKept
  <2> QED
    BY <2>1, <2>2, <2>3, <2>4 DEF BelongsTo
<1> QED
  BY <1>2, <1>3 DEF RegistrarOK

\* A step of the run of r that leaves the servers alone, or changes them as
\* ServersKept allows.
LEMMA RunStep ==
    ASSUME RegistrationInv, ServersKept, ServersOK', RowsKept, NEW r \in Requests,
           NEW to \in Registrar, Move(r, to), RegistrarOK(r)',
           UNCHANGED <<late, call>>, losses' \in 0 .. MaxLosses
    PROVE  RegistrationInv'
<1>1. /\ registrar' \in [Requests -> Registrar]
      /\ \A q \in Requests \ {r} : registrar'[q] = registrar[q]
  BY Types DEF Move
<1>2. RegistrationTypeOK'
  BY <1>1, Types DEF RegistrationTypeOK, ServersKept, RowsKept
<1>3. \A q \in Requests : RowOK(q)' /\ RegistrarOK(q)'
  BY <1>1, RowsFrame, RegistrarFrame
<1>4. \A c \in Slots : call'[c] # Idle => row'[call'[c].req] # NoRow
  BY Types DEF RegistrationInv, RowsKept, Decision
<1> QED
  BY <1>2, <1>3, <1>4 DEF RegistrationInv

\* A step of the app or of the clock that leaves the runs alone.
LEMMA AppStep ==
    ASSUME RegistrationInv, ServersKept, ServersOK', RowsKept,
           UNCHANGED <<registrar, losses>>, late' \in [Requests -> BOOLEAN],
           call' \in [Slots -> {Idle} \cup Decision],
           \A c \in Slots : call'[c] # Idle => row'[call'[c].req] # NoRow
    PROVE  RegistrationInv'
<1>1. RegistrationTypeOK'
  BY Types DEF RegistrationTypeOK, ServersKept, RowsKept
<1>2. \A q \in Requests : RowOK(q)' /\ RegistrarOK(q)'
  BY RowsFrame, RegistrarFrame
<1> QED
  BY <1>1, <1>2 DEF RegistrationInv

\* Steps that leave a table alone.
LEMMA Untouched ==
    ASSUME RegistrationInv
    PROVE  /\ UNCHANGED <<server, issued>> => ServersKept /\ ServersOK'
           /\ UNCHANGED row => RowsKept
<1>1. UNCHANGED <<server, issued>> => ServersKept
  BY Types DEF ServersKept
<1>2. UNCHANGED <<server, issued>> => ServersOK'
  BY DEF RegistrationInv, ServersOK
<1>3. UNCHANGED row => RowsKept
  BY Types DEF RowsKept
<1> QED
  BY <1>1, <1>2, <1>3

\* Only the status of a request is written.
LEMMA StatusKeepsRows ==
    ASSUME RegistrationInv, NEW r \in Requests, row[r] # NoRow,
           NEW status \in Statuses, SetStatus(r, status)
    PROVE  RowsKept
<1>1. row[r] \in Row
  BY Types
<1>2. row'[r] = [row[r] EXCEPT !.status = status] /\ \A q \in Requests \ {r} : row'[q] = row[q]
  BY Types DEF SetStatus
<1>3. row'[r] \in Row /\ row'[r].key = row[r].key /\ row'[r].server = row[r].server
  BY <1>1, <1>2 DEF Row
<1>4. row'[r] # NoRow
  BY <1>3 DEF Row, NoRow, Statuses
<1>5. row' \in [Requests -> {NoRow} \cup Row]
  BY <1>2, <1>3, Types DEF SetStatus
<1> QED
  BY <1>2, <1>3, <1>4, <1>5 DEF RowsKept

\* A server with a fresh id.
LEMMA CreateKeepsServers ==
    ASSUME RegistrationInv, NEW u \in Users, CreateServer(u)
    PROVE  /\ ServersKept /\ ServersOK'
           /\ issued' = issued + 1 /\ issued' \in Ids
           /\ server'[issued'] = [owner |-> u, key |-> issued']
<1> DEFINE new == [owner |-> u, key |-> issued + 1]
<1>1. issued' = issued + 1 /\ issued + 1 \in Ids /\ issued \in Nat
  BY Types DEF CreateServer, Ids
<1>2. server' = [server EXCEPT ![issued + 1] = new]
  BY DEF CreateServer
<1>3. new \in Server /\ new.key = issued + 1
  BY <1>1 DEF Server
<1>4. server'[issued + 1] = new /\ \A i \in Ids : i # issued + 1 => server'[i] = server[i]
  BY <1>1, <1>2, Types
<1> HIDE DEF new
<1>5. ServersKept
  BY <1>1, <1>2, <1>3, <1>4, Types DEF ServersKept, Ids
<1>6. ServersOK'
  BY <1>1, <1>3, <1>4, Types DEF RegistrationInv, ServersOK, Ids
<1> QED
  BY <1>1, <1>4, <1>5, <1>6 DEF new

-----------------------------------------------------------------------------
(* One lemma per step of register.js.                                      *)

\* A place of register.js where it holds no result.
LEMMA AtPlace ==
    ASSUME NEW pc \in RegistrarPcs
    PROVE  At(pc) \in Registrar /\ At(pc).pc = pc
BY RegistrationAssumption DEF At, Registrar

\* A run that moves to such a place is good if its request exists.
LEMMA MoveToPlace ==
    ASSUME RegistrationInv, NEW r \in Requests, NEW pc \in RegistrarPcs, Move(r, At(pc)),
           pc \notin {"deliver", "done"},
           pc \in {"poll", "ask", "expire"} => row'[r] # NoRow
    PROVE  RegistrarOK(r)'
<1>1. registrar'[r].pc = pc
  BY Types, AtPlace DEF Move
<1> QED
  BY <1>1 DEF RegistrarOK

LEMMA LosesOK ==
    ASSUME RegistrationInv, Lose \/ UNCHANGED losses
    PROVE  losses' \in 0 .. MaxLosses
BY Types DEF Lose

LEMMA createOK ==
    ASSUME RegistrationInv, NEW r \in Requests, create(r)
    PROVE  RegistrationInv'
<1>1. ServersKept /\ ServersOK' /\ UNCHANGED <<late, call>> /\ losses' \in 0 .. MaxLosses
  BY Untouched, LosesOK DEF create
<1>2. CASE OwnerEmail[r] \notin Users
  <2>1. Move(r, At("failed")) /\ RowsKept
    BY <1>2, Untouched DEF create
  <2> QED
    BY <1>1, <2>1, AtPlace, MoveToPlace, RunStep DEF RegistrarPcs
<1>3. CASE OwnerEmail[r] \in Users
  <2> DEFINE new == [status |-> "PENDING", server |-> 0, key |-> 0]
  <2>1. new \in Row /\ new.key = 0
    BY RegistrationAssumption DEF Row, Statuses
  <2>2. new # NoRow
    BY <2>1 DEF Row, NoRow, Statuses
  <2>3. row' = [row EXCEPT ![r] = new]
    BY <1>3 DEF create
  <2> HIDE DEF new
  <2>4. RowsKept /\ row'[r] # NoRow
    BY <1>3, <2>1, <2>2, <2>3, Types DEF RowsKept
  <2>5. PICK pc \in {"poll", "failed"} : Move(r, At(pc))
    BY <1>3 DEF create
  <2> QED
    BY <1>1, <2>4, <2>5, AtPlace, MoveToPlace, RunStep DEF RegistrarPcs
<1> QED
  BY <1>2, <1>3

LEMMA pollResultOK ==
    ASSUME RegistrationInv, NEW r \in Requests, pollResult(r)
    PROVE  RegistrationInv'
<1>1. /\ ServersKept /\ ServersOK' /\ RowsKept /\ UNCHANGED <<row, late, call>>
      /\ losses' \in 0 .. MaxLosses
  BY Untouched, LosesOK DEF pollResult
<1>2. row'[r] # NoRow
  BY <1>1 DEF pollResult, RegistrationInv, RegistrarOK
<1>3. PICK pc \in {"failed", "ask"} : Move(r, At(pc))
  BY DEF pollResult
<1> QED
  BY <1>1, <1>2, <1>3, AtPlace, MoveToPlace, RunStep DEF RegistrarPcs

\* The server and the key that are read are of one approval.
LEMMA getResultOK ==
    ASSUME RegistrationInv, NEW r \in Requests, getResult(r)
    PROVE  RegistrationInv'
<1>1. /\ ServersKept /\ ServersOK' /\ RowsKept /\ UNCHANGED <<row, late, server, issued, call>>
      /\ losses' \in 0 .. MaxLosses
  BY Untouched, LosesOK DEF getResult
<1>2. row[r] # NoRow /\ row[r] \in Row
  BY Types DEF getResult, RegistrationInv, RegistrarOK
<1>3. CASE \E pc \in {"expire", "poll", "failed"} : Move(r, At(pc))
  BY <1>1, <1>2, <1>3, AtPlace, MoveToPlace, RunStep DEF RegistrarPcs
<1>4. CASE /\ row[r].server # 0 /\ row[r].key # 0
           /\ Move(r, [pc |-> "deliver", server |-> row[r].server, key |-> row[r].key])
  <2> DEFINE to == [pc |-> "deliver", server |-> row[r].server, key |-> row[r].key]
  <2>1. to \in Registrar /\ to.pc = "deliver" /\ to.server = row[r].server /\ to.key = row[r].key
    BY <1>2 DEF Row, Registrar, RegistrarPcs
  <2>2. Move(r, to)
    BY <1>4
  <2> HIDE DEF to
  <2>3. registrar'[r] = to
    BY <2>2, Types DEF Move
  <2>4. /\ BelongsTo(row[r].key, r) /\ row[r].server = row[r].key
        /\ \A q \in Requests \ {r} : row[q] # NoRow => row[q].key # row[r].key
    BY <1>2, <1>4 DEF RegistrationInv, RowOK
  <2>5. RegistrarOK(r)'
    BY <1>1, <1>2, <2>1, <2>3, <2>4 DEF RegistrarOK, BelongsTo
  <2> QED
    BY <1>1, <2>1, <2>2, <2>5, RunStep
<1> QED
  BY <1>3, <1>4 DEF getResult

LEMMA ExpireResultOK ==
    ASSUME RegistrationInv, NEW r \in Requests, ExpireResult(r)
    PROVE  RegistrationInv'
<1>1. ServersKept /\ ServersOK' /\ UNCHANGED <<late, call>> /\ losses' \in 0 .. MaxLosses
  BY Untouched, LosesOK DEF ExpireResult
<1>2. row[r] # NoRow
  BY DEF ExpireResult, RegistrationInv, RegistrarOK
<1>3. RowsKept
  BY <1>2, StatusKeepsRows DEF ExpireResult, Statuses
<1> QED
  BY <1>1, <1>3, AtPlace, MoveToPlace, RunStep DEF ExpireResult, RegistrarPcs

\* The key is out of the table when the run has it.
LEMMA DeliverOK ==
    ASSUME RegistrationInv, NEW r \in Requests, Deliver(r)
    PROVE  RegistrationInv'
<1>1. /\ ServersKept /\ ServersOK' /\ UNCHANGED <<late, server, issued, call>>
      /\ losses' \in 0 .. MaxLosses
  BY Untouched, LosesOK DEF Deliver
<1>2. registrar[r].pc = "deliver" /\ row[r] # NoRow /\ row[r] \in Row
  BY Types DEF Deliver, RegistrationInv, RegistrarOK
<1>3. /\ row'[r] = [row[r] EXCEPT !.status = "CREDENTIAL_DELIVERED", !.key = 0]
      /\ \A q \in Requests \ {r} : row'[q] = row[q]
  BY <1>2, Types DEF Deliver
<1>4. row'[r] \in Row /\ row'[r].key = 0 /\ row'[r].server = row[r].server
  <2>1. PICK none \in 0 .. MaxServers : none = 0
    BY RegistrationAssumption
  <2>2. row'[r] = [row[r] EXCEPT !.status = "CREDENTIAL_DELIVERED", !.key = none]
    BY <1>3, <2>1
  <2> QED
    BY <1>2, <2>1, <2>2 DEF Row, Statuses
<1>5. row'[r] # NoRow
  BY <1>4 DEF Row, NoRow, Statuses
<1>6. row' \in [Requests -> {NoRow} \cup Row]
  <2>1. row' = [row EXCEPT ![r] = row'[r]]
    BY <1>3, Types DEF Deliver
  <2> QED
    BY <1>4, <2>1, Types
<1>7. RowsKept
  BY <1>2, <1>3, <1>4, <1>5, <1>6 DEF RowsKept
<1>8. CASE Move(r, At("failed"))
  BY <1>1, <1>7, <1>8, AtPlace, MoveToPlace, RunStep DEF RegistrarPcs
<1>9. CASE Move(r, [registrar[r] EXCEPT !.pc = "done"])
  <2> DEFINE to == [registrar[r] EXCEPT !.pc = "done"]
  <2>1. registrar[r] \in Registrar
    BY Types
  <2>2. to \in Registrar /\ to.pc = "done" /\ to.server = registrar[r].server /\ to.key = registrar[r].key
    BY <2>1 DEF Registrar, RegistrarPcs
  <2>3. Move(r, to)
    BY <1>9
  <2> HIDE DEF to
  <2>4. registrar'[r] = to
    BY <2>3, Types DEF Move
  <2>5. /\ BelongsTo(registrar[r].key, r) /\ registrar[r].server = registrar[r].key
        /\ \A q \in Requests \ {r} : row[q] # NoRow => row[q].key # registrar[r].key
    BY <1>2 DEF RegistrationInv, RegistrarOK
  <2>6. registrar[r].key # 0
    BY <2>5, Types DEF BelongsTo
  <2>7. RegistrarOK(r)'
    BY <1>1, <1>3, <1>4, <2>2, <2>4, <2>5, <2>6 DEF RegistrarOK, BelongsTo
  <2> QED
    BY <1>1, <1>7, <2>2, <2>3, <2>7, RunStep
<1> QED
  BY <1>8, <1>9 DEF Deliver

LEMMA LoseRequestOK ==
    ASSUME RegistrationInv, NEW r \in Requests, LoseRequest(r)
    PROVE  RegistrationInv'
<1>1. /\ ServersKept /\ ServersOK' /\ RowsKept /\ UNCHANGED <<late, call>>
      /\ losses' \in 0 .. MaxLosses
  BY Untouched, LosesOK DEF LoseRequest
<1> QED
  BY <1>1, AtPlace, MoveToPlace, RunStep DEF LoseRequest, RegistrarPcs

-----------------------------------------------------------------------------
(* One lemma per step of the app's side.                                   *)

\* A decision in flight, and its request.
LEMMA Deciding ==
    ASSUME RegistrationInv, NEW c \in Slots, call[c].pc # "idle"
    PROVE  call[c].req \in Requests /\ row[call[c].req] # NoRow
<1>1. call[c] # Idle
  BY DEF Idle
<1>2. call[c] \in Decision
  BY <1>1, Types
<1> QED
  BY <1>1, <1>2 DEF RegistrationInv, Decision

\* A decision that ends.
LEMMA DecisionEnds ==
    ASSUME RegistrationInv, NEW c \in Slots, call' = [call EXCEPT ![c] = Idle], RowsKept
    PROVE  /\ call' \in [Slots -> {Idle} \cup Decision]
           /\ \A d \in Slots : call'[d] # Idle => row'[call'[d].req] # NoRow
<1>1. ASSUME NEW d \in Slots, call'[d] # Idle
      PROVE  call'[d] = call[d] /\ call[d].req \in Requests /\ row[call[d].req] # NoRow
  <2>1. call'[d] = call[d] /\ call[d] \in Decision
    BY <1>1, Types
  <2> QED
    BY <1>1, <2>1 DEF RegistrationInv, Decision
<1> QED
  BY <1>1, Types DEF RowsKept

LEMMA decideOK ==
    ASSUME RegistrationInv, NEW c \in Slots, NEW r \in Requests, NEW user, NEW approve,
           decide(c, r, user, approve)
    PROVE  RegistrationInv'
<1>1. /\ ServersKept /\ ServersOK' /\ RowsKept
      /\ UNCHANGED <<row, registrar, losses>> /\ late' \in [Requests -> BOOLEAN]
  BY Untouched, Types DEF decide
<1>2. row[r] # NoRow
  BY DEF decide, NoRow
<1>3. PICK pc \in {"expire", "reject", "approve"} :
          call' = [call EXCEPT ![c] = [pc |-> pc, req |-> r]]
  BY DEF decide
<1>4. [pc |-> pc, req |-> r] \in Decision
  BY DEF Decision
<1>5. call' \in [Slots -> {Idle} \cup Decision]
  BY <1>3, <1>4, Types
<1>6. \A d \in Slots : call'[d] # Idle => row'[call'[d].req] # NoRow
  BY <1>1, <1>2, <1>3, Types DEF RegistrationInv
<1> QED
  BY <1>1, <1>5, <1>6, AppStep

LEMMA DecideStatusOK ==
    ASSUME RegistrationInv, NEW c \in Slots, DecideExpire(c) \/ DecideReject(c)
    PROVE  RegistrationInv'
<1>1. ServersKept /\ ServersOK' /\ UNCHANGED <<registrar, losses>> /\ late' \in [Requests -> BOOLEAN]
  BY Untouched, Types DEF DecideExpire, DecideReject
<1>2. call[c].req \in Requests /\ row[call[c].req] # NoRow
  BY Deciding DEF DecideExpire, DecideReject
<1>3. RowsKept
  BY <1>2, StatusKeepsRows DEF DecideExpire, DecideReject, Statuses
<1> QED
  BY <1>1, <1>3, DecisionEnds, AppStep DEF DecideExpire, DecideReject

LEMMA findPendingOK ==
    ASSUME RegistrationInv, findPendingForOwner
    PROVE  RegistrationInv'
<1>1. /\ ServersKept /\ ServersOK' /\ UNCHANGED <<registrar, losses, call>>
      /\ late' \in [Requests -> BOOLEAN]
  BY Untouched, Types DEF findPendingForOwner
<1>2. ASSUME NEW r \in Requests
      PROVE  \/ row'[r] = row[r]
             \/ /\ row[r] # NoRow /\ row'[r] \in Row /\ row'[r] # NoRow
                /\ row'[r].key = row[r].key /\ row'[r].server = row[r].server
  <2>1. CASE ~NeedsExpiry(r)
    BY <2>1 DEF findPendingForOwner
  <2>2. CASE NeedsExpiry(r)
    <3>1. row[r] # NoRow /\ row[r] \in Row
      BY <2>2, Types DEF NeedsExpiry, NoRow
    <3>2. row'[r] = [row[r] EXCEPT !.status = "EXPIRED"]
      BY <2>2 DEF findPendingForOwner
    <3>3. row'[r] \in Row /\ row'[r].key = row[r].key /\ row'[r].server = row[r].server
      BY <3>1, <3>2 DEF Row, Statuses
    <3>4. row'[r] # NoRow
      BY <3>3 DEF Row, NoRow, Statuses
    <3> QED
      BY <3>1, <3>3, <3>4
  <2> QED
    BY <2>1, <2>2
<1>3. row' \in [Requests -> {NoRow} \cup Row]
  <2>1. row' = [r \in Requests |-> row'[r]]
    BY DEF findPendingForOwner
  <2> QED
    BY <1>2, <2>1, Types
<1>4. RowsKept
  BY <1>2, <1>3 DEF RowsKept
<1>5. \A c \in Slots : call'[c] # Idle => row'[call'[c].req] # NoRow
  BY <1>1, <1>4, Types DEF RegistrationInv, RowsKept, Decision
<1> QED
  BY <1>1, <1>4, <1>5, Types, AppStep

LEMMA AddServerOK ==
    ASSUME RegistrationInv, NEW u \in Users, AddServer(u)
    PROVE  RegistrationInv'
<1>1. /\ ServersKept /\ ServersOK' /\ RowsKept /\ UNCHANGED <<row, registrar, losses, call>>
      /\ late' \in [Requests -> BOOLEAN]
  BY Untouched, CreateKeepsServers, Types DEF AddServer
<1>2. \A c \in Slots : call'[c] # Idle => row'[call'[c].req] # NoRow
  BY <1>1 DEF RegistrationInv
<1> QED
  BY <1>1, <1>2, Types, AppStep

LEMMA RemoveServerOK ==
    ASSUME RegistrationInv, NEW i \in Ids, RemoveServer(i)
    PROVE  RegistrationInv'
<1>1. UNCHANGED <<issued, registrar, losses, call>> /\ late' \in [Requests -> BOOLEAN]
  BY Types DEF RemoveServer
<1>2. /\ server' \in [Ids -> {NoServer} \cup Server]
      /\ \A j \in Ids : server'[j] \in {server[j], NoServer}
  BY Types DEF RemoveServer
<1>3. ServersKept /\ ServersOK'
  BY <1>1, <1>2, Types DEF ServersKept, ServersOK, RegistrationInv, Ids
<1>4. ASSUME NEW r \in Requests
      PROVE  \/ row'[r] = row[r]
             \/ /\ row[r] # NoRow /\ row'[r] \in Row /\ row'[r] # NoRow
                /\ row'[r].key = row[r].key /\ row'[r].server = 0
  <2>1. CASE ~(row[r] # NoRow /\ row[r].server = i)
    BY <2>1 DEF RemoveServer
  <2>2. CASE row[r] # NoRow /\ row[r].server = i
    <3>1. row[r] \in Row
      BY <2>2, Types
    <3>2. row'[r] = [row[r] EXCEPT !.server = 0]
      BY <2>2 DEF RemoveServer
    <3>3. row'[r] \in Row /\ row'[r].key = row[r].key /\ row'[r].server = 0
      BY <3>1, <3>2, RegistrationAssumption DEF Row
    <3>4. row'[r] # NoRow
      BY <3>3 DEF Row, NoRow, Statuses
    <3> QED
      BY <2>2, <3>3, <3>4
  <2> QED
    BY <2>1, <2>2
<1>5. row' \in [Requests -> {NoRow} \cup Row]
  <2>1. row' = [r \in Requests |-> row'[r]]
    BY DEF RemoveServer
  <2> QED
    BY <1>4, <2>1, Types
<1>6. RowsKept
  BY <1>4, <1>5 DEF RowsKept
<1>7. \A c \in Slots : call'[c] # Idle => row'[call'[c].req] # NoRow
  BY <1>1, <1>6, Types DEF RegistrationInv, RowsKept, Decision
<1> QED
  BY <1>1, <1>3, <1>6, <1>7, Types, AppStep

LEMMA ExpireOK ==
    ASSUME RegistrationInv, NEW r \in Requests, Expire(r)
    PROVE  RegistrationInv'
<1>1. /\ ServersKept /\ ServersOK' /\ RowsKept /\ UNCHANGED <<row, registrar, losses, call>>
      /\ late' \in [Requests -> BOOLEAN]
  BY Untouched, Types DEF Expire
<1>2. \A c \in Slots : call'[c] # Idle => row'[call'[c].req] # NoRow
  BY <1>1 DEF RegistrationInv
<1> QED
  BY <1>1, <1>2, Types, AppStep

\* The key of an approval is new: no request and no run holds it yet, and a
\* run that has read an earlier one keeps a good credential.
LEMMA DecideApproveOK ==
    ASSUME RegistrationInv, NEW c \in Slots, DecideApprove(c)
    PROVE  RegistrationInv'
<1>1. PICK r \in Requests : r = call[c].req /\ row[r] # NoRow /\ OwnerEmail[r] \in Users
  BY Deciding DEF DecideApprove, RegistrationInv, RowOK
<1>2. /\ ServersKept /\ ServersOK'
      /\ issued' = issued + 1 /\ issued' \in Ids
      /\ server'[issued'] = [owner |-> OwnerEmail[r], key |-> issued']
  BY <1>1, CreateKeepsServers DEF DecideApprove
<1>3. PICK new \in Ids : new = issued' /\ new = issued + 1 /\ issued \in Nat
  BY <1>2, Types
<1> DEFINE approved == [status |-> "APPROVED", server |-> new, key |-> new]
<1>4. approved \in Row /\ approved.key = new /\ approved.server = new
  BY RegistrationAssumption DEF Row, Statuses, Ids
<1>5. approved # NoRow
  BY <1>4 DEF Row, NoRow, Statuses
<1>6. row' = [row EXCEPT ![r] = approved]
  BY <1>1, <1>3 DEF DecideApprove
<1> HIDE DEF approved
<1>7. /\ row' \in [Requests -> {NoRow} \cup Row] /\ row'[r] = approved
      /\ \A q \in Requests \ {r} : row'[q] = row[q]
  BY <1>4, <1>6, Types
<1>8. /\ UNCHANGED <<late, registrar, losses>>
      /\ call' = [call EXCEPT ![c] = Idle]
  BY DEF DecideApprove
<1>9. \A d \in Slots : call'[d] # Idle => call'[d] = call[d] /\ call[d] # Idle
  BY <1>8, Types
<1>10. \A d \in Slots : call'[d] # Idle => row'[call'[d].req] # NoRow
  <2> TAKE d \in Slots
  <2>1. call[d] # Idle => call[d].req \in Requests /\ row[call[d].req] # NoRow
    BY Types DEF RegistrationInv, Decision
  <2> QED
    BY <1>5, <1>7, <1>9, <2>1
<1>11. RegistrationTypeOK'
  BY <1>2, <1>7, <1>8, Types DEF RegistrationTypeOK, ServersKept
<1>12. \A q \in Requests : row[q] # NoRow => row[q].key # new
  BY <1>3, Types DEF RegistrationInv, RowOK, BelongsTo
<1>13. BelongsTo(new, r)'
  BY <1>2, <1>3, Types DEF BelongsTo
<1>14. ASSUME NEW q \in Requests PROVE RowOK(q)'
  <2>1. CASE q = r
    BY <1>1, <1>4, <1>7, <1>12, <1>13, <2>1 DEF RowOK, BelongsTo
  <2>2. CASE q # r
    <3> SUFFICES ASSUME row[q] # NoRow PROVE RowOK(q)'
      BY <1>7, <2>2 DEF RowOK
    <3>1. RowOK(q) /\ row'[q] = row[q]
      BY <1>7, <2>2 DEF RegistrationInv
    <3>2. PICK k : k = row[q].key
      OBVIOUS
    <3>3. k # 0 => BelongsTo(k, q)'
      BY <3>1, <3>2, <1>2, BelongsKept DEF RowOK
    <3>4. \A p \in Requests \ {q} : k # 0 /\ row'[p] # NoRow => row'[p].key # k
      BY <1>4, <1>7, <1>12, <3>1, <3>2 DEF RowOK
    <3> QED
      BY <3>1, <3>2, <3>3, <3>4 DEF RowOK, BelongsTo
  <2> QED
    BY <2>1, <2>2
<1>15. ASSUME NEW q \in Requests PROVE RegistrarOK(q)'
  <2>1. RegistrarOK(q)
    BY DEF RegistrationInv
  <2>2. registrar[q].pc \in {"poll", "ask", "expire", "deliver"} => row'[q] # NoRow
    BY <1>5, <1>7, <2>1 DEF RegistrarOK
  <2>3. ASSUME registrar[q].pc \in {"deliver", "done"}
        PROVE  /\ BelongsTo(registrar[q].key, q)'
               /\ \A p \in Requests : (row'[p] # NoRow /\ row'[p].key = registrar[q].key)
                     => registrar[q].pc = "deliver" /\ p = q
    <3>1. PICK k : k = registrar[q].key
      OBVIOUS
    <3>2. BelongsTo(k, q)
      BY <2>1, <2>3, <3>1 DEF RegistrarOK
    <3>3. BelongsTo(k, q)' /\ k # new
      BY <1>2, <1>3, <3>2, BelongsKept DEF BelongsTo
    <3> QED
      BY <1>4, <1>7, <1>8, <2>1, <2>3, <3>1, <3>3 DEF RegistrarOK, BelongsTo
  <2> QED
    BY <1>8, <2>1, <2>2, <2>3 DEF RegistrarOK
<1> QED
  BY <1>2, <1>10, <1>11, <1>14, <1>15 DEF RegistrationInv

-----------------------------------------------------------------------------
(* The theorems.                                                           *)

\* Every step keeps the invariant.
LEMMA RegistrationNextOK ==
    ASSUME RegistrationInv, [RegistrationNext]_regVars
    PROVE  RegistrationInv'
<1>1. ASSUME NEW r \in Requests, Register(r) \/ LoseRequest(r) \/ Expire(r)
      PROVE  RegistrationInv'
  BY <1>1, createOK, pollResultOK, getResultOK, ExpireResultOK, DeliverOK, LoseRequestOK,
     ExpireOK DEF Register
<1>2. ASSUME NEW c \in Slots, DecideStep(c)
      PROVE  RegistrationInv'
  BY <1>2, DecideStatusOK, DecideApproveOK DEF DecideStep
<1>3. CASE UNCHANGED regVars
  <2>1. UNCHANGED <<row, late, server, issued, registrar, call, losses>>
    BY <1>3 DEF regVars
  <2> QED
    BY <2>1, Untouched, Types, AppStep DEF RegistrationInv
<1> QED
  BY <1>1, <1>2, <1>3, decideOK, findPendingOK, AddServerOK, RemoveServerOK
     DEF RegistrationNext

\* It holds at the start.
LEMMA RegistrationInitOK ==
    ASSUME RegistrationInit
    PROVE  RegistrationInv
<1>1. At("start") \in Registrar /\ At("start").pc = "start"
  BY AtPlace DEF RegistrarPcs
<1>2. RegistrationTypeOK
  BY <1>1, RegistrationAssumption DEF RegistrationInit, RegistrationTypeOK
<1>3. ServersOK /\ \A r \in Requests : RowOK(r) /\ RegistrarOK(r)
  BY <1>1 DEF RegistrationInit, ServersOK, RowOK, RegistrarOK
<1> QED
  BY <1>2, <1>3 DEF RegistrationInit, RegistrationInv

\* It says that credentials match, and are handed out once.
LEMMA InvMatches ==
    ASSUME RegistrationInv
    PROVE  CredentialMatchesServer
<1> SUFFICES ASSUME NEW r \in Requests, registrar[r].pc = "done"
             PROVE  /\ registrar[r].server \in 1 .. issued
                    /\ server[registrar[r].server] # NoServer =>
                          server[registrar[r].server] =
                              [owner |-> OwnerEmail[r], key |-> registrar[r].key]
  BY DEF CredentialMatchesServer
<1>1. PICK k : k = registrar[r].key /\ k = registrar[r].server /\ BelongsTo(k, r)
  BY DEF RegistrationInv, RegistrarOK
<1>2. k \in Ids
  BY <1>1, Types DEF BelongsTo, Ids
<1>3. server[k] # NoServer =>
          /\ server[k] \in Server /\ server[k].key = k /\ server[k].owner = OwnerEmail[r]
  BY <1>1, <1>2, Types DEF BelongsTo, RegistrationInv, ServersOK
<1> QED
  BY <1>1, <1>3 DEF BelongsTo, Server

\* The second half.
LEMMA InvHandsOnce ==
    ASSUME RegistrationInv
    PROVE  CredentialHandedOnce
BY DEF RegistrationInv, RegistrarOK, CredentialHandedOnce

\* What polls and decisions in flight know of the tables holds in every state,
\* whatever the users decide, remove or leave to expire.
THEOREM RegistrationInvariance == RegistrationSpec => []RegistrationInv
<1>1. RegistrationInv /\ [RegistrationNext]_regVars => RegistrationInv'
  BY RegistrationNextOK
<1> QED
  BY <1>1, RegistrationInitOK, PTL DEF RegistrationSpec

\* The tables and the locals of the handlers keep their types.
THEOREM RegistrationTypeCorrect == RegistrationSpec => []RegistrationTypeOK
<1>1. RegistrationInv => RegistrationTypeOK
  BY DEF RegistrationInv
<1> QED
  BY <1>1, RegistrationInvariance, PTL

\* SERVER_ID and API_KEY of a machine's .env are of one server, and that is a
\* server of the user the machine named.
THEOREM CredentialsMatch == RegistrationSpec => []CredentialMatchesServer
BY InvMatches, RegistrationInvariance, PTL

\* No later poll, of any machine, can get a key that was handed out.
THEOREM CredentialsHandedOnce == RegistrationSpec => []CredentialHandedOnce
BY InvHandsOnce, RegistrationInvariance, PTL

=============================================================================
