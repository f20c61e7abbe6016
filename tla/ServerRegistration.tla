-------------------------- MODULE ServerRegistration --------------------------
(***************************************************************************)
(* Server onboarding: register.js on a new machine creates a registration  *)
(* request in the Hub (ServerRegistrationsService) and polls for its       *)
(* result; the user approves or rejects it from the mobile app, maybe from *)
(* two devices at once; the API key is handed out once.  ServersService    *)
(* adds servers without a request and removes them.                        *)
(*                                                                         *)
(* The Hub runs a handler from one await to the next.  A decision's read   *)
(* and write are two steps; the transaction that creates the server and    *)
(* marks the request is one.                                               *)
(***************************************************************************)
EXTENDS Naturals

CONSTANTS
    Users,       \* accounts of the Hub
    Requests,    \* runs of register.js, each creates at most one request
    OwnerEmail,  \* the approver a run names; need not be a user
    Slots,       \* decisions that may be in flight at once
    MaxServers,  \* bound on the Server rows ever created
    MaxLosses    \* bound on requests or responses of register.js that get lost

ASSUME RegistrationAssumption == MaxServers \in Nat /\ MaxLosses \in Nat

VARIABLES
    row,       \* table server_registration_requests; server and key are 0
               \* for null, key stands for the three ciphertext columns
    late,      \* whether the clock has passed the request's expiresAt
    server,    \* table servers: owner and API key of the ids issued so far
    issued,    \* ids and API keys issued so far
    registrar, \* register.js: where it is, and the result it works with
    call,      \* decisions in flight
    losses

regVars == <<row, late, server, issued, registrar, call, losses>>

Ids == 1 .. MaxServers
Statuses == {"PENDING", "APPROVED", "REJECTED", "EXPIRED", "CREDENTIAL_DELIVERED"}
NoRow == [status |-> "NONE"]
Row == [status : Statuses, server : 0 .. MaxServers, key : 0 .. MaxServers]
NoServer == [key |-> 0]
Server == [owner : Users, key : Ids]
RegistrarPcs == {"start", "poll", "ask", "expire", "deliver", "done", "failed"}
Registrar == [pc : RegistrarPcs, server : 0 .. MaxServers, key : 0 .. MaxServers]
Idle == [pc |-> "idle"]
Decision == [pc : {"expire", "reject", "approve"}, req : Requests]

RegistrationTypeOK ==
    /\ row \in [Requests -> {NoRow} \cup Row]
    /\ late \in [Requests -> BOOLEAN]
    /\ server \in [Ids -> {NoServer} \cup Server]
    /\ issued \in 0 .. MaxServers
    /\ registrar \in [Requests -> Registrar]
    /\ call \in [Slots -> {Idle} \cup Decision]
    /\ losses \in 0 .. MaxLosses

At(pc) == [pc |-> pc, server |-> 0, key |-> 0]

RegistrationInit ==
    /\ row = [r \in Requests |-> NoRow]
    /\ late = [r \in Requests |-> FALSE]
    /\ server = [i \in Ids |-> NoServer]
    /\ issued = 0
    /\ registrar = [r \in Requests |-> At("start")]
    /\ call = [c \in Slots |-> Idle]
    /\ losses = 0

-----------------------------------------------------------------------------
SetStatus(r, status) == row' = [row EXCEPT ![r].status = status]
Move(r, to) == registrar' = [registrar EXCEPT ![r] = to]
Lose == losses < MaxLosses /\ losses' = losses + 1

\* The request is past its expiresAt and not yet marked: expireIfNeeded.
NeedsExpiry(r) == row[r].status = "PENDING" /\ late[r]

\* The API key is generated, the server row created with a fresh id.
CreateServer(owner) ==
    /\ issued < MaxServers
    /\ issued' = issued + 1
    /\ server' = [server EXCEPT ![issued + 1] = [owner |-> owner, key |-> issued + 1]]

-----------------------------------------------------------------------------
(* register.js, together with the handlers of the Hub it waits for.        *)

\* createRequest.  An unknown email is answered 404; the response may be lost
\* after the row was created.  Either ends the run.
create(r) ==
    /\ registrar[r].pc = "start"
    /\ \/ /\ OwnerEmail[r] \notin Users
          /\ Move(r, At("failed"))
          /\ UNCHANGED <<row, losses>>
       \/ /\ OwnerEmail[r] \in Users
          /\ row' = [row EXCEPT ![r] = [status |-> "PENDING", server |-> 0, key |-> 0]]
          /\ \/ Move(r, At("poll")) /\ UNCHANGED losses
             \/ Lose /\ Move(r, At("failed"))
    /\ UNCHANGED <<late, server, issued, call>>

\* Mutant: the loop does not look at expiresAt.
pollResult_Forever(r) ==
    /\ registrar[r].pc = "poll"
    /\ Move(r, At("ask"))
    /\ UNCHANGED <<row, late, server, issued, call, losses>>

\* The loop of pollResult: give up once the request has expired, else ask.
pollResult(r) ==
    /\ registrar[r].pc = "poll"
    /\ Move(r, At(IF late[r] THEN "failed" ELSE "ask"))
    /\ UNCHANGED <<row, late, server, issued, call, losses>>

\* getResult reads the request; what it hands out is what it has read here.
getResult(r) ==
    LET q == row[r]
        deliverable == q.status = "APPROVED" /\ q.server # 0 /\ q.key # 0
    IN /\ registrar[r].pc = "ask"
       /\ \/ NeedsExpiry(r) /\ Move(r, At("expire"))
          \/ /\ deliverable
             /\ Move(r, [pc |-> "deliver", server |-> q.server, key |-> q.key])
          \/ /\ ~NeedsExpiry(r) /\ ~deliverable
             /\ Move(r, At(IF q.status \in {"PENDING", "APPROVED"} THEN "poll"
                                                                   ELSE "failed"))
       /\ UNCHANGED <<row, late, server, issued, call, losses>>

\* expireIfNeeded writes EXPIRED over whatever the status is by now.
ExpireResult(r) ==
    /\ registrar[r].pc = "expire"
    /\ SetStatus(r, "EXPIRED")
    /\ Move(r, At("failed"))
    /\ UNCHANGED <<late, server, issued, call, losses>>

\* Mutant: the key stays in the row after it was handed out.
Deliver_KeepsKey(r) ==
    /\ registrar[r].pc = "deliver"
    /\ SetStatus(r, "CREDENTIAL_DELIVERED")
    /\ Move(r, [registrar[r] EXCEPT !.pc = "done"])
    /\ UNCHANGED <<late, server, issued, call, losses>>

\* The key is wiped from the row before it is sent; the run ends with the
\* credential in its .env, or without one if the response is lost.
Deliver(r) ==
    /\ registrar[r].pc = "deliver"
    /\ row' = [row EXCEPT ![r].status = "CREDENTIAL_DELIVERED", ![r].key = 0]
    /\ \/ Move(r, [registrar[r] EXCEPT !.pc = "done"]) /\ UNCHANGED losses
       \/ Lose /\ Move(r, At("failed"))
    /\ UNCHANGED <<late, server, issued, call>>

\* fetch fails before the Hub sees the request: the run ends.
LoseRequest(r) ==
    /\ registrar[r].pc = "ask"
    /\ Lose
    /\ Move(r, At("failed"))
    /\ UNCHANGED <<row, late, server, issued, call>>

-----------------------------------------------------------------------------
(* The app's side.                                                         *)

\* decide reads the request: only its owner may, only while it is PENDING.
decide(c, r, user, approve) ==
    /\ call[c] = Idle
    /\ user = OwnerEmail[r]
    /\ row[r].status = "PENDING"
    /\ call' = [call EXCEPT ![c] =
          [pc |-> IF NeedsExpiry(r) THEN "expire"
                  ELSE IF approve THEN "approve" ELSE "reject", req |-> r]]
    /\ UNCHANGED <<row, late, server, issued, registrar, losses>>

DecideExpire(c) ==
    /\ call[c].pc = "expire"
    /\ SetStatus(call[c].req, "EXPIRED")
    /\ call' = [call EXCEPT ![c] = Idle]
    /\ UNCHANGED <<late, server, issued, registrar, losses>>

\* Mutant: the row is replaced instead of updated.
DecideReject_Replaced(c) ==
    /\ call[c].pc = "reject"
    /\ row' = [row EXCEPT ![call[c].req] = [status |-> "REJECTED"]]
    /\ call' = [call EXCEPT ![c] = Idle]
    /\ UNCHANGED <<late, server, issued, registrar, losses>>

DecideReject(c) ==
    /\ call[c].pc = "reject"
    /\ SetStatus(call[c].req, "REJECTED")
    /\ call' = [call EXCEPT ![c] = Idle]
    /\ UNCHANGED <<late, server, issued, registrar, losses>>

\* Mutant: a request that already has a server keeps it but gets the new key.
DecideApprove_Mixed(c) ==
    LET q == row[call[c].req]
    IN /\ call[c].pc = "approve"
       /\ CreateServer(OwnerEmail[call[c].req])
       /\ row' = [row EXCEPT ![call[c].req] =
             [status |-> "APPROVED", key |-> issued',
              server |-> IF q.server # 0 THEN q.server ELSE issued']]
       /\ call' = [call EXCEPT ![c] = Idle]
       /\ UNCHANGED <<late, registrar, losses>>

\* The transaction: the server and its key, and the request that names both.
DecideApprove(c) ==
    /\ call[c].pc = "approve"
    /\ CreateServer(OwnerEmail[call[c].req])
    /\ row' = [row EXCEPT ![call[c].req] =
          [status |-> "APPROVED", server |-> issued', key |-> issued']]
    /\ call' = [call EXCEPT ![c] = Idle]
    /\ UNCHANGED <<late, registrar, losses>>

\* findPendingForOwner first marks every request that has expired.
findPendingForOwner ==
    /\ \E r \in Requests : NeedsExpiry(r)
    /\ row' = [r \in Requests |->
          IF NeedsExpiry(r) THEN [row[r] EXCEPT !.status = "EXPIRED"] ELSE row[r]]
    /\ UNCHANGED <<late, server, issued, registrar, call, losses>>

\* ServersService: a server added by hand, and a server removed, which sets
\* the serverId of its request to null.
AddServer(user) ==
    /\ CreateServer(user)
    /\ UNCHANGED <<row, late, registrar, call, losses>>

RemoveServer(i) ==
    /\ server[i] # NoServer
    /\ server' = [server EXCEPT ![i] = NoServer]
    /\ row' = [r \in Requests |->
          IF row[r] # NoRow /\ row[r].server = i THEN [row[r] EXCEPT !.server = 0]
                                                 ELSE row[r]]
    /\ UNCHANGED <<late, issued, registrar, call, losses>>

\* REQUEST_TTL_MS passes.
Expire(r) ==
    /\ row[r] # NoRow
    /\ ~late[r]
    /\ late' = [late EXCEPT ![r] = TRUE]
    /\ UNCHANGED <<row, server, issued, registrar, call, losses>>

-----------------------------------------------------------------------------
Register(r) ==
    create(r) \/ pollResult(r) \/ getResult(r) \/ ExpireResult(r) \/ Deliver(r)

DecideStep(c) == DecideExpire(c) \/ DecideReject(c) \/ DecideApprove(c)

RegistrationNext ==
    \/ \E r \in Requests : Register(r) \/ LoseRequest(r) \/ Expire(r)
    \/ \E c \in Slots, r \in Requests, u \in Users, approve \in BOOLEAN :
          decide(c, r, u, approve)
    \/ \E c \in Slots : DecideStep(c)
    \/ findPendingForOwner
    \/ \E u \in Users : AddServer(u)
    \/ \E i \in Ids : RemoveServer(i)

RegistrationSpec == RegistrationInit /\ [][RegistrationNext]_regVars

\* register.js keeps polling, the Hub answers, and the clock runs.  Nothing is
\* assumed of the user.
FairRegistration ==
    /\ RegistrationSpec
    /\ \A r \in Requests : WF_regVars(Register(r)) /\ WF_regVars(Expire(r))

-----------------------------------------------------------------------------
(* Properties.                                                             *)

\* The credential register.js writes into .env is good: SERVER_ID and API_KEY
\* are of one server, and that server belongs to the user the run named, as
\* long as it is not removed - however decisions, expiry and removal of
\* servers interleave with the poll that reads it.
CredentialMatchesServer ==
    \A r \in Requests :
        registrar[r].pc = "done" =>
            LET i == registrar[r].server
            IN /\ i \in 1 .. issued
               /\ server[i] # NoServer =>
                     server[i] = [owner |-> OwnerEmail[r], key |-> registrar[r].key]

\* A credential is handed out once: when a machine has its key, no request in
\* the table holds that key any more, so no later poll can get it.
CredentialHandedOnce ==
    \A r, q \in Requests :
        (registrar[r].pc = "done" /\ row[q] # NoRow) => row[q].key # registrar[r].key

\* register.js ends: with a credential, or with an error at the latest when
\* its request expires.
RegistrationEnds ==
    \A r \in Requests : <>(registrar[r].pc \in {"done", "failed"})

-----------------------------------------------------------------------------
(* The inductive invariant behind CredentialMatchesServer and               *)
(* CredentialHandedOnce; module ServerRegistrationProofs has the proofs.    *)

\* An id in use was issued, and is the key of its server.
ServersOK == \A i \in Ids : server[i] # NoServer => i <= issued /\ server[i].key = i

\* Key k was issued to the user that run r names, unless its server is gone.
BelongsTo(k, r) ==
    k \in 1 .. issued /\ (server[k] # NoServer => server[k].owner = OwnerEmail[r])

\* A request names an existing user; the server and the key it holds belong
\* to that user and are of one approval, and no other request holds the key.
RowOK(r) ==
    row[r] # NoRow =>
        /\ OwnerEmail[r] \in Users
        /\ row[r].key # 0 =>
              /\ BelongsTo(row[r].key, r)
              /\ row[r].server \in {0, row[r].key}
              /\ \A q \in Requests \ {r} : row[q] # NoRow => row[q].key # row[r].key

\* What getResult has read stays good until the response is sent and after,
\* and only the run's own request may still hold the key, until it is wiped.
RegistrarOK(r) ==
    /\ registrar[r].pc \in {"poll", "ask", "expire", "deliver"} => row[r] # NoRow
    /\ registrar[r].pc \in {"deliver", "done"} =>
          /\ registrar[r].server = registrar[r].key
          /\ BelongsTo(registrar[r].key, r)
          /\ \A q \in Requests :
                (row[q] # NoRow /\ row[q].key = registrar[r].key)
                    => registrar[r].pc = "deliver" /\ q = r

\* All of it: what the polls and decisions in flight know of the tables.
RegistrationInv ==
    /\ RegistrationTypeOK
    /\ ServersOK
    /\ \A r \in Requests : RowOK(r) /\ RegistrarOK(r)
    /\ \A c \in Slots : call[c] # Idle => row[call[c].req] # NoRow

=============================================================================
