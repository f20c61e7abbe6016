------------------------- MODULE ServerPresenceProofs -------------------------
(***************************************************************************)
(* Proofs about ServerPresence: what a server's status says of its         *)
(* sockets, for any number of machines, connections and updates under way, *)
(* that the registrations stay sound when the Hub crashes, and that .env   *)
(* holds the credential of its run, whatever was in it before.             *)
(***************************************************************************)
EXTENDS ServerPresence, ServerRegistrationProofs, SequenceTheorems, WellFoundedInduction

-----------------------------------------------------------------------------
(* The registrations.                                                      *)

\* A step of a registration creates servers with new ids only.
LEMMA NewServers ==
    ASSUME RegistrationInv, RegistrationNext
    PROVE  /\ issued' \in Nat /\ issued' >= issued
           /\ \A i \in Ids : server'[i] # NoServer => server[i] # NoServer \/ i > issued
<1>1. CASE UNCHANGED <<server, issued>>
  BY <1>1, Types
<1>2. ASSUME NEW u, CreateServer(u)
      PROVE  /\ issued' \in Nat /\ issued' >= issued
             /\ \A i \in Ids : server'[i] # NoServer => server[i] # NoServer \/ i > issued
  <2>1. issued' = issued + 1
    BY <1>2 DEF CreateServer
  <2>2. \A i \in Ids : i # issued + 1 => server'[i] = server[i]
    BY <1>2, Types DEF CreateServer
  <2> QED
    BY <2>1, <2>2, Types
<1>3. ASSUME NEW i \in Ids, RemoveServer(i)
      PROVE  /\ issued' \in Nat /\ issued' >= issued
             /\ \A j \in Ids : server'[j] # NoServer => server[j] # NoServer \/ j > issued
  BY <1>3, Types DEF RemoveServer
<1>4. ASSUME NEW r \in Requests, Register(r) \/ LoseRequest(r) \/ Expire(r)
      PROVE  UNCHANGED <<server, issued>>
  BY <1>4 DEF Register, create, pollResult, getResult, ExpireResult, Deliver, LoseRequest, Expire
<1>5. ASSUME NEW c \in Slots, DecideStep(c)
      PROVE  UNCHANGED <<server, issued>> \/ \E u : CreateServer(u)
  BY <1>5 DEF DecideStep, DecideExpire, DecideReject, DecideApprove
<1>6. ASSUME NEW u \in Users, AddServer(u)
      PROVE  CreateServer(u)
  BY <1>6 DEF AddServer
<1>7. ASSUME NEW c \in Slots, NEW r \in Requests, NEW u \in Users, NEW approve \in BOOLEAN,
             decide(c, r, u, approve)
      PROVE  UNCHANGED <<server, issued>>
  BY <1>7 DEF decide
<1>8. CASE findPendingForOwner
  BY <1>1, <1>8 DEF findPendingForOwner
<1> QED
  BY <1>1, <1>2, <1>3, <1>4, <1>5, <1>6, <1>7, <1>8 DEF RegistrationNext

\* A crash of the Hub ends decisions and polls, and leaves the tables alone.
LEMMA CrashKeepsRegistrations ==
    ASSUME RegistrationInv, HubCrash
    PROVE  RegistrationInv'
<1>1. /\ UNCHANGED <<row, late, server, issued, losses>>
      /\ call' = [c \in Slots |-> Idle]
      /\ registrar' = [r \in Requests |->
            IF registrar[r].pc \in {"ask", "expire", "deliver"} THEN At("failed")
                                                                ELSE registrar[r]]
  BY DEF HubCrash
<1>2. At("failed") \in Registrar /\ At("failed").pc = "failed"
  BY AtPlace DEF RegistrarPcs
<1>3. registrar' \in [Requests -> Registrar] /\ call' \in [Slots -> {Idle} \cup Decision]
  BY <1>1, <1>2, Types
<1>4. RegistrationTypeOK'
  BY <1>1, <1>3, Types DEF RegistrationTypeOK
<1>5. \A r \in Requests : registrar'[r] = registrar[r] \/ registrar'[r].pc = "failed"
  BY <1>1, <1>2
<1>6. \A k, r : BelongsTo(k, r) => BelongsTo(k, r)'
  BY <1>1 DEF BelongsTo
<1>7. ASSUME NEW r \in Requests
      PROVE  RowOK(r)' /\ RegistrarOK(r)'
  BY <1>1, <1>5, <1>6 DEF RegistrationInv, RowOK, RegistrarOK
<1>8. ServersOK'
  BY <1>1 DEF RegistrationInv, ServersOK
<1>9. \A c \in Slots : call'[c] = Idle
  BY <1>1
<1> QED
  BY <1>4, <1>7, <1>8, <1>9 DEF RegistrationInv

\* A step that leaves the registrations alone.
LEMMA RegistrationsUntouched ==
    ASSUME RegistrationInv, UNCHANGED regVars
    PROVE  RegistrationInv'
BY RegistrationNextOK

-----------------------------------------------------------------------------
(* The sockets.                                                            *)

\* A sequence with one more element.
LEMMA AppendOne ==
    ASSUME NEW S, NEW q \in Seq(S), NEW e \in S
    PROVE  /\ Len(q) \in Nat /\ DOMAIN q = 1 .. Len(q)
           /\ DOMAIN Append(q, e) = 1 .. Len(q) + 1
           /\ Append(q, e)[Len(q) + 1] = e
           /\ \A j \in 1 .. Len(q) : Append(q, e)[j] = q[j]
           /\ Append(q, e) = [j \in 1 .. Len(q) + 1 |-> Append(q, e)[j]]
<1>1. Append(q, e) \in Seq(S) /\ Len(Append(q, e)) = Len(q) + 1
  OBVIOUS
<1>2. Append(q, e) \in [1 .. Len(q) + 1 -> S]
  BY <1>1, LenProperties
<1>3. /\ Len(q) \in Nat /\ DOMAIN q = 1 .. Len(q)
      /\ Append(q, e)[Len(q) + 1] = e
      /\ \A j \in 1 .. Len(q) : Append(q, e)[j] = q[j]
  OBVIOUS
<1>4. Append(q, e) = [j \in 1 .. Len(q) + 1 |-> Append(q, e)[j]]
  BY <1>2, Zenon
<1> QED
  BY <1>2, <1>3, <1>4

\* The fields of a socket, and a socket with other values in them.
Fields == {"machine", "key", "server", "lookup", "wire", "gone", "room", "beat", "off"}

\* Every socket has these fields.
LEMMA FieldsOf ==
    ASSUME NEW x, SocketTypeOK(x)
    PROVE  /\ x = [f \in Fields |-> x[f]]
           /\ {x.lookup, x.wire, x.gone, x.room, x.beat, x.off} \subseteq BOOLEAN
<1>1. DOMAIN x = Fields
  BY DEF SocketTypeOK, Fields
<1> QED
  BY <1>1 DEF SocketTypeOK

\* And what has these fields is a socket.
LEMMA Retyped ==
    ASSUME NEW s, s = [f \in Fields |-> s[f]],
           {s.lookup, s.wire, s.gone, s.room, s.beat, s.off} \subseteq BOOLEAN
    PROVE  SocketTypeOK(s)
<1>1. DOMAIN s = Fields
  OBVIOUS
<1>2. s = [machine |-> s.machine, key |-> s.key, server |-> s.server,
           lookup |-> s.lookup, wire |-> s.wire, gone |-> s.gone, room |-> s.room,
           beat |-> s.beat, off |-> s.off]
  BY <1>1 DEF Fields
<1> QED
  BY <1>2 DEF SocketTypeOK

\* What the invariant says of one socket.
LEMMA SocketOf ==
    ASSUME SocketsOK, NEW k \in Sockets
    PROVE  SocketOK(socket[k]) /\ SocketTypeOK(socket[k])
BY DEF SocketsOK, SocketOK

\* One socket is replaced.
LEMMA SetOK ==
    ASSUME SocketsOK, NEW k \in Sockets, NEW s, Set(k, s), SocketOK(s)', raced => raced'
    PROVE  /\ SocketsOK'
           /\ Sockets' = Sockets /\ socket'[k] = s
           /\ \A j \in Sockets \ {k} : socket'[j] = socket[j]
<1> DEFINE old == {socket[j] : j \in Sockets}
<1>1. socket \in Seq(old)
  BY DEF SocketsOK
<1>2. Sockets = 1 .. Len(socket) /\ Len(socket) \in Nat
  BY <1>1 DEF Sockets
<1>3. socket' = [socket EXCEPT ![k] = s]
  BY DEF Set
<1>4. /\ Sockets' = Sockets /\ socket'[k] = s
      /\ \A j \in Sockets \ {k} : socket'[j] = socket[j]
      /\ socket' = [j \in 1 .. Len(socket) |-> socket'[j]]
  BY <1>1, <1>2, <1>3 DEF Sockets
<1>5. socket' \in Seq({socket'[j] : j \in Sockets'})
  BY <1>2, <1>4, SeqDef
<1>6. \A j \in Sockets \ {k} : SocketOK(socket[j])'
  <2> SUFFICES ASSUME NEW j \in Sockets \ {k}, NEW x, x = socket[j], x = socket'[j]
               PROVE  SocketOK(x)'
    BY <1>4 DEF SocketOK
  <2> QED
    BY ZenonT(60) DEF SocketsOK, SocketOK, SocketTypeOK
<1> QED
  BY <1>4, <1>5, <1>6 DEF SocketsOK

\* All sockets are replaced.
LEMMA SetAllOK ==
    ASSUME SocketsOK, socket' = [k \in Sockets |-> socket'[k]],
           \A k \in Sockets : SocketOK(socket[k])'
    PROVE  SocketsOK' /\ Sockets' = Sockets
<1> DEFINE old == {socket[j] : j \in Sockets}
<1>1. socket \in Seq(old)
  BY DEF SocketsOK
<1>2. Sockets = 1 .. Len(socket) /\ Len(socket) \in Nat
  BY <1>1 DEF Sockets
<1>3. Sockets' = Sockets
  BY DEF Sockets
<1>4. socket' \in Seq({socket'[j] : j \in Sockets'})
  BY <1>2, <1>3, SeqDef
<1> QED
  BY <1>3, <1>4 DEF SocketsOK

\* A step that changes no status keeps the explanations, if each socket that is
\* one stays one.
LEMMA SocketStep ==
    ASSUME PresenceInv, UNCHANGED <<regVars, status, crashes>>, SocketsOK',
           raced' \in BOOLEAN, raced => raced',
           \A j \in Sockets :
              /\ j \in Sockets'
              /\ (socket[j].room \/ socket[j].off) =>
                    /\ socket'[j].room \/ socket'[j].off
                    /\ socket'[j].server = socket[j].server
    PROVE  PresenceInv'
<1>1. RegistrationInv'
  BY RegistrationsUntouched DEF PresenceInv
<1>2. StatusOK' /\ server' = server
  BY DEF PresenceInv, StatusOK, regVars
<1>3. OnlineExplained'
  BY <1>2 DEF PresenceInv, OnlineExplained
<1> QED
  BY <1>1, <1>2, <1>3 DEF PresenceInv

\* One socket changes, and no status.
LEMMA OneSocketStep ==
    ASSUME PresenceInv, UNCHANGED <<regVars, status, crashes>>,
           NEW k \in Sockets, NEW s, Set(k, s), SocketOK(s)',
           raced' \in BOOLEAN, raced => raced',
           (socket[k].room \/ socket[k].off) =>
              (s.room \/ s.off) /\ s.server = socket[k].server
    PROVE  PresenceInv'
<1>1. SocketsOK
  BY DEF PresenceInv
<1> QED
  BY <1>1, SetOK, SocketStep

-----------------------------------------------------------------------------
(* The steps.                                                              *)

\* The registrations go on.
LEMMA RegistrationStepOK ==
    ASSUME PresenceInv, RegistrationStep
    PROVE  PresenceInv'
<1>1. RegistrationInv /\ RegistrationNext /\ UNCHANGED <<socket, status, raced, crashes>>
  BY DEF PresenceInv, RegistrationStep
<1>2. RegistrationInv'
  BY <1>1, RegistrationNextOK
<1>3. /\ issued \in Nat /\ issued' \in Nat /\ issued' >= issued
      /\ \A i \in Ids : server'[i] # NoServer => server[i] # NoServer \/ i > issued
  BY <1>1, NewServers, Types
<1>4. SocketsOK' /\ Sockets' = Sockets
  BY <1>1 DEF PresenceInv, SocketsOK, Sockets, SocketOK, SocketTypeOK
<1>5. StatusOK'
  BY <1>1, <1>3, RegistrationAssumption DEF PresenceInv, StatusOK, Ids
<1>6. OnlineExplained'
  BY <1>1, <1>3, <1>4 DEF PresenceInv, OnlineExplained, StatusOK
<1> QED
  BY <1>1, <1>2, <1>4, <1>5, <1>6 DEF PresenceInv

\* A step that leaves the Hub's end alone.
LEMMA ElsewhereOK ==
    ASSUME PresenceInv, UNCHANGED <<regVars, socket, status, raced, crashes>>
    PROVE  PresenceInv'
<1>1. SocketsOK' /\ Sockets' = Sockets
  BY DEF PresenceInv, SocketsOK, Sockets, SocketOK, SocketTypeOK
<1> QED
  BY <1>1, SocketStep DEF PresenceInv

\* The daemon closes its socket.
LEMMA StopOK ==
    ASSUME PresenceInv, NEW r \in Requests, Stop(r)
    PROVE  PresenceInv'
<1>1. SocketsOK /\ raced \in BOOLEAN
  BY DEF PresenceInv
<1>2. /\ socket' = [k \in Sockets |->
            IF k = current[r] THEN [socket[k] EXCEPT !.wire = FALSE] ELSE socket[k]]
      /\ UNCHANGED <<regVars, status, raced, crashes>>
  BY DEF Stop
<1>3. ASSUME NEW k \in Sockets
      PROVE  /\ SocketOK(socket[k])'
             /\ socket'[k].room = socket[k].room /\ socket'[k].off = socket[k].off
             /\ socket'[k].server = socket[k].server
  <2>1. SocketOK(socket[k]) /\ SocketTypeOK(socket[k])
    BY <1>1, SocketOf
  <2>2. PICK x : x = socket[k]
    OBVIOUS
  <2>3. PICK s : s = IF k = current[r] THEN [x EXCEPT !.wire = FALSE] ELSE x
    OBVIOUS
  <2>4. socket'[k] = s
    BY <1>2, <2>2, <2>3
  <2>5. /\ SocketTypeOK(s) /\ s.server = x.server /\ s.lookup = x.lookup /\ s.gone = x.gone
        /\ s.room = x.room /\ s.beat = x.beat /\ s.off = x.off
    BY <2>1, <2>2, <2>3 DEF SocketTypeOK
  <2>6. SocketOK(s)'
    BY <1>2, <2>1, <2>2, <2>5 DEF SocketOK, SocketTypeOK
  <2> QED
    BY <2>2, <2>4, <2>5, <2>6
<1>4. SocketsOK' /\ Sockets' = Sockets
  BY <1>1, <1>2, <1>3, SetAllOK
<1> QED
  BY <1>1, <1>2, <1>3, <1>4, SocketStep

\* A new socket waits for its lookup.
LEMMA ConnectOK ==
    ASSUME PresenceInv, NEW r \in Requests, Connect(r)
    PROVE  PresenceInv'
<1>0. PICK s : s = [machine |-> r, key |-> process[r].key, server |-> 0,
                    lookup |-> TRUE, wire |-> TRUE, gone |-> FALSE, room |-> FALSE,
                    beat |-> FALSE, off |-> FALSE]
  OBVIOUS
<1> DEFINE S == {socket[j] : j \in Sockets} \cup {s}
<1>1. socket' = Append(socket, s) /\ UNCHANGED <<regVars, status, raced, crashes>>
  BY <1>0 DEF Connect
<1>2. SocketOK(s)'
  BY <1>0 DEF SocketOK, SocketTypeOK
<1>3. SocketsOK /\ raced \in BOOLEAN
  BY DEF PresenceInv
<1>4. socket \in Seq(S)
  BY <1>3 DEF SocketsOK
<1>5. /\ Len(socket) \in Nat /\ Sockets = 1 .. Len(socket) /\ Sockets' = 1 .. Len(socket) + 1
      /\ socket'[Len(socket) + 1] = s
      /\ \A j \in Sockets : socket'[j] = socket[j]
      /\ socket' = [j \in 1 .. Len(socket) + 1 |-> socket'[j]]
  <2>1. s \in S
    OBVIOUS
  <2> HIDE DEF S
  <2>2. /\ Len(socket) \in Nat /\ DOMAIN socket = 1 .. Len(socket)
        /\ DOMAIN Append(socket, s) = 1 .. Len(socket) + 1
        /\ Append(socket, s)[Len(socket) + 1] = s
        /\ \A j \in 1 .. Len(socket) : Append(socket, s)[j] = socket[j]
        /\ Append(socket, s) = [j \in 1 .. Len(socket) + 1 |-> Append(socket, s)[j]]
    BY <1>4, <2>1, AppendOne
  <2> QED
    BY <1>1, <2>2 DEF Sockets
<1>6. socket' \in Seq({socket'[j] : j \in Sockets'})
  BY <1>5, SeqDef
<1>7. \A j \in Sockets : SocketOK(socket[j])'
  <2> SUFFICES ASSUME NEW j \in Sockets, NEW x, x = socket[j], x = socket'[j]
               PROVE  SocketOK(x)'
    BY <1>5 DEF SocketOK
  <2> QED
    BY <1>1, <1>3 DEF SocketsOK, SocketOK, SocketTypeOK
<1>8. \A j \in Sockets' : j \in Sockets \/ j = Len(socket) + 1
  BY <1>5
<1>9. SocketsOK'
  BY <1>2, <1>5, <1>6, <1>7, <1>8 DEF SocketsOK
<1>10. \A j \in Sockets : j \in Sockets'
  BY <1>5
<1> QED
  BY <1>1, <1>3, <1>5, <1>9, <1>10, SocketStep

\* The connection is lost.
LEMMA BreakOK ==
    ASSUME PresenceInv, NEW k \in Sockets, Break(k)
    PROVE  PresenceInv'
<1>1. SocketOK(socket[k]) /\ SocketTypeOK(socket[k]) /\ raced \in BOOLEAN
  BY SocketOf DEF PresenceInv
<1>2. PICK x : x = socket[k]
  OBVIOUS
<1>3. PICK s : s = [x EXCEPT !.wire = FALSE]
  OBVIOUS
<1>4. Set(k, s) /\ UNCHANGED <<regVars, status, raced, crashes>>
  BY <1>2, <1>3 DEF Break
<1>5. /\ SocketTypeOK(s) /\ s.server = x.server /\ s.lookup = x.lookup /\ s.gone = x.gone
      /\ s.room = x.room /\ s.beat = x.beat /\ s.off = x.off
  BY <1>1, <1>2, <1>3, ZenonT(60) DEF SocketTypeOK
<1>6. SocketOK(s)'
  BY <1>1, <1>2, <1>4, <1>5 DEF SocketOK, SocketTypeOK
<1> QED
  BY <1>1, <1>2, <1>4, <1>5, <1>6, OneSocketStep

\* The lookup has found the server: the room, unless the socket has closed.
LEMMA AcceptOK ==
    ASSUME PresenceInv, NEW k \in Sockets, Accept(k)
    PROVE  PresenceInv'
<1>1. SocketOK(socket[k]) /\ SocketTypeOK(socket[k]) /\ raced \in BOOLEAN
  BY SocketOf DEF PresenceInv
<1>2. PICK x : x = socket[k]
  OBVIOUS
<1>3. PICK i \in Ids :
          Set(k, [x EXCEPT !.lookup = FALSE, !.server = i, !.room = ~x.gone, !.beat = TRUE])
  BY <1>2 DEF Accept, Holders
<1>4. PICK b \in BOOLEAN : b = ~x.gone
  OBVIOUS
<1>5. PICK s : s = [x EXCEPT !.lookup = FALSE, !.server = i, !.room = b, !.beat = TRUE]
  OBVIOUS
<1>6. Set(k, s) /\ x.lookup /\ UNCHANGED <<regVars, status, raced, crashes>>
  BY <1>2, <1>3, <1>4, <1>5 DEF Accept
<1>7. /\ SocketTypeOK(s) /\ s.server = i /\ s.lookup = FALSE /\ s.gone = x.gone
      /\ s.room = b /\ s.beat = TRUE /\ s.off = x.off
  <2>1. /\ x = [f \in Fields |-> x[f]]
        /\ {x.lookup, x.wire, x.gone, x.room, x.beat, x.off} \subseteq BOOLEAN
    BY <1>1, <1>2, FieldsOf
  <2>2. s = [f \in Fields |-> s[f]]
    BY <1>5, <2>1
  <2>3. /\ s.server = i /\ s.lookup = FALSE /\ s.gone = x.gone
        /\ s.room = b /\ s.beat = TRUE /\ s.off = x.off
        /\ s.wire \in {x.wire, FALSE}
    BY <1>5, <2>1 DEF Fields
  <2>4. {s.lookup, s.wire, s.gone, s.room, s.beat, s.off} \subseteq BOOLEAN
    BY <2>1, <2>3
  <2> QED
    BY <2>2, <2>3, <2>4, Retyped
<1>8. /\ x.server = 0 /\ ~x.room /\ ~x.off /\ x.gone \in BOOLEAN /\ (x.gone => raced)
  BY <1>1, <1>2, <1>6 DEF SocketOK, SocketTypeOK
<1>9. SocketOK(s)'
  BY <1>4, <1>6, <1>7, <1>8 DEF SocketOK, SocketTypeOK
<1> QED
  BY <1>1, <1>2, <1>6, <1>8, <1>9, OneSocketStep

\* The lookup has found nothing.
LEMMA RefuseOK ==
    ASSUME PresenceInv, NEW k \in Sockets, Refuse(k)
    PROVE  PresenceInv'
<1>1. SocketOK(socket[k]) /\ SocketTypeOK(socket[k]) /\ raced \in BOOLEAN
  BY SocketOf DEF PresenceInv
<1>2. PICK x : x = socket[k]
  OBVIOUS
<1>3. PICK s : s = [x EXCEPT !.lookup = FALSE, !.wire = FALSE, !.gone = TRUE]
  OBVIOUS
<1>4. Set(k, s) /\ x.lookup /\ UNCHANGED <<regVars, status, raced, crashes>>
  BY <1>2, <1>3 DEF Refuse
<1>5. /\ SocketTypeOK(s) /\ s.server = x.server /\ s.lookup = FALSE /\ s.gone = TRUE
      /\ s.room = x.room /\ s.beat = x.beat /\ s.off = x.off
  <2>1. /\ x = [f \in Fields |-> x[f]]
        /\ {x.lookup, x.wire, x.gone, x.room, x.beat, x.off} \subseteq BOOLEAN
    BY <1>1, <1>2, FieldsOf
  <2>2. s = [f \in Fields |-> s[f]]
    BY <1>3, <2>1
  <2>3. /\ s.server = x.server /\ s.lookup = FALSE /\ s.gone = TRUE
        /\ s.room = x.room /\ s.beat = x.beat /\ s.off = x.off
        /\ s.wire \in {x.wire, FALSE}
    BY <1>3, <2>1 DEF Fields
  <2>4. {s.lookup, s.wire, s.gone, s.room, s.beat, s.off} \subseteq BOOLEAN
    BY <2>1, <2>3
  <2> QED
    BY <2>2, <2>3, <2>4, Retyped
<1>6. x.server = 0 /\ ~x.room /\ ~x.off /\ ~x.beat
  BY <1>1, <1>2, <1>4 DEF SocketOK
<1>7. SocketOK(s)'
  BY <1>4, <1>5, <1>6 DEF SocketOK, SocketTypeOK
<1> QED
  BY <1>1, <1>2, <1>4, <1>6, <1>7, OneSocketStep

\* The Hub sees the socket close: a socket in a room has its server, so its
\* markOffline is under way when it leaves.
LEMMA handleDisconnectOK ==
    ASSUME PresenceInv, NEW k \in Sockets, handleDisconnect(k)
    PROVE  PresenceInv'
<1>1. SocketOK(socket[k]) /\ SocketTypeOK(socket[k]) /\ raced \in BOOLEAN
  BY SocketOf DEF PresenceInv
<1>2. PICK x : x = socket[k]
  OBVIOUS
<1>3. PICK b \in BOOLEAN : b = (x.server # 0)
  OBVIOUS
<1>4. PICK s : s = [x EXCEPT !.gone = TRUE, !.room = FALSE, !.off = b]
  OBVIOUS
<1>5. /\ Set(k, s) /\ ~x.gone /\ UNCHANGED <<regVars, status, crashes>>
      /\ raced' = (raced \/ x.lookup \/ x.beat)
  BY <1>2, <1>3, <1>4 DEF handleDisconnect
<1>6. /\ SocketTypeOK(s) /\ s.server = x.server /\ s.lookup = x.lookup /\ s.gone = TRUE
      /\ s.room = FALSE /\ s.beat = x.beat /\ s.off = b
  <2>1. /\ x = [f \in Fields |-> x[f]]
        /\ {x.lookup, x.wire, x.gone, x.room, x.beat, x.off} \subseteq BOOLEAN
    BY <1>1, <1>2, FieldsOf
  <2>2. s = [f \in Fields |-> s[f]]
    BY <1>4, <2>1
  <2>3. /\ s.server = x.server /\ s.lookup = x.lookup /\ s.gone = TRUE
        /\ s.room = FALSE /\ s.beat = x.beat /\ s.off = b
        /\ s.wire \in {x.wire, FALSE}
    BY <1>4, <2>1 DEF Fields
  <2>4. {s.lookup, s.wire, s.gone, s.room, s.beat, s.off} \subseteq BOOLEAN
    BY <2>1, <2>3
  <2> QED
    BY <2>2, <2>3, <2>4, Retyped
<1>7. /\ x.lookup \in BOOLEAN /\ x.beat \in BOOLEAN
      /\ x.lookup => x.server = 0 /\ ~x.room /\ ~x.beat /\ ~x.off
      /\ (~x.lookup => x.room) /\ ((x.room \/ x.beat \/ x.off) => x.server \in Ids)
  <2>1. x.lookup \in BOOLEAN /\ x.beat \in BOOLEAN
    BY <1>1, <1>2, FieldsOf
  <2> QED
    BY <1>1, <1>2, <1>5, <2>1 DEF SocketOK
<1>8. x.server \in Ids => b
  <2>1. 0 \notin Ids
    BY RegistrationAssumption DEF Ids
  <2>2. x.server \in Ids => x.server # 0
    BY <2>1
  <2> QED
    BY <1>3, <2>2, Zenon
<1>9. x.server = 0 => ~b
  BY <1>3
<1>10. raced' \in BOOLEAN /\ (raced => raced') /\ (x.lookup \/ x.beat => raced')
  BY <1>1, <1>5, <1>7
<1>11. SocketOK(s)'
  BY <1>6, <1>7, <1>8, <1>9, <1>10 DEF SocketOK, SocketTypeOK
<1> QED
  BY <1>2, <1>5, <1>6, <1>7, <1>8, <1>10, <1>11, OneSocketStep

\* A heartbeat of a socket that has its server.
LEMMA onHeartbeatOK ==
    ASSUME PresenceInv, NEW k \in Sockets, onHeartbeat(k)
    PROVE  PresenceInv'
<1>1. SocketOK(socket[k]) /\ SocketTypeOK(socket[k]) /\ raced \in BOOLEAN
  BY SocketOf DEF PresenceInv
<1>2. PICK x : x = socket[k]
  OBVIOUS
<1>3. PICK s : s = [x EXCEPT !.beat = TRUE]
  OBVIOUS
<1>4. /\ Set(k, s) /\ ~x.gone /\ x.server # 0
      /\ UNCHANGED <<regVars, status, raced, crashes>>
  BY <1>2, <1>3 DEF onHeartbeat
<1>5. /\ SocketTypeOK(s) /\ s.server = x.server /\ s.lookup = x.lookup /\ s.gone = x.gone
      /\ s.room = x.room /\ s.beat = TRUE /\ s.off = x.off
  BY <1>1, <1>2, <1>3, ZenonT(60) DEF SocketTypeOK
<1>6. SocketOK(s)'
  BY <1>1, <1>2, <1>4, <1>5 DEF SocketOK, SocketTypeOK
<1> QED
  BY <1>1, <1>2, <1>4, <1>5, <1>6, OneSocketStep

\* markHeartbeat writes ONLINE.  Unless there was a race, its socket is still in
\* the room.
LEMMA markHeartbeatOK ==
    ASSUME PresenceInv, NEW k \in Sockets, markHeartbeat(k)
    PROVE  PresenceInv'
<1>1. SocketOK(socket[k]) /\ SocketTypeOK(socket[k]) /\ SocketsOK
  BY SocketOf DEF PresenceInv
<1>2. PICK x : x = socket[k]
  OBVIOUS
<1>3. PICK s : s = [x EXCEPT !.beat = FALSE]
  OBVIOUS
<1>4. /\ Set(k, s) /\ x.beat /\ UNCHANGED <<regVars, raced, crashes>>
      /\ SetPresence(x.server, "ONLINE")
  BY <1>2, <1>3 DEF markHeartbeat
<1>5. /\ SocketTypeOK(s) /\ s.server = x.server /\ s.lookup = x.lookup /\ s.gone = x.gone
      /\ s.room = x.room /\ s.beat = FALSE /\ s.off = x.off
  BY <1>1, <1>2, <1>3, ZenonT(60) DEF SocketTypeOK
<1>6. SocketOK(s)'
  BY <1>1, <1>2, <1>4, <1>5 DEF SocketOK, SocketTypeOK
<1>7. /\ SocketsOK' /\ Sockets' = Sockets /\ socket'[k] = s
      /\ \A j \in Sockets \ {k} : socket'[j] = socket[j]
  BY <1>1, <1>4, <1>6, SetOK
<1>8. x.server \in Ids /\ (~raced => x.room)
  BY <1>1, <1>2, <1>4 DEF SocketOK
<1>9. RegistrationInv /\ RegistrationInv' /\ UNCHANGED <<server, issued>>
  BY <1>4, RegistrationsUntouched DEF PresenceInv, regVars
<1>10. server[x.server] # NoServer => x.server <= issued
  BY <1>8, <1>9 DEF RegistrationInv, ServersOK
<1>11. /\ status' \in [Ids -> {"ONLINE", "OFFLINE"}]
       /\ \A i \in Ids : status'[i] = status[i] \/ (i = x.server /\ server[i] # NoServer)
  BY <1>4, <1>8 DEF SetPresence, PresenceInv, StatusOK
<1>12. StatusOK'
  <2>1. issued \in Nat /\ \A i \in Ids : i \in Nat
    BY <1>9, Types DEF Ids
  <2> QED
    BY <1>9, <1>10, <1>11, <2>1 DEF PresenceInv, StatusOK
<1>13. OnlineExplained'
  <2> SUFFICES ASSUME crashes' = 0, ~raced', NEW i \in Ids, server'[i] # NoServer,
                      status'[i] = "ONLINE"
               PROVE  \E j \in Sockets' : /\ socket'[j].server = i
                                          /\ socket'[j].room \/ socket'[j].off
    BY DEF OnlineExplained
  <2>1. CASE i = x.server
    BY <1>4, <1>5, <1>7, <1>8, <2>1
  <2>2. CASE i # x.server
    <3>1. PICK j \in Sockets : socket[j].server = i /\ (socket[j].room \/ socket[j].off)
      BY <1>4, <1>9, <1>11, <2>2 DEF PresenceInv, OnlineExplained
    <3> QED
      BY <1>2, <1>7, <2>2, <3>1
  <2> QED
    BY <2>1, <2>2
<1> QED
  BY <1>4, <1>7, <1>9, <1>12, <1>13 DEF PresenceInv

\* markOffline writes OFFLINE, so nothing is left to explain for its server.
LEMMA markOfflineOK ==
    ASSUME PresenceInv, NEW k \in Sockets, markOffline(k)
    PROVE  PresenceInv'
<1>1. SocketOK(socket[k]) /\ SocketTypeOK(socket[k]) /\ SocketsOK
  BY SocketOf DEF PresenceInv
<1>2. PICK x : x = socket[k]
  OBVIOUS
<1>3. PICK s : s = [x EXCEPT !.off = FALSE]
  OBVIOUS
<1>4. /\ Set(k, s) /\ x.off /\ UNCHANGED <<regVars, raced, crashes>>
      /\ SetPresence(x.server, "OFFLINE")
  BY <1>2, <1>3 DEF markOffline
<1>5. /\ SocketTypeOK(s) /\ s.server = x.server /\ s.lookup = x.lookup /\ s.gone = x.gone
      /\ s.room = x.room /\ s.beat = x.beat /\ s.off = FALSE
  BY <1>1, <1>2, <1>3, ZenonT(60) DEF SocketTypeOK
<1>6. SocketOK(s)'
  BY <1>1, <1>2, <1>4, <1>5 DEF SocketOK, SocketTypeOK
<1>7. /\ SocketsOK' /\ Sockets' = Sockets /\ socket'[k] = s
      /\ \A j \in Sockets \ {k} : socket'[j] = socket[j]
  BY <1>1, <1>4, <1>6, SetOK
<1>8. x.server \in Ids
  BY <1>1, <1>2, <1>4 DEF SocketOK
<1>9. RegistrationInv' /\ UNCHANGED <<server, issued>>
  BY <1>4, RegistrationsUntouched DEF PresenceInv, regVars
<1>10. /\ status' \in [Ids -> {"ONLINE", "OFFLINE"}]
       /\ \A i \in Ids : status'[i] = status[i] \/ status'[i] = "OFFLINE"
       /\ server[x.server] # NoServer => status'[x.server] = "OFFLINE"
  BY <1>4, <1>8 DEF SetPresence, PresenceInv, StatusOK
<1>11. StatusOK'
  BY <1>9, <1>10 DEF PresenceInv, StatusOK
<1>12. OnlineExplained'
  <2> SUFFICES ASSUME crashes' = 0, ~raced', NEW i \in Ids, server'[i] # NoServer,
                      status'[i] = "ONLINE"
               PROVE  \E j \in Sockets' : /\ socket'[j].server = i
                                          /\ socket'[j].room \/ socket'[j].off
    BY DEF OnlineExplained
  <2>1. i # x.server /\ status[i] = "ONLINE"
    BY <1>9, <1>10
  <2>2. PICK j \in Sockets : socket[j].server = i /\ (socket[j].room \/ socket[j].off)
    BY <1>4, <1>9, <2>1 DEF PresenceInv, OnlineExplained
  <2> QED
    BY <1>2, <1>7, <2>1, <2>2
<1> QED
  BY <1>4, <1>7, <1>9, <1>11, <1>12 DEF PresenceInv

\* The Hub crashes: all its sockets are gone.
LEMMA HubCrashOK ==
    ASSUME PresenceInv, HubCrash
    PROVE  PresenceInv'
<1>1. SocketsOK /\ RegistrationInv /\ crashes \in Nat
  BY DEF PresenceInv
<1>2. /\ socket' = [k \in Sockets |->
            [socket[k] EXCEPT !.lookup = FALSE, !.wire = FALSE, !.gone = TRUE,
                              !.room = FALSE, !.beat = FALSE, !.off = FALSE]]
      /\ crashes' = crashes + 1 /\ UNCHANGED <<server, issued, status, raced>>
  BY DEF HubCrash
<1>3. ASSUME NEW k \in Sockets
      PROVE  SocketOK(socket[k])'
  <2>1. SocketTypeOK(socket[k])
    BY <1>1, SocketOf
  <2>2. PICK x : x = socket[k]
    OBVIOUS
  <2>3. PICK s : s = [x EXCEPT !.lookup = FALSE, !.wire = FALSE, !.gone = TRUE,
                               !.room = FALSE, !.beat = FALSE, !.off = FALSE]
    OBVIOUS
  <2>4. socket'[k] = s
    BY <1>2, <2>2, <2>3
  <2>5. x = [f \in Fields |-> x[f]]
    BY <2>1, <2>2, FieldsOf
  <2>6. s = [f \in Fields |-> s[f]]
    BY <2>3, <2>5
  <2>7. /\ s.lookup = FALSE /\ s.wire = FALSE /\ s.gone = TRUE
        /\ s.room = FALSE /\ s.beat = FALSE /\ s.off = FALSE
    BY <2>3, <2>5 DEF Fields
  <2>8. SocketTypeOK(s)
    BY <2>6, <2>7, Retyped
  <2>9. SocketOK(s)'
    BY <2>7, <2>8 DEF SocketOK, SocketTypeOK
  <2> QED
    BY <2>4, <2>9
<1>4. SocketsOK' /\ Sockets' = Sockets
  BY <1>1, <1>2, <1>3, SetAllOK
<1>5. RegistrationInv'
  BY <1>1, CrashKeepsRegistrations
<1>6. StatusOK'
  BY <1>2 DEF PresenceInv, StatusOK
<1>7. crashes' \in Nat /\ crashes' # 0
  <2>1. crashes \in Nat
    BY <1>1
  <2>2. crashes' = crashes + 1
    BY DEF HubCrash
  <2> QED
    BY <2>1, <2>2
<1>8. OnlineExplained'
  <2>1. (crashes = 0)' = FALSE
    BY <1>7
  <2> QED
    BY <2>1, Zenon DEF OnlineExplained
<1>9. raced' \in BOOLEAN
  BY <1>2 DEF PresenceInv
<1> QED
  BY <1>4, <1>5, <1>6, <1>7, <1>8, <1>9 DEF PresenceInv

-----------------------------------------------------------------------------
(* The theorems.                                                           *)

\* No step breaks the invariant.
LEMMA PresenceNextOK ==
    ASSUME PresenceInv, [PresenceNext]_presenceVars
    PROVE  PresenceInv'
<1>1. CASE UNCHANGED presenceVars
  BY <1>1, ElsewhereOK DEF presenceVars, presence, ends
<1>2. ASSUME NEW r \in Requests, Start(r) \/ Stop(r) \/ Connect(r) \/ onDisconnect(r)
      PROVE  PresenceInv'
  BY <1>2, ElsewhereOK, StopOK, ConnectOK DEF Start, onDisconnect
<1>3. ASSUME NEW k \in Sockets, Break(k) \/ Gateway(k) \/ onHeartbeat(k)
      PROVE  PresenceInv'
  BY <1>3, BreakOK, AcceptOK, RefuseOK, handleDisconnectOK, markHeartbeatOK, markOfflineOK,
     onHeartbeatOK DEF Gateway
<1> QED
  BY <1>1, <1>2, <1>3, RegistrationStepOK, HubCrashOK DEF PresenceNext

\* It holds at the start.
LEMMA PresenceInitOK ==
    ASSUME PresenceInit
    PROVE  PresenceInv
<1>1. RegistrationInv
  BY RegistrationInitOK DEF PresenceInit
<1>2. socket = <<>> /\ raced = FALSE /\ crashes = 0 /\ status = [i \in Ids |-> "OFFLINE"]
  BY DEF PresenceInit
<1>3. Sockets = {}
  BY <1>2 DEF Sockets
<1>4. SocketsOK
  BY <1>2, <1>3 DEF SocketsOK
<1>5. StatusOK
  BY <1>2 DEF StatusOK
<1>6. OnlineExplained
  BY <1>2 DEF OnlineExplained
<1> QED
  BY <1>1, <1>2, <1>4, <1>5, <1>6 DEF PresenceInv

\* The invariant holds in every behaviour: a server shows ONLINE because of a
\* socket in its room, or of one whose markOffline is under way.
THEOREM PresenceInvariance == PresenceSpec => []PresenceInv
<1>1. PresenceInv /\ [PresenceNext]_presenceVars => PresenceInv'
  BY PresenceNextOK
<1> QED
  BY <1>1, PresenceInitOK, PTL DEF PresenceSpec

\* The status does not lie once nothing is under way, for any number of servers
\* and connections: only a crash, or a socket closed while its own
\* markHeartbeat was due, leaves ONLINE behind.
THEOREM OnlineIsConnected == PresenceSpec => []OnlineMeansConnected
<1>1. PresenceInv => OnlineMeansConnected
  BY DEF PresenceInv, OnlineExplained, OnlineMeansConnected
<1> QED
  BY <1>1, PresenceInvariance, PTL

\* The promises about credentials survive crashes of the Hub in the middle of
\* decisions and polls.
THEOREM CredentialsSurviveCrashes ==
    PresenceSpec => [](CredentialMatchesServer /\ CredentialHandedOnce)
<1>1. PresenceInv => RegistrationInv
  BY DEF PresenceInv
<1> QED
  BY <1>1, PresenceInvariance, InvMatches, InvHandsOnce, PTL

-----------------------------------------------------------------------------
(* The .env file: what upsertEnv leaves in a file of any length.  Induction *)
(* is the choice of a least counterexample, which Least provides.          *)

\* A set of naturals that is not empty has a least element.
LEMMA Least ==
    ASSUME NEW T, T \subseteq Nat, T # {}
    PROVE  \E x \in T : \A y \in T : x <= y
<1>1. PICK x \in T : \A y \in T : ~(<<y, x>> \in OpToRel(<, Nat))
  BY NatLessThanWellFounded, WFMin, Zenon
<1>2. \A y \in T : (<<y, x>> \in OpToRel(<, Nat)) <=> y < x
  BY Zenon DEF OpToRel
<1>3. \A y \in T : ~(y < x)
  BY <1>1, <1>2, Zenon
<1> QED
  BY <1>3

\* And a largest one, if it is bounded.
LEMMA Largest ==
    ASSUME NEW n \in Nat, NEW T, T \subseteq 1 .. n, T # {}
    PROVE  \E x \in T : \A y \in T : y <= x
<1> DEFINE U == {n - y : y \in T}
<1>1. U # {}
  OBVIOUS
<1>2. \A y \in T : n - y \in Nat
  OBVIOUS
<1>3. U \subseteq Nat
  BY <1>2
<1>4. PICK u \in U : \A v \in U : u <= v
  BY <1>1, <1>3, Least
<1>5. PICK x \in T : u = n - x
  BY <1>4
<1>6. \A y \in T : n - x <= n - y
  BY <1>4, <1>5
<1> QED
  BY <1>6

\* f is the function of NonBlank for the first n lines.
Keeps(f, lines, n) ==
    /\ f \in [0 .. n -> Seq(Line)]
    /\ f = [i \in 0 .. n |->
              IF i = 0 THEN <<>>
              ELSE IF lines[i].key = "blank" THEN f[i - 1]
                                             ELSE Append(f[i - 1], lines[i])]

\* That function can be continued by one line.
LEMMA KeepsNext ==
    ASSUME NEW lines \in Seq(Line), NEW n \in Nat, n + 1 \in 1 .. Len(lines),
           NEW f, Keeps(f, lines, n)
    PROVE  \E g : Keeps(g, lines, n + 1)
<1>1. PICK e : e = IF lines[n + 1].key = "blank" THEN f[n] ELSE Append(f[n], lines[n + 1])
  OBVIOUS
<1>2. lines[n + 1] \in Line /\ f[n] \in Seq(Line)
  BY DEF Keeps
<1>3. e \in Seq(Line)
  BY <1>1, <1>2
<1>4. PICK g : g = [i \in 0 .. n + 1 |-> IF i = n + 1 THEN e ELSE f[i]]
  OBVIOUS
<1>5. f \in [0 .. n -> Seq(Line)]
  BY DEF Keeps
<1>6. g \in [0 .. n + 1 -> Seq(Line)]
  BY <1>3, <1>4, <1>5
<1>7. \A i \in 0 .. n : g[i] = f[i]
  BY <1>4
<1>8. g[n + 1] = e
  BY <1>4
<1>9. ASSUME NEW i \in 0 .. n + 1
      PROVE  g[i] = IF i = 0 THEN <<>>
                    ELSE IF lines[i].key = "blank" THEN g[i - 1]
                                                   ELSE Append(g[i - 1], lines[i])
  <2>1. CASE i = n + 1
    BY <1>1, <1>7, <1>8, <2>1
  <2>2. CASE i \in 0 .. n
    <3>1. f[i] = IF i = 0 THEN <<>>
                 ELSE IF lines[i].key = "blank" THEN f[i - 1]
                                                ELSE Append(f[i - 1], lines[i])
      BY <2>2 DEF Keeps
    <3>2. g[i] = f[i] /\ (i # 0 => g[i - 1] = f[i - 1])
      BY <1>7, <2>2
    <3> QED
      BY <3>1, <3>2
  <2> QED
    BY <2>1, <2>2
<1>10. Keeps(g, lines, n + 1)
  BY <1>6, <1>9 DEF Keeps
<1> QED
  BY <1>10

\* So there is one for the whole file.
LEMMA KeepsExists ==
    ASSUME NEW lines \in Seq(Line)
    PROVE  \E f : Keeps(f, lines, Len(lines))
<1> DEFINE bad == {n \in 0 .. Len(lines) : ~ \E f : Keeps(f, lines, n)}
<1>1. SUFFICES bad = {}
  <2>1. Len(lines) \in 0 .. Len(lines)
    OBVIOUS
  <2> QED
    BY <2>1
<1>2. SUFFICES ASSUME bad # {} PROVE FALSE
  OBVIOUS
<1>3. PICK n \in bad : \A m \in bad : n <= m
  <2>1. bad \subseteq Nat
    OBVIOUS
  <2> HIDE DEF bad
  <2> QED
    BY <1>2, <2>1, Least
<1>4. n # 0
  <2>1. PICK f : f = [i \in 0 .. 0 |-> <<>>]
    OBVIOUS
  <2>2. f \in [0 .. 0 -> Seq(Line)]
    BY <2>1
  <2>3. Keeps(f, lines, 0)
    BY <2>1, <2>2 DEF Keeps
  <2> QED
    BY <2>3
<1>5. PICK m \in Nat : n = m + 1 /\ m \in 0 .. Len(lines) /\ n \in 1 .. Len(lines)
  BY <1>4
<1>6. m \notin bad
  BY <1>3, <1>5
<1>7. PICK f : Keeps(f, lines, m)
  BY <1>5, <1>6
<1>8. \E g : Keeps(g, lines, n)
  BY <1>5, <1>7, KeepsNext
<1> QED
  BY <1>8

\* What is kept of the first n lines are the lines among them that are not blank.
KeptOf(q, lines, n) ==
    /\ q \in Seq(Line)
    /\ \A j \in 1 .. Len(q) : \E i \in 1 .. n : q[j] = lines[i] /\ lines[i].key # "blank"
    /\ \A i \in 1 .. n : lines[i].key # "blank" => \E j \in 1 .. Len(q) : q[j] = lines[i]

\* One more line.
LEMMA KeptStep ==
    ASSUME NEW lines \in Seq(Line), NEW n \in 1 .. Len(lines), NEW q, KeptOf(q, lines, n - 1),
           NEW e, e = IF lines[n].key = "blank" THEN q ELSE Append(q, lines[n])
    PROVE  KeptOf(e, lines, n)
<1>1. CASE lines[n].key = "blank"
  <2>1. e = q /\ q \in Seq(Line)
    BY <1>1 DEF KeptOf
  <2>2. ASSUME NEW j \in 1 .. Len(q)
        PROVE  \E i \in 1 .. n : q[j] = lines[i] /\ lines[i].key # "blank"
    <3>1. PICK i \in 1 .. n - 1 : q[j] = lines[i] /\ lines[i].key # "blank"
      BY DEF KeptOf
    <3> QED
      BY <3>1
  <2>3. ASSUME NEW i \in 1 .. n, lines[i].key # "blank"
        PROVE  \E j \in 1 .. Len(q) : q[j] = lines[i]
    <3>1. i \in 1 .. n - 1
      BY <1>1, <2>3
    <3> QED
      BY <2>3, <3>1 DEF KeptOf
  <2> QED
    BY <2>1, <2>2, <2>3 DEF KeptOf
<1>2. CASE lines[n].key # "blank"
  <2>1. e = Append(q, lines[n]) /\ lines[n] \in Line /\ q \in Seq(Line)
    BY <1>2 DEF KeptOf
  <2>2. /\ e \in Seq(Line) /\ Len(e) = Len(q) + 1 /\ e[Len(q) + 1] = lines[n]
        /\ \A j \in 1 .. Len(q) : e[j] = q[j]
    BY <2>1
  <2>3. ASSUME NEW j \in 1 .. Len(e)
        PROVE  \E i \in 1 .. n : e[j] = lines[i] /\ lines[i].key # "blank"
    <3>1. CASE j = Len(q) + 1
      BY <1>2, <2>2, <3>1
    <3>2. CASE j \in 1 .. Len(q)
      <4>1. PICK i \in 1 .. n - 1 : q[j] = lines[i] /\ lines[i].key # "blank"
        BY <3>2 DEF KeptOf
      <4> QED
        BY <2>2, <3>2, <4>1
    <3> QED
      BY <2>1, <2>2, <3>1, <3>2
  <2>4. ASSUME NEW i \in 1 .. n, lines[i].key # "blank"
        PROVE  \E j \in 1 .. Len(e) : e[j] = lines[i]
    <3>1. CASE i = n
      <4>1. Len(q) + 1 \in 1 .. Len(e)
        BY <2>1, <2>2
      <4> QED
        BY <2>2, <3>1, <4>1
    <3>2. CASE i \in 1 .. n - 1
      <4>1. PICK j \in 1 .. Len(q) : q[j] = lines[i]
        BY <2>4, <3>2 DEF KeptOf
      <4> QED
        BY <2>1, <2>2, <4>1
    <3> QED
      BY <3>1, <3>2
  <2> QED
    BY <2>2, <2>3, <2>4 DEF KeptOf
<1> QED
  BY <1>1, <1>2

\* filter(Boolean) drops the empty lines and nothing else.
LEMMA NonBlankKept ==
    ASSUME NEW lines \in Seq(Line)
    PROVE  KeptOf(NonBlank(lines), lines, Len(lines))
<1> DEFINE k == CHOOSE f : f = [i \in 0 .. Len(lines) |->
              IF i = 0 THEN <<>>
              ELSE IF lines[i].key = "blank" THEN f[i - 1]
                                             ELSE Append(f[i - 1], lines[i])]
<1>1. NonBlank(lines) = k[Len(lines)]
  BY Zenon DEF NonBlank
<1>2. \E f : f = [i \in 0 .. Len(lines) |->
              IF i = 0 THEN <<>>
              ELSE IF lines[i].key = "blank" THEN f[i - 1]
                                             ELSE Append(f[i - 1], lines[i])]
  BY KeepsExists, Zenon DEF Keeps
<1>3. k = [i \in 0 .. Len(lines) |->
              IF i = 0 THEN <<>>
              ELSE IF lines[i].key = "blank" THEN k[i - 1]
                                             ELSE Append(k[i - 1], lines[i])]
  BY <1>2, Zenon
<1> HIDE DEF k
<1>4. k[0] = <<>>
  BY <1>3
<1>5. ASSUME NEW i \in 1 .. Len(lines)
      PROVE  k[i] = IF lines[i].key = "blank" THEN k[i - 1] ELSE Append(k[i - 1], lines[i])
  <2>1. i \in 0 .. Len(lines) /\ i # 0
    OBVIOUS
  <2> QED
    BY <1>3, <2>1, Zenon
<1> DEFINE bad == {n \in 0 .. Len(lines) : ~KeptOf(k[n], lines, n)}
<1>6. bad = {}
  <2>1. SUFFICES ASSUME bad # {} PROVE FALSE
    OBVIOUS
  <2>2. PICK n \in bad : \A m \in bad : n <= m
    <3>1. bad \subseteq Nat
      OBVIOUS
    <3> HIDE DEF bad
    <3> QED
      BY <2>1, <3>1, Least
  <2>3. n # 0
    <3>1. KeptOf(<<>>, lines, 0)
      BY DEF KeptOf
    <3> QED
      BY <1>4, <3>1
  <2>4. n \in 1 .. Len(lines) /\ n - 1 \in 0 .. Len(lines)
    BY <2>3
  <2>5. KeptOf(k[n - 1], lines, n - 1)
    BY <2>2, <2>4
  <2>6. KeptOf(k[n], lines, n)
    BY <1>5, <2>4, <2>5, KeptStep
  <2> QED
    BY <2>6
<1>7. Len(lines) \in 0 .. Len(lines)
  OBVIOUS
<1> QED
  BY <1>1, <1>6, <1>7

-----------------------------------------------------------------------------
\* What a key is set to is the value of the last of its lines.
LEMMA SettingOf ==
    ASSUME NEW lines \in Seq(Line), NEW key,
           \E i \in DOMAIN lines : lines[i].key = key
    PROVE  \E i \in DOMAIN lines :
              /\ lines[i].key = key /\ Setting(lines, key) = lines[i].value
              /\ \A j \in DOMAIN lines : lines[j].key = key => j <= i
<1> DEFINE at == {i \in DOMAIN lines : lines[i].key = key}
<1>1. Len(lines) \in Nat /\ at \subseteq 1 .. Len(lines) /\ at # {}
  OBVIOUS
<1>2. \E i \in at : \A j \in at : j <= i
  BY <1>1, Largest
<1>3. PICK i : i = CHOOSE x \in at : \A j \in at : j <= x
  OBVIOUS
<1>4. i \in at /\ \A j \in at : j <= i
  BY <1>2, <1>3, Zenon
<1>5. Setting(lines, key) = lines[i].value
  BY <1>1, <1>3, Zenon DEF Setting
<1> QED
  BY <1>4, <1>5

\* It is a key that the Hub has issued, or 0.
LEMMA SettingTyped ==
    ASSUME NEW lines \in Seq(Line), NEW key
    PROVE  Setting(lines, key) \in 0 .. MaxServers
<1>1. CASE \E i \in DOMAIN lines : lines[i].key = key
  <2>1. PICK i \in DOMAIN lines : Setting(lines, key) = lines[i].value
    BY <1>1, SettingOf
  <2>2. lines[i] \in Line
    OBVIOUS
  <2> QED
    BY <2>1, <2>2 DEF Line
<1>2. CASE ~ \E i \in DOMAIN lines : lines[i].key = key
  <2>1. Setting(lines, key) = 0
    BY <1>2, Zenon DEF Setting
  <2> QED
    BY <2>1, RegistrationAssumption
<1> QED
  BY <1>1, <1>2

\* One file after another.
LEMMA AppendedTo ==
    ASSUME NEW S, NEW p \in Seq(S), NEW q \in Seq(S)
    PROVE  /\ p \o q \in Seq(S) /\ Len(p \o q) = Len(p) + Len(q)
           /\ \A i \in 1 .. Len(p) : (p \o q)[i] = p[i]
           /\ \A i \in 1 .. Len(q) : (p \o q)[Len(p) + i] = q[i]
<1>1. Len(p) \in Nat /\ Len(q) \in Nat
  OBVIOUS
<1>2. /\ p \o q \in Seq(S) /\ Len(p \o q) = Len(p) + Len(q)
      /\ \A i \in 1 .. Len(p) + Len(q) :
            (p \o q)[i] = IF i <= Len(p) THEN p[i] ELSE q[i - Len(p)]
  BY ConcatProperties
<1>3. \A i \in 1 .. Len(q) :
         Len(p) + i \in 1 .. Len(p) + Len(q) /\ ~(Len(p) + i <= Len(p)) /\ (Len(p) + i) - Len(p) = i
  BY <1>1
<1> QED
  BY <1>1, <1>2, <1>3

\* The lines keep their keys; plain ones of the updated keys get the new values.
LEMMA ReplacedTyped ==
    ASSUME NEW lines \in Seq(Line),
           NEW updates, updates \in [{"API_KEY", "SERVER_ID"} -> 0 .. MaxServers]
    PROVE  /\ Replaced(lines, updates) \in Seq(Line)
           /\ Len(Replaced(lines, updates)) = Len(lines)
           /\ \A i \in 1 .. Len(lines) :
                 /\ Replaced(lines, updates)[i].key = lines[i].key
                 /\ Replaced(lines, updates)[i].plain = lines[i].plain
                 /\ lines[i].plain /\ lines[i].key \in {"API_KEY", "SERVER_ID"} =>
                       Replaced(lines, updates)[i].value = updates[lines[i].key]
<1>1. PICK q : q = Replaced(lines, updates)
  OBVIOUS
<1>2. q = [i \in 1 .. Len(lines) |->
        IF lines[i].plain /\ lines[i].key \in {"API_KEY", "SERVER_ID"}
        THEN [lines[i] EXCEPT !.value = updates[lines[i].key]] ELSE lines[i]]
  BY <1>1 DEF Replaced
<1>3. ASSUME NEW i \in 1 .. Len(lines)
      PROVE  /\ q[i] \in Line
             /\ q[i].key = lines[i].key /\ q[i].plain = lines[i].plain
             /\ lines[i].plain /\ lines[i].key \in {"API_KEY", "SERVER_ID"}
                   => q[i].value = updates[lines[i].key]
  <2>1. lines[i] \in Line
    OBVIOUS
  <2> QED
    BY <1>2, <2>1 DEF Line
<1>4. q \in Seq(Line) /\ Len(q) = Len(lines)
  BY <1>2, <1>3
<1> QED
  BY <1>1, <1>3, <1>4

\* upsertEnv: afterwards every plain line of an updated key has the new value and
\* each updated key has such a line, whatever the file held.
LEMMA UpsertHolds ==
    ASSUME NEW lines \in Seq(Line),
           NEW updates, updates \in [{"API_KEY", "SERVER_ID"} -> 0 .. MaxServers]
    PROVE  /\ upsertEnv(lines, updates) \in Seq(Line)
           /\ \/ Setting(upsertEnv(lines, updates), "API_KEY") = updates["API_KEY"]
              \/ Overridden(upsertEnv(lines, updates), "API_KEY")
           /\ \/ Setting(upsertEnv(lines, updates), "SERVER_ID") = updates["SERVER_ID"]
              \/ Overridden(upsertEnv(lines, updates), "SERVER_ID")
<1> DEFINE Updated == {"API_KEY", "SERVER_ID"}
<1>1. PICK r : r = Replaced(lines, updates)
  OBVIOUS
<1>2. PICK a : a = AppendedLine(lines, updates, "API_KEY")
  OBVIOUS
<1>3. PICK b : b = AppendedLine(lines, updates, "SERVER_ID")
  OBVIOUS
<1>4. PICK q : q = (r \o a) \o b
  OBVIOUS
<1>5. PICK u : u = NonBlank(q)
  OBVIOUS
<1>6. upsertEnv(lines, updates) = u
  BY <1>1, <1>2, <1>3, <1>4, <1>5 DEF upsertEnv
<1>7. /\ r \in Seq(Line) /\ Len(r) = Len(lines)
      /\ \A i \in 1 .. Len(lines) : r[i].key = lines[i].key /\ r[i].plain = lines[i].plain
      /\ \A i \in 1 .. Len(lines) :
            lines[i].plain /\ lines[i].key \in Updated => r[i].value = updates[lines[i].key]
  BY <1>1, ReplacedTyped
<1>8. ASSUME NEW key \in Updated, NEW x, x = AppendedLine(lines, updates, key)
      PROVE  /\ x \in Seq(Line)
             /\ \A i \in 1 .. Len(x) : x[i].key = key /\ x[i].value = updates[key]
             /\ (\A i \in 1 .. Len(lines) : ~(lines[i].plain /\ lines[i].key = key)) => Len(x) = 1
  <2>1. [key |-> key, plain |-> TRUE, value |-> updates[key]] \in Line
    BY DEF Line
  <2>2. CASE \E i \in DOMAIN lines : lines[i].plain /\ lines[i].key = key
    <3>1. x = <<>>
      BY <1>8, <2>2 DEF AppendedLine
    <3> QED
      BY <2>2, <3>1
  <2>3. CASE ~ \E i \in DOMAIN lines : lines[i].plain /\ lines[i].key = key
    <3>1. x = <<[key |-> key, plain |-> TRUE, value |-> updates[key]]>>
      BY <1>8, <2>3 DEF AppendedLine
    <3> QED
      BY <2>1, <3>1
  <2> QED
    BY <2>2, <2>3
<1>9. /\ a \in Seq(Line)
      /\ \A i \in 1 .. Len(a) : a[i].key = "API_KEY" /\ a[i].value = updates["API_KEY"]
      /\ (\A i \in 1 .. Len(lines) : ~(lines[i].plain /\ lines[i].key = "API_KEY")) => Len(a) = 1
  BY <1>2, <1>8
<1>10. /\ b \in Seq(Line)
       /\ \A i \in 1 .. Len(b) : b[i].key = "SERVER_ID" /\ b[i].value = updates["SERVER_ID"]
       /\ (\A i \in 1 .. Len(lines) : ~(lines[i].plain /\ lines[i].key = "SERVER_ID")) => Len(b) = 1
  BY <1>3, <1>8
<1>11. /\ q \in Seq(Line) /\ Len(q) = Len(r) + Len(a) + Len(b)
       /\ \A i \in 1 .. Len(r) : q[i] = r[i]
       /\ \A i \in 1 .. Len(a) : q[Len(r) + i] = a[i]
       /\ \A i \in 1 .. Len(b) : q[Len(r) + Len(a) + i] = b[i]
  <2>1. PICK c : c = r \o a
    OBVIOUS
  <2>2. r \in Seq(Line) /\ a \in Seq(Line) /\ b \in Seq(Line)
    BY <1>7, <1>9, <1>10
  <2>3. /\ c \in Seq(Line) /\ Len(c) = Len(r) + Len(a)
        /\ \A i \in 1 .. Len(r) : c[i] = r[i]
        /\ \A i \in 1 .. Len(a) : c[Len(r) + i] = a[i]
    BY <2>1, <2>2, AppendedTo
  <2>4. /\ q \in Seq(Line) /\ Len(q) = Len(c) + Len(b)
        /\ \A i \in 1 .. Len(c) : q[i] = c[i]
        /\ \A i \in 1 .. Len(b) : q[Len(c) + i] = b[i]
    BY <1>4, <2>1, <2>2, <2>3, AppendedTo
  <2>5. Len(r) \in Nat /\ Len(a) \in Nat
    BY <1>7, <1>9
  <2> QED
    BY <2>3, <2>4, <2>5
<1>12. Len(r) \in Nat /\ Len(a) \in Nat /\ Len(b) \in Nat
  BY <1>7, <1>9, <1>10
<1>13. ASSUME NEW i \in 1 .. Len(q), q[i].plain, q[i].key \in Updated
       PROVE  q[i].value = updates[q[i].key]
  <2>1. CASE i \in 1 .. Len(r)
    BY <1>7, <1>11, <1>13, <2>1
  <2>2. CASE i - Len(r) \in 1 .. Len(a)
    <3>1. PICK j \in 1 .. Len(a) : i = Len(r) + j
      <4>1. i = Len(r) + (i - Len(r))
        BY <1>12
      <4> QED
        BY <2>2, <4>1
    <3> QED
      BY <1>9, <1>11, <3>1
  <2>3. CASE i - (Len(r) + Len(a)) \in 1 .. Len(b)
    <3>1. PICK j \in 1 .. Len(b) : i = Len(r) + Len(a) + j
      <4>1. i = Len(r) + Len(a) + (i - (Len(r) + Len(a)))
        BY <1>12
      <4> QED
        BY <2>3, <4>1
    <3> QED
      BY <1>10, <1>11, <3>1
  <2> QED
    BY <1>11, <1>12, <2>1, <2>2, <2>3
<1>14. \E i \in 1 .. Len(q) : q[i].key = "API_KEY"
  <2>1. CASE \E i \in 1 .. Len(lines) : lines[i].plain /\ lines[i].key = "API_KEY"
    BY <1>7, <1>11, <1>12, <2>1
  <2>2. CASE \A i \in 1 .. Len(lines) : ~(lines[i].plain /\ lines[i].key = "API_KEY")
    <3>1. Len(a) = 1 /\ q[Len(r) + 1] = a[1] /\ a[1].key = "API_KEY"
      BY <1>9, <1>11, <2>2
    <3>2. Len(r) + 1 \in 1 .. Len(q)
      BY <1>11, <1>12, <3>1
    <3> QED
      BY <3>1, <3>2
  <2> QED
    BY <2>1, <2>2
<1>15. \E i \in 1 .. Len(q) : q[i].key = "SERVER_ID"
  <2>1. CASE \E i \in 1 .. Len(lines) : lines[i].plain /\ lines[i].key = "SERVER_ID"
    BY <1>7, <1>11, <1>12, <2>1
  <2>2. CASE \A i \in 1 .. Len(lines) : ~(lines[i].plain /\ lines[i].key = "SERVER_ID")
    <3>1. Len(b) = 1 /\ q[Len(r) + Len(a) + 1] = b[1] /\ b[1].key = "SERVER_ID"
      BY <1>10, <1>11, <2>2
    <3>2. Len(r) + Len(a) + 1 \in 1 .. Len(q)
      BY <1>11, <1>12, <3>1
    <3> QED
      BY <3>1, <3>2
  <2> QED
    BY <2>1, <2>2
<1>16. KeptOf(u, q, Len(q))
  BY <1>5, <1>11, NonBlankKept
<1>17. u \in Seq(Line)
  BY <1>16 DEF KeptOf
<1>18. ASSUME NEW key \in Updated, \E i \in 1 .. Len(q) : q[i].key = key
       PROVE  Setting(u, key) = updates[key] \/ Overridden(u, key)
  <2>1. PICK i \in 1 .. Len(q) : q[i].key = key
    BY <1>18
  <2>2. PICK j \in 1 .. Len(u) : u[j] = q[i]
    BY <1>16, <2>1 DEF KeptOf
  <2>3. \E n \in DOMAIN u : u[n].key = key
    BY <1>17, <2>1, <2>2
  <2>4. PICK n \in DOMAIN u : /\ u[n].key = key /\ Setting(u, key) = u[n].value
                              /\ \A k \in DOMAIN u : u[k].key = key => k <= n
    BY <1>17, <2>3, SettingOf
  <2>5. n \in 1 .. Len(u)
    BY <1>17, <2>4
  <2>6. PICK m \in 1 .. Len(q) : u[n] = q[m]
    BY <1>16, <2>5 DEF KeptOf
  <2>7. CASE u[n].plain
    BY <1>13, <2>4, <2>6, <2>7
  <2>8. CASE ~u[n].plain
    BY <2>4, <2>8 DEF Overridden
  <2> QED
    BY <2>7, <2>8
<1> QED
  BY <1>6, <1>14, <1>15, <1>17, <1>18

-----------------------------------------------------------------------------
(* The types, and the credential in .env.                                  *)

\* A run of register.js that has ended well stays as it is.
LEMMA DoneStays ==
    ASSUME RegistrationInv, RegistrationNext, NEW r \in Requests, registrar[r].pc = "done"
    PROVE  registrar'[r] = registrar[r]
<1>1. registrar \in [Requests -> Registrar]
  BY Types
<1>2. ASSUME NEW q \in Requests, NEW x, Move(q, x), q # r
      PROVE  registrar'[r] = registrar[r]
  BY <1>1, <1>2 DEF Move
<1>3. ASSUME NEW q \in Requests, Register(q) \/ LoseRequest(q)
      PROVE  q # r /\ \E x : Move(q, x)
  BY <1>3 DEF Register, create, pollResult, getResult, ExpireResult, Deliver, LoseRequest
<1>4. ASSUME NEW q \in Requests, Expire(q)
      PROVE  registrar' = registrar
  BY <1>4 DEF Expire
<1>5. ASSUME NEW c \in Slots, NEW q \in Requests, NEW u \in Users, NEW approve \in BOOLEAN,
             decide(c, q, u, approve)
      PROVE  registrar' = registrar
  BY <1>5 DEF decide
<1>6. ASSUME NEW c \in Slots, DecideStep(c)
      PROVE  registrar' = registrar
  BY <1>6 DEF DecideStep, DecideExpire, DecideReject, DecideApprove
<1>7. CASE findPendingForOwner
  BY <1>7 DEF findPendingForOwner
<1>8. ASSUME NEW u \in Users, AddServer(u)
      PROVE  registrar' = registrar
  BY <1>8 DEF AddServer
<1>9. ASSUME NEW i \in Ids, RemoveServer(i)
      PROVE  registrar' = registrar
  BY <1>9 DEF RemoveServer
<1> QED
  BY <1>2, <1>3, <1>4, <1>5, <1>6, <1>7, <1>8, <1>9 DEF RegistrationNext

\* The end of register.js writes the credential, and no other step of a
\* registration touches .env.
LEMMA EnvStep ==
    ASSUME RegistrationInv, RegistrationInv', env \in [Requests -> Seq(Line)],
           EnvHoldsCredential, RegistrationStep
    PROVE  env' \in [Requests -> Seq(Line)] /\ EnvHoldsCredential'
<1>1. registrar' \in [Requests -> Registrar]
  BY DEF RegistrationInv, RegistrationTypeOK
<1>2. RegistrationNext
  BY DEF RegistrationStep
<1>3. env' = [r \in Requests |->
          IF registrar[r].pc # "done" /\ registrar'[r].pc = "done"
          THEN upsertEnv(env[r], [API_KEY |-> registrar'[r].key,
                                  SERVER_ID |-> registrar'[r].server])
          ELSE env[r]]
  BY DEF RegistrationStep
<1>4. ASSUME NEW r \in Requests
      PROVE  /\ env'[r] \in Seq(Line)
             /\ registrar'[r].pc = "done" =>
                   /\ \/ Setting(env'[r], "API_KEY") = registrar'[r].key
                      \/ Overridden(env'[r], "API_KEY")
                   /\ \/ Setting(env'[r], "SERVER_ID") = registrar'[r].server
                      \/ Overridden(env'[r], "SERVER_ID")
  <2>1. CASE registrar[r].pc # "done" /\ registrar'[r].pc = "done"
    <3>1. PICK w : w = registrar'[r]
      OBVIOUS
    <3>2. w.key \in 0 .. MaxServers /\ w.server \in 0 .. MaxServers
      BY <1>1, <3>1 DEF Registrar
    <3>3. PICK updates : updates = [API_KEY |-> w.key, SERVER_ID |-> w.server]
      OBVIOUS
    <3>4. /\ updates \in [{"API_KEY", "SERVER_ID"} -> 0 .. MaxServers]
          /\ updates["API_KEY"] = w.key /\ updates["SERVER_ID"] = w.server
      BY <3>2, <3>3
    <3>5. PICK e : e = env[r]
      OBVIOUS
    <3>6. e \in Seq(Line)
      BY <3>5
    <3>7. env'[r] = upsertEnv(e, updates)
      BY <1>3, <2>1, <3>1, <3>3, <3>5
    <3>8. /\ upsertEnv(e, updates) \in Seq(Line)
          /\ \/ Setting(upsertEnv(e, updates), "API_KEY") = updates["API_KEY"]
             \/ Overridden(upsertEnv(e, updates), "API_KEY")
          /\ \/ Setting(upsertEnv(e, updates), "SERVER_ID") = updates["SERVER_ID"]
             \/ Overridden(upsertEnv(e, updates), "SERVER_ID")
      BY <3>4, <3>6, UpsertHolds
    <3> QED
      BY <3>1, <3>4, <3>7, <3>8
  <2>2. CASE ~(registrar[r].pc # "done" /\ registrar'[r].pc = "done")
    <3>1. env'[r] = env[r]
      BY <1>3, <2>2
    <3>2. registrar'[r].pc = "done" => registrar'[r] = registrar[r]
      BY <1>2, <2>2, DoneStays
    <3> QED
      BY <3>1, <3>2 DEF EnvHoldsCredential
  <2> QED
    BY <2>1, <2>2
<1>5. env' \in [Requests -> Seq(Line)]
  BY <1>3, <1>4
<1> QED
  BY <1>4, <1>5 DEF EnvHoldsCredential

\* Other steps leave the file and the runs that ended well alone.
LEMMA EnvFrame ==
    ASSUME EnvHoldsCredential, UNCHANGED env,
           \A r \in Requests : registrar'[r] = registrar[r] \/ registrar'[r].pc # "done"
    PROVE  EnvHoldsCredential'
BY DEF EnvHoldsCredential

\* The sockets after one of them, or all of them, have changed.
LEMMA SocketsTyped ==
    ASSUME socket \in Seq(Socket), Len(socket) <= MaxSockets,
           NEW q, q = [k \in Sockets |-> q[k]], \A k \in Sockets : q[k] \in Socket
    PROVE  q \in Seq(Socket) /\ Len(q) <= MaxSockets
<1>1. Len(socket) \in Nat /\ Sockets = 1 .. Len(socket)
  BY DEF Sockets
<1>2. q \in [1 .. Len(socket) -> Socket]
  BY <1>1
<1>3. q \in Seq(Socket) /\ Len(q) = Len(socket)
  BY <1>1, <1>2
<1> QED
  BY <1>3

\* One socket changes.
LEMMA SetTyped ==
    ASSUME socket \in Seq(Socket), Len(socket) <= MaxSockets,
           NEW k \in Sockets, NEW s \in Socket, Set(k, s)
    PROVE  socket' \in Seq(Socket) /\ Len(socket') <= MaxSockets
<1>1. socket \in [1 .. Len(socket) -> Socket] /\ Sockets = 1 .. Len(socket)
  BY LenProperties DEF Sockets
<1>2. PICK q : q = socket'
  OBVIOUS
<1>3. q = [socket EXCEPT ![k] = s]
  BY <1>2 DEF Set
<1>4. q \in [Sockets -> Socket]
  BY <1>1, <1>3
<1>5. q = [j \in Sockets |-> q[j]] /\ \A j \in Sockets : q[j] \in Socket
  BY <1>4
<1> QED
  BY <1>2, <1>5, SocketsTyped

\* What the type invariant says of the daemons and the sockets.
EndsTypeOK ==
    /\ process \in [Requests -> [runs : BOOLEAN, key : 0 .. MaxServers]]
    /\ current \in [Requests -> 0 .. MaxSockets]
    /\ socket \in Seq(Socket) /\ Len(socket) <= MaxSockets

\* It depends on the daemons, their sockets and the status column only.
LEMMA EndsAndStatus ==
    ASSUME PresenceTypeOK, EndsTypeOK', UNCHANGED <<env, crashes>>,
           status' \in [Ids -> {"ONLINE", "OFFLINE"}], raced' \in BOOLEAN
    PROVE  PresenceTypeOK'
BY DEF PresenceTypeOK, EndsTypeOK

\* The daemon process starts, stops, connects and sees its connection end.
LEMMA DaemonTyped ==
    ASSUME PresenceTypeOK, NEW r \in Requests,
           Start(r) \/ Stop(r) \/ Connect(r) \/ onDisconnect(r)
    PROVE  PresenceTypeOK'
<1>1. /\ process \in [Requests -> [runs : BOOLEAN, key : 0 .. MaxServers]]
      /\ current \in [Requests -> 0 .. MaxSockets]
      /\ socket \in Seq(Socket) /\ Len(socket) <= MaxSockets
      /\ env \in [Requests -> Seq(Line)]
      /\ status \in [Ids -> {"ONLINE", "OFFLINE"}] /\ raced \in BOOLEAN
  BY DEF PresenceTypeOK
<1>2. UNCHANGED <<env, status, raced, crashes>>
  BY DEF Start, Stop, Connect, onDisconnect
<1>3. NoProcess \in [runs : BOOLEAN, key : 0 .. MaxServers]
  BY RegistrationAssumption DEF NoProcess
<1>4. 0 \in 0 .. MaxSockets
  BY PresenceAssumption
<1>5. CASE Start(r)
  <2>1. Setting(env[r], "API_KEY") \in 0 .. MaxServers
    BY <1>1, SettingTyped
  <2>2. /\ process' = [process EXCEPT ![r] =
              [runs |-> TRUE, key |-> Setting(env[r], "API_KEY")]]
        /\ UNCHANGED <<current, socket>>
    BY <1>5 DEF Start
  <2>3. EndsTypeOK'
    BY <1>1, <2>1, <2>2 DEF EndsTypeOK
  <2> QED
    BY <1>1, <1>2, <2>3, EndsAndStatus
<1>6. CASE Stop(r)
  <2>1. /\ process' = [process EXCEPT ![r] = NoProcess]
        /\ current' = [current EXCEPT ![r] = 0]
        /\ socket' = [k \in Sockets |->
              IF k = current[r] THEN [socket[k] EXCEPT !.wire = FALSE] ELSE socket[k]]
    BY <1>6 DEF Stop
  <2>2. ASSUME NEW k \in Sockets
        PROVE  socket'[k] \in Socket
    <3>1. socket[k] \in Socket
      BY <1>1 DEF Sockets
    <3>2. [socket[k] EXCEPT !.wire = FALSE] \in Socket
      BY <3>1 DEF Socket
    <3> QED
      BY <2>1, <3>1, <3>2
  <2>3. PICK q : q = socket'
    OBVIOUS
  <2>4. q = [k \in Sockets |-> q[k]] /\ \A k \in Sockets : q[k] \in Socket
    BY <2>1, <2>2, <2>3
  <2>5. socket' \in Seq(Socket) /\ Len(socket') <= MaxSockets
    BY <1>1, <2>3, <2>4, SocketsTyped
  <2>6. EndsTypeOK'
    BY <1>1, <1>3, <1>4, <2>1, <2>5 DEF EndsTypeOK
  <2> QED
    BY <1>1, <1>2, <2>6, EndsAndStatus
<1>7. CASE Connect(r)
  <2>1. PICK s : s = [machine |-> r, key |-> process[r].key, server |-> 0,
                      lookup |-> TRUE, wire |-> TRUE, gone |-> FALSE, room |-> FALSE,
                      beat |-> FALSE, off |-> FALSE]
    OBVIOUS
  <2>2. /\ socket' = Append(socket, s) /\ Len(socket) < MaxSockets
        /\ current' = [current EXCEPT ![r] = Len(socket) + 1]
        /\ process' = process
    BY <1>7, <2>1 DEF Connect
  <2>3. process[r].key \in 0 .. MaxServers
    BY <1>1
  <2>4. s \in Socket
    BY <2>1, <2>3, RegistrationAssumption DEF Socket
  <2>5. Len(socket) \in Nat /\ Len(socket) + 1 \in 0 .. MaxSockets
    BY <1>1, <2>2, PresenceAssumption
  <2>6. socket' \in Seq(Socket) /\ Len(socket') = Len(socket) + 1
    BY <1>1, <2>2, <2>4
  <2>7. EndsTypeOK'
    BY <1>1, <2>2, <2>5, <2>6 DEF EndsTypeOK
  <2> QED
    BY <1>1, <1>2, <2>7, EndsAndStatus
<1>8. CASE onDisconnect(r)
  <2>1. EndsTypeOK'
    BY <1>1, <1>4, <1>8 DEF onDisconnect, EndsTypeOK
  <2> QED
    BY <1>1, <1>2, <2>1, EndsAndStatus
<1> QED
  BY <1>5, <1>6, <1>7, <1>8

\* A handler of the gateway changes one socket.
LEMMA GatewayTyped ==
    ASSUME PresenceTypeOK, NEW k \in Sockets, NEW s \in Socket, Set(k, s),
           process' \in [Requests -> [runs : BOOLEAN, key : 0 .. MaxServers]],
           current' \in [Requests -> 0 .. MaxSockets],
           UNCHANGED <<env, crashes>>,
           status' \in [Ids -> {"ONLINE", "OFFLINE"}], raced' \in BOOLEAN
    PROVE  PresenceTypeOK'
<1>1. socket \in Seq(Socket) /\ Len(socket) <= MaxSockets
  BY DEF PresenceTypeOK
<1>2. socket' \in Seq(Socket) /\ Len(socket') <= MaxSockets
  BY <1>1, SetTyped
<1>3. EndsTypeOK'
  BY <1>2 DEF EndsTypeOK
<1> QED
  BY <1>3, EndsAndStatus

\* The steps of one socket.
LEMMA SocketStepTyped ==
    ASSUME PresenceTypeOK, NEW k \in Sockets, Break(k) \/ Gateway(k) \/ onHeartbeat(k)
    PROVE  PresenceTypeOK'
<1>1. /\ process \in [Requests -> [runs : BOOLEAN, key : 0 .. MaxServers]]
      /\ current \in [Requests -> 0 .. MaxSockets]
      /\ socket[k] \in Socket
      /\ status \in [Ids -> {"ONLINE", "OFFLINE"}] /\ raced \in BOOLEAN
  BY DEF PresenceTypeOK, Sockets
<1>2. PICK x \in Socket : x = socket[k]
  BY <1>1
<1>3. /\ x.server \in 0 .. MaxServers /\ x.machine \in Requests
      /\ x.lookup \in BOOLEAN /\ x.wire \in BOOLEAN /\ x.gone \in BOOLEAN
      /\ x.room \in BOOLEAN /\ x.beat \in BOOLEAN /\ x.off \in BOOLEAN
  BY DEF Socket
<1>4. CASE Break(k)
  <2>1. [x EXCEPT !.wire = FALSE] \in Socket
    BY DEF Socket
  <2>2. Set(k, [x EXCEPT !.wire = FALSE]) /\ UNCHANGED <<env, process, current, status, raced, crashes>>
    BY <1>2, <1>4 DEF Break
  <2> QED
    BY <1>1, <2>1, <2>2, GatewayTyped
<1>5. CASE Accept(k)
  <2>1. PICK i \in Ids : Set(k, [x EXCEPT !.lookup = FALSE, !.server = i,
                                         !.room = ~x.gone, !.beat = TRUE])
    BY <1>2, <1>5 DEF Accept, Holders
  <2>2. i \in 0 .. MaxServers
    BY RegistrationAssumption DEF Ids
  <2>3. (~x.gone) \in BOOLEAN
    BY <1>3
  <2>4. [x EXCEPT !.lookup = FALSE, !.server = i, !.room = ~x.gone, !.beat = TRUE] \in Socket
    BY <2>2, <2>3 DEF Socket
  <2>5. UNCHANGED <<env, process, current, status, raced, crashes>>
    BY <1>5 DEF Accept
  <2> QED
    BY <1>1, <2>1, <2>4, <2>5, GatewayTyped
<1>6. CASE Refuse(k)
  <2>1. [x EXCEPT !.lookup = FALSE, !.wire = FALSE, !.gone = TRUE] \in Socket
    BY DEF Socket
  <2>2. /\ Set(k, [x EXCEPT !.lookup = FALSE, !.wire = FALSE, !.gone = TRUE])
        /\ UNCHANGED <<env, status, raced, crashes>>
    BY <1>2, <1>6 DEF Refuse
  <2>3. \/ /\ process' = [process EXCEPT ![x.machine] = NoProcess]
           /\ current' = [current EXCEPT ![x.machine] = 0]
        \/ UNCHANGED <<process, current>>
    BY <1>2, <1>6 DEF Refuse
  <2>4. /\ NoProcess \in [runs : BOOLEAN, key : 0 .. MaxServers]
        /\ 0 \in 0 .. MaxSockets
    BY RegistrationAssumption, PresenceAssumption DEF NoProcess
  <2>5. /\ process' \in [Requests -> [runs : BOOLEAN, key : 0 .. MaxServers]]
        /\ current' \in [Requests -> 0 .. MaxSockets]
    BY <1>1, <2>3, <2>4
  <2> QED
    BY <1>1, <2>1, <2>2, <2>5, GatewayTyped
<1>7. CASE handleDisconnect(k)
  <2>1. PICK off \in BOOLEAN : off = (x.server # 0)
    OBVIOUS
  <2>2. [x EXCEPT !.gone = TRUE, !.room = FALSE, !.off = off] \in Socket
    BY DEF Socket
  <2>3. /\ Set(k, [x EXCEPT !.gone = TRUE, !.room = FALSE, !.off = x.server # 0])
        /\ raced' = (raced \/ x.lookup \/ x.beat)
        /\ UNCHANGED <<env, process, current, status, crashes>>
    BY <1>2, <1>7, Zenon DEF handleDisconnect
  <2>4. raced' \in BOOLEAN
    BY <2>3
  <2>5. Set(k, [x EXCEPT !.gone = TRUE, !.room = FALSE, !.off = off])
    BY <2>1, <2>3, Zenon
  <2> QED
    BY <1>1, <2>2, <2>3, <2>4, <2>5, GatewayTyped
<1>8. CASE markHeartbeat(k) \/ markOffline(k)
  <2>1. [x EXCEPT !.beat = FALSE] \in Socket /\ [x EXCEPT !.off = FALSE] \in Socket
    BY DEF Socket
  <2>2. /\ Set(k, [x EXCEPT !.beat = FALSE]) \/ Set(k, [x EXCEPT !.off = FALSE])
        /\ SetPresence(x.server, "ONLINE") \/ SetPresence(x.server, "OFFLINE")
        /\ UNCHANGED <<env, process, current, raced, crashes>>
    BY <1>2, <1>8 DEF markHeartbeat, markOffline
  <2>3. status' \in [Ids -> {"ONLINE", "OFFLINE"}]
    BY <1>1, <2>2 DEF SetPresence
  <2> QED
    BY <1>1, <2>1, <2>2, <2>3, GatewayTyped
<1>9. CASE onHeartbeat(k)
  <2>1. [x EXCEPT !.beat = TRUE] \in Socket
    BY DEF Socket
  <2>2. Set(k, [x EXCEPT !.beat = TRUE]) /\ UNCHANGED <<env, process, current, status, raced, crashes>>
    BY <1>2, <1>9 DEF onHeartbeat
  <2> QED
    BY <1>1, <2>1, <2>2, GatewayTyped
<1> QED
  BY <1>4, <1>5, <1>6, <1>7, <1>8, <1>9 DEF Gateway

\* A crash of the Hub closes every socket and counts.
LEMMA CrashTyped ==
    ASSUME PresenceTypeOK, HubCrash
    PROVE  PresenceTypeOK'
<1>1. socket \in Seq(Socket) /\ Len(socket) <= MaxSockets /\ crashes \in 0 .. MaxCrashes
  BY DEF PresenceTypeOK
<1>2. /\ crashes < MaxCrashes /\ crashes' = crashes + 1
      /\ socket' = [k \in Sockets |->
            [socket[k] EXCEPT !.lookup = FALSE, !.wire = FALSE, !.gone = TRUE,
                              !.room = FALSE, !.beat = FALSE, !.off = FALSE]]
      /\ UNCHANGED <<env, process, current, status, raced>>
  BY DEF HubCrash
<1>3. ASSUME NEW k \in Sockets
      PROVE  socket'[k] \in Socket
  <2>1. PICK x \in Socket : x = socket[k]
    BY <1>1 DEF Sockets
  <2>2. [x EXCEPT !.lookup = FALSE, !.wire = FALSE, !.gone = TRUE,
                  !.room = FALSE, !.beat = FALSE, !.off = FALSE] \in Socket
    BY DEF Socket
  <2> QED
    BY <1>2, <2>1, <2>2
<1>4. PICK q : q = socket'
  OBVIOUS
<1>5. q = [k \in Sockets |-> q[k]] /\ \A k \in Sockets : q[k] \in Socket
  BY <1>2, <1>3, <1>4
<1>6. socket' \in Seq(Socket) /\ Len(socket') <= MaxSockets
  BY <1>1, <1>4, <1>5, SocketsTyped
<1>7. crashes' \in 0 .. MaxCrashes
  <2>1. crashes \in Nat /\ MaxCrashes \in Nat
    BY <1>1, PresenceAssumption
  <2>2. crashes < MaxCrashes /\ crashes' = crashes + 1
    BY DEF HubCrash
  <2> QED
    BY <2>1, <2>2
<1> QED
  BY <1>2, <1>6, <1>7 DEF PresenceTypeOK

\* Every step keeps the types and the credentials in the files.
LEMMA EnvNextOK ==
    ASSUME RegistrationInv, RegistrationInv', PresenceTypeOK, EnvHoldsCredential,
           [PresenceNext]_presenceVars
    PROVE  PresenceTypeOK' /\ EnvHoldsCredential'
<1>1. CASE UNCHANGED presenceVars
  BY <1>1 DEF presenceVars, presence, ends, regVars, PresenceTypeOK, EnvHoldsCredential
<1>2. CASE RegistrationStep
  <2>1. env' \in [Requests -> Seq(Line)] /\ EnvHoldsCredential'
    BY <1>2, EnvStep DEF PresenceTypeOK
  <2>2. UNCHANGED <<process, current, socket, status, raced, crashes>>
    BY <1>2 DEF RegistrationStep
  <2> QED
    BY <2>1, <2>2 DEF PresenceTypeOK
<1>3. ASSUME NEW r \in Requests, Start(r) \/ Stop(r) \/ Connect(r) \/ onDisconnect(r)
      PROVE  PresenceTypeOK' /\ EnvHoldsCredential'
  <2>1. UNCHANGED <<env, registrar>>
    BY <1>3 DEF Start, Stop, Connect, onDisconnect, regVars
  <2> QED
    BY <1>3, <2>1, DaemonTyped, EnvFrame
<1>4. ASSUME NEW k \in Sockets, Break(k) \/ Gateway(k) \/ onHeartbeat(k)
      PROVE  PresenceTypeOK' /\ EnvHoldsCredential'
  <2>1. UNCHANGED <<env, registrar>>
    BY <1>4 DEF Break, Gateway, Accept, Refuse, handleDisconnect, markHeartbeat, markOffline,
       onHeartbeat, regVars
  <2> QED
    BY <1>4, <2>1, SocketStepTyped, EnvFrame
<1>5. CASE HubCrash
  <2>1. UNCHANGED env
    BY <1>5 DEF HubCrash
  <2>2. \A r \in Requests : registrar'[r] = registrar[r] \/ registrar'[r].pc # "done"
    BY <1>5 DEF HubCrash, At
  <2> QED
    BY <1>5, <2>1, <2>2, CrashTyped, EnvFrame
<1> QED
  BY <1>1, <1>2, <1>3, <1>4, <1>5 DEF PresenceNext

\* They hold at the start: nobody has registered.
LEMMA EnvInitOK ==
    ASSUME PresenceInit
    PROVE  PresenceTypeOK /\ EnvHoldsCredential
<1>1. \A r \in Requests : env[r] \in Seq(Line)
  BY EnvAssumption DEF PresenceInit
<1>2. env \in [Requests -> Seq(Line)]
  BY <1>1 DEF PresenceInit
<1>3. NoProcess \in [runs : BOOLEAN, key : 0 .. MaxServers]
  BY RegistrationAssumption DEF NoProcess
<1>4. socket \in Seq(Socket) /\ Len(socket) = 0
  BY DEF PresenceInit
<1>5. PresenceTypeOK
  <2>1. /\ process = [r \in Requests |-> NoProcess]
        /\ current = [r \in Requests |-> 0]
        /\ status = [i \in Ids |-> "OFFLINE"] /\ raced = FALSE /\ crashes = 0
    BY DEF PresenceInit
  <2>2. 0 \in 0 .. MaxSockets /\ 0 \in 0 .. MaxCrashes /\ Len(socket) <= MaxSockets
    BY <1>4, PresenceAssumption
  <2>3. process \in [Requests -> [runs : BOOLEAN, key : 0 .. MaxServers]]
    BY <1>3, <2>1
  <2>4. current \in [Requests -> 0 .. MaxSockets]
    BY <2>1, <2>2
  <2> QED
    BY <1>2, <1>4, <2>1, <2>2, <2>3, <2>4 DEF PresenceTypeOK
<1>6. \A r \in Requests : registrar[r].pc # "done"
  BY DEF PresenceInit, RegistrationInit, At
<1> QED
  BY <1>5, <1>6 DEF EnvHoldsCredential

\* The types and the contents of the files are kept together: what a daemon
\* reads is typed because the file is.
THEOREM EnvInvariance == PresenceSpec => [](PresenceTypeOK /\ EnvHoldsCredential)
<1>1. PresenceInit => PresenceTypeOK /\ EnvHoldsCredential
  BY EnvInitOK
<1>2. PresenceInv /\ PresenceInv' /\ (PresenceTypeOK /\ EnvHoldsCredential)
          /\ [PresenceNext]_presenceVars
          => (PresenceTypeOK /\ EnvHoldsCredential)'
  BY EnvNextOK DEF PresenceInv
<1> QED
  BY <1>1, <1>2, PresenceInvariance, PTL DEF PresenceSpec

\* Every daemon starts with a key of the Hub or none, and every socket is of a
\* machine, a key and a server that exist.
THEOREM PresenceTypes == PresenceSpec => []PresenceTypeOK
BY EnvInvariance, PTL

\* What register.js leaves in .env is the credential of its run, whatever the
\* file held before (repeated keys, empty lines, an older registration, lines
\* that only dotenv reads), unless the last line of a key is one that only
\* dotenv reads: upsertEnv leaves it alone, and it wins.
THEOREM EnvHoldsTheCredential == PresenceSpec => []EnvHoldsCredential
BY EnvInvariance, PTL

=============================================================================
