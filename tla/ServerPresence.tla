---------------------------- MODULE ServerPresence ----------------------------
(***************************************************************************)
(* From a registration to a server that shows ONLINE: register.js writes   *)
(* the credential into .env (upsertEnv), the daemon is started, reads it   *)
(* (config.js) and connects; DaemonGateway looks the API key up, lets the  *)
(* socket join its room and keeps the status column of the server.         *)
(*                                                                         *)
(* Extends ServerRegistration, whose steps go on all the while: requests   *)
(* are decided, servers are added and removed.  handleConnection waits for *)
(* its lookup, and every status update is under way for a while: updates   *)
(* of different handlers may reach the database in any order.              *)
(***************************************************************************)
EXTENDS ServerRegistration, Sequences

CONSTANTS
    EnvFiles,    \* what may be in the .env of each machine before it registers
    MaxSockets,  \* bound on the connections daemons make
    MaxCrashes   \* bound on restarts of the Hub

ASSUME PresenceAssumption == MaxSockets \in Nat /\ MaxCrashes \in Nat

VARIABLES
    env,      \* the .env file of each machine, a sequence of lines
    process,  \* the daemon of each machine: whether it runs, and its API_KEY
    current,  \* the socket its client holds, 0 while disconnected
    socket,   \* the Hub's end of the connections made so far
    status,   \* table servers, column status
    raced,    \* a socket has been closed while its own markHeartbeat was due
    crashes

ends == <<env, process, current, socket>>
presence == <<ends, status, raced, crashes>>
presenceVars == <<regVars, presence>>

Sockets == DOMAIN socket

\* lookup: findByApiKey is awaited; wire: the connection stands; gone: the Hub
\* has seen it close; beat, off: a markHeartbeat or markOffline is under way.
Socket == [machine : Requests, key : 0 .. MaxServers, server : 0 .. MaxServers,
           lookup : BOOLEAN, wire : BOOLEAN, gone : BOOLEAN, room : BOOLEAN,
           beat : BOOLEAN, off : BOOLEAN]

\* A line of .env.  dotenv reads more forms than the expression of upsertEnv
\* matches ("export API_KEY=x", "API_KEY = x", a leading space): those lines are
\* not plain.
Line == [key : {"API_KEY", "SERVER_ID", "OTHER", "blank"}, plain : BOOLEAN,
         value : 0 .. MaxServers]

ASSUME EnvAssumption == \A r \in Requests : EnvFiles[r] \subseteq Seq(Line)

NoProcess == [runs |-> FALSE, key |-> 0]

PresenceTypeOK ==
    /\ env \in [Requests -> Seq(Line)]
    /\ process \in [Requests -> [runs : BOOLEAN, key : 0 .. MaxServers]]
    /\ current \in [Requests -> 0 .. MaxSockets]
    /\ socket \in Seq(Socket) /\ Len(socket) <= MaxSockets
    /\ status \in [Ids -> {"ONLINE", "OFFLINE"}]
    /\ raced \in BOOLEAN
    /\ crashes \in 0 .. MaxCrashes

PresenceInit ==
    /\ RegistrationInit
    /\ env \in [Requests -> UNION {EnvFiles[r] : r \in Requests}]
    /\ \A r \in Requests : env[r] \in EnvFiles[r]
    /\ process = [r \in Requests |-> NoProcess]
    /\ current = [r \in Requests |-> 0]
    /\ socket = <<>>
    /\ status = [i \in Ids |-> "OFFLINE"]
    /\ raced = FALSE
    /\ crashes = 0

-----------------------------------------------------------------------------
(* The .env file.                                                          *)

\* Mutant: only the first line of a key is replaced.
Replaced_FirstOnly(lines, updates) ==
    [i \in DOMAIN lines |->
        IF /\ lines[i].plain /\ lines[i].key \in DOMAIN updates
           /\ \A j \in 1 .. i - 1 : lines[j].key # lines[i].key
        THEN [lines[i] EXCEPT !.value = updates[lines[i].key]] ELSE lines[i]]

\* Every plain line of an updated key gets the new value.
Replaced(lines, updates) ==
    [i \in DOMAIN lines |->
        IF lines[i].plain /\ lines[i].key \in DOMAIN updates
        THEN [lines[i] EXCEPT !.value = updates[lines[i].key]] ELSE lines[i]]

\* Mutant: a key that is appended gets a name that config.js does not read.
AppendedLine_OtherName(lines, updates, key) ==
    IF \E i \in DOMAIN lines : lines[i].plain /\ lines[i].key = key THEN <<>>
    ELSE <<[key |-> "KEY", plain |-> TRUE, value |-> updates[key]]>>

\* An updated key that has no plain line gets one.
AppendedLine(lines, updates, key) ==
    IF \E i \in DOMAIN lines : lines[i].plain /\ lines[i].key = key THEN <<>>
    ELSE <<[key |-> key, plain |-> TRUE, value |-> updates[key]]>>

\* filter(Boolean): empty lines are dropped.  A recursive function and not
\* SelectSeq, of which the provers know nothing.
NonBlank(lines) ==
    LET kept[n \in 0 .. Len(lines)] ==
            IF n = 0 THEN <<>>
            ELSE IF lines[n].key = "blank" THEN kept[n - 1]
                                           ELSE Append(kept[n - 1], lines[n])
    IN kept[Len(lines)]

upsertEnv(lines, updates) ==
    NonBlank(Replaced(lines, updates)
                 \o AppendedLine(lines, updates, "API_KEY")
                 \o AppendedLine(lines, updates, "SERVER_ID"))

\* dotenv: the last line of a key counts, plain or not.  0 is no value, or one the Hub has
\* never issued.
Setting(lines, key) ==
    LET at == {i \in DOMAIN lines : lines[i].key = key}
    IN IF at = {} THEN 0 ELSE lines[CHOOSE i \in at : \A j \in at : j <= i].value

\* main of register.js: the credential of a finished run goes into .env.
RegistrationStep ==
    /\ RegistrationNext
    /\ env' = [r \in Requests |->
          IF registrar[r].pc # "done" /\ registrar'[r].pc = "done"
          THEN upsertEnv(env[r], [API_KEY |-> registrar'[r].key,
                                  SERVER_ID |-> registrar'[r].server])
          ELSE env[r]]
    /\ UNCHANGED <<process, current, socket, status, raced, crashes>>

-----------------------------------------------------------------------------
(* The daemon process and the network.                                     *)

Set(k, s) == socket' = [socket EXCEPT ![k] = s]

\* config.js reads .env once; without an API_KEY the process ends at once.
Start(r) ==
    /\ ~process[r].runs
    /\ \E i \in DOMAIN env[r] : env[r][i].key = "API_KEY"
    /\ process' = [process EXCEPT ![r] =
          [runs |-> TRUE, key |-> Setting(env[r], "API_KEY")]]
    /\ UNCHANGED <<regVars, env, current, socket, status, raced, crashes>>

\* SIGTERM or SIGINT: shutdown closes the socket.
Stop(r) ==
    /\ process[r].runs
    /\ process' = [process EXCEPT ![r] = NoProcess]
    /\ current' = [current EXCEPT ![r] = 0]
    /\ socket' = [k \in Sockets |->
          IF k = current[r] THEN [socket[k] EXCEPT !.wire = FALSE] ELSE socket[k]]
    /\ UNCHANGED <<regVars, env, status, raced, crashes>>

\* connect, and every reconnection.
Connect(r) ==
    /\ process[r].runs /\ current[r] = 0
    /\ Len(socket) < MaxSockets
    /\ socket' = Append(socket,
          [machine |-> r, key |-> process[r].key, server |-> 0,
           lookup |-> TRUE, wire |-> TRUE, gone |-> FALSE, room |-> FALSE,
           beat |-> FALSE, off |-> FALSE])
    /\ current' = [current EXCEPT ![r] = Len(socket) + 1]
    /\ UNCHANGED <<regVars, env, process, status, raced, crashes>>

\* The connection is lost; the client and the Hub notice on their own.
Break(k) ==
    /\ socket[k].wire
    /\ Set(k, [socket[k] EXCEPT !.wire = FALSE])
    /\ UNCHANGED <<regVars, env, process, current, status, raced, crashes>>

onDisconnect(r) ==
    /\ current[r] # 0
    /\ ~socket[current[r]].wire
    /\ current' = [current EXCEPT ![r] = 0]
    /\ UNCHANGED <<regVars, env, process, socket, status, raced, crashes>>

-----------------------------------------------------------------------------
(* DaemonGateway.                                                          *)

\* findByApiKey; NoServer has key 0, and 0 is no key.
Holders(key) == {i \in Ids : key # 0 /\ server[i].key = key}

\* handleConnection after its lookup: the key of a server lets the socket join
\* the room and starts markHeartbeat, even if the connection is gone by now.
Accept(k) ==
    /\ socket[k].lookup
    /\ \E i \in Holders(socket[k].key) :
          Set(k, [socket[k] EXCEPT !.lookup = FALSE, !.server = i,
                                   !.room = ~socket[k].gone, !.beat = TRUE])
    /\ UNCHANGED <<regVars, env, process, current, status, raced, crashes>>

\* An unknown key: the Hub disconnects, and the daemon exits.
Refuse(k) ==
    LET r == socket[k].machine
    IN /\ socket[k].lookup
       /\ Holders(socket[k].key) = {}
       /\ Set(k, [socket[k] EXCEPT !.lookup = FALSE, !.wire = FALSE, !.gone = TRUE])
       /\ IF current[r] = k /\ socket[k].wire
          THEN process' = [process EXCEPT ![r] = NoProcess] /\ current' = [current EXCEPT ![r] = 0]
          ELSE UNCHANGED <<process, current>>
       /\ UNCHANGED <<regVars, env, status, raced, crashes>>

\* Mutant: the socket leaves, the status stays.
handleDisconnect_Silent(k) ==
    /\ ~socket[k].wire /\ ~socket[k].gone
    /\ Set(k, [socket[k] EXCEPT !.gone = TRUE, !.room = FALSE])
    /\ raced' = (raced \/ socket[k].lookup \/ socket[k].beat)
    /\ UNCHANGED <<regVars, env, process, current, status, crashes>>

\* handleDisconnect: markOffline, if the socket has got its server by now.
handleDisconnect(k) ==
    /\ ~socket[k].wire /\ ~socket[k].gone
    /\ Set(k, [socket[k] EXCEPT !.gone = TRUE, !.room = FALSE,
                                !.off = socket[k].server # 0])
    /\ raced' = (raced \/ socket[k].lookup \/ socket[k].beat)
    /\ UNCHANGED <<regVars, env, process, current, status, crashes>>

\* A heartbeat that comes before the lookup has ended is ignored.
onHeartbeat(k) ==
    /\ socket[k].wire /\ ~socket[k].gone
    /\ socket[k].server # 0
    /\ Set(k, [socket[k] EXCEPT !.beat = TRUE])
    /\ UNCHANGED <<regVars, env, process, current, status, raced, crashes>>

\* The status of a row; the update of a removed server fails.
SetPresence(i, s) ==
    status' = IF server[i] # NoServer THEN [status EXCEPT ![i] = s] ELSE status

\* Mutant: a heartbeat only moves lastHeartbeatAt.
markHeartbeat_TimeOnly(k) ==
    /\ socket[k].beat
    /\ Set(k, [socket[k] EXCEPT !.beat = FALSE])
    /\ status' = status
    /\ UNCHANGED <<regVars, env, process, current, raced, crashes>>

markHeartbeat(k) ==
    /\ socket[k].beat
    /\ Set(k, [socket[k] EXCEPT !.beat = FALSE])
    /\ SetPresence(socket[k].server, "ONLINE")
    /\ UNCHANGED <<regVars, env, process, current, raced, crashes>>

markOffline(k) ==
    /\ socket[k].off
    /\ Set(k, [socket[k] EXCEPT !.off = FALSE])
    /\ SetPresence(socket[k].server, "OFFLINE")
    /\ UNCHANGED <<regVars, env, process, current, raced, crashes>>

\* The Hub dies and comes back: connections, handlers and updates under way
\* are lost, the tables stay.  A register.js that waits for an answer fails.
HubCrash ==
    /\ crashes < MaxCrashes
    /\ crashes' = crashes + 1
    /\ socket' = [k \in Sockets |->
          [socket[k] EXCEPT !.lookup = FALSE, !.wire = FALSE, !.gone = TRUE,
                            !.room = FALSE, !.beat = FALSE, !.off = FALSE]]
    /\ call' = [c \in Slots |-> Idle]
    /\ registrar' = [r \in Requests |->
          IF registrar[r].pc \in {"ask", "expire", "deliver"} THEN At("failed")
                                                              ELSE registrar[r]]
    /\ UNCHANGED <<row, late, server, issued, losses, env, process, current, status, raced>>

-----------------------------------------------------------------------------
Gateway(k) ==
    Accept(k) \/ Refuse(k) \/ handleDisconnect(k) \/ markHeartbeat(k) \/ markOffline(k)

PresenceNext ==
    \/ RegistrationStep
    \/ \E r \in Requests : Start(r) \/ Stop(r) \/ Connect(r) \/ onDisconnect(r)
    \/ \E k \in Sockets : Break(k) \/ Gateway(k) \/ onHeartbeat(k)
    \/ HubCrash

PresenceSpec == PresenceInit /\ [][PresenceNext]_presenceVars

\* The Hub's handlers and updates end, and a daemon that runs keeps sending
\* heartbeats.  Nobody has to start a daemon, and connections may break.
FairPresence ==
    /\ PresenceSpec
    /\ \A r \in Requests : WF_regVars(Register(r)) /\ WF_regVars(Expire(r))
    /\ \A k \in 1 .. MaxSockets :
          /\ WF_presenceVars(k \in Sockets /\ Gateway(k))
          /\ WF_presenceVars(k \in Sockets /\ onHeartbeat(k))

-----------------------------------------------------------------------------
(* Properties.                                                             *)

\* The line of key that dotenv takes is one that upsertEnv does not see.
Overridden(lines, key) ==
    \E i \in DOMAIN lines :
        /\ lines[i].key = key /\ ~lines[i].plain
        /\ \A j \in DOMAIN lines : lines[j].key = key => j <= i

\* What the daemon will load is what the Hub has handed out: once register.js
\* has ended well, API_KEY and SERVER_ID in .env are the credential of this
\* run, whatever the file held before, with one exception: behind a plain line
\* of the key stood another one in a form that dotenv reads and upsertEnv does
\* not match.  Alone such a line does no harm, the key is then appended.
EnvHoldsCredential ==
    \A r \in Requests :
        registrar[r].pc = "done" =>
            /\ \/ Setting(env[r], "API_KEY") = registrar[r].key
               \/ Overridden(env[r], "API_KEY")
            /\ \/ Setting(env[r], "SERVER_ID") = registrar[r].server
               \/ Overridden(env[r], "SERVER_ID")

\* "The server shows ONLINE once the daemon connects and starts heartbeating":
\* a daemon that stays connected with the key of a server is shown ONLINE for
\* good, whatever its older connections still do to the status.
OnlineOnceConnected ==
    \A k \in 1 .. MaxSockets :
        <>[](k \in Sockets /\ socket[k].wire /\ Holders(socket[k].key) # {})
            => <>[](k \in Sockets /\ socket[k].server # 0
                        /\ status[socket[k].server] = "ONLINE")

\* A server that shows ONLINE has a daemon in its room once nothing is under
\* way, unless the Hub was restarted or a socket was closed while its own
\* markHeartbeat was due; nothing else can leave the status behind.
OnlineMeansConnected ==
    (crashes = 0 /\ ~raced
        /\ \A k \in Sockets : /\ ~socket[k].beat /\ ~socket[k].off
                              /\ ~socket[k].lookup
                              /\ socket[k].wire = ~socket[k].gone)
        => \A i \in Ids :
              (server[i] # NoServer /\ status[i] = "ONLINE")
                  => \E k \in Sockets : socket[k].room /\ socket[k].server = i

-----------------------------------------------------------------------------
(* The inductive invariant behind OnlineMeansConnected; module             *)
(* ServerPresenceProofs has the proofs.                                    *)

\* What the Hub's end of a connection is, whatever key it has come with.
SocketTypeOK(s) ==
    /\ s = [machine |-> s.machine, key |-> s.key, server |-> s.server,
            lookup |-> s.lookup, wire |-> s.wire, gone |-> s.gone, room |-> s.room,
            beat |-> s.beat, off |-> s.off]
    /\ {s.lookup, s.wire, s.gone, s.room, s.beat, s.off} \subseteq BOOLEAN

\* A socket has its server and its room from the end of its lookup until the
\* Hub sees it close; an update under way is of that server.  Only a race
\* leaves a lookup or a markHeartbeat of a closed socket under way.
SocketOK(s) ==
    /\ SocketTypeOK(s)
    /\ s.lookup => s.server = 0 /\ ~s.room /\ ~s.beat /\ ~s.off
    /\ (~s.lookup /\ ~s.gone) => s.room
    /\ s.room => ~s.gone
    /\ (s.room \/ s.beat \/ s.off) => s.server \in Ids
    /\ (s.gone /\ (s.lookup \/ s.beat)) => raced
SocketsOK ==
    /\ socket \in Seq({socket[k] : k \in Sockets})
    /\ \A k \in Sockets : SocketOK(socket[k])

\* An id that was not yet issued has no status but the one it will start with.
StatusOK ==
    /\ status \in [Ids -> {"ONLINE", "OFFLINE"}]
    /\ \A i \in Ids : i > issued => status[i] = "OFFLINE"

\* A server shows ONLINE because of a socket in its room, or of one that has
\* left and whose markOffline is under way.
OnlineExplained ==
    (crashes = 0 /\ ~raced) =>
        \A i \in Ids :
            (server[i] # NoServer /\ status[i] = "ONLINE")
                => \E k \in Sockets : /\ socket[k].server = i
                                      /\ socket[k].room \/ socket[k].off

\* All of it, beside the invariant of the registrations.
PresenceInv ==
    /\ RegistrationInv
    /\ raced \in BOOLEAN /\ crashes \in Nat
    /\ SocketsOK /\ StatusOK /\ OnlineExplained

=============================================================================
