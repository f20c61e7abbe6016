--------------------------- MODULE AgentDaemonProofs ---------------------------
(***************************************************************************)
(* Proofs about AgentDaemon, for any set of tasks and daemons, any         *)
(* commands of the Hub and any loss of connections and processes.          *)
(***************************************************************************)
EXTENDS AgentDaemon, TLAPS, SequenceTheorems

Runners == [Tasks -> {NoRunner} \cup Runner]

-----------------------------------------------------------------------------
(* Lemmas about Told.                                                      *)

\* Events that are taken from the front, or dropped with a connection.
LEMMA ToldLess ==
    ASSUME NEW p \in Seq(Event), NEW n \in Nat, NEW rn \in Runners, Told(p, n, rn),
           NEW q \in Seq(Event), NEW k \in Nat,
           \A i \in DOMAIN q : i + k \in DOMAIN p /\ q[i] = p[i + k]
    PROVE  Told(q, n, rn)
<1>1. DOMAIN q = 1 .. Len(q) /\ Len(q) \in Nat
  OBVIOUS
<1>2. ASSUME NEW i \in DOMAIN q, NEW j \in DOMAIN q, i < j, q[i].task = q[j].task
      PROVE  q[i].run <= q[j].run /\ (q[i].event \in Results => q[i].run < q[j].run)
  <2>1. /\ i + k \in DOMAIN p /\ j + k \in DOMAIN p
        /\ q[i] = p[i + k] /\ q[j] = p[j + k]
    OBVIOUS
  <2>2. i + k < j + k
    BY <1>1, <1>2
  <2> QED
    BY <1>2, <2>1, <2>2 DEF Told
<1>3. ASSUME NEW i \in DOMAIN q
      PROVE  /\ q[i].run \in 1 .. n
             /\ rn[q[i].task] # NoRunner =>
                   /\ q[i].run <= rn[q[i].task].run
                   /\ q[i].event \in Results => q[i].run # rn[q[i].task].run
  <2>1. i + k \in DOMAIN p /\ q[i] = p[i + k]
    OBVIOUS
  <2> QED
    BY <2>1 DEF Told
<1>4. \A t \in Tasks : rn[t] # NoRunner => rn[t].run <= n
  BY DEF Told
<1> QED
  BY <1>2, <1>3, <1>4 DEF Told

\* All but the last event.
LEMMA ToldFront ==
    ASSUME NEW p \in Seq(Event), NEW n \in Nat, NEW rn \in Runners, NEW e \in Event,
           Told(Append(p, e), n + 1, rn)
    PROVE  Told(p, n + 1, rn)
<1>1. /\ DOMAIN p = 1 .. Len(p) /\ Len(p) \in Nat
      /\ \A i \in DOMAIN p : i \in DOMAIN Append(p, e) /\ Append(p, e)[i] = p[i]
  OBVIOUS
<1> QED
  BY <1>1 DEF Told

\* A runner is dropped, or only its flags change.
LEMMA ToldRunners ==
    ASSUME NEW p \in Seq(Event), NEW n \in Nat, NEW rn \in Runners, Told(p, n, rn),
           NEW new \in Runners,
           \A t \in Tasks : new[t] # NoRunner => rn[t] # NoRunner /\ new[t].run = rn[t].run
    PROVE  Told(p, n, new)
<1>1. \A i \in DOMAIN p : p[i] \in Event
  OBVIOUS
<1>2. \A i \in DOMAIN p : p[i].task \in Tasks
  BY <1>1 DEF Event
<1> QED
  BY <1>2 DEF Told

\* A runner says something.  If that is its result it is dropped.
LEMMA ToldMore ==
    ASSUME NEW p \in Seq(Event), NEW n \in Nat, NEW rn \in Runners, Told(p, n, rn),
           NEW t \in Tasks, rn[t] # NoRunner, NEW e \in Event,
           e.task = t, e.run = rn[t].run, NEW new \in Runners,
           \A u \in Tasks : new[u] # NoRunner => rn[u] # NoRunner /\ new[u].run = rn[u].run,
           e.event \in Results => new[t] = NoRunner
    PROVE  Told(Append(p, e), n, new)
<1> DEFINE q == Append(p, e)
<1>1. /\ q \in Seq(Event) /\ DOMAIN q = 1 .. Len(p) + 1 /\ DOMAIN p = 1 .. Len(p)
      /\ Len(p) \in Nat /\ q[Len(p) + 1] = e
      /\ \A i \in DOMAIN p : q[i] = p[i]
  OBVIOUS
<1> HIDE DEF q
<1>2. \A i \in DOMAIN q : i \in DOMAIN p \/ i = Len(p) + 1
  BY <1>1
<1>3. \A i \in DOMAIN p : p[i].task \in Tasks /\ p[i].run \in Nat
  <2>1. \A i \in DOMAIN p : p[i] \in Event
    OBVIOUS
  <2> QED
    BY <2>1 DEF Event
<1>4. rn[t].run \in 1 .. n
  BY DEF Told, Runners, Runner
<1>5. Told(p, n, new)
  BY ToldRunners
<1>6. ASSUME NEW i \in DOMAIN q, NEW j \in DOMAIN q, i < j, q[i].task = q[j].task
      PROVE  q[i].run <= q[j].run /\ (q[i].event \in Results => q[i].run < q[j].run)
  <2>1. i \in DOMAIN p
    BY <1>1, <1>6
  <2>2. CASE j \in DOMAIN p
    BY <1>1, <1>6, <2>1, <2>2 DEF Told
  <2>3. CASE j = Len(p) + 1
    <3>1. p[i].task = t /\ q[j].run = rn[t].run
      BY <1>1, <1>6, <2>1, <2>3
    <3>2. p[i].run <= rn[t].run /\ (p[i].event \in Results => p[i].run # rn[t].run)
      BY <2>1, <3>1 DEF Told
    <3> QED
      BY <1>1, <1>3, <1>4, <2>1, <3>1, <3>2
  <2> QED
    BY <1>2, <2>2, <2>3
<1>7. ASSUME NEW i \in DOMAIN q
      PROVE  /\ q[i].run \in 1 .. n
             /\ new[q[i].task] # NoRunner =>
                   /\ q[i].run <= new[q[i].task].run
                   /\ q[i].event \in Results => q[i].run # new[q[i].task].run
  <2>1. CASE i \in DOMAIN p
    BY <1>1, <1>5, <2>1 DEF Told
  <2>2. CASE i = Len(p) + 1
    BY <1>1, <1>4, <2>2
  <2> QED
    BY <1>2, <2>1, <2>2
<1>8. \A u \in Tasks : new[u] # NoRunner => new[u].run <= n
  BY <1>5 DEF Told
<1>9. Told(q, n, new)
  BY <1>6, <1>7, <1>8 DEF Told
<1> QED
  BY <1>9 DEF q

\* A new run says its first word, which is its result if spawn has thrown.
LEMMA ToldNew ==
    ASSUME NEW p \in Seq(Event), NEW n \in Nat, NEW rn \in Runners, Told(p, n, rn),
           NEW t \in Tasks, rn[t] = NoRunner, NEW e \in Event,
           e.task = t, e.run = n + 1, NEW new \in Runners,
           \A u \in Tasks \ {t} : new[u] = rn[u],
           \/ new[t] = NoRunner
           \/ new[t].run = n + 1 /\ e.event \notin Results
    PROVE  Told(Append(p, e), n + 1, new)
<1> DEFINE q == Append(p, e)
<1>1. /\ q \in Seq(Event) /\ DOMAIN q = 1 .. Len(p) + 1 /\ DOMAIN p = 1 .. Len(p)
      /\ Len(p) \in Nat /\ q[Len(p) + 1] = e
      /\ \A i \in DOMAIN p : q[i] = p[i]
  OBVIOUS
<1> HIDE DEF q
<1>2. \A i \in DOMAIN q : i \in DOMAIN p \/ i = Len(p) + 1
  BY <1>1
<1>3. \A i \in DOMAIN p : p[i].task \in Tasks /\ p[i].run \in 1 .. n
  <2>1. \A i \in DOMAIN p : p[i] \in Event
    OBVIOUS
  <2> QED
    BY <2>1 DEF Event, Told
<1>4. ASSUME NEW i \in DOMAIN q, NEW j \in DOMAIN q, i < j, q[i].task = q[j].task
      PROVE  q[i].run <= q[j].run /\ (q[i].event \in Results => q[i].run < q[j].run)
  <2>1. i \in DOMAIN p
    BY <1>1, <1>4
  <2>2. CASE j \in DOMAIN p
    BY <1>1, <1>4, <2>1, <2>2 DEF Told
  <2>3. CASE j = Len(p) + 1
    BY <1>1, <1>3, <2>1, <2>3
  <2> QED
    BY <1>2, <2>2, <2>3
<1>5. ASSUME NEW i \in DOMAIN q
      PROVE  /\ q[i].run \in 1 .. n + 1
             /\ new[q[i].task] # NoRunner =>
                   /\ q[i].run <= new[q[i].task].run
                   /\ q[i].event \in Results => q[i].run # new[q[i].task].run
  <2>1. CASE i \in DOMAIN p /\ p[i].task # t
    BY <1>1, <1>3, <2>1 DEF Told
  <2>2. CASE i \in DOMAIN p /\ p[i].task = t
    BY <1>1, <1>3, <2>2
  <2>3. CASE i = Len(p) + 1
    BY <1>1, <2>3
  <2> QED
    BY <1>2, <2>1, <2>2, <2>3
<1>6. \A u \in Tasks : new[u] # NoRunner => new[u].run <= n + 1
  BY DEF Told, Runners, Runner
<1>7. Told(q, n + 1, new)
  BY <1>4, <1>5, <1>6 DEF Told
<1> QED
  BY <1>7 DEF q

-----------------------------------------------------------------------------
(* The state of one daemon, and the parts handlers are made of.            *)

\* What the types say.
LEMMA Types ==
    ASSUME DaemonInv
    PROVE  /\ link \in [Daemons -> {"up", "broken", "down"}]
           /\ inbox \in [Daemons -> Seq(Command)]
           /\ outbox \in [Daemons -> Seq(Event)]
           /\ buffer \in [Daemons -> Seq(Event)]
           /\ runner \in [Daemons -> Runners]
           /\ runs \in [Daemons -> Nat]
           /\ losses \in Nat
BY DEF DaemonInv, DaemonTypeOK, Runners

\* A step of daemon d: the others are left alone.
OnlyDaemon(d) ==
    \A b \in Daemons \ {d} :
        /\ link'[b] = link[b] /\ outbox'[b] = outbox[b] /\ buffer'[b] = buffer[b]
        /\ runner'[b] = runner[b] /\ runs'[b] = runs[b]

\* Such a step keeps the invariant if it does so for d.
LEMMA OneDaemon ==
    ASSUME DaemonInv, DaemonTypeOK', NEW d \in Daemons, OnlyDaemon(d),
           link'[d] # "down" => buffer'[d] = <<>>,
           Told(Pending(d)', runs'[d], runner'[d])
    PROVE  DaemonInv'
<1>1. ASSUME NEW b \in Daemons
      PROVE  /\ link'[b] # "down" => buffer'[b] = <<>>
             /\ Told(Pending(b)', runs'[b], runner'[b])
  <2>1. CASE b = d
    BY <2>1
  <2>2. CASE b # d
    <3>1. Pending(b)' = Pending(b)
      BY <2>2 DEF Pending, OnlyDaemon
    <3> QED
      BY <2>2, <3>1 DEF DaemonInv, OnlyDaemon
  <2> QED
    BY <2>1, <2>2
<1> QED
  BY <1>1 DEF DaemonInv

\* Joining is associative.
LEMMA JoinEvents ==
    ASSUME NEW a \in Seq(Event), NEW b \in Seq(Event), NEW c \in Seq(Event)
    PROVE  a \o (b \o c) = (a \o b) \o c
BY ConcatAssociative, SMTT(30)

\* emit appends to what is pending, or the events are lost.
LEMMA EmitOK ==
    ASSUME DaemonInv, NEW d \in Daemons, NEW events \in Seq(Event), emit(d, events),
           UNCHANGED link
    PROVE  /\ outbox' \in [Daemons -> Seq(Event)] /\ buffer' \in [Daemons -> Seq(Event)]
           /\ \A b \in Daemons \ {d} : outbox'[b] = outbox[b] /\ buffer'[b] = buffer[b]
           /\ link'[d] # "down" => buffer'[d] = <<>>
           /\ Pending(d)' \in {Pending(d), Pending(d) \o events}
<1>1. outbox[d] \in Seq(Event) /\ buffer[d] \in Seq(Event)
  BY Types
<1>2. link[d] # "down" => buffer[d] = <<>>
  BY DEF DaemonInv
<1>3. CASE link[d] = "up"
  <2>1. outbox' = [outbox EXCEPT ![d] = outbox[d] \o events] /\ buffer' = buffer
    BY <1>3 DEF emit
  <2>2. outbox[d] \o events \in Seq(Event)
    BY <1>1
  <2>3. Pending(d)' = (outbox[d] \o events) \o <<>> /\ Pending(d) = outbox[d] \o <<>>
    BY <1>2, <1>3, <2>1, Types DEF Pending
  <2>4. Pending(d)' = outbox[d] \o events /\ Pending(d) = outbox[d]
    BY <1>1, <2>2, <2>3, ConcatEmptySeq
  <2> QED
    BY <1>2, <1>3, <2>1, <2>2, <2>4, Types
<1>4. CASE link[d] = "broken"
  BY <1>2, <1>4, Types DEF emit, Pending
<1>5. CASE link[d] = "down"
  <2>1. buffer' = [buffer EXCEPT ![d] = buffer[d] \o events] /\ outbox' = outbox
    BY <1>5 DEF emit
  <2>2. buffer[d] \o events \in Seq(Event)
    BY <1>1
  <2>3. Pending(d)' = outbox[d] \o (buffer[d] \o events)
    BY <2>1, Types DEF Pending
  <2>4. outbox[d] \o (buffer[d] \o events) = (outbox[d] \o buffer[d]) \o events
    BY <1>1, JoinEvents
  <2>5. Pending(d) = outbox[d] \o buffer[d]
    BY DEF Pending
  <2>6. Pending(d)' = Pending(d) \o events
    BY <2>3, <2>4, <2>5, Zenon
  <2> QED
    BY <1>5, <2>1, <2>2, <2>6, Types
<1> QED
  BY <1>3, <1>4, <1>5, Types

\* One runner is replaced.
LEMMA SetRunnerOK ==
    ASSUME DaemonInv, NEW d \in Daemons, NEW t \in Tasks, NEW r \in {NoRunner} \cup Runner,
           SetRunner(d, t, r)
    PROVE  /\ runner' \in [Daemons -> Runners]
           /\ runner'[d] \in Runners /\ runner'[d][t] = r
           /\ \A u \in Tasks \ {t} : runner'[d][u] = runner[d][u]
           /\ \A b \in Daemons \ {d} : runner'[b] = runner[b]
<1>1. runner \in [Daemons -> [Tasks -> {NoRunner} \cup Runner]]
  BY Types DEF Runners
<1> QED
  BY <1>1 DEF SetRunner, Runners

\* What the invariant says of one daemon.
LEMMA PendingIsSeq ==
    ASSUME DaemonInv, NEW d \in Daemons
    PROVE  /\ Pending(d) \in Seq(Event)
           /\ Told(Pending(d), runs[d], runner[d])
           /\ runs[d] \in Nat /\ runner[d] \in Runners
<1>1. outbox[d] \in Seq(Event) /\ buffer[d] \in Seq(Event)
  BY Types
<1> QED
  BY <1>1, Types DEF Pending, DaemonInv

\* The command a handler takes.
LEMMA TakeOK ==
    ASSUME DaemonInv, NEW d \in Daemons, NEW event, Take(d, event)
    PROVE  /\ inbox' \in [Daemons -> Seq(Command)]
           /\ Head(inbox[d]).task \in Tasks
<1>1. inbox[d] \in Seq(Command) /\ inbox[d] # <<>>
  BY Types DEF Take
<1>2. Head(inbox[d]) \in Command /\ Tail(inbox[d]) \in Seq(Command)
  BY <1>1, HeadTailProperties
<1>3. inbox' = [inbox EXCEPT ![d] = Tail(inbox[d])]
  BY DEF Take
<1> QED
  BY <1>2, <1>3, Types DEF Command

\* The runner of a task that is running.
LEMMA RunnerOf ==
    ASSUME DaemonInv, NEW d \in Daemons, NEW t \in Tasks, Running(d, t)
    PROVE  runner[d][t] \in Runner /\ runner[d][t] # NoRunner
BY Types DEF Running, Runners

\* A step that only changes the flags of a runner, or drops it.
LEMMA FlagStep ==
    ASSUME DaemonInv, NEW d \in Daemons, NEW t \in Tasks,
           NEW r \in {NoRunner} \cup Runner, SetRunner(d, t, r),
           r # NoRunner => runner[d][t] # NoRunner /\ r.run = runner[d][t].run,
           inbox' \in [Daemons -> Seq(Command)],
           UNCHANGED <<link, outbox, buffer, runs, losses>>
    PROVE  DaemonInv'
<1>1. /\ runner' \in [Daemons -> Runners]
      /\ runner'[d] \in Runners /\ runner'[d][t] = r
      /\ \A u \in Tasks \ {t} : runner'[d][u] = runner[d][u]
      /\ \A b \in Daemons \ {d} : runner'[b] = runner[b]
  BY SetRunnerOK
<1>2. DaemonTypeOK'
  BY <1>1, Types DEF DaemonTypeOK, Runners
<1>3. \A u \in Tasks : runner'[d][u] # NoRunner =>
          runner[d][u] # NoRunner /\ runner'[d][u].run = runner[d][u].run
  BY <1>1
<1>4. Pending(d)' = Pending(d)
  BY DEF Pending
<1>5. Told(Pending(d), runs[d], runner'[d])
  <2>1. PICK new \in Runners : new = runner'[d]
    BY <1>1
  <2> QED
    BY <1>3, <2>1, PendingIsSeq, ToldRunners
<1>6. OnlyDaemon(d)
  BY <1>1 DEF OnlyDaemon
<1>7. link'[d] # "down" => buffer'[d] = <<>>
  BY DEF DaemonInv
<1> QED
  BY <1>2, <1>4, <1>5, <1>6, <1>7, OneDaemon

\* A step that changes no daemon but its inbox.
LEMMA InboxStep ==
    ASSUME DaemonInv, inbox' \in [Daemons -> Seq(Command)],
           UNCHANGED <<link, outbox, buffer, runner, runs, losses>>
    PROVE  DaemonInv'
<1>1. DaemonTypeOK'
  BY Types DEF DaemonTypeOK, Runners
<1>2. \A b \in Daemons : Pending(b)' = Pending(b)
  BY DEF Pending
<1> QED
  BY <1>1, <1>2 DEF DaemonInv

-----------------------------------------------------------------------------
(* One lemma per handler.                                                  *)

\* The new run's event comes last, and its number is new.
LEMMA startOK ==
    ASSUME DaemonInv, NEW d \in Daemons, NEW t \in Tasks, ~Running(d, t), start(d, t),
           inbox' \in [Daemons -> Seq(Command)], UNCHANGED <<link, losses>>
    PROVE  DaemonInv'
<1>1. /\ runs[d] \in Nat /\ runs' = [runs EXCEPT ![d] = runs[d] + 1]
      /\ runner[d] \in Runners /\ runner[d][t] = NoRunner
  BY Types DEF start, Running
<1>2. PICK n \in Nat : n = runs[d]
  BY <1>1
<1>3. PICK ev \in {"RUNNING", "FAILED", "CAPACITY_EXHAUSTED"} :
          /\ emit(d, <<[event |-> ev, task |-> t, run |-> n + 1]>>)
          /\ \/ /\ ev = "RUNNING"
                /\ SetRunner(d, t, [run |-> n + 1, awaitingApproval |-> FALSE,
                                    killedByHub |-> FALSE])
             \/ UNCHANGED runner
  BY <1>2 DEF start
<1> DEFINE e == [event |-> ev, task |-> t, run |-> n + 1]
           r == [run |-> n + 1, awaitingApproval |-> FALSE, killedByHub |-> FALSE]
<1>4. e \in Event /\ e.event = ev /\ e.task = t /\ e.run = n + 1
  BY DEF Event
<1>5. r \in Runner /\ r.run = n + 1
  BY DEF Runner
<1>6. emit(d, <<e>>) /\ ((ev = "RUNNING" /\ SetRunner(d, t, r)) \/ UNCHANGED runner)
  BY <1>3
<1> HIDE DEF e, r
<1>7. <<e>> \in Seq(Event)
  BY <1>4
<1>8. /\ outbox' \in [Daemons -> Seq(Event)] /\ buffer' \in [Daemons -> Seq(Event)]
      /\ \A b \in Daemons \ {d} : outbox'[b] = outbox[b] /\ buffer'[b] = buffer[b]
      /\ link'[d] # "down" => buffer'[d] = <<>>
      /\ Pending(d)' \in {Pending(d), Pending(d) \o <<e>>}
  BY <1>6, <1>7, EmitOK
<1>9. /\ runner' \in [Daemons -> Runners] /\ runner'[d] \in Runners
      /\ \A u \in Tasks \ {t} : runner'[d][u] = runner[d][u]
      /\ \A b \in Daemons \ {d} : runner'[b] = runner[b]
      /\ runner'[d][t] = NoRunner \/ (runner'[d][t].run = n + 1 /\ ev \notin Results)
  <2>1. CASE UNCHANGED runner
    BY <1>1, <2>1, Types
  <2>2. CASE ev = "RUNNING" /\ SetRunner(d, t, r)
    BY <1>5, <2>2, SetRunnerOK DEF Results
  <2> QED
    BY <1>6, <2>1, <2>2
<1>10. PICK new \in Runners : new = runner'[d]
  BY <1>9
<1>11. Pending(d) \in Seq(Event) /\ Told(Pending(d), n, runner[d])
  BY <1>2, PendingIsSeq
<1>12. Told(Append(Pending(d), e), n + 1, new)
  <2>1. PICK p \in Seq(Event) : p = Pending(d)
    BY <1>11
  <2>2. PICK old \in Runners : old = runner[d]
    BY <1>1, Types
  <2>3. Told(p, n, old) /\ old[t] = NoRunner
    BY <1>1, <1>11, <2>1, <2>2
  <2>4. /\ \A u \in Tasks \ {t} : new[u] = old[u]
        /\ \/ new[t] = NoRunner
           \/ new[t].run = n + 1 /\ e.event \notin Results
    BY <1>4, <1>9, <1>10, <2>2
  <2>5. Told(Append(p, e), n + 1, new)
    BY <1>4, <2>3, <2>4, ToldNew
  <2> QED
    BY <2>1, <2>5
<1>13. Append(Pending(d), e) = Pending(d) \o <<e>> /\ Append(Pending(d), e) \in Seq(Event)
  BY <1>4, <1>11
<1>14. Told(Pending(d), n + 1, new)
  BY <1>4, <1>10, <1>11, <1>12, ToldFront
<1>15. runs'[d] = n + 1 /\ \A b \in Daemons \ {d} : runs'[b] = runs[b]
  BY <1>1, <1>2, Types
<1>16. runs' \in [Daemons -> Nat]
  BY <1>1, Types
<1>17. DaemonTypeOK'
  BY <1>8, <1>9, <1>16, Types DEF DaemonTypeOK, Runners
<1>18. OnlyDaemon(d)
  BY <1>8, <1>9, <1>15 DEF OnlyDaemon
<1>19. Told(Pending(d)', runs'[d], runner'[d])
  BY <1>8, <1>10, <1>12, <1>13, <1>14, <1>15
<1> QED
  BY <1>8, <1>17, <1>18, <1>19, OneDaemon

\* A task that is running is left alone.
LEMMA onTaskSubmitOK ==
    ASSUME DaemonInv, NEW d \in Daemons, onTaskSubmit(d)
    PROVE  DaemonInv'
<1>1. inbox' \in [Daemons -> Seq(Command)] /\ Head(inbox[d]).task \in Tasks
  BY TakeOK DEF onTaskSubmit
<1> QED
  BY <1>1, startOK, InboxStep DEF onTaskSubmit

\* The flags of a runner that kill and resume set.
LEMMA FlagsOK ==
    ASSUME DaemonInv, NEW d \in Daemons, NEW t \in Tasks, Running(d, t),
           kill(d, t) \/ resume(d, t), inbox' \in [Daemons -> Seq(Command)],
           UNCHANGED <<link, outbox, buffer, runs, losses>>
    PROVE  DaemonInv'
<1>1. runner[d][t] \in Runner /\ runner[d][t] # NoRunner
  BY RunnerOf
<1>2. CASE kill(d, t)
  <2> DEFINE r == [runner[d][t] EXCEPT !.killedByHub = TRUE]
  <2>1. r \in Runner /\ r.run = runner[d][t].run
    BY <1>1 DEF Runner
  <2>2. SetRunner(d, t, r)
    BY <1>2 DEF kill
  <2> HIDE DEF r
  <2> QED
    BY <1>1, <2>1, <2>2, FlagStep
<1>3. CASE resume(d, t)
  <2> DEFINE r == [runner[d][t] EXCEPT !.awaitingApproval = FALSE]
  <2>1. r \in Runner /\ r.run = runner[d][t].run
    BY <1>1 DEF Runner
  <2>2. SetRunner(d, t, r)
    BY <1>3 DEF resume
  <2> HIDE DEF r
  <2> QED
    BY <1>1, <2>1, <2>2, FlagStep
<1> QED
  BY <1>2, <1>3

\* A cancellation.
LEMMA onTaskCancelOK ==
    ASSUME DaemonInv, NEW d \in Daemons, onTaskCancel(d)
    PROVE  DaemonInv'
<1>1. inbox' \in [Daemons -> Seq(Command)] /\ Head(inbox[d]).task \in Tasks
  BY TakeOK DEF onTaskCancel
<1> QED
  BY <1>1, FlagsOK, InboxStep DEF onTaskCancel

\* A decision.
LEMMA onApprovalDecisionOK ==
    ASSUME DaemonInv, NEW d \in Daemons, onApprovalDecision(d)
    PROVE  DaemonInv'
<1>1. inbox' \in [Daemons -> Seq(Command)] /\ Head(inbox[d]).task \in Tasks
  BY TakeOK DEF onApprovalDecision
<1> QED
  BY <1>1, FlagsOK, InboxStep DEF onApprovalDecision, Answer

\* A runner says something and then has the flags of r, or is dropped.
LEMMA TellStep ==
    ASSUME DaemonInv, NEW d \in Daemons, NEW t \in Tasks, Running(d, t),
           NEW events \in Seq(Event), emit(d, events),
           NEW r \in {NoRunner} \cup Runner, SetRunner(d, t, r),
           r # NoRunner => r.run = runner[d][t].run,
           Told(Pending(d) \o events, runs[d], runner'[d]),
           UNCHANGED <<link, inbox, runs, losses>>
    PROVE  DaemonInv'
<1>2. /\ outbox' \in [Daemons -> Seq(Event)] /\ buffer' \in [Daemons -> Seq(Event)]
      /\ \A b \in Daemons \ {d} : outbox'[b] = outbox[b] /\ buffer'[b] = buffer[b]
      /\ link'[d] # "down" => buffer'[d] = <<>>
      /\ Pending(d)' \in {Pending(d), Pending(d) \o events}
  BY EmitOK
<1>3. /\ runner' \in [Daemons -> Runners]
      /\ runner'[d] \in Runners /\ runner'[d][t] = r
      /\ \A u \in Tasks \ {t} : runner'[d][u] = runner[d][u]
      /\ \A b \in Daemons \ {d} : runner'[b] = runner[b]
  BY SetRunnerOK
<1>4. PICK new \in Runners : new = runner'[d]
  BY <1>3
<1>5. runner[d][t] # NoRunner
  BY RunnerOf
<1>6. \A u \in Tasks : new[u] # NoRunner =>
          runner[d][u] # NoRunner /\ new[u].run = runner[d][u].run
  BY <1>3, <1>4, <1>5
<1>7. Told(Pending(d), runs[d], new)
  BY <1>6, PendingIsSeq, ToldRunners
<1>8. DaemonTypeOK'
  BY <1>2, <1>3, Types DEF DaemonTypeOK, Runners
<1>9. OnlyDaemon(d)
  BY <1>2, <1>3 DEF OnlyDaemon
<1>10. Told(Pending(d)', runs'[d], runner'[d])
  BY <1>2, <1>4, <1>7
<1> QED
  BY <1>2, <1>8, <1>9, <1>10, OneDaemon

\* The runner says one thing.
LEMMA SayStep ==
    ASSUME DaemonInv, NEW d \in Daemons, NEW t \in Tasks, Running(d, t),
           NEW e \in Event, e.task = t, e.run = runner[d][t].run,
           emit(d, <<e>>), NEW r \in {NoRunner} \cup Runner, SetRunner(d, t, r),
           r # NoRunner => r.run = runner[d][t].run,
           e.event \in Results => r = NoRunner,
           UNCHANGED <<link, inbox, runs, losses>>
    PROVE  DaemonInv'
<1>1. <<e>> \in Seq(Event)
  OBVIOUS
<1>2. /\ runner'[d] \in Runners /\ runner'[d][t] = r
      /\ \A u \in Tasks \ {t} : runner'[d][u] = runner[d][u]
  BY SetRunnerOK
<1>3. PICK new \in Runners : new = runner'[d]
  BY <1>2
<1>4. runner[d][t] # NoRunner
  BY RunnerOf
<1>5. \A u \in Tasks : new[u] # NoRunner =>
          runner[d][u] # NoRunner /\ new[u].run = runner[d][u].run
  BY <1>2, <1>3, <1>4
<1>6. Told(Append(Pending(d), e), runs[d], new)
  BY <1>2, <1>3, <1>4, <1>5, PendingIsSeq, ToldMore
<1>7. Append(Pending(d), e) = Pending(d) \o <<e>>
  BY PendingIsSeq
<1> QED
  BY <1>1, <1>3, <1>6, <1>7, TellStep

\* Two events, one after the other.
LEMMA AppendTwo ==
    ASSUME NEW p \in Seq(Event), NEW a \in Event, NEW b \in Event
    PROVE  Append(Append(p, a), b) = p \o (<<a>> \o <<b>>)
<1>1. <<a>> \in Seq(Event) /\ <<b>> \in Seq(Event)
  OBVIOUS
<1>2. Append(p, a) = p \o <<a>> /\ p \o <<a>> \in Seq(Event)
  OBVIOUS
<1>3. Append(Append(p, a), b) = (p \o <<a>>) \o <<b>>
  BY <1>2
<1> QED
  BY <1>1, <1>3, JoinEvents

\* The log chunk alone, or the chunk and the request for an approval.
LEMMA onDataOK ==
    ASSUME DaemonInv, NEW d \in Daemons, NEW t \in Tasks, NEW prompt \in BOOLEAN,
           onData(d, t, prompt)
    PROVE  DaemonInv'
<1>1. Running(d, t) /\ runner[d][t] \in Runner /\ runner[d][t] # NoRunner
  BY RunnerOf DEF onData
<1>2. PICK ask \in BOOLEAN : ask = (prompt /\ ~runner[d][t].awaitingApproval)
  OBVIOUS
<1>3. PICK b \in BOOLEAN : b = (runner[d][t].awaitingApproval \/ ask)
  OBVIOUS
<1> DEFINE r == [runner[d][t] EXCEPT !.awaitingApproval = b]
           log == Say(d, t, "LOG")
           request == Say(d, t, "APPROVAL")
<1>4. /\ emit(d, <<log>> \o (IF ask THEN <<request>> ELSE <<>>))
      /\ SetRunner(d, t, r)
      /\ UNCHANGED <<link, inbox, runs, losses>>
  BY <1>2, <1>3 DEF onData
<1>5. r \in Runner /\ r.run = runner[d][t].run
  BY <1>1 DEF Runner
<1>6. /\ log \in Event /\ log.task = t /\ log.run = runner[d][t].run
      /\ log.event \notin Results
  BY <1>1 DEF Say, Event, Runner, Results
<1>7. /\ request \in Event /\ request.task = t /\ request.run = runner[d][t].run
      /\ request.event \notin Results
  BY <1>1 DEF Say, Event, Runner, Results
<1> HIDE DEF r, log, request
<1>8. CASE ask
  <2>1. <<log>> \o <<request>> \in Seq(Event)
    BY <1>6, <1>7
  <2>2. /\ runner'[d] \in Runners /\ runner'[d][t] = r
        /\ \A u \in Tasks \ {t} : runner'[d][u] = runner[d][u]
    BY <1>4, <1>5, SetRunnerOK
  <2>3. PICK new \in Runners : new = runner'[d]
    BY <2>2
  <2>4. \A u \in Tasks : new[u] # NoRunner =>
            runner[d][u] # NoRunner /\ new[u].run = runner[d][u].run
    BY <1>1, <1>5, <2>2, <2>3
  <2>5. new[t] # NoRunner /\ new[t].run = runner[d][t].run
    BY <1>5, <2>2, <2>3 DEF NoRunner, Runner
  <2>6. PICK p \in Seq(Event) : p = Append(Pending(d), log)
    <3>1. Pending(d) \in Seq(Event)
      BY PendingIsSeq
    <3>2. Append(Pending(d), log) \in Seq(Event)
      BY <1>6, <3>1
    <3> QED
      BY <3>2
  <2>7. Told(p, runs[d], new)
    BY <1>1, <1>6, <2>4, <2>6, PendingIsSeq, ToldMore
  <2>8. Told(Append(p, request), runs[d], new)
    BY <1>7, <2>5, <2>7, PendingIsSeq, ToldMore
  <2>9. Append(p, request) = Pending(d) \o (<<log>> \o <<request>>)
    <3>1. PICK q \in Seq(Event) : q = Pending(d)
      BY PendingIsSeq
    <3>2. Append(Append(q, log), request) = q \o (<<log>> \o <<request>>)
      BY <1>6, <1>7, AppendTwo
    <3> QED
      BY <2>6, <3>1, <3>2
  <2> QED
    BY <1>1, <1>4, <1>5, <1>8, <2>1, <2>3, <2>8, <2>9, TellStep
<1>9. CASE ~ask
  <2>1. <<log>> \o <<>> = <<log>>
    BY <1>6
  <2>2. emit(d, <<log>>)
    BY <1>4, <1>9, <2>1
  <2> QED
    BY <1>1, <1>4, <1>5, <1>6, <2>2, SayStep
<1> QED
  BY <1>8, <1>9

\* The result of a child comes when its task is dropped; a child the Hub has
\* killed has none.
LEMMA onCloseOK ==
    ASSUME DaemonInv, NEW d \in Daemons, NEW t \in Tasks, NEW result \in Results,
           onClose(d, t, result)
    PROVE  DaemonInv'
<1>1. Running(d, t) /\ runner[d][t] \in Runner /\ SetRunner(d, t, NoRunner)
  BY RunnerOf DEF onClose, dropTask
<1>2. CASE runner[d][t].killedByHub
  <2>1. UNCHANGED <<link, inbox, outbox, buffer, runs, losses>>
    BY <1>2 DEF onClose
  <2> QED
    BY <1>1, <2>1, Types, FlagStep
<1>3. CASE ~runner[d][t].killedByHub
  <2> DEFINE e == Say(d, t, result)
  <2>1. e \in Event /\ e.task = t /\ e.run = runner[d][t].run
    BY <1>1 DEF Say, Event, Runner, Results
  <2>2. emit(d, <<e>>) /\ UNCHANGED <<link, inbox, runs, losses>>
    BY <1>3 DEF onClose
  <2> HIDE DEF e
  <2> QED
    BY <1>1, <2>1, <2>2, SayStep
<1> QED
  BY <1>2, <1>3

\* The "error" event of a child.
LEMMA onErrorOK ==
    ASSUME DaemonInv, NEW d \in Daemons, NEW t \in Tasks, onError(d, t)
    PROVE  DaemonInv'
<1>1. Running(d, t) /\ runner[d][t] \in Runner /\ SetRunner(d, t, NoRunner)
  BY RunnerOf DEF onError, dropTask
<1>2. PICK result \in {"FAILED", "CAPACITY_EXHAUSTED"} : emit(d, <<Say(d, t, result)>>)
  BY DEF onError
<1> DEFINE e == Say(d, t, result)
<1>3. e \in Event /\ e.task = t /\ e.run = runner[d][t].run
  BY <1>1 DEF Say, Event, Runner
<1>4. emit(d, <<e>>) /\ UNCHANGED <<link, inbox, runs, losses>>
  BY <1>2 DEF onError
<1> HIDE DEF e
<1> QED
  BY <1>1, <1>3, <1>4, SayStep

-----------------------------------------------------------------------------
(* The connection, the process and the Hub.                                *)

\* A step of d that lets go of the first k events, or of all, and of runners.
LEMMA LessStep ==
    ASSUME DaemonInv, DaemonTypeOK', NEW d \in Daemons, OnlyDaemon(d), UNCHANGED runs,
           link'[d] # "down" => buffer'[d] = <<>>,
           NEW q \in Seq(Event), q = Pending(d)', NEW k \in Nat,
           \A i \in DOMAIN q : i + k \in DOMAIN Pending(d) /\ q[i] = Pending(d)[i + k],
           \A t \in Tasks : runner'[d][t] \in {NoRunner, runner[d][t]}
    PROVE  DaemonInv'
<1>1. PICK new \in Runners : new = runner'[d]
  BY DEF DaemonTypeOK, Runners
<1>2. Told(q, runs[d], runner[d])
  BY PendingIsSeq, ToldLess
<1>3. Told(q, runs[d], new)
  BY <1>1, <1>2, PendingIsSeq, ToldRunners, ZenonT(60)
<1> QED
  BY <1>1, <1>3, OneDaemon

\* Everything on its way is lost.
LEMMA BreakOK ==
    ASSUME DaemonInv, NEW d \in Daemons, Break(d)
    PROVE  DaemonInv'
<1>1. /\ link' = [link EXCEPT ![d] = "broken"] /\ inbox' = [inbox EXCEPT ![d] = <<>>]
      /\ outbox' = [outbox EXCEPT ![d] = <<>>] /\ losses' = losses + 1
      /\ UNCHANGED <<buffer, runner, runs>> /\ buffer[d] = <<>>
  BY DEF Break, DaemonInv
<1>2. /\ link' \in [Daemons -> {"up", "broken", "down"}]
      /\ inbox' \in [Daemons -> Seq(Command)] /\ outbox' \in [Daemons -> Seq(Event)]
      /\ losses' \in Nat
  BY <1>1, Types
<1>3. DaemonTypeOK'
  BY <1>1, <1>2, Types DEF DaemonTypeOK, Runners
<1>4. OnlyDaemon(d)
  BY <1>1, Types DEF OnlyDaemon
<1>5. outbox'[d] = <<>> /\ buffer'[d] = <<>>
  BY <1>1, Types
<1>6. PICK q \in Seq(Event) : q = <<>>
  <2>1. <<>> \in Seq(Event)
    OBVIOUS
  <2> QED
    BY <2>1
<1>7. q = Pending(d)'
  <2>1. Pending(d)' = <<>> \o <<>>
    BY <1>5 DEF Pending
  <2> QED
    BY <1>6, <2>1, ConcatEmptySeq
<1>8. \A i \in DOMAIN q : FALSE
  BY <1>6
<1>9. PICK k \in Nat : k = 0
  OBVIOUS
<1> QED
  BY <1>1, <1>3, <1>4, <1>5, <1>7, <1>8, <1>9, LessStep

\* The socket notices.
LEMMA onDisconnectOK ==
    ASSUME DaemonInv, NEW d \in Daemons, onDisconnect(d)
    PROVE  DaemonInv'
<1>1. /\ link' = [link EXCEPT ![d] = "down"]
      /\ UNCHANGED <<inbox, outbox, buffer, runner, runs, losses>>
  BY DEF onDisconnect
<1>2. link' \in [Daemons -> {"up", "broken", "down"}] /\ link'[d] = "down"
  BY <1>1, Types
<1>3. DaemonTypeOK'
  BY <1>1, <1>2, Types DEF DaemonTypeOK, Runners
<1>4. OnlyDaemon(d)
  BY <1>1, Types DEF OnlyDaemon
<1>5. Pending(d)' = Pending(d)
  BY <1>1 DEF Pending
<1> QED
  BY <1>1, <1>2, <1>3, <1>4, <1>5, PendingIsSeq, OneDaemon

\* flushBuffer keeps what is pending, and its order.
LEMMA onConnectOK ==
    ASSUME DaemonInv, NEW d \in Daemons, onConnect(d)
    PROVE  DaemonInv'
<1>1. /\ link' = [link EXCEPT ![d] = "up"]
      /\ outbox' = [outbox EXCEPT ![d] = Pending(d)]
      /\ buffer' = [buffer EXCEPT ![d] = <<>>]
      /\ UNCHANGED <<inbox, runner, runs, losses>>
  BY DEF onConnect, Pending
<1>2. Pending(d) \in Seq(Event)
  BY PendingIsSeq
<1>3. /\ link' \in [Daemons -> {"up", "broken", "down"}]
      /\ outbox' \in [Daemons -> Seq(Event)] /\ outbox'[d] = Pending(d)
      /\ buffer' \in [Daemons -> Seq(Event)] /\ buffer'[d] = <<>>
  BY <1>1, <1>2, Types
<1>4. DaemonTypeOK'
  BY <1>1, <1>3, Types DEF DaemonTypeOK, Runners
<1>5. OnlyDaemon(d)
  BY <1>1, Types DEF OnlyDaemon
<1>6. Pending(d)' = Pending(d) \o <<>>
  BY <1>3 DEF Pending
<1>7. Pending(d)' = Pending(d)
  BY <1>2, <1>6, ConcatEmptySeq
<1> QED
  BY <1>1, <1>3, <1>4, <1>5, <1>7, PendingIsSeq, OneDaemon

\* The front of two sequences joined.
LEMMA JoinFront ==
    ASSUME NEW a \in Seq(Event), NEW b \in Seq(Event)
    PROVE  \A i \in DOMAIN a : i \in DOMAIN (a \o b) /\ (a \o b)[i] = a[i]
OBVIOUS

\* What was sent is a front of what was pending, and no runner is left.
LEMMA shutdownOK ==
    ASSUME DaemonInv, NEW d \in Daemons, shutdown(d)
    PROVE  DaemonInv'
<1> DEFINE none == [t \in Tasks |-> NoRunner]
<1>1. /\ link' = [link EXCEPT ![d] = "down"] /\ inbox' = [inbox EXCEPT ![d] = <<>>]
      /\ buffer' = [buffer EXCEPT ![d] = <<>>] /\ losses' = losses + 1
      /\ runner' = [runner EXCEPT ![d] = none]
      /\ UNCHANGED <<outbox, runs>>
  BY DEF shutdown
<1>2. none \in Runners /\ \A t \in Tasks : none[t] = NoRunner
  BY DEF Runners
<1> HIDE DEF none
<1>3. /\ link' \in [Daemons -> {"up", "broken", "down"}]
      /\ inbox' \in [Daemons -> Seq(Command)] /\ buffer' \in [Daemons -> Seq(Event)]
      /\ runner' \in [Daemons -> Runners] /\ losses' \in Nat
      /\ buffer'[d] = <<>> /\ runner'[d] = none
  BY <1>1, <1>2, Types
<1>4. DaemonTypeOK'
  BY <1>1, <1>3, Types DEF DaemonTypeOK, Runners
<1>5. OnlyDaemon(d)
  BY <1>1, Types DEF OnlyDaemon
<1>6. PICK q \in Seq(Event) : q = outbox[d]
  BY Types
<1>7. Pending(d)' = q
  <2>1. Pending(d)' = q \o <<>>
    BY <1>1, <1>3, <1>6 DEF Pending
  <2> QED
    BY <2>1, ConcatEmptySeq
<1>8. PICK b \in Seq(Event) : b = buffer[d]
  BY Types
<1>9. PICK k \in Nat : k = 0
  OBVIOUS
<1>10. \A i \in DOMAIN q : i + k \in DOMAIN Pending(d) /\ q[i] = Pending(d)[i + k]
  <2>1. \A i \in DOMAIN q : i + k = i
    BY <1>9
  <2>2. Pending(d) = q \o b
    BY <1>6, <1>8 DEF Pending
  <2> QED
    BY <2>1, <2>2, JoinFront
<1> QED
  BY <1>1, <1>2, <1>3, <1>4, <1>5, <1>7, <1>9, <1>10, LessStep

\* A command more in the inbox.
LEMMA HubSendsOK ==
    ASSUME DaemonInv, NEW d \in Daemons, NEW command \in Command, HubSends(d, command)
    PROVE  DaemonInv'
<1>1. inbox[d] \in Seq(Command)
  BY Types
<1>2. Append(inbox[d], command) \in Seq(Command)
  BY <1>1
<1>3. inbox' = [inbox EXCEPT ![d] = Append(inbox[d], command)]
  BY DEF HubSends
<1>4. inbox' \in [Daemons -> Seq(Command)]
  BY <1>2, <1>3, Types
<1> QED
  BY <1>4, InboxStep DEF HubSends

\* The tail of the first of two sequences joined.
LEMMA JoinTail ==
    ASSUME NEW a \in Seq(Event), a # <<>>, NEW b \in Seq(Event)
    PROVE  /\ Tail(a) \o b \in Seq(Event)
           /\ \A i \in DOMAIN (Tail(a) \o b) :
                 i + 1 \in DOMAIN (a \o b) /\ (Tail(a) \o b)[i] = (a \o b)[i + 1]
<1>1. Len(a) \in Nat /\ Len(a) > 0 /\ Len(b) \in Nat
  BY EmptySeq
<1>2. Tail(a) \in Seq(Event) /\ Len(Tail(a)) = Len(a) - 1
  BY <1>1
<1>3. \A i \in 1 .. Len(a) - 1 : Tail(a)[i] = a[i + 1]
  BY <1>1
<1> QED
  BY <1>1, <1>2, <1>3

\* The first event is taken.
LEMMA HubTakesOK ==
    ASSUME DaemonInv, NEW d \in Daemons, HubTakes(d)
    PROVE  DaemonInv'
<1>1. /\ outbox[d] # <<>> /\ outbox' = [outbox EXCEPT ![d] = Tail(outbox[d])]
      /\ UNCHANGED <<link, inbox, buffer, runner, runs, losses>>
  BY DEF HubTakes
<1>2. PICK a \in Seq(Event) : a = outbox[d]
  BY Types
<1>3. PICK b \in Seq(Event) : b = buffer[d]
  BY Types
<1>4. Tail(a) \in Seq(Event)
  BY <1>1, <1>2, HeadTailProperties
<1>5. outbox' \in [Daemons -> Seq(Event)] /\ outbox'[d] = Tail(a)
  BY <1>1, <1>2, <1>4, Types
<1>6. DaemonTypeOK'
  BY <1>1, <1>5, Types DEF DaemonTypeOK, Runners
<1>7. OnlyDaemon(d)
  BY <1>1, Types DEF OnlyDaemon
<1>8. link'[d] # "down" => buffer'[d] = <<>>
  BY <1>1 DEF DaemonInv
<1>9. Pending(d)' = Tail(a) \o b /\ Pending(d) = a \o b
  BY <1>1, <1>2, <1>3, <1>5 DEF Pending
<1>10. PICK q \in Seq(Event) : q = Tail(a) \o b
  BY <1>1, <1>2, JoinTail
<1>11. PICK k \in Nat : k = 1
  OBVIOUS
<1>12. \A i \in DOMAIN q : i + k \in DOMAIN Pending(d) /\ q[i] = Pending(d)[i + k]
  BY <1>1, <1>2, <1>9, <1>10, <1>11, JoinTail
<1> QED
  BY <1>1, <1>6, <1>7, <1>8, <1>9, <1>10, <1>12, LessStep

-----------------------------------------------------------------------------
(* The invariant, and what it says.                                        *)

\* No step of any daemon breaks the invariant.
LEMMA DaemonStepOK ==
    ASSUME DaemonInv, [DaemonNext]_daemonVars
    PROVE  DaemonInv'
<1>1. CASE UNCHANGED daemonVars
  BY <1>1, Types, InboxStep DEF daemonVars
<1>2. ASSUME NEW d \in Daemons, Handler(d)
      PROVE  DaemonInv'
  BY <1>2, onTaskSubmitOK, onTaskCancelOK, onApprovalDecisionOK DEF Handler
<1>3. ASSUME NEW d \in Daemons, NEW t \in Tasks, Child(d, t)
      PROVE  DaemonInv'
  BY <1>3, onDataOK, onCloseOK, onErrorOK DEF Child
<1>4. ASSUME NEW d \in Daemons, Connection(d)
      PROVE  DaemonInv'
  BY <1>4, BreakOK, onDisconnectOK, onConnectOK, shutdownOK DEF Connection
<1>5. ASSUME NEW d \in Daemons, HubSide(d)
      PROVE  DaemonInv'
  BY <1>5, HubSendsOK, HubTakesOK DEF HubSide
<1> QED
  BY <1>1, <1>2, <1>3, <1>4, <1>5 DEF DaemonNext

\* It holds at the start.
LEMMA DaemonInitOK ==
    ASSUME DaemonInit
    PROVE  DaemonInv
<1>1. DaemonTypeOK
  BY DEF DaemonInit, DaemonTypeOK, NoRunner
<1>2. ASSUME NEW d \in Daemons
      PROVE  buffer[d] = <<>> /\ Told(Pending(d), runs[d], runner[d])
  <2>1. /\ outbox[d] = <<>> /\ buffer[d] = <<>> /\ runs[d] = 0
        /\ \A t \in Tasks : runner[d][t] = NoRunner
    BY <1>2 DEF DaemonInit
  <2>2. Pending(d) = <<>>
    BY <2>1 DEF Pending
  <2>3. \A i \in DOMAIN Pending(d) : FALSE
    BY <2>2
  <2> QED
    BY <2>1, <2>3 DEF Told
<1> QED
  BY <1>1, <1>2 DEF DaemonInv

\* The invariant holds in every behaviour of the daemons: buffers are filled
\* only while disconnected, and what is pending is told in the order of the
\* runs, up to the runner in the map.
THEOREM DaemonInvariance == DaemonSpec => []DaemonInv
<1>1. DaemonInv /\ [DaemonNext]_daemonVars => DaemonInv'
  BY DaemonStepOK
<1> QED
  BY <1>1, DaemonInitOK, PTL DEF DaemonSpec

\* The daemons' variables keep their types.
THEOREM DaemonTypeCorrect == DaemonSpec => []DaemonTypeOK
<1>1. DaemonInv => DaemonTypeOK
  BY DEF DaemonInv
<1> QED
  BY <1>1, DaemonInvariance, PTL

\* The events of a task reach the Hub in the order of its runs, and nothing of
\* a run after its result, for any number of tasks, runs and lost connections.
THEOREM ResultsEndRuns == DaemonSpec => []ResultEndsRun
<1>1. DaemonInv => ResultEndsRun
  BY DEF DaemonInv, Told, ResultEndsRun
<1> QED
  BY <1>1, DaemonInvariance, PTL

\* While a task has a runner, its result is not among what the daemon still
\* has to say.
THEOREM NoResultsWhileRunning == DaemonSpec => []NoResultWhileRunning
<1>1. ASSUME DaemonInv, NEW d \in Daemons, NEW t \in Tasks, NEW i \in DOMAIN Pending(d),
             Pending(d)[i].task = t, Pending(d)[i].event \in Results
      PROVE  Pending(d)[i].run # runner[d][t].run
  <2>1. Told(Pending(d), runs[d], runner[d])
    BY <1>1 DEF DaemonInv
  <2>2. Pending(d)[i].run \in 1 .. runs[d] /\ runs[d] \in Nat
    BY <1>1, <2>1, Types DEF Told
  <2>3. CASE runner[d][t] = NoRunner
    <3>1. runner[d][t].run = 0
      BY <2>3 DEF NoRunner
    <3> QED
      BY <2>2, <3>1
  <2>4. CASE runner[d][t] # NoRunner
    BY <1>1, <2>1, <2>4 DEF Told
  <2> QED
    BY <2>3, <2>4
<1>2. DaemonInv => NoResultWhileRunning
  BY <1>1 DEF NoResultWhileRunning
<1> QED
  BY <1>2, DaemonInvariance, PTL

=============================================================================
