-------------------------- MODULE MCServerPresence --------------------------
(***************************************************************************)
(* ServerPresence for TLC: a machine that names ann as its approver and    *)
(* one that names an email nobody has; a .env in which the key stands      *)
(* exported, and one of an older registration that somebody has edited.    *)
(***************************************************************************)
EXTENDS ServerPresence

CONSTANTS ann, bob, nobody, r1, r2, r3, c1, c2

MCOwnerEmail == [r \in Requests |-> CASE r = r1 -> ann [] r = r2 -> bob [] r = r3 -> nobody]

Stale(key, plain) == [key |-> key, plain |-> plain, value |-> 0]
Exported == <<Stale("API_KEY", FALSE)>>
Edited == <<Stale("SERVER_ID", TRUE), Stale("blank", TRUE), Stale("OTHER", TRUE),
            Stale("SERVER_ID", TRUE), Stale("API_KEY", TRUE), Stale("API_KEY", FALSE)>>
MCEnvFiles == [r \in Requests |-> IF r = r1 THEN {Exported, Edited} ELSE {<<>>}]

\* The run explores every race of the registrations before a daemon is started,
\* and every race of the sockets beside a simpler registration.
Onboarding == \A r \in Requests : ~process[r].runs /\ socket = <<>> /\ crashes = 0
Connecting ==
    /\ registrar[r3].pc = "failed"
    /\ call[c2] = Idle
    /\ losses = 0 /\ issued <= 2
    /\ \A i \in Ids : server[i] # NoServer => server[i].owner = ann
OnboardingOrConnecting == Onboarding \/ Connecting

=============================================================================
