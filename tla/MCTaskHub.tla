----------------------------- MODULE MCTaskHub -----------------------------
(***************************************************************************)
(* TaskHub for TLC: servers s1 and s2 of one user, s3 of another one.      *)
(***************************************************************************)
EXTENDS TaskHub, TLC

CONSTANTS s1, s2, s3, ann, bob

\* s2 comes before s1 by name, so "preferred first" and "by name" differ.
MCOwnerOf == [s \in Servers |-> IF s = s3 THEN bob ELSE ann]
MCRank == [s \in Servers |-> CASE s = s1 -> 2 [] s = s2 -> 1 [] s = s3 -> 3]

\* Slots and job ids are interchangeable.
Symmetry == Permutations(Slots) \cup Permutations(JobIds)

\* Two handlers racing for a task of ann, or a restart beside one handler: the
\* run explores both, but not their product.
Races ==
    /\ crashes = 0 /\ flips = 0
    /\ \A t \in Tasks : task[t] # NoTask => task[t].type = "CODEX" /\ task[t].server # s3
Faults == stimuli <= 2 /\ Cardinality({c \in Slots : call[c] # Idle}) <= 1
RacesOrFaults == Races \/ Faults

=============================================================================
