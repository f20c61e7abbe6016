----------------------------- MODULE DaemonOutput -----------------------------
(***************************************************************************)
(* What the daemons of AgentDaemon read in the output of their children:   *)
(* the tail a TaskRunner keeps, approval-detector.js, which finds a        *)
(* confirmation prompt in it, and failure-detector.js, which finds a       *)
(* capacity signal in it when the child has failed.  AgentDaemon leaves    *)
(* both answers open; here they follow from the text.  The command line    *)
(* of the child, which runner.js builds from a template, is SpawnPlan.     *)
(*                                                                         *)
(* A text is a sequence of symbols: "y/n" is a marker that counts anywhere *)
(* in a line, "allow" one that needs a "?" at the end of its line, "limit" *)
(* a capacity word, "esc" an ANSI escape sequence, "nl" a line break and   *)
(* "word" anything else.                                                   *)
(***************************************************************************)
EXTENDS AgentDaemon, SpawnPlan, FiniteSets

CONSTANTS
    Chunks,       \* what one read of stdout or stderr may return
    TAIL_LIMIT,   \* symbols kept in the tail
    KeptLines,    \* lines failure-detector looks at
    KeptSymbols,  \* symbols failure-detector looks at
    MaxOutput     \* bound on the symbols a child prints

Symbols == {"y/n", "allow", "?", "limit", "esc", "nl", "word"}

ASSUME OutputAssumption ==
    /\ Chunks \subseteq Seq(Symbols) \ {<<>>}
    /\ TAIL_LIMIT \in Nat \ {0}
    /\ KeptLines \in Nat \ {0} /\ KeptSymbols \in Nat \ {0}
    /\ MaxOutput \in Nat

VARIABLE text   \* the output of each runner's child

outputVars == <<daemonVars, text>>

\* out is all the child has printed and mark how much of it the last approval
\* had seen; they are not kept by the code and serve the properties.
NoText == [tail |-> <<>>, lastChunk |-> <<>>, out |-> <<>>, mark |-> 0]
Text == [tail : Seq(Symbols), lastChunk : Seq(Symbols), out : Seq(Symbols), mark : Nat]

OutputInit ==
    /\ DaemonInit
    /\ text = [d \in Daemons |-> [t \in Tasks |-> NoText]]

-----------------------------------------------------------------------------
(* The detectors.                                                          *)

LastOf(s, n) == SubSeq(s, IF Len(s) > n THEN Len(s) - n + 1 ELSE 1, Len(s))

\* detect, which strips the escape sequences: CONFIRM_MARKERS, applied to every
\* line of s.  A "?" ends its line if only escape sequences follow it there.
EndsLine(s, j) ==
    \A k \in j + 1 .. Len(s) :
        (\A m \in j + 1 .. k - 1 : s[m] = "esc") => s[k] \in {"esc", "nl"}

detect(s) ==
    \/ \E i \in DOMAIN s : s[i] = "y/n"
    \/ \E i, j \in DOMAIN s :
          /\ i < j /\ s[i] = "allow" /\ s[j] = "?"
          /\ \A k \in i .. j : s[k] # "nl"
          /\ EndsLine(s, j)

\* The non-empty lines of s that begin after position i, and the symbols that
\* follow position i once empty lines are dropped.
LinesAfter(s, i) ==
    Cardinality({k \in (i + 1) .. Len(s) : s[k] # "nl" /\ s[k - 1] = "nl"})
SymbolsAfter(s, i) ==
    Cardinality({k \in (i + 1) .. Len(s) : s[k] # "nl"}) + LinesAfter(s, i)

\* Mutant: the newest lines are not looked at.
Excerpted_Oldest(s, i) ==
    Cardinality({k \in 1 .. i : s[k] # "nl" /\ (k = 1 \/ s[k - 1] = "nl")}) <= KeptLines

\* Position i of s is in excerpt(s): the last lines, cut to the last symbols.
Excerpted(s, i) == LinesAfter(s, i) < KeptLines /\ SymbolsAfter(s, i) < KeptSymbols

\* CAPACITY_PATTERNS begin with a word boundary.  Escape sequences are not
\* stripped here and end in a letter, so there is none behind them.
ShowsCapacity(s) ==
    \E i \in DOMAIN s :
        /\ s[i] = "limit"
        /\ Excerpted(s, i)
        /\ i = 1 \/ s[i - 1] # "esc" \/ ~Excerpted(s, i - 1)

\* detectStructuredFailure of a child that has failed, for its tail || lastChunk.
FailureOf(x) ==
    IF ShowsCapacity(IF x.tail # <<>> THEN x.tail ELSE x.lastChunk)
    THEN "CAPACITY_EXHAUSTED" ELSE "FAILED"

-----------------------------------------------------------------------------
(* The runner's fields, beside the steps of AgentDaemon.                   *)

\* Mutant: only the chunk at hand is looked at.
Printed_NoTail(x, chunk) ==
    [x EXCEPT !.tail = chunk, !.lastChunk = chunk, !.out = @ \o chunk]

\* Mutant: what does not fit is left out.
Printed_Full(x, chunk) ==
    [x EXCEPT !.tail = IF Len(@ \o chunk) > TAIL_LIMIT THEN @ ELSE @ \o chunk,
              !.lastChunk = chunk, !.out = @ \o chunk]

\* The first lines of onData.
Printed(x, chunk) ==
    [x EXCEPT !.tail = LastOf(@ \o chunk, TAIL_LIMIT),
              !.lastChunk = chunk, !.out = @ \o chunk]

\* Mutant: the tail survives the approval.
Resumed_KeepsTail(x) == [x EXCEPT !.mark = Len(x.out)]

\* resume forgets the tail.
Resumed(x) == [x EXCEPT !.tail = <<>>, !.mark = Len(x.out)]

\* The fields of a runner across a step that reads no output: fresh with a new
\* runner, reset by resume.
Carried(d, t) ==
    IF runner'[d][t].run # runner[d][t].run THEN NoText
    ELSE IF Running(d, t) /\ runner[d][t].awaitingApproval
                          /\ ~runner'[d][t].awaitingApproval
    THEN Resumed(text[d][t])
    ELSE text[d][t]

Read(d, t, chunk) ==
    /\ Len(text[d][t].out) + Len(chunk) <= MaxOutput
    /\ text' = [text EXCEPT ![d][t] = Printed(@, chunk)]
    /\ onData(d, t, detect(text'[d][t].tail))

\* The child exits by itself with code 0 (ok), or otherwise.
Exit(d, t, ok) == onClose(d, t, IF ok THEN "COMPLETED" ELSE FailureOf(text[d][t]))

OutputNext ==
    \E d \in Daemons :
        \/ \E t \in Tasks, chunk \in Chunks : Read(d, t, chunk)
        \/ /\ \/ Handler(d)
              \/ \E t \in Tasks : onError(d, t) \/ \E ok \in BOOLEAN : Exit(d, t, ok)
              \/ Connection(d)
              \/ HubSide(d)
           /\ text' = [text EXCEPT ![d] = [t \in Tasks |-> Carried(d, t)]]

OutputSpec == OutputInit /\ [][OutputNext]_outputVars

-----------------------------------------------------------------------------
(* Properties.                                                             *)

\* What the child has printed since it was last approved.
Fresh(x) == SubSeq(x.out, x.mark + 1, Len(x.out))

\* The line that s ends with begins at i.
LastLineAt(s, i) ==
    /\ i \in 1 .. Len(s) + 1
    /\ i = 1 \/ s[i - 1] = "nl"
    /\ \A k \in i .. Len(s) : s[k] # "nl"

\* However the output is cut into chunks, a prompt that the child has printed
\* since it was last approved is noticed: if nobody has been asked, the line
\* that this output ends with is no prompt, unless the line alone is longer than
\* the tail.  It says nothing of a prompt printed, wholly or in part, while an
\* approval was awaited: onData does not look for one then, and resume forgets
\* it with the tail (runner.js:184), so nobody is asked and the child waits.
FreshPromptNoticed ==
    \A d \in Daemons, t \in Tasks :
        LET fresh == Fresh(text[d][t])
        IN (Running(d, t) /\ ~runner[d][t].awaitingApproval) =>
               \A i \in 1 .. Len(fresh) + 1 :
                   (LastLineAt(fresh, i) /\ Len(fresh) - i < TAIL_LIMIT)
                       => ~detect(SubSeq(fresh, i, Len(fresh)))

\* Nobody is asked twice about one prompt: when an approval is requested, the
\* prompt has been printed after the approval before it.
AsksFresh ==
    \A d \in Daemons, t \in Tasks :
        (/\ Running(d, t) /\ ~runner[d][t].awaitingApproval
         /\ Running(d, t)' /\ runner'[d][t].awaitingApproval)
            => detect(Fresh(text'[d][t]))
RequestIsFresh == [][AsksFresh]_outputVars

\* A task fails over only for a reason the user can see: a failure is reported
\* as one of capacity only if the last lines of all the child has printed
\* show a capacity word, whatever was cut from the tail or dropped by resume.
FailoverJustified ==
    \A d \in Daemons, t \in Tasks :
        LET out == text[d][t].out
        IN FailureOf(text[d][t]) = "CAPACITY_EXHAUSTED"
               => \E i \in DOMAIN out : out[i] = "limit" /\ LinesAfter(out, i) < KeptLines

\* A child that fails over a capacity limit is reported so: if the line its
\* output since the last approval ends with begins with a capacity word and
\* fits what is kept, the failure is one of capacity.  (Not so for a
\* coloured word, see ShowsCapacity.)
CapacityNoticed ==
    \A d \in Daemons, t \in Tasks :
        LET fresh == Fresh(text[d][t])
        IN \A i \in DOMAIN fresh :
               (/\ LastLineAt(fresh, i) /\ fresh[i] = "limit"
                /\ Len(fresh) - i < TAIL_LIMIT /\ Len(fresh) - i < KeptSymbols)
                   => FailureOf(text[d][t]) = "CAPACITY_EXHAUSTED"

\* agent-daemon/README.md promises for {{prompt}} "raw text, passed as a single
\* argument": no child runs on a command line that a space or a quote in its
\* prompt has broken up.
PromptIsOneArgument ==
    \A d \in Daemons, t \in Tasks : Running(d, t) => PlansAreRaw

-----------------------------------------------------------------------------
(* The inductive invariant behind these properties; module                 *)
(* DaemonOutputProofs has the proofs.                                      *)

\* s is what u ends with.
IsEnd(s, u) ==
    /\ Len(s) <= Len(u)
    /\ \A i \in DOMAIN s : s[i] = u[Len(u) - Len(s) + i]

\* The tail is as much of what was printed since the last approval as fits; the
\* last chunk is the end of the output.
TextOK(x) ==
    /\ x.mark <= Len(x.out)
    /\ IsEnd(x.tail, x.out)
    /\ Len(x.tail) = IF Len(x.out) - x.mark > TAIL_LIMIT THEN TAIL_LIMIT
                                                        ELSE Len(x.out) - x.mark
    /\ IsEnd(x.lastChunk, x.out)

\* And a runner that has not asked has no prompt in its tail.
OutputInv ==
    /\ DaemonInv
    /\ text \in [Daemons -> [Tasks -> Text]]
    /\ \A d \in Daemons, t \in Tasks :
          /\ TextOK(text[d][t])
          /\ (Running(d, t) /\ ~runner[d][t].awaitingApproval)
                 => ~detect(text[d][t].tail)

=============================================================================
