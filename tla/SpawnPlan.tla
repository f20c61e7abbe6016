------------------------------ MODULE SpawnPlan ------------------------------
(***************************************************************************)
(* How runner.js turns the command template of a daemon and the prompt of  *)
(* a task into the argument vector of the child, when no shell is used:    *)
(* tokenize, substitute, stripOuterQuotes, buildSpawnPlan.                 *)
(*                                                                         *)
(* Templates and prompts are sequences of symbols: "quote", "sp", "bs" (a  *)
(* backslash), "prompt", "input" and "cwd" for the placeholders (which the *)
(* code writes in double braces), and "word" for everything else.          *)
(***************************************************************************)
EXTENDS Naturals, Sequences, SequencesExt

CONSTANTS
    MaxTemplate,  \* length of the templates that are checked
    MaxPrompt     \* length of the prompts that are checked

ASSUME SpawnPlanBounds == MaxTemplate \in Nat /\ MaxPrompt \in Nat

\* The value of one placeholder put in for every occurrence of it.
Put(token, key, value) ==
    LET out[n \in 0 .. Len(token)] ==
            IF n = 0 THEN <<>>
            ELSE out[n - 1] \o (IF token[n] = key THEN value ELSE <<token[n]>>)
    IN out[Len(token)]

\* One turn of the loop of tokenize; esc says that the symbol before was a
\* backslash that escapes this one.
Scan(acc, ch) ==
    LET more == [acc EXCEPT !.current = Append(@, ch), !.esc = FALSE]
    IN IF acc.esc THEN more
       ELSE IF ch = "bs" THEN [more EXCEPT !.esc = TRUE]
       ELSE IF ch = "quote" THEN [more EXCEPT !.inQuotes = ~@]
       ELSE IF ch = "sp" /\ ~acc.inQuotes
       THEN [acc EXCEPT !.tokens = IF acc.current = <<>> THEN @
                                   ELSE Append(@, acc.current),
                        !.current = <<>>]
       ELSE more

tokenize(template) ==
    LET scan[n \in 0 .. Len(template)] ==
            IF n = 0 THEN [tokens |-> <<>>, current |-> <<>>,
                           inQuotes |-> FALSE, esc |-> FALSE]
            ELSE Scan(scan[n - 1], template[n])
        end == scan[Len(template)]
    IN IF end.current = <<>> THEN end.tokens ELSE Append(end.tokens, end.current)

stripOuterQuotes(token) ==
    IF Len(token) >= 2 /\ Head(token) = "quote" /\ Last(token) = "quote"
    THEN SubSeq(token, 2, Len(token) - 1)
    ELSE SelectSeq(token, LAMBDA x : x # "quote")

\* JSON.stringify of the input: its prompt is quoted and escaped.
Input(prompt) ==
    <<"word", "quote">>
        \o Put(Put(prompt, "bs", <<"bs", "bs">>), "quote", <<"bs", "quote">>)
        \o <<"quote", "word">>

\* One placeholder after the other, in the order of buildSpawnPlan.
substitute(token, prompt) ==
    Put(Put(Put(token, "prompt", prompt), "input", Input(prompt)),
        "cwd", <<"word">>)

\* Mutant: the prompt is put into the template before it is cut into tokens.
buildSpawnPlan_SubstituteFirst(template, prompt) ==
    LET tokens == tokenize(substitute(template, prompt))
    IN [i \in DOMAIN tokens |-> stripOuterQuotes(tokens[i])]

\* The command and its arguments; an empty sequence stands for the error
\* "Empty command template".
buildSpawnPlan(template, prompt) ==
    LET tokens == tokenize(template)
    IN [i \in DOMAIN tokens |-> stripOuterQuotes(substitute(tokens[i], prompt))]

-----------------------------------------------------------------------------
(* Reference: the words of a template, by position instead of by scanning. *)

Escaped(s, i) ==
    \E n \in 0 .. i - 1 :
        /\ n % 2 = 1
        /\ \A k \in i - n .. i - 1 : s[k] = "bs"
        /\ i - n - 1 >= 1 => s[i - n - 1] # "bs"

Quoted(s, i) ==
    Cardinality({k \in 1 .. i - 1 : s[k] = "quote" /\ ~Escaped(s, k)}) % 2 = 1

Separates(s, i) == s[i] = "sp" /\ ~Escaped(s, i) /\ ~Quoted(s, i)

Words(s) ==
    {i \in DOMAIN s : ~Separates(s, i) /\ (i = 1 \/ Separates(s, i - 1))}

Templates ==
    BoundedSeq({"word", "sp", "quote", "bs", "prompt", "input"}, MaxTemplate)
Prompts == BoundedSeq({"word", "sp", "quote", "cwd"}, MaxPrompt)

\* Whatever spaces and quotes the prompt has, the child gets one argument per
\* word of the template, and where the template has {{prompt}} in quotes this
\* argument is the prompt itself.  (A prompt that spells a later placeholder
\* is the exception: it is put in as well.)
PlansAreRaw ==
    \A template \in Templates, prompt \in Prompts :
        LET plan == buildSpawnPlan(template, prompt)
            tokens == tokenize(template)
        IN /\ Len(plan) = Cardinality(Words(template))
           /\ ToSet(prompt) \cap {"input", "cwd"} = {} =>
                 \A i \in DOMAIN plan :
                     tokens[i] = <<"quote", "prompt", "quote">> => plan[i] = prompt

=============================================================================
