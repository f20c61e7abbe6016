-------------------------- MODULE DaemonOutputProofs --------------------------
(***************************************************************************)
(* Proofs about DaemonOutput: it implements AgentDaemon, and what its      *)
(* detectors see in the tail is what the child has printed, for every cut  *)
(* of the output into chunks, every limit and any number of daemons; and   *)
(* that the command line of a child is what its template says.             *)
(***************************************************************************)
EXTENDS DaemonOutput, AgentDaemonProofs, FiniteSetTheorems, FunctionTheorems,
        WellFoundedInduction

-----------------------------------------------------------------------------
(* The ends of a text.                                                     *)

\* A text is a function on an interval.
LEMMA SeqIs ==
    ASSUME NEW s \in Seq(Symbols)
    PROVE  /\ Len(s) \in Nat /\ DOMAIN s = 1 .. Len(s)
           /\ \A i \in 1 .. Len(s) : s[i] \in Symbols
OBVIOUS

\* A text ends with itself and with nothing.
LEMMA EndSelf ==
    ASSUME NEW u \in Seq(Symbols)
    PROVE  IsEnd(u, u) /\ IsEnd(<<>>, u)
BY SeqIs DEF IsEnd

\* What the end of a text ends with is what the text ends with.
LEMMA EndTrans ==
    ASSUME NEW a \in Seq(Symbols), NEW b \in Seq(Symbols), NEW c \in Seq(Symbols),
           IsEnd(a, b), IsEnd(b, c)
    PROVE  IsEnd(a, c)
<1>1. /\ Len(a) \in Nat /\ DOMAIN a = 1 .. Len(a)
      /\ Len(b) \in Nat /\ DOMAIN b = 1 .. Len(b)
      /\ Len(c) \in Nat /\ Len(a) <= Len(b) /\ Len(b) <= Len(c)
  BY DEF IsEnd
<1>2. ASSUME NEW i \in DOMAIN a
      PROVE  a[i] = c[Len(c) - Len(a) + i]
  <2>1. PICK j \in DOMAIN b : j = Len(b) - Len(a) + i
    BY <1>1
  <2>2. a[i] = b[j] /\ b[j] = c[Len(c) - Len(b) + j]
    BY <2>1 DEF IsEnd
  <2>3. Len(c) - Len(b) + j = Len(c) - Len(a) + i
    BY <1>1, <2>1
  <2> QED
    BY <2>2, <2>3
<1> QED
  BY <1>1, <1>2 DEF IsEnd

\* Of two ends of a text, the longer ends with the shorter.
LEMMA EndShorter ==
    ASSUME NEW a \in Seq(Symbols), NEW b \in Seq(Symbols), NEW u \in Seq(Symbols),
           IsEnd(a, u), IsEnd(b, u), Len(a) <= Len(b)
    PROVE  IsEnd(a, b)
<1>1. /\ Len(a) \in Nat /\ DOMAIN a = 1 .. Len(a)
      /\ Len(b) \in Nat /\ DOMAIN b = 1 .. Len(b)
      /\ Len(u) \in Nat /\ Len(b) <= Len(u)
  BY DEF IsEnd
<1>2. ASSUME NEW i \in DOMAIN a
      PROVE  a[i] = b[Len(b) - Len(a) + i]
  <2>1. PICK j \in DOMAIN b : j = Len(b) - Len(a) + i
    BY <1>1
  <2>2. a[i] = u[Len(u) - Len(a) + i] /\ b[j] = u[Len(u) - Len(b) + j]
    BY DEF IsEnd
  <2>3. Len(u) - Len(b) + j = Len(u) - Len(a) + i
    BY <1>1, <2>1
  <2> QED
    BY <2>1, <2>2, <2>3
<1> QED
  BY <1>2 DEF IsEnd

\* More is printed.
LEMMA EndGrows ==
    ASSUME NEW a \in Seq(Symbols), NEW u \in Seq(Symbols), NEW c \in Seq(Symbols),
           IsEnd(a, u)
    PROVE  IsEnd(a \o c, u \o c)
<1>1. /\ Len(a) \in Nat /\ Len(u) \in Nat /\ Len(c) \in Nat /\ Len(a) <= Len(u)
      /\ DOMAIN a = 1 .. Len(a)
  BY DEF IsEnd
<1>2. /\ Len(a \o c) = Len(a) + Len(c) /\ DOMAIN (a \o c) = 1 .. Len(a) + Len(c)
      /\ Len(u \o c) = Len(u) + Len(c)
  OBVIOUS
<1>3. ASSUME NEW i \in 1 .. Len(a) + Len(c)
      PROVE  (a \o c)[i] = (u \o c)[Len(u) - Len(a) + i]
  <2>1. PICK j : j = Len(u) - Len(a) + i
    OBVIOUS
  <2>2. j \in 1 .. Len(u) + Len(c)
    BY <1>1, <2>1
  <2>3. CASE i <= Len(a)
    <3>1. i \in 1 .. Len(a) /\ j \in 1 .. Len(u)
      BY <1>1, <2>1, <2>3
    <3>2. (a \o c)[i] = a[i] /\ (u \o c)[j] = u[j]
      BY <3>1
    <3>3. a[i] = u[j]
      BY <1>1, <2>1, <3>1 DEF IsEnd
    <3> QED
      BY <2>1, <3>2, <3>3
  <2>4. CASE i > Len(a)
    <3>1. j > Len(u) /\ i - Len(a) = j - Len(u)
      BY <1>1, <2>1, <2>4
    <3>2. (a \o c)[i] = c[i - Len(a)]
      BY <2>4
    <3>3. (u \o c)[j] = c[j - Len(u)]
      BY <2>2, <3>1
    <3> QED
      BY <2>1, <3>1, <3>2, <3>3
  <2> QED
    BY <1>1, <2>3, <2>4
<1>4. (Len(u) + Len(c)) - (Len(a) + Len(c)) = Len(u) - Len(a)
  BY <1>1
<1> QED
  BY <1>1, <1>2, <1>3, <1>4 DEF IsEnd

\* What is printed last is the end of the output.
LEMMA EndChunk ==
    ASSUME NEW u \in Seq(Symbols), NEW c \in Seq(Symbols)
    PROVE  IsEnd(c, u \o c)
<1>1. <<>> \in Seq(Symbols) /\ <<>> \o c = c /\ IsEnd(<<>>, u)
  BY EndSelf
<1> QED
  BY <1>1, EndGrows

\* A text from some position on.
LEMMA EndFrom ==
    ASSUME NEW u \in Seq(Symbols), NEW m \in 1 .. Len(u) + 1
    PROVE  /\ SubSeq(u, m, Len(u)) \in Seq(Symbols)
           /\ Len(SubSeq(u, m, Len(u))) = Len(u) - m + 1
           /\ IsEnd(SubSeq(u, m, Len(u)), u)
<1>1. Len(u) \in Nat /\ m \in Nat
  OBVIOUS
<1>2. /\ SubSeq(u, m, Len(u)) \in Seq(Symbols)
      /\ Len(SubSeq(u, m, Len(u))) = Len(u) - m + 1
      /\ \A i \in 1 .. Len(u) - m + 1 : SubSeq(u, m, Len(u))[i] = u[m + i - 1]
  BY <1>1
<1>3. \A i \in 1 .. Len(u) - m + 1 : m + i - 1 = Len(u) - (Len(u) - m + 1) + i
  BY <1>1
<1> QED
  BY <1>1, <1>2, <1>3 DEF IsEnd

\* What slice(-n) keeps.
LEMMA LastOfIs ==
    ASSUME NEW u \in Seq(Symbols), NEW n \in Nat
    PROVE  /\ LastOf(u, n) \in Seq(Symbols)
           /\ Len(LastOf(u, n)) = IF Len(u) > n THEN n ELSE Len(u)
           /\ IsEnd(LastOf(u, n), u)
<1>1. Len(u) \in Nat
  OBVIOUS
<1>2. PICK m : m = IF Len(u) > n THEN Len(u) - n + 1 ELSE 1
  OBVIOUS
<1>3. m \in 1 .. Len(u) + 1
  BY <1>1, <1>2
<1>4. LastOf(u, n) = SubSeq(u, m, Len(u))
  BY <1>2 DEF LastOf
<1>5. Len(u) - m + 1 = IF Len(u) > n THEN n ELSE Len(u)
  BY <1>1, <1>2
<1> QED
  BY <1>3, <1>4, <1>5, EndFrom

\* How far the end of a text is from its beginning.
LEMMA EndShift ==
    ASSUME NEW a \in Seq(Symbols), NEW u \in Seq(Symbols), IsEnd(a, u)
    PROVE  \E k \in Nat :
              /\ k = Len(u) - Len(a)
              /\ \A j \in 1 .. Len(a) : j + k \in 1 .. Len(u) /\ a[j] = u[j + k]
<1>1. /\ Len(a) \in Nat /\ DOMAIN a = 1 .. Len(a)
      /\ Len(u) \in Nat /\ Len(a) <= Len(u)
  BY DEF IsEnd
<1>2. PICK k : k = Len(u) - Len(a)
  OBVIOUS
<1>3. k \in Nat
  BY <1>1, <1>2
<1>4. ASSUME NEW j \in 1 .. Len(a)
      PROVE  j + k \in 1 .. Len(u) /\ a[j] = u[j + k]
  <2>1. Len(u) - Len(a) + j = j + k /\ j + k \in 1 .. Len(u)
    BY <1>1, <1>2, <1>3
  <2>2. a[j] = u[Len(u) - Len(a) + j]
    BY <1>1 DEF IsEnd
  <2> QED
    BY <2>1, <2>2
<1> QED
  BY <1>2, <1>3, <1>4

-----------------------------------------------------------------------------
(* The detectors.                                                          *)

\* A prompt in the end of a text is a prompt in the text.
LEMMA detectEnd ==
    ASSUME NEW a \in Seq(Symbols), NEW u \in Seq(Symbols), IsEnd(a, u), detect(a)
    PROVE  detect(u)
<1>1. /\ Len(a) \in Nat /\ DOMAIN a = 1 .. Len(a)
      /\ Len(u) \in Nat /\ DOMAIN u = 1 .. Len(u) /\ Len(a) <= Len(u)
  BY DEF IsEnd
<1>2. PICK k \in Nat :
          /\ k = Len(u) - Len(a)
          /\ \A j \in 1 .. Len(a) : j + k \in 1 .. Len(u) /\ a[j] = u[j + k]
  BY EndShift
<1>3. \A i \in 1 .. Len(a) : i + k \in 1 .. Len(u) /\ a[i] = u[i + k]
  BY <1>2
<1>4. CASE \E i \in DOMAIN a : a[i] = "y/n"
  BY <1>1, <1>3, <1>4 DEF detect
<1>5. CASE \E i, j \in DOMAIN a :
              /\ i < j /\ a[i] = "allow" /\ a[j] = "?"
              /\ \A m \in i .. j : a[m] # "nl"
              /\ EndsLine(a, j)
  <2>1. PICK i \in 1 .. Len(a), j \in 1 .. Len(a) :
            /\ i < j /\ a[i] = "allow" /\ a[j] = "?"
            /\ \A m \in i .. j : a[m] # "nl"
            /\ EndsLine(a, j)
    BY <1>1, <1>5
  <2>2. /\ i + k \in DOMAIN u /\ j + k \in DOMAIN u /\ i + k < j + k
        /\ u[i + k] = "allow" /\ u[j + k] = "?"
    BY <1>1, <1>3, <2>1
  <2>3. ASSUME NEW m \in i + k .. j + k PROVE u[m] # "nl"
    <3>1. m - k \in i .. j /\ m - k \in 1 .. Len(a) /\ (m - k) + k = m
      BY <1>2, <2>1
    <3> QED
      BY <1>3, <2>1, <3>1
  <2>4. EndsLine(u, j + k)
    <3>1. SUFFICES ASSUME NEW n \in (j + k) + 1 .. Len(u),
                          \A m \in (j + k) + 1 .. n - 1 : u[m] = "esc"
                   PROVE  u[n] \in {"esc", "nl"}
      BY DEF EndsLine
    <3>2. n - k \in j + 1 .. Len(a) /\ n - k \in 1 .. Len(a) /\ (n - k) + k = n
      BY <1>1, <1>2, <2>1
    <3>3. ASSUME NEW m \in j + 1 .. (n - k) - 1 PROVE a[m] = "esc"
      <4>1. m \in 1 .. Len(a) /\ m + k \in (j + k) + 1 .. n - 1
        BY <1>1, <1>2, <2>1, <3>2
      <4> QED
        BY <1>3, <3>1, <4>1
    <3>4. a[n - k] \in {"esc", "nl"}
      BY <2>1, <3>2, <3>3 DEF EndsLine
    <3> QED
      BY <1>3, <3>2, <3>4
  <2> QED
    BY <2>2, <2>3, <2>4 DEF detect
<1> QED
  BY <1>4, <1>5 DEF detect

\* The lines that begin after a position.
Begins(s, i) == {k \in (i + 1) .. Len(s) : s[k] # "nl" /\ s[k - 1] = "nl"}

LEMMA BeginsFinite ==
    ASSUME NEW s \in Seq(Symbols), NEW i \in Nat
    PROVE  /\ IsFiniteSet(Begins(s, i)) /\ LinesAfter(s, i) = Cardinality(Begins(s, i))
           /\ LinesAfter(s, i) \in Nat
<1>1. IsFiniteSet((i + 1) .. Len(s))
  <2>1. i + 1 \in Int /\ Len(s) \in Int
    OBVIOUS
  <2> QED
    BY <2>1, FS_Interval
<1>2. Begins(s, i) \subseteq (i + 1) .. Len(s)
  BY DEF Begins
<1>3. IsFiniteSet(Begins(s, i))
  BY <1>1, <1>2, FS_Subset
<1>4. LinesAfter(s, i) = Cardinality(Begins(s, i))
  BY DEF LinesAfter, Begins
<1> QED
  BY <1>3, <1>4, FS_CardinalityType

\* They are as many in a text as in the end of it.
LEMMA LinesAfterEnd ==
    ASSUME NEW a \in Seq(Symbols), NEW u \in Seq(Symbols), IsEnd(a, u),
           NEW i \in 1 .. Len(a)
    PROVE  LinesAfter(a, i) = LinesAfter(u, Len(u) - Len(a) + i)
<1>1. /\ Len(a) \in Nat /\ DOMAIN a = 1 .. Len(a)
      /\ Len(u) \in Nat /\ Len(a) <= Len(u)
  BY DEF IsEnd
<1>2. PICK k \in Nat :
          /\ k = Len(u) - Len(a)
          /\ \A j \in 1 .. Len(a) : j + k \in 1 .. Len(u) /\ a[j] = u[j + k]
  BY EndShift
<1>3. \A j \in 1 .. Len(a) : a[j] = u[j + k]
  BY <1>2
<1> DEFINE A == Begins(a, i)
           U == Begins(u, i + k)
           f == [j \in A |-> j + k]
<1>4. ASSUME NEW j \in A PROVE j + k \in U
  <2>1. j \in (i + 1) .. Len(a) /\ a[j] # "nl" /\ a[j - 1] = "nl"
    BY DEF Begins
  <2>2. j \in 1 .. Len(a) /\ j - 1 \in 1 .. Len(a) /\ (j - 1) + k = (j + k) - 1
    BY <1>1, <2>1
  <2>3. u[j + k] # "nl" /\ u[(j + k) - 1] = "nl"
    BY <1>3, <2>1, <2>2
  <2>4. j + k \in (i + k) + 1 .. Len(u)
    BY <1>1, <1>2, <2>1
  <2> QED
    BY <2>3, <2>4 DEF Begins
<1>5. ASSUME NEW n \in U PROVE n - k \in A /\ f[n - k] = n
  <2>1. n \in (i + k) + 1 .. Len(u) /\ u[n] # "nl" /\ u[n - 1] = "nl"
    BY DEF Begins
  <2>2. /\ n - k \in 1 .. Len(a) /\ (n - k) - 1 \in 1 .. Len(a)
        /\ (n - k) + k = n /\ ((n - k) - 1) + k = n - 1 /\ n - k \in (i + 1) .. Len(a)
    BY <1>1, <1>2, <2>1
  <2>3. a[n - k] # "nl" /\ a[(n - k) - 1] = "nl"
    BY <1>3, <2>1, <2>2
  <2>4. n - k \in A
    BY <2>2, <2>3 DEF Begins
  <2> QED
    BY <2>2, <2>4
<1>6. A \subseteq Nat
  BY <1>1 DEF Begins
<1> HIDE DEF A, U
<1>7. f \in [A -> U] /\ \A x, y \in A : f[x] = f[y] => x = y
  BY <1>4, <1>6
<1>8. \A n \in U : \E j \in A : f[j] = n
  BY <1>5
<1>9. ExistsBijection(A, U)
  <2>1. f \in Bijection(A, U)
    BY <1>7, <1>8, Fun_IsBij
  <2> QED
    BY <2>1, Fun_ExistsBij
<1>10. /\ IsFiniteSet(A) /\ LinesAfter(a, i) = Cardinality(A)
       /\ LinesAfter(u, i + k) = Cardinality(U)
  BY <1>1, BeginsFinite DEF A, U
<1>11. Cardinality(A) = Cardinality(U)
  BY <1>9, <1>10, FS_Bijection
<1>12. i + k = Len(u) - Len(a) + i
  BY <1>1, <1>2
<1> QED
  BY <1>10, <1>11, <1>12

-----------------------------------------------------------------------------
(* The runner's fields.                                                    *)

LEMMA LimitIs == TAIL_LIMIT \in Nat /\ TAIL_LIMIT > 0
BY OutputAssumption

\* The fields of a new runner.
LEMMA NoTextOK == NoText \in Text /\ TextOK(NoText) /\ ~detect(NoText.tail)
<1>1. /\ NoText.tail = <<>> /\ NoText.lastChunk = <<>> /\ NoText.out = <<>>
      /\ NoText.mark = 0
  BY DEF NoText
<1>2. <<>> \in Seq(Symbols) /\ Len(<<>>) = 0
  OBVIOUS
<1>3. NoText \in Text
  BY <1>2 DEF NoText, Text
<1>4. TextOK(NoText)
  <2>1. IsEnd(<<>>, <<>>)
    BY <1>2, EndSelf
  <2>2. 0 <= 0 /\ 0 = IF 0 - 0 > TAIL_LIMIT THEN TAIL_LIMIT ELSE 0 - 0
    BY LimitIs
  <2> QED
    BY <1>1, <1>2, <2>1, <2>2, Zenon DEF TextOK
<1>5. ~detect(<<>>)
  BY DEF detect
<1> QED
  BY <1>1, <1>3, <1>4, <1>5

\* resume.
LEMMA ResumedOK ==
    ASSUME NEW x \in Text, TextOK(x)
    PROVE  Resumed(x) \in Text /\ TextOK(Resumed(x)) /\ ~detect(Resumed(x).tail)
<1>1. /\ x.out \in Seq(Symbols) /\ x.lastChunk \in Seq(Symbols) /\ <<>> \in Seq(Symbols)
      /\ Len(<<>>) = 0
  BY DEF Text
<1>2. PICK n \in Nat : n = Len(x.out)
  BY <1>1
<1>3. PICK y : y = [x EXCEPT !.tail = <<>>, !.mark = n]
  OBVIOUS
<1>4. /\ y.tail = <<>> /\ y.lastChunk = x.lastChunk /\ y.out = x.out /\ y.mark = n
      /\ y \in Text
  BY <1>1, <1>3 DEF Text
<1>5. IsEnd(<<>>, x.out) /\ IsEnd(x.lastChunk, x.out)
  BY <1>1, EndSelf DEF TextOK
<1>6. n <= n /\ 0 = IF n - n > TAIL_LIMIT THEN TAIL_LIMIT ELSE n - n
  BY LimitIs
<1>7. TextOK(y)
  BY <1>1, <1>2, <1>4, <1>5, <1>6, Zenon DEF TextOK
<1>8. ~detect(<<>>)
  BY DEF detect
<1>9. y = Resumed(x)
  BY <1>2, <1>3 DEF Resumed
<1> QED
  BY <1>4, <1>7, <1>8, <1>9

\* onData.
LEMMA PrintedOK ==
    ASSUME NEW x \in Text, TextOK(x), NEW c \in Chunks
    PROVE  Printed(x, c) \in Text /\ TextOK(Printed(x, c))
<1>1. /\ c \in Seq(Symbols) /\ Len(c) \in Nat
      /\ x.tail \in Seq(Symbols) /\ Len(x.tail) \in Nat
      /\ x.out \in Seq(Symbols) /\ Len(x.out) \in Nat /\ x.mark \in Nat
      /\ x.tail \o c \in Seq(Symbols) /\ Len(x.tail \o c) = Len(x.tail) + Len(c)
      /\ x.out \o c \in Seq(Symbols) /\ Len(x.out \o c) = Len(x.out) + Len(c)
  BY OutputAssumption DEF Text
<1>2. PICK q : q = LastOf(x.tail \o c, TAIL_LIMIT)
  OBVIOUS
<1>3. /\ q \in Seq(Symbols) /\ IsEnd(q, x.tail \o c)
      /\ Len(q) = IF Len(x.tail) + Len(c) > TAIL_LIMIT THEN TAIL_LIMIT
                                                      ELSE Len(x.tail) + Len(c)
  BY <1>1, <1>2, LimitIs, LastOfIs
<1>4. PICK y : y = Printed(x, c)
  OBVIOUS
<1>5. /\ y.tail = q /\ y.lastChunk = c /\ y.out = x.out \o c /\ y.mark = x.mark
      /\ y \in Text
  BY <1>1, <1>2, <1>3, <1>4 DEF Printed, Text
<1>6. IsEnd(q, x.out \o c) /\ IsEnd(c, x.out \o c)
  <2>1. IsEnd(x.tail \o c, x.out \o c)
    BY <1>1, EndGrows DEF TextOK
  <2> QED
    BY <1>1, <1>3, <2>1, EndTrans, EndChunk
<1>7. /\ x.mark <= Len(x.out)
      /\ Len(x.tail) = IF Len(x.out) - x.mark > TAIL_LIMIT THEN TAIL_LIMIT
                                                          ELSE Len(x.out) - x.mark
  BY DEF TextOK
<1>8. /\ x.mark <= Len(x.out) + Len(c)
      /\ Len(q) = IF (Len(x.out) + Len(c)) - x.mark > TAIL_LIMIT THEN TAIL_LIMIT
                  ELSE (Len(x.out) + Len(c)) - x.mark
  BY <1>1, <1>3, <1>7, LimitIs, SMTT(30)
<1>9. TextOK(y)
  BY <1>1, <1>5, <1>6, <1>8 DEF TextOK
<1> QED
  BY <1>4, <1>5, <1>9

-----------------------------------------------------------------------------
(* The steps.                                                              *)

\* A read of output is a step of AgentDaemon.
LEMMA ReadIsChild ==
    ASSUME NEW d \in Daemons, NEW t \in Tasks, NEW c \in Chunks, Read(d, t, c)
    PROVE  DaemonNext
<1>1. PICK b : b = detect(text'[d][t].tail)
  OBVIOUS
<1>2. b \in BOOLEAN
  BY <1>1 DEF detect
<1>3. onData(d, t, b)
  BY <1>1 DEF Read
<1> QED
  BY <1>2, <1>3 DEF DaemonNext, Child

\* So is every exit, with one of the results.
LEMMA ExitIsChild ==
    ASSUME NEW d \in Daemons, NEW t \in Tasks, NEW ok \in BOOLEAN, Exit(d, t, ok)
    PROVE  \E e \in Results : onClose(d, t, e)
<1>1. PICK e : e = IF ok THEN "COMPLETED" ELSE FailureOf(text[d][t])
  OBVIOUS
<1>2. e \in Results
  BY <1>1 DEF FailureOf, Results
<1>3. onClose(d, t, e)
  BY <1>1 DEF Exit
<1> QED
  BY <1>2, <1>3

\* The steps of a daemon that read no output.
Silent(d) ==
    \/ Handler(d)
    \/ \E t \in Tasks : onError(d, t) \/ \E ok \in BOOLEAN : Exit(d, t, ok)
    \/ Connection(d)
    \/ HubSide(d)

LEMMA StepsOfDaemon ==
    ASSUME OutputNext
    PROVE  \E d \in Daemons :
              \/ \E t \in Tasks, c \in Chunks : Read(d, t, c)
              \/ Silent(d) /\ text' = [text EXCEPT ![d] = [t \in Tasks |-> Carried(d, t)]]
BY DEF OutputNext, Silent

LEMMA SilentIsNext ==
    ASSUME NEW d \in Daemons, Silent(d)
    PROVE  DaemonNext
<1>1. CASE \E t \in Tasks : \E ok \in BOOLEAN : Exit(d, t, ok)
  BY <1>1, ExitIsChild DEF DaemonNext, Child
<1>2. CASE \E t \in Tasks : onError(d, t)
  BY <1>2 DEF DaemonNext, Child
<1>3. CASE Handler(d) \/ Connection(d) \/ HubSide(d)
  BY <1>3 DEF DaemonNext
<1> QED
  BY <1>1, <1>2, <1>3 DEF Silent

\* A daemon has no hand in the runners of another.
LEMMA SilentElsewhere ==
    ASSUME DaemonTypeOK, NEW d \in Daemons, Silent(d), NEW b \in Daemons, b # d
    PROVE  runner'[b] = runner[b]
<1>1. runner \in [Daemons -> [Tasks -> {NoRunner} \cup Runner]]
  BY DEF DaemonTypeOK
<1>2. \A t, r : SetRunner(d, t, r) => runner'[b] = runner[b]
  BY <1>1 DEF SetRunner
<1>3. CASE Handler(d)
  BY <1>2, <1>3 DEF Handler, onTaskSubmit, onTaskCancel, onApprovalDecision, start,
                    kill, resume, Answer
<1>4. CASE \E t \in Tasks : onError(d, t) \/ \E ok \in BOOLEAN : Exit(d, t, ok)
  BY <1>2, <1>4 DEF onError, Exit, onClose, dropTask
<1>5. CASE Connection(d)
  BY <1>1, <1>5 DEF Connection, Break, onDisconnect, onConnect, shutdown
<1>6. CASE HubSide(d)
  BY <1>6 DEF HubSide, HubSends, HubTakes
<1> QED
  BY <1>3, <1>4, <1>5, <1>6 DEF Silent

\* A read keeps the tail, and asks if there is a prompt in it.
LEMMA ReadOK ==
    ASSUME OutputInv, DaemonInv', NEW d \in Daemons, NEW t \in Tasks, NEW c \in Chunks,
           Read(d, t, c)
    PROVE  OutputInv'
<1>1. DaemonInv /\ text \in [Daemons -> [Tasks -> Text]]
  BY DEF OutputInv
<1>2. PICK x \in Text : x = text[d][t]
  BY <1>1
<1>3. PICK y : y = Printed(x, c)
  OBVIOUS
<1>4. TextOK(x)
  BY <1>2 DEF OutputInv
<1>5. y \in Text /\ TextOK(y)
  BY <1>3, <1>4, PrintedOK
<1>6. text' = [text EXCEPT ![d][t] = y]
  BY <1>2, <1>3 DEF Read
<1>7. /\ text' \in [Daemons -> [Tasks -> Text]] /\ text'[d][t] = y
      /\ \A b \in Daemons, u \in Tasks : (b # d \/ u # t) => text'[b][u] = text[b][u]
  BY <1>1, <1>5, <1>6
<1>8. PICK p : p = detect(y.tail)
  OBVIOUS
<1>9. onData(d, t, p)
  BY <1>7, <1>8 DEF Read
<1>10. PICK r : r = runner[d][t]
  OBVIOUS
<1>11. r \in Runner
  BY <1>1, <1>9, <1>10, RunnerOf DEF onData
<1>12. PICK s : s = [r EXCEPT !.awaitingApproval =
                        r.awaitingApproval \/ (p /\ ~r.awaitingApproval)]
  OBVIOUS
<1>13. s.awaitingApproval = (r.awaitingApproval \/ (p /\ ~r.awaitingApproval))
  BY <1>11, <1>12 DEF Runner
<1>14. runner' = [runner EXCEPT ![d][t] = s]
  BY <1>9, <1>10, <1>12 DEF onData, SetRunner
<1>15. /\ runner'[d][t] = s
       /\ \A b \in Daemons, u \in Tasks : (b # d \/ u # t) => runner'[b][u] = runner[b][u]
  BY <1>1, <1>14, Types DEF Runners
<1>16. ASSUME NEW b \in Daemons, NEW u \in Tasks
       PROVE  /\ TextOK(text'[b][u])
              /\ (Running(b, u)' /\ ~runner'[b][u].awaitingApproval)
                     => ~detect(text'[b][u].tail)
  <2>1. CASE b = d /\ u = t
    <3>1. ~s.awaitingApproval => ~p
      BY <1>13
    <3> QED
      BY <1>5, <1>7, <1>8, <1>15, <2>1, <3>1
  <2>2. CASE b # d \/ u # t
    BY <1>7, <1>15, <2>2 DEF OutputInv, Running
  <2> QED
    BY <2>1, <2>2
<1> QED
  BY <1>7, <1>16 DEF OutputInv, TextOK

\* A step that reads nothing: a new runner and resume forget the tail.
LEMMA SilentOK ==
    ASSUME OutputInv, DaemonInv', NEW d \in Daemons, Silent(d),
           text' = [text EXCEPT ![d] = [t \in Tasks |-> Carried(d, t)]]
    PROVE  OutputInv'
<1>1. DaemonInv /\ text \in [Daemons -> [Tasks -> Text]]
  BY DEF OutputInv
<1>2. ASSUME NEW t \in Tasks
      PROVE  /\ Carried(d, t) \in Text /\ TextOK(Carried(d, t))
             /\ (Running(d, t)' /\ ~runner'[d][t].awaitingApproval)
                    => ~detect(Carried(d, t).tail)
  <2>1. PICK x \in Text : x = text[d][t]
    BY <1>1
  <2>2. TextOK(x)
    BY <2>1 DEF OutputInv
  <2>3. CASE runner'[d][t].run # runner[d][t].run
    BY <2>3, NoTextOK DEF Carried
  <2>4. CASE /\ runner'[d][t].run = runner[d][t].run
             /\ Running(d, t) /\ runner[d][t].awaitingApproval
             /\ ~runner'[d][t].awaitingApproval
    <3>1. Carried(d, t) = Resumed(x)
      BY <2>1, <2>4 DEF Carried
    <3> QED
      BY <2>2, <3>1, ResumedOK
  <2>5. CASE /\ runner'[d][t].run = runner[d][t].run
             /\ ~(/\ Running(d, t) /\ runner[d][t].awaitingApproval
                  /\ ~runner'[d][t].awaitingApproval)
    <3>1. Carried(d, t) = x
      BY <2>1, <2>5 DEF Carried
    <3>2. ASSUME Running(d, t)', ~runner'[d][t].awaitingApproval
          PROVE  ~detect(x.tail)
      <4>1. runner'[d][t].run # 0
        <5>1. runner' \in [Daemons -> [Tasks -> {NoRunner} \cup Runner]]
          BY DEF DaemonInv, DaemonTypeOK
        <5> QED
          BY <3>2, <5>1 DEF Running, Runner
      <4>2. Running(d, t)
        BY <2>5, <4>1 DEF Running, NoRunner
      <4> QED
        BY <2>1, <2>5, <3>2, <4>2 DEF OutputInv
    <3> QED
      BY <2>2, <3>1, <3>2
  <2> QED
    BY <2>3, <2>4, <2>5
<1>3. /\ text' \in [Daemons -> [Tasks -> Text]]
      /\ \A t \in Tasks : text'[d][t] = Carried(d, t)
      /\ \A b \in Daemons : b # d => text'[b] = text[b]
  BY <1>1, <1>2
<1>4. \A b \in Daemons : b # d => runner'[b] = runner[b]
  BY <1>1, SilentElsewhere DEF DaemonInv
<1>5. ASSUME NEW b \in Daemons, NEW u \in Tasks
      PROVE  /\ TextOK(text'[b][u])
             /\ (Running(b, u)' /\ ~runner'[b][u].awaitingApproval)
                    => ~detect(text'[b][u].tail)
  <2>1. CASE b = d
    BY <1>2, <1>3, <2>1
  <2>2. CASE b # d
    BY <1>3, <1>4, <2>2 DEF OutputInv, Running
  <2> QED
    BY <2>1, <2>2
<1> QED
  BY <1>3, <1>5 DEF OutputInv, TextOK

\* Every step of DaemonOutput is a step of AgentDaemon, or changes nothing there.
LEMMA OutputStepsDaemon ==
    ASSUME [OutputNext]_outputVars
    PROVE  [DaemonNext]_daemonVars
<1>1. CASE OutputNext
  BY <1>1, StepsOfDaemon, ReadIsChild, SilentIsNext
<1>2. CASE UNCHANGED outputVars
  BY <1>2 DEF outputVars
<1> QED
  BY <1>1, <1>2

LEMMA OutputNextOK ==
    ASSUME OutputInv, [OutputNext]_outputVars
    PROVE  OutputInv'
<1>1. DaemonInv'
  BY OutputStepsDaemon, DaemonStepOK DEF OutputInv
<1>2. CASE OutputNext
  BY <1>1, <1>2, StepsOfDaemon, ReadOK, SilentOK
<1>3. CASE UNCHANGED outputVars
  <2>1. UNCHANGED <<text, runner>>
    BY <1>3 DEF outputVars, daemonVars
  <2> QED
    BY <1>1, <2>1 DEF OutputInv, TextOK, Running
<1> QED
  BY <1>2, <1>3

LEMMA OutputInitOK ==
    ASSUME OutputInit
    PROVE  OutputInv
<1>1. DaemonInv
  BY DaemonInitOK DEF OutputInit
<1>2. text = [d \in Daemons |-> [t \in Tasks |-> NoText]]
  BY DEF OutputInit
<1>3. NoText \in Text /\ TextOK(NoText) /\ ~detect(NoText.tail)
  BY NoTextOK
<1> QED
  BY <1>1, <1>2, <1>3 DEF OutputInv

-----------------------------------------------------------------------------
(* The properties.                                                         *)

\* The tail is the end of what was printed since the last approval.
LEMMA FreshIs ==
    ASSUME NEW x \in Text, TextOK(x)
    PROVE  /\ Fresh(x) \in Seq(Symbols) /\ IsEnd(x.tail, Fresh(x))
           /\ Len(x.tail) = IF Len(Fresh(x)) > TAIL_LIMIT THEN TAIL_LIMIT ELSE Len(Fresh(x))
<1>1. /\ x.out \in Seq(Symbols) /\ Len(x.out) \in Nat /\ x.mark \in Nat
      /\ x.tail \in Seq(Symbols) /\ Len(x.tail) \in Nat
  BY DEF Text
<1>2. /\ x.mark <= Len(x.out) /\ IsEnd(x.tail, x.out)
      /\ Len(x.tail) = IF Len(x.out) - x.mark > TAIL_LIMIT THEN TAIL_LIMIT
                                                          ELSE Len(x.out) - x.mark
  BY DEF TextOK
<1>3. x.mark + 1 \in 1 .. Len(x.out) + 1 /\ Len(x.out) - (x.mark + 1) + 1 = Len(x.out) - x.mark
  BY <1>1, <1>2
<1>4. PICK u : u = Fresh(x)
  OBVIOUS
<1>5. u \in Seq(Symbols) /\ Len(u) = Len(x.out) - x.mark /\ IsEnd(u, x.out)
  BY <1>1, <1>3, <1>4, EndFrom DEF Fresh
<1>6. Len(x.tail) <= Len(u)
  BY <1>1, <1>2, <1>5, LimitIs
<1>7. IsEnd(x.tail, u)
  BY <1>1, <1>2, <1>5, <1>6, EndShorter
<1> QED
  BY <1>2, <1>4, <1>5, <1>7

\* A prompt in a last line that fits the tail is in the tail.
LEMMA LineInTail ==
    ASSUME NEW x \in Text, TextOK(x), NEW i \in 1 .. Len(Fresh(x)) + 1,
           Len(Fresh(x)) - i < TAIL_LIMIT, detect(SubSeq(Fresh(x), i, Len(Fresh(x))))
    PROVE  detect(x.tail)
<1>1. PICK u : u = Fresh(x)
  OBVIOUS
<1>2. /\ u \in Seq(Symbols) /\ Len(u) \in Nat /\ IsEnd(x.tail, u)
      /\ Len(x.tail) = IF Len(u) > TAIL_LIMIT THEN TAIL_LIMIT ELSE Len(u)
      /\ x.tail \in Seq(Symbols)
  BY <1>1, FreshIs DEF Text
<1>3. PICK l : l = SubSeq(u, i, Len(u))
  OBVIOUS
<1>4. l \in Seq(Symbols) /\ Len(l) = Len(u) - i + 1 /\ IsEnd(l, u) /\ detect(l)
  BY <1>1, <1>2, <1>3, EndFrom
<1>5. Len(l) <= Len(x.tail)
  BY <1>1, <1>2, <1>4, LimitIs
<1>6. IsEnd(l, x.tail)
  BY <1>2, <1>4, <1>5, EndShorter
<1> QED
  BY <1>2, <1>4, <1>6, detectEnd

LEMMA FreshPromptNoticedOK ==
    ASSUME OutputInv
    PROVE  FreshPromptNoticed
<1>1. SUFFICES ASSUME NEW d \in Daemons, NEW t \in Tasks,
                      Running(d, t), ~runner[d][t].awaitingApproval,
                      NEW i \in 1 .. Len(Fresh(text[d][t])) + 1,
                      Len(Fresh(text[d][t])) - i < TAIL_LIMIT,
                      detect(SubSeq(Fresh(text[d][t]), i, Len(Fresh(text[d][t]))))
               PROVE  FALSE
  BY DEF FreshPromptNoticed
<1>2. PICK x \in Text : x = text[d][t]
  BY DEF OutputInv
<1>3. TextOK(x) /\ ~detect(x.tail)
  BY <1>1, <1>2 DEF OutputInv
<1> QED
  BY <1>1, <1>2, <1>3, LineInTail

\* A capacity word seen in the tail or in the last chunk is in the output, with
\* as many lines behind it.
LEMMA SeenIsPrinted ==
    ASSUME NEW s \in Seq(Symbols), NEW u \in Seq(Symbols), IsEnd(s, u), ShowsCapacity(s)
    PROVE  \E i \in DOMAIN u : u[i] = "limit" /\ LinesAfter(u, i) < KeptLines
<1>1. /\ Len(s) \in Nat /\ DOMAIN s = 1 .. Len(s)
      /\ Len(u) \in Nat /\ DOMAIN u = 1 .. Len(u) /\ Len(s) <= Len(u)
  BY DEF IsEnd
<1>2. PICK i \in 1 .. Len(s) : s[i] = "limit" /\ LinesAfter(s, i) < KeptLines
  BY <1>1 DEF ShowsCapacity, Excerpted
<1>3. PICK j : j = Len(u) - Len(s) + i
  OBVIOUS
<1>4. j \in DOMAIN u
  BY <1>1, <1>3
<1>5. u[j] = "limit"
  BY <1>1, <1>2, <1>3 DEF IsEnd
<1>6. LinesAfter(u, j) < KeptLines
  BY <1>2, <1>3, LinesAfterEnd
<1> QED
  BY <1>4, <1>5, <1>6

LEMMA FailoverJustifiedOK ==
    ASSUME OutputInv
    PROVE  FailoverJustified
<1>1. SUFFICES ASSUME NEW d \in Daemons, NEW t \in Tasks,
                      FailureOf(text[d][t]) = "CAPACITY_EXHAUSTED"
               PROVE  \E i \in DOMAIN text[d][t].out :
                         /\ text[d][t].out[i] = "limit"
                         /\ LinesAfter(text[d][t].out, i) < KeptLines
  BY DEF FailoverJustified
<1>2. PICK x \in Text : x = text[d][t]
  BY DEF OutputInv
<1>3. TextOK(x)
  BY <1>2 DEF OutputInv
<1>4. PICK s : s = IF x.tail # <<>> THEN x.tail ELSE x.lastChunk
  OBVIOUS
<1>5. s \in Seq(Symbols) /\ x.out \in Seq(Symbols) /\ IsEnd(s, x.out)
  BY <1>3, <1>4 DEF Text, TextOK
<1>6. ShowsCapacity(s)
  BY <1>1, <1>2, <1>4 DEF FailureOf
<1> QED
  BY <1>2, <1>5, <1>6, SeenIsPrinted

\* How many positions there are after p.
LEMMA IntervalSize ==
    ASSUME NEW n \in Nat, NEW p \in 1 .. n
    PROVE  (IF p + 1 > n THEN 0 ELSE n - (p + 1) + 1) = n - p
<1>1. p \in Nat /\ p <= n
  OBVIOUS
<1>2. CASE p = n
  BY <1>1, <1>2
<1>3. CASE p < n
  BY <1>1, <1>3
<1> QED
  BY <1>1, <1>2, <1>3

\* A position less than l before the end of n symbols is one of the last l.
LEMMA ShiftedPosition ==
    ASSUME NEW n \in Nat, NEW i \in 1 .. n, NEW l \in Nat, n - i < l, NEW m \in Nat,
           m = IF n > l THEN l ELSE n, NEW k \in Nat, k = n - m
    PROVE  i - k \in 1 .. m /\ (i - k) + k = i /\ m - (i - k) = n - i
<1>1. i \in Nat /\ 1 <= i /\ i <= n
  OBVIOUS
<1>2. CASE n > l
  BY <1>1, <1>2
<1>3. CASE n <= l
  BY <1>1, <1>3
<1> QED
  BY <1>2, <1>3

\* A capacity word at the beginning of the line that s ends with shows, if what
\* follows it is short enough.
LEMMA LastLineShows ==
    ASSUME NEW s \in Seq(Symbols), NEW p \in 1 .. Len(s), s[p] = "limit",
           p = 1 \/ s[p - 1] = "nl", \A k \in p .. Len(s) : s[k] # "nl",
           Len(s) - p < KeptSymbols
    PROVE  ShowsCapacity(s)
<1>1. Len(s) \in Nat /\ p \in Nat /\ DOMAIN s = 1 .. Len(s) /\ p \in Int /\ Len(s) \in Int
  OBVIOUS
<1>2. LinesAfter(s, p) = 0
  <2>1. Begins(s, p) = {}
    <3>1. SUFFICES ASSUME NEW k \in Begins(s, p) PROVE FALSE
      OBVIOUS
    <3>2. k \in (p + 1) .. Len(s) /\ s[k - 1] = "nl"
      BY DEF Begins
    <3>3. k - 1 \in p .. Len(s)
      BY <1>1, <3>2
    <3> QED
      BY <3>2, <3>3
  <2> QED
    BY <1>1, <2>1, BeginsFinite, FS_EmptySet
<1>3. SymbolsAfter(s, p) <= Len(s) - p
  <2> DEFINE C == {k \in (p + 1) .. Len(s) : s[k] # "nl"}
  <2>1. IsFiniteSet((p + 1) .. Len(s)) /\ Cardinality((p + 1) .. Len(s)) = Len(s) - p
    <3>1. PICK a \in Int : a = p + 1
      BY <1>1
    <3>2. /\ IsFiniteSet(a .. Len(s))
          /\ Cardinality(a .. Len(s)) = IF a > Len(s) THEN 0 ELSE Len(s) - a + 1
      BY <1>1, FS_Interval
    <3>3. (IF a > Len(s) THEN 0 ELSE Len(s) - a + 1) = Len(s) - p
      BY <1>1, <3>1, IntervalSize
    <3> QED
      BY <3>1, <3>2, <3>3
  <2>2. C \subseteq (p + 1) .. Len(s)
    OBVIOUS
  <2>3. Cardinality(C) <= Len(s) - p /\ Cardinality(C) \in Nat
    <3> HIDE DEF C
    <3> QED
      BY <2>1, <2>2, FS_Subset, FS_CardinalityType
  <2>4. SymbolsAfter(s, p) = Cardinality(C) + LinesAfter(s, p)
    BY DEF SymbolsAfter
  <2> HIDE DEF C
  <2>5. SymbolsAfter(s, p) = Cardinality(C)
    BY <1>2, <2>3, <2>4
  <2> QED
    BY <2>3, <2>5
<1>4. SymbolsAfter(s, p) \in Nat
  <2>1. IsFiniteSet((p + 1) .. Len(s))
    BY <1>1, FS_Interval
  <2> DEFINE C == {k \in (p + 1) .. Len(s) : s[k] # "nl"}
  <2>2. C \subseteq (p + 1) .. Len(s)
    OBVIOUS
  <2>3. SymbolsAfter(s, p) = Cardinality(C) + LinesAfter(s, p)
    BY DEF SymbolsAfter
  <2> HIDE DEF C
  <2>4. Cardinality(C) \in Nat
    BY <2>1, <2>2, FS_Subset, FS_CardinalityType
  <2> QED
    BY <1>2, <2>3, <2>4
<1>5. Excerpted(s, p)
  BY <1>1, <1>2, <1>3, <1>4, OutputAssumption DEF Excerpted
<1>6. p = 1 \/ s[p - 1] # "esc"
  OBVIOUS
<1> QED
  BY <1>1, <1>5, <1>6 DEF ShowsCapacity

LEMMA CapacityNoticedOK ==
    ASSUME OutputInv
    PROVE  CapacityNoticed
<1>1. SUFFICES ASSUME NEW d \in Daemons, NEW t \in Tasks,
                      NEW i \in DOMAIN Fresh(text[d][t]),
                      LastLineAt(Fresh(text[d][t]), i), Fresh(text[d][t])[i] = "limit",
                      Len(Fresh(text[d][t])) - i < TAIL_LIMIT,
                      Len(Fresh(text[d][t])) - i < KeptSymbols
               PROVE  FailureOf(text[d][t]) = "CAPACITY_EXHAUSTED"
  BY DEF CapacityNoticed
<1>2. PICK x \in Text : x = text[d][t]
  BY DEF OutputInv
<1>3. TextOK(x)
  BY <1>2 DEF OutputInv
<1>4. PICK u : u = Fresh(x)
  OBVIOUS
<1>5. /\ u \in Seq(Symbols) /\ Len(u) \in Nat /\ DOMAIN u = 1 .. Len(u)
      /\ IsEnd(x.tail, u)
      /\ x.tail \in Seq(Symbols) /\ Len(x.tail) \in Nat
      /\ Len(x.tail) = IF Len(u) > TAIL_LIMIT THEN TAIL_LIMIT ELSE Len(u)
  <2>1. u \in Seq(Symbols) /\ x.tail \in Seq(Symbols)
    BY <1>3, <1>4, FreshIs DEF Text
  <2> QED
    BY <1>3, <1>4, <2>1, FreshIs
<1>6. /\ i \in 1 .. Len(u) /\ u[i] = "limit" /\ (i = 1 \/ u[i - 1] = "nl")
      /\ \A k \in i .. Len(u) : u[k] # "nl"
      /\ Len(u) - i < TAIL_LIMIT /\ Len(u) - i < KeptSymbols
  BY <1>1, <1>2, <1>4, <1>5 DEF LastLineAt
<1>7. PICK k \in Nat :
          /\ k = Len(u) - Len(x.tail)
          /\ \A j \in 1 .. Len(x.tail) : j + k \in 1 .. Len(u) /\ x.tail[j] = u[j + k]
  BY <1>5, EndShift
<1>8. PICK p : p = i - k
  OBVIOUS
<1>9. p \in 1 .. Len(x.tail) /\ p + k = i /\ Len(x.tail) - p = Len(u) - i
  <2>1. PICK n \in Nat, m \in Nat, l \in Nat :
            n = Len(u) /\ m = Len(x.tail) /\ l = TAIL_LIMIT
    BY <1>5, LimitIs
  <2>2. i \in 1 .. n /\ n - i < l /\ m = (IF n > l THEN l ELSE n) /\ k = n - m
    BY <1>5, <1>6, <1>7, <2>1
  <2>3. i - k \in 1 .. m /\ (i - k) + k = i /\ m - (i - k) = n - i
    BY <2>2, ShiftedPosition
  <2> QED
    BY <1>8, <2>1, <2>3
<1>10. x.tail[p] = "limit"
  BY <1>6, <1>7, <1>9
<1>11. p = 1 \/ x.tail[p - 1] = "nl"
  <2>1. SUFFICES ASSUME p # 1 PROVE x.tail[p - 1] = "nl"
    OBVIOUS
  <2>2. PICK m \in Nat : m = Len(x.tail)
    BY <1>5
  <2>3. p \in 1 .. m /\ p \in Nat /\ i = p + k
    BY <1>9, <2>2
  <2>4. p - 1 \in 1 .. m /\ (p - 1) + k = i - 1 /\ i # 1
    BY <2>1, <2>3
  <2> QED
    BY <1>6, <1>7, <2>2, <2>4
<1>12. ASSUME NEW j \in p .. Len(x.tail) PROVE x.tail[j] # "nl"
  <2>1. j \in 1 .. Len(x.tail) /\ j + k \in i .. Len(u)
    BY <1>5, <1>7, <1>9
  <2> QED
    BY <1>6, <1>7, <2>1
<1>13. ShowsCapacity(x.tail)
  BY <1>5, <1>6, <1>9, <1>10, <1>11, <1>12, LastLineShows
<1>14. x.tail # <<>>
  BY <1>5, <1>9
<1> QED
  BY <1>2, <1>13, <1>14 DEF FailureOf

\* Only what a child prints makes a runner ask.
LEMMA SilentAsksNot ==
    ASSUME DaemonInv, NEW d \in Daemons, Silent(d), NEW t \in Tasks,
           Running(d, t), ~runner[d][t].awaitingApproval,
           Running(d, t)'
    PROVE  ~runner'[d][t].awaitingApproval
<1>1. \A r : \A u \in Tasks : SetRunner(d, u, r) =>
          runner'[d][t] = IF u = t THEN r ELSE runner[d][t]
  BY Types DEF SetRunner, Runners
<1>2. runner[d][t] \in Runner
  BY RunnerOf
<1>3. runner' = runner => ~runner'[d][t].awaitingApproval
  OBVIOUS
<1>4. ASSUME NEW u \in Tasks, kill(d, u) \/ resume(d, u)
      PROVE  ~runner'[d][t].awaitingApproval
  <2>1. CASE u = t /\ kill(d, u)
    <3>1. runner'[d][t] = [runner[d][t] EXCEPT !.killedByHub = TRUE]
      BY <1>1, <2>1 DEF kill
    <3> QED
      BY <1>2, <3>1 DEF Runner
  <2>2. CASE u = t /\ resume(d, u)
    <3>1. runner'[d][t] = [runner[d][t] EXCEPT !.awaitingApproval = FALSE]
      BY <1>1, <2>2 DEF resume
    <3> QED
      BY <1>2, <3>1 DEF Runner
  <2>3. CASE u # t
    BY <1>1, <1>4, <2>3 DEF kill, resume
  <2> QED
    BY <1>4, <2>1, <2>2, <2>3
<1>5. CASE onTaskSubmit(d)
  <2>1. PICK u \in Tasks : u = Head(inbox[d]).task
    BY <1>5, TakeOK DEF onTaskSubmit
  <2>2. CASE Running(d, u)
    BY <1>3, <1>5, <2>1, <2>2 DEF onTaskSubmit
  <2>3. CASE ~Running(d, u)
    <3>1. start(d, u) /\ u # t
      BY <1>5, <2>1, <2>3 DEF onTaskSubmit
    <3>2. CASE UNCHANGED runner
      BY <1>3, <3>2
    <3>3. CASE \E r : SetRunner(d, u, r)
      BY <1>1, <3>1, <3>3
    <3> QED
      BY <3>1, <3>2, <3>3 DEF start
  <2> QED
    BY <2>2, <2>3
<1>6. CASE onTaskCancel(d)
  <2>1. Head(inbox[d]).task \in Tasks
    BY <1>6, TakeOK DEF onTaskCancel
  <2> QED
    BY <1>3, <1>4, <1>6, <2>1 DEF onTaskCancel
<1>7. CASE onApprovalDecision(d)
  <2>1. Head(inbox[d]).task \in Tasks
    BY <1>7, TakeOK DEF onApprovalDecision
  <2> QED
    BY <1>3, <1>4, <1>7, <2>1 DEF onApprovalDecision, Answer
<1>8. CASE \E u \in Tasks : onError(d, u) \/ \E ok \in BOOLEAN : Exit(d, u, ok)
  <2>1. PICK u \in Tasks : SetRunner(d, u, NoRunner)
    BY <1>8 DEF onError, Exit, onClose, dropTask
  <2>2. u # t
    BY <1>1, <2>1 DEF Running
  <2> QED
    BY <1>1, <2>1, <2>2
<1>9. CASE Connection(d)
  <2>1. CASE shutdown(d)
    <3>1. runner'[d][t] = NoRunner
      BY <2>1, Types DEF shutdown, Runners
    <3> QED
      BY <3>1 DEF Running
  <2> QED
    BY <1>3, <1>9, <2>1 DEF Connection, Break, onDisconnect, onConnect
<1>10. CASE HubSide(d)
  BY <1>3, <1>10 DEF HubSide, HubSends, HubTakes
<1> QED
  BY <1>5, <1>6, <1>7, <1>8, <1>9, <1>10 DEF Silent, Handler

\* A read asks for what it finds in the tail, which is fresh.
LEMMA ReadAsksFresh ==
    ASSUME OutputInv, OutputInv', NEW d \in Daemons, NEW t \in Tasks, NEW c \in Chunks,
           Read(d, t, c), NEW b \in Daemons, NEW u \in Tasks,
           ~runner[b][u].awaitingApproval, runner'[b][u].awaitingApproval
    PROVE  detect(Fresh(text'[b][u]))
<1>1. DaemonInv
  BY DEF OutputInv
<1>2. PICK p : p = detect(text'[d][t].tail)
  OBVIOUS
<1>3. onData(d, t, p)
  BY <1>2 DEF Read
<1>4. PICK r : r = runner[d][t]
  OBVIOUS
<1>5. r \in Runner
  BY <1>1, <1>3, <1>4, RunnerOf DEF onData
<1>6. PICK s : s = [r EXCEPT !.awaitingApproval =
                       r.awaitingApproval \/ (p /\ ~r.awaitingApproval)]
  OBVIOUS
<1>7. s.awaitingApproval = (r.awaitingApproval \/ (p /\ ~r.awaitingApproval))
  BY <1>5, <1>6 DEF Runner
<1>8. runner' = [runner EXCEPT ![d][t] = s]
  BY <1>3, <1>4, <1>6 DEF onData, SetRunner
<1>9. /\ runner'[d][t] = s
      /\ \A e \in Daemons, v \in Tasks : (e # d \/ v # t) => runner'[e][v] = runner[e][v]
  BY <1>1, <1>8, Types DEF Runners
<1>10. b = d /\ u = t
  BY <1>9
<1>11. p
  BY <1>4, <1>7, <1>9, <1>10
<1>12. PICK y \in Text : y = text'[b][u]
  BY DEF OutputInv
<1>13. TextOK(y)
  <2>1. TextOK(text'[b][u])
    BY DEF OutputInv, TextOK
  <2> QED
    BY <1>12, <2>1
<1>14. y.tail \in Seq(Symbols) /\ Fresh(y) \in Seq(Symbols) /\ IsEnd(y.tail, Fresh(y))
  BY <1>13, FreshIs DEF Text
<1>15. detect(y.tail)
  BY <1>2, <1>10, <1>11, <1>12
<1> QED
  BY <1>12, <1>14, <1>15, detectEnd

LEMMA AsksFreshOK ==
    ASSUME OutputInv, OutputInv', [OutputNext]_outputVars
    PROVE  [AsksFresh]_outputVars
<1>1. CASE UNCHANGED outputVars
  BY <1>1
<1>2. CASE OutputNext
  <2>1. SUFFICES ASSUME NEW b \in Daemons, NEW u \in Tasks,
                        Running(b, u), ~runner[b][u].awaitingApproval,
                        Running(b, u)', runner'[b][u].awaitingApproval
                 PROVE  detect(Fresh(text'[b][u]))
    BY DEF AsksFresh
  <2>2. PICK d \in Daemons :
              \/ \E t \in Tasks, c \in Chunks : Read(d, t, c)
              \/ Silent(d) /\ text' = [text EXCEPT ![d] = [t \in Tasks |-> Carried(d, t)]]
    BY <1>2, StepsOfDaemon
  <2>3. CASE \E t \in Tasks, c \in Chunks : Read(d, t, c)
    BY <2>1, <2>3, ReadAsksFresh
  <2>4. CASE Silent(d)
    <3>1. DaemonInv /\ DaemonTypeOK
      BY DEF OutputInv, DaemonInv
    <3>2. b = d
      BY <2>1, <2>4, <3>1, SilentElsewhere
    <3> QED
      BY <2>1, <2>4, <3>1, <3>2, SilentAsksNot
  <2> QED
    BY <2>2, <2>3, <2>4
<1> QED
  BY <1>1, <1>2

-----------------------------------------------------------------------------
(* The theorems.                                                           *)

\* DaemonOutput implements AgentDaemon: deciding prompts and failures from the
\* text, as onData and detectStructuredFailure do, is one way to take the steps
\* that AgentDaemon leaves open, so all that is proved of AgentDaemon holds
\* of the daemon that reads its children's output.
THEOREM OutputImplementsDaemon == OutputSpec => DaemonSpec
<1>1. OutputInit => DaemonInit
  BY DEF OutputInit
<1>2. [OutputNext]_outputVars => [DaemonNext]_daemonVars
  BY OutputStepsDaemon
<1> QED
  BY <1>1, <1>2, PTL DEF OutputSpec, DaemonSpec

\* The inductive invariant holds always: the tail is exactly the end of what the
\* child has printed since its last approval, as far as TAIL_LIMIT allows, and
\* a runner that has not asked has no prompt in it.
THEOREM OutputInvariance == OutputSpec => []OutputInv
<1>1. OutputInit => OutputInv
  BY OutputInitOK
<1>2. OutputInv /\ [OutputNext]_outputVars => OutputInv'
  BY OutputNextOK
<1> QED
  BY <1>1, <1>2, PTL DEF OutputSpec

\* However onData's chunks cut the output, a prompt printed since the last
\* approval is noticed if its line fits the tail.  What was printed before that
\* approval, while it was awaited, is left out: resume drops it.
THEOREM FreshPromptsNoticed == OutputSpec => []FreshPromptNoticed
<1>1. OutputInv => FreshPromptNoticed
  BY FreshPromptNoticedOK
<1> QED
  BY <1>1, OutputInvariance, PTL

\* detectStructuredFailure reports exhausted capacity only if the last lines of
\* the whole output show it.
THEOREM FailoversJustified == OutputSpec => []FailoverJustified
<1>1. OutputInv => FailoverJustified
  BY FailoverJustifiedOK
<1> QED
  BY <1>1, OutputInvariance, PTL

\* detectStructuredFailure finds a capacity word that the last line begins with.
THEOREM CapacitiesNoticed == OutputSpec => []CapacityNoticed
<1>1. OutputInv => CapacityNoticed
  BY CapacityNoticedOK
<1> QED
  BY <1>1, OutputInvariance, PTL

\* onData never asks again about a prompt that resume has seen approved.
THEOREM RequestsAreFresh == OutputSpec => RequestIsFresh
<1>1. OutputInv /\ OutputInv' /\ [OutputNext]_outputVars => [AsksFresh]_outputVars
  BY AsksFreshOK
<1> QED
  BY <1>1, OutputInvariance, PTL DEF OutputSpec, RequestIsFresh

-----------------------------------------------------------------------------
(* The command line.  tokenize and Put are recursive functions; what they  *)
(* compute is shown by the choice of a least position where it fails.      *)

\* A set of naturals that is not empty has a least element.
LEMMA LeastOf ==
    ASSUME NEW T, T \subseteq Nat, T # {}
    PROVE  \E x \in T : \A y \in T : x <= y
<1>1. PICK x \in T : \A y \in T : ~(<<y, x>> \in OpToRel(<, Nat))
  BY NatLessThanWellFounded, WFMin, Zenon
<1>2. \A y \in T : (<<y, x>> \in OpToRel(<, Nat)) <=> y < x
  BY Zenon DEF OpToRel
<1>3. \A y \in T : ~(y < x)
  BY <1>1, <1>2, Zenon
<1> QED
  BY <1>3

-----------------------------------------------------------------------------
(* A prompt in quotes.                                                     *)

\* A set of texts is closed under concatenation.
LEMMA Joined ==
    ASSUME NEW S, NEW p \in Seq(S), NEW q \in Seq(S)
    PROVE  /\ p \o q \in Seq(S) /\ Len(p \o q) = Len(p) + Len(q)
           /\ \A i \in 1 .. Len(p) : (p \o q)[i] = p[i]
           /\ \A i \in 1 .. Len(q) : (p \o q)[Len(p) + i] = q[i]
<1>1. Len(p) \in Nat /\ Len(q) \in Nat
  OBVIOUS
<1>2. /\ p \o q \in Seq(S) /\ Len(p \o q) = Len(p) + Len(q)
      /\ \A i \in 1 .. Len(p) + Len(q) :
            (p \o q)[i] = IF i <= Len(p) THEN p[i] ELSE q[i - Len(p)]
  BY ConcatProperties
<1>3. \A i \in 1 .. Len(q) :
         Len(p) + i \in 1 .. Len(p) + Len(q) /\ ~(Len(p) + i <= Len(p)) /\ (Len(p) + i) - Len(p) = i
  BY <1>1
<1> QED
  BY <1>1, <1>2, <1>3

\* One more symbol of a text.
LEMMA PrefixGrows ==
    ASSUME NEW S, NEW token \in Seq(S), NEW n \in 1 .. Len(token)
    PROVE  SubSeq(token, 1, n) = SubSeq(token, 1, n - 1) \o <<token[n]>>
<1>1. Len(token) \in Nat /\ \A i \in 1 .. Len(token) : token[i] \in S
  OBVIOUS
<1>2. PICK p : p = SubSeq(token, 1, n - 1)
  OBVIOUS
<1>3. p \in Seq(S) /\ Len(p) = n - 1 /\ \A i \in 1 .. n - 1 : p[i] = token[i]
  BY <1>1, <1>2
<1>4. PICK q : q = SubSeq(token, 1, n)
  OBVIOUS
<1>5. q \in Seq(S) /\ Len(q) = n /\ \A i \in 1 .. n : q[i] = token[i]
  BY <1>1, <1>4
<1>6. <<token[n]>> \in Seq(S) /\ Len(<<token[n]>>) = 1 /\ <<token[n]>>[1] = token[n]
  BY <1>1
<1>7. PICK w : w = p \o <<token[n]>>
  OBVIOUS
<1>8. /\ w \in Seq(S) /\ Len(w) = n
      /\ \A i \in 1 .. n - 1 : w[i] = token[i]
      /\ w[n] = token[n]
  BY <1>3, <1>6, <1>7, Joined
<1>9. \A i \in 1 .. n : w[i] = q[i]
  BY <1>5, <1>8
<1>10. w = q
  BY <1>5, <1>8, <1>9, SeqEqual
<1> QED
  BY <1>2, <1>4, <1>7, <1>10

\* Nothing is put into a text without the placeholder.
LEMMA PutNothing ==
    ASSUME NEW S, NEW token \in Seq(S), NEW key, NEW value,
           \A i \in 1 .. Len(token) : token[i] # key
    PROVE  Put(token, key, value) = token
<1> DEFINE k == CHOOSE f : f = [n \in 0 .. Len(token) |->
            IF n = 0 THEN <<>>
            ELSE f[n - 1] \o (IF token[n] = key THEN value ELSE <<token[n]>>)]
<1>1. Put(token, key, value) = k[Len(token)]
  BY Zenon DEF Put
<1>2. PICK g : g = [n \in 0 .. Len(token) |-> SubSeq(token, 1, n)]
  OBVIOUS
<1>3. ASSUME NEW n \in 0 .. Len(token)
      PROVE  g[n] = IF n = 0 THEN <<>>
                    ELSE g[n - 1] \o (IF token[n] = key THEN value ELSE <<token[n]>>)
  <2>1. CASE n = 0
    BY <1>2, <2>1
  <2>2. CASE n \in 1 .. Len(token)
    <3>1. SubSeq(token, 1, n) = SubSeq(token, 1, n - 1) \o <<token[n]>>
      BY <2>2, PrefixGrows
    <3>2. n - 1 \in 0 .. Len(token) /\ n # 0 /\ token[n] # key
      BY <2>2
    <3>3. g[n] = SubSeq(token, 1, n) /\ g[n - 1] = SubSeq(token, 1, n - 1)
      BY <1>2, <3>2
    <3> QED
      BY <3>1, <3>2, <3>3
  <2> QED
    BY <2>1, <2>2
<1>4. g = [n \in 0 .. Len(token) |->
            IF n = 0 THEN <<>>
            ELSE g[n - 1] \o (IF token[n] = key THEN value ELSE <<token[n]>>)]
  BY <1>2, <1>3, Zenon
<1>5. k = [n \in 0 .. Len(token) |->
            IF n = 0 THEN <<>>
            ELSE k[n - 1] \o (IF token[n] = key THEN value ELSE <<token[n]>>)]
  BY <1>4, Zenon
<1> HIDE DEF k
<1> DEFINE bad == {n \in 0 .. Len(token) : k[n] # g[n]}
<1>6. bad = {}
  <2>1. SUFFICES ASSUME bad # {} PROVE FALSE
    OBVIOUS
  <2>2. PICK n \in bad : \A m \in bad : n <= m
    <3>1. bad \subseteq Nat
      OBVIOUS
    <3> HIDE DEF bad
    <3> QED
      BY <2>1, <3>1, LeastOf
  <2>3. n \in 0 .. Len(token) /\ k[n] # g[n]
    OBVIOUS
  <2>4. k[0] = <<>> /\ g[0] = <<>>
    <3>1. 0 \in 0 .. Len(token)
      OBVIOUS
    <3> QED
      BY <1>3, <1>5, <3>1, Zenon
  <2>5. n # 0 /\ n - 1 \in 0 .. Len(token)
    BY <2>3, <2>4
  <2>6. k[n - 1] = g[n - 1]
    BY <2>2, <2>5
  <2>7. k[n] = k[n - 1] \o (IF token[n] = key THEN value ELSE <<token[n]>>)
    BY <1>5, <2>3, <2>5, Zenon
  <2>8. g[n] = g[n - 1] \o (IF token[n] = key THEN value ELSE <<token[n]>>)
    BY <1>3, <2>3, <2>5, Zenon
  <2> QED
    BY <2>3, <2>6, <2>7, <2>8, Zenon
<1>7. Len(token) \in 0 .. Len(token)
  OBVIOUS
<1>8. k[Len(token)] = SubSeq(token, 1, Len(token))
  BY <1>2, <1>6, <1>7
<1>9. SubSeq(token, 1, Len(token)) = token
  OBVIOUS
<1> QED
  BY <1>1, <1>8, <1>9

\* The token of a quoted {{prompt}} becomes the prompt in quotes.
LEMMA PutQuoted ==
    ASSUME NEW S, NEW prompt \in Seq(S)
    PROVE  Put(<<"quote", "prompt", "quote">>, "prompt", prompt)
               = (<<"quote">> \o prompt) \o <<"quote">>
<1>1. PICK token : token = <<"quote", "prompt", "quote">>
  OBVIOUS
<1>2. Len(token) = 3 /\ token[1] = "quote" /\ token[2] = "prompt" /\ token[3] = "quote"
  BY <1>1
<1> DEFINE k == CHOOSE f : f = [n \in 0 .. Len(token) |->
            IF n = 0 THEN <<>>
            ELSE f[n - 1] \o (IF token[n] = "prompt" THEN prompt ELSE <<token[n]>>)]
<1>3. Put(token, "prompt", prompt) = k[Len(token)]
  BY Zenon DEF Put
<1>4. PICK a : a = <<"quote">>
  OBVIOUS
<1>5. <<>> \o a = a
  BY <1>4
<1>6. PICK g : g = [n \in 0 .. 3 |-> IF n = 0 THEN <<>> ELSE IF n = 1 THEN a
                                   ELSE IF n = 2 THEN a \o prompt ELSE (a \o prompt) \o a]
  OBVIOUS
<1>7. ASSUME NEW n \in 0 .. Len(token)
      PROVE  g[n] = IF n = 0 THEN <<>>
                    ELSE g[n - 1] \o (IF token[n] = "prompt" THEN prompt ELSE <<token[n]>>)
  <2>1. g[0] = <<>> /\ g[1] = a /\ g[2] = a \o prompt /\ g[3] = (a \o prompt) \o a
    BY <1>6
  <2>2. n = 0 \/ n = 1 \/ n = 2 \/ n = 3
    BY <1>2
  <2>3. CASE n = 0
    BY <2>1, <2>3
  <2>4. CASE n = 1
    <3>1. token[n] # "prompt" /\ <<token[n]>> = a /\ n - 1 = 0 /\ n # 0
      BY <1>2, <1>4, <2>4
    <3> QED
      BY <1>5, <2>1, <2>4, <3>1, Zenon
  <2>5. CASE n = 2
    <3>1. token[n] = "prompt" /\ n - 1 = 1 /\ n # 0
      BY <1>2, <2>5
    <3> QED
      BY <2>1, <2>5, <3>1, Zenon
  <2>6. CASE n = 3
    <3>1. token[n] # "prompt" /\ <<token[n]>> = a /\ n - 1 = 2 /\ n # 0
      BY <1>2, <1>4, <2>6
    <3> QED
      BY <2>1, <2>6, <3>1, Zenon
  <2> QED
    BY <2>2, <2>3, <2>4, <2>5, <2>6
<1>8. g = [n \in 0 .. Len(token) |->
            IF n = 0 THEN <<>>
            ELSE g[n - 1] \o (IF token[n] = "prompt" THEN prompt ELSE <<token[n]>>)]
  BY <1>2, <1>6, <1>7
<1>9. k = [n \in 0 .. Len(token) |->
            IF n = 0 THEN <<>>
            ELSE k[n - 1] \o (IF token[n] = "prompt" THEN prompt ELSE <<token[n]>>)]
  BY <1>8, Zenon
<1> HIDE DEF k
<1>10. /\ 0 \in 0 .. Len(token) /\ 1 \in 0 .. Len(token)
       /\ 2 \in 0 .. Len(token) /\ 3 \in 0 .. Len(token)
       /\ 1 # 0 /\ 2 # 0 /\ 3 # 0 /\ 1 - 1 = 0 /\ 2 - 1 = 1 /\ 3 - 1 = 2
  BY <1>2
<1>11. k[0] = <<>>
  BY <1>9, <1>10, Zenon
<1>12. k[1] = k[0] \o a
  <2>1. token[1] # "prompt" /\ <<token[1]>> = a
    BY <1>2, <1>4
  <2>2. k[1] = k[1 - 1] \o (IF token[1] = "prompt" THEN prompt ELSE <<token[1]>>)
    BY <1>9, <1>10, Zenon
  <2> QED
    BY <1>10, <2>1, <2>2, Zenon
<1>13. k[2] = k[1] \o prompt
  <2>1. k[2] = k[2 - 1] \o (IF token[2] = "prompt" THEN prompt ELSE <<token[2]>>)
    BY <1>9, <1>10, Zenon
  <2> QED
    BY <1>2, <1>10, <2>1, Zenon
<1>14. k[3] = k[2] \o a
  <2>1. token[3] # "prompt" /\ <<token[3]>> = a
    BY <1>2, <1>4
  <2>2. k[3] = k[3 - 1] \o (IF token[3] = "prompt" THEN prompt ELSE <<token[3]>>)
    BY <1>9, <1>10, Zenon
  <2> QED
    BY <1>10, <2>1, <2>2, Zenon
<1> QED
  BY <1>1, <1>2, <1>3, <1>4, <1>5, <1>11, <1>12, <1>13, <1>14, Zenon

\* And stripOuterQuotes takes just these quotes away.
LEMMA QuotedIsRaw ==
    ASSUME NEW S, "quote" \in S, NEW prompt \in Seq(S),
           \A i \in 1 .. Len(prompt) : prompt[i] \notin {"input", "cwd"}
    PROVE  stripOuterQuotes(substitute(<<"quote", "prompt", "quote">>, prompt)) = prompt
<1>1. PICK a : a = <<"quote">>
  OBVIOUS
<1>2. a \in Seq(S) /\ Len(a) = 1 /\ a[1] = "quote"
  BY <1>1
<1>3. PICK c : c = a \o prompt
  OBVIOUS
<1>4. /\ c \in Seq(S) /\ Len(c) = 1 + Len(prompt) /\ c[1] = "quote"
      /\ \A i \in 1 .. Len(prompt) : c[1 + i] = prompt[i]
  <2>1. /\ c \in Seq(S) /\ Len(c) = Len(a) + Len(prompt)
        /\ \A i \in 1 .. Len(a) : c[i] = a[i]
        /\ \A i \in 1 .. Len(prompt) : c[Len(a) + i] = prompt[i]
    <3>1. a \in Seq(S)
      BY <1>2
    <3> QED
      BY <1>3, <3>1, Joined
  <2> QED
    BY <1>2, <2>1
<1>5. PICK w : w = c \o a
  OBVIOUS
<1>6. /\ w \in Seq(S) /\ Len(w) = Len(c) + 1
      /\ \A i \in 1 .. Len(c) : w[i] = c[i]
      /\ w[Len(c) + 1] = "quote"
  <2>1. /\ w \in Seq(S) /\ Len(w) = Len(c) + Len(a)
        /\ \A i \in 1 .. Len(c) : w[i] = c[i]
        /\ \A i \in 1 .. Len(a) : w[Len(c) + i] = a[i]
    <3>1. a \in Seq(S) /\ c \in Seq(S)
      BY <1>2, <1>4
    <3> QED
      BY <1>5, <3>1, Joined
  <2> QED
    BY <1>2, <2>1
<1>7. Len(prompt) \in Nat /\ Len(c) \in Nat
  BY <1>4
<1>8. /\ Len(w) = Len(prompt) + 2 /\ w[1] = "quote" /\ w[Len(prompt) + 2] = "quote"
      /\ \A i \in 1 .. Len(prompt) : w[i + 1] = prompt[i]
  BY <1>4, <1>6, <1>7
<1>9. ASSUME NEW i \in 1 .. Len(w)
      PROVE  w[i] \notin {"input", "cwd"}
  <2>1. CASE i = 1 \/ i = Len(prompt) + 2
    BY <1>8, <2>1
  <2>2. CASE i - 1 \in 1 .. Len(prompt)
    <3>1. i = (i - 1) + 1
      OBVIOUS
    <3>2. w[i] = prompt[i - 1]
      BY <1>8, <2>2, <3>1
    <3> QED
      BY <2>2, <3>2
  <2> QED
    BY <1>7, <1>8, <2>1, <2>2
<1>10. Put(<<"quote", "prompt", "quote">>, "prompt", prompt) = w
  BY <1>1, <1>3, <1>5, PutQuoted
<1>11. \A value : Put(w, "input", value) = w
  BY <1>6, <1>9, PutNothing
<1>12. \A value : Put(w, "cwd", value) = w
  BY <1>6, <1>9, PutNothing
<1>13. substitute(<<"quote", "prompt", "quote">>, prompt) = w
  BY <1>10, <1>11, <1>12, Zenon DEF substitute
<1>14. Head(w) = "quote" /\ Last(w) = "quote" /\ Len(w) >= 2
  BY <1>6, <1>7, <1>8 DEF Last
<1>15. stripOuterQuotes(w) = SubSeq(w, 2, Len(w) - 1)
  BY <1>14, Zenon DEF stripOuterQuotes
<1>16. PICK q : q = SubSeq(w, 2, Len(w) - 1)
  OBVIOUS
<1>17. q \in Seq(S) /\ Len(q) = Len(prompt) /\ \A i \in 1 .. Len(prompt) : q[i] = w[i + 1]
  BY <1>6, <1>7, <1>8, <1>16
<1>18. q = prompt
  <2>1. \A i \in 1 .. Len(q) : q[i] = prompt[i]
    BY <1>8, <1>17
  <2> QED
    BY <1>17, <2>1, SeqEqual
<1> QED
  BY <1>13, <1>15, <1>16, <1>18

-----------------------------------------------------------------------------
(* The words of a template.                                                *)

\* The backslashes before position i: how many there are in a row.
LEMMA RunOf ==
    ASSUME NEW s, NEW i \in Nat, i >= 1
    PROVE  \E n \in 0 .. i - 1 : /\ \A k \in i - n .. i - 1 : s[k] = "bs"
                                 /\ i - n - 1 >= 1 => s[i - n - 1] # "bs"
<1> DEFINE ends == {n \in 0 .. i - 1 : i - n - 1 >= 1 => s[i - n - 1] # "bs"}
<1>1. i - 1 \in ends
  OBVIOUS
<1>2. PICK n \in ends : \A m \in ends : n <= m
  <2>1. ends \subseteq Nat /\ ends # {}
    BY <1>1
  <2> HIDE DEF ends
  <2> QED
    BY <2>1, LeastOf
<1>3. n \in 0 .. i - 1 /\ (i - n - 1 >= 1 => s[i - n - 1] # "bs")
  OBVIOUS
<1>4. ASSUME NEW k \in i - n .. i - 1
      PROVE  s[k] = "bs"
  <2>1. PICK m \in Nat : m = i - k - 1
    BY <1>3
  <2>2. m \in 0 .. i - 1 /\ m < n /\ i - m - 1 = k /\ k >= 1
    BY <1>3, <2>1
  <2>3. m \notin ends
    BY <1>2, <1>3, <2>2
  <2> QED
    BY <2>2, <2>3
<1> QED
  BY <1>3, <1>4

\* That number is determined.
LEMMA RunUnique ==
    ASSUME NEW s, NEW i \in Nat, i >= 1, NEW n \in 0 .. i - 1, NEW m \in 0 .. i - 1,
           \A k \in i - n .. i - 1 : s[k] = "bs", i - n - 1 >= 1 => s[i - n - 1] # "bs",
           \A k \in i - m .. i - 1 : s[k] = "bs", i - m - 1 >= 1 => s[i - m - 1] # "bs"
    PROVE  n = m
<1>1. CASE n < m
  <2>1. i - n - 1 \in i - m .. i - 1 /\ i - n - 1 >= 1
    BY <1>1
  <2> QED
    BY <2>1
<1>2. CASE m < n
  <2>1. i - m - 1 \in i - n .. i - 1 /\ i - m - 1 >= 1
    BY <1>2
  <2> QED
    BY <2>1
<1> QED
  BY <1>1, <1>2

\* A symbol is escaped by a backslash that is not escaped itself.
LEMMA EscapedNext ==
    ASSUME NEW s, NEW i \in Nat, i >= 1
    PROVE  Escaped(s, i + 1) <=> s[i] = "bs" /\ ~Escaped(s, i)
<1>1. PICK n \in 0 .. i - 1 : /\ \A k \in i - n .. i - 1 : s[k] = "bs"
                              /\ i - n - 1 >= 1 => s[i - n - 1] # "bs"
  BY RunOf
<1>2. Escaped(s, i) <=> n % 2 = 1
  <2>1. ASSUME NEW m \in 0 .. i - 1, m % 2 = 1, \A k \in i - m .. i - 1 : s[k] = "bs",
               i - m - 1 >= 1 => s[i - m - 1] # "bs"
        PROVE  n % 2 = 1
    <3>1. n = m
      BY <1>1, <2>1, RunUnique
    <3> QED
      BY <2>1, <3>1
  <2> QED
    BY <1>1, <2>1 DEF Escaped
<1>3. CASE s[i] # "bs"
  <2>1. ASSUME NEW m \in 0 .. (i + 1) - 1, m % 2 = 1,
               \A k \in (i + 1) - m .. (i + 1) - 1 : s[k] = "bs"
        PROVE  FALSE
    <3>1. m # 0
      BY <2>1
    <3>2. i \in (i + 1) - m .. (i + 1) - 1
      BY <3>1
    <3> QED
      BY <1>3, <2>1, <3>2
  <2> QED
    BY <1>3, <2>1 DEF Escaped
<1>4. CASE s[i] = "bs"
  <2>1. PICK h \in Nat : h = n + 1
    OBVIOUS
  <2>2. h \in 0 .. (i + 1) - 1 /\ (i + 1) - h - 1 = i - n - 1
    BY <2>1
  <2>3. ASSUME NEW k \in (i + 1) - h .. (i + 1) - 1
        PROVE  s[k] = "bs"
    <3>1. k = i \/ k \in i - n .. i - 1
      BY <2>1
    <3> QED
      BY <1>1, <1>4, <3>1
  <2>4. (i + 1) - h - 1 >= 1 => s[(i + 1) - h - 1] # "bs"
    BY <1>1, <2>2
  <2>5. h % 2 = 1 <=> ~(n % 2 = 1)
    BY <2>1
  <2>6. ASSUME NEW m \in 0 .. (i + 1) - 1, m % 2 = 1,
               \A k \in (i + 1) - m .. (i + 1) - 1 : s[k] = "bs",
               (i + 1) - m - 1 >= 1 => s[(i + 1) - m - 1] # "bs"
        PROVE  h % 2 = 1
    <3>1. i + 1 \in Nat /\ i + 1 >= 1
      OBVIOUS
    <3>2. h = m
      BY <2>2, <2>3, <2>4, <2>6, <3>1, RunUnique
    <3> QED
      BY <2>6, <3>2
  <2>7. Escaped(s, i + 1) <=> h % 2 = 1
    BY <2>2, <2>3, <2>4, <2>6 DEF Escaped
  <2> QED
    BY <1>2, <1>4, <2>5, <2>7
<1> QED
  BY <1>3, <1>4

\* The quotes before a position.
QuotesBefore(s, i) == {k \in 1 .. i - 1 : s[k] = "quote" /\ ~Escaped(s, k)}

\* A quote that is not escaped opens or closes a quotation.
LEMMA QuotedNext ==
    ASSUME NEW s, NEW i \in Nat, i >= 1
    PROVE  Quoted(s, i + 1) <=> IF s[i] = "quote" /\ ~Escaped(s, i) THEN ~Quoted(s, i)
                                                                     ELSE Quoted(s, i)
<1>1. PICK A : A = QuotesBefore(s, i)
  OBVIOUS
<1>2. PICK B : B = QuotesBefore(s, i + 1)
  OBVIOUS
<1>3. (Quoted(s, i) <=> Cardinality(A) % 2 = 1) /\ (Quoted(s, i + 1) <=> Cardinality(B) % 2 = 1)
  BY <1>1, <1>2, Zenon DEF Quoted, QuotesBefore
<1>4. IsFiniteSet(A) /\ Cardinality(A) \in Nat /\ i \notin A
  <2>1. i \notin A /\ A \in SUBSET (1 .. i - 1)
    BY <1>1 DEF QuotesBefore
  <2>2. IsFiniteSet(1 .. i - 1)
    BY FS_Interval
  <2>3. IsFiniteSet(A)
    BY <2>1, <2>2, FS_Subset
  <2> QED
    BY <2>1, <2>3, FS_CardinalityType
<1>5. CASE s[i] = "quote" /\ ~Escaped(s, i)
  <2>1. B = A \cup {i}
    BY <1>1, <1>2, <1>5 DEF QuotesBefore
  <2>2. Cardinality(B) = Cardinality(A) + 1
    BY <1>4, <2>1, FS_AddElement
  <2> QED
    BY <1>3, <1>4, <1>5, <2>2
<1>6. CASE ~(s[i] = "quote" /\ ~Escaped(s, i))
  <2>1. B = A
    BY <1>1, <1>2, <1>6 DEF QuotesBefore
  <2> QED
    BY <1>3, <1>6, <2>1
<1> QED
  BY <1>5, <1>6

\* Nothing is escaped or quoted at the first position.
LEMMA FirstPosition ==
    ASSUME NEW s
    PROVE  ~Escaped(s, 1) /\ ~Quoted(s, 1)
<1>1. ~Escaped(s, 1)
  BY DEF Escaped
<1>2. {k \in 1 .. 1 - 1 : s[k] = "quote" /\ ~Escaped(s, k)} = {}
  OBVIOUS
<1> QED
  BY <1>1, <1>2, FS_EmptySet DEF Quoted

\* The words that begin up to position n.
WordsTo(s, n) == {i \in 1 .. n : ~Separates(s, i) /\ (i = 1 \/ Separates(s, i - 1))}

\* One more position.
LEMMA WordsNext ==
    ASSUME NEW s, NEW n \in Nat, n >= 1
    PROVE  /\ Cardinality(WordsTo(s, n)) \in Nat /\ Cardinality(WordsTo(s, n - 1)) \in Nat
           /\ Cardinality(WordsTo(s, n)) =
                 IF ~Separates(s, n) /\ (n = 1 \/ Separates(s, n - 1))
                 THEN Cardinality(WordsTo(s, n - 1)) + 1 ELSE Cardinality(WordsTo(s, n - 1))
<1>1. PICK A : A = WordsTo(s, n - 1)
  OBVIOUS
<1>2. PICK B : B = WordsTo(s, n)
  OBVIOUS
<1>3. IsFiniteSet(A) /\ Cardinality(A) \in Nat /\ n \notin A
  <2>1. n \notin A /\ A \in SUBSET (1 .. n - 1)
    BY <1>1 DEF WordsTo
  <2>2. IsFiniteSet(1 .. n - 1)
    BY FS_Interval
  <2>3. IsFiniteSet(A)
    BY <2>1, <2>2, FS_Subset
  <2> QED
    BY <2>1, <2>3, FS_CardinalityType
<1>4. CASE ~Separates(s, n) /\ (n = 1 \/ Separates(s, n - 1))
  <2>1. B = A \cup {n}
    BY <1>1, <1>2, <1>4 DEF WordsTo
  <2>2. Cardinality(B) = Cardinality(A) + 1
    BY <1>3, <2>1, FS_AddElement
  <2> QED
    BY <1>1, <1>2, <1>3, <1>4, <2>2
<1>5. CASE ~(~Separates(s, n) /\ (n = 1 \/ Separates(s, n - 1)))
  <2>1. B = A
    BY <1>1, <1>2, <1>5 DEF WordsTo
  <2> QED
    BY <1>1, <1>2, <1>3, <1>5, <2>1
<1> QED
  BY <1>4, <1>5

\* What tokenize knows after n symbols: whether the next one is escaped or in
\* quotes, and how many words have begun.
ScanTypes(S) == [tokens : Seq(Seq(S)), current : Seq(S), inQuotes : BOOLEAN, esc : BOOLEAN]
ScanOK(a, s, n) ==
    /\ a.esc <=> Escaped(s, n + 1)
    /\ a.inQuotes <=> Quoted(s, n + 1)
    /\ a.current = <<>> <=> (n = 0 \/ Separates(s, n))
    /\ Cardinality(WordsTo(s, n)) = Len(a.tokens) + (IF a.current = <<>> THEN 0 ELSE 1)

\* The word that ends is kept if it is not empty.
LEMMA WordEnds ==
    ASSUME NEW S, NEW tokens \in Seq(Seq(S)), NEW current \in Seq(S),
           NEW t, t = IF current = <<>> THEN tokens ELSE Append(tokens, current)
    PROVE  /\ t \in Seq(Seq(S))
           /\ Len(t) = Len(tokens) + (IF current = <<>> THEN 0 ELSE 1)
<1>1. CASE current = <<>>
  <2>1. t = tokens /\ Len(tokens) \in Nat
    BY <1>1
  <2> QED
    BY <1>1, <2>1
<1>2. CASE current # <<>>
  <2>1. t = Append(tokens, current)
    BY <1>2
  <2>2. t \in Seq(Seq(S)) /\ Len(t) = Len(tokens) + 1
    BY <2>1
  <2> QED
    BY <1>2, <2>2
<1> QED
  BY <1>1, <1>2

\* One turn of the loop that takes the symbol into the current word, and one
\* that ends the word.
LEMMA ScanIs ==
    ASSUME NEW S, NEW a \in ScanTypes(S), NEW ch \in S, NEW b, b = Scan(a, ch)
    PROVE  /\ b \in ScanTypes(S)
           /\ b.esc = (~a.esc /\ ch = "bs")
           /\ b.inQuotes = IF ~a.esc /\ ch = "quote" THEN ~a.inQuotes ELSE a.inQuotes
           /\ IF ch = "sp" /\ ~a.esc /\ ~a.inQuotes
              THEN /\ b.current = <<>>
                   /\ Len(b.tokens) = Len(a.tokens) + (IF a.current = <<>> THEN 0 ELSE 1)
              ELSE b.current # <<>> /\ b.tokens = a.tokens
<1>1. /\ a.tokens \in Seq(Seq(S)) /\ a.current \in Seq(S)
      /\ a.inQuotes \in BOOLEAN /\ a.esc \in BOOLEAN
  BY DEF ScanTypes
<1>2. PICK c \in Seq(S) : c = Append(a.current, ch)
  <2>1. PICK x \in Seq(S) : x = a.current
    BY <1>1
  <2>2. Append(x, ch) \in Seq(S)
    OBVIOUS
  <2> QED
    BY <2>1, <2>2
<1>3. c # <<>>
  <2>1. Len(c) = Len(a.current) + 1 /\ Len(a.current) \in Nat
    BY <1>1, <1>2
  <2> QED
    BY <2>1
<1>4. PICK m : m = [a EXCEPT !.current = c, !.esc = FALSE]
  OBVIOUS
<1>5. /\ m \in ScanTypes(S) /\ m.current = c /\ m.esc = FALSE
      /\ m.tokens = a.tokens /\ m.inQuotes = a.inQuotes
  BY <1>4 DEF ScanTypes
<1>6. m = [a EXCEPT !.current = Append(@, ch), !.esc = FALSE]
  BY <1>2, <1>4 DEF ScanTypes
<1>7. PICK t : t = IF a.current = <<>> THEN a.tokens ELSE Append(a.tokens, a.current)
  OBVIOUS
<1>8. /\ t \in Seq(Seq(S))
      /\ Len(t) = Len(a.tokens) + (IF a.current = <<>> THEN 0 ELSE 1)
  <2>1. PICK x \in Seq(Seq(S)) : x = a.tokens
    BY <1>1
  <2>2. PICK y \in Seq(S) : y = a.current
    BY <1>1
  <2>3. PICK z : z = t
    OBVIOUS
  <2>4. z = IF y = <<>> THEN x ELSE Append(x, y)
    BY <1>7, <2>1, <2>2, <2>3
  <2>5. z \in Seq(Seq(S)) /\ Len(z) = Len(x) + (IF y = <<>> THEN 0 ELSE 1)
    BY <2>4, WordEnds
  <2> QED
    BY <2>1, <2>2, <2>3, <2>5
<1>9. b = IF a.esc THEN m
          ELSE IF ch = "bs" THEN [m EXCEPT !.esc = TRUE]
          ELSE IF ch = "quote" THEN [m EXCEPT !.inQuotes = ~m.inQuotes]
          ELSE IF ch = "sp" /\ ~a.inQuotes
          THEN [a EXCEPT !.tokens = t, !.current = <<>>]
          ELSE m
  BY <1>6, <1>7 DEF Scan, ScanTypes
<1>10. CASE a.esc
  BY <1>1, <1>3, <1>5, <1>9, <1>10
<1>11. CASE ~a.esc /\ ch = "bs"
  <2>1. b = [m EXCEPT !.esc = TRUE]
    BY <1>9, <1>11
  <2>2. /\ b \in ScanTypes(S) /\ b.current = c /\ b.esc = TRUE
        /\ b.tokens = a.tokens /\ b.inQuotes = a.inQuotes
    BY <1>5, <2>1 DEF ScanTypes
  <2> QED
    BY <1>3, <1>11, <2>2
<1>12. CASE ~a.esc /\ ch = "quote"
  <2>1. PICK q \in BOOLEAN : q = ~a.inQuotes
    BY <1>1
  <2>2. b = [m EXCEPT !.inQuotes = q]
    BY <1>5, <1>9, <1>12, <2>1
  <2>3. /\ b \in ScanTypes(S) /\ b.current = c /\ b.esc = FALSE
        /\ b.tokens = a.tokens /\ b.inQuotes = q
    BY <1>5, <2>2 DEF ScanTypes
  <2> QED
    BY <1>3, <1>12, <2>1, <2>3
<1>13. CASE ~a.esc /\ ch = "sp" /\ ~a.inQuotes
  <2>1. b = [a EXCEPT !.tokens = t, !.current = <<>>]
    BY <1>9, <1>13
  <2>2. /\ b \in ScanTypes(S) /\ b.current = <<>> /\ b.esc = a.esc
        /\ b.tokens = t /\ b.inQuotes = a.inQuotes
    <3>1. PICK nil \in Seq(S) : nil = <<>>
      BY EmptySeq
    <3>2. b = [a EXCEPT !.tokens = t, !.current = nil]
      BY <2>1, <3>1
    <3>3. t \in Seq(Seq(S))
      BY <1>8
    <3>4. /\ b \in ScanTypes(S) /\ b.current = nil /\ b.esc = a.esc
          /\ b.tokens = t /\ b.inQuotes = a.inQuotes
      BY <3>2, <3>3 DEF ScanTypes
    <3> QED
      BY <3>1, <3>4
  <2> QED
    BY <1>1, <1>8, <1>13, <2>2
<1>14. CASE ~a.esc /\ ch # "bs" /\ ch # "quote" /\ ~(ch = "sp" /\ ~a.inQuotes)
  <2>1. b = m
    BY <1>9, <1>14
  <2> QED
    BY <1>3, <1>5, <1>14, <2>1
<1> QED
  BY <1>1, <1>10, <1>11, <1>12, <1>13, <1>14

\* The loop keeps that.
LEMMA ScanStep ==
    ASSUME NEW S, NEW s \in Seq(S), NEW n \in 1 .. Len(s), NEW a \in ScanTypes(S),
           ScanOK(a, s, n - 1), NEW b, b = Scan(a, s[n])
    PROVE  b \in ScanTypes(S) /\ ScanOK(b, s, n)
<1>1. PICK ch \in S : ch = s[n]
  OBVIOUS
<1>2. n \in Nat /\ n >= 1 /\ (n - 1) + 1 = n
  OBVIOUS
<1>3. /\ a.esc <=> Escaped(s, n)
      /\ a.inQuotes <=> Quoted(s, n)
      /\ a.current = <<>> <=> (n = 1 \/ Separates(s, n - 1))
      /\ Cardinality(WordsTo(s, n - 1)) = Len(a.tokens) + (IF a.current = <<>> THEN 0 ELSE 1)
  <2>1. n - 1 = 0 <=> n = 1
    OBVIOUS
  <2>2. /\ a.esc <=> Escaped(s, (n - 1) + 1)
        /\ a.inQuotes <=> Quoted(s, (n - 1) + 1)
        /\ a.current = <<>> <=> (n - 1 = 0 \/ Separates(s, n - 1))
        /\ Cardinality(WordsTo(s, n - 1)) = Len(a.tokens) + (IF a.current = <<>> THEN 0 ELSE 1)
    BY Zenon DEF ScanOK
  <2> QED
    BY <1>2, <2>1, <2>2, Zenon
<1>4. /\ b \in ScanTypes(S)
      /\ b.esc = (~a.esc /\ ch = "bs")
      /\ b.inQuotes = IF ~a.esc /\ ch = "quote" THEN ~a.inQuotes ELSE a.inQuotes
      /\ IF ch = "sp" /\ ~a.esc /\ ~a.inQuotes
         THEN /\ b.current = <<>>
              /\ Len(b.tokens) = Len(a.tokens) + (IF a.current = <<>> THEN 0 ELSE 1)
         ELSE b.current # <<>> /\ b.tokens = a.tokens
  <2>1. b = Scan(a, ch)
    BY <1>1
  <2> QED
    BY <2>1, ScanIs, Zenon
<1>5. Escaped(s, n + 1) <=> ch = "bs" /\ ~Escaped(s, n)
  BY <1>1, <1>2, EscapedNext
<1>6. Quoted(s, n + 1) <=> IF ch = "quote" /\ ~Escaped(s, n) THEN ~Quoted(s, n)
                                                             ELSE Quoted(s, n)
  BY <1>1, <1>2, QuotedNext
<1>7. Separates(s, n) <=> ch = "sp" /\ ~a.esc /\ ~a.inQuotes
  BY <1>1, <1>3 DEF Separates
<1>8. b.esc <=> Escaped(s, n + 1)
  BY <1>3, <1>4, <1>5, Zenon
<1>9. b.inQuotes <=> Quoted(s, n + 1)
  BY <1>3, <1>4, <1>6, Zenon
<1>10. b.current = <<>> <=> (n = 0 \/ Separates(s, n))
  <2>1. n # 0
    BY <1>2
  <2> QED
    BY <1>4, <1>7, <2>1, Zenon
<1>11. Len(a.tokens) \in Nat /\ Len(b.tokens) \in Nat
  BY <1>4 DEF ScanTypes
<1>12. /\ Cardinality(WordsTo(s, n)) \in Nat /\ Cardinality(WordsTo(s, n - 1)) \in Nat
       /\ Cardinality(WordsTo(s, n)) =
             IF ~Separates(s, n) /\ (n = 1 \/ Separates(s, n - 1))
             THEN Cardinality(WordsTo(s, n - 1)) + 1 ELSE Cardinality(WordsTo(s, n - 1))
  BY <1>2, WordsNext
<1>13. Cardinality(WordsTo(s, n)) = Len(b.tokens) + (IF b.current = <<>> THEN 0 ELSE 1)
  <2>1. CASE Separates(s, n)
    <3>1. /\ b.current = <<>>
          /\ Len(b.tokens) = Len(a.tokens) + (IF a.current = <<>> THEN 0 ELSE 1)
      BY <1>4, <1>7, <2>1, Zenon
    <3>2. Cardinality(WordsTo(s, n)) = Cardinality(WordsTo(s, n - 1))
      BY <1>12, <2>1, Zenon
    <3>3. Cardinality(WordsTo(s, n)) = Len(b.tokens)
      BY <1>3, <3>1, <3>2, Zenon
    <3> QED
      BY <1>11, <3>1, <3>3
  <2>2. CASE ~Separates(s, n)
    <3>1. b.current # <<>> /\ b.tokens = a.tokens
      BY <1>4, <1>7, <2>2, Zenon
    <3>2. CASE a.current = <<>>
      <4>1. Cardinality(WordsTo(s, n)) = Cardinality(WordsTo(s, n - 1)) + 1
        BY <1>3, <1>12, <2>2, <3>2, Zenon
      <4>2. Cardinality(WordsTo(s, n - 1)) = Len(a.tokens) + 0
        BY <1>3, <3>2, Zenon
      <4> QED
        BY <1>11, <3>1, <4>1, <4>2
    <3>3. CASE a.current # <<>>
      <4>1. Cardinality(WordsTo(s, n)) = Cardinality(WordsTo(s, n - 1))
        BY <1>3, <1>12, <3>3, Zenon
      <4>2. Cardinality(WordsTo(s, n - 1)) = Len(a.tokens) + 1
        BY <1>3, <3>3, Zenon
      <4> QED
        BY <1>11, <3>1, <4>1, <4>2
    <3> QED
      BY <3>2, <3>3
  <2> QED
    BY <2>1, <2>2
<1> QED
  BY <1>4, <1>8, <1>9, <1>10, <1>13 DEF ScanOK

\* f is the function of tokenize for the first n symbols.
ScanStart == [tokens |-> <<>>, current |-> <<>>, inQuotes |-> FALSE, esc |-> FALSE]
Scans(f, s, n) == f = [i \in 0 .. n |-> IF i = 0 THEN ScanStart ELSE Scan(f[i - 1], s[i])]

\* There is one.
LEMMA ScansExists ==
    ASSUME NEW S, NEW s \in Seq(S)
    PROVE  \E f : Scans(f, s, Len(s))
<1> DEFINE bad == {n \in 0 .. Len(s) : ~ \E f : Scans(f, s, n)}
<1>1. SUFFICES ASSUME bad # {} PROVE FALSE
  <2>1. Len(s) \in 0 .. Len(s)
    OBVIOUS
  <2> QED
    BY <2>1
<1>2. PICK n \in bad : \A m \in bad : n <= m
  <2>1. bad \subseteq Nat
    OBVIOUS
  <2> HIDE DEF bad
  <2> QED
    BY <1>1, <2>1, LeastOf
<1>3. n \in 0 .. Len(s) /\ ~ \E f : Scans(f, s, n)
  OBVIOUS
<1>4. n # 0
  <2>1. PICK f : f = [i \in 0 .. 0 |-> ScanStart]
    OBVIOUS
  <2>2. \A i \in 0 .. 0 : i = 0
    OBVIOUS
  <2>3. Scans(f, s, 0)
    BY <2>1, <2>2, Zenon DEF Scans
  <2> QED
    BY <1>3, <2>3
<1>5. PICK m \in 0 .. Len(s) : n = m + 1
  <2>1. n - 1 \in 0 .. Len(s) /\ n = (n - 1) + 1
    BY <1>3, <1>4
  <2> QED
    BY <2>1
<1>6. PICK f : Scans(f, s, m)
  <2>1. m \notin bad
    BY <1>2, <1>5
  <2> QED
    BY <2>1
<1>7. PICK g : g = [i \in 0 .. n |-> IF i = n THEN Scan(f[m], s[n]) ELSE f[i]]
  OBVIOUS
<1>8. ASSUME NEW i \in 0 .. n
      PROVE  g[i] = IF i = 0 THEN ScanStart ELSE Scan(g[i - 1], s[i])
  <2>1. CASE i = n
    <3>1. i - 1 = m /\ m \in 0 .. n /\ m # n /\ n \in 0 .. n
      BY <1>3, <1>5, <2>1
    <3>2. g[i - 1] = f[m] /\ g[i] = Scan(f[m], s[n])
      BY <1>7, <2>1, <3>1, Zenon
    <3> QED
      BY <1>4, <2>1, <3>2, Zenon
  <2>2. CASE i # n
    <3>1. i \in 0 .. m
      BY <1>5, <2>2
    <3>2. f[i] = IF i = 0 THEN ScanStart ELSE Scan(f[i - 1], s[i])
      BY <1>6, <3>1, Zenon DEF Scans
    <3>3. g[i] = f[i]
      BY <1>7, <2>2, Zenon
    <3>4. CASE i = 0
      BY <3>2, <3>3, <3>4, Zenon
    <3>5. CASE i # 0
      <4>1. i - 1 \in 0 .. n /\ i - 1 # n
        BY <1>5, <3>1, <3>5
      <4>2. g[i - 1] = f[i - 1]
        BY <1>7, <4>1, Zenon
      <4> QED
        BY <3>2, <3>3, <3>5, <4>2, Zenon
    <3> QED
      BY <3>4, <3>5
  <2> QED
    BY <2>1, <2>2
<1>9. Scans(g, s, n)
  BY <1>7, <1>8, Zenon DEF Scans
<1> QED
  BY <1>3, <1>9

\* tokenize cuts a template into its words.
LEMMA TokenizeOK ==
    ASSUME NEW S, NEW s \in Seq(S)
    PROVE  /\ tokenize(s) \in Seq(Seq(S))
           /\ Len(tokenize(s)) = Cardinality(Words(s))
<1> DEFINE k == CHOOSE f : f = [n \in 0 .. Len(s) |->
            IF n = 0 THEN [tokens |-> <<>>, current |-> <<>>,
                           inQuotes |-> FALSE, esc |-> FALSE]
            ELSE Scan(f[n - 1], s[n])]
<1>1. tokenize(s) = IF k[Len(s)].current = <<>> THEN k[Len(s)].tokens
                    ELSE Append(k[Len(s)].tokens, k[Len(s)].current)
  BY Zenon DEF tokenize
<1>2. \E f : f = [n \in 0 .. Len(s) |->
            IF n = 0 THEN [tokens |-> <<>>, current |-> <<>>,
                           inQuotes |-> FALSE, esc |-> FALSE]
            ELSE Scan(f[n - 1], s[n])]
  BY ScansExists, Zenon DEF Scans, ScanStart
<1>3. k = [n \in 0 .. Len(s) |->
            IF n = 0 THEN [tokens |-> <<>>, current |-> <<>>,
                           inQuotes |-> FALSE, esc |-> FALSE]
            ELSE Scan(k[n - 1], s[n])]
  BY <1>2, Zenon
<1> HIDE DEF k
<1>4. k = [n \in 0 .. Len(s) |-> IF n = 0 THEN ScanStart ELSE Scan(k[n - 1], s[n])]
  BY <1>3, Zenon DEF ScanStart
<1> DEFINE bad == {n \in 0 .. Len(s) : ~(k[n] \in ScanTypes(S) /\ ScanOK(k[n], s, n))}
<1>5. bad = {}
  <2>1. SUFFICES ASSUME bad # {} PROVE FALSE
    OBVIOUS
  <2>2. PICK n \in bad : \A m \in bad : n <= m
    <3>1. bad \subseteq Nat
      OBVIOUS
    <3> HIDE DEF bad
    <3> QED
      BY <2>1, <3>1, LeastOf
  <2>3. n \in 0 .. Len(s) /\ ~(k[n] \in ScanTypes(S) /\ ScanOK(k[n], s, n))
    OBVIOUS
  <2>4. n # 0
    <3>1. ScanStart \in ScanTypes(S)
      BY DEF ScanStart, ScanTypes
    <3>2. /\ ScanStart.esc = FALSE /\ ScanStart.inQuotes = FALSE /\ ScanStart.current = <<>>
          /\ Len(ScanStart.tokens) = 0
      BY DEF ScanStart
    <3>3. Cardinality(WordsTo(s, 0)) = 0
      <4>1. WordsTo(s, 0) = {}
        BY DEF WordsTo
      <4> QED
        BY <4>1, FS_EmptySet
    <3>4. ScanOK(ScanStart, s, 0)
      BY <3>2, <3>3, FirstPosition DEF ScanOK
    <3>5. k[0] = ScanStart
      <4>1. 0 \in 0 .. Len(s)
        OBVIOUS
      <4> QED
        BY <1>4, <4>1, Zenon
    <3> QED
      BY <2>3, <3>1, <3>4, <3>5
  <2>5. n \in 1 .. Len(s) /\ n - 1 \in 0 .. Len(s)
    BY <2>3, <2>4
  <2>6. k[n - 1] \in ScanTypes(S) /\ ScanOK(k[n - 1], s, n - 1)
    BY <2>2, <2>5
  <2>7. k[n] = Scan(k[n - 1], s[n])
    BY <1>4, <2>3, <2>4, Zenon
  <2>8. k[n] \in ScanTypes(S) /\ ScanOK(k[n], s, n)
    BY <2>5, <2>6, <2>7, ScanStep
  <2> QED
    BY <2>3, <2>8
<1>6. PICK e : e = k[Len(s)]
  OBVIOUS
<1>7. e \in ScanTypes(S) /\ ScanOK(e, s, Len(s))
  <2>1. Len(s) \in 0 .. Len(s)
    OBVIOUS
  <2> QED
    BY <1>5, <1>6, <2>1
<1>8. e.tokens \in Seq(Seq(S)) /\ e.current \in Seq(S)
  BY <1>7 DEF ScanTypes
<1>9. tokenize(s) = IF e.current = <<>> THEN e.tokens ELSE Append(e.tokens, e.current)
  BY <1>1, <1>6, Zenon
<1>10. /\ tokenize(s) \in Seq(Seq(S))
       /\ Len(tokenize(s)) = Len(e.tokens) + (IF e.current = <<>> THEN 0 ELSE 1)
  <2>1. PICK x \in Seq(Seq(S)) : x = e.tokens
    BY <1>8
  <2>2. PICK y \in Seq(S) : y = e.current
    BY <1>8
  <2>3. PICK z : z = tokenize(s)
    OBVIOUS
  <2>4. z = IF y = <<>> THEN x ELSE Append(x, y)
    BY <1>9, <2>1, <2>2, <2>3
  <2>5. z \in Seq(Seq(S)) /\ Len(z) = Len(x) + (IF y = <<>> THEN 0 ELSE 1)
    BY <2>4, WordEnds
  <2> QED
    BY <2>1, <2>2, <2>3, <2>5
<1>11. Words(s) = WordsTo(s, Len(s))
  BY DEF Words, WordsTo
<1> QED
  BY <1>7, <1>10, <1>11 DEF ScanOK

\* Whatever spaces, quotes and backslashes the template and the prompt have and
\* however long they are: buildSpawnPlan gives one argument per word of the
\* template, and a quoted {{prompt}} is passed on as it is.
THEOREM CommandLinesAreRaw == PlansAreRaw
<1>1. SUFFICES ASSUME NEW template \in Templates, NEW prompt \in Prompts
      PROVE  /\ Len(buildSpawnPlan(template, prompt)) = Cardinality(Words(template))
             /\ ToSet(prompt) \cap {"input", "cwd"} = {} =>
                   \A i \in DOMAIN buildSpawnPlan(template, prompt) :
                       tokenize(template)[i] = <<"quote", "prompt", "quote">>
                           => buildSpawnPlan(template, prompt)[i] = prompt
  BY Zenon DEF PlansAreRaw
<1> DEFINE S == {"word", "sp", "quote", "bs", "prompt", "input", "cwd"}
<1>2. template \in Seq(S)
  BY SpawnPlanBounds DEF Templates, BoundedSeq, SeqOf
<1>3. prompt \in Seq(S)
  BY SpawnPlanBounds DEF Prompts, BoundedSeq, SeqOf
<1>4. PICK tokens : tokens = tokenize(template)
  OBVIOUS
<1>5. tokens \in Seq(Seq(S)) /\ Len(tokens) = Cardinality(Words(template))
  BY <1>2, <1>4, TokenizeOK
<1>6. PICK plan : plan = buildSpawnPlan(template, prompt)
  OBVIOUS
<1>7. plan = [i \in DOMAIN tokens |-> stripOuterQuotes(substitute(tokens[i], prompt))]
  BY <1>4, <1>6, Zenon DEF buildSpawnPlan
<1>8. DOMAIN tokens = 1 .. Len(tokens) /\ Len(tokens) \in Nat
  BY <1>5
<1>9. Len(plan) = Len(tokens)
  BY <1>7, <1>8
<1>10. ASSUME ToSet(prompt) \cap {"input", "cwd"} = {}, NEW i \in DOMAIN plan,
              tokens[i] = <<"quote", "prompt", "quote">>
       PROVE  plan[i] = prompt
  <2>1. ToSet(prompt) = {prompt[j] : j \in 1 .. Len(prompt)}
    BY <1>3 DEF ToSet
  <2>2. \A j \in 1 .. Len(prompt) : prompt[j] \notin {"input", "cwd"}
    BY <1>10, <2>1
  <2>3. "quote" \in S
    OBVIOUS
  <2>4. stripOuterQuotes(substitute(<<"quote", "prompt", "quote">>, prompt)) = prompt
    BY <1>3, <2>2, <2>3, QuotedIsRaw
  <2>5. plan[i] = stripOuterQuotes(substitute(tokens[i], prompt))
    BY <1>7, <1>10, Zenon
  <2> QED
    BY <1>10, <2>4, <2>5
<1> QED
  BY <1>4, <1>5, <1>6, <1>9, <1>10

\* No child ever runs on a command line that its prompt has broken up.
THEOREM PromptsAreOneArgument == OutputSpec => []PromptIsOneArgument
<1>1. PromptIsOneArgument
  BY CommandLinesAreRaw DEF PromptIsOneArgument
<1> QED
  BY <1>1, PTL

=============================================================================
