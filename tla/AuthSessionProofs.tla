-------------------------- MODULE AuthSessionProofs --------------------------
(***************************************************************************)
(* Proofs about AuthSession: its variables keep their types, and without   *)
(* network failures and restarts concurrent refreshes never cost the user  *)
(* the session, for any number of requests in flight and of token pairs.   *)
(***************************************************************************)
EXTENDS AuthSession, TLAPS

-----------------------------------------------------------------------------
(* Calls and handlers as values.                                           *)

\* The steps of a call and of a handler.
Asking == {"ask", "fetch", "wait", "save", "store", "forget"}
Handling == {"find", "revoke", "issue", "reply"}

\* A call in flight goes on to another step.
LEMMA ClientMoves ==
    ASSUME NEW x \in Client, NEW p \in Asking
    PROVE  /\ [x EXCEPT !.pc = p] \in Client
           /\ [x EXCEPT !.pc = p].pc = p
           /\ [x EXCEPT !.pc = p].token = x.token
           /\ [x EXCEPT !.pc = p].try = x.try
           /\ [x EXCEPT !.pc = p].new = x.new
BY DEF Client, Asking

\* A call gives up its first URL.
LEMMA ClientRetries ==
    ASSUME NEW x \in Client
    PROVE  /\ [x EXCEPT !.pc = "fetch", !.try = 2] \in Client
           /\ [x EXCEPT !.pc = "fetch", !.try = 2].token = x.token
BY DEF Client, Urls

\* A call receives a new pair.
LEMMA ClientReceives ==
    ASSUME NEW x \in Client, NEW n \in 0 .. MaxTokens
    PROVE  /\ [x EXCEPT !.pc = "save", !.new = n] \in Client
           /\ [x EXCEPT !.pc = "save", !.new = n].pc = "save"
           /\ [x EXCEPT !.pc = "save", !.new = n].token = x.token
           /\ [x EXCEPT !.pc = "save", !.new = n].try = x.try
           /\ [x EXCEPT !.pc = "save", !.new = n].new = n
BY DEF Client

\* A handler goes on to another step.
LEMMA HandlerMoves ==
    ASSUME NEW x \in Handler, NEW p \in Handling
    PROVE  /\ [x EXCEPT !.pc = p] \in Handler
           /\ [x EXCEPT !.pc = p].pc = p
           /\ [x EXCEPT !.pc = p].token = x.token
           /\ [x EXCEPT !.pc = p].new = x.new
BY DEF Handler, Handling

\* A handler issues the next pair.
LEMMA HandlerIssues ==
    ASSUME NEW x \in Handler, NEW n \in 0 .. MaxTokens
    PROVE  /\ [x EXCEPT !.pc = "reply", !.new = n] \in Handler
           /\ [x EXCEPT !.pc = "reply", !.new = n].pc = "reply"
           /\ [x EXCEPT !.pc = "reply", !.new = n].token = x.token
           /\ [x EXCEPT !.pc = "reply", !.new = n].new = n
BY DEF Handler

\* A call of the app is idle or in flight, and its step tells which.
LEMMA ClientOf ==
    ASSUME AuthTypeOK, NEW c \in Callers
    PROVE  /\ client[c] = Idle \/ client[c] \in Client
           /\ client[c].pc # "idle" => client[c] \in Client
           /\ client[c].pc \in Asking => client[c] \in Client
           /\ client[c] = Idle => client[c].pc = "idle"
BY DEF AuthTypeOK, Client, Idle, Asking

\* So is a handler of the Hub.
LEMMA HandlerOf ==
    ASSUME AuthTypeOK, NEW c \in Callers, NEW k \in Urls
    PROVE  /\ handler[<<c, k>>] = Idle \/ handler[<<c, k>>] \in Handler
           /\ handler[<<c, k>>].pc # "idle" => handler[<<c, k>>] \in Handler
           /\ handler[<<c, k>>].pc \in Handling => handler[<<c, k>>] \in Handler
           /\ handler[<<c, k>>] = Idle => handler[<<c, k>>].pc = "idle"
<1>1. <<c, k>> \in Callers \X Urls
  OBVIOUS
<1>2. handler[<<c, k>>] \in {Idle} \cup Handler
  BY <1>1 DEF AuthTypeOK
<1> QED
  BY <1>2 DEF Handler, Idle, Handling

\* Tokens are numbers.
LEMMA TokenOf ==
    ASSUME AuthTypeOK, NEW c \in Callers
    PROVE  /\ client[c].pc # "idle" => client[c].token \in Nat /\ client[c].new \in Nat
           /\ Unsaved(c) \in Nat
<1>1. 0 .. MaxTokens \subseteq Nat
  BY AuthAssumption
<1>2. client[c].pc # "idle" => client[c].token \in Nat /\ client[c].new \in Nat
  BY <1>1, ClientOf DEF Client
<1>3. handler[<<c, 1>>].pc = "reply" => handler[<<c, 1>>].new \in Nat
  BY <1>1, HandlerOf DEF Handler, Handling, Urls
<1> QED
  BY <1>2, <1>3 DEF Unsaved

\* One call is replaced: types, and which of the others stay.
LEMMA ClientSet ==
    ASSUME AuthTypeOK, CallsHoldTokens, NEW c \in Callers, NEW y,
           y = Idle \/ y \in Client,
           y.pc \in {"ask", "fetch", "wait"} => y.token # 0,
           client' = [client EXCEPT ![c] = y]
    PROVE  /\ client' \in [Callers -> {Idle} \cup Client]
           /\ \A d \in Callers :
                 client'[d].pc \in {"ask", "fetch", "wait"} => client'[d].token # 0
           /\ client'[c] = y
           /\ \A d \in Callers : d # c => client'[d] = client[d]
<1>1. client \in [Callers -> {Idle} \cup Client]
  BY DEF AuthTypeOK
<1>2. \A d \in Callers :
         client[d].pc \in {"ask", "fetch", "wait"} => client[d].token # 0
  BY DEF CallsHoldTokens
<1>3. client'[c] = y /\ \A d \in Callers : d # c => client'[d] = client[d]
  BY <1>1
<1>4. client' \in [Callers -> {Idle} \cup Client]
  BY <1>1
<1> QED
  BY <1>2, <1>3, <1>4

\* One handler is replaced.
LEMMA HandlerSet ==
    ASSUME AuthTypeOK, CallsHoldTokens, NEW c \in Callers, NEW k \in Urls, NEW y,
           y = Idle \/ y \in Handler,
           y.pc \in {"find", "revoke", "issue"} => y.new = 0,
           handler' = [handler EXCEPT ![<<c, k>>] = y]
    PROVE  /\ handler' \in [Callers \X Urls -> {Idle} \cup Handler]
           /\ \A h \in Callers \X Urls :
                 handler'[h].pc \in {"find", "revoke", "issue"} => handler'[h].new = 0
           /\ handler'[<<c, k>>] = y
           /\ \A d \in Callers : d # c => /\ handler'[<<d, 1>>] = handler[<<d, 1>>]
                                         /\ handler'[<<d, 2>>] = handler[<<d, 2>>]
           /\ k = 1 => handler'[<<c, 2>>] = handler[<<c, 2>>]
<1>1. handler \in [Callers \X Urls -> {Idle} \cup Handler]
  BY DEF AuthTypeOK
<1>2. \A h \in Callers \X Urls :
         handler[h].pc \in {"find", "revoke", "issue"} => handler[h].new = 0
  BY DEF CallsHoldTokens
<1>3. \A h \in Callers \X Urls : h # <<c, k>> => handler'[h] = handler[h]
  BY <1>1
<1>4. handler'[<<c, k>>] = y
  BY <1>1
<1>5. handler' \in [Callers \X Urls -> {Idle} \cup Handler]
  BY <1>1
<1>6. \A d \in Callers : d # c => /\ handler'[<<d, 1>>] = handler[<<d, 1>>]
                                /\ handler'[<<d, 2>>] = handler[<<d, 2>>]
  BY <1>3 DEF Urls
<1>7. k = 1 => handler'[<<c, 2>>] = handler[<<c, 2>>]
  BY <1>3 DEF Urls
<1>8. \A h \in Callers \X Urls :
         handler'[h].pc \in {"find", "revoke", "issue"} => handler'[h].new = 0
  BY <1>2, <1>3, <1>4
<1> QED
  BY <1>4, <1>5, <1>6, <1>7, <1>8

\* A call that a step leaves alone, with its handlers.
Kept(d) ==
    /\ client'[d] = client[d]
    /\ handler'[<<d, 1>>] = handler[<<d, 1>>]
    /\ handler'[<<d, 2>>] = handler[<<d, 2>>]

LEMMA CallKept ==
    ASSUME NEW d, Kept(d)
    PROVE  /\ Unsaved(d)' = Unsaved(d)
           /\ \A n : Replacing(d, n) => Replacing(d, n)'
           /\ CallOK(d) /\ issued' = issued => CallOK(d)'
BY DEF Kept, Unsaved, Replacing, CallOK

-----------------------------------------------------------------------------
(* The steps of the Hub.                                                   *)

LEMMA FindTokenOK ==
    ASSUME AuthInv, NEW c \in Callers, NEW k \in Urls, FindToken(c, k)
    PROVE  AuthInv'
<1>1. AuthTypeOK /\ CallsHoldTokens
  BY DEF AuthInv
<1>2. PICK x : x = handler[<<c, k>>]
  OBVIOUS
<1>3. PICK p : p = IF revoked[x.token] THEN "reply" ELSE "revoke"
  OBVIOUS
<1>4. PICK y : y = [x EXCEPT !.pc = p]
  OBVIOUS
<1>5. x \in Handler /\ x.pc = "find"
  BY <1>1, <1>2, HandlerOf DEF FindToken, Handling
<1>6. x.new = 0
  BY <1>1, <1>2, <1>5 DEF CallsHoldTokens
<1>7. p \in Handling /\ (p = "reply" \/ p = "revoke")
  BY <1>3 DEF Handling
<1>8. y \in Handler /\ y.pc = p /\ y.token = x.token /\ y.new = 0
  BY <1>4, <1>5, <1>6, <1>7, HandlerMoves
<1>9. handler' = [handler EXCEPT ![<<c, k>>] = y]
  BY <1>2, <1>3, <1>4 DEF FindToken
<1>10. /\ UNCHANGED <<issued, revoked, expired, logouts, leaving, memory, stored, active>>
       /\ UNCHANGED <<bootDue, booting, client, failures, restarts>>
  BY DEF FindToken, app, limits
<1>11. AuthTypeOK' /\ CallsHoldTokens'
  BY <1>1, <1>8, <1>9, <1>10, HandlerSet DEF AuthTypeOK, CallsHoldTokens
<1>12. ASSUME Calm' PROVE CalmOK'
  <2>1. CalmOK
    BY <1>10, <1>12 DEF AuthInv, Calm
  <2>2. k = 1
    BY <1>2, <1>5, <2>1 DEF CalmOK, CallOK, Urls
  <2>3. /\ handler'[<<c, 1>>] = y /\ handler'[<<c, 2>>] = handler[<<c, 2>>]
        /\ \A d \in Callers : d # c => /\ handler'[<<d, 1>>] = handler[<<d, 1>>]
                                      /\ handler'[<<d, 2>>] = handler[<<d, 2>>]
    BY <1>1, <1>8, <1>9, <2>2, HandlerSet
  <2>4. \A d \in Callers : Unsaved(d)' = Unsaved(d)
    BY <1>2, <1>5, <1>6, <1>7, <1>8, <1>10, <2>2, <2>3 DEF Unsaved
  <2>5. \A d \in Callers : CallOK(d)'
    <3>1. \A d \in Callers : d # c => CallOK(d)'
      BY <1>10, <2>1, <2>3, CallKept DEF CalmOK, Kept
    <3>2. CallOK(c)'
      BY <1>2, <1>5, <1>8, <1>10, <2>1, <2>2, <2>3 DEF CalmOK, CallOK
    <3> QED
      BY <3>1, <3>2
  <2>6. \A d \in Callers : UnsavedOK(d)'
    BY <1>10, <2>1, <2>4 DEF CalmOK, UnsavedOK
  <2>7. \A d \in Callers, n \in Tokens : Replacing(d, n) => Replacing(d, n)'
    BY <1>2, <1>5, <1>10, <2>2, <2>3 DEF Replacing
  <2>8. MemoryOK'
    BY <1>1, <1>10, <2>1, <2>7 DEF CalmOK, MemoryOK, AuthTypeOK, Tokens
  <2>9. IssuedOnly' /\ BootOK'
    BY <1>10, <2>1 DEF CalmOK, IssuedOnly, BootOK
  <2> QED
    BY <2>5, <2>6, <2>8, <2>9 DEF CalmOK
<1> QED
  BY <1>11, <1>12 DEF AuthInv

LEMMA RevokeTokenOK ==
    ASSUME AuthInv, NEW c \in Callers, NEW k \in Urls, RevokeToken(c, k)
    PROVE  AuthInv'
<1>1. AuthTypeOK /\ CallsHoldTokens
  BY DEF AuthInv
<1>2. PICK x : x = handler[<<c, k>>]
  OBVIOUS
<1>3. PICK n : n = x.token
  OBVIOUS
<1>4. PICK y : y = [x EXCEPT !.pc = "issue"]
  OBVIOUS
<1>5. x \in Handler /\ x.pc = "revoke"
  BY <1>1, <1>2, HandlerOf DEF RevokeToken, Handling
<1>6. x.new = 0 /\ n \in Tokens
  BY <1>1, <1>2, <1>3, <1>5 DEF CallsHoldTokens, Handler
<1>7. y \in Handler /\ y.pc = "issue" /\ y.token = n /\ y.new = 0
  BY <1>3, <1>4, <1>5, <1>6, HandlerMoves DEF Handling
<1>8. /\ handler' = [handler EXCEPT ![<<c, k>>] = y]
      /\ revoked' = [revoked EXCEPT ![n] = TRUE]
  BY <1>2, <1>3, <1>4 DEF RevokeToken
<1>9. /\ UNCHANGED <<issued, expired, logouts, leaving, memory, stored, active>>
      /\ UNCHANGED <<bootDue, booting, client, failures, restarts>>
  BY DEF RevokeToken, app, limits
<1>10. /\ revoked' \in [Tokens -> BOOLEAN] /\ revoked'[n] = TRUE
       /\ \A m \in Tokens : m # n => revoked'[m] = revoked[m]
  BY <1>1, <1>6, <1>8 DEF AuthTypeOK
<1>11. AuthTypeOK' /\ CallsHoldTokens'
  BY <1>1, <1>7, <1>8, <1>9, <1>10, HandlerSet DEF AuthTypeOK, CallsHoldTokens
<1>12. ASSUME Calm' PROVE CalmOK'
  <2>1. CalmOK
    BY <1>9, <1>12 DEF AuthInv, Calm
  <2>2. k = 1
    BY <1>2, <1>5, <2>1 DEF CalmOK, CallOK, Urls
  <2>3. /\ handler'[<<c, 1>>] = y /\ handler'[<<c, 2>>] = handler[<<c, 2>>]
        /\ \A d \in Callers : d # c => Kept(d)
    BY <1>1, <1>7, <1>8, <1>9, <2>2, HandlerSet DEF Kept
  <2>4. client[c].pc = "wait" /\ client[c].token = n /\ n <= issued
    BY <1>2, <1>3, <1>5, <2>1, <2>2 DEF CalmOK, CallOK
  <2>5. \A d \in Callers : Unsaved(d)' = Unsaved(d)
    <3>1. Unsaved(c)' = Unsaved(c)
      BY <1>2, <1>5, <1>7, <1>9, <2>2, <2>3, <2>4 DEF Unsaved
    <3> QED
      BY <2>3, <3>1, CallKept
  <2>6. \A d \in Callers : CallOK(d)'
    <3>1. CallOK(c)'
      BY <1>7, <1>9, <2>1, <2>3, <2>4 DEF CalmOK, CallOK
    <3> QED
      BY <1>9, <2>1, <2>3, <3>1, CallKept DEF CalmOK
  <2>7. \A d \in Callers : UnsavedOK(d)'
    <3>1. SUFFICES ASSUME NEW d \in Callers, Unsaved(d) # 0
                   PROVE  UnsavedOK(d)'
      BY <2>5 DEF UnsavedOK
    <3>2. UnsavedOK(d) /\ Unsaved(d) # n
      BY <2>1, <2>4, <3>1 DEF CalmOK, UnsavedOK
    <3>3. revoked'[Unsaved(d)] = revoked[Unsaved(d)]
      BY <1>1, <1>8, <3>2 DEF AuthTypeOK
    <3> QED
      BY <1>9, <2>5, <3>1, <3>2, <3>3 DEF UnsavedOK
  <2>8. Replacing(c, n)' /\ ~Replacing(c, memory)
    BY <1>2, <1>5, <1>7, <1>9, <2>2, <2>3, <2>4 DEF Replacing
  <2>9. MemoryOK'
    <3>1. PICK m : m = memory
      OBVIOUS
    <3>2. memory' = m /\ (m # 0 => m \notin (logouts \cup leaving)')
      BY <1>9, <2>1, <3>1 DEF CalmOK, MemoryOK
    <3>3. ASSUME m # 0, revoked'[m]
          PROVE  \E d \in Callers : Replacing(d, m)'
      <4>1. CASE m = n
        BY <2>8, <4>1
      <4>2. CASE m # n
        <5>1. m \in Tokens
          BY <1>1, <3>1, <3>3 DEF AuthTypeOK, Tokens
        <5>2. revoked[m]
          BY <1>10, <3>3, <4>2, <5>1
        <5>3. PICK d \in Callers : Replacing(d, m)
          BY <2>1, <3>1, <3>3, <5>2 DEF CalmOK, MemoryOK
        <5>4. d # c
          BY <2>8, <3>1, <5>3
        <5> QED
          BY <2>3, <5>3, <5>4, CallKept
      <4> QED
        BY <4>1, <4>2
    <3> QED
      BY <3>2, <3>3 DEF MemoryOK
  <2>10. IssuedOnly' /\ BootOK'
    BY <1>9, <1>10, <2>1, <2>4 DEF CalmOK, IssuedOnly, BootOK
  <2> QED
    BY <2>6, <2>7, <2>9, <2>10 DEF CalmOK
<1> QED
  BY <1>11, <1>12 DEF AuthInv

LEMMA IssueNextOK ==
    ASSUME AuthInv, NEW c \in Callers, NEW k \in Urls, IssueNext(c, k)
    PROVE  AuthInv'
<1>1. AuthTypeOK /\ CallsHoldTokens /\ MaxTokens \in Nat
  BY AuthAssumption DEF AuthInv
<1>2. PICK x : x = handler[<<c, k>>]
  OBVIOUS
<1>3. PICK n : n = issued + 1
  OBVIOUS
<1>4. PICK y : y = [x EXCEPT !.pc = "reply", !.new = n]
  OBVIOUS
<1>5. x \in Handler /\ x.pc = "issue"
  BY <1>1, <1>2, HandlerOf DEF IssueNext, Handling
<1>6. issued \in Nat /\ n \in 0 .. MaxTokens /\ n # 0 /\ n > issued /\ n \in Tokens
  BY <1>1, <1>3 DEF IssueNext, issueTokenPair, AuthTypeOK, Tokens
<1>7. y \in Handler /\ y.pc = "reply" /\ y.token = x.token /\ y.new = n
  BY <1>4, <1>5, <1>6, HandlerIssues
<1>8. handler' = [handler EXCEPT ![<<c, k>>] = y] /\ issued' = n
  BY <1>2, <1>3, <1>4 DEF IssueNext, issueTokenPair
<1>9. /\ UNCHANGED <<revoked, expired, logouts, leaving, memory, stored, active>>
      /\ UNCHANGED <<bootDue, booting, client, failures, restarts>>
  BY DEF IssueNext, app, limits
<1>10. AuthTypeOK' /\ CallsHoldTokens'
  BY <1>1, <1>6, <1>7, <1>8, <1>9, HandlerSet DEF AuthTypeOK, CallsHoldTokens
<1>11. ASSUME Calm' PROVE CalmOK'
  <2>1. CalmOK
    BY <1>9, <1>11 DEF AuthInv, Calm
  <2>2. k = 1
    BY <1>2, <1>5, <2>1 DEF CalmOK, CallOK, Urls
  <2>3. /\ handler'[<<c, 1>>] = y /\ handler'[<<c, 2>>] = handler[<<c, 2>>]
        /\ \A d \in Callers : d # c => Kept(d)
    BY <1>1, <1>7, <1>8, <1>9, <2>2, HandlerSet DEF Kept
  <2>4. client[c].pc = "wait" /\ client[c].token = x.token
    BY <1>2, <1>5, <2>1, <2>2 DEF CalmOK, CallOK
  <2>5. Unsaved(c)' = n /\ \A d \in Callers : d # c => Unsaved(d)' = Unsaved(d)
    BY <1>7, <1>9, <2>3, <2>4, CallKept DEF Unsaved
  <2>6. \A d \in Callers : client[d].pc # "idle" =>
           client[d].token \in Nat /\ client[d].token <= issued
    BY <1>1, <2>1, TokenOf DEF CalmOK, CallOK
  <2>7. \A d \in Callers : CallOK(d)'
    <3>1. SUFFICES ASSUME NEW d \in Callers PROVE CallOK(d)'
      OBVIOUS
    <3>2. client[d].pc # "idle" => client[d].token <= n
      BY <1>6, <2>6
    <3>3. CallOK(d)
      BY <2>1 DEF CalmOK
    <3>4. handler'[<<d, 2>>] = handler[<<d, 2>>]
      BY <2>3 DEF Kept
    <3>5. CASE d # c
      BY <1>8, <1>9, <2>3, <3>2, <3>3, <3>5 DEF CallOK, Kept
    <3>6. CASE d = c
      BY <1>7, <1>8, <1>9, <2>3, <2>4, <3>2, <3>3, <3>4, <3>6 DEF CallOK
    <3> QED
      BY <3>5, <3>6
  <2>8. \A d \in Callers : UnsavedOK(d)'
    <3>1. SUFFICES ASSUME NEW d \in Callers PROVE UnsavedOK(d)'
      OBVIOUS
    <3>2. \A e \in Callers : UnsavedOK(e)
      BY <2>1 DEF CalmOK
    <3>3. \A e \in Callers : Unsaved(e) # n
      BY <1>6, <3>2 DEF UnsavedOK
    <3>4. CASE d # c
      <4>1. Unsaved(d)' = Unsaved(d) /\ UnsavedOK(d)
        BY <2>5, <3>2, <3>4
      <4>2. Unsaved(d) # 0 => Unsaved(d) <= n
        <5>1. Unsaved(d) \in Nat
          BY <1>1, TokenOf
        <5> QED
          BY <1>6, <4>1, <5>1 DEF UnsavedOK
      <4>3. \A e \in Callers : e # d => (Unsaved(d) # 0 => Unsaved(e)' # Unsaved(d))
        BY <2>5, <3>3, <4>1 DEF UnsavedOK
      <4> QED
        BY <1>8, <1>9, <4>1, <4>2, <4>3 DEF UnsavedOK
    <3>5. CASE d = c
      <4>1. n # memory /\ n \notin logouts \cup leaving /\ ~revoked[n]
        BY <1>1, <1>6, <2>1 DEF CalmOK, IssuedOnly, AuthTypeOK
      <4>2. \A e \in Callers : client[e].pc # "idle" => client[e].token # n
        BY <1>6, <2>6
      <4>3. \A e \in Callers : e # d => Unsaved(e)' # n
        BY <2>5, <3>3, <3>5
      <4> QED
        BY <1>6, <1>8, <1>9, <2>5, <3>5, <4>1, <4>2, <4>3 DEF UnsavedOK
    <3> QED
      BY <3>4, <3>5
  <2>9. \A d \in Callers : \A m : Replacing(d, m) => Replacing(d, m)'
    <3>1. \A m : Replacing(c, m) => Replacing(c, m)'
      BY <1>6, <1>7, <1>9, <2>3, <2>4 DEF Replacing
    <3> QED
      BY <2>3, <3>1, CallKept
  <2>10. MemoryOK'
    BY <1>9, <2>1, <2>9 DEF CalmOK, MemoryOK
  <2>11. IssuedOnly' /\ BootOK'
    BY <1>1, <1>6, <1>8, <1>9, <2>1 DEF CalmOK, IssuedOnly, BootOK, AuthTypeOK, Tokens
  <2> QED
    BY <2>7, <2>8, <2>10, <2>11 DEF CalmOK
<1> QED
  BY <1>10, <1>11 DEF AuthInv

\* The pair in memory when a step touches none of the tables it is checked
\* against, and every call that is replacing it goes on doing so.
LEMMA MemoryKept ==
    ASSUME MemoryOK, UNCHANGED <<memory, leaving, logouts, revoked>>,
           \A d \in Callers : \A m : Replacing(d, m) => Replacing(d, m)'
    PROVE  MemoryOK'
BY DEF MemoryOK

LEMMA DropReplyOK ==
    ASSUME AuthInv, NEW c \in Callers, NEW k \in Urls, DropReply(c, k)
    PROVE  AuthInv'
<1>1. AuthTypeOK /\ CallsHoldTokens
  BY DEF AuthInv
<1>2. handler' = [handler EXCEPT ![<<c, k>>] = Idle]
  BY DEF DropReply
<1>3. /\ UNCHANGED <<issued, revoked, expired, logouts, leaving, memory, stored, active>>
      /\ UNCHANGED <<bootDue, booting, client, failures, restarts>>
  BY DEF DropReply, app, limits
<1>4. Idle.pc = "idle"
  BY DEF Idle
<1>5. AuthTypeOK' /\ CallsHoldTokens'
  BY <1>1, <1>2, <1>3, <1>4, HandlerSet DEF AuthTypeOK, CallsHoldTokens
<1>6. ASSUME Calm' PROVE FALSE
  <2>1. CallOK(c)
    BY <1>3, <1>6 DEF AuthInv, Calm, CalmOK
  <2>2. handler[<<c, k>>].pc = "reply" /\ ~(client[c].pc = "wait" /\ client[c].try = k)
    BY DEF DropReply
  <2> QED
    BY <2>1, <2>2 DEF CallOK, Urls
<1> QED
  BY <1>5, <1>6 DEF AuthInv

LEMMA HubLogoutOK ==
    ASSUME AuthInv, NEW n \in Tokens, HubLogout(n)
    PROVE  AuthInv'
<1>1. AuthTypeOK /\ CallsHoldTokens
  BY DEF AuthInv
<1>2. /\ n \in logouts /\ logouts' = logouts \ {n}
      /\ revoked' = [revoked EXCEPT ![n] = TRUE]
      /\ UNCHANGED <<issued, expired, handler, leaving, memory, stored, active>>
      /\ UNCHANGED <<bootDue, booting, client, failures, restarts>>
  BY DEF HubLogout, app, limits
<1>3. /\ revoked' \in [Tokens -> BOOLEAN]
      /\ \A m : m # n => revoked'[m] = revoked[m]
  BY <1>1, <1>2 DEF AuthTypeOK
<1>4. AuthTypeOK' /\ CallsHoldTokens'
  BY <1>1, <1>2, <1>3 DEF AuthTypeOK, CallsHoldTokens
<1>5. ASSUME Calm' PROVE CalmOK'
  <2>1. CalmOK
    BY <1>2, <1>5 DEF AuthInv, Calm
  <2>2. \A d \in Callers : Kept(d)
    BY <1>2 DEF Kept
  <2>3. \A d \in Callers : CallOK(d)' /\ Unsaved(d)' = Unsaved(d)
    BY <1>2, <2>1, <2>2, CallKept DEF CalmOK
  <2>4. \A d \in Callers : UnsavedOK(d)'
    BY <1>2, <1>3, <2>1, <2>3 DEF CalmOK, UnsavedOK
  <2>5. MemoryOK'
    <3>1. memory # 0 => memory # n
      BY <1>2, <2>1 DEF CalmOK, MemoryOK
    <3>2. \A d \in Callers : \A m : Replacing(d, m) => Replacing(d, m)'
      BY <2>2, CallKept
    <3> QED
      BY <1>2, <1>3, <2>1, <3>1, <3>2 DEF CalmOK, MemoryOK
  <2>6. IssuedOnly' /\ BootOK'
    BY <1>2, <1>3, <2>1 DEF CalmOK, IssuedOnly, BootOK
  <2> QED
    BY <2>3, <2>4, <2>5, <2>6 DEF CalmOK
<1> QED
  BY <1>4, <1>5 DEF AuthInv

\* Steps that leave the tables of tokens, the calls and the handlers alone.
LEMMA QuietOK ==
    ASSUME AuthInv, AuthTypeOK',
           UNCHANGED <<issued, revoked, handler, logouts, leaving, memory, stored>>,
           UNCHANGED <<bootDue, booting, client, failures, restarts>>
    PROVE  AuthInv'
<1>1. CallsHoldTokens'
  BY DEF AuthInv, CallsHoldTokens
<1>2. ASSUME Calm' PROVE CalmOK'
  <2>1. CalmOK
    BY <1>2 DEF AuthInv, Calm
  <2>2. \A d \in Callers : Kept(d)
    BY DEF Kept
  <2>3. \A d \in Callers : CallOK(d)' /\ Unsaved(d)' = Unsaved(d)
    BY <2>1, <2>2, CallKept DEF CalmOK
  <2>4. \A d \in Callers : UnsavedOK(d)'
    BY <2>1, <2>3 DEF CalmOK, UnsavedOK
  <2>5. MemoryOK'
    BY <2>1, <2>2, CallKept, MemoryKept DEF CalmOK
  <2>6. IssuedOnly' /\ BootOK'
    BY <2>1 DEF CalmOK, IssuedOnly, BootOK
  <2> QED
    BY <2>3, <2>4, <2>5, <2>6 DEF CalmOK
<1> QED
  BY <1>1, <1>2 DEF AuthInv

LEMMA ExpireAccessOK ==
    ASSUME AuthInv, ExpireAccess
    PROVE  AuthInv'
<1>1. AuthTypeOK /\ memory # 0 /\ expired' = expired \cup {memory}
  BY DEF AuthInv, ExpireAccess
<1>2. /\ UNCHANGED <<issued, revoked, handler, logouts, leaving, memory, stored, active>>
      /\ UNCHANGED <<bootDue, booting, client, failures, restarts>>
  BY DEF ExpireAccess, app, limits
<1>3. memory \in Tokens
  BY <1>1, AuthAssumption DEF AuthTypeOK, Tokens
<1>4. AuthTypeOK'
  BY <1>1, <1>2, <1>3 DEF AuthTypeOK
<1> QED
  BY <1>2, <1>4, QuietOK

-----------------------------------------------------------------------------
(* The steps of the app.                                                   *)

\* What a call begins with.
LEMMA RefreshingIs ==
    ASSUME NEW n \in 0 .. MaxTokens, NEW b \in Urls
    PROVE  /\ Refreshing(n, b) \in Client
           /\ Refreshing(n, b).pc = "fetch"
           /\ Refreshing(n, b).token = n
           /\ Refreshing(n, b).try = 1
           /\ Refreshing(n, b).new = 0
BY AuthAssumption DEF Refreshing, Client, Urls

\* The switch of the base URL; there is none after a first try.
LEMMA SwitchUrlIs ==
    ASSUME AuthTypeOK, NEW b \in Urls, NEW k \in Urls, SwitchUrl(b, k)
    PROVE  /\ active' \in Urls /\ bootDue' \in BOOLEAN
           /\ k = 1 => UNCHANGED bootDue
<1>1. CASE k = 1
  BY <1>1 DEF SwitchUrl, AuthTypeOK
<1>2. CASE k = 2
  <2>1. active' = 3 - b /\ bootDue' \in BOOLEAN
    BY <1>2 DEF SwitchUrl
  <2>2. 3 - b \in Urls
    BY DEF Urls
  <2> QED
    BY <1>2, <2>1, <2>2
<1> QED
  BY <1>1, <1>2 DEF Urls

LEMMA requestOK ==
    ASSUME AuthInv, NEW c \in Requests, request(c)
    PROVE  AuthInv'
<1>1. AuthTypeOK /\ CallsHoldTokens /\ c \in Callers /\ c \notin Boots
  BY AuthAssumption DEF AuthInv, Callers
<1>2. /\ memory # 0 /\ client[c] = Idle
      /\ handler[<<c, 1>>] = Idle /\ handler[<<c, 2>>] = Idle
  BY DEF request, Urls
<1>3. PICK x : x = Refreshing(memory, active)
  OBVIOUS
<1>4. PICK y : y = [x EXCEPT !.pc = "ask"]
  OBVIOUS
<1>5. x \in Client /\ x.token = memory /\ x.try = 1 /\ x.new = 0
  BY <1>1, <1>3, RefreshingIs DEF AuthTypeOK
<1>6. y \in Client /\ y.pc = "ask" /\ y.token = memory /\ y.try = 1 /\ y.new = 0
  BY <1>4, <1>5, ClientMoves DEF Asking
<1>7. client' = [client EXCEPT ![c] = y]
  BY <1>3, <1>4 DEF request, SetClient
<1>8. /\ UNCHANGED <<issued, revoked, expired, handler, logouts, leaving, memory, stored, active>>
      /\ UNCHANGED <<bootDue, booting, failures, restarts>>
  BY DEF request, hub, limits
<1>9. /\ client'[c] = y /\ \A d \in Callers : d # c => client'[d] = client[d]
      /\ AuthTypeOK' /\ CallsHoldTokens'
  BY <1>1, <1>2, <1>6, <1>7, <1>8, ClientSet DEF AuthTypeOK, CallsHoldTokens
<1>10. ASSUME Calm' PROVE CalmOK'
  <2>1. CalmOK
    BY <1>8, <1>10 DEF AuthInv, Calm
  <2>2. \A d \in Callers : d # c => Kept(d)
    BY <1>8, <1>9 DEF Kept
  <2>3. client[c].pc = "idle" /\ handler[<<c, 1>>].pc = "idle" /\ handler[<<c, 2>>].pc = "idle"
    BY <1>2 DEF Idle
  <2>4. \A d \in Callers : Unsaved(d)' = Unsaved(d)
    <3>1. Unsaved(c)' = Unsaved(c)
      BY <1>6, <1>8, <1>9, <2>3 DEF Unsaved
    <3> QED
      BY <2>2, <3>1, CallKept
  <2>5. \A d \in Callers : CallOK(d)'
    <3>1. CallOK(c)'
      BY <1>6, <1>8, <1>9, <2>1, <2>3 DEF CalmOK, IssuedOnly, CallOK
    <3> QED
      BY <1>8, <2>1, <2>2, <3>1, CallKept DEF CalmOK
  <2>6. \A d \in Callers : UnsavedOK(d)'
    <3>1. SUFFICES ASSUME NEW d \in Callers PROVE UnsavedOK(d)'
      OBVIOUS
    <3>2. UnsavedOK(d)
      BY <2>1 DEF CalmOK
    <3>3. Unsaved(d) # 0 =>
             \A e \in Callers : client'[e].pc # "idle" => client'[e].token # Unsaved(d)
      BY <1>6, <1>9, <3>2 DEF UnsavedOK
    <3> QED
      BY <1>8, <2>4, <3>2, <3>3 DEF UnsavedOK
  <2>7. MemoryOK'
    <3>1. \A m : Replacing(c, m) => Replacing(c, m)'
      BY <2>3 DEF Replacing
    <3>2. MemoryOK
      BY <2>1 DEF CalmOK
    <3> QED
      BY <1>8, <2>2, <3>1, <3>2, CallKept, MemoryKept
  <2>8. IssuedOnly'
    BY <1>8, <2>1 DEF CalmOK, IssuedOnly
  <2>9. BootOK'
    BY <1>1, <1>2, <1>8, <1>9, <2>1 DEF CalmOK, BootOK, Callers
  <2> QED
    BY <2>5, <2>6, <2>7, <2>8, <2>9 DEF CalmOK
<1> QED
  BY <1>9, <1>10 DEF AuthInv

LEMMA loginOK ==
    ASSUME AuthInv, NEW c \in Requests, login(c)
    PROVE  AuthInv'
<1>1. AuthTypeOK /\ CallsHoldTokens /\ c \in Callers /\ c \notin Boots
  BY AuthAssumption DEF AuthInv, Callers
<1>2. /\ memory = 0 /\ ~booting /\ client[c] = Idle
      /\ handler[<<c, 1>>] = Idle /\ handler[<<c, 2>>] = Idle
  BY DEF login, Urls
<1>3. PICK n : n = issued + 1
  OBVIOUS
<1>4. issued \in Nat /\ n \in 0 .. MaxTokens /\ n # 0 /\ n > issued /\ n \in Tokens
  BY <1>1, <1>3, AuthAssumption DEF login, issueTokenPair, AuthTypeOK, Tokens
<1>5. PICK x : x = Refreshing(0, active)
  OBVIOUS
<1>6. PICK y : y = [x EXCEPT !.pc = "save", !.new = n]
  OBVIOUS
<1>7. x \in Client /\ x.token = 0 /\ x.try = 1
  BY <1>1, <1>5, RefreshingIs, AuthAssumption DEF AuthTypeOK
<1>8. y \in Client /\ y.pc = "save" /\ y.token = 0 /\ y.try = 1 /\ y.new = n
  BY <1>4, <1>6, <1>7, ClientReceives
<1>9. client' = [client EXCEPT ![c] = y] /\ issued' = n
  BY <1>3, <1>5, <1>6 DEF login, issueTokenPair, SetClient
<1>10. /\ UNCHANGED <<revoked, expired, handler, logouts, leaving, memory, stored, active>>
       /\ UNCHANGED <<bootDue, booting, failures, restarts>>
  BY DEF login, limits
<1>11. /\ client'[c] = y /\ \A d \in Callers : d # c => client'[d] = client[d]
       /\ AuthTypeOK' /\ CallsHoldTokens'
  BY <1>1, <1>4, <1>8, <1>9, <1>10, ClientSet DEF AuthTypeOK, CallsHoldTokens
<1>12. ASSUME Calm' PROVE CalmOK'
  <2>1. CalmOK
    BY <1>10, <1>12 DEF AuthInv, Calm
  <2>2. \A d \in Callers : d # c => Kept(d)
    BY <1>10, <1>11 DEF Kept
  <2>3. client[c].pc = "idle" /\ handler[<<c, 1>>].pc = "idle" /\ handler[<<c, 2>>].pc = "idle"
    BY <1>2 DEF Idle
  <2>4. Unsaved(c)' = n /\ \A d \in Callers : d # c => Unsaved(d)' = Unsaved(d)
    BY <1>8, <1>11, <2>2, CallKept DEF Unsaved
  <2>5. \A d \in Callers : client[d].pc # "idle" =>
           client[d].token \in Nat /\ client[d].token <= issued
    BY <1>1, <2>1, TokenOf DEF CalmOK, CallOK
  <2>6. \A d \in Callers : CallOK(d)'
    <3>1. SUFFICES ASSUME NEW d \in Callers PROVE CallOK(d)'
      OBVIOUS
    <3>2. CallOK(d)
      BY <2>1 DEF CalmOK
    <3>3. CASE d # c
      <4>1. client[d].pc # "idle" => client[d].token <= n
        BY <1>4, <2>5
      <4> QED
        BY <1>9, <1>10, <2>2, <3>2, <3>3, <4>1 DEF CallOK, Kept
    <3>4. CASE d = c
      <4>1. y.token <= n
        BY <1>4, <1>8
      <4> QED
        BY <1>8, <1>9, <1>10, <1>11, <2>3, <3>4, <4>1 DEF CallOK
    <3> QED
      BY <3>3, <3>4
  <2>7. \A d \in Callers : UnsavedOK(d)'
    <3>1. SUFFICES ASSUME NEW d \in Callers PROVE UnsavedOK(d)'
      OBVIOUS
    <3>2. \A e \in Callers : UnsavedOK(e)
      BY <2>1 DEF CalmOK
    <3>3. \A e \in Callers : Unsaved(e) # n
      BY <1>4, <3>2 DEF UnsavedOK
    <3>4. CASE d # c
      <4>1. Unsaved(d)' = Unsaved(d) /\ UnsavedOK(d) /\ Unsaved(d) \in Nat
        BY <1>1, <2>4, <3>2, <3>4, TokenOf
      <4>2. Unsaved(d) # 0 => Unsaved(d) <= n
        BY <1>4, <4>1 DEF UnsavedOK
      <4>3. \A e \in Callers : e # d => (Unsaved(d) # 0 => Unsaved(e)' # Unsaved(d))
        BY <2>4, <3>3, <4>1 DEF UnsavedOK
      <4>4. Unsaved(d) # 0 =>
               \A e \in Callers : client'[e].pc # "idle" => client'[e].token # Unsaved(d)
        BY <1>8, <1>11, <4>1 DEF UnsavedOK
      <4> QED
        BY <1>9, <1>10, <4>1, <4>2, <4>3, <4>4 DEF UnsavedOK
    <3>5. CASE d = c
      <4>1. n # memory /\ n \notin logouts \cup leaving /\ ~revoked[n]
        BY <1>1, <1>4, <2>1 DEF CalmOK, IssuedOnly, AuthTypeOK
      <4>2. \A e \in Callers : client'[e].pc # "idle" => client'[e].token # n
        BY <1>4, <1>8, <1>11, <2>5
      <4>3. \A e \in Callers : e # d => Unsaved(e)' # n
        BY <2>4, <3>3, <3>5
      <4> QED
        BY <1>4, <1>9, <1>10, <2>4, <3>5, <4>1, <4>2, <4>3 DEF UnsavedOK
    <3> QED
      BY <3>4, <3>5
  <2>8. MemoryOK' /\ IssuedOnly'
    BY <1>1, <1>2, <1>4, <1>9, <1>10, <2>1
    DEF CalmOK, MemoryOK, IssuedOnly, AuthTypeOK, Tokens
  <2>9. BootOK'
    BY <1>1, <1>2, <1>10, <1>11, <2>1 DEF CalmOK, BootOK, Callers
  <2> QED
    BY <2>6, <2>7, <2>8, <2>9 DEF CalmOK
<1> QED
  BY <1>11, <1>12 DEF AuthInv

\* A call that is in flight: in a calm run it is no boot, and nobody boots.
LEMMA InFlightIs ==
    ASSUME CalmOK, NEW c \in Callers, client[c].pc # "idle"
    PROVE  c \notin Boots /\ ~booting /\ ~bootDue
BY DEF CalmOK, BootOK

LEMMA AskOK ==
    ASSUME AuthInv, NEW c \in Callers, NEW try \in Urls, Ask(c, try)
    PROVE  AuthInv'
<1>1. AuthTypeOK /\ CallsHoldTokens
  BY DEF AuthInv
<1>2. PICK x : x = client[c]
  OBVIOUS
<1>3. x \in Client /\ x.pc = "ask" /\ x.token # 0 /\ x.base \in Urls
  BY <1>1, <1>2, ClientOf DEF Ask, Asking, CallsHoldTokens, Client
<1>4. PICK y : y = IF x.token \in expired THEN [x EXCEPT !.pc = "fetch"] ELSE Idle
  OBVIOUS
<1>5. \/ y \in Client /\ y.pc = "fetch" /\ y.token = x.token /\ y.try = x.try
      \/ y = Idle /\ y.pc = "idle"
  BY <1>3, <1>4, ClientMoves DEF Asking, Idle
<1>6. /\ client' = [client EXCEPT ![c] = y]
      /\ SwitchUrl(x.base, try)
      /\ IF try = 1 THEN failures' = failures
                    ELSE failures < MaxFailures /\ failures' = failures + 1
  BY <1>2, <1>4 DEF Ask, SetClient, Failure
<1>7. /\ UNCHANGED <<issued, revoked, expired, handler, logouts, leaving, memory, stored>>
      /\ UNCHANGED <<booting, restarts>>
  BY DEF Ask, hub
<1>8. active' \in Urls /\ bootDue' \in BOOLEAN /\ (try = 1 => bootDue' = bootDue)
  BY <1>1, <1>3, <1>6, SwitchUrlIs
<1>9. failures' \in 0 .. MaxFailures /\ (failures' = 0 => try = 1 /\ failures = 0)
  BY <1>1, <1>6, AuthAssumption DEF AuthTypeOK
<1>10. /\ client'[c] = y /\ \A d \in Callers : d # c => client'[d] = client[d]
       /\ client' \in [Callers -> {Idle} \cup Client]
       /\ CallsHoldTokens'
  BY <1>1, <1>3, <1>5, <1>6, <1>7, ClientSet DEF CallsHoldTokens
<1>11. AuthTypeOK'
  BY <1>1, <1>7, <1>8, <1>9, <1>10 DEF AuthTypeOK
<1>12. ASSUME Calm' PROVE CalmOK'
  <2>1. CalmOK /\ bootDue' = bootDue
    BY <1>7, <1>8, <1>9, <1>12 DEF AuthInv, Calm
  <2>2. \A d \in Callers : d # c => Kept(d)
    BY <1>7, <1>10 DEF Kept
  <2>3. CallOK(c) /\ handler[<<c, 1>>].pc = "idle"
    BY <1>2, <1>3, <2>1 DEF CalmOK, CallOK
  <2>4. \A d \in Callers : Unsaved(d)' = Unsaved(d)
    <3>1. Unsaved(c)' = Unsaved(c)
      BY <1>2, <1>3, <1>5, <1>7, <1>10, <2>3 DEF Unsaved
    <3> QED
      BY <2>2, <3>1, CallKept
  <2>5. \A d \in Callers : CallOK(d)'
    <3>1. CallOK(c)'
      BY <1>2, <1>3, <1>5, <1>7, <1>10, <2>3 DEF CallOK
    <3> QED
      BY <1>7, <2>1, <2>2, <3>1, CallKept DEF CalmOK
  <2>6. \A d \in Callers : UnsavedOK(d)'
    <3>1. SUFFICES ASSUME NEW d \in Callers PROVE UnsavedOK(d)'
      OBVIOUS
    <3>2. UnsavedOK(d)
      BY <2>1 DEF CalmOK
    <3>3. Unsaved(d) # 0 =>
             \A e \in Callers : client'[e].pc # "idle" => client'[e].token # Unsaved(d)
      BY <1>2, <1>3, <1>5, <1>10, <3>2 DEF UnsavedOK
    <3> QED
      BY <1>7, <2>4, <3>2, <3>3 DEF UnsavedOK
  <2>7. MemoryOK'
    <3>1. \A m : Replacing(c, m) => Replacing(c, m)'
      BY <1>2, <1>3 DEF Replacing
    <3>2. MemoryOK
      BY <2>1 DEF CalmOK
    <3> QED
      BY <1>7, <2>2, <3>1, <3>2, CallKept, MemoryKept
  <2>8. IssuedOnly'
    BY <1>7, <2>1 DEF CalmOK, IssuedOnly
  <2>9. BootOK'
    BY <1>2, <1>3, <1>7, <1>10, <2>1, InFlightIs DEF CalmOK, BootOK, Callers
  <2> QED
    BY <2>5, <2>6, <2>7, <2>8, <2>9 DEF CalmOK
<1> QED
  BY <1>10, <1>11, <1>12 DEF AuthInv

LEMMA fetchHubOK ==
    ASSUME AuthInv, NEW c \in Callers, fetchHub(c)
    PROVE  AuthInv'
<1>1. AuthTypeOK /\ CallsHoldTokens
  BY DEF AuthInv
<1>2. PICK x : x = client[c]
  OBVIOUS
<1>3. x \in Client /\ x.pc = "fetch" /\ x.token # 0
  BY <1>1, <1>2, ClientOf DEF fetchHub, Asking, CallsHoldTokens
<1>4. x.token \in Tokens /\ x.try \in Urls
  BY <1>3, AuthAssumption DEF Client, Tokens
<1>5. PICK y : y = [x EXCEPT !.pc = "wait"]
  OBVIOUS
<1>6. y \in Client /\ y.pc = "wait" /\ y.token = x.token /\ y.try = x.try
  BY <1>3, <1>5, ClientMoves DEF Asking
<1>7. PICK h : h = [pc |-> "find", token |-> x.token, new |-> 0]
  OBVIOUS
<1>8. h \in Handler /\ h.pc = "find" /\ h.token = x.token /\ h.new = 0
  BY <1>4, <1>7, AuthAssumption DEF Handler
<1>9. /\ client' = [client EXCEPT ![c] = y]
      /\ handler' = [handler EXCEPT ![<<c, x.try>>] = h]
  BY <1>2, <1>5, <1>7 DEF fetchHub, SetClient
<1>10. /\ UNCHANGED <<issued, revoked, expired, logouts, leaving, memory, stored, active>>
       /\ UNCHANGED <<bootDue, booting, failures, restarts>>
  BY DEF fetchHub, limits
<1>11. /\ client'[c] = y /\ \A d \in Callers : d # c => client'[d] = client[d]
       /\ client' \in [Callers -> {Idle} \cup Client]
       /\ \A d \in Callers :
             client'[d].pc \in {"ask", "fetch", "wait"} => client'[d].token # 0
  BY <1>1, <1>3, <1>6, <1>9, ClientSet
<1>12. /\ handler' \in [Callers \X Urls -> {Idle} \cup Handler]
       /\ \A g \in Callers \X Urls :
             handler'[g].pc \in {"find", "revoke", "issue"} => handler'[g].new = 0
  BY <1>1, <1>4, <1>8, <1>9, HandlerSet
<1>13. AuthTypeOK' /\ CallsHoldTokens'
  BY <1>1, <1>10, <1>11, <1>12 DEF AuthTypeOK, CallsHoldTokens
<1>14. ASSUME Calm' PROVE CalmOK'
  <2>1. CalmOK
    BY <1>10, <1>14 DEF AuthInv, Calm
  <2>2. CallOK(c) /\ x.try = 1 /\ handler[<<c, 1>>].pc = "idle"
    BY <1>2, <1>3, <2>1 DEF CalmOK, CallOK
  <2>3. /\ handler'[<<c, 1>>] = h /\ handler'[<<c, 2>>] = handler[<<c, 2>>]
        /\ \A d \in Callers : d # c => Kept(d)
    BY <1>1, <1>4, <1>8, <1>9, <1>11, <2>2, HandlerSet DEF Kept
  <2>4. \A d \in Callers : Unsaved(d)' = Unsaved(d)
    <3>1. Unsaved(c)' = Unsaved(c)
      BY <1>2, <1>3, <1>6, <1>8, <1>11, <2>2, <2>3 DEF Unsaved
    <3> QED
      BY <2>3, <3>1, CallKept
  <2>5. \A d \in Callers : CallOK(d)'
    <3>1. CallOK(c)'
      BY <1>2, <1>3, <1>6, <1>8, <1>10, <1>11, <2>2, <2>3 DEF CallOK
    <3> QED
      BY <1>10, <2>1, <2>3, <3>1, CallKept DEF CalmOK
  <2>6. \A d \in Callers : UnsavedOK(d)'
    <3>1. SUFFICES ASSUME NEW d \in Callers PROVE UnsavedOK(d)'
      OBVIOUS
    <3>2. UnsavedOK(d)
      BY <2>1 DEF CalmOK
    <3>3. Unsaved(d) # 0 =>
             \A e \in Callers : client'[e].pc # "idle" => client'[e].token # Unsaved(d)
      BY <1>2, <1>3, <1>6, <1>11, <3>2 DEF UnsavedOK
    <3> QED
      BY <1>10, <2>4, <3>2, <3>3 DEF UnsavedOK
  <2>7. MemoryOK'
    <3>1. \A m : Replacing(c, m) => Replacing(c, m)'
      BY <1>2, <1>3 DEF Replacing
    <3>2. MemoryOK
      BY <2>1 DEF CalmOK
    <3> QED
      BY <1>10, <2>3, <3>1, <3>2, CallKept, MemoryKept
  <2>8. IssuedOnly'
    BY <1>10, <2>1 DEF CalmOK, IssuedOnly
  <2>9. BootOK'
    BY <1>2, <1>3, <1>10, <1>11, <2>1, InFlightIs DEF CalmOK, BootOK, Callers
  <2> QED
    BY <2>5, <2>6, <2>7, <2>8, <2>9 DEF CalmOK
<1> QED
  BY <1>13, <1>14 DEF AuthInv

LEMMA FetchFailsOK ==
    ASSUME AuthInv, NEW c \in Callers, FetchFails(c)
    PROVE  AuthInv'
<1>1. AuthTypeOK /\ CallsHoldTokens
  BY DEF AuthInv
<1>2. PICK x : x = client[c]
  OBVIOUS
<1>3. x \in Client /\ x.token # 0
  BY <1>1, <1>2, ClientOf DEF FetchFails, Asking, CallsHoldTokens
<1>4. PICK y : y = [x EXCEPT !.pc = "fetch", !.try = 2]
  OBVIOUS
<1>5. y \in Client /\ y.token # 0
  BY <1>3, <1>4, ClientRetries
<1>6. PICK z : z = IF c \in Boots THEN [x EXCEPT !.pc = "forget"] ELSE Idle
  OBVIOUS
<1>7. (z \in Client /\ z.pc = "forget") \/ (z = Idle /\ z.pc = "idle")
  BY <1>3, <1>6, ClientMoves DEF Asking, Idle
<1>8. /\ \/ client' = [client EXCEPT ![c] = y]
         \/ client' = [client EXCEPT ![c] = z]
      /\ UNCHANGED <<issued, revoked, expired, handler, logouts, leaving, memory, stored>>
      /\ UNCHANGED <<active, bootDue, booting, restarts>>
      /\ failures < MaxFailures /\ failures' = failures + 1
  BY <1>2, <1>4, <1>6 DEF FetchFails, GiveUp, SetClient, hub, Failure
<1>9. client' \in [Callers -> {Idle} \cup Client] /\ CallsHoldTokens'
  BY <1>1, <1>5, <1>7, <1>8, ClientSet DEF CallsHoldTokens
<1>10. failures' \in 0 .. MaxFailures /\ failures' # 0
  BY <1>1, <1>8, AuthAssumption DEF AuthTypeOK
<1>11. AuthTypeOK'
  BY <1>1, <1>8, <1>9, <1>10 DEF AuthTypeOK
<1> QED
  BY <1>9, <1>10, <1>11 DEF AuthInv, Calm

LEMMA ReceiveOK ==
    ASSUME AuthInv, NEW c \in Callers, Receive(c)
    PROVE  AuthInv'
<1>1. AuthTypeOK /\ CallsHoldTokens
  BY DEF AuthInv
<1>2. PICK x : x = client[c]
  OBVIOUS
<1>3. x \in Client /\ x.pc = "wait" /\ x.token # 0
  BY <1>1, <1>2, ClientOf DEF Receive, Asking, CallsHoldTokens
<1>4. x.try \in Urls /\ x.base \in Urls
  BY <1>3 DEF Client
<1>5. PICK h : h = handler[<<c, x.try>>]
  OBVIOUS
<1>6. h \in Handler /\ h.pc = "reply"
  BY <1>1, <1>2, <1>4, <1>5, HandlerOf DEF Receive, Handling
<1>7. PICK n : n = h.new
  OBVIOUS
<1>8. n \in 0 .. MaxTokens
  BY <1>6, <1>7 DEF Handler
<1>9. PICK y : y = IF n # 0 THEN [x EXCEPT !.pc = "save", !.new = n]
               ELSE IF c \in Boots THEN [x EXCEPT !.pc = "forget"] ELSE Idle
  OBVIOUS
<1>10. Idle.pc = "idle"
  BY DEF Idle
<1>11. \/ n = 0 /\ c \notin Boots /\ y = Idle /\ y.pc = "idle"
       \/ n = 0 /\ c \in Boots /\ y \in Client /\ y.pc = "forget"
       \/ /\ n # 0 /\ y \in Client /\ y.pc = "save" /\ y.token = x.token
          /\ y.try = x.try /\ y.new = n
  <2>1. [x EXCEPT !.pc = "forget"] \in Client /\ [x EXCEPT !.pc = "forget"].pc = "forget"
    BY <1>3, ClientMoves DEF Asking
  <2>2. CASE n = 0
    BY <1>9, <1>10, <2>1, <2>2
  <2>3. CASE n # 0
    <3>1. y = [x EXCEPT !.pc = "save", !.new = n]
      BY <1>9, <2>3
    <3> QED
      BY <1>3, <1>8, <2>3, <3>1, ClientReceives
  <2> QED
    BY <2>2, <2>3
<1>12. /\ client' = [client EXCEPT ![c] = y]
       /\ handler' = [handler EXCEPT ![<<c, x.try>>] = Idle]
       /\ SwitchUrl(x.base, x.try)
  BY <1>2, <1>5, <1>7, <1>9 DEF Receive, GiveUp, SetClient
<1>13. /\ UNCHANGED <<issued, revoked, expired, logouts, leaving, memory, stored>>
       /\ UNCHANGED <<booting, failures, restarts>>
  BY DEF Receive, limits
<1>14. /\ client'[c] = y /\ \A d \in Callers : d # c => client'[d] = client[d]
       /\ client' \in [Callers -> {Idle} \cup Client]
       /\ \A d \in Callers :
             client'[d].pc \in {"ask", "fetch", "wait"} => client'[d].token # 0
  BY <1>1, <1>11, <1>12, ClientSet
<1>15. /\ handler' \in [Callers \X Urls -> {Idle} \cup Handler]
       /\ \A g \in Callers \X Urls :
             handler'[g].pc \in {"find", "revoke", "issue"} => handler'[g].new = 0
  BY <1>1, <1>4, <1>10, <1>12, HandlerSet
<1>16. active' \in Urls /\ bootDue' \in BOOLEAN /\ (x.try = 1 => bootDue' = bootDue)
  BY <1>1, <1>4, <1>12, SwitchUrlIs
<1>19. AuthTypeOK' /\ CallsHoldTokens'
  BY <1>1, <1>13, <1>14, <1>15, <1>16 DEF AuthTypeOK, CallsHoldTokens
<1>20. ASSUME Calm' PROVE CalmOK'
  <2>1. CalmOK
    BY <1>13, <1>20 DEF AuthInv, Calm
  <2>2. CallOK(c) /\ x.try = 1
    BY <1>2, <1>3, <2>1 DEF CalmOK, CallOK
  <2>3. c \notin Boots /\ ~booting /\ ~bootDue
    BY <1>2, <1>3, <2>1, InFlightIs
  <2>4. ~booting' /\ ~bootDue'
    BY <1>13, <1>16, <2>2, <2>3
  <2>5. /\ handler'[<<c, 1>>] = Idle /\ handler'[<<c, 2>>] = handler[<<c, 2>>]
        /\ \A d \in Callers : d # c => Kept(d)
    BY <1>1, <1>4, <1>10, <1>12, <1>14, <2>2, HandlerSet, ZenonT(60) DEF Kept
  <2>6. \A d \in Callers : Unsaved(d)' = Unsaved(d)
    <3>1. Unsaved(c) = n
      BY <1>2, <1>3, <1>5, <1>6, <1>7, <2>2 DEF Unsaved
    <3>2. Unsaved(c)' = n
      BY <1>10, <1>11, <1>14, <2>3, <2>5 DEF Unsaved
    <3> QED
      BY <2>5, <3>1, <3>2, CallKept
  <2>7. \A d \in Callers : CallOK(d)'
    <3>1. CallOK(c)'
      BY <1>2, <1>3, <1>10, <1>11, <1>13, <1>14, <2>2, <2>3, <2>5 DEF CallOK
    <3> QED
      BY <1>13, <2>1, <2>5, <3>1, CallKept DEF CalmOK
  <2>8. \A d \in Callers : UnsavedOK(d)'
    <3>1. SUFFICES ASSUME NEW d \in Callers PROVE UnsavedOK(d)'
      OBVIOUS
    <3>2. UnsavedOK(d)
      BY <2>1 DEF CalmOK
    <3>3. Unsaved(d) # 0 =>
             \A e \in Callers : client'[e].pc # "idle" => client'[e].token # Unsaved(d)
      BY <1>2, <1>3, <1>11, <1>14, <2>3, <3>2 DEF UnsavedOK
    <3> QED
      BY <1>13, <2>6, <3>2, <3>3 DEF UnsavedOK
  <2>9. MemoryOK'
    <3>1. \A m : Replacing(c, m) => Replacing(c, m)'
      BY <1>2, <1>3, <1>5, <1>6, <1>7, <1>11, <1>14, <2>2, <2>3 DEF Replacing
    <3>2. MemoryOK
      BY <2>1 DEF CalmOK
    <3> QED
      BY <1>13, <2>4, <2>5, <3>1, <3>2, CallKept, MemoryKept
  <2>10. IssuedOnly'
    BY <1>13, <2>1 DEF CalmOK, IssuedOnly
  <2>11. BootOK'
    BY <1>14, <2>1, <2>3, <2>4 DEF CalmOK, BootOK, Callers
  <2> QED
    BY <2>7, <2>8, <2>9, <2>10, <2>11 DEF CalmOK
<1> QED
  BY <1>19, <1>20 DEF AuthInv

LEMMA saveTokensOK ==
    ASSUME AuthInv, NEW c \in Callers, saveTokens(c)
    PROVE  AuthInv'
<1>1. AuthTypeOK /\ CallsHoldTokens
  BY DEF AuthInv
<1>2. PICK x : x = client[c]
  OBVIOUS
<1>3. x \in Client /\ x.pc = "save"
  BY <1>1, <1>2, ClientOf DEF saveTokens, Asking
<1>4. PICK n : n = x.new
  OBVIOUS
<1>5. n \in 0 .. MaxTokens
  BY <1>3, <1>4 DEF Client
<1>6. PICK y : y = [x EXCEPT !.pc = "store"]
  OBVIOUS
<1>7. y \in Client /\ y.pc = "store" /\ y.token = x.token /\ y.try = x.try
  BY <1>3, <1>6, ClientMoves DEF Asking
<1>8. client' = [client EXCEPT ![c] = y] /\ memory' = n
  BY <1>2, <1>4, <1>6 DEF saveTokens, SetClient
<1>9. /\ UNCHANGED <<issued, revoked, expired, handler, logouts, leaving, stored, active>>
      /\ UNCHANGED <<bootDue, booting, failures, restarts>>
  BY DEF saveTokens, hub, limits
<1>10. /\ client'[c] = y /\ \A d \in Callers : d # c => client'[d] = client[d]
       /\ client' \in [Callers -> {Idle} \cup Client] /\ CallsHoldTokens'
  BY <1>1, <1>7, <1>8, <1>9, ClientSet DEF CallsHoldTokens
<1>11. AuthTypeOK'
  BY <1>1, <1>5, <1>8, <1>9, <1>10 DEF AuthTypeOK
<1>12. ASSUME Calm' PROVE CalmOK'
  <2>1. CalmOK
    BY <1>9, <1>12 DEF AuthInv, Calm
  <2>2. \A d \in Callers : d # c => Kept(d)
    BY <1>9, <1>10 DEF Kept
  <2>3. CallOK(c) /\ handler[<<c, 1>>].pc = "idle" /\ handler[<<c, 2>>].pc = "idle"
    BY <1>2, <1>3, <2>1 DEF CalmOK, CallOK
  <2>4. c \notin Boots /\ ~booting /\ ~bootDue
    BY <1>2, <1>3, <2>1, InFlightIs
  <2>5. Unsaved(c) = n /\ UnsavedOK(c)
    BY <1>2, <1>3, <1>4, <2>1 DEF Unsaved, CalmOK
  <2>6. Unsaved(c)' = 0 /\ \A d \in Callers : d # c => Unsaved(d)' = Unsaved(d)
    BY <1>7, <1>9, <1>10, <2>2, <2>3, CallKept DEF Unsaved
  <2>7. \A d \in Callers : CallOK(d)'
    <3>1. CallOK(c)'
      BY <1>2, <1>3, <1>7, <1>9, <1>10, <2>3 DEF CallOK
    <3> QED
      BY <1>9, <2>1, <2>2, <3>1, CallKept DEF CalmOK
  <2>8. \A d \in Callers : UnsavedOK(d)'
    <3>1. SUFFICES ASSUME NEW d \in Callers, Unsaved(d)' # 0 PROVE UnsavedOK(d)'
      BY DEF UnsavedOK
    <3>2. UnsavedOK(d) /\ d # c /\ Unsaved(d)' = Unsaved(d)
      BY <2>1, <2>6, <3>1 DEF CalmOK
    <3>3. Unsaved(d) # n
      BY <2>5, <3>1, <3>2 DEF UnsavedOK
    <3>4. \A e \in Callers : client'[e].pc # "idle" => client'[e].token # Unsaved(d)
      BY <1>2, <1>3, <1>7, <1>10, <3>1, <3>2 DEF UnsavedOK
    <3>5. \A e \in Callers : e # d => Unsaved(e)' # Unsaved(d)
      BY <2>6, <3>1, <3>2 DEF UnsavedOK
    <3> QED
      BY <1>8, <1>9, <3>1, <3>2, <3>3, <3>4, <3>5 DEF UnsavedOK
  <2>9. MemoryOK'
    BY <1>8, <1>9, <2>5 DEF MemoryOK, UnsavedOK
  <2>10. n <= issued
    BY <1>1, <2>5 DEF UnsavedOK, AuthTypeOK
  <2>11. IssuedOnly'
    BY <1>8, <1>9, <2>1, <2>10 DEF CalmOK, IssuedOnly
  <2>12. BootOK'
    BY <1>9, <1>10, <2>1, <2>4 DEF CalmOK, BootOK, Callers
  <2> QED
    BY <2>7, <2>8, <2>9, <2>11, <2>12 DEF CalmOK
<1> QED
  BY <1>10, <1>11, <1>12 DEF AuthInv

\* A call ends after its write to AsyncStorage.
LEMMA CallEnds ==
    ASSUME AuthInv, NEW c \in Callers, client[c].pc \in {"store", "forget"},
           client' = [client EXCEPT ![c] = Idle],
           stored' \in 0 .. MaxTokens, booting' \in BOOLEAN, booting' => booting,
           UNCHANGED <<issued, revoked, expired, handler, logouts, leaving, memory, active>>,
           UNCHANGED <<bootDue, failures, restarts>>
    PROVE  AuthInv'
<1>1. AuthTypeOK /\ CallsHoldTokens
  BY DEF AuthInv
<1>2. Idle.pc = "idle"
  BY DEF Idle
<1>3. /\ client'[c] = Idle /\ \A d \in Callers : d # c => client'[d] = client[d]
      /\ client' \in [Callers -> {Idle} \cup Client] /\ CallsHoldTokens'
  BY <1>1, <1>2, ClientSet DEF CallsHoldTokens
<1>4. AuthTypeOK'
  BY <1>1, <1>3 DEF AuthTypeOK
<1>5. ASSUME Calm' PROVE CalmOK'
  <2>1. CalmOK
    BY <1>5 DEF AuthInv, Calm
  <2>2. \A d \in Callers : d # c => Kept(d)
    BY <1>3 DEF Kept
  <2>3. CallOK(c) /\ handler[<<c, 1>>].pc = "idle" /\ handler[<<c, 2>>].pc = "idle"
    BY <2>1 DEF CalmOK, CallOK
  <2>4. c \notin Boots /\ ~booting /\ ~bootDue
    BY <2>1, InFlightIs
  <2>5. \A d \in Callers : Unsaved(d)' = Unsaved(d)
    <3>1. Unsaved(c) = 0 /\ Unsaved(c)' = 0
      BY <1>2, <1>3, <2>3 DEF Unsaved
    <3> QED
      BY <2>2, <3>1, CallKept
  <2>6. \A d \in Callers : CallOK(d)'
    <3>1. CallOK(c)'
      BY <1>2, <1>3, <2>3 DEF CallOK
    <3> QED
      BY <2>1, <2>2, <3>1, CallKept DEF CalmOK
  <2>7. \A d \in Callers : UnsavedOK(d)'
    <3>1. SUFFICES ASSUME NEW d \in Callers PROVE UnsavedOK(d)'
      OBVIOUS
    <3>2. UnsavedOK(d)
      BY <2>1 DEF CalmOK
    <3>3. Unsaved(d) # 0 =>
             \A e \in Callers : client'[e].pc # "idle" => client'[e].token # Unsaved(d)
      BY <1>2, <1>3, <3>2 DEF UnsavedOK
    <3> QED
      BY <2>5, <3>2, <3>3 DEF UnsavedOK
  <2>8. MemoryOK'
    <3>1. \A m : Replacing(c, m) => Replacing(c, m)'
      BY DEF Replacing
    <3>2. MemoryOK
      BY <2>1 DEF CalmOK
    <3> QED
      BY <2>2, <3>1, <3>2, CallKept, MemoryKept
  <2>9. IssuedOnly'
    BY <2>1 DEF CalmOK, IssuedOnly
  <2>10. BootOK'
    BY <1>2, <1>3, <2>1, <2>4 DEF CalmOK, BootOK, Callers
  <2> QED
    BY <2>6, <2>7, <2>8, <2>9, <2>10 DEF CalmOK
<1> QED
  BY <1>3, <1>4, <1>5 DEF AuthInv

LEMMA StoreTokenOK ==
    ASSUME AuthInv, NEW c \in Callers, StoreToken(c)
    PROVE  AuthInv'
<1>1. AuthTypeOK
  BY DEF AuthInv
<1>2. client[c] \in Client /\ client[c].pc = "store"
  BY <1>1, ClientOf DEF StoreToken, Asking
<1>3. stored' \in 0 .. MaxTokens /\ client' = [client EXCEPT ![c] = Idle]
  BY <1>2 DEF StoreToken, SetClient, Client
<1>4. booting' \in BOOLEAN /\ (booting' => booting)
  BY DEF StoreToken
<1>5. /\ UNCHANGED <<issued, revoked, expired, handler, logouts, leaving, memory, active>>
      /\ UNCHANGED <<bootDue, failures, restarts>>
  BY DEF StoreToken, hub, limits
<1> QED
  BY <1>2, <1>3, <1>4, <1>5, CallEnds

LEMMA ForgetStoredOK ==
    ASSUME AuthInv, NEW c \in Callers, ForgetStored(c)
    PROVE  AuthInv'
<1>1. client[c].pc = "forget" /\ client' = [client EXCEPT ![c] = Idle] /\ booting' = FALSE
  BY DEF ForgetStored, SetClient
<1>2. stored' \in 0 .. MaxTokens
  BY AuthAssumption DEF ForgetStored
<1>3. /\ UNCHANGED <<issued, revoked, expired, handler, logouts, leaving, memory, active>>
      /\ UNCHANGED <<bootDue, failures, restarts>>
  BY DEF ForgetStored, hub, limits
<1> QED
  BY <1>1, <1>2, <1>3, CallEnds

LEMMA BootEffectOK ==
    ASSUME AuthInv, NEW c \in Boots, BootEffect(c)
    PROVE  AuthInv'
<1>1. AuthTypeOK /\ CallsHoldTokens /\ c \in Callers
  BY DEF AuthInv, Callers
<1>2. /\ UNCHANGED <<issued, revoked, expired, handler, logouts, leaving, memory, stored, active>>
      /\ UNCHANGED <<failures, restarts>> /\ bootDue /\ bootDue' = FALSE
  BY DEF BootEffect, hub, limits
<1>3. CASE stored = 0
  <2>1. booting' = FALSE /\ client' = client
    BY <1>3 DEF BootEffect
  <2>2. AuthTypeOK' /\ CallsHoldTokens'
    BY <1>1, <1>2, <2>1 DEF AuthTypeOK, CallsHoldTokens
  <2>3. ASSUME Calm' PROVE CalmOK'
    <3>1. CalmOK
      BY <1>2, <2>3 DEF AuthInv, Calm
    <3>2. \A d \in Callers : Kept(d)
      BY <1>2, <2>1 DEF Kept
    <3>3. \A d \in Callers : CallOK(d)' /\ Unsaved(d)' = Unsaved(d)
      BY <1>2, <3>1, <3>2, CallKept DEF CalmOK
    <3>4. \A d \in Callers : UnsavedOK(d)'
      BY <1>2, <2>1, <3>1, <3>3 DEF CalmOK, UnsavedOK
    <3>5. MemoryOK' /\ IssuedOnly'
      BY <1>2, <3>1, <3>2, CallKept, MemoryKept DEF CalmOK, IssuedOnly
    <3>6. BootOK'
      BY <1>2, <2>1, <3>1 DEF CalmOK, BootOK
    <3> QED
      BY <3>3, <3>4, <3>5, <3>6 DEF CalmOK
  <2> QED
    BY <2>2, <2>3 DEF AuthInv
<1>4. CASE stored # 0
  <2>1. PICK y : y = Refreshing(stored, active)
    OBVIOUS
  <2>2. y \in Client /\ y.token # 0
    BY <1>1, <1>4, <2>1, RefreshingIs DEF AuthTypeOK
  <2>3. client' = [client EXCEPT ![c] = y] /\ booting' = booting
    BY <1>4, <2>1 DEF BootEffect, SetClient
  <2>4. AuthTypeOK' /\ CallsHoldTokens'
    BY <1>1, <1>2, <2>2, <2>3, ClientSet DEF AuthTypeOK, CallsHoldTokens
  <2>5. ~Calm'
    BY <1>2, <1>4 DEF AuthInv, Calm, CalmOK, BootOK
  <2> QED
    BY <2>4, <2>5 DEF AuthInv
<1> QED
  BY <1>3, <1>4

LEMMA logoutOK ==
    ASSUME AuthInv, logout
    PROVE  AuthInv'
<1>1. AuthTypeOK /\ CallsHoldTokens
  BY DEF AuthInv
<1>2. /\ memory # 0 /\ memory' = 0 /\ leaving' = leaving \cup {memory}
      /\ UNCHANGED <<issued, revoked, expired, handler, logouts, stored, active>>
      /\ UNCHANGED <<bootDue, booting, client, failures, restarts>>
  BY DEF logout, hub, limits
<1>3. memory \in Tokens /\ 0 \in 0 .. MaxTokens
  BY <1>1, <1>2, AuthAssumption DEF AuthTypeOK, Tokens
<1>4. leaving' \subseteq Tokens
  BY <1>1, <1>2, <1>3 DEF AuthTypeOK
<1>5. AuthTypeOK' /\ CallsHoldTokens'
  BY <1>1, <1>2, <1>3, <1>4 DEF AuthTypeOK, CallsHoldTokens
<1>6. ASSUME Calm' PROVE CalmOK'
  <2>1. CalmOK
    BY <1>2, <1>6 DEF AuthInv, Calm
  <2>2. \A d \in Callers : Kept(d)
    BY <1>2 DEF Kept
  <2>3. \A d \in Callers : CallOK(d)' /\ Unsaved(d)' = Unsaved(d)
    BY <1>2, <2>1, <2>2, CallKept DEF CalmOK
  <2>4. \A d \in Callers : UnsavedOK(d)'
    BY <1>2, <2>1, <2>3 DEF CalmOK, UnsavedOK
  <2>5. MemoryOK' /\ IssuedOnly'
    BY <1>1, <1>2, <2>1 DEF CalmOK, MemoryOK, IssuedOnly, AuthTypeOK
  <2>6. BootOK'
    BY <1>2, <2>1 DEF CalmOK, BootOK
  <2> QED
    BY <2>3, <2>4, <2>5, <2>6 DEF CalmOK
<1> QED
  BY <1>5, <1>6 DEF AuthInv

LEMMA RemoveTokenOK ==
    ASSUME AuthInv, NEW n \in Tokens, RemoveToken(n)
    PROVE  AuthInv'
<1>1. AuthTypeOK /\ CallsHoldTokens
  BY DEF AuthInv
<1>2. /\ n \in leaving /\ leaving' = leaving \ {n} /\ stored' = 0
      /\ \/ logouts' = logouts \cup {n} /\ failures' = failures
         \/ failures < MaxFailures /\ failures' = failures + 1 /\ logouts' = logouts
      /\ UNCHANGED <<issued, revoked, expired, handler, memory, active>>
      /\ UNCHANGED <<bootDue, booting, client, restarts>>
  BY DEF RemoveToken, Failure
<1>3. failures' \in 0 .. MaxFailures /\ (failures' = 0 => failures = 0)
  BY <1>1, <1>2, AuthAssumption DEF AuthTypeOK
<1>4. logouts' \subseteq Tokens /\ leaving' \subseteq Tokens /\ 0 \in 0 .. MaxTokens
  <2>1. logouts \subseteq Tokens /\ leaving \subseteq Tokens
    BY <1>1 DEF AuthTypeOK
  <2>2. logouts' \subseteq logouts \cup {n}
    BY <1>2
  <2>3. 0 \in 0 .. MaxTokens
    BY AuthAssumption
  <2> QED
    BY <1>2, <2>1, <2>2, <2>3
<1>5. AuthTypeOK' /\ CallsHoldTokens'
  <2>1. AuthTypeOK'
    BY <1>1, <1>2, <1>3, <1>4 DEF AuthTypeOK
  <2>2. CallsHoldTokens'
    BY <1>1, <1>2 DEF CallsHoldTokens
  <2> QED
    BY <2>1, <2>2
<1>6. ASSUME Calm' PROVE CalmOK'
  <2>1. CalmOK
    BY <1>2, <1>3, <1>6 DEF AuthInv, Calm
  <2>2. (logouts \cup leaving)' \subseteq logouts \cup leaving
    BY <1>2
  <2>3. \A d \in Callers : Kept(d)
    BY <1>2 DEF Kept
  <2>4. \A d \in Callers : CallOK(d)' /\ Unsaved(d)' = Unsaved(d)
    BY <1>2, <2>1, <2>3, CallKept DEF CalmOK
  <2>5. \A d \in Callers : UnsavedOK(d)'
    BY <1>2, <2>1, <2>2, <2>4 DEF CalmOK, UnsavedOK
  <2>6. MemoryOK'
    <3>1. \A d \in Callers : \A m : Replacing(d, m) => Replacing(d, m)'
      BY <2>3, CallKept
    <3> QED
      BY <1>2, <2>1, <2>2, <3>1 DEF CalmOK, MemoryOK
  <2>7. IssuedOnly'
    BY <1>2, <2>1, <2>2 DEF CalmOK, IssuedOnly
  <2>8. BootOK'
    BY <1>2, <2>1 DEF CalmOK, BootOK
  <2> QED
    BY <2>4, <2>5, <2>6, <2>7, <2>8 DEF CalmOK
<1> QED
  BY <1>5, <1>6 DEF AuthInv

LEMMA AppRestartOK ==
    ASSUME AuthInv, AppRestart
    PROVE  AuthInv'
<1>1. AuthTypeOK /\ CallsHoldTokens
  BY DEF AuthInv
<1>2. /\ leaving' = {} /\ memory' = 0 /\ active' = 1 /\ bootDue' = TRUE /\ booting' = TRUE
      /\ client' = [c \in Callers |-> Idle]
      /\ restarts < MaxRestarts /\ restarts' = restarts + 1
      /\ UNCHANGED <<issued, revoked, expired, handler, logouts, stored, failures>>
  BY DEF AppRestart, hub
<1>3. restarts' \in 0 .. MaxRestarts /\ restarts' # 0 /\ 0 \in 0 .. MaxTokens
  BY <1>1, <1>2, AuthAssumption DEF AuthTypeOK
<1>4. CallsHoldTokens'
  BY <1>1, <1>2 DEF CallsHoldTokens, Idle
<1>5. AuthTypeOK'
  BY <1>1, <1>2, <1>3 DEF AuthTypeOK, Urls
<1> QED
  BY <1>3, <1>4, <1>5 DEF AuthInv, Calm

-----------------------------------------------------------------------------
(* The theorems.                                                           *)

\* The app is started for the first time: nothing is issued.
LEMMA AuthInitOK ==
    ASSUME AuthInit
    PROVE  AuthInv
<1>1. AuthTypeOK
  BY AuthAssumption DEF AuthInit, AuthTypeOK, Urls
<1>2. /\ \A c \in Callers : client[c].pc = "idle"
      /\ \A h \in Callers \X Urls : handler[h].pc = "idle"
  BY DEF AuthInit, Idle
<1>3. \A c \in Callers : handler[<<c, 1>>].pc = "idle" /\ handler[<<c, 2>>].pc = "idle"
  BY <1>2 DEF Urls
<1>4. CallsHoldTokens
  BY <1>2 DEF CallsHoldTokens
<1>5. \A c \in Callers : CallOK(c) /\ UnsavedOK(c)
  BY <1>2, <1>3 DEF CallOK, UnsavedOK, Unsaved
<1>6. IssuedOnly /\ MemoryOK
  BY DEF AuthInit, IssuedOnly, MemoryOK
<1>7. BootOK
  BY <1>2 DEF AuthInit, BootOK, Callers
<1> QED
  BY <1>1, <1>4, <1>5, <1>6, <1>7 DEF AuthInv, CalmOK

\* No step breaks the invariant.
LEMMA AuthNextOK ==
    ASSUME AuthInv, [AuthNext]_authVars
    PROVE  AuthInv'
<1>1. ASSUME NEW c \in Callers, NEW k \in Urls, HubStep(c, k)
      PROVE  AuthInv'
  BY <1>1, FindTokenOK, RevokeTokenOK, IssueNextOK, DropReplyOK DEF HubStep
<1>2. ASSUME NEW c \in Callers, AppStep(c)
      PROVE  AuthInv'
  BY <1>2, AskOK, fetchHubOK, ReceiveOK, saveTokensOK, StoreTokenOK, ForgetStoredOK
  DEF AppStep
<1>3. CASE UNCHANGED authVars
  <2>1. /\ UNCHANGED <<issued, revoked, expired, handler, logouts, leaving, memory, stored, active>>
        /\ UNCHANGED <<bootDue, booting, client, failures, restarts>>
    BY <1>3 DEF authVars
  <2>2. AuthTypeOK'
    BY <2>1 DEF AuthInv, AuthTypeOK
  <2> QED
    BY <2>1, <2>2, QuietOK
<1> QED
  BY <1>1, <1>2, <1>3, HubLogoutOK, ExpireAccessOK, requestOK, loginOK, FetchFailsOK,
     BootEffectOK, logoutOK, RemoveTokenOK, AppRestartOK
  DEF AuthNext

\* The invariant is what SessionSurvives needs.
LEMMA InvSurvives ==
    ASSUME AuthInv
    PROVE  SessionSurvives
BY DEF AuthInv, CalmOK, MemoryOK, SessionSurvives

\* What the refreshes in flight, the app and the refresh_tokens table know of
\* each other stays consistent, whatever the interleaving.
THEOREM AuthInvariance == AuthSpec => []AuthInv
<1>1. AuthInit => AuthInv
  BY AuthInitOK
<1>2. AuthInv /\ [AuthNext]_authVars => AuthInv'
  BY AuthNextOK
<1> QED
  BY <1>1, <1>2, PTL DEF AuthSpec

\* Every variable keeps its type: no refresh request is ever sent without a
\* token, and no more pairs are issued than the bound allows.
THEOREM AuthTypeCorrect == AuthSpec => []AuthTypeOK
<1>1. AuthInv => AuthTypeOK
  BY DEF AuthInv
<1> QED
  BY <1>1, AuthInvariance, PTL

\* Requests that refresh the same token at the same time, logouts and logins in
\* between included, never leave the app with a revoked token that nobody is
\* replacing, in whatever order their pairs are set and stored.
THEOREM SessionsSurvive == AuthSpec => []SessionSurvives
<1>1. AuthInv => SessionSurvives
  BY InvSurvives
<1> QED
  BY <1>1, AuthInvariance, PTL

=============================================================================
