----------------------------- MODULE AuthSession -----------------------------
(***************************************************************************)
(* The login session of the mobile app: AuthService in the Hub, which      *)
(* rotates refresh tokens, and saveTokens, fetchHub, refreshSession,       *)
(* request, login, logout and the boot effect of App.tsx, which keep the   *)
(* token pair in memory and the refresh token in AsyncStorage.             *)
(*                                                                         *)
(* loadAll and the screens run several requests at once, each with the     *)
(* tokens its closure captured.  A fetch that fails or times out is        *)
(* repeated on the other base URL while the Hub may still be working on    *)
(* the first one.  Setting the tokens and the AsyncStorage call that is    *)
(* awaited after it are two steps; calls of AsyncStorage that are in       *)
(* flight together may be carried out in any order.                        *)
(***************************************************************************)
EXTENDS Naturals

CONSTANTS
    Requests,    \* request() calls the app may have in flight
    Boots,       \* runs of the boot effect that may be in flight
    MaxTokens,   \* bound on the token pairs issued
    MaxFailures, \* bound on fetches that fail or time out
    MaxRestarts  \* bound on app restarts

ASSUME AuthAssumption ==
    /\ Requests \cap Boots = {}
    /\ MaxTokens \in Nat /\ MaxFailures \in Nat /\ MaxRestarts \in Nat

VARIABLES
    issued,    \* pairs issued so far; pair n has access and refresh token n
    revoked,   \* table refresh_tokens, column revoked
    expired,   \* access tokens that have expired
    handler,   \* refresh handlers in the Hub, per caller and fetch
    logouts,   \* logout requests on their way to the Hub
    leaving,   \* tokens whose logout waits for the removal from AsyncStorage
    memory,    \* the tokens state of the app, 0 for null
    stored,    \* REFRESH_TOKEN_KEY in AsyncStorage, 0 for none
    active,    \* activeApiBaseUrl, 1 or 2
    bootDue,   \* the boot effect is scheduled
    booting,   \* the booting state of the app
    client,    \* calls of the app in flight
    failures,
    restarts

hub == <<issued, revoked, expired, handler, logouts>>
app == <<leaving, memory, stored, active, bootDue, booting, client>>
limits == <<failures, restarts>>
authVars == <<issued, revoked, expired, handler, logouts, leaving, memory, stored,
              active, bootDue, booting, client, failures, restarts>>

Callers == Requests \cup Boots
Tokens == 1 .. MaxTokens
Urls == {1, 2}
Idle == [pc |-> "idle"]

\* token: the pair the call works with; base: the base URL its closure has as
\* the active one; try: 1 on that URL, 2 on the other; new: the pair received.
Client == [pc : {"ask", "fetch", "wait", "save", "store", "forget"}, token : 0 .. MaxTokens,
           base : Urls, try : Urls, new : 0 .. MaxTokens]
Handler == [pc : {"find", "revoke", "issue", "reply"}, token : Tokens,
            new : 0 .. MaxTokens]

AuthTypeOK ==
    /\ issued \in 0 .. MaxTokens
    /\ revoked \in [Tokens -> BOOLEAN]
    /\ expired \subseteq Tokens
    /\ handler \in [Callers \X Urls -> {Idle} \cup Handler]
    /\ logouts \subseteq Tokens
    /\ leaving \subseteq Tokens
    /\ memory \in 0 .. MaxTokens
    /\ stored \in 0 .. MaxTokens
    /\ active \in Urls
    /\ bootDue \in BOOLEAN /\ booting \in BOOLEAN
    /\ client \in [Callers -> {Idle} \cup Client]
    /\ failures \in 0 .. MaxFailures
    /\ restarts \in 0 .. MaxRestarts

\* The app is started for the first time.
AuthInit ==
    /\ issued = 0
    /\ revoked = [n \in Tokens |-> FALSE]
    /\ expired = {}
    /\ handler = [h \in Callers \X Urls |-> Idle]
    /\ logouts = {}
    /\ leaving = {}
    /\ memory = 0
    /\ stored = 0
    /\ active = 1
    /\ bootDue = TRUE
    /\ booting = TRUE
    /\ client = [c \in Callers |-> Idle]
    /\ failures = 0
    /\ restarts = 0

-----------------------------------------------------------------------------
(* AuthService.                                                            *)

\* issueTokenPair: a refresh token nobody had before, stored as not revoked.
issueTokenPair == issued < MaxTokens /\ issued' = issued + 1

\* refresh: look the token up, revoke it, issue the next pair.
FindToken(c, k) ==
    LET h == handler[<<c, k>>]
    IN /\ h.pc = "find"
       /\ handler' = [handler EXCEPT ![<<c, k>>].pc =
                         IF revoked[h.token] THEN "reply" ELSE "revoke"]
       /\ UNCHANGED <<issued, revoked, expired, logouts, app, limits>>

\* Mutant: every refresh token of the user is revoked.
RevokeToken_All(c, k) ==
    /\ handler[<<c, k>>].pc = "revoke"
    /\ revoked' = [n \in Tokens |-> revoked[n] \/ n <= issued]
    /\ handler' = [handler EXCEPT ![<<c, k>>].pc = "issue"]
    /\ UNCHANGED <<issued, expired, logouts, app, limits>>

RevokeToken(c, k) ==
    /\ handler[<<c, k>>].pc = "revoke"
    /\ revoked' = [revoked EXCEPT ![handler[<<c, k>>].token] = TRUE]
    /\ handler' = [handler EXCEPT ![<<c, k>>].pc = "issue"]
    /\ UNCHANGED <<issued, expired, logouts, app, limits>>

IssueNext(c, k) ==
    /\ handler[<<c, k>>].pc = "issue"
    /\ issueTokenPair
    /\ handler' = [handler EXCEPT ![<<c, k>>] = [@ EXCEPT !.pc = "reply", !.new = issued']]
    /\ UNCHANGED <<revoked, expired, logouts, app, limits>>

\* The answer to a fetch the app has given up is dropped.
DropReply(c, k) ==
    /\ handler[<<c, k>>].pc = "reply"
    /\ ~(client[c].pc = "wait" /\ client[c].try = k)
    /\ handler' = [handler EXCEPT ![<<c, k>>] = Idle]
    /\ UNCHANGED <<issued, revoked, expired, logouts, app, limits>>

\* logout revokes the token it is given; the app does not wait for it.
HubLogout(n) ==
    /\ n \in logouts
    /\ logouts' = logouts \ {n}
    /\ revoked' = [revoked EXCEPT ![n] = TRUE]
    /\ UNCHANGED <<issued, expired, handler, app, limits>>

\* JWT_ACCESS_EXPIRES_IN passes for the pair the app uses.
ExpireAccess ==
    /\ memory # 0
    /\ expired' = expired \cup {memory}
    /\ expired' # expired
    /\ UNCHANGED <<issued, revoked, handler, logouts, app, limits>>

-----------------------------------------------------------------------------
(* The app.                                                                *)

Failure == failures < MaxFailures /\ failures' = failures + 1
SetClient(c, to) == client' = [client EXCEPT ![c] = to]
Refreshing(token, base) ==
    [pc |-> "fetch", token |-> token, base |-> base, try |-> 1, new |-> 0]

\* setActiveApiBaseUrl after a fetch that succeeded on the other URL: a new
\* value changes fetchHub and refreshSession, so the boot effect runs again.
SwitchUrl(base, try) ==
    LET url == IF try = 1 THEN base ELSE 3 - base
    IN IF try = 1 THEN UNCHANGED <<active, bootDue>>
       ELSE active' = url /\ bootDue' = (bootDue \/ active # url)

\* request: the tokens and the URL are those of its closure.
request(c) ==
    /\ memory # 0
    /\ client[c] = Idle /\ \A k \in Urls : handler[<<c, k>>] = Idle
    /\ SetClient(c, [Refreshing(memory, active) EXCEPT !.pc = "ask"])
    /\ UNCHANGED <<hub, leaving, memory, stored, active, bootDue, booting, limits>>

\* Its first fetch, which may need the other URL: 401 makes it refresh.
Ask(c, try) ==
    /\ client[c].pc = "ask"
    /\ IF try = 1 THEN UNCHANGED failures ELSE Failure
    /\ SwitchUrl(client[c].base, try)
    /\ SetClient(c, IF client[c].token \in expired
                    THEN [client[c] EXCEPT !.pc = "fetch"] ELSE Idle)
    /\ UNCHANGED <<hub, leaving, memory, stored, booting, restarts>>

\* refreshSession: POST /auth/refresh on the URL of this try.
fetchHub(c) ==
    /\ client[c].pc = "fetch"
    /\ handler' = [handler EXCEPT ![<<c, client[c].try>>] =
                      [pc |-> "find", token |-> client[c].token, new |-> 0]]
    /\ SetClient(c, [client[c] EXCEPT !.pc = "wait"])
    /\ UNCHANGED <<issued, revoked, expired, logouts,
                   leaving, memory, stored, active, bootDue, booting, limits>>

\* The end of a call that did not get a pair: a request shows the error, the
\* boot effect goes on to forget the stored token.
GiveUp(c) == SetClient(c, IF c \in Boots THEN [client[c] EXCEPT !.pc = "forget"] ELSE Idle)

\* Mutant: setBooting(false) only after a success.
ForgetStored_StillBooting(c) ==
    /\ client[c].pc = "forget"
    /\ stored' = 0
    /\ SetClient(c, Idle)
    /\ UNCHANGED <<hub, leaving, memory, active, bootDue, booting, limits>>

\* The catch and the finally of the boot effect.
ForgetStored(c) ==
    /\ client[c].pc = "forget"
    /\ stored' = 0
    /\ SetClient(c, Idle)
    /\ booting' = FALSE
    /\ UNCHANGED <<hub, leaving, memory, active, bootDue, limits>>

\* A fetch fails on its way to the Hub, or times out while the Hub works.
FetchFails(c) ==
    /\ client[c].pc \in {"fetch", "wait"}
    /\ Failure
    /\ IF client[c].try = 1
       THEN SetClient(c, [client[c] EXCEPT !.pc = "fetch", !.try = 2])
       ELSE GiveUp(c)
    /\ UNCHANGED <<hub, leaving, memory, stored, active, bootDue, booting, restarts>>

Receive(c) ==
    LET k == client[c].try
        h == handler[<<c, k>>]
    IN /\ client[c].pc = "wait"
       /\ h.pc = "reply"
       /\ handler' = [handler EXCEPT ![<<c, k>>] = Idle]
       /\ SwitchUrl(client[c].base, k)
       /\ IF h.new = 0 THEN GiveUp(c)
          ELSE SetClient(c, [client[c] EXCEPT !.pc = "save", !.new = h.new])
       /\ UNCHANGED <<issued, revoked, expired, logouts, leaving, memory, stored,
                      booting, limits>>

\* saveTokens of the pair a refresh or a login has received: setTokens, then
\* the awaited setItem.
saveTokens(c) ==
    /\ client[c].pc = "save"
    /\ memory' = client[c].new
    /\ SetClient(c, [client[c] EXCEPT !.pc = "store"])
    /\ UNCHANGED <<hub, leaving, stored, active, bootDue, booting, limits>>

StoreToken(c) ==
    /\ client[c].pc = "store"
    /\ stored' = client[c].new
    /\ SetClient(c, Idle)
    /\ booting' = (booting /\ c \notin Boots)
    /\ UNCHANGED <<hub, leaving, memory, active, bootDue, limits>>

\* login, from the login screen.
login(c) ==
    /\ memory = 0 /\ ~booting
    /\ client[c] = Idle /\ \A k \in Urls : handler[<<c, k>>] = Idle
    /\ issueTokenPair
    /\ SetClient(c, [Refreshing(0, active) EXCEPT !.pc = "save", !.new = issued'])
    /\ UNCHANGED <<revoked, expired, handler, logouts,
                   leaving, memory, stored, active, bootDue, booting, limits>>

\* logout: saveTokens(null), setTokens first and then the awaited removeItem,
\* after which the Hub is told; that fetch may fail.
logout ==
    /\ memory # 0
    /\ memory' = 0
    /\ leaving' = leaving \cup {memory}
    /\ UNCHANGED <<hub, stored, active, bootDue, booting, client, limits>>

RemoveToken(n) ==
    /\ n \in leaving
    /\ leaving' = leaving \ {n}
    /\ stored' = 0
    /\ \/ logouts' = logouts \cup {n} /\ UNCHANGED failures
       \/ Failure /\ UNCHANGED logouts
    /\ UNCHANGED <<issued, revoked, expired, handler,
                   memory, active, bootDue, booting, client, restarts>>

\* Mutant: the boot effect refreshes although nothing is stored.
BootEffect_Unchecked(c) ==
    /\ bootDue
    /\ client[c] = Idle /\ \A k \in Urls : handler[<<c, k>>] = Idle
    /\ bootDue' = FALSE
    /\ SetClient(c, Refreshing(stored, active))
    /\ UNCHANGED <<hub, leaving, memory, stored, active, booting, limits>>

\* The boot effect reads the stored token and tries to refresh it.
BootEffect(c) ==
    /\ bootDue
    /\ client[c] = Idle /\ \A k \in Urls : handler[<<c, k>>] = Idle
    /\ bootDue' = FALSE
    /\ IF stored = 0 THEN booting' = FALSE /\ UNCHANGED client
       ELSE SetClient(c, Refreshing(stored, active)) /\ UNCHANGED booting
    /\ UNCHANGED <<hub, leaving, memory, stored, active, limits>>

AppRestart ==
    /\ restarts < MaxRestarts
    /\ restarts' = restarts + 1
    /\ leaving' = {}
    /\ memory' = 0
    /\ active' = 1
    /\ bootDue' = TRUE
    /\ booting' = TRUE
    /\ client' = [c \in Callers |-> Idle]
    /\ UNCHANGED <<hub, stored, failures>>

-----------------------------------------------------------------------------
HubStep(c, k) ==
    FindToken(c, k) \/ RevokeToken(c, k) \/ IssueNext(c, k) \/ DropReply(c, k)

AppStep(c) ==
    \/ \E try \in Urls : Ask(c, try)
    \/ fetchHub(c) \/ Receive(c)
    \/ saveTokens(c) \/ StoreToken(c) \/ ForgetStored(c)

AuthNext ==
    \/ \E c \in Callers, k \in Urls : HubStep(c, k)
    \/ \E n \in Tokens : HubLogout(n) \/ RemoveToken(n)
    \/ ExpireAccess
    \/ \E c \in Requests : request(c) \/ login(c)
    \/ \E c \in Callers : AppStep(c) \/ FetchFails(c)
    \/ \E c \in Boots : BootEffect(c)
    \/ logout
    \/ AppRestart

AuthSpec == AuthInit /\ [][AuthNext]_authVars

\* The Hub and the app finish what they have begun.
FairAuth ==
    /\ AuthSpec
    /\ \A c \in Callers : WF_authVars(AppStep(c))
    /\ \A c \in Callers, k \in Urls : WF_authVars(HubStep(c, k))
    /\ \A c \in Boots : WF_authVars(BootEffect(c))

-----------------------------------------------------------------------------
(* Properties.                                                             *)

\* The call c has revoked the token n and will bring the pair that replaces it.
Replacing(c, n) ==
    /\ client[c].pc \in {"wait", "save"}
    /\ client[c].token = n
    /\ client[c].pc = "wait" =>
          \/ handler[<<c, 1>>].pc = "issue"
          \/ handler[<<c, 1>>].pc = "reply" /\ handler[<<c, 1>>].new # 0

\* Nothing has failed and the app was not restarted.
Calm == failures = 0 /\ restarts = 0

\* Without network failures and restarts of the app, requests that refresh one
\* token at the same time never cost the user the session: the pair in memory
\* is good for another refresh, or the call that has used it up is bringing the
\* next one.  (A restart may lose the session: until the awaited setItem is
\* done, AsyncStorage holds the token that the Hub has revoked.)
SessionSurvives ==
    (Calm /\ memory # 0) =>
        ~revoked[memory] \/ \E c \in Callers : Replacing(c, memory)

\* The app does not hang on its boot screen: every boot ends, with or without
\* a session, whatever the network does (unless the bound on the pairs keeps a
\* refresh from its answer).
AtBound == issued = MaxTokens /\ \E h \in Callers \X Urls : handler[h].pc = "issue"
BootEnds == booting ~> (~booting \/ AtBound)

-----------------------------------------------------------------------------
(* Why SessionSurvives holds: an inductive invariant.                      *)

\* What every step needs of the calls in flight: one that will ask the Hub has
\* a token to show, and a handler has no new pair before it has issued one.
CallsHoldTokens ==
    /\ \A c \in Callers : client[c].pc \in {"ask", "fetch", "wait"} => client[c].token # 0
    /\ \A h \in Callers \X Urls :
          handler[h].pc \in {"find", "revoke", "issue"} => handler[h].new = 0

\* The pair a call has been issued and has not saved, 0 for none.
Unsaved(c) ==
    IF client[c].pc = "save" THEN client[c].new
    ELSE IF handler[<<c, 1>>].pc = "reply" THEN handler[<<c, 1>>].new ELSE 0

\* Every call is on its first URL and has at most the one handler it waits for.
CallOK(c) ==
    /\ client[c].pc # "idle" => client[c].try = 1 /\ client[c].token <= issued
    /\ handler[<<c, 2>>].pc = "idle"
    /\ handler[<<c, 1>>].pc # "idle" =>
          client[c].pc = "wait" /\ client[c].token = handler[<<c, 1>>].token

\* Nobody but the call that will save it knows a pair that is not saved.
UnsavedOK(c) ==
    Unsaved(c) # 0 =>
        /\ Unsaved(c) <= issued /\ Unsaved(c) # memory
        /\ Unsaved(c) \notin logouts \cup leaving /\ ~revoked[Unsaved(c)]
        /\ \A d \in Callers : client[d].pc # "idle" => client[d].token # Unsaved(c)
        /\ \A d \in Callers : d # c => Unsaved(d) # Unsaved(c)

\* Only pairs that were issued are anywhere.
IssuedOnly ==
    /\ memory <= issued
    /\ \A n \in logouts \cup leaving : n <= issued
    /\ \A n \in Tokens : revoked[n] => n <= issued

\* The boot effect ends before there is a session.
BootOK ==
    /\ bootDue => booting
    /\ booting => memory = 0 /\ stored = 0 /\ leaving = {}
    /\ booting => \A c \in Callers : client[c].pc = "idle"
    /\ \A c \in Boots : client[c].pc = "idle"

\* The token in memory is not one the user has logged out with; if it is
\* revoked, some call is bringing its replacement.
MemoryOK ==
    memory # 0 =>
        /\ memory \notin logouts \cup leaving
        /\ revoked[memory] => \E c \in Callers : Replacing(c, memory)

CalmOK ==
    /\ IssuedOnly /\ BootOK /\ MemoryOK
    /\ \A c \in Callers : CallOK(c) /\ UnsavedOK(c)

\* All of it.
AuthInv == AuthTypeOK /\ CallsHoldTokens /\ (Calm => CalmOK)

=============================================================================
