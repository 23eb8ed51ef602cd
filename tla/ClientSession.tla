--------------------------- MODULE ClientSession ---------------------------
(***************************************************************************)
(* The signed-in session of the single-page application, as the tabs of    *)
(* one browser and the server keep it together.                            *)
(*                                                                         *)
(* Every tab runs its own copy of api/client.js and AuthContext: what it   *)
(* believes (signed in or not, still booting), its requests in flight, and *)
(* the one shared promise of a token refresh.  The tabs share the cookie   *)
(* jar.  The server rotates refresh tokens: a refresh spends the token it  *)
(* was sent and grants another.                                            *)
(*                                                                         *)
(* Tokens are numbers in the order they were granted, 0 is no token.  The  *)
(* server's half of a refresh, a login or a logout and the arrival of its  *)
(* answer are two steps: the answer may be lost (a network error, or the   *)
(* timeout of fetchWithTimeout) after the server acted on the request.     *)
(***************************************************************************)
EXTENDS Naturals, FiniteSets

CONSTANTS Tabs,        \* the tabs of one browser
          Signers,     \* bound: the tabs its user signs in and out from
          PageCalls,   \* the requests a page of a tab makes
          MaxTokens,   \* bound: tokens granted in a behaviour
          MaxLosses,   \* bound: requests lost in a behaviour
          MaxReloads   \* bound: reloads in a behaviour

ASSUME CountsAssumption ==
    /\ MaxTokens \in Nat \ {0} /\ MaxLosses \in Nat /\ MaxReloads \in Nat
ASSUME CallsAssumption == "session" \notin PageCalls
ASSUME TabsAssumption == "none" \notin Tabs /\ Signers \subseteq Tabs

VARIABLES jar,       \* the cookie jar: access cookie, refresh token
          honoured,  \* refresh tokens the server accepts
          granted,   \* how many tokens the server granted so far
          ended,     \* the server ended the account's sessions
          auth,      \* per tab: isAuthenticated
          booting,   \* per tab: what Promise.all of the first effect awaits
          calls,     \* per tab and call: the request in flight
          refresh,   \* per tab: refreshPromise
          entry,     \* per tab: the login form
          exit,      \* per tab: the logout in flight
          spentBy,   \* history: the tab whose refresh spent a token
          lost,      \* history: tokens whose refresh was never answered
          losses, reloads

vars == <<jar, honoured, granted, ended, auth, booting, calls, refresh, entry,
          exit, spentBy, lost, losses, reloads>>
server == <<honoured, granted, ended, spentBy>>
bounds == <<lost, losses, reloads>>

Calls == PageCalls \cup {"session"}
Tokens == 1..MaxTokens
NoTab == "none"

Idle == [step |-> "idle", access |-> FALSE]
NoRefresh == [step |-> "none", token |-> 0, fresh |-> 0]
NoEntry == [step |-> "form", portal |-> "hotel", token |-> 0]
NoExit == [step |-> "none", token |-> 0]

Portals == {"hotel", "super_root"}
CallRecords == [step : {"idle", "sent", "waiting", "retry"}, access : BOOLEAN]
RefreshRecords == [step : {"none", "sent", "renewed", "refused"},
                   token : 0..MaxTokens, fresh : 0..MaxTokens]
EntryRecords ==
    [step : {"form", "posted", "granted", "challenged", "challenge",
             "code_posted", "code_granted"},
     portal : Portals, token : 0..MaxTokens]
ExitRecords == [step : {"none", "sent", "served"}, token : 0..MaxTokens]

-----------------------------------------------------------------------------
(* Requests *)

\* What a request carries is the cookie of the moment it is sent.
Sent(step) == [step |-> step, access |-> jar.access]

\* The server answers 401 without a live access cookie or for an ended account.
Accepted(t, c) == calls[t][c].access /\ ~ended

\* refreshAccessToken: one promise per tab, shared by every call it awaits.
JoinRefresh(t) ==
    refresh' = IF refresh[t].step = "none"
               THEN [refresh EXCEPT ![t] =
                        [step |-> "sent", token |-> jar.refresh, fresh |-> 0]]
               ELSE refresh

\* Mutant: what settles is toggled in the set of what is awaited.
SettledBootToggles(t, done) ==
    booting' = [booting EXCEPT ![t] = (@ \ done) \cup (done \ @)]

SettledBoot(t, done) ==
    booting' = [booting EXCEPT ![t] = @ \ done]

Waiting(t) == {c \in Calls : calls[t][c].step = "waiting"}

\* fetchJson: a page asks for data, or the account page has the session read again.
StartCall(t, c) ==
    /\ auth[t] /\ booting[t] = {} /\ calls[t][c] = Idle
    /\ calls' = [calls EXCEPT ![t][c] = Sent("sent")]
    /\ UNCHANGED <<jar, server, auth, booting, refresh, entry, exit, bounds>>

AnswerCall(t, c) ==
    /\ calls[t][c].step \in {"sent", "retry"} /\ Accepted(t, c)
    /\ calls' = [calls EXCEPT ![t][c] = Idle]
    /\ auth' = IF c = "session" THEN [auth EXCEPT ![t] = TRUE] ELSE auth
    /\ SettledBoot(t, {c})
    /\ UNCHANGED <<jar, server, refresh, entry, exit, bounds>>

\* Mutant: the first 401 already ends the session.
RejectCallAtOnce(t, c) ==
    /\ calls[t][c].step = "sent" /\ ~Accepted(t, c)
    /\ calls' = [calls EXCEPT ![t][c] = Idle]
    /\ auth' = [auth EXCEPT ![t] = FALSE]
    /\ SettledBoot(t, {c})
    /\ UNCHANGED <<jar, server, refresh, entry, exit, bounds>>

\* The first 401 of a call joins the refresh; it is not yet an error.
RejectCall(t, c) ==
    /\ calls[t][c].step = "sent" /\ ~Accepted(t, c)
    /\ calls' = [calls EXCEPT ![t][c] = [step |-> "waiting", access |-> FALSE]]
    /\ JoinRefresh(t)
    /\ UNCHANGED <<jar, server, auth, booting, entry, exit, bounds>>

\* The second 401 of a call notifies that the session expired.
RejectRetry(t, c) ==
    /\ calls[t][c].step = "retry" /\ ~Accepted(t, c)
    /\ calls' = [calls EXCEPT ![t][c] = Idle]
    /\ auth' = [auth EXCEPT ![t] = FALSE]
    /\ SettledBoot(t, {c})
    /\ UNCHANGED <<jar, server, refresh, entry, exit, bounds>>

Lose == losses < MaxLosses /\ losses' = losses + 1

\* Mutant: the loading screen waits for the answer of the session alone.
LoseCallUnsettled(t, c) ==
    /\ calls[t][c].step \in {"sent", "retry"} /\ Lose
    /\ calls' = [calls EXCEPT ![t][c] = Idle]
    /\ auth' = IF c = "session" THEN [auth EXCEPT ![t] = FALSE] ELSE auth
    /\ UNCHANGED <<jar, server, booting, refresh, entry, exit, lost, reloads>>

\* A lost page request is an error of the page; a lost session request clears the user.
LoseCall(t, c) ==
    /\ calls[t][c].step \in {"sent", "retry"} /\ Lose
    /\ calls' = [calls EXCEPT ![t][c] = Idle]
    /\ auth' = IF c = "session" THEN [auth EXCEPT ![t] = FALSE] ELSE auth
    /\ SettledBoot(t, {c})
    /\ UNCHANGED <<jar, server, refresh, entry, exit, lost, reloads>>

\* The first effect awaits the CSRF cookie too; Promise.all gives up at its failure.
AnswerCsrf(t) ==
    /\ "csrf" \in booting[t]
    /\ SettledBoot(t, {"csrf"})
    /\ UNCHANGED <<jar, server, auth, calls, refresh, entry, exit, bounds>>

LoseCsrf(t) ==
    /\ "csrf" \in booting[t] /\ Lose
    /\ SettledBoot(t, booting[t])
    /\ UNCHANGED <<jar, server, auth, calls, refresh, entry, exit, lost, reloads>>

-----------------------------------------------------------------------------
(* The refresh of the tokens *)

Grants(tok) == tok \in honoured /\ ~ended /\ granted < MaxTokens

\* Spending a refresh token: it is blacklisted and a new one is granted.
Spend(t, tok) ==
    /\ honoured' = (honoured \ {tok}) \cup {granted + 1}
    /\ granted' = granted + 1
    /\ spentBy' = [spentBy EXCEPT ![tok] = t]

ServeRefresh(t) ==
    /\ refresh[t].step = "sent"
    /\ LET tok == refresh[t].token IN
       \/ /\ Grants(tok) /\ Spend(t, tok)
          /\ refresh' = [refresh EXCEPT ![t].step = "renewed",
                                        ![t].fresh = granted + 1]
       \/ /\ ~Grants(tok)  \* at the bound the lifetime of the token is over
          /\ refresh' = [refresh EXCEPT ![t].step = "refused"]
          /\ honoured' = honoured \ {tok}
          /\ UNCHANGED <<granted, spentBy>>
    /\ UNCHANGED <<jar, ended, auth, booting, calls, entry, exit, bounds>>

\* Mutant: the calls that awaited the refresh are never told.
ExpireSilently(t) == UNCHANGED <<calls, auth, booting>>

\* The calls that awaited the refresh end with an error, and the user is cleared.
Expire(t) ==
    /\ calls' = [calls EXCEPT ![t] =
                    [c \in Calls |-> IF c \in Waiting(t) THEN Idle ELSE @[c]]]
    /\ auth' = IF Waiting(t) = {} THEN auth ELSE [auth EXCEPT ![t] = FALSE]
    /\ SettledBoot(t, Waiting(t))

\* Mutant: the waiting calls are forgotten when the token is renewed.
ArriveRenewedForgets(t) ==
    /\ refresh[t].step = "renewed"
    /\ jar' = [access |-> TRUE, refresh |-> refresh[t].fresh]
    /\ refresh' = [refresh EXCEPT ![t] = NoRefresh]
    /\ UNCHANGED <<server, auth, booting, calls, entry, exit, bounds>>

\* Mutant: the answer renews the access cookie alone.
ArriveRenewedAccess(t) ==
    /\ refresh[t].step = "renewed"
    /\ jar' = [jar EXCEPT !.access = TRUE]
    /\ calls' = [calls EXCEPT ![t] =
                    [c \in Calls |-> IF c \in Waiting(t)
                                     THEN [step |-> "retry", access |-> TRUE]
                                     ELSE @[c]]]
    /\ refresh' = [refresh EXCEPT ![t] = NoRefresh]
    /\ UNCHANGED <<server, auth, booting, entry, exit, bounds>>

\* A renewed token: the cookies are set and every waiting call is sent once more.
ArriveRenewed(t) ==
    /\ refresh[t].step = "renewed"
    /\ jar' = [access |-> TRUE, refresh |-> refresh[t].fresh]
    /\ calls' = [calls EXCEPT ![t] =
                    [c \in Calls |-> IF c \in Waiting(t)
                                     THEN [step |-> "retry", access |-> TRUE]
                                     ELSE @[c]]]
    /\ refresh' = [refresh EXCEPT ![t] = NoRefresh]
    /\ UNCHANGED <<server, auth, booting, entry, exit, bounds>>

\* A refusal of a token clears the cookies, whoever put them there meanwhile.
ArriveRefused(t) ==
    /\ refresh[t].step = "refused"
    /\ jar' = IF refresh[t].token = 0 THEN jar
              ELSE [access |-> FALSE, refresh |-> 0]
    /\ Expire(t)
    /\ refresh' = [refresh EXCEPT ![t] = NoRefresh]
    /\ UNCHANGED <<server, entry, exit, bounds>>

\* Nobody is left to read the answer of a refresh: the server spends its token
\* all the same, or the request never reached it.
Abandon(t) ==
    /\ refresh' = [refresh EXCEPT ![t] = NoRefresh]
    /\ lost' = IF refresh[t].step = "none" THEN lost
               ELSE lost \cup {refresh[t].token}
    /\ \/ UNCHANGED <<honoured, granted, spentBy>>
       \/ /\ refresh[t].step = "sent" /\ Grants(refresh[t].token)
          /\ Spend(t, refresh[t].token)

LoseRefresh(t) ==
    /\ refresh[t].step # "none" /\ Lose
    /\ Abandon(t) /\ Expire(t)
    /\ UNCHANGED <<jar, ended, entry, exit, reloads>>

-----------------------------------------------------------------------------
(* Signing in and out *)

\* The form takes a submission when nothing is being checked or submitted.
LoginFormOpen(t) == ~auth[t] /\ booting[t] = {}

PostLogin(t, portal) ==
    /\ t \in Signers /\ LoginFormOpen(t) /\ entry[t].step = "form"
    /\ entry' = [entry EXCEPT ![t] =
                    [step |-> "posted", portal |-> portal, token |-> 0]]
    /\ UNCHANGED <<jar, server, auth, booting, calls, refresh, exit, bounds>>

PostCode(t) ==
    /\ LoginFormOpen(t) /\ entry[t].step = "challenge"
    /\ entry' = [entry EXCEPT ![t].step = "code_posted"]
    /\ UNCHANGED <<jar, server, auth, booting, calls, refresh, exit, bounds>>

BackToLogin(t) ==
    /\ entry[t].step = "challenge"
    /\ entry' = [entry EXCEPT ![t] = NoEntry]
    /\ UNCHANGED <<jar, server, auth, booting, calls, refresh, exit, bounds>>

\* The server grants a session, or asks for a code, or refuses the credentials.
ServeLogin(t) ==
    /\ entry[t].step \in {"posted", "code_posted"}
    /\ \/ /\ ~ended /\ granted < MaxTokens
          /\ granted' = granted + 1
          /\ honoured' = honoured \cup {granted + 1}
          /\ entry' = [entry EXCEPT
                ![t].step = IF @ = "posted" THEN "granted" ELSE "code_granted",
                ![t].token = granted + 1]
       \/ /\ entry' = [entry EXCEPT
                ![t] = IF @.step = "posted" THEN NoEntry
                       ELSE [@ EXCEPT !.step = "challenge"]]
          /\ UNCHANGED <<granted, honoured>>
       \/ /\ ~ended /\ entry[t].step = "posted"
          /\ entry' = [entry EXCEPT ![t].step = "challenged"]
          /\ UNCHANGED <<granted, honoured>>
    /\ UNCHANGED <<jar, ended, auth, booting, calls, refresh, exit, spentBy, bounds>>

\* login and completeTwoFactorLogin set the user; the Super Root portal's login
\* page sets only the cookies and has the session reread.
ArriveGrant(t) ==
    /\ entry[t].step \in {"granted", "code_granted"}
    /\ jar' = [access |-> TRUE, refresh |-> entry[t].token]
    /\ IF entry[t].portal = "super_root" /\ entry[t].step = "granted"
       THEN /\ calls' = [calls EXCEPT ![t]["session"] =
                            IF @ = Idle THEN [step |-> "sent", access |-> TRUE] ELSE @]
            /\ auth' = auth
       ELSE /\ auth' = [auth EXCEPT ![t] = TRUE]
            /\ calls' = calls
    /\ entry' = [entry EXCEPT ![t] = NoEntry]
    /\ UNCHANGED <<server, booting, refresh, exit, bounds>>

ArriveChallenge(t) ==
    /\ entry[t].step = "challenged"
    /\ entry' = [entry EXCEPT ![t].step = "challenge", ![t].portal = "hotel"]
    /\ auth' = IF entry[t].portal = "hotel" THEN [auth EXCEPT ![t] = FALSE] ELSE auth
    /\ UNCHANGED <<jar, server, booting, calls, refresh, exit, bounds>>

LoseLogin(t) ==
    /\ entry[t].step \notin {"form", "challenge"} /\ Lose
    /\ entry' = [entry EXCEPT
          ![t] = IF @.step \in {"code_posted", "code_granted"}
                 THEN [@ EXCEPT !.step = "challenge", !.token = 0] ELSE NoEntry]
    /\ UNCHANGED <<jar, server, auth, booting, calls, refresh, exit, lost, reloads>>

\* logout clears the user whatever becomes of its request.
PostLogout(t) ==
    /\ t \in Signers /\ auth[t] /\ booting[t] = {} /\ exit[t].step = "none"
    /\ exit' = [exit EXCEPT ![t] = [step |-> "sent", token |-> jar.refresh]]
    /\ UNCHANGED <<jar, server, auth, booting, calls, refresh, entry, bounds>>

ServeLogout(t) ==
    /\ exit[t].step = "sent"
    /\ honoured' = honoured \ {exit[t].token}
    /\ exit' = [exit EXCEPT ![t].step = "served"]
    /\ UNCHANGED <<jar, granted, ended, spentBy, auth, booting, calls, refresh,
                   entry, bounds>>

ArriveLogout(t) ==
    /\ exit[t].step = "served"
    /\ jar' = [access |-> FALSE, refresh |-> 0]
    /\ auth' = [auth EXCEPT ![t] = FALSE]
    /\ exit' = [exit EXCEPT ![t] = NoExit]
    /\ UNCHANGED <<server, booting, calls, refresh, entry, bounds>>

LoseLogout(t) ==
    /\ exit[t].step # "none" /\ Lose
    /\ auth' = [auth EXCEPT ![t] = FALSE]
    /\ exit' = [exit EXCEPT ![t] = NoExit]
    /\ UNCHANGED <<jar, server, booting, calls, refresh, entry, lost, reloads>>

-----------------------------------------------------------------------------
(* The environment *)

\* The access cookie lives as long as its token and is dropped with it.
AccessExpires ==
    /\ jar.access
    /\ jar' = [jar EXCEPT !.access = FALSE]
    /\ UNCHANGED <<server, auth, booting, calls, refresh, entry, exit, bounds>>

\* A password change or a revocation ends every session of the account.
ServerEnds ==
    /\ ~ended /\ ended' = TRUE /\ honoured' = {}
    /\ UNCHANGED <<jar, granted, spentBy, auth, booting, calls, refresh, entry,
                   exit, bounds>>

Boot == {"csrf", "session"}

\* A tab is reloaded: its memory starts again, a refresh in flight goes unanswered.
Reload(t) ==
    /\ reloads < MaxReloads /\ reloads' = reloads + 1
    /\ entry[t].step \in {"form", "challenge"} /\ exit[t] = NoExit
    /\ auth' = [auth EXCEPT ![t] = FALSE]
    /\ booting' = [booting EXCEPT ![t] = Boot]
    /\ calls' = [calls EXCEPT ![t] =
                    [c \in Calls |-> IF c = "session" THEN Sent("sent") ELSE Idle]]
    /\ Abandon(t)
    /\ entry' = [entry EXCEPT ![t] = NoEntry]
    /\ UNCHANGED <<jar, ended, exit, losses>>

-----------------------------------------------------------------------------

Init ==
    /\ jar \in {[access |-> FALSE, refresh |-> 0], [access |-> FALSE, refresh |-> 1],
                [access |-> TRUE, refresh |-> 1]}
    /\ honoured = {jar.refresh} \ {0}
    /\ granted = 1 /\ ended = FALSE
    /\ auth = [t \in Tabs |-> FALSE]
    /\ booting = [t \in Tabs |-> Boot]
    /\ calls = [t \in Tabs |->
                   [c \in Calls |-> IF c = "session" THEN Sent("sent") ELSE Idle]]
    /\ refresh = [t \in Tabs |-> NoRefresh]
    /\ entry = [t \in Tabs |-> NoEntry]
    /\ exit = [t \in Tabs |-> NoExit]
    /\ spentBy = [k \in Tokens |-> NoTab]
    /\ lost = {} /\ losses = 0 /\ reloads = 0

CallStep(t, c) ==
    AnswerCall(t, c) \/ RejectCall(t, c) \/ RejectRetry(t, c) \/ LoseCall(t, c)
RefreshAnswer(t) == ArriveRenewed(t) \/ ArriveRefused(t) \/ LoseRefresh(t)
BootStep(t) == AnswerCsrf(t) \/ LoseCsrf(t)

\* The four login pages.
LoginPage(t) == PostLogin(t, "hotel") \/ PostCode(t) \/ BackToLogin(t)
PosLoginPage(t) == PostLogin(t, "hotel") \/ PostCode(t)
SuperRootLoginPage(t) == PostLogin(t, "super_root")
SuperRootMfaPage(t) == PostCode(t)

TabNext(t) ==
    \/ \E c \in Calls : StartCall(t, c) \/ CallStep(t, c)
    \/ BootStep(t) \/ ServeRefresh(t) \/ RefreshAnswer(t)
    \/ LoginPage(t) \/ PosLoginPage(t) \/ SuperRootLoginPage(t) \/ SuperRootMfaPage(t)
    \/ ServeLogin(t) \/ ArriveGrant(t) \/ ArriveChallenge(t) \/ LoseLogin(t)
    \/ PostLogout(t) \/ ServeLogout(t) \/ ArriveLogout(t) \/ LoseLogout(t)
    \/ Reload(t)

Next == AccessExpires \/ ServerEnds \/ \E t \in Tabs : TabNext(t)

Spec == Init /\ [][Next]_vars

\* Every request is answered or times out, the refresh's too.
Fairness ==
    \A t \in Tabs :
        /\ WF_vars(BootStep(t)) /\ WF_vars(ServeRefresh(t)) /\ WF_vars(RefreshAnswer(t))
        /\ \A c \in Calls : WF_vars(CallStep(t, c))

FairSpec == Spec /\ Fairness

-----------------------------------------------------------------------------
(* Properties *)

TypeOK ==
    /\ jar \in [access : BOOLEAN, refresh : 0..MaxTokens]
    /\ honoured \subseteq Tokens
    /\ granted \in 0..MaxTokens
    /\ ended \in BOOLEAN
    /\ auth \in [Tabs -> BOOLEAN]
    /\ booting \in [Tabs -> SUBSET Boot]
    /\ calls \in [Tabs -> [Calls -> CallRecords]]
    /\ refresh \in [Tabs -> RefreshRecords]
    /\ entry \in [Tabs -> EntryRecords]
    /\ exit \in [Tabs -> ExitRecords]
    /\ spentBy \in [Tokens -> Tabs \cup {NoTab}]
    /\ lost \subseteq 0..MaxTokens
    /\ losses \in Nat /\ reloads \in Nat

\* A call waits only while a refresh is in flight, and a refresh is in flight only
\* while a call waits: nobody awaits a promise that nothing will settle (client.js:88).
WaitersHaveRefresh ==
    \A t \in Tabs : refresh[t].step # "none" <=> Waiting(t) # {}

\* The server refuses a tab no refresh token which that tab itself has spent, unless
\* the answer was lost: the calls that meet a 401 together share one rotation, and
\* a call that meets it later rotates the next token (client.js:89).
OwnTokenNeverRefused ==
    \A t \in Tabs : refresh[t].step = "refused" /\ refresh[t].token # 0 =>
        spentBy[refresh[t].token] # t \/ refresh[t].token \in lost

\* A signed-in tab is signed out only by its user, a reload, a lost request, a code
\* the server asked for, the end of the account's sessions, or the refusal of a
\* refresh token the tab has not spent itself: never by an expired access cookie
\* alone, whatever the number of requests that meet the expiry (client.js:157).
SignedOutForCause ==
    [][\A t \in Tabs : auth[t] /\ ~auth'[t] =>
          \/ exit[t].step # "none" \/ reloads' # reloads \/ losses' # losses
          \/ ended \/ entry[t].step = "challenged"
          \/ /\ refresh[t].step = "refused"
             /\ refresh[t].token \in Tokens \ lost => spentBy[refresh[t].token] # t]_vars

\* Every request of a tab ends, the ones that wait for a refresh included (client.js:50).
CallsSettle ==
    \A t \in Tabs, c \in Calls :
        calls[t][c].step # "idle" ~> calls[t][c].step = "idle"

\* The application leaves its loading screen, answered or not (AuthContext.jsx:29).
BootEnds == \A t \in Tabs : booting[t] # {} ~> booting[t] = {}

=============================================================================
