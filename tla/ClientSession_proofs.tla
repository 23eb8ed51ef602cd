------------------------ MODULE ClientSession_proofs ------------------------
(***************************************************************************)
(* Proofs about ClientSession, for any number of tabs and of requests and  *)
(* every bound on tokens, losses and reloads.                              *)
(***************************************************************************)
EXTENDS ClientSession, TLAPS

\* The records that a step writes have their types.
LEMMA Records ==
    /\ \A a \in BOOLEAN, s \in {"sent", "waiting", "retry"} :
          [step |-> s, access |-> a] \in CallRecords
    /\ Idle \in CallRecords /\ NoRefresh \in RefreshRecords
    /\ NoEntry \in EntryRecords /\ NoExit \in ExitRecords
    BY CountsAssumption
       DEF Idle, NoRefresh, NoEntry, NoExit, CallRecords, RefreshRecords, EntryRecords,
           ExitRecords, Portals

LEMMA RenewedRecord ==
    ASSUME NEW r \in RefreshRecords, NEW k \in 0..MaxTokens
    PROVE  [r EXCEPT !.step = "renewed", !.fresh = k] \in RefreshRecords
    BY DEF RefreshRecords

LEMMA EnteredRecord ==
    ASSUME NEW e \in EntryRecords, NEW k \in 0..MaxTokens,
           NEW s \in {"granted", "code_granted", "challenge"}
    PROVE  [e EXCEPT !.step = s, !.token = k] \in EntryRecords
    BY DEF EntryRecords

LEMMA NoToken == 0 \in 0..MaxTokens /\ 1 \in 0..MaxTokens
    BY CountsAssumption

-----------------------------------------------------------------------------
(* Type correctness *)

LEMMA SettledType ==
    ASSUME TypeOK, NEW t \in Tabs, NEW done, SettledBoot(t, done)
    PROVE  booting' \in [Tabs -> SUBSET Boot]
    BY DEF TypeOK, SettledBoot

LEMMA ExpireType ==
    ASSUME TypeOK, NEW t \in Tabs, Expire(t)
    PROVE  /\ calls' \in [Tabs -> [Calls -> CallRecords]]
           /\ auth' \in [Tabs -> BOOLEAN]
           /\ booting' \in [Tabs -> SUBSET Boot]
    <1>1. calls' \in [Tabs -> [Calls -> CallRecords]]
      BY Records DEF TypeOK, Expire
    <1>2. auth' \in [Tabs -> BOOLEAN]
      BY DEF TypeOK, Expire
    <1>3. booting' \in [Tabs -> SUBSET Boot]
      BY SettledType DEF Expire
    <1> QED BY <1>1, <1>2, <1>3

LEMMA SpendType ==
    ASSUME TypeOK, NEW t \in Tabs, NEW tok, Grants(tok), Spend(t, tok)
    PROVE  /\ granted + 1 \in Tokens
           /\ granted' \in 0..MaxTokens /\ honoured' \subseteq Tokens
           /\ spentBy' \in [Tokens -> Tabs \cup {NoTab}]
    <1>1. granted + 1 \in Tokens
      BY CountsAssumption DEF TypeOK, Grants, Tokens
    <1>2. /\ granted' = granted + 1 /\ honoured' = (honoured \ {tok}) \cup {granted + 1}
          /\ spentBy' = [spentBy EXCEPT ![tok] = t]
      BY DEF Spend
    <1>3. granted' \in 0..MaxTokens
      BY <1>1, <1>2, CountsAssumption DEF Tokens
    <1>4. honoured' \subseteq Tokens
      BY <1>1, <1>2 DEF TypeOK
    <1>5. spentBy' \in [Tokens -> Tabs \cup {NoTab}]
      BY <1>2 DEF TypeOK
    <1> QED BY <1>1, <1>3, <1>4, <1>5

LEMMA AbandonType ==
    ASSUME TypeOK, NEW t \in Tabs, Abandon(t)
    PROVE  /\ refresh' \in [Tabs -> RefreshRecords]
           /\ lost' \subseteq 0..MaxTokens
           /\ granted' \in 0..MaxTokens /\ honoured' \subseteq Tokens
           /\ spentBy' \in [Tokens -> Tabs \cup {NoTab}]
    <1>1. refresh[t] \in RefreshRecords
      BY DEF TypeOK
    <1>2. refresh' \in [Tabs -> RefreshRecords]
      BY Records DEF TypeOK, Abandon
    <1>3. lost' \subseteq 0..MaxTokens
      BY <1>1 DEF TypeOK, Abandon, RefreshRecords
    <1>4. CASE UNCHANGED <<honoured, granted, spentBy>>
      BY <1>2, <1>3, <1>4 DEF TypeOK
    <1>5. CASE Grants(refresh[t].token) /\ Spend(t, refresh[t].token)
      BY <1>2, <1>3, <1>5, SpendType
    <1> QED BY <1>4, <1>5 DEF Abandon

LEMMA TypeCalls ==
    ASSUME TypeOK, NEW t \in Tabs, NEW c \in Calls, StartCall(t, c) \/ CallStep(t, c)
    PROVE  TypeOK'
    <1> USE DEF TypeOK, server, bounds
    <1>1. CASE StartCall(t, c)
      BY <1>1, Records DEF StartCall, Sent
    <1>2. CASE AnswerCall(t, c)
      BY <1>2, Records, SettledType DEF AnswerCall
    <1>3. CASE RejectCall(t, c)
      <2>1. refresh' \in [Tabs -> RefreshRecords]
        BY <1>3, CountsAssumption DEF RejectCall, JoinRefresh, RefreshRecords
      <2>2. calls' \in [Tabs -> [Calls -> CallRecords]]
        BY <1>3, Records DEF RejectCall
      <2> QED BY <2>1, <2>2, <1>3 DEF RejectCall
    <1>4. CASE RejectRetry(t, c)
      BY <1>4, Records, SettledType DEF RejectRetry
    <1>5. CASE LoseCall(t, c)
      BY <1>5, Records, SettledType, CountsAssumption DEF LoseCall, Lose
    <1> QED BY <1>1, <1>2, <1>3, <1>4, <1>5 DEF CallStep

LEMMA TypeRefresh ==
    ASSUME TypeOK, NEW t \in Tabs, BootStep(t) \/ ServeRefresh(t) \/ RefreshAnswer(t)
    PROVE  TypeOK'
    <1> USE DEF TypeOK, server, bounds
    <1>1. CASE AnswerCsrf(t)
      BY <1>1, SettledType DEF AnswerCsrf
    <1>2. CASE LoseCsrf(t)
      BY <1>2, SettledType, CountsAssumption DEF LoseCsrf, Lose
    <1>3. CASE ServeRefresh(t)
      <2>1. CASE Grants(refresh[t].token) /\ Spend(t, refresh[t].token)
                 /\ refresh' = [refresh EXCEPT ![t].step = "renewed", ![t].fresh = granted + 1]
        <3>1. granted + 1 \in 0..MaxTokens
          BY <2>1, SpendType, CountsAssumption DEF Tokens
        <3>2. refresh' \in [Tabs -> RefreshRecords]
          <4>1. [refresh[t] EXCEPT !.step = "renewed", !.fresh = granted + 1] \in RefreshRecords
            BY <3>1, RenewedRecord
          <4> QED BY <2>1, <4>1
        <3>3. /\ granted' \in 0..MaxTokens /\ honoured' \subseteq Tokens
              /\ spentBy' \in [Tokens -> Tabs \cup {NoTab}]
          BY <2>1, SpendType
        <3> QED BY <1>3, <3>2, <3>3 DEF ServeRefresh
      <2>2. CASE /\ refresh' = [refresh EXCEPT ![t].step = "refused"]
                 /\ honoured' = honoured \ {refresh[t].token}
                 /\ UNCHANGED <<granted, spentBy>>
        <3>1. refresh' \in [Tabs -> RefreshRecords]
          BY <2>2 DEF RefreshRecords
        <3> QED BY <1>3, <2>2, <3>1 DEF ServeRefresh
      <2> QED BY <1>3, <2>1, <2>2 DEF ServeRefresh
    <1>4. CASE ArriveRenewed(t)
      <2>1. jar' \in [access : BOOLEAN, refresh : 0..MaxTokens]
        BY <1>4 DEF ArriveRenewed, RefreshRecords
      <2>2. calls' \in [Tabs -> [Calls -> CallRecords]]
        BY <1>4, Records DEF ArriveRenewed
      <2> QED BY <1>4, <2>1, <2>2, Records DEF ArriveRenewed
    <1>5. CASE ArriveRefused(t)
      <2>1. jar' \in [access : BOOLEAN, refresh : 0..MaxTokens]
        BY <1>5, CountsAssumption DEF ArriveRefused
      <2> QED BY <1>5, <2>1, ExpireType, Records DEF ArriveRefused
    <1>6. CASE LoseRefresh(t)
      <2>1. Abandon(t) /\ Expire(t) /\ losses' = losses + 1
            /\ UNCHANGED <<jar, ended, entry, exit, reloads>>
        BY <1>6 DEF LoseRefresh, Lose
      <2> QED BY <2>1, AbandonType, ExpireType
    <1> QED BY <1>1, <1>2, <1>3, <1>4, <1>5, <1>6 DEF BootStep, RefreshAnswer

LEMMA TypeLogin ==
    ASSUME TypeOK, NEW t \in Tabs,
           \/ \E portal \in Portals : PostLogin(t, portal)
           \/ PostCode(t) \/ BackToLogin(t) \/ ServeLogin(t)
           \/ ArriveGrant(t) \/ ArriveChallenge(t) \/ LoseLogin(t)
    PROVE  TypeOK'
    <1> USE DEF TypeOK, server, bounds
    <1>0. entry[t] \in EntryRecords
      OBVIOUS
    <1>1. ASSUME NEW portal \in Portals, PostLogin(t, portal) PROVE TypeOK'
      <2>1. entry' \in [Tabs -> EntryRecords]
        BY <1>1, CountsAssumption DEF PostLogin, EntryRecords
      <2> QED BY <1>1, <2>1 DEF PostLogin
    <1>2. CASE PostCode(t)
      <2>1. entry' \in [Tabs -> EntryRecords]
        BY <1>2 DEF PostCode, EntryRecords
      <2> QED BY <1>2, <2>1 DEF PostCode
    <1>3. CASE BackToLogin(t)
      BY <1>3, Records DEF BackToLogin
    <1>4. CASE ServeLogin(t)
      <2>1. CASE /\ granted < MaxTokens /\ granted' = granted + 1
                 /\ honoured' = honoured \cup {granted + 1}
                 /\ entry' = [entry EXCEPT
                       ![t].step = IF @ = "posted" THEN "granted" ELSE "code_granted",
                       ![t].token = granted + 1]
        <3>1. granted + 1 \in Tokens /\ granted + 1 \in 0..MaxTokens
          BY <2>1, CountsAssumption DEF Tokens
        <3>2. entry' \in [Tabs -> EntryRecords]
          <4>1. \A s \in {"granted", "code_granted"} :
                  [entry[t] EXCEPT !.step = s, !.token = granted + 1] \in EntryRecords
            BY <1>0, <3>1, EnteredRecord
          <4> QED BY <2>1, <4>1
        <3>3. granted' \in 0..MaxTokens /\ honoured' \subseteq Tokens
          BY <2>1, <3>1
        <3> QED BY <1>4, <3>2, <3>3 DEF ServeLogin
      <2>2. CASE /\ UNCHANGED <<granted, honoured>>
                 /\ entry' = [entry EXCEPT
                       ![t] = IF @.step = "posted" THEN NoEntry
                              ELSE [@ EXCEPT !.step = "challenge"]]
        <3>1. entry' \in [Tabs -> EntryRecords]
          BY <2>2, <1>0, Records DEF EntryRecords
        <3> QED BY <1>4, <2>2, <3>1 DEF ServeLogin
      <2>3. CASE /\ UNCHANGED <<granted, honoured>>
                 /\ entry' = [entry EXCEPT ![t].step = "challenged"]
        <3>1. entry' \in [Tabs -> EntryRecords]
          BY <2>3 DEF EntryRecords
        <3> QED BY <1>4, <2>3, <3>1 DEF ServeLogin
      <2> QED BY <1>4, <2>1, <2>2, <2>3 DEF ServeLogin
    <1>5. CASE ArriveGrant(t)
      <2>1. jar' \in [access : BOOLEAN, refresh : 0..MaxTokens]
        BY <1>5, <1>0 DEF ArriveGrant, EntryRecords
      <2>2. calls' \in [Tabs -> [Calls -> CallRecords]]
        <3>1. "session" \in Calls /\ [step |-> "sent", access |-> TRUE] \in CallRecords
          BY Records DEF Calls
        <3>2. \/ calls' = calls
              \/ calls' = [calls EXCEPT ![t]["session"] =
                              IF @ = Idle THEN [step |-> "sent", access |-> TRUE] ELSE @]
          BY <1>5 DEF ArriveGrant
        <3>3. (IF calls[t]["session"] = Idle THEN [step |-> "sent", access |-> TRUE]
               ELSE calls[t]["session"]) \in CallRecords
          BY <3>1
        <3>4. ASSUME NEW x \in CallRecords, calls' = [calls EXCEPT ![t]["session"] = x]
              PROVE  calls' \in [Tabs -> [Calls -> CallRecords]]
          BY <3>1, <3>4
        <3> QED BY <3>2, <3>3, <3>4
      <2>3. auth' \in [Tabs -> BOOLEAN] /\ entry' \in [Tabs -> EntryRecords]
        BY <1>5, Records DEF ArriveGrant
      <2> QED BY <1>5, <2>1, <2>2, <2>3 DEF ArriveGrant
    <1>6. CASE ArriveChallenge(t)
      <2>1. entry' \in [Tabs -> EntryRecords]
        BY <1>6 DEF ArriveChallenge, EntryRecords, Portals
      <2> QED BY <1>6, <2>1 DEF ArriveChallenge
    <1>7. CASE LoseLogin(t)
      <2>1. entry' \in [Tabs -> EntryRecords]
        <3>1. [entry[t] EXCEPT !.step = "challenge", !.token = 0] \in EntryRecords
          BY <1>0, NoToken, EnteredRecord
        <3> QED BY <1>7, <3>1, Records DEF LoseLogin
      <2> QED BY <1>7, <2>1, CountsAssumption DEF LoseLogin, Lose
    <1> QED BY <1>1, <1>2, <1>3, <1>4, <1>5, <1>6, <1>7

LEMMA TypeLogout ==
    ASSUME TypeOK, NEW t \in Tabs,
           PostLogout(t) \/ ServeLogout(t) \/ ArriveLogout(t) \/ LoseLogout(t) \/ Reload(t)
    PROVE  TypeOK'
    <1> USE DEF TypeOK, server, bounds
    <1>1. CASE PostLogout(t)
      <2>1. exit' \in [Tabs -> ExitRecords]
        BY <1>1 DEF PostLogout, ExitRecords
      <2> QED BY <1>1, <2>1 DEF PostLogout
    <1>2. CASE ServeLogout(t)
      <2>1. exit' \in [Tabs -> ExitRecords]
        BY <1>2 DEF ServeLogout, ExitRecords
      <2> QED BY <1>2, <2>1 DEF ServeLogout
    <1>3. CASE ArriveLogout(t)
      BY <1>3, Records, CountsAssumption DEF ArriveLogout
    <1>4. CASE LoseLogout(t)
      BY <1>4, Records, CountsAssumption DEF LoseLogout, Lose
    <1>5. CASE Reload(t)
      <2>1. /\ calls' \in [Tabs -> [Calls -> CallRecords]]
            /\ booting' \in [Tabs -> SUBSET Boot]
        BY <1>5, Records DEF Reload, Sent
      <2>2. Abandon(t) /\ reloads' = reloads + 1 /\ UNCHANGED <<jar, ended, exit, losses>>
            /\ auth' = [auth EXCEPT ![t] = FALSE] /\ entry' = [entry EXCEPT ![t] = NoEntry]
        BY <1>5 DEF Reload
      <2> QED BY <2>1, <2>2, AbandonType, Records
    <1> QED BY <1>1, <1>2, <1>3, <1>4, <1>5

\* A step is one of the environment or of a tab.
LEMMA Steps ==
    ASSUME [Next]_vars
    PROVE  \/ AccessExpires \/ ServerEnds \/ UNCHANGED vars
           \/ \E t \in Tabs, c \in Calls : StartCall(t, c) \/ CallStep(t, c)
           \/ \E t \in Tabs : BootStep(t) \/ ServeRefresh(t) \/ RefreshAnswer(t)
           \/ \E t \in Tabs : \/ \E portal \in Portals : PostLogin(t, portal)
                              \/ PostCode(t) \/ BackToLogin(t) \/ ServeLogin(t)
                              \/ ArriveGrant(t) \/ ArriveChallenge(t) \/ LoseLogin(t)
           \/ \E t \in Tabs : \/ PostLogout(t) \/ ServeLogout(t) \/ ArriveLogout(t)
                              \/ LoseLogout(t) \/ Reload(t)
    BY DEF Next, TabNext, LoginPage, PosLoginPage, SuperRootLoginPage, SuperRootMfaPage, Portals

LEMMA TypeStep ==
    ASSUME TypeOK, [Next]_vars
    PROVE  TypeOK'
    <1>1. CASE AccessExpires
      BY <1>1 DEF TypeOK, AccessExpires, server, bounds
    <1>2. CASE ServerEnds
      BY <1>2 DEF TypeOK, ServerEnds, server, bounds
    <1>3. CASE UNCHANGED vars
      BY <1>3 DEF TypeOK, vars
    <1> QED BY <1>1, <1>2, <1>3, Steps, TypeCalls, TypeRefresh, TypeLogin, TypeLogout

LEMMA TypeInit == Init => TypeOK
    <1> SUFFICES ASSUME Init PROVE TypeOK
      OBVIOUS
    <1>1. jar \in [access : BOOLEAN, refresh : 0..MaxTokens] /\ jar.refresh \in {0, 1}
      <2>1. \/ jar = [access |-> FALSE, refresh |-> 0]
            \/ jar = [access |-> FALSE, refresh |-> 1]
            \/ jar = [access |-> TRUE, refresh |-> 1]
        BY DEF Init
      <2>2. jar.refresh \in {0, 1}
        BY <2>1
      <2>3. \A a \in BOOLEAN, k \in 0..MaxTokens :
               [access |-> a, refresh |-> k] \in [access : BOOLEAN, refresh : 0..MaxTokens]
        OBVIOUS
      <2> QED BY <2>1, <2>2, <2>3, NoToken
    <1>2. honoured \subseteq Tokens /\ granted \in 0..MaxTokens
      BY <1>1, CountsAssumption DEF Init, Tokens
    <1>3. calls \in [Tabs -> [Calls -> CallRecords]]
      BY <1>1, Records DEF Init, Sent
    <1> QED BY <1>1, <1>2, <1>3, Records DEF Init, TypeOK, Boot, Tokens

\* Every reachable state of the session is well typed.
THEOREM SessionTypeCorrect == Spec => []TypeOK
    BY TypeInit, TypeStep, PTL DEF Spec

-----------------------------------------------------------------------------
(* Who waits for a refresh *)

\* A step that leaves the other tabs alone needs only be checked in its own.
LEMMA WaitersKept ==
    ASSUME WaitersHaveRefresh, NEW t \in Tabs,
           \A u \in Tabs \ {t} : calls'[u] = calls[u] /\ refresh'[u] = refresh[u],
           refresh'[t].step # "none" <=> \E c \in Calls : calls'[t][c].step = "waiting"
    PROVE  WaitersHaveRefresh'
    BY DEF WaitersHaveRefresh, Waiting

LEMMA SomeoneWaits ==
    ASSUME WaitersHaveRefresh, NEW t \in Tabs
    PROVE  refresh[t].step # "none" <=> \E c \in Calls : calls[t][c].step = "waiting"
    BY DEF WaitersHaveRefresh, Waiting

\* The steps of a call: only the first 401 makes it wait, and joins the refresh.
LEMMA WaitersCalls ==
    ASSUME TypeOK, WaitersHaveRefresh, NEW t \in Tabs, NEW c \in Calls,
           StartCall(t, c) \/ CallStep(t, c)
    PROVE  WaitersHaveRefresh'
    <1> USE DEF TypeOK
    <1>1. ASSUME NEW x, x.step # "waiting", calls[t][c].step # "waiting",
                 calls' = [calls EXCEPT ![t][c] = x], refresh' = refresh
          PROVE  WaitersHaveRefresh'
      <2>1. \A d \in Calls : calls'[t][d].step = "waiting" <=> calls[t][d].step = "waiting"
        BY <1>1
      <2>2. \A u \in Tabs \ {t} : calls'[u] = calls[u] /\ refresh'[u] = refresh[u]
        BY <1>1
      <2> QED BY <1>1, <2>1, <2>2, SomeoneWaits, WaitersKept
    <1>2. CASE StartCall(t, c)
      <2>1. /\ calls' = [calls EXCEPT ![t][c] = Sent("sent")] /\ Sent("sent").step # "waiting"
            /\ calls[t][c].step # "waiting" /\ refresh' = refresh
        BY <1>2 DEF StartCall, Sent, Idle
      <2> QED BY <1>1, <2>1
    <1>3. CASE AnswerCall(t, c)
      <2>1. /\ calls' = [calls EXCEPT ![t][c] = Idle] /\ Idle.step # "waiting"
            /\ calls[t][c].step # "waiting" /\ refresh' = refresh
        BY <1>3 DEF AnswerCall, Idle
      <2> QED BY <1>1, <2>1
    <1>4. CASE RejectCall(t, c)
      <2>1. /\ calls' = [calls EXCEPT ![t][c] = [step |-> "waiting", access |-> FALSE]]
            /\ JoinRefresh(t)
        BY <1>4 DEF RejectCall
      <2>2. \A u \in Tabs \ {t} : calls'[u] = calls[u] /\ refresh'[u] = refresh[u]
        BY <2>1 DEF JoinRefresh
      <2>3. calls'[t][c].step = "waiting" /\ refresh'[t].step # "none"
        BY <2>1 DEF JoinRefresh
      <2> QED BY <2>2, <2>3, WaitersKept
    <1>5. CASE RejectRetry(t, c)
      <2>1. /\ calls' = [calls EXCEPT ![t][c] = Idle] /\ Idle.step # "waiting"
            /\ calls[t][c].step # "waiting" /\ refresh' = refresh
        BY <1>5 DEF RejectRetry, Idle
      <2> QED BY <1>1, <2>1
    <1>6. CASE LoseCall(t, c)
      <2>1. /\ calls' = [calls EXCEPT ![t][c] = Idle] /\ Idle.step # "waiting"
            /\ calls[t][c].step # "waiting" /\ refresh' = refresh
        BY <1>6 DEF LoseCall, Idle
      <2> QED BY <1>1, <2>1
    <1> QED BY <1>2, <1>3, <1>4, <1>5, <1>6 DEF CallStep

\* When the promise settles nobody waits for it any more.
LEMMA WaitersSettled ==
    ASSUME TypeOK, WaitersHaveRefresh, NEW t \in Tabs,
           refresh' = [refresh EXCEPT ![t] = NoRefresh],
           calls'[t] \in [Calls -> CallRecords],
           \A u \in Tabs \ {t} : calls'[u] = calls[u],
           \A c \in Calls : calls'[t][c].step # "waiting"
    PROVE  WaitersHaveRefresh'
    <1>1. refresh'[t].step = "none" /\ \A u \in Tabs \ {t} : refresh'[u] = refresh[u]
      BY DEF TypeOK, NoRefresh
    <1> QED BY <1>1, WaitersKept

LEMMA ExpiredWait ==
    ASSUME TypeOK, NEW t \in Tabs, Expire(t)
    PROVE  /\ calls'[t] \in [Calls -> CallRecords]
           /\ \A u \in Tabs \ {t} : calls'[u] = calls[u]
           /\ \A c \in Calls : calls'[t][c].step # "waiting"
    <1>1. calls' = [calls EXCEPT ![t] =
                       [c \in Calls |-> IF c \in Waiting(t) THEN Idle ELSE calls[t][c]]]
      BY DEF Expire, TypeOK
    <1>2. calls'[t] = [c \in Calls |-> IF c \in Waiting(t) THEN Idle ELSE calls[t][c]]
      BY <1>1 DEF TypeOK
    <1>3. \A c \in Calls : calls'[t][c].step # "waiting"
      BY <1>2 DEF Waiting, Idle
    <1> QED BY <1>1, <1>3, ExpireType DEF TypeOK

LEMMA WaitersRefresh ==
    ASSUME TypeOK, WaitersHaveRefresh, NEW t \in Tabs,
           BootStep(t) \/ ServeRefresh(t) \/ RefreshAnswer(t)
    PROVE  WaitersHaveRefresh'
    <1>1. CASE AnswerCsrf(t)
      BY <1>1 DEF AnswerCsrf, WaitersHaveRefresh, Waiting
    <1>2. CASE LoseCsrf(t)
      BY <1>2 DEF LoseCsrf, WaitersHaveRefresh, Waiting
    <1>3. CASE ServeRefresh(t)
      <2>1. /\ calls' = calls /\ refresh[t].step = "sent"
            /\ \A u \in Tabs : refresh'[u].step # "none" <=> refresh[u].step # "none"
        <3>1. \/ refresh' = [refresh EXCEPT ![t].step = "renewed", ![t].fresh = granted + 1]
              \/ refresh' = [refresh EXCEPT ![t].step = "refused"]
          BY <1>3 DEF ServeRefresh
        <3>2. calls' = calls /\ refresh[t].step = "sent"
          BY <1>3 DEF ServeRefresh
        <3> QED BY <3>1, <3>2 DEF TypeOK, RefreshRecords
      <2> QED BY <2>1 DEF WaitersHaveRefresh, Waiting
    <1>4. CASE ArriveRenewed(t)
      <2>1. calls' = [calls EXCEPT ![t] =
                         [c \in Calls |-> IF c \in Waiting(t)
                                          THEN [step |-> "retry", access |-> TRUE]
                                          ELSE calls[t][c]]]
        BY <1>4 DEF ArriveRenewed, TypeOK
      <2>2. calls'[t] = [c \in Calls |-> IF c \in Waiting(t)
                                         THEN [step |-> "retry", access |-> TRUE]
                                         ELSE calls[t][c]]
        BY <2>1 DEF TypeOK
      <2>3. \A c \in Calls : calls'[t][c].step # "waiting"
        BY <2>2 DEF Waiting
      <2>4. calls'[t] \in [Calls -> CallRecords]
        BY <2>2, Records DEF TypeOK
      <2>5. refresh' = [refresh EXCEPT ![t] = NoRefresh]
        BY <1>4 DEF ArriveRenewed
      <2> QED BY <2>1, <2>3, <2>4, <2>5, WaitersSettled DEF TypeOK
    <1>5. CASE ArriveRefused(t)
      BY <1>5, ExpiredWait, WaitersSettled DEF ArriveRefused
    <1>6. CASE LoseRefresh(t)
      BY <1>6, ExpiredWait, WaitersSettled DEF LoseRefresh, Abandon
    <1> QED BY <1>1, <1>2, <1>3, <1>4, <1>5, <1>6 DEF BootStep, RefreshAnswer

LEMMA WaitersEntry ==
    ASSUME TypeOK, WaitersHaveRefresh, NEW t \in Tabs,
           \/ \E portal \in Portals : PostLogin(t, portal)
           \/ PostCode(t) \/ BackToLogin(t) \/ ServeLogin(t)
           \/ ArriveGrant(t) \/ ArriveChallenge(t) \/ LoseLogin(t)
           \/ PostLogout(t) \/ ServeLogout(t) \/ ArriveLogout(t) \/ LoseLogout(t) \/ Reload(t)
    PROVE  WaitersHaveRefresh'
    <1>1. CASE calls' = calls /\ refresh' = refresh
      BY <1>1 DEF WaitersHaveRefresh, Waiting
    <1>2. CASE ArriveGrant(t) /\ calls' # calls
      <2>1. /\ refresh' = refresh
            /\ calls[t]["session"] = Idle
            /\ calls' = [calls EXCEPT ![t]["session"] = [step |-> "sent", access |-> TRUE]]
        <3>1. calls' = [calls EXCEPT ![t]["session"] =
                           IF calls[t]["session"] = Idle THEN [step |-> "sent", access |-> TRUE]
                           ELSE calls[t]["session"]]
          BY <1>2 DEF ArriveGrant, TypeOK
        <3>2. calls[t]["session"] = Idle
          BY <1>2, <3>1 DEF TypeOK
        <3> QED BY <1>2, <3>1, <3>2 DEF ArriveGrant
      <2>2. \A c \in Calls : calls'[t][c].step = "waiting" <=> calls[t][c].step = "waiting"
        BY <2>1 DEF TypeOK, Idle
      <2>3. \A u \in Tabs \ {t} : calls'[u] = calls[u] /\ refresh'[u] = refresh[u]
        BY <2>1 DEF TypeOK
      <2> QED BY <2>1, <2>2, <2>3, SomeoneWaits, WaitersKept
    <1>3. CASE Reload(t)
      <2>1. calls' = [calls EXCEPT ![t] =
                         [c \in Calls |-> IF c = "session" THEN Sent("sent") ELSE Idle]]
        BY <1>3 DEF Reload
      <2>2. calls'[t] = [c \in Calls |-> IF c = "session" THEN Sent("sent") ELSE Idle]
        BY <2>1 DEF TypeOK
      <2>3. \A c \in Calls : calls'[t][c].step # "waiting"
        BY <2>2 DEF Sent, Idle
      <2>4. calls'[t] \in [Calls -> CallRecords]
        BY <2>2, Records DEF TypeOK, Sent
      <2> QED BY <1>3, <2>1, <2>3, <2>4, WaitersSettled DEF Reload, Abandon, TypeOK
    <1> QED
      BY <1>1, <1>2, <1>3
         DEF PostLogin, PostCode, BackToLogin, ServeLogin, ArriveGrant, ArriveChallenge,
             LoseLogin, PostLogout, ServeLogout, ArriveLogout, LoseLogout

LEMMA WaitersStep ==
    ASSUME TypeOK, WaitersHaveRefresh, [Next]_vars
    PROVE  WaitersHaveRefresh'
    <1>1. CASE calls' = calls /\ refresh' = refresh
      BY <1>1 DEF WaitersHaveRefresh, Waiting
    <1> QED
      BY <1>1, Steps, WaitersCalls, WaitersRefresh, WaitersEntry
         DEF AccessExpires, ServerEnds, vars

LEMMA WaitersInit == Init => WaitersHaveRefresh
    <1> SUFFICES ASSUME Init PROVE WaitersHaveRefresh
      OBVIOUS
    <1>1. ASSUME NEW t \in Tabs PROVE refresh[t].step = "none" /\ Waiting(t) = {}
      BY DEF Init, NoRefresh, Waiting, Sent, Idle
    <1> QED BY <1>1 DEF WaitersHaveRefresh

\* Nobody awaits a promise that nothing will settle, and no promise is left unawaited.
THEOREM WaitersAreServed == Spec => []WaitersHaveRefresh
    <1> QED BY TypeInit, TypeStep, WaitersInit, WaitersStep, PTL DEF Spec

-----------------------------------------------------------------------------
(* Where the tokens are *)

Renewed(t) == refresh[t].step = "renewed"
Entered(t) == entry[t].step \in {"granted", "code_granted"}

\* Only tokens that were granted are anywhere.
TokensGranted ==
    /\ jar.refresh <= granted
    /\ \A t \in Tabs : /\ refresh[t].token <= granted /\ refresh[t].fresh <= granted
                       /\ entry[t].token <= granted
    /\ \A k \in Tokens : k > granted => spentBy[k] = NoTab

\* A token whose answer has not arrived was never in the jar, nor spent.
Unseen(k) ==
    /\ k \in Tokens /\ jar.refresh # k /\ spentBy[k] = NoTab
    /\ \A u \in Tabs : refresh[u].token # k
ComingUnseen ==
    \A t \in Tabs : /\ Renewed(t) => Unseen(refresh[t].fresh)
                    /\ Entered(t) => Unseen(entry[t].token)

\* And it is in one answer only.
ComingOnce ==
    \A t, u \in Tabs :
        /\ Renewed(t) /\ Renewed(u) /\ refresh[t].fresh = refresh[u].fresh => t = u
        /\ Entered(t) /\ Entered(u) /\ entry[t].token = entry[u].token => t = u
        /\ Renewed(t) /\ Entered(u) => refresh[t].fresh # entry[u].token

\* A token that a tab spent is in the jar only until the answer arrives or is lost.
SpentLeaves ==
    \A t \in Tabs, k \in Tokens :
        spentBy[k] = t => k \in lost \/ (Renewed(t) /\ refresh[t].token = k) \/ jar.refresh # k

\* A tab sends no token that it spent itself.
OwnTokenUnsent ==
    \A t \in Tabs :
        refresh[t].step \in {"sent", "refused"} /\ refresh[t].token # 0 =>
            spentBy[refresh[t].token] # t \/ refresh[t].token \in lost

TokenInv == TokensGranted /\ ComingUnseen /\ ComingOnce /\ SpentLeaves /\ OwnTokenUnsent

LEMMA TokenTypes ==
    ASSUME TypeOK
    PROVE  /\ granted \in Nat /\ jar.refresh \in Nat
           /\ \A t \in Tabs : /\ refresh[t] \in RefreshRecords /\ refresh[t].token \in 0..MaxTokens
                              /\ refresh[t].fresh \in 0..MaxTokens /\ entry[t].token \in 0..MaxTokens
    BY CountsAssumption DEF TypeOK, RefreshRecords, EntryRecords

\* A step that sends, brings and loses no token; the jar may be emptied.
LEMMA TokensRest ==
    ASSUME TypeOK, TokenInv,
           UNCHANGED <<granted, spentBy, refresh, lost>>, jar'.refresh \in {jar.refresh, 0},
           \A t \in Tabs : \/ entry'[t] = entry[t]
                           \/ /\ entry'[t].step \notin {"granted", "code_granted"}
                              /\ entry'[t].token \in {0, entry[t].token}
    PROVE  TokenInv'
    <1> USE TokenTypes DEF TokenInv
    <1>1. TokensGranted'
      BY DEF TokensGranted, Tokens
    <1>2. ComingUnseen'
      BY DEF ComingUnseen, Unseen, Renewed, Entered, Tokens
    <1>3. ComingOnce'
      BY DEF ComingOnce, Renewed, Entered
    <1>4. SpentLeaves'
      BY DEF SpentLeaves, Renewed, Tokens
    <1>5. OwnTokenUnsent'
      BY DEF OwnTokenUnsent
    <1> QED BY <1>1, <1>2, <1>3, <1>4, <1>5

\* A refresh is sent with the token of the jar.
LEMMA TokensJoin ==
    ASSUME TypeOK, TokenInv, NEW t \in Tabs, JoinRefresh(t),
           UNCHANGED <<jar, granted, spentBy, lost, entry>>
    PROVE  TokenInv'
    <1>1. CASE refresh[t].step # "none"
      BY <1>1, TokensRest DEF JoinRefresh
    <1>2. CASE refresh[t].step = "none"
      <2> USE TokenTypes DEF TokenInv
      <2>1. refresh'[t] = [step |-> "sent", token |-> jar.refresh, fresh |-> 0]
            /\ \A u \in Tabs \ {t} : refresh'[u] = refresh[u]
        BY <1>2 DEF JoinRefresh, TypeOK
      <2>2. TokensGranted'
        BY <2>1 DEF TokensGranted
      <2>3. ComingUnseen'
        BY <2>1 DEF ComingUnseen, Unseen, Renewed, Entered
      <2>4. ComingOnce'
        BY <2>1 DEF ComingOnce, Renewed, Entered
      <2>5. SpentLeaves'
        BY <1>2, <2>1 DEF SpentLeaves, Renewed
      <2>6. OwnTokenUnsent'
        <3>1. jar.refresh # 0 => jar.refresh \in Tokens
          BY DEF TypeOK, Tokens
        <3>2. jar.refresh # 0 => spentBy[jar.refresh] # t \/ jar.refresh \in lost
          BY <1>2, <3>1 DEF SpentLeaves, Renewed
        <3> QED BY <2>1, <3>2 DEF OwnTokenUnsent
      <2> QED BY <2>2, <2>3, <2>4, <2>5, <2>6
    <1> QED BY <1>1, <1>2

\* Nothing changes for the tokens but that a refresh was refused.
LEMMA TokensRefused ==
    ASSUME TypeOK, TokenInv, NEW t \in Tabs, refresh[t].step = "sent",
           refresh' = [refresh EXCEPT ![t].step = "refused"],
           UNCHANGED <<jar, granted, spentBy, lost, entry>>
    PROVE  TokenInv'
    <1> USE TokenTypes DEF TokenInv
    <1>1. /\ refresh'[t].step = "refused" /\ refresh'[t].token = refresh[t].token
          /\ refresh'[t].fresh = refresh[t].fresh
          /\ \A u \in Tabs \ {t} : refresh'[u] = refresh[u]
      BY DEF TypeOK, RefreshRecords
    <1>2. TokensGranted'
      BY <1>1 DEF TokensGranted
    <1>3. ComingUnseen'
      BY <1>1 DEF ComingUnseen, Unseen, Renewed, Entered
    <1>4. ComingOnce'
      BY <1>1 DEF ComingOnce, Renewed, Entered
    <1>5. SpentLeaves'
      BY <1>1 DEF SpentLeaves, Renewed
    <1>6. OwnTokenUnsent'
      BY <1>1 DEF OwnTokenUnsent
    <1> QED BY <1>2, <1>3, <1>4, <1>5, <1>6

\* What spending the token of a refresh changes, whatever becomes of its answer.
LEMMA SpendEffect ==
    ASSUME TypeOK, TokenInv, NEW t \in Tabs, NEW tok \in Tokens,
           tok = refresh[t].token, Grants(tok), Spend(t, tok)
    PROVE  /\ granted + 1 \in Tokens /\ granted' = granted + 1 /\ granted \in Nat
           /\ spentBy'[tok] = t /\ \A k \in Tokens \ {tok} : spentBy'[k] = spentBy[k]
           /\ spentBy[granted + 1] = NoTab /\ tok # granted + 1 /\ tok <= granted
    <1>1. granted + 1 \in Tokens /\ granted \in Nat
      BY SpendType, TokenTypes
    <1>2. granted' = granted + 1 /\ spentBy' = [spentBy EXCEPT ![tok] = t]
      BY DEF Spend
    <1>3. spentBy[granted + 1] = NoTab
      BY <1>1 DEF TokenInv, TokensGranted
    <1>4. tok <= granted
      BY DEF TokenInv, TokensGranted
    <1> QED BY <1>1, <1>2, <1>3, <1>4 DEF TypeOK, Tokens

LEMMA TokensRenewed ==
    ASSUME TypeOK, TokenInv, NEW t \in Tabs, refresh[t].step = "sent",
           NEW tok \in Tokens, tok = refresh[t].token, Grants(tok), Spend(t, tok),
           NEW new, new = granted + 1,
           refresh'[t].step = "renewed", refresh'[t].token = tok, refresh'[t].fresh = new,
           \A u \in Tabs \ {t} : refresh'[u] = refresh[u],
           UNCHANGED <<jar, lost, entry>>
    PROVE  TokenInv'
    <1>1. /\ new \in Tokens /\ granted' = new /\ granted \in Nat /\ granted < new
          /\ spentBy'[tok] = t /\ \A k \in Tokens \ {tok} : spentBy'[k] = spentBy[k]
          /\ spentBy[new] = NoTab /\ tok # new /\ tok <= granted
      BY SpendEffect
    <1>3. NoTab \notin Tabs
      BY TabsAssumption DEF NoTab
    <1>4. TokensGranted'
      <2>1. ASSUME NEW k \in Nat, k <= granted PROVE k <= granted'
        BY <1>1, <2>1 DEF Tokens
      <2>2. jar'.refresh <= granted'
        BY <2>1, TokenTypes DEF TokenInv, TokensGranted
      <2>3. ASSUME NEW u \in Tabs
            PROVE  /\ refresh'[u].token <= granted' /\ refresh'[u].fresh <= granted'
                   /\ entry'[u].token <= granted'
        BY <1>1, <2>1, TokenTypes DEF TokenInv, TokensGranted, Tokens
      <2>4. ASSUME NEW k \in Tokens, k > granted' PROVE spentBy'[k] = NoTab
        BY <1>1, <2>4 DEF TokenInv, TokensGranted, Tokens
      <2> QED BY <2>2, <2>3, <2>4 DEF TokensGranted
    <1>5. ComingUnseen'
      <2>1. Unseen(new)'
        <3>1. jar.refresh # new /\ \A u \in Tabs : refresh[u].token # new
          BY <1>1, TokenTypes DEF TokenInv, TokensGranted, Tokens
        <3> QED BY <1>1, <3>1 DEF Unseen
      <2>2. ASSUME NEW k, Unseen(k) PROVE Unseen(k)'
        BY <1>1, <2>2 DEF Unseen
      <2>3. ASSUME NEW u \in Tabs, Renewed(u)' PROVE Unseen(refresh[u].fresh)'
        BY <2>1, <2>2, <2>3 DEF TokenInv, ComingUnseen, Renewed, Unseen
      <2>4. ASSUME NEW u \in Tabs, Entered(u) PROVE Unseen(entry[u].token)'
        BY <2>2, <2>4 DEF TokenInv, ComingUnseen, Unseen
      <2> QED BY <2>3, <2>4 DEF ComingUnseen, Entered
    <1>6. ComingOnce'
      <2>1. \A u \in Tabs : refresh[u].fresh # new /\ entry[u].token # new
        BY <1>1, TokenTypes DEF TokenInv, TokensGranted, Tokens
      <2> QED BY <2>1 DEF TokenInv, ComingOnce, Renewed, Entered
    <1>7. SpentLeaves'
      BY <1>1 DEF TokenInv, SpentLeaves, Renewed
    <1>8. OwnTokenUnsent'
      <2>1. ASSUME NEW u \in Tabs, u # t, refresh[u].step \in {"sent", "refused"},
                   refresh[u].token # 0
            PROVE  spentBy'[refresh[u].token] # u \/ refresh[u].token \in lost
        <3>1. refresh[u].token \in Tokens
          BY <2>1, TokenTypes DEF Tokens
        <3>2. spentBy[refresh[u].token] # u \/ refresh[u].token \in lost
          BY <2>1 DEF TokenInv, OwnTokenUnsent
        <3> QED BY <1>1, <2>1, <3>1, <3>2
      <2> QED BY <2>1 DEF OwnTokenUnsent
    <1> QED BY <1>4, <1>5, <1>6, <1>7, <1>8 DEF TokenInv

\* The answer arrives: its token, seen for the first time, is in the jar.
LEMMA TokensArrive ==
    ASSUME TypeOK, TokenInv, NEW t \in Tabs, refresh[t].step \in {"renewed", "refused"},
           refresh[t].step = "renewed" => jar'.refresh = refresh[t].fresh,
           refresh[t].step = "refused" => jar'.refresh \in {0, jar.refresh},
           refresh' = [refresh EXCEPT ![t] = NoRefresh],
           UNCHANGED <<granted, spentBy, lost, entry>>
    PROVE  TokenInv'
    <1> USE TokenTypes, TabsAssumption DEF TokenInv, NoTab
    <1>1. /\ refresh'[t].step = "none" /\ refresh'[t].token = 0 /\ refresh'[t].fresh = 0
          /\ \A u \in Tabs \ {t} : refresh'[u] = refresh[u]
      BY DEF TypeOK, NoRefresh
    <1>2. TokensGranted'
      BY <1>1 DEF TokensGranted
    <1>3. ComingUnseen'
      <2>1. ASSUME NEW k \in Tokens, Unseen(k), k # jar'.refresh PROVE Unseen(k)'
        BY <1>1, <2>1 DEF Unseen, Tokens
      <2>2. ASSUME NEW u \in Tabs, Renewed(u)' PROVE Unseen(refresh[u].fresh)'
        <3>1. u # t /\ Renewed(u) /\ refresh'[u] = refresh[u]
          BY <1>1, <2>2 DEF Renewed
        <3>2. Unseen(refresh[u].fresh) /\ refresh[u].fresh # jar'.refresh
          BY <3>1 DEF ComingUnseen, ComingOnce, Unseen, Renewed, Tokens
        <3> QED BY <2>1, <3>1, <3>2 DEF Unseen
      <2>3. ASSUME NEW u \in Tabs, Entered(u) PROVE Unseen(entry[u].token)'
        <3>1. Unseen(entry[u].token) /\ entry[u].token # jar'.refresh
          BY <2>3 DEF ComingUnseen, ComingOnce, Unseen, Renewed, Tokens
        <3> QED BY <2>1, <3>1 DEF Unseen
      <2> QED BY <2>2, <2>3 DEF ComingUnseen, Entered
    <1>4. ComingOnce'
      BY <1>1 DEF ComingOnce, Renewed, Entered
    <1>5. SpentLeaves'
      BY <1>1 DEF SpentLeaves, ComingUnseen, Unseen, Renewed, Tokens
    <1>6. OwnTokenUnsent'
      BY <1>1 DEF OwnTokenUnsent
    <1> QED BY <1>2, <1>3, <1>4, <1>5, <1>6

\* A lost or reloaded refresh: its token may be spent, and a token is granted to nobody.
LEMMA TokensAbandoned ==
    ASSUME TypeOK, TokenInv, NEW t \in Tabs, Abandon(t), jar' = jar,
           \A u \in Tabs : \/ entry'[u] = entry[u]
                           \/ entry'[u].step \notin {"granted", "code_granted"} /\ entry'[u].token = 0
    PROVE  TokenInv'
    <1>1. /\ refresh'[t].step = "none" /\ refresh'[t].token = 0 /\ refresh'[t].fresh = 0
          /\ \A u \in Tabs \ {t} : refresh'[u] = refresh[u]
      BY DEF Abandon, TypeOK, NoRefresh
    <1>2. /\ lost \subseteq lost'
          /\ refresh[t].step # "none" => refresh[t].token \in lost'
      BY DEF Abandon
    <1>3. \/ granted' = granted /\ spentBy' = spentBy
          \/ \E tok \in Tokens :
                /\ tok = refresh[t].token /\ granted' = granted + 1 /\ granted + 1 \in Tokens
                /\ spentBy'[tok] = t /\ \A k \in Tokens \ {tok} : spentBy'[k] = spentBy[k]
                /\ tok <= granted /\ refresh[t].step = "sent"
      <2>1. CASE UNCHANGED <<honoured, granted, spentBy>>
        BY <2>1
      <2>2. CASE /\ refresh[t].step = "sent" /\ Grants(refresh[t].token)
                 /\ Spend(t, refresh[t].token)
        <3>1. PICK tok \in Tokens : tok = refresh[t].token
          BY <2>2 DEF Grants, TypeOK
        <3>2. Grants(tok) /\ Spend(t, tok)
          BY <2>2, <3>1
        <3>3. /\ granted + 1 \in Tokens /\ granted' = granted + 1
              /\ spentBy'[tok] = t /\ \A k \in Tokens \ {tok} : spentBy'[k] = spentBy[k]
              /\ tok <= granted
          BY <3>1, <3>2, SpendEffect
        <3> QED BY <2>2, <3>1, <3>3
      <2> QED BY <2>1, <2>2 DEF Abandon
    <1>4. NoTab \notin Tabs
      BY TabsAssumption DEF NoTab
    <1>5. granted' \in Nat /\ granted <= granted'
      BY <1>3, TokenTypes
    <1>6. TokensGranted'
      <2>1. ASSUME NEW u \in Tabs
            PROVE  /\ refresh'[u].token <= granted' /\ refresh'[u].fresh <= granted'
                   /\ entry'[u].token <= granted'
        BY <1>1, <1>5, TokenTypes DEF TokenInv, TokensGranted
      <2>2. ASSUME NEW k \in Tokens, k > granted' PROVE spentBy'[k] = NoTab
        BY <1>3, <1>5, <2>2, TokenTypes DEF TokenInv, TokensGranted, Tokens
      <2>3. jar'.refresh <= granted'
        BY <1>5, TokenTypes DEF TokenInv, TokensGranted
      <2> QED BY <2>1, <2>2, <2>3 DEF TokensGranted
    <1>7. ComingUnseen'
      <2>1. ASSUME NEW k, Unseen(k) PROVE Unseen(k)'
        <3>1. \A u \in Tabs : refresh'[u].token # k
          BY <1>1, <2>1 DEF Unseen, Tokens
        <3> QED BY <1>3, <2>1, <3>1 DEF Unseen
      <2> QED BY <1>1, <2>1 DEF TokenInv, ComingUnseen, Renewed, Entered, Unseen
    <1>8. ComingOnce'
      BY <1>1 DEF TokenInv, ComingOnce, Renewed, Entered
    <1>9. SpentLeaves'
      BY <1>1, <1>2, <1>3 DEF TokenInv, SpentLeaves, Renewed
    <1>10. OwnTokenUnsent'
      <2>1. ASSUME NEW u \in Tabs, u # t, refresh[u].step \in {"sent", "refused"},
                   refresh[u].token # 0
            PROVE  spentBy'[refresh[u].token] # u \/ refresh[u].token \in lost'
        <3>1. refresh[u].token \in Tokens
          BY <2>1, TokenTypes DEF Tokens
        <3>2. spentBy[refresh[u].token] # u \/ refresh[u].token \in lost
          BY <2>1 DEF TokenInv, OwnTokenUnsent
        <3> QED BY <1>2, <1>3, <2>1, <3>1, <3>2
      <2> QED BY <1>1, <2>1 DEF OwnTokenUnsent
    <1> QED BY <1>6, <1>7, <1>8, <1>9, <1>10 DEF TokenInv

\* A login is granted: its token is seen nowhere yet.
LEMMA TokensEntered ==
    ASSUME TypeOK, TokenInv, NEW t \in Tabs, NEW new \in Tokens, new = granted + 1,
           granted' = new, entry'[t].token = new,
           \A u \in Tabs \ {t} : entry'[u] = entry[u],
           UNCHANGED <<jar, spentBy, lost, refresh>>
    PROVE  TokenInv'
    <1>1. granted \in Nat /\ granted < new
      BY TokenTypes
    <1>2. /\ jar.refresh # new /\ spentBy[new] = NoTab
          /\ \A u \in Tabs : refresh[u].token # new /\ refresh[u].fresh # new /\ entry[u].token # new
      BY <1>1, TokenTypes DEF TokenInv, TokensGranted, Tokens
    <1>3. TokensGranted'
      <2>1. ASSUME NEW k \in Nat, k <= granted PROVE k <= granted'
        BY <1>1, <2>1 DEF Tokens
      <2>2. ASSUME NEW k \in Tokens, k > granted' PROVE spentBy'[k] = NoTab
        BY <1>1, <2>2 DEF TokenInv, TokensGranted, Tokens
      <2>3. new <= granted'
        BY DEF Tokens
      <2> QED BY <2>1, <2>2, <2>3, TokenTypes DEF TokenInv, TokensGranted
    <1>4. ComingUnseen'
      BY <1>2 DEF TokenInv, ComingUnseen, Unseen, Renewed, Entered
    <1>5. ComingOnce'
      BY <1>2 DEF TokenInv, ComingOnce, Renewed, Entered
    <1>6. SpentLeaves' /\ OwnTokenUnsent'
      BY DEF TokenInv, SpentLeaves, OwnTokenUnsent, Renewed
    <1> QED BY <1>3, <1>4, <1>5, <1>6 DEF TokenInv

\* The answer to a login arrives: its token is in the jar.
LEMMA TokensLogged ==
    ASSUME TypeOK, TokenInv, NEW t \in Tabs, Entered(t), jar'.refresh = entry[t].token,
           entry'[t].step = "form", entry'[t].token = 0,
           \A u \in Tabs \ {t} : entry'[u] = entry[u],
           UNCHANGED <<granted, spentBy, lost, refresh>>
    PROVE  TokenInv'
    <1> USE TokenTypes DEF TokenInv
    <1>1. Unseen(entry[t].token)
      BY DEF ComingUnseen
    <1>2. TokensGranted'
      BY DEF TokensGranted
    <1>3. ComingUnseen'
      <2>1. ASSUME NEW k, Unseen(k), k # jar'.refresh PROVE Unseen(k)'
        BY <2>1 DEF Unseen
      <2>2. ASSUME NEW u \in Tabs, Renewed(u) PROVE Unseen(refresh[u].fresh)'
        BY <2>1, <2>2 DEF ComingUnseen, ComingOnce, Unseen
      <2>3. ASSUME NEW u \in Tabs, Entered(u)' PROVE Unseen(entry[u].token)'
        BY <2>1, <2>3 DEF ComingUnseen, ComingOnce, Entered, Unseen
      <2> QED BY <2>2, <2>3 DEF ComingUnseen, Renewed
    <1>4. ComingOnce'
      BY DEF ComingOnce, Renewed, Entered
    <1>5. SpentLeaves'
      <2>1. \A u \in Tabs : spentBy[entry[t].token] # u
        BY <1>1, TabsAssumption DEF Unseen, NoTab
      <2> QED BY <2>1 DEF SpentLeaves, Renewed
    <1>6. OwnTokenUnsent'
      BY DEF OwnTokenUnsent
    <1> QED BY <1>2, <1>3, <1>4, <1>5, <1>6

LEMMA TokensCalls ==
    ASSUME TypeOK, TokenInv, NEW t \in Tabs, NEW c \in Calls, StartCall(t, c) \/ CallStep(t, c)
    PROVE  TokenInv'
    <1>1. CASE RejectCall(t, c)
      BY <1>1, TokensJoin DEF RejectCall, server, bounds
    <1>2. CASE UNCHANGED <<jar, granted, spentBy, refresh, lost, entry>>
      BY <1>2, TokensRest
    <1> QED
      BY <1>1, <1>2 DEF StartCall, CallStep, AnswerCall, RejectRetry, LoseCall, server, bounds

LEMMA TokensRefresh ==
    ASSUME TypeOK, TokenInv, NEW t \in Tabs,
           BootStep(t) \/ ServeRefresh(t) \/ RefreshAnswer(t)
    PROVE  TokenInv'
    <1>1. CASE BootStep(t)
      BY <1>1, TokensRest DEF BootStep, AnswerCsrf, LoseCsrf, server, bounds
    <1>2. CASE ServeRefresh(t)
      <2>1. refresh[t].step = "sent" /\ UNCHANGED <<jar, lost, entry>>
        BY <1>2 DEF ServeRefresh, bounds
      <2>2. CASE /\ Grants(refresh[t].token) /\ Spend(t, refresh[t].token)
                 /\ refresh' = [refresh EXCEPT ![t].step = "renewed", ![t].fresh = granted + 1]
        <3>1. PICK tok \in Tokens : tok = refresh[t].token
          BY <2>2 DEF Grants, TypeOK
        <3>2. PICK new : new = granted + 1
          OBVIOUS
        <3>3. /\ refresh'[t].step = "renewed" /\ refresh'[t].token = tok
              /\ refresh'[t].fresh = new
              /\ \A u \in Tabs \ {t} : refresh'[u] = refresh[u]
          BY <2>2, <3>1, <3>2 DEF TypeOK, RefreshRecords
        <3> QED BY <2>1, <2>2, <3>1, <3>2, <3>3, TokensRenewed
      <2>3. CASE refresh' = [refresh EXCEPT ![t].step = "refused"] /\ UNCHANGED <<granted, spentBy>>
        BY <2>1, <2>3, TokensRefused
      <2> QED BY <1>2, <2>2, <2>3 DEF ServeRefresh
    <1>3. CASE ArriveRenewed(t)
      BY <1>3, TokensArrive DEF ArriveRenewed, server, bounds
    <1>4. CASE ArriveRefused(t)
      BY <1>4, TokensArrive DEF ArriveRefused, server, bounds
    <1>5. CASE LoseRefresh(t)
      BY <1>5, TokensAbandoned DEF LoseRefresh
    <1> QED BY <1>1, <1>2, <1>3, <1>4, <1>5 DEF RefreshAnswer

LEMMA TokensLogin ==
    ASSUME TypeOK, TokenInv, NEW t \in Tabs,
           \/ \E portal \in Portals : PostLogin(t, portal)
           \/ PostCode(t) \/ BackToLogin(t) \/ ServeLogin(t)
           \/ ArriveGrant(t) \/ ArriveChallenge(t) \/ LoseLogin(t)
    PROVE  TokenInv'
    <1>0. entry \in [Tabs -> EntryRecords]
      BY DEF TypeOK
    <1>1. ASSUME UNCHANGED <<granted, spentBy, refresh, lost, jar>>,
                 NEW e, entry' = [entry EXCEPT ![t] = e],
                 e.step \notin {"granted", "code_granted"}, e.token \in {0, entry[t].token}
          PROVE  TokenInv'
      BY <1>0, <1>1, TokensRest
    <1>2. ASSUME NEW portal \in Portals, PostLogin(t, portal) PROVE TokenInv'
      <2>1. PICK e : e = [step |-> "posted", portal |-> portal, token |-> 0]
        OBVIOUS
      <2>2. entry' = [entry EXCEPT ![t] = e] /\ e.step = "posted" /\ e.token = 0
        BY <1>2, <2>1 DEF PostLogin
      <2> QED BY <1>1, <1>2, <2>2 DEF PostLogin, server, bounds
    <1>3. CASE PostCode(t)
      <2>1. PICK e : e = [entry[t] EXCEPT !.step = "code_posted"]
        OBVIOUS
      <2>2. entry' = [entry EXCEPT ![t] = e] /\ e.step = "code_posted" /\ e.token = entry[t].token
        BY <1>0, <1>3, <2>1 DEF PostCode, EntryRecords
      <2> QED BY <1>1, <1>3, <2>2 DEF PostCode, server, bounds
    <1>4. CASE BackToLogin(t)
      BY <1>1, <1>4 DEF BackToLogin, NoEntry, server, bounds
    <1>5. CASE ServeLogin(t)
      <2>1. UNCHANGED <<jar, spentBy, lost, refresh>>
        BY <1>5 DEF ServeLogin, bounds
      <2>2. CASE /\ granted < MaxTokens /\ granted' = granted + 1
                 /\ entry' = [entry EXCEPT
                       ![t].step = IF @ = "posted" THEN "granted" ELSE "code_granted",
                       ![t].token = granted + 1]
        <3>1. PICK new \in Tokens : new = granted + 1
          <4>1. granted + 1 \in Tokens
            BY <2>2, CountsAssumption, TokenTypes DEF Tokens
          <4> QED BY <4>1
        <3>2. entry'[t].token = new /\ \A u \in Tabs \ {t} : entry'[u] = entry[u]
          BY <1>0, <2>2, <3>1 DEF EntryRecords
        <3> QED BY <2>1, <2>2, <3>1, <3>2, TokensEntered
      <2>3. CASE /\ granted' = granted
                 /\ entry' = [entry EXCEPT
                       ![t] = IF @.step = "posted" THEN NoEntry
                              ELSE [@ EXCEPT !.step = "challenge"]]
        <3>1. PICK e : e = IF entry[t].step = "posted" THEN NoEntry
                           ELSE [entry[t] EXCEPT !.step = "challenge"]
          OBVIOUS
        <3>2. entry' = [entry EXCEPT ![t] = e]
          BY <1>0, <2>3, <3>1
        <3>3. e.step \in {"form", "challenge"} /\ e.token \in {0, entry[t].token}
          BY <1>0, <3>1 DEF NoEntry, EntryRecords
        <3> QED BY <1>1, <2>1, <2>3, <3>2, <3>3
      <2>4. CASE granted' = granted /\ entry' = [entry EXCEPT ![t].step = "challenged"]
        <3>1. PICK e : e = [entry[t] EXCEPT !.step = "challenged"]
          OBVIOUS
        <3>2. entry' = [entry EXCEPT ![t] = e] /\ e.step = "challenged" /\ e.token = entry[t].token
          BY <1>0, <2>4, <3>1 DEF EntryRecords
        <3> QED BY <1>1, <2>1, <2>4, <3>2
      <2> QED BY <1>5, <2>2, <2>3, <2>4 DEF ServeLogin
    <1>6. CASE ArriveGrant(t)
      <2>1. /\ Entered(t) /\ jar'.refresh = entry[t].token
            /\ UNCHANGED <<granted, spentBy, lost, refresh>>
        BY <1>6 DEF ArriveGrant, Entered, server, bounds
      <2>2. /\ entry'[t].step = "form" /\ entry'[t].token = 0
            /\ \A u \in Tabs \ {t} : entry'[u] = entry[u]
        BY <1>0, <1>6 DEF ArriveGrant, NoEntry
      <2> QED BY <2>1, <2>2, TokensLogged
    <1>7. CASE ArriveChallenge(t)
      <2>1. PICK e : e = [entry[t] EXCEPT !.step = "challenge", !.portal = "hotel"]
        OBVIOUS
      <2>2. entry' = [entry EXCEPT ![t] = e] /\ e.step = "challenge" /\ e.token = entry[t].token
        BY <1>0, <1>7, <2>1 DEF ArriveChallenge, EntryRecords
      <2> QED BY <1>1, <1>7, <2>2 DEF ArriveChallenge, server, bounds
    <1>8. CASE LoseLogin(t)
      <2>1. PICK e : e = IF entry[t].step \in {"code_posted", "code_granted"}
                         THEN [entry[t] EXCEPT !.step = "challenge", !.token = 0] ELSE NoEntry
        OBVIOUS
      <2>2. entry' = [entry EXCEPT ![t] = e]
        BY <1>0, <1>8, <2>1 DEF LoseLogin
      <2>3. e.step \in {"form", "challenge"} /\ e.token = 0
        BY <1>0, <2>1 DEF NoEntry, EntryRecords
      <2> QED BY <1>1, <1>8, <2>2, <2>3 DEF LoseLogin, server
    <1> QED BY <1>2, <1>3, <1>4, <1>5, <1>6, <1>7, <1>8

LEMMA TokensLogout ==
    ASSUME TypeOK, TokenInv, NEW t \in Tabs,
           PostLogout(t) \/ ServeLogout(t) \/ ArriveLogout(t) \/ LoseLogout(t) \/ Reload(t)
    PROVE  TokenInv'
    <1>1. CASE Reload(t)
      <2>1. /\ Abandon(t) /\ jar' = jar /\ entry' = [entry EXCEPT ![t] = NoEntry]
        BY <1>1 DEF Reload
      <2>2. \A u \in Tabs : \/ entry'[u] = entry[u]
                            \/ entry'[u].step = "form" /\ entry'[u].token = 0
        BY <2>1 DEF TypeOK, NoEntry
      <2> QED BY <2>1, <2>2, TokensAbandoned
    <1>2. CASE UNCHANGED <<granted, spentBy, refresh, lost, entry>> /\ jar'.refresh \in {jar.refresh, 0}
      BY <1>2, TokensRest
    <1> QED
      BY <1>1, <1>2 DEF PostLogout, ServeLogout, ArriveLogout, LoseLogout, server, bounds

LEMMA TokensStep ==
    ASSUME TypeOK, TokenInv, [Next]_vars
    PROVE  TokenInv'
    <1>1. CASE AccessExpires
      <2>1. jar'.refresh = jar.refresh
        BY <1>1 DEF AccessExpires, TypeOK
      <2> QED BY <1>1, <2>1, TokensRest DEF AccessExpires, server, bounds
    <1>2. CASE ServerEnds
      BY <1>2, TokensRest DEF ServerEnds, bounds
    <1>3. CASE UNCHANGED vars
      BY <1>3, TokensRest DEF vars
    <1> QED BY <1>1, <1>2, <1>3, Steps, TokensCalls, TokensRefresh, TokensLogin, TokensLogout

LEMMA TokensInit == Init => TokenInv
    <1> SUFFICES ASSUME Init PROVE TokenInv
      OBVIOUS
    <1>1. /\ jar.refresh \in {0, 1} /\ granted = 1
          /\ \A t \in Tabs : refresh[t] = NoRefresh /\ entry[t] = NoEntry
          /\ \A k \in Tokens : spentBy[k] = NoTab
      BY DEF Init
    <1>2. \A t \in Tabs : /\ refresh[t].step = "none" /\ refresh[t].token = 0 /\ refresh[t].fresh = 0
                          /\ entry[t].step = "form" /\ entry[t].token = 0
      BY <1>1 DEF NoRefresh, NoEntry
    <1>3. TokensGranted
      BY <1>1, <1>2 DEF TokensGranted
    <1>4. ComingUnseen /\ ComingOnce /\ OwnTokenUnsent
      BY <1>2 DEF ComingUnseen, ComingOnce, OwnTokenUnsent, Renewed, Entered
    <1>5. SpentLeaves
      BY <1>1, TabsAssumption DEF SpentLeaves, NoTab
    <1> QED BY <1>3, <1>4, <1>5 DEF TokenInv

\* The server refuses a tab no refresh token which that tab has spent itself, however many
\* tabs rotate the shared cookie and whichever answers are late or lost.
THEOREM OwnTokensHonoured == Spec => []OwnTokenNeverRefused
    <1>1. TokenInv /\ TypeOK => OwnTokenNeverRefused
      BY DEF TokenInv, OwnTokenUnsent, OwnTokenNeverRefused
    <1> QED BY <1>1, TypeInit, TypeStep, TokensInit, TokensStep, PTL DEF Spec

-----------------------------------------------------------------------------
(* Who is signed out *)

\* A call is sent again with the access cookie that the refresh brought.
RetriesHaveAccess ==
    \A t \in Tabs, c \in Calls : calls[t][c].step = "retry" => calls[t][c].access

LEMMA RetriesStep ==
    ASSUME TypeOK, RetriesHaveAccess, [Next]_vars
    PROVE  RetriesHaveAccess'
    <1>1. CASE calls' = calls
      BY <1>1 DEF RetriesHaveAccess
    <1>2. ASSUME NEW t \in Tabs, NEW c \in Calls, NEW x, x.step # "retry",
                 calls' = [calls EXCEPT ![t][c] = x]
          PROVE  RetriesHaveAccess'
      BY <1>2 DEF RetriesHaveAccess, TypeOK
    <1>3. ASSUME NEW t \in Tabs, NEW f \in [Calls -> CallRecords],
                 \A c \in Calls : f[c].step = "retry" => f[c].access,
                 calls' = [calls EXCEPT ![t] = f]
          PROVE  RetriesHaveAccess'
      BY <1>3 DEF RetriesHaveAccess, TypeOK
    <1>4. ASSUME NEW t \in Tabs, NEW c \in Calls, StartCall(t, c) \/ CallStep(t, c)
          PROVE  RetriesHaveAccess'
      <2>1. PICK x \in {Idle, Sent("sent"), [step |-> "waiting", access |-> FALSE]} :
               calls' = [calls EXCEPT ![t][c] = x]
        BY <1>4 DEF StartCall, CallStep, AnswerCall, RejectCall, RejectRetry, LoseCall
      <2>2. x.step # "retry"
        BY DEF Idle, Sent
      <2> QED BY <1>2, <2>1, <2>2
    <1>5. ASSUME NEW t \in Tabs, Expire(t) PROVE RetriesHaveAccess'
      <2>1. PICK f : f = [c \in Calls |-> IF c \in Waiting(t) THEN Idle ELSE calls[t][c]]
        OBVIOUS
      <2>2. calls' = [calls EXCEPT ![t] = f]
        BY <1>5, <2>1 DEF Expire, TypeOK
      <2>3. f \in [Calls -> CallRecords] /\ \A c \in Calls : f[c].step = "retry" => f[c].access
        BY <2>1, Records DEF TypeOK, RetriesHaveAccess, Idle
      <2> QED BY <1>3, <2>2, <2>3
    <1>6. ASSUME NEW t \in Tabs, ArriveRenewed(t) PROVE RetriesHaveAccess'
      <2>1. PICK f : f = [c \in Calls |-> IF c \in Waiting(t)
                                          THEN [step |-> "retry", access |-> TRUE]
                                          ELSE calls[t][c]]
        OBVIOUS
      <2>2. calls' = [calls EXCEPT ![t] = f]
        BY <1>6, <2>1 DEF ArriveRenewed, TypeOK
      <2>3. [step |-> "retry", access |-> TRUE] \in CallRecords
        BY DEF CallRecords
      <2>4. f \in [Calls -> CallRecords]
        BY <2>1, <2>3 DEF TypeOK
      <2>5. \A c \in Calls : f[c].step = "retry" => f[c].access
        BY <2>1 DEF RetriesHaveAccess
      <2> QED BY <1>3, <2>2, <2>4, <2>5
    <1>7. ASSUME NEW t \in Tabs, ArriveGrant(t) PROVE RetriesHaveAccess'
      <2>1. CASE calls' = [calls EXCEPT ![t]["session"] =
                              IF @ = Idle THEN [step |-> "sent", access |-> TRUE] ELSE @]
        <3>1. PICK x : x = IF calls[t]["session"] = Idle THEN [step |-> "sent", access |-> TRUE]
                           ELSE calls[t]["session"]
          OBVIOUS
        <3>2. PICK c \in Calls : c = "session"
          BY DEF Calls
        <3>3. calls' = [calls EXCEPT ![t][c] = x]
          BY <2>1, <3>1, <3>2 DEF TypeOK
        <3>4. x.step = "retry" => x = calls[t][c]
          BY <3>1, <3>2
        <3> QED BY <1>2, <3>3, <3>4 DEF RetriesHaveAccess, TypeOK
      <2> QED BY <1>1, <1>7, <2>1 DEF ArriveGrant
    <1>8. ASSUME NEW t \in Tabs, Reload(t) PROVE RetriesHaveAccess'
      <2>1. PICK f : f = [c \in Calls |-> IF c = "session" THEN Sent("sent") ELSE Idle]
        OBVIOUS
      <2>2. calls' = [calls EXCEPT ![t] = f]
        BY <1>8, <2>1 DEF Reload
      <2>3. f \in [Calls -> CallRecords] /\ \A c \in Calls : f[c].step = "retry" => f[c].access
        BY <2>1, Records DEF TypeOK, Sent, Idle
      <2> QED BY <1>3, <2>2, <2>3
    <1> QED
      BY <1>1, <1>4, <1>5, <1>6, <1>7, <1>8, Steps
         DEF AccessExpires, ServerEnds, vars, BootStep, AnswerCsrf, LoseCsrf, ServeRefresh,
             RefreshAnswer, ArriveRefused, LoseRefresh, PostLogin, PostCode, BackToLogin,
             ServeLogin, ArriveChallenge, LoseLogin, PostLogout, ServeLogout, ArriveLogout,
             LoseLogout

LEMMA RetriesInit == Init => RetriesHaveAccess
    <1> SUFFICES ASSUME Init PROVE RetriesHaveAccess
      OBVIOUS
    <1>1. ASSUME NEW t \in Tabs, NEW c \in Calls PROVE calls[t][c].step # "retry"
      BY DEF Init, Sent, Idle
    <1> QED BY <1>1 DEF RetriesHaveAccess

\* Why a tab may be signed out in a step.
Cause(t) ==
    \/ exit[t].step # "none" \/ reloads' # reloads \/ losses' # losses
    \/ ended \/ entry[t].step = "challenged"
    \/ /\ refresh[t].step = "refused"
       /\ refresh[t].token \in Tokens \ lost => spentBy[refresh[t].token] # t

LEMMA SignedOutStep ==
    ASSUME TypeOK, TokenInv, RetriesHaveAccess, [Next]_vars, NEW u \in Tabs, auth[u], ~auth'[u]
    PROVE  Cause(u)
    <1>1. ASSUME NEW t \in Tabs, NEW x \in BOOLEAN, auth' = [auth EXCEPT ![t] = x]
          PROVE  u = t
      BY <1>1 DEF TypeOK
    <1>2. \A k \in Nat : k + 1 # k
      OBVIOUS
    <1>3. auth' # auth
      OBVIOUS
    <1>4. ASSUME NEW t \in Tabs, NEW c \in Calls, StartCall(t, c) \/ CallStep(t, c)
          PROVE  Cause(u)
      <2>1. CASE RejectRetry(t, c)
        <3>1. ended
          BY <2>1 DEF RejectRetry, Accepted, RetriesHaveAccess, TypeOK
        <3> QED BY <3>1 DEF Cause
      <2>2. CASE LoseCall(t, c)
        <3>1. losses' # losses
          BY <1>2, <2>2 DEF LoseCall, Lose, TypeOK
        <3> QED BY <3>1 DEF Cause
      <2>3. CASE AnswerCall(t, c)
        <3>1. auth'[u]
          BY <2>3 DEF AnswerCall, TypeOK
        <3> QED BY <3>1
      <2> QED BY <1>3, <1>4, <2>1, <2>2, <2>3 DEF StartCall, CallStep, RejectCall
    <1>5. ASSUME NEW t \in Tabs, BootStep(t) \/ ServeRefresh(t) \/ RefreshAnswer(t)
          PROVE  Cause(u)
      <2>1. CASE ArriveRefused(t)
        <3>1. u = t
          BY <1>1, <1>3, <2>1 DEF ArriveRefused, Expire
        <3>2. refresh[t].step = "refused"
          BY <2>1 DEF ArriveRefused
        <3>3. refresh[t].token \in Tokens => refresh[t].token # 0
          BY DEF Tokens
        <3> QED BY <3>1, <3>2, <3>3 DEF Cause, TokenInv, OwnTokenUnsent
      <2>2. CASE LoseRefresh(t) \/ LoseCsrf(t)
        <3>1. losses' # losses
          BY <1>2, <2>2 DEF LoseRefresh, LoseCsrf, Lose, TypeOK
        <3> QED BY <3>1 DEF Cause
      <2> QED
        BY <1>3, <1>5, <2>1, <2>2 DEF BootStep, AnswerCsrf, ServeRefresh, RefreshAnswer, ArriveRenewed
    <1>6. ASSUME NEW t \in Tabs,
                 \/ \E portal \in Portals : PostLogin(t, portal)
                 \/ PostCode(t) \/ BackToLogin(t) \/ ServeLogin(t)
                 \/ ArriveGrant(t) \/ ArriveChallenge(t) \/ LoseLogin(t)
          PROVE  Cause(u)
      <2>1. CASE ArriveChallenge(t)
        <3>1. u = t /\ entry[t].step = "challenged"
          BY <1>1, <1>3, <2>1 DEF ArriveChallenge
        <3> QED BY <3>1 DEF Cause
      <2>2. CASE ArriveGrant(t)
        <3>1. auth'[u]
          BY <2>2 DEF ArriveGrant, TypeOK
        <3> QED BY <3>1
      <2> QED
        BY <1>3, <1>6, <2>1, <2>2 DEF PostLogin, PostCode, BackToLogin, ServeLogin, LoseLogin
    <1>7. ASSUME NEW t \in Tabs,
                 \/ PostLogout(t) \/ ServeLogout(t) \/ ArriveLogout(t) \/ LoseLogout(t) \/ Reload(t)
          PROVE  Cause(u)
      <2>1. CASE ArriveLogout(t) \/ LoseLogout(t)
        <3>1. u = t
          BY <1>1, <2>1 DEF ArriveLogout, LoseLogout
        <3>2. exit[t].step # "none"
          BY <2>1 DEF ArriveLogout, LoseLogout
        <3> QED BY <3>1, <3>2 DEF Cause
      <2>2. CASE Reload(t)
        <3>1. reloads' # reloads
          BY <1>2, <2>2 DEF Reload, TypeOK
        <3> QED BY <3>1 DEF Cause
      <2> QED BY <1>3, <1>7, <2>1, <2>2 DEF PostLogout, ServeLogout
    <1> QED
      BY <1>3, <1>4, <1>5, <1>6, <1>7, Steps DEF AccessExpires, ServerEnds, vars

\* No tab is signed out but by its user, a reload, a loss, a code asked for, the end of the
\* account's sessions, or the refusal of a token it has not spent itself.
THEOREM SignedOutOnlyForCause == Spec => SignedOutForCause
    <1>1. TypeOK /\ TokenInv /\ RetriesHaveAccess /\ [Next]_vars
          => [\A t \in Tabs : auth[t] /\ ~auth'[t] => Cause(t)]_vars
      BY SignedOutStep
    <1>2. [\A t \in Tabs : auth[t] /\ ~auth'[t] => Cause(t)]_vars
          => [\A t \in Tabs : auth[t] /\ ~auth'[t] =>
                \/ exit[t].step # "none" \/ reloads' # reloads \/ losses' # losses
                \/ ended \/ entry[t].step = "challenged"
                \/ /\ refresh[t].step = "refused"
                   /\ refresh[t].token \in Tokens \ lost => spentBy[refresh[t].token] # t]_vars
      BY DEF Cause
    <1> QED
      BY <1>1, <1>2, TypeInit, TypeStep, TokensInit, TokensStep, RetriesInit, RetriesStep, PTL
         DEF Spec, SignedOutForCause
=============================================================================
