------------------------ MODULE RecordScreens_proofs ------------------------
(***************************************************************************)
(* The properties of the pages of the clients and of the invoices, for     *)
(* every set of records, of words and of rights, and every bound.  Each    *)
(* follows from the inductive invariant of its page.                       *)
(***************************************************************************)
EXTENDS RecordScreens, Screen_proofs

-----------------------------------------------------------------------------
(* The page of the clients *)

ClientsSubjects == Targets \cup {NoWord, "old"}
ClientsCalls == ClientsLists \cup ClientsDetails \cup ClientsWrites
ClientsFlags == {"", "page", "submit", "delete"}
ClientsRequests == Requests(ClientsSubjects, ClientsCalls, ClientsFlags)

\* The calls that are about a client.
ClientsAbout == {"detail", "again", "refreshed", "saved", "reactivated",
                 "update", "archive", "reactivate"}

ClientsNet(requests) ==
    /\ requests \subseteq ClientsRequests
    /\ \A r \in requests : /\ r.call \in ClientsAbout => r.arg \in Items
                           /\ r.kind = "write" <=> r.call \in ClientsWrites

ClientsTyped ==
    /\ view \in ClientsViews /\ ClientsNet(net) /\ WritesBounded
    /\ inputs \in 0..MaxInputs /\ failures \in 0..MaxFailures

-----------------------------------------------------------------------------
(* Requests and views keep their types *)

LEMMA Subjects == None \in ClientsSubjects /\ Targets \subseteq ClientsSubjects
    BY DEF ClientsSubjects, Targets

LEMMA ReadingTyped ==
    ASSUME NEW call \in ClientsLists \cup ClientsDetails, Unsent(call),
           NEW arg \in ClientsSubjects, NEW flag \in ClientsFlags,
           call \in ClientsAbout => arg \in Items
    PROVE  /\ ClientsNet({Read(call, arg, flag)})
           /\ Read(call, arg, flag) =
                [kind |-> "read", call |-> call, arg |-> arg, at |-> None, flag |-> flag,
                 n |-> Slot(call), step |-> "sent", saw |-> 0]
    <1>1. call \in ClientsCalls /\ call \notin ClientsWrites
      BY DEF ClientsCalls, ClientsLists, ClientsDetails, ClientsWrites
    <1>2. Read(call, arg, flag) \in ClientsRequests
      BY <1>1, NewRequest, Subjects DEF Read, ClientsRequests
    <1>3. Read(call, arg, flag).call = call /\ Read(call, arg, flag).arg = arg
          /\ Read(call, arg, flag).kind = "read"
      BY DEF Read, Request
    <1> QED BY <1>1, <1>2, <1>3 DEF ClientsNet, Read, Request

LEMMA WritingTyped ==
    ASSUME NEW call \in ClientsWrites, Unsent(call), NEW arg \in Targets,
           NEW flag \in ClientsFlags, NEW shown \in Targets,
           call # "create" => arg \in Items
    PROVE  /\ ClientsNet({Keeping(Write(call, arg, flag), shown)})
           /\ Keeping(Write(call, arg, flag), shown) =
                [kind |-> "write", call |-> call, arg |-> arg, at |-> shown, flag |-> flag,
                 n |-> Slot(call), step |-> "sent", saw |-> 0]
    <1>1. call \in ClientsCalls
      BY DEF ClientsCalls
    <1>2. Write(call, arg, flag) \in ClientsRequests
      BY <1>1, NewRequest, Subjects DEF Write, ClientsRequests
    <1>3. Keeping(Write(call, arg, flag), shown) \in ClientsRequests
      BY <1>2, Subjects DEF Keeping, ClientsRequests, Requests
    <1>4. call \in ClientsAbout => arg \in Items
      BY DEF ClientsWrites, ClientsAbout
    <1>5. Keeping(Write(call, arg, flag), shown) =
            [kind |-> "write", call |-> call, arg |-> arg, at |-> shown, flag |-> flag,
             n |-> Slot(call), step |-> "sent", saw |-> 0]
      BY DEF Keeping, Write, Request
    <1> QED BY <1>3, <1>4, <1>5 DEF ClientsNet

LEMMA OutdatedTyped ==
    ASSUME NEW requests, ClientsNet(requests), NEW calls
    PROVE  /\ ClientsNet(Outdated(requests, calls))
           /\ SentWrites(Outdated(requests, calls)) \subseteq SentWrites(requests)
    <1>1. ASSUME NEW r \in requests
          PROVE  [r EXCEPT !.at = "old"] \in ClientsRequests
      BY <1>1 DEF ClientsNet, ClientsRequests, Requests, ClientsSubjects
    <1>2. ClientsNet(Outdated(requests, calls))
      BY <1>1 DEF ClientsNet, Outdated, ClientsRequests, Requests
    <1>3. SentWrites(Outdated(requests, calls)) \subseteq SentWrites(requests)
      BY DEF SentWrites, Outdated, ClientsNet, ClientsRequests, Requests
    <1> QED BY <1>2, <1>3

LEMMA ShowsTyped ==
    ASSUME NEW v \in ClientsViews, NEW i \in Targets
    PROVE  ClientsShows(v, i) \in ClientsViews
    BY DEF ClientsShows, ClientsViews, Drafts

LEMMA SelectedTyped ==
    ASSUME NEW v \in ClientsViews, NEW i \in Targets
    PROVE  ClientsSelected(v, i) \in ClientsViews
    <1>1. None \in Targets
      BY DEF Targets
    <1>2. CASE i = None
      <2>1. [v EXCEPT !.sel = None, !.detailing = IF v.sel = None THEN @ ELSE FALSE] \in ClientsViews
        BY <1>1 DEF ClientsViews
      <2> QED BY <2>1, <1>1, <1>2, ShowsTyped DEF ClientsSelected
    <1>3. CASE i # None
      BY <1>3 DEF ClientsSelected, ClientsViews
    <1> QED BY <1>2, <1>3

-----------------------------------------------------------------------------
(* What the steps of the page do to what its properties are about *)

ClientsSame ==
    /\ view'.sel = view.sel /\ view'.shows = view.shows /\ view'.lists = view.lists
    /\ view'.busy = view.busy

ClientsOnlyView == net' = net /\ ClientsSame

ClientsReadsList ==
    \E call \in {"list", "filter", "turn"}, arg \in ClientsSubjects :
        /\ Unsent(call) /\ ClientsSame
        /\ net' = Outdated(net, ClientsLists) \cup {Read(call, arg, "")}

ClientsReadsDetail ==
    \E call \in {"detail", "again"} :
        /\ Unsent(call) /\ view'.sel \in Items
        /\ net' = Outdated(net, ClientsDetails) \cup {Read(call, view'.sel, "")}
        /\ view'.shows = view.shows /\ view'.lists = view.lists /\ view'.busy = view.busy

ClientsSends ==
    \E call \in ClientsWrites, flag \in {"submit", "delete"}, arg, shown \in Targets :
        /\ MayWrite(call) /\ (call # "create" => arg \in Items)
        /\ net' = net \cup {Keeping(Write(call, arg, flag), shown)}
        /\ view'.busy = view.busy \cup {flag}
        /\ view'.sel = view.sel /\ view'.shows = view.shows /\ view'.lists = view.lists

ClientsActs == ClientsOnlyView \/ ClientsReadsList \/ ClientsReadsDetail \/ ClientsSends

LEMMA InputTyped ==
    ASSUME inputs \in 0..MaxInputs, Input
    PROVE  inputs' \in 0..MaxInputs /\ db' = db /\ failures' = failures
    <1>1. MaxInputs \in Nat
      BY ScreenAssumption
    <1> QED BY <1>1 DEF Input

LEMMA ViewSteps ==
    ASSUME ClientsTyped,
           \/ \E q \in Queries : ClientsSearch(q)
           \/ ClientsStartCreate \/ ClientsStartEdit \/ ClientsAskArchive \/ ClientsKeep
           \/ ClientsCancelForm \/ ClientsCloseDrawer
           \/ \E d \in {"partial", "complete"} : ClientsEdit(d)
           \/ \E leave \in BOOLEAN : ClientsUnsaved(leave)
    PROVE  view' \in ClientsViews /\ ClientsOnlyView /\ Input
    <1> USE DEF ClientsTyped, ClientsOnlyView, ClientsSame
    <1>1. None \in Targets
      BY DEF Targets
    <1>2. CASE \E q \in Queries : ClientsSearch(q)
      BY <1>2 DEF ClientsSearch, ClientsViews
    <1>3. CASE ClientsStartCreate
      BY <1>1, <1>3 DEF ClientsStartCreate, ClientsViews, Drafts
    <1>4. CASE ClientsStartEdit
      BY <1>4 DEF ClientsStartEdit, ClientsViews, Drafts
    <1>5. CASE ClientsAskArchive \/ ClientsKeep \/ ClientsCloseDrawer
      BY <1>5 DEF ClientsAskArchive, ClientsKeep, ClientsCloseDrawer, ClientsViews
    <1>6. CASE ClientsCancelForm
      BY <1>1, <1>6 DEF ClientsCancelForm, ClientsFormGone, ClientsViews, Drafts
    <1>7. CASE \E d \in {"partial", "complete"} : ClientsEdit(d)
      BY <1>7 DEF ClientsEdit, ClientsViews, Drafts
    <1>8. CASE \E leave \in BOOLEAN : ClientsUnsaved(leave)
      <2>1. PICK leave \in BOOLEAN : ClientsUnsaved(leave)
        BY <1>8
      <2> DEFINE v == ClientsFormGone(view)
      <2>2. /\ v \in ClientsViews /\ v.sel = view.sel /\ v.shows = view.shows
            /\ v.lists = view.lists /\ v.busy = view.busy
        BY <1>1 DEF ClientsFormGone, ClientsViews, Drafts
      <2>3. CASE leave
        <3>1. view' = [v EXCEPT !.modal = "none", !.drawer = FALSE] /\ net' = net /\ Input
          BY <2>1, <2>3 DEF ClientsUnsaved
        <3> HIDE DEF v
        <3> QED BY <2>2, <3>1 DEF ClientsViews
      <2>4. CASE ~leave
        <3>1. view' = [view EXCEPT !.modal = "none"] /\ net' = net /\ Input
          BY <2>1, <2>4 DEF ClientsUnsaved
        <3> QED BY <3>1 DEF ClientsViews
      <2> QED BY <2>3, <2>4
    <1> QED BY <1>2, <1>3, <1>4, <1>5, <1>6, <1>7, <1>8

LEMMA ListSteps ==
    ASSUME ClientsTyped, ClientsTimer \/ ClientsFilter \/ ClientsTurn
    PROVE  /\ view' \in ClientsViews /\ ClientsReadsList
           /\ Input \/ UNCHANGED server
    <1> USE DEF ClientsTyped
    <1>1. None \in Targets /\ Targets \subseteq ClientsSubjects
      BY Subjects DEF Targets
    <1>2. CASE ClientsTimer
      <2>1. view' \in ClientsViews /\ ClientsSame /\ view.prefers \in Targets
        BY <1>1, <1>2 DEF ClientsTimer, ClientsViews, ClientsSame
      <2> QED BY <1>1, <1>2, <2>1 DEF ClientsTimer, ClientsList, ClientsReadsList
    <1>3. CASE ClientsFilter
      <2>1. view' \in ClientsViews /\ ClientsSame
        BY <1>3 DEF ClientsFilter, ClientsSame
      <2> QED BY <1>1, <1>3, <2>1 DEF ClientsFilter, ClientsList, ClientsReadsList
    <1>4. CASE ClientsTurn
      <2>1. view' \in ClientsViews /\ ClientsSame /\ view.sel \in Targets
        BY <1>4 DEF ClientsTurn, ClientsSame, ClientsViews
      <2> QED BY <1>1, <1>4, <2>1 DEF ClientsTurn, ClientsList, ClientsReadsList
    <1> QED BY <1>2, <1>3, <1>4

LEMMA DetailSteps ==
    ASSUME ClientsTyped, ClientsRefresh \/ \E i \in Items : ClientsSelect(i)
    PROVE  view' \in ClientsViews /\ (ClientsReadsDetail \/ ClientsOnlyView) /\ Input
    <1> USE DEF ClientsTyped
    <1>1. CASE ClientsRefresh
      <2>1. view' \in ClientsViews /\ ClientsSame /\ view.sel \in Items
        BY <1>1 DEF ClientsRefresh, ClientsViews, ClientsSame, Targets
      <2> QED BY <1>1, <2>1 DEF ClientsRefresh, ClientsDetail, ClientsReadsDetail, ClientsSame
    <1>2. CASE \E i \in Items : ClientsSelect(i)
      <2>1. PICK i \in Items : ClientsSelect(i)
        BY <1>2
      <2>2. i # None /\ i \in Targets
        BY ScreenAssumption DEF None, Targets
      <2>3. ClientsSelected(view, i) = [view EXCEPT !.sel = i, !.detailing = @ \/ i # view.sel]
        BY <2>2 DEF ClientsSelected
      <2>4. /\ view' \in ClientsViews /\ view'.sel = i /\ view'.shows = view.shows
            /\ view'.lists = view.lists /\ view'.busy = view.busy
        BY <2>1, <2>2, <2>3 DEF ClientsSelect, ClientsViews
      <2>5. CASE i = view.sel
        BY <2>1, <2>4, <2>5 DEF ClientsSelect, ClientsSelecting, ClientsOnlyView, ClientsSame
      <2>6. CASE i # view.sel
        BY <2>1, <2>2, <2>4, <2>6
           DEF ClientsSelect, ClientsSelecting, ClientsDetail, ClientsReadsDetail
      <2> QED BY <2>1, <2>4, <2>5, <2>6 DEF ClientsSelect
    <1> QED BY <1>1, <1>2

LEMMA WriteSteps ==
    ASSUME ClientsTyped, ClientsReactivate \/ ClientsArchive \/ ClientsSave
    PROVE  view' \in ClientsViews /\ ClientsSends /\ Input
    <1> USE DEF ClientsTyped
    <1>1. ASSUME NEW call \in ClientsWrites, NEW flag \in {"submit", "delete"},
                 NEW shown \in Targets, ClientsWrite(call, flag, shown),
                 call # "create" => view.sel # None
          PROVE  view' \in ClientsViews /\ ClientsSends /\ Input
      <2>1. view.sel \in Targets /\ (call # "create" => view.sel \in Items)
        BY <1>1 DEF ClientsViews, Targets
      <2>2. /\ view' \in ClientsViews /\ view'.busy = view.busy \cup {flag}
            /\ view'.sel = view.sel /\ view'.shows = view.shows /\ view'.lists = view.lists
        BY <1>1 DEF ClientsWrite, ClientsViews
      <2>3. net' = net \cup {Keeping(Write(call, view.sel, flag), shown)}
        BY <1>1 DEF ClientsWrite, Sends
      <2> QED BY <1>1, <2>1, <2>2, <2>3 DEF ClientsWrite, ClientsSends
    <1>2. view.shows \in Targets /\ view.holds \in Targets
      BY DEF ClientsViews
    <1>3. CASE ClientsReactivate
      BY <1>1, <1>2, <1>3 DEF ClientsReactivate, ClientsWrites
    <1>4. CASE ClientsArchive
      BY <1>1, <1>2, <1>4 DEF ClientsArchive, ClientsWrites
    <1>5. CASE ClientsSave
      BY <1>1, <1>2, <1>5 DEF ClientsSave, ClientsWrites
    <1> QED BY <1>3, <1>4, <1>5

-----------------------------------------------------------------------------
(* Outdating keeps every request, but marks those of `calls` *)

LEMMA OutdatedMembers ==
    ASSUME NEW requests, ClientsNet(requests), NEW calls, calls \cap ClientsWrites = {}
    PROVE  /\ \A s \in Outdated(requests, calls) : \E r \in requests :
                 /\ s.call = r.call /\ s.arg = r.arg /\ s.flag = r.flag /\ s.kind = r.kind
                 /\ s.step = r.step /\ s.saw = r.saw
                 /\ Latest(s) => s = r /\ r.call \notin calls
           /\ \A r \in requests : r.call \notin calls => r \in Outdated(requests, calls)
           /\ \A r \in requests : \E s \in Outdated(requests, calls) : s.flag = r.flag
    <1>1. ASSUME NEW r \in requests
          PROVE  /\ r.call \notin calls => r.kind # "read" \/ r.call \notin calls
                 /\ r.call \in calls => r.kind = "read"
                 /\ [r EXCEPT !.at = "old"].call = r.call /\ [r EXCEPT !.at = "old"].arg = r.arg
                 /\ [r EXCEPT !.at = "old"].flag = r.flag /\ [r EXCEPT !.at = "old"].kind = r.kind
                 /\ [r EXCEPT !.at = "old"].step = r.step /\ [r EXCEPT !.at = "old"].saw = r.saw
                 /\ [r EXCEPT !.at = "old"].at = "old"
      BY <1>1 DEF ClientsNet, ClientsRequests, Requests
    <1> DEFINE mark(r) == IF r.kind = "read" /\ r.call \in calls THEN [r EXCEPT !.at = "old"] ELSE r
    <1>2. Outdated(requests, calls) = {mark(r) : r \in requests}
      BY DEF Outdated
    <1>3. ASSUME NEW r \in requests
          PROVE  /\ mark(r).call = r.call /\ mark(r).arg = r.arg /\ mark(r).flag = r.flag
                 /\ mark(r).kind = r.kind /\ mark(r).step = r.step /\ mark(r).saw = r.saw
                 /\ Latest(mark(r)) => mark(r) = r /\ r.call \notin calls
                 /\ r.call \notin calls => mark(r) = r
      BY <1>1, <1>3 DEF Latest
    <1> HIDE DEF mark
    <1> QED BY <1>2, <1>3

-----------------------------------------------------------------------------
(* Answers *)

\* What an answered reading of the list leaves, before anything is selected.
LEMMA AwaitTyped ==
    ASSUME ClientsTyped, NEW r \in net, Reads(r, ClientsLists), Unsent("refreshed")
    PROVE  /\ ClientsNet(ClientsAwait(r)) /\ ClientsAwaiting(r) \in ClientsViews
           /\ SentWrites(ClientsAwait(r)) \subseteq SentWrites(net)
           /\ ClientsAwaiting(r).sel = view.sel /\ ClientsAwaiting(r).shows = view.shows
           /\ ClientsAwaiting(r).lists = view.lists
    <1>1. ClientsNet(net \ {r}) /\ r \in ClientsRequests /\ view \in ClientsViews
      BY DEF ClientsTyped, ClientsNet
    <1>2. CASE ClientsHandled(r)
      <2>1. r.arg \in Items /\ r.arg \in ClientsSubjects /\ r.flag \in ClientsFlags
        BY <1>1, <1>2 DEF ClientsHandled, ClientsTyped, ClientsNet, ClientsAbout, ClientsRequests, Requests
      <2> DEFINE more == Read("refreshed", r.arg, r.flag)
      <2>2. ClientsNet({more}) /\ more.kind = "read"
        BY <2>1, ReadingTyped DEF ClientsDetails
      <2>3. /\ ClientsNet(Outdated(net \ {r}, ClientsDetails))
            /\ SentWrites(Outdated(net \ {r}, ClientsDetails)) \subseteq SentWrites(net \ {r})
        BY <1>1, OutdatedTyped
      <2>4. ClientsAwait(r) = Outdated(net \ {r}, ClientsDetails) \cup {more}
        BY <1>2 DEF ClientsAwait, ClientsDetail
      <2>5. ClientsNet(ClientsAwait(r))
        <3> HIDE DEF more
        <3> QED BY <2>2, <2>3, <2>4 DEF ClientsNet
      <2>6. SentWrites(ClientsAwait(r)) \subseteq SentWrites(net)
        <3> HIDE DEF more
        <3> QED BY <2>2, <2>3, <2>4 DEF SentWrites
      <2>7. ClientsAwaiting(r) = [view EXCEPT !.detailing = TRUE]
        BY <1>2 DEF ClientsAwaiting
      <2> QED BY <1>1, <2>5, <2>6, <2>7 DEF ClientsViews
    <1>3. CASE ~ClientsHandled(r)
      <2>1. ClientsAwaiting(r) = [view EXCEPT !.busy = @ \ {r.flag}] /\ ClientsAwait(r) = net \ {r}
        BY <1>3 DEF ClientsAwaiting, ClientsAwait
      <2>2. SentWrites(net \ {r}) \subseteq SentWrites(net)
        BY DEF SentWrites
      <2> QED BY <1>1, <2>1, <2>2 DEF ClientsViews
    <1> QED BY <1>2, <1>3

LEMMA ListedTyped ==
    ASSUME ClientsTyped, NEW r \in net, ClientsListed(r)
    PROVE  view' \in ClientsViews /\ ClientsNet(net') /\ SentWrites(net') \subseteq SentWrites(net)
    <1>1. Reads(r, ClientsLists) /\ Unsent("refreshed") /\ Unsent("detail")
      BY DEF ClientsListed
    <1> DEFINE v == ClientsAwaiting(r)
               requests == ClientsAwait(r)
    <1>2. /\ ClientsNet(requests) /\ v \in ClientsViews /\ v.sel = view.sel
          /\ SentWrites(requests) \subseteq SentWrites(net)
      BY <1>1, AwaitTyped
    <1>3. CASE ~Latest(r)
      BY <1>2, <1>3 DEF ClientsListed
    <1>4. CASE Latest(r)
      <2>1. PICK visible \in SUBSET Items, first \in Items :
               LET i == ClientsChoice(r, visible, first)
               IN  /\ view' = [ClientsSelected(v, i) EXCEPT !.visible = visible, !.lists = r.saw]
                   /\ net' = ClientsSelecting(requests, i)
        BY <1>4 DEF ClientsListed, ClientsTake
      <2> DEFINE i == ClientsChoice(r, visible, first)
      <2>2. i \in Targets /\ view.sel \in Targets
        BY DEF ClientsChoice, Targets, ClientsTyped, ClientsViews
      <2>3. ClientsSelected(v, i) \in ClientsViews /\ r.saw \in Versions
        BY <1>2, <2>2, SelectedTyped DEF ClientsTyped, ClientsNet, ClientsRequests, Requests
      <2>4. view' \in ClientsViews
        <3> HIDE DEF i, v
        <3> QED BY <2>1, <2>3 DEF ClientsViews, i
      <2>5. net' = ClientsSelecting(requests, i)
        BY <2>1
      <2> HIDE DEF i, v, requests
      <2>6. CASE i = view.sel
        BY <1>2, <2>4, <2>5, <2>6 DEF ClientsSelecting
      <2>7. CASE i # view.sel /\ i = None
        BY <1>2, <2>4, <2>5, <2>7, OutdatedTyped DEF ClientsSelecting
      <2>8. CASE i # view.sel /\ i # None
        <3>1. i \in Items /\ i \in ClientsSubjects /\ "" \in ClientsFlags
          BY <2>2, <2>8 DEF Targets, ClientsSubjects, ClientsFlags
        <3> DEFINE more == Read("detail", i, "")
        <3>2. ClientsNet({more}) /\ more.kind = "read"
          <4>1. "detail" \in ClientsLists \cup ClientsDetails
            BY DEF ClientsDetails
          <4>2. ClientsNet({more})
            BY <1>1, <3>1, <4>1, ReadingTyped
          <4> QED BY <4>2 DEF Read, Request
        <3>3. net' = Outdated(requests, ClientsDetails) \cup {more}
          BY <2>5, <2>8 DEF ClientsSelecting, ClientsDetail
        <3>4. /\ ClientsNet(Outdated(requests, ClientsDetails))
              /\ SentWrites(Outdated(requests, ClientsDetails)) \subseteq SentWrites(requests)
          BY <1>2, OutdatedTyped
        <3> HIDE DEF more
        <3>5. ClientsNet(net')
          BY <3>2, <3>3, <3>4 DEF ClientsNet
        <3> QED BY <1>2, <2>4, <3>2, <3>3, <3>4, <3>5 DEF SentWrites
      <2> QED BY <2>6, <2>7, <2>8
    <1> QED BY <1>3, <1>4

LEMMA UnlistedTyped ==
    ASSUME ClientsTyped, NEW r \in net, ClientsUnlisted(r)
    PROVE  /\ view' \in ClientsViews /\ net' = net \ {r} /\ view'.busy = view.busy \ {r.flag}
           /\ view'.sel = view.sel /\ view'.shows = view.shows /\ view'.lists = view.lists
    BY DEF ClientsUnlisted, Sends, ClientsTyped, ClientsViews

LEMMA DetailedTyped ==
    ASSUME ClientsTyped, NEW r \in net, ClientsDetailed(r)
    PROVE  /\ view' \in ClientsViews /\ net' = net \ {r} /\ view'.busy = view.busy \ {r.flag}
           /\ view'.sel = view.sel /\ view'.lists = view.lists
           /\ view'.shows = IF r.step # "failed" /\ Latest(r) THEN r.arg ELSE view.shows
    <1> DEFINE v == [view EXCEPT !.busy = @ \ {r.flag}, !.detailing = @ /\ ~Latest(r),
                                 !.drawer = @ \/ (r.call = "refreshed" /\ r.step = "served"
                                                  /\ r.flag = "submit")]
    <1>1. /\ v \in ClientsViews /\ v.busy = view.busy \ {r.flag} /\ v.sel = view.sel
          /\ v.lists = view.lists /\ v.shows = view.shows
      BY DEF ClientsTyped, ClientsViews
    <1>2. /\ view' = IF r.step = "failed"
                     THEN [v EXCEPT !.status = IF r.call = "again" THEN @ ELSE "error"]
                     ELSE IF Latest(r) THEN ClientsShows(v, r.arg) ELSE v
          /\ net' = net \ {r}
      BY DEF ClientsDetailed, Sends
    <1>3. r.arg \in Targets
      BY DEF ClientsDetailed, Reads, Answered, ClientsDetails, ClientsTyped, ClientsNet,
             ClientsAbout, Targets
    <1> HIDE DEF v
    <1>4. CASE r.step = "failed"
      BY <1>1, <1>2, <1>4 DEF ClientsViews
    <1>5. CASE r.step # "failed" /\ Latest(r)
      <2>1. ClientsShows(v, r.arg) \in ClientsViews
        BY <1>1, <1>3, ShowsTyped
      <2>2. /\ ClientsShows(v, r.arg).shows = r.arg /\ ClientsShows(v, r.arg).busy = v.busy
            /\ ClientsShows(v, r.arg).sel = v.sel /\ ClientsShows(v, r.arg).lists = v.lists
        BY <1>1 DEF ClientsShows, ClientsViews
      <2> QED BY <1>1, <1>2, <1>5, <2>1, <2>2
    <1>6. CASE r.step # "failed" /\ ~Latest(r)
      BY <1>1, <1>2, <1>6
    <1> QED BY <1>4, <1>5, <1>6

\* What follows a write that was served.
ClientsRereads(r) ==
    \E i \in ClientsSubjects :
        LET call == ClientsNextList[r.call]
        IN  /\ Unsent(call) /\ (call \in ClientsAbout => i \in Items)
            /\ net' = Outdated(net \ {r}, ClientsLists) \cup {Read(call, i, r.flag)}
            /\ view'.busy = view.busy

LEMMA WrittenTyped ==
    ASSUME ClientsTyped, NEW r \in net, ClientsWritten(r)
    PROVE  /\ view' \in ClientsViews
           /\ view'.sel = view.sel /\ view'.shows = view.shows /\ view'.lists = view.lists
           /\ \/ r.step = "served" /\ ClientsRereads(r)
              \/ r.step # "served" /\ net' = net \ {r} /\ view'.busy = view.busy \ {r.flag}
    <1>1. r.call \in ClientsWrites /\ r \in ClientsRequests /\ r.step # "sent" /\ r.kind = "write"
      BY DEF ClientsWritten, Wrote, Answered, ClientsTyped, ClientsNet
    <1>2. CASE r.step = "served"
      <2> DEFINE v == ClientsFormGone(view)
      <2>1. /\ v \in ClientsViews /\ v.sel = view.sel /\ v.shows = view.shows
            /\ v.lists = view.lists /\ v.busy = view.busy
        BY DEF ClientsTyped, ClientsFormGone, ClientsViews, Drafts, Targets
      <2>2. view' = [v EXCEPT !.modal = IF r.call = "archive" THEN "none" ELSE @,
                              !.drawer = @ /\ r.call # "archive"]
        BY <1>2 DEF ClientsWritten
      <2>3. /\ view' \in ClientsViews /\ view'.busy = view.busy
            /\ view'.sel = view.sel /\ view'.shows = view.shows /\ view'.lists = view.lists
        <3> HIDE DEF v
        <3> QED BY <2>1, <2>2 DEF ClientsViews
      <2>4. PICK i \in (IF r.call = "create" THEN Items
                        ELSE IF r.call = "archive" THEN {None} ELSE {r.arg}) :
               net' = Outdated(net \ {r}, ClientsLists)
                      \cup {Read(ClientsNextList[r.call], i, r.flag)}
        BY <1>2 DEF ClientsWritten
      <2>5. r.call \in {"update", "reactivate"} => r.arg \in Items
        BY DEF ClientsTyped, ClientsNet, ClientsAbout
      <2>6. i \in Items \/ (i = None /\ r.call = "archive")
        BY <1>1, <2>4, <2>5 DEF ClientsWrites
      <2>7. i \in ClientsSubjects /\ (ClientsNextList[r.call] \in ClientsAbout => i \in Items)
        BY <2>6 DEF ClientsSubjects, Targets, ClientsNextList, ClientsAbout
      <2>8. Unsent(ClientsNextList[r.call])
        BY <1>2 DEF ClientsWritten
      <2> QED BY <1>2, <2>3, <2>4, <2>7, <2>8 DEF ClientsRereads
    <1>3. CASE r.step # "served"
      <2>1. view' = [view EXCEPT !.busy = @ \ {r.flag}, !.status = "error"] /\ net' = net \ {r}
        BY <1>3 DEF ClientsWritten, Sends
      <2>2. view \in ClientsViews
        BY DEF ClientsTyped
      <2>3. view' \in ClientsViews
        BY <2>1, <2>2 DEF ClientsViews
      <2>4. view'.busy = view.busy \ {r.flag} /\ view'.sel = view.sel
            /\ view'.shows = view.shows /\ view'.lists = view.lists
        BY <2>1, <2>2 DEF ClientsViews
      <2> QED BY <1>3, <2>1, <2>3, <2>4
    <1> QED BY <1>2, <1>3

-----------------------------------------------------------------------------
(* The types are kept *)

LEMMA ActsTyped ==
    ASSUME ClientsTyped, ClientsActs, db' = db
    PROVE  ClientsNet(net') /\ WritesBounded'
    <1> USE DEF ClientsTyped
    <1>1. CASE ClientsOnlyView
      BY <1>1, FewerWrites DEF ClientsOnlyView
    <1>2. ASSUME NEW call \in ClientsLists \cup ClientsDetails, Unsent(call),
                 NEW arg \in ClientsSubjects, NEW calls,
                 call \in ClientsAbout => arg \in Items,
                 net' = Outdated(net, calls) \cup {Read(call, arg, "")}
          PROVE  ClientsNet(net') /\ WritesBounded'
      <2> DEFINE more == Read(call, arg, "")
      <2>1. ClientsNet({more}) /\ more.kind = "read"
        <3>1. "" \in ClientsFlags
          BY DEF ClientsFlags
        <3>2. ClientsNet({more})
          BY <1>2, <3>1, ReadingTyped
        <3> QED BY <3>2 DEF Read, Request
      <2>2. /\ ClientsNet(Outdated(net, calls))
            /\ SentWrites(Outdated(net, calls)) \subseteq SentWrites(net)
        BY OutdatedTyped
      <2>3. net' = Outdated(net, calls) \cup {more}
        BY <1>2
      <2> HIDE DEF more
      <2>4. ClientsNet(net')
        BY <2>1, <2>2, <2>3 DEF ClientsNet
      <2>5. SentWrites(net') \subseteq SentWrites(net)
        BY <2>1, <2>2, <2>3 DEF SentWrites
      <2> QED BY <2>4, <2>5, FewerWrites
    <1>3. CASE ClientsReadsList
      BY <1>2, <1>3 DEF ClientsReadsList, ClientsLists, ClientsAbout
    <1>4. CASE ClientsReadsDetail
      BY <1>2, <1>4 DEF ClientsReadsDetail, ClientsDetails, ClientsSubjects, Targets
    <1>5. CASE ClientsSends
      <2>1. PICK call \in ClientsWrites, flag \in {"submit", "delete"}, arg, shown \in Targets :
               /\ MayWrite(call) /\ (call # "create" => arg \in Items)
               /\ net' = net \cup {Keeping(Write(call, arg, flag), shown)}
        BY <1>5 DEF ClientsSends
      <2> DEFINE w == Keeping(Write(call, arg, flag), shown)
      <2>2. ClientsNet({w})
        BY <2>1, WritingTyped DEF MayWrite, ClientsFlags
      <2>3. net' = net \cup {w}
        BY <2>1
      <2> HIDE DEF w
      <2>4. ClientsNet(net')
        BY <2>2, <2>3 DEF ClientsNet
      <2>5. SentWrites(net') \subseteq SentWrites(net) \cup {w}
        BY <2>3 DEF SentWrites
      <2> QED BY <2>1, <2>4, <2>5, OneMoreWrite
    <1> QED BY <1>1, <1>3, <1>4, <1>5 DEF ClientsActs

LEMMA RereadsTyped ==
    ASSUME ClientsTyped, NEW r \in net, r.call \in ClientsWrites, ClientsRereads(r)
    PROVE  ClientsNet(net') /\ SentWrites(net') \subseteq SentWrites(net)
    <1>1. PICK i \in ClientsSubjects :
             /\ Unsent(ClientsNextList[r.call])
             /\ ClientsNextList[r.call] \in ClientsAbout => i \in Items
             /\ net' = Outdated(net \ {r}, ClientsLists)
                       \cup {Read(ClientsNextList[r.call], i, r.flag)}
      BY DEF ClientsRereads
    <1>2. r.flag \in ClientsFlags /\ ClientsNet(net \ {r})
      BY DEF ClientsTyped, ClientsNet, ClientsRequests, Requests
    <1>3. ClientsNextList[r.call] \in ClientsLists
      BY DEF ClientsWrites, ClientsNextList, ClientsLists
    <1> DEFINE call == ClientsNextList[r.call]
               more == Read(call, i, r.flag)
    <1>4. ClientsNet({more})
      BY <1>1, <1>2, <1>3, ReadingTyped
    <1>5. more.kind = "read"
      BY DEF Read, Request
    <1>6. /\ ClientsNet(Outdated(net \ {r}, ClientsLists))
          /\ SentWrites(Outdated(net \ {r}, ClientsLists)) \subseteq SentWrites(net \ {r})
      BY <1>2, OutdatedTyped
    <1>7. net' = Outdated(net \ {r}, ClientsLists) \cup {more}
      BY <1>1
    <1> HIDE DEF more
    <1> QED BY <1>4, <1>5, <1>6, <1>7 DEF ClientsNet, SentWrites

-----------------------------------------------------------------------------
(* What the properties rest on *)

WriteServed == \E w \in net : w.kind = "write" /\ w.step = "served"
ListAwaited == \E r \in net : r.call \in ClientsLists /\ Latest(r)
DetailAwaited == \E r \in net : r.call \in ClientsDetails /\ Latest(r)

ClientsBusy == \A f \in view.busy : HasRequest(f)

\* A list or a reading of it that is out of date is followed by another reading, once the
\* write that outdated it is answered.
ClientsCounted ==
    failures = 0 =>
        /\ \A r \in net : r.step \in {"sent", "served"}
        /\ \A r \in net : r.call \in ClientsLists /\ Latest(r) /\ r.step = "served" =>
                             r.saw = db \/ WriteServed
        /\ view.lists = db \/ WriteServed \/ ListAwaited

ClientsAfterWrites == {"saved", "archived", "reactivated", "refreshed"}

\* While nothing was written, the details awaited are those of the client selected.
ClientsFollows ==
    /\ WriteServed => db # 0
    /\ failures = 0 /\ db = 0 =>
        /\ \A r \in net : r.call \notin ClientsAfterWrites
        /\ \A r \in net : r.call \in ClientsDetails /\ Latest(r) => r.arg = view.sel
        /\ view.shows = view.sel \/ DetailAwaited

ClientsInv == ClientsTyped /\ ClientsBusy /\ ClientsCounted /\ ClientsFollows

LEMMA Disjoint ==
    /\ ClientsLists \cap ClientsWrites = {} /\ ClientsDetails \cap ClientsWrites = {}
    /\ ClientsLists \cap ClientsDetails = {}
    /\ {"detail", "again"} \cap ClientsAfterWrites = {}
    /\ {"list", "filter", "turn"} \cap ClientsAfterWrites = {}
    /\ ClientsWrites \cap ClientsAfterWrites = {}
    BY DEF ClientsLists, ClientsDetails, ClientsWrites, ClientsAfterWrites

\* A reading of the list is sent: it is the latest.
LEMMA ReadsListKeeps ==
    ASSUME ClientsInv, ClientsReadsList, db' = db, failures' = failures
    PROVE  ClientsBusy' /\ ClientsCounted' /\ ClientsFollows'
    <1>1. PICK call \in {"list", "filter", "turn"}, arg \in ClientsSubjects :
             /\ Unsent(call) /\ ClientsSame
             /\ net' = Outdated(net, ClientsLists) \cup {Read(call, arg, "")}
      BY DEF ClientsReadsList
    <1> DEFINE more == Read(call, arg, "")
               marked == Outdated(net, ClientsLists)
    <1>2. net' = marked \cup {more}
      BY <1>1
    <1>3. /\ more.call = call /\ more.step = "sent" /\ Latest(more) /\ more.kind = "read"
          /\ call \in ClientsLists /\ call \notin ClientsDetails
      BY DEF Read, Request, Latest, None, ClientsLists, ClientsDetails
    <1>4. ClientsNet(net)
      BY DEF ClientsInv, ClientsTyped
    <1>5. \A s \in marked : \E r \in net :
             /\ s.call = r.call /\ s.arg = r.arg /\ s.flag = r.flag /\ s.kind = r.kind
             /\ s.step = r.step /\ s.saw = r.saw
             /\ Latest(s) => s = r /\ r.call \notin ClientsLists
      BY <1>4, OutdatedMembers, Disjoint
    <1>kept. \A r \in net : r.call \notin ClientsLists => r \in marked
      BY <1>4, OutdatedMembers, Disjoint
    <1>flags. \A r \in net : \E s \in marked : s.flag = r.flag
      BY <1>4, OutdatedMembers, Disjoint
    <1> HIDE DEF more, marked
    <1>6. ClientsSame
      BY <1>1
    <1>7. ClientsBusy'
      BY <1>2, <1>flags, <1>6 DEF ClientsInv, ClientsBusy, HasRequest, ClientsSame
    <1>8. ClientsCounted'
      <2>1. SUFFICES ASSUME failures' = 0
                     PROVE  /\ \A r \in net' : r.step \in {"sent", "served"}
                            /\ \A r \in net' : ~(r.call \in ClientsLists /\ Latest(r) /\ r.step = "served")
                            /\ ListAwaited'
        BY DEF ClientsCounted, Latest
      <2>2. \A r \in net' : r.step \in {"sent", "served"}
        BY <1>2, <1>3, <1>5, <2>1 DEF ClientsInv, ClientsCounted
      <2>3. \A r \in net' : ~(r.call \in ClientsLists /\ Latest(r) /\ r.step = "served")
        BY <1>2, <1>3, <1>5
      <2>4. ListAwaited'
        BY <1>2, <1>3 DEF ListAwaited, Latest
      <2> QED BY <2>2, <2>3, <2>4
    <1>9. ClientsFollows'
      <2>1. WriteServed' => WriteServed
        BY <1>2, <1>3, <1>5 DEF WriteServed
      <2>2. DetailAwaited => DetailAwaited'
        BY <1>2, <1>kept, Disjoint DEF DetailAwaited, Latest
      <2>3. \A s \in net' : \/ s.call \in ClientsLists /\ s.call \notin ClientsAfterWrites
                           \/ \E r \in net : s.call = r.call /\ s.arg = r.arg /\ (Latest(s) => Latest(r))
        BY <1>1, <1>2, <1>3, <1>5, Disjoint
      <2>4. SUFFICES ASSUME failures' = 0, db' = 0
                     PROVE  /\ \A r \in net' : r.call \notin ClientsAfterWrites
                            /\ \A r \in net' : r.call \in ClientsDetails /\ Latest(r) => r.arg = view'.sel
                            /\ view'.shows = view'.sel \/ DetailAwaited'
        BY <2>1 DEF ClientsFollows, Latest, ClientsInv
      <2> QED BY <1>6, <2>2, <2>3, <2>4, Disjoint DEF ClientsInv, ClientsFollows, ClientsSame
    <1> QED BY <1>7, <1>8, <1>9

\* A reading of the details is sent, of the client selected: it is the latest.
LEMMA ReadsDetailKeeps ==
    ASSUME ClientsInv, ClientsReadsDetail, db' = db, failures' = failures
    PROVE  ClientsBusy' /\ ClientsCounted' /\ ClientsFollows'
    <1>1. PICK call \in {"detail", "again"} :
             /\ Unsent(call) /\ view'.sel \in Items
             /\ net' = Outdated(net, ClientsDetails) \cup {Read(call, view'.sel, "")}
             /\ view'.shows = view.shows /\ view'.lists = view.lists /\ view'.busy = view.busy
      BY DEF ClientsReadsDetail
    <1> DEFINE more == Read(call, view'.sel, "")
               marked == Outdated(net, ClientsDetails)
    <1>2. net' = marked \cup {more}
      BY <1>1
    <1>3. /\ more.call = call /\ more.step = "sent" /\ Latest(more) /\ more.kind = "read"
          /\ more.arg = view'.sel
          /\ call \in ClientsDetails /\ call \notin ClientsLists /\ call \notin ClientsAfterWrites
      BY Disjoint DEF Read, Request, Latest, None, ClientsDetails
    <1>4. ClientsNet(net)
      BY DEF ClientsInv, ClientsTyped
    <1>5. \A s \in marked : \E r \in net :
             /\ s.call = r.call /\ s.arg = r.arg /\ s.flag = r.flag /\ s.kind = r.kind
             /\ s.step = r.step /\ s.saw = r.saw
             /\ Latest(s) => s = r /\ r.call \notin ClientsDetails
      BY <1>4, OutdatedMembers, Disjoint
    <1>kept. \A r \in net : r.call \notin ClientsDetails => r \in marked
      BY <1>4, OutdatedMembers, Disjoint
    <1>flags. \A r \in net : \E s \in marked : s.flag = r.flag
      BY <1>4, OutdatedMembers, Disjoint
    <1> HIDE DEF more, marked
    <1>6. view'.shows = view.shows /\ view'.lists = view.lists /\ view'.busy = view.busy
      BY <1>1
    <1>7. ClientsBusy'
      BY <1>2, <1>flags, <1>6 DEF ClientsInv, ClientsBusy, HasRequest
    <1>writes. /\ \A w \in net : w.kind = "write" => w.call \notin ClientsDetails
               /\ WriteServed <=> WriteServed'
      <2>1. \A w \in net : w.kind = "write" => w.call \notin ClientsDetails
        BY <1>4, Disjoint DEF ClientsNet
      <2> QED BY <2>1, <1>2, <1>3, <1>5, <1>kept DEF WriteServed
    <1>8. ClientsCounted'
      <2>1. SUFFICES ASSUME failures' = 0
                     PROVE  /\ \A r \in net' : r.step \in {"sent", "served"}
                            /\ \A r \in net' : r.call \in ClientsLists /\ Latest(r) /\ r.step = "served"
                                                  => r.saw = db \/ WriteServed
                            /\ view.lists = db \/ WriteServed \/ ListAwaited'
        BY <1>6, <1>writes DEF ClientsCounted, Latest
      <2>2. \A r \in net' : r.step \in {"sent", "served"}
        BY <1>2, <1>3, <1>5, <2>1 DEF ClientsInv, ClientsCounted
      <2>3. ASSUME NEW r \in net', r.call \in ClientsLists, Latest(r), r.step = "served"
            PROVE  r.saw = db \/ WriteServed
        BY <1>2, <1>3, <1>5, <2>1, <2>3 DEF ClientsInv, ClientsCounted
      <2>4. ListAwaited => ListAwaited'
        BY <1>2, <1>kept, Disjoint DEF ListAwaited, Latest
      <2> QED BY <2>1, <2>2, <2>3, <2>4 DEF ClientsInv, ClientsCounted
    <1>9. ClientsFollows'
      <2>1. SUFFICES ASSUME failures' = 0, db' = 0
                     PROVE  /\ \A r \in net' : r.call \notin ClientsAfterWrites
                            /\ \A r \in net' : r.call \in ClientsDetails /\ Latest(r) => r.arg = view'.sel
                            /\ DetailAwaited'
        BY <1>writes DEF ClientsFollows, Latest, ClientsInv
      <2>2. \A r \in net' : r.call \notin ClientsAfterWrites
        BY <1>2, <1>3, <1>5, <2>1 DEF ClientsInv, ClientsFollows
      <2>3. \A r \in net' : r.call \in ClientsDetails /\ Latest(r) => r.arg = view'.sel
        BY <1>2, <1>3, <1>5
      <2>4. DetailAwaited'
        BY <1>2, <1>3 DEF DetailAwaited, Latest
      <2> QED BY <2>2, <2>3, <2>4
    <1> QED BY <1>7, <1>8, <1>9

\* A write is sent, or nothing is.
LEMMA SendsKeeps ==
    ASSUME ClientsInv, ClientsSends \/ ClientsOnlyView, db' = db, failures' = failures
    PROVE  ClientsBusy' /\ ClientsCounted' /\ ClientsFollows'
    <1>1. CASE ClientsOnlyView
      BY <1>1 DEF ClientsInv, ClientsOnlyView, ClientsSame, ClientsBusy, HasRequest, ClientsCounted,
         ClientsFollows, WriteServed, ListAwaited, DetailAwaited, Latest
    <1>2. CASE ClientsSends
      <2>1. PICK call \in ClientsWrites, flag \in {"submit", "delete"}, arg, shown \in Targets :
               /\ MayWrite(call) /\ (call # "create" => arg \in Items)
               /\ net' = net \cup {Keeping(Write(call, arg, flag), shown)}
               /\ view'.busy = view.busy \cup {flag}
               /\ view'.sel = view.sel /\ view'.shows = view.shows /\ view'.lists = view.lists
        BY <1>2 DEF ClientsSends
      <2> DEFINE w == Keeping(Write(call, arg, flag), shown)
      <2>2. /\ w.call = call /\ w.flag = flag /\ w.kind = "write" /\ w.step = "sent"
            /\ call \notin ClientsLists /\ call \notin ClientsDetails /\ call \notin ClientsAfterWrites
        BY Disjoint DEF Keeping, Write, Request
      <2>3. net' = net \cup {w}
        BY <2>1
      <2> HIDE DEF w
      <2>4. /\ WriteServed' <=> WriteServed
            /\ ListAwaited => ListAwaited'
            /\ DetailAwaited => DetailAwaited'
        BY <2>2, <2>3 DEF WriteServed, ListAwaited, DetailAwaited, Latest
      <2>5. ClientsBusy'
        BY <2>1, <2>2, <2>3 DEF ClientsInv, ClientsBusy, HasRequest
      <2>6. ClientsCounted'
        <3>1. SUFFICES ASSUME failures = 0
                       PROVE  /\ \A r \in net' : r.step \in {"sent", "served"}
                              /\ \A r \in net' : r.call \in ClientsLists /\ Latest(r) /\ r.step = "served"
                                                    => r.saw = db \/ WriteServed
                              /\ view.lists = db \/ WriteServed \/ ListAwaited'
          BY <2>1, <2>4 DEF ClientsCounted, Latest
        <3>2. \A r \in net' : r = w \/ r \in net
          BY <2>3
        <3>3. ClientsCounted
          BY DEF ClientsInv
        <3>4. \A r \in net' : r.step \in {"sent", "served"}
          BY <2>2, <3>1, <3>2, <3>3 DEF ClientsCounted
        <3>5. \A r \in net' : r.call \in ClientsLists /\ Latest(r) /\ r.step = "served"
                                 => r.saw = db \/ WriteServed
          BY <2>2, <3>1, <3>2, <3>3 DEF ClientsCounted
        <3> QED BY <2>4, <3>1, <3>3, <3>4, <3>5 DEF ClientsCounted
      <2>7. ClientsFollows'
        <3>1. SUFFICES ASSUME failures = 0, db = 0
                       PROVE  /\ \A r \in net' : r.call \notin ClientsAfterWrites
                              /\ \A r \in net' : r.call \in ClientsDetails /\ Latest(r) => r.arg = view.sel
                              /\ view.shows = view.sel \/ DetailAwaited'
          BY <2>1, <2>4 DEF ClientsInv, ClientsFollows, Latest
        <3>2. \A r \in net' : r = w \/ r \in net
          BY <2>3
        <3>3. ClientsFollows
          BY DEF ClientsInv
        <3>4. \A r \in net' : r.call \notin ClientsAfterWrites
          BY <2>2, <3>1, <3>2, <3>3 DEF ClientsFollows
        <3>5. \A r \in net' : r.call \in ClientsDetails /\ Latest(r) => r.arg = view.sel
          BY <2>2, <3>1, <3>2, <3>3 DEF ClientsFollows
        <3> QED BY <2>4, <3>1, <3>3, <3>4, <3>5 DEF ClientsFollows
      <2> QED BY <2>5, <2>6, <2>7
    <1> QED BY <1>1, <1>2

LEMMA UnlistedKeeps ==
    ASSUME ClientsInv, NEW r \in net, ClientsUnlisted(r)
    PROVE  ClientsInv'
    <1>1. /\ view' \in ClientsViews /\ net' = net \ {r} /\ view'.busy = view.busy \ {r.flag}
          /\ view'.sel = view.sel /\ view'.shows = view.shows /\ view'.lists = view.lists
      BY UnlistedTyped DEF ClientsInv
    <1>2. UNCHANGED server /\ r.step = "failed" /\ r.call \in ClientsLists /\ r.kind = "read"
      BY DEF ClientsUnlisted, Reads, Answered
    <1>3. ClientsTyped'
      <2>1. SentWrites(net') \subseteq SentWrites(net)
        BY <1>1 DEF SentWrites
      <2> QED BY <1>1, <1>2, <2>1, FewerWrites DEF ClientsInv, ClientsTyped, ClientsNet, server
    <1>4. ClientsBusy'
      BY <1>1 DEF ClientsInv, ClientsBusy, HasRequest
    <1>5. failures' # 0
      BY <1>2 DEF ClientsInv, ClientsCounted, server
    <1>6. WriteServed' => db' # 0
      BY <1>1, <1>2 DEF ClientsInv, ClientsFollows, WriteServed, server
    <1> QED BY <1>3, <1>4, <1>5, <1>6 DEF ClientsInv, ClientsCounted, ClientsFollows

LEMMA DetailedKeeps ==
    ASSUME ClientsInv, NEW r \in net, ClientsDetailed(r)
    PROVE  ClientsInv'
    <1>1. /\ view' \in ClientsViews /\ net' = net \ {r} /\ view'.busy = view.busy \ {r.flag}
          /\ view'.sel = view.sel /\ view'.lists = view.lists
          /\ view'.shows = IF r.step # "failed" /\ Latest(r) THEN r.arg ELSE view.shows
      BY DetailedTyped DEF ClientsInv
    <1>2. UNCHANGED server /\ r.call \in ClientsDetails /\ r.kind = "read"
      BY DEF ClientsDetailed, Reads, Answered
    <1>3. ClientsTyped'
      <2>1. SentWrites(net') \subseteq SentWrites(net)
        BY <1>1 DEF SentWrites
      <2> QED BY <1>1, <1>2, <2>1, FewerWrites DEF ClientsInv, ClientsTyped, ClientsNet, server
    <1>4. ClientsBusy'
      BY <1>1 DEF ClientsInv, ClientsBusy, HasRequest
    <1>5. /\ WriteServed' <=> WriteServed
          /\ ListAwaited => ListAwaited'
          /\ DetailAwaited => DetailAwaited' \/ Latest(r)
      BY <1>1, <1>2, Disjoint DEF WriteServed, ListAwaited, DetailAwaited, Latest
    <1>6. ClientsCounted'
      BY <1>1, <1>2, <1>5 DEF ClientsInv, ClientsCounted, Latest, server
    <1>7. ClientsFollows'
      <2>1. SUFFICES ASSUME failures = 0, db = 0
                     PROVE  view'.shows = view'.sel \/ DetailAwaited'
        BY <1>1, <1>2, <1>5 DEF ClientsInv, ClientsFollows, Latest, server
      <2>2. r.step # "failed" /\ (Latest(r) => r.arg = view.sel)
        BY <1>2, <2>1 DEF ClientsInv, ClientsCounted, ClientsFollows
      <2> QED BY <1>1, <1>5, <2>1, <2>2 DEF ClientsInv, ClientsFollows
    <1> QED BY <1>3, <1>4, <1>6, <1>7 DEF ClientsInv

\* A write is answered: if it was made, the list is read again.
LEMMA WrittenKeeps ==
    ASSUME ClientsInv, NEW r \in net, ClientsWritten(r)
    PROVE  ClientsInv'
    <1>1. /\ view' \in ClientsViews
          /\ view'.sel = view.sel /\ view'.shows = view.shows /\ view'.lists = view.lists
          /\ \/ r.step = "served" /\ ClientsRereads(r)
             \/ r.step # "served" /\ net' = net \ {r} /\ view'.busy = view.busy \ {r.flag}
      BY WrittenTyped DEF ClientsInv
    <1>2. /\ UNCHANGED server /\ r.call \in ClientsWrites /\ r.kind = "write" /\ r.step # "sent"
      BY DEF ClientsWritten, Wrote, Answered
    <1>3. /\ ClientsNet(net) /\ WritesBounded /\ inputs \in 0..MaxInputs /\ failures \in 0..MaxFailures
      BY DEF ClientsInv, ClientsTyped
    <1>4. CASE r.step # "served"
      <2>1. net' = net \ {r} /\ view'.busy = view.busy \ {r.flag}
        BY <1>1, <1>4
      <2>2. SentWrites(net') \subseteq SentWrites(net)
        BY <2>1 DEF SentWrites
      <2>3. ClientsTyped'
        BY <1>1, <1>2, <1>3, <2>1, <2>2, FewerWrites DEF ClientsTyped, ClientsNet, server
      <2>4. ClientsBusy'
        BY <2>1 DEF ClientsInv, ClientsBusy, HasRequest
      <2>5. failures' # 0
        BY <1>2, <1>4 DEF ClientsInv, ClientsCounted, server
      <2>6. WriteServed' => db' # 0
        BY <1>2, <2>1 DEF ClientsInv, ClientsFollows, WriteServed, server
      <2> QED BY <2>3, <2>4, <2>5, <2>6 DEF ClientsInv, ClientsCounted, ClientsFollows
    <1>5. CASE r.step = "served"
      <2>1. PICK i \in ClientsSubjects :
               /\ net' = Outdated(net \ {r}, ClientsLists)
                         \cup {Read(ClientsNextList[r.call], i, r.flag)}
               /\ view'.busy = view.busy
        BY <1>1, <1>5 DEF ClientsRereads
      <2>2. ClientsTyped'
        <3>1. ClientsNet(net') /\ SentWrites(net') \subseteq SentWrites(net)
          BY <1>1, <1>2, <1>5, RereadsTyped DEF ClientsInv
        <3> QED BY <1>1, <1>2, <1>3, <3>1, FewerWrites DEF ClientsTyped, ClientsNet, server
      <2> DEFINE more == Read(ClientsNextList[r.call], i, r.flag)
                 marked == Outdated(net \ {r}, ClientsLists)
      <2>3. net' = marked \cup {more}
        BY <2>1
      <2>4. /\ more.call \in ClientsLists /\ more.step = "sent" /\ Latest(more)
            /\ more.kind = "read" /\ more.flag = r.flag
        BY <1>2 DEF Read, Request, Latest, None, ClientsLists, ClientsWrites, ClientsNextList
      <2>5. ClientsNet(net \ {r})
        BY <1>3 DEF ClientsNet
      <2>6. \A s \in marked : \E t \in net :
               /\ s.call = t.call /\ s.step = t.step
               /\ Latest(s) => t.call \notin ClientsLists
        BY <2>5, OutdatedMembers, Disjoint
      <2>7. \A t \in net \ {r} : \E s \in marked : s.flag = t.flag
        BY <2>5, OutdatedMembers, Disjoint
      <2> HIDE DEF more, marked
      <2>8. ClientsBusy'
        <3>1. ASSUME NEW f \in view.busy PROVE \E s \in net' : s.flag = f
          <4>1. PICK t \in net : t.flag = f
            BY <3>1 DEF ClientsInv, ClientsBusy, HasRequest
          <4>2. CASE t = r
            BY <2>3, <2>4, <4>1, <4>2
          <4>3. CASE t # r
            BY <2>3, <2>7, <4>1, <4>3
          <4> QED BY <4>2, <4>3
        <3> QED BY <2>1, <3>1 DEF ClientsBusy, HasRequest
      <2>9. ClientsCounted'
        <3>1. ListAwaited'
          BY <2>3, <2>4 DEF ListAwaited, Latest
        <3>2. \A s \in net' : ~(s.call \in ClientsLists /\ Latest(s) /\ s.step = "served")
          BY <2>3, <2>4, <2>6
        <3>3. failures = 0 => \A s \in net' : s.step \in {"sent", "served"}
          BY <2>3, <2>4, <2>6 DEF ClientsInv, ClientsCounted
        <3> QED BY <1>2, <3>1, <3>2, <3>3 DEF ClientsCounted, Latest, server
      <2>10. ClientsFollows'
        <3>1. db' # 0
          BY <1>2, <1>5 DEF ClientsInv, ClientsFollows, WriteServed, server
        <3> QED BY <3>1 DEF ClientsFollows
      <2> QED BY <2>2, <2>8, <2>9, <2>10 DEF ClientsInv
    <1> QED BY <1>4, <1>5

\* A request as it was before, but for what it is out of date.
AsBefore(s, t) ==
    /\ s.call = t.call /\ s.arg = t.arg /\ s.flag = t.flag /\ s.kind = t.kind
    /\ s.step = t.step /\ s.saw = t.saw
    /\ Latest(s) => s = t

LEMMA SelectingMembers ==
    ASSUME NEW requests, ClientsNet(requests), NEW i \in Targets, Unsent("detail")
    PROVE  LET selecting == ClientsSelecting(requests, i)
           IN  /\ \A t \in requests : \E s \in selecting : s.flag = t.flag
               /\ \A t \in requests : t.call \notin ClientsDetails => t \in selecting
               /\ \A s \in selecting :
                     \/ \E t \in requests : AsBefore(s, t)
                     \/ s.call = "detail" /\ s.kind = "read" /\ s.step = "sent"
               /\ i = view.sel => selecting = requests
               /\ i # view.sel =>
                     \A s \in selecting : s.call \in ClientsDetails /\ Latest(s) => s.arg = i
               /\ i # view.sel /\ i # None =>
                     \E s \in selecting : s.call \in ClientsDetails /\ Latest(s)
    <1> DEFINE selecting == ClientsSelecting(requests, i)
               marked == Outdated(requests, ClientsDetails)
    <1>1. \A s \in marked : \E t \in requests :
             /\ s.call = t.call /\ s.arg = t.arg /\ s.flag = t.flag /\ s.kind = t.kind
             /\ s.step = t.step /\ s.saw = t.saw
             /\ Latest(s) => s = t /\ t.call \notin ClientsDetails
      BY OutdatedMembers, Disjoint
    <1>2. \A t \in requests : t.call \notin ClientsDetails => t \in marked
      BY OutdatedMembers, Disjoint
    <1>3. \A t \in requests : \E s \in marked : s.flag = t.flag
      BY OutdatedMembers, Disjoint
    <1>4. \A s \in marked : \E t \in requests : AsBefore(s, t)
      BY <1>1 DEF AsBefore
    <1>5. \A s \in marked : ~(s.call \in ClientsDetails /\ Latest(s))
      BY <1>1
    <1>6. CASE i = view.sel
      <2>1. selecting = requests
        BY <1>6 DEF ClientsSelecting
      <2> HIDE DEF selecting
      <2>2. \A s \in requests : AsBefore(s, s)
        BY DEF AsBefore
      <2> QED BY <1>6, <2>1, <2>2 DEF selecting
    <1>7. CASE i # view.sel /\ i = None
      <2>1. selecting = marked
        BY <1>7 DEF ClientsSelecting
      <2> HIDE DEF marked, selecting
      <2> QED BY <1>2, <1>3, <1>4, <1>5, <1>7, <2>1 DEF selecting
    <1>8. CASE i # view.sel /\ i # None
      <2> DEFINE more == Read("detail", i, "")
      <2>1. /\ more.call = "detail" /\ more.kind = "read" /\ more.step = "sent" /\ more.arg = i
            /\ more.call \in ClientsDetails /\ Latest(more)
        BY DEF Read, Request, Latest, None, ClientsDetails
      <2>2. selecting = marked \cup {more}
        BY <1>8 DEF ClientsSelecting, ClientsDetail
      <2> HIDE DEF marked, selecting, more
      <2>3. /\ \A t \in requests : \E s \in selecting : s.flag = t.flag
            /\ \A t \in requests : t.call \notin ClientsDetails => t \in selecting
        BY <1>2, <1>3, <2>2
      <2>4. /\ \A s \in selecting :
                  \/ \E t \in requests : AsBefore(s, t)
                  \/ s.call = "detail" /\ s.kind = "read" /\ s.step = "sent"
        BY <1>4, <2>1, <2>2
      <2>5. /\ \A s \in selecting : s.call \in ClientsDetails /\ Latest(s) => s.arg = i
            /\ \E s \in selecting : s.call \in ClientsDetails /\ Latest(s)
        BY <1>5, <2>1, <2>2
      <2> QED BY <1>8, <2>3, <2>4, <2>5 DEF selecting
    <1> QED BY <1>6, <1>7, <1>8

LEMMA AwaitMembers ==
    ASSUME ClientsInv, NEW r \in net
    PROVE  LET requests == ClientsAwait(r)
           IN  /\ \A t \in net \ {r} : \E s \in requests : s.flag = t.flag
               /\ \A t \in net \ {r} : t.call \notin ClientsDetails => t \in requests
               /\ \A s \in requests :
                     \/ \E t \in net \ {r} : AsBefore(s, t)
                     \/ s.call = "refreshed" /\ s.kind = "read" /\ s.step = "sent"
               /\ ~ClientsHandled(r) => requests = net \ {r}
               /\ \A f \in ClientsAwaiting(r).busy : \E s \in requests : s.flag = f
    <1>1. ClientsNet(net \ {r}) /\ view \in ClientsViews
      BY DEF ClientsInv, ClientsTyped, ClientsNet
    <1> DEFINE requests == ClientsAwait(r)
               marked == Outdated(net \ {r}, ClientsDetails)
    <1>2. CASE ClientsHandled(r)
      <2> DEFINE more == Read("refreshed", r.arg, r.flag)
      <2>1. /\ more.call = "refreshed" /\ more.kind = "read" /\ more.step = "sent"
            /\ more.flag = r.flag
        BY DEF Read, Request
      <2>2. requests = marked \cup {more}
        BY <1>2 DEF ClientsAwait, ClientsDetail
      <2>3. \A s \in marked : \E t \in net \ {r} :
               /\ s.call = t.call /\ s.arg = t.arg /\ s.flag = t.flag /\ s.kind = t.kind
               /\ s.step = t.step /\ s.saw = t.saw
               /\ Latest(s) => s = t /\ t.call \notin ClientsDetails
        BY <1>1, OutdatedMembers, Disjoint
      <2>4. \A s \in marked : \E t \in net \ {r} : AsBefore(s, t)
        BY <2>3 DEF AsBefore
      <2>5. \A t \in net \ {r} : t.call \notin ClientsDetails => t \in marked
        BY <1>1, OutdatedMembers, Disjoint
      <2>6. \A t \in net \ {r} : \E s \in marked : s.flag = t.flag
        BY <1>1, OutdatedMembers, Disjoint
      <2> HIDE DEF requests, marked, more
      <2>7. \A f \in view.busy : \E s \in requests : s.flag = f
        <3>1. SUFFICES ASSUME NEW f \in view.busy PROVE \E s \in requests : s.flag = f
          OBVIOUS
        <3>2. PICK t \in net : t.flag = f
          BY DEF ClientsInv, ClientsBusy, HasRequest
        <3>3. CASE t = r
          BY <2>1, <2>2, <3>2, <3>3
        <3>4. CASE t # r
          BY <2>2, <2>6, <3>2, <3>4
        <3> QED BY <3>3, <3>4
      <2>8. ClientsAwaiting(r).busy = view.busy
        BY <1>1, <1>2 DEF ClientsAwaiting, ClientsViews
      <2>9. \A t \in net \ {r} : \E s \in requests : s.flag = t.flag
        BY <2>2, <2>6
      <2> QED BY <1>2, <2>1, <2>2, <2>4, <2>5, <2>7, <2>8, <2>9 DEF requests
    <1>3. CASE ~ClientsHandled(r)
      <2>1. requests = net \ {r} /\ ClientsAwaiting(r) = [view EXCEPT !.busy = @ \ {r.flag}]
        BY <1>3 DEF ClientsAwait, ClientsAwaiting
      <2>2. ClientsAwaiting(r).busy = view.busy \ {r.flag}
        BY <1>1, <2>1 DEF ClientsViews
      <2>3. \A s \in net : AsBefore(s, s)
        BY DEF AsBefore
      <2>4. \A f \in view.busy \ {r.flag} : \E s \in net \ {r} : s.flag = f
        BY DEF ClientsInv, ClientsBusy, HasRequest
      <2> HIDE DEF requests
      <2> QED BY <2>1, <2>2, <2>3, <2>4 DEF requests
    <1> QED BY <1>2, <1>3

\* What an answered reading of the list leaves in flight, and what it does to the view.
LEMMA ListedMembers ==
    ASSUME ClientsInv, NEW r \in net, ClientsListed(r)
    PROVE  /\ \A t \in net \ {r} : t.call \notin ClientsDetails => t \in net'
           /\ \A s \in net' :
                 \/ \E t \in net \ {r} : AsBefore(s, t)
                 \/ s.call \in ClientsDetails /\ s.kind = "read" /\ s.step = "sent"
           /\ \A f \in view'.busy : \E s \in net' : s.flag = f
           /\ view'.lists = IF Latest(r) THEN r.saw ELSE view.lists
           /\ ~ClientsHandled(r) =>
                 \/ /\ view'.sel = view.sel
                    /\ view'.shows \in {view.shows, view.sel} /\ net' = net \ {r}
                 \/ /\ \A s \in net' : s.call \in ClientsDetails /\ Latest(s) => s.arg = view'.sel
                    /\ \A s \in net' : s.call = "detail" \/ \E t \in net : s.call = t.call
                    /\ view'.shows = view'.sel
                          \/ \E s \in net' : s.call \in ClientsDetails /\ Latest(s)
    <1> DEFINE v == ClientsAwaiting(r)
               requests == ClientsAwait(r)
    <1>1. Reads(r, ClientsLists) /\ Unsent("refreshed") /\ Unsent("detail") /\ ClientsTyped
      BY DEF ClientsListed, ClientsInv
    <1>2. /\ ClientsNet(requests) /\ v \in ClientsViews
          /\ v.sel = view.sel /\ v.shows = view.shows /\ v.lists = view.lists
      BY <1>1, AwaitTyped
    <1>3. /\ \A t \in net \ {r} : t.call \notin ClientsDetails => t \in requests
          /\ \A s \in requests : \/ \E t \in net \ {r} : AsBefore(s, t)
                                 \/ s.call = "refreshed" /\ s.kind = "read" /\ s.step = "sent"
          /\ ~ClientsHandled(r) => requests = net \ {r}
          /\ \A f \in v.busy : \E s \in requests : s.flag = f
      BY AwaitMembers
    <1>4. "refreshed" \in ClientsDetails /\ "detail" \in ClientsDetails
      BY DEF ClientsDetails
    <1>5. CASE ~Latest(r)
      <2>1. view' = v /\ net' = requests
        BY <1>5 DEF ClientsListed
      <2> HIDE DEF v, requests
      <2> QED BY <1>2, <1>3, <1>4, <1>5, <2>1
    <1>6. CASE Latest(r)
      <2>1. PICK visible \in SUBSET Items, first \in Items :
               LET i == ClientsChoice(r, visible, first)
               IN  /\ view' = [ClientsSelected(v, i) EXCEPT !.visible = visible, !.lists = r.saw]
                   /\ net' = ClientsSelecting(requests, i)
        BY <1>6 DEF ClientsListed, ClientsTake
      <2> DEFINE i == ClientsChoice(r, visible, first)
      <2>2. i \in Targets
        BY DEF ClientsChoice, Targets, ClientsInv, ClientsTyped, ClientsViews
      <2>3. /\ view' = [ClientsSelected(v, i) EXCEPT !.visible = visible, !.lists = r.saw]
            /\ net' = ClientsSelecting(requests, i)
        BY <2>1
      <2> HIDE DEF i
      <2>4. /\ ClientsSelected(v, i) \in ClientsViews
            /\ ClientsSelected(v, i).sel = i /\ ClientsSelected(v, i).busy = v.busy
            /\ ClientsSelected(v, i).shows = IF i = None THEN None ELSE v.shows
        <3> HIDE DEF v
        <3>1. ClientsSelected(v, i) \in ClientsViews
          BY <1>2, <2>2, SelectedTyped
        <3>2. CASE i = None
          <4> DEFINE u == [v EXCEPT !.sel = None, !.detailing = IF v.sel = None THEN @ ELSE FALSE]
          <4>1. u.sel = None /\ u.busy = v.busy /\ u \in ClientsViews
            BY <1>2 DEF ClientsViews, Targets
          <4>2. ClientsSelected(v, i) = ClientsShows(u, None)
            BY <3>2 DEF ClientsSelected
          <4> HIDE DEF u
          <4> QED BY <3>1, <3>2, <4>1, <4>2 DEF ClientsShows, ClientsViews
        <3>3. CASE i # None
          <4>1. ClientsSelected(v, i) = [v EXCEPT !.sel = i, !.detailing = @ \/ i # v.sel]
            BY <3>3 DEF ClientsSelected
          <4> QED BY <1>2, <3>1, <3>3, <4>1 DEF ClientsViews
        <3> QED BY <3>2, <3>3
      <2>5. /\ view'.sel = i /\ view'.busy = v.busy /\ view'.lists = r.saw
            /\ view'.shows = IF i = None THEN None ELSE view.shows
        <3> HIDE DEF v
        <3> QED BY <1>2, <2>3, <2>4 DEF ClientsViews
      <2>6. /\ \A t \in requests : \E s \in net' : s.flag = t.flag
            /\ \A t \in requests : t.call \notin ClientsDetails => t \in net'
            /\ \A s \in net' : \/ \E t \in requests : AsBefore(s, t)
                               \/ s.call = "detail" /\ s.kind = "read" /\ s.step = "sent"
            /\ i = view.sel => net' = requests
            /\ i # view.sel =>
                  \A s \in net' : s.call \in ClientsDetails /\ Latest(s) => s.arg = i
            /\ i # view.sel /\ i # None =>
                  \E s \in net' : s.call \in ClientsDetails /\ Latest(s)
        <3> HIDE DEF requests
        <3> QED BY <1>1, <1>2, <2>2, <2>3, SelectingMembers
      <2> HIDE DEF v, requests
      <2>7. \A t \in net \ {r} : t.call \notin ClientsDetails => t \in net'
        BY <1>3, <2>6
      <2>8. \A s \in net' : \/ \E t \in net \ {r} : AsBefore(s, t)
                            \/ s.call \in ClientsDetails /\ s.kind = "read" /\ s.step = "sent"
        <3>1. SUFFICES ASSUME NEW s \in net', NEW t \in requests, AsBefore(s, t)
                       PROVE  \/ \E u \in net \ {r} : AsBefore(s, u)
                              \/ s.call \in ClientsDetails /\ s.kind = "read" /\ s.step = "sent"
          BY <1>4, <2>6
        <3>2. CASE t.call = "refreshed" /\ t.kind = "read" /\ t.step = "sent"
          BY <1>4, <3>1, <3>2 DEF AsBefore
        <3>3. CASE \E u \in net \ {r} : AsBefore(t, u)
          BY <3>1, <3>3 DEF AsBefore
        <3> QED BY <1>3, <3>2, <3>3
      <2>9. \A f \in view'.busy : \E s \in net' : s.flag = f
        BY <1>3, <2>5, <2>6
      <2>10. ASSUME ~ClientsHandled(r), i = view.sel
             PROVE  /\ view'.sel = view.sel /\ net' = net \ {r}
                    /\ view'.shows \in {view.shows, view.sel}
        BY <1>3, <2>5, <2>6, <2>10
      <2>11. ASSUME ~ClientsHandled(r), i # view.sel
             PROVE  /\ \A s \in net' : s.call \in ClientsDetails /\ Latest(s) => s.arg = view'.sel
                    /\ \A s \in net' : s.call = "detail" \/ \E t \in net : s.call = t.call
                    /\ view'.shows = view'.sel
                          \/ \E s \in net' : s.call \in ClientsDetails /\ Latest(s)
        <3>1. \A s \in net' : s.call = "detail" \/ \E t \in net : s.call = t.call
          BY <1>3, <2>6, <2>11 DEF AsBefore
        <3> QED BY <2>5, <2>6, <2>11, <3>1
      <2>12. view'.lists = IF Latest(r) THEN r.saw ELSE view.lists
        BY <1>6, <2>5
      <2> QED BY <2>7, <2>8, <2>9, <2>10, <2>11, <2>12
    <1> QED BY <1>5, <1>6

LEMMA ListedKeeps ==
    ASSUME ClientsInv, NEW r \in net, ClientsListed(r)
    PROVE  ClientsInv'
    <1>1. /\ UNCHANGED server /\ r.call \in ClientsLists /\ r.kind = "read" /\ r.step = "served"
      BY DEF ClientsListed, Reads, Answered
    <1>2. ClientsTyped'
      <2>1. view' \in ClientsViews /\ ClientsNet(net') /\ SentWrites(net') \subseteq SentWrites(net)
        BY ListedTyped DEF ClientsInv
      <2> QED BY <1>1, <2>1, FewerWrites DEF ClientsInv, ClientsTyped, server
    <1>3. ClientsBusy'
      BY ListedMembers DEF ClientsBusy, HasRequest
    <1>4. \A t \in net \ {r} : t.call \notin ClientsDetails => t \in net'
      BY ListedMembers
    <1>5. \A s \in net' : \/ \E t \in net \ {r} : AsBefore(s, t)
                          \/ s.call \in ClientsDetails /\ s.kind = "read" /\ s.step = "sent"
      BY ListedMembers
    <1>6. ClientsNet(net)
      BY DEF ClientsInv, ClientsTyped
    <1>7. WriteServed' <=> WriteServed
      <2>1. \A w \in net : w.kind = "write" => w.call \notin ClientsDetails
        BY <1>6, Disjoint DEF ClientsNet
      <2>2. ASSUME WriteServed PROVE WriteServed'
        BY <1>1, <1>4, <2>1, <2>2 DEF WriteServed
      <2>3. ASSUME WriteServed' PROVE WriteServed
        BY <1>5, <2>3 DEF WriteServed, AsBefore
      <2> QED BY <2>2, <2>3
    <1>8. ClientsCounted'
      <2>1. SUFFICES ASSUME failures = 0
                     PROVE  /\ \A s \in net' : s.step \in {"sent", "served"}
                            /\ \A s \in net' : s.call \in ClientsLists /\ Latest(s) /\ s.step = "served"
                                                  => s.saw = db \/ WriteServed
                            /\ view'.lists = db \/ WriteServed \/ ListAwaited'
        BY <1>1, <1>7 DEF ClientsCounted, Latest, server
      <2>2. ClientsCounted
        BY DEF ClientsInv
      <2>3. \A s \in net' : s.step \in {"sent", "served"}
        BY <1>5, <2>1, <2>2 DEF ClientsCounted, AsBefore
      <2>4. ASSUME NEW s \in net', s.call \in ClientsLists, Latest(s), s.step = "served"
            PROVE  s.saw = db \/ WriteServed
        <3>1. s \in net
          BY <1>5, <2>4, Disjoint DEF AsBefore
        <3> QED BY <2>1, <2>2, <2>4, <3>1 DEF ClientsCounted
      <2>5. view'.lists = db \/ WriteServed \/ ListAwaited'
        <3>1. view'.lists = IF Latest(r) THEN r.saw ELSE view.lists
          BY ListedMembers
        <3>2. CASE Latest(r)
          BY <1>1, <2>1, <2>2, <3>1, <3>2 DEF ClientsCounted
        <3>3. CASE ~Latest(r)
          <4>1. ListAwaited => ListAwaited'
            BY <1>4, <3>3, Disjoint DEF ListAwaited, Latest
          <4> QED BY <2>1, <2>2, <3>1, <3>3, <4>1 DEF ClientsCounted
        <3> QED BY <3>2, <3>3
      <2> QED BY <2>3, <2>4, <2>5
    <1>9. ClientsFollows'
      <2>1. SUFFICES ASSUME failures = 0, db = 0
                     PROVE  /\ \A s \in net' : s.call \notin ClientsAfterWrites
                            /\ \A s \in net' : s.call \in ClientsDetails /\ Latest(s) => s.arg = view'.sel
                            /\ view'.shows = view'.sel \/ DetailAwaited'
        BY <1>1, <1>7 DEF ClientsInv, ClientsFollows, Latest, server
      <2>2. /\ \A t \in net : t.call \notin ClientsAfterWrites
            /\ \A t \in net : t.call \in ClientsDetails /\ Latest(t) => t.arg = view.sel
            /\ view.shows = view.sel \/ DetailAwaited
        BY <2>1 DEF ClientsInv, ClientsFollows
      <2>3. ~ClientsHandled(r)
        BY <2>2 DEF ClientsHandled, ClientsAfterWrites
      <2>4. CASE /\ view'.sel = view.sel
                 /\ view'.shows \in {view.shows, view.sel} /\ net' = net \ {r}
        <3>1. DetailAwaited => DetailAwaited'
          BY <1>1, <2>4, Disjoint DEF DetailAwaited, Latest
        <3> QED BY <2>2, <2>4, <3>1
      <2>5. CASE /\ \A s \in net' : s.call \in ClientsDetails /\ Latest(s) => s.arg = view'.sel
                 /\ \A s \in net' : s.call = "detail" \/ \E t \in net : s.call = t.call
                 /\ view'.shows = view'.sel
                       \/ \E s \in net' : s.call \in ClientsDetails /\ Latest(s)
        BY <2>2, <2>5 DEF ClientsAfterWrites, DetailAwaited, Latest
      <2> QED BY <2>3, <2>4, <2>5, ListedMembers
    <1> QED BY <1>2, <1>3, <1>8, <1>9 DEF ClientsInv

-----------------------------------------------------------------------------
(* Every step of the page and of its server *)

LEMMA ClientsServed ==
    ASSUME ClientsInv, Network({})
    PROVE  ClientsInv'
    <1>1. /\ view \in ClientsViews /\ ClientsNet(net) /\ net \subseteq ClientsRequests
          /\ WritesBounded /\ failures \in 0..MaxFailures /\ inputs \in 0..MaxInputs
      BY DEF ClientsInv, ClientsTyped, ClientsNet
    <1>2. /\ net' \subseteq ClientsRequests
          /\ WritesBounded' /\ failures' \in 0..MaxFailures /\ UNCHANGED <<view, inputs>>
          /\ \E r \in net : \E step, saw : Served(r, step, saw)
      BY <1>1, NetworkStep DEF ClientsRequests
    <1>3a. PICK r \in net : \E step, saw : Served(r, step, saw)
      BY <1>2
    <1>3. PICK step, saw : Served(r, step, saw)
      BY <1>3a
    <1> DEFINE q == [r EXCEPT !.step = step, !.saw = saw]
    <1>4. /\ q.call = r.call /\ q.arg = r.arg /\ q.flag = r.flag /\ q.kind = r.kind /\ q.at = r.at
          /\ q.step = step /\ q.saw = saw
      BY <1>1 DEF ClientsRequests, Requests
    <1>5. net' = (net \ {r}) \cup {q} /\ r.step = "sent" /\ step # "sent"
      BY <1>3 DEF Served
    <1> HIDE DEF q
    <1>6. ClientsNet(net')
      BY <1>1, <1>2, <1>4, <1>5 DEF ClientsNet
    <1>7. ClientsTyped'
      BY <1>1, <1>2, <1>6 DEF ClientsTyped
    <1>8. ClientsBusy'
      <2>1. ASSUME NEW f \in view.busy PROVE \E s \in net' : s.flag = f
        <3>1. PICK t \in net : t.flag = f
          BY DEF ClientsInv, ClientsBusy, HasRequest
        <3>2. CASE t = r
          BY <1>4, <1>5, <3>1, <3>2
        <3>3. CASE t # r
          BY <1>5, <3>1, <3>3
        <3> QED BY <3>2, <3>3
      <2> QED BY <1>2, <2>1 DEF ClientsBusy, HasRequest
    <1>9. /\ failures' = 0 => failures = 0 /\ step = "served"
          /\ step = "served" => saw = db'
          /\ r.kind = "read" => db' = db
          /\ db' \in {db, db + 1} /\ db \in Nat /\ db' \in Nat
      BY <1>1, <1>2, <1>3 DEF Served, WritesBounded
    <1>10. r.kind \in {"read", "write"} /\ (r.kind = "write" <=> r.call \in ClientsWrites)
      BY <1>1 DEF ClientsNet, ClientsRequests, Requests
    <1>11. /\ WriteServed => WriteServed'
           /\ WriteServed' => WriteServed \/ (r.kind = "write" /\ step = "served")
           /\ r.kind = "write" /\ step = "served" => WriteServed'
      BY <1>4, <1>5 DEF WriteServed
    <1>12. ListAwaited => ListAwaited'
      BY <1>4, <1>5 DEF ListAwaited, Latest
    <1>13. DetailAwaited => DetailAwaited'
      BY <1>4, <1>5 DEF DetailAwaited, Latest
    <1>14. ClientsCounted'
      <2>1. SUFFICES ASSUME failures' = 0
                     PROVE  /\ \A s \in net' : s.step \in {"sent", "served"}
                            /\ \A s \in net' : s.call \in ClientsLists /\ Latest(s) /\ s.step = "served"
                                                  => s.saw = db' \/ WriteServed'
                            /\ view.lists = db' \/ WriteServed' \/ ListAwaited'
        BY <1>2 DEF ClientsCounted, Latest
      <2>2. /\ \A s \in net : s.step \in {"sent", "served"}
            /\ \A s \in net : s.call \in ClientsLists /\ Latest(s) /\ s.step = "served" =>
                                 s.saw = db \/ WriteServed
            /\ view.lists = db \/ WriteServed \/ ListAwaited
        BY <1>9, <2>1 DEF ClientsInv, ClientsCounted
      <2>3. step = "served" /\ (db' = db \/ WriteServed')
        BY <1>9, <1>10, <1>11, <2>1
      <2>4. \A s \in net' : s.step \in {"sent", "served"}
        BY <1>4, <1>5, <2>2, <2>3
      <2>5. ASSUME NEW s \in net', s.call \in ClientsLists, Latest(s), s.step = "served"
            PROVE  s.saw = db' \/ WriteServed'
        <3>1. CASE s = q
          BY <1>4, <1>9, <2>3, <3>1
        <3>2. CASE s \in net
          BY <1>11, <2>2, <2>3, <2>5, <3>2
        <3> QED BY <1>5, <3>1, <3>2
      <2> QED BY <1>11, <1>12, <2>2, <2>3, <2>4, <2>5
    <1>15. ClientsFollows'
      <2>1. WriteServed' => db' # 0
        <3>1. WriteServed => db # 0
          BY DEF ClientsInv, ClientsFollows
        <3>2. db # 0 => db' # 0
          BY <1>9
        <3>3. ASSUME r.kind = "write", step = "served" PROVE db' # 0
          BY <1>3, <1>9, <3>3 DEF Served
        <3> QED BY <1>11, <3>1, <3>2, <3>3
      <2>2. SUFFICES ASSUME failures' = 0, db' = 0
                     PROVE  /\ \A s \in net' : s.call \notin ClientsAfterWrites
                            /\ \A s \in net' : s.call \in ClientsDetails /\ Latest(s) => s.arg = view.sel
                            /\ view.shows = view.sel \/ DetailAwaited'
        BY <1>2, <2>1 DEF ClientsFollows, Latest
      <2>3. failures = 0 /\ db = 0
        BY <1>9, <2>2
      <2>4. /\ \A s \in net : s.call \notin ClientsAfterWrites
            /\ \A s \in net : s.call \in ClientsDetails /\ Latest(s) => s.arg = view.sel
            /\ view.shows = view.sel \/ DetailAwaited
        BY <2>3 DEF ClientsInv, ClientsFollows
      <2>5. \A s \in net' : s.call \notin ClientsAfterWrites
        BY <1>4, <1>5, <2>4
      <2>6. \A s \in net' : s.call \in ClientsDetails /\ Latest(s) => s.arg = view.sel
        BY <1>4, <1>5, <2>4 DEF Latest
      <2> QED BY <1>13, <2>4, <2>5, <2>6
    <1> QED BY <1>7, <1>8, <1>14, <1>15 DEF ClientsInv

LEMMA ClientsStep ==
    ASSUME ClientsInv, ClientsNext
    PROVE  ClientsInv'
    <1>1. CASE \E r \in net : \/ ClientsListed(r) \/ ClientsUnlisted(r) \/ ClientsDetailed(r)
                              \/ ClientsWritten(r)
      BY <1>1, ListedKeeps, UnlistedKeeps, DetailedKeeps, WrittenKeeps
    <1>2. CASE ~\E r \in net : \/ ClientsListed(r) \/ ClientsUnlisted(r) \/ ClientsDetailed(r)
                               \/ ClientsWritten(r)
      <2>1. ClientsTyped
        BY DEF ClientsInv
      <2>2. view' \in ClientsViews /\ ClientsActs /\ (Input \/ UNCHANGED server)
        <3> USE DEF ClientsActs
        <3>1. CASE \/ \E q \in Queries : ClientsSearch(q)
                   \/ ClientsStartCreate \/ ClientsStartEdit \/ ClientsAskArchive \/ ClientsKeep
                   \/ ClientsCancelForm \/ ClientsCloseDrawer
                   \/ \E d \in {"partial", "complete"} : ClientsEdit(d)
                   \/ \E leave \in BOOLEAN : ClientsUnsaved(leave)
          BY <2>1, <3>1, ViewSteps
        <3>2. CASE ClientsTimer \/ ClientsFilter \/ ClientsTurn
          BY <2>1, <3>2, ListSteps
        <3>3. CASE ClientsRefresh \/ \E i \in Items : ClientsSelect(i)
          BY <2>1, <3>3, DetailSteps
        <3>4. CASE ClientsReactivate \/ ClientsArchive \/ ClientsSave
          BY <2>1, <3>4, WriteSteps
        <3> QED BY <1>2, <3>1, <3>2, <3>3, <3>4 DEF ClientsNext, ClientsListPanel, ClientsDrawer
      <2>3. db' = db /\ failures' = failures /\ inputs' \in 0..MaxInputs
        BY <2>1, <2>2, InputTyped DEF ClientsTyped, server
      <2>4. ClientsTyped'
        BY <2>1, <2>2, <2>3, ActsTyped DEF ClientsTyped
      <2>5. ClientsBusy' /\ ClientsCounted' /\ ClientsFollows'
        BY <2>2, <2>3, ReadsListKeeps, ReadsDetailKeeps, SendsKeeps DEF ClientsActs
      <2> QED BY <2>4, <2>5 DEF ClientsInv
    <1> QED BY <1>1, <1>2

LEMMA ClientsStart ==
    ASSUME ClientsInit
    PROVE  ClientsInv
    <1> DEFINE first == Request("read", "list", NoWord, "page", 1)
    <1>1. net = {first}
      BY DEF ClientsInit, Mounted
    <1>2. first = [kind |-> "read", call |-> "list", arg |-> NoWord, at |-> None, flag |-> "page",
                   n |-> 1, step |-> "sent", saw |-> 0]
      BY DEF Request
    <1>3. Start
      BY DEF ClientsInit
    <1>4. SentWrites(net) = {}
      BY <1>1, <1>2 DEF SentWrites
    <1>5. /\ WritesBounded /\ inputs \in 0..MaxInputs /\ failures \in 0..MaxFailures
          /\ 0 \in Versions /\ 1 \in 1..MaxAlike
      BY <1>3, <1>4, StartTyped
    <1>6. /\ view.busy = {"page"} /\ view.lists = 0 /\ view.sel = None /\ view.shows = None
          /\ view \in ClientsViews
      BY <1>5 DEF ClientsInit, ClientsViews, Targets, Queries, Drafts
    <1>7. ClientsNet(net)
      <2>1. first.kind = "read" /\ first.call = "list" /\ first.flag = "page" /\ first.arg = NoWord
        BY <1>2
      <2>2. first \in ClientsRequests
        <3>1. NoWord \in ClientsSubjects /\ None \in ClientsSubjects
          BY DEF ClientsSubjects, Targets
        <3>2. "list" \in ClientsCalls /\ "page" \in ClientsFlags /\ "sent" \in Steps
          BY DEF ClientsCalls, ClientsLists, ClientsFlags, Steps
        <3> QED BY <1>2, <1>5, <3>1, <3>2 DEF ClientsRequests, Requests
      <2> HIDE DEF first
      <2> QED BY <1>1, <2>1, <2>2 DEF ClientsNet, ClientsAbout, ClientsWrites
    <1> HIDE DEF first
    <1>8. ClientsTyped
      BY <1>5, <1>6, <1>7 DEF ClientsTyped
    <1>9. first.flag = "page" /\ first.step = "sent" /\ first.call = "list"
      BY <1>2
    <1>10. ClientsBusy
      BY <1>1, <1>6, <1>9 DEF ClientsBusy, HasRequest
    <1>11. ClientsCounted
      BY <1>1, <1>3, <1>6, <1>9 DEF ClientsCounted, Start
    <1>12. ClientsFollows
      BY <1>1, <1>6, <1>9 DEF ClientsFollows, WriteServed, ClientsAfterWrites, ClientsDetails
    <1> QED BY <1>8, <1>10, <1>11, <1>12 DEF ClientsInv

-----------------------------------------------------------------------------
(* The page of the invoices *)

BillCreations == {"save", "duplicate", "queue"}
BillWrites == {"issue", "cancel", "duplicate", "queue", "pay", "save"}
BillSubjects == Targets \cup BillCreations \cup BillQuery
                    \cup {<<x>> : x \in Targets \cup BillCreations}
BillCalls == {"list", "detail", "opened", "issue", "cancel", "pay"} \cup BillCreations
BillFlags == {"", "list", "detail", "save", "pay"}
BillRequests == Requests(BillSubjects, BillCalls, BillFlags)

\* The calls that are about an invoice, if any.
BillAbout == {"detail", "opened", "issue", "cancel", "pay", "save"}

\* Which flag the end of a call lowers; one that was silenced lowers none.
BillLowers(r) ==
    /\ r.call = "list" => r.flag = "list" /\ r.kind = "read" /\ r.at \in BillQuery
    /\ r.call = "detail" => r.flag = "detail"
    /\ r.call \in {"issue", "cancel", "duplicate", "queue"} => r.flag = ""
    /\ r.call = "pay" => r.flag \in {"pay", ""}
    /\ r.call = "save" => r.flag \in {"save", ""}
    /\ r.call = "opened" => r.flag = "" \/ (r.flag = "save" /\ r.at = <<"save">>)

BillNet(requests) ==
    /\ requests \subseteq BillRequests
    /\ \A r \in requests : BillLowers(r) /\ (r.call \in BillAbout => r.arg \in Targets)

BillTyped ==
    /\ view \in BillViews /\ BillNet(net) /\ WritesBounded
    /\ inputs \in 0..MaxInputs /\ failures \in 0..MaxFailures

-----------------------------------------------------------------------------
(* What the properties rest on *)

ListReadings == {r \in net : r.call = "list"}
CreationAwaited == \E r \in net : r.kind = "read" /\ r.call \in BillCreations

\* The list shown is the one of `q`, or will be when its newest reading is answered.
BillDue(q) ==
    \/ \E r \in ListReadings : r.n = view.latest /\ r.at = q
    \/ view.shown = q /\ \A r \in ListReadings : r.n # view.latest

\* A flag that is up has a request; for the list it is the newest reading.
BillBusy ==
    /\ \A f \in view.busy \ {"list"} : HasRequest(f)
    /\ "list" \in view.busy => \E r \in ListReadings : r.n = view.latest

\* What may be listed under the query: its list, or that of the timer.
BillMayList(v) == {v.query, [v.query EXCEPT ![2] = v.armed]}

\* The readings of the list have different numbers.  Unless the timer will read it, or an
\* invoice being created will reset what is searched, the newest is for what is searched,
\* with the status of now or the timer's.
BillListsOrdered ==
    /\ \A r, s \in ListReadings : r.n = s.n => r = s
    /\ failures = 0 =>
          /\ \A r \in ListReadings : r.step \in {"sent", "served"}
          /\ ~view.pending =>
                \/ \E q \in BillMayList(view) : BillDue(q)
                \/ CreationAwaited /\ BillDue(BillAll)

BillInv == BillTyped /\ BillBusy /\ BillListsOrdered

-----------------------------------------------------------------------------
(* Requests keep their types *)

LEMMA BillSubject == None \in BillSubjects /\ Targets \subseteq BillSubjects
                     /\ BillCreations \subseteq BillSubjects /\ BillQuery \subseteq BillSubjects
                     /\ \A x \in Targets \cup BillCreations : <<x>> \in BillSubjects
    BY DEF BillSubjects, Targets

LEMMA BillListTyped ==
    ASSUME Unsent("list"), NEW q \in BillQuery, NEW for \in BillCreations \cup {None}
    PROVE  /\ BillNet({BillList(q, for)})
           /\ BillList(q, for) = [kind |-> "read", call |-> "list", arg |-> for, at |-> q,
                                  flag |-> "list", n |-> Slot("list"), step |-> "sent", saw |-> 0]
    <1>1. for \in BillSubjects /\ q \in BillSubjects /\ "list" \in BillCalls /\ "list" \in BillFlags
      BY BillSubject DEF BillCalls, BillFlags
    <1>2. Read("list", for, "list") \in BillRequests
      BY <1>1, BillSubject, NewRequest DEF Read, BillRequests
    <1>3. BillList(q, for) \in BillRequests
      BY <1>1, <1>2 DEF BillList, Keeping, BillRequests, Requests
    <1>4. BillList(q, for) = [kind |-> "read", call |-> "list", arg |-> for, at |-> q,
                              flag |-> "list", n |-> Slot("list"), step |-> "sent", saw |-> 0]
      BY DEF BillList, Keeping, Read, Request
    <1> QED BY <1>3, <1>4 DEF BillNet, BillLowers, BillAbout

LEMMA BillDetailTyped ==
    ASSUME Unsent("detail"), NEW i \in Targets
    PROVE  /\ BillNet({BillDetail(i)})
           /\ BillDetail(i) = [kind |-> "read", call |-> "detail", arg |-> i, at |-> <<None>>,
                               flag |-> "detail", n |-> Slot("detail"), step |-> "sent", saw |-> 0]
    <1>1. i \in BillSubjects /\ <<None>> \in BillSubjects /\ "detail" \in BillCalls /\ "detail" \in BillFlags
      BY BillSubject DEF BillCalls, BillFlags, Targets
    <1>2. Read("detail", i, "detail") \in BillRequests
      BY <1>1, BillSubject, NewRequest DEF Read, BillRequests
    <1>3. BillDetail(i) \in BillRequests
      BY <1>1, <1>2 DEF BillDetail, BillKeeping, Keeping, BillRequests, Requests
    <1>4. BillDetail(i) = [kind |-> "read", call |-> "detail", arg |-> i, at |-> <<None>>,
                           flag |-> "detail", n |-> Slot("detail"), step |-> "sent", saw |-> 0]
      BY DEF BillDetail, BillKeeping, Keeping, Read, Request
    <1> QED BY <1>3, <1>4 DEF BillNet, BillLowers, BillAbout

\* The flag a write lowers: issuing, cancelling and copying raise none.
BillFlag(call, flag) == flag = IF call \in {"pay", "save"} THEN call ELSE ""

LEMMA BillWriteTyped ==
    ASSUME NEW call \in BillWrites, Unsent(call),
           NEW arg \in Targets, NEW x \in Targets,
           NEW flag \in BillFlags, BillFlag(call, flag),
           NEW w, w = BillKeeping(Write(call, arg, flag), x)
    PROVE  BillNet({w}) /\ w.call = call /\ w.flag = flag
    <1>1. arg \in BillSubjects /\ <<x>> \in BillSubjects /\ call \in BillCalls /\ flag \in BillFlags
      BY BillSubject DEF BillCalls, BillFlags, BillCreations, BillWrites
    <1> DEFINE r == Write(call, arg, flag)
    <1>2. r \in BillRequests
      BY <1>1, BillSubject, NewRequest DEF Write, BillRequests
    <1>3. r.call = call /\ r.flag = flag /\ r.arg = arg /\ r.step = "sent" /\ r.kind = "write"
      BY DEF Write, Request
    <1>4. w = [r EXCEPT !.at = <<x>>]
      BY DEF BillKeeping, Keeping
    <1> HIDE DEF r
    <1>5. w \in BillRequests
      BY <1>1, <1>2, <1>4 DEF BillRequests, Requests
    <1>6. w.call = call /\ w.flag = flag /\ w.arg = arg /\ w.step = "sent" /\ w.kind = "write"
      BY <1>2, <1>3, <1>4 DEF BillRequests, Requests
    <1>7. BillLowers(w) /\ (w.call \in BillAbout => w.arg \in Targets)
      BY <1>6 DEF BillLowers, BillFlag, BillWrites
    <1>8. BillNet({w})
      BY <1>5, <1>7 DEF BillNet
    <1> QED BY <1>6, <1>8

LEMMA BillSilencedTyped ==
    ASSUME NEW gone, BillNet(gone), \A r \in gone : r.flag \in {"pay", "save"}
    PROVE  /\ BillNet(BillSilenced(gone))
           /\ \A s \in BillSilenced(gone) : s.call # "list"
           /\ \A r \in gone : [r EXCEPT !.flag = ""].kind = r.kind
                              /\ [r EXCEPT !.flag = ""].call = r.call
                              /\ [r EXCEPT !.flag = ""].step = r.step
    <1>1. ASSUME NEW r \in gone
          PROVE  /\ [r EXCEPT !.flag = ""] \in BillRequests
                 /\ [r EXCEPT !.flag = ""].call = r.call /\ [r EXCEPT !.flag = ""].arg = r.arg
                 /\ [r EXCEPT !.flag = ""].flag = "" /\ [r EXCEPT !.flag = ""].kind = r.kind
                 /\ [r EXCEPT !.flag = ""].step = r.step
      BY <1>1 DEF BillNet, BillRequests, Requests, BillFlags
    <1>2. ASSUME NEW r \in gone
          PROVE  r.call \in {"pay", "save", "opened"}
      BY <1>2 DEF BillNet, BillLowers, BillRequests, Requests, BillCalls, BillCreations
    <1>3. ASSUME NEW s \in BillSilenced(gone)
          PROVE  /\ s \in BillRequests /\ BillLowers(s) /\ s.call # "list"
                 /\ s.call \in BillAbout => s.arg \in Targets
      <2>1. PICK r \in gone : s = [r EXCEPT !.flag = ""]
        BY <1>3 DEF BillSilenced
      <2>2. s.call = r.call /\ s.arg = r.arg /\ s.flag = "" /\ s \in BillRequests
        BY <1>1, <2>1
      <2>3. r.call \in {"pay", "save", "opened"}
        BY <1>2
      <2>4. r.call \in BillAbout => r.arg \in Targets
        BY DEF BillNet
      <2> QED BY <2>2, <2>3, <2>4 DEF BillLowers
    <1> QED BY <1>1, <1>3 DEF BillNet

-----------------------------------------------------------------------------
(* What a step leaves in flight *)

\* The requests of `out` are answered, those of `gone` silenced, and readings are sent.
BillLeaves(out, gone, more) ==
    net' = (net \ (out \cup gone)) \cup BillSilenced(gone \ out) \cup more

\* Nothing changes but that.
BillLeavesTyped(out, gone, more) ==
    /\ BillLeaves(out, gone, more)
    /\ gone \subseteq net /\ \A r \in gone : r.flag \in {"pay", "save"}
    /\ BillNet(more) /\ \A r \in more : r.kind = "read"

LEMMA LeavesTyped ==
    ASSUME BillTyped, db' = db, NEW out, NEW gone, NEW more, BillLeavesTyped(out, gone, more)
    PROVE  BillNet(net') /\ WritesBounded'
    <1> USE DEF BillLeavesTyped
    <1>1. BillNet(gone \ out) /\ \A r \in gone \ out : r.flag \in {"pay", "save"}
      BY DEF BillTyped, BillNet
    <1> DEFINE silenced == BillSilenced(gone \ out)
    <1>2. BillNet(silenced)
      BY <1>1, BillSilencedTyped
    <1>3. net' = (net \ (out \cup gone)) \cup silenced \cup more
      BY DEF BillLeaves
    <1>4. BillNet(net')
      <2> HIDE DEF silenced
      <2> QED BY <1>2, <1>3 DEF BillNet, BillTyped
    <1> DEFINE marked == [r \in net |-> IF r \in gone THEN [r EXCEPT !.flag = ""] ELSE r]
    <1>5. SentWrites(net') \subseteq {marked[r] : r \in SentWrites(net)}
      <2>1. SUFFICES ASSUME NEW s \in net', s.kind = "write", s.step = "sent"
                     PROVE  \E r \in SentWrites(net) : s = marked[r]
        BY DEF SentWrites
      <2>2. CASE s \in silenced
        <3>1. PICK r \in gone \ out : s = [r EXCEPT !.flag = ""]
          BY <2>2 DEF BillSilenced
        <3>2. s.kind = r.kind /\ s.step = r.step
          BY <1>1, <3>1, BillSilencedTyped
        <3>3. r \in SentWrites(net) /\ marked[r] = s
          BY <2>1, <3>1, <3>2 DEF SentWrites
        <3> QED BY <3>3
      <2>3. CASE s \in net \ (out \cup gone)
        <3>1. s \in SentWrites(net) /\ marked[s] = s
          BY <2>1, <2>3 DEF SentWrites
        <3> QED BY <3>1
      <2> QED BY <1>3, <2>1, <2>2, <2>3
    <1>6. WritesBounded'
      <2> HIDE DEF marked
      <2> QED BY <1>5, MarkedWrites DEF BillTyped
    <1> QED BY <1>4, <1>6

\* Only what is silenced loses its flag, and no reading of the list does.
LEMMA LeavesMembers ==
    ASSUME BillTyped, NEW out, NEW gone, NEW more, BillLeavesTyped(out, gone, more)
    PROVE  /\ \A r \in net \ out : r \in net' \/ r.flag \in {"pay", "save"}
           /\ \A r \in net \ (out \cup gone) : r \in net'
           /\ more \subseteq net'
           /\ ListReadings' = (ListReadings \ out) \cup {r \in more : r.call = "list"}
           /\ (\A r \in out : r.kind = "write" \/ r.call \notin BillCreations) =>
                 (CreationAwaited => CreationAwaited')
    <1> USE DEF BillLeavesTyped
    <1>1. BillNet(gone \ out) /\ \A r \in gone \ out : r.flag \in {"pay", "save"}
      BY DEF BillTyped, BillNet
    <1> DEFINE silenced == BillSilenced(gone \ out)
    <1>2. /\ BillNet(silenced) /\ \A s \in silenced : s.call # "list"
          /\ \A r \in gone \ out : [r EXCEPT !.flag = ""].kind = r.kind
                                   /\ [r EXCEPT !.flag = ""].call = r.call
                                   /\ [r EXCEPT !.flag = ""].step = r.step
      BY <1>1, BillSilencedTyped
    <1>3. net' = (net \ (out \cup gone)) \cup silenced \cup more
      BY DEF BillLeaves
    <1>4. \A r \in gone \ out : [r EXCEPT !.flag = ""] \in silenced
      BY DEF BillSilenced
    <1>5. \A r \in gone : r.call # "list"
      <2>1. \A r \in net : r.call = "list" => r.flag = "list"
        BY DEF BillTyped, BillNet, BillLowers
      <2> QED BY <2>1
    <1> HIDE DEF silenced
    <1>6. /\ \A r \in net \ out : r \in net' \/ r.flag \in {"pay", "save"}
          /\ \A r \in net \ (out \cup gone) : r \in net'
          /\ more \subseteq net'
      BY <1>3
    <1>7. ListReadings' = (ListReadings \ out) \cup {r \in more : r.call = "list"}
      BY <1>2, <1>3, <1>5 DEF ListReadings
    <1>8. ASSUME \A r \in out : r.kind = "write" \/ r.call \notin BillCreations, CreationAwaited
          PROVE  CreationAwaited'
      <2>1. PICK r \in net : r.kind = "read" /\ r.call \in BillCreations
        BY <1>8 DEF CreationAwaited
      <2>2. r \notin out
        BY <1>8, <2>1 DEF BillTyped, BillNet, BillRequests, Requests
      <2>3. CASE r \in gone
        BY <1>2, <1>3, <1>4, <2>1, <2>2, <2>3 DEF CreationAwaited
      <2>4. CASE r \notin gone
        BY <1>6, <2>1, <2>2, <2>4 DEF CreationAwaited
      <2> QED BY <2>3, <2>4
    <1> QED BY <1>6, <1>7, <1>8

\* A write is sent.
LEMMA SendingTyped ==
    ASSUME BillTyped, db' = db,
           NEW call \in BillWrites, MayWrite(call),
           NEW arg \in Targets, NEW x \in Targets,
           NEW flag \in BillFlags, BillFlag(call, flag),
           NEW w, w = BillKeeping(Write(call, arg, flag), x), net' = net \cup {w}
    PROVE  /\ BillNet(net') /\ WritesBounded'
           /\ \E r \in net' : r.flag = flag
           /\ net \subseteq net' /\ ListReadings' = ListReadings
           /\ CreationAwaited => CreationAwaited'
    <1>1. Unsent(call)
      BY DEF MayWrite
    <1>2. BillNet({w}) /\ w.call = call /\ w.flag = flag
      BY <1>1, BillWriteTyped
    <1>3. call # "list"
      BY DEF BillWrites
    <1>4. BillNet(net')
      BY <1>2 DEF BillNet, BillTyped
    <1>5. SentWrites(net') \subseteq SentWrites(net) \cup {w}
      BY DEF SentWrites
    <1>6. WritesBounded'
      BY <1>5, OneMoreWrite DEF BillTyped
    <1>7. ListReadings' = ListReadings
      BY <1>2, <1>3 DEF ListReadings
    <1> QED BY <1>2, <1>4, <1>6, <1>7 DEF CreationAwaited

-----------------------------------------------------------------------------
(* Steps that leave the list as it is *)

BillSameFields ==
    /\ view'.query = view.query /\ view'.shown = view.shown /\ view'.latest = view.latest
    /\ view'.pending = view.pending /\ view'.armed = view.armed

LEMMA SameListKeeps ==
    ASSUME BillListsOrdered, BillSameFields, failures' = failures,
           ListReadings' = ListReadings, CreationAwaited => CreationAwaited'
    PROVE  BillListsOrdered'
    <1> DEFINE readings == ListReadings
    <1>1. ListReadings' = readings /\ view'.query = view.query /\ view'.shown = view.shown
          /\ view'.latest = view.latest /\ view'.pending = view.pending
          /\ BillMayList(view)' = BillMayList(view)
      BY DEF BillSameFields, BillMayList
    <1>2. ASSUME NEW q, BillDue(q) PROVE BillDue(q)'
      BY <1>1, <1>2 DEF BillDue
    <1>3. BillDue(BillAll) => BillDue(BillAll)'
      BY <1>2 DEF BillAll
    <1> QED BY <1>1, <1>2, <1>3 DEF BillListsOrdered

\* A flag that stays up is lowered by none of the requests that are gone; the list's is
\* a matter of its own.
BillLowered(out, gone, more) ==
    \A f \in view'.busy :
        \/ f \in view.busy /\ (f = "list" \/ \A r \in out \cup gone : r.flag # f)
        \/ f # "list" /\ \E r \in more : r.flag = f

BillElsewhere(out, more) ==
    /\ \A r \in out : r.call # "list" /\ (r.kind = "write" \/ r.call \notin BillCreations)
    /\ \A r \in more : r.call # "list"

LEMMA LeavesKeeps ==
    ASSUME BillInv, NEW out, NEW gone, NEW more, BillLeavesTyped(out, gone, more),
           BillLowered(out, gone, more), BillElsewhere(out, more), BillSameFields,
           view' \in BillViews, inputs' \in 0..MaxInputs, db' = db, failures' = failures
    PROVE  BillInv'
    <1>1. BillTyped
      BY DEF BillInv
    <1>2. BillTyped'
      BY <1>1, LeavesTyped DEF BillTyped
    <1>3. \A r \in net \ (out \cup gone) : r \in net'
      BY <1>1, LeavesMembers
    <1>4. more \subseteq net'
      BY <1>1, LeavesMembers
    <1>5. ListReadings' = ListReadings
      <2>1. ListReadings' = (ListReadings \ out) \cup {r \in more : r.call = "list"}
        BY <1>1, LeavesMembers
      <2>2. {r \in more : r.call = "list"} = {} /\ \A r \in out : r \notin ListReadings
        BY DEF BillElsewhere, ListReadings
      <2> QED BY <2>1, <2>2
    <1>6. CreationAwaited => CreationAwaited'
      <2>1. \A r \in out : r.kind = "write" \/ r.call \notin BillCreations
        BY DEF BillElsewhere
      <2> QED BY <1>1, <2>1, LeavesMembers
    <1>7. BillBusy'
      <2>1. ASSUME NEW f \in view'.busy, f # "list" PROVE \E r \in net' : r.flag = f
        <3>1. CASE \E r \in more : r.flag = f
          BY <1>4, <3>1
        <3>2. CASE f \in view.busy /\ \A r \in out \cup gone : r.flag # f
          <4>1. PICK r \in net : r.flag = f
            BY <2>1, <3>2 DEF BillInv, BillBusy, HasRequest
          <4> QED BY <1>3, <3>2, <4>1
        <3> QED BY <2>1, <3>1, <3>2 DEF BillLowered
      <2>2. ASSUME "list" \in view'.busy PROVE \E r \in ListReadings : r.n = view'.latest
        BY <2>2 DEF BillLowered, BillInv, BillBusy, BillSameFields
      <2> QED BY <1>5, <2>1, <2>2 DEF BillBusy, HasRequest
    <1>8. BillListsOrdered'
      BY <1>5, <1>6, SameListKeeps DEF BillInv
    <1> QED BY <1>2, <1>7, <1>8 DEF BillInv

\* With nothing to silence.
LEMMA LeavesPlain ==
    ASSUME NEW out, NEW more, net' = (net \ out) \cup more,
           BillNet(more), \A r \in more : r.kind = "read"
    PROVE  BillLeavesTyped(out, {}, more)
    <1>1. BillSilenced({} \ out) = {}
      BY DEF BillSilenced
    <1> QED BY <1>1 DEF BillLeavesTyped, BillLeaves

LEMMA NoneTyped == BillNet({})
    BY DEF BillNet

\* A write is sent.
BillSending ==
    \E call \in BillWrites, arg, x \in Targets, flag \in BillFlags :
        /\ MayWrite(call) /\ BillFlag(call, flag)
        /\ net' = net \cup {BillKeeping(Write(call, arg, flag), x)}
        /\ view'.busy \subseteq view.busy \cup {flag}

LEMMA SendingKeeps ==
    ASSUME BillInv, BillSending, BillSameFields,
           view' \in BillViews, inputs' \in 0..MaxInputs, db' = db, failures' = failures
    PROVE  BillInv'
    <1>1. PICK call \in BillWrites, arg \in Targets, x \in Targets, flag \in BillFlags :
             /\ MayWrite(call) /\ BillFlag(call, flag)
             /\ net' = net \cup {BillKeeping(Write(call, arg, flag), x)}
             /\ view'.busy \subseteq view.busy \cup {flag}
      BY DEF BillSending
    <1> DEFINE w == BillKeeping(Write(call, arg, flag), x)
    <1>2. net' = net \cup {w}
      BY <1>1
    <1>3. BillTyped
      BY DEF BillInv
    <1>4. \E u : u = w /\ net' = net \cup {u}
      BY <1>2
    <1>5. /\ BillNet(net') /\ WritesBounded'
          /\ \E r \in net' : r.flag = flag
          /\ net \subseteq net' /\ ListReadings' = ListReadings
          /\ CreationAwaited => CreationAwaited'
      <2> HIDE DEF w
      <2>1. ASSUME NEW u, u = w, net' = net \cup {u}
            PROVE  /\ BillNet(net') /\ WritesBounded'
                   /\ \E r \in net' : r.flag = flag
                   /\ net \subseteq net' /\ ListReadings' = ListReadings
                   /\ CreationAwaited => CreationAwaited'
        BY <1>1, <1>3, <2>1, SendingTyped DEF w
      <2> QED BY <1>4, <2>1
    <1>6. flag # "list"
      BY <1>1 DEF BillFlag
    <1>7. BillBusy'
      <2>1. ASSUME NEW f \in view'.busy, f # "list" PROVE \E r \in net' : r.flag = f
        BY <1>1, <1>5, <2>1 DEF BillInv, BillBusy, HasRequest
      <2>2. ASSUME "list" \in view'.busy PROVE \E r \in ListReadings : r.n = view'.latest
        BY <1>1, <1>6, <2>2 DEF BillInv, BillBusy, BillSameFields
      <2> QED BY <1>5, <2>1, <2>2 DEF BillBusy, HasRequest
    <1>8. BillListsOrdered'
      BY <1>5, SameListKeeps DEF BillInv
    <1> QED BY <1>3, <1>5, <1>7, <1>8 DEF BillInv, BillTyped

-----------------------------------------------------------------------------
(* What is done on the view, and the writes that are sent *)

BillOnlyView == net' = net /\ view'.busy = view.busy /\ BillSameFields

LEMMA OnlyViewKeeps ==
    ASSUME BillInv, BillOnlyView,
           view' \in BillViews, inputs' \in 0..MaxInputs, db' = db, failures' = failures
    PROVE  BillInv'
    <1>1. ListReadings' = ListReadings /\ (CreationAwaited => CreationAwaited')
      BY DEF BillOnlyView, ListReadings, CreationAwaited
    <1>2. BillTyped'
      BY FewerWrites DEF BillInv, BillTyped, BillOnlyView
    <1>3. BillBusy'
      <2>1. \A f \in view'.busy \ {"list"} : \E r \in net' : r.flag = f
        BY DEF BillInv, BillBusy, BillOnlyView, HasRequest
      <2>2. "list" \in view'.busy => \E r \in ListReadings : r.n = view'.latest
        BY DEF BillInv, BillBusy, BillOnlyView, BillSameFields
      <2> QED BY <1>1, <2>1, <2>2 DEF BillBusy, HasRequest
    <1>4. BillListsOrdered'
      BY <1>1, SameListKeeps DEF BillInv, BillOnlyView
    <1> QED BY <1>2, <1>3, <1>4 DEF BillInv

LEMMA BillViewSteps ==
    ASSUME BillTyped,
           \/ BillCreate \/ BillAsk \/ BillEdit \/ BillOpenPay \/ BillBack \/ BillClosePay
           \/ BillPayForm \/ BillLines \/ \E i \in Items : BillCollect(i)
    PROVE  view' \in BillViews /\ BillOnlyView /\ Input
    <1> USE DEF BillOnlyView, BillSameFields
    <1>0. view \in BillViews /\ None \in Targets
      BY DEF BillTyped, Targets
    <1>1. CASE BillCreate
      BY <1>0, <1>1 DEF BillCreate, BillViews, Drafts
    <1>2. CASE BillAsk \/ BillBack
      BY <1>0, <1>2 DEF BillAsk, BillBack, BillViews
    <1>3. CASE BillEdit
      BY <1>0, <1>3 DEF BillEdit, BillViews, Drafts
    <1>4. CASE BillOpenPay \/ \E i \in Items : BillCollect(i)
      BY <1>0, <1>4 DEF BillOpenPay, BillCollect, BillViews, Drafts
    <1>5. CASE BillClosePay
      BY <1>0, <1>5 DEF BillClosePay, BillViews
    <1>6. CASE BillPayForm
      BY <1>0, <1>6 DEF BillPayForm, BillTypePay, BillViews, Drafts
    <1>7. CASE BillLines
      BY <1>0, <1>7 DEF BillLines, BillFill, BillViews, Drafts
    <1> QED BY <1>1, <1>2, <1>3, <1>4, <1>5, <1>6, <1>7

LEMMA BillWriteSteps ==
    ASSUME BillTyped, BillIssue \/ BillDuplicate \/ BillCancel \/ BillFromQueue \/ BillPay \/ BillSave
    PROVE  view' \in BillViews /\ BillSending /\ BillSameFields /\ Input
    <1>0. /\ view \in BillViews /\ None \in Targets /\ view.detail \in Targets
          /\ view.sel \in Targets /\ view.of \in Targets
      BY DEF BillTyped, BillViews, Targets
    <1>1. ASSUME NEW call \in {"issue", "duplicate", "cancel"}, BillAct(call)
          PROVE  view' \in BillViews /\ BillSending /\ BillSameFields /\ Input
      <2>1. /\ MayWrite(call) /\ view' = view /\ Input
            /\ net' = net \cup {BillKeeping(Write(call, view.detail, ""), view.sel)}
        BY <1>1 DEF BillAct, Sends
      <2>2. call \in BillWrites /\ BillFlag(call, "") /\ "" \in BillFlags
        BY DEF BillWrites, BillFlag, BillFlags
      <2> QED BY <1>0, <2>1, <2>2 DEF BillSending, BillSameFields
    <1>2. CASE BillIssue \/ BillDuplicate \/ BillCancel
      BY <1>1, <1>2 DEF BillIssue, BillDuplicate, BillCancel
    <1>3. CASE BillFromQueue
      <2>1. /\ MayWrite("queue") /\ view' = view /\ Input
            /\ net' = net \cup {BillKeeping(Write("queue", None, ""), None)}
        BY <1>3 DEF BillFromQueue, Sends
      <2>2. "queue" \in BillWrites /\ BillFlag("queue", "") /\ "" \in BillFlags
        BY DEF BillWrites, BillFlag, BillFlags
      <2> QED BY <1>0, <2>1, <2>2 DEF BillSending, BillSameFields
    <1>4. CASE BillPay
      <2>1. /\ MayWrite("pay") /\ view' = [view EXCEPT !.busy = @ \cup {"pay"}] /\ Input
            /\ net' = net \cup {BillKeeping(Write("pay", view.detail, "pay"), view.sel)}
        BY <1>4 DEF BillPay, Sends
      <2>2. "pay" \in BillWrites /\ BillFlag("pay", "pay") /\ "pay" \in BillFlags
        BY DEF BillWrites, BillFlag, BillFlags
      <2>3. /\ view' \in BillViews /\ view'.busy = view.busy \cup {"pay"} /\ BillSameFields
        BY <1>0, <2>1 DEF BillViews, BillSameFields
      <2> QED BY <1>0, <2>1, <2>2, <2>3 DEF BillSending
    <1>5. CASE BillSave
      <2>1. /\ MayWrite("save") /\ view' = [view EXCEPT !.busy = @ \cup {"save"}] /\ Input
            /\ net' = net \cup {BillKeeping(Write("save", BillWritten, "save"), view.of)}
        BY <1>5 DEF BillSave, Sends
      <2>2. "save" \in BillWrites /\ BillFlag("save", "save") /\ "save" \in BillFlags
        BY DEF BillWrites, BillFlag, BillFlags
      <2>3. /\ view' \in BillViews /\ view'.busy = view.busy \cup {"save"} /\ BillSameFields
        BY <1>0, <2>1 DEF BillViews, BillSameFields
      <2>4. BillWritten \in Targets
        BY <1>0 DEF BillWritten
      <2> QED BY <1>0, <2>1, <2>2, <2>3, <2>4 DEF BillSending
    <1> QED BY <1>2, <1>3, <1>4, <1>5

-----------------------------------------------------------------------------
(* The detail, the actions on it, its payments and the drawer *)

LEMMA RequestFacts ==
    ASSUME BillInv, NEW r \in net
    PROVE  /\ BillLowers(r) /\ r.call \in BillCalls /\ r.kind \in {"read", "write"}
           /\ r.step \in Steps /\ r \in BillRequests
           /\ r.call \in BillAbout => r.arg \in Targets
    BY DEF BillInv, BillTyped, BillNet, BillRequests, Requests

LEMMA ShownTyped ==
    ASSUME NEW v \in BillViews, NEW r, r.arg \in Targets, NEW u \in BillShown(v, r)
    PROVE  /\ u \in BillViews /\ u.query = v.query /\ u.shown = v.shown
           /\ u.latest = v.latest /\ u.pending = v.pending /\ u.armed = v.armed
           /\ u.busy = v.busy \ (IF r.step = "served" THEN {"detail"} ELSE {"detail", "pay"})
    <1>0. None \in Targets
      BY DEF Targets
    <1>1. CASE r.step = "served"
      <2>1. PICK s \in BillStatuses : u = [BillShows(v, r.arg, s) EXCEPT !.busy = @ \ {"detail"}]
        BY <1>1 DEF BillShown
      <2> DEFINE w == BillShows(v, r.arg, s)
      <2>2. /\ w \in BillViews /\ w.query = v.query /\ w.shown = v.shown
            /\ w.latest = v.latest /\ w.pending = v.pending /\ w.armed = v.armed /\ w.busy = v.busy
        BY DEF BillShows, BillViews
      <2>3. u = [w EXCEPT !.busy = @ \ {"detail"}]
        BY <2>1
      <2> HIDE DEF w
      <2> QED BY <1>1, <2>2, <2>3 DEF BillViews
    <1>2. CASE r.step # "served"
      <2>1. u = [v EXCEPT !.detail = None, !.pay = None, !.busy = @ \ {"detail", "pay"}]
        BY <1>2 DEF BillShown
      <2>2. u \in BillViews
        BY <1>0, <2>1 DEF BillViews
      <2>3. /\ u.query = v.query /\ u.shown = v.shown /\ u.latest = v.latest
            /\ u.pending = v.pending /\ u.armed = v.armed /\ u.busy = v.busy \ {"detail", "pay"}
        BY <2>1 DEF BillViews
      <2> QED BY <1>2, <2>2, <2>3
    <1> QED BY <1>1, <1>2

LEMMA DetailingTyped ==
    ASSUME NEW v \in BillViews
    PROVE  /\ BillDetailing(v) \in BillViews /\ BillDetailing(v).query = v.query
           /\ BillDetailing(v).shown = v.shown /\ BillDetailing(v).latest = v.latest
           /\ BillDetailing(v).pending = v.pending /\ BillDetailing(v).armed = v.armed
           /\ BillDetailing(v).busy = (v.busy \cup {"detail"}) \ {"pay"}
    BY DEF BillDetailing, BillViews

LEMMA LeftTyped ==
    ASSUME NEW v \in BillViews
    PROVE  /\ BillLeft(v) \in BillViews /\ BillLeft(v).query = v.query
           /\ BillLeft(v).shown = v.shown /\ BillLeft(v).latest = v.latest
           /\ BillLeft(v).pending = v.pending /\ BillLeft(v).armed = v.armed /\ BillLeft(v).busy = v.busy \ {"save"}
    BY DEF BillLeft, BillViews

\* What a step of the page that leaves the list leaves in flight.
BillLeavesList ==
    \E out, gone, more : /\ BillLeavesTyped(out, gone, more) /\ BillLowered(out, gone, more)
                         /\ BillElsewhere(out, more)

LEMMA SelectSteps ==
    ASSUME BillInv, NEW i \in Items, BillSelect(i)
    PROVE  view' \in BillViews /\ BillSameFields /\ BillLeavesList /\ Input
    <1> DEFINE v == [view EXCEPT !.sel = i]
               gone == BillGone("pay")
               more == {BillDetail(i)}
    <1>1. Unsent("detail") /\ i \in Targets /\ view \in BillViews
      BY DEF BillSelect, Targets, BillInv, BillTyped
    <1>2. /\ v \in BillViews /\ v.query = view.query /\ v.shown = view.shown
          /\ v.latest = view.latest /\ v.pending = view.pending /\ v.armed = view.armed /\ v.busy = view.busy
      BY <1>1 DEF BillViews
    <1>3. view' = BillDetailing(v) /\ Input
      BY DEF BillSelect
    <1> HIDE DEF v
    <1>4. view' \in BillViews /\ BillSameFields /\ view'.busy = (view.busy \cup {"detail"}) \ {"pay"}
      BY <1>2, <1>3, DetailingTyped DEF BillSameFields
    <1>5. BillNet(more) /\ \A r \in more : r.kind = "read" /\ r.flag = "detail" /\ r.call = "detail"
      BY <1>1, BillDetailTyped
    <1>6. net' = (net \ ({} \cup gone)) \cup BillSilenced(gone \ {}) \cup more
      <2>1. gone \ {} = gone /\ {} \cup gone = gone
        OBVIOUS
      <2> QED BY <2>1 DEF BillSelect, Sends, BillOrphans
    <1>7. gone \subseteq net /\ \A r \in gone : r.flag = "pay"
      BY DEF BillGone
    <1>8. \E r \in more : r.flag = "detail"
      BY <1>5
    <1> HIDE DEF gone, more
    <1>9. BillLeavesTyped({}, gone, more)
      BY <1>5, <1>6, <1>7 DEF BillLeavesTyped, BillLeaves
    <1>10. BillLowered({}, gone, more)
      BY <1>4, <1>7, <1>8 DEF BillLowered
    <1>11. BillElsewhere({}, more)
      BY <1>5 DEF BillElsewhere
    <1> QED BY <1>3, <1>4, <1>9, <1>10, <1>11 DEF BillLeavesList

LEMMA CloseSteps ==
    ASSUME BillInv, BillClose
    PROVE  view' \in BillViews /\ BillSameFields /\ BillLeavesList /\ Input
    <1> DEFINE gone == BillGone("save")
    <1>1. view' = BillLeft(view) /\ view \in BillViews /\ Input
      BY DEF BillClose, BillLeft, BillInv, BillTyped
    <1>2. view' \in BillViews /\ BillSameFields /\ view'.busy = view.busy \ {"save"}
      BY <1>1, LeftTyped DEF BillSameFields
    <1>3. net' = (net \ ({} \cup gone)) \cup BillSilenced(gone \ {}) \cup {}
      <2>1. gone \ {} = gone /\ {} \cup gone = gone
        OBVIOUS
      <2> QED BY <2>1 DEF BillClose, Sends, BillOrphans
    <1>4. gone \subseteq net /\ \A r \in gone : r.flag = "save"
      BY DEF BillGone
    <1> HIDE DEF gone
    <1>5. BillLeavesTyped({}, gone, {})
      BY <1>3, <1>4, NoneTyped DEF BillLeavesTyped, BillLeaves
    <1>6. BillLowered({}, gone, {}) /\ BillElsewhere({}, {})
      BY <1>2, <1>4 DEF BillLowered, BillElsewhere
    <1> QED BY <1>1, <1>2, <1>5, <1>6 DEF BillLeavesList

LEMMA DetailedSteps ==
    ASSUME BillInv, NEW r \in net, BillDetailed(r)
    PROVE  view' \in BillViews /\ BillSameFields /\ BillLeavesList /\ UNCHANGED server
    <1> DEFINE gone == BillUnmounts(r)
    <1>1. r.call = "detail" /\ r.flag = "detail" /\ r.arg \in Targets /\ view \in BillViews
      <2>1. r.call = "detail"
        BY DEF BillDetailed, Reads, Answered
      <2>2. BillLowers(r) /\ (r.call \in BillAbout => r.arg \in Targets)
        BY RequestFacts
      <2> QED BY <2>1, <2>2 DEF BillLowers, BillAbout, BillInv, BillTyped
    <1>2. /\ view' \in BillViews /\ BillSameFields
          /\ view'.busy = view.busy \ (IF r.step = "served" THEN {"detail"} ELSE {"detail", "pay"})
      BY <1>1, ShownTyped DEF BillDetailed, BillSameFields
    <1>3. /\ gone \subseteq net /\ \A s \in gone : s.flag = "pay"
          /\ r.step # "failed" => gone = {}
      BY DEF BillUnmounts, BillGone
    <1>4. net' = (net \ ({r} \cup gone)) \cup BillSilenced(gone \ {r}) \cup {}
      <2>1. gone \ {r} = gone
        BY <1>1, <1>3
      <2>2. BillUnmounted(r) = BillSilenced(gone)
        BY DEF BillUnmounted, BillUnmounts, BillOrphans, BillSilenced
      <2> QED BY <2>1, <2>2 DEF BillDetailed, Sends
    <1> HIDE DEF gone
    <1>5. BillLeavesTyped({r}, gone, {})
      BY <1>3, <1>4, NoneTyped DEF BillLeavesTyped, BillLeaves
    <1>6. BillLowered({r}, gone, {})
      BY <1>1, <1>2, <1>3 DEF BillLowered
    <1>7. BillElsewhere({r}, {})
      BY <1>1 DEF BillElsewhere, BillCreations
    <1> QED BY <1>2, <1>5, <1>6, <1>7 DEF BillLeavesList, BillDetailed

LEMMA ActedSteps ==
    ASSUME BillInv, NEW r \in net, BillActed(r)
    PROVE  view' \in BillViews /\ BillSameFields /\ BillLeavesList /\ UNCHANGED server
    <1>1. r.call \in {"issue", "cancel"} /\ r.kind = "write"
      BY DEF BillActed, Wrote, Answered
    <1>2. r.flag = "" /\ r.arg \in Targets /\ view \in BillViews
      <2>1. BillLowers(r) /\ (r.call \in BillAbout => r.arg \in Targets)
        BY RequestFacts
      <2> QED BY <1>1, <2>1 DEF BillLowers, BillAbout, BillInv, BillTyped
    <1>3. view' \in BillViews /\ BillSameFields /\ view'.busy = view.busy
      <2>1. CASE r.step = "failed"
        BY <1>2, <2>1 DEF BillActed, BillSameFields
      <2>2. CASE r.step # "failed"
        <3> DEFINE v == BillShows(view, r.arg, IF r.call = "issue" THEN "issued" ELSE "closed")
        <3>1. view' = [v EXCEPT !.asking = @ /\ r.call # "cancel"]
          BY <2>2 DEF BillActed
        <3>2. /\ v \in BillViews /\ v.query = view.query /\ v.shown = view.shown
              /\ v.latest = view.latest /\ v.pending = view.pending /\ v.armed = view.armed /\ v.busy = view.busy
          BY <1>2 DEF BillShows, BillViews, BillStatuses
        <3> HIDE DEF v
        <3> QED BY <3>1, <3>2 DEF BillViews, BillSameFields
      <2> QED BY <2>1, <2>2
    <1>4. net' = (net \ {r}) \cup {}
      BY DEF BillActed, Sends
    <1>5. BillLeavesTyped({r}, {}, {})
      BY <1>4, NoneTyped, LeavesPlain
    <1>6. "" \notin view.busy
      BY <1>2 DEF BillViews
    <1>7. BillLowered({r}, {}, {}) /\ BillElsewhere({r}, {})
      BY <1>1, <1>2, <1>3, <1>6 DEF BillLowered, BillElsewhere
    <1> QED BY <1>3, <1>5, <1>7 DEF BillLeavesList, BillActed

LEMMA PaidSteps ==
    ASSUME BillInv, NEW r \in net, BillPaid(r)
    PROVE  view' \in BillViews /\ BillSameFields /\ BillLeavesList /\ UNCHANGED server
    <1>1. r.call = "pay" /\ r.kind = "write"
      BY DEF BillPaid, Wrote, Answered
    <1>2. r.arg \in Targets /\ view \in BillViews /\ None \in Targets
      <2>1. r.call \in BillAbout => r.arg \in Targets
        BY RequestFacts
      <2> QED BY <1>1, <2>1 DEF BillAbout, BillInv, BillTyped, Targets
    <1> DEFINE v == [view EXCEPT !.busy = @ \ {r.flag}]
               closed == IF r.flag = "pay" THEN [v EXCEPT !.pay = None] ELSE v
    <1>3. /\ v \in BillViews /\ v.query = view.query /\ v.shown = view.shown
          /\ v.latest = view.latest /\ v.pending = view.pending /\ v.armed = view.armed /\ v.busy = view.busy \ {r.flag}
      BY <1>2 DEF BillViews
    <1>4. /\ \/ view' = v
             \/ \E s \in BillStatuses : view' = BillShows(closed, r.arg, s)
          /\ net' = (net \ {r}) \cup {}
      BY DEF BillPaid, Sends
    <1>5. /\ closed \in BillViews /\ closed.query = view.query /\ closed.shown = view.shown
          /\ closed.latest = view.latest /\ closed.pending = view.pending /\ closed.armed = view.armed
          /\ closed.busy = view.busy \ {r.flag}
      <2> HIDE DEF v
      <2>1. CASE r.flag = "pay"
        <3>1. closed = [v EXCEPT !.pay = None]
          BY <2>1
        <3> HIDE DEF closed
        <3> QED BY <1>3, <3>1 DEF BillViews
      <2>2. CASE r.flag # "pay"
        BY <1>3, <2>2
      <2> QED BY <2>1, <2>2
    <1> HIDE DEF v, closed
    <1>6. view' \in BillViews /\ BillSameFields /\ view'.busy = view.busy \ {r.flag}
      <2>1. CASE view' = v
        BY <1>3, <2>1 DEF BillSameFields
      <2>2. CASE \E s \in BillStatuses : view' = BillShows(closed, r.arg, s)
        BY <1>2, <1>5, <2>2 DEF BillShows, BillViews, BillSameFields
      <2> QED BY <1>4, <2>1, <2>2
    <1>7. BillLeavesTyped({r}, {}, {})
      BY <1>4, NoneTyped, LeavesPlain
    <1>8. BillLowered({r}, {}, {}) /\ BillElsewhere({r}, {})
      BY <1>1, <1>6 DEF BillLowered, BillElsewhere
    <1> QED BY <1>6, <1>7, <1>8 DEF BillLeavesList, BillPaid

\* A creation, once made, reads the list of all invoices.
BillCreated(r) ==
    /\ r.kind = "write" /\ r.call \in BillCreations /\ Unsent("list")
    /\ view' = BillListing(view) /\ UNCHANGED server
    /\ net' = (net \ {r}) \cup {Reread(r), BillList(BillAll, r.call)}

LEMMA SavedSteps ==
    ASSUME BillInv, NEW r \in net, BillSaved(r)
    PROVE  \/ view' \in BillViews /\ BillSameFields /\ BillLeavesList /\ UNCHANGED server
           \/ BillCreated(r)
    <1>1. r.call \in BillCreations /\ r.kind = "write" /\ UNCHANGED server
      BY DEF BillSaved, Wrote, Answered, BillCreations
    <1>2. r.flag \in {"save", ""} /\ view \in BillViews /\ (r.call = "save" => r.arg \in Targets)
      <2>1. BillLowers(r) /\ (r.call \in BillAbout => r.arg \in Targets)
        BY RequestFacts
      <2> QED BY <1>1, <2>1 DEF BillLowers, BillAbout, BillInv, BillTyped, BillCreations
    <1>3. r.call # "list"
      BY <1>1 DEF BillCreations
    <1>4. BillElsewhere({r}, {})
      BY <1>1, <1>3 DEF BillElsewhere
    <1>5. CASE /\ r.step = "failed"
               /\ view' = [view EXCEPT !.busy = @ \ {r.flag}] /\ Sends({r}, {})
      <2>1. /\ view' \in BillViews /\ BillSameFields /\ view'.busy = view.busy \ {r.flag}
        BY <1>2, <1>5 DEF BillViews, BillSameFields
      <2>2. net' = (net \ {r}) \cup {}
        BY <1>5 DEF Sends
      <2>3. BillLeavesTyped({r}, {}, {})
        BY <2>2, NoneTyped, LeavesPlain
      <2>4. BillLowered({r}, {}, {})
        BY <2>1 DEF BillLowered
      <2> QED BY <1>1, <1>4, <2>1, <2>3, <2>4 DEF BillLeavesList
    <1>6. CASE /\ r.call = "save"
               /\ \E s \in {"draft", "issued"} : view' = BillShows(BillLeft(view), r.arg, s)
               /\ Sends({r} \cup BillGone("save"), BillSilenced(BillGone("save") \ {r}))
      <2> DEFINE v == BillLeft(view)
                 gone == BillGone("save")
      <2>1. /\ v \in BillViews /\ v.query = view.query /\ v.shown = view.shown
            /\ v.latest = view.latest /\ v.pending = view.pending /\ v.armed = view.armed /\ v.busy = view.busy \ {"save"}
        BY <1>2, LeftTyped
      <2>2. PICK s \in {"draft", "issued"} : view' = BillShows(v, r.arg, s)
        BY <1>6
      <2> HIDE DEF v
      <2>3. view' \in BillViews /\ BillSameFields /\ view'.busy = view.busy \ {"save"}
        BY <1>2, <1>6, <2>1, <2>2 DEF BillShows, BillViews, BillStatuses, BillSameFields
      <2>4. gone \subseteq net /\ \A t \in gone : t.flag = "save"
        BY DEF BillGone
      <2>5. net' = (net \ ({r} \cup gone)) \cup BillSilenced(gone \ {r}) \cup {}
        BY <1>6 DEF Sends
      <2> HIDE DEF gone
      <2>6. BillLeavesTyped({r}, gone, {})
        BY <2>4, <2>5, NoneTyped DEF BillLeavesTyped, BillLeaves
      <2>7. "" \notin view.busy
        BY <1>2 DEF BillViews
      <2>8. BillLowered({r}, gone, {})
        BY <1>2, <2>3, <2>4, <2>7 DEF BillLowered
      <2> QED BY <1>1, <1>4, <2>3, <2>6, <2>8 DEF BillLeavesList
    <1>7. CASE /\ Unsent("list") /\ view' = BillListing(view)
               /\ Sends({r}, {Reread(r), BillList(BillAll, r.call)})
      BY <1>1, <1>7 DEF BillCreated, Sends
    <1> QED BY <1>5, <1>6, <1>7 DEF BillSaved

LEMMA OpenedSteps ==
    ASSUME BillInv, NEW r \in net, BillOpened(r)
    PROVE  view' \in BillViews /\ BillSameFields /\ BillLeavesList /\ UNCHANGED server
    <1> DEFINE closes == r.at = <<"save">>
               saved == IF closes THEN BillGone("save") ELSE {}
               gone == BillUnmounts(r) \cup saved
               v == IF closes THEN BillLeft(view) ELSE view
    <1>1. r.call = "opened" /\ UNCHANGED server
      BY DEF BillOpened, Reads, Answered
    <1>2. r.arg \in Targets /\ view \in BillViews /\ (r.flag = "" \/ (r.flag = "save" /\ closes))
      <2>1. BillLowers(r) /\ (r.call \in BillAbout => r.arg \in Targets)
        BY RequestFacts
      <2> QED BY <1>1, <2>1 DEF BillLowers, BillAbout, BillInv, BillTyped
    <1>3. view' \in BillShown(v, r)
      BY DEF BillOpened
    <1>4. net' = (net \ ({r} \cup gone)) \cup BillSilenced(gone \ {r}) \cup {}
      BY DEF BillOpened, Sends
    <1>5. /\ gone \subseteq net
          /\ \A s \in gone : \/ s.flag = "pay" /\ r.step = "failed"
                             \/ s.flag = "save" /\ closes
      BY DEF BillUnmounts, BillGone
    <1>6. /\ v \in BillViews /\ v.query = view.query /\ v.shown = view.shown
          /\ v.latest = view.latest /\ v.pending = view.pending /\ v.armed = view.armed
          /\ v.busy \subseteq view.busy /\ (closes => "save" \notin v.busy)
      BY <1>2, LeftTyped
    <1> HIDE DEF gone, v, closes
    <1>7. /\ view' \in BillViews /\ BillSameFields
          /\ view'.busy = v.busy \ (IF r.step = "served" THEN {"detail"} ELSE {"detail", "pay"})
      <2>1. /\ view' \in BillViews /\ view'.query = v.query /\ view'.shown = v.shown
            /\ view'.latest = v.latest /\ view'.pending = v.pending /\ view'.armed = v.armed
            /\ view'.busy = v.busy \ (IF r.step = "served" THEN {"detail"} ELSE {"detail", "pay"})
        BY <1>2, <1>3, <1>6, ShownTyped
      <2>2. BillSameFields
        BY <1>6, <2>1 DEF BillSameFields
      <2> QED BY <2>1, <2>2
    <1>8. BillLeavesTyped({r}, gone, {})
      BY <1>4, <1>5, NoneTyped DEF BillLeavesTyped, BillLeaves
    <1>9. "" \notin view.busy
      BY <1>2 DEF BillViews
    <1>10. BillLowered({r}, gone, {})
      <2>1. ASSUME NEW f \in view'.busy PROVE f \in view.busy /\ \A s \in {r} \cup gone : s.flag # f
        BY <1>2, <1>5, <1>6, <1>7, <1>9, <2>1
      <2> QED BY <2>1 DEF BillLowered
    <1>11. BillElsewhere({r}, {})
      BY <1>1 DEF BillElsewhere, BillCreations
    <1> QED BY <1>1, <1>7, <1>8, <1>10, <1>11 DEF BillLeavesList

-----------------------------------------------------------------------------
(* Reading the list *)

BillOthersLowered(out, gone, more) ==
    \A f \in view'.busy \ {"list"} :
        \/ f \in view.busy /\ \A r \in out \cup gone : r.flag # f
        \/ \E r \in more : r.flag = f

LEMMA OthersBusy ==
    ASSUME BillInv, NEW out, NEW gone, NEW more, BillLeavesTyped(out, gone, more),
           BillOthersLowered(out, gone, more),
           "list" \in view'.busy => \E r \in ListReadings' : r.n = view'.latest
    PROVE  BillBusy'
    <1>1. BillTyped
      BY DEF BillInv
    <1>2. \A r \in net \ (out \cup gone) : r \in net'
      BY <1>1, LeavesMembers
    <1>3. more \subseteq net'
      BY <1>1, LeavesMembers
    <1>4. ASSUME NEW f \in view'.busy, f # "list" PROVE \E r \in net' : r.flag = f
      <2>1. CASE \E r \in more : r.flag = f
        BY <1>3, <2>1
      <2>2. CASE f \in view.busy /\ \A r \in out \cup gone : r.flag # f
        <3>1. PICK r \in net : r.flag = f
          BY <1>4, <2>2 DEF BillInv, BillBusy, HasRequest
        <3> QED BY <1>2, <2>2, <3>1
      <2> QED BY <1>4, <2>1, <2>2 DEF BillOthersLowered
    <1> QED BY <1>4 DEF BillBusy, HasRequest

LEMMA ListingTyped ==
    ASSUME NEW v \in BillViews, Unsent("list")
    PROVE  /\ BillListing(v) \in BillViews /\ BillListing(v).latest = Slot("list")
           /\ BillListing(v).query = v.query /\ BillListing(v).shown = v.shown
           /\ BillListing(v).pending = v.pending /\ BillListing(v).armed = v.armed
           /\ BillListing(v).busy = v.busy \cup {"list"}
    <1>1. Slot("list") \in 1..MaxAlike
      BY SlotFree
    <1>2. MaxAlike \in Nat
      BY ScreenAssumption
    <1>3. Slot("list") \in 0..MaxAlike
      BY <1>1, <1>2
    <1> QED BY <1>3 DEF BillListing, BillViews

LEMMA PagedTyped ==
    ASSUME NEW v \in BillViews, Unsent("list")
    PROVE  /\ BillPaged(v) \in BillViews /\ BillPaged(v).latest = Slot("list")
           /\ BillPaged(v).query = v.query /\ BillPaged(v).shown = v.shown
           /\ BillPaged(v).pending = v.pending /\ BillPaged(v).busy = v.busy \cup {"list"}
    <1> DEFINE status == IF v.pending THEN v.armed ELSE v.query[2]
               u == [v EXCEPT !.armed = status]
    <1>1. v.armed \in Queries /\ v.query \in BillQuery
      BY DEF BillViews
    <1>2. status \in Queries
      BY <1>1 DEF BillQuery
    <1>3. BillPaged(v) = BillListing(u)
      BY DEF BillPaged
    <1> HIDE DEF status
    <1>4. /\ u \in BillViews /\ u.query = v.query /\ u.shown = v.shown
          /\ u.pending = v.pending /\ u.busy = v.busy
      BY <1>2 DEF BillViews
    <1> HIDE DEF u
    <1> QED BY <1>3, <1>4, ListingTyped

\* What the timer reads: what is searched, with its status and from the first page.
LEMMA SearchOfQuery ==
    ASSUME view \in BillViews
    PROVE  /\ BillSearch \in BillQuery
           /\ view.query[3] = 1 => BillSearch = [view.query EXCEPT ![2] = view.armed]
    <1>1. view.query \in BillQuery /\ view.armed \in Queries
      BY DEF BillViews
    <1> QED BY <1>1 DEF BillSearch, BillQuery, BillPages

\* A timer armed holds the status of now.
LEMMA ArmedTyped ==
    ASSUME NEW v, v \in BillViews \/ \E u \in BillViews, q \in BillQuery : v = [u EXCEPT !.query = q]
    PROVE  /\ BillArmed(v) \in BillViews /\ BillArmed(v).query = v.query
           /\ BillArmed(v).shown = v.shown /\ BillArmed(v).latest = v.latest
           /\ BillArmed(v).busy = v.busy /\ BillArmed(v).pending = TRUE
    <1>1. v \in BillViews
      BY DEF BillViews
    <1>2. v.query \in BillQuery
      BY <1>1 DEF BillViews
    <1>3. v.query[2] \in Queries
      BY <1>2 DEF BillQuery
    <1> QED BY <1>1, <1>3 DEF BillArmed, BillViews

\* A new reading of the list is the newest, whatever readings there are beside it.
LEMMA NewestOrdered ==
    ASSUME NEW readings, \A r, s \in readings : r.n = s.n => r = s,
           \A r \in readings : r.n # Slot("list"),
           failures' = 0 => \A r \in readings : r.step \in {"sent", "served"},
           NEW q \in BillQuery, NEW for \in BillCreations \cup {None},
           ListReadings' = readings \cup {BillList(q, for)},
           view'.latest = Slot("list"),
           q \in BillMayList(view)' \/ (q = BillAll /\ CreationAwaited')
    PROVE  BillListsOrdered' /\ \E r \in ListReadings' : r.n = view'.latest
    <1> DEFINE m == BillList(q, for)
    <1>1. m.n = Slot("list") /\ m.at = q /\ m.step = "sent"
      BY DEF BillList, Keeping, Read, Request
    <1> HIDE DEF m
    <1>3. ListReadings' = readings \cup {m}
      BY DEF m
    <1>4. \A r, s \in ListReadings' : r.n = s.n => r = s
      BY <1>1, <1>3
    <1>5. failures' = 0 => \A r \in ListReadings' : r.step \in {"sent", "served"}
      BY <1>1, <1>3
    <1>6. \E r \in ListReadings' : r.n = view'.latest /\ r.at = q
      BY <1>1, <1>3
    <1>7. (\E w \in BillMayList(view)' : BillDue(w)') \/ (CreationAwaited' /\ BillDue(BillAll)')
      <2>1. CASE q \in BillMayList(view)'
        <3>1. BillDue(q)'
          BY <1>6 DEF BillDue
        <3> QED BY <2>1, <3>1
      <2>2. CASE q = BillAll /\ CreationAwaited'
        <3>1. BillDue(BillAll)'
          BY <1>6, <2>2 DEF BillDue, BillAll
        <3> QED BY <2>2, <3>1
      <2> QED BY <2>1, <2>2
    <1> QED BY <1>4, <1>5, <1>6, <1>7 DEF BillListsOrdered

LEMMA ListingOrdered ==
    ASSUME BillInv, Unsent("list"), NEW q \in BillQuery, NEW for \in BillCreations \cup {None},
           ListReadings' = ListReadings \cup {BillList(q, for)},
           view'.latest = Slot("list"), failures' = failures,
           q \in BillMayList(view)' \/ (q = BillAll /\ CreationAwaited')
    PROVE  BillListsOrdered' /\ \E r \in ListReadings' : r.n = view'.latest
    <1> DEFINE readings == ListReadings
    <1>1. \A r \in readings : r.n # Slot("list")
      BY SlotFree DEF ListReadings
    <1>2. /\ \A r, s \in readings : r.n = s.n => r = s
          /\ failures' = 0 => \A r \in readings : r.step \in {"sent", "served"}
      BY DEF BillInv, BillListsOrdered
    <1>3. ListReadings' = readings \cup {BillList(q, for)}
      OBVIOUS
    <1> HIDE DEF readings
    <1> QED BY <1>1, <1>2, <1>3, NewestOrdered

\* The user, or the timer, has the list read.
LEMMA AskedKeeps ==
    ASSUME BillInv, \/ \E q \in BillQuery : BillFilter(q)
                    \/ BillSearched
    PROVE  BillInv'
    <1>1. PICK q \in BillQuery : 
             /\ Unsent("list") /\ net' = (net \ {}) \cup {BillList(q, None)}
             /\ view' \in BillViews /\ q \in BillMayList(view)' /\ view'.latest = Slot("list")
             /\ view'.busy = view.busy \cup {"list"} /\ (Input \/ UNCHANGED server)
      <2>1. view \in BillViews /\ net \ {} = net
        BY DEF BillInv, BillTyped
      <2>2. CASE \E q \in BillQuery : BillFilter(q)
        <3>1. PICK q \in BillQuery : BillFilter(q)
          BY <2>2
        <3> DEFINE v == [view EXCEPT !.query = q]
        <3>2. v \in BillViews /\ v.query = q /\ v.busy = view.busy
          BY <2>1 DEF BillViews
        <3>3. /\ Unsent("list") /\ view' = BillPaged(v) /\ Input
              /\ net' = net \cup {BillList(q, None)}
          BY <3>1 DEF BillFilter, Sends
        <3> HIDE DEF v
        <3>4. /\ view' \in BillViews /\ view'.query = q /\ view'.latest = Slot("list")
              /\ view'.busy = view.busy \cup {"list"}
          BY <3>2, <3>3, PagedTyped
        <3>5. q \in BillMayList(view)'
          BY <3>4 DEF BillMayList
        <3> QED BY <2>1, <3>3, <3>4, <3>5
      <2>3. CASE BillSearched
        <3> DEFINE v == [view EXCEPT !.pending = FALSE]
                   q == BillSearch
        <3>1. v \in BillViews /\ v.query = view.query /\ v.busy = view.busy
              /\ v.armed = view.armed
          BY <2>1 DEF BillViews
        <3>2. /\ Unsent("list") /\ view' = BillListing(v) /\ UNCHANGED server
              /\ net' = net \cup {BillList(q, None)}
          BY <2>3 DEF BillSearched, Sends
        <3> HIDE DEF v
        <3>3. /\ view' \in BillViews /\ view'.query = view.query /\ view'.latest = Slot("list")
              /\ view'.armed = view.armed /\ view'.busy = view.busy \cup {"list"}
          BY <3>1, <3>2, ListingTyped
        <3>4. q \in BillQuery /\ q = [view.query EXCEPT ![2] = view.armed]
          BY <2>1, <2>3, SearchOfQuery DEF BillSearched
        <3> HIDE DEF q
        <3>5. q \in BillMayList(view)'
          BY <3>3, <3>4 DEF BillMayList
        <3> QED BY <2>1, <3>2, <3>3, <3>4, <3>5
      <2> QED BY <2>2, <2>3
    <1>2. BillTyped /\ inputs \in 0..MaxInputs
      BY DEF BillInv, BillTyped
    <1>3. db' = db /\ failures' = failures /\ inputs' \in 0..MaxInputs
      <2>1. MaxInputs \in Nat
        BY ScreenAssumption
      <2> QED BY <1>1, <1>2, <2>1 DEF Input, server
    <1> DEFINE m == BillList(q, None)
    <1>4. BillNet({m}) /\ m.kind = "read" /\ m.call = "list" /\ m.flag = "list"
      <2>1. None \in BillCreations \cup {None}
        OBVIOUS
      <2>2. BillNet({m})
        BY <1>1, <2>1, BillListTyped
      <2> QED BY <2>2 DEF BillList, Keeping, Read, Request
    <1>5. net' = (net \ {}) \cup {m}
      BY <1>1
    <1> HIDE DEF m
    <1>6. BillLeavesTyped({}, {}, {m})
      BY <1>4, <1>5, LeavesPlain
    <1>7. BillNet(net') /\ WritesBounded'
      BY <1>2, <1>3, <1>6, LeavesTyped
    <1>8. ListReadings' = ListReadings \cup {m}
      BY <1>4, <1>5 DEF ListReadings
    <1>9. BillListsOrdered' /\ \E r \in ListReadings' : r.n = view'.latest
      BY <1>1, <1>3, <1>8, ListingOrdered DEF m
    <1>10. BillOthersLowered({}, {}, {m})
      BY <1>1 DEF BillOthersLowered
    <1>11. BillBusy'
      BY <1>6, <1>9, <1>10, OthersBusy
    <1> QED BY <1>1, <1>2, <1>3, <1>7, <1>9, <1>11 DEF BillInv, BillTyped

\* The timer turns to the first page: of its two readings the other is the newest.
LEMMA TurnedKeeps ==
    ASSUME BillInv, BillTurned
    PROVE  BillInv'
    <1> DEFINE first == [view.query EXCEPT ![3] = 1]
               v == [view EXCEPT !.pending = FALSE, !.query = first]
               m == BillList(first, None)
    <1>1. PICK n \in Slots("list") \ {Slot("list")} :
             net' = (net \ {}) \cup {[BillList(BillSearch, None) EXCEPT !.n = n], m}
      BY DEF BillTurned, Sends
    <1>2. Unsent("list") /\ view' = BillPaged(v) /\ UNCHANGED server
      BY DEF BillTurned
    <1>3. BillTyped /\ view \in BillViews /\ view.query \in BillQuery
      BY DEF BillInv, BillTyped, BillViews
    <1>4. first \in BillQuery
      BY <1>3 DEF BillQuery, BillPages
    <1>5. v \in BillViews /\ v.query = first /\ v.busy = view.busy
      BY <1>3, <1>4 DEF BillViews
    <1>6. BillSearch \in BillQuery /\ None \in BillCreations \cup {None}
      BY <1>3, SearchOfQuery
    <1> DEFINE t == BillList(BillSearch, None)
               o == [t EXCEPT !.n = n]
    <1>7. BillNet({m}) /\ m.kind = "read" /\ m.call = "list" /\ m.flag = "list"
      <2>1. BillNet({m})
        BY <1>2, <1>4, <1>6, BillListTyped
      <2> QED BY <2>1 DEF BillList, Keeping, Read, Request
    <1>8. BillNet({t}) /\ t.kind = "read" /\ t.call = "list" /\ t.flag = "list" /\ t.step = "sent"
      <2>1. BillNet({t})
        BY <1>2, <1>6, BillListTyped
      <2> QED BY <2>1 DEF BillList, Keeping, Read, Request
    <1>9. n \in 1..MaxAlike /\ n # Slot("list") /\ \A r \in ListReadings : r.n # n
      BY <1>1 DEF Slots, Alike, ListReadings
    <1> HIDE DEF first, v, m, t
    <1>10. t \in BillRequests /\ BillLowers(t) /\ (t.call \in BillAbout => t.arg \in Targets)
      BY <1>8 DEF BillNet
    <1>11. /\ o \in BillRequests /\ o.n = n /\ o.kind = "read" /\ o.call = "list"
           /\ o.flag = "list" /\ o.step = "sent" /\ o.at = t.at /\ o.arg = t.arg
      BY <1>8, <1>9, <1>10 DEF BillRequests, Requests
    <1>12. net' = (net \ {}) \cup {o, m}
      BY <1>1 DEF t
    <1> HIDE DEF o
    <1>13. BillNet({o, m})
      <2>1. BillLowers(o) /\ o.call \notin BillAbout
        BY <1>8, <1>10, <1>11 DEF BillLowers, BillAbout
      <2> QED BY <1>7, <1>11, <2>1 DEF BillNet
    <1>14. BillLeavesTyped({}, {}, {o, m})
      BY <1>7, <1>11, <1>12, <1>13, LeavesPlain
    <1>15. db' = db /\ failures' = failures /\ inputs' = inputs
      BY <1>2 DEF server
    <1>16. BillNet(net') /\ WritesBounded'
      BY <1>3, <1>14, <1>15, LeavesTyped
    <1>17. /\ view' \in BillViews /\ view'.query = first /\ view'.latest = Slot("list")
           /\ view'.busy = view.busy \cup {"list"}
      BY <1>2, <1>5, PagedTyped
    <1> DEFINE readings == ListReadings \cup {o}
    <1>18. ListReadings' = readings \cup {m}
      BY <1>7, <1>11, <1>12 DEF ListReadings
    <1>19. /\ \A r, s \in readings : r.n = s.n => r = s
           /\ failures' = 0 => \A r \in readings : r.step \in {"sent", "served"}
      BY <1>9, <1>11, <1>15 DEF BillInv, BillListsOrdered
    <1>20. \A r \in readings : r.n # Slot("list")
      <2>1. \A r \in ListReadings : r.n # Slot("list")
        BY <1>2, SlotFree DEF ListReadings
      <2> QED BY <1>9, <1>11, <2>1
    <1> HIDE DEF readings
    <1>21. first \in BillMayList(view)'
      BY <1>17 DEF BillMayList
    <1>22. BillListsOrdered' /\ \E r \in ListReadings' : r.n = view'.latest
      BY <1>4, <1>6, <1>17, <1>18, <1>19, <1>20, <1>21, NewestOrdered DEF m
    <1>23. BillOthersLowered({}, {}, {o, m})
      BY <1>17 DEF BillOthersLowered
    <1>24. BillBusy'
      BY <1>14, <1>22, <1>23, OthersBusy
    <1> QED BY <1>3, <1>15, <1>16, <1>17, <1>22, <1>24 DEF BillInv, BillTyped

LEMMA TypedKeeps ==
    ASSUME BillInv, NEW w \in Queries, BillType(w)
    PROVE  BillInv'
    <1>1. view' = BillArmed([view EXCEPT !.query[1] = w]) /\ net' = net /\ Input
      BY DEF BillType
    <1>2. BillTyped /\ view \in BillViews /\ view.query \in BillQuery
      BY DEF BillInv, BillTyped, BillViews
    <1>3. [view.query EXCEPT ![1] = w] \in BillQuery
      BY <1>2 DEF BillQuery, BillPages
    <1> DEFINE q == [view.query EXCEPT ![1] = w]
    <1>4. view' = BillArmed([view EXCEPT !.query = q])
      BY <1>1
    <1> HIDE DEF q
    <1>5. /\ view' \in BillViews /\ view'.pending = TRUE /\ view'.busy = view.busy
          /\ view'.latest = view.latest
      <2>1. q \in BillQuery
        BY <1>3 DEF q
      <2> DEFINE u == [view EXCEPT !.query = q]
      <2>2. u \in BillViews /\ u.busy = view.busy /\ u.latest = view.latest
        BY <1>2, <2>1 DEF BillViews
      <2>3. view' = BillArmed(u)
        BY <1>4
      <2> HIDE DEF u
      <2> QED BY <2>2, <2>3, ArmedTyped
    <1>6. db' = db /\ failures' = failures /\ inputs' \in 0..MaxInputs
      <2>1. MaxInputs \in Nat
        BY ScreenAssumption
      <2> QED BY <1>1, <1>2, <2>1 DEF Input, BillTyped
    <1>7. BillTyped'
      BY <1>1, <1>2, <1>5, <1>6, FewerWrites DEF BillTyped
    <1>8. ListReadings' = ListReadings
      BY <1>1 DEF ListReadings
    <1>9. BillBusy'
      <2>1. \A f \in view'.busy \ {"list"} : \E r \in net' : r.flag = f
        BY <1>1, <1>5 DEF BillInv, BillBusy, HasRequest
      <2> QED BY <1>5, <1>8, <2>1 DEF BillInv, BillBusy, HasRequest
    <1>10. BillListsOrdered'
      BY <1>5, <1>6, <1>8 DEF BillInv, BillListsOrdered
    <1> QED BY <1>7, <1>9, <1>10 DEF BillInv

\* A reading of the list is answered: the newest takes its place, an older one changes
\* nothing.
LEMMA ListAnswered ==
    ASSUME BillInv, NEW r \in net, BillListed(r)
    PROVE  BillInv'
    <1>1. r.call = "list" /\ r.step # "sent" /\ UNCHANGED server /\ net' = (net \ {r}) \cup {}
      BY DEF BillListed, Reads, Answered, Sends
    <1>2. r \in ListReadings /\ ListReadings' = ListReadings \ {r}
      BY <1>1 DEF ListReadings
    <1>3. BillTyped /\ view \in BillViews /\ r.flag = "list" /\ r.at \in BillQuery
      <2>1. BillLowers(r)
        BY RequestFacts
      <2> QED BY <1>1, <2>1 DEF BillLowers, BillInv, BillTyped
    <1>4. /\ view' \in BillViews /\ view'.query = view.query /\ view'.pending = view.pending /\ view'.armed = view.armed
          /\ view'.latest = view.latest
          /\ r.n # view.latest => view'.shown = view.shown /\ view'.busy = view.busy
          /\ r.n = view.latest => view'.busy = view.busy \ {"list"}
          /\ r.n = view.latest /\ r.step = "served" => view'.shown = r.at
      BY <1>3 DEF BillListed, BillViews
    <1>5. BillLeavesTyped({r}, {}, {})
      BY <1>1, NoneTyped, LeavesPlain
    <1>6. BillTyped'
      BY <1>1, <1>3, <1>4, <1>5, LeavesTyped DEF BillTyped, server
    <1>7. \A s, t \in ListReadings : s.n = t.n => s = t
      BY DEF BillInv, BillListsOrdered
    <1>8. BillOthersLowered({r}, {}, {})
      BY <1>3, <1>4 DEF BillOthersLowered
    <1>9. BillBusy'
      <2>1. ASSUME "list" \in view'.busy PROVE \E s \in ListReadings' : s.n = view'.latest
        <3>1. r.n # view.latest /\ "list" \in view.busy
          BY <1>4, <2>1
        <3>2. PICK s \in ListReadings : s.n = view.latest
          BY <3>1 DEF BillInv, BillBusy
        <3> QED BY <1>2, <1>4, <3>1, <3>2
      <2> QED BY <1>5, <1>8, <2>1, OthersBusy
    <1>10. CreationAwaited => CreationAwaited'
      BY <1>1 DEF CreationAwaited, BillCreations
    <1>11. BillListsOrdered'
      <2>1. \A s, t \in ListReadings' : s.n = t.n => s = t
        BY <1>2, <1>7
      <2>2. failures' = 0 => r.step = "served" /\ \A s \in ListReadings' : s.step \in {"sent", "served"}
        BY <1>1, <1>2 DEF BillInv, BillListsOrdered, server
      <2>3. ASSUME failures' = 0, NEW q,
                   \/ \E s \in ListReadings : s.n = view.latest /\ s.at = q
                   \/ view.shown = q /\ \A s \in ListReadings : s.n # view.latest
            PROVE  \/ \E s \in ListReadings' : s.n = view'.latest /\ s.at = q
                   \/ view'.shown = q /\ \A s \in ListReadings' : s.n # view'.latest
        <3>1. CASE r.n = view.latest
          <4>1. r.at = q
            BY <1>2, <1>7, <2>3, <3>1
          <4>2. \A s \in ListReadings' : s.n # view'.latest
            BY <1>2, <1>4, <1>7, <3>1
          <4> QED BY <1>4, <2>2, <2>3, <3>1, <4>1, <4>2
        <3>2. CASE r.n # view.latest
          BY <1>2, <1>4, <2>3, <3>2
        <3> QED BY <3>1, <3>2
      <2>4. ASSUME failures' = 0, NEW q, BillDue(q) PROVE BillDue(q)'
        BY <2>3, <2>4 DEF BillDue
      <2>7. BillMayList(view)' = BillMayList(view)
        BY <1>4 DEF BillMayList
      <2>5. failures' = 0 /\ BillDue(BillAll) => BillDue(BillAll)'
        BY <2>3 DEF BillDue, BillAll
      <2>6. failures' = failures
        BY <1>1 DEF server
      <2> QED BY <1>4, <1>10, <2>1, <2>2, <2>4, <2>5, <2>6, <2>7 DEF BillInv, BillListsOrdered
    <1> QED BY <1>6, <1>9, <1>11 DEF BillInv

-----------------------------------------------------------------------------
(* An invoice is created *)

LEMMA RereadTyped ==
    ASSUME BillInv, NEW r \in net, r.call \in BillCreations
    PROVE  /\ BillNet({Reread(r)}) /\ Reread(r).kind = "read" /\ Reread(r).call = r.call
           /\ Reread(r).flag = r.flag
    <1>1. r \in BillRequests /\ BillLowers(r) /\ (r.call \in BillAbout => r.arg \in Targets)
      BY RequestFacts
    <1>2. 0 \in Versions
      BY MaxWritesNat DEF Versions
    <1> DEFINE m == Reread(r)
    <1>3. /\ m \in BillRequests /\ m.call = r.call /\ m.arg = r.arg /\ m.at = r.at
          /\ m.flag = r.flag /\ m.kind = "read"
      BY <1>1, <1>2 DEF Reread, BillRequests, Requests, Steps
    <1>4. r.call # "list" /\ r.call # "opened"
      BY DEF BillCreations
    <1> HIDE DEF m
    <1>5. BillLowers(m) /\ (m.call \in BillAbout => m.arg \in Targets)
      BY <1>1, <1>3, <1>4 DEF BillLowers
    <1>6. BillNet({m})
      BY <1>3, <1>5 DEF BillNet
    <1> QED BY <1>3, <1>6 DEF m

LEMMA CreatedKeeps ==
    ASSUME BillInv, NEW r \in net, BillCreated(r)
    PROVE  BillInv'
    <1>1. /\ r.call \in BillCreations /\ Unsent("list") /\ view' = BillListing(view)
          /\ db' = db /\ inputs' = inputs /\ failures' = failures
      BY DEF BillCreated, server
    <1>2. BillTyped /\ view \in BillViews
      BY DEF BillInv, BillTyped
    <1> DEFINE again == Reread(r)
               m == BillList(BillAll, r.call)
    <1>3. BillNet({again}) /\ again.kind = "read" /\ again.call = r.call /\ again.flag = r.flag
      BY <1>1, RereadTyped
    <1>4. BillAll \in BillQuery
      BY DEF BillAll, BillQuery, BillPages, Queries
    <1>5. BillNet({m}) /\ m.kind = "read" /\ m.call = "list" /\ m.flag = "list"
      <2>1. r.call \in BillCreations \cup {None}
        BY <1>1
      <2>2. BillNet({m})
        BY <1>1, <1>4, <2>1, BillListTyped
      <2> QED BY <2>2 DEF BillList, Keeping, Read, Request
    <1>6. net' = (net \ {r}) \cup {again, m}
      BY DEF BillCreated
    <1> HIDE DEF again, m
    <1>7. BillLeavesTyped({r}, {}, {again, m})
      <2>1. BillNet({again, m}) /\ \A s \in {again, m} : s.kind = "read"
        BY <1>3, <1>5 DEF BillNet
      <2> QED BY <1>6, <2>1, LeavesPlain
    <1>8. BillNet(net') /\ WritesBounded'
      BY <1>1, <1>2, <1>7, LeavesTyped
    <1>9. /\ view' \in BillViews /\ view'.latest = Slot("list") /\ view'.query = view.query
          /\ view'.busy = view.busy \cup {"list"}
      BY <1>1, <1>2, ListingTyped
    <1>10. r.call # "list" /\ again.call # "list"
      BY <1>1, <1>3 DEF BillCreations
    <1>11. ListReadings' = ListReadings \cup {m}
      BY <1>5, <1>6, <1>10 DEF ListReadings
    <1>12. CreationAwaited'
      BY <1>1, <1>3, <1>6 DEF CreationAwaited
    <1>13. BillListsOrdered' /\ \E s \in ListReadings' : s.n = view'.latest
      BY <1>1, <1>4, <1>9, <1>11, <1>12, ListingOrdered DEF m
    <1>14. BillOthersLowered({r}, {}, {again, m})
      BY <1>3, <1>9 DEF BillOthersLowered
    <1>15. BillBusy'
      BY <1>7, <1>13, <1>14, OthersBusy
    <1> QED BY <1>1, <1>2, <1>8, <1>9, <1>13, <1>15 DEF BillInv, BillTyped

\* The new invoice is opened once the list is read.
BillOpening(r, i) == [Reread(r) EXCEPT !.call = "opened", !.arg = i,
                                       !.at = <<r.call>>, !.n = Slot("opened")]

LEMMA OpeningTyped ==
    ASSUME BillInv, NEW r \in net, r.call \in BillCreations, NEW i \in Items, Unsent("opened")
    PROVE  /\ BillNet({BillOpening(r, i)}) /\ BillOpening(r, i).kind = "read"
           /\ BillOpening(r, i).call = "opened" /\ BillOpening(r, i).flag = r.flag
    <1> DEFINE m == Reread(r)
               at == <<r.call>>
               o == [m EXCEPT !.call = "opened", !.arg = i, !.at = at, !.n = Slot("opened")]
    <1>1. BillNet({m}) /\ m.kind = "read" /\ m.call = r.call /\ m.flag = r.flag
      BY RereadTyped
    <1>2. m \in BillRequests
      BY <1>1 DEF BillNet
    <1>3. at \in BillSubjects /\ i \in BillSubjects /\ i \in Targets /\ "opened" \in BillCalls
      BY BillSubject DEF BillCalls, Targets
    <1>4. Slot("opened") \in 1..MaxAlike
      BY SlotFree
    <1>5. r.call = "save" \/ r.flag = ""
      <2>1. BillLowers(r)
        BY RequestFacts
      <2> QED BY <2>1 DEF BillLowers, BillCreations
    <1>6. r.call = "save" => at = <<"save">> /\ r.flag \in {"save", ""}
      <2>1. BillLowers(r)
        BY RequestFacts
      <2> QED BY <2>1 DEF BillLowers
    <1> HIDE DEF m, at
    <1>7. /\ o \in BillRequests /\ o.call = "opened" /\ o.flag = m.flag /\ o.at = at /\ o.arg = i
          /\ o.kind = m.kind
      BY <1>2, <1>3, <1>4 DEF BillRequests, Requests
    <1> HIDE DEF o
    <1>8. BillLowers(o)
      BY <1>1, <1>5, <1>6, <1>7 DEF BillLowers
    <1>9. BillNet({o})
      BY <1>3, <1>7, <1>8 DEF BillNet
    <1>10. BillOpening(r, i) = o
      BY DEF BillOpening, o, m, at
    <1> QED BY <1>1, <1>7, <1>9, <1>10

LEMMA RereadKeeps ==
    ASSUME BillInv, NEW r \in net, BillReread(r)
    PROVE  BillInv'
    <1>1. /\ r.call \in BillCreations /\ r.kind = "read"
          /\ Unsent("detail") /\ Unsent("opened")
          /\ db' = db /\ inputs' = inputs /\ failures' = failures
      BY DEF BillReread, Reads, Answered, BillCreations, server
    <1>2. BillTyped /\ view \in BillViews /\ view.query \in BillQuery
      BY DEF BillInv, BillTyped, BillViews
    <1>3. r.flag \in {"save", ""} /\ r.call # "list"
      <2>1. BillLowers(r)
        BY RequestFacts
      <2> QED BY <1>1, <2>1 DEF BillLowers, BillCreations
    <1> DEFINE again == view.query[2] # NoWord \/ view.query[3] # 1
               typed == view.query[1] # NoWord
               reset(i) == [view EXCEPT !.query = BillAll, !.sel = i]
               v(i) == IF typed THEN BillArmed(reset(i)) ELSE reset(i)
               list == IF again THEN {BillList(BillAll, None)} ELSE {}
    <1>4. PICK i \in Items :
             /\ again => Unsent("list")
             /\ view' = BillDetailing(IF again THEN BillPaged(v(i)) ELSE v(i))
             /\ net' = (net \ ({r} \cup BillGone("pay"))) \cup (BillOrphans("pay") \cup list \cup
                          {BillDetail(i), BillOpening(r, i)})
      BY DEF BillReread, Sends, BillOpening
    <1> DEFINE w == v(i)
               gone == BillGone("pay")
               m == BillList(BillAll, None)
               d == BillDetail(i)
               o == BillOpening(r, i)
               more == list \cup {d, o}
    <1>5. /\ w \in BillViews /\ w.query = BillAll /\ w.shown = view.shown
          /\ w.latest = view.latest /\ w.pending = (view.pending \/ typed)
          /\ w.busy = view.busy /\ (~typed => w.armed = view.armed)
      <2>1. BillAll \in BillQuery /\ i \in Targets
        BY DEF BillAll, BillQuery, BillPages, Queries, Targets
      <2>2. /\ reset(i) \in BillViews /\ reset(i).query = BillAll /\ reset(i).shown = view.shown
            /\ reset(i).latest = view.latest /\ reset(i).busy = view.busy
            /\ reset(i).pending = view.pending /\ reset(i).armed = view.armed
        BY <1>2, <2>1 DEF BillViews
      <2> HIDE DEF reset
      <2>3. view.pending \in BOOLEAN
        BY <1>2 DEF BillViews
      <2>4. CASE typed
        BY <2>2, <2>3, <2>4, ArmedTyped
      <2>5. CASE ~typed
        BY <2>2, <2>3, <2>5
      <2> QED BY <2>4, <2>5
    <1>6. BillNet({d}) /\ d.kind = "read" /\ d.call = "detail" /\ d.flag = "detail"
      <2>1. i \in Targets
        BY DEF Targets
      <2>2. BillNet({d})
        BY <1>1, <2>1, BillDetailTyped
      <2> QED BY <2>2 DEF BillDetail, BillKeeping, Keeping, Read, Request
    <1>7. BillNet({o}) /\ o.kind = "read" /\ o.call = "opened" /\ o.flag = r.flag
      BY <1>1, OpeningTyped
    <1>8. again => BillNet({m}) /\ m.kind = "read" /\ m.call = "list"
      <2>1. BillAll \in BillQuery /\ None \in BillCreations \cup {None}
        BY DEF BillAll, BillQuery, BillPages, Queries
      <2>2. again => BillNet({m})
        BY <1>4, <2>1, BillListTyped
      <2> QED BY <2>2 DEF BillList, Keeping, Read, Request
    <1>9. /\ gone \subseteq net /\ \A s \in gone : s.flag = "pay"
          /\ gone \ {r} = gone
      BY <1>3 DEF BillGone
    <1>10. net' = (net \ ({r} \cup gone)) \cup BillSilenced(gone \ {r}) \cup more
      BY <1>4, <1>9 DEF BillOrphans
    <1>11. list = IF again THEN {m} ELSE {}
      OBVIOUS
    <1>12. view' = BillDetailing(IF again THEN BillPaged(w) ELSE w)
      BY <1>4
    <1> HIDE DEF w, gone, m, d, o, list
    <1>13. BillNet(more) /\ \A s \in more : s.kind = "read"
      BY <1>6, <1>7, <1>8, <1>11 DEF BillNet
    <1>14. ListReadings \ {r} = ListReadings /\ {s \in more : s.call = "list"} = list
      BY <1>3, <1>6, <1>7, <1>8, <1>11 DEF ListReadings
    <1>15. d \in more /\ o \in more
      OBVIOUS
    <1> HIDE DEF more
    <1>16. BillLeavesTyped({r}, gone, more)
      BY <1>9, <1>10, <1>13 DEF BillLeavesTyped, BillLeaves
    <1>17. BillNet(net') /\ WritesBounded'
      BY <1>1, <1>2, <1>16, LeavesTyped
    <1>18. ListReadings' = ListReadings \cup list
      BY <1>2, <1>14, <1>16, LeavesMembers
    <1> DEFINE u == IF again THEN BillPaged(w) ELSE w
    <1>19. /\ u \in BillViews /\ u.query = BillAll /\ u.shown = view.shown
           /\ u.latest = (IF again THEN Slot("list") ELSE view.latest)
           /\ u.pending = (view.pending \/ typed)
           /\ u.busy = view.busy \cup (IF again THEN {"list"} ELSE {})
           /\ (~again /\ ~typed => u.armed = view.armed)
      <2>1. CASE again
        <3>1. Unsent("list")
          BY <1>4, <2>1
        <3> HIDE DEF typed
        <3> QED BY <1>5, <2>1, <3>1, PagedTyped
      <2>2. CASE ~again
        BY <1>5, <2>2
      <2> QED BY <2>1, <2>2
    <1>20. view' = BillDetailing(u)
      BY <1>12
    <1> HIDE DEF u
    <1>21. /\ view' \in BillViews /\ view'.query = BillAll /\ view'.shown = view.shown
           /\ view'.latest = (IF again THEN Slot("list") ELSE view.latest)
           /\ view'.pending = (view.pending \/ typed)
           /\ view'.busy = (view.busy \cup (IF again THEN {"list"} ELSE {}) \cup {"detail"}) \ {"pay"}
           /\ (~again /\ ~typed => view'.armed = view.armed)
      BY <1>19, <1>20, DetailingTyped
    <1>22. BillOthersLowered({r}, gone, more)
      <2>1. ASSUME NEW f \in view'.busy, f # "list"
            PROVE  \/ f \in view.busy /\ \A s \in {r} \cup gone : s.flag # f
                   \/ \E s \in more : s.flag = f
        <3>1. CASE f = "detail"
          BY <1>6, <1>15, <3>1
        <3>2. CASE f = r.flag
          BY <1>7, <1>15, <3>2
        <3>3. CASE f # "detail" /\ f # r.flag
          <4>1. f \in view.busy /\ f # "pay"
            BY <1>21, <2>1, <3>3
          <4> QED BY <1>9, <3>3, <4>1
        <3> QED BY <3>1, <3>2, <3>3
      <2> QED BY <2>1 DEF BillOthersLowered
    <1>23. BillListsOrdered' /\ ("list" \in view'.busy => \E s \in ListReadings' : s.n = view'.latest)
      <2>1. CASE again
        <3>1. Unsent("list") /\ BillAll \in BillQuery /\ None \in BillCreations \cup {None}
          BY <1>4, <2>1 DEF BillAll, BillQuery, BillPages, Queries
        <3>2. ListReadings' = ListReadings \cup {BillList(BillAll, None)}
          BY <1>11, <1>18, <2>1 DEF m
        <3>3. BillAll \in BillMayList(view)' /\ view'.latest = Slot("list")
          BY <1>21, <2>1 DEF BillMayList
        <3> QED BY <1>1, <3>1, <3>2, <3>3, ListingOrdered
      <2>2. CASE ~again
        <3>1. ListReadings' = ListReadings /\ view'.latest = view.latest
          BY <1>11, <1>18, <1>21, <2>2
        <3>2. "list" \in view'.busy => \E s \in ListReadings' : s.n = view'.latest
          BY <1>21, <2>2, <3>1 DEF BillInv, BillBusy
        <3>3. ASSUME failures = 0, ~view'.pending
              PROVE  \E q \in BillMayList(view)' : BillDue(q)'
          <4>1. ~view.pending /\ ~typed
            BY <1>21, <3>3
          <4>2. view.query = BillAll
            BY <1>2, <2>2, <4>1 DEF BillQuery, BillAll
          <4>3. PICK q \in BillMayList(view) : BillDue(q)
            BY <3>3, <4>1, <4>2 DEF BillInv, BillListsOrdered, BillMayList
          <4>4. BillMayList(view)' = BillMayList(view)
            BY <1>21, <3>1, <4>1, <4>2, <2>2 DEF BillMayList
          <4>5. BillDue(q)'
            BY <1>21, <3>1, <4>3 DEF BillDue
          <4> QED BY <4>3, <4>4, <4>5
        <3> QED BY <1>1, <3>1, <3>2, <3>3 DEF BillInv, BillListsOrdered
      <2> QED BY <2>1, <2>2
    <1>24. BillBusy'
      BY <1>16, <1>22, <1>23, OthersBusy
    <1> QED BY <1>1, <1>2, <1>17, <1>21, <1>23, <1>24 DEF BillInv, BillTyped

-----------------------------------------------------------------------------
(* Every step of the page and of its server *)

LEMMA BillInputTyped ==
    ASSUME BillInv, Input \/ UNCHANGED server
    PROVE  db' = db /\ failures' = failures /\ inputs' \in 0..MaxInputs
    <1>1. MaxInputs \in Nat
      BY ScreenAssumption
    <1> QED BY <1>1 DEF Input, server, BillInv, BillTyped

LEMMA AnswerKeeps ==
    ASSUME BillInv, NEW r \in net,
           \/ BillDetailed(r) \/ BillActed(r) \/ BillPaid(r) \/ BillSaved(r) \/ BillOpened(r)
    PROVE  BillInv'
    <1>1. \/ view' \in BillViews /\ BillSameFields /\ BillLeavesList /\ UNCHANGED server
          \/ BillCreated(r)
      <2>1. CASE BillDetailed(r)
        BY <2>1, DetailedSteps
      <2>2. CASE BillActed(r)
        BY <2>2, ActedSteps
      <2>3. CASE BillPaid(r)
        BY <2>3, PaidSteps
      <2>4. CASE BillSaved(r)
        BY <2>4, SavedSteps
      <2>5. CASE BillOpened(r)
        BY <2>5, OpenedSteps
      <2> QED BY <2>1, <2>2, <2>3, <2>4, <2>5
    <1>2. CASE BillCreated(r)
      BY <1>2, CreatedKeeps
    <1>3. CASE view' \in BillViews /\ BillSameFields /\ BillLeavesList /\ UNCHANGED server
      BY <1>3, BillInputTyped, LeavesKeeps DEF BillLeavesList
    <1> QED BY <1>1, <1>2, <1>3

LEMMA BillStep ==
    ASSUME BillInv, BillNext
    PROVE  BillInv'
    <1>1. BillTyped
      BY DEF BillInv
    <1>2. CASE \/ BillCreate \/ BillAsk \/ BillEdit \/ BillOpenPay \/ BillBack \/ BillClosePay
               \/ BillPayForm \/ BillLines \/ \E i \in Items : BillCollect(i)
      <2>1. view' \in BillViews /\ BillOnlyView /\ Input
        BY <1>1, <1>2, BillViewSteps
      <2> QED BY <2>1, BillInputTyped, OnlyViewKeeps
    <1>3. CASE \/ BillIssue \/ BillDuplicate \/ BillCancel \/ BillFromQueue \/ BillPay \/ BillSave
      <2>1. view' \in BillViews /\ BillSending /\ BillSameFields /\ Input
        BY <1>1, <1>3, BillWriteSteps
      <2> QED BY <2>1, BillInputTyped, SendingKeeps
    <1>4. CASE BillClose \/ \E i \in Items : BillSelect(i)
      <2>1. view' \in BillViews /\ BillSameFields /\ BillLeavesList /\ Input
        BY <1>4, SelectSteps, CloseSteps
      <2> QED BY <2>1, BillInputTyped, LeavesKeeps DEF BillLeavesList
    <1>5. CASE BillSearched \/ \E q \in BillQuery : BillFilter(q)
      BY <1>5, AskedKeeps
    <1>6. CASE BillTurned
      BY <1>6, TurnedKeeps
    <1>7. CASE \E w \in Queries : BillType(w)
      BY <1>7, TypedKeeps
    <1>8. CASE \E r \in net : \/ BillListed(r) \/ BillDetailed(r) \/ BillActed(r)
                              \/ BillPaid(r) \/ BillSaved(r) \/ BillReread(r) \/ BillOpened(r)
      BY <1>8, ListAnswered, AnswerKeeps, RereadKeeps
    <1> QED BY <1>2, <1>3, <1>4, <1>5, <1>6, <1>7, <1>8
            DEF BillNext, BillRows, BillSearchBox, BillQueue, BillHeader, BillConfirm, BillPanel, BillForm

LEMMA BillServed ==
    ASSUME BillInv, Network({})
    PROVE  BillInv'
    <1>1. /\ view \in BillViews /\ BillNet(net) /\ net \subseteq BillRequests
          /\ WritesBounded /\ failures \in 0..MaxFailures /\ inputs \in 0..MaxInputs
      BY DEF BillInv, BillTyped, BillNet
    <1>2. /\ net' \subseteq BillRequests
          /\ WritesBounded' /\ failures' \in 0..MaxFailures /\ UNCHANGED <<view, inputs>>
          /\ \E r \in net : \E step, saw : Served(r, step, saw)
      <2>1. None \in BillSubjects
        BY BillSubject
      <2> QED BY <1>1, <2>1, NetworkStep DEF BillRequests
    <1>3a. PICK r \in net : \E step, saw : Served(r, step, saw)
      BY <1>2
    <1>3. PICK step, saw : Served(r, step, saw)
      BY <1>3a
    <1> DEFINE q == [r EXCEPT !.step = step, !.saw = saw]
    <1>4. /\ q.call = r.call /\ q.arg = r.arg /\ q.flag = r.flag /\ q.kind = r.kind /\ q.at = r.at
          /\ q.n = r.n /\ q.step = step
      BY <1>1 DEF BillRequests, Requests
    <1>5. net' = (net \ {r}) \cup {q}
      BY <1>3 DEF Served
    <1>6. failures' = 0 => failures = 0 /\ step = "served"
      BY <1>3 DEF Served
    <1> HIDE DEF q
    <1>7. BillLowers(q) /\ (q.call \in BillAbout => q.arg \in Targets)
      <2>1. BillLowers(r) /\ (r.call \in BillAbout => r.arg \in Targets)
        BY RequestFacts
      <2> QED BY <1>4, <2>1 DEF BillLowers
    <1>8. BillNet(net')
      BY <1>1, <1>2, <1>5, <1>7 DEF BillNet
    <1>9. BillTyped'
      BY <1>1, <1>2, <1>8 DEF BillTyped
    <1>10. \A t \in net : \E s \in net' : s.flag = t.flag /\ s.n = t.n /\ s.call = t.call /\ s.at = t.at
      <2>1. ASSUME NEW t \in net
            PROVE  \E s \in net' : s.flag = t.flag /\ s.n = t.n /\ s.call = t.call /\ s.at = t.at
        <3>1. CASE t = r
          BY <1>4, <1>5, <3>1
        <3>2. CASE t # r
          BY <1>5, <3>2
        <3> QED BY <3>1, <3>2
      <2> QED BY <2>1
    <1>11. \A s \in net' : s = q \/ (s \in net /\ s # r)
      BY <1>5
    <1>12. BillBusy'
      <2>1. ASSUME NEW f \in view.busy, f # "list" PROVE \E s \in net' : s.flag = f
        <3>1. PICK t \in net : t.flag = f
          BY <2>1 DEF BillInv, BillBusy, HasRequest
        <3> QED BY <1>10, <3>1
      <2>2. ASSUME "list" \in view.busy PROVE \E s \in net' : s.call = "list" /\ s.n = view.latest
        <3>1. PICK t \in net : t.call = "list" /\ t.n = view.latest
          BY <2>2 DEF BillInv, BillBusy, ListReadings
        <3> QED BY <1>10, <3>1
      <2> QED BY <1>2, <2>1, <2>2 DEF BillBusy, HasRequest, ListReadings
    <1>13. CreationAwaited => CreationAwaited'
      BY <1>4, <1>5 DEF CreationAwaited
    <1>14. ASSUME NEW s \in ListReadings'
           PROVE  \E t \in ListReadings : /\ t.n = s.n /\ t.at = s.at /\ (s = q <=> t = r)
                                          /\ s # q => s = t
      <2>1. s \in net' /\ s.call = "list"
        BY DEF ListReadings
      <2>2. CASE s = q
        BY <1>4, <2>1, <2>2 DEF ListReadings
      <2>3. CASE s # q
        BY <1>11, <2>1, <2>3 DEF ListReadings
      <2> QED BY <2>2, <2>3
    <1>15. \A s, t \in ListReadings' : s.n = t.n => s = t
      <2>1. \A s, t \in ListReadings : s.n = t.n => s = t
        BY DEF BillInv, BillListsOrdered
      <2>2. SUFFICES ASSUME NEW s \in ListReadings', NEW t \in ListReadings', s.n = t.n PROVE s = t
        OBVIOUS
      <2>3. PICK s0 \in ListReadings : s0.n = s.n /\ (s = q <=> s0 = r) /\ (s # q => s = s0)
        BY <1>14
      <2>4. PICK t0 \in ListReadings : t0.n = t.n /\ (t = q <=> t0 = r) /\ (t # q => t = t0)
        BY <1>14
      <2>5. s0 = t0
        BY <2>1, <2>2, <2>3, <2>4
      <2> QED BY <2>3, <2>4, <2>5
    <1>16. ASSUME NEW w, \/ \E s \in ListReadings : s.n = view.latest /\ s.at = w
                         \/ view.shown = w /\ \A s \in ListReadings : s.n # view.latest
           PROVE  \/ \E s \in ListReadings' : s.n = view'.latest /\ s.at = w
                  \/ view'.shown = w /\ \A s \in ListReadings' : s.n # view'.latest
      <2>1. CASE \E s \in ListReadings : s.n = view.latest /\ s.at = w
        BY <1>2, <1>10, <2>1 DEF ListReadings
      <2>2. CASE view.shown = w /\ \A s \in ListReadings : s.n # view.latest
        BY <1>2, <1>14, <2>2
      <2> QED BY <1>16, <2>1, <2>2
    <1>17. (\E w \in BillMayList(view) : BillDue(w)) => \E w \in BillMayList(view)' : BillDue(w)'
      <2>1. SUFFICES ASSUME NEW w \in BillMayList(view), BillDue(w)
                     PROVE  \E x \in BillMayList(view)' : BillDue(x)'
        OBVIOUS
      <2>2. BillDue(w)'
        BY <1>16, <2>1 DEF BillDue
      <2>3. BillMayList(view)' = BillMayList(view)
        BY <1>2 DEF BillMayList
      <2> QED BY <2>1, <2>2, <2>3
    <1>18. BillDue(BillAll) => BillDue(BillAll)'
      BY <1>16 DEF BillDue, BillAll
    <1>19. failures' = 0 => \A s \in ListReadings' : s.step \in {"sent", "served"}
      <2>1. SUFFICES ASSUME failures' = 0, NEW s \in ListReadings' PROVE s.step \in {"sent", "served"}
        OBVIOUS
      <2>2. failures = 0 /\ step = "served"
        BY <1>6, <2>1
      <2>3. \A t \in ListReadings : t.step \in {"sent", "served"}
        BY <2>2 DEF BillInv, BillListsOrdered
      <2>4. PICK t \in ListReadings : s # q => s = t
        BY <1>14
      <2> QED BY <1>4, <2>2, <2>3, <2>4
    <1>20. failures = 0 /\ ~view.pending =>
              (\E w \in BillMayList(view) : BillDue(w)) \/ (CreationAwaited /\ BillDue(BillAll))
      BY DEF BillInv, BillListsOrdered
    <1>21. failures' = 0 /\ ~view'.pending =>
              \/ \E w \in BillMayList(view)' : BillDue(w)'
              \/ CreationAwaited' /\ BillDue(BillAll)'
      BY <1>2, <1>6, <1>13, <1>17, <1>18, <1>20
    <1>22. BillListsOrdered'
      BY <1>15, <1>19, <1>21 DEF BillListsOrdered
    <1> QED BY <1>9, <1>12, <1>22 DEF BillInv

LEMMA BillStart ==
    ASSUME BillInit
    PROVE  BillInv
    <1> DEFINE first == Keeping(Request("read", "list", None, "list", 1), BillAll)
    <1>1. net = {first}
      BY DEF BillInit
    <1>2. first = [kind |-> "read", call |-> "list", arg |-> None, at |-> BillAll, flag |-> "list",
                   n |-> 1, step |-> "sent", saw |-> 0]
      BY DEF Request, Keeping
    <1>3. Start
      BY DEF BillInit
    <1>4. SentWrites(net) = {}
      BY <1>1, <1>2 DEF SentWrites
    <1>5. /\ WritesBounded /\ inputs \in 0..MaxInputs /\ failures \in 0..MaxFailures
          /\ 0 \in Versions /\ 1 \in 1..MaxAlike
      BY <1>3, <1>4, StartTyped
    <1>6. BillAll \in BillQuery /\ None \in Targets /\ NoWord \in Queries
      BY DEF BillAll, BillQuery, BillPages, Queries, Targets
    <1>7. 1 \in 0..MaxAlike
      <2>1. MaxAlike \in Nat
        BY ScreenAssumption
      <2> QED BY <1>5, <2>1
    <1>8. PICK p \in Profiles :
          view = [page |-> "billing", rights |-> p, query |-> BillAll, pending |-> TRUE,
                  armed |-> NoWord, latest |-> 1, shown |-> BillAll, sel |-> None, detail |-> None,
                  status |-> "draft", drawer |-> None, of |-> None, form |-> "blank",
                  asking |-> FALSE, pay |-> None, busy |-> {"list"}]
      BY DEF BillInit
    <1>9. view.busy = {"list"} /\ view.latest = 1 /\ view.pending = TRUE
      BY <1>8
    <1>10. view \in BillViews
      <2> HIDE DEF BillAll
      <2>1. "draft" \in BillStatuses /\ "blank" \in Drafts
        BY DEF BillStatuses, Drafts
      <2> QED BY <1>6, <1>7, <1>8, <2>1 DEF BillViews
    <1>11. first \in BillRequests
      <2>1. None \in BillSubjects /\ BillAll \in BillSubjects
        BY <1>6, BillSubject
      <2>2. "list" \in BillCalls /\ "list" \in BillFlags /\ "sent" \in Steps
        BY DEF BillCalls, BillFlags, Steps
      <2> QED BY <1>2, <1>5, <2>1, <2>2 DEF BillRequests, Requests
    <1>12. /\ first.call = "list" /\ first.kind = "read" /\ first.flag = "list" /\ first.at = BillAll
           /\ first.n = 1 /\ first.step = "sent" /\ first.arg = None
      BY <1>2
    <1> HIDE DEF first
    <1>13. BillNet(net)
      BY <1>1, <1>6, <1>11, <1>12 DEF BillNet, BillLowers, BillAbout
    <1>14. ListReadings = {first}
      BY <1>1, <1>12 DEF ListReadings
    <1>15. BillBusy
      BY <1>9, <1>12, <1>14 DEF BillBusy
    <1>16. BillListsOrdered
      BY <1>9, <1>12, <1>14 DEF BillListsOrdered
    <1> QED BY <1>5, <1>10, <1>13, <1>15, <1>16 DEF BillInv, BillTyped

-----------------------------------------------------------------------------
(* The two pages *)

RecordInv == (view.page = "clients" /\ ClientsInv) \/ (view.page = "billing" /\ BillInv)

LEMMA PageOfView ==
    /\ ClientsInv => view.page = "clients"
    /\ BillInv => view.page = "billing"
    <1>1. view \in ClientsViews => view.page = "clients"
      BY DEF ClientsViews
    <1>2. view \in BillViews => view.page = "billing"
      BY DEF BillViews
    <1> QED BY <1>1, <1>2 DEF ClientsInv, ClientsTyped, BillInv, BillTyped

LEMMA ClientsStutters ==
    ASSUME ClientsInv, UNCHANGED screen
    PROVE  ClientsInv'
    <1>0. view' = view /\ net' = net /\ db' = db /\ inputs' = inputs /\ failures' = failures
      BY DEF screen
    <1>1. WriteServed' = WriteServed
      BY <1>0 DEF WriteServed
    <1>2. ListAwaited' = ListAwaited
      BY <1>0 DEF ListAwaited, Latest
    <1>3. DetailAwaited' = DetailAwaited
      BY <1>0 DEF DetailAwaited, Latest
    <1>4. ClientsTyped'
      <2>1. WritesBounded'
        BY <1>0, FewerWrites DEF ClientsInv, ClientsTyped
      <2> QED BY <1>0, <2>1 DEF ClientsInv, ClientsTyped
    <1>5. ClientsBusy'
      BY <1>0 DEF ClientsInv, ClientsBusy, HasRequest
    <1>6. ClientsCounted'
      BY <1>0, <1>1, <1>2 DEF ClientsInv, ClientsCounted, Latest
    <1>7. ClientsFollows'
      BY <1>0, <1>1, <1>3 DEF ClientsInv, ClientsFollows, Latest
    <1> QED BY <1>4, <1>5, <1>6, <1>7 DEF ClientsInv

LEMMA BillStutters ==
    ASSUME BillInv, UNCHANGED screen
    PROVE  BillInv'
    <1>1. view' = view /\ net' = net /\ db' = db /\ inputs' = inputs /\ failures' = failures
      BY DEF screen
    <1> QED BY <1>1, OnlyViewKeeps DEF BillOnlyView, BillSameFields, BillInv, BillTyped

LEMMA RecordStart == Init => RecordInv
    BY ClientsStart, BillStart, PageOfView DEF Init, RecordInv

LEMMA RecordStep ==
    ASSUME RecordInv, [Next]_screen
    PROVE  RecordInv'
    <1>1. ASSUME view.page = "clients", ClientsInv
          PROVE  ClientsInv'
      <2>1. CASE ClientsNext
        BY <1>1, <2>1, ClientsStep
      <2>2. CASE Network({})
        BY <1>1, <2>2, ClientsServed
      <2>3. CASE UNCHANGED screen
        BY <1>1, <2>3, ClientsStutters
      <2> QED BY <1>1, <2>1, <2>2, <2>3 DEF Next, BillNext
    <1>2. ASSUME view.page = "billing", BillInv
          PROVE  BillInv'
      <2>1. CASE BillNext
        BY <1>2, <2>1, BillStep
      <2>2. CASE Network({})
        BY <1>2, <2>2, BillServed
      <2>3. CASE UNCHANGED screen
        BY <1>2, <2>3, BillStutters
      <2> QED BY <1>2, <2>1, <2>2, <2>3 DEF Next, ClientsNext
    <1>3. ClientsInv' => view'.page = "clients"
      BY DEF ClientsInv, ClientsTyped, ClientsViews
    <1>4. BillInv' => view'.page = "billing"
      BY DEF BillInv, BillTyped, BillViews
    <1> QED BY <1>1, <1>2, <1>3, <1>4 DEF RecordInv

LEMMA RecordsKept == Spec => []RecordInv
    <1>1. RecordInv /\ [Next]_screen => RecordInv'
      BY RecordStep
    <1> QED BY <1>1, RecordStart, PTL DEF Spec

-----------------------------------------------------------------------------

\* Both pages keep to their fields, every request to its steps, and the writes in flight
\* and made never exceed their bound.
THEOREM ScreensTyped == Spec => []TypeOK
    <1>1. RecordInv => TypeOK
      <2>1. SUFFICES ASSUME RecordInv PROVE TypeOK
        OBVIOUS
      <2>2. WritesBounded /\ inputs \in 0..MaxInputs /\ failures \in 0..MaxFailures
        BY <2>1 DEF RecordInv, ClientsInv, ClientsTyped, BillInv, BillTyped
      <2>3. db \in Versions
        BY <2>2, VersionsInBound
      <2>4. view \in ClientsViews \/ view \in BillViews
        BY <2>1 DEF RecordInv, ClientsInv, ClientsTyped, BillInv, BillTyped
      <2>5. net \subseteq ClientsRequests \/ net \subseteq BillRequests
        BY <2>1 DEF RecordInv, ClientsInv, ClientsTyped, ClientsNet, BillInv, BillTyped, BillNet
      <2>6. \A r \in net : r.step \in Steps /\ r.saw \in Versions /\ r.n \in 1..MaxAlike
        BY <2>5 DEF ClientsRequests, BillRequests, Requests
      <2> QED BY <2>2, <2>3, <2>4, <2>6 DEF TypeOK
    <1> QED BY <1>1, RecordsKept, PTL

\* Neither page shows for ever that it loads, saves or pays: what is raised has a request
\* whose end lowers it, however many forms, panels and lists were closed or replaced.
THEOREM NothingSpinsForEver == Spec => []BusyHasRequest
    <1>1. RecordInv => BusyHasRequest
      <2>1. ASSUME ClientsInv PROVE BusyHasRequest
        BY <2>1 DEF ClientsInv, ClientsBusy, BusyHasRequest
      <2>2. ASSUME BillInv PROVE BusyHasRequest
        <3>1. \A r \in ListReadings : r.flag = "list" /\ r \in net
          BY <2>2 DEF BillInv, BillTyped, BillNet, BillLowers, ListReadings
        <3>2. "list" \in view.busy => \E r \in ListReadings : r.n = view.latest
          BY <2>2 DEF BillInv, BillBusy
        <3>3. \A f \in view.busy \ {"list"} : HasRequest(f)
          BY <2>2 DEF BillInv, BillBusy
        <3>4. "list" \in view.busy => HasRequest("list")
          BY <3>1, <3>2 DEF HasRequest
        <3> QED BY <3>3, <3>4 DEF BusyHasRequest
      <2> QED BY <2>1, <2>2 DEF RecordInv
    <1> QED BY <1>1, RecordsKept, PTL

\* Once all is answered the clients listed are the server's: a list that a write outdated
\* is read again after it, and an older reading never replaces a newer one.
THEOREM ClientListConverges == Spec => []ClientsFresh
    <1>1. RecordInv => ClientsFresh
      BY DEF RecordInv, ClientsInv, ClientsCounted, ClientsFresh, Quiet, WriteServed, ListAwaited
    <1> QED BY <1>1, RecordsKept, PTL

\* Once all is answered, and as long as nothing was written, the record shown beside the
\* clients is the one selected.
THEOREM ClientShownIsSelected == Spec => []ClientOfSelection
    <1>1. RecordInv => ClientOfSelection
      BY DEF RecordInv, ClientsInv, ClientsFollows, ClientOfSelection, Quiet, DetailAwaited
    <1> QED BY <1>1, RecordsKept, PTL

\* Once all is answered the invoices listed are those of the search, the status and the page
\* shown above them, even when an invoice was created, and the search reset, while lists were
\* read; but for the status that the timer of the search box was armed with, which may stand
\* in the list for one chosen while it ran, until a status or a page is chosen again.
THEOREM InvoicesShownAreSearched == Spec => []InvoicesOfQuery
    <1>1. RecordInv => InvoicesOfQuery
      <2>1. SUFFICES ASSUME BillInv, net = {}, failures = 0, ~view.pending
                     PROVE  view.shown \in BillMayList(view)
        BY DEF RecordInv, InvoicesOfQuery, Quiet, BillMayList
      <2>2. ListReadings = {} /\ ~CreationAwaited
        BY <2>1 DEF ListReadings, CreationAwaited
      <2>3. PICK q \in BillMayList(view) : BillDue(q)
        BY <2>1, <2>2 DEF BillInv, BillListsOrdered
      <2> QED BY <2>2, <2>3 DEF BillDue
    <1> QED BY <1>1, RecordsKept, PTL

=============================================================================
