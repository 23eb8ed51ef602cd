-------------------------- MODULE HotelPages_proofs --------------------------
(***************************************************************************)
(* The pages of the hotel: what each keeps of its view and of its requests, *)
(* for every set of rows and every bound.  For a page X, XRequests are the *)
(* requests it may have in flight, and XInv is the inductive invariant: the *)
(* view keeps to its fields, a form has one request in flight at most      *)
(* (Frame), and a flag that is up has the request whose end lowers it      *)
(* (Covered).  XStep proves it for each of its handlers and effects.       *)
(***************************************************************************)
EXTENDS OperationsPage, RoomsPage, PlanningPage, BookingAndStayPages,
        DayUseAndPaymentPages, DeskLists, DeskBoards, Screen_proofs

(* The operations desk *)

OpsSubjects == Targets \cup Queries \cup OpsTabs
OpsCalls == {"refresh", "search", "due"} \cup OpsWrites
OpsFlags == {"", "page", "due"} \cup OpsWrites
OpsCall(r) ==
    /\ r.call = "refresh" => r.kind = "read" /\ r.flag = "page"
    /\ r.call = "search" => r.kind = "read" /\ r.flag = ""
    /\ r.call = "due" => r.kind = "read" /\ r.flag = "due" /\ r.arg \in Targets
    /\ r.call \in OpsWrites => r.flag = r.call
    /\ r.call # "due" => r.at \in Queries
OpsRequests == {r \in Requests(OpsSubjects, OpsCalls, OpsFlags) : OpsCall(r)}

OpsKept ==
    /\ view \in OpsViews /\ Frame(OpsRequests, OpsWrites)
    /\ view.modal # None => "action" \notin view.busy
    /\ view.invoice \in {None, view.sel}
OpsInv == OpsKept /\ Covered

LEMMA OpsStart ==
    ASSUME OpsInit
    PROVE  OpsInv
    <1>1. PICK may \in Profiles, tab \in OpsTabs, filled \in BOOLEAN :
             /\ view = [page |-> "operations", may |-> may, tab |-> tab,
                   forms |-> IF filled /\ tab # "payment"
                             THEN [OpsBlank EXCEPT ![tab] = "partial"] ELSE OpsBlank,
                   busy |-> IF "view" \in may THEN {"page"} ELSE {},
                   sel |-> None, invoice |-> None, due |-> None, word |-> NoWord,
                   found |-> [of |-> NoWord, saw |-> 0], lists |-> 0,
                   modal |-> None, sheet |-> None,
                   status |-> IF "view" \in may THEN "none" ELSE "error"]
             /\ net = IF "view" \in may
                      THEN {Keeping(r, NoWord) : r \in Mounted({"refresh"}, "page")
                                                         \cup Mounted({"search"}, "")}
                      ELSE {}
             /\ Start
      BY DEF OpsInit
    <1> DEFINE refresh == Keeping(Request("read", "refresh", NoWord, "page", 1), NoWord)
               search == Keeping(Request("read", "search", NoWord, "", 1), NoWord)
    <1>2. net = (IF "view" \in may THEN {refresh, search} ELSE {})
      <2>1. {Keeping(r, NoWord) : r \in Mounted({"refresh"}, "page") \cup Mounted({"search"}, "")}
              = {refresh, search}
        BY DEF Mounted
      <2> HIDE DEF refresh, search
      <2> QED BY <1>1, <2>1
    <1>3. /\ refresh \in OpsRequests /\ Asks(refresh, "read", "refresh", NoWord, NoWord, "page")
          /\ search \in OpsRequests /\ Asks(search, "read", "search", NoWord, NoWord, "")
      <2>1. /\ None \in OpsSubjects /\ NoWord \in OpsSubjects /\ {"refresh", "search"} \subseteq OpsCalls
            /\ {"page", ""} \subseteq OpsFlags
        BY DEF OpsSubjects, OpsCalls, OpsFlags, Targets, Queries
      <2>2. /\ refresh \in Requests(OpsSubjects, OpsCalls, OpsFlags)
            /\ Asks(refresh, "read", "refresh", NoWord, NoWord, "page")
            /\ search \in Requests(OpsSubjects, OpsCalls, OpsFlags)
            /\ Asks(search, "read", "search", NoWord, NoWord, "")
        BY <2>1, FirstAsked
      <2> HIDE DEF refresh, search
      <2> QED BY <2>2 DEF OpsRequests, OpsCall, Asks, OpsWrites, OpsTabs, Queries
    <1> HIDE DEF refresh, search
    <1>4. Frame(OpsRequests, OpsWrites)
      <2>1. net \subseteq OpsRequests
        BY <1>2, <1>3
      <2>2. \A r \in net : r.kind = "read" /\ r.flag \notin OpsWrites
        BY <1>2, <1>3 DEF Asks, OpsWrites, OpsTabs
      <2> QED BY <1>1, <2>1, <2>2, FrameStart
    <1>5. view \in OpsViews
      <2>1. 0 \in Versions
        BY MaxWritesNat DEF Versions
      <2>2. view.forms \in [OpsTabs -> Drafts]
        BY <1>1 DEF OpsBlank, Drafts
      <2> QED BY <1>1, <2>1, <2>2 DEF OpsViews, Targets, Queries, Statuses
    <1>6. Covered
      <2>1. "view" \in may => refresh \in net /\ refresh.flag = "page"
        BY <1>2, <1>3 DEF Asks
      <2>2. view.busy = IF "view" \in may THEN {"page"} ELSE {}
        BY <1>1
      <2> QED BY <2>1, <2>2 DEF Covered, HasRequest
    <1> QED BY <1>1, <1>4, <1>5, <1>6 DEF OpsInv, OpsKept

\* What the proofs of the steps use of the invariant.
LEMMA OpsFacts ==
    ASSUME OpsInv
    PROVE  /\ view \in OpsViews /\ Frame(OpsRequests, OpsWrites) /\ Covered
           /\ \A r \in net : r \in Requests(OpsSubjects, OpsCalls, OpsFlags) /\ OpsCall(r)
           /\ \A r \in net : /\ r.step \in Steps /\ r.saw \in Versions
                             /\ r.call \in OpsCalls /\ r.flag \in OpsFlags
           /\ view.modal # None => "action" \notin view.busy
           /\ view.invoice \in {None, view.sel}
    <1>1. \A r \in net : r \in Requests(OpsSubjects, OpsCalls, OpsFlags) /\ OpsCall(r)
      BY DEF OpsInv, OpsKept, Frame, OpsRequests
    <1> QED BY <1>1 DEF OpsInv, OpsKept, Requests

LEMMA OpsRefreshedTyped ==
    ASSUME view \in OpsViews, NEW r, r.at \in Queries, r.saw \in Versions,
           NEW got \in SUBSET {"found", "lists"}
    PROVE  /\ OpsRefreshed(r, got) \in OpsViews
           /\ OpsRefreshed(r, got) = [view EXCEPT !.found = OpsRefreshed(r, got).found,
                                                  !.lists = OpsRefreshed(r, got).lists]
    BY DEF OpsRefreshed, OpsViews

\* The readings of the lists.
LEMMA OpsListsKeep ==
    ASSUME OpsInv, NEW r \in net, OpsLoaded(r) \/ OpsFound(r)
    PROVE  OpsInv' /\ view'.forms = view.forms
    <1>0. /\ view \in OpsViews /\ Frame(OpsRequests, OpsWrites) /\ Covered
          /\ OpsCall(r) /\ r.step \in Steps /\ r.saw \in Versions
          /\ view.modal # None => "action" \notin view.busy
          /\ view.invoice \in {None, view.sel}
      BY OpsFacts
    <1>1. CASE OpsLoaded(r)
      <2>1. r.call = "refresh" /\ r.flag = "page" /\ r.at \in Queries
        BY <1>0, <1>1 DEF OpsLoaded, Reads, Answered, OpsCall
      <2>2. PICK got \in OpsGot(r) :
               view' = [OpsRefreshed(r, got) EXCEPT
                      !.busy = @ \ {"page"},
                      !.status = CASE r.step = "failed" -> "error"
                                   [] r.step = "partly" -> "warning"
                                   [] OTHER -> @]
        BY <1>1 DEF OpsLoaded
      <2>3. got \in SUBSET {"found", "lists"}
        BY <2>2 DEF OpsGot
      <2>4. OpsRefreshed(r, got) \in OpsViews
        BY <1>0, <2>1, <2>3, OpsRefreshedTyped
      <2>5. /\ view' \in OpsViews /\ view'.busy = view.busy \ {"page"}
            /\ UNCHANGED <<view.modal, view.invoice, view.sel, view.forms>>
        <3> DEFINE v == OpsRefreshed(r, got)
        <3>1. /\ v.busy = view.busy /\ v.modal = view.modal /\ v.invoice = view.invoice
              /\ v.sel = view.sel /\ v.forms = view.forms /\ v \in OpsViews
          BY <1>0, <2>4 DEF OpsViews, OpsRefreshed
        <3> HIDE DEF v
        <3>2. PICK status \in Statuses :
                 view' = [v EXCEPT !.busy = @ \ {"page"}, !.status = status]
          <4>1. v.status \in Statuses
            BY <3>1 DEF OpsViews
          <4> QED BY <2>2, <4>1 DEF v, Statuses
        <3> QED BY <3>1, <3>2 DEF OpsViews
      <2>6. Frame(OpsRequests, OpsWrites)' /\ Covered'
        BY <1>0, <1>1, <2>1, <2>5, FrameAnswered DEF OpsLoaded, Moves, OpsWrites, OpsTabs
      <2> QED BY <1>0, <2>5, <2>6 DEF OpsInv, OpsKept
    <1>2. CASE OpsFound(r)
      <2>1. r.call = "search" /\ r.flag = "" /\ r.at \in Queries
        BY <1>0, <1>2 DEF OpsFound, Reads, Answered, OpsCall
      <2>2. OpsRefreshed(r, {"found"}) \in OpsViews
        BY <1>0, <2>1, OpsRefreshedTyped
      <2>3. /\ view' \in OpsViews /\ view'.busy = view.busy /\ "" \notin view.busy
            /\ UNCHANGED <<view.modal, view.invoice, view.sel, view.forms>>
        BY <1>0, <1>2, <2>2 DEF OpsFound, OpsViews, OpsRefreshed, OpsTabs
      <2>4. Frame(OpsRequests, OpsWrites)' /\ Covered'
        BY <1>0, <1>2, <2>1, <2>3, FrameAnswered DEF OpsFound, Moves
      <2> QED BY <1>0, <2>3, <2>4 DEF OpsInv, OpsKept
    <1> QED BY <1>1, <1>2

\* What the user does without a request.
LEMMA OpsQuietKeeps ==
    ASSUME OpsInv, Input, UNCHANGED net,
           \/ \E t \in OpsTabs : OpsTab(t)
           \/ \E f \in OpsTabs, d \in {"partial", "complete"} : OpsEdit(f, d)
           \/ OpsShortcut \/ \E i \in Items : OpsAskAction(i)
           \/ \E s \in {None, "bookings", "stays"} : OpsSheet(s)
           \/ view' = [view EXCEPT !.status = "error"]
           \/ view' = [view EXCEPT !.modal = None]
    PROVE  OpsInv'
    <1>1. /\ view \in OpsViews /\ Frame(OpsRequests, OpsWrites) /\ Covered
          /\ view.modal # None => "action" \notin view.busy
          /\ view.invoice \in {None, view.sel}
      BY OpsFacts
    <1> DEFINE Keeps == /\ view' \in OpsViews
                        /\ UNCHANGED <<view.busy, view.invoice, view.sel>>
                        /\ view'.modal # None => "action" \notin view.busy
    <1>2. ASSUME NEW t \in OpsTabs, OpsTab(t)
          PROVE  Keeps
      BY <1>1, <1>2 DEF OpsTab, OpsViews
    <1>3. ASSUME NEW f \in OpsTabs, NEW d \in {"partial", "complete"}, OpsEdit(f, d)
          PROVE  Keeps
      <2>1. [view.forms EXCEPT ![f] = d] \in [OpsTabs -> Drafts]
        BY <1>1 DEF OpsViews, Drafts
      <2> QED BY <1>1, <1>3, <2>1 DEF OpsEdit, OpsViews
    <1>4. ASSUME OpsShortcut
          PROVE  Keeps
      <2>1. [view.forms EXCEPT !["payment"] = "partial"] \in [OpsTabs -> Drafts]
        BY <1>1 DEF OpsViews, Drafts
      <2> QED BY <1>1, <1>4, <2>1 DEF OpsShortcut, OpsViews
    <1>5. ASSUME NEW i \in Items, OpsAskAction(i)
          PROVE  Keeps
      <2>1. i \in Targets /\ None \in {None, "bookings", "stays"} /\ "error" \in Statuses
        BY DEF Targets, Statuses
      <2>2. "action" \notin view.busy
        BY <1>5 DEF OpsAskAction
      <2>3. CASE view' = [view EXCEPT !.modal = i, !.sheet = None]
        BY <1>1, <2>1, <2>2, <2>3 DEF OpsViews
      <2>4. CASE view' = [view EXCEPT !.status = "error"]
        BY <1>1, <2>1, <2>4 DEF OpsViews
      <2> QED BY <1>5, <2>3, <2>4 DEF OpsAskAction
    <1>6. ASSUME NEW s \in {None, "bookings", "stays"}, OpsSheet(s)
          PROVE  Keeps
      BY <1>1, <1>6 DEF OpsSheet, OpsViews
    <1>7. ASSUME view' = [view EXCEPT !.status = "error"]
          PROVE  Keeps
      BY <1>1, <1>7 DEF OpsViews, Statuses
    <1>8. ASSUME view' = [view EXCEPT !.modal = None]
          PROVE  Keeps
      BY <1>1, <1>8 DEF OpsViews, Targets
    <1>9. Keeps
      BY <1>2, <1>3, <1>4, <1>5, <1>6, <1>7, <1>8
    <1>10. Frame(OpsRequests, OpsWrites)' /\ Covered'
      BY <1>1, <1>9, FrameQuiet DEF Moves
    <1> QED BY <1>1, <1>9, <1>10 DEF OpsInv, OpsKept

\* A search, a submit, a check-in or a check-out: what is sent.
LEMMA OpsAsked ==
    ASSUME NEW call \in {"search"} \cup OpsWrites, Unsent(call), NEW arg \in OpsSubjects,
           NEW at \in Queries
    PROVE  /\ call = "search" => /\ Keeping(Read(call, arg, ""), at) \in OpsRequests
                                 /\ Asks(Keeping(Read(call, arg, ""), at), "read", call, arg, at, "")
           /\ call \in OpsWrites =>
                /\ Keeping(Write(call, arg, call), at) \in OpsRequests
                /\ Asks(Keeping(Write(call, arg, call), at), "write", call, arg, at, call)
    <1>1. /\ None \in OpsSubjects /\ at \in OpsSubjects /\ call \in OpsCalls /\ "" \in OpsFlags
          /\ call \in OpsWrites => call \in OpsFlags
      BY DEF OpsSubjects, OpsCalls, OpsFlags, Targets
    <1>2. CASE call = "search"
      <2> DEFINE q == Keeping(Read(call, arg, ""), at)
      <2>1. q \in Requests(OpsSubjects, OpsCalls, OpsFlags) /\ Asks(q, "read", call, arg, at, "")
        BY <1>1, NewAsked
      <2> HIDE DEF q
      <2>2. q \in OpsRequests
        BY <1>2, <2>1 DEF OpsRequests, OpsCall, Asks, OpsWrites, OpsTabs
      <2> QED BY <1>2, <2>1, <2>2 DEF q, OpsWrites, OpsTabs
    <1>3. CASE call \in OpsWrites
      <2> DEFINE q == Keeping(Write(call, arg, call), at)
      <2>1. q \in Requests(OpsSubjects, OpsCalls, OpsFlags) /\ Asks(q, "write", call, arg, at, call)
        BY <1>1, <1>3, NewAsked
      <2> HIDE DEF q
      <2>2. q \in OpsRequests
        BY <1>3, <2>1 DEF OpsRequests, OpsCall, Asks, OpsWrites, OpsTabs
      <2> QED BY <1>3, <2>1, <2>2 DEF q, OpsWrites, OpsTabs
    <1> QED BY <1>2, <1>3

LEMMA OpsSendsKeep ==
    ASSUME OpsInv,
           \/ \E w \in Queries : OpsSearch(w)
           \/ \E f \in OpsTabs : OpsSubmit(f)
           \/ \E yes \in BOOLEAN : OpsConfirm(yes)
    PROVE  OpsInv'
    <1>1. /\ view \in OpsViews /\ Frame(OpsRequests, OpsWrites) /\ Covered
          /\ view.modal # None => "action" \notin view.busy
          /\ view.invoice \in {None, view.sel}
      BY OpsFacts
    <1>2. ASSUME NEW w \in Queries, OpsSearch(w)
          PROVE  OpsInv'
      <2>1. /\ view' \in OpsViews /\ "" \notin view.busy
            /\ UNCHANGED <<view.busy, view.modal, view.invoice, view.sel>>
        BY <1>1, <1>2 DEF OpsSearch, OpsViews, OpsTabs
      <2>2. CASE "view" \in view.may
        <3> DEFINE q == Keeping(Read("search", w, ""), w)
        <3>1. q \in OpsRequests /\ Asks(q, "read", "search", w, w, "")
          BY <1>2, <2>2, OpsAsked DEF OpsSearch, OpsSubjects
        <3>2. Sends({}, {q}) /\ Moves
          BY <1>2, <2>2 DEF OpsSearch, Moves
        <3> HIDE DEF q
        <3>3. Frame(OpsRequests, OpsWrites)' /\ Covered'
          <4>1. q.kind # "write" /\ q.flag \notin OpsWrites
            BY <3>1 DEF Asks, OpsWrites, OpsTabs
          <4>2. view'.busy = view.busy
            BY <2>1
          <4> QED BY <1>1, <3>1, <3>2, <4>1, <4>2, FrameSent
        <3> QED BY <1>1, <2>1, <3>3 DEF OpsInv, OpsKept
      <2>3. CASE "view" \notin view.may
        <3>1. UNCHANGED net /\ Moves
          BY <1>2, <2>3 DEF OpsSearch, Sends, Moves
        <3>2. Frame(OpsRequests, OpsWrites)' /\ Covered'
          BY <1>1, <2>1, <3>1, FrameQuiet
        <3> QED BY <1>1, <2>1, <3>2 DEF OpsInv, OpsKept
      <2> QED BY <2>2, <2>3
    <1>3. ASSUME NEW f \in OpsTabs, OpsSubmit(f)
          PROVE  OpsInv'
      <2>1. CASE "create" \in view.may /\ OpsValid(f)
        <3> DEFINE arg == IF f = "payment" THEN view.invoice ELSE f
                   q == Keeping(Write(f, arg, f), view.word)
        <3>1. /\ view' \in OpsViews /\ view'.busy = view.busy \cup {f} /\ f \notin view.busy
              /\ UNCHANGED <<view.modal, view.invoice, view.sel>>
              /\ view'.modal # None => "action" \notin view'.busy
          <4>1. /\ view' = [view EXCEPT !.busy = @ \cup {f}, !.status = "none"]
                /\ f \notin view.busy /\ f # "action"
            BY <1>3, <2>1 DEF OpsSubmit, OpsTabs
          <4> QED BY <1>1, <4>1 DEF OpsViews, Statuses
        <3>2. arg \in OpsSubjects /\ view.word \in Queries /\ MayWrite(f) /\ Unsent(f)
          BY <1>1, <1>3, <2>1 DEF OpsSubmit, OpsViews, OpsSubjects, MayWrite
        <3>3. q \in OpsRequests /\ Asks(q, "write", f, arg, view.word, f)
          <4> HIDE DEF arg
          <4> QED BY <3>2, OpsAsked DEF OpsWrites
        <3>4. Sends({}, {q}) /\ Moves
          BY <1>3, <2>1 DEF OpsSubmit, Moves
        <3> HIDE DEF q
        <3>5. Frame(OpsRequests, OpsWrites)' /\ Covered'
          BY <1>1, <3>1, <3>2, <3>3, <3>4, FrameSent DEF Asks
        <3> QED BY <1>1, <3>1, <3>5 DEF OpsInv, OpsKept
      <2>2. CASE ~("create" \in view.may /\ OpsValid(f))
        <3>1. view' = [view EXCEPT !.status = "error"] /\ UNCHANGED net /\ Input
          BY <1>3, <2>2 DEF OpsSubmit
        <3> QED BY <3>1, OpsQuietKeeps
      <2> QED BY <2>1, <2>2
    <1>4. ASSUME NEW yes \in BOOLEAN, OpsConfirm(yes)
          PROVE  OpsInv'
      <2>1. CASE yes
        <3> DEFINE q == Keeping(Write("action", view.modal, "action"), view.word)
        <3>1. /\ view' \in OpsViews /\ view'.busy = view.busy \cup {"action"}
              /\ "action" \notin view.busy /\ view'.modal = None
              /\ UNCHANGED <<view.invoice, view.sel>>
          <4>1. /\ view' = [view EXCEPT !.modal = None, !.busy = @ \cup {"action"},
                                       !.status = "none"]
                /\ view.modal # None
            BY <1>4, <2>1 DEF OpsConfirm
          <4> QED BY <1>1, <4>1 DEF OpsViews, Statuses, Targets
        <3>2. /\ view.modal \in OpsSubjects /\ view.word \in Queries
              /\ MayWrite("action") /\ Unsent("action")
          BY <1>1, <1>4, <2>1 DEF OpsConfirm, OpsViews, OpsSubjects, MayWrite
        <3>3. q \in OpsRequests /\ Asks(q, "write", "action", view.modal, view.word, "action")
          BY <3>2, OpsAsked DEF OpsWrites
        <3>4. Sends({}, {q}) /\ Moves
          BY <1>4, <2>1 DEF OpsConfirm, Moves
        <3> HIDE DEF q
        <3>5. Frame(OpsRequests, OpsWrites)' /\ Covered'
          BY <1>1, <3>1, <3>2, <3>3, <3>4, FrameSent DEF Asks
        <3> QED BY <1>1, <3>1, <3>5 DEF OpsInv, OpsKept
      <2>2. CASE ~yes
        <3>1. view' = [view EXCEPT !.modal = None] /\ UNCHANGED net /\ Input
          BY <1>4, <2>2 DEF OpsConfirm
        <3> QED BY <3>1, OpsQuietKeeps
      <2> QED BY <2>1, <2>2
    <1> QED BY <1>2, <1>3, <1>4

\* The answer to a form or to an action, and the lists read after it.
LEMMA OpsPostedKeeps ==
    ASSUME OpsInv, NEW r \in net, OpsPosted(r)
    PROVE  OpsInv' /\ view'.forms = view.forms
    <1>1. /\ view \in OpsViews /\ Frame(OpsRequests, OpsWrites) /\ Covered
          /\ r \in Requests(OpsSubjects, OpsCalls, OpsFlags) /\ OpsCall(r)
          /\ view.modal # None => "action" \notin view.busy
          /\ view.invoice \in {None, view.sel}
      BY OpsFacts
    <1>2. r.call \in OpsWrites /\ r.flag = r.call /\ r.at \in Queries /\ Moves
      BY <1>1 DEF OpsPosted, Wrote, Answered, OpsCall, OpsWrites, OpsTabs, Moves
    <1>3. CASE r.step = "served"
      <2>1. /\ Sends({r}, {Reread(r)}) /\ view' = view
        BY <1>3 DEF OpsPosted
      <2>2. /\ Reread(r) \in Requests(OpsSubjects, OpsCalls, OpsFlags)
            /\ Asks(Reread(r), "read", r.call, r.arg, r.at, r.flag)
        BY <1>1, AskedAgain
      <2> DEFINE q == Reread(r)
      <2> HIDE DEF q
      <2>3. q \in OpsRequests /\ q.kind = "read" /\ q.flag = r.flag
        BY <1>2, <2>2 DEF q, OpsRequests, OpsCall, Asks, OpsWrites, OpsTabs
      <2>4. Frame(OpsRequests, OpsWrites)' /\ Covered'
        BY <1>1, <1>2, <2>1, <2>3, FrameReread DEF q
      <2> QED BY <1>1, <2>1, <2>4 DEF OpsInv, OpsKept
    <1>4. CASE r.step # "served"
      <2>1. /\ Sends({r}, {})
            /\ view' = [view EXCEPT !.busy = @ \ {r.flag}, !.status = "error"]
        BY <1>4 DEF OpsPosted
      <2>2. /\ view' \in OpsViews /\ view'.busy = view.busy \ {r.flag}
            /\ UNCHANGED <<view.modal, view.invoice, view.sel, view.forms>>
        BY <1>1, <2>1 DEF OpsViews, Statuses
      <2>3. Frame(OpsRequests, OpsWrites)' /\ Covered'
        BY <1>1, <1>2, <2>1, <2>2, FrameAnswered
      <2> QED BY <1>1, <2>2, <2>3 DEF OpsInv, OpsKept
    <1> QED BY <1>3, <1>4

LEMMA OpsAfterKeeps ==
    ASSUME OpsInv, NEW r \in net, OpsRefreshedAfter(r)
    PROVE  /\ OpsInv'
           /\ r \in net \ net' /\ r.step # "sent"
           /\ \A f \in OpsTabs : view'.forms[f] = view.forms[f] \/ (r.flag = f /\ r.step # "failed")
    <1>1. /\ view \in OpsViews /\ Frame(OpsRequests, OpsWrites) /\ Covered
          /\ r \in Requests(OpsSubjects, OpsCalls, OpsFlags) /\ OpsCall(r)
          /\ r.step \in Steps /\ r.saw \in Versions
          /\ view.modal # None => "action" \notin view.busy
          /\ view.invoice \in {None, view.sel}
      BY OpsFacts
    <1>2. /\ r.call \in OpsWrites /\ r.flag = r.call /\ r.at \in Queries /\ Moves
          /\ r.step # "sent"
      BY <1>1 DEF OpsRefreshedAfter, Reads, Answered, OpsCall, OpsWrites, OpsTabs, Moves
    <1>3. PICK got \in OpsGot(r) :
             LET v == [OpsRefreshed(r, got) EXCEPT
                       !.busy = @ \ {r.flag},
                       !.status = CASE r.step = "failed" -> "error"
                                    [] r.step = "partly" -> "warning"
                                    [] OTHER -> "none"]
             IN view' = IF r.flag \in OpsTabs /\ r.step # "failed"
                        THEN OpsReset(v, r.flag) ELSE v
      BY DEF OpsRefreshedAfter
    <1> DEFINE v == [OpsRefreshed(r, got) EXCEPT
                       !.busy = @ \ {r.flag},
                       !.status = CASE r.step = "failed" -> "error"
                                    [] r.step = "partly" -> "warning"
                                    [] OTHER -> "none"]
               resets == r.flag \in OpsTabs /\ r.step # "failed"
    <1>4. view' = IF resets THEN OpsReset(v, r.flag) ELSE v
      BY <1>3
    <1>5. /\ v \in OpsViews /\ v.busy = view.busy \ {r.flag}
          /\ v.modal = view.modal /\ v.invoice = view.invoice /\ v.sel = view.sel
          /\ v.forms = view.forms
      <2> DEFINE u == OpsRefreshed(r, got)
                 status == CASE r.step = "failed" -> "error"
                             [] r.step = "partly" -> "warning"
                             [] OTHER -> "none"
      <2>1. got \in SUBSET {"found", "lists"}
        BY <1>3 DEF OpsGot
      <2>2. /\ u.busy = view.busy /\ u.modal = view.modal /\ u.invoice = view.invoice
            /\ u.sel = view.sel /\ u.forms = view.forms
        BY <1>1 DEF OpsViews, OpsRefreshed
      <2>3. u \in OpsViews
        BY <1>1, <1>2, <2>1, OpsRefreshedTyped
      <2>4. status \in Statuses
        BY DEF Statuses
      <2>5. v = [u EXCEPT !.busy = @ \ {r.flag}, !.status = status]
        OBVIOUS
      <2> HIDE DEF u, status, v
      <2> QED BY <2>2, <2>3, <2>4, <2>5 DEF OpsViews
    <1> HIDE DEF v
    <1>6. /\ view' \in OpsViews /\ view'.busy = v.busy /\ view'.modal = v.modal
          /\ \A f \in OpsTabs : view'.forms[f] = v.forms[f] \/ (r.flag = f /\ r.step # "failed")
          /\ view'.invoice \in {None, view'.sel}
      <2>1. CASE resets
        <3>1. [v.forms EXCEPT ![r.flag] = "blank"] \in [OpsTabs -> Drafts]
          BY <1>5 DEF OpsViews, Drafts
        <3>2. v.invoice \in {None, v.sel}
          BY <1>1, <1>5
        <3>3. /\ OpsReset(v, r.flag) \in OpsViews
              /\ OpsReset(v, r.flag).busy = v.busy /\ OpsReset(v, r.flag).modal = v.modal
              /\ OpsReset(v, r.flag).forms = [v.forms EXCEPT ![r.flag] = "blank"]
          BY <1>5, <2>1, <3>1 DEF OpsReset, OpsViews, Targets
        <3>4. OpsReset(v, r.flag).invoice \in {None, OpsReset(v, r.flag).sel}
          BY <1>5, <3>2 DEF OpsReset, OpsViews
        <3>5. \A f \in OpsTabs : f # r.flag => [v.forms EXCEPT ![r.flag] = "blank"][f] = v.forms[f]
          BY <1>5 DEF OpsViews
        <3> QED BY <1>4, <2>1, <3>3, <3>4, <3>5
      <2>2. CASE ~resets
        BY <1>1, <1>4, <1>5, <2>2
      <2> QED BY <2>1, <2>2
    <1> DEFINE gone == {r} \cup (IF r.flag = "payment" /\ r.step # "failed" THEN OpsDueReads ELSE {})
               extra == {}
    <1>7. Sends(gone, extra) /\ gone \in SUBSET net /\ extra \in SUBSET OpsRequests
      BY DEF OpsRefreshedAfter, OpsDueReads
    <1>8. \A g \in gone : g = r \/ g.flag = "due"
      <2>1. \A g \in OpsDueReads : g.flag = "due"
        BY OpsFacts DEF OpsDueReads, OpsCall
      <2> QED BY <2>1
    <1>9. /\ \A x \in extra : x.kind = "read" /\ x.flag \notin OpsWrites
          /\ view'.busy \subseteq view.busy
          /\ \A g \in gone : g.flag \notin view'.busy \ {"due"}
          /\ \A f \in OpsWrites : f \in view.busy /\ f \notin view'.busy => \E g \in gone : g.flag = f
      BY <1>5, <1>6, <1>8
    <1>10. r \in gone
      OBVIOUS
    <1> HIDE DEF gone, extra
    <1>11. Frame(OpsRequests, OpsWrites)' /\ Covered'
      BY <1>1, <1>2, <1>7, <1>9, FrameEnded
    <1>12. r \in net \ net'
      BY <1>7, <1>10 DEF Sends, extra
    <1>13. view'.modal # None => "action" \notin view'.busy
      BY <1>1, <1>5, <1>6
    <1>14. \A f \in OpsTabs : view'.forms[f] = view.forms[f] \/ (r.flag = f /\ r.step # "failed")
      BY <1>5, <1>6
    <1> QED BY <1>2, <1>6, <1>11, <1>12, <1>13, <1>14 DEF OpsInv, OpsKept

\* The attachment of a payment, and its due.
LEMMA OpsDueKeeps ==
    ASSUME OpsInv, NEW r \in net, OpsDue(r)
    PROVE  OpsInv' /\ view'.forms = view.forms
    <1>1. /\ view \in OpsViews /\ Frame(OpsRequests, OpsWrites) /\ Covered /\ OpsCall(r)
          /\ view.modal # None => "action" \notin view.busy
          /\ view.invoice \in {None, view.sel}
      BY OpsFacts
    <1>2. r.flag = "due" /\ r.arg \in Targets /\ Sends({r}, {}) /\ Moves
      BY <1>1 DEF OpsDue, Reads, Answered, OpsCall, Moves
    <1>3. PICK open \in BOOLEAN :
             view' = IF r.step = "served"
                  THEN [view EXCEPT !.due = r.arg, !.busy = @ \ {"due"},
                                    !.invoice = IF view.sel # r.arg THEN @
                                                ELSE IF open THEN r.arg ELSE None]
                  ELSE [view EXCEPT !.due = None, !.busy = @ \ {"due"}]
      BY DEF OpsDue
    <1>4. /\ view' \in OpsViews /\ view'.busy = view.busy \ {"due"}
          /\ UNCHANGED <<view.modal, view.sel, view.forms>>
          /\ view'.invoice \in {None, view'.sel}
      BY <1>1, <1>2, <1>3 DEF OpsViews, Targets
    <1>5. Frame(OpsRequests, OpsWrites)' /\ Covered'
      BY <1>1, <1>2, <1>4, FrameAnswered DEF OpsWrites, OpsTabs
    <1> QED BY <1>1, <1>4, <1>5 DEF OpsInv, OpsKept

LEMMA OpsAttachmentKeeps ==
    ASSUME OpsInv, NEW i \in Targets, OpsAttach(i)
    PROVE  OpsInv'
    <1>1. /\ view \in OpsViews /\ Frame(OpsRequests, OpsWrites) /\ Covered
          /\ \A r \in net : OpsCall(r)
          /\ view.modal # None => "action" \notin view.busy
      BY OpsFacts
    <1>2. Moves /\ "due" \notin OpsWrites
      BY DEF OpsAttach, Moves, OpsWrites, OpsTabs
    <1>3. \A g \in OpsDueReads : g \in net /\ g.flag = "due"
      BY <1>1 DEF OpsDueReads, OpsCall
    <1>4. /\ view' \in OpsViews /\ UNCHANGED view.modal
          /\ view'.busy = (IF i = None THEN view.busy ELSE view.busy \cup {"due"})
          /\ view'.invoice = None
      BY <1>1 DEF OpsAttach, OpsViews, Targets
    <1>5. CASE i = None
      <2> DEFINE extra == {}
      <2>1. Sends(OpsDueReads, extra) /\ extra \in SUBSET OpsRequests
        BY <1>5 DEF OpsAttach, Sends
      <2>2. /\ \A x \in extra : x.kind = "read" /\ x.flag \notin OpsWrites
            /\ view'.busy \subseteq view.busy
            /\ \A g \in OpsDueReads : g.flag \notin view'.busy \ {"due"}
            /\ \A f \in OpsWrites : f \in view.busy /\ f \notin view'.busy
                                     => \E g \in OpsDueReads : g.flag = f
        BY <1>3, <1>4, <1>5
      <2>3. OpsDueReads \in SUBSET net
        BY <1>3
      <2> HIDE DEF extra
      <2>4. Frame(OpsRequests, OpsWrites)' /\ Covered'
        BY <1>1, <1>2, <2>1, <2>2, <2>3, FrameEnded
      <2> QED BY <1>1, <1>4, <1>5, <2>4 DEF OpsInv, OpsKept
    <1>6. CASE i # None
      <2> DEFINE q == Request("read", "due", i, "due", 1)
                 sent == {q}
      <2>1. q \in OpsRequests /\ Asks(q, "read", "due", i, None, "due")
        <3>1. /\ None \in OpsSubjects /\ i \in OpsSubjects /\ "due" \in OpsCalls
              /\ "due" \in OpsFlags
          BY DEF OpsSubjects, OpsCalls, OpsFlags, Targets
        <3>2. /\ q \in Requests(OpsSubjects, OpsCalls, OpsFlags)
              /\ Asks(q, "read", "due", i, None, "due")
          BY <3>1, FirstAsked
        <3> HIDE DEF q
        <3> QED BY <3>2 DEF OpsRequests, OpsCall, Asks, OpsWrites, OpsTabs
      <2>2. Sends(OpsDueReads, sent)
        BY <1>6 DEF OpsAttach, Sends
      <2> HIDE DEF q
      <2>3. /\ sent \in SUBSET OpsRequests /\ q \in sent /\ q.flag = "due"
            /\ \A x \in sent : x.kind = "read" /\ (x = q \/ x.flag \notin OpsWrites)
        BY <2>1 DEF Asks
      <2> HIDE DEF sent
      <2>4. /\ OpsDueReads \in SUBSET net
            /\ view'.busy \subseteq view.busy \cup {q.flag}
            /\ \A g \in OpsDueReads : g.flag \in view'.busy \ {"due"} => g.flag = q.flag
        BY <1>3, <1>4, <2>3
      <2>5. \A f \in OpsWrites : f \in view.busy /\ f \notin view'.busy
                                 => \E g \in OpsDueReads : g.flag = f
        BY <1>4
      <2>6. q.flag \in OpsWrites => /\ q.flag \in view'.busy
                                    /\ q.flag \in view.busy
                                        => \E g \in OpsDueReads : g.flag = q.flag
        BY <1>2, <2>3
      <2>7. Frame(OpsRequests, OpsWrites)' /\ Covered'
        BY <1>1, <1>2, <2>2, <2>3, <2>4, <2>5, <2>6, FrameFollowed
      <2>8. view'.modal # None => "action" \notin view'.busy
        BY <1>1, <1>4
      <2> QED BY <1>4, <2>7, <2>8 DEF OpsInv, OpsKept
    <1> QED BY <1>5, <1>6

LEMMA OpsStep ==
    ASSUME OpsInv, OpsNext
    PROVE  OpsInv'
    <1>1. CASE OpsArrival
      BY <1>1, OpsListsKeep, OpsPostedKeeps, OpsAfterKeeps, OpsDueKeeps DEF OpsArrival
    <1>2. ASSUME NEW t \in OpsTabs, OpsTab(t)
          PROVE  OpsInv'
      BY <1>2, OpsQuietKeeps DEF OpsTab
    <1>3. ASSUME NEW f \in OpsTabs, OpsForm(f)
          PROVE  OpsInv'
      <2>1. CASE OpsSubmit(f)
        BY <2>1, OpsSendsKeep
      <2>2. ASSUME NEW d \in {"partial", "complete"}, OpsEdit(f, d)
            PROVE  OpsInv'
        BY <2>2, OpsQuietKeeps DEF OpsEdit
      <2> QED BY <1>3, <2>1, <2>2 DEF OpsForm
    <1>4. CASE OpsShortcut
      BY <1>4, OpsQuietKeeps DEF OpsShortcut
    <1>5. CASE OpsAttachments
      BY <1>5, OpsAttachmentKeeps DEF OpsAttachments
    <1>6. ASSUME NEW i \in Items, OpsAskAction(i)
          PROVE  OpsInv'
      BY <1>6, OpsQuietKeeps DEF OpsAskAction
    <1>7. ASSUME NEW s \in {None, "bookings", "stays"}, OpsSheet(s)
          PROVE  OpsInv'
      BY <1>7, OpsQuietKeeps DEF OpsSheet
    <1>8. ASSUME NEW w \in Queries, OpsSearch(w)
          PROVE  OpsInv'
      BY <1>8, OpsSendsKeep
    <1>9. ASSUME NEW yes \in BOOLEAN, OpsConfirm(yes)
          PROVE  OpsInv'
      BY <1>9, OpsSendsKeep
    <1>10. CASE OpsBookingPanel \/ OpsStayPanel \/ OpsDayUsePanel \/ OpsPaymentPanel
      BY <1>10, <1>3, <1>4 DEF OpsBookingPanel, OpsStayPanel, OpsDayUsePanel, OpsPaymentPanel, OpsTabs
    <1>11. CASE OpsStaysBand \/ OpsBookingsSheet \/ OpsStaysSheet
      BY <1>11, <1>6, <1>7, <1>8 DEF OpsStaysBand, OpsBookingsSheet, OpsStaysSheet, OpsButtons
    <1> QED BY <1>1, <1>2, <1>5, <1>9, <1>10, <1>11 DEF OpsNext

LEMMA OpsServed ==
    ASSUME OpsInv, NEW groups, Network(groups)
    PROVE  OpsInv' /\ UNCHANGED <<view, inputs>>
    <1>1. /\ OpsRequests \in SUBSET Requests(OpsSubjects, OpsCalls, OpsFlags)
          /\ Unanswered(OpsRequests)
      BY DEF OpsRequests, Unanswered, OpsCall, Requests
    <1>2. Frame(OpsRequests, OpsWrites)' /\ Covered' /\ UNCHANGED <<view, inputs>>
      BY <1>1, FrameServed DEF OpsInv, OpsKept
    <1> QED BY <1>2 DEF OpsInv, OpsKept

LEMMA OpsStutters ==
    ASSUME OpsInv, UNCHANGED screen
    PROVE  OpsInv'
    <1>1. Frame(OpsRequests, OpsWrites)' /\ Covered' /\ UNCHANGED view
      BY FrameStutters DEF OpsInv, OpsKept, screen
    <1> QED BY <1>1 DEF OpsInv, OpsKept

\* A form is emptied by its own answer alone, but for what the user does.
LEMMA OpsDrafts ==
    ASSUME OpsInv, OpsNext, inputs' = inputs, NEW f \in OpsTabs, view'.forms[f] # view.forms[f]
    PROVE  \E r \in net \ net' : r.flag = f /\ r.step \in {"served", "partly"}
    <1>1. ~Input
      <2>1. inputs \in Nat
        BY DEF OpsInv, OpsKept, Frame
      <2> QED BY <2>1 DEF Input
    <1>2. OpsArrival
      BY <1>1 DEF OpsNext, OpsTab, OpsBookingPanel, OpsStayPanel, OpsDayUsePanel, OpsPaymentPanel,
         OpsForm, OpsSubmit, OpsEdit, OpsShortcut, OpsAttachments, OpsAttach, OpsStaysBand,
         OpsBookingsSheet, OpsStaysSheet, OpsButtons, OpsAskAction, OpsSheet, OpsSearch, OpsConfirm
    <1>3. PICK r \in net : OpsRefreshedAfter(r)
      BY <1>2, OpsListsKeep, OpsPostedKeeps, OpsDueKeeps DEF OpsArrival
    <1>4. r \in net \ net' /\ r.flag = f /\ r.step \notin {"sent", "failed"}
      BY <1>3, OpsAfterKeeps
    <1>5. r.step \in Steps
      BY OpsFacts
    <1> QED BY <1>4, <1>5 DEF Steps

-----------------------------------------------------------------------------
(* The rooms *)

RoomsSubjects == Targets \cup {NoWord}
RoomsCalls == {"load"} \cup RoomsWrites
RoomsLocks == RoomsForms \cup {"action"}
RoomsFlags == {"", "page"} \cup RoomsLocks
RoomsFlagged(call, flag) ==
    /\ call = "load" => flag = "page"
    /\ call \in {"room_create", "room_update", "room_active"} => flag = "room"
    /\ call \in RoomsActs <=> flag = "action"
    /\ call \in {"type", "type_off"} => flag = "type"
    /\ call \in {"incident", "resolve"} => flag = "incident"
    /\ call = "rule" => flag = "rule"
    /\ call = "task" => flag = ""
RoomsCall(r) ==
    /\ RoomsFlagged(r.call, r.flag)
    /\ r.call = "load" => r.kind = "read"
    /\ r.call \in RoomsWrites => r.arg \in Targets
RoomsRequests == {r \in Requests(RoomsSubjects, RoomsCalls, RoomsFlags) : RoomsCall(r)}

RoomsKept ==
    /\ view \in RoomsViews /\ Frame(RoomsRequests, RoomsLocks)
    /\ view.acting = None => "action" \notin view.busy
RoomsInv == RoomsKept /\ Covered

LEMMA RoomsStart ==
    ASSUME RoomsInit
    PROVE  RoomsInv
    <1>1. PICK may \in Profiles :
        /\ view = [page |-> "rooms", may |-> may, tab |-> "overview", drawer |-> FALSE,
                   create |-> FALSE, sel |-> None, holds |-> None, kind |-> None,
                   forms |-> [f \in RoomsForms |-> "blank"], resolving |-> None,
                   acting |-> None, loaded |-> FALSE, busy |-> {"page"}, lists |-> 0,
                   status |-> "none"]
        /\ net = Mounted({"load"}, "page")
        /\ Start
      BY DEF RoomsInit
    <1> DEFINE q == Request("read", "load", NoWord, "page", 1)
    <1>2. net = {q}
      BY <1>1 DEF Mounted
    <1>3. q \in RoomsRequests /\ q.kind = "read" /\ q.flag = "page"
      <2>1. /\ None \in RoomsSubjects /\ NoWord \in RoomsSubjects /\ "load" \in RoomsCalls
            /\ "page" \in RoomsFlags
        BY DEF RoomsSubjects, RoomsCalls, RoomsFlags, Targets
      <2>2. /\ q \in Requests(RoomsSubjects, RoomsCalls, RoomsFlags)
            /\ Asks(q, "read", "load", NoWord, None, "page")
        BY <2>1, FirstAsked
      <2> HIDE DEF q
      <2> QED BY <2>2 DEF RoomsRequests, RoomsCall, RoomsFlagged, Asks, RoomsWrites, RoomsActs
    <1> HIDE DEF q
    <1>4. Frame(RoomsRequests, RoomsLocks)
      <2>1. "page" \notin RoomsLocks
        BY DEF RoomsLocks, RoomsForms
      <2>2. net \subseteq RoomsRequests /\ \A r \in net : r.kind = "read" /\ r.flag \notin RoomsLocks
        BY <1>2, <1>3, <2>1
      <2> QED BY <1>1, <2>2, FrameStart
    <1>5. view \in RoomsViews
      <2>1. 0 \in Versions
        BY MaxWritesNat DEF Versions
      <2>2. [f \in RoomsForms |-> "blank"] \in [RoomsForms -> Drafts]
        BY DEF Drafts
      <2> QED BY <1>1, <2>1, <2>2 DEF RoomsViews, RoomsTabs, Targets
    <1>6. Covered
      BY <1>1, <1>2, <1>3 DEF Covered, HasRequest
    <1> QED BY <1>1, <1>4, <1>5, <1>6 DEF RoomsInv, RoomsKept

LEMMA RoomsFacts ==
    ASSUME RoomsInv
    PROVE  /\ view \in RoomsViews /\ Frame(RoomsRequests, RoomsLocks) /\ Covered
           /\ \A r \in net : /\ r \in Requests(RoomsSubjects, RoomsCalls, RoomsFlags)
                             /\ RoomsCall(r) /\ r.step \in Steps /\ r.saw \in Versions
                             /\ r.call \in RoomsCalls
           /\ view.acting = None => "action" \notin view.busy
    <1>1. \A r \in net : r \in Requests(RoomsSubjects, RoomsCalls, RoomsFlags) /\ RoomsCall(r)
      BY DEF RoomsInv, RoomsKept, Frame, RoomsRequests
    <1> QED BY <1>1 DEF RoomsInv, RoomsKept, Requests

\* What the user does without a request, and the message that goes.
LEMMA RoomsQuietKeeps ==
    ASSUME RoomsInv,
           \/ \E t \in RoomsTabs : RoomsTab(t)
           \/ \E f \in RoomsForms, d \in {"partial", "complete"} : RoomsEdit(f, d)
           \/ \E i \in Items : RoomsOpen(i) \/ RoomsSelectType(i)
           \/ \E i \in Targets : RoomsResolving(i)
           \/ RoomsClose \/ RoomsToggleCreate \/ RoomsForget
    PROVE  RoomsInv'
    <1>1. /\ view \in RoomsViews /\ Frame(RoomsRequests, RoomsLocks) /\ Covered
          /\ view.acting = None => "action" \notin view.busy
      BY RoomsFacts
    <1> DEFINE Keeps == /\ view' \in RoomsViews /\ view'.busy = view.busy
                        /\ view'.acting = view.acting
    <1>2. UNCHANGED net /\ Moves
      BY DEF RoomsTab, RoomsEdit, RoomsOpen, RoomsSelectType, RoomsResolving, RoomsClose,
             RoomsToggleCreate, RoomsForget, Moves
    <1>3. ASSUME NEW f \in RoomsForms, NEW d \in Drafts
          PROVE  [view.forms EXCEPT ![f] = d] \in [RoomsForms -> Drafts]
      BY <1>1 DEF RoomsViews
    <1>4. /\ {"room", "type"} \subseteq RoomsForms /\ {"blank", "partial", "complete"} \subseteq Drafts
      BY DEF RoomsForms, Drafts
    <1>5. ASSUME NEW t \in RoomsTabs, RoomsTab(t)
          PROVE  Keeps
      BY <1>1, <1>5 DEF RoomsTab, RoomsViews
    <1>6. ASSUME NEW f \in RoomsForms, NEW d \in {"partial", "complete"}, RoomsEdit(f, d)
          PROVE  Keeps
      <2>1. view' = [view EXCEPT !.forms[f] = d]
        BY <1>6 DEF RoomsEdit
      <2> QED BY <1>1, <1>3, <1>4, <2>1 DEF RoomsViews
    <1>7. ASSUME NEW i \in Items, RoomsOpen(i)
          PROVE  Keeps
      <2>1. [view.forms EXCEPT !["room"] = "complete"] \in [RoomsForms -> Drafts]
        BY <1>3, <1>4
      <2> QED BY <1>1, <1>7, <2>1 DEF RoomsOpen, RoomsViews, Targets
    <1>8. ASSUME NEW i \in Items, RoomsSelectType(i)
          PROVE  Keeps
      <2>1. [view.forms EXCEPT !["type"] = "complete"] \in [RoomsForms -> Drafts]
        BY <1>3, <1>4
      <2> QED BY <1>1, <1>8, <2>1 DEF RoomsSelectType, RoomsViews, Targets
    <1>9. ASSUME NEW i \in Targets, RoomsResolving(i)
          PROVE  Keeps
      BY <1>1, <1>9 DEF RoomsResolving, RoomsViews
    <1>10. ASSUME RoomsClose \/ RoomsForget
           PROVE  Keeps
      BY <1>1, <1>10 DEF RoomsClose, RoomsForget, RoomsViews
    <1>11. ASSUME RoomsToggleCreate
           PROVE  Keeps
      <2>1. [view.forms EXCEPT !["room"] = "blank"] \in [RoomsForms -> Drafts]
        BY <1>3, <1>4
      <2> QED BY <1>1, <1>11, <2>1 DEF RoomsToggleCreate, RoomsViews, Targets
    <1>12. Keeps
      BY <1>5, <1>6, <1>7, <1>8, <1>9, <1>10, <1>11
    <1>13. Frame(RoomsRequests, RoomsLocks)' /\ Covered'
      BY <1>1, <1>2, <1>12, FrameQuiet
    <1> QED BY <1>1, <1>12, <1>13 DEF RoomsInv, RoomsKept

\* A write is sent under a flag that is not up.
LEMMA RoomsSendKeeps ==
    ASSUME RoomsInv, NEW call \in RoomsWrites, NEW arg \in Targets, NEW flag \in RoomsFlags,
           RoomsFlagged(call, flag), flag \notin view.busy, MayWrite(call), Input,
           Sends({}, {Keeping(Write(call, arg, flag), view.sel)}),
           view' \in RoomsViews, view'.busy = view.busy \cup ({flag} \ {""}),
           \/ view'.acting = view.acting /\ flag # "action"
           \/ view'.acting # None
    PROVE  RoomsInv'
    <1>1. /\ view \in RoomsViews /\ Frame(RoomsRequests, RoomsLocks) /\ Covered
          /\ view.acting = None => "action" \notin view.busy
      BY RoomsFacts
    <1> DEFINE q == Keeping(Write(call, arg, flag), view.sel)
    <1>2. /\ None \in RoomsSubjects /\ arg \in RoomsSubjects /\ view.sel \in RoomsSubjects
          /\ call \in RoomsCalls /\ call # "load" /\ Unsent(call)
      BY <1>1 DEF RoomsSubjects, RoomsCalls, RoomsViews, Targets, RoomsWrites, RoomsActs, MayWrite
    <1>3. /\ q \in Requests(RoomsSubjects, RoomsCalls, RoomsFlags)
          /\ Asks(q, "write", call, arg, view.sel, flag)
      BY <1>2, NewAsked
    <1>4. Sends({}, {q}) /\ Moves
      BY DEF Moves
    <1> HIDE DEF q
    <1>5. q \in RoomsRequests /\ q.flag = flag /\ q.call = call
      BY <1>2, <1>3 DEF RoomsRequests, RoomsCall, Asks
    <1>6. "" \notin RoomsLocks
      BY DEF RoomsLocks, RoomsForms
    <1>7. /\ view'.busy \subseteq view.busy \cup {q.flag} /\ view.busy \subseteq view'.busy
          /\ q.flag \in RoomsLocks => q.flag \in view'.busy /\ q.flag \notin view.busy
          /\ MayWrite(q.call)
      BY <1>5, <1>6
    <1>8. Frame(RoomsRequests, RoomsLocks)' /\ Covered'
      BY <1>1, <1>4, <1>5, <1>7, FrameSent
    <1> QED BY <1>1, <1>8 DEF RoomsInv, RoomsKept

LEMMA RoomsRunKeeps ==
    ASSUME RoomsInv, NEW call \in RoomsWrites, NEW arg \in Targets, NEW flag \in RoomsFlags,
           RoomsFlagged(call, flag), flag \notin view.busy, flag # "action", RoomsRun(call, arg, flag)
    PROVE  RoomsInv'
    <1>1. view \in RoomsViews
      BY RoomsFacts
    <1>2. /\ MayWrite(call) /\ Input /\ Sends({}, {Keeping(Write(call, arg, flag), view.sel)})
          /\ view' = [view EXCEPT !.busy = @ \cup ({flag} \ {""})]
      BY DEF RoomsRun
    <1>3. /\ view' \in RoomsViews /\ view'.busy = view.busy \cup ({flag} \ {""})
          /\ view'.acting = view.acting
      BY <1>1, <1>2 DEF RoomsViews, RoomsFlags, RoomsLocks
    <1> QED BY <1>2, <1>3, RoomsSendKeeps

LEMMA RoomsActKeeps ==
    ASSUME RoomsInv, NEW call \in RoomsActs, NEW i \in Items, RoomsAct(call, i)
    PROVE  RoomsInv'
    <1>1. view \in RoomsViews /\ (view.acting = None => "action" \notin view.busy)
      BY RoomsFacts
    <1>2. /\ MayWrite(call) /\ Input /\ Sends({}, {Keeping(Write(call, i, "action"), view.sel)})
          /\ view' = [view EXCEPT !.acting = i, !.busy = @ \cup {"action"}]
          /\ "action" \notin view.busy
      BY <1>1 DEF RoomsAct
    <1>3. i # None /\ i \in Targets
      BY ScreenAssumption DEF None, Targets
    <1>4. /\ view' \in RoomsViews /\ view'.busy = view.busy \cup ({"action"} \ {""})
          /\ view'.acting = i
      BY <1>1, <1>2, <1>3 DEF RoomsViews
    <1>5. call \in RoomsWrites /\ "action" \in RoomsFlags /\ RoomsFlagged(call, "action")
      BY DEF RoomsWrites, RoomsActs, RoomsFlags, RoomsLocks, RoomsFlagged
    <1> QED BY <1>2, <1>3, <1>4, <1>5, RoomsSendKeeps

LEMMA RoomsSubmitsKeep ==
    ASSUME RoomsInv,
           \/ RoomsSubmit \/ RoomsActive \/ \E i \in Items : RoomsTask(i)
           \/ RoomsSubmitType \/ RoomsTypeOff \/ RoomsSubmitIncident \/ RoomsResolve
           \/ RoomsSubmitRule
    PROVE  RoomsInv'
    <1>1. view \in RoomsViews
      BY RoomsFacts
    <1>2. /\ view.sel \in Targets /\ view.kind \in Targets /\ view.resolving \in Targets
          /\ None \in Targets /\ "" \notin view.busy
      BY <1>1 DEF RoomsViews, Targets, RoomsForms
    <1>3. /\ {"room_create", "room_update", "room_active", "type", "type_off", "incident", "resolve",
              "rule", "task"} \subseteq RoomsWrites
          /\ {"room", "type", "incident", "rule", ""} \subseteq RoomsFlags
      BY DEF RoomsWrites, RoomsFlags, RoomsLocks, RoomsForms
    <1>4. /\ RoomsFlagged("room_create", "room") /\ RoomsFlagged("room_update", "room")
          /\ RoomsFlagged("room_active", "room") /\ RoomsFlagged("type", "type")
          /\ RoomsFlagged("type_off", "type") /\ RoomsFlagged("incident", "incident")
          /\ RoomsFlagged("resolve", "incident") /\ RoomsFlagged("rule", "rule")
          /\ RoomsFlagged("task", "")
      BY DEF RoomsFlagged, RoomsActs
    <1>5. CASE RoomsSubmit
      <2>1. PICK call \in {"room_create", "room_update"} : RoomsRun(call, view.sel, "room")
        BY <1>5 DEF RoomsSubmit
      <2>2. "room" \notin view.busy
        BY <1>5 DEF RoomsSubmit
      <2>3. RoomsFlagged(call, "room") /\ call \in RoomsWrites
        BY <1>3, <1>4
      <2> QED BY <1>2, <1>3, <2>1, <2>2, <2>3, RoomsRunKeeps
    <1>6. CASE RoomsActive
      BY <1>2, <1>3, <1>4, <1>6, RoomsRunKeeps DEF RoomsActive
    <1>7. ASSUME NEW i \in Items, RoomsTask(i)
          PROVE  RoomsInv'
      <2>1. i \in Targets
        BY DEF Targets
      <2> QED BY <1>2, <1>3, <1>4, <1>7, <2>1, RoomsRunKeeps DEF RoomsTask
    <1>8. CASE RoomsSubmitType
      BY <1>2, <1>3, <1>4, <1>8, RoomsRunKeeps DEF RoomsSubmitType
    <1>9. CASE RoomsTypeOff
      BY <1>2, <1>3, <1>4, <1>9, RoomsRunKeeps DEF RoomsTypeOff
    <1>10. CASE RoomsSubmitIncident
      BY <1>2, <1>3, <1>4, <1>10, RoomsRunKeeps DEF RoomsSubmitIncident
    <1>11. CASE RoomsResolve
      BY <1>2, <1>3, <1>4, <1>11, RoomsRunKeeps DEF RoomsResolve
    <1>12. CASE RoomsSubmitRule
      BY <1>2, <1>3, <1>4, <1>12, RoomsRunKeeps DEF RoomsSubmitRule
    <1> QED BY <1>5, <1>6, <1>7, <1>8, <1>9, <1>10, <1>11, <1>12

LEMMA RoomsLoadedKeeps ==
    ASSUME RoomsInv, NEW r \in net, RoomsLoaded(r)
    PROVE  RoomsInv'
    <1>1. /\ view \in RoomsViews /\ Frame(RoomsRequests, RoomsLocks) /\ Covered
          /\ RoomsCall(r) /\ r.saw \in Versions
          /\ view.acting = None => "action" \notin view.busy
      BY RoomsFacts
    <1>2. r.flag = "page" /\ Sends({r}, {}) /\ Moves /\ "page" \notin RoomsLocks
      BY <1>1 DEF RoomsLoaded, Reads, Answered, RoomsCall, RoomsFlagged, RoomsActs, Moves, RoomsLocks, RoomsForms
    <1>3. /\ view' \in RoomsViews /\ view'.busy = view.busy \ {"page"}
          /\ view'.acting = view.acting
      BY <1>1 DEF RoomsLoaded, RoomsViews
    <1>4. Frame(RoomsRequests, RoomsLocks)' /\ Covered'
      BY <1>1, <1>2, <1>3, FrameAnswered
    <1> QED BY <1>1, <1>3, <1>4 DEF RoomsInv, RoomsKept

\* What a failure leaves of the page.
LEMMA RoomsFailedTyped ==
    ASSUME RoomsInv, NEW r \in net
    PROVE  /\ RoomsFailed(r) \in RoomsViews /\ RoomsFailed(r).busy = view.busy \ {r.flag}
           /\ RoomsFailed(r).acting = IF r.flag = "action" THEN None ELSE view.acting
    <1>1. view \in RoomsViews
      BY RoomsFacts
    <1>2. [f \in RoomsForms |-> IF f = r.call /\ f \in {"incident", "rule"} THEN "blank"
                                ELSE view.forms[f]] \in [RoomsForms -> Drafts]
      BY <1>1 DEF RoomsViews, Drafts
    <1> QED BY <1>1, <1>2 DEF RoomsFailed, RoomsViews, Targets

\* What a success does to it, whatever was written.
LEMMA RoomsAfterTyped ==
    ASSUME NEW v \in RoomsViews, NEW r, r.call \in RoomsWrites, r.arg \in Targets
    PROVE  /\ RoomsAfter(v, r) \in RoomsViews /\ RoomsAfter(v, r).busy = v.busy
           /\ RoomsAfter(v, r).acting = IF r.call \in RoomsActs THEN None ELSE v.acting
    <1>1. ASSUME NEW f \in RoomsForms, NEW d \in Drafts
          PROVE  [v.forms EXCEPT ![f] = d] \in [RoomsForms -> Drafts]
      BY DEF RoomsViews
    <1>2. /\ {"room", "type", "incident", "rule"} \subseteq RoomsForms
          /\ {"blank", "complete"} \subseteq Drafts /\ None \in Targets
      BY DEF RoomsForms, Drafts, Targets
    <1>3. /\ [v.forms EXCEPT !["room"] = "blank"] \in [RoomsForms -> Drafts]
          /\ [v.forms EXCEPT !["room"] = "complete"] \in [RoomsForms -> Drafts]
          /\ [v.forms EXCEPT !["type"] = "blank"] \in [RoomsForms -> Drafts]
          /\ r.call \in {"incident", "rule"} => [v.forms EXCEPT ![r.call] = "blank"] \in [RoomsForms -> Drafts]
      BY <1>1, <1>2
    <1>4. CASE r.call = "room_create"
      BY <1>2, <1>3, <1>4 DEF RoomsAfter, RoomsActs, RoomsViews
    <1>5. CASE r.call = "room_active"
      BY <1>5 DEF RoomsAfter, RoomsActs, RoomsViews
    <1>6. CASE r.call \in {"check_in", "check_out"} /\ r.at = r.arg
      BY <1>2, <1>3, <1>6 DEF RoomsAfter, RoomsActs, RoomsViews
    <1>7. CASE r.call \in RoomsActs /\ (r.at # r.arg \/ r.call = "clean")
      BY <1>2, <1>7 DEF RoomsAfter, RoomsActs, RoomsViews
    <1>8. CASE r.call \in {"type", "type_off"}
      BY <1>2, <1>3, <1>8 DEF RoomsAfter, RoomsActs, RoomsViews
    <1>9. CASE r.call = "resolve"
      BY <1>2, <1>9 DEF RoomsAfter, RoomsActs, RoomsViews
    <1>10. CASE r.call \in {"incident", "rule"}
      BY <1>3, <1>10 DEF RoomsAfter, RoomsActs, RoomsViews
    <1>11. CASE r.call \in {"room_update", "task"}
      BY <1>11 DEF RoomsAfter, RoomsActs, RoomsViews
    <1> QED BY <1>4, <1>5, <1>6, <1>7, <1>8, <1>9, <1>10, <1>11 DEF RoomsWrites, RoomsActs

LEMMA RoomsAnswersKeep ==
    ASSUME RoomsInv, NEW r \in net, RoomsPosted(r) \/ RoomsReloaded(r)
    PROVE  RoomsInv'
    <1>1. /\ view \in RoomsViews /\ Frame(RoomsRequests, RoomsLocks) /\ Covered
          /\ r \in Requests(RoomsSubjects, RoomsCalls, RoomsFlags) /\ RoomsCall(r) /\ r.saw \in Versions
          /\ view.acting = None => "action" \notin view.busy
      BY RoomsFacts
    <1>2. /\ r.call \in RoomsWrites /\ r.arg \in Targets /\ Moves
          /\ r.call \in RoomsActs <=> r.flag = "action"
      BY <1>1 DEF RoomsPosted, RoomsReloaded, Reads, Wrote, Answered, RoomsCall, RoomsFlagged, Moves
    <1>3. CASE RoomsPosted(r) /\ r.step = "served"
      <2>1. /\ Sends({r}, {Reread(r)}) /\ view' = view
        BY <1>3 DEF RoomsPosted
      <2> DEFINE q == Reread(r)
      <2>2. /\ q \in Requests(RoomsSubjects, RoomsCalls, RoomsFlags)
            /\ Asks(q, "read", r.call, r.arg, r.at, r.flag)
        BY <1>1, AskedAgain
      <2> HIDE DEF q
      <2>3. q \in RoomsRequests /\ q.kind = "read" /\ q.flag = r.flag
        BY <1>1, <1>2, <2>2 DEF RoomsRequests, RoomsCall, Asks
      <2>4. Frame(RoomsRequests, RoomsLocks)' /\ Covered'
        BY <1>1, <1>2, <2>1, <2>3, FrameReread DEF q
      <2> QED BY <1>1, <2>1, <2>4 DEF RoomsInv, RoomsKept
    <1>4. CASE Sends({r}, {}) /\ view' = RoomsFailed(r)
      <2>1. /\ view' \in RoomsViews /\ view'.busy = view.busy \ {r.flag}
            /\ view'.acting = IF r.flag = "action" THEN None ELSE view.acting
        BY <1>4, RoomsFailedTyped
      <2>2. Frame(RoomsRequests, RoomsLocks)' /\ Covered'
        BY <1>1, <1>2, <1>4, <2>1, FrameAnswered
      <2> QED BY <1>1, <2>1, <2>2 DEF RoomsInv, RoomsKept
    <1>5. CASE RoomsReloaded(r) /\ r.step = "served"
      <2> DEFINE v == [view EXCEPT !.lists = r.saw, !.loaded = TRUE, !.busy = @ \ {r.flag}]
      <2>1. Sends({r}, {}) /\ view' = RoomsAfter(v, r)
        BY <1>5 DEF RoomsReloaded
      <2>2. v \in RoomsViews /\ v.busy = view.busy \ {r.flag} /\ v.acting = view.acting
        BY <1>1 DEF RoomsViews
      <2> HIDE DEF v
      <2>3. /\ view' \in RoomsViews /\ view'.busy = view.busy \ {r.flag}
            /\ view'.acting = IF r.flag = "action" THEN None ELSE view.acting
        BY <1>2, <2>1, <2>2, RoomsAfterTyped
      <2>4. Frame(RoomsRequests, RoomsLocks)' /\ Covered'
        BY <1>1, <1>2, <2>1, <2>3, FrameAnswered
      <2> QED BY <1>1, <2>3, <2>4 DEF RoomsInv, RoomsKept
    <1>6. \/ RoomsPosted(r) /\ r.step = "served"
          \/ RoomsReloaded(r) /\ r.step = "served"
          \/ Sends({r}, {}) /\ view' = RoomsFailed(r)
      BY DEF RoomsPosted, RoomsReloaded
    <1> QED BY <1>3, <1>4, <1>5, <1>6

LEMMA RoomsStep ==
    ASSUME RoomsInv, RoomsNext
    PROVE  RoomsInv'
    <1>1. ASSUME NEW r \in net, RoomsLoaded(r) \/ RoomsPosted(r) \/ RoomsReloaded(r)
          PROVE  RoomsInv'
      BY <1>1, RoomsLoadedKeeps, RoomsAnswersKeep
    <1>2. ASSUME NEW i \in Items, NEW call \in RoomsActs, RoomsAct(call, i)
          PROVE  RoomsInv'
      BY <1>2, RoomsActKeeps
    <1>3. CASE \/ RoomsDrawer \/ RoomsOverviewTab \/ RoomsListTab \/ RoomsTypesTab
               \/ RoomsMaintenanceTab \/ RoomsSubmitRule
      BY <1>2, <1>3, RoomsQuietKeeps, RoomsSubmitsKeep
         DEF RoomsDrawer, RoomsOverviewTab, RoomsListTab, RoomsTypesTab, RoomsMaintenanceTab
    <1>4. CASE \/ \E t \in RoomsTabs : RoomsTab(t)
               \/ \E f \in RoomsForms, d \in {"partial", "complete"} : RoomsEdit(f, d)
               \/ RoomsForget
      BY <1>4, RoomsQuietKeeps
    <1> QED BY <1>1, <1>3, <1>4 DEF RoomsNext

LEMMA RoomsServed ==
    ASSUME RoomsInv, NEW groups, Network(groups)
    PROVE  RoomsInv' /\ UNCHANGED <<view, inputs>>
    <1>1. /\ RoomsRequests \in SUBSET Requests(RoomsSubjects, RoomsCalls, RoomsFlags)
          /\ Unanswered(RoomsRequests)
      BY DEF RoomsRequests, Unanswered, RoomsCall, Requests
    <1>2. Frame(RoomsRequests, RoomsLocks)' /\ Covered' /\ UNCHANGED <<view, inputs>>
      BY <1>1, FrameServed DEF RoomsInv, RoomsKept
    <1> QED BY <1>2 DEF RoomsInv, RoomsKept

LEMMA RoomsStutters ==
    ASSUME RoomsInv, UNCHANGED screen
    PROVE  RoomsInv'
    <1>1. Frame(RoomsRequests, RoomsLocks)' /\ Covered' /\ UNCHANGED view
      BY FrameStutters DEF RoomsInv, RoomsKept, screen
    <1> QED BY <1>1 DEF RoomsInv, RoomsKept

-----------------------------------------------------------------------------
(* The planning *)

PlanSubjects == Targets \cup Queries \cup {"after"}
PlanCalls == {"planning", "choices"} \cup PlanWrites
PlanFlags == {"", "loading", "choices", "booking"}
PlanCall(r) ==
    /\ r.call = "planning" => r.kind = "read" /\ r.flag = "loading"
    /\ r.call = "choices" => r.kind = "read" /\ r.flag = "choices"
    /\ r.call \in {"move", "resize"} => r.kind = "write" /\ r.flag = ""
    /\ r.call = "booking" => r.kind = "write" /\ r.flag \in {"", "booking"}
    /\ r.call # "choices" => r.at \in Queries
PlanRequests == {r \in Requests(PlanSubjects, PlanCalls, PlanFlags) : PlanCall(r)}

PlanInv == view \in PlanViews /\ Frame(PlanRequests, {"booking"}) /\ Covered

LEMMA PlanSubject ==
    /\ None \in PlanSubjects /\ NoWord \in PlanSubjects /\ "after" \in PlanSubjects
    /\ Targets \subseteq PlanSubjects /\ Queries \subseteq PlanSubjects
    BY DEF PlanSubjects, Targets, Queries

LEMMA PlanStart ==
    ASSUME PlanInit
    PROVE  PlanInv
    <1> DEFINE q == Keeping(Request("read", "planning", NoWord, "loading", 1), NoWord)
    <1>1. net = {q} /\ Start
      BY DEF PlanInit, Mounted
    <1>2. /\ q \in Requests(PlanSubjects, PlanCalls, PlanFlags)
          /\ Asks(q, "read", "planning", NoWord, NoWord, "loading")
      <2>1. "planning" \in PlanCalls /\ "loading" \in PlanFlags
        BY DEF PlanCalls, PlanFlags
      <2> QED BY <2>1, PlanSubject, FirstAsked
    <1> HIDE DEF q
    <1>3. q \in PlanRequests /\ q.kind = "read" /\ q.flag = "loading"
      BY <1>2 DEF PlanRequests, PlanCall, Asks, Queries
    <1>4. Frame(PlanRequests, {"booking"})
      <2>1. net \subseteq PlanRequests /\ \A r \in net : r.kind = "read" /\ r.flag \notin {"booking"}
        BY <1>1, <1>3
      <2> QED BY <1>1, <2>1, FrameStart
    <1>5. view \in PlanViews
      <2>1. 0 \in Versions
        BY MaxWritesNat DEF Versions
      <2> QED BY <2>1 DEF PlanInit, PlanViews, Targets, Queries, Drafts
    <1>6. Covered
      BY <1>1, <1>3 DEF Covered, HasRequest, PlanInit
    <1> QED BY <1>4, <1>5, <1>6 DEF PlanInv

LEMMA PlanFacts ==
    ASSUME PlanInv
    PROVE  /\ view \in PlanViews /\ Frame(PlanRequests, {"booking"}) /\ Covered
           /\ \A r \in net : /\ r \in Requests(PlanSubjects, PlanCalls, PlanFlags)
                             /\ PlanCall(r) /\ r.step \in Steps /\ r.saw \in Versions
                             /\ r.call \in PlanCalls
    <1>1. \A r \in net : r \in Requests(PlanSubjects, PlanCalls, PlanFlags) /\ PlanCall(r)
      BY DEF PlanInv, Frame, PlanRequests
    <1> QED BY <1>1 DEF PlanInv, Requests

LEMMA PlanQuietKeeps ==
    ASSUME PlanInv, UNCHANGED net, Input,
           \/ \E i \in Items : PlanDrag(i) \/ PlanResizeStart(i)
           \/ \E i \in Targets : PlanSelect(i)
           \/ \E d \in {"partial", "complete"} : PlanEdit(d)
           \/ PlanClose \/ PlanDrop(FALSE) \/ PlanResizeEnd(FALSE)
    PROVE  PlanInv'
    <1>1. view \in PlanViews /\ Frame(PlanRequests, {"booking"}) /\ Covered
      BY PlanFacts
    <1> DEFINE Keeps == view' \in PlanViews /\ view'.busy = view.busy
    <1>2. ASSUME NEW i \in Items, PlanDrag(i) \/ PlanResizeStart(i)
          PROVE  Keeps
      BY <1>1, <1>2 DEF PlanDrag, PlanResizeStart, PlanViews, Targets
    <1>3. ASSUME NEW i \in Targets, PlanSelect(i)
          PROVE  Keeps
      BY <1>1, <1>3 DEF PlanSelect, PlanViews
    <1>4. ASSUME NEW d \in {"partial", "complete"}, PlanEdit(d)
          PROVE  Keeps
      <2>1. [view.forms EXCEPT !["booking"] = d] \in [{"booking"} -> Drafts]
        BY <1>1 DEF PlanViews, Drafts
      <2> QED BY <1>1, <1>4, <2>1 DEF PlanEdit, PlanViews
    <1>5. ASSUME PlanClose \/ PlanDrop(FALSE) \/ PlanResizeEnd(FALSE)
          PROVE  Keeps
      BY <1>1, <1>5 DEF PlanClose, PlanDrop, PlanResizeEnd, PlanViews, Targets
    <1>6. Keeps
      BY <1>2, <1>3, <1>4, <1>5
    <1>7. Frame(PlanRequests, {"booking"})' /\ Covered'
      BY <1>1, <1>6, FrameQuiet DEF Moves
    <1> QED BY <1>6, <1>7 DEF PlanInv

\* A window is read.
LEMMA PlanReadKeeps ==
    ASSUME PlanInv, NEW w \in Queries, Unsent("planning"), Sends({}, {PlanLoad(w)}), Input,
           view' \in PlanViews, view'.busy = view.busy \cup {"loading"}
    PROVE  PlanInv'
    <1>1. Frame(PlanRequests, {"booking"}) /\ Covered
      BY PlanFacts
    <1> DEFINE q == PlanLoad(w)
    <1>2. /\ q \in Requests(PlanSubjects, PlanCalls, PlanFlags)
          /\ Asks(q, "read", "planning", NoWord, w, "loading")
      <2>1. "planning" \in PlanCalls /\ "loading" \in PlanFlags /\ w \in PlanSubjects
        BY PlanSubject DEF PlanCalls, PlanFlags
      <2> QED BY <2>1, PlanSubject, NewAsked DEF PlanLoad
    <1>3. Sends({}, {q}) /\ Moves
      BY DEF Moves
    <1> HIDE DEF q
    <1>4. q \in PlanRequests /\ q.kind # "write" /\ q.flag = "loading" /\ "loading" \notin {"booking"}
      BY <1>2 DEF PlanRequests, PlanCall, Asks
    <1>5. Frame(PlanRequests, {"booking"})' /\ Covered'
      BY <1>1, <1>3, <1>4, FrameSent
    <1> QED BY <1>5 DEF PlanInv

\* A move, a resize or a booking is sent.
LEMMA PlanWriteKeeps ==
    ASSUME PlanInv, NEW call \in PlanWrites, NEW arg \in Targets, NEW flag \in {"", "booking"},
           flag = "booking" <=> call = "booking", MayWrite(call), Input,
           Sends({}, {Keeping(Write(call, arg, flag), view.win)}), view' \in PlanViews,
           view'.busy = view.busy \cup ({flag} \ {""}), flag \notin view.busy
    PROVE  PlanInv'
    <1>1. view \in PlanViews /\ Frame(PlanRequests, {"booking"}) /\ Covered
      BY PlanFacts
    <1> DEFINE q == Keeping(Write(call, arg, flag), view.win)
    <1>2. view.win \in Queries
      BY <1>1 DEF PlanViews
    <1>3. /\ q \in Requests(PlanSubjects, PlanCalls, PlanFlags)
          /\ Asks(q, "write", call, arg, view.win, flag)
      <2>1. /\ call \in PlanCalls /\ flag \in PlanFlags /\ arg \in PlanSubjects
            /\ view.win \in PlanSubjects /\ Unsent(call)
        BY <1>2, PlanSubject DEF PlanCalls, PlanFlags, MayWrite
      <2> QED BY <2>1, PlanSubject, NewAsked
    <1>4. Sends({}, {q}) /\ Moves
      BY DEF Moves
    <1> HIDE DEF q
    <1>5. q \in PlanRequests /\ q.call = call /\ q.flag = flag
      BY <1>2, <1>3 DEF PlanRequests, PlanCall, Asks, PlanWrites
    <1>6. /\ view'.busy \subseteq view.busy \cup {q.flag} /\ view.busy \subseteq view'.busy
          /\ q.flag \in {"booking"} => q.flag \in view'.busy /\ q.flag \notin view.busy
          /\ MayWrite(q.call)
      BY <1>5
    <1>7. Frame(PlanRequests, {"booking"})' /\ Covered'
      BY <1>1, <1>4, <1>5, <1>6, FrameSent
    <1> QED BY <1>7 DEF PlanInv

LEMMA PlanSendsKeep ==
    ASSUME PlanInv,
           \/ \E w \in Queries : PlanGo(w)
           \/ PlanRefresh \/ PlanDrop(TRUE) \/ PlanResizeEnd(TRUE) \/ PlanSubmit
    PROVE  PlanInv'
    <1>1. view \in PlanViews
      BY PlanFacts
    <1>2. "" \notin view.busy /\ view.drag \in Targets /\ view.resize \in Targets
          /\ view.modal \in Targets /\ view.win \in Queries
      BY <1>1 DEF PlanViews
    <1>3. ASSUME NEW w \in Queries, PlanGo(w)
          PROVE  PlanInv'
      <2>1. view' \in PlanViews /\ view'.busy = view.busy \cup {"loading"}
        BY <1>1, <1>3 DEF PlanGo, PlanViews
      <2> QED BY <1>3, <2>1, PlanReadKeeps DEF PlanGo
    <1>4. CASE PlanRefresh
      <2>1. view' \in PlanViews /\ view'.busy = view.busy \cup {"loading"}
        BY <1>1, <1>4 DEF PlanRefresh, PlanViews
      <2> QED BY <1>2, <1>4, <2>1, PlanReadKeeps DEF PlanRefresh
    <1>5. CASE PlanDrop(TRUE)
      <2>1. view' \in PlanViews /\ view'.busy = view.busy \cup ({""} \ {""})
        BY <1>1, <1>5 DEF PlanDrop, PlanViews, Targets
      <2> QED BY <1>2, <1>5, <2>1, PlanWriteKeeps DEF PlanDrop, PlanWrites
    <1>6. CASE PlanResizeEnd(TRUE)
      <2>1. view' \in PlanViews /\ view'.busy = view.busy \cup ({""} \ {""})
        BY <1>1, <1>6 DEF PlanResizeEnd, PlanViews, Targets
      <2> QED BY <1>2, <1>6, <2>1, PlanWriteKeeps DEF PlanResizeEnd, PlanWrites
    <1>7. CASE PlanSubmit
      <2>1. view' \in PlanViews /\ view'.busy = view.busy \cup ({"booking"} \ {""})
        BY <1>1, <1>7 DEF PlanSubmit, PlanViews
      <2> QED BY <1>2, <1>7, <2>1, PlanWriteKeeps DEF PlanSubmit, PlanWrites
    <1> QED BY <1>3, <1>4, <1>5, <1>6, <1>7

LEMMA PlanCellKeeps ==
    ASSUME PlanInv, NEW i \in Items, PlanCell(i)
    PROVE  PlanInv'
    <1>1. view \in PlanViews /\ Frame(PlanRequests, {"booking"}) /\ Covered
      BY PlanFacts
    <1> DEFINE q == Request("read", "choices", i, "choices", 1)
    <1>2. /\ q \in Requests(PlanSubjects, PlanCalls, PlanFlags)
          /\ Asks(q, "read", "choices", i, None, "choices")
      <2>1. "choices" \in PlanCalls /\ "choices" \in PlanFlags /\ i \in PlanSubjects
        BY PlanSubject DEF PlanCalls, PlanFlags, Targets
      <2> QED BY <2>1, PlanSubject, FirstAsked
    <1>3. Sends({}, {q}) /\ Moves
      BY DEF PlanCell, Moves
    <1> HIDE DEF q
    <1>4. q \in PlanRequests /\ q.kind # "write" /\ q.flag = "choices" /\ "choices" \notin {"booking"}
      BY <1>2 DEF PlanRequests, PlanCall, Asks
    <1>5. view' \in PlanViews /\ view'.busy = view.busy \cup {"choices"}
      BY <1>1 DEF PlanCell, PlanViews, Targets
    <1>6. Frame(PlanRequests, {"booking"})' /\ Covered'
      BY <1>1, <1>3, <1>4, <1>5, FrameSent
    <1> QED BY <1>5, <1>6 DEF PlanInv

\* The modal leaves the page: its booking lowers nothing any more.
LEMMA PlanOrphanable == Orphanable(PlanRequests, {"booking"})
    BY DEF Orphanable, PlanRequests, PlanCall, Requests, PlanFlags

LEMMA PlanLeftKeeps ==
    ASSUME PlanInv, PlanLeft
    PROVE  PlanInv'
    <1>1. /\ view \in PlanViews /\ Frame(PlanRequests, {"booking"}) /\ Covered
          /\ \A r \in net : r \in Requests(PlanSubjects, PlanCalls, PlanFlags) /\ PlanCall(r)
      BY PlanFacts
    <1>2. /\ view' \in PlanViews /\ view'.busy = view.busy \ {"choices", "booking"}
      <2>1. [view.forms EXCEPT !["booking"] = "blank"] \in [{"booking"} -> Drafts]
        BY <1>1 DEF PlanViews, Drafts
      <2> QED BY <1>1, <2>1 DEF PlanLeft, PlanViews, Targets
    <1> DEFINE E == {"booking"}
               gone == {r \in net : r.call = "choices"}
               sent == {}
    <1>3. Orphaned(E, gone, sent)
      <2> DEFINE kept == {r \in net : r.call \notin {"booking", "choices"}}
                 own == {r \in net : r.call = "booking"}
      <2>1. net' = kept \cup {[r EXCEPT !.flag = ""] : r \in own}
        BY DEF PlanLeft, PlanOwn, Sends
      <2>2. \A r \in kept : Unflagged(r, E) = r /\ r \in net \ gone
        BY <1>1 DEF Unflagged, PlanCall, Requests, PlanCalls, PlanWrites
      <2>3. \A r \in own : Unflagged(r, E) = [r EXCEPT !.flag = ""] /\ r \in net \ gone
        BY <1>1 DEF Unflagged, PlanCall, Requests
      <2>4. \A r \in net \ gone : r \in kept \/ r \in own
        OBVIOUS
      <2> HIDE DEF kept, own, gone, E
      <2> QED BY <2>1, <2>2, <2>3, <2>4 DEF sent, Orphaned
    <1>4. /\ gone \in SUBSET net /\ sent \in SUBSET PlanRequests /\ "" \notin E
          /\ Readings(sent, E)
      BY DEF Readings
    <1>5. LoweredWith(E, E, gone)
      BY DEF LoweredWith
    <1>6. UpFor(E, gone, sent)
      BY <1>1, <1>2 DEF PlanCall, UpFor
    <1>7. Frame(PlanRequests, E) /\ Covered /\ Moves /\ Orphanable(PlanRequests, E)
      BY <1>1, PlanOrphanable DEF PlanLeft, Moves
    <1> HIDE DEF E, gone, sent
    <1>8. Frame(PlanRequests, E)' /\ Covered'
      BY <1>3, <1>4, <1>5, <1>6, <1>7, FrameOrphaned
    <1> QED BY <1>2, <1>8 DEF PlanInv, E

LEMMA PlanAnswersKeep ==
    ASSUME PlanInv, NEW r \in net, PlanLoaded(r) \/ PlanMoved(r) \/ PlanChoices(r) \/ PlanBooked(r)
    PROVE  PlanInv'
    <1>1. /\ view \in PlanViews /\ Frame(PlanRequests, {"booking"}) /\ Covered
          /\ PlanCall(r) /\ r.saw \in Versions
      BY PlanFacts
    <1>2. Moves /\ "" \notin view.busy
      BY <1>1 DEF PlanLoaded, PlanMoved, PlanChoices, PlanBooked, Moves, PlanViews
    <1>3. ASSUME NEW arg \in {NoWord, "after"}, Unsent("planning"), r.at \in Queries
          PROVE  /\ Keeping(Read("planning", arg, "loading"), r.at) \in PlanRequests
                 /\ Keeping(Read("planning", arg, "loading"), r.at).kind = "read"
                 /\ Keeping(Read("planning", arg, "loading"), r.at).flag = "loading"
      <2> DEFINE q == Keeping(Read("planning", arg, "loading"), r.at)
      <2>1. /\ q \in Requests(PlanSubjects, PlanCalls, PlanFlags)
            /\ Asks(q, "read", "planning", arg, r.at, "loading")
        <3>1. /\ "planning" \in PlanCalls /\ "loading" \in PlanFlags /\ r.at \in PlanSubjects
              /\ arg \in PlanSubjects
          BY <1>3, PlanSubject DEF PlanCalls, PlanFlags
        <3> QED BY <1>3, <3>1, PlanSubject, NewAsked
      <2> HIDE DEF q
      <2>2. q \in PlanRequests /\ q.kind = "read" /\ q.flag = "loading"
        BY <1>3, <2>1 DEF PlanRequests, PlanCall, Asks
      <2> QED BY <2>2 DEF q
    <1>4. CASE PlanLoaded(r)
      <2>1. r.flag = "loading" /\ r.at \in Queries /\ Sends({r}, {})
        BY <1>1, <1>4 DEF PlanLoaded, Reads, Answered, PlanCall
      <2>2. view' \in PlanViews /\ view'.busy = view.busy \ {"loading"}
        BY <1>1, <1>4, <2>1 DEF PlanLoaded, PlanViews
      <2>3. Frame(PlanRequests, {"booking"})' /\ Covered'
        BY <1>1, <1>2, <2>1, <2>2, FrameAnswered
      <2> QED BY <2>2, <2>3 DEF PlanInv
    <1>5. CASE PlanChoices(r)
      <2>1. r.flag = "choices" /\ Sends({r}, {})
        BY <1>1, <1>5 DEF PlanChoices, Reads, Answered, PlanCall
      <2>2. view' \in PlanViews /\ view'.busy = view.busy \ {"choices"}
        <3>1. \A d \in Drafts : [view.forms EXCEPT !["booking"] = d] \in [{"booking"} -> Drafts]
          BY <1>1 DEF PlanViews
        <3>2. view.forms["booking"] \in Drafts /\ "partial" \in Drafts
          BY <1>1 DEF PlanViews, Drafts
        <3>3. PICK d \in Drafts :
                 view' = [view EXCEPT !.busy = @ \ {"choices"}, !.forms["booking"] = d]
          BY <1>5, <3>2 DEF PlanChoices
        <3> QED BY <1>1, <3>1, <3>3 DEF PlanViews
      <2>3. Frame(PlanRequests, {"booking"})' /\ Covered'
        BY <1>1, <1>2, <2>1, <2>2, FrameAnswered
      <2> QED BY <2>2, <2>3 DEF PlanInv
    <1>6. CASE PlanMoved(r) /\ r.step = "served"
      <2> DEFINE q == Keeping(Read("planning", "after", "loading"), r.at)
      <2>1. /\ r.flag = "" /\ r.at \in Queries /\ Sends({r}, {q}) /\ Unsent("planning")
            /\ view' = [view EXCEPT !.busy = @ \cup {"loading"}]
        BY <1>1, <1>6 DEF PlanMoved, Wrote, Answered, PlanCall
      <2>2. q \in PlanRequests /\ q.kind = "read" /\ q.flag = "loading"
        BY <1>3, <2>1
      <2> HIDE DEF q
      <2>3. view' \in PlanViews /\ view'.busy = view.busy \cup {"loading"} /\ "" \notin view'.busy
        BY <1>1, <1>2, <2>1 DEF PlanViews
      <2>4. Frame(PlanRequests, {"booking"})' /\ Covered'
        BY <1>1, <1>2, <2>1, <2>2, <2>3, FrameReread
      <2> QED BY <2>3, <2>4 DEF PlanInv
    <1>7. CASE PlanMoved(r) /\ r.step # "served"
      <2>1. /\ r.flag = "" /\ Sends({r}, {}) /\ view' = [view EXCEPT !.status = "error"]
        BY <1>1, <1>7 DEF PlanMoved, Wrote, Answered, PlanCall
      <2>2. view' \in PlanViews /\ view'.busy = view.busy
        BY <1>1, <2>1 DEF PlanViews
      <2>3. Frame(PlanRequests, {"booking"})' /\ Covered'
        BY <1>1, <1>2, <2>1, <2>2, FrameAnswered
      <2> QED BY <2>2, <2>3 DEF PlanInv
    <1>8. CASE PlanBooked(r) /\ r.step = "served"
      <2> DEFINE q == Keeping(Read("planning", NoWord, "loading"), r.at)
      <2>1. /\ r.flag \in {"", "booking"} /\ r.at \in Queries /\ Sends({r}, {q}) /\ Unsent("planning")
            /\ view' = [view EXCEPT !.closing = TRUE, !.busy = (@ \ {r.flag}) \cup {"loading"}]
        BY <1>1, <1>8 DEF PlanBooked, PlanLoad, Wrote, Answered, PlanCall
      <2>2. q \in PlanRequests /\ q.kind = "read" /\ q.flag = "loading"
        BY <1>3, <2>1
      <2> HIDE DEF q
      <2>3. view' \in PlanViews /\ view'.busy = (view.busy \ {r.flag}) \cup {"loading"}
        BY <1>1, <2>1 DEF PlanViews
      <2>4. r.flag \notin view'.busy /\ q.flag \notin {"booking"}
        BY <2>1, <2>2, <2>3
      <2>5. Frame(PlanRequests, {"booking"})' /\ Covered'
        BY <1>1, <1>2, <2>1, <2>2, <2>3, <2>4, FrameReread
      <2> QED BY <2>3, <2>5 DEF PlanInv
    <1>9. CASE PlanBooked(r) /\ r.step # "served"
      <2>1. Sends({r}, {})
        BY <1>9 DEF PlanBooked
      <2>2. view' \in PlanViews /\ view'.busy = view.busy \ {r.flag}
        <3>1. view.status \in {"none", "info", "error"}
          BY <1>1 DEF PlanViews
        <3>2. PICK t \in {"none", "info", "error"} :
                 view' = [view EXCEPT !.busy = @ \ {r.flag}, !.status = t]
          BY <1>9, <3>1 DEF PlanBooked
        <3> QED BY <1>1, <3>2 DEF PlanViews
      <2>3. Frame(PlanRequests, {"booking"})' /\ Covered'
        BY <1>1, <1>2, <2>1, <2>2, FrameAnswered
      <2> QED BY <2>2, <2>3 DEF PlanInv
    <1> QED BY <1>4, <1>5, <1>6, <1>7, <1>8, <1>9

LEMMA PlanStep ==
    ASSUME PlanInv, PlanNext
    PROVE  PlanInv'
    <1>1. CASE PlanArrival
      BY <1>1, PlanAnswersKeep DEF PlanArrival
    <1>2. ASSUME NEW yes \in BOOLEAN, PlanDrop(yes) \/ PlanResizeEnd(yes)
          PROVE  PlanInv'
      <2>1. CASE yes = TRUE
        BY <1>2, <2>1, PlanSendsKeep
      <2>2. CASE yes = FALSE
        <3>1. UNCHANGED net /\ Input
          BY <1>2, <2>2 DEF PlanDrop, PlanResizeEnd
        <3> QED BY <1>2, <2>2, <3>1, PlanQuietKeeps
      <2> QED BY <2>1, <2>2
    <1>3. CASE PlanCells
      <2>1. ASSUME NEW i \in Items, PlanDrag(i) \/ PlanResizeStart(i)
            PROVE  PlanInv'
        <3>1. UNCHANGED net /\ Input
          BY <2>1 DEF PlanDrag, PlanResizeStart
        <3> QED BY <2>1, <3>1, PlanQuietKeeps
      <2> QED BY <1>3, <2>1, PlanCellKeeps DEF PlanCells
    <1>4. CASE PlanModal
      <2>1. ASSUME NEW d \in {"partial", "complete"}, PlanEdit(d) \/ PlanClose
            PROVE  PlanInv'
        <3>1. UNCHANGED net /\ Input
          BY <2>1 DEF PlanEdit, PlanClose
        <3> QED BY <2>1, <3>1, PlanQuietKeeps
      <2> QED BY <1>4, <2>1, PlanSendsKeep DEF PlanModal
    <1>5. ASSUME NEW i \in Targets, PlanSelect(i)
          PROVE  PlanInv'
      BY <1>5, PlanQuietKeeps DEF PlanSelect
    <1>6. CASE PlanLeft \/ PlanRefresh \/ \E w \in Queries : PlanGo(w)
      BY <1>6, PlanLeftKeeps, PlanSendsKeep
    <1> QED BY <1>1, <1>2, <1>3, <1>4, <1>5, <1>6 DEF PlanNext

LEMMA PlanServed ==
    ASSUME PlanInv, NEW groups, Network(groups)
    PROVE  PlanInv' /\ UNCHANGED <<view, inputs>>
    <1>1. /\ PlanRequests \in SUBSET Requests(PlanSubjects, PlanCalls, PlanFlags)
          /\ Unanswered(PlanRequests)
      BY DEF PlanRequests, Unanswered, PlanCall, Requests
    <1>2. Frame(PlanRequests, {"booking"})' /\ Covered' /\ UNCHANGED <<view, inputs>>
      BY <1>1, FrameServed DEF PlanInv
    <1> QED BY <1>2 DEF PlanInv

LEMMA PlanStutters ==
    ASSUME PlanInv, UNCHANGED screen
    PROVE  PlanInv'
    <1>1. Frame(PlanRequests, {"booking"})' /\ Covered' /\ UNCHANGED view
      BY FrameStutters DEF PlanInv, screen
    <1> QED BY <1>1 DEF PlanInv

-----------------------------------------------------------------------------
(* The page of a booking *)

BookingCalls == {"detail", "save"} \cup BookingActions
BookingFlags == {"", "page", "submit"}
BookingCall(r) ==
    IF r.call = "detail" THEN r.kind = "read" /\ r.flag = "page" ELSE r.flag \in {"", "submit"}
BookingRequests == {r \in Requests(Targets, BookingCalls, BookingFlags) : BookingCall(r)}

BookingInv == view \in BookingViews /\ Frame(BookingRequests, {"submit"}) /\ Covered

LEMMA TargetsHold == None \in Targets /\ Items \subseteq Targets
    BY DEF Targets

LEMMA BookingStart ==
    ASSUME BookingInit
    PROVE  BookingInv
    <1>1. PICK may \in Profiles, i \in Items :
             /\ view = [page |-> "booking", may |-> may, at |-> i, shows |-> None,
                        forms |-> [f \in {"booking"} |-> "blank"], asking |-> None,
                        busy |-> {"page"}, status |-> "none", lists |-> 0]
             /\ net = {Request("read", "detail", i, "page", 1)}
             /\ Start
      BY DEF BookingInit
    <1> DEFINE q == Request("read", "detail", i, "page", 1)
    <1>2. /\ q \in Requests(Targets, BookingCalls, BookingFlags)
          /\ Asks(q, "read", "detail", i, None, "page")
      <2>1. "detail" \in BookingCalls /\ "page" \in BookingFlags /\ i \in Targets
        BY TargetsHold DEF BookingCalls, BookingFlags
      <2> QED BY <2>1, TargetsHold, FirstAsked
    <1>3. net = {q}
      BY <1>1
    <1> HIDE DEF q
    <1>4. q \in BookingRequests /\ q.kind = "read" /\ q.flag = "page"
      BY <1>2 DEF BookingRequests, BookingCall, Asks
    <1>5. Frame(BookingRequests, {"submit"})
      <2>1. net \subseteq BookingRequests /\ \A r \in net : r.kind = "read" /\ r.flag \notin {"submit"}
        BY <1>3, <1>4
      <2> QED BY <1>1, <2>1, FrameStart
    <1>6. view \in BookingViews
      <2>1. 0 \in Versions
        BY MaxWritesNat DEF Versions
      <2> QED BY <1>1, <2>1 DEF BookingViews, Targets, Drafts
    <1>7. Covered
      BY <1>1, <1>3, <1>4 DEF Covered, HasRequest
    <1> QED BY <1>5, <1>6, <1>7 DEF BookingInv

LEMMA BookingFacts ==
    ASSUME BookingInv
    PROVE  /\ view \in BookingViews /\ Frame(BookingRequests, {"submit"}) /\ Covered
           /\ "" \notin view.busy /\ view.at \in Items /\ view.shows \in Targets
           /\ \A r \in net : /\ r \in Requests(Targets, BookingCalls, BookingFlags)
                             /\ BookingCall(r) /\ r.saw \in Versions /\ r.arg \in Targets
                             /\ r.at \in Targets
    <1>1. \A r \in net : r \in Requests(Targets, BookingCalls, BookingFlags) /\ BookingCall(r)
      BY DEF BookingInv, Frame, BookingRequests
    <1>2. view \in BookingViews
      BY DEF BookingInv
    <1> QED BY <1>1, <1>2 DEF BookingInv, Requests, BookingViews

LEMMA BookingForm ==
    ASSUME NEW v \in BookingViews, NEW d \in Drafts
    PROVE  /\ [v EXCEPT !.forms["booking"] = d] \in BookingViews
           /\ [v EXCEPT !.forms["booking"] = d].busy = v.busy
    <1>1. [v.forms EXCEPT !["booking"] = d] \in [{"booking"} -> Drafts]
      BY DEF BookingViews
    <1> QED BY <1>1 DEF BookingViews

LEMMA BookingLowered ==
    ASSUME NEW v \in BookingViews, NEW f
    PROVE  /\ [v EXCEPT !.busy = @ \ {f}] \in BookingViews
           /\ [v EXCEPT !.busy = @ \ {f}].busy = v.busy \ {f}
    BY DEF BookingViews

LEMMA BookingReceives ==
    ASSUME NEW r, r.saw \in Versions, NEW i \in Targets, NEW d \in Drafts, view \in BookingViews
    PROVE  /\ BookingReceived(view, r, i, d) \in BookingViews
           /\ BookingReceived(view, r, i, d).busy = view.busy
    <1> DEFINE v == [view EXCEPT !.shows = i, !.lists = r.saw, !.status = "none"]
    <1>1. v \in BookingViews /\ v.busy = view.busy
      BY DEF BookingViews
    <1>2. BookingReceived(view, r, i, d) = [v EXCEPT !.forms["booking"] = d]
      BY DEF BookingReceived, BookingViews
    <1> HIDE DEF v
    <1> QED BY <1>1, <1>2, BookingForm

LEMMA BookingQuietKeeps ==
    ASSUME BookingInv, UNCHANGED net, Input, view' \in BookingViews, view'.busy = view.busy
    PROVE  BookingInv'
    <1>1. Frame(BookingRequests, {"submit"})' /\ Covered'
      BY BookingFacts, FrameQuiet DEF Moves
    <1> QED BY <1>1 DEF BookingInv

LEMMA BookingOrphanable == Orphanable(BookingRequests, {"submit"})
    BY DEF Orphanable, BookingRequests, BookingCall, Requests, BookingFlags

LEMMA BookingGoKeeps ==
    ASSUME BookingInv, NEW i \in Items, BookingGo(i)
    PROVE  BookingInv'
    <1>1. /\ view \in BookingViews /\ Frame(BookingRequests, {"submit"}) /\ Covered
          /\ \A r \in net : r \in Requests(Targets, BookingCalls, BookingFlags)
      BY BookingFacts
    <1>2. view' \in BookingViews /\ view'.busy = {"page"}
      <2> DEFINE v == [view EXCEPT !.at = i, !.busy = {"page"}, !.asking = None, !.status = "none"]
      <2>1. v \in BookingViews /\ v.busy = {"page"}
        BY <1>1 DEF BookingViews
      <2>2. view' = [v EXCEPT !.forms["booking"] = "blank"]
        BY <1>1 DEF BookingGo, BookingViews
      <2>3. "blank" \in Drafts
        BY DEF Drafts
      <2> HIDE DEF v
      <2> QED BY <2>1, <2>2, <2>3, BookingForm
    <1> DEFINE E == {"submit"}
               gone == {}
               q == Read("detail", i, "page")
               sent == {q}
    <1>3. /\ q \in Requests(Targets, BookingCalls, BookingFlags)
          /\ Asks(q, "read", "detail", i, None, "page")
      <2>1. /\ "detail" \in BookingCalls /\ "page" \in BookingFlags /\ i \in Targets
            /\ Unsent("detail")
        BY TargetsHold DEF BookingCalls, BookingFlags, BookingGo
      <2> QED BY <2>1, TargetsHold, NewAsked
    <1>4. Orphaned(E, gone, sent)
      <2>1. net' = Orphans(net) \cup sent
        BY DEF BookingGo
      <2>2. Orphans(net) = {Unflagged(r, E) : r \in net \ gone}
        BY DEF Orphans, Unflagged
      <2> QED BY <2>1, <2>2 DEF Orphaned
    <1> HIDE DEF q
    <1>5. q \in BookingRequests /\ q.kind = "read" /\ q.flag = "page"
      BY <1>3 DEF BookingRequests, BookingCall, Asks
    <1>6. /\ gone \in SUBSET net /\ sent \in SUBSET BookingRequests /\ "" \notin E
          /\ Readings(sent, E)
      BY <1>5 DEF Readings
    <1>7. LoweredWith(E, E, gone)
      BY DEF LoweredWith
    <1>8. UpFor(E, gone, sent)
      BY <1>2, <1>5 DEF UpFor
    <1>9. Frame(BookingRequests, E) /\ Covered /\ Moves /\ Orphanable(BookingRequests, E)
      BY <1>1, BookingOrphanable DEF BookingGo, Moves
    <1> HIDE DEF E, gone, sent
    <1>10. Frame(BookingRequests, E)' /\ Covered'
      BY <1>4, <1>6, <1>7, <1>8, <1>9, FrameOrphaned
    <1> QED BY <1>2, <1>10 DEF BookingInv, E

LEMMA BookingPostKeeps ==
    ASSUME BookingInv, NEW call \in BookingActions \cup {"save"}, BookingPost(call), Input,
           "submit" \notin view.busy
    PROVE  BookingInv'
    <1>1. /\ view \in BookingViews /\ Frame(BookingRequests, {"submit"}) /\ Covered
          /\ view.at \in Targets /\ view.shows \in Targets
      BY BookingFacts, TargetsHold
    <1> DEFINE q == Keeping(Write(call, view.shows, "submit"), view.at)
    <1>2. /\ q \in Requests(Targets, BookingCalls, BookingFlags)
          /\ Asks(q, "write", call, view.shows, view.at, "submit")
      <2>1. call \in BookingCalls /\ "submit" \in BookingFlags /\ Unsent(call)
        BY DEF BookingCalls, BookingFlags, BookingPost, MayWrite
      <2> QED BY <1>1, <2>1, TargetsHold, NewAsked
    <1>3. Sends({}, {q}) /\ Moves
      BY DEF Moves, BookingPost
    <1> HIDE DEF q
    <1>4. q \in BookingRequests /\ q.flag = "submit"
      BY <1>2 DEF BookingRequests, BookingCall, Asks, BookingActions
    <1>5. MayWrite(q.call)
      BY <1>2 DEF Asks, BookingPost
    <1>6. view' \in BookingViews /\ view'.busy = view.busy \cup {"submit"}
      BY <1>1 DEF BookingPost, BookingViews
    <1>7. Frame(BookingRequests, {"submit"})' /\ Covered'
      BY <1>1, <1>3, <1>4, <1>5, <1>6, FrameSent
    <1> QED BY <1>6, <1>7 DEF BookingInv

LEMMA BookingUserKeeps ==
    ASSUME BookingInv,
           \/ \E d \in {"partial", "complete"} : BookingEdit(d)
           \/ BookingSave \/ BookingActionsCard \/ BookingGiveUp \/ BookingConfirm
    PROVE  BookingInv'
    <1>1. view \in BookingViews
      BY BookingFacts
    <1>2. ASSUME NEW d \in {"partial", "complete"}, BookingEdit(d)
          PROVE  BookingInv'
      <2>1. d \in Drafts
        BY DEF Drafts
      <2>2. view' \in BookingViews /\ view'.busy = view.busy
        BY <1>1, <1>2, <2>1, BookingForm DEF BookingEdit
      <2> QED BY <1>2, <2>2, BookingQuietKeeps DEF BookingEdit
    <1>3. CASE BookingSave
      <2>1. CASE view.forms["booking"] = "complete"
        BY <1>3, <2>1, BookingPostKeeps DEF BookingSave
      <2>2. CASE view.forms["booking"] # "complete"
        <3>1. view' = [view EXCEPT !.status = "error"] /\ UNCHANGED net /\ Input
          BY <1>3, <2>2 DEF BookingSave
        <3>2. view' \in BookingViews /\ view'.busy = view.busy
          BY <1>1, <3>1 DEF BookingViews
        <3> QED BY <3>1, <3>2, BookingQuietKeeps
      <2> QED BY <2>1, <2>2
    <1>4. CASE BookingActionsCard
      <2>1. PICK a \in BookingActions : BookingAsk(a)
        BY <1>4 DEF BookingActionsCard
      <2>2. view' \in BookingViews /\ view'.busy = view.busy
        BY <1>1, <2>1 DEF BookingAsk, BookingViews
      <2> QED BY <2>1, <2>2, BookingQuietKeeps DEF BookingAsk
    <1>5. CASE BookingGiveUp
      <2>1. view' \in BookingViews /\ view'.busy = view.busy
        BY <1>1, <1>5 DEF BookingGiveUp, BookingViews
      <2> QED BY <1>5, <2>1, BookingQuietKeeps DEF BookingGiveUp
    <1>6. CASE BookingConfirm
      <2>1. view.asking \in BookingActions
        BY <1>1, <1>6 DEF BookingConfirm, BookingViews
      <2> QED BY <1>6, <2>1, BookingPostKeeps DEF BookingConfirm
    <1> QED BY <1>2, <1>3, <1>4, <1>5, <1>6

LEMMA BookingAnswerKeeps ==
    ASSUME BookingInv, NEW r \in net, Sends({r}, {}), UNCHANGED server,
           view' \in BookingViews, view'.busy = view.busy \ {r.flag}
    PROVE  BookingInv'
    <1>1. Frame(BookingRequests, {"submit"})' /\ Covered'
      BY BookingFacts, FrameAnswered DEF Moves
    <1> QED BY <1>1 DEF BookingInv

LEMMA BookingAnswersKeep ==
    ASSUME BookingInv, NEW r \in net, BookingLoaded(r) \/ BookingPosted(r) \/ BookingReloaded(r)
    PROVE  BookingInv'
    <1>1. /\ view \in BookingViews /\ Frame(BookingRequests, {"submit"}) /\ Covered
          /\ r \in Requests(Targets, BookingCalls, BookingFlags)
          /\ BookingCall(r) /\ r.saw \in Versions /\ r.arg \in Targets /\ r.at \in Targets
          /\ "" \notin view.busy
      BY BookingFacts
    <1>2. {"partial", "complete"} \subseteq Drafts
      BY DEF Drafts
    <1>3. CASE BookingLoaded(r)
      <2>1. PICK d \in {"partial", "complete"} :
               view' = [(IF r.step = "served" THEN BookingReceived(view, r, r.arg, d)
                         ELSE IF view.shows # None THEN [view EXCEPT !.forms["booking"] = d]
                         ELSE [view EXCEPT !.status = "error"]) EXCEPT !.busy = @ \ {"page"}]
        BY <1>3 DEF BookingLoaded
      <2>2. d \in Drafts
        BY <1>2
      <2>3. PICK v \in BookingViews : v.busy = view.busy /\ view' = [v EXCEPT !.busy = @ \ {"page"}]
        <3>1. [view EXCEPT !.status = "error"] \in BookingViews
              /\ [view EXCEPT !.status = "error"].busy = view.busy
          BY <1>1 DEF BookingViews
        <3>2. CASE r.step = "served"
          BY <1>1, <2>1, <2>2, <3>2, BookingReceives
        <3>3. CASE r.step # "served" /\ view.shows # None
          BY <1>1, <2>1, <2>2, <3>3, BookingForm
        <3>4. CASE r.step # "served" /\ view.shows = None
          BY <2>1, <3>1, <3>4
        <3> QED BY <3>2, <3>3, <3>4
      <2>4. view' \in BookingViews /\ view'.busy = view.busy \ {"page"}
        BY <2>3, BookingLowered
      <2>5. r.flag = "page" /\ Sends({r}, {}) /\ UNCHANGED server
        BY <1>1, <1>3 DEF BookingLoaded, Reads, Answered, BookingCall
      <2> QED BY <2>4, <2>5, BookingAnswerKeeps
    <1>4. CASE BookingPosted(r) /\ r.step = "served"
      <2> DEFINE q == Reread(r)
      <2>1. q \in Requests(Targets, BookingCalls, BookingFlags)
            /\ Asks(q, "read", r.call, r.arg, r.at, r.flag)
        BY <1>1, AskedAgain
      <2>2. Sends({r}, {q}) /\ Moves
        BY <1>4 DEF BookingPosted, Moves
      <2> HIDE DEF q
      <2>3. q \in BookingRequests /\ q.kind = "read" /\ q.flag = r.flag
        BY <1>1, <2>1 DEF BookingRequests, BookingCall, Asks
      <2>4. view' \in BookingViews /\ view'.busy = view.busy
        <3>1. view.asking \in BookingActions \cup {None}
          BY <1>1 DEF BookingViews
        <3>2. PICK a \in BookingActions \cup {None}, s \in {view.status, "success"} :
                 view' = [view EXCEPT !.status = s, !.asking = a]
          <4>1. view = [view EXCEPT !.status = view.status, !.asking = view.asking]
            BY <1>1 DEF BookingViews
          <4> QED BY <1>4, <3>1, <4>1 DEF BookingPosted
        <3> QED BY <1>1, <3>2 DEF BookingViews
      <2>5. Frame(BookingRequests, {"submit"})' /\ Covered'
        BY <1>1, <2>2, <2>3, <2>4, FrameReread
      <2> QED BY <2>4, <2>5 DEF BookingInv
    <1>5. CASE BookingPosted(r) /\ r.step # "served"
      <2>1. Sends({r}, {}) /\ UNCHANGED server /\ r.flag \in {"", "submit"}
        BY <1>1, <1>5 DEF BookingPosted, Wrote, Answered, BookingCall, BookingActions
      <2>2. view' \in BookingViews /\ view'.busy = view.busy \ {r.flag}
        <3>1. CASE r.flag = ""
          BY <1>1, <1>5, <3>1 DEF BookingPosted
        <3>2. CASE r.flag = "submit"
          <4>1. view' = [view EXCEPT !.status = "error", !.busy = @ \ {"submit"}]
            BY <1>5, <3>2 DEF BookingPosted
          <4> QED BY <1>1, <3>2, <4>1 DEF BookingViews
        <3> QED BY <2>1, <3>1, <3>2
      <2> QED BY <2>1, <2>2, BookingAnswerKeeps
    <1>6. CASE BookingReloaded(r)
      <2>1. PICK d \in {"partial", "complete"} :
               view' = [(IF r.step = "served" THEN BookingReceived(view, r, r.at, d)
                         ELSE IF r.flag # "" THEN [view EXCEPT !.status = "error"] ELSE view)
                        EXCEPT !.busy = @ \ {r.flag}]
        BY <1>6 DEF BookingReloaded
      <2>2. d \in Drafts
        BY <1>2
      <2>3. PICK v \in BookingViews : v.busy = view.busy /\ view' = [v EXCEPT !.busy = @ \ {r.flag}]
        <3>1. [view EXCEPT !.status = "error"] \in BookingViews
              /\ [view EXCEPT !.status = "error"].busy = view.busy
          BY <1>1 DEF BookingViews
        <3> QED BY <1>1, <2>1, <2>2, <3>1, BookingReceives
      <2>4. view' \in BookingViews /\ view'.busy = view.busy \ {r.flag}
        BY <2>3, BookingLowered
      <2> QED BY <1>6, <2>4, BookingAnswerKeeps DEF BookingReloaded
    <1> QED BY <1>3, <1>4, <1>5, <1>6

LEMMA BookingStep ==
    ASSUME BookingInv, BookingNext
    PROVE  BookingInv'
    BY BookingAnswersKeep, BookingGoKeeps, BookingUserKeeps DEF BookingNext

LEMMA BookingServed ==
    ASSUME BookingInv, NEW groups, Network(groups)
    PROVE  BookingInv' /\ UNCHANGED <<view, inputs>>
    <1>1. /\ BookingRequests \in SUBSET Requests(Targets, BookingCalls, BookingFlags)
          /\ Unanswered(BookingRequests)
      BY DEF BookingRequests, Unanswered, BookingCall, Requests
    <1>2. Frame(BookingRequests, {"submit"})' /\ Covered' /\ UNCHANGED <<view, inputs>>
      BY <1>1, FrameServed DEF BookingInv
    <1> QED BY <1>2 DEF BookingInv

LEMMA BookingStutters ==
    ASSUME BookingInv, UNCHANGED screen
    PROVE  BookingInv'
    <1>1. Frame(BookingRequests, {"submit"})' /\ Covered' /\ UNCHANGED view
      BY FrameStutters DEF BookingInv, screen
    <1> QED BY <1>1 DEF BookingInv

-----------------------------------------------------------------------------
(* The page of a stay *)

StayCalls == {"detail"} \cup StayActions
StayFlags == {"page", "submit"}
StayCall(r) ==
    IF r.call = "detail" THEN r.kind = "read" /\ r.flag = "page" ELSE r.flag = "submit"
StayRequests == {r \in Requests(Targets, StayCalls, StayFlags) : StayCall(r)}

StayInv == view \in StayViews /\ Frame(StayRequests, {"submit"}) /\ Covered

LEMMA StayStart ==
    ASSUME StayInit
    PROVE  StayInv
    <1>1. PICK may \in Profiles, i \in Items :
             /\ view = [page |-> "stay", may |-> may, at |-> i, shows |-> None, asking |-> None,
                        asked |-> None, busy |-> {"page"}, status |-> "none", lists |-> 0]
             /\ net = {Request("read", "detail", i, "page", 1)}
             /\ Start
      BY DEF StayInit
    <1> DEFINE q == Request("read", "detail", i, "page", 1)
    <1>2. /\ q \in Requests(Targets, StayCalls, StayFlags)
          /\ Asks(q, "read", "detail", i, None, "page")
      <2>1. "detail" \in StayCalls /\ "page" \in StayFlags /\ i \in Targets
        BY TargetsHold DEF StayCalls, StayFlags
      <2> QED BY <2>1, TargetsHold, FirstAsked
    <1>3. net = {q}
      BY <1>1
    <1> HIDE DEF q
    <1>4. q \in StayRequests /\ q.kind = "read" /\ q.flag = "page"
      BY <1>2 DEF StayRequests, StayCall, Asks
    <1>5. Frame(StayRequests, {"submit"})
      <2>1. net \subseteq StayRequests /\ \A r \in net : r.kind = "read" /\ r.flag \notin {"submit"}
        BY <1>3, <1>4
      <2> QED BY <1>1, <2>1, FrameStart
    <1>6. view \in StayViews
      <2>1. 0 \in Versions
        BY MaxWritesNat DEF Versions
      <2> QED BY <1>1, <2>1 DEF StayViews, Targets
    <1>7. Covered
      BY <1>1, <1>3, <1>4 DEF Covered, HasRequest
    <1> QED BY <1>5, <1>6, <1>7 DEF StayInv

LEMMA StayFacts ==
    ASSUME StayInv
    PROVE  /\ view \in StayViews /\ Frame(StayRequests, {"submit"}) /\ Covered
           /\ view.at \in Items /\ view.asked \in Targets /\ view.busy \subseteq {"page", "submit"}
           /\ \A r \in net : /\ r \in Requests(Targets, StayCalls, StayFlags)
                             /\ StayCall(r) /\ r.saw \in Versions /\ r.arg \in Targets
                             /\ r.at \in Targets
    <1>1. \A r \in net : r \in Requests(Targets, StayCalls, StayFlags) /\ StayCall(r)
      BY DEF StayInv, Frame, StayRequests
    <1>2. view \in StayViews
      BY DEF StayInv
    <1> QED BY <1>1, <1>2 DEF StayInv, Requests, StayViews

LEMMA StayQuietKeeps ==
    ASSUME StayInv, StayBar
    PROVE  StayInv'
    <1>1. /\ view \in StayViews /\ Frame(StayRequests, {"submit"}) /\ Covered
          /\ view.at \in Targets /\ view.shows \in Targets
      BY StayFacts, TargetsHold DEF StayViews
    <1>2. UNCHANGED net /\ Moves
      BY DEF StayBar, StayGiveUp, StayAsk, Moves
    <1>3. view' \in StayViews /\ view'.busy = view.busy
      <2>1. CASE StayGiveUp
        BY <1>1, <2>1, TargetsHold DEF StayGiveUp, StayViews
      <2>2. ASSUME NEW a \in StayActions, StayAsk(a)
            PROVE  view' \in StayViews /\ view'.busy = view.busy
        BY <1>1, <2>2 DEF StayAsk, StayViews
      <2> QED BY <2>1, <2>2 DEF StayBar
    <1>4. Frame(StayRequests, {"submit"})' /\ Covered'
      BY <1>1, <1>2, <1>3, FrameQuiet
    <1> QED BY <1>3, <1>4 DEF StayInv

LEMMA StayGoKeeps ==
    ASSUME StayInv, NEW i \in Items, StayGo(i)
    PROVE  StayInv'
    <1>1. view \in StayViews /\ Frame(StayRequests, {"submit"}) /\ Covered
      BY StayFacts
    <1> DEFINE q == Read("detail", i, "page")
    <1>2. /\ q \in Requests(Targets, StayCalls, StayFlags)
          /\ Asks(q, "read", "detail", i, None, "page")
      <2>1. "detail" \in StayCalls /\ "page" \in StayFlags /\ i \in Targets /\ Unsent("detail")
        BY TargetsHold DEF StayCalls, StayFlags, StayGo
      <2> QED BY <2>1, TargetsHold, NewAsked
    <1>3. Sends({}, {q}) /\ Moves
      BY DEF Moves, StayGo
    <1> HIDE DEF q
    <1>4. q \in StayRequests /\ q.kind # "write" /\ q.flag = "page"
      BY <1>2 DEF StayRequests, StayCall, Asks
    <1>5. view' \in StayViews /\ view'.busy = view.busy \cup {"page"}
      BY <1>1 DEF StayGo, StayViews
    <1>6. Frame(StayRequests, {"submit"})' /\ Covered'
      BY <1>1, <1>3, <1>4, <1>5, FrameSent
    <1> QED BY <1>5, <1>6 DEF StayInv

LEMMA StayConfirmKeeps ==
    ASSUME StayInv, StayConfirm
    PROVE  StayInv'
    <1>1. /\ view \in StayViews /\ Frame(StayRequests, {"submit"}) /\ Covered
          /\ view.at \in Targets /\ view.asked \in Targets
      BY StayFacts, TargetsHold
    <1>2. view.asking \in StayActions /\ MayWrite(view.asking) /\ "submit" \notin view.busy
      BY <1>1 DEF StayConfirm, StayViews
    <1> DEFINE q == Keeping(Write(view.asking, view.asked, "submit"), view.at)
    <1>3. /\ q \in Requests(Targets, StayCalls, StayFlags)
          /\ Asks(q, "write", view.asking, view.asked, view.at, "submit")
      <2>1. view.asking \in StayCalls /\ "submit" \in StayFlags /\ Unsent(view.asking)
        BY <1>2 DEF StayCalls, StayFlags, MayWrite
      <2> QED BY <1>1, <2>1, TargetsHold, NewAsked
    <1>4. Sends({}, {q}) /\ Moves
      BY DEF Moves, StayConfirm
    <1> HIDE DEF q
    <1>5. q \in StayRequests /\ q.flag = "submit" /\ MayWrite(q.call)
      BY <1>2, <1>3 DEF StayRequests, StayCall, Asks, StayActions
    <1>6. view' \in StayViews /\ view'.busy = view.busy \cup {"submit"}
      BY <1>1, TargetsHold DEF StayConfirm, StayViews
    <1>7. Frame(StayRequests, {"submit"})' /\ Covered'
      BY <1>1, <1>2, <1>4, <1>5, <1>6, FrameSent
    <1> QED BY <1>6, <1>7 DEF StayInv

\* A refusal lowers every flag: nothing else is known to be loading.
LEMMA StayAnswersKeep ==
    ASSUME StayInv, NEW r \in net, StayLoaded(r) \/ StayPosted(r) \/ StayReloaded(r)
    PROVE  StayInv'
    <1>1. /\ view \in StayViews /\ Frame(StayRequests, {"submit"}) /\ Covered
          /\ r \in Requests(Targets, StayCalls, StayFlags)
          /\ StayCall(r) /\ r.saw \in Versions /\ r.arg \in Targets /\ r.at \in Targets
          /\ view.busy \subseteq {"page", "submit"}
      BY StayFacts
    <1>2. Moves
      BY DEF Moves, StayLoaded, StayPosted, StayReloaded
    <1>3. ASSUME NEW i \in Targets
          PROVE  StayReceived(view, r, i) \in StayViews /\ StayReceived(view, r, i).busy = view.busy
      BY <1>1 DEF StayReceived, StayViews
    <1>4. CASE StayLoaded(r)
      <2>1. [view EXCEPT !.status = "error"] \in StayViews
            /\ [view EXCEPT !.status = "error"].busy = view.busy
        BY <1>1 DEF StayViews
      <2>2. PICK v \in StayViews : v.busy = view.busy /\ view' = [v EXCEPT !.busy = @ \ {"page"}]
        BY <1>1, <1>3, <1>4, <2>1 DEF StayLoaded
      <2>3. view' \in StayViews /\ view'.busy = view.busy \ {"page"}
        BY <2>2 DEF StayViews
      <2>4. r.flag = "page" /\ Sends({r}, {})
        BY <1>1, <1>4 DEF StayLoaded, Reads, Answered, StayCall
      <2>5. Frame(StayRequests, {"submit"})' /\ Covered'
        BY <1>1, <1>2, <2>3, <2>4, FrameAnswered
      <2> QED BY <2>3, <2>5 DEF StayInv
    <1>5. CASE StayPosted(r) /\ r.step = "served"
      <2> DEFINE q == Reread(r)
      <2>1. q \in Requests(Targets, StayCalls, StayFlags)
            /\ Asks(q, "read", r.call, r.arg, r.at, r.flag)
        BY <1>1, AskedAgain
      <2>2. Sends({r}, {q})
        BY <1>5 DEF StayPosted
      <2> HIDE DEF q
      <2>3. r.flag = "submit"
        BY <1>1, <1>5 DEF StayPosted, Wrote, Answered, StayCall, StayActions
      <2>4. q \in StayRequests /\ q.kind = "read" /\ q.flag = "submit"
        BY <1>1, <2>1, <2>3 DEF StayRequests, StayCall, Asks
      <2>5. view' \in StayViews /\ view'.busy = view.busy \ {"page"}
        <3>1. view' = [view EXCEPT !.status = "success", !.busy = @ \ {"page"}]
          BY <1>5 DEF StayPosted
        <3> QED BY <1>1, <3>1 DEF StayViews
      <2>6. Frame(StayRequests, {"submit"})' /\ Covered'
        BY <1>1, <1>2, <2>2, <2>3, <2>4, <2>5, FrameReread
      <2> QED BY <2>5, <2>6 DEF StayInv
    <1>6. ASSUME Sends({r}, {}), view' \in StayViews, view'.busy = {}, r.flag = "submit"
          PROVE  StayInv'
      <2>1. view'.busy \subseteq view.busy \ {r.flag}
        BY <1>6
      <2>2. \A f \in {"submit"} : f \in view.busy /\ f # r.flag => f \in view'.busy
        BY <1>6
      <2>3. Frame(StayRequests, {"submit"})' /\ Covered'
        BY <1>1, <1>2, <1>6, <2>1, <2>2, FrameAnswered
      <2> QED BY <1>6, <2>3 DEF StayInv
    <1>7. CASE StayPosted(r) /\ r.step # "served"
      <2>1. r.flag = "submit"
        BY <1>1, <1>7 DEF StayPosted, Wrote, Answered, StayCall, StayActions
      <2>2. view' \in StayViews /\ view'.busy = {}
        BY <1>1, <1>7 DEF StayPosted, StayViews
      <2> QED BY <1>6, <1>7, <2>1, <2>2 DEF StayPosted
    <1>8. CASE StayReloaded(r)
      <2>1. r.flag = "submit" /\ Sends({r}, {})
        BY <1>1, <1>8 DEF StayReloaded, Reads, Answered, StayCall, StayActions
      <2>2. CASE r.step = "served"
        <3>1. PICK v \in StayViews : v.busy = view.busy /\ view' = [v EXCEPT !.busy = @ \ {"submit"}]
          BY <1>1, <1>3, <1>8, <2>2 DEF StayReloaded
        <3>2. view' \in StayViews /\ view'.busy = view.busy \ {"submit"}
          BY <3>1 DEF StayViews
        <3>3. Frame(StayRequests, {"submit"})' /\ Covered'
          BY <1>1, <1>2, <2>1, <3>2, FrameAnswered
        <3> QED BY <3>2, <3>3 DEF StayInv
      <2>3. CASE r.step # "served"
        <3>1. view' \in StayViews /\ view'.busy = {}
          BY <1>1, <1>8, <2>3 DEF StayReloaded, StayViews
        <3> QED BY <1>6, <2>1, <3>1
      <2> QED BY <2>2, <2>3
    <1> QED BY <1>4, <1>5, <1>7, <1>8

LEMMA StayStep ==
    ASSUME StayInv, StayNext
    PROVE  StayInv'
    BY StayAnswersKeep, StayGoKeeps, StayQuietKeeps, StayConfirmKeeps DEF StayNext

LEMMA StayServed ==
    ASSUME StayInv, NEW groups, Network(groups)
    PROVE  StayInv' /\ UNCHANGED <<view, inputs>>
    <1>1. /\ StayRequests \in SUBSET Requests(Targets, StayCalls, StayFlags)
          /\ Unanswered(StayRequests)
      BY DEF StayRequests, Unanswered, StayCall, Requests
    <1>2. Frame(StayRequests, {"submit"})' /\ Covered' /\ UNCHANGED <<view, inputs>>
      BY <1>1, FrameServed DEF StayInv
    <1> QED BY <1>2 DEF StayInv

LEMMA StayStutters ==
    ASSUME StayInv, UNCHANGED screen
    PROVE  StayInv'
    <1>1. Frame(StayRequests, {"submit"})' /\ Covered' /\ UNCHANGED view
      BY FrameStutters DEF StayInv, screen
    <1> QED BY <1>1 DEF StayInv

-----------------------------------------------------------------------------
(* The page of a day use *)

DayUseCalls == {"detail", "patch", "pay"} \cup DayUseActions
DayUseFlags == {"", "page", "form", "pay"}
DayUseCall(r) ==
    /\ r.call \in DayUseActions => r.kind = "write" /\ r.flag = ""
    /\ r.call = "detail" => r.kind = "read"
    /\ IF r.kind = "read" THEN r.flag = "page" ELSE r.flag \in {"", "form", "pay"}
DayUseRequests == {r \in Requests(Targets, DayUseCalls, DayUseFlags) : DayUseCall(r)}

DayUseInv == view \in DayUseViews /\ Frame(DayUseRequests, {"form", "pay"}) /\ Covered

LEMMA DayUseStart ==
    ASSUME DayUseInit
    PROVE  DayUseInv
    <1>1. PICK may \in Profiles, i \in Items :
             /\ view = [page |-> "day_use", may |-> may, at |-> i, shows |-> None, failed |-> FALSE,
                        asking |-> None, modal |-> FALSE,
                        forms |-> [f \in DayUseForms |-> "blank"], busy |-> {"page"},
                        status |-> "none", lists |-> 0]
             /\ net = {Request("read", "detail", i, "page", 1)}
             /\ Start
      BY DEF DayUseInit
    <1> DEFINE q == Request("read", "detail", i, "page", 1)
    <1>2. /\ q \in Requests(Targets, DayUseCalls, DayUseFlags)
          /\ Asks(q, "read", "detail", i, None, "page")
      <2>1. "detail" \in DayUseCalls /\ "page" \in DayUseFlags /\ i \in Targets
        BY TargetsHold DEF DayUseCalls, DayUseFlags
      <2> QED BY <2>1, TargetsHold, FirstAsked
    <1>3. net = {q}
      BY <1>1
    <1> HIDE DEF q
    <1>4. q \in DayUseRequests /\ q.kind = "read" /\ q.flag = "page"
      BY <1>2 DEF DayUseRequests, DayUseCall, DayUseActions, Asks
    <1>5. Frame(DayUseRequests, {"form", "pay"})
      <2>1. /\ net \subseteq DayUseRequests
            /\ \A r \in net : r.kind = "read" /\ r.flag \notin {"form", "pay"}
        BY <1>3, <1>4
      <2> QED BY <1>1, <2>1, FrameStart
    <1>6. view \in DayUseViews
      <2>1. 0 \in Versions
        BY MaxWritesNat DEF Versions
      <2> QED BY <1>1, <2>1 DEF DayUseViews, Targets, Drafts
    <1>7. Covered
      BY <1>1, <1>3, <1>4 DEF Covered, HasRequest
    <1> QED BY <1>5, <1>6, <1>7 DEF DayUseInv

LEMMA DayUseFacts ==
    ASSUME DayUseInv
    PROVE  /\ view \in DayUseViews /\ Frame(DayUseRequests, {"form", "pay"}) /\ Covered
           /\ "" \notin view.busy /\ view.at \in Items
           /\ \A r \in net : /\ r \in Requests(Targets, DayUseCalls, DayUseFlags)
                             /\ DayUseCall(r) /\ r.saw \in Versions /\ r.arg \in Targets
    <1>1. \A r \in net : r \in Requests(Targets, DayUseCalls, DayUseFlags) /\ DayUseCall(r)
      BY DEF DayUseInv, Frame, DayUseRequests
    <1>2. view \in DayUseViews
      BY DEF DayUseInv
    <1> QED BY <1>1, <1>2 DEF DayUseInv, Requests, DayUseViews

LEMMA DayUseForm ==
    ASSUME NEW v \in DayUseViews, NEW f \in DayUseForms, NEW d \in Drafts
    PROVE  /\ [v EXCEPT !.forms[f] = d] \in DayUseViews
           /\ [v EXCEPT !.forms[f] = d].busy = v.busy
    <1>1. [v.forms EXCEPT ![f] = d] \in [DayUseForms -> Drafts]
      BY DEF DayUseViews
    <1> QED BY <1>1 DEF DayUseViews

LEMMA DayUseShow ==
    ASSUME DayUseInv, NEW r \in net
    PROVE  DayUseShows(view, r) \in DayUseViews /\ DayUseShows(view, r).busy = view.busy
    BY DayUseFacts DEF DayUseShows, DayUseViews

LEMMA DayUseOrphanable == Orphanable(DayUseRequests, {"form", "pay"})
    BY DEF Orphanable, DayUseRequests, DayUseCall, Requests, DayUseFlags

LEMMA DayUseQuietKeeps ==
    ASSUME DayUseInv, UNCHANGED net, Input, view' \in DayUseViews, view'.busy = view.busy
    PROVE  DayUseInv'
    <1>1. Frame(DayUseRequests, {"form", "pay"})' /\ Covered'
      BY DayUseFacts, FrameQuiet DEF Moves
    <1> QED BY <1>1 DEF DayUseInv

\* The loading box takes the forms away: what they sent lowers nothing any more.
LEMMA DayUseReloads ==
    ASSUME DayUseInv, NEW v \in DayUseViews, NEW gone \in SUBSET net, NEW q \in DayUseRequests,
           q.kind = "read", q.flag = "page", Moves,
           view' = DayUseReloading(v), net' = DayUseOrphans(net \ gone) \cup {q}
    PROVE  DayUseInv'
    <1>1. view' \in DayUseViews /\ view'.busy = {"page"}
      <2>1. [f \in DayUseForms |-> "blank"] \in [DayUseForms -> Drafts]
        BY DEF Drafts
      <2> QED BY <2>1 DEF DayUseReloading, DayUseViews
    <1> DEFINE E == {"form", "pay"}
               sent == {q}
    <1>2. Orphaned(E, gone, sent)
      <2>1. DayUseOrphans(net \ gone) = {Unflagged(r, E) : r \in net \ gone}
        BY DEF DayUseOrphans, Unflagged
      <2> QED BY <2>1 DEF Orphaned
    <1>3. sent \in SUBSET DayUseRequests /\ "" \notin E /\ Readings(sent, E)
      BY DEF Readings
    <1>4. LoweredWith(E, E, gone) /\ UpFor(E, gone, sent)
      BY <1>1 DEF LoweredWith, UpFor
    <1>5. Frame(DayUseRequests, E) /\ Covered /\ Orphanable(DayUseRequests, E)
      BY DayUseFacts, DayUseOrphanable
    <1> HIDE DEF E, sent
    <1>6. Frame(DayUseRequests, E)' /\ Covered'
      BY <1>2, <1>3, <1>4, <1>5, FrameOrphaned
    <1> QED BY <1>1, <1>6 DEF DayUseInv, E

LEMMA DayUseRefetches ==
    ASSUME DayUseInv, NEW v \in DayUseViews, NEW gone \in SUBSET net, NEW i \in Targets, Moves,
           DayUseRefetch(v, gone, i)
    PROVE  DayUseInv'
    <1> DEFINE q == Read("detail", i, "page")
    <1>1. /\ q \in Requests(Targets, DayUseCalls, DayUseFlags)
          /\ Asks(q, "read", "detail", i, None, "page")
      <2>1. "detail" \in DayUseCalls /\ "page" \in DayUseFlags /\ Unsent("detail")
        BY DEF DayUseCalls, DayUseFlags, DayUseRefetch
      <2> QED BY <2>1, TargetsHold, NewAsked
    <1>2. view' = DayUseReloading(v) /\ net' = DayUseOrphans(net \ gone) \cup {q}
      BY DEF DayUseRefetch
    <1> HIDE DEF q
    <1>3. q \in DayUseRequests /\ q.kind = "read" /\ q.flag = "page"
      BY <1>1 DEF DayUseRequests, DayUseCall, DayUseActions, Asks
    <1> QED BY <1>2, <1>3, DayUseReloads

LEMMA DayUsePostKeeps ==
    ASSUME DayUseInv, NEW call \in {"patch", "pay"} \cup DayUseActions, NEW flag \in {"", "form", "pay"},
           call \in DayUseActions => flag = "", MayWrite(call), Input,
           Sends({}, {Write(call, view.at, flag)}),
           view' \in DayUseViews, view'.busy = view.busy \cup ({flag} \ {""}), flag \notin view.busy
    PROVE  DayUseInv'
    <1>1. Frame(DayUseRequests, {"form", "pay"}) /\ Covered /\ view.at \in Targets
      BY DayUseFacts, TargetsHold
    <1> DEFINE q == Write(call, view.at, flag)
    <1>2. /\ q \in Requests(Targets, DayUseCalls, DayUseFlags)
          /\ Asks(q, "write", call, view.at, None, flag)
      <2>1. call \in DayUseCalls /\ flag \in DayUseFlags /\ Unsent(call)
        BY DEF DayUseCalls, DayUseFlags, MayWrite
      <2> QED BY <1>1, <2>1, TargetsHold, NewAsked
    <1>3. Sends({}, {q}) /\ Moves
      BY DEF Moves
    <1> HIDE DEF q
    <1>4. q \in DayUseRequests /\ q.call = call /\ q.flag = flag
      BY <1>2 DEF DayUseRequests, DayUseCall, DayUseActions, Asks
    <1>5. /\ view'.busy \subseteq view.busy \cup {q.flag} /\ view.busy \subseteq view'.busy
          /\ q.flag \in {"form", "pay"} => q.flag \in view'.busy /\ q.flag \notin view.busy
          /\ MayWrite(q.call)
      BY <1>4
    <1>6. Frame(DayUseRequests, {"form", "pay"})' /\ Covered'
      BY <1>1, <1>3, <1>4, <1>5, FrameSent
    <1> QED BY <1>6 DEF DayUseInv

LEMMA DayUseClosePaymentKeeps ==
    ASSUME DayUseInv, DayUseClosePayment
    PROVE  DayUseInv'
    <1>1. view \in DayUseViews /\ Frame(DayUseRequests, {"form", "pay"}) /\ Covered
      BY DayUseFacts
    <1>2. view' \in DayUseViews /\ view'.busy = view.busy \ {"pay"}
      <2> DEFINE v == [view EXCEPT !.modal = FALSE, !.busy = @ \ {"pay"}]
      <2>1. v \in DayUseViews /\ v.busy = view.busy \ {"pay"}
        BY <1>1 DEF DayUseViews
      <2>2. view' = [v EXCEPT !.forms["payment"] = "blank"]
        BY <1>1 DEF DayUseClosePayment, DayUseViews
      <2>3. "blank" \in Drafts /\ "payment" \in DayUseForms
        BY DEF Drafts, DayUseForms
      <2> HIDE DEF v
      <2> QED BY <2>1, <2>2, <2>3, DayUseForm
    <1> DEFINE E == {"form", "pay"}
               F == {"pay"}
               gone == {}
               sent == {}
    <1>3. Orphaned(F, gone, sent)
      BY DEF Orphaned, Unflagged, DayUseClosePayment
    <1>4. /\ gone \in SUBSET net /\ sent \in SUBSET DayUseRequests /\ "" \notin E
          /\ Readings(sent, E)
      BY DEF Readings
    <1>5. LoweredWith(E, F, gone) /\ UpFor(F, gone, sent)
      BY <1>2 DEF LoweredWith, UpFor
    <1>6. Frame(DayUseRequests, E) /\ Covered /\ Orphanable(DayUseRequests, F) /\ Moves
      BY <1>1, DayUseOrphanable DEF Orphanable, DayUseClosePayment, Moves
    <1> HIDE DEF E, F, gone, sent
    <1>7. Frame(DayUseRequests, E)' /\ Covered'
      BY <1>3, <1>4, <1>5, <1>6, FrameOrphaned
    <1> QED BY <1>2, <1>7 DEF DayUseInv, E

LEMMA DayUseUserKeeps ==
    ASSUME DayUseInv,
           \/ DayUseTopBar \/ DayUseGiveUp \/ DayUseConfirm \/ DayUseAcknowledge
           \/ DayUseFormCard \/ DayUsePaymentModal \/ DayUseOpenPayment
    PROVE  DayUseInv'
    <1>1. /\ view \in DayUseViews /\ view.at \in Targets /\ "" \notin view.busy
          /\ "blank" \in Drafts /\ {"partial", "complete"} \subseteq Drafts
          /\ "payment" \in DayUseForms /\ "day_use" \in DayUseForms
      BY DayUseFacts, TargetsHold DEF Drafts, DayUseForms
    <1>2. CASE DayUseCheckCleaning
      <2>1. Moves /\ {} \in SUBSET net /\ DayUseRefetch(view, {}, view.at)
        BY <1>2 DEF DayUseCheckCleaning, Moves
      <2> QED BY <1>1, <2>1, DayUseRefetches
    <1>3. ASSUME NEW a \in DayUseActions, DayUseAsk(a)
          PROVE  DayUseInv'
      <2>1. view' \in DayUseViews /\ view'.busy = view.busy
        BY <1>1, <1>3 DEF DayUseAsk, DayUseViews
      <2> QED BY <1>3, <2>1, DayUseQuietKeeps DEF DayUseAsk
    <1>4. CASE DayUseGiveUp
      <2>1. view' \in DayUseViews /\ view'.busy = view.busy
        BY <1>1, <1>4 DEF DayUseGiveUp, DayUseViews
      <2> QED BY <1>4, <2>1, DayUseQuietKeeps DEF DayUseGiveUp
    <1>5. CASE DayUseAcknowledge
      <2>1. view' \in DayUseViews /\ view'.busy = view.busy
        BY <1>1, <1>5 DEF DayUseAcknowledge, DayUseViews
      <2> QED BY <1>5, <2>1, DayUseQuietKeeps DEF DayUseAcknowledge
    <1>6. CASE DayUseConfirm
      <2>1. view' \in DayUseViews /\ view'.busy = view.busy \cup ({""} \ {""})
        BY <1>1, <1>6 DEF DayUseConfirm, DayUseViews
      <2>2. view.asking \in DayUseActions
        BY <1>1, <1>6 DEF DayUseConfirm, DayUseViews
      <2> QED BY <1>1, <1>6, <2>1, <2>2, DayUsePostKeeps DEF DayUseConfirm
    <1>7. ASSUME NEW f \in DayUseForms, NEW d \in {"partial", "complete"}, DayUseEdit(f, d)
          PROVE  DayUseInv'
      <2>1. view' \in DayUseViews /\ view'.busy = view.busy
        BY <1>1, <1>7, DayUseForm DEF DayUseEdit
      <2> QED BY <1>7, <2>1, DayUseQuietKeeps DEF DayUseEdit
    <1>8. CASE DayUseSaveForm
      <2>1. view' \in DayUseViews /\ view'.busy = view.busy \cup ({"form"} \ {""})
        BY <1>1, <1>8 DEF DayUseSaveForm, DayUseViews
      <2> QED BY <1>8, <2>1, DayUsePostKeeps DEF DayUseSaveForm, DayUseActions
    <1>9. CASE DayUseOpenPayment
      <2> DEFINE v == [view EXCEPT !.modal = TRUE]
      <2>1. v \in DayUseViews /\ v.busy = view.busy
        BY <1>1 DEF DayUseViews
      <2>2. view' = [v EXCEPT !.forms["payment"] = "blank"]
        BY <1>1, <1>9 DEF DayUseOpenPayment, DayUseViews
      <2> HIDE DEF v
      <2>3. view' \in DayUseViews /\ view'.busy = view.busy
        BY <1>1, <2>1, <2>2, DayUseForm
      <2> QED BY <1>9, <2>3, DayUseQuietKeeps DEF DayUseOpenPayment
    <1>10. CASE DayUsePay
      <2>1. view' \in DayUseViews /\ view'.busy = view.busy \cup ({"pay"} \ {""})
        BY <1>1, <1>10 DEF DayUsePay, DayUseViews
      <2> QED BY <1>10, <2>1, DayUsePostKeeps DEF DayUsePay, DayUseActions
    <1>11. CASE DayUseClosePayment
      BY <1>11, DayUseClosePaymentKeeps
    <1>12. DayUseTopBar => DayUseInv'
      BY <1>2, <1>3 DEF DayUseTopBar
    <1>13. DayUseFormCard => DayUseInv'
      BY <1>1, <1>7, <1>8 DEF DayUseFormCard
    <1>14. DayUsePaymentModal => DayUseInv'
      BY <1>1, <1>7, <1>10, <1>11 DEF DayUsePaymentModal
    <1> QED BY <1>4, <1>5, <1>6, <1>9, <1>12, <1>13, <1>14

LEMMA DayUseAnswersKeep ==
    ASSUME DayUseInv, NEW r \in net,
           DayUseLoaded(r) \/ DayUseActed(r) \/ DayUseSaved(r) \/ DayUseSavedTwice(r)
    PROVE  DayUseInv'
    <1>1. /\ view \in DayUseViews /\ Frame(DayUseRequests, {"form", "pay"}) /\ Covered
          /\ r \in Requests(Targets, DayUseCalls, DayUseFlags)
          /\ DayUseCall(r) /\ r.saw \in Versions /\ r.arg \in Targets
          /\ "" \notin view.busy /\ {r} \in SUBSET net
      BY DayUseFacts
    <1>2. Moves
      BY DEF Moves, DayUseLoaded, DayUseActed, DayUseSaved, DayUseSavedTwice
    <1>3. DayUseShows(view, r) \in DayUseViews /\ DayUseShows(view, r).busy = view.busy
      BY DayUseShow
    <1>4. ASSUME Sends({r}, {}), view' \in DayUseViews, view'.busy = view.busy \ {r.flag}
          PROVE  DayUseInv'
      <2>1. Frame(DayUseRequests, {"form", "pay"})' /\ Covered'
        BY <1>1, <1>2, <1>4, FrameAnswered
      <2> QED BY <1>4, <2>1 DEF DayUseInv
    <1>5. CASE DayUseLoaded(r)
      <2>1. r.flag = "page" /\ Sends({r}, {})
        BY <1>1, <1>5 DEF DayUseLoaded, Reads, Answered, DayUseCall
      <2>2. CASE r.step = "served"
        <3> DEFINE v == [DayUseShows(view, r) EXCEPT !.busy = @ \ {"page"}]
        <3>1. v \in DayUseViews /\ v.busy = view.busy \ {"page"}
          BY <1>3 DEF DayUseViews
        <3>2. view' = [v EXCEPT !.forms["day_use"] = "complete"]
          BY <1>3, <1>5, <2>2 DEF DayUseLoaded, DayUseBack, DayUseViews
        <3>3. "complete" \in Drafts /\ "day_use" \in DayUseForms
          BY DEF Drafts, DayUseForms
        <3> HIDE DEF v
        <3>4. view' \in DayUseViews /\ view'.busy = view.busy \ {"page"}
          BY <3>1, <3>2, <3>3, DayUseForm
        <3> QED BY <1>4, <2>1, <3>4
      <2>3. CASE r.step # "served"
        <3>1. view' \in DayUseViews /\ view'.busy = view.busy \ {"page"}
          BY <1>1, <1>5, <2>3 DEF DayUseLoaded, DayUseViews
        <3> QED BY <1>4, <2>1, <3>1
      <2> QED BY <2>2, <2>3
    <1>6. CASE DayUseActed(r)
      <2>1. CASE r.step = "served"
        <3>1. DayUseRefetch(DayUseShows(view, r), {r}, r.arg)
          BY <1>6, <2>1 DEF DayUseActed
        <3> QED BY <1>1, <1>2, <1>3, <3>1, DayUseRefetches
      <2>2. CASE r.step # "served"
        <3>1. view' = [view EXCEPT !.status = "error"] /\ Sends({r}, {}) /\ r.flag = ""
          BY <1>1, <1>6, <2>2 DEF DayUseActed, Wrote, Answered, DayUseCall
        <3>2. view' \in DayUseViews /\ view'.busy = view.busy \ {r.flag}
          BY <1>1, <3>1 DEF DayUseViews
        <3> QED BY <1>4, <3>1, <3>2
      <2> QED BY <2>1, <2>2
    <1>7. CASE DayUseSaved(r)
      <2>1. CASE r.step = "served"
        <3> DEFINE q == [Reread(r) EXCEPT !.flag = "page"]
        <3>1. /\ Reread(r) \in Requests(Targets, DayUseCalls, DayUseFlags)
              /\ Asks(Reread(r), "read", r.call, r.arg, r.at, r.flag)
          BY <1>1, AskedAgain
        <3>2. r.call \in {"patch", "pay"}
          BY <1>7 DEF DayUseSaved, Wrote, Answered
        <3>3. q \in DayUseRequests /\ q.kind = "read" /\ q.flag = "page"
          <4>1. "page" \in DayUseFlags
            BY DEF DayUseFlags
          <4>2. q \in Requests(Targets, DayUseCalls, DayUseFlags) /\ q.kind = "read"
                /\ q.flag = "page" /\ q.call = r.call
            BY <3>1, <4>1 DEF Asks, Requests
          <4> HIDE DEF q
          <4> QED BY <3>2, <4>2 DEF DayUseRequests, DayUseCall, DayUseActions
        <3>4. /\ view' = DayUseReloading(DayUseShows(view, r))
              /\ net' = DayUseOrphans(net \ {r}) \cup {q}
          BY <1>7, <2>1 DEF DayUseSaved
        <3> HIDE DEF q
        <3> QED BY <1>1, <1>2, <1>3, <3>3, <3>4, DayUseReloads
      <2>2. CASE r.step # "served"
        <3>1. view' = [view EXCEPT !.busy = @ \ {r.flag}] /\ Sends({r}, {})
          BY <1>7, <2>2 DEF DayUseSaved
        <3>2. view' \in DayUseViews /\ view'.busy = view.busy \ {r.flag}
          BY <1>1, <3>1 DEF DayUseViews
        <3> QED BY <1>4, <3>1, <3>2
      <2> QED BY <2>1, <2>2
    <1>8. CASE DayUseSavedTwice(r)
      <2>1. PICK u \in DayUseViews : DayUseRefetch([u EXCEPT !.modal = IF r.call = "pay" THEN FALSE ELSE @],
                                                   {r}, r.arg)
        BY <1>1, <1>3, <1>8 DEF DayUseSavedTwice
      <2>2. [u EXCEPT !.modal = IF r.call = "pay" THEN FALSE ELSE @] \in DayUseViews
        BY DEF DayUseViews
      <2> QED BY <1>1, <1>2, <2>1, <2>2, DayUseRefetches
    <1> QED BY <1>5, <1>6, <1>7, <1>8

LEMMA DayUseStep ==
    ASSUME DayUseInv, DayUseNext
    PROVE  DayUseInv'
    <1>1. ASSUME NEW i \in Items, DayUseGo(i)
          PROVE  DayUseInv'
      <2>1. [view EXCEPT !.at = i] \in DayUseViews
        BY DayUseFacts DEF DayUseViews
      <2>2. Moves /\ {} \in SUBSET net /\ DayUseRefetch([view EXCEPT !.at = i], {}, i)
        BY <1>1 DEF DayUseGo, Moves
      <2> QED BY <2>1, <2>2, TargetsHold, DayUseRefetches
    <1> QED BY <1>1, DayUseAnswersKeep, DayUseUserKeeps DEF DayUseNext

LEMMA DayUseServed ==
    ASSUME DayUseInv, NEW groups, Network(groups)
    PROVE  DayUseInv' /\ UNCHANGED <<view, inputs>>
    <1>1. /\ DayUseRequests \in SUBSET Requests(Targets, DayUseCalls, DayUseFlags)
          /\ Unanswered(DayUseRequests)
      BY DEF DayUseRequests, Unanswered, DayUseCall, Requests
    <1>2. Frame(DayUseRequests, {"form", "pay"})' /\ Covered' /\ UNCHANGED <<view, inputs>>
      BY <1>1, FrameServed DEF DayUseInv
    <1> QED BY <1>2 DEF DayUseInv

LEMMA DayUseStutters ==
    ASSUME DayUseInv, UNCHANGED screen
    PROVE  DayUseInv'
    <1>1. Frame(DayUseRequests, {"form", "pay"})' /\ Covered' /\ UNCHANGED view
      BY FrameStutters DEF DayUseInv, screen
    <1> QED BY <1>1 DEF DayUseInv

-----------------------------------------------------------------------------
(* The page of a payment *)

PaymentCalls == {"detail", "patch", "cancel", "refund"}
PaymentFlags == {"", "page", "form"}
PaymentCall(r) ==
    IF r.call = "detail" THEN r.kind = "read" /\ r.flag = "page"
    ELSE r.kind = "write" /\ r.flag \in IF r.call = "patch" THEN {"", "form"} ELSE {""}
PaymentRequests == {r \in Requests(Targets, PaymentCalls, PaymentFlags) : PaymentCall(r)}

PaymentInv == view \in PaymentViews /\ Frame(PaymentRequests, {"form"}) /\ Covered

LEMMA PaymentStart ==
    ASSUME PaymentInit
    PROVE  PaymentInv
    <1>1. PICK may \in Profiles, i \in Items :
             /\ view = [page |-> "payment", may |-> may, at |-> i, shows |-> None, failed |-> FALSE,
                        tab |-> "info", forms |-> [f \in {"payment"} |-> "blank"],
                        busy |-> {"page"}, lists |-> 0]
             /\ net = {Request("read", "detail", i, "page", 1)}
             /\ Start
      BY DEF PaymentInit
    <1> DEFINE q == Request("read", "detail", i, "page", 1)
    <1>2. /\ q \in Requests(Targets, PaymentCalls, PaymentFlags)
          /\ Asks(q, "read", "detail", i, None, "page")
      <2>1. "detail" \in PaymentCalls /\ "page" \in PaymentFlags /\ i \in Targets
        BY TargetsHold DEF PaymentCalls, PaymentFlags
      <2> QED BY <2>1, TargetsHold, FirstAsked
    <1>3. net = {q}
      BY <1>1
    <1> HIDE DEF q
    <1>4. q \in PaymentRequests /\ q.kind = "read" /\ q.flag = "page"
      BY <1>2 DEF PaymentRequests, PaymentCall, Asks
    <1>5. Frame(PaymentRequests, {"form"})
      <2>1. net \subseteq PaymentRequests /\ \A r \in net : r.kind = "read" /\ r.flag \notin {"form"}
        BY <1>3, <1>4
      <2> QED BY <1>1, <2>1, FrameStart
    <1>6. view \in PaymentViews
      <2>1. 0 \in Versions
        BY MaxWritesNat DEF Versions
      <2> QED BY <1>1, <2>1 DEF PaymentViews, Targets, Drafts
    <1>7. Covered
      BY <1>1, <1>3, <1>4 DEF Covered, HasRequest
    <1> QED BY <1>5, <1>6, <1>7 DEF PaymentInv

LEMMA PaymentFacts ==
    ASSUME PaymentInv
    PROVE  /\ view \in PaymentViews /\ Frame(PaymentRequests, {"form"}) /\ Covered
           /\ "" \notin view.busy /\ view.at \in Items
           /\ \A r \in net : /\ r \in Requests(Targets, PaymentCalls, PaymentFlags)
                             /\ PaymentCall(r) /\ r.saw \in Versions /\ r.arg \in Targets
    <1>1. \A r \in net : r \in Requests(Targets, PaymentCalls, PaymentFlags) /\ PaymentCall(r)
      BY DEF PaymentInv, Frame, PaymentRequests
    <1>2. view \in PaymentViews
      BY DEF PaymentInv
    <1> QED BY <1>1, <1>2 DEF PaymentInv, Requests, PaymentViews

LEMMA PaymentForm ==
    ASSUME NEW v \in PaymentViews
    PROVE  /\ \A d \in Drafts : /\ [v EXCEPT !.forms["payment"] = d] \in PaymentViews
                                /\ [v EXCEPT !.forms["payment"] = d].busy = v.busy
           /\ PaymentFilled(v) \in PaymentViews /\ PaymentFilled(v).busy = v.busy
    <1>1. ASSUME NEW d \in Drafts
          PROVE  /\ [v EXCEPT !.forms["payment"] = d] \in PaymentViews
                 /\ [v EXCEPT !.forms["payment"] = d].busy = v.busy
      <2>1. [v.forms EXCEPT !["payment"] = d] \in [{"payment"} -> Drafts]
        BY DEF PaymentViews
      <2> QED BY <2>1 DEF PaymentViews
    <1>2. PICK d \in Drafts : PaymentFilled(v) = [v EXCEPT !.forms["payment"] = d]
      BY DEF PaymentFilled, Drafts
    <1> QED BY <1>1, <1>2

LEMMA PaymentShow ==
    ASSUME PaymentInv, NEW r \in net
    PROVE  PaymentShows(view, r) \in PaymentViews /\ PaymentShows(view, r).busy = view.busy
    BY PaymentFacts DEF PaymentShows, PaymentViews

LEMMA PaymentOrphanable == Orphanable(PaymentRequests, {"form"})
    BY DEF Orphanable, PaymentRequests, PaymentCall, Requests, PaymentFlags

\* The correction is taken away: by the loading box or by its tab.
LEMMA PaymentOrphaned ==
    ASSUME PaymentInv, NEW gone \in SUBSET net, NEW sent \in SUBSET PaymentRequests,
           \A q \in sent : q.kind = "read" /\ q.flag = "page",
           "page" \in view'.busy => sent # {}, view' \in PaymentViews, view'.busy \subseteq {"page"},
           net' = PaymentOrphans(net \ gone) \cup sent, Moves
    PROVE  PaymentInv'
    <1> DEFINE E == {"form"}
    <1>1. Orphaned(E, gone, sent)
      <2>1. PaymentOrphans(net \ gone) = {Unflagged(r, E) : r \in net \ gone}
        BY DEF PaymentOrphans, Unflagged
      <2> QED BY <2>1 DEF Orphaned
    <1>2. "" \notin E /\ Readings(sent, E)
      BY DEF Readings
    <1>3. LoweredWith(E, E, gone) /\ UpFor(E, gone, sent)
      BY DEF LoweredWith, UpFor
    <1>4. Frame(PaymentRequests, E) /\ Covered /\ Orphanable(PaymentRequests, E)
      BY PaymentFacts, PaymentOrphanable
    <1> HIDE DEF E
    <1>5. Frame(PaymentRequests, E)' /\ Covered'
      BY <1>1, <1>2, <1>3, <1>4, FrameOrphaned
    <1> QED BY <1>5 DEF PaymentInv, E

LEMMA PaymentRefetches ==
    ASSUME PaymentInv, NEW v \in PaymentViews, NEW gone \in SUBSET net, NEW i \in Targets, Moves,
           PaymentRefetch(v, gone, i)
    PROVE  PaymentInv'
    <1> DEFINE q == Read("detail", i, "page")
    <1>1. /\ q \in Requests(Targets, PaymentCalls, PaymentFlags)
          /\ Asks(q, "read", "detail", i, None, "page")
      <2>1. "detail" \in PaymentCalls /\ "page" \in PaymentFlags /\ Unsent("detail")
        BY DEF PaymentCalls, PaymentFlags, PaymentRefetch
      <2> QED BY <2>1, TargetsHold, NewAsked
    <1>2. net' = PaymentOrphans(net \ gone) \cup {q}
      BY DEF PaymentRefetch
    <1> HIDE DEF q
    <1>3. {q} \in SUBSET PaymentRequests /\ \A x \in {q} : x.kind = "read" /\ x.flag = "page"
      BY <1>1 DEF PaymentRequests, PaymentCall, Asks
    <1>4. view' \in PaymentViews /\ view'.busy \subseteq {"page"}
      <2> DEFINE u == [v EXCEPT !.busy = {"page"}, !.failed = FALSE]
      <2>1. u \in PaymentViews /\ u.busy = {"page"}
        BY DEF PaymentViews
      <2>2. view' = PaymentFilled(u)
        BY DEF PaymentRefetch
      <2> HIDE DEF u
      <2> QED BY <2>1, <2>2, PaymentForm
    <1> DEFINE sent == {q}
    <1>5. sent # {} /\ net' = PaymentOrphans(net \ gone) \cup sent /\ sent \in SUBSET PaymentRequests
          /\ \A x \in sent : x.kind = "read" /\ x.flag = "page"
      BY <1>2, <1>3
    <1> HIDE DEF sent
    <1> QED BY <1>4, <1>5, PaymentOrphaned

LEMMA PaymentPostKeeps ==
    ASSUME PaymentInv, NEW call \in {"patch", "cancel", "refund"}, NEW flag \in {"", "form"},
           call # "patch" => flag = "", MayWrite(call), Input,
           Sends({}, {Write(call, view.at, flag)}), view' \in PaymentViews,
           view'.busy = view.busy \cup ({flag} \ {""}), flag \notin view.busy
    PROVE  PaymentInv'
    <1>1. Frame(PaymentRequests, {"form"}) /\ Covered /\ view.at \in Targets
      BY PaymentFacts, TargetsHold
    <1> DEFINE q == Write(call, view.at, flag)
    <1>2. /\ q \in Requests(Targets, PaymentCalls, PaymentFlags)
          /\ Asks(q, "write", call, view.at, None, flag)
      <2>1. call \in PaymentCalls /\ flag \in PaymentFlags /\ Unsent(call)
        BY DEF PaymentCalls, PaymentFlags, MayWrite
      <2> QED BY <1>1, <2>1, TargetsHold, NewAsked
    <1>3. Sends({}, {q}) /\ Moves
      BY DEF Moves
    <1> HIDE DEF q
    <1>4. q \in PaymentRequests /\ q.call = call /\ q.flag = flag
      BY <1>2 DEF PaymentRequests, PaymentCall, Asks
    <1>5. /\ view'.busy \subseteq view.busy \cup {q.flag} /\ view.busy \subseteq view'.busy
          /\ q.flag \in {"form"} => q.flag \in view'.busy /\ q.flag \notin view.busy
          /\ MayWrite(q.call)
      BY <1>4
    <1>6. Frame(PaymentRequests, {"form"})' /\ Covered'
      BY <1>1, <1>3, <1>4, <1>5, FrameSent
    <1> QED BY <1>6 DEF PaymentInv

LEMMA PaymentUserKeeps ==
    ASSUME PaymentInv,
           \/ \E i \in Items : PaymentGo(i)
           \/ \E t \in {"info", "correct"} : PaymentTab(t)
           \/ PaymentTopBar \/ PaymentCorrectionTab
    PROVE  PaymentInv'
    <1>1. view \in PaymentViews /\ Frame(PaymentRequests, {"form"}) /\ Covered /\ "" \notin view.busy
      BY PaymentFacts
    <1>2. ASSUME NEW i \in Items, PaymentGo(i)
          PROVE  PaymentInv'
      <2>1. [view EXCEPT !.at = i] \in PaymentViews
        BY <1>1 DEF PaymentViews
      <2>2. Moves /\ {} \in SUBSET net /\ PaymentRefetch([view EXCEPT !.at = i], {}, i)
        BY <1>2 DEF PaymentGo, Moves
      <2> QED BY <2>1, <2>2, TargetsHold, PaymentRefetches
    <1>3. ASSUME NEW t \in {"info", "correct"}, PaymentTab(t)
          PROVE  PaymentInv'
      <2>1. view' \in PaymentViews /\ view'.busy = {}
        <3> DEFINE u == [view EXCEPT !.tab = t, !.busy = {}]
        <3>1. u \in PaymentViews /\ u.busy = {}
          BY <1>1 DEF PaymentViews
        <3>2. view' = PaymentFilled(u)
          BY <1>3 DEF PaymentTab
        <3> HIDE DEF u
        <3> QED BY <3>1, <3>2, PaymentForm
      <2> DEFINE gone == {}
                 sent == {}
      <2>2. /\ gone \in SUBSET net /\ sent \in SUBSET PaymentRequests /\ Moves
            /\ net' = PaymentOrphans(net \ gone) \cup sent
            /\ \A q \in sent : q.kind = "read" /\ q.flag = "page"
        <3>1. net \ gone = net
          OBVIOUS
        <3> QED BY <1>3, <3>1 DEF PaymentTab, Moves
      <2> HIDE DEF gone, sent
      <2> QED BY <2>1, <2>2, PaymentOrphaned
    <1>4. CASE PaymentTopBar
      <2>1. PICK call \in {"cancel", "refund"} : PaymentUndo(call)
        BY <1>4 DEF PaymentTopBar
      <2>2. view' \in PaymentViews /\ view'.busy = view.busy \cup ({""} \ {""})
        BY <1>1, <2>1 DEF PaymentUndo
      <2> QED BY <1>1, <2>1, <2>2, PaymentPostKeeps DEF PaymentUndo
    <1>5. CASE PaymentCorrect
      <2>1. view' \in PaymentViews /\ view'.busy = view.busy \cup ({"form"} \ {""})
        BY <1>1, <1>5 DEF PaymentCorrect, PaymentViews
      <2> QED BY <1>5, <2>1, PaymentPostKeeps DEF PaymentCorrect
    <1>6. ASSUME NEW d \in {"partial", "complete"}, PaymentEdit(d)
          PROVE  PaymentInv'
      <2>1. d \in Drafts
        BY DEF Drafts
      <2>2. view' \in PaymentViews /\ view'.busy = view.busy /\ UNCHANGED net /\ Moves
        BY <1>1, <1>6, <2>1, PaymentForm DEF PaymentEdit, Moves
      <2>3. Frame(PaymentRequests, {"form"})' /\ Covered'
        BY <1>1, <2>2, FrameQuiet
      <2> QED BY <2>2, <2>3 DEF PaymentInv
    <1>7. PaymentCorrectionTab => PaymentInv'
      BY <1>5, <1>6 DEF PaymentCorrectionTab
    <1> QED BY <1>2, <1>3, <1>4, <1>7

LEMMA PaymentAnswersKeep ==
    ASSUME PaymentInv, NEW r \in net,
           PaymentLoaded(r) \/ PaymentUndone(r) \/ PaymentCorrected(r)
    PROVE  PaymentInv'
    <1>1. /\ view \in PaymentViews /\ Frame(PaymentRequests, {"form"}) /\ Covered
          /\ r \in Requests(Targets, PaymentCalls, PaymentFlags)
          /\ PaymentCall(r) /\ r.saw \in Versions /\ r.arg \in Targets
          /\ "" \notin view.busy /\ {r} \in SUBSET net
      BY PaymentFacts
    <1>2. Moves
      BY DEF Moves, PaymentLoaded, PaymentUndone, PaymentCorrected
    <1>3. PaymentShows(view, r) \in PaymentViews /\ PaymentShows(view, r).busy = view.busy
      BY PaymentShow
    <1>4. ASSUME Sends({r}, {}), view' \in PaymentViews, view'.busy \subseteq view.busy \ {r.flag},
                 \A f \in {"form"} : f \in view.busy /\ f # r.flag => f \in view'.busy
          PROVE  PaymentInv'
      <2>1. Frame(PaymentRequests, {"form"})' /\ Covered'
        BY <1>1, <1>2, <1>4, FrameAnswered
      <2> QED BY <1>4, <2>1 DEF PaymentInv
    <1>5. CASE PaymentLoaded(r)
      <2>1. r.flag = "page" /\ Sends({r}, {})
        BY <1>1, <1>5 DEF PaymentLoaded, Reads, Answered, PaymentCall
      <2>2. [view EXCEPT !.failed = TRUE] \in PaymentViews
            /\ [view EXCEPT !.failed = TRUE].busy = view.busy
        BY <1>1 DEF PaymentViews
      <2>3. PICK v \in PaymentViews : /\ v.busy = view.busy
                                      /\ view' = PaymentFilled([v EXCEPT !.busy = @ \ {"page"}])
        BY <1>3, <1>5, <2>2 DEF PaymentLoaded
      <2> DEFINE u == [v EXCEPT !.busy = @ \ {"page"}]
      <2>4. u \in PaymentViews /\ u.busy = view.busy \ {"page"} /\ view' = PaymentFilled(u)
        BY <2>3 DEF PaymentViews
      <2> HIDE DEF u
      <2>5. view' \in PaymentViews /\ view'.busy = view.busy \ {"page"}
        BY <2>4, PaymentForm
      <2> QED BY <1>4, <2>1, <2>5
    <1>6. CASE PaymentUndone(r)
      <2>1. Sends({r}, {}) /\ r.flag = ""
        BY <1>1, <1>6 DEF PaymentUndone, Wrote, Answered, PaymentCall
      <2>2. view' \in PaymentViews /\ view'.busy = view.busy
        BY <1>1, <1>3, <1>6, PaymentForm DEF PaymentUndone
      <2> QED BY <1>1, <1>4, <2>1, <2>2
    <1>7. CASE PaymentCorrected(r)
      <2>1. CASE r.step = "served"
        <3>1. PaymentRefetch(PaymentShows(view, r), {r}, r.arg)
          BY <1>7, <2>1 DEF PaymentCorrected
        <3> QED BY <1>1, <1>2, <1>3, <3>1, PaymentRefetches
      <2>2. CASE r.step # "served"
        <3>1. view' = [view EXCEPT !.busy = @ \ {r.flag}] /\ Sends({r}, {})
          BY <1>7, <2>2 DEF PaymentCorrected
        <3>2. view' \in PaymentViews /\ view'.busy = view.busy \ {r.flag}
          BY <1>1, <3>1 DEF PaymentViews
        <3> QED BY <1>4, <3>1, <3>2
      <2> QED BY <2>1, <2>2
    <1> QED BY <1>5, <1>6, <1>7

LEMMA PaymentStep ==
    ASSUME PaymentInv, PaymentNext
    PROVE  PaymentInv'
    BY PaymentAnswersKeep, PaymentUserKeeps DEF PaymentNext

LEMMA PaymentServed ==
    ASSUME PaymentInv, NEW groups, Network(groups)
    PROVE  PaymentInv' /\ UNCHANGED <<view, inputs>>
    <1>1. /\ PaymentRequests \in SUBSET Requests(Targets, PaymentCalls, PaymentFlags)
          /\ Unanswered(PaymentRequests)
      BY DEF PaymentRequests, Unanswered, PaymentCall, Requests
    <1>2. Frame(PaymentRequests, {"form"})' /\ Covered' /\ UNCHANGED <<view, inputs>>
      BY <1>1, FrameServed DEF PaymentInv
    <1> QED BY <1>2 DEF PaymentInv

LEMMA PaymentStutters ==
    ASSUME PaymentInv, UNCHANGED screen
    PROVE  PaymentInv'
    <1>1. Frame(PaymentRequests, {"form"})' /\ Covered' /\ UNCHANGED view
      BY FrameStutters DEF PaymentInv, screen
    <1> QED BY <1>1 DEF PaymentInv

-----------------------------------------------------------------------------
(* The lists of the desk *)

ListSubjects == Targets \cup Queries \cup ListQueries
ListCalls == {"list", "refresh", "check_in"}
ListFlags == {"", "page"}
ListCall(r) ==
    /\ r.at \in ListQueries
    /\ IF r.call = "check_in" THEN r.flag = "" /\ r.arg \in Items
       ELSE r.kind = "read" /\ r.flag = "page"
ListRequests == {r \in Requests(ListSubjects, ListCalls, ListFlags) : ListCall(r)}

\* A row that waits has its check-in in flight.
ListActing == view.acting # None => \E r \in net : r.call = "check_in" /\ r.arg = view.acting

\* What reads the payments reads those of the query shown.
ListAnswer(r) ==
    r.call = "list" /\ r.at = ListQuery(view) /\ (failures = 0 => r.step \in {"sent", "served"})
ListPaid ==
    view.page = "payments" /\ ListReadable(view) =>
        /\ \A r \in net : ListAnswer(r)
        /\ net = {} /\ failures = 0 => view.shown.of = ListQuery(view)

ListInv == /\ view \in ListViews /\ Frame(ListRequests, {}) /\ (ListReadable(view) => Covered)
           /\ ListActing /\ ListPaid

LEMMA ListSubject ==
    /\ None \in ListSubjects /\ NoWord \in ListSubjects /\ Items \subseteq ListSubjects
    /\ ListQueries \subseteq ListSubjects
    /\ \A v \in ListViews : ListQuery(v) \in ListQueries
    <1>1. \A v \in ListViews : ListQuery(v) \in ListQueries
      BY DEF ListViews, ListQuery, ListQueries
    <1> QED BY <1>1 DEF ListSubjects, Targets, Queries

LEMMA ListEffectAsks ==
    ASSUME NEW v \in ListViews
    PROVE  /\ ListEffect(v) \in ListRequests /\ ListEffect(v).step = "sent"
           /\ Asks(ListEffect(v), "read", "list", NoWord, ListQuery(v), "page")
    <1>1. /\ ListEffect(v) \in Requests(ListSubjects, ListCalls, ListFlags)
          /\ Asks(ListEffect(v), "read", "list", NoWord, ListQuery(v), "page")
      <2>1. "list" \in ListCalls /\ "page" \in ListFlags /\ ListQuery(v) \in ListSubjects
        BY ListSubject DEF ListCalls, ListFlags
      <2> QED BY <2>1, ListSubject, FirstAsked DEF ListEffect
    <1>2. ListEffect(v).step = "sent"
      BY DEF ListEffect, Keeping, Request
    <1> QED BY <1>1, <1>2, ListSubject DEF ListRequests, ListCall, Asks

LEMMA ListStart ==
    ASSUME ListInit
    PROVE  ListInv
    <1>1. PICK p \in ListPages, may \in Profiles :
             /\ view = [page |-> p, may |-> may, typed |-> NoWord, word |-> NoWord,
                        filter |-> NoWord, turn |-> "1", turns |-> "1", advanced |-> FALSE,
                        shown |-> [of |-> <<NoWord, NoWord, "1">>, saw |-> 0], acting |-> None,
                        busy |-> {"page"}, status |-> "none"]
             /\ net = IF ListReadable(view) THEN {ListEffect(view)} ELSE {}
             /\ Start
      BY DEF ListInit
    <1>2. view \in ListViews
      <2>1. 0 \in Versions
        BY MaxWritesNat DEF Versions
      <2>2. NoWord \in Queries
        BY DEF Queries
      <2> QED BY <1>1, <2>1, <2>2 DEF ListViews, Targets, ListTurns, ListQueries
    <1> DEFINE q == ListEffect(view)
    <1>3. /\ q \in ListRequests /\ q.step = "sent"
          /\ Asks(q, "read", "list", NoWord, ListQuery(view), "page")
      BY <1>2, ListEffectAsks
    <1>4. net = IF ListReadable(view) THEN {q} ELSE {}
      BY <1>1
    <1> HIDE DEF q
    <1>5. Frame(ListRequests, {})
      <2> DEFINE E == {}
      <2>1. net \subseteq ListRequests /\ \A r \in net : r.kind = "read" /\ r.flag \notin E
        BY <1>3, <1>4 DEF Asks
      <2> HIDE DEF E
      <2>2. Frame(ListRequests, E)
        BY <1>1, <2>1, FrameStart
      <2> QED BY <2>2 DEF E
    <1>6. ListReadable(view) => Covered
      BY <1>1, <1>3, <1>4 DEF Covered, HasRequest, Asks
    <1>7. ListActing
      BY <1>1 DEF ListActing
    <1>8. ListPaid
      BY <1>3, <1>4 DEF ListPaid, ListAnswer, Asks
    <1> QED BY <1>2, <1>5, <1>6, <1>7, <1>8 DEF ListInv

LEMMA ListFacts ==
    ASSUME ListInv
    PROVE  /\ view \in ListViews /\ Frame(ListRequests, {}) /\ (ListReadable(view) => Covered)
           /\ ListActing /\ ListPaid /\ ListQuery(view) \in ListQueries
           /\ \A r \in net : /\ r \in Requests(ListSubjects, ListCalls, ListFlags)
                             /\ ListCall(r) /\ r.saw \in Versions
    <1>1. \A r \in net : r \in Requests(ListSubjects, ListCalls, ListFlags) /\ ListCall(r)
      BY DEF ListInv, Frame, ListRequests
    <1>2. ListQuery(view) \in ListQueries
      BY ListSubject DEF ListInv
    <1> QED BY <1>1, <1>2 DEF ListInv, Requests

\* The effect of the query of v runs, in place of that of the query before.
LEMMA ListRuns ==
    ASSUME ListInv, NEW v \in ListViews, v.page = view.page, v.may = view.may,
           v.acting = view.acting, v.busy = view.busy, Moves,
           view' = [v EXCEPT !.busy = @ \cup {"page"}, !.status = "none"],
           Sends(ListEffects, {ListEffect(v)})
    PROVE  ListInv'
    <1>1. /\ view \in ListViews /\ Frame(ListRequests, {}) /\ (ListReadable(view) => Covered)
          /\ ListActing /\ ListPaid
          /\ \A r \in net : r \in Requests(ListSubjects, ListCalls, ListFlags) /\ ListCall(r)
      BY ListFacts
    <1> DEFINE q == ListEffect(v)
    <1>2. q \in ListRequests /\ q.step = "sent" /\ Asks(q, "read", "list", NoWord, ListQuery(v), "page")
      BY ListEffectAsks
    <1>3. net' = (net \ ListEffects) \cup {q}
      BY DEF Sends
    <1> HIDE DEF q
    <1>4. /\ view' \in ListViews /\ view'.busy = view.busy \cup {"page"}
          /\ view'.page = view.page /\ view'.may = view.may /\ view'.acting = view.acting
          /\ ListQuery(view') = ListQuery(v)
      BY DEF ListViews, ListQuery
    <1> DEFINE gone == ListEffects
               sent == {q}
               E == {}
    <1>5. /\ gone \in SUBSET net /\ sent \in SUBSET ListRequests /\ q \in sent /\ Sends(gone, sent)
          /\ \A x \in sent : x.kind = "read" /\ (x = q \/ x.flag \notin E)
      BY <1>2, <1>3 DEF ListEffects, Asks, Sends
    <1>6. /\ \A g \in gone : g.flag \in view'.busy \ {"due"} => g.flag = q.flag
          /\ view'.busy \subseteq view.busy \cup {q.flag}
      BY <1>1, <1>2, <1>4 DEF ListEffects, Asks, ListCall
    <1>7. \A f \in E : f \in view.busy /\ f \notin view'.busy => \E g \in gone : g.flag = f
      OBVIOUS
    <1>8. q.flag \notin E /\ Frame(ListRequests, E)
      BY <1>1
    <1> HIDE DEF gone, sent, E
    <1>9. Frame(ListRequests, E)' /\ (Covered => Covered')
      BY <1>5, <1>6, <1>7, <1>8, FrameFollowed
    <1>10. ListReadable(view') <=> ListReadable(view)
      BY <1>4 DEF ListReadable
    <1>11. ListActing'
      BY <1>1, <1>3, <1>4 DEF ListActing, ListEffects
    <1>12. ListPaid'
      <2>1. SUFFICES ASSUME view'.page = "payments", ListReadable(view')
                     PROVE  net' = {q} /\ (ListAnswer(q))'
        BY DEF ListPaid
      <2>2. net' = {q}
        BY <1>1, <1>3, <1>4, <1>10, <2>1 DEF ListPaid, ListAnswer, ListEffects
      <2>3. (ListAnswer(q))'
        BY <1>2, <1>4 DEF ListAnswer, Asks
      <2> QED BY <2>2, <2>3
    <1> QED BY <1>1, <1>4, <1>9, <1>10, <1>11, <1>12 DEF ListInv, E

LEMMA ListQuietKeeps ==
    ASSUME ListInv, view' \in ListViews, view'.page = view.page, view'.may = view.may,
           view'.acting = view.acting, view'.busy = view.busy, view'.shown = view.shown,
           ListQuery(view') = ListQuery(view), UNCHANGED net, Moves
    PROVE  ListInv'
    <1>1. /\ Frame(ListRequests, {}) /\ (ListReadable(view) => Covered) /\ ListActing /\ ListPaid
      BY ListFacts
    <1>2. Frame(ListRequests, {})' /\ (Covered => Covered')
      BY <1>1, FrameQuiet
    <1>3. ListReadable(view') <=> ListReadable(view)
      BY DEF ListReadable
    <1>4. failures' = failures
      BY DEF Moves, Input, server
    <1>5. ListActing' /\ ListPaid'
      BY <1>1, <1>3, <1>4 DEF ListActing, ListPaid, ListAnswer
    <1> QED BY <1>1, <1>2, <1>3, <1>5 DEF ListInv

LEMMA ListRequeries ==
    ASSUME ListInv, NEW v \in ListViews, v.page = view.page, v.may = view.may,
           v.acting = view.acting, v.busy = view.busy, v.shown = view.shown, Moves, ListRequery(v)
    PROVE  ListInv'
    <1>1. CASE ListQuery(v) = ListQuery(view)
      <2>1. view' = v /\ UNCHANGED net
        BY <1>1 DEF ListRequery
      <2> QED BY <1>1, <2>1, ListQuietKeeps
    <1>2. CASE ListQuery(v) # ListQuery(view)
      BY <1>2, ListRuns DEF ListRequery
    <1> QED BY <1>1, <1>2

LEMMA ListQueryKeeps ==
    ASSUME ListInv,
           \/ \E w \in Queries : ListType(w) \/ ListFilter(w)
           \/ \E t \in ListTurns : ListTurn(t)
           \/ ListDebounced \/ ListReset \/ ListAdvanced
    PROVE  ListInv'
    <1>1. view \in ListViews /\ NoWord \in Queries /\ "1" \in ListTurns /\ view.typed \in Queries
      BY ListFacts DEF Queries, ListTurns, ListViews
    <1> DEFINE Asked(v) == /\ v \in ListViews /\ v.page = view.page /\ v.may = view.may
                           /\ v.acting = view.acting /\ v.busy = view.busy
                           /\ v.shown = view.shown
    <1>2. ASSUME NEW w \in Queries
          PROVE  /\ Asked([view EXCEPT !.typed = w, !.word = w])
                 /\ Asked([view EXCEPT !.typed = w, !.turn = "1"])
                 /\ Asked([view EXCEPT !.filter = w, !.turn = "1"])
                 /\ Asked([view EXCEPT !.word = w])
      BY <1>1 DEF ListViews
    <1>3. \A t \in ListTurns : Asked([view EXCEPT !.turn = t])
      BY <1>1 DEF ListViews
    <1>4. Asked([view EXCEPT !.typed = NoWord, !.filter = NoWord, !.turn = "1"])
      BY <1>1 DEF ListViews
    <1>5. ASSUME NEW v, Asked(v), ListRequery(v), Moves
          PROVE  ListInv'
      BY <1>5, ListRequeries
    <1>6. Moves
      BY DEF Moves, ListType, ListFilter, ListTurn, ListDebounced, ListReset, ListAdvanced
    <1> HIDE DEF Asked
    <1>7. ASSUME NEW w \in Queries, ListType(w)
          PROVE  ListInv'
      <2>1. PICK v : Asked(v) /\ ListRequery(v)
        BY <1>2, <1>7 DEF ListType
      <2> QED BY <1>5, <1>6, <2>1
    <1>8. ASSUME NEW w \in Queries, ListFilter(w)
          PROVE  ListInv'
      BY <1>2, <1>5, <1>6, <1>8 DEF ListFilter
    <1>9. ASSUME NEW t \in ListTurns, ListTurn(t)
          PROVE  ListInv'
      BY <1>3, <1>5, <1>6, <1>9 DEF ListTurn
    <1>10. CASE ListDebounced
      BY <1>1, <1>2, <1>5, <1>6, <1>10 DEF ListDebounced
    <1>11. CASE ListReset
      BY <1>4, <1>5, <1>6, <1>11 DEF ListReset
    <1>12. CASE ListAdvanced
      <2>1. /\ view' \in ListViews /\ view'.page = view.page /\ view'.may = view.may
            /\ view'.acting = view.acting /\ view'.busy = view.busy /\ view'.shown = view.shown
            /\ ListQuery(view') = ListQuery(view)
        BY <1>1, <1>12 DEF ListAdvanced, ListViews, ListQuery
      <2> QED BY <1>6, <1>12, <2>1, ListQuietKeeps DEF ListAdvanced
    <1> QED BY <1>7, <1>8, <1>9, <1>10, <1>11, <1>12

\* What the pages other than that of the payments send beside the effect.
LEMMA ListSendKeeps ==
    ASSUME ListInv, view.page # "payments", NEW q \in ListRequests, Sends({}, {q}), Input,
           q.kind = "write" => MayWrite(q.call),
           view' \in ListViews, view'.page = view.page, view'.may = view.may,
           view'.busy = view.busy \cup ({q.flag} \ {""}),
           \/ view'.acting = view.acting
           \/ q.call = "check_in" /\ q.arg = view'.acting
    PROVE  ListInv'
    <1>1. /\ Frame(ListRequests, {}) /\ (ListReadable(view) => Covered) /\ ListActing
      BY ListFacts
    <1>2. net' = net \cup {q} /\ Moves
      BY DEF Sends, Moves
    <1>3. Frame(ListRequests, {})' /\ (Covered => Covered')
      <2> DEFINE E == {}
      <2>1. /\ view'.busy \subseteq view.busy \cup {q.flag}
            /\ \A f \in E : f \in view.busy => f \in view'.busy
            /\ q.flag \in E => q.flag \in view'.busy /\ q.flag \notin view.busy
            /\ Frame(ListRequests, E)
        BY <1>1
      <2> HIDE DEF E
      <2>2. Frame(ListRequests, E)' /\ (Covered => Covered')
        BY <1>2, <2>1, FrameSent
      <2> QED BY <2>2 DEF E
    <1>4. ListReadable(view') <=> ListReadable(view)
      BY DEF ListReadable
    <1>5. ListActing' /\ ListPaid'
      BY <1>1, <1>2 DEF ListActing, ListPaid
    <1> QED BY <1>1, <1>3, <1>4, <1>5 DEF ListInv

LEMMA ListRefreshKeeps ==
    ASSUME ListInv, ListRefresh
    PROVE  ListInv'
    <1>1. view \in ListViews /\ ListQuery(view) \in ListQueries
      BY ListFacts
    <1>2. CASE view.page = "payments"
      BY <1>1, <1>2, ListRuns DEF ListRefresh, Moves
    <1>3. CASE view.page # "payments"
      <2> DEFINE q == Keeping(Read("refresh", NoWord, "page"), ListQuery(view))
      <2>1. /\ q \in Requests(ListSubjects, ListCalls, ListFlags)
            /\ Asks(q, "read", "refresh", NoWord, ListQuery(view), "page")
        <3>1. /\ "refresh" \in ListCalls /\ "page" \in ListFlags /\ Unsent("refresh")
              /\ ListQuery(view) \in ListSubjects
          BY <1>1, <1>3, ListSubject DEF ListCalls, ListFlags, ListRefresh
        <3> QED BY <3>1, ListSubject, NewAsked
      <2>2. Sends({}, {q}) /\ Input
        BY <1>3 DEF ListRefresh
      <2> HIDE DEF q
      <2>3. q \in ListRequests /\ q.kind # "write" /\ q.flag = "page"
        BY <1>1, <2>1 DEF ListRequests, ListCall, Asks
      <2>4. /\ view' \in ListViews /\ view'.page = view.page /\ view'.may = view.may
            /\ view'.acting = view.acting /\ view'.busy = view.busy \cup ({"page"} \ {""})
        BY <1>1 DEF ListRefresh, ListViews
      <2> QED BY <1>3, <2>2, <2>3, <2>4, ListSendKeeps
    <1> QED BY <1>2, <1>3

LEMMA ListCheckInKeeps ==
    ASSUME ListInv, NEW i \in Items, ListCheckIn(i)
    PROVE  ListInv'
    <1>1. view \in ListViews /\ ListQuery(view) \in ListQueries
      BY ListFacts
    <1> DEFINE q == Keeping(Write("check_in", i, ""), ListQuery(view))
    <1>2. /\ q \in Requests(ListSubjects, ListCalls, ListFlags)
          /\ Asks(q, "write", "check_in", i, ListQuery(view), "")
      <2>1. /\ "check_in" \in ListCalls /\ "" \in ListFlags /\ Unsent("check_in")
            /\ ListQuery(view) \in ListSubjects /\ i \in ListSubjects
        BY <1>1, ListSubject DEF ListCalls, ListFlags, ListCheckIn, MayWrite
      <2> QED BY <2>1, ListSubject, NewAsked
    <1>3. Sends({}, {q}) /\ Input /\ MayWrite("check_in") /\ view.page # "payments"
      BY DEF ListCheckIn
    <1> HIDE DEF q
    <1>4. q \in ListRequests /\ q.call = "check_in" /\ q.flag = "" /\ q.arg = i
      BY <1>1, <1>2 DEF ListRequests, ListCall, Asks
    <1>5. /\ view' \in ListViews /\ view'.page = view.page /\ view'.may = view.may
          /\ view'.acting = i /\ view'.busy = view.busy \cup ({""} \ {""})
      BY <1>1 DEF ListCheckIn, ListViews, Targets
    <1> QED BY <1>3, <1>4, <1>5, ListSendKeeps

\* An answer ends a request that no row waits for any more.
LEMMA ListAnswerKeeps ==
    ASSUME ListInv, NEW r \in net, Sends({r}, {}), UNCHANGED server,
           view' \in ListViews, view'.page = view.page, view'.may = view.may,
           view'.busy \subseteq view.busy \ {r.flag}, ListQuery(view') = ListQuery(view),
           view'.acting = None \/ (view'.acting = view.acting /\ r.call # "check_in"),
           \/ r.step = "served" /\ view'.shown.of = r.at
           \/ r.step \notin {"sent", "served"} /\ view'.shown = view.shown
    PROVE  ListInv'
    <1>1. /\ Frame(ListRequests, {}) /\ (ListReadable(view) => Covered) /\ ListActing /\ ListPaid
      BY ListFacts
    <1>2. net' = net \ {r} /\ Moves /\ failures' = failures
      BY DEF Sends, Moves, server
    <1>3. Frame(ListRequests, {})' /\ (Covered => Covered')
      BY <1>1, <1>2, FrameAnswered
    <1>4. ListReadable(view') <=> ListReadable(view)
      BY DEF ListReadable
    <1>5. ListActing'
      BY <1>1, <1>2 DEF ListActing
    <1>6. ListPaid'
      <2>1. SUFFICES ASSUME view'.page = "payments", ListReadable(view')
                     PROVE  /\ \A s \in net' : (ListAnswer(s))'
                            /\ net' = {} /\ failures' = 0 => view'.shown.of = ListQuery(view')
        BY DEF ListPaid
      <2>2. \A s \in net : ListAnswer(s)
        BY <1>1, <1>4, <2>1 DEF ListPaid
      <2> QED BY <1>2, <2>2 DEF ListAnswer
    <1> QED BY <1>1, <1>3, <1>4, <1>5, <1>6 DEF ListInv

LEMMA ListAnswersKeep ==
    ASSUME ListInv, NEW r \in net,
           ListLoaded(r) \/ ListRefreshed(r) \/ ListCheckedIn(r) \/ ListReread(r)
    PROVE  ListInv'
    <1>1. /\ view \in ListViews /\ Frame(ListRequests, {}) /\ (ListReadable(view) => Covered)
          /\ ListActing /\ ListPaid
          /\ r \in Requests(ListSubjects, ListCalls, ListFlags)
          /\ ListCall(r) /\ r.saw \in Versions /\ r.at \in ListQueries
      BY ListFacts DEF ListCall
    <1>2. ASSUME NEW turns \in ListTurns, r.step # "sent"
          PROVE  /\ ListTaken(r, turns) \in ListViews
                 /\ ListTaken(r, turns).page = view.page /\ ListTaken(r, turns).may = view.may
                 /\ ListTaken(r, turns).acting = view.acting
                 /\ ListTaken(r, turns).busy = view.busy
                 /\ ListQuery(ListTaken(r, turns)) = ListQuery(view)
                 /\ \/ r.step = "served" /\ ListTaken(r, turns).shown.of = r.at
                    \/ r.step \notin {"sent", "served"} /\ ListTaken(r, turns).shown = view.shown
      <2>1. CASE r.step = "served"
        <3>1. PICK t \in ListTurns, b \in [of : ListQueries, saw : Versions] :
                 b.of = r.at /\ ListTaken(r, turns) = [view EXCEPT !.shown = b, !.turns = t]
          <4>1. PICK t \in ListTurns :
                   ListTaken(r, turns) = [view EXCEPT !.shown = [of |-> r.at, saw |-> r.saw], !.turns = t]
            BY <1>1, <2>1 DEF ListTaken, ListViews
          <4>2. [of |-> r.at, saw |-> r.saw] \in [of : ListQueries, saw : Versions]
            BY <1>1
          <4> QED BY <4>1, <4>2
        <3>2. ListTaken(r, turns) \in ListViews /\ ListTaken(r, turns).shown.of = r.at
          BY <1>1, <3>1 DEF ListViews
        <3>3. /\ ListTaken(r, turns).page = view.page /\ ListTaken(r, turns).may = view.may
              /\ ListTaken(r, turns).acting = view.acting /\ ListTaken(r, turns).busy = view.busy
              /\ ListQuery(ListTaken(r, turns)) = ListQuery(view)
          BY <1>1, <3>1 DEF ListViews, ListQuery
        <3> QED BY <2>1, <3>2, <3>3
      <2>2. CASE r.step # "served"
        BY <1>1, <1>2, <2>2 DEF ListTaken, ListViews, ListQuery
      <2> QED BY <2>1, <2>2
    <1>3. CASE ListLoaded(r) \/ ListRefreshed(r)
      <2>1. /\ r.step # "sent" /\ r.call # "check_in" /\ Sends({r}, {}) /\ UNCHANGED server
        BY <1>3 DEF ListLoaded, ListRefreshed, Reads, Answered
      <2>2. PICK turns \in ListTurns : view' = ListLower(ListTaken(r, turns), r)
        BY <1>3 DEF ListLoaded, ListRefreshed
      <2> DEFINE v == ListTaken(r, turns)
      <2>3. /\ v \in ListViews /\ v.page = view.page /\ v.may = view.may /\ v.acting = view.acting
            /\ v.busy = view.busy /\ ListQuery(v) = ListQuery(view)
            /\ \/ r.step = "served" /\ v.shown.of = r.at
               \/ r.step \notin {"sent", "served"} /\ v.shown = view.shown
            /\ view' = [v EXCEPT !.busy = @ \ {r.flag}]
        BY <1>2, <2>1, <2>2 DEF ListLower
      <2> HIDE DEF v
      <2>4. /\ view' \in ListViews /\ view'.page = v.page /\ view'.may = v.may
            /\ view'.acting = v.acting /\ view'.busy = v.busy \ {r.flag} /\ view'.shown = v.shown
            /\ ListQuery(view') = ListQuery(v)
        BY <2>3 DEF ListViews, ListQuery
      <2> QED BY <2>1, <2>3, <2>4, ListAnswerKeeps
    <1>4. CASE ListReread(r)
      <2> DEFINE v == ListTaken(r, view.turns)
      <2>1. /\ v \in ListViews /\ v.page = view.page /\ v.may = view.may
            /\ v.busy = view.busy /\ ListQuery(v) = ListQuery(view)
            /\ \/ r.step = "served" /\ v.shown.of = r.at
               \/ r.step \notin {"sent", "served"} /\ v.shown = view.shown
        BY <1>1, <1>2, <1>4 DEF ListReread, Reads, Answered, ListViews
      <2>2. view' = [v EXCEPT !.acting = None] /\ Sends({r}, {}) /\ UNCHANGED server
        BY <1>4 DEF ListReread
      <2> HIDE DEF v
      <2>3. /\ view' \in ListViews /\ view'.page = v.page /\ view'.may = v.may
            /\ view'.acting = None /\ view'.busy = v.busy /\ view'.shown = v.shown
            /\ ListQuery(view') = ListQuery(v)
        BY <2>1, <2>2 DEF ListViews, Targets, ListQuery
      <2>4. r.flag = "" /\ "" \notin view.busy
        BY <1>1, <1>4 DEF ListReread, Reads, Answered, ListCall, ListViews
      <2> QED BY <2>1, <2>2, <2>3, <2>4, ListAnswerKeeps
    <1>5. CASE ListCheckedIn(r)
      <2>1. r.call = "check_in" /\ r.step # "sent" /\ UNCHANGED server
        BY <1>5 DEF ListCheckedIn, Wrote, Answered
      <2>2. r.flag = "" /\ "" \notin view.busy /\ r.arg \in Items
        BY <1>1, <2>1 DEF ListCall, ListViews
      <2>3. CASE r.step # "served"
        <3>1. view' = [view EXCEPT !.status = "error", !.acting = None] /\ Sends({r}, {})
          BY <1>5, <2>3 DEF ListCheckedIn
        <3>2. /\ view' \in ListViews /\ view'.page = view.page /\ view'.may = view.may
              /\ view'.acting = None /\ view'.busy = view.busy /\ view'.shown = view.shown
              /\ ListQuery(view') = ListQuery(view)
          BY <1>1, <3>1 DEF ListViews, Targets, ListQuery
        <3> QED BY <2>1, <2>2, <2>3, <3>1, <3>2, ListAnswerKeeps
      <2>4. CASE r.step = "served"
        <3> DEFINE q == Reread(r)
        <3>1. /\ q \in Requests(ListSubjects, ListCalls, ListFlags)
              /\ Asks(q, "read", r.call, r.arg, r.at, r.flag)
          BY <1>1, AskedAgain
        <3>2. view' = [view EXCEPT !.status = "none"] /\ Sends({r}, {q}) /\ Moves
          BY <1>5, <2>4 DEF ListCheckedIn, Moves
        <3> HIDE DEF q
        <3>3. q \in ListRequests /\ q.kind = "read" /\ q.call = "check_in" /\ q.flag = ""
              /\ q.arg = r.arg
          BY <1>1, <2>1, <3>1 DEF ListRequests, ListCall, Asks
        <3>4. /\ view' \in ListViews /\ view'.page = view.page /\ view'.may = view.may
              /\ view'.acting = view.acting /\ view'.busy = view.busy
          BY <1>1, <3>2 DEF ListViews
        <3>5. Frame(ListRequests, {})' /\ (Covered => Covered')
          BY <1>1, <2>2, <3>2, <3>3, <3>4, FrameReread
        <3>6. ListReadable(view') <=> ListReadable(view)
          BY <3>4 DEF ListReadable
        <3>7. ListActing'
          BY <1>1, <2>1, <3>2, <3>3, <3>4 DEF ListActing, Sends
        <3>8. ListPaid'
          BY <1>1, <2>1, <3>4, <3>6 DEF ListPaid, ListAnswer
        <3> QED BY <1>1, <3>4, <3>5, <3>6, <3>7, <3>8 DEF ListInv
      <2> QED BY <2>3, <2>4
    <1> QED BY <1>3, <1>4, <1>5

LEMMA ListStep ==
    ASSUME ListInv, ListNext
    PROVE  ListInv'
    <1>1. CASE \E r \in net : ListLoaded(r) \/ ListRefreshed(r) \/ ListCheckedIn(r) \/ ListReread(r)
      BY <1>1, ListAnswersKeep
    <1>2. CASE ListOperationsPage
      BY <1>2, ListQueryKeeps, ListRefreshKeeps DEF ListOperationsPage, ListFilters
    <1>3. CASE ListPaymentsBar
      BY <1>3, ListQueryKeeps, ListRefreshKeeps DEF ListPaymentsBar
    <1>4. CASE ListBookingsBar \/ ListBookingsTable
      BY <1>4, ListQueryKeeps, ListRefreshKeeps, ListCheckInKeeps
         DEF ListBookingsBar, ListBookingsTable
    <1>5. CASE ListFooter \/ ListDebounced
      BY <1>5, ListQueryKeeps DEF ListFooter
    <1> QED BY <1>1, <1>2, <1>3, <1>4, <1>5 DEF ListNext

LEMMA ListServed ==
    ASSUME ListInv, NEW groups, Network(groups)
    PROVE  ListInv' /\ UNCHANGED <<view, inputs>>
    <1>1. /\ Frame(ListRequests, {}) /\ (ListReadable(view) => Covered) /\ ListActing /\ ListPaid
          /\ failures \in 0..MaxFailures /\ MaxFailures \in Nat
          /\ \A r \in net : r \in Requests(ListSubjects, ListCalls, ListFlags)
      BY ListFacts, ScreenAssumption DEF Frame
    <1>2. /\ ListRequests \in SUBSET Requests(ListSubjects, ListCalls, ListFlags)
          /\ Unanswered(ListRequests)
      BY DEF ListRequests, Unanswered, ListCall, Requests
    <1>3. Frame(ListRequests, {})' /\ (Covered => Covered') /\ UNCHANGED <<view, inputs>>
      BY <1>1, <1>2, FrameServed
    <1>4. PICK r \in net : \/ ServeRead(r) \/ ServeWrite(r) \/ ServePartly(r, groups)
                           \/ Refuse(r) \/ LoseAnswer(r)
      BY DEF Network
    <1>5. PICK step, saw : /\ step \in Steps /\ Settle(r, step, saw)
                           /\ \/ step = "served" /\ failures' = failures
                              \/ failures' \in Nat \ {0}
      BY <1>1, <1>4 DEF ServeRead, ServeWrite, ServePartly, Refuse, LoseAnswer, Fails, server, Steps
    <1> DEFINE s == [r EXCEPT !.step = step, !.saw = saw]
    <1>6. net' = (net \ {r}) \cup {s}
      BY <1>5 DEF Settle
    <1>7. s.call = r.call /\ s.arg = r.arg /\ s.at = r.at /\ s.step = step
      BY <1>1 DEF Requests
    <1> HIDE DEF s
    <1>8. ListActing'
      BY <1>1, <1>3, <1>6, <1>7 DEF ListActing
    <1>9. ListPaid'
      <2>1. SUFFICES ASSUME view.page = "payments", ListReadable(view)
                     PROVE  \A q \in net' : (ListAnswer(q))'
        BY <1>3, <1>6 DEF ListPaid
      <2>2. \A q \in net : ListAnswer(q)
        BY <1>1, <2>1 DEF ListPaid
      <2> QED BY <1>1, <1>3, <1>5, <1>6, <1>7, <2>2 DEF ListAnswer
    <1> QED BY <1>1, <1>3, <1>8, <1>9 DEF ListInv

LEMMA ListStutters ==
    ASSUME ListInv, UNCHANGED screen
    PROVE  ListInv'
    <1>1. Frame(ListRequests, {})' /\ (Covered => Covered') /\ UNCHANGED <<view, net, failures>>
      BY FrameStutters DEF ListInv, screen
    <1>2. ListActing' /\ ListPaid'
      BY <1>1 DEF ListInv, ListActing, ListPaid, ListAnswer
    <1> QED BY <1>1, <1>2 DEF ListInv

-----------------------------------------------------------------------------
(* The board of the day *)

BoardSubjects == Targets \cup Queries \cup SUBSET Items
BoardCalls == {"board", "search", "bulk"}
BoardFlags == {"", "page"}
BoardCall(r) ==
    /\ r.at \in Queries
    /\ IF r.call = "board" THEN r.kind = "read" /\ r.flag = "page" ELSE r.flag = ""
BoardRequests == {r \in Requests(BoardSubjects, BoardCalls, BoardFlags) : BoardCall(r)}

BoardInv == view \in BoardViews /\ Frame(BoardRequests, {}) /\ Covered

LEMMA BoardSubject ==
    /\ None \in BoardSubjects /\ Queries \subseteq BoardSubjects /\ NoWord \in Queries
    /\ SUBSET Items \subseteq BoardSubjects /\ {} \in SUBSET Items
    BY DEF BoardSubjects, Targets, Queries

LEMMA BoardStart ==
    ASSUME BoardInit
    PROVE  BoardInv
    <1> DEFINE q == Keeping(Request("read", "board", {}, "page", 1), NoWord)
    <1>1. /\ q \in Requests(BoardSubjects, BoardCalls, BoardFlags)
          /\ Asks(q, "read", "board", {}, NoWord, "page")
      <2>1. /\ "board" \in BoardCalls /\ "page" \in BoardFlags /\ {} \in BoardSubjects
            /\ NoWord \in BoardSubjects
        BY BoardSubject DEF BoardCalls, BoardFlags
      <2> QED BY <2>1, BoardSubject, FirstAsked
    <1>2. net = {q} /\ Start
      BY DEF BoardInit
    <1> HIDE DEF q
    <1>3. q \in BoardRequests /\ q.kind = "read" /\ q.flag = "page"
      BY <1>1, BoardSubject DEF BoardRequests, BoardCall, Asks
    <1>4. Frame(BoardRequests, {})
      <2> DEFINE E == {}
      <2>1. net \subseteq BoardRequests /\ \A r \in net : r.kind = "read" /\ r.flag \notin E
        BY <1>2, <1>3
      <2> HIDE DEF E
      <2>2. Frame(BoardRequests, E)
        BY <1>2, <2>1, FrameStart
      <2> QED BY <2>2 DEF E
    <1>5. view \in BoardViews
      <2>1. 0 \in Versions
        BY MaxWritesNat DEF Versions
      <2> QED BY <2>1, BoardSubject DEF BoardInit, BoardViews, Statuses
    <1>6. Covered
      BY <1>2, <1>3 DEF Covered, HasRequest, BoardInit
    <1> QED BY <1>4, <1>5, <1>6 DEF BoardInv

LEMMA BoardFacts ==
    ASSUME BoardInv
    PROVE  /\ view \in BoardViews /\ Frame(BoardRequests, {}) /\ Covered
           /\ "" \notin view.busy /\ view.word \in Queries /\ view.selected \in SUBSET Items
           /\ \A r \in net : /\ r \in Requests(BoardSubjects, BoardCalls, BoardFlags)
                             /\ BoardCall(r) /\ r.saw \in Versions /\ r.at \in Queries
    <1>1. \A r \in net : r \in Requests(BoardSubjects, BoardCalls, BoardFlags) /\ BoardCall(r)
      BY DEF BoardInv, Frame, BoardRequests
    <1>2. view \in BoardViews
      BY DEF BoardInv
    <1> QED BY <1>1, <1>2 DEF BoardInv, Requests, BoardViews, BoardCall

\* A search or the handling of the rows ticked: nothing tells that it is in flight.
LEMMA BoardSendKeeps ==
    ASSUME BoardInv, NEW q \in BoardRequests, Sends({}, {q}), q.kind = "write" => MayWrite(q.call),
           Moves, view' \in BoardViews, view'.busy = view.busy
    PROVE  BoardInv'
    <1> DEFINE E == {}
    <1>1. Frame(BoardRequests, E) /\ Covered
      BY BoardFacts
    <1>2. /\ \A f \in E : f \in view.busy => f \in view'.busy
          /\ q.flag \in E => q.flag \in view'.busy /\ q.flag \notin view.busy
      OBVIOUS
    <1> HIDE DEF E
    <1>3. Frame(BoardRequests, E)' /\ Covered'
      BY <1>1, <1>2, FrameSent
    <1> QED BY <1>3 DEF BoardInv, E

LEMMA BoardAsks ==
    ASSUME NEW call \in {"search", "bulk"}, NEW rows \in SUBSET Items, NEW w \in Queries,
           Unsent(call)
    PROVE  /\ Keeping(Read(call, rows, ""), w) \in BoardRequests
           /\ Keeping(Read(call, rows, ""), w).kind = "read"
           /\ Keeping(Write(call, rows, ""), w) \in BoardRequests
           /\ Keeping(Write(call, rows, ""), w).call = call
    <1> DEFINE p == Keeping(Read(call, rows, ""), w)
               q == Keeping(Write(call, rows, ""), w)
    <1>1. /\ p \in Requests(BoardSubjects, BoardCalls, BoardFlags)
          /\ Asks(p, "read", call, rows, w, "")
          /\ q \in Requests(BoardSubjects, BoardCalls, BoardFlags)
          /\ Asks(q, "write", call, rows, w, "")
      <2>1. /\ call \in BoardCalls /\ "" \in BoardFlags /\ rows \in BoardSubjects
            /\ w \in BoardSubjects
        BY BoardSubject DEF BoardCalls, BoardFlags
      <2> QED BY <2>1, BoardSubject, NewAsked
    <1> HIDE DEF p, q
    <1>2. p \in BoardRequests /\ p.kind = "read" /\ q \in BoardRequests /\ q.call = call
      BY <1>1 DEF BoardRequests, BoardCall, Asks
    <1> QED BY <1>2 DEF p, q

LEMMA BoardUserKeeps ==
    ASSUME BoardInv, BoardHeader \/ BoardRows \/ BoardBulk
    PROVE  BoardInv'
    <1>1. /\ view \in BoardViews /\ Frame(BoardRequests, {}) /\ Covered
          /\ view.word \in Queries /\ view.selected \in SUBSET Items
      BY BoardFacts
    <1>2. ASSUME UNCHANGED net, Moves, view' \in BoardViews, view'.busy = view.busy
          PROVE  BoardInv'
      <2>1. Frame(BoardRequests, {})' /\ Covered'
        BY <1>1, <1>2, FrameQuiet
      <2> QED BY <1>2, <2>1 DEF BoardInv
    <1>3. ASSUME NEW w \in Queries, BoardType(w)
          PROVE  BoardInv'
      <2>1. view' \in BoardViews /\ view'.busy = view.busy
        BY <1>1, <1>3 DEF BoardType, BoardViews
      <2> QED BY <1>2, <1>3, <2>1 DEF BoardType, Moves
    <1>4. ASSUME NEW i \in Items, BoardToggle(i)
          PROVE  BoardInv'
      <2>1. view' \in BoardViews /\ view'.busy = view.busy
        <3>1. (view.selected \ {i}) \cup ({i} \ view.selected) \in SUBSET Items
          BY <1>1
        <3> QED BY <1>1, <1>4, <3>1 DEF BoardToggle, BoardViews
      <2> QED BY <1>2, <1>4, <2>1 DEF BoardToggle, Moves
    <1>5. CASE BoardSearch
      <2> DEFINE q == Keeping(Read("search", {}, ""), view.word)
      <2>1. q \in BoardRequests /\ q.kind = "read"
        BY <1>1, <1>5, BoardSubject, BoardAsks DEF BoardSearch
      <2>2. Sends({}, {q}) /\ Moves
        BY <1>5 DEF BoardSearch, Moves
      <2> HIDE DEF q
      <2>3. view' \in BoardViews /\ view'.busy = view.busy
        BY <1>1, <1>5 DEF BoardSearch, BoardViews
      <2>4. q.kind = "write" => MayWrite(q.call)
        BY <2>1
      <2> QED BY <2>1, <2>2, <2>3, <2>4, BoardSendKeeps
    <1>6. CASE BoardBulk
      <2> DEFINE q == Keeping(Write("bulk", view.selected, ""), view.word)
      <2>1. MayWrite("bulk") /\ Unsent("bulk")
        BY <1>6 DEF BoardBulk, MayWrite
      <2>2. q \in BoardRequests /\ q.call = "bulk"
        BY <1>1, <2>1, BoardAsks
      <2>3. Sends({}, {q}) /\ Moves
        BY <1>6 DEF BoardBulk, Moves
      <2> HIDE DEF q
      <2>4. view' \in BoardViews /\ view'.busy = view.busy
        BY <1>1, <1>6 DEF BoardBulk, BoardViews, Statuses
      <2> QED BY <2>1, <2>2, <2>3, <2>4, BoardSendKeeps
    <1> QED BY <1>3, <1>4, <1>5, <1>6 DEF BoardHeader, BoardRows

LEMMA BoardAnswersKeep ==
    ASSUME BoardInv, NEW r \in net, BoardLoaded(r) \/ BoardHandled(r)
    PROVE  BoardInv'
    <1>1. /\ view \in BoardViews /\ Frame(BoardRequests, {}) /\ Covered
          /\ r \in Requests(BoardSubjects, BoardCalls, BoardFlags)
          /\ BoardCall(r) /\ r.saw \in Versions /\ r.at \in Queries /\ "" \notin view.busy
      BY BoardFacts
    <1>2. Moves
      BY DEF Moves, BoardLoaded, BoardHandled
    <1>3. ASSUME Sends({r}, {}), view' \in BoardViews, view'.busy = view.busy \ {r.flag}
          PROVE  BoardInv'
      <2>1. Frame(BoardRequests, {})' /\ Covered'
        BY <1>1, <1>2, <1>3, FrameAnswered
      <2> QED BY <1>3, <2>1 DEF BoardInv
    <1>4. CASE BoardLoaded(r)
      <2>1. PICK rows \in SUBSET Items :
               view' = [BoardShown(r, rows) EXCEPT
                          !.busy = @ \ {r.flag},
                          !.status = IF r.step = "failed" /\ r.call # "search" THEN "error" ELSE @]
        BY <1>4 DEF BoardLoaded
      <2>2. BoardShown(r, rows) \in BoardViews /\ BoardShown(r, rows).busy = view.busy
        <3>1. [of |-> r.at, rows |-> rows, saw |-> r.saw]
                 \in [of : Queries, rows : SUBSET Items, saw : Versions]
          BY <1>1
        <3> QED BY <1>1, <3>1 DEF BoardShown, BoardViews
      <2> DEFINE v == BoardShown(r, rows)
      <2>3. PICK s \in Statuses : view' = [v EXCEPT !.busy = @ \ {r.flag}, !.status = s]
        BY <2>1, <2>2 DEF BoardViews, Statuses
      <2>4. v \in BoardViews /\ v.busy = view.busy
        BY <2>2
      <2> HIDE DEF v
      <2>5. view' \in BoardViews /\ view'.busy = view.busy \ {r.flag}
        BY <2>3, <2>4 DEF BoardViews
      <2> QED BY <1>3, <1>4, <2>5 DEF BoardLoaded
    <1>5. CASE BoardHandled(r)
      <2>1. r.flag = ""
        BY <1>1, <1>5 DEF BoardHandled, Wrote, Answered, BoardCall
      <2>2. CASE r.step = "served"
        <3> DEFINE q == Reread(r)
        <3>1. /\ q \in Requests(BoardSubjects, BoardCalls, BoardFlags)
              /\ Asks(q, "read", r.call, r.arg, r.at, r.flag)
          BY <1>1, AskedAgain
        <3>2. Sends({r}, {q})
          BY <1>5, <2>2 DEF BoardHandled
        <3> HIDE DEF q
        <3>3. q \in BoardRequests /\ q.kind = "read" /\ q.flag = ""
          BY <1>1, <2>1, <3>1 DEF BoardRequests, BoardCall, Asks
        <3>4. view' \in BoardViews /\ view'.busy = view.busy
          BY <1>1, <1>5, <2>2 DEF BoardHandled, BoardViews, Statuses
        <3>5. Frame(BoardRequests, {})' /\ Covered'
          BY <1>1, <1>2, <2>1, <3>2, <3>3, <3>4, FrameReread
        <3> QED BY <3>4, <3>5 DEF BoardInv
      <2>3. CASE r.step # "served"
        <3>1. view' = [view EXCEPT !.status = "error"] /\ Sends({r}, {})
          BY <1>5, <2>3 DEF BoardHandled
        <3>2. view' \in BoardViews /\ view'.busy = view.busy \ {r.flag}
          BY <1>1, <2>1, <3>1 DEF BoardViews, Statuses
        <3> QED BY <1>3, <3>1, <3>2
      <2> QED BY <2>2, <2>3
    <1> QED BY <1>4, <1>5

LEMMA BoardStep ==
    ASSUME BoardInv, BoardNext
    PROVE  BoardInv'
    BY BoardAnswersKeep, BoardUserKeeps DEF BoardNext

LEMMA BoardServed ==
    ASSUME BoardInv, NEW groups, Network(groups)
    PROVE  BoardInv' /\ UNCHANGED <<view, inputs>>
    <1>1. /\ BoardRequests \in SUBSET Requests(BoardSubjects, BoardCalls, BoardFlags)
          /\ Unanswered(BoardRequests)
      BY DEF BoardRequests, Unanswered, BoardCall, Requests
    <1>2. Frame(BoardRequests, {})' /\ Covered' /\ UNCHANGED <<view, inputs>>
      BY <1>1, FrameServed DEF BoardInv
    <1> QED BY <1>2 DEF BoardInv

LEMMA BoardStutters ==
    ASSUME BoardInv, UNCHANGED screen
    PROVE  BoardInv'
    <1>1. Frame(BoardRequests, {})' /\ Covered' /\ UNCHANGED view
      BY FrameStutters DEF BoardInv, screen
    <1> QED BY <1>1 DEF BoardInv

-----------------------------------------------------------------------------
(* The connected rooms *)

SmartSubjects == Targets \cup Queries
SmartCalls == {"smart", "resolve"}
SmartFlags == {"", "page"}
SmartCall(r) ==
    IF r.call = "smart" THEN r.kind = "read" /\ r.flag = "page"
    ELSE r.kind = "write" /\ r.flag = "" /\ r.arg \in Items
SmartRequests == {r \in Requests(SmartSubjects, SmartCalls, SmartFlags) : SmartCall(r)}

SmartInv == view \in SmartViews /\ Frame(SmartRequests, {"page"}) /\ Covered

LEMMA SmartSubject ==
    None \in SmartSubjects /\ NoWord \in SmartSubjects /\ Items \subseteq SmartSubjects
    BY DEF SmartSubjects, Targets, Queries

\* The first render starts with the one reading there may be.
LEMMA SmartStart ==
    ASSUME SmartInit
    PROVE  SmartInv
    <1> DEFINE q == Request("read", "smart", NoWord, "page", 1)
    <1>1. /\ q \in Requests(SmartSubjects, SmartCalls, SmartFlags)
          /\ Asks(q, "read", "smart", NoWord, None, "page")
      <2>1. "smart" \in SmartCalls /\ "page" \in SmartFlags
        BY DEF SmartCalls, SmartFlags
      <2> QED BY <2>1, SmartSubject, FirstAsked
    <1>2. net = {q} /\ Start
      BY DEF SmartInit, Mounted
    <1> HIDE DEF q
    <1>3. q \in SmartRequests /\ q.kind = "read" /\ q.flag = "page"
      BY <1>1 DEF SmartRequests, SmartCall, Asks
    <1>4. Frame(SmartRequests, {"page"})
      <2>1. SentWrites(net) = {}
        BY <1>2, <1>3 DEF SentWrites
      <2>2. /\ net \subseteq SmartRequests /\ view.busy = {"page"}
            /\ \A r, s \in net : r = s
        BY <1>2, <1>3 DEF SmartInit
      <2> QED BY <1>2, <1>3, <2>1, <2>2, StartTyped DEF Frame
    <1>5. view \in SmartViews
      BY DEF SmartInit, SmartViews, SmartTabs, Targets
    <1>6. Covered
      BY <1>2, <1>3 DEF Covered, HasRequest, SmartInit
    <1> QED BY <1>4, <1>5, <1>6 DEF SmartInv

LEMMA SmartFacts ==
    ASSUME SmartInv
    PROVE  /\ view \in SmartViews /\ Frame(SmartRequests, {"page"}) /\ Covered
           /\ "" \notin view.busy
           /\ \A r \in net : r \in Requests(SmartSubjects, SmartCalls, SmartFlags) /\ SmartCall(r)
    BY DEF SmartInv, Frame, SmartRequests, SmartViews

LEMMA SmartQuietKeeps ==
    ASSUME SmartInv,
           \/ SmartClose \/ \E i \in Items : SmartOpen(i)
           \/ \E t \in SmartTabs : SmartTab(t)
    PROVE  SmartInv'
    <1>1. view \in SmartViews /\ Frame(SmartRequests, {"page"}) /\ Covered
      BY SmartFacts
    <1>2. UNCHANGED net /\ Moves
      BY DEF SmartClose, SmartOpen, SmartTab, Moves
    <1>3. view' \in SmartViews /\ view'.busy = view.busy
      BY <1>1 DEF SmartClose, SmartOpen, SmartTab, SmartViews, Targets
    <1>4. Frame(SmartRequests, {"page"})' /\ Covered'
      BY <1>1, <1>2, <1>3, FrameQuiet
    <1> QED BY <1>3, <1>4 DEF SmartInv

\* The button shows only when no reading is in flight: there is a slot for one.
LEMMA SmartRefreshKeeps ==
    ASSUME SmartInv, SmartRefresh
    PROVE  SmartInv'
    <1>1. /\ view \in SmartViews /\ Frame(SmartRequests, {"page"}) /\ Covered
          /\ \A r \in net : SmartCall(r)
      BY SmartFacts
    <1>2. "page" \notin view.busy
      BY DEF SmartRefresh, SmartFree
    <1>3. Unsent("smart")
      <2>1. \A r \in net : r.call # "smart"
        BY <1>1, <1>2 DEF Frame, SmartCall
      <2>2. Alike("smart") = {}
        BY <2>1 DEF Alike
      <2>3. MaxAlike \in Nat \ {0}
        BY ScreenAssumption
      <2>4. 1 \in 1..MaxAlike
        BY <2>3
      <2> QED BY <2>2, <2>4 DEF Unsent, Slots
    <1> DEFINE q == Read("smart", NoWord, "page")
    <1>4. /\ q \in Requests(SmartSubjects, SmartCalls, SmartFlags)
          /\ Asks(q, "read", "smart", NoWord, None, "page")
      <2>1. "smart" \in SmartCalls /\ "page" \in SmartFlags
        BY DEF SmartCalls, SmartFlags
      <2> QED BY <1>3, <2>1, SmartSubject, NewAsked
    <1>5. Sends({}, {q}) /\ Moves
      BY DEF SmartRefresh, Moves
    <1> HIDE DEF q
    <1>6. q \in SmartRequests /\ q.kind # "write" /\ q.flag = "page"
      BY <1>4 DEF SmartRequests, SmartCall, Asks
    <1>7. view' \in SmartViews /\ view'.busy = view.busy \cup {"page"}
      BY <1>1 DEF SmartRefresh, SmartViews
    <1>8. Frame(SmartRequests, {"page"})' /\ Covered'
      BY <1>1, <1>2, <1>5, <1>6, <1>7, FrameSent
    <1> QED BY <1>7, <1>8 DEF SmartInv

LEMMA SmartResolveKeeps ==
    ASSUME SmartInv, NEW i \in Items, SmartResolve(i)
    PROVE  SmartInv'
    <1>1. view \in SmartViews /\ Frame(SmartRequests, {"page"}) /\ Covered
      BY SmartFacts
    <1> DEFINE q == Write("resolve", i, "")
    <1>2. /\ q \in Requests(SmartSubjects, SmartCalls, SmartFlags)
          /\ Asks(q, "write", "resolve", i, None, "")
      <2>1. /\ "resolve" \in SmartCalls /\ "" \in SmartFlags /\ i \in SmartSubjects
            /\ Unsent("resolve")
        BY SmartSubject DEF SmartCalls, SmartFlags, SmartResolve, MayWrite
      <2> QED BY <2>1, SmartSubject, NewAsked
    <1>3. Sends({}, {q}) /\ Moves /\ UNCHANGED view /\ MayWrite("resolve")
      BY DEF SmartResolve, Moves
    <1> HIDE DEF q
    <1>4. q \in SmartRequests /\ q.call = "resolve" /\ q.flag = ""
      BY <1>2 DEF SmartRequests, SmartCall, Asks
    <1>5. MayWrite(q.call) /\ q.flag \notin {"page"} /\ view'.busy = view.busy
      BY <1>3, <1>4
    <1>6. Frame(SmartRequests, {"page"})' /\ Covered'
      BY <1>1, <1>3, <1>4, <1>5, FrameSent
    <1> QED BY <1>1, <1>3, <1>6 DEF SmartInv

LEMMA SmartAnswersKeep ==
    ASSUME SmartInv, NEW r \in net, SmartLoaded(r) \/ SmartResolved(r)
    PROVE  SmartInv'
    <1>1. /\ view \in SmartViews /\ Frame(SmartRequests, {"page"}) /\ Covered
          /\ SmartCall(r) /\ "" \notin view.busy
      BY SmartFacts
    <1>2. Sends({r}, {}) /\ Moves
      BY DEF SmartLoaded, SmartResolved, Moves
    <1>3. view' \in SmartViews /\ view'.busy = view.busy \ {r.flag}
      <2>1. CASE SmartLoaded(r)
        <3>1. PICK got \in SmartGot(r) :
                 view' = [view EXCEPT !.busy = @ \ {"page"}, !.resolved = {}, !.got = got,
                             !.status = IF "rooms" \in got THEN @ ELSE "error"]
          BY <2>1 DEF SmartLoaded
        <3>2. got \in SUBSET SmartParts
          BY DEF SmartGot, SmartParts
        <3>3. PICK s \in {"none", "error"} :
                 view' = [view EXCEPT !.busy = @ \ {"page"}, !.resolved = {}, !.got = got, !.status = s]
          BY <1>1, <3>1 DEF SmartViews
        <3>4. r.flag = "page"
          BY <1>1, <2>1 DEF SmartLoaded, Reads, Answered, SmartCall
        <3> QED BY <1>1, <3>2, <3>3, <3>4 DEF SmartViews
      <2>2. CASE SmartResolved(r)
        <3>1. r.flag = "" /\ r.arg \in Items
          BY <1>1, <2>2 DEF SmartResolved, Wrote, Answered, SmartCall
        <3>2. CASE r.step = "served"
          BY <1>1, <2>2, <3>1, <3>2 DEF SmartResolved, SmartViews
        <3>3. CASE r.step # "served"
          BY <1>1, <2>2, <3>1, <3>3 DEF SmartResolved, SmartViews
        <3> QED BY <3>2, <3>3
      <2> QED BY <2>1, <2>2
    <1>4. Frame(SmartRequests, {"page"})' /\ Covered'
      BY <1>1, <1>2, <1>3, FrameAnswered
    <1> QED BY <1>3, <1>4 DEF SmartInv

LEMMA SmartStep ==
    ASSUME SmartInv, SmartNext
    PROVE  SmartInv'
    BY SmartAnswersKeep, SmartQuietKeeps, SmartRefreshKeeps, SmartResolveKeeps
       DEF SmartNext, SmartReceptionist, SmartManager, SmartSecurity

LEMMA SmartServed ==
    ASSUME SmartInv, NEW groups, Network(groups)
    PROVE  SmartInv' /\ UNCHANGED <<view, inputs>>
    <1>1. /\ SmartRequests \in SUBSET Requests(SmartSubjects, SmartCalls, SmartFlags)
          /\ Unanswered(SmartRequests)
      BY DEF SmartRequests, Unanswered, SmartCall, Requests
    <1>2. Frame(SmartRequests, {"page"})' /\ Covered' /\ UNCHANGED <<view, inputs>>
      BY <1>1, FrameServed DEF SmartInv
    <1> QED BY <1>2 DEF SmartInv

LEMMA SmartStutters ==
    ASSUME SmartInv, UNCHANGED screen
    PROVE  SmartInv'
    <1>1. Frame(SmartRequests, {"page"})' /\ Covered' /\ UNCHANGED view
      BY FrameStutters DEF SmartInv, screen
    <1> QED BY <1>1 DEF SmartInv

-----------------------------------------------------------------------------
(* The day uses of today *)

SlotSubjects == Targets \cup Queries
SlotCalls == {"refresh", "free", "create"}
SlotFlags == {"", "page", "submit"}
SlotCall(r) ==
    /\ r.at \in Queries
    /\ r.call = "refresh" => r.kind = "read" /\ r.flag \in {"", "page"}
    /\ r.call = "free" => r.kind = "read" /\ r.flag = ""
    /\ r.call = "create" => r.flag = "submit"
SlotRequests == {r \in Requests(SlotSubjects, SlotCalls, SlotFlags) : SlotCall(r)}

SlotInv == view \in SlotViews /\ Frame(SlotRequests, {"submit"}) /\ Covered

LEMMA SlotSubject ==
    /\ None \in SlotSubjects /\ NoWord \in SlotSubjects /\ NoWord \in Queries
    /\ Targets \subseteq SlotSubjects /\ Queries \subseteq SlotSubjects
    BY DEF SlotSubjects, Targets, Queries

LEMMA SlotStart ==
    ASSUME SlotInit
    PROVE  SlotInv
    <1> DEFINE p == Keeping(Request("read", "refresh", NoWord, "page", 1), NoWord)
               q == Keeping(Request("read", "free", NoWord, "", 1), NoWord)
    <1>1. /\ p \in Requests(SlotSubjects, SlotCalls, SlotFlags)
          /\ Asks(p, "read", "refresh", NoWord, NoWord, "page")
          /\ q \in Requests(SlotSubjects, SlotCalls, SlotFlags)
          /\ Asks(q, "read", "free", NoWord, NoWord, "")
      <2>1. {"refresh", "free"} \subseteq SlotCalls /\ {"", "page"} \subseteq SlotFlags
        BY DEF SlotCalls, SlotFlags
      <2> QED BY <2>1, SlotSubject, FirstAsked
    <1>2. net = {p, q} /\ Start
      BY DEF SlotInit, Mounted
    <1> HIDE DEF p, q
    <1>3. /\ p \in SlotRequests /\ p.kind = "read" /\ p.flag = "page"
          /\ q \in SlotRequests /\ q.kind = "read" /\ q.flag = ""
      BY <1>1, SlotSubject DEF SlotRequests, SlotCall, Asks
    <1>4. Frame(SlotRequests, {"submit"})
      <2>1. net \subseteq SlotRequests /\ \A r \in net : r.kind = "read" /\ r.flag \notin {"submit"}
        BY <1>2, <1>3
      <2> QED BY <1>2, <2>1, FrameStart
    <1>5. view \in SlotViews
      <2>1. 0 \in Versions
        BY MaxWritesNat DEF Versions
      <2> QED BY <2>1, SlotSubject DEF SlotInit, SlotViews, Targets
    <1>6. Covered
      BY <1>2, <1>3 DEF Covered, HasRequest, SlotInit
    <1> QED BY <1>4, <1>5, <1>6 DEF SlotInv

LEMMA SlotFacts ==
    ASSUME SlotInv
    PROVE  /\ view \in SlotViews /\ Frame(SlotRequests, {"submit"}) /\ Covered
           /\ "" \notin view.busy /\ view.slot \in Queries /\ view.room \in Targets
           /\ \A r \in net : /\ r \in Requests(SlotSubjects, SlotCalls, SlotFlags)
                             /\ SlotCall(r) /\ r.saw \in Versions /\ r.at \in Queries
    <1>1. \A r \in net : r \in Requests(SlotSubjects, SlotCalls, SlotFlags) /\ SlotCall(r)
      BY DEF SlotInv, Frame, SlotRequests
    <1>2. view \in SlotViews
      BY DEF SlotInv
    <1> QED BY <1>1, <1>2 DEF SlotInv, Requests, SlotViews, SlotCall

\* What is read of the rooms or of the lists lowers no flag.
LEMMA SlotAsks ==
    ASSUME NEW call \in {"free", "refresh"}, NEW w \in Queries, Unsent(call)
    PROVE  /\ Keeping(Read(call, NoWord, ""), w) \in SlotRequests
           /\ Keeping(Read(call, NoWord, ""), w).kind = "read"
           /\ Keeping(Read(call, NoWord, ""), w).flag = ""
    <1> DEFINE q == Keeping(Read(call, NoWord, ""), w)
    <1>1. /\ q \in Requests(SlotSubjects, SlotCalls, SlotFlags)
          /\ Asks(q, "read", call, NoWord, w, "")
      <2>1. call \in SlotCalls /\ "" \in SlotFlags /\ w \in SlotSubjects
        BY SlotSubject DEF SlotCalls, SlotFlags
      <2> QED BY <2>1, SlotSubject, NewAsked
    <1> HIDE DEF q
    <1>2. q \in SlotRequests /\ q.kind = "read" /\ q.flag = ""
      BY <1>1 DEF SlotRequests, SlotCall, Asks
    <1> QED BY <1>2 DEF q

LEMMA SlotUserKeeps ==
    ASSUME SlotInv, SlotForm \/ SlotRefresh
    PROVE  SlotInv'
    <1>1. /\ view \in SlotViews /\ Frame(SlotRequests, {"submit"}) /\ Covered
          /\ view.slot \in Queries /\ view.room \in Targets
      BY SlotFacts
    <1>2. ASSUME NEW q \in SlotRequests, q.kind = "read", q.flag = "", Sends({}, {q}), Moves,
                 view' \in SlotViews, view'.busy = view.busy
          PROVE  SlotInv'
      <2>1. q.kind # "write" /\ q.flag \notin {"submit"}
        BY <1>2
      <2>2. Frame(SlotRequests, {"submit"})' /\ Covered'
        BY <1>1, <1>2, <2>1, FrameSent
      <2> QED BY <1>2, <2>2 DEF SlotInv
    <1>3. ASSUME NEW w \in Queries, SlotMove(w)
          PROVE  SlotInv'
      <2> DEFINE q == Keeping(Read("free", NoWord, ""), w)
      <2>1. q \in SlotRequests /\ q.kind = "read" /\ q.flag = ""
        BY <1>3, SlotAsks DEF SlotMove
      <2>2. Sends({}, {q}) /\ Moves
        BY <1>3 DEF SlotMove, SlotReads, Moves
      <2> HIDE DEF q
      <2>3. view' \in SlotViews /\ view'.busy = view.busy
        BY <1>1, <1>3 DEF SlotMove, SlotViews
      <2> QED BY <1>2, <2>1, <2>2, <2>3
    <1>4. CASE SlotRefresh
      <2> DEFINE q == Keeping(Read("refresh", NoWord, ""), view.slot)
      <2>1. q \in SlotRequests /\ q.kind = "read" /\ q.flag = ""
        BY <1>1, <1>4, SlotAsks DEF SlotRefresh
      <2>2. Sends({}, {q}) /\ Moves
        BY <1>4 DEF SlotRefresh, Moves
      <2> HIDE DEF q
      <2>3. view' \in SlotViews /\ view'.busy = view.busy
        BY <1>1, <1>4 DEF SlotRefresh, SlotViews
      <2> QED BY <1>2, <2>1, <2>2, <2>3
    <1>5. ASSUME NEW client \in BOOLEAN, NEW room \in Targets, SlotChoose(client, room)
          PROVE  SlotInv'
      <2>1. view' \in SlotViews /\ view'.busy = view.busy
        BY <1>1, <1>5 DEF SlotChoose, SlotViews
      <2>2. UNCHANGED net /\ Moves
        BY <1>5 DEF SlotChoose, Moves
      <2>3. Frame(SlotRequests, {"submit"})' /\ Covered'
        BY <1>1, <2>1, <2>2, FrameQuiet
      <2> QED BY <2>1, <2>3 DEF SlotInv
    <1>6. CASE SlotCreate
      <2> DEFINE q == Keeping(Write("create", view.room, "submit"), view.slot)
      <2>1. /\ q \in Requests(SlotSubjects, SlotCalls, SlotFlags)
            /\ Asks(q, "write", "create", view.room, view.slot, "submit")
        <3>1. /\ "create" \in SlotCalls /\ "submit" \in SlotFlags /\ Unsent("create")
              /\ view.room \in SlotSubjects /\ view.slot \in SlotSubjects
          BY <1>1, <1>6, SlotSubject DEF SlotCalls, SlotFlags, SlotCreate, MayWrite
        <3> QED BY <3>1, SlotSubject, NewAsked
      <2>2. Sends({}, {q}) /\ Moves /\ MayWrite("create") /\ "submit" \notin view.busy
        BY <1>6 DEF SlotCreate, Moves
      <2> HIDE DEF q
      <2>3. q \in SlotRequests /\ q.flag = "submit" /\ MayWrite(q.call)
        BY <1>1, <2>1, <2>2 DEF SlotRequests, SlotCall, Asks
      <2>4. view' \in SlotViews /\ view'.busy = view.busy \cup {"submit"}
        BY <1>1, <1>6 DEF SlotCreate, SlotViews
      <2>5. Frame(SlotRequests, {"submit"})' /\ Covered'
        BY <1>1, <2>2, <2>3, <2>4, FrameSent
      <2> QED BY <2>4, <2>5 DEF SlotInv
    <1>7. ASSUME NEW room \in Items, SlotChoose(view.client, room) \/ SlotChoose(TRUE, view.room)
          PROVE  SlotInv'
      <2>1. view.client \in BOOLEAN /\ room \in Targets
        BY <1>1 DEF SlotViews, Targets
      <2> QED BY <1>1, <1>5, <1>7, <2>1
    <1> QED BY <1>3, <1>4, <1>6, <1>7 DEF SlotForm

LEMMA SlotAnswersKeep ==
    ASSUME SlotInv, NEW r \in net,
           SlotFreed(r) \/ SlotLoaded(r) \/ SlotCreated(r) \/ SlotReread(r)
    PROVE  SlotInv'
    <1>1. /\ view \in SlotViews /\ Frame(SlotRequests, {"submit"}) /\ Covered
          /\ r \in Requests(SlotSubjects, SlotCalls, SlotFlags)
          /\ SlotCall(r) /\ r.saw \in Versions /\ r.at \in Queries /\ "" \notin view.busy
      BY SlotFacts
    <1>2. Moves
      BY DEF Moves, SlotFreed, SlotLoaded, SlotCreated, SlotReread
    <1>3. [of |-> r.at, saw |-> r.saw] \in [of : Queries, saw : Versions]
      BY <1>1
    <1>4. ASSUME Sends({r}, {}), view' \in SlotViews, view'.busy \subseteq view.busy \ {r.flag},
                 "submit" \in view.busy /\ r.flag # "submit" => "submit" \in view'.busy
          PROVE  SlotInv'
      <2>1. \A f \in {"submit"} : f \in view.busy /\ f # r.flag => f \in view'.busy
        BY <1>4
      <2>2. Frame(SlotRequests, {"submit"})' /\ Covered'
        BY <1>1, <1>2, <1>4, <2>1, FrameAnswered
      <2> QED BY <1>4, <2>2 DEF SlotInv
    <1>5. SlotRefreshed(r) \in SlotViews /\ SlotRefreshed(r).busy = view.busy
      BY <1>1, <1>3 DEF SlotRefreshed, SlotViews
    <1>6. CASE SlotFreed(r)
      <2>1. r.flag = "" /\ Sends({r}, {})
        BY <1>1, <1>6 DEF SlotFreed, Reads, Answered, SlotCall
      <2>2. view' \in SlotViews /\ view'.busy = view.busy
        BY <1>1, <1>3, <1>6 DEF SlotFreed, SlotViews
      <2> QED BY <1>1, <1>4, <2>1, <2>2
    <1>7. CASE SlotLoaded(r)
      <2>1. r.flag \in {"", "page"} /\ Sends({r}, {})
        BY <1>1, <1>7 DEF SlotLoaded, Reads, Answered, SlotCall
      <2>2. view' \in SlotViews /\ view'.busy = view.busy \ {"page"}
        BY <1>5, <1>7 DEF SlotLoaded, SlotViews
      <2>3. CASE r.flag = "page"
        BY <1>4, <2>1, <2>2, <2>3
      <2>4. CASE r.flag = ""
        BY <1>1, <1>4, <2>1, <2>2, <2>4
      <2> QED BY <2>1, <2>3, <2>4
    <1>8. CASE SlotReread(r)
      <2>1. r.flag = "submit" /\ Sends({r}, {})
        BY <1>1, <1>8 DEF SlotReread, Reads, Answered, SlotCall
      <2>2. view' \in SlotViews /\ view'.busy = view.busy \ {"page", "submit"}
        BY <1>5, <1>8 DEF SlotReread, SlotViews
      <2> QED BY <1>4, <2>1, <2>2
    <1>9. CASE SlotCreated(r) /\ r.step # "served"
      <2>1. r.flag = "submit" /\ Sends({r}, {})
        BY <1>1, <1>9 DEF SlotCreated, Wrote, Answered, SlotCall
      <2>2. view' = [view EXCEPT !.refused = TRUE, !.busy = @ \ {"submit"}]
        BY <1>9 DEF SlotCreated
      <2>3. view' \in SlotViews /\ view'.busy = view.busy \ {"submit"}
        BY <1>1, <2>2 DEF SlotViews
      <2> QED BY <1>4, <2>1, <2>3
    <1>10. CASE SlotCreated(r) /\ r.step = "served"
      <2> DEFINE q == Reread(r)
                 E == {"submit"}
                 gone == {r}
                 sent == {q} \cup SlotReads(NoWord)
      <2>1. /\ q \in Requests(SlotSubjects, SlotCalls, SlotFlags)
            /\ Asks(q, "read", r.call, r.arg, r.at, r.flag)
        BY <1>1, AskedAgain
      <2>2. r.flag = "submit" /\ r.call = "create" /\ Sends(gone, sent)
        BY <1>1, <1>10 DEF SlotCreated, Wrote, Answered, SlotCall
      <2>3. view.slot # NoWord => Unsent("free")
        BY <1>10 DEF SlotCreated
      <2>4. \A x \in SlotReads(NoWord) : x \in SlotRequests /\ x.kind = "read" /\ x.flag = ""
        BY <2>3, SlotSubject, SlotAsks DEF SlotReads
      <2>5. view' \in SlotViews /\ view'.busy = view.busy
        <3>1. view' = [view EXCEPT !.slot = NoWord, !.client = FALSE, !.room = None, !.status = "none"]
          BY <1>10 DEF SlotCreated
        <3> QED BY <1>1, <3>1, SlotSubject DEF SlotViews, Targets
      <2> HIDE DEF q
      <2>6. q \in SlotRequests /\ q.kind = "read" /\ q.flag = "submit"
        BY <1>1, <2>1, <2>2 DEF SlotRequests, SlotCall, Asks
      <2>7. /\ gone \in SUBSET net /\ sent \in SUBSET SlotRequests /\ q \in sent
            /\ \A x \in sent : x.kind = "read" /\ (x = q \/ x.flag \notin E)
        BY <2>4, <2>6
      <2>8. /\ view'.busy \subseteq view.busy \cup {q.flag}
            /\ \A g \in gone : g.flag \in view'.busy \ {"due"} => g.flag = q.flag
        BY <2>2, <2>5, <2>6
      <2>13. \A f \in E : f \in view.busy /\ f \notin view'.busy => \E g \in gone : g.flag = f
        BY <2>5
      <2>9. "submit" \in view.busy /\ \E g \in gone : g.flag = q.flag
        BY <1>1, <2>2, <2>6 DEF Frame
      <2>10. q.flag \in E => /\ q.flag \in view'.busy
                             /\ q.flag \in view.busy => \E g \in gone : g.flag = q.flag
        BY <2>5, <2>6, <2>9
      <2>11. Frame(SlotRequests, E) /\ Covered /\ Sends(gone, sent)
        BY <1>1, <2>2
      <2> HIDE DEF E, gone, sent
      <2>12. Frame(SlotRequests, E)' /\ Covered'
        BY <1>2, <2>7, <2>8, <2>10, <2>11, <2>13, FrameFollowed
      <2> QED BY <2>5, <2>12 DEF SlotInv, E
    <1> QED BY <1>6, <1>7, <1>8, <1>9, <1>10

LEMMA SlotStep ==
    ASSUME SlotInv, SlotNext
    PROVE  SlotInv'
    BY SlotAnswersKeep, SlotUserKeeps DEF SlotNext

LEMMA SlotServed ==
    ASSUME SlotInv, NEW groups, Network(groups)
    PROVE  SlotInv' /\ UNCHANGED <<view, inputs>>
    <1>1. /\ SlotRequests \in SUBSET Requests(SlotSubjects, SlotCalls, SlotFlags)
          /\ Unanswered(SlotRequests)
      BY DEF SlotRequests, Unanswered, SlotCall, Requests
    <1>2. Frame(SlotRequests, {"submit"})' /\ Covered' /\ UNCHANGED <<view, inputs>>
      BY <1>1, FrameServed DEF SlotInv
    <1> QED BY <1>2 DEF SlotInv

LEMMA SlotStutters ==
    ASSUME SlotInv, UNCHANGED screen
    PROVE  SlotInv'
    <1>1. Frame(SlotRequests, {"submit"})' /\ Covered' /\ UNCHANGED view
      BY FrameStutters DEF SlotInv, screen
    <1> QED BY <1>1 DEF SlotInv
=============================================================================
