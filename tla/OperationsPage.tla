--------------------------- MODULE OperationsPage ---------------------------
(***************************************************************************)
(* The operations desk (pages/OperationsPage): four creation forms behind  *)
(* tabs, the lists beside them, their check-in and check-out buttons, and  *)
(* the due amount the payment form reads for the flow it is attached to.   *)
(***************************************************************************)
EXTENDS Screen

OpsTabs == {"booking", "stay", "day_use", "payment"}

OpsViews ==
    [page : {"operations"}, may : Profiles, tab : OpsTabs,
     forms : [OpsTabs -> Drafts], busy : SUBSET (OpsTabs \cup {"action", "due", "page"}),
     sel : Targets, invoice : Targets, due : Targets, word : Queries,
     found : [of : Queries, saw : Versions], lists : Versions,
     modal : Targets, sheet : {None, "bookings", "stays"}, status : Statuses]

OpsBlank == [f \in OpsTabs |-> "blank"]

\* The first render: the tab and the prefilled form come from the address; both
\* reading effects run.
OpsInit ==
    \E may \in Profiles, tab \in OpsTabs, filled \in BOOLEAN :
        /\ view = [page |-> "operations", may |-> may, tab |-> tab,
                   forms |-> IF filled /\ tab # "payment"
                             THEN [OpsBlank EXCEPT ![tab] = "partial"] ELSE OpsBlank,
                   busy |-> IF "view" \in may THEN {"page"} ELSE {},
                   sel |-> None, invoice |-> None, due |-> None, word |-> NoWord,
                   found |-> [of |-> NoWord, saw |-> 0], lists |-> 0,
                   modal |-> None, sheet |-> None,
                   status |-> IF "view" \in may THEN "none" ELSE "error"]
        /\ net = IF "view" \in may
                 THEN {Keeping(r, NoWord) : r \in Mounted({"refresh"}, "page")
                                                    \cup Mounted({"search"}, "")}
                 ELSE {}
        /\ Start

-----------------------------------------------------------------------------
(* The lists *)

\* refreshData: which of the searched bookings and the other lists it brought.
OpsRefreshed(r, got) ==
    [view EXCEPT !.found = IF "found" \in got THEN [of |-> r.at, saw |-> r.saw] ELSE @,
                 !.lists = IF "lists" \in got THEN r.saw ELSE @]
OpsGot(r) == CASE r.step = "served" -> {{"found", "lists"}}
               [] r.step = "partly" -> {{"found"}, {"lists"}}
               [] OTHER -> {{}}

OpsLoaded(r) ==
    /\ Reads(r, {"refresh"})
    /\ \E got \in OpsGot(r) :
          view' = [OpsRefreshed(r, got) EXCEPT
                      !.busy = @ \ {"page"},
                      !.status = CASE r.step = "failed" -> "error"
                                   [] r.step = "partly" -> "warning"
                                   [] OTHER -> @]
    /\ Sends({r}, {}) /\ UNCHANGED server

\* The search box and the dates: every change reads the bookings again, and no
\* earlier reading is given up.
OpsSearch(w) ==
    /\ view.sheet = "bookings" /\ w # view.word
    /\ "view" \in view.may => Unsent("search")
    /\ view' = [view EXCEPT !.word = w]
    /\ Sends({}, IF "view" \in view.may THEN {Keeping(Read("search", w, ""), w)} ELSE {})
    /\ Input

OpsFound(r) ==
    /\ Reads(r, {"search"})
    /\ view' = IF r.step = "served" THEN OpsRefreshed(r, {"found"}) ELSE view
    /\ Sends({r}, {}) /\ UNCHANGED server

-----------------------------------------------------------------------------
(* The forms *)

\* The rail of tabs.
OpsTab(t) ==
    /\ view.may \cap {"view", "create"} # {} /\ t # view.tab
    /\ view' = [view EXCEPT !.tab = t] /\ UNCHANGED net /\ Input

OpsValid(f) == view.forms[f] = "complete" /\ (f = "payment" => view.sel # None)

\* Typing in a form; the amount of a payment is disabled while it is sent.
OpsEdit(f, d) ==
    /\ view.tab = f /\ d # view.forms[f]
    /\ f = "payment" => "payment" \notin view.busy
    /\ view' = [view EXCEPT !.forms[f] = d] /\ UNCHANGED net /\ Input

\* Mutant: the button stays enabled while the form is sent.
OpsSubmitTwice(f) ==
    /\ view.tab = f
    /\ IF "create" \in view.may /\ OpsValid(f)
       THEN /\ MayWrite(f)
            /\ view' = [view EXCEPT !.busy = @ \cup {f}, !.status = "none"]
            /\ Sends({}, {Keeping(Write(f, IF f = "payment" THEN view.invoice ELSE f, f), view.word)})
       ELSE /\ view' = [view EXCEPT !.status = "error"] /\ UNCHANGED net
    /\ Input

OpsSubmit(f) ==
    /\ view.tab = f /\ f \notin view.busy
    /\ IF "create" \in view.may /\ OpsValid(f)
       THEN /\ MayWrite(f)
            /\ view' = [view EXCEPT !.busy = @ \cup {f}, !.status = "none"]
            /\ Sends({}, {Keeping(Write(f, IF f = "payment" THEN view.invoice ELSE f, f), view.word)})
       ELSE /\ view' = [view EXCEPT !.status = "error"] /\ UNCHANGED net
    /\ Input

OpsWrites == OpsTabs \cup {"action"}

\* The post succeeded: its form waits for the lists, read with the word of the submit.
OpsPosted(r) ==
    /\ Wrote(r, OpsWrites)
    /\ IF r.step = "served"
       THEN Sends({r}, {Reread(r)}) /\ UNCHANGED view
       ELSE /\ view' = [view EXCEPT !.busy = @ \ {r.flag}, !.status = "error"]
            /\ Sends({r}, {})
    /\ UNCHANGED server

\* The effect of a changed attachment: the reading of the one left is cancelled, and
\* with it the end of the spinner.
OpsDueReads == {r \in net : r.call = "due"}

\* Mutant: the attachment is reset to an empty string, as a field of a form is.
OpsResetEmpty(v, f) ==
    [v EXCEPT !.forms[f] = "blank", !.sel = IF f = "payment" THEN NoWord ELSE @,
              !.invoice = IF f = "payment" THEN None ELSE @,
              !.due = IF f = "payment" THEN None ELSE @]

OpsReset(v, f) ==
    [v EXCEPT !.forms[f] = "blank", !.sel = IF f = "payment" THEN None ELSE @,
              !.invoice = IF f = "payment" THEN None ELSE @,
              !.due = IF f = "payment" THEN None ELSE @]

\* Mutant: the form is emptied before the outcome is known.
OpsRefreshedAfterAlways(r) ==
    /\ Reads(r, OpsWrites)
    /\ \E got \in OpsGot(r) :
          LET v == [OpsRefreshed(r, got) EXCEPT
                       !.busy = @ \ {r.flag},
                       !.status = CASE r.step = "failed" -> "error"
                                    [] r.step = "partly" -> "warning"
                                    [] OTHER -> "none"]
          IN view' = IF r.flag \in OpsTabs THEN OpsReset(v, r.flag) ELSE v
    /\ Sends({r} \cup (IF r.flag = "payment" THEN OpsDueReads ELSE {}), {})
    /\ UNCHANGED server

\* The lists of a submit or an action arrived: only then is the form emptied.
OpsRefreshedAfter(r) ==
    /\ Reads(r, OpsWrites)
    /\ \E got \in OpsGot(r) :
          LET v == [OpsRefreshed(r, got) EXCEPT
                       !.busy = @ \ {r.flag},
                       !.status = CASE r.step = "failed" -> "error"
                                    [] r.step = "partly" -> "warning"
                                    [] OTHER -> "none"]
          IN view' = IF r.flag \in OpsTabs /\ r.step # "failed"
                     THEN OpsReset(v, r.flag) ELSE v
    /\ Sends({r} \cup (IF r.flag = "payment" /\ r.step # "failed" THEN OpsDueReads ELSE {}), {})
    /\ UNCHANGED server

-----------------------------------------------------------------------------
(* What a payment is attached to *)

\* Mutant: the invoice of the attachment left is kept.
OpsAttachKeeps(i) ==
    /\ view.tab = "payment" /\ i # view.sel
    /\ view' = [view EXCEPT !.sel = i, !.due = IF i = None THEN None ELSE @,
                            !.busy = IF i = None THEN @ ELSE @ \cup {"due"}]
    /\ net' = (net \ OpsDueReads)
              \cup (IF i = None THEN {}
                    ELSE {Request("read", "due", i, "due", 1)})
    /\ Input

\* The three selects and the tabs of the flow: one attachment at a time, its invoice
\* forgotten, its due read again.
OpsAttach(i) ==
    /\ view.tab = "payment" /\ i # view.sel
    /\ view' = [view EXCEPT !.sel = i, !.invoice = None,
                            !.due = IF i = None THEN None ELSE @,
                            !.busy = IF i = None THEN @ ELSE @ \cup {"due"}]
    /\ net' = (net \ OpsDueReads)
              \cup (IF i = None THEN {}
                    ELSE {Request("read", "due", i, "due", 1)})
    /\ Input

\* The due arrives with the invoice still open on the flow, if there is one.
OpsDue(r) ==
    /\ Reads(r, {"due"})
    /\ \E open \in BOOLEAN :
          view' = IF r.step = "served"
                  THEN [view EXCEPT !.due = r.arg, !.busy = @ \ {"due"},
                                    !.invoice = IF view.sel # r.arg THEN @
                                                ELSE IF open THEN r.arg ELSE None]
                  ELSE [view EXCEPT !.due = None, !.busy = @ \ {"due"}]
    /\ Sends({r}, {}) /\ UNCHANGED server

\* The shortcuts copy the due into the amount.
OpsShortcut ==
    /\ view.tab = "payment" /\ view.due # None /\ "payment" \notin view.busy
    /\ view.forms["payment"] = "blank"
    /\ view' = [view EXCEPT !.forms["payment"] = "partial"] /\ UNCHANGED net /\ Input

-----------------------------------------------------------------------------
(* Check-in and check-out *)

OpsAskAction(i) ==
    /\ view.modal = None /\ "action" \notin view.busy
    /\ view' = IF "update" \in view.may
               THEN [view EXCEPT !.modal = i, !.sheet = None]
               ELSE [view EXCEPT !.status = "error"]
    /\ UNCHANGED net /\ Input

\* ConfirmModal: the question closes, then the action is sent.
OpsConfirm(yes) ==
    /\ view.modal # None
    /\ IF yes
       THEN /\ MayWrite("action")
            /\ view' = [view EXCEPT !.modal = None, !.busy = @ \cup {"action"},
                                    !.status = "none"]
            /\ Sends({}, {Keeping(Write("action", view.modal, "action"), view.word)})
       ELSE view' = [view EXCEPT !.modal = None] /\ UNCHANGED net
    /\ Input

OpsSheet(s) ==
    /\ view.modal = None /\ s # view.sheet /\ None \in {s, view.sheet}
    /\ view' = [view EXCEPT !.sheet = s] /\ UNCHANGED net /\ Input

-----------------------------------------------------------------------------
(* What its panels offer *)

OpsForm(f) == OpsSubmit(f) \/ \E d \in {"partial", "complete"} : OpsEdit(f, d)

\* The room is optional: a changed room type only empties it again.
OpsBookingPanel == OpsForm("booking")
OpsStayPanel == OpsForm("stay")
OpsDayUsePanel == OpsForm("day_use")
OpsPaymentPanel == OpsForm("payment") \/ OpsShortcut
OpsAttachments == \E i \in Targets : OpsAttach(i)

\* Only whoever may update is shown the buttons of a row.
OpsButtons == "update" \in view.may /\ \E i \in Items : OpsAskAction(i)

\* The stays below the forms, each with its check-out for whoever may update.
OpsStaysBand ==
    view.sheet = None
        /\ (OpsSheet("stays") \/ OpsButtons)
OpsBookingsSheet ==
    IF view.sheet = "bookings"
    THEN \/ OpsSheet(None) \/ \E w \in Queries : OpsSearch(w)
         \/ OpsButtons
    ELSE view.tab = "booking" /\ OpsSheet("bookings")
OpsStaysSheet ==
    view.sheet = "stays"
        /\ (OpsSheet(None) \/ OpsButtons)

OpsArrival ==
    \E r \in net : \/ OpsLoaded(r) \/ OpsFound(r) \/ OpsPosted(r)
                  \/ OpsRefreshedAfter(r) \/ OpsDue(r)

OpsNext ==
    /\ view.page = "operations"
    /\ \/ OpsArrival \/ \E t \in OpsTabs : OpsTab(t)
       \/ OpsBookingPanel \/ OpsStayPanel \/ OpsDayUsePanel \/ OpsPaymentPanel
       \/ OpsAttachments \/ OpsStaysBand \/ OpsBookingsSheet \/ OpsStaysSheet
       \/ \E yes \in BOOLEAN : OpsConfirm(yes)
=============================================================================
