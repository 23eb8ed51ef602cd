----------------------------- MODULE ClientsPage -----------------------------
(***************************************************************************)
(* The clients page (pages/ClientsPage) with its detail panel and its      *)
(* form.  `sel` is the client selected, which every write is about;        *)
(* `shows` the client whose details were received, which the panel, the    *)
(* form and the confirmation speak of; `holds` the client whose data the   *)
(* form was filled with.  Two counters number the readings of the list and *)
(* of the details: an answer that is not the latest is ignored; here such  *)
(* a request is marked "old".  The steps of the form only lay it out: each *)
(* is reached at any time.                                                 *)
(***************************************************************************)
EXTENDS Screen

ClientsLists == {"list", "filter", "turn", "saved", "archived", "reactivated"}
ClientsDetails == {"detail", "again", "refreshed"}
ClientsWrites == {"create", "update", "archive", "reactivate"}

ClientsViews ==
    [page : {"clients"}, may : Profiles, search : Queries, timer : BOOLEAN, prefers : Targets,
     sel : Targets, shows : Targets, detailing : BOOLEAN, visible : SUBSET Items,
     mode : {"detail", "edit", "create"}, drawer : BOOLEAN, holds : Targets,
     forms : [{"client"} -> Drafts], modal : {"none", "archive", "unsaved"},
     busy : SUBSET {"page", "submit", "delete"}, status : {"none", "error"},
     lists : Versions]

ClientsInit ==
    \E may \in Profiles :
        /\ view = [page |-> "clients", may |-> may, search |-> NoWord, timer |-> FALSE,
                   prefers |-> None, sel |-> None, shows |-> None, detailing |-> FALSE,
                   visible |-> {}, mode |-> "detail", drawer |-> FALSE, holds |-> None,
                   forms |-> [f \in {"client"} |-> "blank"], modal |-> "none",
                   busy |-> {"page"}, status |-> "none", lists |-> 0]
        /\ net = Mounted({"list"}, "page")
        /\ Start

Outdated(requests, calls) ==
    {IF r.kind = "read" /\ r.call \in calls THEN [r EXCEPT !.at = "old"] ELSE r : r \in requests}
Latest(r) == r.at # "old"

-----------------------------------------------------------------------------
(* Reading the details *)

\* The form of an edition is filled again whenever the client shown is set.
ClientsShows(v, i) ==
    IF v.mode # "edit" THEN [v EXCEPT !.shows = i]
    ELSE [v EXCEPT !.shows = i, !.holds = i,
                   !.forms["client"] = IF i = None THEN "blank" ELSE "complete"]

\* loadClientDetail as the request `r`: it outdates the readings before it.
ClientsDetail(requests, r) == Outdated(requests, ClientsDetails) \cup {r}

\* The effect of selectedClientId: a change of the selection reads the details.
ClientsSelected(v, i) ==
    IF i = None THEN ClientsShows([v EXCEPT !.sel = None,
                                           !.detailing = IF v.sel = None THEN @ ELSE FALSE], None)
    ELSE [v EXCEPT !.sel = i, !.detailing = @ \/ i # v.sel]
ClientsSelecting(requests, i) ==
    IF i = view.sel THEN requests
    ELSE IF i = None THEN Outdated(requests, ClientsDetails)
    ELSE ClientsDetail(requests, Read("detail", i, ""))

\* Mutant: an answer that is not the latest is shown too.
ClientsDetailedAny(r) ==
    /\ Reads(r, ClientsDetails)
    /\ LET v == [view EXCEPT !.busy = @ \ {r.flag}, !.detailing = @ /\ ~Latest(r)]
       IN view' = IF r.step = "failed" THEN [v EXCEPT !.status = "error"]
                  ELSE ClientsShows(v, r.arg)
    /\ Sends({r}, {}) /\ UNCHANGED server

ClientsDetailed(r) ==
    /\ Reads(r, ClientsDetails)
    /\ LET v == [view EXCEPT !.busy = @ \ {r.flag}, !.detailing = @ /\ ~Latest(r),
                             !.drawer = @ \/ (r.call = "refreshed" /\ r.step = "served"
                                              /\ r.flag = "submit")]
       IN view' = IF r.step = "failed"
                  THEN [v EXCEPT !.status = IF r.call = "again" THEN @ ELSE "error"]
                  ELSE IF Latest(r) THEN ClientsShows(v, r.arg) ELSE v
    /\ Sends({r}, {}) /\ UNCHANGED server

-----------------------------------------------------------------------------
(* Reading the list *)

\* loadClients, which prefers the client `i`.
ClientsList(call, i, flag) == Outdated(net, ClientsLists) \cup {Read(call, i, flag)}

\* What a list leaves selected, `first` being its first client: the client the
\* call prefers; else, when the call preserves it, the present one if listed;
\* else the first.
ClientsChoice(r, visible, first) ==
    IF visible = {} THEN None
    ELSE IF r.arg \in visible THEN r.arg
    ELSE IF r.call \in {"turn", "saved", "reactivated"} /\ r.arg # None
            /\ view.sel \in visible \cup {None} THEN view.sel
    ELSE first

\* The handlers of save and reactivate then read the details of their client.
ClientsHandled(r) == r.call \in {"saved", "reactivated"}
ClientsAwait(r) ==
    IF ClientsHandled(r) THEN ClientsDetail(net \ {r}, Read("refreshed", r.arg, r.flag))
    ELSE net \ {r}
ClientsAwaiting(r) ==
    IF ClientsHandled(r) THEN [view EXCEPT !.detailing = TRUE] ELSE [view EXCEPT !.busy = @ \ {r.flag}]

ClientsTake(r) ==
    \E visible \in SUBSET Items, first \in Items :
       LET i == ClientsChoice(r, visible, first)
       IN  /\ visible # {} => first \in visible
           /\ view' = [ClientsSelected(ClientsAwaiting(r), i) EXCEPT !.visible = visible,
                                                                     !.lists = r.saw]
           /\ net' = ClientsSelecting(ClientsAwait(r), i)

\* Mutant: an answer that is not the latest is taken too.
ClientsListedAny(r) ==
    /\ Reads(r, ClientsLists) /\ r.step = "served"
    /\ Unsent("detail") /\ Unsent("refreshed")
    /\ ClientsTake(r) /\ UNCHANGED server

ClientsListed(r) ==
    /\ Reads(r, ClientsLists) /\ r.step = "served"
    /\ Unsent("detail") /\ Unsent("refreshed")
    /\ IF Latest(r) THEN ClientsTake(r)
       ELSE view' = ClientsAwaiting(r) /\ net' = ClientsAwait(r)
    /\ UNCHANGED server

\* Mutant: a failure leaves the page as it is.
ClientsUnlistedStuck(r) ==
    /\ Reads(r, ClientsLists) /\ r.step = "failed"
    /\ view' = [view EXCEPT !.status = "error"]
    /\ Sends({r}, {}) /\ UNCHANGED server

ClientsUnlisted(r) ==
    /\ Reads(r, ClientsLists) /\ r.step = "failed"
    /\ view' = [view EXCEPT !.busy = @ \ {r.flag}, !.status = "error"]
    /\ Sends({r}, {}) /\ UNCHANGED server

-----------------------------------------------------------------------------
(* The list: the drawer and the dialogues cover it. *)

ClientsFree == view.mode = "detail" /\ view.modal = "none"

\* The timer of a search fires 250 ms later, with the selection of the typing.
ClientsSearch(q) ==
    /\ ClientsFree /\ q # view.search
    /\ view' = [view EXCEPT !.search = q, !.timer = TRUE, !.prefers = view.sel]
    /\ UNCHANGED net /\ Input
ClientsTimer ==
    /\ view.timer /\ Unsent("list")
    /\ view' = [view EXCEPT !.timer = FALSE, !.prefers = None]
    /\ net' = ClientsList("list", view.prefers, "") /\ UNCHANGED server

ClientsFilter ==
    /\ ClientsFree /\ Unsent("filter")
    /\ net' = ClientsList("filter", None, "") /\ UNCHANGED view /\ Input
ClientsTurn ==
    /\ ClientsFree /\ Unsent("turn") /\ view.visible # {}
    /\ net' = ClientsList("turn", view.sel, "") /\ UNCHANGED view /\ Input

ClientsSelect(i) ==
    /\ ClientsFree /\ i \in view.visible /\ Unsent("detail")
    /\ view' = [ClientsSelected(view, i) EXCEPT !.drawer = TRUE, !.status = "none"]
    /\ net' = ClientsSelecting(net, i) /\ Input

ClientsStartCreate ==
    /\ ClientsFree /\ "create" \in view.may
    /\ view' = [view EXCEPT !.mode = "create", !.drawer = TRUE, !.holds = None,
                            !.forms["client"] = "blank", !.status = "none"]
    /\ UNCHANGED net /\ Input
ClientsListPanel ==
    \/ ClientsFilter \/ ClientsTurn \/ ClientsStartCreate
    \/ \E q \in Queries : ClientsSearch(q)
    \/ \E i \in Items : ClientsSelect(i)

-----------------------------------------------------------------------------
(* The panel of the details *)

ClientsPanel == ClientsFree /\ ~view.detailing /\ view.shows # None

ClientsRefresh ==
    /\ ClientsPanel /\ Unsent("again") /\ view.sel # None
    /\ view' = [view EXCEPT !.detailing = TRUE]
    /\ net' = ClientsDetail(net, Read("again", view.sel, "")) /\ Input
ClientsStartEdit ==
    /\ ClientsPanel /\ "update" \in view.may
    /\ view' = [view EXCEPT !.mode = "edit", !.drawer = TRUE, !.holds = view.shows,
                            !.forms["client"] = "complete", !.status = "none"]
    /\ UNCHANGED net /\ Input
ClientsAskArchive ==
    /\ ClientsPanel /\ "act" \in view.may /\ view.sel # None
    /\ view' = [view EXCEPT !.modal = "archive"] /\ UNCHANGED net /\ Input

\* A write about the client selected, of what is shown of `shown`.
ClientsWrite(call, flag, shown) ==
    /\ MayWrite(call)
    /\ view' = [view EXCEPT !.busy = @ \cup {flag}, !.status = "none"]
    /\ Sends({}, {Keeping(Write(call, view.sel, flag), shown)})
    /\ Input

ClientsReactivate ==
    /\ ClientsPanel /\ "update" \in view.may /\ view.sel # None
    /\ ClientsWrite("reactivate", "submit", view.shows)
ClientsArchive ==
    /\ view.modal = "archive" /\ "delete" \notin view.busy /\ view.sel # None /\ view.shows # None
    /\ ClientsWrite("archive", "delete", view.shows)
ClientsKeep ==
    /\ view.modal = "archive" /\ "delete" \notin view.busy
    /\ view' = [view EXCEPT !.modal = "none"] /\ UNCHANGED net /\ Input

-----------------------------------------------------------------------------
(* The form, in its drawer *)

ClientsForm == view.mode # "detail" /\ view.modal = "none"

ClientsEdit(d) ==
    /\ ClientsForm /\ d # view.forms["client"]
    /\ view' = [view EXCEPT !.forms["client"] = d] /\ UNCHANGED net /\ Input
ClientsSave ==
    /\ ClientsForm /\ "submit" \notin view.busy /\ view.forms["client"] = "complete"
    /\ IF view.mode = "edit" /\ view.sel # None
       THEN ClientsWrite("update", "submit", view.holds)
       ELSE ClientsWrite("create", "submit", view.holds)

\* Mutant: the form closed leaves the page in no mode.
ClientsFormGoneNull(v) ==
    [v EXCEPT !.mode = None, !.holds = None, !.forms["client"] = "blank"]

ClientsFormGone(v) ==
    [v EXCEPT !.mode = "detail", !.holds = None, !.forms["client"] = "blank"]
ClientsCancelForm ==
    /\ ClientsForm /\ "submit" \notin view.busy
    /\ view' = ClientsFormGone(view) /\ UNCHANGED net /\ Input
ClientsCloseDrawer ==
    /\ ClientsForm /\ view.busy \cap {"submit", "delete"} = {}
    /\ view' = [view EXCEPT !.modal = "unsaved"] /\ UNCHANGED net /\ Input
ClientsUnsaved(leave) ==
    /\ view.modal = "unsaved"
    /\ view' = IF leave THEN [ClientsFormGone(view) EXCEPT !.modal = "none", !.drawer = FALSE]
               ELSE [view EXCEPT !.modal = "none"]
    /\ UNCHANGED net /\ Input
ClientsDrawer ==
    \/ ClientsSave \/ ClientsCancelForm \/ ClientsCloseDrawer
    \/ \E d \in {"partial", "complete"} : ClientsEdit(d)

\* A success closes the form and reads the list; a failure leaves all as it is.
ClientsNextList == [create |-> "saved", update |-> "saved", archive |-> "archived",
                    reactivate |-> "reactivated"]
ClientsWritten(r) ==
    /\ Wrote(r, ClientsWrites)
    /\ IF r.step = "served"
       THEN /\ Unsent(ClientsNextList[r.call])
            /\ view' = [ClientsFormGone(view) EXCEPT
                          !.modal = IF r.call = "archive" THEN "none" ELSE @,
                          !.drawer = @ /\ r.call # "archive"]
            /\ \E i \in (IF r.call = "create" THEN Items
                         ELSE IF r.call = "archive" THEN {None} ELSE {r.arg}) :
                  net' = Outdated(net \ {r}, ClientsLists)
                         \cup {Read(ClientsNextList[r.call], i, r.flag)}
       ELSE /\ view' = [view EXCEPT !.busy = @ \ {r.flag}, !.status = "error"]
            /\ Sends({r}, {})
    /\ UNCHANGED server

ClientsNext ==
    /\ view.page = "clients"
    /\ \/ \E r \in net : \/ ClientsListed(r) \/ ClientsUnlisted(r) \/ ClientsDetailed(r)
                         \/ ClientsWritten(r)
       \/ ClientsTimer \/ ClientsListPanel
       \/ ClientsRefresh \/ ClientsStartEdit \/ ClientsAskArchive \/ ClientsReactivate
       \/ ClientsArchive \/ ClientsKeep
       \/ ClientsDrawer \/ \E leave \in BOOLEAN : ClientsUnsaved(leave)
=============================================================================
