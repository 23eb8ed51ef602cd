----------------------------- MODULE UsersPage ------------------------------
(***************************************************************************)
(* The page of the hotel's users (pages/UsersPage, hooks/useUsers): a      *)
(* searched list whose readings are never given up, the user selected in   *)
(* it, and the five dialogs about that user.  An effect keeps the          *)
(* selection in the list, whatever dialog is open.  Whether a user is      *)
(* active is left out.                                                     *)
(***************************************************************************)
EXTENDS Screen

UsersModals == {"create", "edit", "role", "password", "deactivate"}
UsersViews ==
    [page : {"users"}, rights : Profiles, word : Queries, rows : SUBSET Items,
     lists : Versions, loading : BOOLEAN, sel : Targets, modal : UsersModals \cup {None},
     form : Drafts, busy : SUBSET {"save"}]

UsersRead(w) == Keeping(Read("list", w, ""), w)

UsersInit ==
    /\ \E p \in Profiles :
          view = [page |-> "users", rights |-> p, word |-> NoWord, rows |-> {}, lists |-> 0,
                  loading |-> TRUE, sel |-> None, modal |-> None, form |-> "blank",
                  busy |-> {}]
    /\ net = {Keeping(Request("read", "list", NoWord, "", 1), NoWord)}
    /\ Start

-----------------------------------------------------------------------------
(* The list and the selection *)

\* What a dialog is filled with when it is mounted: a new user and a password are not.
UsersFilled(m) == IF m \in {"edit", "role", "deactivate"} THEN "complete" ELSE "blank"

\* The effect: a selected user that left the list is forgotten, and without a search
\* another is selected; the dialog left open is then mounted again, for that one.
UsersKept(v) ==
    IF v.rows = {} THEN {None}
    ELSE IF v.sel \in v.rows THEN {v.sel}
    ELSE IF v.word = NoWord THEN v.rows ELSE {None}
UsersSettled(v) ==
    {[v EXCEPT !.sel = i, !.form = IF i = v.sel \/ v.modal = "create" THEN @
                                   ELSE UsersFilled(v.modal)] : i \in UsersKept(v)}

\* A dialog about nobody is not shown.
UsersShown == view.modal = "create" \/ (view.modal # None /\ view.sel # None)
UsersFree == ~UsersShown

UsersType(w) ==
    /\ UsersFree /\ w # view.word /\ Unsent("list")
    /\ view' \in UsersSettled([view EXCEPT !.word = w, !.loading = TRUE])
    /\ Sends({}, {UsersRead(w)}) /\ Input

\* What a search finds; without one, everybody.
UsersRows(r) == IF r.at = NoWord THEN {Items} ELSE SUBSET Items
UsersGot(v, r) ==
    UNION {UsersSettled([v EXCEPT !.loading = FALSE, !.rows = rows, !.lists = r.saw])
             : rows \in UsersRows(r)}

UsersListed(r) ==
    /\ Reads(r, {"list"})
    /\ view' \in IF r.step = "served" THEN UsersGot(view, r)
                 ELSE {[view EXCEPT !.loading = FALSE]}
    /\ Sends({r}, {}) /\ UNCHANGED server

UsersSelect(i) ==
    /\ UsersFree /\ ~view.loading /\ i \in view.rows \ {view.sel}
    /\ view' = [view EXCEPT !.sel = i, !.form = UsersFilled(view.modal)]
    /\ UNCHANGED net /\ Input

-----------------------------------------------------------------------------
(* The dialogs *)

UsersRight(m) == CASE m = "create" -> "create" [] m = "edit" -> "update" [] OTHER -> "act"

UsersOpen(m) ==
    /\ UsersFree /\ UsersRight(m) \in view.rights /\ (m # "create" => view.sel # None)
    /\ view' = [view EXCEPT !.modal = m, !.form = UsersFilled(m)] /\ UNCHANGED net /\ Input

UsersClose ==
    /\ UsersShown /\ "save" \notin view.busy
    /\ view' = [view EXCEPT !.modal = None] /\ UNCHANGED net /\ Input

UsersFill(d) ==
    /\ UsersShown /\ view.modal # "deactivate" /\ view.form # d
    /\ view' = [view EXCEPT !.form = d] /\ UNCHANGED net /\ Input

UsersSend ==
    /\ UsersShown /\ view.form = "complete" /\ MayWrite(view.modal)
    /\ view' = [view EXCEPT !.busy = {"save"}]
    /\ Sends({}, {Keeping(Write(view.modal, IF view.modal = "create" THEN None ELSE view.sel,
                                "save"), view.word)})
    /\ Input

\* Mutant: a dialog is confirmed again while it is.
UsersSaveTwice == UsersSend
UsersSave == "save" \notin view.busy /\ UsersSend

\* A password is written; the rest is in the list at once, which is then read again with
\* the word of the submit.
UsersWritten(r) ==
    /\ Wrote(r, UsersModals)
    /\ IF r.step = "failed"
       THEN view' = [view EXCEPT !.busy = {}] /\ Sends({r}, {})
       ELSE IF r.call = "password"
       THEN view' = [view EXCEPT !.busy = {}, !.modal = None] /\ Sends({r}, {})
       ELSE \E i \in IF r.call = "create" THEN Items ELSE {r.arg} :
               /\ view' \in UsersSettled([view EXCEPT !.loading = TRUE,
                              !.rows = IF r.call = "create" THEN @ \cup {i} ELSE @])
               /\ Sends({r}, {[Reread(r) EXCEPT !.arg = i]})
    /\ UNCHANGED server

\* The user written is selected and the dialog closes, whichever it is now.  When the list
\* fails the dialog stays, as if nothing had been written.
UsersReread(r) ==
    /\ Reads(r, UsersModals)
    /\ LET v == [view EXCEPT !.busy = {}]
           done == [v EXCEPT !.modal = None, !.sel = IF r.call = "deactivate" THEN @ ELSE r.arg]
       IN view' \in IF r.step = "served" THEN UsersGot(done, r) ELSE {[v EXCEPT !.loading = FALSE]}
    /\ Sends({r}, {}) /\ UNCHANGED server

-----------------------------------------------------------------------------

UsersList == \/ \E w \in Queries : UsersType(w)
             \/ \E i \in Items : UsersSelect(i)
             \/ UsersOpen("create")
UsersDetail == \E m \in UsersModals \ {"create"} : UsersOpen(m)
UsersFields == \E d \in {"partial", "complete"} : UsersFill(d)
UsersForm == view.modal \in {"create", "edit"} /\ (UsersFields \/ UsersSave)
UsersRole == view.modal = "role" /\ (UsersFields \/ UsersSave)
UsersPassword == view.modal = "password" /\ (UsersFields \/ UsersSave)
UsersDeactivate == view.modal = "deactivate" /\ UsersSave

UsersNext ==
    /\ view.page = "users"
    /\ \/ UsersList \/ UsersDetail \/ UsersForm \/ UsersRole \/ UsersPassword
       \/ UsersDeactivate \/ UsersClose
       \/ \E r \in net : UsersListed(r) \/ UsersWritten(r) \/ UsersReread(r)
=============================================================================
