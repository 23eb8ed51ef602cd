----------------------------- MODULE AccessPages -----------------------------
(***************************************************************************)
(* The security of one's account (pages/AccountSecurityPage): its          *)
(* sessions, its second factor and its password; and the console of the    *)
(* roles (pages/PlatformAdmin/PlatformSecurityPage): the journal, the      *)
(* reviews and the form of the selected role.                              *)
(***************************************************************************)
EXTENDS Screen

All == "all"

\* `active` is the sessions that may be revoked, `row` the last one clicked.
AccountViews ==
    [page : {"account"}, active : SUBSET Items, row : Targets \cup {All},
     code : {"none", "blank", "typed"}, enabled : BOOLEAN, password : Drafts,
     busy : SUBSET {"sessions", "factor", "password"}, leaving : BOOLEAN, out : BOOLEAN,
     lists : Versions, status : {"none", "error", "notice"}]

AccountInit ==
    /\ \E e \in BOOLEAN :
          view = [page |-> "account", active |-> {}, row |-> None, code |-> "none",
                  enabled |-> e, password |-> "blank", busy |-> {"sessions"}, leaving |-> FALSE,
                  out |-> FALSE, lists |-> 0, status |-> "none"]
    /\ net = Mounted({"sessions"}, "sessions") /\ Start

AccountRaise(v, f) == [v EXCEPT !.busy = @ \cup {f}, !.status = "none"]
AccountLower(v, f, status) == [v EXCEPT !.busy = @ \ {f}, !.status = status]

AccountRefresh ==
    /\ "sessions" \notin view.busy /\ Unsent("sessions")
    /\ view' = [view EXCEPT !.busy = @ \cup {"sessions"},
                           !.status = IF @ = "error" THEN "none" ELSE @]
    /\ Sends({}, {Read("sessions", NoWord, "sessions")}) /\ Input

\* loadSessions hears its own failure; the last one ends the guard of a revocation.
AccountListed(r) ==
    /\ Reads(r, {"sessions", "revoke"})
    /\ LET v == [view EXCEPT !.busy = @ \ {"sessions"}, !.row = IF r.call = "revoke" THEN None ELSE @]
       IN IF r.step = "served"
          THEN \E S \in SUBSET Items : view' = [v EXCEPT !.active = S, !.lists = r.saw]
          ELSE view' = [v EXCEPT !.status = "error"]
    /\ Sends({r}, {}) /\ UNCHANGED server

AccountRevoke(i) ==
    /\ "sessions" \notin view.busy /\ i \in view.active /\ view.row # i /\ MayWrite("revoke")
    /\ view' = [view EXCEPT !.row = i, !.status = "none"]
    /\ Sends({}, {Write("revoke", i, "")}) /\ Input

\* Mutant: a refused revocation leaves its row waiting.
AccountRevokedStuck(r) ==
    /\ Wrote(r, {"revoke"})
    /\ IF r.step = "served"
       THEN /\ view' = AccountRaise(view, "sessions")
            /\ Sends({r}, {[Reread(r) EXCEPT !.flag = "sessions"]})
       ELSE view' = [view EXCEPT !.status = "error"] /\ Sends({r}, {})
    /\ UNCHANGED server

AccountRevoked(r) ==
    /\ Wrote(r, {"revoke"})
    /\ IF r.step = "served"
       THEN /\ view' = [AccountRaise(view, "sessions") EXCEPT !.status = "notice"]
            /\ Sends({r}, {[Reread(r) EXCEPT !.flag = "sessions"]})
       ELSE view' = [view EXCEPT !.row = None, !.status = "error"] /\ Sends({r}, {})
    /\ UNCHANGED server

AccountRevokeAll ==
    /\ view.row # All /\ view.active # {} /\ MayWrite("revoke_all")
    /\ view' = [view EXCEPT !.row = All, !.status = "none"]
    /\ Sends({}, {Write("revoke_all", All, "")}) /\ Input

\* Every session revoked, this one is left; the page goes with it.
AccountRevokedAll(r) ==
    /\ Wrote(r, {"revoke_all"})
    /\ view' = IF r.step = "served" THEN [view EXCEPT !.out = TRUE, !.row = None]
               ELSE [view EXCEPT !.row = None, !.status = "error"]
    /\ Sends({r}, {}) /\ UNCHANGED server

\* The second factor: a code is prepared, typed and verified.
AccountFactor(call, allowed) ==
    /\ "factor" \notin view.busy /\ allowed /\ MayWrite(call)
    /\ view' = AccountRaise(view, "factor")
    /\ Sends({}, {Write(call, None, "factor")}) /\ Input

AccountCode ==
    /\ "factor" \notin view.busy /\ view.code = "blank"
    /\ view' = [view EXCEPT !.code = "typed"] /\ UNCHANGED net /\ Input

\* Turning it on or off is followed by a reading of the session.
AccountFactored(r) ==
    /\ Wrote(r, {"prepare", "verify", "disable"})
    /\ IF r.step = "failed"
       THEN view' = AccountLower(view, "factor", "error") /\ Sends({r}, {})
       ELSE \/ /\ r.call = "prepare" /\ Sends({r}, {})
               /\ \E c \in {"blank", "typed"} :
                     view' = [AccountLower(view, "factor", "notice") EXCEPT !.code = c]
            \/ /\ r.call # "prepare" /\ Sends({r}, {Reread(r)})
               /\ view' = [view EXCEPT !.code = "none"]
    /\ UNCHANGED server

AccountReread(r) ==
    /\ Reads(r, {"verify", "disable"})
    /\ view' = IF r.step = "served"
               THEN [AccountLower(view, "factor", "notice") EXCEPT !.enabled = r.call = "verify"]
               ELSE AccountLower(view, "factor", "error")
    /\ Sends({r}, {}) /\ UNCHANGED server

AccountType(d) ==
    /\ "password" \notin view.busy /\ view.password # d
    /\ view' = [view EXCEPT !.password = d] /\ UNCHANGED net /\ Input

AccountChange ==
    /\ view.password = "complete" /\ "password" \notin view.busy /\ MayWrite("password")
    /\ view' = AccountRaise(view, "password")
    /\ Sends({}, {Write("password", None, "password")}) /\ Input

AccountChanged(r) ==
    /\ Wrote(r, {"password"})
    /\ view' = IF r.step = "served"
               THEN [AccountLower(view, "password", "notice")
                       EXCEPT !.password = "blank", !.leaving = TRUE]
               ELSE AccountLower(view, "password", "error")
    /\ Sends({r}, {}) /\ UNCHANGED server

\* The timer that leaves the session after a change of password.
AccountLeave ==
    /\ view.leaving /\ view' = [view EXCEPT !.leaving = FALSE, !.out = TRUE]
    /\ UNCHANGED <<net, server>>

AccountSessions == AccountRefresh \/ AccountRevokeAll \/ \E i \in Items : AccountRevoke(i)
AccountTwoFactor ==
    \/ AccountCode \/ AccountFactor("prepare", TRUE)
    \/ AccountFactor("verify", view.code = "typed") \/ AccountFactor("disable", view.enabled)
AccountPassword == AccountChange \/ \E d \in {"partial", "complete"} : AccountType(d)

AccountNext ==
    /\ view.page = "account" /\ ~view.out
    /\ \/ AccountSessions \/ AccountTwoFactor \/ AccountPassword \/ AccountLeave
       \/ \E r \in net : AccountListed(r) \/ AccountRevoked(r) \/ AccountRevokedAll(r)
                         \/ AccountFactored(r) \/ AccountReread(r) \/ AccountChanged(r)

-----------------------------------------------------------------------------
(* The console of the roles *)

IamViews ==
    [page : {"iam"}, filter : Queries, shown : Queries, known : SUBSET Items, role : Targets,
     form : Drafts, review : Drafts, busy : SUBSET {"events", "role", "review"},
     lists : Versions, status : {"none", "error", "success"}]

IamInit ==
    /\ view = [page |-> "iam", filter |-> NoWord, shown |-> NoWord, known |-> {}, role |-> None,
               form |-> "blank", review |-> "blank", busy |-> {"events"}, lists |-> 0,
               status |-> "none"]
    /\ net = Mounted({"events"}, "events")
             \cup {[Request("read", "matrix", None, "", 1) EXCEPT !.at = None]}
    /\ Start

\* The journal: the readings of two filters may cross.
IamFilter(w) ==
    /\ w # view.filter /\ Unsent("events")
    /\ view' = [view EXCEPT !.filter = w, !.busy = @ \cup {"events"}]
    /\ Sends({}, {Read("events", w, "events")}) /\ Input

IamJournal(r) ==
    /\ Reads(r, {"events"})
    /\ view' = IF r.step = "served"
               THEN [view EXCEPT !.shown = r.arg, !.busy = @ \ {"events"}]
               ELSE [view EXCEPT !.status = "error", !.busy = @ \ {"events"}]
    /\ Sends({r}, {}) /\ UNCHANGED server

\* The matrix: without a role selected when it was asked for, the first one is.
IamMatrix(r, v) ==
    IF r.at = None /\ v.known # {}
    THEN [v EXCEPT !.role = CHOOSE i \in v.known : TRUE, !.form = "complete"] ELSE v

IamLoaded(r) ==
    /\ Reads(r, {"matrix"})
    /\ IF r.step = "served"
       THEN \E S \in SUBSET Items :
               view' = IamMatrix(r, [view EXCEPT !.known = S, !.lists = r.saw])
       ELSE view' = [view EXCEPT !.status = "error"]
    /\ Sends({r}, {}) /\ UNCHANGED server

IamSelect(i) ==
    /\ i \in view.known
    /\ view' = [view EXCEPT !.role = i, !.form = "complete", !.status = "none"]
    /\ UNCHANGED net /\ Input
IamNew ==
    /\ view' = [view EXCEPT !.role = None, !.form = "blank", !.status = "none"]
    /\ UNCHANGED net /\ Input
IamEdit(d) ==
    /\ view.form # d /\ view' = [view EXCEPT !.form = d] /\ UNCHANGED net /\ Input

IamSend(call, arg) ==
    /\ MayWrite(call) /\ view' = [view EXCEPT !.busy = @ \cup {call}, !.status = "none"]
    /\ Sends({}, {Keeping(Write(call, arg, call), arg)}) /\ Input

\* Mutant: a role is saved again while it is being saved.
IamSaveTwice == view.form = "complete" /\ IamSend("role", view.role)

IamSave == view.form = "complete" /\ "role" \notin view.busy /\ IamSend("role", view.role)

IamSaved(r) ==
    /\ Wrote(r, {"role"})
    /\ IF r.step = "served" THEN /\ view' = [view EXCEPT !.status = "success"]
                                 /\ Sends({r}, {Reread(r)})
       ELSE /\ view' = [view EXCEPT !.busy = @ \ {"role"}, !.status = "error"]
            /\ Sends({r}, {})
    /\ UNCHANGED server

\* The matrix read again, the saved role takes the form, whatever was selected meanwhile.
IamReread(r) ==
    /\ Reads(r, {"role"})
    /\ LET v == [view EXCEPT !.busy = @ \ {"role"}]
       IN IF r.step = "served"
          THEN \E S \in SUBSET Items, i \in (IF r.arg = None THEN Items ELSE {r.arg}) :
                  view' = [v EXCEPT !.known = S, !.lists = r.saw, !.role = i, !.form = "complete"]
          ELSE view' = [v EXCEPT !.status = "error"]
    /\ Sends({r}, {}) /\ UNCHANGED server

IamWrite(d) ==
    /\ "review" \notin view.busy /\ view.review # d
    /\ view' = [view EXCEPT !.review = d] /\ UNCHANGED net /\ Input
IamReview ==
    view.review = "complete" /\ "review" \notin view.busy /\ IamSend("review", view.filter)

\* The journal is read again, with the filter there was when the review was sent.
IamReviewed(r) ==
    /\ Wrote(r, {"review"})
    /\ IF r.step = "served" THEN /\ view' = [view EXCEPT !.review = "blank", !.status = "success"]
                                 /\ Sends({r}, {Reread(r)})
       ELSE /\ view' = [view EXCEPT !.busy = @ \ {"review"}, !.status = "error"]
            /\ Sends({r}, {})
    /\ UNCHANGED server

IamRejournal(r) ==
    /\ Reads(r, {"review"})
    /\ view' = IF r.step = "served" THEN [view EXCEPT !.busy = @ \ {"review"}, !.shown = r.arg]
               ELSE [view EXCEPT !.busy = @ \ {"review"}, !.status = "error"]
    /\ Sends({r}, {}) /\ UNCHANGED server

IamFilters == \E w \in Queries : IamFilter(w)
IamReviewForm == IamReview \/ \E d \in {"partial", "complete"} : IamWrite(d)
IamRoles == IamNew \/ \E i \in Items : IamSelect(i)
IamRoleForm == IamSave \/ \E d \in {"partial", "complete"} : IamEdit(d)

IamNext ==
    /\ view.page = "iam"
    /\ \/ IamFilters \/ IamReviewForm \/ IamRoles \/ IamRoleForm
       \/ \E r \in net : IamJournal(r) \/ IamLoaded(r) \/ IamSaved(r) \/ IamReread(r)
                         \/ IamReviewed(r) \/ IamRejournal(r)
=============================================================================
