------------------------- MODULE BookingAndStayPages -------------------------
(***************************************************************************)
(* The page of one booking (OperationDetailPage with BookingDetailPage)    *)
(* and the page of one stay (StayDetailPage).  The address names the row   *)
(* asked for, `at`; the page shows the row last received, `shows`, and no  *)
(* load is given up when the address changes.  Which actions the status of *)
(* a row allows is left open.                                              *)
(***************************************************************************)
EXTENDS Screen

BookingActions == {"check_in", "confirm", "cancel", "no_show"}

BookingViews ==
    [page : {"booking"}, may : Profiles, at : Items, shows : Targets,
     forms : [{"booking"} -> Drafts], asking : BookingActions \cup {None},
     busy : SUBSET {"page", "submit"}, status : {"none", "error", "success"}, lists : Versions]

BookingInit ==
    \E may \in Profiles, i \in Items :
        /\ view = [page |-> "booking", may |-> may, at |-> i, shows |-> None,
                   forms |-> [f \in {"booking"} |-> "blank"], asking |-> None,
                   busy |-> {"page"}, status |-> "none", lists |-> 0]
        /\ net = {Request("read", "detail", i, "page", 1)}
        /\ Start

BookingShown == "page" \notin view.busy /\ view.shows # None

\* The loading box replaces the page: what it held is gone, and the end of a
\* write it awaited lowers no flag of the next.
Orphans(requests) == {IF r.flag = "submit" THEN [r EXCEPT !.flag = ""] ELSE r : r \in requests}
BookingGo(i) ==
    /\ i # view.at /\ Unsent("detail")
    /\ view' = [view EXCEPT !.at = i, !.busy = {"page"}, !.forms["booking"] = "blank",
                            !.asking = None, !.status = "none"]
    /\ net' = Orphans(net) \cup {Read("detail", i, "page")}
    /\ Input

\* The form is filled from the row, which may be one the validation refuses.
BookingReceived(v, r, i, d) ==
    [v EXCEPT !.shows = i, !.lists = r.saw, !.status = "none", !.forms["booking"] = d]
BookingLoaded(r) ==
    /\ Reads(r, {"detail"})
    /\ \E d \in {"partial", "complete"} :
          view' = [(IF r.step = "served" THEN BookingReceived(view, r, r.arg, d)
                    ELSE IF view.shows # None THEN [view EXCEPT !.forms["booking"] = d]
                    ELSE [view EXCEPT !.status = "error"]) EXCEPT !.busy = @ \ {"page"}]
    /\ Sends({r}, {}) /\ UNCHANGED server

BookingEdit(d) ==
    /\ BookingShown /\ view.asking = None /\ d # view.forms["booking"]
    /\ view' = [view EXCEPT !.forms["booking"] = d] /\ UNCHANGED net /\ Input

BookingPost(call) ==
    /\ MayWrite(call)
    /\ view' = [view EXCEPT !.busy = @ \cup {"submit"}, !.status = "none"]
    /\ Sends({}, {Keeping(Write(call, view.shows, "submit"), view.at)})

BookingSave ==
    /\ BookingShown /\ view.asking = None /\ "submit" \notin view.busy /\ "update" \in view.may
    /\ IF view.forms["booking"] = "complete" THEN BookingPost("save")
       ELSE view' = [view EXCEPT !.status = "error"] /\ UNCHANGED net
    /\ Input

BookingAsk(a) ==
    /\ BookingShown /\ view.asking = None /\ "submit" \notin view.busy
    /\ IF a = "confirm" THEN "update" \in view.may ELSE "act" \in view.may
    /\ view' = [view EXCEPT !.asking = a] /\ UNCHANGED net /\ Input
BookingGiveUp ==
    /\ BookingShown /\ view.asking # None
    /\ view' = [view EXCEPT !.asking = None] /\ UNCHANGED net /\ Input

\* Mutant: the button of the dialogue stays enabled.
BookingConfirmTwice ==
    BookingShown /\ view.asking # None /\ BookingPost(view.asking) /\ Input
BookingConfirm ==
    /\ BookingShown /\ view.asking # None /\ "submit" \notin view.busy
    /\ BookingPost(view.asking) /\ Input

\* After a success the parent reads the row of its address again.
BookingPosted(r) ==
    /\ Wrote(r, BookingActions \cup {"save"})
    /\ IF r.step = "served"
       THEN /\ Sends({r}, {Reread(r)})
            /\ view' = IF r.flag = "" THEN view
                       ELSE [view EXCEPT !.status = "success",
                                         !.asking = IF r.call = "save" THEN @ ELSE None]
       ELSE /\ Sends({r}, {})
            /\ view' = IF r.flag = "" THEN view
                       ELSE [view EXCEPT !.status = "error", !.busy = @ \ {"submit"}]
    /\ UNCHANGED server
BookingReloaded(r) ==
    /\ Reads(r, BookingActions \cup {"save"})
    /\ \E d \in {"partial", "complete"} :
          view' = [(IF r.step = "served" THEN BookingReceived(view, r, r.at, d)
                    ELSE IF r.flag # "" THEN [view EXCEPT !.status = "error"] ELSE view)
                   EXCEPT !.busy = @ \ {r.flag}]
    /\ Sends({r}, {}) /\ UNCHANGED server

BookingActionsCard == \E a \in BookingActions : BookingAsk(a)
BookingNext ==
    /\ view.page = "booking"
    /\ \/ \E r \in net : BookingLoaded(r) \/ BookingPosted(r) \/ BookingReloaded(r)
       \/ \E i \in Items : BookingGo(i)
       \/ \E d \in {"partial", "complete"} : BookingEdit(d)
       \/ BookingSave \/ BookingActionsCard \/ BookingGiveUp \/ BookingConfirm

-----------------------------------------------------------------------------
(* The page of a stay: its state outlives a change of address. *)

StayActions == {"check_out", "clean"}

StayViews ==
    [page : {"stay"}, may : Profiles, at : Items, shows : Targets,
     asking : StayActions \cup {None}, asked : Targets,
     busy : SUBSET {"page", "submit"}, status : {"none", "error", "success"}, lists : Versions]

StayInit ==
    \E may \in Profiles, i \in Items :
        /\ view = [page |-> "stay", may |-> may, at |-> i, shows |-> None, asking |-> None,
                   asked |-> None, busy |-> {"page"}, status |-> "none", lists |-> 0]
        /\ net = {Request("read", "detail", i, "page", 1)}
        /\ Start

StayShown == "page" \notin view.busy /\ view.shows # None

StayGo(i) ==
    /\ i # view.at /\ Unsent("detail")
    /\ view' = [view EXCEPT !.at = i, !.busy = @ \cup {"page"}, !.status = "none"]
    /\ Sends({}, {Read("detail", i, "page")}) /\ Input

StayReceived(v, r, i) == [v EXCEPT !.shows = i, !.lists = r.saw]
StayLoaded(r) ==
    /\ Reads(r, {"detail"})
    /\ view' = [(IF r.step = "served" THEN StayReceived(view, r, r.arg)
                 ELSE [view EXCEPT !.status = "error"]) EXCEPT !.busy = @ \ {"page"}]
    /\ Sends({r}, {}) /\ UNCHANGED server

\* The check-out is that of the address, the cleaning that of the row shown.
StayAsk(a) ==
    /\ StayShown /\ view.asking = None /\ "submit" \notin view.busy /\ "act" \in view.may
    /\ view' = [view EXCEPT !.asking = a,
                            !.asked = IF a = "check_out" THEN view.at ELSE view.shows]
    /\ UNCHANGED net /\ Input
StayGiveUp ==
    /\ StayShown /\ view.asking # None
    /\ view' = [view EXCEPT !.asking = None, !.asked = None] /\ UNCHANGED net /\ Input
StayConfirm ==
    /\ StayShown /\ view.asking # None /\ "submit" \notin view.busy /\ MayWrite(view.asking)
    /\ view' = [view EXCEPT !.asking = None, !.asked = None, !.status = "none",
                            !.busy = @ \cup {"submit"}]
    /\ Sends({}, {Keeping(Write(view.asking, view.asked, "submit"), view.at)})
    /\ Input

\* The status an answer sets says that nothing is loading.
StayPosted(r) ==
    /\ Wrote(r, StayActions)
    /\ IF r.step = "served"
       THEN /\ Sends({r}, {Reread(r)})
            /\ view' = [view EXCEPT !.status = "success", !.busy = @ \ {"page"}]
       ELSE /\ Sends({r}, {})
            /\ view' = [view EXCEPT !.status = "error", !.busy = {}]
    /\ UNCHANGED server

\* Mutant: the flag is lowered by a success alone.
StayReloadedStuck(r) ==
    /\ Reads(r, StayActions)
    /\ view' = IF r.step = "served"
               THEN [StayReceived(view, r, r.at) EXCEPT !.busy = @ \ {"submit"}]
               ELSE [view EXCEPT !.status = "error", !.busy = @ \ {"page"}]
    /\ Sends({r}, {}) /\ UNCHANGED server
StayReloaded(r) ==
    /\ Reads(r, StayActions)
    /\ view' = IF r.step = "served"
               THEN [StayReceived(view, r, r.at) EXCEPT !.busy = @ \ {"submit"}]
               ELSE [view EXCEPT !.status = "error", !.busy = {}]
    /\ Sends({r}, {}) /\ UNCHANGED server

StayBar == StayGiveUp \/ \E a \in StayActions : StayAsk(a)
StayNext ==
    /\ view.page = "stay"
    /\ \/ \E r \in net : StayLoaded(r) \/ StayPosted(r) \/ StayReloaded(r)
       \/ \E i \in Items : StayGo(i)
       \/ StayBar \/ StayConfirm
=============================================================================
