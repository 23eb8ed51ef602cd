------------------------ MODULE DayUseAndPaymentPages ------------------------
(***************************************************************************)
(* The pages of one day use and of one payment, with their hooks           *)
(* useDayUseDetail and usePaymentDetail.  Every reading raises `loading`,  *)
(* which takes the whole page away: the forms of the cards and of the      *)
(* modal are gone when it returns.                                         *)
(***************************************************************************)
EXTENDS Screen

DayUseForms == {"day_use", "payment"}
DayUseActions == {"enter", "leave", "cancel"}

DayUseViews ==
    [page : {"day_use"}, may : Profiles, at : Items, shows : Targets, failed : BOOLEAN,
     asking : DayUseActions \cup {None}, modal : BOOLEAN, forms : [DayUseForms -> Drafts],
     busy : SUBSET {"page", "form", "pay"}, status : {"none", "error"}, lists : Versions]

DayUseInit ==
    \E may \in Profiles, i \in Items :
        /\ view = [page |-> "day_use", may |-> may, at |-> i, shows |-> None, failed |-> FALSE,
                   asking |-> None, modal |-> FALSE, forms |-> [f \in DayUseForms |-> "blank"],
                   busy |-> {"page"}, status |-> "none", lists |-> 0]
        /\ net = {Request("read", "detail", i, "page", 1)}
        /\ Start

DayUseShown == "page" \notin view.busy /\ ~view.failed /\ view.shows # None
\* The dialogues cover the page.
DayUseFree == DayUseShown /\ ~view.modal /\ view.asking = None /\ view.status = "none"

\* refetch: the page gives way to the loading box, the cards are unmounted.
DayUseReloading(v) ==
    [v EXCEPT !.busy = {"page"}, !.failed = FALSE, !.forms = [f \in DayUseForms |-> "blank"]]
DayUseOrphans(requests) ==
    {IF r.flag \in {"form", "pay"} THEN [r EXCEPT !.flag = ""] ELSE r : r \in requests}
DayUseRefetch(v, gone, i) ==
    /\ Unsent("detail")
    /\ view' = DayUseReloading(v)
    /\ net' = DayUseOrphans(net \ gone) \cup {Read("detail", i, "page")}

\* setDayUse, then loading is over and the cards are mounted on the row.
DayUseShows(v, r) == [v EXCEPT !.shows = r.arg, !.lists = r.saw]
DayUseBack(v) == [v EXCEPT !.busy = @ \ {"page"}, !.forms["day_use"] = "complete"]
DayUseLoaded(r) ==
    /\ Reads(r, {"detail"})
    /\ view' = IF r.step = "served" THEN DayUseBack(DayUseShows(view, r))
               ELSE [view EXCEPT !.busy = @ \ {"page"}, !.failed = TRUE]
    /\ Sends({r}, {}) /\ UNCHANGED server

DayUseGo(i) ==
    i # view.at /\ DayUseRefetch([view EXCEPT !.at = i], {}, i) /\ Input

-----------------------------------------------------------------------------
(* The actions of the bar; nothing tells that one is on its way. *)

DayUseAsk(a) ==
    /\ DayUseFree /\ "act" \in view.may
    /\ view' = [view EXCEPT !.asking = a] /\ UNCHANGED net /\ Input
DayUseGiveUp ==
    /\ DayUseShown /\ view.asking # None
    /\ view' = [view EXCEPT !.asking = None] /\ UNCHANGED net /\ Input
DayUseConfirm ==
    /\ DayUseShown /\ view.asking # None /\ MayWrite(view.asking)
    /\ view' = [view EXCEPT !.asking = None]
    /\ Sends({}, {Write(view.asking, view.at, "")}) /\ Input
DayUseCheckCleaning ==
    DayUseFree /\ "act" \in view.may /\ DayUseRefetch(view, {}, view.at) /\ Input
DayUseAcknowledge ==
    /\ DayUseShown /\ view.status = "error"
    /\ view' = [view EXCEPT !.status = "none"] /\ UNCHANGED net /\ Input
DayUseTopBar == DayUseCheckCleaning \/ \E a \in DayUseActions : DayUseAsk(a)

DayUseActed(r) ==
    /\ Wrote(r, DayUseActions)
    /\ IF r.step = "served" THEN DayUseRefetch(DayUseShows(view, r), {r}, r.arg)
       ELSE view' = [view EXCEPT !.status = "error"] /\ Sends({r}, {})
    /\ UNCHANGED server

-----------------------------------------------------------------------------
(* The form of the day use and the payment modal *)

DayUseEdit(f, d) ==
    /\ d # view.forms[f]
    /\ f = "payment" => DayUseShown /\ view.modal
    /\ f = "day_use" => DayUseFree
    /\ view' = [view EXCEPT !.forms[f] = d] /\ UNCHANGED net /\ Input

DayUseSaveForm ==
    /\ DayUseFree /\ "form" \notin view.busy /\ "update" \in view.may /\ MayWrite("patch")
    /\ view' = [view EXCEPT !.busy = @ \cup {"form"}]
    /\ Sends({}, {Write("patch", view.at, "form")}) /\ Input

DayUseOpenPayment ==
    /\ DayUseFree /\ "act" \in view.may
    /\ view' = [view EXCEPT !.modal = TRUE, !.forms["payment"] = "blank"]
    /\ UNCHANGED net /\ Input
DayUseClosePayment ==
    /\ DayUseShown /\ view.modal
    /\ view' = [view EXCEPT !.modal = FALSE, !.busy = @ \ {"pay"}, !.forms["payment"] = "blank"]
    /\ net' = {IF r.flag = "pay" THEN [r EXCEPT !.flag = ""] ELSE r : r \in net}
    /\ Input
\* An amount that is not positive is refused before anything is sent.
DayUsePay ==
    /\ DayUseShown /\ view.modal /\ "pay" \notin view.busy
    /\ view.forms["payment"] = "complete" /\ MayWrite("pay")
    /\ view' = [view EXCEPT !.busy = @ \cup {"pay"}]
    /\ Sends({}, {Write("pay", view.at, "pay")}) /\ Input

\* A success sets the row and reads it again; what refetch swallows, succeeded too.
DayUseSaved(r) ==
    /\ Wrote(r, {"patch", "pay"})
    /\ IF r.step = "served"
       THEN /\ view' = DayUseReloading(DayUseShows(view, r))
            /\ net' = DayUseOrphans(net \ {r}) \cup {[Reread(r) EXCEPT !.flag = "page"]}
       ELSE /\ view' = [view EXCEPT !.busy = @ \ {r.flag}]
            /\ Sends({r}, {})
    /\ UNCHANGED server

\* Then onSuccess closes the modal and reads it once more.
DayUseSavedTwice(r) ==
    /\ Reads(r, {"patch", "pay"})
    /\ DayUseRefetch([(IF r.step = "served" THEN DayUseShows(view, r) ELSE view)
                      EXCEPT !.modal = IF r.call = "pay" THEN FALSE ELSE @], {r}, r.arg)
    /\ UNCHANGED server

DayUseFormCard == DayUseSaveForm \/ \E d \in {"partial", "complete"} : DayUseEdit("day_use", d)
DayUsePaymentModal ==
    DayUseClosePayment \/ DayUsePay \/ \E d \in {"partial", "complete"} : DayUseEdit("payment", d)

DayUseNext ==
    /\ view.page = "day_use"
    /\ \/ \E r \in net : DayUseLoaded(r) \/ DayUseActed(r) \/ DayUseSaved(r) \/ DayUseSavedTwice(r)
       \/ \E i \in Items : DayUseGo(i)
       \/ DayUseTopBar \/ DayUseGiveUp \/ DayUseConfirm \/ DayUseAcknowledge
       \/ DayUseFormCard \/ DayUsePaymentModal \/ DayUseOpenPayment

-----------------------------------------------------------------------------
(* The page of a payment *)

PaymentViews ==
    [page : {"payment"}, may : Profiles, at : Items, shows : Targets, failed : BOOLEAN,
     tab : {"info", "correct"}, forms : [{"payment"} -> Drafts],
     busy : SUBSET {"page", "form"}, lists : Versions]

PaymentInit ==
    \E may \in Profiles, i \in Items :
        /\ view = [page |-> "payment", may |-> may, at |-> i, shows |-> None, failed |-> FALSE,
                   tab |-> "info", forms |-> [f \in {"payment"} |-> "blank"],
                   busy |-> {"page"}, lists |-> 0]
        /\ net = {Request("read", "detail", i, "page", 1)}
        /\ Start

PaymentShown == "page" \notin view.busy /\ ~view.failed /\ view.shows # None

\* The correction is filled from the payment whenever its tab is mounted on it.
PaymentFilled(v) ==
    [v EXCEPT !.forms["payment"] = IF v.tab = "correct" /\ "page" \notin v.busy THEN "complete"
                                   ELSE "blank"]
PaymentShows(v, r) == [v EXCEPT !.shows = r.arg, !.lists = r.saw]
PaymentOrphans(requests) == {IF r.flag = "form" THEN [r EXCEPT !.flag = ""] ELSE r : r \in requests}
PaymentRefetch(v, gone, i) ==
    /\ Unsent("detail")
    /\ view' = PaymentFilled([v EXCEPT !.busy = {"page"}, !.failed = FALSE])
    /\ net' = PaymentOrphans(net \ gone) \cup {Read("detail", i, "page")}

PaymentGo(i) == i # view.at /\ PaymentRefetch([view EXCEPT !.at = i], {}, i) /\ Input
PaymentLoaded(r) ==
    /\ Reads(r, {"detail"})
    /\ view' = PaymentFilled([(IF r.step = "served" THEN PaymentShows(view, r)
                               ELSE [view EXCEPT !.failed = TRUE]) EXCEPT !.busy = @ \ {"page"}])
    /\ Sends({r}, {}) /\ UNCHANGED server

PaymentTab(t) ==
    /\ PaymentShown /\ t # view.tab /\ (t = "correct" => "update" \in view.may)
    /\ view' = PaymentFilled([view EXCEPT !.tab = t, !.busy = {}])
    /\ net' = PaymentOrphans(net) /\ Input

\* Cancel and refund, after window.confirm; their answer sets the payment.
PaymentUndo(call) ==
    /\ PaymentShown /\ "act" \in view.may /\ MayWrite(call)
    /\ Sends({}, {Write(call, view.at, "")}) /\ UNCHANGED view /\ Input
PaymentUndone(r) ==
    /\ Wrote(r, {"cancel", "refund"})
    /\ view' = IF r.step = "served" THEN PaymentFilled(PaymentShows(view, r)) ELSE view
    /\ Sends({r}, {}) /\ UNCHANGED server

PaymentEdit(d) ==
    /\ PaymentShown /\ view.tab = "correct" /\ d # view.forms["payment"]
    /\ view' = [view EXCEPT !.forms["payment"] = d] /\ UNCHANGED net /\ Input
PaymentCorrect ==
    /\ PaymentShown /\ view.tab = "correct" /\ "form" \notin view.busy /\ MayWrite("patch")
    /\ view' = [view EXCEPT !.busy = @ \cup {"form"}]
    /\ Sends({}, {Write("patch", view.at, "form")}) /\ Input

\* A success sets the payment and, the tab still there or not, reads it again.
PaymentCorrected(r) ==
    /\ Wrote(r, {"patch"})
    /\ IF r.step = "served" THEN PaymentRefetch(PaymentShows(view, r), {r}, r.arg)
       ELSE view' = [view EXCEPT !.busy = @ \ {r.flag}] /\ Sends({r}, {})
    /\ UNCHANGED server

PaymentTopBar == PaymentUndo("cancel") \/ PaymentUndo("refund")
PaymentCorrectionTab == PaymentCorrect \/ \E d \in {"partial", "complete"} : PaymentEdit(d)
PaymentNext ==
    /\ view.page = "payment"
    /\ \/ \E r \in net : PaymentLoaded(r) \/ PaymentUndone(r) \/ PaymentCorrected(r)
       \/ \E i \in Items : PaymentGo(i)
       \/ \E t \in {"info", "correct"} : PaymentTab(t)
       \/ PaymentTopBar \/ PaymentCorrectionTab
=============================================================================
