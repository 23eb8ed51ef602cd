----------------------------- MODULE BillingPage -----------------------------
(***************************************************************************)
(* The page of the invoices (modules/billing): the list, of which only the *)
(* newest reading is shown; the detail of the selected invoice, of which   *)
(* any reading is; the drawer with the form of an invoice; the panel of    *)
(* its payments, which is unmounted while a detail is read; and the work   *)
(* queue.  The page acts on the invoice it details, which is not always    *)
(* the one selected.  The reading of the dashboard, which nothing awaits,  *)
(* is left out.                                                            *)
(***************************************************************************)
EXTENDS Screen

\* What is typed, the status chosen and the page of the list; two pages stand for all.
BillPages == 1..2
BillQuery == Queries \X Queries \X BillPages
\* "issued" is also partly paid, "closed" is paid or cancelled.
BillStatuses == {"draft", "issued", "closed"}

\* `latest` is the reading of the list that counts, `armed` the status that the closure of
\* the search box's timer holds, or last read, `of` what the form was filled from.
BillViews ==
    [page : {"billing"}, rights : Profiles, query : BillQuery, pending : BOOLEAN, armed : Queries,
     latest : 0..MaxAlike, shown : BillQuery, sel : Targets, detail : Targets, status : BillStatuses,
     drawer : {None, "create", "edit"}, of : Targets, form : Drafts, asking : BOOLEAN,
     pay : Drafts \cup {None}, busy : SUBSET {"list", "detail", "save", "pay"}]

BillAll == <<NoWord, NoWord, 1>>
BillKeeping(r, x) == Keeping(r, <<x>>)

\* The first render reads the list, and its search box starts the timer that reads it again.
BillInit ==
    /\ \E p \in Profiles :
          view = [page |-> "billing", rights |-> p, query |-> BillAll, pending |-> TRUE,
                  armed |-> NoWord, latest |-> 1, shown |-> BillAll, sel |-> None, detail |-> None,
                  status |-> "draft", drawer |-> None, of |-> None, form |-> "blank",
                  asking |-> FALSE, pay |-> None, busy |-> {"list"}]
    /\ net = {Keeping(Request("read", "list", None, "list", 1), BillAll)}
    /\ Start

-----------------------------------------------------------------------------
(* The list *)

BillMay(right) == right \in view.rights
BillListing(v) == [v EXCEPT !.busy = @ \cup {"list"}, !.latest = Slot("list")]
BillList(q, for) == Keeping(Read("list", for, "list"), q)

\* The effect of the page and of the status reads the list; what a timer that is over had
\* read, the status it was armed with, is forgotten.
BillPaged(v) == BillListing([v EXCEPT !.armed = IF v.pending THEN @ ELSE v.query[2]])

\* A status, which is read from its first page, or a page: the effect of both reads at once,
\* with what is typed.
BillFilter(q) ==
    /\ q # view.query /\ q[1] = view.query[1] /\ (q[2] = view.query[2] \/ q[3] = 1)
    /\ Unsent("list")
    /\ view' = BillPaged([view EXCEPT !.query = q]) /\ Sends({}, {BillList(q, None)}) /\ Input

\* The timer's closure is made when what is typed changes, and keeps the status of then.
BillArmed(v) == [v EXCEPT !.pending = TRUE, !.armed = v.query[2]]

BillType(w) ==
    /\ w # view.query[1]
    /\ view' = BillArmed([view EXCEPT !.query[1] = w]) /\ UNCHANGED net /\ Input

\* The timer reads the first page with what is typed and the status it was armed with, were
\* another one chosen since.
BillSearch == <<view.query[1], view.armed, 1>>

BillSearched ==
    /\ view.pending /\ view.query[3] = 1 /\ Unsent("list")
    /\ view' = BillListing([view EXCEPT !.pending = FALSE])
    /\ Sends({}, {BillList(BillSearch, None)})
    /\ UNCHANGED server

\* From another page it also turns to the first, which is read in its turn, with the status
\* of now; the reading of the timer is outdated at once.
BillTurned ==
    /\ view.pending /\ view.query[3] # 1 /\ Unsent("list")
    /\ LET first == [view.query EXCEPT ![3] = 1]
       IN /\ view' = BillPaged([view EXCEPT !.pending = FALSE, !.query = first])
          /\ \E n \in Slots("list") \ {Slot("list")} :
                Sends({}, {[BillList(BillSearch, None) EXCEPT !.n = n], BillList(first, None)})
    /\ UNCHANGED server

\* Mutant: an older reading of the list takes its place too.
BillListedAny(r) ==
    /\ Reads(r, {"list"})
    /\ view' = IF r.step = "served"
               THEN [view EXCEPT !.busy = @ \ {"list"}, !.shown = r.at]
               ELSE [view EXCEPT !.busy = @ \ {"list"}]
    /\ Sends({r}, {}) /\ UNCHANGED server

\* Only the newest reading counts.
BillListed(r) ==
    /\ Reads(r, {"list"})
    /\ view' = IF r.n # view.latest THEN view
               ELSE IF r.step = "served"
               THEN [view EXCEPT !.busy = @ \ {"list"}, !.shown = r.at]
               ELSE [view EXCEPT !.busy = @ \ {"list"}]
    /\ Sends({r}, {}) /\ UNCHANGED server

-----------------------------------------------------------------------------
(* The detail *)

\* While a detail is read the panel of its payments is gone, with what was typed in it.
BillDetailing(v) == [v EXCEPT !.busy = (@ \cup {"detail"}) \ {"pay"}, !.pay = None]
BillDetail(i) == BillKeeping(Read("detail", i, "detail"), None)

\* A form that is gone has nothing left to lower.
BillGone(flag) == {r \in net : r.flag = flag}
BillSilenced(rs) == {[r EXCEPT !.flag = ""] : r \in rs}
BillOrphans(flag) == BillSilenced(BillGone(flag))

BillFree == view.drawer = None /\ ~view.asking

BillSelect(i) ==
    /\ BillFree /\ i # view.sel /\ Unsent("detail")
    /\ view' = BillDetailing([view EXCEPT !.sel = i])
    /\ Sends(BillGone("pay"), BillOrphans("pay") \cup {BillDetail(i)}) /\ Input

\* From the queue, an invoice that is selected already has its panel opened.
BillCollect(i) ==
    /\ BillMay("create") /\ BillFree /\ i = view.sel
    /\ view.detail # None /\ "detail" \notin view.busy /\ view.status # "closed"
    /\ view' = [view EXCEPT !.pay = "complete"] /\ UNCHANGED net /\ Input

BillShows(v, i, status) == [v EXCEPT !.detail = i, !.status = status]

\* A failed reading details nothing: the panel goes too.
BillShown(v, r) ==
    IF r.step = "served"
    THEN {[BillShows(v, r.arg, s) EXCEPT !.busy = @ \ {"detail"}] : s \in BillStatuses}
    ELSE {[v EXCEPT !.detail = None, !.pay = None, !.busy = @ \ {"detail", "pay"}]}
BillUnmounts(r) == IF r.step = "failed" THEN BillGone("pay") ELSE {}
BillUnmounted(r) == IF r.step = "failed" THEN BillOrphans("pay") ELSE {}

BillDetailed(r) ==
    /\ Reads(r, {"detail"})
    /\ view' \in BillShown(view, r)
    /\ Sends({r} \cup BillUnmounts(r), BillUnmounted(r)) /\ UNCHANGED server

-----------------------------------------------------------------------------
(* The actions on the invoice that is detailed *)

BillOnDetail == BillFree /\ view.detail # None /\ "detail" \notin view.busy

\* Issuing, duplicating and cancelling wait for nothing in flight.
BillAct(call) ==
    /\ MayWrite(call) /\ Sends({}, {BillKeeping(Write(call, view.detail, ""), view.sel)})
    /\ UNCHANGED view /\ Input
BillIssue == BillMay("update") /\ BillOnDetail /\ view.status = "draft" /\ BillAct("issue")
BillDuplicate == BillMay("create") /\ BillOnDetail /\ BillAct("duplicate")

\* An invoice made of a stay or a day use of the queue, and issued at once if asked.
BillFromQueue ==
    /\ BillMay("create") /\ BillFree /\ MayWrite("queue")
    /\ Sends({}, {BillKeeping(Write("queue", None, ""), None)})
    /\ UNCHANGED view /\ Input

BillAsk ==
    /\ BillMay("act") /\ BillOnDetail /\ view.status # "closed"
    /\ view' = [view EXCEPT !.asking = TRUE] /\ UNCHANGED net /\ Input
BillBack == view.asking /\ view' = [view EXCEPT !.asking = FALSE] /\ UNCHANGED net /\ Input
BillCancel == view.asking /\ view.detail # None /\ BillAct("cancel")

\* The answer is the invoice: it is detailed, whatever was selected meanwhile.
BillActed(r) ==
    /\ Wrote(r, {"issue", "cancel"})
    /\ IF r.step = "failed" THEN UNCHANGED view /\ Sends({r}, {})
       ELSE /\ view' = [BillShows(view, r.arg, IF r.call = "issue" THEN "issued" ELSE "closed")
                          EXCEPT !.asking = @ /\ r.call # "cancel"]
            /\ Sends({r}, {})
    /\ UNCHANGED server

-----------------------------------------------------------------------------
(* The panel of the payments *)

BillOpenPay ==
    /\ BillMay("create") /\ BillOnDetail /\ view.status # "closed"
    /\ view.pay = None \/ (view.pay = "partial" /\ view.status = "issued")
    /\ view' = [view EXCEPT !.pay = "complete"] /\ UNCHANGED net /\ Input
BillTypePay(d) ==
    /\ BillOnDetail /\ view.pay \notin {None, d}
    /\ view' = [view EXCEPT !.pay = d] /\ UNCHANGED net /\ Input
BillClosePay ==
    /\ BillOnDetail /\ view.pay # None /\ "pay" \notin view.busy
    /\ view' = [view EXCEPT !.pay = None] /\ UNCHANGED net /\ Input

BillPay ==
    /\ BillOnDetail /\ view.pay = "complete" /\ "pay" \notin view.busy /\ MayWrite("pay")
    /\ view' = [view EXCEPT !.busy = @ \cup {"pay"}]
    /\ Sends({}, {BillKeeping(Write("pay", view.detail, "pay"), view.sel)}) /\ Input

\* A panel that is gone is not closed again; the invoice paid is detailed all the same.
BillPaid(r) ==
    /\ Wrote(r, {"pay"})
    /\ LET v == [view EXCEPT !.busy = @ \ {r.flag}]
           closed == IF r.flag = "pay" THEN [v EXCEPT !.pay = None] ELSE v
       IN IF r.step = "failed" THEN view' = v /\ Sends({r}, {})
          ELSE /\ \E s \in BillStatuses : view' = BillShows(closed, r.arg, s)
               /\ Sends({r}, {})
    /\ UNCHANGED server

-----------------------------------------------------------------------------
(* The drawer *)

BillCreate ==
    /\ BillMay("create") /\ BillFree
    /\ view' = [view EXCEPT !.drawer = "create", !.of = None, !.form = "blank"]
    /\ UNCHANGED net /\ Input
BillEdit ==
    /\ BillMay("update") /\ BillOnDetail /\ view.status # "closed"
    /\ view' = [view EXCEPT !.drawer = "edit", !.of = view.detail, !.form = "complete"]
    /\ UNCHANGED net /\ Input

BillFill(d) ==
    /\ view.drawer # None /\ view.form # d
    /\ view' = [view EXCEPT !.form = d] /\ UNCHANGED net /\ Input

\* The drawer closes while its form is sent, its own button does not.
BillClose ==
    /\ view.drawer # None
    /\ view' = [view EXCEPT !.drawer = None, !.busy = @ \ {"save"}]
    /\ Sends(BillGone("save"), BillOrphans("save")) /\ Input

\* The invoice written is the one detailed when the form is sent; with none, one is created.
BillWritten == IF view.drawer = "edit" THEN view.detail ELSE None

BillSave ==
    /\ view.drawer # None /\ view.form = "complete" /\ "save" \notin view.busy /\ MayWrite("save")
    /\ view' = [view EXCEPT !.busy = @ \cup {"save"}]
    /\ Sends({}, {BillKeeping(Write("save", BillWritten, "save"), view.of)}) /\ Input

BillLeft(v) == [v EXCEPT !.drawer = None, !.busy = @ \ {"save"}]

\* An update details its answer.  A creation, or a copy, reads the list of all invoices,
\* then selects and details the new one.
BillSaved(r) ==
    /\ Wrote(r, {"save", "duplicate", "queue"})
    /\ \/ /\ r.step = "failed"
          /\ view' = [view EXCEPT !.busy = @ \ {r.flag}] /\ Sends({r}, {})
       \/ /\ r.step = "served" /\ r.call = "save" /\ r.arg # None
          /\ \E s \in {"draft", "issued"} : view' = BillShows(BillLeft(view), r.arg, s)
          /\ Sends({r} \cup BillGone("save"), BillSilenced(BillGone("save") \ {r}))
       \/ /\ r.step = "served" /\ (r.call # "save" \/ r.arg = None) /\ Unsent("list")
          /\ view' = BillListing(view)
          /\ Sends({r}, {Reread(r), BillList(BillAll, r.call)})
    /\ UNCHANGED server

\* The list it awaits is read: what was typed and chosen is reset, which reads it again or
\* arms the timer anew, and the new invoice is selected.
BillReread(r) ==
    /\ Reads(r, {"save", "duplicate", "queue"}) /\ Unsent("detail") /\ Unsent("opened")
    /\ \A q \in Alike("list") : q.arg # r.call
    /\ \E i \in Items :
          LET again == view.query[2] # NoWord \/ view.query[3] # 1
              reset == [view EXCEPT !.query = BillAll, !.sel = i]
              v == IF view.query[1] # NoWord THEN BillArmed(reset) ELSE reset
          IN /\ again => Unsent("list")
             /\ view' = BillDetailing(IF again THEN BillPaged(v) ELSE v)
             /\ Sends({r} \cup BillGone("pay"), BillOrphans("pay") \cup
                      (IF again THEN {BillList(BillAll, None)} ELSE {}) \cup
                      {BillDetail(i), [Reread(r) EXCEPT !.call = "opened", !.arg = i,
                                          !.at = <<r.call>>, !.n = Slot("opened")]})
    /\ UNCHANGED server

\* It is detailed once more; a creation then closes the drawer, were it another one.
BillOpened(r) ==
    /\ Reads(r, {"opened"})
    /\ LET closes == r.at = <<"save">>
           gone == BillUnmounts(r) \cup (IF closes THEN BillGone("save") ELSE {})
       IN /\ view' \in BillShown(IF closes THEN BillLeft(view) ELSE view, r)
          /\ Sends({r} \cup gone, BillSilenced(gone \ {r}))
    /\ UNCHANGED server

-----------------------------------------------------------------------------

BillSearchBox == \E w \in Queries : BillType(w)
BillRows == BillFree /\ (BillSearchBox \/ BillCreate \/ \E q \in BillQuery : BillFilter(q))
BillQueue == BillFromQueue \/ \E i \in Items : BillSelect(i) \/ BillCollect(i)
BillHeader == BillIssue \/ BillDuplicate \/ BillAsk \/ BillEdit \/ BillOpenPay
BillConfirm == BillBack \/ BillCancel
BillPayForm == \E d \in {"partial", "complete"} : BillTypePay(d)
BillPanel == BillOpenPay \/ BillClosePay \/ BillPay \/ BillPayForm
BillLines == \E d \in {"partial", "complete"} : BillFill(d)
BillForm == BillClose \/ BillSave \/ BillLines

BillNext ==
    /\ view.page = "billing"
    /\ \/ BillRows \/ BillQueue \/ BillHeader \/ BillConfirm \/ BillPanel \/ BillForm
       \/ BillSearched \/ BillTurned
       \/ \E r \in net : BillListed(r) \/ BillDetailed(r) \/ BillActed(r)
                         \/ BillPaid(r) \/ BillSaved(r) \/ BillReread(r) \/ BillOpened(r)
=============================================================================
