---------------------------- MODULE PlanningPage ----------------------------
(***************************************************************************)
(* The reservation planning (pages/ReservationPlanningPage): the rows of a *)
(* window of days, moved and resized by drag and drop, and the modal that  *)
(* books a free cell.  A window (dates and search) is a word.              *)
(***************************************************************************)
EXTENDS Screen

PlanWrites == {"move", "resize", "booking"}

PlanViews ==
    [page : {"planning"}, win : Queries, found : [of : Queries, saw : Versions],
     sel : Targets, drag : Targets, resize : Targets, modal : Targets, closing : BOOLEAN,
     forms : [{"booking"} -> Drafts], busy : SUBSET {"loading", "choices", "booking"},
     status : {"none", "info", "error"}]

PlanInit ==
    /\ view = [page |-> "planning", win |-> NoWord, found |-> [of |-> NoWord, saw |-> 0],
               sel |-> None, drag |-> None, resize |-> None, modal |-> None,
               closing |-> FALSE, forms |-> [f \in {"booking"} |-> "blank"],
               busy |-> {"loading"}, status |-> "none"]
    /\ net = {Keeping(r, NoWord) : r \in Mounted({"planning"}, "loading")}
    /\ Start

-----------------------------------------------------------------------------
(* The window: loadPlanning never gives up the reading of another window *)

PlanLoad(w) == Keeping(Read("planning", NoWord, "loading"), w)

PlanGo(w) ==
    /\ w # view.win /\ Unsent("planning") /\ view.modal = None
    /\ view' = [view EXCEPT !.win = w, !.busy = @ \cup {"loading"}]
    /\ Sends({}, {PlanLoad(w)}) /\ Input

PlanRefresh ==
    /\ "loading" \notin view.busy /\ Unsent("planning") /\ view.modal = None
    /\ view' = [view EXCEPT !.busy = @ \cup {"loading"}]
    /\ Sends({}, {PlanLoad(view.win)}) /\ Input

\* Mutant: a failed reading leaves the skeleton.
PlanLoadedStuck(r) ==
    /\ Reads(r, {"planning"})
    /\ view' = IF r.step = "served"
               THEN [view EXCEPT !.found = [of |-> r.at, saw |-> r.saw], !.busy = @ \ {"loading"},
                                 !.status = IF r.arg = "after" THEN "none" ELSE @]
               ELSE view
    /\ Sends({r}, {}) /\ UNCHANGED server

\* The end of a move awaits its reload, whatever that brought: it never throws.
PlanLoaded(r) ==
    /\ Reads(r, {"planning"})
    /\ view' = [view EXCEPT
                  !.found = IF r.step = "served" THEN [of |-> r.at, saw |-> r.saw] ELSE @,
                  !.busy = @ \ {"loading"},
                  !.status = IF r.arg = "after" THEN "none" ELSE @]
    /\ Sends({r}, {}) /\ UNCHANGED server

-----------------------------------------------------------------------------
(* Drag and drop *)

PlanGrid == "loading" \notin view.busy /\ view.modal = None

PlanDrag(i) ==
    /\ PlanGrid /\ view.drag = None /\ view.resize = None
    /\ view' = [view EXCEPT !.drag = i] /\ UNCHANGED net /\ Input

\* handleCellDrop: the preview decides from the rows on the screen.
PlanDrop(allowed) ==
    /\ view.drag # None /\ PlanGrid
    /\ IF allowed
       THEN /\ MayWrite("move")
            /\ Sends({}, {Keeping(Write("move", view.drag, ""), view.win)})
            /\ view' = [view EXCEPT !.drag = None, !.status = "info"]
       ELSE view' = [view EXCEPT !.drag = None, !.status = "error"] /\ UNCHANGED net
    /\ Input

PlanResizeStart(i) ==
    /\ PlanGrid /\ view.drag = None /\ view.resize = None
    /\ view' = [view EXCEPT !.resize = i] /\ UNCHANGED net /\ Input

\* onMouseUp listens on the document: it ends a resize even under the skeleton.
PlanResizeEnd(changed) ==
    /\ view.resize # None
    /\ IF changed
       THEN /\ MayWrite("resize")
            /\ Sends({}, {Keeping(Write("resize", view.resize, ""), view.win)})
            /\ view' = [view EXCEPT !.resize = None, !.status = "info"]
       ELSE view' = [view EXCEPT !.resize = None] /\ UNCHANGED net
    /\ Input

\* The window is read again as it was when the row was dropped.
PlanMoved(r) ==
    /\ Wrote(r, {"move", "resize"})
    /\ IF r.step = "served"
       THEN /\ Unsent("planning")
            /\ Sends({r}, {Keeping(Read("planning", "after", "loading"), r.at)})
            /\ view' = [view EXCEPT !.busy = @ \cup {"loading"}]
       ELSE Sends({r}, {}) /\ view' = [view EXCEPT !.status = "error"]
    /\ UNCHANGED server

\* A row opens in the detail panel.
PlanSelect(i) ==
    /\ PlanGrid /\ i # view.sel
    /\ view' = [view EXCEPT !.sel = i] /\ UNCHANGED net /\ Input

-----------------------------------------------------------------------------
(* The modal that books a cell *)

PlanCell(i) ==
    /\ PlanGrid /\ ~view.closing /\ view.drag = None
    /\ view' = [view EXCEPT !.modal = i, !.busy = @ \cup {"choices"}]
    /\ Sends({}, {Request("read", "choices", i, "choices", 1)}) /\ Input

\* The choices preselect the room of the cell and its type.
PlanChoices(r) ==
    /\ Reads(r, {"choices"})
    /\ view' = [view EXCEPT !.busy = @ \ {"choices"},
                            !.forms["booking"] = IF r.step = "served" THEN "partial" ELSE @]
    /\ Sends({r}, {}) /\ UNCHANGED server

PlanModalOpen == view.modal # None /\ ~view.closing /\ "choices" \notin view.busy
PlanEdit(d) ==
    /\ PlanModalOpen /\ "booking" \notin view.busy /\ d # view.forms["booking"]
    /\ view' = [view EXCEPT !.forms["booking"] = d] /\ UNCHANGED net /\ Input

\* Mutant: a second click sends a second booking.
PlanSubmitTwice ==
    /\ PlanModalOpen /\ view.forms["booking"] = "complete" /\ MayWrite("booking")
    /\ view' = [view EXCEPT !.busy = @ \cup {"booking"}, !.status = "none"]
    /\ Sends({}, {Keeping(Write("booking", view.modal, "booking"), view.win)}) /\ Input

PlanSubmit ==
    /\ PlanModalOpen /\ "booking" \notin view.busy
    /\ view.forms["booking"] = "complete" /\ MayWrite("booking")
    /\ view' = [view EXCEPT !.busy = @ \cup {"booking"}, !.status = "none"]
    /\ Sends({}, {Keeping(Write("booking", view.modal, "booking"), view.win)}) /\ Input

\* The cross, the backdrop and Escape close it, whatever it is sending.
PlanClose ==
    /\ view.modal # None /\ ~view.closing
    /\ view' = [view EXCEPT !.closing = TRUE] /\ UNCHANGED net /\ Input

\* The modal leaves the page 260 ms later; its booking stays in flight on its own.
PlanOwn == {r \in net : r.call \in {"booking", "choices"}}
PlanLeft ==
    /\ view.closing
    /\ view' = [view EXCEPT !.modal = None, !.closing = FALSE, !.forms["booking"] = "blank",
                            !.busy = @ \ {"choices", "booking"}]
    /\ Sends(PlanOwn, {[r EXCEPT !.flag = ""] : r \in {s \in PlanOwn : s.call = "booking"}})
    /\ UNCHANGED server

\* handleBookingCreated closes the modal of the moment, not the one that booked.
PlanBooked(r) ==
    /\ Wrote(r, {"booking"})
    /\ IF r.step = "served"
       THEN /\ Unsent("planning")
            /\ Sends({r}, {PlanLoad(r.at)})
            /\ view' = [view EXCEPT !.closing = TRUE,
                                    !.busy = (@ \ {r.flag}) \cup {"loading"}]
       ELSE /\ Sends({r}, {})
            /\ view' = [view EXCEPT !.busy = @ \ {r.flag},
                                    !.status = IF r.flag = "booking" THEN "error" ELSE @]
    /\ UNCHANGED server

PlanArrival == \E r \in net : PlanLoaded(r) \/ PlanMoved(r) \/ PlanChoices(r) \/ PlanBooked(r)

\* A cell of the grid and the blocks of its room.
PlanCells == \E i \in Items : PlanDrag(i) \/ PlanResizeStart(i) \/ PlanCell(i)
PlanModal == PlanSubmit \/ PlanClose \/ \E d \in {"partial", "complete"} : PlanEdit(d)

PlanNext ==
    /\ view.page = "planning"
    /\ \/ PlanArrival \/ PlanCells \/ PlanModal \/ PlanLeft \/ PlanRefresh
       \/ \E w \in Queries : PlanGo(w)
       \/ \E i \in Targets : PlanSelect(i)
       \/ \E yes \in BOOLEAN : PlanDrop(yes) \/ PlanResizeEnd(yes)
=============================================================================
