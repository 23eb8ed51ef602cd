----------------------------- MODULE DeskLists -----------------------------
(***************************************************************************)
(* The three lists of the desk that are read again whenever their query    *)
(* changes: all the operations, the payments and the bookings.  The effect *)
(* of a query ignores the answer of the query before it; the button that   *)
(* refreshes the operations or the bookings, and the reading after a       *)
(* check-in, call the server beside that effect and are never ignored.     *)
(***************************************************************************)
EXTENDS Screen

ListPages == {"all_operations", "payments", "bookings"}
ListTurns == {"1", "2"}
ListQueries == Queries \X Queries \X ListTurns

ListViews ==
    [page : ListPages, may : Profiles, typed : Queries, word : Queries, filter : Queries,
     turn : ListTurns, turns : ListTurns, advanced : BOOLEAN,
     shown : [of : ListQueries, saw : Versions], acting : Targets,
     busy : SUBSET {"page"}, status : {"none", "error"}]

\* buildQuery: the search after its pause, the filters, the page of results.
ListQuery(v) == <<v.word, v.filter, v.turn>>

ListEffect(v) == Keeping(Request("read", "list", NoWord, "page", 1), ListQuery(v))
ListEffects == {r \in net : r.call = "list"}

\* The payments are read only for whoever may view them.
ListReadable(v) == v.page = "payments" => "view" \in v.may

ListInit ==
    \E p \in ListPages, may \in Profiles :
        /\ view = [page |-> p, may |-> may, typed |-> NoWord, word |-> NoWord,
                   filter |-> NoWord, turn |-> "1", turns |-> "1", advanced |-> FALSE,
                   shown |-> [of |-> <<NoWord, NoWord, "1">>, saw |-> 0], acting |-> None,
                   busy |-> {"page"}, status |-> "none"]
        /\ net = IF ListReadable(view) THEN {ListEffect(view)} ELSE {}
        /\ Start

\* Mutant: the answer of an earlier query is taken as well.
ListRequeryKept(v) ==
    IF ListQuery(v) = ListQuery(view) THEN view' = v /\ UNCHANGED net
    ELSE /\ Unsent("list")
         /\ view' = [v EXCEPT !.busy = @ \cup {"page"}, !.status = "none"]
         /\ Sends({}, {Keeping(Read("list", NoWord, "page"), ListQuery(v))})

\* The query changes to that of v: its effect runs, the one before is ignored.
ListRequery(v) ==
    IF ListQuery(v) = ListQuery(view) THEN view' = v /\ UNCHANGED net
    ELSE /\ view' = [v EXCEPT !.busy = @ \cup {"page"}, !.status = "none"]
         /\ Sends(ListEffects, {ListEffect(v)})

\* What the page shows of an answer; the bookings are not paged.
ListTaken(r, turns) ==
    IF r.step = "served"
    THEN [view EXCEPT !.shown = [of |-> r.at, saw |-> r.saw],
                      !.turns = IF view.page = "bookings" THEN @ ELSE turns]
    ELSE [view EXCEPT !.status = "error"]
ListLower(v, r) == [v EXCEPT !.busy = @ \ {r.flag}]

\* load: the answer to the query of the page.
ListLoaded(r) ==
    /\ Reads(r, {"list"})
    /\ \E turns \in ListTurns : view' = ListLower(ListTaken(r, turns), r)
    /\ Sends({r}, {}) /\ UNCHANGED server

-----------------------------------------------------------------------------
(* The query *)

\* The search box: bookings are searched at once, the others after a pause.
ListType(w) ==
    /\ w # view.typed /\ ListReadable(view)
    /\ IF view.page = "bookings"
       THEN ListRequery([view EXCEPT !.typed = w, !.word = w])
       ELSE ListRequery([view EXCEPT !.typed = w, !.turn = "1"])
    /\ Input

\* useDebounce: what was typed last becomes the search.
ListDebounced ==
    /\ view.word # view.typed
    /\ ListRequery([view EXCEPT !.word = view.typed]) /\ UNCHANGED server

\* The selects and the dates go back to the first page of results.
ListFilter(f) ==
    /\ f # view.filter /\ ListReadable(view)
    /\ ListRequery([view EXCEPT !.filter = f, !.turn = "1"]) /\ Input

ListTurn(t) ==
    /\ view.page # "bookings" /\ "page" \notin view.busy /\ ListReadable(view)
    /\ t # view.turn /\ (t = "2" => view.turns = "2")
    /\ ListRequery([view EXCEPT !.turn = t]) /\ Input

\* resetFilters of the operations: the search and every filter.
ListReset ==
    /\ view.page = "all_operations" /\ view.advanced
    /\ ListRequery([view EXCEPT !.typed = NoWord, !.filter = NoWord, !.turn = "1"]) /\ Input
ListAdvanced ==
    /\ view.page = "all_operations"
    /\ view' = [view EXCEPT !.advanced = ~@] /\ UNCHANGED net /\ Input

-----------------------------------------------------------------------------
(* Reading again *)

\* refreshPayments runs the effect again; fetchOperations and loadBookings do not.
ListRefresh ==
    /\ "page" \notin view.busy /\ ListReadable(view)
    /\ view' = [view EXCEPT !.busy = @ \cup {"page"}, !.status = "none"]
    /\ IF view.page = "payments" THEN Sends(ListEffects, {ListEffect(view)})
       ELSE /\ Unsent("refresh")
            /\ Sends({}, {Keeping(Read("refresh", NoWord, "page"), ListQuery(view))})
    /\ Input

ListRefreshed(r) ==
    /\ Reads(r, {"refresh"})
    /\ \E turns \in ListTurns : view' = ListLower(ListTaken(r, turns), r)
    /\ Sends({r}, {}) /\ UNCHANGED server

-----------------------------------------------------------------------------
(* The check-in of a booking of the list *)

ListCheckIn(i) ==
    /\ view.page = "bookings" /\ view.acting # i /\ MayWrite("check_in")
    /\ view' = [view EXCEPT !.acting = i, !.status = "none"]
    /\ Sends({}, {Keeping(Write("check_in", i, ""), ListQuery(view))}) /\ Input

\* Mutant: a refused check-in leaves its row waiting.
ListCheckedInStuck(r) ==
    /\ Wrote(r, {"check_in"})
    /\ IF r.step = "served"
       THEN view' = [view EXCEPT !.status = "none"] /\ Sends({r}, {Reread(r)})
       ELSE view' = [view EXCEPT !.status = "error"] /\ Sends({r}, {})
    /\ UNCHANGED server

\* The list is read again with the query of the click, and only then is the row free.
ListCheckedIn(r) ==
    /\ Wrote(r, {"check_in"})
    /\ IF r.step = "served"
       THEN view' = [view EXCEPT !.status = "none"] /\ Sends({r}, {Reread(r)})
       ELSE view' = [view EXCEPT !.status = "error", !.acting = None] /\ Sends({r}, {})
    /\ UNCHANGED server

ListReread(r) ==
    /\ Reads(r, {"check_in"})
    /\ view' = [ListTaken(r, view.turns) EXCEPT !.acting = None]
    /\ Sends({r}, {}) /\ UNCHANGED server

-----------------------------------------------------------------------------

ListFilters == ListReset \/ \E f \in Queries : ListFilter(f)
ListOperationsPage == ListAdvanced \/ ListFilters \/ ListRefresh \/ \E w \in Queries : ListType(w)
ListPaymentsBar ==
    view.page = "payments" /\ (ListRefresh \/ \E w \in Queries : ListType(w) \/ ListFilter(w))
ListBookingsBar == view.page = "bookings" /\ \E w \in Queries : ListType(w) \/ ListFilter(w)
ListBookingsTable == view.page = "bookings" /\ (ListRefresh \/ \E i \in Items : ListCheckIn(i))
ListFooter == \E t \in ListTurns : ListTurn(t)

ListNext ==
    /\ view.page \in ListPages
    /\ \/ \E r \in net : ListLoaded(r) \/ ListRefreshed(r) \/ ListCheckedIn(r) \/ ListReread(r)
       \/ (view.page = "all_operations" /\ ListOperationsPage)
       \/ ListPaymentsBar \/ ListBookingsBar \/ ListBookingsTable
       \/ ListFooter \/ ListDebounced
=============================================================================
