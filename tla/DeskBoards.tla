----------------------------- MODULE DeskBoards -----------------------------
(***************************************************************************)
(* The board of the day (pages/ExploitationPage), the connected rooms      *)
(* (pages/SmartRoomsPage) and the day uses of today (pages/DayUsePage).    *)
(* Their readings are never cancelled: the last answer to arrive is shown. *)
(***************************************************************************)
EXTENDS Screen

(* The board: one queue of rows that may be handled together *)

BoardViews ==
    [page : {"board"}, word : Queries, pending : BOOLEAN, selected : SUBSET Items,
     shown : [of : Queries, rows : SUBSET Items, saw : Versions], busy : SUBSET {"page"},
     status : Statuses]

\* The first render reads the board and starts the pause of the search as well.
BoardInit ==
    /\ view = [page |-> "board", word |-> NoWord, pending |-> TRUE, selected |-> {},
               shown |-> [of |-> NoWord, rows |-> {}, saw |-> 0], busy |-> {"page"},
               status |-> "none"]
    /\ net = {Keeping(Request("read", "board", {}, "page", 1), NoWord)}
    /\ Start

BoardType(w) ==
    /\ w # view.word
    /\ view' = [view EXCEPT !.word = w, !.pending = TRUE] /\ UNCHANGED net /\ Input

\* The pause is over; a board that cannot be read is left as it is.
BoardSearch ==
    /\ view.pending /\ Unsent("search")
    /\ view' = [view EXCEPT !.pending = FALSE]
    /\ Sends({}, {Keeping(Read("search", {}, ""), view.word)}) /\ UNCHANGED server

BoardShown(r, rows) ==
    IF r.step = "served" THEN [view EXCEPT !.shown = [of |-> r.at, rows |-> rows, saw |-> r.saw]]
    ELSE view

\* loadBoard: the answer of the first reading, of a search or of what follows an action.
BoardLoaded(r) ==
    /\ Reads(r, {"board", "search", "bulk"})
    /\ \E rows \in SUBSET Items :
          view' = [BoardShown(r, rows) EXCEPT
                      !.busy = @ \ {r.flag},
                      !.status = IF r.step = "failed" /\ r.call # "search" THEN "error" ELSE @]
    /\ Sends({r}, {}) /\ UNCHANGED server

\* A box is ticked or unticked; what the next board leaves out stays ticked.
BoardToggle(i) ==
    /\ i \in view.shown.rows
    /\ view' = [view EXCEPT !.selected = (@ \ {i}) \cup ({i} \ @)] /\ UNCHANGED net /\ Input

\* The queue's button, once confirmed; it stays enabled while its post is in flight.
BoardBulk ==
    /\ view.selected # {} /\ MayWrite("bulk")
    /\ view' = [view EXCEPT !.status = "none"]
    /\ Sends({}, {Keeping(Write("bulk", view.selected, ""), view.word)}) /\ Input

BoardHandled(r) ==
    /\ Wrote(r, {"bulk"})
    /\ IF r.step = "served"
       THEN /\ \E some \in {"none", "warning"} :
                   view' = [view EXCEPT !.selected = {}, !.status = some]
            /\ Sends({r}, {Reread(r)})
       ELSE view' = [view EXCEPT !.status = "error"] /\ Sends({r}, {})
    /\ UNCHANGED server

BoardRows == \E i \in Items : BoardToggle(i)
BoardHeader == BoardSearch \/ \E w \in Queries : BoardType(w)

BoardNext ==
    /\ view.page = "board"
    /\ BoardHeader \/ BoardRows \/ BoardBulk \/ \E r \in net : BoardLoaded(r) \/ BoardHandled(r)

-----------------------------------------------------------------------------
(* The connected rooms: rooms, alerts and sensors read together *)

SmartTabs == {"receptionist", "manager", "security"}
SmartParts == {"rooms", "alerts"}

SmartViews ==
    [page : {"smart"}, tab : SmartTabs, room : Targets, got : SUBSET SmartParts,
     resolved : SUBSET Items, busy : SUBSET {"page"},
     status : {"none", "error"}]

SmartInit ==
    /\ view = [page |-> "smart", tab |-> "receptionist", room |-> None, got |-> {},
               resolved |-> {}, busy |-> {"page"}, status |-> "none"]
    /\ net = Mounted({"smart"}, "page")
    /\ Start

SmartGot(r) == CASE r.step = "served" -> {SmartParts}
                 [] r.step = "partly" -> {{"rooms"}, {"alerts"}}
                 [] OTHER -> {{}}

\* loadData: what failed is emptied; only the rooms are missed aloud.
SmartLoaded(r) ==
    /\ Reads(r, {"smart"})
    /\ \E got \in SmartGot(r) :
          view' = [view EXCEPT !.busy = @ \ {"page"}, !.resolved = {}, !.got = got,
                      !.status = IF "rooms" \in got THEN @ ELSE "error"]
    /\ Sends({r}, {}) /\ UNCHANGED server

SmartFree == "page" \notin view.busy /\ view.room = None

SmartTab(t) ==
    /\ SmartFree /\ t # view.tab
    /\ view' = [view EXCEPT !.tab = t] /\ UNCHANGED net /\ Input

SmartOpen(i) ==
    /\ SmartFree /\ view.tab # "security" /\ "rooms" \in view.got
    /\ view' = [view EXCEPT !.room = i] /\ UNCHANGED net /\ Input
SmartClose ==
    /\ view.room # None /\ view' = [view EXCEPT !.room = None] /\ UNCHANGED net /\ Input

SmartRefresh ==
    /\ SmartFree /\ view.tab = "manager"
    /\ view' = [view EXCEPT !.busy = @ \cup {"page"}, !.status = "none"]
    /\ Sends({}, {Read("smart", NoWord, "page")}) /\ Input

\* handleResolveAlert: nothing tells that an alert is being resolved.
SmartResolve(i) ==
    /\ SmartFree /\ view.tab = "security" /\ "alerts" \in view.got /\ i \notin view.resolved
    /\ MayWrite("resolve")
    /\ Sends({}, {Write("resolve", i, "")}) /\ UNCHANGED view /\ Input

\* Only a resolution the server made takes the alert off the list.
SmartResolved(r) ==
    /\ Wrote(r, {"resolve"})
    /\ view' = IF r.step = "served" THEN [view EXCEPT !.resolved = @ \cup {r.arg}]
               ELSE [view EXCEPT !.status = "error"]
    /\ Sends({r}, {}) /\ UNCHANGED server

SmartReceptionist == view.tab = "receptionist" /\ \E i \in Items : SmartOpen(i)
SmartManager == view.tab = "manager" /\ (SmartRefresh \/ \E i \in Items : SmartOpen(i))
SmartSecurity == \E i \in Items : SmartResolve(i)

SmartNext ==
    /\ view.page = "smart"
    /\ \/ SmartReceptionist \/ SmartManager \/ SmartSecurity \/ SmartClose
       \/ \E t \in SmartTabs : SmartTab(t)
       \/ \E r \in net : SmartLoaded(r) \/ SmartResolved(r)

-----------------------------------------------------------------------------
(* The day uses: a form whose rooms are those free in its slot *)

SlotViews ==
    [page : {"day_uses"}, slot : Queries, client : BOOLEAN, room : Targets,
     free : [of : Queries, saw : Versions], lists : Versions,
     busy : SUBSET {"page", "submit"}, status : {"none", "error"}, refused : BOOLEAN]

SlotInit ==
    /\ view = [page |-> "day_uses", slot |-> NoWord, client |-> FALSE, room |-> None,
               free |-> [of |-> NoWord, saw |-> 0], lists |-> 0, busy |-> {"page"},
               status |-> "none", refused |-> FALSE]
    /\ net = {Keeping(r, NoWord) : r \in Mounted({"refresh"}, "page") \cup Mounted({"free"}, "")}
    /\ Start

\* loadAvailability of the slot, after every change of it; no reading is given up.
SlotReads(w) == IF w = view.slot THEN {} ELSE {Keeping(Read("free", NoWord, ""), w)}

\* The hour or the duration changes; the chosen room stays.
SlotMove(w) ==
    /\ w # view.slot /\ Unsent("free")
    /\ view' = [view EXCEPT !.slot = w, !.refused = FALSE]
    /\ Sends({}, SlotReads(w)) /\ Input

SlotChoose(client, room) ==
    /\ <<client, room>> # <<view.client, view.room>>
    /\ view' = [view EXCEPT !.client = client, !.room = room, !.refused = FALSE]
    /\ UNCHANGED net /\ Input

SlotFreed(r) ==
    /\ Reads(r, {"free"})
    /\ view' = IF r.step = "served" THEN [view EXCEPT !.free = [of |-> r.at, saw |-> r.saw]]
               ELSE [view EXCEPT !.refused = TRUE]
    /\ Sends({r}, {}) /\ UNCHANGED server

\* refreshAll: the lists and the rooms free in the slot of the render that called it.
SlotRefreshed(r) ==
    IF r.step = "served"
    THEN [view EXCEPT !.lists = r.saw, !.free = [of |-> r.at, saw |-> r.saw]]
    ELSE [view EXCEPT !.status = "error"]
SlotLoaded(r) ==
    /\ Reads(r, {"refresh"})
    /\ view' = [SlotRefreshed(r) EXCEPT !.busy = @ \ {"page"}]
    /\ Sends({r}, {}) /\ UNCHANGED server

\* loading is only raised by the first render: later refreshes may overlap.
SlotRefresh ==
    /\ "page" \notin view.busy \/ view.status = "error"
    /\ Unsent("refresh")
    /\ view' = [view EXCEPT !.status = "none"]
    /\ Sends({}, {Keeping(Read("refresh", NoWord, ""), view.slot)}) /\ Input

\* Mutant: the button stays enabled while the day use is created.
SlotCreateTwice ==
    /\ view.client /\ view.room # None /\ MayWrite("create")
    /\ view' = [view EXCEPT !.busy = @ \cup {"submit"}, !.refused = FALSE]
    /\ Sends({}, {Keeping(Write("create", view.room, "submit"), view.slot)}) /\ Input

SlotCreate ==
    /\ view.client /\ view.room # None /\ "submit" \notin view.busy /\ MayWrite("create")
    /\ view' = [view EXCEPT !.busy = @ \cup {"submit"}, !.refused = FALSE]
    /\ Sends({}, {Keeping(Write("create", view.room, "submit"), view.slot)}) /\ Input

\* The form is emptied, the effect of its slot runs, and everything is read again.
SlotCreated(r) ==
    /\ Wrote(r, {"create"})
    /\ IF r.step = "served"
       THEN /\ view.slot # NoWord => Unsent("free")
            /\ view' = [view EXCEPT !.slot = NoWord, !.client = FALSE, !.room = None,
                                    !.status = "none"]
            /\ Sends({r}, {Reread(r)} \cup SlotReads(NoWord))
       ELSE /\ view' = [view EXCEPT !.refused = TRUE, !.busy = @ \ {"submit"}]
            /\ Sends({r}, {})
    /\ UNCHANGED server

SlotReread(r) ==
    /\ Reads(r, {"create"})
    /\ view' = [SlotRefreshed(r) EXCEPT !.busy = @ \ {"page", "submit"}]
    /\ Sends({r}, {}) /\ UNCHANGED server

SlotForm ==
    \/ SlotCreate
    \/ \E w \in Queries : SlotMove(w)
    \/ \E room \in Items : SlotChoose(view.client, room) \/ SlotChoose(TRUE, view.room)

SlotNext ==
    /\ view.page = "day_uses"
    /\ SlotForm \/ SlotRefresh
       \/ \E r \in net : SlotFreed(r) \/ SlotLoaded(r) \/ SlotCreated(r) \/ SlotReread(r)
=============================================================================
