----------------------------- MODULE RoomsPage -----------------------------
(***************************************************************************)
(* The rooms page (pages/RoomsPage): the inventory with the drawer of a    *)
(* room, the room types, the incidents and the pricing rules.  One form    *)
(* serves the creation of a room and the drawer of whichever room is open. *)
(* The services of this page ignore the signal loadData gives them, so an  *)
(* earlier reading is never given up.                                      *)
(***************************************************************************)
EXTENDS Screen

RoomsTabs == {"overview", "rooms", "types", "maintenance", "pricing"}
RoomsForms == {"room", "type", "incident", "rule"}
RoomsActs == {"check_in", "check_out", "clean"}
RoomsWrites == RoomsActs \cup {"room_create", "room_update", "room_active", "type", "type_off",
                             "incident", "resolve", "rule", "task"}

RoomsViews ==
    [page : {"rooms"}, may : Profiles, tab : RoomsTabs, drawer : BOOLEAN, create : BOOLEAN,
     sel : Targets, holds : Targets, kind : Targets, forms : [RoomsForms -> Drafts],
     resolving : Targets, acting : Targets, loaded : BOOLEAN,
     busy : SUBSET (RoomsForms \cup {"page", "action"}),
     lists : Versions, status : {"none", "error"}]

RoomsInit ==
    \E may \in Profiles :
        /\ view = [page |-> "rooms", may |-> may, tab |-> "overview", drawer |-> FALSE,
                   create |-> FALSE, sel |-> None, holds |-> None, kind |-> None,
                   forms |-> [f \in RoomsForms |-> "blank"], resolving |-> None,
                   acting |-> None, loaded |-> FALSE, busy |-> {"page"}, lists |-> 0,
                   status |-> "none"]
        /\ net = Mounted({"load"}, "page")
        /\ Start

RoomsLoaded(r) ==
    /\ Reads(r, {"load"})
    /\ view' = [view EXCEPT !.busy = @ \ {"page"},
                            !.lists = IF r.step = "served" THEN r.saw ELSE @,
                            !.loaded = @ \/ r.step = "served",
                            !.status = IF r.step = "failed" THEN "error" ELSE @]
    /\ Sends({r}, {}) /\ UNCHANGED server

RoomsOpenTabs == {"overview", "rooms", "maintenance"}
                 \cup (IF "create" \in view.may THEN {"types", "pricing"} ELSE {})
RoomsTab(t) ==
    /\ t \in RoomsOpenTabs \ {view.tab}
    /\ view' = [view EXCEPT !.tab = t] /\ UNCHANGED net /\ Input

\* The message of showError goes after its four seconds.
RoomsForget ==
    /\ view.status = "error" /\ view' = [view EXCEPT !.status = "none"]
    /\ UNCHANGED <<net, server>>

-----------------------------------------------------------------------------
(* The form of a room *)

\* openDrawer: the form is filled from the room.
RoomsOpen(i) ==
    /\ ~view.drawer /\ view.tab \in {"overview", "rooms"}
    /\ view.tab = "rooms" => view.loaded
    /\ view' = [view EXCEPT !.drawer = TRUE, !.sel = i, !.holds = i, !.forms["room"] = "complete"]
    /\ UNCHANGED net /\ Input
RoomsDrawn == view.drawer /\ view.sel # None /\ view.loaded
RoomsClose ==
    /\ view.drawer /\ view' = [view EXCEPT !.drawer = FALSE] /\ UNCHANGED net /\ Input

RoomsToggleCreate ==
    /\ view.tab = "rooms" /\ ~view.drawer /\ "create" \in view.may
    /\ view' = [view EXCEPT !.create = ~@, !.sel = None, !.holds = None, !.forms["room"] = "blank"]
    /\ UNCHANGED net /\ Input

RoomsEdit(f, d) ==
    /\ d # view.forms[f] /\ f \notin view.busy
    /\ CASE f = "room" -> "create" \in view.may /\ (RoomsDrawn \/ (view.tab = "rooms" /\ view.create))
         [] f = "type" -> view.tab = "types"
         [] f = "rule" -> view.tab = "pricing"
         [] f = "incident" -> view.tab = "maintenance" /\ "update" \in view.may
    /\ view' = [view EXCEPT !.forms[f] = d] /\ UNCHANGED net /\ Input

\* runAction: the write, then the lists, then what follows its success.
RoomsRun(call, arg, flag) ==
    /\ MayWrite(call)
    /\ view' = [view EXCEPT !.busy = @ \cup ({flag} \ {""})]
    /\ Sends({}, {Keeping(Write(call, arg, flag), view.sel)})
    /\ Input

\* Mutant: the button of the drawer stays enabled.
RoomsSubmitTwice ==
    /\ "create" \in view.may
    /\ RoomsDrawn \/ (view.tab = "rooms" /\ view.create)
    /\ RoomsRun(IF view.sel = None THEN "room_create" ELSE "room_update", view.sel, "room")

RoomsSubmit ==
    /\ "create" \in view.may /\ "room" \notin view.busy
    /\ RoomsDrawn \/ (view.tab = "rooms" /\ view.create)
    /\ RoomsRun(IF view.sel = None THEN "room_create" ELSE "room_update", view.sel, "room")

\* Deactivate and reactivate, in the drawer.
RoomsActive ==
    /\ "create" \in view.may /\ "room" \notin view.busy /\ RoomsDrawn
    /\ RoomsRun("room_active", view.sel, "room")

-----------------------------------------------------------------------------
(* Check-in, check-out and cleaning, from the drawer and from the view of the hotel *)

RoomsAct(call, i) ==
    /\ "update" \in view.may /\ view.acting = None
    /\ IF RoomsDrawn THEN i = view.sel ELSE view.tab = "overview" /\ ~view.drawer
    /\ MayWrite(call)
    /\ view' = [view EXCEPT !.acting = i, !.busy = @ \cup {"action"}]
    /\ Sends({}, {Keeping(Write(call, i, "action"), view.sel)})
    /\ Input

\* The priority queue starts and completes tasks; nothing reads submittingTask.
RoomsTask(i) ==
    /\ view.tab = "overview" /\ ~view.drawer /\ "update" \in view.may
    /\ RoomsRun("task", i, "")

-----------------------------------------------------------------------------
(* Types, incidents and rules *)

RoomsSelectType(i) ==
    /\ view.tab = "types" /\ i # view.kind
    /\ view' = [view EXCEPT !.kind = i, !.forms["type"] = "complete"] /\ UNCHANGED net /\ Input
RoomsSubmitType ==
    /\ view.tab = "types" /\ "type" \notin view.busy /\ RoomsRun("type", view.kind, "type")
RoomsTypeOff ==
    /\ view.tab = "types" /\ "type" \notin view.busy /\ view.kind # None
    /\ RoomsRun("type_off", view.kind, "type")

RoomsSubmitIncident ==
    /\ view.tab = "maintenance" /\ "incident" \notin view.busy /\ "update" \in view.may
    /\ RoomsRun("incident", None, "incident")
RoomsResolving(i) ==
    /\ view.tab = "maintenance" /\ "update" \in view.may /\ i # view.resolving
    /\ i = None => "incident" \notin view.busy
    /\ view' = [view EXCEPT !.resolving = i] /\ UNCHANGED net /\ Input
RoomsResolve ==
    /\ view.tab = "maintenance" /\ view.resolving # None /\ "incident" \notin view.busy
    /\ RoomsRun("resolve", view.resolving, "incident")
RoomsSubmitRule ==
    /\ view.tab = "pricing" /\ "rule" \notin view.busy /\ RoomsRun("rule", None, "rule")

-----------------------------------------------------------------------------
(* Answers *)

RoomsFailed(r) ==
    [view EXCEPT !.busy = @ \ {r.flag}, !.status = "error",
                 !.acting = IF r.flag = "action" THEN None ELSE @,
                 !.forms = [f \in RoomsForms |->
                    IF f = r.call /\ f \in {"incident", "rule"} THEN "blank" ELSE @[f]]]

RoomsPosted(r) ==
    /\ Wrote(r, RoomsWrites)
    /\ IF r.step = "served"
       THEN Sends({r}, {Reread(r)}) /\ UNCHANGED view
       ELSE Sends({r}, {}) /\ view' = RoomsFailed(r)
    /\ UNCHANGED server

\* What follows the success of a write; the closure knows the selection of its click.
RoomsAfter(v, r) ==
    CASE r.call = "room_create" ->
            [v EXCEPT !.holds = None, !.forms["room"] = "blank", !.create = FALSE]
      [] r.call = "room_active" -> [v EXCEPT !.sel = r.arg]
      [] r.call \in {"check_in", "check_out"} /\ r.at = r.arg ->
            [v EXCEPT !.holds = r.arg, !.forms["room"] = "complete", !.acting = None]
      [] r.call \in RoomsActs /\ (r.at # r.arg \/ r.call = "clean") ->
            [v EXCEPT !.acting = None]
      [] r.call = "type" /\ r.arg = None -> [v EXCEPT !.forms["type"] = "blank"]
      [] r.call = "type_off" -> [v EXCEPT !.kind = None, !.forms["type"] = "blank"]
      [] r.call = "resolve" -> [v EXCEPT !.resolving = None]
      [] r.call \in {"incident", "rule"} -> [v EXCEPT !.forms[r.call] = "blank"]
      [] OTHER -> v

\* Mutant: a failed reload leaves the flag up.
RoomsReloadedStuck(r) ==
    /\ Reads(r, RoomsWrites)
    /\ view' = IF r.step = "served"
               THEN RoomsAfter([view EXCEPT !.lists = r.saw, !.loaded = TRUE,
                                            !.busy = @ \ {r.flag}], r)
               ELSE [view EXCEPT !.status = "error"]
    /\ Sends({r}, {}) /\ UNCHANGED server

RoomsReloaded(r) ==
    /\ Reads(r, RoomsWrites)
    /\ view' = IF r.step = "served"
               THEN RoomsAfter([view EXCEPT !.lists = r.saw, !.loaded = TRUE,
                                            !.busy = @ \ {r.flag}], r)
               ELSE RoomsFailed(r)
    /\ Sends({r}, {}) /\ UNCHANGED server

RoomsDrawer ==
    RoomsClose \/ RoomsActive \/ (RoomsDrawn /\ RoomsSubmit)
RoomsOverviewTab ==
    \E i \in Items : RoomsOpen(i) \/ RoomsTask(i) \/ \E call \in RoomsActs : RoomsAct(call, i)
RoomsListTab == RoomsToggleCreate \/ (~RoomsDrawn /\ RoomsSubmit)
RoomsTypesTab == RoomsSubmitType \/ RoomsTypeOff \/ \E i \in Items : RoomsSelectType(i)
RoomsMaintenanceTab ==
    RoomsSubmitIncident \/ RoomsResolve \/ \E i \in Targets : RoomsResolving(i)

RoomsNext ==
    /\ view.page = "rooms"
    /\ \/ \E r \in net : RoomsLoaded(r) \/ RoomsPosted(r) \/ RoomsReloaded(r)
       \/ \E t \in RoomsTabs : RoomsTab(t)
       \/ \E f \in RoomsForms, d \in {"partial", "complete"} : RoomsEdit(f, d)
       \/ RoomsDrawer \/ RoomsOverviewTab \/ RoomsListTab \/ RoomsTypesTab
       \/ RoomsMaintenanceTab \/ RoomsSubmitRule \/ RoomsForget
=============================================================================
