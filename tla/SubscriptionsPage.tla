-------------------------- MODULE SubscriptionsPage --------------------------
(***************************************************************************)
(* The page of the commercial contracts (pages/PlatformAdmin/              *)
(* PlatformSubscriptionsPage): the form of a subscription, that of a plan, *)
(* the renewal and the change of plan of the selected subscription, and    *)
(* the run of the commercial cycle.  Each has its own flag, and each is    *)
(* followed by a reading of the whole screen that selects what it was      *)
(* asked to prefer.  A form is filled when the row selected changes, not   *)
(* when the row itself does.                                               *)
(***************************************************************************)
EXTENDS Screen

SubsForms == {"sub", "plan", "renew", "change"}
SubsWrites == SubsForms \cup {"cycle"}

SubsViews ==
    [page : {"subscriptions"}, known : SUBSET Items, sub : Targets, plan : Targets,
     forms : [SubsForms -> Drafts], base : Versions, asking : BOOLEAN,
     busy : SUBSET ({"page"} \cup SubsWrites), lists : Versions, status : {"none", "error"}]

SubsInit ==
    /\ view = [page |-> "subscriptions", known |-> {}, sub |-> None, plan |-> None,
               forms |-> [f \in SubsForms |-> IF f = "renew" THEN "complete" ELSE "blank"],
               base |-> 0, asking |-> FALSE, busy |-> {"page"}, lists |-> 0, status |-> "none"]
    /\ net = {Keeping(r, <<None, None>>) : r \in Mounted({"load"}, "page")}
    /\ Start

-----------------------------------------------------------------------------
(* What is selected *)

SubsShown(v) == IF v.sub \in v.known THEN v.sub ELSE None

\* The effect of selectedSubscription?.id: the forms of the contract are filled again.
SubsFilled(v) ==
    IF SubsShown(v) = None
    THEN [v EXCEPT !.forms["sub"] = "blank", !.forms["change"] = "blank"]
    ELSE [v EXCEPT !.forms["sub"] = "complete", !.forms["change"] = "complete",
                   !.forms["renew"] = "complete", !.base = v.lists]
SubsSelected(v) == IF SubsShown(v) = SubsShown(view) THEN v ELSE SubsFilled(v)

\* The effect of selectedPlan?.id.
SubsPlanned(v) ==
    IF v.plan = view.plan THEN v
    ELSE [v EXCEPT !.forms["plan"] = IF v.plan = None THEN "blank" ELSE "complete"]

SubsFirst(S) == IF S = {} THEN None ELSE CHOOSE i \in S : TRUE
SubsPrefer(i, S) == IF i \in S THEN i ELSE SubsFirst(S)

\* loadScreen: the rows, then the selection; more hotels or plans fill the forms again.
SubsLoad(r, known, grown) ==
    LET v == [view EXCEPT !.known = known, !.lists = r.saw,
                          !.sub = SubsPrefer(r.at[1], known), !.plan = SubsPrefer(r.at[2], Items)]
    IN SubsPlanned(IF grown THEN SubsFilled(v) ELSE SubsSelected(v))

SubsLoaded(r) ==
    /\ Reads(r, {"load"})
    /\ \E known \in SUBSET Items :
          view' = IF r.step = "served" THEN [SubsLoad(r, known, TRUE) EXCEPT !.busy = @ \ {"page"}]
                  ELSE [view EXCEPT !.busy = @ \ {"page"}, !.status = "error"]
    /\ Sends({r}, {}) /\ UNCHANGED server

\* The lists are hidden while an error shows, for four seconds.
SubsListed == "page" \notin view.busy /\ view.status = "none"
SubsForget ==
    /\ view.status = "error" /\ view' = [view EXCEPT !.status = "none"]
    /\ UNCHANGED <<net, server>>

SubsSelect(i) ==
    /\ SubsListed /\ ~view.asking /\ i \in view.known \ {view.sub}
    /\ view' = SubsSelected([view EXCEPT !.sub = i]) /\ UNCHANGED net /\ Input
SubsNew ==
    /\ "sub" \notin view.busy /\ ~view.asking /\ view.sub # None
    /\ view' = [SubsSelected([view EXCEPT !.sub = None]) EXCEPT !.status = "none"]
    /\ UNCHANGED net /\ Input
SubsSelectPlan(i) ==
    /\ SubsListed /\ ~view.asking /\ i # view.plan
    /\ view' = SubsPlanned([view EXCEPT !.plan = i]) /\ UNCHANGED net /\ Input
SubsNewPlan ==
    /\ "plan" \notin view.busy /\ ~view.asking /\ view.plan # None
    /\ view' = SubsPlanned([view EXCEPT !.plan = None, !.status = "none"])
    /\ UNCHANGED net /\ Input

-----------------------------------------------------------------------------
(* The forms *)

\* The dates of a contract stay enabled while it is sent.
SubsEdit(f, d) ==
    /\ ~view.asking /\ d # view.forms[f] /\ (f # "sub" => f \notin view.busy)
    /\ f \in {"renew", "change"} => SubsShown(view) # None
    /\ view' = [view EXCEPT !.forms[f] = d] /\ UNCHANGED net /\ Input

SubsSend(call, arg) ==
    /\ MayWrite(call)
    /\ view' = [view EXCEPT !.busy = @ \cup {call}, !.status = "none"]
    /\ Sends({}, {Keeping(Write(call, arg, call), <<SubsShown(view), view.plan>>)})
    /\ Input

\* Mutant: the form of a contract is sent again while it is being sent.
SubsSubmitTwice ==
    /\ ~view.asking /\ view.forms["sub"] = "complete"
    /\ SubsSend("sub", SubsShown(view))

SubsSubmit ==
    /\ ~view.asking /\ "sub" \notin view.busy /\ view.forms["sub"] = "complete"
    /\ SubsSend("sub", SubsShown(view))

\* A code and a name are required; wrong prices or quotas are only told.
SubsSubmitPlan ==
    /\ ~view.asking /\ "plan" \notin view.busy /\ view.forms["plan"] # "blank"
    /\ IF view.forms["plan"] = "complete" THEN SubsSend("plan", view.plan)
       ELSE view' = [view EXCEPT !.status = "error"] /\ UNCHANGED net /\ Input

SubsRenew ==
    /\ ~view.asking /\ "renew" \notin view.busy /\ SubsShown(view) # None
    /\ view.forms["renew"] = "complete"
    /\ SubsSend("renew", SubsShown(view))
SubsChangePlan ==
    /\ ~view.asking /\ "change" \notin view.busy /\ SubsShown(view) # None
    /\ SubsSend("change", SubsShown(view))

SubsAskCycle ==
    /\ ~view.asking /\ "cycle" \notin view.busy
    /\ view' = [view EXCEPT !.asking = TRUE] /\ UNCHANGED net /\ Input
SubsGiveUp ==
    /\ view.asking /\ view' = [view EXCEPT !.asking = FALSE] /\ UNCHANGED net /\ Input
SubsRunCycle == view.asking /\ "cycle" \notin view.busy /\ SubsSend("cycle", None)

-----------------------------------------------------------------------------
(* Answers *)

\* A row that was created is preferred by the reading that follows.
SubsPreferring(r, i) ==
    [Reread(r) EXCEPT !.at = CASE r.call = "sub" /\ r.arg = None -> <<i, r.at[2]>>
                               [] r.call = "plan" /\ r.arg = None -> <<r.at[1], i>>
                               [] OTHER -> r.at]

SubsPosted(r) ==
    /\ Wrote(r, SubsWrites)
    /\ IF r.step = "served"
       THEN /\ view' = IF r.call = "renew" THEN [view EXCEPT !.forms["renew"] = "complete"]
                       ELSE view
            /\ \E i \in Items : Sends({r}, {SubsPreferring(r, i)})
       ELSE /\ view' = [view EXCEPT !.busy = @ \ {r.flag}, !.status = "error"]
            /\ Sends({r}, {})
    /\ UNCHANGED server

\* Mutant: a failed reading leaves its form waiting.
SubsReloadedStuck(r) ==
    /\ Reads(r, SubsWrites)
    /\ \E known \in SUBSET Items, grown \in BOOLEAN :
          view' = IF r.step = "served"
                  THEN [SubsLoad(r, known, grown) EXCEPT !.busy = @ \ {r.flag},
                           !.asking = @ /\ r.call # "cycle"]
                  ELSE [view EXCEPT !.status = "error"]
    /\ Sends({r}, {}) /\ UNCHANGED server

SubsReloaded(r) ==
    /\ Reads(r, SubsWrites)
    /\ \E known \in SUBSET Items, grown \in BOOLEAN :
          view' = IF r.step = "served"
                  THEN [SubsLoad(r, known, grown) EXCEPT !.busy = @ \ {r.flag},
                           !.asking = @ /\ r.call # "cycle"]
                  ELSE [view EXCEPT !.busy = @ \ {r.flag}, !.status = "error"]
    /\ Sends({r}, {}) /\ UNCHANGED server

-----------------------------------------------------------------------------

SubsTyping(f) == \E d \in {"partial", "complete"} : SubsEdit(f, d)
SubsContractForm == SubsNew \/ SubsSubmit \/ SubsTyping("sub")
SubsPlanForm == SubsNewPlan \/ SubsSubmitPlan \/ SubsTyping("plan")
SubsCommercial == SubsRenew \/ SubsChangePlan \/ SubsTyping("renew") \/ SubsTyping("change")
SubsCycle == SubsAskCycle \/ SubsGiveUp \/ SubsRunCycle
SubsContracts == \E i \in Items : SubsSelect(i)
SubsPlans == \E i \in Items : SubsSelectPlan(i)

SubsNext ==
    /\ view.page = "subscriptions"
    /\ \/ SubsContractForm \/ SubsPlanForm \/ SubsCommercial \/ SubsCycle
       \/ SubsContracts \/ SubsPlans \/ SubsForget
       \/ \E r \in net : SubsLoaded(r) \/ SubsPosted(r) \/ SubsReloaded(r)
=============================================================================
