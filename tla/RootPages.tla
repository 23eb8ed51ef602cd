------------------------------ MODULE RootPages ------------------------------
(***************************************************************************)
(* Three pages of the Super Root console: its administrators               *)
(* (features/super-root/users), the organizations                          *)
(* (features/super-root/organizations) and the platforms                   *)
(* (features/super-root/platforms).  Each lists rows and has a form that   *)
(* creates one.  The administrators are switched on and off one by one,    *)
(* behind one guard that holds the last row clicked; the platforms are     *)
(* acted upon, and tenants attached to them.  While an error shows, and    *)
(* while the platforms are read, all but the header is hidden.             *)
(***************************************************************************)
EXTENDS Screen

RootPageNames == {"admins", "organizations", "platforms"}

RootViews ==
    [page : RootPageNames, open : BOOLEAN, form : Drafts, wrong : BOOLEAN,
     attach : {"blank", "complete"}, told : {"none", "attached", "refused"}, active : SUBSET Items, row : Targets, acting : BOOLEAN,
     busy : SUBSET {"page", "create", "attach"}, lists : Versions, error : BOOLEAN]

RootInit ==
    /\ \E p \in RootPageNames :
          view = [page |-> p, open |-> FALSE, form |-> "blank", wrong |-> FALSE,
                  attach |-> "blank", told |-> "none", active |-> {}, row |-> None, acting |-> FALSE,
                  busy |-> {"page"}, lists |-> 0, error |-> FALSE]
    /\ net = Mounted({"rows"}, "page")
             \cup (IF view.page = "platforms" THEN Mounted({"tenants"}, "") ELSE {})
    /\ Start

RootPlatforms == view.page = "platforms"
RootShown == "page" \notin view.busy /\ ~view.error

\* The rows that were read, of which some are active.
RootRows(v, r, S) == [v EXCEPT !.lists = r.saw, !.active = S]

\* Refreshing the administrators or the organizations raises no flag, and nobody hears it fail.
RootRefresh ==
    /\ Unsent("rows")
    /\ view' = [view EXCEPT !.error = FALSE, !.busy = IF RootPlatforms THEN @ \cup {"page"} ELSE @]
    /\ Sends({}, {Read("rows", NoWord, IF RootPlatforms THEN "page" ELSE "")}) /\ Input

RootReload(at) == Keeping(Read("rows", NoWord, "page"), at)

\* The tenants are read again behind the platforms they were attached to.
RootLoaded(r) ==
    /\ Reads(r, {"rows"}) /\ (r.at = "attach" => Unsent("tenants"))
    /\ LET v == [view EXCEPT !.busy = @ \ {r.flag}]
       IN IF r.step = "served" THEN \E S \in SUBSET Items : view' = RootRows(v, r, S)
          ELSE view' = [v EXCEPT !.error = @ \/ r.flag = "page"]
    /\ Sends({r}, {Keeping(Read("tenants", NoWord, ""), r.at) : a \in {r.at} \cap {"attach"}})
    /\ UNCHANGED server

\* When this reading fails, tenants that were attached are reported as refused.
RootTenants(r) ==
    /\ Reads(r, {"tenants"})
    /\ view' = IF r.at = "attach" /\ r.step = "failed" THEN [view EXCEPT !.told = "refused"]
               ELSE view
    /\ Sends({r}, {}) /\ UNCHANGED server

-----------------------------------------------------------------------------
(* The form that creates a row *)

RootOpen == view' = [view EXCEPT !.open = ~@] /\ UNCHANGED net /\ Input
RootFill(d) ==
    /\ view.open /\ RootShown /\ view.form # d
    /\ view' = [view EXCEPT !.form = d, !.wrong = @ /\ RootPlatforms] /\ UNCHANGED net /\ Input

RootSend == /\ MayWrite("create")
            /\ view' = [view EXCEPT !.busy = @ \cup {"create"}, !.wrong = FALSE]
            /\ Sends({}, {Write("create", None, "create")}) /\ Input

\* Mutant: a row is created again while it is being created.
RootCreateTwice == view.open /\ RootShown /\ view.form = "complete" /\ RootSend

\* The browser keeps an incomplete platform, the handlers of the other two refuse their own.
RootCreate ==
    /\ view.open /\ RootShown /\ "create" \notin view.busy
    /\ IF view.form = "complete" THEN RootSend
       ELSE /\ ~RootPlatforms /\ view' = [view EXCEPT !.wrong = TRUE] /\ UNCHANGED net /\ Input

RootEmptied(v) == [v EXCEPT !.form = "blank", !.open = FALSE]
RootLower(v) == [v EXCEPT !.busy = @ \ {"create"}]

\* An administrator is put in the list; organizations are read before the form is left,
\* platforms after.
RootCreated(r) ==
    /\ Wrote(r, {"create"})
    /\ \/ /\ r.step = "failed"
          /\ view' = [RootLower(view) EXCEPT !.wrong = TRUE] /\ Sends({r}, {})
       \/ /\ r.step = "served" /\ view.page = "admins"
          /\ \E i \in Items : view' = [RootLower(RootEmptied(view)) EXCEPT !.active = @ \cup {i}]
          /\ Sends({r}, {})
       \/ /\ r.step = "served" /\ view.page = "organizations"
          /\ view' = [view EXCEPT !.error = FALSE] /\ Sends({r}, {Reread(r)})
       \/ /\ r.step = "served" /\ RootPlatforms /\ Unsent("rows")
          /\ view' = [RootLower(RootEmptied(view)) EXCEPT !.busy = @ \cup {"page"}, !.error = FALSE]
          /\ Sends({r}, {RootReload(None)})
    /\ UNCHANGED server

RootRelisted(r) ==
    /\ Reads(r, {"create"})
    /\ IF r.step = "served"
       THEN \E S \in SUBSET Items : view' = RootRows(RootLower(RootEmptied(view)), r, S)
       ELSE view' = [RootLower(view) EXCEPT !.wrong = TRUE]
    /\ Sends({r}, {}) /\ UNCHANGED server

-----------------------------------------------------------------------------
(* The rows of the administrators *)

RootSwitch(i) ==
    /\ view.page = "admins" /\ RootShown /\ view.row # i /\ MayWrite("switch")
    /\ view' = [view EXCEPT !.row = i]
    /\ Sends({}, {Keeping(Write("switch", i, ""), IF i \in view.active THEN "off" ELSE "on")})
    /\ Input

\* Mutant: a refused switch leaves its row waiting.
RootSwitchedStuck(r) ==
    /\ Wrote(r, {"switch"})
    /\ IF r.step = "failed" THEN view' = [view EXCEPT !.error = TRUE]
       ELSE view' = [view EXCEPT !.row = None,
                        !.active = IF r.at = "on" THEN @ \cup {r.arg} ELSE @ \ {r.arg}]
    /\ Sends({r}, {}) /\ UNCHANGED server

RootSwitched(r) ==
    /\ Wrote(r, {"switch"})
    /\ IF r.step = "failed" THEN view' = [view EXCEPT !.row = None, !.error = TRUE]
       ELSE view' = [view EXCEPT !.row = None,
                        !.active = IF r.at = "on" THEN @ \cup {r.arg} ELSE @ \ {r.arg}]
    /\ Sends({r}, {}) /\ UNCHANGED server

-----------------------------------------------------------------------------
(* The platforms *)

\* Only the centre of control waits for the action in flight.
RootAct(call, waits) ==
    /\ RootPlatforms /\ (waits => ~view.acting)
    /\ IF call = "change"
       THEN /\ RootShown /\ MayWrite(call) /\ Sends({}, {Write(call, None, "")})
       ELSE Unsent(call) /\ Sends({}, {Read(call, None, "")})
    /\ view' = [view EXCEPT !.acting = TRUE] /\ Input

RootActed(r) ==
    /\ Answered(r, {"change", "inspect"})
    /\ IF r.call = "change" /\ r.step = "served"
       THEN /\ Unsent("rows") /\ Sends({r}, {RootReload(None)})
            /\ view' = [view EXCEPT !.acting = FALSE, !.busy = @ \cup {"page"}, !.error = FALSE]
       ELSE view' = [view EXCEPT !.acting = FALSE] /\ Sends({r}, {})
    /\ UNCHANGED server

RootChoose ==
    /\ RootPlatforms /\ RootShown /\ view.attach = "blank"
    /\ view' = [view EXCEPT !.attach = "complete"] /\ UNCHANGED net /\ Input

RootAttach ==
    /\ RootPlatforms /\ RootShown /\ view.attach = "complete" /\ "attach" \notin view.busy
    /\ MayWrite("attach")
    /\ view' = [view EXCEPT !.busy = @ \cup {"attach"}, !.told = "none"]
    /\ Sends({}, {Write("attach", None, "attach")}) /\ Input

RootAttached(r) ==
    /\ Wrote(r, {"attach"})
    /\ LET v == [view EXCEPT !.busy = @ \ {"attach"}]
       IN IF r.step = "served"
          THEN /\ Unsent("rows") /\ Sends({r}, {RootReload("attach")})
               /\ view' = [v EXCEPT !.busy = @ \cup {"page"}, !.error = FALSE, !.told = "attached"]
          ELSE view' = [v EXCEPT !.told = "refused"] /\ Sends({r}, {})
    /\ UNCHANGED server

-----------------------------------------------------------------------------

RootForm == RootCreate \/ \E d \in {"partial", "complete"} : RootFill(d)
RootFrame == RootOpen \/ RootRefresh
RootAdmins == \E i \in Items : RootSwitch(i)
RootCommand == RootAct("change", FALSE) \/ RootAct("inspect", FALSE)
RootCentre == RootShown /\ (RootAct("change", TRUE) \/ RootAct("inspect", TRUE))
RootTenantForm == RootChoose \/ RootAttach

RootNext ==
    /\ view.page \in RootPageNames
    /\ \/ RootForm \/ RootFrame \/ RootAdmins \/ RootCommand \/ RootCentre \/ RootTenantForm
       \/ \E r \in net : RootLoaded(r) \/ RootTenants(r) \/ RootCreated(r) \/ RootRelisted(r)
                         \/ RootSwitched(r) \/ RootActed(r) \/ RootAttached(r)
=============================================================================
