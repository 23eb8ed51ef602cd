------------------------------ MODULE Screens -------------------------------
(***************************************************************************)
(* The pages of the hotel and of the platform, one at a time, each with    *)
(* its requests and the server: what they have in common that a user of    *)
(* any of them relies on.                                                  *)
(***************************************************************************)
EXTENDS OperationsPage, RoomsPage, PlanningPage, BookingAndStayPages,
        DayUseAndPaymentPages, DeskLists, DeskBoards, SubscriptionsPage, SettingsPage,
        RootPages, AccessPages, UsersPage

HotelInit == OpsInit \/ RoomsInit \/ PlanInit \/ BookingInit \/ StayInit \/ DayUseInit
             \/ PaymentInit \/ ListInit \/ BoardInit \/ SmartInit \/ SlotInit
PlatformInit == SubsInit \/ SettingsInit \/ RootInit \/ AccountInit \/ IamInit \/ UsersInit

HotelNext == OpsNext \/ RoomsNext \/ PlanNext \/ BookingNext \/ StayNext \/ DayUseNext
             \/ PaymentNext \/ ListNext \/ BoardNext \/ SmartNext \/ SlotNext
PlatformNext == SubsNext \/ SettingsNext \/ RootNext \/ AccountNext \/ IamNext \/ UsersNext

\* The readings a page sends together, of which some may fail.
Groups == CASE view.page = "operations" -> {"refresh"} \cup OpsWrites
            [] view.page = "smart" -> {"smart"}
            [] OTHER -> {}

Init == HotelInit \/ PlatformInit
Next == HotelNext \/ PlatformNext \/ Network(Groups)
Spec == Init /\ [][Next]_screen

-----------------------------------------------------------------------------

\* Every page keeps to its fields, and the requests in flight are bounded.
TypeOK ==
    /\ \/ view \in OpsViews \/ view \in RoomsViews \/ view \in PlanViews
       \/ view \in BookingViews \/ view \in StayViews \/ view \in DayUseViews
       \/ view \in PaymentViews \/ view \in ListViews \/ view \in BoardViews
       \/ view \in SmartViews \/ view \in SlotViews \/ view \in SubsViews
       \/ view \in SettingsViews \/ view \in RootViews \/ view \in AccountViews
       \/ view \in IamViews \/ view \in UsersViews
    /\ \A r \in net : r.step \in Steps /\ r.saw \in Versions /\ r.n \in 1..MaxAlike
    /\ db \in Versions /\ inputs \in 0..MaxInputs /\ failures \in 0..MaxFailures

\* A form is never sent again while it is being sent, whatever else the page sends or
\* receives meanwhile.
NoDoubleWrite ==
    \A r, s \in net : r.kind = "write" /\ s.kind = "write" /\ r.flag = s.flag /\ r.flag # "" => r = s

\* What a page shows as loading, sending or disabled has a request in flight whose end
\* lowers it: nothing waits forever, whatever failed or was given up.  But for the due of
\* a payment, whose spinner stays when its attachment is removed.  A list of payments
\* denied to its user shows a message in place of all that.
Denied(v) == v.page = "payments" /\ ~ListReadable(v)
BusyHasRequest == ~Denied(view) => \A f \in view.busy \ {"due"} : HasRequest(f)

\* A row whose button is disabled has its own request in flight.
Guards(v) == CASE v.page \in ListPages -> {v.acting}
               [] v.page \in RootPageNames \cup {"account"} -> {v.row}
               [] OTHER -> {}
GuardHasRequest == \A i \in Guards(view) \ {None} : \E r \in net : r.arg = i

\* The invoice a payment is for belongs to the flow that is attached to it.
InvoiceOfSelection == view.page = "operations" => view.invoice \in {None, view.sel}

\* A list of payments is that of the search shown above it.
ListOfQuery ==
    view.page = "payments" /\ net = {} /\ failures = 0 /\ view.typed = view.word
    /\ ListReadable(view) => view.shown.of = ListQuery(view)

\* What was typed in a form is emptied by the user, or by the end of what that very form
\* sent: never by a failure, nor by the answer to another form.
Typed(v) ==
    CASE v.page = "operations" -> {f \in OpsTabs : v.forms[f] # "blank"}
      [] v.page = "account" -> IF v.password # "blank" /\ ~v.leaving THEN {"password"} ELSE {}
      [] v.page = "iam" -> IF v.form # "blank" THEN {"role"} ELSE {}
      [] OTHER -> {}
DraftsKept ==
    [][inputs' = inputs =>
         \A f \in Typed(view) \ Typed(view') :
            \E r \in net \ net' : r.flag = f /\ r.step \in {"served", "partly"}]_screen
=============================================================================
