--------------------------- MODULE RecordScreens ----------------------------
(***************************************************************************)
(* The two pages that show a list and one of its records beside it, each   *)
(* read on its own: the clients and the invoices.  Only the newest reading *)
(* of a list counts, and for the clients that of a record too.             *)
(***************************************************************************)
EXTENDS ClientsPage, BillingPage

Init == ClientsInit \/ BillInit
Next == ClientsNext \/ BillNext \/ Network({})
Spec == Init /\ [][Next]_screen

-----------------------------------------------------------------------------

\* Both pages keep to their fields, and the requests in flight are bounded.
TypeOK ==
    /\ view \in ClientsViews \/ view \in BillViews
    /\ \A r \in net : r.step \in Steps /\ r.saw \in Versions /\ r.n \in 1..MaxAlike
    /\ db \in Versions /\ inputs \in 0..MaxInputs /\ failures \in 0..MaxFailures

\* What is shown as loading, saving or paying has a request in flight whose end lowers it,
\* whatever failed, was given up or was closed meanwhile.
BusyHasRequest == \A f \in view.busy : HasRequest(f)

Quiet == net = {} /\ failures = 0

\* Once all is answered the invoices listed are those of the search, the status and the page
\* shown above them, in whatever order the lists arrived; but for a status chosen while the
\* timer of the search box ran: the timer then reads the status of when the search was
\* typed, and its list, the newest, stays under the status chosen (useBilling.js:112), until
\* a status or a page is chosen again.
InvoicesOfQuery ==
    view.page = "billing" /\ Quiet /\ ~view.pending =>
        view.shown \in {view.query, [view.query EXCEPT ![2] = view.armed]}

\* The same without its exception, which the program does not keep.
InvoicesAsChosen ==
    view.page = "billing" /\ Quiet /\ ~view.pending => view.shown = view.query

\* Once all is answered the record shown beside the clients is the one selected, in
\* whatever order the answers arrived; but for a client just saved, which is shown even
\* when the list it is not in keeps another one selected.
ClientOfSelection ==
    view.page = "clients" /\ Quiet /\ db = 0 => view.shows = view.sel

\* Once all is answered the list is the server's, whichever of its readings came last.
ClientsFresh == view.page = "clients" /\ Quiet => view.lists = db

\* ClientsPage.jsx: the confirmation names the client that will be archived.  The name is
\* that of the details shown, the archive is of the client selected.
ArchivesTheClientNamed ==
    \A r \in net : r.kind = "write" /\ r.call = "archive" => r.arg = r.at
=============================================================================
