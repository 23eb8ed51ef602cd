# Afrivo: TLA+ models of the front desk and of its client

Afrivo is hotel management software: a Django REST backend over PostgreSQL
(`src/backend`) and a React client (`src/frontend`). This directory holds TLA+
modules of its core logic, TLC configurations that check them on small
instances, and theorems about them that TLAPS checks for every instance.

- [1. The system](#1-the-system): the inventory.
- [2. The modules](#2-the-modules) and how they correspond to the code.
- [3. Abstractions](#3-abstractions).
- [4. The runs](#4-the-runs): bounds, fairness, what they show.
- [5. What the runs found](#5-what-the-runs-found).
- [6. The proofs](#6-the-proofs).
- [7. Not modelled, and the plan](#7-not-modelled-and-the-plan).

## 1. The system

### Processes and shared state

All state is in one database. Every HTTP request is served by a worker (a
gunicorn process as in `backend/Dockerfile`, or a thread of the development
server in `scripts/run_backend.bat`). `ATOMIC_REQUESTS` is off, so a statement
outside `transaction.atomic()` commits at once, and PostgreSQL runs at its
default isolation, READ COMMITTED. A handler loads model objects, checks them,
and calls `save()` on them, sometimes inside a transaction that locks rows with
`select_for_update()`, often not. Two other processes write: the management
command that marks overdue bookings as no-show, and the sweep that finds day
uses in overtime. The client polls: the room screen asks for
`/api/rooms/realtime/` every 15 seconds
(`frontend/src/hooks/useRoomRealtime.js`), and that *read* synchronises rooms.

So the components of the server do not exchange messages; they interact by calling each
other's models inside a request, and by reading each other's tables. The
central piece is `Room.status`, a cached value that
`resolve_room_operational_status` derives from stays, day uses, incidents,
housekeeping tasks and bookings, and that nearly every handler reads as a guard.

### Components

| Component | State | Operations | Hard part | Correct when |
|---|---|---|---|---|
| rooms (`rooms/`) | `Room.status`, housekeeping tasks, incidents | resolve and sync the status, save/start/complete/delete a task or an incident, complete a cleaning | the status is a cache, computed and stored in two unlocked statements, and some writers never refresh it | the cache is never more optimistic than the tables, and ends up right |
| bookings (`bookings/`) | `Booking` rows, an exclusion constraint on room and nights | create, confirm, cancel, no-show, update, relocate | check-then-write on loaded objects; half-open nights; the overdue command | no night of a room is sold twice; a closed booking stays closed |
| stays (`stays/`) | `Stay` rows, one-to-one with bookings | check-in, walk-in, check-out, relocate | validation before the transaction; two kinds of occupants that look at one cache | one occupant per room; a stay agrees with its booking |
| operations (`operations/`) | none of its own | the desk's API, relocation service | order of locks and of loads | handlers keep the invariants of the tables they write |
| day_use (`day_use/`) | `DayUse` rows | create, update, check-in, check-out, cancel, no-show, overtime, conversion into a night | overtime is not an occupied state; checks precede the lock | a day use ends with a check-out and a cleaning |
| billing, payments | invoices, items, payments | issue, cancel, refresh totals, pay, refund | totals are recomputed by separate statements; payments race; a tax once computed stays | paid amount = sum of payments; nothing billed twice |
| consumptions, pos_restaurant | consumptions, orders, tables | post, bill, cancel, add to a stay | released and billed again when an invoice is cancelled | every consumption is on at most one live invoice |
| users, iam | accounts, sessions, tokens | login, rotation, permissions | token rotation, tokens that outlive an account state | a revoked session stays revoked |
| licensing, super_root, platform_admin | subscriptions, licences | renew, suspend, grant modules | periods against the clock | no access without a valid period |
| tenancy, tenants | the hotel of every row | scoping of queries | a missing filter | no row of another hotel |
| guests, satisfaction | records | CRUD | none | |
| history, audit_logs, reports, core | journal, read models | append, aggregate | none that decides | |
| client session (`frontend/src/api`, `auth`, login pages) | per tab: signed in or not, requests in flight, one refresh promise; the cookie jar all tabs share | request, refresh and retry, boot, login, second factor, logout | a refresh token can be spent once, and many requests meet its need together; timeouts | nobody is signed out without a cause; every request ends |
| navigation (`auth/routePermissions.js`, guards, menus) | location, the location kept for the login page, user | redirect, sign in, log out, expiry | four layers decide on a page: login page, route table, page guard, menu | redirects end; menus lead to pages that open |
| the pages (`pages/`, `features/super-root`, `modules/billing`) | React state, requests in flight, drafts, selections | handlers, effects, timers, answers | answers arrive in any order, after the page moved on, or never | no form sent twice; nothing waits forever; what is shown is what was asked last; drafts survive failures |

`PROJECT.json` lists each of them with its status, and, under `hazards`, the
places of this code where something can go wrong that a test would hardly
reach. Every hazard names the properties that cover it or says why none does.

### The client

`frontend/src` is a React application of about 47 000 lines. Each browser tab
runs its own copy; a page is the state React keeps for it, handlers that run to
their next `await`, and effects that run after a render. Tabs interact through
the cookie jar (the access cookie and the refresh token), pages through the
server's rows only. What is hard is always of one kind: state read before an
`await` and used after it. The request layer (`api/client.js`) turns a 401 into
one refresh shared by the tab and one retry; a page sees a request that
succeeds, fails, or is given up.

Several files are reached by no route: `HotelViewPageLegacy`,
`PosLoginPageLegacy`, `ReportsPageLegacy`,
`pages/super-root/SuperRootDashboard.jsx`, and the handlers and the layout that
`OperationDetailPage.jsx` keeps beside the three pages it delegates to. They are
not modelled.

## 2. The modules

| Module | What it is |
|---|---|
| `RoomNights` | the abstract specification: which booking holds which nights |
| `FrontDesk` | rooms, bookings, stays, day uses and housekeeping; each request handled to its end |
| `DeskRequests` | extends `FrontDesk`: the same tables, with requests taken apart into the steps between which other workers commit |
| `ClientSession` | the tabs of a browser, their requests and refreshes, the cookie jar, and of the server what they rely on |
| `Navigation` | route table, guards, redirects and menus |
| `Screen` | what every page is made of: its state, its requests in flight, the server's rows and failures |
| `OperationsPage`, `RoomsPage`, `PlanningPage`, `BookingAndStayPages`, `DayUseAndPaymentPages`, `DeskLists`, `DeskBoards` | the pages of the hotel |
| `SubscriptionsPage`, `SettingsPage`, `RootPages`, `AccessPages`, `UsersPage` | settings, users, platform and Super Root pages |
| `ClientsPage`, `BillingPage` | the pages with a list and one of its records beside it |
| `Screens`, `RecordScreens` | compose the pages above and state what a user of any of them relies on |
| `MC*` | the above with symmetry sets or sets of users, for TLC |
| `FrontDesk_proofs`, `DeskRequests_proofs`, `ClientSession_proofs`, `Navigation_proofs` | theorems about one module each |
| `Screen_proofs` | lemmas on the requests of any page: what sending, answering, giving up and re-reading preserve |
| `HotelPages_proofs`, `Screens_proofs`, `RecordScreens_proofs` | one section per page with its inductive invariant and one lemma per handler; then the theorems about all pages |

Two views of the desk are kept on purpose. `FrontDesk` asks whether the
*logic* of the handlers is right, however long the sequence of requests; there
the properties hold, with the exceptions of section 5. `DeskRequests` asks what
remains true when handlers interleave; there some properties rest on locks and
constraints, and hold, and others rest on checks of loaded objects, and fail.

### FrontDesk

State: the tables (`booking`, `stay`, `dayUse`: a record per identifier, with
status `"none"` until a row uses it), per room the number of open housekeeping
tasks and of blocking incidents, the cached `roomStatus`, and the day.

| Code | Model |
|---|---|
| `resolve_room_operational_status` (`rooms/services.py`) and its three helpers | `Occupied`, `Blocked`, `Dirty`, `Assigned`, `Resolved` |
| `sync_room_operational_status` | `Sync(rooms)`, on the tables that the request leaves |
| `Booking.clean`, `validate_room_not_overlapping` | `Savable`, `RoomFree`, `Overlap` |
| `create_booking_api`, `Booking.confirm`, `.cancel`, `.mark_no_show`, `update_booking_api` | `CreateBooking`, `ConfirmBooking`, `CancelBooking`, `MarkNoShow`, `UpdateBooking` |
| `relocate_booking`, `relocate_stay` (`operations/services/relocation_service.py`) | `RelocateBooking`, `RelocateStay` |
| `Stay.create_from_booking`, `.create_walk_in`, `.complete_checkout`, `Stay.clean` | `BookingCheckIn`, `WalkIn`, `CheckOut`, `NoStayConflict` |
| `DayUseLifecycleService`, `DayUse.save`, `update_day_use_api`, `detect_overtime_day_uses` | `CreateDayUse`, `UpdateDayUse`, `DayUseCheckIn`, `CloseDayUse`, `DetectOvertime`, `DayUseCheckOut`, `ConvertToNight` |
| task and incident view sets and model saves | `CreateTask`, `SaveTask`, `CompleteCleaning`, `SaveIncident`, `DeleteTask`, `DeleteIncident` |
| every read that synchronises (dashboards, suggestions, room forms) | `SyncRoom` |

Which rooms an action synchronises is taken from the code: an update or a
check-in in another room refreshes the new room and not the one that is left,
deleting a task refreshes nothing, creating one writes `cleaning` over any
status. These asymmetries are why `CachedStatusSound` is worth checking: it says
exactly in which direction the cache may be stale.

### DeskRequests

Each worker has a record: the request it is serving and what it holds in
memory. The steps of a request are cut where the code lets another worker in:

| Request | Steps |
|---|---|
| a read that synchronises | load the room; `Resolve` from the tables; `StoreStatus` if it differs from the loaded value |
| check-in, walk-in | load booking and room (`LoadCheckIn`, `LoadWalkIn`); `ValidateArrival` (`Stay.full_clean`, outside the transaction); `InsertStay` or `AbortArrival` (the transaction) |
| check-out | `LoadCheckOut`; `Depart` or `RefuseDeparture` |
| confirm, cancel, no-show | load and check the object; `SaveChange` writes the status column, under the constraint; then the refresh above |
| update of a booking | the same, but writes every column of the loaded object |
| cancel a day use | `LoadClosing` checks; `CloseLoaded` locks and writes |
| a completed task | `CompleteTask`, then the refresh |
| create, relocate, day-use check-in and check-out, conversion | one transaction that locks before it reads: one step of `FrontDesk` |

`Traffic` says which kinds of request arrive in an instance; the theorems hold
for every `Traffic`.

### ClientSession

| Code | Model |
|---|---|
| `fetchJson`: first try, 401, retry | `StartCall`, `AnswerCall`, `RejectCall`, `RejectRetry`, `LoseCall` |
| `refreshAccessToken`, `refreshPromise` | `JoinRefresh`, `ServeRefresh`, `ArriveRenewed`, `ArriveRefused`, `LoseRefresh` |
| `afrivo:session-expired` and its listener | `Expire` |
| the first effect of `AuthContext` | `booting`, `SettledBoot`, `AnswerCsrf`, `LoseCsrf` |
| `login`, `completeTwoFactorLogin`, `logout`, the four login pages | `PostLogin`, `PostCode`, `BackToLogin`, `ServeLogin`, `Arrive*`, `PostLogout`, ... |

The server is what the client relies on: a refresh spends its token and grants
another, a login grants one, the account's sessions may be ended. Its half and
the arrival of the answer are two steps, so that an answer may be lost after
the token was spent.

### Navigation

A path is one route of the table, a user is what the guards read of it. Every
redirect is a step: React renders the new location, whose guards decide again.
`canAccessPath`, `getFirstAllowedPath` and `resolveDeniedRedirect` keep their
names; `Goes` is where a location sends its visitor, and `Menu` what the sidebar
offers. The Super Root console has a menu of its own (`SuperRootLayout.jsx:68`), which
lists its pages whatever the rights of the user; it is not part of `Menu`, so
`MenuLinksOpen` does not speak of it.

### Screen and the pages

The page is the record `view`, one field per state or ref of React that a
handler or a guard reads; `net` holds the requests in flight, each with the flag
its end lowers and what the closure that awaits it kept. A handler that awaits
twice is one action up to the first request, one per answer. An effect is part
of the action that changes what it depends on, in the same step. `Screen` has
the network: a request is served, refused, or served with its answer lost.
A write makes the next version of the rows, and an answer carries the version
it saw, which is how a list tells whether it is the last one.

| Code | Model |
|---|---|
| `OperationsPage.jsx`: three forms, attachments, due amount, invoice | `OpsSubmit`, `OpsSubmitted`, `OpsAttach`, `OpsRefreshedAfter`, ... |
| `RoomsPage.jsx`: `loadData`, `runAction`, rooms, incidents, rules; `handleCheckIn`, `handleCheckOut`, `handleMarkClean` behind one guard | `RoomsReloaded`, `RoomsAct`, ... |
| `AllOperationsPage`, `PaymentsPage`, `BookingsPage` | `DeskLists`: one list with its query and debounce, and the rows acted on |
| `ClientsPage.jsx`: `loadClients`, `loadClientDetail`, their request numbers | `ClientsListed`, `ClientsDetailed`, `Outdated` |
| `useBilling.js`, `BillingPage.jsx` and its panels | `BillListed`, `BillDetailed`, `BillSaved`, ... |
| `useBilling.js:104-115`: the effect of status and page, the timer of the search box | `BillFilter`, `BillPaged`; `BillType`, `BillArmed`, `BillSearched`, `BillTurned` |

The effect that starts the timer of the invoices' search box depends on what is
typed alone. So its closure keeps the status chosen *when it was typed* (`armed`),
and 350 ms later turns to the first page and reads it with that status
(`BillSearched`), whichever was chosen in between. When the list is on another
page the turn makes the first effect read too, with the status of now, right
after the timer's reading (`BillTurned`).

`PROJECT.json` maps every definition to its lines.

### RoomNights

A booking holds a set of consecutive nights of one room, no night is held
twice, and the hold of a guest who has arrived may move but is never given up.
`FrontDesk` implements it (`KeepsReservations`) under the mapping
`held <- HeldNights`, `arrived <- {b : HasStay(b)}`.

## 3. Abstractions

- **Money** is not modelled yet. A guard that needs a payment (the deposit of a
  confirmation, the BLOCKING check-out policy, a prepaid day use) may or may
  not hold: as no action has fairness in `FrontDesk`, "may not hold" is the
  action not being taken.
- **Time.** Dates are day numbers up to `LastDay`; a guest may leave the day
  after. The hours of a day use are dropped, so the comparison of the hours of
  two day uses is dropped with them (more behaviours, and the properties hold
  without it), and a day use ends on the day it starts. In `DetectOvertime` the
  clock may exceed the planned end at any moment.
- **Rooms** are active, of one type, with enough capacity, of one hotel.
- **Statuses merged**: `"ready"` is a day use pending payment or ready, `"left"`
  one completed, cancelled or no-show. Only money tells the members apart.
- **Tasks and incidents** are counted per room, up to `MaxOpen`. A task that
  `get_or_create` finds must be *pending*, which the count does not tell, so
  `DayUseCheckOut` may open a second one when there is an open one.
- **Interleaving.** The sub-queries of one `resolve_room_operational_status` are
  read in one step; so is a completed task's load and save. Check-in in a room
  chosen at the desk, incidents, manual tasks, updates of a day use and the
  overtime sweep are in `FrontDesk` only.
- **Locks** that a transaction takes before it reads make it one step. What two
  transactions do when they lock in opposite orders (PostgreSQL aborts one) is
  a hazard without a property so far.
- **Pages.** What is typed is a draft that is blank, partial or complete; which
  field is wrong is not told. Rows are two items, rights are a few sets of them;
  layout, formatting, figures and the validation of single fields are left out.
  One page is open at a time and starts from its first render; leaving a page
  ends the behaviour. A request that hangs is refused at its timeout.
- **Identity of a user.** The API always sends the permission map, so the role
  fallbacks of `permissions.js` do not apply.
- The Django admin, which can write any column, is outside. History entries,
  audit logs and messages are not modelled.

## 4. The runs

Rows are identifiers; TLC instances differ in how many there are. Symmetry is
used for safety runs only, over identifiers that nothing orders.

| Run | Instance | Question |
|---|---|---|
| `desk_bookings` | 2 rooms, 2 bookings, 1 stay, 2 nights | no night sold twice; stay and booking agree; refinement of `RoomNights` |
| `desk_day_uses` | 2 rooms, 1 booking, 1 stay, 1 day use | a stay and a day use, which may be moved, converted and left in overtime, compete for rooms; the cache is sound and arrivals find fit rooms |
| `race_bookings` | 3 workers, 2 rooms, 2 bookings | no night sold twice by stale objects |
| `race_check_ins` | 2 workers, 2 rooms, 1 booking, 2 stays | a checked-in booking has one stay |
| `race_converges` | 2 workers, 1 room, all kinds of occupants | the cache converges |
| `session` | 1 tab, 1 page call beside the session's, 2 tokens, 1 loss, 1 reload | causes of a sign-out, refresh, liveness of requests and boot |
| `navigation` | 64 hotel and 8 platform users, all paths | redirects end and their chains are short, menus open, a visitor returns to what it asked for |
| `screens` | every page but those two, 2 rows, 1 word, 3 sets of rights (the empty one included), 3 inputs, 2 writes, 1 failure | double sends, spinners and guards, lists, drafts, the invoice of an attachment |
| `records` | the clients and the invoices, 2 rows, 1 word, 3 inputs, 1 write, 1 failure | the newest reading wins |
| 3 violation runs | the smallest instance that shows it | section 5 |

**Why the bounds are enough to be interesting.** An overlap needs two bookings,
a move two rooms, a double occupation two arrivals. `LastDay = 1` gives the
nights 0 and 1: bookings of one room touch, nest or are the same, and a day
passes between a booking and its guest; two bookings that overlap without
nesting need a third night and are left to the theorem. `MaxOpen = 1` makes a
room dirty or not. `race_bookings` has a single night, so two bookings conflict
when they are in one room: the arithmetic of nights is the business of
`desk_bookings`, here a third worker lets a row be rewritten twice while another
worker holds an old object of it. The theorems of section 6 lift these bounds. TLC must fire every action in some passing run.
`MaxOpen`, `LastDay` and `Traffic` are the only bounds of the desk besides the sets.

In the client, a stale answer needs two requests and two rows, which
`MaxAlike = 2` and `Items` give; a failure is enough to leave a spinner up, and
one is what `MaxFailures` allows; three inputs are a selection, a change of it
and an action, on top of what a first render and its answers do; two pages of
invoices are what telling the first from another takes. `records` has
one write, so it does not ask about double sends. `session` has two calls, the
page's and the session's own, which is what meeting an expiry together takes;
with a second tab the same safety properties hold in 3.9 million states
(two tabs, one of which signs in and out, no loss and no reload), which takes
as long as TLC is given here, and the theorems are for any number.

**Deadlock** is checked in the runs of the desk: `SyncRoom` and the dashboards
make a state without successors a modelling error. The client's runs do not
check it: a page whose bounds on inputs, writes and failures are spent, or a
user who sits on a page, does nothing more.

**Fairness** (`FairDeskSpec`, used by `race_converges` alone). Weak fairness of
every worker's next step: a worker that took a request goes on with it, each
`Continue` step being a statement that returns. Strong fairness, per room, of
some worker loading it for the dashboard: the client polls all rooms every 15
seconds and a polling request that waits for a worker is served some time; weak
fairness would not do as between two polls all workers may be busy. No fairness
is assumed of any desk action: guests may stay for ever. The property is
conditional: *if* from some moment on only polls write, then the cache becomes
right and stays so. It is not obvious, as a sync writes only if the *loaded*
value differs from the computed one, and a late write may undo a good one.

`session`: weak fairness of every request's end, as `fetchWithTimeout` aborts
it, and of the server's half of a refresh; none of the user, who may never log
in or out. `navigation`: weak fairness of a redirect, which React renders
without asking anybody. The pages' properties are invariants: "nothing waits
for ever" is stated as "what is shown as waiting has a request in flight", and
that requests end is `CallsSettle`.

Each property of each passing run has a mutant, an operator defined next to the
one it replaces that carries a plausible bug (a forgotten status, a missing
sync, a lost constraint); TLC finds each of them.

## 5. What the runs found

The first three are runs that TLC must find violated, of a property that quotes
the repository; `PROJECT.json` has the quotation. The others are further
configurations kept here to be run by hand (`tlc -config X.cfg M`); each of them
ends in a counterexample too.

| Configuration (module) | Property | What happens |
|---|---|---|
| `race_walk_ins`: `DeskWalkIns` (`MCDeskRequests`) | `OneStayPerRoom` | two walk-ins validated before either inserts: both do |
| `race_day_use`: `DeskDayUseCancel` (`MCDeskRequests`) | `LeavingCleans` | a cancellation checked before the lock ends a day use that has started, without cleaning |
| `clients_wrong_record`: `ClientsWrongRecord` (`MCRecordScreens`) | `ArchivesTheClientNamed` | a list answered while the archive of a client is being confirmed selects another one: the dialog names the first, the other is archived |
| `FrontDeskOvertime` (`MCFrontDesk`) | `CleanedBeforeAvailable` | the sweep marks a day use as in overtime; only "in progress" counts as an occupant, so the room becomes available with its guest inside (`docs/business_rules.md:44`) |
| `FrontDeskLateArrival` (`MCFrontDesk`) | `ConfirmedRoomNotForSale` | `_has_assigned_booking` asks for arrival today or later; a guest one day late loses the reserved status of the room, and a walk-in gets it (`docs/business_rules.md:38`) |
| `DeskStaleStatus` (`MCDeskRequests`) | `OccupiedNotForSale` | a status computed before a check-in is stored after it (`docs/business_rules.md:42`) |
| `DeskLifeCycle` (`MCDeskRequests`) | `BookingLifeCycle` | an update saves all columns of an old object and reopens a booking cancelled meanwhile (`docs/business_rules.md:13`) |
| `InvoicesLateSearch` (`MCRecordScreens`) | `InvoicesAsChosen` | a status is chosen within 350 ms of the page's first render, or of a letter typed: its list is read at once, then the timer reads the list of the status before; that reading is the newest, and its invoices stay under the status chosen (`useBilling.js:112`) |
| `NavigationLoop` (`MCNavigation`) | `RedirectsEnd` | a user who may view nothing is sent to the POS dashboard, whose guard sends it to `/dashboard`, whose guard sends it to the POS dashboard |

`FrontDeskOvertime`, `FrontDeskLateArrival` and `NavigationLoop` need no
concurrency. The races on the server are repaired in the same way: repeat the
check on the row read under the lock. The wrong record is repaired by archiving
the client whose details are shown, the late search by having the timer read the
status of when it fires.

The passing run `records` checks `InvoicesOfQuery`, which is `InvoicesAsChosen`
with the late search excepted: the list may be that of the status the timer was
armed with. `BillPaged` forgets that status when a status or a page is chosen
with no timer running, so the exception lasts until the next such choice.

A run stops at the first counterexample,
and there are more of the same kind: `BookingLifeCycle` is also broken by a
cancellation loaded before a check-in and saved after it (a cancelled booking
with a guest in the room) and by a check-in loaded before a cancellation
(`Stay.save` locks the booking and does not look at its status again);
`LeavingCleans` also by a check-out loaded before a relocation, which sends the
room loaded then to cleaning and not the one the guest leaves. To see them, give
`Traffic` in the configuration the kinds `check_in` and `cancel`, or `walk_in`,
`check_out` and `relocate` with two rooms and a stay, only. The clients' form
has the flaw of the archive: the data of one client may be saved over another
one selected while its details are read (`ClientsPage.jsx:440`).

`FrontDeskStays` (`MCFrontDesk`) is a larger passing instance of
`desk_day_uses` with two guests, two stays and no day use.

Worth knowing too: two stays in one room (`race_walk_ins`) then refuse each
other's check-out, as `Stay.clean` runs on check-out as well; one of them has to
be relocated first.

Seen while modelling the pages, in the steps of the modules and stated by no
property:

- `ClientsPage.jsx:522`: the button that reactivates a client is never disabled
  and shares the form's flag, so two reactivations may be in flight and the end
  of the second enables a form that is still being sent.
- `RoomsPage.jsx:1271`: the forms of an incident and of a rule are emptied even
  when the request failed.
- `ReservationPlanningPage.jsx:1051`, `AllOperationsPage.jsx:294`: a reading is
  not given up when the window or the query changes.
- `usePaymentDetail.js:98` and the entry, exit and cancellation of a day use
  wait for nothing in flight.
- `BookingsPage.jsx:125`: one field guards the row acted on, so the end of the
  first check-in enables the second row's button.
- `ExploitationPage.jsx:249`: rows ticked and gone since are still sent.
- `SettingsPage.jsx:279`, `:407`: after a failed reading the default form can be
  saved over the settings; saving a section forgets the drafts of the others.
- `UsersPage.jsx:62`: a search that drops the selected user leaves its dialog
  open, about the next one.
- `PlatformSubscriptionsPage.jsx:266`: an update typed before a renewal undoes it.
- `AuthContext.jsx:16`: the answer of a session read before a logout signs the
  tab in again; a network failure of a refresh counts as an expiry; the refusal
  of one tab clears the cookies of all.
- Payment form of `OperationsPage.jsx`: removing the attachment while its due is
  read leaves the spinner (why `BusyHasRequest` leaves `due` out).

## 6. The proofs

Assumptions on the constants: `BoundsAssumption` (`LastDay` a natural number,
`MaxOpen` a positive one) and `NoneAssumption` (the null is no room, guest or
booking). The sets of rooms, guests, bookings, stays, day uses, workers and
`Traffic` are arbitrary, also infinite. For the session: `CountsAssumption` (the
bounds are natural numbers, and a token can be granted), `CallsAssumption` and
`TabsAssumption` (the names of the session's call and of no tab are not among
the calls and the tabs); tabs and calls are arbitrary sets. For the pages:
`ScreenAssumption` (natural bounds, one request of each kind possible, and no row
or word named like the null ones); rows, words and rights are arbitrary sets. For
the navigation: `UsersAssumption` (a user is a record of tiers and of modules it
may view); the set of users is arbitrary, and the route table is the code's.

| Theorem | Statement | Argument |
|---|---|---|
| `TypeCorrect` | `Spec => []TypeOK` | inductive |
| `StatusIsSound` | `Spec => []CachedStatusSound` | inductive with `TypeOK`: every action either syncs a room (`ResolvedSound`), sends it to cleaning (`CleaningSound`), or does not touch what its status depends on or only empties it (`FrameSound`) |
| `ArrivalsFit` | `Spec => ArrivalsInFitRooms` | from the soundness of the cache before the step: the guards of arrivals read only the cache |
| `OneOccupant` | `Spec => []OccupancyExclusive` | inductive, with soundness: who enters, enters an empty room |
| `NoDoubleBooking` | `Spec => []NoOverlappingBookings` | inductive; every action rewrites at most one booking, to a row checked by `RoomFree`, or leaves its room, dates and activity (`BookingRewrites`, `StayRewrites`, `DayUseRewrites`) |
| `StayAgreesWithBooking` | `Spec => []StayMatchesBooking` | inductive: actions on a booking require no stay, or keep guest and room |
| `FrontDeskKeepsReservations` | `Spec => KeepsReservations` | step simulation; needs `NoOverlappingBookings`, `StayMatchesBooking`, and `DatesInOrder` (an active booking arrives before it leaves), which makes its hold non-empty |
| `DeskTypeCorrect` | `DeskSpec => []DeskTypeOK` | needs `DepartingStayExists`: a check-out in memory is of a stay that exists, as its room goes to `cleaning` |
| `DeskNoDoubleBooking` | `DeskSpec => []NoOverlappingBookings` | the written row passes the exclusion constraint, whatever object was validated |
| `DeskCheckedInOnce` | `DeskSpec => []CheckedInOnce` | needs `SavedArrivalHasStay`: an object in memory that would write `checked_in` is of a booking that has a stay, and stays are never deleted |
| `SessionTypeCorrect` | `Spec => []TypeOK` of `ClientSession` | inductive |
| `WaitersAreServed` | `Spec => []WaitersHaveRefresh` | inductive: the first 401 starts the refresh, the others join it, and each way a refresh ends releases all of them |
| `OwnTokensHonoured` | `Spec => []OwnTokenNeverRefused` | `TokenInv`: tokens in the jar or on their way were granted, a granted token that no answer has brought yet is in nobody's jar, at most one answer brings it, and a token a tab spent has left the jar unless its answer was lost; so what a tab sends, it has not spent |
| `SignedOutOnlyForCause` | `Spec => SignedOutForCause` | from `TokenInv` and from `RetriesHaveAccess`: a retry is sent with the access cookie its refresh brought |
| `NavigationTyped` | `Spec => []TypeOK` of `Navigation` | inductive: every guard sends to a page of the route table |
| `AskedIsReturnedTo` | `Spec => []ReturnsToAsked` | `AskedKept`, below |
| `EveryLinkOpens` | `Spec => []MenuLinksOpen` | from the tables alone: each link of a menu has one rule, that rule asks for the one module the menu and the page guard ask for (`Link`), and an open route stays where it is (`OpenStays`) |
| `DeniedGoesWhereAllowed` | a denied user is sent where it is let in | `getFirstAllowedPath` finds the least open entry of its list, as the POS and account pages ask for nothing |
| `ChainsOfRedirectsEnd` | `Spec => RedirectsShorten` | `DeniedStays`: where a denied user is sent, no guard sends it on, but for the two that disagree (`Bounced`); `IndexesOpen`; and `FromIsPage`: what a login page remembers is not a login page |
| `PagesKept` | `Spec => []PagesInv` of `Screens` | below: each of the seventeen pages keeps to its inductive invariant |
| `PagesTyped` | `Spec => []TypeOK` of `Screens` | from `PagesInv`, with `WritesBounded` for the versions of the rows |
| `FormsSentOnce` | `Spec => []NoDoubleWrite` | from the `Frame` of each page: a request with the flag of a form has its flag up and is alone with it |
| `NothingWaitsForever` | `Spec => []BusyHasRequest` | from `Covered`, which every handler, failure and clean-up keeps |
| `RowsHaveRequests` | `Spec => []GuardHasRequest` | `ListActing`, `RootHeld`, `AccountHeld`: the disabled row has its request, which outlives answers to other rows |
| `InvoiceFollowsSelection` | `Spec => []InvoiceOfSelection` | part of `OpsKept`, with what the due in flight was asked for |
| `ListFollowsQuery` | `Spec => []ListOfQuery` | `ListPaid`: until something fails, whatever reads the payments reads those of the query shown |
| `DraftsAreKept` | `Spec => DraftsKept` | from `PagesInv`, action by action (`OpsDrafts`, `AccountDrafts`, `IamDrafts`) |
| `ScreensTyped` | `Spec => []TypeOK` of `RecordScreens` | inductive; `WritesBounded` counts the writes in flight with those made, as each may still be served |
| `NothingSpinsForEver` | `Spec => []BusyHasRequest` | a flag that is up is that of a request; for the list of the invoices, of the newest reading, as an older one lowers nothing |
| `ClientListConverges` | `Spec => []ClientsFresh` | `ClientsCounted`: a list out of date waits for the handler of a write or for the newest reading, and a reading out of date for such a handler |
| `ClientShownIsSelected` | `Spec => []ClientOfSelection` | `ClientsFollows`: while nothing was written, the newest reading of a record is of the one selected |
| `InvoicesShownAreSearched` | `Spec => []InvoicesOfQuery` | `BillListsOrdered`, below; with the exception of the late search, as `InvoicesAsChosen` is false |

The two invariants on what workers hold in memory are what makes the three of
`DeskRequests` inductive: a stale object is harmless to these properties exactly because what it
would write is, at the time, still justified by the tables.

The properties of `RecordScreens` speak of a quiet page, and a quiet page says
nothing of the requests that made it so. Their inductive invariants `ClientsInv`
and `BillInv` say what is owed while requests are in flight. For the invoices:
two readings of the list never share a number (`SlotFree`, a choice of the least
free number, is where well-foundedness of the naturals is used), and the newest
is for what is searched, with the status chosen or the one the timer was armed
with (`BillMayList`), or was answered and its list is shown. One case escapes
this: a creation reads the list of *all* invoices before it resets the search,
so that the newest reading is of another query. `BillListsOrdered` therefore
allows it while the handler of a creation waits for an answer
(`CreationAwaited`), and `RereadKeeps` shows that the handler then resets the
search or reads again. Requests that a closed form or panel leaves behind lose
their flag at once; `BillLeaves` is the shape of every such step, proved once for
all of them.

The invariants of `Screens` are not inductive: that a spinner has a request says
nothing of the flag's other requests, and a form has one write in flight only
because its button stays disabled, which is to say its flag up, until the last
answer its handler awaits. So the proof is made once for any page. `Frame(R, E)`
says that the requests in flight are among `R` (for each call the kind, the flag
and the subject it goes with: `OpsRequests`, `RoomsRequests`, ...), that their
writes are within the bound, and that a request with a flag of `E`, the forms of
the page, is the only one with it and has it up. `Covered` says that every flag
that is up has a request, and makes `BusyHasRequest` of it. Every handler is one
of few shapes, of which `Screen_proofs` proves that they keep both: a request is
sent (`FrameSent`), ends (`FrameAnswered`), is followed by a reading
(`FrameReread`, `FrameFollowed`), requests are given up (`FrameEnded`) or lose
their flag with a form that closes (`FrameOrphaned`), nothing is sent
(`FrameQuiet`), or the server answers (`FrameServed`). A page's section then has
what is its own, and one step per handler. `PagesInv` is the disjunction of the
seventeen invariants; as each fixes its page, the page shown says which one
holds (`PageShown`).

Two exceptions are part of `BusyHasRequest`, as the code has them: the due of a
payment whose attachment is removed, and a list of payments shown to a user who
may not view payments. The list starts as loading and asks for nothing, and what
is displayed is a message in its place (`Denied`); `screens` therefore has a
user without rights.

`ReturnsToAsked` speaks of a user on a page, and says nothing of the redirects
that led there. `AskedKept` does: while the page asked for is open to its
visitor, the visitor is on it, or on the login page of its shell with that page
remembered (`BackTo`), and the page asked for is never itself a login page.

`RedirectsShorten` is the safety half of `RedirectsEndUnlessBounced`: a number
that every redirect lowers (`RedirectsLeft`, at most 3). That a redirect is
taken at all is the fairness of React, which the run adds.

Only model-checked: `StatusConverges`, `CallsSettle`, `BootEnds` and
`RedirectsEndUnlessBounced`, liveness under fairness. Every other property of a
passing run is a theorem. Nothing here rests on induction over data, and no
module has a RECURSIVE operator. Refuted, so not provable: the properties of
section 5.

## 7. Not modelled, and the plan

In the order of the plan:

1. **Billing on the server**: invoices, items, payments and refunds, with totals
   as small numbers. Abstract specification: a ledger in which the paid amount
   is the sum of valid payments. Hazards: the lost update of `amount_paid`, the
   tax that is computed only while zero, payments of a cancelled invoice. The
   deposit and check-out guards of `FrontDesk` would read it.
2. **Consumptions and POS**: life cycle, billing and release; the POS screens.
3. **Lock orders**: `relocate_booking` locks the booking and then rooms,
   check-ins and saves the room and then the booking.
4. The overtime sweep, updates of day uses and their `get_or_create` as split
   requests of `DeskRequests`.
5. Accounts and rotation on the server, which `ClientSession` takes from the
   client's use; **licensing**: periods and module grants against the clock.
6. The tables of the platform that are alike to the modelled ones, and a page
   left with requests in flight for another one.

Never modelled: guests, satisfaction, reports, history, documents and templates,
which decide nothing; the layout of React components; tenancy, as isolation is a
filter on each query.
