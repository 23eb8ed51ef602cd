----------------------------- MODULE Navigation -----------------------------
(***************************************************************************)
(* Which page a user sees: the route table of the application, the guards  *)
(* around it and the redirects they answer with.                           *)
(*                                                                         *)
(* A path is one route of the table; a route with a parameter stands for   *)
(* all its instances.  A user is what the guards read of it: the tiers it  *)
(* belongs to and the modules its permission map lets it view (the API     *)
(* always sends the whole map, so the role fallbacks do not apply).        *)
(* A redirect is a step of its own: React renders the new location and its *)
(* guards decide again, so a chain of redirects need not end.              *)
(***************************************************************************)
EXTENDS Naturals, Sequences, FiniteSets

CONSTANT Users  \* the users who may sign in

Modules == {"dashboard", "clients", "rooms", "operations", "billing", "payments",
            "reports", "history", "users", "settings", "platform_organizations",
            "platform_hotels", "platform_modules", "platform_licenses",
            "platform_subscriptions", "platform_users", "platform_security"}
PlatformModules == {m \in Modules : m \notin
    {"dashboard", "clients", "rooms", "operations", "billing", "payments", "reports",
     "history", "users", "settings"}}

UserRecords == [super : BOOLEAN, platform : BOOLEAN, hotel_admin : BOOLEAN,
                pos : BOOLEAN, view : SUBSET Modules]
Anonymous == [super |-> FALSE, platform |-> FALSE, hotel_admin |-> FALSE,
              pos |-> FALSE, view |-> {"anonymous"}]

ASSUME UsersAssumption == Users \subseteq UserRecords

VARIABLES user,   \* AuthContext's user
          path,   \* the location
          from,   \* location.state.from, kept for the login page
          asked   \* history: the page a visitor asked for before signing in

vars == <<user, path, from, asked>>

None == "none"

-----------------------------------------------------------------------------
(* Permissions *)

hasPermission(u, module) == module \in u.view
isPlatformAdminUser(u) == u.platform \/ u.super

hasHierarchyAccess(u, tier) ==
    CASE tier = "super-root" -> u.super
      [] tier = "platform-admin" ->
            isPlatformAdminUser(u) \/ u.view \cap PlatformModules # {}
      [] tier = "hotel-admin" -> u.hotel_admin
      [] tier = "any" -> TRUE

-----------------------------------------------------------------------------
(* ROUTE_PERMISSION_RULES: any of the modules of a rule is enough *)

Rule(paths, needs, tier, fallback) ==
    [paths |-> paths, needs |-> needs, tier |-> tier, fallback |-> fallback]
Hotel(paths, needs) == Rule(paths, needs, "any", "/dashboard")

PosPages == {"/pos-restaurant", "/pos-restaurant/dashboard", "/pos-restaurant/tables"}

HotelRules ==
    {Rule({"/dashboard"}, {"dashboard"}, "any", "/welcome"),
     Hotel({"/", "/welcome"}, {"dashboard"}),
     Hotel({"/clients"}, {"clients"}),
     Hotel({"/rooms"}, {"rooms", "operations"}),
     Hotel({"/smart-rooms"}, {"rooms"}),
     Hotel({"/reservation-planning", "/exploitation", "/day-use", "/operations",
            "/operations/all", "/operations/bookings", "/operations/stays/:id"},
           {"operations"}),
     Hotel({"/billing"}, {"billing"}),
     Hotel({"/payments"}, {"payments"}),
     Hotel({"/reports"}, {"reports"}),
     Hotel({"/history/activity-logs"}, {"history"}),
     Hotel({"/users", "/admin/utilisateurs"}, {"users"}),
     Hotel({"/settings"}, {"settings"}),
     Hotel({"/account/security"} \cup PosPages, {})}

Platform(p, needs) == Rule({p}, needs, "any", "/platform")

PlatformRules ==
    {Hotel({"/platform"}, {"platform_security"}),
     Platform("/platform/organizations", {"platform_organizations"}),
     Platform("/platform/hotels", {"platform_hotels"}),
     Platform("/platform/modules", {"platform_modules"}),
     Platform("/platform/licenses", {"platform_licenses"}),
     Platform("/platform/subscriptions", {"platform_subscriptions"}),
     Platform("/platform/users", {"platform_users"}),
     Platform("/platform/security", {"platform_security"})}

Root(paths, needs, fallback) == Rule(paths, needs, "super-root", fallback)
RootHome == "/super-root/dashboard"

\* Pages with the same rule are represented by some of them.
SuperRootRules ==
    {Root({"/super-root", RootHome}, {"platform_security"}, "/platform"),
     Root({"/super-root/platforms", "/super-root/security", "/super-root/maintenance"},
          {"platform_security"}, RootHome),
     Root({"/super-root/organizations"}, {"platform_organizations"}, RootHome),
     Root({"/super-root/hotels"}, {"platform_hotels"}, RootHome),
     Root({"/super-root/modules"}, {"platform_modules"}, RootHome),
     Root({"/super-root/licenses"}, {"platform_licenses"}, RootHome),
     Root({"/super-root/users", "/super-root/roles-permissions"}, {"platform_users"}, RootHome)}

HotelAdminRules ==
    {Rule({"/hotel-admin", "/hotel-admin/dashboard"}, {"dashboard"}, "hotel-admin",
          "/dashboard")}

Rules == HotelRules \cup PlatformRules \cup SuperRootRules \cup HotelAdminRules

LoginPages == {"/login", "/pos-restaurant/login", "/super-root/login"}
Unknown == "/elsewhere"
Paths == (UNION {r.paths : r \in Rules}) \cup LoginPages \cup {Unknown}
SuperRootPages == UNION {r.paths : r \in SuperRootRules}

canAccessPath(u, p) ==
    \E r \in Rules : /\ p \in r.paths
                     /\ hasHierarchyAccess(u, r.tier)
                     /\ r.needs = {} \/ \E m \in r.needs : hasPermission(u, m)

PreferredPaths ==
    <<RootHome, "/super-root/platforms", "/super-root/hotels",
      "/super-root/organizations", "/super-root/modules", "/super-root/licenses",
      "/super-root/users", "/super-root/roles-permissions", "/super-root/security",
      "/super-root/maintenance", "/dashboard", "/welcome", "/clients", "/rooms",
      "/smart-rooms", "/exploitation",
      "/operations", "/reservation-planning", "/payments", "/pos-restaurant/dashboard",
      "/reports", "/history/activity-logs", "/account/security", "/users", "/settings",
      "/platform", "/platform/hotels", "/platform/organizations", "/platform/modules",
      "/platform/licenses", "/platform/subscriptions", "/platform/users",
      "/platform/security", "/hotel-admin/dashboard">>

\* There always is one: the POS and the account pages ask for no permission.
getFirstAllowedPath(u) ==
    LET open == {i \in 1..Len(PreferredPaths) : canAccessPath(u, PreferredPaths[i])}
    IN PreferredPaths[CHOOSE i \in open : \A j \in open : i <= j]

\* Mutant: the fallback of the rule is taken unchecked.
FallbackUnchecked(u, p) ==
    LET fallbacks == {r.fallback : r \in {s \in Rules : p \in s.paths}}
    IN IF fallbacks # {} THEN CHOOSE f \in fallbacks : TRUE
       ELSE getFirstAllowedPath(u)

resolveDeniedRedirect(u, p) ==
    LET fallbacks == {r.fallback : r \in {s \in Rules : p \in s.paths}}
        open == {f \in fallbacks : canAccessPath(u, f)}
    IN IF open # {} THEN CHOOSE f \in open : TRUE ELSE getFirstAllowedPath(u)

-----------------------------------------------------------------------------
(* The guards: where a location sends its visitor, or the location itself *)

\* Mutant: the page asked for is forgotten.
LoginTargetForgets(f) == "/dashboard"

LoginTarget(f) == IF f \in {None, "/login"} THEN "/dashboard" ELSE f
PosTarget(f) == IF f \in PosPages THEN f ELSE "/pos-restaurant/tables"

LoginPageGoes(u, p, f) ==
    CASE p = "/login" -> LoginTarget(f)
      [] p = "/pos-restaurant/login" -> IF u.pos THEN PosTarget(f) ELSE p
      [] p = "/super-root/login" -> IF u.super THEN RootHome ELSE p

RequirePosAccess(u, p) ==
    CASE ~u.pos -> "/dashboard"
      [] u.pos /\ p = "/pos-restaurant" -> "/pos-restaurant/dashboard"
      [] OTHER -> p

ProtectedRoute(u, p) ==
    IF ~canAccessPath(u, p) THEN resolveDeniedRedirect(u, p)
    ELSE CASE p = "/" -> "/dashboard"
           [] p = "/super-root" -> RootHome
           [] p = "/hotel-admin" -> "/hotel-admin/dashboard"
           [] OTHER -> p

SignedOutGoes(p) ==
    CASE p \in LoginPages -> p
      [] p \in PosPages -> "/pos-restaurant/login"
      [] p \in SuperRootPages -> "/super-root/login"
      [] OTHER -> "/login"

Goes(u, p, f) ==
    CASE u = Anonymous -> SignedOutGoes(p)
      [] u # Anonymous /\ p \in LoginPages -> LoginPageGoes(u, p, f)
      [] u # Anonymous /\ p \in PosPages -> RequirePosAccess(u, p)
      [] OTHER -> ProtectedRoute(u, p)

\* The ModuleGuard of each page, inside its route.
PageModule(p) ==
    CASE p = "/rooms" -> "rooms"
      [] OTHER -> CHOOSE m \in UNION {r.needs : r \in {s \in Rules : p \in s.paths}} : TRUE
Guarded(p) == \E r \in Rules : p \in r.paths /\ r.needs # {} /\ p \notin SuperRootPages
Shown(u, p) == Guarded(p) => hasPermission(u, PageModule(p))

-----------------------------------------------------------------------------
(* The sidebar *)

\* Mutant: every tier is offered the links of the hotel.
HotelMenuForAll(u) ==
    {p \in UNION {r.paths : r \in HotelRules} :
        canAccessPath(u, p) /\ p \notin {"/", "/welcome"}}

HotelMenu(u) ==
    IF hasHierarchyAccess(u, "platform-admin") THEN {}
    ELSE {p \in {"/dashboard", "/clients", "/billing", "/payments", "/reports",
                 "/history/activity-logs", "/users", "/settings"} :
             hasPermission(u, PageModule(p))}
         \cup (IF hasPermission(u, "operations") THEN
                 {"/exploitation", "/day-use", "/operations", "/operations/all",
                  "/operations/bookings", "/reservation-planning"} ELSE {})
         \cup (IF hasPermission(u, "rooms") \/ hasPermission(u, "operations")
               THEN {"/rooms", "/smart-rooms"} ELSE {})
         \cup {"/pos-restaurant/dashboard", "/account/security"}

PlatformMenu(u) ==
    IF ~hasHierarchyAccess(u, "platform-admin") \/ u.super THEN {}
    ELSE {p \in UNION {r.paths : r \in PlatformRules} : hasPermission(u, PageModule(p))}
         \cup {"/account/security"}

RootMenu(u) ==
    IF ~u.super THEN {}
    ELSE {p \in SuperRootPages \ {"/super-root"} :
             \E r \in SuperRootRules : p \in r.paths /\ r.needs \subseteq u.view}
         \cup {"/account/security"}

Menu(u) == HotelMenu(u) \cup PlatformMenu(u) \cup RootMenu(u)

-----------------------------------------------------------------------------

Settled == Goes(user, path, from) = path

Init ==
    /\ user \in Users \cup {Anonymous}
    /\ path \in Paths /\ from = None
    /\ asked = IF user = Anonymous /\ path \notin LoginPages THEN path ELSE None

\* One redirect; only the guards that miss a session remember the location.
Redirect ==
    /\ ~Settled
    /\ path' = Goes(user, path, from)
    /\ from' = IF user = Anonymous THEN path ELSE None
    /\ UNCHANGED <<user, asked>>

\* A typed address or a link.
Visit(p) ==
    /\ Settled /\ p # path
    /\ path' = p /\ from' = None
    /\ asked' = IF user = Anonymous /\ p \notin LoginPages THEN p ELSE None
    /\ UNCHANGED user

\* The Super Root login page always opens its dashboard.
SignIn(u) ==
    /\ user = Anonymous /\ Settled
    /\ user' = u
    /\ path' = IF path = "/super-root/login" THEN RootHome ELSE path
    /\ UNCHANGED <<from, asked>>

Shell(p) == CASE p \in PosPages -> "/pos-restaurant/login"
              [] p \in SuperRootPages -> "/super-root/login"
              [] OTHER -> "/login"

Logout ==
    /\ user # Anonymous /\ Settled /\ path \notin LoginPages
    /\ user' = Anonymous /\ path' = Shell(path) /\ from' = None /\ asked' = None

\* Mutant: a session that ends leaves the role of its user.
ExpireHalf ==
    /\ user # Anonymous
    /\ user' = [Anonymous EXCEPT !.pos = user.pos]
    /\ asked' = IF path \in LoginPages THEN None ELSE path
    /\ UNCHANGED <<path, from>>

Expire ==
    /\ user # Anonymous
    /\ user' = Anonymous
    /\ asked' = IF path \in LoginPages THEN None ELSE path
    /\ UNCHANGED <<path, from>>

Next ==
    \/ Redirect \/ Logout \/ Expire
    \/ \E p \in Paths : Visit(p)
    \/ \E u \in Users : SignIn(u)

Spec == Init /\ [][Next]_vars
FairSpec == Spec /\ WF_vars(Redirect)

-----------------------------------------------------------------------------
(* Properties *)

TypeOK ==
    /\ user \in Users \cup {Anonymous}
    /\ path \in Paths
    /\ from \in Paths \cup {None}
    /\ asked \in Paths \cup {None}

\* The POS dashboard is where getFirstAllowedPath sends a user who may view none of
\* the pages before it, and RequirePosAccess sends it back when its role is not one
\* of the POS's (RequirePosAccess.jsx:38).
Bounced(u) ==
    ~u.pos /\ getFirstAllowedPath(u) = "/pos-restaurant/dashboard"

\* The redirects of a user the two guards agree about end, wherever it goes
\* (routePermissions.js:298).
RedirectsEndUnlessBounced == []<>(Settled \/ Bounced(user))

\* Its chains are short, as well: a login page, then the guard of the POS, then a page
\* denied or that is only an index.  None of them comes round again, so that three
\* redirects are the most, whichever page is asked for.
RedirectsLeft ==
    CASE Settled -> 0
      [] ~Settled /\ path \in LoginPages -> 3
      [] ~Settled /\ path \in PosPages /\ user # Anonymous /\ ~user.pos -> 2
      [] OTHER -> 1
RedirectsShorten ==
    [][Redirect /\ ~Bounced(user) => RedirectsLeft' < RedirectsLeft]_vars

\* Every chain of redirects ends on a page (routePermissions.test.js, "is redirected
\* away from reports to the first allowed path"; docs/iam_rbac_matrix.md:213).
RedirectsEnd == []<>Settled

\* Whoever asked for a page before signing in is shown that page afterwards when it
\* may see it, through any login page but the Super Root's (LoginPage.jsx:8).
ReturnsToAsked ==
    user # Anonymous /\ Settled /\ path \notin LoginPages /\ asked \notin {None, "/"}
        /\ Goes(user, asked, None) = asked /\ asked \notin SuperRootPages
    => path = asked

\* A link of the menu opens its page, with neither a redirect nor the box of a missing
\* permission: the menu, the route table and the page guards agree, except on the
\* POS, which has its own roles, and on the rooms of a user who views operations
\* without rooms (Sidebar.jsx:301).
MenuLinksOpen ==
    user # Anonymous =>
        \A p \in Menu(user) :
            \/ Goes(user, p, None) = p /\ Shown(user, p)
            \/ p = "/pos-restaurant/dashboard" /\ ~user.pos
            \/ p \in {"/rooms", "/smart-rooms"} /\ ~hasPermission(user, "rooms")
=============================================================================
