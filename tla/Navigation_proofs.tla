------------------------- MODULE Navigation_proofs --------------------------
(***************************************************************************)
(* Proofs about the route table and its guards, for every set of users.    *)
(***************************************************************************)
EXTENDS Navigation, TLAPS, WellFoundedInduction

-----------------------------------------------------------------------------
(* The route table *)

LEMMA HotelPaths ==
    /\ {"/dashboard", "/", "/welcome", "/clients", "/rooms", "/smart-rooms"} \subseteq Paths
    /\ {"/account/security", "/pos-restaurant", "/pos-restaurant/dashboard",
        "/pos-restaurant/tables"} \subseteq Paths
    <1>1. HotelRules \subseteq Rules
      BY DEF Rules
    <1>2. \A r \in HotelRules : r.paths \subseteq Paths
      BY <1>1 DEF Paths
    <1>3. /\ Rule({"/dashboard"}, {"dashboard"}, "any", "/welcome") \in HotelRules
          /\ Hotel({"/", "/welcome"}, {"dashboard"}) \in HotelRules
          /\ Hotel({"/clients"}, {"clients"}) \in HotelRules
          /\ Hotel({"/rooms"}, {"rooms", "operations"}) \in HotelRules
          /\ Hotel({"/smart-rooms"}, {"rooms"}) \in HotelRules
          /\ Hotel({"/account/security"} \cup PosPages, {}) \in HotelRules
      BY DEF HotelRules
    <1>4. \A paths, needs, tier, fallback : Rule(paths, needs, tier, fallback).paths = paths
      BY DEF Rule
    <1>5. \A paths, needs : Hotel(paths, needs).paths = paths
      BY <1>4 DEF Hotel
    <1>6. {"/dashboard"} \subseteq Paths
      BY <1>2, <1>3, <1>4
    <1>7. {"/", "/welcome"} \subseteq Paths /\ {"/clients"} \subseteq Paths
          /\ {"/rooms"} \subseteq Paths /\ {"/smart-rooms"} \subseteq Paths
          /\ {"/account/security"} \cup PosPages \subseteq Paths
      BY <1>2, <1>3, <1>5
    <1> QED BY <1>6, <1>7 DEF PosPages

LEMMA OtherPaths ==
    /\ RootHome \in Paths /\ "/hotel-admin/dashboard" \in Paths
    /\ LoginPages \subseteq Paths
    <1>1. Root({"/super-root", RootHome}, {"platform_security"}, "/platform") \in Rules
      BY DEF Rules, SuperRootRules
    <1>2. RootHome \in Root({"/super-root", RootHome}, {"platform_security"}, "/platform").paths
      BY DEF Root, Rule
    <1>3. Rule({"/hotel-admin", "/hotel-admin/dashboard"}, {"dashboard"}, "hotel-admin",
               "/dashboard") \in Rules
      BY DEF Rules, HotelAdminRules
    <1>4. "/hotel-admin/dashboard" \in
             Rule({"/hotel-admin", "/hotel-admin/dashboard"}, {"dashboard"}, "hotel-admin",
                  "/dashboard").paths
      BY DEF Rule
    <1> QED BY <1>1, <1>2, <1>3, <1>4 DEF Paths

\* Each guard has its own pages.
LEMMA ShellsApart ==
    /\ LoginPages \cap PosPages = {} /\ LoginPages \cap SuperRootPages = {}
    /\ PosPages \cap SuperRootPages = {}
    <1>1. \A r \in SuperRootRules : r.paths \cap (LoginPages \cup PosPages) = {}
      BY DEF SuperRootRules, Root, Rule, RootHome, LoginPages, PosPages
    <1> QED BY <1>1 DEF SuperRootPages, LoginPages, PosPages

\* A page that lets somebody in is a page of the table.
LEMMA OpenIsPath ==
    ASSUME NEW u, NEW p, canAccessPath(u, p)
    PROVE  p \in Paths
    BY DEF canAccessPath, Paths

\* The pages that ask for no permission.
LEMMA AlwaysOpen ==
    ASSUME NEW u, NEW p \in {"/account/security"} \cup PosPages
    PROVE  canAccessPath(u, p)
    <1> DEFINE free == Hotel({"/account/security"} \cup PosPages, {})
    <1>1. free \in Rules
      BY DEF Rules, HotelRules
    <1>2. free.paths = {"/account/security"} \cup PosPages /\ free.needs = {} /\ free.tier = "any"
      BY DEF Hotel, Rule
    <1>3. hasHierarchyAccess(u, "any")
      BY DEF hasHierarchyAccess
    <1> HIDE DEF free
    <1> QED BY <1>1, <1>2, <1>3 DEF canAccessPath

\* getFirstAllowedPath finds a page of its list, and that page lets the user in.
LEMMA FirstAllowed ==
    ASSUME NEW u
    PROVE  \E i \in 1..Len(PreferredPaths) :
              getFirstAllowedPath(u) = PreferredPaths[i] /\ canAccessPath(u, PreferredPaths[i])
    <1> DEFINE open == {i \in 1..Len(PreferredPaths) : canAccessPath(u, PreferredPaths[i])}
               Before == {p \in Nat \X Nat : p[1] < p[2]}
    <1>1. Len(PreferredPaths) = 34 /\ PreferredPaths[20] = "/pos-restaurant/dashboard"
      BY DEF PreferredPaths
    <1>2. 20 \in open
      BY <1>1, AlwaysOpen DEF PosPages
    <1>3. open \subseteq Nat
      BY <1>1
    <1>4. IsWellFoundedOn(Before, Nat)
      BY NatLessThanWellFounded DEF OpToRel
    <1>5. PICK n \in open : \A k \in open : <<k, n>> \notin Before
      <2> HIDE DEF Before, open
      <2> QED BY <1>2, <1>3, <1>4, WFMin
    <1>6. ASSUME NEW k \in open
          PROVE  n <= k
      <2>1. k \in Nat /\ n \in Nat
        BY <1>3
      <2>2. ~(k < n)
        BY <2>1, <1>5
      <2> QED BY <2>1, <2>2
    <1>7. (CHOOSE i \in open : \A j \in open : i <= j) \in open
      BY <1>5, <1>6
    <1>8. getFirstAllowedPath(u) = PreferredPaths[CHOOSE i \in open : \A j \in open : i <= j]
      BY DEF getFirstAllowedPath
    <1> HIDE DEF Before
    <1> QED BY <1>7, <1>8

LEMMA FirstAllowedIsOpen ==
    ASSUME NEW u
    PROVE  canAccessPath(u, getFirstAllowedPath(u))
    BY FirstAllowed

\* Whoever is denied a page is sent to a page that lets it in, whatever the page and the
\* user: the fallback of its rule if it is open, else the first that is
\* (resolveDeniedRedirect, routePermissions.js:298).
THEOREM DeniedGoesWhereAllowed ==
    ASSUME NEW u, NEW p
    PROVE  canAccessPath(u, resolveDeniedRedirect(u, p))
    BY FirstAllowedIsOpen DEF resolveDeniedRedirect

-----------------------------------------------------------------------------
(* Types *)

LEMMA GoesToPath ==
    ASSUME NEW u, NEW p \in Paths, NEW f \in Paths \cup {None}
    PROVE  Goes(u, p, f) \in Paths
    <1>1. LoginTarget(f) \in Paths /\ PosTarget(f) \in Paths
      BY HotelPaths DEF LoginTarget, PosTarget, PosPages
    <1>2. p \in LoginPages => LoginPageGoes(u, p, f) \in Paths
      BY <1>1, OtherPaths DEF LoginPageGoes, LoginPages
    <1>3. RequirePosAccess(u, p) \in Paths
      BY HotelPaths DEF RequirePosAccess
    <1>4. ProtectedRoute(u, p) \in Paths
      <2>1. resolveDeniedRedirect(u, p) \in Paths
        BY DeniedGoesWhereAllowed, OpenIsPath
      <2> QED BY <2>1, HotelPaths, OtherPaths DEF ProtectedRoute
    <1>5. SignedOutGoes(p) \in Paths
      BY OtherPaths DEF SignedOutGoes, LoginPages
    <1> QED BY <1>2, <1>3, <1>4, <1>5 DEF Goes

LEMMA TypedStep ==
    ASSUME TypeOK, [Next]_vars
    PROVE  TypeOK'
    <1>1. CASE Redirect
      <2>1. path' \in Paths
        BY <1>1, GoesToPath DEF Redirect, TypeOK
      <2> QED BY <1>1, <2>1 DEF Redirect, TypeOK
    <1>2. CASE Logout
      <2>1. Shell(path) \in Paths
        BY OtherPaths DEF Shell, LoginPages
      <2> QED BY <1>2, <2>1 DEF Logout, TypeOK
    <1>3. CASE Expire
      BY <1>3 DEF Expire, TypeOK
    <1>4. CASE \E p \in Paths : Visit(p)
      BY <1>4 DEF Visit, TypeOK
    <1>5. CASE \E u \in Users : SignIn(u)
      BY <1>5, OtherPaths DEF SignIn, TypeOK
    <1>6. CASE UNCHANGED vars
      BY <1>6 DEF vars, TypeOK
    <1> QED BY <1>1, <1>2, <1>3, <1>4, <1>5, <1>6 DEF Next

\* The location, the one kept for the login page and the one asked for are always pages
\* of the route table, wherever the guards and the fallbacks lead.
THEOREM NavigationTyped == Spec => []TypeOK
    <1>1. Init => TypeOK
      BY DEF Init, TypeOK
    <1> QED BY <1>1, TypedStep, PTL DEF Spec

-----------------------------------------------------------------------------
(* The page a visitor asked for *)

\* It is shown, or its login page is and remembers it.
BackTo == path = asked \/ (path = SignedOutGoes(asked) /\ from = asked)

\* A page asked for is never a login page; a visitor is on it or on the way back to it,
\* and so is a user who may see it, unless it signed in at the Super Root's.
AskedKept ==
    /\ asked \notin LoginPages
    /\ user = Anonymous /\ asked # None => BackTo
    /\ user # Anonymous /\ asked \notin {None, "/"} /\ asked \notin SuperRootPages
         /\ Goes(user, asked, None) = asked => BackTo

LEMMA NoneIsNoPage == None \notin LoginPages
    BY DEF None, LoginPages

LEMMA UsersSignIn == Anonymous \notin Users
    <1>1. "anonymous" \notin Modules
      BY DEF Modules
    <1> QED BY <1>1, UsersAssumption DEF Anonymous, UserRecords

LEMMA GoesSignedOut ==
    ASSUME NEW p, NEW f
    PROVE  /\ Goes(Anonymous, p, f) = SignedOutGoes(p)
           /\ SignedOutGoes(p) \in LoginPages
           /\ p \in LoginPages => SignedOutGoes(p) = p
    <1>1. Goes(Anonymous, p, f) = SignedOutGoes(p)
      BY DEF Goes
    <1>2. p \in LoginPages => SignedOutGoes(p) = p
      BY ShellsApart DEF SignedOutGoes
    <1>3. p \notin LoginPages => SignedOutGoes(p) \in LoginPages
      BY DEF SignedOutGoes, LoginPages
    <1> QED BY <1>1, <1>2, <1>3

LEMMA FromIsForLogin ==
    ASSUME NEW u, NEW p, NEW f, p \notin LoginPages
    PROVE  Goes(u, p, f) = Goes(u, p, None)
    BY DEF Goes

LEMMA AskedRedirect ==
    ASSUME AskedKept, Redirect
    PROVE  AskedKept'
    <1>0. user' = user /\ asked' = asked /\ path' = Goes(user, path, from)
          /\ from' = (IF user = Anonymous THEN path ELSE None) /\ path' # path
      BY DEF Redirect, Settled
    <1>1. ASSUME user = Anonymous, asked # None
          PROVE  BackTo'
      <2>1. BackTo
        BY <1>1 DEF AskedKept
      <2>2. path' = SignedOutGoes(path) /\ path \notin LoginPages
        BY <1>0, <1>1, GoesSignedOut
      <2>3. path = asked
        BY <2>1, <2>2, GoesSignedOut DEF BackTo
      <2> QED BY <1>0, <1>1, <2>2, <2>3 DEF BackTo
    <1>2. ASSUME user # Anonymous, asked \notin {None, "/"}, asked \notin SuperRootPages,
                 Goes(user, asked, None) = asked
          PROVE  BackTo'
      <2>1. BackTo /\ asked \notin LoginPages
        BY <1>2 DEF AskedKept
      <2>2. path # asked
        BY <1>0, <1>2, <2>1, FromIsForLogin
      <2>3. path = SignedOutGoes(asked) /\ from = asked
        BY <2>1, <2>2 DEF BackTo
      <2>4. path \in LoginPages
        BY <2>3, GoesSignedOut
      <2>5. path' = LoginPageGoes(user, path, asked)
        BY <1>0, <1>2, <2>3, <2>4, ShellsApart DEF Goes
      <2>6. CASE asked \in PosPages
        <3>1. path = "/pos-restaurant/login"
          BY <2>1, <2>3, <2>6, ShellsApart DEF SignedOutGoes
        <3>2. path' = IF user.pos THEN PosTarget(asked) ELSE path
          BY <2>5, <3>1 DEF LoginPageGoes
        <3> QED BY <1>0, <2>6, <3>2 DEF PosTarget, BackTo
      <2>7. CASE asked \notin PosPages
        <3>1. path = "/login"
          BY <1>2, <2>1, <2>3, <2>7 DEF SignedOutGoes
        <3>2. path' = LoginTarget(asked)
          BY <2>5, <3>1 DEF LoginPageGoes
        <3>3. asked \notin {None, "/login"}
          BY <1>2, <2>1 DEF LoginPages
        <3> QED BY <1>0, <3>2, <3>3 DEF LoginTarget, BackTo
      <2> QED BY <2>6, <2>7
    <1> QED BY <1>0, <1>1, <1>2 DEF AskedKept

LEMMA AskedSignIn ==
    ASSUME AskedKept, NEW u \in Users, SignIn(u)
    PROVE  AskedKept'
    <1>1. user = Anonymous /\ user' = u /\ u # Anonymous /\ asked' = asked /\ from' = from
      BY UsersSignIn DEF SignIn
    <1>2. ASSUME asked \notin {None, "/"}, asked \notin SuperRootPages
          PROVE  BackTo'
      <2>1. BackTo /\ asked \notin LoginPages
        BY <1>1, <1>2 DEF AskedKept
      <2>2. SignedOutGoes(asked) # "/super-root/login"
        BY <1>2, <2>1 DEF SignedOutGoes
      <2>3. path # "/super-root/login"
        BY <2>1, <2>2 DEF BackTo, LoginPages
      <2>4. path' = path
        BY <2>3 DEF SignIn
      <2> QED BY <1>1, <2>1, <2>4 DEF BackTo
    <1> QED BY <1>1, <1>2 DEF AskedKept

LEMMA AskedStep ==
    ASSUME AskedKept, [Next]_vars
    PROVE  AskedKept'
    <1>1. CASE Redirect
      BY <1>1, AskedRedirect
    <1>2. CASE Logout
      BY <1>2, NoneIsNoPage DEF Logout, AskedKept
    <1>3. CASE Expire
      BY <1>3, NoneIsNoPage DEF Expire, AskedKept, BackTo
    <1>4. CASE \E p \in Paths : Visit(p)
      BY <1>4, NoneIsNoPage DEF Visit, AskedKept, BackTo
    <1>5. CASE \E u \in Users : SignIn(u)
      BY <1>5, AskedSignIn
    <1>6. CASE UNCHANGED vars
      BY <1>6 DEF vars, AskedKept, BackTo
    <1> QED BY <1>1, <1>2, <1>3, <1>4, <1>5, <1>6 DEF Next

\* Whoever asked for a page before signing in is shown it afterwards when it may see it,
\* whatever expired or was visited in between and through any login page but the Super
\* Root's (LoginPage.jsx:8).
THEOREM AskedIsReturnedTo == Spec => []ReturnsToAsked
    <1>1. Init => AskedKept
      BY NoneIsNoPage DEF Init, AskedKept, BackTo
    <1>2. AskedKept => ReturnsToAsked
      <2> SUFFICES ASSUME AskedKept, path \notin LoginPages, BackTo
                   PROVE  path = asked
        BY DEF AskedKept, ReturnsToAsked
      <2> QED BY GoesSignedOut DEF BackTo
    <1> QED BY <1>1, <1>2, AskedStep, PTL DEF Spec

-----------------------------------------------------------------------------
(* The menu *)

OperationsLinks == {"/exploitation", "/day-use", "/operations", "/operations/all",
                    "/operations/bookings", "/reservation-planning"}
ModulePages == {"/dashboard", "/clients", "/billing", "/payments", "/reports",
                "/history/activity-logs", "/users", "/settings"}
PlatformPages == {"/platform", "/platform/organizations", "/platform/hotels", "/platform/modules",
                  "/platform/licenses", "/platform/subscriptions", "/platform/users", "/platform/security"}

\* What the table asks for the pages of the menu, in whichever rule names one.
MenuNeeds(r) ==
    /\ "/dashboard" \in r.paths => r.needs = {"dashboard"}
    /\ "/clients" \in r.paths => r.needs = {"clients"}
    /\ "/billing" \in r.paths => r.needs = {"billing"}
    /\ "/payments" \in r.paths => r.needs = {"payments"}
    /\ "/reports" \in r.paths => r.needs = {"reports"}
    /\ "/history/activity-logs" \in r.paths => r.needs = {"history"}
    /\ "/users" \in r.paths => r.needs = {"users"}
    /\ "/settings" \in r.paths => r.needs = {"settings"}
    /\ "/smart-rooms" \in r.paths => r.needs = {"rooms"}
    /\ "/platform" \in r.paths => r.needs = {"platform_security"}
    /\ "/platform/organizations" \in r.paths => r.needs = {"platform_organizations"}
    /\ "/platform/hotels" \in r.paths => r.needs = {"platform_hotels"}
    /\ "/platform/modules" \in r.paths => r.needs = {"platform_modules"}
    /\ "/platform/licenses" \in r.paths => r.needs = {"platform_licenses"}
    /\ "/platform/subscriptions" \in r.paths => r.needs = {"platform_subscriptions"}
    /\ "/platform/users" \in r.paths => r.needs = {"platform_users"}
    /\ "/platform/security" \in r.paths => r.needs = {"platform_security"}
    /\ r.paths \cap OperationsLinks # {} => r.needs = {"operations"}
    /\ r.paths \cap ({"/account/security"} \cup PosPages) # {} => r.needs = {}

LEMMA MenuIsNeeded ==
    ASSUME NEW r \in Rules
    PROVE  MenuNeeds(r)
    <1>1. CASE r \in HotelRules
      BY <1>1 DEF HotelRules, Hotel, Rule, MenuNeeds, OperationsLinks, PosPages
    <1>2. CASE r \in PlatformRules
      BY <1>2 DEF PlatformRules, Platform, Hotel, Rule, MenuNeeds, OperationsLinks, PosPages
    <1>3. CASE r \in SuperRootRules
      BY <1>3 DEF SuperRootRules, Root, RootHome, Rule, MenuNeeds, OperationsLinks, PosPages
    <1>4. CASE r \in HotelAdminRules
      BY <1>4 DEF HotelAdminRules, Rule, MenuNeeds, OperationsLinks, PosPages
    <1> QED BY <1>1, <1>2, <1>3, <1>4 DEF Rules

\* A page that one module opens, for the route and for the guard of the page.
Link(p, m) ==
    /\ \E r \in Rules : p \in r.paths /\ r.tier = "any" /\ r.needs = {m}
    /\ \A r \in Rules : p \in r.paths => r.needs = {m}

\* The rule of a page that the table names with one module.
LEMMA LinkOfRule ==
    ASSUME NEW paths, NEW m, NEW fallback, Rule(paths, {m}, "any", fallback) \in Rules,
           NEW p \in paths, \A r \in Rules : p \in r.paths => r.needs = {m}
    PROVE  Link(p, m)
    <1> DEFINE r == Rule(paths, {m}, "any", fallback)
    <1>1. r.paths = paths /\ r.needs = {m} /\ r.tier = "any"
      BY DEF Rule
    <1> HIDE DEF r
    <1> QED BY <1>1 DEF Link, r

LEMMA HotelLinks ==
    /\ Link("/dashboard", "dashboard")
    /\ Link("/clients", "clients")
    /\ Link("/billing", "billing")
    /\ Link("/payments", "payments")
    /\ Link("/reports", "reports")
    /\ Link("/history/activity-logs", "history")
    /\ Link("/users", "users")
    /\ Link("/settings", "settings")
    /\ Link("/smart-rooms", "rooms")
    /\ \A p \in OperationsLinks : Link(p, "operations")
    <1>0. \A paths, m : Hotel(paths, {m}) = Rule(paths, {m}, "any", "/dashboard")
      BY DEF Hotel
    <1>1. Link("/dashboard", "dashboard")
      <2>1. Rule({"/dashboard"}, {"dashboard"}, "any", "/welcome") \in Rules
        BY DEF Rules, HotelRules
      <2>2. \A r \in Rules : "/dashboard" \in r.paths => r.needs = {"dashboard"}
        BY MenuIsNeeded DEF MenuNeeds
      <2> QED BY <1>0, <2>1, <2>2, LinkOfRule
    <1>2. Link("/clients", "clients")
      <2>1. Hotel({"/clients"}, {"clients"}) \in Rules
        BY DEF Rules, HotelRules
      <2>2. \A r \in Rules : "/clients" \in r.paths => r.needs = {"clients"}
        BY MenuIsNeeded DEF MenuNeeds
      <2> QED BY <1>0, <2>1, <2>2, LinkOfRule
    <1>3. Link("/billing", "billing")
      <2>1. Hotel({"/billing"}, {"billing"}) \in Rules
        BY DEF Rules, HotelRules
      <2>2. \A r \in Rules : "/billing" \in r.paths => r.needs = {"billing"}
        BY MenuIsNeeded DEF MenuNeeds
      <2> QED BY <1>0, <2>1, <2>2, LinkOfRule
    <1>4. Link("/payments", "payments")
      <2>1. Hotel({"/payments"}, {"payments"}) \in Rules
        BY DEF Rules, HotelRules
      <2>2. \A r \in Rules : "/payments" \in r.paths => r.needs = {"payments"}
        BY MenuIsNeeded DEF MenuNeeds
      <2> QED BY <1>0, <2>1, <2>2, LinkOfRule
    <1>5. Link("/reports", "reports")
      <2>1. Hotel({"/reports"}, {"reports"}) \in Rules
        BY DEF Rules, HotelRules
      <2>2. \A r \in Rules : "/reports" \in r.paths => r.needs = {"reports"}
        BY MenuIsNeeded DEF MenuNeeds
      <2> QED BY <1>0, <2>1, <2>2, LinkOfRule
    <1>6. Link("/history/activity-logs", "history")
      <2>1. Hotel({"/history/activity-logs"}, {"history"}) \in Rules
        BY DEF Rules, HotelRules
      <2>2. \A r \in Rules : "/history/activity-logs" \in r.paths => r.needs = {"history"}
        BY MenuIsNeeded DEF MenuNeeds
      <2> QED BY <1>0, <2>1, <2>2, LinkOfRule
    <1>7. Link("/users", "users")
      <2>1. Hotel({"/users", "/admin/utilisateurs"}, {"users"}) \in Rules
        BY DEF Rules, HotelRules
      <2>2. \A r \in Rules : "/users" \in r.paths => r.needs = {"users"}
        BY MenuIsNeeded DEF MenuNeeds
      <2> QED BY <1>0, <2>1, <2>2, LinkOfRule
    <1>8. Link("/settings", "settings")
      <2>1. Hotel({"/settings"}, {"settings"}) \in Rules
        BY DEF Rules, HotelRules
      <2>2. \A r \in Rules : "/settings" \in r.paths => r.needs = {"settings"}
        BY MenuIsNeeded DEF MenuNeeds
      <2> QED BY <1>0, <2>1, <2>2, LinkOfRule
    <1>9. Link("/smart-rooms", "rooms")
      <2>1. Hotel({"/smart-rooms"}, {"rooms"}) \in Rules
        BY DEF Rules, HotelRules
      <2>2. \A r \in Rules : "/smart-rooms" \in r.paths => r.needs = {"rooms"}
        BY MenuIsNeeded DEF MenuNeeds
      <2> QED BY <1>0, <2>1, <2>2, LinkOfRule
    <1>10. ASSUME NEW p \in OperationsLinks
          PROVE  Link(p, "operations")
      <2> DEFINE paths == {"/reservation-planning", "/exploitation", "/day-use", "/operations",
                           "/operations/all", "/operations/bookings", "/operations/stays/:id"}
      <2>1. Hotel(paths, {"operations"}) \in Rules
        BY DEF Rules, HotelRules
      <2>2. \A r \in Rules : p \in r.paths => r.needs = {"operations"}
        BY MenuIsNeeded DEF MenuNeeds
      <2>3. p \in paths
        BY DEF OperationsLinks
      <2> HIDE DEF paths
      <2> QED BY <1>0, <2>1, <2>2, <2>3, LinkOfRule
    <1> QED BY <1>1, <1>2, <1>3, <1>4, <1>5, <1>6, <1>7, <1>8, <1>9, <1>10

LEMMA PlatformLinks ==
    ASSUME NEW p \in PlatformPages
    PROVE  \E m : Link(p, m)
    <1>1. CASE p = "/platform"
      <2>1. Hotel({"/platform"}, {"platform_security"}) \in Rules
        BY DEF Rules, PlatformRules
      <2>2. Hotel({"/platform"}, {"platform_security"}) = Rule({"/platform"}, {"platform_security"}, "any", "/dashboard")
        BY DEF Hotel
      <2>3. \A r \in Rules : "/platform" \in r.paths => r.needs = {"platform_security"}
        BY MenuIsNeeded DEF MenuNeeds
      <2>4. Link("/platform", "platform_security")
        BY <2>1, <2>2, <2>3, LinkOfRule
      <2> QED BY <1>1, <2>4
    <1>2. CASE p = "/platform/organizations"
      <2>1. Platform("/platform/organizations", {"platform_organizations"}) \in Rules
        BY DEF Rules, PlatformRules
      <2>2. Platform("/platform/organizations", {"platform_organizations"}) = Rule({"/platform/organizations"}, {"platform_organizations"}, "any", "/platform")
        BY DEF Platform
      <2>3. \A r \in Rules : "/platform/organizations" \in r.paths => r.needs = {"platform_organizations"}
        BY MenuIsNeeded DEF MenuNeeds
      <2>4. Link("/platform/organizations", "platform_organizations")
        BY <2>1, <2>2, <2>3, LinkOfRule
      <2> QED BY <1>2, <2>4
    <1>3. CASE p = "/platform/hotels"
      <2>1. Platform("/platform/hotels", {"platform_hotels"}) \in Rules
        BY DEF Rules, PlatformRules
      <2>2. Platform("/platform/hotels", {"platform_hotels"}) = Rule({"/platform/hotels"}, {"platform_hotels"}, "any", "/platform")
        BY DEF Platform
      <2>3. \A r \in Rules : "/platform/hotels" \in r.paths => r.needs = {"platform_hotels"}
        BY MenuIsNeeded DEF MenuNeeds
      <2>4. Link("/platform/hotels", "platform_hotels")
        BY <2>1, <2>2, <2>3, LinkOfRule
      <2> QED BY <1>3, <2>4
    <1>4. CASE p = "/platform/modules"
      <2>1. Platform("/platform/modules", {"platform_modules"}) \in Rules
        BY DEF Rules, PlatformRules
      <2>2. Platform("/platform/modules", {"platform_modules"}) = Rule({"/platform/modules"}, {"platform_modules"}, "any", "/platform")
        BY DEF Platform
      <2>3. \A r \in Rules : "/platform/modules" \in r.paths => r.needs = {"platform_modules"}
        BY MenuIsNeeded DEF MenuNeeds
      <2>4. Link("/platform/modules", "platform_modules")
        BY <2>1, <2>2, <2>3, LinkOfRule
      <2> QED BY <1>4, <2>4
    <1>5. CASE p = "/platform/licenses"
      <2>1. Platform("/platform/licenses", {"platform_licenses"}) \in Rules
        BY DEF Rules, PlatformRules
      <2>2. Platform("/platform/licenses", {"platform_licenses"}) = Rule({"/platform/licenses"}, {"platform_licenses"}, "any", "/platform")
        BY DEF Platform
      <2>3. \A r \in Rules : "/platform/licenses" \in r.paths => r.needs = {"platform_licenses"}
        BY MenuIsNeeded DEF MenuNeeds
      <2>4. Link("/platform/licenses", "platform_licenses")
        BY <2>1, <2>2, <2>3, LinkOfRule
      <2> QED BY <1>5, <2>4
    <1>6. CASE p = "/platform/subscriptions"
      <2>1. Platform("/platform/subscriptions", {"platform_subscriptions"}) \in Rules
        BY DEF Rules, PlatformRules
      <2>2. Platform("/platform/subscriptions", {"platform_subscriptions"}) = Rule({"/platform/subscriptions"}, {"platform_subscriptions"}, "any", "/platform")
        BY DEF Platform
      <2>3. \A r \in Rules : "/platform/subscriptions" \in r.paths => r.needs = {"platform_subscriptions"}
        BY MenuIsNeeded DEF MenuNeeds
      <2>4. Link("/platform/subscriptions", "platform_subscriptions")
        BY <2>1, <2>2, <2>3, LinkOfRule
      <2> QED BY <1>6, <2>4
    <1>7. CASE p = "/platform/users"
      <2>1. Platform("/platform/users", {"platform_users"}) \in Rules
        BY DEF Rules, PlatformRules
      <2>2. Platform("/platform/users", {"platform_users"}) = Rule({"/platform/users"}, {"platform_users"}, "any", "/platform")
        BY DEF Platform
      <2>3. \A r \in Rules : "/platform/users" \in r.paths => r.needs = {"platform_users"}
        BY MenuIsNeeded DEF MenuNeeds
      <2>4. Link("/platform/users", "platform_users")
        BY <2>1, <2>2, <2>3, LinkOfRule
      <2> QED BY <1>7, <2>4
    <1>8. CASE p = "/platform/security"
      <2>1. Platform("/platform/security", {"platform_security"}) \in Rules
        BY DEF Rules, PlatformRules
      <2>2. Platform("/platform/security", {"platform_security"}) = Rule({"/platform/security"}, {"platform_security"}, "any", "/platform")
        BY DEF Platform
      <2>3. \A r \in Rules : "/platform/security" \in r.paths => r.needs = {"platform_security"}
        BY MenuIsNeeded DEF MenuNeeds
      <2>4. Link("/platform/security", "platform_security")
        BY <2>1, <2>2, <2>3, LinkOfRule
      <2> QED BY <1>8, <2>4
    <1> QED BY <1>1, <1>2, <1>3, <1>4, <1>5, <1>6, <1>7, <1>8 DEF PlatformPages

\* The page of an open route is shown where it was asked for.
LEMMA OpenStays ==
    ASSUME NEW u, u # Anonymous, NEW p, p \notin LoginPages \cup PosPages,
           p \notin {"/", "/super-root", "/hotel-admin"}, canAccessPath(u, p)
    PROVE  Goes(u, p, None) = p
    <1>1. ProtectedRoute(u, p) = p
      BY DEF ProtectedRoute
    <1> QED BY <1>1 DEF Goes

LEMMA LinkOpens ==
    ASSUME NEW u, u # Anonymous, NEW p, p \notin LoginPages \cup PosPages,
           p \notin {"/", "/super-root", "/hotel-admin", "/rooms"},
           NEW m, Link(p, m), hasPermission(u, PageModule(p))
    PROVE  Goes(u, p, None) = p /\ Shown(u, p)
    <1>1. UNION {r.needs : r \in {s \in Rules : p \in s.paths}} = {m}
      BY DEF Link
    <1>2. PageModule(p) = m
      BY <1>1 DEF PageModule
    <1>3. hasHierarchyAccess(u, "any")
      BY DEF hasHierarchyAccess
    <1>4. canAccessPath(u, p)
      BY <1>2, <1>3 DEF Link, canAccessPath
    <1> QED BY <1>4, OpenStays DEF Shown

LEMMA LinkModule ==
    ASSUME NEW p, p # "/rooms", NEW m, Link(p, m)
    PROVE  PageModule(p) = m
    <1>1. UNION {r.needs : r \in {s \in Rules : p \in s.paths}} = {m}
      BY DEF Link
    <1> QED BY <1>1 DEF PageModule

\* The pages that ask for no permission are shown to whoever reaches them.
LEMMA FreeLinkOpens ==
    ASSUME NEW u, u # Anonymous
    PROVE  /\ Goes(u, "/account/security", None) = "/account/security"
           /\ Shown(u, "/account/security")
           /\ u.pos => Goes(u, "/pos-restaurant/dashboard", None) = "/pos-restaurant/dashboard"
           /\ Shown(u, "/pos-restaurant/dashboard")
    <1>1. \A p \in {"/account/security"} \cup PosPages : ~Guarded(p)
      BY MenuIsNeeded DEF MenuNeeds, Guarded
    <1>2. Goes(u, "/account/security", None) = "/account/security"
      BY AlwaysOpen, OpenStays DEF LoginPages, PosPages
    <1>3. u.pos => RequirePosAccess(u, "/pos-restaurant/dashboard") = "/pos-restaurant/dashboard"
      BY DEF RequirePosAccess
    <1>4. "/pos-restaurant/dashboard" \in PosPages /\ "/pos-restaurant/dashboard" \notin LoginPages
      BY DEF PosPages, LoginPages
    <1>5. u.pos => Goes(u, "/pos-restaurant/dashboard", None) = "/pos-restaurant/dashboard"
      BY <1>3, <1>4 DEF Goes
    <1> QED BY <1>1, <1>2, <1>4, <1>5 DEF Shown

\* What a link of the menu promises.
Opens(u, p) ==
    \/ Goes(u, p, None) = p /\ Shown(u, p)
    \/ p = "/pos-restaurant/dashboard" /\ ~u.pos
    \/ p \in {"/rooms", "/smart-rooms"} /\ ~hasPermission(u, "rooms")

LEMMA RoomsOpens ==
    ASSUME NEW u, u # Anonymous
    PROVE  Opens(u, "/rooms")
    <1>1. SUFFICES ASSUME hasPermission(u, "rooms")
                   PROVE  Goes(u, "/rooms", None) = "/rooms" /\ Shown(u, "/rooms")
      BY DEF Opens
    <1> DEFINE r == Hotel({"/rooms"}, {"rooms", "operations"})
    <1>2. r \in Rules
      BY DEF Rules, HotelRules
    <1>3. r.paths = {"/rooms"} /\ "rooms" \in r.needs /\ r.tier = "any"
      BY DEF Hotel, Rule
    <1>4. hasHierarchyAccess(u, "any")
      BY DEF hasHierarchyAccess
    <1>5. canAccessPath(u, "/rooms")
      <2> HIDE DEF r
      <2> QED BY <1>1, <1>2, <1>3, <1>4 DEF canAccessPath
    <1>6. Goes(u, "/rooms", None) = "/rooms"
      BY <1>5, OpenStays DEF LoginPages, PosPages
    <1>7. PageModule("/rooms") = "rooms"
      BY DEF PageModule
    <1> QED BY <1>1, <1>6, <1>7 DEF Shown

LEMMA HotelMenuOpens ==
    ASSUME NEW u, u # Anonymous, NEW p \in HotelMenu(u)
    PROVE  Opens(u, p)
    <1>1. CASE p \in ModulePages /\ hasPermission(u, PageModule(p))
      <2>1. \E m : Link(p, m)
        BY <1>1, HotelLinks DEF ModulePages
      <2>2. p \notin LoginPages \cup PosPages /\ p \notin {"/", "/super-root", "/hotel-admin", "/rooms"}
        BY <1>1 DEF ModulePages, LoginPages, PosPages
      <2> QED BY <1>1, <2>1, <2>2, LinkOpens DEF Opens
    <1>2. CASE p \in OperationsLinks /\ hasPermission(u, "operations")
      <2>1. p \notin LoginPages \cup PosPages /\ p \notin {"/", "/super-root", "/hotel-admin", "/rooms"}
        BY <1>2 DEF OperationsLinks, LoginPages, PosPages
      <2>2. Link(p, "operations")
        BY <1>2, HotelLinks
      <2> QED BY <1>2, <2>1, <2>2, LinkModule, LinkOpens DEF Opens
    <1>3. CASE p = "/smart-rooms"
      <2>1. "/smart-rooms" \notin LoginPages \cup PosPages
        BY DEF LoginPages, PosPages
      <2>2. Link("/smart-rooms", "rooms")
        BY HotelLinks
      <2> QED BY <1>3, <2>1, <2>2, LinkModule, LinkOpens DEF Opens
    <1>4. CASE p \in {"/pos-restaurant/dashboard", "/account/security"}
      BY <1>4, FreeLinkOpens DEF Opens
    <1> QED BY <1>1, <1>2, <1>3, <1>4, RoomsOpens DEF HotelMenu, ModulePages, OperationsLinks

LEMMA PlatformMenuOpens ==
    ASSUME NEW u, u # Anonymous, NEW p \in PlatformMenu(u)
    PROVE  Opens(u, p)
    <1>1. \A r \in PlatformRules : r.paths \subseteq PlatformPages
      BY DEF PlatformRules, Platform, Hotel, Rule, PlatformPages
    <1>2. CASE p \in PlatformPages /\ hasPermission(u, PageModule(p))
      <2>1. p \notin LoginPages \cup PosPages /\ p \notin {"/", "/super-root", "/hotel-admin", "/rooms"}
        BY <1>2 DEF PlatformPages, LoginPages, PosPages
      <2> QED BY <1>2, <2>1, PlatformLinks, LinkOpens DEF Opens
    <1>3. CASE p = "/account/security"
      BY <1>3, FreeLinkOpens DEF Opens
    <1> QED BY <1>1, <1>2, <1>3 DEF PlatformMenu

LEMMA RootMenuOpens ==
    ASSUME NEW u, u # Anonymous, NEW p \in RootMenu(u)
    PROVE  Opens(u, p)
    <1>1. CASE p = "/account/security"
      BY <1>1, FreeLinkOpens DEF Opens
    <1>2. CASE p # "/account/security"
      <2>1. u.super /\ p \in SuperRootPages \ {"/super-root"}
        BY <1>2 DEF RootMenu
      <2>2. PICK r \in SuperRootRules : p \in r.paths /\ r.needs \subseteq u.view
        BY <1>2 DEF RootMenu
      <2>3. r.tier = "super-root" /\ r.needs # {} /\ r \in Rules
            /\ r.paths \cap {"/", "/hotel-admin"} = {}
        BY <2>2 DEF SuperRootRules, Root, Rule, RootHome, Rules
      <2>4. hasHierarchyAccess(u, "super-root")
        BY <2>1 DEF hasHierarchyAccess
      <2>5. canAccessPath(u, p)
        BY <2>2, <2>3, <2>4 DEF canAccessPath, hasPermission
      <2>6. Goes(u, p, None) = p
        BY <2>1, <2>2, <2>3, <2>5, ShellsApart, OpenStays
      <2>7. Shown(u, p)
        BY <2>1 DEF Shown, Guarded
      <2> QED BY <2>6, <2>7 DEF Opens
    <1> QED BY <1>1, <1>2

\* A link of the menu opens its page for every user, with neither a redirect nor the box
\* of a missing permission: the three lists of the sidebar agree with the route table and
\* with the guard of each page, but for the two exceptions the property names
\* (Sidebar.jsx:301).
THEOREM EveryLinkOpens == Spec => []MenuLinksOpen
    <1>1. ASSUME user # Anonymous, NEW p \in Menu(user)
          PROVE  Opens(user, p)
      BY <1>1, HotelMenuOpens, PlatformMenuOpens, RootMenuOpens DEF Menu
    <1>2. MenuLinksOpen
      BY <1>1 DEF MenuLinksOpen, Opens
    <1> QED BY <1>2, PTL

-----------------------------------------------------------------------------
(* The length of a chain of redirects *)

Indexes == {"/", "/super-root", "/hotel-admin"}
\* Where every chain of redirects is meant to end.
PlainPage(p) == p \notin LoginPages \cup Indexes /\ (p \in PosPages => p = "/pos-restaurant/dashboard")

LEMMA FallbacksArePlain ==
    ASSUME NEW r \in Rules
    PROVE  PlainPage(r.fallback) /\ r.fallback \notin PosPages
    <1> USE DEF PlainPage, Indexes, LoginPages, PosPages, RootHome
    <1>1. CASE r \in HotelRules
      BY <1>1 DEF HotelRules, Hotel, Rule
    <1>2. CASE r \in PlatformRules
      BY <1>2 DEF PlatformRules, Platform, Hotel, Rule
    <1>3. CASE r \in SuperRootRules
      BY <1>3 DEF SuperRootRules, Root, Rule
    <1>4. CASE r \in HotelAdminRules
      BY <1>4 DEF HotelAdminRules, Rule
    <1> QED BY <1>1, <1>2, <1>3, <1>4 DEF Rules

LEMMA PreferredArePlain ==
    ASSUME NEW i \in 1..Len(PreferredPaths)
    PROVE  PlainPage(PreferredPaths[i])
    <1>1. Len(PreferredPaths) = 34
      BY DEF PreferredPaths
    <1>2. i \in 1..34
      BY <1>1
    <1>3. CASE i \in 1..11
      BY <1>3 DEF PreferredPaths, PlainPage, Indexes, LoginPages, PosPages, RootHome
    <1>4. CASE i \in 12..22
      BY <1>4 DEF PreferredPaths, PlainPage, Indexes, LoginPages, PosPages, RootHome
    <1>5. CASE i \in 23..34
      BY <1>5 DEF PreferredPaths, PlainPage, Indexes, LoginPages, PosPages, RootHome
    <1> QED BY <1>2, <1>3, <1>4, <1>5

\* Where a denied user is sent, it stays, but for the user the two guards send around.
LEMMA DeniedStays ==
    ASSUME NEW u, u # Anonymous, ~Bounced(u), NEW p, NEW f
    PROVE  Goes(u, resolveDeniedRedirect(u, p), f) = resolveDeniedRedirect(u, p)
    <1> DEFINE q == resolveDeniedRedirect(u, p)
    <1>1. canAccessPath(u, q)
      BY DeniedGoesWhereAllowed
    <1>2. PlainPage(q) /\ (q \in PosPages => q = getFirstAllowedPath(u))
      <2>1. CASE q = getFirstAllowedPath(u)
        BY <2>1, FirstAllowed, PreferredArePlain
      <2>2. CASE q # getFirstAllowedPath(u)
        <3>1. \E r \in Rules : q = r.fallback
          BY <2>2 DEF resolveDeniedRedirect
        <3> QED BY <3>1, FallbacksArePlain
      <2> QED BY <2>1, <2>2
    <1>3. q \in PosPages => u.pos /\ q = "/pos-restaurant/dashboard"
      BY <1>2 DEF PlainPage, Bounced
    <1>4. q \notin LoginPages \cup Indexes
      BY <1>2 DEF PlainPage
    <1> HIDE DEF q
    <1>5. CASE q \in PosPages
      <2>1. Goes(u, q, f) = RequirePosAccess(u, q)
        BY <1>4, <1>5 DEF Goes
      <2>2. RequirePosAccess(u, q) = q
        BY <1>3, <1>5 DEF RequirePosAccess
      <2> QED BY <2>1, <2>2 DEF q
    <1>6. CASE q \notin PosPages
      <2>1. Goes(u, q, f) = ProtectedRoute(u, q)
        BY <1>4, <1>6 DEF Goes
      <2>2. ProtectedRoute(u, q) = q
        BY <1>1, <1>4 DEF ProtectedRoute, Indexes
      <2> QED BY <2>1, <2>2 DEF q
    <1> QED BY <1>5, <1>6

\* An index opens its page: one rule decides on both.
LEMMA IndexesOpen ==
    ASSUME NEW u, u # Anonymous, NEW p \in Indexes, canAccessPath(u, p), NEW f
    PROVE  /\ ProtectedRoute(u, p) # p
           /\ Goes(u, ProtectedRoute(u, p), f) = ProtectedRoute(u, p)
    <1>1. \A r \in Rules : /\ "/" \in r.paths => r.needs = {"dashboard"}
                           /\ "/super-root" \in r.paths => RootHome \in r.paths
                           /\ "/hotel-admin" \in r.paths => "/hotel-admin/dashboard" \in r.paths
      <2>1. \A r \in HotelRules \cup PlatformRules :
               /\ "/" \in r.paths => r.needs = {"dashboard"}
               /\ {"/super-root", "/hotel-admin"} \cap r.paths = {}
        BY DEF HotelRules, PlatformRules, Hotel, Platform, Rule, PosPages
      <2>2. \A r \in SuperRootRules :
               /\ "/super-root" \in r.paths => RootHome \in r.paths
               /\ {"/", "/hotel-admin"} \cap r.paths = {}
        BY DEF SuperRootRules, Root, Rule, RootHome
      <2>3. \A r \in HotelAdminRules :
               /\ "/hotel-admin" \in r.paths => "/hotel-admin/dashboard" \in r.paths
               /\ {"/", "/super-root"} \cap r.paths = {}
        BY DEF HotelAdminRules, Rule
      <2> QED BY <2>1, <2>2, <2>3 DEF Rules
    <1>2. hasPermission(u, "dashboard") => canAccessPath(u, "/dashboard")
      <2> DEFINE d == Rule({"/dashboard"}, {"dashboard"}, "any", "/welcome")
      <2>1. d \in Rules
        BY DEF Rules, HotelRules
      <2>2. d.paths = {"/dashboard"} /\ d.needs = {"dashboard"} /\ d.tier = "any"
        BY DEF Rule
      <2>3. hasHierarchyAccess(u, "any")
        BY DEF hasHierarchyAccess
      <2> HIDE DEF d
      <2> QED BY <2>1, <2>2, <2>3 DEF canAccessPath
    <1> DEFINE q == ProtectedRoute(u, p)
    <1>3. q = CASE p = "/" -> "/dashboard"
                [] p = "/super-root" -> RootHome
                [] p = "/hotel-admin" -> "/hotel-admin/dashboard"
      BY DEF ProtectedRoute, Indexes
    <1>4. canAccessPath(u, q)
      <2>1. CASE p = "/"
        BY <2>1, <1>1, <1>2, <1>3 DEF canAccessPath
      <2>2. CASE p # "/"
        BY <2>2, <1>1, <1>3 DEF canAccessPath, Indexes
      <2> QED BY <2>1, <2>2
    <1>5. q \notin LoginPages \cup PosPages \cup Indexes
      BY <1>3 DEF LoginPages, PosPages, Indexes, RootHome
    <1> HIDE DEF q
    <1>6. Goes(u, q, f) = ProtectedRoute(u, q)
      BY <1>5 DEF Goes
    <1>7. ProtectedRoute(u, q) = q
      BY <1>4, <1>5 DEF ProtectedRoute, Indexes
    <1> QED BY <1>5, <1>6, <1>7 DEF q

\* What a visitor came from is not a login page.
FromIsPage == from \notin LoginPages

LEMMA FromStep ==
    ASSUME FromIsPage, [Next]_vars
    PROVE  FromIsPage'
    <1>1. CASE Redirect
      <2>1. user = Anonymous => path \notin LoginPages
        BY <1>1, GoesSignedOut DEF Redirect, Settled
      <2> QED BY <1>1, <2>1, NoneIsNoPage DEF Redirect, FromIsPage
    <1> QED BY <1>1, NoneIsNoPage DEF Next, Logout, Expire, Visit, SignIn, vars, FromIsPage

LEMMA SignedOutOnce ==
    ASSUME user = Anonymous, Redirect
    PROVE  RedirectsLeft' < RedirectsLeft
    <1>1. path' = SignedOutGoes(path) /\ user' = user
      BY GoesSignedOut DEF Redirect
    <1>2. path' \in LoginPages /\ path \notin LoginPages
      BY <1>1, GoesSignedOut DEF Redirect, Settled
    <1>3. Settled'
      BY <1>1, <1>2, GoesSignedOut DEF Settled
    <1>4. ~Settled
      BY DEF Redirect
    <1> QED BY <1>2, <1>3, <1>4 DEF RedirectsLeft

\* From a page that is neither a login page nor refused by the guard of the POS.
LEMMA GuardedOnce ==
    ASSUME user # Anonymous, Redirect, ~Bounced(user), path \notin LoginPages,
           path \notin PosPages \/ user.pos
    PROVE  Settled'
    <1>1. path' = Goes(user, path, from) /\ user' = user /\ from' = None /\ path' # path
      BY DEF Redirect, Settled
    <1>2. CASE path \in PosPages
      <2>1. path' = RequirePosAccess(user, path)
        BY <1>1, <1>2 DEF Goes
      <2>2. path' = "/pos-restaurant/dashboard"
        BY <2>1, <1>1, <1>2 DEF RequirePosAccess
      <2>3. Goes(user, path', None) = RequirePosAccess(user, path')
        BY <2>2, ShellsApart DEF Goes, PosPages
      <2>4. RequirePosAccess(user, path') = path'
        BY <2>2, <1>2 DEF RequirePosAccess
      <2> QED BY <1>1, <2>3, <2>4 DEF Settled
    <1>3. CASE path \notin PosPages
      <2>1. path' = ProtectedRoute(user, path)
        BY <1>1, <1>3 DEF Goes
      <2>2. CASE ~canAccessPath(user, path)
        <3>1. path' = resolveDeniedRedirect(user, path)
          BY <2>1, <2>2 DEF ProtectedRoute
        <3> QED BY <1>1, <3>1, DeniedStays DEF Settled
      <2>3. CASE canAccessPath(user, path)
        <3>1. path \in Indexes
          BY <1>1, <2>1, <2>3 DEF ProtectedRoute, Indexes
        <3>2. Goes(user, ProtectedRoute(user, path), None) = ProtectedRoute(user, path)
          BY <2>3, <3>1, IndexesOpen
        <3> QED BY <1>1, <2>1, <3>2 DEF Settled
      <2> QED BY <2>2, <2>3
    <1> QED BY <1>2, <1>3

LEMMA RedirectsDescend ==
    ASSUME FromIsPage, Redirect, ~Bounced(user)
    PROVE  RedirectsLeft' < RedirectsLeft
    <1>1. ~Settled /\ path' = Goes(user, path, from) /\ user' = user
      BY DEF Redirect
    <1>2. CASE user = Anonymous
      BY <1>2, SignedOutOnce
    <1>3. ASSUME user # Anonymous, path \in LoginPages
          PROVE  RedirectsLeft' < RedirectsLeft
      <2>1. Goes(user, path, from) = LoginPageGoes(user, path, from)
        BY <1>3, ShellsApart DEF Goes
      <2>2. path' = LoginPageGoes(user, path, from) /\ path' # path
        BY <1>1, <2>1 DEF Settled
      <2>3. path' \notin LoginPages
        <3>1. PosTarget(from) \notin LoginPages /\ LoginTarget(from) \notin LoginPages
          BY ShellsApart DEF PosTarget, LoginTarget, FromIsPage, LoginPages, PosPages
        <3>2. RootHome \notin LoginPages
          BY DEF RootHome, LoginPages
        <3>3. CASE path = "/login"
          BY <2>2, <3>1, <3>3 DEF LoginPageGoes
        <3>4. CASE path = "/pos-restaurant/login"
          <4>1. path' = PosTarget(from) \/ path' = path
            BY <2>2, <3>4 DEF LoginPageGoes
          <4> QED BY <4>1, <2>2, <3>1
        <3>5. CASE path = "/super-root/login"
          <4>1. path' = RootHome \/ path' = path
            BY <2>2, <3>5 DEF LoginPageGoes
          <4> QED BY <4>1, <2>2, <3>2
        <3> QED BY <1>3, <3>3, <3>4, <3>5 DEF LoginPages
      <2> QED BY <1>1, <1>3, <2>3, ShellsApart DEF RedirectsLeft
    <1>4. ASSUME user # Anonymous, path \notin LoginPages, path \in PosPages, ~user.pos
          PROVE  RedirectsLeft' < RedirectsLeft
      <2>1. path' = "/dashboard"
        BY <1>1, <1>4 DEF Goes, RequirePosAccess
      <2>2. path' \notin LoginPages \cup PosPages
        BY <2>1 DEF LoginPages, PosPages
      <2> QED BY <1>1, <1>4, <2>2 DEF RedirectsLeft
    <1>5. ASSUME user # Anonymous, path \notin LoginPages, path \notin PosPages \/ user.pos
          PROVE  RedirectsLeft' < RedirectsLeft
      <2>1. Settled'
        BY <1>5, GuardedOnce
      <2> QED BY <1>1, <1>5, <2>1 DEF RedirectsLeft
    <1> QED BY <1>2, <1>3, <1>4, <1>5

\* Every redirect of a user the two guards agree about brings it nearer to a page that
\* opens: no table of rights, no page asked for and no page remembered sends it around
\* (routePermissions.js:298, RequirePosAccess.jsx:38).
THEOREM ChainsOfRedirectsEnd == Spec => RedirectsShorten
    <1>1. Init => FromIsPage
      BY NoneIsNoPage DEF Init, FromIsPage
    <1>2. FromIsPage /\ [Next]_vars
            => [Redirect /\ ~Bounced(user) => RedirectsLeft' < RedirectsLeft]_vars
      BY RedirectsDescend
    <1> QED BY <1>1, <1>2, FromStep, PTL DEF Spec, RedirectsShorten
=============================================================================
