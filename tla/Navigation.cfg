SPECIFICATION FairSpec
CONSTANTS
    MCModules = {"dashboard", "clients", "rooms", "operations"}
    MCPlatform = {"platform_security", "platform_hotels"}
    Users <- MCUsers
INVARIANTS
    TypeOK
    ReturnsToAsked
    MenuLinksOpen
PROPERTIES
    RedirectsEndUnlessBounced
    RedirectsShorten
CHECK_DEADLOCK FALSE
