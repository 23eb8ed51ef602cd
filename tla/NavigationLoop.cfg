SPECIFICATION FairSpec
CONSTANTS
    MCModules = {"dashboard", "clients"}
    MCPlatform = {"platform_security"}
    Users <- MCUsers
PROPERTY
    RedirectsEnd
CHECK_DEADLOCK FALSE
