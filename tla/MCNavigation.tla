---------------------------- MODULE MCNavigation ----------------------------
(* Users of every tier, with the view permissions the menu and guards tell apart. *)
EXTENDS Navigation

CONSTANTS MCModules,   \* the hotel modules a hotel user may be denied
          MCPlatform   \* the platform modules a platform user may be denied

MCUser(super, platform, hotel_admin, pos, view) ==
    [super |-> super, platform |-> platform, hotel_admin |-> hotel_admin,
     pos |-> pos, view |-> view]

HotelUsers == {MCUser(FALSE, FALSE, a, p, v) :
                  a \in BOOLEAN, p \in BOOLEAN, v \in SUBSET MCModules}
PlatformUsers == {MCUser(s, TRUE, FALSE, TRUE, v) :
                     s \in BOOLEAN, v \in SUBSET MCPlatform}
MCUsers == HotelUsers \cup PlatformUsers
=============================================================================
