--------------------------- MODULE LocationServer ---------------------------
(***************************************************************************)
(* locationserver/location_server.py: the self-hosted server that collects  *)
(* positions and way-points by group and zone.  One asyncio thread; nothing *)
(* inside a handler suspends, so a frame is one step.  A player's app may   *)
(* reconnect before the server noticed that the old connection is dead, and *)
(* the name on a connection changes with the character.                     *)
(*                                                                          *)
(* Coordinates and the text of a broadcast are left out: a dot is a group,  *)
(* a zone and a name.  A second, and a way-point's hour, pass by steps of   *)
(* their own.                                                               *)
(***************************************************************************)
EXTENDS Naturals, FiniteSets

CONSTANTS
  Conn,         \* websockets
  Player,       \* names as capitalize() leaves them
  NoPlayer,     \* None
  Group,        \* group keys
  NoGroup,      \* None
  Zone,         \* zone names as lower() leaves them
  MaxWaypoints  \* bound: way-points at a time

ASSUME LocationAssumption ==
  /\ IsFiniteSet(Conn) /\ IsFiniteSet(Zone)
  /\ NoPlayer \notin Player /\ NoGroup \notin Group /\ MaxWaypoints \in Nat

VARIABLES
  online,     \* the keys of PLAYERS
  identity,   \* PLAYERS: the name and group last heard on a connection
  dots,       \* PLAYER_LOCS
  waypoints,  \* WAYPOINT_LOCS; "over" once past their expiry
  recent,     \* LAST_SENT: zones of groups told less than a second ago
  leftBehind  \* dots whose connection took another name with a way-point

locationVars == <<online, identity, dots, waypoints, recent, leftBehind>>

Unnamed  == [player |-> NoPlayer, group |-> NoGroup]
Identity == [player : Player \cup {NoPlayer}, group : Group \cup {NoGroup}]
Dot      == [group : Group, zone : Zone, player : Player]
Waypoint == [group : Group, zone : Zone, player : Player, over : BOOLEAN]

LocationTypeOK ==
  /\ online \subseteq Conn /\ identity \in [Conn -> Identity]
  /\ dots \subseteq Dot /\ leftBehind \subseteq dots
  /\ waypoints \subseteq Waypoint /\ recent \subseteq Group \X Zone

LocationInit ==
  /\ online = {} /\ identity = [c \in Conn |-> Unnamed]
  /\ dots = {} /\ waypoints = {} /\ recent = {} /\ leftBehind = {}

-----------------------------------------------------------------------------
Of(d) == [player |-> d.player, group |-> d.group]

\* remove_player_from_zones
Without(who) == {d \in dots : Of(d) # who}
WithoutElsewhere(who, z) == {d \in dots : Of(d) # who \/ d.zone = z}

\* notify_location: at most once a second for a zone; clears what has expired.
NotifyLocation(g, z, marks) ==
  /\ recent' = recent \cup {<<g, z>>}
  /\ waypoints' = IF <<g, z>> \in recent THEN marks ELSE {w \in marks : ~w.over}

\* register
Register(c) ==
  /\ c \notin online /\ online' = online \cup {c}
  /\ identity' = [identity EXCEPT ![c] = Unnamed]
  /\ UNCHANGED <<dots, waypoints, recent, leftBehind>>

\* Wrong variant: a new name on a connection clears that name, not the one it had.
KeptByMoveNew(c, who, z) ==
  IF identity[c] # who THEN Without(who) ELSE WithoutElsewhere(who, z)

\* A new name on a connection clears the old one; the same one leaves its other zones.
KeptByMove(c, who, z) ==
  IF identity[c] # who THEN Without(identity[c]) ELSE WithoutElsewhere(who, z)

\* A location frame: update_data_for_player, notify_location.
Location(c, g, z, p) ==
  LET who == [player |-> p, group |-> g]
      dot == [group |-> g, zone |-> z, player |-> p]
  IN /\ c \in online
     /\ dots' = KeptByMove(c, who, z) \cup {dot}
     /\ leftBehind' = (leftBehind \cap KeptByMove(c, who, z)) \ {dot}
     /\ identity' = [identity EXCEPT ![c] = who]
     /\ NotifyLocation(g, z, waypoints)
     /\ UNCHANGED online

\* A way-point frame: update_data_for_waypoint, notify_location.  It renames the
\* connection and leaves the dots of its old name where they are.
SetWaypoint(c, g, z, p) ==
  LET who  == [player |-> p, group |-> g]
      mark == [group |-> g, zone |-> z, player |-> p, over |-> FALSE]
  IN /\ c \in online /\ Cardinality(waypoints \cup {mark}) <= MaxWaypoints
     /\ identity' = [identity EXCEPT ![c] = who]
     /\ leftBehind' = IF identity[c] = who THEN leftBehind
                  ELSE leftBehind \cup {d \in dots : Of(d) = identity[c]}
     /\ NotifyLocation(g, z, waypoints \cup {mark})
     /\ UNCHANGED <<online, dots>>

\* unregister: the connection was closed, lost, or sent a frame that raised.
Unregister(c) ==
  /\ c \in online /\ online' = online \ {c}
  /\ dots' = Without(identity[c]) /\ leftBehind' = leftBehind \cap dots'
  /\ identity' = [identity EXCEPT ![c] = Unnamed]
  /\ UNCHANGED <<waypoints, recent>>

SecondPasses(g, z) ==
  /\ recent' = recent \ {<<g, z>>}
  /\ UNCHANGED <<online, identity, dots, waypoints, leftBehind>>

WaypointExpires(w) ==
  /\ waypoints' = (waypoints \ {w}) \cup {[w EXCEPT !.over = TRUE]}
  /\ UNCHANGED <<online, identity, dots, recent, leftBehind>>

LocationNext ==
  \/ \E c \in Conn : Register(c) \/ Unregister(c)
  \/ \E c \in Conn, g \in Group, z \in Zone, p \in Player :
       Location(c, g, z, p) \/ SetWaypoint(c, g, z, p)
  \/ \E g \in Group, z \in Zone : SecondPasses(g, z)
  \/ \E w \in waypoints : WaypointExpires(w)

LocationSpec == LocationInit /\ [][LocationNext]_locationVars

-----------------------------------------------------------------------------
ZonesOf(who) == {z \in Zone : \E d \in dots \ leftBehind : d.zone = z /\ Of(d) = who}
SendersOf(who) == {c \in online : identity[c] = who}

\* A player stands in at most as many zones as connections send that name, and
\* in none once the last of them is gone, however they reconnect and switch
\* characters; only a dot orphaned by a way-point under a new name may stay
\* (update_data_for_player, remove_player_from_zones).
ZonesHaveSenders ==
  \A who \in Identity : Cardinality(ZonesOf(who)) <= Cardinality(SendersOf(who))
=============================================================================
