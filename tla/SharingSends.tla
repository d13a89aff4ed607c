---------------------------- MODULE SharingSends ----------------------------
(***************************************************************************)
(* core/sharing.py: what SharingCoordinator sends of the player's position, *)
(* on the driver thread: at once for a /loc, every 10 s as a keepalive, and *)
(* along with a dragon roar.  The GUI changes the mode and, per character,  *)
(* map_location_sharing.                                                    *)
(*                                                                          *)
(* A position is named by the character that typed /loc.  The 10 s, the     *)
(* 5 idle minutes and the roar window pass by steps of their own.           *)
(***************************************************************************)
EXTENDS SharingMode

CONSTANTS
  Char,      \* characters with a profile
  NoChar     \* no character, or no location

VARIABLES
  pref,      \* map_location_sharing of each profile, "off" or not
  player,    \* the active character
  lastLoc,   \* _last_loc, by who typed it
  due,       \* 10 s since _last_send_time
  idle,      \* 5 min since the last "You..." line
  roared,    \* a roar within ROAR_DEDUPE_SECONDS
  wire       \* the last position sent: in what, under whom, whose, and the setting then

sendsVars == <<modeVars, pref, player, lastLoc, due, idle, roared, wire>>

SendsInit ==
  /\ ModeInit
  /\ pref = [c \in Char |-> "on"] /\ player = NoChar
  /\ lastLoc = NoChar /\ due = FALSE /\ idle = FALSE /\ roared = FALSE
  /\ wire = [frame |-> "none", as |-> NoChar, of |-> NoChar, pref |-> "on"]

-----------------------------------------------------------------------------
(* The GUI, and time                                                        *)

StoresMode ==
  /\ \E m \in Mode : SetMode(m)
  /\ UNCHANGED <<pref, player, lastLoc, due, idle, roared, wire>>

\* apply_mode takes the keepalive away with the client.
StopsSharing ==
  /\ DropClient
  /\ lastLoc' = NoChar /\ due' = FALSE
  /\ UNCHANGED <<pref, player, idle, roared, wire>>

\* The Character page of the settings.
SetPref(c, p) ==
  /\ pref' = [pref EXCEPT ![c] = p]
  /\ UNCHANGED <<modeVars, player, lastLoc, due, idle, roared, wire>>

TenSeconds  == lastLoc # NoChar /\ due' = TRUE /\ UNCHANGED <<idle, roared>>
FiveMinutes == idle' = TRUE /\ UNCHANGED <<due, roared>>
RoarAges    == roared' = FALSE /\ UNCHANGED <<due, idle>>

TimePasses == (TenSeconds \/ FiveMinutes \/ RoarAges)
              /\ UNCHANGED <<modeVars, pref, player, lastLoc, wire>>

-----------------------------------------------------------------------------
(* The driver                                                               *)

\* _location_sharing_allowed
LocationAllowed == mode # "off" /\ client /\ player # NoChar /\ pref[player] # "off"

\* ActivePlayer.reset_for: the coordinator is not told.
SwitchTo(c) == c # player /\ player' = c
               /\ UNCHANGED <<modeVars, pref, lastLoc, due, idle, roared, wire>>

\* _send_location
SendLocation(of) ==
  IF client /\ player # NoChar
  THEN /\ wire' = [frame |-> "location", as |-> player, of |-> of, pref |-> pref[player]]
       /\ lastLoc' = of /\ due' = FALSE
  ELSE UNCHANGED <<wire, lastLoc, due>>

\* A "Your Location is" line: _on_location.
LocLine ==
  /\ player # NoChar
  /\ IF LocationAllowed THEN SendLocation(player) ELSE UNCHANGED <<wire, lastLoc, due>>
  /\ idle' = FALSE
  /\ UNCHANGED <<modeVars, pref, player, roared>>

\* _on_camp
CampLine == lastLoc' = NoChar /\ due' = FALSE
            /\ UNCHANGED <<modeVars, pref, player, idle, roared, wire>>

\* _on_dragon_roar: the last position rides along.
RoarLine ==
  /\ client /\ mode # "off" /\ player # NoChar /\ ~roared
  /\ roared' = TRUE
  /\ wire' = IF lastLoc = NoChar THEN wire
             ELSE [frame |-> "roar", as |-> player, of |-> lastLoc, pref |-> pref[player]]
  /\ UNCHANGED <<modeVars, pref, player, lastLoc, due, idle>>

\* _keepalive
Keepalive ==
  /\ lastLoc # NoChar /\ due
  /\ \/ idle /\ lastLoc' = NoChar /\ due' = FALSE /\ UNCHANGED wire
     \/ ~idle /\ SendLocation(lastLoc)
  /\ UNCHANGED <<modeVars, pref, player, idle, roared>>

SendsNext ==
  \/ StoresMode \/ StopsSharing \/ TimePasses
  \/ \E c \in Char : (\E p \in {"on", "off"} : SetPref(c, p)) \/ SwitchTo(c)
  \/ LocLine \/ CampLine \/ RoarLine \/ Keepalive

SendsSpec == SendsInit /\ [][SendsNext]_sendsVars

\* "off" for a character's map sharing gates its location sends entirely: no
\* location frame goes out under a character with that setting.
OffGatesLocation == wire.frame = "location" => wire.pref # "off"
=============================================================================
