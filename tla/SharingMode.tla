---------------------------- MODULE SharingMode ----------------------------
(***************************************************************************)
(* core/sharing.py: the sharing mode and the client, as the settings page   *)
(* changes them on a running app (SharingCoordinator.apply_mode).  Shared   *)
(* by SharingGate (what comes in and the REST calls) and SharingSends (what *)
(* goes out); HubClient is the inside of the client.                        *)
(***************************************************************************)
VARIABLES
  mode,      \* settings.sharing.mode
  launch,    \* _launch_mode
  client,    \* _client is not None
  applying   \* apply_mode is between its test and the drop

modeVars == <<mode, launch, client, applying>>

Mode == {"off", "pigparse", "nparse"}

ModeTypeOK == /\ {mode, launch} \subseteq Mode
              /\ client \in BOOLEAN /\ applying \in BOOLEAN

\* build_backend: a client for the mode of the launch, none for "off".
ModeInit == launch \in Mode /\ mode = launch /\ client = (launch # "off") /\ applying = FALSE

\* The Sharing page stores the mode; apply_mode compares it with the launch mode.
SetMode(m) ==
  /\ ~applying /\ mode' = m
  /\ applying' = (m # launch /\ client)
  /\ UNCHANGED <<launch, client>>

\* The client was stopped; now it is dropped.
DropClient ==
  /\ applying /\ applying' = FALSE /\ client' = FALSE
  /\ UNCHANGED <<mode, launch>>
=============================================================================
