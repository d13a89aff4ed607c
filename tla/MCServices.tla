----------------------------- MODULE MCServices -----------------------------
(***************************************************************************)
(* The components around the driver, each by itself: a behaviour of         *)
(* ServicesSpec is a behaviour of the one component "part" names, while the *)
(* others stay in their initial states.  One run checks them all.           *)
(***************************************************************************)
EXTENDS HubClient, SharingGate, PluginHost, Fights, CHChain, DumpWatch, DumpUploads,
        Speech, PluginInstall, TriggerTimers, LocationServer

VARIABLE part

servicesVars == <<part, hubVars, gateVars, hostVars, fightVars, chainVars, watchVars, uploadVars,
                  speechVars, installVars, triggerVars, locationVars>>

Part == {"hub", "gate", "host", "fights", "chain", "watch", "uploads", "speech", "install",
         "triggers", "location"}

\* A component that is not the one of the behaviour has one initial state.
IdleGate    == launch = "pigparse"
IdleHost    == code = {}
IdleFights  == \A w \in Window : window <= w
IdleWatch   == file = None /\ toggles = [imports |-> TRUE, updates |-> TRUE]
IdleUploads == dest = "off"
IdleTriggers == settings = [t \in Trigger |-> [restart |-> "RestartTimer", repeats |-> FALSE]]

ServicesInit ==
  /\ part \in Part
  /\ HubInit /\ GateInit /\ HostInit /\ FightsInit /\ ChainInit /\ WatchInit /\ UploadsInit
  /\ SpeechInit /\ InstallInit /\ TriggersInit /\ LocationInit
  /\ part # "gate" => IdleGate
  /\ part # "host" => IdleHost
  /\ part # "fights" => IdleFights
  /\ part # "watch" => IdleWatch
  /\ part # "uploads" => IdleUploads
  /\ part # "triggers" => IdleTriggers

NoHub      == UNCHANGED hubVars
NoGate     == UNCHANGED gateVars
NoHost     == UNCHANGED hostVars
NoFights   == UNCHANGED fightVars
NoDumps    == UNCHANGED <<watchVars, uploadVars>>
NoChain    == UNCHANGED chainVars
NoOthers   == UNCHANGED <<speechVars, installVars, triggerVars, locationVars>>

ServicesNext ==
  /\ UNCHANGED part
  /\ \/ part = "hub" /\ HubNext
        /\ NoGate /\ NoHost /\ NoFights /\ NoChain /\ NoDumps /\ NoOthers
     \/ part = "gate" /\ GateNext
        /\ NoHub /\ NoHost /\ NoFights /\ NoChain /\ NoDumps /\ NoOthers
     \/ part = "host" /\ HostNext
        /\ NoHub /\ NoGate /\ NoFights /\ NoChain /\ NoDumps /\ NoOthers
     \/ part = "fights" /\ FightsNext
        /\ NoHub /\ NoGate /\ NoHost /\ NoChain /\ NoDumps /\ NoOthers
     \/ part = "chain" /\ ChainNext
        /\ NoHub /\ NoGate /\ NoHost /\ NoFights /\ NoDumps /\ NoOthers
     \/ part = "watch" /\ WatchNext
        /\ NoHub /\ NoGate /\ NoHost /\ NoFights /\ NoChain /\ UNCHANGED uploadVars /\ NoOthers
     \/ part = "uploads" /\ UploadsNext
        /\ NoHub /\ NoGate /\ NoHost /\ NoFights /\ NoChain /\ UNCHANGED watchVars /\ NoOthers
     \/ part = "speech" /\ SpeechNext
        /\ NoHub /\ NoGate /\ NoHost /\ NoFights /\ NoChain /\ NoDumps
        /\ UNCHANGED <<installVars, triggerVars, locationVars>>
     \/ part = "install" /\ InstallNext
        /\ NoHub /\ NoGate /\ NoHost /\ NoFights /\ NoChain /\ NoDumps
        /\ UNCHANGED <<speechVars, triggerVars, locationVars>>
     \/ part = "triggers" /\ TriggersNext
        /\ NoHub /\ NoGate /\ NoHost /\ NoFights /\ NoChain /\ NoDumps
        /\ UNCHANGED <<speechVars, installVars, locationVars>>
     \/ part = "location" /\ LocationNext
        /\ NoHub /\ NoGate /\ NoHost /\ NoFights /\ NoChain /\ NoDumps
        /\ UNCHANGED <<speechVars, installVars, triggerVars>>

\* HubFairness, where an idle client has no step to owe, and GateFairness, where an
\* idle tick would.
ServicesFairness ==
  /\ HubFairness
  /\ WF_gateVars(part = "gate" /\ TickStep) /\ SF_gateVars(part = "gate" /\ WorkerStep)

ServicesSpec == ServicesInit /\ [][ServicesNext]_servicesVars /\ ServicesFairness

\* Only the component of the behaviour is looked at.
ServicesTypeOK ==
  CASE part = "hub"     -> HubTypeOK
    [] part = "gate"    -> GateTypeOK
    [] part = "host"    -> HostTypeOK
    [] part = "fights"  -> FightsTypeOK
    [] part = "chain"   -> ChainTypeOK
    [] part = "watch"   -> WatchTypeOK
    [] part = "uploads" -> UploadsTypeOK
    [] part = "speech"  -> SpeechTypeOK
    [] part = "install" -> InstallTypeOK
    [] part = "location" -> LocationTypeOK
    [] OTHER            -> TriggersTypeOK
=============================================================================
