----------------------------- MODULE PluginHost -----------------------------
(***************************************************************************)
(* core/plugins/host.py and core/plugins/context.py: the life of a plugin,  *)
(* from the first launch that finds it to its removal, on the GUI thread,   *)
(* while its handlers, ticks and results run on the driver thread.          *)
(*                                                                          *)
(* Subscriptions change at once; ticks, parsers and timer rows change on    *)
(* the driver, through its command inbox (CommandInbox).  Each activation   *)
(* is a context of its own, numbered.  Incompatible and duplicate plugins   *)
(* take part in nothing.  Entries are on disk whenever the app quits.       *)
(***************************************************************************)
EXTENDS Naturals, Sequences, FiniteSets

CONSTANTS
  Plugin,       \* plugin ids
  MaxRuns,      \* bound: activations of one plugin in one launch
  MaxLaunches,  \* bound: launches
  MaxCommands   \* bound: commands waiting in the driver's inbox

ASSUME HostAssumption == {MaxRuns, MaxLaunches, MaxCommands} \subseteq Nat \ {0}

VARIABLES
  phase,      \* "off", "startup" (no driver thread yet) or "running"
  code,       \* the plugins installed in the plugins directory
  entry,      \* settings.plugins.entries
  status,     \* LoadedPlugin.status, "absent" without a row
  run,        \* number of the last activation
  activating, \* the plugin whose activate() is running
  subs,       \* subscriptions on the bus, by context
  hooks,      \* ticks and parsers on the driver, by context
  commands,   \* the driver's inbox
  handling,   \* contexts whose handler the driver is about to call
  rows,       \* timer rows: owner, and what made them
  flights,    \* plugins with a submitted fetch whose apply is to come
  answered,   \* plugins whose consent dialog was answered since they were new
  launches

onDisk    == <<code, entry, answered, launches>>
onGui     == <<phase, status, run, activating>>
onDriver  == <<hooks, handling, rows, flights>>
hostVars  == <<onDisk, onGui, subs, commands, onDriver>>

NoEntry == [approved |-> FALSE, enabled |-> FALSE]
Entry   == [approved : BOOLEAN, enabled : BOOLEAN]
Status  == {"absent", "ready", "active", "disabled", "pending_consent", "error"}
Context == Plugin \X (1..MaxRuns)
Row     == [owner : Plugin, by : {"hook", "apply"}]
Command == [do : {"hook", "unhook", "add row", "drop rows"}, ctx : Context]

HostTypeOK ==
  /\ phase \in {"off", "startup", "running"}
  /\ {code, activating, flights, answered} \subseteq SUBSET Plugin
  /\ entry \in [Plugin -> Entry] /\ status \in [Plugin -> Status]
  /\ run \in [Plugin -> 0..MaxRuns]
  /\ {subs, hooks, handling} \subseteq SUBSET Context
  /\ commands \in Seq(Command) /\ rows \subseteq Row
  /\ launches \in 0..MaxLaunches

HostInit ==
  /\ phase = "off" /\ code \in SUBSET Plugin /\ entry = [p \in Plugin |-> NoEntry]
  /\ status = [p \in Plugin |-> "absent"] /\ run = [p \in Plugin |-> 0] /\ activating = {}
  /\ subs = {} /\ hooks = {} /\ commands = <<>> /\ handling = {} /\ rows = {} /\ flights = {}
  /\ answered = {} /\ launches = 0

-----------------------------------------------------------------------------
(* The driver's inbox                                                       *)

Done(c) ==
  /\ hooks' = CASE c.do = "hook"   -> hooks \cup {c.ctx}
                [] c.do = "unhook" -> hooks \ {c.ctx}
                [] OTHER           -> hooks
  /\ rows' = CASE c.do = "add row"   -> rows \cup {[owner |-> c.ctx[1], by |-> "hook"]}
               [] c.do = "drop rows" -> {r \in rows : r.owner # c.ctx[1]}
               [] OTHER              -> rows

\* submit_to_driver: at once while no driver thread exists.
Submit(c) ==
  IF phase = "running"
  THEN commands' = Append(commands, c) /\ UNCHANGED <<hooks, rows>>
  ELSE Done(c) /\ UNCHANGED commands

RunCommand ==
  /\ phase = "running" /\ handling = {} /\ commands # <<>>
  /\ Done(Head(commands)) /\ commands' = Tail(commands)
  /\ UNCHANGED <<onDisk, onGui, subs, handling, flights>>

-----------------------------------------------------------------------------
(* The driver                                                               *)

MakesRow(p, by) == rows' = rows \cup {[owner |-> p, by |-> by]}

\* EventBus.publish has copied the listeners: this one will be called.
Publish(ctx) ==
  /\ phase = "running" /\ handling = {} /\ ctx \in subs
  /\ handling' = {ctx}
  /\ UNCHANGED <<onDisk, onGui, subs, commands, hooks, rows, flights>>

\* The handler adds a row, submits a fetch, or does neither.
Handle(ctx) ==
  /\ ctx \in handling /\ handling' = {}
  /\ \/ MakesRow(ctx[1], "hook") /\ UNCHANGED flights
     \/ flights' = flights \cup {ctx[1]} /\ UNCHANGED rows
     \/ UNCHANGED <<rows, flights>>
  /\ UNCHANGED <<onDisk, onGui, subs, commands, hooks>>

TickRuns(ctx) ==
  /\ phase = "running" /\ handling = {} /\ ctx \in hooks
  /\ MakesRow(ctx[1], "hook")
  /\ UNCHANGED <<onDisk, onGui, subs, commands, hooks, handling, flights>>

\* The apply of a fetch runs whatever became of the plugin meanwhile.
ResultLands(p) ==
  /\ phase = "running" /\ handling = {} /\ p \in flights
  /\ flights' = flights \ {p} /\ MakesRow(p, "apply")
  /\ UNCHANGED <<onDisk, onGui, subs, commands, hooks, handling>>

RowEnds == \E r \in rows : rows' = rows \ {r}
           /\ UNCHANGED <<onDisk, onGui, subs, commands, hooks, handling, flights>>

-----------------------------------------------------------------------------
(* The GUI: activation and teardown                                         *)

GuiFree == phase # "off" /\ activating = {}

Room == Len(commands) < MaxCommands

Ctx(p) == <<p, run[p]>>

\* _activate of a "ready" row: a fresh context, then the plugin's own code.
Activating(p) == activating' = activating \cup {p} /\ run' = [run EXCEPT ![p] = @ + 1]

\* activate_enabled, and activate_one for a row record_consent made ready.
Activate(p) ==
  /\ GuiFree /\ status[p] = "ready" /\ run[p] < MaxRuns
  /\ Activating(p)
  /\ UNCHANGED <<onDisk, phase, status, subs, commands, onDriver>>

Subscribe(p) ==
  /\ p \in activating /\ Ctx(p) \notin subs
  /\ subs' = subs \cup {Ctx(p)}
  /\ UNCHANGED <<onDisk, onGui, commands, onDriver>>

\* ctx.add_tick, ctx.add_parser.
AddHook(p) ==
  /\ p \in activating /\ Ctx(p) \notin hooks /\ Room
  /\ \A i \in DOMAIN commands : commands[i] # [do |-> "hook", ctx |-> Ctx(p)]
  /\ Submit([do |-> "hook", ctx |-> Ctx(p)])
  /\ UNCHANGED <<onDisk, onGui, subs, handling, flights>>

\* ctx.timers.add_timer from activate().
AddRow(p) ==
  /\ p \in activating /\ Room
  /\ \A i \in DOMAIN commands : commands[i] # [do |-> "add row", ctx |-> Ctx(p)]
  /\ Submit([do |-> "add row", ctx |-> Ctx(p)])
  /\ UNCHANGED <<onDisk, onGui, subs, handling, flights>>

ActivateReturns(p) ==
  /\ p \in activating /\ activating' = activating \ {p}
  /\ status' = [status EXCEPT ![p] = "active"]
  /\ UNCHANGED <<onDisk, phase, run, subs, commands, onDriver>>

\* Wrong variant: what it registered before it raised stays.
ActivateRaisesBare(p) ==
  /\ p \in activating /\ Room /\ activating' = activating \ {p}
  /\ status' = [status EXCEPT ![p] = "error"]
  /\ UNCHANGED <<onDisk, phase, run, subs, commands, onDriver>>

\* activate() raised: ctx.unwind() takes its registrations out, not its rows.
ActivateRaises(p) ==
  /\ p \in activating /\ Room /\ activating' = activating \ {p}
  /\ status' = [status EXCEPT ![p] = "error"]
  /\ subs' = subs \ {Ctx(p)}
  /\ Submit([do |-> "unhook", ctx |-> Ctx(p)])
  /\ UNCHANGED <<onDisk, phase, run, handling, flights>>

Unhooks(p) == IF status[p] = "active" THEN <<[do |-> "unhook", ctx |-> Ctx(p)]>> ELSE <<>>
DropsRows(p) == <<[do |-> "drop rows", ctx |-> <<p, 1>>]>>

\* Wrong variant: the GUI thread changes the driver's state itself.
TeardownInline(p, next) ==
  /\ subs' = subs \ {Ctx(p)} /\ hooks' = hooks \ {Ctx(p)}
  /\ rows' = {r \in rows : r.owner # p}
  /\ status' = [status EXCEPT ![p] = next]
  /\ UNCHANGED <<commands, handling, flights>>

\* _teardown with retire: unwind the context, drop the rows, back to "disabled".
Teardown(p, next) ==
  /\ Len(commands) + 1 < MaxCommands
  /\ subs' = subs \ {Ctx(p)}
  /\ commands' = commands \o Unhooks(p) \o DropsRows(p)
  /\ status' = [status EXCEPT ![p] = next]
  /\ UNCHANGED onDriver

Retired(s) == IF s \in {"active", "ready", "error"} THEN "disabled" ELSE s

-----------------------------------------------------------------------------
(* The GUI: what the user asks of the host                                  *)

\* _load_one
Classified(e) ==
  CASE ~e.approved -> "pending_consent"
    [] e.approved /\ ~e.enabled -> "disabled"
    [] OTHER -> "ready"

\* discover_and_load
Launch ==
  /\ phase = "off" /\ launches < MaxLaunches
  /\ phase' = "startup" /\ launches' = launches + 1
  /\ status' = [p \in Plugin |-> IF p \in code THEN Classified(entry[p]) ELSE "absent"]
  /\ UNCHANGED <<code, entry, answered, run, activating, subs, commands, onDriver>>

\* backend.start(), once activate_enabled has been through the ready ones.
Start ==
  /\ phase = "startup" /\ activating = {} /\ \A p \in Plugin : status[p] # "ready"
  /\ phase' = "running"
  /\ UNCHANGED <<onDisk, status, run, activating, subs, commands, onDriver>>

\* record_consent
RecordConsent(p, allowed) ==
  /\ GuiFree /\ status[p] \in {"pending_consent", "disabled"} /\ run[p] < MaxRuns
  /\ entry' = [entry EXCEPT ![p] = [approved |-> TRUE, enabled |-> allowed]]
  /\ status' = [status EXCEPT ![p] = IF allowed THEN "ready" ELSE "disabled"]
  /\ answered' = answered \cup {p}
  /\ UNCHANGED <<code, launches, phase, run, activating, subs, commands, onDriver>>

\* set_enabled(p, True): ticking the box is not consent.
Enable(p) ==
  /\ phase = "running" /\ GuiFree /\ status[p] # "absent" /\ run[p] < MaxRuns
  /\ entry' = [entry EXCEPT ![p] = [@ EXCEPT !.enabled = TRUE]]
  /\ IF entry[p].approved /\ status[p] \in {"disabled", "ready"}
     THEN status' = [status EXCEPT ![p] = "ready"] /\ Activating(p)
     ELSE UNCHANGED <<status, run, activating>>
  /\ UNCHANGED <<code, answered, launches, phase, subs, commands, onDriver>>

\* set_enabled(p, False)
Disable(p) ==
  /\ phase = "running" /\ GuiFree /\ status[p] # "absent" /\ run[p] < MaxRuns
  /\ entry' = [entry EXCEPT ![p] = [@ EXCEPT !.enabled = FALSE]]
  /\ Teardown(p, Retired(status[p]))
  /\ UNCHANGED <<code, answered, launches, phase, run, activating>>

\* record_install and adopt_installed: a row already loaded stays as it is.
Install(p) ==
  /\ phase = "running" /\ GuiFree /\ p \notin code
  /\ code' = code \cup {p}
  /\ status' = [status EXCEPT ![p] = IF @ = "absent" THEN Classified(entry[p]) ELSE @]
  /\ UNCHANGED <<entry, answered, launches, phase, run, activating, subs, commands, onDriver>>

\* Wrong variant: the consent entry outlives the code.
ForgetKeepsEntry(p) ==
  /\ phase = "running" /\ GuiFree /\ status[p] # "absent"
  /\ code' = code \ {p} /\ answered' = answered \ {p}
  /\ Teardown(p, "absent")
  /\ UNCHANGED <<entry, launches, phase, run, activating>>

\* The manager trashes the code and calls forget.
Forget(p) ==
  /\ phase = "running" /\ GuiFree /\ status[p] # "absent"
  /\ code' = code \ {p} /\ answered' = answered \ {p}
  /\ entry' = [entry EXCEPT ![p] = NoEntry]
  /\ Teardown(p, "absent")
  /\ UNCHANGED <<launches, phase, run, activating>>

\* shutdown, after the driver joined: all of this was in memory.
Quit ==
  /\ phase = "running" /\ GuiFree
  /\ phase' = "off"
  /\ status' = [p \in Plugin |-> "absent"] /\ run' = [p \in Plugin |-> 0]
  /\ subs' = {} /\ commands' = <<>> /\ hooks' = {} /\ handling' = {} /\ rows' = {} /\ flights' = {}
  /\ UNCHANGED <<onDisk, activating>>

-----------------------------------------------------------------------------
HostNext ==
  \/ RunCommand \/ RowEnds \/ Launch \/ Start \/ Quit
  \/ \E ctx \in Context : Publish(ctx) \/ Handle(ctx) \/ TickRuns(ctx)
  \/ \E p \in Plugin :
       \/ ResultLands(p) \/ Activate(p) \/ Subscribe(p) \/ AddHook(p) \/ AddRow(p)
       \/ ActivateReturns(p) \/ ActivateRaises(p)
       \/ Enable(p) \/ Disable(p) \/ Install(p) \/ Forget(p)
       \/ \E allowed \in BOOLEAN : RecordConsent(p, allowed)

HostSpec == HostInit /\ [][HostNext]_hostVars

-----------------------------------------------------------------------------
(* Properties                                                               *)

Settled(p) == p \notin activating /\ \A i \in DOMAIN commands : commands[i].ctx[1] # p

\* Once what was asked of the driver is done, the only registrations of a plugin
\* are those of its last activation, and only while it is active: not after a
\* failed activate(), not after a disable, and not twice after a re-enable.
HooksFollowStatus ==
  \A p \in Plugin : Settled(p) =>
    \A ctx \in subs \cup hooks : ctx[1] = p => status[p] = "active" /\ ctx = Ctx(p)

\* A disabled or removed plugin leaves no countdown that its handlers, ticks or
\* activate() made, even one made by a handler that was running when the user
\* pressed the button.
RowsFollowStatus ==
  \A p \in Plugin : Settled(p) /\ status[p] \in {"disabled", "absent"} =>
    [owner |-> p, by |-> "hook"] \notin rows

\* Nothing runs under an id whose consent dialog was not answered since the id
\* was new: an uninstall takes the answer with it.
StrangersAsk == \A p \in Plugin : status[p] = "active" \/ p \in activating => p \in answered
=============================================================================
