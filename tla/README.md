# A formal model of nParse+

nParse+ tails EverQuest log files, turns their lines into events, and shows
timers, fights, maps and alerts built from them.  This directory holds TLA+
modules that model the program, TLC configurations that check them on small
instances, and proofs checked by TLAPS.  `PROJECT.json` ties every definition to
the source lines it models, every run to the properties it checks, and every
hazard of the code to the properties aimed at it.

Running it: `tlc -config <run>.cfg <Module>.tla` for a run of the tables below,
`tlapm <Module>.tla` for a module with proofs.

## 1. The system

### Threads

| thread | started by | runs |
|---|---|---|
| GUI | the process | Qt windows, `save()`, `Backend.start/stop`, plugin activation |
| log driver | `LogDriver.start` | the loop: log switch, command drain, poll, parser chain, ticks |
| debounced-save timers | `DebouncedSaver.request_save` | one `threading.Timer` per request, most of them cancelled |
| background jobs | `BackgroundJob` | copying an oversized log, parsing a spell table |
| network | `NetWorker`, `PigParseHubClient`, `NParseWsClient` | REST calls, web sockets and their readers |

Handlers, the timer rows and the fight tracker are owned by the log driver.
Other threads reach them through three queues: the command inbox
(`submit_to_driver`), the sharing inbox (`enqueue_inbound`) and the results that
background jobs leave for a tick.

### Components

| component (source) | state | operations | what makes it correct | model |
|---|---|---|---|---|
| Log driver loop (`core/driver.py`) | gate, inbox, thread, stop event, tail | submit, start, stop, drain, switch log, close gate | a change runs once, in order, between lines, never beside the driver, never left behind | `LogDriver` |
| Parser chain (`core/pipeline.py`) | list of parsers, last line time | append, remove, process a line | a line reaches every parser registered when it arrived, until one takes it | `LogDriver` |
| Settings store (`config/settings.py`, `app.py`) | settings in memory, pending flag, timer, two files | request, fire, save, flush, load | the file is always one whole version, and the newest request is not forgotten | `SettingsStore` |
| Log tail (`core/logfile.py`) | offset, partial line, signature | attach, poll, restart | every whole line is handed on once and in order, across rotations | `LogTail` |
| Log archiver (`core/logarchive.py`) | staged copies, archives | stage, catch up, swap | the archives hold each line once; emptying the log costs no line that could have been read | `LogTail` |
| Timer persistence (`core/handlers/timer_persistence.py`, `core/parsers/camp.py`) | stores per character, camped flag, export anchor, camp deadline | export, camp, login, switch, quit | rows come back to the character they belong to, with the time they had; a silent log does not erode them | `TimerPersistence` |
| Timer rows (`core/timers.py`) | rows | add, tick, export, restore, windows | a row expires once, opens its window once | partly, in `TimerPersistence` and `TriggerTimers` |
| Sharing coordinator (`core/sharing.py`), network worker (`net/worker.py`) | mode, client, inbox, worker queue, last location, recent roars | tick, dispatch, apply mode, gated submit, keepalive | after the user turned it off nothing is sent or shown | `SharingMode`, `SharingGate`, `SharingSends` |
| PigParse hub client (`net/pigparse_hub.py`) | transport, server, session events | connect, join, hold, set server, close, stop | one session, for the newest server, until stopped | `HubClient` |
| Location server (`locationserver/`) | names and groups of connections, dots, way-points, zones told | register, location, way-point, unregister | no dot outlives its senders | `LocationServer` |
| Plugin host and contexts (`core/plugins/host.py`, `context.py`) | status and consent per plugin, what each registered | consent, activate, enable, disable, install, forget, shutdown | nothing runs unasked, and nothing a plugin registered outlives it | `PluginHost` |
| Plugin installer (`core/plugins/install.py`) | the plugin path, backup, staging, trash | install, update, uninstall | an update keeps a whole copy of what it replaces until it is done, and the old plugin where it fails | `PluginInstall` |
| Fights (`core/dps.py`) | fights, hits, windows | hit, end, clear, tick, configure | the carried best window is the best window | `Fights` |
| Complete-heal chain (`core/ch_chain.py`) | chain per target | observe | the warning comes at the call before yours | `CHChain` |
| Trigger engine (`core/triggers/engine.py`, `composition.py`) | active timers and their bars | match, end early, tick | a countdown that runs is on screen | `TriggerTimers` |
| Speech (`audio/tts.py`) | queue, child process | speak, interrupt, close | an interrupted text is not spoken later | `Speech` |
| Dump watcher (`core/dumps/`) | read files, newest snapshot, toggles | scan, import | the library follows the file, whatever the toggles did | `DumpWatch` |
| Dump uploads (`core/handlers/inventory_upload.py`, `net/p99planner.py`) | destination, jobs, claim | upload, stage, add, release | nothing goes to a site the user left; one link | `DumpUploads` |
| Spell timers, parsers, updater, registries, user interface | | | mostly pure matching, rendering or one-shot input and output | not modelled |

### How they interact

`Backend.start` starts the driver.  Each iteration of its loop looks for the
newest log (publishing `BeforePlayerChanged`, resetting the player, attaching,
publishing `AfterPlayerChanged`), drains the command inbox, polls the tail,
offers each line to the chain, and runs the ticks in a fixed order: spell table,
camp, timers, buff warnings, triggers, fights, archiver, sharing, and the rest.
The archiver's tick empties a log and calls back into the driver
(`note_log_rotated`).  Timer persistence listens to the timer rows and the player
events and writes into the settings, asking the debounced saver for a save.
The sharing inbox carries two kinds of item: frames from the hub client's readers,
and the results of the network worker, which any handler, the dump uploader and
plugins submit work to; both are applied by the sharing tick.  The GUI thread
changes settings the other threads read (sharing mode, upload destination, dump
toggles), and calls `apply_mode`, `PluginHost` and `forget_claim` directly.  At
quit `Backend.stop` joins the driver and exports once more, the plugin host shuts
down through the inbox, and `saver.flush` writes what is pending.

## 2. The modules

| module | models | composed with |
|---|---|---|
| `CommandInbox` | what `submit_to_driver` promises a caller, with no threads or queue | implemented by `LogDriver` |
| `LogDriver` | loop, inbox, gate, chain walk | instance `Promise` of `CommandInbox` |
| `MCLogDriver` | an instance of it for TLC | |
| `SequenceFacts` | lemmas on `RemoveFirst`, `Append`, `Tail`, parts of sequences, smallest elements, values carried through *n* steps | |
| `LogDriverProofs` | the theorems about `LogDriver` | `SequenceFacts` |
| `SettingsStore` | saver, `save_settings`, quit, crash, relaunch | |
| `SettingsStoreProofs` | the theorems about `SettingsStore` | |
| `LogTail`, `MCLogTail` | tail and archiver on one log file | |
| `LogTailProofs` | the theorems about `LogTail` | `SequenceFacts` |
| `TimerPersistence`, `MCTimerPersistence` | stores, camp, login, log switch | |
| `TimerPersistenceProofs` | the theorems about `TimerPersistence` | |
| `SharingMode` | the sharing mode and `apply_mode`, in its two steps | extended by the next two |
| `SharingGate` | gated submit, network worker, inbox, sharing tick | |
| `SharingSends` | the positions sent: `/loc`, keepalive, roar | |
| `HubClient` | the hub client and its sockets | |
| `PluginHost` | plugins across launches, the driver's inbox | |
| `PluginInstall` | one plugin path of the plugins directory | |
| `Fights` | the damage meter against one target | |
| `CHChain` | complete-heal chains | |
| `TriggerTimers` | trigger timers and their bars | |
| `Speech` | the subprocess speaker | |
| `DumpWatch`, `DumpUploads` | one dump file and its library; upload jobs and the claim | |
| `LocationServer` | the self-hosted location server | |
| `MCServices` | eleven of these, one at a time, for TLC | |
| `SharingProofs`, `PluginProofs` | the theorems about `SharingGate`, `HubClient`, `LocationServer`; about `PluginHost`, `PluginInstall` | |
| `ServiceProofs` | the theorems about `Fights`, `CHChain`, `TriggerTimers`, `Speech`, `DumpWatch`, `DumpUploads`, and about all services together | `MCServices`, `SharingProofs`, `PluginProofs`, `SequenceFacts` |

### LogDriver

The threads are the constants `Caller` (with `Gui` one of them) and `Driver`.
`where[c]` says where change `c` is: not submitted, in the queue, in the hands of
a thread about to run it, or applied.  `Submit` reads the gate and enqueues in one
step, as the code does under `_command_lock`; a change that found the gate shut
stays in the caller's hand until `Invoke`, because the code runs it after the
lock is released.  `at` is the program counter of the driver thread (`test`,
`switch`, `drain`, `lines`, `offer`, `ticks`, `closing`, `exiting`); one pass of
`_drain_commands` is `Drain` followed by `Invoke`.  `JoinReturns` may happen with
the thread alive: that is the two-second timeout of `stop()`.  `cursor` is the
index of Python's list iterator, `owed` the parsers a line has still to be
offered to.  Whether a parser takes a line is nondeterministic; a parser that
raises counts as one that declines, as in the code.

Two constants describe the surroundings.  `QuietStart` says that no other thread
is in the middle of a change of its own when `start()` runs; `Readable` that the
newest log can be opened whenever none is tailed.  The main run and the proofs of
safety use both (the proofs only the first); a run of its own shows what happens
without each.

### SettingsStore

A version number stands for the settings: every change makes the next one.
`job[s]` is the save a thread is in, a step at a time: `Dump` (the snapshot),
`Open` (truncating `settings.json.tmp`), `Write`, `Replace`.  The open file
follows a rename, as on POSIX.  Timers are numbered by the request that armed
them; one that has fired runs even if it is cancelled afterwards.  `Crash` and
`Exit` leave the files as they are, `Launch` loads them and starts the save that
ends `create_app`.  A request may come at any moment of the process, after `flush()` too,
where its timer is a daemon's and dies with the process.  `lost` remembers the newest
version whose save raised, `sealed` what had been asked for when `flush()` decided: a
later request is promised nothing.  `Overlap` says whether a save may start while another
is writing: the code does nothing against it.

### LogTail

The file is a sequence of pieces, a line being two: its text and its terminated
end.  Offsets, the look-back at attachment, the signature, the archiving
threshold and the catch-up limit are counted in pieces.  Lines carry numbers the
tail cannot see (`Shown` is what it can), so that "once and in order" can be
said.  `Stage` is the end of the copy of one log, `SweepEnds` the moment the sweep,
busy until then with other logs, hands its copies to the tick: polls come between.
`CatchUp` and `Truncate` are separate steps because the client may write
between them; the truncation and the reset of the tail are one step because no
poll can come between.

### TimerPersistence

Rows and saved entries carry the character whose log made them, which the
program does not record.  `screen` is the list of rows, `saved` the stores in the
profiles, `logAt` the time of the last line.  Each handler is one action, with
the notifications it triggers: on the driver thread nothing comes between.
`CampTick` is a camp followed by `timers.tick` in the same iteration, `Switch`
the whole of a successful log switch, `SwitchFails` one whose attachment raises
after the player was reset (`slipped` remembers that it happened).  `away` remembers the
characters that camped and whose log was neither attached since nor logged in.  After a restart
there is no log time until a line is read (`logAt = Never`), and exports fall back on the
wall clock.

### SharingMode, SharingGate and SharingSends

`apply_mode` runs on the GUI thread and is two steps: the test with `client.stop()`,
and the drop; everything else may come between.  In `SharingGate` an item of the
inbox is a frame, the result of a gated query, one the gate dropped, or a dump upload.
The three tests of `sharing_gated_submit` are in `SubmitQuery`, `WorkerTakes` and
`Dispatch`; what follows each is a step of its own, so the client can go between
test and use.  `late` counts what happens after the drop.  `SyncServer` may find the
client gone: the call raises and the tick is over.  In `SharingSends` a position is
named by the character that typed it and `wire` is the last one sent.

### HubClient

`pc` is the line of `_run` and `_connect_once` the client thread is at; the driver
(`set_server`, `_invoke`), the GUI (`stop`) and one reader per socket run beside it.
`closing` holds the calls of `_notify_close` under way, each of which closes the
socket, clears `_connected` and sets `_session_closed` in three steps: `on_close`
does not say which socket closed, so a late one hits the session that is up by then.
Sockets are reused once no thread refers to them.  Waits that time out may end at
any step.

### PluginHost and PluginInstall

A context is a plugin and the number of its activation.  Subscriptions change at
once; ticks, parsers and rows are commands in the driver's inbox.  `handling` is a
handler the bus is about to call although its subscription may be gone by then.
`activate()` is open-ended: between `Activate` and `ActivateReturns` or
`ActivateRaises` the plugin registers what it likes.  Entries are saved at quit, code
stays on disk, everything else is lost.  `PluginInstall` has one step per file
operation of `_swap_in`, each of which may fail; the installer is a daemon thread,
`Killed` ends it anywhere, and the GUI's `Uninstall` does not wait for it.  The plugin is
a package directory, so a `shutil.move` that cannot rename copies and then removes:
`BrokenMove` is what one that raised may leave at both ends (`Half` is some of a copy's
files), `undo` and `clear` are the moments before the backup directory is removed, and
`nested` is a copy that a rollback moved inside of what lay at its place.  Removals with
`ignore_errors` are taken to succeed.

### Fights, CHChain and TriggerTimers

All three live on the driver thread.  In `Fights` an entity carries the left end and
the sum of its best window from hit to hit, as the code does, and `BestOf` is the
definition they must agree with; `Dealt` and `Retained` are recursive functions, one
step per hit.  In `CHChain` a position is a number in the code's string order; `heard`
is what the property calls the ring.  Letters come in both cases: the bookkeeping
compares them as they were called, where every small letter is above every capital, the
warning without case (`Fold`).  In `TriggerTimers` every trigger has a timer name
of its own, so its timers and its bars are two lists of the times left, kept per
trigger in their order; a bar is armed with the rounded-up duration, so it ends with its
timer or one unit later (`Late`).  A tick first drops the bars that are over, then ends or
re-arms the timers, each re-armed one showing its bar (`Shown`).

### Speech, DumpWatch and DumpUploads

`Speech` splits `interrupt` into its locked part and the terminate, and `_utter` into
starting the child and publishing it.  In `DumpWatch` a file's time is a counter of
writes, remembered before the read, which may give nothing; `excused` is set when the
last look at the file could not read or could not store it, or a hand-picked dump has
become the newest since, and cleared by a look that does: these are the reasons the
library may lag.  In `DumpUploads` the site's own state is `minted` and `open`;
replies may be lost; `forget_claim` is a read and a later write with nothing between
them to stop the worker storing a link.  Whether a link has expired the app judges by its
own clock, in naive local time (`lapsed`, moved by `ClockMoves` in either direction), and
the site by its own (`ClaimCloses`): with a lapsed link the app stages anew and a cancel
releases nothing.

### LocationServer

A dot is a group, a zone and a name.  The server is one asyncio thread, and the
coroutines a handler awaits never suspend, so each frame is one step.  Frames come from
any connection under any name: a reconnect before the old connection is seen dead, and a
change of character, are sequences of those.  A way-point frame renames its connection
and leaves the dots of the old name; `leftBehind` remembers them.

## 3. The runs

| run | question | result |
|---|---|---|
| `log_driver` | Are changes applied once, in order, between lines, and never stranded? | holds |
| `log_driver_early_thread` | Does "runs on the caller" mean that there is no driver? | violated |
| `log_driver_unreadable_log` | Is an accepted change applied at the next loop boundary? | violated |
| `settings_store` | Is the file whole, no request forgotten, and the file eventually up to date? | holds |
| `settings_two_writers` | Is a save atomic when two threads save? | violated |
| `settings_quit` | Does `flush()` save everything pending? | violated |
| `log_tail` | Are lines parsed and archived once, in order, and caught up? | holds |
| `log_tail_erased` | Was every erased line parsed live? | violated |
| `timer_persistence` | Do the stores keep each character's rows through camp, login, switch and quit? | holds |
| `timer_silence` | Does a row the wall clock drained leave the store alone? | violated |
| `services` | Do eleven components around the driver keep what each promises? | holds |
| `sharing_keepalive` | Does a character's "off" gate every location send? | violated |

**log_driver.** `CallerMeansNoDriver`: no other thread has a change in hand while
the loop runs.  `NothingStranded`: behind a shut gate the queue is empty, and an
ended thread left it shut.  `NoParserSkipped`: the parsers owed a line are still
ahead of the iterator.  `QueueOrder`: first in, first applied.  `KeepsPromise`:
the loop refines `CommandInbox`, liveness included.

**settings_store.** Saves take turns here (`Overlap = FALSE`), which the code does not
see to: `settings_two_writers` is what happens otherwise.  `NeverTorn`.
`NothingForgotten`: the newest request is on disk, pending or being written, unless the
very save that carried it raised; a save that raised costs no later request.
`QuitLosesOnlyInFlight`: of what was asked for when `flush()` decided, all a clean exit
can miss is what a timer thread was still saving or a save raised with.
`EventuallySaved`: what was asked for reaches the disk unless its save raises or the
process stops.

**log_tail.** `OnceInOrder` (lines reach the parsers once and in order per attachment,
and the archives once in all), `PollCatchesUp` (a poll
leaves no whole line behind, however the file was emptied and refilled),
`OnlyFreshLinesMissed` (the swap loses at most lines finished since the last
poll), `StagedIsFinished`.

**timer_persistence.** `OwnRowsOnly` (no row of one character in another's window
or profile, unless a switch failed half-way), `CampKeepsSnapshot` (from a camp until
the character's log is attached again or it logs in no step changes its profile, quits,
restarts and other characters' play included, unless a switch failed half-way),
`NothingHiddenUnsaved` (in a step taken while not camped, logins apart, a running row
leaves the window only if the profile holds it or one of its name replaces it),
`RelogRestoresBuffs`.  While camped nothing is exported, so no property speaks for the
rows of whoever plays under another's camp (section 5).

**services.** A behaviour is one of one component, named by `part`; the others stay
in their initial states.  The components share no state with each other that a
property is about, so one run is enough for all.  `HubSettles` and `UploadAnswered`
are liveness; the rest is safety.

* `StaleGroupIsClosing`: a session held for another server than the player's is being
  closed, or `set_server` has yet to close it.  `HubSettles`: left alone, the client ends up in
  the right group, waiting for a character, or stopped with its sockets closed.
* `OneEscapes`: after the client is dropped one request and one result get through, not
  the queue behind them.  `UploadAnswered`: a dump upload's result is applied whatever
  happens to the sharing mode.
* `HooksFollowStatus`, `RowsFollowStatus`: once the driver's inbox is empty, a plugin has
  the registrations of its last activation while active, and none otherwise; a disabled
  or removed plugin has no row of its handlers, ticks or activation.  (Rows made by a
  result that lands later are not covered: see section 5.)  `StrangersAsk`: nothing
  runs whose consent was not asked since its id was new.
* `OldCopySurvives`: while an update runs, or was killed, or could not even roll back, a
  whole copy of what it replaces is in place, inside what is in place, in the backup or in
  the trash, moves that stop half-way included.  One that reports success leaves the same
  plugin in place; one that reports failure keeps the old copy unless a removal stopped
  half-way through it.  A success may drop the old copy: when it cannot be trashed, the
  backup is removed all the same.
* `BestWindowExact`: the carried number is the defined one.  `TimersAreShown`: a running
  countdown has a bar, unless its trigger says `DoNothing`.
* `WarnsWhenNext`: the warning comes exactly when the call is the one before yours in the
  ring of the positions heard, in either case of the letters, with three exceptions its
  comment states: a chain with a letter gives no warning for numbers, one with a small
  letter and `ZZZ` but no `zzz` has no end to its ring, and 20 seconds of silence forget it.
* `AtMostOneMore`: after an interrupt at most the text already taken is begun.
* `LibraryCatchesUp`: what a toggle held back is caught up once both are on and the file
  counts as read, unless its last read gave nothing, its snapshot could not be written, or
  a hand-picked dump has become the newest since.
  `OneJobStrays`: one job at most reaches a site after the user left it.  `OneLink`: an open
  claim is the app's or on its way out, apart from a lost reply, a lost release, a cancel
  that overtook a new link, and a link the app's clock held expired while the site took it.
* `ZonesHaveSenders`: a player stands in at most as many zones as connections send the
  name, and in none once they are gone, apart from the dots left behind.

**The violations** are quoted in `PROJECT.json` with the sentence of the source
each contradicts.  In short: a caller that found the gate shut may outlive
`start()`; an unreadable newest log starves the inbox; two saves share one
temporary file; `flush()` does not wait for a save in flight; lines finished
between a poll and the swap are erased although the comment says they were
parsed; and the freeze of the timer stores compares with the last *export*, so
that after a quiet line the first row drained by the wall clock is exported away; and the
keepalive resends a position without asking the sharing setting, or whose position it is,
again.

### Bounds

| module | bound | why it is enough |
|---|---|---|
| `LogDriver` | 3 changes (append, append, remove of the first), 2 parsers, 2 callers and the driver, 2 lines a poll | a removal before the iterator needs two parsers; order needs two changes of one parser; each thread can be the submitter; starts, stops and iterations are unbounded |
| `SettingsStore` | 3 changes (`MaxVersion`) | a timer that fired, one that replaced it and a direct save; quits, crashes and launches are unbounded |
| `LogTail` | 4 lines of 2 pieces, one foreign emptying, signature 2, catch-up 1, threshold 3, look-back 4 | the file can be refilled to and past the old offset, be archived twice, and outgrow the catch-up; texts differ, since a collision of signatures is documented in `logfile.py` as out of reach |
| `TimerPersistence` | 2 characters (symmetric), one row name per kind, 2 seconds (3 for `timer_silence`), camp delay 1, rows of 2, 1 and 2 seconds, restored rows end by `MaxEnd` | a buff outlives a camp, a cooldown does not, a row drains in a silent log; `MaxEnd` is there because a silent re-attachment makes buffs longer each time |
| `SharingGate` | inbox and queue of 2 (`MaxWork`) | an item past its last test and one behind it |
| `SharingSends` | 2 characters | a switch away from the character that typed `/loc` |
| `HubClient` | 2 servers, 2 sockets, 2 changes, 1 send, 1 fault | a change during a connect and one during the session it leads to; an old socket's late close during the next session |
| `PluginHost` | 1 plugin, 2 activations, 2 launches, 4 commands | plugins share nothing but the queue; a disable and re-enable, a reinstall over a launch |
| `PluginInstall` | 2 ids, 2 versions of each | an update to the same and to another plugin; installs, kills and uninstalls are unbounded |
| `Fights` | 1 attacker, damage and windows of 1 and 2, 3 hits, 4 seconds, 1 fight, retention 2 | a hit that leaves the window, one at its edge, two in one second, a window changed after hits and changed back |
| `CHChain` | 1 target, positions 001 to 003, AAA, ZZZ, bbb and zzz | both wraps, growth after a wrap, numbers after letters, a small letter above ZZZ |
| `TriggerTimers` | 1 trigger, duration 3, 2 timers, 4 bars at a match | two timers of one trigger, each with an overlapping bar of its last round |
| `Speech` | queue of 2, 4 texts | a full queue with one text in the worker's hand and one new |
| `DumpWatch` | 2 contents, 2 writes | A, then B, then a toggle; a write at the time of an older import |
| `LocationServer` | 2 connections, 2 names, 2 zones, 1 group, 1 way-point | the same name on two connections in two zones, a rename by either frame; a group is, like a name, half of the key dots are removed by |
| `DumpUploads` | 2 jobs queued, 2 claims, no reply lost beyond 1 orphan | a job behind a job; a second claim after the first is gone, cancelled or held expired by the app's clock, which moves freely |

### Fairness

`LogDriver`: the driver thread's steps, the creation of the thread by `start()`,
and the running of a change in hand are weakly fair: a running thread goes on.
Nobody is obliged to submit, start or stop.  `SettingsStore`: the steps of timer
threads and of saves are weakly fair while the process runs.  `LogTail`: the
driver's steps, and the sweep that has copied a log returns.  `TimerPersistence` has no fairness and no liveness property; its
clock may stop, and deadlock is not checked there because time ends at its bound.
`HubClient`: the client thread, each close under way, the driver's and the GUI's
calls go on once begun (weakly fair); connects, joins and sessions may fail only as
often as the bound says, since a network that fails for ever settles nothing.
Nobody has to call `start`, `set_server` or `stop`.  `SharingGate`: the driver's tick is weakly
fair, the loop never stops ticking; the worker is strongly fair because in the model it waits
for room in a bounded inbox, which the code's unbounded one always has.  The other
services have safety properties only.  `MCServices` does not check deadlock: a
speaker that was closed and a client that was stopped do end.
`CommandInbox` asks for strong fairness of applying a change, since lines keep
coming in between; the loop gives it with weak fairness only.

## 4. The proofs

For all callers, changes, parsers and bounds (the constants' assumptions are named
in `LogDriver`: the GUI is a caller, the driver is not, thread names differ from
the words used for places):

| theorem | says |
|---|---|
| `LoopTypes` | `TypeOK` is invariant |
| `NoCallerBesideDriver` | `CallerMeansNoDriver` |
| `InboxNeverStranded` | `NothingStranded` |
| `EveryParserOffered` | `NoParserSkipped` |
| `ChangesInOrder` | `QueueOrder` |
| `LoopKeepsPromise` | initial states and steps of `LogDriver` are those of `CommandInbox` |

All but the first assume `QuietStart`, and must: without it the early-thread run
violates the first of them.  The argument is the inductive invariant `IInv`.
`GateInv` is its core: the gate is open exactly while a loop exists or is being
created; with it open only the driver holds changes, with it shut only callers
do and the queue is empty.  None of the properties is inductive alone:
`NoParserSkipped` needs to know that nobody changes the chain inside a walk,
which is `GateInv`; `NothingStranded` needs that `start()` finds no live thread,
which is `ThreadInv`; order and exactly-once need that the queue holds each queued
change once, `InboxInv`.  `SequenceFacts` holds the lemmas on sequences.  There is
one step per action and one below it per conjunct the action can disturb; the
refinement is proved by mapping each action to a step of `CommandInbox` or to a
stutter.

`SettingsStoreProofs`, for every number of changes; all but the first assume
`~Overlap`, as the passing run does, and must, by `settings_two_writers`:

| theorem | says |
|---|---|
| `StoreTypes` | `TypeOK` is invariant, with or without `Overlap` |
| `TurnsNeverTear` | `NeverTorn` |
| `TurnsForgetNothing` | `NothingForgotten` |
| `TurnsLoseOnlyInFlight` | `QuitLosesOnlyInFlight` |

`AloneInv` carries the first: whoever writes is alone, so the `.tmp` file is what the
step of that save says it is, and versions grow from the disk over the save in progress
to memory.  `KeepInv` carries the others: besides the newest request, which may be
pending, what had been asked for when `flush()` decided is on disk or in a save
(`Held`) until the process ends, whatever is requested after that; `SaveHolds` says that
a save lets go of a version only by bringing it to the disk or by raising with it.

`TimerPersistenceProofs`, for all characters, durations and bounds, with no
assumption but the types of the constants:

| theorem | says |
|---|---|
| `TimerTypes` | `TypeOK` |
| `RowsStayHome` | `OwnRowsOnly` |
| `CampIsKept` | `CampKeepsSnapshot` |
| `HiddenIsSaved` | `NothingHiddenUnsaved` |
| `BuffsSurviveRelog` | `RelogRestoresBuffs` |

`RowsInv` adds to the types that a profile, like the window, holds one entry of a
name, that no log is ahead of the wall clock (else a running row would be dropped
by the export), and that the log tailed is the player's unless a switch failed.
`SnapshotFacts` and `RestoredFacts` say what exporting and restoring keep; the
action properties follow from them case by case.  `CampIsKept` needs `AwayInv` besides: a
character that is away and followed is camped, so that no export touches its stores.
What the source promises of the freeze beyond these is `timer_silence`, which is
violated.

`LogTailProofs`, for any texts, any lengths of look-back, signature and thresholds, any
number of swaps and of emptyings by somebody else:

| theorem | says |
|---|---|
| `TailTypes` | `TypeOK` |
| `LinesOnceInOrder` | `OnceInOrder` |
| `PollsCatchUp` | `PollCatchesUp`, if `[]Unmistaken` |
| `OnlyFreshLost` | `OnlyFreshLinesMissed`, if `[]Unmistaken` |
| `DistinctLogIsRead` | the last two with no such hypothesis, where all texts differ (`DistinctTexts`) |

Everything is measured on one axis: `Index` is the place of a piece in all the client
ever wrote, and `Base` how much of that is no longer in the file.  `ArchiveInv` puts the
archive before the staged copy on it, and the copy before what the file still has, so a
line moves from one to the next and is never in two.  `ParseInv` says that what was
parsed lies before the position, or, once `SameFile` fails, that all of it lies before
the file: then the next poll starts at the top, and that is no repetition.  It needs no
hypothesis about the signature, because a file the tail mistakes for its own is one it
goes on in at its position.  Catching up does need one.  `CatchInv` says that the file is
`Kept` piece by piece, and then everything up to the position is parsed or waits in the
partial line, or all that the signature remembers is `Gone`; a poll that goes on in a
file that is not kept is exactly a collision of signatures, which `logfile.py` documents
as accepted and `Unmistaken` excludes.  `DistinctLogIsRead` derives `Unmistaken` from the
texts; `MCLogTail` gives them distinct texts, so the passing run is one instance of it.
`FreshInv` is what `OnlyFreshLost` adds: between a poll and the swap of the same
iteration, what is not parsed was finished after that poll.

For the services, each from its own module's assumptions on constants alone:

| theorem | says |
|---|---|
| `GateTypes`, `HubTypes`, `HostTypes`, `InstallTypes`, `ChainTypes`, `SpeechTypes`, `WatchTypes`, `UploadsTypes`, `LocationTypes`, `FightsTypes`, `TriggersTypes` | the type invariants |
| `GateOneEscapes` | `OneEscapes`, for queues of any length |
| `HubStaleGroupIsClosing` | `StaleGroupIsClosing`, for any servers, sockets and bounds |
| `HostStrangersAsk`, `HostHooksFollowStatus`, `HostRowsFollowStatus` | the three properties of the plugin host, for any plugins |
| `LocationZonesHaveSenders` | `ZonesHaveSenders`, for any finite sets of connections and zones, and any names and groups |
| `InstallOldCopySurvives` | `OldCopySurvives`, for any plugins and versions |
| `ChainWarnsWhenNext` | `WarnsWhenNext`, for any targets and positions |
| `SpeechAtMostOneMore` | `AtMostOneMore`, for any limit of the queue |
| `WatchLibraryCatchesUp` | `LibraryCatchesUp` |
| `UploadsOneJobStrays`, `UploadsOneLink` | `OneJobStrays`, `OneLink`, for any number of jobs and claims |
| `CarriedBestIsExact` | `BestWindowExact`, for any attackers, damage, windows and number of hits |
| `TriggersAreShown` | `TimersAreShown` (of triggers that do not restart with `DoNothing`), for any triggers, durations and number of timers |
| `ServicesTypes`, `ServicesAreSafe` | `ServicesTypeOK` and every safety property above, of `ServicesSpec`, the specification the run `services` checks |

The strengthenings say what a reader of the code would have to convince himself of.
`EscapeInv` (gate): the client, once gone, stays gone, and a count of one leaves nothing
past its test.  `SessionInv` (hub): a session's transport is the one published
while it is joined or held, so that whoever closes "the transport" closes that session.
`ZonesHaveSenders` needs its types only: it compares two counts that every frame moves
together.
`LifeInv`, `ConsentInv` and `OrderInv` (plugin host): whatever is not of the current
activation has its removal queued behind it, and the last command of a quiet plugin drops
its rows; this is the order the code gets from one queue.  For the installer, the copy to be
replaced is whole in place or in the trash until it is set aside, and in the backup or the
trash from then on (`BrokenMoves`: a move that raised leaves a whole copy at one end); for
the chain, `highest` and `mine` are what `heard` says; for the watcher, a cached file is in
the library, excused, or held back by a toggle that was off at the last tick; for the
uploads, an open claim is the app's, read by a cancel, being released or an orphan.

For the damage meter, `EntityInv` says that what an entity carries is what the definitions
give for the hits it has: the left end, the sum from there on, the best of all sums so far.
Each must be kept by a hit, which looks at the new end of the window only, and by the
rescan after a change of the window.  The damage of a stretch of hits (`Dealt`) is a
recursive function: `StepByStep` (a fact true of the first value and kept by each step is
true of the last, by a least counterexample) and `CarriedThrough` take the place of
induction, which needs an operator as a parameter.
For the triggers it is not enough to compare the lengths of the two lists, since a tick
takes from both.  `Covered` is the inductive form: for every *v* there are at least as many
bars as timers with *v* or more left.  A bar longer than its timer keeps it, a restart
(which re-arms the first timer and the first bar) keeps it because a trigger that restarts
has one timer at most, and with *v* = 0 it is the property.

`PartsAsBefore` is the composition: a behaviour of `ServicesSpec` is one of every
service's own specification (a step of one, a stutter of the others), so each theorem
carries over.

Every safety property of a passing run is stated by a theorem.  Only model-checked is
liveness, which is outside what TLAPS proves here: the fairness part of `KeepsPromise` with
the eventual application it promises, `EventuallySaved`, `StagedIsFinished`, `HubSettles`
and `UploadAnswered`.  The properties of the runs that expect a violation are false, and
have counterexamples instead.

## 5. What is not modelled

* Exceptions inside one parser or one command: the code catches each, and the
  model treats them as a parser that declines and a change without effect.
* The time budget of plugin ticks, and the ticks' own order and failures.
* Reads of `_tail` and `log_dir` split by `set_log_dir` from the GUI thread.
* Which log is the newest, modification times, several oversized logs at once,
  a swap whose rename succeeds and whose truncation fails.
* The fields of the settings, the migration of legacy files, and what a snapshot
  sees of lists that another thread is changing.
* Self counters (treated as cooldowns) and pop windows (treated as respawns).
* Payloads and wording: what a frame, a dump, an archive or an announcement says.
* Windows and settings pages of plugins, telemetry, incompatible and duplicate plugins.
* Attribution of damage, session statistics, personal bests, several targets at once.
* Trigger matching, counters and overlay texts; two triggers with one timer name; bars
  the user dismisses.
* Parsing and pruning of dumps, several files, the retries inside one HTTP request.
* What the location server broadcasts, and its client; spell timers, parsers, updater,
  registries: a pure function each, or planned.  The user interface, two thirds of the program's lines, is
  Qt widgets and painting over snapshots of the state modelled here.

The hazards no property covers: a snapshot older than what is on disk at the rename
(`settings.py:950`), which takes two saves at once, where the file need not even be whole;
an attachment that raises after the player was reset (`driver.py:442`), after which the two
characters' stores mix and nothing is promised (`slipped`); a camp deadline that outlives a
log switch (`camp.py:63`) and camps whoever is played by then, whose rows are hidden, and
not exported until the next login or switch; attaching again to a log replays the lines since its
last session marker (`logfile.py:104`); `set_log_dir`
clears `_tail` between the driver's test and its poll (`driver.py:165`); only consecutive
breaches of the tick budget evict a plugin tick (`driver.py:404`); an app-owned tick
that raises ends the iteration for every tick behind it (`driver.py:371`); `model_dump`
walks lists another thread appends to (`settings.py:950`); an archive whose rename succeeds
and whose truncation fails is made again (`logarchive.py:166`); restored buffs are exported
against the outgoing log's last line (`timer_persistence.py:301`); `Backend.stop` exports
after a join that may have timed out (`composition.py:470`); departures are inferred
from frames that cover one zone only (`nparse_ws.py:237`).

Observed while modelling, without a run: after a switch the incoming character's
buffs are measured against the outgoing log's last line, which lengthens them
until the next export; in an app just started no line has been read, so that every drain
is exported and the wall clock alone empties the store of a character nobody plays; an
attachment that raises after the player was reset mixes
two characters' stores; and a second row started in the same log second is not
exported until a timer changes after a later line.  Around the driver:

* Hub client: `stop()` gives up on a join after five seconds inside `connect()`; a
  late `on_close`, or a failed `_invoke`, of an old socket tears down a newer session,
  which is then built again.
* Sharing: `_sync_server` may find the client gone between test and call, which costs one
  tick; the gate's test on the worker and the fetch behind it are not one step.
* Timer rows: `spellwindow.py` (989, 1078-1108) changes the service's rows on the GUI
  thread, although `remove_owner` says "Driver thread only, like every other mutation".
* Plugins: the result of a fetch still adds rows after its plugin was disabled; a
  disable's row removal, queued behind a quick re-enable's rows, may take those too; a
  crash between `forget()` and the debounced save leaves the consent entry; a failed
  activation leaves its rows.
* Installer: a kill between the two renames leaves no plugin at its place (the old copy is
  in `.install-backup`, which the next update clears); a copy that cannot be trashed is
  deleted; where setting the old copy aside raises half-way through its removal, half of it
  stays in place and the backup, which was whole, is removed, although the docstring
  (`install.py:23`) has a failure leave the working copy in place; a rollback over the remains of a half-moved new copy puts the old one inside of
  them and reports a failure.
* Damage meter: the trailing window includes its edge, the best window does not.
* Complete heal: one letter or RAMP call silences the warnings for numbers until the chain
  was idle for 20 seconds; one small letter above `ZZZ` silences the warning of A after Z.
* Speech: a text popped but not yet published escapes an interrupt.
* Dumps: with `auto_update` off a dump that returns to the stored content is not
  uploaded, and one re-read unchanged is uploaded again; a hand-picked copy of
  the newest content keeps a later capture out; a dump that was locked or half written
  when it was scanned counts as read until the game writes it again or a scan is asked for.
* Uploads: `forget_claim` writes the claim on the GUI thread, although the module says
  it moves only on the worker; an `add` in flight restores a cancelled link; a fast or
  shifted local clock holds a link expired, and the next dump gets a second one while the
  first is open; the stage that follows a "gone" answer does not read the destination again
  (`inventory_upload.py:306`), which is within the one job `OneJobStrays` lets through.
* Location server: a way-point under a new name leaves the dot of the old one for good
  (`location_server.py:152`), though the comment at 124 has names cleared when they change;
  a broadcast covers one zone and the client takes everybody else for gone; a departure
  is not broadcast, and a position within a second of another is told with the next one.
* Trigger timers: with `DoNothing`, a repeating timer of fractional duration loses its bar for
  a round; early end removes the first bar of the name.

## 6. Plan

In this order; each step brings its run, its mutants and the theorem named.

1. `TickWatchdog`: the tick list with supervised ticks, eviction after two
   consecutive breaches, failing ticks; and the log switch with `set_log_dir` racing
   it.  Theorem: an evicted tick never runs again.
2. `LocationSharing`: `LocationServer` with its clients, the broadcasts between them and
   the map that expires dots; that a map shows nobody for more than a minute too long.
3. `PluginHost` over `CommandInbox` as the driver, by refinement of its queue.
4. `TimerRows`: the row operations with pop windows against a reference, and the
   personal bests across log switches.
5. Proofs: the two waits that liveness rests on (a staged copy is
   always finished, a wanted save always pending or running) as invariants; then the
   theorems named with the modules above.
