---------------------------- MODULE SharingGate ----------------------------
(***************************************************************************)
(* core/sharing.py: sharing_gated_submit, the inbox and the tick of         *)
(* SharingCoordinator, with the NetWorker of net/worker.py behind them.     *)
(* Three threads: the driver, the GUI (apply_mode) and the worker.          *)
(*                                                                          *)
(* A query stands for any REST call of a sharing handler, an upload for a   *)
(* character dump, a frame for another player's; none carries content.      *)
(***************************************************************************)
EXTENDS SharingMode, Naturals, Sequences

CONSTANT MaxWork    \* bound: length of the inbox and of the worker's queue

ASSUME GateAssumption == MaxWork \in Nat \ {0}

VARIABLES
  synced,    \* _client_server is the server of the character
  inbox,     \* _inbox
  queue,     \* the worker's queue
  worker,    \* what the worker has in hand
  tick,      \* where the driver is in tick
  upload,    \* the fate of one dump upload
  late       \* fetches begun and results applied after the client was dropped

gateVars == <<modeVars, synced, inbox, queue, worker, tick, upload, late>>

Item == {"frame", "query", "dropped", "upload"}

GateTypeOK ==
  /\ ModeTypeOK /\ synced \in BOOLEAN
  /\ inbox \in Seq(Item) /\ queue \in Seq({"query", "upload"})
  /\ worker \in {"idle", "query", "upload"}
  /\ tick \in {"rest", "sync", "drain", "apply"}
  /\ upload \in {"none", "sent", "done", "failed"}
  /\ late \in [fetched : Nat, applied : Nat]

GateInit ==
  /\ ModeInit /\ synced = TRUE
  /\ inbox = <<>> /\ queue = <<>> /\ worker = "idle" /\ tick = "rest"
  /\ upload = "none" /\ late = [fetched |-> 0, applied |-> 0]

\* pigparse_rest_allowed
RestAllowed == client /\ mode = "pigparse" /\ launch = "pigparse"

\* The GUI thread.
ChangesMode ==
  /\ (\E m \in Mode : SetMode(m)) \/ DropClient
  /\ UNCHANGED <<synced, inbox, queue, worker, tick, upload, late>>

-----------------------------------------------------------------------------
(* The driver, between two ticks                                           *)

\* The log of a character on another server.
SwitchServer == tick = "rest" /\ synced' = FALSE
                /\ UNCHANGED <<modeVars, inbox, queue, worker, tick, upload, late>>

\* A handler queries or posts through the gated submit.
SubmitQuery ==
  /\ tick = "rest" /\ RestAllowed /\ Len(queue) < MaxWork
  /\ queue' = Append(queue, "query")
  /\ UNCHANGED <<modeVars, synced, inbox, worker, tick, upload, late>>

\* InventoryUploadHandler has the worker's own submit.
SubmitUpload ==
  /\ tick = "rest" /\ upload = "none" /\ Len(queue) < MaxWork
  /\ queue' = Append(queue, "upload") /\ upload' = "sent"
  /\ UNCHANGED <<modeVars, synced, inbox, worker, tick, late>>

-----------------------------------------------------------------------------
(* The worker, and the thread of the client                                *)

\* Wrong variant: the gate is asked at submit only.
WorkerTakesUnchecked ==
  /\ worker = "idle" /\ queue # <<>>
  /\ queue' = Tail(queue) /\ worker' = Head(queue)
  /\ UNCHANGED <<modeVars, synced, inbox, tick, upload, late>>

\* guarded_fetch asks again; what it drops is delivered all the same.
WorkerTakes ==
  /\ worker = "idle" /\ queue # <<>>
  /\ queue' = Tail(queue)
  /\ \/ /\ Head(queue) = "upload" \/ RestAllowed
        /\ worker' = Head(queue) /\ UNCHANGED inbox
     \/ /\ Head(queue) = "query" /\ ~RestAllowed /\ Len(inbox) < MaxWork
        /\ inbox' = Append(inbox, "dropped") /\ UNCHANGED worker
  /\ UNCHANGED <<modeVars, synced, tick, upload, late>>

CountFetch == late' = IF worker = "query" /\ ~client THEN [late EXCEPT !.fetched = @ + 1] ELSE late

\* fetch() runs and its result is delivered ...
WorkerFetches ==
  /\ worker # "idle" /\ Len(inbox) < MaxWork
  /\ worker' = "idle" /\ inbox' = Append(inbox, worker)
  /\ CountFetch
  /\ UNCHANGED <<modeVars, synced, queue, tick, upload>>

\* ... or its failure is swallowed.
WorkerFails ==
  /\ worker # "idle" /\ worker' = "idle"
  /\ upload' = IF worker = "upload" THEN "failed" ELSE upload
  /\ CountFetch
  /\ UNCHANGED <<modeVars, synced, inbox, queue, tick>>

\* enqueue_inbound, from the client's thread.
FrameArrives ==
  /\ client /\ Len(inbox) < MaxWork
  /\ inbox' = Append(inbox, "frame")
  /\ UNCHANGED <<modeVars, synced, queue, worker, tick, upload, late>>

-----------------------------------------------------------------------------
(* The driver: SharingCoordinator.tick                                      *)

\* _sync_server tests the client ...
TickBegins ==
  /\ tick = "rest"
  /\ tick' = IF client /\ ~synced THEN "sync" ELSE "drain"
  /\ UNCHANGED <<modeVars, synced, inbox, queue, worker, upload, late>>

\* ... and uses it: dropped meanwhile, the call raises and this tick is over.
SyncServer ==
  /\ tick = "sync" /\ synced' = TRUE
  /\ tick' = IF client THEN "drain" ELSE "rest"
  /\ UNCHANGED <<modeVars, inbox, queue, worker, upload, late>>

\* Wrong variant: the mode is looked at before the kind of the item.
DispatchModeFirst ==
  /\ tick = "drain" /\ inbox # <<>>
  /\ inbox' = Tail(inbox)
  /\ tick' = IF Head(inbox) = "query" /\ RestAllowed THEN "apply" ELSE "drain"
  /\ upload' = IF Head(inbox) = "upload" /\ mode # "off" THEN "done" ELSE upload
  /\ UNCHANGED <<modeVars, synced, queue, worker, late>>

\* _drain_inbox: a callable runs whatever the mode; guarded_apply asks once more.
Dispatch ==
  /\ tick = "drain" /\ inbox # <<>>
  /\ inbox' = Tail(inbox)
  /\ tick' = IF Head(inbox) = "query" /\ RestAllowed THEN "apply" ELSE "drain"
  /\ upload' = IF Head(inbox) = "upload" THEN "done" ELSE upload
  /\ UNCHANGED <<modeVars, synced, queue, worker, late>>

ApplyResult ==
  /\ tick = "apply" /\ tick' = "drain"
  /\ late' = IF client THEN late ELSE [late EXCEPT !.applied = @ + 1]
  /\ UNCHANGED <<modeVars, synced, inbox, queue, worker, upload>>

\* The inbox is empty: on to _keepalive, in SharingSends.
TickEnds ==
  /\ tick = "drain" /\ inbox = <<>> /\ tick' = "rest"
  /\ UNCHANGED <<modeVars, synced, inbox, queue, worker, upload, late>>

-----------------------------------------------------------------------------
WorkerStep == WorkerTakes \/ WorkerFetches \/ WorkerFails
TickStep   == TickBegins \/ SyncServer \/ Dispatch \/ ApplyResult \/ TickEnds

GateNext == ChangesMode \/ SwitchServer \/ SubmitQuery \/ SubmitUpload
            \/ WorkerStep \/ FrameArrives \/ TickStep

\* The driver loops, and the worker gets on whenever the inbox has room.
GateFairness == WF_gateVars(TickStep) /\ SF_gateVars(WorkerStep)

GateSpec == GateInit /\ [][GateNext]_gateVars /\ GateFairness

-----------------------------------------------------------------------------
(* Properties                                                               *)

\* Once apply_mode dropped the client, the one request the worker had already
\* let through may go out and one result already let through may be applied;
\* everything behind them in the queue and in the inbox is dropped.
OneEscapes == late.fetched <= 1 /\ late.applied <= 1

\* A dump upload is gated by its own setting: whatever happens to the sharing
\* mode on the way, its result is applied, unless the request itself failed.
UploadAnswered == upload = "sent" ~> upload \in {"done", "failed"}
=============================================================================
