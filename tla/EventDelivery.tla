--------------------------- MODULE EventDelivery ---------------------------
(***************************************************************************)
(* The way of a run's events from the log to a browser: the broadcast      *)
(* channel (web_server/broadcaster.rs), one WebSocket connection at a time *)
(* (web_server/ws.rs), and the browser's transport, middleware and store   *)
(* (transport/websocket.ts, stores/event-middleware.ts,                    *)
(* stores/session-store.svelte.ts).                                        *)
(*                                                                         *)
(* A connection has two tasks that send events of the run: a_forward takes *)
(* them from the channel, the command loop replays the log when the client *)
(* subscribes.  They share the session (checkpoint, replay flag, buffer)   *)
(* behind one lock and the socket behind another, and hold neither between *)
(* the steps below.                                                        *)
(***************************************************************************)
EXTENDS EventLog, FiniteSets

CONSTANTS
    ChannelCap,     \* capacity of the broadcast channel
    BufferCap,      \* REPLAY_BUFFER_CAPACITY
    MaxOpens,       \* bound: times the user opens the run
    MaxDrops,       \* bound: lost connections
    MaxRepeats      \* bound: subscriptions of a run already subscribed

ASSUME DeliveryAssumption ==
    /\ ChannelCap \in Nat \ {0}
    /\ BufferCap \in Nat \ {0}
    /\ MaxOpens \in Nat
    /\ MaxDrops \in Nat
    /\ MaxRepeats \in Nat

VARIABLES
    channel,        \* numbers sent and not yet received by a_forward
    lagged,         \* the receiver has been overrun since its last recv
    session,        \* WsSession for the run
    task,           \* what a_forward and the command loop are doing
    up,             \* requests on their way to the server
    down,           \* frames on their way to the browser
    transport,      \* WsTransport: connection and checkpoint
    batch,          \* the middleware's buffer of events for the store
    store,          \* the session store: phase, _lastProcessedSeq, what is shown
    lapses,         \* history: what has happened that the protocol does not repair
    bounds          \* bound counters

serverVars   == <<channel, lagged, session, task>>
clientVars   == <<transport, batch, store>>
deliveryVars == <<serverVars, up, down, clientVars, lapses, bounds>>
vars         == <<logVars, deliveryVars>>

-----------------------------------------------------------------------------
(* Types *)

Tasks     == {"forward", "command"}
NoSession == [on |-> FALSE, cp |-> 0, replaying |-> FALSE, buffer |-> <<>>, hot |-> FALSE]
Sessions  == [on : BOOLEAN, cp : Nat, replaying : BOOLEAN, buffer : Seq(Nat), hot : BOOLEAN]

\* store: gen is _loadGen, reloading the load that a full reload started, if any.
\* task: seq is the event being sent, the seq replayed or flushed from, or the load
\* answered; todo are the numbers still to send; max is max_seq of flush_replay_buffer.
Resting   == [pc |-> "rest", seq |-> 0, todo |-> <<>>, max |-> 0]
TaskPhases == {"rest", "send", "mark", "read", "replay", "flush", "reload", "respond"}
TaskStates == [pc : TaskPhases, seq : Nat, todo : Seq(Nat), max : Nat]

Requests  == [kind : {"subscribe", "unsubscribe", "load"}, seq : Nat]
Frames    == [kind : {"event", "loaded", "reload"}, seq : Nat, list : Seq(Nat)]
EventFrame(seq)       == [kind |-> "event", seq |-> seq, list |-> <<>>]
LoadedFrame(gen, evs) == [kind |-> "loaded", seq |-> gen, list |-> evs]
ReloadFrame           == [kind |-> "reload", seq |-> 0, list |-> <<>>]

StorePhases == {"closed", "loading", "open", "failed"}
Lapses      == {"glued", "disorder", "lagInReplay", "cooldown", "resend", "twoReplays",
                "liveWhileLoading", "reloadLost"}

TypeOK ==
    /\ LogTypeOK
    /\ channel \in Seq(Nat) /\ Len(channel) <= ChannelCap
    /\ lagged \in BOOLEAN
    /\ session \in Sessions /\ Len(session.buffer) <= BufferCap
    /\ task \in [Tasks -> TaskStates]
    /\ up \in Seq(Requests)
    /\ down \in Seq(Frames)
    /\ transport \in [open : BOOLEAN, subscribed : BOOLEAN, lastSeq : Nat]
    /\ batch \in Seq(Nat)
    /\ store \in [phase : StorePhases, processed : Nat, shown : Seq(Nat), gen : Nat,
                  reloading : Nat]
    /\ lapses \subseteq Lapses
    /\ bounds \in [opens : Nat, drops : Nat, repeats : Nat]

Init ==
    /\ LogInit
    /\ channel = <<>>
    /\ lagged = FALSE
    /\ session = NoSession
    /\ task = [t \in Tasks |-> Resting]
    /\ up = <<>>
    /\ down = <<>>
    /\ transport = [open |-> TRUE, subscribed |-> FALSE, lastSeq |-> 0]
    /\ batch = <<>>
    /\ store = [phase |-> "closed", processed |-> 0, shown |-> <<>>, gen |-> 0,
                reloading |-> 0]
    /\ lapses = {}
    /\ bounds = [opens |-> 0, drops |-> 0, repeats |-> 0]

Maximum(a, b) == IF a >= b THEN a ELSE b

-----------------------------------------------------------------------------
(* Emitting: persist_and_emit *)

\* A line is glued to an unfinished one: neither can be read, and their numbers may be
\* handed out again.
Glued == IF torn /\ (file' # file \/ ~torn') THEN {"glued"} ELSE {}

\* write_bus_event_with_ts, whole or failed; the broadcast is a later step.
Persist ==
    /\ \/ \E e \in Emitters : GetWriter(e) \/ WriteFails(e)
       \/ \E e \in Emitters, kind \in Kinds : Write(e, kind)
       \/ CollectWriters
    /\ lapses' = lapses \cup Glued
    /\ UNCHANGED <<serverVars, up, down, clientVars, bounds>>

\* A full channel drops its oldest message and tells the receiver so later.
Broadcast(e) ==
    LET seq == emitter[e].seq
    IN  /\ Finish(e)
        /\ IF ~transport.open THEN UNCHANGED <<channel, lagged>>
           ELSE IF Len(channel) < ChannelCap
           THEN channel' = Append(channel, seq) /\ UNCHANGED lagged
           ELSE channel' = Append(Tail(channel), seq) /\ lagged' = TRUE
        /\ lapses' = IF \E f \in Emitters : emitter[f].pc = "written" /\ emitter[f].seq < seq
                     THEN lapses \cup {"disorder"} ELSE lapses
        /\ UNCHANGED <<session, task, up, down, clientVars, bounds>>

-----------------------------------------------------------------------------
(* The server's side of the connection *)

Checkpoint(seq) ==
    IF session.on THEN [session EXCEPT !.cp = Maximum(@, seq)] ELSE session

\* Variant: the buffer has no bound.
BufferAll(seq) == [session EXCEPT !.buffer = Append(@, seq)]

\* An event for a run being replayed waits in the buffer; a full buffer drops it.
BufferEvent(seq) ==
    IF Len(session.buffer) < BufferCap
    THEN [session EXCEPT !.buffer = Append(@, seq)]
    ELSE session

\* a_forward: recv and the checks under the session's lock.
Receive ==
    LET seq == Head(channel)
    IN  /\ task["forward"].pc = "rest"
        /\ ~lagged
        /\ channel # <<>>
        /\ channel' = Tail(channel)
        /\ session' = IF session.on /\ session.replaying THEN BufferEvent(seq) ELSE session
        /\ task' = IF session.on /\ ~session.replaying /\ seq > session.cp
                   THEN [task EXCEPT !["forward"] = [Resting EXCEPT !.pc = "send", !.seq = seq]]
                   ELSE task
        /\ UNCHANGED <<logVars, lagged, up, down, clientVars, lapses, bounds>>

\* An event is sent to a view that is being loaded, or to one whose subscription is on
\* its way and that has the event from its load, or is not yet expected by the session.
MeetLoad(seq) ==
    lapses' = IF \/ store.phase = "loading"
                 \/ \E i \in DOMAIN up : /\ up[i].kind = "subscribe"
                                         /\ seq <= up[i].seq \/ ~session.on
              THEN lapses \cup {"liveWhileLoading"} ELSE lapses

ForwardSend ==
    /\ task["forward"].pc = "send"
    /\ down' = Append(down, EventFrame(task["forward"].seq))
    /\ task' = [task EXCEPT !["forward"].pc = "mark"]
    /\ MeetLoad(task["forward"].seq)
    /\ UNCHANGED <<logVars, channel, lagged, session, up, clientVars, bounds>>

ForwardMark ==
    /\ task["forward"].pc = "mark"
    /\ session' = Checkpoint(task["forward"].seq)
    /\ task' = [task EXCEPT !["forward"] = Resting]
    /\ UNCHANGED <<logVars, channel, lagged, up, down, clientVars, lapses, bounds>>

Replaying(t) == task[t].pc \in {"read", "replay", "flush"}

StartReplay(t, seq) == [task EXCEPT ![t] = [Resting EXCEPT !.pc = "read", !.seq = seq]]

\* Variant: a lag is logged and nothing is replayed.
IgnoreLag ==
    /\ task["forward"].pc = "rest"
    /\ lagged
    /\ lagged' = FALSE
    /\ UNCHANGED <<logVars, channel, session, task, up, down, clientVars, lapses, bounds>>

\* RecvError::Lagged: replay from the checkpoint, unless a replay is going on.
Catchup ==
    /\ task["forward"].pc = "rest"
    /\ lagged
    /\ lagged' = FALSE
    /\ IF session.on /\ ~session.replaying
       THEN /\ session' = [session EXCEPT !.replaying = TRUE]
            /\ task' = StartReplay("forward", session.cp)
       ELSE UNCHANGED <<session, task>>
    /\ lapses' = lapses
          \cup (IF session.on /\ session.replaying THEN {"lagInReplay"} ELSE {})
          \cup (IF Replaying("command") /\ ~session.replaying THEN {"twoReplays"} ELSE {})
    /\ UNCHANGED <<logVars, channel, up, down, clientVars, bounds>>

\* The numbers in these lines of the file, in its order: the n-th is that of the line with
\* n lines up to it.
Rank(lines, i) == Cardinality({j \in lines : j <= i})
SeqsOf(lines) ==
    [n \in 1..Cardinality(lines) |-> file[CHOOSE i \in lines : Rank(lines, i) = n].seq]

KeptLines == {i \in DOMAIN file : file[i].kind = "kept"}

\* Variant: events from seq on.
ReplayFrom(seq) == SeqsOf({i \in KeptLines : file[i].seq >= seq})

\* list_bus_events: what parses, is newer than seq and has one of the REPLAY_TYPES.
ListBusEvents(seq) == SeqsOf({i \in KeptLines : file[i].seq > seq})

ReadLog(t) ==
    /\ task[t].pc = "read"
    /\ task' = [task EXCEPT ![t].pc = "replay", ![t].todo = ListBusEvents(task[t].seq)]
    /\ UNCHANGED <<logVars, channel, lagged, session, up, down, clientVars, lapses, bounds>>

\* replay_events: one event, and the checkpoint with it.
ReplayEvent(t) ==
    /\ task[t].pc = "replay"
    /\ task[t].todo # <<>>
    /\ down' = Append(down, EventFrame(Head(task[t].todo)))
    /\ session' = Checkpoint(Head(task[t].todo))
    /\ task' = [task EXCEPT ![t].todo = Tail(@)]
    /\ MeetLoad(Head(task[t].todo))
    /\ UNCHANGED <<logVars, channel, lagged, up, clientVars, bounds>>

\* flush_replay_buffer: one event of the batch, unless it has been sent before.
FlushEvent(t) ==
    LET seq == Head(task[t].todo)
    IN  /\ task[t].pc = "flush"
        /\ task[t].todo # <<>>
        /\ \/ /\ seq > task[t].seq
              /\ down' = Append(down, EventFrame(seq))
              /\ task' = [task EXCEPT ![t].todo = Tail(@), ![t].max = Maximum(@, seq)]
              /\ MeetLoad(seq)
           \/ /\ seq <= task[t].seq
              /\ task' = [task EXCEPT ![t].todo = Tail(@)]
              /\ UNCHANGED <<down, lapses>>
        /\ UNCHANGED <<logVars, channel, lagged, session, up, clientVars, bounds>>

\* The buffer was full: what it held is dropped, and the replay ends.
Overflown(s) == [s EXCEPT !.replaying = FALSE, !.buffer = <<>>]

\* flush_replay_buffer, a round under the lock: done, overflown, or a batch to send.
Drain(t) ==
    LET s == Checkpoint(task[t].max)
    IN  /\ task[t].pc \in {"replay", "flush"}
        /\ task[t].todo = <<>>
        /\ \/ /\ s.buffer = <<>>
              /\ session' = [s EXCEPT !.replaying = FALSE]
              /\ task' = [task EXCEPT ![t] = Resting]
           \/ /\ Len(s.buffer) >= BufferCap
              /\ session' = Overflown(s)
              /\ task' = [task EXCEPT ![t] = [Resting EXCEPT !.pc = "reload"]]
           \/ /\ s.buffer # <<>>
              /\ Len(s.buffer) < BufferCap
              /\ session' = [s EXCEPT !.buffer = <<>>]
              /\ task' = [task EXCEPT
                    ![t].pc = "flush",
                    ![t].seq = Maximum(s.cp, task[t].max),
                    ![t].todo = s.buffer]
        /\ UNCHANGED <<logVars, channel, lagged, up, down, clientVars, lapses, bounds>>

\* send_full_reload: at most one in 30 seconds.
SendFullReload(t) ==
    /\ task[t].pc = "reload"
    /\ task' = [task EXCEPT ![t] = Resting]
    /\ IF session.hot
       THEN /\ UNCHANGED <<session, down>>
            /\ lapses' = lapses \cup {"cooldown"}
       ELSE /\ session' = [session EXCEPT !.hot = TRUE]
            /\ down' = Append(down, ReloadFrame)
            /\ UNCHANGED lapses
    /\ UNCHANGED <<logVars, channel, lagged, up, clientVars, bounds>>

CoolDown ==
    /\ session.hot
    /\ session' = [session EXCEPT !.hot = FALSE]
    /\ UNCHANGED <<logVars, channel, lagged, task, up, down, clientVars, lapses, bounds>>

TakeRequest(kind) ==
    /\ task["command"].pc = "rest"
    /\ up # <<>>
    /\ Head(up).kind = kind
    /\ up' = Tail(up)
    /\ UNCHANGED <<logVars, channel, lagged, down, clientVars, bounds>>

\* Variant: replay from what the client says, whatever has been sent since.
LastSeqOfClient(seq) == seq

\* "Monotonic checkpoint: don't regress."
EffectiveSeq(seq) == Maximum(IF session.on THEN session.cp ELSE 0, seq)

Subscribe ==
    LET effective == EffectiveSeq(Head(up).seq)
    IN  /\ TakeRequest("subscribe")
        /\ session' = [session EXCEPT !.on = TRUE, !.cp = effective, !.replaying = TRUE]
        /\ task' = IF session.replaying THEN task ELSE StartReplay("command", effective)
        /\ lapses' = lapses
              \cup (IF task["forward"].pc \in {"send", "mark"} THEN {"resend"} ELSE {})
              \cup (IF Replaying("forward") /\ (~session.replaying \/ effective > session.cp)
                  THEN {"twoReplays"} ELSE {})

Unsubscribe ==
    /\ TakeRequest("unsubscribe")
    /\ session' = NoSession
    /\ UNCHANGED <<task, lapses>>

\* get_bus_events: read, then answered.
Load ==
    /\ TakeRequest("load")
    /\ task' = [task EXCEPT !["command"] = [pc |-> "respond", seq |-> Head(up).seq,
                                            todo |-> ListBusEvents(0), max |-> 0]]
    /\ UNCHANGED <<session, lapses>>

Respond ==
    /\ task["command"].pc = "respond"
    /\ down' = Append(down, LoadedFrame(task["command"].seq, task["command"].todo))
    /\ task' = [task EXCEPT !["command"] = Resting]
    /\ UNCHANGED <<logVars, channel, lagged, session, up, clientVars, lapses, bounds>>

-----------------------------------------------------------------------------
(* The browser *)

SendRequest(kind, seq) ==
    up' = IF transport.open THEN Append(up, [kind |-> kind, seq |-> seq]) ELSE up

\* transport.subscribeRun, on a checkpoint that does not go back.
SubscribeRun(lastSeq) ==
    LET effective == Maximum(transport.lastSeq, lastSeq)
    IN  /\ transport' = [transport EXCEPT !.subscribed = TRUE, !.lastSeq = effective]
        /\ SendRequest("subscribe", effective)

\* loadRun: the view is cleared, the events are asked for.
LoadRun(reloading) ==
    /\ store' = [phase |-> "loading", processed |-> 0, shown |-> <<>>, gen |-> store.gen + 1,
                 reloading |-> IF reloading THEN store.gen + 1 ELSE store.reloading]
    /\ SendRequest("load", store.gen + 1)

OpenRun ==
    /\ store.phase = "closed"
    /\ transport.open
    /\ bounds.opens < MaxOpens
    /\ bounds' = [bounds EXCEPT !.opens = @ + 1]
    /\ LoadRun(FALSE)
    /\ UNCHANGED <<logVars, serverVars, down, transport, batch, lapses>>

\* startSession: a new run has no history to load.
OpenNewRun ==
    /\ store.phase = "closed"
    /\ file = <<>>
    /\ bounds.opens = 0
    /\ bounds.opens < MaxOpens
    /\ bounds' = [bounds EXCEPT !.opens = @ + 1]
    /\ store' = [store EXCEPT !.phase = "open", !.processed = 0, !.shown = <<>>]
    /\ SubscribeRun(0)
    /\ UNCHANGED <<logVars, serverVars, down, batch, lapses>>

\* connectSession subscribes a run that is subscribed.
Repeat ==
    /\ store.phase = "open"
    /\ transport.open
    /\ bounds.repeats < MaxRepeats
    /\ bounds' = [bounds EXCEPT !.repeats = @ + 1]
    /\ SubscribeRun(0)
    /\ UNCHANGED <<logVars, serverVars, down, batch, store, lapses>>

\* The user looks at another run.
CloseRun ==
    /\ store.phase # "closed"
    /\ store' = [store EXCEPT !.phase = "closed", !.processed = 0, !.shown = <<>>]
    /\ batch' = <<>>
    /\ IF transport.subscribed
       THEN /\ transport' = [transport EXCEPT !.subscribed = FALSE, !.lastSeq = 0]
            /\ SendRequest("unsubscribe", 0)
       ELSE UNCHANGED <<transport, up>>
    /\ UNCHANGED <<logVars, serverVars, down, lapses, bounds>>

TakeFrame(kind) ==
    /\ down # <<>>
    /\ Head(down).kind = kind
    /\ down' = Tail(down)
    /\ UNCHANGED <<logVars, serverVars, bounds>>

\* handleMessage and the middleware: the event waits for the next frame of the page.
ReceiveEvent ==
    LET seq == Head(down).seq
    IN  /\ TakeFrame("event")
        /\ transport' = [transport EXCEPT !.lastSeq = Maximum(@, seq)]
        /\ batch' = IF store.phase = "closed" THEN batch ELSE Append(batch, seq)
        /\ lapses' = IF store.phase = "loading" THEN lapses \cup {"liveWhileLoading"} ELSE lapses
        /\ UNCHANGED <<up, store>>

\* _flush: applyEvent for one event, which skips what was processed; applyEventBatch for
\* more, which does not.
FlushBatch ==
    /\ batch # <<>>
    /\ batch' = <<>>
    /\ IF Len(batch) = 1
       THEN store' = IF batch[1] <= store.processed THEN store
                     ELSE [store EXCEPT !.processed = batch[1], !.shown = Append(@, batch[1])]
       ELSE \E newest \in {batch[i] : i \in DOMAIN batch} :
                /\ \A i \in DOMAIN batch : batch[i] <= newest
                /\ store' = [store EXCEPT !.processed = Maximum(@, newest),
                                          !.shown = @ \o batch]
    /\ UNCHANGED <<logVars, serverVars, up, down, transport, lapses, bounds>>

\* The answer to loadRun is applied, unless a newer load has started, and the transport
\* subscribed from its last event.
ReceiveLoaded ==
    LET list == Head(down).list
        last == IF list = <<>> THEN 0 ELSE list[Len(list)]
        s    == IF store.reloading = Head(down).seq THEN [store EXCEPT !.reloading = 0] ELSE store
    IN  /\ TakeFrame("loaded")
        /\ IF store.phase = "loading" /\ store.gen = Head(down).seq
           THEN /\ store' = [s EXCEPT !.phase = "open", !.shown = @ \o list,
                                      !.processed = Maximum(@, last)]
                /\ SubscribeRun(last)
           ELSE store' = s /\ UNCHANGED <<transport, up>>
        /\ UNCHANGED <<batch, lapses>>

\* _full_reload: the checkpoint is forgotten and the run loaded again, once at a time.
ReceiveReload ==
    /\ TakeFrame("reload")
    /\ transport' = [transport EXCEPT !.subscribed = FALSE, !.lastSeq = 0]
    /\ IF store.phase # "closed" /\ store.reloading = 0
       THEN LoadRun(TRUE)
       ELSE UNCHANGED <<store, up>>
    /\ lapses' = IF batch # <<>> THEN lapses \cup {"liveWhileLoading"} ELSE lapses
    /\ UNCHANGED batch

-----------------------------------------------------------------------------
(* Lost connections *)

\* The server has seen a gap and the browser will be told.
ReloadPending ==
    \/ \E t \in Tasks : task[t].pc = "reload"
    \/ \E i \in DOMAIN down : down[i].kind = "reload"

\* Everything the connection held is gone; pending requests are rejected.
DropConnection ==
    /\ channel' = <<>>
    /\ lagged' = FALSE
    /\ session' = NoSession
    /\ task' = [t \in Tasks |-> Resting]
    /\ up' = <<>>
    /\ down' = <<>>
    /\ transport' = [transport EXCEPT !.open = FALSE]
    /\ store' = [store EXCEPT !.reloading = 0,
                              !.phase = IF @ = "loading" THEN "failed" ELSE @]
    /\ UNCHANGED batch

\* A reload the browser was to be told of is forgotten with the connection.
ReloadLost == IF ReloadPending THEN {"reloadLost"} ELSE {}

Disconnect ==
    /\ transport.open
    /\ bounds.drops < MaxDrops
    /\ bounds' = [bounds EXCEPT !.drops = @ + 1]
    /\ DropConnection
    /\ lapses' = lapses \cup ReloadLost
    /\ UNCHANGED logVars

ServerRestart ==
    /\ Restart
    /\ DropConnection
    /\ lapses' = lapses \cup ReloadLost \cup Glued
    /\ UNCHANGED bounds

\* resubscribeAll
Resubscribe ==
    up' = IF transport.subscribed
          THEN <<[kind |-> "subscribe", seq |-> transport.lastSeq]>> ELSE <<>>

Reconnect ==
    /\ ~transport.open
    /\ transport' = [transport EXCEPT !.open = TRUE]
    /\ Resubscribe
    /\ UNCHANGED <<logVars, serverVars, down, batch, store, lapses, bounds>>

-----------------------------------------------------------------------------
Forward == Receive \/ ForwardSend \/ ForwardMark \/ Catchup

ReplayStep(t) == ReadLog(t) \/ ReplayEvent(t) \/ FlushEvent(t) \/ Drain(t) \/ SendFullReload(t)

Command == Subscribe \/ Unsubscribe \/ Load \/ Respond

User == OpenRun \/ OpenNewRun \/ Repeat \/ CloseRun

Browser == ReceiveEvent \/ FlushBatch \/ ReceiveLoaded \/ ReceiveReload

Next ==
    \/ Persist
    \/ \E e \in Emitters : Broadcast(e)
    \/ Forward
    \/ \E t \in Tasks : ReplayStep(t)
    \/ CoolDown
    \/ Command
    \/ User
    \/ Browser
    \/ Disconnect
    \/ ServerRestart
    \/ Reconnect

Spec == Init /\ [][Next]_vars

(***************************************************************************)
(* The server's tasks run when they can, the browser renders its frames,   *)
(* and it reconnects.  Nothing is assumed of the emitters but that a       *)
(* persisted event is broadcast next.                                      *)
(***************************************************************************)
Fairness ==
    /\ \A e \in Emitters : WF_vars(Broadcast(e))
    /\ WF_vars(Forward)
    /\ \A t \in Tasks : WF_vars(ReplayStep(t))
    /\ WF_vars(Command)
    /\ WF_vars(ReceiveEvent \/ ReceiveLoaded \/ ReceiveReload)
    /\ WF_vars(FlushBatch)
    /\ WF_vars(Reconnect)

FairSpec == Spec /\ Fairness

-----------------------------------------------------------------------------
(* Safety *)

Shown == {store.shown[i] : i \in DOMAIN store.shown}

KeptSeqs == {file[i].seq : i \in KeptLines}

InOrder == \A i, j \in DOMAIN store.shown : i < j => store.shown[i] < store.shown[j]

NothingSkipped == \A n \in KeptSeqs : n <= store.processed => n \in Shown

\* A view is held to the promise while it is open, no lapse has happened and the browser
\* is not about to reload it.
Held == store.phase = "open" /\ lapses = {} /\ ~ReloadPending

(***************************************************************************)
(* An open view shows its events in order and once, and every kept event   *)
(* up to the newest one: through replays that meet live events, lags,      *)
(* reloads, reconnects, failed writes and restarts.  The lapses name what  *)
(* the protocol does not repair; without one of them there is no gap.      *)
(***************************************************************************)
ViewIsFaithful == Held => InOrder /\ NothingSkipped

-----------------------------------------------------------------------------
(* Liveness *)

\* Whatever list_bus_events keeps of an open run is shown in the end: a_forward, its
\* catch-up, the full reload and resubscribeAll leave no event behind.
EventuallyShown ==
    \A n \in 1..MaxSeq :
        n \in KeptSeqs ~> n \in Shown \/ store.phase # "open" \/ lapses # {}

-----------------------------------------------------------------------------
(* Refinement *)

\* Of what is shown, the events that are kept, in the order they are shown.
KeptShown == {i \in DOMAIN store.shown : store.shown[i] \in KeptSeqs}
ShownSeqs ==
    [n \in 1..Cardinality(KeptShown) |->
        store.shown[CHOOSE i \in KeptShown : Rank(KeptShown, i) = n]]

Feed == INSTANCE EventFeed WITH
    record <- ListBusEvents(0),
    shown  <- IF Held THEN ShownSeqs ELSE <<>>

\* What a held view shows of the kept events is always a prefix of what list_bus_events
\* reads, and grows until the view is cleared: the seam of replay and live events in ws.rs,
\* the catch-up after a lag, the full reload after an overflow, and resubscription after a
\* lost connection neither skip nor repeat an event, nor take one back.
ImplementsFeed == Feed!Spec

=============================================================================
