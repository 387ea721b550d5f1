----------------------------- MODULE CodexThread -----------------------------
(***************************************************************************)
(* The Codex driver (agent/codex_appserver.rs), the arms of the session    *)
(* actor that use it, and the app-server at the other end of the pipes.    *)
(*                                                                         *)
(* Every action of the actor is one handler run to its end: the actor is   *)
(* one task.  Lines travel in order on two pipes.  Requests of either side *)
(* overlap: up to MaxCalls control calls and MaxAsks prompts are under way *)
(* beside the turn, and a browser may answer a prompt twice.               *)
(*                                                                         *)
(* The app-server is external.  It opens or refuses the thread, keeps the  *)
(* settings of the thread, runs one turn at a time, answers each request   *)
(* with the id it carried, and may die at any time.  The deadlines of a    *)
(* turn and the quarantine are in SessionActor and left out here.          *)
(***************************************************************************)
EXTENDS Naturals, Sequences, FiniteSets

CONSTANTS
    Subtypes,   \* control subtypes the callers of send_session_control use
    Modes,      \* permission modes a user may choose
    Startups,   \* the StartupCtx values a session may be started with
    MaxTurns,   \* bound: user messages
    MaxCalls,   \* bound: control calls
    MaxAsks,    \* bound: prompts of the app-server
    NoVal       \* an absent Option

VARIABLES
    up,             \* the actor loop is running
    driver,         \* CodexAppServer: phase, thread, active, nextId, replay
    pending,        \* CodexAppServer.pending: prompts not answered yet
    clientWaiters,  \* CodexAppServer.client_waiters: JSON-RPC id and control call
    overrides,      \* codex_overrides of the actor
    controlWaiters, \* control_waiters of the actor
    queue,          \* queued_user
    turn,           \* active_turn: the message it is for, 0 for none
    startup,        \* StartupCtx of this session
    toServer,       \* lines written and not yet read by the app-server
    fromServer,     \* lines of the app-server not yet read by the actor
    server,         \* the app-server: its thread's settings, its turn, its prompts
    sent,           \* user messages sent so far
    calls,          \* the control calls, in the order they were made
    answered,       \* how often browsers answered each prompt
    history         \* framed, want: messages written, and the settings then chosen;
                    \* responses: lines written for each prompt

driverVars == <<driver, pending, clientWaiters>>
actorVars  == <<up, overrides, controlWaiters, queue, turn>>
wireVars   == <<toServer, fromServer>>
userVars   == <<sent, calls, answered>>
vars == <<driverVars, actorVars, wireVars, userVars, startup, server, history>>

-----------------------------------------------------------------------------
(* Types *)

DataSubtypes == {"rollback", "fork", "goal_get", "mcp_status", "skills_list",
                 "experimental_feature_list", "model_list"}
TrackedSubtypes == {"compact", "goal_set", "goal_clear"}

\* permission_mode as the settings store it, and as start_session_impl passes it on.
AppModes == {"ask", "plan", "auto_all", "dont_ask"}
CliModes == {"default", "plan", "bypassPermissions", "dontAsk"}

\* roots: the writable directories of the settings ride in the policy.
Policies == [sandbox : {"read-only", "workspace-write", "danger-full-access", "old"},
             roots : BOOLEAN]

ASSUME CodexThreadAssumption ==
    /\ MaxTurns \in Nat /\ MaxCalls \in Nat /\ MaxAsks \in Nat
    /\ Startups \subseteq [resume : BOOLEAN, dirs : BOOLEAN, model : {NoVal, "cfg"},
                            effort : {NoVal, "cfg"}, mode : CliModes]
    /\ Modes \subseteq AppModes
    /\ NoVal \notin {"cfg", "live", "old", "never", "on-request"} \cup AppModes \cup CliModes
    /\ NoVal \notin Policies

Overrides == [model : {NoVal, "cfg", "live"}, effort : {NoVal, "cfg", "live"},
              mode : Modes \cup CliModes \cup {NoVal}]
NoOverrides == [model |-> NoVal, effort |-> NoVal, mode |-> NoVal]

Settings == [model : {NoVal, "cfg", "live", "old"}, effort : {NoVal, "cfg", "live", "old"},
             approval : {NoVal, "never", "on-request", "old"},
             policy : Policies \cup {NoVal}]

Lines == [kind : {"initialize", "thread/start", "thread/resume", "turn/start",
                  "turn/interrupt", "turn/steer", "request", "response",
                  "reply", "thread/started", "turn/started", "turn/completed",
                  "turn/failed", "error", "ask"},
          id : Nat, ref : Nat, ok : BOOLEAN, set : Settings]
NoSettings == [model |-> NoVal, effort |-> NoVal, approval |-> NoVal, policy |-> NoVal]
\* ref: the turn, prompt or control call a line is about.
Line(kind, id, ref) ==
    [kind |-> kind, id |-> id, ref |-> ref, ok |-> TRUE, set |-> NoSettings]

\* got: what the caller was told; of: the call whose reply it was.
Calls == [sub : Subtypes, state : {"waiting", "done"},
          got : {"none", "ok", "noThread", "reply", "timeout", "closed", "writeFailed"},
          of : Nat]
Returned(sub, got) == [sub |-> sub, state |-> "done", got |-> got, of |-> 0]

TypeOK ==
    /\ startup \in Startups
    /\ up \in BOOLEAN
    /\ driver \in [phase : {"Opening", "Ready"}, thread : BOOLEAN, active : 0..MaxTurns,
                   nextId : Nat, replay : BOOLEAN]
    /\ pending \subseteq 1..MaxAsks
    /\ clientWaiters \subseteq [id : Nat, call : 1..MaxCalls]
    /\ overrides \in Overrides
    /\ controlWaiters \subseteq 1..MaxCalls
    /\ queue \in Seq(1..MaxTurns)
    /\ turn \in 0..MaxTurns
    /\ toServer \in Seq(Lines)
    /\ fromServer \in Seq(Lines)
    /\ server \in [alive : BOOLEAN, set : Settings, turn : 0..MaxTurns,
                   open : SUBSET (1..MaxAsks), asked : 0..MaxAsks, refused : BOOLEAN]
    /\ sent \in 0..MaxTurns
    /\ calls \in Seq(Calls) /\ Len(calls) <= MaxCalls
    /\ answered \in [1..MaxAsks -> 0..2]
    /\ history \in [framed : SUBSET (1..MaxTurns), want : [1..MaxTurns -> Overrides],
                    responses : [1..MaxAsks -> Nat]]

-----------------------------------------------------------------------------
(* Conversions *)

CliMode(mode) ==
    CASE mode = "ask"      -> "default"
      [] mode = "auto_all" -> "bypassPermissions"
      [] mode = "dont_ask" -> "dontAsk"
      [] OTHER             -> mode
ApprovalFor(cli) ==
    IF cli \in {"bypassPermissions", "dontAsk"} THEN "never" ELSE "on-request"
SandboxFor(cli) ==
    IF cli = "plan" THEN "read-only"
    ELSE IF cli \in {"bypassPermissions", "dontAsk"} THEN "danger-full-access"
    ELSE "workspace-write"
PolicyFor(sandbox) ==
    [sandbox |-> sandbox, roots |-> sandbox = "workspace-write" /\ startup.dirs]

Or(x, y) == IF x # NoVal THEN x ELSE y

\* The settings a user expects of a turn: the last live choice, else the startup value.
Chosen == [model |-> Or(overrides.model, startup.model),
           effort |-> Or(overrides.effort, startup.effort),
           mode |-> Or(overrides.mode, startup.mode)]

\* Variant: no replay of the startup values.
PickLiveOnly(field) == overrides[field]

\* pick: a live override, else, on the first turn, the startup value.
Pick(field) == Or(overrides[field], IF driver.replay THEN startup[field] ELSE NoVal)
TurnSettings ==
    LET mode == Pick("mode") IN
    [model |-> Pick("model"), effort |-> Pick("effort"),
     approval |-> IF mode = NoVal THEN NoVal ELSE ApprovalFor(CliMode(mode)),
     policy |-> IF mode = NoVal THEN NoVal ELSE PolicyFor(SandboxFor(CliMode(mode)))]
\* thread/start carries neither an effort nor writable roots.
OpenSettings ==
    [model |-> startup.model, effort |-> NoVal,
     approval |-> ApprovalFor(CliMode(startup.mode)),
     policy |-> [sandbox |-> SandboxFor(CliMode(startup.mode)), roots |-> FALSE]]

-----------------------------------------------------------------------------
(* The start of a session *)

\* What a thread from an earlier session was left with.
Old == [model |-> "old", effort |-> "old", approval |-> "old",
        policy |-> [sandbox |-> "old", roots |-> FALSE]]

\* startup_messages, written before the loop starts.
Handshake ==
    <<Line("initialize", 1, 0),
      IF startup.resume THEN Line("thread/resume", 2, 0)
      ELSE [Line("thread/start", 2, 0) EXCEPT !.set = OpenSettings]>>

Init ==
    /\ startup \in Startups
    /\ up = TRUE
    /\ driver = [phase |-> "Opening", thread |-> startup.resume, active |-> 0,
                 nextId |-> 3, replay |-> TRUE]
    /\ pending = {} /\ clientWaiters = {} /\ controlWaiters = {}
    /\ overrides = NoOverrides
    /\ queue = <<>> /\ turn = 0
    /\ toServer = Handshake /\ fromServer = <<>>
    /\ server = [alive |-> TRUE, set |-> IF startup.resume THEN Old ELSE NoSettings,
                 turn |-> 0, open |-> {}, asked |-> 0, refused |-> FALSE]
    /\ sent = 0 /\ calls = <<>>
    /\ answered = [a \in 1..MaxAsks |-> 0]
    /\ history = [framed |-> {}, want |-> [m \in 1..MaxTurns |-> NoOverrides],
                  responses |-> [a \in 1..MaxAsks |-> 0]]

-----------------------------------------------------------------------------
(* Turns *)

\* A write to a process that is gone fails.
CanWrite == server.alive
Write(lines) == toServer' = IF CanWrite THEN toServer \o lines ELSE toServer

\* frame_user_turn and start_user_turn for the first message of q: without a thread
\* nothing is written and the turn starts all the same; a failed write starts none.
StartUserTurn(d, q) ==
    LET m == Head(q)
        framed == d.thread /\ CanWrite
    IN  /\ driver' = IF d.thread THEN [d EXCEPT !.nextId = @ + 1, !.replay = FALSE] ELSE d
        /\ queue' = Tail(q)
        /\ turn' = IF d.thread /\ ~CanWrite THEN 0 ELSE m
        /\ Write(IF d.thread
                 THEN <<[Line("turn/start", d.nextId, m) EXCEPT !.set = TurnSettings]>>
                 ELSE <<>>)
        /\ history' = IF framed THEN [history EXCEPT !.framed = @ \cup {m},
                                                    !.want[m] = Chosen]
                      ELSE history

\* try_dispatch with no active turn; codex_ready follows the phase of the driver.
TryDispatch(d, q) ==
    IF d.phase = "Ready" /\ q # <<>> THEN StartUserTurn(d, q)
    ELSE /\ driver' = d /\ queue' = q /\ turn' = 0
         /\ UNCHANGED <<toServer, history>>

SendMessage ==
    /\ up /\ sent < MaxTurns
    /\ sent' = sent + 1
    /\ IF turn = 0 THEN TryDispatch(driver, Append(queue, sent + 1))
       ELSE /\ queue' = Append(queue, sent + 1)
            /\ UNCHANGED <<driver, turn, toServer, history>>
    /\ UNCHANGED <<pending, clientWaiters, up, overrides, controlWaiters, fromServer,
                   calls, answered, startup, server>>

-----------------------------------------------------------------------------
(* Control calls: handle_codex_control *)

NewCall == Len(calls) + 1
\* The handler answers the caller itself.
Answer(sub, got) == calls' = Append(calls, Returned(sub, got))
CallUnchanged == UNCHANGED <<pending, up, queue, turn, fromServer, sent, answered,
                             startup, server, history>>

\* Variant: the reply is looked up under the id of the JSON-RPC request.
TrackById(call) ==
    /\ driver' = [driver EXCEPT !.nextId = @ + 1]
    /\ clientWaiters' = clientWaiters \cup {[id |-> driver.nextId, call |-> driver.nextId]}
    /\ Write(<<Line("request", driver.nextId, call)>>)
\* Variant: the id is not taken.
TrackSameId(call) ==
    /\ clientWaiters' = {w \in clientWaiters : w.id # driver.nextId}
                          \cup {[id |-> driver.nextId, call |-> call]}
    /\ Write(<<Line("request", driver.nextId, call)>>)
    /\ UNCHANGED driver

\* frame_tracked: an id of our space, remembered until its reply.
Track(call) ==
    /\ driver' = [driver EXCEPT !.nextId = @ + 1]
    /\ clientWaiters' = {w \in clientWaiters : w.id # driver.nextId}
                          \cup {[id |-> driver.nextId, call |-> call]}
    /\ Write(<<Line("request", driver.nextId, call)>>)

\* Variant: without a thread the waiter is registered all the same.
CallForDataUnresolved(sub) ==
    /\ up /\ NewCall <= MaxCalls /\ sub \in DataSubtypes
    /\ IF driver.thread THEN Track(NewCall) ELSE UNCHANGED <<driver, clientWaiters, toServer>>
    /\ controlWaiters' = controlWaiters \cup {NewCall}
    /\ calls' = Append(calls, [Returned(sub, "none") EXCEPT !.state = "waiting"])
    /\ UNCHANGED overrides /\ CallUnchanged

\* The data-returning subtypes: the reply on the wire is the caller's answer.
CallForData(sub) ==
    /\ up /\ NewCall <= MaxCalls /\ sub \in DataSubtypes
    /\ IF ~driver.thread
       THEN /\ Answer(sub, "noThread")
            /\ UNCHANGED <<driver, clientWaiters, controlWaiters, toServer>>
       ELSE /\ Track(NewCall)
            /\ controlWaiters' = controlWaiters \cup {NewCall}
            /\ calls' = Append(calls,
                  IF CanWrite THEN [Returned(sub, "none") EXCEPT !.state = "waiting"]
                  ELSE Returned(sub, "writeFailed"))
    /\ UNCHANGED overrides /\ CallUnchanged

\* Tracked on the wire, but the caller is answered at once.
CallTracked(sub) ==
    /\ up /\ NewCall <= MaxCalls /\ sub \in TrackedSubtypes
    /\ IF driver.thread THEN Track(NewCall)
       ELSE UNCHANGED <<driver, clientWaiters, toServer>>
    /\ Answer(sub, IF driver.thread /\ ~CanWrite THEN "writeFailed" ELSE "ok")
    /\ UNCHANGED <<overrides, controlWaiters>> /\ CallUnchanged

\* turn/interrupt names the thread only; turn/steer names the turn it is meant for.
CallTurn(sub) ==
    LET framed == driver.thread /\ (sub = "steer" => driver.active # 0)
        line == IF sub = "steer" THEN Line("turn/steer", driver.nextId, driver.active)
                ELSE Line("turn/interrupt", driver.nextId, 0)
    IN  /\ up /\ NewCall <= MaxCalls /\ sub \in {"interrupt", "steer"}
        /\ IF framed THEN /\ driver' = [driver EXCEPT !.nextId = @ + 1]
                          /\ Write(<<line>>)
           ELSE UNCHANGED <<driver, toServer>>
        /\ Answer(sub, IF framed /\ ~CanWrite THEN "writeFailed" ELSE "ok")
        /\ UNCHANGED <<clientWaiters, overrides, controlWaiters>> /\ CallUnchanged

Setter(field) == IF field = "model" THEN "set_model" ELSE "set_effort"

\* set_model, set_effort, set_permission_mode: kept for the next turn/start.
CallSet(sub) ==
    /\ up /\ NewCall <= MaxCalls
    /\ \/ \E f \in {"model", "effort"} :
             /\ sub = Setter(f)
             /\ overrides' = [overrides EXCEPT ![f] = "live"]
       \/ \E mode \in Modes :
             /\ sub = "set_permission_mode"
             /\ overrides' = [overrides EXCEPT !.mode = mode]
    /\ Answer(sub, "ok")
    /\ UNCHANGED <<driver, clientWaiters, controlWaiters, toServer>> /\ CallUnchanged

\* send_session_control gives up after ten seconds; the waiter stays in the map.
CallTimesOut(n) ==
    /\ calls[n].state = "waiting"
    /\ calls' = [calls EXCEPT ![n] = Returned(@.sub, "timeout")]
    /\ UNCHANGED <<driverVars, actorVars, wireVars, sent, answered, startup, server, history>>

-----------------------------------------------------------------------------
(* Answers of the browsers *)

\* respond_permission, respond_elicitation, respond_user_input: frame_response takes
\* the prompt out of pending, and answers nothing when it is not there any more.
Respond(a) ==
    /\ up /\ answered[a] < 2
    /\ a \in pending \/ answered[a] > 0
    /\ answered' = [answered EXCEPT ![a] = @ + 1]
    /\ pending' = pending \ {a}
    /\ Write(IF a \in pending THEN <<Line("response", 0, a)>> ELSE <<>>)
    /\ history' = IF a \in pending /\ CanWrite
                  THEN [history EXCEPT !.responses[a] = @ + 1] ELSE history
    /\ UNCHANGED <<driver, clientWaiters, actorVars, fromServer, sent, calls, startup, server>>

-----------------------------------------------------------------------------
(* Lines of the app-server: parse_line and handle_codex_line *)

Incoming(kind) == up /\ fromServer # <<>> /\ Head(fromServer).kind = kind
Consume == fromServer' = Tail(fromServer)
LineUnchanged == UNCHANGED <<up, overrides, sent, answered, startup, server>>

\* A reply to a tracked request goes to the control call that waits for it, if it does.
DeliverReply(line, w) ==
    /\ clientWaiters' = clientWaiters \ {w}
    /\ controlWaiters' = controlWaiters \ {w.call}
    /\ calls' = IF w.call \in controlWaiters /\ calls[w.call].state = "waiting"
                THEN [calls EXCEPT ![w.call] =
                        [Returned(@.sub, "reply") EXCEPT !.of = line.ref]]
                ELSE calls

\* The reply to id 2 opens the thread; it carries the id of a new one.
OpenAck(line) == line.id = 2 /\ line.ok
\* Variant: the id in the reply is not captured.
AfterAckNoThread == [driver EXCEPT !.phase = "Ready"]
AfterAck == [driver EXCEPT !.thread = TRUE, !.phase = "Ready"]

\* The first time the driver is ready, the dispatch gate opens.
ThreadOpens(d) ==
    IF driver.phase = "Opening" THEN TryDispatch(d, queue)
    ELSE driver' = d /\ UNCHANGED <<queue, turn, toServer, history>>

ReadReply ==
    LET line == Head(fromServer)
        waiting == {w \in clientWaiters : w.id = line.id}
    IN  /\ Incoming("reply") /\ Consume
        /\ IF waiting # {}
           THEN /\ \E w \in waiting : DeliverReply(line, w)
                /\ UNCHANGED <<driver, queue, turn, toServer, history>>
           ELSE /\ IF OpenAck(line) THEN ThreadOpens(AfterAck)
                   ELSE UNCHANGED <<driver, queue, turn, toServer, history>>
                /\ UNCHANGED <<clientWaiters, controlWaiters, calls>>
        /\ UNCHANGED pending /\ LineUnchanged

ReadThreadStarted ==
    /\ Incoming("thread/started") /\ Consume
    /\ ThreadOpens(AfterAck)
    /\ UNCHANGED <<pending, clientWaiters, controlWaiters, calls>> /\ LineUnchanged

\* The id of the turn may be missing (ref 0): then the last one known stays.
ReadTurnStarted ==
    /\ Incoming("turn/started") /\ Consume
    /\ driver' = IF Head(fromServer).ref = 0 THEN driver
                 ELSE [driver EXCEPT !.active = Head(fromServer).ref]
    /\ UNCHANGED <<pending, clientWaiters, controlWaiters, queue, turn, toServer, calls,
                   history>> /\ LineUnchanged

TurnOver == [driver EXCEPT !.active = 0]

\* end_turn_and_dispatch.
ReadTurnEnded ==
    /\ Incoming("turn/completed") \/ Incoming("turn/failed")
    /\ Consume
    /\ TryDispatch(TurnOver, queue)
    /\ UNCHANGED <<pending, clientWaiters, controlWaiters, calls>> /\ LineUnchanged

\* ok: the error is one the app-server retries, so the turn goes on.
ReadError ==
    /\ Incoming("error") /\ Consume
    /\ driver' = IF Head(fromServer).ok THEN driver ELSE TurnOver
    /\ UNCHANGED <<pending, clientWaiters, controlWaiters, queue, turn, toServer, calls,
                   history>> /\ LineUnchanged

ReadAsk ==
    /\ Incoming("ask") /\ Consume
    /\ pending' = pending \cup {Head(fromServer).ref}
    /\ UNCHANGED <<driver, clientWaiters, controlWaiters, queue, turn, toServer, calls,
                   history>> /\ LineUnchanged

NoTurnLeft == [server EXCEPT !.turn = 0, !.open = {}]

\* cleanup: every sender in control_waiters is dropped.
EndSession ==
    /\ up' = FALSE
    /\ controlWaiters' = {}
    /\ calls' = [n \in DOMAIN calls |->
         IF calls[n].state = "waiting" THEN Returned(calls[n].sub, "closed") ELSE calls[n]]
    /\ queue' = <<>> /\ turn' = 0
    /\ toServer' = <<>> /\ fromServer' = <<>>
    /\ UNCHANGED <<driverVars, overrides, sent, answered, startup, history>>

Stop == up /\ EndSession /\ server' = [NoTurnLeft EXCEPT !.alive = FALSE]
HandleEof == up /\ ~server.alive /\ fromServer = <<>> /\ EndSession /\ UNCHANGED server

-----------------------------------------------------------------------------
(* The app-server (external) *)

Reads(kinds) == up /\ server.alive /\ toServer # <<>> /\ Head(toServer).kind \in kinds
Request == Head(toServer)
Reply(ok) == [Line("reply", Request.id, Request.ref) EXCEPT !.ok = ok]
Tell(lines) == fromServer' = fromServer \o lines
ServerUnchanged == UNCHANGED <<driverVars, actorVars, userVars, startup, history>>
Served(lines) == toServer' = Tail(toServer) /\ Tell(lines) /\ ServerUnchanged

ServerInitializes == Reads({"initialize"}) /\ Served(<<Reply(TRUE)>>) /\ UNCHANGED server

\* A new thread is announced beside the reply, in either order.
ServerOpensThread ==
    /\ Reads({"thread/start"})
    /\ server' = [server EXCEPT !.set = Request.set]
    /\ \/ Served(<<Reply(TRUE), Line("thread/started", 0, 0)>>)
       \/ Served(<<Line("thread/started", 0, 0), Reply(TRUE)>>)

ServerResumesThread == Reads({"thread/resume"}) /\ Served(<<Reply(TRUE)>>) /\ UNCHANGED server

ServerRefusesThread ==
    /\ Reads({"thread/start", "thread/resume"})
    /\ Served(<<Reply(FALSE)>>)
    /\ server' = [server EXCEPT !.refused = TRUE]

\* What a turn/start carries holds for this turn and the later ones.
Merged(new, old) ==
    [model |-> Or(new.model, old.model), effort |-> Or(new.effort, old.effort),
     approval |-> Or(new.approval, old.approval), policy |-> Or(new.policy, old.policy)]

ServerStartsTurn ==
    /\ Reads({"turn/start"}) /\ server.turn = 0
    /\ server' = [server EXCEPT !.turn = Request.ref, !.set = Merged(Request.set, @)]
    /\ \E id \in {0, Request.ref} : Served(<<Reply(TRUE), Line("turn/started", 0, id)>>)

ServerRefusesTurn ==
    Reads({"turn/start"}) /\ Served(<<Reply(FALSE)>>) /\ UNCHANGED server

ServerInterrupts ==
    /\ Reads({"turn/interrupt"})
    /\ IF server.turn = 0 THEN Served(<<Reply(FALSE)>>) /\ UNCHANGED server
       ELSE /\ Served(<<Reply(TRUE), Line("turn/completed", 0, server.turn)>>)
            /\ server' = NoTurnLeft

ServerSteers ==
    /\ Reads({"turn/steer"})
    /\ Served(<<Reply(Request.ref = server.turn)>>) /\ UNCHANGED server

\* A result or an error; parse_line passes on either alike.
ServerServes == Reads({"request"}) /\ Served(<<Reply(TRUE)>>) /\ UNCHANGED server

\* An answer to a prompt that is gone is ignored.
ServerTakesAnswer ==
    /\ Reads({"response"})
    /\ server' = [server EXCEPT !.open = @ \ {Request.ref}]
    /\ Served(<<>>)

InTurn == up /\ server.alive /\ server.turn # 0

ServerAsks ==
    /\ InTurn /\ server.asked < MaxAsks
    /\ server' = [server EXCEPT !.asked = @ + 1, !.open = @ \cup {server.asked + 1}]
    /\ Tell(<<Line("ask", server.asked + 1, server.asked + 1)>>)
    /\ UNCHANGED toServer /\ ServerUnchanged

\* A turn ends when nothing is asked of the user, perhaps after an error it retried.
ServerCompletesTurn ==
    /\ InTurn /\ server.open = {}
    /\ \/ Tell(<<Line("turn/completed", 0, server.turn)>>)
       \/ Tell(<<Line("error", 0, 0), Line("turn/completed", 0, server.turn)>>)
    /\ server' = NoTurnLeft
    /\ UNCHANGED toServer /\ ServerUnchanged

\* It may fail at any time, the prompts it had open with it.
ServerFailsTurn ==
    /\ InTurn
    /\ \/ Tell(<<Line("turn/failed", 0, server.turn)>>)
       \/ Tell(<<[Line("error", 0, 0) EXCEPT !.ok = FALSE],
                 Line("turn/failed", 0, server.turn)>>)
    /\ server' = NoTurnLeft
    /\ UNCHANGED toServer /\ ServerUnchanged

ServerDies ==
    /\ up /\ server.alive
    /\ server' = [NoTurnLeft EXCEPT !.alive = FALSE]
    /\ toServer' = <<>>
    /\ UNCHANGED fromServer /\ ServerUnchanged

-----------------------------------------------------------------------------
Call ==
    \E sub \in Subtypes :
        CallForData(sub) \/ CallTracked(sub) \/ CallTurn(sub) \/ CallSet(sub)

ReadLine ==
    \/ ReadReply \/ ReadThreadStarted \/ ReadTurnStarted
    \/ ReadTurnEnded \/ ReadError \/ ReadAsk

Serve ==
    \/ ServerInitializes \/ ServerOpensThread \/ ServerResumesThread
    \/ ServerRefusesThread \/ ServerStartsTurn \/ ServerRefusesTurn
    \/ ServerInterrupts \/ ServerSteers \/ ServerServes
    \/ ServerTakesAnswer

Next ==
    \/ SendMessage \/ Call
    \/ \E n \in DOMAIN calls : CallTimesOut(n)
    \/ \E a \in 1..MaxAsks : Respond(a)
    \/ ReadLine \/ Stop \/ HandleEof
    \/ Serve \/ ServerAsks \/ ServerCompletesTurn \/ ServerFailsTurn \/ ServerDies

Spec == Init /\ [][Next]_vars

\* The actor keeps reading, and the app-server keeps reading its pipe; neither is
\* bound to end a turn, and no caller is bound to give up.
FairSpec == Spec /\ WF_vars(ReadLine) /\ WF_vars(HandleEof) /\ WF_vars(Serve)

-----------------------------------------------------------------------------
(* Properties *)

\* A turn runs with the model, effort, approval policy, sandbox and writable roots its
\* user had chosen when it was dispatched: a live choice, else the value the session
\* was started with.  thread/resume carries none of them and thread/start not all, so
\* this is what the one-shot replay of frame_user_turn is for.
SettingsReachThread ==
    server.turn # 0 =>
        LET want == history.want[server.turn] IN
        /\ want.model # NoVal => server.set.model = want.model
        /\ want.effort # NoVal => server.set.effort = want.effort
        /\ server.set.approval = ApprovalFor(CliMode(want.mode))
        /\ server.set.policy = PolicyFor(SandboxFor(CliMode(want.mode)))

\* A message whose turn the actor holds for started was written as a turn/start; none is
\* dropped because the driver became ready before it knew its thread (parse_line,
\* frame_user_turn).  And the turn a steer would name is that turn: its id does not outlive
\* it (active_turn_id, cleared by completion, failure and final error).
TurnOnWire ==
    /\ turn # 0 => turn \in history.framed
    /\ up /\ driver.active # 0 => driver.active = turn

\* A control call is given the reply to the request it made and to no other, whatever
\* calls, steers, interrupts and turns took ids in between (next_id, client_waiters); and
\* a prompt is answered once on the wire, however many browsers answer it (frame_response
\* takes it out of pending).
OwnReply ==
    /\ \A n \in DOMAIN calls : calls[n].got = "reply" => calls[n].of = n
    /\ \A a \in 1..MaxAsks : history.responses[a] <= 1

CallIs(n, state) == n \in DOMAIN calls /\ calls[n].state = state

\* Every control call returns without its timeout, as long as both sides keep reading:
\* with its reply, an answer of the actor, or an error when the session ends.
CallReturns ==
    \A n \in 1..MaxCalls :
        CallIs(n, "waiting") ~> CallIs(n, "done")
=============================================================================
