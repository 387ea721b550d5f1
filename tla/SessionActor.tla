---------------------------- MODULE SessionActor ----------------------------
(***************************************************************************)
(* One session actor (agent/session_actor.rs with the turn engine of       *)
(* agent/turn_engine.rs) and the CLI process it drives.                    *)
(*                                                                         *)
(* The actor is one task in a select! loop, so each arm of the loop, run   *)
(* to the end of its handler, is one action here.  The CLI is external: it *)
(* reads lines from a pipe, works on one user line at a time, and answers  *)
(* each with one result line, unless it dies or stays silent.              *)
(*                                                                         *)
(* Time is abstract.  A deadline is "armed" until a separate action lets   *)
(* it pass; activity on stdout re-arms the deadline of a turn.             *)
(*                                                                         *)
(* Internal (auto-context) turns are left out of the actions: the only     *)
(* statement that queued one sits in the disabled block of                 *)
(* on_user_turn_finished, so the internal queue is always empty.           *)
(***************************************************************************)
EXTENDS Naturals, Sequences

CONSTANTS
    Messages,       \* user messages that may be sent, each at most once
    Codex,          \* TRUE: Codex app-server transport, FALSE: Claude stream-json
    CliMayHang,     \* TRUE: a turn may be silent until its hard deadline
    RalphMax,       \* values of max_iterations a user may ask for; 0 = unlimited
    RalphPromise,   \* whether a user may give, or leave out, a completion promise
    BaseIndex,      \* user messages already in the log when the actor starts
    MaxLoops,       \* bound: Ralph loops started in one behaviour
    MaxInterrupts,  \* bound: user interrupts sent in one behaviour
    MaxIndex        \* bound: turns with a larger index neither hang nor succeed

ASSUME ConstantsAssumption ==
    /\ Codex \in BOOLEAN
    /\ CliMayHang \in BOOLEAN
    /\ RalphMax \subseteq Nat
    /\ RalphPromise \subseteq BOOLEAN
    /\ BaseIndex \in Nat
    /\ MaxLoops \in Nat
    /\ MaxInterrupts \in Nat
    /\ MaxIndex \in Nat

VARIABLES
    ended,             \* "no" while the loop runs, else why it ended
    active,           \* active_turn; origin "none" when there is none
    queue,            \* queued_user: the tickets waiting for a turn
    ralph,            \* ralph_loop; phase "off" when it is None
    nextIndex,        \* next_turn_index
    quarantine,       \* quarantine_until_result, its interrupt and its deadline
    pendingInterrupt, \* pending_interrupt
    protocol,         \* got_result_event and result_subtype of ProtocolState
    codexReady,       \* codex_ready
    run,              \* last RunState emitted, and meta.json
    reply,            \* what the caller of each message has been told
    delivered,        \* the callers' messages among the UserMessage events
    userEvents,       \* number of UserMessage events of this run
    proc,             \* the CLI process
    stdin,            \* lines written to the CLI and not yet read by it
    work,             \* the turn the CLI is working on
    stdout,           \* lines of the CLI not yet read by the actor
    lastResult,       \* history: outcome of the last turn result the actor read
    loops,            \* bound counter: Ralph loops started
    interrupts        \* bound counter: user interrupts

actorVars == <<ended, active, queue, ralph, nextIndex, quarantine,
               pendingInterrupt, protocol, codexReady>>
outVars   == <<run, reply, delivered, userEvents>>
cliVars   == <<proc, stdin, work, stdout>>
auxVars   == <<lastResult, loops, interrupts>>
vars      == <<actorVars, outVars, cliVars, auxVars>>

-----------------------------------------------------------------------------
(* Types *)

\* Why the loop ended; "cancelled" is an end of file after the application's token fired.
Exits       == {"no", "eof", "cancelled", "killed", "stopped"}
Origins     == {"none", "user", "ralph", "internal"}
\* due: hard_deadline has passed.  asked (history): the user interrupted this turn.
Turns       == [origin : Origins, index : Nat, due : BOOLEAN, asked : BOOLEAN]
NewTurn(o, i) == [origin |-> o, index |-> i, due |-> FALSE, asked |-> FALSE]
NoTurn      == NewTurn("none", 0)
HasTurn     == active.origin # "none"
IsInternalTurn == active.origin = "internal"

Tickets     == [msg : Messages, index : Nat]

\* RalphPhase; the two "Paused" values are PausedByUser{was}.
Phases      == {"off", "Running", "WaitingRetry", "PausedRunning",
                "PausedRetry", "CancelPending"}
Reasons     == {"none", "MaxIterations", "CompletionPromise", "Cancelled", "FailStopped"}
Deadlines   == {"none", "armed", "due"}
\* promise: a completion_promise was given.  heard: turn_toplevel_texts holds it.
\* reason: of the last RalphComplete event.  History fields: asked (a cancel of
\* this loop was accepted) and said (the CLI said the promise in this turn).
RalphLoops  == [phase : Phases, iteration : Nat, max : Nat, failures : Nat,
                retry : Deadlines, promise : BOOLEAN, heard : BOOLEAN,
                reason : Reasons, asked : BOOLEAN, said : BOOLEAN]
StartedLoop(max, promise) ==
    [phase |-> "Running", iteration |-> 0, max |-> max, failures |-> 0,
     retry |-> "none", promise |-> promise, heard |-> FALSE,
     reason |-> "none", asked |-> FALSE, said |-> FALSE]
NoLoop      == [StartedLoop(0, FALSE) EXCEPT !.phase = "off"]
LoopActive  == ralph.phase # "off"
MaxConsecutiveFailures == 3

Quarantines == {"off", "entered", "armed", "due"}
Quarantined == quarantine # "off"

\* RunState strings; "unset" (an empty string in the code) before the first one.
RunStates   == {"unset", "running", "idle", "completed", "failed", "stopped"}
Statuses    == {"Running", "Idle", "Completed", "Failed", "Stopped"}
RunRecords  == [state : RunStates, status : Statuses, subtype : BOOLEAN]
Replies     == [Messages -> {"none", "pending", "ok", "err"}]
Terminal    == {"Completed", "Failed", "Stopped"}

StdinLines  == [kind : {"turn", "interrupt", "quarantineInterrupt"}, index : Nat]
StdoutLines == [kind : {"ready", "text", "promise", "ok", "error", "ack"}, index : Nat]
NoWork      == [busy |-> FALSE, index |-> 0, spoke |-> FALSE]
IsResult(line) == line.kind \in {"ok", "error", "ack"}

TypeOK ==
    /\ ended \in Exits
    /\ active \in Turns
    /\ queue \in Seq(Tickets)
    /\ ralph \in RalphLoops
    /\ nextIndex \in Nat
    /\ quarantine \in Quarantines
    /\ pendingInterrupt \in BOOLEAN
    /\ protocol \in [got : BOOLEAN, subtype : BOOLEAN]
    /\ codexReady \in BOOLEAN
    /\ run \in RunRecords
    /\ reply \in Replies
    /\ delivered \in Seq(Messages)
    /\ userEvents \in Nat
    /\ proc \in {"alive", "exited0", "exited1"}
    /\ stdin \in Seq(StdinLines)
    /\ work \in [busy : BOOLEAN, index : Nat, spoke : BOOLEAN]
    /\ stdout \in Seq(StdoutLines)
    /\ lastResult \in {"none", "ok", "error", "interrupted"}
    /\ loops \in Nat
    /\ interrupts \in Nat

\* spawn_actor; start_session has already set the status of the run to Running.
Init ==
    /\ ended = "no"
    /\ active = NoTurn
    /\ queue = <<>>
    /\ ralph = NoLoop
    /\ nextIndex = BaseIndex
    /\ quarantine = "off"
    /\ pendingInterrupt = FALSE
    /\ protocol = [got |-> FALSE, subtype |-> FALSE]
    /\ codexReady = FALSE
    /\ run = [state |-> "unset", status |-> "Running", subtype |-> FALSE]
    /\ reply = [m \in Messages |-> "none"]
    /\ delivered = <<>>
    /\ userEvents = BaseIndex
    /\ proc = "alive"
    /\ stdin = <<>>
    /\ work = NoWork
    /\ stdout = <<>>
    /\ lastResult = "none"
    /\ loops = 0
    /\ interrupts = 0

-----------------------------------------------------------------------------
(* RunState and meta.json *)

\* emit_state: skipped when the state is the current one; meta.json follows on request.
StatusOf(state) == CASE state = "running"   -> "Running"
                     [] state = "idle"      -> "Idle"
                     [] state = "completed" -> "Completed"
                     [] state = "stopped"   -> "Stopped"
                     [] OTHER               -> "Failed"

EmitState(r, state, updateMeta) ==
    IF r.state = state THEN r
    ELSE IF ~updateMeta THEN [r EXCEPT !.state = state]
    ELSE [state   |-> state,
          status  |-> StatusOf(state),
          subtype |-> CASE state = "running" -> FALSE
                        [] state = "failed"  -> protocol.subtype
                        [] OTHER             -> r.subtype]

\* Variant: the RunState string is written where the status belongs.
PersistState(r, target) == [r EXCEPT !.status = r.state]

\* persist_idle_running: only between Running and Idle.
PersistIdleRunning(r, target) ==
    IF r.status \in {"Running", "Idle"} THEN [r EXCEPT !.status = target] ELSE r

AnnounceRunning(r) == PersistIdleRunning(EmitState(r, "running", FALSE), "Running")

-----------------------------------------------------------------------------
(* The Ralph loop *)

\* emit_ralph_complete; the loop is gone, its reason and iteration are in the event.
EmitRalphComplete(r, reason) == [r EXCEPT !.phase = "off", !.reason = reason]

\* Variant: retry_after is left unset.
RalphFailureNoRetry(r) ==
    LET f == [r EXCEPT !.failures = @ + 1]
    IN  IF f.failures >= MaxConsecutiveFailures
        THEN EmitRalphComplete(f, "FailStopped")
        ELSE [f EXCEPT !.phase = "WaitingRetry"]

\* A failed prompt: the third in a row ends the loop, the others back off.
RalphFailure(r) ==
    LET f == [r EXCEPT !.failures = @ + 1]
    IN  IF f.failures >= MaxConsecutiveFailures
        THEN EmitRalphComplete(f, "FailStopped")
        ELSE [f EXCEPT !.phase = "WaitingRetry", !.retry = "armed"]

\* Variant: a pending cancel is forgotten when the turn fails.
RalphTurnFailedAnyway(r) == RalphFailure(r)

RalphTurnFailed(r) ==
    IF r.phase = "CancelPending" THEN EmitRalphComplete(r, "Cancelled") ELSE RalphFailure(r)

\* Variant: one iteration too many.
LimitExceeded(r) == r.max > 0 /\ r.iteration > r.max

LimitReached(r) == r.max > 0 /\ r.iteration >= r.max

RalphTurnOk(r) ==
    LET i == [r EXCEPT !.failures = 0, !.iteration = @ + 1]
    IN  IF LimitReached(i) THEN EmitRalphComplete(i, "MaxIterations")
        ELSE IF i.promise /\ i.heard THEN EmitRalphComplete(i, "CompletionPromise")
        ELSE IF i.phase = "CancelPending" THEN EmitRalphComplete(i, "Cancelled")
        ELSE i

ResumeRalph(r) ==
    CASE r.phase = "PausedRunning" -> [r EXCEPT !.phase = "Running"]
      [] r.phase = "PausedRetry"   -> [r EXCEPT !.phase = "WaitingRetry"]
      [] OTHER                     -> r

PauseRalph(r) ==
    CASE r.phase = "Running"      -> [r EXCEPT !.phase = "PausedRunning"]
      [] r.phase = "WaitingRetry" -> [r EXCEPT !.phase = "PausedRetry"]
      [] OTHER                    -> r

RalphOnTurnEnd(r, origin, failed) ==
    CASE r.phase = "off"    -> r
      [] r.phase # "off" /\ origin = "ralph" ->
            IF failed THEN RalphTurnFailed(r) ELSE RalphTurnOk(r)
      [] r.phase # "off" /\ origin = "user"  -> ResumeRalph(r)
      [] OTHER              -> r

\* try_dispatch: the loop has a prompt to send now.
RalphWantsTurn(r) == r.phase = "Running" \/ (r.phase = "WaitingRetry" /\ r.retry = "due")

-----------------------------------------------------------------------------
(***************************************************************************)
(* Dispatch.  The operators below take the values that the handler calling *)
(* try_dispatch has computed so far: the turn a, the queue q, the loop r,  *)
(* the next turn index n, the callers' replies p and the run record m.     *)
(***************************************************************************)

\* Writes fail once the process is gone.
CanWrite == proc = "alive"

\* Nothing is started: the values computed so far are the new state.
NoDispatch(a, q, r, n, p, m) ==
    /\ active' = a
    /\ queue' = q
    /\ ralph' = r
    /\ nextIndex' = n
    /\ reply' = p
    /\ run' = m
    /\ UNCHANGED <<stdin, delivered, userEvents>>

StartUserTurn(t, q, r, n, p, m) ==
    /\ queue' = q
    /\ ralph' = r
    /\ nextIndex' = n
    /\ IF CanWrite
       THEN /\ active' = NewTurn("user", t.index)
            /\ stdin' = Append(stdin, [kind |-> "turn", index |-> t.index])
            /\ delivered' = Append(delivered, t.msg)
            /\ userEvents' = userEvents + 1
            /\ reply' = [p EXCEPT ![t.msg] = "ok"]
            /\ run' = AnnounceRunning(m)
       ELSE /\ active' = NoTurn
            /\ reply' = [p EXCEPT ![t.msg] = "err"]
            /\ run' = m
            /\ UNCHANGED <<stdin, delivered, userEvents>>

StartRalphTurn(q, r, n, p, m) ==
    /\ queue' = q
    /\ nextIndex' = n + 1
    /\ reply' = p
    /\ UNCHANGED delivered
    /\ IF CanWrite
       THEN /\ active' = NewTurn("ralph", n)
            /\ ralph' = [r EXCEPT !.heard = FALSE, !.said = FALSE]
            /\ stdin' = Append(stdin, [kind |-> "turn", index |-> n])
            /\ userEvents' = userEvents + 1
            /\ run' = AnnounceRunning(m)
       ELSE /\ active' = NoTurn
            /\ ralph' = RalphFailure([r EXCEPT !.heard = FALSE, !.said = FALSE])
            /\ run' = m
            /\ UNCHANGED <<stdin, userEvents>>

\* Variants: an active turn, or a quarantine, does not hold dispatch back.
DispatchInTurn(a) == quarantine' = "off" /\ (Codex => codexReady')
DispatchInQuarantine(a) == a.origin = "none" /\ (Codex => codexReady')

\* "HC #1: One turn at a time", after the handler has set quarantine' and codexReady'.
MayDispatch(a) ==
    /\ a.origin = "none"
    /\ quarantine' = "off"
    /\ Codex => codexReady'

RestartedRalph(r) == [r EXCEPT !.phase = "Running", !.retry = "none"]

\* Variant: the loop goes before the users.
TryDispatchRalphFirst(a, q, r, n, p, m) ==
    IF ~MayDispatch(a) \/ (q = <<>> /\ ~RalphWantsTurn(r)) THEN NoDispatch(a, q, r, n, p, m)
    ELSE IF RalphWantsTurn(r) THEN StartRalphTurn(q, RestartedRalph(r), n, p, m)
    ELSE StartUserTurn(Head(q), Tail(q), PauseRalph(r), n, p, m)

TryDispatch(a, q, r, n, p, m) ==
    IF ~MayDispatch(a) \/ (q = <<>> /\ ~RalphWantsTurn(r)) THEN NoDispatch(a, q, r, n, p, m)
    ELSE IF q # <<>> THEN StartUserTurn(Head(q), Tail(q), PauseRalph(r), n, p, m)
    ELSE StartRalphTurn(q, RestartedRalph(r), n, p, m)

-----------------------------------------------------------------------------
(* Commands *)

\* Variant: the newest ticket goes first.
PushFront(t) == <<t>> \o queue

PushBack(t) == Append(queue, t)

HandleSendMessage(m) ==
    /\ ended = "no"
    /\ reply[m] = "none"
    /\ UNCHANGED <<ended, quarantine, pendingInterrupt, protocol, codexReady,
                   proc, work, stdout, auxVars>>
    /\ TryDispatch(active, PushBack([msg |-> m, index |-> nextIndex]), ralph,
                   nextIndex + 1, [reply EXCEPT ![m] = "pending"], run)

\* The chat page refuses the command for Codex sessions.
StartRalphLoop(max, promise) ==
    /\ ended = "no"
    /\ ~Codex
    /\ ~LoopActive
    /\ loops < MaxLoops
    /\ loops' = loops + 1
    /\ UNCHANGED <<ended, quarantine, pendingInterrupt, protocol, codexReady,
                   proc, work, stdout, lastResult, interrupts>>
    /\ TryDispatch(active, queue, StartedLoop(max, promise), nextIndex, reply, run)

CancelRalphLoop ==
    /\ ended = "no"
    /\ LoopActive
    /\ LET r == [ralph EXCEPT !.asked = TRUE]
       IN  ralph' = IF active.origin = "ralph"
                    THEN [r EXCEPT !.phase = "CancelPending"]
                    ELSE EmitRalphComplete(r, "Cancelled")
    /\ UNCHANGED <<ended, active, queue, nextIndex, quarantine, pendingInterrupt, protocol,
                   codexReady, outVars, cliVars, auxVars>>

(***************************************************************************)
(* handle_send_control_async / handle_codex_control with "interrupt".      *)
(* Claude: the flag is set whatever the actor is doing, before the write.  *)
(* Codex: nothing is sent before the thread id is known, which a resumed   *)
(* session knows before the server says so.                                *)
(***************************************************************************)
SendInterrupt ==
    /\ ended = "no"
    /\ interrupts < MaxInterrupts
    /\ interrupts' = interrupts + 1
    /\ pendingInterrupt' = ~Codex
    /\ active' = [active EXCEPT !.asked = HasTurn]
    /\ \/ /\ CanWrite
          /\ stdin' = Append(stdin, [kind |-> "interrupt", index |-> 0])
       \/ /\ ~CanWrite \/ (Codex /\ ~codexReady)
          /\ UNCHANGED stdin
    /\ UNCHANGED <<ended, queue, ralph, nextIndex, quarantine, protocol, codexReady,
                   outVars, proc, work, stdout, lastResult, loops>>

-----------------------------------------------------------------------------
(* The end of the loop *)

\* Variant: nobody tells the callers that still wait.
LeavePendingReplies == reply

\* fail_all_pending_replies (HC #12): the queue is emptied with it.
FailAllPendingReplies ==
    [m \in Messages |-> IF reply[m] = "pending" THEN "err" ELSE reply[m]]

(***************************************************************************)
(* The loop breaks and cleanup runs: every queued ticket is answered, the  *)
(* pipes are dropped and the child, if it still runs, dies with them.      *)
(***************************************************************************)
EndLoop(why, m) ==
    /\ ended' = why
    /\ run' = m
    /\ active' = NoTurn
    /\ queue' = <<>>
    /\ quarantine' = "off"
    /\ reply' = FailAllPendingReplies
    /\ proc' = IF proc = "alive" THEN "exited1" ELSE proc
    /\ stdin' = <<>>
    /\ work' = NoWork
    /\ stdout' = <<>>
    /\ UNCHANGED <<ralph, nextIndex, pendingInterrupt, protocol, codexReady,
                   delivered, userEvents, auxVars>>

\* ActorCommand::Stop, or the cancellation token seen by select!.
HandleStop == ended = "no" /\ EndLoop("stopped", run)

\* Variant: the exit code is not looked at.
ExitStateAnyCode(why) == IF why = "cancelled" THEN "stopped" ELSE "completed"

ExitState(why) == IF why = "cancelled" THEN "stopped"
                  ELSE IF proc = "exited0" THEN "completed" ELSE "failed"

\* finalize_meta: no RunState event, the status from the stored subtype and the exit code.
FinalizeMeta(m) ==
    [m EXCEPT !.status = IF ~m.subtype /\ proc = "exited0" THEN "Completed" ELSE "Failed"]

\* handle_eof; select! may take this branch although the token has fired.
HandleEof(why) ==
    /\ ended = "no"
    /\ proc # "alive"
    /\ stdout = <<>>
    /\ EndLoop(why, IF protocol.got THEN FinalizeMeta(run)
                                    ELSE EmitState(run, ExitState(why), TRUE))

-----------------------------------------------------------------------------
(* The 250 ms tick: on_tick_timeout, and the dispatch that may follow it *)

TickHardTimeout ==
    /\ ended = "no"
    /\ ~Quarantined
    /\ HasTurn
    /\ active.due
    /\ active' = NoTurn
    /\ quarantine' = "entered"
    /\ UNCHANGED <<ended, queue, ralph, nextIndex, pendingInterrupt, protocol,
                   codexReady, outVars, cliVars, auxVars>>

\* Variant: the interrupt is sent, no quarantine_deadline is set.
InterruptWithoutDeadline ==
    /\ ended = "no"
    /\ quarantine = "entered"
    /\ quarantine' = "sent"
    /\ UNCHANGED <<ended, active, queue, ralph, nextIndex, pendingInterrupt, protocol,
                   codexReady, outVars, cliVars, auxVars>>

\* send_interrupt_to_cli, in the stream-json framing on either transport.
TickQuarantineInterrupt ==
    /\ ended = "no"
    /\ quarantine = "entered"
    /\ quarantine' = "armed"
    /\ stdin' = IF CanWrite
                THEN Append(stdin, [kind |-> "quarantineInterrupt", index |-> 0])
                ELSE stdin
    /\ UNCHANGED <<ended, active, queue, ralph, nextIndex, pendingInterrupt, protocol,
                   codexReady, outVars, proc, work, stdout, auxVars>>

TickQuarantineKill ==
    /\ ended = "no"
    /\ quarantine = "due"
    /\ EndLoop("killed", EmitState(run, "failed", TRUE))

TickRalphRetry ==
    /\ ended = "no"
    /\ ~Quarantined
    /\ ~HasTurn
    /\ ralph.phase = "WaitingRetry"
    /\ ralph.retry = "due"
    /\ UNCHANGED <<ended, quarantine, pendingInterrupt, protocol, codexReady,
                   proc, work, stdout, auxVars>>
    /\ TryDispatch(active, queue, ralph, nextIndex, reply, run)

\* Time passes: the deadline of a turn, of the quarantine, of a backoff.
ElapseTurn ==
    /\ CliMayHang
    /\ active.index <= MaxIndex
    /\ ended = "no"
    /\ HasTurn
    /\ ~active.due
    /\ active' = [active EXCEPT !.due = TRUE]
    /\ UNCHANGED <<ended, queue, ralph, nextIndex, quarantine, pendingInterrupt, protocol,
                   codexReady, outVars, cliVars, auxVars>>

ElapseQuarantine ==
    /\ ended = "no"
    /\ quarantine = "armed"
    /\ quarantine' = "due"
    /\ UNCHANGED <<ended, active, queue, ralph, nextIndex, pendingInterrupt, protocol,
                   codexReady, outVars, cliVars, auxVars>>

ElapseBackoff ==
    /\ ended = "no"
    /\ LoopActive
    /\ ralph.retry = "armed"
    /\ ralph' = [ralph EXCEPT !.retry = "due"]
    /\ UNCHANGED <<ended, active, queue, nextIndex, quarantine, pendingInterrupt, protocol,
                   codexReady, outVars, cliVars, auxVars>>

-----------------------------------------------------------------------------
(* stdout *)

NextLine == Head(stdout)

ReadLine == ended = "no" /\ stdout # <<>> /\ stdout' = Tail(stdout)

(***************************************************************************)
(* A line that does not end a turn.  It re-arms the turn's deadline except *)
(* in quarantine, where it is swallowed.  Assistant text is collected for  *)
(* the loop's completion promise in the branch of handle_stdout_line that  *)
(* the code has for it: the branch for internal turns.                     *)
(***************************************************************************)
HandleOutput ==
    /\ ReadLine
    /\ NextLine.kind \in {"text", "promise"}
    /\ IF Quarantined THEN UNCHANGED <<active, ralph>>
       ELSE /\ active' = [active EXCEPT !.due = FALSE]
            /\ ralph' = [ralph EXCEPT
                  !.said  = @ \/ (NextLine.kind = "promise" /\ active.origin = "ralph"),
                  !.heard = @ \/ (/\ NextLine.kind = "promise"
                                  /\ IsInternalTurn
                                  /\ active.origin = "ralph")]
    /\ UNCHANGED <<ended, queue, nextIndex, quarantine, pendingInterrupt, protocol,
                   codexReady, outVars, proc, stdin, work, auxVars>>

\* The parser of claude_protocol.rs: an error result is remembered, a success forgets nothing.
ParsedResult ==
    [got     |-> protocol.got \/ NextLine.kind # "ok",
     subtype |-> protocol.subtype \/ NextLine.kind # "ok"]

\* Variant: the error tracking outlives the interrupt.
KeepErrors == protocol

\* Interrupt branch: error tracking is cleared.
ClearedErrors == [got |-> FALSE, subtype |-> FALSE]

(***************************************************************************)
(* Claude: a result line (RunState idle) outside quarantine.  An error is  *)
(* remembered by the parser, dropped when the user asked for an interrupt, *)
(* and persisted whenever the parser still holds one.                      *)
(***************************************************************************)
HandleTurnResult ==
    LET isError  == NextLine.kind # "ok"
        after    == IF pendingInterrupt THEN ClearedErrors ELSE ParsedResult
        idle     == PersistIdleRunning(EmitState(run, "idle", FALSE), "Idle")
        m        == IF after.subtype THEN [idle EXCEPT !.subtype = TRUE] ELSE idle
        failed   == isError /\ ~pendingInterrupt
    IN  /\ ~Codex
        /\ ~Quarantined
        /\ ReadLine
        /\ IsResult(NextLine)
        /\ protocol' = after
        /\ pendingInterrupt' = FALSE
        /\ lastResult' = CASE pendingInterrupt -> "interrupted"
                           [] failed           -> "error"
                           [] OTHER            -> "ok"
        /\ UNCHANGED <<ended, quarantine, codexReady, proc, work, loops, interrupts>>
        /\ IF HasTurn
           THEN TryDispatch(NoTurn, queue, RalphOnTurnEnd(ralph, active.origin, failed),
                            nextIndex, reply, m)
           ELSE NoDispatch(active, queue, ralph, nextIndex, reply, m)

\* Claude: a result line in quarantine lifts it.  The parser has seen it, nobody else does.
LiftQuarantine ==
    /\ ~Codex
    /\ Quarantined
    /\ ReadLine
    /\ IsResult(NextLine)
    /\ quarantine' = "off"
    /\ protocol' = ParsedResult
    /\ lastResult' = IF NextLine.kind = "ok" THEN "ok" ELSE "error"
    /\ UNCHANGED <<ended, pendingInterrupt, codexReady, proc, work, loops, interrupts>>
    /\ TryDispatch(active, queue, ralph, nextIndex, reply, run)

\* Codex: thread/started opens the dispatch gate and flushes the queue.
HandleCodexReady ==
    /\ Codex
    /\ ReadLine
    /\ NextLine.kind = "ready"
    /\ codexReady' = TRUE
    /\ UNCHANGED <<ended, quarantine, pendingInterrupt, protocol, proc, work, auxVars>>
    /\ TryDispatch(active, queue, ralph, nextIndex, reply, run)

\* Codex: turn completed or failed, with end_turn_and_dispatch; quarantine is not consulted.
HandleCodexTurnEnd ==
    /\ Codex
    /\ ReadLine
    /\ IsResult(NextLine)
    /\ lastResult' = IF NextLine.kind = "ok" THEN "ok" ELSE "error"
    /\ UNCHANGED <<ended, quarantine, pendingInterrupt, protocol, codexReady,
                   proc, work, loops, interrupts>>
    /\ TryDispatch(NoTurn, queue, ralph, nextIndex, reply,
                   PersistIdleRunning(EmitState(run, "idle", TRUE), "Idle"))

-----------------------------------------------------------------------------
(* The CLI process (external) *)

CliUnchanged == UNCHANGED <<actorVars, outVars, auxVars>>

CliOpensThread ==
    /\ Codex
    /\ ended = "no"
    /\ proc = "alive"
    /\ ~codexReady
    /\ stdout = <<>>
    /\ stdout' = <<[kind |-> "ready", index |-> 0]>>
    /\ UNCHANGED <<proc, stdin, work>>
    /\ CliUnchanged

\* A user line is taken up when the CLI is free.
CliTakesTurn ==
    /\ proc = "alive"
    /\ stdin # <<>>
    /\ Head(stdin).kind = "turn"
    /\ ~work.busy
    /\ work' = [busy |-> TRUE, index |-> Head(stdin).index, spoke |-> FALSE]
    /\ stdin' = Tail(stdin)
    /\ UNCHANGED <<proc, stdout>>
    /\ CliUnchanged

\* An interrupt ends the turn being worked on; an idle CLI has nothing to end.
\* The app-server does not know the stream-json framing of the quarantine's interrupt.
CliTakesInterrupt ==
    /\ proc = "alive"
    /\ stdin # <<>>
    /\ Head(stdin).kind # "turn"
    /\ stdin' = Tail(stdin)
    /\ IF work.busy /\ (Codex => Head(stdin).kind = "interrupt")
       THEN /\ stdout' = Append(stdout, [kind |-> "ack", index |-> work.index])
            /\ work' = NoWork
       ELSE UNCHANGED <<stdout, work>>
    /\ UNCHANGED proc
    /\ CliUnchanged

\* Bound: one text line per turn, with the promise only when a loop asked for one.
CliSpeaks(kind) ==
    /\ proc = "alive"
    /\ kind = "promise" => ralph.promise
    /\ work.busy
    /\ ~work.spoke
    /\ work' = [work EXCEPT !.spoke = TRUE]
    /\ stdout' = Append(stdout, [kind |-> kind, index |-> work.index])
    /\ UNCHANGED <<proc, stdin>>
    /\ CliUnchanged

\* Bound: past MaxIndex turns only fail, which ends any loop.
CliFinishes(kind) ==
    /\ proc = "alive"
    /\ work.busy
    /\ kind = "ok" => work.index <= MaxIndex
    /\ work' = NoWork
    /\ stdout' = Append(stdout, [kind |-> kind, index |-> work.index])
    /\ UNCHANGED <<proc, stdin>>
    /\ CliUnchanged

CliExits(how) ==
    /\ proc = "alive"
    /\ proc' = how
    /\ work' = NoWork
    /\ stdin' = <<>>
    /\ UNCHANGED stdout
    /\ CliUnchanged

-----------------------------------------------------------------------------
Commands ==
    \/ \E m \in Messages : HandleSendMessage(m)
    \/ \E max \in RalphMax, promise \in RalphPromise : StartRalphLoop(max, promise)
    \/ CancelRalphLoop
    \/ SendInterrupt
    \/ HandleStop

ReadStdout ==
    \/ HandleOutput
    \/ HandleTurnResult
    \/ LiftQuarantine
    \/ HandleCodexReady
    \/ HandleCodexTurnEnd

Tick ==
    \/ TickHardTimeout
    \/ TickQuarantineInterrupt
    \/ TickQuarantineKill
    \/ TickRalphRetry

Elapse == ElapseTurn \/ ElapseQuarantine \/ ElapseBackoff

Cli ==
    \/ CliOpensThread
    \/ CliTakesTurn
    \/ CliTakesInterrupt
    \/ \E kind \in {"text", "promise"} : CliSpeaks(kind)
    \/ \E kind \in {"ok", "error"} : CliFinishes(kind)
    \/ \E how \in {"exited0", "exited1"} : CliExits(how)

Eof == \E why \in {"eof", "cancelled"} : HandleEof(why)

Next == Commands \/ ReadStdout \/ Eof \/ Tick \/ Elapse \/ Cli

Spec == Init /\ [][Next]_vars

(***************************************************************************)
(* Fairness.  select! polls its ready branches in random order, so a line  *)
(* on stdout, an end of file and a tick are each taken eventually; clocks  *)
(* advance.  Nothing is assumed of the users, nor of the CLI.              *)
(***************************************************************************)
ActorFairness ==
    /\ WF_vars(ReadStdout)
    /\ WF_vars(Eof)
    /\ WF_vars(TickHardTimeout)
    /\ WF_vars(TickQuarantineInterrupt)
    /\ WF_vars(TickQuarantineKill)
    /\ WF_vars(TickRalphRetry)
    /\ WF_vars(ElapseTurn)
    /\ WF_vars(ElapseQuarantine)
    /\ WF_vars(ElapseBackoff)

FairSpec == Spec /\ ActorFairness

\* An app-server that acknowledges thread/start; no deadline of the actor covers that wait.
CodexFairSpec == FairSpec /\ WF_vars(CliOpensThread)

\* A CLI that reads its stdin and finishes every turn it takes.
CliFairness ==
    /\ WF_vars(CliTakesTurn)
    /\ WF_vars(CliTakesInterrupt)
    /\ WF_vars(\E kind \in {"ok", "error"} : CliFinishes(kind))

LiveSpec == FairSpec /\ CliFairness

-----------------------------------------------------------------------------
(* Safety *)

TurnLines   == {i \in DOMAIN stdin : stdin[i].kind = "turn"}
ResultLines == {i \in DOMAIN stdout : IsResult(stdout[i])}

(***************************************************************************)
(* "HC #1: One turn at a time" on the wire: at most one user line is in    *)
(* the pipe to the CLI, being worked on, or answered and not yet read; it  *)
(* is the line of the active turn, or of the turn that went into           *)
(* quarantine.  So a result is never taken for that of another turn.       *)
(***************************************************************************)
OneTurnOnTheWire ==
    /\ \A i, j \in TurnLines : i = j
    /\ \A i, j \in ResultLines : i = j
    /\ TurnLines # {} => ~work.busy /\ ResultLines = {}
    /\ work.busy => ResultLines = {}
    /\ HasTurn => /\ \A i \in TurnLines : stdin[i].index = active.index
                  /\ work.busy => work.index = active.index
                  /\ \A i \in ResultLines : stdout[i].index = active.index
    /\ HasTurn /\ proc = "alive" => TurnLines # {} \/ work.busy \/ ResultLines # {}
    /\ TurnLines # {} \/ work.busy \/ ResultLines # {} => HasTurn \/ Quarantined

(***************************************************************************)
(* The turn_index of a running turn is the number of user messages logged  *)
(* before its own, although the indices of user turns are handed out when  *)
(* the message is queued and those of Ralph turns when they start.  A      *)
(* resumed session counts the log again (count_user_messages), so the two  *)
(* must agree.                                                             *)
(***************************************************************************)
IndexMatchesLog == HasTurn => active.index + 1 = userEvents

(***************************************************************************)
(* A Ralph turn never outlives its loop, a paused or waiting loop has no   *)
(* turn, and a live loop is short of its limits: ralph_on_turn_end,        *)
(* start_ralph_turn and the cancel command agree on when it is over.       *)
(***************************************************************************)
LoopWithinLimits(r) ==
    /\ r.phase # "off" => /\ r.failures < MaxConsecutiveFailures
                          /\ r.max > 0 => r.iteration < r.max
                          /\ r.reason = "none"
    /\ r.phase \in {"WaitingRetry", "PausedRetry"} => r.retry # "none"
    /\ r.reason = "FailStopped" => r.failures = MaxConsecutiveFailures
    /\ r.reason = "MaxIterations" => r.iteration = r.max

RalphWithinLimits ==
    /\ LoopWithinLimits(ralph)
    /\ active.origin = "ralph" => ralph.phase \in {"Running", "CancelPending"}

(***************************************************************************)
(* The terminal status of a run: a kill is a failure, Completed needs exit *)
(* code 0, and another code is a failure unless the application stopped.   *)
(***************************************************************************)
ExitStatusIsTrue ==
    /\ ended = "killed" => run.state = "failed" /\ run.status = "Failed"
    /\ ended \in {"eof", "cancelled"} =>
          /\ run.status \in Terminal
          /\ run.status = "Completed" => ended = "eof" \/ protocol.got
          /\ run.status = "Completed" => proc = "exited0"
          /\ run.status = "Stopped" => ended = "cancelled"
    /\ run.status \in Terminal => ended # "no"

(***************************************************************************)
(* A run whose last turn was interrupted by the user and whose process     *)
(* then exits with 0 is not marked Failed, whatever failed before it: the  *)
(* interrupt clears the parser's error tracking for that reason.           *)
(***************************************************************************)
InterruptIsNotFailure ==
    ended = "eof" /\ lastResult = "interrupted" /\ proc = "exited0" => run.status # "Failed"

-----------------------------------------------------------------------------
(* Steps *)

RalphPromptSent == active'.origin = "ralph" /\ userEvents' # userEvents

\* "Ralph yields to user messages": no prompt is sent while a ticket waits.
RalphYieldsToUsers == [][RalphPromptSent => queue' = <<>>]_vars

\* After an accepted cancel the loop sends no further prompt, whatever user
\* turns, failures or quarantines come between the cancel and its end.
NoPromptAfterCancel == [][RalphPromptSent => ~ralph'.asked]_vars

-----------------------------------------------------------------------------
(* Liveness *)

\* Every accepted message is answered, even by a CLI that never writes again.
EveryMessageAnswered ==
    \A m \in Messages : reply[m] = "pending" ~> reply[m] \in {"ok", "err"}

\* With a CLI that answers before the hard deadline of each turn, a loop with a limit comes to
\* its end, whatever the user sends or interrupts.
RalphLoopEnds == [](~Quarantined) => (LoopActive ~> ~LoopActive \/ ended # "no")

-----------------------------------------------------------------------------
(* Refinement: the callers' view of the session *)

MessagesOf(q) == [i \in DOMAIN q |-> q[i].msg]

Callers == INSTANCE TicketQueue WITH
    waiting <- MessagesOf(queue),
    answer  <- reply,
    open    <- ended = "no"

\* The session keeps the promise of TicketQueue: one answer per message, in order.
ImplementsTickets == Callers!Spec

-----------------------------------------------------------------------------
(* A statement of the sources that the code does not keep *)

\* emit_state's comment: an error of an earlier turn must not mark a 0-exit run
\* as Failed after a later successful turn.
StaleErrorForgotten ==
    ended = "eof" /\ proc = "exited0" /\ lastResult = "ok" => run.status # "Failed"
=============================================================================
