------------------------------ MODULE ToolCards ------------------------------
(***************************************************************************)
(* The way of a tool call from the Claude CLI to the cards of the browsers *)
(* and of a permission back: the stream-json parser                        *)
(* (agent/claude_protocol.rs), the control channel of the session actor    *)
(* (agent/session_actor.rs) with its quarantine, and the reducer of the    *)
(* browser (session-store.svelte.ts).                                      *)
(*                                                                         *)
(* A request of the CLI is named by the tool it is about, and so is the    *)
(* tool's input.  With partial messages an input arrives in two parts; it  *)
(* parses when both have been put together.  Events are persisted and seen *)
(* by every browser at once (their delivery is in EventDelivery); lines,   *)
(* answers and the acknowledgements of answers take their time.            *)
(*                                                                         *)
(* The CLI is external: it announces a tool before it runs it, may ask for *)
(* permission, runs a subagent's tools while the parent runs, may be       *)
(* interrupted, fall silent or exit.                                       *)
(***************************************************************************)
EXTENDS Naturals, Sequences, FiniteSets

CONSTANTS
    Tools,          \* tool calls, each made at most once
    Browsers,
    Top, Log,       \* no parent; the view a replay of the log would give
    Parent,         \* Tools -> Tools \cup {Top}: the call whose subagent makes this one
    MayInterleave,  \* TRUE: inputs of several tools are streamed at once
    MaxTurns, MaxAnswers, MaxInterrupts, MaxReloads   \* bounds

VARIABLES
    cli,         \* alive, busy, streams, stage of each tool, denied: refused in this turn
    ran,         \* history: the tools that were let run, each with its input
    toCli,       \* lines written and not yet read by the CLI
    fromCli,     \* lines of the CLI not yet read by the actor
    parser,      \* ProtocolState: emitted_tool_ids, last_tool_use_id
    actor,       \* up, turn, due: its hard deadline has passed, quarantine
    answers,     \* answers of browsers on their way to the actor or back
    shown,       \* for each browser, and for Log: the cards
    swallowed,   \* history: the quarantine has kept lines of the CLI from the views
    count        \* turns, answers, interrupts and reloads so far

vars == <<cli, ran, toCli, fromCli, parser, actor, answers, shown, swallowed, count>>

NoTool == Top
Views == Browsers \cup {Log}

ASSUME ToolCardsAssumption ==
    /\ Top \notin Tools /\ Log \notin Browsers
    /\ Parent \in [Tools -> Tools \cup {Top}]
    /\ \A t \in Tools : Parent[t] # Top => Parent[Parent[t]] = Top
    /\ MayInterleave \in BOOLEAN
    /\ MaxTurns \in Nat /\ MaxAnswers \in Nat /\ MaxInterrupts \in Nat /\ MaxReloads \in Nat

Stages == {"none", "block", "part", "whole", "asked", "announced", "running", "refused", "ended"}
Inputs == Tools \cup {NoTool}
LineToCli   == [kind : {"turn", "interrupt", "response"}, tool : Inputs, allow : BOOLEAN,
                input : Inputs]
LineFromCli == [kind : {"block", "delta", "assistant", "ask", "cancel", "toolResult", "result"},
                tool : Inputs, parent : Inputs, ok : BOOLEAN, denied : SUBSET Tools]
Cards == [status : {"absent", "running", "permission_prompt", "permission_denied", "success",
                    "error"},
          request : BOOLEAN, accum : Seq(Tools), input : Inputs]
Quarantines == {"off", "entered", "interrupted", "due"}

TypeOK ==
    /\ cli \in [alive : BOOLEAN, busy : BOOLEAN, streams : BOOLEAN,
                stage : [Tools -> Stages], denied : SUBSET Tools]
    /\ ran \subseteq [tool : Tools, input : Inputs]
    /\ toCli \in Seq(LineToCli) /\ fromCli \in Seq(LineFromCli)
    /\ parser \in [emitted : SUBSET Tools, last : Inputs]
    /\ actor \in [up : BOOLEAN, turn : BOOLEAN, due : BOOLEAN, quarantine : Quarantines]
    /\ actor.turn => actor.quarantine = "off"
    /\ answers \subseteq [by : Browsers, tool : Tools, allow : BOOLEAN, input : Inputs,
                          state : {"sent", "delivered", "failed"}]
    /\ shown \in [Views -> [main : [Tools -> Cards], sub : [Tools -> Cards]]]
    /\ swallowed \in BOOLEAN
    /\ count \in [turns : 0..MaxTurns, answers : 0..MaxAnswers,
                  interrupts : 0..MaxInterrupts, reloads : 0..MaxReloads]

-----------------------------------------------------------------------------
(* Cards: the reducer of the session store *)

NoCard == [status |-> "absent", request |-> FALSE, accum |-> <<>>, input |-> NoTool]
Present(card) == card.status # "absent"
NewCard(input) == [NoCard EXCEPT !.status = "running", !.input = input]
EmptyView == [main |-> [t \in Tools |-> NoCard], sub |-> [t \in Tools |-> NoCard]]

\* Every entry of every timeline.
UpdateAll(view, Op(_)) ==
    [main |-> [t \in Tools |-> Op(view.main[t])], sub |-> [t \in Tools |-> Op(view.sub[t])]]

\* A subagent's tool goes under its parent if that is found, else to the main timeline.
ToolStart(view, t, parent, input) ==
    IF parent # Top /\ Present(view.main[parent]) THEN [view EXCEPT !.sub[t] = NewCard(input)]
    ELSE IF Present(view.main[t]) THEN view
    ELSE [view EXCEPT !.main[t] = NewCard(input)]

\* The child t is looked up under the parent named by the event.
InSub(view, t, parent) == parent # Top /\ parent = Parent[t] /\ Present(view.sub[t])

\* _accumulateJsonInput: what is there so far, and the input once it parses.
Accumulate(card, part) ==
    LET accum == Append(card.accum, part) IN
    [card EXCEPT !.accum = accum, !.input = IF accum = <<part, part>> THEN part ELSE @]

ToolInputDelta(view, t, parent, part) ==
    IF parent # Top
    THEN IF InSub(view, t, parent) THEN [view EXCEPT !.sub[t] = Accumulate(@, part)] ELSE view
    ELSE IF Present(view.main[t]) THEN [view EXCEPT !.main[t] = Accumulate(@, part)]
    ELSE view

Asked(card) == [card EXCEPT !.status = "permission_prompt", !.request = TRUE]

\* Variant: a prompt without a parent is not looked for in the subagents' timelines.
PromptMainOnly(view, t, parent) ==
    IF InSub(view, t, parent) THEN [view EXCEPT !.sub[t] = Asked(@)]
    ELSE IF Present(view.main[t]) THEN [view EXCEPT !.main[t] = Asked(@)]
    ELSE [view EXCEPT !.main[t] = Asked(NewCard(NoTool))]

\* Variant: a prompt for a tool not seen before is dropped.
PromptIfKnown(view, t, parent) ==
    IF InSub(view, t, parent) THEN [view EXCEPT !.sub[t] = Asked(@)]
    ELSE IF Present(view.main[t]) THEN [view EXCEPT !.main[t] = Asked(@)]
    ELSE IF Present(view.sub[t]) THEN [view EXCEPT !.sub[t] = Asked(@)]
    ELSE view

\* Under the parent, else in the main timeline, else under any parent, else a new entry.
PermissionPrompt(view, t, parent) ==
    IF InSub(view, t, parent) THEN [view EXCEPT !.sub[t] = Asked(@)]
    ELSE IF Present(view.main[t]) THEN [view EXCEPT !.main[t] = Asked(@)]
    ELSE IF Present(view.sub[t]) THEN [view EXCEPT !.sub[t] = Asked(@)]
    ELSE [view EXCEPT !.main[t] = Asked(NewCard(t))]

Ended(view, t, parent, status) ==
    IF InSub(view, t, parent) THEN [view EXCEPT !.sub[t].status = status]
    ELSE IF Present(view.main[t]) THEN [view EXCEPT !.main[t].status = status]
    ELSE view

\* The denials of a result, each found as a prompt without a parent is.
Deny(card) == IF Present(card) THEN [card EXCEPT !.status = "permission_denied"] ELSE card
PermissionsDenied(view, denied) ==
    [main |-> [t \in Tools |-> IF t \in denied THEN Deny(view.main[t]) ELSE view.main[t]],
     sub |-> [t \in Tools |-> IF t \in denied /\ ~Present(view.main[t])
                              THEN Deny(view.sub[t]) ELSE view.sub[t]]]

Actionable(card) == card.status = "permission_prompt" /\ card.request
Open(card) == card.status = "permission_prompt" \/ (card.status = "running" /\ card.request)
Fail(card) == [card EXCEPT !.status = "error"]

\* _resolveStaleTools, at the idle that ends a turn.
\* Variant: cards that were allowed and never ended stay.
IdlePromptsOnly(view) ==
    UpdateAll(view, LAMBDA card : IF Actionable(card) THEN Fail(card) ELSE card)
Idle(view) == UpdateAll(view, LAMBDA card : IF Open(card) THEN Fail(card) ELSE card)

ControlCancelled(view, t) ==
    LET Op(card) == IF Open(card) /\ card.request THEN Fail(card) ELSE card IN
    [view EXCEPT !.main[t] = Op(@), !.sub[t] = Op(@)]

\* Variant: whatever has become of the card since.
ResolveAnyway(view, t, allow) ==
    LET Op(card) == IF card.request
                    THEN [card EXCEPT !.status = IF allow THEN "running"
                                                 ELSE "permission_denied"]
                    ELSE card
    IN  [view EXCEPT !.main[t] = Op(@), !.sub[t] = Op(@)]

\* _resolvePermission: what a browser shows once its own answer has been delivered.
Resolve(view, t, allow) ==
    LET Op(card) == IF Actionable(card)
                    THEN [card EXCEPT !.status = IF allow THEN "running"
                                                 ELSE "permission_denied"]
                    ELSE card
    IN  [view EXCEPT !.main[t] = Op(@), !.sub[t] = Op(@)]

-----------------------------------------------------------------------------
(* Start *)

Init ==
    /\ \E streams \in BOOLEAN :
          cli = [alive |-> TRUE, busy |-> FALSE, streams |-> streams,
                 stage |-> [t \in Tools |-> "none"], denied |-> {}]
    /\ ran = {}
    /\ toCli = <<>> /\ fromCli = <<>>
    /\ parser = [emitted |-> {}, last |-> NoTool]
    /\ actor = [up |-> TRUE, turn |-> FALSE, due |-> FALSE, quarantine |-> "off"]
    /\ answers = {}
    /\ shown = [v \in Views |-> EmptyView]
    /\ swallowed = FALSE
    /\ count = [turns |-> 0, answers |-> 0, interrupts |-> 0, reloads |-> 0]

-----------------------------------------------------------------------------
(* Browsers *)

ToCli(kind, t, allow, input) ==
    [kind |-> kind, tool |-> t, allow |-> allow, input |-> input]
WriteLine(line) == toCli' = IF cli.alive THEN Append(toCli, line) ELSE toCli
Bump(what) == count' = [count EXCEPT ![what] = @ + 1]

\* A message that is dispatched at once; queues are in SessionActor.
SendMessage ==
    /\ actor.up /\ ~actor.turn /\ actor.quarantine = "off" /\ count.turns < MaxTurns
    /\ cli.alive
    /\ actor' = [actor EXCEPT !.turn = TRUE, !.due = FALSE]
    /\ WriteLine(ToCli("turn", NoTool, TRUE, NoTool))
    /\ Bump("turns")
    /\ UNCHANGED <<cli, ran, fromCli, parser, answers, shown, swallowed>>

\* The user interrupts the session.
Interrupt ==
    /\ actor.up /\ count.interrupts < MaxInterrupts
    /\ WriteLine(ToCli("interrupt", NoTool, TRUE, NoTool))
    /\ Bump("interrupts")
    /\ UNCHANGED <<cli, ran, fromCli, parser, actor, answers, shown, swallowed>>

\* A card is answered once per showing; allowing sends back the input it shows.
Click(b, t) ==
    /\ actor.up /\ count.answers < MaxAnswers
    /\ \A a \in answers : a.by # b \/ a.tool # t
    /\ \E card \in {shown[b].main[t], shown[b].sub[t]}, allow \in BOOLEAN :
          /\ Actionable(card)
          /\ answers' = answers \cup
                {[by |-> b, tool |-> t, allow |-> allow,
                  input |-> IF allow THEN card.input ELSE NoTool, state |-> "sent"]}
    /\ Bump("answers")
    /\ UNCHANGED <<cli, ran, toCli, fromCli, parser, actor, shown, swallowed>>

\* handle_respond_permission: written to the CLI whether or not the prompt is still open.
RespondPermission(a) ==
    LET reaches == actor.up /\ cli.alive IN
    /\ a.state = "sent"
    /\ answers' = (answers \ {a})
                    \cup {[a EXCEPT !.state = IF reaches THEN "delivered" ELSE "failed"]}
    /\ IF reaches THEN WriteLine(ToCli("response", a.tool, a.allow, a.input))
       ELSE UNCHANGED toCli
    /\ UNCHANGED <<cli, ran, fromCli, parser, actor, shown, swallowed, count>>

\* The page, when its request returns.  A denial is shown even if it failed.
ShowAnswer(a) ==
    /\ a.state # "sent"
    /\ answers' = answers \ {a}
    /\ shown' = IF a.state = "delivered" \/ ~a.allow
                THEN [shown EXCEPT ![a.by] = Resolve(@, a.tool, a.allow)] ELSE shown
    /\ UNCHANGED <<cli, ran, toCli, fromCli, parser, actor, swallowed, count>>

\* The run is opened again: the cards are made from the log.
Reload(b) ==
    /\ count.reloads < MaxReloads
    /\ shown' = [shown EXCEPT ![b] = shown[Log]]
    /\ Bump("reloads")
    /\ UNCHANGED <<cli, ran, toCli, fromCli, parser, actor, answers, swallowed>>

-----------------------------------------------------------------------------
(* The actor *)

\* Variant: a new block does not become the one the parts belong to.
StartedLater(t) == [parser EXCEPT !.emitted = @ \cup {t}, !.last = IF @ = NoTool THEN t ELSE @]
Started(t) == [parser EXCEPT !.emitted = @ \cup {t}, !.last = t]

\* map_event: what the parser remembers, also of lines that nobody is shown.
MapEvent(line) ==
    CASE line.kind = "block"     -> Started(line.tool)
      [] line.kind = "assistant" -> [parser EXCEPT !.emitted = @ \cup {line.tool}]
      [] OTHER                   -> parser

\* What a line makes of a view.  A part of an input is taken for one of the tool that
\* started last.
Shows(view, line) ==
    CASE line.kind = "block"      -> ToolStart(view, line.tool, line.parent, NoTool)
      [] line.kind = "delta"      -> IF parser.last = NoTool THEN view
                                     ELSE ToolInputDelta(view, parser.last, line.parent, line.tool)
      [] line.kind = "assistant"  -> IF line.tool \in parser.emitted THEN view
                                     ELSE ToolStart(view, line.tool, line.parent, line.tool)
      [] line.kind = "ask"        -> PermissionPrompt(view, line.tool, line.parent)
      [] line.kind = "cancel"     -> ControlCancelled(view, line.tool)
      [] line.kind = "toolResult" -> Ended(view, line.tool, line.parent,
                                           IF line.ok THEN "success" ELSE "error")
      [] line.kind = "result"     -> Idle(PermissionsDenied(view, line.denied))

Line == Head(fromCli)
IsControl(line) == line.kind \in {"ask", "cancel"}
TakeLine == actor.up /\ fromCli # <<>> /\ fromCli' = Tail(fromCli)

\* handle_stdout_line and handle_control_event; any line puts off the deadline of the turn.
HandleLine ==
    /\ TakeLine
    /\ actor.quarantine = "off"
    /\ shown' = [v \in Views |-> Shows(shown[v], Line)]
    /\ parser' = IF IsControl(Line) THEN parser ELSE MapEvent(Line)
    /\ actor' = [actor EXCEPT !.due = FALSE, !.turn = @ /\ Line.kind # "result"]
    /\ UNCHANGED <<cli, ran, toCli, answers, swallowed, count>>

\* Variant: a prompt in quarantine is dropped like everything else.
DropAsk == UNCHANGED toCli
\* handle_control_event_internal denies what nobody can be asked.
AnswerAsk == IF Line.kind = "ask" THEN WriteLine(ToCli("response", Line.tool, FALSE, NoTool))
             ELSE UNCHANGED toCli

\* The quarantine shows nothing; a result lifts it.
SwallowLine ==
    /\ TakeLine
    /\ actor.quarantine # "off"
    /\ AnswerAsk
    /\ parser' = IF IsControl(Line) THEN parser ELSE MapEvent(Line)
    /\ actor' = IF Line.kind = "result" THEN [actor EXCEPT !.quarantine = "off"] ELSE actor
    /\ swallowed' = TRUE
    /\ UNCHANGED <<cli, ran, answers, shown, count>>

ActorOnly == UNCHANGED <<ran, fromCli, parser, answers, shown, swallowed, count>>

\* The clock: a deadline passes.
Elapse ==
    /\ actor.up
    /\ \/ actor.turn /\ ~actor.due /\ actor' = [actor EXCEPT !.due = TRUE]
       \/ actor.quarantine = "interrupted" /\ actor' = [actor EXCEPT !.quarantine = "due"]
    /\ UNCHANGED <<cli, toCli>> /\ ActorOnly

\* Variant: the turn stays active beside the quarantine.
QuarantineWithTurn == [actor EXCEPT !.due = FALSE, !.quarantine = "entered"]
EnterQuarantine == [actor EXCEPT !.turn = FALSE, !.due = FALSE, !.quarantine = "entered"]

\* on_tick_timeout.
TickHardTimeout ==
    /\ actor.up /\ actor.turn /\ actor.due
    /\ actor' = EnterQuarantine
    /\ UNCHANGED <<cli, toCli>> /\ ActorOnly
TickInterrupt ==
    /\ actor.up /\ actor.quarantine = "entered"
    /\ actor' = [actor EXCEPT !.quarantine = "interrupted"]
    /\ WriteLine(ToCli("interrupt", NoTool, TRUE, NoTool))
    /\ UNCHANGED cli /\ ActorOnly
TickKill ==
    /\ actor.up /\ actor.quarantine = "due"
    /\ actor' = [actor EXCEPT !.up = FALSE, !.quarantine = "off"]
    /\ cli' = [cli EXCEPT !.alive = FALSE]
    /\ toCli' = <<>> /\ ActorOnly

Eof ==
    /\ actor.up /\ ~cli.alive /\ fromCli = <<>>
    /\ actor' = [actor EXCEPT !.up = FALSE, !.turn = FALSE, !.due = FALSE, !.quarantine = "off"]
    /\ UNCHANGED <<cli, toCli>> /\ ActorOnly

-----------------------------------------------------------------------------
(* The CLI (external) *)

FromCli(kind, t, parent) ==
    [kind |-> kind, tool |-> t, parent |-> parent, ok |-> TRUE, denied |-> {}]
Tell(lines) == fromCli' = fromCli \o lines
CliOnly == UNCHANGED <<parser, actor, answers, shown, swallowed, count>>
Working == cli.alive /\ cli.busy
ToStage(t, stage) == cli' = [cli EXCEPT !.stage[t] = stage]

Streaming == {t \in Tools : cli.stage[t] \in {"block", "part", "whole"}}
MayStart(t) ==
    /\ Working /\ cli.stage[t] = "none"
    /\ Parent[t] # Top => cli.stage[Parent[t]] = "running"
    /\ MayInterleave \/ Streaming = {}

StreamBlock(t) ==
    /\ cli.streams /\ MayStart(t)
    /\ ToStage(t, "block")
    /\ Tell(<<FromCli("block", t, Parent[t])>>)
    /\ UNCHANGED <<ran, toCli>> /\ CliOnly

StreamPart(t) ==
    /\ Working /\ cli.stage[t] \in {"block", "part"}
    /\ ToStage(t, IF cli.stage[t] = "block" THEN "part" ELSE "whole")
    /\ Tell(<<FromCli("delta", t, Parent[t])>>)
    /\ UNCHANGED <<ran, toCli>> /\ CliOnly

Announce(t) ==
    /\ IF cli.streams THEN Working /\ cli.stage[t] = "whole" ELSE MayStart(t)
    /\ ToStage(t, "announced")
    /\ Tell(<<FromCli("assistant", t, Parent[t])>>)
    /\ UNCHANGED <<ran, toCli>> /\ CliOnly

\* The prompt may leave out the parent, and come before the message that announces the tool.
Ask(t) ==
    \E parent \in {Parent[t], Top} :
        /\ \/ /\ Working /\ cli.stage[t] = "announced"
              /\ Tell(<<FromCli("ask", t, parent)>>)
           \/ /\ ~cli.streams /\ MayStart(t)
              /\ Tell(<<FromCli("ask", t, parent), FromCli("assistant", t, Parent[t])>>)
        /\ ToStage(t, "asked")
        /\ UNCHANGED <<ran, toCli>> /\ CliOnly

Run(t) ==
    /\ Working /\ cli.stage[t] = "announced"
    /\ ToStage(t, "running")
    /\ ran' = ran \cup {[tool |-> t, input |-> t]}
    /\ UNCHANGED <<toCli, fromCli>> /\ CliOnly

\* The prompt is withdrawn, and the tool does not run.
Withdraw(t) ==
    /\ Working /\ cli.stage[t] = "asked"
    /\ ToStage(t, "refused")
    /\ Tell(<<FromCli("cancel", t, Top)>>)
    /\ UNCHANGED <<ran, toCli>> /\ CliOnly

EndTool(t) ==
    /\ Working
    /\ \/ cli.stage[t] = "refused"
       \/ /\ cli.stage[t] = "running"
          /\ \A c \in Tools : Parent[c] = t => cli.stage[c] \in {"none", "ended"}
    /\ ToStage(t, "ended")
    /\ \E ok \in {cli.stage[t] = "running", FALSE} :
          Tell(<<[FromCli("toolResult", t, Parent[t]) EXCEPT !.ok = ok]>>)
    /\ UNCHANGED <<ran, toCli>> /\ CliOnly

Result == [FromCli("result", NoTool, Top) EXCEPT !.denied = cli.denied]
Idled == [cli EXCEPT !.busy = FALSE, !.denied = {}]

Finish ==
    /\ Working /\ \A t \in Tools : cli.stage[t] \in {"none", "ended"}
    /\ cli' = Idled
    /\ Tell(<<Result>>)
    /\ UNCHANGED <<ran, toCli>> /\ CliOnly

Takes(kind) == cli.alive /\ toCli # <<>> /\ Head(toCli).kind = kind /\ toCli' = Tail(toCli)

TakeTurn ==
    /\ Takes("turn") /\ ~cli.busy
    /\ cli' = [cli EXCEPT !.busy = TRUE]
    /\ UNCHANGED <<ran, fromCli>> /\ CliOnly

\* An interrupt ends the turn; open prompts may be withdrawn or just left.
TakeInterrupt ==
    /\ Takes("interrupt")
    /\ IF ~cli.busy THEN UNCHANGED <<cli, fromCli>>
       ELSE /\ cli' = [Idled EXCEPT !.stage =
                  [t \in Tools |-> IF @[t] = "none" THEN "none" ELSE "ended"]]
            /\ \/ Tell(<<Result>>)
               \/ \E t \in Tools : /\ cli.stage[t] = "asked"
                                   /\ Tell(<<FromCli("cancel", t, Top), Result>>)
    /\ UNCHANGED ran /\ CliOnly

\* An answer to a prompt that is not open is ignored.
TakeResponse ==
    LET line == Head(toCli) t == line.tool IN
    /\ Takes("response")
    /\ IF cli.stage[t] # "asked" THEN UNCHANGED <<cli, ran>>
       ELSE IF line.allow
       THEN /\ ToStage(t, "running")
            /\ ran' = ran \cup {[tool |-> t, input |-> line.input]}
       ELSE /\ cli' = [cli EXCEPT !.stage[t] = "refused", !.denied = @ \cup {t}]
            /\ UNCHANGED ran
    /\ UNCHANGED fromCli /\ CliOnly

Exits ==
    /\ cli.alive
    /\ cli' = [cli EXCEPT !.alive = FALSE]
    /\ toCli' = <<>>
    /\ UNCHANGED <<ran, fromCli>> /\ CliOnly

-----------------------------------------------------------------------------
Actor == HandleLine \/ SwallowLine \/ TickHardTimeout \/ TickInterrupt \/ TickKill \/ Eof
Cli ==
    \/ \E t \in Tools :
          \/ StreamBlock(t) \/ StreamPart(t) \/ Announce(t) \/ Ask(t)
          \/ Run(t) \/ Withdraw(t) \/ EndTool(t)
    \/ Finish \/ TakeTurn \/ TakeInterrupt \/ TakeResponse \/ Exits

Next ==
    \/ SendMessage \/ Interrupt
    \/ \E b \in Browsers, t \in Tools : Click(b, t)
    \/ \E a \in answers : RespondPermission(a) \/ ShowAnswer(a)
    \/ \E b \in Browsers : Reload(b)
    \/ Actor \/ Elapse \/ Cli

Spec == Init /\ [][Next]_vars

-----------------------------------------------------------------------------
(* Properties *)

LinesTo(kind, t)   == {i \in 1..Len(toCli) : toCli[i].kind = kind /\ toCli[i].tool = t}
LinesFrom(kind, t) == {i \in 1..Len(fromCli) : fromCli[i].kind = kind /\ fromCli[i].tool = t}

\* While the CLI waits for a permission, its prompt or an answer is on the way, or every
\* browser, also one that opens the run now, has a card to answer it with: whatever timeline
\* the tool is in, whether or not the prompt names its parent or comes before the tool.
EveryPromptCanBeAnswered ==
    \A t \in Tools : actor.up /\ cli.alive /\ cli.stage[t] = "asked" =>
        \/ LinesFrom("ask", t) # {}
        \/ LinesTo("response", t) # {}
        \/ \E a \in answers : a.tool = t /\ a.state = "sent"
        \/ \A v \in Views : Actionable(shown[v].main[t]) \/ Actionable(shown[v].sub[t])

\* The actor has seen the end of the last turn, and kept nothing from the views.
Settled ==
    /\ actor.up /\ ~actor.turn /\ actor.quarantine = "off"
    /\ ~cli.busy /\ toCli = <<>> /\ fromCli = <<>> /\ ~swallowed

\* Between turns nobody is asked to answer a prompt that is over, or shown a tool as allowed
\* and running (_resolveStaleTools), also after interrupts, withdrawals and late answers.
NoDeadPrompt ==
    Settled => \A v \in Views, t \in Tools : ~Open(shown[v].main[t]) /\ ~Open(shown[v].sub[t])

Refusals == {"error", "permission_denied"}
Agree(x, y) == x.status = y.status \/ {x.status, y.status} \subseteq Refusals

\* What browsers showed ahead of the events is confirmed or undone by them: between turns they
\* show what the log gives, but for the word for a tool that did not run.
ViewsConverge ==
    Settled => \A b \in Browsers, t \in Tools :
        /\ Agree(shown[b].main[t], shown[Log].main[t])
        /\ Agree(shown[b].sub[t], shown[Log].sub[t])

\* A tool runs with the input it was announced with, although an approval sends back the
\* input of the card, put together from parts that do not name their tool.
ApprovedInputIsAsked == \A r \in ran : r.input = r.tool
=============================================================================
