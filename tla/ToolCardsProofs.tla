--------------------------- MODULE ToolCardsProofs ---------------------------
(***************************************************************************)
(* The cards of tool calls, for any set of tools and browsers and any      *)
(* number of turns, answers, interrupts and reloads: types, prompts that   *)
(* can be answered, no card left open between turns, browsers that agree   *)
(* with the log, and tools that run with the input they were announced     *)
(* with, if the CLI streams one input at a time.                           *)
(*                                                                         *)
(* Views are reasoned about card by card: what each line makes of the card *)
(* of one tool is stated once (ShowsStart to ShowsResult), and every       *)
(* invariant uses that.  All parts rest on the types and on the one turn   *)
(* that is under way between the actor and the CLI (WireInv).              *)
(***************************************************************************)
EXTENDS ToolCards, Pipes

-----------------------------------------------------------------------------
(* Views, card by card *)

TheViews == [main : [Tools -> Cards], sub : [Tools -> Cards]]

\* What the operators on one card yield is a card.
LEMMA TypedCards ==
    /\ NoCard \in Cards /\ EmptyView \in TheViews
    /\ \A input \in Inputs : NewCard(input) \in Cards
    /\ \A card \in Cards : Asked(card) \in Cards /\ Fail(card) \in Cards /\ Deny(card) \in Cards
    /\ \A card \in Cards, part \in Tools : Accumulate(card, part) \in Cards
<1>1. NoCard \in Cards
  BY DEF NoCard, Cards, Inputs, NoTool
<1>2. \A input \in Inputs : NewCard(input) \in Cards
  BY <1>1 DEF NewCard, Cards
<1>3. \A card \in Cards : Asked(card) \in Cards /\ Fail(card) \in Cards /\ Deny(card) \in Cards
  BY DEF Asked, Fail, Deny, Cards
<1>4. ASSUME NEW card \in Cards, NEW part \in Tools
      PROVE  Accumulate(card, part) \in Cards
  <2>1. Append(card.accum, part) \in Seq(Tools)
    BY DEF Cards
  <2> QED BY <2>1 DEF Accumulate, Cards, Inputs
<1> QED BY <1>1, <1>2, <1>3, <1>4 DEF EmptyView, TheViews

\* A subagent's tool goes under this parent.
Under(view, parent) == parent # Top /\ Present(view.main[parent])

\* A tool that starts gets a new card under its parent or in the main timeline.
LEMMA StartCards ==
    ASSUME NEW view \in TheViews, NEW t \in Tools, NEW parent \in Inputs, NEW input \in Inputs
    PROVE  LET new == ToolStart(view, t, parent, input) IN
           /\ new \in TheViews
           /\ \A u \in Tools :
                 /\ new.main[u] = IF u = t /\ ~Under(view, parent) /\ ~Present(view.main[t])
                                  THEN NewCard(input) ELSE view.main[u]
                 /\ new.sub[u] = IF u = t /\ Under(view, parent) THEN NewCard(input) ELSE view.sub[u]
BY TypedCards DEF ToolStart, TheViews, Under

\* A part of an input is put to one card.
LEMMA DeltaCards ==
    ASSUME NEW view \in TheViews, NEW t \in Tools, NEW parent \in Inputs, NEW part \in Tools
    PROVE  LET new == ToolInputDelta(view, t, parent, part) IN
           /\ new \in TheViews
           /\ \A u \in Tools :
                 /\ new.main[u] = IF u = t /\ parent = Top /\ Present(view.main[t])
                                  THEN Accumulate(view.main[u], part) ELSE view.main[u]
                 /\ new.sub[u] = IF u = t /\ InSub(view, t, parent)
                                 THEN Accumulate(view.sub[u], part) ELSE view.sub[u]
BY TypedCards DEF ToolInputDelta, TheViews, InSub

\* A prompt changes, or makes, one card.
LEMMA PromptCards ==
    ASSUME NEW view \in TheViews, NEW t \in Tools, NEW parent \in Inputs
    PROVE  LET new == PermissionPrompt(view, t, parent)
               main == ~InSub(view, t, parent) /\ (Present(view.main[t]) \/ ~Present(view.sub[t]))
           IN
           /\ new \in TheViews
           /\ \A u \in Tools :
                 /\ new.main[u] = IF u = t /\ main
                                  THEN Asked(IF Present(view.main[u]) THEN view.main[u] ELSE NewCard(u))
                                  ELSE view.main[u]
                 /\ new.sub[u] = IF u = t /\ ~main THEN Asked(view.sub[u]) ELSE view.sub[u]
<1>1. t \in Inputs
  BY DEF Inputs
<1> QED BY <1>1, TypedCards DEF PermissionPrompt, TheViews, InSub

\* The end of a tool sets the status of one card.
LEMMA EndedCards ==
    ASSUME NEW view \in TheViews, NEW t \in Tools, NEW parent \in Inputs,
           NEW status \in {"success", "error"}
    PROVE  LET new == Ended(view, t, parent, status)
               main == ~InSub(view, t, parent) /\ Present(view.main[t])
           IN
           /\ new \in TheViews
           /\ \A u \in Tools :
                 /\ new.main[u] = IF u = t /\ main THEN [view.main[u] EXCEPT !.status = status]
                                  ELSE view.main[u]
                 /\ new.sub[u] = IF u = t /\ InSub(view, t, parent)
                                 THEN [view.sub[u] EXCEPT !.status = status] ELSE view.sub[u]
<1>1. \A card \in Cards : [card EXCEPT !.status = status] \in Cards
  BY DEF Cards
<1> QED BY <1>1 DEF Ended, TheViews

\* The denials of a result, card by card.
LEMMA DeniedCards ==
    ASSUME NEW view \in TheViews, NEW denied
    PROVE  LET new == PermissionsDenied(view, denied) IN
           /\ new \in TheViews
           /\ \A u \in Tools :
                 /\ new.main[u] = IF u \in denied THEN Deny(view.main[u]) ELSE view.main[u]
                 /\ new.sub[u] = IF u \in denied /\ ~Present(view.main[u]) THEN Deny(view.sub[u])
                                 ELSE view.sub[u]
BY TypedCards DEF PermissionsDenied, TheViews

\* The idle that ends a turn, card by card.
LEMMA IdleCards ==
    ASSUME NEW view \in TheViews
    PROVE  LET new == Idle(view) IN
           /\ new \in TheViews
           /\ \A u \in Tools :
                 /\ new.main[u] = IF Open(view.main[u]) THEN Fail(view.main[u]) ELSE view.main[u]
                 /\ new.sub[u] = IF Open(view.sub[u]) THEN Fail(view.sub[u]) ELSE view.sub[u]
BY TypedCards DEF Idle, UpdateAll, TheViews

\* A withdrawn prompt changes the cards of its tool.
LEMMA CancelledCards ==
    ASSUME NEW view \in TheViews, NEW t \in Tools
    PROVE  LET new == ControlCancelled(view, t)
               Op(card) == IF Open(card) /\ card.request THEN Fail(card) ELSE card
           IN
           /\ new \in TheViews
           /\ \A u \in Tools :
                 /\ new.main[u] = IF u = t THEN Op(view.main[u]) ELSE view.main[u]
                 /\ new.sub[u] = IF u = t THEN Op(view.sub[u]) ELSE view.sub[u]
BY TypedCards DEF ControlCancelled, TheViews

\* An answer changes the cards of its tool.
LEMMA ResolvedCards ==
    ASSUME NEW view \in TheViews, NEW t \in Tools, NEW allow \in BOOLEAN
    PROVE  LET new == Resolve(view, t, allow)
               Op(card) == IF Actionable(card)
                           THEN [card EXCEPT !.status = IF allow THEN "running"
                                                        ELSE "permission_denied"]
                           ELSE card
           IN
           /\ new \in TheViews
           /\ \A u \in Tools :
                 /\ new.main[u] = IF u = t THEN Op(view.main[u]) ELSE view.main[u]
                 /\ new.sub[u] = IF u = t THEN Op(view.sub[u]) ELSE view.sub[u]
<1>1. \A card \in Cards : [card EXCEPT !.status = IF allow THEN "running" ELSE "permission_denied"]
                             \in Cards
  BY DEF Cards
<1> QED BY <1>1 DEF Resolve, TheViews

-----------------------------------------------------------------------------
(* Types *)

Clis    == [alive : BOOLEAN, busy : BOOLEAN, streams : BOOLEAN, stage : [Tools -> Stages],
            denied : SUBSET Tools]
Parsers == [emitted : SUBSET Tools, last : Inputs]
Actors  == [up : BOOLEAN, turn : BOOLEAN, due : BOOLEAN, quarantine : Quarantines]
Replies == [by : Browsers, tool : Tools, allow : BOOLEAN, input : Inputs,
            state : {"sent", "delivered", "failed"}]
Counts  == [turns : 0..MaxTurns, answers : 0..MaxAnswers, interrupts : 0..MaxInterrupts,
            reloads : 0..MaxReloads]

\* Lines about a tool name one.
FromLines == {line \in LineFromCli : line.kind # "result" => line.tool \in Tools}
ToLines   == {line \in LineToCli : line.kind = "response" => line.tool \in Tools}

TypeInv == TypeOK /\ fromCli \in Seq(FromLines) /\ toCli \in Seq(ToLines)

\* What a line makes of a view, by the kind of the line.
LEMMA ShowsIs ==
    ASSUME NEW view, NEW line \in FromLines
    PROVE  /\ line.kind = "block" =>
                 Shows(view, line) = ToolStart(view, line.tool, line.parent, NoTool)
           /\ line.kind = "delta" =>
                 Shows(view, line) = IF parser.last = NoTool THEN view
                                     ELSE ToolInputDelta(view, parser.last, line.parent, line.tool)
           /\ line.kind = "assistant" =>
                 Shows(view, line) = IF line.tool \in parser.emitted THEN view
                                     ELSE ToolStart(view, line.tool, line.parent, line.tool)
           /\ line.kind = "ask" =>
                 Shows(view, line) = PermissionPrompt(view, line.tool, line.parent)
           /\ line.kind = "cancel" => Shows(view, line) = ControlCancelled(view, line.tool)
           /\ line.kind = "toolResult" =>
                 \E status \in {"success", "error"} :
                    Shows(view, line) = Ended(view, line.tool, line.parent, status)
           /\ line.kind = "result" =>
                 Shows(view, line) = Idle(PermissionsDenied(view, line.denied))
<1>1. line.kind = "toolResult" =>
         Shows(view, line) = Ended(view, line.tool, line.parent, IF line.ok THEN "success" ELSE "error")
  BY DEF Shows
<1>2. line.kind = "toolResult" =>
         \E status \in {"success", "error"} :
            Shows(view, line) = Ended(view, line.tool, line.parent, status)
  BY <1>1
<1> QED BY <1>2 DEF Shows

\* The fields of a line of the CLI.
LEMMA LineFields ==
    ASSUME NEW line \in FromLines
    PROVE  /\ line.kind \in {"block", "delta", "assistant", "ask", "cancel", "toolResult", "result"}
           /\ line.kind # "result" => line.tool \in Tools /\ line.tool \in Inputs
           /\ line.parent \in Inputs /\ line.denied \in SUBSET Tools
           /\ NoTool \in Inputs
BY DEF FromLines, LineFromCli, Inputs, NoTool

\* The parser remembers a tool, or none.
LEMMA LastTool ==
    ASSUME parser \in Parsers
    PROVE  parser.last # NoTool => parser.last \in Tools
BY DEF Parsers, Inputs, NoTool

\* A line makes a view of a view.
LEMMA ShowsTypes ==
    ASSUME NEW view \in TheViews, NEW line \in FromLines, parser \in Parsers
    PROVE  Shows(view, line) \in TheViews
<1> USE ShowsIs, LineFields
<1>1. CASE line.kind = "block"
  BY <1>1, StartCards
<1>2. CASE line.kind = "delta"
  BY <1>2, LastTool, DeltaCards
<1>3. CASE line.kind = "assistant"
  BY <1>3, StartCards
<1>4. CASE line.kind = "ask"
  BY <1>4, PromptCards
<1>5. CASE line.kind = "cancel"
  BY <1>5, CancelledCards
<1>6. CASE line.kind = "toolResult"
  BY <1>6, EndedCards
<1>7. CASE line.kind = "result"
  BY <1>7, DeniedCards, IdleCards
<1> QED BY <1>1, <1>2, <1>3, <1>4, <1>5, <1>6, <1>7

\* What the types say, unfolded.
LEMMA Types ==
    ASSUME TypeInv
    PROVE  /\ cli \in Clis /\ parser \in Parsers /\ actor \in Actors /\ answers \subseteq Replies
           /\ ran \subseteq [tool : Tools, input : Inputs]
           /\ toCli \in Seq(ToLines) /\ fromCli \in Seq(FromLines)
           /\ actor.turn => actor.quarantine = "off"
           /\ shown \in [Views -> TheViews] /\ swallowed \in BOOLEAN /\ count \in Counts
           /\ fromCli # <<>> => Line \in FromLines /\ Line = Head(fromCli)
           /\ toCli # <<>> => Head(toCli) \in ToLines
BY DEF TypeInv, TypeOK, Clis, Parsers, Actors, Replies, TheViews, Counts, Line

\* The types from the parts of the state.
LEMMA Typed ==
    ASSUME cli' \in Clis, parser' \in Parsers, actor' \in Actors, answers' \subseteq Replies,
           ran' \subseteq [tool : Tools, input : Inputs],
           toCli' \in Seq(ToLines), fromCli' \in Seq(FromLines),
           actor'.turn => actor'.quarantine = "off",
           shown' \in [Views -> TheViews], swallowed' \in BOOLEAN, count' \in Counts
    PROVE  TypeInv'
<1>1. toCli' \in Seq(LineToCli) /\ fromCli' \in Seq(LineFromCli)
  <2>1. \A A, B : A \subseteq B => Seq(A) \subseteq Seq(B)
    OBVIOUS
  <2>2. ToLines \subseteq LineToCli /\ FromLines \subseteq LineFromCli
    BY DEF ToLines, FromLines
  <2> QED BY <2>1, <2>2
<1> QED BY <1>1 DEF TypeInv, TypeOK, Clis, Parsers, Actors, Replies, TheViews, Counts

-----------------------------------------------------------------------------
(* What a line makes of a card *)

\* Where a line that starts a tool finds no card, or one of a subagent's tool, it makes one.
LEMMA ShowsStart ==
    ASSUME NEW view \in TheViews, NEW line \in FromLines, NEW u \in Tools,
           line.kind = "block" \/ (line.kind = "assistant" /\ line.tool \notin parser.emitted)
    PROVE  /\ Shows(view, line).main[u] =
                 IF u = line.tool /\ ~Under(view, line.parent) /\ ~Present(view.main[u])
                 THEN NewCard(IF line.kind = "block" THEN NoTool ELSE u) ELSE view.main[u]
           /\ Shows(view, line).sub[u] =
                 IF u = line.tool /\ Under(view, line.parent)
                 THEN NewCard(IF line.kind = "block" THEN NoTool ELSE u) ELSE view.sub[u]
<1>1. line.tool \in Tools /\ line.parent \in Inputs /\ line.tool \in Inputs /\ NoTool \in Inputs
  BY LineFields
<1>2. ASSUME NEW t \in Tools, NEW parent \in Inputs, NEW input \in Inputs
      PROVE  /\ ToolStart(view, t, parent, input).main[u] =
                   IF u = t /\ ~Under(view, parent) /\ ~Present(view.main[t])
                   THEN NewCard(input) ELSE view.main[u]
             /\ ToolStart(view, t, parent, input).sub[u] =
                   IF u = t /\ Under(view, parent) THEN NewCard(input) ELSE view.sub[u]
  BY StartCards
<1>3. CASE line.kind = "block"
  <2>1. Shows(view, line) = ToolStart(view, line.tool, line.parent, NoTool)
    BY <1>3, ShowsIs
  <2> QED BY <1>1, <1>2, <1>3, <2>1
<1>4. CASE line.kind = "assistant" /\ line.tool \notin parser.emitted
  <2>1. Shows(view, line) = ToolStart(view, line.tool, line.parent, line.tool)
    BY <1>4, ShowsIs
  <2> QED BY <1>1, <1>2, <1>4, <2>1
<1> QED BY <1>3, <1>4

\* A tool announced twice, or a part without a start, is not shown.
LEMMA ShowsNothing ==
    ASSUME NEW view \in TheViews, NEW line \in FromLines,
           \/ line.kind = "assistant" /\ line.tool \in parser.emitted
           \/ line.kind = "delta" /\ parser.last = NoTool
    PROVE  Shows(view, line) = view
BY ShowsIs

\* A part goes to the card of the tool that started last.
LEMMA ShowsDelta ==
    ASSUME NEW view \in TheViews, NEW line \in FromLines, NEW u \in Tools,
           line.kind = "delta", parser \in Parsers, parser.last # NoTool
    PROVE  /\ Shows(view, line).main[u] =
                 IF u = parser.last /\ line.parent = Top /\ Present(view.main[u])
                 THEN Accumulate(view.main[u], line.tool) ELSE view.main[u]
           /\ Shows(view, line).sub[u] =
                 IF u = parser.last /\ InSub(view, u, line.parent)
                 THEN Accumulate(view.sub[u], line.tool) ELSE view.sub[u]
<1>1. line.tool \in Tools /\ line.parent \in Inputs /\ parser.last \in Tools
  BY LineFields, LastTool
<1>2. Shows(view, line) = ToolInputDelta(view, parser.last, line.parent, line.tool)
  BY ShowsIs
<1> DEFINE new == ToolInputDelta(view, parser.last, line.parent, line.tool)
<1>3. /\ new.main[u] = IF u = parser.last /\ line.parent = Top /\ Present(view.main[parser.last])
                       THEN Accumulate(view.main[u], line.tool) ELSE view.main[u]
      /\ new.sub[u] = IF u = parser.last /\ InSub(view, parser.last, line.parent)
                      THEN Accumulate(view.sub[u], line.tool) ELSE view.sub[u]
  BY <1>1, DeltaCards
<1> QED BY <1>2, <1>3

\* A prompt is asked on a card of the tool, which it makes if there is none.
AskedOnMain(view, line, u) ==
    ~InSub(view, u, line.parent) /\ (Present(view.main[u]) \/ ~Present(view.sub[u]))

\* A prompt, card by card.
LEMMA ShowsAsk ==
    ASSUME NEW view \in TheViews, NEW line \in FromLines, NEW u \in Tools, line.kind = "ask"
    PROVE  /\ Shows(view, line).main[u] =
                 IF u = line.tool /\ AskedOnMain(view, line, u)
                 THEN Asked(IF Present(view.main[u]) THEN view.main[u] ELSE NewCard(u))
                 ELSE view.main[u]
           /\ Shows(view, line).sub[u] =
                 IF u = line.tool /\ ~AskedOnMain(view, line, u)
                 THEN Asked(view.sub[u]) ELSE view.sub[u]
<1>1. line.tool \in Tools /\ line.parent \in Inputs
  BY LineFields
<1>2. Shows(view, line) = PermissionPrompt(view, line.tool, line.parent)
  BY ShowsIs
<1> DEFINE new == PermissionPrompt(view, line.tool, line.parent)
<1>3. /\ new.main[u] = IF u = line.tool /\ AskedOnMain(view, line, line.tool)
                       THEN Asked(IF Present(view.main[u]) THEN view.main[u] ELSE NewCard(u))
                       ELSE view.main[u]
      /\ new.sub[u] = IF u = line.tool /\ ~AskedOnMain(view, line, line.tool)
                      THEN Asked(view.sub[u]) ELSE view.sub[u]
  BY <1>1, PromptCards DEF AskedOnMain
<1> QED BY <1>2, <1>3

Cancel(card) == IF Open(card) /\ card.request THEN Fail(card) ELSE card

\* A withdrawn prompt closes the open cards of its tool.
LEMMA ShowsCancel ==
    ASSUME NEW view \in TheViews, NEW line \in FromLines, NEW u \in Tools, line.kind = "cancel"
    PROVE  /\ Shows(view, line).main[u] =
                 IF u = line.tool THEN Cancel(view.main[u]) ELSE view.main[u]
           /\ Shows(view, line).sub[u] =
                 IF u = line.tool THEN Cancel(view.sub[u]) ELSE view.sub[u]
<1>1. line.tool \in Tools
  BY LineFields
<1>2. Shows(view, line) = ControlCancelled(view, line.tool)
  BY ShowsIs
<1> DEFINE new == ControlCancelled(view, line.tool)
<1>3. /\ new.main[u] = IF u = line.tool THEN Cancel(view.main[u]) ELSE view.main[u]
      /\ new.sub[u] = IF u = line.tool THEN Cancel(view.sub[u]) ELSE view.sub[u]
  BY <1>1, CancelledCards DEF Cancel
<1> QED BY <1>2, <1>3

WithStatus(card, status) == [card EXCEPT !.status = status]

\* A result of a tool sets the same status in every view.
LEMMA ShowsEnded ==
    ASSUME NEW line \in FromLines, line.kind = "toolResult"
    PROVE  \E status \in {"success", "error"} : \A view \in TheViews, u \in Tools :
           /\ Shows(view, line).main[u] =
                 IF u = line.tool /\ ~InSub(view, u, line.parent) /\ Present(view.main[u])
                 THEN WithStatus(view.main[u], status) ELSE view.main[u]
           /\ Shows(view, line).sub[u] =
                 IF u = line.tool /\ InSub(view, u, line.parent)
                 THEN WithStatus(view.sub[u], status) ELSE view.sub[u]
<1>1. line.tool \in Tools /\ line.parent \in Inputs
  BY LineFields
<1> DEFINE status == IF line.ok THEN "success" ELSE "error"
<1>2. status \in {"success", "error"}
  OBVIOUS
<1>3. ASSUME NEW view \in TheViews
      PROVE  Shows(view, line) = Ended(view, line.tool, line.parent, status)
  BY DEF Shows
<1> HIDE DEF status
<1>4. ASSUME NEW view \in TheViews, NEW u \in Tools
      PROVE /\ Shows(view, line).main[u] =
                 IF u = line.tool /\ ~InSub(view, u, line.parent) /\ Present(view.main[u])
                 THEN WithStatus(view.main[u], status) ELSE view.main[u]
            /\ Shows(view, line).sub[u] =
                 IF u = line.tool /\ InSub(view, u, line.parent)
                 THEN WithStatus(view.sub[u], status) ELSE view.sub[u]
  <2>1. ASSUME NEW t \in Tools, NEW parent \in Inputs
        PROVE  /\ Ended(view, t, parent, status).main[u] =
                     IF u = t /\ ~InSub(view, t, parent) /\ Present(view.main[t])
                     THEN [view.main[u] EXCEPT !.status = status] ELSE view.main[u]
               /\ Ended(view, t, parent, status).sub[u] =
                     IF u = t /\ InSub(view, t, parent)
                     THEN [view.sub[u] EXCEPT !.status = status] ELSE view.sub[u]
    BY <1>2, EndedCards
  <2> QED BY <1>1, <1>3, <2>1 DEF WithStatus
<1> QED BY <1>2, <1>4

Close(card) == IF Open(card) THEN Fail(card) ELSE card

\* The result of a turn marks what was denied and closes what is open.
LEMMA ShowsResult ==
    ASSUME NEW view \in TheViews, NEW line \in FromLines, NEW u \in Tools, line.kind = "result"
    PROVE  /\ Shows(view, line).main[u] =
                 Close(IF u \in line.denied THEN Deny(view.main[u]) ELSE view.main[u])
           /\ Shows(view, line).sub[u] =
                 Close(IF u \in line.denied /\ ~Present(view.main[u])
                       THEN Deny(view.sub[u]) ELSE view.sub[u])
<1> DEFINE denied == PermissionsDenied(view, line.denied)
<1>1. Shows(view, line) = Idle(denied)
  BY ShowsIs
<1>2. /\ denied \in TheViews
      /\ denied.main[u] = IF u \in line.denied THEN Deny(view.main[u]) ELSE view.main[u]
      /\ denied.sub[u] = IF u \in line.denied /\ ~Present(view.main[u]) THEN Deny(view.sub[u])
                         ELSE view.sub[u]
  BY DeniedCards
<1> HIDE DEF denied
<1>3. Idle(denied).main[u] = Close(denied.main[u]) /\ Idle(denied).sub[u] = Close(denied.sub[u])
  BY <1>2, IdleCards DEF Close
<1> QED BY <1>1, <1>2, <1>3

Answered(card, allow) ==
    IF Actionable(card) THEN WithStatus(card, IF allow THEN "running" ELSE "permission_denied")
    ELSE card

\* An answer that is shown, card by card.
LEMMA ResolveIs ==
    ASSUME NEW view \in TheViews, NEW t \in Tools, NEW allow \in BOOLEAN, NEW u \in Tools
    PROVE  /\ Resolve(view, t, allow).main[u] =
                 IF u = t THEN Answered(view.main[u], allow) ELSE view.main[u]
           /\ Resolve(view, t, allow).sub[u] =
                 IF u = t THEN Answered(view.sub[u], allow) ELSE view.sub[u]
BY ResolvedCards DEF Answered, WithStatus

\* The lines that are written.
LEMMA WrittenLines ==
    /\ ToCli("turn", NoTool, TRUE, NoTool) \in ToLines
    /\ ToCli("interrupt", NoTool, TRUE, NoTool) \in ToLines
    /\ \A t \in Tools, allow \in BOOLEAN, input \in Inputs :
          ToCli("response", t, allow, input) \in ToLines
BY DEF ToCli, ToLines, LineToCli, Inputs, NoTool

\* The lines that the CLI tells.
LEMMA ToldLines ==
    /\ \A kind \in {"block", "delta", "assistant", "ask", "cancel", "toolResult"}, t \in Tools,
          parent \in Inputs, ok \in BOOLEAN :
             /\ FromCli(kind, t, parent) \in FromLines
             /\ [FromCli(kind, t, parent) EXCEPT !.ok = ok] \in FromLines
    /\ cli \in Clis => Result \in FromLines
    /\ \A t \in Tools : Parent[t] \in Inputs
    /\ Top \in Inputs
BY ToolCardsAssumption DEF FromCli, FromLines, LineFromCli, Inputs, NoTool, Result, Clis

\* A line to a CLI that is dead is dropped.
LEMMA WriteTypes ==
    ASSUME toCli \in Seq(ToLines), NEW line \in ToLines, WriteLine(line)
    PROVE  toCli' \in Seq(ToLines)
BY Appended DEF WriteLine

\* One or two lines are told.
LEMMA TellTypes ==
    ASSUME fromCli \in Seq(FromLines), NEW x \in FromLines, NEW y \in FromLines,
           Tell(<<x>>) \/ Tell(<<x, y>>)
    PROVE  fromCli' \in Seq(FromLines)
<1>1. CASE Tell(<<x>>)
  BY <1>1, Concat, Appended DEF Tell
<1>2. CASE Tell(<<x, y>>)
  <2>1. Append(fromCli, x) \in Seq(FromLines)
    BY Appended
  <2> QED BY <1>2, <2>1, Concat, Appended DEF Tell
<1> QED BY <1>1, <1>2

\* A bounded count goes up.
LEMMA BumpTypes ==
    ASSUME TypeInv, NEW what \in {"turns", "answers", "interrupts", "reloads"}, Bump(what),
           count[what] < (CASE what = "turns" -> MaxTurns [] what = "answers" -> MaxAnswers
                            [] what = "interrupts" -> MaxInterrupts
                            [] what = "reloads" -> MaxReloads)
    PROVE  count' \in Counts
<1> DEFINE limit == CASE what = "turns" -> MaxTurns [] what = "answers" -> MaxAnswers
                      [] what = "interrupts" -> MaxInterrupts [] what = "reloads" -> MaxReloads
<1>1. /\ MaxTurns \in Nat /\ MaxAnswers \in Nat /\ MaxInterrupts \in Nat /\ MaxReloads \in Nat
      /\ count \in Counts
  BY ToolCardsAssumption, Types
<1>2. count[what] < limit /\ count[what] \in 0..limit /\ limit \in Nat
  BY <1>1 DEF Counts
<1>3. count[what] + 1 \in 0..limit
  <2> HIDE DEF limit
  <2> QED BY <1>2
<1>4. CASE what = "turns"
  BY <1>1, <1>3, <1>4 DEF Bump, Counts
<1>5. CASE what = "answers"
  BY <1>1, <1>3, <1>5 DEF Bump, Counts
<1>6. CASE what = "interrupts"
  BY <1>1, <1>3, <1>6 DEF Bump, Counts
<1>7. CASE what = "reloads"
  BY <1>1, <1>3, <1>7 DEF Bump, Counts
<1> QED BY <1>4, <1>5, <1>6, <1>7

\* A stage of a tool, and nothing else of the CLI.
LEMMA StageTypes ==
    ASSUME cli \in Clis, NEW t \in Tools, NEW stage \in Stages, ToStage(t, stage)
    PROVE  cli' \in Clis
BY DEF Clis, ToStage

\* What is shown changes for each view by an operator that keeps the types.
LEMMA ShownTypes ==
    ASSUME TypeInv, fromCli # <<>>, shown' = [v \in Views |-> Shows(shown[v], Line)]
    PROVE  shown' \in [Views -> TheViews]
BY Types, ShowsTypes

\* What browsers do keeps the types.
LEMMA BrowserTypes ==
    ASSUME TypeInv,
           \/ SendMessage \/ Interrupt
           \/ \E b \in Browsers, t \in Tools : Click(b, t)
           \/ \E a \in answers : RespondPermission(a) \/ ShowAnswer(a)
           \/ \E b \in Browsers : Reload(b)
    PROVE  TypeInv'
<1> USE Types
<1>1. CASE SendMessage
  <2>1. toCli' \in Seq(ToLines)
    BY <1>1, WrittenLines, WriteTypes DEF SendMessage
  <2>2. count' \in Counts
    BY <1>1, BumpTypes DEF SendMessage
  <2>3. actor' \in Actors /\ (actor'.turn => actor'.quarantine = "off")
    BY <1>1 DEF SendMessage, Actors
  <2> QED BY <1>1, <2>1, <2>2, <2>3, Typed DEF SendMessage
<1>2. CASE Interrupt
  <2>1. toCli' \in Seq(ToLines)
    BY <1>2, WrittenLines, WriteTypes DEF Interrupt
  <2>2. count' \in Counts
    BY <1>2, BumpTypes DEF Interrupt
  <2> QED BY <1>2, <2>1, <2>2, Typed DEF Interrupt
<1>3. ASSUME NEW b \in Browsers, NEW t \in Tools, Click(b, t)
      PROVE  TypeInv'
  <2>1. PICK card \in {shown[b].main[t], shown[b].sub[t]}, allow \in BOOLEAN :
           answers' = answers \cup {[by |-> b, tool |-> t, allow |-> allow,
                                     input |-> IF allow THEN card.input ELSE NoTool,
                                     state |-> "sent"]}
    BY <1>3 DEF Click
  <2>2. card \in Cards
    BY DEF Views, TheViews
  <2>3. answers' \subseteq Replies
    BY <2>1, <2>2 DEF Replies, Cards, Inputs, NoTool
  <2>4. count' \in Counts
    BY <1>3, BumpTypes DEF Click
  <2> QED BY <1>3, <2>3, <2>4, Typed DEF Click
<1>4. ASSUME NEW a \in answers, RespondPermission(a)
      PROVE  TypeInv'
  <2>1. a \in Replies
    OBVIOUS
  <2>2. answers' \subseteq Replies
    BY <1>4, <2>1 DEF RespondPermission, Replies
  <2>3. ToCli("response", a.tool, a.allow, a.input) \in ToLines
    BY <2>1, WrittenLines DEF Replies
  <2>4. toCli' \in Seq(ToLines)
    BY <1>4, <2>3, WriteTypes DEF RespondPermission
  <2> QED BY <1>4, <2>2, <2>4, Typed DEF RespondPermission
<1>5. ASSUME NEW a \in answers, ShowAnswer(a)
      PROVE  TypeInv'
  <2>1. a \in Replies
    OBVIOUS
  <2>2. a.by \in Views /\ a.tool \in Tools /\ a.allow \in BOOLEAN
    BY <2>1 DEF Replies, Views
  <2>3. Resolve(shown[a.by], a.tool, a.allow) \in TheViews
    BY <2>2, ResolvedCards
  <2>4. shown' \in [Views -> TheViews]
    BY <1>5, <2>2, <2>3 DEF ShowAnswer
  <2> QED BY <1>5, <2>4, Typed DEF ShowAnswer
<1>6. ASSUME NEW b \in Browsers, Reload(b)
      PROVE  TypeInv'
  <2>1. shown' \in [Views -> TheViews]
    BY <1>6 DEF Reload, Views
  <2>2. count' \in Counts
    BY <1>6, BumpTypes DEF Reload
  <2> QED BY <1>6, <2>1, <2>2, Typed DEF Reload
<1> QED BY <1>1, <1>2, <1>3, <1>4, <1>5, <1>6

\* What the actor and its clock do keeps the types.
LEMMA ActorTypes ==
    ASSUME TypeInv, Actor \/ Elapse
    PROVE  TypeInv'
<1> USE Types
<1>1. ASSUME fromCli # <<>>
      PROVE  MapEvent(Line) \in Parsers
  BY <1>1 DEF MapEvent, Started, Parsers, FromLines, LineFromCli, Inputs
<1>2. ASSUME TakeLine
      PROVE  fromCli # <<>> /\ fromCli' \in Seq(FromLines)
  BY <1>2, Taken DEF TakeLine
<1>3. CASE HandleLine
  <2>1. shown' \in [Views -> TheViews]
    BY <1>2, <1>3, ShownTypes DEF HandleLine
  <2>2. parser' \in Parsers
    BY <1>1, <1>2, <1>3 DEF HandleLine
  <2>3. actor' \in Actors /\ (actor'.turn => actor'.quarantine = "off")
    BY <1>3 DEF HandleLine, Actors
  <2> QED BY <1>2, <1>3, <2>1, <2>2, <2>3, Typed DEF HandleLine
<1>4. CASE SwallowLine
  <2>1. parser' \in Parsers
    BY <1>1, <1>2, <1>4 DEF SwallowLine
  <2>2. actor' \in Actors /\ (actor'.turn => actor'.quarantine = "off")
    BY <1>4 DEF SwallowLine, Actors, Quarantines
  <2>3. Line.kind = "ask" => ToCli("response", Line.tool, FALSE, NoTool) \in ToLines
    BY <1>2, <1>4, WrittenLines DEF SwallowLine, FromLines, Inputs, NoTool
  <2>4. toCli' \in Seq(ToLines)
    BY <1>4, <2>3, WriteTypes DEF SwallowLine, AnswerAsk
  <2> QED BY <1>2, <1>4, <2>1, <2>2, <2>4, Typed DEF SwallowLine
<1>5. CASE Elapse
  <2>1. actor' \in Actors /\ (actor'.turn => actor'.quarantine = "off")
    BY <1>5 DEF Elapse, Actors, Quarantines
  <2> QED BY <1>5, <2>1, Typed DEF Elapse, ActorOnly
<1>6. CASE TickHardTimeout
  <2>1. actor' \in Actors /\ (actor'.turn => actor'.quarantine = "off")
    BY <1>6 DEF TickHardTimeout, EnterQuarantine, Actors, Quarantines
  <2> QED BY <1>6, <2>1, Typed DEF TickHardTimeout, ActorOnly
<1>7. CASE TickInterrupt
  <2>1. actor' \in Actors /\ (actor'.turn => actor'.quarantine = "off")
    BY <1>7 DEF TickInterrupt, Actors, Quarantines
  <2>2. toCli' \in Seq(ToLines)
    BY <1>7, WrittenLines, WriteTypes DEF TickInterrupt
  <2> QED BY <1>7, <2>1, <2>2, Typed DEF TickInterrupt, ActorOnly
<1>8. CASE TickKill
  <2>1. actor' \in Actors /\ (actor'.turn => actor'.quarantine = "off")
    BY <1>8 DEF TickKill, Actors, Quarantines
  <2>2. cli' \in Clis
    BY <1>8 DEF TickKill, Clis
  <2>3. toCli' \in Seq(ToLines)
    BY <1>8 DEF TickKill
  <2> QED BY <1>8, <2>1, <2>2, <2>3, Typed DEF TickKill, ActorOnly
<1>9. CASE Eof
  <2>1. actor' \in Actors /\ (actor'.turn => actor'.quarantine = "off")
    BY <1>9 DEF Eof, Actors, Quarantines
  <2> QED BY <1>9, <2>1, Typed DEF Eof, ActorOnly
<1> QED BY <1>3, <1>4, <1>5, <1>6, <1>7, <1>8, <1>9 DEF Actor

\* What the CLI does keeps the types.
LEMMA CliTypes ==
    ASSUME TypeInv, Cli
    PROVE  TypeInv'
<1> USE Types, ToldLines
<1>1. ASSUME cli' \in Clis, fromCli' \in Seq(FromLines), toCli' \in Seq(ToLines),
             ran' \subseteq [tool : Tools, input : Inputs], CliOnly
      PROVE  TypeInv'
  BY <1>1, Typed DEF CliOnly
<1>2. ASSUME NEW t \in Tools, StreamBlock(t) \/ StreamPart(t) \/ Announce(t) \/ Run(t) \/ Withdraw(t)
      PROVE  TypeInv'
  <2>1. \E stage \in Stages : ToStage(t, stage)
    BY <1>2 DEF StreamBlock, StreamPart, Announce, Run, Withdraw, Stages
  <2>2. cli' \in Clis
    BY <2>1, StageTypes
  <2>3. \/ \E x \in FromLines : Tell(<<x>>)
        \/ fromCli' = fromCli
    BY <1>2 DEF StreamBlock, StreamPart, Announce, Run, Withdraw
  <2>4. fromCli' \in Seq(FromLines)
    BY <2>3, TellTypes
  <2>5. ran' \subseteq [tool : Tools, input : Inputs]
    BY <1>2 DEF StreamBlock, StreamPart, Announce, Run, Withdraw, Inputs
  <2>6. toCli' = toCli /\ CliOnly
    BY <1>2 DEF StreamBlock, StreamPart, Announce, Run, Withdraw
  <2> QED BY <1>1, <2>2, <2>4, <2>5, <2>6
<1>3. ASSUME NEW t \in Tools, Ask(t)
      PROVE  TypeInv'
  <2>1. PICK parent \in {Parent[t], Top} :
           /\ \/ Tell(<<FromCli("ask", t, parent)>>)
              \/ Tell(<<FromCli("ask", t, parent), FromCli("assistant", t, Parent[t])>>)
           /\ ToStage(t, "asked") /\ UNCHANGED <<ran, toCli>> /\ CliOnly
    BY <1>3 DEF Ask
  <2>2. FromCli("ask", t, parent) \in FromLines /\ FromCli("assistant", t, Parent[t]) \in FromLines
    OBVIOUS
  <2>3. fromCli' \in Seq(FromLines)
    BY <2>1, <2>2, TellTypes
  <2>4. cli' \in Clis
    BY <2>1, StageTypes DEF Stages
  <2> QED BY <1>1, <2>1, <2>3, <2>4
<1>4. ASSUME NEW t \in Tools, EndTool(t)
      PROVE  TypeInv'
  <2>1. cli' \in Clis
    BY <1>4, StageTypes DEF EndTool, Stages
  <2>2. \E x \in FromLines : Tell(<<x>>)
    BY <1>4 DEF EndTool
  <2>3. fromCli' \in Seq(FromLines)
    BY <2>2, TellTypes
  <2> QED BY <1>1, <1>4, <2>1, <2>3 DEF EndTool
<1>5. Idled \in Clis
  BY DEF Idled, Clis
<1>6. CASE Finish
  <2>1. fromCli' \in Seq(FromLines)
    BY <1>6, TellTypes DEF Finish
  <2> QED BY <1>1, <1>5, <1>6, <2>1 DEF Finish
<1>7. toCli # <<>> => Tail(toCli) \in Seq(ToLines)
  BY Taken
<1>8. CASE TakeTurn
  <2>1. cli' \in Clis
    BY <1>8 DEF TakeTurn, Clis
  <2> QED BY <1>1, <1>7, <1>8, <2>1 DEF TakeTurn, Takes
<1>9. CASE TakeInterrupt
  <2>1. cli' \in Clis
    <3>1. [Idled EXCEPT !.stage = [t \in Tools |-> IF @[t] = "none" THEN "none" ELSE "ended"]] \in Clis
      BY <1>5 DEF Clis, Stages
    <3> QED BY <1>9, <3>1 DEF TakeInterrupt
  <2>2. \/ fromCli' = fromCli
        \/ \E x \in FromLines, y \in FromLines : Tell(<<x>>) \/ Tell(<<x, y>>)
    BY <1>9 DEF TakeInterrupt
  <2>3. fromCli' \in Seq(FromLines)
    BY <2>2, TellTypes
  <2> QED BY <1>1, <1>7, <1>9, <2>1, <2>3 DEF TakeInterrupt, Takes
<1>10. CASE TakeResponse
  <2>1. Head(toCli).tool \in Tools /\ Head(toCli).input \in Inputs
    BY <1>10 DEF TakeResponse, Takes, ToLines, LineToCli
  <2>2. cli' \in Clis
    <3>1. \/ cli' = cli
          \/ ToStage(Head(toCli).tool, "running")
          \/ cli' = [cli EXCEPT !.stage[Head(toCli).tool] = "refused",
                               !.denied = @ \cup {Head(toCli).tool}]
      BY <1>10 DEF TakeResponse
    <3>2. CASE ToStage(Head(toCli).tool, "running")
      BY <2>1, <3>2, StageTypes DEF Stages
    <3>3. CASE cli' = [cli EXCEPT !.stage[Head(toCli).tool] = "refused",
                                !.denied = @ \cup {Head(toCli).tool}]
      BY <2>1, <3>3 DEF Clis, Stages
    <3> QED BY <3>1, <3>2, <3>3
  <2>3. ran' \subseteq [tool : Tools, input : Inputs]
    BY <1>10, <2>1 DEF TakeResponse
  <2> QED BY <1>1, <1>7, <1>10, <2>2, <2>3 DEF TakeResponse, Takes
<1>11. CASE Exits
  <2>1. cli' \in Clis
    BY <1>11 DEF Exits, Clis
  <2>2. toCli' \in Seq(ToLines)
    BY <1>11 DEF Exits
  <2> QED BY <1>1, <1>11, <2>1, <2>2 DEF Exits
<1> QED BY <1>2, <1>3, <1>4, <1>6, <1>8, <1>9, <1>10, <1>11 DEF Cli

\* The types hold at the start.
LEMMA InitTypes == Init => TypeInv
<1> SUFFICES ASSUME Init PROVE TypeInv
  OBVIOUS
<1>1. cli \in Clis /\ ran = {} /\ parser \in Parsers /\ answers = {}
  BY DEF Init, Clis, Stages, Parsers, Inputs, NoTool
<1>2. actor \in Actors /\ ~actor.turn
  BY DEF Init, Actors, Quarantines
<1>3. toCli = <<>> /\ fromCli = <<>>
  BY DEF Init
<1>4. shown \in [Views -> TheViews] /\ swallowed \in BOOLEAN
  BY TypedCards DEF Init
<1>5. count \in Counts
  BY ToolCardsAssumption DEF Init, Counts
<1> QED BY <1>1, <1>2, <1>3, <1>4, <1>5
        DEF TypeInv, TypeOK, Clis, Parsers, Actors, Replies, TheViews, Counts

\* Every step keeps the types.
LEMMA NextTypes == TypeInv /\ [Next]_vars => TypeInv'
<1> SUFFICES ASSUME TypeInv, [Next]_vars PROVE TypeInv'
  OBVIOUS
<1>1. CASE Next
  BY <1>1, BrowserTypes, ActorTypes, CliTypes DEF Next
<1>2. CASE UNCHANGED vars
  BY <1>2, Types, Typed DEF vars
<1> QED BY <1>1, <1>2

\* The variables have their types.  An answer has the tool and the input of a card, and a
\* quarantine and an active turn exclude each other.
THEOREM CardsTypeCorrect == Spec => []TypeOK
<1>1. Spec => []TypeInv
  BY InitTypes, NextTypes, PTL DEF Spec
<1>2. TypeInv => TypeOK
  BY DEF TypeInv
<1> QED BY <1>1, <1>2, PTL

-----------------------------------------------------------------------------
(* One turn between the actor and the CLI *)

Of(kind)       == {line \in FromLines : line.kind = kind}
About(kind, t) == {line \in FromLines : line.kind = kind /\ line.tool = t}
Results        == Of("result")
Turns          == {line \in ToLines : line.kind = "turn"}
Responses(t)   == {line \in ToLines : line.kind = "response" /\ line.tool = t}

\* A turn is on its way to the CLI, worked on, or ended and its result on its way back: one
\* of the three at a time, while the actor has it for its turn or is in quarantine.  Nothing
\* follows a result, and a tool that is under way belongs to the turn that is worked on.
TurnUnderWay == Has(toCli, Turns) \/ cli.busy \/ Has(fromCli, Results)

WireInv ==
    /\ Once(toCli, Turns) /\ Once(fromCli, Results)
    /\ Has(toCli, Turns) => ~cli.busy /\ ~Has(fromCli, Results)
    /\ cli.busy => ~Has(fromCli, Results)
    /\ Before(fromCli, FromLines \ Results, Results)
    /\ actor.up /\ TurnUnderWay => actor.turn \/ actor.quarantine # "off"
    /\ \A t \in Tools : cli.stage[t] \notin {"none", "ended"} => cli.busy

\* A line that is not a turn is written, or dropped.
LEMMA WriteTurns ==
    ASSUME toCli \in Seq(ToLines), NEW line \in ToLines, line.kind # "turn", WriteLine(line)
    PROVE  /\ Has(toCli', Turns) <=> Has(toCli, Turns)
           /\ Once(toCli, Turns) => Once(toCli', Turns)
<1>1. line \notin Turns
  BY DEF Turns
<1> QED BY <1>1, Appended DEF WriteLine

\* Nothing changes but lines that are no turns.
LEMMA WireStays ==
    ASSUME TypeInv, WireInv, fromCli' = fromCli, cli'.busy = cli.busy, cli'.stage = cli.stage,
           Has(toCli', Turns) => Has(toCli, Turns), Once(toCli', Turns),
           actor'.up => actor.up,
           actor'.up /\ (actor.turn \/ actor.quarantine # "off")
             => actor'.turn \/ actor'.quarantine # "off"
    PROVE  WireInv'
BY DEF WireInv, TurnUnderWay

\* What browsers do keeps one turn between actor and CLI: only a message begins one.
LEMMA BrowserWire ==
    ASSUME TypeInv, WireInv,
           \/ SendMessage \/ Interrupt
           \/ \E b \in Browsers, t \in Tools : Click(b, t)
           \/ \E a \in answers : RespondPermission(a) \/ ShowAnswer(a)
           \/ \E b \in Browsers : Reload(b)
    PROVE  WireInv'
<1> USE Types
<1>1. CASE SendMessage
  <2>1. ~Has(toCli, Turns) /\ ~cli.busy /\ ~Has(fromCli, Results)
    BY <1>1 DEF SendMessage, WireInv, TurnUnderWay
  <2>2. PICK line \in ToLines : toCli' = Append(toCli, line)
    BY <1>1, WrittenLines DEF SendMessage, WriteLine
  <2>3. Once(toCli', Turns)
    BY <2>1, <2>2, Appended DEF WireInv
  <2>4. actor'.turn /\ UNCHANGED <<cli, fromCli>>
    BY <1>1 DEF SendMessage, Actors
  <2> QED BY <2>1, <2>3, <2>4 DEF WireInv, TurnUnderWay
<1>2. CASE Interrupt
  <2>1. ToCli("interrupt", NoTool, TRUE, NoTool).kind # "turn"
    BY DEF ToCli
  <2>2. (Has(toCli', Turns) => Has(toCli, Turns)) /\ Once(toCli', Turns)
    BY <1>2, <2>1, WrittenLines, WriteTurns DEF Interrupt, WireInv
  <2> QED BY <1>2, <2>2, WireStays DEF Interrupt
<1>3. ASSUME NEW a \in answers, RespondPermission(a)
      PROVE  WireInv'
  <2>1. ToCli("response", a.tool, a.allow, a.input).kind # "turn"
    BY DEF ToCli
  <2>2. ToCli("response", a.tool, a.allow, a.input) \in ToLines
    BY WrittenLines DEF Replies
  <2>3. (Has(toCli', Turns) => Has(toCli, Turns)) /\ Once(toCli', Turns)
    BY <1>3, <2>1, <2>2, WriteTurns DEF RespondPermission, WireInv
  <2> QED BY <1>3, <2>3, WireStays DEF RespondPermission
<1>4. ASSUME UNCHANGED <<cli, toCli, fromCli, actor>>
      PROVE  WireInv'
  BY <1>4 DEF WireInv, TurnUnderWay
<1> QED BY <1>1, <1>2, <1>3, <1>4 DEF Click, ShowAnswer, Reload

\* What the actor does keeps it: a result read is the end of the turn.
LEMMA ActorWire ==
    ASSUME TypeInv, WireInv, Actor \/ Elapse
    PROVE  WireInv'
<1> USE Types
<1>1. ASSUME TakeLine
      PROVE  /\ Once(fromCli', Results) /\ Before(fromCli', FromLines \ Results, Results)
             /\ Has(fromCli', Results) => Has(fromCli, Results)
             /\ Line.kind = "result" => Has(fromCli, Results) /\ ~Has(fromCli', Results)
  BY <1>1, Taken DEF TakeLine, WireInv, Results, Of
<1>2. CASE HandleLine
  <2>1. actor'.up = actor.up /\ actor'.quarantine = "off" /\ UNCHANGED <<cli, toCli>>
        /\ (actor'.turn <=> actor.turn /\ Line.kind # "result")
    BY <1>2 DEF HandleLine, Actors
  <2>2. Line.kind = "result" => ~TurnUnderWay'
    BY <1>1, <1>2, <2>1 DEF HandleLine, WireInv, TurnUnderWay
  <2> QED BY <1>1, <1>2, <2>1, <2>2 DEF HandleLine, WireInv, TurnUnderWay
<1>3. CASE SwallowLine
  <2>1. Line.kind = "ask" => /\ ToCli("response", Line.tool, FALSE, NoTool) \in ToLines
                             /\ ToCli("response", Line.tool, FALSE, NoTool).kind # "turn"
    BY <1>3, WrittenLines DEF SwallowLine, TakeLine, FromLines, Inputs, NoTool, ToCli
  <2>2. (Has(toCli', Turns) <=> Has(toCli, Turns)) /\ Once(toCli', Turns)
    BY <1>3, <2>1, WriteTurns DEF SwallowLine, AnswerAsk, WireInv
  <2>3. actor'.up = actor.up /\ cli' = cli /\ (Line.kind # "result" => actor' = actor)
    BY <1>3 DEF SwallowLine, Actors
  <2>4. Line.kind = "result" => ~TurnUnderWay'
    BY <1>1, <1>3, <2>2, <2>3 DEF SwallowLine, WireInv, TurnUnderWay
  <2> QED BY <1>1, <1>3, <2>2, <2>3, <2>4 DEF SwallowLine, WireInv, TurnUnderWay
<1>4. CASE TickInterrupt
  <2>1. ToCli("interrupt", NoTool, TRUE, NoTool).kind # "turn"
    BY DEF ToCli
  <2>2. (Has(toCli', Turns) => Has(toCli, Turns)) /\ Once(toCli', Turns)
    BY <1>4, <2>1, WrittenLines, WriteTurns DEF TickInterrupt, WireInv
  <2>3. actor'.up = actor.up /\ actor'.quarantine # "off" /\ UNCHANGED <<cli, fromCli>>
    BY <1>4 DEF TickInterrupt, ActorOnly, Actors
  <2> QED BY <2>2, <2>3, WireStays
<1>5. CASE TickKill
  <2>1. ~Has(toCli', Turns) /\ Once(toCli', Turns)
    BY <1>5, Emptied DEF TickKill
  <2>2. ~actor'.up /\ cli'.busy = cli.busy /\ cli'.stage = cli.stage /\ fromCli' = fromCli
    BY <1>5 DEF TickKill, ActorOnly, Actors, Clis
  <2> QED BY <2>1, <2>2, WireStays
<1>6. CASE Elapse \/ TickHardTimeout \/ Eof
  <2>1. UNCHANGED <<cli, toCli, fromCli>>
    BY <1>6 DEF Elapse, TickHardTimeout, Eof, ActorOnly
  <2>2. actor'.up => actor.up
    BY <1>6 DEF Elapse, TickHardTimeout, Eof, EnterQuarantine, Actors
  <2>3. actor'.up /\ (actor.turn \/ actor.quarantine # "off")
             => actor'.turn \/ actor'.quarantine # "off"
    BY <1>6 DEF Elapse, TickHardTimeout, Eof, EnterQuarantine, Actors
  <2> QED BY <2>1, <2>2, <2>3, WireStays DEF WireInv
<1> QED BY <1>2, <1>3, <1>4, <1>5, <1>6 DEF Actor

\* The CLI writes lines of its turn.
LEMMA WireTells ==
    ASSUME TypeInv, WireInv, cli.busy, cli'.busy, UNCHANGED <<toCli, actor>>,
           NEW x \in FromLines, NEW y \in FromLines, x.kind # "result", y.kind # "result",
           fromCli' = fromCli \/ Tell(<<x>>) \/ Tell(<<x, y>>)
    PROVE  WireInv'
<1>1. x \notin Results /\ y \notin Results /\ fromCli \in Seq(FromLines)
  BY Types DEF Results, Of
<1>2. ~Has(fromCli, Results) /\ Before(fromCli, FromLines \ Results, Results) /\ Once(fromCli, Results)
  BY DEF WireInv
<1> DEFINE Good(s) == /\ s \in Seq(FromLines) /\ ~Has(s, Results) /\ Once(s, Results)
                      /\ Before(s, FromLines \ Results, Results)
<1>3. Good(Append(fromCli, x))
  BY <1>1, <1>2, Appended
<1>4. Good(Append(Append(fromCli, x), y))
  <2> HIDE DEF Good
  <2>1. \A s : Good(s) => Good(Append(s, y))
    BY <1>1, Appended DEF Good
  <2> QED BY <1>3, <2>1
<1>5. Good(fromCli')
  <2>1. \/ fromCli' = fromCli
        \/ fromCli' = Append(fromCli, x)
        \/ fromCli' = Append(Append(fromCli, x), y)
    BY <1>1, Concat DEF Tell
  <2> QED BY <1>1, <1>2, <1>3, <1>4, <2>1
<1>6. ~Has(toCli, Turns)
  BY DEF WireInv
<1> QED BY <1>5, <1>6 DEF WireInv, TurnUnderWay

\* The CLI ends its turn.
LEMMA WireEnds ==
    ASSUME TypeInv, WireInv, cli.busy, ~cli'.busy, NEW x, x.kind # "result",
           Tell(<<Result>>) \/ (x \in FromLines /\ Tell(<<x, Result>>)),
           toCli' = toCli \/ (~Has(toCli', Turns) /\ Once(toCli', Turns)), actor' = actor,
           \A t \in Tools : cli'.stage[t] \in {"none", "ended"}
    PROVE  WireInv'
<1>1. Result \in FromLines /\ x \notin Results /\ fromCli \in Seq(FromLines)
  BY Types, ToldLines DEF Results, Of
<1>2. ~Has(fromCli, Results) /\ Before(fromCli, FromLines \ Results, Results) /\ Once(fromCli, Results)
  BY DEF WireInv
<1> DEFINE Good(s) == /\ s \in Seq(FromLines) /\ Once(s, Results)
                      /\ Before(s, FromLines \ Results, Results)
<1>3. Good(Append(fromCli, Result))
  <2>1. Result \in Results
    BY <1>1 DEF Results, Of, Result, FromCli
  <2> QED BY <1>1, <1>2, <2>1, Appended
<1>4. x \in FromLines => Good(Append(Append(fromCli, x), Result))
  <2> SUFFICES ASSUME x \in FromLines PROVE Good(Append(Append(fromCli, x), Result))
    OBVIOUS
  <2>1. Result \in Results
    BY <1>1 DEF Results, Of, Result, FromCli
  <2>2. Good(Append(fromCli, x)) /\ ~Has(Append(fromCli, x), Results)
    BY <1>1, <1>2, Appended
  <2> HIDE DEF Good
  <2>3. \A s : Good(s) /\ ~Has(s, Results) => Good(Append(s, Result))
    BY <1>1, <2>1, Appended DEF Good
  <2> QED BY <2>2, <2>3
<1>5. Good(fromCli')
  <2>1. CASE Tell(<<Result>>)
    <3>1. fromCli' = Append(fromCli, Result)
      BY <1>1, <2>1, Concat DEF Tell
    <3> QED BY <1>3, <3>1
  <2>2. CASE x \in FromLines /\ Tell(<<x, Result>>)
    <3>1. fromCli' = Append(Append(fromCli, x), Result)
      BY <1>1, <2>2, Concat DEF Tell
    <3> QED BY <1>4, <2>2, <3>1
  <2> QED BY <2>1, <2>2
<1>6. ~Has(toCli, Turns) /\ Once(toCli, Turns) /\ (actor.up => actor.turn \/ actor.quarantine # "off")
  BY DEF WireInv, TurnUnderWay
<1> QED BY <1>5, <1>6 DEF WireInv, TurnUnderWay

\* What the CLI does keeps it: a turn is taken once and ends with one result.
LEMMA CliWire ==
    ASSUME TypeInv, WireInv, Cli
    PROVE  WireInv'
<1> USE Types, ToldLines
<1>1. ASSUME NEW t \in Tools, NEW stage, ToStage(t, stage)
      PROVE  cli'.busy = cli.busy
  BY <1>1 DEF ToStage, Clis
<1>2. ASSUME NEW t \in Tools,
             StreamBlock(t) \/ StreamPart(t) \/ Announce(t) \/ Run(t) \/ Withdraw(t) \/ EndTool(t)
      PROVE  WireInv'
  <2>1. cli.busy /\ \E stage : ToStage(t, stage)
    BY <1>2 DEF StreamBlock, StreamPart, Announce, Run, Withdraw, EndTool, MayStart, Working
  <2>2. cli'.busy
    BY <1>1, <2>1
  <2>3. fromCli' = fromCli \/ \E x \in FromLines : x.kind # "result" /\ Tell(<<x>>)
    <3>1. \A kind : FromCli(kind, t, Parent[t]).kind = kind /\ FromCli(kind, t, Top).kind = kind
      BY DEF FromCli
    <3>2. CASE EndTool(t)
      <4>1. PICK ok \in BOOLEAN : Tell(<<[FromCli("toolResult", t, Parent[t]) EXCEPT !.ok = ok]>>)
        BY <3>2 DEF EndTool
      <4>2. [FromCli("toolResult", t, Parent[t]) EXCEPT !.ok = ok].kind = "toolResult"
        BY DEF FromCli
      <4> QED BY <4>1, <4>2
    <3> QED BY <1>2, <3>1, <3>2 DEF StreamBlock, StreamPart, Announce, Run, Withdraw
  <2>4. UNCHANGED <<toCli, actor>>
    BY <1>2 DEF StreamBlock, StreamPart, Announce, Run, Withdraw, EndTool, CliOnly
  <2>5. FromCli("block", t, Top) \in FromLines /\ FromCli("block", t, Top).kind # "result"
    BY DEF FromCli
  <2> QED BY <2>1, <2>2, <2>3, <2>4, <2>5, WireTells
<1>3. ASSUME NEW t \in Tools, Ask(t)
      PROVE  WireInv'
  <2>1. PICK parent \in {Parent[t], Top} :
           /\ \/ Tell(<<FromCli("ask", t, parent)>>)
              \/ Tell(<<FromCli("ask", t, parent), FromCli("assistant", t, Parent[t])>>)
           /\ ToStage(t, "asked") /\ UNCHANGED toCli /\ CliOnly
    BY <1>3 DEF Ask
  <2>2. cli.busy /\ cli'.busy
    BY <1>1, <1>3, <2>1 DEF Ask, MayStart, Working
  <2>3. /\ FromCli("ask", t, parent) \in FromLines /\ FromCli("assistant", t, Parent[t]) \in FromLines
        /\ FromCli("ask", t, parent).kind # "result"
        /\ FromCli("assistant", t, Parent[t]).kind # "result"
    BY DEF FromCli
  <2> QED BY <2>1, <2>2, <2>3, WireTells DEF CliOnly
<1>4. ~Idled.busy /\ Idled.stage = cli.stage
  BY DEF Idled, Clis
<1>5. CASE Finish
  <2>1. cli.busy /\ ~cli'.busy /\ toCli' = toCli /\ actor' = actor /\ Tell(<<Result>>)
        /\ \A u \in Tools : cli'.stage[u] \in {"none", "ended"}
    BY <1>4, <1>5 DEF Finish, Working, CliOnly
  <2>2. FromCli("cancel", Top, Top).kind # "result"
    BY DEF FromCli
  <2> QED BY <2>1, <2>2, WireEnds
<1>6. ASSUME NEW kind, Takes(kind)
      PROVE  /\ Once(toCli, Turns) => Once(toCli', Turns)
             /\ Has(toCli', Turns) => Has(toCli, Turns)
             /\ kind = "turn" => Has(toCli, Turns)
             /\ kind = "turn" /\ Once(toCli, Turns) => ~Has(toCli', Turns)
  <2>1. kind = "turn" => Head(toCli) \in Turns
    BY <1>6 DEF Takes, Turns
  <2> QED BY <1>6, <2>1, Taken DEF Takes
<1>7. CASE TakeTurn
  <2>1. cli'.busy /\ cli'.stage = cli.stage /\ UNCHANGED <<fromCli, actor>>
    BY <1>7 DEF TakeTurn, CliOnly, Clis
  <2>2. ~Has(toCli', Turns) /\ Once(toCli', Turns) /\ ~Has(fromCli, Results) /\ TurnUnderWay
    BY <1>6, <1>7 DEF TakeTurn, WireInv, TurnUnderWay
  <2> QED BY <2>1, <2>2 DEF WireInv, TurnUnderWay
<1>8. CASE TakeInterrupt
  <2>1. (Has(toCli', Turns) => Has(toCli, Turns)) /\ Once(toCli', Turns) /\ actor' = actor
    BY <1>6, <1>8 DEF TakeInterrupt, WireInv, CliOnly
  <2>2. CASE ~cli.busy
    BY <1>8, <2>1, <2>2, WireStays DEF TakeInterrupt
  <2>3. CASE cli.busy
    <3>1. ~cli'.busy /\ \A t \in Tools : cli'.stage[t] \in {"none", "ended"}
      <4>1. Idled \in Clis /\ Idled.stage = cli.stage /\ ~Idled.busy
        BY DEF Idled, Clis
      <4>2. cli' = [Idled EXCEPT !.stage = [t \in Tools |-> IF @[t] = "none" THEN "none" ELSE "ended"]]
        BY <1>8, <2>3 DEF TakeInterrupt
      <4> HIDE DEF Idled
      <4> QED BY <4>1, <4>2 DEF Clis
    <3>2. ~Has(toCli', Turns)
      BY <2>1, <2>3 DEF WireInv
    <3>3. PICK t : Tell(<<Result>>) \/ (t \in Tools /\ Tell(<<FromCli("cancel", t, Top), Result>>))
      BY <1>8, <2>3 DEF TakeInterrupt
    <3>4. FromCli("cancel", t, Top).kind # "result"
      BY DEF FromCli
    <3> QED BY <2>1, <2>3, <3>1, <3>2, <3>3, <3>4, WireEnds
  <2> QED BY <2>2, <2>3
<1>9. CASE TakeResponse
  <2>1. (Has(toCli', Turns) => Has(toCli, Turns)) /\ Once(toCli', Turns)
        /\ actor' = actor /\ fromCli' = fromCli
    BY <1>6, <1>9 DEF TakeResponse, WireInv, CliOnly
  <2>2. CASE cli.stage[Head(toCli).tool] # "asked"
    BY <1>9, <2>1, <2>2, WireStays DEF TakeResponse
  <2>3. CASE cli.stage[Head(toCli).tool] = "asked"
    <3>1. Head(toCli).tool \in Tools
      BY <1>9 DEF TakeResponse, Takes, ToLines
    <3>2. cli.busy /\ cli'.busy
      BY <1>9, <2>3, <3>1 DEF TakeResponse, ToStage, WireInv, Clis
    <3> QED BY <2>1, <3>2 DEF WireInv, TurnUnderWay
  <2> QED BY <2>2, <2>3
<1>10. CASE Exits
  <2>1. ~Has(toCli', Turns) /\ Once(toCli', Turns)
    BY <1>10, Emptied DEF Exits
  <2>2. cli'.busy = cli.busy /\ cli'.stage = cli.stage /\ UNCHANGED <<fromCli, actor>>
    BY <1>10 DEF Exits, CliOnly, Clis
  <2> QED BY <2>1, <2>2, WireStays
<1> QED BY <1>2, <1>3, <1>5, <1>7, <1>8, <1>9, <1>10 DEF Cli

-----------------------------------------------------------------------------
(* Between turns no card is open *)

\* No operator on cards but the prompt opens one.
LEMMA OpenCards ==
    ASSUME NEW card \in Cards
    PROVE  /\ \A input : ~Open(NewCard(input))
           /\ \A part : Open(Accumulate(card, part)) => Open(card)
           /\ Open(Deny(card)) => Open(card)
           /\ Open(Cancel(card)) => Open(card)
           /\ \A status \in {"success", "error"} : ~Open(WithStatus(card, status))
           /\ ~Open(Close(card))
           /\ \A allow : Open(Answered(card, allow)) => Open(card)
<1>1. \A input : ~Open(NewCard(input))
  BY DEF Open, NewCard, NoCard
<1>2. \A part : Open(Accumulate(card, part)) => Open(card)
  BY DEF Open, Accumulate, Cards
<1>3. Open(Deny(card)) => Open(card)
  BY DEF Open, Deny, Cards
<1>4. ~Open(Fail(card))
  BY DEF Open, Fail, Cards
<1>5. \A status \in {"success", "error"} : ~Open(WithStatus(card, status))
  BY DEF Open, WithStatus, Cards
<1>6. \A allow : Open(Answered(card, allow)) => Open(card)
  BY DEF Open, Answered, Actionable
<1> QED BY <1>1, <1>2, <1>3, <1>4, <1>5, <1>6 DEF Cancel, Close

\* Only a prompt opens a card, and a result leaves none open.
LEMMA ShowsOpen ==
    ASSUME NEW view \in TheViews, NEW line \in FromLines, parser \in Parsers, NEW u \in Tools
    PROVE  /\ line.kind # "ask" => /\ Open(Shows(view, line).main[u]) => Open(view.main[u])
                                   /\ Open(Shows(view, line).sub[u]) => Open(view.sub[u])
           /\ line.kind = "result" => ~Open(Shows(view, line).main[u]) /\ ~Open(Shows(view, line).sub[u])
<1>1. view.main[u] \in Cards /\ view.sub[u] \in Cards
  BY DEF TheViews
<1>2. CASE line.kind = "block" \/ (line.kind = "assistant" /\ line.tool \notin parser.emitted)
  BY <1>1, <1>2, ShowsStart, OpenCards
<1>3. CASE line.kind = "delta" /\ parser.last # NoTool
  BY <1>1, <1>3, ShowsDelta, OpenCards
<1>4. CASE \/ line.kind = "assistant" /\ line.tool \in parser.emitted
           \/ line.kind = "delta" /\ parser.last = NoTool
  BY <1>4, ShowsNothing
<1>5. CASE line.kind = "cancel"
  BY <1>1, <1>5, ShowsCancel, OpenCards
<1>6. CASE line.kind = "toolResult"
  BY <1>1, <1>6, ShowsEnded, OpenCards
<1>7. CASE line.kind = "result"
  <2>1. Deny(view.main[u]) \in Cards /\ Deny(view.sub[u]) \in Cards
    BY <1>1, TypedCards
  <2>2. \A card \in Cards : ~Open(Close(card))
    BY OpenCards
  <2> QED BY <1>1, <1>7, <2>1, <2>2, ShowsResult
<1> QED BY <1>2, <1>3, <1>4, <1>5, <1>6, <1>7, LineFields

SomeOpen == \E v \in Views, t \in Tools : Open(shown[v].main[t]) \/ Open(shown[v].sub[t])

\* While the CLI is idle, the result that closes what is open, or is about to be opened, is
\* still on its way.
DeadInv ==
    ~cli.busy =>
        /\ Has(fromCli, Of("ask")) => Has(fromCli, Results)
        /\ ~swallowed /\ SomeOpen => Has(fromCli, Results)

\* Nothing opens, and the lines and the turn stay.
LEMMA DeadStays ==
    ASSUME DeadInv, fromCli' = fromCli, cli'.busy = cli.busy, swallowed' = swallowed,
           SomeOpen' => SomeOpen
    PROVE  DeadInv'
BY DEF DeadInv

\* What browsers do opens no card.
LEMMA BrowserDead ==
    ASSUME TypeInv, DeadInv,
           \/ SendMessage \/ Interrupt
           \/ \E b \in Browsers, t \in Tools : Click(b, t)
           \/ \E a \in answers : RespondPermission(a) \/ ShowAnswer(a)
           \/ \E b \in Browsers : Reload(b)
    PROVE  DeadInv'
<1> USE Types
<1>1. UNCHANGED <<fromCli, cli, swallowed>>
  BY DEF SendMessage, Interrupt, Click, RespondPermission, ShowAnswer, Reload
<1>2. ASSUME shown' = shown
      PROVE  DeadInv'
  BY <1>1, <1>2 DEF DeadInv, SomeOpen
<1>3. ASSUME NEW a \in answers, ShowAnswer(a)
      PROVE  DeadInv'
  <2>1. a.by \in Views /\ a.tool \in Tools /\ a.allow \in BOOLEAN
    BY DEF Replies, Views
  <2>2. \A u \in Tools :
           /\ Open(Resolve(shown[a.by], a.tool, a.allow).main[u]) => Open(shown[a.by].main[u])
           /\ Open(Resolve(shown[a.by], a.tool, a.allow).sub[u]) => Open(shown[a.by].sub[u])
    <3>1. shown[a.by] \in TheViews
      BY <2>1
    <3>2. \A u \in Tools : shown[a.by].main[u] \in Cards /\ shown[a.by].sub[u] \in Cards
      BY <3>1 DEF TheViews
    <3> QED BY <2>1, <3>1, <3>2, ResolveIs, OpenCards
  <2>3. SomeOpen' => SomeOpen
    BY <1>3, <2>1, <2>2 DEF ShowAnswer, SomeOpen
  <2> QED BY <1>1, <2>3, DeadStays
<1>4. ASSUME NEW b \in Browsers, Reload(b)
      PROVE  DeadInv'
  <2>1. SomeOpen' => SomeOpen
    BY <1>4 DEF Reload, SomeOpen, Views
  <2> QED BY <1>1, <2>1, DeadStays
<1> QED BY <1>2, <1>3, <1>4 DEF SendMessage, Interrupt, Click, RespondPermission

\* What the actor shows leaves no card open when the CLI is idle and all is read.
LEMMA ActorDead ==
    ASSUME TypeInv, WireInv, DeadInv, Actor \/ Elapse
    PROVE  DeadInv'
<1> USE Types
<1>1. ASSUME TakeLine
      PROVE  /\ Has(fromCli', Of("ask")) => Has(fromCli, Of("ask"))
             /\ Has(fromCli, Results) => Has(fromCli', Results) \/ Line.kind = "result"
             /\ Line.kind = "ask" => Has(fromCli, Of("ask"))
             /\ Line.kind = "result" => ~Has(fromCli', Of("ask")) /\ ~cli.busy
  <2>1. (Line.kind = "result" <=> Line \in Results) /\ (Line.kind = "ask" => Line \in Of("ask"))
    BY <1>1 DEF TakeLine, Results, Of
  <2>2. Line.kind = "result" => ~Has(fromCli', FromLines \ Results) /\ ~cli.busy
    BY <1>1, <2>1, Taken DEF TakeLine, WireInv
  <2>3. Has(fromCli', Of("ask")) => Has(fromCli', FromLines \ Results)
    BY DEF Has, Results, Of
  <2> QED BY <1>1, <2>1, <2>2, <2>3, Taken DEF TakeLine
<1>2. CASE HandleLine
  <2>1. cli' = cli /\ swallowed' = swallowed /\ fromCli # <<>>
    BY <1>2 DEF HandleLine, TakeLine
  <2>2. /\ Line.kind # "ask" => (SomeOpen' => SomeOpen)
        /\ Line.kind = "result" => ~SomeOpen'
    BY <1>2, <2>1, ShowsOpen DEF HandleLine, SomeOpen
  <2> QED BY <1>1, <1>2, <2>1, <2>2 DEF HandleLine, DeadInv
<1>3. CASE SwallowLine
  BY <1>1, <1>3 DEF SwallowLine, DeadInv
<1>4. CASE Elapse \/ TickHardTimeout \/ TickInterrupt \/ TickKill \/ Eof
  <2>1. UNCHANGED <<fromCli, shown, swallowed>> /\ cli'.busy = cli.busy
    BY <1>4 DEF Elapse, TickHardTimeout, TickInterrupt, TickKill, Eof, ActorOnly, Clis
  <2> QED BY <2>1, DeadStays DEF SomeOpen
<1> QED BY <1>2, <1>3, <1>4 DEF Actor

\* The CLI asks only in a turn, and ends it with a result.
LEMMA CliDead ==
    ASSUME TypeInv, DeadInv, Cli
    PROVE  DeadInv'
<1> USE Types
<1>1. CliOnly
  BY DEF Cli, StreamBlock, StreamPart, Announce, Ask, Run, Withdraw, EndTool, Finish, TakeTurn,
         TakeInterrupt, TakeResponse, Exits
<1>2. ASSUME fromCli' = fromCli, cli'.busy = cli.busy
      PROVE  DeadInv'
  BY <1>1, <1>2, DeadStays DEF CliOnly, SomeOpen
<1>3. CASE \/ \E t \in Tools :
                \/ StreamBlock(t) \/ StreamPart(t) \/ Announce(t) \/ Ask(t)
                \/ Run(t) \/ Withdraw(t) \/ EndTool(t)
           \/ TakeTurn
  <2>1. cli'.busy
    BY <1>3 DEF StreamBlock, StreamPart, Announce, Ask, Run, Withdraw, EndTool, TakeTurn, ToStage,
                MayStart, Working, Clis
  <2> QED BY <2>1 DEF DeadInv
<1>4. Result \in FromLines /\ Result \in Results
  BY ToldLines DEF Result, FromCli, Results, Of
<1>5. ASSUME NEW t \in Tools
      PROVE  Has(fromCli \o <<FromCli("cancel", t, Top), Result>>, Results)
  <2>1. PICK x \in FromLines : x = FromCli("cancel", t, Top)
    BY ToldLines
  <2>2. PICK y \in FromLines : y = Result /\ y \in Results
    BY <1>4
  <2>3. fromCli \o <<x, y>> = Append(Append(fromCli, x), y)
    BY Concat
  <2>4. Append(fromCli, x) \in Seq(FromLines)
    BY Appended
  <2>5. \A s \in Seq(FromLines) : Has(Append(s, y), Results)
    BY <2>2, Appended
  <2> QED BY <2>1, <2>2, <2>3, <2>4, <2>5
<1>6. Has(fromCli \o <<Result>>, Results)
  <2>1. PICK y \in FromLines : y = Result /\ y \in Results
    BY <1>4
  <2>2. fromCli \o <<y>> = Append(fromCli, y)
    BY Concat
  <2>3. Has(Append(fromCli, y), Results)
    BY <2>1, Appended
  <2> QED BY <2>1, <2>2, <2>3
<1>7. CASE Finish
  BY <1>6, <1>7 DEF Finish, Tell, DeadInv
<1>8. CASE TakeInterrupt
  <2>1. CASE ~cli.busy
    BY <1>2, <1>8, <2>1 DEF TakeInterrupt
  <2>2. CASE cli.busy
    BY <1>5, <1>6, <1>8, <2>2 DEF TakeInterrupt, Tell, DeadInv
  <2> QED BY <2>1, <2>2
<1>9. CASE TakeResponse \/ Exits
  BY <1>2, <1>9 DEF TakeResponse, Exits, ToStage, Clis
<1> QED BY <1>3, <1>7, <1>8, <1>9 DEF Cli

\* No turn is under way at the start.
LEMMA InitWire == Init => WireInv
BY Emptied DEF Init, WireInv, TurnUnderWay

\* Every step keeps one turn between actor and CLI.
LEMMA NextWire == TypeInv /\ WireInv /\ [Next]_vars => WireInv'
<1> SUFFICES ASSUME TypeInv, WireInv, [Next]_vars PROVE WireInv'
  OBVIOUS
<1>1. CASE Next
  BY <1>1, BrowserWire, ActorWire, CliWire DEF Next
<1>2. CASE UNCHANGED vars
  BY <1>2 DEF vars, WireInv, TurnUnderWay
<1> QED BY <1>1, <1>2

\* No card is open at the start.
LEMMA InitDead == Init => DeadInv
<1> SUFFICES ASSUME Init PROVE DeadInv
  OBVIOUS
<1>1. ~SomeOpen
  BY DEF Init, SomeOpen, EmptyView, NoCard, Open
<1> QED BY <1>1, Emptied DEF Init, DeadInv

\* Every step leaves what closes the open cards on its way.
LEMMA NextDead == TypeInv /\ WireInv /\ DeadInv /\ [Next]_vars => DeadInv'
<1> SUFFICES ASSUME TypeInv, WireInv, DeadInv, [Next]_vars PROVE DeadInv'
  OBVIOUS
<1>1. CASE Next
  BY <1>1, BrowserDead, ActorDead, CliDead DEF Next
<1>2. CASE UNCHANGED vars
  BY <1>2, DeadStays DEF vars, SomeOpen
<1> QED BY <1>1, <1>2

\* The three invariants together.
LEMMA TurnsAndCards == Spec => [](TypeInv /\ WireInv /\ DeadInv)
<1>1. Init => TypeInv /\ WireInv /\ DeadInv
  BY InitTypes, InitWire, InitDead
<1>2. TypeInv /\ WireInv /\ DeadInv /\ [Next]_vars => (TypeInv /\ WireInv /\ DeadInv)'
  BY NextTypes, NextWire, NextDead
<1> QED BY <1>1, <1>2, PTL DEF Spec

\* Between turns no card waits for an answer or is shown as allowed and running: the result of
\* a turn closes what is open, and the prompts of a turn come before its result.
THEOREM NoCardStaysOpen == Spec => []NoDeadPrompt
<1>1. DeadInv => NoDeadPrompt
  BY Emptied DEF DeadInv, NoDeadPrompt, Settled, SomeOpen
<1> QED BY <1>1, TurnsAndCards, PTL

-----------------------------------------------------------------------------
(* What the browsers show ahead of the log *)

\* The card x of a browser follows the card y of the log: it is the same, or y is an open
\* prompt that was answered on x, or both say that the tool did not run.
Follows(x, y) ==
    /\ x.request = y.request
    /\ Present(x) <=> Present(y)
    /\ \/ x.status = y.status
       \/ Actionable(y) /\ x.status \in {"running", "permission_denied"}
       \/ x.status \in Refusals /\ y.status \in Refusals

FollowsView(x, y) ==
    \A u \in Tools : Follows(x.main[u], y.main[u]) /\ Follows(x.sub[u], y.sub[u])

FollowInv == \A b \in Browsers : FollowsView(shown[b], shown[Log])

\* What is done to both cards keeps that; so does an answer on the browser's card.
LEMMA FollowCards ==
    ASSUME NEW x \in Cards, NEW y \in Cards, Follows(x, y)
    PROVE  /\ \A input : Follows(NewCard(input), NewCard(input))
           /\ \A part : Follows(Accumulate(x, part), Accumulate(y, part))
           /\ Follows(Asked(x), Asked(y))
           /\ Follows(Deny(x), Deny(y))
           /\ Follows(Cancel(x), Cancel(y)) /\ Follows(Close(x), Close(y))
           /\ \A status \in {"success", "error"} : Follows(WithStatus(x, status), WithStatus(y, status))
           /\ \A allow \in BOOLEAN : Follows(Answered(x, allow), y)
<1> USE DEF Follows, Present, Refusals, Actionable
<1>1. \A input : Follows(NewCard(input), NewCard(input))
  OBVIOUS
<1>2. \A part : Follows(Accumulate(x, part), Accumulate(y, part))
  BY DEF Accumulate, Cards
<1>3. Follows(Asked(x), Asked(y))
  BY DEF Asked, Cards
<1>4. Follows(Deny(x), Deny(y))
  BY DEF Deny, Cards
<1>5. Follows(Cancel(x), Cancel(y)) /\ Follows(Close(x), Close(y))
  BY DEF Cancel, Close, Fail, Open, Cards
<1>6. \A status \in {"success", "error"} : Follows(WithStatus(x, status), WithStatus(y, status))
  BY DEF WithStatus, Cards
<1>7. \A allow \in BOOLEAN : Follows(Answered(x, allow), y)
  BY DEF Answered, WithStatus, Cards
<1> QED BY <1>1, <1>2, <1>3, <1>4, <1>5, <1>6, <1>7

\* A line keeps that a view follows another.
LEMMA ShowsFollow ==
    ASSUME NEW x \in TheViews, NEW y \in TheViews, FollowsView(x, y), NEW line \in FromLines,
           parser \in Parsers
    PROVE  FollowsView(Shows(x, line), Shows(y, line))
<1> SUFFICES ASSUME NEW u \in Tools
             PROVE  /\ Follows(Shows(x, line).main[u], Shows(y, line).main[u])
                    /\ Follows(Shows(x, line).sub[u], Shows(y, line).sub[u])
  BY DEF FollowsView
<1>1. /\ x.main[u] \in Cards /\ x.sub[u] \in Cards /\ y.main[u] \in Cards /\ y.sub[u] \in Cards
      /\ Follows(x.main[u], y.main[u]) /\ Follows(x.sub[u], y.sub[u])
  BY DEF TheViews, FollowsView
<1>2. /\ Present(x.main[u]) <=> Present(y.main[u])
      /\ Present(x.sub[u]) <=> Present(y.sub[u])
      /\ \A parent \in Inputs : Under(x, parent) <=> Under(y, parent)
      /\ \A parent : InSub(x, u, parent) <=> InSub(y, u, parent)
  <2>1. \A t \in Tools : /\ Present(x.main[t]) <=> Present(y.main[t])
                         /\ Present(x.sub[t]) <=> Present(y.sub[t])
    BY DEF FollowsView, Follows
  <2>2. \A parent \in Inputs : Under(x, parent) <=> Under(y, parent)
    BY <2>1 DEF Under, Inputs, NoTool
  <2>3. \A parent : InSub(x, u, parent) <=> InSub(y, u, parent)
    BY <2>1 DEF InSub
  <2> QED BY <2>1, <2>2, <2>3
<1>3. line.parent \in Inputs
  BY LineFields
<1>4. CASE line.kind = "block" \/ (line.kind = "assistant" /\ line.tool \notin parser.emitted)
  BY <1>1, <1>2, <1>3, <1>4, ShowsStart, FollowCards
<1>5. CASE line.kind = "delta" /\ parser.last # NoTool
  BY <1>1, <1>2, <1>5, ShowsDelta, FollowCards
<1>6. CASE \/ line.kind = "assistant" /\ line.tool \in parser.emitted
           \/ line.kind = "delta" /\ parser.last = NoTool
  BY <1>1, <1>6, ShowsNothing
<1>7. CASE line.kind = "ask"
  <2>1. AskedOnMain(x, line, u) <=> AskedOnMain(y, line, u)
    BY <1>2 DEF AskedOnMain
  <2>2. NewCard(u) \in Cards /\ Follows(NewCard(u), NewCard(u))
    BY <1>1, TypedCards, FollowCards DEF Inputs
  <2> QED BY <1>1, <1>2, <1>7, <2>1, <2>2, ShowsAsk, FollowCards
<1>8. CASE line.kind = "cancel"
  BY <1>1, <1>8, ShowsCancel, FollowCards
<1>9. CASE line.kind = "toolResult"
  BY <1>1, <1>2, <1>9, ShowsEnded, FollowCards
<1>10. CASE line.kind = "result"
  <2>1. /\ Deny(x.main[u]) \in Cards /\ Deny(y.main[u]) \in Cards
        /\ Deny(x.sub[u]) \in Cards /\ Deny(y.sub[u]) \in Cards
    BY <1>1, TypedCards
  <2>2. Follows(Deny(x.main[u]), Deny(y.main[u])) /\ Follows(Deny(x.sub[u]), Deny(y.sub[u]))
    BY <1>1, FollowCards
  <2>3. \A c, d \in Cards : Follows(c, d) => Follows(Close(c), Close(d))
    BY FollowCards
  <2> QED BY <1>1, <1>2, <1>10, <2>1, <2>2, <2>3, ShowsResult
<1> QED BY <1>4, <1>5, <1>6, <1>7, <1>8, <1>9, <1>10, LineFields

\* Every browser shows what the log gives at the start.
LEMMA InitFollow == Init => FollowInv
BY DEF Init, FollowInv, FollowsView, Follows, Views

\* Every step keeps that browsers follow the log.
LEMMA NextFollow == TypeInv /\ FollowInv /\ [Next]_vars => FollowInv'
<1> SUFFICES ASSUME TypeInv, FollowInv, [Next]_vars PROVE FollowInv'
  OBVIOUS
<1> USE Types
<1>1. CASE HandleLine
  <2>1. Line \in FromLines
    BY <1>1 DEF HandleLine, TakeLine
  <2>2. ASSUME NEW b \in Browsers
        PROVE  FollowsView(shown'[b], shown'[Log])
    <3>1. shown[b] \in TheViews /\ shown[Log] \in TheViews /\ FollowsView(shown[b], shown[Log])
      BY DEF Views, FollowInv
    <3>2. FollowsView(Shows(shown[b], Line), Shows(shown[Log], Line))
      BY <2>1, <3>1, ShowsFollow
    <3>3. shown'[b] = Shows(shown[b], Line) /\ shown'[Log] = Shows(shown[Log], Line)
      BY <1>1 DEF HandleLine, Views
    <3> QED BY <3>2, <3>3
  <2> QED BY <2>2 DEF FollowInv
<1>2. ASSUME NEW a \in answers, ShowAnswer(a)
      PROVE  FollowInv'
  <2>1. a.by \in Browsers /\ a.by \in Views /\ a.tool \in Tools /\ a.allow \in BOOLEAN
    BY DEF Replies, Views
  <2>2. shown[a.by] \in TheViews /\ shown[Log] \in TheViews /\ FollowsView(shown[a.by], shown[Log])
    BY <2>1 DEF Views, FollowInv
  <2>3. FollowsView(Resolve(shown[a.by], a.tool, a.allow), shown[Log])
    <3>1. ASSUME NEW u \in Tools
          PROVE  /\ Follows(Resolve(shown[a.by], a.tool, a.allow).main[u], shown[Log].main[u])
                 /\ Follows(Resolve(shown[a.by], a.tool, a.allow).sub[u], shown[Log].sub[u])
      <4>1. /\ shown[a.by].main[u] \in Cards /\ shown[a.by].sub[u] \in Cards
            /\ shown[Log].main[u] \in Cards /\ shown[Log].sub[u] \in Cards
            /\ Follows(shown[a.by].main[u], shown[Log].main[u])
            /\ Follows(shown[a.by].sub[u], shown[Log].sub[u])
        BY <2>2 DEF TheViews, FollowsView
      <4> QED BY <2>1, <2>2, <4>1, ResolveIs, FollowCards
    <3> QED BY <3>1 DEF FollowsView
  <2>4. shown' = shown \/ shown' = [shown EXCEPT ![a.by] = Resolve(@, a.tool, a.allow)]
    BY <1>2 DEF ShowAnswer
  <2>5. a.by # Log
    BY <2>1, ToolCardsAssumption
  <2> QED BY <2>1, <2>3, <2>4, <2>5 DEF FollowInv, Views
<1>3. ASSUME NEW b \in Browsers, Reload(b)
      PROVE  FollowInv'
  <2>1. FollowsView(shown[Log], shown[Log])
    BY DEF FollowsView, Follows
  <2>2. b # Log /\ b \in Views
    BY ToolCardsAssumption DEF Views
  <2> QED BY <1>3, <2>1, <2>2 DEF Reload, FollowInv, Views
<1>4. CASE shown' = shown
  BY <1>4 DEF FollowInv
<1> QED BY <1>1, <1>2, <1>3, <1>4
        DEF Next, vars, SendMessage, Interrupt, Click, RespondPermission, Actor, SwallowLine,
            Elapse, TickHardTimeout, TickInterrupt, TickKill, Eof, ActorOnly, Cli, StreamBlock,
            StreamPart, Announce, Ask, Run, Withdraw, EndTool, Finish, TakeTurn, TakeInterrupt,
            TakeResponse, Exits, CliOnly

\* Between turns a browser shows what the log gives, but for the word for a tool that did not
\* run: an answer is shown ahead of its events only on an open prompt, which the end of the
\* turn closes.
THEOREM BrowsersConverge == Spec => []ViewsConverge
<1>1. Spec => []FollowInv
  <2>1. TypeInv /\ FollowInv /\ [Next]_vars => FollowInv'
    BY NextFollow
  <2>2. Spec => []TypeInv
    BY TurnsAndCards, PTL
  <2> QED BY <2>1, <2>2, InitFollow, PTL DEF Spec
<1>2. FollowInv /\ NoDeadPrompt => ViewsConverge
  <2> SUFFICES ASSUME FollowInv, NoDeadPrompt, Settled, NEW b \in Browsers, NEW t \in Tools
               PROVE  /\ Agree(shown[b].main[t], shown[Log].main[t])
                      /\ Agree(shown[b].sub[t], shown[Log].sub[t])
    BY DEF ViewsConverge
  <2>1. ~Open(shown[Log].main[t]) /\ ~Open(shown[Log].sub[t])
    BY DEF NoDeadPrompt, Views
  <2>2. Follows(shown[b].main[t], shown[Log].main[t]) /\ Follows(shown[b].sub[t], shown[Log].sub[t])
    BY DEF FollowInv, FollowsView
  <2> QED BY <2>1, <2>2 DEF Agree, Follows, Open, Actionable
<1> QED BY <1>1, <1>2, NoCardStaysOpen, PTL

-----------------------------------------------------------------------------
(* A prompt can be answered *)

\* What operators leave of a card's request and presence.
LEMMA RequestCards ==
    ASSUME NEW card \in Cards
    PROVE  /\ \A input : Present(NewCard(input)) /\ ~NewCard(input).request
           /\ \A part : LET c == Accumulate(card, part) IN
                 c.request = card.request /\ c.status = card.status
           /\ Deny(card).request = card.request /\ (Present(Deny(card)) => Present(card))
           /\ Cancel(card).request = card.request /\ (Present(Cancel(card)) => Present(card))
           /\ Close(card).request = card.request /\ (Present(Close(card)) => Present(card))
           /\ \A status : WithStatus(card, status).request = card.request
           /\ \A allow : /\ Answered(card, allow).request = card.request
                         /\ Present(Answered(card, allow)) => Present(card)
           /\ Actionable(Asked(card))
<1> USE DEF Cards, Present, Actionable
<1>1. \A input : Present(NewCard(input)) /\ ~NewCard(input).request
  BY DEF NewCard, NoCard
<1>2. \A part : /\ Accumulate(card, part).request = card.request
                /\ Accumulate(card, part).status = card.status
  BY DEF Accumulate
<1>3. Deny(card).request = card.request /\ (Present(Deny(card)) => Present(card))
  BY DEF Deny
<1>4. /\ Cancel(card).request = card.request /\ (Present(Cancel(card)) => Present(card))
      /\ Close(card).request = card.request /\ (Present(Close(card)) => Present(card))
  BY DEF Cancel, Close, Open, Fail
<1>5. \A status : WithStatus(card, status).request = card.request
  BY DEF WithStatus
<1>6. \A allow : /\ Answered(card, allow).request = card.request
                 /\ Present(Answered(card, allow)) => Present(card)
  BY DEF Answered, WithStatus
<1>7. Actionable(Asked(card))
  BY DEF Asked
<1> QED BY <1>1, <1>2, <1>3, <1>4, <1>5, <1>6, <1>7

\* What a line can do to the cards of the tool u.
Starts(t) == {line \in FromLines : line.kind \in {"block", "assistant"} /\ line.tool = t}
Ends(t)   == {line \in FromLines : line.kind \in {"cancel", "toolResult"} /\ line.tool = t}

\* A request comes to a card by a prompt only, a card to a subagent by a start only.
LEMMA ShowsRequest ==
    ASSUME NEW view \in TheViews, NEW line \in FromLines, parser \in Parsers, NEW u \in Tools
    PROVE  /\ line \notin About("ask", u) =>
                 /\ Shows(view, line).main[u].request => view.main[u].request
                 /\ Shows(view, line).sub[u].request => view.sub[u].request
           /\ line \notin Starts(u) /\ Present(Shows(view, line).sub[u]) => Present(view.sub[u])
<1>1. view.main[u] \in Cards /\ view.sub[u] \in Cards
  BY DEF TheViews
<1>2. /\ line \in About("ask", u) <=> line.kind = "ask" /\ line.tool = u
      /\ line \in Starts(u) <=> line.kind \in {"block", "assistant"} /\ line.tool = u
  BY DEF About, Starts
<1>3. CASE line.kind = "block" \/ (line.kind = "assistant" /\ line.tool \notin parser.emitted)
  BY <1>1, <1>2, <1>3, ShowsStart, RequestCards
<1>4. CASE line.kind = "delta" /\ parser.last # NoTool
  <2>1. \A part : Present(Accumulate(view.sub[u], part)) => Present(view.sub[u])
    BY <1>1, RequestCards DEF Present
  <2> QED BY <1>1, <1>2, <1>4, <2>1, ShowsDelta, RequestCards
<1>5. CASE \/ line.kind = "assistant" /\ line.tool \in parser.emitted
           \/ line.kind = "delta" /\ parser.last = NoTool
  BY <1>5, ShowsNothing
<1>6. CASE line.kind = "ask"
  BY <1>1, <1>2, <1>6, ShowsAsk DEF AskedOnMain, InSub
<1>7. CASE line.kind = "cancel"
  BY <1>1, <1>2, <1>7, ShowsCancel, RequestCards
<1>8. CASE line.kind = "toolResult"
  BY <1>1, <1>2, <1>8, ShowsEnded, RequestCards DEF InSub
<1>9. CASE line.kind = "result"
  <2>1. Deny(view.main[u]) \in Cards /\ Deny(view.sub[u]) \in Cards
    BY <1>1, TypedCards
  <2>2. \A c \in Cards : Close(c).request = c.request /\ (Present(Close(c)) => Present(c))
    BY RequestCards
  <2>3. /\ Deny(view.main[u]).request = view.main[u].request
        /\ Deny(view.sub[u]).request = view.sub[u].request
        /\ Present(Deny(view.sub[u])) => Present(view.sub[u])
    BY <1>1, RequestCards
  <2> QED BY <1>1, <1>2, <1>9, <2>1, <2>2, <2>3, ShowsResult
<1> QED BY <1>3, <1>4, <1>5, <1>6, <1>7, <1>8, <1>9, LineFields

\* A prompt waits on a card from its line on, until the tool or the turn ends.
LEMMA ShowsActionable ==
    ASSUME NEW view \in TheViews, NEW line \in FromLines, parser \in Parsers, NEW u \in Tools
    PROVE  /\ line \notin Ends(u) /\ line \notin Results =>
                 /\ Actionable(view.main[u]) => Actionable(Shows(view, line).main[u])
                 /\ Actionable(view.sub[u]) /\ line \notin Starts(u)
                       => Actionable(Shows(view, line).sub[u])
           /\ line \in About("ask", u) =>
                 \/ Actionable(Shows(view, line).main[u])
                 \/ Present(view.sub[u]) /\ Actionable(Shows(view, line).sub[u])
<1>1. view.main[u] \in Cards /\ view.sub[u] \in Cards
  BY DEF TheViews
<1>2. /\ line \in About("ask", u) <=> line.kind = "ask" /\ line.tool = u
      /\ line \in Starts(u) <=> line.kind \in {"block", "assistant"} /\ line.tool = u
      /\ line \in Ends(u) <=> line.kind \in {"cancel", "toolResult"} /\ line.tool = u
      /\ line \in Results <=> line.kind = "result"
  BY DEF About, Starts, Ends, Results, Of
<1>3. CASE line.kind = "block" \/ (line.kind = "assistant" /\ line.tool \notin parser.emitted)
  <2>1. Actionable(view.main[u]) => Present(view.main[u])
    BY DEF Actionable, Present
  <2> QED BY <1>1, <1>2, <1>3, <2>1, ShowsStart
<1>4. CASE line.kind = "delta" /\ parser.last # NoTool
  <2>1. \A card \in Cards : \A part : Actionable(card) => Actionable(Accumulate(card, part))
    BY RequestCards DEF Actionable
  <2> QED BY <1>1, <1>2, <1>4, <2>1, ShowsDelta
<1>5. CASE \/ line.kind = "assistant" /\ line.tool \in parser.emitted
           \/ line.kind = "delta" /\ parser.last = NoTool
  BY <1>2, <1>5, ShowsNothing
<1>6. CASE line.kind = "ask"
  <2>1. NewCard(u) \in Cards
    BY TypedCards DEF Inputs
  <2> QED BY <1>1, <1>2, <1>6, <2>1, ShowsAsk, RequestCards DEF AskedOnMain, InSub
<1>7. CASE line.kind = "cancel"
  BY <1>1, <1>2, <1>7, ShowsCancel
<1>8. CASE line.kind = "toolResult"
  BY <1>1, <1>2, <1>8, ShowsEnded
<1>9. CASE line.kind = "result"
  BY <1>2, <1>9
<1> QED BY <1>3, <1>4, <1>5, <1>6, <1>7, <1>8, <1>9, LineFields

NotAsked == {"none", "block", "part", "whole", "announced"}
Live     == actor.up /\ cli.alive

\* Nothing of a prompt for t is anywhere before the CLI asks.
NoPromptYet(t) ==
    cli.stage[t] \in NotAsked =>
        /\ ~Has(fromCli, About("ask", t)) /\ ~Has(toCli, Responses(t))
        /\ \A a \in answers : a.tool # t
        /\ \A v \in Views : ~shown[v].main[t].request /\ ~shown[v].sub[t].request

\* A tool ends after its prompt was answered or withdrawn.
NoEndYet(t) == cli.stage[t] \in NotAsked \cup {"asked"} => ~Has(fromCli, Ends(t))

\* What starts t comes before its prompt if inputs are streamed; else it comes once, and t is
\* not among a subagent's tools until it has come.
StartsOf(t) ==
    /\ cli.streams => Before(fromCli, Starts(t), About("ask", t))
    /\ ~cli.streams =>
          /\ Once(fromCli, Starts(t))
          /\ cli.stage[t] = "none" => ~Has(fromCli, Starts(t))
          /\ cli.stage[t] = "none" \/ Has(fromCli, Starts(t)) =>
                \A v \in Views : ~Present(shown[v].sub[t])

\* Once the prompt has come and nobody has answered it, every view has a card that waits, and
\* what may still start t finds it in the main timeline.
PromptIsOpen(t) ==
    cli.stage[t] = "asked" /\ Live =>
        /\ \A a \in answers : a.tool = t /\ a.state # "sent" => Has(toCli, Responses(t))
        /\ \/ Has(fromCli, About("ask", t)) \/ Has(toCli, Responses(t))
           \/ \E a \in answers : a.tool = t /\ a.state = "sent"
           \/ \A v \in Views :
                 \/ Actionable(shown[v].main[t])
                 \/ Actionable(shown[v].sub[t]) /\ ~Has(fromCli, Starts(t))

PromptOf(t) == NoPromptYet(t) /\ NoEndYet(t) /\ StartsOf(t) /\ PromptIsOpen(t)
PromptInv   == \A t \in Tools : PromptOf(t)

\* The lines that matter to the prompt of t are the same as before.
Mine(t) == About("ask", t) \cup Starts(t) \cup Ends(t)
LinesKept(t) ==
    /\ \A K \in {About("ask", t), Starts(t), Ends(t)} : Has(fromCli', K) <=> Has(fromCli, K)
    /\ Once(fromCli, Starts(t)) => Once(fromCli', Starts(t))
    /\ Before(fromCli, Starts(t), About("ask", t)) => Before(fromCli', Starts(t), About("ask", t))

\* A line that is none of them is written.
LEMMA OthersLine ==
    ASSUME NEW t \in Tools, fromCli \in Seq(FromLines), NEW x \in FromLines, x \notin Mine(t),
           NEW y \in FromLines, y \notin Mine(t),
           fromCli' = fromCli \/ Tell(<<x>>) \/ Tell(<<x, y>>)
    PROVE  LinesKept(t)
<1> DEFINE Good(s) == /\ s \in Seq(FromLines)
                      /\ \A K \in {About("ask", t), Starts(t), Ends(t)} : Has(s, K) <=> Has(fromCli, K)
                      /\ Once(fromCli, Starts(t)) => Once(s, Starts(t))
                      /\ Before(fromCli, Starts(t), About("ask", t)) => Before(s, Starts(t), About("ask", t))
<1>1. \A s : \A z \in FromLines : Good(s) /\ z \notin Mine(t) => Good(Append(s, z))
  <2> SUFFICES ASSUME NEW s, NEW z \in FromLines, Good(s), z \notin Mine(t)
               PROVE  Good(Append(s, z))
    OBVIOUS
  <2>1. s \in Seq(FromLines) /\ z \notin About("ask", t) /\ z \notin Starts(t) /\ z \notin Ends(t)
    BY DEF Mine
  <2> QED BY <2>1, Appended
<1>2. Good(fromCli)
  OBVIOUS
<1> HIDE DEF Good
<1>3. Good(fromCli')
  <2>1. \/ fromCli' = fromCli
        \/ fromCli' = Append(fromCli, x)
        \/ fromCli' = Append(Append(fromCli, x), y)
    BY Concat DEF Tell
  <2>2. Good(Append(fromCli, x))
    BY <1>1, <1>2
  <2>3. Good(Append(Append(fromCli, x), y))
    BY <1>1, <2>2
  <2> QED BY <1>2, <2>1, <2>2, <2>3
<1> QED BY <1>3 DEF Good, LinesKept

\* Nothing changes for t.
LEMMA PromptKept ==
    ASSUME NEW t \in Tools, PromptOf(t), LinesKept(t), UNCHANGED <<answers, shown>>,
           Live' => Live, cli'.streams = cli.streams, cli'.stage[t] = cli.stage[t],
           Has(toCli', Responses(t)) => Has(toCli, Responses(t)),
           Live' /\ cli.stage[t] = "asked" /\ Has(toCli, Responses(t)) => Has(toCli', Responses(t))
    PROVE  PromptOf(t)'
<1>1. NoPromptYet(t)' /\ NoEndYet(t)'
  BY DEF PromptOf, NoPromptYet, NoEndYet, LinesKept
<1>2. StartsOf(t)'
  BY DEF PromptOf, StartsOf, LinesKept
<1>3. PromptIsOpen(t)'
  BY DEF PromptOf, PromptIsOpen, LinesKept
<1> QED BY <1>1, <1>2, <1>3 DEF PromptOf

\* The prompt is over, or was never needed.
LEMMA PromptOver ==
    ASSUME NEW t \in Tools, PromptOf(t), fromCli \in Seq(FromLines),
           NEW x \in FromLines, x \notin Starts(t), NEW y \in FromLines, y \notin Starts(t),
           fromCli' = fromCli \/ Tell(<<x>>) \/ Tell(<<x, y>>),
           UNCHANGED shown, cli'.streams = cli.streams,
           cli'.stage[t] \in {"running", "refused", "ended"}
    PROVE  PromptOf(t)'
<1>1. NoPromptYet(t)' /\ NoEndYet(t)' /\ PromptIsOpen(t)'
  BY DEF NoPromptYet, NoEndYet, PromptIsOpen, NotAsked
<1> DEFINE Good(s) == /\ s \in Seq(FromLines)
                      /\ Has(s, Starts(t)) => Has(fromCli, Starts(t))
                      /\ Once(fromCli, Starts(t)) => Once(s, Starts(t))
                      /\ Before(fromCli, Starts(t), About("ask", t))
                           => Before(s, Starts(t), About("ask", t))
<1>2. \A s : \A z \in FromLines : Good(s) /\ z \notin Starts(t) => Good(Append(s, z))
  BY Appended
<1>3. Good(fromCli)
  OBVIOUS
<1> HIDE DEF Good
<1>4. Good(fromCli')
  <2>1. \/ fromCli' = fromCli
        \/ fromCli' = Append(fromCli, x)
        \/ fromCli' = Append(Append(fromCli, x), y)
    BY Concat DEF Tell
  <2>2. Good(Append(fromCli, x))
    BY <1>2, <1>3
  <2>3. Good(Append(Append(fromCli, x), y))
    BY <1>2, <2>2
  <2> QED BY <1>3, <2>1, <2>2, <2>3
<1>5. StartsOf(t)'
  BY <1>4 DEF PromptOf, StartsOf, Good
<1> QED BY <1>1, <1>5 DEF PromptOf

\* What comes and goes in the pipe to the CLI.
LEMMA WriteResponses ==
    ASSUME toCli \in Seq(ToLines), NEW line \in ToLines, WriteLine(line), NEW t \in Tools
    PROVE  /\ line \notin Responses(t) => (Has(toCli', Responses(t)) <=> Has(toCli, Responses(t)))
           /\ Has(toCli, Responses(t)) => Has(toCli', Responses(t))
           /\ line \in Responses(t) /\ cli.alive => Has(toCli', Responses(t))
BY Appended DEF WriteLine

\* An answer is a line to the CLI, for the tool it answers.
LEMMA ResponseOf ==
    ASSUME NEW u \in Tools, NEW allow \in BOOLEAN, NEW input \in Inputs
    PROVE  /\ ToCli("response", u, allow, input) \in ToLines
           /\ \A t : ToCli("response", u, allow, input) \in Responses(t) <=> t = u
<1>1. ToCli("response", u, allow, input) \in ToLines
  BY WrittenLines
<1>2. /\ ToCli("response", u, allow, input).kind = "response"
      /\ ToCli("response", u, allow, input).tool = u
  BY DEF ToCli
<1> QED BY <1>1, <1>2 DEF Responses

\* No line is told or read.
LEMMA LinesUnchanged ==
    ASSUME NEW t \in Tools, fromCli' = fromCli
    PROVE  LinesKept(t)
BY DEF LinesKept

\* A message or an interrupt for the CLI.
LEMMA WriteKept ==
    ASSUME TypeInv, NEW t \in Tools, PromptOf(t), UNCHANGED <<cli, fromCli, answers, shown>>,
           Live' => Live, NEW line \in ToLines, line \notin Responses(t), WriteLine(line)
    PROVE  PromptOf(t)'
BY Types, WriteResponses, LinesUnchanged, PromptKept

\* A card that is clicked has shown a prompt.
LEMMA ClickPrompt ==
    ASSUME TypeInv, NEW t \in Tools, PromptOf(t), NEW b \in Browsers, NEW u \in Tools, Click(b, u)
    PROVE  PromptOf(t)'
<1>1. PICK a : /\ answers' = answers \cup {a} /\ a.tool = u /\ a.state = "sent"
               /\ \E card \in {shown[b].main[u], shown[b].sub[u]} : Actionable(card)
  <2>1. PICK card \in {shown[b].main[u], shown[b].sub[u]}, allow \in BOOLEAN :
           /\ Actionable(card)
           /\ answers' = answers \cup
                 {[by |-> b, tool |-> u, allow |-> allow,
                   input |-> IF allow THEN card.input ELSE NoTool, state |-> "sent"]}
    BY DEF Click
  <2>2. PICK a : a = [by |-> b, tool |-> u, allow |-> allow,
                      input |-> IF allow THEN card.input ELSE NoTool, state |-> "sent"]
    OBVIOUS
  <2> QED BY <2>1, <2>2
<1>2. UNCHANGED <<cli, toCli, fromCli, actor, shown>>
  BY DEF Click
<1>3. u = t => cli.stage[t] \notin NotAsked
  <2>1. b \in Views
    BY DEF Views
  <2> QED BY <1>1, <2>1 DEF PromptOf, NoPromptYet, Actionable
<1>4. NoPromptYet(t)' /\ NoEndYet(t)' /\ StartsOf(t)'
  BY <1>1, <1>2, <1>3 DEF PromptOf, NoPromptYet, NoEndYet, StartsOf
<1>5. PromptIsOpen(t)'
  BY <1>1, <1>2 DEF PromptOf, PromptIsOpen, Live
<1> QED BY <1>4, <1>5 DEF PromptOf

\* An answer that is sent is written to the CLI.
LEMMA RespondPrompt ==
    ASSUME TypeInv, NEW t \in Tools, PromptOf(t), NEW a \in answers, RespondPermission(a)
    PROVE  PromptOf(t)'
<1> USE Types
<1>1. PICK r : /\ answers' = (answers \ {a}) \cup {r}
               /\ r.tool = a.tool /\ r.state \in {"delivered", "failed"}
  <2>1. PICK state \in {"delivered", "failed"} :
           answers' = (answers \ {a}) \cup {[a EXCEPT !.state = state]}
    BY DEF RespondPermission
  <2>2. a \in Replies
    OBVIOUS
  <2>3. [a EXCEPT !.state = state].tool = a.tool /\ [a EXCEPT !.state = state].state = state
    BY <2>2 DEF Replies
  <2> QED BY <2>1, <2>3
<1>2. UNCHANGED <<cli, fromCli, actor, shown>> /\ a.tool \in Tools
  BY DEF RespondPermission, Replies
<1>3. PICK line \in ToLines :
         /\ \A u : line \in Responses(u) <=> u = a.tool
         /\ WriteLine(line) \/ (~Live /\ toCli' = toCli)
         /\ Live => WriteLine(line)
  BY ResponseOf DEF RespondPermission, Replies, Live
<1>4. /\ a.tool # t => (Has(toCli', Responses(t)) <=> Has(toCli, Responses(t)))
      /\ Has(toCli, Responses(t)) => Has(toCli', Responses(t))
      /\ a.tool = t /\ Live => Has(toCli', Responses(t))
  BY <1>3, WriteResponses DEF Live
<1>5. NoPromptYet(t)' /\ NoEndYet(t)' /\ StartsOf(t)'
  BY <1>1, <1>2, <1>4 DEF PromptOf, NoPromptYet, NoEndYet, StartsOf
<1>6. PromptIsOpen(t)'
  BY <1>1, <1>2, <1>4 DEF PromptOf, PromptIsOpen, Live
<1> QED BY <1>5, <1>6 DEF PromptOf

\* An answer is shown after it was written.
LEMMA ShowAnswerPrompt ==
    ASSUME TypeInv, NEW t \in Tools, PromptOf(t), NEW a \in answers, ShowAnswer(a)
    PROVE  PromptOf(t)'
<1> USE Types
<1>1. /\ answers' = answers \ {a} /\ a.state # "sent"
      /\ UNCHANGED <<cli, toCli, fromCli, actor>>
  BY DEF ShowAnswer
<1>2. a.by \in Views /\ a.tool \in Tools /\ a.allow \in BOOLEAN
  BY DEF Replies, Views
<1>3. ASSUME NEW v \in Views
      PROVE  /\ shown'[v].main[t].request = shown[v].main[t].request
             /\ shown'[v].sub[t].request = shown[v].sub[t].request
             /\ Present(shown'[v].sub[t]) => Present(shown[v].sub[t])
             /\ a.tool # t => /\ shown'[v].main[t] = shown[v].main[t]
                              /\ shown'[v].sub[t] = shown[v].sub[t]
  <2>1. shown[v] \in TheViews /\ shown[v].main[t] \in Cards /\ shown[v].sub[t] \in Cards
    BY DEF TheViews
  <2>2. shown'[v] = shown[v] \/ shown'[v] = Resolve(shown[v], a.tool, a.allow)
    BY DEF ShowAnswer
  <2>3. CASE shown'[v] = Resolve(shown[v], a.tool, a.allow)
    BY <1>2, <2>1, <2>3, ResolveIs, RequestCards
  <2> QED BY <2>2, <2>3
<1>4. NoPromptYet(t)' /\ NoEndYet(t)'
  BY <1>1, <1>3 DEF PromptOf, NoPromptYet, NoEndYet
<1>5. StartsOf(t)'
  BY <1>1, <1>3 DEF PromptOf, StartsOf
<1>6. PromptIsOpen(t)'
  <2>1. CASE a.tool = t
    BY <1>1, <2>1 DEF PromptOf, PromptIsOpen, Live
  <2>2. CASE a.tool # t
    BY <1>1, <1>3, <2>2 DEF PromptOf, PromptIsOpen, Live
  <2> QED BY <2>1, <2>2
<1> QED BY <1>4, <1>5, <1>6 DEF PromptOf

\* A browser that opens the run again shows what the log gives.
LEMMA ReloadPrompt ==
    ASSUME TypeInv, NEW t \in Tools, PromptOf(t), NEW b \in Browsers, Reload(b)
    PROVE  PromptOf(t)'
<1>1. UNCHANGED <<cli, toCli, fromCli, actor, answers>>
  BY DEF Reload
<1>2. \A v \in Views : shown'[v] = shown[v] \/ shown'[v] = shown[Log]
  BY Types DEF Reload
<1>3. Log \in Views
  BY DEF Views
<1>4. NoPromptYet(t)' /\ NoEndYet(t)'
  BY <1>1, <1>2, <1>3 DEF PromptOf, NoPromptYet, NoEndYet
<1>5. StartsOf(t)'
  BY <1>1, <1>2, <1>3 DEF PromptOf, StartsOf
<1>6. PromptIsOpen(t)'
  BY <1>1, <1>2, <1>3 DEF PromptOf, PromptIsOpen, Live
<1> QED BY <1>4, <1>5, <1>6 DEF PromptOf

\* What browsers do keeps prompts answerable.
LEMMA BrowserPrompt ==
    ASSUME TypeInv, NEW t \in Tools, PromptOf(t),
           \/ SendMessage \/ Interrupt
           \/ \E b \in Browsers, u \in Tools : Click(b, u)
           \/ \E a \in answers : RespondPermission(a) \/ ShowAnswer(a)
           \/ \E b \in Browsers : Reload(b)
    PROVE  PromptOf(t)'
<1>1. ASSUME SendMessage \/ Interrupt
      PROVE  PromptOf(t)'
  <2>1. PICK line \in ToLines : line.kind # "response" /\ WriteLine(line)
    <3>1. PICK x \in ToLines : x = ToCli("turn", NoTool, TRUE, NoTool)
      BY WrittenLines
    <3>2. PICK y \in ToLines : y = ToCli("interrupt", NoTool, TRUE, NoTool)
      BY WrittenLines
    <3>3. x.kind = "turn" /\ y.kind = "interrupt"
      BY <3>1, <3>2 DEF ToCli
    <3>4. WriteLine(x) \/ WriteLine(y)
      BY <1>1, <3>1, <3>2 DEF SendMessage, Interrupt
    <3> QED BY <3>3, <3>4
  <2>2. line \notin Responses(t)
    BY <2>1 DEF Responses
  <2>3. UNCHANGED <<cli, fromCli, answers, shown>> /\ (Live' => Live)
    BY <1>1, Types DEF SendMessage, Interrupt, Live, Actors
  <2> QED BY <2>1, <2>2, <2>3, WriteKept
<1> QED BY <1>1, ClickPrompt, RespondPrompt, ShowAnswerPrompt, ReloadPrompt

\* The actor takes a line.
LEMMA HandlePrompt ==
    ASSUME TypeInv, WireInv, NEW t \in Tools, PromptOf(t), HandleLine
    PROVE  PromptOf(t)'
<1> USE Types
<1>1. /\ Line \in FromLines /\ Line = Head(fromCli) /\ fromCli # <<>> /\ fromCli' = Tail(fromCli)
      /\ UNCHANGED <<cli, toCli, answers>> /\ actor'.up = actor.up
      /\ \A v \in Views : shown'[v] = Shows(shown[v], Line) /\ shown[v] \in TheViews
  BY DEF HandleLine, TakeLine, Actors
<1>2. /\ \A K : Has(fromCli', K) => Has(fromCli, K)
      /\ \A K : Line \in K => Has(fromCli, K)
      /\ \A K : Has(fromCli, K) => Has(fromCli', K) \/ Line \in K
      /\ \A K : Once(fromCli, K) => Once(fromCli', K)
      /\ \A K : Once(fromCli, K) /\ Line \in K => ~Has(fromCli', K)
      /\ \A K, L : Before(fromCli, K, L) => Before(fromCli', K, L)
      /\ \A K, L : Before(fromCli, K, L) /\ Line \in L => ~Has(fromCli', K)
  BY <1>1, Taken
<1>3. NoPromptYet(t)'
  <2>1. SUFFICES ASSUME cli.stage[t] \in NotAsked, NEW v \in Views
                 PROVE  /\ ~Has(fromCli', About("ask", t)) /\ ~Has(toCli', Responses(t))
                        /\ \A a \in answers' : a.tool # t
                        /\ ~shown'[v].main[t].request /\ ~shown'[v].sub[t].request
    BY <1>1 DEF NoPromptYet, Views
  <2>2. Line \notin About("ask", t) /\ ~Has(fromCli', About("ask", t))
    BY <1>2, <2>1 DEF PromptOf, NoPromptYet
  <2>3. ~shown[v].main[t].request /\ ~shown[v].sub[t].request
    BY <2>1 DEF PromptOf, NoPromptYet
  <2>4. ~shown'[v].main[t].request /\ ~shown'[v].sub[t].request
    BY <1>1, <2>2, <2>3, ShowsRequest
  <2> QED BY <1>1, <2>1, <2>2, <2>4 DEF PromptOf, NoPromptYet
<1>4. NoEndYet(t)'
  BY <1>1, <1>2 DEF PromptOf, NoEndYet
<1>5. StartsOf(t)'
  <2>1. CASE cli.streams
    BY <1>1, <1>2, <2>1 DEF PromptOf, StartsOf
  <2>2. CASE ~cli.streams
    <3>1. Once(fromCli', Starts(t)) /\ (cli.stage[t] = "none" => ~Has(fromCli', Starts(t)))
      BY <1>1, <1>2, <2>2 DEF PromptOf, StartsOf
    <3>2. ASSUME cli.stage[t] = "none" \/ Has(fromCli', Starts(t)), NEW v \in Views
          PROVE  ~Present(shown'[v].sub[t])
      <4>1. Line \notin Starts(t) /\ ~Present(shown[v].sub[t])
        BY <1>2, <2>2, <3>2 DEF PromptOf, StartsOf
      <4> QED BY <1>1, <4>1, ShowsRequest
    <3> QED BY <1>1, <2>2, <3>1, <3>2 DEF StartsOf
  <2> QED BY <2>1, <2>2
<1>6. PromptIsOpen(t)'
  <2>1. SUFFICES ASSUME cli.stage[t] = "asked", Live
                 PROVE  /\ \A a \in answers : a.tool = t /\ a.state # "sent" => Has(toCli, Responses(t))
                        /\ \/ Has(fromCli', About("ask", t)) \/ Has(toCli, Responses(t))
                           \/ \E a \in answers : a.tool = t /\ a.state = "sent"
                           \/ \A v \in Views :
                                 \/ Actionable(shown'[v].main[t])
                                 \/ Actionable(shown'[v].sub[t]) /\ ~Has(fromCli', Starts(t))
    BY <1>1 DEF PromptIsOpen, Live
  <2>2. PromptIsOpen(t) /\ cli.stage[t] = "asked" /\ Live
    BY <2>1 DEF PromptOf
  <2>3. CASE Line \in About("ask", t)
    <3>1. ASSUME NEW v \in Views
          PROVE  \/ Actionable(shown'[v].main[t])
                 \/ Actionable(shown'[v].sub[t]) /\ ~Has(fromCli', Starts(t))
      <4>1. \/ Actionable(shown'[v].main[t])
            \/ Present(shown[v].sub[t]) /\ Actionable(shown'[v].sub[t])
        BY <1>1, <2>3, ShowsActionable
      <4>2. Present(shown[v].sub[t]) => ~Has(fromCli', Starts(t))
        BY <1>2, <2>3 DEF PromptOf, StartsOf
      <4> QED BY <4>1, <4>2
    <3> QED BY <2>2, <3>1 DEF PromptIsOpen
  <2>4. CASE Line \notin About("ask", t)
    <3>1. Line \notin Ends(t) /\ Line \notin Results
      BY <1>2, <2>2 DEF PromptOf, NoEndYet, WireInv
    <3>2. ASSUME NEW v \in Views, \/ Actionable(shown[v].main[t])
                                  \/ Actionable(shown[v].sub[t]) /\ ~Has(fromCli, Starts(t))
          PROVE  \/ Actionable(shown'[v].main[t])
                 \/ Actionable(shown'[v].sub[t]) /\ ~Has(fromCli', Starts(t))
      BY <1>1, <1>2, <3>1, <3>2, ShowsActionable
    <3> QED BY <1>2, <2>2, <2>4, <3>2 DEF PromptIsOpen
  <2> QED BY <2>3, <2>4
<1> QED BY <1>3, <1>4, <1>5, <1>6 DEF PromptOf

\* The quarantine denies a prompt that comes.
LEMMA SwallowPrompt ==
    ASSUME TypeInv, NEW t \in Tools, PromptOf(t), SwallowLine
    PROVE  PromptOf(t)'
<1> USE Types
<1>1. /\ Line \in FromLines /\ Line = Head(fromCli) /\ fromCli # <<>> /\ fromCli' = Tail(fromCli)
      /\ UNCHANGED <<cli, answers, shown>> /\ actor'.up = actor.up
  BY DEF SwallowLine, TakeLine, Actors
<1>2. /\ \A K : Has(fromCli', K) => Has(fromCli, K)
      /\ \A K : Line \in K => Has(fromCli, K)
      /\ \A K : Has(fromCli, K) => Has(fromCli', K) \/ Line \in K
      /\ \A K : Once(fromCli, K) => Once(fromCli', K)
      /\ \A K, L : Before(fromCli, K, L) => Before(fromCli', K, L)
  BY <1>1, Taken
<1>3. /\ Line \notin About("ask", t) => (Has(toCli', Responses(t)) <=> Has(toCli, Responses(t)))
      /\ Has(toCli, Responses(t)) => Has(toCli', Responses(t))
      /\ Line \in About("ask", t) /\ cli.alive => Has(toCli', Responses(t))
  <2>1. CASE Line.kind = "ask"
    <3>1. Line.tool \in Tools /\ NoTool \in Inputs
      BY <1>1, <2>1, LineFields
    <3>2. PICK x \in ToLines : x = ToCli("response", Line.tool, FALSE, NoTool)
      BY <3>1, WrittenLines DEF ToLines, LineToCli, ToCli
    <3>3. \A u : x \in Responses(u) <=> u = Line.tool
      BY <3>2 DEF ToCli, Responses
    <3>4. WriteLine(x)
      BY <2>1, <3>2 DEF SwallowLine, AnswerAsk
    <3>5. Line \in About("ask", t) <=> Line.tool = t
      BY <1>1, <2>1 DEF About
    <3> QED BY <3>3, <3>4, <3>5, WriteResponses
  <2>2. CASE Line.kind # "ask"
    BY <2>2 DEF SwallowLine, AnswerAsk, About
  <2> QED BY <2>1, <2>2
<1>4. NoPromptYet(t)' /\ NoEndYet(t)'
  BY <1>1, <1>2, <1>3 DEF PromptOf, NoPromptYet, NoEndYet
<1>5. StartsOf(t)'
  BY <1>1, <1>2 DEF PromptOf, StartsOf
<1>6. PromptIsOpen(t)'
  <2>1. SUFFICES ASSUME cli.stage[t] = "asked", Live
                 PROVE  /\ \A a \in answers : a.tool = t /\ a.state # "sent" => Has(toCli', Responses(t))
                        /\ \/ Has(fromCli', About("ask", t)) \/ Has(toCli', Responses(t))
                           \/ \E a \in answers : a.tool = t /\ a.state = "sent"
                           \/ \A v \in Views :
                                 \/ Actionable(shown[v].main[t])
                                 \/ Actionable(shown[v].sub[t]) /\ ~Has(fromCli', Starts(t))
    BY <1>1 DEF PromptIsOpen, Live
  <2>2. PromptIsOpen(t) /\ cli.stage[t] = "asked" /\ Live /\ cli.alive
    BY <2>1 DEF PromptOf, Live
  <2> QED BY <1>2, <1>3, <2>2 DEF PromptIsOpen
<1> QED BY <1>4, <1>5, <1>6 DEF PromptOf

\* What the actor and its clock do keeps prompts answerable.
LEMMA ActorPrompt ==
    ASSUME TypeInv, WireInv, NEW t \in Tools, PromptOf(t), Actor \/ Elapse
    PROVE  PromptOf(t)'
<1> USE Types
<1>1. CASE TickInterrupt
  <2>1. PICK line \in ToLines : line = ToCli("interrupt", NoTool, TRUE, NoTool)
    BY WrittenLines
  <2>2. line \notin Responses(t)
    BY <2>1 DEF Responses, ToCli
  <2>3. WriteLine(line) /\ UNCHANGED <<cli, fromCli, answers, shown>> /\ (Live' => Live)
    BY <1>1, <2>1 DEF TickInterrupt, ActorOnly, Live, Actors
  <2> QED BY <2>2, <2>3, WriteKept
<1>2. CASE TickKill
  <2>1. /\ UNCHANGED <<fromCli, answers, shown>> /\ ~Live'
        /\ cli'.streams = cli.streams /\ cli'.stage = cli.stage /\ toCli' = <<>>
    BY <1>2 DEF TickKill, ActorOnly, Live, Actors, Clis
  <2>2. ~Has(toCli', Responses(t))
    BY <2>1, Emptied
  <2> QED BY <2>1, <2>2, LinesUnchanged, PromptKept
<1>3. CASE Elapse \/ TickHardTimeout \/ Eof
  <2>1. UNCHANGED <<cli, toCli, fromCli, answers, shown>>
    BY <1>3 DEF Elapse, TickHardTimeout, Eof, ActorOnly
  <2>2. Live' => Live
    BY <1>3 DEF Elapse, TickHardTimeout, Eof, EnterQuarantine, Live, Actors
  <2> QED BY <2>1, <2>2, LinesUnchanged, PromptKept
<1> QED BY <1>1, <1>2, <1>3, HandlePrompt, SwallowPrompt DEF Actor

\* The line of a tool, and whose prompt it matters to.
LEMMA ToolLine ==
    ASSUME NEW kind \in {"block", "delta", "assistant", "ask", "cancel", "toolResult"},
           NEW u \in Tools, NEW parent \in Inputs, NEW ok \in BOOLEAN,
           NEW x, x = [FromCli(kind, u, parent) EXCEPT !.ok = ok] \/ x = FromCli(kind, u, parent)
    PROVE  /\ x \in FromLines /\ x.kind = kind /\ x.tool = u
           /\ \A t \in Tools : t # u => x \notin Mine(t)
           /\ x \in Starts(u) <=> kind \in {"block", "assistant"}
           /\ x \in About("ask", u) <=> kind = "ask"
           /\ x \in Ends(u) <=> kind \in {"cancel", "toolResult"}
<1>1. x \in FromLines
  <2>1. FromCli(kind, u, parent) \in FromLines
    BY ToldLines
  <2>2. [FromCli(kind, u, parent) EXCEPT !.ok = ok] \in FromLines
    BY ToldLines
  <2> QED BY <2>1, <2>2
<1>2. x.kind = kind /\ x.tool = u
  BY DEF FromCli
<1> QED BY <1>1, <1>2 DEF Mine, About, Starts, Ends

\* What is said of another tool.
LEMMA OtherPrompt ==
    ASSUME TypeInv, NEW t \in Tools, PromptOf(t), UNCHANGED <<toCli, actor, answers, shown>>,
           NEW x \in FromLines, x \notin Mine(t), NEW y \in FromLines, y \notin Mine(t),
           fromCli' = fromCli \/ Tell(<<x>>) \/ Tell(<<x, y>>),
           cli'.streams = cli.streams, cli'.alive = cli.alive, cli'.stage[t] = cli.stage[t]
    PROVE  PromptOf(t)'
<1>1. LinesKept(t)
  BY Types, OthersLine
<1>2. Live' => Live
  BY DEF Live
<1> QED BY <1>1, <1>2, PromptKept

\* A tool starts, or goes on, before it asks.
LEMMA StartPrompt ==
    ASSUME TypeInv, NEW t \in Tools, PromptOf(t), UNCHANGED <<toCli, actor, answers, shown>>,
           cli.stage[t] \in NotAsked, cli'.stage[t] \in NotAsked \ {"none"},
           cli'.streams = cli.streams,
           NEW x \in FromLines, x \notin About("ask", t), x \notin Ends(t), Tell(<<x>>),
           x \in Starts(t) /\ ~cli.streams => cli.stage[t] = "none"
    PROVE  PromptOf(t)'
<1>1. fromCli \in Seq(FromLines) /\ fromCli' = Append(fromCli, x)
  BY Types, Concat DEF Tell
<1>2. /\ \A L : Has(fromCli', L) <=> Has(fromCli, L) \/ x \in L
      /\ \A L : Once(fromCli, L) /\ (x \in L => ~Has(fromCli, L)) => Once(fromCli', L)
      /\ \A K, L : Before(fromCli, K, L) /\ (x \in K => ~Has(fromCli, L) /\ x \notin L)
                       => Before(fromCli', K, L)
  BY <1>1, Appended
<1>3. NoPromptYet(t)' /\ NoEndYet(t)'
  BY <1>2 DEF PromptOf, NoPromptYet, NoEndYet
<1>4. StartsOf(t)'
  <2>1. CASE cli.streams
    BY <1>2, <2>1 DEF PromptOf, StartsOf, NoPromptYet
  <2>2. CASE ~cli.streams
    BY <1>2, <2>2 DEF PromptOf, StartsOf, NotAsked
  <2> QED BY <2>1, <2>2
<1>5. PromptIsOpen(t)'
  BY DEF PromptIsOpen, NotAsked
<1> QED BY <1>3, <1>4, <1>5 DEF PromptOf

\* A tool asks, announced before or after.
LEMMA AskPrompt ==
    ASSUME TypeInv, NEW t \in Tools, PromptOf(t), Ask(t)
    PROVE  PromptOf(t)'
<1> USE Types
<1>1. PICK parent \in {Parent[t], Top} :
         /\ \/ cli.stage[t] = "announced" /\ Tell(<<FromCli("ask", t, parent)>>)
            \/ /\ ~cli.streams /\ cli.stage[t] = "none"
               /\ Tell(<<FromCli("ask", t, parent), FromCli("assistant", t, Parent[t])>>)
         /\ ToStage(t, "asked") /\ UNCHANGED toCli /\ CliOnly
  BY DEF Ask, MayStart
<1>2. parent \in Inputs /\ Parent[t] \in Inputs
  BY ToldLines
<1>3. PICK x \in FromLines : /\ x = FromCli("ask", t, parent)
                             /\ x \in About("ask", t) /\ x \notin Starts(t) /\ x \notin Ends(t)
  BY <1>2, ToolLine
<1>4. PICK y \in FromLines : /\ y = FromCli("assistant", t, Parent[t])
                             /\ y \notin About("ask", t) /\ y \in Starts(t) /\ y \notin Ends(t)
  BY <1>2, ToolLine
<1>5. /\ cli'.stage[t] = "asked" /\ cli'.streams = cli.streams
      /\ UNCHANGED <<toCli, actor, answers, shown>>
  BY <1>1 DEF ToStage, CliOnly, Clis
<1>6. /\ ~Has(fromCli, Ends(t))
      /\ \A a \in answers : a.tool # t
      /\ cli.streams => Before(fromCli, Starts(t), About("ask", t))
      /\ ~cli.streams => Once(fromCli, Starts(t))
  BY <1>1 DEF PromptOf, NoEndYet, NoPromptYet, StartsOf, NotAsked
<1> DEFINE s == Append(fromCli, x)
<1>7. /\ s \in Seq(FromLines)
      /\ \A L : Has(s, L) <=> Has(fromCli, L) \/ x \in L
      /\ cli.streams => Before(s, Starts(t), About("ask", t))
      /\ ~cli.streams => Once(s, Starts(t))
  BY <1>3, <1>6, Appended
<1> HIDE DEF s
<1>8. CASE fromCli' = s
  <2>1. NoPromptYet(t)' /\ NoEndYet(t)' /\ PromptIsOpen(t)'
    BY <1>3, <1>5, <1>6, <1>7, <1>8 DEF NoPromptYet, NoEndYet, PromptIsOpen, NotAsked
  <2>2. StartsOf(t)'
    BY <1>3, <1>5, <1>7, <1>8 DEF PromptOf, StartsOf
  <2> QED BY <2>1, <2>2 DEF PromptOf
<1>9. CASE fromCli' = Append(s, y) /\ ~cli.streams /\ cli.stage[t] = "none"
  <2>1. \A L : Has(fromCli', L) <=> Has(s, L) \/ y \in L
    BY <1>7, <1>9, Appended
  <2>2. NoPromptYet(t)' /\ NoEndYet(t)' /\ PromptIsOpen(t)'
    BY <1>3, <1>4, <1>5, <1>6, <1>7, <2>1 DEF NoPromptYet, NoEndYet, PromptIsOpen, NotAsked
  <2>3. ~Has(s, Starts(t)) /\ \A v \in Views : ~Present(shown[v].sub[t])
    BY <1>3, <1>7, <1>9 DEF PromptOf, StartsOf
  <2>4. Once(fromCli', Starts(t))
    BY <1>7, <1>9, <2>3, Appended
  <2>5. StartsOf(t)'
    BY <1>5, <1>9, <2>3, <2>4 DEF StartsOf
  <2> QED BY <2>2, <2>5 DEF PromptOf
<1>10. fromCli' = s \/ (fromCli' = Append(s, y) /\ ~cli.streams /\ cli.stage[t] = "none")
  <2>1. fromCli \o <<x>> = s /\ fromCli \o <<x, y>> = Append(s, y)
    BY Concat DEF s
  <2> QED BY <1>1, <1>3, <1>4, <2>1 DEF Tell
<1> QED BY <1>8, <1>9, <1>10

\* The CLI.
LEMMA CliPrompt ==
    ASSUME TypeInv, WireInv, NEW t \in Tools, PromptOf(t), Cli
    PROVE  PromptOf(t)'
<1> USE Types
<1>1. ASSUME NEW u \in Tools, NEW stage, ToStage(u, stage)
      PROVE  /\ cli'.streams = cli.streams /\ cli'.alive = cli.alive
             /\ cli'.stage[t] = IF u = t THEN stage ELSE cli.stage[t]
  BY <1>1 DEF ToStage, Clis
<1>2. /\ Parent[t] \in Inputs /\ Top \in Inputs
      /\ \A u \in Tools : Parent[u] \in Inputs
      /\ Result \in FromLines /\ Result \notin Mine(t) /\ Result \notin Starts(t)
  BY ToldLines DEF Result, FromCli, Mine, About, Starts, Ends
<1>3. ASSUME NEW u \in Tools,
             \/ StreamBlock(u) \/ StreamPart(u) \/ Announce(u) \/ Ask(u) \/ Run(u) \/ Withdraw(u)
             \/ EndTool(u)
      PROVE  PromptOf(t)'
  <2>1. UNCHANGED <<toCli, actor, answers, shown>> /\ \E stage : ToStage(u, stage)
    BY <1>3 DEF StreamBlock, StreamPart, Announce, Ask, Run, Withdraw, EndTool, CliOnly
  <2>2. CASE u # t
    <3>1. \E x \in FromLines, y \in FromLines :
             /\ x \notin Mine(t) /\ y \notin Mine(t)
             /\ fromCli' = fromCli \/ Tell(<<x>>) \/ Tell(<<x, y>>)
      <4>1. \A kind \in {"block", "delta", "assistant", "ask", "cancel", "toolResult"},
               parent \in Inputs, ok \in BOOLEAN :
                  /\ FromCli(kind, u, parent) \in FromLines \ Mine(t)
                  /\ [FromCli(kind, u, parent) EXCEPT !.ok = ok] \in FromLines \ Mine(t)
        BY <2>2, ToolLine
      <4>2. CASE StreamBlock(u) \/ StreamPart(u) \/ Announce(u) \/ Withdraw(u) \/ Run(u)
        BY <1>2, <4>1, <4>2 DEF StreamBlock, StreamPart, Announce, Withdraw, Run
      <4>3. CASE Ask(u)
        <5>1. PICK parent \in {Parent[u], Top} :
                 \/ Tell(<<FromCli("ask", u, parent)>>)
                 \/ Tell(<<FromCli("ask", u, parent), FromCli("assistant", u, Parent[u])>>)
          BY <4>3 DEF Ask
        <5> QED BY <1>2, <4>1, <5>1
      <4>4. CASE EndTool(u)
        <5>1. PICK ok \in BOOLEAN : Tell(<<[FromCli("toolResult", u, Parent[u]) EXCEPT !.ok = ok]>>)
          BY <4>4 DEF EndTool
        <5> QED BY <1>2, <4>1, <5>1
      <4> QED BY <1>3, <4>2, <4>3, <4>4
    <3> QED BY <1>1, <2>1, <2>2, <3>1, OtherPrompt
  <2>3. CASE u = t /\ (StreamBlock(t) \/ StreamPart(t) \/ Announce(t))
    <3>1. \E x \in FromLines :
             /\ Tell(<<x>>) /\ x \notin About("ask", t) /\ x \notin Ends(t)
             /\ x \in Starts(t) /\ ~cli.streams => cli.stage[t] = "none"
      <4>1. \A kind \in {"block", "delta", "assistant"} :
               /\ FromCli(kind, t, Parent[t]) \in FromLines
               /\ FromCli(kind, t, Parent[t]) \notin About("ask", t)
               /\ FromCli(kind, t, Parent[t]) \notin Ends(t)
               /\ FromCli(kind, t, Parent[t]) \in Starts(t) => kind # "delta"
        BY <1>2, ToolLine
      <4> QED BY <2>3, <4>1 DEF StreamBlock, StreamPart, Announce, MayStart
    <3>2. cli.stage[t] \in NotAsked /\ \E stage \in NotAsked \ {"none"} : ToStage(t, stage)
      BY <2>3 DEF StreamBlock, StreamPart, Announce, MayStart, NotAsked
    <3> QED BY <1>1, <2>1, <3>1, <3>2, StartPrompt
  <2>4. CASE u = t /\ (Run(t) \/ Withdraw(t) \/ EndTool(t))
    <3>1. \E x \in FromLines : x \notin Starts(t) /\ (fromCli' = fromCli \/ Tell(<<x>>))
      <4>1. \A kind \in {"cancel", "toolResult"}, parent \in Inputs, ok \in BOOLEAN :
                  /\ FromCli(kind, t, parent) \in FromLines \ Starts(t)
                  /\ [FromCli(kind, t, parent) EXCEPT !.ok = ok] \in FromLines \ Starts(t)
        BY <1>2, ToolLine
      <4>2. CASE Run(t) \/ Withdraw(t)
        BY <1>2, <4>1, <4>2 DEF Run, Withdraw
      <4>3. CASE EndTool(t)
        <5>1. PICK ok \in BOOLEAN : Tell(<<[FromCli("toolResult", t, Parent[t]) EXCEPT !.ok = ok]>>)
          BY <4>3 DEF EndTool
        <5> QED BY <1>2, <4>1, <5>1
      <4> QED BY <2>4, <4>2, <4>3
    <3>2. \E stage \in {"running", "refused", "ended"} : ToStage(t, stage)
      BY <2>4 DEF Run, Withdraw, EndTool
    <3> QED BY <1>1, <2>1, <3>1, <3>2, PromptOver
  <2> QED BY <1>3, <2>2, <2>3, <2>4, AskPrompt
<1>4. Idled.stage = cli.stage /\ Idled.streams = cli.streams /\ Idled.alive = cli.alive
      /\ Idled \in Clis
  BY DEF Idled, Clis
<1>5. CASE Finish
  <2>1. /\ UNCHANGED <<toCli, actor, answers, shown>> /\ Tell(<<Result>>)
        /\ cli'.streams = cli.streams /\ cli'.alive = cli.alive /\ cli'.stage[t] = cli.stage[t]
    BY <1>4, <1>5 DEF Finish, CliOnly
  <2> QED BY <1>2, <2>1, OtherPrompt
<1>6. ASSUME NEW kind, Takes(kind), kind # "response" \/ Head(toCli).tool # t
      PROVE  Has(toCli', Responses(t)) <=> Has(toCli, Responses(t))
  <2>1. Head(toCli) \notin Responses(t)
    BY <1>6 DEF Takes, Responses
  <2> QED BY <1>6, <2>1, Taken DEF Takes
<1>7. ASSUME Has(toCli', Responses(t)) <=> Has(toCli, Responses(t)), UNCHANGED <<fromCli, actor, answers, shown>>,
             cli'.streams = cli.streams, cli'.alive = cli.alive, cli'.stage[t] = cli.stage[t]
      PROVE  PromptOf(t)'
  BY <1>7, LinesUnchanged, PromptKept DEF Live
<1>8. CASE TakeTurn
  <2>1. cli'.streams = cli.streams /\ cli'.alive = cli.alive /\ cli'.stage[t] = cli.stage[t]
        /\ UNCHANGED <<fromCli, actor, answers, shown>>
    BY <1>8 DEF TakeTurn, CliOnly, Clis
  <2> QED BY <1>6, <1>7, <1>8, <2>1 DEF TakeTurn
<1>9. CASE TakeInterrupt
  <2>1. (Has(toCli', Responses(t)) <=> Has(toCli, Responses(t))) /\ UNCHANGED <<actor, answers, shown>>
    BY <1>6, <1>9 DEF TakeInterrupt, CliOnly
  <2>2. CASE ~cli.busy
    BY <1>7, <1>9, <2>1, <2>2 DEF TakeInterrupt
  <2>3. CASE cli.busy
    <3>1. /\ cli'.streams = cli.streams /\ cli'.alive = cli.alive
          /\ cli'.stage[t] = IF cli.stage[t] = "none" THEN "none" ELSE "ended"
      <4>1. cli' = [Idled EXCEPT !.stage = [u \in Tools |-> IF @[u] = "none" THEN "none" ELSE "ended"]]
        BY <1>9, <2>3 DEF TakeInterrupt
      <4> HIDE DEF Idled
      <4> QED BY <1>4, <4>1 DEF Clis
    <3>2. PICK x \in FromLines :
             /\ x \notin Starts(t) /\ (cli.stage[t] = "none" => x \notin Mine(t))
             /\ Tell(<<x>>) \/ Tell(<<x, Result>>)
      <4>1. CASE Tell(<<Result>>)
        BY <1>2, <4>1
      <4>2. ASSUME NEW u \in Tools, cli.stage[u] = "asked", Tell(<<FromCli("cancel", u, Top), Result>>)
            PROVE  \E x \in FromLines :
                      /\ x \notin Starts(t) /\ (cli.stage[t] = "none" => x \notin Mine(t))
                      /\ Tell(<<x, Result>>)
        <5>1. FromCli("cancel", u, Top) \in FromLines \ Starts(t) /\ (u # t => FromCli("cancel", u, Top) \notin Mine(t))
          BY <1>2, ToolLine DEF Mine
        <5> QED BY <4>2, <5>1
      <4> QED BY <1>9, <2>3, <4>1, <4>2 DEF TakeInterrupt
    <3>3. CASE cli.stage[t] = "none"
      <4>1. LinesKept(t)
        BY <1>2, <3>2, <3>3, OthersLine
      <4>2. Live' => Live
        BY <2>1, <3>1 DEF Live
      <4> QED BY <2>1, <3>1, <3>3, <4>1, <4>2, PromptKept
    <3>4. CASE cli.stage[t] # "none"
      BY <1>2, <2>1, <3>1, <3>2, <3>4, PromptOver
    <3> QED BY <3>3, <3>4
  <2> QED BY <2>2, <2>3
<1>10. CASE TakeResponse
  <2>1. UNCHANGED <<fromCli, actor, answers, shown>> /\ Takes("response")
    BY <1>10 DEF TakeResponse, CliOnly
  <2>2. Head(toCli).tool \in Tools
    BY <2>1 DEF Takes, ToLines
  <2> DEFINE u == Head(toCli).tool
  <2>3. IF cli.stage[u] # "asked" THEN cli' = cli
        ELSE \/ ToStage(u, "running")
             \/ cli' = [cli EXCEPT !.stage[u] = "refused", !.denied = @ \cup {u}]
    BY <1>10 DEF TakeResponse
  <2>4. /\ cli'.streams = cli.streams /\ cli'.alive = cli.alive
        /\ u # t => cli'.stage[t] = cli.stage[t]
        /\ u = t /\ cli.stage[t] = "asked" => cli'.stage[t] \in {"running", "refused"}
        /\ cli.stage[u] # "asked" => cli' = cli
    <3> HIDE DEF u
    <3>1. CASE cli' = [cli EXCEPT !.stage[u] = "refused", !.denied = @ \cup {u}]
      BY <2>2, <2>3, <3>1 DEF Clis
    <3>2. CASE ToStage(u, "running")
      BY <2>2, <2>3, <3>2 DEF ToStage, Clis
    <3> QED BY <2>3, <3>1, <3>2
  <2>5. CASE u # t
    BY <1>6, <1>7, <2>1, <2>5, <2>4
  <2>6. CASE u = t /\ cli.stage[t] = "asked"
    BY <1>2, <2>1, <2>6, <2>4, PromptOver
  <2>7. CASE u = t /\ cli.stage[t] # "asked"
    <3>1. cli' = cli /\ (Has(toCli', Responses(t)) => Has(toCli, Responses(t)))
      BY <2>1, <2>7, <2>4, Taken DEF Takes
    <3> QED BY <2>1, <2>7, <3>1, LinesUnchanged, PromptKept DEF Live
  <2> QED BY <2>5, <2>6, <2>7
<1>11. CASE Exits
  <2>1. /\ UNCHANGED <<fromCli, actor, answers, shown>> /\ ~Live' /\ toCli' = <<>>
        /\ cli'.streams = cli.streams /\ cli'.stage = cli.stage
    BY <1>11 DEF Exits, CliOnly, Live, Clis
  <2>2. ~Has(toCli', Responses(t))
    BY <2>1, Emptied
  <2> QED BY <2>1, <2>2, LinesUnchanged, PromptKept
<1> QED BY <1>3, <1>5, <1>8, <1>9, <1>10, <1>11 DEF Cli

\* Nothing is asked at the start.
LEMMA InitPrompt == Init => PromptInv
<1> SUFFICES ASSUME Init, NEW t \in Tools PROVE PromptOf(t)
  BY DEF PromptInv
<1>1. /\ cli.stage[t] = "none" /\ fromCli = <<>> /\ toCli = <<>> /\ answers = {}
      /\ \A v \in Views : shown[v].main[t] = NoCard /\ shown[v].sub[t] = NoCard
  BY DEF Init, EmptyView
<1>2. ~NoCard.request /\ ~Present(NoCard)
  BY DEF NoCard, Present
<1> QED BY <1>1, <1>2, Emptied DEF PromptOf, NoPromptYet, NoEndYet, StartsOf, PromptIsOpen

\* Every step keeps prompts answerable.
LEMMA NextPrompt == TypeInv /\ WireInv /\ PromptInv /\ [Next]_vars => PromptInv'
<1> SUFFICES ASSUME TypeInv, WireInv, PromptInv, [Next]_vars, NEW t \in Tools PROVE PromptOf(t)'
  BY DEF PromptInv
<1>1. PromptOf(t)
  BY DEF PromptInv
<1>2. CASE Next
  BY <1>1, <1>2, BrowserPrompt, ActorPrompt, CliPrompt DEF Next
<1>3. CASE UNCHANGED vars
  BY <1>1, <1>3, LinesUnchanged, PromptKept DEF vars, Live
<1> QED BY <1>2, <1>3

\* While the CLI waits for a permission, its prompt or an answer is on the way, or every browser
\* has a card to answer it with, and no later line takes that card away or hides it.
THEOREM PromptsCanBeAnswered == Spec => []EveryPromptCanBeAnswered
<1>1. TypeInv /\ PromptInv => EveryPromptCanBeAnswered
  <2> SUFFICES ASSUME TypeInv, PromptInv, NEW t \in Tools, actor.up, cli.alive,
                      cli.stage[t] = "asked"
               PROVE  \/ LinesFrom("ask", t) # {}
                      \/ LinesTo("response", t) # {}
                      \/ \E a \in answers : a.tool = t /\ a.state = "sent"
                      \/ \A v \in Views : \/ Actionable(shown[v].main[t])
                                          \/ Actionable(shown[v].sub[t])
    BY DEF EveryPromptCanBeAnswered
  <2>1. PromptIsOpen(t)
    BY DEF PromptInv, PromptOf
  <2>2. Has(fromCli, About("ask", t)) => LinesFrom("ask", t) # {}
    BY Types DEF Has, About, LinesFrom
  <2>3. Has(toCli, Responses(t)) => LinesTo("response", t) # {}
    BY Types DEF Has, Responses, LinesTo
  <2> QED BY <2>1, <2>2, <2>3 DEF PromptIsOpen, Live
<1>2. Init => PromptInv
  BY InitPrompt
<1>3. (TypeInv /\ WireInv /\ DeadInv) /\ PromptInv /\ [Next]_vars => PromptInv'
  BY NextPrompt
<1>4. TypeInv /\ WireInv /\ DeadInv => TypeInv
  OBVIOUS
<1> QED BY <1>1, <1>2, <1>3, <1>4, TurnsAndCards, PTL DEF Spec

-----------------------------------------------------------------------------
(* A tool runs with the input it was announced with, if inputs do not interleave *)

Twice(s, L) == \E i, j \in DOMAIN s : i # j /\ s[i] \in L /\ s[j] \in L

\* A line comes a second time, or the first of two is read.
LEMMA TwiceTold ==
    ASSUME NEW S, NEW s \in Seq(S), NEW L
    PROVE  /\ \A x \in S : /\ Twice(s, L) => Twice(Append(s, x), L)
                           /\ Has(s, L) /\ x \in L => Twice(Append(s, x), L)
           /\ Twice(s, L) => Has(s, L)
           /\ s # <<>> /\ Twice(s, L) => Has(Tail(s), L)
           /\ s # <<>> /\ Twice(s, L) /\ Head(s) \notin L => Twice(Tail(s), L)
<1>1. ASSUME NEW x \in S
      PROVE  /\ Twice(s, L) => Twice(Append(s, x), L)
             /\ Has(s, L) /\ x \in L => Twice(Append(s, x), L)
  <2> DEFINE t == Append(s, x)
  <2>1. /\ DOMAIN t = 1..(Len(s) + 1) /\ DOMAIN s = 1..Len(s) /\ Len(s) \in Nat
        /\ \A i \in DOMAIN s : t[i] = s[i]
        /\ t[Len(s) + 1] = x
    OBVIOUS
  <2> HIDE DEF t
  <2>2. /\ \A i \in DOMAIN s : i \in DOMAIN t /\ i # Len(s) + 1
        /\ Len(s) + 1 \in DOMAIN t
    BY <2>1
  <2> QED BY <2>1, <2>2 DEF Twice, Has, t
<1>2. Twice(s, L) => Has(s, L)
  BY DEF Twice, Has
<1>3. ASSUME s # <<>>, Twice(s, L)
      PROVE  Has(Tail(s), L) /\ (Head(s) \notin L => Twice(Tail(s), L))
  <2> DEFINE t == Tail(s)
  <2>1. /\ DOMAIN t = 1..(Len(s) - 1) /\ DOMAIN s = 1..Len(s) /\ Len(s) \in Nat \ {0}
        /\ \A i \in DOMAIN t : t[i] = s[i + 1]
        /\ Head(s) = s[1]
    BY <1>3
  <2> HIDE DEF t
  <2>2. \A i \in DOMAIN s : i = 1 \/ (i - 1 \in DOMAIN t /\ t[i - 1] = s[i])
    BY <2>1
  <2>3. PICK i \in DOMAIN s, j \in DOMAIN s : i # j /\ s[i] \in L /\ s[j] \in L
    BY <1>3 DEF Twice
  <2>4. i # 1 \/ j # 1
    BY <2>3
  <2>5. Has(t, L)
    BY <2>2, <2>3, <2>4 DEF Has
  <2>6. ASSUME Head(s) \notin L
        PROVE  Twice(t, L)
    <3>1. i # 1 /\ j # 1
      BY <2>1, <2>3, <2>6
    <3>2. i - 1 # j - 1
      BY <2>1, <2>3
    <3> QED BY <2>2, <2>3, <3>1, <3>2 DEF Twice
  <2> QED BY <2>5, <2>6 DEF t
<1> QED BY <1>1, <1>2, <1>3

\* What is not in a pipe, anything comes before.
LEMMA BeforeNone ==
    ASSUME NEW s, NEW K, NEW L, ~Has(s, L)
    PROVE  Before(s, K, L)
BY DEF Has, Before

\* t is the last tool to start once the lines s are read, if it is last before.
Current(last, s, t) ==
    \/ last = t /\ \A k \in DOMAIN s : s[k].kind # "block"
    \/ \E j \in DOMAIN s : /\ s[j].kind = "block" /\ s[j].tool = t
                           /\ \A k \in DOMAIN s : k > j => s[k].kind # "block"

\* Every part in s is of the tool that started last before it.
Owned(last, s) ==
    \A i \in DOMAIN s : s[i].kind = "delta" =>
        \/ last = s[i].tool /\ \A k \in DOMAIN s : k < i => s[k].kind # "block"
        \/ \E j \in DOMAIN s : /\ j < i /\ s[j].kind = "block" /\ s[j].tool = s[i].tool
                               /\ \A k \in DOMAIN s : j < k /\ k < i => s[k].kind # "block"

\* A line is told.
LEMMA OwnedTold ==
    ASSUME NEW s \in Seq(FromLines), NEW x \in FromLines, NEW last
    PROVE  /\ x.kind = "block" => Current(last, Append(s, x), x.tool)
           /\ x.kind # "block" => \A t : Current(last, s, t) => Current(last, Append(s, x), t)
           /\ Owned(last, s) /\ (x.kind = "delta" => Current(last, s, x.tool))
                 => Owned(last, Append(s, x))
<1> DEFINE r == Append(s, x)
<1> DEFINE n == Len(s) + 1
<1>1. /\ DOMAIN r = 1..n /\ DOMAIN s = 1..Len(s) /\ Len(s) \in Nat /\ n \in Nat
      /\ \A i \in DOMAIN s : r[i] = s[i]
      /\ r[n] = x
  OBVIOUS
<1>2. /\ \A i \in DOMAIN r : i \in DOMAIN s \/ i = n
      /\ n \in DOMAIN r
      /\ \A i \in DOMAIN s : i \in DOMAIN r /\ i < n /\ ~(n < i) /\ i # n
      /\ ~(n < n)
  BY <1>1
<1> HIDE DEF r, n
<1>3. ASSUME x.kind = "block"
      PROVE  Current(last, r, x.tool)
  <2>1. \A k \in DOMAIN r : ~(k > n)
    BY <1>1
  <2> QED BY <1>1, <1>2, <1>3, <2>1 DEF Current
<1>4. ASSUME x.kind # "block", NEW t, Current(last, s, t)
      PROVE  Current(last, r, t)
  <2>1. CASE last = t /\ \A k \in DOMAIN s : s[k].kind # "block"
    BY <1>1, <1>2, <1>4, <2>1 DEF Current
  <2>2. ASSUME NEW j \in DOMAIN s, s[j].kind = "block", s[j].tool = t,
               \A k \in DOMAIN s : k > j => s[k].kind # "block"
        PROVE  Current(last, r, t)
    <3>1. j \in DOMAIN r /\ r[j].kind = "block" /\ r[j].tool = t
      BY <1>1, <1>2, <2>2
    <3>2. \A k \in DOMAIN r : k > j => r[k].kind # "block"
      BY <1>1, <1>2, <1>4, <2>2
    <3> QED BY <3>1, <3>2 DEF Current
  <2> QED BY <1>4, <2>1, <2>2 DEF Current
<1>5. ASSUME Owned(last, s), x.kind = "delta" => Current(last, s, x.tool)
      PROVE  Owned(last, r)
  <2> SUFFICES ASSUME NEW i \in DOMAIN r, r[i].kind = "delta"
               PROVE  \/ last = r[i].tool /\ \A k \in DOMAIN r : k < i => r[k].kind # "block"
                      \/ \E j \in DOMAIN r :
                            /\ j < i /\ r[j].kind = "block" /\ r[j].tool = r[i].tool
                            /\ \A k \in DOMAIN r : j < k /\ k < i => r[k].kind # "block"
    BY DEF Owned
  <2>1. CASE i \in DOMAIN s
    <3>1. \A k \in DOMAIN r : k < i => k \in DOMAIN s
      BY <1>1, <2>1
    <3>2. r[i] = s[i]
      BY <1>1, <2>1
    <3>3. CASE last = s[i].tool /\ \A k \in DOMAIN s : k < i => s[k].kind # "block"
      BY <1>1, <3>1, <3>2, <3>3
    <3>4. ASSUME NEW j \in DOMAIN s, j < i, s[j].kind = "block", s[j].tool = s[i].tool,
                 \A k \in DOMAIN s : j < k /\ k < i => s[k].kind # "block"
          PROVE  \E m \in DOMAIN r : /\ m < i /\ r[m].kind = "block" /\ r[m].tool = r[i].tool
                                     /\ \A k \in DOMAIN r : m < k /\ k < i => r[k].kind # "block"
      <4>1. j \in DOMAIN r /\ r[j] = s[j]
        BY <1>1, <1>2
      <4>2. \A k \in DOMAIN r : j < k /\ k < i => r[k].kind # "block"
        BY <1>1, <3>1, <3>4
      <4> QED BY <3>2, <3>4, <4>1, <4>2
    <3> QED BY <1>5, <2>1, <3>2, <3>3, <3>4 DEF Owned
  <2>2. CASE i = n
    <3>1. r[i] = x /\ Current(last, s, x.tool)
      BY <1>1, <1>5, <2>2
    <3>2. \A k \in DOMAIN r : k < i => k \in DOMAIN s /\ r[k] = s[k]
      BY <1>1, <1>2, <2>2
    <3>3. CASE last = x.tool /\ \A k \in DOMAIN s : s[k].kind # "block"
      BY <3>1, <3>2, <3>3
    <3>4. ASSUME NEW j \in DOMAIN s, s[j].kind = "block", s[j].tool = x.tool,
                 \A k \in DOMAIN s : k > j => s[k].kind # "block"
          PROVE  \E m \in DOMAIN r : /\ m < i /\ r[m].kind = "block" /\ r[m].tool = r[i].tool
                                     /\ \A k \in DOMAIN r : m < k /\ k < i => r[k].kind # "block"
      <4>1. j \in DOMAIN r /\ r[j] = s[j] /\ j < i
        BY <1>1, <1>2, <2>2
      <4>2. \A k \in DOMAIN r : j < k /\ k < i => r[k].kind # "block"
        BY <1>1, <3>2, <3>4
      <4> QED BY <3>1, <3>4, <4>1, <4>2
    <3> QED BY <3>1, <3>3, <3>4 DEF Current
  <2> QED BY <1>2, <2>1, <2>2
<1> QED BY <1>3, <1>4, <1>5 DEF r

\* A line is read.
LEMMA OwnedTaken ==
    ASSUME NEW s \in Seq(FromLines), s # <<>>, NEW last, NEW next,
           next = IF Head(s).kind = "block" THEN Head(s).tool ELSE last
    PROVE  /\ \A t : Current(last, s, t) => Current(next, Tail(s), t)
           /\ Owned(last, s) => Owned(next, Tail(s))
           /\ Owned(last, s) /\ Head(s).kind = "delta" => last = Head(s).tool
<1> DEFINE r == Tail(s)
<1>1. /\ DOMAIN r = 1..(Len(s) - 1) /\ DOMAIN s = 1..Len(s) /\ Len(s) \in Nat \ {0}
      /\ \A i \in DOMAIN r : r[i] = s[i + 1]
      /\ Head(s) = s[1]
  OBVIOUS
<1> HIDE DEF r
<1>2. /\ \A i \in DOMAIN r : i \in Nat /\ i + 1 \in DOMAIN s /\ i + 1 > 1
      /\ \A i \in DOMAIN s : i = 1 \/ (i > 1 /\ i - 1 \in DOMAIN r /\ r[i - 1] = s[i])
      /\ 1 \in DOMAIN s /\ \A i \in DOMAIN s : i \in Nat /\ ~(i < 1)
  BY <1>1
<1>3. ASSUME NEW t, Current(last, s, t)
      PROVE  Current(next, r, t)
  <2>1. CASE last = t /\ \A k \in DOMAIN s : s[k].kind # "block"
    BY <1>1, <1>2, <2>1 DEF Current
  <2>2. ASSUME NEW j \in DOMAIN s, s[j].kind = "block", s[j].tool = t,
               \A k \in DOMAIN s : k > j => s[k].kind # "block"
        PROVE  Current(next, r, t)
    <3>1. CASE j = 1
      <4>1. \A k \in DOMAIN r : r[k].kind # "block"
        BY <1>1, <1>2, <2>2, <3>1
      <4> QED BY <1>1, <2>2, <3>1, <4>1 DEF Current
    <3>2. CASE j # 1
      <4>1. j - 1 \in DOMAIN r /\ r[j - 1] = s[j]
        BY <1>2, <3>2
      <4>2. \A k \in DOMAIN r : k > j - 1 => r[k].kind # "block"
        <5>1. \A k \in DOMAIN r : k > j - 1 => k + 1 > j
          BY <1>2
        <5> QED BY <1>1, <1>2, <2>2, <5>1
      <4> QED BY <2>2, <4>1, <4>2 DEF Current
    <3> QED BY <3>1, <3>2
  <2> QED BY <1>3, <2>1, <2>2 DEF Current
<1>4. ASSUME Owned(last, s)
      PROVE  Owned(next, r)
  <2> SUFFICES ASSUME NEW i \in DOMAIN r, r[i].kind = "delta"
               PROVE  \/ next = r[i].tool /\ \A k \in DOMAIN r : k < i => r[k].kind # "block"
                      \/ \E j \in DOMAIN r :
                            /\ j < i /\ r[j].kind = "block" /\ r[j].tool = r[i].tool
                            /\ \A k \in DOMAIN r : j < k /\ k < i => r[k].kind # "block"
    BY DEF Owned
  <2>1. i + 1 \in DOMAIN s /\ r[i] = s[i + 1] /\ i \in Nat
    BY <1>1, <1>2
  <2>2. \A k \in DOMAIN r : k < i => k + 1 \in DOMAIN s /\ k + 1 < i + 1 /\ r[k] = s[k + 1]
    BY <1>1, <1>2
  <2>3. CASE last = s[i + 1].tool /\ \A k \in DOMAIN s : k < i + 1 => s[k].kind # "block"
    <3>1. Head(s).kind # "block"
      <4>1. 1 < i + 1
        BY <1>2
      <4> QED BY <1>1, <1>2, <2>3, <4>1
    <3> QED BY <2>1, <2>2, <2>3, <3>1
  <2>4. ASSUME NEW j \in DOMAIN s, j < i + 1, s[j].kind = "block", s[j].tool = s[i + 1].tool,
               \A k \in DOMAIN s : j < k /\ k < i + 1 => s[k].kind # "block"
        PROVE  \/ next = r[i].tool /\ \A k \in DOMAIN r : k < i => r[k].kind # "block"
               \/ \E m \in DOMAIN r :
                     /\ m < i /\ r[m].kind = "block" /\ r[m].tool = r[i].tool
                     /\ \A k \in DOMAIN r : m < k /\ k < i => r[k].kind # "block"
    <3>1. CASE j = 1
      <4>1. next = r[i].tool
        BY <1>1, <2>1, <2>4, <3>1
      <4>2. \A k \in DOMAIN r : k < i => r[k].kind # "block"
        BY <1>2, <2>2, <2>4, <3>1
      <4> QED BY <4>1, <4>2
    <3>2. CASE j # 1
      <4>1. j - 1 \in DOMAIN r /\ r[j - 1] = s[j] /\ j - 1 < i
        BY <1>2, <2>1, <2>4, <3>2
      <4>2. \A k \in DOMAIN r : j - 1 < k /\ k < i => r[k].kind # "block"
        <5>1. \A k \in DOMAIN r : j - 1 < k => j < k + 1
          BY <1>2
        <5> QED BY <2>2, <2>4, <5>1
      <4> QED BY <2>1, <2>4, <4>1, <4>2
    <3> QED BY <3>1, <3>2
  <2> QED BY <1>4, <2>1, <2>3, <2>4 DEF Owned
<1>5. ASSUME Owned(last, s), Head(s).kind = "delta"
      PROVE  last = Head(s).tool
  BY <1>1, <1>2, <1>5 DEF Owned
<1> QED BY <1>3, <1>4, <1>5 DEF r

\* Two parts are the input.
LEMMA DoubledPart ==
    ASSUME NEW part
    PROVE  Append(<<part>>, part) = <<part, part>>
<1>1. <<part>> \in Seq({part}) /\ Len(<<part>>) = 1 /\ <<part>>[1] = part
  OBVIOUS
<1> DEFINE s == <<part>>
<1> HIDE DEF s
<1>2. s \in Seq({part}) /\ Len(s) = 1 /\ s[1] = part
  BY <1>1 DEF s
<1>3. Append(s, part) \in Seq({part}) /\ Len(Append(s, part)) = 2
  BY <1>2
<1>4. Append(s, part)[1] = part /\ Append(s, part)[2] = part
  <2>1. \A r \in Seq({part}) : \A i \in 1..Len(r) : r[i] \in {part}
    OBVIOUS
  <2>2. 1 \in 1..2 /\ 2 \in 1..2
    OBVIOUS
  <2> QED BY <1>3, <2>1, <2>2
<1>5. \A r \in Seq({part}) : Len(r) = 2 /\ r[1] = part /\ r[2] = part => r = <<part, part>>
  OBVIOUS
<1> QED BY <1>3, <1>4, <1>5 DEF s

\* What the operators on a card do to its input.
LEMMA InputCards ==
    ASSUME NEW card \in Cards
    PROVE  /\ \A input : /\ NewCard(input).input = input /\ NewCard(input).accum = <<>>
                         /\ Present(NewCard(input)) /\ ~NewCard(input).request
           /\ \A part : /\ Accumulate(card, part).accum = Append(card.accum, part)
                        /\ card.input = part => Accumulate(card, part).input = part
                        /\ card.accum = <<part>> => Accumulate(card, part).input = part
                        /\ Accumulate(card, part).request = card.request
                        /\ Present(Accumulate(card, part)) <=> Present(card)
           /\ Asked(card).accum = card.accum /\ Asked(card).input = card.input
           /\ Present(Asked(card))
           /\ Deny(card).accum = card.accum /\ Deny(card).input = card.input
           /\ Present(Deny(card)) <=> Present(card)
           /\ Cancel(card).accum = card.accum /\ Cancel(card).input = card.input
           /\ Present(Cancel(card)) <=> Present(card)
           /\ Close(card).accum = card.accum /\ Close(card).input = card.input
           /\ Present(Close(card)) <=> Present(card)
           /\ \A status \in {"success", "error"} :
                 /\ WithStatus(card, status).accum = card.accum
                 /\ WithStatus(card, status).input = card.input
                 /\ Present(WithStatus(card, status))
           /\ \A allow : /\ Answered(card, allow).accum = card.accum
                         /\ Answered(card, allow).input = card.input
                         /\ Answered(card, allow).request = card.request
                         /\ Present(Answered(card, allow)) <=> Present(card)
<1> USE DEF Cards, Present
<1>1. \A input : /\ NewCard(input).input = input /\ NewCard(input).accum = <<>>
                 /\ Present(NewCard(input)) /\ ~NewCard(input).request
  BY DEF NewCard, NoCard
<1>2. ASSUME NEW part
      PROVE  /\ Accumulate(card, part).accum = Append(card.accum, part)
             /\ card.input = part => Accumulate(card, part).input = part
             /\ card.accum = <<part>> => Accumulate(card, part).input = part
             /\ Accumulate(card, part).request = card.request
             /\ Present(Accumulate(card, part)) <=> Present(card)
  <2>1. Append(<<part>>, part) = <<part, part>>
    BY DoubledPart
  <2>2. card.accum = <<part>> => Append(card.accum, part) = <<part, part>>
    BY <2>1
  <2> QED BY <2>2 DEF Accumulate
<1>3. /\ Asked(card).accum = card.accum /\ Asked(card).input = card.input
      /\ Present(Asked(card))
  BY DEF Asked
<1>4. /\ Deny(card).accum = card.accum /\ Deny(card).input = card.input
      /\ Present(Deny(card)) <=> Present(card)
  BY DEF Deny
<1>5. /\ Cancel(card).accum = card.accum /\ Cancel(card).input = card.input
      /\ Present(Cancel(card)) <=> Present(card)
  BY DEF Cancel, Open, Fail
<1>6. /\ Close(card).accum = card.accum /\ Close(card).input = card.input
      /\ Present(Close(card)) <=> Present(card)
  BY DEF Close, Open, Fail
<1>7. \A status \in {"success", "error"} :
         /\ WithStatus(card, status).accum = card.accum
         /\ WithStatus(card, status).input = card.input
         /\ Present(WithStatus(card, status))
  BY DEF WithStatus
<1>8. \A allow : /\ Answered(card, allow).accum = card.accum
                 /\ Answered(card, allow).input = card.input
                 /\ Answered(card, allow).request = card.request
                 /\ Present(Answered(card, allow)) <=> Present(card)
  BY DEF Answered, WithStatus, Actionable
<1> QED BY <1>1, <1>2, <1>3, <1>4, <1>5, <1>6, <1>7, <1>8

\* Which lines make a card for u: those that start it, and its prompt.
Makes(line, u) == line.kind \in {"block", "assistant", "ask"} /\ line.tool = u
\* Which lines may give a card of u another input.
Renews(line, u) ==
    \/ line.kind = "block" /\ line.tool = u
    \/ line.kind = "assistant" /\ line.tool = u /\ u \notin parser.emitted
    \/ line.kind = "delta" /\ parser.last = u

\* Cards do not go away, and only come as Makes says.
LEMMA ShowsPresent ==
    ASSUME NEW view \in TheViews, NEW line \in FromLines, parser \in Parsers, NEW u \in Tools
    PROVE  /\ Present(view.main[u]) => Present(Shows(view, line).main[u])
           /\ Present(view.sub[u]) => Present(Shows(view, line).sub[u])
           /\ ~Makes(line, u) /\ Present(Shows(view, line).main[u]) => Present(view.main[u])
           /\ ~Makes(line, u) /\ Present(Shows(view, line).sub[u]) => Present(view.sub[u])
<1>1. view.main[u] \in Cards /\ view.sub[u] \in Cards
  BY DEF TheViews
<1>2. CASE line.kind = "block" \/ (line.kind = "assistant" /\ line.tool \notin parser.emitted)
  BY <1>1, <1>2, ShowsStart, InputCards DEF Makes
<1>3. CASE line.kind = "delta" /\ parser.last # NoTool
  BY <1>1, <1>3, ShowsDelta, InputCards
<1>4. CASE \/ line.kind = "assistant" /\ line.tool \in parser.emitted
           \/ line.kind = "delta" /\ parser.last = NoTool
  BY <1>4, ShowsNothing
<1>5. CASE line.kind = "ask"
  <2>1. NewCard(u) \in Cards
    BY TypedCards DEF Inputs
  <2> QED BY <1>1, <1>5, <2>1, ShowsAsk, InputCards DEF Makes
<1>6. CASE line.kind = "cancel"
  BY <1>1, <1>6, ShowsCancel, InputCards
<1>7. CASE line.kind = "toolResult"
  BY <1>1, <1>7, ShowsEnded, InputCards DEF InSub
<1>8. CASE line.kind = "result"
  <2>1. Deny(view.main[u]) \in Cards /\ Deny(view.sub[u]) \in Cards
    BY <1>1, TypedCards
  <2>2. \A card \in Cards : Present(Close(card)) <=> Present(card)
    BY InputCards
  <2>3. /\ Present(Deny(view.main[u])) <=> Present(view.main[u])
        /\ Present(Deny(view.sub[u])) <=> Present(view.sub[u])
    BY <1>1, InputCards
  <2> QED BY <1>1, <1>8, <2>1, <2>2, <2>3, ShowsResult
<1> QED BY <1>2, <1>3, <1>4, <1>5, <1>6, <1>7, <1>8, LineFields

\* A card keeps its input but for the lines of Renews.
LEMMA ShowsInput ==
    ASSUME NEW view \in TheViews, NEW line \in FromLines, parser \in Parsers, NEW u \in Tools,
           ~Renews(line, u)
    PROVE  /\ Present(view.main[u]) =>
                 /\ Shows(view, line).main[u].input = view.main[u].input
                 /\ Shows(view, line).main[u].accum = view.main[u].accum
           /\ Present(view.sub[u]) =>
                 /\ Shows(view, line).sub[u].input = view.sub[u].input
                 /\ Shows(view, line).sub[u].accum = view.sub[u].accum
<1>1. view.main[u] \in Cards /\ view.sub[u] \in Cards
  BY DEF TheViews
<1>2. CASE line.kind = "block" \/ (line.kind = "assistant" /\ line.tool \notin parser.emitted)
  BY <1>1, <1>2, ShowsStart DEF Renews
<1>3. CASE line.kind = "delta" /\ parser.last # NoTool
  BY <1>1, <1>3, ShowsDelta DEF Renews
<1>4. CASE \/ line.kind = "assistant" /\ line.tool \in parser.emitted
           \/ line.kind = "delta" /\ parser.last = NoTool
  BY <1>4, ShowsNothing
<1>5. CASE line.kind = "ask"
  BY <1>1, <1>5, ShowsAsk, InputCards
<1>6. CASE line.kind = "cancel"
  BY <1>1, <1>6, ShowsCancel, InputCards
<1>7. CASE line.kind = "toolResult"
  BY <1>1, <1>7, ShowsEnded, InputCards
<1>8. CASE line.kind = "result"
  <2>1. Deny(view.main[u]) \in Cards /\ Deny(view.sub[u]) \in Cards
    BY <1>1, TypedCards
  <2>2. \A card \in Cards : Close(card).input = card.input /\ Close(card).accum = card.accum
    BY InputCards
  <2>3. /\ Deny(view.main[u]).input = view.main[u].input /\ Deny(view.main[u]).accum = view.main[u].accum
        /\ Deny(view.sub[u]).input = view.sub[u].input /\ Deny(view.sub[u]).accum = view.sub[u].accum
    BY <1>1, InputCards
  <2> QED BY <1>1, <1>8, <2>1, <2>2, <2>3, ShowsResult
<1> QED BY <1>2, <1>3, <1>4, <1>5, <1>6, <1>7, <1>8, LineFields

\* A card that was asked about keeps the right input, if parts are of the tool that started last.
LEMMA ShowsWhole ==
    ASSUME NEW view \in TheViews, NEW line \in FromLines, parser \in Parsers, NEW u \in Tools,
           line \notin About("ask", u),
           line.kind = "delta" /\ parser.last = u => line.tool = u
    PROVE  /\ Shows(view, line).main[u].request =>
                 /\ view.main[u].request
                 /\ view.main[u].input = u => Shows(view, line).main[u].input = u
           /\ Shows(view, line).sub[u].request =>
                 /\ view.sub[u].request
                 /\ view.sub[u].input = u => Shows(view, line).sub[u].input = u
<1>1. view.main[u] \in Cards /\ view.sub[u] \in Cards
  BY DEF TheViews
<1>2. /\ Shows(view, line).main[u].request => view.main[u].request
      /\ Shows(view, line).sub[u].request => view.sub[u].request
  BY ShowsRequest
<1>3. CASE line.kind = "block" \/ (line.kind = "assistant" /\ line.tool \notin parser.emitted)
  BY <1>1, <1>2, <1>3, ShowsStart, InputCards
<1>4. CASE line.kind = "delta" /\ parser.last # NoTool
  BY <1>1, <1>2, <1>4, ShowsDelta, InputCards
<1>5. CASE \/ line.kind = "assistant" /\ line.tool \in parser.emitted
           \/ line.kind = "delta" /\ parser.last = NoTool
  BY <1>2, <1>5, ShowsNothing
<1>6. CASE line.kind = "ask"
  <2>1. u # line.tool
    BY <1>6 DEF About
  <2> QED BY <1>2, <1>6, <2>1, ShowsAsk
<1>7. CASE line.kind = "cancel"
  BY <1>1, <1>2, <1>7, ShowsCancel, InputCards
<1>8. CASE line.kind = "toolResult"
  BY <1>1, <1>2, <1>8, ShowsEnded, InputCards
<1>9. CASE line.kind = "result"
  <2>1. Deny(view.main[u]) \in Cards /\ Deny(view.sub[u]) \in Cards
    BY <1>1, TypedCards
  <2>2. \A card \in Cards : Close(card).input = card.input
    BY InputCards
  <2>3. /\ Deny(view.main[u]).input = view.main[u].input
        /\ Deny(view.sub[u]).input = view.sub[u].input
    BY <1>1, InputCards
  <2>4. Shows(view, line).main[u].input = view.main[u].input
    BY <1>9, <2>1, <2>2, <2>3, <1>1, ShowsResult
  <2>5. Shows(view, line).sub[u].input = view.sub[u].input
    BY <1>9, <2>1, <2>2, <2>3, <1>1, ShowsResult
  <2> QED BY <1>2, <2>4, <2>5
<1> QED BY <1>3, <1>4, <1>5, <1>6, <1>7, <1>8, <1>9, LineFields

Parts       == {"block", "delta"}
Block(t)    == About("block", t)
Delta(t)    == About("delta", t)
Rest(t)     == {line \in FromLines : line.kind \in {"delta", "assistant", "ask"} /\ line.tool = t}
Misparented == {line \in FromLines : line.kind \in Parts /\ line.parent # Parent[line.tool]}
BadResponses(t) == {line \in Responses(t) : line.allow /\ line.input # t}

Going(t) == cli.stage[t] \notin {"none", "ended"}
Seen     == actor.up /\ actor.quarantine = "off"
Untouched(t) == \A v \in Views : ~Present(shown[v].main[t]) /\ ~Present(shown[v].sub[t])

\* A tool that has not started has left no trace.
NotStarted(t) == cli.stage[t] = "none" => ~Has(fromCli, Block(t) \cup Rest(t)) /\ Untouched(t)

\* A streamed tool starts once and first, and its prompt follows the parts of its input.
InOrder(t) == cli.streams => /\ Once(fromCli, Block(t))
                             /\ Before(fromCli, Block(t), Rest(t))
                             /\ Before(fromCli, Delta(t), About("ask", t))

\* While parts are to come they belong to the tool that started last.
OneAtATime(t) == cli.stage[t] \in {"block", "part"} => Current(parser.last, fromCli, t)

\* What the card of t has yet to get is in the pipe, as far as it has been told.
OnePartTold(t)  == cli.stage[t] # "block"
TwoPartsTold(t) == cli.stage[t] \notin {"block", "part"}
Due(t, accum) ==
    \/ accum = <<t>> /\ (TwoPartsTold(t) => Has(fromCli, Delta(t)))
    \/ /\ accum = <<>>
       /\ OnePartTold(t) => Has(fromCli, Delta(t))
       /\ TwoPartsTold(t) => Twice(fromCli, Delta(t))

\* The card of t, and where it must not have another.
Home(t, view)  == IF Parent[t] = Top THEN view.main[t] ELSE view.sub[t]
Other(t, view) == IF Parent[t] = Top THEN view.sub[t] ELSE view.main[t]

\* t has one card, with its input or what has come of it.
Fed(t, card, other) == Present(card) /\ ~Present(other) /\ (card.input = t \/ Due(t, card.accum))
FedIn(t, view) == Fed(t, Home(t, view), Other(t, view))

\* The card of the parent is there when the card of t is made.
ParentFirst(t) ==
    Parent[t] # Top =>
        \/ \A v \in Views : Present(shown[v].main[Parent[t]])
        \/ Has(fromCli, Block(Parent[t])) /\ Before(fromCli, Block(Parent[t]), Block(t))

\* A tool whose input is streamed has its card to come, or has it.
Streamed(t) ==
    cli.streams /\ Seen /\ Going(t) =>
        IF Has(fromCli, Block(t)) THEN Untouched(t) /\ Due(t, <<>>) /\ ParentFirst(t)
        ELSE t \in parser.emitted /\ \A v \in Views : FedIn(t, shown[v])

\* What a waiting prompt shows, and what an approval of it sends back, is the input of t.
Approved(t) ==
    cli.stage[t] = "asked" =>
        /\ ~Has(toCli, BadResponses(t))
        /\ \A a \in answers : a.tool = t /\ a.allow => a.input = t
        /\ \A v \in Views : /\ shown[v].main[t].request => shown[v].main[t].input = t
                            /\ shown[v].sub[t].request => shown[v].sub[t].input = t

\* Inputs that are not streamed come whole.
WholeIn(t, view) == /\ Present(view.main[t]) => view.main[t].input = t
                    /\ Present(view.sub[t]) => view.sub[t].input = t
Whole(t) ==
    ~cli.streams => /\ cli.stage[t] \notin {"block", "part"}
                    /\ ~Has(fromCli, Block(t) \cup Delta(t))
                    /\ \A v \in Views : WholeIn(t, shown[v])

InputOf(t) == /\ NotStarted(t) /\ InOrder(t) /\ OneAtATime(t) /\ Streamed(t)
              /\ Approved(t) /\ Whole(t)

InputInv ==
    /\ ApprovedInputIsAsked
    /\ Owned(parser.last, fromCli) /\ ~Has(fromCli, Misparented)
    /\ \A t \in Tools : InputOf(t)

\* The lines r carry the same starts and parts of inputs as the lines s, in their order.
Carries(last, s, r) ==
    /\ Owned(last, s) => Owned(last, r)
    /\ Has(r, Misparented) => Has(s, Misparented)
    /\ \A t \in Tools :
          /\ Has(r, Block(t)) <=> Has(s, Block(t))
          /\ Has(r, Delta(t)) <=> Has(s, Delta(t))
          /\ Once(s, Block(t)) => Once(r, Block(t))
          /\ Twice(s, Delta(t)) => Twice(r, Delta(t))
          /\ Before(s, Block(t), Rest(t)) => Before(r, Block(t), Rest(t))
          /\ Before(s, Delta(t), About("ask", t)) => Before(r, Delta(t), About("ask", t))
          /\ Current(last, s, t) => Current(last, r, t)
          /\ \A p \in Tools : Before(s, Block(p), Block(t)) => Before(r, Block(p), Block(t))

\* Another line carries no parts.
LEMMA CarriesAppended ==
    ASSUME NEW s \in Seq(FromLines), NEW x \in FromLines, x.kind \notin Parts, NEW last
    PROVE  Carries(last, s, Append(s, x))
<1> DEFINE r == Append(s, x)
<1>1. /\ \A L : Has(r, L) <=> Has(s, L) \/ x \in L
      /\ \A L : Once(s, L) /\ (x \in L => ~Has(s, L)) => Once(r, L)
      /\ \A K, L : Before(s, K, L) /\ (x \in K => ~Has(s, L) /\ x \notin L) => Before(r, K, L)
  BY Appended
<1>2. \A t : x \notin Block(t) /\ x \notin Delta(t)
  BY DEF Block, Delta, About, Parts
<1>3. x \notin Misparented
  BY DEF Misparented
<1>4. \A L : Twice(s, L) => Twice(r, L)
  BY TwiceTold
<1>5. /\ Owned(last, s) => Owned(last, r)
      /\ \A t : Current(last, s, t) => Current(last, r, t)
  BY OwnedTold DEF Parts
<1> HIDE DEF r
<1>6. Carries(last, s, r)
  BY <1>1, <1>2, <1>3, <1>4, <1>5 DEF Carries
<1> QED BY <1>6 DEF r

\* No line, or lines that carry no parts, are told.
LEMMA CarriesTold ==
    ASSUME fromCli \in Seq(FromLines), NEW last,
           NEW x \in FromLines, x.kind \notin Parts, NEW y \in FromLines, y.kind \notin Parts,
           fromCli' = fromCli \/ Tell(<<x>>) \/ Tell(<<x, y>>)
    PROVE  /\ Carries(last, fromCli, fromCli')
           /\ \A t : Has(fromCli', Rest(t)) => Has(fromCli, Rest(t)) \/ x \in Rest(t) \/ y \in Rest(t)
<1> DEFINE r == Append(fromCli, x)
<1>1. r \in Seq(FromLines)
  BY Appended
<1>2. Carries(last, fromCli, r) /\ Carries(last, r, Append(r, y))
  BY <1>1, CarriesAppended
<1>3. Carries(last, fromCli, fromCli)
  BY DEF Carries
<1>4. \A t : Has(r, Rest(t)) <=> Has(fromCli, Rest(t)) \/ x \in Rest(t)
  BY Appended
<1>5. \A t : Has(Append(r, y), Rest(t)) <=> Has(r, Rest(t)) \/ y \in Rest(t)
  <2> HIDE DEF r
  <2>1. \A L : Has(Append(r, y), L) <=> Has(r, L) \/ y \in L
    BY <1>1, Appended
  <2> QED BY <2>1
<1>6. fromCli' = fromCli \/ fromCli' = r \/ fromCli' = Append(r, y)
  BY Concat DEF Tell
<1> HIDE DEF r
<1>7. Carries(last, fromCli, Append(r, y))
  BY <1>2 DEF Carries
<1> QED BY <1>2, <1>3, <1>4, <1>5, <1>6, <1>7

\* Nothing of the input of t changes, or t goes on when its input has been told.
LEMMA InputKept ==
    ASSUME NEW t \in Tools, InputOf(t), ToolCardsAssumption,
           Carries(parser.last, fromCli, fromCli'), UNCHANGED <<shown, parser>>,
           cli'.streams = cli.streams,
           cli'.stage[t] = "none" => /\ cli.stage[t] = "none"
                                     /\ Has(fromCli', Rest(t)) => Has(fromCli, Rest(t)),
           cli'.stage[t] \in {"block", "part"} => cli.stage[t] = cli'.stage[t],
           cli.streams /\ Seen' /\ Going(t)'
             => /\ Seen /\ Going(t) /\ (OnePartTold(t)' => OnePartTold(t))
                /\ TwoPartsTold(t)' => TwoPartsTold(t),
           Approved(t)'
    PROVE  InputOf(t)'
<1>1. /\ Has(fromCli', Block(t)) <=> Has(fromCli, Block(t))
      /\ Has(fromCli', Delta(t)) <=> Has(fromCli, Delta(t))
      /\ Once(fromCli, Block(t)) => Once(fromCli', Block(t))
      /\ Twice(fromCli, Delta(t)) => Twice(fromCli', Delta(t))
      /\ Before(fromCli, Block(t), Rest(t)) => Before(fromCli', Block(t), Rest(t))
      /\ Before(fromCli, Delta(t), About("ask", t)) => Before(fromCli', Delta(t), About("ask", t))
      /\ Current(parser.last, fromCli, t) => Current(parser.last, fromCli', t)
  BY DEF Carries
<1>2. \A K, L, s : Has(s, K \cup L) <=> Has(s, K) \/ Has(s, L)
  BY DEF Has
<1>3. NotStarted(t)'
  <2>1. Untouched(t)' <=> Untouched(t)
    BY DEF Untouched
  <2> QED BY <1>1, <1>2, <2>1 DEF InputOf, NotStarted
<1>4. InOrder(t)'
  BY <1>1 DEF InputOf, InOrder
<1>5. OneAtATime(t)'
  BY <1>1 DEF InputOf, OneAtATime
<1>6. Whole(t)'
  BY <1>1, <1>2 DEF InputOf, Whole
<1>7. Streamed(t)'
  <2> SUFFICES ASSUME cli'.streams, Seen', Going(t)'
               PROVE  IF Has(fromCli', Block(t)) THEN Untouched(t)' /\ Due(t, <<>>)' /\ ParentFirst(t)'
                      ELSE t \in parser'.emitted /\ \A v \in Views : FedIn(t, shown[v])'
    BY DEF Streamed
  <2>1. \A accum : Due(t, accum) => Due(t, accum)'
    BY <1>1 DEF Due
  <2>2. CASE Has(fromCli', Block(t))
    <3>1. Untouched(t) /\ Due(t, <<>>) /\ ParentFirst(t)
      BY <1>1, <2>2 DEF InputOf, Streamed
    <3>2. Untouched(t)'
      BY <3>1 DEF Untouched
    <3>3. ParentFirst(t)'
      <4>1. Parent[t] # Top => Parent[t] \in Tools
        BY DEF ToolCardsAssumption
      <4> QED BY <3>1, <4>1 DEF ParentFirst, Carries
    <3>4. Due(t, <<>>)'
      BY <2>1, <3>1
    <3> QED BY <2>2, <3>2, <3>3, <3>4
  <2>3. CASE ~Has(fromCli', Block(t))
    <3>1. t \in parser.emitted /\ \A v \in Views : FedIn(t, shown[v])
      BY <1>1, <2>3 DEF InputOf, Streamed
    <3>2. \A card, other : Fed(t, card, other) => Fed(t, card, other)'
      BY <2>1 DEF Fed
    <3>3. \A v \in Views : FedIn(t, shown[v])'
      BY <3>1, <3>2 DEF FedIn, Home, Other
    <3> QED BY <2>3, <3>1, <3>3
  <2> QED BY <2>2, <2>3
<1> QED BY <1>3, <1>4, <1>5, <1>6, <1>7 DEF InputOf

\* No approval of t comes, on its way or on a card, while t waits.
LEMMA ApprovedKept ==
    ASSUME NEW t \in Tools, InputOf(t), PromptOf(t), UNCHANGED <<shown, answers>>,
           Has(toCli', BadResponses(t)) => Has(toCli, BadResponses(t)),
           cli'.stage[t] = "asked" => cli.stage[t] \in NotAsked \cup {"asked"}
    PROVE  Approved(t)'
<1> SUFFICES ASSUME cli'.stage[t] = "asked"
             PROVE  Approved(t)'
  BY DEF Approved
<1>1. CASE cli.stage[t] = "asked"
  BY <1>1 DEF InputOf, Approved
<1>2. CASE cli.stage[t] \in NotAsked
  <2>1. /\ ~Has(toCli, Responses(t)) /\ \A a \in answers : a.tool # t
        /\ \A v \in Views : ~shown[v].main[t].request /\ ~shown[v].sub[t].request
    BY <1>2 DEF PromptOf, NoPromptYet
  <2>2. ~Has(toCli, BadResponses(t))
    BY <2>1 DEF Has, BadResponses
  <2> QED BY <2>1, <2>2 DEF Approved
<1> QED BY <1>1, <1>2

\* Nothing changes for the input of t.
LEMMA InputStays ==
    ASSUME ToolCardsAssumption, NEW t \in Tools, InputOf(t), UNCHANGED <<fromCli, shown, parser>>,
           cli'.streams = cli.streams, cli'.stage[t] = cli.stage[t], Seen' => Seen, Approved(t)'
    PROVE  InputOf(t)'
<1>1. Carries(parser.last, fromCli, fromCli')
  BY DEF Carries
<1> QED BY <1>1, InputKept DEF Going, OnePartTold, TwoPartsTold

\* What comes and goes in the pipe to the CLI.
LEMMA WriteBad ==
    ASSUME toCli \in Seq(ToLines), NEW line \in ToLines, WriteLine(line), NEW t \in Tools,
           line \notin BadResponses(t)
    PROVE  Has(toCli', BadResponses(t)) => Has(toCli, BadResponses(t))
BY Appended DEF WriteLine

\* A message or an interrupt for the CLI.
LEMMA WriteInput ==
    ASSUME ToolCardsAssumption, TypeInv, NEW t \in Tools, InputOf(t), PromptOf(t),
           UNCHANGED <<cli, fromCli, parser, answers, shown>>, Seen' => Seen,
           NEW line \in ToLines, line \notin BadResponses(t), WriteLine(line)
    PROVE  InputOf(t)'
<1>1. Approved(t)'
  BY Types, WriteBad, ApprovedKept DEF NotAsked
<1> QED BY <1>1, InputStays

\* A card sends back the input it shows.
LEMMA ClickInput ==
    ASSUME ToolCardsAssumption, TypeInv, NEW t \in Tools, InputOf(t), PromptOf(t),
           NEW b \in Browsers, NEW u \in Tools, Click(b, u)
    PROVE  InputOf(t)'
<1>1. UNCHANGED <<cli, toCli, fromCli, actor, shown, parser>> /\ b \in Views
  BY DEF Click, Views
<1>2. PICK card \in {shown[b].main[u], shown[b].sub[u]}, allow \in BOOLEAN :
         /\ Actionable(card)
         /\ answers' = answers \cup
               {[by |-> b, tool |-> u, allow |-> allow,
                 input |-> IF allow THEN card.input ELSE NoTool, state |-> "sent"]}
  BY DEF Click
<1>3. PICK a : a = [by |-> b, tool |-> u, allow |-> allow,
                    input |-> IF allow THEN card.input ELSE NoTool, state |-> "sent"]
  OBVIOUS
<1>4. a.tool = u /\ (a.allow => a.input = card.input) /\ answers' = answers \cup {a}
  BY <1>2, <1>3
<1>5. Approved(t)'
  <2> SUFFICES ASSUME cli.stage[t] = "asked"
               PROVE  Approved(t)'
    BY <1>1 DEF Approved
  <2>1. /\ ~Has(toCli, BadResponses(t))
        /\ \A r \in answers : r.tool = t /\ r.allow => r.input = t
        /\ \A v \in Views : /\ shown[v].main[t].request => shown[v].main[t].input = t
                            /\ shown[v].sub[t].request => shown[v].sub[t].input = t
    BY DEF InputOf, Approved
  <2>2. u = t => card.input = t
    BY <1>1, <1>2, <2>1 DEF Actionable
  <2> QED BY <1>1, <1>4, <2>1, <2>2 DEF Approved
<1> QED BY <1>1, <1>5, InputStays DEF Seen

\* An answer is written with the input it has.
LEMMA RespondInput ==
    ASSUME ToolCardsAssumption, TypeInv, NEW t \in Tools, InputOf(t), PromptOf(t),
           NEW a \in answers, RespondPermission(a)
    PROVE  InputOf(t)'
<1> USE Types
<1>1. UNCHANGED <<cli, fromCli, actor, shown, parser>> /\ a \in Replies
  BY DEF RespondPermission
<1>2. PICK r : /\ answers' = (answers \ {a}) \cup {r}
               /\ r.tool = a.tool /\ r.allow = a.allow /\ r.input = a.input
  <2>1. PICK state \in {"delivered", "failed"} :
           answers' = (answers \ {a}) \cup {[a EXCEPT !.state = state]}
    BY DEF RespondPermission
  <2>2. /\ [a EXCEPT !.state = state].tool = a.tool
        /\ [a EXCEPT !.state = state].allow = a.allow
        /\ [a EXCEPT !.state = state].input = a.input
    BY <1>1 DEF Replies
  <2> QED BY <2>1, <2>2
<1>3. PICK line \in ToLines :
         /\ line.tool = a.tool /\ line.allow = a.allow /\ line.input = a.input
         /\ WriteLine(line) \/ toCli' = toCli
  <2>1. ToCli("response", a.tool, a.allow, a.input) \in ToLines
    BY <1>1, WrittenLines DEF Replies
  <2>2. PICK line \in ToLines : line = ToCli("response", a.tool, a.allow, a.input)
    BY <2>1
  <2>3. line.tool = a.tool /\ line.allow = a.allow /\ line.input = a.input
    BY <2>2 DEF ToCli
  <2>4. WriteLine(line) \/ toCli' = toCli
    BY <2>2 DEF RespondPermission
  <2> QED BY <2>3, <2>4
<1>4. Approved(t)'
  <2> SUFFICES ASSUME cli.stage[t] = "asked"
               PROVE  Approved(t)'
    BY <1>1 DEF Approved
  <2>1. /\ ~Has(toCli, BadResponses(t))
        /\ \A x \in answers : x.tool = t /\ x.allow => x.input = t
        /\ \A v \in Views : /\ shown[v].main[t].request => shown[v].main[t].input = t
                            /\ shown[v].sub[t].request => shown[v].sub[t].input = t
    BY DEF InputOf, Approved
  <2>2. a.tool = t /\ a.allow => a.input = t
    BY <2>1
  <2>3. line \notin BadResponses(t)
    BY <1>3, <2>2 DEF BadResponses, Responses
  <2>4. ~Has(toCli', BadResponses(t))
    BY <1>3, <2>1, <2>3, WriteBad
  <2>5. \A x \in answers' : x.tool = t /\ x.allow => x.input = t
    BY <1>2, <2>1, <2>2
  <2> QED BY <1>1, <2>1, <2>4, <2>5 DEF Approved
<1> QED BY <1>1, <1>4, InputStays DEF Seen

\* Cards that differ in their status only, or not at all.
Alike(x, y) == /\ Present(x) <=> Present(y)
               /\ x.input = y.input /\ x.accum = y.accum /\ x.request = y.request
AlikeView(x, y) == \A u \in Tools : Alike(x.main[u], y.main[u]) /\ Alike(x.sub[u], y.sub[u])

\* Every view shows cards as some view did.
LEMMA InputAlike ==
    ASSUME ToolCardsAssumption, NEW t \in Tools, InputOf(t),
           UNCHANGED <<cli, toCli, fromCli, actor, parser>>,
           answers' \subseteq answers,
           \A v \in Views : \E w \in Views : AlikeView(shown'[v], shown[w])
    PROVE  InputOf(t)'
<1>1. Untouched(t) => Untouched(t)'
  BY DEF Untouched, AlikeView, Alike
<1>2. ParentFirst(t) => ParentFirst(t)'
  <2>1. Parent[t] # Top => Parent[t] \in Tools
    BY DEF ToolCardsAssumption
  <2> QED BY <2>1 DEF ParentFirst, AlikeView, Alike
<1>3. \A accum : Due(t, accum) <=> Due(t, accum)'
  BY DEF Due, OnePartTold, TwoPartsTold
<1>4. ASSUME \A v \in Views : FedIn(t, shown[v])
      PROVE  \A v \in Views : FedIn(t, shown[v])'
  <2> SUFFICES ASSUME NEW v \in Views
               PROVE  FedIn(t, shown[v])'
    OBVIOUS
  <2>1. PICK w \in Views : AlikeView(shown'[v], shown[w])
    OBVIOUS
  <2>2. Alike(shown'[v].main[t], shown[w].main[t]) /\ Alike(shown'[v].sub[t], shown[w].sub[t])
    BY <2>1 DEF AlikeView
  <2>3. \A x, y, p, q : Alike(x, p) /\ Alike(y, q) /\ Fed(t, p, q) => Fed(t, x, y)'
    BY <1>3 DEF Alike, Fed
  <2>4. FedIn(t, shown[w])
    BY <1>4
  <2> QED BY <2>2, <2>3, <2>4 DEF FedIn, Home, Other
<1>5. NotStarted(t)' /\ InOrder(t)' /\ OneAtATime(t)'
  BY <1>1 DEF InputOf, NotStarted, InOrder, OneAtATime
<1>6. Streamed(t)'
  BY <1>1, <1>2, <1>3, <1>4 DEF InputOf, Streamed, Seen, Going
<1>7. Whole(t)'
  <2> SUFFICES ASSUME ~cli.streams, NEW v \in Views
               PROVE  /\ cli.stage[t] \notin {"block", "part"}
                      /\ ~Has(fromCli, Block(t) \cup Delta(t))
                      /\ WholeIn(t, shown'[v])
    BY DEF Whole, WholeIn, Views
  <2>1. /\ cli.stage[t] \notin {"block", "part"}
        /\ ~Has(fromCli, Block(t) \cup Delta(t))
        /\ \A w \in Views : WholeIn(t, shown[w])
    BY DEF InputOf, Whole
  <2>2. PICK w \in Views : AlikeView(shown'[v], shown[w])
    OBVIOUS
  <2>3. WholeIn(t, shown[w])
    BY <2>1
  <2>4. WholeIn(t, shown'[v])
    BY <2>2, <2>3 DEF WholeIn, AlikeView, Alike
  <2> QED BY <2>1, <2>4
<1>8. Approved(t)'
  <2> SUFFICES ASSUME cli.stage[t] = "asked", NEW v \in Views
               PROVE  /\ ~Has(toCli, BadResponses(t))
                      /\ \A a \in answers' : a.tool = t /\ a.allow => a.input = t
                      /\ shown'[v].main[t].request => shown'[v].main[t].input = t
                      /\ shown'[v].sub[t].request => shown'[v].sub[t].input = t
    BY DEF Approved, Views
  <2>1. /\ ~Has(toCli, BadResponses(t))
        /\ \A a \in answers : a.tool = t /\ a.allow => a.input = t
        /\ \A w \in Views : /\ shown[w].main[t].request => shown[w].main[t].input = t
                            /\ shown[w].sub[t].request => shown[w].sub[t].input = t
    BY DEF InputOf, Approved
  <2>2. PICK w \in Views : AlikeView(shown'[v], shown[w])
    OBVIOUS
  <2>3. /\ shown[w].main[t].request => shown[w].main[t].input = t
        /\ shown[w].sub[t].request => shown[w].sub[t].input = t
    BY <2>1
  <2>4. Alike(shown'[v].main[t], shown[w].main[t]) /\ Alike(shown'[v].sub[t], shown[w].sub[t])
    BY <2>2 DEF AlikeView
  <2> QED BY <2>1, <2>3, <2>4 DEF Alike
<1> QED BY <1>5, <1>6, <1>7, <1>8 DEF InputOf

\* An answer that is shown changes the status of cards only.
LEMMA ShowAnswerInput ==
    ASSUME ToolCardsAssumption, TypeInv, NEW t \in Tools, InputOf(t),
           NEW a \in answers, ShowAnswer(a)
    PROVE  InputOf(t)'
<1> USE Types
<1>1. a.by \in Views /\ a.tool \in Tools /\ a.allow \in BOOLEAN
  BY DEF Replies, Views
<1>2. ASSUME NEW v \in Views
      PROVE  AlikeView(shown'[v], shown[v])
  <2>1. \A x : Alike(x, x)
    BY DEF Alike
  <2>2. CASE shown'[v] = shown[v]
    BY <2>1, <2>2 DEF AlikeView
  <2>3. CASE shown'[v] = Resolve(shown[v], a.tool, a.allow)
    <3> SUFFICES ASSUME NEW u \in Tools
                 PROVE  /\ Alike(shown'[v].main[u], shown[v].main[u])
                        /\ Alike(shown'[v].sub[u], shown[v].sub[u])
      BY DEF AlikeView
    <3>1. shown[v] \in TheViews /\ shown[v].main[u] \in Cards /\ shown[v].sub[u] \in Cards
      BY DEF TheViews
    <3>2. \A card \in Cards : Alike(Answered(card, a.allow), card)
      BY InputCards DEF Alike
    <3> QED BY <1>1, <2>1, <2>3, <3>1, <3>2, ResolveIs
  <2>4. shown'[v] = shown[v] \/ shown'[v] = Resolve(shown[v], a.tool, a.allow)
    BY DEF ShowAnswer
  <2> QED BY <2>2, <2>3, <2>4
<1>3. UNCHANGED <<cli, toCli, fromCli, actor, parser>> /\ answers' \subseteq answers
  BY DEF ShowAnswer
<1>4. \A v \in Views : \E w \in Views : AlikeView(shown'[v], shown[w])
  BY <1>2
<1> QED BY <1>3, <1>4, InputAlike

\* A browser that opens the run again shows what the log gives.
LEMMA ReloadInput ==
    ASSUME ToolCardsAssumption, TypeInv, NEW t \in Tools, InputOf(t), NEW b \in Browsers, Reload(b)
    PROVE  InputOf(t)'
<1>1. UNCHANGED <<cli, toCli, fromCli, actor, parser, answers>>
  BY DEF Reload
<1>2. \A v \in Views : shown'[v] = shown[v] \/ shown'[v] = shown[Log]
  BY Types DEF Reload
<1>3. Log \in Views
  BY DEF Views
<1>4. \A x : AlikeView(x, x)
  BY DEF AlikeView, Alike
<1>5. \A v \in Views : \E w \in Views : AlikeView(shown'[v], shown[w])
  BY <1>2, <1>3, <1>4
<1> QED BY <1>1, <1>5, InputAlike

\* What browsers do keeps the input of t.
LEMMA BrowserInput ==
    ASSUME ToolCardsAssumption, TypeInv, NEW t \in Tools, InputOf(t), PromptOf(t),
           \/ SendMessage \/ Interrupt
           \/ \E b \in Browsers, u \in Tools : Click(b, u)
           \/ \E a \in answers : RespondPermission(a) \/ ShowAnswer(a)
           \/ \E b \in Browsers : Reload(b)
    PROVE  InputOf(t)'
<1>1. ASSUME SendMessage \/ Interrupt
      PROVE  InputOf(t)'
  <2>1. PICK line \in ToLines : line.kind # "response" /\ WriteLine(line)
    <3>1. PICK x \in ToLines : x = ToCli("turn", NoTool, TRUE, NoTool)
      BY WrittenLines
    <3>2. PICK y \in ToLines : y = ToCli("interrupt", NoTool, TRUE, NoTool)
      BY WrittenLines
    <3>3. x.kind = "turn" /\ y.kind = "interrupt"
      BY <3>1, <3>2 DEF ToCli
    <3>4. WriteLine(x) \/ WriteLine(y)
      BY <1>1, <3>1, <3>2 DEF SendMessage, Interrupt
    <3> QED BY <3>3, <3>4
  <2>2. line \notin BadResponses(t)
    BY <2>1 DEF BadResponses, Responses
  <2>3. UNCHANGED <<cli, fromCli, parser, answers, shown>> /\ (Seen' => Seen)
    BY <1>1, Types DEF SendMessage, Interrupt, Seen, Actors
  <2> QED BY <2>1, <2>2, <2>3, WriteInput
<1> QED BY <1>1, ClickInput, RespondInput, ShowAnswerInput, ReloadInput

\* The lines without the one that the actor takes, and the parser that has taken it.
LEMMA TakenInput ==
    ASSUME TypeInv, InputInv, TakeLine, cli' = cli,
           parser' = IF IsControl(Line) THEN parser ELSE MapEvent(Line)
    PROVE  /\ Line \in FromLines
           /\ \A K : Has(fromCli', K) => Has(fromCli, K)
           /\ \A K : Line \in K => Has(fromCli, K)
           /\ \A K : Has(fromCli, K) => Has(fromCli', K) \/ Line \in K
           /\ \A K : Once(fromCli, K) /\ Line \in K => ~Has(fromCli', K)
           /\ \A K : Twice(fromCli, K) => Has(fromCli', K)
           /\ \A K : Twice(fromCli, K) /\ Line \notin K => Twice(fromCli', K)
           /\ \A K, L : Before(fromCli, K, L) => Before(fromCli', K, L)
           /\ \A K, L : Before(fromCli, K, L) /\ Line \in L => ~Has(fromCli', K)
           /\ Owned(parser'.last, fromCli') /\ ~Has(fromCli', Misparented)
           /\ Line.kind = "delta" => parser.last = Line.tool
           /\ Line.kind \in Parts => Line.parent = Parent[Line.tool]
           /\ parser.emitted \subseteq parser'.emitted
           /\ Line.kind = "block" => Line.tool \in parser'.emitted
           /\ \A t \in Tools : InOrder(t)' /\ OneAtATime(t)'
<1> USE Types
<1>1. Line \in FromLines /\ Line = Head(fromCli) /\ fromCli # <<>> /\ fromCli' = Tail(fromCli)
  BY DEF TakeLine
<1>2. /\ \A K : Has(fromCli', K) => Has(fromCli, K)
      /\ \A K : Line \in K => Has(fromCli, K)
      /\ \A K : Has(fromCli, K) => Has(fromCli', K) \/ Line \in K
      /\ \A K : Once(fromCli, K) => Once(fromCli', K)
      /\ \A K : Once(fromCli, K) /\ Line \in K => ~Has(fromCli', K)
      /\ \A K, L : Before(fromCli, K, L) => Before(fromCli', K, L)
      /\ \A K, L : Before(fromCli, K, L) /\ Line \in L => ~Has(fromCli', K)
  BY <1>1, Taken
<1>3. /\ \A K : Twice(fromCli, K) => Has(fromCli', K)
      /\ \A K : Twice(fromCli, K) /\ Line \notin K => Twice(fromCli', K)
  BY <1>1, TwiceTold
<1>4. parser'.last = IF Line.kind = "block" THEN Line.tool ELSE parser.last
  <2>1. CASE Line.kind = "block"
    BY <2>1 DEF IsControl, MapEvent, Started, Parsers
  <2>2. CASE Line.kind # "block"
    BY <2>2 DEF IsControl, MapEvent, Parsers
  <2> QED BY <2>1, <2>2
<1>5. /\ parser.emitted \subseteq parser'.emitted
      /\ Line.kind = "block" => Line.tool \in parser'.emitted
  <2>1. CASE Line.kind = "block"
    BY <2>1 DEF IsControl, MapEvent, Started, Parsers
  <2>2. CASE Line.kind # "block"
    BY <2>2 DEF IsControl, MapEvent, Parsers
  <2> QED BY <2>1, <2>2
<1>6. /\ \A t : Current(parser.last, fromCli, t) => Current(parser'.last, fromCli', t)
      /\ Owned(parser'.last, fromCli')
      /\ Line.kind = "delta" => parser.last = Line.tool
  BY <1>1, <1>4, OwnedTaken DEF InputInv
<1>7. ~Has(fromCli', Misparented) /\ (Line.kind \in Parts => Line.parent = Parent[Line.tool])
  BY <1>1, <1>2 DEF InputInv, Misparented
<1>8. ASSUME NEW t \in Tools
      PROVE  InOrder(t)' /\ OneAtATime(t)'
  BY <1>2, <1>6 DEF InputInv, InputOf, InOrder, OneAtATime
<1> QED BY <1>1, <1>2, <1>3, <1>5, <1>6, <1>7, <1>8

\* The quarantine: nothing is shown, and no tool is under way when it is lifted.
LEMMA SwallowInput ==
    ASSUME TypeInv, WireInv, InputInv, SwallowLine
    PROVE  InputInv'
<1> USE Types
<1>1. /\ UNCHANGED <<cli, ran, answers, shown>> /\ TakeLine
      /\ parser' = IF IsControl(Line) THEN parser ELSE MapEvent(Line)
  BY DEF SwallowLine
<1>2. /\ Line \in FromLines
      /\ \A K : Has(fromCli', K) => Has(fromCli, K)
      /\ \A K : Line \in K => Has(fromCli, K)
      /\ Owned(parser'.last, fromCli') /\ ~Has(fromCli', Misparented)
      /\ \A t \in Tools : InOrder(t)' /\ OneAtATime(t)'
  BY <1>1, TakenInput
<1>3. ApprovedInputIsAsked'
  BY <1>1 DEF InputInv, ApprovedInputIsAsked
<1>4. ASSUME NEW t \in Tools
      PROVE  InputOf(t)'
  <2>1. InputOf(t)
    BY DEF InputInv
  <2>2. NotStarted(t)' /\ Whole(t)'
    BY <1>1, <1>2, <2>1 DEF InputOf, NotStarted, Untouched, Whole, WholeIn
  <2>3. Streamed(t)'
    <3>1. Seen' => Line \in Results
      BY <1>2 DEF SwallowLine, Seen, Results, Of
    <3>2. Line \in Results => ~Going(t)
      BY <1>2 DEF WireInv, Going
    <3> QED BY <1>1, <3>1, <3>2 DEF Streamed, Going
  <2>4. Has(toCli', BadResponses(t)) => Has(toCli, BadResponses(t))
    <3>1. CASE Line.kind = "ask"
      <4>1. Line.tool \in Tools /\ NoTool \in Inputs
        BY <1>2, <3>1, LineFields
      <4>2. PICK x \in ToLines : x = ToCli("response", Line.tool, FALSE, NoTool)
        BY <4>1, WrittenLines DEF ToLines, LineToCli, ToCli
      <4>3. x \notin BadResponses(t)
        BY <4>2 DEF ToCli, BadResponses
      <4>4. WriteLine(x)
        BY <3>1, <4>2 DEF SwallowLine, AnswerAsk
      <4> QED BY <4>3, <4>4, WriteBad
    <3>2. CASE Line.kind # "ask"
      BY <3>2 DEF SwallowLine, AnswerAsk
    <3> QED BY <3>1, <3>2
  <2>5. Approved(t)'
    BY <1>1, <2>1, <2>4 DEF InputOf, Approved
  <2> QED BY <1>2, <2>2, <2>3, <2>5 DEF InputOf
<1> QED BY <1>2, <1>3, <1>4 DEF InputInv

\* A line without parts leaves inputs whole.
LEMMA WholeShows ==
    ASSUME NEW view \in TheViews, NEW line \in FromLines, parser \in Parsers, NEW t \in Tools,
           line.kind \notin Parts, WholeIn(t, view)
    PROVE  WholeIn(t, Shows(view, line))
<1>1. view.main[t] \in Cards /\ view.sub[t] \in Cards
  BY DEF TheViews
<1>2. /\ Present(view.main[t]) => view.main[t].input = t
      /\ Present(view.sub[t]) => view.sub[t].input = t
  BY DEF WholeIn
<1>3. CASE line.kind = "assistant" /\ line.tool \notin parser.emitted
  <2>1. NewCard(t).input = t
    BY <1>1, InputCards
  <2> QED BY <1>2, <1>3, <2>1, ShowsStart DEF WholeIn
<1>4. CASE line.kind = "assistant" /\ line.tool \in parser.emitted
  BY <1>2, <1>4, ShowsNothing DEF WholeIn
<1>5. CASE line.kind = "ask"
  <2>1. NewCard(t) \in Cards /\ NewCard(t).input = t
    BY <1>1, InputCards, TypedCards DEF Inputs
  <2>2. \A card \in Cards : Asked(card).input = card.input
    BY InputCards
  <2>3. Present(Shows(view, line).main[t]) => Shows(view, line).main[t].input = t
    BY <1>1, <1>2, <1>5, <2>1, <2>2, ShowsAsk
  <2>4. Shows(view, line).sub[t] = view.sub[t] \/ Present(view.sub[t])
    BY <1>5, ShowsAsk DEF AskedOnMain, InSub
  <2>5. Present(Shows(view, line).sub[t]) => Shows(view, line).sub[t].input = t
    BY <1>1, <1>2, <1>5, <2>2, <2>4, ShowsAsk
  <2> QED BY <2>3, <2>5 DEF WholeIn
<1>6. CASE line.kind \notin {"assistant", "ask"}
  <2>1. ~Renews(line, t) /\ ~Makes(line, t)
    BY <1>6 DEF Renews, Makes, Parts
  <2> QED BY <1>2, <2>1, ShowsInput, ShowsPresent DEF WholeIn
<1> QED BY <1>3, <1>4, <1>5, <1>6

\* The prompt of t on a card with the input of t.
LEMMA AskShows ==
    ASSUME NEW view \in TheViews, NEW line \in FromLines, parser \in Parsers, NEW t \in Tools,
           line \in About("ask", t), WholeIn(t, view),
           view.main[t].request => view.main[t].input = t,
           view.sub[t].request => view.sub[t].input = t
    PROVE  LET new == Shows(view, line) IN
           /\ new.main[t].request => new.main[t].input = t
           /\ new.sub[t].request => new.sub[t].input = t
<1> DEFINE new == Shows(view, line)
<1>1. line.kind = "ask" /\ line.tool = t /\ line.kind \notin Parts
  BY DEF About, Parts
<1>2. WholeIn(t, new)
  BY <1>1, WholeShows
<1>3. view.main[t] \in Cards /\ view.sub[t] \in Cards /\ NewCard(t) \in Cards
  BY TypedCards DEF TheViews, Inputs
<1>4. \A card \in Cards : Present(Asked(card))
  BY InputCards
<1>5. new.main[t] = view.main[t] \/ Present(new.main[t])
  BY <1>1, <1>3, <1>4, ShowsAsk
<1>6. new.sub[t] = view.sub[t] \/ Present(new.sub[t])
  BY <1>1, <1>3, <1>4, ShowsAsk
<1> HIDE DEF new
<1>7. /\ new.main[t].request => new.main[t].input = t
      /\ new.sub[t].request => new.sub[t].input = t
  BY <1>2, <1>5, <1>6 DEF WholeIn
<1> QED BY <1>7 DEF new

\* A tool that starts gets its card where it belongs, without input.
LEMMA StartShows ==
    ASSUME ToolCardsAssumption, NEW view \in TheViews, NEW line \in FromLines, NEW t \in Tools,
           line \in Block(t), line.parent = Parent[t],
           ~Present(view.main[t]), ~Present(view.sub[t]),
           Parent[t] # Top => Present(view.main[Parent[t]])
    PROVE  LET new == Shows(view, line) IN
           /\ Present(Home(t, new)) /\ ~Present(Other(t, new)) /\ Home(t, new).accum = <<>>
<1>1. line.kind = "block" /\ line.tool = t
  BY DEF Block, About
<1>2. Present(NewCard(NoTool)) /\ NewCard(NoTool).accum = <<>>
  <2>1. view.main[t] \in Cards
    BY DEF TheViews
  <2> QED BY <2>1, InputCards
<1>3. CASE Parent[t] = Top
  <2>1. ~Under(view, line.parent)
    BY <1>3 DEF Under
  <2>2. Shows(view, line).main[t] = NewCard(NoTool) /\ Shows(view, line).sub[t] = view.sub[t]
    BY <1>1, <2>1, ShowsStart
  <2> QED BY <1>2, <1>3, <2>2 DEF Home, Other
<1>4. CASE Parent[t] # Top
  <2>1. Under(view, line.parent)
    BY <1>4 DEF Under
  <2>2. Shows(view, line).sub[t] = NewCard(NoTool) /\ Shows(view, line).main[t] = view.main[t]
    BY <1>1, <2>1, ShowsStart
  <2> QED BY <1>2, <1>4, <2>2 DEF Home, Other
<1> QED BY <1>3, <1>4

\* A tool that has its card keeps it, with its input, until a part for it comes.
LEMMA FeedShows ==
    ASSUME ToolCardsAssumption, NEW view \in TheViews, NEW line \in FromLines, parser \in Parsers,
           NEW t \in Tools, line \notin Block(t), t \in parser.emitted,
           Present(Home(t, view)), ~Present(Other(t, view)),
           line.kind = "delta" => parser.last = line.tool,
           line.kind \in Parts => line.parent = Parent[line.tool]
    PROVE  LET new == Shows(view, line) IN
           /\ Present(Home(t, new)) /\ ~Present(Other(t, new))
           /\ line \notin Delta(t) => /\ Home(t, new).input = Home(t, view).input
                                      /\ Home(t, new).accum = Home(t, view).accum
           /\ line \in Delta(t) =>
                 /\ Home(t, new).accum = Append(Home(t, view).accum, t)
                 /\ Home(t, view).input = t => Home(t, new).input = t
                 /\ Home(t, view).accum = <<t>> => Home(t, new).input = t
<1> DEFINE new == Shows(view, line)
<1>1. view.main[t] \in Cards /\ view.sub[t] \in Cards
  BY DEF TheViews
<1>2. /\ Present(view.main[t]) => Present(new.main[t])
      /\ Present(view.sub[t]) => Present(new.sub[t])
      /\ ~Makes(line, t) /\ Present(new.main[t]) => Present(view.main[t])
      /\ ~Makes(line, t) /\ Present(new.sub[t]) => Present(view.sub[t])
  BY ShowsPresent
<1>3. Present(Home(t, new))
  BY <1>2 DEF Home
<1>4. ~Present(Other(t, new))
  <2>1. CASE ~Makes(line, t)
    BY <1>2, <2>1 DEF Other
  <2>2. CASE line.kind = "assistant" /\ line.tool = t
    <3>1. new = view
      BY <2>2, ShowsNothing
    <3> QED BY <3>1
  <2>3. CASE line.kind = "ask" /\ line.tool = t
    <3>1. CASE Parent[t] = Top
      <4>1. AskedOnMain(view, line, t)
        BY <3>1 DEF AskedOnMain, InSub, Home
      <4>2. new.sub[t] = view.sub[t]
        BY <2>3, <4>1, ShowsAsk
      <4> QED BY <3>1, <4>2 DEF Other
    <3>2. CASE Parent[t] # Top
      <4>1. ~AskedOnMain(view, line, t)
        BY <3>2 DEF AskedOnMain, Home, Other
      <4>2. new.main[t] = view.main[t]
        BY <2>3, <4>1, ShowsAsk
      <4> QED BY <3>2, <4>2 DEF Other
    <3> QED BY <3>1, <3>2
  <2> QED BY <2>1, <2>2, <2>3 DEF Makes, Block, About
<1>5. ASSUME line \notin Delta(t)
      PROVE  Home(t, new).input = Home(t, view).input /\ Home(t, new).accum = Home(t, view).accum
  <2>1. ~Renews(line, t)
    BY <1>5 DEF Renews, Delta, Block, About
  <2> QED BY <2>1, ShowsInput DEF Home
<1>6. ASSUME line \in Delta(t)
      PROVE  /\ Home(t, new).accum = Append(Home(t, view).accum, t)
             /\ Home(t, view).input = t => Home(t, new).input = t
             /\ Home(t, view).accum = <<t>> => Home(t, new).input = t
  <2>1. line.kind = "delta" /\ line.tool = t /\ parser.last = t /\ line.parent = Parent[t]
    BY <1>6 DEF Delta, About, Parts
  <2>2. parser.last # NoTool
    BY <2>1 DEF ToolCardsAssumption, NoTool
  <2>3. CASE Parent[t] = Top
    <3>1. new.main[t] = Accumulate(view.main[t], t)
      BY <2>1, <2>2, <2>3, ShowsDelta DEF Home
    <3> QED BY <1>1, <2>3, <3>1, InputCards DEF Home
  <2>4. CASE Parent[t] # Top
    <3>1. new.sub[t] = Accumulate(view.sub[t], t)
      BY <2>1, <2>2, <2>4, ShowsDelta DEF Home, InSub
    <3> QED BY <1>1, <2>4, <3>1, InputCards DEF Home
  <2> QED BY <2>3, <2>4
<1> QED BY <1>3, <1>4, <1>5, <1>6

\* The prompt of a waiting tool finds its card with its input.
LEMMA AskFindsInput ==
    ASSUME NEW t \in Tools, InputOf(t), Seen, cli.stage[t] = "asked",
           ~Has(fromCli, Block(t)) \/ ~cli.streams, ~Has(fromCli, Delta(t)), NEW v \in Views
    PROVE  WholeIn(t, shown[v])
<1>1. CASE ~cli.streams
  BY <1>1 DEF InputOf, Whole
<1>2. CASE cli.streams
  <2>1. FedIn(t, shown[v])
    BY <1>2 DEF InputOf, Streamed, Going
  <2>2. \A accum : ~Due(t, accum)
    BY DEF Due, OnePartTold, TwoPartsTold
  <2>3. \A x, y : Fed(t, x, y) => ~Present(y) /\ x.input = t
    BY <2>2 DEF Fed
  <2> QED BY <2>1, <2>3 DEF FedIn, Home, Other, WholeIn
<1> QED BY <1>1, <1>2

\* A line that is handled: what comes of a tool whose input is streamed.
LEMMA HandleStreamed ==
    ASSUME ToolCardsAssumption, TypeInv, InputInv, HandleLine, NEW t \in Tools
    PROVE  Streamed(t)'
<1> USE Types
<1>1. /\ UNCHANGED cli /\ TakeLine /\ Seen
      /\ parser' = IF IsControl(Line) THEN parser ELSE MapEvent(Line)
      /\ \A v \in Views : shown'[v] = Shows(shown[v], Line) /\ shown[v] \in TheViews
  BY DEF HandleLine, Seen, TakeLine
<1>2. /\ Line \in FromLines
      /\ \A K : Has(fromCli', K) => Has(fromCli, K)
      /\ \A K : Line \in K => Has(fromCli, K)
      /\ \A K : Has(fromCli, K) => Has(fromCli', K) \/ Line \in K
      /\ \A K : Once(fromCli, K) /\ Line \in K => ~Has(fromCli', K)
      /\ \A K : Twice(fromCli, K) => Has(fromCli', K)
      /\ \A K : Twice(fromCli, K) /\ Line \notin K => Twice(fromCli', K)
      /\ \A K, L : Before(fromCli, K, L) => Before(fromCli', K, L)
      /\ \A K, L : Before(fromCli, K, L) /\ Line \in L => ~Has(fromCli', K)
      /\ Line.kind = "delta" => parser.last = Line.tool
      /\ Line.kind \in Parts => Line.parent = Parent[Line.tool]
      /\ parser.emitted \subseteq parser'.emitted
      /\ Line.kind = "block" => Line.tool \in parser'.emitted
  BY <1>1, TakenInput
<1> SUFFICES ASSUME cli.streams, Going(t)
             PROVE  IF Has(fromCli', Block(t)) THEN Untouched(t)' /\ Due(t, <<>>)' /\ ParentFirst(t)'
                    ELSE t \in parser'.emitted /\ \A v \in Views : FedIn(t, shown[v])'
  BY <1>1 DEF Streamed, Going
<1>3. InputOf(t)
  BY DEF InputInv
<1>4. /\ Once(fromCli, Block(t)) /\ Before(fromCli, Block(t), Rest(t))
      /\ IF Has(fromCli, Block(t)) THEN Untouched(t) /\ Due(t, <<>>) /\ ParentFirst(t)
         ELSE t \in parser.emitted /\ \A v \in Views : FedIn(t, shown[v])
  BY <1>1, <1>3 DEF InputOf, InOrder, Streamed
<1>5. ASSUME Line \notin Delta(t), NEW accum, Due(t, accum)
      PROVE  Due(t, accum)'
  BY <1>1, <1>2, <1>5 DEF Due, OnePartTold, TwoPartsTold
<1>6. Parent[t] # Top => Parent[t] \in Tools /\ Parent[t] # t /\ Parent[Parent[t]] = Top
  BY DEF ToolCardsAssumption
\* The start of t is still to come.
<1>7. CASE Has(fromCli', Block(t))
  <2>1. Untouched(t) /\ Due(t, <<>>) /\ ParentFirst(t) /\ Line \notin Block(t) /\ Line \notin Rest(t)
    BY <1>2, <1>4, <1>7
  <2>2. Line \notin Delta(t) /\ ~Makes(Line, t)
    BY <1>2, <2>1 DEF Block, Rest, Delta, About, Makes
  <2>3. Untouched(t)'
    <3>1. ASSUME NEW v \in Views
          PROVE  ~Present(shown'[v].main[t]) /\ ~Present(shown'[v].sub[t])
      <4>1. ~Present(shown[v].main[t]) /\ ~Present(shown[v].sub[t])
        BY <2>1 DEF Untouched
      <4> QED BY <1>1, <1>2, <2>2, <4>1, ShowsPresent
    <3> QED BY <3>1 DEF Untouched
  <2>4. ParentFirst(t)'
    <3> SUFFICES ASSUME Parent[t] # Top
                 PROVE  \/ \A v \in Views : Present(shown'[v].main[Parent[t]])
                        \/ /\ Has(fromCli', Block(Parent[t]))
                           /\ Before(fromCli', Block(Parent[t]), Block(t))
      BY DEF ParentFirst
    <3>1. CASE \A v \in Views : Present(shown[v].main[Parent[t]])
      BY <1>1, <1>2, <1>6, <3>1, ShowsPresent
    <3>2. CASE /\ Has(fromCli, Block(Parent[t])) /\ Before(fromCli, Block(Parent[t]), Block(t))
               /\ Line \in Block(Parent[t])
      <4>1. Line.kind = "block" /\ Line.tool = Parent[t] /\ Line.parent = Top
        BY <1>2, <1>6, <3>2 DEF Block, About, Parts
      <4>2. ASSUME NEW v \in Views
            PROVE  Present(shown'[v].main[Parent[t]])
        <5>1. ~Under(shown[v], Line.parent)
          BY <4>1 DEF Under
        <5>2. \/ shown'[v].main[Parent[t]] = NewCard(NoTool)
              \/ Present(shown'[v].main[Parent[t]])
          BY <1>1, <1>2, <1>6, <4>1, <5>1, ShowsStart
        <5>3. shown[v].main[t] \in Cards
          BY <1>1 DEF TheViews
        <5> QED BY <5>2, <5>3, InputCards
      <4> QED BY <4>2
    <3>3. CASE /\ Has(fromCli, Block(Parent[t])) /\ Before(fromCli, Block(Parent[t]), Block(t))
               /\ Line \notin Block(Parent[t])
      BY <1>2, <3>3
    <3> QED BY <2>1, <3>1, <3>2, <3>3 DEF ParentFirst
  <2>5. Due(t, <<>>)'
    BY <1>5, <2>1, <2>2
  <2> QED BY <1>7, <2>3, <2>4, <2>5
\* t starts with this line.
<1>8. CASE Line \in Block(t)
  <2>1. ~Has(fromCli', Block(t)) /\ Untouched(t) /\ Due(t, <<>>) /\ ParentFirst(t)
    BY <1>2, <1>4, <1>8
  <2>2. Line \notin Delta(t) /\ Line.kind = "block" /\ Line.tool = t /\ Line.parent = Parent[t]
    BY <1>2, <1>8 DEF Block, Delta, About, Parts
  <2>3. Parent[t] # Top => \A v \in Views : Present(shown[v].main[Parent[t]])
    <3>1. Parent[t] # Top => ~Has(fromCli, Block(Parent[t])) \/ ~Before(fromCli, Block(Parent[t]), Block(t))
      <4>1. Parent[t] # Top => Line \notin Block(Parent[t])
        BY <1>6, <2>2 DEF Block, About
      <4> QED BY <1>2, <1>8, <4>1
    <3> QED BY <2>1, <3>1 DEF ParentFirst
  <2>4. Due(t, <<>>)'
    BY <1>5, <2>1, <2>2
  <2>5. ASSUME NEW v \in Views
        PROVE  FedIn(t, shown[v])'
    <3>1. /\ Present(Home(t, shown'[v])) /\ ~Present(Other(t, shown'[v]))
          /\ Home(t, shown'[v]).accum = <<>>
      BY <1>1, <1>2, <1>8, <2>1, <2>2, <2>3, StartShows DEF Untouched
    <3> QED BY <2>4, <3>1 DEF FedIn, Fed, Home, Other
  <2> QED BY <1>2, <2>1, <2>2, <2>5
\* t has its card.
<1>9. CASE ~Has(fromCli, Block(t))
  <2>1. t \in parser.emitted /\ Line \notin Block(t) /\ ~Has(fromCli', Block(t))
    BY <1>2, <1>4, <1>9
  <2>2. ASSUME NEW v \in Views
        PROVE  FedIn(t, shown[v])'
    <3> DEFINE old == Home(t, shown[v])
               new == Home(t, shown'[v])
    <3>1. /\ Present(old) /\ ~Present(Other(t, shown[v])) /\ (old.input = t \/ Due(t, old.accum))
      BY <1>4, <1>9 DEF FedIn, Fed
    <3>2. /\ Present(new) /\ ~Present(Other(t, shown'[v]))
          /\ Line \notin Delta(t) => new.input = old.input /\ new.accum = old.accum
          /\ Line \in Delta(t) => /\ new.accum = Append(old.accum, t)
                                  /\ old.input = t => new.input = t
                                  /\ old.accum = <<t>> => new.input = t
      BY <1>1, <1>2, <2>1, <3>1, FeedShows
    <3> HIDE DEF old, new
    <3>3. new.input = t \/ \E accum : accum = new.accum /\ Due(t, accum)'
      <4>1. CASE Line \notin Delta(t)
        BY <1>5, <3>1, <3>2, <4>1
      <4>2. CASE Line \in Delta(t) /\ (old.input = t \/ old.accum = <<t>>)
        BY <3>2, <4>2
      <4>3. CASE Line \in Delta(t) /\ Due(t, <<>>) /\ old.accum = <<>>
        <5>1. new.accum = <<t>>
          BY <3>2, <4>3
        <5>2. TwoPartsTold(t)' => Has(fromCli', Delta(t))
          BY <1>1, <1>2, <4>3 DEF Due, TwoPartsTold
        <5>3. ASSUME NEW accum, accum = <<t>>
              PROVE  Due(t, accum)'
          BY <5>2, <5>3 DEF Due
        <5> QED BY <5>1, <5>3
      <4> QED BY <3>1, <4>1, <4>2, <4>3 DEF Due
    <3> QED BY <3>2, <3>3 DEF FedIn, Fed, Due, Home, Other, new
  <2> QED BY <1>2, <2>1, <2>2
<1> QED BY <1>2, <1>7, <1>8, <1>9

\* A line that is handled.
LEMMA HandleInput ==
    ASSUME ToolCardsAssumption, TypeInv, InputInv, HandleLine
    PROVE  InputInv'
<1> USE Types
<1>1. /\ UNCHANGED <<cli, ran, toCli, answers>> /\ TakeLine /\ Seen
      /\ parser' = IF IsControl(Line) THEN parser ELSE MapEvent(Line)
      /\ \A v \in Views : shown'[v] = Shows(shown[v], Line) /\ shown[v] \in TheViews
  BY DEF HandleLine, Seen, TakeLine
<1>2. /\ Line \in FromLines
      /\ \A K : Has(fromCli', K) => Has(fromCli, K)
      /\ \A K : Line \in K => Has(fromCli, K)
      /\ \A K : Has(fromCli, K) => Has(fromCli', K) \/ Line \in K
      /\ \A K, L : Before(fromCli, K, L) /\ Line \in L => ~Has(fromCli', K)
      /\ Owned(parser'.last, fromCli') /\ ~Has(fromCli', Misparented)
      /\ Line.kind = "delta" => parser.last = Line.tool
      /\ \A t \in Tools : InOrder(t)' /\ OneAtATime(t)'
  BY <1>1, TakenInput
<1>3. ApprovedInputIsAsked'
  BY <1>1 DEF InputInv, ApprovedInputIsAsked
<1>4. ASSUME NEW t \in Tools
      PROVE  InputOf(t)'
  <2>1. InputOf(t)
    BY DEF InputInv
  <2>2. NotStarted(t)'
    <3> SUFFICES ASSUME cli.stage[t] = "none", NEW v \in Views
                 PROVE  /\ ~Has(fromCli', Block(t) \cup Rest(t))
                        /\ ~Present(shown'[v].main[t]) /\ ~Present(shown'[v].sub[t])
      BY <1>1 DEF NotStarted, Untouched, Views
    <3>1. /\ ~Has(fromCli, Block(t) \cup Rest(t))
          /\ ~Present(shown[v].main[t]) /\ ~Present(shown[v].sub[t])
      BY <2>1 DEF InputOf, NotStarted, Untouched
    <3>2. Line \notin Block(t) \cup Rest(t)
      BY <1>2, <3>1
    <3>3. ~Makes(Line, t)
      BY <1>2, <3>2 DEF Makes, Block, Rest, About
    <3> QED BY <1>1, <1>2, <3>1, <3>3, ShowsPresent
  <2>3. Whole(t)'
    <3> SUFFICES ASSUME ~cli.streams
                 PROVE  /\ cli.stage[t] \notin {"block", "part"}
                        /\ ~Has(fromCli', Block(t) \cup Delta(t))
                        /\ \A v \in Views : WholeIn(t, shown'[v])
      BY <1>1 DEF Whole, WholeIn
    <3>1. \A u \in Tools : ~Has(fromCli, Block(u) \cup Delta(u))
      BY DEF InputInv, InputOf, Whole
    <3>2. Line.kind \notin Parts
      <4>1. Line.kind \in Parts => Line.tool \in Tools
        BY <1>2, LineFields DEF Parts
      <4>2. Line.kind \in Parts => Line \in Block(Line.tool) \cup Delta(Line.tool)
        BY <1>2 DEF Parts, Block, Delta, About
      <4> QED BY <1>2, <3>1, <4>1, <4>2
    <3>3. \A v \in Views : WholeIn(t, shown'[v])
      <4>1. ASSUME NEW v \in Views
            PROVE  WholeIn(t, shown'[v])
        <5>1. WholeIn(t, shown[v])
          BY <2>1 DEF InputOf, Whole
        <5> QED BY <1>1, <1>2, <3>2, <5>1, WholeShows
      <4> QED BY <4>1
    <3> QED BY <1>2, <2>1, <3>1, <3>3 DEF InputOf, Whole
  <2>4. Approved(t)'
    <3> SUFFICES ASSUME cli.stage[t] = "asked", NEW v \in Views
                 PROVE  /\ ~Has(toCli, BadResponses(t))
                        /\ \A a \in answers : a.tool = t /\ a.allow => a.input = t
                        /\ shown'[v].main[t].request => shown'[v].main[t].input = t
                        /\ shown'[v].sub[t].request => shown'[v].sub[t].input = t
      BY <1>1 DEF Approved, Views
    <3>1. /\ ~Has(toCli, BadResponses(t))
          /\ \A a \in answers : a.tool = t /\ a.allow => a.input = t
          /\ shown[v].main[t].request => shown[v].main[t].input = t
          /\ shown[v].sub[t].request => shown[v].sub[t].input = t
      BY <2>1 DEF InputOf, Approved
    <3>2. CASE Line \in About("ask", t)
      <4>1. Line \in Rest(t) /\ Line \notin Block(t) /\ Line \notin Delta(t)
        BY <3>2 DEF Rest, Block, Delta, About
      <4>2. cli.streams => ~Has(fromCli, Block(t)) /\ ~Has(fromCli, Delta(t))
        BY <1>2, <2>1, <3>2, <4>1 DEF InputOf, InOrder
      <4>3. ~cli.streams => ~Has(fromCli, Delta(t))
        BY <2>1 DEF InputOf, Whole, Has
      <4>4. WholeIn(t, shown[v])
        BY <1>1, <2>1, <4>2, <4>3, AskFindsInput
      <4> QED BY <1>1, <1>2, <3>1, <3>2, <4>4, AskShows
    <3>3. CASE Line \notin About("ask", t)
      BY <1>1, <1>2, <3>1, <3>3, ShowsWhole
    <3> QED BY <3>1, <3>2, <3>3
  <2> QED BY <1>2, <2>2, <2>3, <2>4, HandleStreamed DEF InputOf
<1> QED BY <1>2, <1>3, <1>4 DEF InputInv

\* What the actor and its clock do keeps inputs.
LEMMA ActorInput ==
    ASSUME ToolCardsAssumption, TypeInv, WireInv, PromptInv, InputInv, Actor \/ Elapse
    PROVE  InputInv'
<1> USE Types
<1>1. CASE TickInterrupt \/ TickKill \/ Elapse \/ TickHardTimeout \/ Eof
  <2>1. /\ UNCHANGED <<ran, fromCli, parser, answers, shown>> /\ (Seen' => Seen)
        /\ cli'.streams = cli.streams /\ cli'.stage = cli.stage
    BY <1>1 DEF TickInterrupt, TickKill, Elapse, TickHardTimeout, Eof, EnterQuarantine, ActorOnly,
                Seen, Actors, Clis
  <2>2. ASSUME NEW t \in Tools
        PROVE  InputOf(t)'
    <3>1. InputOf(t) /\ PromptOf(t)
      BY DEF InputInv, PromptInv
    <3>2. Has(toCli', BadResponses(t)) => Has(toCli, BadResponses(t))
      <4>1. CASE TickInterrupt
        <5>1. PICK line \in ToLines : line = ToCli("interrupt", NoTool, TRUE, NoTool)
          BY WrittenLines
        <5>2. line \notin BadResponses(t)
          BY <5>1 DEF BadResponses, Responses, ToCli
        <5> QED BY <4>1, <5>1, <5>2, WriteBad DEF TickInterrupt
      <4>2. CASE TickKill
        BY <4>2, Emptied DEF TickKill
      <4>3. CASE Elapse \/ TickHardTimeout \/ Eof
        BY <4>3 DEF Elapse, TickHardTimeout, Eof
      <4> QED BY <1>1, <4>1, <4>2, <4>3
    <3>3. Approved(t)'
      BY <2>1, <3>1, <3>2, ApprovedKept
    <3> QED BY <2>1, <3>1, <3>3, InputStays
  <2> QED BY <2>1, <2>2 DEF InputInv, ApprovedInputIsAsked
<1> QED BY <1>1, HandleInput, SwallowInput DEF Actor

\* The CLI tells no part of an input, and starts no stream.
LEMMA QuietInput ==
    ASSUME ToolCardsAssumption, TypeInv, PromptInv, InputInv, CliOnly, cli'.streams = cli.streams,
           NEW x \in FromLines, x.kind \notin Parts, NEW y \in FromLines, y.kind \notin Parts,
           fromCli' = fromCli \/ Tell(<<x>>) \/ Tell(<<x, y>>),
           ApprovedInputIsAsked',
           \A t \in Tools :
              /\ Has(toCli', BadResponses(t)) => Has(toCli, BadResponses(t))
              /\ cli'.stage[t] = "none" => cli.stage[t] = "none" /\ x \notin Rest(t) /\ y \notin Rest(t)
              /\ cli'.stage[t] \in {"block", "part"} => cli.stage[t] = cli'.stage[t]
              /\ cli'.stage[t] = "asked" => cli.stage[t] \in NotAsked \cup {"asked"}
              /\ cli'.stage[t] \notin {"none", "ended", "block", "part"} /\ cli.streams
                    => cli.stage[t] \notin {"none", "ended", "block", "part"}
    PROVE  InputInv'
<1> USE Types
<1>1. /\ Carries(parser.last, fromCli, fromCli')
      /\ \A t : Has(fromCli', Rest(t)) => Has(fromCli, Rest(t)) \/ x \in Rest(t) \/ y \in Rest(t)
  BY CarriesTold
<1>2. UNCHANGED <<parser, actor, answers, shown>>
  BY DEF CliOnly
<1>3. ASSUME NEW t \in Tools
      PROVE  InputOf(t)'
  <2>1. InputOf(t) /\ PromptOf(t)
    BY DEF InputInv, PromptInv
  <2>2. Approved(t)'
    BY <1>2, <2>1, ApprovedKept
  <2>3. cli'.stage[t] = "none" => /\ cli.stage[t] = "none"
                                  /\ Has(fromCli', Rest(t)) => Has(fromCli, Rest(t))
    BY <1>1
  <2>4. cli'.stage[t] \in {"block", "part"} => cli.stage[t] = cli'.stage[t]
    OBVIOUS
  <2>5. cli.streams /\ Seen' /\ Going(t)'
          => /\ Seen /\ Going(t) /\ (OnePartTold(t)' => OnePartTold(t))
             /\ TwoPartsTold(t)' => TwoPartsTold(t)
    BY <1>2 DEF Seen, Going, OnePartTold, TwoPartsTold
  <2> QED BY <1>1, <1>2, <2>1, <2>2, <2>3, <2>4, <2>5, InputKept
<1>4. Owned(parser'.last, fromCli') /\ ~Has(fromCli', Misparented)
  BY <1>1, <1>2 DEF InputInv, Carries
<1> QED BY <1>3, <1>4 DEF InputInv

\* A tool goes to another stage after its input was told, or without one.
LEMMA StageInput ==
    ASSUME ToolCardsAssumption, TypeInv, PromptInv, InputInv, CliOnly,
           NEW t \in Tools, NEW stage \in {"announced", "asked", "running", "refused", "ended"},
           ToStage(t, stage),
           cli.stage[t] \notin {"block", "part", "ended"}, cli.streams => cli.stage[t] # "none",
           stage = "asked" => cli.stage[t] \in NotAsked,
           NEW x \in FromLines, x.kind \notin Parts, x.tool = t,
           NEW y \in FromLines, y.kind \notin Parts, y.tool = t,
           fromCli' = fromCli \/ Tell(<<x>>) \/ Tell(<<x, y>>),
           ApprovedInputIsAsked',
           \A u \in Tools : Has(toCli', BadResponses(u)) => Has(toCli, BadResponses(u))
    PROVE  InputInv'
<1>1. cli \in Clis
  BY Types
<1>2. /\ cli'.streams = cli.streams
      /\ \A u \in Tools : cli'.stage[u] = IF u = t THEN stage ELSE cli.stage[u]
  BY <1>1 DEF ToStage, Clis
<1>3. \A u \in Tools : u # t => x \notin Rest(u) /\ y \notin Rest(u)
  BY DEF Rest
<1>4. ASSUME NEW u \in Tools
      PROVE  /\ cli'.stage[u] = "none" => cli.stage[u] = "none" /\ x \notin Rest(u) /\ y \notin Rest(u)
             /\ cli'.stage[u] \in {"block", "part"} => cli.stage[u] = cli'.stage[u]
             /\ cli'.stage[u] = "asked" => cli.stage[u] \in NotAsked \cup {"asked"}
             /\ cli'.stage[u] \notin {"none", "ended", "block", "part"} /\ cli.streams
                  => cli.stage[u] \notin {"none", "ended", "block", "part"}
  <2>1. CASE u = t
    BY <1>2, <2>1
  <2>2. CASE u # t
    BY <1>2, <1>3, <2>2
  <2> QED BY <2>1, <2>2
<1> QED BY <1>2, <1>4, QuietInput

\* A tool announces itself, asks, runs or ends.
LEMMA ToolInput ==
    ASSUME ToolCardsAssumption, TypeInv, PromptInv, InputInv, NEW t \in Tools,
           Announce(t) \/ Ask(t) \/ Run(t) \/ Withdraw(t) \/ EndTool(t)
    PROVE  InputInv'
<1>1. Parent[t] \in Inputs /\ Top \in Inputs
  BY ToldLines
<1>2. CliOnly /\ UNCHANGED toCli
  BY DEF Announce, Ask, Run, Withdraw, EndTool
<1>3. \A kind \in {"assistant", "ask", "cancel", "toolResult"}, parent \in Inputs, ok \in BOOLEAN :
         /\ FromCli(kind, t, parent) \in FromLines
         /\ FromCli(kind, t, parent).kind \notin Parts /\ FromCli(kind, t, parent).tool = t
         /\ [FromCli(kind, t, parent) EXCEPT !.ok = ok] \in FromLines
         /\ [FromCli(kind, t, parent) EXCEPT !.ok = ok].kind \notin Parts
         /\ [FromCli(kind, t, parent) EXCEPT !.ok = ok].tool = t
  BY ToolLine DEF Parts
<1>4. ApprovedInputIsAsked
  BY DEF InputInv
<1>5. CASE Announce(t)
  <2>1. /\ ToStage(t, "announced") /\ Tell(<<FromCli("assistant", t, Parent[t])>>)
        /\ UNCHANGED ran
        /\ IF cli.streams THEN cli.stage[t] = "whole" ELSE cli.stage[t] = "none"
    BY <1>5 DEF Announce, MayStart
  <2> QED BY <1>1, <1>2, <1>3, <1>4, <2>1, StageInput DEF ApprovedInputIsAsked
<1>6. CASE Ask(t)
  <2>1. PICK parent \in {Parent[t], Top} :
           /\ \/ cli.stage[t] = "announced" /\ Tell(<<FromCli("ask", t, parent)>>)
              \/ /\ ~cli.streams /\ cli.stage[t] = "none"
                 /\ Tell(<<FromCli("ask", t, parent), FromCli("assistant", t, Parent[t])>>)
           /\ ToStage(t, "asked") /\ UNCHANGED ran
    BY <1>6 DEF Ask, MayStart
  <2>2. PICK x \in FromLines : /\ x.kind \notin Parts /\ x.tool = t
                               /\ x = FromCli("ask", t, parent)
    BY <1>1, <1>3
  <2>3. PICK y \in FromLines : /\ y.kind \notin Parts /\ y.tool = t
                               /\ y = FromCli("assistant", t, Parent[t])
    BY <1>1, <1>3
  <2>4. Tell(<<x>>) \/ Tell(<<x, y>>)
    BY <2>1, <2>2, <2>3
  <2>5. /\ cli.stage[t] \notin {"block", "part", "ended"} /\ (cli.streams => cli.stage[t] # "none")
        /\ cli.stage[t] \in NotAsked
    BY <2>1 DEF NotAsked
  <2>6. ApprovedInputIsAsked'
    BY <1>4, <2>1 DEF ApprovedInputIsAsked
  <2> QED BY <1>2, <2>1, <2>2, <2>3, <2>4, <2>5, <2>6, StageInput
<1>7. CASE Run(t)
  <2>1. /\ ToStage(t, "running") /\ UNCHANGED fromCli /\ cli.stage[t] = "announced"
        /\ ran' = ran \cup {[tool |-> t, input |-> t]}
    BY <1>7 DEF Run
  <2>2. ApprovedInputIsAsked'
    BY <1>4, <2>1 DEF ApprovedInputIsAsked
  <2> QED BY <1>1, <1>2, <1>3, <2>1, <2>2, StageInput
<1>8. CASE Withdraw(t)
  <2>1. /\ ToStage(t, "refused") /\ Tell(<<FromCli("cancel", t, Top)>>) /\ cli.stage[t] = "asked"
        /\ UNCHANGED ran
    BY <1>8 DEF Withdraw
  <2> QED BY <1>1, <1>2, <1>3, <1>4, <2>1, StageInput DEF ApprovedInputIsAsked
<1>9. CASE EndTool(t)
  <2>1. PICK ok \in BOOLEAN : Tell(<<[FromCli("toolResult", t, Parent[t]) EXCEPT !.ok = ok]>>)
    BY <1>9 DEF EndTool
  <2>2. ToStage(t, "ended") /\ cli.stage[t] \in {"refused", "running"} /\ UNCHANGED ran
    BY <1>9 DEF EndTool
  <2>3. PICK x \in FromLines : x.kind \notin Parts /\ x.tool = t /\ Tell(<<x>>)
    BY <1>1, <1>3, <2>1
  <2>4. ApprovedInputIsAsked'
    BY <1>4, <2>2 DEF ApprovedInputIsAsked
  <2> QED BY <1>2, <2>2, <2>3, <2>4, StageInput
<1> QED BY <1>5, <1>6, <1>7, <1>8, <1>9

\* What a start or a part of another tool, x, leaves of the input of t.
LEMMA OtherInput ==
    ASSUME ToolCardsAssumption, TypeInv, NEW t \in Tools, InputOf(t),
           NEW x \in FromLines, x \notin Block(t), x \notin Rest(t), Tell(<<x>>),
           UNCHANGED <<parser, actor, shown>>,
           cli'.streams, cli.streams, cli'.stage[t] = cli.stage[t],
           x.kind = "block" => cli.stage[t] \notin {"block", "part"},
           Has(fromCli, Block(t)) /\ ParentFirst(t) => ParentFirst(t)', Approved(t)'
    PROVE  InputOf(t)'
<1> USE Types
<1>1. fromCli' = Append(fromCli, x)
  BY Concat DEF Tell
<1>2. x \notin Delta(t) /\ x \notin About("ask", t)
  BY DEF Delta, Rest, About
<1>3. /\ \A L : Has(fromCli', L) <=> Has(fromCli, L) \/ x \in L
      /\ \A L : Once(fromCli, L) /\ (x \in L => ~Has(fromCli, L)) => Once(fromCli', L)
      /\ \A K, L : Before(fromCli, K, L) /\ (x \in K => ~Has(fromCli, L) /\ x \notin L)
                      => Before(fromCli', K, L)
      /\ \A L : Twice(fromCli, L) => Twice(fromCli', L)
  BY <1>1, Appended, TwiceTold
<1>4. NotStarted(t)'
  <2>1. Untouched(t) => Untouched(t)'
    BY DEF Untouched
  <2> QED BY <1>3, <2>1 DEF InputOf, NotStarted
<1>5. InOrder(t)'
  BY <1>2, <1>3 DEF InputOf, InOrder
<1>6. OneAtATime(t)'
  BY <1>1, OwnedTold DEF InputOf, OneAtATime
<1>7. Streamed(t)'
  <2>1. \A accum : Due(t, accum) => Due(t, accum)'
    BY <1>3 DEF Due, OnePartTold, TwoPartsTold
  <2>2. Untouched(t) => Untouched(t)'
    BY DEF Untouched
  <2>3. \A card, other : Fed(t, card, other) => Fed(t, card, other)'
    BY <2>1 DEF Fed
  <2>4. \A v \in Views : FedIn(t, shown[v]) => FedIn(t, shown[v])'
    BY <2>3 DEF FedIn, Home, Other
  <2>5. Has(fromCli', Block(t)) <=> Has(fromCli, Block(t))
    BY <1>3
  <2>6. Seen' = Seen /\ Going(t)' = Going(t)
    BY DEF Seen, Going
  <2> QED BY <2>1, <2>2, <2>4, <2>5, <2>6 DEF InputOf, Streamed
<1>8. Whole(t)'
  BY DEF Whole
<1> QED BY <1>4, <1>5, <1>6, <1>7, <1>8 DEF InputOf

\* The start of a stream, when no other is under way.
LEMMA BlockInput ==
    ASSUME ToolCardsAssumption, ~MayInterleave, TypeInv, PromptInv, InputInv,
           NEW u \in Tools, StreamBlock(u)
    PROVE  InputInv'
<1> USE Types
<1>1. /\ cli.streams /\ cli.stage[u] = "none" /\ Streaming = {}
      /\ Parent[u] # Top => cli.stage[Parent[u]] = "running"
      /\ ToStage(u, "block") /\ Tell(<<FromCli("block", u, Parent[u])>>)
      /\ UNCHANGED <<ran, toCli>> /\ CliOnly
  BY DEF StreamBlock, MayStart
<1>2. /\ cli'.streams /\ cli'.stage[u] = "block"
      /\ \A t \in Tools : t # u => cli'.stage[t] = cli.stage[t]
  BY <1>1 DEF ToStage, Clis
<1>3. PICK x \in FromLines : x = FromCli("block", u, Parent[u]) /\ x.kind = "block" /\ x.tool = u
  BY ToldLines, ToolLine
<1>4. /\ Tell(<<x>>) /\ x.parent = Parent[u] /\ fromCli' = Append(fromCli, x)
      /\ UNCHANGED <<parser, actor, answers, shown>>
  BY <1>1, <1>3, Concat DEF FromCli, Tell, CliOnly
<1>5. /\ \A L : Has(fromCli', L) <=> Has(fromCli, L) \/ x \in L
      /\ \A L : Once(fromCli, L) /\ (x \in L => ~Has(fromCli, L)) => Once(fromCli', L)
      /\ \A K, L : Before(fromCli, K, L) /\ (x \in K => ~Has(fromCli, L) /\ x \notin L)
                      => Before(fromCli', K, L)
  BY <1>4, Appended
<1>6. x \in Block(u) /\ x \notin Rest(u) /\ x \notin Delta(u) /\ x \notin Misparented
  BY <1>3, <1>4 DEF Block, Rest, Delta, About, Misparented
<1>7. InputOf(u) /\ PromptOf(u) /\ ~Has(fromCli, Block(u)) /\ ~Has(fromCli, Rest(u)) /\ Untouched(u)
  <2>1. \A K, L, s : Has(s, K \cup L) <=> Has(s, K) \/ Has(s, L)
    BY DEF Has
  <2> QED BY <1>1, <2>1 DEF InputInv, PromptInv, InputOf, NotStarted
<1>8. \A t \in Tools : Approved(t)'
  <2> SUFFICES ASSUME NEW t \in Tools PROVE Approved(t)'
    OBVIOUS
  <2>1. cli'.stage[t] = "asked" => cli.stage[t] = "asked"
    BY <1>2
  <2> QED BY <1>1, <1>4, <2>1, ApprovedKept DEF InputInv, PromptInv
<1>9. ASSUME NEW t \in Tools, t # u
      PROVE  InputOf(t)'
  <2>1. x \notin Block(t) /\ x \notin Rest(t)
    BY <1>3, <1>9 DEF Block, Rest, About
  <2>2. cli.stage[t] \notin {"block", "part"}
    BY <1>1 DEF Streaming
  <2>3. Has(fromCli, Block(t)) /\ ParentFirst(t) => ParentFirst(t)'
    <3>1. CASE Parent[t] = u
      <4>1. Log \in Views /\ u # Top
        BY DEF Views, ToolCardsAssumption
      <4>2. ~ParentFirst(t)
        BY <1>7, <3>1, <4>1 DEF ParentFirst, Untouched
      <4> QED BY <4>2
    <3>2. CASE Parent[t] # u
      <4>1. x \notin Block(Parent[t])
        BY <1>3, <3>2 DEF Block, About
      <4> QED BY <1>4, <1>5, <4>1 DEF ParentFirst
    <3> QED BY <3>1, <3>2
  <2>4. InputOf(t)
    BY DEF InputInv
  <2> QED BY <1>1, <1>2, <1>4, <1>8, <1>9, <2>1, <2>2, <2>3, <2>4, OtherInput
<1>10. InputOf(u)'
  <2>1. NotStarted(u)' /\ Whole(u)'
    BY <1>2 DEF NotStarted, Whole
  <2>2. InOrder(u)'
    <3>1. Before(fromCli, Block(u), Rest(u)) /\ Before(fromCli, Delta(u), About("ask", u))
          /\ Once(fromCli, Block(u))
      BY <1>1, <1>7 DEF InputOf, InOrder
    <3> QED BY <1>5, <1>6, <1>7, <3>1 DEF InOrder
  <2>3. OneAtATime(u)'
    BY <1>3, <1>4, OwnedTold DEF OneAtATime
  <2>4. Streamed(u)'
    <3> SUFFICES ASSUME Seen'
                 PROVE  Untouched(u)' /\ Due(u, <<>>)' /\ ParentFirst(u)'
      BY <1>5, <1>6 DEF Streamed
    <3>1. Seen
      BY <1>4 DEF Seen
    <3>2. Untouched(u)' /\ Due(u, <<>>)'
      BY <1>2, <1>4, <1>7 DEF Untouched, Due, OnePartTold, TwoPartsTold
    <3>3. ParentFirst(u)'
      <4> SUFFICES ASSUME Parent[u] # Top
                   PROVE  \/ \A v \in Views : Present(shown[v].main[Parent[u]])
                          \/ /\ Has(fromCli', Block(Parent[u]))
                             /\ Before(fromCli', Block(Parent[u]), Block(u))
        BY <1>4 DEF ParentFirst
      <4>1. Parent[u] \in Tools /\ Parent[u] # u /\ Parent[Parent[u]] = Top
        BY DEF ToolCardsAssumption
      <4>2. Streamed(Parent[u]) /\ Going(Parent[u])
        BY <1>1, <4>1 DEF InputInv, InputOf, Going
      <4>3. CASE Has(fromCli, Block(Parent[u]))
        <5>1. x \notin Block(Parent[u])
          BY <1>3, <4>1 DEF Block, About
        <5>2. Before(fromCli, Block(Parent[u]), Block(u))
          BY <1>7, BeforeNone
        <5> QED BY <1>5, <4>3, <5>1, <5>2
      <4>4. CASE ~Has(fromCli, Block(Parent[u]))
        <5>1. \A v \in Views : FedIn(Parent[u], shown[v])
          BY <1>1, <3>1, <4>2, <4>4 DEF Streamed
        <5> QED BY <4>1, <5>1 DEF FedIn, Fed, Home
      <4> QED BY <4>3, <4>4
    <3> QED BY <3>2, <3>3
  <2> QED BY <1>8, <2>1, <2>2, <2>3, <2>4 DEF InputOf
<1>11. Owned(parser'.last, fromCli') /\ ~Has(fromCli', Misparented)
  BY <1>3, <1>4, <1>5, <1>6, OwnedTold DEF InputInv
<1> QED BY <1>1, <1>9, <1>10, <1>11 DEF InputInv, ApprovedInputIsAsked

\* A part of the input of the tool that started last.
LEMMA PartInput ==
    ASSUME ToolCardsAssumption, TypeInv, PromptInv, InputInv, NEW u \in Tools, StreamPart(u)
    PROVE  InputInv'
<1> USE Types
<1>1. /\ cli.stage[u] \in {"block", "part"}
      /\ ToStage(u, IF cli.stage[u] = "block" THEN "part" ELSE "whole")
      /\ Tell(<<FromCli("delta", u, Parent[u])>>)
      /\ UNCHANGED <<ran, toCli>> /\ CliOnly
  BY DEF StreamPart
<1>2. /\ cli'.streams = cli.streams
      /\ cli'.stage[u] = IF cli.stage[u] = "block" THEN "part" ELSE "whole"
      /\ \A t \in Tools : t # u => cli'.stage[t] = cli.stage[t]
  BY <1>1 DEF ToStage, Clis
<1>3. PICK x \in FromLines : x = FromCli("delta", u, Parent[u]) /\ x.kind = "delta" /\ x.tool = u
  BY ToldLines, ToolLine
<1>4. /\ Tell(<<x>>) /\ x.parent = Parent[u] /\ fromCli' = Append(fromCli, x)
      /\ UNCHANGED <<parser, actor, answers, shown>>
  BY <1>1, <1>3, Concat DEF FromCli, Tell, CliOnly
<1>5. /\ \A L : Has(fromCli', L) <=> Has(fromCli, L) \/ x \in L
      /\ \A L : Once(fromCli, L) /\ (x \in L => ~Has(fromCli, L)) => Once(fromCli', L)
      /\ \A K, L : Before(fromCli, K, L) /\ (x \in K => ~Has(fromCli, L) /\ x \notin L)
                      => Before(fromCli', K, L)
      /\ \A L : Twice(fromCli, L) => Twice(fromCli', L)
      /\ \A L : Has(fromCli, L) /\ x \in L => Twice(fromCli', L)
  BY <1>4, Appended, TwiceTold
<1>6. /\ \A t : x \notin Block(t) /\ x \notin About("ask", t)
      /\ x \in Delta(u) /\ x \notin Misparented
  BY <1>3, <1>4 DEF Block, Delta, About, Misparented
<1>7. InputOf(u) /\ PromptOf(u) /\ cli.streams /\ Current(parser.last, fromCli, u)
  BY <1>1 DEF InputInv, PromptInv, InputOf, Whole, OneAtATime
<1>8. \A t \in Tools : Approved(t)'
  <2> SUFFICES ASSUME NEW t \in Tools PROVE Approved(t)'
    OBVIOUS
  <2>1. cli'.stage[t] = "asked" => cli.stage[t] = "asked"
    BY <1>2
  <2> QED BY <1>1, <1>4, <2>1, ApprovedKept DEF InputInv, PromptInv
<1>9. ASSUME NEW t \in Tools
      PROVE  ParentFirst(t) => ParentFirst(t)'
  BY <1>4, <1>5, <1>6 DEF ParentFirst
<1>10. ASSUME NEW t \in Tools, t # u
       PROVE  InputOf(t)'
  <2>1. x \notin Rest(t)
    BY <1>3, <1>10 DEF Rest
  <2>2. InputOf(t)
    BY DEF InputInv
  <2> QED BY <1>2, <1>3, <1>4, <1>6, <1>7, <1>8, <1>9, <1>10, <2>1, <2>2, OtherInput
<1>11. InputOf(u)'
  <2>1. NotStarted(u)' /\ Whole(u)'
    BY <1>2, <1>7 DEF NotStarted, Whole
  <2>2. InOrder(u)'
    <3>1. ~Has(fromCli, About("ask", u))
      BY <1>1, <1>7 DEF PromptOf, NoPromptYet, NotAsked
    <3> QED BY <1>5, <1>6, <1>7, <3>1 DEF InputOf, InOrder
  <2>3. OneAtATime(u)'
    BY <1>3, <1>4, <1>7, OwnedTold DEF OneAtATime
  <2>4. Streamed(u)'
    <3> SUFFICES ASSUME Seen'
                 PROVE  IF Has(fromCli', Block(u))
                        THEN Untouched(u)' /\ Due(u, <<>>)' /\ ParentFirst(u)'
                        ELSE u \in parser'.emitted /\ \A v \in Views : FedIn(u, shown[v])'
      BY DEF Streamed
    <3>1. /\ IF Has(fromCli, Block(u)) THEN Untouched(u) /\ Due(u, <<>>) /\ ParentFirst(u)
             ELSE u \in parser.emitted /\ \A v \in Views : FedIn(u, shown[v])
          /\ Has(fromCli', Block(u)) <=> Has(fromCli, Block(u))
      BY <1>1, <1>4, <1>5, <1>6, <1>7 DEF InputOf, Streamed, Seen, Going
    <3>2. \A accum : Due(u, accum) => Due(u, accum)'
      BY <1>1, <1>2, <1>5, <1>6 DEF Due, OnePartTold, TwoPartsTold
    <3>3. \A card, other : Fed(u, card, other) => Fed(u, card, other)'
      BY <3>2 DEF Fed
    <3>4. \A v \in Views : FedIn(u, shown[v]) => FedIn(u, shown[v])'
      BY <1>4, <3>3 DEF FedIn, Home, Other
    <3>5. Untouched(u) => Untouched(u)'
      BY <1>4 DEF Untouched
    <3> QED BY <1>4, <1>9, <3>1, <3>2, <3>4, <3>5
  <2> QED BY <1>8, <2>1, <2>2, <2>3, <2>4 DEF InputOf
<1>12. Owned(parser'.last, fromCli') /\ ~Has(fromCli', Misparented)
  BY <1>3, <1>4, <1>5, <1>6, <1>7, OwnedTold DEF InputInv
<1> QED BY <1>1, <1>10, <1>11, <1>12 DEF InputInv, ApprovedInputIsAsked

\* The CLI.
LEMMA CliInput ==
    ASSUME ToolCardsAssumption, ~MayInterleave, TypeInv, PromptInv, InputInv, Cli
    PROVE  InputInv'
<1> USE Types
<1>1. Result \in FromLines /\ Result.kind \notin Parts /\ \A t : Result \notin Rest(t)
  BY ToldLines DEF Result, FromCli, Parts, Rest
<1>2. Idled.stage = cli.stage /\ Idled.streams = cli.streams /\ Idled \in Clis
  BY DEF Idled, Clis
<1>3. ASSUME NEW kind, Takes(kind), NEW t \in Tools
      PROVE  Has(toCli', BadResponses(t)) => Has(toCli, BadResponses(t))
  BY <1>3, Taken DEF Takes
<1>4. ApprovedInputIsAsked
  BY DEF InputInv
\* The stages and the lines of the CLI stay, or a result is told.
<1>5. ASSUME CliOnly, UNCHANGED ran, cli'.streams = cli.streams, cli'.stage = cli.stage,
             fromCli' = fromCli \/ Tell(<<Result>>),
             \A t \in Tools : Has(toCli', BadResponses(t)) => Has(toCli, BadResponses(t))
      PROVE  InputInv'
  <2>1. ApprovedInputIsAsked'
    BY <1>4, <1>5 DEF ApprovedInputIsAsked
  <2>2. \A t \in Tools : cli'.stage[t] = cli.stage[t]
    BY <1>5
  <2> QED BY <1>1, <1>5, <2>1, <2>2, QuietInput
<1>6. CASE Finish
  <2>1. cli'.streams = cli.streams /\ cli'.stage = cli.stage
    BY <1>2, <1>6 DEF Finish
  <2> QED BY <1>5, <1>6, <2>1 DEF Finish
<1>7. CASE TakeTurn
  <2>1. cli'.streams = cli.streams /\ cli'.stage = cli.stage
    BY <1>7 DEF TakeTurn, Clis
  <2> QED BY <1>3, <1>5, <1>7, <2>1 DEF TakeTurn
<1>8. CASE Exits
  <2>1. cli'.streams = cli.streams /\ cli'.stage = cli.stage
    BY <1>8 DEF Exits, Clis
  <2>2. \A t \in Tools : ~Has(toCli', BadResponses(t))
    BY <1>8, Emptied DEF Exits
  <2> QED BY <1>5, <1>8, <2>1, <2>2 DEF Exits
<1>9. CASE TakeInterrupt
  <2>1. CliOnly /\ UNCHANGED ran /\ Takes("interrupt")
    BY <1>9 DEF TakeInterrupt
  <2>2. CASE ~cli.busy
    BY <1>3, <1>5, <1>9, <2>1, <2>2 DEF TakeInterrupt
  <2>3. CASE cli.busy
    <3>1. /\ cli'.streams = cli.streams
          /\ \A t \in Tools : cli'.stage[t] = IF cli.stage[t] = "none" THEN "none" ELSE "ended"
      <4>1. cli' = [Idled EXCEPT !.stage = [u \in Tools |-> IF @[u] = "none" THEN "none" ELSE "ended"]]
        BY <1>9, <2>3 DEF TakeInterrupt
      <4> HIDE DEF Idled
      <4> QED BY <1>2, <4>1 DEF Clis
    <3>2. PICK x \in FromLines :
             /\ x.kind \notin Parts /\ \A t : x \notin Rest(t)
             /\ Tell(<<x>>) \/ Tell(<<x, Result>>)
      <4>1. CASE Tell(<<Result>>)
        BY <1>1, <4>1
      <4>2. ASSUME NEW u \in Tools, Tell(<<FromCli("cancel", u, Top), Result>>)
            PROVE  \E x \in FromLines : /\ x.kind \notin Parts /\ \A t : x \notin Rest(t)
                                        /\ Tell(<<x, Result>>)
        <5>1. /\ FromCli("cancel", u, Top) \in FromLines
              /\ FromCli("cancel", u, Top).kind = "cancel"
          BY ToldLines DEF FromCli
        <5> QED BY <4>2, <5>1 DEF Parts, Rest
      <4> QED BY <1>9, <2>3, <4>1, <4>2 DEF TakeInterrupt
    <3>3. ApprovedInputIsAsked'
      BY <1>4, <2>1 DEF ApprovedInputIsAsked
    <3>4. ASSUME NEW t \in Tools
          PROVE  /\ cli'.stage[t] = "none" => cli.stage[t] = "none"
                 /\ cli'.stage[t] \in {"none", "ended"}
      BY <3>1
    <3> QED BY <1>1, <1>3, <2>1, <3>1, <3>2, <3>3, <3>4, QuietInput
  <2> QED BY <2>2, <2>3
<1>10. CASE TakeResponse
  <2>1. UNCHANGED fromCli /\ Takes("response") /\ CliOnly
    BY <1>10 DEF TakeResponse
  <2>2. /\ toCli # <<>> /\ Head(toCli) \in ToLines /\ Head(toCli).kind = "response"
        /\ Head(toCli).tool \in Tools
    BY <2>1 DEF Takes, ToLines
  <2>3. PICK line \in ToLines : line = Head(toCli) /\ line.tool \in Tools
    BY <2>2
  <2>4. CASE cli.stage[line.tool] # "asked"
    <3>1. cli' = cli /\ ran' = ran
      BY <1>10, <2>3, <2>4 DEF TakeResponse
    <3> QED BY <1>3, <1>5, <2>1, <3>1
  <2>5. CASE cli.stage[line.tool] = "asked"
    <3>1. /\ cli'.streams = cli.streams
          /\ cli'.stage[line.tool] \in {"running", "refused"}
          /\ \A t \in Tools : t # line.tool => cli'.stage[t] = cli.stage[t]
      <4>1. CASE cli' = [cli EXCEPT !.stage[line.tool] = "refused", !.denied = @ \cup {line.tool}]
        BY <2>3, <4>1 DEF Clis
      <4>2. CASE ToStage(line.tool, "running")
        BY <2>3, <4>2 DEF ToStage, Clis
      <4> QED BY <1>10, <2>3, <2>5, <4>1, <4>2 DEF TakeResponse
    <3>2. line.allow => line.input = line.tool
      <4>1. Has(toCli, {line})
        BY <2>2, <2>3, Taken
      <4>2. Approved(line.tool)
        BY <2>3 DEF InputInv, InputOf
      <4>3. line \notin BadResponses(line.tool)
        BY <2>5, <4>1, <4>2 DEF Approved, Has
      <4> QED BY <2>2, <2>3, <4>3 DEF BadResponses, Responses
    <3>3. ApprovedInputIsAsked'
      <4>1. ran' = ran \/ (line.allow /\ ran' = ran \cup {[tool |-> line.tool, input |-> line.input]})
        BY <1>10, <2>3, <2>5 DEF TakeResponse
      <4> QED BY <1>4, <3>2, <4>1 DEF ApprovedInputIsAsked
    <3>4. ASSUME NEW t \in Tools
          PROVE  /\ cli'.stage[t] = "none" => cli.stage[t] = "none"
                 /\ cli'.stage[t] \in {"block", "part"} => cli.stage[t] = cli'.stage[t]
                 /\ cli'.stage[t] = "asked" => cli.stage[t] \in NotAsked \cup {"asked"}
                 /\ cli'.stage[t] \notin {"none", "ended", "block", "part"} /\ cli.streams
                      => cli.stage[t] \notin {"none", "ended", "block", "part"}
      <4>1. CASE t = line.tool
        BY <2>5, <3>1, <4>1
      <4>2. CASE t # line.tool
        BY <3>1, <4>2
      <4> QED BY <4>1, <4>2
    <3> QED BY <1>1, <1>3, <2>1, <3>1, <3>3, <3>4, QuietInput
  <2> QED BY <2>4, <2>5
<1> QED BY <1>6, <1>7, <1>8, <1>9, <1>10, ToolInput, BlockInput, PartInput DEF Cli

\* Nothing has started at the start.
LEMMA InitInput == ToolCardsAssumption /\ Init => InputInv
<1> SUFFICES ASSUME ToolCardsAssumption, Init PROVE InputInv
  OBVIOUS
<1>1. /\ fromCli = <<>> /\ toCli = <<>> /\ answers = {} /\ ran = {}
      /\ \A t \in Tools : cli.stage[t] = "none"
      /\ \A v \in Views, t \in Tools : shown[v].main[t] = NoCard /\ shown[v].sub[t] = NoCard
  BY DEF Init, EmptyView
<1>2. ~NoCard.request /\ ~Present(NoCard)
  BY DEF NoCard, Present
<1>3. Owned(parser.last, fromCli)
  BY <1>1 DEF Owned
<1>4. ASSUME NEW t \in Tools
      PROVE  InputOf(t)
  BY <1>1, <1>2, Emptied DEF InputOf, NotStarted, Untouched, InOrder, OneAtATime, Streamed, Going,
                            Approved, Whole, WholeIn
<1> QED BY <1>1, <1>3, <1>4, Emptied DEF InputInv, ApprovedInputIsAsked

\* Every step keeps inputs, if they are streamed one at a time.
LEMMA NextInput ==
    ToolCardsAssumption /\ ~MayInterleave /\ TypeInv /\ WireInv /\ PromptInv /\ InputInv
      /\ [Next]_vars => InputInv'
<1> SUFFICES ASSUME ToolCardsAssumption, ~MayInterleave, TypeInv, WireInv, PromptInv, InputInv,
                    [Next]_vars
             PROVE  InputInv'
  OBVIOUS
<1>1. ASSUME \/ SendMessage \/ Interrupt
             \/ \E b \in Browsers, t \in Tools : Click(b, t)
             \/ \E a \in answers : RespondPermission(a) \/ ShowAnswer(a)
             \/ \E b \in Browsers : Reload(b)
      PROVE  InputInv'
  <2>1. UNCHANGED <<ran, fromCli, parser>>
    BY <1>1 DEF SendMessage, Interrupt, Click, RespondPermission, ShowAnswer, Reload
  <2>2. \A t \in Tools : InputOf(t)'
    BY <1>1, BrowserInput DEF InputInv, PromptInv
  <2> QED BY <2>1, <2>2 DEF InputInv, ApprovedInputIsAsked
<1>2. ASSUME UNCHANGED vars
      PROVE  InputInv'
  <2>1. ASSUME NEW t \in Tools
        PROVE  InputOf(t)'
    <3>1. InputOf(t) /\ Seen' = Seen /\ UNCHANGED <<cli, toCli, fromCli, shown, parser, answers>>
      BY <1>2 DEF InputInv, vars, Seen
    <3>2. Approved(t)'
      BY <3>1 DEF InputOf, Approved
    <3> QED BY <3>1, <3>2, InputStays
  <2> QED BY <1>2, <2>1 DEF InputInv, ApprovedInputIsAsked, vars
<1> QED BY <1>1, <1>2, ActorInput, CliInput DEF Next

\* A tool runs with the input it was announced with, unless the CLI streams the inputs of several
\* tools at once: a part belongs to the tool that started last, an input is put together on the
\* one card of its tool before the prompt comes, and an approval sends back what that card shows.
THEOREM ApprovedInputIsRun ==
    ASSUME ~MayInterleave
    PROVE  Spec => []ApprovedInputIsAsked
<1>1. Init => InputInv
  BY InitInput, ToolCardsAssumption
<1>2. Init => PromptInv
  BY InitPrompt
<1>3. (TypeInv /\ WireInv /\ DeadInv) /\ PromptInv /\ [Next]_vars => PromptInv'
  BY NextPrompt
<1>4. (TypeInv /\ WireInv /\ DeadInv) /\ PromptInv /\ InputInv /\ [Next]_vars => InputInv'
  BY NextInput, ToolCardsAssumption
<1>5. InputInv => ApprovedInputIsAsked
  BY DEF InputInv
<1> QED BY <1>1, <1>2, <1>3, <1>4, <1>5, TurnsAndCards, PTL DEF Spec
=============================================================================
