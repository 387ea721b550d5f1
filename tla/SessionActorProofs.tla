------------------------- MODULE SessionActorProofs -------------------------
(***************************************************************************)
(* What holds of the session actor for every set of messages, both         *)
(* transports, every Ralph limit and every bound: type correctness, the    *)
(* bookkeeping of the Ralph loop, that the actor implements TicketQueue,   *)
(* and what it and its CLI agree on: one turn on the wire, the index of a  *)
(* turn, the status a run ends with, and the prompts of a Ralph loop.      *)
(***************************************************************************)
EXTENDS SessionActor, TLAPS

-----------------------------------------------------------------------------
(* Types of the helpers *)

\* A queue, a pipe or the log stays a sequence of its elements when one is added.
LEMMA AppendType ==
    ASSUME NEW S, NEW s \in Seq(S), NEW x \in S
    PROVE  Append(s, x) \in Seq(S)
OBVIOUS

\* The same when its oldest element is taken.
LEMMA TailType ==
    ASSUME NEW S, NEW s \in Seq(S), s # <<>>
    PROVE  Tail(s) \in Seq(S) /\ Head(s) \in S
OBVIOUS

\* Every transition of the Ralph loop yields a loop record again.
LEMMA RalphTypes ==
    ASSUME NEW r \in RalphLoops
    PROVE  /\ RalphFailure(r) \in RalphLoops
           /\ RalphTurnFailed(r) \in RalphLoops
           /\ RalphTurnOk(r) \in RalphLoops
           /\ ResumeRalph(r) \in RalphLoops
           /\ PauseRalph(r) \in RalphLoops
           /\ RestartedRalph(r) \in RalphLoops
<1> USE DEF RalphLoops, Phases, Reasons, Deadlines, EmitRalphComplete
<1>1. RalphFailure(r) \in RalphLoops
  <2> DEFINE f == [r EXCEPT !.failures = @ + 1]
  <2>1. f \in RalphLoops
    OBVIOUS
  <2>2. /\ EmitRalphComplete(f, "FailStopped") \in RalphLoops
        /\ [f EXCEPT !.phase = "WaitingRetry", !.retry = "armed"] \in RalphLoops
    <3> HIDE DEF f
    <3> QED BY <2>1
  <2> QED
    BY <2>2 DEF RalphFailure
<1>2. EmitRalphComplete(r, "Cancelled") \in RalphLoops
  OBVIOUS
<1>3. RalphTurnFailed(r) \in RalphLoops
  BY <1>1, <1>2 DEF RalphTurnFailed
<1>4. RalphTurnOk(r) \in RalphLoops
  <2> DEFINE i == [r EXCEPT !.failures = 0, !.iteration = @ + 1]
  <2>1. i \in RalphLoops
    <3>1. [r EXCEPT !.failures = 0] \in RalphLoops /\ r.iteration + 1 \in Nat
      OBVIOUS
    <3> QED
      BY <3>1
  <2> HIDE DEF i
  <2>2. /\ EmitRalphComplete(i, "MaxIterations") \in RalphLoops
        /\ EmitRalphComplete(i, "CompletionPromise") \in RalphLoops
        /\ EmitRalphComplete(i, "Cancelled") \in RalphLoops
    BY <2>1
  <2> HIDE DEF RalphLoops, EmitRalphComplete
  <2> QED
    BY <2>1, <2>2 DEF RalphTurnOk, i
<1>5. ResumeRalph(r) \in RalphLoops
  BY DEF ResumeRalph
<1>6. PauseRalph(r) \in RalphLoops
  BY DEF PauseRalph
<1>7. RestartedRalph(r) \in RalphLoops
  BY DEF RestartedRalph
<1> QED
  BY <1>1, <1>3, <1>4, <1>5, <1>6, <1>7

\* ralph_on_turn_end yields a loop record, whoever held the turn.
LEMMA RalphOnTurnEndType ==
    ASSUME NEW r \in RalphLoops, NEW origin, NEW failed
    PROVE  RalphOnTurnEnd(r, origin, failed) \in RalphLoops
BY RalphTypes DEF RalphOnTurnEnd

\* emit_state and persist_idle_running leave a well-formed run record.
LEMMA RunTypes ==
    ASSUME protocol \in [got : BOOLEAN, subtype : BOOLEAN],
           NEW m \in RunRecords,
           NEW state \in RunStates, NEW target \in {"Running", "Idle"}, NEW b \in BOOLEAN
    PROVE  /\ EmitState(m, state, b) \in RunRecords
           /\ PersistIdleRunning(m, target) \in RunRecords
           /\ AnnounceRunning(m) \in RunRecords
<1>1. EmitState(m, state, b) \in RunRecords /\ EmitState(m, "running", FALSE) \in RunRecords
  BY DEF RunRecords, RunStates, Statuses, EmitState, StatusOf
<1>2. ASSUME NEW r \in RunRecords
      PROVE  /\ PersistIdleRunning(r, target) \in RunRecords
             /\ PersistIdleRunning(r, "Running") \in RunRecords
  BY DEF RunRecords, Statuses, PersistIdleRunning
<1> QED BY <1>1, <1>2 DEF AnnounceRunning

\* The types of what try_dispatch and the turns it starts assign.
DispatchTyped ==
    /\ active' \in Turns
    /\ queue' \in Seq(Tickets)
    /\ ralph' \in RalphLoops
    /\ nextIndex' \in Nat
    /\ reply' \in Replies
    /\ run' \in RunRecords
    /\ stdin' \in Seq(StdinLines)
    /\ delivered' \in Seq(Messages)
    /\ userEvents' \in Nat

\* try_dispatch keeps the types of all it touches.
LEMMA DispatchTypes ==
    ASSUME TypeOK,
           NEW a \in Turns, NEW q \in Seq(Tickets), NEW r \in RalphLoops,
           NEW n \in Nat, NEW p \in Replies, NEW m \in RunRecords,
           TryDispatch(a, q, r, n, p, m)
    PROVE  DispatchTyped
<1>1. CASE NoDispatch(a, q, r, n, p, m)
  BY <1>1 DEF NoDispatch, TypeOK, DispatchTyped
<1>2. CASE q # <<>> /\ StartUserTurn(Head(q), Tail(q), PauseRalph(r), n, p, m)
  <2>1. Head(q) \in Tickets /\ Tail(q) \in Seq(Tickets)
    BY <1>2
  <2>2. PauseRalph(r) \in RalphLoops
    BY RalphTypes
  <2>3. AnnounceRunning(m) \in RunRecords
    BY RunTypes DEF TypeOK, RunStates
  <2>4. Head(q).msg \in Messages /\ Head(q).index \in Nat
    BY <2>1 DEF Tickets
  <2>5. /\ NewTurn("user", Head(q).index) \in Turns
        /\ NoTurn \in Turns
        /\ [kind |-> "turn", index |-> Head(q).index] \in StdinLines
        /\ [p EXCEPT ![Head(q).msg] = "ok"] \in Replies
        /\ [p EXCEPT ![Head(q).msg] = "err"] \in Replies
    BY <2>4 DEF NewTurn, NoTurn, Turns, Origins, StdinLines, Replies
  <2>6. /\ stdin \in Seq(StdinLines) /\ delivered \in Seq(Messages) /\ userEvents \in Nat
    BY DEF TypeOK
  <2>7. stdin' \in Seq(StdinLines) /\ delivered' \in Seq(Messages) /\ userEvents' \in Nat
    <3>1. \/ UNCHANGED <<stdin, delivered, userEvents>>
          \/ /\ stdin' = Append(stdin, [kind |-> "turn", index |-> Head(q).index])
             /\ delivered' = Append(delivered, Head(q).msg)
             /\ userEvents' = userEvents + 1
      BY <1>2 DEF StartUserTurn
    <3>2. /\ Append(stdin, [kind |-> "turn", index |-> Head(q).index]) \in Seq(StdinLines)
          /\ Append(delivered, Head(q).msg) \in Seq(Messages)
          /\ userEvents + 1 \in Nat
      BY <2>4, <2>5, <2>6, AppendType
    <3> QED
      BY <2>6, <3>1, <3>2
  <2>8. /\ active' \in Turns /\ queue' \in Seq(Tickets) /\ ralph' \in RalphLoops
        /\ nextIndex' \in Nat /\ reply' \in Replies /\ run' \in RunRecords
    BY <1>2, <2>1, <2>2, <2>3, <2>5 DEF StartUserTurn
  <2> QED
    BY <2>7, <2>8 DEF DispatchTyped
<1>3. CASE StartRalphTurn(q, RestartedRalph(r), n, p, m)
  <2>1. RestartedRalph(r) \in RalphLoops
    BY RalphTypes
  <2>2. [RestartedRalph(r) EXCEPT !.heard = FALSE, !.said = FALSE] \in RalphLoops
    BY <2>1 DEF RalphLoops
  <2>3. RalphFailure([RestartedRalph(r) EXCEPT !.heard = FALSE, !.said = FALSE]) \in RalphLoops
    BY <2>2, RalphTypes
  <2>4. AnnounceRunning(m) \in RunRecords
    BY RunTypes DEF TypeOK, RunStates
  <2>5. /\ NewTurn("ralph", n) \in Turns
        /\ NoTurn \in Turns
        /\ [kind |-> "turn", index |-> n] \in StdinLines
    BY DEF NewTurn, NoTurn, Turns, Origins, StdinLines
  <2>6. /\ stdin \in Seq(StdinLines) /\ delivered \in Seq(Messages) /\ userEvents \in Nat
    BY DEF TypeOK
  <2>7. stdin' \in Seq(StdinLines) /\ delivered' \in Seq(Messages) /\ userEvents' \in Nat
    <3>1. /\ UNCHANGED delivered
          /\ \/ UNCHANGED <<stdin, userEvents>>
             \/ /\ stdin' = Append(stdin, [kind |-> "turn", index |-> n])
                /\ userEvents' = userEvents + 1
      BY <1>3 DEF StartRalphTurn
    <3>2. /\ Append(stdin, [kind |-> "turn", index |-> n]) \in Seq(StdinLines)
          /\ userEvents + 1 \in Nat
      BY <2>5, <2>6, AppendType
    <3> QED
      BY <2>6, <3>1, <3>2
  <2>8. /\ active' \in Turns /\ queue' \in Seq(Tickets) /\ ralph' \in RalphLoops
        /\ nextIndex' \in Nat /\ reply' \in Replies /\ run' \in RunRecords
    BY <1>3, <2>2, <2>3, <2>4, <2>5 DEF StartRalphTurn
  <2> QED
    BY <2>7, <2>8 DEF DispatchTyped
<1> QED
  BY <1>1, <1>2, <1>3 DEF TryDispatch

\* The end of the loop keeps the types, whatever the reason.
LEMMA EndLoopTypes ==
    ASSUME TypeOK, NEW why \in Exits, NEW m \in RunRecords, EndLoop(why, m)
    PROVE  TypeOK'
<1>1. NoTurn \in Turns /\ NoWork \in [busy : BOOLEAN, index : Nat, spoke : BOOLEAN]
  BY DEF NoTurn, NewTurn, Turns, Origins, NoWork
<1>2. FailAllPendingReplies \in Replies
  BY DEF FailAllPendingReplies, TypeOK, Replies
<1> QED
  BY <1>1, <1>2 DEF EndLoop, TypeOK, auxVars, Quarantines

-----------------------------------------------------------------------------
(* Type correctness *)

\* A fresh actor is well formed.
LEMMA InitTypes == Init => TypeOK
<1> SUFFICES ASSUME Init PROVE TypeOK
  OBVIOUS
<1>1. NoTurn \in Turns
  BY DEF NoTurn, NewTurn, Turns, Origins
<1>2. NoLoop \in RalphLoops
  BY DEF NoLoop, StartedLoop, RalphLoops, Phases, Reasons, Deadlines
<1>3. run \in RunRecords /\ reply \in Replies
  BY DEF Init, RunRecords, RunStates, Statuses, Replies
<1>4. /\ queue \in Seq(Tickets) /\ delivered \in Seq(Messages)
      /\ stdin \in Seq(StdinLines) /\ stdout \in Seq(StdoutLines)
  BY DEF Init
<1>5. /\ active \in Turns /\ ralph \in RalphLoops
      /\ work \in [busy : BOOLEAN, index : Nat, spoke : BOOLEAN]
      /\ protocol \in [got : BOOLEAN, subtype : BOOLEAN]
  BY <1>1, <1>2 DEF Init, NoWork
<1> QED
  BY <1>3, <1>4, <1>5, ConstantsAssumption DEF Init, TypeOK, Exits, Quarantines

\* Each arm of the actor's select! loop, and each step of the CLI, preserves the types.
LEMMA StepTypes == TypeOK /\ [Next]_vars => TypeOK'
<1> SUFFICES ASSUME TypeOK, [Next]_vars PROVE TypeOK'
  OBVIOUS
<1>0. CASE UNCHANGED vars
  BY <1>0 DEF vars, actorVars, outVars, cliVars, auxVars, TypeOK
<1>1. ASSUME NEW m \in Messages, HandleSendMessage(m) PROVE TypeOK'
  <2> DEFINE q == PushBack([msg |-> m, index |-> nextIndex])
             p == [reply EXCEPT ![m] = "pending"]
  <2>1. q \in Seq(Tickets) /\ nextIndex + 1 \in Nat /\ p \in Replies
    BY DEF TypeOK, PushBack, Tickets, Replies
  <2>2. TryDispatch(active, q, ralph, nextIndex + 1, p, run)
    BY <1>1 DEF HandleSendMessage
  <2> HIDE DEF q, p
  <2>3. DispatchTyped
    BY <2>1, <2>2, DispatchTypes DEF TypeOK
  <2> QED
    BY <1>1, <2>3 DEF HandleSendMessage, DispatchTyped, TypeOK, auxVars
<1>2. ASSUME NEW max \in RalphMax, NEW promise \in RalphPromise, StartRalphLoop(max, promise)
      PROVE  TypeOK'
  <2>1. StartedLoop(max, promise) \in RalphLoops
    BY ConstantsAssumption DEF StartedLoop, RalphLoops, Phases, Reasons, Deadlines
  <2>2. TryDispatch(active, queue, StartedLoop(max, promise), nextIndex, reply, run)
    BY <1>2 DEF StartRalphLoop
  <2>3. DispatchTyped
    BY <2>1, <2>2, DispatchTypes DEF TypeOK
  <2> QED
    BY <1>2, <2>3 DEF StartRalphLoop, DispatchTyped, TypeOK
<1>3. ASSUME CancelRalphLoop PROVE TypeOK'
  <2>1. ralph' \in RalphLoops
    BY <1>3 DEF CancelRalphLoop, TypeOK, EmitRalphComplete, RalphLoops, Phases, Reasons
  <2> QED
    BY <1>3, <2>1 DEF CancelRalphLoop, TypeOK, outVars, cliVars, auxVars
<1>4. ASSUME SendInterrupt PROVE TypeOK'
  <2>1. active' \in Turns
    BY <1>4 DEF SendInterrupt, TypeOK, Turns, HasTurn
  <2>2. stdin' \in Seq(StdinLines)
    <3>1. [kind |-> "interrupt", index |-> 0] \in StdinLines
      BY DEF StdinLines
    <3>2. stdin \in Seq(StdinLines)
      BY DEF TypeOK
    <3>3. Append(stdin, [kind |-> "interrupt", index |-> 0]) \in Seq(StdinLines)
      BY <3>1, <3>2, AppendType
    <3>4. \/ UNCHANGED stdin
          \/ stdin' = Append(stdin, [kind |-> "interrupt", index |-> 0])
      BY <1>4 DEF SendInterrupt
    <3> QED
      BY <3>2, <3>3, <3>4
  <2> QED
    BY <1>4, <2>1, <2>2, ConstantsAssumption DEF SendInterrupt, TypeOK, outVars
<1>5. ASSUME HandleStop PROVE TypeOK'
  BY <1>5, EndLoopTypes DEF HandleStop, Exits, TypeOK
<1>6. ASSUME NEW why \in {"eof", "cancelled"}, HandleEof(why) PROVE TypeOK'
  <2>1. FinalizeMeta(run) \in RunRecords
    BY DEF FinalizeMeta, TypeOK, RunRecords, Statuses
  <2>2. EmitState(run, ExitState(why), TRUE) \in RunRecords
    BY RunTypes DEF TypeOK, ExitState, RunStates
  <2> QED
    BY <1>6, <2>1, <2>2, EndLoopTypes DEF HandleEof, Exits
<1>7. ASSUME TickHardTimeout PROVE TypeOK'
  <2>1. NoTurn \in Turns /\ "entered" \in Quarantines
    BY DEF NoTurn, NewTurn, Turns, Origins, Quarantines
  <2> QED
    BY <1>7, <2>1 DEF TickHardTimeout, TypeOK, outVars, cliVars, auxVars
<1>8. ASSUME TickQuarantineInterrupt PROVE TypeOK'
  <2>1. [kind |-> "quarantineInterrupt", index |-> 0] \in StdinLines
    BY DEF StdinLines
  <2>2. stdin' \in Seq(StdinLines) /\ quarantine' \in Quarantines
    BY <1>8, <2>1 DEF TickQuarantineInterrupt, TypeOK, Quarantines
  <2> QED
    BY <1>8, <2>2 DEF TickQuarantineInterrupt, TypeOK, outVars, auxVars
<1>9. ASSUME TickQuarantineKill PROVE TypeOK'
  <2>1. EmitState(run, "failed", TRUE) \in RunRecords
    BY RunTypes DEF TypeOK, RunStates
  <2> QED
    BY <1>9, <2>1, EndLoopTypes DEF TickQuarantineKill, Exits
<1>10. ASSUME TickRalphRetry PROVE TypeOK'
  <2>1. TryDispatch(active, queue, ralph, nextIndex, reply, run)
    BY <1>10 DEF TickRalphRetry
  <2>2. DispatchTyped
    BY <2>1, DispatchTypes DEF TypeOK
  <2> QED
    BY <1>10, <2>2 DEF TickRalphRetry, DispatchTyped, TypeOK, auxVars
<1>11. ASSUME Elapse PROVE TypeOK'
  <2>1. active' \in Turns
    BY <1>11 DEF Elapse, ElapseTurn, ElapseQuarantine, ElapseBackoff, TypeOK, Turns
  <2>2. ralph' \in RalphLoops
    BY <1>11 DEF Elapse, ElapseTurn, ElapseQuarantine, ElapseBackoff, TypeOK, RalphLoops, Deadlines
  <2>3. quarantine' \in Quarantines
    BY <1>11 DEF Elapse, ElapseTurn, ElapseQuarantine, ElapseBackoff, TypeOK, Quarantines
  <2> QED
    BY <1>11, <2>1, <2>2, <2>3
       DEF Elapse, ElapseTurn, ElapseQuarantine, ElapseBackoff, TypeOK, outVars, cliVars, auxVars
<1>12. ASSUME HandleOutput PROVE TypeOK'
  <2>1. active' \in Turns
    BY <1>12 DEF HandleOutput, TypeOK, Turns
  <2>2. ralph' \in RalphLoops
    <3>1. ralph \in RalphLoops
      BY DEF TypeOK
    <3>2. /\ ralph.said \in BOOLEAN /\ ralph.heard \in BOOLEAN
          /\ \A s, h \in BOOLEAN : [ralph EXCEPT !.said = s, !.heard = h] \in RalphLoops
      BY <3>1 DEF RalphLoops
    <3>3. \/ ralph' = ralph
          \/ \E s, h \in BOOLEAN : ralph' = [ralph EXCEPT !.said = s, !.heard = h]
      <4> DEFINE said  == ralph.said \/ (NextLine.kind = "promise" /\ active.origin = "ralph")
                 heard == \/ ralph.heard
                          \/ /\ NextLine.kind = "promise"
                             /\ IsInternalTurn
                             /\ active.origin = "ralph"
      <4>1. ralph' = ralph \/ ralph' = [ralph EXCEPT !.said = said, !.heard = heard]
        BY <1>12 DEF HandleOutput
      <4>2. said \in BOOLEAN /\ heard \in BOOLEAN
        BY <3>2
      <4> QED BY <4>1, <4>2
    <3> QED BY <3>1, <3>2, <3>3
  <2>3. stdout' \in Seq(StdoutLines)
    BY <1>12 DEF HandleOutput, ReadLine, TypeOK
  <2> QED
    BY <1>12, <2>1, <2>2, <2>3 DEF HandleOutput, TypeOK, outVars, auxVars, ReadLine
<1>13. ASSUME HandleTurnResult PROVE TypeOK'
  <2>0. stdout' \in Seq(StdoutLines) /\ ended' \in Exits
    BY <1>13 DEF HandleTurnResult, ReadLine, TypeOK
  <2>1. /\ ParsedResult \in [got : BOOLEAN, subtype : BOOLEAN]
        /\ ClearedErrors \in [got : BOOLEAN, subtype : BOOLEAN]
        /\ NoTurn \in Turns
    BY DEF ParsedResult, ClearedErrors, TypeOK, NoTurn, NewTurn, Turns, Origins
  <2>2. PersistIdleRunning(EmitState(run, "idle", FALSE), "Idle") \in RunRecords
    BY RunTypes DEF TypeOK, RunStates
  <2> DEFINE after == IF pendingInterrupt THEN ClearedErrors ELSE ParsedResult
             idle  == PersistIdleRunning(EmitState(run, "idle", FALSE), "Idle")
             m     == IF after.subtype THEN [idle EXCEPT !.subtype = TRUE] ELSE idle
             r     == RalphOnTurnEnd(ralph, active.origin, NextLine.kind # "ok" /\ ~pendingInterrupt)
  <2>3. m \in RunRecords /\ r \in RalphLoops
    <3> HIDE DEF after
    <3> QED BY <2>2, RalphOnTurnEndType DEF RunRecords, TypeOK
  <2>4. \/ TryDispatch(NoTurn, queue, r, nextIndex, reply, m)
        \/ NoDispatch(active, queue, ralph, nextIndex, reply, m)
    BY <1>13 DEF HandleTurnResult
  <2> HIDE DEF m, r
  <2>5. DispatchTyped
    BY <2>1, <2>3, <2>4, DispatchTypes DEF TypeOK, NoDispatch, DispatchTyped
  <2>6. protocol' \in [got : BOOLEAN, subtype : BOOLEAN]
    BY <1>13, <2>1 DEF HandleTurnResult
  <2>7. lastResult' \in {"none", "ok", "error", "interrupted"}
    BY <1>13 DEF HandleTurnResult
  <2> QED
    BY <1>13, <2>0, <2>5, <2>6, <2>7 DEF HandleTurnResult, DispatchTyped, TypeOK
<1>14. ASSUME LiftQuarantine PROVE TypeOK'
  <2>1. TryDispatch(active, queue, ralph, nextIndex, reply, run)
    BY <1>14 DEF LiftQuarantine
  <2>2. DispatchTyped
    BY <2>1, DispatchTypes DEF TypeOK
  <2>3. protocol' \in [got : BOOLEAN, subtype : BOOLEAN] /\ stdout' \in Seq(StdoutLines)
    BY <1>14 DEF LiftQuarantine, ParsedResult, ReadLine, TypeOK
  <2> QED
    BY <1>14, <2>2, <2>3
       DEF LiftQuarantine, DispatchTyped, TypeOK, auxVars, ReadLine, Quarantines
<1>15. ASSUME HandleCodexReady PROVE TypeOK'
  <2>1. TryDispatch(active, queue, ralph, nextIndex, reply, run)
    BY <1>15 DEF HandleCodexReady
  <2>2. DispatchTyped
    BY <2>1, DispatchTypes DEF TypeOK
  <2>3. stdout' \in Seq(StdoutLines)
    BY <1>15 DEF HandleCodexReady, ReadLine, TypeOK
  <2> QED
    BY <1>15, <2>2, <2>3 DEF HandleCodexReady, DispatchTyped, TypeOK, auxVars
<1>16. ASSUME HandleCodexTurnEnd PROVE TypeOK'
  <2> DEFINE m == PersistIdleRunning(EmitState(run, "idle", TRUE), "Idle")
  <2>1. m \in RunRecords
    BY RunTypes DEF TypeOK, RunStates
  <2>2. TryDispatch(NoTurn, queue, ralph, nextIndex, reply, m)
    BY <1>16 DEF HandleCodexTurnEnd
  <2>3. NoTurn \in Turns
    BY DEF NoTurn, NewTurn, Turns, Origins
  <2> HIDE DEF m
  <2>4. DispatchTyped
    BY <2>1, <2>2, <2>3, DispatchTypes DEF TypeOK
  <2>5. stdout' \in Seq(StdoutLines) /\ lastResult' \in {"none", "ok", "error", "interrupted"}
    BY <1>16 DEF HandleCodexTurnEnd, ReadLine, TypeOK
  <2> QED
    BY <1>16, <2>4, <2>5 DEF HandleCodexTurnEnd, DispatchTyped, TypeOK
<1>17. ASSUME Cli PROVE TypeOK'
  <2>1. CliUnchanged
    BY <1>17 DEF Cli, CliOpensThread, CliTakesTurn, CliTakesInterrupt, CliSpeaks, CliFinishes,
                 CliExits
  <2>2. stdin' \in Seq(StdinLines) /\ proc' \in {"alive", "exited0", "exited1"}
    <3>1. stdin' = stdin \/ stdin' = <<>> \/ (stdin # <<>> /\ stdin' = Tail(stdin))
      BY <1>17 DEF Cli, CliOpensThread, CliTakesTurn, CliTakesInterrupt, CliSpeaks,
                   CliFinishes, CliExits
    <3>2. proc' = proc \/ proc' \in {"exited0", "exited1"}
      BY <1>17 DEF Cli, CliOpensThread, CliTakesTurn, CliTakesInterrupt, CliSpeaks,
                   CliFinishes, CliExits
    <3>3. stdin \in Seq(StdinLines) /\ proc \in {"alive", "exited0", "exited1"}
      BY DEF TypeOK
    <3>4. proc' \in {"alive", "exited0", "exited1"}
      BY <3>2, <3>3
    <3>5. stdin' \in Seq(StdinLines)
      <4>1. <<>> \in Seq(StdinLines) /\ (stdin # <<>> => Tail(stdin) \in Seq(StdinLines))
        BY <3>3, TailType
      <4> QED
        BY <3>1, <3>3, <4>1
    <3> QED
      BY <3>4, <3>5
  <2>3. work' \in [busy : BOOLEAN, index : Nat, spoke : BOOLEAN]
    <3>1. CASE CliTakesTurn
      <4>1. Head(stdin) \in StdinLines
        BY <3>1 DEF CliTakesTurn, TypeOK
      <4>2. Head(stdin).index \in Nat
        BY <4>1 DEF StdinLines
      <4> QED
        BY <3>1, <4>2 DEF CliTakesTurn
    <3>2. CASE work' = work \/ work' = NoWork \/ work' = [work EXCEPT !.spoke = TRUE]
      <4>1. work \in [busy : BOOLEAN, index : Nat, spoke : BOOLEAN]
        BY DEF TypeOK
      <4>2. /\ NoWork \in [busy : BOOLEAN, index : Nat, spoke : BOOLEAN]
            /\ [work EXCEPT !.spoke = TRUE] \in [busy : BOOLEAN, index : Nat, spoke : BOOLEAN]
        BY <4>1 DEF NoWork
      <4> QED
        BY <3>2, <4>1, <4>2
    <3> QED
      BY <1>17, <3>1, <3>2 DEF Cli, CliOpensThread, CliTakesInterrupt, CliSpeaks, CliFinishes,
                               CliExits
  <2>4. stdout' \in Seq(StdoutLines)
    <3>1. /\ \A kind \in {"text", "promise", "ok", "error", "ack"} :
                [kind |-> kind, index |-> work.index] \in StdoutLines
          /\ [kind |-> "ready", index |-> 0] \in StdoutLines
      BY DEF StdoutLines, TypeOK
    <3>2. \/ UNCHANGED stdout
          \/ stdout' = <<[kind |-> "ready", index |-> 0]>>
          \/ \E kind \in {"text", "promise", "ok", "error", "ack"} :
                stdout' = Append(stdout, [kind |-> kind, index |-> work.index])
      BY <1>17 DEF Cli, CliOpensThread, CliTakesTurn, CliTakesInterrupt, CliSpeaks,
                   CliFinishes, CliExits
    <3>3. stdout \in Seq(StdoutLines)
      BY DEF TypeOK
    <3>4. /\ \A kind \in {"text", "promise", "ok", "error", "ack"} :
                Append(stdout, [kind |-> kind, index |-> work.index]) \in Seq(StdoutLines)
          /\ <<[kind |-> "ready", index |-> 0]>> \in Seq(StdoutLines)
      BY <3>1, <3>3, AppendType
    <3> QED
      BY <3>2, <3>3, <3>4
  <2> QED
    BY <2>1, <2>2, <2>3, <2>4 DEF CliUnchanged, TypeOK, actorVars, outVars, auxVars
<1> QED
  BY <1>0, <1>1, <1>2, <1>3, <1>4, <1>5, <1>6, <1>7, <1>8, <1>9, <1>10, <1>11, <1>12, <1>13,
     <1>14, <1>15, <1>16, <1>17
     DEF Next, Commands, ReadStdout, Eof, Tick

\* The state of the actor and of its pipes is well formed at all times: every
\* operation of handle_stdout_line, on_tick_timeout, try_dispatch and the commands
\* leaves the tickets, the loop and the run record inside their types.
THEOREM TypeCorrect == Spec => []TypeOK
<1>1. Init => TypeOK
  BY InitTypes
<1>2. TypeOK /\ [Next]_vars => TypeOK'
  BY StepTypes
<1> QED
  BY <1>1, <1>2, PTL DEF Spec

-----------------------------------------------------------------------------
(* The Ralph loop stays within its limits *)

\* A loop whose prompt is out.
Prompted(r) == r.phase \in {"Running", "CancelPending"}

\* Pausing and restarting do not touch the counters.
LEMMA PauseLimits ==
    ASSUME NEW r \in RalphLoops, LoopWithinLimits(r)
    PROVE  /\ LoopWithinLimits(PauseRalph(r))
           /\ LoopWithinLimits(ResumeRalph(r))
           /\ RalphWantsTurn(r) => LoopWithinLimits(RestartedRalph(r))
BY DEF LoopWithinLimits, PauseRalph, ResumeRalph, RestartedRalph, RalphWantsTurn, RalphLoops

\* The third failure in a row ends the loop, so a live loop has had at most two.
LEMMA FailureLimits ==
    ASSUME NEW r \in RalphLoops, LoopWithinLimits(r), r.phase # "off"
    PROVE  LoopWithinLimits(RalphFailure(r))
BY DEF LoopWithinLimits, RalphFailure, EmitRalphComplete, RalphLoops, MaxConsecutiveFailures

\* ralph_on_turn_end ends the loop in the turn that reaches max_iterations.
LEMMA TurnEndLimits ==
    ASSUME NEW r \in RalphLoops, LoopWithinLimits(r), NEW origin, NEW failed,
           origin = "ralph" => Prompted(r)
    PROVE  LoopWithinLimits(RalphOnTurnEnd(r, origin, failed))
<1>1. CASE r.phase = "off" \/ origin \notin {"ralph", "user"}
  BY <1>1 DEF RalphOnTurnEnd
<1>2. CASE r.phase # "off" /\ origin = "user"
  BY <1>2, PauseLimits DEF RalphOnTurnEnd
<1>3. CASE r.phase # "off" /\ origin = "ralph" /\ failed
  <2>1. LoopWithinLimits(EmitRalphComplete(r, "Cancelled"))
    BY DEF LoopWithinLimits, EmitRalphComplete, RalphLoops
  <2> QED
    BY <1>3, <2>1, FailureLimits DEF RalphOnTurnEnd, RalphTurnFailed
<1>4. CASE r.phase # "off" /\ origin = "ralph" /\ ~failed
  <2>1. LoopWithinLimits(RalphTurnOk(r))
    BY <1>4 DEF LoopWithinLimits, RalphTurnOk, LimitReached, EmitRalphComplete, RalphLoops,
                Prompted, MaxConsecutiveFailures
  <2> QED
    BY <1>4, <2>1 DEF RalphOnTurnEnd
<1> QED
  BY <1>1, <1>2, <1>3, <1>4

\* try_dispatch leaves the loop within its limits, and a Ralph turn only to a loop
\* whose prompt is out.
LEMMA DispatchLimits ==
    ASSUME NEW a \in Turns, NEW q, NEW r \in RalphLoops, NEW n, NEW p, NEW m,
           LoopWithinLimits(r),
           a.origin = "ralph" => Prompted(r),
           TryDispatch(a, q, r, n, p, m)
    PROVE  RalphWithinLimits'
<1>1. CASE NoDispatch(a, q, r, n, p, m)
  BY <1>1 DEF NoDispatch, RalphWithinLimits, LoopWithinLimits, Prompted
<1>2. CASE StartUserTurn(Head(q), Tail(q), PauseRalph(r), n, p, m)
  <2>1. ralph' = PauseRalph(r) /\ active'.origin # "ralph"
    BY <1>2 DEF StartUserTurn, NewTurn, NoTurn
  <2> QED
    BY <2>1, PauseLimits DEF RalphWithinLimits, LoopWithinLimits
<1>3. CASE RalphWantsTurn(r) /\ StartRalphTurn(q, RestartedRalph(r), n, p, m)
  <2> DEFINE s == [RestartedRalph(r) EXCEPT !.heard = FALSE, !.said = FALSE]
  <2>1. s \in RalphLoops /\ LoopWithinLimits(s) /\ s.phase = "Running"
    <3>1. RestartedRalph(r) \in RalphLoops /\ LoopWithinLimits(RestartedRalph(r))
      BY <1>3, PauseLimits, RalphTypes
    <3>2. RestartedRalph(r).phase = "Running"
      BY DEF RestartedRalph, RalphLoops
    <3> QED
      BY <3>1, <3>2 DEF LoopWithinLimits, RalphLoops
  <2>2. \/ ralph' = s
        \/ ralph' = RalphFailure(s) /\ active'.origin # "ralph"
    BY <1>3 DEF StartRalphTurn, NewTurn, NoTurn
  <2> HIDE DEF s
  <2> QED
    BY <2>1, <2>2, FailureLimits DEF RalphWithinLimits, LoopWithinLimits
<1> QED
  BY <1>1, <1>2, <1>3 DEF TryDispatch

\* No loop runs when the actor starts.
LEMMA InitLimits == Init => RalphWithinLimits
BY DEF Init, NoLoop, StartedLoop, NoTurn, NewTurn, RalphWithinLimits, LoopWithinLimits,
       MaxConsecutiveFailures

\* Each arm of the select! loop keeps the loop within its limits.
LEMMA StepLimits == TypeOK /\ RalphWithinLimits /\ [Next]_vars => RalphWithinLimits'
<1> SUFFICES ASSUME TypeOK, RalphWithinLimits, [Next]_vars PROVE RalphWithinLimits'
  OBVIOUS
<1> USE DEF RalphWithinLimits
<1>t. active \in Turns /\ ralph \in RalphLoops
  BY DEF TypeOK
<1>l. LoopWithinLimits(ralph) /\ (active.origin = "ralph" => Prompted(ralph))
  BY DEF Prompted
<1>k. UNCHANGED <<active, ralph>> => RalphWithinLimits'
  BY DEF LoopWithinLimits
<1>n. ralph' = ralph /\ active'.origin # "ralph" => RalphWithinLimits'
  BY DEF LoopWithinLimits
<1>1. ASSUME NEW m \in Messages, HandleSendMessage(m) PROVE RalphWithinLimits'
  BY <1>1, <1>t, <1>l, DispatchLimits DEF HandleSendMessage
<1>2. ASSUME NEW max \in RalphMax, NEW promise \in RalphPromise, StartRalphLoop(max, promise)
      PROVE  RalphWithinLimits'
  <2>1. StartedLoop(max, promise) \in RalphLoops
    BY ConstantsAssumption DEF StartedLoop, RalphLoops, Phases, Reasons, Deadlines
  <2>2. LoopWithinLimits(StartedLoop(max, promise)) /\ Prompted(StartedLoop(max, promise))
    BY ConstantsAssumption DEF StartedLoop, LoopWithinLimits, Prompted, MaxConsecutiveFailures
  <2> QED
    BY <1>2, <1>t, <2>1, <2>2, DispatchLimits DEF StartRalphLoop
<1>3. ASSUME CancelRalphLoop PROVE RalphWithinLimits'
  BY <1>3, <1>t DEF CancelRalphLoop, EmitRalphComplete, LoopWithinLimits, RalphLoops, LoopActive
<1>4. ASSUME SendInterrupt PROVE RalphWithinLimits'
  <2>1. ralph' = ralph /\ active'.origin = active.origin
    BY <1>4, <1>t DEF SendInterrupt, Turns
  <2> QED
    BY <2>1 DEF LoopWithinLimits
<1>5. ASSUME NEW why, NEW m, EndLoop(why, m) PROVE RalphWithinLimits'
  BY <1>5, <1>n DEF EndLoop, NoTurn, NewTurn
<1>6. ASSUME TickHardTimeout PROVE RalphWithinLimits'
  BY <1>6, <1>n DEF TickHardTimeout, NoTurn, NewTurn
<1>7. ASSUME TickRalphRetry PROVE RalphWithinLimits'
  BY <1>7, <1>t, <1>l, DispatchLimits DEF TickRalphRetry
<1>8. ASSUME ElapseTurn PROVE RalphWithinLimits'
  <2>1. ralph' = ralph /\ active'.origin = active.origin
    BY <1>8, <1>t DEF ElapseTurn, Turns
  <2> QED
    BY <2>1 DEF LoopWithinLimits
<1>9. ASSUME ElapseBackoff PROVE RalphWithinLimits'
  BY <1>9, <1>t DEF ElapseBackoff, LoopWithinLimits, RalphLoops
<1>10. ASSUME HandleOutput PROVE RalphWithinLimits'
  <2>1. active'.origin = active.origin
    BY <1>10, <1>t DEF HandleOutput, Turns
  <2>2. LoopWithinLimits(ralph') /\ ralph'.phase = ralph.phase
    BY <1>10, <1>t DEF HandleOutput, LoopWithinLimits, RalphLoops
  <2> QED
    BY <2>1, <2>2 DEF LoopWithinLimits
<1>11. ASSUME HandleTurnResult PROVE RalphWithinLimits'
  <2> DEFINE failed == NextLine.kind # "ok" /\ ~pendingInterrupt
             r == RalphOnTurnEnd(ralph, active.origin, failed)
  <2>1. PICK m : \/ TryDispatch(NoTurn, queue, r, nextIndex, reply, m)
                 \/ NoDispatch(active, queue, ralph, nextIndex, reply, m)
    BY <1>11 DEF HandleTurnResult
  <2>2. LoopWithinLimits(r) /\ r \in RalphLoops
    BY <1>t, <1>l, TurnEndLimits, RalphOnTurnEndType
  <2>3. NoTurn \in Turns /\ NoTurn.origin # "ralph"
    BY DEF NoTurn, NewTurn, Turns, Origins
  <2> HIDE DEF r
  <2>4. CASE TryDispatch(NoTurn, queue, r, nextIndex, reply, m)
    BY <2>2, <2>3, <2>4, DispatchLimits
  <2>5. CASE NoDispatch(active, queue, ralph, nextIndex, reply, m)
    BY <2>5, <1>k DEF NoDispatch
  <2> QED
    BY <2>1, <2>4, <2>5
<1>12. ASSUME LiftQuarantine \/ HandleCodexReady PROVE RalphWithinLimits'
  BY <1>12, <1>t, <1>l, DispatchLimits DEF LiftQuarantine, HandleCodexReady
<1>13. ASSUME HandleCodexTurnEnd PROVE RalphWithinLimits'
  <2>1. NoTurn \in Turns /\ NoTurn.origin # "ralph"
    BY DEF NoTurn, NewTurn, Turns, Origins
  <2> QED
    BY <1>13, <1>t, <1>l, <2>1, DispatchLimits DEF HandleCodexTurnEnd
<1>14. ASSUME TickQuarantineInterrupt \/ ElapseQuarantine \/ Cli \/ UNCHANGED vars
       PROVE  RalphWithinLimits'
  BY <1>14, <1>k
     DEF TickQuarantineInterrupt, ElapseQuarantine, vars, actorVars, Cli, CliUnchanged,
         CliOpensThread, CliTakesTurn, CliTakesInterrupt, CliSpeaks, CliFinishes, CliExits
<1> HIDE DEF RalphWithinLimits
<1>15. HandleStop \/ Eof \/ TickQuarantineKill => \E why, m : EndLoop(why, m)
  BY DEF HandleStop, Eof, HandleEof, TickQuarantineKill
<1> QED
  BY <1>1, <1>2, <1>3, <1>4, <1>5, <1>6, <1>7, <1>8, <1>9, <1>10, <1>11, <1>12, <1>13, <1>14,
     <1>15
     DEF Next, Commands, ReadStdout, Tick, Elapse

\* However turns end, fail, time out or are cancelled, a live Ralph loop is short of
\* max_iterations and of its third failure in a row, and a Ralph turn has its loop
\* (ralph_on_turn_end, start_ralph_turn, CancelRalphLoop).
THEOREM RalphStaysWithinLimits == Spec => []RalphWithinLimits
<1>1. Init => TypeOK /\ RalphWithinLimits
  BY InitTypes, InitLimits
<1>2. (TypeOK /\ RalphWithinLimits) /\ [Next]_vars => (TypeOK /\ RalphWithinLimits)'
  BY StepTypes, StepLimits
<1> QED
  BY <1>1, <1>2, PTL DEF Spec

-----------------------------------------------------------------------------
(* The session implements TicketQueue *)

\* An empty queue owes nobody an answer.
LEMMA MessagesOfEmpty == MessagesOf(<<>>) = <<>>
BY DEF MessagesOf

\* A ticket queued is a message accepted.
LEMMA MessagesOfAppend ==
    ASSUME NEW q \in Seq(Tickets), NEW t \in Tickets
    PROVE  MessagesOf(Append(q, t)) = Append(MessagesOf(q), t.msg)
BY DEF MessagesOf

\* The oldest ticket taken is the oldest message served.
LEMMA MessagesOfTail ==
    ASSUME NEW q \in Seq(Tickets), q # <<>>
    PROVE  /\ MessagesOf(q) # <<>>
           /\ Head(MessagesOf(q)) = Head(q).msg
           /\ Tail(MessagesOf(q)) = MessagesOf(Tail(q))
BY DEF MessagesOf

\* try_dispatch either leaves the tickets alone or serves the oldest one.
LEMMA DispatchServes ==
    ASSUME NEW a, NEW q \in Seq(Tickets), NEW r, NEW n, NEW p, NEW m,
           TryDispatch(a, q, r, n, p, m),
           UNCHANGED ended
    PROVE  \/ queue' = q /\ reply' = p /\ UNCHANGED delivered
           \/ q # <<>> /\ Callers!Serve(MessagesOf(q), p)
<1>1. CASE NoDispatch(a, q, r, n, p, m)
  BY <1>1 DEF NoDispatch
<1>2. CASE q # <<>> /\ StartUserTurn(Head(q), Tail(q), PauseRalph(r), n, p, m)
  <2>1. /\ queue' = Tail(q)
        /\ \/ /\ delivered' = Append(delivered, Head(q).msg)
              /\ reply' = [p EXCEPT ![Head(q).msg] = "ok"]
           \/ /\ UNCHANGED delivered
              /\ reply' = [p EXCEPT ![Head(q).msg] = "err"]
    BY <1>2 DEF StartUserTurn
  <2>2. /\ MessagesOf(q) # <<>>
        /\ Head(MessagesOf(q)) = Head(q).msg
        /\ MessagesOf(queue') = Tail(MessagesOf(q))
    BY <1>2, <2>1, MessagesOfTail
  <2>3. MessagesOf(queue)' = MessagesOf(queue')
    BY DEF MessagesOf
  <2> QED
    BY <1>2, <2>1, <2>2, <2>3 DEF Callers!Serve
<1>3. CASE q = <<>> /\ StartRalphTurn(q, RestartedRalph(r), n, p, m)
  BY <1>3 DEF StartRalphTurn
<1> QED
  BY <1>1, <1>2, <1>3 DEF TryDispatch

\* A fresh actor is an open session without messages.
LEMMA InitRefines == Init => Callers!Init
BY MessagesOfEmpty DEF Init, Callers!Init

\* Each step of the session is a step of the callers' view, or leaves it unchanged.
LEMMA StepRefines == TypeOK /\ [Next]_vars => [Callers!Next]_Callers!ticketVars
<1> SUFFICES ASSUME TypeOK, [Next]_vars PROVE [Callers!Next]_Callers!ticketVars
  OBVIOUS
<1>q. queue \in Seq(Tickets) /\ MessagesOf(queue)' = MessagesOf(queue')
  BY DEF TypeOK, MessagesOf
<1>u. UNCHANGED <<queue, delivered, reply, ended>> => UNCHANGED Callers!ticketVars
  BY <1>q DEF Callers!ticketVars
<1>d. ASSUME NEW a, NEW r, NEW n, NEW m, TryDispatch(a, queue, r, n, reply, m),
             ended = "no", UNCHANGED ended
      PROVE  [Callers!Next]_Callers!ticketVars
  <2>1. CASE queue' = queue /\ reply' = reply /\ UNCHANGED delivered
    BY <1>d, <1>u, <2>1
  <2>2. CASE Callers!Serve(MessagesOf(queue), reply)
    BY <1>d, <2>2 DEF Callers!Next, Callers!ServeOldest
  <2> QED
    BY <1>d, <1>q, <2>1, <2>2, DispatchServes
<1>1. ASSUME NEW m \in Messages, HandleSendMessage(m) PROVE [Callers!Next]_Callers!ticketVars
  <2> DEFINE t == [msg |-> m, index |-> nextIndex]
             p == [reply EXCEPT ![m] = "pending"]
  <2>1. t \in Tickets /\ t.msg = m
    BY DEF TypeOK, Tickets
  <2>2. TryDispatch(active, Append(queue, t), ralph, nextIndex + 1, p, run)
    BY <1>1 DEF HandleSendMessage, PushBack
  <2>3. ended = "no" /\ UNCHANGED ended /\ reply[m] = "none"
    BY <1>1 DEF HandleSendMessage
  <2> HIDE DEF t, p
  <2>4. /\ Append(queue, t) \in Seq(Tickets)
        /\ MessagesOf(Append(queue, t)) = Append(MessagesOf(queue), m)
    BY <1>q, <2>1, MessagesOfAppend, AppendType
  <2>5. \/ queue' = Append(queue, t) /\ reply' = p /\ UNCHANGED delivered
        \/ Callers!Serve(MessagesOf(Append(queue, t)), p)
    BY <2>2, <2>3, <2>4, DispatchServes
  <2>6. Callers!Accept(m)
    BY <1>q, <2>3, <2>4, <2>5 DEF Callers!Accept, p
  <2> QED
    BY <2>6 DEF Callers!Next
<1>2. ASSUME NEW max, NEW promise, StartRalphLoop(max, promise)
      PROVE  [Callers!Next]_Callers!ticketVars
  BY <1>2, <1>d DEF StartRalphLoop
<1>3. ASSUME NEW why \in Exits \ {"no"}, NEW m, ended = "no", EndLoop(why, m)
      PROVE  [Callers!Next]_Callers!ticketVars
  BY <1>3, <1>q, MessagesOfEmpty
     DEF EndLoop, FailAllPendingReplies, Callers!Next, Callers!Close
<1>4. ASSUME TickRalphRetry \/ LiftQuarantine \/ HandleCodexReady \/ HandleCodexTurnEnd
      PROVE  [Callers!Next]_Callers!ticketVars
  BY <1>4, <1>d
     DEF TickRalphRetry, LiftQuarantine, HandleCodexReady, HandleCodexTurnEnd, ReadLine
<1>5. ASSUME HandleTurnResult PROVE [Callers!Next]_Callers!ticketVars
  <2>1. PICK a, r, m : \/ TryDispatch(a, queue, r, nextIndex, reply, m)
                       \/ NoDispatch(a, queue, r, nextIndex, reply, m)
    BY <1>5 DEF HandleTurnResult
  <2>2. ended = "no" /\ UNCHANGED ended
    BY <1>5 DEF HandleTurnResult, ReadLine
  <2> QED
    BY <1>d, <1>u, <2>1, <2>2 DEF NoDispatch
<1>6. ASSUME \/ CancelRalphLoop \/ SendInterrupt \/ TickHardTimeout \/ TickQuarantineInterrupt
             \/ Elapse \/ HandleOutput \/ UNCHANGED vars
      PROVE  [Callers!Next]_Callers!ticketVars
  BY <1>6, <1>u
     DEF CancelRalphLoop, SendInterrupt, TickHardTimeout, TickQuarantineInterrupt, Elapse,
         ElapseTurn, ElapseQuarantine, ElapseBackoff, HandleOutput, ReadLine, vars, actorVars,
         outVars
<1>7. ASSUME Cli PROVE [Callers!Next]_Callers!ticketVars
  BY <1>7, <1>u
     DEF Cli, CliUnchanged, CliOpensThread, CliTakesTurn, CliTakesInterrupt, CliSpeaks,
         CliFinishes, CliExits, actorVars, outVars
<1>8. HandleStop \/ Eof \/ TickQuarantineKill
        => ended = "no" /\ \E why \in Exits \ {"no"} : \E m : EndLoop(why, m)
  BY DEF HandleStop, Eof, HandleEof, TickQuarantineKill, Exits
<1> QED
  BY <1>1, <1>2, <1>3, <1>4, <1>5, <1>6, <1>7, <1>8 DEF Next, Commands, ReadStdout, Tick

\* Every message handed to the actor is answered once, the messages reach the log in
\* the order they were accepted, and a session that ends answers whoever still waits
\* (handle_send_message, try_dispatch, start_user_turn, fail_all_pending_replies).
THEOREM SessionImplementsTickets == Spec => ImplementsTickets
<1>1. Init => Callers!Init
  BY InitRefines
<1>2. TypeOK /\ [Next]_vars => [Callers!Next]_Callers!ticketVars
  BY StepRefines
<1> QED
  BY <1>1, <1>2, TypeCorrect, PTL DEF Spec, Callers!Spec, ImplementsTickets

-----------------------------------------------------------------------------
(* The lines of one kind in a pipe *)

\* The positions in s of lines whose kind is in K; for the kinds below, TurnLines and
\* ResultLines.
At(s, K) == {i \in DOMAIN s : s[i].kind \in K}

TurnKinds   == {"turn"}
ResultKinds == {"ok", "error", "ack"}

Has(s, K)       == At(s, K) # {}
AtMostOne(s, K) == \A i, j \in At(s, K) : i = j
Index(s, K, n)  == \A i \in At(s, K) : s[i].index = n

\* A line added to a pipe.
LEMMA AppendLines ==
    ASSUME NEW S, NEW s \in Seq(S), NEW x \in S, NEW K, NEW n
    PROVE  /\ x.kind \notin K =>
                /\ Has(Append(s, x), K) <=> Has(s, K)
                /\ AtMostOne(s, K) => AtMostOne(Append(s, x), K)
                /\ Index(s, K, n) => Index(Append(s, x), K, n)
           /\ x.kind \in K => Has(Append(s, x), K)
           /\ x.kind \in K /\ ~Has(s, K) =>
                /\ AtMostOne(Append(s, x), K)
                /\ x.index = n => Index(Append(s, x), K, n)
<1> DEFINE t == Append(s, x)
<1>1. /\ DOMAIN t = 1..(Len(s) + 1) /\ DOMAIN s = 1..Len(s) /\ Len(s) \in Nat
      /\ \A i \in DOMAIN s : t[i] = s[i]
      /\ t[Len(s) + 1] = x
  OBVIOUS
<1> HIDE DEF t
<1>2. x.kind \notin K => At(t, K) = At(s, K)
  BY <1>1 DEF At
<1>3. x.kind \in K => At(t, K) = At(s, K) \cup {Len(s) + 1}
  BY <1>1 DEF At
<1>4. \A i \in At(s, K) : t[i] = s[i]
  BY <1>1 DEF At
<1> QED BY <1>1, <1>2, <1>3, <1>4 DEF Has, AtMostOne, Index, t

\* A line taken from a pipe.
LEMMA TailLines ==
    ASSUME NEW S, NEW s \in Seq(S), s # <<>>, NEW K, NEW n, AtMostOne(s, K)
    PROVE  /\ AtMostOne(Tail(s), K)
           /\ Index(s, K, n) => Index(Tail(s), K, n)
           /\ Head(s).kind \in K => ~Has(Tail(s), K) /\ Has(s, K)
           /\ Head(s).kind \in K /\ Index(s, K, n) => Head(s).index = n
           /\ Head(s).kind \notin K => (Has(Tail(s), K) <=> Has(s, K))
<1> DEFINE t == Tail(s)
<1>1. /\ DOMAIN t = 1..(Len(s) - 1) /\ DOMAIN s = 1..Len(s) /\ Len(s) \in Nat \ {0}
      /\ \A i \in DOMAIN t : t[i] = s[i + 1]
      /\ Head(s) = s[1]
  OBVIOUS
<1> HIDE DEF t
<1>2. \A i \in At(t, K) : i + 1 \in At(s, K) /\ t[i] = s[i + 1] /\ i \in Nat \ {0}
  BY <1>1 DEF At
<1>3. Head(s).kind \in K <=> 1 \in At(s, K)
  BY <1>1 DEF At
<1>4. \A j \in At(s, K) : j # 1 => j - 1 \in At(t, K)
  BY <1>1 DEF At
<1>5. AtMostOne(t, K)
  BY <1>2 DEF AtMostOne
<1>6. Index(s, K, n) => Index(t, K, n)
  BY <1>2 DEF Index
<1>7. Head(s).kind \in K => ~Has(t, K) /\ Has(s, K)
  BY <1>2, <1>3 DEF Has, AtMostOne
<1>8. Head(s).kind \in K /\ Index(s, K, n) => Head(s).index = n
  BY <1>1, <1>3 DEF Index
<1>9. Head(s).kind \notin K => (Has(t, K) <=> Has(s, K))
  BY <1>2, <1>3, <1>4 DEF Has
<1> QED BY <1>5, <1>6, <1>7, <1>8, <1>9 DEF t

\* A pipe that has been dropped.
LEMMA NoLines ==
    ASSUME NEW K, NEW n
    PROVE  ~Has(<<>>, K) /\ AtMostOne(<<>>, K) /\ Index(<<>>, K, n)
BY DEF Has, AtMostOne, Index, At

-----------------------------------------------------------------------------
(* One turn on the wire *)

\* OneTurnOnTheWire of a turn a, a quarantine q, the pipes in and out, the work w of
\* the CLI and its state c; with what makes it inductive: a turn in quarantine is not
\* the active one, and nothing is left in the pipe to a process that is gone.
Wire(a, q, in, out, w, c) ==
    /\ AtMostOne(in, TurnKinds) /\ AtMostOne(out, ResultKinds)
    /\ Has(in, TurnKinds) => ~w.busy /\ ~Has(out, ResultKinds)
    /\ w.busy => ~Has(out, ResultKinds)
    /\ a.origin # "none" =>
          /\ Index(in, TurnKinds, a.index)
          /\ w.busy => w.index = a.index
          /\ Index(out, ResultKinds, a.index)
          /\ c = "alive" => Has(in, TurnKinds) \/ w.busy \/ Has(out, ResultKinds)
          /\ q = "off"
    /\ Has(in, TurnKinds) \/ w.busy \/ Has(out, ResultKinds) => a.origin # "none" \/ q # "off"
    /\ c # "alive" => in = <<>> /\ w.busy = FALSE

\* Nothing of a session that has ended is left.
EndedSession == ended # "no" => proc # "alive" /\ stdout = <<>> /\ ~HasTurn

WireInv == Wire(active, quarantine, stdin, stdout, work, proc) /\ EndedSession

\* It says what OneTurnOnTheWire says.
LEMMA WireInvGives ==
    ASSUME WireInv
    PROVE  OneTurnOnTheWire
<1>1. TurnLines = At(stdin, TurnKinds) /\ ResultLines = At(stdout, ResultKinds)
  BY DEF TurnLines, ResultLines, At, TurnKinds, ResultKinds, IsResult
<1> QED
  BY <1>1 DEF WireInv, Wire, OneTurnOnTheWire, Has, AtMostOne, Index, HasTurn, Quarantined

\* After its result has been read a turn has left nothing on the wire, so that the
\* next may be sent whether the result ended it or lifted its quarantine.
LEMMA ResultClearsWire ==
    ASSUME NEW a, NEW q, NEW in, NEW out \in Seq(StdoutLines), NEW w, NEW c,
           Wire(a, q, in, out, w, c), out # <<>>, Head(out).kind \in ResultKinds,
           NEW b, b.origin = "none", NEW p
    PROVE  Wire(b, p, in, Tail(out), w, c)
<1>1. ~Has(Tail(out), ResultKinds) /\ AtMostOne(Tail(out), ResultKinds)
      /\ Has(out, ResultKinds)
  BY TailLines DEF Wire
<1> QED BY <1>1 DEF Wire

\* A line that is no result changes nothing on the wire.
LEMMA OutputKeepsWire ==
    ASSUME NEW a, NEW q, NEW in, NEW out \in Seq(StdoutLines), NEW w, NEW c,
           Wire(a, q, in, out, w, c), out # <<>>, Head(out).kind \notin ResultKinds,
           NEW b, b.origin = a.origin, b.index = a.index
    PROVE  Wire(b, q, in, Tail(out), w, c)
<1>1. /\ AtMostOne(Tail(out), ResultKinds)
      /\ Index(out, ResultKinds, a.index) => Index(Tail(out), ResultKinds, a.index)
      /\ Has(Tail(out), ResultKinds) <=> Has(out, ResultKinds)
  BY TailLines DEF Wire
<1> QED BY <1>1 DEF Wire

\* An interrupt written to the CLI is not a turn.
LEMMA InterruptKeepsWire ==
    ASSUME NEW a, NEW q, NEW in \in Seq(StdinLines), NEW out, NEW w, NEW x \in StdinLines,
           Wire(a, q, in, out, w, "alive"), x.kind # "turn",
           NEW b, b.origin = a.origin, b.index = a.index
    PROVE  Wire(b, q, Append(in, x), out, w, "alive")
<1>1. x.kind \notin TurnKinds
  BY DEF TurnKinds
<1>2. /\ Has(Append(in, x), TurnKinds) <=> Has(in, TurnKinds)
      /\ AtMostOne(in, TurnKinds) => AtMostOne(Append(in, x), TurnKinds)
      /\ Index(in, TurnKinds, a.index) => Index(Append(in, x), TurnKinds, a.index)
  BY <1>1, AppendLines
<1> QED BY <1>2 DEF Wire

\* A turn sent when none is active and nothing is quarantined is the only one.
LEMMA TurnSent ==
    ASSUME NEW a, NEW in \in Seq(StdinLines), NEW out, NEW w, NEW i \in Nat,
           Wire(a, "off", in, out, w, "alive"), a.origin = "none",
           NEW b, b.origin # "none", b.index = i
    PROVE  Wire(b, "off", Append(in, [kind |-> "turn", index |-> i]), out, w, "alive")
<1> DEFINE x == [kind |-> "turn", index |-> i]
<1>1. x \in StdinLines /\ x.kind \in TurnKinds /\ x.index = i
  BY DEF StdinLines, TurnKinds
<1>2. ~Has(in, TurnKinds) /\ ~w.busy /\ ~Has(out, ResultKinds)
  BY DEF Wire
<1> HIDE DEF x
<1>3. /\ Has(Append(in, x), TurnKinds)
      /\ AtMostOne(Append(in, x), TurnKinds)
      /\ Index(Append(in, x), TurnKinds, i)
  BY <1>1, <1>2, AppendLines
<1>4. Index(out, ResultKinds, i)
  BY <1>2 DEF Has, Index
<1>5. Wire(b, "off", Append(in, x), out, w, "alive")
  BY <1>2, <1>3, <1>4 DEF Wire
<1> QED BY <1>5 DEF x

\* try_dispatch sends a turn only when the wire is free ("HC #1").
LEMMA DispatchKeepsWire ==
    ASSUME TypeOK,
           NEW a \in Turns, NEW q \in Seq(Tickets), NEW r, NEW n \in Nat, NEW p, NEW m,
           TryDispatch(a, q, r, n, p, m), UNCHANGED <<work, proc>>,
           Wire(a, quarantine', stdin, stdout', work, proc)
    PROVE  Wire(active, quarantine, stdin, stdout, work, proc)'
<1>0. stdin \in Seq(StdinLines)
  BY DEF TypeOK
<1>1. CASE NoDispatch(a, q, r, n, p, m)
  BY <1>1 DEF NoDispatch
<1>2. ASSUME MayDispatch(a), NEW i \in Nat, NEW o \in {"user", "ralph"}, CanWrite,
             active' = NewTurn(o, i),
             stdin' = Append(stdin, [kind |-> "turn", index |-> i])
      PROVE  Wire(active, quarantine, stdin, stdout, work, proc)'
  <2>1. active'.origin # "none" /\ active'.index = i
    BY <1>2 DEF NewTurn
  <2>2. proc = "alive" /\ quarantine' = "off" /\ a.origin = "none"
    BY <1>2 DEF CanWrite, MayDispatch
  <2> QED BY <1>0, <1>2, <2>1, <2>2, TurnSent
<1>3. ASSUME MayDispatch(a), ~CanWrite, active' = NoTurn, UNCHANGED stdin
      PROVE  Wire(active, quarantine, stdin, stdout, work, proc)'
  <2>1. active'.origin = "none" /\ a.origin = "none"
    BY <1>3 DEF NoTurn, NewTurn, MayDispatch
  <2> QED BY <1>3, <2>1 DEF Wire
<1>4. CASE q # <<>> /\ MayDispatch(a) /\ StartUserTurn(Head(q), Tail(q), PauseRalph(r), n, p, m)
  <2>1. Head(q).index \in Nat
    <3>1. Head(q) \in Tickets
      BY <1>4, TailType
    <3> QED BY <3>1 DEF Tickets
  <2> QED BY <1>2, <1>3, <1>4, <2>1 DEF StartUserTurn
<1>5. CASE MayDispatch(a) /\ StartRalphTurn(q, RestartedRalph(r), n, p, m)
  BY <1>2, <1>3, <1>5 DEF StartRalphTurn
<1> QED BY <1>1, <1>4, <1>5 DEF TryDispatch

\* Nothing is on the wire of a fresh actor.
LEMMA InitWire == Init => WireInv
BY NoLines, SMTT(30) DEF Init, WireInv, Wire, EndedSession, NoTurn, NewTurn, HasTurn, NoWork

\* The commands of the users, the ticks and the clocks keep the wire.
LEMMA ActorKeepsWire ==
    ASSUME TypeOK, WireInv, Commands \/ Tick \/ Elapse \/ Eof
    PROVE  WireInv'
<1> USE DEF WireInv, EndedSession
<1>t. /\ active \in Turns /\ queue \in Seq(Tickets) /\ nextIndex \in Nat
      /\ stdin \in Seq(StdinLines) /\ stdout \in Seq(StdoutLines)
  BY DEF TypeOK
<1>1. ASSUME NEW m \in Messages, HandleSendMessage(m) PROVE WireInv'
  <2>1. PushBack([msg |-> m, index |-> nextIndex]) \in Seq(Tickets) /\ nextIndex + 1 \in Nat
    <3>1. [msg |-> m, index |-> nextIndex] \in Tickets
      BY <1>t DEF Tickets
    <3> QED BY <1>t, <3>1, AppendType DEF PushBack
  <2>2. Wire(active, quarantine, stdin, stdout, work, proc)'
    BY <1>1, <1>t, <2>1, DispatchKeepsWire DEF HandleSendMessage
  <2> QED BY <1>1, <2>2 DEF HandleSendMessage
<1>2. ASSUME NEW max \in RalphMax, NEW promise \in RalphPromise, StartRalphLoop(max, promise)
      PROVE  WireInv'
  <2>1. Wire(active, quarantine, stdin, stdout, work, proc)'
    BY <1>2, <1>t, DispatchKeepsWire DEF StartRalphLoop
  <2> QED BY <1>2, <2>1 DEF StartRalphLoop
<1>3. ASSUME TickRalphRetry PROVE WireInv'
  <2>1. Wire(active, quarantine, stdin, stdout, work, proc)'
    BY <1>3, <1>t, DispatchKeepsWire DEF TickRalphRetry
  <2> QED BY <1>3, <2>1 DEF TickRalphRetry
<1>4. ASSUME CancelRalphLoop \/ ElapseBackoff PROVE WireInv'
  BY <1>4 DEF CancelRalphLoop, ElapseBackoff, outVars, cliVars, HasTurn
<1>5. ASSUME SendInterrupt PROVE WireInv'
  <2>1. active'.origin = active.origin /\ active'.index = active.index
    BY <1>5, <1>t DEF SendInterrupt, Turns
  <2>2. [kind |-> "interrupt", index |-> 0] \in StdinLines
    BY DEF StdinLines
  <2>3. CASE stdin' = Append(stdin, [kind |-> "interrupt", index |-> 0]) /\ CanWrite
    <3>1. Wire(active, quarantine, stdin, stdout, work, proc)'
      BY <1>5, <1>t, <2>1, <2>2, <2>3, InterruptKeepsWire DEF SendInterrupt, CanWrite
    <3> QED BY <1>5, <3>1 DEF SendInterrupt
  <2>4. CASE UNCHANGED stdin
    BY <1>5, <2>1, <2>4 DEF SendInterrupt, Wire
  <2> QED BY <1>5, <2>3, <2>4 DEF SendInterrupt
<1>6. ASSUME TickQuarantineInterrupt PROVE WireInv'
  <2>1. [kind |-> "quarantineInterrupt", index |-> 0] \in StdinLines
    BY DEF StdinLines
  <2>2. Wire(active, quarantine', stdin, stdout, work, proc)
    BY <1>6 DEF TickQuarantineInterrupt, Wire
  <2>3. Wire(active, quarantine, stdin, stdout, work, proc)'
    <3>1. CASE CanWrite
      BY <1>6, <1>t, <2>1, <2>2, <3>1, InterruptKeepsWire DEF TickQuarantineInterrupt, CanWrite
    <3>2. CASE ~CanWrite
      BY <1>6, <2>2, <3>2 DEF TickQuarantineInterrupt
    <3> QED BY <3>1, <3>2
  <2> QED BY <1>6, <2>3 DEF TickQuarantineInterrupt
<1>7. ASSUME TickHardTimeout PROVE WireInv'
  BY <1>7 DEF TickHardTimeout, Wire, NoTurn, NewTurn, HasTurn, cliVars
<1>8. ASSUME ElapseTurn PROVE WireInv'
  <2>1. active'.origin = active.origin /\ active'.index = active.index
    BY <1>8, <1>t DEF ElapseTurn, Turns
  <2> QED BY <1>8, <2>1 DEF ElapseTurn, Wire, cliVars
<1>9. ASSUME ElapseQuarantine PROVE WireInv'
  BY <1>9 DEF ElapseQuarantine, Wire, cliVars
<1>10. ASSUME NEW why, NEW m, EndLoop(why, m) PROVE WireInv'
  <2>1. proc' # "alive" /\ stdin' = <<>> /\ stdout' = <<>> /\ work' = NoWork /\ active' = NoTurn
    BY <1>10 DEF EndLoop
  <2> QED BY <2>1, NoLines DEF Wire, NoWork, NoTurn, NewTurn, HasTurn
<1> HIDE DEF WireInv, EndedSession
<1> QED
  BY <1>1, <1>2, <1>3, <1>4, <1>5, <1>6, <1>7, <1>8, <1>9, <1>10
     DEF Commands, Tick, Elapse, Eof, HandleStop, HandleEof, TickQuarantineKill

\* So does every line read from the CLI.
LEMMA ReadKeepsWire ==
    ASSUME TypeOK, WireInv, ReadStdout
    PROVE  WireInv'
<1> USE DEF WireInv
<1>t. /\ active \in Turns /\ queue \in Seq(Tickets) /\ nextIndex \in Nat
      /\ stdout \in Seq(StdoutLines) /\ NoTurn \in Turns /\ NoTurn.origin = "none"
  BY DEF TypeOK, NoTurn, NewTurn, Turns, Origins
<1>r. ReadLine => /\ stdout # <<>> /\ stdout' = Tail(stdout) /\ NextLine = Head(stdout)
                  /\ IsResult(NextLine) <=> Head(stdout).kind \in ResultKinds
  BY DEF ReadLine, NextLine, IsResult, ResultKinds
<1>e. UNCHANGED ended /\ ended = "no" => EndedSession'
  BY DEF EndedSession
<1>1. ASSUME HandleOutput PROVE WireInv'
  <2>1. active'.origin = active.origin /\ active'.index = active.index
    BY <1>1, <1>t DEF HandleOutput, Turns
  <2>2. Head(stdout).kind \notin ResultKinds
    BY <1>1 DEF HandleOutput, NextLine, ResultKinds
  <2>3. Wire(active, quarantine, stdin, stdout, work, proc)'
    <3>1. Wire(active', quarantine, stdin, Tail(stdout), work, proc)
      BY <1>1, <1>t, <1>r, <2>1, <2>2, OutputKeepsWire DEF HandleOutput
    <3> QED BY <1>1, <1>r, <3>1 DEF HandleOutput
  <2> QED BY <1>1, <1>e, <2>3 DEF HandleOutput, ReadLine
<1>2. ASSUME HandleTurnResult PROVE WireInv'
  <2>1. PICK r, m : \/ HasTurn /\ TryDispatch(NoTurn, queue, r, nextIndex, reply, m)
                    \/ ~HasTurn /\ NoDispatch(active, queue, ralph, nextIndex, reply, m)
    BY <1>2 DEF HandleTurnResult
  <2>2. ReadLine /\ IsResult(NextLine) /\ UNCHANGED <<quarantine, work, proc>>
    BY <1>2 DEF HandleTurnResult
  <2>3. \A b : b.origin = "none" => Wire(b, quarantine', stdin, stdout', work, proc)
    BY <1>t, <1>r, <2>2, ResultClearsWire
  <2>4. Wire(active, quarantine, stdin, stdout, work, proc)'
    <3>1. CASE TryDispatch(NoTurn, queue, r, nextIndex, reply, m)
      BY <1>t, <2>2, <2>3, <3>1, DispatchKeepsWire
    <3>2. CASE ~HasTurn /\ NoDispatch(active, queue, ralph, nextIndex, reply, m)
      <4>1. Wire(active, quarantine', stdin, stdout', work, proc)
        BY <2>3, <3>2 DEF HasTurn
      <4> QED BY <2>2, <3>2, <4>1 DEF NoDispatch
    <3> QED BY <2>1, <3>1, <3>2
  <2> QED BY <1>2, <1>e, <2>4 DEF HandleTurnResult, ReadLine
<1>3. ASSUME LiftQuarantine PROVE WireInv'
  <2>1. active.origin = "none"
    BY <1>3 DEF LiftQuarantine, Quarantined, Wire
  <2>2. ReadLine /\ IsResult(NextLine) /\ UNCHANGED <<work, proc>>
        /\ TryDispatch(active, queue, ralph, nextIndex, reply, run)
    BY <1>3 DEF LiftQuarantine
  <2>3. Wire(active, quarantine', stdin, stdout', work, proc)
    BY <1>t, <1>r, <2>1, <2>2, ResultClearsWire
  <2>4. Wire(active, quarantine, stdin, stdout, work, proc)'
    BY <1>t, <2>2, <2>3, DispatchKeepsWire
  <2> QED BY <1>3, <1>e, <2>4 DEF LiftQuarantine, ReadLine
<1>4. ASSUME HandleCodexReady PROVE WireInv'
  <2>1. Head(stdout).kind \notin ResultKinds
    BY <1>4 DEF HandleCodexReady, NextLine, ResultKinds
  <2>2. ReadLine /\ UNCHANGED <<quarantine, work, proc>>
        /\ TryDispatch(active, queue, ralph, nextIndex, reply, run)
    BY <1>4 DEF HandleCodexReady
  <2>3. Wire(active, quarantine', stdin, stdout', work, proc)
    BY <1>t, <1>r, <2>1, <2>2, OutputKeepsWire
  <2>4. Wire(active, quarantine, stdin, stdout, work, proc)'
    BY <1>t, <2>2, <2>3, DispatchKeepsWire
  <2> QED BY <1>4, <1>e, <2>4 DEF HandleCodexReady, ReadLine
<1>5. ASSUME HandleCodexTurnEnd PROVE WireInv'
  <2>1. PICK m : TryDispatch(NoTurn, queue, ralph, nextIndex, reply, m)
    BY <1>5 DEF HandleCodexTurnEnd
  <2>2. ReadLine /\ IsResult(NextLine) /\ UNCHANGED <<quarantine, work, proc>>
    BY <1>5 DEF HandleCodexTurnEnd
  <2>3. Wire(NoTurn, quarantine', stdin, stdout', work, proc)
    BY <1>t, <1>r, <2>2, ResultClearsWire
  <2>4. Wire(active, quarantine, stdin, stdout, work, proc)'
    BY <1>t, <2>1, <2>2, <2>3, DispatchKeepsWire
  <2> QED BY <1>5, <1>e, <2>4 DEF HandleCodexTurnEnd, ReadLine
<1> HIDE DEF WireInv
<1> QED BY <1>1, <1>2, <1>3, <1>4, <1>5 DEF ReadStdout

\* A line of the CLI that is no result.
LEMMA SpeechKeepsWire ==
    ASSUME NEW a, NEW q, NEW in, NEW out \in Seq(StdoutLines), NEW w, NEW c,
           NEW x \in StdoutLines, Wire(a, q, in, out, w, c), x.kind \notin ResultKinds,
           NEW v, v.busy = w.busy, v.index = w.index
    PROVE  Wire(a, q, in, Append(out, x), v, c)
<1>1. /\ Has(Append(out, x), ResultKinds) <=> Has(out, ResultKinds)
      /\ AtMostOne(out, ResultKinds) => AtMostOne(Append(out, x), ResultKinds)
      /\ Index(out, ResultKinds, a.index) => Index(Append(out, x), ResultKinds, a.index)
  BY AppendLines
<1> QED BY <1>1 DEF Wire

\* The result of the turn that the CLI is working on is the only one.
LEMMA ResultKeepsWire ==
    ASSUME NEW a, NEW q, NEW in, NEW out \in Seq(StdoutLines),
           NEW w, w.busy = TRUE, NEW x \in StdoutLines,
           Wire(a, q, in, out, w, "alive"), x.kind \in ResultKinds, x.index = w.index
    PROVE  Wire(a, q, in, Append(out, x), NoWork, "alive")
<1>1. ~Has(out, ResultKinds) /\ ~Has(in, TurnKinds)
  BY DEF Wire
<1>2. /\ Has(Append(out, x), ResultKinds) /\ AtMostOne(Append(out, x), ResultKinds)
      /\ x.index = a.index => Index(Append(out, x), ResultKinds, a.index)
  BY <1>1, AppendLines
<1>3. NoWork.busy = FALSE
  BY DEF NoWork
<1> QED BY <1>1, <1>2, <1>3 DEF Wire

\* So does every step of the CLI: it works on the turn it has read and answers that.
LEMMA CliKeepsWire ==
    ASSUME TypeOK, WireInv, Cli
    PROVE  WireInv'
<1>t. /\ stdin \in Seq(StdinLines) /\ stdout \in Seq(StdoutLines)
      /\ work \in [busy : BOOLEAN, index : Nat, spoke : BOOLEAN]
      /\ \A k \in {"ok", "error", "ack", "text", "promise"} :
            [kind |-> k, index |-> work.index] \in StdoutLines
  BY DEF TypeOK, StdoutLines
<1>u. CliUnchanged => UNCHANGED <<active, quarantine, ended>>
  BY DEF CliUnchanged, actorVars
<1>f. UNCHANGED ended /\ proc = "alive" /\ UNCHANGED active => EndedSession'
  BY DEF WireInv, EndedSession
<1> USE DEF WireInv
<1>1. ASSUME CliOpensThread PROVE WireInv'
  <2>1. stdout' = Append(stdout, [kind |-> "ready", index |-> 0]) /\ UNCHANGED work
    BY <1>1 DEF CliOpensThread
  <2>2. [kind |-> "ready", index |-> 0] \in StdoutLines
        /\ [kind |-> "ready", index |-> 0].kind \notin ResultKinds
    BY DEF StdoutLines, ResultKinds
  <2>3. Wire(active, quarantine, stdin, stdout', work', proc)
    BY <1>t, <2>1, <2>2, SpeechKeepsWire
  <2> QED BY <1>1, <1>u, <1>f, <2>3 DEF CliOpensThread
<1>2. ASSUME CliTakesTurn PROVE WireInv'
  <2>1. /\ stdin # <<>> /\ Head(stdin).kind \in TurnKinds /\ ~work.busy
        /\ work'.busy = TRUE /\ work'.index = Head(stdin).index
        /\ stdin' = Tail(stdin) /\ UNCHANGED stdout /\ proc = "alive" /\ UNCHANGED proc
    BY <1>2 DEF CliTakesTurn, TurnKinds
  <2>2. /\ ~Has(Tail(stdin), TurnKinds) /\ AtMostOne(Tail(stdin), TurnKinds)
        /\ Has(stdin, TurnKinds)
        /\ Index(stdin, TurnKinds, active.index) => Head(stdin).index = active.index
        /\ Index(stdin, TurnKinds, active.index) => Index(Tail(stdin), TurnKinds, active.index)
    BY <1>t, <2>1, TailLines DEF Wire
  <2>3. Wire(active, quarantine, stdin', stdout, work', proc)
    BY <2>1, <2>2 DEF Wire
  <2> QED BY <1>2, <1>u, <1>f, <2>1, <2>3 DEF CliTakesTurn
<1>3. ASSUME CliTakesInterrupt PROVE WireInv'
  <2>1. /\ stdin # <<>> /\ Head(stdin).kind \notin TurnKinds
        /\ stdin' = Tail(stdin) /\ proc = "alive" /\ UNCHANGED proc
    BY <1>3 DEF CliTakesInterrupt, TurnKinds
  <2>2. /\ Has(Tail(stdin), TurnKinds) <=> Has(stdin, TurnKinds)
        /\ AtMostOne(Tail(stdin), TurnKinds)
        /\ Index(stdin, TurnKinds, active.index) => Index(Tail(stdin), TurnKinds, active.index)
    BY <1>t, <2>1, TailLines DEF Wire
  <2>3. Wire(active, quarantine, stdin', stdout, work, proc)
    BY <2>1, <2>2 DEF Wire
  <2>4. Wire(active, quarantine, stdin', stdout', work', proc)
    <3>1. CASE UNCHANGED <<stdout, work>>
      BY <2>3, <3>1
    <3>2. CASE /\ work.busy = TRUE /\ work' = NoWork
               /\ stdout' = Append(stdout, [kind |-> "ack", index |-> work.index])
      BY <1>t, <2>1, <2>3, <3>2, ResultKeepsWire DEF ResultKinds
    <3> QED BY <1>3, <1>t, <3>1, <3>2 DEF CliTakesInterrupt
  <2> QED BY <1>3, <1>u, <1>f, <2>1, <2>4 DEF CliTakesInterrupt
<1>4. ASSUME NEW kind \in {"text", "promise"}, CliSpeaks(kind) PROVE WireInv'
  <2>1. work'.busy = work.busy /\ work'.index = work.index
        /\ stdout' = Append(stdout, [kind |-> kind, index |-> work.index])
    BY <1>4, <1>t DEF CliSpeaks
  <2>2. Wire(active, quarantine, stdin, stdout', work', proc)
    BY <1>4, <1>t, <2>1, SpeechKeepsWire DEF ResultKinds
  <2> QED BY <1>4, <1>u, <1>f, <2>2 DEF CliSpeaks
<1>5. ASSUME NEW kind \in {"ok", "error"}, CliFinishes(kind) PROVE WireInv'
  <2>1. work.busy = TRUE /\ work' = NoWork /\ proc = "alive"
        /\ stdout' = Append(stdout, [kind |-> kind, index |-> work.index])
    BY <1>5, <1>t DEF CliFinishes
  <2>2. Wire(active, quarantine, stdin, stdout', work', proc)
    BY <1>5, <1>t, <2>1, ResultKeepsWire DEF ResultKinds
  <2> QED BY <1>5, <1>u, <1>f, <2>1, <2>2 DEF CliFinishes
<1>6. ASSUME NEW how \in {"exited0", "exited1"}, CliExits(how) PROVE WireInv'
  <2>1. Wire(active, quarantine, <<>>, stdout, NoWork, how)
    BY NoLines DEF Wire, NoWork
  <2> QED BY <1>6, <1>u, <1>f, <2>1 DEF CliExits
<1> HIDE DEF WireInv
<1> QED BY <1>1, <1>2, <1>3, <1>4, <1>5, <1>6 DEF Cli

\* Every step keeps one turn on the wire.
LEMMA StepKeepsWire == TypeOK /\ WireInv /\ [Next]_vars => WireInv'
<1> SUFFICES ASSUME TypeOK, WireInv, [Next]_vars PROVE WireInv'
  OBVIOUS
<1>1. CASE UNCHANGED vars
  BY <1>1 DEF vars, actorVars, cliVars, WireInv, EndedSession, HasTurn
<1> QED BY <1>1, ActorKeepsWire, ReadKeepsWire, CliKeepsWire DEF Next

\* Whatever the users send and interrupt, whichever turns hang, are quarantined or die
\* with the CLI, on either transport: at most one user line is on its way to the CLI,
\* being worked on or answered and not yet read, and its answer is taken for that
\* turn's ("HC #1": try_dispatch, on_tick_timeout, handle_stdout_line).
THEOREM OneTurnAtATime == Spec => []OneTurnOnTheWire
<1>1. Init => TypeOK /\ WireInv
  BY InitTypes, InitWire
<1>2. (TypeOK /\ WireInv) /\ [Next]_vars => (TypeOK /\ WireInv)'
  BY StepTypes, StepKeepsWire
<1>3. WireInv => OneTurnOnTheWire
  BY WireInvGives
<1> QED BY <1>1, <1>2, <1>3, PTL DEF Spec

-----------------------------------------------------------------------------
(* The index of a turn *)

\* As long as lines can be written, the tickets q carry the indices that follow those
\* of the u messages in the log, and n is the next one.
Numbered(q, n, u) ==
    CanWrite => /\ n = u + Len(q)
                /\ \A i \in 1..Len(q) : q[i].index + 1 = u + i

IndexInv == Numbered(queue, nextIndex, userEvents) /\ IndexMatchesLog

\* A ticket takes the next index.
LEMMA NumberedAppend ==
    ASSUME NEW q \in Seq(Tickets), NEW n \in Nat, NEW u \in Nat, Numbered(q, n, u),
           NEW t \in Tickets, t.index = n
    PROVE  Numbered(Append(q, t), n + 1, u)
<1>1. /\ Len(Append(q, t)) = Len(q) + 1 /\ Len(q) \in Nat
      /\ \A i \in 1..Len(q) : Append(q, t)[i] = q[i]
      /\ Append(q, t)[Len(q) + 1] = t
  OBVIOUS
<1> DEFINE s == Append(q, t)
<1> HIDE DEF s
<1>2. Numbered(s, n + 1, u)
  BY <1>1 DEF Numbered, s
<1> QED BY <1>2 DEF s

\* The oldest ticket has the index of the next message in the log.
LEMMA NumberedTail ==
    ASSUME NEW q \in Seq(Tickets), q # <<>>, NEW n \in Nat, NEW u \in Nat, Numbered(q, n, u),
           CanWrite
    PROVE  Numbered(Tail(q), n, u + 1) /\ Head(q).index + 1 = u + 1
<1>1. /\ Len(Tail(q)) = Len(q) - 1 /\ Len(q) \in Nat \ {0}
      /\ \A i \in 1..(Len(q) - 1) : Tail(q)[i] = q[i + 1]
      /\ Head(q) = q[1]
  OBVIOUS
<1> DEFINE s == Tail(q)
<1> HIDE DEF s
<1>2. n = u + Len(q) /\ \A i \in 1..Len(q) : q[i].index + 1 = u + i
  BY DEF Numbered
<1>3. Head(q).index + 1 = u + 1
  <2>1. 1 \in 1..Len(q)
    BY <1>1
  <2> QED BY <1>1, <1>2, <2>1
<1>4. n = (u + 1) + Len(s)
  BY <1>1, <1>2 DEF s
<1>5. ASSUME NEW i \in 1..Len(s)
      PROVE  s[i].index + 1 = (u + 1) + i
  <2>1. i \in 1..(Len(q) - 1) /\ i + 1 \in 1..Len(q) /\ s[i] = q[i + 1]
    BY <1>1 DEF s
  <2>2. q[i + 1].index + 1 = u + (i + 1)
    BY <1>2, <2>1
  <2>3. u + (i + 1) = (u + 1) + i
    BY <2>1
  <2> QED BY <2>1, <2>2, <2>3
<1>6. Numbered(s, n, u + 1)
  BY <1>4, <1>5 DEF Numbered
<1> QED BY <1>3, <1>6 DEF s

\* try_dispatch logs the message of the turn it starts.
LEMMA DispatchNumbers ==
    ASSUME TypeOK, NEW a \in Turns, NEW q \in Seq(Tickets), NEW r, NEW n \in Nat, NEW p, NEW m,
           TryDispatch(a, q, r, n, p, m), UNCHANGED proc,
           Numbered(q, n, userEvents),
           a.origin # "none" => a.index + 1 = userEvents
    PROVE  IndexInv'
<1>u. userEvents \in Nat /\ (CanWrite' <=> CanWrite)
  BY DEF TypeOK, CanWrite
<1>1. CASE NoDispatch(a, q, r, n, p, m)
  BY <1>1, <1>u DEF NoDispatch, IndexInv, Numbered, IndexMatchesLog, HasTurn
<1>2. CASE q # <<>> /\ StartUserTurn(Head(q), Tail(q), PauseRalph(r), n, p, m)
  <2>1. CASE CanWrite
    <3>1. Numbered(Tail(q), n, userEvents + 1) /\ Head(q).index + 1 = userEvents + 1
      BY <1>2, <1>u, <2>1, NumberedTail
    <3>2. /\ queue' = Tail(q) /\ nextIndex' = n /\ userEvents' = userEvents + 1
          /\ active' = NewTurn("user", Head(q).index)
      BY <1>2, <2>1 DEF StartUserTurn
    <3>3. active'.index = Head(q).index
      BY <3>2 DEF NewTurn
    <3> QED BY <1>u, <3>1, <3>2, <3>3 DEF IndexInv, Numbered, IndexMatchesLog
  <2>2. CASE ~CanWrite
    <3>1. active'.origin = "none"
      BY <1>2, <2>2 DEF StartUserTurn, NoTurn, NewTurn
    <3> QED BY <1>u, <2>2, <3>1 DEF IndexInv, Numbered, IndexMatchesLog, HasTurn
  <2> QED BY <2>1, <2>2
<1>3. CASE q = <<>> /\ StartRalphTurn(q, RestartedRalph(r), n, p, m)
  <2>1. CASE CanWrite
    <3>1. n = userEvents
      BY <1>3, <1>u, <2>1 DEF Numbered
    <3>2. /\ queue' = <<>> /\ nextIndex' = n + 1 /\ userEvents' = userEvents + 1
          /\ active' = NewTurn("ralph", n)
      BY <1>3, <2>1 DEF StartRalphTurn
    <3>3. active'.index = n
      BY <3>2 DEF NewTurn
    <3> QED BY <1>u, <3>1, <3>2, <3>3 DEF IndexInv, Numbered, IndexMatchesLog
  <2>2. CASE ~CanWrite
    <3>1. active'.origin = "none"
      BY <1>3, <2>2 DEF StartRalphTurn, NoTurn, NewTurn
    <3> QED BY <1>u, <2>2, <3>1 DEF IndexInv, Numbered, IndexMatchesLog, HasTurn
  <2> QED BY <2>1, <2>2
<1> QED BY <1>1, <1>2, <1>3 DEF TryDispatch

\* A fresh or resumed actor has counted the messages in the log.
LEMMA InitNumbers == Init => IndexInv
BY ConstantsAssumption DEF Init, IndexInv, Numbered, IndexMatchesLog, HasTurn, NoTurn, NewTurn

\* Every step keeps the indices.
LEMMA StepNumbers == TypeOK /\ IndexInv /\ [Next]_vars => IndexInv'
<1> SUFFICES ASSUME TypeOK, IndexInv, [Next]_vars PROVE IndexInv'
  OBVIOUS
<1>t. /\ active \in Turns /\ queue \in Seq(Tickets) /\ nextIndex \in Nat /\ userEvents \in Nat
      /\ NoTurn \in Turns /\ NoTurn.origin = "none"
  BY DEF TypeOK, NoTurn, NewTurn, Turns, Origins
<1>i. /\ Numbered(queue, nextIndex, userEvents)
      /\ active.origin # "none" => active.index + 1 = userEvents
  BY DEF IndexInv, IndexMatchesLog, HasTurn
<1>k. ASSUME UNCHANGED <<queue, nextIndex, userEvents>>, proc' = "alive" => CanWrite,
             \/ active'.origin = active.origin /\ active'.index = active.index
             \/ active'.origin = "none"
      PROVE  IndexInv'
  BY <1>k, <1>i DEF IndexInv, Numbered, IndexMatchesLog, HasTurn, CanWrite
<1>d. ASSUME NEW r, NEW p, NEW m, UNCHANGED proc,
             TryDispatch(active, queue, r, nextIndex, p, m)
             \/ TryDispatch(NoTurn, queue, r, nextIndex, p, m)
      PROVE  IndexInv'
  BY <1>d, <1>t, <1>i, DispatchNumbers
<1>1. ASSUME NEW m \in Messages, HandleSendMessage(m) PROVE IndexInv'
  <2> DEFINE t == [msg |-> m, index |-> nextIndex]
  <2>1. t \in Tickets /\ t.index = nextIndex
    BY <1>t DEF Tickets
  <2> HIDE DEF t
  <2>2. /\ Append(queue, t) \in Seq(Tickets) /\ nextIndex + 1 \in Nat
        /\ Numbered(Append(queue, t), nextIndex + 1, userEvents)
    BY <1>t, <1>i, <2>1, AppendType, NumberedAppend
  <2>3. UNCHANGED proc /\ TryDispatch(active, Append(queue, t), ralph, nextIndex + 1,
                                      [reply EXCEPT ![m] = "pending"], run)
    BY <1>1 DEF HandleSendMessage, PushBack, t
  <2> QED BY <1>t, <1>i, <2>2, <2>3, DispatchNumbers
<1>2. ASSUME NEW max, NEW promise, StartRalphLoop(max, promise) PROVE IndexInv'
  BY <1>2, <1>d DEF StartRalphLoop
<1>3. ASSUME TickRalphRetry \/ LiftQuarantine \/ HandleCodexReady \/ HandleCodexTurnEnd
      PROVE  IndexInv'
  BY <1>3, <1>d DEF TickRalphRetry, LiftQuarantine, HandleCodexReady, HandleCodexTurnEnd
<1>4. ASSUME HandleTurnResult PROVE IndexInv'
  <2>1. PICK r, m : \/ TryDispatch(NoTurn, queue, r, nextIndex, reply, m)
                    \/ NoDispatch(active, queue, r, nextIndex, reply, m)
    BY <1>4 DEF HandleTurnResult
  <2>2. UNCHANGED proc
    BY <1>4 DEF HandleTurnResult
  <2> QED BY <1>d, <1>k, <2>1, <2>2 DEF NoDispatch, CanWrite
<1>5. ASSUME NEW why, NEW m, EndLoop(why, m) PROVE IndexInv'
  <2>1. proc' # "alive" /\ active' = NoTurn
    BY <1>5 DEF EndLoop
  <2> QED BY <1>t, <2>1 DEF IndexInv, Numbered, CanWrite, IndexMatchesLog, HasTurn
<1>6. ASSUME \/ CancelRalphLoop \/ SendInterrupt \/ TickHardTimeout \/ TickQuarantineInterrupt
             \/ Elapse \/ HandleOutput \/ UNCHANGED vars
      PROVE  IndexInv'
  <2>1. UNCHANGED <<queue, nextIndex, userEvents, proc>>
    BY <1>6
       DEF CancelRalphLoop, SendInterrupt, TickHardTimeout, TickQuarantineInterrupt, Elapse,
           ElapseTurn, ElapseQuarantine, ElapseBackoff, HandleOutput, vars, actorVars,
           outVars, cliVars
  <2>2. \/ UNCHANGED active
        \/ active' = NoTurn
        \/ \E b \in BOOLEAN : \/ active' = [active EXCEPT !.due = b]
                              \/ active' = [active EXCEPT !.asked = b]
    BY <1>6
       DEF CancelRalphLoop, SendInterrupt, HasTurn, TickHardTimeout, TickQuarantineInterrupt,
           Elapse, ElapseTurn, ElapseQuarantine, ElapseBackoff, HandleOutput, vars, actorVars
  <2>3. \/ active'.origin = active.origin /\ active'.index = active.index
        \/ active'.origin = "none"
    BY <1>t, <2>2 DEF Turns
  <2> QED BY <1>k, <2>1, <2>3 DEF CanWrite
<1>7. ASSUME Cli PROVE IndexInv'
  <2>1. UNCHANGED <<queue, nextIndex, userEvents, active>> /\ CanWrite
    BY <1>7
       DEF Cli, CliUnchanged, CliOpensThread, CliTakesTurn, CliTakesInterrupt, CliSpeaks,
           CliFinishes, CliExits, actorVars, outVars, CanWrite
  <2> QED BY <1>k, <2>1
<1>8. HandleStop \/ Eof \/ TickQuarantineKill => \E why, m : EndLoop(why, m)
  BY DEF HandleStop, Eof, HandleEof, TickQuarantineKill
<1> QED
  BY <1>1, <1>2, <1>3, <1>4, <1>5, <1>6, <1>7, <1>8 DEF Next, Commands, ReadStdout, Tick

\* The turn index that a turn carries is the number of user messages in the log before
\* its own, whatever is queued while other turns run, and for Ralph turns and resumed
\* sessions alike (next_turn_index, count_user_messages).
THEOREM TurnIndexMatchesLog == Spec => []IndexMatchesLog
<1>1. Init => TypeOK /\ IndexInv
  BY InitTypes, InitNumbers
<1>2. (TypeOK /\ IndexInv) /\ [Next]_vars => (TypeOK /\ IndexInv)'
  BY StepTypes, StepNumbers
<1>3. IndexInv => IndexMatchesLog
  BY DEF IndexInv
<1> QED BY <1>1, <1>2, <1>3, PTL DEF Spec

-----------------------------------------------------------------------------
(* How a run ends *)

\* A run that has neither ended nor failed.
LiveRun(m) == m.state \in {"unset", "running", "idle"} /\ m.status \in {"Running", "Idle"}

\* While the loop runs, the run is live, and an interrupt that was just taken for the
\* result has cleared what the parser remembered.
EndInv ==
    /\ ended = "no" => LiveRun(run)
    /\ ended # "no" => proc # "alive"
    /\ ended \in {"no", "eof"} /\ lastResult = "interrupted" => ~protocol.got
    /\ ExitStatusIsTrue
    /\ InterruptIsNotFailure

\* Announcements keep a live run alive.
LEMMA AnnouncementsAreLive ==
    ASSUME NEW m \in RunRecords, LiveRun(m), NEW state \in {"running", "idle"},
           NEW b \in BOOLEAN, NEW target \in {"Running", "Idle"}
    PROVE  /\ LiveRun(EmitState(m, state, b))
           /\ LiveRun(PersistIdleRunning(EmitState(m, state, b), target))
           /\ LiveRun([PersistIdleRunning(EmitState(m, state, b), target) EXCEPT !.subtype = TRUE])
<1>1. EmitState(m, state, b) \in RunRecords /\ LiveRun(EmitState(m, state, b))
  BY DEF EmitState, LiveRun, RunRecords, StatusOf, RunStates, Statuses
<1>2. \A r \in RunRecords : LiveRun(r) =>
        /\ LiveRun(PersistIdleRunning(r, target))
        /\ LiveRun([PersistIdleRunning(r, target) EXCEPT !.subtype = TRUE])
  BY DEF PersistIdleRunning, LiveRun, RunRecords, RunStates, Statuses
<1> QED BY <1>1, <1>2

\* try_dispatch announces at most that the run is running.
LEMMA DispatchIsLive ==
    ASSUME NEW a, NEW q, NEW r, NEW n, NEW p, NEW m \in RunRecords, LiveRun(m),
           TryDispatch(a, q, r, n, p, m) \/ NoDispatch(a, q, r, n, p, m)
    PROVE  LiveRun(run)'
<1>1. LiveRun(AnnounceRunning(m))
  BY AnnouncementsAreLive DEF AnnounceRunning
<1>2. run' = m \/ run' = AnnounceRunning(m)
  BY DEF TryDispatch, NoDispatch, StartUserTurn, StartRalphTurn
<1> QED BY <1>1, <1>2 DEF LiveRun

\* The run that ends is marked by how it ended.
LEMMA EndMarksRun ==
    ASSUME TypeOK, EndInv, ended = "no",
           HandleStop \/ TickQuarantineKill \/ Eof
    PROVE  EndInv'
<1> USE DEF EndInv, ExitStatusIsTrue, InterruptIsNotFailure, LiveRun
<1>t. run \in RunRecords /\ protocol \in [got : BOOLEAN, subtype : BOOLEAN]
      /\ proc \in {"alive", "exited0", "exited1"}
  BY DEF TypeOK
<1>1. CASE HandleStop
  BY <1>1, <1>t DEF HandleStop, EndLoop, Terminal
<1>2. CASE TickQuarantineKill
  <2>1. run'.state = "failed" /\ run'.status = "Failed"
    BY <1>2, <1>t DEF TickQuarantineKill, EndLoop, EmitState, StatusOf, RunRecords
  <2>2. ended' = "killed" /\ proc' # "alive"
    BY <1>2, <1>t DEF TickQuarantineKill, EndLoop
  <2> QED BY <2>1, <2>2 DEF Terminal
<1>3. CASE Eof
  <2>1. PICK why \in {"eof", "cancelled"} : HandleEof(why)
    BY <1>3 DEF Eof
  <2>2. /\ ended' = why /\ proc # "alive" /\ proc' = proc
        /\ UNCHANGED <<protocol, lastResult>>
    BY <2>1 DEF HandleEof, EndLoop, auxVars
  <2>3. CASE protocol.got
    <3>1. run' = FinalizeMeta(run)
      BY <2>1, <2>3 DEF HandleEof, EndLoop
    <3>2. run'.status = IF ~run.subtype /\ proc = "exited0" THEN "Completed" ELSE "Failed"
      BY <1>t, <3>1 DEF FinalizeMeta, RunRecords
    <3> QED BY <2>2, <2>3, <3>2 DEF Terminal
  <2>4. CASE ~protocol.got
    <3>1. run' = EmitState(run, ExitState(why), TRUE)
      BY <2>1, <2>4 DEF HandleEof, EndLoop
    <3>2. ExitState(why) # run.state
      BY DEF ExitState
    <3>3. run'.status = StatusOf(ExitState(why))
      BY <3>1, <3>2 DEF EmitState
    <3> QED BY <1>t, <2>2, <2>4, <3>3 DEF StatusOf, ExitState, Terminal
  <2> QED BY <2>3, <2>4
<1> QED BY <1>1, <1>2, <1>3

\* A fresh run is live.
LEMMA InitEnds == Init => EndInv
BY DEF Init, EndInv, LiveRun, ExitStatusIsTrue, InterruptIsNotFailure, Terminal

\* Every step keeps what is known of the end.
LEMMA StepEnds == TypeOK /\ EndInv /\ [Next]_vars => EndInv'
<1> SUFFICES ASSUME TypeOK, EndInv, [Next]_vars PROVE EndInv'
  OBVIOUS
<1>t. run \in RunRecords /\ protocol \in [got : BOOLEAN, subtype : BOOLEAN]
  BY DEF TypeOK
<1>l. ASSUME ended = "no", UNCHANGED ended, LiveRun(run)',
             lastResult' = "interrupted" => ~protocol'.got
      PROVE  EndInv'
  BY <1>l DEF EndInv, LiveRun, ExitStatusIsTrue, InterruptIsNotFailure, Terminal
<1>u. ASSUME ended = "no", UNCHANGED <<ended, run, lastResult, protocol>> PROVE EndInv'
  BY <1>u, <1>l DEF EndInv, LiveRun
<1>d. ASSUME NEW a, NEW q, NEW r, NEW n, NEW p,
             TryDispatch(a, q, r, n, p, run), ended = "no",
             UNCHANGED <<ended, lastResult, protocol>>
      PROVE  EndInv'
  BY <1>d, <1>t, <1>l, DispatchIsLive DEF EndInv
<1>1. ASSUME NEW m, HandleSendMessage(m) PROVE EndInv'
  BY <1>1, <1>d DEF HandleSendMessage, auxVars
<1>2. ASSUME NEW max, NEW promise, StartRalphLoop(max, promise) PROVE EndInv'
  BY <1>2, <1>d DEF StartRalphLoop
<1>3. ASSUME TickRalphRetry \/ HandleCodexReady PROVE EndInv'
  BY <1>3, <1>d DEF TickRalphRetry, HandleCodexReady, ReadLine, auxVars
<1>4. ASSUME \/ CancelRalphLoop \/ SendInterrupt \/ TickHardTimeout
             \/ TickQuarantineInterrupt \/ Elapse \/ HandleOutput
      PROVE  EndInv'
  BY <1>4, <1>u
     DEF CancelRalphLoop, SendInterrupt, TickHardTimeout, TickQuarantineInterrupt, Elapse,
         ElapseTurn, ElapseQuarantine, ElapseBackoff, HandleOutput, ReadLine, outVars, auxVars
<1>5. ASSUME HandleTurnResult PROVE EndInv'
  <2> DEFINE idle  == PersistIdleRunning(EmitState(run, "idle", FALSE), "Idle")
             after == IF pendingInterrupt THEN ClearedErrors ELSE ParsedResult
             m     == IF after.subtype THEN [idle EXCEPT !.subtype = TRUE] ELSE idle
             r     == RalphOnTurnEnd(ralph, active.origin, NextLine.kind # "ok" /\ ~pendingInterrupt)
  <2>1. \/ TryDispatch(NoTurn, queue, r, nextIndex, reply, m)
        \/ NoDispatch(active, queue, ralph, nextIndex, reply, m)
    BY <1>5 DEF HandleTurnResult
  <2>2. ended = "no" /\ UNCHANGED ended
    BY <1>5 DEF HandleTurnResult, ReadLine
  <2>3. idle \in RunRecords /\ [idle EXCEPT !.subtype = TRUE] \in RunRecords
    <3>1. idle \in RunRecords
      BY <1>t, RunTypes DEF RunStates
    <3> HIDE DEF idle
    <3> QED BY <3>1 DEF RunRecords
  <2>4. LiveRun(idle) /\ LiveRun([idle EXCEPT !.subtype = TRUE])
    BY <1>t, <2>2, AnnouncementsAreLive DEF EndInv
  <2>5. lastResult' = "interrupted" => ~protocol'.got
    BY <1>5 DEF HandleTurnResult, ClearedErrors
  <2>6. m \in RunRecords /\ LiveRun(m)
    <3> HIDE DEF idle, after
    <3> QED BY <2>3, <2>4
  <2> HIDE DEF m, r
  <2> QED BY <1>l, <2>1, <2>2, <2>5, <2>6, DispatchIsLive
<1>6. ASSUME LiftQuarantine PROVE EndInv'
  <2>1. /\ TryDispatch(active, queue, ralph, nextIndex, reply, run)
        /\ ended = "no" /\ UNCHANGED ended /\ lastResult' # "interrupted"
    BY <1>6 DEF LiftQuarantine, ReadLine
  <2> QED BY <1>t, <1>l, <2>1, DispatchIsLive DEF EndInv
<1>7. ASSUME HandleCodexTurnEnd PROVE EndInv'
  <2> DEFINE idle == PersistIdleRunning(EmitState(run, "idle", TRUE), "Idle")
  <2>1. /\ TryDispatch(NoTurn, queue, ralph, nextIndex, reply, idle)
        /\ ended = "no" /\ UNCHANGED ended /\ lastResult' # "interrupted"
    BY <1>7 DEF HandleCodexTurnEnd, ReadLine
  <2>2. idle \in RunRecords /\ LiveRun(idle)
    BY <1>t, <2>1, RunTypes, AnnouncementsAreLive DEF EndInv, RunStates
  <2> HIDE DEF idle
  <2> QED BY <1>l, <2>1, <2>2, DispatchIsLive
<1>8. ASSUME Cli PROVE EndInv'
  <2>1. UNCHANGED <<ended, run, lastResult, protocol>> /\ proc = "alive"
    BY <1>8
       DEF Cli, CliUnchanged, CliOpensThread, CliTakesTurn, CliTakesInterrupt, CliSpeaks,
           CliFinishes, CliExits, actorVars, outVars, auxVars
  <2>2. ended = "no"
    BY <2>1 DEF EndInv
  <2> QED BY <1>u, <2>1, <2>2
<1>9. CASE UNCHANGED vars
  BY <1>9
     DEF vars, actorVars, outVars, cliVars, auxVars, EndInv, LiveRun, ExitStatusIsTrue,
         InterruptIsNotFailure
<1>10. HandleStop \/ Eof \/ TickQuarantineKill => ended = "no"
  BY DEF HandleStop, Eof, HandleEof, TickQuarantineKill
<1> QED
  BY <1>1, <1>2, <1>3, <1>4, <1>5, <1>6, <1>7, <1>8, <1>9, <1>10, EndMarksRun
     DEF Next, Commands, ReadStdout, Tick

\* The run's last status tells how it ended, in whatever order results, errors,
\* interrupts, a kill, a stop and the end of the process come (handle_eof,
\* finalize_meta, emit_state).
THEOREM StatusTellsExit == Spec => []ExitStatusIsTrue
<1>1. Init => TypeOK /\ EndInv
  BY InitTypes, InitEnds
<1>2. (TypeOK /\ EndInv) /\ [Next]_vars => (TypeOK /\ EndInv)'
  BY StepTypes, StepEnds
<1>3. EndInv => ExitStatusIsTrue
  BY DEF EndInv
<1> QED BY <1>1, <1>2, <1>3, PTL DEF Spec

\* A run whose last turn the user interrupted, and whose process exits with 0, is not
\* marked failed, whatever failed before (the interrupt branch of handle_stdout_line).
THEOREM InterruptedRunHasNotFailed == Spec => []InterruptIsNotFailure
<1>1. Init => TypeOK /\ EndInv
  BY InitTypes, InitEnds
<1>2. (TypeOK /\ EndInv) /\ [Next]_vars => (TypeOK /\ EndInv)'
  BY StepTypes, StepEnds
<1>3. EndInv => InterruptIsNotFailure
  BY DEF EndInv
<1> QED BY <1>1, <1>2, <1>3, PTL DEF Spec

-----------------------------------------------------------------------------
(* The prompts of a Ralph loop *)

\* A loop that the user has cancelled is over, or waits for the end of its turn.
Pending(r) == r.asked => r.phase \in {"off", "CancelPending"}

CancelIsPending == Pending(ralph)

\* What a step may do: send a prompt only for a loop that nobody has cancelled, and
\* only when no ticket waits.
PromptIsDue == RalphPromptSent => ~ralph'.asked /\ queue' = <<>>

\* The transitions of the loop remember the cancel.
LEMMA CancelIsRemembered ==
    ASSUME NEW r \in RalphLoops, Pending(r)
    PROVE  /\ Pending(PauseRalph(r))
           /\ \A origin, failed : Pending(RalphOnTurnEnd(r, origin, failed))
           /\ RalphWantsTurn(r) => ~r.asked
<1> USE DEF Pending, RalphLoops
<1>1. Pending(PauseRalph(r)) /\ Pending(ResumeRalph(r))
  BY DEF PauseRalph, ResumeRalph
<1>2. Pending(RalphTurnOk(r))
  BY DEF RalphTurnOk, EmitRalphComplete
<1>3. r.phase # "off" => Pending(RalphTurnFailed(r))
  <2>1. Pending(EmitRalphComplete(r, "Cancelled"))
    BY DEF EmitRalphComplete
  <2>2. ~r.asked => ~RalphFailure(r).asked
    BY DEF RalphFailure, EmitRalphComplete
  <2> QED BY <2>1, <2>2 DEF RalphTurnFailed
<1>4. RalphWantsTurn(r) => ~r.asked
  BY DEF RalphWantsTurn
<1> HIDE DEF Pending, RalphLoops
<1>5. \A origin, failed : Pending(RalphOnTurnEnd(r, origin, failed))
  BY <1>1, <1>2, <1>3 DEF RalphOnTurnEnd
<1> QED BY <1>1, <1>4, <1>5

\* try_dispatch sends a prompt after all tickets, and for no cancelled loop.
LEMMA DispatchPrompts ==
    ASSUME NEW a, NEW q, NEW r \in RalphLoops, NEW n, NEW p, NEW m, Pending(r),
           TryDispatch(a, q, r, n, p, m)
    PROVE  CancelIsPending' /\ PromptIsDue
<1>1. CASE NoDispatch(a, q, r, n, p, m)
  BY <1>1 DEF NoDispatch, CancelIsPending, Pending, PromptIsDue, RalphPromptSent
<1>2. CASE StartUserTurn(Head(q), Tail(q), PauseRalph(r), n, p, m)
  <2>1. ralph' = PauseRalph(r) /\ active'.origin # "ralph"
    BY <1>2 DEF StartUserTurn, NewTurn, NoTurn
  <2> QED BY <2>1, CancelIsRemembered DEF CancelIsPending, Pending, PromptIsDue, RalphPromptSent
<1>3. CASE q = <<>> /\ RalphWantsTurn(r) /\ StartRalphTurn(q, RestartedRalph(r), n, p, m)
  <2> DEFINE s == [RestartedRalph(r) EXCEPT !.heard = FALSE, !.said = FALSE]
  <2>1. ~s.asked /\ s \in RalphLoops
    BY <1>3, CancelIsRemembered DEF RestartedRalph, RalphLoops, Phases, Deadlines
  <2> HIDE DEF s
  <2>2. ~RalphFailure(s).asked
    BY <2>1 DEF RalphFailure, EmitRalphComplete, RalphLoops
  <2>3. (ralph' = s \/ ralph' = RalphFailure(s)) /\ queue' = q
    BY <1>3 DEF StartRalphTurn, s
  <2> QED BY <1>3, <2>1, <2>2, <2>3 DEF CancelIsPending, Pending, PromptIsDue
<1> QED BY <1>1, <1>2, <1>3 DEF TryDispatch

\* No loop is there to be cancelled when the actor starts.
LEMMA InitPrompts == Init => CancelIsPending
BY DEF Init, NoLoop, StartedLoop, CancelIsPending, Pending

\* Every step remembers a cancel and sends only prompts that are due.
LEMMA StepPrompts ==
    TypeOK /\ CancelIsPending /\ [Next]_vars => CancelIsPending' /\ [PromptIsDue]_vars
<1> SUFFICES ASSUME TypeOK, CancelIsPending, [Next]_vars
             PROVE  CancelIsPending' /\ PromptIsDue
  OBVIOUS
<1>t. ralph \in RalphLoops /\ Pending(ralph)
  BY DEF TypeOK, CancelIsPending
<1>k. ASSUME UNCHANGED <<ralph, userEvents>> PROVE CancelIsPending' /\ PromptIsDue
  BY <1>k, <1>t DEF CancelIsPending, Pending, PromptIsDue, RalphPromptSent
<1>d. ASSUME NEW a, NEW q, NEW n, NEW p, NEW m, TryDispatch(a, q, ralph, n, p, m)
      PROVE  CancelIsPending' /\ PromptIsDue
  BY <1>d, <1>t, DispatchPrompts
<1>1. ASSUME NEW m, HandleSendMessage(m) PROVE CancelIsPending' /\ PromptIsDue
  BY <1>1, <1>d DEF HandleSendMessage
<1>2. ASSUME NEW max \in RalphMax, NEW promise \in RalphPromise, StartRalphLoop(max, promise)
      PROVE  CancelIsPending' /\ PromptIsDue
  <2>1. StartedLoop(max, promise) \in RalphLoops
    BY ConstantsAssumption DEF StartedLoop, RalphLoops, Phases, Reasons, Deadlines
  <2>2. Pending(StartedLoop(max, promise))
    BY DEF StartedLoop, Pending
  <2> QED BY <1>2, <2>1, <2>2, DispatchPrompts DEF StartRalphLoop
<1>3. ASSUME TickRalphRetry \/ LiftQuarantine \/ HandleCodexReady \/ HandleCodexTurnEnd
      PROVE  CancelIsPending' /\ PromptIsDue
  BY <1>3, <1>d DEF TickRalphRetry, LiftQuarantine, HandleCodexReady, HandleCodexTurnEnd
<1>4. ASSUME HandleTurnResult PROVE CancelIsPending' /\ PromptIsDue
  <2> DEFINE r == RalphOnTurnEnd(ralph, active.origin, NextLine.kind # "ok" /\ ~pendingInterrupt)
  <2>1. PICK m : \/ TryDispatch(NoTurn, queue, r, nextIndex, reply, m)
                 \/ NoDispatch(active, queue, ralph, nextIndex, reply, m)
    BY <1>4 DEF HandleTurnResult
  <2>2. r \in RalphLoops /\ Pending(r)
    BY <1>t, CancelIsRemembered, RalphOnTurnEndType
  <2> HIDE DEF r
  <2> QED BY <1>k, <2>1, <2>2, DispatchPrompts DEF NoDispatch
<1>5. ASSUME CancelRalphLoop PROVE CancelIsPending' /\ PromptIsDue
  <2>1. ralph'.phase \in {"off", "CancelPending"} /\ UNCHANGED userEvents
    BY <1>5, <1>t DEF CancelRalphLoop, EmitRalphComplete, RalphLoops, outVars
  <2> QED BY <2>1 DEF CancelIsPending, Pending, PromptIsDue, RalphPromptSent
<1>6. ASSUME ElapseBackoff \/ HandleOutput PROVE CancelIsPending' /\ PromptIsDue
  <2>1. ralph'.phase = ralph.phase /\ ralph'.asked = ralph.asked /\ UNCHANGED userEvents
    BY <1>6, <1>t DEF ElapseBackoff, HandleOutput, RalphLoops, outVars
  <2> QED BY <1>t, <2>1 DEF CancelIsPending, Pending, PromptIsDue, RalphPromptSent
<1>7. ASSUME \/ SendInterrupt \/ TickHardTimeout \/ TickQuarantineInterrupt \/ ElapseTurn
             \/ ElapseQuarantine \/ UNCHANGED vars \/ \E why, m : EndLoop(why, m)
      PROVE  CancelIsPending' /\ PromptIsDue
  BY <1>7, <1>k
     DEF SendInterrupt, TickHardTimeout, TickQuarantineInterrupt, ElapseTurn,
         ElapseQuarantine, EndLoop, vars, actorVars, outVars
<1>8. ASSUME Cli PROVE CancelIsPending' /\ PromptIsDue
  BY <1>8, <1>k
     DEF Cli, CliUnchanged, CliOpensThread, CliTakesTurn, CliTakesInterrupt, CliSpeaks,
         CliFinishes, CliExits, actorVars, outVars
<1>9. HandleStop \/ Eof \/ TickQuarantineKill => \E why, m : EndLoop(why, m)
  BY DEF HandleStop, Eof, HandleEof, TickQuarantineKill
<1> QED
  BY <1>1, <1>2, <1>3, <1>4, <1>5, <1>6, <1>7, <1>8, <1>9
     DEF Next, Commands, ReadStdout, Tick, Elapse

\* A Ralph loop sends its prompt only when no user's message waits ("Ralph yields to
\* user messages": try_dispatch).
THEOREM RalphYields == Spec => RalphYieldsToUsers
<1>1. Init => TypeOK /\ CancelIsPending
  BY InitTypes, InitPrompts
<1>2. (TypeOK /\ CancelIsPending) /\ [Next]_vars
        => (TypeOK /\ CancelIsPending)' /\ [RalphPromptSent => queue' = <<>>]_vars
  BY StepTypes, StepPrompts DEF PromptIsDue
<1> QED BY <1>1, <1>2, PTL DEF Spec, RalphYieldsToUsers

\* A loop sends no prompt after its cancel was accepted, whatever user turns, failures
\* and quarantines come before its end (CancelRalphLoop, ralph_on_turn_end).
THEOREM CancelledLoopIsSilent == Spec => NoPromptAfterCancel
<1>1. Init => TypeOK /\ CancelIsPending
  BY InitTypes, InitPrompts
<1>2. (TypeOK /\ CancelIsPending) /\ [Next]_vars
        => (TypeOK /\ CancelIsPending)' /\ [RalphPromptSent => ~ralph'.asked]_vars
  BY StepTypes, StepPrompts DEF PromptIsDue
<1> QED BY <1>1, <1>2, PTL DEF Spec, NoPromptAfterCancel

=============================================================================
