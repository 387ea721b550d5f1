---------------------------- MODULE PipeRunProofs ----------------------------
(***************************************************************************)
(* A process that runs can be stopped, and the status tells of it, for any *)
(* number of messages, stops and deletions of the run.                     *)
(*                                                                         *)
(* The invariant has two halves.  Structure follows a child from the send  *)
(* that spawned it to the map and to whoever takes it out; it does not     *)
(* depend on meta.json.  StatusInv follows what is written there, and      *)
(* needs Structure.                                                        *)
(***************************************************************************)
EXTENDS PipeRun, TLAPS

\* The steps each kind of call goes through.
StepsOfKinds ==
    /\ \A x \in Sends : pc[x] \notin {"killing", "marking", "checked"}
    /\ \A s \in Stops : pc[s] \in {"new", "killing", "marking", "done"}
    /\ \A d \in Deletes : pc[d] \in {"new", "checked", "done"}

\* A process has not been spawned before its send spawns it, and has ended before
\* its send waits for a child.
ProcessesOfSends ==
    \A x \in Sends :
        /\ pc[x] \in {"new", "accepted", "announced", "passed"} => proc[x] = "none"
        /\ Running(x) => pc[x] \in {"spawned", "reading", "eof"}

\* Whoever has taken a child out of the map waits for it.
ChildIsAwaited ==
    /\ \A x \in Sends : child[x] # Nobody => pc[x] = "reaping"
    /\ \A s \in Stops : child[s] # Nobody <=> pc[s] = "killing"

\* Unless sends overlap, one at a time goes from the check to the reaping.
SendsInTurn == ~overlap => \A x, y \in Pending : x = y

Structure ==
    /\ TypeOK
    /\ StepsOfKinds
    /\ ProcessesOfSends
    /\ ChildIsAwaited
    /\ SendsInTurn
    /\ ProcessIsOwned

\* A process runs or is announced.
Awaited(x) == Running(x) \/ pc[x] \in {"announced", "passed"}

\* The status is running only while a send is at work, and it is as long as a
\* process runs or is announced, unless the last writer did not know of it.
StatusInv ==
    ~meta.deleted =>
        /\ meta.status = "running" => InFlight # {}
        /\ (\E x \in Sends : Awaited(x)) => meta.status = "running" \/ missed # {}

IInv == Structure /\ StatusInv

-----------------------------------------------------------------------------
(* Lemmas *)

\* The kinds of calls are apart from each other, and Nobody is none of the sends.
LEMMA Kinds ==
    /\ Nobody \notin Sends
    /\ Sends \cap Stops = {} /\ Sends \cap Deletes = {} /\ Stops \cap Deletes = {}
    /\ Calls = Sends \cup Stops \cup Deletes
  BY PipeRunAssumption DEF Calls

\* A field of meta.json can be set.
LEMMA RecordOfMeta ==
    ASSUME NEW m \in Metas
    PROVE  [m EXCEPT !.thread = TRUE] \in Metas /\ [m EXCEPT !.deleted = TRUE] \in Metas
  BY DEF Metas

\* Nothing runs at the beginning.
LEMMA InitIInv ==
    ASSUME Init
    PROVE  IInv
<1> USE Kinds DEF Init
<1>1. TypeOK
  <2>1. meta \in Metas /\ copy \in [Deletes -> Metas]
    BY DEF Metas
  <2>2. restarts \in 0..MaxRestarts
    BY PipeRunAssumption
  <2>3. missed \subseteq Misses /\ table \in Sends \cup {Nobody}
    OBVIOUS
  <2>4. proc \in [Sends -> {"none", "running"} \cup Ends]
    OBVIOUS
  <2>5. child \in [Sends \cup Stops -> Sends \cup {Nobody}]
    OBVIOUS
  <2> QED BY <2>1, <2>2, <2>3, <2>4, <2>5 DEF TypeOK
<1>2. StepsOfKinds /\ ProcessesOfSends /\ ChildIsAwaited /\ SendsInTurn /\ ProcessIsOwned
  BY DEF StepsOfKinds, ProcessesOfSends, ChildIsAwaited, SendsInTurn, ProcessIsOwned,
         Running, Pending
<1>3. StatusInv
  BY DEF StatusInv, Awaited, Running
<1> QED BY <1>1, <1>2, <1>3 DEF IInv, Structure

\* Every step of a call, a process or the server keeps the structure.  The
\* definitions of the invariant are open throughout; a step adds its own action.
LEMMA StepKeepsStructure ==
    ASSUME Structure, [Next]_vars
    PROVE  Structure'
<1> USE Kinds DEF Structure, TypeOK, StepsOfKinds, ProcessesOfSends, ChildIsAwaited,
       SendsInTurn, ProcessIsOwned, BeingKilled, Pending, Running, Ends, Metas, Misses
<1>1. ASSUME NEW x \in Sends, Send(x)
      PROVE  Structure'
  BY <1>1, SMTT(30) DEF Send, Goto
<1>2. ASSUME NEW x \in Sends, Announce(x)
      PROVE  Structure'
  BY <1>2, SMTT(30) DEF Announce, Goto, UpdateStatus
<1>3. ASSUME NEW x \in Sends, Check(x)
      PROVE  Structure'
  <2>1. TypeOK'
    BY <1>3, SMTT(30) DEF Check, Goto, MayPass
  <2>2. StepsOfKinds'
    BY <1>3, SMTT(30) DEF Check, Goto, MayPass
  <2>3. ProcessesOfSends'
    BY <1>3, SMTT(30) DEF Check, Goto, MayPass
  <2>4. ChildIsAwaited'
    BY <1>3, SMTT(30) DEF Check, Goto, MayPass
  <2>5. SendsInTurn'
    <3>1. CASE MayPass
      <4>1. \A y \in Pending' : y = x \/ y \in Pending
        BY <1>3 DEF Check, Goto
      <4>2. ~overlap' => Pending = {}
        BY <1>3, <3>1, Zenon DEF Check
      <4> QED BY <4>1, <4>2, SMTT(30)
    <3>2. CASE ~MayPass
      <4>1. Pending' \subseteq Pending
        BY <1>3, <3>2 DEF Check, Goto
      <4>2. ~overlap' => ~overlap
        BY <1>3, Zenon DEF Check
      <4> QED BY <4>1, <4>2, SMTT(30)
    <3> QED BY <3>1, <3>2
  <2>6. ProcessIsOwned'
    BY <1>3, SMTT(30) DEF Check, Goto, MayPass
  <2> QED BY <2>1, <2>2, <2>3, <2>4, <2>5, <2>6
<1>4. ASSUME NEW x \in Sends, Spawn(x)
      PROVE  Structure'
  BY <1>4, SMTT(30) DEF Spawn, Goto
<1>5. ASSUME NEW x \in Sends, Insert(x)
      PROVE  Structure'
  BY <1>5, SMTT(30) DEF Insert, Goto, Drop, Killed
<1>6. ASSUME NEW x \in Sends, ReadThread(x)
      PROVE  Structure'
  <2>1. TypeOK'
    <3>1. meta' \in Metas
      BY <1>6, RecordOfMeta DEF ReadThread
    <3> QED BY <1>6, <3>1, SMTT(30) DEF ReadThread
  <2>2. StepsOfKinds'
    BY <1>6, SMTT(30) DEF ReadThread
  <2>3. ProcessesOfSends'
    BY <1>6, SMTT(30) DEF ReadThread
  <2>4. ChildIsAwaited'
    BY <1>6, SMTT(30) DEF ReadThread
  <2>5. SendsInTurn'
    BY <1>6, SMTT(30) DEF ReadThread
  <2>6. ProcessIsOwned'
    BY <1>6, SMTT(30) DEF ReadThread
  <2> QED BY <2>1, <2>2, <2>3, <2>4, <2>5, <2>6
<1>7. ASSUME NEW x \in Sends, ReadEof(x)
      PROVE  Structure'
  BY <1>7, SMTT(30) DEF ReadEof, Goto, Ended, Ends
<1>8. ASSUME NEW x \in Sends, TimeOut(x)
      PROVE  Structure'
  BY <1>8, SMTT(30) DEF TimeOut, Goto, Killed
<1>9. ASSUME NEW x \in Sends, Reap(x)
      PROVE  Structure'
  <2>1. TypeOK'
    BY <1>9, SMTT(30) DEF Reap, Goto, TakeChild, Ended
  <2>2. StepsOfKinds'
    BY <1>9, SMTT(30) DEF Reap, Goto, TakeChild, Ended
  <2>3. ProcessesOfSends'
    BY <1>9, SMTT(30) DEF Reap, Goto, TakeChild, Ended
  <2>4. ChildIsAwaited'
    BY <1>9, SMTT(30) DEF Reap, Goto, TakeChild, Ended
  <2>5. SendsInTurn'
    BY <1>9, SMTT(30) DEF Reap, Goto, TakeChild, Ended
  <2>6. ProcessIsOwned'
    BY <1>9, SMTT(30) DEF Reap, Goto, TakeChild, Ended
  <2> QED BY <2>1, <2>2, <2>3, <2>4, <2>5, <2>6
<1>10. ASSUME NEW x \in Sends, Finish(x)
      PROVE  Structure'
  <2>1. TypeOK'
    BY <1>10, SMTT(30) DEF Finish, Goto, WriteEnd, UpdateStatus, Outcome, Unknown, Ended
  <2>2. StepsOfKinds'
    BY <1>10, SMTT(30) DEF Finish, Goto, WriteEnd, UpdateStatus, Outcome, Unknown, Ended
  <2>3. ProcessesOfSends'
    BY <1>10, SMTT(30) DEF Finish, Goto, WriteEnd, UpdateStatus, Outcome, Unknown, Ended
  <2>4. ChildIsAwaited'
    BY <1>10, SMTT(30) DEF Finish, Goto, WriteEnd, UpdateStatus, Outcome, Unknown, Ended
  <2>5. SendsInTurn'
    BY <1>10, SMTT(30) DEF Finish, Goto, WriteEnd, UpdateStatus, Outcome, Unknown, Ended
  <2>6. ProcessIsOwned'
    BY <1>10, SMTT(30) DEF Finish, Goto, WriteEnd, UpdateStatus, Outcome, Unknown, Ended
  <2> QED BY <2>1, <2>2, <2>3, <2>4, <2>5, <2>6
<1>11. ASSUME NEW x \in Sends, Fail(x)
      PROVE  Structure'
  <2>1. TypeOK'
    BY <1>11, SMTT(30) DEF Fail, Goto, UpdateStatus, Unknown
  <2>2. StepsOfKinds'
    BY <1>11, SMTT(30) DEF Fail, Goto, UpdateStatus, Unknown
  <2>3. ProcessesOfSends'
    BY <1>11, SMTT(30) DEF Fail, Goto, UpdateStatus, Unknown
  <2>4. ChildIsAwaited'
    BY <1>11, SMTT(30) DEF Fail, Goto, UpdateStatus, Unknown
  <2>5. SendsInTurn'
    BY <1>11, SMTT(30) DEF Fail, Goto, UpdateStatus, Unknown
  <2>6. ProcessIsOwned'
    BY <1>11, SMTT(30) DEF Fail, Goto, UpdateStatus, Unknown
  <2> QED BY <2>1, <2>2, <2>3, <2>4, <2>5, <2>6
<1>12. ASSUME NEW x \in Sends, Exits(x)
      PROVE  Structure'
  BY <1>12, SMTT(30) DEF Exits
<1>13. ASSUME NEW s \in Stops, Detach(s)
      PROVE  Structure'
  BY <1>13, SMTT(30) DEF Detach, Goto, TakeChild
<1>14. ASSUME NEW s \in Stops, Kill(s)
      PROVE  Structure'
  BY <1>14, SMTT(30) DEF Kill, Goto, KillChild, Killed
<1>15. ASSUME NEW s \in Stops, Mark(s)
      PROVE  Structure'
  <2>1. TypeOK'
    BY <1>15, SMTT(30) DEF Mark, Goto, UpdateStatus, Unknown
  <2>2. StepsOfKinds'
    BY <1>15, SMTT(30) DEF Mark, Goto, UpdateStatus, Unknown
  <2>3. ProcessesOfSends'
    BY <1>15, SMTT(30) DEF Mark, Goto, UpdateStatus, Unknown
  <2>4. ChildIsAwaited'
    BY <1>15, SMTT(30) DEF Mark, Goto, UpdateStatus, Unknown
  <2>5. SendsInTurn'
    BY <1>15, SMTT(30) DEF Mark, Goto, UpdateStatus, Unknown
  <2>6. ProcessIsOwned'
    BY <1>15, SMTT(30) DEF Mark, Goto, UpdateStatus, Unknown
  <2> QED BY <2>1, <2>2, <2>3, <2>4, <2>5, <2>6
<1>16. ASSUME NEW d \in Deletes, CheckDelete(d)
      PROVE  Structure'
  BY <1>16, SMTT(30) DEF CheckDelete, Goto
<1>17. ASSUME NEW d \in Deletes, WriteDelete(d)
      PROVE  Structure'
  <2>1. TypeOK'
    <3>1. meta' \in Metas
      BY <1>17, RecordOfMeta DEF WriteDelete
    <3>2. missed' \subseteq Misses
      BY <1>17 DEF WriteDelete
    <3> QED BY <1>17, <3>1, <3>2, SMTT(30) DEF WriteDelete, Goto
  <2>2. StepsOfKinds'
    BY <1>17, SMTT(30) DEF WriteDelete, Goto
  <2>3. ProcessesOfSends'
    BY <1>17, SMTT(30) DEF WriteDelete, Goto
  <2>4. ChildIsAwaited'
    BY <1>17, SMTT(30) DEF WriteDelete, Goto
  <2>5. SendsInTurn'
    BY <1>17, SMTT(30) DEF WriteDelete, Goto
  <2>6. ProcessIsOwned'
    BY <1>17, SMTT(30) DEF WriteDelete, Goto
  <2> QED BY <2>1, <2>2, <2>3, <2>4, <2>5, <2>6
<1>18. CASE Restart
  <2>1. TypeOK'
    BY <1>18, PipeRunAssumption, SMTT(30) DEF Restart, Active
  <2>2. StepsOfKinds'
    BY <1>18, PipeRunAssumption, SMTT(30) DEF Restart, Active
  <2>3. ProcessesOfSends'
    BY <1>18, PipeRunAssumption, SMTT(30) DEF Restart, Active
  <2>4. ChildIsAwaited'
    BY <1>18, PipeRunAssumption, SMTT(30) DEF Restart, Active
  <2>5. SendsInTurn'
    BY <1>18, PipeRunAssumption, SMTT(30) DEF Restart, Active
  <2>6. ProcessIsOwned'
    BY <1>18, PipeRunAssumption, SMTT(30) DEF Restart, Active
  <2> QED BY <2>1, <2>2, <2>3, <2>4, <2>5, <2>6
<1>19. CASE UNCHANGED vars
  BY <1>19 DEF vars
<1> QED
  BY <1>1, <1>2, <1>3, <1>4, <1>5, <1>6, <1>7, <1>8, <1>9, <1>10, <1>11, <1>12,
         <1>13, <1>14, <1>15, <1>16, <1>17, <1>18, <1>19 DEF Next, Execute

\* Every step keeps what the status knows: whoever writes it without knowing of
\* another process notes it in missed.
LEMMA StepKeepsStatus ==
    ASSUME Structure, StatusInv, [Next]_vars
    PROVE  StatusInv'
<1> USE Kinds DEF Structure, TypeOK, StepsOfKinds, ProcessesOfSends, StatusInv, Awaited,
       InFlight, Running, Ends, Metas, Unknown, Others, Active
<1>1. ASSUME NEW x \in Sends, Send(x)
      PROVE  StatusInv'
  BY <1>1, SMTT(30) DEF Send, Goto
<1>2. ASSUME NEW x \in Sends, Announce(x)
      PROVE  StatusInv'
  BY <1>2, SMTT(30) DEF Announce, Goto, UpdateStatus
<1>3. ASSUME NEW x \in Sends, Check(x)
      PROVE  StatusInv'
  BY <1>3, SMTT(30) DEF Check, Goto, MayPass
<1>4. ASSUME NEW x \in Sends, Spawn(x)
      PROVE  StatusInv'
  BY <1>4, SMTT(30) DEF Spawn, Goto
<1>5. ASSUME NEW x \in Sends, Insert(x)
      PROVE  StatusInv'
  BY <1>5, SMTT(30) DEF Insert, Goto, Drop, Killed
<1>6. ASSUME NEW x \in Sends, ReadThread(x)
      PROVE  StatusInv'
  BY <1>6, SMTT(30) DEF ReadThread
<1>7. ASSUME NEW x \in Sends, ReadEof(x)
      PROVE  StatusInv'
  BY <1>7, SMTT(30) DEF ReadEof, Goto, Ended, Ends
<1>8. ASSUME NEW x \in Sends, TimeOut(x)
      PROVE  StatusInv'
  BY <1>8, SMTT(30) DEF TimeOut, Goto, Killed
<1>9. ASSUME NEW x \in Sends, Reap(x)
      PROVE  StatusInv'
  BY <1>9, SMTT(30) DEF Reap, Goto, TakeChild
<1>10. ASSUME NEW x \in Sends, Finish(x)
      PROVE  StatusInv'
  BY <1>10, SMTT(30) DEF Finish, Goto, WriteEnd, UpdateStatus, Outcome
<1>11. ASSUME NEW x \in Sends, Fail(x)
      PROVE  StatusInv'
  <2>1. CASE meta.deleted
    BY <1>11, <2>1, SMTT(30) DEF Fail, UpdateStatus
  <2>2. CASE ~meta.deleted
    <3>1. meta'.status = "failed" /\ missed' = Unknown(x, "refused")
      BY <1>11, <2>2, SMTT(30) DEF Fail, UpdateStatus
    <3>2. ASSUME NEW y \in Sends, Awaited(y)'
          PROVE  Others(x)
      BY <1>11, <3>2, SMTT(30) DEF Fail, Goto
    <3> QED BY <3>1, <3>2, SMTT(30)
  <2> QED BY <2>1, <2>2
<1>12. ASSUME NEW x \in Sends, Exits(x)
      PROVE  StatusInv'
  BY <1>12, SMTT(30) DEF Exits
<1>13. ASSUME NEW s \in Stops, Detach(s)
      PROVE  StatusInv'
  BY <1>13, SMTT(30) DEF Detach, Goto, TakeChild
<1>14. ASSUME NEW s \in Stops, Kill(s)
      PROVE  StatusInv'
  BY <1>14, SMTT(30) DEF Kill, Goto, KillChild, Killed
<1>15. ASSUME NEW s \in Stops, Mark(s)
      PROVE  StatusInv'
  BY <1>15, SMTT(30) DEF Mark, Goto, UpdateStatus
<1>16. ASSUME NEW d \in Deletes, CheckDelete(d)
      PROVE  StatusInv'
  BY <1>16, SMTT(30) DEF CheckDelete, Goto
<1>17. ASSUME NEW d \in Deletes, WriteDelete(d)
      PROVE  StatusInv'
  BY <1>17, SMTT(30) DEF WriteDelete, Goto
<1>18. CASE Restart
  BY <1>18, SMTT(30) DEF Restart
<1>19. CASE UNCHANGED vars
  BY <1>19 DEF vars
<1> QED
  BY <1>1, <1>2, <1>3, <1>4, <1>5, <1>6, <1>7, <1>8, <1>9, <1>10, <1>11, <1>12,
         <1>13, <1>14, <1>15, <1>16, <1>17, <1>18, <1>19 DEF Next, Execute

\* The invariant is inductive.
LEMMA IInvHolds == Spec => []IInv
<1>1. IInv /\ [Next]_vars => IInv'
  BY StepKeepsStructure, StepKeepsStatus DEF IInv
<1>2. Init => IInv
  BY InitIInv
<1> QED BY <1>1, <1>2, PTL DEF Spec

-----------------------------------------------------------------------------
(* Theorems *)

\* The variables of a piped run keep their types, and what is in the process map is
\* the child of a send that is reading its pipes: insert, take and remove of
\* process_map in run_codex_exec and stop_process.
THEOREM PipeTypeCorrect == Spec => []TypeOK
<1>1. IInv => TypeOK
  BY DEF IInv, Structure
<1> QED BY <1>1, IInvHolds, PTL

\* However many messages, stops and deletions arrive, no process runs that nobody can
\* stop, and without an overlap a send reports the end of its own process.
THEOREM PipeProcessIsOwned == Spec => []ProcessIsOwned
<1>1. IInv => ProcessIsOwned
  BY DEF IInv, Structure
<1> QED BY <1>1, IInvHolds, PTL

\* meta.json tells whether something goes on, up to the writers that did not know of
\* another's process.
THEOREM PipeStatusTellsLife == Spec => []StatusTellsLife
<1>1. IInv => StatusTellsLife
  BY DEF IInv, StatusInv, Awaited, StatusTellsLife
<1> QED BY <1>1, IInvHolds, PTL

=============================================================================
