----------------------- MODULE SessionLifecycleProofs -----------------------
(***************************************************************************)
(* One process per run and a status that tells of it, for any number of    *)
(* commands of any kind.                                                   *)
(*                                                                         *)
(* The invariant has two halves.  Structure follows the handle of an actor *)
(* from the command that spawned it to the map and to the command that     *)
(* stops it; it does not depend on the status.  StatusInv follows what is  *)
(* written to meta.json, and needs Structure.                              *)
(***************************************************************************)
EXTENDS SessionLifecycle, FiniteSetTheorems, TLAPS

\* The phases each kind of command goes through.
PhasesOfKinds ==
    /\ \A c \in Spawners : pc[c] \notin {"mark", "forking", "delete"}
    /\ \A c \in Stops \cup Forks :
        pc[c] \in {"ready", "detach", "stopping", "joining", "mark", "forking", "done"}
    /\ \A c \in RunStops : pc[c] \in {"ready", "stopping", "joining", "mark", "done"}
    /\ \A c \in Deletes : pc[c] \in {"ready", "delete", "done"}

\* A process lives in its actor's loop, and an actor is known to others only
\* when its command has inserted it.
Inserted == {"message", "waiting", "done"}

KnownActors ==
    /\ \A a \in Spawners : cli[a] => actor[a] = "running"
    /\ \A a \in Spawners : actor[a] = "running" => pc[a] \in Inserted \cup {"insert"}
    /\ map # Nobody => pc[map] \in Inserted
    /\ \A c \in Commands : target[c] # Nobody => pc[target[c]] \in Inserted

\* A stop that is no longer waiting in the mailbox has ended the loop.
Left == {"cleaning", "gone"}

StopsTakeEffect ==
    \A c \in Commands :
        /\ pc[c] = "stopping" => c \in mailbox[target[c]] \/ actor[target[c]] \in Left
        /\ pc[c] = "joining"  => actor[target[c]] \in Left

\* From taking the old handle to inserting the new one, the holder of the lock
\* finds the map empty.
Emptied == {"stopping", "joining", "announce", "spawn", "insert", "mark", "forking"}

MapIsEmptied == \A c \in Locking : pc[c] \in Emptied => map = Nobody

Structure ==
    /\ TypeOK
    /\ PhasesOfKinds
    /\ KnownActors
    /\ StopsTakeEffect
    /\ MapIsEmptied
    /\ NoOrphan

-----------------------------------------------------------------------------
(* What the status knows of the actors *)

\* A process is announced and not yet there.
Starting(c) ==
    \/ c \in Starts \cup Resumes /\ pc[c] \in {"detach", "stopping", "joining"}
    \/ pc[c] = "spawn"

\* What waits in a mailbox: the actor's own first message, and stops.
RequestsAreStops ==
    \A a \in Spawners : \A c \in mailbox[a] :
        c = a \/ (pc[c] = "stopping" /\ target[c] = a)

\* A run is deleted as it was read, ended; a start in progress is noted.
DeletedRuns ==
    /\ \A c \in Deletes : pc[c] = "delete" => seen[c] \in Ended
    /\ meta.deleted => meta.status \in Ended
    /\ meta.deleted /\ (\E c \in Spawners : InProgress(c)) => "staleDelete" \in missed

\* A pending run has never had an actor, nor has one that is being started as such.
PendingRuns ==
    /\ meta.status = "pending" =>
        \A c \in Spawners : actor[c] # "running" /\ ~Starting(c)
    /\ \A c \in Spawners : pc[c] = "begun" /\ seen[c] = "pending" =>
        \A a \in Spawners : actor[a] # "running"

\* An active run has an actor, or somebody at work who will write its status.
ActiveRuns ==
    meta.status \in Active =>
        \/ missed \cap {"spawnFailed", "idleAfterEnd"} # {}
        \/ \E a \in Spawners : actor[a] = "running" \/ Starting(a)
        \/ \E c \in Commands : pc[c] \in {"stopping", "joining", "announce", "mark"}

\* A run with an actor, or with one on its way, is active.
LiveRuns ==
    (\E a \in Spawners : actor[a] = "running" \/ Starting(a)) =>
        \/ meta.status \in Active /\ ~meta.deleted
        \/ missed \cap {"lateEnd", "stopMark", "staleDelete"} # {}

StatusInv ==
    /\ RequestsAreStops
    /\ DeletedRuns
    /\ PendingRuns
    /\ ActiveRuns
    /\ LiveRuns

IInv == Structure /\ StatusInv

-----------------------------------------------------------------------------
(* Lemmas *)

\* The kinds of commands are apart from each other.
LEMMA Kinds ==
    /\ Spawners \subseteq Commands /\ Stoppers \subseteq Commands
    /\ Deletes \subseteq Commands
    /\ Starts \cup Resumes \cup Approves = Spawners
    /\ Stops \cup Forks \cup RunStops = Stoppers
    /\ Commands = Spawners \cup Stops \cup Forks \cup RunStops \cup Deletes
    /\ Locking = Spawners \cup Stops \cup Forks
    /\ RunStops \cap Locking = {} /\ Deletes \cap Locking = {}
    /\ RunStops \cap Deletes = {}
    /\ Spawners \cap (Stops \cup Forks) = {} /\ Stops \cap Forks = {}
    /\ Approves \cap (Starts \cup Resumes) = {}
    /\ Nobody \notin Commands
  BY LifecycleAssumption DEF Spawners, Stoppers, Commands, Locking

\* Nothing lives at the beginning.
LEMMA InitIInv ==
    ASSUME Init
    PROVE  IInv
<1> USE Kinds DEF Init
<1>1. TypeOK
  BY LifecycleAssumption DEF TypeOK, Phases, Statuses, Active, Ended, Misses
<1>2. PhasesOfKinds /\ KnownActors /\ StopsTakeEffect /\ MapIsEmptied /\ NoOrphan
  BY DEF PhasesOfKinds, KnownActors, StopsTakeEffect, MapIsEmptied, Emptied, NoOrphan
<1>3. StatusInv
  BY DEF StatusInv, RequestsAreStops, DeletedRuns, PendingRuns, ActiveRuns, LiveRuns,
         Starting, InProgress, Active
<1> QED BY <1>1, <1>2, <1>3 DEF IInv, Structure

\* Every step of a command, an actor or the server keeps the structure.  The
\* definitions of the invariant are open throughout; a step adds its own action.
LEMMA StepKeepsStructure ==
    ASSUME Structure, [Next]_vars
    PROVE  Structure'
<1> USE Kinds DEF Structure, TypeOK, PhasesOfKinds, KnownActors, Inserted,
       StopsTakeEffect, Left, MapIsEmptied, Emptied, NoOrphan, Phases, Active, Ended,
       Statuses, Misses
<1>1. ASSUME NEW c \in Commands, Begin(c)
      PROVE  Structure'
  BY <1>1, SMTT(30) DEF Begin, Arrives, Acquire, Goto
<1>2. ASSUME NEW c \in Commands, BeginFails(c)
      PROVE  Structure'
  BY <1>2, SMTT(30) DEF BeginFails, Arrives, Finish, Goto
<1>3. ASSUME NEW c \in Commands, Refuse(c)
      PROVE  Structure'
  BY <1>3, SMTT(30) DEF Refuse, Finish, Goto, WriteStatus
<1>4. ASSUME NEW c \in Commands, Announce(c)
      PROVE  Structure'
  BY <1>4, SMTT(30) DEF Announce, Goto, AnnounceSpawning, WriteStatus
<1>5. ASSUME NEW c \in Commands, PassPreflight(c)
      PROVE  Structure'
  BY <1>5, SMTT(30) DEF PassPreflight, Goto
<1>6. ASSUME NEW c \in Commands, Detach(c)
      PROVE  Structure'
  BY <1>6, SMTT(30) DEF Detach, Arrives, Goto
<1>7. ASSUME NEW c \in Commands, FindNothing(c)
      PROVE  Structure'
  BY <1>7, SMTT(30) DEF FindNothing, Arrives, Finish, Goto, AfterStop
<1>8. ASSUME NEW c \in Commands, AwaitStop(c)
      PROVE  Structure'
  BY <1>8, SMTT(30) DEF AwaitStop, StopAnswered, Goto
<1>9. ASSUME NEW c \in Commands, Join(c)
      PROVE  Structure'
  BY <1>9, SMTT(30) DEF Join, Goto, AfterStop
<1>10. ASSUME NEW c \in Commands, Mark(c)
      PROVE  Structure'
  BY <1>10, SMTT(30) DEF Mark, WriteStatus, Goto, Finish
<1>11. ASSUME NEW c \in Commands, ForkLive(c)
      PROVE  Structure'
  BY <1>11, SMTT(30) DEF ForkLive, Finish, Goto
<1>12. ASSUME NEW c \in Commands, Forked(c)
      PROVE  Structure'
  BY <1>12, SMTT(30) DEF Forked, Finish, Goto
<1>13. ASSUME NEW c \in Commands, Spawn(c)
      PROVE  Structure'
  BY <1>13, SMTT(30) DEF Spawn, Goto
<1>14. ASSUME NEW c \in Commands, SpawnFails(c)
      PROVE  Structure'
  BY <1>14, SMTT(30) DEF SpawnFails, Finish, Goto
<1>15. ASSUME NEW c \in Commands, Insert(c)
      PROVE  Structure'
  BY <1>15, SMTT(30) DEF Insert, Goto
<1>16. ASSUME NEW c \in Commands, SendMessage(c)
      PROVE  Structure'
  BY <1>16, SMTT(30) DEF SendMessage, Finish, Goto
<1>17. ASSUME NEW c \in Commands, MessageAnswered(c)
      PROVE  Structure'
  BY <1>17, SMTT(30) DEF MessageAnswered, Finish, Goto
<1>18. ASSUME NEW c \in Commands, SyntheticIdle(c)
      PROVE  Structure'
  BY <1>18, SMTT(30) DEF SyntheticIdle, WriteStatus, Finish, Goto
<1>19. ASSUME NEW c \in Commands, CheckDelete(c)
      PROVE  Structure'
  BY <1>19, SMTT(30) DEF CheckDelete, Arrives, Goto
<1>20. ASSUME NEW c \in Commands, WriteDelete(c)
      PROVE  Structure'
  BY <1>20, SMTT(30) DEF WriteDelete, Finish, Goto
<1>21. ASSUME NEW c \in Spawners, HandleStop(c)
      PROVE  Structure'
  BY <1>21, SMTT(30) DEF HandleStop, UnchangedByActor
<1>22. ASSUME NEW c \in Spawners, AnswerMessage(c)
      PROVE  Structure'
  BY <1>22, SMTT(30) DEF AnswerMessage, UnchangedByActor, PersistIdleRunning
<1>23. ASSUME NEW c \in Spawners, Turn(c)
      PROVE  Structure'
  BY <1>23, SMTT(30) DEF Turn, UnchangedByActor, PersistIdleRunning
<1>24. ASSUME NEW c \in Spawners, CliExits(c)
      PROVE  Structure'
  BY <1>24, SMTT(30) DEF CliExits, UnchangedByActor
<1>25. ASSUME NEW c \in Spawners, HandleEof(c)
      PROVE  Structure'
  BY <1>25, SMTT(30) DEF HandleEof, UnchangedByActor, EndByItself, WriteStatus
<1>26. ASSUME NEW c \in Spawners, QuarantineKill(c)
      PROVE  Structure'
  BY <1>26, SMTT(30) DEF QuarantineKill, UnchangedByActor, EndByItself, WriteStatus
<1>27. ASSUME NEW c \in Spawners, Cleanup(c)
      PROVE  Structure'
  BY <1>27, SMTT(30) DEF Cleanup, UnchangedByActor, RemoveSelf, DropRequests
<1>28. CASE Restart
  <2>1. TypeOK'
    BY <1>28, LifecycleAssumption, SMTT(30) DEF Restart, ReconcileOrphan, InProgress
  <2>2. PhasesOfKinds'
    BY <1>28, LifecycleAssumption, SMTT(30) DEF Restart, ReconcileOrphan, InProgress
  <2>3. KnownActors'
    BY <1>28, LifecycleAssumption, SMTT(30) DEF Restart, ReconcileOrphan, InProgress
  <2>4. StopsTakeEffect'
    BY <1>28, LifecycleAssumption, SMTT(30) DEF Restart, ReconcileOrphan, InProgress
  <2>5. MapIsEmptied'
    BY <1>28, LifecycleAssumption, SMTT(30) DEF Restart, ReconcileOrphan, InProgress
  <2>6. NoOrphan'
    BY <1>28, LifecycleAssumption, SMTT(30) DEF Restart, ReconcileOrphan, InProgress
  <2> QED BY <2>1, <2>2, <2>3, <2>4, <2>5, <2>6
<1>29. CASE UNCHANGED vars
  BY <1>29 DEF vars
<1> HIDE DEF Structure
<1>30. ASSUME NEW c \in Commands, Steps(c)
       PROVE  Structure'
  BY <1>30, <1>3, <1>4, <1>5, <1>6, <1>7, <1>8, <1>9, <1>10, <1>11, <1>12, <1>13, <1>14, <1>15,
     <1>16, <1>17, <1>18, <1>20 DEF Steps
<1>31. ASSUME NEW c \in Spawners, ActorSteps(c)
       PROVE  Structure'
  BY <1>31, <1>21, <1>22, <1>25, <1>27 DEF ActorSteps
<1> QED
  BY <1>1, <1>2, <1>19, <1>23, <1>24, <1>26, <1>28, <1>29, <1>30, <1>31 DEF Next

\* Every step keeps what the status knows: whoever writes the status without
\* knowing of another actor notes it in missed.
LEMMA StepKeepsStatus ==
    ASSUME Structure, StatusInv, [Next]_vars
    PROVE  StatusInv'
<1> USE Kinds DEF StatusInv, RequestsAreStops, DeletedRuns, PendingRuns, ActiveRuns,
       LiveRuns, Starting, Structure, TypeOK, PhasesOfKinds, KnownActors, Inserted,
       StopsTakeEffect, Left, Phases, Active, Ended, Statuses, Misses, MapIsEmptied,
       Emptied
<1>1. ASSUME NEW c \in Commands, Begin(c)
      PROVE  StatusInv'
  BY <1>1, SMTT(30) DEF Begin, Arrives, Acquire, Goto, InProgress, Superseded, Announced
<1>2. ASSUME NEW c \in Commands, BeginFails(c)
      PROVE  StatusInv'
  BY <1>2, SMTT(30) DEF BeginFails, Arrives, Finish, Goto, InProgress, Superseded,
         Announced
<1>3. ASSUME NEW c \in Commands, Refuse(c)
      PROVE  StatusInv'
  BY <1>3, SMTT(30) DEF Refuse, Finish, Goto, WriteStatus, InProgress, Superseded,
         Announced
<1>4. ASSUME NEW c \in Commands, Announce(c)
      PROVE  StatusInv'
  BY <1>4, SMTT(30) DEF Announce, Goto, AnnounceSpawning, WriteStatus, InProgress,
         Superseded, Announced
<1>5. ASSUME NEW c \in Commands, PassPreflight(c)
      PROVE  StatusInv'
  BY <1>5, SMTT(30) DEF PassPreflight, Goto, InProgress, Superseded, Announced
<1>6. ASSUME NEW c \in Commands, Detach(c)
      PROVE  StatusInv'
  BY <1>6, SMTT(30) DEF Detach, Arrives, Goto, InProgress, Superseded, Announced
<1>7. ASSUME NEW c \in Commands, FindNothing(c)
      PROVE  StatusInv'
  BY <1>7, SMTT(30) DEF FindNothing, Arrives, Finish, Goto, AfterStop, InProgress,
         Superseded, Announced
<1>8. ASSUME NEW c \in Commands, AwaitStop(c)
      PROVE  StatusInv'
  BY <1>8, SMTT(30) DEF AwaitStop, StopAnswered, Goto, InProgress, Superseded, Announced
<1>9. ASSUME NEW c \in Commands, Join(c)
      PROVE  StatusInv'
  BY <1>9, SMTT(30) DEF Join, Goto, AfterStop, InProgress, Superseded, Announced
<1>10. ASSUME NEW c \in Commands, Mark(c)
      PROVE  StatusInv'
  BY <1>10, SMTT(30) DEF Mark, WriteStatus, Goto, Finish, InProgress, Superseded,
         Announced
<1>11. ASSUME NEW c \in Commands, ForkLive(c)
      PROVE  StatusInv'
  BY <1>11, SMTT(30) DEF ForkLive, Finish, Goto, InProgress, Superseded, Announced
<1>12. ASSUME NEW c \in Commands, Forked(c)
      PROVE  StatusInv'
  BY <1>12, SMTT(30) DEF Forked, Finish, Goto, InProgress, Superseded, Announced
<1>13. ASSUME NEW c \in Commands, Spawn(c)
      PROVE  StatusInv'
  BY <1>13, SMTT(30) DEF Spawn, Goto, InProgress, Superseded, Announced
<1>14. ASSUME NEW c \in Commands, SpawnFails(c)
      PROVE  StatusInv'
  BY <1>14, SMTT(30) DEF SpawnFails, Finish, Goto, InProgress, Superseded, Announced
<1>15. ASSUME NEW c \in Commands, Insert(c)
      PROVE  StatusInv'
  BY <1>15, SMTT(30) DEF Insert, Goto, InProgress, Superseded, Announced
<1>16. ASSUME NEW c \in Commands, SendMessage(c)
      PROVE  StatusInv'
  BY <1>16, SMTT(30) DEF SendMessage, Finish, Goto, InProgress, Superseded, Announced
<1>17. ASSUME NEW c \in Commands, MessageAnswered(c)
      PROVE  StatusInv'
  BY <1>17, SMTT(30) DEF MessageAnswered, Finish, Goto, InProgress, Superseded,
         Announced
<1>18. ASSUME NEW c \in Commands, SyntheticIdle(c)
      PROVE  StatusInv'
  BY <1>18, SMTT(30) DEF SyntheticIdle, WriteStatus, Finish, Goto, InProgress,
         Superseded, Announced
<1>19. ASSUME NEW c \in Commands, CheckDelete(c)
      PROVE  StatusInv'
  BY <1>19, SMTT(30) DEF CheckDelete, Arrives, Goto, InProgress, Superseded, Announced
<1>20. ASSUME NEW c \in Commands, WriteDelete(c)
      PROVE  StatusInv'
  BY <1>20, SMTT(30) DEF WriteDelete, Finish, Goto, InProgress, Superseded, Announced
<1>21. ASSUME NEW c \in Spawners, HandleStop(c)
      PROVE  StatusInv'
  BY <1>21, SMTT(30) DEF HandleStop, UnchangedByActor, InProgress, Superseded, Announced
<1>22. ASSUME NEW c \in Spawners, AnswerMessage(c)
      PROVE  StatusInv'
  BY <1>22, SMTT(30) DEF AnswerMessage, UnchangedByActor, PersistIdleRunning,
         InProgress, Superseded, Announced
<1>23. ASSUME NEW c \in Spawners, Turn(c)
      PROVE  StatusInv'
  BY <1>23, SMTT(30) DEF Turn, UnchangedByActor, PersistIdleRunning, InProgress,
         Superseded, Announced
<1>24. ASSUME NEW c \in Spawners, CliExits(c)
      PROVE  StatusInv'
  BY <1>24, SMTT(30) DEF CliExits, UnchangedByActor, InProgress, Superseded, Announced
<1>25. ASSUME NEW c \in Spawners, HandleEof(c)
      PROVE  StatusInv'
  BY <1>25, SMTT(30) DEF HandleEof, UnchangedByActor, EndByItself, WriteStatus,
         InProgress, Superseded, Announced
<1>26. ASSUME NEW c \in Spawners, QuarantineKill(c)
      PROVE  StatusInv'
  BY <1>26, SMTT(30) DEF QuarantineKill, UnchangedByActor, EndByItself, WriteStatus,
         InProgress, Superseded, Announced
<1>27. ASSUME NEW c \in Spawners, Cleanup(c)
      PROVE  StatusInv'
  BY <1>27, SMTT(30) DEF Cleanup, UnchangedByActor, RemoveSelf, DropRequests,
         InProgress, Superseded, Announced
<1>28. CASE Restart
  BY <1>28, SMTT(30) DEF Restart, ReconcileOrphan, InProgress
<1>29. CASE UNCHANGED vars
  BY <1>29 DEF vars, InProgress, Superseded, Announced
<1> HIDE DEF StatusInv, Structure
<1>30. ASSUME NEW c \in Commands, Steps(c)
       PROVE  StatusInv'
  BY <1>30, <1>3, <1>4, <1>5, <1>6, <1>7, <1>8, <1>9, <1>10, <1>11, <1>12, <1>13, <1>14, <1>15,
     <1>16, <1>17, <1>18, <1>20 DEF Steps
<1>31. ASSUME NEW c \in Spawners, ActorSteps(c)
       PROVE  StatusInv'
  BY <1>31, <1>21, <1>22, <1>25, <1>27 DEF ActorSteps
<1> QED
  BY <1>1, <1>2, <1>19, <1>23, <1>24, <1>26, <1>28, <1>29, <1>30, <1>31 DEF Next

\* A kept process has its handle in the map, with the command that inserts it,
\* or with the lock holder that stops it, and these exclude each other.
LEMMA StructureGivesOneProcess ==
    ASSUME Structure
    PROVE  OneProcess
<1> USE Kinds DEF Structure
<1>1. \A a \in Kept : actor[a] = "running" /\ (map = a \/ pc[a] = "insert" \/ \E c \in
    Locking : target[c] = a /\ pc[c] = "stopping")
  BY SMTT(30) DEF Kept, TypeOK, PhasesOfKinds, KnownActors, StopsTakeEffect, Left,
         NoOrphan
<1>2. \A a, b \in Kept : a = b
  BY <1>1, SMTT(30) DEF Kept, TypeOK, KnownActors, Inserted, MapIsEmptied, Emptied
<1>3. \A c \in Stops \cup Forks : pc[c] \in {"mark", "forking"} => Kept = {}
  BY <1>1, SMTT(30) DEF Kept, TypeOK, KnownActors, Inserted, MapIsEmptied, Emptied
<1>4. Cardinality(Kept) <= 1
  <2>1. CASE Kept = {}
    BY <2>1, FS_EmptySet
  <2>2. CASE Kept # {}
    <3>1. PICK a \in Kept : TRUE
      BY <2>2
    <3>2. Kept = {a}
      BY <1>2, <3>1
    <3>3. Cardinality({a}) = 1
      BY FS_Singleton
    <3> QED BY <3>2, <3>3
  <2> QED BY <2>1, <2>2
<1> QED BY <1>3, <1>4 DEF OneProcess

\* When no command is in progress, nobody is left to correct the status.
LEMMA IInvGivesStatus ==
    ASSUME IInv
    PROVE  NoGhostRun /\ LiveRunIsActive
  BY Kinds DEF IInv, Structure, StatusInv, ActiveRuns, LiveRuns, NoGhostRun,
         LiveRunIsActive, Quiet, InProgress, Starting, TypeOK, Phases

\* The invariant is inductive.
LEMMA IInvHolds == Spec => []IInv
<1>1. IInv /\ [Next]_vars => IInv'
  BY StepKeepsStructure, StepKeepsStatus DEF IInv
<1>2. Init => IInv
  BY InitIInv
<1> QED BY <1>1, <1>2, PTL DEF Spec

-----------------------------------------------------------------------------
(* Theorems *)

\* The variables of the lifecycle keep their types, the spawn lock is held by
\* the one command that is in progress under it, and a handle is held exactly
\* while its actor is being stopped: the guards of SpawnLocks and the moves of
\* stop_actor.
THEOREM LifecycleTypeCorrect == Spec => []TypeOK
<1>1. IInv => TypeOK
  BY DEF IInv, Structure
<1> QED BY <1>1, IInvHolds, PTL

\* However many commands of whatever kinds arrive, at most one CLI process of
\* the run lives besides those stop_run is ending, none where stop_session and
\* fork_session go on, and no actor is in its loop with its handle lost.
THEOREM RunHasOneProcess == Spec => [](OneProcess /\ NoOrphan)
<1>1. IInv => OneProcess /\ NoOrphan
  BY StructureGivesOneProcess DEF IInv, Structure
<1> QED BY <1>1, IInvHolds, PTL

\* An actor that is in its loop is in the map, or held by the command that has
\* spawned or detached it: the identity tag keeps a late cleanup from removing
\* the entry of a successor.
THEOREM ActorIsReachable == Spec => []NoOrphan
<1> QED BY RunHasOneProcess, PTL

\* meta.json tells whether the run lives, up to the five named cases.
THEOREM StatusTellsLife == Spec => []StatusIsTrue
<1>1. IInv => StatusIsTrue
  BY IInvGivesStatus DEF StatusIsTrue
<1> QED BY <1>1, IInvHolds, PTL

=============================================================================
