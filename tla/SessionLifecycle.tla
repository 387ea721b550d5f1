-------------------------- MODULE SessionLifecycle --------------------------
(***************************************************************************)
(* The commands that begin and end the actors of one run                   *)
(* (commands/session.rs, web_server/dispatch.rs, storage/runs.rs), against *)
(* the map of actors, the run's spawn lock and its meta.json.              *)
(*                                                                         *)
(* Each command is a request of some browser, served by a task of its own; *)
(* it is cut into steps where the code awaits.  An actor is known by the   *)
(* command that spawned it, and reduced to what these commands rely on:    *)
(* SessionActor has the rest.                                              *)
(***************************************************************************)
EXTENDS Naturals, FiniteSets

CONSTANTS
    Starts,         \* start_session, mode new: there is a message to send
    Resumes,        \* start_session, mode resume or continue
    Approves,       \* approve_session_tool
    Stops,          \* stop_session
    Forks,          \* fork_session
    RunStops,       \* stop_run
    Deletes,        \* soft_delete_runs
    Nobody,         \* no command, no actor
    MaxCommands,    \* bound: commands that arrive
    MaxRestarts     \* bound: deaths of the server

Spawners == Starts \cup Resumes \cup Approves
Stoppers == Stops \cup Forks \cup RunStops
Commands == Spawners \cup Stoppers \cup Deletes
Locking  == Spawners \cup Stops \cup Forks

ASSUME LifecycleAssumption ==
    /\ Nobody \notin Commands
    /\ Spawners \cap (Stoppers \cup Deletes) = {}
    /\ Stoppers \cap Deletes = {}
    /\ Starts \cap Resumes = {} /\ (Starts \cup Resumes) \cap Approves = {}
    /\ Stops \cap Forks = {} /\ (Stops \cup Forks) \cap RunStops = {}
    /\ MaxCommands \in Nat
    /\ MaxRestarts \in Nat

VARIABLES
    holder,     \* who holds the run's spawn lock
    pc,         \* where each command is
    target,     \* the handle a command took out of the map to stop its actor
    seen,       \* the status a command read at its beginning
    map,        \* ActorSessionMap: the run's handle
    actor,      \* the select! loop of each actor
    cli,        \* whether the actor's CLI process lives
    mailbox,    \* whose Stop or SendMessage the actor has not answered
    meta,       \* meta.json
    missed,     \* history: what the last writer of the status did not know
    restarts    \* bound counter

vars == <<holder, pc, target, seen, map, actor, cli, mailbox, meta, missed, restarts>>

-----------------------------------------------------------------------------
(* Types *)

Active   == {"running", "idle"}
Ended    == {"completed", "failed", "stopped"}
Statuses == {"pending"} \cup Active \cup Ended
Phases   == {"ready", "begun", "detach", "stopping", "joining", "announce", "spawn",
             "insert", "message", "waiting", "mark", "forking", "delete", "done"}
Misses   == {"spawnFailed", "idleAfterEnd", "lateEnd", "stopMark", "staleDelete"}

\* A handle is held exactly while its actor is being stopped.
TypeOK ==
    /\ holder \in Locking \cup {Nobody}
    /\ pc \in [Commands -> Phases]
    /\ target \in [Commands -> Spawners \cup {Nobody}]
    /\ \A c \in Commands : target[c] # Nobody <=> pc[c] \in {"stopping", "joining"}
    /\ \A c \in Locking : holder = c <=> pc[c] \notin {"ready", "done"}
    /\ seen \in [Commands -> Statuses]
    /\ map \in Spawners \cup {Nobody}
    /\ actor \in [Spawners -> {"unborn", "running", "cleaning", "gone"}]
    /\ cli \in [Spawners -> BOOLEAN]
    /\ mailbox \in [Spawners -> SUBSET Commands]
    /\ meta \in [status : Statuses, deleted : BOOLEAN]
    /\ missed \subseteq Misses
    /\ restarts \in 0..MaxRestarts

\* start_run has written meta.json; nothing of the run is live.
Init ==
    /\ holder = Nobody
    /\ pc = [c \in Commands |-> "ready"]
    /\ target = [c \in Commands |-> Nobody]
    /\ seen = [c \in Commands |-> "pending"]
    /\ map = Nobody
    /\ actor = [a \in Spawners |-> "unborn"]
    /\ cli = [a \in Spawners |-> FALSE]
    /\ mailbox = [a \in Spawners |-> {}]
    /\ meta = [status |-> "pending", deleted |-> FALSE]
    /\ missed = {}
    /\ restarts = 0

-----------------------------------------------------------------------------
(* Helpers *)

Goto(c, phase) == pc' = [pc EXCEPT ![c] = phase]

\* A request arrives.
Arrives(c) ==
    /\ pc[c] = "ready"
    /\ Cardinality({d \in Commands : pc[d] # "ready"}) < MaxCommands

\* The guard of the spawn lock is dropped when the command returns.
Finish(c) ==
    /\ Goto(c, "done")
    /\ holder' = IF holder = c THEN Nobody ELSE holder
    /\ seen' = [seen EXCEPT ![c] = "pending"]

\* Variant: stop and fork do without the spawn lock.
AcquireToSpawn(c) ==
    /\ c \in Spawners => holder = Nobody
    /\ holder' = IF c \in Spawners THEN c ELSE holder

Acquire(c) ==
    /\ holder = Nobody
    /\ holder' = c

\* update_status fails on a deleted run, and its callers go on.
WriteStatus(status, unknown) ==
    IF meta.deleted THEN UNCHANGED <<meta, missed>>
    ELSE meta' = [meta EXCEPT !.status = status] /\ missed' = unknown

InProgress(c) == pc[c] \notin {"ready", "done"}

\* The command has told the clients that the run is spawning.
Announced(c) ==
    \/ c \in Starts \cup Resumes /\ pc[c] \in {"detach", "stopping", "joining"}
    \/ pc[c] \in {"spawn", "insert", "message", "waiting"}

\* Actor a, or no actor, is not the last word on the run.
Superseded(a) ==
    \E b \in Spawners \ {a} : actor[b] = "running" \/ Announced(b)

-----------------------------------------------------------------------------
(* The commands *)

\* The lock, then get_run; stop_session does not look at the run.
Begin(c) ==
    /\ c \in Locking
    /\ Arrives(c)
    /\ Acquire(c)
    /\ ~meta.deleted \/ c \in Stops
    /\ Goto(c, IF c \in Spawners THEN "begun" ELSE "detach")
    /\ seen' = [seen EXCEPT ![c] = meta.status]
    /\ UNCHANGED <<target, map, actor, cli, mailbox, meta, missed, restarts>>

\* A deleted run is not found.
BeginFails(c) ==
    /\ c \in Locking \ Stops
    /\ Arrives(c)
    /\ meta.deleted
    /\ holder = Nobody
    /\ Finish(c)
    /\ UNCHANGED <<target, map, actor, cli, mailbox, meta, missed, restarts>>

\* A session that cannot be started is refused: the parameters, the settings or
\* the base URL are wrong.  Only an unreachable URL is a failure of a new run.
Refuse(c) ==
    /\ c \in Spawners
    /\ pc[c] = "begun"
    /\ Finish(c)
    /\ \/ UNCHANGED <<meta, missed>>
       \/ c \in Starts /\ seen[c] = "pending" /\ WriteStatus("failed", {})
    /\ UNCHANGED <<target, map, actor, cli, mailbox, restarts>>

\* Variant: start_session leaves the status to the actor.
AnnounceOnly(c) == UNCHANGED <<meta, missed>>

AnnounceSpawning(c) == WriteStatus("running", {})

\* start_session announces the session before it stops the old one,
\* approve_session_tool when that has ended.
Announce(c) ==
    /\ \/ c \in Starts \cup Resumes /\ pc[c] = "begun" /\ Goto(c, "detach")
       \/ c \in Approves /\ pc[c] = "announce" /\ Goto(c, "spawn")
    /\ AnnounceSpawning(c)
    /\ UNCHANGED <<holder, target, seen, map, actor, cli, mailbox, restarts>>

PassPreflight(c) ==
    /\ c \in Approves
    /\ pc[c] = "begun"
    /\ Goto(c, "detach")
    /\ UNCHANGED <<holder, target, seen, map, actor, cli, mailbox, meta, missed, restarts>>

\* Where a command goes on when stop_actor returns.
AfterStop(c) ==
    IF c \in Starts \cup Resumes THEN "spawn"
    ELSE IF c \in Approves THEN "announce" ELSE "mark"

\* stop_actor takes the handle out of the map and sends Stop.  The send fails
\* when the actor is gone; stop_run does all this without the lock.
Detach(c) ==
    LET a == map IN
    /\ pc[c] = "detach" \/ (c \in RunStops /\ Arrives(c))
    /\ a # Nobody
    /\ map' = Nobody
    /\ target' = [target EXCEPT ![c] = a]
    /\ Goto(c, "stopping")
    /\ mailbox' = IF actor[a] = "gone" THEN mailbox ELSE [mailbox EXCEPT ![a] = @ \cup {c}]
    /\ UNCHANGED <<holder, seen, actor, cli, meta, missed, restarts>>

\* Nothing to stop: only stop_run still marks the run.
FindNothing(c) ==
    /\ pc[c] = "detach" \/ (c \in RunStops /\ Arrives(c))
    /\ map = Nobody
    /\ IF c \in Stops THEN Finish(c)
       ELSE Goto(c, IF c \in Forks THEN "forking" ELSE AfterStop(c)) /\ UNCHANGED <<holder, seen>>
    /\ UNCHANGED <<target, map, actor, cli, mailbox, meta, missed, restarts>>

\* Variant: stop_actor sends Stop and does not wait for the answer.
StopSent(c) == TRUE

\* The actor has answered, or is gone with the request.
StopAnswered(c) == c \notin mailbox[target[c]]

AwaitStop(c) ==
    /\ pc[c] = "stopping"
    /\ StopAnswered(c)
    /\ Goto(c, "joining")
    /\ UNCHANGED <<holder, target, seen, map, actor, cli, mailbox, meta, missed, restarts>>

\* The actor's task has ended, or five seconds have passed.
Join(c) ==
    /\ pc[c] = "joining"
    /\ target' = [target EXCEPT ![c] = Nobody]
    /\ Goto(c, AfterStop(c))
    /\ UNCHANGED <<holder, seen, map, actor, cli, mailbox, meta, missed, restarts>>

\* The run is stopped, whatever has become of it meanwhile.
Mark(c) ==
    /\ pc[c] = "mark"
    /\ WriteStatus("stopped", IF Superseded(Nobody) THEN {"stopMark"} ELSE {})
    /\ IF c \in Forks THEN Goto(c, "forking") /\ UNCHANGED <<holder, seen>> ELSE Finish(c)
    /\ UNCHANGED <<target, map, actor, cli, mailbox, restarts>>

\* A fork that cannot be made leaves the actor alone, and so does
\* fork_session_codex, which asks the live actor.
ForkLive(c) ==
    /\ c \in Forks
    /\ pc[c] = "detach"
    /\ Finish(c)
    /\ UNCHANGED <<target, map, actor, cli, mailbox, meta, missed, restarts>>

\* fork_oneshot runs a second CLI on the same conversation, under the lock.
Forked(c) ==
    /\ pc[c] = "forking"
    /\ Finish(c)
    /\ UNCHANGED <<target, map, actor, cli, mailbox, meta, missed, restarts>>

Spawn(c) ==
    /\ pc[c] = "spawn"
    /\ actor' = [actor EXCEPT ![c] = "running"]
    /\ cli' = [cli EXCEPT ![c] = TRUE]
    /\ Goto(c, "insert")
    /\ UNCHANGED <<holder, target, seen, map, mailbox, meta, missed, restarts>>

\* The process cannot be started: the run stays announced.
SpawnFails(c) ==
    /\ pc[c] = "spawn"
    /\ missed' = missed \cup {"spawnFailed"}
    /\ Finish(c)
    /\ UNCHANGED <<target, map, actor, cli, mailbox, meta, restarts>>

Insert(c) ==
    /\ pc[c] = "insert"
    /\ map' = c
    /\ Goto(c, "message")
    /\ UNCHANGED <<holder, target, seen, actor, cli, mailbox, meta, missed, restarts>>

\* start_session keeps the sender, approve_session_tool looks it up again.
SendMessage(c) ==
    /\ pc[c] = "message"
    /\ IF actor[c] = "gone" \/ (c \in Approves /\ map # c)
       THEN Finish(c) /\ UNCHANGED mailbox
       ELSE /\ mailbox' = [mailbox EXCEPT ![c] = @ \cup {c}]
            /\ Goto(c, "waiting")
            /\ UNCHANGED <<holder, seen>>
    /\ UNCHANGED <<target, map, actor, cli, meta, missed, restarts>>

\* The reply has come, or the actor has dropped it.
MessageAnswered(c) ==
    /\ pc[c] = "waiting"
    /\ c \notin mailbox[c]
    /\ Finish(c)
    /\ UNCHANGED <<target, map, actor, cli, mailbox, meta, missed, restarts>>

\* A session resumed without a message waits for the user.
SyntheticIdle(c) ==
    /\ c \in Resumes
    /\ pc[c] = "message"
    /\ WriteStatus("idle", IF actor[c] = "running" THEN {} ELSE {"idleAfterEnd"})
    /\ Finish(c)
    /\ UNCHANGED <<target, map, actor, cli, mailbox, restarts>>

\* soft_delete_runs reads every run first, and takes no lock.
CheckDelete(c) ==
    /\ c \in Deletes
    /\ Arrives(c)
    /\ seen' = [seen EXCEPT ![c] = meta.status]
    /\ Goto(c, IF meta.deleted \/ meta.status \notin Ended THEN "done" ELSE "delete")
    /\ UNCHANGED <<holder, target, map, actor, cli, mailbox, meta, missed, restarts>>

\* It writes the run as it was read.
WriteDelete(c) ==
    /\ pc[c] = "delete"
    /\ meta' = [status |-> seen[c], deleted |-> TRUE]
    /\ missed' = IF meta.status # seen[c] \/ \E s \in Spawners : InProgress(s)
                 THEN missed \cup {"staleDelete"} ELSE missed
    /\ Finish(c)
    /\ UNCHANGED <<target, map, actor, cli, mailbox, restarts>>

-----------------------------------------------------------------------------
(* The actor, as far as the commands can tell *)

UnchangedByActor == UNCHANGED <<holder, pc, target, seen, restarts>>

HandleStop(a) ==
    /\ actor[a] = "running"
    /\ \E c \in mailbox[a] \ {a} : mailbox' = [mailbox EXCEPT ![a] = @ \ {c}]
    /\ cli' = [cli EXCEPT ![a] = FALSE]
    /\ actor' = [actor EXCEPT ![a] = "cleaning"]
    /\ UNCHANGED <<map, meta, missed>>
    /\ UnchangedByActor

\* persist_idle_running writes only from idle to running and back.
PersistIdleRunning(status) ==
    /\ ~meta.deleted
    /\ {meta.status, status} = Active
    /\ meta' = [meta EXCEPT !.status = status]
    /\ UNCHANGED missed

\* The first message of the session is written to the CLI, or refused because
\* the write failed.
AnswerMessage(a) ==
    /\ actor[a] = "running"
    /\ a \in mailbox[a]
    /\ mailbox' = [mailbox EXCEPT ![a] = @ \ {a}]
    /\ PersistIdleRunning("running") \/ UNCHANGED <<meta, missed>>
    /\ UNCHANGED <<map, actor, cli>>
    /\ UnchangedByActor

\* A turn ends, or a later one begins.
Turn(a) ==
    /\ actor[a] = "running"
    /\ \E status \in Active : PersistIdleRunning(status)
    /\ UNCHANGED <<map, actor, cli, mailbox>>
    /\ UnchangedByActor

CliExits(a) ==
    /\ actor[a] = "running"
    /\ cli' = [cli EXCEPT ![a] = FALSE]
    /\ UNCHANGED <<map, actor, mailbox, meta, missed>>
    /\ UnchangedByActor

\* The status is the end of this process, also when another has been announced.
EndByItself(a, status) ==
    /\ WriteStatus(status, IF Superseded(a) THEN {"lateEnd"} ELSE {})
    /\ actor' = [actor EXCEPT ![a] = "cleaning"]

HandleEof(a) ==
    /\ actor[a] = "running"
    /\ ~cli[a]
    /\ \E status \in {"completed", "failed"} : EndByItself(a, status)
    /\ UNCHANGED <<map, cli, mailbox>>
    /\ UnchangedByActor

\* A quarantine has run out.
QuarantineKill(a) ==
    /\ actor[a] = "running"
    /\ cli' = [cli EXCEPT ![a] = FALSE]
    /\ EndByItself(a, "failed")
    /\ UNCHANGED <<map, mailbox>>
    /\ UnchangedByActor

\* Variant: the actor removes whatever handle its run has.
RemoveAny(a) == map' = Nobody

RemoveSelf(a) == map' = IF map = a THEN Nobody ELSE map

\* Variant: the channel is never closed.
KeepRequests(a) == UNCHANGED mailbox

DropRequests(a) == mailbox' = [mailbox EXCEPT ![a] = {}]

\* cleanup; the receiver of the channel goes with the task.
Cleanup(a) ==
    /\ actor[a] = "cleaning"
    /\ actor' = [actor EXCEPT ![a] = "gone"]
    /\ RemoveSelf(a)
    /\ DropRequests(a)
    /\ UNCHANGED <<cli, meta, missed>>
    /\ UnchangedByActor

ReconcileOrphan(status) ==
    IF status \in Active THEN "stopped" ELSE IF status = "pending" THEN "failed" ELSE status

\* The server dies and comes back: nothing that was in progress survives, and
\* the CLI processes end with their pipes.
Restart ==
    /\ restarts < MaxRestarts
    /\ restarts' = restarts + 1
    /\ holder' = Nobody
    /\ pc' = [c \in Commands |-> IF InProgress(c) THEN "done" ELSE pc[c]]
    /\ target' = [c \in Commands |-> Nobody]
    /\ map' = Nobody
    /\ actor' = [a \in Spawners |-> IF actor[a] = "unborn" THEN "unborn" ELSE "gone"]
    /\ cli' = [a \in Spawners |-> FALSE]
    /\ mailbox' = [a \in Spawners |-> {}]
    /\ meta' = [meta EXCEPT !.status = ReconcileOrphan(@)]
    /\ missed' = missed \cap {"staleDelete"}
    /\ seen' = [c \in Commands |-> "pending"]

Steps(c) ==
    \/ Refuse(c) \/ Announce(c) \/ PassPreflight(c)
    \/ Detach(c) \/ FindNothing(c) \/ AwaitStop(c) \/ Join(c) \/ Mark(c)
    \/ ForkLive(c) \/ Forked(c)
    \/ Spawn(c) \/ SpawnFails(c) \/ Insert(c)
    \/ SendMessage(c) \/ MessageAnswered(c) \/ SyntheticIdle(c)
    \/ WriteDelete(c)

ActorSteps(a) ==
    \/ HandleStop(a) \/ AnswerMessage(a) \/ HandleEof(a) \/ Cleanup(a)

Next ==
    \/ \E c \in Commands : Begin(c) \/ BeginFails(c) \/ CheckDelete(c) \/ Steps(c)
    \/ \E a \in Spawners : ActorSteps(a) \/ Turn(a) \/ CliExits(a) \/ QuarantineKill(a)
    \/ Restart

Spec == Init /\ [][Next]_vars

\* Tasks are polled, and the actor answers what it has accepted.
Fairness ==
    /\ \A c \in Commands : WF_vars(InProgress(c) /\ Steps(c))
    /\ \A a \in Spawners :
        WF_vars(HandleStop(a)) /\ WF_vars(AnswerMessage(a)) /\ WF_vars(HandleEof(a))
        /\ WF_vars(Cleanup(a))

FairSpec == Spec /\ Fairness

-----------------------------------------------------------------------------
(* Properties *)

\* The processes nobody has asked stop_run to end.
Kept == {a \in Spawners : cli[a] /\ ~\E s \in RunStops : target[s] = a /\ pc[s] = "stopping"}

\* A run has one CLI at most, whatever starts, resumes, approvals, stops and
\* forks arrive together; stop_run, which takes no lock, may still be ending
\* another one.  And the process is dead where stop_session is about to say so
\* and where fork_oneshot opens the same conversation.
OneProcess ==
    /\ Cardinality(Kept) <= 1
    /\ \A c \in Stops \cup Forks : pc[c] \in {"mark", "forking"} => Kept = {}

\* Somebody has the handle of every actor in its loop: the map, the command that
\* is stopping it, or the one that is about to insert it.  The channel of an
\* actor nobody has closes, and the session ends without a word.
NoOrphan ==
    \A a \in Spawners : actor[a] = "running" =>
        map = a \/ pc[a] = "insert" \/ \E c \in Commands : target[c] = a

Quiet == \A c \in Commands : ~InProgress(c)

\* A run without an actor is not left running or idle, where it could neither be
\* used nor deleted, unless its process could not be started or had ended before
\* start_session declared it idle.
NoGhostRun ==
    Quiet /\ (\A a \in Spawners : actor[a] # "running")
        => meta.status \notin Active \/ missed \cap {"spawnFailed", "idleAfterEnd"} # {}

\* A run with a live CLI can be found as such: it is running or idle and not
\* deleted, unless an older process ended after it was announced, stop_run
\* marked it, or a deletion was decided before it started.
LiveRunIsActive ==
    Quiet /\ (\E a \in Spawners : actor[a] = "running" /\ cli[a])
        => \/ meta.status \in Active /\ ~meta.deleted
           \/ missed \cap {"lateEnd", "stopMark", "staleDelete"} # {}

\* When no command is in progress, meta.json says whether the run has a process,
\* whatever order its commands, its actor and reconcile_orphaned_runs wrote it in.
StatusIsTrue == NoGhostRun /\ LiveRunIsActive

\* Every command returns, also when the actor it waits for dies.
CommandsReturn == \A c \in Commands : InProgress(c) ~> pc[c] = "done"

=============================================================================
