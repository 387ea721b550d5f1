------------------------------- MODULE PipeRun -------------------------------
(***************************************************************************)
(* A run of the one-shot codex exec: send_chat_message (commands/chat.rs), *)
(* run_codex_exec and stop_process (agent/stream.rs), stop_run             *)
(* (web_server/dispatch.rs) and the writers of its meta.json               *)
(* (storage/runs.rs).                                                      *)
(*                                                                         *)
(* Every message starts a process of its own.  The process map holds one   *)
(* child for a run: a second child put there drops the first, which kills  *)
(* it.  No lock spans a send; what is atomic is one access to the map and  *)
(* one with_meta.  A process carries the name of the send that spawned it. *)
(* The processes are external: they name their thread, end or hang.        *)
(***************************************************************************)
EXTENDS Naturals, FiniteSets

CONSTANTS
    Sends,          \* calls of send_chat_message, each made at most once
    Stops,          \* calls of stop_run
    Deletes,        \* calls of soft_delete_runs
    Nobody,
    MayFail,        \* TRUE: a process may fail to start
    MaxRestarts     \* bound: deaths of the server

ASSUME PipeRunAssumption ==
    /\ Nobody \notin Sends
    /\ Sends \cap Stops = {} /\ Sends \cap Deletes = {} /\ Stops \cap Deletes = {}
    /\ MayFail \in BOOLEAN /\ MaxRestarts \in Nat

VARIABLES
    table,      \* the run's entry in the process map
    proc,       \* the process of each send
    pc,         \* what each call is doing
    child,      \* the child a call has taken out of the map and waits for
    timedOut,   \* the sends whose reader has given up
    meta,       \* meta.json: status, thread: conversation_ref is known, deleted
    copy,       \* what a deletion has read
    overlap,    \* history: a send passed the check before an earlier one took its child
    missed,     \* history: what the last writer of the status did not know
    restarts    \* bound counter

vars == <<table, proc, pc, child, timedOut, meta, copy, overlap, missed, restarts>>

Calls  == Sends \cup Stops \cup Deletes
Active == {"pending", "running", "idle"}
Ends   == {"ok", "err", "killed"}
Metas  == [status : {"pending", "running", "idle", "completed", "stopped", "failed"},
           thread : BOOLEAN, deleted : BOOLEAN]
Misses == {"refused", "stopMark", "lateEnd", "staleDelete"}

Ended(p)   == proc[p] \in Ends
Running(p) == proc[p] = "running"
\* The sends that will take a child out of the map, or put theirs there before.
Pending    == {x \in Sends : pc[x] \in {"passed", "spawned", "reading", "eof"}}
InFlight   == {x \in Sends : pc[x] \notin {"new", "accepted", "done"}}

TypeOK ==
    /\ table \in Sends \cup {Nobody}
    /\ proc \in [Sends -> {"none", "running"} \cup Ends]
    /\ pc \in [Calls -> {"new", "accepted", "announced", "passed", "spawned", "reading", "eof",
                         "reaping", "failing", "killing", "marking", "checked", "done"}]
    /\ child \in [Sends \cup Stops -> Sends \cup {Nobody}]
    /\ timedOut \subseteq Sends
    /\ meta \in Metas /\ copy \in [Deletes -> Metas]
    /\ overlap \in BOOLEAN
    /\ missed \subseteq Misses
    /\ restarts \in 0..MaxRestarts
    \* the entry is the child of a send that is not over
    /\ table # Nobody => proc[table] # "none" /\ pc[table] \in {"reading", "eof"}
    /\ \A x \in Sends : pc[x] \in {"spawned", "reading", "eof", "reaping"} => proc[x] # "none"

Init ==
    /\ table = Nobody
    /\ proc = [x \in Sends |-> "none"]
    /\ pc = [c \in Calls |-> "new"]
    /\ child = [c \in Sends \cup Stops |-> Nobody]
    /\ timedOut = {}
    /\ meta = [status |-> "pending", thread |-> FALSE, deleted |-> FALSE]
    /\ copy = [d \in Deletes |-> meta]
    /\ overlap = FALSE
    /\ missed = {}
    /\ restarts = 0

Goto(c, step) == pc' = [pc EXCEPT ![c] = step]

\* kill and wait; a process that has ended stays as it is.
Killed(p) == IF p # Nobody /\ Running(p) THEN [proc EXCEPT ![p] = "killed"] ELSE proc

\* Variant: the child is looked at and stays in the map.
LookAtChild(c) == child' = [child EXCEPT ![c] = table] /\ UNCHANGED table
\* process_map.lock().await.remove(&run_id): whosever child is there.
TakeChild(c) == child' = [child EXCEPT ![c] = table] /\ table' = Nobody

-----------------------------------------------------------------------------
(* meta.json *)

\* update_status, under the run's lock; the run of a deleted meta is not found.
UpdateStatus(status, unknown) ==
    IF meta.deleted THEN UNCHANGED <<meta, missed>>
    ELSE meta' = [meta EXCEPT !.status = status] /\ missed' = unknown

\* A process runs or is about to, besides that of x.
Others(x) == \E y \in Sends \ {x} : Running(y) \/ y \in InFlight

Unknown(x, what) == IF Others(x) THEN {what} ELSE {}

-----------------------------------------------------------------------------
(* send_chat_message *)

\* The message is checked and persisted; the run is read here and not again.
Send(x) ==
    /\ pc[x] = "new" /\ ~meta.deleted
    /\ Goto(x, "accepted")
    /\ UNCHANGED <<table, proc, child, timedOut, meta, copy, overlap, missed, restarts>>

\* Running is announced, and the execution becomes a task of its own.
Announce(x) ==
    /\ pc[x] = "accepted"
    /\ UpdateStatus("running", missed \cap {"staleDelete"})
    /\ Goto(x, IF meta.deleted THEN "done" ELSE "announced")
    /\ UNCHANGED <<table, proc, child, timedOut, copy, overlap, restarts>>

-----------------------------------------------------------------------------
(* run_codex_exec *)

MayPass == table = Nobody

Check(x) ==
    /\ pc[x] = "announced"
    /\ Goto(x, IF MayPass THEN "passed" ELSE "failing")
    /\ overlap' = (overlap \/ (MayPass /\ Pending # {}))
    /\ UNCHANGED <<table, proc, child, timedOut, meta, copy, missed, restarts>>

\* next_codex_process_seq fails for a deleted run, the spawn for lack of a CLI.
Spawn(x) ==
    /\ pc[x] = "passed"
    /\ \/ /\ ~meta.deleted
          /\ proc' = [proc EXCEPT ![x] = "running"]
          /\ Goto(x, "spawned")
       \/ /\ meta.deleted \/ MayFail
          /\ Goto(x, "failing")
          /\ UNCHANGED proc
    /\ UNCHANGED <<table, child, timedOut, meta, copy, overlap, missed, restarts>>

\* Variant: without kill_on_drop.
DropLeaves(p) == proc
\* The child that was in the map is dropped; kill_on_drop kills it.
Drop(p) == Killed(p)

Insert(x) ==
    /\ pc[x] = "spawned"
    /\ table' = x
    /\ proc' = Drop(table)
    /\ Goto(x, "reading")
    /\ UNCHANGED <<child, timedOut, meta, copy, overlap, missed, restarts>>

\* The reader sees thread.started, perhaps after the process has ended.
ReadThread(x) ==
    /\ pc[x] = "reading"
    /\ ~meta.thread /\ ~meta.deleted
    /\ meta' = [meta EXCEPT !.thread = TRUE]
    /\ UNCHANGED <<table, proc, pc, child, timedOut, copy, overlap, missed, restarts>>

ReadEof(x) ==
    /\ pc[x] = "reading" /\ Ended(x)
    /\ Goto(x, "eof")
    /\ UNCHANGED <<table, proc, child, timedOut, meta, copy, overlap, missed, restarts>>

\* No line for CODEX_IDLE_TIMEOUT: the child in the map is taken and killed, under its lock.
TimeOut(x) ==
    /\ pc[x] = "reading" /\ Running(x)
    /\ timedOut' = timedOut \cup {x}
    /\ table' = Nobody
    /\ proc' = Killed(table)
    /\ Goto(x, "eof")
    /\ UNCHANGED <<child, meta, copy, overlap, missed, restarts>>

\* Both readers are at the end; the child in the map, if any, is taken to be waited for.
Reap(x) ==
    /\ pc[x] = "eof" /\ Ended(x)
    /\ TakeChild(x)
    /\ Goto(x, "reaping")
    /\ UNCHANGED <<proc, timedOut, meta, copy, overlap, missed, restarts>>

\* The exit code decides; without a child the run was stopped or has timed out.
Outcome(x) ==
    IF child[x] # Nobody
    THEN CASE proc[child[x]] # "ok" -> "failed"
           [] meta.thread           -> "idle"
           [] OTHER                 -> "completed"
    ELSE IF x \in timedOut THEN "failed" ELSE "stopped"

\* Variant: the end of an execution without a child is not written.
WriteIfReaped(x) ==
    IF child[x] = Nobody THEN UNCHANGED <<meta, missed>>
    ELSE UpdateStatus(Outcome(x), Unknown(x, "lateEnd"))
WriteEnd(x) == UpdateStatus(Outcome(x), Unknown(x, "lateEnd"))

Finish(x) ==
    /\ pc[x] = "reaping"
    /\ child[x] # Nobody => Ended(child[x])
    /\ WriteEnd(x)
    /\ Goto(x, IF meta.deleted THEN "failing" ELSE "done")
    /\ child' = [child EXCEPT ![x] = Nobody]
    /\ UNCHANGED <<table, proc, timedOut, copy, overlap, restarts>>

\* The task's error: the run is marked failed, also if another send's process runs.
Fail(x) ==
    /\ pc[x] = "failing"
    /\ UpdateStatus("failed", Unknown(x, "refused"))
    /\ Goto(x, "done")
    /\ UNCHANGED <<table, proc, child, timedOut, copy, overlap, restarts>>

-----------------------------------------------------------------------------
(* stop_run and soft_delete_runs *)

Detach(s) ==
    /\ pc[s] = "new"
    /\ TakeChild(s)
    /\ Goto(s, IF table = Nobody THEN "marking" ELSE "killing")
    /\ UNCHANGED <<proc, timedOut, meta, copy, overlap, missed, restarts>>

\* Variant: the process is left to itself.
LeaveChild(s) == proc
KillChild(s) == Killed(child[s])

Kill(s) ==
    /\ pc[s] = "killing"
    /\ proc' = KillChild(s)
    /\ child' = [child EXCEPT ![s] = Nobody]
    /\ Goto(s, "marking")
    /\ UNCHANGED <<table, timedOut, meta, copy, overlap, missed, restarts>>

Mark(s) ==
    /\ pc[s] = "marking"
    /\ UpdateStatus("stopped", Unknown(s, "stopMark"))
    /\ Goto(s, "done")
    /\ UNCHANGED <<table, proc, child, timedOut, copy, overlap, restarts>>

\* The status is read without the lock, and written back with the deletion.
CheckDelete(d) ==
    /\ pc[d] = "new"
    /\ ~meta.deleted /\ meta.status \notin Active
    /\ copy' = [copy EXCEPT ![d] = meta]
    /\ Goto(d, "checked")
    /\ UNCHANGED <<table, proc, child, timedOut, meta, overlap, missed, restarts>>

WriteDelete(d) ==
    /\ pc[d] = "checked"
    /\ meta' = [copy[d] EXCEPT !.deleted = TRUE]
    /\ missed' = missed \cup {"staleDelete"}
    /\ Goto(d, "done")
    /\ UNCHANGED <<table, proc, child, timedOut, copy, overlap, restarts>>

-----------------------------------------------------------------------------
(* The processes (external), the server *)

Exits(x) ==
    /\ Running(x)
    /\ \E code \in {"ok", "err"} : proc' = [proc EXCEPT ![x] = code]
    /\ UNCHANGED <<table, pc, child, timedOut, meta, copy, overlap, missed, restarts>>

\* reconcile_orphaned_runs; shutdown_sessions kills the children, and in a crash they end
\* with their pipes.
Restart ==
    /\ restarts < MaxRestarts
    /\ restarts' = restarts + 1
    /\ table' = Nobody
    /\ proc' = [x \in Sends |-> IF Running(x) THEN "killed" ELSE proc[x]]
    /\ pc' = [c \in Calls |-> IF pc[c] = "new" THEN "new" ELSE "done"]
    /\ child' = [c \in Sends \cup Stops |-> Nobody]
    /\ meta' = [meta EXCEPT !.status = IF @ = "pending" THEN "failed"
                                       ELSE IF @ \in Active THEN "stopped" ELSE @]
    /\ missed' = missed \cap {"staleDelete"}
    /\ UNCHANGED <<timedOut, copy, overlap>>

Execute(x) ==
    \/ Announce(x) \/ Check(x) \/ Spawn(x) \/ Insert(x) \/ ReadEof(x) \/ TimeOut(x)
    \/ Reap(x) \/ Finish(x) \/ Fail(x)

Next ==
    \/ \E x \in Sends : Send(x) \/ Execute(x) \/ ReadThread(x) \/ Exits(x)
    \/ \E s \in Stops : Detach(s) \/ Kill(s) \/ Mark(s)
    \/ \E d \in Deletes : CheckDelete(d) \/ WriteDelete(d)
    \/ Restart

Spec == Init /\ [][Next]_vars

\* Tasks are polled and the reader's timeout comes in the end; processes owe nothing.
Fairness ==
    /\ \A x \in Sends : WF_vars(Execute(x))
    /\ \A s \in Stops : WF_vars(Kill(s)) /\ WF_vars(Mark(s))

FairSpec == Spec /\ Fairness

-----------------------------------------------------------------------------
(* Properties *)

BeingKilled(x) == \E s \in Stops : pc[s] = "killing" /\ child[s] = x

\* A process that runs can be stopped: it is in the map, about to be put there, or being
\* killed already, although a send overwrites the entry without a look at it and any other
\* call may have taken it out.  And a send reports the end of its own process.  (Unless a
\* send passes the check before an earlier one, sent at the same time or just stopped, has
\* taken its child: then the one may take and await the other's.)
ProcessIsOwned ==
    /\ \A x \in Sends : Running(x) =>
          \/ table = x \/ pc[x] = "spawned" \/ BeingKilled(x)
          \/ overlap /\ \E y \in Sends : child[y] = x
    /\ ~overlap => \A x \in Sends : child[x] \in {Nobody, x}

\* The status tells whether something goes on.  A run is shown as running only while a send
\* will still write how it ended; and while a process runs, also one that is being killed,
\* it is shown as running, unless the last writer did not know of it.
StatusTellsLife ==
    ~meta.deleted =>
        /\ meta.status = "running" => InFlight # {}
        /\ (\E x \in Sends : Running(x)) => meta.status = "running" \/ missed # {}

\* A message that was announced comes to its end, also if its process hangs, is killed or
\* replaced; unless sends overlap: then each may wait for the other's process for ever.
SendsEnd ==
    [](~overlap) => \A x \in Sends : pc[x] = "announced" ~> pc[x] = "done"
=============================================================================
