------------------------------ MODULE EventLog ------------------------------
(***************************************************************************)
(* The event log of one run (storage/events.rs): an append-only file of    *)
(* lines, each with a sequence number, and the process-wide EventWriter    *)
(* that hands the numbers out.                                             *)
(*                                                                         *)
(* The tasks that emit events of the run (the session actor, the session   *)
(* commands, the stdout and stderr readers of a pipe execution) share one  *)
(* counter behind a lock.  The writer's table is collected when it grows,  *)
(* so the counter may be forgotten and seeded again from the end of the    *)
(* file.  A write may fail, or leave a line without its newline; the next  *)
(* line is then glued to it and neither can be parsed.                     *)
(***************************************************************************)
EXTENDS Naturals, Sequences

CONSTANTS
    Emitters,       \* tasks that emit events of the run
    Kinds,          \* kinds of events they emit: "kept" is in REPLAY_TYPES, "live" is not
    MaxSeq,         \* bound: sequence numbers handed out
    MaxRestarts,    \* bound: restarts of the server
    MaxTears        \* bound: lines left without a newline

ASSUME LogAssumption ==
    /\ Kinds \subseteq {"kept", "live"}
    /\ MaxSeq \in Nat
    /\ MaxRestarts \in Nat
    /\ MaxTears \in Nat

VARIABLES
    file,           \* events.jsonl: its lines, oldest first
    torn,           \* the last line has no newline
    counter,        \* next seq in the writer's table; 0 when the run has no entry
    emitter,        \* what each task is doing
    restarts,       \* bound counter
    tears           \* bound counter

logVars == <<file, torn, counter, emitter, restarts, tears>>

Garbage == [seq |-> 0, kind |-> "garbage"]
Idle    == [pc |-> "idle", seq |-> 0]

LogTypeOK ==
    /\ file \in Seq([seq : Nat, kind : {"kept", "live", "garbage"}])
    /\ torn \in BOOLEAN
    /\ counter \in Nat
    /\ emitter \in [Emitters -> [pc : {"idle", "holding", "written"}, seq : Nat]]
    /\ restarts \in Nat
    /\ tears \in Nat

LogInit ==
    /\ file = <<>>
    /\ torn = FALSE
    /\ counter = 0
    /\ emitter = [e \in Emitters |-> Idle]
    /\ restarts = 0
    /\ tears = 0

-----------------------------------------------------------------------------
(* Reading *)

\* Positions of the lines from w on that parse.
Readable(w) == {i \in DOMAIN file : i >= w /\ file[i].kind # "garbage"}

\* Variant: the tail window is trusted although nothing in it parses.
SeedsFromWindow(n, w) ==
    IF Readable(w) = {} THEN n = 1
    ELSE /\ \E i \in Readable(w) : n = file[i].seq + 1
         /\ \A i \in Readable(w) : file[i].seq < n

\* next_seq: one more than the largest number in the last lines of the file (those in the
\* tail window, from w on), or in the whole file when no line of the window parses.
SeedsFrom(n, w) ==
    LET from == IF Readable(w) = {} THEN 1 ELSE w
    IN  IF Readable(from) = {} THEN n = 1
        ELSE /\ \E i \in Readable(from) : n = file[i].seq + 1
             /\ \A i \in Readable(from) : file[i].seq < n

-----------------------------------------------------------------------------
(* Writing *)

\* The line reaches the file, glued to an unfinished one if there is one.
AppendLine(line) ==
    IF torn THEN [file EXCEPT ![Len(file)] = Garbage] ELSE Append(file, line)

\* Get or create the run's entry under the global lock; the clone is held from here on.
GetWriter(e) ==
    /\ emitter[e].pc = "idle"
    /\ counter <= MaxSeq
    /\ IF counter # 0 THEN UNCHANGED counter
       ELSE \E n \in 1..(MaxSeq + 1), w \in 1..(Len(file) + 1) :
                SeedsFrom(n, w) /\ counter' = n
    /\ emitter' = [emitter EXCEPT ![e].pc = "holding"]
    /\ UNCHANGED <<file, torn, restarts, tears>>

\* The run's lock: the number is taken and the line written under it.
Write(e, kind) ==
    /\ emitter[e].pc = "holding"
    /\ counter <= MaxSeq
    /\ counter' = counter + 1
    /\ file' = AppendLine([seq |-> counter, kind |-> kind])
    /\ torn' = FALSE
    /\ emitter' = [emitter EXCEPT ![e] = [pc |-> "written", seq |-> counter]]
    /\ UNCHANGED <<restarts, tears>>

\* What a failed or cut off write of a line leaves in the file.
Leftover(line) ==
    \/ UNCHANGED <<file, torn, tears>>
    \/ /\ tears < MaxTears
       /\ tears' = tears + 1
       /\ torn' = TRUE
       /\ \/ file' = AppendLine(line)
          \/ file' = AppendLine(Garbage)

\* The number is taken and the write fails: the caller gets an error.
WriteFails(e) ==
    /\ emitter[e].pc = "holding"
    /\ counter <= MaxSeq
    /\ counter' = counter + 1
    /\ \E kind \in Kinds : Leftover([seq |-> counter, kind |-> kind])
    /\ emitter' = [emitter EXCEPT ![e] = Idle]
    /\ UNCHANGED restarts

\* Arc::strong_count(v) > 1 for the entries that stay.
NobodyHolds == \A e \in Emitters : emitter[e].pc # "holding"

\* The table has more than 50 entries when some run asks for its own.
CollectWriters ==
    /\ counter # 0
    /\ NobodyHolds
    /\ counter' = 0
    /\ UNCHANGED <<file, torn, emitter, restarts, tears>>

\* The server dies and starts again, perhaps in the middle of a write.
Restart ==
    /\ restarts < MaxRestarts
    /\ restarts' = restarts + 1
    /\ counter' = 0
    /\ emitter' = [e \in Emitters |-> Idle]
    /\ \/ NobodyHolds /\ UNCHANGED <<file, torn, tears>>
       \/ ~NobodyHolds /\ \E kind \in Kinds : Leftover([seq |-> counter, kind |-> kind])

\* The caller is done with its event.
Finish(e) ==
    /\ emitter[e].pc = "written"
    /\ emitter' = [emitter EXCEPT ![e] = Idle]
    /\ UNCHANGED <<file, torn, counter, restarts, tears>>

LogNext ==
    \/ \E e \in Emitters : GetWriter(e) \/ WriteFails(e) \/ Finish(e)
    \/ \E e \in Emitters, kind \in Kinds : Write(e, kind)
    \/ CollectWriters
    \/ Restart

LogSpec == LogInit /\ [][LogNext]_logVars

-----------------------------------------------------------------------------
(***************************************************************************)
(* Numbers increase in file order, whoever writes, whenever the writer's   *)
(* table is collected and seeded again, and whatever a failed write left   *)
(* behind; the counter is ahead of the file.  A replay that asks for       *)
(* seq > n depends on it, and so does seeding from the end of the file.    *)
(***************************************************************************)
LogSeqsIncrease ==
    /\ \A i, j \in Readable(1) : i < j => file[i].seq < file[j].seq
    /\ counter # 0 => \A i \in Readable(1) : file[i].seq < counter
    /\ ~NobodyHolds => counter # 0
=============================================================================
