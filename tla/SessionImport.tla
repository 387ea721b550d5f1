----------------------------- MODULE SessionImport -----------------------------
(***************************************************************************)
(* The import of a Claude CLI session as a run, and its synchronisation:   *)
(* import_session, sync_session and sync_reconcile with their              *)
(* TranscriptImporter (storage/cli_sessions.rs), called by                 *)
(* commands/cli_sync.rs on blocking threads, without a lock.               *)
(*                                                                         *)
(* The transcript belongs to the CLI, which appends to it while it is      *)
(* read, a line in one piece or in two, and rewrites it when it compacts   *)
(* its context.  A line takes two units of the file: an odd size is that   *)
(* of a file whose last line is half written, an odd position is behind    *)
(* the half of a line.  A line is a user's prompt or an answer with its    *)
(* usage; every line has a uuid.                                           *)
(***************************************************************************)
EXTENDS Naturals, Sequences, FiniteSets

CONSTANTS
    Calls,          \* threads that run an import or a sync at a time
    MaxLines,       \* bounds: lines the CLI writes, syncs; and together: rewrites
    MaxSyncs,       \*   of the file, lines of a session the server resumed, deaths
    MaxFaults,      \*   of the server
    BufferKeys      \* keys that fill the buffer of the index writer

ASSUME SessionImportAssumption ==
    MaxLines \in Nat /\ MaxSyncs \in Nat /\ MaxFaults \in Nat /\ BufferKeys \in Nat \ {0}

VARIABLES
    file,       \* the transcript: its lines in order
    half,       \* TRUE: the last line is half written
    saved,      \* TRUE: the run has its meta.json
    mark,       \* cli_import_watermark; version: of which file
    log,        \* events.jsonl: what was imported, and what an actor wrote
    index,      \* import-index.jsonl: the source keys on disk
    call,       \* what each thread is doing
    torn,       \* history: lines that were read half written
    lapses,     \* history: what the import does not repair
    version,    \* history: rewrites of the file so far
    bound       \* counters of the bounds

vars == <<file, half, saved, mark, log, index, call, torn, lapses, version, bound>>

Ids   == 1..MaxLines
Lines == [id : Ids, prompt : BOOLEAN]
\* Source keys: of a line's message, of the usage a prompt flushes, of the last turn's.
Keys  == {"message", "usage", "finalize"} \X Ids
\* key: the source key; turn: of a usage; of: the line a message or a usage was taken from.
Events == [key : Keys \cup ({"live"} \X Ids), turn : 0..MaxLines, of : Ids]
Steps  == {"idle", "opening", "reading", "flushing", "saving"}
Modes  == {"import", "append", "reconcile"}
Lapses == {"twoSyncs", "rewritten", "crash", "resumed"}

\* The source keys of events.
KeysIn(events) == {events[n].key : n \in DOMAIN events}

\* An importer: the watermark, the position, what it has recorded and what it knows of.
Importers == [step : Steps, mode : Modes, offset : 0..2 * MaxLines, pos : 0..2 * MaxLines,
              skip : SUBSET Keys, known : SUBSET (0..MaxLines), turn : 0..MaxLines, usage : 0..MaxLines,
              buffer : SUBSET Keys]

Idle == [step |-> "idle", mode |-> "import", offset |-> 0, pos |-> 0, skip |-> {}, known |-> {},
         turn |-> 0, usage |-> 0, buffer |-> {}]

Size(f, h) == 2 * Len(f) - (IF h THEN 1 ELSE 0)
FileSize   == Size(file, half)

\* The types of the variables; and a key is in the index, or on its way there, only if its
\* event is in the log, whatever is lost in between.
TypeOK ==
    /\ file \in Seq(Lines) /\ Len(file) <= MaxLines
    /\ \A i, j \in DOMAIN file : i < j => file[i].id < file[j].id
    /\ half \in BOOLEAN /\ (half => file # <<>>)
    /\ saved \in BOOLEAN
    /\ mark \in [offset : 0..2 * MaxLines, version : 0..MaxFaults]
    /\ log \in Seq(Events)
    /\ index \subseteq Keys
    /\ call \in [Calls -> Importers]
    /\ \A c \in Calls : call[c].mode # "import" => saved
    /\ \A k \in index \cup UNION {call[c].buffer : c \in Calls} :
          k \in KeysIn(log)
    /\ torn \subseteq Ids /\ lapses \subseteq Lapses /\ version \in 0..MaxFaults
    /\ bound \in [lines : 0..MaxLines, syncs : 0..MaxSyncs, faults : 0..MaxFaults]

Init ==
    /\ file = <<>> /\ half = FALSE
    /\ saved = FALSE
    /\ mark = [offset |-> 0, version |-> 0]
    /\ log = <<>> /\ index = {}
    /\ call = [c \in Calls |-> Idle]
    /\ torn = {} /\ lapses = {} /\ version = 0
    /\ bound = [lines |-> 0, syncs |-> 0, faults |-> 0]

RunUnchanged  == UNCHANGED <<saved, mark, log, index>>
FileUnchanged == UNCHANGED <<file, half, version>>
Busy == {c \in Calls : call[c].step # "idle"}

-----------------------------------------------------------------------------
(* TranscriptImporter *)

\* The lines of the file that end at or before position p.
CompleteBefore(p) == {i \in DOMAIN file : 2 * i <= p}

UsageTurns == {log[n].turn : n \in {m \in DOMAIN log : log[m].key[1] \in {"usage", "finalize"}}}

\* flush_turn_usage: the candidate of the turn that ends, if it is not in the log yet.
TurnUsage(i, key) ==
    IF i.turn > 0 /\ i.usage # 0 /\ i.turn \notin i.known
    THEN <<[key |-> key, turn |-> i.turn, of |-> i.usage]>> ELSE <<>>

Message(line) == [key |-> <<"message", line.id>>, turn |-> 0, of |-> line.id]

\* A prompt ends a turn, whose usage comes before the message.
EndedTurn(i, line) == IF line.prompt THEN TurnUsage(i, <<"usage", line.id>>) ELSE <<>>

\* What a line makes of the importer.
Tracked(i, line) ==
    IF line.prompt THEN [i EXCEPT !.turn = @ + 1, !.usage = 0] ELSE [i EXCEPT !.usage = line.id]

\* Variant: the index is not consulted.
Unfiltered(candidate, skip) == candidate
\* A candidate, unless its key is in the skip set, which was read when the sync began.
Fresh(candidate, skip) == IF KeysIn(candidate) \cap skip = {} THEN candidate ELSE <<>>

\* Events go to the log at once, their keys to the buffer of the index writer.
Record(c, i, usage, message) ==
    LET first  == Fresh(usage, i.skip)
        second == Fresh(message, i.skip)
    IN  /\ log' = log \o first \o second
        /\ call' = [call EXCEPT ![c] = [i EXCEPT !.buffer = @ \cup KeysIn(first) \cup KeysIn(second)]]

\* Variant: the turns are counted from the watermark on.
StartAtMark(i, w, p) == [i EXCEPT !.pos = p]
\* warmup_line, for the first w lines.
WarmUp(i, w, p) ==
    LET lines   == {j \in 1..w : 2 * j <= p}
        prompts == {j \in lines : file[j].prompt}
        turn    == {j \in lines : \A k \in prompts : k < j}
    IN [i EXCEPT !.turn = Cardinality(prompts), !.pos = p,
                 !.usage = IF turn = {} THEN 0 ELSE file[CHOOSE j \in turn : \A k \in turn : k <= j].id]

-----------------------------------------------------------------------------
(* import_session *)

\* The size that becomes the watermark is taken before the file is read.
StartImport(c) ==
    /\ ~saved /\ Busy = {}
    /\ call' = [call EXCEPT ![c] = [Idle EXCEPT !.step = "reading", !.offset = FileSize]]
    /\ FileUnchanged /\ RunUnchanged /\ UNCHANGED <<torn, lapses, bound>>

-----------------------------------------------------------------------------
(* sync_session *)

\* The watermark and the file's size; nothing new ends the call.
StartSync(c) ==
    /\ saved /\ call[c].step = "idle" /\ bound.syncs < MaxSyncs
    /\ FileSize # mark.offset
    /\ call' = [call EXCEPT ![c] = [Idle EXCEPT
           !.step = "opening", !.offset = mark.offset,
           !.mode = IF FileSize > mark.offset THEN "append" ELSE "reconcile"]]
    /\ lapses' = lapses \cup (IF Busy = {} THEN {} ELSE {"twoSyncs"})
                        \cup (IF FileSize > mark.offset /\ version # mark.version
                              THEN {"rewritten"} ELSE {})
    /\ bound' = [bound EXCEPT !.syncs = @ + 1]
    /\ FileUnchanged /\ RunUnchanged /\ UNCHANGED torn

\* load_known_usage_turns, the warm-up to the watermark, load_import_skip_set.  A line the
\* watermark cuts is warmed up as a whole.
Open(c) ==
    /\ call[c].step = "opening"
    /\ LET i == [call[c] EXCEPT !.step = "reading", !.known = UsageTurns, !.skip = index]
           w == (i.offset + 1) \div 2
           end == IF 2 * w < FileSize THEN 2 * w ELSE FileSize
       IN  call' = [call EXCEPT ![c] = IF i.mode = "reconcile" THEN i
                                       ELSE WarmUp(i, IF w < Len(file) THEN w ELSE Len(file), end)]
    /\ FileUnchanged /\ RunUnchanged /\ UNCHANGED <<torn, lapses, bound>>

-----------------------------------------------------------------------------
(* The common part: read to the end of the file, finalize, flush, save *)

Reading(c) == call[c].step = "reading" /\ call[c].pos < FileSize
NextLine(c) == (call[c].pos \div 2) + 1
AtHalf(c)  == call[c].pos % 2 = 1

ReadLine(c) ==
    /\ Reading(c) /\ ~AtHalf(c)
    /\ ~(half /\ NextLine(c) = Len(file))
    /\ LET line == file[NextLine(c)]
           i    == call[c]
       IN  Record(c, [Tracked(i, line) EXCEPT !.pos = @ + 2],
                  EndedTurn(i, line), <<Message(line)>>)
    /\ FileUnchanged /\ UNCHANGED <<saved, mark, index, torn, lapses, bound>>

\* The half of a line does not parse; neither does what is left of it, if it is read later.
ReadHalf(c) ==
    /\ Reading(c)
    /\ AtHalf(c) \/ (half /\ NextLine(c) = Len(file))
    /\ call' = [call EXCEPT ![c].pos = @ + 1]
    /\ torn' = torn \cup {file[NextLine(c)].id}
    /\ FileUnchanged /\ RunUnchanged /\ UNCHANGED <<lapses, bound>>

\* The end of the file; finalize: the usage of the last turn, which may go on.
Finalize(c) ==
    /\ call[c].step = "reading" /\ call[c].pos >= FileSize
    /\ Record(c, [call[c] EXCEPT !.step = "flushing"],
              TurnUsage(call[c], <<"finalize", call[c].turn>>), <<>>)
    /\ FileUnchanged /\ UNCHANGED <<saved, mark, index, torn, lapses, bound>>

\* The index writer is flushed, here or because its buffer is full.
Flush(c) ==
    /\ call[c].step \in {"reading", "flushing"}
    /\ call[c].step = "reading" => Cardinality(call[c].buffer) >= BufferKeys
    /\ index' = index \cup call[c].buffer
    /\ call' = [call EXCEPT ![c].buffer = {},
                            ![c].step = IF @ = "flushing" THEN "saving" ELSE @]
    /\ FileUnchanged /\ UNCHANGED <<saved, mark, log, torn, lapses, bound>>

\* Variant: the size of the file when the sync ends.
SizeAtEnd(c) == FileSize
\* The position reached, of an import the size it began with.
NewOffset(c) == IF call[c].mode = "import" THEN call[c].offset ELSE call[c].pos

Save(c) ==
    /\ call[c].step = "saving"
    /\ saved' = TRUE
    /\ mark' = [offset |-> NewOffset(c), version |-> version]
    /\ call' = [call EXCEPT ![c] = Idle]
    /\ FileUnchanged /\ UNCHANGED <<log, index, torn, lapses, bound>>

\* Variant: a failed import leaves its index.
FailKeepsIndex(c) ==
    /\ call[c].step # "idle"
    /\ log' = (IF call[c].mode = "import" THEN <<>> ELSE log)
    /\ call' = [call EXCEPT ![c] = Idle]
    /\ FileUnchanged /\ UNCHANGED <<saved, mark, index, torn, lapses, bound>>
\* A read or a write fails: what an import has written goes with the directory of its run,
\* or stays there without a run; a sync leaves its events, and the index writer writes what
\* it has when it is dropped.
Fail(c) ==
    /\ call[c].step # "idle"
    /\ IF call[c].mode = "import"
       THEN log' = <<>> /\ index' = {}
       ELSE index' = index \cup call[c].buffer /\ UNCHANGED log
    /\ call' = [call EXCEPT ![c] = Idle]
    /\ FileUnchanged /\ UNCHANGED <<saved, mark, torn, lapses, bound>>

-----------------------------------------------------------------------------
(* The CLI (external), sessions resumed by the server, the server *)

WriteLine ==
    /\ ~half /\ bound.lines < MaxLines
    /\ \E prompt \in BOOLEAN, h \in BOOLEAN :
          file' = Append(file, [id |-> bound.lines + 1, prompt |-> prompt]) /\ half' = h
    /\ bound' = [bound EXCEPT !.lines = @ + 1]
    /\ RunUnchanged /\ UNCHANGED <<call, torn, lapses, version>>

EndLine ==
    /\ half /\ half' = FALSE
    /\ RunUnchanged /\ UNCHANGED <<file, call, torn, lapses, version, bound>>

\* The CLI compacts its context: earlier lines are gone from the file.
Rewrite ==
    /\ bound.faults < MaxFaults /\ ~half /\ file # <<>>
    /\ \E n \in 1..Len(file) - 1 : file' = SubSeq(file, n + 1, Len(file))
    /\ version' = version + 1
    /\ lapses' = lapses \cup (IF Busy = {} THEN {} ELSE {"rewritten"})
    /\ bound' = [bound EXCEPT !.faults = @ + 1]
    /\ RunUnchanged /\ UNCHANGED <<half, call, torn>>

\* The run is resumed: the CLI writes its lines to the same file, the actor the events of
\* the same turn to the log.
Chat ==
    /\ saved /\ ~half /\ bound.lines < MaxLines /\ bound.faults < MaxFaults
    /\ \E prompt \in BOOLEAN :
          file' = Append(file, [id |-> bound.lines + 1, prompt |-> prompt])
    /\ log' = Append(log, [key |-> <<"live", bound.lines + 1>>, turn |-> 0,
                           of |-> bound.lines + 1])
    /\ lapses' = lapses \cup {"resumed"}
    /\ bound' = [bound EXCEPT !.lines = @ + 1, !.faults = @ + 1]
    /\ UNCHANGED <<half, saved, mark, index, call, torn, version>>

\* The server dies.  What an import has written belongs to no run; of a sync, the keys that
\* were not flushed are gone.
Crash ==
    /\ bound.faults < MaxFaults
    /\ bound' = [bound EXCEPT !.faults = @ + 1]
    /\ call' = [c \in Calls |-> Idle]
    /\ IF saved THEN UNCHANGED <<log, index>> ELSE log' = <<>> /\ index' = {}
    /\ lapses' = lapses \cup (IF saved /\ \E c \in Calls : call[c].buffer # {} THEN {"crash"} ELSE {})
    /\ FileUnchanged /\ UNCHANGED <<saved, mark, torn>>

Next ==
    \/ \E c \in Calls :
          \/ StartImport(c) \/ StartSync(c) \/ Open(c)
          \/ ReadLine(c) \/ ReadHalf(c) \/ Finalize(c) \/ Flush(c) \/ Save(c) \/ Fail(c)
    \/ WriteLine \/ EndLine \/ Rewrite \/ Chat \/ Crash

Spec == Init /\ [][Next]_vars

-----------------------------------------------------------------------------
(* Properties *)

Imported(line) == \E n \in DOMAIN log : log[n].key \in {<<"message", line.id>>, <<"live", line.id>>}

\* The watermark never passes a line that is not in the log, although the file grows while
\* it is read, syncs overlap, fail and die.  The exceptions: a line that was read half
\* written, and a file that was rewritten and has outgrown its watermark since.
NoLineLost ==
    saved /\ mark.version = version /\ "rewritten" \notin lapses =>
        \A i \in CompleteBefore(mark.offset) : Imported(file[i]) \/ file[i].id \in torn

\* No line and no turn's usage is in the log twice, although lines behind the watermark, or
\* of a file that was rewritten, are read again.  The exceptions: two syncs at a time, a
\* death with keys in the buffer, and a session that was resumed by the server.
NothingTwice ==
    lapses \cap {"twoSyncs", "crash", "resumed"} = {} =>
        \A m, n \in DOMAIN log : m # n =>
            /\ log[m].key # log[n].key
            /\ log[m].turn = log[n].turn => log[m].turn = 0

\* A turn that has ended before the watermark has its usage: that of its last answer, unless
\* a sync ended in the middle of the turn; then that of an earlier one.  (If the file was
\* never rewritten, which numbers the turns anew.)
TurnOf(i) == Cardinality({j \in 1..i : file[j].prompt})

UsageIsOfItsTurn ==
    saved /\ version = 0 /\ torn = {} /\ lapses \subseteq {"crash"} =>
        \A i \in CompleteBefore(mark.offset) :
            i + 1 \in CompleteBefore(mark.offset) /\ file[i + 1].prompt
              /\ ~file[i].prompt /\ TurnOf(i) > 0 =>
                \E n \in DOMAIN log :
                    /\ log[n].turn = TurnOf(i)
                    /\ \/ log[n].of = file[i].id
                       \/ /\ log[n].key[1] = "finalize"
                          /\ \E j \in 1..i : log[n].of = file[j].id /\ TurnOf(j) = TurnOf(i)
=============================================================================
