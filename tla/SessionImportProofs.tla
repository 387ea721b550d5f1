------------------------- MODULE SessionImportProofs -------------------------
(***************************************************************************)
(* The import of a CLI session, for any number of threads, lines, syncs    *)
(* and faults: types, no line is passed over, nothing is in the log twice, *)
(* and a turn that has ended has a usage of its own.  Each of the four has *)
(* an inductive invariant: TypeInv, KeptInv, OnceInv and UsageInv.         *)
(***************************************************************************)
EXTENDS SessionImport, FiniteSetTheorems, TLAPS

-----------------------------------------------------------------------------
(* The invariants *)

\* The lines of the file are those the CLI has written, without the first ones.
FileIsNumbered ==
    /\ Len(file) <= bound.lines
    /\ \A i \in DOMAIN file : file[i].id <= bound.lines
    /\ version <= bound.faults /\ mark.version <= version

\* An import is alone; when nothing runs, a run that has no meta.json has nothing else.
ImportIsAlone ==
    /\ \A c \in Busy : call[c].mode = "import" => ~saved /\ Busy = {c}
    /\ ~saved /\ Busy = {} => log = <<>> /\ index = {}

\* What a thread has depends on its step: nothing when it is idle, no keys before it reads
\* and after it has flushed; and it has not counted more prompts than it has read lines.
StepOfCall(i) ==
    /\ i.step = "idle" => i = Idle
    /\ i.step = "opening" => i.mode # "import" /\ i.pos = 0 /\ i.turn = 0 /\ i.usage = 0
    /\ i.step \in {"opening", "saving"} => i.buffer = {}
    /\ 2 * i.turn <= i.pos

StepsOfCalls == \A c \in Calls : StepOfCall(call[c])

TypeInv == TypeOK /\ FileIsNumbered /\ ImportIsAlone /\ StepsOfCalls

\* What a reader of the transcript and of the log sees.
World == [file |-> file, size |-> FileSize, keys |-> KeysIn(log), torn |-> torn]

\* In the world w, every line of which a part is before position p is in the log, or was read
\* half written.
KeptTo(p, w) ==
    /\ p <= w.size
    /\ \A i \in DOMAIN w.file : 2 * i <= p + 1 =>
          w.file[i].id \in w.torn \/ \E kind \in {"message", "live"} : <<kind, w.file[i].id>> \in w.keys

\* Everything up to the position of the importer i is kept; before it opens the file,
\* everything up to the watermark it has read.  An import begins with a size that it reaches.
KeptFor(i, w) ==
    /\ i.step = "opening" /\ i.mode = "append" => KeptTo(i.offset, w)
    /\ i.step \in {"reading", "flushing", "saving"} => KeptTo(i.pos, w)
    /\ i.step # "idle" /\ i.mode = "import" =>
          i.offset <= w.size /\ (i.step # "reading" => i.offset <= i.pos)

\* As long as the file has not been rewritten under a sync, everything up to the watermark,
\* and up to the position of a sync or an import, is kept; what a sync skips is in the log.
KeptInv ==
    /\ \A c \in Calls : call[c].skip \subseteq KeysIn(log)
    /\ "rewritten" \notin lapses =>
          /\ saved /\ mark.version = version => KeptTo(mark.offset, World)
          /\ \A c \in Calls : KeptFor(call[c], World)

\* Two events are apart: other keys, and usages of other turns.
Apart(e, f) == e.key # f.key /\ (e.turn = f.turn => e.turn = 0)
AllApart(s) == \A m, n \in DOMAIN s : m # n => Apart(s[m], s[n])

\* An imported event, of one of the m lines written so far; only a usage is of a turn.
Formed(e, m) ==
    /\ e.key[1] \in {"message", "usage", "finalize"}
    /\ e.key[1] # "finalize" => e.key[2] <= m
    /\ e.key[1] = "message" => e.turn = 0

\* What the importer i has still to record of the file f is apart from the event e: its key
\* is in the skip set, or of a line before those i has still to read; its turn is known or
\* over.
IsPast(e, i, f) ==
    /\ \/ e.key \in i.skip
       \/ /\ e.key[1] # "finalize"
          /\ \A j \in DOMAIN f : 2 * j > i.pos => e.key[2] < f[j].id
    /\ e.turn = 0 \/ e.turn \in i.known \/ e.turn < i.turn

\* No two syncs at a time, no keys that were lost, no events of the server's own.
Clean == lapses \cap {"twoSyncs", "crash", "resumed"} = {}

\* Then at most one thread imports, the keys of all events are in the index or on their way
\* there, and a reader will not meet them again.
OnceInv ==
    Clean =>
        /\ AllApart(log)
        /\ \A c, d \in Busy : c = d
        /\ KeysIn(log) \subseteq index \cup UNION {call[c].buffer : c \in Calls}
        /\ \A n \in DOMAIN log : Formed(log[n], bound.lines)
        /\ \A c \in Calls : call[c].step = "reading" =>
              \A n \in DOMAIN log : IsPast(log[n], call[c], file)

\* The turn of the first i lines of f, line i of f answers a prompt and the next line is one.
TurnIn(f, i) == Cardinality({j \in 1..i : f[j].prompt})

LastAnswer(f, i) ==
    i + 1 \in DOMAIN f /\ f[i + 1].prompt /\ ~f[i].prompt /\ TurnIn(f, i) > 0

\* What the last line read has left in the importer: the prompts so far, and the answer it
\* is.
Counts(i, f) ==
    LET n == i.pos \div 2
    IN  /\ i.turn = TurnIn(f, n)
        /\ i.usage = IF n = 0 \/ f[n].prompt THEN 0 ELSE f[n].id

\* A usage is of the last answer of its turn and was recorded at the prompt behind it; that
\* of the last turn is of an answer of it.
OfTurn(e, f) ==
    /\ e.key[1] = "usage" => \E i \in DOMAIN f :
          /\ LastAnswer(f, i) /\ e.key[2] = f[i + 1].id
          /\ e.turn = TurnIn(f, i) /\ e.of = f[i].id
    /\ e.key[1] = "finalize" => \E i \in DOMAIN f : e.of = f[i].id /\ e.turn = TurnIn(f, i)
    /\ e.key[1] \notin {"usage", "finalize"} => e.turn = 0

TurnsIn(s) == {s[n].turn : n \in DOMAIN s}

\* The turns that have ended before position p have their usage in the events s.
EndedBefore(p, f, s) ==
    \A i \in DOMAIN f : LastAnswer(f, i) /\ 2 * (i + 1) <= p + 1 => TurnIn(f, i) \in TurnsIn(s)

UsageFor(i, f, s) ==
    /\ i.known \subseteq TurnsIn(s)
    /\ i.step = "reading" => Counts(i, f)
    /\ i.step = "opening" /\ i.mode = "append" => EndedBefore(i.offset, f, s)
    /\ i.step \in {"reading", "flushing", "saving"} => EndedBefore(i.pos, f, s)

\* The file was never rewritten and no half of a line was read; one sync at a time.
Straight == version = 0 /\ torn = {} /\ lapses \subseteq {"crash"}

\* Then every usage is of its turn, and what is before the watermark, or the position of a
\* reader, has its usage.
UsageInv ==
    Straight =>
        /\ \A n \in DOMAIN log : OfTurn(log[n], file)
        /\ saved => EndedBefore(mark.offset, file, log)
        /\ \A c \in Calls : UsageFor(call[c], file, log)

-----------------------------------------------------------------------------
(* Sizes, threads and records *)

\* The size of the file in its units.
LEMMA SizeOfFile ==
    ASSUME TypeInv
    PROVE  /\ Len(file) \in Nat /\ Len(file) <= MaxLines /\ DOMAIN file = 1..Len(file)
           /\ FileSize \in 0..2 * MaxLines
           /\ ~half => FileSize = 2 * Len(file)
           /\ half => FileSize = 2 * Len(file) - 1 /\ Len(file) > 0
<1>1. file \in Seq(Lines) /\ Len(file) <= MaxLines /\ half \in BOOLEAN /\ (half => file # <<>>)
  BY DEF TypeInv, TypeOK
<1>2. Len(file) \in Nat /\ DOMAIN file = 1..Len(file) /\ (half => Len(file) > 0)
  BY <1>1
<1>3. CASE half
  BY <1>1, <1>2, <1>3, SessionImportAssumption DEF FileSize, Size
<1>4. CASE ~half
  BY <1>1, <1>2, <1>4, SessionImportAssumption DEF FileSize, Size
<1> QED BY <1>1, <1>2, <1>3, <1>4

\* An idle thread is an importer that has nothing.
LEMMA IdleImporter ==
    /\ Idle \in Importers
    /\ Idle.step = "idle" /\ Idle.mode = "import" /\ Idle.offset = 0 /\ Idle.pos = 0
    /\ Idle.skip = {} /\ Idle.known = {} /\ Idle.turn = 0 /\ Idle.usage = 0 /\ Idle.buffer = {}
BY SessionImportAssumption DEF Idle, Importers, Steps, Modes

\* One thread moves.
LEMMA OneMoves ==
    ASSUME call \in [Calls -> Importers], NEW c \in Calls, NEW i \in Importers,
           call' = [call EXCEPT ![c] = i]
    PROVE  /\ call' \in [Calls -> Importers] /\ call'[c] = i
           /\ \A d \in Calls : d # c => call'[d] = call[d]
           /\ \A d : d \in Busy' <=> (d \in Busy /\ d # c) \/ (d = c /\ i.step # "idle")
<1>1. /\ call' \in [Calls -> Importers] /\ call'[c] = i
      /\ \A d \in Calls : d # c => call'[d] = call[d]
  OBVIOUS
<1>2. /\ \A d : d \in Busy' <=> d \in Calls /\ call'[d].step # "idle"
      /\ \A d : d \in Busy <=> d \in Calls /\ call[d].step # "idle"
  BY DEF Busy
<1> QED BY <1>1, <1>2

\* An event, or none, is added to the log.
Optional == {<<>>} \cup {<<e>> : e \in Events}

\* A sequence of events with at most one more: the old ones stay, and stay apart.
LEMMA Added ==
    ASSUME NEW s \in Seq(Events), NEW o \in Optional
    PROVE  /\ s \o o \in Seq(Events)
           /\ \A n \in DOMAIN s : n \in DOMAIN (s \o o) /\ (s \o o)[n] = s[n]
           /\ \A n \in DOMAIN (s \o o) :
                 (n \in DOMAIN s /\ (s \o o)[n] = s[n]) \/ o = <<(s \o o)[n]>>
           /\ \A e : o = <<e>> => \E n \in DOMAIN (s \o o) : (s \o o)[n] = e
           /\ AllApart(s) /\ (\A n \in DOMAIN s : \A e : o = <<e>> => Apart(s[n], e))
                 => AllApart(s \o o)
<1>1. CASE o = <<>>
  <2>1. s \o o = s
    BY <1>1
  <2>2. \A e : o # <<e>>
    BY <1>1
  <2> QED BY <2>1, <2>2
<1>2. ASSUME NEW e \in Events, o = <<e>>
      PROVE  /\ s \o o \in Seq(Events)
             /\ \A n \in DOMAIN s : n \in DOMAIN (s \o o) /\ (s \o o)[n] = s[n]
             /\ \A n \in DOMAIN (s \o o) :
                   (n \in DOMAIN s /\ (s \o o)[n] = s[n]) \/ (n = Len(s) + 1 /\ (s \o o)[n] = e)
             /\ Len(s) + 1 \in DOMAIN (s \o o) /\ (s \o o)[Len(s) + 1] = e
  <2>1. s \o o = Append(s, e)
    BY <1>2
  <2>2. /\ Append(s, e) \in Seq(Events) /\ DOMAIN Append(s, e) = 1..(Len(s) + 1)
        /\ DOMAIN s = 1..Len(s) /\ Len(s) \in Nat
        /\ \A n \in DOMAIN s : Append(s, e)[n] = s[n]
        /\ Append(s, e)[Len(s) + 1] = e
    OBVIOUS
  <2> QED BY <2>1, <2>2
<1>3. ASSUME NEW e \in Events, o = <<e>>
      PROVE  AllApart(s) /\ (\A n \in DOMAIN s : Apart(s[n], e)) => AllApart(s \o o)
  <2>1. \A x : Apart(x, e) => Apart(e, x)
    BY DEF Apart
  <2> DEFINE t == s \o o
  <2>2. /\ \A n \in DOMAIN t : (n \in DOMAIN s /\ t[n] = s[n]) \/ (n = Len(s) + 1 /\ t[n] = e)
    BY <1>2, <1>3
  <2> HIDE DEF t
  <2>3. AllApart(s) /\ (\A n \in DOMAIN s : Apart(s[n], e)) => AllApart(t)
    BY <2>1, <2>2 DEF AllApart
  <2> QED BY <2>3 DEF t
<1>4. ASSUME NEW e \in Events, o = <<e>>, NEW f, o = <<f>>
      PROVE  e = f
  BY <1>4
<1>5. ASSUME NEW e \in Events, o = <<e>>
      PROVE  /\ s \o o \in Seq(Events)
             /\ \A n \in DOMAIN s : n \in DOMAIN (s \o o) /\ (s \o o)[n] = s[n]
             /\ \A n \in DOMAIN (s \o o) :
                   (n \in DOMAIN s /\ (s \o o)[n] = s[n]) \/ o = <<(s \o o)[n]>>
             /\ \A f : o = <<f>> => \E n \in DOMAIN (s \o o) : (s \o o)[n] = f
             /\ AllApart(s) /\ (\A n \in DOMAIN s : \A f : o = <<f>> => Apart(s[n], f))
                   => AllApart(s \o o)
  <2>1. \A n \in DOMAIN (s \o o) : n = Len(s) + 1 /\ (s \o o)[n] = e => o = <<(s \o o)[n]>>
    BY <1>5
  <2>2. \A f : o = <<f>> => f = e
    BY <1>4, <1>5
  <2> HIDE DEF Optional
  <2>3. \A f : o = <<f>> => \E n \in DOMAIN (s \o o) : (s \o o)[n] = f
    BY <1>2, <1>5, <2>2
  <2>4. AllApart(s) /\ (\A n \in DOMAIN s : \A f : o = <<f>> => Apart(s[n], f))
           => AllApart(s \o o)
    BY <1>3, <1>5
  <2> QED BY <1>2, <1>5, <2>1, <2>3, <2>4
<1> QED BY <1>1, <1>5 DEF Optional

\* A candidate is recorded unless its key is known.
LEMMA FreshOptional ==
    ASSUME NEW o \in Optional, NEW skip
    PROVE  /\ Fresh(o, skip) \in Optional
           /\ KeysIn(o) \subseteq Keys \cup ({"live"} \X Ids)
           /\ \A e : Fresh(o, skip) = <<e>> => o = <<e>> /\ e.key \notin skip
           /\ \A e : o = <<e>> => e.key \in skip \/ Fresh(o, skip) = <<e>>
<1>1. CASE o = <<>>
  <2>1. Fresh(o, skip) = <<>> /\ KeysIn(o) = {}
    BY <1>1 DEF Fresh, KeysIn
  <2>2. \A e : <<>> # <<e>>
    OBVIOUS
  <2> QED BY <1>1, <2>1, <2>2
<1>2. ASSUME NEW e \in Events, o = <<e>>
      PROVE  /\ Fresh(o, skip) \in Optional
             /\ KeysIn(o) \subseteq Keys \cup ({"live"} \X Ids)
             /\ \A f : Fresh(o, skip) = <<f>> => o = <<f>> /\ f.key \notin skip
             /\ \A f : o = <<f>> => f.key \in skip \/ Fresh(o, skip) = <<f>>
  <2>1. KeysIn(o) = {e.key}
    BY <1>2 DEF KeysIn
  <2>2. e.key \in Keys \cup ({"live"} \X Ids)
    BY DEF Events
  <2>3. Fresh(o, skip) = IF e.key \in skip THEN <<>> ELSE o
    BY <2>1 DEF Fresh
  <2>4. <<>> \in Optional /\ \A f : <<>> # <<f>>
    BY DEF Optional
  <2>5. \A f : o = <<f>> => f = e
    BY <1>2
  <2> QED BY <1>2, <2>1, <2>2, <2>3, <2>4, <2>5
<1> QED BY <1>1, <1>2 DEF Optional

\* What Record does.
LEMMA Recorded ==
    ASSUME call \in [Calls -> Importers], log \in Seq(Events),
           NEW c \in Calls, NEW i \in Importers, NEW a \in Optional, NEW b \in Optional,
           KeysIn(a) \subseteq Keys, KeysIn(b) \subseteq Keys, Record(c, i, a, b)
    PROVE  /\ log' \in Seq(Events)
           /\ \A n \in DOMAIN log : n \in DOMAIN log' /\ log'[n] = log[n]
           /\ \A n \in DOMAIN log' :
                 \/ n \in DOMAIN log /\ log'[n] = log[n]
                 \/ (a = <<log'[n]>> \/ b = <<log'[n]>>) /\ log'[n].key \notin i.skip
           /\ \A e : a = <<e>> \/ b = <<e>> =>
                 e.key \in i.skip \/ \E n \in DOMAIN log' : log'[n] = e
           /\ \E K \in SUBSET Keys :
                 /\ call' = [call EXCEPT ![c] = [i EXCEPT !.buffer = @ \cup K]]
                 /\ [i EXCEPT !.buffer = @ \cup K] \in Importers
                 /\ \A k : k \in KeysIn(log') <=> k \in KeysIn(log) \/ k \in K
           /\ /\ AllApart(log)
              /\ \A n \in DOMAIN log : \A e :
                    (a = <<e>> \/ b = <<e>>) /\ e.key \notin i.skip => Apart(log[n], e)
              /\ \A e, f : a = <<e>> /\ b = <<f>> => Apart(e, f)
              => AllApart(log')
<1> DEFINE first  == Fresh(a, i.skip)
           second == Fresh(b, i.skip)
           mid    == log \o first
<1>1. /\ first \in Optional /\ second \in Optional
      /\ \A e : first = <<e>> => a = <<e>> /\ e.key \notin i.skip
      /\ \A e : second = <<e>> => b = <<e>> /\ e.key \notin i.skip
      /\ \A e : a = <<e>> => e.key \in i.skip \/ first = <<e>>
      /\ \A e : b = <<e>> => e.key \in i.skip \/ second = <<e>>
  BY FreshOptional
<1>2. /\ log' = mid \o second
      /\ call' = [call EXCEPT ![c] = [i EXCEPT !.buffer = @ \cup KeysIn(first) \cup KeysIn(second)]]
  BY DEF Record
<1>3. KeysIn(first) \subseteq KeysIn(a) /\ KeysIn(second) \subseteq KeysIn(b)
  BY DEF Fresh, KeysIn
<1> HIDE DEF first, second
<1>4. /\ mid \in Seq(Events)
      /\ \A n \in DOMAIN log : n \in DOMAIN mid /\ mid[n] = log[n]
      /\ \A n \in DOMAIN mid : (n \in DOMAIN log /\ mid[n] = log[n]) \/ first = <<mid[n]>>
      /\ \A e : first = <<e>> => \E n \in DOMAIN mid : mid[n] = e
      /\ AllApart(log) /\ (\A n \in DOMAIN log : \A e : first = <<e>> => Apart(log[n], e))
            => AllApart(mid)
  BY <1>1, Added
<1> HIDE DEF mid
<1>5. /\ log' \in Seq(Events)
      /\ \A n \in DOMAIN mid : n \in DOMAIN log' /\ log'[n] = mid[n]
      /\ \A n \in DOMAIN log' : (n \in DOMAIN mid /\ log'[n] = mid[n]) \/ second = <<log'[n]>>
      /\ \A e : second = <<e>> => \E n \in DOMAIN log' : log'[n] = e
      /\ AllApart(mid) /\ (\A n \in DOMAIN mid : \A e : second = <<e>> => Apart(mid[n], e))
            => AllApart(log')
  <2> DEFINE t == mid \o second
  <2>1. mid \in Seq(Events) /\ second \in Optional
    BY <1>1, <1>4
  <2>2. /\ t \in Seq(Events)
        /\ \A n \in DOMAIN mid : n \in DOMAIN t /\ t[n] = mid[n]
        /\ \A n \in DOMAIN t : (n \in DOMAIN mid /\ t[n] = mid[n]) \/ second = <<t[n]>>
        /\ \A e : second = <<e>> => \E n \in DOMAIN t : t[n] = e
        /\ AllApart(mid) /\ (\A n \in DOMAIN mid : \A e : second = <<e>> => Apart(mid[n], e))
              => AllApart(t)
    BY <2>1, Added
  <2>3. t = log'
    BY <1>2
  <2> HIDE DEF t
  <2> QED BY <2>2, <2>3
<1>6. \A n \in DOMAIN log : n \in DOMAIN log' /\ log'[n] = log[n]
  BY <1>4, <1>5
<1>7. \A n \in DOMAIN log' : \/ n \in DOMAIN log /\ log'[n] = log[n]
                             \/ first = <<log'[n]>> \/ second = <<log'[n]>>
  BY <1>4, <1>5
<1>8. \A e : first = <<e>> \/ second = <<e>> => \E n \in DOMAIN log' : log'[n] = e
  BY <1>4, <1>5
<1>9. \E K \in SUBSET Keys :
         /\ call' = [call EXCEPT ![c] = [i EXCEPT !.buffer = @ \cup K]]
         /\ [i EXCEPT !.buffer = @ \cup K] \in Importers
         /\ \A k : k \in KeysIn(log') <=> k \in KeysIn(log) \/ k \in K
  <2> DEFINE K == KeysIn(first) \cup KeysIn(second)
  <2>1. K \subseteq Keys
    BY <1>3
  <2>2. call' = [call EXCEPT ![c] = [i EXCEPT !.buffer = @ \cup K]]
    BY <1>2
  <2>3. \A e : first = <<e>> \/ second = <<e>> => e.key \in K
    BY DEF KeysIn
  <2>4. \A k \in K : \E e : (first = <<e>> \/ second = <<e>>) /\ k = e.key
    <3>1. ASSUME NEW o \in Optional, NEW k \in KeysIn(o)
          PROVE  \E e : o = <<e>> /\ k = e.key
      BY <3>1 DEF Optional, KeysIn
    <3> QED BY <3>1, <1>1
  <2> HIDE DEF K
  <2>5. \A k : k \in KeysIn(log') <=> k \in KeysIn(log) \/ k \in K
    <3>1. ASSUME NEW k \in KeysIn(log')
          PROVE  k \in KeysIn(log) \/ k \in K
      BY <3>1, <1>7, <2>3 DEF KeysIn
    <3>2. ASSUME NEW k \in KeysIn(log)
          PROVE  k \in KeysIn(log')
      BY <3>2, <1>6 DEF KeysIn
    <3>3. ASSUME NEW k \in K
          PROVE  k \in KeysIn(log')
      <4>1. PICK e : (first = <<e>> \/ second = <<e>>) /\ k = e.key
        BY <2>4, <3>3
      <4>2. PICK n \in DOMAIN log' : log'[n] = e
        BY <4>1, <1>8
      <4> QED BY <4>1, <4>2 DEF KeysIn
    <3> QED BY <3>1, <3>2, <3>3
  <2>6. [i EXCEPT !.buffer = @ \cup K] \in Importers
    BY <2>1 DEF Importers
  <2> QED BY <2>1, <2>2, <2>5, <2>6
<1>10. ASSUME /\ AllApart(log)
              /\ \A n \in DOMAIN log : \A e :
                    (a = <<e>> \/ b = <<e>>) /\ e.key \notin i.skip => Apart(log[n], e)
              /\ \A e, f : a = <<e>> /\ b = <<f>> => Apart(e, f)
       PROVE  AllApart(log')
  <2>1. AllApart(mid)
    BY <1>1, <1>4, <1>10
  <2>2. \A n \in DOMAIN mid : \A e : second = <<e>> => Apart(mid[n], e)
    BY <1>1, <1>4, <1>10
  <2> QED BY <2>1, <2>2, <1>5
<1> QED BY <1>1, <1>5, <1>6, <1>7, <1>8, <1>9, <1>10

\* What an ended turn, and a message, give rise to.
LEMMA UsageOptional ==
    ASSUME NEW i \in Importers, NEW key, i.turn > 0 => key \in Keys
    PROVE  /\ TurnUsage(i, key) \in Optional
           /\ KeysIn(TurnUsage(i, key)) \subseteq Keys
           /\ \A e : TurnUsage(i, key) = <<e>> =>
                 /\ e \in Events /\ e.key = key /\ e.turn = i.turn /\ e.of = i.usage
                 /\ i.turn > 0 /\ i.usage # 0 /\ i.turn \notin i.known
<1> DEFINE Due == i.turn > 0 /\ i.usage # 0 /\ i.turn \notin i.known
           e == [key |-> key, turn |-> i.turn, of |-> i.usage]
<1>1. CASE ~Due
  <2>1. TurnUsage(i, key) = <<>>
    BY <1>1 DEF TurnUsage
  <2>2. \A f : <<>> # <<f>>
    OBVIOUS
  <2> QED BY <2>1, <2>2 DEF Optional, KeysIn
<1>2. CASE Due
  <2>1. TurnUsage(i, key) = <<e>>
    BY <1>2 DEF TurnUsage
  <2>2. e \in Events
    BY <1>2 DEF Events, Importers, Ids
  <2>3. KeysIn(<<e>>) = {key}
    BY DEF KeysIn
  <2>4. \A f : <<e>> = <<f>> => f = e
    OBVIOUS
  <2>5. key \in Keys
    BY <1>2
  <2> QED BY <1>2, <2>1, <2>2, <2>3, <2>4, <2>5 DEF Optional
<1> QED BY <1>1, <1>2

\* The candidate of a line is an event with the line's key and no turn.
LEMMA MessageOptional ==
    ASSUME NEW line \in Lines
    PROVE  /\ <<Message(line)>> \in Optional
           /\ KeysIn(<<Message(line)>>) \subseteq Keys
           /\ Message(line).key = <<"message", line.id>> /\ Message(line).turn = 0
           /\ \A e : <<Message(line)>> = <<e>> => e = Message(line)
<1>1. Message(line) \in Events /\ Message(line).key \in Keys
  BY SessionImportAssumption DEF Message, Lines, Events, Keys
<1>2. KeysIn(<<Message(line)>>) = {Message(line).key}
  BY DEF KeysIn
<1>3. Message(line).key = <<"message", line.id>> /\ Message(line).turn = 0
  BY DEF Message
<1> HIDE DEF Message
<1> QED BY <1>1, <1>2, <1>3 DEF Optional

\* The line a reader is at.
LEMMA LineAt ==
    ASSUME TypeInv, NEW c \in Calls, Reading(c)
    PROVE  /\ NextLine(c) \in DOMAIN file /\ file[NextLine(c)] \in Lines
           /\ AtHalf(c) => 2 * NextLine(c) = call[c].pos + 1
           /\ ~AtHalf(c) => 2 * NextLine(c) = call[c].pos + 2
           /\ ~(half /\ NextLine(c) = Len(file)) => 2 * NextLine(c) <= FileSize
           /\ call[c].pos \in Nat /\ call[c].pos < FileSize
<1>1. call[c].pos \in Nat /\ call[c].pos < FileSize /\ file \in Seq(Lines) /\ FileSize \in Nat
  <2>1. call[c] \in Importers /\ file \in Seq(Lines) /\ MaxLines \in Nat
    BY SessionImportAssumption DEF TypeInv, TypeOK
  <2>2. call[c].pos \in Nat /\ FileSize \in Nat
    BY <2>1, SizeOfFile DEF Importers
  <2> QED BY <2>1, <2>2 DEF Reading
<1>2. /\ Len(file) \in Nat /\ DOMAIN file = 1..Len(file)
      /\ FileSize = 2 * Len(file) \/ (half /\ FileSize = 2 * Len(file) - 1)
  BY SizeOfFile
<1> DEFINE p == call[c].pos
           z == FileSize
           n == Len(file)
<1>3. /\ (p \div 2) + 1 \in 1..n
      /\ p % 2 = 1 => 2 * ((p \div 2) + 1) = p + 1
      /\ p % 2 # 1 => 2 * ((p \div 2) + 1) = p + 2
      /\ ~(half /\ (p \div 2) + 1 = n) => 2 * ((p \div 2) + 1) <= z
  <2>1. p \in Nat /\ p < z /\ n \in Nat /\ z \in Nat /\ (z = 2 * n \/ (half /\ z = 2 * n - 1))
    BY <1>1, <1>2
  <2> HIDE DEF p, z, n
  <2> QED BY <2>1
<1>4. \A k \in DOMAIN file : file[k] \in Lines
  BY <1>1
<1> QED BY <1>1, <1>2, <1>3, <1>4 DEF NextLine, AtHalf

-----------------------------------------------------------------------------
(* Types *)

\* A step of one thread keeps the types if the thread, the log and the index do.
LEMMA MoveTypes ==
    ASSUME TypeInv, NEW c \in Calls, NEW i \in Importers, call' = [call EXCEPT ![c] = i],
           UNCHANGED <<file, half, version>>,
           saved' \in BOOLEAN, saved => saved',
           mark' \in [offset : 0..2 * MaxLines, version : 0..MaxFaults],
           mark'.version <= version,
           log' \in Seq(Events), index' \subseteq Keys,
           \A d \in Calls : d # c => \A k \in call[d].buffer : k \in KeysIn(log'),
           \A k \in index' \cup i.buffer : k \in KeysIn(log'),
           torn' \subseteq Ids, lapses' \subseteq Lapses,
           bound' \in [lines : 0..MaxLines, syncs : 0..MaxSyncs, faults : 0..MaxFaults],
           bound'.lines = bound.lines, bound'.faults = bound.faults,
           StepOfCall(i),
           i.mode # "import" => saved',
           i.step # "idle" /\ i.mode = "import" => ~saved' /\ Busy \subseteq {c},
           c \in Busy \/ saved \/ Busy = {},
           saved' => saved \/ Busy \subseteq {c},
           ~saved' /\ i.step = "idle" /\ Busy \subseteq {c} => log' = <<>> /\ index' = {}
    PROVE  TypeInv'
<1>1. /\ call \in [Calls -> Importers] /\ file \in Seq(Lines) /\ Len(file) <= MaxLines
      /\ \A m, n \in DOMAIN file : m < n => file[m].id < file[n].id
      /\ half \in BOOLEAN /\ (half => file # <<>>) /\ version \in 0..MaxFaults
      /\ \A d \in Calls : call[d].mode # "import" => saved
  BY DEF TypeInv, TypeOK
<1>2. /\ call' \in [Calls -> Importers] /\ call'[c] = i
      /\ \A d \in Calls : d # c => call'[d] = call[d]
      /\ \A d : d \in Busy' <=> (d \in Busy /\ d # c) \/ (d = c /\ i.step # "idle")
  BY <1>1, OneMoves
<1>3. TypeOK'
  <2>1. \A d \in Calls : call'[d].mode # "import" => saved'
    BY <1>1, <1>2
  <2>2. \A k \in (index \cup UNION {call[d].buffer : d \in Calls})' : k \in KeysIn(log')
    BY <1>2
  <2> QED BY <1>1, <1>2, <2>1, <2>2 DEF TypeOK
<1>4. FileIsNumbered'
  BY DEF TypeInv, FileIsNumbered
<1>5. ImportIsAlone'
  <2>1. ASSUME NEW d \in Busy', call'[d].mode = "import"
        PROVE  ~saved' /\ Busy' = {d}
    <3>1. CASE d = c
      BY <1>2, <2>1, <3>1
    <3>2. CASE d # c
      <4>1. d \in Busy /\ call[d].mode = "import" /\ d \in Calls
        BY <1>2, <2>1, <3>2 DEF Busy
      <4>2. ~saved /\ Busy = {d}
        BY <4>1 DEF TypeInv, ImportIsAlone
      <4> QED BY <3>2, <4>2
    <3> QED BY <3>1, <3>2
  <2>2. ASSUME ~saved', Busy' = {}
        PROVE  log' = <<>> /\ index' = {}
    <3>1. i.step = "idle" /\ Busy \subseteq {c}
      BY <1>2, <2>2
    <3> QED BY <2>2, <3>1
  <2> QED BY <2>1, <2>2 DEF ImportIsAlone
<1>6. StepsOfCalls'
  <2>1. \A d \in Calls : StepOfCall(call'[d])
    BY <1>2 DEF TypeInv, StepsOfCalls
  <2> QED BY <2>1 DEF StepsOfCalls
<1> QED BY <1>3, <1>4, <1>5, <1>6 DEF TypeInv

\* Every variable keeps its type, and the keys on disk or on their way are in the log.
LEMMA Types ==
    ASSUME TypeInv
    PROVE  /\ call \in [Calls -> Importers] /\ log \in Seq(Events) /\ index \subseteq Keys
           /\ file \in Seq(Lines)
           /\ mark \in [offset : 0..2 * MaxLines, version : 0..MaxFaults]
           /\ version \in Nat /\ mark.version \in Nat /\ mark.version <= version
           /\ saved \in BOOLEAN /\ half \in BOOLEAN
           /\ torn \subseteq Ids /\ lapses \subseteq Lapses
           /\ bound \in [lines : 0..MaxLines, syncs : 0..MaxSyncs, faults : 0..MaxFaults]
           /\ \A d \in Calls : \A k \in call[d].buffer : k \in KeysIn(log)
           /\ \A k \in index : k \in KeysIn(log)
           /\ \A d \in Calls : call[d].mode # "import" => saved
           /\ \A d \in Calls : d \in Busy \/ call[d] = Idle
           /\ \A d \in Calls : StepOfCall(call[d])
           /\ MaxLines \in Nat /\ MaxSyncs \in Nat /\ MaxFaults \in Nat
BY SessionImportAssumption DEF TypeInv, TypeOK, FileIsNumbered, StepsOfCalls, StepOfCall, Busy

\* The positions of the readers and of the lines are numbers.
LEMMA Positions ==
    ASSUME TypeInv
    PROVE  /\ FileSize \in Nat /\ FileSize <= 2 * MaxLines
           /\ \A j \in DOMAIN file : j \in Nat /\ j > 0
           /\ \A d \in Calls : call[d].pos \in Nat /\ call[d].offset \in Nat /\ call[d].turn \in Nat
<1>1. FileSize \in Nat /\ FileSize <= 2 * MaxLines /\ DOMAIN file = 1..Len(file)
  BY SizeOfFile, SessionImportAssumption
<1>2. \A j \in DOMAIN file : j \in Nat /\ j > 0
  BY <1>1
<1>3. \A d \in Calls : call[d] \in Importers
  BY Types
<1>4. \A d \in Calls : call[d].pos \in Nat /\ call[d].offset \in Nat /\ call[d].turn \in Nat
  BY <1>3 DEF Importers
<1> QED BY <1>1, <1>2, <1>4

\* import_session and sync_session begin with an importer that has nothing.
LEMMA StartTypes ==
    ASSUME TypeInv, NEW c \in Calls, StartImport(c) \/ StartSync(c)
    PROVE  TypeInv'
<1>1. CASE StartImport(c)
  <2> DEFINE i == [Idle EXCEPT !.step = "reading", !.offset = FileSize]
  <2>1. /\ i \in Importers /\ i.step = "reading" /\ i.mode = "import" /\ i.pos = 0 /\ i.turn = 0
        /\ i.buffer = {}
    BY SizeOfFile, IdleImporter DEF Importers, Steps
  <2>2. call' = [call EXCEPT ![c] = i] /\ ~saved /\ Busy = {}
    BY <1>1 DEF StartImport
  <2> HIDE DEF i
  <2>3. StepOfCall(i)
    BY <2>1 DEF StepOfCall
  <2> QED BY <1>1, <2>1, <2>2, <2>3, MoveTypes, Types
          DEF StartImport, FileUnchanged, RunUnchanged
<1>2. CASE StartSync(c)
  <2> DEFINE i == [Idle EXCEPT !.step = "opening", !.offset = mark.offset,
                     !.mode = IF FileSize > mark.offset THEN "append" ELSE "reconcile"]
  <2>1. /\ i \in Importers /\ i.step = "opening" /\ i.mode # "import" /\ i.pos = 0 /\ i.turn = 0
        /\ i.buffer = {} /\ i.usage = 0
    BY Types, IdleImporter DEF Importers, Steps, Modes
  <2>2. call' = [call EXCEPT ![c] = i] /\ saved
    BY <1>2 DEF StartSync
  <2> HIDE DEF i
  <2>3. StepOfCall(i)
    BY <2>1 DEF StepOfCall
  <2>4. /\ bound' \in [lines : 0..MaxLines, syncs : 0..MaxSyncs, faults : 0..MaxFaults]
        /\ bound'.lines = bound.lines /\ bound'.faults = bound.faults
    <3>1. bound' = [bound EXCEPT !.syncs = @ + 1] /\ bound.syncs < MaxSyncs
      BY <1>2 DEF StartSync
    <3>2. /\ bound \in [lines : 0..MaxLines, syncs : 0..MaxSyncs, faults : 0..MaxFaults]
          /\ MaxLines \in Nat /\ MaxSyncs \in Nat /\ MaxFaults \in Nat
      BY Types
    <3> QED BY <3>1, <3>2
  <2>5. lapses' \subseteq Lapses
    BY <1>2, Types DEF StartSync, Lapses
  <2> QED BY <1>2, <2>1, <2>2, <2>3, <2>4, <2>5, MoveTypes, Types
          DEF StartSync, FileUnchanged, RunUnchanged
<1> QED BY <1>1, <1>2

\* The warm-up over the first w lines, as far as they end before p: how many prompts they
\* are, and the answer the last of them is, if it is one.
LEMMA WarmedUp ==
    ASSUME TypeInv, NEW i \in Importers, NEW w \in 0..Len(file), NEW p \in 0..2 * MaxLines,
           NEW l, l = (IF 2 * w <= p THEN w ELSE p \div 2),
           NEW u, u = WarmUp(i, w, p)
    PROVE  /\ u \in Importers /\ u.pos = p /\ 2 * u.turn <= p
           /\ u.step = i.step /\ u.mode = i.mode /\ u.offset = i.offset
           /\ u.skip = i.skip /\ u.known = i.known /\ u.buffer = i.buffer
           /\ u.turn = TurnIn(file, l)
           /\ u.usage = IF l = 0 \/ file[l].prompt THEN 0 ELSE file[l].id
<1> DEFINE m == IF 2 * w <= p THEN w ELSE p \div 2
           lines == {j \in 1..w : 2 * j <= p}
           prompts == {j \in lines : file[j].prompt}
           turn == {j \in lines : \A k \in prompts : k < j}
           count == Cardinality(prompts)
           usage == IF turn = {} THEN 0
                    ELSE file[CHOOSE j \in turn : \A k \in turn : k <= j].id
<1>1. /\ m \in Nat /\ 2 * m <= p /\ m <= w /\ w \in Nat /\ p \in Nat
      /\ \A j \in Nat : 2 * j <= p /\ j <= w <=> j <= m
  <2>1. w \in Nat /\ p \in Nat
    BY SizeOfFile
  <2> QED BY <2>1
<1>2. lines = 1..m
  BY <1>1
<1>3. /\ m <= Len(file) /\ Len(file) \in Nat /\ Len(file) <= MaxLines /\ MaxLines \in Nat
      /\ \A j \in 1..m : file[j] \in Lines
  <2>1. /\ Len(file) \in Nat /\ DOMAIN file = 1..Len(file) /\ Len(file) <= MaxLines
        /\ MaxLines \in Nat /\ file \in Seq(Lines)
    BY SizeOfFile, Types
  <2>2. m <= Len(file)
    BY <1>1, <2>1
  <2> HIDE DEF m
  <2> QED BY <1>1, <2>1, <2>2
<1>4. count \in Nat /\ count <= m
  <2>1. IsFiniteSet(1..m) /\ Cardinality(1..m) = m
    <3> HIDE DEF m
    <3>1. /\ IsFiniteSet(1..m)
          /\ Cardinality(1..m) = IF 1 > m THEN 0 ELSE m - 1 + 1
      <4>1. 1 \in Int /\ m \in Int
        BY <1>1
      <4> QED BY <4>1, FS_Interval
    <3> QED BY <1>1, <3>1
  <2>2. prompts \in SUBSET (1..m)
    BY <1>2
  <2> HIDE DEF m, prompts
  <2>3. IsFiniteSet(prompts) /\ Cardinality(prompts) <= Cardinality(1..m)
    BY <2>1, <2>2, FS_Subset
  <2> QED BY <2>1, <2>3, FS_CardinalityType
<1>5. usage = IF m = 0 \/ file[m].prompt THEN 0 ELSE file[m].id
  <2> HIDE DEF m
  <2>1. CASE m = 0
    <3>1. turn = {}
      BY <1>2, <2>1
    <3> QED BY <2>1, <3>1
  <2>2. CASE m # 0 /\ file[m].prompt
    <3>1. m \in prompts
      BY <1>1, <1>2, <2>2
    <3>2. turn = {}
      <4>1. ASSUME NEW j \in turn PROVE FALSE
        BY <1>1, <1>2, <3>1, <4>1
      <4> QED BY <4>1
    <3> QED BY <2>2, <3>2
  <2>3. CASE m # 0 /\ ~file[m].prompt
    <3>1. m \in lines /\ \A j \in lines : j <= m
      BY <1>1, <1>2, <2>3
    <3>2. \A k \in prompts : k < m
      <4>1. ASSUME NEW k \in prompts PROVE k < m
        <5>1. k \in 1..m /\ file[k].prompt
          BY <1>2, <4>1
        <5>2. k # m
          BY <2>3, <5>1
        <5> QED BY <1>1, <5>1, <5>2
      <4> QED BY <4>1
    <3>3. m \in turn /\ \A j \in turn : j <= m /\ j \in Nat
      BY <1>2, <3>1, <3>2
    <3>4. (CHOOSE j \in turn : \A k \in turn : k <= j) = m
      <4> HIDE DEF turn
      <4>1. \A j \in turn : (\A k \in turn : k <= j) => j = m
        BY <1>1, <3>3
      <4>2. \E j \in turn : \A k \in turn : k <= j
        BY <3>3
      <4> QED BY <4>1, <4>2
    <3>5. turn # {}
      BY <3>3
    <3>6. usage = file[CHOOSE j \in turn : \A k \in turn : k <= j].id
      <4> HIDE DEF turn
      <4> QED BY <3>5
    <3>7. usage = file[m].id
      BY <3>4, <3>6, Zenon
    <3> HIDE DEF usage
    <3> QED BY <2>3, <3>7
  <2> QED BY <2>1, <2>2, <2>3
<1>6. usage \in 0..MaxLines
  <2> HIDE DEF usage, m
  <2>1. CASE m = 0 \/ file[m].prompt
    BY <1>3, <1>5, <2>1
  <2>2. CASE m # 0 /\ ~file[m].prompt
    <3>1. file[m] \in Lines
      BY <1>1, <1>3, <2>2
    <3> QED BY <1>3, <1>5, <2>2, <3>1 DEF Lines, Ids
  <2> QED BY <2>1, <2>2
<1>7. WarmUp(i, w, p) = [i EXCEPT !.turn = count, !.pos = p, !.usage = usage]
  BY DEF WarmUp
<1>8. count = TurnIn(file, m)
  BY <1>2 DEF TurnIn
<1> HIDE DEF count, usage, m
<1>9. count \in 0..MaxLines /\ 2 * count <= p
  BY <1>1, <1>3, <1>4
<1>10. WarmUp(i, w, p) \in Importers
  BY <1>6, <1>7, <1>9 DEF Importers
<1>11. /\ WarmUp(i, w, p).pos = p /\ WarmUp(i, w, p).turn = count
       /\ WarmUp(i, w, p).usage = usage
       /\ WarmUp(i, w, p).step = i.step /\ WarmUp(i, w, p).mode = i.mode
       /\ WarmUp(i, w, p).offset = i.offset
       /\ WarmUp(i, w, p).skip = i.skip /\ WarmUp(i, w, p).known = i.known
       /\ WarmUp(i, w, p).buffer = i.buffer
  BY <1>7 DEF Importers
<1>12. l = m
  BY DEF m
<1> QED BY <1>5, <1>8, <1>9, <1>10, <1>11, <1>12

\* A sync begins to read, behind the lines of its watermark or at the beginning.
LEMMA Opened ==
    ASSUME TypeInv, NEW c \in Calls, Open(c)
    PROVE  \E u \in Importers :
              /\ call' = [call EXCEPT ![c] = u]
              /\ u.step = "reading" /\ u.mode = call[c].mode /\ u.mode # "import"
              /\ u.skip = index /\ u.known = UsageTurns /\ u.buffer = {}
              /\ 2 * u.turn <= u.pos /\ u.pos <= FileSize
              /\ \/ u.pos = 0
                 \/ /\ u.mode # "reconcile"
                    /\ \A j \in DOMAIN file : 2 * j <= u.pos + 1 => 2 * j <= call[c].offset + 1
              /\ Counts(u, file)
<1> DEFINE i == [call[c] EXCEPT !.step = "reading", !.known = UsageTurns, !.skip = index]
           o == call[c].offset
           w == (o + 1) \div 2
           n == Len(file)
           z == FileSize
           w1 == IF w < n THEN w ELSE n
           end == IF 2 * w < z THEN 2 * w ELSE z
           m == IF 2 * w1 <= end THEN w1 ELSE end \div 2
<1>1. /\ call[c] \in Importers /\ call[c].step = "opening" /\ StepOfCall(call[c])
      /\ index \in SUBSET Keys /\ call \in [Calls -> Importers]
  BY Types DEF Open
<1>2. UsageTurns \in SUBSET (0..MaxLines)
  <2>1. \A k \in DOMAIN log : log[k].turn \in 0..MaxLines
    <3>1. \A k \in DOMAIN log : log[k] \in Events
      BY Types
    <3> QED BY <3>1 DEF Events
  <2> QED BY <2>1 DEF UsageTurns
<1>3. /\ i \in Importers /\ i.step = "reading" /\ i.mode = call[c].mode /\ i.mode # "import"
      /\ i.skip = index /\ i.known = UsageTurns /\ i.buffer = {} /\ i.pos = 0 /\ i.turn = 0
      /\ i.usage = 0
  BY <1>1, <1>2 DEF Importers, Steps, StepOfCall
<1>4. /\ n \in Nat /\ z \in 0..2 * MaxLines /\ (z = 2 * n \/ (z = 2 * n - 1 /\ n > 0))
      /\ o \in Nat
  <2>1. o \in 0..2 * MaxLines
    BY <1>1 DEF Importers
  <2> QED BY <2>1, SizeOfFile, Types
<1>5. call' = [call EXCEPT ![c] = IF i.mode = "reconcile" THEN i ELSE WarmUp(i, w1, end)]
  <2>1. call' = [call EXCEPT ![c] = IF i.mode = "reconcile" THEN i
                     ELSE WarmUp(i, IF (i.offset + 1) \div 2 < Len(file)
                                    THEN (i.offset + 1) \div 2 ELSE Len(file),
                                 IF 2 * ((i.offset + 1) \div 2) < FileSize
                                 THEN 2 * ((i.offset + 1) \div 2) ELSE FileSize)]
    BY DEF Open
  <2>2. i.offset = o
    BY <1>1 DEF Importers
  <2> HIDE DEF i
  <2> QED BY <2>1, <2>2
<1>6. CASE i.mode = "reconcile"
  <2>1. Counts(i, file)
    <3>1. TurnIn(file, 0) = 0
      <4>1. {j \in 1..0 : file[j].prompt} = {}
        OBVIOUS
      <4> QED BY <4>1, FS_EmptySet DEF TurnIn
    <3>2. i.pos \div 2 = 0
      BY <1>3
    <3> HIDE DEF i
    <3> QED BY <1>3, <3>1, <3>2 DEF Counts
  <2>2. call' = [call EXCEPT ![c] = i]
    BY <1>5, <1>6
  <2>3. 0 <= FileSize
    BY <1>4
  <2> HIDE DEF i
  <2>4. 2 * i.turn <= i.pos /\ i.pos <= FileSize
    BY <1>3, <2>3
  <2> QED BY <1>3, <1>6, <2>1, <2>2, <2>4
<1>7. CASE i.mode # "reconcile"
  <2>1. /\ w1 \in 0..n /\ end \in 0..2 * MaxLines
        /\ m = end \div 2 /\ end <= z
        /\ \A j \in 1..n : 2 * j <= end + 1 => 2 * j <= o + 1
    <3>1. w \in Nat /\ 2 * w <= o + 1 /\ 2 * w >= o
      <4> HIDE DEF o
      <4> QED BY <1>4
    <3>2. MaxLines \in Nat
      BY Types
    <3> HIDE DEF w, n, z
    <3> QED BY <1>4, <3>1, <3>2
  <2> DEFINE u == WarmUp(i, w1, end)
  <2>2. /\ u \in Importers /\ u.pos = end /\ 2 * u.turn <= end
        /\ u.step = i.step /\ u.mode = i.mode
        /\ u.skip = i.skip /\ u.known = i.known /\ u.buffer = i.buffer
        /\ u.turn = TurnIn(file, m)
        /\ u.usage = IF m = 0 \/ file[m].prompt THEN 0 ELSE file[m].id
    <3>1. i \in Importers /\ w1 \in 0..Len(file) /\ end \in 0..2 * MaxLines
      BY <1>3, <2>1
    <3>2. m = (IF 2 * w1 <= end THEN w1 ELSE end \div 2) /\ u = WarmUp(i, w1, end)
      OBVIOUS
    <3> HIDE DEF i, w1, end, m, u
    <3> QED BY <3>1, <3>2, WarmedUp
  <2>3. call' = [call EXCEPT ![c] = u]
    BY <1>5, <1>7
  <2> HIDE DEF u, m, end
  <2>4. Counts(u, file)
    BY <2>1, <2>2 DEF Counts
  <2>5. DOMAIN file = 1..n
    BY SizeOfFile
  <2> HIDE DEF i, z, n
  <2>6. end <= FileSize
    BY <2>1 DEF z
  <2> QED BY <1>3, <1>7, <2>1, <2>2, <2>3, <2>4, <2>5, <2>6
<1> QED BY <1>6, <1>7

\* A step of a thread that is not idle leaves the bounds, the run and what is read alone.
LEMMA OpenTypes ==
    ASSUME TypeInv, NEW c \in Calls, Open(c)
    PROVE  TypeInv'
<1>1. PICK u \in Importers :
         /\ call' = [call EXCEPT ![c] = u]
         /\ u.step = "reading" /\ u.mode = call[c].mode /\ u.mode # "import"
         /\ u.buffer = {} /\ 2 * u.turn <= u.pos
  BY Opened
<1>2. c \in Busy
  BY DEF Busy, Open
<1>3. StepOfCall(u)
  BY <1>1 DEF StepOfCall
<1>4. saved
  BY <1>1, Types
<1> QED BY <1>1, <1>2, <1>3, <1>4, MoveTypes, Types DEF Open, FileUnchanged, RunUnchanged

\* Reading the last half of a line, or half of the last line.
LEMMA HalfTypes ==
    ASSUME TypeInv, NEW c \in Calls, ReadHalf(c)
    PROVE  TypeInv'
<1> DEFINE i == [call[c] EXCEPT !.pos = @ + 1]
<1>1. /\ call[c] \in Importers /\ call[c].step = "reading" /\ StepOfCall(call[c])
      /\ call[c].pos \in Nat /\ call[c].pos < FileSize
  BY Types, LineAt DEF ReadHalf, Reading
<1>2. /\ i \in Importers /\ i.step = "reading" /\ i.mode = call[c].mode
      /\ i.buffer = call[c].buffer /\ i.turn = call[c].turn /\ i.pos = call[c].pos + 1
  <2>1. call[c].pos + 1 \in 0..2 * MaxLines
    BY <1>1, Positions, SessionImportAssumption
  <2> QED BY <1>1, <2>1 DEF Importers
<1>3. call' = [call EXCEPT ![c] = i]
  BY DEF ReadHalf
<1>4. c \in Busy
  BY <1>1 DEF Busy
<1>5. call[c].turn \in Nat
  BY <1>1, Types DEF Importers
<1> HIDE DEF i
<1>6. StepOfCall(i)
  BY <1>1, <1>2, <1>5 DEF StepOfCall
<1>7. call[c].mode = "import" => ~saved /\ Busy = {c}
  BY <1>4 DEF TypeInv, ImportIsAlone
<1>8. torn' \subseteq Ids
  <2>1. Reading(c) /\ torn' = torn \cup {file[NextLine(c)].id}
    BY DEF ReadHalf
  <2>2. file[NextLine(c)] \in Lines
    BY <2>1, LineAt
  <2> QED BY <2>1, <2>2, Types DEF Lines
<1> QED BY <1>2, <1>3, <1>4, <1>6, <1>7, <1>8, MoveTypes, Types
        DEF ReadHalf, FileUnchanged, RunUnchanged

\* A step that records keeps the types.
LEMMA RecordTypes ==
    ASSUME TypeInv, NEW c \in Calls, NEW i \in Importers, NEW a \in Optional, NEW b \in Optional,
           KeysIn(a) \subseteq Keys, KeysIn(b) \subseteq Keys, Record(c, i, a, b),
           UNCHANGED <<file, half, version, saved, mark, index, torn, lapses, bound>>,
           call[c].step = "reading", i.step \in {"reading", "flushing"},
           i.mode = call[c].mode, i.buffer = call[c].buffer, 2 * i.turn <= i.pos
    PROVE  TypeInv'
<1>0. call \in [Calls -> Importers] /\ log \in Seq(Events)
  BY Types
<1>1. PICK K \in SUBSET Keys :
         /\ call' = [call EXCEPT ![c] = [i EXCEPT !.buffer = @ \cup K]]
         /\ [i EXCEPT !.buffer = @ \cup K] \in Importers
         /\ \A k : k \in KeysIn(log') <=> k \in KeysIn(log) \/ k \in K
  BY <1>0, Recorded
<1>2. log' \in Seq(Events)
  BY <1>0, Recorded
<1> DEFINE u == [i EXCEPT !.buffer = @ \cup K]
<1>3. /\ u \in Importers /\ call' = [call EXCEPT ![c] = u]
      /\ u.step = i.step /\ u.mode = i.mode /\ u.pos = i.pos /\ u.turn = i.turn
      /\ u.buffer = i.buffer \cup K
  BY <1>1 DEF Importers
<1> HIDE DEF u
<1>4. StepOfCall(u)
  BY <1>3 DEF StepOfCall
<1>5. c \in Busy
  BY DEF Busy
<1>6. call[c].mode = "import" => ~saved /\ Busy = {c}
  BY <1>5 DEF TypeInv, ImportIsAlone
<1>7. \A k \in index \cup u.buffer : k \in KeysIn(log')
  BY <1>1, <1>3, Types
<1>8. \A d \in Calls : \A k \in call[d].buffer : k \in KeysIn(log')
  BY <1>1, Types
<1> QED BY <1>2, <1>3, <1>4, <1>5, <1>6, <1>7, <1>8, MoveTypes, Types

\* What reading a line makes of the reader, and what it has to record.
LEMMA ReadOn ==
    ASSUME TypeInv, NEW c \in Calls, ReadLine(c),
           NEW line, line = file[NextLine(c)]
    PROVE  /\ line \in Lines /\ NextLine(c) \in DOMAIN file
           /\ 2 * NextLine(c) = call[c].pos + 2 /\ call[c].pos + 2 <= FileSize
           /\ \E i \in Importers, a \in Optional :
                 /\ Record(c, i, a, <<Message(line)>>)
                 /\ i.step = "reading" /\ i.mode = call[c].mode /\ i.offset = call[c].offset
                 /\ i.skip = call[c].skip /\ i.known = call[c].known
                 /\ i.buffer = call[c].buffer /\ i.pos = call[c].pos + 2
                 /\ i.turn = (IF line.prompt THEN call[c].turn + 1 ELSE call[c].turn)
                 /\ i.usage = (IF line.prompt THEN 0 ELSE line.id)
                 /\ KeysIn(a) \subseteq Keys
                 /\ \A e : a = <<e>> =>
                       /\ line.prompt /\ e.key = <<"usage", line.id>>
                       /\ e.turn = call[c].turn /\ e.turn > 0 /\ e.turn \notin call[c].known
                       /\ e.of = call[c].usage /\ e.of # 0
                 /\ /\ line.prompt /\ call[c].turn > 0 /\ call[c].usage # 0
                    /\ call[c].turn \notin call[c].known
                    => \E e : a = <<e>>
<1> DEFINE old == call[c]
           i == [Tracked(old, line) EXCEPT !.pos = @ + 2]
           a == EndedTurn(old, line)
<1>1. /\ line \in Lines /\ NextLine(c) \in DOMAIN file
      /\ 2 * NextLine(c) = call[c].pos + 2 /\ call[c].pos + 2 <= FileSize
  <2>1. Reading(c) /\ ~AtHalf(c) /\ ~(half /\ NextLine(c) = Len(file))
    BY DEF ReadLine
  <2> QED BY <2>1, LineAt
<1>2. old \in Importers /\ old.step = "reading" /\ 2 * old.turn <= old.pos /\ FileSize <= 2 * MaxLines
      /\ MaxLines \in Nat /\ FileSize \in Nat
  BY Types, SizeOfFile DEF StepOfCall, ReadLine, Reading
<1>3. Record(c, i, a, <<Message(line)>>)
  BY DEF ReadLine
<1>4. line.id \in Ids /\ line.prompt \in BOOLEAN
  BY <1>1 DEF Lines
<1>5. /\ old.pos \in Nat /\ old.turn \in Nat /\ old.pos + 2 \in 0..2 * MaxLines
      /\ old.turn + 1 \in 0..MaxLines
  <2>1. old.pos \in Nat /\ old.turn \in Nat
    BY <1>2 DEF Importers
  <2> HIDE DEF old
  <2> QED BY <2>1, <1>1, <1>2 DEF old
<1>6. /\ i \in Importers /\ i.step = old.step /\ i.mode = old.mode /\ i.offset = old.offset
      /\ i.skip = old.skip /\ i.known = old.known
      /\ i.buffer = old.buffer /\ i.pos = old.pos + 2
      /\ i.turn = (IF line.prompt THEN old.turn + 1 ELSE old.turn)
      /\ i.usage = (IF line.prompt THEN 0 ELSE line.id)
  <2>1. CASE line.prompt
    <3>1. i = [old EXCEPT !.turn = @ + 1, !.usage = 0, !.pos = @ + 2]
      BY <1>2, <2>1 DEF Tracked, Importers
    <3>2. 0 \in 0..MaxLines
      BY <1>2
    <3> HIDE DEF i, old
    <3>3. i = [old EXCEPT !.turn = old.turn + 1, !.usage = 0, !.pos = old.pos + 2]
      BY <1>2, <3>1 DEF Importers
    <3> QED BY <1>2, <1>5, <2>1, <3>2, <3>3 DEF Importers
  <2>2. CASE ~line.prompt
    <3>1. i = [old EXCEPT !.usage = line.id, !.pos = @ + 2]
      BY <1>2, <2>2 DEF Tracked, Importers
    <3>2. line.id \in 0..MaxLines
      BY <1>4 DEF Ids
    <3> HIDE DEF i, old
    <3> QED BY <1>2, <1>5, <2>2, <3>1, <3>2 DEF Importers
  <2> QED BY <2>1, <2>2
<1>7. /\ a \in Optional /\ KeysIn(a) \subseteq Keys
      /\ \A e : a = <<e>> =>
            /\ line.prompt /\ e.key = <<"usage", line.id>>
            /\ e.turn = old.turn /\ e.turn > 0 /\ e.turn \notin old.known
            /\ e.of = old.usage /\ e.of # 0
      /\ line.prompt /\ old.turn > 0 /\ old.usage # 0 /\ old.turn \notin old.known
            => \E e : a = <<e>>
  <2>1. CASE line.prompt
    <3>1. a = TurnUsage(old, <<"usage", line.id>>)
      BY <2>1 DEF EndedTurn
    <3>2. <<"usage", line.id>> \in Keys
      BY <1>4 DEF Keys
    <3>3. old.turn > 0 /\ old.usage # 0 /\ old.turn \notin old.known => \E e : a = <<e>>
      BY <3>1 DEF TurnUsage
    <3> HIDE DEF a, old
    <3> QED BY <1>2, <2>1, <3>1, <3>2, <3>3, UsageOptional
  <2>2. CASE ~line.prompt
    <3>1. a = <<>> /\ \A e : <<>> # <<e>>
      BY <2>2 DEF EndedTurn
    <3> HIDE DEF a, old
    <3> QED BY <2>2, <3>1 DEF Optional, KeysIn
  <2> QED BY <2>1, <2>2
<1> HIDE DEF i, a
<1> QED BY <1>1, <1>2, <1>3, <1>6, <1>7

\* A line takes the importer two units further, and its turn by one at most.
LEMMA ReadTypes ==
    ASSUME TypeInv, NEW c \in Calls, ReadLine(c)
    PROVE  TypeInv'
<1> DEFINE line == file[NextLine(c)]
<1>1. line \in Lines
  BY ReadOn
<1>2. PICK i \in Importers, a \in Optional :
         /\ Record(c, i, a, <<Message(line)>>)
         /\ i.step = "reading" /\ i.mode = call[c].mode
         /\ i.buffer = call[c].buffer /\ i.pos = call[c].pos + 2
         /\ i.turn = (IF line.prompt THEN call[c].turn + 1 ELSE call[c].turn)
         /\ KeysIn(a) \subseteq Keys
  BY ReadOn
<1> HIDE DEF line
<1>3. 2 * i.turn <= i.pos
  <2>1. call[c] \in Importers /\ 2 * call[c].turn <= call[c].pos
    BY Types DEF StepOfCall
  <2>2. call[c].pos \in Nat /\ call[c].turn \in Nat
    BY <2>1 DEF Importers
  <2> QED BY <1>2, <2>1, <2>2
<1>4. <<Message(line)>> \in Optional /\ KeysIn(<<Message(line)>>) \subseteq Keys
  BY <1>1, MessageOptional
<1>5. /\ call[c].step = "reading"
      /\ UNCHANGED <<file, half, version, saved, mark, index, torn, lapses, bound>>
  BY DEF ReadLine, Reading, FileUnchanged
<1> QED BY <1>2, <1>3, <1>4, <1>5, RecordTypes

\* The end of the file: the reader finalizes the last turn.
LEMMA FinalizeOn ==
    ASSUME TypeInv, NEW c \in Calls, Finalize(c)
    PROVE  \E i \in Importers, a \in Optional :
              /\ Record(c, i, a, <<>>)
              /\ i.step = "flushing" /\ i.mode = call[c].mode /\ i.offset = call[c].offset
              /\ i.skip = call[c].skip /\ i.known = call[c].known
              /\ i.buffer = call[c].buffer /\ i.pos = call[c].pos /\ i.turn = call[c].turn
              /\ KeysIn(a) \subseteq Keys
              /\ \A e : a = <<e>> =>
                    /\ e.key[1] = "finalize"
                    /\ e.turn = call[c].turn /\ e.turn > 0 /\ e.turn \notin call[c].known
                    /\ e.of = call[c].usage /\ e.of # 0
<1> DEFINE old == call[c]
           i == [old EXCEPT !.step = "flushing"]
           a == TurnUsage(old, <<"finalize", old.turn>>)
<1>1. Record(c, i, a, <<>>)
  BY DEF Finalize
<1>2. old \in Importers
  BY Types
<1>3. /\ i \in Importers /\ i.step = "flushing" /\ i.mode = old.mode /\ i.offset = old.offset
      /\ i.skip = old.skip /\ i.known = old.known
      /\ i.buffer = old.buffer /\ i.pos = old.pos /\ i.turn = old.turn
  BY <1>2 DEF Importers, Steps
<1>4. old.turn > 0 => <<"finalize", old.turn>> \in Keys
  BY <1>2 DEF Keys, Ids, Importers
<1>5. /\ a \in Optional /\ KeysIn(a) \subseteq Keys
      /\ \A e : a = <<e>> =>
            /\ e.key = <<"finalize", old.turn>>
            /\ e.turn = old.turn /\ e.turn > 0 /\ e.turn \notin old.known
            /\ e.of = old.usage /\ e.of # 0
  <2> HIDE DEF old
  <2> QED BY <1>2, <1>4, UsageOptional
<1> HIDE DEF i, a
<1> QED BY <1>1, <1>3, <1>5

\* finalize records at most the usage of the last turn.
LEMMA FinalizeTypes ==
    ASSUME TypeInv, NEW c \in Calls, Finalize(c)
    PROVE  TypeInv'
<1>1. PICK i \in Importers, a \in Optional :
         /\ Record(c, i, a, <<>>)
         /\ i.step = "flushing" /\ i.mode = call[c].mode
         /\ i.buffer = call[c].buffer /\ i.pos = call[c].pos /\ i.turn = call[c].turn
         /\ KeysIn(a) \subseteq Keys
  BY FinalizeOn
<1>2. 2 * i.turn <= i.pos
  BY <1>1, Types DEF StepOfCall
<1>3. <<>> \in Optional /\ KeysIn(<<>>) \subseteq Keys
  BY DEF Optional, KeysIn
<1>4. /\ call[c].step = "reading"
      /\ UNCHANGED <<file, half, version, saved, mark, index, torn, lapses, bound>>
  BY DEF Finalize, FileUnchanged
<1> QED BY <1>1, <1>2, <1>3, <1>4, RecordTypes

\* The keys that are written have their events; nothing else of the importer changes.
LEMMA FlushTypes ==
    ASSUME TypeInv, NEW c \in Calls, Flush(c)
    PROVE  /\ TypeInv'
           /\ \E i \in Importers :
                 /\ call' = [call EXCEPT ![c] = i]
                 /\ i.step = (IF call[c].step = "flushing" THEN "saving" ELSE "reading")
                 /\ i.mode = call[c].mode /\ i.offset = call[c].offset /\ i.pos = call[c].pos
                 /\ i.skip = call[c].skip /\ i.known = call[c].known
                 /\ i.turn = call[c].turn /\ i.usage = call[c].usage /\ i.buffer = {}
<1> DEFINE old == call[c]
           i == [old EXCEPT !.buffer = {}, !.step = IF @ = "flushing" THEN "saving" ELSE @]
<1>1. /\ old \in Importers /\ old.step \in {"reading", "flushing"} /\ StepOfCall(old)
      /\ old.buffer \subseteq Keys
  BY Types DEF Flush, Importers
<1>2. call' = [call EXCEPT ![c] = i]
  BY DEF Flush
<1>3. /\ i \in Importers
      /\ i.step = (IF old.step = "flushing" THEN "saving" ELSE "reading")
      /\ i.mode = old.mode /\ i.offset = old.offset /\ i.pos = old.pos
      /\ i.skip = old.skip /\ i.known = old.known
      /\ i.turn = old.turn /\ i.usage = old.usage /\ i.buffer = {}
  BY <1>1 DEF Importers, Steps
<1> HIDE DEF i
<1>4. StepOfCall(i)
  BY <1>1, <1>3 DEF StepOfCall
<1>5. index' = index \cup old.buffer /\ \A k \in index' : k \in KeysIn(log)
  BY Types DEF Flush
<1>6. c \in Busy
  BY <1>1 DEF Busy
<1>7. old.mode = "import" => ~saved /\ Busy = {c}
  BY <1>6 DEF TypeInv, ImportIsAlone
<1>8. /\ UNCHANGED <<file, half, version, saved, mark, log, torn, lapses, bound>>
      /\ old.mode # "import" => saved
  BY Types DEF Flush, FileUnchanged
<1>9. log' \in Seq(Events) /\ index' \subseteq Keys /\ KeysIn(log') = KeysIn(log)
  BY <1>1, <1>5, <1>8, Types
<1>10. i.step # "idle"
  BY <1>3
<1>11. /\ \A d \in Calls : d # c => \A k \in call[d].buffer : k \in KeysIn(log')
       /\ \A k \in index' \cup i.buffer : k \in KeysIn(log')
  BY <1>3, <1>5, <1>9, Types
<1>12. TypeInv'
  BY <1>2, <1>3, <1>4, <1>6, <1>7, <1>8, <1>9, <1>10, <1>11, MoveTypes, Types
<1> QED BY <1>2, <1>3, <1>12

\* The watermark is within the bounds, and the run has its meta.json.
LEMMA SaveTypes ==
    ASSUME TypeInv, NEW c \in Calls, Save(c)
    PROVE  TypeInv'
<1>1. call[c] \in Importers /\ call[c].step = "saving" /\ c \in Busy
  BY Types DEF Save, Busy
<1>2. NewOffset(c) \in 0..2 * MaxLines
  BY <1>1 DEF NewOffset, Importers
<1>3. mark' \in [offset : 0..2 * MaxLines, version : 0..MaxFaults] /\ mark'.version = version
  BY <1>2 DEF Save, TypeInv, TypeOK
<1>4. Idle \in Importers /\ Idle.step = "idle" /\ Idle.buffer = {} /\ StepOfCall(Idle)
  BY IdleImporter DEF StepOfCall
<1>5. saved \/ Busy \subseteq {c}
  BY <1>1, Types DEF TypeInv, ImportIsAlone
<1>6. /\ call' = [call EXCEPT ![c] = Idle] /\ saved' = TRUE
      /\ UNCHANGED <<file, half, version, log, index, torn, lapses, bound>>
  BY DEF Save, FileUnchanged
<1>7. /\ \A d \in Calls : d # c => \A k \in call[d].buffer : k \in KeysIn(log')
      /\ \A k \in index' \cup Idle.buffer : k \in KeysIn(log')
      /\ log' \in Seq(Events) /\ index' \subseteq Keys
  BY <1>4, <1>6, Types
<1>8. /\ saved' \in BOOLEAN /\ saved' /\ mark'.version <= version
      /\ torn' \subseteq Ids /\ lapses' \subseteq Lapses
      /\ bound' \in [lines : 0..MaxLines, syncs : 0..MaxSyncs, faults : 0..MaxFaults]
      /\ bound'.lines = bound.lines /\ bound'.faults = bound.faults
  BY <1>3, <1>6, Types
<1>9. UNCHANGED <<file, half, version>> /\ call' = [call EXCEPT ![c] = Idle]
  BY <1>6
<1> QED BY <1>1, <1>3, <1>4, <1>5, <1>7, <1>8, <1>9, MoveTypes

\* What a failed import leaves without its events are no keys either.
LEMMA FailTypes ==
    ASSUME TypeInv, NEW c \in Calls, Fail(c)
    PROVE  TypeInv'
<1>1. call[c] \in Importers /\ c \in Busy
  BY Types DEF Fail, Busy
<1>2. Idle \in Importers /\ Idle.step = "idle" /\ Idle.buffer = {} /\ StepOfCall(Idle)
  BY IdleImporter DEF StepOfCall
<1>3. /\ call' = [call EXCEPT ![c] = Idle]
      /\ UNCHANGED <<file, half, version, saved, mark, torn, lapses, bound>>
  BY DEF Fail, FileUnchanged
<1>4. CASE call[c].mode = "import"
  <2>1. ~saved /\ Busy = {c}
    BY <1>1, <1>4 DEF TypeInv, ImportIsAlone
  <2>2. log' = <<>> /\ index' = {} /\ log' \in Seq(Events)
    BY <1>4 DEF Fail
  <2>3. \A d \in Calls : d # c => call[d].buffer = {}
    BY <2>1, Types, IdleImporter
  <2>4. saved' = saved
    BY <1>3
  <2>5. /\ \A d \in Calls : d # c => \A k \in call[d].buffer : k \in KeysIn(log')
        /\ \A k \in index' \cup Idle.buffer : k \in KeysIn(log')
    BY <1>2, <2>2, <2>3
  <2>6. Idle.mode # "import" => saved'
    BY IdleImporter
  <2> QED BY <1>1, <1>2, <1>3, <2>1, <2>2, <2>4, <2>5, <2>6, MoveTypes, Types
<1>5. CASE call[c].mode # "import"
  <2>1. saved /\ log' = log /\ index' = index \cup call[c].buffer
    BY <1>5, Types DEF Fail
  <2>2. call[c].buffer \subseteq Keys
    BY <1>1 DEF Importers
  <2>3. log' \in Seq(Events) /\ index' \subseteq Keys /\ KeysIn(log') = KeysIn(log)
    BY <2>1, <2>2, Types
  <2>4. /\ \A d \in Calls : d # c => \A k \in call[d].buffer : k \in KeysIn(log')
        /\ \A k \in index' \cup Idle.buffer : k \in KeysIn(log')
    BY <1>2, <2>1, <2>3, Types
  <2> QED BY <1>1, <1>2, <1>3, <2>1, <2>3, <2>4, MoveTypes, Types
<1> QED BY <1>4, <1>5

\* A line more in the file: its number is that of the last line the CLI wrote.
LEMMA LineAdded ==
    ASSUME TypeInv, bound.lines < MaxLines, NEW prompt \in BOOLEAN,
           NEW line, line = [id |-> bound.lines + 1, prompt |-> prompt],
           file' = Append(file, line), bound'.lines = bound.lines + 1
    PROVE  /\ file' \in Seq(Lines) /\ Len(file') = Len(file) + 1 /\ Len(file') <= MaxLines
           /\ DOMAIN file' = 1..(Len(file) + 1)
           /\ \A i \in DOMAIN file : i \in DOMAIN file' /\ file'[i] = file[i] /\ file[i].id <= bound.lines
           /\ file'[Len(file) + 1] = line /\ line.id = bound.lines + 1 /\ line.prompt = prompt
           /\ \A i, j \in DOMAIN file' : i < j => file'[i].id < file'[j].id
           /\ Len(file') <= bound'.lines
           /\ \A i \in DOMAIN file' : file'[i].id <= bound'.lines
<1>1. /\ file \in Seq(Lines) /\ bound.lines \in Nat /\ MaxLines \in Nat
      /\ Len(file) \in Nat /\ DOMAIN file = 1..Len(file) /\ Len(file) <= bound.lines
      /\ \A i \in DOMAIN file : file[i].id <= bound.lines /\ file[i].id \in Nat
      /\ \A i, j \in DOMAIN file : i < j => file[i].id < file[j].id
  <2>1. file \in Seq(Lines) /\ bound.lines \in Nat /\ MaxLines \in Nat
    BY Types
  <2>2. \A i \in DOMAIN file : file[i] \in Lines
    BY <2>1
  <2>3. \A i \in DOMAIN file : file[i].id \in Nat
    BY <2>2 DEF Lines, Ids
  <2> QED BY <2>1, <2>3, SizeOfFile DEF TypeInv, TypeOK, FileIsNumbered
<1>2. line \in Lines /\ line.id = bound.lines + 1 /\ line.prompt = prompt
  <2>1. bound.lines + 1 \in Ids
    BY <1>1 DEF Ids
  <2> QED BY <2>1 DEF Lines
<1>3. /\ file' \in Seq(Lines) /\ Len(file') = Len(file) + 1 /\ DOMAIN file' = 1..(Len(file) + 1)
      /\ \A i \in DOMAIN file : i \in DOMAIN file' /\ file'[i] = file[i]
      /\ file'[Len(file) + 1] = line
  BY <1>1, <1>2
<1>4. Len(file') <= MaxLines /\ Len(file') <= bound'.lines
  BY <1>1, <1>3
<1>5. \A i \in DOMAIN file' : i \in DOMAIN file \/ i = Len(file) + 1
  BY <1>1, <1>3
<1>6. \A i \in DOMAIN file' : file'[i].id <= bound'.lines
  BY <1>1, <1>2, <1>3, <1>5
<1>7. \A i, j \in DOMAIN file' : i < j => file'[i].id < file'[j].id
  <2>1. ASSUME NEW i \in DOMAIN file', NEW j \in DOMAIN file', i < j
        PROVE  file'[i].id < file'[j].id
    <3>1. i \in DOMAIN file
      BY <1>1, <1>3, <2>1
    <3>2. CASE j \in DOMAIN file
      BY <1>1, <1>3, <2>1, <3>1, <3>2
    <3>3. CASE j = Len(file) + 1
      BY <1>1, <1>2, <1>3, <3>1, <3>3
    <3> QED BY <1>5, <3>2, <3>3
  <2> QED BY <2>1
<1> QED BY <1>1, <1>2, <1>3, <1>4, <1>6, <1>7

\* The CLI writes a line.
LEMMA WriteTypes ==
    ASSUME TypeInv, WriteLine \/ EndLine \/ Chat
    PROVE  TypeInv'
<1>1. CASE WriteLine
  <2>1. PICK prompt \in BOOLEAN, h \in BOOLEAN :
           file' = Append(file, [id |-> bound.lines + 1, prompt |-> prompt]) /\ half' = h
    BY <1>1 DEF WriteLine
  <2>2. /\ bound' = [bound EXCEPT !.lines = @ + 1] /\ bound.lines < MaxLines
        /\ bound \in [lines : 0..MaxLines, syncs : 0..MaxSyncs, faults : 0..MaxFaults]
        /\ MaxLines \in Nat
    BY <1>1, Types DEF WriteLine
  <2>3. /\ bound'.lines = bound.lines + 1 /\ bound'.faults = bound.faults
        /\ bound' \in [lines : 0..MaxLines, syncs : 0..MaxSyncs, faults : 0..MaxFaults]
    BY <2>2
  <2>4. /\ file' \in Seq(Lines) /\ Len(file') <= MaxLines /\ Len(file') <= bound'.lines
        /\ \A i, j \in DOMAIN file' : i < j => file'[i].id < file'[j].id
        /\ \A i \in DOMAIN file' : file'[i].id <= bound'.lines
    BY <2>1, <2>2, <2>3, LineAdded
  <2>5. half' \in BOOLEAN /\ file' # <<>>
    BY <2>1, Types
  <2>6. UNCHANGED <<saved, mark, log, index, call, torn, lapses, version>>
    BY <1>1 DEF WriteLine, RunUnchanged
  <2>7. KeysIn(log)' = KeysIn(log) /\ Busy' = Busy
    BY <2>6 DEF Busy
  <2>8. TypeOK'
    BY <2>3, <2>4, <2>5, <2>6, <2>7 DEF TypeInv, TypeOK
  <2>9. FileIsNumbered' /\ ImportIsAlone' /\ StepsOfCalls'
    BY <2>3, <2>4, <2>6, <2>7 DEF TypeInv, FileIsNumbered, ImportIsAlone, StepsOfCalls
  <2> QED BY <2>8, <2>9 DEF TypeInv
<1>2. CASE EndLine
  <2>1. half' = FALSE /\ UNCHANGED <<file, saved, mark, log, index, call, torn, lapses, version, bound>>
    BY <1>2 DEF EndLine, RunUnchanged
  <2>2. KeysIn(log)' = KeysIn(log) /\ Busy' = Busy
    BY <2>1 DEF Busy
  <2>3. TypeOK'
    BY <2>1, <2>2 DEF TypeInv, TypeOK
  <2>4. FileIsNumbered' /\ ImportIsAlone' /\ StepsOfCalls'
    BY <2>1, <2>2 DEF TypeInv, FileIsNumbered, ImportIsAlone, StepsOfCalls
  <2> QED BY <2>3, <2>4 DEF TypeInv
<1>3. CASE Chat
  <2> DEFINE e == [key |-> <<"live", bound.lines + 1>>, turn |-> 0, of |-> bound.lines + 1]
  <2>1. PICK prompt \in BOOLEAN :
           file' = Append(file, [id |-> bound.lines + 1, prompt |-> prompt])
    BY <1>3 DEF Chat
  <2>2. /\ bound' = [bound EXCEPT !.lines = @ + 1, !.faults = @ + 1]
        /\ bound.lines < MaxLines /\ bound.faults < MaxFaults
        /\ bound \in [lines : 0..MaxLines, syncs : 0..MaxSyncs, faults : 0..MaxFaults]
        /\ MaxLines \in Nat /\ MaxFaults \in Nat
    BY <1>3, Types DEF Chat
  <2>3. /\ bound'.lines = bound.lines + 1 /\ bound'.faults = bound.faults + 1
        /\ bound' \in [lines : 0..MaxLines, syncs : 0..MaxSyncs, faults : 0..MaxFaults]
    <3>1. /\ bound.lines \in Nat /\ bound.faults \in Nat
          /\ bound.lines + 1 \in 0..MaxLines /\ bound.faults + 1 \in 0..MaxFaults
      BY <2>2
    <3>2. bound' = [bound EXCEPT !.lines = bound.lines + 1, !.faults = bound.faults + 1]
      BY <2>2
    <3> QED BY <2>2, <3>1, <3>2
  <2>4. /\ file' \in Seq(Lines) /\ Len(file') <= MaxLines /\ Len(file') <= bound'.lines
        /\ \A i, j \in DOMAIN file' : i < j => file'[i].id < file'[j].id
        /\ \A i \in DOMAIN file' : file'[i].id <= bound'.lines
    BY <2>1, <2>2, <2>3, LineAdded
  <2>5. /\ saved /\ log' = Append(log, e) /\ lapses' = lapses \cup {"resumed"}
        /\ UNCHANGED <<half, saved, mark, index, call, torn, version>>
    BY <1>3 DEF Chat
  <2>6. e \in Events
    BY <2>2 DEF Events, Ids
  <2> HIDE DEF e
  <2>7. /\ log' \in Seq(Events) /\ \A k \in KeysIn(log) : k \in KeysIn(log)'
    <3>1. log \in Seq(Events)
      BY Types
    <3>2. log' \in Seq(Events) /\ \A n \in DOMAIN log : n \in DOMAIN log' /\ log'[n] = log[n]
      BY <2>5, <2>6, <3>1
    <3> QED BY <3>2 DEF KeysIn
  <2>8. lapses' \subseteq Lapses /\ file' # <<>>
    <3>1. lapses \subseteq Lapses /\ Len(file) \in Nat /\ file \in Seq(Lines)
      BY SizeOfFile, Types
    <3>2. lapses' \subseteq Lapses
      BY <2>5, <3>1 DEF Lapses
    <3> QED BY <2>1, <3>1, <3>2
  <2>9. TypeOK'
    BY <2>3, <2>4, <2>5, <2>7, <2>8 DEF TypeInv, TypeOK
  <2>10. FileIsNumbered'
    <3>1. version' <= bound'.faults /\ mark'.version <= version'
      <4>1. version \in Nat /\ version <= bound.faults /\ mark.version <= version
        BY Types DEF TypeInv, FileIsNumbered
      <4> QED BY <2>2, <2>3, <2>5, <4>1
    <3> QED BY <2>4, <3>1 DEF FileIsNumbered
  <2>11. Busy' = Busy /\ saved'
    BY <2>5 DEF Busy
  <2>12. ImportIsAlone' /\ StepsOfCalls'
    BY <2>5, <2>11 DEF TypeInv, ImportIsAlone, StepsOfCalls
  <2> QED BY <2>9, <2>10, <2>12 DEF TypeInv
<1> QED BY <1>1, <1>2, <1>3

\* The CLI rewrites the file: its first lines are gone.
LEMMA RewriteTypes ==
    ASSUME TypeInv, Rewrite
    PROVE  TypeInv'
<1>1. PICK n \in 1..Len(file) - 1 : file' = SubSeq(file, n + 1, Len(file))
  BY DEF Rewrite
<1>2. /\ file \in Seq(Lines) /\ Len(file) \in Nat /\ DOMAIN file = 1..Len(file)
      /\ Len(file) <= MaxLines /\ MaxLines \in Nat /\ Len(file) <= bound.lines
      /\ bound.lines \in Nat
      /\ \A i, j \in DOMAIN file : i < j => file[i].id < file[j].id
      /\ \A i \in DOMAIN file : file[i].id <= bound.lines
  BY SizeOfFile, Types DEF TypeInv, TypeOK, FileIsNumbered
<1>3. /\ file' \in Seq(Lines) /\ Len(file') = Len(file) - n /\ DOMAIN file' = 1..(Len(file) - n)
      /\ \A i \in DOMAIN file' : i + n \in DOMAIN file /\ file'[i] = file[i + n]
  <2> DEFINE k == Len(file)
  <2>1. k \in Nat /\ n \in Nat /\ n < k
    BY <1>2
  <2>2. /\ file' \in Seq(Lines) /\ Len(file') = k - n
        /\ \A i \in 1..(k - n) : file'[i] = file[i + n]
    BY <1>1, <1>2
  <2>3. DOMAIN file' = 1..(k - n)
    BY <2>2
  <2> HIDE DEF k
  <2>4. \A i \in 1..(k - n) : i + n \in 1..k
    BY <2>1
  <2> QED BY <1>2, <2>2, <2>3, <2>4 DEF k
<1>4. Len(file') <= MaxLines /\ Len(file') <= bound.lines
  BY <1>1, <1>2, <1>3
<1>5. \A i, j \in DOMAIN file' : i < j => file'[i].id < file'[j].id
  <2>1. ASSUME NEW i \in DOMAIN file', NEW j \in DOMAIN file', i < j
        PROVE  file'[i].id < file'[j].id
    <3>1. i + n < j + n
      BY <1>1, <1>2, <1>3, <2>1
    <3> QED BY <1>2, <1>3, <3>1
  <2> QED BY <2>1
<1>6. \A i \in DOMAIN file' : file'[i].id <= bound.lines
  BY <1>2, <1>3
<1>7. /\ bound' = [bound EXCEPT !.faults = @ + 1] /\ bound.faults < MaxFaults
      /\ bound \in [lines : 0..MaxLines, syncs : 0..MaxSyncs, faults : 0..MaxFaults]
      /\ MaxFaults \in Nat
  BY Types DEF Rewrite
<1>8. /\ bound'.lines = bound.lines /\ bound'.faults = bound.faults + 1
      /\ bound' \in [lines : 0..MaxLines, syncs : 0..MaxSyncs, faults : 0..MaxFaults]
  BY <1>7
<1>9. /\ version' = version + 1 /\ half' = FALSE /\ lapses' \subseteq Lapses
      /\ UNCHANGED <<saved, mark, log, index, call, torn>>
  BY Types DEF Rewrite, RunUnchanged, Lapses
<1>10. version' \in 0..MaxFaults /\ version' <= bound'.faults /\ mark'.version <= version'
  <2>1. version <= bound.faults /\ version \in Nat /\ mark.version <= version /\ mark.version \in Nat
    BY Types DEF TypeInv, FileIsNumbered
  <2> QED BY <1>7, <1>8, <1>9, <2>1
<1>11. KeysIn(log)' = KeysIn(log) /\ Busy' = Busy
  BY <1>9 DEF Busy
<1>12. TypeOK'
  BY <1>3, <1>4, <1>5, <1>8, <1>9, <1>10, <1>11 DEF TypeInv, TypeOK
<1>13. FileIsNumbered' /\ ImportIsAlone' /\ StepsOfCalls'
  BY <1>4, <1>6, <1>8, <1>9, <1>10, <1>11
     DEF TypeInv, FileIsNumbered, ImportIsAlone, StepsOfCalls
<1> QED BY <1>12, <1>13 DEF TypeInv

\* The server dies.
LEMMA CrashTypes ==
    ASSUME TypeInv, Crash
    PROVE  TypeInv'
<1>1. /\ call' = [c \in Calls |-> Idle]
      /\ UNCHANGED <<file, half, version, saved, mark, torn>>
      /\ lapses' = lapses \cup (IF saved /\ \E c \in Calls : call[c].buffer # {} THEN {"crash"} ELSE {})
      /\ bound' = [bound EXCEPT !.faults = @ + 1] /\ bound.faults < MaxFaults
  BY DEF Crash, FileUnchanged
<1>2. /\ \A c \in Calls : call'[c] = Idle
      /\ Idle \in Importers /\ Idle.mode = "import" /\ Idle.buffer = {} /\ Idle.step = "idle"
      /\ StepOfCall(Idle)
  BY <1>1, IdleImporter DEF StepOfCall
<1>3. Busy' = {}
  BY <1>2 DEF Busy
<1>4. /\ bound \in [lines : 0..MaxLines, syncs : 0..MaxSyncs, faults : 0..MaxFaults]
      /\ MaxFaults \in Nat
  BY Types
<1>5. /\ bound'.lines = bound.lines /\ bound'.faults = bound.faults + 1
      /\ bound' \in [lines : 0..MaxLines, syncs : 0..MaxSyncs, faults : 0..MaxFaults]
  BY <1>1, <1>4
<1>6. lapses' \subseteq Lapses
  BY <1>1, Types DEF Lapses
<1>7. (saved /\ log' = log /\ index' = index) \/ (~saved /\ log' = <<>> /\ index' = {})
  BY DEF Crash
<1>8. /\ log' \in Seq(Events) /\ index' \subseteq Keys
      /\ \A k \in index' : k \in KeysIn(log)'
  <2>1. CASE saved /\ log' = log /\ index' = index
    <3>1. KeysIn(log)' = KeysIn(log)
      BY <2>1
    <3> QED BY <2>1, <3>1, Types
  <2>2. CASE ~saved /\ log' = <<>> /\ index' = {}
    BY <2>2
  <2> QED BY <1>7, <2>1, <2>2
<1>9. call' \in [Calls -> Importers]
  BY <1>1, <1>2
<1>10. TypeOK'
  <2>1. \A k \in index' \cup UNION {call'[c].buffer : c \in Calls} : k \in KeysIn(log)'
    BY <1>2, <1>8
  <2> QED BY <1>1, <1>2, <1>5, <1>6, <1>8, <1>9, <2>1 DEF TypeInv, TypeOK
<1>11. FileIsNumbered'
  BY <1>1, <1>4, <1>5, Types DEF TypeInv, FileIsNumbered
<1>12. ImportIsAlone'
  BY <1>1, <1>3, <1>7 DEF ImportIsAlone
<1>13. StepsOfCalls'
  BY <1>2 DEF StepsOfCalls
<1> QED BY <1>10, <1>11, <1>12, <1>13 DEF TypeInv

\* Nothing is written yet.
LEMMA InitTypes == Init => TypeInv
<1> SUFFICES ASSUME Init PROVE TypeInv
  OBVIOUS
<1>1. /\ \A c \in Calls : call[c] = Idle
      /\ call \in [Calls -> Importers]
      /\ Idle.mode = "import" /\ Idle.buffer = {} /\ Idle.step = "idle"
      /\ StepOfCall(Idle)
  BY IdleImporter DEF Init, StepOfCall
<1>2. Busy = {}
  BY <1>1 DEF Busy
<1>3. /\ file = <<>> /\ half = FALSE /\ saved = FALSE /\ log = <<>> /\ index = {} /\ torn = {}
      /\ lapses = {} /\ version = 0
      /\ mark = [offset |-> 0, version |-> 0] /\ bound = [lines |-> 0, syncs |-> 0, faults |-> 0]
  BY DEF Init
<1>4. TypeOK
  <2>1. UNION {call[c].buffer : c \in Calls} = {}
    BY <1>1
  <2>2. /\ mark \in [offset : 0..2 * MaxLines, version : 0..MaxFaults] /\ version \in 0..MaxFaults
        /\ bound \in [lines : 0..MaxLines, syncs : 0..MaxSyncs, faults : 0..MaxFaults]
    BY <1>3, SessionImportAssumption
  <2>3. file \in Seq(Lines) /\ Len(file) = 0 /\ 0 <= MaxLines /\ DOMAIN file = {}
    BY <1>3, SessionImportAssumption
  <2>4. log \in Seq(Events)
    BY <1>3
  <2> QED BY <1>1, <1>3, <2>1, <2>2, <2>3, <2>4 DEF TypeOK
<1>5. FileIsNumbered
  BY <1>3 DEF FileIsNumbered
<1>6. ImportIsAlone /\ StepsOfCalls
  BY <1>1, <1>2, <1>3 DEF ImportIsAlone, StepsOfCalls
<1> QED BY <1>4, <1>5, <1>6 DEF TypeInv

\* Every step keeps the types.
LEMMA NextTypes == TypeInv /\ [Next]_vars => TypeInv'
<1> SUFFICES ASSUME TypeInv, [Next]_vars PROVE TypeInv'
  OBVIOUS
<1>1. CASE Next
  BY <1>1, StartTypes, OpenTypes, ReadTypes, HalfTypes, FinalizeTypes, FlushTypes, SaveTypes,
     FailTypes, WriteTypes, RewriteTypes, CrashTypes DEF Next
<1>2. CASE UNCHANGED vars
  <2>1. UNCHANGED <<file, half, saved, mark, log, index, call, torn, lapses, version, bound>>
    BY <1>2 DEF vars
  <2>2. KeysIn(log)' = KeysIn(log) /\ Busy' = Busy
    BY <2>1 DEF Busy
  <2>3. TypeOK' /\ FileIsNumbered' /\ ImportIsAlone' /\ StepsOfCalls'
    BY <2>1, <2>2 DEF TypeInv, TypeOK, FileIsNumbered, ImportIsAlone, StepsOfCalls
  <2> QED BY <2>3 DEF TypeInv
<1> QED BY <1>1, <1>2

\* The variables have their types, and no key is in the index, or on its way there, whose
\* event is not in the log: process_line appends the event before it buffers the key.
THEOREM ImportTypeCorrect == Spec => []TypeOK
<1>1. TypeInv => TypeOK
  BY DEF TypeInv
<1> QED BY <1>1, InitTypes, NextTypes, PTL DEF Spec

-----------------------------------------------------------------------------
(* No line is passed over *)

\* The world w has all that v has, and its file begins as that of v does.
Grows(v, w) ==
    /\ v.size \in Nat /\ w.size \in Nat /\ v.size <= w.size
    /\ v.keys \subseteq w.keys /\ v.torn \subseteq w.torn
    /\ \A i \in DOMAIN w.file :
          i \in Nat /\ (2 * i <= v.size + 1 => i \in DOMAIN v.file /\ w.file[i] = v.file[i])

\* What is kept stays kept, and so is what is before it.
LEMMA KeptStays ==
    ASSUME NEW v, NEW w, Grows(v, w), NEW p \in Nat, KeptTo(p, v), NEW q \in Nat, q <= p
    PROVE  KeptTo(q, w)
<1>1. p <= v.size /\ v.size \in Nat /\ w.size \in Nat /\ v.size <= w.size
  BY DEF KeptTo, Grows
<1>2. q <= w.size
  BY <1>1
<1>3. ASSUME NEW i \in DOMAIN w.file, 2 * i <= q + 1
      PROVE  w.file[i].id \in w.torn \/ \E kind \in {"message", "live"} : <<kind, w.file[i].id>> \in w.keys
  <2>1. i \in Nat
    BY DEF Grows
  <2>2. 2 * i <= v.size + 1 /\ 2 * i <= p + 1
    BY <1>1, <1>3, <2>1
  <2>3. i \in DOMAIN v.file /\ w.file[i] = v.file[i]
    BY <2>2 DEF Grows
  <2>4. v.file[i].id \in v.torn \/ \E kind \in {"message", "live"} : <<kind, v.file[i].id>> \in v.keys
    BY <2>2, <2>3 DEF KeptTo
  <2> QED BY <2>3, <2>4 DEF Grows
<1> QED BY <1>2, <1>3 DEF KeptTo

\* What an importer has behind it is kept when the file and the log grow.
LEMMA KeptForStays ==
    ASSUME NEW v, NEW w, Grows(v, w), NEW i \in Importers, KeptFor(i, v)
    PROVE  KeptFor(i, w)
<1>1. i.offset \in Nat /\ i.pos \in Nat
  BY DEF Importers
<1>2. v.size <= w.size /\ v.size \in Nat /\ w.size \in Nat
  BY DEF Grows
<1>3. KeptTo(i.offset, v) => KeptTo(i.offset, w)
  BY <1>1, KeptStays
<1>4. KeptTo(i.pos, v) => KeptTo(i.pos, w)
  BY <1>1, KeptStays
<1> QED BY <1>1, <1>2, <1>3, <1>4 DEF KeptFor

\* The size of a file, from its parts.
LEMMA Sizes ==
    \A f \in Seq(Lines), h \in BOOLEAN : (h => f # <<>>) =>
        /\ Size(f, h) \in Nat
        /\ Size(f, h) = 2 * Len(f) \/ (h /\ Size(f, h) = 2 * Len(f) - 1)
        /\ Len(f) \in Nat /\ DOMAIN f = 1..Len(f)
<1> SUFFICES ASSUME NEW f \in Seq(Lines), NEW h \in BOOLEAN, h => f # <<>>
             PROVE  /\ Size(f, h) \in Nat
                    /\ Size(f, h) = 2 * Len(f) \/ (h /\ Size(f, h) = 2 * Len(f) - 1)
                    /\ Len(f) \in Nat /\ DOMAIN f = 1..Len(f)
  OBVIOUS
<1>1. Len(f) \in Nat /\ DOMAIN f = 1..Len(f) /\ (h => Len(f) > 0)
  OBVIOUS
<1> QED BY <1>1 DEF Size

\* The file stays, is completed, or has a line more.
LEMMA WorldGrows ==
    ASSUME TypeInv, TypeInv', torn \subseteq torn', KeysIn(log) \subseteq KeysIn(log'),
           \/ file' = file /\ (half' => half)
           \/ /\ ~half /\ Len(file') = Len(file) + 1
              /\ \A i \in DOMAIN file : file'[i] = file[i]
    PROVE  Grows(World, World')
<1>1. /\ file \in Seq(Lines) /\ half \in BOOLEAN /\ (half => file # <<>>)
      /\ file' \in Seq(Lines) /\ half' \in BOOLEAN /\ (half' => file' # <<>>)
  BY DEF TypeInv, TypeOK
<1> DEFINE y == FileSize
           z == Size(file', half')
<1>2. /\ y \in Nat /\ (y = 2 * Len(file) \/ (half /\ y = 2 * Len(file) - 1))
      /\ Len(file) \in Nat /\ DOMAIN file = 1..Len(file)
  BY <1>1, Sizes DEF FileSize
<1>3. /\ z \in Nat /\ (z = 2 * Len(file') \/ (half' /\ z = 2 * Len(file') - 1))
      /\ Len(file') \in Nat /\ DOMAIN file' = 1..Len(file')
  BY <1>1, Sizes
<1>4. /\ World.size = y /\ World'.size = z /\ World.file = file /\ World'.file = file'
      /\ World.keys = KeysIn(log) /\ World'.keys = KeysIn(log')
      /\ World.torn = torn /\ World'.torn = torn'
  BY DEF World, FileSize
<1>5. y <= z
  <2>1. CASE file' = file /\ (half' => half)
    BY <1>1, <2>1 DEF FileSize, Size
  <2>2. CASE ~half /\ Len(file') = Len(file) + 1
    <3> HIDE DEF y, z
    <3> QED BY <1>2, <1>3, <2>2
  <2> QED BY <2>1, <2>2
<1>6. \A i \in DOMAIN file' :
         i \in Nat /\ (2 * i <= y + 1 => i \in DOMAIN file /\ file'[i] = file[i])
  <2>1. CASE file' = file
    <3> HIDE DEF y, z
    <3>1. ASSUME NEW i \in DOMAIN file'
          PROVE  i \in Nat /\ i \in DOMAIN file /\ file'[i] = file[i]
      <4>1. i \in DOMAIN file
        BY <2>1
      <4>2. i \in Nat
        BY <1>2, <4>1
      <4> QED BY <2>1, <4>1, <4>2
    <3> QED BY <3>1
  <2>2. CASE /\ ~half /\ Len(file') = Len(file) + 1
             /\ \A i \in DOMAIN file : file'[i] = file[i]
    <3> HIDE DEF y, z
    <3>1. ASSUME NEW i \in DOMAIN file', 2 * i <= y + 1
          PROVE  i \in DOMAIN file
      BY <1>2, <1>3, <2>2, <3>1
    <3> QED BY <1>3, <2>2, <3>1
  <2> QED BY <2>1, <2>2
<1> HIDE DEF y, z
<1> QED BY <1>2, <1>3, <1>4, <1>5, <1>6 DEF Grows

\* A step of which the world grows keeps what is kept, if it does so for those that move.
LEMMA KeptStep ==
    ASSUME TypeInv, KeptInv, lapses \subseteq lapses', Grows(World, World'),
           \/ UNCHANGED <<saved, mark, version>>
           \/ "rewritten" \notin lapses' =>
                 (saved' /\ mark'.version = version' => KeptTo(mark'.offset, World')),
           \A d \in Calls : \/ call'[d] = call[d]
                            \/ /\ call'[d].skip \subseteq KeysIn(log')
                               /\ "rewritten" \notin lapses' => KeptFor(call'[d], World')
    PROVE  KeptInv'
<1>1. KeysIn(log) \subseteq KeysIn(log')
  BY DEF Grows, World
<1>2. \A d \in Calls : call'[d].skip \subseteq KeysIn(log')
  BY <1>1 DEF KeptInv
<1>3. ASSUME "rewritten" \notin lapses'
      PROVE  /\ saved' /\ mark'.version = version' => KeptTo(mark'.offset, World')
             /\ \A d \in Calls : KeptFor(call'[d], World')
  <2>1. "rewritten" \notin lapses
    BY <1>3
  <2>2. ASSUME UNCHANGED <<saved, mark, version>>
        PROVE  saved' /\ mark'.version = version' => KeptTo(mark'.offset, World')
    <3>1. mark.offset \in Nat /\ mark' = mark /\ saved' = saved /\ version' = version
      BY <2>2, Types
    <3>2. saved /\ mark.version = version => KeptTo(mark.offset, World)
      BY <2>1 DEF KeptInv
    <3>3. KeptTo(mark.offset, World) => KeptTo(mark.offset, World')
      BY <3>1, KeptStays
    <3>4. mark'.offset = mark.offset /\ mark'.version = mark.version
      BY <3>1
    <3> QED BY <3>1, <3>2, <3>3, <3>4
  <2>3. saved' /\ mark'.version = version' => KeptTo(mark'.offset, World')
    BY <1>3, <2>2
  <2>4. ASSUME NEW d \in Calls, call'[d] = call[d]
        PROVE  KeptFor(call'[d], World')
    <3>1. call[d] \in Importers /\ KeptFor(call[d], World)
      BY <2>1, Types DEF KeptInv
    <3> QED BY <2>4, <3>1, KeptForStays
  <2> QED BY <1>3, <2>3, <2>4
<1> QED BY <1>2, <1>3 DEF KeptInv

\* The world after a step that leaves the file alone.
LEMMA WorldNext ==
    ASSUME TypeInv, TypeInv', file' = file, half' = half,
           torn \subseteq torn', KeysIn(log) \subseteq KeysIn(log')
    PROVE  /\ Grows(World, World')
           /\ World.size = FileSize /\ World.file = file
           /\ World'.size = FileSize /\ World'.file = file
           /\ World'.keys = KeysIn(log') /\ World'.torn = torn'
           /\ KeptTo(0, World')
<1>1. Grows(World, World')
  BY WorldGrows
<1>2. /\ World.size = FileSize /\ World.file = file
      /\ World'.size = FileSize /\ World'.file = file
      /\ World'.keys = KeysIn(log') /\ World'.torn = torn'
  BY DEF World, FileSize
<1>3. FileSize \in Nat /\ \A i \in DOMAIN file : i \in Nat /\ i > 0
  BY SizeOfFile, Types
<1>4. KeptTo(0, World')
  BY <1>2, <1>3 DEF KeptTo
<1> QED BY <1>1, <1>2, <1>4

\* One thread moves, and leaves the file alone.
LEMMA KeptMove ==
    ASSUME TypeInv, TypeInv', KeptInv, NEW c \in Calls, NEW i \in Importers,
           call' = [call EXCEPT ![c] = i],
           file' = file, half' = half, torn \subseteq torn', KeysIn(log) \subseteq KeysIn(log'),
           lapses \subseteq lapses',
           \/ UNCHANGED <<saved, mark, version>>
           \/ "rewritten" \notin lapses' =>
                 (saved' /\ mark'.version = version' => KeptTo(mark'.offset, World')),
           i.skip \subseteq KeysIn(log'),
           "rewritten" \notin lapses' => KeptFor(i, World')
    PROVE  KeptInv'
<1>1. Grows(World, World')
  BY WorldNext
<1>2. call'[c] = i /\ \A d \in Calls : d # c => call'[d] = call[d]
  BY Types, OneMoves
<1>3. \A d \in Calls : \/ call'[d] = call[d]
                       \/ /\ call'[d].skip \subseteq KeysIn(log')
                          /\ "rewritten" \notin lapses' => KeptFor(call'[d], World')
  BY <1>2
<1> QED BY <1>1, <1>3, KeptStep

\* An import has passed nothing; a sync starts at the watermark.
LEMMA StartKeeps ==
    ASSUME TypeInv, TypeInv', KeptInv, NEW c \in Calls, StartImport(c) \/ StartSync(c)
    PROVE  KeptInv'
<1>1. CASE StartImport(c)
  <2> DEFINE i == [Idle EXCEPT !.step = "reading", !.offset = FileSize]
  <2>1. /\ i \in Importers /\ i.step = "reading" /\ i.mode = "import" /\ i.pos = 0
        /\ i.offset = FileSize /\ i.skip = {}
    BY SizeOfFile, IdleImporter DEF Importers, Steps
  <2>2. /\ call' = [call EXCEPT ![c] = i]
        /\ UNCHANGED <<file, half, version, saved, mark, log, torn, lapses>>
    BY <1>1 DEF StartImport, FileUnchanged, RunUnchanged
  <2> HIDE DEF i
  <2>3. KeptTo(0, World') /\ World'.size = FileSize
    BY <2>2, WorldNext
  <2>4. FileSize \in Nat
    BY SizeOfFile, Types
  <2>5. KeptFor(i, World')
    BY <2>1, <2>3, <2>4 DEF KeptFor
  <2> QED BY <2>1, <2>2, <2>5, KeptMove
<1>2. CASE StartSync(c)
  <2> DEFINE i == [Idle EXCEPT !.step = "opening", !.offset = mark.offset,
                     !.mode = IF FileSize > mark.offset THEN "append" ELSE "reconcile"]
  <2>1. /\ i \in Importers /\ i.step = "opening" /\ i.mode # "import" /\ i.skip = {}
        /\ i.offset = mark.offset /\ (i.mode = "append" => FileSize > mark.offset)
    BY Types, IdleImporter DEF Importers, Steps, Modes
  <2>2. /\ call' = [call EXCEPT ![c] = i] /\ saved
        /\ UNCHANGED <<file, half, version, saved, mark, log, torn>>
        /\ lapses \subseteq lapses'
        /\ FileSize > mark.offset /\ version # mark.version => "rewritten" \in lapses'
    BY <1>2 DEF StartSync, FileUnchanged, RunUnchanged
  <2> HIDE DEF i
  <2>3. "rewritten" \notin lapses' => KeptFor(i, World')
    <3>1. Grows(World, World') /\ mark.offset \in Nat
      BY <2>2, WorldNext, Types
    <3>2. "rewritten" \notin lapses' /\ i.mode = "append" => KeptTo(mark.offset, World)
      BY <2>1, <2>2 DEF KeptInv
    <3>3. KeptTo(mark.offset, World) => KeptTo(mark.offset, World')
      BY <3>1, KeptStays
    <3> QED BY <2>1, <3>2, <3>3 DEF KeptFor
  <2> QED BY <2>1, <2>2, <2>3, KeptMove
<1> QED BY <1>1, <1>2

\* The warm-up passes the lines before the watermark only.
LEMMA OpenKeeps ==
    ASSUME TypeInv, TypeInv', KeptInv, NEW c \in Calls, Open(c)
    PROVE  KeptInv'
<1>1. PICK u \in Importers :
         /\ call' = [call EXCEPT ![c] = u]
         /\ u.step = "reading" /\ u.mode = call[c].mode /\ u.mode # "import"
         /\ u.skip = index /\ u.pos <= FileSize
         /\ \/ u.pos = 0
            \/ /\ u.mode # "reconcile"
               /\ \A j \in DOMAIN file : 2 * j <= u.pos + 1 => 2 * j <= call[c].offset + 1
  BY Opened
<1>2. /\ call[c].step = "opening" /\ call[c].mode \in Modes
      /\ UNCHANGED <<file, half, version, saved, mark, log, torn, lapses>>
  BY Types DEF Open, FileUnchanged, RunUnchanged, Importers
<1>3. /\ Grows(World, World') /\ World.file = file /\ World'.file = file /\ World'.size = FileSize
      /\ World'.keys = KeysIn(log') /\ World'.torn = torn' /\ KeptTo(0, World')
  BY <1>2, WorldNext
<1>4. u.skip \subseteq KeysIn(log')
  BY <1>1, <1>2, Types
<1>5. ASSUME "rewritten" \notin lapses'
      PROVE  KeptFor(u, World')
  <2>1. CASE u.pos = 0
    BY <1>1, <1>3, <2>1 DEF KeptFor
  <2>2. CASE u.pos # 0
    <3>1. call[c].mode = "append" /\ call[c].offset \in Nat
      BY <1>1, <1>2, <2>2, Positions DEF Modes
    <3>2. KeptTo(call[c].offset, World)
      BY <1>2, <1>5, <3>1 DEF KeptInv, KeptFor
    <3>3. KeptTo(call[c].offset, World')
      BY <1>3, <3>1, <3>2, KeptStays
    <3>4. KeptTo(u.pos, World')
      BY <1>1, <1>3, <2>2, <3>3 DEF KeptTo
    <3> QED BY <1>1, <3>4 DEF KeptFor
  <2> QED BY <2>1, <2>2
<1> QED BY <1>1, <1>2, <1>4, <1>5, KeptMove

\* The line that is passed was read half written.
LEMMA HalfKeeps ==
    ASSUME TypeInv, TypeInv', KeptInv, NEW c \in Calls, ReadHalf(c)
    PROVE  KeptInv'
<1> DEFINE i == [call[c] EXCEPT !.pos = @ + 1]
           p == call[c].pos
           n == NextLine(c)
<1>1. /\ Reading(c) /\ call[c] \in Importers /\ call[c].step = "reading"
      /\ AtHalf(c) \/ (half /\ n = Len(file))
      /\ torn' = torn \cup {file[n].id} /\ call' = [call EXCEPT ![c] = i]
      /\ UNCHANGED <<file, half, version, saved, mark, log, lapses>>
  BY Types DEF ReadHalf, Reading, FileUnchanged, RunUnchanged
<1>2. /\ n \in DOMAIN file /\ p \in Nat /\ p < FileSize /\ FileSize \in Nat
      /\ (AtHalf(c) => 2 * n = p + 1) /\ (~AtHalf(c) => 2 * n = p + 2)
      /\ \A j \in DOMAIN file : j \in Nat
  BY <1>1, LineAt, Positions
<1>3. /\ i \in Importers /\ i.step = "reading" /\ i.mode = call[c].mode /\ i.offset = call[c].offset
      /\ i.skip = call[c].skip /\ i.pos = p + 1
  <2>1. p + 1 \in 0..2 * MaxLines
    <3> HIDE DEF p
    <3>1. FileSize \in 0..2 * MaxLines /\ MaxLines \in Nat
      BY SizeOfFile, Types
    <3> QED BY <1>2, <3>1
  <2> QED BY <1>1, <2>1 DEF Importers
<1> HIDE DEF i, n, p
<1>4. /\ Grows(World, World') /\ World.file = file /\ World'.file = file /\ World'.size = FileSize
      /\ World.size = FileSize
      /\ World'.keys = KeysIn(log') /\ World'.torn = torn'
  BY <1>1, WorldNext
<1>5. i.skip \subseteq KeysIn(log')
  BY <1>1, <1>3 DEF KeptInv
<1>6. ASSUME "rewritten" \notin lapses'
      PROVE  KeptFor(i, World')
  <2>1. KeptFor(call[c], World)
    BY <1>1, <1>6 DEF KeptInv
  <2>2. KeptTo(p, World)
    BY <1>1, <2>1 DEF KeptFor, p
  <2>3. KeptTo(p, World')
    BY <1>2, <1>4, <2>2, KeptStays
  <2>4. ASSUME NEW j \in DOMAIN file, 2 * j <= p + 1 + 1
        PROVE  file[j].id \in torn' \/ \E kind \in {"message", "live"} : <<kind, file[j].id>> \in KeysIn(log')
    <3>1. j = n \/ 2 * j <= p + 1
      <4>1. n \in Nat /\ j \in Nat
        BY <1>2
      <4> QED BY <1>2, <2>4, <4>1
    <3>2. CASE j = n
      BY <1>1, <3>2
    <3>3. CASE 2 * j <= p + 1
      BY <1>4, <2>3, <3>3 DEF KeptTo
    <3> QED BY <3>1, <3>2, <3>3
  <2>5. p + 1 <= FileSize
    BY <1>2
  <2>6. KeptTo(p + 1, World')
    BY <1>4, <2>4, <2>5 DEF KeptTo
  <2>7. i.mode = "import" => i.offset <= World'.size
    BY <1>1, <1>3, <1>4, <2>1 DEF KeptFor
  <2> QED BY <1>3, <2>6, <2>7 DEF KeptFor
<1> QED BY <1>1, <1>3, <1>5, <1>6, KeptMove

\* A step that records adds keys to the log.
LEMMA RecordGrows ==
    ASSUME TypeInv, NEW c \in Calls, NEW i \in Importers, NEW a \in Optional, NEW b \in Optional,
           KeysIn(a) \subseteq Keys, KeysIn(b) \subseteq Keys, Record(c, i, a, b)
    PROVE  /\ KeysIn(log) \subseteq KeysIn(log')
           /\ \A e : a = <<e>> \/ b = <<e>> => e.key \in i.skip \/ e.key \in KeysIn(log')
           /\ \E u \in Importers :
                 /\ call' = [call EXCEPT ![c] = u]
                 /\ u.step = i.step /\ u.mode = i.mode /\ u.offset = i.offset /\ u.pos = i.pos
                 /\ u.skip = i.skip
<1>0. call \in [Calls -> Importers] /\ log \in Seq(Events)
  BY Types
<1>1. PICK K \in SUBSET Keys :
         /\ call' = [call EXCEPT ![c] = [i EXCEPT !.buffer = @ \cup K]]
         /\ [i EXCEPT !.buffer = @ \cup K] \in Importers
         /\ \A k : k \in KeysIn(log') <=> k \in KeysIn(log) \/ k \in K
  BY <1>0, Recorded
<1>2. \A e : a = <<e>> \/ b = <<e>> => e.key \in i.skip \/ \E n \in DOMAIN log' : log'[n] = e
  BY <1>0, Recorded
<1>3. \A n \in DOMAIN log' : log'[n].key \in KeysIn(log')
  BY DEF KeysIn
<1> DEFINE u == [i EXCEPT !.buffer = @ \cup K]
<1>4. /\ u \in Importers /\ call' = [call EXCEPT ![c] = u]
      /\ u.step = i.step /\ u.mode = i.mode /\ u.offset = i.offset /\ u.pos = i.pos
      /\ u.skip = i.skip
  BY <1>1 DEF Importers
<1> HIDE DEF u
<1> QED BY <1>1, <1>2, <1>3, <1>4

\* The line that is passed is in the log: it is recorded, or its key is in the skip set.
LEMMA ReadKeeps ==
    ASSUME TypeInv, TypeInv', KeptInv, NEW c \in Calls, ReadLine(c)
    PROVE  KeptInv'
<1> DEFINE p == call[c].pos
           n == NextLine(c)
           line == file[n]
<1>1. /\ call[c].step = "reading" /\ call[c] \in Importers
      /\ UNCHANGED <<file, half, version, saved, mark, torn, lapses>>
  BY Types DEF ReadLine, Reading, FileUnchanged
<1>2. line \in Lines /\ n \in DOMAIN file /\ 2 * n = p + 2 /\ p + 2 <= FileSize
  BY ReadOn
<1>3. PICK i \in Importers, a \in Optional :
         /\ Record(c, i, a, <<Message(line)>>)
         /\ i.step = "reading" /\ i.mode = call[c].mode /\ i.offset = call[c].offset
         /\ i.skip = call[c].skip /\ i.pos = p + 2 /\ KeysIn(a) \subseteq Keys
  BY ReadOn
<1>4. /\ p \in Nat /\ FileSize \in Nat /\ \A j \in DOMAIN file : j \in Nat
  BY Positions
<1> HIDE DEF p, n, line
<1>5. /\ <<Message(line)>> \in Optional /\ KeysIn(<<Message(line)>>) \subseteq Keys
      /\ Message(line).key = <<"message", line.id>>
  BY <1>2, MessageOptional
<1>6. /\ KeysIn(log) \subseteq KeysIn(log')
      /\ Message(line).key \in i.skip \/ Message(line).key \in KeysIn(log')
  BY <1>3, <1>5, RecordGrows
<1>7. PICK u \in Importers :
         /\ call' = [call EXCEPT ![c] = u]
         /\ u.step = i.step /\ u.mode = i.mode /\ u.offset = i.offset /\ u.pos = i.pos
         /\ u.skip = i.skip
  BY <1>3, <1>5, RecordGrows
<1>8. /\ Grows(World, World') /\ World.file = file /\ World'.file = file /\ World'.size = FileSize
      /\ World.size = FileSize
      /\ World'.keys = KeysIn(log') /\ World'.torn = torn'
  BY <1>1, <1>6, WorldNext
<1>9. u.skip \subseteq KeysIn(log') /\ <<"message", line.id>> \in KeysIn(log')
  BY <1>3, <1>5, <1>6, <1>7 DEF KeptInv
<1>10. ASSUME "rewritten" \notin lapses'
       PROVE  KeptFor(u, World')
  <2>1. KeptFor(call[c], World)
    BY <1>1, <1>10 DEF KeptInv
  <2>2. KeptTo(p, World)
    BY <1>1, <2>1 DEF KeptFor, p
  <2>3. KeptTo(p, World')
    BY <1>4, <1>8, <2>2, KeptStays
  <2>4. ASSUME NEW j \in DOMAIN file, 2 * j <= p + 2 + 1
        PROVE  file[j].id \in torn' \/ \E kind \in {"message", "live"} : <<kind, file[j].id>> \in KeysIn(log')
    <3>1. j = n \/ 2 * j <= p + 1
      <4>1. n \in Nat /\ j \in Nat
        BY <1>2, <1>4
      <4> QED BY <1>2, <1>4, <2>4, <4>1
    <3>2. CASE j = n
      BY <1>9, <3>2 DEF line
    <3>3. CASE 2 * j <= p + 1
      BY <1>8, <2>3, <3>3 DEF KeptTo
    <3> QED BY <3>1, <3>2, <3>3
  <2>5. KeptTo(p + 2, World')
    BY <1>2, <1>8, <2>4 DEF KeptTo
  <2>6. u.mode = "import" => u.offset <= World'.size
    BY <1>1, <1>3, <1>7, <1>8, <2>1 DEF KeptFor
  <2> QED BY <1>3, <1>7, <2>5, <2>6 DEF KeptFor
<1> QED BY <1>1, <1>6, <1>7, <1>9, <1>10, KeptMove

\* Nothing is passed at the end of the file.
LEMMA FinalizeKeeps ==
    ASSUME TypeInv, TypeInv', KeptInv, NEW c \in Calls, Finalize(c)
    PROVE  KeptInv'
<1> DEFINE p == call[c].pos
<1>1. /\ call[c].step = "reading" /\ p >= FileSize
      /\ call[c] \in Importers
      /\ UNCHANGED <<file, half, version, saved, mark, torn, lapses>>
  BY Types DEF Finalize, FileUnchanged
<1>2. PICK i \in Importers, a \in Optional :
         /\ Record(c, i, a, <<>>)
         /\ i.step = "flushing" /\ i.mode = call[c].mode /\ i.offset = call[c].offset
         /\ i.skip = call[c].skip /\ i.pos = p /\ KeysIn(a) \subseteq Keys
  BY FinalizeOn
<1>3. p \in Nat /\ FileSize \in Nat /\ call[c].offset \in Nat
  BY <1>1, SizeOfFile, Types DEF Importers
<1> HIDE DEF p
<1>4. <<>> \in Optional /\ KeysIn(<<>>) \subseteq Keys
  BY DEF Optional, KeysIn
<1>5. KeysIn(log) \subseteq KeysIn(log')
  BY <1>2, <1>4, RecordGrows
<1>6. PICK u \in Importers :
         /\ call' = [call EXCEPT ![c] = u]
         /\ u.step = i.step /\ u.mode = i.mode /\ u.offset = i.offset /\ u.pos = i.pos
         /\ u.skip = i.skip
  BY <1>2, <1>4, RecordGrows
<1>7. Grows(World, World') /\ World.size = FileSize /\ World'.size = FileSize
  BY <1>1, <1>5, WorldNext
<1>8. u.skip \subseteq KeysIn(log')
  BY <1>2, <1>5, <1>6 DEF KeptInv
<1>9. ASSUME "rewritten" \notin lapses'
      PROVE  KeptFor(u, World')
  <2>1. KeptFor(call[c], World)
    BY <1>1, <1>9 DEF KeptInv
  <2>2. KeptTo(p, World)
    BY <1>1, <2>1 DEF KeptFor, p
  <2>3. KeptTo(p, World')
    BY <1>3, <1>7, <2>2, KeptStays
  <2>4. u.mode = "import" => u.offset <= FileSize
    BY <1>1, <1>2, <1>6, <1>7, <2>1 DEF KeptFor
  <2>5. u.mode = "import" => u.offset <= World'.size /\ u.offset <= p
    BY <1>1, <1>2, <1>3, <1>6, <1>7, <2>4
  <2> QED BY <1>2, <1>6, <2>3, <2>5 DEF KeptFor
<1> QED BY <1>1, <1>5, <1>6, <1>8, <1>9, KeptMove

\* Keys are of no concern to who has passed what.
LEMMA FlushKeeps ==
    ASSUME TypeInv, TypeInv', KeptInv, NEW c \in Calls, Flush(c)
    PROVE  KeptInv'
<1>1. PICK i \in Importers :
         /\ call' = [call EXCEPT ![c] = i]
         /\ i.step = (IF call[c].step = "flushing" THEN "saving" ELSE "reading")
         /\ i.mode = call[c].mode /\ i.offset = call[c].offset /\ i.pos = call[c].pos
         /\ i.skip = call[c].skip
  BY FlushTypes
<1>2. /\ UNCHANGED <<file, half, version, saved, mark, log, torn, lapses>>
      /\ call[c].step \in {"reading", "flushing"} /\ call[c] \in Importers
  BY Types DEF Flush, FileUnchanged
<1>3. Grows(World, World')
  BY <1>2, WorldNext
<1>4. i.skip \subseteq KeysIn(log')
  BY <1>1, <1>2 DEF KeptInv
<1>5. ASSUME "rewritten" \notin lapses'
      PROVE  KeptFor(i, World')
  <2>1. KeptFor(call[c], World)
    BY <1>2, <1>5 DEF KeptInv
  <2>2. KeptFor(call[c], World')
    BY <1>2, <1>3, <2>1, KeptForStays
  <2> QED BY <1>1, <1>2, <2>2 DEF KeptFor
<1> QED BY <1>1, <1>2, <1>4, <1>5, KeptMove

\* The new watermark is where the importer has been.
LEMMA SaveKeeps ==
    ASSUME TypeInv, TypeInv', KeptInv, NEW c \in Calls, Save(c)
    PROVE  KeptInv'
<1>1. /\ call[c].step = "saving" /\ call[c] \in Importers
      /\ call' = [call EXCEPT ![c] = Idle]
      /\ mark'.offset = NewOffset(c)
      /\ UNCHANGED <<file, half, log, torn, lapses>>
  BY Types DEF Save, FileUnchanged
<1>2. Grows(World, World')
  BY <1>1, WorldNext
<1>3. ASSUME "rewritten" \notin lapses'
      PROVE  KeptTo(mark'.offset, World')
  <2>1. KeptFor(call[c], World)
    BY <1>1, <1>3 DEF KeptInv
  <2>2. KeptTo(call[c].pos, World)
    BY <1>1, <2>1 DEF KeptFor
  <2>3. NewOffset(c) <= call[c].pos /\ NewOffset(c) \in Nat /\ call[c].pos \in Nat
    <3>1. call[c].pos \in Nat /\ call[c].offset \in Nat
      BY <1>1 DEF Importers
    <3>2. call[c].mode = "import" => call[c].offset <= call[c].pos
      BY <1>1, <2>1 DEF KeptFor
    <3> QED BY <3>1, <3>2 DEF NewOffset
  <2>4. KeptTo(NewOffset(c), World')
    BY <1>2, <2>2, <2>3, KeptStays
  <2> QED BY <1>1, <2>4
<1>4. Idle \in Importers /\ Idle.skip \subseteq KeysIn(log') /\ KeptFor(Idle, World')
  BY IdleImporter DEF KeptFor
<1> QED BY <1>1, <1>3, <1>4, KeptMove

\* An import that fails leaves nothing; nobody else is there who had seen it.
LEMMA FailKeeps ==
    ASSUME TypeInv, TypeInv', KeptInv, NEW c \in Calls, Fail(c)
    PROVE  KeptInv'
<1>1. /\ call[c].step # "idle" /\ call[c] \in Importers
      /\ call' = [call EXCEPT ![c] = Idle]
      /\ UNCHANGED <<file, half, version, saved, mark, torn, lapses>>
  BY Types DEF Fail, FileUnchanged
<1>2. Idle \in Importers /\ Idle.skip = {} /\ \A w : KeptFor(Idle, w)
  BY IdleImporter DEF KeptFor
<1>3. CASE call[c].mode = "import"
  <2>1. ~saved /\ Busy = {c}
    BY <1>1, <1>3 DEF TypeInv, ImportIsAlone, Busy
  <2>2. \A d \in Calls : call'[d] = Idle
    <3>1. call'[c] = Idle /\ \A d \in Calls : d # c => call'[d] = call[d]
      BY <1>1, <1>2, Types, OneMoves
    <3>2. \A d \in Calls : d # c => call[d] = Idle
      BY <2>1, Types
    <3> QED BY <3>1, <3>2
  <2>3. ~saved'
    BY <1>1, <2>1
  <2> QED BY <1>2, <2>2, <2>3 DEF KeptInv
<1>4. CASE call[c].mode # "import"
  <2>1. log' = log
    BY <1>4 DEF Fail
  <2>2. Idle.skip \subseteq KeysIn(log') /\ KeptFor(Idle, World')
    BY <1>2
  <2>3. KeysIn(log) \subseteq KeysIn(log')
    BY <2>1
  <2>4. UNCHANGED <<saved, mark, version>>
    BY <1>1
  <2>5. file' = file /\ half' = half /\ torn \subseteq torn' /\ lapses \subseteq lapses'
    BY <1>1
  <2> QED BY <1>1, <1>2, <2>2, <2>3, <2>4, <2>5, KeptMove
<1> QED BY <1>3, <1>4

\* What the CLI appends is behind every position.
LEMMA WriteKeeps ==
    ASSUME TypeInv, TypeInv', KeptInv, WriteLine \/ EndLine \/ Chat
    PROVE  KeptInv'
<1>1. UNCHANGED <<saved, mark, version, call, torn>> /\ lapses \subseteq lapses'
  BY DEF WriteLine, EndLine, Chat, RunUnchanged
<1>2. KeysIn(log) \subseteq KeysIn(log')
  <2>1. CASE log' = log
    BY <2>1
  <2>2. CASE Chat
    <3> DEFINE e == [key |-> <<"live", bound.lines + 1>>, turn |-> 0, of |-> bound.lines + 1]
    <3>1. log' = Append(log, e) /\ log \in Seq(Events)
      BY <2>2, Types DEF Chat
    <3> HIDE DEF e
    <3>2. \A n \in DOMAIN log : n \in DOMAIN log' /\ log'[n] = log[n]
      BY <3>1
    <3> QED BY <3>2 DEF KeysIn
  <2> QED BY <2>1, <2>2 DEF WriteLine, EndLine, RunUnchanged
<1>3. \/ file' = file /\ (half' => half)
      \/ /\ ~half /\ Len(file') = Len(file) + 1
         /\ \A i \in DOMAIN file : file'[i] = file[i]
  <2>1. CASE EndLine
    BY <2>1 DEF EndLine
  <2>2. CASE WriteLine \/ Chat
    <3>1. PICK prompt \in BOOLEAN :
             file' = Append(file, [id |-> bound.lines + 1, prompt |-> prompt])
      BY <2>2 DEF WriteLine, Chat
    <3>2. ~half /\ bound.lines < MaxLines
      BY <2>2 DEF WriteLine, Chat
    <3> DEFINE line == [id |-> bound.lines + 1, prompt |-> prompt]
    <3>3. file' = Append(file, line) /\ file \in Seq(Lines)
      BY <3>1, Types
    <3> HIDE DEF line
    <3>4. Len(file') = Len(file) + 1 /\ \A i \in DOMAIN file : file'[i] = file[i]
      BY <3>3
    <3> QED BY <3>2, <3>4
  <2> QED BY <2>1, <2>2
<1>4. Grows(World, World')
  BY <1>1, <1>2, <1>3, WorldGrows
<1>5. \A d \in Calls : call'[d] = call[d]
  BY <1>1
<1> QED BY <1>1, <1>4, <1>5, KeptStep

\* When the file is rewritten and nobody reads it, the watermark is of another file.
LEMMA RewriteKeeps ==
    ASSUME TypeInv, KeptInv, Rewrite
    PROVE  KeptInv'
<1>1. /\ UNCHANGED <<saved, mark, log, call>> /\ version' = version + 1
      /\ lapses' = lapses \cup (IF Busy = {} THEN {} ELSE {"rewritten"})
  BY DEF Rewrite, RunUnchanged
<1>2. mark'.version # version'
  BY <1>1, Types
<1>3. \A d \in Calls : call'[d].skip \subseteq KeysIn(log')
  BY <1>1 DEF KeptInv
<1>4. ASSUME "rewritten" \notin lapses', NEW d \in Calls
      PROVE  KeptFor(call'[d], World')
  <2>1. Busy = {}
    BY <1>1, <1>4
  <2>2. call'[d] = Idle
    BY <1>1, <2>1, Types
  <2> QED BY <2>2, IdleImporter DEF KeptFor
<1> QED BY <1>2, <1>3, <1>4 DEF KeptInv

\* Of an import that dies with the server there is no watermark.
LEMMA CrashKeeps ==
    ASSUME TypeInv, TypeInv', KeptInv, Crash
    PROVE  KeptInv'
<1>1. /\ call' = [c \in Calls |-> Idle] /\ lapses \subseteq lapses'
      /\ UNCHANGED <<file, half, version, saved, mark, torn>>
      /\ saved => log' = log
  BY DEF Crash, FileUnchanged
<1>2. \A d \in Calls : /\ call'[d].skip \subseteq KeysIn(log')
                       /\ KeptFor(call'[d], World')
  BY <1>1, IdleImporter DEF KeptFor
<1>3. CASE ~saved
  <2>1. ~saved'
    BY <1>1, <1>3
  <2> QED BY <1>2, <2>1 DEF KeptInv
<1>4. CASE saved
  <2>1. KeysIn(log) \subseteq KeysIn(log')
    BY <1>1, <1>4
  <2>2. Grows(World, World')
    BY <1>1, <2>1, WorldNext
  <2> QED BY <1>1, <1>2, <2>2, KeptStep
<1> QED BY <1>3, <1>4

\* There is no run yet.
LEMMA InitKept == Init => KeptInv
<1> SUFFICES ASSUME Init PROVE KeptInv
  OBVIOUS
<1>1. saved = FALSE /\ \A c \in Calls : call[c] = Idle
  BY DEF Init
<1>2. \A c \in Calls : call[c].skip \subseteq KeysIn(log) /\ KeptFor(call[c], World)
  BY <1>1, IdleImporter DEF KeptFor
<1> QED BY <1>1, <1>2 DEF KeptInv

\* Every step keeps KeptInv.
LEMMA NextKept == TypeInv /\ TypeInv' /\ KeptInv /\ [Next]_vars => KeptInv'
<1> SUFFICES ASSUME TypeInv, TypeInv', KeptInv, [Next]_vars PROVE KeptInv'
  OBVIOUS
<1>1. CASE Next
  BY <1>1, StartKeeps, OpenKeeps, ReadKeeps, HalfKeeps, FinalizeKeeps, FlushKeeps, SaveKeeps,
     FailKeeps, WriteKeeps, RewriteKeeps, CrashKeeps DEF Next
<1>2. CASE UNCHANGED vars
  <2>1. UNCHANGED <<file, half, saved, mark, log, index, call, torn, lapses, version>>
    BY <1>2 DEF vars
  <2>2. KeysIn(log)' = KeysIn(log) /\ World' = World
    BY <2>1 DEF World, FileSize, KeysIn
  <2> QED BY <2>1, <2>2 DEF KeptInv
<1> QED BY <1>1, <1>2

\* The watermark never passes a line that is not in the log: import_session takes the size
\* of the file before it reads, sync_session saves the position it has reached.
THEOREM ImportLosesNoLine == Spec => []NoLineLost
<1>1. TypeInv /\ KeptInv => NoLineLost
  <2> SUFFICES ASSUME TypeInv, KeptInv, saved, mark.version = version, "rewritten" \notin lapses,
                      NEW i \in CompleteBefore(mark.offset)
               PROVE  Imported(file[i]) \/ file[i].id \in torn
    BY DEF NoLineLost
  <2>1. KeptTo(mark.offset, World)
    BY DEF KeptInv
  <2>2. i \in DOMAIN file /\ 2 * i <= mark.offset /\ mark.offset \in Nat /\ i \in Nat
    BY SizeOfFile, Types DEF CompleteBefore
  <2>3. 2 * i <= mark.offset + 1
    BY <2>2
  <2>4. file[i].id \in torn \/ \E kind \in {"message", "live"} : <<kind, file[i].id>> \in KeysIn(log)
    BY <2>1, <2>2, <2>3 DEF KeptTo, World
  <2> QED BY <2>4 DEF Imported, KeysIn
<1> QED BY <1>1, InitTypes, NextTypes, InitKept, NextKept, PTL DEF Spec

-----------------------------------------------------------------------------
(* Nothing is in the log twice *)

\* One thread moves, the only one that is busy.
LEMMA OnceMove ==
    ASSUME TypeInv, OnceInv, lapses \subseteq lapses', NEW c \in Calls, NEW i \in Importers,
           call' = [call EXCEPT ![c] = i],
           Clean' => (c \in Busy \/ Busy = {}),
           Clean' => AllApart(log'),
           Clean' => KeysIn(log') \subseteq index' \cup i.buffer,
           Clean' => \A n \in DOMAIN log' : Formed(log'[n], bound'.lines),
           Clean' /\ i.step = "reading" => \A n \in DOMAIN log' : IsPast(log'[n], i, file')
    PROVE  OnceInv'
<1> SUFFICES ASSUME Clean'
             PROVE  /\ \A d, e \in Busy' : d = e
                    /\ KeysIn(log') \subseteq index' \cup UNION {call'[d].buffer : d \in Calls}
                    /\ \A d \in Calls : call'[d].step = "reading" =>
                          \A n \in DOMAIN log' : IsPast(log'[n], call'[d], file')
  BY DEF OnceInv
<1>1. Clean
  BY DEF Clean
<1>2. \A d \in Busy : d = c
  BY <1>1 DEF OnceInv
<1>3. call'[c] = i /\ \A d \in Calls : d # c => call'[d] = Idle
  BY <1>2, Types, OneMoves
<1>4. \A d \in Busy' : d = c
  BY <1>3, IdleImporter DEF Busy
<1>5. KeysIn(log') \subseteq index' \cup UNION {call'[d].buffer : d \in Calls}
  BY <1>3
<1>6. ASSUME NEW d \in Calls, call'[d].step = "reading", NEW n \in DOMAIN log'
      PROVE  IsPast(log'[n], call'[d], file')
  BY <1>3, <1>6, IdleImporter
<1> QED BY <1>4, <1>5, <1>6

\* What the only busy thread sees.
LEMMA OnlyBusy ==
    ASSUME TypeInv, OnceInv, Clean, NEW c \in Busy
    PROVE  /\ c \in Calls /\ \A d \in Calls : d # c => call[d] = Idle
           /\ KeysIn(log) \subseteq index \cup call[c].buffer
<1>1. c \in Calls /\ \A d \in Calls : d # c => call[d] = Idle
  BY Types DEF OnceInv, Busy
<1>2. \A d \in Calls : call[d].buffer \subseteq call[c].buffer
  BY <1>1, IdleImporter
<1> QED BY <1>1, <1>2 DEF OnceInv

\* A thread that starts has recorded nothing; a second one is a lapse.
LEMMA StartOnce ==
    ASSUME TypeInv, TypeInv', OnceInv, NEW c \in Calls, StartImport(c) \/ StartSync(c)
    PROVE  OnceInv'
<1>1. CASE StartImport(c)
  <2> DEFINE i == [Idle EXCEPT !.step = "reading", !.offset = FileSize]
  <2>1. i \in Importers
    BY SizeOfFile, IdleImporter DEF Importers, Steps
  <2>2. call' = [call EXCEPT ![c] = i] /\ Busy = {} /\ log' = log /\ ~saved /\ lapses' = lapses
    BY <1>1 DEF StartImport, RunUnchanged
  <2>3. log' = <<>>
    BY <2>2 DEF TypeInv, ImportIsAlone
  <2>4. KeysIn(log') = {} /\ AllApart(log') /\ DOMAIN log' = {}
    BY <2>3 DEF KeysIn, AllApart
  <2> HIDE DEF i
  <2> QED BY <2>1, <2>2, <2>4, OnceMove
<1>2. CASE StartSync(c)
  <2> DEFINE i == [Idle EXCEPT !.step = "opening", !.offset = mark.offset,
                     !.mode = IF FileSize > mark.offset THEN "append" ELSE "reconcile"]
  <2>1. i \in Importers /\ i.step = "opening" /\ i.buffer = {}
    BY Types, IdleImporter DEF Importers, Steps, Modes
  <2>2. /\ call' = [call EXCEPT ![c] = i] /\ UNCHANGED <<log, index>> /\ lapses \subseteq lapses'
        /\ bound'.lines = bound.lines
        /\ Busy = {} \/ "twoSyncs" \in lapses'
    <3>1. bound' = [bound EXCEPT !.syncs = @ + 1]
      BY <1>2 DEF StartSync
    <3> QED BY <1>2, <3>1, Types DEF StartSync, RunUnchanged
  <2> HIDE DEF i
  <2>3. ASSUME Clean'
        PROVE  /\ Busy = {} /\ AllApart(log') /\ KeysIn(log') \subseteq index' \cup i.buffer
               /\ \A n \in DOMAIN log' : Formed(log'[n], bound'.lines)
    <3>1. Clean /\ Busy = {}
      BY <2>2, <2>3 DEF Clean
    <3>2. \A d \in Calls : call[d].buffer = {}
      BY <3>1, Types, IdleImporter
    <3>3. KeysIn(log) \subseteq index
      BY <3>1, <3>2 DEF OnceInv
    <3> QED BY <2>2, <3>1, <3>3 DEF OnceInv
  <2> QED BY <2>1, <2>2, <2>3, OnceMove
<1> QED BY <1>1, <1>2

\* A sync that opens the file has all keys and all turns.
LEMMA OpenOnce ==
    ASSUME TypeInv, TypeInv', OnceInv, NEW c \in Calls, Open(c)
    PROVE  OnceInv'
<1>1. PICK u \in Importers :
         /\ call' = [call EXCEPT ![c] = u]
         /\ u.step = "reading" /\ u.skip = index /\ u.known = UsageTurns /\ u.buffer = {}
  BY Opened
<1>2. c \in Busy /\ call[c].step = "opening" /\ UNCHANGED <<file, log, index, lapses, bound>>
  BY DEF Open, Busy, FileUnchanged, RunUnchanged
<1>3. ASSUME Clean'
      PROVE  /\ AllApart(log') /\ KeysIn(log') \subseteq index' \cup u.buffer
             /\ \A n \in DOMAIN log' : Formed(log'[n], bound'.lines) /\ IsPast(log'[n], u, file')
  <2>1. Clean
    BY <1>2, <1>3 DEF Clean
  <2>2. call[c].buffer = {}
    BY <1>2, Types DEF StepOfCall
  <2>3. KeysIn(log) \subseteq index
    BY <1>2, <2>1, <2>2, OnlyBusy
  <2>4. ASSUME NEW n \in DOMAIN log
        PROVE  IsPast(log[n], u, file)
    <3>1. log[n].key \in u.skip
      BY <1>1, <2>3 DEF KeysIn
    <3>2. Formed(log[n], bound.lines)
      BY <2>1 DEF OnceInv
    <3>3. log[n].turn = 0 \/ log[n].turn \in u.known
      BY <1>1, <3>2 DEF Formed, UsageTurns
    <3> QED BY <3>1, <3>3 DEF IsPast
  <2> QED BY <1>2, <2>1, <2>3, <2>4 DEF OnceInv
<1> QED BY <1>1, <1>2, <1>3, OnceMove

\* A step that records, if what is new is apart from all there is.
LEMMA RecordOnce ==
    ASSUME TypeInv, OnceInv, NEW c \in Calls, call[c].step = "reading",
           NEW i \in Importers, NEW a \in Optional, NEW b \in Optional,
           KeysIn(a) \subseteq Keys, KeysIn(b) \subseteq Keys, Record(c, i, a, b),
           UNCHANGED <<file, index, lapses, bound>>, i.buffer = call[c].buffer,
           Clean => \A e : (a = <<e>> \/ b = <<e>>) /\ e.key \notin i.skip =>
                       /\ Formed(e, bound.lines)
                       /\ \A n \in DOMAIN log : Apart(log[n], e)
                       /\ i.step = "reading" => IsPast(e, i, file),
           \A e, f : a = <<e>> /\ b = <<f>> => Apart(e, f),
           Clean /\ i.step = "reading" => \A n \in DOMAIN log : IsPast(log[n], i, file)
    PROVE  OnceInv'
<1>0. call \in [Calls -> Importers] /\ log \in Seq(Events)
  BY Types
<1>1. PICK K \in SUBSET Keys :
         /\ call' = [call EXCEPT ![c] = [i EXCEPT !.buffer = @ \cup K]]
         /\ [i EXCEPT !.buffer = @ \cup K] \in Importers
         /\ \A k : k \in KeysIn(log') <=> k \in KeysIn(log) \/ k \in K
  BY <1>0, Recorded
<1>2. \A n \in DOMAIN log' :
         \/ n \in DOMAIN log /\ log'[n] = log[n]
         \/ (a = <<log'[n]>> \/ b = <<log'[n]>>) /\ log'[n].key \notin i.skip
  BY <1>0, Recorded
<1>3. /\ AllApart(log)
      /\ \A n \in DOMAIN log : \A e :
            (a = <<e>> \/ b = <<e>>) /\ e.key \notin i.skip => Apart(log[n], e)
      /\ \A e, f : a = <<e>> /\ b = <<f>> => Apart(e, f)
      => AllApart(log')
  BY <1>0, Recorded
<1> DEFINE u == [i EXCEPT !.buffer = @ \cup K]
<1>4. /\ u \in Importers /\ call' = [call EXCEPT ![c] = u]
      /\ u.step = i.step /\ u.skip = i.skip /\ u.pos = i.pos /\ u.known = i.known
      /\ u.turn = i.turn /\ u.buffer = i.buffer \cup K
  BY <1>1 DEF Importers
<1> HIDE DEF u
<1>5. c \in Busy
  BY DEF Busy
<1>6. ASSUME Clean'
      PROVE  /\ AllApart(log') /\ KeysIn(log') \subseteq index' \cup u.buffer
             /\ \A n \in DOMAIN log' : Formed(log'[n], bound'.lines)
             /\ u.step = "reading" => \A n \in DOMAIN log' : IsPast(log'[n], u, file')
  <2>1. Clean
    BY <1>6 DEF Clean
  <2>2. AllApart(log) /\ \A n \in DOMAIN log : Formed(log[n], bound.lines)
    BY <2>1 DEF OnceInv
  <2>3. AllApart(log')
    BY <1>3, <2>1, <2>2
  <2>4. KeysIn(log') \subseteq index' \cup u.buffer
    BY <1>1, <1>4, <1>5, <2>1, OnlyBusy
  <2>5. \A n \in DOMAIN log' : Formed(log'[n], bound'.lines)
    BY <1>2, <2>1, <2>2
  <2>6. ASSUME u.step = "reading", NEW n \in DOMAIN log'
        PROVE  IsPast(log'[n], u, file')
    <3>1. IsPast(log'[n], i, file)
      BY <1>2, <1>4, <2>1, <2>6
    <3> QED BY <1>4, <3>1 DEF IsPast
  <2> QED BY <2>3, <2>4, <2>5, <2>6
<1> QED BY <1>4, <1>5, <1>6, OnceMove

\* A line ahead is behind no line that is read already.
LEMMA ReadOnce ==
    ASSUME TypeInv, TypeInv', OnceInv, NEW c \in Calls, ReadLine(c)
    PROVE  OnceInv'
<1> DEFINE old == call[c]
           p == old.pos
           n == NextLine(c)
           line == file[n]
<1>1. /\ call[c].step = "reading" /\ old \in Importers
      /\ UNCHANGED <<file, index, lapses, bound>>
  BY Types DEF ReadLine, Reading, FileUnchanged
<1>2. line \in Lines /\ n \in DOMAIN file /\ 2 * n = p + 2
  BY ReadOn
<1>3. PICK i \in Importers, a \in Optional :
         /\ Record(c, i, a, <<Message(line)>>)
         /\ i.skip = old.skip /\ i.known = old.known /\ i.buffer = old.buffer /\ i.pos = p + 2
         /\ i.turn = (IF line.prompt THEN old.turn + 1 ELSE old.turn)
         /\ KeysIn(a) \subseteq Keys
         /\ \A e : a = <<e>> =>
               /\ line.prompt /\ e.key = <<"usage", line.id>>
               /\ e.turn = old.turn /\ e.turn > 0 /\ e.turn \notin old.known
  BY ReadOn
<1> HIDE DEF old, p, n, line
<1>4. /\ p \in Nat /\ old.turn \in Nat /\ \A j \in DOMAIN file : j \in Nat
  <2>1. old.pos \in Nat /\ old.turn \in Nat
    BY <1>1 DEF Importers
  <2>2. DOMAIN file = 1..Len(file)
    BY SizeOfFile
  <2> QED BY <2>1, <2>2 DEF p
<1>5. /\ <<Message(line)>> \in Optional /\ KeysIn(<<Message(line)>>) \subseteq Keys
      /\ Message(line).key = <<"message", line.id>> /\ Message(line).turn = 0
      /\ \A e : <<Message(line)>> = <<e>> => e = Message(line)
  BY <1>2, MessageOptional
<1>6. /\ line.id <= bound.lines /\ line.id \in Nat
      /\ \A j \in DOMAIN file : n < j => line.id < file[j].id
  <2>1. line.id \in Nat
    BY <1>2 DEF Lines, Ids
  <2>2. line.id <= bound.lines
    BY <1>2 DEF TypeInv, FileIsNumbered, line
  <2>3. \A j \in DOMAIN file : n < j => line.id < file[j].id
    BY <1>2 DEF TypeInv, TypeOK, line
  <2> QED BY <2>1, <2>2, <2>3
\* What is new is of this line.
<1> DEFINE New(e) == a = <<e>> \/ <<Message(line)>> = <<e>>
<1>7. ASSUME NEW e, New(e)
      PROVE  /\ e.key = <<"usage", line.id>> \/ e.key = <<"message", line.id>>
             /\ e.key[2] = line.id /\ e.key[1] \in {"usage", "message"}
             /\ e.key[1] = "message" => e.turn = 0
             /\ e.turn = 0 \/ (e.turn = old.turn /\ e.turn > 0 /\ e.turn \notin old.known /\ line.prompt)
  <2>1. CASE a = <<e>>
    BY <1>3, <2>1
  <2>2. CASE <<Message(line)>> = <<e>>
    BY <1>5, <2>2
  <2> QED BY <1>7, <2>1, <2>2
<1>8. ASSUME NEW e, New(e), e.key \notin i.skip, Clean
      PROVE  /\ Formed(e, bound.lines)
             /\ \A m \in DOMAIN log : Apart(log[m], e)
             /\ IsPast(e, i, file)
  <2>1. Formed(e, bound.lines)
    BY <1>6, <1>7, <1>8 DEF Formed
  <2>2. ASSUME NEW m \in DOMAIN log
        PROVE  Apart(log[m], e)
    <3>1. IsPast(log[m], old, file)
      BY <1>1, <1>8 DEF OnceInv, old
    <3>2. log[m].key # e.key
      <4>1. CASE log[m].key \in old.skip
        BY <1>3, <1>8, <4>1
      <4>2. CASE \A j \in DOMAIN file : 2 * j > p => log[m].key[2] < file[j].id
        <5>1. 2 * n > p
          BY <1>2, <1>4
        <5>2. log[m].key[2] < line.id
          BY <1>2, <4>2, <5>1 DEF line
        <5> QED BY <1>6, <1>7, <1>8, <5>2
      <4> QED BY <3>1, <4>1, <4>2 DEF IsPast, p
    <3>3. log[m].turn = e.turn => log[m].turn = 0
      <4>1. log[m].turn = 0 \/ log[m].turn \in old.known \/ log[m].turn < old.turn
        BY <3>1 DEF IsPast
      <4>2. e.turn = 0 \/ (e.turn = old.turn /\ e.turn \notin old.known)
        BY <1>7, <1>8
      <4> QED BY <1>4, <4>1, <4>2
    <3> QED BY <3>2, <3>3 DEF Apart
  <2>3. IsPast(e, i, file)
    <3>1. e.key[1] # "finalize" /\ e.key[2] = line.id
      BY <1>7, <1>8
    <3>2. ASSUME NEW j \in DOMAIN file, 2 * j > p + 2
          PROVE  line.id < file[j].id
      <4>1. n < j
        <5>1. n \in Nat /\ j \in Nat
          BY <1>2, <1>4
        <5> QED BY <1>2, <1>4, <3>2, <5>1
      <4> QED BY <1>6, <4>1
    <3>3. e.turn = 0 \/ e.turn < i.turn
      BY <1>3, <1>4, <1>7, <1>8
    <3> QED BY <1>3, <3>1, <3>2, <3>3 DEF IsPast
  <2> QED BY <2>1, <2>2, <2>3
<1>9. ASSUME NEW e, NEW f, a = <<e>>, <<Message(line)>> = <<f>>
      PROVE  Apart(e, f)
  <2>1. e.key = <<"usage", line.id>> /\ e.turn = old.turn /\ e.turn > 0
    BY <1>3, <1>9
  <2>2. f.key = <<"message", line.id>> /\ f.turn = 0
    BY <1>5, <1>9
  <2>3. <<"usage", line.id>> # <<"message", line.id>>
    OBVIOUS
  <2>4. e.turn # 0
    BY <1>4, <2>1
  <2> QED BY <2>1, <2>2, <2>3, <2>4 DEF Apart
<1>10. ASSUME Clean, NEW m \in DOMAIN log
       PROVE  IsPast(log[m], i, file)
  <2>1. IsPast(log[m], old, file)
    BY <1>1, <1>10 DEF OnceInv, old
  <2>2. \A j \in DOMAIN file : 2 * j > p + 2 => 2 * j > p
    BY <1>4
  <2>3. log[m].turn < old.turn => log[m].turn < i.turn
    <3>1. log[m].turn \in Nat
      <4>1. log[m] \in Events
        BY Types
      <4> QED BY <4>1, Types DEF Events
    <3> QED BY <1>3, <1>4, <3>1
  <2> QED BY <1>3, <2>1, <2>2, <2>3 DEF IsPast, p
<1>11. i.buffer = call[c].buffer
  BY <1>3 DEF old
<1> QED BY <1>1, <1>3, <1>5, <1>8, <1>9, <1>10, <1>11, RecordOnce

\* The usage of the last turn is recorded once: its turn was not known.
LEMMA FinalizeOnce ==
    ASSUME TypeInv, TypeInv', OnceInv, NEW c \in Calls, Finalize(c)
    PROVE  OnceInv'
<1> DEFINE old == call[c]
<1>1. /\ call[c].step = "reading" /\ old \in Importers
      /\ UNCHANGED <<file, index, lapses, bound>>
  BY Types DEF Finalize, FileUnchanged
<1>2. PICK i \in Importers, a \in Optional :
         /\ Record(c, i, a, <<>>)
         /\ i.step = "flushing" /\ i.skip = old.skip /\ i.buffer = old.buffer
         /\ KeysIn(a) \subseteq Keys
         /\ \A e : a = <<e>> =>
               /\ e.key[1] = "finalize"
               /\ e.turn = old.turn /\ e.turn > 0 /\ e.turn \notin old.known
  BY FinalizeOn
<1> HIDE DEF old
<1>3. old.turn \in Nat
  BY <1>1 DEF Importers
<1>4. <<>> \in Optional /\ KeysIn(<<>>) \subseteq Keys /\ \A e : <<>> # <<e>>
  BY DEF Optional, KeysIn
<1>5. ASSUME NEW e, a = <<e>>, e.key \notin i.skip, Clean
      PROVE  /\ Formed(e, bound.lines)
             /\ \A m \in DOMAIN log : Apart(log[m], e)
  <2>1. Formed(e, bound.lines)
    BY <1>2, <1>5 DEF Formed
  <2>2. ASSUME NEW m \in DOMAIN log
        PROVE  Apart(log[m], e)
    <3>1. IsPast(log[m], old, file)
      BY <1>1, <1>5 DEF OnceInv, old
    <3>2. log[m].key # e.key
      <4>1. e.key \notin old.skip /\ e.key[1] = "finalize"
        BY <1>2, <1>5
      <4>2. log[m].key \in old.skip \/ log[m].key[1] # "finalize"
        BY <3>1 DEF IsPast
      <4> QED BY <4>1, <4>2
    <3>3. log[m].turn = e.turn => log[m].turn = 0
      <4>1. log[m].turn = 0 \/ log[m].turn \in old.known \/ log[m].turn < old.turn
        BY <3>1 DEF IsPast
      <4>2. e.turn = old.turn /\ e.turn \notin old.known
        BY <1>2, <1>5
      <4> QED BY <1>3, <4>1, <4>2
    <3> QED BY <3>2, <3>3 DEF Apart
  <2> QED BY <2>1, <2>2
<1>6. i.buffer = call[c].buffer /\ i.step # "reading"
  BY <1>2 DEF old
<1>7. Clean => \A e : (a = <<e>> \/ <<>> = <<e>>) /\ e.key \notin i.skip =>
                  /\ Formed(e, bound.lines)
                  /\ \A n \in DOMAIN log : Apart(log[n], e)
                  /\ i.step = "reading" => IsPast(e, i, file)
  BY <1>4, <1>5, <1>6
<1>8. \A e, f : a = <<e>> /\ <<>> = <<f>> => Apart(e, f)
  BY <1>4
<1> QED BY <1>1, <1>2, <1>4, <1>6, <1>7, <1>8, RecordOnce

\* Half a line adds nothing to the log.
LEMMA HalfOnce ==
    ASSUME TypeInv, TypeInv', OnceInv, NEW c \in Calls, ReadHalf(c)
    PROVE  OnceInv'
<1> DEFINE old == call[c]
           i == [old EXCEPT !.pos = @ + 1]
<1>1. /\ Reading(c) /\ old \in Importers /\ old.step = "reading" /\ call' = [call EXCEPT ![c] = i]
      /\ UNCHANGED <<file, log, index, lapses, bound>>
  BY Types DEF ReadHalf, Reading, FileUnchanged, RunUnchanged
<1>2. old.pos \in Nat /\ \A j \in DOMAIN file : j \in Nat
  BY <1>1, LineAt, SizeOfFile
<1>3. /\ i \in Importers /\ i.buffer = old.buffer /\ i.skip = old.skip
      /\ i.known = old.known /\ i.turn = old.turn /\ i.pos = old.pos + 1
  <2>1. call'[c] = i
    BY <1>1, Types
  <2>2. i \in Importers
    <3> HIDE DEF i
    <3>1. call' \in [Calls -> Importers]
      BY DEF TypeInv, TypeOK
    <3> QED BY <2>1, <3>1
  <2> QED BY <1>1, <2>2 DEF Importers
<1>4. c \in Busy
  BY <1>1 DEF Busy
<1> HIDE DEF i
<1>5. ASSUME Clean'
      PROVE  /\ AllApart(log') /\ KeysIn(log') \subseteq index' \cup i.buffer
             /\ \A n \in DOMAIN log' : Formed(log'[n], bound'.lines) /\ IsPast(log'[n], i, file')
  <2>1. Clean
    BY <1>1, <1>5 DEF Clean
  <2>2. KeysIn(log) \subseteq index \cup i.buffer
    BY <1>3, <1>4, <2>1, OnlyBusy
  <2>3. \A j \in DOMAIN file : 2 * j > i.pos => 2 * j > old.pos
    BY <1>2, <1>3
  <2>4. ASSUME NEW n \in DOMAIN log
        PROVE  IsPast(log[n], i, file)
    <3>1. IsPast(log[n], old, file)
      BY <1>1, <2>1 DEF OnceInv
    <3> HIDE DEF old
    <3> QED BY <1>3, <2>3, <3>1 DEF IsPast
  <2> QED BY <1>1, <2>1, <2>2, <2>4 DEF OnceInv
<1> QED BY <1>1, <1>3, <1>4, <1>5, OnceMove

\* The keys move from the buffer to the index.
LEMMA FlushOnce ==
    ASSUME TypeInv, TypeInv', OnceInv, NEW c \in Calls, Flush(c)
    PROVE  OnceInv'
<1>1. PICK i \in Importers :
         /\ call' = [call EXCEPT ![c] = i]
         /\ i.step = (IF call[c].step = "flushing" THEN "saving" ELSE "reading")
         /\ i.pos = call[c].pos /\ i.skip = call[c].skip /\ i.known = call[c].known
         /\ i.turn = call[c].turn /\ i.buffer = {}
  BY FlushTypes
<1>2. /\ UNCHANGED <<file, log, lapses, bound>> /\ index' = index \cup call[c].buffer
      /\ call[c].step \in {"reading", "flushing"}
  BY DEF Flush, FileUnchanged
<1>3. c \in Busy
  BY <1>2 DEF Busy
<1>4. ASSUME Clean'
      PROVE  /\ AllApart(log') /\ KeysIn(log') \subseteq index' \cup i.buffer
             /\ \A n \in DOMAIN log' : Formed(log'[n], bound'.lines)
             /\ i.step = "reading" => \A n \in DOMAIN log' : IsPast(log'[n], i, file')
  <2>1. Clean
    BY <1>2, <1>4 DEF Clean
  <2>2. KeysIn(log) \subseteq index'
    BY <1>2, <1>3, <2>1, OnlyBusy
  <2>3. ASSUME i.step = "reading", NEW n \in DOMAIN log
        PROVE  IsPast(log[n], i, file)
    <3>1. IsPast(log[n], call[c], file)
      BY <1>1, <1>2, <2>1, <2>3 DEF OnceInv
    <3> QED BY <1>1, <3>1 DEF IsPast
  <2> QED BY <1>2, <2>1, <2>2, <2>3 DEF OnceInv
<1> QED BY <1>1, <1>2, <1>3, <1>4, OnceMove

\* A thread is done: its keys are on disk, or an import's events are gone.
LEMMA DoneOnce ==
    ASSUME TypeInv, TypeInv', OnceInv, NEW c \in Calls, Save(c) \/ Fail(c)
    PROVE  OnceInv'
<1>1. /\ call' = [call EXCEPT ![c] = Idle] /\ UNCHANGED <<file, lapses, bound>> /\ c \in Busy
      /\ \/ log' = log /\ index' = index \cup call[c].buffer
         \/ log' = <<>> /\ index' = {}
  <2>1. CASE Save(c)
    <3>1. call[c].buffer = {}
      BY <2>1, Types DEF Save, StepOfCall
    <3> QED BY <2>1, <3>1 DEF Save, Busy, FileUnchanged
  <2>2. CASE Fail(c)
    BY <2>2 DEF Fail, Busy, FileUnchanged
  <2> QED BY <2>1, <2>2
<1>2. Idle \in Importers /\ Idle.step = "idle" /\ Idle.buffer = {}
  BY IdleImporter
<1>3. ASSUME Clean'
      PROVE  /\ AllApart(log') /\ KeysIn(log') \subseteq index' \cup Idle.buffer
             /\ \A n \in DOMAIN log' : Formed(log'[n], bound'.lines)
  <2>1. Clean
    BY <1>1, <1>3 DEF Clean
  <2>2. CASE log' = log /\ index' = index \cup call[c].buffer
    <3>1. KeysIn(log) \subseteq index'
      BY <1>1, <2>1, <2>2, OnlyBusy
    <3> QED BY <1>1, <2>1, <2>2, <3>1 DEF OnceInv
  <2>3. CASE log' = <<>> /\ index' = {}
    <3>1. DOMAIN log' = {}
      BY <2>3
    <3> QED BY <3>1 DEF AllApart, KeysIn
  <2> QED BY <1>1, <2>2, <2>3
<1>4. lapses \subseteq lapses' /\ Idle.step # "reading"
  BY <1>1, <1>2
<1> QED BY <1>1, <1>2, <1>3, <1>4, OnceMove

\* A step of the CLI: the lines it adds are behind all there are.
LEMMA FileOnce ==
    ASSUME TypeInv, TypeInv', OnceInv, UNCHANGED <<log, index, call>>, lapses \subseteq lapses',
           bound.lines <= bound'.lines, bound'.lines \in Nat,
           \A j \in DOMAIN file' :
              \/ file'[j].id > bound.lines
              \/ \E k \in DOMAIN file : k >= j /\ file'[j] = file[k]
    PROVE  OnceInv'
<1> SUFFICES ASSUME Clean' PROVE OnceInv'
  BY DEF OnceInv
<1>1. Clean
  BY DEF Clean
<1>2. bound.lines \in Nat /\ \A n \in DOMAIN log : log[n] \in Events
  BY Types
<1>3. DOMAIN file' = 1..Len(file') /\ DOMAIN file = 1..Len(file)
  <2>1. file' \in Seq(Lines) /\ file \in Seq(Lines)
    BY DEF TypeInv, TypeOK
  <2> QED BY <2>1
<1>4. ASSUME NEW n \in DOMAIN log
      PROVE  log[n].key[2] \in Nat
  BY <1>2, SessionImportAssumption DEF Events, Keys, Ids
<1>5. ASSUME NEW n \in DOMAIN log
      PROVE  Formed(log[n], bound'.lines)
  <2>1. Formed(log[n], bound.lines)
    BY <1>1 DEF OnceInv
  <2> QED BY <1>2, <1>4, <2>1 DEF Formed
<1>6. ASSUME NEW c \in Calls, call[c].step = "reading", NEW n \in DOMAIN log
      PROVE  IsPast(log[n], call[c], file')
  <2>1. IsPast(log[n], call[c], file) /\ Formed(log[n], bound.lines)
    BY <1>1, <1>6 DEF OnceInv
  <2>2. ASSUME log[n].key[1] # "finalize", NEW j \in DOMAIN file', 2 * j > call[c].pos,
               \A k \in DOMAIN file : 2 * k > call[c].pos => log[n].key[2] < file[k].id
        PROVE  log[n].key[2] < file'[j].id
    <3>1. j \in Nat /\ call[c].pos \in Nat /\ file'[j].id \in Nat
      <4>1. file'[j] \in Lines
        BY <1>3 DEF TypeInv, TypeOK
      <4>2. j \in Nat
        BY <1>3
      <4>3. file'[j].id \in Nat
        BY <4>1 DEF Lines, Ids
      <4> QED BY <4>2, <4>3, Positions
    <3>2. CASE file'[j].id > bound.lines
      <4>1. log[n].key[2] <= bound.lines
        BY <2>1, <2>2 DEF Formed
      <4> QED BY <1>2, <1>4, <3>1, <3>2, <4>1
    <3>3. ASSUME NEW k \in DOMAIN file, k >= j, file'[j] = file[k]
          PROVE  log[n].key[2] < file'[j].id
      <4>1. 2 * k > call[c].pos
        BY <1>3, <2>2, <3>1, <3>3
      <4> QED BY <2>2, <3>3, <4>1
    <3> QED BY <3>2, <3>3
  <2> QED BY <2>1, <2>2 DEF IsPast
<1>7. Busy' = Busy /\ AllApart(log') /\ KeysIn(log') = KeysIn(log)
  BY <1>1 DEF Busy, OnceInv
<1> QED BY <1>1, <1>5, <1>6, <1>7 DEF OnceInv

\* A line the CLI writes has a uuid of its own; a resumed session is a lapse.
LEMMA WriteOnce ==
    ASSUME TypeInv, TypeInv', OnceInv, WriteLine \/ EndLine \/ Rewrite \/ Chat
    PROVE  OnceInv'
<1>1. bound.lines \in Nat /\ file \in Seq(Lines) /\ DOMAIN file = 1..Len(file) /\ Len(file) \in Nat
  BY Types, SizeOfFile
<1>2. CASE WriteLine
  <2>1. PICK prompt \in BOOLEAN :
           file' = Append(file, [id |-> bound.lines + 1, prompt |-> prompt])
    BY <1>2 DEF WriteLine
  <2>2. bound' = [bound EXCEPT !.lines = @ + 1] /\ bound.lines < MaxLines
    BY <1>2 DEF WriteLine
  <2>3. bound'.lines = bound.lines + 1
    BY <2>2, Types
  <2> DEFINE line == [id |-> bound.lines + 1, prompt |-> prompt]
  <2>4. line.id = bound.lines + 1 /\ file' = Append(file, line)
    BY <2>1
  <2> HIDE DEF line
  <2>5. \A j \in DOMAIN file' : \/ file'[j].id > bound.lines
                                \/ \E k \in DOMAIN file : k >= j /\ file'[j] = file[k]
    <3>1. \A j \in DOMAIN file' : j = Len(file) + 1 \/ (j \in DOMAIN file /\ file'[j] = file[j])
      BY <1>1, <2>4
    <3>2. file'[Len(file) + 1] = line
      BY <1>1, <2>4
    <3>3. line.id > bound.lines
      BY <1>1, <2>4
    <3>4. \A j \in DOMAIN file : j >= j
      BY <1>1
    <3> QED BY <3>1, <3>2, <3>3, <3>4
  <2>6. UNCHANGED <<log, index, call>> /\ lapses \subseteq lapses'
    BY <1>2 DEF WriteLine, RunUnchanged
  <2>7. bound.lines <= bound'.lines /\ bound'.lines \in Nat
    BY <1>1, <2>3
  <2> QED BY <2>5, <2>6, <2>7, FileOnce
<1>3. CASE EndLine
  <2>1. UNCHANGED <<file, log, index, call, lapses, bound>>
    BY <1>3 DEF EndLine, RunUnchanged
  <2>2. bound.lines <= bound'.lines /\ bound'.lines \in Nat
    BY <1>1, <2>1
  <2>3. \A j \in DOMAIN file' : \E k \in DOMAIN file : k >= j /\ file'[j] = file[k]
    BY <1>1, <2>1
  <2> QED BY <2>1, <2>2, <2>3, FileOnce
<1>4. CASE Rewrite
  <2>1. PICK n \in 1..Len(file) - 1 : file' = SubSeq(file, n + 1, Len(file))
    BY <1>4 DEF Rewrite
  <2>2. \A j \in DOMAIN file' : \E k \in DOMAIN file : k >= j /\ file'[j] = file[k]
    <3>1. \A j \in DOMAIN file' : j + n \in DOMAIN file /\ file'[j] = file[j + n] /\ j + n >= j
      BY <1>1, <2>1
    <3> QED BY <3>1
  <2>3. UNCHANGED <<log, index, call>> /\ lapses \subseteq lapses' /\ bound'.lines = bound.lines
    BY <1>4, Types DEF Rewrite, RunUnchanged
  <2>4. bound.lines <= bound'.lines /\ bound'.lines \in Nat
    BY <1>1, <2>3
  <2> QED BY <2>2, <2>3, <2>4, FileOnce
<1>5. CASE Chat
  <2>1. ~Clean'
    BY <1>5 DEF Chat, Clean
  <2> QED BY <2>1 DEF OnceInv
<1> QED BY <1>2, <1>3, <1>4, <1>5

\* A death with keys in a buffer is a lapse; without any, the index has them all.
LEMMA CrashOnce ==
    ASSUME TypeInv, TypeInv', OnceInv, Crash
    PROVE  OnceInv'
<1>1. /\ call' = [c \in Calls |-> Idle] /\ lapses \subseteq lapses'
      /\ bound' = [bound EXCEPT !.faults = @ + 1]
      /\ (saved /\ log' = log /\ index' = index) \/ (log' = <<>> /\ index' = {})
      /\ saved /\ (\E c \in Calls : call[c].buffer # {}) => "crash" \in lapses'
  BY DEF Crash
<1>2. Busy' = {} /\ \A c \in Calls : call'[c].step # "reading"
  BY <1>1, IdleImporter DEF Busy
<1>3. bound'.lines = bound.lines
  BY <1>1, Types
<1>4. ASSUME Clean'
      PROVE  /\ AllApart(log') /\ KeysIn(log') \subseteq index'
             /\ \A n \in DOMAIN log' : Formed(log'[n], bound'.lines)
  <2>1. Clean
    BY <1>1, <1>4 DEF Clean
  <2>2. CASE saved /\ log' = log /\ index' = index
    <3>1. \A c \in Calls : call[c].buffer = {}
      BY <1>1, <1>4, <2>2 DEF Clean
    <3>2. KeysIn(log) \subseteq index
      BY <2>1, <3>1 DEF OnceInv
    <3> QED BY <1>3, <2>1, <2>2, <3>2 DEF OnceInv
  <2>3. CASE log' = <<>> /\ index' = {}
    <3>1. DOMAIN log' = {}
      BY <2>3
    <3> QED BY <3>1 DEF AllApart, KeysIn
  <2> QED BY <1>1, <2>2, <2>3
<1> QED BY <1>2, <1>4 DEF OnceInv

\* The log is empty.
LEMMA InitOnce == Init => OnceInv
<1> SUFFICES ASSUME Init PROVE OnceInv
  OBVIOUS
<1>1. log = <<>> /\ \A c \in Calls : call[c].step = "idle"
  BY IdleImporter DEF Init
<1>2. DOMAIN log = {} /\ Busy = {}
  BY <1>1 DEF Busy
<1> QED BY <1>1, <1>2 DEF OnceInv, AllApart, KeysIn

\* Every step keeps OnceInv.
LEMMA NextOnce == TypeInv /\ TypeInv' /\ OnceInv /\ [Next]_vars => OnceInv'
<1> SUFFICES ASSUME TypeInv, TypeInv', OnceInv, [Next]_vars PROVE OnceInv'
  OBVIOUS
<1>1. CASE Next
  BY <1>1, StartOnce, OpenOnce, ReadOnce, HalfOnce, FinalizeOnce, FlushOnce, DoneOnce,
     WriteOnce, CrashOnce DEF Next
<1>2. CASE UNCHANGED vars
  <2>1. UNCHANGED <<file, half, saved, mark, log, index, call, torn, lapses, version, bound>>
    BY <1>2 DEF vars
  <2>2. KeysIn(log)' = KeysIn(log) /\ Busy' = Busy /\ AllApart(log)' = AllApart(log) /\ Clean' = Clean
    BY <2>1 DEF Busy, Clean
  <2> QED BY <2>1, <2>2 DEF OnceInv
<1> QED BY <1>1, <1>2

\* No line and no turn's usage is in the log twice, whatever is read again: what a sync has
\* not in its skip set is of a line it has still to read, and what it knows of turns covers
\* those it has counted.
THEOREM ImportsOnce == Spec => []NothingTwice
<1>1. TypeInv /\ OnceInv => NothingTwice
  <2> SUFFICES ASSUME OnceInv, Clean, NEW m \in DOMAIN log, NEW n \in DOMAIN log, m # n
               PROVE  /\ log[m].key # log[n].key
                      /\ log[m].turn = log[n].turn => log[m].turn = 0
    BY DEF NothingTwice, Clean
  <2>1. Apart(log[m], log[n])
    BY DEF OnceInv, AllApart
  <2> QED BY <2>1 DEF Apart
<1> QED BY <1>1, InitTypes, NextTypes, InitOnce, NextOnce, PTL DEF Spec

-----------------------------------------------------------------------------
(* The usage of a turn *)

\* The number of prompts among the first lines: it grows by one at a prompt.
LEMMA TurnNumber ==
    ASSUME NEW f, NEW i \in Nat
    PROVE  /\ TurnIn(f, i) \in Nat /\ TurnIn(f, 0) = 0
           /\ TurnIn(f, i + 1) = TurnIn(f, i) + (IF f[i + 1].prompt THEN 1 ELSE 0)
<1> DEFINE P(k) == {j \in 1..k : f[j].prompt}
<1>1. \A k \in Nat : IsFiniteSet(P(k))
  <2> SUFFICES ASSUME NEW k \in Nat PROVE IsFiniteSet(P(k))
    OBVIOUS
  <2>1. IsFiniteSet(1..k)
    BY FS_Interval
  <2>2. P(k) \in SUBSET (1..k)
    OBVIOUS
  <2> HIDE DEF P
  <2> QED BY <2>1, <2>2, FS_Subset
<1>2. TurnIn(f, i) \in Nat
  <2>1. IsFiniteSet(P(i))
    BY <1>1
  <2> HIDE DEF P
  <2> QED BY <2>1, FS_CardinalityType DEF TurnIn, P
<1>3. TurnIn(f, 0) = 0
  <2>1. P(0) = {}
    OBVIOUS
  <2> QED BY <2>1, FS_EmptySet DEF TurnIn
<1>4. CASE f[i + 1].prompt
  <2>1. P(i + 1) = P(i) \cup {i + 1}
    BY <1>4
  <2>2. i + 1 \notin P(i)
    OBVIOUS
  <2>3. IsFiniteSet(P(i))
    BY <1>1
  <2> HIDE DEF P
  <2>4. Cardinality(P(i + 1)) = Cardinality(P(i)) + 1
    BY <2>1, <2>2, <2>3, FS_AddElement
  <2>5. TurnIn(f, i + 1) = Cardinality(P(i + 1)) /\ TurnIn(f, i) = Cardinality(P(i))
    BY DEF TurnIn, P
  <2> QED BY <1>2, <1>3, <1>4, <2>4, <2>5
<1>5. CASE ~f[i + 1].prompt
  <2>1. P(i + 1) = P(i)
    BY <1>5
  <2>2. TurnIn(f, i + 1) = Cardinality(P(i + 1)) /\ TurnIn(f, i) = Cardinality(P(i))
    BY DEF TurnIn
  <2> HIDE DEF P
  <2> QED BY <1>2, <1>3, <1>5, <2>1, <2>2
<1> QED BY <1>4, <1>5

\* There are no fewer turns in more lines.
LEMMA TurnsGrow ==
    ASSUME NEW f, NEW i \in Nat, NEW k \in Nat, i <= k
    PROVE  TurnIn(f, i) <= TurnIn(f, k)
<1> DEFINE P(n) == {j \in 1..n : f[j].prompt}
<1>1. P(i) \in SUBSET P(k)
  OBVIOUS
<1>2. IsFiniteSet(P(k))
  <2>1. IsFiniteSet(1..k)
    BY FS_Interval
  <2>2. P(k) \in SUBSET (1..k)
    OBVIOUS
  <2> HIDE DEF P
  <2> QED BY <2>1, <2>2, FS_Subset
<1>3. TurnIn(f, i) = Cardinality(P(i)) /\ TurnIn(f, k) = Cardinality(P(k))
  BY DEF TurnIn
<1> HIDE DEF P
<1> QED BY <1>1, <1>2, <1>3, FS_Subset

\* A turn has one last answer, and its other lines are before it.
LEMMA OneLastAnswer ==
    ASSUME NEW f, NEW i \in Nat, LastAnswer(f, i), NEW k \in Nat, TurnIn(f, k) = TurnIn(f, i)
    PROVE  k <= i /\ (LastAnswer(f, k) => k = i)
<1>1. TurnIn(f, i + 1) = TurnIn(f, i) + 1 /\ TurnIn(f, i) \in Nat
  BY TurnNumber DEF LastAnswer
<1>2. k <= i
  <2>1. ASSUME i + 1 <= k PROVE FALSE
    <3>1. TurnIn(f, i + 1) <= TurnIn(f, k)
      BY <2>1, TurnsGrow
    <3> QED BY <1>1, <3>1
  <2> QED BY <2>1
<1>3. ASSUME LastAnswer(f, k) PROVE i <= k
  <2>1. TurnIn(f, k + 1) = TurnIn(f, k) + 1 /\ TurnIn(f, k) \in Nat
    BY <1>3, TurnNumber DEF LastAnswer
  <2>2. ASSUME k + 1 <= i PROVE FALSE
    <3>1. TurnIn(f, k + 1) <= TurnIn(f, i)
      BY <2>2, TurnsGrow
    <3> QED BY <2>1, <3>1
  <2> QED BY <2>2
<1> QED BY <1>2, <1>3

\* What is recorded stays so when the log grows.
LEMMA UsageStays ==
    ASSUME NEW s, NEW t, TurnsIn(s) \subseteq TurnsIn(t), NEW f
    PROVE  /\ \A p : EndedBefore(p, f, s) => EndedBefore(p, f, t)
           /\ \A i : UsageFor(i, f, s) => UsageFor(i, f, t)
<1>1. \A p : EndedBefore(p, f, s) => EndedBefore(p, f, t)
  BY DEF EndedBefore
<1> QED BY <1>1 DEF UsageFor

\* One thread moves, and leaves the file alone.
LEMMA UsageMove ==
    ASSUME TypeInv, UsageInv, torn \subseteq torn', lapses \subseteq lapses',
           file' = file, version' = version,
           NEW c \in Calls, NEW i \in Importers, call' = [call EXCEPT ![c] = i],
           TurnsIn(log) \subseteq TurnsIn(log'),
           Straight' => \A n \in DOMAIN log' : OfTurn(log'[n], file),
           (saved' = saved /\ mark' = mark) \/ (Straight' => EndedBefore(mark'.offset, file, log')),
           Straight' => UsageFor(i, file, log')
    PROVE  UsageInv'
<1> SUFFICES ASSUME Straight'
             PROVE  /\ saved' => EndedBefore(mark'.offset, file', log')
                    /\ \A d \in Calls : UsageFor(call'[d], file', log')
  BY DEF UsageInv
<1>1. Straight
  BY DEF Straight
<1>2. saved' => EndedBefore(mark'.offset, file', log')
  BY <1>1, UsageStays DEF UsageInv
<1>3. call'[c] = i /\ \A d \in Calls : d # c => call'[d] = call[d]
  BY Types, OneMoves
<1>4. \A d \in Calls : UsageFor(call[d], file, log')
  BY <1>1, UsageStays DEF UsageInv
<1> QED BY <1>2, <1>3, <1>4

\* A step that records.
LEMMA RecordTurns ==
    ASSUME TypeInv, NEW c \in Calls, NEW i \in Importers, NEW a \in Optional, NEW b \in Optional,
           KeysIn(a) \subseteq Keys, KeysIn(b) \subseteq Keys, Record(c, i, a, b)
    PROVE  /\ TurnsIn(log) \subseteq TurnsIn(log')
           /\ \A n \in DOMAIN log' : \/ n \in DOMAIN log /\ log'[n] = log[n]
                                     \/ a = <<log'[n]>> \/ b = <<log'[n]>>
           /\ \A e : a = <<e>> \/ b = <<e>> => e.key \in i.skip \/ e.turn \in TurnsIn(log')
           /\ \E u \in Importers :
                 /\ call' = [call EXCEPT ![c] = u]
                 /\ u.step = i.step /\ u.mode = i.mode /\ u.offset = i.offset /\ u.pos = i.pos
                 /\ u.known = i.known /\ u.turn = i.turn /\ u.usage = i.usage
<1>0. call \in [Calls -> Importers] /\ log \in Seq(Events)
  BY Types
<1>1. PICK K \in SUBSET Keys :
         /\ call' = [call EXCEPT ![c] = [i EXCEPT !.buffer = @ \cup K]]
         /\ [i EXCEPT !.buffer = @ \cup K] \in Importers
         /\ \A k : k \in KeysIn(log') <=> k \in KeysIn(log) \/ k \in K
  BY <1>0, Recorded
<1>2. \A e : a = <<e>> \/ b = <<e>> => e.key \in i.skip \/ \E n \in DOMAIN log' : log'[n] = e
  BY <1>0, Recorded
<1>3. \A n \in DOMAIN log' : \/ n \in DOMAIN log /\ log'[n] = log[n]
                             \/ a = <<log'[n]>> \/ b = <<log'[n]>>
  BY <1>0, Recorded
<1>4. \A n \in DOMAIN log : n \in DOMAIN log' /\ log'[n] = log[n]
  BY <1>0, Recorded
<1>5. TurnsIn(log) \subseteq TurnsIn(log') /\ \A n \in DOMAIN log' : log'[n].turn \in TurnsIn(log')
  BY <1>4 DEF TurnsIn
<1> DEFINE u == [i EXCEPT !.buffer = @ \cup K]
<1>6. /\ u \in Importers /\ call' = [call EXCEPT ![c] = u]
      /\ u.step = i.step /\ u.mode = i.mode /\ u.offset = i.offset /\ u.pos = i.pos
      /\ u.known = i.known /\ u.turn = i.turn /\ u.usage = i.usage
  BY <1>1 DEF Importers
<1> HIDE DEF u
<1> QED BY <1>2, <1>3, <1>5, <1>6

\* A sync starts at the watermark, before which the turns have their usage.
LEMMA StartUsage ==
    ASSUME TypeInv, UsageInv, NEW c \in Calls, StartImport(c) \/ StartSync(c)
    PROVE  UsageInv'
<1>1. CASE StartImport(c)
  <2> DEFINE i == [Idle EXCEPT !.step = "reading", !.offset = FileSize]
  <2>1. /\ i \in Importers /\ i.step = "reading" /\ i.pos = 0 /\ i.known = {} /\ i.turn = 0
        /\ i.usage = 0
    BY SizeOfFile, IdleImporter DEF Importers, Steps
  <2>2. /\ call' = [call EXCEPT ![c] = i] /\ ~saved /\ Busy = {}
        /\ UNCHANGED <<file, version, saved, mark, log, torn, lapses>>
    BY <1>1 DEF StartImport, FileUnchanged, RunUnchanged
  <2> HIDE DEF i
  <2>3. log' = <<>>
    BY <2>2 DEF TypeInv, ImportIsAlone
  <2>4. Counts(i, file)
    <3>1. TurnIn(file, 0) = 0
      BY TurnNumber
    <3>2. i.pos \div 2 = 0
      BY <2>1
    <3> QED BY <2>1, <3>1, <3>2 DEF Counts
  <2>5. EndedBefore(0, file, log')
    BY Positions DEF EndedBefore
  <2>6. UsageFor(i, file, log')
    BY <2>1, <2>4, <2>5 DEF UsageFor
  <2>7. \A n \in DOMAIN log' : OfTurn(log'[n], file)
    BY <2>3
  <2>8. TurnsIn(log') = TurnsIn(log)
    BY <2>2
  <2> QED BY <2>1, <2>2, <2>6, <2>7, <2>8, UsageMove
<1>2. CASE StartSync(c)
  <2> DEFINE i == [Idle EXCEPT !.step = "opening", !.offset = mark.offset,
                     !.mode = IF FileSize > mark.offset THEN "append" ELSE "reconcile"]
  <2>1. i \in Importers /\ i.step = "opening" /\ i.offset = mark.offset /\ i.known = {}
    BY Types, IdleImporter DEF Importers, Steps, Modes
  <2>2. /\ call' = [call EXCEPT ![c] = i] /\ saved /\ lapses \subseteq lapses'
        /\ UNCHANGED <<file, version, saved, mark, log, torn>>
    BY <1>2 DEF StartSync, FileUnchanged, RunUnchanged
  <2> HIDE DEF i
  <2>3. ASSUME Straight'
        PROVE  UsageFor(i, file, log') /\ \A n \in DOMAIN log' : OfTurn(log'[n], file)
    <3>1. Straight
      BY <2>2, <2>3 DEF Straight
    <3> QED BY <2>1, <2>2, <3>1 DEF UsageInv, UsageFor
  <2>4. TurnsIn(log') = TurnsIn(log)
    BY <2>2
  <2> QED BY <2>1, <2>2, <2>3, <2>4, UsageMove
<1> QED BY <1>1, <1>2

\* The warm-up counts the prompts before the watermark and finds the last answer.
LEMMA OpenUsage ==
    ASSUME TypeInv, UsageInv, NEW c \in Calls, Open(c)
    PROVE  UsageInv'
<1>1. PICK u \in Importers :
         /\ call' = [call EXCEPT ![c] = u]
         /\ u.step = "reading" /\ u.mode = call[c].mode /\ u.mode # "import"
         /\ u.known = UsageTurns /\ Counts(u, file)
         /\ \/ u.pos = 0
            \/ /\ u.mode # "reconcile"
               /\ \A j \in DOMAIN file : 2 * j <= u.pos + 1 => 2 * j <= call[c].offset + 1
  BY Opened
<1>2. /\ call[c].step = "opening" /\ call[c].mode \in Modes
      /\ UNCHANGED <<file, version, saved, mark, log, torn, lapses>>
  BY Types DEF Open, FileUnchanged, RunUnchanged, Importers
<1>3. UsageTurns \subseteq TurnsIn(log)
  BY DEF UsageTurns, TurnsIn
<1>4. TurnsIn(log') = TurnsIn(log)
  BY <1>2
<1>5. ASSUME Straight'
      PROVE  UsageFor(u, file, log') /\ \A n \in DOMAIN log' : OfTurn(log'[n], file)
  <2>1. Straight
    BY <1>2, <1>5 DEF Straight
  <2>2. EndedBefore(u.pos, file, log)
    <3>1. CASE u.pos = 0
      BY <3>1, Positions DEF EndedBefore
    <3>2. CASE u.pos # 0
      <4>1. call[c].mode = "append"
        BY <1>1, <1>2, <3>2 DEF Modes
      <4>2. EndedBefore(call[c].offset, file, log)
        BY <1>2, <2>1, <4>1 DEF UsageInv, UsageFor
      <4>3. \A j \in DOMAIN file : LastAnswer(file, j) => j + 1 \in DOMAIN file
        BY DEF LastAnswer
      <4> QED BY <1>1, <3>2, <4>2, <4>3 DEF EndedBefore
    <3> QED BY <3>1, <3>2
  <2> QED BY <1>1, <1>2, <1>3, <2>1, <2>2 DEF UsageInv, UsageFor
<1> QED BY <1>1, <1>2, <1>4, <1>5, UsageMove

\* At a prompt the usage of the turn before it is recorded, unless it was already.
LEMMA ReadUsage ==
    ASSUME TypeInv, KeptInv, UsageInv, NEW c \in Calls, ReadLine(c)
    PROVE  UsageInv'
<1> DEFINE old == call[c]
           p == old.pos
           n == NextLine(c)
           line == file[n]
<1>1. /\ old.step = "reading" /\ old \in Importers /\ n = (p \div 2) + 1
      /\ UNCHANGED <<file, version, saved, mark, torn, lapses>>
  BY Types DEF ReadLine, Reading, FileUnchanged, NextLine
<1>2. line \in Lines /\ n \in DOMAIN file /\ 2 * n = p + 2
  BY ReadOn
<1>3. PICK i \in Importers, a \in Optional :
         /\ Record(c, i, a, <<Message(line)>>)
         /\ i.step = "reading" /\ i.skip = old.skip /\ i.known = old.known /\ i.pos = p + 2
         /\ i.turn = (IF line.prompt THEN old.turn + 1 ELSE old.turn)
         /\ i.usage = (IF line.prompt THEN 0 ELSE line.id)
         /\ KeysIn(a) \subseteq Keys
         /\ \A e : a = <<e>> =>
               /\ line.prompt /\ e.key = <<"usage", line.id>>
               /\ e.turn = old.turn /\ e.turn > 0 /\ e.turn \notin old.known
               /\ e.of = old.usage /\ e.of # 0
         /\ line.prompt /\ old.turn > 0 /\ old.usage # 0 /\ old.turn \notin old.known
               => \E e : a = <<e>>
  BY ReadOn
<1>4. p \in Nat /\ old.turn \in Nat /\ \A j \in DOMAIN file : j \in Nat /\ j > 0
  BY Positions
<1>5. \A j, k \in DOMAIN file : file[j].id = file[k].id => j = k
  <2>1. \A j \in DOMAIN file : file[j].id \in Nat
    <3>1. \A j \in DOMAIN file : file[j] \in Lines
      BY Types
    <3> QED BY <3>1 DEF Lines, Ids
  <2>2. \A j, k \in DOMAIN file : j < k => file[j].id < file[k].id
    BY DEF TypeInv, TypeOK
  <2> QED BY <1>4, <2>1, <2>2
<1>6. \A j \in DOMAIN file : file[j].id # 0
  <2>1. \A j \in DOMAIN file : file[j] \in Lines
    BY Types
  <2> QED BY <2>1 DEF Lines, Ids
<1> HIDE DEF line, n, p, old
<1>7. n - 1 \in Nat /\ (n - 1) + 1 = n /\ p \div 2 = n - 1 /\ (p + 2) \div 2 = n
      /\ (n - 1 # 0 => n - 1 \in DOMAIN file)
  <2>1. DOMAIN file = 1..Len(file) /\ Len(file) \in Nat
    BY SizeOfFile
  <2> QED BY <1>1, <1>2, <1>4, <2>1
<1>8. /\ <<Message(line)>> \in Optional /\ KeysIn(<<Message(line)>>) \subseteq Keys
      /\ Message(line).key = <<"message", line.id>> /\ Message(line).turn = 0
      /\ \A e : <<Message(line)>> = <<e>> => e = Message(line)
  BY <1>2, MessageOptional
<1>9. /\ TurnsIn(log) \subseteq TurnsIn(log')
      /\ \A m \in DOMAIN log' : \/ m \in DOMAIN log /\ log'[m] = log[m]
                                \/ a = <<log'[m]>> \/ <<Message(line)>> = <<log'[m]>>
      /\ \A e : a = <<e>> => e.key \in i.skip \/ e.turn \in TurnsIn(log')
  BY <1>3, <1>8, RecordTurns
<1>10. PICK u \in Importers :
          /\ call' = [call EXCEPT ![c] = u]
          /\ u.step = i.step /\ u.pos = i.pos
          /\ u.known = i.known /\ u.turn = i.turn /\ u.usage = i.usage
  BY <1>3, <1>8, RecordTurns
<1>11. ASSUME Straight'
       PROVE  /\ UsageFor(u, file, log')
              /\ \A m \in DOMAIN log' : OfTurn(log'[m], file)
  <2>1. Straight
    BY <1>1, <1>11 DEF Straight
  <2>2. /\ \A m \in DOMAIN log : OfTurn(log[m], file)
        /\ UsageFor(old, file, log)
    BY <2>1 DEF UsageInv, old
  <2>3. /\ old.turn = TurnIn(file, n - 1)
        /\ old.usage = IF n - 1 = 0 \/ file[n - 1].prompt THEN 0 ELSE file[n - 1].id
    BY <1>1, <1>7, <2>2 DEF UsageFor, Counts, p
  <2>4. ASSUME NEW m \in DOMAIN log'
        PROVE  OfTurn(log'[m], file)
    <3>1. CASE m \in DOMAIN log /\ log'[m] = log[m]
      BY <2>2, <3>1
    <3>2. CASE a = <<log'[m]>>
      <4>1. /\ line.prompt /\ log'[m].key = <<"usage", line.id>>
            /\ log'[m].turn = old.turn /\ log'[m].turn > 0
            /\ log'[m].of = old.usage /\ log'[m].of # 0
        BY <1>3, <3>2
      <4>2. n - 1 # 0 /\ ~file[n - 1].prompt /\ log'[m].of = file[n - 1].id
        BY <2>3, <4>1
      <4>3. n - 1 \in DOMAIN file
        BY <1>7, <4>2
      <4>4. LastAnswer(file, n - 1)
        BY <1>2, <1>7, <2>3, <4>1, <4>2 DEF LastAnswer, line
      <4>5. log'[m].key[2] = file[(n - 1) + 1].id /\ log'[m].key[1] = "usage"
        BY <1>7, <4>1 DEF line
      <4> QED BY <2>3, <4>1, <4>2, <4>3, <4>4, <4>5 DEF OfTurn
    <3>3. CASE <<Message(line)>> = <<log'[m]>>
      <4>1. log'[m].key[1] = "message" /\ log'[m].turn = 0
        BY <1>8, <3>3
      <4> QED BY <4>1 DEF OfTurn
    <3> QED BY <1>9, <3>1, <3>2, <3>3
  <2>5. Counts(u, file)
    <3>1. TurnIn(file, n) = TurnIn(file, n - 1) + (IF line.prompt THEN 1 ELSE 0)
      BY <1>7, TurnNumber DEF line
    <3>2. u.pos \div 2 = n /\ n # 0
      BY <1>2, <1>3, <1>4, <1>7, <1>10
    <3>3. TurnIn(file, n - 1) \in Nat
      BY <1>4, <2>3
    <3>4. u.turn = TurnIn(file, n)
      BY <1>3, <1>10, <2>3, <3>1, <3>3
    <3> QED BY <1>3, <1>10, <3>2, <3>4 DEF Counts, line
  <2>6. EndedBefore(p + 2, file, log')
    <3> SUFFICES ASSUME NEW j \in DOMAIN file, LastAnswer(file, j), 2 * (j + 1) <= p + 2 + 1
                 PROVE  TurnIn(file, j) \in TurnsIn(log')
      BY DEF EndedBefore
    <3>1. j = n - 1 \/ 2 * (j + 1) <= p + 1
      <4>1. j \in Nat /\ n \in Nat
        BY <1>2, <1>4
      <4> QED BY <1>2, <1>4, <4>1
    <3>2. CASE 2 * (j + 1) <= p + 1
      <4>1. EndedBefore(p, file, log)
        BY <1>1, <2>2 DEF UsageFor, p
      <4> QED BY <1>9, <3>2, <4>1 DEF EndedBefore
    <3>3. CASE j = n - 1
      <4>1. line.prompt /\ ~file[n - 1].prompt /\ TurnIn(file, n - 1) > 0 /\ n - 1 # 0
        BY <1>4, <1>7, <3>3 DEF LastAnswer, line
      <4>2. old.turn > 0 /\ old.usage # 0
        BY <1>6, <1>7, <2>3, <4>1
      <4>3. CASE old.turn \in old.known
        BY <1>9, <2>2, <2>3, <3>3, <4>3 DEF UsageFor
      <4>4. CASE old.turn \notin old.known
        <5>1. PICK e : a = <<e>>
          BY <1>3, <4>1, <4>2, <4>4
        <5>2. e.key = <<"usage", line.id>> /\ e.turn = TurnIn(file, j)
          BY <1>3, <2>3, <3>3, <5>1
        <5>3. CASE e.turn \in TurnsIn(log')
          BY <5>2, <5>3
        <5>4. CASE e.key \in i.skip
          <6>1. e.key \in KeysIn(log)
            BY <1>3, <5>4 DEF KeptInv, old
          <6>2. PICK m \in DOMAIN log : log[m].key = e.key
            BY <6>1 DEF KeysIn
          <6>3. log[m].key[1] = "usage" /\ log[m].key[2] = line.id
            BY <5>2, <6>2
          <6>4. PICK k \in DOMAIN file : /\ LastAnswer(file, k) /\ log[m].key[2] = file[k + 1].id
                                         /\ log[m].turn = TurnIn(file, k)
            BY <2>2, <6>3 DEF OfTurn
          <6>5. k + 1 = n
            BY <1>2, <1>5, <6>3, <6>4 DEF LastAnswer, line
          <6>6. k = j
            BY <1>2, <1>4, <3>3, <6>5
          <6> QED BY <1>9, <6>4, <6>6 DEF TurnsIn
        <5> QED BY <1>9, <5>1, <5>3, <5>4
      <4> QED BY <4>3, <4>4
    <3> QED BY <3>1, <3>2, <3>3
  <2>7. u.known \subseteq TurnsIn(log')
    BY <1>3, <1>9, <1>10, <2>2 DEF UsageFor
  <2>8. UsageFor(u, file, log')
    BY <1>3, <1>10, <2>5, <2>6, <2>7 DEF UsageFor
  <2> QED BY <2>4, <2>8
<1>12. saved' = saved /\ mark' = mark /\ torn' = torn /\ lapses' = lapses /\ version' = version /\ file' = file
  BY <1>1
<1> QED BY <1>9, <1>10, <1>11, <1>12, UsageMove

\* The usage of the last turn is of its last answer so far.
LEMMA FinalizeUsage ==
    ASSUME TypeInv, KeptInv, UsageInv, NEW c \in Calls, Finalize(c)
    PROVE  UsageInv'
<1> DEFINE old == call[c]
           n == old.pos \div 2
<1>1. /\ old.step = "reading" /\ old \in Importers
      /\ UNCHANGED <<file, version, saved, mark, torn, lapses>>
  BY Types DEF Finalize, FileUnchanged
<1>2. PICK i \in Importers, a \in Optional :
         /\ Record(c, i, a, <<>>)
         /\ i.step = "flushing" /\ i.known = old.known /\ i.pos = old.pos
         /\ KeysIn(a) \subseteq Keys
         /\ \A e : a = <<e>> =>
               /\ e.key[1] = "finalize" /\ e.turn = old.turn /\ e.of = old.usage /\ e.of # 0
  BY FinalizeOn
<1>3. old.pos \in Nat /\ old.pos >= FileSize
  BY Positions DEF Finalize
<1> HIDE DEF old
<1>4. <<>> \in Optional /\ KeysIn(<<>>) \subseteq Keys /\ \A e : <<>> # <<e>>
  BY DEF Optional, KeysIn
<1>5. /\ TurnsIn(log) \subseteq TurnsIn(log')
      /\ \A m \in DOMAIN log' : (m \in DOMAIN log /\ log'[m] = log[m]) \/ a = <<log'[m]>>
  BY <1>2, <1>4, RecordTurns
<1>6. PICK u \in Importers :
         /\ call' = [call EXCEPT ![c] = u]
         /\ u.step = i.step /\ u.pos = i.pos /\ u.known = i.known
  BY <1>2, <1>4, RecordTurns
<1>7. ASSUME Straight'
      PROVE  /\ UsageFor(u, file, log')
             /\ \A m \in DOMAIN log' : OfTurn(log'[m], file)
  <2>1. Straight
    BY <1>1, <1>7 DEF Straight
  <2>2. /\ \A m \in DOMAIN log : OfTurn(log[m], file)
        /\ UsageFor(old, file, log)
    BY <2>1 DEF UsageInv, old
  <2>3. /\ old.turn = TurnIn(file, n)
        /\ old.usage = IF n = 0 \/ file[n].prompt THEN 0 ELSE file[n].id
    BY <1>1, <2>2 DEF UsageFor, Counts
  <2>4. ASSUME NEW m \in DOMAIN log', a = <<log'[m]>>
        PROVE  OfTurn(log'[m], file)
    <3>1. /\ log'[m].key[1] = "finalize" /\ log'[m].turn = old.turn
          /\ log'[m].of = old.usage /\ log'[m].of # 0
      BY <1>2, <2>4
    <3>2. n # 0 /\ log'[m].of = file[n].id /\ log'[m].turn = TurnIn(file, n)
      BY <2>3, <3>1
    <3>3. n \in DOMAIN file
      <4>1. /\ DOMAIN file = 1..Len(file) /\ Len(file) \in Nat
            /\ FileSize \in Nat
            /\ FileSize = 2 * Len(file) \/ FileSize = 2 * Len(file) - 1
        BY SizeOfFile, Types
      <4>2. old.pos <= FileSize
        <5>1. "rewritten" \notin lapses
          BY <2>1 DEF Straight
        <5>2. KeptFor(old, World)
          BY <5>1 DEF KeptInv, old
        <5> QED BY <1>1, <5>2 DEF KeptFor, KeptTo, World
      <4> QED BY <1>3, <3>2, <4>1, <4>2
    <3> QED BY <3>1, <3>2, <3>3 DEF OfTurn
  <2>5. EndedBefore(old.pos, file, log') /\ old.known \subseteq TurnsIn(log')
    BY <1>1, <1>5, <2>2, UsageStays DEF UsageFor
  <2>6. UsageFor(u, file, log')
    BY <1>2, <1>6, <2>5 DEF UsageFor
  <2> QED BY <1>5, <2>2, <2>4, <2>6
<1>8. saved' = saved /\ mark' = mark /\ torn' = torn /\ lapses' = lapses /\ version' = version /\ file' = file
  BY <1>1
<1> QED BY <1>5, <1>6, <1>7, <1>8, UsageMove

\* Keys are of no concern to the turns.
LEMMA FlushUsage ==
    ASSUME TypeInv, UsageInv, NEW c \in Calls, Flush(c)
    PROVE  UsageInv'
<1>1. PICK i \in Importers :
         /\ call' = [call EXCEPT ![c] = i]
         /\ i.step = (IF call[c].step = "flushing" THEN "saving" ELSE "reading")
         /\ i.pos = call[c].pos /\ i.known = call[c].known
         /\ i.turn = call[c].turn /\ i.usage = call[c].usage
  BY FlushTypes
<1>2. /\ UNCHANGED <<file, version, saved, mark, log, torn, lapses>>
      /\ call[c].step \in {"reading", "flushing"}
  BY DEF Flush, FileUnchanged
<1>3. ASSUME Straight'
      PROVE  UsageFor(i, file, log') /\ \A n \in DOMAIN log' : OfTurn(log'[n], file)
  <2>1. Straight
    BY <1>2, <1>3 DEF Straight
  <2>2. UsageFor(call[c], file, log)
    BY <2>1 DEF UsageInv
  <2>3. Counts(call[c], file) => Counts(i, file)
    BY <1>1 DEF Counts
  <2>4. UsageFor(i, file, log)
    BY <1>1, <1>2, <2>2, <2>3 DEF UsageFor
  <2> QED BY <1>2, <2>1, <2>4 DEF UsageInv
<1>4. TurnsIn(log') = TurnsIn(log)
  BY <1>2
<1> QED BY <1>1, <1>2, <1>3, <1>4, UsageMove

\* The new watermark is where the importer has counted to.
LEMMA SaveUsage ==
    ASSUME TypeInv, KeptInv, UsageInv, NEW c \in Calls, Save(c)
    PROVE  UsageInv'
<1>1. /\ call[c].step = "saving" /\ call' = [call EXCEPT ![c] = Idle]
      /\ mark'.offset = NewOffset(c)
      /\ UNCHANGED <<file, version, log, torn, lapses>>
  BY DEF Save, FileUnchanged
<1>2. ASSUME Straight'
      PROVE  /\ EndedBefore(mark'.offset, file, log')
             /\ \A n \in DOMAIN log' : OfTurn(log'[n], file)
  <2>1. Straight /\ "rewritten" \notin lapses
    BY <1>1, <1>2 DEF Straight
  <2>2. NewOffset(c) <= call[c].pos /\ NewOffset(c) \in Nat /\ call[c].pos \in Nat
    <3>1. call[c].pos \in Nat /\ call[c].offset \in Nat
      BY Positions
    <3>2. call[c].mode = "import" => call[c].offset <= call[c].pos
      BY <1>1, <2>1 DEF KeptInv, KeptFor
    <3> QED BY <3>1, <3>2 DEF NewOffset
  <2>3. EndedBefore(call[c].pos, file, log)
    BY <1>1, <2>1 DEF UsageInv, UsageFor
  <2>4. \A j \in DOMAIN file : j \in Nat
    BY Positions
  <2>5. \A j \in DOMAIN file : 2 * (j + 1) <= NewOffset(c) + 1 => 2 * (j + 1) <= call[c].pos + 1
    BY <2>2, <2>4
  <2>6. EndedBefore(NewOffset(c), file, log)
    BY <2>3, <2>5 DEF EndedBefore
  <2> QED BY <1>1, <2>1, <2>6 DEF UsageInv
<1>3. Idle \in Importers /\ \A f, s : UsageFor(Idle, f, s)
  BY IdleImporter DEF UsageFor
<1>4. TurnsIn(log') = TurnsIn(log)
  BY <1>1
<1>5. file' = file /\ version' = version /\ torn \subseteq torn' /\ lapses \subseteq lapses'
  BY <1>1
<1> QED BY <1>1, <1>2, <1>3, <1>4, <1>5, UsageMove

\* When all threads are idle and the log is empty, nothing is missing and nothing is there.
LEMMA FailUsage ==
    ASSUME TypeInv, UsageInv, NEW c \in Calls, Fail(c)
    PROVE  UsageInv'
<1>1. /\ c \in Busy /\ call' = [call EXCEPT ![c] = Idle]
      /\ UNCHANGED <<file, version, saved, mark, torn, lapses>>
  BY DEF Fail, FileUnchanged, Busy
<1>2. Idle \in Importers /\ \A f, s : UsageFor(Idle, f, s)
  BY IdleImporter DEF UsageFor
<1>3. CASE call[c].mode = "import"
  <2>1. ~saved /\ Busy = {c} /\ log' = <<>>
    BY <1>1, <1>3 DEF TypeInv, ImportIsAlone, Fail
  <2>2. \A d \in Calls : call'[d] = Idle
    <3>1. call'[c] = Idle /\ \A d \in Calls : d # c => call'[d] = call[d]
      BY <1>1, <1>2, Types, OneMoves
    <3>2. \A d \in Calls : d # c => call[d] = Idle
      BY <2>1, Types
    <3> QED BY <3>1, <3>2
  <2>3. ~saved' /\ DOMAIN log' = {}
    BY <1>1, <2>1
  <2> QED BY <1>2, <2>2, <2>3 DEF UsageInv
<1>4. CASE call[c].mode # "import"
  <2>1. log' = log
    BY <1>4 DEF Fail
  <2>2. ASSUME Straight'
        PROVE  \A n \in DOMAIN log' : OfTurn(log'[n], file)
    <3>1. Straight
      BY <1>1, <2>2 DEF Straight
    <3> QED BY <2>1, <3>1 DEF UsageInv
  <2>3. TurnsIn(log') = TurnsIn(log)
    BY <2>1
  <2>4. /\ file' = file /\ version' = version /\ torn \subseteq torn' /\ lapses \subseteq lapses'
        /\ saved' = saved /\ mark' = mark
    BY <1>1
  <2> QED BY <1>1, <1>2, <2>2, <2>3, <2>4, UsageMove
<1> QED BY <1>3, <1>4

\* A file that begins as f does has the turns of f.
LEMMA SameTurns ==
    ASSUME NEW f, NEW g, NEW k \in Nat, DOMAIN f = 1..k,
           \A j \in DOMAIN f : j \in DOMAIN g /\ g[j] = f[j]
    PROVE  /\ \A i \in DOMAIN f : TurnIn(g, i) = TurnIn(f, i)
           /\ TurnIn(g, 0) = TurnIn(f, 0)
           /\ \A i \in DOMAIN f : LastAnswer(f, i) => LastAnswer(g, i)
           /\ \A i \in DOMAIN f : i + 1 \in DOMAIN f => (LastAnswer(g, i) => LastAnswer(f, i))
<1>1. ASSUME NEW i \in 0..k
      PROVE  TurnIn(g, i) = TurnIn(f, i)
  <2>1. {j \in 1..i : g[j].prompt} = {j \in 1..i : f[j].prompt}
    <3>1. \A j \in 1..i : j \in DOMAIN f
      OBVIOUS
    <3> QED BY <3>1
  <2> QED BY <2>1 DEF TurnIn
<1>2. \A i \in DOMAIN f : TurnIn(g, i) = TurnIn(f, i)
  BY <1>1
<1> QED BY <1>1, <1>2 DEF LastAnswer

\* A line behind the others changes the turn of none of them.
LEMMA WriteUsage ==
    ASSUME TypeInv, TypeInv', KeptInv, UsageInv, WriteLine
    PROVE  UsageInv'
<1>1. UNCHANGED <<saved, mark, log, call, torn, lapses, version>> /\ ~half
  BY DEF WriteLine, RunUnchanged
<1>2. /\ DOMAIN file = 1..Len(file) /\ Len(file) \in Nat /\ FileSize = 2 * Len(file)
      /\ \A j \in DOMAIN file : j \in Nat
  BY <1>1, SizeOfFile, Positions
<1>3. /\ \A j \in DOMAIN file : j \in DOMAIN file' /\ file'[j] = file[j]
      /\ DOMAIN file' = 1..(Len(file) + 1)
  <2>1. PICK prompt \in BOOLEAN :
           file' = Append(file, [id |-> bound.lines + 1, prompt |-> prompt])
    BY DEF WriteLine
  <2> DEFINE line == [id |-> bound.lines + 1, prompt |-> prompt]
  <2>2. file' = Append(file, line) /\ file \in Seq(Lines)
    BY <2>1, Types
  <2> HIDE DEF line
  <2> QED BY <2>2
<1>4. /\ \A i \in DOMAIN file : TurnIn(file', i) = TurnIn(file, i)
      /\ \A i \in DOMAIN file : LastAnswer(file, i) => LastAnswer(file', i)
      /\ \A i \in DOMAIN file : i + 1 \in DOMAIN file => (LastAnswer(file', i) => LastAnswer(file, i))
      /\ TurnIn(file', 0) = TurnIn(file, 0)
  <2> DEFINE f == file
             g == file'
  <2>1. /\ Len(f) \in Nat /\ DOMAIN f = 1..Len(f)
        /\ \A j \in DOMAIN f : j \in DOMAIN g /\ g[j] = f[j]
    BY <1>2, <1>3
  <2> HIDE DEF f, g
  <2>2. /\ \A i \in DOMAIN f : TurnIn(g, i) = TurnIn(f, i)
        /\ \A i \in DOMAIN f : LastAnswer(f, i) => LastAnswer(g, i)
        /\ \A i \in DOMAIN f : i + 1 \in DOMAIN f => (LastAnswer(g, i) => LastAnswer(f, i))
        /\ TurnIn(g, 0) = TurnIn(f, 0)
    BY <2>1, SameTurns
  <2> QED BY <2>2 DEF f, g
<1>5. ASSUME NEW p \in Nat, p <= FileSize, EndedBefore(p, file, log)
      PROVE  EndedBefore(p, file', log)
  <2> SUFFICES ASSUME NEW i \in DOMAIN file', LastAnswer(file', i), 2 * (i + 1) <= p + 1
               PROVE  TurnIn(file', i) \in TurnsIn(log)
    BY DEF EndedBefore
  <2>1. i \in DOMAIN file /\ i + 1 \in DOMAIN file
    BY <1>2, <1>3, <1>5
  <2> QED BY <1>4, <1>5, <2>1 DEF EndedBefore
<1> SUFFICES ASSUME Straight'
             PROVE  /\ \A n \in DOMAIN log : OfTurn(log[n], file')
                    /\ saved => EndedBefore(mark.offset, file', log)
                    /\ \A c \in Calls : UsageFor(call[c], file', log)
  BY <1>1 DEF UsageInv
<1>6. Straight /\ "rewritten" \notin lapses
  BY <1>1 DEF Straight
<1>7. ASSUME NEW n \in DOMAIN log
      PROVE  OfTurn(log[n], file')
  <2>1. OfTurn(log[n], file)
    BY <1>6 DEF UsageInv
  <2>2. \A i \in DOMAIN file : LastAnswer(file, i) => file'[i + 1] = file[i + 1]
    BY <1>3 DEF LastAnswer
  <2> QED BY <1>3, <1>4, <2>1, <2>2 DEF OfTurn
<1>8. ASSUME saved
      PROVE  EndedBefore(mark.offset, file', log)
  <2>1. mark.version = version
    BY <1>6, Types DEF Straight
  <2>2. mark.offset \in Nat /\ mark.offset <= FileSize
    BY <1>6, <1>8, <2>1, Types DEF KeptInv, KeptTo, World
  <2> QED BY <1>5, <1>6, <1>8, <2>2 DEF UsageInv
<1>9. ASSUME NEW c \in Calls
      PROVE  UsageFor(call[c], file', log)
  <2>1. UsageFor(call[c], file, log) /\ KeptFor(call[c], World)
    BY <1>6 DEF UsageInv, KeptInv
  <2>2. call[c].pos \in Nat /\ call[c].offset \in Nat
    BY Positions
  <2>3. ASSUME call[c].step = "opening", call[c].mode = "append"
        PROVE  EndedBefore(call[c].offset, file', log)
    <3>1. call[c].offset <= FileSize /\ EndedBefore(call[c].offset, file, log)
      BY <2>1, <2>3 DEF KeptFor, KeptTo, World, UsageFor
    <3> QED BY <1>5, <2>2, <3>1
  <2>4. ASSUME call[c].step \in {"reading", "flushing", "saving"}
        PROVE  call[c].pos <= FileSize /\ EndedBefore(call[c].pos, file', log)
    <3>1. call[c].pos <= FileSize /\ EndedBefore(call[c].pos, file, log)
      BY <2>1, <2>4 DEF KeptFor, KeptTo, World, UsageFor
    <3> QED BY <1>5, <2>2, <3>1
  <2>5. ASSUME call[c].step = "reading"
        PROVE  Counts(call[c], file')
    <3>1. Counts(call[c], file)
      BY <2>1, <2>5 DEF UsageFor
    <3> DEFINE n == call[c].pos \div 2
    <3>2. n = 0 \/ n \in DOMAIN file
      <4>1. call[c].pos <= FileSize
        BY <2>4, <2>5
      <4> QED BY <1>2, <2>2, <4>1
    <3>3. TurnIn(file', n) = TurnIn(file, n) /\ (n = 0 \/ file'[n] = file[n])
      BY <1>3, <1>4, <3>2
    <3> HIDE DEF n
    <3> QED BY <3>1, <3>3 DEF Counts, n
  <2> QED BY <2>1, <2>3, <2>4, <2>5 DEF UsageFor
<1> QED BY <1>7, <1>8, <1>9

\* The other steps of the environment end what is straight, or change nothing of it.
LEMMA OtherUsage ==
    ASSUME TypeInv, UsageInv, EndLine \/ Rewrite \/ Chat \/ Crash \/ (\E c \in Calls : ReadHalf(c))
    PROVE  UsageInv'
<1>1. CASE EndLine
  <2>1. UNCHANGED <<file, saved, mark, log, call, torn, lapses, version>>
    BY <1>1 DEF EndLine, RunUnchanged
  <2>2. Straight' => Straight
    BY <2>1 DEF Straight
  <2> QED BY <2>1, <2>2 DEF UsageInv
<1>2. CASE Rewrite \/ Chat \/ \E c \in Calls : ReadHalf(c)
  <2>1. ~Straight'
    <3>1. CASE Rewrite
      <4>1. version' = version + 1 /\ version \in Nat
        BY <3>1, Types DEF Rewrite
      <4> QED BY <4>1 DEF Straight
    <3>2. CASE Chat
      BY <3>2 DEF Chat, Straight
    <3>3. CASE \E c \in Calls : ReadHalf(c)
      BY <3>3 DEF ReadHalf, Straight
    <3> QED BY <1>2, <3>1, <3>2, <3>3
  <2> QED BY <2>1 DEF UsageInv
<1>3. CASE Crash
  <2>1. /\ call' = [c \in Calls |-> Idle] /\ lapses \subseteq lapses'
        /\ UNCHANGED <<file, saved, mark, torn, version>>
        /\ (saved /\ log' = log) \/ (~saved /\ log' = <<>>)
    BY <1>3 DEF Crash, FileUnchanged
  <2>2. Straight' => Straight
    BY <2>1 DEF Straight
  <2>3. \A c \in Calls : UsageFor(call'[c], file', log')
    BY <2>1, IdleImporter DEF UsageFor
  <2>4. CASE saved /\ log' = log
    BY <2>1, <2>2, <2>3, <2>4 DEF UsageInv
  <2>5. CASE ~saved /\ log' = <<>>
    BY <2>1, <2>3, <2>5 DEF UsageInv
  <2> QED BY <2>1, <2>4, <2>5
<1> QED BY <1>1, <1>2, <1>3

\* There are no turns yet.
LEMMA InitUsage == Init => UsageInv
<1> SUFFICES ASSUME Init PROVE UsageInv
  OBVIOUS
<1>1. log = <<>> /\ ~saved /\ \A c \in Calls : call[c] = Idle
  BY DEF Init
<1>2. \A c \in Calls : UsageFor(call[c], file, log)
  BY <1>1, IdleImporter DEF UsageFor
<1> QED BY <1>1, <1>2 DEF UsageInv

\* Every step keeps UsageInv.
LEMMA NextUsage == TypeInv /\ TypeInv' /\ KeptInv /\ UsageInv /\ [Next]_vars => UsageInv'
<1> SUFFICES ASSUME TypeInv, TypeInv', KeptInv, UsageInv, [Next]_vars PROVE UsageInv'
  OBVIOUS
<1>1. CASE Next
  BY <1>1, StartUsage, OpenUsage, ReadUsage, FinalizeUsage, FlushUsage, SaveUsage, FailUsage,
     WriteUsage, OtherUsage DEF Next
<1>2. CASE UNCHANGED vars
  <2>1. UNCHANGED <<file, saved, mark, log, call, torn, lapses, version>>
    BY <1>2 DEF vars
  <2>2. Straight' = Straight
    BY <2>1 DEF Straight
  <2> QED BY <2>1, <2>2 DEF UsageInv
<1> QED BY <1>1, <1>2

\* A turn that ended before the watermark has its usage, that of its last answer, unless a
\* sync ended in the middle of it: the warm-up gives a later sync the turn's number and its
\* last answer, and what it knows already is in the log.
THEOREM ImportUsageOfTurn == Spec => []UsageIsOfItsTurn
<1>1. TypeInv /\ UsageInv => UsageIsOfItsTurn
  <2> SUFFICES ASSUME TypeInv, UsageInv, saved, version = 0, torn = {}, lapses \subseteq {"crash"},
                      NEW i \in CompleteBefore(mark.offset),
                      i + 1 \in CompleteBefore(mark.offset), file[i + 1].prompt,
                      ~file[i].prompt, TurnOf(i) > 0
               PROVE  \E n \in DOMAIN log :
                         /\ log[n].turn = TurnOf(i)
                         /\ \/ log[n].of = file[i].id
                            \/ /\ log[n].key[1] = "finalize"
                               /\ \E j \in 1..i : log[n].of = file[j].id /\ TurnOf(j) = TurnOf(i)
    BY DEF UsageIsOfItsTurn
  <2>1. Straight /\ \A k : TurnOf(k) = TurnIn(file, k)
    BY DEF Straight, TurnOf, TurnIn
  <2>2. /\ i \in DOMAIN file /\ i + 1 \in DOMAIN file /\ 2 * (i + 1) <= mark.offset
        /\ mark.offset \in Nat /\ \A j \in DOMAIN file : j \in Nat /\ j > 0
    BY Positions, Types DEF CompleteBefore
  <2>3. LastAnswer(file, i)
    BY <2>1, <2>2 DEF LastAnswer
  <2>4. 2 * (i + 1) <= mark.offset + 1
    BY <2>2
  <2>5. TurnIn(file, i) \in TurnsIn(log)
    BY <2>1, <2>2, <2>3, <2>4 DEF UsageInv, EndedBefore
  <2>6. PICK n \in DOMAIN log : log[n].turn = TurnIn(file, i)
    BY <2>5 DEF TurnsIn
  <2>7. OfTurn(log[n], file) /\ TurnIn(file, i) # 0
    BY <2>1, <2>2, TurnNumber DEF UsageInv
  <2>8. CASE log[n].key[1] = "usage"
    <3>1. PICK k \in DOMAIN file : /\ LastAnswer(file, k)
                                   /\ log[n].turn = TurnIn(file, k) /\ log[n].of = file[k].id
      BY <2>7, <2>8 DEF OfTurn
    <3>2. k = i
      BY <2>2, <2>3, <2>6, <3>1, OneLastAnswer
    <3> QED BY <2>1, <2>6, <3>1, <3>2
  <2>9. CASE log[n].key[1] = "finalize"
    <3>1. PICK k \in DOMAIN file : log[n].of = file[k].id /\ log[n].turn = TurnIn(file, k)
      BY <2>7, <2>9 DEF OfTurn
    <3>2. k <= i
      BY <2>2, <2>3, <2>6, <3>1, OneLastAnswer
    <3>3. k \in 1..i
      BY <2>2, <3>1, <3>2
    <3> QED BY <2>1, <2>6, <2>9, <3>1, <3>3
  <2> QED BY <2>6, <2>7, <2>8, <2>9 DEF OfTurn
<1> QED BY <1>1, InitTypes, NextTypes, InitKept, NextKept, InitUsage, NextUsage, PTL DEF Spec
=============================================================================
