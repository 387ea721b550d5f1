------------------------ MODULE EventDeliveryProofs ------------------------
(***************************************************************************)
(* The log of a run and the way of its events to a browser: proofs that    *)
(* the log's numbers increase in file order, that list_bus_events reads    *)
(* them so, of the types of everything on the way, that an open view       *)
(* shows its events in order, once and without a gap while none of the     *)
(* lapses that the protocol does not repair has happened, and that the     *)
(* delivery so implements EventFeed.                                       *)
(*                                                                         *)
(* The view depends on everything between the file and the store.  The     *)
(* invariant, DeliveryInv, says what is on the way: that numbers travel in *)
(* order (OrderInv) and come from the file (NumbersInv), what the two      *)
(* tasks of a connection may do at a time (ModeInv), what the browser has  *)
(* asked for (LoadsInv, ClientInv), and that each kept event was taken in  *)
(* by the view, or need not be yet, and will be sent (Complete).           *)
(*                                                                         *)
(* For EventFeed, the record and what is shown of it are compared as sets: *)
(* increasing sequences are the same, or one a prefix of the other, by the *)
(* numbers they have (PrefixBySets).                                       *)
(***************************************************************************)
EXTENDS EventDelivery, Pipes, SequenceTheorems, FunctionTheorems, FiniteSetTheorems

\* What a line of the file is.
Lines == [seq : Nat, kind : {"kept", "live", "garbage"}]

\* The invariant of the log.
IInv == LogTypeOK /\ LogSeqsIncrease

\* Positions of f that parse.
Parse(f) == {i \in DOMAIN f : f[i].kind # "garbage"}

\* The readable numbers of f increase and are less than n.
Below(f, n) ==
    /\ \A i, j \in Parse(f) : i < j => f[i].seq < f[j].seq
    /\ \A i \in Parse(f) : f[i].seq < n

\* The reader's window that starts with the first line is the whole file.
LEMMA WholeFile ==
    ASSUME file \in Seq(Lines)
    PROVE  Readable(1) = Parse(file)
  BY DEF Readable, Parse

\* The numbers of readable lines are numbers.
LEMMA NumbersAreNat ==
    ASSUME NEW f \in Seq(Lines)
    PROVE  \A i \in Parse(f) : f[i].seq \in Nat
<1> TAKE i \in Parse(f)
<1>1. i \in 1..Len(f)
  BY LenProperties DEF Parse
<1>2. f[i] \in Lines
  BY <1>1, ElementOfSeq
<1> QED BY <1>2 DEF Lines

\* What AppendLine does with a line whose number is new, or that does not parse: the
\* file stays in order, below the line's own number plus one.
LEMMA AppendKeepsOrder ==
    ASSUME file \in Seq(Lines), torn \in BOOLEAN, NEW n \in Nat, Below(file, n),
           NEW line \in Lines, line.seq = n \/ line = Garbage
    PROVE  /\ AppendLine(line) \in Seq(Lines)
           /\ Below(AppendLine(line), n + 1)
<1> DEFINE g == AppendLine(line)
<1>1. CASE torn
  <2>1. g = [file EXCEPT ![Len(file)] = Garbage]
    BY <1>1 DEF AppendLine
  <2>2. Garbage \in Lines
    BY DEF Garbage, Lines
  <2>3. g \in Seq(Lines) /\ DOMAIN g = DOMAIN file
    <3>1. file \in [1..Len(file) -> Lines] /\ Len(file) \in Nat
      OBVIOUS
    <3> HIDE DEF g
    <3>2. g \in [1..Len(file) -> Lines]
      BY <2>1, <2>2, <3>1
    <3>3. g \in Seq(Lines)
      BY <3>1, <3>2, SeqDef
    <3> QED BY <3>1, <3>2, <3>3
  <2>4. \A i \in Parse(g) : i \in Parse(file) /\ g[i] = file[i]
    BY <2>1, <2>3 DEF Parse, Garbage
  <2> HIDE DEF g
  <2>5. Below(g, n + 1)
    <3>1. \A i \in Parse(g) : g[i].seq \in Nat /\ g[i].seq < n
      BY <2>3, <2>4, NumbersAreNat DEF Below
    <3>2. \A i, j \in Parse(g) : i < j => g[i].seq < g[j].seq
      BY <2>4 DEF Below
    <3> QED BY <3>1, <3>2 DEF Below
  <2> QED BY <2>3, <2>5 DEF g
<1>2. CASE ~torn
  <2>1. g = Append(file, line)
    BY <1>2 DEF AppendLine
  <2>2. g \in Seq(Lines) /\ DOMAIN g = 1..(Len(file) + 1)
    BY <2>1
  <2>3. g[Len(file) + 1] = line /\ \A i \in DOMAIN file : g[i] = file[i]
    BY <2>1
  <2>4. \A i \in Parse(g) : \/ i \in Parse(file) /\ g[i] = file[i] /\ i <= Len(file)
                            \/ i = Len(file) + 1 /\ line.kind # "garbage" /\ g[i] = line
    BY <2>2, <2>3 DEF Parse
  <2>5. line.kind # "garbage" => line.seq = n
    BY DEF Garbage
  <2> HIDE DEF g
  <2>6. \A i \in Parse(g) : g[i].seq \in Nat
    BY <2>2, NumbersAreNat
  <2>7. \A i \in Parse(g) : g[i].seq < n + 1
    BY <2>4, <2>5, <2>6 DEF Below
  <2>8. \A i, j \in Parse(g) : i < j => g[i].seq < g[j].seq
    <3> SUFFICES ASSUME NEW i \in Parse(g), NEW j \in Parse(g), i < j
                 PROVE  g[i].seq < g[j].seq
      OBVIOUS
    <3>1. i \in Parse(file) /\ g[i] = file[i]
      BY <2>2, <2>4 DEF Parse
    <3>2. CASE j \in Parse(file) /\ g[j] = file[j]
      BY <3>1, <3>2 DEF Below
    <3>3. CASE line.kind # "garbage" /\ g[j] = line
      BY <3>1, <3>3, <2>5 DEF Below
    <3> QED BY <2>4, <3>2, <3>3
  <2> QED BY <2>2, <2>7, <2>8 DEF Below, g
<1> QED BY <1>1, <1>2

\* In terms of the counter: the invariant says that the file is below it.
LEMMA OrderOfInv ==
    ASSUME IInv
    PROVE  /\ file \in Seq(Lines)
           /\ torn \in BOOLEAN
           /\ counter \in Nat
           /\ counter # 0 => Below(file, counter)
           /\ \A i, j \in Parse(file) : i < j => file[i].seq < file[j].seq
<1>1. file \in Seq(Lines) /\ torn \in BOOLEAN /\ counter \in Nat
  BY DEF IInv, LogTypeOK, Lines
<1>2. Readable(1) = Parse(file)
  BY <1>1, WholeFile
<1> QED BY <1>1, <1>2 DEF IInv, LogSeqsIncrease, Below

\* What Leftover may do to a file that is below the number of the failed line.
LEMMA LeftoverKeepsOrder ==
    ASSUME file \in Seq(Lines), torn \in BOOLEAN, tears \in Nat,
           NEW n \in Nat, Below(file, n),
           NEW kind \in {"kept", "live"}, Leftover([seq |-> n, kind |-> kind])
    PROVE  /\ file' \in Seq(Lines) /\ torn' \in BOOLEAN /\ tears' \in Nat
           /\ Below(file', n + 1)
<1> DEFINE line == [seq |-> n, kind |-> kind]
<1>1. line \in Lines /\ line.seq = n /\ Garbage \in Lines
  BY DEF Lines, Garbage
<1>2. Below(file, n + 1)
  <2>1. \A i \in Parse(file) : file[i].seq \in Nat
    BY NumbersAreNat
  <2> QED BY <2>1 DEF Below
<1>3. CASE UNCHANGED <<file, torn, tears>>
  BY <1>2, <1>3
<1>4. CASE tears' = tears + 1 /\ torn' = TRUE /\ file' = AppendLine(line)
  <2>1. AppendLine(line) \in Seq(Lines) /\ Below(AppendLine(line), n + 1)
    BY <1>1, AppendKeepsOrder
  <2> QED BY <1>4, <2>1
<1>5. CASE tears' = tears + 1 /\ torn' = TRUE /\ file' = AppendLine(Garbage)
  <2>1. AppendLine(Garbage) \in Seq(Lines) /\ Below(AppendLine(Garbage), n + 1)
    BY <1>1, AppendKeepsOrder
  <2> QED BY <1>5, <2>1
<1> QED BY <1>3, <1>4, <1>5 DEF Leftover

\* next_seq is ahead of the whole file although it looks at its end only.
LEMMA SeedIsAhead ==
    ASSUME file \in Seq(Lines),
           \A i, j \in Parse(file) : i < j => file[i].seq < file[j].seq,
           NEW n \in Nat, NEW w \in Nat, SeedsFrom(n, w)
    PROVE  n # 0 /\ Below(file, n)
<1>1. \A i \in Parse(file) : i \in Nat /\ file[i].seq \in Nat
  <2>1. DOMAIN file = 1..Len(file)
    BY LenProperties
  <2> QED BY <2>1, NumbersAreNat DEF Parse
<1>2. Readable(w) = {i \in Parse(file) : i >= w} /\ Readable(1) = Parse(file)
  BY DEF Readable, Parse
<1>3. CASE Readable(w) = {}
  <2>1. CASE Parse(file) = {}
    BY <1>2, <1>3, <2>1 DEF SeedsFrom, Below
  <2>2. CASE Parse(file) # {}
    <3>1. \E i \in Parse(file) : n = file[i].seq + 1
      BY <1>2, <1>3, <2>2 DEF SeedsFrom
    <3>2. \A i \in Parse(file) : file[i].seq < n
      BY <1>2, <1>3, <2>2 DEF SeedsFrom
    <3> QED BY <1>1, <3>1, <3>2 DEF Below
  <2> QED BY <2>1, <2>2
<1>4. CASE Readable(w) # {}
  <2>1. PICK i \in Readable(w) : n = file[i].seq + 1
    BY <1>4 DEF SeedsFrom
  <2>2. \A j \in Readable(w) : file[j].seq < n
    BY <1>4 DEF SeedsFrom
  <2>3. i \in Parse(file) /\ i >= w /\ n # 0
    BY <1>1, <1>2, <2>1
  <2>4. \A j \in Parse(file) : file[j].seq < n
    <3> SUFFICES ASSUME NEW j \in Parse(file)
                 PROVE  file[j].seq < n
      OBVIOUS
    <3>1. CASE j >= w
      BY <1>2, <2>2, <3>1
    <3>2. CASE j < w
      BY <1>1, <2>1, <2>3, <3>2
    <3> QED BY <1>1, <3>1, <3>2
  <2> QED BY <2>3, <2>4 DEF Below
<1> QED BY <1>3, <1>4

\* The invariant after a step, put together from the file, the counter and the emitters.
LEMMA InvFromOrder ==
    ASSUME LogTypeOK',
           \A i, j \in Parse(file') : i < j => file'[i].seq < file'[j].seq,
           counter' # 0 => Below(file', counter'),
           NobodyHolds' \/ counter' # 0
    PROVE  IInv'
<1>1. Readable(1)' = Parse(file')
  BY DEF LogTypeOK, Readable, Parse
<1> QED BY <1>1 DEF IInv, LogSeqsIncrease, Below

\* The empty log.
LEMMA InitIInv == LogInit => IInv
<1> SUFFICES ASSUME LogInit PROVE IInv
  OBVIOUS
<1>1. file = <<>> /\ DOMAIN file = {}
  BY DEF LogInit
<1>2. LogTypeOK
  <2>1. emitter \in [Emitters -> [pc : {"idle", "holding", "written"}, seq : Nat]]
    BY DEF LogInit, Idle
  <2>2. file \in Seq([seq : Nat, kind : {"kept", "live", "garbage"}])
    BY DEF LogInit
  <2> QED BY <2>1, <2>2 DEF LogInit, LogTypeOK
<1>3. Readable(1) = {}
  BY <1>1 DEF Readable
<1>4. NobodyHolds
  BY DEF LogInit, NobodyHolds, Idle
<1>5. counter = 0
  BY DEF LogInit
<1> QED BY <1>2, <1>3, <1>4, <1>5 DEF IInv, LogSeqsIncrease

\* Every operation of the writer keeps the invariant.
LEMMA NextIInv == IInv /\ [LogNext]_logVars => IInv'
<1> SUFFICES ASSUME IInv, [LogNext]_logVars PROVE IInv'
  OBVIOUS
<1>0. /\ file \in Seq(Lines) /\ torn \in BOOLEAN /\ counter \in Nat
      /\ emitter \in [Emitters -> [pc : {"idle", "holding", "written"}, seq : Nat]]
      /\ restarts \in Nat /\ tears \in Nat
  BY DEF IInv, LogTypeOK, Lines
<1>a. /\ counter # 0 => Below(file, counter)
      /\ \A i, j \in Parse(file) : i < j => file[i].seq < file[j].seq
  BY OrderOfInv
<1>b. ~NobodyHolds => counter # 0
  BY DEF IInv, LogSeqsIncrease
<1>c. \A e \in Emitters : emitter[e].pc = "holding" => ~NobodyHolds
  BY DEF NobodyHolds
<1>d. Idle \in [pc : {"idle", "holding", "written"}, seq : Nat]
  BY DEF Idle
<1>1. ASSUME NEW e \in Emitters, GetWriter(e) PROVE IInv'
  <2>1. counter' \in Nat /\ counter' # 0 /\ Below(file, counter')
    <3>1. CASE counter # 0
      BY <1>0, <1>a, <1>1, <3>1 DEF GetWriter
    <3>2. CASE counter = 0
      <4>1. PICK n \in 1..(MaxSeq + 1), w \in 1..(Len(file) + 1) :
                SeedsFrom(n, w) /\ counter' = n
        BY <1>1, <3>2 DEF GetWriter
      <4>2. n \in Nat /\ w \in Nat
        BY <1>0, LogAssumption
      <4> QED BY <1>0, <1>a, <4>1, <4>2, SeedIsAhead
    <3> QED BY <3>1, <3>2
  <2>2. emitter' \in [Emitters -> [pc : {"idle", "holding", "written"}, seq : Nat]]
    BY <1>0, <1>1 DEF GetWriter
  <2>3. UNCHANGED <<file, torn, restarts, tears>>
    BY <1>1 DEF GetWriter
  <2>4. LogTypeOK'
    BY <1>0, <2>1, <2>2, <2>3 DEF LogTypeOK, Lines
  <2> QED BY <1>a, <2>1, <2>3, <2>4, InvFromOrder
<1>2. ASSUME NEW e \in Emitters, NEW kind \in Kinds, Write(e, kind) PROVE IInv'
  <2> DEFINE line == [seq |-> counter, kind |-> kind]
  <2>1. line \in Lines /\ line.seq = counter
    BY <1>0, LogAssumption DEF Lines
  <2>2. counter # 0 /\ Below(file, counter)
    BY <1>2, <1>a, <1>b, <1>c DEF Write
  <2>3. AppendLine(line) \in Seq(Lines) /\ Below(AppendLine(line), counter + 1)
    BY <1>0, <2>1, <2>2, AppendKeepsOrder
  <2>4. /\ file' = AppendLine(line) /\ counter' = counter + 1 /\ torn' = FALSE
        /\ UNCHANGED <<restarts, tears>>
        /\ emitter' = [emitter EXCEPT ![e] = [pc |-> "written", seq |-> counter]]
    BY <1>2 DEF Write
  <2> HIDE DEF line
  <2>5. emitter' \in [Emitters -> [pc : {"idle", "holding", "written"}, seq : Nat]]
    BY <1>0, <2>4
  <2>6. LogTypeOK'
    <3>1. counter' \in Nat
      BY <1>0, <2>2, <2>4
    <3>2. file' \in Seq([seq : Nat, kind : {"kept", "live", "garbage"}])
      BY <2>3, <2>4 DEF Lines
    <3> QED BY <1>0, <2>4, <2>5, <3>1, <3>2 DEF LogTypeOK
  <2>7. counter' # 0 /\ Below(file', counter')
    BY <1>0, <2>3, <2>4
  <2> QED BY <2>6, <2>7, InvFromOrder DEF Below
<1>3. ASSUME NEW e \in Emitters, WriteFails(e) PROVE IInv'
  <2>1. counter # 0 /\ Below(file, counter)
    BY <1>3, <1>a, <1>b, <1>c DEF WriteFails
  <2>2. PICK kind \in Kinds : Leftover([seq |-> counter, kind |-> kind])
    BY <1>3 DEF WriteFails
  <2>3. kind \in {"kept", "live"}
    BY LogAssumption
  <2>4. /\ file' \in Seq(Lines) /\ torn' \in BOOLEAN /\ tears' \in Nat
        /\ Below(file', counter + 1)
    BY <1>0, <2>1, <2>2, <2>3, LeftoverKeepsOrder
  <2>5. counter' = counter + 1 /\ UNCHANGED restarts
        /\ emitter' = [emitter EXCEPT ![e] = Idle]
    BY <1>3 DEF WriteFails
  <2>6. emitter' \in [Emitters -> [pc : {"idle", "holding", "written"}, seq : Nat]]
    BY <1>0, <1>d, <2>5
  <2>7. LogTypeOK'
    BY <1>0, <2>4, <2>5, <2>6 DEF LogTypeOK, Lines
  <2>8. counter' # 0 /\ Below(file', counter')
    BY <1>0, <2>4, <2>5
  <2> QED BY <2>7, <2>8, InvFromOrder DEF Below
<1>4. ASSUME NEW e \in Emitters, Finish(e) PROVE IInv'
  <2>1. UNCHANGED <<file, torn, counter, restarts, tears>>
        /\ emitter' = [emitter EXCEPT ![e] = Idle]
    BY <1>4 DEF Finish
  <2>2. emitter' \in [Emitters -> [pc : {"idle", "holding", "written"}, seq : Nat]]
    BY <1>0, <1>d, <2>1
  <2>3. LogTypeOK'
    BY <1>0, <2>1, <2>2 DEF LogTypeOK, Lines
  <2>4. NobodyHolds => NobodyHolds'
    BY <1>0, <2>1 DEF NobodyHolds, Idle
  <2> QED BY <1>a, <1>b, <2>1, <2>3, <2>4, InvFromOrder
<1>5. CASE CollectWriters
  <2>1. /\ UNCHANGED <<file, torn, emitter, restarts, tears>>
        /\ counter' = 0 /\ NobodyHolds
    BY <1>5 DEF CollectWriters
  <2>2. LogTypeOK'
    BY <1>0, <2>1 DEF LogTypeOK, Lines
  <2>3. NobodyHolds'
    BY <2>1 DEF NobodyHolds
  <2> QED BY <1>a, <2>1, <2>2, <2>3, InvFromOrder
<1>6. CASE Restart
  <2>1. /\ counter' = 0 /\ restarts' = restarts + 1
        /\ emitter' = [e \in Emitters |-> Idle]
    BY <1>6 DEF Restart
  <2>2. /\ file' \in Seq(Lines) /\ torn' \in BOOLEAN /\ tears' \in Nat
        /\ \A i, j \in Parse(file') : i < j => file'[i].seq < file'[j].seq
    <3>1. CASE UNCHANGED <<file, torn, tears>>
      BY <1>0, <1>a, <3>1
    <3>2. CASE ~NobodyHolds /\ \E kind \in Kinds : Leftover([seq |-> counter, kind |-> kind])
      <4>1. PICK kind \in Kinds : Leftover([seq |-> counter, kind |-> kind])
        BY <3>2
      <4>2. kind \in {"kept", "live"}
        BY LogAssumption
      <4>3. Below(file, counter)
        BY <1>a, <1>b, <3>2
      <4>4. /\ file' \in Seq(Lines) /\ torn' \in BOOLEAN /\ tears' \in Nat
            /\ Below(file', counter + 1)
        BY <1>0, <4>1, <4>2, <4>3, LeftoverKeepsOrder
      <4> QED BY <4>4 DEF Below
    <3> QED BY <1>6, <3>1, <3>2 DEF Restart
  <2>3. emitter' \in [Emitters -> [pc : {"idle", "holding", "written"}, seq : Nat]]
    BY <1>d, <2>1
  <2>4. LogTypeOK'
    BY <1>0, <2>1, <2>2, <2>3 DEF LogTypeOK, Lines
  <2>5. NobodyHolds'
    BY <2>1 DEF NobodyHolds, Idle
  <2> QED BY <2>1, <2>2, <2>4, <2>5, InvFromOrder
<1>7. CASE UNCHANGED logVars
  <2>1. UNCHANGED <<file, torn, counter, emitter, restarts, tears>>
    BY <1>7 DEF logVars
  <2>2. LogTypeOK'
    BY <1>0, <2>1 DEF LogTypeOK, Lines
  <2>3. NobodyHolds => NobodyHolds'
    BY <2>1 DEF NobodyHolds
  <2> QED BY <1>a, <1>b, <2>1, <2>2, <2>3, InvFromOrder
<1> QED BY <1>1, <1>2, <1>3, <1>4, <1>5, <1>6, <1>7 DEF LogNext

\* The event log of a run is well formed in every reachable state, and its numbers
\* increase in file order for any number of emitters, restarts and torn lines, although
\* EventWriter forgets its counters and next_seq reads the end of the file only.
THEOREM LogIsOrdered == LogSpec => [](LogTypeOK /\ LogSeqsIncrease)
<1>1. IInv => LogTypeOK /\ LogSeqsIncrease
  BY DEF IInv
<1> QED BY <1>1, InitIInv, NextIInv, PTL DEF LogSpec
-----------------------------------------------------------------------------
(* Sequences, and the numbers a reader finds in the file *)

\* Each number is less than the next.
Increasing(s) == \A i, j \in DOMAIN s : i < j => s[i] < s[j]

\* In s the things of this kind have increasing numbers.
Ascending(s, kind) ==
    \A i, j \in DOMAIN s : i < j /\ s[i].kind = kind /\ s[j].kind = kind => s[i].seq < s[j].seq

\* What a sequence has.
LEMMA ElementAt ==
    ASSUME NEW S, NEW s \in Seq(S), NEW i \in DOMAIN s
    PROVE  i \in 1..Len(s) /\ Len(s) \in Nat /\ s[i] \in S
<1>1. i \in 1..Len(s) /\ Len(s) \in Nat
  BY LenProperties
<1>2. s[i] \in S
  BY <1>1, ElementOfSeq
<1> QED BY <1>1, <1>2

\* A number, or a thing with a number, is added to those that are less.
LEMMA IncreasingAppended ==
    ASSUME NEW S, NEW s \in Seq(S), NEW x \in S
    PROVE  /\ Increasing(s) /\ (\A y : In(s, y) => y < x) => Increasing(Append(s, x))
           /\ \A kind : /\ Ascending(s, kind)
                        /\ x.kind = kind => \A y : In(s, y) /\ y.kind = kind => y.seq < x.seq
                        => Ascending(Append(s, x), kind)
<1> DEFINE t == Append(s, x)
<1>1. /\ DOMAIN t = 1..(Len(s) + 1) /\ DOMAIN s = 1..Len(s) /\ Len(s) \in Nat
      /\ \A i \in DOMAIN s : t[i] = s[i]
      /\ t[Len(s) + 1] = x
  OBVIOUS
<1> HIDE DEF t
<1>2. /\ \A i : i \in DOMAIN t <=> i \in DOMAIN s \/ i = Len(s) + 1
      /\ \A i, j \in DOMAIN t : i < j => i \in DOMAIN s
  BY <1>1
<1>3. Increasing(s) /\ (\A y : In(s, y) => y < x) => Increasing(t)
  BY <1>1, <1>2 DEF Increasing, In
<1>4. ASSUME NEW kind, Ascending(s, kind),
             x.kind = kind => \A y : In(s, y) /\ y.kind = kind => y.seq < x.seq
      PROVE  Ascending(t, kind)
  BY <1>1, <1>2, <1>4 DEF Ascending, In
<1> QED BY <1>3, <1>4 DEF t

\* The first is taken.
LEMMA IncreasingTaken ==
    ASSUME NEW S, NEW s \in Seq(S), s # <<>>
    PROVE  /\ Increasing(s) => /\ Increasing(Tail(s))
                               /\ \A y : In(Tail(s), y) => Head(s) < y
           /\ \A kind : Ascending(s, kind) =>
                 /\ Ascending(Tail(s), kind)
                 /\ Head(s).kind = kind =>
                       \A y : In(Tail(s), y) /\ y.kind = kind => Head(s).seq < y.seq
<1> DEFINE t == Tail(s)
<1>1. /\ DOMAIN t = 1..(Len(s) - 1) /\ DOMAIN s = 1..Len(s) /\ Len(s) \in Nat \ {0}
      /\ \A i \in DOMAIN t : t[i] = s[i + 1]
      /\ Head(s) = s[1]
  OBVIOUS
<1> HIDE DEF t
<1>2. /\ \A i \in DOMAIN t : i + 1 \in DOMAIN s /\ 1 < i + 1 /\ i \in Nat
      /\ 1 \in DOMAIN s
  BY <1>1
<1>3. Increasing(s) => Increasing(t) /\ \A y : In(t, y) => s[1] < y
  BY <1>1, <1>2 DEF Increasing, In
<1>4. ASSUME NEW kind, Ascending(s, kind)
      PROVE  /\ Ascending(t, kind)
             /\ s[1].kind = kind => \A y : In(t, y) /\ y.kind = kind => s[1].seq < y.seq
  <2>1. \A i, j \in DOMAIN s : i < j /\ s[i].kind = kind /\ s[j].kind = kind => s[i].seq < s[j].seq
    BY <1>4 DEF Ascending
  <2>2. ASSUME NEW i \in DOMAIN t, NEW j \in DOMAIN t, i < j, t[i].kind = kind, t[j].kind = kind
        PROVE  t[i].seq < t[j].seq
    <3>1. i + 1 < j + 1 /\ i + 1 \in DOMAIN s /\ j + 1 \in DOMAIN s
      BY <1>2, <2>2
    <3>2. t[i] = s[i + 1] /\ t[j] = s[j + 1]
      BY <1>1
    <3> QED BY <2>1, <2>2, <3>1, <3>2
  <2>3. ASSUME s[1].kind = kind, NEW y, In(t, y), y.kind = kind
        PROVE  s[1].seq < y.seq
    <3>1. PICK i \in DOMAIN t : t[i] = y
      BY <2>3 DEF In
    <3>2. y = s[i + 1] /\ i + 1 \in DOMAIN s /\ 1 < i + 1 /\ 1 \in DOMAIN s
      BY <1>1, <1>2, <3>1
    <3> QED BY <2>1, <2>3, <3>2
  <2> QED BY <2>2, <2>3 DEF Ascending
<1> QED BY <1>1, <1>3, <1>4 DEF t

\* One sequence after the other.
LEMMA IncreasingConcat ==
    ASSUME NEW S, NEW s \in Seq(S), NEW r \in Seq(S)
    PROVE  /\ s \o r \in Seq(S)
           /\ \A y : In(s \o r, y) <=> In(s, y) \/ In(r, y)
           /\ /\ Increasing(s) /\ Increasing(r)
              /\ \A x, y : In(s, x) /\ In(r, y) => x < y
              => Increasing(s \o r)
<1> DEFINE t == s \o r
<1>1. /\ t \in Seq(S) /\ DOMAIN t = 1..(Len(s) + Len(r)) /\ Len(s) \in Nat /\ Len(r) \in Nat
      /\ DOMAIN s = 1..Len(s) /\ DOMAIN r = 1..Len(r)
      /\ \A i \in 1..Len(s) : t[i] = s[i]
      /\ \A i \in 1..Len(r) : t[Len(s) + i] = r[i]
  OBVIOUS
<1> HIDE DEF t
<1>2. \A i \in DOMAIN t : \/ i \in DOMAIN s /\ t[i] = s[i]
                          \/ i - Len(s) \in DOMAIN r /\ t[i] = r[i - Len(s)] /\ i > Len(s)
  <2> TAKE i \in DOMAIN t
  <2>1. CASE i <= Len(s)
    BY <1>1, <2>1
  <2>2. CASE i > Len(s)
    <3>1. i - Len(s) \in 1..Len(r)
      BY <1>1, <2>2
    <3>2. t[Len(s) + (i - Len(s))] = r[i - Len(s)]
      BY <1>1, <3>1
    <3> QED BY <1>1, <2>2, <3>1, <3>2
  <2> QED BY <1>1, <2>1, <2>2
<1>3. /\ \A i \in DOMAIN s : i \in DOMAIN t
      /\ \A i \in DOMAIN r : Len(s) + i \in DOMAIN t
  BY <1>1
<1>4. \A y : In(t, y) <=> In(s, y) \/ In(r, y)
  BY <1>1, <1>2, <1>3 DEF In
<1>5. ASSUME Increasing(s), Increasing(r), \A x, y : In(s, x) /\ In(r, y) => x < y,
             NEW i \in DOMAIN t, NEW j \in DOMAIN t, i < j
      PROVE  t[i] < t[j]
  <2>1. CASE j \in DOMAIN s /\ t[j] = s[j]
    <3>1. i \in DOMAIN s /\ t[i] = s[i]
      BY <1>1, <1>5, <2>1
    <3> QED BY <1>5, <2>1, <3>1 DEF Increasing
  <2>2. CASE j - Len(s) \in DOMAIN r /\ t[j] = r[j - Len(s)]
    <3>1. CASE i \in DOMAIN s /\ t[i] = s[i]
      BY <1>5, <2>2, <3>1 DEF In
    <3>2. CASE i - Len(s) \in DOMAIN r /\ t[i] = r[i - Len(s)]
      <4>1. i - Len(s) < j - Len(s)
        BY <1>1, <1>5
      <4> QED BY <1>5, <2>2, <3>2, <4>1 DEF Increasing
    <3> QED BY <1>2, <3>1, <3>2
  <2> QED BY <1>2, <2>1, <2>2
<1> QED BY <1>1, <1>4, <1>5 DEF t, Increasing

\* The lines of a set, counted from the first one, have the ranks from 1 on.
LEMMA Ranks ==
    ASSUME NEW n \in Nat, NEW lines \in SUBSET (1..n)
    PROVE  /\ Cardinality(lines) \in Nat
           /\ \A i \in lines : Rank(lines, i) \in 1..Cardinality(lines)
           /\ \A i, j \in lines : i < j => Rank(lines, i) < Rank(lines, j)
           /\ \A k \in 1..Cardinality(lines) : \E i \in lines : Rank(lines, i) = k
<1> DEFINE upTo(i) == {j \in lines : j <= i}
<1> DEFINE c == Cardinality(lines)
<1>1. IsFiniteSet(lines) /\ c \in Nat
  <2>1. IsFiniteSet(1..n)
    BY FS_Interval
  <2>2. IsFiniteSet(lines)
    BY <2>1, FS_Subset
  <2> QED BY <2>2, FS_CardinalityType
<1>a. \A i \in lines : i \in Nat
  OBVIOUS
<1>2. ASSUME NEW i \in lines
      PROVE  /\ IsFiniteSet(upTo(i)) /\ Cardinality(upTo(i)) \in 1..c
  <2>1. upTo(i) \in SUBSET lines
    OBVIOUS
  <2>2. IsFiniteSet(upTo(i)) /\ Cardinality(upTo(i)) \in Nat /\ Cardinality(upTo(i)) <= c
    BY <1>1, <2>1, FS_Subset, FS_CardinalityType
  <2>3. i \in upTo(i)
    OBVIOUS
  <2>4. Cardinality(upTo(i)) # 0
    BY <2>2, <2>3, FS_EmptySet
  <2> QED BY <1>1, <2>2, <2>4
<1>3. ASSUME NEW i \in lines, NEW j \in lines, i < j
      PROVE  Cardinality(upTo(i)) < Cardinality(upTo(j))
  <2>1. upTo(i) \in SUBSET upTo(j)
    <3>1. \A k \in lines : k <= i => k <= j
      BY <1>a, <1>3
    <3> QED BY <3>1
  <2>2. j \in upTo(j) /\ j \notin upTo(i)
    BY <1>a, <1>3
  <2>3. /\ Cardinality(upTo(i)) <= Cardinality(upTo(j))
        /\ Cardinality(upTo(j)) = Cardinality(upTo(i)) => upTo(j) = upTo(i)
    BY <1>2, <2>1, FS_Subset
  <2> HIDE DEF upTo
  <2>4. Cardinality(upTo(j)) # Cardinality(upTo(i))
    BY <2>2, <2>3
  <2> QED BY <1>2, <2>3, <2>4
<1> DEFINE rank == [i \in lines |-> Cardinality(upTo(i))]
<1>4. rank \in [lines -> 1..c]
  BY <1>2
<1>5. \A i, j \in lines : rank[i] = rank[j] => i = j
  <2> SUFFICES ASSUME NEW i \in lines, NEW j \in lines, rank[i] = rank[j]
               PROVE  i = j
    OBVIOUS
  <2>1. rank[i] = Cardinality(upTo(i)) /\ rank[j] = Cardinality(upTo(j))
    OBVIOUS
  <2>2. ~(i < j) /\ ~(j < i)
    BY <1>2, <1>3, <2>1
  <2> QED BY <2>2
<1>6. rank \in Injection(lines, 1..c)
  <2> HIDE DEF rank, c
  <2> QED BY <1>4, <1>5 DEF Injection, IsInjective
<1>7. IsFiniteSet(1..c) /\ Cardinality(1..c) = c
  BY <1>1, FS_Interval
<1>8. rank \in Surjection(lines, 1..c)
  <2> HIDE DEF rank
  <2> QED BY <1>6, <1>7, FS_Injection
<1>9. \A k \in 1..c : \E i \in lines : rank[i] = k
  <2> HIDE DEF rank, c
  <2> QED BY <1>8 DEF Surjection
<1>10. \A i \in lines : Rank(lines, i) = Cardinality(upTo(i)) /\ rank[i] = Cardinality(upTo(i))
  BY DEF Rank
<1> HIDE DEF rank, upTo
<1> QED BY <1>1, <1>2, <1>3, <1>9, <1>10

\* The numbers at the given positions, in their order.
NumbersAt(number, lines) ==
    [k \in 1..Cardinality(lines) |-> number[CHOOSE i \in lines : Rank(lines, i) = k]]

\* They increase if they do in the order of the positions.
LEMMA Selected ==
    ASSUME NEW n \in Nat, NEW lines, NEW number
    PROVE  /\ lines \in SUBSET (1..n) /\ number \in [lines -> Nat]
           /\ \A i, j \in lines : i < j => number[i] < number[j]
           => /\ NumbersAt(number, lines) \in Seq(Nat)
              /\ Increasing(NumbersAt(number, lines))
              /\ \A x : In(NumbersAt(number, lines), x) <=> \E i \in lines : number[i] = x
<1>0. HAVE /\ lines \in SUBSET (1..n) /\ number \in [lines -> Nat]
           /\ \A i, j \in lines : i < j => number[i] < number[j]
<1> DEFINE s == NumbersAt(number, lines)
<1> DEFINE c == Cardinality(lines)
<1> DEFINE line(k) == CHOOSE i \in lines : Rank(lines, i) = k
<1>3. /\ c \in Nat
      /\ \A i \in lines : Rank(lines, i) \in 1..c
      /\ \A i, j \in lines : i < j => Rank(lines, i) < Rank(lines, j)
      /\ \A k \in 1..c : \E i \in lines : Rank(lines, i) = k
  BY <1>0, Ranks
<1>4. \A k \in 1..c : line(k) \in lines /\ Rank(lines, line(k)) = k
  BY <1>3
<1>5. s = [k \in 1..c |-> number[line(k)]]
  BY DEF NumbersAt
<1>6. \A i \in lines : i \in Nat /\ number[i] \in Nat
  BY <1>0
<1> HIDE DEF line, c, s
<1>7. s \in Seq(Nat) /\ DOMAIN s = 1..c
  <2>1. s \in [1..c -> Nat]
    BY <1>4, <1>5, <1>6
  <2> QED BY <1>3, <2>1, SeqDef
<1>8. \A k, m \in 1..c : k < m => line(k) < line(m)
  <2> SUFFICES ASSUME NEW k \in 1..c, NEW m \in 1..c, k < m
               PROVE  line(k) < line(m)
    OBVIOUS
  <2>1. /\ line(k) \in lines /\ Rank(lines, line(k)) = k
        /\ line(m) \in lines /\ Rank(lines, line(m)) = m
    BY <1>4
  <2>2. ~(line(m) < line(k)) /\ line(m) # line(k)
    BY <1>3, <2>1
  <2> QED BY <1>6, <2>1, <2>2
<1>9. Increasing(s)
  <2> SUFFICES ASSUME NEW k \in 1..c, NEW m \in 1..c, k < m
               PROVE  s[k] < s[m]
    BY <1>7 DEF Increasing
  <2>1. line(k) \in lines /\ line(m) \in lines /\ line(k) < line(m)
    BY <1>4, <1>8
  <2>2. s[k] = number[line(k)] /\ s[m] = number[line(m)]
    BY <1>5
  <2> QED BY <1>0, <2>1, <2>2
<1>10. ASSUME NEW x, In(s, x)
       PROVE  \E i \in lines : number[i] = x
  <2>1. PICK k \in 1..c : s[k] = x
    BY <1>7, <1>10 DEF In
  <2> QED BY <1>4, <1>5, <2>1
<1>11. ASSUME NEW i \in lines
       PROVE  In(s, number[i])
  <2> DEFINE k == Rank(lines, i)
  <2>1. k \in 1..c
    BY <1>3
  <2>2. line(k) \in lines /\ Rank(lines, line(k)) = k
    BY <1>4, <2>1
  <2>3. ~(line(k) < i) /\ ~(i < line(k))
    BY <1>3, <2>1, <2>2
  <2>4. line(k) = i
    BY <1>6, <2>2, <2>3
  <2> QED BY <1>5, <1>7, <2>1, <2>4 DEF In
<1> QED BY <1>7, <1>9, <1>10, <1>11 DEF s

\* The numbers of the log in file order: those of the given lines, increasing if the lines'
\* numbers are.
LEMMA NumbersOfLines ==
    ASSUME file \in Seq(Lines), NEW lines \in SUBSET (DOMAIN file),
           \A i, j \in lines : i < j => file[i].seq < file[j].seq
    PROVE  /\ SeqsOf(lines) \in Seq(Nat)
           /\ Increasing(SeqsOf(lines))
           /\ \A x : In(SeqsOf(lines), x) <=> \E i \in lines : file[i].seq = x
<1> DEFINE number == [i \in lines |-> file[i].seq]
<1>1. lines \in SUBSET (1..Len(file)) /\ Len(file) \in Nat
  OBVIOUS
<1>2. number \in [lines -> Nat]
  <2> SUFFICES ASSUME NEW i \in lines PROVE file[i].seq \in Nat
    OBVIOUS
  <2>1. file[i] \in Lines
    BY ElementAt
  <2> QED BY <2>1 DEF Lines
<1>3. \A i \in lines : number[i] = file[i].seq
  OBVIOUS
<1>4. \A k \in 1..Cardinality(lines) : (CHOOSE i \in lines : Rank(lines, i) = k) \in lines
  BY <1>1, Ranks
<1> HIDE DEF number
<1>6. \A i, j \in lines : i < j => number[i] < number[j]
  BY <1>3
<1>7. /\ NumbersAt(number, lines) \in Seq(Nat)
      /\ Increasing(NumbersAt(number, lines))
      /\ \A x : In(NumbersAt(number, lines), x) <=> \E i \in lines : number[i] = x
  BY <1>1, <1>2, <1>6, Selected
<1>8. SeqsOf(lines) = NumbersAt(number, lines)
  BY <1>3, <1>4 DEF SeqsOf, NumbersAt
<1> QED BY <1>3, <1>7, <1>8

\* list_bus_events returns the kept numbers above seq, increasing.
LEMMA Listed ==
    ASSUME IInv, NEW seq \in Nat
    PROVE  /\ ListBusEvents(seq) \in Seq(Nat)
           /\ Increasing(ListBusEvents(seq))
           /\ \A x : In(ListBusEvents(seq), x) <=> x \in KeptSeqs /\ x > seq
<1> DEFINE lines == {i \in KeptLines : file[i].seq > seq}
<1>1. file \in Seq(Lines) /\ \A i, j \in Parse(file) : i < j => file[i].seq < file[j].seq
  BY OrderOfInv
<1>2. lines \in SUBSET (DOMAIN file) /\ lines \subseteq Parse(file)
  BY DEF KeptLines, Parse
<1>3. \A i, j \in lines : i < j => file[i].seq < file[j].seq
  BY <1>1, <1>2
<1>4. /\ SeqsOf(lines) \in Seq(Nat)
      /\ Increasing(SeqsOf(lines))
      /\ \A x : In(SeqsOf(lines), x) <=> \E i \in lines : file[i].seq = x
  <2> HIDE DEF lines
  <2> QED BY <1>1, <1>2, <1>3, NumbersOfLines
<1>5. \A x : (\E i \in lines : file[i].seq = x) <=> x \in KeptSeqs /\ x > seq
  BY DEF KeptSeqs
<1> QED BY <1>4, <1>5 DEF ListBusEvents

-----------------------------------------------------------------------------
(* The log and the types *)

\* TypeOK without the log.
DeliveryTypes ==
    /\ channel \in Seq(Nat) /\ Len(channel) <= ChannelCap
    /\ lagged \in BOOLEAN
    /\ session \in Sessions /\ Len(session.buffer) <= BufferCap
    /\ task \in [Tasks -> TaskStates]
    /\ up \in Seq(Requests)
    /\ down \in Seq(Frames)
    /\ transport \in [open : BOOLEAN, subscribed : BOOLEAN, lastSeq : Nat]
    /\ batch \in Seq(Nat)
    /\ store \in [phase : StorePhases, processed : Nat, shown : Seq(Nat), gen : Nat,
                  reloading : Nat]
    /\ lapses \subseteq Lapses
    /\ bounds \in [opens : Nat, drops : Nat, repeats : Nat]

\* The invariant of the types.
TypeInv == IInv /\ DeliveryTypes

\* What happens to a run's events after they are written does not change the log.
LEMMA StepOfLog ==
    ASSUME [Next]_vars
    PROVE  [LogNext]_logVars
<1>1. CASE Persist
  BY <1>1 DEF Persist, LogNext
<1>2. ASSUME NEW e \in Emitters, Broadcast(e) PROVE LogNext
  BY <1>2 DEF Broadcast, LogNext
<1>3. CASE ServerRestart
  BY <1>3 DEF ServerRestart, LogNext
<1>4. CASE Forward \/ (\E t \in Tasks : ReplayStep(t)) \/ CoolDown \/ Command
  BY <1>4 DEF Forward, Receive, ForwardSend, ForwardMark, Catchup, ReplayStep, ReadLog,
              ReplayEvent, FlushEvent, Drain, SendFullReload, CoolDown, Command, Subscribe,
              Unsubscribe, Load, Respond, TakeRequest
<1>5. CASE User \/ Browser \/ Disconnect \/ Reconnect
  BY <1>5 DEF User, OpenRun, OpenNewRun, Repeat, CloseRun, Browser, ReceiveEvent,
              FlushBatch, ReceiveLoaded, ReceiveReload, TakeFrame, Disconnect, Reconnect
<1>6. CASE UNCHANGED vars
  BY <1>6 DEF vars
<1> QED BY <1>1, <1>2, <1>3, <1>4, <1>5, <1>6 DEF Next

\* The values that steps are built from.
LEMMA TypesOfValues ==
    ASSUME DeliveryTypes
    PROVE  /\ NoSession \in Sessions /\ NoSession.buffer = <<>>
           /\ Resting \in TaskStates
           /\ \A pc \in TaskPhases, n \in Nat :
                  /\ [Resting EXCEPT !.pc = pc] \in TaskStates
                  /\ [Resting EXCEPT !.pc = pc, !.seq = n] \in TaskStates
           /\ \A n \in Nat : Checkpoint(n) \in Sessions /\ Checkpoint(n).buffer = session.buffer
           /\ \A n \in Nat : EventFrame(n) \in Frames
           /\ \A n \in Nat, s \in Seq(Nat) : LoadedFrame(n, s) \in Frames
           /\ ReloadFrame \in Frames
           /\ \A n, m \in Nat : Maximum(n, m) \in Nat
           /\ \A t \in Tasks : task[t] \in TaskStates
           /\ \A n \in Nat : MeetLoad(n) => lapses' \subseteq Lapses
           /\ {"forward", "command"} = Tasks
<1>1. \A n, m \in Nat : Maximum(n, m) \in Nat
  BY DEF Maximum
<1>2. NoSession \in Sessions /\ NoSession.buffer = <<>>
  BY DEF NoSession, Sessions
<1>3. /\ Resting \in TaskStates
      /\ \A pc \in TaskPhases, n \in Nat :
             /\ [Resting EXCEPT !.pc = pc] \in TaskStates
             /\ [Resting EXCEPT !.pc = pc, !.seq = n] \in TaskStates
  <2>1. <<>> \in Seq(Nat) /\ "rest" \in TaskPhases
    BY DEF TaskPhases
  <2>2. Resting \in TaskStates
    BY <2>1 DEF Resting, TaskStates
  <2>3. ASSUME NEW pc \in TaskPhases, NEW n \in Nat
        PROVE  /\ [Resting EXCEPT !.pc = pc] \in TaskStates
               /\ [Resting EXCEPT !.pc = pc, !.seq = n] \in TaskStates
    BY <2>2 DEF TaskStates
  <2> QED BY <2>2, <2>3
<1>4. ASSUME NEW n \in Nat
      PROVE  Checkpoint(n) \in Sessions /\ Checkpoint(n).buffer = session.buffer
  <2>1. session \in Sessions /\ Maximum(session.cp, n) \in Nat
    BY <1>1 DEF DeliveryTypes, Sessions
  <2> QED BY <2>1 DEF Checkpoint, Sessions
<1>5. \A n \in Nat : EventFrame(n) \in Frames
  BY DEF EventFrame, Frames
<1>6. \A n \in Nat, s \in Seq(Nat) : LoadedFrame(n, s) \in Frames
  BY DEF LoadedFrame, Frames
<1>7. ReloadFrame \in Frames
  BY DEF ReloadFrame, Frames
<1>8. \A t \in Tasks : task[t] \in TaskStates
  BY DEF DeliveryTypes
<1>9. \A n \in Nat : MeetLoad(n) => lapses' \subseteq Lapses
  BY DEF MeetLoad, DeliveryTypes, Lapses
<1> QED BY <1>1, <1>2, <1>3, <1>4, <1>5, <1>6, <1>7, <1>8, <1>9 DEF Tasks

\* A request is sent, or not: what SubscribeRun and LoadRun leave.
LEMMA TypesOfRequests ==
    ASSUME DeliveryTypes
    PROVE  /\ \A kind \in {"subscribe", "unsubscribe", "load"}, n \in Nat :
                  SendRequest(kind, n) => up' \in Seq(Requests)
           /\ \A n \in Nat : SubscribeRun(n) =>
                  /\ up' \in Seq(Requests)
                  /\ transport' \in [open : BOOLEAN, subscribed : BOOLEAN, lastSeq : Nat]
           /\ \A r \in BOOLEAN : LoadRun(r) =>
                  /\ up' \in Seq(Requests)
                  /\ store' \in [phase : StorePhases, processed : Nat, shown : Seq(Nat),
                                 gen : Nat, reloading : Nat]
<1>1. ASSUME NEW kind \in {"subscribe", "unsubscribe", "load"}, NEW n \in Nat,
             SendRequest(kind, n)
      PROVE  up' \in Seq(Requests)
  <2> DEFINE r == [kind |-> kind, seq |-> n]
  <2>1. r \in Requests
    BY DEF Requests
  <2>2. up' = up \/ up' = Append(up, r)
    BY <1>1 DEF SendRequest
  <2>3. up \in Seq(Requests)
    BY DEF DeliveryTypes
  <2> HIDE DEF r
  <2>4. Append(up, r) \in Seq(Requests)
    BY <2>1, <2>3, AppendProperties
  <2> QED BY <2>2, <2>3, <2>4
<1>2. ASSUME NEW n \in Nat, SubscribeRun(n)
      PROVE  /\ up' \in Seq(Requests)
             /\ transport' \in [open : BOOLEAN, subscribed : BOOLEAN, lastSeq : Nat]
  <2> DEFINE effective == Maximum(transport.lastSeq, n)
  <2>1. effective \in Nat
    BY TypesOfValues DEF DeliveryTypes
  <2>2. /\ SendRequest("subscribe", effective)
        /\ transport' = [transport EXCEPT !.subscribed = TRUE, !.lastSeq = effective]
    BY <1>2 DEF SubscribeRun
  <2> HIDE DEF effective
  <2> QED BY <1>1, <2>1, <2>2 DEF DeliveryTypes
<1>3. ASSUME NEW r \in BOOLEAN, LoadRun(r)
      PROVE  /\ up' \in Seq(Requests)
             /\ store' \in [phase : StorePhases, processed : Nat, shown : Seq(Nat),
                            gen : Nat, reloading : Nat]
  <2>1. store.gen + 1 \in Nat /\ store.reloading \in Nat
    BY DEF DeliveryTypes
  <2> QED BY <1>1, <1>3, <2>1 DEF LoadRun, StorePhases
<1> QED BY <1>1, <1>2, <1>3

\* The types hold at first.
LEMMA InitTypes == Init => TypeInv
<1> SUFFICES ASSUME Init PROVE TypeInv
  OBVIOUS
<1>1. IInv
  BY InitIInv DEF Init
<1>2. Resting \in TaskStates /\ NoSession \in Sessions /\ NoSession.buffer = <<>>
  BY DEF Resting, TaskStates, TaskPhases, NoSession, Sessions
<1>3. /\ <<>> \in Seq(Nat) /\ <<>> \in Seq(Requests) /\ <<>> \in Seq(Frames)
      /\ Len(<<>>) <= ChannelCap /\ Len(<<>>) <= BufferCap
  BY DeliveryAssumption
<1>4. /\ store \in [phase : StorePhases, processed : Nat, shown : Seq(Nat), gen : Nat,
                    reloading : Nat]
      /\ transport \in [open : BOOLEAN, subscribed : BOOLEAN, lastSeq : Nat]
      /\ bounds \in [opens : Nat, drops : Nat, repeats : Nat]
  BY <1>3 DEF Init, StorePhases
<1>5. task \in [Tasks -> TaskStates]
  BY <1>2 DEF Init
<1>6. channel = <<>> /\ lagged = FALSE /\ session = NoSession /\ up = <<>> /\ down = <<>>
      /\ batch = <<>> /\ lapses = {}
  BY DEF Init
<1>7. DeliveryTypes
  BY <1>2, <1>3, <1>4, <1>5, <1>6, Zenon DEF DeliveryTypes
<1> QED BY <1>1, <1>7 DEF TypeInv

\* A connection is lost.
LEMMA TypesAfterDrop ==
    ASSUME DeliveryTypes, DropConnection, lapses' \subseteq Lapses,
           bounds' \in [opens : Nat, drops : Nat, repeats : Nat]
    PROVE  DeliveryTypes'
<1>1. /\ NoSession \in Sessions /\ NoSession.buffer = <<>>
      /\ [t \in Tasks |-> Resting] \in [Tasks -> TaskStates]
  BY TypesOfValues
<1>2. store' \in [phase : StorePhases, processed : Nat, shown : Seq(Nat), gen : Nat,
                  reloading : Nat]
  BY DEF DropConnection, DeliveryTypes, StorePhases
<1>3. transport' \in [open : BOOLEAN, subscribed : BOOLEAN, lastSeq : Nat]
  BY DEF DropConnection, DeliveryTypes
<1>4. /\ <<>> \in Seq(Nat) /\ <<>> \in Seq(Requests) /\ <<>> \in Seq(Frames)
      /\ Len(<<>>) <= ChannelCap /\ Len(<<>>) <= BufferCap
  BY DeliveryAssumption
<1>5. /\ channel' = <<>> /\ lagged' = FALSE /\ session' = NoSession
      /\ task' = [t \in Tasks |-> Resting] /\ up' = <<>> /\ down' = <<>> /\ batch' = batch
  BY DEF DropConnection
<1>6. batch \in Seq(Nat)
  BY DEF DeliveryTypes
<1> QED BY <1>1, <1>2, <1>3, <1>4, <1>5, <1>6, Zenon DEF DeliveryTypes

\* One conjunct of DeliveryTypes at a time.
SessionTyped == session \in Sessions /\ Len(session.buffer) <= BufferCap
StoreTyped   == store \in [phase : StorePhases, processed : Nat, shown : Seq(Nat), gen : Nat,
                           reloading : Nat]

\* The server's steps.
LEMMA ServerTypes ==
    ASSUME TypeInv,
           \/ Forward
           \/ \E t \in Tasks : ReplayStep(t)
           \/ CoolDown
           \/ Command
    PROVE  DeliveryTypes'
<1> USE DEF TypeInv
<1>0. /\ channel \in Seq(Nat) /\ Len(channel) <= ChannelCap /\ lagged \in BOOLEAN
      /\ SessionTyped
      /\ session.on \in BOOLEAN /\ session.replaying \in BOOLEAN /\ session.hot \in BOOLEAN
      /\ session.cp \in Nat /\ session.buffer \in Seq(Nat)
      /\ task \in [Tasks -> TaskStates]
      /\ up \in Seq(Requests) /\ down \in Seq(Frames)
      /\ lapses \subseteq Lapses
      /\ ChannelCap \in Nat /\ BufferCap \in Nat
  BY DeliveryAssumption DEF DeliveryTypes, SessionTyped, Sessions
<1>a. \A t \in Tasks : /\ task[t] \in TaskStates /\ task[t].seq \in Nat /\ task[t].max \in Nat
                       /\ task[t].todo \in Seq(Nat) /\ task[t].pc \in TaskPhases
  BY <1>0 DEF TaskStates
<1>b. "forward" \in Tasks /\ "command" \in Tasks
  BY DEF Tasks
<1>c. \A s \in Seq(Nat) : s # <<>> => Head(s) \in Nat /\ Tail(s) \in Seq(Nat)
  OBVIOUS
<1>d. \A n \in Nat : Append(down, EventFrame(n)) \in Seq(Frames)
  <2> TAKE n \in Nat
  <2>1. EventFrame(n) \in Frames
    BY TypesOfValues
  <2> QED BY <1>0, <2>1, AppendProperties
<1>e. \A t \in Tasks, x \in TaskStates : [task EXCEPT ![t] = x] \in [Tasks -> TaskStates]
  BY <1>0
\* It is enough to look at what the server may change.
<1>z. ASSUME channel' \in Seq(Nat) /\ Len(channel') <= ChannelCap, lagged' \in BOOLEAN,
             SessionTyped', task' \in [Tasks -> TaskStates], up' \in Seq(Requests),
             down' \in Seq(Frames), lapses' \subseteq Lapses, UNCHANGED <<clientVars, bounds>>
      PROVE  DeliveryTypes'
  BY <1>z DEF DeliveryTypes, SessionTyped, clientVars
<1>1. CASE Receive
  <2> DEFINE seq == Head(channel)
  <2>1. channel # <<>> /\ channel' = Tail(channel)
    BY <1>1 DEF Receive
  <2>2. seq \in Nat /\ channel' \in Seq(Nat) /\ Len(channel') <= ChannelCap
    BY <1>0, <2>1
  <2>3. SessionTyped'
    <3>1. session' = session \/ session' = BufferEvent(seq)
      BY <1>1 DEF Receive
    <3>2. CASE session' = session
      BY <1>0, <3>2 DEF SessionTyped
    <3>3. CASE session' = BufferEvent(seq) /\ Len(session.buffer) < BufferCap
      <4>1. Append(session.buffer, seq) \in Seq(Nat)
            /\ Len(Append(session.buffer, seq)) = Len(session.buffer) + 1
        BY <1>0, <2>2
      <4>2. session' = [session EXCEPT !.buffer = Append(session.buffer, seq)]
        BY <3>3 DEF BufferEvent
      <4> HIDE DEF seq
      <4>3. session' \in Sessions /\ session'.buffer = Append(session.buffer, seq)
        BY <1>0, <4>1, <4>2 DEF SessionTyped, Sessions
      <4>4. Len(session.buffer) \in Nat
        BY <1>0
      <4> QED BY <1>0, <3>3, <4>1, <4>3, <4>4 DEF SessionTyped
    <3>4. CASE session' = BufferEvent(seq) /\ ~(Len(session.buffer) < BufferCap)
      BY <1>0, <3>4 DEF SessionTyped, BufferEvent
    <3> QED BY <3>1, <3>2, <3>3, <3>4
  <2>4. task' \in [Tasks -> TaskStates]
    <3>1. [Resting EXCEPT !.pc = "send", !.seq = seq] \in TaskStates
      BY <2>2, TypesOfValues DEF TaskPhases
    <3>2. \/ task' = task
          \/ task' = [task EXCEPT !["forward"] = [Resting EXCEPT !.pc = "send", !.seq = seq]]
      BY <1>1 DEF Receive
    <3> HIDE DEF seq
    <3> QED BY <1>0, <1>b, <1>e, <3>1, <3>2
  <2>5. UNCHANGED <<lagged, up, down, lapses, clientVars, bounds>>
    BY <1>1 DEF Receive
  <2> QED BY <1>0, <1>z, <2>2, <2>3, <2>4, <2>5
<1>2. CASE ForwardSend
  <2>1. task' \in [Tasks -> TaskStates]
    <3>1. task["forward"] \in TaskStates
      BY <1>a, <1>b
    <3>2. [task["forward"] EXCEPT !.pc = "mark"] \in TaskStates
      BY <3>1 DEF TaskStates, TaskPhases
    <3> QED BY <1>0, <1>2, <3>2 DEF ForwardSend
  <2>2. down' \in Seq(Frames) /\ lapses' \subseteq Lapses
    BY <1>2, <1>a, <1>b, <1>d, TypesOfValues DEF ForwardSend
  <2>3. UNCHANGED <<channel, lagged, session, up, clientVars, bounds>>
    BY <1>2 DEF ForwardSend
  <2> QED BY <1>0, <1>z, <2>1, <2>2, <2>3 DEF SessionTyped
<1>3. CASE ForwardMark
  <2>1. SessionTyped'
    BY <1>0, <1>3, <1>a, <1>b, TypesOfValues DEF ForwardMark, SessionTyped
  <2>2. task' \in [Tasks -> TaskStates]
    BY <1>3, <1>b, <1>e, TypesOfValues DEF ForwardMark
  <2>3. UNCHANGED <<channel, lagged, up, down, lapses, clientVars, bounds>>
    BY <1>3 DEF ForwardMark
  <2> QED BY <1>0, <1>z, <2>1, <2>2, <2>3
<1>4. CASE Catchup
  <2>1. SessionTyped'
    <3>1. session' = session \/ session' = [session EXCEPT !.replaying = TRUE]
      BY <1>4 DEF Catchup
    <3> QED BY <1>0, <3>1 DEF SessionTyped, Sessions
  <2>2. task' \in [Tasks -> TaskStates]
    <3>1. [Resting EXCEPT !.pc = "read", !.seq = session.cp] \in TaskStates
      BY <1>0, TypesOfValues DEF TaskPhases
    <3>2. task' = task \/ task' = StartReplay("forward", session.cp)
      BY <1>4 DEF Catchup
    <3> QED BY <1>0, <1>b, <1>e, <3>1, <3>2 DEF StartReplay
  <2>3. lapses' \subseteq Lapses
    BY <1>0, <1>4 DEF Catchup, Lapses
  <2>4. lagged' = FALSE /\ UNCHANGED <<channel, up, down, clientVars, bounds>>
    BY <1>4 DEF Catchup
  <2> QED BY <1>0, <1>z, <2>1, <2>2, <2>3, <2>4
<1>5. ASSUME NEW t \in Tasks, ReadLog(t) PROVE DeliveryTypes'
  <2>1. ListBusEvents(task[t].seq) \in Seq(Nat)
    BY <1>a, Listed
  <2>2. task' \in [Tasks -> TaskStates]
    <3>1. task' = [task EXCEPT ![t] = [task[t] EXCEPT !.pc = "replay",
                                                      !.todo = ListBusEvents(task[t].seq)]]
      BY <1>0, <1>5 DEF ReadLog
    <3>2. [task[t] EXCEPT !.pc = "replay", !.todo = ListBusEvents(task[t].seq)] \in TaskStates
      BY <1>a, <2>1 DEF TaskStates, TaskPhases
    <3> QED BY <1>e, <3>1, <3>2
  <2>3. UNCHANGED <<channel, lagged, session, up, down, lapses, clientVars, bounds>>
    BY <1>5 DEF ReadLog
  <2> QED BY <1>0, <1>z, <2>2, <2>3 DEF SessionTyped
<1>6. ASSUME NEW t \in Tasks, ReplayEvent(t) PROVE DeliveryTypes'
  <2>1. Head(task[t].todo) \in Nat /\ Tail(task[t].todo) \in Seq(Nat)
    BY <1>6, <1>a, <1>c DEF ReplayEvent
  <2>2. SessionTyped'
    BY <1>0, <1>6, <2>1, TypesOfValues DEF ReplayEvent, SessionTyped
  <2>3. task' \in [Tasks -> TaskStates]
    <3>1. task' = [task EXCEPT ![t] = [task[t] EXCEPT !.todo = Tail(task[t].todo)]]
      BY <1>0, <1>6 DEF ReplayEvent
    <3>2. [task[t] EXCEPT !.todo = Tail(task[t].todo)] \in TaskStates
      BY <1>a, <2>1 DEF TaskStates
    <3> QED BY <1>e, <3>1, <3>2
  <2>4. down' \in Seq(Frames) /\ lapses' \subseteq Lapses
    BY <1>6, <1>d, <2>1, TypesOfValues DEF ReplayEvent
  <2>5. UNCHANGED <<channel, lagged, up, clientVars, bounds>>
    BY <1>6 DEF ReplayEvent
  <2> QED BY <1>0, <1>z, <2>2, <2>3, <2>4, <2>5
<1>7. ASSUME NEW t \in Tasks, FlushEvent(t) PROVE DeliveryTypes'
  <2> DEFINE seq == Head(task[t].todo)
  <2>1. seq \in Nat /\ Tail(task[t].todo) \in Seq(Nat)
    BY <1>7, <1>a, <1>c DEF FlushEvent
  <2>2. task' \in [Tasks -> TaskStates]
    <3>1. \/ task' = [task EXCEPT ![t] = [task[t] EXCEPT !.todo = Tail(task[t].todo)]]
          \/ task' = [task EXCEPT ![t] = [task[t] EXCEPT !.todo = Tail(task[t].todo),
                                                         !.max = Maximum(task[t].max, seq)]]
      BY <1>0, <1>7 DEF FlushEvent
    <3>2. [task[t] EXCEPT !.todo = Tail(task[t].todo)] \in TaskStates
      BY <1>a, <2>1 DEF TaskStates
    <3>3. Maximum(task[t].max, seq) \in Nat
      BY <1>a, <2>1, TypesOfValues
    <3>4. [task[t] EXCEPT !.todo = Tail(task[t].todo), !.max = Maximum(task[t].max, seq)]
              \in TaskStates
      BY <1>a, <2>1, <3>3 DEF TaskStates
    <3> HIDE DEF seq
    <3> QED BY <1>e, <3>1, <3>2, <3>4
  <2>3. down' \in Seq(Frames) /\ lapses' \subseteq Lapses
    <3>1. \/ down' = Append(down, EventFrame(seq)) /\ MeetLoad(seq)
          \/ down' = down /\ lapses' = lapses
      BY <1>7 DEF FlushEvent
    <3> HIDE DEF seq
    <3> QED BY <1>0, <1>d, <2>1, <3>1, TypesOfValues
  <2>4. UNCHANGED <<channel, lagged, session, up, clientVars, bounds>>
    BY <1>7 DEF FlushEvent
  <2> QED BY <1>0, <1>z, <2>2, <2>3, <2>4 DEF SessionTyped
<1>8. ASSUME NEW t \in Tasks, Drain(t) PROVE DeliveryTypes'
  <2> DEFINE s == Checkpoint(task[t].max)
  <2>1. s \in Sessions /\ s.buffer = session.buffer
    BY <1>a, TypesOfValues
  <2>2. SessionTyped'
    <3>1. \/ session' = [s EXCEPT !.replaying = FALSE]
          \/ session' = Overflown(s)
          \/ session' = [s EXCEPT !.buffer = <<>>]
      BY <1>8 DEF Drain
    <3> HIDE DEF s
    <3>2. CASE session' = [s EXCEPT !.replaying = FALSE]
      <4>1. session' \in Sessions /\ session'.buffer = session.buffer
        BY <2>1, <3>2 DEF Sessions
      <4> QED BY <1>0, <4>1 DEF SessionTyped
    <3>3. CASE session' = Overflown(s) \/ session' = [s EXCEPT !.buffer = <<>>]
      <4>1. session' \in Sessions /\ session'.buffer = <<>>
        <5>1. <<>> \in Seq(Nat)
          OBVIOUS
        <5> QED BY <2>1, <3>3, <5>1 DEF Sessions, Overflown
      <4> QED BY <1>0, <4>1 DEF SessionTyped
    <3> QED BY <3>1, <3>2, <3>3
  <2>3. task' \in [Tasks -> TaskStates]
    <3>1. [Resting EXCEPT !.pc = "reload"] \in TaskStates /\ Resting \in TaskStates
      BY TypesOfValues DEF TaskPhases
    <3>2. Maximum(s.cp, task[t].max) \in Nat /\ s.buffer \in Seq(Nat)
      <4>1. s.cp \in Nat /\ task[t].max \in Nat /\ s.buffer \in Seq(Nat)
        BY <1>a, <2>1 DEF Sessions
      <4> HIDE DEF s
      <4> QED BY <4>1, TypesOfValues
    <3>3. [task[t] EXCEPT !.pc = "flush", !.seq = Maximum(s.cp, task[t].max),
                          !.todo = s.buffer] \in TaskStates
      <4> HIDE DEF s
      <4> QED BY <1>a, <3>2 DEF TaskStates, TaskPhases
    <3>4. \/ task' = [task EXCEPT ![t] = Resting]
          \/ task' = [task EXCEPT ![t] = [Resting EXCEPT !.pc = "reload"]]
          \/ task' = [task EXCEPT ![t] = [task[t] EXCEPT !.pc = "flush",
                                                         !.seq = Maximum(s.cp, task[t].max),
                                                         !.todo = s.buffer]]
      <4>1. \/ task' = [task EXCEPT ![t] = Resting]
            \/ task' = [task EXCEPT ![t] = [Resting EXCEPT !.pc = "reload"]]
            \/ task' = [task EXCEPT ![t].pc = "flush", ![t].seq = Maximum(s.cp, task[t].max),
                                    ![t].todo = s.buffer]
        BY <1>8 DEF Drain
      <4> HIDE DEF s
      <4> QED BY <1>0, <4>1
    <3> HIDE DEF s
    <3> QED BY <1>e, <3>1, <3>3, <3>4
  <2>4. UNCHANGED <<channel, lagged, up, down, lapses, clientVars, bounds>>
    BY <1>8 DEF Drain
  <2> QED BY <1>0, <1>z, <2>2, <2>3, <2>4
<1>9. ASSUME NEW t \in Tasks, SendFullReload(t) PROVE DeliveryTypes'
  <2>1. SessionTyped'
    <3>1. session' = session \/ session' = [session EXCEPT !.hot = TRUE]
      BY <1>9 DEF SendFullReload
    <3> QED BY <1>0, <3>1 DEF SessionTyped, Sessions
  <2>2. task' \in [Tasks -> TaskStates]
    BY <1>9, <1>e, TypesOfValues DEF SendFullReload
  <2>3. Append(down, ReloadFrame) \in Seq(Frames)
    BY <1>0, TypesOfValues, AppendProperties
  <2>4. down' \in Seq(Frames) /\ lapses' \subseteq Lapses
    BY <1>0, <1>9, <2>3 DEF SendFullReload, Lapses
  <2>5. UNCHANGED <<channel, lagged, up, clientVars, bounds>>
    BY <1>9 DEF SendFullReload
  <2> QED BY <1>0, <1>z, <2>1, <2>2, <2>4, <2>5
<1>10. CASE CoolDown
  <2>1. SessionTyped'
    BY <1>0, <1>10 DEF CoolDown, SessionTyped, Sessions
  <2>2. UNCHANGED <<channel, lagged, task, up, down, lapses, clientVars, bounds>>
    BY <1>10 DEF CoolDown
  <2> QED BY <1>0, <1>z, <2>1, <2>2
<1>f. ASSUME NEW kind, TakeRequest(kind)
      PROVE  /\ up' \in Seq(Requests) /\ Head(up).seq \in Nat
             /\ UNCHANGED <<channel, lagged, down, clientVars, bounds>>
  <2>1. up # <<>> /\ up' = Tail(up) /\ UNCHANGED <<channel, lagged, down, clientVars, bounds>>
    BY <1>f DEF TakeRequest
  <2>2. Head(up) \in Requests /\ Tail(up) \in Seq(Requests)
    BY <1>0, <2>1
  <2> QED BY <2>1, <2>2 DEF Requests
<1>11. CASE Subscribe
  <2> DEFINE effective == EffectiveSeq(Head(up).seq)
  <2>1. TakeRequest("subscribe")
    BY <1>11 DEF Subscribe
  <2>2. effective \in Nat
    <3>1. Head(up).seq \in Nat /\ session.cp \in Nat
      BY <1>0, <1>f, <2>1
    <3> QED BY <3>1, TypesOfValues DEF EffectiveSeq
  <2>3. SessionTyped'
    <3>1. session' = [session EXCEPT !.on = TRUE, !.cp = effective, !.replaying = TRUE]
      BY <1>11 DEF Subscribe
    <3> HIDE DEF effective
    <3> QED BY <1>0, <2>2, <3>1 DEF SessionTyped, Sessions
  <2>4. task' \in [Tasks -> TaskStates]
    <3>1. [Resting EXCEPT !.pc = "read", !.seq = effective] \in TaskStates
      BY <2>2, TypesOfValues DEF TaskPhases
    <3>2. task' = task \/ task' = StartReplay("command", effective)
      BY <1>11 DEF Subscribe
    <3> HIDE DEF effective
    <3> QED BY <1>0, <1>b, <1>e, <3>1, <3>2 DEF StartReplay
  <2>5. lapses' \subseteq Lapses
    BY <1>0, <1>11 DEF Subscribe, Lapses
  <2> QED BY <1>0, <1>f, <1>z, <2>1, <2>3, <2>4, <2>5
<1>12. CASE Unsubscribe
  <2>1. SessionTyped'
    <3>1. session' = NoSession
      BY <1>12 DEF Unsubscribe
    <3>2. NoSession \in Sessions /\ NoSession.buffer = <<>> /\ Len(<<>>) = 0
      BY TypesOfValues
    <3> QED BY <1>0, <3>1, <3>2 DEF SessionTyped
  <2>2. TakeRequest("unsubscribe") /\ UNCHANGED <<task, lapses>>
    BY <1>12 DEF Unsubscribe
  <2> QED BY <1>0, <1>f, <1>z, <2>1, <2>2
<1>13. CASE Load
  <2>1. TakeRequest("load") /\ UNCHANGED <<session, lapses>>
    BY <1>13 DEF Load
  <2>2. task' \in [Tasks -> TaskStates]
    <3>1. ListBusEvents(0) \in Seq(Nat) /\ Head(up).seq \in Nat
      BY <1>f, <2>1, Listed
    <3>2. [pc |-> "respond", seq |-> Head(up).seq, todo |-> ListBusEvents(0), max |-> 0]
              \in TaskStates
      BY <3>1 DEF TaskStates, TaskPhases
    <3> QED BY <1>13, <1>b, <1>e, <3>2 DEF Load
  <2> QED BY <1>0, <1>f, <1>z, <2>1, <2>2 DEF SessionTyped
<1>14. CASE Respond
  <2>1. Append(down, LoadedFrame(task["command"].seq, task["command"].todo)) \in Seq(Frames)
    <3>1. LoadedFrame(task["command"].seq, task["command"].todo) \in Frames
      BY <1>a, <1>b, TypesOfValues
    <3> QED BY <1>0, <3>1, AppendProperties
  <2>2. task' \in [Tasks -> TaskStates]
    BY <1>14, <1>b, <1>e, TypesOfValues DEF Respond
  <2>3. /\ down' = Append(down, LoadedFrame(task["command"].seq, task["command"].todo))
        /\ UNCHANGED <<channel, lagged, session, up, lapses, clientVars, bounds>>
    BY <1>14 DEF Respond
  <2> QED BY <1>0, <1>z, <2>1, <2>2, <2>3 DEF SessionTyped
<1> QED BY <1>1, <1>2, <1>3, <1>4, <1>5, <1>6, <1>7, <1>8, <1>9, <1>10, <1>11, <1>12, <1>13,
           <1>14 DEF Forward, ReplayStep, Command

\* The browser's steps.
LEMMA ClientTypes ==
    ASSUME DeliveryTypes,
           User \/ Browser \/ Reconnect
    PROVE  DeliveryTypes'
<1>0. /\ up \in Seq(Requests) /\ down \in Seq(Frames) /\ batch \in Seq(Nat)
      /\ transport \in [open : BOOLEAN, subscribed : BOOLEAN, lastSeq : Nat]
      /\ transport.lastSeq \in Nat
      /\ StoreTyped
      /\ store.phase \in StorePhases /\ store.processed \in Nat /\ store.shown \in Seq(Nat)
      /\ store.gen \in Nat /\ store.reloading \in Nat
      /\ lapses \subseteq Lapses
      /\ bounds \in [opens : Nat, drops : Nat, repeats : Nat]
      /\ bounds.opens + 1 \in Nat /\ bounds.repeats + 1 \in Nat
  BY DEF DeliveryTypes, StoreTyped
\* It is enough to look at what the browser may change.
<1>z. ASSUME up' \in Seq(Requests), down' \in Seq(Frames), batch' \in Seq(Nat),
             transport' \in [open : BOOLEAN, subscribed : BOOLEAN, lastSeq : Nat],
             StoreTyped', lapses' \subseteq Lapses,
             bounds' \in [opens : Nat, drops : Nat, repeats : Nat],
             UNCHANGED serverVars
      PROVE  DeliveryTypes'
  BY <1>z DEF DeliveryTypes, StoreTyped, serverVars
<1>a. /\ \A n \in Nat : SubscribeRun(n) =>
            /\ up' \in Seq(Requests)
            /\ transport' \in [open : BOOLEAN, subscribed : BOOLEAN, lastSeq : Nat]
      /\ \A r \in BOOLEAN : LoadRun(r) => up' \in Seq(Requests) /\ StoreTyped'
      /\ SendRequest("unsubscribe", 0) => up' \in Seq(Requests)
  BY TypesOfRequests DEF StoreTyped
<1>b. <<>> \in Seq(Nat) /\ <<>> \in Seq(Requests)
  OBVIOUS
<1>1. CASE OpenRun
  <2>1. bounds' \in [opens : Nat, drops : Nat, repeats : Nat]
    BY <1>0, <1>1 DEF OpenRun
  <2>2. /\ LoadRun(FALSE)
        /\ UNCHANGED <<logVars, serverVars, down, transport, batch, lapses>>
    BY <1>1 DEF OpenRun
  <2> QED BY <1>0, <1>a, <1>z, <2>1, <2>2
<1>2. CASE OpenNewRun
  <2>1. bounds' \in [opens : Nat, drops : Nat, repeats : Nat]
    BY <1>0, <1>2 DEF OpenNewRun
  <2>2. StoreTyped'
    <3>1. store' = [store EXCEPT !.phase = "open", !.processed = 0, !.shown = <<>>]
      BY <1>2 DEF OpenNewRun
    <3> QED BY <1>0, <1>b, <3>1 DEF StoreTyped, StorePhases
  <2>3. SubscribeRun(0) /\ UNCHANGED <<logVars, serverVars, down, batch, lapses>>
    BY <1>2 DEF OpenNewRun
  <2> QED BY <1>0, <1>a, <1>z, <2>1, <2>2, <2>3
<1>3. CASE Repeat
  <2>1. bounds' \in [opens : Nat, drops : Nat, repeats : Nat]
    BY <1>0, <1>3 DEF Repeat
  <2>2. SubscribeRun(0) /\ UNCHANGED <<logVars, serverVars, down, batch, store, lapses>>
    BY <1>3 DEF Repeat
  <2> QED BY <1>0, <1>a, <1>z, <2>1, <2>2 DEF StoreTyped
<1>4. CASE CloseRun
  <2>1. StoreTyped'
    <3>1. store' = [store EXCEPT !.phase = "closed", !.processed = 0, !.shown = <<>>]
      BY <1>4 DEF CloseRun
    <3> QED BY <1>0, <1>b, <3>1 DEF StoreTyped, StorePhases
  <2>2. /\ transport' \in [open : BOOLEAN, subscribed : BOOLEAN, lastSeq : Nat]
        /\ up' \in Seq(Requests)
    <3>1. CASE transport.subscribed
      <4>1. /\ transport' = [transport EXCEPT !.subscribed = FALSE, !.lastSeq = 0]
            /\ SendRequest("unsubscribe", 0)
        BY <1>4, <3>1 DEF CloseRun
      <4> QED BY <1>0, <1>a, <4>1
    <3>2. CASE ~transport.subscribed
      BY <1>0, <1>4, <3>2 DEF CloseRun
    <3> QED BY <3>1, <3>2
  <2>3. batch' = <<>> /\ UNCHANGED <<logVars, serverVars, down, lapses, bounds>>
    BY <1>4 DEF CloseRun
  <2> QED BY <1>0, <1>b, <1>z, <2>1, <2>2, <2>3
<1>f. ASSUME NEW kind, TakeFrame(kind)
      PROVE  /\ down' \in Seq(Frames) /\ Head(down).seq \in Nat /\ Head(down).list \in Seq(Nat)
             /\ UNCHANGED <<logVars, serverVars, bounds>>
  <2>1. down # <<>> /\ down' = Tail(down) /\ UNCHANGED <<logVars, serverVars, bounds>>
    BY <1>f DEF TakeFrame
  <2>2. Head(down) \in Frames /\ Tail(down) \in Seq(Frames)
    BY <1>0, <2>1
  <2> QED BY <2>1, <2>2 DEF Frames
<1>5. CASE ReceiveEvent
  <2> DEFINE seq == Head(down).seq
  <2>1. TakeFrame("event") /\ UNCHANGED <<up, store>>
    BY <1>5 DEF ReceiveEvent
  <2>2. seq \in Nat
    BY <1>f, <2>1
  <2>3. transport' \in [open : BOOLEAN, subscribed : BOOLEAN, lastSeq : Nat]
    <3>1. Maximum(transport.lastSeq, seq) \in Nat
      BY <1>0, <2>2, TypesOfValues
    <3>2. transport' = [transport EXCEPT !.lastSeq = Maximum(transport.lastSeq, seq)]
      BY <1>5 DEF ReceiveEvent
    <3> HIDE DEF seq
    <3> QED BY <1>0, <3>1, <3>2
  <2>4. batch' \in Seq(Nat)
    <3>1. batch' = batch \/ batch' = Append(batch, seq)
      BY <1>5 DEF ReceiveEvent
    <3> HIDE DEF seq
    <3>2. Append(batch, seq) \in Seq(Nat)
      BY <1>0, <2>2, AppendProperties
    <3> QED BY <1>0, <3>1, <3>2
  <2>5. lapses' \subseteq Lapses
    BY <1>0, <1>5 DEF ReceiveEvent, Lapses
  <2> QED BY <1>0, <1>f, <1>z, <2>1, <2>3, <2>4, <2>5 DEF StoreTyped
<1>6. CASE FlushBatch
  <2>1. /\ batch # <<>> /\ batch' = <<>>
        /\ UNCHANGED <<logVars, serverVars, up, down, transport, lapses, bounds>>
    BY <1>6 DEF FlushBatch
  <2>2. StoreTyped'
    <3>1. CASE Len(batch) = 1
      <4>1. batch[1] \in Nat
        <5>1. 1 \in 1..Len(batch)
          BY <3>1
        <5> QED BY <1>0, <5>1, ElementOfSeq
      <4>2. Append(store.shown, batch[1]) \in Seq(Nat)
        BY <1>0, <4>1, AppendProperties
      <4>3. \/ store' = store
            \/ store' = [store EXCEPT !.processed = batch[1],
                                      !.shown = Append(store.shown, batch[1])]
        BY <1>6, <3>1 DEF FlushBatch
      <4> QED BY <1>0, <4>1, <4>2, <4>3 DEF StoreTyped
    <3>2. CASE Len(batch) # 1
      <4>1. PICK newest \in {batch[i] : i \in DOMAIN batch} :
                store' = [store EXCEPT !.processed = Maximum(store.processed, newest),
                                       !.shown = store.shown \o batch]
        BY <1>6, <3>2 DEF FlushBatch
      <4>2. newest \in Nat
        <5>1. PICK i \in DOMAIN batch : newest = batch[i]
          OBVIOUS
        <5> QED BY <1>0, <5>1, ElementAt
      <4>3. Maximum(store.processed, newest) \in Nat
        BY <1>0, <4>2, TypesOfValues
      <4>4. store.shown \o batch \in Seq(Nat)
        BY <1>0, ConcatProperties
      <4> QED BY <1>0, <4>1, <4>3, <4>4 DEF StoreTyped
    <3> QED BY <3>1, <3>2
  <2> QED BY <1>0, <1>b, <1>z, <2>1, <2>2
<1>7. CASE ReceiveLoaded
  <2> DEFINE list == Head(down).list
  <2> DEFINE last == IF list = <<>> THEN 0 ELSE list[Len(list)]
  <2> DEFINE s == IF store.reloading = Head(down).seq THEN [store EXCEPT !.reloading = 0]
                  ELSE store
  <2>1. TakeFrame("loaded") /\ UNCHANGED <<batch, lapses>>
    BY <1>7 DEF ReceiveLoaded
  <2>2. list \in Seq(Nat) /\ last \in Nat
    <3>1. list \in Seq(Nat)
      BY <1>f, <2>1
    <3>2. CASE list # <<>>
      <4> HIDE DEF list
      <4>1. Len(list) \in 1..Len(list)
        BY <3>1, <3>2
      <4>2. list[Len(list)] \in Nat
        BY <3>1, <4>1, ElementOfSeq
      <4> QED BY <3>1, <3>2, <4>2
    <3> QED BY <3>1, <3>2
  <2>3. s \in [phase : StorePhases, processed : Nat, shown : Seq(Nat), gen : Nat,
               reloading : Nat] /\ s.processed = store.processed /\ s.shown = store.shown
    BY <1>0 DEF StoreTyped
  <2>4. CASE store.phase = "loading" /\ store.gen = Head(down).seq
    <3>1. /\ SubscribeRun(last)
          /\ store' = [s EXCEPT !.phase = "open", !.shown = s.shown \o list,
                                !.processed = Maximum(s.processed, last)]
      BY <1>7, <2>4 DEF ReceiveLoaded
    <3>2. s.shown \o list \in Seq(Nat) /\ Maximum(s.processed, last) \in Nat
      <4> HIDE DEF s, list, last
      <4> QED BY <1>0, <2>2, <2>3, ConcatProperties, TypesOfValues
    <3>3. StoreTyped'
      <4> HIDE DEF s, list, last
      <4> QED BY <2>3, <3>1, <3>2 DEF StoreTyped, StorePhases
    <3> HIDE DEF last
    <3> QED BY <1>0, <1>a, <1>f, <1>z, <2>1, <2>2, <3>1, <3>3
  <2>5. CASE ~(store.phase = "loading" /\ store.gen = Head(down).seq)
    <3>1. store' = s /\ UNCHANGED <<transport, up>>
      BY <1>7, <2>5 DEF ReceiveLoaded
    <3> HIDE DEF s
    <3>2. StoreTyped'
      BY <2>3, <3>1 DEF StoreTyped
    <3> QED BY <1>0, <1>f, <1>z, <2>1, <3>1, <3>2
  <2> QED BY <2>4, <2>5
<1>8. CASE ReceiveReload
  <2>1. TakeFrame("reload") /\ UNCHANGED batch
    BY <1>8 DEF ReceiveReload
  <2>2. transport' \in [open : BOOLEAN, subscribed : BOOLEAN, lastSeq : Nat]
    BY <1>0, <1>8 DEF ReceiveReload
  <2>3. StoreTyped' /\ up' \in Seq(Requests)
    BY <1>0, <1>8, <1>a DEF ReceiveReload, StoreTyped
  <2>4. lapses' \subseteq Lapses
    BY <1>0, <1>8 DEF ReceiveReload, Lapses
  <2> QED BY <1>0, <1>f, <1>z, <2>1, <2>2, <2>3, <2>4
<1>9. CASE Reconnect
  <2>1. transport' \in [open : BOOLEAN, subscribed : BOOLEAN, lastSeq : Nat]
    BY <1>0, <1>9 DEF Reconnect
  <2>2. up' \in Seq(Requests)
    <3> DEFINE r == [kind |-> "subscribe", seq |-> transport.lastSeq]
    <3>1. r \in Requests
      BY <1>0 DEF Requests
    <3>2. up' = <<r>> \/ up' = <<>>
      BY <1>9 DEF Reconnect, Resubscribe
    <3> HIDE DEF r
    <3>3. <<r>> \in Seq(Requests)
      BY <3>1
    <3> QED BY <1>b, <3>2, <3>3
  <2>3. UNCHANGED <<logVars, serverVars, down, batch, store, lapses, bounds>>
    BY <1>9 DEF Reconnect
  <2> QED BY <1>0, <1>z, <2>1, <2>2, <2>3 DEF StoreTyped
<1> QED BY <1>1, <1>2, <1>3, <1>4, <1>5, <1>6, <1>7, <1>8, <1>9 DEF User, Browser

\* Every step keeps the types.
LEMMA NextTypes == TypeInv /\ [Next]_vars => TypeInv'
<1> SUFFICES ASSUME TypeInv, [Next]_vars PROVE TypeInv'
  OBVIOUS
<1>1. IInv'
  BY StepOfLog, NextIInv DEF TypeInv
<1>2. DeliveryTypes
  BY DEF TypeInv
<1>3. CASE Persist
  <2>1. lapses' \subseteq Lapses
    BY <1>2, <1>3 DEF Persist, Glued, DeliveryTypes, Lapses
  <2>2. UNCHANGED <<serverVars, up, down, clientVars, bounds>>
    BY <1>3 DEF Persist
  <2> QED BY <1>1, <1>2, <2>1, <2>2 DEF TypeInv, DeliveryTypes, serverVars, clientVars
<1>4. ASSUME NEW e \in Emitters, Broadcast(e) PROVE TypeInv'
  <2> DEFINE seq == emitter[e].seq
  <2>1. lapses' \subseteq Lapses
    BY <1>2, <1>4 DEF Broadcast, DeliveryTypes, Lapses
  <2>2. seq \in Nat
    BY DEF TypeInv, IInv, LogTypeOK
  <2>3. channel \in Seq(Nat) /\ Len(channel) <= ChannelCap /\ ChannelCap \in Nat \ {0}
    BY <1>2, DeliveryAssumption DEF DeliveryTypes
  <2>4. channel' \in Seq(Nat) /\ Len(channel') <= ChannelCap
    <3>1. \/ channel' = channel
          \/ Len(channel) < ChannelCap /\ channel' = Append(channel, seq)
          \/ ~(Len(channel) < ChannelCap) /\ channel' = Append(Tail(channel), seq)
      BY <1>4 DEF Broadcast
    <3> HIDE DEF seq
    <3>2. CASE Len(channel) < ChannelCap /\ channel' = Append(channel, seq)
      BY <2>2, <2>3, <3>2
    <3>3. CASE ~(Len(channel) < ChannelCap) /\ channel' = Append(Tail(channel), seq)
      <4>1. Len(channel) = ChannelCap /\ channel # <<>>
        BY <2>3, <3>3
      <4>2. Tail(channel) \in Seq(Nat) /\ Len(Tail(channel)) = ChannelCap - 1
        BY <2>3, <4>1
      <4> QED BY <2>2, <2>3, <3>3, <4>2
    <3> QED BY <2>3, <3>1, <3>2, <3>3
  <2>5. lagged' \in BOOLEAN
    BY <1>2, <1>4 DEF Broadcast, DeliveryTypes
  <2>6. UNCHANGED <<session, task, up, down, clientVars, bounds>>
    BY <1>4 DEF Broadcast
  <2> QED BY <1>1, <1>2, <2>1, <2>4, <2>5, <2>6 DEF TypeInv, DeliveryTypes, clientVars
<1>5. CASE Disconnect
  <2>1. lapses' \subseteq Lapses
    BY <1>2, <1>5 DEF Disconnect, ReloadLost, DeliveryTypes, Lapses
  <2>2. bounds' \in [opens : Nat, drops : Nat, repeats : Nat]
    <3>1. bounds \in [opens : Nat, drops : Nat, repeats : Nat] /\ bounds.drops + 1 \in Nat
      BY <1>2 DEF DeliveryTypes
    <3> QED BY <1>5, <3>1 DEF Disconnect
  <2>3. DropConnection
    BY <1>5 DEF Disconnect
  <2> QED BY <1>1, <1>2, <2>1, <2>2, <2>3, TypesAfterDrop DEF TypeInv
<1>6. CASE ServerRestart
  <2>1. lapses' \subseteq Lapses
    BY <1>2, <1>6 DEF ServerRestart, ReloadLost, Glued, DeliveryTypes, Lapses
  <2>2. DropConnection /\ bounds' \in [opens : Nat, drops : Nat, repeats : Nat]
    BY <1>2, <1>6 DEF ServerRestart, DeliveryTypes
  <2> QED BY <1>1, <1>2, <2>1, <2>2, TypesAfterDrop DEF TypeInv
<1>7. CASE UNCHANGED vars
  BY <1>1, <1>2, <1>7 DEF TypeInv, DeliveryTypes, vars, deliveryVars, serverVars, clientVars
<1>8. CASE Forward \/ (\E t \in Tasks : ReplayStep(t)) \/ CoolDown \/ Command
  BY <1>1, <1>8, ServerTypes DEF TypeInv
<1>9. CASE User \/ Browser \/ Reconnect
  BY <1>1, <1>2, <1>9, ClientTypes DEF TypeInv
<1> QED BY <1>3, <1>4, <1>5, <1>6, <1>7, <1>8, <1>9 DEF Next

\* The types of the delivery hold in every reachable state: the channel and the buffer of a
\* replay keep within their capacities, and every number comes from the log.
THEOREM DeliveryTypeCorrect == Spec => []TypeOK
<1>1. TypeInv => TypeOK
  BY DEF TypeInv, DeliveryTypes, IInv, TypeOK
<1> QED BY <1>1, InitTypes, NextTypes, PTL DEF Spec

-----------------------------------------------------------------------------
(* What a view shows, as long as no lapse has happened *)

\* No lapse has happened.
Clean == lapses = {}

Forwarder == task["forward"]
Commander == task["command"]

\* s has a thing of this kind; one with this number; and none of kind after follows it.
HasKind(s, kind)    == \E i \in DOMAIN s : s[i].kind = kind
Carries(s, kind, n) == \E i \in DOMAIN s : s[i].kind = kind /\ s[i].seq = n
NoneFollows(s, kind, n, after) ==
    \A i, j \in DOMAIN s : i < j /\ s[i].kind = kind /\ s[i].seq = n => s[j].kind # after

\* The numbers a sequence has.
Elems(s) == {n \in Nat : In(s, n)}

\* A subscription that is on its way asks for what is newer than n or more.
Asked(n) == \E i \in DOMAIN up : up[i].kind = "subscribe" /\ n <= up[i].seq

\* An emitter has written n and not broadcast it yet.
Written(n) == \E e \in Emitters : emitter[e].pc = "written" /\ emitter[e].seq = n

-----------------------------------------------------------------------------
(* The browser's requests *)

\* Loads are answered in the order they are asked for, and the one that a full reload
\* started, if any, is on its way.
LoadsInv ==
    /\ \A n \in Nat : Carries(up, "load", n) => n \in 1..store.gen
    /\ Ascending(up, "load")
    /\ Commander.pc = "respond" =>
          /\ Commander.seq \in 1..store.gen
          /\ \A n \in Nat : Carries(up, "load", n) => Commander.seq < n
    /\ \A n \in Nat : Carries(down, "loaded", n) =>
          /\ n \in 1..store.gen
          /\ Commander.pc = "respond" => n < Commander.seq
          /\ \A m \in Nat : Carries(up, "load", m) => n < m
    /\ Ascending(down, "loaded")
    /\ store.reloading # 0 =>
          /\ store.phase # "open"
          /\ \/ Carries(up, "load", store.reloading)
             \/ Commander.pc = "respond" /\ Commander.seq = store.reloading
             \/ Carries(down, "loaded", store.reloading)

\* The connection holds nothing.
Quiet ==
    /\ up = <<>> /\ down = <<>> /\ channel = <<>> /\ ~lagged /\ session = NoSession
    /\ task = [t \in Tasks |-> Resting]

\* The run was not opened yet.
Untouched ==
    /\ up = <<>> /\ down = <<>> /\ session = NoSession /\ task = [t \in Tasks |-> Resting]
    /\ store.phase = "closed" /\ store.gen = 0 /\ ~transport.subscribed

\* What a view asks for, by its phase.
ClientInv ==
    /\ ~transport.open => Quiet
    /\ bounds.opens = 0 => Untouched
    /\ store.phase = "loading" => transport.open
    /\ store.phase = "loading" /\ up # <<>> =>
          up[Len(up)].kind = "load" /\ up[Len(up)].seq = store.gen
    /\ store.phase = "open" => \A i \in DOMAIN up : up[i].kind = "subscribe"
    /\ transport.subscribed <=> store.phase = "open"
    /\ store.phase = "closed" => batch = <<>>

-----------------------------------------------------------------------------
(* The way from the file to the socket *)

\* No more than a number that can be read in the file.
Known(n) == n = 0 \/ \E i \in Parse(file) : n <= file[i].seq

\* Numbers on their way.
Around(n) ==
    \/ In(channel, n) \/ In(session.buffer, n) \/ Written(n)
    \/ n = session.cp \/ n = transport.lastSeq
    \/ Carries(down, "event", n) \/ Carries(up, "subscribe", n)
    \/ n = Forwarder.max \/ n = Forwarder.seq \/ In(Forwarder.todo, n)
    \/ n = Commander.max
    \/ Commander.pc # "respond" /\ (n = Commander.seq \/ In(Commander.todo, n))

\* Numbers on their way come from the file.
NumbersInv ==
    /\ \A n \in Nat : Around(n) => Known(n)
    /\ \A n \in KeptSeqs : n # 0

\* What the two tasks may do at a time.
ModeInv ==
    /\ Forwarder.pc \in {"rest", "send", "mark", "read", "replay"}
    /\ Commander.pc \in {"rest", "read", "replay", "flush", "reload", "respond"}
    /\ ~session.on => ~session.replaying
    /\ Replaying("command") => session.on /\ session.replaying /\ Forwarder.pc = "rest"
    /\ session.replaying => Replaying("forward") \/ Replaying("command")
    /\ session.on /\ Replaying("forward") => session.replaying
    /\ session.buffer # <<>> => Replaying("command")
    /\ Forwarder.max = 0
    /\ Commander.pc # "flush" => Commander.max = 0
    /\ Forwarder.pc = "read" /\ session.on => Forwarder.seq = session.cp
    /\ Commander.pc \in {"read", "flush"} => Commander.seq = session.cp

\* Numbers a_forward will still receive.
Queued(n) == In(channel, n) \/ Written(n)

\* What is still to be replayed is all that is newer than the checkpoint, in order.
ReplayInv(t) ==
    task[t].pc = "replay" =>
        /\ Increasing(task[t].todo)
        /\ session.on =>
              /\ \A n \in Nat : In(task[t].todo, n) => n > session.cp
              /\ \A n \in Nat, m \in KeptSeqs :
                    In(task[t].todo, n) /\ session.cp < m /\ m <= n => In(task[t].todo, m)

\* Numbers travel in order.
OrderInv ==
    /\ Increasing(channel)
    /\ \A n, m \in Nat : In(channel, n) /\ Written(m) => n < m
    /\ \A e, f \in Emitters : /\ emitter[e].pc = "written" /\ emitter[f].pc = "written"
                              /\ emitter[e].seq = emitter[f].seq
                              => e = f
    /\ Forwarder.pc \in {"send", "mark"} => \A n \in Nat : Queued(n) => Forwarder.seq < n
    /\ Forwarder.pc = "send" /\ session.on => session.cp < Forwarder.seq
    /\ Increasing(session.buffer)
    /\ \A n, m \in Nat : In(session.buffer, n) /\ Queued(m) => n < m
    /\ Commander.pc = "flush" =>
          /\ Increasing(Commander.todo)
          /\ \A n \in Nat : In(Commander.todo, n) =>
                /\ Commander.max < n \/ n <= Commander.seq
                /\ \A m \in Nat : In(session.buffer, m) \/ Queued(m) => n < m
    /\ ReplayInv("forward")
    /\ ReplayInv("command")

-----------------------------------------------------------------------------
(* The view *)

\* The server has sent what it keeps up to n.
Sent(n) ==
    session.on /\ \/ n <= session.cp
                  \/ Forwarder.pc = "mark" /\ n <= Forwarder.seq
                  \/ n <= Commander.max

\* n was sent, or need not be: the client asks for what is newer.
Within(n) == Sent(n) \/ Asked(n)

\* Nothing later than n has left the way from the file.
Later(n) ==
    /\ \A m \in Nat : In(session.buffer, m) => m < n
    /\ Forwarder.pc = "send" => Forwarder.seq < n
    /\ Commander.pc = "flush" => \A m \in Nat : In(Commander.todo, m) => m < n

\* n will be sent: from where it waits, or by a catch-up or a reload that is due.
Coming(n) ==
    \/ Replaying("forward") /\ In(Forwarder.todo, n)
    \/ Replaying("command") /\ In(Commander.todo, n)
    \/ In(session.buffer, n)
    \/ Queued(n)
    \/ Forwarder.pc = "send" /\ n = Forwarder.seq
    \/ (lagged \/ Len(session.buffer) >= BufferCap) /\ Later(n)
    \/ torn /\ file[Len(file)].kind = "kept" /\ n = file[Len(file)].seq

\* A replay is about to read the log.
Reading == Forwarder.pc = "read" \/ Commander.pc = "read"

\* got has every kept event that was sent or need not be, and the others will be sent.
Complete(got) ==
    /\ \A n \in KeptSeqs : Within(n) \/ n <= transport.lastSeq => n \in got
    /\ session.on /\ ~Reading => \A n \in KeptSeqs : n \in got \/ Coming(n)

\* What an open view shows or is about to.
View == {n \in Nat : In(store.shown, n) \/ In(batch, n) \/ Carries(down, "event", n)}

\* The answers to the load that the view waits for.
Lists(s, n) == {s[i].list : i \in {j \in DOMAIN s : s[j].kind = "loaded" /\ s[j].seq = n}}
Answers ==
    Lists(down, store.gen)
    \cup (IF Commander.pc = "respond" /\ Commander.seq = store.gen THEN {Commander.todo} ELSE {})

\* A beginning of what is kept.
Beginning(list) ==
    /\ Increasing(list)
    /\ \A n \in Nat : In(list, n) => n \in KeptSeqs
    /\ \A n \in Nat, m \in KeptSeqs : In(list, n) /\ m <= n => In(list, m)

\* What is shown, what waits for a frame and what is on the socket follow one another.
ViewInOrder ==
    /\ Increasing(store.shown)
    /\ \A n \in Nat : In(store.shown, n) => n <= store.processed
    /\ Increasing(batch)
    /\ \A n \in Nat : In(batch, n) => store.processed < n /\ n <= transport.lastSeq
    /\ store.processed <= transport.lastSeq
    /\ Ascending(down, "event")
    /\ \A n \in Nat : Carries(down, "event", n) => transport.lastSeq < n /\ Within(n)
    /\ transport.open => Within(transport.lastSeq)

\* No event meets the load, and its answer is a beginning that the session goes on from.
LoadInOrder ==
    /\ batch = <<>> /\ store.shown = <<>> /\ store.processed = 0
    /\ NoneFollows(down, "loaded", store.gen, "event")
    /\ Answers # {} => ~Replaying("command") /\ Commander.pc # "reload"
    /\ \A list \in Answers : Beginning(list) /\ Complete(Elems(list))

\* A view that is open, and one that is loading.
ViewInv ==
    /\ store.phase = "open" /\ ~ReloadPending => ViewInOrder /\ Complete(View)
    /\ store.phase = "loading" => LoadInOrder

\* The invariant of the delivery, while no lapse has happened.
DeliveryInv ==
    /\ LoadsInv
    /\ ClientInv
    /\ NumbersInv
    /\ ModeInv
    /\ OrderInv
    /\ ViewInv

CleanInv == Clean => DeliveryInv

-----------------------------------------------------------------------------
(* Facts about sequences of requests and frames *)

\* What a sequence of requests or frames carries when one more is sent.
LEMMA CarriedAppended ==
    ASSUME NEW S, NEW s \in Seq(S), NEW x \in S
    PROVE  /\ \A k : HasKind(Append(s, x), k) <=> HasKind(s, k) \/ x.kind = k
           /\ \A k, n : Carries(Append(s, x), k, n) <=>
                            Carries(s, k, n) \/ (x.kind = k /\ x.seq = n)
           /\ \A k, n, a : NoneFollows(s, k, n, a) /\ (x.kind = a => ~Carries(s, k, n))
                               => NoneFollows(Append(s, x), k, n, a)
           /\ \A n : Lists(Append(s, x), n) =
                         Lists(s, n) \cup (IF x.kind = "loaded" /\ x.seq = n THEN {x.list} ELSE {})
           /\ \A k : /\ Ascending(s, k)
                     /\ x.kind = k => \A n : Carries(s, k, n) => n < x.seq
                     => Ascending(Append(s, x), k)
<1> DEFINE t == Append(s, x)
<1>1. /\ DOMAIN t = 1..(Len(s) + 1) /\ DOMAIN s = 1..Len(s) /\ Len(s) \in Nat
      /\ \A i \in DOMAIN s : t[i] = s[i]
      /\ t[Len(s) + 1] = x
  OBVIOUS
<1>a. \A k : /\ Ascending(s, k)
             /\ x.kind = k => \A y : In(s, y) /\ y.kind = k => y.seq < x.seq
             => Ascending(t, k)
  BY IncreasingAppended
<1> HIDE DEF t
<1>2. /\ \A i : i \in DOMAIN t <=> i \in DOMAIN s \/ i = Len(s) + 1
      /\ \A i, j \in DOMAIN t : i < j => i \in DOMAIN s
  BY <1>1
<1>3. \A k : HasKind(t, k) <=> HasKind(s, k) \/ x.kind = k
  BY <1>1, <1>2 DEF HasKind
<1>4. \A k, n : Carries(t, k, n) <=> Carries(s, k, n) \/ (x.kind = k /\ x.seq = n)
  BY <1>1, <1>2 DEF Carries
<1>5. \A k, n, a : NoneFollows(s, k, n, a) /\ (x.kind = a => ~Carries(s, k, n))
                       => NoneFollows(t, k, n, a)
  BY <1>1, <1>2 DEF NoneFollows, Carries
<1>6. \A n : Lists(t, n) =
                 Lists(s, n) \cup (IF x.kind = "loaded" /\ x.seq = n THEN {x.list} ELSE {})
  <2> SUFFICES ASSUME NEW n, NEW l
               PROVE  l \in Lists(t, n) <=>
                          l \in Lists(s, n) \/ (x.kind = "loaded" /\ x.seq = n /\ l = x.list)
    OBVIOUS
  <2>1. l \in Lists(t, n) <=> \E i \in DOMAIN t : t[i].kind = "loaded" /\ t[i].seq = n /\ l = t[i].list
    BY DEF Lists
  <2>2. l \in Lists(s, n) <=> \E i \in DOMAIN s : s[i].kind = "loaded" /\ s[i].seq = n /\ l = s[i].list
    BY DEF Lists
  <2> QED BY <1>1, <1>2, <2>1, <2>2
<1>7. ASSUME NEW k, Ascending(s, k), x.kind = k => \A n : Carries(s, k, n) => n < x.seq
      PROVE  Ascending(t, k)
  BY <1>a, <1>7 DEF Carries, In
<1> QED BY <1>3, <1>4, <1>5, <1>6, <1>7 DEF t

\* What it carries when its first one is taken.
LEMMA CarriedTaken ==
    ASSUME NEW S, NEW s \in Seq(S), s # <<>>
    PROVE  /\ \A k : HasKind(s, k) <=> HasKind(Tail(s), k) \/ Head(s).kind = k
           /\ \A k, n : Carries(s, k, n) <=>
                            Carries(Tail(s), k, n) \/ (Head(s).kind = k /\ Head(s).seq = n)
           /\ \A k, n, a : NoneFollows(s, k, n, a) =>
                  /\ NoneFollows(Tail(s), k, n, a)
                  /\ Head(s).kind = k /\ Head(s).seq = n => ~HasKind(Tail(s), a)
           /\ \A n : Lists(s, n) =
                         Lists(Tail(s), n) \cup
                         (IF Head(s).kind = "loaded" /\ Head(s).seq = n THEN {Head(s).list} ELSE {})
           /\ \A k : Ascending(s, k) =>
                  /\ Ascending(Tail(s), k)
                  /\ Head(s).kind = k => \A n : Carries(Tail(s), k, n) => Head(s).seq < n
<1> DEFINE t == Tail(s)
<1>1. /\ DOMAIN t = 1..(Len(s) - 1) /\ DOMAIN s = 1..Len(s) /\ Len(s) \in Nat \ {0}
      /\ \A i \in DOMAIN t : t[i] = s[i + 1]
      /\ Head(s) = s[1]
  OBVIOUS
<1>a. \A k : Ascending(s, k) =>
          /\ Ascending(t, k)
          /\ Head(s).kind = k => \A y : In(t, y) /\ y.kind = k => Head(s).seq < y.seq
  BY IncreasingTaken
<1> HIDE DEF t
<1>2. /\ \A i \in DOMAIN t : i + 1 \in DOMAIN s /\ 1 < i + 1 /\ i \in Nat
      /\ \A i \in DOMAIN s : i = 1 \/ (i - 1 \in DOMAIN t /\ t[i - 1] = s[i])
      /\ 1 \in DOMAIN s
      /\ \A i, j \in DOMAIN t : i < j => i + 1 < j + 1
  BY <1>1
<1>h. /\ \A i \in DOMAIN t : t[i] = s[i + 1]
      /\ Head(s) = s[1]
  BY <1>1
<1>3. \A k : HasKind(s, k) <=> HasKind(t, k) \/ Head(s).kind = k
  BY <1>h, <1>2 DEF HasKind
<1>4. \A k, n : Carries(s, k, n) <=> Carries(t, k, n) \/ (Head(s).kind = k /\ Head(s).seq = n)
  <2> TAKE k, n
  <2>1. ASSUME Carries(s, k, n) PROVE Carries(t, k, n) \/ (Head(s).kind = k /\ Head(s).seq = n)
    <3>1. PICK i \in DOMAIN s : s[i].kind = k /\ s[i].seq = n
      BY <2>1 DEF Carries
    <3>2. i = 1 \/ (i - 1 \in DOMAIN t /\ t[i - 1] = s[i])
      BY <1>2
    <3> QED BY <1>h, <3>1, <3>2 DEF Carries
  <2>2. ASSUME Carries(t, k, n) PROVE Carries(s, k, n)
    <3>1. PICK i \in DOMAIN t : t[i].kind = k /\ t[i].seq = n
      BY <2>2 DEF Carries
    <3> QED BY <1>h, <1>2, <3>1 DEF Carries
  <2>3. Head(s).kind = k /\ Head(s).seq = n => Carries(s, k, n)
    BY <1>h, <1>2 DEF Carries
  <2> QED BY <2>1, <2>2, <2>3
<1>5. \A k, n, a : NoneFollows(s, k, n, a) =>
          /\ NoneFollows(t, k, n, a)
          /\ Head(s).kind = k /\ Head(s).seq = n => ~HasKind(t, a)
  <2> SUFFICES ASSUME NEW k, NEW n, NEW a, NoneFollows(s, k, n, a)
               PROVE  /\ NoneFollows(t, k, n, a)
                      /\ Head(s).kind = k /\ Head(s).seq = n => ~HasKind(t, a)
    OBVIOUS
  <2>1. \A i, j \in DOMAIN s : i < j /\ s[i].kind = k /\ s[i].seq = n => s[j].kind # a
    BY DEF NoneFollows
  <2>2. ASSUME NEW i \in DOMAIN t, NEW j \in DOMAIN t, i < j, t[i].kind = k, t[i].seq = n
        PROVE  t[j].kind # a
    <3>1. i + 1 \in DOMAIN s /\ j + 1 \in DOMAIN s /\ i + 1 < j + 1
      BY <1>2, <2>2
    <3> QED BY <1>h, <2>1, <2>2, <3>1
  <2>3. ASSUME Head(s).kind = k, Head(s).seq = n, NEW j \in DOMAIN t PROVE t[j].kind # a
    <3>1. 1 \in DOMAIN s /\ j + 1 \in DOMAIN s /\ 1 < j + 1
      BY <1>2
    <3> QED BY <1>h, <2>1, <2>3, <3>1
  <2>4. NoneFollows(t, k, n, a)
    BY <2>2 DEF NoneFollows
  <2>5. Head(s).kind = k /\ Head(s).seq = n => ~HasKind(t, a)
    BY <2>3 DEF HasKind
  <2> QED BY <2>4, <2>5
<1>6. \A n : Lists(s, n) =
                 Lists(t, n) \cup
                 (IF Head(s).kind = "loaded" /\ Head(s).seq = n THEN {Head(s).list} ELSE {})
  <2> SUFFICES ASSUME NEW n, NEW l
               PROVE  l \in Lists(s, n) <=>
                          \/ l \in Lists(t, n)
                          \/ Head(s).kind = "loaded" /\ Head(s).seq = n /\ l = Head(s).list
    OBVIOUS
  <2>1. l \in Lists(t, n) <=> \E i \in DOMAIN t : t[i].kind = "loaded" /\ t[i].seq = n /\ l = t[i].list
    BY DEF Lists
  <2>2. l \in Lists(s, n) <=> \E i \in DOMAIN s : s[i].kind = "loaded" /\ s[i].seq = n /\ l = s[i].list
    BY DEF Lists
  <2> QED BY <1>1, <1>2, <2>1, <2>2
<1>7. \A k : Ascending(s, k) =>
          /\ Ascending(t, k)
          /\ Head(s).kind = k => \A n : Carries(t, k, n) => Head(s).seq < n
  BY <1>a DEF Carries, In
<1> QED BY <1>3, <1>4, <1>5, <1>6, <1>7 DEF t

\* An empty sequence carries nothing.
LEMMA NothingCarried ==
    /\ \A k : ~HasKind(<<>>, k) /\ Ascending(<<>>, k)
    /\ \A k, n : ~Carries(<<>>, k, n)
    /\ \A k, n, a : NoneFollows(<<>>, k, n, a)
    /\ \A n : Lists(<<>>, n) = {}
    /\ Increasing(<<>>)
BY DEF HasKind, Carries, NoneFollows, Lists, Ascending, Increasing

-----------------------------------------------------------------------------
(* What the parts of the invariant need of a step *)

\* The types of what the proofs below speak of.
LEMMA Facts ==
    ASSUME TypeInv
    PROVE  /\ channel \in Seq(Nat) /\ session.buffer \in Seq(Nat) /\ up \in Seq(Requests)
           /\ down \in Seq(Frames) /\ batch \in Seq(Nat) /\ store.shown \in Seq(Nat)
           /\ session.on \in BOOLEAN /\ session.replaying \in BOOLEAN /\ session.cp \in Nat
           /\ session \in Sessions /\ Len(session.buffer) \in Nat /\ BufferCap \in Nat \ {0}
           /\ transport \in [open : BOOLEAN, subscribed : BOOLEAN, lastSeq : Nat]
           /\ store \in [phase : StorePhases, processed : Nat, shown : Seq(Nat), gen : Nat,
                         reloading : Nat]
           /\ task \in [Tasks -> TaskStates] /\ {"forward", "command"} = Tasks
           /\ Forwarder.seq \in Nat /\ Forwarder.max \in Nat /\ Forwarder.todo \in Seq(Nat)
           /\ Commander.seq \in Nat /\ Commander.max \in Nat /\ Commander.todo \in Seq(Nat)
           /\ \A e \in Emitters : emitter[e].seq \in Nat
           /\ file \in Seq(Lines)
           /\ \A n \in KeptSeqs : n \in Nat
<1>1. /\ channel \in Seq(Nat) /\ up \in Seq(Requests)
      /\ down \in Seq(Frames) /\ batch \in Seq(Nat)
      /\ session \in Sessions
      /\ transport \in [open : BOOLEAN, subscribed : BOOLEAN, lastSeq : Nat]
      /\ store \in [phase : StorePhases, processed : Nat, shown : Seq(Nat), gen : Nat,
                    reloading : Nat]
      /\ task \in [Tasks -> TaskStates] /\ {"forward", "command"} = Tasks
  BY DEF TypeInv, DeliveryTypes, Tasks
<1>2. /\ session.buffer \in Seq(Nat) /\ session.on \in BOOLEAN /\ session.replaying \in BOOLEAN
      /\ session.cp \in Nat /\ store.shown \in Seq(Nat) /\ Len(session.buffer) \in Nat
  BY <1>1 DEF Sessions
<1>3. /\ Forwarder.seq \in Nat /\ Forwarder.max \in Nat /\ Forwarder.todo \in Seq(Nat)
      /\ Commander.seq \in Nat /\ Commander.max \in Nat /\ Commander.todo \in Seq(Nat)
  BY <1>1 DEF TaskStates, Forwarder, Commander
<1>4. BufferCap \in Nat \ {0}
  BY DeliveryAssumption
<1>5. \A e \in Emitters : emitter[e].seq \in Nat
  BY DEF TypeInv, IInv, LogTypeOK
<1>6. file \in Seq(Lines)
  BY OrderOfInv DEF TypeInv
<1>7. \A n \in KeptSeqs : n \in Nat
  <2> TAKE n \in KeptSeqs
  <2>1. PICK i \in DOMAIN file : n = file[i].seq
    BY DEF KeptSeqs, KeptLines
  <2>3. file[i] \in Lines
    BY <1>6, <2>1, ElementAt
  <2> QED BY <2>1, <2>3 DEF Lines
<1> QED BY <1>1, <1>2, <1>3, <1>4, <1>5, <1>6, <1>7

\* What a sequence of numbers has is a number.
LEMMA InNat == \A s \in Seq(Nat) : \A n : In(s, n) => n \in Nat
<1> TAKE s \in Seq(Nat)
<1> TAKE n
<1>1. HAVE In(s, n)
<1>2. PICK i \in DOMAIN s : s[i] = n
  BY <1>1 DEF In
<1> QED BY <1>2, ElementAt

\* Requests and frames carry numbers.
LEMMA CarriedNat ==
    ASSUME TypeInv
    PROVE  \A k, n : Carries(up, k, n) \/ Carries(down, k, n) => n \in Nat
<1> SUFFICES ASSUME NEW k, NEW n, Carries(up, k, n) \/ Carries(down, k, n)
             PROVE  n \in Nat
  OBVIOUS
<1>0. up \in Seq(Requests) /\ down \in Seq(Frames)
  BY Facts
<1>1. CASE Carries(up, k, n)
  <2>1. PICK i \in DOMAIN up : up[i].seq = n
    BY <1>1 DEF Carries
  <2>3. up[i] \in Requests
    BY <1>0, <2>1, ElementAt
  <2> QED BY <2>1, <2>3 DEF Requests
<1>2. CASE Carries(down, k, n)
  <2>1. PICK i \in DOMAIN down : down[i].seq = n
    BY <1>2 DEF Carries
  <2>3. down[i] \in Frames
    BY <1>0, <2>1, ElementAt
  <2> QED BY <2>1, <2>3 DEF Frames
<1> QED BY <1>1, <1>2

\* What the subscriptions on their way ask for, by what they carry.
LEMMA AskedIs ==
    /\ \A n : Asked(n) <=> \E m : Carries(up, "subscribe", m) /\ n <= m
    /\ \A n : Asked(n)' <=> \E m : Carries(up', "subscribe", m) /\ n <= m
BY DEF Asked, Carries

\* A reload is pending when a task is to send it or the browser has not received it.
LEMMA PendingIs ==
    /\ ReloadPending <=> \/ Forwarder.pc = "reload" \/ Commander.pc = "reload"
                         \/ HasKind(down, "reload")
    /\ ReloadPending' <=> \/ Forwarder'.pc = "reload" \/ Commander'.pc = "reload"
                          \/ HasKind(down', "reload")
BY DEF ReloadPending, Forwarder, Commander, HasKind, Tasks

\* What was sent, or need not be, includes everything before it.
LEMMA WithinBelow ==
    ASSUME TypeInv
    PROVE  \A m \in Nat, n \in Nat : Within(m) /\ n <= m => Within(n)
<1> SUFFICES ASSUME NEW m \in Nat, NEW n \in Nat, Within(m), n <= m
             PROVE  Within(n)
  OBVIOUS
<1>1. session.cp \in Nat /\ Forwarder.seq \in Nat /\ Commander.max \in Nat
  BY Facts
<1>2. CASE Sent(m)
  BY <1>1, <1>2 DEF Sent, Within
<1>3. CASE Asked(m)
  <2>1. PICK k : Carries(up, "subscribe", k) /\ m <= k
    BY <1>3, AskedIs
  <2>2. k \in Nat
    BY <2>1, CarriedNat
  <2>3. n <= k
    BY <2>1, <2>2
  <2> QED BY <2>1, <2>3, AskedIs DEF Within
<1> QED BY <1>2, <1>3 DEF Within

\* The loads on their way are the same.
LEMMA LoadsStay ==
    ASSUME LoadsInv, UNCHANGED store,
           Commander'.pc = "respond" <=> Commander.pc = "respond",
           Commander.pc = "respond" => Commander'.seq = Commander.seq,
           \A n : Carries(up', "load", n) <=> Carries(up, "load", n),
           \A n : Carries(down', "loaded", n) <=> Carries(down, "loaded", n),
           Ascending(up', "load"), Ascending(down', "loaded")
    PROVE  LoadsInv'
BY DEF LoadsInv

\* The file stays as it is, and what is on its way was on its way or is a kept event.
LEMMA NumbersStay ==
    ASSUME TypeInv, NumbersInv, file' = file,
           \A n \in Nat : Around(n)' => Around(n) \/ n \in KeptSeqs \/ n = 0
    PROVE  NumbersInv'
<1>1. KeptSeqs' = KeptSeqs /\ \A n : Known(n)' <=> Known(n)
  BY DEF KeptSeqs, KeptLines, Known
<1>2. \A n \in KeptSeqs : Known(n)
  <2> TAKE n \in KeptSeqs
  <2>1. PICK i \in DOMAIN file : file[i].kind = "kept" /\ n = file[i].seq
    BY DEF KeptSeqs, KeptLines
  <2>2. n \in Nat
    BY Facts
  <2> QED BY <2>1, <2>2 DEF Known, Parse
<1>3. \A n \in Nat : Around(n)' => Known(n)
  BY <1>2 DEF NumbersInv, Known
<1> QED BY <1>1, <1>3 DEF NumbersInv

\* A step of the server: the view is as it was, and what it does to a set of numbers that
\* is complete is said for any set.
LEMMA ViewStays ==
    ASSUME ViewInv, UNCHANGED <<store, batch, transport>>,
           \A n : Carries(down', "event", n) <=> Carries(down, "event", n),
           store.phase = "open" /\ ~ReloadPending' /\ Ascending(down, "event")
               => Ascending(down', "event"),
           NoneFollows(down, "loaded", store.gen, "event") =>
               NoneFollows(down', "loaded", store.gen, "event"),
           ReloadPending => ReloadPending',
           Answers' = Answers,
           store.phase = "loading" /\ Answers # {} =>
               /\ Replaying("command")' => Replaying("command")
               /\ Commander'.pc = "reload" => Commander.pc = "reload",
           \A n \in Nat : Within(n) => Within(n)',
           UNCHANGED KeptSeqs,
           transport.lastSeq \in Nat,
           (\/ store.phase = "open" /\ ~ReloadPending'
            \/ store.phase = "loading" /\ Answers # {})
               => \A got : Complete(got) => Complete(got)'
    PROVE  ViewInv'
<1>1. View' = View
  BY DEF View
<1>2. ASSUME store.phase = "open", ~ReloadPending'
      PROVE  ViewInOrder' /\ Complete(View)'
  <2>1. ViewInOrder /\ Complete(View)
    BY <1>2 DEF ViewInv
  <2>2. ViewInOrder'
    BY <1>2, <2>1 DEF ViewInOrder
  <2>3. Complete(View)'
    BY <1>1, <1>2, <2>1
  <2> QED BY <2>2, <2>3
<1>3. ASSUME store.phase = "loading"
      PROVE  LoadInOrder'
  <2>1. LoadInOrder
    BY <1>3 DEF ViewInv
  <2>2. \A list \in Answers : Beginning(list)' /\ Complete(Elems(list))'
    <3> TAKE list \in Answers
    <3>1. Beginning(list) /\ Complete(Elems(list))
      BY <2>1 DEF LoadInOrder
    <3>2. Complete(Elems(list))'
      BY <1>3, <3>1
    <3>3. Beginning(list)'
      BY <3>1 DEF Beginning
    <3> QED BY <3>2, <3>3
  <2> QED BY <1>3, <2>1, <2>2 DEF LoadInOrder
<1> QED BY <1>2, <1>3 DEF ViewInv

\* A task's record is set.
LEMMA TaskSet ==
    ASSUME TypeInv
    PROVE  /\ \A x : task' = [task EXCEPT !["forward"] = x]
                        => Forwarder' = x /\ Commander' = Commander
           /\ \A x : task' = [task EXCEPT !["command"] = x]
                        => Commander' = x /\ Forwarder' = Forwarder
           /\ task' = task => Forwarder' = Forwarder /\ Commander' = Commander
<1>1. task \in [Tasks -> TaskStates] /\ {"forward", "command"} = Tasks
  BY Facts
<1> QED BY <1>1 DEF Forwarder, Commander

\* What a sequence has without its first element.
LEMMA TakenIn ==
    ASSUME NEW S, NEW s \in Seq(S), s # <<>>
    PROVE  /\ Tail(s) \in Seq(S) /\ Head(s) \in S
           /\ \A y : In(s, y) <=> In(Tail(s), y) \/ y = Head(s)
<1>1. /\ Tail(s) \in Seq(S) /\ Head(s) \in S /\ In(s, Head(s))
      /\ \A y : In(Tail(s), y) => In(s, y)
      /\ \A L : Has(s, L) => Has(Tail(s), L) \/ Head(s) \in L
  BY Taken
<1>2. ASSUME NEW y, In(s, y) PROVE In(Tail(s), y) \/ y = Head(s)
  <2>1. Has(s, {y})
    BY <1>2 DEF In, Has
  <2>2. Has(Tail(s), {y}) \/ Head(s) \in {y}
    BY <1>1, <2>1
  <2> QED BY <2>2 DEF In, Has
<1> QED BY <1>1, <1>2

\* Something is on its way: the connection is open, and the run was opened.
LEMMA Connected ==
    ASSUME ClientInv, TypeInv
    PROVE  /\ \/ channel # <<>> \/ lagged \/ session.on \/ Forwarder.pc # "rest"
              \/ Commander.pc # "rest" \/ up # <<>> \/ down # <<>> \/ session.hot
              => transport.open
           /\ \/ session.on \/ Forwarder.pc # "rest" \/ session.hot
              \/ Commander.pc # "rest" \/ up # <<>> \/ down # <<>>
              => bounds.opens # 0
<1>1. NoSession.on = FALSE /\ NoSession.hot = FALSE /\ Resting.pc = "rest" /\ Tasks = {"forward", "command"}
  BY DEF NoSession, Resting, Tasks
<1>2. task = [t \in Tasks |-> Resting] => Forwarder.pc = "rest" /\ Commander.pc = "rest"
  BY <1>1 DEF Forwarder, Commander
<1> QED BY <1>1, <1>2 DEF ClientInv, Quiet, Untouched

\* A step of the server, which does nothing to a closed connection.
LEMMA ClientStays ==
    ASSUME TypeInv, ClientInv, UNCHANGED <<transport, batch, store, bounds>>,
           transport.open \/ UNCHANGED <<channel, lagged, session, task, up, down>>,
           up' = up \/ (up # <<>> /\ up' = Tail(up)),
           bounds.opens # 0 \/ UNCHANGED <<up, down, session, task>>
    PROVE  ClientInv'
<1>1. CASE up' = up
  BY <1>1 DEF ClientInv, Quiet, Untouched
<1>2. CASE up # <<>> /\ up' = Tail(up)
  <2>1. up \in Seq(Requests)
    BY Facts
  <2>2. /\ \A i \in DOMAIN up' : i + 1 \in DOMAIN up /\ up'[i] = up[i + 1]
        /\ up' # <<>> => up'[Len(up')] = up[Len(up)]
    BY <1>2, <2>1
  <2> QED BY <1>2, <2>2 DEF ClientInv, Quiet, Untouched
<1> QED BY <1>1, <1>2

\* What a step of the server that does not send leaves alone.
LEMMA ServerStays ==
    ASSUME TypeInv, DeliveryInv, UNCHANGED <<store, batch, transport, bounds, up, down, file>>,
           transport.open \/ UNCHANGED <<channel, lagged, session, task>>,
           bounds.opens # 0 \/ UNCHANGED <<session, task>>,
           Commander'.pc = "respond" <=> Commander.pc = "respond",
           Commander.pc = "respond" =>
               Commander'.seq = Commander.seq /\ Commander'.todo = Commander.todo,
           \A n \in Nat : Around(n)' => Around(n) \/ n \in KeptSeqs \/ n = 0,
           ReloadPending => ReloadPending',
           store.phase = "loading" /\ Answers # {} =>
               /\ Replaying("command")' => Replaying("command")
               /\ Commander'.pc = "reload" => Commander.pc = "reload",
           \A n \in Nat : Within(n) => Within(n)',
           (\/ store.phase = "open" /\ ~ReloadPending'
            \/ store.phase = "loading" /\ Answers # {})
               => \A got : Complete(got) => Complete(got)',
           ModeInv', OrderInv'
    PROVE  DeliveryInv'
<1>1. LoadsInv'
  BY LoadsStay DEF DeliveryInv, LoadsInv
<1>2. ClientInv'
  BY ClientStays DEF DeliveryInv
<1>3. NumbersInv'
  BY NumbersStay DEF DeliveryInv
<1>4. ViewInv'
  <2>1. Answers' = Answers
    BY DEF Answers
  <2>2. KeptSeqs' = KeptSeqs
    BY DEF KeptSeqs, KeptLines
  <2>3. transport.lastSeq \in Nat
    BY Facts
  <2> QED BY ViewStays, <2>1, <2>2, <2>3 DEF DeliveryInv
<1> QED BY <1>1, <1>2, <1>3, <1>4 DEF DeliveryInv

\* What is complete stays so, with what is sent.
LEMMA CompleteStays ==
    ASSUME UNCHANGED <<file, transport>>, NEW sent,
           \A n \in KeptSeqs : Within(n)' => Within(n) \/ n \in sent,
           session'.on /\ ~Reading' => \A n \in KeptSeqs :
               \/ Within(n) \/ n \in sent \/ Coming(n)'
               \/ session.on /\ ~Reading /\ ~Coming(n)
    PROVE  \A got : Complete(got) => Complete(got \cup sent)'
<1>1. KeptSeqs' = KeptSeqs
  BY DEF KeptSeqs, KeptLines
<1> TAKE got
<1> HAVE Complete(got)
<1>2. \A n \in KeptSeqs : Within(n)' \/ n <= transport'.lastSeq => n \in got \cup sent
  BY DEF Complete
<1>3. session'.on /\ ~Reading' => \A n \in KeptSeqs : n \in got \cup sent \/ Coming(n)'
  BY DEF Complete
<1> QED BY <1>1, <1>2, <1>3 DEF Complete

\* The same, when nothing is sent.
LEMMA CompleteStaysAsIs ==
    ASSUME UNCHANGED <<file, transport>>,
           \A n \in KeptSeqs : Within(n)' => Within(n),
           session'.on /\ ~Reading' => \A n \in KeptSeqs :
               \/ Within(n) \/ Coming(n)'
               \/ session.on /\ ~Reading /\ ~Coming(n)
    PROVE  \A got : Complete(got) => Complete(got)'
<1>1. \A got : Complete(got) => Complete(got \cup {})'
  BY CompleteStays
<1>2. \A got : got \cup {} = got
  OBVIOUS
<1> QED BY <1>1, <1>2

-----------------------------------------------------------------------------
(* Steps of the server that send nothing *)

\* CoolDown keeps the invariant: the 30 seconds matter to no event.
LEMMA CoolDownKeeps ==
    ASSUME TypeInv, DeliveryInv, CoolDown
    PROVE  DeliveryInv'
<1>1. /\ session'.on = session.on /\ session'.cp = session.cp
      /\ session'.replaying = session.replaying /\ session'.buffer = session.buffer
      /\ UNCHANGED <<logVars, channel, lagged, task, up, down, clientVars, bounds>>
      /\ session.hot
  BY Facts DEF CoolDown, Sessions
<1>2. /\ UNCHANGED <<file, torn, emitter, channel, lagged, task, up, down, transport, batch,
                     store, bounds>>
      /\ Forwarder' = Forwarder /\ Commander' = Commander
  BY <1>1 DEF logVars, clientVars, Forwarder, Commander
<1>3. transport.open /\ bounds.opens # 0
  BY <1>1, Connected DEF DeliveryInv
<1>4. \A n : Queued(n)' <=> Queued(n)
  BY <1>2 DEF Queued, Written
<1>5. \A n : Around(n)' <=> Around(n)
  BY <1>1, <1>2 DEF Around, Written
<1>6. \A n : Within(n)' <=> Within(n)
  BY <1>1, <1>2 DEF Within, Sent, Asked
<1>7. \A n : Later(n)' <=> Later(n)
  BY <1>1, <1>2 DEF Later
<1>8. \A t \in Tasks : Replaying(t)' <=> Replaying(t)
  BY <1>1, <1>2 DEF Replaying
<1>9. \A n : Coming(n)' <=> Coming(n)
  BY <1>1, <1>2, <1>4, <1>7, <1>8 DEF Coming, Tasks
<1>10. Reading' <=> Reading
  BY <1>2 DEF Reading
<1>11. \A got : Complete(got) => Complete(got)'
  BY <1>1, <1>2, <1>6, <1>9, <1>10, CompleteStaysAsIs
<1>12. ReloadPending' <=> ReloadPending
  BY <1>2, PendingIs
<1>13. ModeInv'
  BY <1>1, <1>2, <1>8 DEF DeliveryInv, ModeInv, Tasks
<1>14. OrderInv'
  <2>1. OrderInv
    BY DEF DeliveryInv
  <2>2. ReplayInv("forward")' /\ ReplayInv("command")'
    BY <1>1, <1>2, <2>1 DEF OrderInv, ReplayInv, KeptSeqs, KeptLines
  <2> QED BY <1>1, <1>2, <1>4, <2>1, <2>2 DEF OrderInv, Written
<1> QED BY <1>1, <1>2, <1>3, <1>5, <1>6, <1>8, <1>11, <1>12, <1>13, <1>14, ServerStays DEF Tasks

\* ForwardMark keeps it: the checkpoint catches up with what was sent.
LEMMA ForwardMarkKeeps ==
    ASSUME TypeInv, DeliveryInv, ForwardMark
    PROVE  DeliveryInv'
<1> DEFINE h == Forwarder.seq
<1>1. /\ UNCHANGED <<file, torn, emitter, channel, lagged, up, down, transport, batch,
                     store, bounds>>
      /\ Forwarder.pc = "mark" /\ Forwarder' = Resting /\ Commander' = Commander
  BY TaskSet DEF ForwardMark, logVars, clientVars, Forwarder
<1>2. /\ session'.on = session.on
      /\ session'.cp = IF session.on THEN Maximum(session.cp, h) ELSE session.cp
      /\ session'.replaying = session.replaying /\ session'.buffer = session.buffer
  BY Facts DEF ForwardMark, Checkpoint, Sessions, Forwarder
<1>3. transport.open /\ bounds.opens # 0
  BY <1>1, Connected DEF DeliveryInv
<1>4. /\ Resting.pc = "rest" /\ Resting.max = 0 /\ Resting.seq = 0 /\ Resting.todo = <<>>
      /\ session.cp \in Nat /\ h \in Nat /\ Commander.max \in Nat
      /\ \A n : ~In(Resting.todo, n)
  BY Facts DEF Resting, In
<1>5. ~Replaying("command") /\ ~Replaying("command")' /\ ~Replaying("forward") /\ ~Replaying("forward")'
  BY <1>1, <1>4 DEF DeliveryInv, ModeInv, Replaying, Forwarder, Commander
<1>6. \A n : Queued(n)' <=> Queued(n)
  BY <1>1 DEF Queued, Written
<1>7. \A n \in Nat : Around(n)' => Around(n) \/ n = 0
  BY <1>1, <1>2, <1>4 DEF Around, Written, Maximum
<1>8. \A n \in Nat : Within(n)' <=> Within(n)
  BY <1>1, <1>2, <1>4 DEF Within, Sent, Asked, Maximum
<1>9. \A n : Later(n) => Later(n)'
  BY <1>1, <1>2, <1>4 DEF Later
<1>10. \A n : Coming(n) => Coming(n)'
  BY <1>1, <1>2, <1>5, <1>6, <1>9 DEF Coming
<1>11. Reading' <=> Reading
  BY <1>1, <1>4 DEF Reading
<1>12. \A got : Complete(got) => Complete(got)'
  <2>1. \A n \in KeptSeqs : n \in Nat
    BY Facts
  <2> QED BY <1>1, <1>2, <1>8, <1>10, <1>11, <2>1, CompleteStaysAsIs
<1>13. ReloadPending' <=> ReloadPending
  BY <1>1, <1>4, PendingIs
<1>14. ModeInv'
  BY <1>1, <1>2, <1>4, <1>5 DEF DeliveryInv, ModeInv, Replaying, Commander
<1>15. OrderInv'
  <2>1. OrderInv
    BY DEF DeliveryInv
  <2>2. Commander.pc # "replay"
    BY <1>5 DEF Replaying, Commander
  <2>3. ReplayInv("forward")' /\ ReplayInv("command")'
    BY <1>1, <1>4, <2>2 DEF ReplayInv, Forwarder, Commander
  <2> QED BY <1>1, <1>2, <1>4, <1>6, <2>1, <2>3 DEF OrderInv, Written
<1>16. \A n \in Nat : Within(n) => Within(n)'
  BY <1>8
<1> QED BY <1>1, <1>3, <1>5, <1>7, <1>12, <1>13, <1>14, <1>15, <1>16, ServerStays

\* Catchup keeps it: what the channel dropped is newer than the checkpoint, so it is replayed.
LEMMA CatchupKeeps ==
    ASSUME TypeInv, Clean, DeliveryInv, Clean', Catchup
    PROVE  DeliveryInv'
<1>1. /\ UNCHANGED <<file, torn, emitter, channel, up, down, transport, batch, store, bounds>>
      /\ Forwarder.pc = "rest" /\ lagged /\ ~lagged'
  BY DEF Catchup, logVars, clientVars, Forwarder
<1>2. ~(session.on /\ session.replaying)
  <2>1. lapses' = {}
    BY DEF Clean
  <2>2. "lagInReplay" \notin lapses'
    BY <2>1
  <2> QED BY <2>2 DEF Catchup
<1>3. session.on \/ UNCHANGED <<session, task>>
  BY DEF Catchup
<1>4. transport.open /\ (bounds.opens # 0 \/ UNCHANGED <<session, task>>)
  BY <1>1, <1>3, Connected DEF DeliveryInv
<1>5. \/ /\ session.on /\ ~session.replaying
         /\ session'.on /\ session'.replaying
         /\ session'.cp = session.cp /\ session'.buffer = session.buffer
         /\ Forwarder' = [Resting EXCEPT !.pc = "read", !.seq = session.cp]
      \/ ~session.on /\ session' = session /\ Forwarder' = Forwarder
  BY <1>2, Facts, TaskSet DEF Catchup, Sessions, StartReplay
<1>6. Commander' = Commander
  BY TaskSet DEF Catchup, StartReplay
<1>7. /\ \A r : r = [Resting EXCEPT !.pc = "read", !.seq = session.cp] =>
             r.pc = "read" /\ r.seq = session.cp /\ r.todo = <<>> /\ r.max = 0
      /\ \A n : ~In(<<>>, n)
  <2>1. \A n : ~In(<<>>, n)
    BY DEF In
  <2>2. \A r : r = [Resting EXCEPT !.pc = "read", !.seq = session.cp] =>
            r.pc = "read" /\ r.seq = session.cp /\ r.todo = <<>> /\ r.max = 0
    BY DEF Resting
  <2> QED BY <2>1, <2>2
<1>8. session'.on => Reading'
  BY <1>5, <1>7 DEF Reading
<1>9. \A n \in Nat : Around(n)' => Around(n) \/ n = 0
  BY <1>1, <1>5, <1>6, <1>7 DEF Around, Written
<1>10. \A n : Within(n)' <=> Within(n)
  BY <1>1, <1>5, <1>6, <1>7 DEF Within, Sent, Asked
<1>11. \A got : Complete(got) => Complete(got)'
  BY <1>1, <1>8, <1>10, CompleteStaysAsIs
<1>12. ReloadPending' <=> ReloadPending
  BY <1>1, <1>5, <1>6, <1>7, PendingIs
<1>13. /\ Replaying("command")' <=> Replaying("command")
       /\ Replaying("command") <=> Commander.pc \in {"read", "replay", "flush"}
       /\ Replaying("forward") <=> Forwarder.pc \in {"read", "replay", "flush"}
       /\ Replaying("forward")' <=> Forwarder'.pc \in {"read", "replay", "flush"}
  BY <1>6 DEF Replaying, Commander, Forwarder
<1>14. ModeInv'
  BY <1>1, <1>5, <1>6, <1>7, <1>13 DEF DeliveryInv, ModeInv
<1>15. OrderInv'
  <2>1. OrderInv
    BY DEF DeliveryInv
  <2>2. Forwarder'.pc \in {"rest", "read"}
    BY <1>1, <1>5, <1>7
  <2>3. ReplayInv("forward")'
    BY <2>2 DEF ReplayInv, Forwarder
  <2>4. KeptSeqs' = KeptSeqs /\ session'.on = session.on /\ session'.cp = session.cp
        /\ session'.buffer = session.buffer
    BY <1>1, <1>5 DEF KeptSeqs, KeptLines
  <2>5. ReplayInv("command")'
    BY <1>6, <2>1, <2>4 DEF ReplayInv, Commander, OrderInv
  <2> QED BY <1>1, <1>6, <2>1, <2>2, <2>3, <2>4, <2>5 DEF OrderInv, Written, Queued
<1>16. \A n \in Nat : Within(n) => Within(n)'
  BY <1>10
<1> QED BY <1>1, <1>4, <1>6, <1>9, <1>11, <1>12, <1>13, <1>14, <1>15, <1>16, ServerStays

\* Receive keeps it: an event is sent, buffered, dropped by a full buffer (a reload is due),
\* or was sent before.
LEMMA ReceiveKeeps ==
    ASSUME TypeInv, DeliveryInv, Receive
    PROVE  DeliveryInv'
<1>0. PICK h : h = Head(channel)
  OBVIOUS
<1>1. /\ UNCHANGED <<file, torn, emitter, lagged, up, down, transport, batch, store, bounds>>
      /\ Forwarder.pc = "rest" /\ ~lagged /\ channel # <<>> /\ channel' = Tail(channel)
      /\ Commander' = Commander
  BY TaskSet DEF Receive, logVars, clientVars, Forwarder
<1>2. /\ h \in Nat
      /\ \A n : In(channel, n) <=> In(channel', n) \/ n = h
      /\ \A n \in Nat : In(channel', n) => h < n
      /\ Increasing(channel')
  <2>1. channel \in Seq(Nat) /\ Increasing(channel)
    BY Facts DEF DeliveryInv, OrderInv
  <2> QED BY <1>0, <1>1, <2>1, TakenIn, IncreasingTaken, InNat
<1>3. transport.open /\ (bounds.opens # 0 \/ UNCHANGED <<session, task>>)
  <2>1. session.on => bounds.opens # 0
    BY Connected DEF DeliveryInv
  <2>2. ~session.on => UNCHANGED <<session, task>>
    BY DEF Receive
  <2> QED BY <1>1, <2>1, <2>2, Connected DEF DeliveryInv
<1>5. \A n : Written(n)' <=> Written(n)
  BY <1>1 DEF Written
<1>6. \A n : Queued(n) <=> Queued(n)' \/ n = h
  BY <1>2, <1>5 DEF Queued
<1>7. \A n \in Nat : Queued(n)' => h < n
  BY <1>2, <1>5 DEF Queued, DeliveryInv, OrderInv
<1>8. /\ \/ /\ session.on /\ session.replaying /\ Len(session.buffer) < BufferCap
            /\ session'.buffer = Append(session.buffer, h)
            /\ Forwarder' = Forwarder
         \/ /\ session.on /\ session.replaying /\ ~(Len(session.buffer) < BufferCap)
            /\ session'.buffer = session.buffer
            /\ Forwarder' = Forwarder
         \/ /\ session.on /\ ~session.replaying /\ h > session.cp
            /\ session'.buffer = session.buffer
            /\ Forwarder' = [Resting EXCEPT !.pc = "send", !.seq = h]
         \/ /\ ~session.on \/ (~session.replaying /\ h <= session.cp)
            /\ session'.buffer = session.buffer
            /\ Forwarder' = Forwarder
      /\ session'.on = session.on /\ session'.replaying = session.replaying
      /\ session'.cp = session.cp
  <2>1. /\ session \in Sessions /\ session.cp \in Nat
        /\ session.on \in BOOLEAN /\ session.replaying \in BOOLEAN
    BY Facts
  <2>2. /\ session'.on = session.on /\ session'.replaying = session.replaying
        /\ session'.cp = session.cp
        /\ session'.buffer = IF session.on /\ session.replaying /\ Len(session.buffer) < BufferCap
                             THEN Append(session.buffer, h) ELSE session.buffer
    BY <1>0, <2>1 DEF Receive, BufferEvent, Sessions
  <2>3. Forwarder' = IF session.on /\ ~session.replaying /\ h > session.cp
                     THEN [Resting EXCEPT !.pc = "send", !.seq = h] ELSE Forwarder
    BY <1>0, TaskSet DEF Receive
  <2> QED BY <1>2, <2>1, <2>2, <2>3
<1>9. \A r : r = [Resting EXCEPT !.pc = "send", !.seq = h] =>
          r.pc = "send" /\ r.seq = h /\ r.todo = <<>> /\ r.max = 0
  BY DEF Resting
<1>10. \A n : ~In(<<>>, n)
  BY DEF In
<1>11. \A n : In(session'.buffer, n) =>
           In(session.buffer, n) \/ (n = h /\ session.on /\ session.replaying)
  <2>0. session.buffer \in Seq(Nat)
    BY Facts
  <2>1. \A n : In(Append(session.buffer, h), n) <=> In(session.buffer, n) \/ n = h
    BY <1>2, <2>0, Appended
  <2> QED BY <1>8, <2>1
<1>12. \A n : In(session.buffer, n) => In(session'.buffer, n)
  <2>0. session.buffer \in Seq(Nat)
    BY Facts
  <2>1. \A n : In(Append(session.buffer, h), n) <=> In(session.buffer, n) \/ n = h
    BY <1>2, <2>0, Appended
  <2> QED BY <1>8, <2>1
<1>13. /\ Replaying("command")' <=> Replaying("command")
       /\ Replaying("command") <=> Commander.pc \in {"read", "replay", "flush"}
       /\ Replaying("forward") <=> Forwarder.pc \in {"read", "replay", "flush"}
       /\ Replaying("forward")' <=> Forwarder'.pc \in {"read", "replay", "flush"}
  BY <1>1 DEF Replaying, Commander, Forwarder
<1>14. /\ ~Replaying("forward") /\ ~Replaying("forward")'
       /\ session.replaying => Replaying("command") /\ session.on
       /\ session.buffer # <<>> => session.replaying
  BY <1>1, <1>8, <1>9, <1>13 DEF DeliveryInv, ModeInv
<1>15. \A n \in Nat : Around(n)' => Around(n) \/ n = 0
  <2>1. \A n \in Nat : Around(n)' =>
            \/ In(channel, n) \/ In(session'.buffer, n) \/ Written(n)
            \/ n = session.cp \/ n = transport.lastSeq
            \/ Carries(down, "event", n) \/ Carries(up, "subscribe", n)
            \/ n = Forwarder'.max \/ n = Forwarder'.seq \/ In(Forwarder'.todo, n)
            \/ n = Commander.max
            \/ Commander.pc # "respond" /\ (n = Commander.seq \/ In(Commander.todo, n))
    BY <1>1, <1>2, <1>5, <1>8 DEF Around
  <2>2. In(channel, h)
    BY <1>2
  <2> QED BY <1>8, <1>9, <1>10, <1>11, <2>1, <2>2 DEF Around
<1>16. \A n : Within(n)' <=> Within(n)
  BY <1>1, <1>8, <1>9 DEF Within, Sent, Asked
<1>17. \A n \in Nat : n # h /\ Coming(n) => Coming(n)'
  <2> SUFFICES ASSUME NEW n \in Nat, n # h, Coming(n)
               PROVE  Coming(n)'
    OBVIOUS
  <2>0. Len(session.buffer) \in Nat /\ BufferCap \in Nat \ {0} /\ session.buffer \in Seq(Nat)
    BY Facts
  <2>1. CASE (lagged \/ Len(session.buffer) >= BufferCap) /\ Later(n)
    <3>1. Len(session.buffer) >= BufferCap /\ session.buffer # <<>>
      BY <1>1, <2>0, <2>1
    <3>2. session'.buffer = session.buffer /\ Forwarder' = Forwarder
      <4>1. session.on /\ session.replaying /\ ~(Len(session.buffer) < BufferCap)
        BY <1>14, <2>0, <3>1
      <4> QED BY <1>8, <4>1
    <3>3. Later(n)'
      BY <1>1, <2>1, <3>2 DEF Later
    <3> QED BY <3>1, <3>2, <3>3 DEF Coming
  <2>2. CASE ~((lagged \/ Len(session.buffer) >= BufferCap) /\ Later(n))
    BY <1>1, <1>6, <1>12, <1>13, <1>14, <2>2 DEF Coming
  <2> QED BY <2>1, <2>2
<1>18. session.on => Within(h) \/ Coming(h)'
  <2>1. CASE session.replaying
    <3>1. CASE Len(session.buffer) < BufferCap
      <4>0. session.buffer \in Seq(Nat)
        BY Facts
      <4>1. In(Append(session.buffer, h), h)
        BY <1>2, <4>0, Appended
      <4>2. session.on /\ session.replaying => session'.buffer = Append(session.buffer, h)
        BY <1>8, <3>1
      <4>3. session.on => In(session'.buffer, h)
        BY <2>1, <4>1, <4>2
      <4> QED BY <4>3 DEF Coming
    <3>2. CASE ~(Len(session.buffer) < BufferCap)
      <4>1. session'.buffer = session.buffer /\ Len(session'.buffer) >= BufferCap
        <5>1. session.buffer \in Seq(Nat) /\ BufferCap \in Nat
          BY Facts
        <5>2. session'.buffer = session.buffer
          BY <1>8, <2>1, <3>2
        <5> QED BY <3>2, <5>1, <5>2
      <4>2. Queued(h) /\ Forwarder'.pc # "send"
        BY <1>1, <1>6, <1>8, <2>1
      <4>3. OrderInv
        BY DEF DeliveryInv
      <4>4. Later(h)'
        BY <1>1, <1>2, <4>1, <4>2, <4>3 DEF Later, OrderInv
      <4> QED BY <4>1, <4>4 DEF Coming
    <3> QED BY <3>1, <3>2
  <2>2. CASE ~session.replaying
    <3>1. CASE session.on /\ h > session.cp
      <4>1. Forwarder' = [Resting EXCEPT !.pc = "send", !.seq = h]
        <5>1. h \in Nat /\ session.cp \in Nat
          BY <1>2, Facts
        <5> QED BY <1>8, <2>2, <3>1, <5>1
      <4> QED BY <1>9, <4>1 DEF Coming
    <3>2. CASE session.on /\ ~(h > session.cp)
      <4>1. session.cp \in Nat
        BY Facts
      <4> QED BY <1>2, <3>2, <4>1 DEF Within, Sent
    <3> QED BY <3>1, <3>2
  <2> QED BY <2>1, <2>2
<1>19. Reading' <=> Reading
  BY <1>1, <1>8, <1>9 DEF Reading
<1>20. \A got : Complete(got) => Complete(got)'
  <2>1. \A n \in KeptSeqs : n \in Nat
    BY Facts
  <2>2. session'.on /\ ~Reading' => \A n \in KeptSeqs :
            \/ Within(n) \/ Coming(n)'
            \/ session.on /\ ~Reading /\ ~Coming(n)
    <3> HAVE session'.on /\ ~Reading'
    <3> TAKE n \in KeptSeqs
    <3>1. n \in Nat /\ session.on /\ ~Reading
      BY <1>8, <1>19, <2>1
    <3>2. CASE n = h
      <4>1. Within(h) \/ Coming(h)'
        BY <1>18, <3>1
      <4> QED BY <3>2, <4>1
    <3>3. CASE n # h
      <4>1. Coming(n) => Coming(n)'
        BY <1>17, <3>1, <3>3
      <4> QED BY <3>1, <4>1
    <3> QED BY <3>2, <3>3
  <2> QED BY <1>1, <1>16, <2>2, CompleteStaysAsIs
<1>21. ReloadPending' <=> ReloadPending
  BY <1>1, <1>8, <1>9, PendingIs
<1>22. ModeInv'
  <2>1. session'.buffer # <<>> => session.buffer # <<>> \/ session.replaying
    BY <1>8
  <2> QED BY <1>1, <1>8, <1>9, <1>13, <1>14, <2>1 DEF DeliveryInv, ModeInv
<1>23. OrderInv'
  <2>1. OrderInv
    BY DEF DeliveryInv
  <2>2. KeptSeqs' = KeptSeqs
    BY <1>1 DEF KeptSeqs, KeptLines
  <2>3. ReplayInv("command")'
    BY <1>1, <1>8, <2>1, <2>2 DEF ReplayInv, Commander, OrderInv
  <2>4. ReplayInv("forward")'
    BY <1>14 DEF ReplayInv, Replaying
  <2>5. Increasing(session'.buffer)
    <3>1. \A n : In(session.buffer, n) => n < h
      BY <1>2, <1>6, <2>1, Facts, InNat DEF OrderInv
    <3>2. Increasing(session.buffer) /\ session.buffer \in Seq(Nat)
      BY <2>1, Facts DEF OrderInv
    <3>3. Increasing(Append(session.buffer, h))
      BY <1>2, <3>1, <3>2, IncreasingAppended
    <3> QED BY <1>8, <3>2, <3>3
  <2>6. \A n, m \in Nat : In(session'.buffer, n) /\ Queued(m)' => n < m
    BY <1>6, <1>7, <1>11, <2>1 DEF OrderInv
  <2>7. \A n, m \in Nat : In(channel', n) /\ Written(m)' => n < m
    BY <1>2, <1>5, <2>1 DEF OrderInv
  <2>8. Forwarder'.pc \in {"send", "mark"} => \A n \in Nat : Queued(n)' => Forwarder'.seq < n
    BY <1>1, <1>7, <1>8, <1>9
  <2>9. Forwarder'.pc = "send" /\ session'.on => session'.cp < Forwarder'.seq
    BY <1>1, <1>2, <1>8, <1>9, Facts
  <2>10. Commander.pc = "flush" => \A n, m \in Nat :
             In(Commander.todo, n) /\ (In(session'.buffer, m) \/ Queued(m)') => n < m
    BY <1>6, <1>11, <2>1 DEF OrderInv
  <2>11. UNCHANGED emitter
    BY <1>1
  <2> QED BY <1>1, <1>2, <2>1, <2>3, <2>4, <2>5, <2>6, <2>7, <2>8, <2>9, <2>10, <2>11 DEF OrderInv
<1>24. \A n \in Nat : Within(n) => Within(n)'
  BY <1>16
<1> QED BY <1>1, <1>3, <1>13, <1>15, <1>20, <1>21, <1>22, <1>23, <1>24, ServerStays

\* ReadLog keeps it: what the log keeps above the checkpoint is what is missing.
LEMMA ReadLogKeeps ==
    ASSUME TypeInv, DeliveryInv, NEW t \in Tasks, ReadLog(t)
    PROVE  DeliveryInv'
<1>0. PICK L : L = ListBusEvents(task[t].seq)
  OBVIOUS
<1>1. /\ UNCHANGED <<file, torn, emitter, channel, lagged, session, up, down, transport, batch,
                     store, bounds>>
      /\ task[t].pc = "read"
  BY DEF ReadLog, logVars, clientVars
<1>2. /\ t = "forward" \/ t = "command"
      /\ task \in [Tasks -> TaskStates] /\ {"forward", "command"} = Tasks
  BY Facts DEF Tasks
<1>3. /\ t = "forward" => /\ Commander' = Commander /\ Forwarder.pc = "read"
                          /\ Forwarder'.pc = "replay" /\ Forwarder'.seq = Forwarder.seq
                          /\ Forwarder'.max = Forwarder.max /\ Forwarder'.todo = L
      /\ t = "command" => /\ Forwarder' = Forwarder /\ Commander.pc = "read"
                          /\ Commander'.pc = "replay" /\ Commander'.seq = Commander.seq
                          /\ Commander'.max = Commander.max /\ Commander'.todo = L
  BY <1>0, <1>1, <1>2 DEF ReadLog, Forwarder, Commander, TaskStates
<1>4. /\ L \in Seq(Nat) /\ Increasing(L)
      /\ \A x : In(L, x) <=> x \in KeptSeqs /\ x > task[t].seq
  <2>1. task[t].seq \in Nat /\ IInv
    BY <1>2, Facts DEF TypeInv, Forwarder, Commander
  <2> QED BY <1>0, <2>1, Listed
<1>5. transport.open /\ bounds.opens # 0
  BY <1>1, <1>2, Connected DEF DeliveryInv, Forwarder, Commander
<1>6. /\ Replaying("command")' <=> Replaying("command")
      /\ Replaying("forward")' <=> Replaying("forward")
  BY <1>1, <1>3, <1>2 DEF Replaying, Forwarder, Commander
<1>7. /\ session.on => task[t].seq = session.cp
      /\ t = "forward" => ~Replaying("command")
      /\ t = "command" => ~Replaying("forward")
  BY <1>1, <1>2 DEF DeliveryInv, ModeInv, Forwarder, Commander, Replaying
<1>8. KeptSeqs' = KeptSeqs /\ \A n \in KeptSeqs : n \in Nat
  BY <1>1, Facts DEF KeptSeqs, KeptLines
<1>9. \A n : Written(n)' <=> Written(n)
  BY <1>1 DEF Written
<1>10. \A n : Queued(n)' <=> Queued(n)
  BY <1>1, <1>9 DEF Queued
<1>11. \A n \in Nat : Around(n)' => Around(n) \/ n \in KeptSeqs \/ n = 0
  BY <1>1, <1>2, <1>3, <1>4, <1>9 DEF Around
<1>12. \A n : Within(n)' <=> Within(n)
  BY <1>1, <1>2, <1>3 DEF Within, Sent, Asked
<1>13. session.on => \A n \in KeptSeqs : Within(n) \/ Coming(n)'
  <2> SUFFICES ASSUME session.on, NEW n \in KeptSeqs, ~(n <= session.cp)
               PROVE  Coming(n)'
    BY DEF Within, Sent
  <2>1. In(L, n)
    <3>1. session.cp \in Nat /\ n \in Nat
      BY <1>8, Facts
    <3> QED BY <1>4, <1>7, <3>1
  <2> QED BY <1>1, <1>2, <1>3, <1>6, <2>1 DEF Coming, Replaying, Forwarder, Commander
<1>14. \A got : Complete(got) => Complete(got)'
  <2>1. session'.on /\ ~Reading' => \A n \in KeptSeqs : Within(n) \/ Coming(n)'
    BY <1>1, <1>13
  <2> QED BY <1>1, <1>12, <2>1, CompleteStaysAsIs
<1>15. ReloadPending' <=> ReloadPending
  BY <1>1, <1>2, <1>3, PendingIs
<1>16. ModeInv'
  BY <1>1, <1>2, <1>3, <1>6 DEF DeliveryInv, ModeInv
<1>17. OrderInv'
  <2>1. OrderInv
    BY DEF DeliveryInv
  <2>2. ReplayInv(t)'
    <3>1. \A n \in Nat : session.on /\ In(L, n) => n > session.cp
      BY <1>4, <1>7
    <3>2. \A n \in Nat, m \in KeptSeqs : session.on /\ In(L, n) /\ session.cp < m => In(L, m)
      <4>1. session.cp \in Nat
        BY Facts
      <4> QED BY <1>4, <1>7, <1>8, <4>1
    <3>3. task'[t].todo = L
      BY <1>2, <1>3 DEF Forwarder, Commander
    <3> QED BY <1>1, <1>4, <1>8, <3>1, <3>2, <3>3 DEF ReplayInv
  <2>3. t = "forward" => ReplayInv("command")'
    BY <1>6, <1>7 DEF ReplayInv, Replaying
  <2>4. t = "command" => ReplayInv("forward")'
    BY <1>6, <1>7 DEF ReplayInv, Replaying
  <2>5. ReplayInv("forward")' /\ ReplayInv("command")'
    BY <1>2, <2>2, <2>3, <2>4
  <2>6. /\ Forwarder'.pc \in {"send", "mark"} => Forwarder' = Forwarder
        /\ Commander'.pc = "flush" => Commander' = Commander
    BY <1>2, <1>3
  <2> QED BY <1>1, <1>9, <1>10, <2>1, <2>5, <2>6 DEF OrderInv
<1>18. \A n \in Nat : Within(n) => Within(n)'
  BY <1>12
<1>19. /\ Commander'.pc = "respond" <=> Commander.pc = "respond"
       /\ Commander.pc = "respond" =>
               Commander'.seq = Commander.seq /\ Commander'.todo = Commander.todo
       /\ Commander'.pc = "reload" => Commander.pc = "reload"
  BY <1>2, <1>3
<1> QED BY <1>1, <1>5, <1>6, <1>11, <1>14, <1>15, <1>16, <1>17, <1>18, <1>19, ServerStays

\* The end of a replay by a_forward keeps it: no one fills the buffer meanwhile.
LEMMA DrainForwardKeeps ==
    ASSUME TypeInv, DeliveryInv, Drain("forward")
    PROVE  DeliveryInv'
<1>1. /\ UNCHANGED <<file, torn, emitter, channel, lagged, up, down, transport, batch,
                     store, bounds>>
      /\ Forwarder.pc \in {"replay", "flush"} /\ Forwarder.todo = <<>>
  BY DEF Drain, logVars, clientVars, Forwarder
<1>2. /\ Forwarder.pc = "replay" /\ Forwarder.max = 0
      /\ ~Replaying("command") /\ session.buffer = <<>>
  <2>1. Forwarder.pc = "replay" /\ Forwarder.max = 0
    BY <1>1 DEF DeliveryInv, ModeInv
  <2> QED BY <2>1 DEF DeliveryInv, ModeInv
<1>3. /\ session'.on = session.on /\ session'.cp = session.cp
      /\ ~session'.replaying /\ session'.buffer = session.buffer
      /\ Forwarder' = Resting /\ Commander' = Commander
  <2>1. session \in Sessions /\ session.cp \in Nat /\ BufferCap \in Nat \ {0}
    BY Facts
  <2>2. task["forward"].max = 0
    BY <1>2 DEF Forwarder
  <2>3. Checkpoint(0) \in Sessions /\ Checkpoint(0).on = session.on
        /\ Checkpoint(0).cp = session.cp /\ Checkpoint(0).buffer = session.buffer
    BY <2>1 DEF Checkpoint, Sessions, Maximum
  <2>4. ~(Len(session.buffer) >= BufferCap)
    BY <1>2, <2>1
  <2>5. /\ session' = [Checkpoint(0) EXCEPT !.replaying = FALSE]
        /\ task' = [task EXCEPT !["forward"] = Resting]
    BY <1>2, <2>2, <2>3, <2>4 DEF Drain
  <2> QED BY <2>3, <2>5, TaskSet DEF Sessions
<1>4. /\ Resting.pc = "rest" /\ Resting.max = 0 /\ Resting.seq = 0 /\ Resting.todo = <<>>
      /\ \A n : ~In(Resting.todo, n)
      /\ Len(session.buffer) = 0 /\ BufferCap \in Nat \ {0}
  BY <1>2, Facts DEF Resting, In
<1>5. transport.open /\ bounds.opens # 0
  BY <1>2, Connected DEF DeliveryInv
<1>6. /\ ~Replaying("command")' /\ ~Replaying("forward")'
  BY <1>2, <1>3, <1>4 DEF Replaying, Forwarder, Commander
<1>7. \A n : Queued(n)' <=> Queued(n)
  BY <1>1 DEF Queued, Written
<1>8. \A n \in Nat : Around(n)' => Around(n) \/ n = 0
  BY <1>1, <1>3, <1>4 DEF Around, Written
<1>9. \A n : Within(n)' <=> Within(n)
  BY <1>1, <1>2, <1>3, <1>4 DEF Within, Sent, Asked
<1>10. \A n : Later(n) => Later(n)'
  BY <1>1, <1>3, <1>4 DEF Later
<1>11. \A n : Coming(n) => Coming(n)'
  <2>1. \A n : ~In(Forwarder.todo, n) /\ ~In(session.buffer, n)
    BY <1>1, <1>2 DEF In
  <2> QED BY <1>1, <1>2, <1>3, <1>4, <1>7, <1>10, <2>1 DEF Coming
<1>12. Reading' <=> Reading
  BY <1>2, <1>3, <1>4 DEF Reading
<1>13. \A got : Complete(got) => Complete(got)'
  BY <1>1, <1>3, <1>9, <1>11, <1>12, CompleteStaysAsIs
<1>14. ReloadPending' <=> ReloadPending
  BY <1>1, <1>2, <1>3, <1>4, PendingIs
<1>15. ModeInv'
  BY <1>2, <1>3, <1>4, <1>6 DEF DeliveryInv, ModeInv, Replaying, Commander
<1>16. OrderInv'
  <2>1. OrderInv
    BY DEF DeliveryInv
  <2>2. ReplayInv("forward")' /\ ReplayInv("command")'
    BY <1>6 DEF ReplayInv, Replaying
  <2> QED BY <1>1, <1>3, <1>4, <1>7, <2>1, <2>2 DEF OrderInv, Written
<1>17. \A n \in Nat : Within(n) => Within(n)'
  BY <1>9
<1> QED BY <1>1, <1>3, <1>5, <1>6, <1>8, <1>13, <1>14, <1>15, <1>16, <1>17, ServerStays

\* A round of flush_replay_buffer by the command loop keeps it: done, a batch, or overflown.
LEMMA DrainCommandKeeps ==
    ASSUME TypeInv, DeliveryInv, Drain("command")
    PROVE  DeliveryInv'
<1>0. PICK cp : cp = Maximum(session.cp, Commander.max)
  OBVIOUS
<1>1. /\ UNCHANGED <<file, torn, emitter, channel, lagged, up, down, transport, batch,
                     store, bounds>>
      /\ Commander.pc \in {"replay", "flush"} /\ Commander.todo = <<>>
  BY DEF Drain, logVars, clientVars, Commander
<1>2. /\ Replaying("command") /\ session.on /\ session.replaying /\ Forwarder.pc = "rest"
      /\ Commander.pc # "flush" => Commander.max = 0
      /\ ~Replaying("forward")
  <2>1. Replaying("command")
    BY <1>1 DEF Replaying, Commander
  <2>2. session.on /\ session.replaying /\ Forwarder.pc = "rest"
        /\ (Commander.pc # "flush" => Commander.max = 0)
    BY <2>1 DEF DeliveryInv, ModeInv
  <2> QED BY <2>1, <2>2 DEF Replaying, Forwarder
<1>3. /\ session.cp \in Nat /\ Commander.max \in Nat /\ BufferCap \in Nat \ {0}
      /\ cp \in Nat /\ \A n \in Nat : n <= cp <=> n <= session.cp \/ n <= Commander.max
      /\ cp = session.cp \/ cp = Commander.max
      /\ session.buffer \in Seq(Nat) /\ Len(session.buffer) \in Nat
  <2>1. /\ session.cp \in Nat /\ Commander.max \in Nat /\ BufferCap \in Nat \ {0}
        /\ session.buffer \in Seq(Nat) /\ Len(session.buffer) \in Nat
    BY Facts
  <2> QED BY <1>0, <2>1 DEF Maximum
<1>4. /\ session'.on /\ session'.cp = cp /\ session'.buffer = <<>>
      /\ Forwarder' = Forwarder
      /\ \/ /\ session.buffer = <<>>
            /\ ~session'.replaying
            /\ Commander' = Resting
         \/ /\ Len(session.buffer) >= BufferCap
            /\ ~session'.replaying
            /\ Commander' = [Resting EXCEPT !.pc = "reload"]
         \/ /\ Len(session.buffer) < BufferCap
            /\ session'.replaying
            /\ Commander'.pc = "flush" /\ Commander'.seq = cp
            /\ Commander'.todo = session.buffer /\ Commander'.max = Commander.max
  <2>1. session \in Sessions
    BY Facts
  <2>2. PICK s : s = Checkpoint(Commander.max)
    OBVIOUS
  <2>3. s \in Sessions /\ s.on /\ s.cp = cp /\ s.buffer = session.buffer /\ s.replaying
    BY <1>0, <1>2, <1>3, <2>1, <2>2 DEF Checkpoint, Sessions
  <2>4. task[ "command"].max = Commander.max /\ task \in [Tasks -> TaskStates]
        /\ {"forward", "command"} = Tasks
    BY Facts DEF Commander
  <2>5. Maximum(cp, Commander.max) = cp
    BY <1>0, <1>3 DEF Maximum
  <2>6. \/ /\ s.buffer = <<>>
           /\ session' = [s EXCEPT !.replaying = FALSE]
           /\ task' = [task EXCEPT !["command"] = Resting]
        \/ /\ Len(s.buffer) >= BufferCap
           /\ session' = Overflown(s)
           /\ task' = [task EXCEPT !["command"] = [Resting EXCEPT !.pc = "reload"]]
        \/ /\ s.buffer # <<>>
           /\ Len(s.buffer) < BufferCap
           /\ session' = [s EXCEPT !.buffer = <<>>]
           /\ task' = [task EXCEPT
                         !["command"].pc = "flush",
                         !["command"].seq = Maximum(s.cp, Commander.max),
                         !["command"].todo = s.buffer]
    BY <2>2 DEF Drain, Commander
  <2>7. CASE /\ s.buffer = <<>>
             /\ session' = [s EXCEPT !.replaying = FALSE]
             /\ task' = [task EXCEPT !["command"] = Resting]
    BY <2>3, <2>7, TaskSet DEF Sessions
  <2>8. CASE /\ Len(s.buffer) >= BufferCap
             /\ session' = Overflown(s)
             /\ task' = [task EXCEPT !["command"] = [Resting EXCEPT !.pc = "reload"]]
    BY <2>3, <2>8, TaskSet DEF Sessions, Overflown
  <2>9. CASE /\ Len(s.buffer) < BufferCap
             /\ session' = [s EXCEPT !.buffer = <<>>]
             /\ task' = [task EXCEPT
                           !["command"].pc = "flush",
                           !["command"].seq = Maximum(s.cp, Commander.max),
                           !["command"].todo = s.buffer]
    <3>1. /\ Forwarder' = Forwarder
          /\ Commander'.pc = "flush" /\ Commander'.seq = cp
          /\ Commander'.todo = session.buffer /\ Commander'.max = Commander.max
      BY <2>3, <2>4, <2>5, <2>9 DEF Forwarder, Commander, TaskStates
    <3> QED BY <2>3, <2>9, <3>1 DEF Sessions
  <2> QED BY <2>6, <2>7, <2>8, <2>9
<1>5. /\ Resting.pc = "rest" /\ Resting.max = 0 /\ Resting.seq = 0 /\ Resting.todo = <<>>
      /\ \A r : r = [Resting EXCEPT !.pc = "reload"] =>
             r.pc = "reload" /\ r.max = 0 /\ r.seq = 0 /\ r.todo = <<>>
  BY DEF Resting
<1>6. \A n : ~In(<<>>, n) /\ ~In(Commander.todo, n)
  BY <1>1 DEF In
<1>7. transport.open /\ bounds.opens # 0
  BY <1>1, Connected DEF DeliveryInv
<1>8. /\ ~Replaying("forward")'
      /\ Replaying("command")' <=> Commander'.pc = "flush"
  BY <1>2, <1>4, <1>5 DEF Replaying, Forwarder, Commander
<1>9. \A n : Queued(n)' <=> Queued(n)
  BY <1>1 DEF Queued, Written
<1>10. \A n \in Nat : Around(n)' => Around(n) \/ n = 0
  BY <1>1, <1>3, <1>4, <1>5, <1>6 DEF Around, Written
<1>11. \A n \in Nat : Within(n)' <=> Within(n)
  BY <1>1, <1>2, <1>3, <1>4, <1>5 DEF Within, Sent, Asked
<1>12. \A n : Later(n) => Later(n)'
  BY <1>1, <1>4, <1>5, <1>6 DEF Later
<1>13. ReloadPending => ReloadPending'
  BY <1>1, <1>2, <1>4, PendingIs
<1>14. Commander'.pc # "reload" => \A n : Coming(n) => Coming(n)'
  <2> SUFFICES ASSUME Commander'.pc # "reload", NEW n, Coming(n)
               PROVE  Coming(n)'
    OBVIOUS
  <2>0. session.buffer = <<>> \/ Len(session.buffer) < BufferCap
    BY <1>4, <1>5
  <2>1. ~(Len(session.buffer) >= BufferCap)
    BY <1>3, <2>0
  <2>2. In(session.buffer, n) => Replaying("command")' /\ In(Commander'.todo, n)
    <3>1. CASE session.buffer = <<>>
      BY <1>6, <3>1
    <3>2. CASE session.buffer # <<>>
      BY <1>4, <1>5, <1>8, <2>1, <3>2
    <3> QED BY <3>1, <3>2
  <2> QED BY <1>1, <1>2, <1>4, <1>6, <1>9, <1>12, <2>1, <2>2 DEF Coming
<1>15. Commander'.pc # "reload" => \A got : Complete(got) => Complete(got)'
  <2>1. ~Reading
    BY <1>1, <1>2 DEF Reading
  <2>2. \A n \in KeptSeqs : n \in Nat
    BY Facts
  <2> QED BY <1>1, <1>2, <1>11, <1>14, <2>1, <2>2, CompleteStaysAsIs
<1>16. store.phase = "open" /\ ~ReloadPending' => Commander'.pc # "reload"
  BY PendingIs
<1>17. store.phase = "loading" => Answers = {}
  BY <1>2 DEF DeliveryInv, ViewInv, LoadInOrder
<1>18. ModeInv'
  BY <1>2, <1>3, <1>4, <1>5, <1>8 DEF DeliveryInv, ModeInv
<1>19. OrderInv'
  <2>1. OrderInv
    BY DEF DeliveryInv
  <2>2. Commander'.pc # "replay" /\ Forwarder'.pc = "rest"
    BY <1>2, <1>4, <1>5
  <2>3. ReplayInv("forward")' /\ ReplayInv("command")'
    BY <2>2 DEF ReplayInv, Forwarder, Commander
  <2>4. Commander'.pc = "flush" =>
          /\ Increasing(Commander'.todo)
          /\ \A n \in Nat : In(Commander'.todo, n) =>
                /\ Commander'.max < n \/ n <= Commander'.seq
                /\ \A m \in Nat : Queued(m)' => n < m
    <3> HAVE Commander'.pc = "flush"
    <3>1. /\ Commander'.seq = cp /\ Commander'.todo = session.buffer
          /\ Commander'.max = Commander.max
      BY <1>4, <1>5
    <3>2. Increasing(session.buffer) /\ \A n, m \in Nat : In(session.buffer, n) /\ Queued(m) => n < m
      BY <2>1 DEF OrderInv
    <3>3. \A n \in Nat : Commander.max < n \/ n <= cp
      BY <1>3
    <3> QED BY <1>9, <3>1, <3>2, <3>3
  <2>5. \A n : ~In(session'.buffer, n)
    BY <1>4, <1>6
  <2>6. Increasing(session'.buffer)
    BY <1>4, NothingCarried
  <2> QED BY <1>1, <1>4, <1>9, <2>1, <2>2, <2>3, <2>4, <2>5, <2>6 DEF OrderInv, Written
<1>20. /\ Commander'.pc = "respond" <=> Commander.pc = "respond"
       /\ Commander.pc # "respond"
  BY <1>1, <1>4, <1>5
<1>21. \A n \in Nat : Within(n) => Within(n)'
  BY <1>11
<1> QED BY <1>1, <1>7, <1>10, <1>13, <1>15, <1>16, <1>17, <1>18, <1>19, <1>20, <1>21,
           ServerStays

\* A flush that skips an event keeps it: the replay has sent it.
LEMMA FlushSkipKeeps ==
    ASSUME TypeInv, DeliveryInv,
           Commander.pc = "flush", Commander.todo # <<>>, Head(Commander.todo) <= Commander.seq,
           task' = [task EXCEPT !["command"].todo = Tail(@)],
           UNCHANGED <<logVars, channel, lagged, session, up, down, clientVars, lapses, bounds>>
    PROVE  DeliveryInv'
<1>0. PICK h : h = Head(Commander.todo)
  OBVIOUS
<1>1. /\ UNCHANGED <<file, torn, emitter, channel, lagged, session, up, down, transport, batch,
                     store, bounds>>
  BY DEF logVars, clientVars
<1>2. /\ Forwarder' = Forwarder /\ Commander'.pc = "flush" /\ Commander'.seq = Commander.seq
      /\ Commander'.max = Commander.max /\ Commander'.todo = Tail(Commander.todo)
  <2>1. task \in [Tasks -> TaskStates] /\ {"forward", "command"} = Tasks
    BY Facts
  <2> QED BY <2>1 DEF Forwarder, Commander, TaskStates
<1>3. /\ h \in Nat
      /\ \A n : In(Commander.todo, n) <=> In(Commander'.todo, n) \/ n = h
      /\ Increasing(Commander'.todo)
  <2>1. Commander.todo \in Seq(Nat) /\ Increasing(Commander.todo)
    BY Facts DEF DeliveryInv, OrderInv
  <2> QED BY <1>0, <1>2, <2>1, TakenIn, IncreasingTaken
<1>4. transport.open /\ bounds.opens # 0
  BY Connected DEF DeliveryInv
<1>5. /\ Replaying("command") /\ Replaying("command")' /\ session.on /\ Forwarder.pc = "rest"
      /\ Commander.seq = session.cp
      /\ Replaying("forward")' <=> Replaying("forward")
  <2>1. Replaying("command") /\ Replaying("command")'
    BY <1>2 DEF Replaying, Commander
  <2>2. Replaying("forward")' <=> Replaying("forward")
    BY <1>2 DEF Replaying, Forwarder
  <2> QED BY <2>1, <2>2 DEF DeliveryInv, ModeInv
<1>6. \A n : Queued(n)' <=> Queued(n)
  BY <1>1 DEF Queued, Written
<1>7. \A n \in Nat : Around(n)' => Around(n)
  BY <1>1, <1>2, <1>3 DEF Around, Written
<1>8. \A n : Within(n)' <=> Within(n)
  BY <1>1, <1>2 DEF Within, Sent, Asked
<1>9. \A n : Later(n) => Later(n)'
  BY <1>1, <1>2, <1>3 DEF Later
<1>10. \A n : Coming(n) => Coming(n)' \/ Within(n)
  <2>1. Within(h)
    BY <1>0, <1>5 DEF Within, Sent
  <2>2. \A n : In(Commander.todo, n) => In(Commander'.todo, n) \/ Within(n)
    <3> TAKE n
    <3>1. CASE n = h
      BY <2>1, <3>1
    <3>2. CASE n # h
      BY <1>3, <3>2
    <3> QED BY <3>1, <3>2
  <2> QED BY <1>1, <1>2, <1>5, <1>6, <1>9, <2>2 DEF Coming
<1>11. Reading' <=> Reading
  BY <1>2 DEF Reading
<1>12. \A got : Complete(got) => Complete(got)'
  BY <1>1, <1>8, <1>10, <1>11, CompleteStaysAsIs
<1>13. ReloadPending' <=> ReloadPending
  BY <1>1, <1>2, PendingIs
<1>14. ModeInv'
  BY <1>1, <1>2, <1>5 DEF DeliveryInv, ModeInv
<1>15. OrderInv'
  <2>1. OrderInv
    BY DEF DeliveryInv
  <2>2. ReplayInv("forward")' /\ ReplayInv("command")'
    BY <1>2, <1>5 DEF ReplayInv, Forwarder, Commander
  <2> QED BY <1>1, <1>2, <1>3, <1>6, <2>1, <2>2 DEF OrderInv, Written
<1>16. \A n \in Nat : Within(n) => Within(n)'
  BY <1>8
<1> QED BY <1>1, <1>2, <1>4, <1>5, <1>7, <1>12, <1>13, <1>14, <1>15, <1>16, ServerStays

\* SendFullReload keeps it: without the cooldown the browser is told.
LEMMA SendFullReloadKeeps ==
    ASSUME TypeInv, Clean, DeliveryInv, Clean', NEW t \in Tasks, SendFullReload(t)
    PROVE  DeliveryInv'
<1>1. /\ UNCHANGED <<file, torn, emitter, channel, lagged, up, transport, batch, store, bounds>>
      /\ task[t].pc = "reload" /\ task' = [task EXCEPT ![t] = Resting]
  BY DEF SendFullReload, logVars, clientVars
<1>2. t = "command" /\ Commander.pc = "reload"
  BY <1>1 DEF Tasks, DeliveryInv, ModeInv, Forwarder, Commander
<1>3. ~session.hot
  <2>1. "cooldown" \notin lapses'
    BY DEF Clean
  <2> QED BY <2>1 DEF SendFullReload
<1>4. /\ session'.on = session.on /\ session'.cp = session.cp
      /\ session'.replaying = session.replaying /\ session'.buffer = session.buffer
      /\ down' = Append(down, ReloadFrame)
      /\ Forwarder' = Forwarder /\ Commander' = Resting
  BY <1>1, <1>2, <1>3, Facts, TaskSet DEF SendFullReload, Sessions
<1>5. /\ Resting.pc = "rest" /\ Resting.max = 0 /\ Resting.seq = 0 /\ Resting.todo = <<>>
      /\ \A n : ~In(Resting.todo, n)
      /\ ReloadFrame.kind = "reload"
  BY DEF Resting, In, ReloadFrame
<1>6. transport.open /\ bounds.opens # 0
  BY <1>2, Connected DEF DeliveryInv
<1>7. /\ HasKind(down', "reload")
      /\ \A k, n : k # "reload" => (Carries(down', k, n) <=> Carries(down, k, n))
      /\ \A n : Lists(down', n) = Lists(down, n)
      /\ \A k : k # "reload" /\ Ascending(down, k) => Ascending(down', k)
      /\ \A n : NoneFollows(down, "loaded", n, "event") => NoneFollows(down', "loaded", n, "event")
  <2>1. down \in Seq(Frames) /\ ReloadFrame \in Frames
    BY Facts, TypesOfValues DEF TypeInv
  <2>2. \A n : Lists(down, n) \cup {} = Lists(down, n)
    OBVIOUS
  <2>3. \A n : Lists(down', n) = Lists(down, n)
    <3> TAKE n
    <3>1. Lists(down', n) =
              Lists(down, n) \cup (IF ReloadFrame.kind = "loaded" /\ ReloadFrame.seq = n
                                  THEN {ReloadFrame.list} ELSE {})
      BY <1>4, <2>1, CarriedAppended
    <3>2. ReloadFrame.kind # "loaded"
      BY <1>5
    <3> QED BY <2>2, <3>1, <3>2
  <2>4. /\ HasKind(down', "reload")
        /\ \A k, n : k # "reload" => (Carries(down', k, n) <=> Carries(down, k, n))
    BY <1>4, <1>5, <2>1, CarriedAppended
  <2>5. \A k : k # "reload" /\ Ascending(down, k) => Ascending(down', k)
    BY <1>4, <1>5, <2>1, CarriedAppended
  <2>6. \A n : NoneFollows(down, "loaded", n, "event") => NoneFollows(down', "loaded", n, "event")
    BY <1>4, <1>5, <2>1, CarriedAppended
  <2> QED BY <2>3, <2>4, <2>5, <2>6
<1>8. ReloadPending' /\ ReloadPending
  BY <1>2, <1>7, PendingIs
<1>9. /\ ~Replaying("command") /\ ~Replaying("command")'
      /\ Replaying("forward")' <=> Replaying("forward")
  BY <1>2, <1>4, <1>5 DEF Replaying, Forwarder, Commander
<1>10. \A n : Queued(n)' <=> Queued(n)
  BY <1>1 DEF Queued, Written
<1>11. \A n \in Nat : Around(n)' => Around(n) \/ n = 0
  BY <1>1, <1>4, <1>5, <1>7 DEF Around, Written
<1>12. \A n \in Nat : Within(n) => Within(n)'
  <2>1. Commander.max = 0
    BY <1>2 DEF DeliveryInv, ModeInv
  <2> QED BY <1>1, <1>4, <1>5, <2>1 DEF Within, Sent, Asked
<1>13. LoadsInv'
  BY <1>1, <1>2, <1>4, <1>5, <1>7, LoadsStay DEF DeliveryInv, LoadsInv
<1>14. ClientInv'
  BY <1>1, <1>6, ClientStays DEF DeliveryInv
<1>15. NumbersInv'
  BY <1>1, <1>11, NumbersStay DEF DeliveryInv
<1>16. ModeInv'
  BY <1>2, <1>4, <1>5, <1>9 DEF DeliveryInv, ModeInv
<1>17. OrderInv'
  <2>1. OrderInv
    BY DEF DeliveryInv
  <2>2. KeptSeqs' = KeptSeqs
    BY <1>1 DEF KeptSeqs, KeptLines
  <2>3. ReplayInv("forward")'
    BY <1>4, <2>1, <2>2 DEF ReplayInv, Forwarder, OrderInv
  <2>4. ReplayInv("command")'
    BY <1>9 DEF ReplayInv, Replaying
  <2> QED BY <1>1, <1>4, <1>5, <1>10, <2>1, <2>3, <2>4 DEF OrderInv, Written
<1>18. ViewInv'
  <2>1. KeptSeqs' = KeptSeqs
    BY <1>1 DEF KeptSeqs, KeptLines
  <2>2. Answers' = Answers
    BY <1>1, <1>2, <1>4, <1>5, <1>7 DEF Answers
  <2>3. store.phase = "loading" => Answers = {}
    BY <1>2 DEF DeliveryInv, ViewInv, LoadInOrder
  <2>4. transport.lastSeq \in Nat
    BY Facts
  <2> QED BY <1>1, <1>7, <1>8, <1>9, <1>12, <2>1, <2>2, <2>3, <2>4, ViewStays DEF DeliveryInv
<1> QED BY <1>13, <1>14, <1>15, <1>16, <1>17, <1>18 DEF DeliveryInv

-----------------------------------------------------------------------------
(* Steps of the server that send an event *)

\* What is sent is newer than all that was sent before.
LEMMA ServerSends ==
    ASSUME TypeInv, DeliveryInv, UNCHANGED <<store, batch, transport, bounds, up, file>>,
           transport.open, bounds.opens # 0, store.phase # "loading",
           NEW h \in Nat, down' = Append(down, EventFrame(h)),
           Commander'.pc = "respond" <=> Commander.pc = "respond",
           Commander.pc = "respond" => Commander'.seq = Commander.seq,
           \A n \in Nat : Around(n)' => Around(n) \/ n \in KeptSeqs \/ n = 0 \/ n = h,
           Around(h) \/ h \in KeptSeqs,
           ReloadPending => ReloadPending',
           \A n \in Nat : Within(n) => Within(n)',
           store.phase = "open" /\ ~ReloadPending =>
               /\ \A n \in Nat : Within(n) => n < h
               /\ Within(h)'
               /\ \A got : Complete(got) => Complete(got \cup {h})',
           ModeInv', OrderInv'
    PROVE  DeliveryInv'
<1>1. /\ \A n : Carries(down', "event", n) <=> Carries(down, "event", n) \/ n = h
      /\ \A n : Carries(down', "loaded", n) <=> Carries(down, "loaded", n)
      /\ Ascending(down, "loaded") => Ascending(down', "loaded")
      /\ Ascending(down, "event") /\ (\A n : Carries(down, "event", n) => n < h)
             => Ascending(down', "event")
  <2>1. down \in Seq(Frames) /\ EventFrame(h) \in Frames
    BY Facts, TypesOfValues DEF TypeInv
  <2>2. EventFrame(h).kind = "event" /\ EventFrame(h).seq = h
    BY DEF EventFrame
  <2> QED BY <2>1, <2>2, CarriedAppended
<1>2. LoadsInv'
  BY <1>1, LoadsStay DEF DeliveryInv, LoadsInv
<1>3. ClientInv'
  BY ClientStays DEF DeliveryInv
<1>4. NumbersInv'
  <2>1. \A n \in Nat : Around(n)' => Around(n) \/ n \in KeptSeqs \/ n = 0
    <3> SUFFICES ASSUME NEW n \in Nat, Around(n)' PROVE Around(n) \/ n \in KeptSeqs \/ n = 0
      OBVIOUS
    <3>1. CASE n = h
      BY <3>1
    <3>2. CASE n # h
      BY <3>2
    <3> QED BY <3>1, <3>2
  <2> QED BY <2>1, NumbersStay DEF DeliveryInv
<1>5. ViewInv'
  <2> SUFFICES ASSUME store.phase = "open", ~ReloadPending'
               PROVE  ViewInOrder' /\ Complete(View)'
    BY DEF ViewInv
  <2>1. ~ReloadPending
    OBVIOUS
  <2>2. ViewInOrder /\ Complete(View)
    BY <2>1 DEF DeliveryInv, ViewInv
  <2>0. PICK v : v = View
    OBVIOUS
  <2>3. /\ \A n \in Nat : Within(n) => n < h
        /\ Within(h)'
        /\ Complete(v \cup {h})'
    BY <2>0, <2>1, <2>2
  <2>4. View' = v \cup {h}
    BY <1>1, <2>0 DEF View
  <2>5. transport.lastSeq \in Nat /\ \A n : Carries(down, "event", n) => n \in Nat
    BY Facts, CarriedNat
  <2>6. transport.lastSeq < h /\ \A n : Carries(down, "event", n) => n < h
    BY <2>2, <2>3, <2>5 DEF ViewInOrder
  <2>7. Ascending(down', "event")
    BY <1>1, <2>2, <2>6 DEF ViewInOrder
  <2>8. \A n \in Nat : Carries(down', "event", n) => transport.lastSeq < n /\ Within(n)'
    <3> SUFFICES ASSUME NEW n \in Nat, Carries(down', "event", n)
                 PROVE  transport.lastSeq < n /\ Within(n)'
      OBVIOUS
    <3>1. CASE n = h
      BY <2>3, <2>6, <3>1
    <3>2. CASE n # h
      BY <1>1, <2>2, <3>2 DEF ViewInOrder
    <3> QED BY <3>1, <3>2
  <2>9. Within(transport.lastSeq)'
    BY <2>2, <2>5 DEF ViewInOrder
  <2>10. ViewInOrder'
    BY <2>2, <2>7, <2>8, <2>9 DEF ViewInOrder
  <2> QED BY <2>3, <2>4, <2>10
<1> QED BY <1>2, <1>3, <1>4, <1>5 DEF DeliveryInv

\* An unfinished line has the largest number.
LEMMA LastIsNewest ==
    ASSUME TypeInv, file[Len(file)].kind = "kept",
           NEW n \in KeptSeqs, n = file[Len(file)].seq, NEW h \in Nat, Known(h)
    PROVE  h <= n
<1>1. /\ file \in Seq(Lines) /\ n \in Nat
      /\ \A i, j \in Parse(file) : i < j => file[i].seq < file[j].seq
  BY Facts, OrderOfInv DEF TypeInv
<1>2. \A i \in Parse(file) : file[i].seq \in Nat
  BY <1>1, NumbersAreNat
<1>3. DOMAIN file = 1..Len(file) /\ Len(file) \in Nat
  BY <1>1
<1>4. DOMAIN file # {}
  BY DEF KeptSeqs, KeptLines
<1>5. Len(file) \in Parse(file)
  BY <1>3, <1>4 DEF Parse
<1>6. ASSUME NEW i \in Parse(file), h <= file[i].seq
      PROVE  h <= n
  <2>1. i \in DOMAIN file
    BY DEF Parse
  <2>2. CASE i = Len(file)
    BY <1>6, <2>2
  <2>3. CASE i < Len(file)
    <3>1. file[i].seq < n
      BY <1>1, <1>5, <2>3
    <3> QED BY <1>1, <1>2, <1>6, <3>1
  <2>4. i = Len(file) \/ i < Len(file)
    <3>1. i \in 1..Len(file) /\ Len(file) \in Nat
      BY <1>1, <2>1, ElementAt
    <3> QED BY <3>1
  <2> QED BY <2>2, <2>3, <2>4
<1> QED BY <1>1, <1>6 DEF Known

\* Without a lapse an event is sent to no view that loads, nor ahead of its subscription.
LEMMA MetLoad ==
    ASSUME TypeInv, Clean', NEW h \in Nat, MeetLoad(h)
    PROVE  /\ store.phase # "loading"
           /\ \A n \in Nat : Asked(n) => n < h /\ session.on
<1>1. ~ \/ store.phase = "loading"
        \/ \E i \in DOMAIN up : /\ up[i].kind = "subscribe"
                                /\ h <= up[i].seq \/ ~session.on
  <2>1. "liveWhileLoading" \notin lapses'
    BY DEF Clean
  <2> QED BY <2>1 DEF MeetLoad
<1>2. ASSUME NEW n \in Nat, Asked(n) PROVE n < h /\ session.on
  <2>1. PICK i \in DOMAIN up : up[i].kind = "subscribe" /\ n <= up[i].seq
    BY <1>2 DEF Asked
  <2>0. up \in Seq(Requests)
    BY Facts
  <2>3. up[i] \in Requests
    BY <2>0, <2>1, ElementAt
  <2>4. up[i].seq \in Nat
    BY <2>3 DEF Requests
  <2>5. ~(h <= up[i].seq) /\ session.on
    BY <1>1, <2>1
  <2> QED BY <2>1, <2>4, <2>5
<1> QED BY <1>1, <1>2

\* An open view has a session, or has asked for one.
LEMMA SessionOfOpenView ==
    ASSUME TypeInv, DeliveryInv, transport.open, store.phase = "open", ~ReloadPending,
           \A n \in Nat : Asked(n) => session.on
    PROVE  session.on
<1>1. Within(transport.lastSeq) /\ transport.lastSeq \in Nat
  BY Facts DEF DeliveryInv, ViewInv, ViewInOrder
<1> QED BY <1>1 DEF Within, Sent

\* ForwardSend keeps it: what is sent is newer than all that was, and nothing is skipped.
LEMMA ForwardSendKeeps ==
    ASSUME TypeInv, Clean, DeliveryInv, Clean', ForwardSend
    PROVE  DeliveryInv'
<1>0. PICK h : h = Forwarder.seq
  OBVIOUS
<1>1. /\ UNCHANGED <<file, torn, emitter, channel, lagged, session, up, transport, batch,
                     store, bounds>>
      /\ Forwarder.pc = "send" /\ h \in Nat /\ down' = Append(down, EventFrame(h))
      /\ MeetLoad(h)
  BY <1>0, Facts DEF ForwardSend, logVars, clientVars, Forwarder
<1>2. /\ Commander' = Commander /\ Forwarder'.pc = "mark" /\ Forwarder'.seq = h
      /\ Forwarder'.max = Forwarder.max /\ Forwarder'.todo = Forwarder.todo
  <2>1. task \in [Tasks -> TaskStates] /\ {"forward", "command"} = Tasks
    BY Facts
  <2> QED BY <1>0, <2>1 DEF ForwardSend, Forwarder, Commander, TaskStates
<1>3. transport.open /\ bounds.opens # 0
  BY <1>1, Connected DEF DeliveryInv
<1>4. /\ ~Replaying("command") /\ ~Replaying("command")'
      /\ ~Replaying("forward") /\ ~Replaying("forward")'
      /\ Commander.max = 0 /\ session.buffer = <<>> /\ ~Reading /\ ~Reading'
  <2>1. ~Replaying("command")
    BY <1>1 DEF DeliveryInv, ModeInv
  <2>2. Commander.pc \notin {"flush", "read"}
    BY <2>1 DEF Replaying, Commander
  <2>3. Commander.max = 0 /\ session.buffer = <<>>
    BY <2>1, <2>2 DEF DeliveryInv, ModeInv
  <2> QED BY <1>1, <1>2, <2>1, <2>2, <2>3 DEF Replaying, Forwarder, Commander, Reading
<1>5. \A n : Queued(n)' <=> Queued(n)
  BY <1>1 DEF Queued, Written
<1>6. /\ \A n : Carries(down', "event", n) <=> Carries(down, "event", n) \/ n = h
      /\ \A k : HasKind(down, k) => HasKind(down', k)
  <2>1. down \in Seq(Frames) /\ EventFrame(h) \in Frames
    BY <1>1, Facts, TypesOfValues DEF TypeInv
  <2>2. EventFrame(h).kind = "event" /\ EventFrame(h).seq = h
    BY DEF EventFrame
  <2> QED BY <1>1, <2>1, <2>2, CarriedAppended
<1>7. \A n \in Nat : Around(n)' => Around(n) \/ n \in KeptSeqs \/ n = 0 \/ n = h
  BY <1>1, <1>2, <1>6 DEF Around, Written
<1>8. Around(h)
  BY <1>0 DEF Around
<1>9. \A n \in Nat : Within(n)' <=> Within(n) \/ (session.on /\ n <= h)
  BY <1>1, <1>2 DEF Within, Sent, Asked
<1>10. ReloadPending => ReloadPending'
  BY <1>1, <1>2, <1>6, PendingIs
<1>11. /\ store.phase # "loading"
       /\ \A n \in Nat : Asked(n) => n < h /\ session.on
  BY <1>1, MetLoad
<1>12. store.phase = "open" /\ ~ReloadPending => session.on
  BY <1>3, <1>11, SessionOfOpenView
<1>13. session.on => \A n \in Nat : Within(n) => n < h
  <2>1. session.cp \in Nat /\ (session.on => session.cp < h)
    BY <1>0, <1>1, Facts DEF DeliveryInv, OrderInv
  <2> QED BY <1>1, <1>4, <1>11, <2>1 DEF Within, Sent
<1>14. \A n \in KeptSeqs : Coming(n) => h <= n
  <2> SUFFICES ASSUME NEW n \in KeptSeqs, Coming(n)
               PROVE  h <= n
    OBVIOUS
  <2>1. n \in Nat
    BY Facts
  <2>2. CASE Queued(n)
    BY <1>0, <1>1, <2>1, <2>2 DEF DeliveryInv, OrderInv
  <2>3. CASE Later(n)
    BY <1>0, <1>1, <2>1, <2>3 DEF Later
  <2>4. CASE file[Len(file)].kind = "kept" /\ n = file[Len(file)].seq
    <3>1. Known(h)
      BY <1>1, <1>8 DEF DeliveryInv, NumbersInv
    <3> QED BY <1>1, <2>4, <3>1, LastIsNewest
  <2>5. ~In(session.buffer, n)
    BY <1>4 DEF In
  <2> QED BY <1>0, <1>1, <1>4, <2>1, <2>2, <2>3, <2>4, <2>5 DEF Coming
<1>15. \A n \in KeptSeqs : Coming(n) => Coming(n)' \/ n = h
  <2>1. \A n : Later(n) => Later(n)'
    BY <1>1, <1>2 DEF Later
  <2> QED BY <1>0, <1>1, <1>2, <1>4, <1>5, <2>1 DEF Coming
<1>16. session.on => \A got : Complete(got) => Complete(got \cup {h})'
  <2> SUFFICES ASSUME session.on, NEW got, Complete(got)
               PROVE  Complete(got \cup {h})'
    OBVIOUS
  <2>1. KeptSeqs' = KeptSeqs /\ \A n \in KeptSeqs : n \in Nat
    BY <1>1, Facts DEF KeptSeqs, KeptLines
  <2>2. \A n \in KeptSeqs : n \in got \/ Coming(n)
    BY <1>4 DEF Complete
  <2>3. \A n \in KeptSeqs : Within(n)' => n \in got \cup {h}
    <3> SUFFICES ASSUME NEW n \in KeptSeqs, Within(n)', n \notin got
                 PROVE  n = h
      OBVIOUS
    <3>1. h <= n /\ n \in Nat
      BY <1>14, <2>1, <2>2
    <3>2. ~Within(n)
      BY DEF Complete
    <3>3. n <= h
      BY <1>9, <3>1, <3>2
    <3> QED BY <1>1, <3>1, <3>3
  <2>4. \A n \in KeptSeqs : n <= transport'.lastSeq => n \in got \cup {h}
    BY <1>1 DEF Complete
  <2>5. \A n \in KeptSeqs : n \in got \cup {h} \/ Coming(n)'
    BY <1>15, <2>2
  <2> QED BY <2>1, <2>3, <2>4, <2>5 DEF Complete
<1>17. ModeInv'
  BY <1>1, <1>2, <1>4 DEF DeliveryInv, ModeInv, Replaying, Commander
<1>18. OrderInv'
  <2>1. OrderInv
    BY DEF DeliveryInv
  <2>2. ReplayInv("forward")' /\ ReplayInv("command")'
    BY <1>4 DEF ReplayInv, Replaying
  <2> QED BY <1>0, <1>1, <1>2, <1>5, <2>1, <2>2 DEF OrderInv, Written
<1>19. \A n \in Nat : Within(n) => Within(n)'
  BY <1>9
<1>20. store.phase = "open" /\ ~ReloadPending => Within(h)'
  <2>1. session.on => Within(h)'
    <3>1. h <= h
      BY <1>1
    <3> QED BY <1>1, <1>2, <3>1 DEF Within, Sent
  <2> QED BY <1>12, <2>1
<1> QED BY <1>1, <1>2, <1>3, <1>7, <1>8, <1>10, <1>11, <1>12, <1>13, <1>16, <1>17, <1>18,
           <1>19, <1>20, ServerSends

\* ReplayEvent keeps it: the replay goes on in order from the checkpoint.
LEMMA ReplayEventKeeps ==
    ASSUME TypeInv, Clean, DeliveryInv, Clean', NEW t \in Tasks, ReplayEvent(t)
    PROVE  DeliveryInv'
<1>0. PICK h : h = Head(task[t].todo)
  OBVIOUS
<1>1. /\ UNCHANGED <<file, torn, emitter, channel, lagged, up, transport, batch, store, bounds>>
      /\ task[t].pc = "replay" /\ task[t].todo # <<>>
      /\ down' = Append(down, EventFrame(h)) /\ MeetLoad(h)
      /\ session' = Checkpoint(h)
  BY <1>0 DEF ReplayEvent, logVars, clientVars
<1>2. /\ t = "forward" \/ t = "command"
      /\ task \in [Tasks -> TaskStates] /\ {"forward", "command"} = Tasks
      /\ Forwarder = task["forward"] /\ Commander = task["command"]
  BY Facts DEF Tasks, Forwarder, Commander
<1>3. /\ t = "forward" => /\ Commander' = Commander /\ Forwarder'.pc = "replay"
                          /\ Forwarder'.seq = Forwarder.seq /\ Forwarder'.max = Forwarder.max
      /\ t = "command" => /\ Forwarder' = Forwarder /\ Commander'.pc = "replay"
                          /\ Commander'.seq = Commander.seq /\ Commander'.max = Commander.max
      /\ task'[t].todo = Tail(task[t].todo) /\ task'[t].pc = "replay"
  BY <1>1, <1>2 DEF ReplayEvent, Forwarder, Commander, TaskStates
<1>4. /\ h \in Nat
      /\ \A n : In(task[t].todo, n) <=> In(task'[t].todo, n) \/ n = h
      /\ Increasing(task'[t].todo)
      /\ \A n : In(task'[t].todo, n) => h < n
  <2>1. task[t].todo \in Seq(Nat)
    BY <1>2, Facts
  <2>2. Increasing(task[t].todo)
    BY <1>1, <1>2 DEF DeliveryInv, OrderInv, ReplayInv
  <2> QED BY <1>0, <1>1, <1>3, <2>1, <2>2, TakenIn, IncreasingTaken
<1>5. transport.open /\ bounds.opens # 0
  BY <1>1, <1>2, Connected DEF DeliveryInv
<1>6. /\ t = "forward" => Forwarder.pc = "replay" /\ ~Replaying("command")
      /\ t = "command" => Commander.pc = "replay" /\ ~Replaying("forward") /\ Forwarder.pc = "rest"
      /\ Replaying(t) /\ Replaying(t)' /\ ~Reading /\ ~Reading'
      /\ Commander.max = 0 /\ Commander.pc \notin {"read", "flush"}
      /\ Forwarder.pc \in {"rest", "replay"}
      /\ Replaying("forward")' <=> Replaying("forward")
      /\ Replaying("command")' <=> Replaying("command")
  <2>1. /\ Replaying("command") <=> Commander.pc \in {"read", "replay", "flush"}
        /\ Replaying("forward") <=> Forwarder.pc \in {"read", "replay", "flush"}
        /\ Replaying("command")' <=> Commander'.pc \in {"read", "replay", "flush"}
        /\ Replaying("forward")' <=> Forwarder'.pc \in {"read", "replay", "flush"}
    BY DEF Replaying, Forwarder, Commander
  <2>2. ModeInv
    BY DEF DeliveryInv
  <2>3. t = "forward" => /\ Forwarder.pc = "replay" /\ ~Replaying("command")
                         /\ Commander.max = 0 /\ Commander.pc \notin {"read", "flush"}
    BY <1>1, <1>2, <2>1, <2>2 DEF ModeInv
  <2>4. t = "command" => /\ Commander.pc = "replay" /\ ~Replaying("forward")
                         /\ Forwarder.pc = "rest" /\ Commander.max = 0
                         /\ Commander.pc \notin {"read", "flush"}
    BY <1>1, <1>2, <2>1, <2>2 DEF ModeInv
  <2> QED BY <1>1, <1>2, <1>3, <2>1, <2>3, <2>4 DEF Reading
<1>7. /\ session'.on = session.on /\ session'.replaying = session.replaying
      /\ session'.buffer = session.buffer
      /\ session.on => session.cp < h /\ session'.cp = h
      /\ ~session.on => session'.cp = session.cp
      /\ session.cp \in Nat /\ session.on \in BOOLEAN
  <2>1. session \in Sessions /\ session.cp \in Nat /\ session.on \in BOOLEAN
    BY Facts
  <2>2. session.on => session.cp < h
    <3>1. ReplayInv(t)
      BY <1>2 DEF DeliveryInv, OrderInv
    <3> QED BY <1>1, <1>4, <3>1 DEF ReplayInv
  <2> QED BY <1>1, <1>4, <2>1, <2>2 DEF Checkpoint, Sessions, Maximum
<1>8. \A n : Queued(n)' <=> Queued(n)
  BY <1>1 DEF Queued, Written
<1>9. /\ \A n : Carries(down', "event", n) <=> Carries(down, "event", n) \/ n = h
      /\ \A k : HasKind(down, k) => HasKind(down', k)
  <2>1. down \in Seq(Frames) /\ EventFrame(h) \in Frames
    BY <1>4, Facts, TypesOfValues DEF TypeInv
  <2>2. EventFrame(h).kind = "event" /\ EventFrame(h).seq = h
    BY DEF EventFrame
  <2> QED BY <1>1, <2>1, <2>2, CarriedAppended
<1>10. /\ \A n : In(Forwarder'.todo, n) => In(Forwarder.todo, n)
       /\ \A n : In(Commander'.todo, n) => In(Commander.todo, n)
       /\ t = "forward" => \A n : In(Forwarder.todo, n) => In(Forwarder'.todo, n) \/ n = h
       /\ t = "command" => \A n : In(Commander.todo, n) => In(Commander'.todo, n) \/ n = h
  BY <1>2, <1>3, <1>4 DEF Forwarder, Commander
<1>11. \A n \in Nat : Around(n)' => Around(n) \/ n \in KeptSeqs \/ n = 0 \/ n = h
  BY <1>1, <1>2, <1>3, <1>6, <1>7, <1>9, <1>10 DEF Around, Written
<1>12. Around(h) /\ Known(h)
  <2>1. In(task[t].todo, h)
    BY <1>4
  <2>2. Around(h)
    BY <1>2, <1>6, <2>1 DEF Around
  <2> QED BY <1>4, <2>2 DEF DeliveryInv, NumbersInv
<1>13. \A n \in Nat : Within(n)' <=> Within(n) \/ (session.on /\ n <= h)
  BY <1>1, <1>2, <1>3, <1>4, <1>6, <1>7 DEF Within, Sent, Asked
<1>14. ReloadPending => ReloadPending'
  BY <1>1, <1>2, <1>3, <1>6, <1>9, PendingIs
<1>15. /\ store.phase # "loading"
       /\ \A n \in Nat : Asked(n) => n < h /\ session.on
  BY <1>1, <1>4, MetLoad
<1>16. store.phase = "open" /\ ~ReloadPending => session.on
  BY <1>5, <1>15, SessionOfOpenView
<1>17. session.on => \A n \in Nat : Within(n) => n < h
  <2>1. 0 < h \/ ~session.on
    BY <1>4, <1>7
  <2> QED BY <1>4, <1>6, <1>7, <1>15, <2>1 DEF Within, Sent
<1>18. \A n \in KeptSeqs : Coming(n) => Coming(n)' \/ n = h
  <2>1. \A n : Later(n) => Later(n)'
    BY <1>1, <1>2, <1>3, <1>6, <1>7, <1>10 DEF Later
  <2> QED BY <1>1, <1>2, <1>3, <1>6, <1>7, <1>8, <1>10, <2>1 DEF Coming
<1>19. session.on => \A got : Complete(got) => Complete(got \cup {h})'
  <2> SUFFICES ASSUME session.on, NEW got, Complete(got)
               PROVE  Complete(got \cup {h})'
    OBVIOUS
  <2>1. KeptSeqs' = KeptSeqs /\ \A n \in KeptSeqs : n \in Nat
    BY <1>1, Facts DEF KeptSeqs, KeptLines
  <2>2. \A n \in KeptSeqs : n \in got \/ Coming(n)
    BY <1>6 DEF Complete
  <2>3. \A n \in KeptSeqs : Within(n)' => n \in got \cup {h}
    <3> SUFFICES ASSUME NEW n \in KeptSeqs, Within(n)', n \notin got
                 PROVE  n = h
      OBVIOUS
    <3>1. ~Within(n) /\ n \in Nat
      BY <2>1 DEF Complete
    <3>2. n <= h /\ session.cp < n
      BY <1>7, <1>13, <3>1 DEF Within, Sent
    <3>3. In(task[t].todo, n)
      <4>1. ReplayInv(t)
        BY <1>2 DEF DeliveryInv, OrderInv
      <4> QED BY <1>1, <1>4, <3>1, <3>2, <4>1 DEF ReplayInv
    <3>4. n = h \/ h < n
      BY <1>4, <3>3
    <3> QED BY <1>4, <3>1, <3>2, <3>4
  <2>4. \A n \in KeptSeqs : n <= transport'.lastSeq => n \in got \cup {h}
    BY <1>1 DEF Complete
  <2>5. \A n \in KeptSeqs : n \in got \cup {h} \/ Coming(n)'
    BY <1>18, <2>2
  <2> QED BY <2>1, <2>3, <2>4, <2>5 DEF Complete
<1>20. ModeInv'
  <2>1. ModeInv
    BY DEF DeliveryInv
  <2>2. /\ Forwarder'.pc \in {"rest", "replay"} /\ Forwarder'.max = 0
        /\ Commander'.pc \notin {"read", "flush"} /\ Commander'.max = 0
        /\ Commander'.pc \in {"rest", "replay", "reload", "respond"}
    BY <1>2, <1>3, <1>6, <2>1 DEF ModeInv
  <2>3. Replaying("command") => Forwarder'.pc = "rest"
    BY <1>2, <1>3, <1>6
  <2> QED BY <1>6, <1>7, <2>1, <2>2, <2>3 DEF ModeInv
<1>21. OrderInv'
  <2>1. OrderInv
    BY DEF DeliveryInv
  <2>2. ReplayInv(t)'
    <3>1. ReplayInv(t)
      BY <1>2, <2>1 DEF OrderInv
    <3>2. session.on => \A n \in Nat, m \in KeptSeqs :
              In(task'[t].todo, n) /\ h < m /\ m <= n => In(task'[t].todo, m)
      <4> SUFFICES ASSUME session.on, NEW n \in Nat, NEW m \in KeptSeqs,
                          In(task'[t].todo, n), h < m, m <= n
                   PROVE  In(task'[t].todo, m)
        OBVIOUS
      <4>1. m \in Nat
        BY Facts
      <4>2. session.cp < m /\ m # h
        BY <1>4, <1>7, <4>1
      <4>3. In(task[t].todo, m)
        BY <1>1, <1>4, <3>1, <4>2 DEF ReplayInv
      <4> QED BY <1>4, <4>2, <4>3
    <3>3. KeptSeqs' = KeptSeqs
      BY <1>1 DEF KeptSeqs, KeptLines
    <3> QED BY <1>4, <1>7, <3>2, <3>3 DEF ReplayInv
  <2>3. t = "forward" => ReplayInv("command")'
    BY <1>6 DEF ReplayInv, Replaying
  <2>4. t = "command" => ReplayInv("forward")'
    BY <1>6 DEF ReplayInv, Replaying
  <2>5. ReplayInv("forward")' /\ ReplayInv("command")'
    BY <1>2, <2>2, <2>3, <2>4
  <2>6. Forwarder'.pc \notin {"send", "mark"} /\ Commander'.pc # "flush"
    BY <1>2, <1>3, <1>6
  <2> QED BY <1>1, <1>7, <1>8, <2>1, <2>5, <2>6 DEF OrderInv, Written
<1>22. \A n \in Nat : Within(n) => Within(n)'
  BY <1>13
<1>23. store.phase = "open" /\ ~ReloadPending => Within(h)'
  <2>1. h <= h
    BY <1>4
  <2> QED BY <1>4, <1>13, <1>16, <2>1
<1>24. /\ Commander'.pc = "respond" <=> Commander.pc = "respond"
       /\ Commander.pc = "respond" => Commander'.seq = Commander.seq
  BY <1>2, <1>3, <1>6
<1> QED BY <1>1, <1>4, <1>5, <1>11, <1>12, <1>14, <1>15, <1>16, <1>17, <1>19, <1>20, <1>21,
           <1>22, <1>23, <1>24, ServerSends

\* A flush that sends an event keeps it: the buffer goes on where the replay ended.
LEMMA FlushSendKeeps ==
    ASSUME TypeInv, Clean, DeliveryInv, Clean',
           Commander.pc = "flush", Commander.todo # <<>>, Head(Commander.todo) > Commander.seq,
           down' = Append(down, EventFrame(Head(Commander.todo))),
           task' = [task EXCEPT !["command"].todo = Tail(@),
                                !["command"].max = Maximum(@, Head(Commander.todo))],
           MeetLoad(Head(Commander.todo)),
           UNCHANGED <<logVars, channel, lagged, session, up, clientVars, bounds>>
    PROVE  DeliveryInv'
<1>0. PICK h : h = Head(Commander.todo)
  OBVIOUS
<1>1. /\ UNCHANGED <<file, torn, emitter, channel, lagged, session, up, transport, batch,
                     store, bounds>>
      /\ down' = Append(down, EventFrame(h)) /\ MeetLoad(h)
  BY <1>0 DEF logVars, clientVars
<1>2. OrderInv
  BY DEF DeliveryInv
<1>3. /\ h \in Nat /\ Commander.seq \in Nat /\ Commander.max \in Nat /\ session.cp \in Nat
      /\ \A n : In(Commander.todo, n) <=> In(Tail(Commander.todo), n) \/ n = h
      /\ Increasing(Tail(Commander.todo))
      /\ \A n : In(Tail(Commander.todo), n) => h < n
  <2>1. Commander.todo \in Seq(Nat) /\ Increasing(Commander.todo)
    BY <1>2, Facts DEF OrderInv
  <2>2. Commander.seq \in Nat /\ Commander.max \in Nat /\ session.cp \in Nat
    BY Facts
  <2> QED BY <1>0, <2>1, <2>2, TakenIn, IncreasingTaken
<1>4. Commander.max < h
  <2>1. In(Commander.todo, h)
    BY <1>3
  <2> QED BY <1>0, <1>2, <1>3, <2>1 DEF OrderInv
<1>5. /\ Forwarder' = Forwarder /\ Commander'.pc = "flush" /\ Commander'.seq = Commander.seq
      /\ Commander'.max = h /\ Commander'.todo = Tail(Commander.todo)
  <2>1. task \in [Tasks -> TaskStates] /\ {"forward", "command"} = Tasks
    BY Facts
  <2>2. Maximum(Commander.max, h) = h
    BY <1>3, <1>4 DEF Maximum
  <2> QED BY <1>0, <2>1, <2>2 DEF Forwarder, Commander, TaskStates
<1>6. transport.open /\ bounds.opens # 0
  BY Connected DEF DeliveryInv
<1>7. /\ Replaying("command") /\ Replaying("command")' /\ session.on /\ Forwarder.pc = "rest"
      /\ Commander.seq = session.cp
      /\ ~Replaying("forward") /\ ~Replaying("forward")'
      /\ ~Reading /\ ~Reading'
  <2>1. Replaying("command") /\ Replaying("command")'
    BY <1>5 DEF Replaying, Commander
  <2>2. session.on /\ Forwarder.pc = "rest" /\ Commander.seq = session.cp
    BY <2>1 DEF DeliveryInv, ModeInv
  <2>3. ~Replaying("forward") /\ ~Replaying("forward")'
    BY <1>5, <2>2 DEF Replaying, Forwarder
  <2> QED BY <1>5, <2>1, <2>2, <2>3 DEF Reading
<1>8. \A n : Queued(n)' <=> Queued(n)
  BY <1>1 DEF Queued, Written
<1>9. /\ \A n : Carries(down', "event", n) <=> Carries(down, "event", n) \/ n = h
      /\ \A k : HasKind(down, k) => HasKind(down', k)
  <2>1. down \in Seq(Frames) /\ EventFrame(h) \in Frames
    BY <1>3, Facts, TypesOfValues DEF TypeInv
  <2>2. EventFrame(h).kind = "event" /\ EventFrame(h).seq = h
    BY DEF EventFrame
  <2> QED BY <1>1, <2>1, <2>2, CarriedAppended
<1>10. \A n \in Nat : Around(n)' => Around(n) \/ n \in KeptSeqs \/ n = 0 \/ n = h
  BY <1>1, <1>3, <1>5, <1>9 DEF Around, Written
<1>11. Around(h) /\ Known(h)
  <2>1. Around(h)
    BY <1>3 DEF Around
  <2> QED BY <1>3, <2>1 DEF DeliveryInv, NumbersInv
<1>12. \A n \in Nat : Within(n)' <=> Within(n) \/ n <= h
  BY <1>1, <1>3, <1>4, <1>5, <1>7 DEF Within, Sent, Asked
<1>13. ReloadPending => ReloadPending'
  BY <1>1, <1>5, <1>9, PendingIs
<1>14. /\ store.phase # "loading"
       /\ \A n \in Nat : Asked(n) => n < h
  BY <1>1, <1>3, MetLoad
<1>15. \A n \in Nat : Within(n) => n < h
  BY <1>0, <1>3, <1>4, <1>7, <1>14 DEF Within, Sent
<1>16. \A n \in KeptSeqs : Coming(n) => h <= n
  <2> SUFFICES ASSUME NEW n \in KeptSeqs, Coming(n)
               PROVE  h <= n
    OBVIOUS
  <2>1. n \in Nat /\ In(Commander.todo, h)
    BY <1>3, Facts
  <2>2. CASE Queued(n) \/ In(session.buffer, n)
    BY <1>2, <1>3, <2>1, <2>2 DEF OrderInv
  <2>3. CASE Later(n)
    BY <1>3, <2>1, <2>3 DEF Later
  <2>4. CASE file[Len(file)].kind = "kept" /\ n = file[Len(file)].seq
    BY <1>3, <1>11, <2>4, LastIsNewest
  <2>5. CASE In(Commander.todo, n)
    BY <1>3, <2>1, <2>5
  <2> QED BY <1>7, <2>2, <2>3, <2>4, <2>5 DEF Coming
<1>17. \A n \in KeptSeqs : Coming(n) => Coming(n)' \/ n = h
  <2>1. \A n : Later(n) => Later(n)'
    BY <1>1, <1>3, <1>5 DEF Later
  <2> QED BY <1>1, <1>3, <1>5, <1>7, <1>8, <2>1 DEF Coming
<1>18. \A got : Complete(got) => Complete(got \cup {h})'
  <2> SUFFICES ASSUME NEW got, Complete(got)
               PROVE  Complete(got \cup {h})'
    OBVIOUS
  <2>1. KeptSeqs' = KeptSeqs /\ \A n \in KeptSeqs : n \in Nat
    BY <1>1, Facts DEF KeptSeqs, KeptLines
  <2>2. \A n \in KeptSeqs : n \in got \/ Coming(n)
    BY <1>7 DEF Complete
  <2>3. \A n \in KeptSeqs : Within(n)' => n \in got \cup {h}
    <3> SUFFICES ASSUME NEW n \in KeptSeqs, Within(n)', n \notin got
                 PROVE  n = h
      OBVIOUS
    <3>1. h <= n /\ n \in Nat
      BY <1>16, <2>1, <2>2
    <3>2. ~Within(n)
      BY DEF Complete
    <3>3. n <= h
      BY <1>12, <3>1, <3>2
    <3> QED BY <1>3, <3>1, <3>3
  <2>4. \A n \in KeptSeqs : n <= transport'.lastSeq => n \in got \cup {h}
    BY <1>1 DEF Complete
  <2>5. \A n \in KeptSeqs : n \in got \cup {h} \/ Coming(n)'
    BY <1>17, <2>2
  <2> QED BY <2>1, <2>3, <2>4, <2>5 DEF Complete
<1>19. ModeInv'
  BY <1>1, <1>5, <1>7 DEF DeliveryInv, ModeInv
<1>20. OrderInv'
  <2>1. ReplayInv("forward")' /\ ReplayInv("command")'
    BY <1>5, <1>7 DEF ReplayInv, Forwarder, Commander
  <2> QED BY <1>1, <1>2, <1>3, <1>5, <1>7, <1>8, <2>1 DEF OrderInv, Written
<1>21. (\A n \in Nat : Within(n) => Within(n)') /\ Within(h)'
  <2>1. h <= h
    BY <1>3
  <2> QED BY <1>3, <1>12, <2>1
<1> QED BY <1>1, <1>3, <1>5, <1>6, <1>10, <1>11, <1>13, <1>14, <1>15, <1>18, <1>19, <1>20,
           <1>21, ServerSends

-----------------------------------------------------------------------------
(* Requests *)

\* While its request is on the way, a load has no answer.
LEMMA LoadOnItsWay ==
    ASSUME TypeInv, DeliveryInv, store.phase = "loading", up # <<>>
    PROVE  Answers = {} /\ ~Carries(down, "loaded", store.gen)
<1>1. up \in Seq(Requests) /\ store.gen \in Nat
  BY Facts
<1>2. Len(up) \in DOMAIN up
  BY <1>1
<1>3. Carries(up, "load", store.gen)
  BY <1>2 DEF DeliveryInv, ClientInv, Carries
<1>4. /\ ~Carries(down, "loaded", store.gen)
      /\ ~(Commander.pc = "respond" /\ Commander.seq = store.gen)
  BY <1>1, <1>3 DEF DeliveryInv, LoadsInv
<1>5. Lists(down, store.gen) = {}
  BY <1>4 DEF Lists, Carries
<1> QED BY <1>4, <1>5 DEF Answers

\* Respond keeps it: the answer to a load goes the way of the events.
LEMMA RespondKeeps ==
    ASSUME TypeInv, DeliveryInv, Respond
    PROVE  DeliveryInv'
<1>0. PICK g, list : g = Commander.seq /\ list = Commander.todo
  OBVIOUS
<1>1. /\ UNCHANGED <<file, torn, emitter, channel, lagged, session, up, transport, batch,
                     store, bounds>>
      /\ Commander.pc = "respond" /\ down' = Append(down, LoadedFrame(g, list))
      /\ Forwarder' = Forwarder /\ Commander' = Resting
  BY <1>0, TaskSet DEF Respond, logVars, clientVars, Commander
<1>2. /\ Resting.pc = "rest" /\ Resting.max = 0 /\ Resting.seq = 0 /\ Resting.todo = <<>>
      /\ \A n : ~In(Resting.todo, n)
      /\ g \in Nat /\ list \in Seq(Nat) /\ store.gen \in Nat
  BY <1>0, Facts DEF Resting, In
<1>3. transport.open /\ bounds.opens # 0
  BY <1>1, Connected DEF DeliveryInv
<1>4. /\ \A k : HasKind(down', k) <=> HasKind(down, k) \/ k = "loaded"
      /\ \A n : Carries(down', "event", n) <=> Carries(down, "event", n)
      /\ \A n : Carries(down', "loaded", n) <=> Carries(down, "loaded", n) \/ n = g
      /\ Ascending(down, "event") => Ascending(down', "event")
      /\ Ascending(down, "loaded") /\ (\A n : Carries(down, "loaded", n) => n < g)
             => Ascending(down', "loaded")
      /\ \A n : NoneFollows(down, "loaded", n, "event") => NoneFollows(down', "loaded", n, "event")
      /\ \A n : Lists(down', n) = Lists(down, n) \cup (IF g = n THEN {list} ELSE {})
  <2>1. down \in Seq(Frames) /\ LoadedFrame(g, list) \in Frames
    BY <1>2, Facts, TypesOfValues DEF TypeInv
  <2>2. /\ LoadedFrame(g, list).kind = "loaded" /\ LoadedFrame(g, list).seq = g
        /\ LoadedFrame(g, list).list = list
    BY DEF LoadedFrame
  <2>3. /\ \A k : HasKind(down', k) <=> HasKind(down, k) \/ k = "loaded"
        /\ \A n : Carries(down', "event", n) <=> Carries(down, "event", n)
        /\ \A n : Carries(down', "loaded", n) <=> Carries(down, "loaded", n) \/ n = g
    BY <1>1, <2>1, <2>2, CarriedAppended
  <2>4. /\ Ascending(down, "event") => Ascending(down', "event")
        /\ Ascending(down, "loaded") /\ (\A n : Carries(down, "loaded", n) => n < g)
             => Ascending(down', "loaded")
    BY <1>1, <2>1, <2>2, CarriedAppended
  <2>5. \A n : NoneFollows(down, "loaded", n, "event") => NoneFollows(down', "loaded", n, "event")
    BY <1>1, <2>1, <2>2, CarriedAppended
  <2>6. \A n : Lists(down', n) = Lists(down, n) \cup (IF g = n THEN {list} ELSE {})
    BY <1>1, <2>1, <2>2, CarriedAppended
  <2> QED BY <2>3, <2>4, <2>5, <2>6
<1>5. /\ ~Replaying("command") /\ ~Replaying("command")'
      /\ Replaying("forward")' <=> Replaying("forward")
      /\ Commander.max = 0
  <2>1. ~Replaying("command") /\ ~Replaying("command")'
    BY <1>1, <1>2 DEF Replaying, Commander
  <2>2. Replaying("forward")' <=> Replaying("forward")
    BY <1>1 DEF Replaying, Forwarder
  <2> QED BY <1>1, <2>1, <2>2 DEF DeliveryInv, ModeInv
<1>6. \A n : Queued(n)' <=> Queued(n)
  BY <1>1 DEF Queued, Written
<1>7. \A n \in Nat : Around(n)' => Around(n) \/ n = 0
  BY <1>1, <1>2, <1>4 DEF Around, Written
<1>8. \A n : Within(n)' <=> Within(n)
  BY <1>1, <1>2, <1>5 DEF Within, Sent, Asked
<1>9. \A n : Later(n)' <=> Later(n)
  BY <1>1, <1>2 DEF Later
<1>10. \A n : Coming(n)' <=> Coming(n)
  BY <1>1, <1>5, <1>6, <1>9 DEF Coming
<1>11. Reading' <=> Reading
  BY <1>1, <1>2 DEF Reading
<1>12. \A got : Complete(got) => Complete(got)'
  BY <1>1, <1>8, <1>10, <1>11, CompleteStaysAsIs
<1>13. ReloadPending' <=> ReloadPending
  BY <1>1, <1>2, <1>4, PendingIs
<1>14. LoadsInv'
  <2>1. LoadsInv
    BY DEF DeliveryInv
  <2>2. g \in 1..store.gen /\ \A n \in Nat : Carries(up, "load", n) => g < n
    BY <1>0, <1>1, <2>1 DEF LoadsInv
  <2>3. \A n : Carries(down, "loaded", n) => n \in Nat /\ n < g
    BY <1>0, <1>1, <2>1, CarriedNat DEF LoadsInv
  <2>4. Ascending(down', "loaded")
    BY <1>4, <2>1, <2>3 DEF LoadsInv
  <2>5. Commander'.pc # "respond"
    BY <1>1, <1>2
  <2>6. store.reloading # 0 =>
            /\ store.phase # "open"
            /\ Carries(up, "load", store.reloading) \/ Carries(down', "loaded", store.reloading)
    BY <1>0, <1>1, <1>4, <2>1 DEF LoadsInv
  <2>7. \A n \in Nat : Carries(down', "loaded", n) =>
            /\ n \in 1..store.gen
            /\ \A m \in Nat : Carries(up, "load", m) => n < m
    <3> SUFFICES ASSUME NEW n \in Nat, Carries(down', "loaded", n)
                 PROVE  /\ n \in 1..store.gen
                        /\ \A m \in Nat : Carries(up, "load", m) => n < m
      OBVIOUS
    <3>1. CASE n = g
      BY <2>2, <3>1
    <3>2. CASE Carries(down, "loaded", n)
      BY <2>1, <3>2 DEF LoadsInv
    <3> QED BY <1>4, <3>1, <3>2
  <2> QED BY <1>1, <2>1, <2>4, <2>5, <2>6, <2>7 DEF LoadsInv
<1>15. ClientInv'
  BY <1>1, <1>3, ClientStays DEF DeliveryInv
<1>16. NumbersInv'
  BY <1>1, <1>7, NumbersStay DEF DeliveryInv
<1>17. ModeInv'
  BY <1>1, <1>2, <1>5 DEF DeliveryInv, ModeInv
<1>18. OrderInv'
  <2>1. OrderInv
    BY DEF DeliveryInv
  <2>2. KeptSeqs' = KeptSeqs
    BY <1>1 DEF KeptSeqs, KeptLines
  <2>3. ReplayInv("forward")'
    BY <1>1, <2>1, <2>2 DEF ReplayInv, Forwarder, OrderInv
  <2>4. ReplayInv("command")'
    BY <1>5 DEF ReplayInv, Replaying
  <2> QED BY <1>1, <1>2, <1>6, <2>1, <2>3, <2>4 DEF OrderInv, Written
<1>19. ViewInv'
  <2>1. KeptSeqs' = KeptSeqs /\ transport.lastSeq \in Nat
    BY <1>1, Facts DEF KeptSeqs, KeptLines
  <2>2. Answers' = Answers
    <3>1. Answers' = Lists(down', store.gen)
      BY <1>1, <1>2 DEF Answers
    <3>2. Answers = Lists(down, store.gen) \cup (IF g = store.gen THEN {list} ELSE {})
      BY <1>0, <1>1 DEF Answers
    <3> QED BY <1>4, <3>1, <3>2
  <2>3. \A n \in Nat : Within(n) => Within(n)'
    BY <1>8
  <2>4. Commander'.pc # "reload"
    BY <1>1, <1>2
  <2> QED BY <1>1, <1>4, <1>5, <1>12, <1>13, <2>1, <2>2, <2>3, <2>4, ViewStays DEF DeliveryInv
<1> QED BY <1>14, <1>15, <1>16, <1>17, <1>18, <1>19 DEF DeliveryInv

\* The oldest request is taken.
LEMMA RequestTaken ==
    ASSUME TypeInv, LoadsInv, up # <<>>, up' = Tail(up)
    PROVE  /\ Head(up).seq \in Nat
           /\ \A k, n : Carries(up, k, n) <=>
                            Carries(up', k, n) \/ (Head(up).kind = k /\ Head(up).seq = n)
           /\ Ascending(up', "load")
           /\ Head(up).kind = "load" =>
                  /\ Head(up).seq \in 1..store.gen
                  /\ \A n : Carries(up', "load", n) => Head(up).seq < n
<1>1. up \in Seq(Requests) /\ Ascending(up, "load")
  BY Facts DEF LoadsInv
<1>2. Head(up) \in Requests
  BY <1>1, TakenIn
<1>3. \A k, n : Carries(up, k, n) <=>
                    Carries(Tail(up), k, n) \/ (Head(up).kind = k /\ Head(up).seq = n)
  BY <1>1, CarriedTaken
<1>4. /\ Ascending(Tail(up), "load")
      /\ Head(up).kind = "load" => \A n : Carries(Tail(up), "load", n) => Head(up).seq < n
  BY <1>1, CarriedTaken
<1>5. Head(up).seq \in Nat
  BY <1>2 DEF Requests
<1>6. Head(up).kind = "load" => Head(up).seq \in 1..store.gen
  BY <1>3, <1>5 DEF LoadsInv
<1> QED BY <1>3, <1>4, <1>5, <1>6

\* Load keeps it: what get_bus_events reads is a beginning of what is kept.
LEMMA LoadKeeps ==
    ASSUME TypeInv, DeliveryInv, Load
    PROVE  DeliveryInv'
<1>0. PICK g, list : g = Head(up).seq /\ list = ListBusEvents(0)
  OBVIOUS
<1>1. /\ UNCHANGED <<file, torn, emitter, channel, lagged, session, down, transport, batch,
                     store, bounds>>
      /\ Commander.pc = "rest" /\ up # <<>> /\ Head(up).kind = "load" /\ up' = Tail(up)
      /\ Forwarder' = Forwarder
      /\ Commander' = [pc |-> "respond", seq |-> g, todo |-> list, max |-> 0]
  BY <1>0, TaskSet DEF Load, TakeRequest, logVars, clientVars, Commander
<1>2. /\ Commander'.pc = "respond" /\ Commander'.max = 0 /\ Commander'.seq = g
      /\ Commander'.todo = list
  BY <1>1
<1>3. /\ Increasing(list)
      /\ \A x \in Nat : In(list, x) <=> x \in KeptSeqs
  <2>1. IInv /\ NumbersInv
    BY DEF TypeInv, DeliveryInv
  <2>2. \A n \in KeptSeqs : n \in Nat /\ n # 0
    BY <2>1, Facts DEF NumbersInv
  <2> QED BY <1>0, <2>1, <2>2, Listed
<1>4. transport.open /\ bounds.opens # 0
  BY <1>1, Connected DEF DeliveryInv
<1>5. /\ g \in 1..store.gen /\ g \in Nat
      /\ \A n : Carries(up, "load", n) <=> Carries(up', "load", n) \/ n = g
      /\ \A n : Carries(up, "subscribe", n) <=> Carries(up', "subscribe", n)
      /\ Ascending(up', "load")
      /\ \A n : Carries(up', "load", n) => g < n
  BY <1>0, <1>1, RequestTaken DEF DeliveryInv
<1>6. /\ ~Replaying("command") /\ ~Replaying("command")'
      /\ Replaying("forward")' <=> Replaying("forward")
      /\ Commander.max = 0
  <2>1. ~Replaying("command") /\ ~Replaying("command")'
    BY <1>1, <1>2 DEF Replaying, Commander
  <2>2. Replaying("forward")' <=> Replaying("forward")
    BY <1>1 DEF Replaying, Forwarder
  <2> QED BY <1>1, <2>1, <2>2 DEF DeliveryInv, ModeInv
<1>7. \A n : Queued(n)' <=> Queued(n)
  BY <1>1 DEF Queued, Written
<1>8. \A n \in Nat : Around(n)' => Around(n) \/ n = 0
  BY <1>1, <1>2, <1>5 DEF Around, Written
<1>9. LoadsInv'
  <2>1. LoadsInv
    BY DEF DeliveryInv
  <2>2. \A n \in Nat : Carries(up', "load", n) => n \in 1..store.gen /\ g < n
    BY <1>5, <2>1 DEF LoadsInv
  <2>3. \A n \in Nat : Carries(down, "loaded", n) =>
            /\ n \in 1..store.gen
            /\ n < g
            /\ \A m \in Nat : Carries(up', "load", m) => n < m
    BY <1>5, <2>1 DEF LoadsInv
  <2>4. store.reloading # 0 =>
            /\ store.phase # "open"
            /\ \/ Carries(up', "load", store.reloading)
               \/ store.reloading = g
               \/ Carries(down, "loaded", store.reloading)
    BY <1>1, <1>5, <2>1 DEF LoadsInv
  <2> QED BY <1>1, <1>2, <1>5, <2>1, <2>2, <2>3, <2>4 DEF LoadsInv
<1>10. ClientInv'
  BY <1>1, <1>4, ClientStays DEF DeliveryInv
<1>11. NumbersInv'
  BY <1>1, <1>8, NumbersStay DEF DeliveryInv
<1>12. ModeInv'
  BY <1>1, <1>2, <1>6 DEF DeliveryInv, ModeInv
<1>13. OrderInv'
  <2>1. OrderInv
    BY DEF DeliveryInv
  <2>2. KeptSeqs' = KeptSeqs
    BY <1>1 DEF KeptSeqs, KeptLines
  <2>3. ReplayInv("forward")'
    BY <1>1, <2>1, <2>2 DEF ReplayInv, Forwarder, OrderInv
  <2>4. ReplayInv("command")'
    BY <1>6 DEF ReplayInv, Replaying
  <2> QED BY <1>1, <1>2, <1>7, <2>1, <2>3, <2>4 DEF OrderInv, Written
<1>14. store.phase # "open"
  <2>1. up \in Seq(Requests)
    BY Facts
  <2>2. 1 \in DOMAIN up /\ up[1].kind = "load"
    BY <1>1, <2>1
  <2> QED BY <2>2 DEF DeliveryInv, ClientInv
<1>15. ViewInv'
  <2> SUFFICES ASSUME store.phase = "loading"
               PROVE  LoadInOrder'
    BY <1>1, <1>14 DEF ViewInv
  <2>1. Answers = {} /\ LoadInOrder
    BY <1>1, LoadOnItsWay DEF DeliveryInv, ViewInv
  <2>2. \A l \in Answers' : l = list
    BY <1>1, <1>2, <2>1 DEF Answers
  <2>3. KeptSeqs' = KeptSeqs /\ \A n \in KeptSeqs : n \in Nat
    BY <1>1, Facts DEF KeptSeqs, KeptLines
  <2>4. Beginning(list)'
    BY <1>3, <2>3 DEF Beginning
  <2>5. Complete(Elems(list))'
    <3>1. \A n \in KeptSeqs' : n \in Elems(list)
      BY <1>3, <2>3 DEF Elems
    <3>2. PICK got : got = Elems(list)
      OBVIOUS
    <3>3. Complete(got)'
      BY <3>1, <3>2 DEF Complete
    <3>4. Elems(list)' = Elems(list)
      BY DEF Elems
    <3> QED BY <3>2, <3>3, <3>4
  <2>6. Commander'.pc # "reload" /\ ~Replaying("command")'
    BY <1>2, <1>6
  <2>7. \A l \in Answers' : Beginning(l)' /\ Complete(Elems(l))'
    BY <2>2, <2>4, <2>5
  <2> QED BY <1>1, <2>1, <2>6, <2>7 DEF LoadInOrder
<1> QED BY <1>9, <1>10, <1>11, <1>12, <1>13, <1>15 DEF DeliveryInv

\* What the two kinds of subscription, of a run being replayed and of one that is not, have
\* in common.
LEMMA SubscriptionTaken ==
    ASSUME TypeInv, DeliveryInv, up # <<>>, Head(up).kind = "subscribe", up' = Tail(up),
           UNCHANGED <<file, down, transport, batch, store, bounds>>,
           transport.open, bounds.opens # 0,
           Commander.pc # "respond", Commander'.pc # "respond",
           \A n \in Nat : Around(n)' => Around(n) \/ n \in KeptSeqs \/ n = 0,
           ReloadPending => ReloadPending',
           \A n \in Nat : Within(n)' <=> Within(n),
           \A got : Complete(got) => Complete(got)',
           ModeInv', OrderInv'
    PROVE  DeliveryInv'
<1>1. \A n : Carries(up, "load", n) <=> Carries(up', "load", n)
  BY RequestTaken DEF DeliveryInv
<1>2. Ascending(up', "load") /\ Ascending(down', "loaded")
  BY RequestTaken DEF DeliveryInv, LoadsInv
<1>3. LoadsInv'
  BY <1>1, <1>2, LoadsStay DEF DeliveryInv
<1>4. ClientInv'
  BY ClientStays DEF DeliveryInv
<1>5. NumbersInv'
  BY NumbersStay DEF DeliveryInv
<1>6. ViewInv'
  <2>1. Answers' = Answers
    BY DEF Answers
  <2>2. KeptSeqs' = KeptSeqs /\ transport.lastSeq \in Nat
    BY Facts DEF KeptSeqs, KeptLines
  <2>3. store.phase = "loading" => Answers = {}
    BY LoadOnItsWay
  <2> QED BY ViewStays, <2>1, <2>2, <2>3 DEF DeliveryInv
<1> QED BY <1>3, <1>4, <1>5, <1>6 DEF DeliveryInv

\* Subscribe keeps it: the replay starts at the checkpoint, or at what the client has.
LEMMA SubscribeKeeps ==
    ASSUME TypeInv, DeliveryInv, Clean', Subscribe
    PROVE  DeliveryInv'
<1>0. PICK h, e : h = Head(up).seq /\ e = EffectiveSeq(h)
  OBVIOUS
<1>1. /\ UNCHANGED <<file, torn, emitter, channel, lagged, down, transport, batch, store,
                     bounds>>
      /\ Commander.pc = "rest" /\ up # <<>> /\ Head(up).kind = "subscribe" /\ up' = Tail(up)
      /\ session' = [session EXCEPT !.on = TRUE, !.cp = e, !.replaying = TRUE]
      /\ task' = IF session.replaying THEN task ELSE StartReplay("command", e)
  BY <1>0 DEF Subscribe, TakeRequest, logVars, clientVars, Commander
<1>2. /\ session'.on /\ session'.cp = e /\ session'.replaying
      /\ session'.buffer = session.buffer
      /\ session.on /\ e = session.cp /\ session.replaying => session' = session
  BY <1>1, Facts DEF Sessions
<1>3. h \in Nat /\ session.cp \in Nat
  BY <1>0, <1>1, RequestTaken, Facts DEF DeliveryInv
<1>4. /\ e \in Nat
      /\ session.on => e = session.cp \/ e = h
      /\ ~session.on => e = h
      /\ \A n \in Nat : n <= e <=> n <= h \/ (session.on /\ n <= session.cp)
  <2>1. CASE session.on
    BY <1>0, <1>3, <2>1 DEF EffectiveSeq, Maximum
  <2>2. CASE ~session.on
    BY <1>0, <1>3, <2>2 DEF EffectiveSeq, Maximum
  <2> QED BY <2>1, <2>2
<1>5. /\ Forwarder.pc \notin {"send", "mark"}
      /\ Replaying("forward") => session.replaying /\ ~(e > session.cp)
  <2>1. lapses' = {}
    BY DEF Clean
  <2> QED BY <1>0, <2>1 DEF Subscribe, Forwarder
<1>6. /\ ~Replaying("command") /\ Commander.max = 0 /\ session.buffer = <<>>
      /\ session.replaying <=> Replaying("forward")
      /\ session.replaying => session.on
  <2>1. ~Replaying("command")
    BY <1>1 DEF Replaying, Commander
  <2>2. session.replaying => Replaying("forward")
    BY <2>1 DEF DeliveryInv, ModeInv
  <2> QED BY <1>1, <1>5, <2>1, <2>2 DEF DeliveryInv, ModeInv
<1>7. transport.open /\ bounds.opens # 0
  BY <1>1, Connected DEF DeliveryInv
<1>8. /\ \A n : Carries(up, "subscribe", n) <=> Carries(up', "subscribe", n) \/ n = h
      /\ \A n : Asked(n) <=> Asked(n)' \/ n <= h
  <2>1. \A n : Carries(up, "subscribe", n) <=> Carries(up', "subscribe", n) \/ n = h
    BY <1>0, <1>1, RequestTaken DEF DeliveryInv
  <2> QED BY <2>1, AskedIs
<1>9. Around(e) /\ Around(h)
  <2>1. Around(h)
    BY <1>8 DEF Around
  <2>2. Around(session.cp)
    BY DEF Around
  <2> QED BY <1>4, <2>1, <2>2
<1>10. CASE session.replaying
  <2>1. e = session.cp
    BY <1>3, <1>4, <1>5, <1>6, <1>10
  <2>2. session' = session /\ task' = task /\ Forwarder' = Forwarder /\ Commander' = Commander
    BY <1>1, <1>2, <1>6, <1>10, <2>1, TaskSet
  <2>3. \A n \in Nat : Around(n)' => Around(n)
    BY <1>1, <1>8, <2>2 DEF Around, Written
  <2>4. \A n \in Nat : Within(n)' <=> Within(n)
    BY <1>4, <1>6, <1>8, <1>10, <2>1, <2>2 DEF Within, Sent
  <2>5. \A n : Queued(n)' <=> Queued(n)
    BY <1>1 DEF Queued, Written
  <2>6. \A n : Coming(n)' <=> Coming(n)
    <3>1. \A n : Later(n)' <=> Later(n)
      BY <2>2 DEF Later
    <3>2. \A t \in Tasks : Replaying(t)' <=> Replaying(t)
      BY <2>2 DEF Replaying
    <3> QED BY <1>1, <2>2, <2>5, <3>1, <3>2 DEF Coming, Tasks
  <2>7. \A got : Complete(got) => Complete(got)'
    <3>1. Reading' <=> Reading
      BY <2>2 DEF Reading
    <3>2. \A n \in KeptSeqs : n \in Nat
      BY Facts
    <3> QED BY <1>1, <2>2, <2>4, <2>6, <3>1, <3>2, CompleteStaysAsIs
  <2>8. ModeInv'
    <3>1. \A t \in Tasks : Replaying(t)' <=> Replaying(t)
      BY <2>2 DEF Replaying
    <3> QED BY <2>2, <3>1 DEF DeliveryInv, ModeInv, Tasks
  <2>9. OrderInv'
    <3>1. OrderInv
      BY DEF DeliveryInv
    <3>2. KeptSeqs' = KeptSeqs
      BY <1>1 DEF KeptSeqs, KeptLines
    <3>3. ReplayInv("forward")' /\ ReplayInv("command")'
      BY <2>2, <3>1, <3>2 DEF OrderInv, ReplayInv
    <3> QED BY <1>1, <2>2, <2>5, <3>1, <3>3 DEF OrderInv, Written
  <2>10. ReloadPending => ReloadPending'
    BY <1>1, <2>2, PendingIs
  <2> QED BY <1>1, <1>7, <2>2, <2>3, <2>4, <2>7, <2>8, <2>9, <2>10, SubscriptionTaken
<1>11. CASE ~session.replaying
  <2>1. Forwarder.pc = "rest"
    BY <1>5, <1>6, <1>11 DEF DeliveryInv, ModeInv, Replaying, Forwarder
  <2>2. /\ Forwarder' = Forwarder
        /\ Commander'.pc = "read" /\ Commander'.seq = e /\ Commander'.max = 0
        /\ \A n : ~In(Commander'.todo, n)
    <3>1. Forwarder' = Forwarder /\ Commander' = [Resting EXCEPT !.pc = "read", !.seq = e]
      BY <1>1, <1>11, TaskSet DEF StartReplay
    <3>2. \A r : r = [Resting EXCEPT !.pc = "read", !.seq = e] =>
              r.pc = "read" /\ r.seq = e /\ r.max = 0 /\ r.todo = <<>>
      BY DEF Resting
    <3>3. /\ Commander'.pc = "read" /\ Commander'.seq = e /\ Commander'.max = 0
          /\ Commander'.todo = <<>>
      BY <3>1, <3>2
    <3> QED BY <3>1, <3>3 DEF In
  <2>3. \A n \in Nat : Around(n)' => Around(n) \/ n = 0
    BY <1>1, <1>2, <1>8, <1>9, <2>2 DEF Around, Written
  <2>4. \A n \in Nat : Within(n)' <=> Within(n)
    <3> TAKE n \in Nat
    <3>1. Within(n)' <=> n <= e \/ n <= 0 \/ Asked(n)'
      BY <1>2, <2>1, <2>2 DEF Within, Sent
    <3>2. Within(n) <=> (session.on /\ (n <= session.cp \/ n <= 0)) \/ Asked(n)
      BY <1>6, <2>1 DEF Within, Sent
    <3>3. n <= 0 => n <= e /\ n <= h
      BY <1>3, <1>4
    <3> QED BY <1>3, <1>4, <1>8, <3>1, <3>2, <3>3
  <2>5. \A n : Queued(n)' <=> Queued(n)
    BY <1>1 DEF Queued, Written
  <2>6. \A got : Complete(got) => Complete(got)'
    <3>1. Reading'
      BY <2>2 DEF Reading
    <3>2. \A n \in KeptSeqs : n \in Nat
      BY Facts
    <3> QED BY <1>1, <2>4, <3>1, <3>2, CompleteStaysAsIs
  <2>7. /\ Replaying("command")' /\ ~Replaying("forward")'
    BY <2>1, <2>2 DEF Replaying, Forwarder, Commander
  <2>8. ModeInv'
    BY <1>2, <2>1, <2>2, <2>7 DEF DeliveryInv, ModeInv
  <2>9. OrderInv'
    <3>1. OrderInv
      BY DEF DeliveryInv
    <3>2. ReplayInv("forward")' /\ ReplayInv("command")'
      BY <2>1, <2>2 DEF ReplayInv, Forwarder, Commander
    <3> QED BY <1>1, <1>2, <2>1, <2>2, <2>5, <3>1, <3>2 DEF OrderInv, Written
  <2>10. ReloadPending => ReloadPending'
    BY <1>1, <2>1, PendingIs
  <2> QED BY <1>1, <1>7, <2>2, <2>3, <2>4, <2>6, <2>8, <2>9, <2>10, SubscriptionTaken
<1> QED BY <1>10, <1>11

\* Unsubscribe keeps it: no open view waits for the session that ends.
LEMMA UnsubscribeKeeps ==
    ASSUME TypeInv, DeliveryInv, Unsubscribe
    PROVE  DeliveryInv'
<1>1. /\ UNCHANGED <<file, torn, emitter, channel, lagged, down, transport, batch, store, task,
                     bounds>>
      /\ Commander.pc = "rest" /\ up # <<>> /\ Head(up).kind = "unsubscribe"
      /\ up' = Tail(up) /\ session' = NoSession
  BY DEF Unsubscribe, TakeRequest, logVars, clientVars, Commander
<1>2. /\ ~session'.on /\ session'.cp = 0 /\ ~session'.replaying /\ session'.buffer = <<>>
      /\ \A n : ~In(session'.buffer, n)
      /\ Forwarder' = Forwarder /\ Commander' = Commander
  <2>1. /\ ~session'.on /\ session'.cp = 0 /\ ~session'.replaying /\ session'.buffer = <<>>
    BY <1>1 DEF NoSession
  <2> QED BY <1>1, <2>1, TaskSet DEF In
<1>3. transport.open /\ bounds.opens # 0
  BY <1>1, Connected DEF DeliveryInv
<1>4. /\ \A n : Carries(up, "load", n) <=> Carries(up', "load", n)
      /\ \A n : Carries(up, "subscribe", n) <=> Carries(up', "subscribe", n)
      /\ Ascending(up', "load")
  BY <1>1, RequestTaken DEF DeliveryInv
<1>5. \A n : Queued(n)' <=> Queued(n)
  BY <1>1 DEF Queued, Written
<1>6. \A n \in Nat : Around(n)' => Around(n) \/ n = 0
  BY <1>1, <1>2, <1>4 DEF Around, Written
<1>7. LoadsInv'
  <2>1. Ascending(down', "loaded")
    BY <1>1 DEF DeliveryInv, LoadsInv
  <2> QED BY <1>1, <1>2, <1>4, <2>1, LoadsStay DEF DeliveryInv
<1>8. ClientInv'
  BY <1>1, <1>3, ClientStays DEF DeliveryInv
<1>9. NumbersInv'
  BY <1>1, <1>6, NumbersStay DEF DeliveryInv
<1>10. ~Replaying("command")
  BY <1>1 DEF Replaying, Commander
<1>11. ModeInv'
  <2>1. \A t \in Tasks : Replaying(t)' <=> Replaying(t)
    BY <1>1 DEF Replaying
  <2> QED BY <1>1, <1>2, <1>10, <2>1 DEF DeliveryInv, ModeInv, Tasks
<1>12. OrderInv'
  <2>1. OrderInv
    BY DEF DeliveryInv
  <2>2. ReplayInv("command")'
    BY <1>1, <1>2 DEF ReplayInv, Commander
  <2>3. ReplayInv("forward")'
    <3>1. Forwarder.pc = "replay" => Increasing(Forwarder.todo)
      BY <2>1 DEF OrderInv, ReplayInv, Forwarder
    <3> QED BY <1>2, <3>1 DEF ReplayInv, Forwarder
  <2>4. Increasing(session'.buffer)
    BY <1>2, NothingCarried
  <2> QED BY <1>1, <1>2, <1>5, <2>1, <2>2, <2>3, <2>4 DEF OrderInv, Written
<1>13. store.phase # "open"
  <2>1. up \in Seq(Requests)
    BY Facts
  <2>2. 1 \in DOMAIN up /\ up[1].kind = "unsubscribe"
    BY <1>1, <2>1
  <2> QED BY <2>2 DEF DeliveryInv, ClientInv
<1>14. ViewInv'
  <2> SUFFICES ASSUME store.phase = "loading"
               PROVE  LoadInOrder'
    BY <1>1, <1>13 DEF ViewInv
  <2>1. Answers = {} /\ LoadInOrder
    BY <1>1, LoadOnItsWay DEF DeliveryInv, ViewInv
  <2>2. Answers' = {}
    BY <1>1, <1>2, <2>1 DEF Answers
  <2> QED BY <1>1, <2>1, <2>2 DEF LoadInOrder
<1> QED BY <1>7, <1>8, <1>9, <1>11, <1>12, <1>14 DEF DeliveryInv

-----------------------------------------------------------------------------
(* Steps of the emitters *)

\* A line x, whole or not, follows a whole one.
GrowsBy(x) ==
    /\ ~torn /\ counter # 0
    /\ x \in Lines
    /\ x.kind # "garbage" => x.seq = counter
    /\ file' = Append(file, x)

\* The counter is ahead of what can be read.
LEMMA Grown ==
    ASSUME TypeInv, NEW x, GrowsBy(x)
    PROVE  /\ counter \in Nat
           /\ \A n \in Nat : Known(n) => n < counter /\ Known(n)'
           /\ \A n \in KeptSeqs : n < counter
           /\ \A n : n \in KeptSeqs' <=> n \in KeptSeqs \/ (x.kind = "kept" /\ n = counter)
           /\ \A n : x.kind # "garbage" /\ n = counter => Known(n)'
           /\ x.kind = "kept" => file'[Len(file')].kind = "kept" /\ file'[Len(file')].seq = counter
<1>1. /\ file \in Seq(Lines) /\ counter \in Nat /\ Below(file, counter) /\ counter # 0
      /\ x \in Lines /\ file' = Append(file, x) /\ (x.kind # "garbage" => x.seq = counter)
  BY OrderOfInv DEF TypeInv, GrowsBy
<1>2. /\ DOMAIN file = 1..Len(file) /\ DOMAIN file' = 1..(Len(file) + 1) /\ Len(file) \in Nat
      /\ Len(file') = Len(file) + 1
      /\ \A i \in DOMAIN file : file'[i] = file[i]
      /\ file'[Len(file) + 1] = x
  BY <1>1
<1>3. \A i : i \in DOMAIN file' <=> i \in DOMAIN file \/ i = Len(file) + 1
  BY <1>2
<1>4. \A i \in Parse(file) : file[i].seq \in Nat /\ file[i].seq < counter
  BY <1>1, NumbersAreNat DEF Below
<1>5. \A i \in Parse(file) : i \in Parse(file') /\ file'[i] = file[i]
  BY <1>2, <1>3 DEF Parse
<1>6. ASSUME NEW n \in Nat, Known(n)
      PROVE  n < counter /\ Known(n)'
  <2>1. CASE n = 0
    BY <1>1, <2>1 DEF Known
  <2>2. CASE n # 0
    <3>1. PICK i \in Parse(file) : n <= file[i].seq
      BY <1>6, <2>2 DEF Known
    <3>2. n < counter
      BY <1>1, <1>4, <3>1
    <3>3. i \in Parse(file') /\ n <= file'[i].seq
      BY <1>5, <3>1
    <3> QED BY <3>2, <3>3 DEF Known
  <2> QED BY <2>1, <2>2
<1>7. \A n \in KeptSeqs : n < counter
  <2> TAKE n \in KeptSeqs
  <2>1. PICK i \in DOMAIN file : file[i].kind = "kept" /\ n = file[i].seq
    BY DEF KeptSeqs, KeptLines
  <2>2. i \in Parse(file)
    BY <2>1 DEF Parse
  <2> QED BY <1>4, <2>1, <2>2
<1>8. \A n : n \in KeptSeqs' <=> n \in KeptSeqs \/ (x.kind = "kept" /\ n = counter)
  <2> TAKE n
  <2>1. n \in KeptSeqs <=> \E i \in DOMAIN file : file[i].kind = "kept" /\ n = file[i].seq
    BY DEF KeptSeqs, KeptLines
  <2>2. n \in KeptSeqs' <=> \E i \in DOMAIN file' : file'[i].kind = "kept" /\ n = file'[i].seq
    BY DEF KeptSeqs, KeptLines
  <2>3. x.kind = "kept" => x.seq = counter
    BY <1>1
  <2> QED BY <1>2, <1>3, <2>1, <2>2, <2>3
<1>9. \A n : x.kind # "garbage" /\ n = counter => Known(n)'
  <2> SUFFICES ASSUME x.kind # "garbage", NEW n, n = counter
               PROVE  Known(n)'
    OBVIOUS
  <2>1. Len(file) + 1 \in Parse(file') /\ file'[Len(file) + 1].seq = n
    BY <1>1, <1>2, <1>3 DEF Parse
  <2>2. n <= n
    BY <1>1
  <2>3. \E i \in Parse(file') : n <= file'[i].seq
    BY <2>1, <2>2
  <2> QED BY <2>3 DEF Known
<1> QED BY <1>1, <1>2, <1>6, <1>7, <1>8, <1>9

\* An emitter does something else than finish a line or broadcast it.
EmittersStay ==
    \A e \in Emitters :
        /\ emitter'[e].pc = "written" <=> emitter[e].pc = "written"
        /\ emitter[e].pc = "written" => emitter'[e] = emitter[e]

\* Without a lapse, the file stays as it is or grows by a line.
LEMMA PersistIs ==
    ASSUME TypeInv, Persist, Clean'
    PROVE  /\ UNCHANGED <<channel, lagged, session, task, up, down, transport, batch, store,
                         bounds>>
           /\ \/ UNCHANGED <<file, torn>> /\ EmittersStay
              \/ \E x : GrowsBy(x) /\ torn' /\ EmittersStay
              \/ \E x : /\ GrowsBy(x) /\ x.kind # "garbage"
                       /\ \E e \in Emitters :
                             /\ emitter[e].pc # "written"
                             /\ emitter' = [emitter EXCEPT ![e] = [pc |-> "written", seq |-> counter]]
<1>1. UNCHANGED <<channel, lagged, session, task, up, down, transport, batch, store, bounds>>
  BY DEF Persist, serverVars, clientVars
<1>2. /\ emitter \in [Emitters -> [pc : {"idle", "holding", "written"}, seq : Nat]]
      /\ counter \in Nat
  BY DEF TypeInv, IInv, LogTypeOK
<1>3. torn => file' = file /\ torn'
  <2>1. "glued" \notin lapses'
    BY DEF Clean
  <2> QED BY <2>1 DEF Persist, Glued
<1>4. torn \in BOOLEAN
  BY OrderOfInv DEF TypeInv
<1>5. \A e \in Emitters : emitter[e].pc = "holding" => counter # 0
  BY DEF TypeInv, IInv, LogSeqsIncrease, NobodyHolds
<1>6. \A kind \in Kinds : [seq |-> counter, kind |-> kind] \in Lines
  BY <1>2, LogAssumption DEF Lines
<1>7. Garbage \in Lines /\ Garbage.kind = "garbage"
  BY DEF Garbage, Lines
<1>8. ASSUME NEW e \in Emitters, GetWriter(e)
      PROVE  UNCHANGED <<file, torn>> /\ EmittersStay
  <2>1. /\ UNCHANGED <<file, torn>> /\ emitter[e].pc = "idle"
        /\ emitter' = [emitter EXCEPT ![e].pc = "holding"]
    BY <1>8 DEF GetWriter
  <2> QED BY <1>2, <2>1 DEF EmittersStay
<1>9. ASSUME NEW e \in Emitters, WriteFails(e)
      PROVE  \/ UNCHANGED <<file, torn>> /\ EmittersStay
             \/ \E x : GrowsBy(x) /\ torn' /\ EmittersStay
  <2>1. /\ emitter[e].pc = "holding" /\ emitter' = [emitter EXCEPT ![e] = Idle]
        /\ counter # 0
    BY <1>5, <1>9 DEF WriteFails
  <2>2. EmittersStay
    BY <1>2, <2>1 DEF EmittersStay, Idle
  <2>3. PICK kind \in Kinds : Leftover([seq |-> counter, kind |-> kind])
    BY <1>9 DEF WriteFails
  <2>4. CASE torn
    BY <1>3, <1>4, <2>2, <2>4 DEF Leftover
  <2>5. CASE ~torn
    <3>1. \/ UNCHANGED <<file, torn>>
          \/ torn' /\ \/ file' = Append(file, [seq |-> counter, kind |-> kind])
                      \/ file' = Append(file, Garbage)
      BY <2>3, <2>5 DEF Leftover, AppendLine
    <3>2. CASE UNCHANGED <<file, torn>>
      BY <2>2, <3>2
    <3>3. CASE torn' /\ file' = Append(file, [seq |-> counter, kind |-> kind])
      <4>1. GrowsBy([seq |-> counter, kind |-> kind])
        BY <1>6, <2>1, <2>5, <3>3 DEF GrowsBy
      <4> QED BY <2>2, <3>3, <4>1
    <3>4. CASE torn' /\ file' = Append(file, Garbage)
      <4>1. GrowsBy(Garbage)
        BY <1>7, <2>1, <2>5, <3>4 DEF GrowsBy
      <4> QED BY <2>2, <3>4, <4>1
    <3> QED BY <3>1, <3>2, <3>3, <3>4
  <2> QED BY <2>4, <2>5
<1>10. ASSUME NEW e \in Emitters, NEW kind \in Kinds, Write(e, kind)
       PROVE  \E x : /\ GrowsBy(x) /\ x.kind # "garbage" /\ emitter[e].pc # "written"
                     /\ emitter' = [emitter EXCEPT ![e] = [pc |-> "written", seq |-> counter]]
  <2>1. /\ emitter[e].pc = "holding" /\ counter # 0 /\ ~torn'
        /\ emitter' = [emitter EXCEPT ![e] = [pc |-> "written", seq |-> counter]]
        /\ file' = AppendLine([seq |-> counter, kind |-> kind])
    BY <1>5, <1>10 DEF Write
  <2>2. ~torn
    BY <1>3, <2>1
  <2>3. GrowsBy([seq |-> counter, kind |-> kind])
    BY <1>6, <2>1, <2>2 DEF GrowsBy, AppendLine
  <2>4. kind # "garbage"
    BY LogAssumption
  <2> QED BY <2>1, <2>3, <2>4
<1>11. CASE CollectWriters
  <2>1. UNCHANGED <<file, torn, emitter>>
    BY <1>11 DEF CollectWriters
  <2>2. EmittersStay
    BY <2>1 DEF EmittersStay
  <2> QED BY <1>1, <2>1, <2>2
<1> QED BY <1>1, <1>8, <1>9, <1>10, <1>11 DEF Persist

\* A kept event is in the file.
LEMMA KeptIsKnown ==
    ASSUME TypeInv
    PROVE  \A n \in KeptSeqs : n \in Nat /\ Known(n)
<1> TAKE n \in KeptSeqs
<1>1. PICK i \in DOMAIN file : file[i].kind = "kept" /\ n = file[i].seq
  BY DEF KeptSeqs, KeptLines
<1>2. n \in Nat
  BY Facts
<1> QED BY <1>1, <1>2 DEF Known, Parse

\* Nothing but the log changes, and the log by no more than the numbers said to be new.
LEMMA LogStepKeeps ==
    ASSUME TypeInv, DeliveryInv,
           UNCHANGED <<channel, lagged, session, task, up, down, transport, batch, store, bounds>>,
           NEW c \in Nat, NEW new \in SUBSET {c},
           \A n \in Nat : Known(n) => Known(n)',
           \A n \in new : Known(n)' /\ n # 0,
           new # {} => \A n \in Nat : Known(n) => n < c,
           \A n \in Nat : Written(n) => Written(n)',
           \A n \in Nat : Written(n)' => Written(n) \/ n \in new,
           \A e, f \in Emitters : /\ emitter'[e].pc = "written" /\ emitter'[f].pc = "written"
                                  /\ emitter'[e].seq = emitter'[f].seq
                                  => e = f,
           \A n \in KeptSeqs : n \in KeptSeqs',
           \A n \in KeptSeqs' : n \in KeptSeqs \/ n \in new,
           \A n \in KeptSeqs' : n \notin KeptSeqs => Coming(n)',
           \A n \in KeptSeqs : Coming(n) => Coming(n)'
    PROVE  DeliveryInv'
<1>1. Forwarder' = Forwarder /\ Commander' = Commander
  BY TaskSet
<1>2. \A n \in Nat : Around(n) => Known(n) /\ (new # {} => n < c)
  BY DEF DeliveryInv, NumbersInv
<1>3. \A n \in Nat : Around(n)' => Around(n) \/ n \in new
  BY <1>1 DEF Around
<1>4. \A n \in Nat : Queued(n)' => Queued(n) \/ n \in new
  BY DEF Queued
<1>5. \A n : Within(n)' <=> Within(n)
  BY <1>1 DEF Within, Sent, Asked
<1>6. \A n \in new : ~Within(n) /\ ~(n <= transport.lastSeq)
  <2> TAKE n \in new
  <2>1. n = c /\ new # {}
    OBVIOUS
  <2>2. /\ Around(session.cp) /\ session.cp \in Nat
        /\ Around(Forwarder.seq) /\ Forwarder.seq \in Nat
        /\ Around(Commander.max) /\ Commander.max \in Nat
        /\ Around(transport.lastSeq) /\ transport.lastSeq \in Nat
    BY Facts DEF Around
  <2>3. ~Sent(n) /\ ~(n <= transport.lastSeq)
    BY <1>2, <2>1, <2>2 DEF Sent
  <2>4. ~Asked(n)
    <3> SUFFICES ASSUME NEW m, Carries(up, "subscribe", m), n <= m
                 PROVE  FALSE
      BY AskedIs
    <3>1. m \in Nat /\ Around(m)
      BY CarriedNat DEF Around
    <3> QED BY <1>2, <2>1, <3>1
  <2> QED BY <2>3, <2>4 DEF Within
<1>7. LoadsInv'
  BY <1>1, LoadsStay DEF DeliveryInv, LoadsInv
<1>8. ClientInv'
  BY DEF DeliveryInv, ClientInv, Quiet, Untouched
<1>9. NumbersInv'
  BY <1>2, <1>3 DEF DeliveryInv, NumbersInv
<1>10. \A t \in Tasks : Replaying(t)' <=> Replaying(t)
  BY DEF Replaying
<1>11. ModeInv'
  BY <1>1, <1>10 DEF DeliveryInv, ModeInv, Tasks
<1>12. OrderInv'
  <2>1. OrderInv
    BY DEF DeliveryInv
  <2>2. ASSUME NEW t \in Tasks, ReplayInv(t), task[t].pc = "replay" => \A n \in Nat : In(task[t].todo, n) => Around(n)
        PROVE  ReplayInv(t)'
    <3> SUFFICES ASSUME task[t].pc = "replay", session.on
                 PROVE  \A n \in Nat, m \in KeptSeqs' :
                            In(task[t].todo, n) /\ session.cp < m /\ m <= n => In(task[t].todo, m)
      BY <2>2 DEF ReplayInv
    <3> TAKE n \in Nat, m \in KeptSeqs'
    <3>1. CASE m \in KeptSeqs
      BY <2>2, <3>1 DEF ReplayInv
    <3>2. CASE m \in new
      BY <1>2, <2>2, <3>2
    <3> QED BY <3>1, <3>2
  <2>3. ReplayInv("forward")'
    <3>1. \A n \in Nat : In(Forwarder.todo, n) => Around(n)
      BY DEF Around
    <3> QED BY <2>1, <2>2, <3>1 DEF OrderInv, Forwarder, Tasks
  <2>4. ReplayInv("command")'
    <3>1. Commander.pc = "replay" => \A n \in Nat : In(Commander.todo, n) => Around(n)
      BY DEF Around
    <3> QED BY <2>1, <2>2, <3>1 DEF OrderInv, Commander, Tasks
  <2>5. \A n, m \in Nat : In(channel, n) /\ Written(m)' => n < m
    BY <1>2, <2>1 DEF OrderInv, Around
  <2>6. Forwarder.pc \in {"send", "mark"} => \A n \in Nat : Queued(n)' => Forwarder.seq < n
    <3>1. Around(Forwarder.seq) /\ Forwarder.seq \in Nat
      BY Facts DEF Around
    <3> QED BY <1>2, <1>4, <2>1, <3>1 DEF OrderInv
  <2>7. \A n, m \in Nat : In(session.buffer, n) /\ Queued(m)' => n < m
    BY <1>2, <1>4, <2>1 DEF OrderInv, Around
  <2>8. Commander.pc = "flush" =>
            \A n \in Nat : In(Commander.todo, n) =>
                \A m \in Nat : In(session.buffer, m) \/ Queued(m)' => n < m
    BY <1>2, <1>4, <2>1 DEF OrderInv, Around
  <2> QED BY <1>1, <2>1, <2>3, <2>4, <2>5, <2>6, <2>7, <2>8 DEF OrderInv
<1>13. \A got : Complete(got) => Complete(got)'
  <2> SUFFICES ASSUME NEW got, Complete(got)
               PROVE  Complete(got)'
    OBVIOUS
  <2>1. \A n \in KeptSeqs' : Within(n)' \/ n <= transport'.lastSeq => n \in got
    <3> TAKE n \in KeptSeqs'
    <3>1. CASE n \in KeptSeqs
      BY <1>5, <3>1 DEF Complete
    <3>2. CASE n \in new
      BY <1>5, <1>6, <3>2
    <3> QED BY <3>1, <3>2
  <2>2. session'.on /\ ~Reading' => \A n \in KeptSeqs' : n \in got \/ Coming(n)'
    <3>1. Reading' <=> Reading
      BY <1>1 DEF Reading
    <3> QED BY <3>1 DEF Complete
  <2> QED BY <2>1, <2>2 DEF Complete
<1>14. ViewInv'
  <2>1. ReloadPending' <=> ReloadPending
    BY <1>1, PendingIs
  <2>2. View' = View
    BY DEF View
  <2>3. store.phase = "open" /\ ~ReloadPending => ViewInOrder' /\ Complete(View)'
    <3> SUFFICES ASSUME store.phase = "open", ~ReloadPending
                 PROVE  ViewInOrder' /\ Complete(View)'
      OBVIOUS
    <3>1. ViewInOrder /\ Complete(View)
      BY DEF DeliveryInv, ViewInv
    <3>2. PICK v : v = View
      OBVIOUS
    <3>3. Complete(v)'
      BY <1>13, <3>1, <3>2
    <3>4. ViewInOrder'
      BY <1>5, <3>1 DEF ViewInOrder
    <3> QED BY <2>2, <3>2, <3>3, <3>4
  <2>4. store.phase = "loading" => LoadInOrder'
    <3> SUFFICES ASSUME store.phase = "loading"
                 PROVE  LoadInOrder'
      OBVIOUS
    <3>1. LoadInOrder
      BY DEF DeliveryInv, ViewInv
    <3>2. Answers' = Answers
      BY <1>1 DEF Answers
    <3>3. \A list \in Answers : Beginning(list)' /\ Complete(Elems(list))'
      <4> TAKE list \in Answers
      <4>1. Beginning(list) /\ Complete(Elems(list))
        BY <3>1 DEF LoadInOrder
      <4>2. PICK got : got = Elems(list)
        OBVIOUS
      <4>3. Complete(got)' /\ Elems(list)' = got
        BY <1>13, <4>1, <4>2 DEF Elems
      <4>4. Beginning(list)'
        <5>1. \A n \in Nat, m \in KeptSeqs' : In(list, n) /\ m <= n => In(list, m)
          <6> TAKE n \in Nat, m \in KeptSeqs'
          <6>1. CASE m \in KeptSeqs
            BY <4>1, <6>1 DEF Beginning
          <6>2. CASE m \in new
            <7>1. In(list, n) => Known(n)
              BY <4>1, KeptIsKnown DEF Beginning
            <7> QED BY <6>2, <7>1
          <6> QED BY <6>1, <6>2
        <5> QED BY <4>1, <5>1 DEF Beginning
      <4> QED BY <4>2, <4>3, <4>4
    <3> QED BY <1>1, <1>10, <3>1, <3>2, <3>3 DEF LoadInOrder, Tasks
  <2> QED BY <2>1, <2>3, <2>4 DEF ViewInv
<1> QED BY <1>7, <1>8, <1>9, <1>11, <1>12, <1>14 DEF DeliveryInv

\* Persist keeps it: a new line is ahead of all numbers, and its broadcast will follow.
LEMMA PersistKeeps ==
    ASSUME TypeInv, DeliveryInv, Persist, Clean'
    PROVE  DeliveryInv'
<1>1. UNCHANGED <<channel, lagged, session, task, up, down, transport, batch, store, bounds>>
  BY PersistIs
<1>2. /\ emitter \in [Emitters -> [pc : {"idle", "holding", "written"}, seq : Nat]]
      /\ counter \in Nat
  BY DEF TypeInv, IInv, LogTypeOK
<1>3. EmittersStay =>
          /\ \A n : Written(n)' <=> Written(n)
          /\ \A e, f \in Emitters : /\ emitter'[e].pc = "written" /\ emitter'[f].pc = "written"
                                    /\ emitter'[e].seq = emitter'[f].seq
                                    => e = f
  <2> SUFFICES ASSUME EmittersStay
               PROVE  /\ \A n : Written(n)' <=> Written(n)
                      /\ \A e, f \in Emitters :
                             /\ emitter'[e].pc = "written" /\ emitter'[f].pc = "written"
                             /\ emitter'[e].seq = emitter'[f].seq
                             => e = f
    OBVIOUS
  <2>1. \A n : Written(n)' <=> Written(n)
    BY DEF Written, EmittersStay
  <2>2. \A e, f \in Emitters : /\ emitter[e].pc = "written" /\ emitter[f].pc = "written"
                               /\ emitter[e].seq = emitter[f].seq
                               => e = f
    BY DEF DeliveryInv, OrderInv
  <2> QED BY <2>1, <2>2 DEF EmittersStay
<1>4. /\ \A n : Later(n)' <=> Later(n)
      /\ \A t \in Tasks : Replaying(t)' <=> Replaying(t)
      /\ Forwarder' = Forwarder /\ Commander' = Commander
  <2>1. Forwarder' = Forwarder /\ Commander' = Commander
    BY <1>1, TaskSet
  <2> QED BY <1>1, <2>1 DEF Later, Replaying
<1>5. /\ \A n \in Nat : Written(n) => Written(n)'
      /\ ~torn \/ UNCHANGED <<file, torn>>
      => \A n \in KeptSeqs : Coming(n) => Coming(n)'
  <2> SUFFICES ASSUME \A n \in Nat : Written(n) => Written(n)',
                      ~torn \/ UNCHANGED <<file, torn>>,
                      NEW n \in KeptSeqs, Coming(n)
               PROVE  Coming(n)'
    OBVIOUS
  <2>1. Queued(n) => Queued(n)'
    BY <1>1, Facts DEF Queued
  <2> QED BY <1>1, <1>4, <2>1 DEF Coming, Tasks
<1>6. CASE UNCHANGED <<file, torn>> /\ EmittersStay
  <2>1. KeptSeqs' = KeptSeqs /\ \A n : Known(n)' <=> Known(n)
    BY <1>6 DEF KeptSeqs, KeptLines, Known
  <2>2. {} \in SUBSET {0} /\ 0 \in Nat
    OBVIOUS
  <2>3. \A n \in KeptSeqs : Coming(n) => Coming(n)'
    BY <1>3, <1>5, <1>6
  <2> QED BY <1>1, <1>3, <1>6, <2>1, <2>2, <2>3, LogStepKeeps
<1>7. ASSUME NEW x, GrowsBy(x), torn', EmittersStay
      PROVE  DeliveryInv'
  <2>1. PICK new : new = IF x.kind = "garbage" THEN {} ELSE {counter}
    OBVIOUS
  <2>2. /\ \A n \in Nat : Known(n) => n < counter /\ Known(n)'
        /\ \A n : n \in KeptSeqs' <=> n \in KeptSeqs \/ (x.kind = "kept" /\ n = counter)
        /\ \A n : x.kind # "garbage" /\ n = counter => Known(n)'
        /\ x.kind = "kept" => file'[Len(file')].kind = "kept" /\ file'[Len(file')].seq = counter
    BY <1>7, Grown
  <2>3. new \in SUBSET {counter} /\ counter # 0
    BY <1>7, <2>1 DEF GrowsBy
  <2>4. \A n \in new : Known(n)' /\ n # 0
    BY <2>1, <2>2, <2>3
  <2>5. \A n \in KeptSeqs' : n \in KeptSeqs \/ n \in new
    BY <2>1, <2>2
  <2>6. \A n \in KeptSeqs' : n \notin KeptSeqs => Coming(n)'
    BY <1>7, <2>2 DEF Coming
  <2>7. \A n \in KeptSeqs : Coming(n) => Coming(n)'
    BY <1>3, <1>5, <1>7 DEF GrowsBy
  <2>8. \A n \in KeptSeqs : n \in KeptSeqs'
    BY <2>2
  <2> QED BY <1>1, <1>2, <1>3, <1>7, <2>2, <2>3, <2>4, <2>5, <2>6, <2>7, <2>8, LogStepKeeps
<1>8. ASSUME NEW x, GrowsBy(x), x.kind # "garbage", NEW e \in Emitters,
             emitter' = [emitter EXCEPT ![e] = [pc |-> "written", seq |-> counter]],
             emitter[e].pc # "written"
      PROVE  DeliveryInv'
  <2>1. PICK new : new = {counter}
    OBVIOUS
  <2>2. /\ \A n \in Nat : Known(n) => n < counter /\ Known(n)'
        /\ \A n : n \in KeptSeqs' <=> n \in KeptSeqs \/ (x.kind = "kept" /\ n = counter)
        /\ \A n : x.kind # "garbage" /\ n = counter => Known(n)'
    BY <1>8, Grown
  <2>3. new \in SUBSET {counter} /\ counter # 0
    BY <1>8, <2>1 DEF GrowsBy
  <2>4. /\ emitter'[e].pc = "written" /\ emitter'[e].seq = counter
        /\ \A f \in Emitters : f # e => emitter'[f] = emitter[f]
    BY <1>2, <1>8
  <2>5. \A n : Written(n)' <=> Written(n) \/ n = counter
    BY <1>8, <2>4 DEF Written
  <2>6. \A n \in KeptSeqs' : n \notin KeptSeqs => Coming(n)'
    BY <2>2, <2>5 DEF Coming, Queued
  <2>7. \A n \in KeptSeqs : Coming(n) => Coming(n)'
    BY <1>5, <1>8, <2>5 DEF GrowsBy
  <2>8. \A n \in new : Known(n)' /\ n # 0
    BY <1>8, <2>1, <2>2, <2>3
  <2>9. \A f \in Emitters : f # e /\ emitter[f].pc = "written" => emitter[f].seq # counter
    <3> SUFFICES ASSUME NEW f \in Emitters, emitter[f].pc = "written", emitter[f].seq = counter
                 PROVE  FALSE
      OBVIOUS
    <3>1. Around(counter)
      BY DEF Around, Written
    <3>2. counter < counter
      BY <1>2, <2>2, <3>1 DEF DeliveryInv, NumbersInv
    <3> QED BY <1>2, <3>2
  <2>10. \A f, g \in Emitters : /\ emitter'[f].pc = "written" /\ emitter'[g].pc = "written"
                                /\ emitter'[f].seq = emitter'[g].seq
                                => f = g
    BY <2>4, <2>9 DEF DeliveryInv, OrderInv
  <2>11. \A n \in KeptSeqs : n \in KeptSeqs'
    BY <2>2
  <2>12. \A n \in KeptSeqs' : n \in KeptSeqs \/ n \in new
    BY <2>1, <2>2
  <2>13. \A n \in Nat : (Written(n) => Written(n)') /\ (Written(n)' => Written(n) \/ n \in new)
    BY <2>1, <2>5
  <2> QED BY <1>1, <1>2, <2>2, <2>3, <2>6, <2>7, <2>8, <2>10, <2>11, <2>12, <2>13, LogStepKeeps
<1> QED BY <1>6, <1>7, <1>8, PersistIs

\* Broadcast keeps it: the channel stays in order, and what it drops it tells of.
LEMMA BroadcastKeeps ==
    ASSUME TypeInv, DeliveryInv, Clean', NEW e \in Emitters, Broadcast(e)
    PROVE  DeliveryInv'
<1>0. PICK h : h = emitter[e].seq
  OBVIOUS
<1>1. /\ UNCHANGED <<file, torn, session, task, up, down, transport, batch, store, bounds>>
      /\ emitter[e].pc = "written" /\ emitter' = [emitter EXCEPT ![e] = Idle]
      /\ \/ ~transport.open /\ UNCHANGED <<channel, lagged>>
         \/ channel' = Append(channel, h) /\ UNCHANGED lagged /\ transport.open
         \/ /\ ~(Len(channel) < ChannelCap) /\ transport.open
            /\ channel' = Append(Tail(channel), h) /\ lagged'
  BY <1>0 DEF Broadcast, Finish, clientVars
<1>2. /\ emitter \in [Emitters -> [pc : {"idle", "holding", "written"}, seq : Nat]]
      /\ channel \in Seq(Nat) /\ h \in Nat
      /\ Forwarder' = Forwarder /\ Commander' = Commander
  BY <1>0, <1>1, Facts, TaskSet DEF TypeInv, IInv, LogTypeOK
<1>3. /\ emitter'[e].pc = "idle"
      /\ \A f \in Emitters : f # e => emitter'[f] = emitter[f]
  BY <1>1, <1>2 DEF Idle
<1>4. \A f \in Emitters : f # e /\ emitter[f].pc = "written" => h < emitter[f].seq
  <2> TAKE f \in Emitters
  <2> HAVE f # e /\ emitter[f].pc = "written"
  <2>1. "disorder" \notin lapses'
    BY DEF Clean
  <2>2. ~(emitter[f].seq < h)
    BY <1>0, <2>1 DEF Broadcast
  <2>3. emitter[f].seq # h
    BY <1>0, <1>1 DEF DeliveryInv, OrderInv
  <2>4. emitter[f].seq \in Nat
    BY Facts
  <2> QED BY <1>2, <2>2, <2>3, <2>4
<1>5. /\ Written(h)
      /\ \A n : Written(n) => Written(n)' \/ n = h
      /\ \A n : Written(n)' => Written(n) /\ h < n
  BY <1>0, <1>1, <1>3, <1>4 DEF Written
<1>6. /\ Increasing(channel) /\ \A n : In(channel, n) => n \in Nat /\ n < h
  BY <1>2, <1>5, InNat DEF DeliveryInv, OrderInv
<1>7. /\ \A n : Queued(n)' => Queued(n)
      /\ Increasing(channel')
      /\ \A n : In(channel', n) => In(channel, n) \/ n = h
      /\ session.on => \A n : Queued(n) => Queued(n)' \/ (lagged' /\ Later(n))
  <2>1. CASE ~transport.open /\ UNCHANGED <<channel, lagged>>
    <3>1. ~session.on
      BY <2>1, Connected DEF DeliveryInv
    <3> QED BY <1>5, <1>6, <2>1, <3>1 DEF Queued
  <2>2. CASE channel' = Append(channel, h) /\ UNCHANGED lagged
    <3>1. \A n : In(channel', n) <=> In(channel, n) \/ n = h
      BY <1>2, <2>2, Appended
    <3>2. Increasing(channel')
      BY <1>2, <1>6, <2>2, IncreasingAppended
    <3> QED BY <1>5, <3>1, <3>2 DEF Queued
  <2>3. CASE ~(Len(channel) < ChannelCap) /\ channel' = Append(Tail(channel), h) /\ lagged'
    <3>1. channel # <<>>
      BY <1>2, <2>3, DeliveryAssumption
    <3>2. PICK d, rest : d = Head(channel) /\ rest = Tail(channel)
      OBVIOUS
    <3>3. /\ rest \in Seq(Nat) /\ Increasing(rest) /\ d \in Nat
          /\ \A n : In(channel, n) <=> In(rest, n) \/ n = d
      BY <1>2, <1>6, <3>1, <3>2, TakenIn, IncreasingTaken
    <3>4. \A n : In(channel', n) <=> In(rest, n) \/ n = h
      BY <1>2, <2>3, <3>2, <3>3, Appended
    <3>5. Increasing(channel')
      BY <1>2, <1>6, <2>3, <3>2, <3>3, IncreasingAppended
    <3>6. Later(d)
      <4>1. Queued(d)
        BY <3>3 DEF Queued
      <4> QED BY <3>3, <4>1 DEF DeliveryInv, OrderInv, Later
    <3>7. \A n : Queued(n) => Queued(n)' \/ n = d
      BY <1>5, <3>3, <3>4 DEF Queued
    <3>8. \A n : Queued(n)' => Queued(n)
      BY <1>5, <3>3, <3>4 DEF Queued
    <3>9. \A n : In(channel', n) => In(channel, n) \/ n = h
      BY <3>3, <3>4
    <3> QED BY <2>3, <3>5, <3>6, <3>7, <3>8, <3>9
  <2> QED BY <1>1, <2>1, <2>2, <2>3
<1>8. \A n \in Nat : Around(n)' => Around(n)
  <2>1. \A n : In(channel', n) \/ Written(n)' => In(channel, n) \/ Written(n)
    BY <1>5, <1>7
  <2> QED BY <1>1, <1>2, <2>1 DEF Around
<1>9. \A n : Within(n)' <=> Within(n)
  BY <1>1, <1>2 DEF Within, Sent, Asked
<1>10. /\ \A n : Later(n)' <=> Later(n)
       /\ \A t \in Tasks : Replaying(t)' <=> Replaying(t)
       /\ lagged => lagged'
  BY <1>1, <1>2 DEF Later, Replaying
<1>11. session.on => \A n : Coming(n) => Coming(n)'
  BY <1>1, <1>2, <1>7, <1>10 DEF Coming, Tasks
<1>12. \A got : Complete(got) => Complete(got)'
  <2>1. Reading' <=> Reading
    BY <1>2 DEF Reading
  <2> QED BY <1>1, <1>9, <1>11, <2>1, CompleteStaysAsIs
<1>13. ReloadPending' <=> ReloadPending
  BY <1>1, <1>2, PendingIs
<1>14. ModeInv'
  BY <1>1, <1>2, <1>10 DEF DeliveryInv, ModeInv, Tasks
<1>15. OrderInv'
  <2>1. OrderInv
    BY DEF DeliveryInv
  <2>2. KeptSeqs' = KeptSeqs
    BY <1>1 DEF KeptSeqs, KeptLines
  <2>3. ReplayInv("forward")' /\ ReplayInv("command")'
    BY <1>1, <2>1, <2>2 DEF OrderInv, ReplayInv
  <2>4. \A n, m \in Nat : In(channel', n) /\ Written(m)' => n < m
    BY <1>5, <1>7, <2>1 DEF OrderInv
  <2>5. \A f, g \in Emitters : /\ emitter'[f].pc = "written" /\ emitter'[g].pc = "written"
                               /\ emitter'[f].seq = emitter'[g].seq
                               => f = g
    BY <1>3, <2>1 DEF OrderInv
  <2> QED BY <1>1, <1>2, <1>7, <2>1, <2>3, <2>4, <2>5 DEF OrderInv
<1> QED BY <1>1, <1>2, <1>8, <1>9, <1>10, <1>12, <1>13, <1>14, <1>15, ServerStays DEF Tasks

-----------------------------------------------------------------------------
(* Steps of the browser *)

\* What depends on the log and the server only.
LEMMA ServerSideStays ==
    ASSUME TypeInv, ModeInv, OrderInv,
           UNCHANGED <<file, torn, emitter, channel, lagged, session, task>>
    PROVE  /\ ModeInv' /\ OrderInv'
           /\ Forwarder' = Forwarder /\ Commander' = Commander
           /\ KeptSeqs' = KeptSeqs
           /\ \A n : Coming(n)' <=> Coming(n)
           /\ \A n : Sent(n)' <=> Sent(n)
           /\ Reading' <=> Reading
           /\ \A n : Written(n)' <=> Written(n)
           /\ \A t \in Tasks : Replaying(t)' <=> Replaying(t)
<1>1. Forwarder' = Forwarder /\ Commander' = Commander
  BY TaskSet
<1>2. KeptSeqs' = KeptSeqs
  BY DEF KeptSeqs, KeptLines
<1>3. \A n : Written(n)' <=> Written(n)
  BY DEF Written
<1>4. \A n : Queued(n)' <=> Queued(n)
  BY <1>3 DEF Queued
<1>5. \A t \in Tasks : Replaying(t)' <=> Replaying(t)
  BY DEF Replaying
<1>6. \A n : Later(n)' <=> Later(n)
  BY <1>1 DEF Later
<1>7. \A n : Coming(n)' <=> Coming(n)
  BY <1>1, <1>4, <1>5, <1>6 DEF Coming, Tasks
<1>8. ModeInv'
  BY <1>1, <1>5 DEF ModeInv, Tasks
<1>9. OrderInv'
  <2>1. ReplayInv("forward")' /\ ReplayInv("command")'
    BY <1>2 DEF OrderInv, ReplayInv
  <2> QED BY <1>1, <1>3, <1>4, <2>1 DEF OrderInv
<1>10. /\ \A n : Sent(n)' <=> Sent(n)
       /\ Reading' <=> Reading
  BY <1>1 DEF Sent, Reading
<1> QED BY <1>1, <1>2, <1>3, <1>5, <1>7, <1>8, <1>9, <1>10

\* A request is sent.
LEMMA RequestSent ==
    ASSUME TypeInv, NEW r \in Requests, up' = Append(up, r)
    PROVE  /\ \A k, n : Carries(up', k, n) <=> Carries(up, k, n) \/ (r.kind = k /\ r.seq = n)
           /\ LoadsInv /\ r.kind # "load" => Ascending(up', "load")
           /\ r.kind = "load" /\ Ascending(up, "load") /\ (\A n : Carries(up, "load", n) => n < r.seq)
                  => Ascending(up', "load")
           /\ up' # <<>> /\ up'[Len(up')] = r
           /\ \A i \in DOMAIN up' : up'[i] = r \/ (i \in DOMAIN up /\ up'[i] = up[i])
<1>1. up \in Seq(Requests)
  BY Facts
<1>2. \A k, n : Carries(up', k, n) <=> Carries(up, k, n) \/ (r.kind = k /\ r.seq = n)
  BY <1>1, CarriedAppended
<1>3. \A k : /\ Ascending(up, k)
             /\ r.kind = k => \A n : Carries(up, k, n) => n < r.seq
             => Ascending(up', k)
  BY <1>1, CarriedAppended
<1>4. /\ up' # <<>> /\ up'[Len(up')] = r
      /\ \A i \in DOMAIN up' : up'[i] = r \/ (i \in DOMAIN up /\ up'[i] = up[i])
  BY <1>1
<1>5. LoadsInv /\ r.kind # "load" => Ascending(up', "load")
  BY <1>3 DEF LoadsInv
<1>6. r.kind = "load" /\ Ascending(up, "load") /\ (\A n : Carries(up, "load", n) => n < r.seq)
          => Ascending(up', "load")
  BY <1>3
<1> QED BY <1>2, <1>4, <1>5, <1>6

\* loadRun asks for the events under a number of its own: nothing on the way answers it.
LEMMA LoadStarts ==
    ASSUME TypeInv, LoadsInv, UNCHANGED task, transport.open,
           NEW again \in BOOLEAN, LoadRun(again), batch' = <<>>,
           down' = down \/ (again /\ down # <<>> /\ down' = Tail(down))
    PROVE  /\ LoadsInv' /\ LoadInOrder'
           /\ store'.phase = "loading"
           /\ up' # <<>> /\ up'[Len(up')].kind = "load" /\ up'[Len(up')].seq = store'.gen
           /\ \A n : Carries(up', "subscribe", n) <=> Carries(up, "subscribe", n)
<1>0. PICK g, r : g = store.gen + 1 /\ r = [kind |-> "load", seq |-> g]
  OBVIOUS
<1>1. /\ store'.phase = "loading" /\ store'.processed = 0 /\ store'.shown = <<>>
      /\ store'.gen = g
      /\ store'.reloading = IF again THEN g ELSE store.reloading
      /\ up' = Append(up, r)
  BY <1>0 DEF LoadRun, SendRequest
<1>2. /\ g \in Nat /\ store.gen \in Nat /\ r \in Requests /\ r.kind = "load" /\ r.seq = g
      /\ g = store.gen + 1
  <2>1. store.gen \in Nat
    BY Facts
  <2>2. g \in Nat
    BY <1>0, <2>1
  <2> QED BY <1>0, <2>1, <2>2 DEF Requests
<1>3. \A n : Carries(up, "load", n) => n \in 1..store.gen
  BY CarriedNat DEF LoadsInv
<1>4. /\ \A k, n : Carries(up', k, n) <=> Carries(up, k, n) \/ (k = "load" /\ n = g)
      /\ Ascending(up', "load")
      /\ up' # <<>> /\ up'[Len(up')] = r
  BY <1>1, <1>2, <1>3, RequestSent DEF LoadsInv
<1>5. /\ \A k, n : Carries(down', k, n) => Carries(down, k, n)
      /\ Ascending(down', "loaded")
      /\ ~again => down' = down
  <2>1. CASE down' = down
    BY <2>1 DEF LoadsInv
  <2>2. CASE again /\ down # <<>> /\ down' = Tail(down)
    <3>1. down \in Seq(Frames)
      BY Facts
    <3> QED BY <2>2, <3>1, CarriedTaken DEF LoadsInv
  <2> QED BY <2>1, <2>2
<1>6. Commander' = Commander /\ Forwarder' = Forwarder
  BY TaskSet
<1>7. \A n : Carries(down', "loaded", n) => n \in 1..store.gen
  BY <1>5, CarriedNat DEF LoadsInv
<1>8. LoadsInv'
  <2>1. \A n \in Nat : Carries(up', "load", n) => n \in 1..g
    BY <1>2, <1>3, <1>4
  <2>2. Commander.pc = "respond" =>
            /\ Commander.seq \in 1..g
            /\ \A n \in Nat : Carries(up', "load", n) => Commander.seq < n
    BY <1>2, <1>4 DEF LoadsInv
  <2>3. \A n \in Nat : Carries(down', "loaded", n) =>
            /\ n \in 1..g
            /\ Commander.pc = "respond" => n < Commander.seq
            /\ \A m \in Nat : Carries(up', "load", m) => n < m
    BY <1>2, <1>4, <1>5, <1>7 DEF LoadsInv
  <2>4. store'.reloading # 0 =>
            \/ Carries(up', "load", store'.reloading)
            \/ Commander.pc = "respond" /\ Commander.seq = store'.reloading
            \/ Carries(down', "loaded", store'.reloading)
    <3>1. CASE again
      BY <1>1, <1>4, <3>1
    <3>2. CASE ~again
      BY <1>1, <1>4, <1>5, <3>2 DEF LoadsInv
    <3> QED BY <3>1, <3>2
  <2> QED BY <1>1, <1>4, <1>5, <1>6, <2>1, <2>2, <2>3, <2>4 DEF LoadsInv
<1>9. ~Carries(down', "loaded", g)
  BY <1>2, <1>7
<1>10. Answers' = {}
  <2>1. Lists(down', g) = {}
    BY <1>9 DEF Lists, Carries
  <2>2. ~(Commander.pc = "respond" /\ Commander.seq = g)
    BY <1>2 DEF LoadsInv
  <2> QED BY <1>1, <1>6, <2>1, <2>2 DEF Answers
<1>11. LoadInOrder'
  <2>1. NoneFollows(down', "loaded", g, "event")
    BY <1>9 DEF NoneFollows, Carries
  <2> QED BY <1>1, <1>10, <2>1 DEF LoadInOrder
<1> QED BY <1>1, <1>2, <1>4, <1>8, <1>11

\* OpenRun keeps it: the view starts to load.
LEMMA OpenRunKeeps ==
    ASSUME TypeInv, DeliveryInv, OpenRun
    PROVE  DeliveryInv'
<1>1. /\ UNCHANGED <<file, torn, emitter, channel, lagged, session, task, down, transport, batch>>
      /\ store.phase = "closed" /\ transport.open /\ LoadRun(FALSE)
      /\ bounds' = [bounds EXCEPT !.opens = @ + 1]
  BY DEF OpenRun, logVars, serverVars
<1>2. bounds'.opens # 0
  <2>1. bounds \in [opens : Nat, drops : Nat, repeats : Nat]
    BY DEF TypeInv, DeliveryTypes
  <2> QED BY <1>1, <2>1
<1>3. batch = <<>> /\ ~transport.subscribed
  BY <1>1 DEF DeliveryInv, ClientInv
<1>4. /\ LoadsInv' /\ LoadInOrder'
      /\ store'.phase = "loading"
      /\ up'[Len(up')].kind = "load" /\ up'[Len(up')].seq = store'.gen
      /\ \A n : Carries(up', "subscribe", n) <=> Carries(up, "subscribe", n)
  BY <1>1, <1>3, LoadStarts DEF DeliveryInv
<1>5. ClientInv'
  BY <1>1, <1>2, <1>3, <1>4 DEF ClientInv
<1>6. /\ ModeInv' /\ OrderInv'
      /\ Forwarder' = Forwarder /\ Commander' = Commander
      /\ \A n : Written(n)' <=> Written(n)
  BY <1>1, ServerSideStays DEF DeliveryInv
<1>7. NumbersInv'
  <2>1. \A n \in Nat : Around(n)' => Around(n)
    BY <1>1, <1>4, <1>6 DEF Around
  <2> QED BY <1>1, <2>1, NumbersStay DEF DeliveryInv
<1>8. ViewInv'
  BY <1>4 DEF ViewInv
<1> QED BY <1>4, <1>5, <1>6, <1>7, <1>8 DEF DeliveryInv

\* A new run has nothing to show, and nothing is on its way.
LEMMA OpenNewRunKeeps ==
    ASSUME TypeInv, DeliveryInv, OpenNewRun
    PROVE  DeliveryInv'
<1>0. PICK l, r : l = transport.lastSeq /\ r = [kind |-> "subscribe", seq |-> l]
  OBVIOUS
<1>1. /\ UNCHANGED <<file, torn, emitter, channel, lagged, session, task, down, batch>>
      /\ store.phase = "closed" /\ file = <<>> /\ bounds.opens = 0
      /\ bounds' = [bounds EXCEPT !.opens = @ + 1]
      /\ store' = [store EXCEPT !.phase = "open", !.processed = 0, !.shown = <<>>]
      /\ SubscribeRun(0)
  BY DEF OpenNewRun, logVars, serverVars
<1>2. bounds'.opens # 0
  <2>1. bounds \in [opens : Nat, drops : Nat, repeats : Nat]
    BY DEF TypeInv, DeliveryTypes
  <2> QED BY <1>1, <2>1
<1>3. /\ up = <<>> /\ down = <<>> /\ session = NoSession /\ task = [t \in Tasks |-> Resting]
      /\ batch = <<>>
  BY <1>1 DEF DeliveryInv, ClientInv, Untouched
<1>4. l = 0
  <2>1. Around(l) /\ l \in Nat
    BY <1>0, Facts DEF Around
  <2>2. Parse(file) = {}
    BY <1>1 DEF Parse
  <2> QED BY <2>1, <2>2 DEF DeliveryInv, NumbersInv, Known
<1>5. /\ transport'.subscribed /\ transport'.lastSeq = 0 /\ transport'.open = transport.open
      /\ up' = IF transport.open THEN Append(up, r) ELSE up
  <2>1. Maximum(l, 0) = 0
    BY <1>4 DEF Maximum
  <2>2. transport \in [open : BOOLEAN, subscribed : BOOLEAN, lastSeq : Nat]
    BY Facts
  <2> QED BY <1>0, <1>1, <1>4, <2>1, <2>2 DEF SubscribeRun, SendRequest
<1>6. /\ store'.phase = "open" /\ store'.processed = 0 /\ store'.shown = <<>>
      /\ store'.gen = store.gen /\ store'.reloading = store.reloading
  BY <1>1, Facts
<1>7. /\ ModeInv' /\ OrderInv'
      /\ Forwarder' = Forwarder /\ Commander' = Commander
      /\ \A n : Written(n)' <=> Written(n)
      /\ KeptSeqs' = KeptSeqs
  BY <1>1, ServerSideStays DEF DeliveryInv
<1>8. /\ \A n : ~Carries(up', "load", n)
      /\ \A n : Carries(up', "subscribe", n) => n = 0
      /\ transport.open => Carries(up', "subscribe", 0)
      /\ Ascending(up', "load")
      /\ \A i \in DOMAIN up' : up'[i].kind = "subscribe"
  <2>1. CASE transport.open
    <3>1. up' = Append(up, r) /\ r \in Requests /\ r.kind = "subscribe" /\ r.seq = 0
      <4>1. r.kind = "subscribe" /\ r.seq = 0
        BY <1>0, <1>4
      <4>2. r \in Requests
        BY <1>0, <1>4 DEF Requests
      <4> QED BY <1>5, <2>1, <4>1, <4>2
    <3>2. /\ \A k, n : Carries(up', k, n) <=> Carries(up, k, n) \/ (r.kind = k /\ r.seq = n)
          /\ Ascending(up', "load")
          /\ \A i \in DOMAIN up' : up'[i] = r \/ i \in DOMAIN up
      BY <3>1, RequestSent DEF DeliveryInv
    <3>3. DOMAIN up = {}
      BY <1>3
    <3> QED BY <1>3, <3>1, <3>2, <3>3, NothingCarried
  <2>2. CASE ~transport.open
    <3>1. up' = <<>> /\ DOMAIN up' = {}
      BY <1>3, <1>5, <2>2
    <3> QED BY <2>2, <3>1, NothingCarried
  <2> QED BY <2>1, <2>2
<1>9. /\ \A k, n : ~Carries(down, k, n) /\ ~Carries(up, k, n)
      /\ Commander.pc = "rest" /\ Forwarder.pc = "rest" /\ ~session.on
  <2>1. Commander = Resting /\ Forwarder = Resting
    BY <1>3 DEF Commander, Forwarder, Tasks
  <2> QED BY <1>3, <2>1, NothingCarried DEF Resting, NoSession
<1>10. LoadsInv'
  <2>1. store.reloading = 0
    BY <1>9 DEF DeliveryInv, LoadsInv
  <2> QED BY <1>1, <1>3, <1>6, <1>7, <1>8, <1>9, <2>1, NothingCarried DEF LoadsInv
<1>11. ClientInv'
  <2>1. ~transport.open => Quiet'
    BY <1>1, <1>3, <1>5 DEF DeliveryInv, ClientInv, Quiet
  <2> QED BY <1>2, <1>5, <1>6, <1>8, <2>1 DEF ClientInv
<1>12. NumbersInv'
  <2>1. \A n \in Nat : Around(n)' => Around(n) \/ n = 0
    BY <1>1, <1>5, <1>7, <1>8 DEF Around
  <2> QED BY <1>1, <2>1, NumbersStay DEF DeliveryInv
<1>13. KeptSeqs' = {}
  BY <1>1, <1>7 DEF KeptSeqs, KeptLines
<1>14. ViewInv'
  <2>1. transport.open => Within(0)'
    <3>1. transport.open => Carries(up', "subscribe", 0) /\ 0 <= 0
      BY <1>8
    <3> QED BY <3>1, AskedIs DEF Within
  <2>2. /\ \A n : ~In(<<>>, n)
        /\ Increasing(<<>>)
        /\ \A k : Ascending(<<>>, k)
    BY NothingCarried DEF In
  <2>3. ViewInOrder'
    BY <1>1, <1>3, <1>5, <1>6, <1>9, <2>1, <2>2 DEF ViewInOrder
  <2>4. Complete(View)'
    BY <1>13 DEF Complete
  <2> QED BY <1>6, <2>3, <2>4 DEF ViewInv
<1> QED BY <1>7, <1>10, <1>11, <1>12, <1>14 DEF DeliveryInv

\* A view subscribed again asks for nothing it is not sent anyway.
LEMMA RepeatKeeps ==
    ASSUME TypeInv, DeliveryInv, Repeat
    PROVE  DeliveryInv'
<1>0. PICK l, r : l = transport.lastSeq /\ r = [kind |-> "subscribe", seq |-> l]
  OBVIOUS
<1>1. /\ UNCHANGED <<file, torn, emitter, channel, lagged, session, task, down, batch, store>>
      /\ store.phase = "open" /\ transport.open
      /\ bounds' = [bounds EXCEPT !.repeats = @ + 1]
      /\ SubscribeRun(0)
  BY DEF Repeat, logVars, serverVars
<1>2. bounds'.opens # 0
  <2>1. bounds \in [opens : Nat, drops : Nat, repeats : Nat]
    BY DEF TypeInv, DeliveryTypes
  <2>2. bounds.opens # 0
    BY <1>1 DEF DeliveryInv, ClientInv, Untouched
  <2> QED BY <1>1, <2>1, <2>2
<1>3. /\ transport'.open /\ transport'.subscribed /\ transport'.lastSeq = l /\ l \in Nat
      /\ up' = Append(up, r) /\ r \in Requests /\ r.kind = "subscribe" /\ r.seq = l
  <2>1. transport \in [open : BOOLEAN, subscribed : BOOLEAN, lastSeq : Nat] /\ l \in Nat
    BY <1>0, Facts
  <2>2. Maximum(l, 0) = l
    BY <2>1 DEF Maximum
  <2> QED BY <1>0, <1>1, <2>1, <2>2 DEF SubscribeRun, SendRequest, Requests
<1>4. /\ ModeInv' /\ OrderInv'
      /\ Forwarder' = Forwarder /\ Commander' = Commander
      /\ KeptSeqs' = KeptSeqs
      /\ \A n : Coming(n)' <=> Coming(n)
      /\ \A n : Sent(n)' <=> Sent(n)
      /\ Reading' <=> Reading
      /\ \A n : Written(n)' <=> Written(n)
  BY <1>1, ServerSideStays DEF DeliveryInv
<1>5. /\ \A n : Carries(up', "load", n) <=> Carries(up, "load", n)
      /\ \A n : Carries(up', "subscribe", n) <=> Carries(up, "subscribe", n) \/ n = l
      /\ Ascending(up', "load")
      /\ \A i \in DOMAIN up' : up'[i] = r \/ (i \in DOMAIN up /\ up'[i] = up[i])
  BY <1>3, RequestSent DEF DeliveryInv
<1>6. LoadsInv'
  <2>1. Ascending(down', "loaded")
    BY <1>1 DEF DeliveryInv, LoadsInv
  <2> QED BY <1>1, <1>4, <1>5, <2>1, LoadsStay DEF DeliveryInv
<1>7. ClientInv'
  <2>1. \A i \in DOMAIN up' : up'[i].kind = "subscribe"
    BY <1>1, <1>3, <1>5 DEF DeliveryInv, ClientInv
  <2> QED BY <1>1, <1>2, <1>3, <2>1 DEF ClientInv
<1>8. NumbersInv'
  <2>1. \A n \in Nat : Around(n)' => Around(n)
    BY <1>0, <1>1, <1>3, <1>4, <1>5 DEF Around
  <2> QED BY <1>1, <2>1, NumbersStay DEF DeliveryInv
<1>9. \A n : Within(n)' <=> Within(n) \/ n <= l
  BY <1>4, <1>5, AskedIs DEF Within
<1>10. ViewInv'
  <2>1. ReloadPending' <=> ReloadPending
    BY <1>1, <1>4, PendingIs
  <2> SUFFICES ASSUME ~ReloadPending
               PROVE  ViewInOrder' /\ Complete(View)'
    BY <1>1, <2>1 DEF ViewInv
  <2>2. ViewInOrder /\ Complete(View)
    BY <1>1 DEF DeliveryInv, ViewInv
  <2>3. PICK v : v = View
    OBVIOUS
  <2>4. View' = v
    BY <1>1, <2>3 DEF View
  <2>5. Complete(v)'
    BY <1>0, <1>1, <1>3, <1>4, <1>9, <2>2, <2>3 DEF Complete
  <2>6. ViewInOrder'
    <3>1. l <= l
      BY <1>3
    <3> QED BY <1>0, <1>1, <1>3, <1>9, <2>2, <3>1 DEF ViewInOrder
  <2> QED BY <2>4, <2>5, <2>6
<1> QED BY <1>4, <1>6, <1>7, <1>8, <1>10 DEF DeliveryInv

\* CloseRun keeps it: a closed view promises nothing.
LEMMA CloseRunKeeps ==
    ASSUME TypeInv, DeliveryInv, CloseRun
    PROVE  DeliveryInv'
<1>0. PICK r : r = [kind |-> "unsubscribe", seq |-> 0]
  OBVIOUS
<1>1. /\ UNCHANGED <<file, torn, emitter, channel, lagged, session, task, down, bounds>>
      /\ store.phase # "closed" /\ batch' = <<>>
      /\ store' = [store EXCEPT !.phase = "closed", !.processed = 0, !.shown = <<>>]
      /\ IF transport.subscribed
         THEN /\ transport' = [transport EXCEPT !.subscribed = FALSE, !.lastSeq = 0]
              /\ up' = IF transport.open THEN Append(up, r) ELSE up
         ELSE UNCHANGED <<transport, up>>
  BY <1>0 DEF CloseRun, SendRequest, logVars, serverVars
<1>2. bounds.opens # 0
  BY <1>1 DEF DeliveryInv, ClientInv, Untouched
<1>3. /\ store'.phase = "closed" /\ store'.gen = store.gen /\ store'.reloading = store.reloading
      /\ ~transport'.subscribed /\ transport'.open = transport.open
      /\ transport'.lastSeq = 0 \/ transport'.lastSeq = transport.lastSeq
      /\ (up' = Append(up, r) /\ transport.open) \/ up' = up
      /\ r \in Requests /\ r.kind = "unsubscribe"
  <2>1. /\ transport \in [open : BOOLEAN, subscribed : BOOLEAN, lastSeq : Nat]
        /\ store \in [phase : StorePhases, processed : Nat, shown : Seq(Nat), gen : Nat,
                      reloading : Nat]
    BY Facts
  <2>2. store'.phase = "closed" /\ store'.gen = store.gen /\ store'.reloading = store.reloading
    BY <1>1, <2>1
  <2>3. r \in Requests /\ r.kind = "unsubscribe"
    BY <1>0 DEF Requests
  <2> QED BY <1>1, <2>1, <2>2, <2>3
<1>4. /\ \A n : Carries(up', "load", n) <=> Carries(up, "load", n)
      /\ \A n : Carries(up', "subscribe", n) <=> Carries(up, "subscribe", n)
      /\ Ascending(up', "load")
  <2>1. CASE up' = Append(up, r)
    BY <1>3, <2>1, RequestSent DEF DeliveryInv
  <2>2. CASE up' = up
    BY <2>2 DEF DeliveryInv, LoadsInv
  <2> QED BY <1>3, <2>1, <2>2
<1>5. /\ ModeInv' /\ OrderInv'
      /\ Forwarder' = Forwarder /\ Commander' = Commander
      /\ \A n : Written(n)' <=> Written(n)
  BY <1>1, ServerSideStays DEF DeliveryInv
<1>6. LoadsInv'
  <2>1. store'.phase # "open"
    BY <1>3
  <2> QED BY <1>1, <1>3, <1>4, <1>5, <2>1 DEF DeliveryInv, LoadsInv
<1>7. ClientInv'
  <2>1. ~transport.open => Quiet'
    BY <1>1, <1>3 DEF DeliveryInv, ClientInv, Quiet
  <2> QED BY <1>1, <1>2, <1>3, <2>1 DEF ClientInv
<1>8. NumbersInv'
  <2>1. \A n \in Nat : Around(n)' => Around(n) \/ n = 0
    BY <1>1, <1>3, <1>4, <1>5 DEF Around
  <2> QED BY <1>1, <2>1, NumbersStay DEF DeliveryInv
<1>9. ViewInv'
  BY <1>3 DEF ViewInv
<1> QED BY <1>5, <1>6, <1>7, <1>8, <1>9 DEF DeliveryInv

\* The oldest frame is taken.
LEMMA FrameTaken ==
    ASSUME TypeInv, DeliveryInv, down # <<>>, down' = Tail(down)
    PROVE  /\ \A k : HasKind(down, k) <=> HasKind(down', k) \/ Head(down).kind = k
           /\ \A k, n : Carries(down, k, n) <=>
                            Carries(down', k, n) \/ (Head(down).kind = k /\ Head(down).seq = n)
           /\ Ascending(down', "loaded")
           /\ Ascending(down, "event") =>
                 /\ Ascending(down', "event")
                 /\ Head(down).kind = "event" => \A n : Carries(down', "event", n) => Head(down).seq < n
           /\ Head(down).kind = "loaded" => \A n : Carries(down', "loaded", n) => Head(down).seq < n
           /\ \A n : NoneFollows(down, "loaded", n, "event") =>
                 /\ NoneFollows(down', "loaded", n, "event")
                 /\ Head(down).kind = "loaded" /\ Head(down).seq = n => ~HasKind(down', "event")
           /\ \A n : Lists(down, n) =
                 Lists(down', n) \cup
                 (IF Head(down).kind = "loaded" /\ Head(down).seq = n THEN {Head(down).list} ELSE {})
           /\ Head(down).seq \in Nat /\ Head(down).list \in Seq(Nat)
           /\ transport.open /\ bounds.opens # 0
<1>1. down \in Seq(Frames) /\ Ascending(down, "loaded")
  BY Facts DEF DeliveryInv, LoadsInv
<1>2. Head(down) \in Frames
  BY <1>1, TakenIn
<1>3. Head(down).seq \in Nat /\ Head(down).list \in Seq(Nat)
  BY <1>2 DEF Frames
<1>4. transport.open /\ bounds.opens # 0
  BY Connected DEF DeliveryInv
<1>5. /\ \A k : HasKind(down, k) <=> HasKind(down', k) \/ Head(down).kind = k
      /\ \A k, n : Carries(down, k, n) <=>
                       Carries(down', k, n) \/ (Head(down).kind = k /\ Head(down).seq = n)
  BY <1>1, CarriedTaken
<1>6. \A k : Ascending(down, k) =>
          /\ Ascending(down', k)
          /\ Head(down).kind = k => \A n : Carries(down', k, n) => Head(down).seq < n
  BY <1>1, CarriedTaken
<1>7. \A k, n, a : NoneFollows(down, k, n, a) =>
          /\ NoneFollows(down', k, n, a)
          /\ Head(down).kind = k /\ Head(down).seq = n => ~HasKind(down', a)
  BY <1>1, CarriedTaken
<1>8. \A n : Lists(down, n) =
          Lists(down', n) \cup
          (IF Head(down).kind = "loaded" /\ Head(down).seq = n THEN {Head(down).list} ELSE {})
  BY <1>1, CarriedTaken
<1> QED BY <1>1, <1>3, <1>4, <1>5, <1>6, <1>7, <1>8

\* ReceiveEvent keeps it: the event moves from the socket to the batch.
LEMMA ReceiveEventKeeps ==
    ASSUME TypeInv, DeliveryInv, Clean', ReceiveEvent
    PROVE  DeliveryInv'
<1>0. PICK h, l : h = Head(down).seq /\ l = transport.lastSeq
  OBVIOUS
<1>1. /\ UNCHANGED <<file, torn, emitter, channel, lagged, session, task, bounds, up, store>>
      /\ down # <<>> /\ Head(down).kind = "event" /\ down' = Tail(down)
      /\ transport' = [transport EXCEPT !.lastSeq = Maximum(@, h)]
      /\ batch' = IF store.phase = "closed" THEN batch ELSE Append(batch, h)
  BY <1>0 DEF ReceiveEvent, TakeFrame, logVars, serverVars
<1>2. store.phase # "loading"
  <2>1. "liveWhileLoading" \notin lapses'
    BY DEF Clean
  <2> QED BY <2>1 DEF ReceiveEvent
<1>3. /\ h \in Nat /\ l \in Nat
      /\ \A n : Carries(down, "event", n) <=> Carries(down', "event", n) \/ n = h
      /\ \A n : Carries(down, "loaded", n) <=> Carries(down', "loaded", n)
      /\ HasKind(down, "reload") <=> HasKind(down', "reload")
      /\ Ascending(down', "loaded")
      /\ Ascending(down, "event") =>
            /\ Ascending(down', "event")
            /\ \A n : Carries(down', "event", n) => h < n
      /\ transport.open /\ bounds.opens # 0
  BY <1>0, <1>1, FrameTaken, Facts
<1>4. /\ transport'.open = transport.open /\ transport'.subscribed = transport.subscribed
      /\ transport'.lastSeq = Maximum(l, h)
      /\ transport'.lastSeq \in {l, h}
      /\ l < h => transport'.lastSeq = h
  <2>1. transport \in [open : BOOLEAN, subscribed : BOOLEAN, lastSeq : Nat]
    BY Facts
  <2>2. Maximum(l, h) \in {l, h} /\ (l < h => Maximum(l, h) = h)
    BY <1>3 DEF Maximum
  <2>3. /\ transport'.open = transport.open /\ transport'.subscribed = transport.subscribed
        /\ transport'.lastSeq = Maximum(l, h)
    BY <1>0, <1>1, <2>1
  <2> QED BY <2>2, <2>3
<1>5. /\ ModeInv' /\ OrderInv'
      /\ Forwarder' = Forwarder /\ Commander' = Commander
      /\ KeptSeqs' = KeptSeqs
      /\ \A n : Coming(n)' <=> Coming(n)
      /\ \A n : Sent(n)' <=> Sent(n)
      /\ Reading' <=> Reading
      /\ \A n : Written(n)' <=> Written(n)
  BY <1>1, ServerSideStays DEF DeliveryInv
<1>6. LoadsInv'
  BY <1>1, <1>3, <1>5, LoadsStay DEF DeliveryInv, LoadsInv
<1>7. ClientInv'
  BY <1>1, <1>3, <1>4 DEF DeliveryInv, ClientInv
<1>8. NumbersInv'
  <2>1. \A n \in Nat : Around(n)' => Around(n)
    BY <1>0, <1>1, <1>3, <1>4, <1>5 DEF Around
  <2> QED BY <1>1, <2>1, NumbersStay DEF DeliveryInv
<1>9. \A n : Within(n)' <=> Within(n)
  <2>1. \A n : Asked(n)' <=> Asked(n)
    BY <1>1 DEF Asked
  <2> QED BY <1>5, <2>1 DEF Within
<1>10. ViewInv'
  <2>1. ReloadPending' <=> ReloadPending
    BY <1>3, <1>5, PendingIs
  <2> SUFFICES ASSUME store.phase = "open", ~ReloadPending
               PROVE  ViewInOrder' /\ Complete(View)'
    BY <1>1, <1>2, <2>1 DEF ViewInv
  <2>2. ViewInOrder /\ Complete(View)
    BY DEF DeliveryInv, ViewInv
  <2>3. /\ l < h /\ Within(h) /\ transport'.lastSeq = h
        /\ batch' = Append(batch, h)
    BY <1>0, <1>1, <1>3, <1>4, <2>2 DEF ViewInOrder
  <2>4. /\ batch \in Seq(Nat) /\ \A n : In(batch', n) <=> In(batch, n) \/ n = h
        /\ Increasing(batch')
    <3>1. batch \in Seq(Nat)
      BY Facts
    <3>2. \A n : In(batch, n) => n < h
      <4> TAKE n
      <4> HAVE In(batch, n)
      <4>1. n \in Nat /\ n <= l
        BY <1>0, <2>2, <3>1, InNat DEF ViewInOrder
      <4> QED BY <1>3, <2>3, <4>1
    <3> QED BY <1>3, <2>2, <2>3, <3>1, <3>2, Appended, IncreasingAppended DEF ViewInOrder
  <2>5. View' = View
    <3> SUFFICES ASSUME NEW n \in Nat
                 PROVE  In(batch', n) \/ Carries(down', "event", n)
                            <=> In(batch, n) \/ Carries(down, "event", n)
      BY <1>1 DEF View
    <3> QED BY <1>3, <2>4
  <2>6. PICK v : v = View
    OBVIOUS
  <2>7. Complete(v)'
    <3>1. \A n \in KeptSeqs : n <= h => Within(n)
      BY <1>3, <2>3, WithinBelow, Facts
    <3> QED BY <1>1, <1>5, <1>9, <2>2, <2>3, <2>6, <3>1 DEF Complete
  <2>8. store.processed \in Nat /\ store.processed <= l
    BY <1>0, <2>2, Facts DEF ViewInOrder
  <2>9. \A n \in Nat : In(batch', n) => store.processed < n /\ n <= h
    <3> SUFFICES ASSUME NEW n \in Nat, In(batch', n)
                 PROVE  store.processed < n /\ n <= h
      OBVIOUS
    <3>1. CASE n = h
      BY <1>3, <2>3, <2>8, <3>1
    <3>2. CASE n # h
      <4>1. store.processed < n /\ n <= l
        BY <1>0, <2>2, <2>4, <3>2 DEF ViewInOrder
      <4> QED BY <1>3, <2>3, <4>1
    <3> QED BY <3>1, <3>2
  <2>10. ViewInOrder'
    <3>1. store.processed <= h
      BY <1>3, <2>3, <2>8
    <3>2. Ascending(down', "event") /\ \A n : Carries(down', "event", n) => h < n
      BY <1>3, <2>2 DEF ViewInOrder
    <3>3. \A n \in Nat : Carries(down', "event", n) => Within(n)'
      BY <1>3, <1>9, <2>2 DEF ViewInOrder
    <3> QED BY <1>1, <1>9, <2>2, <2>3, <2>4, <2>9, <3>1, <3>2, <3>3 DEF ViewInOrder
  <2> QED BY <2>5, <2>6, <2>7, <2>10
<1> QED BY <1>5, <1>6, <1>7, <1>8, <1>10 DEF DeliveryInv

\* A batch shows what it has, all of it newer than what is shown.
LEMMA BatchShown ==
    ASSUME TypeInv, ViewInOrder, FlushBatch
    PROVE  /\ store'.processed \in Nat /\ In(batch, store'.processed)
           /\ \A n : In(batch, n) => n <= store'.processed
           /\ \A n : In(store'.shown, n) <=> In(store.shown, n) \/ In(batch, n)
           /\ Increasing(store'.shown)
<1>1. /\ batch \in Seq(Nat) /\ batch # <<>> /\ store.shown \in Seq(Nat)
      /\ store \in [phase : StorePhases, processed : Nat, shown : Seq(Nat), gen : Nat,
                    reloading : Nat]
      /\ store.processed \in Nat
  BY Facts DEF FlushBatch
<1>2. /\ Increasing(batch) /\ Increasing(store.shown)
      /\ \A n : In(batch, n) => n \in Nat /\ store.processed < n
      /\ \A n : In(store.shown, n) => n \in Nat /\ n <= store.processed
  BY <1>1, InNat DEF ViewInOrder
<1>3. CASE Len(batch) = 1
  <2>1. DOMAIN batch = {1} /\ batch[1] \in Nat
    BY <1>1, <1>3
  <2>2. PICK b : b = batch[1]
    OBVIOUS
  <2>3. \A n : In(batch, n) <=> n = b
    BY <2>1, <2>2 DEF In
  <2>4. store.processed < b /\ b \in Nat
    BY <1>2, <2>3
  <2>5. store' = [store EXCEPT !.processed = b, !.shown = Append(@, b)]
    BY <1>1, <1>3, <2>2, <2>4 DEF FlushBatch
  <2>6. store'.processed = b /\ store'.shown = Append(store.shown, b)
    BY <1>1, <2>5
  <2>7. \A n : In(store'.shown, n) <=> In(store.shown, n) \/ n = b
    <3>1. store.shown \in Seq(Nat)
      BY Facts
    <3> QED BY <2>4, <2>6, <3>1, Appended
  <2>8. \A n : In(store.shown, n) => n < b
    BY <1>1, <1>2, <2>4
  <2>9. Increasing(store'.shown)
    BY <1>1, <1>2, <2>4, <2>6, <2>8, IncreasingAppended
  <2> QED BY <2>3, <2>4, <2>6, <2>7, <2>9
<1>4. CASE Len(batch) # 1
  <2>1. PICK newest \in {batch[i] : i \in DOMAIN batch} :
            /\ \A i \in DOMAIN batch : batch[i] <= newest
            /\ store' = [store EXCEPT !.processed = Maximum(@, newest), !.shown = @ \o batch]
    BY <1>4 DEF FlushBatch
  <2>2. In(batch, newest) /\ \A n : In(batch, n) => n <= newest
    BY <2>1 DEF In
  <2>3. newest \in Nat /\ store.processed < newest
    BY <1>2, <2>2
  <2>4. Maximum(store.processed, newest) = newest
    BY <1>1, <2>3 DEF Maximum
  <2>5. store'.processed = newest /\ store'.shown = store.shown \o batch
    BY <1>1, <2>1, <2>4
  <2>6. \A x, y : In(store.shown, x) /\ In(batch, y) => x < y
    BY <1>1, <1>2
  <2>7. /\ \A n : In(store'.shown, n) <=> In(store.shown, n) \/ In(batch, n)
        /\ Increasing(store'.shown)
    BY <1>1, <1>2, <2>5, <2>6, IncreasingConcat
  <2> QED BY <2>2, <2>3, <2>5, <2>7
<1> QED BY <1>3, <1>4

\* FlushBatch keeps it: the batch moves to what is shown.
LEMMA FlushBatchKeeps ==
    ASSUME TypeInv, DeliveryInv, FlushBatch
    PROVE  DeliveryInv'
<1>1. /\ UNCHANGED <<file, torn, emitter, channel, lagged, session, task, bounds, up, down,
                     transport>>
      /\ batch # <<>> /\ batch' = <<>>
  BY DEF FlushBatch, logVars, serverVars
<1>2. store'.phase = store.phase /\ store'.gen = store.gen /\ store'.reloading = store.reloading
  BY Facts DEF FlushBatch
<1>3. store.phase \notin {"loading", "closed"}
  BY <1>1 DEF DeliveryInv, ViewInv, LoadInOrder, ClientInv
<1>4. /\ ModeInv' /\ OrderInv'
      /\ Forwarder' = Forwarder /\ Commander' = Commander
      /\ KeptSeqs' = KeptSeqs
      /\ \A n : Coming(n)' <=> Coming(n)
      /\ \A n : Sent(n)' <=> Sent(n)
      /\ Reading' <=> Reading
      /\ \A n : Written(n)' <=> Written(n)
  BY <1>1, ServerSideStays DEF DeliveryInv
<1>5. LoadsInv'
  BY <1>1, <1>2, <1>4 DEF DeliveryInv, LoadsInv
<1>6. ClientInv'
  BY <1>1, <1>2, <1>3 DEF DeliveryInv, ClientInv, Quiet, Untouched
<1>7. NumbersInv'
  <2>1. \A n \in Nat : Around(n)' => Around(n)
    BY <1>1, <1>4 DEF Around
  <2> QED BY <1>1, <2>1, NumbersStay DEF DeliveryInv
<1>8. \A n : Within(n)' <=> Within(n)
  <2>1. \A n : Asked(n)' <=> Asked(n)
    BY <1>1 DEF Asked
  <2> QED BY <1>4, <2>1 DEF Within
<1>9. ViewInv'
  <2>1. ReloadPending' <=> ReloadPending
    BY <1>1, <1>4, PendingIs
  <2> SUFFICES ASSUME store.phase = "open", ~ReloadPending
               PROVE  ViewInOrder' /\ Complete(View)'
    BY <1>2, <1>3, <2>1 DEF ViewInv
  <2>2. ViewInOrder /\ Complete(View)
    BY DEF DeliveryInv, ViewInv
  <2>3. /\ store'.processed \in Nat /\ In(batch, store'.processed)
        /\ \A n : In(batch, n) => n <= store'.processed
        /\ \A n : In(store'.shown, n) <=> In(store.shown, n) \/ In(batch, n)
        /\ Increasing(store'.shown)
    BY <2>2, BatchShown
  <2>4. \A n : ~In(batch', n) /\ Increasing(batch')
    BY <1>1, NothingCarried DEF In
  <2>5. View' = View
    BY <1>1, <2>3, <2>4 DEF View
  <2>6. PICK v : v = View
    OBVIOUS
  <2>7. Complete(v)'
    BY <1>1, <1>4, <1>8, <2>2, <2>6 DEF Complete
  <2>8. \A n \in Nat : In(store'.shown, n) => n <= store'.processed
    <3> TAKE n \in Nat
    <3>1. CASE In(batch, n)
      BY <2>3, <3>1
    <3>2. CASE In(store.shown, n)
      <4>1. n <= store.processed /\ store.processed < store'.processed /\ store.processed \in Nat
        BY <2>2, <2>3, <3>2, Facts DEF ViewInOrder
      <4> QED BY <2>3, <4>1
    <3> QED BY <2>3, <3>1, <3>2
  <2>9. ViewInOrder'
    BY <1>1, <1>8, <2>2, <2>3, <2>4, <2>8 DEF ViewInOrder
  <2> QED BY <2>5, <2>6, <2>7, <2>9
<1> QED BY <1>4, <1>5, <1>6, <1>7, <1>9 DEF DeliveryInv

\* The view is loaded again, or waits for a load that was asked for after the gap was told.
LEMMA ReceiveReloadKeeps ==
    ASSUME TypeInv, DeliveryInv, Clean', ReceiveReload
    PROVE  DeliveryInv'
<1>1. /\ UNCHANGED <<file, torn, emitter, channel, lagged, session, task, bounds, batch>>
      /\ down # <<>> /\ Head(down).kind = "reload" /\ down' = Tail(down)
      /\ transport' = [transport EXCEPT !.subscribed = FALSE, !.lastSeq = 0]
      /\ IF store.phase # "closed" /\ store.reloading = 0
         THEN LoadRun(TRUE)
         ELSE UNCHANGED <<store, up>>
  BY DEF ReceiveReload, TakeFrame, logVars, serverVars
<1>2. batch = <<>>
  <2>1. "liveWhileLoading" \notin lapses'
    BY DEF Clean
  <2> QED BY <2>1 DEF ReceiveReload
<1>3. /\ \A k, n : k # "reload" => (Carries(down, k, n) <=> Carries(down', k, n))
      /\ Ascending(down', "loaded")
      /\ \A n : NoneFollows(down, "loaded", n, "event") => NoneFollows(down', "loaded", n, "event")
      /\ transport.open /\ bounds.opens # 0
  BY <1>1, FrameTaken
<1>4. \A n : Lists(down, n) = Lists(down', n)
  <2> TAKE n
  <2>1. Head(down).kind # "loaded"
    BY <1>1
  <2>2. Lists(down, n) =
            Lists(down', n) \cup
            (IF Head(down).kind = "loaded" /\ Head(down).seq = n THEN {Head(down).list} ELSE {})
    BY <1>1, FrameTaken
  <2> QED BY <2>1, <2>2
<1>5. /\ transport'.open = transport.open /\ ~transport'.subscribed /\ transport'.lastSeq = 0
  BY <1>1, Facts
<1>6. /\ ModeInv' /\ OrderInv'
      /\ Forwarder' = Forwarder /\ Commander' = Commander
      /\ KeptSeqs' = KeptSeqs
      /\ \A n : Coming(n)' <=> Coming(n)
      /\ \A n : Sent(n)' <=> Sent(n)
      /\ Reading' <=> Reading
      /\ \A n : Written(n)' <=> Written(n)
      /\ \A t \in Tasks : Replaying(t)' <=> Replaying(t)
  BY <1>1, ServerSideStays DEF DeliveryInv
<1>7. (\A n : Carries(up', "subscribe", n) <=> Carries(up, "subscribe", n)) => NumbersInv'
  <2> SUFFICES ASSUME \A n : Carries(up', "subscribe", n) <=> Carries(up, "subscribe", n)
               PROVE  NumbersInv'
    OBVIOUS
  <2>1. \A n \in Nat : Around(n)' => Around(n) \/ n = 0
    BY <1>1, <1>3, <1>5, <1>6 DEF Around
  <2> QED BY <1>1, <2>1, NumbersStay DEF DeliveryInv
<1>8. CASE store.phase # "closed" /\ store.reloading = 0
  <2>1. /\ LoadsInv' /\ LoadInOrder'
        /\ store'.phase = "loading"
        /\ up'[Len(up')].kind = "load" /\ up'[Len(up')].seq = store'.gen
        /\ \A n : Carries(up', "subscribe", n) <=> Carries(up, "subscribe", n)
    <3>1. TRUE \in BOOLEAN
      OBVIOUS
    <3> QED BY <1>1, <1>2, <1>3, <1>8, <3>1, LoadStarts DEF DeliveryInv
  <2>2. ClientInv'
    BY <1>1, <1>3, <1>5, <2>1 DEF ClientInv
  <2>3. ViewInv'
    BY <2>1 DEF ViewInv
  <2> QED BY <1>6, <1>7, <2>1, <2>2, <2>3 DEF DeliveryInv
<1>9. CASE ~(store.phase # "closed" /\ store.reloading = 0)
  <2>1. UNCHANGED <<store, up>> /\ store.phase # "open"
    BY <1>1, <1>9 DEF DeliveryInv, LoadsInv
  <2>2. LoadsInv'
    BY <1>3, <1>6, <2>1, LoadsStay DEF DeliveryInv, LoadsInv
  <2>3. ClientInv'
    BY <1>1, <1>3, <1>5, <2>1 DEF DeliveryInv, ClientInv
  <2>4. NumbersInv'
    BY <1>7, <2>1
  <2>5. \A n : Within(n)' <=> Within(n)
    <3>1. \A n : Asked(n)' <=> Asked(n)
      BY <2>1 DEF Asked
    <3> QED BY <1>6, <3>1 DEF Within
  <2>6. \A got : Complete(got) => Complete(got)'
    <3> SUFFICES ASSUME NEW got, Complete(got)
                 PROVE  Complete(got)'
      OBVIOUS
    <3>1. \A n \in KeptSeqs : ~(n <= 0)
      BY Facts DEF DeliveryInv, NumbersInv
    <3>2. session' = session
      BY <1>1
    <3> QED BY <1>5, <1>6, <2>5, <3>1, <3>2 DEF Complete
  <2>7. ViewInv'
    <3> SUFFICES ASSUME store.phase = "loading"
                 PROVE  LoadInOrder'
      BY <2>1 DEF ViewInv
    <3>1. LoadInOrder
      BY DEF DeliveryInv, ViewInv
    <3>2. Answers' = Answers
      BY <1>4, <1>6, <2>1 DEF Answers
    <3>3. \A list \in Answers : Beginning(list)' /\ Complete(Elems(list))'
      <4> TAKE list \in Answers
      <4>1. Beginning(list) /\ Complete(Elems(list))
        BY <3>1 DEF LoadInOrder
      <4>2. PICK got : got = Elems(list)
        OBVIOUS
      <4>3. Complete(got)' /\ Elems(list)' = got
        BY <2>6, <4>1, <4>2 DEF Elems
      <4>4. Beginning(list)'
        BY <1>6, <4>1 DEF Beginning
      <4> QED BY <4>2, <4>3, <4>4
    <3> QED BY <1>1, <1>3, <1>6, <2>1, <3>1, <3>2, <3>3 DEF LoadInOrder, Tasks
  <2> QED BY <1>6, <2>2, <2>3, <2>4, <2>7 DEF DeliveryInv
<1> QED BY <1>8, <1>9

\* The answer to an older load, or to one nobody waits for: it changes nothing that is shown.
LEMMA StaleLoadedKeeps ==
    ASSUME TypeInv, DeliveryInv, down # <<>>, Head(down).kind = "loaded", down' = Tail(down),
           UNCHANGED <<file, torn, emitter, channel, lagged, session, task, bounds, batch,
                       transport, up>>,
           ~(store.phase = "loading" /\ store.gen = Head(down).seq),
           store' = IF store.reloading = Head(down).seq THEN [store EXCEPT !.reloading = 0]
                    ELSE store
    PROVE  DeliveryInv'
<1>0. PICK g : g = Head(down).seq
  OBVIOUS
<1>1. /\ store'.phase = store.phase /\ store'.gen = store.gen
      /\ store'.processed = store.processed /\ store'.shown = store.shown
      /\ store'.reloading \in {0, store.reloading}
      /\ store'.reloading = store.reloading => store.reloading = 0 \/ store.reloading # g
  <2>1. store \in [phase : StorePhases, processed : Nat, shown : Seq(Nat), gen : Nat,
                   reloading : Nat]
    BY Facts
  <2> QED BY <1>0, <2>1
<1>2. /\ \A k, n : k # "loaded" => (Carries(down, k, n) <=> Carries(down', k, n))
      /\ \A n : Carries(down, "loaded", n) <=> Carries(down', "loaded", n) \/ n = g
      /\ HasKind(down, "reload") <=> HasKind(down', "reload")
      /\ Ascending(down', "loaded")
      /\ Ascending(down, "event") => Ascending(down', "event")
      /\ \A n : NoneFollows(down, "loaded", n, "event") => NoneFollows(down', "loaded", n, "event")
      /\ transport.open /\ bounds.opens # 0
  BY <1>0, FrameTaken
<1>3. \A n : n # g => Lists(down, n) = Lists(down', n)
  <2> TAKE n
  <2> HAVE n # g
  <2>1. Lists(down, n) =
            Lists(down', n) \cup
            (IF Head(down).kind = "loaded" /\ Head(down).seq = n THEN {Head(down).list} ELSE {})
    BY FrameTaken
  <2> QED BY <1>0, <2>1
<1>4. /\ ModeInv' /\ OrderInv'
      /\ Forwarder' = Forwarder /\ Commander' = Commander
      /\ KeptSeqs' = KeptSeqs
      /\ \A n : Coming(n)' <=> Coming(n)
      /\ \A n : Sent(n)' <=> Sent(n)
      /\ Reading' <=> Reading
      /\ \A n : Written(n)' <=> Written(n)
      /\ \A t \in Tasks : Replaying(t)' <=> Replaying(t)
  BY ServerSideStays DEF DeliveryInv
<1>5. LoadsInv'
  <2>1. LoadsInv
    BY DEF DeliveryInv
  <2>2. store'.reloading # 0 =>
            /\ store.phase # "open"
            /\ \/ Carries(up, "load", store'.reloading)
               \/ Commander.pc = "respond" /\ Commander.seq = store'.reloading
               \/ Carries(down', "loaded", store'.reloading)
    BY <1>1, <1>2, <2>1 DEF LoadsInv
  <2> QED BY <1>1, <1>2, <1>4, <2>1, <2>2 DEF LoadsInv
<1>6. ClientInv'
  BY <1>1, <1>2 DEF DeliveryInv, ClientInv
<1>7. NumbersInv'
  <2>1. \A n \in Nat : Around(n)' => Around(n)
    BY <1>2, <1>4 DEF Around
  <2> QED BY <2>1, NumbersStay DEF DeliveryInv
<1>8. \A n : Within(n)' <=> Within(n)
  <2>1. \A n : Asked(n)' <=> Asked(n)
    BY DEF Asked
  <2> QED BY <1>4, <2>1 DEF Within
<1>9. \A got : Complete(got) => Complete(got)'
  BY <1>4, <1>8 DEF Complete
<1>10. ViewInv'
  <2>1. ReloadPending' <=> ReloadPending
    BY <1>2, <1>4, PendingIs
  <2>2. store.phase = "open" /\ ~ReloadPending => ViewInOrder' /\ Complete(View)'
    <3> SUFFICES ASSUME store.phase = "open", ~ReloadPending
                 PROVE  ViewInOrder' /\ Complete(View)'
      OBVIOUS
    <3>1. ViewInOrder /\ Complete(View)
      BY DEF DeliveryInv, ViewInv
    <3>2. PICK v : v = View
      OBVIOUS
    <3>3. Complete(v)'
      BY <1>9, <3>1, <3>2
    <3>4. View' = v
      BY <1>1, <1>2, <3>2 DEF View
    <3>5. ViewInOrder'
      BY <1>1, <1>2, <1>8, <3>1 DEF ViewInOrder
    <3> QED BY <3>3, <3>4, <3>5
  <2>3. store.phase = "loading" => LoadInOrder'
    <3> SUFFICES ASSUME store.phase = "loading"
                 PROVE  LoadInOrder'
      OBVIOUS
    <3>1. LoadInOrder /\ store.gen # g
      BY <1>0 DEF DeliveryInv, ViewInv
    <3>2. Answers' = Answers
      BY <1>1, <1>3, <1>4, <3>1 DEF Answers
    <3>3. \A list \in Answers : Beginning(list)' /\ Complete(Elems(list))'
      <4> TAKE list \in Answers
      <4>1. Beginning(list) /\ Complete(Elems(list))
        BY <3>1 DEF LoadInOrder
      <4>2. PICK got : got = Elems(list)
        OBVIOUS
      <4>3. Complete(got)' /\ Elems(list)' = got
        BY <1>9, <4>1, <4>2 DEF Elems
      <4>4. Beginning(list)'
        BY <1>4, <4>1 DEF Beginning
      <4> QED BY <4>2, <4>3, <4>4
    <3> QED BY <1>1, <1>2, <1>4, <3>1, <3>2, <3>3 DEF LoadInOrder, Tasks
  <2> QED BY <1>1, <2>1, <2>2, <2>3 DEF ViewInv
<1> QED BY <1>4, <1>5, <1>6, <1>7, <1>10 DEF DeliveryInv

\* The last number of a beginning of what is kept.
LEMMA LastOf ==
    ASSUME NEW list \in Seq(Nat), Increasing(list),
           NEW last, last = IF list = <<>> THEN 0 ELSE list[Len(list)]
    PROVE  /\ last \in Nat
           /\ \A n : In(list, n) => n \in Nat /\ n <= last
           /\ In(list, last) \/ last = 0
<1>1. CASE list = <<>>
  BY <1>1 DEF In
<1>2. CASE list # <<>>
  <2>1. /\ DOMAIN list = 1..Len(list) /\ Len(list) \in Nat \ {0}
        /\ Len(list) \in DOMAIN list /\ last = list[Len(list)]
    BY <1>2
  <2>2. last \in Nat /\ In(list, last)
    BY <2>1, ElementAt DEF In
  <2>3. ASSUME NEW n, In(list, n)
        PROVE  n \in Nat /\ n <= last
    <3>1. PICK i \in DOMAIN list : list[i] = n
      BY <2>3 DEF In
    <3>2. n \in Nat
      BY <3>1, ElementAt
    <3>3. i = Len(list) \/ i < Len(list)
      BY <2>1, <3>1
    <3>4. CASE i = Len(list)
      BY <2>1, <2>2, <3>1, <3>4
    <3>5. CASE i < Len(list)
      <4>1. list[i] < list[Len(list)]
        BY <2>1, <3>1, <3>5 DEF Increasing
      <4> QED BY <2>1, <2>2, <3>1, <3>2, <4>1
    <3> QED BY <3>2, <3>3, <3>4, <3>5
  <2> QED BY <2>2, <2>3
<1> QED BY <1>1, <1>2

\* The greater of two numbers.
LEMMA MaximumIs ==
    \A a, b \in Nat : /\ Maximum(a, b) \in Nat /\ (Maximum(a, b) = a \/ Maximum(a, b) = b)
                      /\ a <= Maximum(a, b) /\ b <= Maximum(a, b)
BY DEF Maximum

\* The answer to the load that the view waits for: it is shown, and what is newer asked for.
LEMMA LoadedKeeps ==
    ASSUME TypeInv, DeliveryInv, down # <<>>, Head(down).kind = "loaded", down' = Tail(down),
           UNCHANGED <<file, torn, emitter, channel, lagged, session, task, bounds, batch>>,
           NEW list, list = Head(down).list,
           NEW last, last = IF list = <<>> THEN 0 ELSE list[Len(list)],
           store.phase = "loading", store.gen = Head(down).seq,
           store' = [(IF store.reloading = Head(down).seq THEN [store EXCEPT !.reloading = 0]
                      ELSE store)
                     EXCEPT !.phase = "open", !.shown = @ \o list, !.processed = Maximum(@, last)],
           SubscribeRun(last)
    PROVE  DeliveryInv'
<1>0. PICK l, m : l = transport.lastSeq /\ m = Maximum(l, last)
  OBVIOUS
<1>1. /\ list \in Seq(Nat)
      /\ \A n : Carries(down, "event", n) <=> Carries(down', "event", n)
      /\ \A n : Carries(down, "loaded", n) <=> Carries(down', "loaded", n) \/ n = store.gen
      /\ Ascending(down', "loaded")
      /\ \A n : Carries(down', "loaded", n) => store.gen < n
      /\ NoneFollows(down, "loaded", store.gen, "event") => ~HasKind(down', "event")
      /\ transport.open /\ bounds.opens # 0
      /\ store.gen \in Nat /\ l \in Nat
  BY <1>0, FrameTaken, Facts
<1>2. LoadInOrder
  BY DEF DeliveryInv, ViewInv
<1>3. /\ batch = <<>> /\ store.shown = <<>> /\ store.processed = 0
      /\ \A n : ~Carries(down', "event", n)
  <2>1. ~HasKind(down', "event")
    BY <1>1, <1>2 DEF LoadInOrder
  <2> QED BY <1>2, <2>1 DEF LoadInOrder, HasKind, Carries
<1>4. list \in Answers
  <2>1. Lists(down, store.gen) =
            Lists(down', store.gen) \cup
            (IF Head(down).kind = "loaded" /\ Head(down).seq = store.gen THEN {Head(down).list}
             ELSE {})
    BY FrameTaken
  <2> QED BY <2>1 DEF Answers
<1>5. Beginning(list) /\ Complete(Elems(list))
  BY <1>2, <1>4 DEF LoadInOrder
<1>6. /\ last \in Nat
      /\ \A n : In(list, n) => n \in Nat /\ n <= last
      /\ In(list, last) \/ last = 0
      /\ Increasing(list)
  BY <1>1, <1>5, LastOf DEF Beginning
<1>7. m \in Nat /\ (m = l \/ m = last) /\ l <= m /\ last <= m
  <2>1. l \in Nat
    BY <1>1
  <2>2. last \in Nat
    BY <1>6
  <2>3. m = Maximum(l, last)
    BY <1>0
  <2> QED BY ONLY <2>1, <2>2, <2>3, MaximumIs
<1>8. up = <<>>
  <2>1. Carries(down, "loaded", store.gen)
    BY <1>1
  <2> QED BY <2>1, LoadOnItsWay
<1>9. /\ \A k, n : ~Carries(up, k, n)
      /\ ~HasKind(down', "event")
  BY <1>1, <1>2, <1>8, NothingCarried DEF LoadInOrder
<1>10. store.reloading \in {0, store.gen}
  <2> SUFFICES ASSUME store.reloading # 0, store.reloading # store.gen
               PROVE  FALSE
    OBVIOUS
  <2>1. \/ Commander.pc = "respond" /\ Commander.seq = store.reloading
        \/ Carries(down, "loaded", store.reloading)
    BY <1>9 DEF DeliveryInv, LoadsInv
  <2>2. CASE Commander.pc = "respond"
    <3>1. Carries(down, "loaded", store.gen)
      BY <1>1
    <3>2. Commander.seq \in 1..store.gen /\ store.gen < Commander.seq
      BY <1>1, <2>2, <3>1 DEF DeliveryInv, LoadsInv
    <3> QED BY <1>1, <3>2
  <2>3. CASE Carries(down, "loaded", store.reloading)
    <3>1. Carries(down', "loaded", store.reloading) /\ store.reloading \in Nat
      BY <1>1, <2>3, Facts
    <3>2. store.reloading \in 1..store.gen /\ store.gen < store.reloading
      BY <1>1, <2>3, <3>1 DEF DeliveryInv, LoadsInv
    <3> QED BY <1>1, <3>2
  <2> QED BY <2>1, <2>2, <2>3
<1>11. /\ store'.phase = "open" /\ store'.gen = store.gen /\ store'.reloading = 0
       /\ store'.shown = list /\ store'.processed = last
  <2>1. store \in [phase : StorePhases, processed : Nat, shown : Seq(Nat), gen : Nat,
                   reloading : Nat]
    BY Facts
  <2>2. PICK s : s = IF store.reloading = Head(down).seq THEN [store EXCEPT !.reloading = 0]
                     ELSE store
    OBVIOUS
  <2>3. /\ s \in [phase : StorePhases, processed : Nat, shown : Seq(Nat), gen : Nat,
                  reloading : Nat]
        /\ s.gen = store.gen /\ s.reloading = 0 /\ s.shown = <<>> /\ s.processed = 0
    BY <1>3, <1>10, <2>1, <2>2
  <2>4. Maximum(0, last) = last
    BY <1>6 DEF Maximum
  <2>5. <<>> \o list = list
    BY <1>1
  <2>6. store' = [s EXCEPT !.phase = "open", !.shown = @ \o list, !.processed = Maximum(@, last)]
    BY <2>2
  <2>7. /\ store'.phase = "open" /\ store'.gen = s.gen /\ store'.reloading = s.reloading
        /\ store'.shown = s.shown \o list /\ store'.processed = Maximum(s.processed, last)
    BY <2>3, <2>6
  <2> QED BY <2>3, <2>4, <2>5, <2>7
<1>12. PICK r : r = [kind |-> "subscribe", seq |-> m]
  OBVIOUS
<1>13. /\ transport'.open /\ transport'.subscribed /\ transport'.lastSeq = m
       /\ up' = Append(up, r) /\ r \in Requests /\ r.kind = "subscribe" /\ r.seq = m
  <2>1. transport \in [open : BOOLEAN, subscribed : BOOLEAN, lastSeq : Nat]
    BY Facts
  <2>2. r \in Requests /\ r.kind = "subscribe" /\ r.seq = m
    BY <1>7, <1>12 DEF Requests
  <2> QED BY <1>0, <1>1, <1>12, <2>1, <2>2 DEF SubscribeRun, SendRequest
<1>14. /\ \A n : ~Carries(up', "load", n)
       /\ \A n : Carries(up', "subscribe", n) <=> n = m
       /\ Ascending(up', "load")
       /\ \A i \in DOMAIN up' : up'[i].kind = "subscribe"
  <2>1. /\ \A k, n : Carries(up', k, n) <=> Carries(up, k, n) \/ (r.kind = k /\ r.seq = n)
        /\ Ascending(up', "load")
        /\ \A i \in DOMAIN up' : up'[i] = r \/ i \in DOMAIN up
    BY <1>13, RequestSent DEF DeliveryInv
  <2>2. DOMAIN up = {}
    BY <1>8
  <2> QED BY <1>9, <1>13, <2>1, <2>2
<1>15. /\ ModeInv' /\ OrderInv'
       /\ Forwarder' = Forwarder /\ Commander' = Commander
       /\ KeptSeqs' = KeptSeqs
       /\ \A n : Coming(n)' <=> Coming(n)
       /\ \A n : Sent(n)' <=> Sent(n)
       /\ Reading' <=> Reading
       /\ \A n : Written(n)' <=> Written(n)
  BY ServerSideStays DEF DeliveryInv
<1>16. LoadsInv'
  BY <1>1, <1>11, <1>14, <1>15 DEF DeliveryInv, LoadsInv
<1>17. ClientInv'
  BY <1>1, <1>11, <1>13, <1>14 DEF ClientInv
<1>18. NumbersInv'
  <2>1. last = 0 \/ last \in KeptSeqs
    BY <1>5, <1>6 DEF Beginning
  <2>2. Around(l)
    BY <1>0 DEF Around
  <2>3. m = 0 \/ m \in KeptSeqs \/ Around(m)
    BY <1>7, <2>1, <2>2
  <2>4. \A n \in Nat : Around(n)' => Around(n) \/ n = m
    BY <1>1, <1>13, <1>14, <1>15 DEF Around
  <2>5. \A n \in Nat : Around(n)' => Around(n) \/ n \in KeptSeqs \/ n = 0
    <3> SUFFICES ASSUME NEW n \in Nat, n = m PROVE Around(n) \/ n \in KeptSeqs \/ n = 0
      BY <2>4
    <3> QED BY <2>3
  <2> QED BY <2>5, NumbersStay DEF DeliveryInv
<1>19. \A n : Within(n)' <=> Sent(n) \/ n <= m
  BY <1>14, <1>15, AskedIs DEF Within
<1>20. ViewInOrder'
  <2>1. \A n : ~In(batch', n) /\ Increasing(batch')
    BY <1>3, NothingCarried DEF In
  <2>2. Ascending(down', "event")
    BY <1>9 DEF HasKind, Ascending
  <2>3. Within(m)'
    BY <1>7, <1>19
  <2> QED BY <1>3, <1>6, <1>7, <1>11, <1>13, <2>1, <2>2, <2>3 DEF ViewInOrder
<1>21. Complete(View)'
  <2>1. PICK got : got = Elems(list)
    OBVIOUS
  <2>2. View' = got
    <3>1. \A n : ~In(batch', n)
      BY <1>3 DEF In
    <3> QED BY <1>3, <1>11, <2>1, <3>1 DEF View, Elems
  <2>3. \A n \in KeptSeqs : n <= last => n \in got
    <3> SUFFICES ASSUME NEW n \in KeptSeqs, n <= last
                 PROVE  In(list, n)
      BY <2>1, Facts DEF Elems
    <3>1. n \in Nat /\ n # 0
      BY Facts DEF DeliveryInv, NumbersInv
    <3>2. last # 0
      BY <1>6, <3>1
    <3> QED BY <1>5, <1>6, <3>1, <3>2 DEF Beginning
  <2>4. Complete(got)
    BY <1>5, <2>1
  <2>5. \A n \in KeptSeqs : Within(n)' \/ n <= transport'.lastSeq => n \in got
    <3> SUFFICES ASSUME NEW n \in KeptSeqs, Sent(n) \/ n <= m
                 PROVE  n \in got
      BY <1>13, <1>19
    <3>1. CASE Sent(n)
      BY <2>4, <3>1 DEF Complete, Within
    <3>2. CASE n <= m
      BY <1>0, <1>7, <2>3, <2>4, <3>2 DEF Complete
    <3> QED BY <3>1, <3>2
  <2>6. Complete(got)'
    BY <1>15, <2>4, <2>5 DEF Complete
  <2> QED BY <2>2, <2>6
<1>22. ViewInv'
  BY <1>11, <1>20, <1>21 DEF ViewInv
<1> QED BY <1>15, <1>16, <1>17, <1>18, <1>22 DEF DeliveryInv

\* ReceiveLoaded keeps it: the answer is the view, or belongs to an older load.
LEMMA ReceiveLoadedKeeps ==
    ASSUME TypeInv, DeliveryInv, ReceiveLoaded
    PROVE  DeliveryInv'
<1>1. /\ UNCHANGED <<file, torn, emitter, channel, lagged, session, task, bounds, batch>>
      /\ down # <<>> /\ Head(down).kind = "loaded" /\ down' = Tail(down)
  BY DEF ReceiveLoaded, TakeFrame, logVars, serverVars
<1>2. CASE store.phase = "loading" /\ store.gen = Head(down).seq
  <2>1. PICK list : list = Head(down).list
    OBVIOUS
  <2>2. PICK last : last = IF list = <<>> THEN 0 ELSE list[Len(list)]
    OBVIOUS
  <2>3. /\ store' = [(IF store.reloading = Head(down).seq THEN [store EXCEPT !.reloading = 0]
                      ELSE store)
                     EXCEPT !.phase = "open", !.shown = @ \o list, !.processed = Maximum(@, last)]
        /\ SubscribeRun(last)
    BY <1>2, <2>1, <2>2 DEF ReceiveLoaded
  <2> QED BY <1>1, <1>2, <2>1, <2>2, <2>3, LoadedKeeps
<1>3. CASE ~(store.phase = "loading" /\ store.gen = Head(down).seq)
  <2>1. /\ store' = IF store.reloading = Head(down).seq THEN [store EXCEPT !.reloading = 0]
                    ELSE store
        /\ UNCHANGED <<transport, up>>
    BY <1>3 DEF ReceiveLoaded
  <2> QED BY <1>1, <1>3, <2>1, StaleLoadedKeeps
<1> QED BY <1>2, <1>3

-----------------------------------------------------------------------------
(* Lost connections *)

\* What Restart or a lost connection leaves of the log, and nothing on its way.
LEMMA DropKeeps ==
    ASSUME TypeInv, DeliveryInv, ~ReloadPending, DropConnection,
           bounds'.opens = bounds.opens,
           \A n \in Nat : Known(n) => Known(n)',
           \A n \in Nat : Written(n)' => Written(n),
           \A e, f \in Emitters : /\ emitter'[e].pc = "written" /\ emitter'[f].pc = "written"
                                  /\ emitter'[e].seq = emitter'[f].seq
                                  => e = f,
           \A n \in KeptSeqs' : n \in KeptSeqs \/ \A m \in Nat : Known(m) => m < n,
           \A n \in KeptSeqs' : n # 0 /\ n \in Nat
    PROVE  DeliveryInv'
<1>1. /\ channel' = <<>> /\ ~lagged' /\ session' = NoSession /\ up' = <<>> /\ down' = <<>>
      /\ task' = [t \in Tasks |-> Resting] /\ batch' = batch
      /\ ~transport'.open /\ transport'.subscribed = transport.subscribed
      /\ transport'.lastSeq = transport.lastSeq /\ transport.lastSeq \in Nat
      /\ store'.reloading = 0 /\ store'.processed = store.processed
      /\ store'.shown = store.shown /\ store'.gen = store.gen
      /\ store'.phase = IF store.phase = "loading" THEN "failed" ELSE store.phase
  <2>1. /\ transport \in [open : BOOLEAN, subscribed : BOOLEAN, lastSeq : Nat]
        /\ store \in [phase : StorePhases, processed : Nat, shown : Seq(Nat), gen : Nat,
                      reloading : Nat]
    BY Facts
  <2>2. transport' = [transport EXCEPT !.open = FALSE]
    BY DEF DropConnection
  <2>3. store' = [store EXCEPT !.reloading = 0,
                               !.phase = IF @ = "loading" THEN "failed" ELSE @]
    BY DEF DropConnection
  <2>4. /\ channel' = <<>> /\ ~lagged' /\ session' = NoSession /\ up' = <<>> /\ down' = <<>>
        /\ task' = [t \in Tasks |-> Resting] /\ batch' = batch
    BY DEF DropConnection
  <2> QED BY <2>1, <2>2, <2>3, <2>4
<1>2. /\ ~session'.on /\ session'.cp = 0 /\ ~session'.replaying /\ session'.buffer = <<>>
      /\ Forwarder'.pc = "rest" /\ Forwarder'.max = 0 /\ Forwarder'.seq = 0
      /\ Commander'.pc = "rest" /\ Commander'.max = 0 /\ Commander'.seq = 0
      /\ \A n : ~In(Forwarder'.todo, n) /\ ~In(Commander'.todo, n)
      /\ \A n : ~In(session'.buffer, n) /\ ~In(channel', n)
      /\ Increasing(channel') /\ Increasing(session'.buffer)
  <2>1. Forwarder' = Resting /\ Commander' = Resting
    BY <1>1 DEF Forwarder, Commander, Tasks
  <2>2. ~session'.on /\ session'.cp = 0 /\ ~session'.replaying /\ session'.buffer = <<>>
    BY <1>1 DEF NoSession
  <2>3. /\ Resting.pc = "rest" /\ Resting.max = 0 /\ Resting.seq = 0 /\ Resting.todo = <<>>
    BY DEF Resting
  <2>4. \A n : ~In(<<>>, n)
    BY DEF In
  <2>5. Forwarder'.todo = <<>> /\ Commander'.todo = <<>>
    BY <2>1, <2>3
  <2> QED BY <1>1, <2>1, <2>2, <2>3, <2>4, <2>5, NothingCarried
<1>3. /\ \A k, n : ~Carries(up', k, n) /\ ~Carries(down', k, n)
      /\ \A k : Ascending(up', k) /\ Ascending(down', k)
      /\ \A i \in DOMAIN up' : FALSE
  BY <1>1, NothingCarried
<1>4. LoadsInv'
  BY <1>1, <1>2, <1>3 DEF LoadsInv
<1>5. ClientInv'
  <2>1. Quiet'
    BY <1>1 DEF Quiet
  <2>2. bounds'.opens = 0 => Untouched'
    BY <1>1 DEF DeliveryInv, ClientInv, Untouched
  <2> QED BY <1>1, <1>3, <2>1, <2>2 DEF DeliveryInv, ClientInv
<1>6. NumbersInv'
  <2>1. \A n \in Nat : Around(n)' => Around(n) \/ n = 0
    BY <1>1, <1>2, <1>3 DEF Around
  <2> QED BY <2>1 DEF DeliveryInv, NumbersInv, Known
<1>7. ModeInv'
  <2>1. ~Replaying("forward")' /\ ~Replaying("command")'
    BY <1>2 DEF Replaying, Forwarder, Commander
  <2> QED BY <1>2, <2>1 DEF ModeInv
<1>8. OrderInv'
  <2>1. ReplayInv("forward")' /\ ReplayInv("command")'
    BY <1>2 DEF ReplayInv, Forwarder, Commander
  <2> QED BY <1>2, <2>1 DEF OrderInv
<1>9. ViewInv'
  <2> SUFFICES ASSUME store.phase = "open"
               PROVE  ViewInOrder' /\ Complete(View)'
    BY <1>1 DEF ViewInv
  <2>1. ViewInOrder /\ Complete(View)
    BY DEF DeliveryInv, ViewInv
  <2>2. ViewInOrder'
    BY <1>1, <1>3, <2>1 DEF ViewInOrder
  <2>3. \A n : ~Within(n)'
    BY <1>2, <1>3, AskedIs DEF Within, Sent
  <2>4. \A n : n \in View' <=> n \in Nat /\ (In(store.shown, n) \/ In(batch, n))
    BY <1>1, <1>3 DEF View
  <2>5. \A n \in KeptSeqs' : n <= transport'.lastSeq => n \in View'
    <3> SUFFICES ASSUME NEW n \in KeptSeqs', n <= transport.lastSeq
                 PROVE  n \in View'
      BY <1>1
    <3>1. Known(transport.lastSeq)
      BY <1>1 DEF DeliveryInv, NumbersInv, Around
    <3>2. n \in KeptSeqs /\ n \in Nat
      BY <1>1, <3>1
    <3>3. n \in View
      BY <2>1, <3>2 DEF Complete
    <3>4. ~Carries(down, "event", n)
      BY <1>1, <2>1, <3>2 DEF ViewInOrder
    <3> QED BY <2>4, <3>2, <3>3, <3>4 DEF View
  <2> QED BY <1>2, <2>2, <2>3, <2>5 DEF Complete
<1> QED BY <1>4, <1>5, <1>6, <1>7, <1>8, <1>9 DEF DeliveryInv

\* Without a lapse no reload is lost with the connection.
LEMMA NothingPending ==
    ASSUME Clean', ReloadLost \subseteq lapses'
    PROVE  ~ReloadPending
BY DEF Clean, ReloadLost

\* Disconnect keeps it: the checkpoint of the browser says what to subscribe from.
LEMMA DisconnectKeeps ==
    ASSUME TypeInv, DeliveryInv, Clean', Disconnect
    PROVE  DeliveryInv'
<1>1. UNCHANGED <<file, torn, emitter>> /\ DropConnection
  BY DEF Disconnect, logVars
<1>2. ~ReloadPending
  BY NothingPending DEF Disconnect
<1>3. bounds'.opens = bounds.opens
  <2>1. bounds \in [opens : Nat, drops : Nat, repeats : Nat]
    BY DEF TypeInv, DeliveryTypes
  <2>2. bounds' = [bounds EXCEPT !.drops = @ + 1]
    BY DEF Disconnect
  <2> QED BY <2>1, <2>2
<1>4. /\ KeptSeqs' = KeptSeqs
      /\ \A n : Known(n)' <=> Known(n)
      /\ \A n : Written(n)' <=> Written(n)
  BY <1>1 DEF KeptSeqs, KeptLines, Known, Written
<1>5. \A n \in KeptSeqs' : n # 0 /\ n \in Nat
  BY <1>4, Facts DEF DeliveryInv, NumbersInv
<1>6. \A e, f \in Emitters : /\ emitter'[e].pc = "written" /\ emitter'[f].pc = "written"
                             /\ emitter'[e].seq = emitter'[f].seq
                             => e = f
  BY <1>1 DEF DeliveryInv, OrderInv
<1> QED BY <1>1, <1>2, <1>3, <1>4, <1>5, <1>6, DropKeeps

\* The server may die in the middle of a write, whose line then grows the file.
LEMMA ServerRestartKeeps ==
    ASSUME TypeInv, DeliveryInv, Clean', ServerRestart
    PROVE  DeliveryInv'
<1>1. /\ DropConnection /\ bounds' = bounds
      /\ emitter' = [e \in Emitters |-> Idle]
  BY DEF ServerRestart, Restart
<1>2. ~ReloadPending
  BY NothingPending DEF ServerRestart
<1>3. torn => file' = file
  <2>1. "glued" \notin lapses'
    BY DEF Clean
  <2> QED BY <2>1 DEF ServerRestart, Glued
<1>4. \A e \in Emitters : emitter'[e].pc # "written"
  BY <1>1 DEF Idle
<1>5. \/ file' = file
      \/ \E x : GrowsBy(x)
  <2>1. CASE NobodyHolds
    BY <2>1 DEF ServerRestart, Restart
  <2>2. CASE ~NobodyHolds /\ ~torn
    <3>1. PICK kind \in Kinds : Leftover([seq |-> counter, kind |-> kind])
      BY <2>2 DEF ServerRestart, Restart
    <3>2. counter # 0 /\ counter \in Nat
      BY <2>2 DEF TypeInv, IInv, LogSeqsIncrease, LogTypeOK
    <3>3. CASE file' = Append(file, [seq |-> counter, kind |-> kind])
      <4>1. [seq |-> counter, kind |-> kind] \in Lines
        BY <3>2, LogAssumption DEF Lines
      <4>2. GrowsBy([seq |-> counter, kind |-> kind])
        BY <2>2, <3>2, <3>3, <4>1 DEF GrowsBy
      <4> QED BY <4>2
    <3>4. CASE file' = Append(file, Garbage)
      <4>1. Garbage \in Lines /\ Garbage.kind = "garbage"
        BY DEF Lines, Garbage
      <4>2. GrowsBy(Garbage)
        BY <2>2, <3>2, <3>4, <4>1 DEF GrowsBy
      <4> QED BY <4>2
    <3> QED BY <2>2, <3>1, <3>3, <3>4 DEF Leftover, AppendLine
  <2> QED BY <1>3, <2>1, <2>2
<1>6. /\ \A n \in Nat : Known(n) => Known(n)'
      /\ \A n \in KeptSeqs' : n \in KeptSeqs \/ \A m \in Nat : Known(m) => m < n
      /\ \A n \in KeptSeqs' : n # 0 /\ n \in Nat
  <2>1. \A n \in KeptSeqs : n # 0 /\ n \in Nat
    BY Facts DEF DeliveryInv, NumbersInv
  <2>2. CASE file' = file
    <3>1. KeptSeqs' = KeptSeqs /\ \A n : Known(n)' <=> Known(n)
      BY <2>2 DEF KeptSeqs, KeptLines, Known
    <3> QED BY <2>1, <3>1
  <2>3. ASSUME NEW x, GrowsBy(x)
        PROVE  /\ \A n \in Nat : Known(n) => Known(n)'
               /\ \A n \in KeptSeqs' : n \in KeptSeqs \/ \A m \in Nat : Known(m) => m < n
               /\ \A n \in KeptSeqs' : n # 0 /\ n \in Nat
    <3>1. /\ counter \in Nat
          /\ \A n \in Nat : Known(n) => n < counter /\ Known(n)'
          /\ \A n : n \in KeptSeqs' <=> n \in KeptSeqs \/ (x.kind = "kept" /\ n = counter)
      BY <2>3, Grown
    <3>2. counter # 0
      BY <2>3 DEF GrowsBy
    <3> QED BY <2>1, <3>1, <3>2
  <2> QED BY <1>5, <2>2, <2>3
<1>7. \A n : ~Written(n)'
  BY <1>4 DEF Written
<1> QED BY <1>1, <1>2, <1>4, <1>6, <1>7, DropKeeps

\* An open view asks for what is newer than it was sent.
LEMMA ReconnectKeeps ==
    ASSUME TypeInv, DeliveryInv, Reconnect
    PROVE  DeliveryInv'
<1>0. PICK l : l = transport.lastSeq
  OBVIOUS
<1>1. /\ UNCHANGED <<file, torn, emitter, channel, lagged, session, task, bounds, batch, store,
                     down>>
      /\ ~transport.open /\ transport' = [transport EXCEPT !.open = TRUE]
      /\ up' = IF transport.subscribed THEN <<[kind |-> "subscribe", seq |-> l]>> ELSE <<>>
  BY <1>0 DEF Reconnect, Resubscribe, logVars, serverVars
<1>2. /\ transport'.open /\ transport'.subscribed = transport.subscribed
      /\ transport'.lastSeq = l /\ l \in Nat
  BY <1>0, <1>1, Facts
<1>3. /\ up = <<>> /\ down = <<>> /\ ~session.on
      /\ Forwarder.pc = "rest" /\ Commander.pc = "rest"
      /\ \A k, n : ~Carries(up, k, n) /\ ~Carries(down, k, n)
  <2>1. /\ up = <<>> /\ down = <<>> /\ session = NoSession
        /\ task = [t \in Tasks |-> Resting]
    BY <1>1 DEF DeliveryInv, ClientInv, Quiet
  <2>2. Forwarder = Resting /\ Commander = Resting
    BY <2>1 DEF Forwarder, Commander, Tasks
  <2> QED BY <2>1, <2>2, NothingCarried DEF Resting, NoSession
<1>4. /\ \A n : ~Carries(up', "load", n)
      /\ \A n : Carries(up', "subscribe", n) <=> transport.subscribed /\ n = l
      /\ Ascending(up', "load")
      /\ \A i \in DOMAIN up' : up'[i].kind = "subscribe"
      /\ ~transport.subscribed => up' = <<>>
  <2>1. CASE transport.subscribed
    <3>1. /\ DOMAIN up' = {1} /\ up'[1].kind = "subscribe" /\ up'[1].seq = l
      BY <1>1, <2>1
    <3>2. \A k, n : Carries(up', k, n) <=> k = "subscribe" /\ n = l
      BY <3>1 DEF Carries
    <3>3. Ascending(up', "load")
      BY <3>1 DEF Ascending
    <3> QED BY <2>1, <3>1, <3>2, <3>3
  <2>2. CASE ~transport.subscribed
    <3>1. up' = <<>> /\ DOMAIN up' = {}
      BY <1>1, <2>2
    <3> QED BY <2>2, <3>1, NothingCarried
  <2> QED BY <2>1, <2>2
<1>5. /\ ModeInv' /\ OrderInv'
      /\ Forwarder' = Forwarder /\ Commander' = Commander
      /\ KeptSeqs' = KeptSeqs
      /\ \A n : Coming(n)' <=> Coming(n)
      /\ \A n : Sent(n)' <=> Sent(n)
      /\ Reading' <=> Reading
      /\ \A n : Written(n)' <=> Written(n)
  BY <1>1, ServerSideStays DEF DeliveryInv
<1>6. LoadsInv'
  <2>1. store.reloading = 0
    BY <1>3 DEF DeliveryInv, LoadsInv
  <2> QED BY <1>1, <1>3, <1>4, <1>5, <2>1, NothingCarried DEF LoadsInv
<1>7. store.phase # "loading" /\ (transport.subscribed <=> store.phase = "open")
  BY <1>1 DEF DeliveryInv, ClientInv
<1>8. ClientInv'
  BY <1>1, <1>2, <1>4, <1>7 DEF DeliveryInv, ClientInv, Untouched
<1>9. NumbersInv'
  <2>1. \A n \in Nat : Around(n)' => Around(n)
    BY <1>0, <1>1, <1>2, <1>4, <1>5 DEF Around
  <2> QED BY <1>1, <2>1, NumbersStay DEF DeliveryInv
<1>10. ViewInv'
  <2>1. ReloadPending' <=> ReloadPending
    BY <1>1, <1>5, PendingIs
  <2> SUFFICES ASSUME store.phase = "open", ~ReloadPending
               PROVE  ViewInOrder' /\ Complete(View)'
    BY <1>1, <1>7, <2>1 DEF ViewInv
  <2>2. ViewInOrder /\ Complete(View)
    BY DEF DeliveryInv, ViewInv
  <2>3. PICK v : v = View
    OBVIOUS
  <2>4. View' = v
    BY <1>1, <2>3 DEF View
  <2>5. \A n : Within(n)' <=> n <= l
    <3>1. \A n : ~Sent(n)'
      BY <1>3, <1>5 DEF Sent
    <3> QED BY <1>4, <1>7, <3>1, AskedIs DEF Within
  <2>6. Complete(v)'
    BY <1>0, <1>1, <1>2, <1>3, <1>5, <2>2, <2>3, <2>5 DEF Complete
  <2>7. ViewInOrder'
    <3>1. l <= l
      BY <1>2
    <3> QED BY <1>0, <1>1, <1>2, <1>3, <2>2, <2>5, <3>1 DEF ViewInOrder
  <2> QED BY <2>4, <2>6, <2>7
<1> QED BY <1>5, <1>6, <1>8, <1>9, <1>10 DEF DeliveryInv

-----------------------------------------------------------------------------
(* The invariant of the delivery *)

\* A lapse is not forgotten: before a clean state is a clean one.
LEMMA CleanBefore == [Next]_vars /\ Clean' => Clean
<1> SUFFICES ASSUME [Next]_vars, lapses' = {} PROVE lapses = {}
  BY DEF Clean
<1>1. CASE Persist
  BY <1>1 DEF Persist
<1>2. CASE \E e \in Emitters : Broadcast(e)
  <2>1. lapses' = lapses \/ \E s : lapses' = lapses \cup s
    BY <1>2 DEF Broadcast
  <2> QED BY <2>1
<1>3. CASE Receive \/ ForwardMark \/ Respond \/ CoolDown
  BY <1>3 DEF Receive, ForwardMark, Respond, CoolDown
<1>4. CASE ForwardSend
  BY <1>4 DEF ForwardSend, MeetLoad
<1>5. CASE Catchup
  <2>1. \E s : lapses' = lapses \cup s
    BY <1>5 DEF Catchup
  <2> QED BY <2>1
<1>6. ASSUME NEW t \in Tasks, ReplayStep(t) PROVE lapses = {}
  <2>1. CASE ReadLog(t) \/ Drain(t)
    BY <2>1 DEF ReadLog, Drain
  <2>2. CASE ReplayEvent(t)
    BY <2>2 DEF ReplayEvent, MeetLoad
  <2>3. CASE FlushEvent(t)
    <3>1. MeetLoad(Head(task[t].todo)) \/ UNCHANGED lapses
      BY <2>3 DEF FlushEvent
    <3> QED BY <3>1 DEF MeetLoad
  <2>4. CASE SendFullReload(t)
    <3>1. lapses' = lapses \/ \E s : lapses' = lapses \cup s
      BY <2>4 DEF SendFullReload
    <3> QED BY <3>1
  <2> QED BY <1>6, <2>1, <2>2, <2>3, <2>4 DEF ReplayStep
<1>7. CASE Subscribe \/ Unsubscribe \/ Load
  <2>1. lapses' = lapses \/ \E s : lapses' = lapses \cup s
    BY <1>7 DEF Subscribe, Unsubscribe, Load
  <2> QED BY <2>1
<1>8. CASE User
  BY <1>8 DEF User, OpenRun, OpenNewRun, Repeat, CloseRun
<1>9. CASE Browser
  <2>1. lapses' = lapses \/ \E s : lapses' = lapses \cup s
    BY <1>9 DEF Browser, ReceiveEvent, FlushBatch, ReceiveLoaded, ReceiveReload
  <2> QED BY <2>1
<1>10. CASE Disconnect \/ ServerRestart
  <2>1. \E s : lapses' = lapses \cup s
    <3>1. lapses \cup ReloadLost \cup Glued = lapses \cup (ReloadLost \cup Glued)
      OBVIOUS
    <3> QED BY <1>10, <3>1 DEF Disconnect, ServerRestart
  <2> QED BY <2>1
<1>11. CASE Reconnect
  BY <1>11 DEF Reconnect
<1>12. CASE UNCHANGED vars
  BY <1>12 DEF vars, deliveryVars
<1> QED BY <1>1, <1>2, <1>3, <1>4, <1>5, <1>6, <1>7, <1>8, <1>9, <1>10, <1>11, <1>12
    DEF Next, Forward, Command

\* At first nothing is on its way.
LEMMA InitClean == Init => CleanInv
<1> SUFFICES ASSUME Init PROVE DeliveryInv
  BY DEF CleanInv
<1>1. /\ channel = <<>> /\ ~lagged /\ session = NoSession /\ up = <<>> /\ down = <<>>
      /\ batch = <<>> /\ task = [t \in Tasks |-> Resting] /\ transport.open
      /\ ~transport.subscribed /\ transport.lastSeq = 0
      /\ store.phase = "closed" /\ store.gen = 0 /\ store.reloading = 0
  BY DEF Init
<1>2. /\ ~NoSession.on /\ ~NoSession.replaying /\ NoSession.cp = 0 /\ NoSession.buffer = <<>>
      /\ Resting.pc = "rest" /\ Resting.max = 0 /\ Resting.seq = 0 /\ Resting.todo = <<>>
      /\ Tasks = {"forward", "command"}
      /\ \A n : ~In(<<>>, n)
  BY DEF NoSession, Resting, Tasks, In
<1>3. Forwarder = Resting /\ Commander = Resting
  BY <1>1, <1>2 DEF Forwarder, Commander
<1>4. \A n : ~Written(n)
  BY DEF Init, LogInit, Idle, Written
<1>5. KeptSeqs = {}
  BY DEF Init, LogInit, KeptSeqs, KeptLines
<1>6. \A t \in Tasks : ~Replaying(t) /\ task[t].pc = "rest"
  BY <1>1, <1>2 DEF Replaying
<1>7. LoadsInv
  BY <1>1, <1>2, <1>3, NothingCarried DEF LoadsInv
<1>8. ClientInv
  BY <1>1 DEF ClientInv, Untouched
<1>9. NumbersInv
  BY <1>1, <1>2, <1>3, <1>4, <1>5, NothingCarried DEF NumbersInv, Around, Known
<1>10. ModeInv
  BY <1>1, <1>2, <1>3, <1>6 DEF ModeInv
<1>11. OrderInv
  <2>1. \A n : ~Queued(n)
    BY <1>1, <1>2, <1>4 DEF Queued
  <2>2. ReplayInv("forward") /\ ReplayInv("command")
    BY <1>2, <1>6 DEF ReplayInv
  <2>3. \A e \in Emitters : emitter[e].pc # "written"
    BY DEF Init, LogInit, Idle
  <2> QED BY <1>1, <1>2, <1>3, <1>4, <2>1, <2>2, <2>3, NothingCarried DEF OrderInv
<1>12. ViewInv
  BY <1>1 DEF ViewInv
<1> QED BY <1>7, <1>8, <1>9, <1>10, <1>11, <1>12 DEF DeliveryInv

\* A step that changes nothing.
LEMMA StutterKeeps ==
    ASSUME TypeInv, DeliveryInv, UNCHANGED vars
    PROVE  DeliveryInv'
<1>1. UNCHANGED <<file, torn, emitter, channel, lagged, session, task, up, down, transport, batch,
                  store, bounds>>
  BY DEF vars, deliveryVars, serverVars, clientVars, logVars
<1>2. /\ ModeInv' /\ OrderInv'
      /\ Forwarder' = Forwarder /\ Commander' = Commander
      /\ KeptSeqs' = KeptSeqs
      /\ \A n : Coming(n)' <=> Coming(n)
      /\ \A n : Sent(n)' <=> Sent(n)
      /\ Reading' <=> Reading
      /\ \A n : Written(n)' <=> Written(n)
      /\ \A t \in Tasks : Replaying(t)' <=> Replaying(t)
  BY <1>1, ServerSideStays DEF DeliveryInv
<1>3. \A n : Within(n)' <=> Within(n)
  BY <1>1, <1>2 DEF Within, Asked
<1>4. \A got : Complete(got) => Complete(got)'
  BY <1>1, <1>2, <1>3 DEF Complete
<1>5. \A n : Around(n)' => Around(n)
  BY <1>1, <1>2 DEF Around
<1>6. ReloadPending' <=> ReloadPending
  BY <1>1, <1>2, PendingIs
<1> QED BY <1>1, <1>2, <1>3, <1>4, <1>5, <1>6, ServerStays DEF Tasks

\* A step of a task keeps the invariant.  a_forward never flushes: the buffer of a replay is
\* empty while it replays.
LEMMA ReplayStepKeeps ==
    ASSUME TypeInv, Clean, DeliveryInv, Clean', NEW t \in Tasks, ReplayStep(t)
    PROVE  DeliveryInv'
<1>1. t = "forward" \/ t = "command"
  BY DEF Tasks
<1>2. CASE ReadLog(t)
  BY <1>2, ReadLogKeeps
<1>3. CASE ReplayEvent(t)
  BY <1>3, ReplayEventKeeps
<1>4. CASE FlushEvent(t)
  <2>1. t = "command"
    BY <1>1, <1>4 DEF FlushEvent, DeliveryInv, ModeInv, Forwarder
  <2>2. /\ Commander.pc = "flush" /\ Commander.todo # <<>>
        /\ UNCHANGED <<logVars, channel, lagged, session, up, clientVars, bounds>>
    BY <1>4, <2>1 DEF FlushEvent, Commander
  <2>3. \/ /\ Head(Commander.todo) > Commander.seq
           /\ down' = Append(down, EventFrame(Head(Commander.todo)))
           /\ task' = [task EXCEPT !["command"].todo = Tail(@),
                                   !["command"].max = Maximum(@, Head(Commander.todo))]
           /\ MeetLoad(Head(Commander.todo))
        \/ /\ Head(Commander.todo) <= Commander.seq
           /\ task' = [task EXCEPT !["command"].todo = Tail(@)]
           /\ UNCHANGED <<down, lapses>>
    BY <1>4, <2>1 DEF FlushEvent, Commander
  <2>4. CASE /\ Head(Commander.todo) > Commander.seq
             /\ down' = Append(down, EventFrame(Head(Commander.todo)))
             /\ task' = [task EXCEPT !["command"].todo = Tail(@),
                                     !["command"].max = Maximum(@, Head(Commander.todo))]
             /\ MeetLoad(Head(Commander.todo))
    BY <2>2, <2>4, FlushSendKeeps
  <2>5. CASE /\ Head(Commander.todo) <= Commander.seq
             /\ task' = [task EXCEPT !["command"].todo = Tail(@)]
             /\ UNCHANGED <<down, lapses>>
    BY <2>2, <2>5, FlushSkipKeeps
  <2> QED BY <2>3, <2>4, <2>5
<1>5. CASE Drain(t)
  BY <1>1, <1>5, DrainForwardKeeps, DrainCommandKeeps
<1>6. CASE SendFullReload(t)
  BY <1>6, SendFullReloadKeeps
<1> QED BY <1>2, <1>3, <1>4, <1>5, <1>6 DEF ReplayStep

\* Every step keeps the invariant, as long as no lapse has happened.
LEMMA NextClean == TypeInv /\ CleanInv /\ [Next]_vars => CleanInv'
<1> SUFFICES ASSUME TypeInv, CleanInv, [Next]_vars, Clean'
             PROVE  DeliveryInv'
  BY DEF CleanInv
<1>1. Clean
  BY CleanBefore
<1>2. DeliveryInv
  BY <1>1 DEF CleanInv
<1>3. CASE Persist
  BY <1>2, <1>3, PersistKeeps
<1>4. CASE \E e \in Emitters : Broadcast(e)
  BY <1>2, <1>4, BroadcastKeeps
<1>5. CASE Forward
  BY <1>1, <1>2, <1>5, ReceiveKeeps, ForwardSendKeeps, ForwardMarkKeeps, CatchupKeeps DEF Forward
<1>6. CASE \E t \in Tasks : ReplayStep(t)
  BY <1>1, <1>2, <1>6, ReplayStepKeeps
<1>7. CASE CoolDown
  BY <1>2, <1>7, CoolDownKeeps
<1>8. CASE Command
  BY <1>2, <1>8, SubscribeKeeps, UnsubscribeKeeps, LoadKeeps, RespondKeeps DEF Command
<1>9. CASE User
  BY <1>2, <1>9, OpenRunKeeps, OpenNewRunKeeps, RepeatKeeps, CloseRunKeeps DEF User
<1>10. CASE Browser
  BY <1>2, <1>10, ReceiveEventKeeps, FlushBatchKeeps, ReceiveLoadedKeeps, ReceiveReloadKeeps
     DEF Browser
<1>11. CASE Disconnect \/ ServerRestart \/ Reconnect
  BY <1>2, <1>11, DisconnectKeeps, ServerRestartKeeps, ReconnectKeeps
<1>12. CASE UNCHANGED vars
  BY <1>2, <1>12, StutterKeeps
<1> QED BY <1>3, <1>4, <1>5, <1>6, <1>7, <1>8, <1>9, <1>10, <1>11, <1>12 DEF Next

\* What an open view has taken in but not shown is newer than what it has processed.
LEMMA FaithfulByInv == TypeInv /\ CleanInv => ViewIsFaithful
<1> SUFFICES ASSUME TypeInv, CleanInv, Held PROVE InOrder /\ NothingSkipped
  BY DEF ViewIsFaithful
<1>1. ViewInOrder /\ Complete(View)
  BY DEF Held, CleanInv, Clean, DeliveryInv, ViewInv
<1>2. InOrder
  BY <1>1 DEF ViewInOrder, Increasing, InOrder
<1>3. NothingSkipped
  <2> SUFFICES ASSUME NEW n \in KeptSeqs, n <= store.processed
               PROVE  n \in Shown
    BY DEF NothingSkipped
  <2>1. n \in Nat /\ store.processed \in Nat /\ transport.lastSeq \in Nat
    BY Facts
  <2>2. store.processed <= transport.lastSeq
    BY <1>1 DEF ViewInOrder
  <2>3. n <= transport.lastSeq
    BY <2>1, <2>2
  <2>4. n \in View
    BY <1>1, <2>3 DEF Complete
  <2>5. ~In(batch, n) /\ ~Carries(down, "event", n)
    BY <1>1, <2>1, <2>3 DEF ViewInOrder
  <2> QED BY <2>4, <2>5 DEF View, In, Shown
<1> QED BY <1>2, <1>3

\* An open view that no lapse has met, and that is not about to be reloaded, shows its events
\* in order and once, and every kept event up to the newest: whatever the order of replays
\* and live events, lags, overflows, lost connections, failed writes and restarts, and for
\* any number of emitters, any capacity of the channel and any of the replay buffer.
THEOREM OpenViewIsFaithful == Spec => []ViewIsFaithful
<1>1. Init => TypeInv /\ CleanInv
  BY InitTypes, InitClean
<1>2. TypeInv /\ CleanInv /\ [Next]_vars => (TypeInv /\ CleanInv)'
  BY NextTypes, NextClean
<1> QED BY <1>1, <1>2, FaithfulByInv, PTL DEF Spec

-----------------------------------------------------------------------------
(* Sequences of increasing numbers and the sets of their numbers *)

\* The n-th number of an increasing sequence has n numbers up to it, itself among them.
LEMMA Counted ==
    ASSUME NEW s \in Seq(Nat), Increasing(s)
    PROVE  /\ \A i \in 1..Len(s) : Cardinality({x \in Elems(s) : x <= s[i]}) = i
           /\ IsFiniteSet(Elems(s)) /\ Cardinality(Elems(s)) = Len(s)
<1>1. /\ DOMAIN s = 1..Len(s) /\ Len(s) \in Nat
      /\ \A i \in 1..Len(s) : s[i] \in Nat
  OBVIOUS
<1>2. \A i, j \in 1..Len(s) : i < j => s[i] < s[j]
  BY <1>1 DEF Increasing
<1>3. ASSUME NEW k \in 0..Len(s), NEW S,
             \A x : x \in S <=> \E j \in 1..k : s[j] = x
      PROVE  IsFiniteSet(S) /\ Cardinality(S) = k
  <2> DEFINE f == [j \in 1..k |-> s[j]]
  <2>1. k \in Nat /\ \A j \in 1..k : j \in 1..Len(s)
    BY <1>1
  <2>2. \A j \in 1..k : f[j] = s[j]
    OBVIOUS
  <2>3. f \in [1..k -> S]
    BY <1>3
  <2>4. \A i, j \in 1..k : f[i] = f[j] => i = j
    <3> SUFFICES ASSUME NEW i \in 1..k, NEW j \in 1..k, f[i] = f[j]
                 PROVE  i = j
      OBVIOUS
    <3>1. i \in 1..Len(s) /\ j \in 1..Len(s) /\ s[i] = s[j]
      BY <2>1, <2>2
    <3>2. ~(i < j) /\ ~(j < i)
      BY <1>1, <1>2, <3>1
    <3> QED BY <3>2
  <2>5. \A x \in S : \E j \in 1..k : f[j] = x
    BY <1>3, <2>2
  <2> HIDE DEF f
  <2>6. f \in Bijection(1..k, S)
    BY <2>3, <2>4, <2>5 DEF Bijection, Injection, Surjection, IsInjective
  <2>7. IsFiniteSet(1..k) /\ Cardinality(1..k) = k
    BY <2>1, FS_Interval
  <2> QED BY <2>6, <2>7, FS_Bijection DEF ExistsBijection
<1>4. ASSUME NEW i \in 1..Len(s)
      PROVE  Cardinality({x \in Elems(s) : x <= s[i]}) = i
  <2>1. i \in 0..Len(s)
    BY <1>1
  <2>2. ASSUME NEW x
        PROVE  x \in {y \in Elems(s) : y <= s[i]} <=> \E j \in 1..i : s[j] = x
    <3>1. ASSUME x \in Elems(s), x <= s[i] PROVE \E j \in 1..i : s[j] = x
      <4>1. PICK j \in 1..Len(s) : s[j] = x
        BY <1>1, <3>1 DEF Elems, In
      <4>2. ~(i < j)
        <5>1. s[i] \in Nat /\ s[j] \in Nat /\ s[j] <= s[i]
          BY <1>1, <3>1, <4>1
        <5> QED BY <1>2, <5>1
      <4>3. j \in 1..i
        BY <1>1, <4>2
      <4> QED BY <4>1, <4>3
    <3>2. ASSUME NEW j \in 1..i, s[j] = x PROVE x \in Elems(s) /\ x <= s[i]
      <4>1. j \in 1..Len(s) /\ (j < i \/ j = i)
        BY <1>1
      <4>2. s[j] <= s[i]
        BY <1>1, <1>2, <4>1
      <4> QED BY <1>1, <3>2, <4>1, <4>2 DEF Elems, In
    <3> QED BY <3>1, <3>2
  <2>3. PICK S : S = {y \in Elems(s) : y <= s[i]}
    OBVIOUS
  <2>4. \A x : x \in S <=> \E j \in 1..i : s[j] = x
    BY <2>2, <2>3
  <2>5. Cardinality(S) = i
    BY <1>3, <2>1, <2>4
  <2> QED BY <2>3, <2>5
<1>5. IsFiniteSet(Elems(s)) /\ Cardinality(Elems(s)) = Len(s)
  <2>1. Len(s) \in 0..Len(s)
    BY <1>1
  <2>2. \A x : x \in Elems(s) <=> \E j \in 1..Len(s) : s[j] = x
    BY <1>1 DEF Elems, In
  <2> QED BY <1>3, <2>1, <2>2
<1> QED BY <1>4, <1>5

\* Of increasing sequences, one is a prefix of another when it has, of the other's numbers,
\* with each one all that are less.
LEMMA PrefixBySets ==
    ASSUME NEW s \in Seq(Nat), NEW t \in Seq(Nat), Increasing(s), Increasing(t),
           \A n \in Nat : In(s, n) => In(t, n),
           \A n, m \in Nat : In(s, n) /\ In(t, m) /\ m <= n => In(s, m)
    PROVE  Feed!IsPrefixOf(s, t)
<1>1. /\ DOMAIN s = 1..Len(s) /\ Len(s) \in Nat /\ DOMAIN t = 1..Len(t) /\ Len(t) \in Nat
      /\ \A i \in 1..Len(s) : s[i] \in Nat
      /\ \A i \in 1..Len(t) : t[i] \in Nat
  OBVIOUS
<1>2. ASSUME NEW i \in 1..Len(s)
      PROVE  i \in 1..Len(t) /\ t[i] = s[i]
  <2>1. s[i] \in Nat /\ In(s, s[i])
    BY <1>1 DEF In
  <2>2. PICK j \in 1..Len(t) : t[j] = s[i]
    BY <1>1, <2>1 DEF In
  <2>3. {x \in Elems(s) : x <= s[i]} = {x \in Elems(t) : x <= t[j]}
    <3>1. \A x \in Nat : x <= s[i] => (In(s, x) <=> In(t, x))
      BY <2>1
    <3> QED BY <2>2, <3>1 DEF Elems
  <2>4. /\ Cardinality({x \in Elems(s) : x <= s[i]}) = i
        /\ Cardinality({x \in Elems(t) : x <= t[j]}) = j
    BY Counted
  <2>5. i = j
    BY <2>3, <2>4
  <2> QED BY <2>2, <2>5
<1>3. Len(s) <= Len(t)
  <2>1. CASE Len(s) = 0
    BY <1>1, <2>1
  <2>2. CASE Len(s) # 0
    <3>1. Len(s) \in 1..Len(s)
      BY <1>1, <2>2
    <3>2. Len(s) \in 1..Len(t)
      BY <1>2, <3>1
    <3> QED BY <1>1, <3>2
  <2> QED BY <2>1, <2>2
<1>4. PICK u : u = SubSeq(t, 1, Len(s))
  OBVIOUS
<1>5. u \in Seq(Nat) /\ Len(u) = Len(s) /\ \A i \in 1..Len(s) : u[i] = t[i]
  <2>1. \A i \in 1..Len(s) : t[i] \in Nat
    BY <1>1, <1>2
  <2>2. /\ u \in Seq(Nat)
        /\ Len(u) = IF 1 <= Len(s) THEN Len(s) - 1 + 1 ELSE 0
        /\ \A i \in 1..(Len(s) - 1 + 1) : u[i] = t[1 + i - 1]
    BY <1>1, <1>4, <2>1, SubSeqProperties
  <2>3. Len(u) = Len(s)
    BY <1>1, <2>2
  <2>4. ASSUME NEW i \in 1..Len(s) PROVE u[i] = t[i]
    <3>1. i \in 1..(Len(s) - 1 + 1) /\ 1 + i - 1 = i
      BY <1>1
    <3> QED BY <2>2, <3>1
  <2> QED BY <2>2, <2>3, <2>4
<1>6. s = u
  <2>1. \A i \in 1..Len(s) : s[i] = u[i]
    BY <1>2, <1>5
  <2> QED BY <1>5, <2>1, SeqEqual
<1> QED BY <1>3, <1>4, <1>6 DEF Feed!IsPrefixOf

\* Increasing sequences with the same numbers are the same.
LEMMA SameBySets ==
    ASSUME NEW s \in Seq(Nat), NEW t \in Seq(Nat), Increasing(s), Increasing(t),
           \A n \in Nat : In(s, n) <=> In(t, n)
    PROVE  s = t
<1>1. Feed!IsPrefixOf(s, t) /\ Feed!IsPrefixOf(t, s)
  BY PrefixBySets
<1>2. Len(s) = Len(t)
  <2>1. Len(s) \in Nat /\ Len(t) \in Nat
    OBVIOUS
  <2>2. Len(s) <= Len(t) /\ Len(t) <= Len(s)
    BY <1>1, Zenon DEF Feed!IsPrefixOf
  <2> QED BY ONLY <2>1, <2>2
<1>3. s = SubSeq(t, 1, Len(t))
  BY <1>1, <1>2 DEF Feed!IsPrefixOf
<1> QED BY <1>3

\* A sequence with one number more, the greatest.
LEMMA OneMore ==
    ASSUME NEW s \in Seq(Nat), NEW t \in Seq(Nat), Increasing(s), Increasing(t), NEW m \in Nat,
           \A n \in Nat : In(t, n) <=> In(s, n) \/ n = m,
           \A n \in Nat : In(s, n) => n < m
    PROVE  Len(t) = Len(s) + 1 /\ Feed!IsPrefixOf(s, t)
<1>1. Feed!IsPrefixOf(s, t)
  <2>1. \A n, k \in Nat : In(s, n) /\ In(t, k) /\ k <= n => In(s, k)
    BY Zenon, SMT
  <2> QED BY <2>1, PrefixBySets
<1>2. Elems(t) = Elems(s) \cup {m} /\ m \notin Elems(s)
  BY DEF Elems
<1>3. /\ IsFiniteSet(Elems(s)) /\ Cardinality(Elems(s)) = Len(s)
      /\ Cardinality(Elems(t)) = Len(t)
  BY Counted
<1> QED BY <1>1, <1>2, <1>3, FS_AddElement

-----------------------------------------------------------------------------
(* The record: what list_bus_events reads *)

\* What list_bus_events(0) reads are the kept events, in order.
Recorded ==
    /\ ListBusEvents(0) \in Seq(Nat)
    /\ Increasing(ListBusEvents(0))
    /\ \A n : In(ListBusEvents(0), n) <=> n \in KeptSeqs /\ n > 0

\* It is so whatever the writers do.
LEMMA RecordIs == TypeInv => Recorded
BY Listed DEF TypeInv, Recorded

\* A step leaves the file as it is, adds a line, or glues one to an unfinished one.
LEMMA FileStep ==
    ASSUME TypeInv, [Next]_vars
    PROVE  \/ file' = file
           \/ /\ Persist \/ ServerRestart
              /\ \E x : GrowsBy(x)
           \/ /\ file' = [file EXCEPT ![Len(file)] = Garbage]
              /\ lapses' # {}
<1>1. counter \in Nat /\ torn \in BOOLEAN
  BY OrderOfInv DEF TypeInv
<1>2. \A kind \in Kinds : [seq |-> counter, kind |-> kind] \in Lines
  BY <1>1, LogAssumption DEF Lines
<1>3. Garbage \in Lines /\ Garbage.kind = "garbage"
  BY DEF Garbage, Lines
<1>4. ~NobodyHolds => counter # 0
  BY DEF TypeInv, IInv, LogSeqsIncrease
<1>5. ASSUME Persist \/ ServerRestart
      PROVE  \/ file' = file
             \/ \E kind \in Kinds : /\ counter # 0
                                    /\ \/ file' = AppendLine([seq |-> counter, kind |-> kind])
                                       \/ file' = AppendLine(Garbage)
  <2>1. CASE \E e \in Emitters : GetWriter(e)
    BY <2>1 DEF GetWriter
  <2>2. CASE \E e \in Emitters : WriteFails(e)
    <3>1. PICK e \in Emitters : WriteFails(e)
      BY <2>2
    <3>2. counter # 0
      BY <1>4, <3>1 DEF WriteFails, NobodyHolds
    <3>3. PICK kind \in Kinds : Leftover([seq |-> counter, kind |-> kind])
      BY <3>1 DEF WriteFails
    <3> QED BY <3>2, <3>3 DEF Leftover
  <2>3. CASE \E e \in Emitters, kind \in Kinds : Write(e, kind)
    <3>1. PICK e \in Emitters, kind \in Kinds : Write(e, kind)
      BY <2>3
    <3>2. counter # 0
      BY <1>4, <3>1 DEF Write, NobodyHolds
    <3> QED BY <3>1, <3>2 DEF Write
  <2>4. CASE CollectWriters
    BY <2>4 DEF CollectWriters
  <2>5. CASE ServerRestart
    <3>1. CASE NobodyHolds /\ UNCHANGED <<file, torn, tears>>
      BY <3>1
    <3>2. CASE ~NobodyHolds /\ \E kind \in Kinds : Leftover([seq |-> counter, kind |-> kind])
      <4>1. PICK kind \in Kinds : Leftover([seq |-> counter, kind |-> kind])
        BY <3>2
      <4> QED BY <1>4, <3>2, <4>1 DEF Leftover
    <3> QED BY <2>5, <3>1, <3>2 DEF ServerRestart, Restart
  <2> QED BY <1>5, <2>1, <2>2, <2>3, <2>4, <2>5 DEF Persist
<1>6. CASE (Persist \/ ServerRestart) /\ ~torn
  <2>1. \A line : AppendLine(line) = Append(file, line)
    BY <1>6 DEF AppendLine
  <2>2. \A line \in Lines : /\ counter # 0 /\ file' = Append(file, line)
                            /\ line.seq = counter \/ line.kind = "garbage"
                            => GrowsBy(line)
    BY <1>6 DEF GrowsBy
  <2>3. CASE \E kind \in Kinds : /\ counter # 0
                                 /\ file' = AppendLine([seq |-> counter, kind |-> kind])
    <3>1. PICK kind \in Kinds : counter # 0 /\ file' = AppendLine([seq |-> counter, kind |-> kind])
      BY <2>3
    <3>2. GrowsBy([seq |-> counter, kind |-> kind])
      BY <1>2, <2>1, <2>2, <3>1
    <3> QED BY <1>6, <3>2
  <2>4. CASE counter # 0 /\ file' = AppendLine(Garbage)
    <3>1. GrowsBy(Garbage)
      BY <1>3, <2>1, <2>2, <2>4
    <3> QED BY <1>6, <3>1
  <2> QED BY <1>5, <1>6, <2>3, <2>4
<1>7. CASE (Persist \/ ServerRestart) /\ torn /\ file' # file
  <2>1. file' = [file EXCEPT ![Len(file)] = Garbage]
    BY <1>5, <1>7 DEF AppendLine
  <2>2. "glued" \in lapses'
    BY <1>7 DEF Persist, ServerRestart, Glued
  <2> QED BY <2>1, <2>2
<1>8. CASE ~(Persist \/ ServerRestart)
  <2>1. CASE \E e \in Emitters : Broadcast(e)
    BY <2>1 DEF Broadcast, Finish
  <2>2. CASE Forward \/ (\E t \in Tasks : ReplayStep(t)) \/ CoolDown \/ Command
    BY <2>2 DEF Forward, Receive, ForwardSend, ForwardMark, Catchup, ReplayStep, ReadLog,
                ReplayEvent, FlushEvent, Drain, SendFullReload, CoolDown, Command, Subscribe,
                Unsubscribe, Load, Respond, TakeRequest, logVars
  <2>3. CASE User \/ Browser \/ Disconnect \/ Reconnect
    BY <2>3 DEF User, OpenRun, OpenNewRun, Repeat, CloseRun, Browser, ReceiveEvent, FlushBatch,
                ReceiveLoaded, ReceiveReload, TakeFrame, Disconnect, Reconnect, logVars
  <2>4. CASE UNCHANGED vars
    BY <2>4 DEF vars, logVars
  <2> QED BY <1>8, <2>1, <2>2, <2>3, <2>4 DEF Next
<1> QED BY <1>1, <1>6, <1>7, <1>8

\* What is kept stays as it is, or is more or less by the newest event.
LEMMA RecordStep ==
    ASSUME TypeInv, [Next]_vars
    PROVE  \/ KeptSeqs' = KeptSeqs
           \/ \E c \in Nat : /\ Persist \/ ServerRestart
                             /\ ~torn
                             /\ \A n : n \in KeptSeqs' <=> n \in KeptSeqs \/ n = c
                             /\ \A n \in Nat : Known(n) => n < c
                             /\ \A n \in KeptSeqs : n < c
           \/ \E c \in Nat : /\ lapses' # {}
                             /\ \A n : n \in KeptSeqs <=> n \in KeptSeqs' \/ n = c
                             /\ \A n \in KeptSeqs' : n < c
<1>1. CASE file' = file
  BY <1>1 DEF KeptSeqs, KeptLines
<1>2. CASE (Persist \/ ServerRestart) /\ \E x : GrowsBy(x)
  <2>1. PICK x : GrowsBy(x)
    BY <1>2
  <2>2. /\ counter \in Nat
        /\ \A n \in Nat : Known(n) => n < counter
        /\ \A n \in KeptSeqs : n < counter
        /\ \A n : n \in KeptSeqs' <=> n \in KeptSeqs \/ (x.kind = "kept" /\ n = counter)
    BY <2>1, Grown
  <2>3. ~torn
    BY <2>1 DEF GrowsBy
  <2>4. CASE x.kind = "kept"
    BY <1>2, <2>2, <2>3, <2>4
  <2>5. CASE x.kind # "kept"
    <3>1. KeptSeqs' = KeptSeqs
      BY <2>2, <2>5
    <3> QED BY <3>1
  <2> QED BY <2>4, <2>5
<1>3. CASE file' = [file EXCEPT ![Len(file)] = Garbage] /\ lapses' # {}
  <2>1. /\ file \in Seq(Lines) /\ DOMAIN file = 1..Len(file) /\ Len(file) \in Nat
        /\ \A i, j \in Parse(file) : i < j => file[i].seq < file[j].seq
    BY OrderOfInv DEF TypeInv
  <2>2. PICK l : l = Len(file)
    OBVIOUS
  <2>3. /\ DOMAIN file' = DOMAIN file
        /\ \A i \in DOMAIN file : i # l => file'[i] = file[i]
        /\ l \in DOMAIN file => file'[l].kind = "garbage"
    <3>1. file' = [file EXCEPT ![l] = Garbage]
      BY <1>3, <2>2
    <3> QED BY <3>1 DEF Garbage
  <2>4. \A n : n \in KeptSeqs <=> \E i \in DOMAIN file : file[i].kind = "kept" /\ n = file[i].seq
    BY DEF KeptSeqs, KeptLines
  <2>5. \A n : n \in KeptSeqs' <=> \E i \in DOMAIN file : i # l /\ file[i].kind = "kept" /\ n = file[i].seq
    <3>1. \A n : n \in KeptSeqs' <=> \E i \in DOMAIN file' : file'[i].kind = "kept" /\ n = file'[i].seq
      BY DEF KeptSeqs, KeptLines
    <3> QED BY <2>3, <3>1
  <2>6. CASE l \in DOMAIN file /\ file[l].kind = "kept"
    <3>1. PICK c : c = file[l].seq
      OBVIOUS
    <3>2. c \in Nat
      <4>1. file[l] \in Lines
        BY <2>1, <2>6, ElementAt
      <4> QED BY <3>1, <4>1 DEF Lines
    <3>3. \A n : n \in KeptSeqs <=> n \in KeptSeqs' \/ n = c
      BY <2>4, <2>5, <2>6, <3>1
    <3>4. ASSUME NEW n \in KeptSeqs' PROVE n < c
      <4>1. PICK i \in DOMAIN file : i # l /\ file[i].kind = "kept" /\ n = file[i].seq
        BY <2>5, <3>4
      <4>2. i \in Parse(file) /\ l \in Parse(file)
        BY <2>6, <4>1 DEF Parse
      <4>3. i < l
        BY <2>1, <2>2, <4>1
      <4> QED BY <2>1, <3>1, <4>1, <4>2, <4>3
    <3> QED BY <1>3, <3>2, <3>3, <3>4
  <2>7. CASE ~(l \in DOMAIN file /\ file[l].kind = "kept")
    <3>1. \A i \in DOMAIN file : file[i].kind = "kept" => i # l
      BY <2>7
    <3>2. \A n : n \in KeptSeqs' <=> n \in KeptSeqs
      BY <2>4, <2>5, <3>1
    <3>3. KeptSeqs' = KeptSeqs
      BY <3>2
    <3> QED BY <3>3
  <2> QED BY <2>6, <2>7
<1> QED BY <1>1, <1>2, <1>3, FileStep

-----------------------------------------------------------------------------
(* The view: what is shown of the record *)

\* What the view shows to the feed.
FeedShown == IF Held THEN ShownSeqs ELSE <<>>

\* A held view shows the kept events up to the newest it has processed, in order.
ViewShown ==
    /\ FeedShown \in Seq(Nat)
    /\ Increasing(FeedShown)
    /\ \A n : In(FeedShown, n) <=>
                  Held /\ n \in KeptSeqs /\ n > 0 /\ n <= store.processed

\* It is so by the invariants of the delivery.
LEMMA ShownIs == TypeInv /\ CleanInv => ViewShown
<1> SUFFICES ASSUME TypeInv, CleanInv PROVE ViewShown
  OBVIOUS
<1>1. CASE ~Held
  <2>1. FeedShown = <<>>
    BY <1>1 DEF FeedShown
  <2>2. <<>> \in Seq(Nat) /\ Increasing(<<>>) /\ \A n : ~In(<<>>, n)
    BY DEF Increasing, In
  <2> QED BY <1>1, <2>1, <2>2 DEF ViewShown
<1>2. CASE Held
  <2> DEFINE number == [i \in KeptShown |-> store.shown[i]]
  <2>1. FeedShown = ShownSeqs
    BY <1>2 DEF FeedShown
  <2>2. DeliveryInv /\ ViewInOrder
    BY <1>2 DEF Held, CleanInv, Clean, DeliveryInv, ViewInv
  <2>3. store.shown \in Seq(Nat) /\ store.processed \in Nat
    BY Facts
  <2>4. DOMAIN store.shown = 1..Len(store.shown) /\ Len(store.shown) \in Nat
    BY <2>3
  <2>5. KeptShown \in SUBSET (1..Len(store.shown))
    BY <2>4 DEF KeptShown
  <2>6. \A i \in KeptShown : store.shown[i] \in Nat
    BY <2>3, ElementAt DEF KeptShown
  <2>7. number \in [KeptShown -> Nat] /\ \A i \in KeptShown : number[i] = store.shown[i]
    BY <2>6
  <2>8. \A k \in 1..Cardinality(KeptShown) : (CHOOSE i \in KeptShown : Rank(KeptShown, i) = k) \in KeptShown
    BY <2>4, <2>5, Ranks
  <2> HIDE DEF number
  <2>9. \A i, j \in KeptShown : i < j => number[i] < number[j]
    BY <2>2, <2>7 DEF ViewInOrder, Increasing, KeptShown
  <2>10. /\ NumbersAt(number, KeptShown) \in Seq(Nat)
         /\ Increasing(NumbersAt(number, KeptShown))
         /\ \A x : In(NumbersAt(number, KeptShown), x) <=> \E i \in KeptShown : number[i] = x
    <3>1. PICK l, lines, f : l = Len(store.shown) /\ lines = KeptShown /\ f = number
      OBVIOUS
    <3>2. l \in Nat
      BY <2>4, <3>1
    <3>3. /\ lines \in SUBSET (1..l) /\ f \in [lines -> Nat]
          /\ \A i, j \in lines : i < j => f[i] < f[j]
      BY <2>5, <2>7, <2>9, <3>1
    <3>4. \A g : /\ lines \in SUBSET (1..l) /\ g \in [lines -> Nat]
                 /\ \A i, j \in lines : i < j => g[i] < g[j]
                 => /\ NumbersAt(g, lines) \in Seq(Nat)
                    /\ Increasing(NumbersAt(g, lines))
                    /\ \A x : In(NumbersAt(g, lines), x) <=> \E i \in lines : g[i] = x
      BY <3>2, Selected, Zenon
    <3>5. /\ NumbersAt(f, lines) \in Seq(Nat)
          /\ Increasing(NumbersAt(f, lines))
          /\ \A x : In(NumbersAt(f, lines), x) <=> \E i \in lines : f[i] = x
      BY ONLY <3>3, <3>4, Zenon
    <3> QED BY <3>1, <3>5
  <2>11. ShownSeqs = NumbersAt(number, KeptShown)
    BY <2>7, <2>8 DEF ShownSeqs, NumbersAt
  <2>12. \A x : In(ShownSeqs, x) <=> x \in KeptSeqs /\ In(store.shown, x)
    <3>1. \A x : (\E i \in KeptShown : number[i] = x) <=> x \in KeptSeqs /\ In(store.shown, x)
      BY <2>7 DEF KeptShown, In
    <3> QED BY <2>10, <2>11, <3>1
  <2>13. \A x \in KeptSeqs : In(store.shown, x) <=> x > 0 /\ x <= store.processed
    <3> TAKE x \in KeptSeqs
    <3>1. x \in Nat /\ x # 0
      BY <2>2, Facts DEF DeliveryInv, NumbersInv
    <3>2. In(store.shown, x) => x <= store.processed
      BY <2>2, <3>1 DEF ViewInOrder
    <3>3. x <= store.processed => In(store.shown, x)
      <4>1. NothingSkipped
        BY <1>2, FaithfulByInv DEF ViewIsFaithful
      <4> QED BY <4>1 DEF NothingSkipped, Shown, In
    <3> QED BY <3>1, <3>2, <3>3
  <2> QED BY <1>2, <2>1, <2>10, <2>11, <2>12, <2>13 DEF ViewShown
<1> QED BY <1>1, <1>2

\* What a held view has processed is known, so that a new event is later.
LEMMA ProcessedIsKnown ==
    ASSUME TypeInv, CleanInv, Held,
           NEW c \in Nat, \A n \in Nat : Known(n) => n < c
    PROVE  store.processed < c
<1>1. DeliveryInv /\ ViewInOrder
  BY DEF Held, CleanInv, Clean, DeliveryInv, ViewInv
<1>2. store.processed \in Nat /\ transport.lastSeq \in Nat
  BY Facts
<1>3. Known(transport.lastSeq)
  BY <1>1, <1>2 DEF DeliveryInv, NumbersInv, Around
<1>4. transport.lastSeq < c
  BY <1>2, <1>3
<1>5. store.processed <= transport.lastSeq
  BY <1>1 DEF ViewInOrder
<1> QED BY <1>2, <1>4, <1>5

\* A connection that is lost leaves an open view as it is.
LEMMA ViewAfterDrop ==
    ASSUME TypeInv, DropConnection
    PROVE  /\ store'.processed = store.processed
           /\ store'.phase = "open" <=> store.phase = "open"
           /\ ~ReloadPending'
<1>1. store \in [phase : StorePhases, processed : Nat, shown : Seq(Nat), gen : Nat,
                 reloading : Nat]
  BY Facts
<1>2. store' = [store EXCEPT !.reloading = 0,
                             !.phase = IF @ = "loading" THEN "failed" ELSE @]
  BY DEF DropConnection
<1>3. store'.processed = store.processed /\ (store'.phase = "open" <=> store.phase = "open")
  BY <1>1, <1>2
<1>4. ~ReloadPending'
  <2>1. down' = <<>> /\ task' = [t \in Tasks |-> Resting]
    BY DEF DropConnection
  <2>2. \A t \in Tasks : task'[t].pc # "reload"
    BY <2>1 DEF Resting
  <2>3. DOMAIN down' = {}
    BY <2>1
  <2> QED BY <2>2, <2>3 DEF ReloadPending
<1> QED BY <1>3, <1>4

\* A view that is held before and after a step has not gone back.
LEMMA ViewGrows ==
    ASSUME TypeInv, CleanInv, [Next]_vars, Held, Held'
    PROVE  store.processed <= store'.processed
<1>1. /\ store \in [phase : StorePhases, processed : Nat, shown : Seq(Nat), gen : Nat,
                    reloading : Nat]
      /\ store.processed \in Nat /\ store.phase = "open" /\ store'.phase = "open"
  BY Facts DEF Held
<1>2. ViewInOrder
  BY DEF Held, CleanInv, Clean, DeliveryInv, ViewInv
<1>3. CASE store' = store
  BY <1>1, <1>3
<1>4. CASE FlushBatch
  <2>1. store'.processed \in Nat /\ In(batch, store'.processed)
    BY <1>2, <1>4, BatchShown
  <2>2. store.processed < store'.processed
    BY <1>2, <2>1 DEF ViewInOrder
  <2> QED BY <1>1, <2>1, <2>2
<1>5. CASE ReceiveLoaded
  <2>1. \/ store' = store
        \/ store' = [store EXCEPT !.reloading = 0]
    BY <1>1, <1>5 DEF ReceiveLoaded
  <2> QED BY <1>1, <2>1
<1>6. CASE DropConnection
  BY <1>1, <1>6, ViewAfterDrop
<1>7. CASE OpenRun \/ OpenNewRun
  BY <1>1, <1>7 DEF OpenRun, OpenNewRun
<1>8. CASE CloseRun
  <2>1. store'.phase = "closed"
    BY <1>1, <1>8 DEF CloseRun
  <2> QED BY <1>1, <2>1
<1>9. CASE ReceiveReload
  <2>1. store' = store \/ store'.phase = "loading"
    BY <1>9 DEF ReceiveReload, LoadRun
  <2> QED BY <1>1, <1>3, <2>1
<1>10. \/ store' = store
       \/ FlushBatch \/ ReceiveLoaded \/ DropConnection \/ OpenRun \/ OpenNewRun \/ CloseRun
       \/ ReceiveReload
  <2>1. CASE Persist
    BY <2>1 DEF Persist, clientVars
  <2>2. CASE \E e \in Emitters : Broadcast(e)
    BY <2>2 DEF Broadcast, clientVars
  <2>3. CASE Forward \/ CoolDown \/ Command
    BY <2>3 DEF Forward, Receive, ForwardSend, ForwardMark, Catchup, CoolDown, Command, Subscribe,
                Unsubscribe, Load, Respond, TakeRequest, clientVars
  <2>4. CASE \E t \in Tasks : ReplayStep(t)
    BY <2>4 DEF ReplayStep, ReadLog, ReplayEvent, FlushEvent, Drain, SendFullReload, clientVars
  <2>5. CASE User
    BY <2>5 DEF User, Repeat
  <2>6. CASE Browser
    BY <2>6 DEF Browser, ReceiveEvent
  <2>7. CASE Disconnect \/ ServerRestart \/ Reconnect
    BY <2>7 DEF Disconnect, ServerRestart, Reconnect
  <2>8. CASE UNCHANGED vars
    BY <2>8 DEF vars, deliveryVars, clientVars
  <2> QED BY <2>1, <2>2, <2>3, <2>4, <2>5, <2>6, <2>7, <2>8 DEF Next
<1> QED BY <1>3, <1>4, <1>5, <1>6, <1>7, <1>8, <1>9, <1>10

\* A line that follows a whole one leaves the view as it was.
LEMMA ViewStaysHeld ==
    ASSUME TypeInv, Persist \/ ServerRestart, ~torn
    PROVE  /\ Held' <=> Held
           /\ store'.processed = store.processed
<1>1. Glued = {}
  BY DEF Glued
<1>2. CASE Persist
  <2>1. lapses' = lapses /\ store' = store /\ down' = down /\ task' = task
    BY <1>1, <1>2 DEF Persist, clientVars, serverVars
  <2>2. ReloadPending' <=> ReloadPending
    BY <2>1 DEF ReloadPending
  <2> QED BY <2>1, <2>2 DEF Held
<1>3. CASE ServerRestart
  <2>1. DropConnection /\ lapses' = lapses \cup ReloadLost
    BY <1>1, <1>3 DEF ServerRestart
  <2>2. /\ store'.processed = store.processed
        /\ store'.phase = "open" <=> store.phase = "open"
        /\ ~ReloadPending'
    BY <2>1, ViewAfterDrop
  <2>3. lapses' = {} <=> lapses = {} /\ ~ReloadPending
    BY <2>1 DEF ReloadLost
  <2> QED BY <2>2, <2>3 DEF Held
<1> QED BY <1>2, <1>3

-----------------------------------------------------------------------------
(* The refinement of EventFeed *)

\* The steps of the feed, by what is recorded and shown before and after.
LEMMA FeedMoves ==
    ASSUME NEW r, NEW r2, NEW v, NEW v2,
           ListBusEvents(0) = r, ListBusEvents(0)' = r2, FeedShown = v, FeedShown' = v2,
           \/ Len(r2) = Len(r) + 1 /\ Feed!IsPrefixOf(r, r2) /\ v2 = v
           \/ Feed!IsPrefixOf(v2, r) /\ Feed!IsPrefixOf(v, v2) /\ r2 = r
           \/ v2 = <<>> /\ r2 = r
           \/ Len(r) = Len(r2) + 1 /\ Feed!IsPrefixOf(r2, r) /\ v2 = <<>>
    PROVE  Feed!Next
<1>1. v = IF Held THEN ShownSeqs ELSE <<>>
  BY DEF FeedShown
<1>2. v2 = (IF Held THEN ShownSeqs ELSE <<>>)'
  BY DEF FeedShown
<1>3. CASE Len(r2) = Len(r) + 1 /\ Feed!IsPrefixOf(r, r2) /\ v2 = v
  <2>1. Feed!RecordEvent
    BY <1>1, <1>2, <1>3 DEF Feed!RecordEvent
  <2> QED BY <2>1 DEF Feed!Next
<1>4. CASE Feed!IsPrefixOf(v2, r) /\ Feed!IsPrefixOf(v, v2) /\ r2 = r
  <2>1. Feed!ShowMore
    BY <1>1, <1>2, <1>4 DEF Feed!ShowMore
  <2> QED BY <2>1 DEF Feed!Next
<1>5. CASE v2 = <<>> /\ r2 = r
  <2>1. Feed!Clear
    BY <1>1, <1>2, <1>5 DEF Feed!Clear
  <2> QED BY <2>1 DEF Feed!Next
<1>6. CASE Len(r) = Len(r2) + 1 /\ Feed!IsPrefixOf(r2, r) /\ v2 = <<>>
  <2>1. Feed!LoseNewest
    BY <1>1, <1>2, <1>6 DEF Feed!LoseNewest
  <2> QED BY <2>1 DEF Feed!Next
<1> QED BY <1>3, <1>4, <1>5, <1>6

\* A step of the delivery is a step of the feed.
LEMMA FeedStep ==
    ASSUME TypeInv, CleanInv, [Next]_vars,
           Recorded, Recorded', ViewShown, ViewShown'
    PROVE  Feed!Next
<1>1. PICK r : r = ListBusEvents(0)
  OBVIOUS
<1>2. PICK r2 : r2 = ListBusEvents(0)'
  OBVIOUS
<1>3. PICK v : v = FeedShown
  OBVIOUS
<1>4. PICK v2 : v2 = FeedShown'
  OBVIOUS
<1>5. /\ r \in Seq(Nat) /\ Increasing(r)
      /\ \A n : In(r, n) <=> n \in KeptSeqs /\ n > 0
  BY <1>1 DEF Recorded
<1>6. /\ r2 \in Seq(Nat) /\ Increasing(r2)
      /\ \A n : In(r2, n) <=> n \in KeptSeqs' /\ n > 0
  BY <1>2 DEF Recorded
<1>7. /\ v \in Seq(Nat) /\ Increasing(v)
      /\ \A n : In(v, n) <=> Held /\ n \in KeptSeqs /\ n > 0 /\ n <= store.processed
  BY <1>3 DEF ViewShown
<1>8. /\ v2 \in Seq(Nat) /\ Increasing(v2)
      /\ \A n : In(v2, n) <=> Held' /\ n \in KeptSeqs' /\ n > 0 /\ n <= store'.processed
  BY <1>4 DEF ViewShown
<1>9. ~Held' => v2 = <<>>
  BY <1>4 DEF FeedShown
<1>10. \A n \in KeptSeqs : n \in Nat
  BY Facts
<1>11. CASE KeptSeqs' = KeptSeqs
  <2>1. r2 = r
    BY <1>5, <1>6, <1>11, SameBySets
  <2>2. CASE ~Held'
    BY <1>1, <1>2, <1>3, <1>4, <1>9, <2>1, <2>2, FeedMoves
  <2>3. CASE Held'
    <3>1. store.processed \in Nat /\ store'.processed \in Nat /\ (Held => store.processed <= store'.processed)
      <4>1. store.processed \in Nat
        BY Facts
      <4>2. store'.processed \in Nat
        <5>1. TypeInv'
          BY NextTypes
        <5>2. store' \in [phase : StorePhases, processed : Nat, shown : Seq(Nat), gen : Nat,
                          reloading : Nat]
          BY <5>1 DEF TypeInv, DeliveryTypes
        <5> QED BY <5>2
      <4> QED BY <2>3, <4>1, <4>2, ViewGrows
    <3>2. Feed!IsPrefixOf(v2, r)
      <4>1. \A n \in Nat : In(v2, n) => In(r, n)
        BY <1>5, <1>8, <1>11
      <4>2. \A n, m \in Nat : In(v2, n) /\ In(r, m) /\ m <= n => In(v2, m)
        BY <1>5, <1>8, <1>11, <2>3, <3>1
      <4> QED BY <1>5, <1>8, <4>1, <4>2, PrefixBySets
    <3>3. Feed!IsPrefixOf(v, v2)
      <4>1. \A n \in Nat : In(v, n) => In(v2, n)
        BY <1>7, <1>8, <1>11, <2>3, <3>1
      <4>2. \A n, m \in Nat : In(v, n) /\ In(v2, m) /\ m <= n => In(v, m)
        BY <1>7, <1>8, <1>11, <3>1
      <4> QED BY <1>7, <1>8, <4>1, <4>2, PrefixBySets
    <3> QED BY <1>1, <1>2, <1>3, <1>4, <2>1, <3>2, <3>3, FeedMoves
  <2> QED BY <2>2, <2>3
<1>12. ASSUME NEW c \in Nat, Persist \/ ServerRestart, ~torn,
              \A n : n \in KeptSeqs' <=> n \in KeptSeqs \/ n = c,
              \A n \in Nat : Known(n) => n < c,
              \A n \in KeptSeqs : n < c
       PROVE  Feed!Next
  <2>1. (Held' <=> Held) /\ store'.processed = store.processed /\ store.processed \in Nat
    BY <1>12, ViewStaysHeld, Facts
  <2>2. Held => store.processed < c
    BY <1>12, ProcessedIsKnown
  <2>3. v2 = v
    <3>1. \A n \in Nat : In(v, n) <=> In(v2, n)
      BY <1>7, <1>8, <1>12, <2>1, <2>2
    <3> QED BY <1>7, <1>8, <3>1, SameBySets
  <2>4. c # 0
    <3>1. Known(0)
      BY DEF Known
    <3> QED BY <1>12, <3>1
  <2>5. \A n \in Nat : In(r2, n) <=> In(r, n) \/ n = c
    BY <1>5, <1>6, <1>12, <2>4
  <2>6. \A n \in Nat : In(r, n) => n < c
    BY <1>5, <1>12
  <2>7. Len(r2) = Len(r) + 1 /\ Feed!IsPrefixOf(r, r2)
    BY <1>5, <1>6, <2>5, <2>6, OneMore
  <2> QED BY <1>1, <1>2, <1>3, <1>4, <2>3, <2>7, FeedMoves
<1>13. ASSUME NEW c \in Nat, lapses' # {},
              \A n : n \in KeptSeqs <=> n \in KeptSeqs' \/ n = c,
              \A n \in KeptSeqs' : n < c
       PROVE  Feed!Next
  <2>1. v2 = <<>>
    BY <1>9, <1>13 DEF Held
  <2>2. CASE c = 0
    <3>1. \A n \in Nat : In(r2, n) <=> In(r, n)
      BY <1>5, <1>6, <1>13, <2>2
    <3>2. r2 = r
      BY <1>5, <1>6, <3>1, SameBySets
    <3> QED BY <1>1, <1>2, <1>3, <1>4, <2>1, <3>2, FeedMoves
  <2>3. CASE c # 0
    <3>1. \A n \in Nat : In(r, n) <=> In(r2, n) \/ n = c
      BY <1>5, <1>6, <1>13, <2>3
    <3>2. \A n \in Nat : In(r2, n) => n < c
      BY <1>6, <1>13
    <3>3. Len(r) = Len(r2) + 1 /\ Feed!IsPrefixOf(r2, r)
      BY <1>5, <1>6, <3>1, <3>2, OneMore
    <3> QED BY <1>1, <1>2, <1>3, <1>4, <2>1, <3>3, FeedMoves
  <2> QED BY <2>2, <2>3
<1> QED BY <1>11, <1>12, <1>13, RecordStep

\* At first nothing is recorded or shown.
LEMMA InitFeed == Init => Feed!Init
<1> SUFFICES ASSUME Init PROVE Feed!Init
  OBVIOUS
<1>1. PICK r : r = ListBusEvents(0)
  OBVIOUS
<1>2. r = <<>>
  <2>1. /\ r \in Seq(Nat)
        /\ \A n : In(r, n) <=> n \in KeptSeqs /\ n > 0
    BY <1>1, InitTypes, RecordIs DEF Recorded
  <2>2. KeptSeqs = {}
    BY DEF Init, LogInit, KeptSeqs, KeptLines
  <2>3. \A n : ~In(r, n)
    BY <2>1, <2>2
  <2>4. Len(r) \in Nat /\ DOMAIN r = 1..Len(r)
    BY <2>1
  <2>5. Len(r) = 0
    <3>1. ASSUME Len(r) # 0 PROVE FALSE
      <4>1. 1 \in DOMAIN r
        BY <2>4, <3>1
      <4> QED BY <2>3, <4>1 DEF In
    <3> QED BY <3>1
  <2> QED BY <2>1, <2>5
<1>3. ~Held
  BY DEF Init, Held
<1> QED BY <1>1, <1>2, <1>3 DEF Feed!Init

\* The delivery keeps the promise of EventFeed for any number of emitters, any capacity of
\* the channel and any of the replay buffer: what a held view shows of the kept events is a
\* prefix of what list_bus_events reads, and it grows until the view is cleared.
THEOREM DeliveryImplementsFeed == Spec => ImplementsFeed
<1>1. Init => Feed!Init
  BY InitFeed
<1>2. Init => TypeInv /\ CleanInv
  BY InitTypes, InitClean
<1>3. TypeInv /\ CleanInv /\ [Next]_vars => (TypeInv /\ CleanInv)'
  BY NextTypes, NextClean
<1>4. TypeInv /\ CleanInv => Recorded /\ ViewShown
  BY RecordIs, ShownIs
<1>5. /\ TypeInv /\ CleanInv /\ Recorded /\ ViewShown /\ Recorded' /\ ViewShown'
      /\ [Next]_vars
      => [Feed!Next]_Feed!feedVars
  BY FeedStep
<1> QED BY <1>1, <1>2, <1>3, <1>4, <1>5, PTL DEF Spec, Feed!Spec, ImplementsFeed

=============================================================================
