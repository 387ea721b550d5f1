-------------------------- MODULE CodexThreadProofs --------------------------
(***************************************************************************)
(* The Codex driver and its app-server, for any number of messages,        *)
(* control calls and prompts: types, replies that reach the call they      *)
(* belong to, turns that the actor and the app-server agree on, and        *)
(* settings that reach the thread.                                         *)
(*                                                                         *)
(* Each of the three later parts rests on the types, and the settings on   *)
(* the turns as well: which first turn/start the thread has run is told by *)
(* the order of the lines in the pipes.                                    *)
(***************************************************************************)
EXTENDS CodexThread, Pipes

-----------------------------------------------------------------------------
(* Types *)

Drivers   == [phase : {"Opening", "Ready"}, thread : BOOLEAN, active : 0..MaxTurns,
              nextId : Nat, replay : BOOLEAN]
Servers   == [alive : BOOLEAN, set : Settings, turn : 0..MaxTurns,
              open : SUBSET (1..MaxAsks), asked : 0..MaxAsks, refused : BOOLEAN]
Histories == [framed : SUBSET (1..MaxTurns), want : [1..MaxTurns -> Overrides],
              responses : [1..MaxAsks -> Nat]]

\* What is written: a turn is one of the messages', a prompt one of the app-server's.
Written == {l \in Lines : l.kind = "turn/start" => l.ref \in 1..MaxTurns}
Told    == {l \in Lines : /\ l.kind = "turn/started" => l.ref \in 0..MaxTurns
                          /\ l.kind = "ask" => l.ref \in 1..MaxAsks}

TypeInv ==
    /\ startup \in Startups /\ up \in BOOLEAN
    /\ driver \in Drivers
    /\ pending \subseteq 1..MaxAsks
    /\ clientWaiters \subseteq [id : Nat, call : 1..MaxCalls]
    /\ overrides \in Overrides
    /\ controlWaiters \subseteq 1..MaxCalls
    /\ queue \in Seq(1..MaxTurns) /\ turn \in 0..MaxTurns
    /\ toServer \in Seq(Written) /\ fromServer \in Seq(Told)
    /\ server \in Servers
    /\ sent \in 0..MaxTurns
    /\ calls \in Seq(Calls) /\ Len(calls) <= MaxCalls
    /\ answered \in [1..MaxAsks -> 0..2]
    /\ history \in Histories

\* It says what TypeOK says.
LEMMA TypeInvGives ==
    ASSUME TypeInv
    PROVE  TypeOK
<1>1. \A S, T : S \subseteq T => \A s \in Seq(S) : s \in Seq(T)
  OBVIOUS
<1>2. Written \subseteq Lines /\ Told \subseteq Lines
  BY DEF Written, Told
<1>3. toServer \in Seq(Lines) /\ fromServer \in Seq(Lines)
  BY <1>1, <1>2 DEF TypeInv
<1> QED BY <1>3 DEF TypeInv, TypeOK, Drivers, Servers, Histories

\* The settings of a thread, as they are written and as the app-server keeps them.
LEMMA SettingsTypes ==
    ASSUME startup \in Startups, overrides \in Overrides, driver \in Drivers
    PROVE  /\ NoSettings \in Settings /\ Old \in Settings
           /\ OpenSettings \in Settings /\ TurnSettings \in Settings
           /\ Chosen \in Overrides
<1> USE CodexThreadAssumption DEF Settings, Policies
<1>1. NoSettings \in Settings /\ Old \in Settings
  BY DEF NoSettings, Old
<1>2. \A mode : ApprovalFor(mode) \in {"never", "on-request"}
  BY DEF ApprovalFor
<1>3. startup \in [resume : BOOLEAN, dirs : BOOLEAN, model : {NoVal, "cfg"},
                   effort : {NoVal, "cfg"}, mode : CliModes]
  OBVIOUS
<1>4. \A sandbox \in {"read-only", "workspace-write", "danger-full-access"} :
        PolicyFor(sandbox) \in Policies
  BY <1>3 DEF PolicyFor
<1>5. \A mode : SandboxFor(mode) \in {"read-only", "workspace-write", "danger-full-access"}
  BY DEF SandboxFor
<1>6. OpenSettings \in Settings
  BY <1>2, <1>3, <1>5 DEF OpenSettings
<1>7. /\ Pick("model") \in {NoVal, "cfg", "live"} /\ Pick("effort") \in {NoVal, "cfg", "live"}
      /\ Chosen \in Overrides
  BY <1>3 DEF Pick, Or, Overrides, Chosen
<1>8. TurnSettings \in Settings
  BY <1>2, <1>4, <1>5, <1>7 DEF TurnSettings
<1> QED BY <1>1, <1>6, <1>7, <1>8

LineKinds == {"initialize", "thread/start", "thread/resume", "turn/start",
              "turn/interrupt", "turn/steer", "request", "response",
              "reply", "thread/started", "turn/started", "turn/completed",
              "turn/failed", "error", "ask"}

\* A line is one of Lines, whatever it carries.
LEMMA PlainLine ==
    ASSUME NEW kind \in LineKinds, NEW id \in Nat, NEW ref \in Nat
    PROVE  /\ Line(kind, id, ref) \in Lines
           /\ Line(kind, id, ref).kind = kind
           /\ Line(kind, id, ref).id = id
           /\ Line(kind, id, ref).ref = ref
<1>1. NoSettings \in Settings
  BY DEF NoSettings, Settings
<1> QED BY <1>1 DEF Lines, Line, LineKinds

\* With the settings it carries.
LEMMA SetLine ==
    ASSUME NEW kind \in LineKinds, NEW id \in Nat, NEW ref \in Nat, NEW s \in Settings
    PROVE  /\ [Line(kind, id, ref) EXCEPT !.set = s] \in Lines
           /\ [Line(kind, id, ref) EXCEPT !.set = s].kind = kind
           /\ [Line(kind, id, ref) EXCEPT !.set = s].id = id
           /\ [Line(kind, id, ref) EXCEPT !.set = s].ref = ref
           /\ [Line(kind, id, ref) EXCEPT !.set = s].set = s
<1> DEFINE l == Line(kind, id, ref)
<1>1. l \in Lines /\ l.kind = kind /\ l.id = id /\ l.ref = ref
  BY PlainLine
<1> HIDE DEF l
<1>2. /\ [l EXCEPT !.set = s] \in Lines /\ [l EXCEPT !.set = s].set = s
      /\ [l EXCEPT !.set = s].kind = kind /\ [l EXCEPT !.set = s].id = id
      /\ [l EXCEPT !.set = s].ref = ref
  BY <1>1 DEF Lines
<1> QED BY <1>2 DEF l

\* With the flag of a reply or an error.
LEMMA OkLine ==
    ASSUME NEW kind \in LineKinds, NEW id \in Nat, NEW ref \in Nat, NEW b \in BOOLEAN
    PROVE  /\ [Line(kind, id, ref) EXCEPT !.ok = b] \in Lines
           /\ [Line(kind, id, ref) EXCEPT !.ok = b].kind = kind
           /\ [Line(kind, id, ref) EXCEPT !.ok = b].id = id
           /\ [Line(kind, id, ref) EXCEPT !.ok = b].ref = ref
           /\ [Line(kind, id, ref) EXCEPT !.ok = b].ok = b
<1> DEFINE l == Line(kind, id, ref)
<1>1. l \in Lines /\ l.kind = kind /\ l.id = id /\ l.ref = ref
  BY PlainLine
<1> HIDE DEF l
<1>2. /\ [l EXCEPT !.ok = b] \in Lines /\ [l EXCEPT !.ok = b].ok = b
      /\ [l EXCEPT !.ok = b].kind = kind /\ [l EXCEPT !.ok = b].id = id
      /\ [l EXCEPT !.ok = b].ref = ref
  BY <1>1 DEF Lines
<1> QED BY <1>2 DEF l

\* A new id is taken; the turn known to be active, the thread and the phase change.
LEMMA DriverTypes ==
    ASSUME NEW d \in Drivers
    PROVE  /\ [d EXCEPT !.nextId = @ + 1] \in Drivers
           /\ [d EXCEPT !.nextId = @ + 1, !.replay = FALSE] \in Drivers
           /\ [d EXCEPT !.thread = TRUE, !.phase = "Ready"] \in Drivers
           /\ \A m \in 0..MaxTurns : [d EXCEPT !.active = m] \in Drivers
<1>1. d.nextId + 1 \in Nat
  BY DEF Drivers
<1>2. \A n \in Nat : [d EXCEPT !.nextId = n] \in Drivers
  BY DEF Drivers
<1>3. \A n \in Nat : [d EXCEPT !.nextId = n, !.replay = FALSE] \in Drivers
  BY DEF Drivers
<1>4. [d EXCEPT !.thread = TRUE, !.phase = "Ready"] \in Drivers
  BY DEF Drivers
<1>5. \A m \in 0..MaxTurns : [d EXCEPT !.active = m] \in Drivers
  BY DEF Drivers
<1> QED BY <1>1, <1>2, <1>3, <1>4, <1>5

\* What try_dispatch touches keeps its types.
LEMMA DispatchTypes ==
    ASSUME TypeInv, NEW d \in Drivers, NEW q \in Seq(1..MaxTurns), TryDispatch(d, q)
    PROVE  /\ driver' \in Drivers /\ queue' \in Seq(1..MaxTurns) /\ turn' \in 0..MaxTurns
           /\ toServer' \in Seq(Written) /\ history' \in Histories
<1>t. /\ toServer \in Seq(Written) /\ history \in Histories
      /\ startup \in Startups /\ overrides \in Overrides /\ driver \in Drivers
  BY DEF TypeInv
<1>1. CASE q # <<>> /\ StartUserTurn(d, q)
  <2> DEFINE m == Head(q)
             l == [Line("turn/start", d.nextId, m) EXCEPT !.set = TurnSettings]
  <2>1. m \in 1..MaxTurns /\ Tail(q) \in Seq(1..MaxTurns) /\ m \in Nat
    BY <1>1, Taken, CodexThreadAssumption
  <2>2. d.nextId \in Nat
    BY DEF Drivers
  <2>3. l \in Written
    <3>1. TurnSettings \in Settings
      BY <1>t, SettingsTypes
    <3>2. l \in Lines /\ l.ref = m
      BY <2>1, <2>2, <3>1, SetLine DEF LineKinds
    <3> HIDE DEF l
    <3> QED BY <2>1, <3>2 DEF Written
  <2>4. toServer' = toServer \/ toServer' = Append(toServer, l)
    BY <1>1, <1>t, <2>3, Concat DEF StartUserTurn, Write
  <2> HIDE DEF l
  <2>5. toServer' \in Seq(Written)
    BY <1>t, <2>3, <2>4, Appended
  <2>6. driver' \in Drivers
    <3>1. [d EXCEPT !.nextId = @ + 1, !.replay = FALSE] \in Drivers
      BY DriverTypes
    <3> QED BY <1>1, <3>1 DEF StartUserTurn
  <2>7. history' \in Histories
    <3>1. Chosen \in Overrides
      BY <1>t, SettingsTypes
    <3>2. [history EXCEPT !.framed = @ \cup {m}, !.want[m] = Chosen] \in Histories
      BY <1>t, <2>1, <3>1 DEF Histories
    <3> QED BY <1>1, <1>t, <3>2 DEF StartUserTurn
  <2>8. queue' = Tail(q) /\ turn' \in {0, m}
    BY <1>1 DEF StartUserTurn
  <2>9. 0 \in 0..MaxTurns /\ m \in 0..MaxTurns
    BY <2>1, CodexThreadAssumption
  <2> QED BY <2>1, <2>5, <2>6, <2>7, <2>8, <2>9
<1>2. CASE driver' = d /\ queue' = q /\ turn' = 0 /\ UNCHANGED <<toServer, history>>
  BY <1>2, <1>t, CodexThreadAssumption
<1> QED BY <1>1, <1>2 DEF TryDispatch

\* A line is written to the app-server, or none when it is gone.
LEMMA WriteTypes ==
    ASSUME TypeInv, NEW l \in Written, Write(<<l>>) \/ Write(<<>>)
    PROVE  /\ toServer' \in Seq(Written)
           /\ toServer' = toServer \/ toServer' = Append(toServer, l)
           /\ \A x : In(toServer', x) => In(toServer, x) \/ x = l
           /\ \A L : Has(toServer', L) => Has(toServer, L) \/ l \in L
<1>1. toServer \in Seq(Written)
  BY DEF TypeInv
<1>2. toServer' = toServer \/ toServer' = Append(toServer, l)
  BY <1>1, Concat DEF Write
<1>3. CASE toServer' = toServer
  BY <1>1, <1>3
<1>4. CASE toServer' = Append(toServer, l)
  BY <1>1, <1>4, Appended
<1> QED BY <1>2, <1>3, <1>4

\* The calls, when one more is made and when one is answered.
LEMMA CallsTypes ==
    ASSUME TypeInv
    PROVE  /\ \A r \in Calls : NewCall <= MaxCalls =>
                 Append(calls, r) \in Seq(Calls) /\ Len(Append(calls, r)) <= MaxCalls
           /\ \A n \in DOMAIN calls : \A r \in Calls :
                 /\ [calls EXCEPT ![n] = r] \in Seq(Calls)
                 /\ Len([calls EXCEPT ![n] = r]) <= MaxCalls
           /\ \A n \in DOMAIN calls : calls[n] \in Calls /\ calls[n].sub \in Subtypes
           /\ \A sub \in Subtypes :
                \A got \in {"none", "ok", "noThread", "reply", "timeout", "closed",
                            "writeFailed"} :
                /\ Returned(sub, got) \in Calls /\ Returned(sub, got).got = got
                /\ [Returned(sub, got) EXCEPT !.state = "waiting"] \in Calls
                /\ [Returned(sub, got) EXCEPT !.state = "waiting"].got = got
                /\ \A n \in Nat : [Returned(sub, got) EXCEPT !.of = n] \in Calls
           /\ NewCall \in Nat \ {0} /\ (NewCall <= MaxCalls => NewCall \in 1..MaxCalls)
<1>1. calls \in Seq(Calls) /\ Len(calls) <= MaxCalls /\ MaxCalls \in Nat /\ Len(calls) \in Nat
  BY CodexThreadAssumption DEF TypeInv
<1>2. \A r \in Calls : NewCall <= MaxCalls =>
         Append(calls, r) \in Seq(Calls) /\ Len(Append(calls, r)) <= MaxCalls
  BY <1>1 DEF NewCall
<1>3. ASSUME NEW n \in DOMAIN calls, NEW r \in Calls
      PROVE  /\ [calls EXCEPT ![n] = r] \in Seq(Calls)
             /\ Len([calls EXCEPT ![n] = r]) <= MaxCalls
  BY <1>1
<1>4. \A n \in DOMAIN calls : calls[n] \in Calls /\ calls[n].sub \in Subtypes
  <2>1. \A n \in DOMAIN calls : calls[n] \in Calls
    BY <1>1
  <2>2. \A r \in Calls : r.sub \in Subtypes
    BY DEF Calls
  <2> QED BY <2>1, <2>2
<1>5. ASSUME NEW sub \in Subtypes,
             NEW got \in {"none", "ok", "noThread", "reply", "timeout", "closed", "writeFailed"}
      PROVE  /\ Returned(sub, got) \in Calls /\ Returned(sub, got).got = got
             /\ [Returned(sub, got) EXCEPT !.state = "waiting"] \in Calls
             /\ [Returned(sub, got) EXCEPT !.state = "waiting"].got = got
             /\ \A n \in Nat : [Returned(sub, got) EXCEPT !.of = n] \in Calls
  <2>1. Returned(sub, got) \in Calls /\ Returned(sub, got).got = got
    BY DEF Calls, Returned
  <2>2. \A r \in Calls : /\ [r EXCEPT !.state = "waiting"] \in Calls
                         /\ [r EXCEPT !.state = "waiting"].got = r.got
                         /\ \A n \in Nat : [r EXCEPT !.of = n] \in Calls
    BY DEF Calls
  <2> QED BY <2>1, <2>2
<1>6. NewCall \in Nat \ {0} /\ (NewCall <= MaxCalls => NewCall \in 1..MaxCalls)
  BY <1>1 DEF NewCall
<1> QED BY <1>2, <1>3, <1>4, <1>5, <1>6

\* The start of the session.
LEMMA InitTypes ==
    ASSUME Init
    PROVE  TypeInv
<1>1. startup \in Startups /\ startup.resume \in BOOLEAN
  BY CodexThreadAssumption DEF Init
<1>2. /\ NoOverrides \in Overrides /\ overrides \in Overrides /\ 0 \in 0..MaxTurns
      /\ 0 \in 0..MaxAsks /\ 0 \in 0..2
  BY CodexThreadAssumption DEF Init, Overrides, NoOverrides
<1>3. driver \in Drivers
  BY <1>1, <1>2 DEF Init, Drivers
<1>4. NoSettings \in Settings /\ Old \in Settings /\ OpenSettings \in Settings
  BY <1>1, <1>2, <1>3, SettingsTypes
<1>5. server \in Servers
  BY <1>2, <1>4 DEF Init, Servers
<1>6. \A x, y \in Written : <<x, y>> \in Seq(Written)
  OBVIOUS
<1>7. Handshake \in Seq(Written)
  <2>1. Line("initialize", 1, 0) \in Written /\ Line("thread/resume", 2, 0) \in Written
    BY PlainLine DEF LineKinds, Written
  <2>2. [Line("thread/start", 2, 0) EXCEPT !.set = OpenSettings] \in Written
    <3> DEFINE l == [Line("thread/start", 2, 0) EXCEPT !.set = OpenSettings]
    <3>1. l \in Lines /\ l.kind = "thread/start"
      BY <1>4, SetLine DEF LineKinds
    <3> HIDE DEF l
    <3>2. l \in Written
      BY <3>1 DEF Written
    <3> QED BY <3>2 DEF l
  <2> QED BY <2>1, <2>2, <1>6 DEF Handshake
<1>8. history \in Histories
  BY <1>2 DEF Init, Histories
<1>9. /\ <<>> \in Seq(Told) /\ <<>> \in Seq(1..MaxTurns) /\ <<>> \in Seq(Calls) /\ Len(<<>>) = 0
      /\ 0 <= MaxCalls
  BY CodexThreadAssumption
<1>10. answered \in [1..MaxAsks -> 0..2]
  BY <1>2 DEF Init
<1> QED BY <1>1, <1>2, <1>3, <1>5, <1>7, <1>8, <1>9, <1>10 DEF Init, TypeInv

\* What users, callers and browsers do.
LEMMA UserTypes ==
    ASSUME TypeInv, SendMessage \/ Call \/ (\E n \in DOMAIN calls : CallTimesOut(n))
                        \/ (\E a \in 1..MaxAsks : Respond(a))
    PROVE  TypeInv'
<1>t. /\ driver \in Drivers /\ driver.nextId \in Nat /\ driver.active \in Nat
      /\ toServer \in Seq(Written)
      /\ history \in Histories /\ queue \in Seq(1..MaxTurns) /\ sent \in 0..MaxTurns
  BY CodexThreadAssumption DEF TypeInv, Drivers
<1>1. CASE SendMessage
  <2>1. /\ sent' \in 0..MaxTurns /\ sent + 1 \in 1..MaxTurns
        /\ Append(queue, sent + 1) \in Seq(1..MaxTurns)
    BY <1>1, <1>t, CodexThreadAssumption DEF SendMessage
  <2>2. /\ driver' \in Drivers /\ queue' \in Seq(1..MaxTurns) /\ turn' \in 0..MaxTurns
        /\ toServer' \in Seq(Written) /\ history' \in Histories
    <3>1. CASE turn = 0
      BY <1>1, <1>t, <2>1, <3>1, DispatchTypes DEF SendMessage
    <3>2. CASE turn # 0
      BY <1>1, <1>t, <2>1, <3>2 DEF SendMessage, TypeInv
    <3> QED BY <3>1, <3>2
  <2> QED BY <1>1, <2>1, <2>2 DEF SendMessage, TypeInv
<1>2. ASSUME NEW sub \in Subtypes, NewCall <= MaxCalls, Track(NewCall)
      PROVE  /\ driver' \in Drivers /\ toServer' \in Seq(Written)
             /\ clientWaiters' \subseteq [id : Nat, call : 1..MaxCalls]
  <2>1. Line("request", driver.nextId, NewCall) \in Written
    BY <1>t, PlainLine, CallsTypes DEF LineKinds, Written
  <2>2. [id |-> driver.nextId, call |-> NewCall] \in [id : Nat, call : 1..MaxCalls]
    BY <1>2, <1>t, CallsTypes
  <2> QED BY <1>2, <1>t, <2>1, <2>2, WriteTypes, DriverTypes DEF Track, TypeInv
<1>3. ASSUME NEW sub \in Subtypes, CallForData(sub)
      PROVE  TypeInv'
  <2>1. /\ driver' \in Drivers /\ toServer' \in Seq(Written)
        /\ clientWaiters' \subseteq [id : Nat, call : 1..MaxCalls]
    BY <1>3, <1>2 DEF CallForData, TypeInv
  <2>2. controlWaiters' \subseteq 1..MaxCalls
    BY <1>3, CallsTypes DEF CallForData, TypeInv
  <2>3. calls' \in Seq(Calls) /\ Len(calls') <= MaxCalls
    <3>1. PICK r \in Calls : calls' = Append(calls, r)
      BY <1>3, CallsTypes DEF CallForData, Answer
    <3> QED BY <1>3, <3>1, CallsTypes DEF CallForData
  <2> QED BY <1>3, <2>1, <2>2, <2>3 DEF CallForData, CallUnchanged, TypeInv
<1>4. ASSUME NEW sub \in Subtypes, CallTracked(sub)
      PROVE  TypeInv'
  <2>1. /\ driver' \in Drivers /\ toServer' \in Seq(Written)
        /\ clientWaiters' \subseteq [id : Nat, call : 1..MaxCalls]
    BY <1>4, <1>2 DEF CallTracked, TypeInv
  <2>2. calls' \in Seq(Calls) /\ Len(calls') <= MaxCalls
    BY <1>4, CallsTypes DEF CallTracked, Answer
  <2> QED BY <1>4, <2>1, <2>2 DEF CallTracked, CallUnchanged, TypeInv
<1>5. ASSUME NEW sub \in Subtypes, CallTurn(sub)
      PROVE  TypeInv'
  <2>1. /\ Line("turn/steer", driver.nextId, driver.active) \in Written
        /\ Line("turn/interrupt", driver.nextId, 0) \in Written
    <3>1. {"turn/steer", "turn/interrupt"} \subseteq LineKinds
      BY DEF LineKinds
    <3>2. ASSUME NEW k \in {"turn/steer", "turn/interrupt"}, NEW n \in Nat
          PROVE  Line(k, driver.nextId, n) \in Written
      <4>1. Line(k, driver.nextId, n) \in Lines /\ Line(k, driver.nextId, n).kind = k
        BY <1>t, <3>1, PlainLine
      <4> QED BY <4>1 DEF Written
    <3> QED BY <1>t, <3>2
  <2>2. driver' \in Drivers /\ toServer' \in Seq(Written)
    BY <1>5, <1>t, <2>1, WriteTypes, DriverTypes DEF CallTurn
  <2>3. calls' \in Seq(Calls) /\ Len(calls') <= MaxCalls
    BY <1>5, CallsTypes DEF CallTurn, Answer
  <2> QED BY <1>5, <2>2, <2>3 DEF CallTurn, CallUnchanged, TypeInv
<1>6. ASSUME NEW sub \in Subtypes, CallSet(sub)
      PROVE  TypeInv'
  <2>1. overrides' \in Overrides
    BY <1>6 DEF CallSet, TypeInv, Overrides
  <2>2. calls' \in Seq(Calls) /\ Len(calls') <= MaxCalls
    BY <1>6, CallsTypes DEF CallSet, Answer
  <2> QED BY <1>6, <2>1, <2>2 DEF CallSet, CallUnchanged, TypeInv
<1>7. ASSUME NEW n \in DOMAIN calls, CallTimesOut(n)
      PROVE  TypeInv'
  <2>1. calls' = [calls EXCEPT ![n] = Returned(calls[n].sub, "timeout")]
    BY <1>7 DEF CallTimesOut
  <2>2. calls' \in Seq(Calls) /\ Len(calls') <= MaxCalls
    BY <2>1, CallsTypes
  <2> QED BY <1>7, <2>2 DEF CallTimesOut, TypeInv, driverVars, actorVars, wireVars
<1>8. ASSUME NEW a \in 1..MaxAsks, Respond(a)
      PROVE  TypeInv'
  <2>1. Line("response", 0, a) \in Written
    BY PlainLine DEF LineKinds, Written
  <2>2. toServer' \in Seq(Written)
    BY <1>8, <2>1, WriteTypes DEF Respond
  <2>3. answered' \in [1..MaxAsks -> 0..2]
    BY <1>8 DEF Respond, TypeInv
  <2>4. history' \in Histories
    <3>1. history.responses[a] + 1 \in Nat
      <4>1. history.responses \in [1..MaxAsks -> Nat]
        BY <1>t DEF Histories
      <4>2. \A f \in [1..MaxAsks -> Nat] : f[a] \in Nat
        OBVIOUS
      <4> HIDE DEF Histories
      <4>3. history.responses[a] \in Nat
        BY <4>1, <4>2
      <4> QED BY <4>3
    <3>2. \A n \in Nat : [history EXCEPT !.responses[a] = n] \in Histories
      BY <1>t DEF Histories
    <3> QED BY <1>8, <1>t, <3>1, <3>2 DEF Respond
  <2> QED BY <1>8, <2>2, <2>3, <2>4 DEF Respond, TypeInv, actorVars
<1> QED BY <1>1, <1>3, <1>4, <1>5, <1>6, <1>7, <1>8 DEF Call

\* A line of the app-server, read to its end.
LEMMA ReadTypes ==
    ASSUME TypeInv, ReadLine
    PROVE  TypeInv'
<1> DEFINE line == Head(fromServer)
<1>t. /\ driver \in Drivers /\ queue \in Seq(1..MaxTurns) /\ fromServer \in Seq(Told)
      /\ \A m \in 0..MaxTurns : [driver EXCEPT !.active = m] \in Drivers
      /\ AfterAck \in Drivers /\ TurnOver \in Drivers
  <2>1. /\ driver \in Drivers /\ queue \in Seq(1..MaxTurns) /\ fromServer \in Seq(Told)
        /\ 0 \in 0..MaxTurns
    BY CodexThreadAssumption DEF TypeInv
  <2>2. /\ [driver EXCEPT !.thread = TRUE, !.phase = "Ready"] \in Drivers
        /\ \A m \in 0..MaxTurns : [driver EXCEPT !.active = m] \in Drivers
    BY <2>1, DriverTypes
  <2> QED BY <2>1, <2>2 DEF AfterAck, TurnOver
<1>k. \A k : Incoming(k) => /\ up /\ line \in Told /\ line.kind = k
                            /\ Tail(fromServer) \in Seq(Told)
  BY <1>t, Taken DEF Incoming
<1>o. \A d \in Drivers : ThreadOpens(d) =>
        /\ driver' \in Drivers /\ queue' \in Seq(1..MaxTurns) /\ turn' \in 0..MaxTurns
        /\ toServer' \in Seq(Written) /\ history' \in Histories
  BY <1>t, DispatchTypes DEF ThreadOpens, TypeInv
<1> HIDE DEF line
<1>1. CASE ReadReply
  <2>1. /\ driver' \in Drivers /\ queue' \in Seq(1..MaxTurns) /\ turn' \in 0..MaxTurns
        /\ toServer' \in Seq(Written) /\ history' \in Histories
    BY <1>1, <1>t, <1>o DEF ReadReply, TypeInv
  <2>2. /\ clientWaiters' \subseteq [id : Nat, call : 1..MaxCalls]
        /\ controlWaiters' \subseteq 1..MaxCalls
        /\ calls' \in Seq(Calls) /\ Len(calls') <= MaxCalls
    <3>1. CASE UNCHANGED <<clientWaiters, controlWaiters, calls>>
      BY <3>1 DEF TypeInv
    <3>2. ASSUME NEW w \in clientWaiters, DeliverReply(line, w)
          PROVE  /\ clientWaiters' \subseteq [id : Nat, call : 1..MaxCalls]
                 /\ controlWaiters' \subseteq 1..MaxCalls
                 /\ calls' \in Seq(Calls) /\ Len(calls') <= MaxCalls
      <4>0. line \in Lines /\ line.ref \in Nat
        BY <1>1, <1>k DEF ReadReply, Told, Lines
      <4> DEFINE n == w.call
                 r == [Returned(calls[n].sub, "reply") EXCEPT !.of = line.ref]
      <4>1. calls' = calls \/ calls' = [calls EXCEPT ![n] = r]
        BY <3>2 DEF DeliverReply
      <4>2. CASE n \in DOMAIN calls
        <5>1. r \in Calls
          BY <4>0, <4>2, CallsTypes
        <5> HIDE DEF r, n
        <5>2. calls' \in Seq(Calls) /\ Len(calls') <= MaxCalls
          <6>1. [calls EXCEPT ![n] = r] \in Seq(Calls) /\ Len([calls EXCEPT ![n] = r]) <= MaxCalls
            BY <4>2, <5>1, CallsTypes
          <6>2. calls \in Seq(Calls) /\ Len(calls) <= MaxCalls
            BY DEF TypeInv
          <6> QED BY <4>1, <6>1, <6>2
        <5> QED BY <3>2, <5>2 DEF DeliverReply, TypeInv
      <4>3. CASE n \notin DOMAIN calls
        <5> HIDE DEF r, n
        <5>1. calls \in Seq(Calls)
          BY DEF TypeInv
        <5>2. [calls EXCEPT ![n] = r] = calls
          BY <4>3, <5>1
        <5> QED BY <3>2, <4>1, <5>2 DEF DeliverReply, TypeInv
      <4> QED BY <4>2, <4>3
    <3> QED BY <1>1, <3>1, <3>2 DEF ReadReply, line
  <2> QED BY <1>1, <1>k, <2>1, <2>2 DEF ReadReply, Consume, LineUnchanged, TypeInv
<1>2. CASE ReadThreadStarted
  BY <1>2, <1>k, <1>o, <1>t DEF ReadThreadStarted, Consume, LineUnchanged, TypeInv
<1>3. CASE ReadTurnStarted
  <2>1. line.ref \in 0..MaxTurns
    BY <1>3, <1>k DEF ReadTurnStarted, Told
  <2>2. driver' \in Drivers
    BY <1>3, <1>t, <2>1 DEF ReadTurnStarted, line
  <2> QED BY <1>3, <1>k, <2>2 DEF ReadTurnStarted, Consume, LineUnchanged, TypeInv
<1>4. CASE ReadTurnEnded
  <2>1. /\ driver' \in Drivers /\ queue' \in Seq(1..MaxTurns) /\ turn' \in 0..MaxTurns
        /\ toServer' \in Seq(Written) /\ history' \in Histories
    BY <1>4, <1>t, DispatchTypes DEF ReadTurnEnded
  <2> QED BY <1>4, <1>k, <2>1 DEF ReadTurnEnded, Consume, LineUnchanged, TypeInv
<1>5. CASE ReadError
  <2>1. driver' \in Drivers
    BY <1>5, <1>t DEF ReadError
  <2> QED BY <1>5, <1>k, <2>1 DEF ReadError, Consume, LineUnchanged, TypeInv
<1>6. CASE ReadAsk
  <2>1. line.ref \in 1..MaxAsks
    BY <1>6, <1>k DEF ReadAsk, Told
  <2>2. pending' \subseteq 1..MaxAsks
    BY <1>6, <2>1 DEF ReadAsk, line, TypeInv
  <2> QED BY <1>6, <1>k, <2>2 DEF ReadAsk, Consume, LineUnchanged, TypeInv
<1> QED BY <1>1, <1>2, <1>3, <1>4, <1>5, <1>6 DEF ReadLine

\* Lines that are told.
LEMMA TellTypes ==
    ASSUME TypeInv
    PROVE  /\ Tell(<<>>) => fromServer' = fromServer
           /\ \A x \in Told : Tell(<<x>>) =>
                /\ fromServer' = Append(fromServer, x) /\ fromServer' \in Seq(Told)
           /\ \A x, y \in Told : Tell(<<x, y>>) =>
                /\ fromServer' = Append(Append(fromServer, x), y)
                /\ Append(fromServer, x) \in Seq(Told) /\ fromServer' \in Seq(Told)
<1>1. fromServer \in Seq(Told)
  BY DEF TypeInv
<1>2. Tell(<<>>) => fromServer' = fromServer
  BY <1>1 DEF Tell
<1>3. ASSUME NEW x \in Told, Tell(<<x>>)
      PROVE  fromServer' = Append(fromServer, x) /\ fromServer' \in Seq(Told)
  BY <1>1, <1>3, Concat, Appended DEF Tell
<1>4. ASSUME NEW x \in Told, NEW y \in Told, Tell(<<x, y>>)
      PROVE  /\ fromServer' = Append(Append(fromServer, x), y)
             /\ Append(fromServer, x) \in Seq(Told) /\ fromServer' \in Seq(Told)
  <2>1. fromServer' = Append(Append(fromServer, x), y)
    BY <1>1, <1>4, Concat DEF Tell
  <2>2. Append(fromServer, x) \in Seq(Told)
    BY <1>1, Appended
  <2>3. Append(Append(fromServer, x), y) \in Seq(Told)
    BY <2>2, Appended
  <2> QED BY <2>1, <2>2, <2>3
<1> QED BY <1>2, <1>3, <1>4

\* The lines the app-server tells.
LEMMA ToldLines ==
    ASSUME TypeInv
    PROVE  /\ \A id, ref \in Nat : \A b \in BOOLEAN :
                /\ [Line("reply", id, ref) EXCEPT !.ok = b] \in Told
                /\ [Line("reply", id, ref) EXCEPT !.ok = b].kind = "reply"
                /\ [Line("reply", id, ref) EXCEPT !.ok = b].id = id
                /\ [Line("reply", id, ref) EXCEPT !.ok = b].ref = ref
           /\ \A b \in BOOLEAN : /\ [Line("error", 0, 0) EXCEPT !.ok = b] \in Told
                                 /\ [Line("error", 0, 0) EXCEPT !.ok = b].kind = "error"
           /\ Line("error", 0, 0) \in Told /\ Line("error", 0, 0).kind = "error"
           /\ /\ Line("thread/started", 0, 0) \in Told
              /\ Line("thread/started", 0, 0).kind = "thread/started"
           /\ \A m \in 0..MaxTurns :
                \A k \in {"turn/started", "turn/completed", "turn/failed"} :
                    /\ Line(k, 0, m) \in Told
                    /\ Line(k, 0, m).kind = k /\ Line(k, 0, m).ref = m
           /\ \A a \in 1..MaxAsks : /\ Line("ask", a, a) \in Told
                                    /\ Line("ask", a, a).kind = "ask"
                                    /\ Line("ask", a, a).ref = a
<1>0. MaxTurns \in Nat /\ MaxAsks \in Nat
  BY CodexThreadAssumption
<1>1. ASSUME NEW id \in Nat, NEW ref \in Nat, NEW b \in BOOLEAN
      PROVE  /\ [Line("reply", id, ref) EXCEPT !.ok = b] \in Told
             /\ [Line("reply", id, ref) EXCEPT !.ok = b].kind = "reply"
             /\ [Line("reply", id, ref) EXCEPT !.ok = b].id = id
             /\ [Line("reply", id, ref) EXCEPT !.ok = b].ref = ref
  <2> DEFINE l == [Line("reply", id, ref) EXCEPT !.ok = b]
  <2>1. l \in Lines /\ l.kind = "reply" /\ l.id = id /\ l.ref = ref
    BY OkLine DEF LineKinds
  <2> HIDE DEF l
  <2>2. l \in Told /\ l.kind = "reply" /\ l.id = id /\ l.ref = ref
    BY <2>1 DEF Told
  <2> QED BY <2>2 DEF l
<1>2. ASSUME NEW k \in {"error", "thread/started"}
      PROVE  Line(k, 0, 0) \in Told /\ Line(k, 0, 0).kind = k
  BY PlainLine DEF LineKinds, Told
<1>3. ASSUME NEW m \in 0..MaxTurns, NEW k \in {"turn/started", "turn/completed", "turn/failed"}
      PROVE  Line(k, 0, m) \in Told /\ Line(k, 0, m).kind = k /\ Line(k, 0, m).ref = m
  BY <1>0, PlainLine DEF LineKinds, Told
<1>4. ASSUME NEW a \in 1..MaxAsks
      PROVE  Line("ask", a, a) \in Told /\ Line("ask", a, a).kind = "ask" /\ Line("ask", a, a).ref = a
  BY <1>0, PlainLine DEF LineKinds, Told
<1>6. ASSUME NEW b \in BOOLEAN
      PROVE  /\ [Line("error", 0, 0) EXCEPT !.ok = b] \in Told
             /\ [Line("error", 0, 0) EXCEPT !.ok = b].kind = "error"
  <2> DEFINE l == [Line("error", 0, 0) EXCEPT !.ok = b]
  <2>1. l \in Lines /\ l.kind = "error"
    BY OkLine DEF LineKinds
  <2> HIDE DEF l
  <2>2. l \in Told /\ l.kind = "error"
    BY <2>1 DEF Told
  <2> QED BY <2>2 DEF l
<1>7. /\ Line("error", 0, 0) \in Told /\ Line("error", 0, 0).kind = "error"
      /\ Line("thread/started", 0, 0) \in Told
      /\ Line("thread/started", 0, 0).kind = "thread/started"
  BY <1>2
<1> QED BY <1>1, <1>3, <1>4, <1>6, <1>7

\* The app-server's settings after a turn is started.
LEMMA MergedTypes ==
    ASSUME NEW new \in Settings, NEW old \in Settings
    PROVE  Merged(new, old) \in Settings
BY DEF Merged, Or, Settings

\* The app-server, changed in a field or two.
LEMMA ServerTypes ==
    ASSUME NEW s \in Servers
    PROVE  /\ s.set \in Settings /\ s.turn \in 0..MaxTurns
           /\ [s EXCEPT !.turn = 0, !.open = {}] \in Servers
           /\ [s EXCEPT !.refused = TRUE] \in Servers
           /\ \A b \in BOOLEAN : [s EXCEPT !.alive = b] \in Servers
           /\ \A set \in Settings : /\ [s EXCEPT !.set = set] \in Servers
                                    /\ \A m \in 0..MaxTurns :
                                         [s EXCEPT !.turn = m, !.set = set] \in Servers
           /\ \A o \in SUBSET (1..MaxAsks) : /\ [s EXCEPT !.open = o] \in Servers
                /\ \A a \in 0..MaxAsks : [s EXCEPT !.asked = a, !.open = o] \in Servers
<1>1. s.set \in Settings /\ s.turn \in 0..MaxTurns /\ 0 \in 0..MaxTurns
  BY CodexThreadAssumption DEF Servers
<1>2. [s EXCEPT !.turn = 0, !.open = {}] \in Servers
  BY <1>1 DEF Servers
<1>3. /\ [s EXCEPT !.refused = TRUE] \in Servers
      /\ \A b \in BOOLEAN : [s EXCEPT !.alive = b] \in Servers
  BY DEF Servers
<1>4. ASSUME NEW set \in Settings
      PROVE  /\ [s EXCEPT !.set = set] \in Servers
             /\ \A m \in 0..MaxTurns : [s EXCEPT !.turn = m, !.set = set] \in Servers
  BY DEF Servers
<1>5. ASSUME NEW o \in SUBSET (1..MaxAsks)
      PROVE  /\ [s EXCEPT !.open = o] \in Servers
             /\ \A a \in 0..MaxAsks : [s EXCEPT !.asked = a, !.open = o] \in Servers
  BY DEF Servers
<1> QED BY <1>1, <1>2, <1>3, <1>4, <1>5

\* A request the app-server reads.
LEMMA RequestTypes ==
    ASSUME TypeInv, toServer # <<>>
    PROVE  /\ Request \in Written /\ In(toServer, Request)
           /\ Request.id \in Nat /\ Request.ref \in Nat /\ Request.set \in Settings
           /\ Request.kind = "turn/start" => Request.ref \in 1..MaxTurns
           /\ Tail(toServer) \in Seq(Written)
           /\ \A b \in BOOLEAN : /\ Reply(b) \in Told /\ Reply(b).kind = "reply"
                                 /\ Reply(b).id = Request.id /\ Reply(b).ref = Request.ref
<1>1. toServer \in Seq(Written)
  BY DEF TypeInv
<1>2. Request \in Written /\ In(toServer, Request) /\ Tail(toServer) \in Seq(Written)
  BY <1>1, Taken DEF Request
<1>3. /\ Request.id \in Nat /\ Request.ref \in Nat /\ Request.set \in Settings
      /\ Request.kind = "turn/start" => Request.ref \in 1..MaxTurns
  BY <1>2 DEF Written, Lines
<1>4. \A b \in BOOLEAN : /\ Reply(b) \in Told /\ Reply(b).kind = "reply"
                         /\ Reply(b).id = Request.id /\ Reply(b).ref = Request.ref
  BY <1>3, ToldLines DEF Reply
<1> QED BY <1>2, <1>3, <1>4

\* A line of the app-server's pipe is served.
LEMMA ServeTypes ==
    ASSUME TypeInv, Serve
    PROVE  TypeInv'
<1>t. server \in Servers /\ fromServer \in Seq(Told) /\ toServer \in Seq(Written)
  BY DEF TypeInv
<1>r. \A kinds : Reads(kinds) =>
        /\ Request.kind \in kinds /\ Tail(toServer) \in Seq(Written)
        /\ Request.ref \in Nat /\ Request.set \in Settings
        /\ Request.kind = "turn/start" => Request.ref \in 1..MaxTurns
        /\ Reply(TRUE) \in Told /\ Reply(FALSE) \in Told
  BY RequestTypes DEF Reads, Request
<1>s. ASSUME NEW lines, Served(lines), server' \in Servers, fromServer' \in Seq(Told),
             Tail(toServer) \in Seq(Written)
      PROVE  TypeInv'
  BY <1>s DEF Served, ServerUnchanged, driverVars, actorVars, userVars, TypeInv
<1>1. CASE ServerInitializes \/ ServerResumesThread \/ ServerServes
  BY <1>1, <1>t, <1>r, <1>s, TellTypes
     DEF ServerInitializes, ServerResumesThread, ServerServes, Served
<1>2. CASE ServerOpensThread
  <2>1. server' \in Servers
    BY <1>2, <1>t, <1>r, ServerTypes DEF ServerOpensThread
  <2>2. Line("thread/started", 0, 0) \in Told
    BY ToldLines
  <2> QED BY <1>2, <1>r, <1>s, <2>1, <2>2, TellTypes DEF ServerOpensThread, Served
<1>3. CASE ServerRefusesThread
  <2>1. server' \in Servers
    BY <1>3, <1>t, ServerTypes DEF ServerRefusesThread
  <2> QED BY <1>3, <1>r, <1>s, <2>1, TellTypes DEF ServerRefusesThread, Served
<1>4. CASE ServerStartsTurn
  <2>0. Request.ref \in 1..MaxTurns /\ 1..MaxTurns \subseteq 0..MaxTurns
    <3>1. toServer # <<>> /\ Request.kind = "turn/start"
      BY <1>4 DEF ServerStartsTurn, Reads, Request
    <3>2. Request.ref \in 1..MaxTurns
      BY <3>1, RequestTypes
    <3> QED BY <3>2
  <2>1. server' \in Servers
    <3>1. Merged(Request.set, server.set) \in Settings
      BY <1>4, <1>t, <1>r, ServerTypes, MergedTypes DEF ServerStartsTurn
    <3>2. server' = [server EXCEPT !.turn = Request.ref,
                                   !.set = Merged(Request.set, server.set)]
      BY <1>4 DEF ServerStartsTurn
    <3> QED BY <1>t, <2>0, <3>1, <3>2, ServerTypes
  <2>2. PICK id \in {0, Request.ref} : Served(<<Reply(TRUE), Line("turn/started", 0, id)>>)
    BY <1>4 DEF ServerStartsTurn
  <2>3. Line("turn/started", 0, id) \in Told
    BY <2>0, ToldLines, CodexThreadAssumption
  <2> QED BY <1>4, <1>r, <1>s, <2>1, <2>2, <2>3, TellTypes DEF ServerStartsTurn, Served
<1>5. CASE ServerRefusesTurn
  BY <1>5, <1>t, <1>r, <1>s, TellTypes DEF ServerRefusesTurn, Served
<1>6. CASE ServerInterrupts
  <2>1. NoTurnLeft \in Servers /\ Line("turn/completed", 0, server.turn) \in Told
    BY <1>t, ServerTypes, ToldLines DEF NoTurnLeft
  <2>2. CASE server.turn = 0
    BY <1>6, <1>t, <1>r, <1>s, <2>2, TellTypes DEF ServerInterrupts, Served
  <2>3. CASE server.turn # 0
    BY <1>6, <1>r, <1>s, <2>1, <2>3, TellTypes DEF ServerInterrupts, Served
  <2> QED BY <2>2, <2>3
<1>7. CASE ServerSteers
  <2>1. Reply(Request.ref = server.turn) \in Told
    BY <1>7, <1>r DEF ServerSteers
  <2> QED BY <1>7, <1>t, <1>r, <1>s, <2>1, TellTypes DEF ServerSteers, Served
<1>8. CASE ServerTakesAnswer
  <2>1. server' \in Servers
    <3>1. server.open \ {Request.ref} \in SUBSET (1..MaxAsks)
      BY <1>t DEF Servers
    <3> QED BY <1>8, <1>t, <3>1, ServerTypes DEF ServerTakesAnswer
  <2> QED BY <1>8, <1>t, <1>r, <1>s, <2>1, TellTypes DEF ServerTakesAnswer, Served
<1> QED BY <1>1, <1>2, <1>3, <1>4, <1>5, <1>6, <1>7, <1>8 DEF Serve

\* What the app-server does of itself, and the end of the session.
LEMMA OwnTypes ==
    ASSUME TypeInv, ServerAsks \/ ServerCompletesTurn \/ ServerFailsTurn \/ ServerDies
                        \/ Stop \/ HandleEof
    PROVE  TypeInv'
<1>t. /\ server \in Servers /\ NoTurnLeft \in Servers
      /\ Line("turn/completed", 0, server.turn) \in Told
      /\ Line("turn/failed", 0, server.turn) \in Told
      /\ Line("error", 0, 0) \in Told
      /\ [Line("error", 0, 0) EXCEPT !.ok = FALSE] \in Told
      /\ [NoTurnLeft EXCEPT !.alive = FALSE] \in Servers
  <2>1. server \in Servers
    BY DEF TypeInv
  <2>2. NoTurnLeft \in Servers /\ server.turn \in 0..MaxTurns
    BY <2>1, ServerTypes DEF NoTurnLeft
  <2> QED BY <2>1, <2>2, ServerTypes, ToldLines
<1>1. CASE ServerAsks
  <2>0. server.asked \in 0..MaxAsks /\ server.open \in SUBSET (1..MaxAsks)
    BY <1>t DEF Servers
  <2> DEFINE a == server.asked + 1
  <2>1. a \in 1..MaxAsks /\ a \in 0..MaxAsks /\ server.open \cup {a} \in SUBSET (1..MaxAsks)
    BY <1>1, <2>0, CodexThreadAssumption DEF ServerAsks
  <2>2. server' = [server EXCEPT !.asked = a, !.open = @ \cup {a}]
    BY <1>1 DEF ServerAsks
  <2>3. Tell(<<Line("ask", a, a)>>)
    BY <1>1 DEF ServerAsks
  <2> HIDE DEF a
  <2>4. server' \in Servers
    BY <1>t, <2>1, <2>2, ServerTypes
  <2>5. fromServer' \in Seq(Told)
    BY <2>1, <2>3, ToldLines, TellTypes
  <2> QED BY <1>1, <2>4, <2>5
          DEF ServerAsks, ServerUnchanged, driverVars, actorVars, userVars, TypeInv
<1>2. CASE ServerCompletesTurn
  <2>1. fromServer' \in Seq(Told)
    BY <1>2, <1>t, TellTypes DEF ServerCompletesTurn
  <2> QED BY <1>2, <1>t, <2>1
          DEF ServerCompletesTurn, ServerUnchanged, driverVars, actorVars, userVars, TypeInv
<1>3. CASE ServerFailsTurn
  <2>1. fromServer' \in Seq(Told)
    BY <1>3, <1>t, TellTypes DEF ServerFailsTurn
  <2> QED BY <1>3, <1>t, <2>1
          DEF ServerFailsTurn, ServerUnchanged, driverVars, actorVars, userVars, TypeInv
<1>4. CASE ServerDies
  <2>1. <<>> \in Seq(Written)
    OBVIOUS
  <2> QED BY <1>4, <1>t, <2>1
          DEF ServerDies, ServerUnchanged, driverVars, actorVars, userVars, TypeInv
<1>5. CASE Stop \/ HandleEof
  <2>1. server' \in Servers /\ EndSession
    BY <1>5, <1>t DEF Stop, HandleEof
  <2>2. calls' \in Seq(Calls) /\ Len(calls') <= MaxCalls
    <3> DEFINE r(n) == IF calls[n].state = "waiting"
                       THEN Returned(calls[n].sub, "closed") ELSE calls[n]
    <3>1. calls' = [n \in DOMAIN calls |-> r(n)]
      BY <2>1 DEF EndSession
    <3>2. \A n \in DOMAIN calls : r(n) \in Calls
      BY CallsTypes
    <3>3. calls \in Seq(Calls) /\ Len(calls) <= MaxCalls
      BY DEF TypeInv
    <3> HIDE DEF r
    <3> QED BY <3>1, <3>2, <3>3
  <2>3. /\ <<>> \in Seq(Written) /\ <<>> \in Seq(Told) /\ <<>> \in Seq(1..MaxTurns)
        /\ 0 \in 0..MaxTurns
    BY CodexThreadAssumption
  <2> QED BY <2>1, <2>2, <2>3 DEF EndSession, driverVars, TypeInv
<1> QED BY <1>1, <1>2, <1>3, <1>4, <1>5

\* Nothing happens.
LEMMA IdleTypes ==
    ASSUME TypeInv, UNCHANGED vars
    PROVE  TypeInv'
BY DEF TypeInv, vars, driverVars, actorVars, wireVars, userVars

\* The driver, the actor's part of a Codex session and the app-server stay in their types:
\* a turn/start carries a message that was sent, and an id is a number that was given out.
THEOREM CodexTypeCorrect == Spec => []TypeOK
<1>1. Init => TypeInv
  BY InitTypes
<1>2. TypeInv /\ [Next]_vars => TypeInv'
  BY UserTypes, ReadTypes, ServeTypes, OwnTypes, IdleTypes DEF Next
<1>3. TypeInv => TypeOK
  BY TypeInvGives
<1> QED BY <1>1, <1>2, <1>3, PTL DEF Spec

-----------------------------------------------------------------------------
(* The dispatch of a turn *)

Starts == {l \in Written : l.kind = "turn/start"}

\* try_dispatch writes one turn/start with the next id and takes its message for the
\* active turn, or writes nothing; without a thread it writes nothing and takes it too.
LEMMA Dispatched ==
    ASSUME TypeInv, NEW d \in Drivers, NEW q \in Seq(1..MaxTurns), TryDispatch(d, q)
    PROVE  /\ history'.responses = history.responses
           /\ history.framed \subseteq history'.framed
           /\ driver'.phase = d.phase /\ driver'.thread = d.thread
           /\ driver'.active = d.active
           /\ driver'.nextId \in {d.nextId, d.nextId + 1}
           /\ \/ toServer' = toServer /\ (turn' = 0 \/ (~d.thread /\ d.phase = "Ready"))
              \/ \E l \in Starts :
                    /\ toServer' = Append(toServer, l)
                    /\ l.id = d.nextId /\ driver'.nextId = d.nextId + 1
                    /\ l.ref = turn' /\ turn' # 0 /\ turn' \in history'.framed
                    /\ d.phase = "Ready" /\ d.thread /\ CanWrite
<1>t. /\ toServer \in Seq(Written) /\ history \in Histories
      /\ startup \in Startups /\ overrides \in Overrides /\ driver \in Drivers
  BY DEF TypeInv
<1>1. CASE q # <<>> /\ d.phase = "Ready" /\ StartUserTurn(d, q)
  <2> DEFINE m == Head(q)
             l == [Line("turn/start", d.nextId, m) EXCEPT !.set = TurnSettings]
  <2>1. m \in 1..MaxTurns /\ m \in Nat /\ m # 0
    BY <1>1, Taken, CodexThreadAssumption
  <2>2. l \in Starts /\ l.id = d.nextId /\ l.ref = m
    <3>1. TurnSettings \in Settings /\ d.nextId \in Nat
      BY <1>t, SettingsTypes DEF Drivers
    <3>2. l \in Lines /\ l.ref = m /\ l.id = d.nextId /\ l.kind = "turn/start"
      BY <2>1, <3>1, SetLine DEF LineKinds
    <3> HIDE DEF l
    <3> QED BY <2>1, <3>2 DEF Written, Starts
  <2>3. toServer' = IF d.thread /\ CanWrite THEN Append(toServer, l) ELSE toServer
    <3>1. Write(IF d.thread THEN <<l>> ELSE <<>>)
      BY <1>1 DEF StartUserTurn
    <3>2. l \in Written
      BY <2>2 DEF Starts
    <3> HIDE DEF l
    <3>3. toServer \o <<l>> = Append(toServer, l) /\ toServer \o <<>> = toServer
      BY <1>t, <3>2, Concat
    <3> QED BY <3>1, <3>3 DEF Write
  <2> HIDE DEF l
  <2>4. turn' = IF d.thread /\ ~CanWrite THEN 0 ELSE m
    BY <1>1 DEF StartUserTurn
  <2>5. /\ driver'.phase = d.phase /\ driver'.thread = d.thread /\ driver'.active = d.active
        /\ driver'.nextId = IF d.thread THEN d.nextId + 1 ELSE d.nextId
    BY <1>1 DEF StartUserTurn, Drivers
  <2>6. /\ history'.responses = history.responses
        /\ history'.framed = IF d.thread /\ CanWrite THEN history.framed \cup {m}
                             ELSE history.framed
    BY <1>1, <1>t DEF StartUserTurn, Histories
  <2> QED BY <1>1, <2>1, <2>2, <2>3, <2>4, <2>5, <2>6
<1>2. CASE driver' = d /\ queue' = q /\ turn' = 0 /\ UNCHANGED <<toServer, history>>
  BY <1>2
<1> QED BY <1>1, <1>2 DEF TryDispatch

-----------------------------------------------------------------------------
(* Ids and replies *)

\* The calls that were given a reply were given their own.
OwnReplies == \A n \in DOMAIN calls : calls[n].got = "reply" => calls[n].of = n

\* Whatever carries the id of a tracked request, the request or its reply, is about the
\* control call that waits under this id; an id on a pipe was given out before.
IdInv ==
    /\ driver.nextId > 0
    /\ \A i \in DOMAIN toServer : toServer[i].id < driver.nextId
    /\ \A i \in DOMAIN fromServer :
          fromServer[i].kind = "reply" => fromServer[i].id < driver.nextId
    /\ \A w \in clientWaiters :
          /\ w.id > 0 /\ w.id < driver.nextId
          /\ \A i \in DOMAIN toServer : toServer[i].id = w.id => toServer[i].ref = w.call
          /\ \A i \in DOMAIN fromServer :
                fromServer[i].kind = "reply" /\ fromServer[i].id = w.id
                    => fromServer[i].ref = w.call
    /\ OwnReplies

\* What a step may do to ids: a new line carries the next id, or none, and a reply the id
\* and the subject of a request.
LEMMA IdStep ==
    ASSUME TypeInv, TypeInv', IdInv, driver'.nextId >= driver.nextId,
           \A l : In(toServer', l) =>
               \/ In(toServer, l) \/ l.id = 0
               \/ /\ l.id = driver.nextId /\ driver'.nextId > driver.nextId
                  /\ \A w \in clientWaiters' : w.id = driver.nextId => l.ref = w.call,
           \A l : In(fromServer', l) /\ l.kind = "reply" =>
               \/ In(fromServer, l)
               \/ \E m : In(toServer, m) /\ m.id = l.id /\ m.ref = l.ref,
           \A w \in clientWaiters' :
               w \in clientWaiters \/ (w.id = driver.nextId /\ driver'.nextId > driver.nextId),
           OwnReplies'
    PROVE  IdInv'
<1>t. /\ driver.nextId \in Nat /\ driver'.nextId \in Nat
      /\ \A w \in clientWaiters : w.id \in Nat
      /\ \A l : In(toServer, l) \/ In(toServer', l) => l.id \in Nat
      /\ \A l : In(fromServer, l) \/ In(fromServer', l) => l.id \in Nat
  <2>1. \A l : l \in Written \/ l \in Told => l.id \in Nat
    BY DEF Written, Told, Lines
  <2>2. \A l : In(toServer, l) \/ In(toServer', l) => l \in Written
    BY DEF TypeInv, In
  <2>3. \A l : In(fromServer, l) \/ In(fromServer', l) => l \in Told
    BY DEF TypeInv, In
  <2> QED BY <2>1, <2>2, <2>3 DEF TypeInv, Drivers
<1>1. \A l : In(toServer, l) =>
         l.id < driver.nextId /\ \A w \in clientWaiters : l.id = w.id => l.ref = w.call
  BY DEF IdInv, In
<1>2. \A l : In(fromServer, l) /\ l.kind = "reply" =>
         l.id < driver.nextId /\ \A w \in clientWaiters : l.id = w.id => l.ref = w.call
  BY DEF IdInv, In
<1>3. driver.nextId > 0 /\ \A w \in clientWaiters : w.id > 0 /\ w.id < driver.nextId
  BY DEF IdInv
<1>4. \A w \in clientWaiters' : w.id > 0 /\ w.id < driver'.nextId
  BY <1>t, <1>3
<1>5. ASSUME NEW l, In(toServer', l)
      PROVE  /\ l.id < driver'.nextId
             /\ \A w \in clientWaiters' : l.id = w.id => l.ref = w.call
  <2>1. CASE In(toServer, l)
    BY <1>t, <1>1, <2>1
  <2>2. CASE l.id = 0
    BY <1>t, <1>3, <1>4, <2>2
  <2>3. CASE /\ l.id = driver.nextId /\ driver'.nextId > driver.nextId
             /\ \A w \in clientWaiters' : w.id = driver.nextId => l.ref = w.call
    BY <1>t, <2>3
  <2> QED BY <1>5, <2>1, <2>2, <2>3
<1>6. ASSUME NEW l, In(fromServer', l), l.kind = "reply"
      PROVE  /\ l.id < driver'.nextId
             /\ \A w \in clientWaiters' : l.id = w.id => l.ref = w.call
  <2>1. CASE In(fromServer, l)
    BY <1>t, <1>2, <1>6, <2>1
  <2>2. ASSUME NEW m, In(toServer, m), m.id = l.id, m.ref = l.ref
        PROVE  /\ l.id < driver'.nextId
               /\ \A w \in clientWaiters' : l.id = w.id => l.ref = w.call
    BY <1>t, <1>1, <2>2
  <2> QED BY <1>6, <2>1, <2>2
<1>7. \A i \in DOMAIN toServer' : In(toServer', toServer'[i])
  BY DEF In
<1>8. \A i \in DOMAIN fromServer' : In(fromServer', fromServer'[i])
  BY DEF In
<1>9. /\ driver'.nextId > 0
      /\ \A i \in DOMAIN toServer' :
            /\ toServer'[i].id < driver'.nextId
            /\ \A w \in clientWaiters' : toServer'[i].id = w.id => toServer'[i].ref = w.call
  BY <1>t, <1>3, <1>5, <1>7
<1>10. \A i \in DOMAIN fromServer' : fromServer'[i].kind = "reply" =>
            /\ fromServer'[i].id < driver'.nextId
            /\ \A w \in clientWaiters' :
                  fromServer'[i].id = w.id => fromServer'[i].ref = w.call
  BY <1>6, <1>8
<1> QED BY <1>4, <1>9, <1>10 DEF IdInv

\* A call is made and not given a reply yet, or given its own, or answered otherwise.
LEMMA OwnKept ==
    ASSUME TypeInv, OwnReplies
    PROVE  /\ UNCHANGED calls => OwnReplies'
           /\ \A r \in Calls : calls' = Append(calls, r) /\ r.got # "reply" => OwnReplies'
           /\ \A r, n : calls' = [calls EXCEPT ![n] = r] /\ (r.got = "reply" => r.of = n)
                            => OwnReplies'
<1>t. calls \in Seq(Calls) /\ DOMAIN calls = 1..Len(calls) /\ Len(calls) \in Nat
  BY DEF TypeInv
<1>1. UNCHANGED calls => OwnReplies'
  BY DEF OwnReplies
<1>2. ASSUME NEW r \in Calls, calls' = Append(calls, r), r.got # "reply"
      PROVE  OwnReplies'
  <2>1. /\ DOMAIN Append(calls, r) = 1..(Len(calls) + 1)
        /\ \A i \in DOMAIN calls : Append(calls, r)[i] = calls[i]
        /\ Append(calls, r)[Len(calls) + 1] = r
    BY <1>t
  <2>2. \A i \in DOMAIN calls' : i \in DOMAIN calls \/ i = Len(calls) + 1
    BY <1>t, <1>2, <2>1
  <2> QED BY <1>2, <2>1, <2>2 DEF OwnReplies
<1>3. ASSUME NEW r, NEW n, calls' = [calls EXCEPT ![n] = r], r.got = "reply" => r.of = n
      PROVE  OwnReplies'
  <2>1. \A i \in DOMAIN calls' :
           i \in DOMAIN calls /\ (calls'[i] = calls[i] \/ (i = n /\ calls'[i] = r))
    BY <1>t, <1>3
  <2> QED BY <1>3, <2>1 DEF OwnReplies
<1> QED BY <1>1, <1>2, <1>3

\* A tracked request takes a fresh id for itself and its waiter.
LEMMA TrackedIds ==
    ASSUME TypeInv, NEW n \in Nat, Track(n)
    PROVE  /\ driver'.nextId = driver.nextId + 1
           /\ \A w \in clientWaiters' :
                \/ w \in clientWaiters /\ w.id # driver.nextId
                \/ w.id = driver.nextId /\ w.call = n
           /\ \A l : In(toServer', l) =>
                In(toServer, l) \/ (l.id = driver.nextId /\ l.ref = n /\ l.kind = "request")
           /\ \A L : Has(toServer', L) =>
                Has(toServer, L) \/ Line("request", driver.nextId, n) \in L
<1>t. driver \in Drivers /\ driver.nextId \in Nat /\ toServer \in Seq(Written)
  BY DEF TypeInv, Drivers
<1>1. driver'.nextId = driver.nextId + 1
  BY <1>t DEF Track, Drivers
<1>2. \A w \in clientWaiters' :
                \/ w \in clientWaiters /\ w.id # driver.nextId
                \/ w.id = driver.nextId /\ w.call = n
  BY DEF Track
<1> DEFINE l == Line("request", driver.nextId, n)
<1>3. l \in Written /\ l.id = driver.nextId /\ l.ref = n /\ l.kind = "request"
  <2>1. "request" \in LineKinds /\ "request" # "turn/start"
    BY DEF LineKinds
  <2>2. l \in Lines /\ l.kind = "request" /\ l.id = driver.nextId /\ l.ref = n
    BY <1>t, <2>1, PlainLine
  <2> HIDE DEF l
  <2> QED BY <2>1, <2>2 DEF Written
<1>4. Write(<<l>>)
  BY DEF Track
<1> HIDE DEF l
<1>5. /\ \A x : In(toServer', x) => In(toServer, x) \/ x = l
      /\ \A L : Has(toServer', L) => Has(toServer, L) \/ l \in L
  BY <1>3, <1>4, WriteTypes
<1> QED BY <1>1, <1>2, <1>3, <1>5 DEF l

\* A dispatch takes a fresh id for its turn/start.
LEMMA DispatchedIds ==
    ASSUME TypeInv, NEW d \in Drivers, NEW q \in Seq(1..MaxTurns), TryDispatch(d, q),
           d.nextId = driver.nextId
    PROVE  /\ driver'.nextId >= driver.nextId
           /\ \A l : In(toServer', l) =>
                \/ In(toServer, l)
                \/ l.id = driver.nextId /\ driver'.nextId > driver.nextId
<1>t. d.nextId \in Nat /\ toServer \in Seq(Written)
  BY DEF TypeInv, Drivers
<1>1. driver'.nextId \in {d.nextId, d.nextId + 1}
  BY Dispatched
<1>2. CASE toServer' = toServer
  BY <1>t, <1>1, <1>2
<1>3. ASSUME NEW l \in Starts, toServer' = Append(toServer, l), l.id = d.nextId,
             driver'.nextId = d.nextId + 1
      PROVE  /\ driver'.nextId >= driver.nextId
             /\ \A x : In(toServer', x) =>
                  \/ In(toServer, x)
                  \/ x.id = driver.nextId /\ driver'.nextId > driver.nextId
  <2>1. \A x : In(toServer', x) => In(toServer, x) \/ x = l
    BY <1>t, <1>3, Appended DEF Starts
  <2> QED BY <1>t, <1>3, <2>1
<1> QED BY <1>2, <1>3, Dispatched

\* Users, callers and browsers.
LEMMA UserIds ==
    ASSUME TypeInv, TypeInv', IdInv,
           SendMessage \/ Call \/ (\E n \in DOMAIN calls : CallTimesOut(n))
               \/ (\E a \in 1..MaxAsks : Respond(a))
    PROVE  IdInv'
<1>t. /\ driver \in Drivers /\ driver.nextId \in Nat /\ toServer \in Seq(Written)
      /\ driver.active \in Nat /\ queue \in Seq(1..MaxTurns) /\ NewCall \in Nat
      /\ sent \in 0..MaxTurns
  BY SMTT(30), CallsTypes, CodexThreadAssumption DEF TypeInv, Drivers
<1>o. OwnReplies /\ \A w \in clientWaiters : w.id < driver.nextId
  BY DEF IdInv
<1>a. ASSUME NEW sub \in Subtypes, NEW got \in {"ok", "writeFailed"},
             calls' = Append(calls, Returned(sub, got))
      PROVE  OwnReplies'
  <2> DEFINE r == Returned(sub, got)
  <2>1. r \in Calls /\ r.got # "reply" /\ calls' = Append(calls, r)
    BY <1>a, CallsTypes
  <2> HIDE DEF r
  <2> QED BY <1>o, <2>1, OwnKept
<1>1. CASE SendMessage
  <2>1. /\ driver'.nextId >= driver.nextId
        /\ \A l : In(toServer', l) =>
             In(toServer, l) \/ (l.id = driver.nextId /\ driver'.nextId > driver.nextId)
    <3>1. CASE turn = 0
      <4>1. Append(queue, sent + 1) \in Seq(1..MaxTurns)
        BY <1>1, <1>t, CodexThreadAssumption DEF SendMessage
      <4> QED BY <1>1, <1>t, <3>1, <4>1, DispatchedIds DEF SendMessage
    <3>2. CASE turn # 0
      BY <1>1, <1>t, <3>2 DEF SendMessage
    <3> QED BY <3>1, <3>2
  <2>2. UNCHANGED <<clientWaiters, fromServer, calls>>
    BY <1>1 DEF SendMessage
  <2>3. \A w \in clientWaiters' : w.id # driver.nextId
    BY <1>t, <1>o, <2>2 DEF TypeInv
  <2> QED BY <1>o, <2>1, <2>2, <2>3, IdStep, OwnKept
<1>2. ASSUME NEW sub, OwnReplies', UNCHANGED fromServer, Track(NewCall)
      PROVE  IdInv'
  <2>1. driver'.nextId = driver.nextId + 1 /\ driver'.nextId > driver.nextId
    BY <1>2, <1>t, TrackedIds
  <2> QED BY <1>2, <1>t, <2>1, TrackedIds, IdStep
<1>3. ASSUME OwnReplies', UNCHANGED <<fromServer, clientWaiters, driver, toServer>>
      PROVE  IdInv'
  BY <1>3, <1>t, IdStep
<1>4. ASSUME NEW sub \in Subtypes, CallForData(sub)
      PROVE  IdInv'
  <2>1. OwnReplies'
    <3>1. \A r \in Calls : r.got # "reply" /\ calls' = Append(calls, r) => OwnReplies'
      BY <1>o, OwnKept
    <3> DEFINE failed == Returned(sub, "writeFailed")
               none   == Returned(sub, "noThread")
               waits  == [Returned(sub, "none") EXCEPT !.state = "waiting"]
    <3>2. /\ failed \in Calls /\ failed.got # "reply" /\ none \in Calls /\ none.got # "reply"
          /\ waits \in Calls /\ waits.got # "reply"
      BY CallsTypes
    <3>3. \/ calls' = Append(calls, failed) \/ calls' = Append(calls, none)
          \/ calls' = Append(calls, waits)
      BY <1>4 DEF CallForData, Answer
    <3> HIDE DEF failed, none, waits
    <3> QED BY <3>1, <3>2, <3>3
  <2> QED BY <1>4, <2>1, <1>2, <1>3 DEF CallForData, CallUnchanged
<1>5. ASSUME NEW sub \in Subtypes, CallTracked(sub)
      PROVE  IdInv'
  <2>1. OwnReplies'
    BY <1>5, <1>a DEF CallTracked, Answer
  <2> QED BY <1>5, <2>1, <1>2, <1>3 DEF CallTracked, CallUnchanged
<1>6. ASSUME NEW sub \in Subtypes, CallTurn(sub)
      PROVE  IdInv'
  <2>1. OwnReplies'
    BY <1>6, <1>a DEF CallTurn, Answer
  <2>2. CASE UNCHANGED <<driver, toServer>>
    BY <1>6, <2>1, <2>2, <1>3 DEF CallTurn, CallUnchanged
  <2>3. ASSUME NEW l \in Written, l.id = driver.nextId, Write(<<l>>),
               driver' = [driver EXCEPT !.nextId = @ + 1]
        PROVE  IdInv'
    <3>1. driver'.nextId = driver.nextId + 1
      BY <1>t, <2>3 DEF Drivers
    <3>2. driver'.nextId > driver.nextId
      BY <1>t, <3>1
    <3>3. \A x : In(toServer', x) => In(toServer, x) \/ x.id = driver.nextId
      <4>1. \A x : In(toServer', x) => In(toServer, x) \/ x = l
        BY <2>3, WriteTypes
      <4> QED BY <2>3, <4>1
    <3>4. UNCHANGED <<clientWaiters, fromServer>>
      BY <1>6 DEF CallTurn, CallUnchanged
    <3>5. \A w \in clientWaiters' : w.id # driver.nextId
      BY <1>t, <1>o, <3>4 DEF TypeInv
    <3> QED BY <1>t, <2>1, <3>1, <3>2, <3>3, <3>4, <3>5, IdStep
  <2>4. /\ Line("turn/steer", driver.nextId, driver.active) \in Written
        /\ Line("turn/steer", driver.nextId, driver.active).id = driver.nextId
        /\ Line("turn/interrupt", driver.nextId, 0) \in Written
        /\ Line("turn/interrupt", driver.nextId, 0).id = driver.nextId
    <3>1. /\ Line("turn/steer", driver.nextId, driver.active) \in Written
          /\ Line("turn/interrupt", driver.nextId, 0) \in Written
      BY <1>t, PlainLine DEF LineKinds, Written
    <3>2. /\ Line("turn/steer", driver.nextId, driver.active).id = driver.nextId
          /\ Line("turn/interrupt", driver.nextId, 0).id = driver.nextId
      BY DEF Line
    <3> QED BY <3>1, <3>2
  <2> QED BY <1>6, <2>2, <2>3, <2>4 DEF CallTurn
<1>7. ASSUME NEW sub \in Subtypes, CallSet(sub)
      PROVE  IdInv'
  <2>1. OwnReplies'
    BY <1>7, <1>a DEF CallSet, Answer
  <2> QED BY <1>7, <2>1, <1>3 DEF CallSet, CallUnchanged
<1>8. ASSUME NEW n \in DOMAIN calls, CallTimesOut(n)
      PROVE  IdInv'
  <2>1. calls' = [calls EXCEPT ![n] = Returned(calls[n].sub, "timeout")]
    BY <1>8 DEF CallTimesOut
  <2>2. OwnReplies'
    <3> DEFINE r == Returned(calls[n].sub, "timeout")
    <3>1. r \in Calls /\ r.got # "reply" /\ calls' = [calls EXCEPT ![n] = r]
      BY <2>1, CallsTypes
    <3> HIDE DEF r
    <3> QED BY <1>o, <3>1, OwnKept
  <2> QED BY <1>8, <2>2, <1>3 DEF CallTimesOut, driverVars, wireVars
<1>9. ASSUME NEW a \in 1..MaxAsks, Respond(a)
      PROVE  IdInv'
  <2>1. Line("response", 0, a) \in Written /\ Line("response", 0, a).id = 0
    BY PlainLine DEF LineKinds, Written
  <2>2. \A l : In(toServer', l) => In(toServer, l) \/ l.id = 0
    <3> DEFINE r == Line("response", 0, a)
    <3>0. Write(<<r>>) \/ Write(<<>>)
      BY <1>9 DEF Respond
    <3>1. r \in Written /\ r.id = 0
      BY <2>1
    <3> HIDE DEF r
    <3>2. \A l : In(toServer', l) => In(toServer, l) \/ l = r
      BY <3>0, <3>1, WriteTypes
    <3> QED BY <3>1, <3>2
  <2>3. UNCHANGED <<driver, clientWaiters, fromServer, calls>>
    BY <1>9 DEF Respond
  <2> QED BY <1>t, <1>o, <2>2, <2>3, IdStep, OwnKept
<1> QED BY <1>1, <1>4, <1>5, <1>6, <1>7, <1>8, <1>9 DEF Call

\* What reading a line leaves of the driver's fields.
LEMMA DriverReads ==
    ASSUME TypeInv
    PROVE  /\ AfterAck \in Drivers /\ TurnOver \in Drivers
           /\ AfterAck.nextId = driver.nextId /\ AfterAck.active = driver.active
           /\ AfterAck.phase = "Ready" /\ AfterAck.thread = TRUE
           /\ AfterAck.replay = driver.replay /\ TurnOver.replay = driver.replay
           /\ TurnOver.nextId = driver.nextId /\ TurnOver.active = 0
           /\ TurnOver.phase = driver.phase /\ TurnOver.thread = driver.thread
           /\ \A m \in 0..MaxTurns :
                /\ [driver EXCEPT !.active = m] \in Drivers
                /\ [driver EXCEPT !.active = m].nextId = driver.nextId
                /\ [driver EXCEPT !.active = m].phase = driver.phase
                /\ [driver EXCEPT !.active = m].thread = driver.thread
                /\ [driver EXCEPT !.active = m].active = m
                /\ [driver EXCEPT !.active = m].replay = driver.replay
<1>1. driver \in Drivers /\ 0 \in 0..MaxTurns
  BY CodexThreadAssumption DEF TypeInv
<1>2. /\ AfterAck \in Drivers
      /\ AfterAck.nextId = driver.nextId /\ AfterAck.active = driver.active
      /\ AfterAck.phase = "Ready" /\ AfterAck.thread = TRUE
      /\ AfterAck.replay = driver.replay
  BY <1>1 DEF AfterAck, Drivers
<1>3. ASSUME NEW m \in 0..MaxTurns
      PROVE  /\ [driver EXCEPT !.active = m] \in Drivers
             /\ [driver EXCEPT !.active = m].nextId = driver.nextId
             /\ [driver EXCEPT !.active = m].phase = driver.phase
             /\ [driver EXCEPT !.active = m].thread = driver.thread
             /\ [driver EXCEPT !.active = m].active = m
             /\ [driver EXCEPT !.active = m].replay = driver.replay
  BY <1>1 DEF Drivers
<1>4. /\ TurnOver \in Drivers /\ TurnOver.nextId = driver.nextId /\ TurnOver.active = 0
      /\ TurnOver.phase = driver.phase /\ TurnOver.thread = driver.thread
      /\ TurnOver.replay = driver.replay
  BY <1>1, <1>3 DEF TurnOver
<1> QED BY <1>2, <1>3, <1>4

\* A line that is read.
LEMMA ReadIds ==
    ASSUME TypeInv, TypeInv', IdInv, ReadLine
    PROVE  IdInv'
<1> DEFINE line == Head(fromServer)
<1>t. /\ driver \in Drivers /\ driver.nextId \in Nat /\ queue \in Seq(1..MaxTurns)
      /\ fromServer \in Seq(Told)
  BY DEF TypeInv, Drivers
<1>o. OwnReplies /\ \A w \in clientWaiters : w.id \in Nat /\ w.id < driver.nextId
  BY DEF IdInv, TypeInv
<1>k. \A k : Incoming(k) => line.kind = k /\ line \in Told /\ In(fromServer, line)
  BY <1>t, Taken DEF Incoming
<1>f. fromServer # <<>> /\ Consume
  BY DEF ReadLine, ReadReply, ReadThreadStarted, ReadTurnStarted, ReadTurnEnded, ReadError,
         ReadAsk, Incoming
<1>c. \A l : In(fromServer', l) => In(fromServer, l)
  BY <1>t, <1>f, Taken DEF Consume
<1> HIDE DEF line
<1>1. \* The driver, the waiters and the calls after the step.
      ASSUME /\ driver'.nextId >= driver.nextId
             /\ \A l : In(toServer', l) =>
                   \/ In(toServer, l)
                   \/ l.id = driver.nextId /\ driver'.nextId > driver.nextId,
             clientWaiters' \subseteq clientWaiters, OwnReplies'
      PROVE  IdInv'
  <2>1. \A w \in clientWaiters' : w.id # driver.nextId
    BY <1>t, <1>o, <1>1
  <2> QED BY <1>1, <1>c, <2>1, IdStep
<1>2. ASSUME UNCHANGED driver \/ driver'.nextId = driver.nextId, UNCHANGED toServer
      PROVE  /\ driver'.nextId >= driver.nextId
             /\ \A l : In(toServer', l) =>
                   \/ In(toServer, l)
                   \/ l.id = driver.nextId /\ driver'.nextId > driver.nextId
  BY <1>t, <1>2
<1>3. ASSUME ThreadOpens(AfterAck)
      PROVE  /\ driver'.nextId >= driver.nextId
             /\ \A l : In(toServer', l) =>
                   \/ In(toServer, l)
                   \/ l.id = driver.nextId /\ driver'.nextId > driver.nextId
  <2>1. CASE TryDispatch(AfterAck, queue)
    BY <1>t, <2>1, DriverReads, DispatchedIds
  <2>2. CASE driver' = AfterAck /\ UNCHANGED toServer
    BY <1>2, <2>2, DriverReads
  <2> QED BY <1>3, <2>1, <2>2 DEF ThreadOpens
<1>4. CASE ReadReply
  <2>1. /\ driver'.nextId >= driver.nextId
        /\ \A l : In(toServer', l) =>
              \/ In(toServer, l)
              \/ l.id = driver.nextId /\ driver'.nextId > driver.nextId
    BY <1>4, <1>2, <1>3 DEF ReadReply
  <2>2. clientWaiters' \subseteq clientWaiters /\ OwnReplies'
    <3>1. CASE UNCHANGED <<clientWaiters, calls>>
      BY <1>o, <3>1, OwnKept
    <3>2. ASSUME NEW w \in clientWaiters, w.id = line.id, DeliverReply(line, w)
          PROVE  clientWaiters' \subseteq clientWaiters /\ OwnReplies'
      <4>1. line.ref = w.call
        <5>1. In(fromServer, line) /\ line.kind = "reply"
          BY <1>4, <1>k DEF ReadReply
        <5> QED BY <3>2, <5>1 DEF IdInv, In
      <4> DEFINE r == [Returned(calls[w.call].sub, "reply") EXCEPT !.of = line.ref]
      <4>2. calls' = calls \/ calls' = [calls EXCEPT ![w.call] = r]
        BY <3>2 DEF DeliverReply
      <4>3. r.of = w.call
        BY <4>1 DEF Returned
      <4> HIDE DEF r
      <4>4. OwnReplies'
        BY <1>o, <4>2, <4>3, OwnKept
      <4> QED BY <3>2, <4>4 DEF DeliverReply
    <3> QED BY <1>4, <3>1, <3>2 DEF ReadReply, line
  <2> QED BY <1>1, <2>1, <2>2
<1>5. CASE ReadThreadStarted
  <2>1. UNCHANGED <<clientWaiters, calls>>
    BY <1>5 DEF ReadThreadStarted
  <2> QED BY <1>5, <1>o, <1>1, <1>3, <2>1, OwnKept DEF ReadThreadStarted
<1>6. CASE ReadTurnStarted
  <2>1. UNCHANGED <<clientWaiters, calls, toServer>>
    BY <1>6 DEF ReadTurnStarted
  <2>2. driver'.nextId = driver.nextId
    <3>1. line.ref \in 0..MaxTurns
      BY <1>6, <1>k DEF ReadTurnStarted, Told
    <3> QED BY <1>6, <3>1, DriverReads DEF ReadTurnStarted, line
  <2> QED BY <1>o, <1>1, <1>2, <2>1, <2>2, OwnKept
<1>7. CASE ReadTurnEnded
  <2>1. UNCHANGED <<clientWaiters, calls>> /\ TryDispatch(TurnOver, queue)
    BY <1>7 DEF ReadTurnEnded
  <2>2. /\ driver'.nextId >= driver.nextId
        /\ \A l : In(toServer', l) =>
              \/ In(toServer, l)
              \/ l.id = driver.nextId /\ driver'.nextId > driver.nextId
    BY <1>t, <2>1, DriverReads, DispatchedIds
  <2> QED BY <1>o, <1>1, <2>1, <2>2, OwnKept
<1>8. CASE ReadError \/ ReadAsk
  <2>1. UNCHANGED <<clientWaiters, calls, toServer>>
    BY <1>8 DEF ReadError, ReadAsk
  <2>2. driver'.nextId = driver.nextId
    BY <1>8, DriverReads DEF ReadError, ReadAsk
  <2> QED BY <1>o, <1>1, <1>2, <2>1, <2>2, OwnKept
<1> QED BY <1>4, <1>5, <1>6, <1>7, <1>8 DEF ReadLine

\* What the app-server does leaves the driver alone; what it serves, it takes off its pipe.
LEMMA ServerLeaves ==
    ASSUME TypeInv, Serve \/ ServerAsks \/ ServerCompletesTurn \/ ServerFailsTurn
    PROVE  /\ UNCHANGED <<driver, pending, clientWaiters, calls, turn, history, up>>
           /\ Serve => toServer # <<>> /\ toServer' = Tail(toServer)
           /\ ~Serve => UNCHANGED toServer
<1>1. CASE Serve
  <2>1. \E lines : Served(lines)
    BY <1>1 DEF Serve, ServerInitializes, ServerOpensThread, ServerResumesThread,
         ServerRefusesThread, ServerStartsTurn, ServerRefusesTurn, ServerInterrupts,
         ServerSteers, ServerServes, ServerTakesAnswer
  <2>2. toServer # <<>>
    BY <1>1 DEF Serve, ServerInitializes, ServerOpensThread, ServerResumesThread,
         ServerRefusesThread, ServerStartsTurn, ServerRefusesTurn, ServerInterrupts,
         ServerSteers, ServerServes, ServerTakesAnswer, Reads
  <2> QED BY <1>1, <2>1, <2>2 DEF Served, ServerUnchanged, driverVars, actorVars, userVars
<1>2. CASE ~Serve
  BY <1>2 DEF ServerAsks, ServerCompletesTurn, ServerFailsTurn, ServerUnchanged,
              driverVars, actorVars, userVars
<1> QED BY <1>1, <1>2

-----------------------------------------------------------------------------
(* The lines of the app-server *)

AskLines(a) == {l \in Told : l.kind = "ask" /\ l.ref = a}
Begun  == {l \in Told : l.kind = "turn/started"}
Ends   == {l \in Told : l.kind \in {"turn/completed", "turn/failed"}}

\* t has the prompts and the news of turns that s has.
Alike(s, t) ==
    /\ \A a : /\ Has(t, AskLines(a)) => Has(s, AskLines(a))
              /\ Once(s, AskLines(a)) => Once(t, AskLines(a))
    /\ Has(t, Ends) => Has(s, Ends)
    /\ Has(t, Begun) => Has(s, Begun)
    /\ Once(s, Ends) => Once(t, Ends)
    /\ Before(s, Begun, Ends) => Before(t, Begun, Ends)
    /\ \A l \in Begun : In(t, l) => In(s, l)

\* A reply, thread/started or error on the pipe, and lines read from it, change none of them.
LEMMA QuietLine ==
    ASSUME NEW s \in Seq(Told), NEW l \in Told,
           l.kind \in {"reply", "thread/started", "error"}
    PROVE  Append(s, l) \in Seq(Told) /\ Alike(s, Append(s, l))
<1>1. /\ l \notin Ends /\ l \notin Begun
      /\ \A a : l \notin AskLines(a)
  BY DEF Ends, Begun, AskLines
<1>2. /\ Append(s, l) \in Seq(Told)
      /\ \A y : In(Append(s, l), y) => In(s, y) \/ y = l
      /\ \A L : l \notin L => (Has(Append(s, l), L) => Has(s, L))
      /\ \A L : l \notin L => (Once(s, L) => Once(Append(s, l), L))
      /\ \A K, L : l \notin K => (Before(s, K, L) => Before(Append(s, l), K, L))
  BY Appended
<1>3. \A a : /\ Has(Append(s, l), AskLines(a)) => Has(s, AskLines(a))
             /\ Once(s, AskLines(a)) => Once(Append(s, l), AskLines(a))
  BY <1>1, <1>2
<1>4. /\ Has(Append(s, l), Ends) => Has(s, Ends)
      /\ Has(Append(s, l), Begun) => Has(s, Begun)
      /\ Once(s, Ends) => Once(Append(s, l), Ends)
      /\ Before(s, Begun, Ends) => Before(Append(s, l), Begun, Ends)
      /\ \A y \in Begun : In(Append(s, l), y) => In(s, y)
  BY <1>1, <1>2
<1> QED BY <1>2, <1>3, <1>4 DEF Alike

\* Reading a line takes news away and adds none.
LEMMA TailAlike ==
    ASSUME NEW s \in Seq(Told), s # <<>>
    PROVE  Tail(s) \in Seq(Told) /\ Alike(s, Tail(s))
BY Taken DEF Alike

\* One after the other.
LEMMA AlikeTwice ==
    ASSUME NEW s, NEW t, NEW u, Alike(s, t), Alike(t, u)
    PROVE  Alike(s, u)
BY DEF Alike

Answering(l) == l.kind = "reply" /\ l.id = Request.id /\ l.ref = Request.ref

\* Replies to the request it serves, thread/started and errors, which leave the turn and
\* the prompts of the app-server as they are; and then perhaps the news that a turn has
\* begun, that it has ended, or a prompt.
Tells ==
    \E t \in Seq(Told) :
        /\ Alike(fromServer, t)
        /\ \A l : In(t, l) =>
              In(fromServer, l) \/ l.kind # "reply" \/ (Serve /\ Answering(l))
        /\ server'.alive = server.alive /\ up
        /\ \/ /\ fromServer' = t
              /\ server'.turn = server.turn /\ server'.asked = server.asked
           \/ \E l \in Begun :
                /\ fromServer' = Append(t, l) /\ l.ref \in {0, Request.ref}
                /\ Serve /\ Request \in Starts
                /\ server.turn = 0 /\ server'.turn = Request.ref
                /\ server'.asked = server.asked
           \/ \E l \in Ends :
                /\ fromServer' = Append(t, l)
                /\ server.turn # 0 /\ server'.turn = 0
                /\ server'.asked = server.asked
           \/ \E l \in Told :
                /\ fromServer' = Append(t, l) /\ l \in AskLines(server.asked + 1)
                /\ server'.asked = server.asked + 1 /\ server'.turn = server.turn

\* That is what a step of the app-server tells.
LEMMA ServerTells ==
    ASSUME TypeInv, Serve \/ ServerAsks \/ ServerCompletesTurn \/ ServerFailsTurn
    PROVE  Tells
<1>t. fromServer \in Seq(Told) /\ server \in Servers
  BY DEF TypeInv
<1>z. Alike(fromServer, fromServer)
  BY DEF Alike
<1>q. ASSUME NEW s \in Seq(Told), NEW l \in Told, Alike(fromServer, s),
             l.kind \in {"reply", "thread/started", "error"}
      PROVE  /\ Append(s, l) \in Seq(Told) /\ Alike(fromServer, Append(s, l))
             /\ \A x : In(Append(s, l), x) => In(s, x) \/ x = l
  BY <1>q, QuietLine, AlikeTwice, Appended
<1>r. ASSUME Serve, toServer # <<>>, NEW b \in BOOLEAN
      PROVE  Reply(b) \in Told /\ Reply(b).kind = "reply" /\ Answering(Reply(b))
  BY <1>r, RequestTypes DEF Answering
<1>a. ASSUME Serve, toServer # <<>>, NEW b \in BOOLEAN
      PROVE  /\ Append(fromServer, Reply(b)) \in Seq(Told)
             /\ Alike(fromServer, Append(fromServer, Reply(b)))
             /\ \A x : In(Append(fromServer, Reply(b)), x) => In(fromServer, x) \/ Answering(x)
  <2> DEFINE r == Reply(b)
  <2>1. r \in Told /\ r.kind = "reply" /\ Answering(r)
    BY <1>a, <1>r
  <2> HIDE DEF r
  <2>2. /\ Append(fromServer, r) \in Seq(Told) /\ Alike(fromServer, Append(fromServer, r))
        /\ \A x : In(Append(fromServer, r), x) => In(fromServer, x) \/ x = r
    BY <1>t, <1>z, <1>q, <2>1
  <2>3. \A x : In(Append(fromServer, r), x) => In(fromServer, x) \/ Answering(x)
    BY <2>1, <2>2
  <2> QED BY <2>2, <2>3 DEF r
<1>s. Serve => toServer # <<>>
  BY DEF Serve, ServerInitializes, ServerOpensThread, ServerResumesThread,
         ServerRefusesThread, ServerStartsTurn, ServerRefusesTurn, ServerInterrupts,
         ServerSteers, ServerServes, ServerTakesAnswer, Reads
<1>u. up
  BY DEF Serve, ServerInitializes, ServerOpensThread, ServerResumesThread,
         ServerRefusesThread, ServerStartsTurn, ServerRefusesTurn, ServerInterrupts,
         ServerSteers, ServerServes, ServerTakesAnswer, Reads, ServerAsks,
         ServerCompletesTurn, ServerFailsTurn, InTurn
<1>n. /\ NoTurnLeft.turn = 0 /\ NoTurnLeft.asked = server.asked
      /\ NoTurnLeft.alive = server.alive
  BY <1>t DEF NoTurnLeft, Servers
<1>e. ASSUME server.turn # 0, NEW k \in {"turn/completed", "turn/failed"}
      PROVE  Line(k, 0, server.turn) \in Ends
  <2>1. server.turn \in 0..MaxTurns
    BY <1>t, ServerTypes
  <2> QED BY <2>1, ToldLines DEF Ends
<1>1. \* A reply only, with its turn and prompts as they were.
      ASSUME NEW r \in Told, r.kind = "reply", Answering(r), Serve, Served(<<r>>),
             server'.turn = server.turn, server'.asked = server.asked,
             server'.alive = server.alive
      PROVE  Tells
  <2>1. fromServer' = Append(fromServer, r)
    BY <1>1, TellTypes DEF Served
  <2>2. /\ Append(fromServer, r) \in Seq(Told) /\ Alike(fromServer, Append(fromServer, r))
        /\ \A x : In(Append(fromServer, r), x) => In(fromServer, x) \/ x = r
    BY <1>1, <1>t, <1>z, <1>q
  <2>3. \A x : In(Append(fromServer, r), x) => In(fromServer, x) \/ Answering(x)
    BY <1>1, <2>2
  <2> QED BY <1>1, <1>u, <2>1, <2>2, <2>3 DEF Tells
<1>2. CASE ServerInitializes \/ ServerResumesThread \/ ServerServes \/ ServerRefusesTurn
              \/ ServerSteers \/ (ServerInterrupts /\ server.turn = 0)
  <2>1. Serve /\ UNCHANGED server /\ \E b \in BOOLEAN : Served(<<Reply(b)>>)
    BY <1>2 DEF Serve, ServerInitializes, ServerResumesThread, ServerServes,
                ServerRefusesTurn, ServerSteers, ServerInterrupts
  <2>2. PICK b \in BOOLEAN : Served(<<Reply(b)>>)
    BY <2>1
  <2> DEFINE r == Reply(b)
  <2>3. r \in Told /\ r.kind = "reply" /\ Answering(r) /\ Served(<<r>>)
    BY <1>r, <1>s, <2>1, <2>2
  <2> HIDE DEF r
  <2> QED BY <1>1, <2>1, <2>3
<1>3. CASE ServerRefusesThread
  <2>1. Serve /\ Served(<<Reply(FALSE)>>) /\ server' = [server EXCEPT !.refused = TRUE]
    BY <1>3 DEF Serve, ServerRefusesThread
  <2>2. /\ server'.turn = server.turn /\ server'.asked = server.asked
        /\ server'.alive = server.alive
    BY <1>t, <2>1 DEF Servers
  <2> DEFINE r == Reply(FALSE)
  <2>3. r \in Told /\ r.kind = "reply" /\ Answering(r) /\ Served(<<r>>)
    BY <1>r, <1>s, <2>1
  <2> HIDE DEF r
  <2> QED BY <1>1, <2>1, <2>2, <2>3
<1>4. CASE ServerTakesAnswer
  <2>1. Serve /\ Served(<<>>) /\ server' = [server EXCEPT !.open = @ \ {Request.ref}]
    BY <1>4 DEF Serve, ServerTakesAnswer
  <2>2. /\ server'.turn = server.turn /\ server'.asked = server.asked
        /\ server'.alive = server.alive
    BY <1>t, <2>1 DEF Servers
  <2>3. fromServer' = fromServer
    BY <2>1, TellTypes DEF Served
  <2> QED BY <1>t, <1>u, <1>z, <2>1, <2>2, <2>3 DEF Tells
<1>5. CASE ServerOpensThread
  <2> DEFINE r == Reply(TRUE)
             n == Line("thread/started", 0, 0)
  <2>1. /\ Serve /\ server' = [server EXCEPT !.set = Request.set]
        /\ Served(<<r, n>>) \/ Served(<<n, r>>)
    BY <1>5 DEF Serve, ServerOpensThread
  <2>2. /\ server'.turn = server.turn /\ server'.asked = server.asked
        /\ server'.alive = server.alive
    BY <1>t, <2>1 DEF Servers
  <2>3. r \in Told /\ r.kind = "reply" /\ Answering(r) /\ n \in Told /\ n.kind = "thread/started"
    BY <1>r, <1>s, <2>1, ToldLines
  <2> HIDE DEF r, n
  <2>4. \/ fromServer' = Append(Append(fromServer, r), n)
        \/ fromServer' = Append(Append(fromServer, n), r)
    BY <2>1, <2>3, TellTypes DEF Served
  <2>5. ASSUME NEW x \in {r, n}, NEW y \in {r, n}
        PROVE  /\ Append(Append(fromServer, x), y) \in Seq(Told)
               /\ Alike(fromServer, Append(Append(fromServer, x), y))
               /\ \A z : In(Append(Append(fromServer, x), y), z)
                            => In(fromServer, z) \/ z = x \/ z = y
    <3>1. /\ Append(fromServer, x) \in Seq(Told) /\ Alike(fromServer, Append(fromServer, x))
          /\ \A z : In(Append(fromServer, x), z) => In(fromServer, z) \/ z = x
      BY <1>t, <1>z, <1>q, <2>3
    <3> QED BY <1>q, <2>3, <3>1
  <2>6. /\ fromServer' \in Seq(Told) /\ Alike(fromServer, fromServer')
        /\ \A z : In(fromServer', z) => In(fromServer, z) \/ z = r \/ z = n
    BY <2>4, <2>5
  <2>7. \A z : In(fromServer', z) => In(fromServer, z) \/ z.kind # "reply" \/ Answering(z)
    BY <2>3, <2>6
  <2> QED BY <1>u, <2>1, <2>2, <2>6, <2>7 DEF Tells
<1>6. CASE ServerStartsTurn
  <2>1. PICK id \in {0, Request.ref} : Served(<<Reply(TRUE), Line("turn/started", 0, id)>>)
    BY <1>6 DEF ServerStartsTurn
  <2>2. /\ Serve /\ server.turn = 0 /\ toServer # <<>> /\ Request.kind = "turn/start"
        /\ server' = [server EXCEPT !.turn = Request.ref,
                                    !.set = Merged(Request.set, server.set)]
    BY <1>6 DEF Serve, ServerStartsTurn, Reads, Request
  <2>3. /\ server'.turn = Request.ref /\ server'.asked = server.asked
        /\ server'.alive = server.alive
    BY <1>t, <2>2 DEF Servers
  <2>4. Request \in Starts /\ Request.ref \in 0..MaxTurns /\ id \in 0..MaxTurns
    <3>1. Request \in Written /\ Request.ref \in 1..MaxTurns
      BY <2>2, RequestTypes
    <3> QED BY <2>2, <3>1, CodexThreadAssumption DEF Starts
  <2> DEFINE l == Line("turn/started", 0, id)
             r == Reply(TRUE)
  <2>5. l \in Told /\ l \in Begun /\ l.ref = id /\ r \in Told
    <3>1. l \in Told /\ l.kind = "turn/started" /\ l.ref = id
      BY <2>4, ToldLines
    <3>2. r \in Told
      BY <1>r, <2>2
    <3> QED BY <3>1, <3>2 DEF Begun
  <2>6. /\ Append(fromServer, r) \in Seq(Told) /\ Alike(fromServer, Append(fromServer, r))
        /\ \A x : In(Append(fromServer, r), x) => In(fromServer, x) \/ Answering(x)
    BY <1>a, <2>2
  <2> HIDE DEF l, r
  <2>7. fromServer' = Append(Append(fromServer, r), l)
    BY <2>1, <2>5, TellTypes DEF Served, l, r
  <2> QED BY <1>u, <2>1, <2>2, <2>3, <2>4, <2>5, <2>6, <2>7 DEF Tells
<1>7. CASE ServerInterrupts /\ server.turn # 0
  <2> DEFINE l == Line("turn/completed", 0, server.turn)
             r == Reply(TRUE)
  <2>1. Serve /\ Served(<<r, l>>) /\ server' = NoTurnLeft
    BY <1>7 DEF Serve, ServerInterrupts
  <2>2. l \in Ends /\ l \in Told /\ r \in Told
    BY <1>7, <1>e, <1>r, <1>s, <2>1 DEF Ends
  <2>3. /\ Append(fromServer, r) \in Seq(Told) /\ Alike(fromServer, Append(fromServer, r))
        /\ \A x : In(Append(fromServer, r), x) => In(fromServer, x) \/ Answering(x)
    BY <1>a, <1>s, <2>1
  <2> HIDE DEF l, r
  <2>4. fromServer' = Append(Append(fromServer, r), l)
    BY <2>1, <2>2, TellTypes DEF Served
  <2> QED BY <1>7, <1>n, <1>u, <2>1, <2>2, <2>3, <2>4 DEF Tells
<1>8. CASE ServerAsks
  <2> DEFINE a == server.asked + 1
             l == Line("ask", a, a)
  <2>1. /\ Tell(<<l>>) /\ server' = [server EXCEPT !.asked = @ + 1, !.open = @ \cup {a}]
        /\ server.asked < MaxAsks
    BY <1>8 DEF ServerAsks, InTurn
  <2>2. server.asked \in Nat /\ a \in 1..MaxAsks
    BY <1>t, <2>1, CodexThreadAssumption DEF Servers
  <2>3. /\ server'.turn = server.turn /\ server'.asked = a
        /\ server'.alive = server.alive
    BY <1>t, <2>1 DEF Servers
  <2>4. l \in Told /\ l \in AskLines(a)
    BY <2>2, ToldLines DEF AskLines
  <2> HIDE DEF l
  <2>5. fromServer' = Append(fromServer, l)
    BY <2>1, <2>4, TellTypes
  <2> QED BY <1>t, <1>u, <1>z, <2>1, <2>3, <2>4, <2>5 DEF Tells
<1>9. \* The end of a turn, after an error or none.
      ASSUME server.turn # 0, server' = NoTurnLeft, NEW l \in Ends,
             NEW x \in Told, x.kind = "error", Tell(<<l>>) \/ Tell(<<x, l>>)
      PROVE  Tells
  <2>0. l \in Told
    BY DEF Ends
  <2>1. CASE Tell(<<l>>)
    <3>1. fromServer' = Append(fromServer, l)
      BY <2>0, <2>1, TellTypes
    <3> QED BY <1>9, <1>n, <1>u, <1>t, <1>z, <3>1 DEF Tells
  <2>2. CASE Tell(<<x, l>>)
    <3>1. fromServer' = Append(Append(fromServer, x), l)
      BY <2>0, <2>2, TellTypes
    <3>2. /\ Append(fromServer, x) \in Seq(Told) /\ Alike(fromServer, Append(fromServer, x))
          /\ \A z : In(Append(fromServer, x), z) => In(fromServer, z) \/ z = x
      BY <1>9, <1>t, <1>z, <1>q
    <3>3. \A z : In(Append(fromServer, x), z) => In(fromServer, z) \/ z.kind # "reply"
      BY <1>9, <3>2
    <3> QED BY <1>9, <1>n, <1>u, <3>1, <3>2, <3>3 DEF Tells
  <2> QED BY <1>9, <2>1, <2>2
<1>10. CASE ServerCompletesTurn
  <2>1. /\ server.turn # 0 /\ server' = NoTurnLeft
        /\ \/ Tell(<<Line("turn/completed", 0, server.turn)>>)
           \/ Tell(<<Line("error", 0, 0), Line("turn/completed", 0, server.turn)>>)
    BY <1>10 DEF ServerCompletesTurn, InTurn
  <2> DEFINE l == Line("turn/completed", 0, server.turn)
             x == Line("error", 0, 0)
  <2>2. l \in Ends /\ x \in Told /\ x.kind = "error"
    BY <1>e, <2>1, ToldLines
  <2>3. Tell(<<l>>) \/ Tell(<<x, l>>)
    BY <2>1
  <2> HIDE DEF l, x
  <2> QED BY <1>9, <2>1, <2>2, <2>3
<1>11. CASE ServerFailsTurn
  <2>1. /\ server.turn # 0 /\ server' = NoTurnLeft
        /\ \/ Tell(<<Line("turn/failed", 0, server.turn)>>)
           \/ Tell(<<[Line("error", 0, 0) EXCEPT !.ok = FALSE],
                     Line("turn/failed", 0, server.turn)>>)
    BY <1>11 DEF ServerFailsTurn, InTurn
  <2> DEFINE l == Line("turn/failed", 0, server.turn)
             x == [Line("error", 0, 0) EXCEPT !.ok = FALSE]
  <2>2. l \in Ends /\ x \in Told /\ x.kind = "error"
    BY <1>e, <2>1, ToldLines
  <2>3. Tell(<<l>>) \/ Tell(<<x, l>>)
    BY <2>1
  <2> HIDE DEF l, x
  <2> QED BY <1>9, <2>1, <2>2, <2>3
<1> QED BY <1>2, <1>3, <1>4, <1>5, <1>6, <1>7, <1>8, <1>10, <1>11 DEF Serve

\* The app-server, serving or of itself.
LEMMA ServerIds ==
    ASSUME TypeInv, TypeInv', IdInv,
           Serve \/ ServerAsks \/ ServerCompletesTurn \/ ServerFailsTurn
    PROVE  IdInv'
<1>t. /\ toServer \in Seq(Written) /\ driver.nextId \in Nat
      /\ \A w \in clientWaiters : w.id \in Nat /\ w.id < driver.nextId
  BY DEF TypeInv, Drivers, IdInv
<1>1. UNCHANGED <<driver, clientWaiters, calls>>
  BY ServerLeaves
<1>2. \A l : In(toServer', l) => In(toServer, l)
  BY <1>t, ServerLeaves, Taken
<1>3. ASSUME NEW l, In(fromServer', l), l.kind = "reply"
      PROVE  In(fromServer, l) \/ \E m : In(toServer, m) /\ m.id = l.id /\ m.ref = l.ref
  <2>1. In(fromServer, l) \/ (Serve /\ Answering(l))
    <3>1. PICK t \in Seq(Told) :
             /\ \A x : In(t, x) =>
                   In(fromServer, x) \/ x.kind # "reply" \/ (Serve /\ Answering(x))
             /\ \/ fromServer' = t
                \/ \E x \in Told : fromServer' = Append(t, x) /\ x.kind # "reply"
      BY ServerTells DEF Tells, Begun, Ends, AskLines
    <3>2. In(t, l) \/ l.kind # "reply"
      <4>1. CASE fromServer' = t
        BY <1>3, <4>1
      <4>2. ASSUME NEW x \in Told, fromServer' = Append(t, x), x.kind # "reply"
            PROVE  In(t, l) \/ l.kind # "reply"
        <5>1. In(t, l) \/ l = x
          BY <1>3, <4>2, Appended
        <5> QED BY <4>2, <5>1
      <4> QED BY <3>1, <4>1, <4>2
    <3> QED BY <1>3, <3>1, <3>2
  <2>2. Serve => In(toServer, Request)
    BY ServerLeaves, RequestTypes DEF Serve, ServerInitializes, ServerOpensThread,
       ServerResumesThread, ServerRefusesThread, ServerStartsTurn, ServerRefusesTurn,
       ServerInterrupts, ServerSteers, ServerServes, ServerTakesAnswer, Reads
  <2> QED BY <2>1, <2>2 DEF Answering
<1>4. OwnReplies'
  BY <1>1, OwnKept DEF IdInv
<1> QED BY <1>t, <1>1, <1>2, <1>3, <1>4, IdStep

\* The end of the session, of the app-server, or nothing.
LEMMA OtherIds ==
    ASSUME TypeInv, TypeInv', IdInv, Stop \/ HandleEof \/ ServerDies \/ UNCHANGED vars
    PROVE  IdInv'
<1>t. driver.nextId \in Nat /\ \A w \in clientWaiters : w.id \in Nat /\ w.id < driver.nextId
  BY DEF TypeInv, Drivers, IdInv
<1>1. UNCHANGED <<driver, clientWaiters>>
  BY DEF Stop, HandleEof, ServerDies, EndSession, ServerUnchanged, driverVars, vars
<1>2. /\ toServer' = toServer \/ toServer' = <<>>
      /\ fromServer' = fromServer \/ fromServer' = <<>>
  BY DEF Stop, HandleEof, ServerDies, EndSession, wireVars, vars
<1>3. /\ \A l : In(toServer', l) => In(toServer, l)
      /\ \A l : In(fromServer', l) => In(fromServer, l)
  BY <1>2, Emptied
<1>4. OwnReplies'
  <2>1. CASE EndSession
    <3>1. calls' = [n \in DOMAIN calls |->
             IF calls[n].state = "waiting" THEN Returned(calls[n].sub, "closed") ELSE calls[n]]
      BY <2>1 DEF EndSession
    <3>2. \A n \in DOMAIN calls' : n \in DOMAIN calls /\ (calls'[n].got = "closed" \/ calls'[n] = calls[n])
      BY <3>1 DEF Returned
    <3> QED BY <3>2 DEF IdInv, OwnReplies
  <2>2. CASE UNCHANGED calls
    BY <2>2, OwnKept DEF IdInv
  <2> QED BY <2>1, <2>2 DEF Stop, HandleEof, ServerDies, ServerUnchanged, userVars, vars
<1> QED BY <1>t, <1>1, <1>3, <1>4, IdStep

\* The handshake carries the ids 1 and 2, and nothing waits.
LEMMA InitIds ==
    ASSUME Init
    PROVE  IdInv
<1>1. driver.nextId = 3 /\ clientWaiters = {} /\ fromServer = <<>> /\ calls = <<>>
  BY DEF Init
<1>2. \A i \in DOMAIN toServer : toServer[i].id \in {1, 2}
  <2> DEFINE x == Line("initialize", 1, 0)
             y == IF startup.resume THEN Line("thread/resume", 2, 0)
                  ELSE [Line("thread/start", 2, 0) EXCEPT !.set = OpenSettings]
  <2>1. x.id = 1 /\ y.id = 2
    BY DEF Line
  <2>2. toServer = <<x, y>>
    BY DEF Init, Handshake
  <2> HIDE DEF x, y
  <2> QED BY <2>1, <2>2
<1>3. \A i \in DOMAIN toServer : toServer[i].id < driver.nextId
  BY <1>1, <1>2
<1> QED BY <1>1, <1>3 DEF IdInv, OwnReplies

-----------------------------------------------------------------------------
(* Prompts *)

\* A prompt is on the pipe, then pending, then answered, one after the other.
AskInv ==
    \A a \in 1..MaxAsks :
        /\ Once(fromServer, AskLines(a))
        /\ Has(fromServer, AskLines(a)) =>
              a \notin pending /\ history.responses[a] = 0 /\ a <= server.asked
        /\ a \in pending => history.responses[a] = 0 /\ a <= server.asked
        /\ a > server.asked => history.responses[a] = 0
        /\ history.responses[a] <= 1

\* Lines that are no prompts come and go.
LEMMA AskStep ==
    ASSUME AskInv, \A a : /\ Has(fromServer', AskLines(a)) => Has(fromServer, AskLines(a))
                          /\ Once(fromServer, AskLines(a)) => Once(fromServer', AskLines(a)),
           UNCHANGED pending, history'.responses = history.responses,
           server'.asked = server.asked
    PROVE  AskInv'
BY DEF AskInv

\* Nothing but a prompt of the app-server, its arrival and its answer concerns prompts.
LEMMA AskKept ==
    ASSUME TypeInv, AskInv, [Next]_vars
    PROVE  AskInv'
<1>t. /\ fromServer \in Seq(Told) /\ queue \in Seq(1..MaxTurns) /\ driver \in Drivers
      /\ sent \in 0..MaxTurns /\ server \in Servers /\ history \in Histories
  BY DEF TypeInv
<1>1. CASE SendMessage
  <2>1. history'.responses = history.responses
    <3>1. CASE turn = 0
      <4>1. Append(queue, sent + 1) \in Seq(1..MaxTurns)
        BY <1>1, <1>t, CodexThreadAssumption DEF SendMessage
      <4> QED BY <1>1, <1>t, <3>1, <4>1, Dispatched DEF SendMessage
    <3>2. CASE turn # 0
      BY <1>1, <3>2 DEF SendMessage
    <3> QED BY <3>1, <3>2
  <2> QED BY <1>1, <2>1, AskStep DEF SendMessage
<1>2. CASE Call
  <2>1. UNCHANGED <<fromServer, pending, history, server>>
    BY <1>2 DEF Call, CallForData, CallTracked, CallTurn, CallSet, CallUnchanged
  <2> QED BY <2>1, AskStep
<1>3. CASE \E n \in DOMAIN calls : CallTimesOut(n)
  <2>1. UNCHANGED <<fromServer, pending, history, server>>
    BY <1>3 DEF CallTimesOut, wireVars, driverVars
  <2> QED BY <2>1, AskStep
<1>4. ASSUME NEW b \in 1..MaxAsks, Respond(b)
      PROVE  AskInv'
  <2>1. UNCHANGED <<fromServer, server>> /\ pending' = pending \ {b}
    BY <1>4 DEF Respond
  <2>2. \/ history' = history
        \/ b \in pending /\ history' = [history EXCEPT !.responses[b] = @ + 1]
    BY <1>4 DEF Respond
  <2>3. /\ \A a \in 1..MaxAsks : a # b => history'.responses[a] = history.responses[a]
        /\ \/ history'.responses[b] = history.responses[b]
           \/ b \in pending /\ history'.responses[b] = history.responses[b] + 1
    BY <1>t, <2>2 DEF Histories
  <2>4. \A a \in 1..MaxAsks : a \in Nat /\ server.asked \in Nat
    BY <1>t, CodexThreadAssumption DEF Servers
  <2> QED BY <2>1, <2>3, <2>4 DEF AskInv
<1>5. CASE ReadLine
  <2>1. fromServer # <<>> /\ fromServer' = Tail(fromServer) /\ UNCHANGED server
    BY <1>5 DEF ReadLine, ReadReply, ReadThreadStarted, ReadTurnStarted, ReadTurnEnded,
       ReadError, ReadAsk, Incoming, Consume, LineUnchanged
  <2>2. Alike(fromServer, fromServer')
    BY <1>t, <2>1, TailAlike
  <2>3. CASE ReadAsk
    <3> DEFINE line == Head(fromServer)
               b == line.ref
    <3>1. line \in AskLines(b) /\ pending' = pending \cup {b} /\ UNCHANGED history
      BY <1>t, <2>1, <2>3, Taken DEF ReadAsk, Incoming, AskLines
    <3>2. Once(fromServer, AskLines(b)) => ~Has(fromServer', AskLines(b))
      BY <1>t, <2>1, <3>1, Taken
    <3>3. Has(fromServer, AskLines(b))
      BY <1>t, <2>1, <3>1, Taken
    <3> HIDE DEF line, b
    <3> QED BY <2>1, <2>2, <3>1, <3>2, <3>3 DEF AskInv, Alike
  <2>4. CASE ~ReadAsk
    <3>1. UNCHANGED pending
      BY <1>5, <2>4 DEF ReadLine, ReadReply, ReadThreadStarted, ReadTurnStarted,
         ReadTurnEnded, ReadError
    <3>2. history'.responses = history.responses
      <4>1. ASSUME NEW d \in Drivers, TryDispatch(d, queue) \/ ThreadOpens(d)
            PROVE  history'.responses = history.responses
        BY <1>t, <4>1, Dispatched DEF ThreadOpens
      <4> QED BY <1>5, <2>4, <4>1, DriverReads DEF ReadLine, ReadReply, ReadThreadStarted,
                 ReadTurnStarted, ReadTurnEnded, ReadError
    <3> QED BY <2>1, <2>2, <3>1, <3>2, AskStep DEF Alike
  <2> QED BY <2>3, <2>4
<1>6. CASE Serve \/ ServerAsks \/ ServerCompletesTurn \/ ServerFailsTurn
  <2>1. UNCHANGED <<pending, history>>
    BY <1>6, ServerLeaves
  <2>2. PICK t \in Seq(Told) :
           /\ Alike(fromServer, t)
           /\ \/ fromServer' = t /\ server'.asked = server.asked
              \/ \E l \in Begun \cup Ends :
                    fromServer' = Append(t, l) /\ server'.asked = server.asked
              \/ \E l \in Told :
                   /\ fromServer' = Append(t, l) /\ l \in AskLines(server.asked + 1)
                   /\ server'.asked = server.asked + 1
    BY <1>6, ServerTells DEF Tells
  <2>3. CASE fromServer' = t /\ server'.asked = server.asked
    BY <2>1, <2>2, <2>3, AskStep DEF Alike
  <2>4. ASSUME NEW l \in Begun \cup Ends, fromServer' = Append(t, l),
               server'.asked = server.asked
        PROVE  AskInv'
    <3>1. l \in Told /\ \A a : l \notin AskLines(a)
      BY DEF Begun, Ends, AskLines
    <3>2. \A a : /\ Has(fromServer', AskLines(a)) => Has(t, AskLines(a))
                 /\ Once(t, AskLines(a)) => Once(fromServer', AskLines(a))
      BY <2>4, <3>1, Appended
    <3> QED BY <2>1, <2>2, <2>4, <3>2, AskStep DEF Alike
  <2>5. ASSUME NEW l \in Told, fromServer' = Append(t, l),
               l \in AskLines(server.asked + 1), server'.asked = server.asked + 1
        PROVE  AskInv'
    <3> DEFINE b == server.asked + 1
    <3>1. server.asked \in Nat /\ b \in Nat /\ b > server.asked
      BY <1>t, CodexThreadAssumption DEF Servers
    <3>2. \A a : a # b => l \notin AskLines(a)
      BY <2>5 DEF AskLines
    <3>3. \A a \in 1..MaxAsks : a \in Nat
      OBVIOUS
    <3>4. ASSUME NEW a \in 1..MaxAsks
          PROVE  /\ Has(fromServer', AskLines(a)) => Has(t, AskLines(a)) \/ a = b
                 /\ Once(t, AskLines(a)) /\ (a = b => ~Has(t, AskLines(a)))
                       => Once(fromServer', AskLines(a))
      BY <2>5, <3>2, Appended
    <3>5. ASSUME NEW a \in 1..MaxAsks
          PROVE  /\ Has(t, AskLines(a)) => Has(fromServer, AskLines(a))
                 /\ Once(fromServer, AskLines(a)) => Once(t, AskLines(a))
      BY <2>2 DEF Alike
    <3> HIDE DEF b
    <3>6. server'.asked = b /\ \A a \in 1..MaxAsks : a <= server.asked => a <= b
      BY <2>5, <3>1, <3>3 DEF b
    <3>7. \A a \in 1..MaxAsks : a = b => /\ ~Has(fromServer, AskLines(a)) /\ a \notin pending
                                         /\ history.responses[a] = 0
      BY <3>1, <3>3 DEF AskInv
    <3>8. \A a \in 1..MaxAsks : a > b => a > server.asked
      BY <3>1, <3>3
    <3>9. \A a \in 1..MaxAsks : a = b => a <= b
      BY <3>1
    <3> QED BY <2>1, <3>4, <3>5, <3>6, <3>7, <3>8, <3>9 DEF AskInv
  <2> QED BY <2>2, <2>3, <2>4, <2>5
<1>7. CASE Stop \/ HandleEof \/ ServerDies \/ UNCHANGED vars
  <2>1. UNCHANGED <<pending, history>> /\ server'.asked = server.asked
    BY <1>7, <1>t DEF Stop, HandleEof, ServerDies, EndSession, ServerUnchanged, driverVars,
       vars, NoTurnLeft, Servers
  <2>2. fromServer' = fromServer \/ fromServer' = <<>>
    BY <1>7 DEF Stop, HandleEof, ServerDies, EndSession, wireVars, vars
  <2> QED BY <2>1, <2>2, Emptied, AskStep
<1> QED BY <1>1, <1>2, <1>3, <1>4, <1>5, <1>6, <1>7 DEF Next

\* No prompt is on the pipe, pending or answered at the start.
LEMMA InitAsk ==
    ASSUME Init
    PROVE  AskInv
<1>1. /\ fromServer = <<>> /\ pending = {}
      /\ \A a \in 1..MaxAsks : history.responses[a] = 0
  BY DEF Init
<1> QED BY <1>1, Emptied DEF AskInv

\* Ids stay apart over every step.
LEMMA IdKept ==
    ASSUME TypeInv, TypeInv', IdInv, [Next]_vars
    PROVE  IdInv'
BY UserIds, ReadIds, ServerIds, OtherIds DEF Next

\* A control call is given the reply to the request it made, whatever took ids in between,
\* and a prompt is answered once on the wire, however many browsers answer it.
THEOREM CodexOwnReply == Spec => []OwnReply
<1> DEFINE IInv == TypeInv /\ IdInv /\ AskInv
<1>1. Init => IInv
  BY InitTypes, InitIds, InitAsk
<1>2. IInv /\ [Next]_vars => IInv'
  <2>1. TypeInv /\ [Next]_vars => TypeInv'
    BY UserTypes, ReadTypes, ServeTypes, OwnTypes, IdleTypes DEF Next
  <2> QED BY <2>1, IdKept, AskKept
<1>3. IInv => OwnReply
  BY DEF IdInv, OwnReplies, AskInv, OwnReply
<1> QED BY <1>1, <1>2, <1>3, PTL DEF Spec

-----------------------------------------------------------------------------
(* Turns *)

\* One turn at a time is under way, asked for, running or over, and it is the actor's.
WireInv ==
    /\ Once(toServer, Starts) /\ Once(fromServer, Ends)
    /\ Has(toServer, Starts) => server.turn = 0 /\ ~Has(fromServer, Ends)
    /\ server.turn # 0 => server.turn = turn /\ ~Has(fromServer, Ends)
    /\ Before(fromServer, Begun, Ends)
    /\ \A l \in Starts : In(toServer, l) => l.ref = turn
    /\ \A l \in Begun : In(fromServer, l) => l.ref \in {0, turn}
    /\ turn = 0 => /\ ~Has(toServer, Starts) /\ server.turn = 0
                   /\ ~Has(fromServer, Ends) /\ ~Has(fromServer, Begun)
    /\ driver.active # 0 => driver.active = turn

TurnInv ==
    /\ driver.phase = "Ready" => driver.thread
    /\ driver.phase = "Opening" => turn = 0
    /\ turn # 0 => turn \in history.framed
    /\ up => WireInv

\* t has the turn/start lines that s has.
StartsAlike(s, t) ==
    /\ Has(t, Starts) => Has(s, Starts)
    /\ Once(s, Starts) => Once(t, Starts)
    /\ \A l \in Starts : In(t, l) => In(s, l)

\* Other requests, and a pipe that is read or emptied, leave the turn/start lines alone.
LEMMA OtherRequest ==
    ASSUME NEW s \in Seq(Written)
    PROVE  /\ StartsAlike(s, s) /\ StartsAlike(s, <<>>)
           /\ s # <<>> => StartsAlike(s, Tail(s))
           /\ \A l \in Written : l \notin Starts => StartsAlike(s, Append(s, l))
<1>1. StartsAlike(s, s) /\ StartsAlike(s, <<>>)
  BY Emptied DEF StartsAlike
<1>2. s # <<>> => StartsAlike(s, Tail(s))
  BY Taken DEF StartsAlike
<1>3. ASSUME NEW l \in Written, l \notin Starts
      PROVE  StartsAlike(s, Append(s, l))
  BY <1>3, Appended DEF StartsAlike
<1> QED BY <1>1, <1>2, <1>3

\* A step that starts and ends no turn.
LEMMA SameTurn ==
    ASSUME TurnInv, up' => up, turn' = turn, history.framed \subseteq history'.framed,
           driver'.phase = "Ready" => driver'.thread,
           driver'.phase = "Opening" => driver.phase = "Opening",
           driver'.active \in {0, driver.active, turn},
           StartsAlike(toServer, toServer'), Alike(fromServer, fromServer'),
           server'.turn \in {0, server.turn}
    PROVE  TurnInv'
<1>1. /\ driver'.phase = "Ready" => driver'.thread
      /\ driver'.phase = "Opening" => turn' = 0
      /\ turn' # 0 => turn' \in history'.framed
  BY DEF TurnInv
<1>2. ASSUME up'
      PROVE  WireInv'
  <2>1. WireInv
    BY <1>2 DEF TurnInv
  <2>2. /\ Once(toServer', Starts) /\ Once(fromServer', Ends)
        /\ Before(fromServer', Begun, Ends)
    BY <2>1 DEF WireInv, StartsAlike, Alike
  <2>3. /\ Has(toServer', Starts) => server'.turn = 0 /\ ~Has(fromServer', Ends)
        /\ server'.turn # 0 => server'.turn = turn' /\ ~Has(fromServer', Ends)
    BY <2>1 DEF WireInv, StartsAlike, Alike
  <2>4. /\ \A l \in Starts : In(toServer', l) => l.ref = turn'
        /\ \A l \in Begun : In(fromServer', l) => l.ref \in {0, turn'}
    BY <2>1 DEF WireInv, StartsAlike, Alike
  <2>5. turn' = 0 => /\ ~Has(toServer', Starts) /\ server'.turn = 0
                     /\ ~Has(fromServer', Ends) /\ ~Has(fromServer', Begun)
    BY <2>1 DEF WireInv, StartsAlike, Alike
  <2>6. driver'.active # 0 => driver'.active = turn'
    BY <2>1 DEF WireInv
  <2> QED BY <2>2, <2>3, <2>4, <2>5, <2>6 DEF WireInv
<1> QED BY <1>1, <1>2 DEF TurnInv

\* When nothing of a turn is under way, try_dispatch starts the next one.
LEMMA NextTurn ==
    ASSUME TypeInv, NEW d \in Drivers, NEW q \in Seq(1..MaxTurns), TryDispatch(d, q),
           d.phase = "Ready" => d.thread, d.active = 0,
           ~Has(toServer, Starts), server.turn = 0, UNCHANGED server,
           ~Has(fromServer', Ends), ~Has(fromServer', Begun)
    PROVE  TurnInv'
<1>t. toServer \in Seq(Written)
  BY DEF TypeInv
<1>1. /\ Once(fromServer', Ends) /\ Before(fromServer', Begun, Ends)
      /\ \A l \in Begun : ~In(fromServer', l)
      /\ Once(toServer, Starts) /\ \A l \in Starts : ~In(toServer, l)
  BY DEF Once, Before, Has, In
<1>2. driver'.phase = d.phase /\ driver'.thread = d.thread /\ driver'.active = 0
  BY Dispatched
<1>3. CASE toServer' = toServer /\ turn' = 0
  BY <1>1, <1>2, <1>3 DEF TurnInv, WireInv
<1>4. ASSUME NEW l \in Starts, toServer' = Append(toServer, l), l.ref = turn', turn' # 0,
             turn' \in history'.framed, d.phase = "Ready"
      PROVE  TurnInv'
  <2>1. l \in Written
    BY DEF Starts
  <2>2. /\ Once(toServer', Starts)
        /\ \A x \in Starts : In(toServer', x) => x.ref = turn'
    BY <1>t, <1>1, <1>4, <2>1, Appended
  <2> QED BY <1>1, <1>2, <1>4, <2>2 DEF TurnInv, WireInv
<1>5. \/ toServer' = toServer /\ turn' = 0
      \/ \E l \in Starts :
            /\ toServer' = Append(toServer, l) /\ l.ref = turn' /\ turn' # 0
            /\ turn' \in history'.framed /\ d.phase = "Ready"
  BY Dispatched
<1> QED BY <1>3, <1>4, <1>5

\* What users, callers and browsers do starts a turn when none is active.
LEMMA UserTurns ==
    ASSUME TypeInv, TurnInv,
           SendMessage \/ Call \/ (\E n \in DOMAIN calls : CallTimesOut(n))
               \/ (\E a \in 1..MaxAsks : Respond(a))
    PROVE  TurnInv'
<1>t. /\ driver \in Drivers /\ driver.nextId \in Nat /\ driver.active \in Nat
      /\ queue \in Seq(1..MaxTurns) /\ sent \in 0..MaxTurns
      /\ toServer \in Seq(Written) /\ NewCall \in Nat /\ history \in Histories
  BY CallsTypes, CodexThreadAssumption DEF TypeInv, Drivers
<1>z. Alike(fromServer, fromServer) /\ StartsAlike(toServer, toServer)
  BY <1>t, OtherRequest DEF Alike
<1>p. driver.phase = "Ready" => driver.thread
  BY DEF TurnInv
<1>1. CASE SendMessage
  <2>0. up /\ UNCHANGED <<up, fromServer, server>>
    BY <1>1 DEF SendMessage
  <2>1. CASE turn = 0
    <3>1. TryDispatch(driver, Append(queue, sent + 1))
      BY <1>1, <2>1 DEF SendMessage
    <3>2. Append(queue, sent + 1) \in Seq(1..MaxTurns)
      BY <1>1, <1>t, CodexThreadAssumption DEF SendMessage
    <3>3. /\ ~Has(toServer, Starts) /\ server.turn = 0 /\ ~Has(fromServer, Ends)
          /\ ~Has(fromServer, Begun) /\ driver.active = 0
      BY <2>0, <2>1 DEF TurnInv, WireInv
    <3>4. ~Has(fromServer', Ends) /\ ~Has(fromServer', Begun)
      BY <2>0, <3>3
    <3> QED BY <1>t, <1>p, <2>0, <3>1, <3>2, <3>3, <3>4, NextTurn
  <2>2. CASE turn # 0
    <3>1. UNCHANGED <<driver, turn, toServer, history>>
      BY <1>1, <2>2 DEF SendMessage
    <3> QED BY <1>z, <1>p, <2>0, <3>1, SameTurn
  <2> QED BY <2>1, <2>2
<1>2. \* A request that is no turn/start, or none, is written.
      ASSUME up' => up, turn' = turn, history.framed \subseteq history'.framed,
             UNCHANGED <<fromServer, server>>,
             driver' = driver \/ driver' = [driver EXCEPT !.nextId = @ + 1],
             NEW l \in Written, l \notin Starts,
             toServer' = toServer \/ toServer' = Append(toServer, l)
      PROVE  TurnInv'
  <2>1. /\ driver'.phase = driver.phase /\ driver'.thread = driver.thread
        /\ driver'.active = driver.active
    BY <1>t, <1>2 DEF Drivers
  <2>2. StartsAlike(toServer, toServer')
    BY <1>t, <1>z, <1>2, OtherRequest
  <2> QED BY <1>z, <1>p, <1>2, <2>1, <2>2, SameTurn
<1>3. CASE Call
  <2>1. UNCHANGED <<up, turn, history, fromServer, server>>
    BY <1>3 DEF Call, CallForData, CallTracked, CallTurn, CallSet, CallUnchanged
  <2>2. \/ UNCHANGED <<driver, toServer>>
        \/ Track(NewCall)
        \/ /\ driver' = [driver EXCEPT !.nextId = @ + 1]
           /\ \/ Write(<<Line("turn/steer", driver.nextId, driver.active)>>)
              \/ Write(<<Line("turn/interrupt", driver.nextId, 0)>>)
    BY <1>3 DEF Call, CallForData, CallTracked, CallTurn, CallSet
  <2>3. ASSUME NEW k \in {"request", "turn/steer", "turn/interrupt"}, NEW m \in Nat,
               driver' = [driver EXCEPT !.nextId = @ + 1],
               Write(<<Line(k, driver.nextId, m)>>)
        PROVE  TurnInv'
    <3> DEFINE l == Line(k, driver.nextId, m)
    <3>0. k \in LineKinds
      BY DEF LineKinds
    <3>1. l \in Lines /\ l.kind = k
      BY <1>t, <3>0, PlainLine
    <3>2. Write(<<l>>)
      BY <2>3
    <3> HIDE DEF l
    <3>3. l \in Written /\ l \notin Starts
      BY <3>1 DEF Written, Starts
    <3>4. toServer' = toServer \/ toServer' = Append(toServer, l)
      BY <3>2, <3>3, WriteTypes
    <3> QED BY <1>2, <2>1, <2>3, <3>3, <3>4
  <2>4. CASE Track(NewCall)
    BY <1>t, <2>3, <2>4 DEF Track
  <2>5. CASE UNCHANGED <<driver, toServer>>
    BY <1>z, <1>p, <2>1, <2>5, SameTurn
  <2> QED BY <1>t, <2>2, <2>3, <2>4, <2>5
<1>4. CASE \E n \in DOMAIN calls : CallTimesOut(n)
  <2>1. UNCHANGED <<up, turn, history, fromServer, server, driver, toServer>>
    BY <1>4 DEF CallTimesOut, driverVars, actorVars, wireVars
  <2> QED BY <1>z, <1>p, <2>1, SameTurn
<1>5. ASSUME NEW a \in 1..MaxAsks, Respond(a)
      PROVE  TurnInv'
  <2>1. UNCHANGED <<up, turn, fromServer, server, driver>>
    BY <1>5 DEF Respond, actorVars
  <2>2. history'.framed = history.framed
    BY <1>5, <1>t DEF Respond, Histories
  <2> DEFINE l == Line("response", 0, a)
  <2>3. l \in Lines /\ l.kind = "response"
    BY PlainLine DEF LineKinds
  <2>4. Write(<<l>>) \/ Write(<<>>)
    BY <1>5 DEF Respond
  <2> HIDE DEF l
  <2>5. l \in Written /\ l \notin Starts
    BY <2>3 DEF Written, Starts
  <2>6. toServer' = toServer \/ toServer' = Append(toServer, l)
    BY <2>4, <2>5, WriteTypes
  <2> QED BY <1>2, <2>1, <2>2, <2>5, <2>6
<1> QED BY <1>1, <1>3, <1>4, <1>5

\* A line that is read: the end of a turn is where the next one starts.
LEMMA ReadTurns ==
    ASSUME TypeInv, TurnInv, ReadLine
    PROVE  TurnInv'
<1> DEFINE line == Head(fromServer)
<1>t. /\ driver \in Drivers /\ queue \in Seq(1..MaxTurns) /\ fromServer \in Seq(Told)
      /\ toServer \in Seq(Written)
  BY DEF TypeInv
<1>u. /\ up /\ UNCHANGED <<up, server>>
      /\ fromServer # <<>> /\ fromServer' = Tail(fromServer)
  BY DEF ReadLine, ReadReply, ReadThreadStarted, ReadTurnStarted, ReadTurnEnded, ReadError,
         ReadAsk, Incoming, Consume, LineUnchanged
<1>w. WireInv /\ (driver.phase = "Ready" => driver.thread)
  BY <1>u DEF TurnInv
<1>z. Alike(fromServer, fromServer') /\ StartsAlike(toServer, toServer)
  BY <1>t, <1>u, TailAlike, OtherRequest
<1>k. line \in Told /\ In(fromServer, line)
  BY <1>t, <1>u, Taken
<1> HIDE DEF line
<1>1. \* No turn starts or ends.
      ASSUME UNCHANGED <<turn, toServer, history>>,
             driver' = driver \/ driver' = AfterAck \/ driver' = TurnOver
                 \/ driver' = [driver EXCEPT !.active = turn]
      PROVE  TurnInv'
  <2>0. turn \in 0..MaxTurns
    BY DEF TypeInv
  <2>1. /\ driver'.phase = "Ready" => driver'.thread
        /\ driver'.phase = "Opening" => driver.phase = "Opening"
        /\ driver'.active \in {0, driver.active, turn}
    BY <1>1, <1>w, <2>0, DriverReads
  <2> QED BY <1>1, <1>u, <1>z, <2>1, SameTurn
<1>2. ASSUME ThreadOpens(AfterAck)
      PROVE  TurnInv'
  <2>1. CASE driver.phase = "Opening"
    <3>1. turn = 0 /\ TryDispatch(AfterAck, queue)
      BY <1>2, <2>1 DEF ThreadOpens, TurnInv
    <3>2. /\ ~Has(toServer, Starts) /\ server.turn = 0 /\ ~Has(fromServer, Ends)
          /\ ~Has(fromServer, Begun) /\ driver.active = 0
      BY <1>w, <3>1 DEF WireInv
    <3>3. ~Has(fromServer', Ends) /\ ~Has(fromServer', Begun)
      BY <1>z, <3>2 DEF Alike
    <3> QED BY <1>t, <1>u, <3>1, <3>2, <3>3, DriverReads, NextTurn
  <2>2. CASE driver.phase # "Opening"
    BY <1>1, <1>2, <2>2 DEF ThreadOpens
  <2> QED BY <2>1, <2>2
<1>3. CASE ReadReply
  BY <1>1, <1>2, <1>3 DEF ReadReply
<1>4. CASE ReadThreadStarted
  BY <1>2, <1>4 DEF ReadThreadStarted
<1>5. CASE ReadTurnStarted
  <2>1. line.ref \in {0, turn}
    <3>1. line \in Begun
      BY <1>5, <1>k DEF ReadTurnStarted, Incoming, Begun, line
    <3> QED BY <1>k, <1>w, <3>1 DEF WireInv
  <2>2. driver' = driver \/ driver' = [driver EXCEPT !.active = turn]
    BY <1>5, <2>1 DEF ReadTurnStarted, line
  <2> QED BY <1>1, <1>5, <2>2 DEF ReadTurnStarted
<1>6. CASE ReadTurnEnded
  <2>1. line \in Ends
    BY <1>6, <1>k DEF ReadTurnEnded, Incoming, Ends, line
  <2>2. Has(fromServer, Ends) /\ ~Has(fromServer', Ends) /\ ~Has(fromServer', Begun)
    BY <1>t, <1>u, <1>w, <2>1, Taken DEF WireInv, line
  <2>3. ~Has(toServer, Starts) /\ server.turn = 0
    BY <1>w, <2>2 DEF WireInv
  <2>4. TryDispatch(TurnOver, queue)
    BY <1>6 DEF ReadTurnEnded
  <2> QED BY <1>t, <1>u, <1>w, <2>2, <2>3, <2>4, DriverReads, NextTurn
<1>7. CASE ReadError \/ ReadAsk
  BY <1>1, <1>7 DEF ReadError, ReadAsk
<1> QED BY <1>3, <1>4, <1>5, <1>6, <1>7 DEF ReadLine

\* The app-server takes a turn/start for its turn, and ends the turn it has.
LEMMA ServerTurns ==
    ASSUME TypeInv, TurnInv, Serve \/ ServerAsks \/ ServerCompletesTurn \/ ServerFailsTurn
    PROVE  TurnInv'
<1>t. toServer \in Seq(Written) /\ fromServer \in Seq(Told)
  BY DEF TypeInv
<1>1. PICK t \in Seq(Told) :
         /\ Alike(fromServer, t) /\ up
         /\ \/ fromServer' = t /\ server'.turn = server.turn
            \/ \E l \in Begun :
                 /\ fromServer' = Append(t, l) /\ l.ref \in {0, Request.ref}
                 /\ Serve /\ Request \in Starts
                 /\ server.turn = 0 /\ server'.turn = Request.ref
            \/ \E l \in Ends :
                 /\ fromServer' = Append(t, l)
                 /\ server.turn # 0 /\ server'.turn = 0
            \/ \E l \in Told :
                 /\ fromServer' = Append(t, l) /\ l \in AskLines(server.asked + 1)
                 /\ server'.turn = server.turn
  BY ServerTells DEF Tells
<1>u. UNCHANGED <<driver, turn, history, up>>
  BY ServerLeaves
<1>w. /\ WireInv /\ (driver.phase = "Ready" => driver.thread)
      /\ driver.phase = "Opening" => turn = 0
      /\ turn # 0 => turn \in history.framed
  BY <1>1 DEF TurnInv
<1>s. StartsAlike(toServer, toServer')
  BY <1>t, ServerLeaves, OtherRequest
<1>2. ASSUME Alike(fromServer, fromServer'), server'.turn = server.turn
      PROVE  TurnInv'
  BY <1>2, <1>s, <1>u, <1>w, SameTurn
<1>3. ASSUME NEW l \in Begun, fromServer' = Append(t, l), l.ref \in {0, Request.ref},
             Serve, Request \in Starts, server.turn = 0, server'.turn = Request.ref
      PROVE  TurnInv'
  <2>1. /\ toServer # <<>> /\ toServer' = Tail(toServer) /\ Head(toServer) \in Starts
        /\ In(toServer, Request)
    BY <1>t, <1>3, ServerLeaves, Taken DEF Request
  <2>2. Has(toServer, Starts) /\ Request.ref = turn /\ turn # 0 /\ ~Has(fromServer, Ends)
    <3>1. Has(toServer, Starts)
      BY <1>t, <2>1, Taken
    <3> QED BY <1>3, <1>w, <2>1, <3>1 DEF WireInv
  <2>3. ~Has(toServer', Starts)
    BY <1>t, <1>w, <2>1, Taken DEF WireInv
  <2>4. l \in Told /\ l \notin Ends
    BY DEF Begun, Ends
  <2>5. ~Has(t, Ends) /\ Once(t, Ends) /\ Before(t, Begun, Ends)
    BY <1>1, <1>w, <2>2 DEF Alike, WireInv
  <2>6. ~Has(fromServer', Ends) /\ Once(fromServer', Ends) /\ Before(fromServer', Begun, Ends)
    BY <1>3, <2>4, <2>5, Appended
  <2>7. \A x \in Begun : In(fromServer', x) => x.ref \in {0, turn}
    <3>1. \A x : In(fromServer', x) => In(t, x) \/ x = l
      BY <1>3, <2>4, Appended
    <3> QED BY <1>1, <1>3, <1>w, <2>2, <3>1 DEF Alike, WireInv
  <2>8. /\ Once(toServer', Starts) /\ \A x \in Starts : In(toServer', x) => x.ref = turn
    BY <1>s, <1>w DEF StartsAlike, WireInv
  <2>9. driver.active # 0 => driver.active = turn
    BY <1>w DEF WireInv
  <2> QED BY <1>3, <1>u, <1>w, <2>2, <2>3, <2>6, <2>7, <2>8, <2>9 DEF TurnInv, WireInv
<1>4. ASSUME NEW l \in Ends, fromServer' = Append(t, l), server.turn # 0, server'.turn = 0
      PROVE  TurnInv'
  <2>1. l \in Told /\ l \notin Begun
    BY DEF Begun, Ends
  <2>2. server.turn = turn /\ ~Has(fromServer, Ends) /\ ~Has(toServer, Starts)
    BY <1>4, <1>w DEF WireInv
  <2>3. ~Has(t, Ends) /\ Once(t, Ends) /\ Before(t, Begun, Ends) /\ ~Has(toServer', Starts)
    BY <1>1, <1>s, <1>w, <2>2 DEF Alike, StartsAlike, WireInv
  <2>4. Once(fromServer', Ends) /\ Before(fromServer', Begun, Ends)
    BY <1>4, <2>1, <2>3, Appended
  <2>5. \A x \in Begun : In(fromServer', x) => x.ref \in {0, turn}
    <3>1. \A x : In(fromServer', x) => In(t, x) \/ x = l
      BY <1>4, <2>1, Appended
    <3> QED BY <1>1, <1>w, <2>1, <3>1 DEF Alike, WireInv
  <2>6. /\ Once(toServer', Starts) /\ \A x \in Starts : In(toServer', x) => x.ref = turn
    BY <1>s, <1>w DEF StartsAlike, WireInv
  <2>7. driver.active # 0 => driver.active = turn
    BY <1>w DEF WireInv
  <2> QED BY <1>4, <1>u, <1>w, <2>2, <2>3, <2>4, <2>5, <2>6, <2>7 DEF TurnInv, WireInv
<1>5. ASSUME NEW l \in Told, fromServer' = Append(t, l), l \in AskLines(server.asked + 1),
             server'.turn = server.turn
      PROVE  TurnInv'
  <2>1. l \notin Begun /\ l \notin Ends
    BY <1>5 DEF AskLines, Begun, Ends
  <2>2. /\ Once(t, Ends) => Once(fromServer', Ends)
        /\ Before(t, Begun, Ends) => Before(fromServer', Begun, Ends)
        /\ Has(fromServer', Ends) => Has(t, Ends)
        /\ Has(fromServer', Begun) => Has(t, Begun)
        /\ \A x \in Begun : In(fromServer', x) => In(t, x)
    BY <1>5, <2>1, Appended
  <2>3. /\ Once(fromServer', Ends) /\ Before(fromServer', Begun, Ends)
        /\ Has(fromServer', Ends) => Has(fromServer, Ends)
        /\ Has(fromServer', Begun) => Has(fromServer, Begun)
        /\ \A x \in Begun : In(fromServer', x) => x.ref \in {0, turn}
    BY <1>1, <1>w, <2>2 DEF Alike, WireInv
  <2>4. /\ Once(toServer', Starts) /\ \A x \in Starts : In(toServer', x) => x.ref = turn
        /\ Has(toServer', Starts) => Has(toServer, Starts)
    BY <1>s, <1>w DEF StartsAlike, WireInv
  <2> QED BY <1>5, <1>u, <1>w, <2>3, <2>4 DEF TurnInv, WireInv
<1> QED BY <1>1, <1>2, <1>3, <1>4, <1>5

\* The end of the session, of the app-server, or nothing.
LEMMA OtherTurns ==
    ASSUME TypeInv, TurnInv, Stop \/ HandleEof \/ ServerDies \/ UNCHANGED vars
    PROVE  TurnInv'
<1>t. toServer \in Seq(Written) /\ server \in Servers
  BY DEF TypeInv
<1>p. driver.phase = "Ready" => driver.thread
  BY DEF TurnInv
<1>1. CASE EndSession
  BY <1>1, <1>p DEF EndSession, driverVars, TurnInv
<1>2. CASE ServerDies \/ UNCHANGED vars
  <2>1. UNCHANGED <<up, turn, history, driver, fromServer>>
    BY <1>2 DEF ServerDies, ServerUnchanged, driverVars, actorVars, wireVars, vars
  <2>2. toServer' = <<>> \/ toServer' = toServer
    BY <1>2 DEF ServerDies, wireVars, vars
  <2>3. server'.turn \in {0, server.turn}
    BY <1>t, <1>2 DEF ServerDies, NoTurnLeft, vars, Servers
  <2>4. StartsAlike(toServer, toServer') /\ Alike(fromServer, fromServer')
    BY <1>t, <2>1, <2>2, OtherRequest DEF Alike
  <2> QED BY <1>p, <2>1, <2>3, <2>4, SameTurn
<1> QED BY <1>1, <1>2 DEF Stop, HandleEof

\* A session starts with its handshake, and without a turn.
LEMMA InitTurns ==
    ASSUME Init
    PROVE  TurnInv
<1>1. /\ driver.phase = "Opening" /\ driver.active = 0 /\ turn = 0 /\ server.turn = 0
      /\ fromServer = <<>>
  BY DEF Init
<1>2. \A i \in DOMAIN toServer : toServer[i].kind # "turn/start"
  <2> DEFINE x == Line("initialize", 1, 0)
             y == IF startup.resume THEN Line("thread/resume", 2, 0)
                  ELSE [Line("thread/start", 2, 0) EXCEPT !.set = OpenSettings]
  <2>1. x.kind # "turn/start" /\ y.kind # "turn/start"
    BY DEF Line
  <2>2. toServer = <<x, y>>
    BY DEF Init, Handshake
  <2> HIDE DEF x, y
  <2> QED BY <2>1, <2>2
<1>3. ~Has(toServer, Starts) /\ Once(toServer, Starts) /\ \A l \in Starts : ~In(toServer, l)
  BY <1>2 DEF Starts, Has, Once, In
<1> QED BY <1>1, <1>3, Emptied DEF TurnInv, WireInv

\* A message whose turn the actor holds for started was written as a turn/start, also when
\* the driver became ready by a line that could not tell it its thread; and the turn whose
\* id a steer would carry is the one that runs.
THEOREM CodexTurnOnWire == Spec => []TurnOnWire
<1> DEFINE IInv == TypeInv /\ TurnInv
<1>1. Init => IInv
  BY InitTypes, InitTurns
<1>2. IInv /\ [Next]_vars => IInv'
  <2>1. TypeInv /\ [Next]_vars => TypeInv'
    BY UserTypes, ReadTypes, ServeTypes, OwnTypes, IdleTypes DEF Next
  <2>2. TypeInv /\ TurnInv /\ [Next]_vars => TurnInv'
    BY UserTurns, ReadTurns, ServerTurns, OtherTurns DEF Next
  <2> QED BY <2>1, <2>2
<1>3. IInv => TurnOnWire
  BY DEF TurnInv, WireInv, TurnOnWire
<1> QED BY <1>1, <1>2, <1>3, PTL DEF Spec

-----------------------------------------------------------------------------
(* Settings *)

Opens == {l \in Written : l.kind = "thread/start"}

\* A thread with these settings runs a turn as its user wanted it.
Gives(set, want) ==
    /\ want.model # NoVal => set.model = want.model
    /\ want.effort # NoVal => set.effort = want.effort
    /\ set.approval = ApprovalFor(CliMode(want.mode))
    /\ set.policy = PolicyFor(SandboxFor(CliMode(want.mode)))

\* A thread with these settings has the startup value of what no live choice was made of.
Agrees(set) ==
    /\ overrides.model = NoVal /\ startup.model # NoVal => set.model = startup.model
    /\ overrides.effort = NoVal /\ startup.effort # NoVal => set.effort = startup.effort
    /\ overrides.mode = NoVal =>
          /\ set.approval = ApprovalFor(CliMode(startup.mode))
          /\ set.policy = PolicyFor(SandboxFor(CliMode(startup.mode)))

\* The next turn/start need not replay the startup values: the first was accepted.
Settled == /\ up /\ server.alive /\ ~driver.replay
           /\ server.turn # 0 \/ Has(fromServer, Ends) \/ turn = 0

\* The first turn carries every setting of its user; a later one those chosen live, and the
\* thread has the others since the first.
SetInv ==
    /\ turn # 0 => ~driver.replay
    /\ \A m \in history.framed :
          /\ overrides.model = NoVal => history.want[m].model = startup.model
          /\ overrides.effort = NoVal => history.want[m].effort = startup.effort
          /\ overrides.mode = NoVal => history.want[m].mode = startup.mode
    /\ Before(toServer, Opens, Starts)
    /\ \A l \in Starts : In(toServer, l) =>
          \/ Gives(l.set, history.want[l.ref])
          \/ ~Has(toServer, Opens) /\ Gives(Merged(l.set, server.set), history.want[l.ref])
    /\ Settled => ~Has(toServer, Opens) /\ Agrees(server.set)
    /\ SettingsReachThread

\* An absent value is none of the values a field may have.
LEMMA Values ==
    /\ \A mode : ApprovalFor(mode) # NoVal
    /\ \A mode : PolicyFor(SandboxFor(mode)) # NoVal
    /\ "live" # NoVal /\ \A mode \in Modes \cup CliModes : mode # NoVal
<1>1. \A mode : ApprovalFor(mode) # NoVal
  BY CodexThreadAssumption DEF ApprovalFor
<1>2. "live" # NoVal /\ \A mode \in Modes \cup CliModes : mode # NoVal
  BY CodexThreadAssumption
<1>3. ASSUME NEW mode
      PROVE  PolicyFor(SandboxFor(mode)) # NoVal
  <2>1. SandboxFor(mode) \in {"read-only", "workspace-write", "danger-full-access"}
    BY DEF SandboxFor
  <2>2. ASSUME NEW x \in {"read-only", "workspace-write", "danger-full-access"}
        PROVE  PolicyFor(x) # NoVal
    <3>1. CASE PolicyFor(x) \in Policies
      BY <3>1, CodexThreadAssumption
    <3>2. [sandbox |-> x, roots |-> x = "workspace-write" /\ startup.dirs] \in Policies
      BY DEF Policies
    <3> QED BY <3>1, <3>2 DEF PolicyFor
  <2> QED BY <2>1, <2>2
<1> QED BY <1>1, <1>2, <1>3

\* What a turn/start gives, it gives whatever the thread had before.
LEMMA GivesMerged ==
    ASSUME NEW new, NEW old, NEW want, Gives(new, want)
    PROVE  Gives(Merged(new, old), want)
BY Values DEF Gives, Merged, Or

\* A later turn/start, merged with what the thread has since the first.
LEMMA LaterTurn ==
    ASSUME NEW set, Agrees(set), ~driver.replay
    PROVE  Gives(Merged(TurnSettings, set), Chosen)
<1>1. /\ Pick("model") = overrides.model /\ Pick("effort") = overrides.effort
      /\ Pick("mode") = overrides.mode
  BY DEF Pick, Or
<1>2. /\ TurnSettings.model = overrides.model /\ TurnSettings.effort = overrides.effort
      /\ overrides.mode = NoVal => TurnSettings.approval = NoVal /\ TurnSettings.policy = NoVal
      /\ overrides.mode # NoVal =>
            /\ TurnSettings.approval = ApprovalFor(CliMode(overrides.mode))
            /\ TurnSettings.policy = PolicyFor(SandboxFor(CliMode(overrides.mode)))
  BY <1>1 DEF TurnSettings
<1>3. /\ Chosen.model = Or(overrides.model, startup.model)
      /\ Chosen.effort = Or(overrides.effort, startup.effort)
      /\ Chosen.mode = Or(overrides.mode, startup.mode)
  BY DEF Chosen
<1> DEFINE t == Merged(TurnSettings, set)
<1>4. /\ t.model = Or(TurnSettings.model, set.model)
      /\ t.effort = Or(TurnSettings.effort, set.effort)
      /\ t.approval = Or(TurnSettings.approval, set.approval)
      /\ t.policy = Or(TurnSettings.policy, set.policy)
  BY DEF Merged
<1> HIDE DEF t
<1>5. Chosen.model # NoVal => t.model = Chosen.model
  BY <1>2, <1>3, <1>4 DEF Or, Agrees
<1>6. Chosen.effort # NoVal => t.effort = Chosen.effort
  BY <1>2, <1>3, <1>4 DEF Or, Agrees
<1>7. /\ t.approval = ApprovalFor(CliMode(Chosen.mode))
      /\ t.policy = PolicyFor(SandboxFor(CliMode(Chosen.mode)))
  <2>1. CASE overrides.mode = NoVal
    BY <1>2, <1>3, <1>4, <2>1 DEF Or, Agrees
  <2>2. CASE overrides.mode # NoVal
    BY <1>2, <1>3, <1>4, <2>2, Values DEF Or
  <2> QED BY <2>1, <2>2
<1> QED BY <1>5, <1>6, <1>7 DEF Gives, t

\* The first turn/start carries what its user chose.
LEMMA FirstTurn ==
    ASSUME startup \in Startups, driver.replay = TRUE
    PROVE  Gives(TurnSettings, Chosen)
<1>1. startup.mode # NoVal
  BY Values, CodexThreadAssumption
<1>2. /\ Pick("model") = Chosen.model /\ Pick("effort") = Chosen.effort
      /\ Pick("mode") = Chosen.mode /\ Chosen.mode # NoVal
  BY <1>1 DEF Pick, Or, Chosen
<1> QED BY <1>2 DEF TurnSettings, Gives

\* The thread keeps the startup values a turn was given.
LEMMA GivenAgrees ==
    ASSUME NEW set, NEW want, Gives(set, want),
           overrides.model = NoVal => want.model = startup.model,
           overrides.effort = NoVal => want.effort = startup.effort,
           overrides.mode = NoVal => want.mode = startup.mode
    PROVE  Agrees(set)
BY DEF Gives, Agrees

\* t has the requests of s that start a turn or open the thread.
RequestsAlike(s, t) ==
    /\ \A l \in Starts : In(t, l) => In(s, l)
    /\ Has(t, Opens) => Has(s, Opens)
    /\ Before(s, Opens, Starts) => Before(t, Opens, Starts)

\* Other requests, and a pipe that is read or emptied, leave them alone.
LEMMA OtherRequests ==
    ASSUME NEW s \in Seq(Written)
    PROVE  /\ RequestsAlike(s, s) /\ RequestsAlike(s, <<>>)
           /\ s # <<>> => RequestsAlike(s, Tail(s))
           /\ \A l \in Written : l \notin Starts /\ l \notin Opens
                                   => RequestsAlike(s, Append(s, l))
<1>1. RequestsAlike(s, s) /\ RequestsAlike(s, <<>>)
  BY Emptied DEF RequestsAlike
<1>2. s # <<>> => RequestsAlike(s, Tail(s))
  BY Taken DEF RequestsAlike
<1>3. ASSUME NEW l \in Written, l \notin Starts, l \notin Opens
      PROVE  RequestsAlike(s, Append(s, l))
  BY <1>3, Appended DEF RequestsAlike
<1> QED BY <1>1, <1>2, <1>3

\* A step that starts no turn, opens no thread and takes no live choice back.
LEMMA SameSettings ==
    ASSUME SetInv, UNCHANGED startup, history'.framed = history.framed,
           history'.want = history.want, driver'.replay = driver.replay,
           turn' # 0 => turn # 0,
           overrides'.model = NoVal => overrides.model = NoVal,
           overrides'.effort = NoVal => overrides.effort = NoVal,
           overrides'.mode = NoVal => overrides.mode = NoVal,
           RequestsAlike(toServer, toServer'),
           server'.set = server.set, server'.turn \in {0, server.turn},
           Settled' => Settled
    PROVE  SetInv'
<1>2. /\ turn' # 0 => ~driver'.replay
      /\ \A m \in history'.framed :
            /\ overrides'.model = NoVal => history'.want[m].model = startup'.model
            /\ overrides'.effort = NoVal => history'.want[m].effort = startup'.effort
            /\ overrides'.mode = NoVal => history'.want[m].mode = startup'.mode
      /\ Before(toServer', Opens, Starts)
  BY DEF SetInv, RequestsAlike
<1>3. \A l \in Starts : In(toServer', l) =>
         \/ Gives(l.set, history.want[l.ref])
         \/ ~Has(toServer', Opens) /\ Gives(Merged(l.set, server.set), history.want[l.ref])
  BY DEF SetInv, RequestsAlike
<1>4. Settled' => ~Has(toServer', Opens) /\ Agrees(server.set)
  BY DEF SetInv, RequestsAlike
<1>5. Agrees(server.set) => Agrees(server.set)'
  BY DEF Agrees, PolicyFor
<1>6. SettingsReachThread'
  BY DEF SetInv, SettingsReachThread, PolicyFor
<1>7. \A l \in Starts : In(toServer', l) =>
         \/ Gives(l.set, history.want[l.ref])'
         \/ ~Has(toServer', Opens) /\ Gives(Merged(l.set, server.set), history.want[l.ref])'
  BY <1>3 DEF Gives, PolicyFor
<1> QED BY <1>2, <1>4, <1>5, <1>6, <1>7 DEF SetInv

\* The dispatch of a turn, when none is under way.
LEMMA NextSettings ==
    ASSUME TypeInv, SetInv, NEW d \in Drivers, NEW q \in Seq(1..MaxTurns), TryDispatch(d, q),
           d.phase = "Ready" => d.thread, d.replay = driver.replay,
           UNCHANGED <<startup, overrides, server, up>>, up,
           ~Has(toServer, Starts), server.turn = 0, turn = 0 \/ Has(fromServer, Ends),
           ~Has(fromServer', Ends)
    PROVE  SetInv'
<1>t. /\ toServer \in Seq(Written) /\ history \in Histories
      /\ startup \in Startups /\ overrides \in Overrides /\ driver \in Drivers
  BY DEF TypeInv
<1>n. \A l \in Starts : ~In(toServer, l)
  BY DEF Has, In
<1>s. server.alive /\ ~driver.replay => Settled
  BY DEF Settled
<1>r. SettingsReachThread'
  BY DEF SettingsReachThread
<1>1. CASE driver' = d /\ turn' = 0 /\ UNCHANGED <<toServer, history>>
  <2>1. Settled' => Settled
    BY <1>1, <1>s DEF Settled
  <2> QED BY <1>1, <1>t, <2>1, SameSettings, OtherRequests
<1>2. CASE q # <<>> /\ d.phase = "Ready" /\ StartUserTurn(d, q) /\ ~CanWrite
  <2>1. /\ UNCHANGED <<toServer, history>> /\ turn' = 0 /\ ~server'.alive
    BY <1>2 DEF StartUserTurn, Write, CanWrite
  <2>2. ~Settled' /\ \A l \in Starts : ~In(toServer', l)
    BY <1>n, <2>1 DEF Settled
  <2> QED BY <1>r, <2>1, <2>2 DEF SetInv
<1>3. CASE q # <<>> /\ d.phase = "Ready" /\ StartUserTurn(d, q) /\ CanWrite
  <2> DEFINE m == Head(q)
             line == [Line("turn/start", d.nextId, m) EXCEPT !.set = TurnSettings]
  <2>1. m \in 1..MaxTurns /\ m \in Nat /\ m # 0
    BY <1>3, Taken, CodexThreadAssumption
  <2>l. PICK l : l = line
    OBVIOUS
  <2>2. l \in Written /\ l.ref = m /\ l.set = TurnSettings /\ l \notin Opens
    <3>1. TurnSettings \in Settings /\ d.nextId \in Nat
      BY <1>t, SettingsTypes DEF Drivers
    <3>2. /\ line \in Lines /\ line.ref = m /\ line.kind = "turn/start"
          /\ line.set = TurnSettings
      BY <2>1, <3>1, SetLine DEF LineKinds
    <3> HIDE DEF line
    <3> QED BY <2>1, <2>l, <3>2 DEF Written, Opens
  <2>3. Write(<<l>>)
    BY <1>3, <2>l DEF StartUserTurn
  <2> HIDE DEF line
  <2>4. toServer' = Append(toServer, l)
    BY <1>3, <1>t, <2>2, <2>3, Concat DEF Write
  <2>5. turn' = m /\ driver'.replay = FALSE
    BY <1>3 DEF StartUserTurn, Drivers
  <2>6. /\ history'.framed = history.framed \cup {m}
        /\ history'.want[m] = Chosen
        /\ \A n \in 1..MaxTurns : n # m => history'.want[n] = history.want[n]
    <3>1. history' = [history EXCEPT !.framed = @ \cup {m}, !.want[m] = Chosen]
      BY <1>3 DEF StartUserTurn
    <3> HIDE DEF m
    <3> QED BY <1>t, <2>1, <3>1 DEF Histories
  <2>7. ~Settled'
    BY <2>1, <2>5 DEF Settled
  <2>8. \A x \in Starts : In(toServer', x) => x = l
    BY <1>t, <1>n, <2>2, <2>4, Appended
  <2>9. \/ Gives(l.set, Chosen)
        \/ ~Has(toServer', Opens) /\ Gives(Merged(l.set, server.set), Chosen)
    <3>1. CASE driver.replay = TRUE
      BY <1>t, <2>2, <3>1, FirstTurn
    <3>2. CASE ~driver.replay
      <4>1. ~Has(toServer, Opens) /\ Agrees(server.set)
        BY <1>3, <1>s, <3>2 DEF CanWrite, SetInv
      <4>2. ~Has(toServer', Opens)
        BY <1>t, <2>2, <2>4, <4>1, Appended
      <4> QED BY <2>2, <3>2, <4>1, <4>2, LaterTurn
    <3> QED BY <1>t, <3>1, <3>2 DEF Drivers
  <2>10. /\ Gives(l.set, Chosen) => Gives(l.set, history.want[l.ref])'
         /\ Gives(Merged(l.set, server.set), Chosen)
               => Gives(Merged(l.set, server.set), history.want[l.ref])'
    BY <2>2, <2>6 DEF Gives, PolicyFor
  <2>11. Before(toServer', Opens, Starts)
    BY <1>t, <2>2, <2>4, Appended DEF SetInv
  <2>12. \A n \in history'.framed :
            /\ overrides'.model = NoVal => history'.want[n].model = startup'.model
            /\ overrides'.effort = NoVal => history'.want[n].effort = startup'.effort
            /\ overrides'.mode = NoVal => history'.want[n].mode = startup'.mode
    <3>1. /\ overrides.model = NoVal => Chosen.model = startup.model
          /\ overrides.effort = NoVal => Chosen.effort = startup.effort
          /\ overrides.mode = NoVal => Chosen.mode = startup.mode
      BY DEF Chosen, Or
    <3>2. history.framed \subseteq 1..MaxTurns
      BY <1>t DEF Histories
    <3> HIDE DEF m
    <3> QED BY <2>6, <3>1, <3>2 DEF SetInv
  <2> QED BY <1>r, <2>5, <2>7, <2>8, <2>9, <2>10, <2>11, <2>12 DEF SetInv
<1>4. CASE q # <<>> /\ d.phase = "Ready" /\ StartUserTurn(d, q)
  BY <1>2, <1>3, <1>4
<1> QED BY <1>1, <1>4 DEF TryDispatch

\* What users, callers and browsers do.
LEMMA UserSettings ==
    ASSUME TypeInv, TurnInv, SetInv,
           SendMessage \/ Call \/ (\E n \in DOMAIN calls : CallTimesOut(n))
               \/ (\E a \in 1..MaxAsks : Respond(a))
    PROVE  SetInv'
<1>t. /\ driver \in Drivers /\ driver.nextId \in Nat /\ driver.active \in Nat
      /\ queue \in Seq(1..MaxTurns) /\ sent \in 0..MaxTurns
      /\ toServer \in Seq(Written) /\ NewCall \in Nat /\ history \in Histories
      /\ overrides \in Overrides
  BY CallsTypes, CodexThreadAssumption DEF TypeInv, Drivers
<1>z. RequestsAlike(toServer, toServer)
  BY <1>t, OtherRequests
<1>p. driver.phase = "Ready" => driver.thread
  BY DEF TurnInv
<1>1. CASE SendMessage
  <2>0. up /\ UNCHANGED <<up, fromServer, server, overrides, startup>>
    BY <1>1 DEF SendMessage
  <2>1. CASE turn = 0
    <3>1. TryDispatch(driver, Append(queue, sent + 1))
      BY <1>1, <2>1 DEF SendMessage
    <3>2. Append(queue, sent + 1) \in Seq(1..MaxTurns)
      BY <1>1, <1>t, CodexThreadAssumption DEF SendMessage
    <3>3. ~Has(toServer, Starts) /\ server.turn = 0 /\ ~Has(fromServer, Ends)
      BY <2>0, <2>1 DEF TurnInv, WireInv
    <3>4. ~Has(fromServer', Ends)
      BY <2>0, <3>3
    <3> QED BY <1>t, <1>p, <2>0, <2>1, <3>1, <3>2, <3>3, <3>4, NextSettings
  <2>2. CASE turn # 0
    <3>1. UNCHANGED <<driver, turn, toServer, history>>
      BY <1>1, <2>2 DEF SendMessage
    <3>2. Settled' => Settled
      BY <2>0, <3>1 DEF Settled
    <3> QED BY <1>z, <2>0, <3>1, <3>2, SameSettings
  <2> QED BY <2>1, <2>2
<1>2. \* A request that starts no turn and opens no thread, or none, is written.
      ASSUME UNCHANGED <<up, turn, fromServer, server, startup>>,
             history'.framed = history.framed, history'.want = history.want,
             overrides'.model = NoVal => overrides.model = NoVal,
             overrides'.effort = NoVal => overrides.effort = NoVal,
             overrides'.mode = NoVal => overrides.mode = NoVal,
             driver' = driver \/ driver' = [driver EXCEPT !.nextId = @ + 1],
             RequestsAlike(toServer, toServer')
      PROVE  SetInv'
  <2>1. driver'.replay = driver.replay
    BY <1>t, <1>2 DEF Drivers
  <2>2. Settled' => Settled
    BY <1>2, <2>1 DEF Settled
  <2> QED BY <1>2, <2>1, <2>2, SameSettings
<1>3. ASSUME NEW l \in Lines, l.kind \notin {"turn/start", "thread/start"},
             Write(<<l>>) \/ Write(<<>>)
      PROVE  RequestsAlike(toServer, toServer')
  <2>1. l \in Written /\ l \notin Starts /\ l \notin Opens
    BY <1>3 DEF Written, Starts, Opens
  <2>2. toServer' = toServer \/ toServer' = Append(toServer, l)
    BY <1>3, <2>1, WriteTypes
  <2> QED BY <1>t, <1>z, <2>1, <2>2, OtherRequests
<1>4. CASE \E sub \in Subtypes : CallForData(sub) \/ CallTracked(sub) \/ CallTurn(sub)
  <2>1. UNCHANGED <<up, turn, history, fromServer, server, overrides, startup>>
    BY <1>4 DEF CallForData, CallTracked, CallTurn, CallUnchanged
  <2>2. \/ UNCHANGED <<driver, toServer>>
        \/ Track(NewCall)
        \/ /\ driver' = [driver EXCEPT !.nextId = @ + 1]
           /\ \/ Write(<<Line("turn/steer", driver.nextId, driver.active)>>)
              \/ Write(<<Line("turn/interrupt", driver.nextId, 0)>>)
    BY <1>4 DEF CallForData, CallTracked, CallTurn
  <2>3. ASSUME NEW k \in {"request", "turn/steer", "turn/interrupt"}, NEW m \in Nat,
               driver' = [driver EXCEPT !.nextId = @ + 1],
               Write(<<Line(k, driver.nextId, m)>>)
        PROVE  SetInv'
    <3> DEFINE l == Line(k, driver.nextId, m)
    <3>0. k \in LineKinds
      BY DEF LineKinds
    <3>1. l \in Lines /\ l.kind \notin {"turn/start", "thread/start"}
      BY <1>t, <3>0, PlainLine
    <3>2. Write(<<l>>)
      BY <2>3
    <3> HIDE DEF l
    <3>3. RequestsAlike(toServer, toServer')
      BY <1>3, <3>1, <3>2
    <3> QED BY <1>2, <2>1, <2>3, <3>3
  <2>4. CASE Track(NewCall)
    BY <1>t, <2>3, <2>4 DEF Track
  <2>5. CASE UNCHANGED <<driver, toServer>>
    BY <1>2, <1>z, <2>1, <2>5
  <2> QED BY <1>t, <2>2, <2>3, <2>4, <2>5
<1>5. ASSUME NEW sub \in Subtypes, CallSet(sub)
      PROVE  SetInv'
  <2>1. UNCHANGED <<up, turn, history, fromServer, server, startup, driver, toServer>>
    BY <1>5 DEF CallSet, CallUnchanged
  <2>2. \/ \E f \in {"model", "effort"} : overrides' = [overrides EXCEPT ![f] = "live"]
        \/ \E mode \in Modes : overrides' = [overrides EXCEPT !.mode = mode]
    BY <1>5 DEF CallSet
  <2>3. /\ overrides'.model = NoVal => overrides.model = NoVal
        /\ overrides'.effort = NoVal => overrides.effort = NoVal
        /\ overrides'.mode = NoVal => overrides.mode = NoVal
    BY <1>t, <2>2, Values DEF Overrides
  <2> QED BY <1>2, <1>z, <2>1, <2>3
<1>6. CASE \E n \in DOMAIN calls : CallTimesOut(n)
  <2>1. UNCHANGED <<up, turn, history, fromServer, server, startup, driver, toServer, overrides>>
    BY <1>6 DEF CallTimesOut, driverVars, actorVars, wireVars
  <2> QED BY <1>2, <1>z, <2>1
<1>7. ASSUME NEW a \in 1..MaxAsks, Respond(a)
      PROVE  SetInv'
  <2>1. UNCHANGED <<up, turn, fromServer, server, startup, driver, overrides>>
    BY <1>7 DEF Respond, actorVars
  <2>2. history'.framed = history.framed /\ history'.want = history.want
    BY <1>7, <1>t DEF Respond, Histories
  <2> DEFINE l == Line("response", 0, a)
  <2>3. l \in Lines /\ l.kind \notin {"turn/start", "thread/start"}
    BY PlainLine DEF LineKinds
  <2>4. Write(<<l>>) \/ Write(<<>>)
    BY <1>7 DEF Respond
  <2> HIDE DEF l
  <2>5. RequestsAlike(toServer, toServer')
    BY <1>3, <2>3, <2>4
  <2> QED BY <1>2, <2>1, <2>2, <2>5
<1> QED BY <1>1, <1>4, <1>5, <1>6, <1>7 DEF Call

\* A line that is read.
LEMMA ReadSettings ==
    ASSUME TypeInv, TurnInv, SetInv, ReadLine
    PROVE  SetInv'
<1>t. /\ driver \in Drivers /\ queue \in Seq(1..MaxTurns) /\ fromServer \in Seq(Told)
      /\ toServer \in Seq(Written) /\ turn \in 0..MaxTurns
  BY DEF TypeInv
<1>u. /\ up /\ UNCHANGED <<up, server, overrides, startup>>
      /\ fromServer # <<>> /\ fromServer' = Tail(fromServer)
  BY DEF ReadLine, ReadReply, ReadThreadStarted, ReadTurnStarted, ReadTurnEnded, ReadError,
         ReadAsk, Incoming, Consume, LineUnchanged
<1>w. WireInv /\ (driver.phase = "Ready" => driver.thread)
  BY <1>u DEF TurnInv
<1>z. /\ Has(fromServer', Ends) => Has(fromServer, Ends)
      /\ RequestsAlike(toServer, toServer)
  BY <1>t, <1>u, Taken, OtherRequests
<1>1. ASSUME UNCHANGED <<turn, toServer, history>>, driver'.replay = driver.replay
      PROVE  SetInv'
  <2>1. Settled' => Settled
    BY <1>1, <1>u, <1>z DEF Settled
  <2> QED BY <1>1, <1>u, <1>z, <2>1, SameSettings
<1>2. ASSUME ThreadOpens(AfterAck)
      PROVE  SetInv'
  <2>1. CASE driver.phase = "Opening"
    <3>1. turn = 0 /\ TryDispatch(AfterAck, queue)
      BY <1>2, <2>1 DEF ThreadOpens, TurnInv
    <3>2. ~Has(toServer, Starts) /\ server.turn = 0 /\ ~Has(fromServer, Ends)
      BY <1>w, <3>1 DEF WireInv
    <3> QED BY <1>t, <1>u, <1>z, <3>1, <3>2, DriverReads, NextSettings
  <2>2. CASE driver.phase # "Opening"
    BY <1>1, <1>2, <2>2, DriverReads DEF ThreadOpens
  <2> QED BY <2>1, <2>2
<1>3. CASE ReadReply
  BY <1>1, <1>2, <1>3 DEF ReadReply
<1>4. CASE ReadThreadStarted
  BY <1>2, <1>4 DEF ReadThreadStarted
<1>5. CASE ReadTurnStarted
  <2>1. Head(fromServer).ref \in 0..MaxTurns
    <3>1. Head(fromServer) \in Told /\ Head(fromServer).kind = "turn/started"
      BY <1>5, <1>t, <1>u, Taken DEF ReadTurnStarted, Incoming
    <3> QED BY <3>1 DEF Told
  <2>2. driver'.replay = driver.replay
    BY <1>5, <2>1, DriverReads DEF ReadTurnStarted
  <2> QED BY <1>1, <1>5, <2>2 DEF ReadTurnStarted
<1>6. CASE ReadTurnEnded
  <2>1. Has(fromServer, Ends) /\ ~Has(fromServer', Ends)
    <3>1. Head(fromServer) \in Ends
      BY <1>6, <1>t, <1>u, Taken DEF ReadTurnEnded, Incoming, Ends
    <3> QED BY <1>t, <1>u, <1>w, <3>1, Taken DEF WireInv
  <2>2. ~Has(toServer, Starts) /\ server.turn = 0
    BY <1>w, <2>1 DEF WireInv
  <2>3. TryDispatch(TurnOver, queue)
    BY <1>6 DEF ReadTurnEnded
  <2> QED BY <1>t, <1>u, <1>w, <2>1, <2>2, <2>3, DriverReads, NextSettings
<1>7. CASE ReadError \/ ReadAsk
  BY <1>1, <1>7, DriverReads DEF ReadError, ReadAsk
<1> QED BY <1>3, <1>4, <1>5, <1>6, <1>7 DEF ReadLine

\* The app-server keeps its settings but when it opens a thread or starts a turn.
LEMMA ServerSet ==
    ASSUME TypeInv, Serve \/ ServerAsks \/ ServerCompletesTurn \/ ServerFailsTurn,
           ~ServerOpensThread, ~ServerStartsTurn
    PROVE  server'.set = server.set /\ server'.turn \in {0, server.turn}
<1>t. server \in Servers
  BY DEF TypeInv
<1>n. NoTurnLeft.set = server.set /\ NoTurnLeft.turn = 0
  BY <1>t DEF NoTurnLeft, Servers
<1>1. CASE ServerRefusesThread
  BY <1>1, <1>t DEF ServerRefusesThread, Servers
<1>2. CASE ServerTakesAnswer
  BY <1>2, <1>t DEF ServerTakesAnswer, Servers
<1>3. CASE ServerAsks
  BY <1>3, <1>t DEF ServerAsks, Servers
<1>4. CASE server' = server \/ server' = NoTurnLeft
  BY <1>4, <1>n
<1> QED BY <1>1, <1>2, <1>3, <1>4
        DEF Serve, ServerInitializes, ServerResumesThread, ServerRefusesTurn,
            ServerInterrupts, ServerSteers, ServerServes, ServerCompletesTurn, ServerFailsTurn

\* The app-server: a turn gets what its turn/start carries, over what the thread has.
LEMMA ServerSettings ==
    ASSUME TypeInv, TurnInv, SetInv,
           Serve \/ ServerAsks \/ ServerCompletesTurn \/ ServerFailsTurn
    PROVE  SetInv'
<1>t. /\ toServer \in Seq(Written) /\ fromServer \in Seq(Told) /\ server \in Servers
      /\ turn \in 0..MaxTurns
  BY DEF TypeInv
<1>u. UNCHANGED <<driver, turn, history, up, overrides, startup>>
  BY ServerLeaves DEF Serve, ServerInitializes, ServerOpensThread, ServerResumesThread,
     ServerRefusesThread, ServerStartsTurn, ServerRefusesTurn, ServerInterrupts,
     ServerSteers, ServerServes, ServerTakesAnswer, ServerAsks, ServerCompletesTurn,
     ServerFailsTurn, Served, ServerUnchanged, actorVars
<1>a. up /\ server'.alive = server.alive
  BY ServerTells DEF Tells
<1>w. /\ WireInv /\ (turn # 0 => turn \in history.framed) /\ (turn # 0 => ~driver.replay)
  BY <1>a DEF TurnInv, SetInv
<1>r. RequestsAlike(toServer, toServer')
  BY <1>t, ServerLeaves, OtherRequests
<1>e. ASSUME server'.turn \in {0, server.turn}
      PROVE  Settled' => Settled
  <2>1. Has(fromServer', Ends) => Has(fromServer, Ends) \/ server.turn # 0
    <3>1. PICK t \in Seq(Told) :
             /\ Alike(fromServer, t)
             /\ \/ fromServer' = t
                \/ \E l \in Told \ Ends : fromServer' = Append(t, l)
                \/ server.turn # 0
      BY ServerTells DEF Tells, Begun, Ends, AskLines
    <3>2. Has(t, Ends) => Has(fromServer, Ends)
      BY <3>1 DEF Alike
    <3>3. ASSUME NEW l \in Told \ Ends, fromServer' = Append(t, l)
          PROVE  Has(fromServer', Ends) => Has(t, Ends)
      BY <3>3, Appended
    <3> QED BY <3>1, <3>2, <3>3
  <2> QED BY <1>a, <1>e, <1>u, <2>1 DEF Settled
<1>1. CASE ServerOpensThread
  <2>1. /\ toServer # <<>> /\ Request.kind = "thread/start"
        /\ server' = [server EXCEPT !.set = Request.set] /\ Serve
    BY <1>1 DEF ServerOpensThread, Reads, Request, Serve
  <2>2. Request \in Opens /\ Has(toServer, Opens)
    <3>1. Request \in Opens
      BY <2>1, RequestTypes DEF Opens
    <3> QED BY <1>t, <2>1, <3>1, Taken DEF Request
  <2>3. server'.turn = server.turn
    BY <1>t, <2>1 DEF Servers
  <2>4. ~Settled /\ ~Settled'
    BY <1>e, <2>2, <2>3 DEF SetInv
  <2>5. server.turn = 0
    <3>1. server.turn # 0 => server.alive
      BY <1>1 DEF ServerOpensThread, Reads
    <3> QED BY <1>a, <1>w, <2>4, <3>1 DEF Settled, WireInv
  <2>6. \A l \in Starts : In(toServer', l) => Gives(l.set, history.want[l.ref])'
    <3>1. \A l \in Starts : In(toServer', l) => Gives(l.set, history.want[l.ref])
      BY <1>r, <2>2 DEF RequestsAlike, SetInv
    <3> QED BY <1>u, <3>1 DEF Gives, PolicyFor
  <2>7. /\ turn' # 0 => ~driver'.replay
        /\ \A m \in history'.framed :
              /\ overrides'.model = NoVal => history'.want[m].model = startup'.model
              /\ overrides'.effort = NoVal => history'.want[m].effort = startup'.effort
              /\ overrides'.mode = NoVal => history'.want[m].mode = startup'.mode
        /\ Before(toServer', Opens, Starts)
    BY <1>r, <1>u DEF RequestsAlike, SetInv
  <2>8. SettingsReachThread'
    BY <2>3, <2>5 DEF SettingsReachThread
  <2> QED BY <2>4, <2>6, <2>7, <2>8 DEF SetInv
<1>2. CASE ServerStartsTurn
  <2>1. /\ toServer # <<>> /\ Request.kind = "turn/start"
        /\ server' = [server EXCEPT !.turn = Request.ref,
                                    !.set = Merged(Request.set, server.set)] /\ Serve
    BY <1>2 DEF ServerStartsTurn, Reads, Request, Serve
  <2>2. /\ Request \in Starts /\ Head(toServer) \in Starts /\ In(toServer, Request)
        /\ toServer' = Tail(toServer) /\ Request.ref # 0
    <3>1. /\ Request \in Written /\ In(toServer, Request) /\ Request.ref \in 1..MaxTurns
          /\ toServer' = Tail(toServer)
      BY <2>1, RequestTypes, ServerLeaves
    <3>2. Request \in Starts
      BY <2>1, <3>1 DEF Starts
    <3> QED BY <3>1, <3>2 DEF Request
  <2>3. Request.ref = turn /\ turn # 0 /\ turn \in history.framed
    BY <1>w, <2>2 DEF WireInv
  <2>4. ~Has(toServer', Starts) /\ ~Has(toServer', Opens)
    <3>1. Once(toServer, Starts) /\ Before(toServer, Opens, Starts)
      BY <1>w DEF WireInv, SetInv
    <3> QED BY <1>t, <2>1, <2>2, <3>1, Taken
  <2>5. server'.turn = turn /\ server'.set = Merged(Request.set, server.set)
    BY <1>t, <2>1, <2>3 DEF Servers
  <2>6. Gives(server'.set, history.want[turn])
    BY <2>2, <2>3, <2>5, GivesMerged DEF SetInv
  <2>7. Agrees(server'.set)
    BY <2>3, <2>6, GivenAgrees DEF SetInv
  <2>8. Agrees(server.set)'
    BY <1>u, <2>7 DEF Agrees, PolicyFor
  <2>9. SettingsReachThread'
    BY <1>u, <2>5, <2>6 DEF SettingsReachThread, Gives, PolicyFor
  <2>10. \A l \in Starts : ~In(toServer', l)
    BY <2>4 DEF Has, In
  <2>11. /\ turn' # 0 => ~driver'.replay
         /\ \A m \in history'.framed :
              /\ overrides'.model = NoVal => history'.want[m].model = startup'.model
              /\ overrides'.effort = NoVal => history'.want[m].effort = startup'.effort
              /\ overrides'.mode = NoVal => history'.want[m].mode = startup'.mode
         /\ Before(toServer', Opens, Starts)
    BY <1>r, <1>u DEF RequestsAlike, SetInv
  <2> QED BY <2>4, <2>8, <2>9, <2>10, <2>11 DEF SetInv
<1>3. CASE ~ServerOpensThread /\ ~ServerStartsTurn
  BY <1>3, <1>e, <1>r, <1>u, ServerSet, SameSettings
<1> QED BY <1>1, <1>2, <1>3

\* The end of the session, of the app-server, or nothing.
LEMMA OtherSettings ==
    ASSUME TypeInv, TurnInv, SetInv, Stop \/ HandleEof \/ ServerDies \/ UNCHANGED vars
    PROVE  SetInv'
<1>t. toServer \in Seq(Written) /\ server \in Servers
  BY DEF TypeInv
<1>1. UNCHANGED <<driver, history, overrides, startup>> /\ (turn' # 0 => turn # 0)
  BY DEF Stop, HandleEof, ServerDies, EndSession, ServerUnchanged, driverVars, actorVars, vars
<1>2. RequestsAlike(toServer, toServer')
  BY <1>t, OtherRequests DEF Stop, HandleEof, ServerDies, EndSession, wireVars, vars
<1>3. server'.set = server.set /\ server'.turn \in {0, server.turn}
  <2>1. CASE server' = server
    BY <2>1
  <2>2. CASE server' = [NoTurnLeft EXCEPT !.alive = FALSE]
    BY <1>t, <2>2 DEF NoTurnLeft, Servers
  <2> QED BY <2>1, <2>2 DEF Stop, HandleEof, ServerDies, vars
<1>4. Settled' => Settled
  <2>1. CASE EndSession
    BY <2>1 DEF EndSession, Settled
  <2>2. CASE ServerDies
    <3>1. ~server'.alive
      BY <1>t, <2>2 DEF ServerDies, NoTurnLeft, Servers
    <3> QED BY <3>1 DEF Settled
  <2>3. CASE UNCHANGED vars
    BY <2>3 DEF Settled, vars, driverVars, actorVars, wireVars
  <2> QED BY <2>1, <2>2, <2>3 DEF Stop, HandleEof
<1> QED BY <1>1, <1>2, <1>3, <1>4, SameSettings

\* The session starts with its replay still to come.
LEMMA InitSettings ==
    ASSUME Init
    PROVE  SetInv
<1>1. ~Has(toServer, Starts)
  BY InitTurns DEF TurnInv, WireInv, Init
<1>2. Before(toServer, Opens, Starts) /\ \A l \in Starts : ~In(toServer, l)
  BY <1>1 DEF Has, In, Before
<1>3. driver.replay = TRUE /\ turn = 0 /\ server.turn = 0 /\ history.framed = {}
  BY DEF Init
<1> QED BY <1>2, <1>3 DEF SetInv, Settled, SettingsReachThread

\* A turn runs with what its user had chosen when it was dispatched, a live choice or else
\* the value the session was started with: the first turn/start replays those values, it
\* comes after the thread/start that carries some of them, and the thread keeps them.
THEOREM CodexSettingsReachThread == Spec => []SettingsReachThread
<1> DEFINE IInv == TypeInv /\ TurnInv /\ SetInv
<1>1. Init => IInv
  BY InitTypes, InitTurns, InitSettings
<1>2. IInv /\ [Next]_vars => IInv'
  <2>1. TypeInv /\ [Next]_vars => TypeInv'
    BY UserTypes, ReadTypes, ServeTypes, OwnTypes, IdleTypes DEF Next
  <2>2. TypeInv /\ TurnInv /\ [Next]_vars => TurnInv'
    BY UserTurns, ReadTurns, ServerTurns, OtherTurns DEF Next
  <2>3. TypeInv /\ TurnInv /\ SetInv /\ [Next]_vars => SetInv'
    BY UserSettings, ReadSettings, ServerSettings, OtherSettings DEF Next
  <2> QED BY <2>1, <2>2, <2>3
<1>3. IInv => SettingsReachThread
  BY DEF SetInv
<1> QED BY <1>1, <1>2, <1>3, PTL DEF Spec

=============================================================================
