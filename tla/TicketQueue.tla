---------------------------- MODULE TicketQueue ----------------------------
(***************************************************************************)
(* What a session promises to the callers of send_session_message, with    *)
(* none of the machinery that keeps the promise: every message that is     *)
(* accepted is answered exactly once, the messages that reach the agent    *)
(* do so in the order they were accepted, and a session that closes        *)
(* answers everybody it still owes an answer.                              *)
(*                                                                         *)
(* SessionActor implements this module (see the instance there).           *)
(***************************************************************************)
EXTENDS Naturals, Sequences

CONSTANT Messages       \* the messages callers may send, each at most once

VARIABLES
    waiting,            \* accepted and not yet answered, oldest first
    delivered,          \* recorded as user messages, in order
    answer,             \* what the caller of each message has been told
    open                \* the session still accepts messages

ticketVars == <<waiting, delivered, answer, open>>

Answers == {"none", "pending", "ok", "err"}

TypeOK ==
    /\ waiting \in Seq(Messages)
    /\ delivered \in Seq(Messages)
    /\ answer \in [Messages -> Answers]
    /\ open \in BOOLEAN

Init ==
    /\ waiting = <<>>
    /\ delivered = <<>>
    /\ answer = [m \in Messages |-> "none"]
    /\ open = TRUE

(***************************************************************************)
(* The oldest of the tickets q is taken: it reaches the agent, or its      *)
(* caller is told that it could not be sent.  a is what the callers have   *)
(* been told before.                                                       *)
(***************************************************************************)
Serve(q, a) ==
    /\ q # <<>>
    /\ waiting' = Tail(q)
    /\ \/ /\ delivered' = Append(delivered, Head(q))
          /\ answer' = [a EXCEPT ![Head(q)] = "ok"]
       \/ /\ answer' = [a EXCEPT ![Head(q)] = "err"]
          /\ UNCHANGED delivered
    /\ UNCHANGED open

(***************************************************************************)
(* A message is accepted; the session may serve its oldest ticket in the   *)
(* same step, which is the new one when nobody else waits.                 *)
(***************************************************************************)
Accept(m) ==
    LET q == Append(waiting, m)
        a == [answer EXCEPT ![m] = "pending"]
    IN  /\ open
        /\ answer[m] = "none"
        /\ \/ Serve(q, a)
           \/ /\ waiting' = q
              /\ answer' = a
              /\ UNCHANGED <<delivered, open>>

ServeOldest == open /\ Serve(waiting, answer)

\* The session ends: every caller still waiting is told so.
Close ==
    /\ open
    /\ open' = FALSE
    /\ waiting' = <<>>
    /\ answer' = [m \in Messages |-> IF answer[m] = "pending" THEN "err" ELSE answer[m]]
    /\ UNCHANGED delivered

Next ==
    \/ \E m \in Messages : Accept(m)
    \/ ServeOldest
    \/ Close

Spec == Init /\ [][Next]_ticketVars
=============================================================================
