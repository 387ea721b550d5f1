----------------------------- MODULE EventFeed -----------------------------
(***************************************************************************)
(* What a browser that looks at a run is promised, with none of the        *)
(* machinery that keeps the promise: events are recorded in order, and     *)
(* what is shown is always a prefix of the record: nothing is missing in   *)
(* the middle, nothing is shown twice or out of order.  The view may be    *)
(* closed, or emptied and loaded again.  An event at the end of the record *)
(* may be lost again, when an unfinished line is glued to the next.        *)
(*                                                                         *)
(* EventDelivery implements this module as long as none of the lapses it   *)
(* names has happened (see the instance there).                            *)
(***************************************************************************)
EXTENDS Naturals, Sequences

VARIABLES
    record,         \* numbers of the events of the run that are kept, in order
    shown           \* numbers of the events the browser shows

feedVars == <<record, shown>>

IsPrefixOf(s, t) == Len(s) <= Len(t) /\ s = SubSeq(t, 1, Len(s))

Init == record = <<>> /\ shown = <<>>

RecordEvent ==
    /\ Len(record') = Len(record) + 1
    /\ IsPrefixOf(record, record')
    /\ UNCHANGED shown

\* More of the record is shown.
ShowMore ==
    /\ IsPrefixOf(shown', record)
    /\ IsPrefixOf(shown, shown')
    /\ UNCHANGED record

\* The view is closed, or reloaded.
Clear == shown' = <<>> /\ UNCHANGED record

\* The newest event can no longer be read; no view is held to show what it showed.
LoseNewest ==
    /\ Len(record) = Len(record') + 1
    /\ IsPrefixOf(record', record)
    /\ shown' = <<>>

Next == RecordEvent \/ ShowMore \/ Clear \/ LoseNewest

Spec == Init /\ [][Next]_feedVars
=============================================================================
