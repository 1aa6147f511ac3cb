---------------------------- MODULE MetricQueue -----------------------------
(***************************************************************************)
(* What internal/telemetry/ringbuffer.go promises its users: a bounded     *)
(* first-in first-out queue that takes each metric at most once, refuses   *)
(* one only when it is full, and hands the taken ones out in order.        *)
(***************************************************************************)
EXTENDS Naturals, Sequences

CONSTANTS Metrics, Capacity

VARIABLES items, out, refused

vars == <<items, out, refused>>

\* The metrics that have been offered so far.
Seen == refused \cup {items[k] : k \in 1..Len(items)}
                \cup {out[k] : k \in 1..Len(out)}

Init ==
    /\ items = <<>>
    /\ out = <<>>
    /\ refused = {}

Accept(m) ==
    /\ m \notin Seen
    /\ Len(items) < Capacity
    /\ items' = Append(items, m)
    /\ UNCHANGED <<out, refused>>

Refuse(m) ==
    /\ m \notin Seen
    /\ Len(items) >= Capacity
    /\ refused' = refused \cup {m}
    /\ UNCHANGED <<items, out>>

Take ==
    /\ items # <<>>
    /\ out' = Append(out, Head(items))
    /\ items' = Tail(items)
    /\ UNCHANGED refused

Next ==
    \/ \E m \in Metrics : Accept(m) \/ Refuse(m)
    \/ Take

Spec == Init /\ [][Next]_vars
=============================================================================
