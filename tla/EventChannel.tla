--------------------------- MODULE EventChannel ---------------------------
(***************************************************************************)
(* What the reporting of VM events promises, whatever is lost, repeated or *)
(* retried on the way: the events form one line, and only the one at its   *)
(* head changes the status that nilcc-api shows. An event may be applied   *)
(* more than once, or leave without being applied, but once it has left no *)
(* retry brings it back, so no event is applied after a later one.         *)
(***************************************************************************)
EXTENDS Sequences

CONSTANTS
    Workloads,
    Kinds,              \* kinds of VM events
    Statuses,           \* values of the status column
    StatusAfter(_, _)   \* the status that follows a status and an event

VARIABLES
    pending,    \* the events in the line, the oldest first
    status      \* status[w]: the status in nilcc-api's database

Init ==
    /\ pending = << >>
    /\ status \in [Workloads -> Statuses]

Emit(w, k) ==
    /\ pending' = Append(pending, [w |-> w, kind |-> k])
    /\ UNCHANGED status

Apply ==
    /\ pending # << >>
    /\ LET e == Head(pending) IN
        status' = [status EXCEPT ![e.w] = StatusAfter(status[e.w], e.kind)]
    /\ UNCHANGED pending

Leave ==
    /\ pending # << >>
    /\ pending' = Tail(pending)
    /\ UNCHANGED status

(* The agent dies with the line.                                           *)
Lose ==
    /\ pending' = << >>
    /\ UNCHANGED status

Next == Apply \/ Leave \/ Lose \/ \E w \in Workloads, k \in Kinds : Emit(w, k)

Spec == Init /\ [][Next]_<<pending, status>>

=============================================================================
