----------------------------- MODULE BoundedLog -----------------------------
(***************************************************************************)
(* What the ring buffer of a capture promises: a queue of at most Capacity *)
(* records.  The producer appends the next record when there is room and   *)
(* otherwise discards it (which changes nothing here); a consumer takes a  *)
(* prefix of any length.  The promise is void once `broken' is set.        *)
(***************************************************************************)
EXTENDS Integers, Sequences

CONSTANT Capacity   \* a positive number

VARIABLES
  queue,    \* the unread records, oldest first
  stored,   \* how many records were ever appended: they are 1, 2, ... stored
  broken    \* nothing is promised any more

logVars == <<queue, stored, broken>>

Init == queue = <<>> /\ stored = 0 /\ broken = FALSE

Append1 ==
  /\ broken = FALSE /\ Len(queue) < Capacity
  /\ stored' = stored + 1
  /\ queue' = Append(queue, stored + 1)
  /\ UNCHANGED broken

Take ==
  /\ broken = FALSE
  /\ \E k \in 0..Len(queue) : queue' = SubSeq(queue, k + 1, Len(queue))
  /\ UNCHANGED <<stored, broken>>

Break == broken = FALSE /\ broken' = TRUE

Next == Append1 \/ Take \/ Break \/ broken = TRUE

Spec == Init /\ [][Next]_logVars
=============================================================================
