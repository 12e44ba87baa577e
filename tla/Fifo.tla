-------------------------------- MODULE Fifo --------------------------------
(***************************************************************************)
(* What a queue promises its user (src/src/ls_queue.h): values leave it in *)
(* the order in which they entered it.  Queue implements this.             *)
(***************************************************************************)
EXTENDS Sequences

CONSTANT Item

VARIABLES
    items,      \* the values in the queue
    out         \* the value that left last, as a sequence of one or none

vars == <<items, out>>

Init == items = <<>> /\ out = <<>>

Enter(v) == items' = Append(items, v) /\ UNCHANGED out

Leave ==
    /\ items # <<>>
    /\ out' = <<Head(items)>>
    /\ items' = Tail(items)

Spec == Init /\ [][(\E v \in Item : Enter(v)) \/ Leave]_vars
=============================================================================
