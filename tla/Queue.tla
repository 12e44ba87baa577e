------------------------------- MODULE Queue -------------------------------
(***************************************************************************)
(* The queue of src/src/ls_queue.c: nodes linked from head to tail.  The   *)
(* allocator hands out any address that is free, those of earlier nodes    *)
(* too; what a freed node held can still be read there.  An enqueue whose  *)
(* allocation fails changes nothing.  The cleaner that ls_queue_destroy    *)
(* calls is given the queue and may use it.                                *)
(***************************************************************************)
EXTENDS Naturals, Sequences, FiniteSets

CONSTANTS
    Item,       \* values
    MaxNodes    \* bound: nodes at one time

ASSUME QueueAssumption == MaxNodes \in Nat

VARIABLES
    qat,        \* "open", in ls_queue_destroy ("closing"), or "gone"
    head, tail, \* q->head and q->tail; 0 is NULL
    next, val,  \* n->next and n->value of the node at each address
    used,       \* the addresses of allocated nodes that deq has not returned
    held,       \* the node whose value the cleaner is given, to be freed after it; or 0
    out         \* the value returned, or handed to the cleaner, last

queueVars == <<qat, head, tail, next, val, used, held, out>>

Addr == 1..MaxNodes

QueueTypeOK ==
    /\ qat \in {"open", "closing", "gone"}
    /\ head \in Addr \cup {0} /\ tail \in Addr \cup {0}
    /\ next \in [Addr -> Addr \cup {0}]
    /\ val \in [Addr -> Seq(Item)]
    /\ used \subseteq Addr /\ held \in Addr \cup {0}
    /\ out \in Seq(Item)

\* ls_queue_create
QueueInit ==
    /\ qat = "open"
    /\ head = 0 /\ tail = 0
    /\ next = [a \in Addr |-> 0] /\ val = [a \in Addr |-> <<>>]
    /\ used = {} /\ held = 0
    /\ out = <<>>

\* The queue can be used: by its owner until it is destroyed, by the cleaner then.
InUse == qat = "open" \/ held # 0

\* Mutant of QueueEnq: the new node goes in front of the others.
QueueEnqFront(v) ==
    /\ InUse
    /\ \E n \in Addr \ (used \cup {held}) :
        /\ used' = used \cup {n}
        /\ val' = [val EXCEPT ![n] = <<v>>]
        /\ next' = [next EXCEPT ![n] = head]
        /\ head' = n
        /\ tail' = IF tail = 0 THEN n ELSE tail
    /\ UNCHANGED <<qat, held, out>>

\* ls_queue_enq
QueueEnq(v) ==
    /\ InUse
    /\ \E n \in Addr \ (used \cup {held}) :
        /\ used' = used \cup {n}
        /\ val' = [val EXCEPT ![n] = <<v>>]
        /\ next' = [a \in Addr |-> IF a = n THEN 0
                                   ELSE IF a = tail THEN n ELSE next[a]]
        /\ head' = IF tail = 0 THEN n ELSE head
        /\ tail' = n
    /\ UNCHANGED <<qat, held, out>>

\* Mutant of Deq: tail is left behind when the last node goes.
DeqKeepsTail ==
    /\ head # 0
    /\ head' = next[head]
    /\ UNCHANGED tail
    /\ out' = val[head]
    /\ used' = used \ {head}
    /\ UNCHANGED <<next, val>>

\* deq: the first node is taken from the list.
Deq ==
    /\ head # 0
    /\ head' = next[head]
    /\ tail' = IF head' = 0 THEN 0 ELSE tail
    /\ out' = val[head]
    /\ used' = used \ {head}
    /\ UNCHANGED <<next, val>>

\* ls_queue_deq, which frees the node; an empty queue returns NULL.
QueueDeq == InUse /\ Deq /\ UNCHANGED <<qat, held>>

\* ls_queue_destroy: until nothing is left it dequeues, calls the cleaner, and
\* frees the node.
QueueClose ==
    /\ qat = "open"
    /\ qat' = "closing"
    /\ UNCHANGED <<head, tail, next, val, used, held, out>>

QueueCleans == qat = "closing" /\ held = 0 /\ Deq /\ held' = head /\ UNCHANGED qat

QueueCleaned ==
    /\ held # 0
    /\ held' = 0
    /\ UNCHANGED <<qat, head, tail, next, val, used, out>>

QueueClosed ==
    /\ qat = "closing" /\ held = 0
    /\ head = 0
    /\ qat' = "gone"
    /\ UNCHANGED <<head, tail, next, val, used, held, out>>

QueueNext == (\E v \in Item : QueueEnq(v)) \/ QueueDeq \/ QueueClose \/ QueueCleans
               \/ QueueCleaned \/ QueueClosed

QueueSpec == QueueInit /\ [][QueueNext]_queueVars

------------------------------------------------------------------------------
\* The addresses from head on, as far as there are nodes.
Path ==
    LET from[i \in 0..MaxNodes] ==
            IF i = 0 THEN <<>>
            ELSE LET a == IF i = 1 THEN head
                          ELSE IF Len(from[i - 1]) < i - 1 THEN 0
                          ELSE next[from[i - 1][i - 1]]
                 IN IF a = 0 THEN from[i - 1] ELSE Append(from[i - 1], a)
    IN from[MaxNodes]

\* The list from head to tail holds exactly the nodes that deq has not returned,
\* whatever the cleaner enqueues and dequeues: none is lost, none is freed while
\* it is linked, the node of the cleaner's value is not used again before it is
\* freed, and tail is the end of the list, or NULL.
ListSound ==
    /\ held \notin used
    /\ {Path[i] : i \in DOMAIN Path} = used
    /\ Len(Path) = Cardinality(used)
    /\ tail = IF Path = <<>> THEN 0 ELSE Path[Len(Path)]

\* The queue hands its values out in the order of the enqueues, to
\* ls_queue_deq and, at the end, to the cleaner, although nodes are freed and
\* their addresses used again.
InOrder == INSTANCE Fifo WITH
    items <- [i \in DOMAIN Path |-> Head(val[Path[i]])], out <- out
KeepsOrder == InOrder!Spec
=============================================================================
