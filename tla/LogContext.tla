----------------------------- MODULE LogContext -----------------------------
(***************************************************************************)
(* The nested diagnostic contexts of the log (src/src/ls_log.c): a stack   *)
(* that ls_log_push_ndc grows and ls_log_pop_ndc cuts back to the depth    *)
(* the push had returned.  Eventing pushes and pops around every call; the *)
(* callbacks in between may forget a pop, or pop twice.                    *)
(***************************************************************************)
EXTENDS Naturals, Sequences

CONSTANTS
    MaxPushes   \* bound: contexts pushed in a behaviour (_ndc_count is 32 bits wide)

ASSUME LogAssumption == MaxPushes \in Nat

VARIABLES
    ndc,        \* the contexts by their ids, _ndc_head last
    ndcDepth,   \* _ndc_depth
    ndcCount,   \* _ndc_count
    handles,    \* what pushes returned: the depth, and the context it stands for
    popped      \* history: the handle of the last pop

logVars == <<ndc, ndcDepth, ndcCount, handles, popped>>

NoContext == 0
Failed == [depth |-> 0, id |-> NoContext]

LogTypeOK ==
    /\ ndc \in Seq(1 .. MaxPushes)
    /\ ndcDepth \in 0 .. MaxPushes /\ ndcCount \in 0 .. MaxPushes
    /\ handles \subseteq [depth : 0 .. MaxPushes, id : 0 .. MaxPushes]
    /\ popped \in handles \cup {Failed}

LogInit ==
    /\ ndc = <<>>
    /\ ndcDepth = 0
    /\ ndcCount = 0
    /\ handles = {}
    /\ popped = Failed

\* ls_log_push_ndc; ids are counted from one here.
PushNdc ==
    LET id == ndcCount + 1 IN
    /\ ndcCount < MaxPushes
    /\ ndcCount' = id
    /\ ndc' = Append(ndc, id)
    /\ ndcDepth' = ndcDepth + 1
    /\ handles' = handles \cup {[depth |-> ndcDepth + 1, id |-> id]}
    /\ UNCHANGED popped

\* ls_log_push_ndc without memory, for the node or for its message, or with a
\* format that cannot be used: what was allocated is freed and 0 returned.
PushNdcFails ==
    /\ handles' = handles \cup {Failed}
    /\ UNCHANGED <<ndc, ndcDepth, ndcCount, popped>>

\* Mutant of CutTo: the depth of a push is taken for the depth before it.
CutToAbove(stack, depth, d) == IF d < depth THEN SubSeq(stack, 1, d) ELSE stack

\* The loop of ls_log_pop_ndc: frees the head while the depth is at least d.
CutTo(stack, depth, d) == IF d <= depth THEN SubSeq(stack, 1, d - 1) ELSE stack

\* ls_log_pop_ndc: 0 is ignored, another depth than the current one is only
\* warned of.  The program may keep the handle and use it again.
PopNdc(h) ==
    /\ popped' = h
    /\ ndc' = IF h.depth = 0 THEN ndc ELSE CutTo(ndc, ndcDepth, h.depth)
    /\ ndcDepth' = IF h.depth = 0 \/ h.depth > ndcDepth THEN ndcDepth ELSE h.depth - 1
    /\ UNCHANGED <<ndcCount, handles>>

LogNext == PushNdc \/ PushNdcFails \/ \E h \in handles : PopNdc(h)

LogSpec == LogInit /\ [][LogNext]_logVars

------------------------------------------------------------------------------
\* The depth always counts the contexts; and a pop, in order, of a handle of an
\* outer context or of one already popped, ends the context of its handle and
\* takes away only contexts pushed inside or after it, never an outer one.
PopEndsOwnContext ==
    [][/\ ndcDepth' = Len(ndc')
       /\ \A i \in 1 .. Len(ndc') : ndc'[i] # popped'.id
       /\ Len(ndc') < Len(ndc) =>
            /\ ndc' = SubSeq(ndc, 1, Len(ndc'))
            /\ \A i \in Len(ndc') + 1 .. Len(ndc) : ndc[i] >= popped'.id]_logVars
=============================================================================
