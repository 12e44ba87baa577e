------------------------------ MODULE TableMap ------------------------------
(***************************************************************************)
(* What a hash table promises its user (src/include/ls_htable.h): it is a  *)
(* map from keys to values, and it releases a value, by the cleaner that   *)
(* came with it, in the step in which the map lets go of it.  Htable       *)
(* implements this.                                                        *)
(***************************************************************************)
EXTENDS Functions

CONSTANTS
    Key,        \* keys, up to equality
    Val,        \* values
    Owned       \* those that are put with a cleaner

VARIABLES
    content,    \* the map, from some of the keys to values
    released    \* the values the last change released by their cleaner

vars == <<content, released>>

Init == content = <<>> /\ released = {}

\* The values that are released when the entries of keys go.
Dropped(keys) ==
    {content[k] : k \in keys \cap DOMAIN content} \cap Owned

Put(k, v) ==
    /\ content' = [j \in DOMAIN content \cup {k} |-> IF j = k THEN v ELSE content[j]]
    /\ released' = Dropped({k})

\* The entries of keys go: a removal, or a clear.
Drop(keys) ==
    /\ content' = Restrict(content, DOMAIN content \ keys)
    /\ released' = Dropped(keys)

Next ==
    \/ \E k \in Key, v \in Val : Put(k, v)
    \/ \E k \in DOMAIN content : Drop({k})
    \/ Drop(DOMAIN content)

Spec == Init /\ [][Next]_vars
=============================================================================
