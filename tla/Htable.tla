------------------------------- MODULE Htable -------------------------------
(***************************************************************************)
(* The hash table of src/src/ls_htable.c: chains of nodes in an array of   *)
(* buckets that is rebuilt when the table gets full, with a cleaner per    *)
(* value, and a walk whose callback may itself use the table.              *)
(*                                                                         *)
(* Keys are strings, compared and hashed without regard to case, as the    *)
(* event dispatcher's are: the spellings of a key are the different        *)
(* pointers an application may pass for it.  A node is named by its key,   *)
(* of which the table holds one.  Values are not NULL.  Cleaners do not    *)
(* call the table.                                                         *)
(***************************************************************************)
EXTENDS Naturals, Sequences, SequencesExt, FiniteSets

CONSTANTS
    Key,            \* spellings of keys: sequences of character codes
    Val,            \* values
    Owned,          \* the values that are put with a cleaner
    UintMod,        \* bound: 2^32, the modulus of unsigned int
    FirstBuckets,   \* the arguments of ls_htable_create
    MaxBuckets      \* bound: tables are not grown past this

ASSUME HtableAssumption ==
    /\ Key \subseteq Seq(Nat) \ {<<>>}
    /\ Owned \subseteq Val
    /\ UintMod \in Nat \ {0}
    /\ FirstBuckets \subseteq Nat \ {0}

VARIABLES
    tab,        \* the table
    walk,       \* the ls_htable_walk in progress
    cleaned,    \* the values the last change of the table called cleaners for
    deadKeys,   \* the keys in the table that a cleaner was told to destroy
    hfault      \* a freed node was followed

htableVars == <<tab, walk, cleaned, deadKeys, hfault>>

------------------------------------------------------------------------------
ToLower(c) == IF c \in 65..90 THEN c + 32 ELSE c

\* ls_strcase_compare, and ls_strcase_hashcode over the same lower-case letters.
Folded == [key \in Key |-> [i \in DOMAIN key |-> ToLower(key[i])]]
SameKey(a, b) == Folded[a] = Folded[b]
HashOf(s) ==
    LET h[i \in 0..Len(s)] == IF i = 0 THEN 0 ELSE (31 * h[i - 1] + s[i]) % UintMod
    IN h[Len(s)]
Hashcode == [key \in Key |-> HashOf(Folded[key])]

ASSUME KeyAssumption == \A key \in Key : Folded[key] \in Key

Node == [key : Key, value : Val, bucket : Nat]

\* ls_htable_create; bcount = 0 is a table that does not exist.
Empty(n) == [bcount |-> n, count |-> 0, buckets |-> [b \in 0..n - 1 |-> <<>>]]
NoTable == Empty(0)

BucketOf(t, key) == Hashcode[key] % t.bcount

\* _find_node: the places in the key's chain that match; the first is found.
Matches(n, key) == Hashcode[n.key] = Hashcode[key] /\ SameKey(n.key, key)
Found(t, key) ==
    LET chain == t.buckets[BucketOf(t, key)] IN {i \in DOMAIN chain : Matches(chain[i], key)}
IsIn(t, key) == Found(t, key) # {}
FindNode(t, key) == t.buckets[BucketOf(t, key)][Min(Found(t, key))]

NodeSet(t) == UNION {Range(t.buckets[b]) : b \in 0..t.bcount - 1}

\* All nodes, in the order in which the buckets and their chains hold them.
Nodes(t) ==
    LET upto[b \in 0..t.bcount] ==
            IF b = 0 THEN <<>> ELSE upto[b - 1] \o t.buckets[b - 1]
    IN upto[t.bcount]

\* Mutant of Resize: node->bucket is not updated.
ResizeKeepsBucket(t, n) ==
    LET ns == Nodes(t)
        moved[k \in 0..Len(ns)] ==
            IF k = 0 THEN Empty(n).buckets
            ELSE [moved[k - 1] EXCEPT ![Hashcode[ns[k].key] % n] = <<ns[k]>> \o @]
    IN [t EXCEPT !.bcount = n, !.buckets = moved[Len(ns)]]

\* _resize_hashtable: every node, from the first chain's head on, is pushed in
\* front of its new chain.
Rehash(x, n) == [x EXCEPT !.bucket = Hashcode[x.key] % n]
Resize(t, n) ==
    LET ns == Nodes(t)
        moved[k \in 0..Len(ns)] ==
            IF k = 0 THEN Empty(n).buckets
            ELSE LET x == Rehash(ns[k], n) IN [moved[k - 1] EXCEPT ![x.bucket] = <<x>> \o @]
    IN [t EXCEPT !.bcount = n, !.buckets = moved[Len(ns)]]

\* ls_htable_get_first_node and ls_htable_get_next_node, as sequences of one
\* node or none.
FirstFrom(t, i) ==
    LET full == {b \in i..t.bcount - 1 : t.buckets[b] # <<>>} IN
    IF full = {} THEN <<>> ELSE <<Head(t.buckets[Min(full)])>>

\* node->next
ChainNext(t, n) ==
    LET chain == t.buckets[n.bucket]
        at == {i \in DOMAIN chain : chain[i].key = n.key /\ i < Len(chain)}
    IN IF at = {} THEN <<>> ELSE <<chain[Min(at) + 1]>>

NextNode(t, n) ==
    IF ChainNext(t, n) # <<>> THEN ChainNext(t, n) ELSE FirstFrom(t, n.bucket + 1)

------------------------------------------------------------------------------
(***************************************************************************)
(* cur and next are nodes; stale says that next has been freed.  The rest  *)
(* is history: of the entries that were there at the start and stayed,     *)
(* todo are not yet visited and seen are; again says that one was visited  *)
(* twice, foreign that a callback took away another node than its own,     *)
(* resized that the table was rebuilt.                                     *)
(***************************************************************************)
NoWalk == [at |-> "none", i |-> 0, cur |-> <<>>, next |-> <<>>, stale |-> FALSE,
           todo |-> {}, seen |-> {}, again |-> FALSE, foreign |-> FALSE, resized |-> FALSE]

HtableTypeOK ==
    /\ tab.bcount \in Nat /\ tab.count \in Nat
    /\ tab.buckets \in [0..tab.bcount - 1 -> Seq(Node)]
    /\ walk.at \in {"none", "step", "func", "done"}
    /\ walk.cur \in Key \cup {<<>>} /\ walk.next \in Key \cup {<<>>}
    /\ cleaned \subseteq Owned
    /\ deadKeys \subseteq Key
    /\ hfault \in BOOLEAN

HtableInit ==
    /\ tab = NoTable
    /\ walk = NoWalk
    /\ cleaned = {}
    /\ deadKeys = {}
    /\ hfault = FALSE

\* Application code runs: outside the table, or as the callback of a walk.
InApp == walk.at \in {"none", "func"} /\ ~hfault /\ tab.bcount > 0

\* Mutant of Clean: a cleaner is called although none was given.
CleanUnchecked(ns, keys, kept) ==
    /\ cleaned' = {n.value : n \in ns}
    /\ deadKeys' = (deadKeys \cup {n.key : n \in {m \in ns : m.value \in Owned /\ m.key \in keys}})
                    \cap {n.key : n \in NodeSet(kept)}

\* The cleaners of nodes ns are called; keys are the ones they are told to
\* destroy, and kept is the table afterwards.
Clean(ns, keys, kept) ==
    /\ cleaned' = {n.value : n \in ns} \cap Owned
    /\ deadKeys' = (deadKeys \cup {n.key : n \in {m \in ns : m.value \in Owned /\ m.key \in keys}})
                    \cap {n.key : n \in NodeSet(kept)}

\* What a call from its callback does to the walk: the next node may go.
Disturb(removed, resized) ==
    walk' = IF walk.at # "func" THEN walk
            ELSE [walk EXCEPT !.stale = @ \/ (walk.next # <<>> /\ Folded[walk.next] \in removed),
                              !.todo = @ \ removed,
                              !.seen = @ \ removed,
                              !.foreign = @ \/ removed \ {Folded[walk.cur]} # {},
                              !.resized = @ \/ resized]

\* An application puts a value the table does not own yet, or, by mistake, the
\* one the key has.
Puttable(key, v) ==
    v \in Owned => \A n \in NodeSet(tab) : n.value = v => SameKey(n.key, key)

HtableCreate(n) ==
    /\ tab.bcount = 0
    /\ tab' = Empty(n)
    /\ UNCHANGED <<walk, cleaned, deadKeys, hfault>>

ReplaceIn(t, old, new) ==
    LET chain == t.buckets[old.bucket] IN
    [t EXCEPT !.buckets[old.bucket] =
        [i \in DOMAIN chain |-> IF chain[i] = old THEN new ELSE chain[i]]]

\* Mutant of PutOver: the old key is always destroyed.
PutOverDestroys(key, v) ==
    /\ InApp
    /\ Puttable(key, v)
    /\ IsIn(tab, key)
    /\ LET old == FindNode(tab, key) IN
        /\ tab' = ReplaceIn(tab, old, [old EXCEPT !.key = key, !.value = v])
        /\ Clean({old}, {old.key}, tab')
        /\ walk' = [walk EXCEPT !.cur = IF @ = old.key THEN key ELSE @,
                                !.next = IF @ = old.key THEN key ELSE @]
    /\ UNCHANGED hfault

\* ls_htable_put of a key that is in the table: the old key is destroyed
\* unless it is the very same.
PutOver(key, v) ==
    /\ InApp
    /\ Puttable(key, v)
    /\ IsIn(tab, key)
    /\ LET old == FindNode(tab, key) IN
        /\ tab' = ReplaceIn(tab, old, [old EXCEPT !.key = key, !.value = v])
        /\ Clean({old}, {old.key} \ {key}, tab')
        \* the walk's node pointers now lead to the new spelling
        /\ walk' = [walk EXCEPT !.cur = IF @ = old.key THEN key ELSE @,
                                !.next = IF @ = old.key THEN key ELSE @]
    /\ UNCHANGED hfault

\* Mutant of Full: the count before the put is compared.
FullTooLate(t) == t.count > (t.bcount * 3) \div 4

\* The test of ls_htable_put for a table that must grow first.
Full(t) == t.count + 1 > (t.bcount * 3) \div 4

\* ls_htable_put of a new key.  ls_data_malloc may fail for the new buckets,
\* or for the node, when the table has grown already.
PutNew(key, v) ==
    /\ InApp
    /\ Puttable(key, v)
    /\ ~IsIn(tab, key)
    /\ Full(tab) => 2 * tab.bcount + 1 =< MaxBuckets
    /\ LET t == IF Full(tab) THEN Resize(tab, 2 * tab.bcount + 1) ELSE tab
           b == BucketOf(t, key)
       IN \/ /\ tab' = [t EXCEPT !.buckets[b] =
                            <<[key |-> key, value |-> v, bucket |-> b]>> \o @,
                                 !.count = @ + 1]
             /\ Clean({}, {}, tab')
          \/ /\ Full(tab)
             /\ tab' = t
             /\ UNCHANGED <<cleaned, deadKeys>>
    /\ Disturb({}, Full(tab))
    /\ UNCHANGED hfault

\* Mutant of PutValue: the value before is forgotten.
PutValueForgets(key, v) ==
    /\ InApp
    /\ Puttable(key, v)
    /\ IsIn(tab, key)
    /\ LET old == FindNode(tab, key) IN
        /\ tab' = ReplaceIn(tab, old, [old EXCEPT !.value = v])
        /\ Clean({}, {}, tab')
    /\ UNCHANGED <<walk, hfault>>

\* ls_hnode_put_value on the node of key; the value before is cleaned, its key
\* is not.
PutValue(key, v) ==
    /\ InApp
    /\ Puttable(key, v)
    /\ IsIn(tab, key)
    /\ LET old == FindNode(tab, key) IN
        /\ tab' = ReplaceIn(tab, old, [old EXCEPT !.value = v])
        /\ Clean({old}, {}, tab')
    /\ UNCHANGED <<walk, hfault>>

\* ls_htable_remove, and ls_htable_remove_node on what it finds: the node is
\* looked for in the chain of node->bucket, and running past the end of that
\* chain is a fault.
HtableRemove(key) ==
    /\ InApp
    /\ IsIn(tab, key)
    /\ LET n == FindNode(tab, key)
           chain == tab.buckets[n.bucket]
           at == {i \in DOMAIN chain : chain[i] = n}
       IN
        \/ /\ at # {}
           /\ tab' = [tab EXCEPT !.buckets[n.bucket] = RemoveAt(chain, Min(at)),
                                 !.count = @ - 1]
           /\ Clean({n}, {n.key}, tab')
           /\ Disturb({Folded[key]}, FALSE)
           /\ UNCHANGED hfault
        \/ /\ at = {}
           /\ hfault' = TRUE
           /\ UNCHANGED <<tab, walk, cleaned, deadKeys>>

\* ls_htable_clear
HtableClear ==
    /\ InApp
    /\ tab' = Empty(tab.bcount)
    /\ Clean(NodeSet(tab), Key, tab')
    /\ Disturb({Folded[n.key] : n \in NodeSet(tab)}, FALSE)
    /\ UNCHANGED hfault

\* ls_htable_destroy, not from the callback of a walk.
HtableDestroy ==
    /\ InApp
    /\ walk.at = "none"
    /\ tab' = NoTable
    /\ Clean(NodeSet(tab), Key, tab')
    /\ UNCHANGED <<walk, hfault>>

------------------------------------------------------------------------------
(***************************************************************************)
(* ls_htable_walk.  "step": in its loops.  "func": in the callback.        *)
(***************************************************************************)
HeadKey(chain) == IF chain = <<>> THEN <<>> ELSE chain[1].key

\* Mutant of WalkStart: the walk begins behind the first bucket.
WalkStartLate ==
    /\ InApp
    /\ walk.at = "none"
    /\ walk' = [NoWalk EXCEPT !.at = "step", !.todo = {Folded[n.key] : n \in NodeSet(tab)}]
    /\ UNCHANGED <<tab, cleaned, deadKeys, hfault>>

WalkStart ==
    /\ InApp
    /\ walk.at = "none"
    /\ walk' = [NoWalk EXCEPT !.at = "step", !.cur = HeadKey(tab.buckets[0]),
                              !.todo = {Folded[n.key] : n \in NodeSet(tab)}]
    /\ UNCHANGED <<tab, cleaned, deadKeys, hfault>>

\* To the next node of the chain and into the callback, or to the next bucket.
WalkStep ==
    /\ walk.at = "step" /\ ~hfault
    /\ \/ /\ walk.cur # <<>>
          /\ IF walk.stale
             THEN hfault' = TRUE /\ UNCHANGED walk
             ELSE /\ walk' = [walk EXCEPT !.at = "func", !.todo = @ \ {Folded[walk.cur]},
                                !.seen = @ \cup ({Folded[walk.cur]} \cap walk.todo),
                                !.again = @ \/ Folded[walk.cur] \in walk.seen,
                                !.next = HeadKey(ChainNext(tab, FindNode(tab, walk.cur)))]
                  /\ UNCHANGED hfault
       \/ /\ walk.cur = <<>>
          /\ walk' = IF walk.i + 1 < tab.bcount
                     THEN [walk EXCEPT !.i = @ + 1, !.cur = HeadKey(tab.buckets[walk.i + 1])]
                     ELSE [walk EXCEPT !.at = "done"]
          /\ UNCHANGED hfault
    /\ UNCHANGED <<tab, cleaned, deadKeys>>

\* Mutant of FuncReturns: next is read after the callback.
FuncReturnsLate(go) ==
    /\ walk.at = "func" /\ ~hfault
    /\ IF IsIn(tab, walk.cur)
       THEN walk' = [walk EXCEPT !.at = IF go THEN "step" ELSE "none",
                        !.cur = HeadKey(ChainNext(tab, FindNode(tab, walk.cur))),
                        !.stale = FALSE]
            /\ UNCHANGED hfault
       ELSE hfault' = TRUE /\ UNCHANGED walk
    /\ UNCHANGED <<tab, cleaned, deadKeys>>

\* The callback returns; 0 ends the walk.
FuncReturns(go) ==
    /\ walk.at = "func" /\ ~hfault
    /\ walk' = IF go THEN [walk EXCEPT !.at = "step", !.cur = walk.next, !.next = <<>>]
               ELSE NoWalk
    /\ UNCHANGED <<tab, cleaned, deadKeys, hfault>>

WalkReturns ==
    /\ walk.at = "done"
    /\ walk' = NoWalk
    /\ UNCHANGED <<tab, cleaned, deadKeys, hfault>>

HtableNext ==
    \/ \E n \in FirstBuckets : HtableCreate(n)
    \/ \E key \in Key :
        \/ \E v \in Val :
            PutOver(key, v) \/ PutNew(key, v) \/ PutValue(key, v)
        \/ HtableRemove(key)
    \/ HtableClear \/ HtableDestroy
    \/ WalkStart \/ WalkStep \/ WalkReturns
    \/ \E go \in BOOLEAN : FuncReturns(go)

HtableSpec == HtableInit /\ [][HtableNext]_htableVars

------------------------------------------------------------------------------
(***************************************************************************)
(* Properties.                                                             *)
(***************************************************************************)

\* Every node is in the chain its hash leads to and knows it, no key has two
\* nodes, the count is right, and the table never holds more than three
\* quarters of its buckets, from the smallest tables on and although growing
\* or the put after it may fail.
TableSound ==
    LET ns == Nodes(tab) IN
    /\ \A b \in 0..tab.bcount - 1 : \A n \in Range(tab.buckets[b]) :
        n.bucket = b /\ BucketOf(tab, n.key) = b
    /\ \A i, j \in DOMAIN ns : SameKey(ns[i].key, ns[j].key) => i = j
    /\ tab.count = Len(ns)
    /\ tab.count =< (3 * tab.bcount) \div 4

\* ls_htable_get_first_node and ls_htable_get_next_node lead through all nodes.
IterationCovers ==
    LET ns == Nodes(tab) IN
    /\ FirstFrom(tab, 0) = (IF ns = <<>> THEN <<>> ELSE <<ns[1]>>)
    /\ \A i \in DOMAIN ns :
        NextNode(tab, ns[i]) = (IF i = Len(ns) THEN <<>> ELSE <<ns[i + 1]>>)

\* What ls_htable_get finds.
Content(t) ==
    [f \in {Folded[k] : k \in {j \in Key : t.bcount > 0 /\ IsIn(t, j)}} |-> FindNode(t, f).value]

\* The table, seen through ls_htable_get, behaves as a map that releases each
\* value as it lets go of it, whatever chains, rebuilds and failed allocations
\* do underneath.
Map == INSTANCE TableMap WITH
    Key <- {Folded[k] : k \in Key},
    content <- Content(tab),
    released <- cleaned
BehavesAsMap == Map!Spec

\* No cleaner is told to destroy a key that the table goes on using.
KeysLive == deadKeys = {}

\* A walk follows a freed node only if its callback took away another node
\* than the one it was called for: removing that one is safe, as is putting.
WalkFaults == hfault => walk.foreign

\* A walk during which the table is not rebuilt visits every entry that was
\* there at its start and stayed, once.
WalkCovers == walk.at = "done" /\ ~walk.resized => walk.todo = {} /\ ~walk.again
=============================================================================
