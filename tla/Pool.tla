-------------------------------- MODULE Pool --------------------------------
(***************************************************************************)
(* The memory pools of src/src/ls_mem.c: requests are carved out of pages, *)
(* or allocated directly when they are larger than a page, and all of it   *)
(* is freed by the cleaners the pool runs when it is destroyed, to which   *)
(* the application adds its own.  Every ls_data_malloc may fail.  The      *)
(* application's cleaners do not use the pool they belong to.              *)
(*                                                                         *)
(* What ls_data_malloc returned and ls_data_free has not been given is in  *)
(* heap, by kind and number: the pool itself, the structure and the block  *)
(* of each page, the contexts of cleaners, the direct allocations.         *)
(***************************************************************************)
EXTENDS Naturals, Sequences, FiniteSets

CONSTANTS
    PageSize,   \* the arguments of ls_pool_create
    Request,    \* numbers of bytes asked for at once
    Count,      \* numbers of items asked for at once
    SizeMod,    \* bound: 2^64, the modulus of size_t
    MaxGiven,   \* bound: requests per pool
    MaxBound    \* bound: cleaners the application adds per pool

ASSUME PoolAssumption ==
    /\ PageSize \subseteq Nat /\ Request \subseteq Nat /\ Count \subseteq Nat
    /\ SizeMod \in Nat \ {0} /\ MaxGiven \in Nat /\ MaxBound \in Nat

VARIABLES
    pat,        \* "none", "open", or in ls_pool_destroy ("closing")
    paging,     \* _paging_enabled
    pool,       \* the pool's fields
    heap,       \* what is allocated
    given,      \* history: the memory the application was given
    todo        \* the cleaners ls_pool_destroy has not come to

poolVars == <<pat, paging, pool, heap, given, todo>>

Page == [no : Nat, size : Nat, used : Nat]
Memory == {"pool", "page", "block", "ctx", "direct"} \X Nat
Cleaner == [no : Nat, kind : {"page", "direct", "app"}, arg : Nat, sees : SUBSET Memory]

\* A piece of memory: of a page, or (page 0) the direct allocation number off.
Piece == [page : Nat, off : Nat, len : Nat]

NoPool == [size |-> 0, page_size |-> 0, cleaners |-> <<>>, pages |-> <<>>, direct |-> 0]

PoolTypeOK ==
    /\ pat \in {"none", "open", "closing"}
    /\ paging \in BOOLEAN
    /\ pool.size \in Nat /\ pool.page_size \in Nat /\ pool.direct \in Nat
    /\ pool.cleaners \in Seq(Cleaner) /\ todo \in Seq(Cleaner)
    /\ pool.pages \in Seq(Page)
    /\ heap \subseteq Memory
    /\ given \subseteq Piece

PoolInit ==
    /\ pat = "none"
    /\ paging = TRUE
    /\ pool = NoPool
    /\ heap = {}
    /\ given = {}
    /\ todo = <<>>

------------------------------------------------------------------------------
(***************************************************************************)
(* The allocating functions map a pool and a heap to the set of what they  *)
(* may return: ok, the pool, the heap and the piece.                       *)
(***************************************************************************)
NoPiece == [page |-> 0, off |-> 0, len |-> 0]
Now == [ok |-> TRUE, pool |-> pool, heap |-> heap, piece |-> NoPiece]

Fail(s) == [s EXCEPT !.ok = FALSE]
Take(s, m) == [s EXCEPT !.heap = @ \cup {m}]
Free(s, ms) == [s EXCEPT !.heap = @ \ ms]

\* The memory an application may use.
Usable(h) == {m \in h : m[1] \in {"block", "direct"}}

\* Mutant of AddCleaner: at the end of the list, as ls_mem.h has it.
AddCleanerLast(s, kind, arg) ==
    LET c == Len(s.pool.cleaners) + 1 IN
    {Fail(s),
     [Take(s, <<"ctx", c>>) EXCEPT !.pool.cleaners =
        Append(@, [no |-> c, kind |-> kind, arg |-> arg, sees |-> Usable(s.heap)])]}

\* ls_pool_add_cleaner: in front of the others.
AddCleaner(s, kind, arg) ==
    LET c == Len(s.pool.cleaners) + 1 IN
    {Fail(s),
     [Take(s, <<"ctx", c>>) EXCEPT !.pool.cleaners =
        <<[no |-> c, kind |-> kind, arg |-> arg, sees |-> Usable(s.heap)]>> \o @]}

\* Mutant of AddPage: the block is not freed when its cleaner cannot be added.
AddPageLeaks(s) ==
    LET p == Len(s.pool.pages) + 1
        s1 == Take(s, <<"page", p>>)
        s2 == Take(s1, <<"block", p>>)
    IN {Fail(s), Fail(Free(s1, {<<"page", p>>}))} \cup
       {IF r.ok
        THEN [r EXCEPT !.pool.pages = <<[no |-> p, size |-> r.pool.page_size, used |-> 0]>> \o @,
                       !.pool.size = @ + r.pool.page_size]
        ELSE Free(r, {<<"page", p>>}) : r \in AddCleaner(s2, "page", p)}

\* _add_page: the structure, the block, the cleaner.
AddPage(s) ==
    LET p == Len(s.pool.pages) + 1
        s1 == Take(s, <<"page", p>>)
        s2 == Take(s1, <<"block", p>>)
    IN {Fail(s), Fail(Free(s1, {<<"page", p>>}))} \cup
       {IF r.ok
        THEN [r EXCEPT !.pool.pages = <<[no |-> p, size |-> r.pool.page_size, used |-> 0]>> \o @,
                       !.pool.size = @ + r.pool.page_size]
        ELSE Free(r, {<<"page", p>>, <<"block", p>>}) : r \in AddCleaner(s2, "page", p)}

\* Mutant of Fits: the page's size is compared, not what is left of it.
FitsEmpty(page, n) == n =< page.size

\* The test of _page_malloc.
Fits(page, n) == n =< page.size - page.used

\* _page_malloc on the newest page, where n fits.
Carve(s, n) ==
    LET page == Head(s.pool.pages) IN
    [s EXCEPT !.pool.pages[1].used = @ + n,
              !.piece = [page |-> page.no, off |-> page.used, len |-> n]]

\* A request that is too big for a page: _malloc_fnc with ls_data_free.
Direct(s, n) ==
    LET d == s.pool.direct + 1 IN
    {IF r.ok
     THEN [r EXCEPT !.pool.size = @ + n, !.pool.direct = d,
                    !.piece = [page |-> 0, off |-> d, len |-> n]]
     ELSE Free(r, {<<"direct", d>>})
        : r \in AddCleaner(Take(s, <<"direct", d>>), "direct", d)} \cup {Fail(s)}

\* ls_pool_malloc
Malloc(s, n) ==
    IF n = 0 THEN {s}
    ELSE IF n > s.pool.page_size THEN Direct(s, n)
    ELSE IF Fits(Head(s.pool.pages), n) THEN {Carve(s, n)}
    ELSE {IF r.ok THEN Carve(r, n) ELSE r : r \in AddPage(s)}

------------------------------------------------------------------------------
EnablePaging(b) ==
    /\ paging # b
    /\ paging' = b
    /\ UNCHANGED <<pat, pool, heap, given, todo>>

\* ls_pool_create
PoolCreate(size) ==
    /\ pat = "none"
    /\ LET s == [Take(Now, <<"pool", 0>>) EXCEPT !.pool =
                    [NoPool EXCEPT !.page_size = IF paging THEN size ELSE 0]]
       IN \E r \in IF s.pool.page_size = 0 THEN {s} ELSE AddPage(s) :
            \/ /\ r.ok
               /\ pool' = r.pool /\ heap' = r.heap
               /\ pat' = "open"
            \/ /\ ~r.ok
               /\ heap' = r.heap \ {<<"pool", 0>>}
               /\ UNCHANGED <<pool, pat>>
    /\ UNCHANGED <<paging, given, todo>>

\* The pieces handed out are remembered.
Return(r) ==
    /\ pool' = r.pool /\ heap' = r.heap
    /\ given' = IF r.ok /\ r.piece.len > 0 THEN given \cup {r.piece} ELSE given

PoolMalloc(n) ==
    /\ pat = "open"
    /\ Cardinality(given) < MaxGiven
    /\ \E r \in Malloc(Now, n) : Return(r)
    /\ UNCHANGED <<pat, paging, todo>>

\* ls_pool_calloc, and ls_pool_strdup for one item of the string's length and
\* its end: the product is a size_t.
PoolCalloc(num, n) ==
    /\ pat = "open"
    /\ Cardinality(given) < MaxGiven
    /\ \E r \in Malloc(Now, (num * n) % SizeMod) : Return(r)
    /\ UNCHANGED <<pat, paging, todo>>

\* ls_pool_add_cleaner, called by the application.
PoolAddCleaner ==
    /\ pat = "open"
    /\ Cardinality({i \in DOMAIN pool.cleaners : pool.cleaners[i].kind = "app"}) < MaxBound
    /\ \E r \in AddCleaner(Now, "app", 0) : Return(r)
    /\ UNCHANGED <<pat, paging, todo>>

\* ls_pool_destroy, up to its loop.
PoolDestroy ==
    /\ pat = "open"
    /\ pat' = "closing"
    /\ todo' = pool.cleaners
    /\ UNCHANGED <<paging, pool, heap, given>>

\* What the cleaner of entry c frees.
Cleans(c) ==
    CASE c.kind = "page" -> {<<"page", c.arg>>, <<"block", c.arg>>}
      [] c.kind = "direct" -> {<<"direct", c.arg>>}
      [] c.kind = "app" -> {}

\* One cleaner is called, and its context freed.
PoolCleans ==
    /\ pat = "closing"
    /\ todo # <<>>
    /\ heap' = heap \ (Cleans(Head(todo)) \cup {<<"ctx", Head(todo).no>>})
    /\ todo' = Tail(todo)
    /\ UNCHANGED <<pat, paging, pool, given>>

PoolDestroyed ==
    /\ pat = "closing"
    /\ todo = <<>>
    /\ heap' = heap \ {<<"pool", 0>>}
    /\ pool' = NoPool
    /\ given' = {}
    /\ pat' = "none"
    /\ UNCHANGED <<paging, todo>>

PoolNext ==
    \/ \E b \in BOOLEAN : EnablePaging(b)
    \/ \E size \in PageSize : PoolCreate(size)
    \/ \E n \in Request : PoolMalloc(n) \/ \E num \in Count : PoolCalloc(num, n)
    \/ PoolAddCleaner
    \/ PoolDestroy \/ PoolCleans \/ PoolDestroyed

PoolSpec == PoolInit /\ [][PoolNext]_poolVars

------------------------------------------------------------------------------
\* What is handed out of pages lies inside what ls_pool_malloc marked as used
\* of a page that the pool has, and no two pieces overlap.
PiecesDisjoint ==
    /\ \A g \in {x \in given : x.page > 0} :
        \E i \in DOMAIN pool.pages :
            /\ pool.pages[i].no = g.page
            /\ g.off + g.len =< pool.pages[i].used
            /\ pool.pages[i].used =< pool.pages[i].size
    /\ \A g, h \in given :
        g # h /\ g.page > 0 /\ g.page = h.page => g.off + g.len =< h.off \/ h.off + h.len =< g.off

\* When a cleaner of the application runs, the pool still has all the pages and
\* direct allocations it had when the cleaner was added, which the cleaner's
\* argument may point to, and has already freed every later one: against
\* ls_mem.h:206, see CleanersComeFirst.
CleanersSeeMemory ==
    pat = "closing" /\ todo # <<>> /\ Head(todo).kind = "app" => Usable(heap) = Head(todo).sees

\* What ls_mem.h says of ls_pool_destroy, "callbacks are invoked before any
\* memory is freed": as long as a cleaner of the application is still to be
\* called, all pages and all direct allocations of the pool are there.
CleanersComeFirst ==
    pat = "closing" /\ (\E i \in DOMAIN todo : todo[i].kind = "app")
        => /\ \A i \in DOMAIN pool.pages : <<"block", pool.pages[i].no>> \in heap
           /\ \A d \in 1 .. pool.direct : <<"direct", d>> \in heap

\* Nothing stays allocated when a pool is destroyed or cannot be created, and
\* at any time all that is allocated is what the cleaners will free.
NothingLeaks ==
    /\ pat = "none" => heap = {}
    /\ pat = "open" =>
        heap = {<<"pool", 0>>} \cup UNION {Cleans(pool.cleaners[i]) \cup {<<"ctx", pool.cleaners[i].no>>}
                                            : i \in DOMAIN pool.cleaners}
=============================================================================
