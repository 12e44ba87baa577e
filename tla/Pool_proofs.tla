---------------------------- MODULE Pool_proofs ----------------------------
(***************************************************************************)
(* Proofs about Pool, for any sizes of pages, requests and size_t: what is *)
(* allocated is what the cleaners will free, in the order that lets a      *)
(* cleaner use what was there when it was added; and no two pieces of a    *)
(* page overlap.                                                           *)
(***************************************************************************)
EXTENDS Pool, SequenceTheorems, TLAPS

PoolRecord == [size : Nat, page_size : Nat, cleaners : Seq(Cleaner), pages : Seq(Page),
               direct : Nat]
Result == [ok : BOOLEAN, pool : PoolRecord, heap : SUBSET Memory, piece : Piece]

\* What cleaner c frees, its own context included.
Frees(c) == Cleans(c) \cup {<<"ctx", c.no>>}

\* The cleaners cs of a pool with np pages and nd direct allocations own the
\* heap h: they are numbered from the last to the first, no two free the same,
\* together they free everything but the pool, and what a cleaner sees is what
\* is freed by itself and by those that come after it.
IsUsable(m) == m[1] \in {"block", "direct"}

Owns(cs, np, nd, h) ==
    /\ cs \in Seq(Cleaner) /\ np \in Nat /\ nd \in Nat
    /\ \A i \in 1 .. Len(cs) :
        /\ cs[i].no = Len(cs) + 1 - i
        /\ cs[i].kind = "page" => cs[i].arg \in 1 .. np
        /\ cs[i].kind = "direct" => cs[i].arg \in 1 .. nd
        /\ \A m : m \in cs[i].sees <=> IsUsable(m) /\ \E j \in i .. Len(cs) : m \in Frees(cs[j])
    /\ \A i, j \in 1 .. Len(cs) :
        i # j /\ cs[i].kind = cs[j].kind /\ cs[i].kind # "app" => cs[i].arg # cs[j].arg
    /\ \A m : m \in h <=> m = <<"pool", 0>> \/ \E i \in 1 .. Len(cs) : m \in Frees(cs[i])

\* The pieces gs were carved out of the pages ps without overlap.  The pages
\* are numbered from the last to the first.
Carved(ps, gs) ==
    /\ ps \in Seq(Page) /\ gs \subseteq Piece
    /\ \A i \in 1 .. Len(ps) : ps[i].no = Len(ps) + 1 - i /\ ps[i].used =< ps[i].size
    /\ \A g \in gs : g.page > 0 => /\ g.page \in 1 .. Len(ps)
                                   /\ g.off + g.len =< ps[Len(ps) + 1 - g.page].used
    /\ \A g, h \in gs :
        g # h /\ g.page > 0 /\ g.page = h.page => g.off + g.len =< h.off \/ h.off + h.len =< g.off

PoolInv ==
    /\ pat \in {"none", "open", "closing"} /\ paging \in BOOLEAN /\ pool \in PoolRecord
    /\ todo \in Seq(Cleaner)
    /\ Carved(pool.pages, given)
    /\ pat = "none" => heap = {} /\ pool = NoPool /\ given = {} /\ todo = <<>>
    /\ pat = "open" => /\ Owns(pool.cleaners, Len(pool.pages), pool.direct, heap)
                       /\ pool.page_size > 0 => pool.pages # <<>>
    /\ pat = "closing" => Owns(todo, Len(pool.pages), pool.direct, heap)

------------------------------------------------------------------------------
\* A sequence with one more element in front, and without its first.
LEMMA CleanerInFront ==
    ASSUME NEW S, NEW s \in Seq(S), NEW e \in S, NEW u, u = <<e>> \o s
    PROVE  /\ u \in Seq(S) /\ Len(u) = Len(s) + 1 /\ Len(s) \in Nat
           /\ u[1] = e /\ \A i \in 1 .. Len(s) : u[i + 1] = s[i]
           /\ \A i \in 1 .. Len(u) : i = 1 \/ (i - 1 \in 1 .. Len(s) /\ u[i] = s[i - 1])
           /\ u # <<>>
<1>1. <<e>> \in Seq(S) /\ Len(<<e>>) = 1 /\ <<e>>[1] = e
  OBVIOUS
<1>2. u \in Seq(S) /\ Len(u) = Len(s) + 1 /\ Len(s) \in Nat
  BY <1>1, ConcatProperties, LenProperties
<1>3. \A i \in 1 .. Len(u) : u[i] = IF i =< 1 THEN <<e>>[i] ELSE s[i - 1]
  BY <1>1, <1>2, ConcatProperties
<1> QED  BY <1>1, <1>2, <1>3

LEMMA WithoutFirst ==
    ASSUME NEW S, NEW s \in Seq(S), s # <<>>, NEW u, u = Tail(s)
    PROVE  /\ u \in Seq(S) /\ Len(u) = Len(s) - 1 /\ Len(s) \in Nat \ {0} /\ Head(s) = s[1]
           /\ \A i \in 1 .. Len(u) : i + 1 \in 1 .. Len(s) /\ u[i] = s[i + 1]
           /\ Head(s) \in S
  BY HeadTailProperties, LenProperties

\* What is freed by whom.
LEMMA FreesIs ==
    ASSUME NEW c \in Cleaner
    PROVE  /\ <<"pool", 0>> \notin Frees(c)
           /\ \A m \in Frees(c) :
                \/ m = <<"ctx", c.no>>
                \/ c.kind = "page" /\ (m = <<"page", c.arg>> \/ m = <<"block", c.arg>>)
                \/ c.kind = "direct" /\ m = <<"direct", c.arg>>
           /\ Frees(c) \subseteq Memory
<1>1. /\ c.kind = "page" => Frees(c) = {<<"page", c.arg>>, <<"block", c.arg>>} \cup {<<"ctx", c.no>>}
      /\ c.kind = "direct" => Frees(c) = {<<"direct", c.arg>>} \cup {<<"ctx", c.no>>}
      /\ c.kind = "app" => Frees(c) = {} \cup {<<"ctx", c.no>>}
  BY DEF Frees, Cleans
<1>2. c.kind \in {"page", "direct", "app"} /\ c.no \in Nat /\ c.arg \in Nat
  BY DEF Cleaner
<1> QED  BY <1>1, <1>2 DEF Memory

LEMMA FreesApart ==
    ASSUME NEW c \in Cleaner, NEW d \in Cleaner, c.no # d.no,
           c.kind = d.kind /\ c.kind # "app" => c.arg # d.arg,
           NEW m, m \in Frees(c)
    PROVE  m \notin Frees(d)
<1>1. \/ m = <<"ctx", c.no>>
      \/ c.kind = "page" /\ (m = <<"page", c.arg>> \/ m = <<"block", c.arg>>)
      \/ c.kind = "direct" /\ m = <<"direct", c.arg>>
  BY FreesIs
<1>2. m \in Frees(d) => \/ m = <<"ctx", d.no>>
                        \/ d.kind = "page" /\ (m = <<"page", d.arg>> \/ m = <<"block", d.arg>>)
                        \/ d.kind = "direct" /\ m = <<"direct", d.arg>>
  BY FreesIs
<1> QED  BY <1>1, <1>2

\* A cleaner that may be put in front of cs.
Fresh(c, cs, np, nd) ==
    /\ c \in Cleaner /\ c.no = Len(cs) + 1
    /\ c.kind = "page" => c.arg = np + 1
    /\ c.kind = "direct" => c.arg = nd + 1

\* It frees nothing of what is there.
LEMMA FreesNew ==
    ASSUME NEW cs, NEW np, NEW nd, NEW h, Owns(cs, np, nd, h), NEW c, Fresh(c, cs, np, nd)
    PROVE  /\ \A i \in 1 .. Len(cs) : /\ cs[i] \in Cleaner /\ c.no # cs[i].no
                                      /\ c.kind = cs[i].kind /\ c.kind # "app" => c.arg # cs[i].arg
           /\ \A m \in Frees(c) : m \notin h
<1>1. ASSUME NEW i \in 1 .. Len(cs)
      PROVE  /\ cs[i] \in Cleaner /\ c.no # cs[i].no
             /\ c.kind = cs[i].kind /\ c.kind # "app" => c.arg # cs[i].arg
  <2>1. cs[i] \in Cleaner /\ cs \in Seq(Cleaner) /\ Len(cs) \in Nat
    BY LenProperties, ElementOfSeq DEF Owns
  <2>2. cs[i].no = Len(cs) + 1 - i /\ c.no # cs[i].no
    BY <2>1 DEF Owns, Fresh
  <2>3. cs[i].kind \in {"page", "direct", "app"}
    BY <2>1 DEF Cleaner
  <2>4. cs[i].kind = "page" /\ c.kind = "page" => c.arg # cs[i].arg
    BY DEF Owns, Fresh
  <2>5. cs[i].kind = "direct" /\ c.kind = "direct" => c.arg # cs[i].arg
    BY DEF Owns, Fresh
  <2> QED  BY <2>1, <2>2, <2>3, <2>4, <2>5
<1>2. ASSUME NEW m \in Frees(c), m \in h
      PROVE  FALSE
  <2>1. c \in Cleaner
    BY DEF Fresh
  <2>2. m # <<"pool", 0>>
    BY <2>1, FreesIs
  <2>3. PICK i \in 1 .. Len(cs) : m \in Frees(cs[i])
    BY <1>2, <2>2 DEF Owns
  <2> QED  BY <1>1, <2>1, <2>3, FreesApart
<1> QED  BY <1>1, <1>2

\* The cleaner is put in front and what it frees is allocated.
LEMMA OwnsMore ==
    ASSUME NEW cs, NEW np, NEW nd, NEW h, Owns(cs, np, nd, h), NEW c, Fresh(c, cs, np, nd),
           NEW mp \in Nat, NEW md \in Nat,
           mp = IF c.kind = "page" THEN np + 1 ELSE np,
           md = IF c.kind = "direct" THEN nd + 1 ELSE nd,
           \A m : m \in c.sees <=> IsUsable(m) /\ (m \in h \/ m \in Frees(c)),
           NEW us, us = <<c>> \o cs, NEW k, k = h \cup Frees(c)
    PROVE  Owns(us, mp, md, k)
<1>1. cs \in Seq(Cleaner) /\ c \in Cleaner /\ np \in Nat /\ nd \in Nat
  BY DEF Owns, Fresh
<1>2. /\ us \in Seq(Cleaner) /\ Len(us) = Len(cs) + 1 /\ Len(cs) \in Nat /\ us[1] = c
      /\ \A i \in 1 .. Len(cs) : us[i + 1] = cs[i]
      /\ \A i \in 1 .. Len(us) : i = 1 \/ (i - 1 \in 1 .. Len(cs) /\ us[i] = cs[i - 1])
  BY <1>1, CleanerInFront
<1>3. ASSUME NEW i \in 1 .. Len(us)
      PROVE  /\ us[i].no = Len(us) + 1 - i
             /\ us[i].kind = "page" => us[i].arg \in 1 .. mp
             /\ us[i].kind = "direct" => us[i].arg \in 1 .. md
  <2>1. CASE i = 1
    BY <1>1, <1>2, <2>1 DEF Fresh
  <2>2. CASE i # 1
    BY <1>1, <1>2, <2>2 DEF Owns
  <2> QED  BY <2>1, <2>2
<1>4. ASSUME NEW i \in 1 .. Len(us), NEW m
      PROVE  m \in us[i].sees <=> IsUsable(m) /\ \E j \in i .. Len(us) : m \in Frees(us[j])
  <2>1. CASE i = 1
    <3>1. ~IsUsable(<<"pool", 0>>)
      BY DEF IsUsable
    <3>2. IsUsable(m) => (m \in h <=> \E j \in 1 .. Len(cs) : m \in Frees(cs[j]))
      BY <3>1 DEF Owns
    <3>3. (\E j \in 1 .. Len(us) : m \in Frees(us[j])) <=>
              m \in Frees(c) \/ \E j \in 1 .. Len(cs) : m \in Frees(cs[j])
      <4>1. ASSUME NEW j \in 1 .. Len(cs), m \in Frees(cs[j])
            PROVE  \E x \in 1 .. Len(us) : m \in Frees(us[x])
        <5>1. j + 1 \in 1 .. Len(us) /\ us[j + 1] = cs[j]
          BY ONLY <1>2, j \in 1 .. Len(cs)
        <5> QED  BY ONLY <4>1, <5>1
      <4> QED  BY <1>2, <4>1
    <3> QED  BY <1>2, <2>1, <3>2, <3>3
  <2>2. CASE i # 1
    <3>1. PICK x \in 1 .. Len(cs) : x = i - 1 /\ us[i] = cs[x]
      BY <1>2, <2>2
    <3>2. m \in cs[x].sees <=> IsUsable(m) /\ \E j \in x .. Len(cs) : m \in Frees(cs[j])
      BY DEF Owns
    <3>3. ASSUME NEW j \in x .. Len(cs), m \in Frees(cs[j])
          PROVE  \E y \in i .. Len(us) : m \in Frees(us[y])
      <4>1. j + 1 \in i .. Len(us) /\ us[j + 1] = cs[j]
        BY <1>2, <3>1
      <4> QED  BY <3>3, <4>1
    <3>4. ASSUME NEW y \in i .. Len(us), m \in Frees(us[y])
          PROVE  \E j \in x .. Len(cs) : m \in Frees(cs[j])
      <4>1. y - 1 \in x .. Len(cs) /\ us[y] = cs[y - 1]
        BY <1>2, <2>2, <3>1
      <4> QED  BY <3>4, <4>1
    <3> QED  BY <3>1, <3>2, <3>3, <3>4
  <2> QED  BY <2>1, <2>2
<1>5. ASSUME NEW i \in 1 .. Len(us), NEW j \in 1 .. Len(us), i # j,
             us[i].kind = us[j].kind, us[i].kind # "app"
      PROVE  us[i].arg # us[j].arg
  <2>1. CASE i = 1 \/ j = 1
    <3>1. \A x \in 1 .. Len(cs) : c.kind = cs[x].kind /\ c.kind # "app" => c.arg # cs[x].arg
      BY FreesNew
    <3> QED  BY ONLY <1>2, <1>5, <2>1, <3>1, i \in 1 .. Len(us), j \in 1 .. Len(us)
  <2>2. CASE i # 1 /\ j # 1
    <3>1. PICK x \in 1 .. Len(cs) : x = i - 1 /\ us[i] = cs[x]
      BY <1>2, <2>2
    <3>2. PICK y \in 1 .. Len(cs) : y = j - 1 /\ us[j] = cs[y]
      BY <1>2, <2>2
    <3>3. x # y
      BY <1>5, <3>1, <3>2
    <3>4. cs[x].kind = cs[y].kind /\ cs[x].kind # "app" => cs[x].arg # cs[y].arg
      BY <3>3 DEF Owns
    <3> QED  BY <1>5, <3>1, <3>2, <3>4
  <2> QED  BY <2>1, <2>2
<1>6. ASSUME NEW m
      PROVE  m \in k <=> m = <<"pool", 0>> \/ \E i \in 1 .. Len(us) : m \in Frees(us[i])
  <2>1. m \in h <=> m = <<"pool", 0>> \/ \E i \in 1 .. Len(cs) : m \in Frees(cs[i])
    BY DEF Owns
  <2>2. (\E i \in 1 .. Len(us) : m \in Frees(us[i])) <=>
            m \in Frees(c) \/ \E i \in 1 .. Len(cs) : m \in Frees(cs[i])
    <3>1. ASSUME NEW i \in 1 .. Len(cs), m \in Frees(cs[i])
          PROVE  \E j \in 1 .. Len(us) : m \in Frees(us[j])
      <4>1. i + 1 \in 1 .. Len(us) /\ us[i + 1] = cs[i]
        BY ONLY <1>2, i \in 1 .. Len(cs)
      <4> QED  BY ONLY <3>1, <4>1
    <3> QED  BY <1>2, <3>1
  <2> QED  BY <2>1, <2>2
<1> QED  BY <1>2, <1>3, <1>4, <1>5, <1>6 DEF Owns

\* The first cleaner has run.
LEMMA OwnsLess ==
    ASSUME NEW cs, NEW np, NEW nd, NEW h, Owns(cs, np, nd, h), cs # <<>>,
           NEW us, us = Tail(cs), NEW k, k = h \ Frees(Head(cs))
    PROVE  Owns(us, np, nd, k)
<1>1. cs \in Seq(Cleaner) /\ np \in Nat /\ nd \in Nat
  BY DEF Owns
<1>2. /\ us \in Seq(Cleaner) /\ Len(us) = Len(cs) - 1 /\ Len(cs) \in Nat \ {0}
      /\ Head(cs) = cs[1]
      /\ \A i \in 1 .. Len(us) : i + 1 \in 1 .. Len(cs) /\ us[i] = cs[i + 1]
  BY <1>1, WithoutFirst
<1>3. ASSUME NEW i \in 1 .. Len(us)
      PROVE  /\ us[i].no = Len(us) + 1 - i
             /\ us[i].kind = "page" => us[i].arg \in 1 .. np
             /\ us[i].kind = "direct" => us[i].arg \in 1 .. nd
  BY <1>2 DEF Owns
<1>4. ASSUME NEW i \in 1 .. Len(us), NEW m
      PROVE  m \in us[i].sees <=> IsUsable(m) /\ \E j \in i .. Len(us) : m \in Frees(us[j])
  <2>1. PICK x \in 1 .. Len(cs) : x = i + 1 /\ us[i] = cs[x]
    BY <1>2
  <2>2. m \in cs[x].sees <=> IsUsable(m) /\ \E j \in x .. Len(cs) : m \in Frees(cs[j])
    BY DEF Owns
  <2>3. ASSUME NEW j \in x .. Len(cs), m \in Frees(cs[j])
        PROVE  \E y \in i .. Len(us) : m \in Frees(us[y])
    <3>1. j - 1 \in i .. Len(us) /\ us[j - 1] = cs[j]
      BY <1>2, <2>1
    <3> QED  BY <2>3, <3>1
  <2>4. ASSUME NEW y \in i .. Len(us), m \in Frees(us[y])
        PROVE  \E j \in x .. Len(cs) : m \in Frees(cs[j])
    <3>1. y + 1 \in x .. Len(cs) /\ us[y] = cs[y + 1]
      BY <1>2, <2>1
    <3> QED  BY <2>4, <3>1
  <2> QED  BY <2>1, <2>2, <2>3, <2>4
<1>5. ASSUME NEW i \in 1 .. Len(us), NEW j \in 1 .. Len(us), i # j,
             us[i].kind = us[j].kind, us[i].kind # "app"
      PROVE  us[i].arg # us[j].arg
  <2>1. PICK x \in 1 .. Len(cs) : x = i + 1 /\ us[i] = cs[x]
    BY <1>2
  <2>2. PICK y \in 1 .. Len(cs) : y = j + 1 /\ us[j] = cs[y]
    BY <1>2
  <2>3. x # y
    BY <1>5, <2>1, <2>2
  <2>4. cs[x].kind = cs[y].kind /\ cs[x].kind # "app" => cs[x].arg # cs[y].arg
    BY <2>3 DEF Owns
  <2> QED  BY <1>5, <2>1, <2>2, <2>4
<1>6. ASSUME NEW i \in 2 .. Len(cs), NEW m \in Frees(cs[i])
      PROVE  m \notin Frees(cs[1])
  <2>1. 1 \in 1 .. Len(cs) /\ i \in 1 .. Len(cs) /\ i # 1
    BY <1>2
  <2>2. cs[1] \in Cleaner /\ cs[i] \in Cleaner
    BY <1>1, <2>1, ElementOfSeq
  <2>3. cs[1].no = Len(cs) + 1 - 1 /\ cs[i].no = Len(cs) + 1 - i
    BY <2>1 DEF Owns
  <2>4. cs[i].no # cs[1].no
    BY <1>2, <2>1, <2>3
  <2>5. cs[i].kind = cs[1].kind /\ cs[i].kind # "app" => cs[i].arg # cs[1].arg
    BY <2>1 DEF Owns
  <2> QED  BY <2>2, <2>4, <2>5, FreesApart
<1>7. ASSUME NEW m
      PROVE  m \in k <=> m = <<"pool", 0>> \/ \E i \in 1 .. Len(us) : m \in Frees(us[i])
  <2>1. m \in h <=> m = <<"pool", 0>> \/ \E i \in 1 .. Len(cs) : m \in Frees(cs[i])
    BY DEF Owns
  <2>2. <<"pool", 0>> \notin Frees(cs[1])
    BY <1>1, <1>2, ElementOfSeq, FreesIs
  <2>3. m \in k <=> m \in h /\ m \notin Frees(cs[1])
    BY <1>2
  <2>4. ASSUME NEW i \in 1 .. Len(us), m \in Frees(us[i])
        PROVE  m \in k
    <3>1. PICK x \in 2 .. Len(cs) : x = i + 1 /\ us[i] = cs[x]
      BY <1>2
    <3>2. m \notin Frees(cs[1])
      BY <1>6, <2>4, <3>1
    <3>3. x \in 1 .. Len(cs)
      BY <1>2, <3>1
    <3> QED  BY <2>1, <2>3, <2>4, <3>1, <3>2, <3>3
  <2>5. ASSUME m \in k, m # <<"pool", 0>>
        PROVE  \E i \in 1 .. Len(us) : m \in Frees(us[i])
    <3>1. PICK x \in 1 .. Len(cs) : m \in Frees(cs[x])
      BY <2>1, <2>3, <2>5
    <3>2. x # 1
      BY <2>3, <2>5, <3>1
    <3>3. x - 1 \in 1 .. Len(us) /\ us[x - 1] = cs[x]
      BY <1>2, <3>1, <3>2
    <3> QED  BY <3>1, <3>3
  <2> QED  BY <2>1, <2>2, <2>3, <2>4, <2>5
<1> QED  BY <1>1, <1>2, <1>3, <1>4, <1>5, <1>7 DEF Owns

\* What is left when a cleaner's turn comes is what was there when it was added.
LEMMA OwnsSeen ==
    ASSUME NEW cs, NEW np, NEW nd, NEW h, Owns(cs, np, nd, h), cs # <<>>
    PROVE  Usable(h) = Head(cs).sees
<1>1. cs \in Seq(Cleaner)
  BY DEF Owns
<1>2. Head(cs) = cs[1] /\ Len(cs) \in Nat \ {0}
  BY <1>1, WithoutFirst
<1>3. ASSUME NEW m
      PROVE  m \in cs[1].sees <=> m \in Usable(h)
  <2>0. 1 \in 1 .. Len(cs)
    BY <1>2
  <2>1. m \in cs[1].sees <=> IsUsable(m) /\ \E j \in 1 .. Len(cs) : m \in Frees(cs[j])
    BY <2>0, Zenon DEF Owns
  <2>2. m \in h <=> m = <<"pool", 0>> \/ \E j \in 1 .. Len(cs) : m \in Frees(cs[j])
    BY DEF Owns
  <2>3. ~IsUsable(<<"pool", 0>>)
    BY DEF IsUsable
  <2> QED  BY <2>1, <2>2, <2>3 DEF IsUsable, Usable
<1> QED  BY <1>2, <1>3

LEMMA OwnsNothing ==
    ASSUME NEW np, NEW nd, NEW h
    PROVE  /\ Owns(<<>>, np, nd, h) => h \ {<<"pool", 0>>} = {}
           /\ np \in Nat /\ nd \in Nat /\ h = {<<"pool", 0>>} => Owns(<<>>, np, nd, h)
<1>1. <<>> \in Seq(Cleaner) /\ Len(<<>>) = 0
  OBVIOUS
<1> QED  BY <1>1 DEF Owns

LEMMA OwnsTypes ==
    ASSUME NEW cs, NEW np, NEW nd, NEW h, Owns(cs, np, nd, h)
    PROVE  h \subseteq Memory /\ h = {<<"pool", 0>>} \cup UNION {Frees(cs[i]) : i \in 1 .. Len(cs)}
<1>1. \A i \in 1 .. Len(cs) : cs[i] \in Cleaner
  BY ElementOfSeq DEF Owns
<1>2. <<"pool", 0>> \in Memory
  BY DEF Memory
<1>3. ASSUME NEW m \in h
      PROVE  m \in Memory
  <2>1. CASE m = <<"pool", 0>>
    BY <1>2, <2>1
  <2>2. CASE m # <<"pool", 0>>
    <3>1. PICK i \in 1 .. Len(cs) : m \in Frees(cs[i])
      BY <2>2 DEF Owns
    <3> QED  BY <1>1, <3>1, FreesIs
  <2> QED  BY <2>1, <2>2
<1>4. \A m : m \in h <=> m \in {<<"pool", 0>>} \cup UNION {Frees(cs[i]) : i \in 1 .. Len(cs)}
  <2>1. ASSUME NEW m
        PROVE  m \in UNION {Frees(cs[i]) : i \in 1 .. Len(cs)} <=>
                    \E i \in 1 .. Len(cs) : m \in Frees(cs[i])
    OBVIOUS
  <2> QED  BY <2>1 DEF Owns
<1> QED  BY <1>3, <1>4

------------------------------------------------------------------------------
\* A new page is in front of the others, and empty.
LEMMA PageAdded ==
    ASSUME NEW ps, NEW gs, Carved(ps, gs), NEW n \in Nat,
           NEW us, us = <<[no |-> Len(ps) + 1, size |-> n, used |-> 0]>> \o ps
    PROVE  Carved(us, gs) /\ Len(us) = Len(ps) + 1 /\ us # <<>>
           /\ us[1] = [no |-> Len(ps) + 1, size |-> n, used |-> 0]
<1>1. ps \in Seq(Page) /\ Len(ps) \in Nat
  BY LenProperties DEF Carved
<1>2. PICK p \in Page : p = [no |-> Len(ps) + 1, size |-> n, used |-> 0]
  BY <1>1 DEF Page
<1>3. /\ us \in Seq(Page) /\ Len(us) = Len(ps) + 1 /\ us[1] = p /\ us # <<>>
      /\ \A i \in 1 .. Len(ps) : us[i + 1] = ps[i]
      /\ \A i \in 1 .. Len(us) : i = 1 \/ (i - 1 \in 1 .. Len(ps) /\ us[i] = ps[i - 1])
  BY <1>1, <1>2, CleanerInFront
<1>4. ASSUME NEW i \in 1 .. Len(us)
      PROVE  us[i].no = Len(us) + 1 - i /\ us[i].used =< us[i].size
  <2>1. CASE i = 1
    BY <1>1, <1>2, <1>3, <2>1
  <2>2. CASE i # 1
    BY <1>1, <1>3, <2>2 DEF Carved
  <2> QED  BY <2>1, <2>2
<1>5. ASSUME NEW g \in gs, g.page > 0
      PROVE  g.page \in 1 .. Len(us) /\ g.off + g.len =< us[Len(us) + 1 - g.page].used
  <2>1. g.page \in 1 .. Len(ps) /\ g.off + g.len =< ps[Len(ps) + 1 - g.page].used
    BY <1>5 DEF Carved
  <2>2. PICK i \in 1 .. Len(ps) : i = Len(ps) + 1 - g.page
    BY <1>1, <2>1
  <2>3. Len(us) + 1 - g.page = i + 1 /\ us[i + 1] = ps[i] /\ g.page \in 1 .. Len(us)
    <3>1. us[i + 1] = ps[i]
      BY <1>3
    <3>2. Len(us) + 1 - g.page = i + 1 /\ g.page \in 1 .. Len(us)
      BY <1>1, <1>3, <2>1, <2>2
    <3> QED  BY <3>1, <3>2
  <2> QED  BY <2>1, <2>2, <2>3
<1> QED  BY <1>2, <1>3, <1>4, <1>5 DEF Carved

\* The newest page with n more bytes used, and the piece they make.
Longer(ps, n) == [ps EXCEPT ![1] = [ps[1] EXCEPT !.used = ps[1].used + n]]
NextPiece(page, n) == [page |-> page.no, off |-> page.used, len |-> n]

\* _page_malloc: the next n bytes of the newest page.
LEMMA PieceCarved ==
    ASSUME NEW ps, NEW gs, Carved(ps, gs), ps # <<>>, NEW n \in Nat, Fits(ps[1], n),
           NEW us, us = Longer(ps, n), NEW x, x = NextPiece(ps[1], n)
    PROVE  Carved(us, gs \cup {x}) /\ Carved(us, gs) /\ Len(us) = Len(ps) /\ us # <<>> /\ x \in Piece
<1> PICK p : p = [ps[1] EXCEPT !.used = ps[1].used + n]
  OBVIOUS
<1> us = [ps EXCEPT ![1] = p] /\ x = [page |-> ps[1].no, off |-> ps[1].used, len |-> n]
  BY DEF Longer, NextPiece
<1>1. ps \in Seq(Page) /\ Len(ps) \in Nat \ {0} /\ 1 \in 1 .. Len(ps) /\ ps[1] \in Page
  BY WithoutFirst, LenProperties, ElementOfSeq DEF Carved
<1>2. /\ ps[1].no = Len(ps) /\ ps[1].used =< ps[1].size
      /\ ps[1].used \in Nat /\ ps[1].size \in Nat /\ ps[1].no \in Nat
  BY <1>1 DEF Carved, Page
<1>3. p \in Page /\ p.no = ps[1].no /\ p.size = ps[1].size /\ p.used = ps[1].used + n
  BY <1>1, <1>2 DEF Page
<1>4. /\ us \in Seq(Page) /\ Len(us) = Len(ps) /\ us[1] = p
      /\ \A i \in 1 .. Len(ps) : i # 1 => us[i] = ps[i]
  BY <1>1, <1>3, ExceptSeq
<1>5. us # <<>>
  BY <1>1, <1>4
<1>6. p.used =< p.size
  BY <1>2, <1>3 DEF Fits
<1>7. \A i \in 1 .. Len(us) : us[i].no = Len(us) + 1 - i /\ us[i].used =< us[i].size
  BY <1>1, <1>2, <1>3, <1>4, <1>6 DEF Carved
<1>8. x \in Piece /\ x.page = Len(ps) /\ x.off = ps[1].used /\ x.len = n
  BY <1>2 DEF Piece
<1>9. ASSUME NEW g \in gs, g.page > 0
      PROVE  /\ g \in Piece /\ g.page \in 1 .. Len(ps)
             /\ g.off + g.len =< ps[Len(ps) + 1 - g.page].used
             /\ g.off + g.len =< us[Len(us) + 1 - g.page].used
             /\ g.page = Len(ps) => g.off + g.len =< x.off
  <2>1. /\ g \in Piece /\ g.page \in 1 .. Len(ps)
        /\ g.off + g.len =< ps[Len(ps) + 1 - g.page].used
    BY <1>9 DEF Carved
  <2>2. g.off \in Nat /\ g.len \in Nat
    BY <2>1 DEF Piece
  <2>3. CASE g.page = Len(ps)
    <3>1. Len(ps) + 1 - g.page = 1 /\ Len(us) + 1 - g.page = 1
      BY <1>1, <1>4, <2>3
    <3>2. g.off + g.len =< ps[1].used
      BY <2>1, <3>1
    <3>3. g.off + g.len =< us[1].used
      BY <1>2, <1>3, <1>4, <2>2, <3>2
    <3> QED  BY <1>8, <2>1, <3>1, <3>2, <3>3
  <2>4. CASE g.page # Len(ps)
    <3>1. PICK i \in 1 .. Len(ps) : i = Len(ps) + 1 - g.page /\ i # 1
      BY <1>1, <2>1, <2>4
    <3>2. us[i] = ps[i] /\ Len(us) + 1 - g.page = i
      BY <1>4, <3>1
    <3> QED  BY <2>1, <2>4, <3>1, <3>2
  <2> QED  BY <2>3, <2>4
<1>10. x.page > 0 => x.page \in 1 .. Len(us) /\ x.off + x.len =< us[Len(us) + 1 - x.page].used
  <2>1. Len(us) + 1 - x.page = 1
    BY <1>1, <1>4, <1>8
  <2>2. x.off + x.len = us[1].used /\ us[1].used \in Nat
    BY <1>2, <1>3, <1>4, <1>8
  <2> QED  BY <1>1, <1>4, <1>8, <2>1, <2>2
<1>11. Carved(us, gs)
  BY <1>4, <1>7, <1>9 DEF Carved
<1>12. ASSUME NEW g \in gs \cup {x}, NEW h \in gs \cup {x}, g # h, g.page > 0, g.page = h.page
       PROVE  g.off + g.len =< h.off \/ h.off + h.len =< g.off
  <2>1. CASE g \in gs /\ h \in gs
    BY <1>12, <2>1 DEF Carved
  <2>2. CASE g = x \/ h = x
    BY <1>8, <1>9, <1>12, <2>2
  <2> QED  BY <2>1, <2>2
<1>13. \A g \in gs \cup {x} : g.page > 0 => /\ g.page \in 1 .. Len(us)
                                            /\ g.off + g.len =< us[Len(us) + 1 - g.page].used
  BY <1>4, <1>9, <1>10
<1>14. gs \cup {x} \subseteq Piece
  BY <1>8 DEF Carved
<1>15. Carved(us, gs \cup {x})
  BY <1>4, <1>7, <1>12, <1>13, <1>14 DEF Carved
<1> QED  BY <1>4, <1>5, <1>8, <1>11, <1>15

\* A direct allocation is of no page.
LEMMA DirectCarved ==
    ASSUME NEW ps, NEW gs, Carved(ps, gs), NEW x \in Piece, x.page = 0
    PROVE  Carved(ps, gs \cup {x})
  BY DEF Carved

------------------------------------------------------------------------------
\* The steps that the allocating functions are made of.
LEMMA FailIs ==
    ASSUME NEW s \in Result
    PROVE  /\ Fail(s) \in Result /\ Fail(s).ok = FALSE /\ Fail(s).pool = s.pool
           /\ Fail(s).heap = s.heap /\ Fail(s).piece = s.piece
  BY DEF Fail, Result

LEMMA TakeIs ==
    ASSUME NEW s \in Result, NEW m \in Memory
    PROVE  /\ Take(s, m) \in Result /\ Take(s, m).ok = s.ok /\ Take(s, m).pool = s.pool
           /\ Take(s, m).heap = s.heap \cup {m} /\ Take(s, m).piece = s.piece
  BY DEF Take, Result

LEMMA FreeIs ==
    ASSUME NEW s \in Result, NEW ms
    PROVE  /\ Free(s, ms) \in Result /\ Free(s, ms).ok = s.ok /\ Free(s, ms).pool = s.pool
           /\ Free(s, ms).heap = s.heap \ ms /\ Free(s, ms).piece = s.piece
  BY DEF Free, Result

\* r is s with the cleaner c.
HasCleaner(s, r, c) ==
    /\ c \in Cleaner /\ c.no = Len(s.pool.cleaners) + 1 /\ c.sees = Usable(s.heap)
    /\ r \in Result /\ r.ok = s.ok /\ r.piece = s.piece
    /\ r.heap = s.heap \cup {<<"ctx", c.no>>}
    /\ r.pool.cleaners = <<c>> \o s.pool.cleaners
    /\ r.pool.pages = s.pool.pages /\ r.pool.direct = s.pool.direct
    /\ r.pool.page_size = s.pool.page_size /\ r.pool.size = s.pool.size

\* ls_pool_add_cleaner
LEMMA CleanerAdded ==
    ASSUME NEW s \in Result, NEW kind \in {"page", "direct", "app"}, NEW arg \in Nat,
           NEW r \in AddCleaner(s, kind, arg)
    PROVE  r = Fail(s) \/ \E c : HasCleaner(s, r, c) /\ c.kind = kind /\ c.arg = arg
<1>1. PICK k : k = Len(s.pool.cleaners) + 1
  OBVIOUS
<1>2. /\ s.pool \in PoolRecord /\ s.pool.cleaners \in Seq(Cleaner) /\ k \in Nat
      /\ s.heap \subseteq Memory
  BY <1>1, LenProperties DEF Result, PoolRecord
<1>3. PICK c : c = [no |-> k, kind |-> kind, arg |-> arg, sees |-> Usable(s.heap)]
  OBVIOUS
<1>4. c \in Cleaner /\ c.no = k /\ c.kind = kind /\ c.arg = arg /\ c.sees = Usable(s.heap)
  BY <1>2, <1>3 DEF Cleaner, Usable
<1>5. PICK t : t = Take(s, <<"ctx", k>>)
  OBVIOUS
<1>6. /\ t \in Result /\ t.ok = s.ok /\ t.pool = s.pool /\ t.piece = s.piece
      /\ t.heap = s.heap \cup {<<"ctx", k>>}
  <2>1. <<"ctx", k>> \in Memory
    BY <1>2 DEF Memory
  <2> QED  BY <1>5, <2>1, TakeIs
<1>7. PICK us : us = <<c>> \o s.pool.cleaners
  OBVIOUS
<1>8. us \in Seq(Cleaner)
  BY <1>2, <1>4, <1>7, CleanerInFront
<1>9. CASE r # Fail(s)
  <2>1. r = [t EXCEPT !.pool.cleaners = <<c>> \o @]
    BY <1>1, <1>3, <1>5, <1>9 DEF AddCleaner
  <2>2. PICK q : q = [s.pool EXCEPT !.cleaners = us]
    OBVIOUS
  <2>3. /\ q \in PoolRecord /\ q.cleaners = us /\ q.pages = s.pool.pages
        /\ q.direct = s.pool.direct /\ q.page_size = s.pool.page_size /\ q.size = s.pool.size
    BY <1>2, <1>8, <2>2 DEF PoolRecord
  <2>4. r = [t EXCEPT !.pool = q]
    BY <1>6, <1>7, <2>1, <2>2
  <2>5. r \in Result /\ r.ok = t.ok /\ r.pool = q /\ r.heap = t.heap /\ r.piece = t.piece
    BY <1>6, <2>3, <2>4 DEF Result
  <2>6. HasCleaner(s, r, c)
    BY <1>1, <1>4, <1>6, <1>7, <2>3, <2>5 DEF HasCleaner
  <2> QED  BY <1>4, <2>6
<1> QED  BY <1>9

\* The cleaner c that r has more than s, and what it frees beyond its context,
\* keep the heap owned.
LEMMA AddedOwns ==
    ASSUME NEW s \in Result, NEW r, NEW c, NEW h, NEW t, HasCleaner(t, r, c),
           t.pool = s.pool, t.heap = h \cup Cleans(c),
           Owns(s.pool.cleaners, Len(s.pool.pages), s.pool.direct, h),
           NEW mp \in Nat, NEW md \in Nat,
           mp = IF c.kind = "page" THEN Len(s.pool.pages) + 1 ELSE Len(s.pool.pages),
           md = IF c.kind = "direct" THEN s.pool.direct + 1 ELSE s.pool.direct,
           c.kind = "page" => c.arg = Len(s.pool.pages) + 1,
           c.kind = "direct" => c.arg = s.pool.direct + 1
    PROVE  Owns(r.pool.cleaners, mp, md, r.heap)
<1>1. PICK cs, np, nd : cs = s.pool.cleaners /\ np = Len(s.pool.pages) /\ nd = s.pool.direct
  OBVIOUS
<1>2. Fresh(c, cs, np, nd)
  BY <1>1 DEF Fresh, HasCleaner
<1>3. \A m : m \in c.sees <=> IsUsable(m) /\ (m \in h \/ m \in Frees(c))
  <2>1. c.sees = {m \in h \cup Cleans(c) : m[1] \in {"block", "direct"}}
    BY DEF HasCleaner, Usable
  <2>2. ~IsUsable(<<"ctx", c.no>>)
    BY DEF IsUsable
  <2> QED  BY <2>1, <2>2 DEF IsUsable, Frees
<1>4. r.heap = h \cup Frees(c)
  BY DEF HasCleaner, Frees
<1>5. r.pool.cleaners = <<c>> \o cs
  BY <1>1 DEF HasCleaner
<1> QED  BY <1>1, <1>2, <1>3, <1>4, <1>5, OwnsMore

\* What _add_page returns: a pool with one more page, which is empty, or the
\* pool and the heap as they were.
PageResult(s, r, gs) ==
    /\ r \in Result /\ r.piece = s.piece /\ r.pool.page_size = s.pool.page_size
    /\ r.ok = FALSE => r.pool = s.pool /\ r.heap = s.heap
    /\ r.ok = TRUE => /\ Owns(r.pool.cleaners, Len(r.pool.pages), r.pool.direct, r.heap)
                      /\ Carved(r.pool.pages, gs) /\ r.pool.pages # <<>>
                      /\ r.pool.pages[1].size = s.pool.page_size /\ r.pool.pages[1].used = 0

LEMMA AddPageIs ==
    ASSUME NEW s \in Result, s.ok = TRUE, NEW gs, Carved(s.pool.pages, gs),
           Owns(s.pool.cleaners, Len(s.pool.pages), s.pool.direct, s.heap),
           NEW r \in AddPage(s)
    PROVE  PageResult(s, r, gs)
<1>1. PICK p : p = Len(s.pool.pages) + 1
  OBVIOUS
<1>2. PICK pg, bl : pg = <<"page", p>> /\ bl = <<"block", p>>
  OBVIOUS
<1>3. PICK s1 : s1 = Take(s, pg)
  OBVIOUS
<1>4. PICK s2 : s2 = Take(s1, bl)
  OBVIOUS
<1>5. /\ s.pool \in PoolRecord /\ s.pool.pages \in Seq(Page) /\ Len(s.pool.pages) \in Nat
      /\ s.pool.page_size \in Nat /\ s.pool.direct \in Nat /\ s.pool.size \in Nat
  BY LenProperties DEF Result, PoolRecord
<1>6. p \in Nat /\ pg \in Memory /\ bl \in Memory
  BY <1>1, <1>2, <1>5 DEF Memory
<1>7. /\ s1 \in Result /\ s1.ok = TRUE /\ s1.pool = s.pool /\ s1.heap = s.heap \cup {pg}
      /\ s1.piece = s.piece
  BY <1>3, <1>6, TakeIs
<1>8. /\ s2 \in Result /\ s2.ok = TRUE /\ s2.pool = s.pool /\ s2.heap = s.heap \cup {pg, bl}
      /\ s2.piece = s.piece
  BY <1>4, <1>6, <1>7, TakeIs
\* The new page's memory is not there yet, so freeing it restores the heap.
<1>9. pg \notin s.heap /\ bl \notin s.heap
  <2>1. PICK c : c = [no |-> Len(s.pool.cleaners) + 1, kind |-> "page", arg |-> p, sees |-> {}]
    OBVIOUS
  <2>2. s.pool.cleaners \in Seq(Cleaner) /\ Len(s.pool.cleaners) \in Nat
    BY <1>5, LenProperties DEF PoolRecord
  <2>3. c \in Cleaner /\ c.no = Len(s.pool.cleaners) + 1 /\ c.kind = "page" /\ c.arg = p
    BY <1>6, <2>1, <2>2 DEF Cleaner
  <2>4. Fresh(c, s.pool.cleaners, Len(s.pool.pages), s.pool.direct)
    BY <1>1, <2>3 DEF Fresh
  <2>5. pg \in Frees(c) /\ bl \in Frees(c)
    BY <1>2, <2>3 DEF Frees, Cleans
  <2> QED  BY <2>4, <2>5, FreesNew
<1>10. CASE r = Fail(s) \/ r = Fail(Free(s1, {pg}))
  <2>1. CASE r = Fail(s)
    BY <2>1, FailIs DEF PageResult
  <2>2. CASE r = Fail(Free(s1, {pg}))
    <3>1. PICK f : f = Free(s1, {pg})
      OBVIOUS
    <3>2. f \in Result /\ f.pool = s.pool /\ f.heap = s1.heap \ {pg} /\ f.piece = s.piece
      <4>1. PICK ms : ms = {pg}
        OBVIOUS
      <4>2. f = Free(s1, ms)
        BY <3>1, <4>1
      <4> QED  BY <1>7, <4>1, <4>2, FreeIs
    <3>3. f.heap = s.heap
      BY <1>7, <1>9, <3>2
    <3> QED  BY <2>2, <3>1, <3>2, <3>3, FailIs DEF PageResult
  <2> QED  BY <1>10, <2>1, <2>2
<1>11. CASE \E a \in AddCleaner(s2, "page", p) :
              r = IF a.ok
                  THEN [a EXCEPT !.pool.pages = <<[no |-> p, size |-> a.pool.page_size, used |-> 0]>> \o @,
                                 !.pool.size = @ + a.pool.page_size]
                  ELSE Free(a, {pg, bl})
  <2>1. PICK a \in AddCleaner(s2, "page", p) :
              r = IF a.ok
                  THEN [a EXCEPT !.pool.pages = <<[no |-> p, size |-> a.pool.page_size, used |-> 0]>> \o @,
                                 !.pool.size = @ + a.pool.page_size]
                  ELSE Free(a, {pg, bl})
    BY <1>11
  <2>2. a = Fail(s2) \/ \E c : HasCleaner(s2, a, c) /\ c.kind = "page" /\ c.arg = p
    BY <1>6, <1>8, <2>1, CleanerAdded
  <2>3. CASE a = Fail(s2)
    <3>1. a \in Result /\ a.ok = FALSE /\ a.pool = s.pool /\ a.heap = s2.heap /\ a.piece = s.piece
      BY <1>8, <2>3, FailIs
    <3>2. r = Free(a, {pg, bl})
      BY <2>1, <3>1
    <3>3. /\ r \in Result /\ r.ok = FALSE /\ r.pool = s.pool /\ r.heap = s2.heap \ {pg, bl}
          /\ r.piece = s.piece
      BY <3>1, <3>2, FreeIs
    <3>4. s2.heap \ {pg, bl} = s.heap
      BY <1>8, <1>9
    <3> QED  BY <3>3, <3>4 DEF PageResult
  <2>4. ASSUME NEW c, HasCleaner(s2, a, c), c.kind = "page", c.arg = p
        PROVE  PageResult(s, r, gs)
    <3>1. /\ a \in Result /\ a.ok = TRUE /\ a.piece = s.piece /\ a.pool \in PoolRecord
          /\ a.pool.pages = s.pool.pages /\ a.pool.page_size = s.pool.page_size
          /\ a.pool.direct = s.pool.direct /\ a.pool.size = s.pool.size
      BY <1>8, <2>4 DEF HasCleaner, Result
    <3>2. PICK us : us = <<[no |-> p, size |-> s.pool.page_size, used |-> 0]>> \o s.pool.pages
      OBVIOUS
    <3>3. /\ Carved(us, gs) /\ Len(us) = Len(s.pool.pages) + 1 /\ us # <<>>
          /\ us[1] = [no |-> p, size |-> s.pool.page_size, used |-> 0]
      <4>1. PICK ps \in Seq(Page), n \in Nat : ps = s.pool.pages /\ n = s.pool.page_size
        BY <1>5
      <4>2. us = <<[no |-> Len(ps) + 1, size |-> n, used |-> 0]>> \o ps
        BY <1>1, <3>2, <4>1
      <4>3. Carved(ps, gs)
        BY <4>1
      <4>4. /\ Carved(us, gs) /\ Len(us) = Len(ps) + 1 /\ us # <<>>
            /\ us[1] = [no |-> Len(ps) + 1, size |-> n, used |-> 0]
        BY <4>2, <4>3, PageAdded
      <4> QED  BY <1>1, <4>1, <4>4
    <3>4. us \in Seq(Page) /\ us[1].size = s.pool.page_size /\ us[1].used = 0
      BY <3>3 DEF Carved
    <3> PICK n \in Nat : n = a.pool.size + a.pool.page_size
      BY <1>5, <3>1
    <3>5. PICK q : q = [a.pool EXCEPT !.pages = us, !.size = n]
      OBVIOUS
    <3>6. /\ q \in PoolRecord /\ q.pages = us /\ q.cleaners = a.pool.cleaners
          /\ q.direct = s.pool.direct /\ q.page_size = s.pool.page_size
      BY <1>5, <3>1, <3>4, <3>5 DEF PoolRecord
    <3>7. r = [a EXCEPT !.pool = q]
      <4>1. r = [a EXCEPT !.pool.pages = <<[no |-> p, size |-> a.pool.page_size, used |-> 0]>> \o @,
                          !.pool.size = @ + a.pool.page_size]
        BY <2>1, <3>1
      <4>2. r = [a EXCEPT !.pool.pages = us, !.pool.size = n]
        BY <3>1, <3>2, <4>1
      <4> QED  BY <3>1, <3>5, <4>2 DEF Result
    <3>8. r \in Result /\ r.ok = TRUE /\ r.pool = q /\ r.heap = a.heap /\ r.piece = s.piece
      BY <3>1, <3>6, <3>7 DEF Result
    <3>9. s2.heap = s.heap \cup Cleans(c)
      BY <1>2, <1>8, <2>4 DEF Cleans
    <3>10. Owns(a.pool.cleaners, Len(s.pool.pages) + 1, s.pool.direct, a.heap)
      <4>1. PICK mp \in Nat, md \in Nat : mp = Len(s.pool.pages) + 1 /\ md = s.pool.direct
        BY <1>5
      <4> QED  BY <1>1, <1>8, <2>4, <3>9, <4>1, AddedOwns
    <3> QED  BY <3>3, <3>4, <3>6, <3>8, <3>10 DEF PageResult
  <2> QED  BY <2>2, <2>3, <2>4
<1> QED  BY <1>1, <1>2, <1>3, <1>4, <1>10, <1>11 DEF AddPage

\* What ls_pool_malloc returns, and the pieces the application then has.
MallocResult(s, r, gs) ==
    /\ r \in Result /\ r.pool.page_size = s.pool.page_size
    /\ Owns(r.pool.cleaners, Len(r.pool.pages), r.pool.direct, r.heap)
    /\ Carved(r.pool.pages, gs)
    /\ r.ok = TRUE /\ r.piece.len > 0 => Carved(r.pool.pages, gs \cup {r.piece})
    /\ s.pool.pages # <<>> => r.pool.pages # <<>>

\* A pool from which memory may be taken.
Ready(s, gs) ==
    /\ s \in Result /\ s.ok = TRUE /\ s.piece = NoPiece
    /\ Owns(s.pool.cleaners, Len(s.pool.pages), s.pool.direct, s.heap)
    /\ Carved(s.pool.pages, gs)

LEMMA CarveIs ==
    ASSUME NEW s, NEW gs, s \in Result, s.pool.pages # <<>>, Carved(s.pool.pages, gs),
           Owns(s.pool.cleaners, Len(s.pool.pages), s.pool.direct, s.heap),
           NEW n \in Nat, Fits(s.pool.pages[1], n), NEW r, r = Carve(s, n)
    PROVE  MallocResult(s, r, gs) /\ r.pool.pages # <<>>
<1>1. PICK ps : ps = s.pool.pages
  OBVIOUS
<1>2. /\ ps \in Seq(Page) /\ s.pool \in PoolRecord /\ Head(ps) = ps[1]
  BY <1>1, WithoutFirst DEF Result, PoolRecord
<1>4. PICK us : us = Longer(ps, n)
  OBVIOUS
<1>5. PICK x : x = NextPiece(ps[1], n)
  OBVIOUS
<1>6. /\ Carved(us, gs \cup {x}) /\ Carved(us, gs) /\ Len(us) = Len(ps) /\ us # <<>>
      /\ x \in Piece
  <2>1. Carved(ps, gs) /\ ps # <<>> /\ Fits(ps[1], n)
    BY <1>1
  <2> QED  BY <1>4, <1>5, <2>1, PieceCarved
<1>7. us \in Seq(Page)
  BY <1>6 DEF Carved
<1>8. PICK q : q = [s.pool EXCEPT !.pages = us]
  OBVIOUS
<1>9. /\ q \in PoolRecord /\ q.pages = us /\ q.cleaners = s.pool.cleaners
      /\ q.direct = s.pool.direct /\ q.page_size = s.pool.page_size
  BY <1>2, <1>7, <1>8 DEF PoolRecord
<1>10. r = [s EXCEPT !.pool = q, !.piece = x]
  <2>1. r = [s EXCEPT !.pool.pages[1].used = @ + n, !.piece = x]
    BY <1>1, <1>2, <1>5 DEF Carve, NextPiece
  <2>2. [s EXCEPT !.pool.pages[1].used = @ + n, !.piece = x]
         = [s EXCEPT !.pool.pages = Longer(s.pool.pages, n), !.piece = x]
    BY DEF Longer
  <2> QED  BY <1>1, <1>4, <1>8, <2>1, <2>2
<1>11. r \in Result /\ r.ok = s.ok /\ r.pool = q /\ r.heap = s.heap /\ r.piece = x
  BY <1>6, <1>9, <1>10 DEF Result
<1> QED  BY <1>1, <1>6, <1>9, <1>11 DEF MallocResult

LEMMA DirectIs ==
    ASSUME NEW s, NEW gs, Ready(s, gs), NEW n \in Nat, NEW r \in Direct(s, n)
    PROVE  MallocResult(s, r, gs)
<1>1. /\ s \in Result /\ s.ok = TRUE /\ s.piece = NoPiece
      /\ Owns(s.pool.cleaners, Len(s.pool.pages), s.pool.direct, s.heap)
      /\ Carved(s.pool.pages, gs)
  BY DEF Ready
<1>2. PICK d : d = s.pool.direct + 1
  OBVIOUS
<1>3. PICK di : di = <<"direct", d>>
  OBVIOUS
<1>4. PICK s1 : s1 = Take(s, di)
  OBVIOUS
<1>5. /\ s.pool \in PoolRecord /\ s.pool.direct \in Nat /\ s.pool.size \in Nat
      /\ Len(s.pool.pages) \in Nat /\ s.pool.cleaners \in Seq(Cleaner)
      /\ Len(s.pool.cleaners) \in Nat
  BY <1>1, LenProperties DEF Result, PoolRecord
<1>6. d \in Nat /\ di \in Memory
  BY <1>2, <1>3, <1>5 DEF Memory
<1>7. /\ s1 \in Result /\ s1.ok = TRUE /\ s1.pool = s.pool /\ s1.heap = s.heap \cup {di}
      /\ s1.piece = NoPiece
  BY <1>1, <1>4, <1>6, TakeIs
<1>8. di \notin s.heap
  <2>1. PICK c : c = [no |-> Len(s.pool.cleaners) + 1, kind |-> "direct", arg |-> d, sees |-> {}]
    OBVIOUS
  <2>2. c \in Cleaner /\ c.no = Len(s.pool.cleaners) + 1 /\ c.kind = "direct" /\ c.arg = d
    BY <1>5, <1>6, <2>1 DEF Cleaner
  <2>3. Fresh(c, s.pool.cleaners, Len(s.pool.pages), s.pool.direct)
    BY <1>2, <2>2 DEF Fresh
  <2>4. di \in Frees(c)
    BY <1>3, <2>2 DEF Frees, Cleans
  <2> QED  BY <1>1, <2>3, <2>4, FreesNew
\* A failure leaves everything as it was.
<1>9. ASSUME r \in Result, r.pool = s.pool, r.heap = s.heap, r.ok = FALSE
      PROVE  MallocResult(s, r, gs)
  BY <1>1, <1>9 DEF MallocResult
<1>10. CASE r = Fail(s)
  BY <1>1, <1>9, <1>10, FailIs
<1>11. CASE \E a \in AddCleaner(s1, "direct", d) :
              r = IF a.ok
                  THEN [a EXCEPT !.pool.size = @ + n, !.pool.direct = d,
                                 !.piece = [page |-> 0, off |-> d, len |-> n]]
                  ELSE Free(a, {di})
  <2>1. PICK a \in AddCleaner(s1, "direct", d) :
              r = IF a.ok
                  THEN [a EXCEPT !.pool.size = @ + n, !.pool.direct = d,
                                 !.piece = [page |-> 0, off |-> d, len |-> n]]
                  ELSE Free(a, {di})
    BY <1>11
  <2>2. a = Fail(s1) \/ \E c : HasCleaner(s1, a, c) /\ c.kind = "direct" /\ c.arg = d
    BY <1>6, <1>7, <2>1, CleanerAdded
  <2>3. CASE a = Fail(s1)
    <3>1. a \in Result /\ a.ok = FALSE /\ a.pool = s.pool /\ a.heap = s1.heap
      BY <1>7, <2>3, FailIs
    <3>2. PICK ms : ms = {di}
      OBVIOUS
    <3>3. r = Free(a, ms)
      BY <2>1, <3>1, <3>2
    <3>4. r \in Result /\ r.ok = FALSE /\ r.pool = s.pool /\ r.heap = s1.heap \ ms
      BY <3>1, <3>3, FreeIs
    <3>5. s1.heap \ ms = s.heap
      BY <1>7, <1>8, <3>2
    <3> QED  BY <1>9, <3>4, <3>5
  <2>4. ASSUME NEW c, HasCleaner(s1, a, c), c.kind = "direct", c.arg = d
        PROVE  MallocResult(s, r, gs)
    <3>1. /\ a \in Result /\ a.ok = TRUE /\ a.pool \in PoolRecord
          /\ a.pool.pages = s.pool.pages /\ a.pool.page_size = s.pool.page_size
          /\ a.pool.size \in Nat
      BY <1>5, <1>7, <2>4 DEF HasCleaner, Result
    <3>2. PICK x : x = [page |-> 0, off |-> d, len |-> n]
      OBVIOUS
    <3>3. x \in Piece /\ x.page = 0
      BY <1>6, <3>2 DEF Piece
    <3>4. PICK k \in Nat : k = a.pool.size + n
      BY <3>1
    <3>5. PICK q : q = [a.pool EXCEPT !.size = k, !.direct = d]
      OBVIOUS
    <3>6. /\ q \in PoolRecord /\ q.pages = s.pool.pages /\ q.cleaners = a.pool.cleaners
          /\ q.direct = d /\ q.page_size = s.pool.page_size
      BY <1>6, <3>1, <3>4, <3>5 DEF PoolRecord
    <3>7. r = [a EXCEPT !.pool = q, !.piece = x]
      <4>1. r = [a EXCEPT !.pool.size = k, !.pool.direct = d, !.piece = x]
        BY <2>1, <3>1, <3>2, <3>4
      <4> QED  BY <3>5, <4>1
    <3>8. r \in Result /\ r.pool = q /\ r.heap = a.heap /\ r.piece = x
      BY <3>1, <3>3, <3>6, <3>7 DEF Result
    <3>9. s1.heap = s.heap \cup Cleans(c)
      BY <1>3, <1>7, <2>4 DEF Cleans
    <3>10. Owns(a.pool.cleaners, Len(s.pool.pages), d, a.heap)
      <4>1. PICK mp \in Nat, md \in Nat : mp = Len(s.pool.pages) /\ md = s.pool.direct + 1
        BY <1>5
      <4> QED  BY <1>1, <1>2, <1>7, <2>4, <3>9, <4>1, AddedOwns
    <3>11. Carved(s.pool.pages, gs \cup {x})
      BY <1>1, <3>3, DirectCarved
    <3> QED  BY <1>1, <3>6, <3>8, <3>10, <3>11 DEF MallocResult
  <2> QED  BY <2>2, <2>3, <2>4
<1> QED  BY <1>2, <1>3, <1>4, <1>10, <1>11 DEF Direct

\* ls_pool_malloc
LEMMA MallocIs ==
    ASSUME NEW s, NEW gs, Ready(s, gs), s.pool.page_size > 0 => s.pool.pages # <<>>,
           NEW n \in Nat, NEW r \in Malloc(s, n)
    PROVE  MallocResult(s, r, gs)
<1>1. /\ s \in Result /\ s.ok = TRUE /\ s.piece = NoPiece
      /\ Owns(s.pool.cleaners, Len(s.pool.pages), s.pool.direct, s.heap)
      /\ Carved(s.pool.pages, gs)
      /\ s.pool.page_size \in Nat /\ s.pool.pages \in Seq(Page)
  BY DEF Ready, Result, PoolRecord
<1>2. CASE n = 0
  <2>1. r = s /\ r.piece.len = 0
    BY <1>1, <1>2 DEF Malloc, NoPiece
  <2> QED  BY <1>1, <2>1 DEF MallocResult
<1>3. CASE n # 0 /\ n > s.pool.page_size
  <2>1. r \in Direct(s, n)
    BY <1>3 DEF Malloc
  <2> QED  BY <2>1, DirectIs
<1>4. CASE n # 0 /\ ~(n > s.pool.page_size)
  <2>1. s.pool.pages # <<>> /\ Head(s.pool.pages) = s.pool.pages[1]
    BY <1>1, <1>4, WithoutFirst
  <2>2. CASE Fits(s.pool.pages[1], n)
    <3>1. r = Carve(s, n)
      BY <1>4, <2>1, <2>2 DEF Malloc
    <3> QED  BY <1>1, <2>1, <2>2, <3>1, CarveIs
  <2>3. CASE ~Fits(s.pool.pages[1], n)
    <3>1. PICK a \in AddPage(s) : r = IF a.ok THEN Carve(a, n) ELSE a
      BY <1>4, <2>1, <2>3 DEF Malloc
    <3>2. PageResult(s, a, gs)
      BY <1>1, AddPageIs
    <3>3. a \in Result /\ a.pool.page_size = s.pool.page_size /\ a.piece = NoPiece
      BY <1>1, <3>2 DEF PageResult
    <3>4. CASE a.ok = TRUE
      <4>1. /\ Owns(a.pool.cleaners, Len(a.pool.pages), a.pool.direct, a.heap)
            /\ Carved(a.pool.pages, gs) /\ a.pool.pages # <<>>
            /\ a.pool.pages[1].size = s.pool.page_size /\ a.pool.pages[1].used = 0
        BY <3>2, <3>4 DEF PageResult
      <4>2. Fits(a.pool.pages[1], n) /\ r = Carve(a, n)
        BY <1>1, <1>4, <3>1, <3>4, <4>1 DEF Fits
      <4>3. MallocResult(a, r, gs) /\ r.pool.pages # <<>>
        BY <3>3, <4>1, <4>2, CarveIs
      <4> QED  BY <3>3, <4>3 DEF MallocResult
    <3>5. CASE a.ok = FALSE
      <4>1. r = a /\ a.pool = s.pool /\ a.heap = s.heap
        BY <3>1, <3>2, <3>5 DEF PageResult
      <4> QED  BY <1>1, <3>3, <3>5, <4>1 DEF MallocResult
    <3> QED  BY <3>3, <3>4, <3>5 DEF Result
  <2> QED  BY <2>2, <2>3
<1> QED  BY <1>2, <1>3, <1>4

------------------------------------------------------------------------------
LEMMA NowIs ==
    ASSUME PoolInv, pat = "open"
    PROVE  /\ Ready(Now, given) /\ Now.pool = pool /\ Now.heap = heap /\ Now.ok = TRUE
           /\ Now.piece = NoPiece
           /\ pool.page_size > 0 => pool.pages # <<>>
<1>1. heap \subseteq Memory
  BY OwnsTypes DEF PoolInv
<1>2. NoPiece \in Piece
  BY DEF NoPiece, Piece
<1>3. Now \in Result
  BY <1>1, <1>2 DEF Now, Result, PoolInv
<1>4. Now.pool = pool /\ Now.heap = heap /\ Now.ok = TRUE /\ Now.piece = NoPiece
  BY DEF Now
<1> QED  BY <1>3, <1>4 DEF Ready, PoolInv

\* A result of an allocating function is stored.
LEMMA RequestStep ==
    ASSUME PoolInv, pat = "open", NEW r, MallocResult(Now, r, given), Return(r),
           pat' = pat, paging' = paging, todo' = todo
    PROVE  PoolInv'
<1>1. /\ r \in Result /\ r.pool.page_size = pool.page_size
      /\ Owns(r.pool.cleaners, Len(r.pool.pages), r.pool.direct, r.heap)
      /\ Carved(r.pool.pages, given)
      /\ r.ok = TRUE /\ r.piece.len > 0 => Carved(r.pool.pages, given \cup {r.piece})
      /\ pool.pages # <<>> => r.pool.pages # <<>>
  BY NowIs DEF MallocResult
<1>2. pool' = r.pool /\ heap' = r.heap /\ r.pool \in PoolRecord /\ r.ok \in BOOLEAN
  BY <1>1 DEF Return, Result
<1>3. Carved(r.pool.pages, given')
  <2>1. CASE r.ok = TRUE /\ r.piece.len > 0
    BY <1>1, <2>1 DEF Return
  <2>2. CASE ~(r.ok = TRUE /\ r.piece.len > 0)
    BY <1>1, <1>2, <2>2 DEF Return
  <2> QED  BY <2>1, <2>2
<1>4. pool'.page_size > 0 => pool'.pages # <<>>
  BY <1>1, <1>2, NowIs
<1> QED  BY <1>1, <1>2, <1>3, <1>4 DEF PoolInv

LEMMA AllocStep ==
    ASSUME PoolInv, \/ \E n \in Request : PoolMalloc(n)
                    \/ \E n \in Request, num \in Count : PoolCalloc(num, n)
    PROVE  PoolInv'
<1>1. PICK n \in Nat : /\ pat = "open" /\ \E r \in Malloc(Now, n) : Return(r)
                       /\ pat' = pat /\ paging' = paging /\ todo' = todo
  <2>1. CASE \E n \in Request : PoolMalloc(n)
    BY <2>1, PoolAssumption DEF PoolMalloc
  <2>2. ASSUME NEW n \in Request, NEW num \in Count, PoolCalloc(num, n)
        PROVE  \E k \in Nat : /\ pat = "open" /\ \E r \in Malloc(Now, k) : Return(r)
                              /\ pat' = pat /\ paging' = paging /\ todo' = todo
    <3>1. num \in Nat /\ n \in Nat /\ SizeMod \in Nat \ {0}
      BY PoolAssumption
    <3>2. PICK x \in Nat : x = num * n
      BY <3>1
    <3>3. PICK k \in Nat : k = x % SizeMod
      BY <3>1, <3>2
    <3>4. k = (num * n) % SizeMod
      BY <3>2, <3>3
    <3> QED  BY <2>2, <3>4 DEF PoolCalloc
  <2> QED  BY <2>1, <2>2
<1>2. PICK r \in Malloc(Now, n) : Return(r)
  BY <1>1
<1>3. MallocResult(Now, r, given)
  BY <1>1, NowIs, MallocIs
<1> QED  BY <1>1, <1>2, <1>3, RequestStep

LEMMA AddCleanerStep ==
    ASSUME PoolInv, PoolAddCleaner
    PROVE  PoolInv'
<1>1. /\ pat = "open" /\ pat' = pat /\ paging' = paging /\ todo' = todo
  BY DEF PoolAddCleaner
<1>2. PICK r \in AddCleaner(Now, "app", 0) : Return(r)
  BY DEF PoolAddCleaner
<1>3. /\ Now \in Result /\ Owns(pool.cleaners, Len(pool.pages), pool.direct, heap)
      /\ Carved(pool.pages, given) /\ Now.pool = pool /\ Now.heap = heap
      /\ Now.piece = NoPiece
  BY <1>1, NowIs DEF Ready
<1>4. r = Fail(Now) \/ \E c : HasCleaner(Now, r, c) /\ c.kind = "app" /\ c.arg = 0
  BY <1>3, CleanerAdded
<1>5. CASE r = Fail(Now)
  <2>1. r \in Result /\ r.ok = FALSE /\ r.pool = pool /\ r.heap = heap
    BY <1>3, <1>5, FailIs
  <2>2. MallocResult(Now, r, given)
    BY <1>3, <2>1 DEF MallocResult
  <2> QED  BY <1>1, <1>2, <2>2, RequestStep
<1>6. ASSUME NEW c, HasCleaner(Now, r, c), c.kind = "app"
      PROVE  PoolInv'
  <2>1. /\ r \in Result /\ r.pool.pages = pool.pages /\ r.pool.direct = pool.direct
        /\ r.pool.page_size = pool.page_size /\ r.piece = NoPiece
    BY <1>3, <1>6 DEF HasCleaner
  <2>2. Now.heap = heap \cup Cleans(c)
    BY <1>3, <1>6 DEF Cleans
  <2>3. PICK mp \in Nat, md \in Nat : mp = Len(pool.pages) /\ md = pool.direct
    BY <1>3 DEF Owns
  <2>4. Owns(r.pool.cleaners, mp, md, r.heap)
    BY <1>3, <1>6, <2>2, <2>3, AddedOwns
  <2>5. ~(r.piece.len > 0)
    BY <2>1 DEF NoPiece
  <2>6. MallocResult(Now, r, given)
    BY <1>3, <2>1, <2>3, <2>4, <2>5 DEF MallocResult
  <2> QED  BY <1>1, <1>2, <2>6, RequestStep
<1> QED  BY <1>4, <1>5, <1>6

LEMMA PoolCreateStep ==
    ASSUME PoolInv, NEW size \in PageSize, PoolCreate(size)
    PROVE  PoolInv'
<1>1. /\ pat = "none" /\ heap = {} /\ pool = NoPool /\ given = {} /\ todo = <<>>
      /\ paging' = paging /\ given' = {} /\ todo' = <<>> /\ paging \in BOOLEAN
  BY DEF PoolCreate, PoolInv
<1>2. PICK n \in Nat : n = IF paging THEN size ELSE 0
  BY PoolAssumption
<1>3. PICK t : t = Take(Now, <<"pool", 0>>)
  OBVIOUS
<1>4. PICK q : q = [NoPool EXCEPT !.page_size = n]
  OBVIOUS
<1>5. PICK s : s = [t EXCEPT !.pool = q]
  OBVIOUS
<1>6. <<>> \in Seq(Cleaner) /\ <<>> \in Seq(Page) /\ Len(<<>>) = 0
  OBVIOUS
<1>7. NoPool \in PoolRecord /\ NoPiece \in Piece /\ <<"pool", 0>> \in Memory
  BY <1>6 DEF NoPool, PoolRecord, NoPiece, Piece, Memory
<1>8. Now \in Result /\ Now.ok = TRUE /\ Now.heap = {} /\ Now.piece = NoPiece
  BY <1>1, <1>7 DEF Now, Result
<1>9. /\ t \in Result /\ t.ok = TRUE /\ t.heap = {} \cup {<<"pool", 0>>}
      /\ t.piece = NoPiece
  BY <1>3, <1>7, <1>8, TakeIs
<1>10. /\ q \in PoolRecord /\ q.page_size = n /\ q.cleaners = <<>> /\ q.pages = <<>>
       /\ q.direct = 0
  BY <1>4, <1>6 DEF NoPool, PoolRecord
<1>11. s \in Result /\ s.ok = TRUE /\ s.heap = {<<"pool", 0>>} /\ s.pool = q
  BY <1>5, <1>9, <1>10 DEF Result
<1>12. PICK r \in (IF s.pool.page_size = 0 THEN {s} ELSE AddPage(s)) :
            \/ r.ok /\ pool' = r.pool /\ heap' = r.heap /\ pat' = "open"
            \/ ~r.ok /\ heap' = r.heap \ {<<"pool", 0>>} /\ pool' = pool /\ pat' = pat
  BY <1>2, <1>3, <1>4, <1>5 DEF PoolCreate
<1>13. Owns(s.pool.cleaners, Len(s.pool.pages), s.pool.direct, s.heap)
  <2>1. PICK np \in Nat, nd \in Nat : np = 0 /\ nd = 0
    OBVIOUS
  <2>2. Owns(<<>>, np, nd, s.heap)
    BY <1>11, OwnsNothing
  <2> QED  BY <1>6, <1>10, <1>11, <2>1, <2>2
<1>14. Carved(<<>>, {})
  BY <1>6 DEF Carved
\* The pool was made, with or without a first page.
<1>15. ASSUME r \in Result, r.ok = TRUE, r.pool.page_size > 0 => r.pool.pages # <<>>,
              Owns(r.pool.cleaners, Len(r.pool.pages), r.pool.direct, r.heap),
              Carved(r.pool.pages, {})
       PROVE  PoolInv'
  <2>1. pool' = r.pool /\ heap' = r.heap /\ pat' = "open" /\ r.pool \in PoolRecord
    BY <1>12, <1>15 DEF Result
  <2> QED  BY <1>1, <1>6, <1>15, <2>1 DEF PoolInv
<1>16. CASE s.pool.page_size = 0
  <2>1. r = s
    BY <1>12, <1>16
  <2>2. ~(r.pool.page_size > 0)
    BY <1>16, <2>1
  <2>3. Carved(r.pool.pages, {})
    BY <1>10, <1>11, <1>14, <2>1
  <2> QED  BY <1>11, <1>13, <1>15, <2>1, <2>2, <2>3
<1>17. CASE s.pool.page_size # 0
  <2>1. r \in AddPage(s)
    BY <1>12, <1>17
  <2>2. Carved(s.pool.pages, {})
    BY <1>10, <1>11, <1>14
  <2>3. PICK gs : gs = {}
    OBVIOUS
  <2>4. PageResult(s, r, gs)
    BY <1>11, <1>13, <2>1, <2>2, <2>3, AddPageIs
  <2>5. CASE r.ok = TRUE
    BY <1>15, <2>3, <2>4, <2>5 DEF PageResult
  <2>6. CASE r.ok = FALSE
    <3>1. r.heap = s.heap
      BY <2>4, <2>6 DEF PageResult
    <3>2. heap' = r.heap \ {<<"pool", 0>>} /\ pool' = pool /\ pat' = pat
      BY <1>12, <2>6
    <3>3. heap' = {}
      BY <1>11, <3>1, <3>2
    <3>4. pool'.pages = <<>> /\ pool' \in PoolRecord
      BY <1>1, <1>7, <3>2 DEF NoPool
    <3> QED  BY <1>1, <1>6, <1>14, <3>2, <3>3, <3>4 DEF PoolInv
  <2> QED  BY <2>4, <2>5, <2>6 DEF PageResult, Result
<1> QED  BY <1>16, <1>17

LEMMA DestroySteps ==
    ASSUME PoolInv, PoolDestroy \/ PoolCleans \/ PoolDestroyed
    PROVE  PoolInv'
<1>1. CASE PoolDestroy
  BY <1>1 DEF PoolDestroy, PoolInv, PoolRecord
<1>2. CASE PoolCleans
  <2>1. /\ pat = "closing" /\ todo # <<>> /\ todo' = Tail(todo)
        /\ Owns(todo, Len(pool.pages), pool.direct, heap)
    BY <1>2 DEF PoolCleans, PoolInv
  <2>2. heap' = heap \ Frees(Head(todo))
    BY <1>2 DEF PoolCleans, Frees
  <2>3. Owns(todo', Len(pool.pages), pool.direct, heap')
    BY <2>1, <2>2, OwnsLess
  <2>4. todo' \in Seq(Cleaner)
    BY <2>3 DEF Owns
  <2> QED  BY <1>2, <2>3, <2>4 DEF PoolCleans, PoolInv
<1>3. CASE PoolDestroyed
  <2>1. Owns(<<>>, Len(pool.pages), pool.direct, heap)
    BY <1>3 DEF PoolDestroyed, PoolInv
  <2>2. heap' = {}
    BY <1>3, <2>1, OwnsNothing DEF PoolDestroyed
  <2>3. <<>> \in Seq(Cleaner) /\ <<>> \in Seq(Page) /\ Len(<<>>) = 0
    OBVIOUS
  <2>4. NoPool \in PoolRecord /\ NoPool.pages = <<>>
    BY <2>3 DEF NoPool, PoolRecord
  <2>5. Carved(<<>>, {})
    BY <2>3 DEF Carved
  <2>6. /\ pool' = NoPool /\ given' = {} /\ pat' = "none" /\ paging' = paging
        /\ todo' = <<>>
    BY <1>3 DEF PoolDestroyed
  <2> QED  BY <2>2, <2>3, <2>4, <2>5, <2>6 DEF PoolInv
<1> QED  BY <1>1, <1>2, <1>3

LEMMA PoolInitInv == PoolInit => PoolInv
<1> SUFFICES ASSUME PoolInit
             PROVE  PoolInv
  OBVIOUS
<1>1. <<>> \in Seq(Cleaner) /\ <<>> \in Seq(Page) /\ Len(<<>>) = 0
  OBVIOUS
<1>2. NoPool \in PoolRecord /\ NoPool.pages = <<>>
  BY <1>1 DEF NoPool, PoolRecord
<1>3. Carved(<<>>, {})
  BY <1>1 DEF Carved
<1> QED  BY <1>1, <1>2, <1>3 DEF PoolInit, PoolInv

LEMMA PoolNextInv == PoolInv /\ [PoolNext]_poolVars => PoolInv'
<1> SUFFICES ASSUME PoolInv, [PoolNext]_poolVars
             PROVE  PoolInv'
  OBVIOUS
<1>1. CASE UNCHANGED poolVars
  BY <1>1 DEF poolVars, PoolInv
<1>2. ASSUME NEW b \in BOOLEAN, EnablePaging(b)
      PROVE  PoolInv'
  BY <1>2 DEF EnablePaging, PoolInv
<1> QED  BY <1>1, <1>2, PoolCreateStep, AllocStep, AddCleanerStep, DestroySteps DEF PoolNext

LEMMA PoolAlways == PoolSpec => []PoolInv
  BY PoolInitInv, PoolNextInv, PTL DEF PoolSpec

\* For any sizes of pages and requests: ls_pool_malloc never hands out memory
\* of a page twice, nor beyond the page.
THEOREM Disjoint == PoolSpec => []PiecesDisjoint
<1>1. PoolInv => PiecesDisjoint
  <2> SUFFICES ASSUME PoolInv
               PROVE  PiecesDisjoint
    OBVIOUS
  <2>1. PICK ps : ps = pool.pages
    OBVIOUS
  <2>2. Carved(ps, given) /\ ps \in Seq(Page) /\ Len(ps) \in Nat /\ DOMAIN ps = 1 .. Len(ps)
    BY <2>1, LenProperties DEF PoolInv, Carved
  <2>3. ASSUME NEW g \in given, g.page > 0
        PROVE  \E i \in DOMAIN ps : /\ ps[i].no = g.page /\ g.off + g.len =< ps[i].used
                                    /\ ps[i].used =< ps[i].size
    <3>1. g.page \in 1 .. Len(ps) /\ g.off + g.len =< ps[Len(ps) + 1 - g.page].used
      BY <2>2, <2>3 DEF Carved
    <3>2. PICK i \in 1 .. Len(ps) : i = Len(ps) + 1 - g.page
      BY <2>2, <3>1
    <3>3. ps[i].no = Len(ps) + 1 - i /\ ps[i].used =< ps[i].size
      BY <2>2 DEF Carved
    <3>4. Len(ps) + 1 - i = g.page
      BY <2>2, <3>1, <3>2
    <3> QED  BY <2>2, <3>1, <3>2, <3>3, <3>4
  <2>4. \A g, h \in given :
        g # h /\ g.page > 0 /\ g.page = h.page => g.off + g.len =< h.off \/ h.off + h.len =< g.off
    BY <2>2 DEF Carved
  <2> QED  BY <2>1, <2>3, <2>4 DEF PiecesDisjoint
<1> QED  BY <1>1, PoolAlways, PTL

\* For any number of cleaners and allocations: the order in which
\* ls_pool_destroy calls the cleaners leaves each of the application's exactly
\* the pages and direct allocations that there were when it was added; those
\* made since are freed before it is called.
THEOREM Seen == PoolSpec => []CleanersSeeMemory
<1>1. PoolInv => CleanersSeeMemory
  BY OwnsSeen DEF PoolInv, CleanersSeeMemory
<1> QED  BY <1>1, PoolAlways, PTL

\* Whichever ls_data_malloc fails, in ls_pool_create, in a request or in
\* ls_pool_add_cleaner, nothing is lost and nothing freed twice.
THEOREM Leaks == PoolSpec => []NothingLeaks
<1>1. PoolInv => NothingLeaks
  <2> SUFFICES ASSUME PoolInv, pat = "open"
               PROVE  heap = {<<"pool", 0>>} \cup
                        UNION {Cleans(pool.cleaners[i]) \cup {<<"ctx", pool.cleaners[i].no>>}
                                : i \in DOMAIN pool.cleaners}
    BY DEF PoolInv, NothingLeaks
  <2>1. Owns(pool.cleaners, Len(pool.pages), pool.direct, heap)
    BY DEF PoolInv
  <2>2. DOMAIN pool.cleaners = 1 .. Len(pool.cleaners)
    BY <2>1, LenProperties DEF Owns
  <2>3. heap = {<<"pool", 0>>} \cup UNION {Frees(pool.cleaners[i]) : i \in DOMAIN pool.cleaners}
    BY <2>1, <2>2, OwnsTypes
  <2> QED  BY <2>3 DEF Frees
<1> QED  BY <1>1, PoolAlways, PTL
=============================================================================
