-------------------------- MODULE Eventing_proofs --------------------------
(***************************************************************************)
(* Proofs about Eventing, for any sets of events and callbacks and a queue *)
(* of any length.                                                          *)
(***************************************************************************)
EXTENDS Eventing, Recursion, SequenceTheorems

\* A moment is being handled.
Active == pc \in {"fetch", "calling", "result"}

\* A callback has one node in the list of an event.
Distinct ==
    \A e \in Ev : \A i, j \in DOMAIN binds[e] : binds[e][i].cb = binds[e][j].cb => i = j

\* What running, fault and binding are at each place of the dispatching code.
Phases ==
    /\ Active => /\ running \in Ev
                 /\ queue # <<>> /\ queue[1].ev = running
    /\ ~Active => running = None /\ fault = "none"
    /\ fault = "moment" => pc = "fetch"
    /\ pc = "calling" => binding # None
    /\ pc = "result" => binding = None

\* The node a moment starts at, unless it has been freed, is still the first.
HeadsFirst ==
    \A i \in DOMAIN queue :
        queue[i].stale = FALSE /\ queue[i].head # None =>
            /\ Len(binds[queue[i].ev]) > 0
            /\ binds[queue[i].ev][1].cb = queue[i].head

\* The callbacks bound when the moment began are still there, at their places,
\* and are the ones marked normal_bound.
Snapshot ==
    Active /\ fault # "moment" =>
        /\ Len(atStart) =< Len(binds[running])
        /\ \A i \in DOMAIN binds[running] :
            IF i =< Len(atStart)
            THEN binds[running][i].cb = atStart[i] /\ binds[running][i].normal_bound = TRUE
            ELSE binds[running][i].normal_bound = FALSE

\* The walk is at node p and has called what comes before it.
WalkAt(p) ==
    /\ binds[running][p].cb = binding
    /\ pc = "calling" => p =< Len(atStart) /\ Len(called) = p
    /\ pc = "fetch" => Len(called) = IF p =< Len(atStart) THEN p - 1 ELSE Len(atStart)

Progress ==
    Active /\ fault # "moment" =>
        IF queue[1].head = None THEN binding = None /\ called = <<>>
        ELSE /\ Len(called) =< Len(atStart)
             /\ \A i \in DOMAIN called : called[i] = atStart[i]
             /\ binding = None => Len(called) = Len(atStart)
             /\ binding # None => \E p \in DOMAIN binds[running] : WalkAt(p)

IInv == TypeOK /\ Distinct /\ Phases /\ HeadsFirst /\ Snapshot /\ Progress /\ BindingsMatchApi

------------------------------------------------------------------------------
\* The recursive function of Without, step by step.
LEMMA WithoutSteps ==
    ASSUME NEW bs \in Seq(Binding), NEW cbs
    PROVE  \E f \in [0 .. Len(bs) -> Seq(Binding)] :
            /\ f[0] = <<>>
            /\ \A i \in 1 .. Len(bs) :
                f[i] = IF bs[i].cb \in cbs THEN f[i - 1] ELSE Append(f[i - 1], bs[i])
            /\ Without(bs, cbs) = f[Len(bs)]
<1> DEFINE n == Len(bs)
           V == Seq(Binding)
           Rec(f) == f = [i \in 0 .. n |-> IF i = 0 THEN <<>>
                            ELSE IF bs[i].cb \in cbs THEN f[i - 1] ELSE Append(f[i - 1], bs[i])]
           Step(i, v) == IF i \in 1 .. n /\ bs[i].cb \notin cbs THEN Append(v, bs[i]) ELSE v
           F == [i \in Nat |-> [v \in V |-> Step(i, v)]]
<1>1. n \in Nat /\ \A i \in 1 .. n : bs[i] \in Binding
  BY LenProperties, ElementOfSeq
<1>2. <<>> \in V
  BY EmptySeq
<1>3. \A i \in Nat, v \in V : Step(i, v) \in V
  BY <1>1, AppendProperties
<1>4. F \in [Nat -> [V -> V]]
  <2> HIDE DEF Step, V
  <2> QED  BY <1>3
<1>5. \A i \in Nat, v \in V : F[i][v] = Step(i, v)
  <2> HIDE DEF Step, V
  <2> QED  OBVIOUS
<1> HIDE DEF F, V
<1>6. PICK f \in [0 .. n -> V] : f[0] = <<>> /\ \A i \in 1 .. n : f[i] = F[i][f[i - 1]]
  <2>1. \E f : Recursive(f, n, V, <<>>, F)
    <3> HIDE DEF n
    <3> QED  BY <1>1, <1>2, <1>4, RecursionExists
  <2> QED  BY <2>1 DEF Recursive
<1>7. \A i \in 1 .. n : f[i] = IF bs[i].cb \in cbs THEN f[i - 1] ELSE Append(f[i - 1], bs[i])
  <2> SUFFICES ASSUME NEW i \in 1 .. n
               PROVE  f[i] = IF bs[i].cb \in cbs THEN f[i - 1] ELSE Append(f[i - 1], bs[i])
    OBVIOUS
  <2>1. i \in Nat /\ i - 1 \in 0 .. n /\ f[i - 1] \in V
    BY <1>1
  <2>2. f[i] = Step(i, f[i - 1])
    BY <2>1, <1>5, <1>6
  <2> QED  BY <2>2
<1>8. Rec(f)
  <2> DEFINE Body(i) == IF i = 0 THEN <<>>
                        ELSE IF bs[i].cb \in cbs THEN f[i - 1] ELSE Append(f[i - 1], bs[i])
  <2>1. \A i \in 0 .. n : i = 0 \/ i \in 1 .. n
    BY <1>1
  <2>2. \A i \in 0 .. n : f[i] = Body(i)
    BY <2>1, <1>6, <1>7
  <2> HIDE DEF Body
  <2>3. f = [i \in 0 .. n |-> Body(i)]
    BY <2>2
  <2> QED  BY <2>3 DEF Body
<1> DEFINE g == CHOOSE h : Rec(h)
<1>9. Rec(g)
  <2> HIDE DEF Rec
  <2> QED  BY <1>8
<1> HIDE DEF g
<1>10. g[0] = <<>>
       /\ \A i \in 1 .. n : g[i] = IF bs[i].cb \in cbs THEN g[i - 1] ELSE Append(g[i - 1], bs[i])
  <2>1. \A i \in 1 .. n : i \in 0 .. n /\ i # 0
    BY <1>1
  <2>2. 0 \in 0 .. n
    BY <1>1
  <2> QED  BY <1>9, <2>1, <2>2
<1>11. g \in [0 .. n -> V]
  <2>1. ASSUME NEW i \in 1 .. n, g[i - 1] \in V
        PROVE  g[i] = F[i][g[i - 1]]
    <3>1. i \in Nat /\ g[i] = Step(i, g[i - 1])
      BY <1>10
    <3> QED  BY <3>1, <2>1, <1>5
  <2>2. Obeys(g, n, V, <<>>, F)
    BY <2>1, <1>10 DEF Obeys
  <2>3. \A i \in 0 .. n : g[i] \in V
    BY <2>2, <1>1, <1>2, <1>4, RecursionType
  <2>4. g = [i \in 0 .. n |-> g[i]]
    BY <1>9
  <2> QED  BY <2>3, <2>4
<1>12. Without(bs, cbs) = g[n]
  BY DEF Without, g
<1> QED  BY <1>10, <1>11, <1>12 DEF V

\* What Without returns: the other nodes and no more, in an order that keeps
\* nodes apart, the first one first.
Remains(bs, cbs, w) ==
    /\ w \in Seq(Binding)
    /\ \A k \in DOMAIN w : \E p \in DOMAIN bs : w[k] = bs[p] /\ bs[p].cb \notin cbs
    /\ \A p \in DOMAIN bs : bs[p].cb \notin cbs => \E k \in DOMAIN w : w[k] = bs[p]
    /\ (\A p, q \in DOMAIN bs : bs[p].cb = bs[q].cb => p = q)
            => \A k, l \in DOMAIN w : w[k].cb = w[l].cb => k = l
    /\ Len(bs) > 0 /\ bs[1].cb \notin cbs => Len(w) > 0 /\ w[1] = bs[1]

LEMMA WithoutFacts ==
    ASSUME NEW bs \in Seq(Binding), NEW cbs, NEW w, w = Without(bs, cbs)
    PROVE  Remains(bs, cbs, w)
<1>1. PICK f \in [0 .. Len(bs) -> Seq(Binding)] :
            /\ f[0] = <<>>
            /\ \A i \in 1 .. Len(bs) :
                f[i] = IF bs[i].cb \in cbs THEN f[i - 1] ELSE Append(f[i - 1], bs[i])
            /\ w = f[Len(bs)]
  BY WithoutSteps
<1>2. /\ Len(bs) \in Nat /\ DOMAIN bs = 1 .. Len(bs)
      /\ \A i \in 1 .. Len(bs) : bs[i] \in Binding
  BY LenProperties, ElementOfSeq
<1> DEFINE From(u, i) == \A k \in 1 .. Len(u) : \E p \in 1 .. i : u[k] = bs[p] /\ bs[p].cb \notin cbs
           All(u, i) == \A p \in 1 .. i : bs[p].cb \notin cbs => \E k \in 1 .. Len(u) : u[k] = bs[p]
           Apart(u) == (\A p, q \in DOMAIN bs : bs[p].cb = bs[q].cb => p = q)
                        => \A k, l \in 1 .. Len(u) : u[k].cb = u[l].cb => k = l
           First1(u, i) == i > 0 /\ bs[1].cb \notin cbs => Len(u) > 0 /\ u[1] = bs[1]
           Good(u, i) == From(u, i) /\ All(u, i) /\ Apart(u) /\ First1(u, i)
           T == {i \in Nat : i =< Len(bs) => Good(f[i], i)}
<1>3. 0 \in T
  <2>1. Len(<<>>) = 0
    OBVIOUS
  <2> QED  BY <2>1, <1>1
<1>4. ASSUME NEW i \in Nat, i \in T
      PROVE  i + 1 \in T
  <2> SUFFICES ASSUME i + 1 =< Len(bs)
               PROVE  Good(f[i + 1], i + 1)
    OBVIOUS
  <2>1. /\ i =< Len(bs) /\ i \in 0 .. Len(bs) /\ i + 1 \in 1 .. Len(bs)
        /\ (i + 1) - 1 = i
    BY <1>2
  <2> DEFINE b == bs[i + 1]
  <2>2. PICK u \in Seq(Binding) : u = f[i] /\ Good(u, i)
    <3>1. Good(f[i], i)
      BY <1>4, <2>1
    <3> HIDE DEF Good
    <3> QED  BY <1>1, <2>1, <3>1
  <2>3. /\ \A k \in 1 .. Len(u) : \E p \in 1 .. i : u[k] = bs[p] /\ bs[p].cb \notin cbs
        /\ \A p \in 1 .. i : bs[p].cb \notin cbs => \E k \in 1 .. Len(u) : u[k] = bs[p]
        /\ i > 0 /\ bs[1].cb \notin cbs => Len(u) > 0 /\ u[1] = bs[1]
    BY <2>2
  <2>4. f[i + 1] = IF b.cb \in cbs THEN u ELSE Append(u, b)
    BY <1>1, <2>1, <2>2
  <2>5. \A p \in 1 .. i + 1 : p \in 1 .. i \/ p = i + 1
    OBVIOUS
  <2>6. \A p \in 1 .. i : p \in 1 .. i + 1 /\ p \in 1 .. Len(bs) /\ p # i + 1
    BY <2>1, <1>2
  <2>7. CASE b.cb \in cbs
    <3>1. f[i + 1] = u
      BY <2>4, <2>7
    <3>2. From(u, i + 1)
      BY <2>3, <2>6
    <3>3. All(u, i + 1)
      BY <2>3, <2>5, <2>7
    <3>4. First1(u, i + 1)
      <4>1. bs[1].cb \notin cbs => i # 0
        BY <2>7
      <4> QED  BY <4>1, <2>3
    <3>5. Apart(u)
      BY <2>2
    <3> HIDE DEF From, All, Apart, First1
    <3> QED  BY <3>1, <3>2, <3>3, <3>4, <3>5
  <2>8. CASE b.cb \notin cbs
    <3> DEFINE v == Append(u, b)
    <3>1. f[i + 1] = v
      BY <2>4, <2>8
    <3>2. /\ Len(u) \in Nat /\ Len(v) = Len(u) + 1
          /\ \A k \in 1 .. Len(u) : v[k] = u[k]
          /\ v[Len(u) + 1] = b
      BY <1>2, <2>1, AppendProperties, LenProperties
    <3> HIDE DEF v
    <3>3. /\ \A k \in 1 .. Len(v) : k \in 1 .. Len(u) \/ k = Len(u) + 1
          /\ \A k \in 1 .. Len(u) : k \in 1 .. Len(v)
          /\ Len(u) + 1 \in 1 .. Len(v) /\ i + 1 \in 1 .. i + 1
      BY <3>2
    <3>4. From(v, i + 1)
      <4> SUFFICES ASSUME NEW k \in 1 .. Len(v)
                   PROVE  \E p \in 1 .. i + 1 : v[k] = bs[p] /\ bs[p].cb \notin cbs
        OBVIOUS
      <4>1. CASE k \in 1 .. Len(u)
        <5>1. PICK p \in 1 .. i : u[k] = bs[p] /\ bs[p].cb \notin cbs
          BY <4>1, <2>3
        <5> QED  BY <5>1, <4>1, <3>2, <2>6
      <4>2. CASE k = Len(u) + 1
        BY <4>2, <3>2, <3>3, <2>8
      <4> QED  BY <3>3, <4>1, <4>2
    <3>5. All(v, i + 1)
      <4> SUFFICES ASSUME NEW p \in 1 .. i + 1, bs[p].cb \notin cbs
                   PROVE  \E k \in 1 .. Len(v) : v[k] = bs[p]
        OBVIOUS
      <4>1. CASE p \in 1 .. i
        <5>1. PICK k \in 1 .. Len(u) : u[k] = bs[p]
          BY <4>1, <2>3
        <5> QED  BY <5>1, <3>2, <3>3
      <4>2. CASE p = i + 1
        BY <4>2, <3>2, <3>3
      <4> QED  BY <2>5, <4>1, <4>2
    <3>6. Apart(v)
      <4> SUFFICES ASSUME \A p, q \in DOMAIN bs : bs[p].cb = bs[q].cb => p = q,
                          NEW k \in 1 .. Len(v), NEW l \in 1 .. Len(v), v[k].cb = v[l].cb
                   PROVE  k = l
        OBVIOUS
      <4>1. \A m \in 1 .. Len(u) : u[m].cb # b.cb
        <5> SUFFICES ASSUME NEW m \in 1 .. Len(u), u[m].cb = b.cb
                     PROVE  FALSE
          OBVIOUS
        <5>1. PICK p \in 1 .. i : u[m] = bs[p]
          BY <2>3
        <5> QED  BY <5>1, <1>2, <2>1, <2>6
      <4>2. \A m, o \in 1 .. Len(u) : u[m].cb = u[o].cb => m = o
        BY <2>2
      <4>3. CASE k \in 1 .. Len(u) /\ l \in 1 .. Len(u)
        BY <4>2, <4>3, <3>2
      <4>4. CASE k = Len(u) + 1 /\ l \in 1 .. Len(u)
        BY <4>1, <4>4, <3>2
      <4>5. CASE l = Len(u) + 1 /\ k \in 1 .. Len(u)
        BY <4>1, <4>5, <3>2
      <4> QED  BY <3>3, <4>3, <4>4, <4>5
    <3>7. First1(v, i + 1)
      <4>1. CASE i = 0
        <5>1. Len(u) = 0
          <6> SUFFICES ASSUME 1 \in 1 .. Len(u)
                       PROVE  FALSE
            BY <3>2
          <6>1. PICK p \in 1 .. i : u[1] = bs[p]
            BY <2>3
          <6> QED  BY <4>1
        <5> QED  BY <5>1, <4>1, <3>2
      <4>2. CASE i # 0 /\ bs[1].cb \notin cbs
        <5>1. Len(u) > 0 /\ u[1] = bs[1]
          BY <4>2, <2>3
        <5> QED  BY <5>1, <3>2
      <4> QED  BY <4>1, <4>2
    <3> HIDE DEF From, All, Apart, First1
    <3> QED  BY <3>1, <3>4, <3>5, <3>6, <3>7
  <2> QED  BY <2>7, <2>8
<1>5. Good(w, Len(bs)) /\ w \in Seq(Binding)
  <2> HIDE DEF Good, T
  <2>1. \A i \in Nat : i \in T
    BY <1>3, <1>4, Induction
  <2> QED  BY <2>1, <1>1, <1>2 DEF T
<1>6. DOMAIN w = 1 .. Len(w)
  BY <1>5, LenProperties
<1> QED  BY <1>2, <1>5, <1>6 DEF Remains
------------------------------------------------------------------------------
\* A function on 1 .. n is a sequence.
LEMMA AsSequence ==
    ASSUME NEW S, NEW n \in Nat, NEW f \in [1 .. n -> S]
    PROVE  f \in Seq(S) /\ Len(f) = n
<1>1. f \in Seq(S)
  BY SeqDef
<1> QED  BY <1>1, LenProperties

\* The lists and their nodes.
LEMMA Lists ==
    ASSUME TypeOK, NEW e \in Ev
    PROVE  /\ binds[e] \in Seq(Binding) /\ Len(binds[e]) \in Nat
           /\ DOMAIN binds[e] = 1 .. Len(binds[e])
           /\ \A i \in 1 .. Len(binds[e]) : binds[e][i] \in Binding
<1>1. binds[e] \in Seq(Binding)
  BY DEF TypeOK
<1> QED  BY <1>1, LenProperties, ElementOfSeq

\* The moments of a queue.
LEMMA Moments ==
    ASSUME NEW q \in Seq(Moment)
    PROVE  /\ Len(q) \in Nat /\ DOMAIN q = 1 .. Len(q)
           /\ \A i \in 1 .. Len(q) : q[i] \in Moment
  BY LenProperties, ElementOfSeq

\* A callback is bound if some node has it, and Position finds that node.
LEMMA Bound ==
    ASSUME TypeOK, NEW e \in Ev, NEW cb
    PROVE  /\ IsBound(e, cb) <=> \E i \in 1 .. Len(binds[e]) : binds[e][i].cb = cb
           /\ IsBound(e, cb) => /\ Position(e, cb) \in 1 .. Len(binds[e])
                                /\ binds[e][Position(e, cb)].cb = cb
<1>1. IsBound(e, cb) <=> \E i \in 1 .. Len(binds[e]) : binds[e][i].cb = cb
  BY Lists DEF IsBound, Callbacks, Range
<1>2. DOMAIN binds[e] = 1 .. Len(binds[e])
  BY Lists
<1> QED  BY <1>1, <1>2 DEF Position

\* The callbacks of the nodes whose unbind is pending.
LEMMA PendingUnbinds ==
    ASSUME TypeOK, NEW e \in Ev
    PROVE  \A cb : cb \in Unbound(e) <=>
                \E i \in 1 .. Len(binds[e]) : binds[e][i].cb = cb /\ binds[e][i].unbound = TRUE
<1>1. /\ DOMAIN binds[e] = 1 .. Len(binds[e])
      /\ \A i \in 1 .. Len(binds[e]) : binds[e][i].unbound \in BOOLEAN
  BY Lists DEF Binding
<1>2. \A cb : cb \in Unbound(e) <=>
                \E i \in 1 .. Len(binds[e]) : binds[e][i].cb = cb /\ binds[e][i].unbound
  BY <1>1 DEF Unbound, Range
<1> QED  BY <1>1, <1>2

\* Freeing nodes marks the moments that start at them and nothing else.
Marks(q, e, cbs, r) ==
    /\ r \in Seq(Moment) /\ Len(r) = Len(q)
    /\ \A i \in 1 .. Len(q) :
        /\ r[i].ev = q[i].ev /\ r[i].head = q[i].head
        /\ r[i].stale = FALSE => q[i].stale = FALSE /\ ~(q[i].ev = e /\ q[i].head \in cbs)

LEMMA FreedFacts ==
    ASSUME NEW q \in Seq(Moment), NEW e, NEW cbs, NEW r, r = Freed(q, e, cbs)
    PROVE  Marks(q, e, cbs, r)
<1>1. /\ Len(q) \in Nat /\ DOMAIN q = 1 .. Len(q)
      /\ \A i \in 1 .. Len(q) : q[i] \in Moment
  BY Moments
<1> DEFINE F(i) == [q[i] EXCEPT !.stale = @ \/ (q[i].ev = e /\ q[i].head \in cbs)]
<1>2. ASSUME NEW i \in 1 .. Len(q)
      PROVE  /\ F(i) \in Moment
             /\ F(i).ev = q[i].ev /\ F(i).head = q[i].head
             /\ F(i).stale = FALSE => q[i].stale = FALSE /\ ~(q[i].ev = e /\ q[i].head \in cbs)
  BY <1>1 DEF Moment
<1> HIDE DEF F
<1>3. r = [i \in 1 .. Len(q) |-> F(i)]
  BY <1>1 DEF Freed, F
<1>4. r \in [1 .. Len(q) -> Moment]
  BY <1>2, <1>3
<1>5. r \in Seq(Moment) /\ Len(r) = Len(q)
  BY <1>1, <1>4, AsSequence
<1> QED  BY <1>2, <1>3, <1>5 DEF Marks

------------------------------------------------------------------------------
LEMMA InitIInv == Init => IInv
<1> SUFFICES ASSUME Init
             PROVE  IInv
  OBVIOUS
<1>1. TypeOK
  BY EmptySeq DEF Init, TypeOK, PC
<1>2. \A e \in Ev : binds[e] = <<>> /\ wanted[e] = {}
  BY DEF Init
<1>3. Distinct /\ Phases /\ HeadsFirst /\ Snapshot /\ Progress
  BY <1>2 DEF Init, Active, Distinct, Phases, HeadsFirst, Snapshot, Progress
<1>4. BindingsMatchApi
  <2> SUFFICES ASSUME NEW e \in Ev
               PROVE  Range(Callbacks(binds[e])) = {} /\ Unbound(e) = {}
    BY <1>2 DEF BindingsMatchApi
  <2>1. DOMAIN binds[e] = {}
    BY <1>2
  <2>2. DOMAIN Callbacks(binds[e]) = {}
    BY <2>1 DEF Callbacks
  <2>3. Range(binds[e]) = {} /\ Range(Callbacks(binds[e])) = {}
    BY <2>1, <2>2 DEF Range
  <2> QED  BY <2>3 DEF Unbound
<1> QED  BY <1>1, <1>3, <1>4 DEF IInv

\* The lists of the next state, as Lists has them for this one.
LEMMA ListsNext ==
    ASSUME binds' \in [Ev -> Seq(Binding)], NEW e \in Ev
    PROVE  /\ binds'[e] \in Seq(Binding) /\ Len(binds'[e]) \in Nat
           /\ DOMAIN binds'[e] = 1 .. Len(binds'[e])
           /\ \A i \in 1 .. Len(binds'[e]) : binds'[e][i] \in Binding
<1>1. binds'[e] \in Seq(Binding)
  OBVIOUS
<1> QED  BY <1>1, LenProperties, ElementOfSeq

\* A list as a callback's own calls may change it: nodes keep their place, and
\* new ones are not marked normal_bound.
Grown(bs, cs) ==
    /\ Len(bs) =< Len(cs)
    /\ \A i \in 1 .. Len(bs) : cs[i].cb = bs[i].cb /\ cs[i].normal_bound = bs[i].normal_bound
    /\ \A i \in 1 .. Len(cs) : i > Len(bs) => cs[i].normal_bound = FALSE

\* Such changes are safe under the walk.
LEMMA GrowingIsSafe ==
    ASSUME IInv, binds' \in [Ev -> Seq(Binding)],
           \A e \in Ev : Grown(binds[e], binds'[e]),
           UNCHANGED <<queue, running, pc, binding, called, atStart>>,
           fault' = fault \/ (pc \in {"calling", "result"} /\ fault' = "unbind")
    PROVE  Phases' /\ HeadsFirst' /\ Snapshot' /\ Progress'
<1>1. Phases'
  BY DEF IInv, Phases, Active
<1>2. HeadsFirst'
  <2> SUFFICES ASSUME NEW i \in 1 .. Len(queue), queue[i].stale = FALSE, queue[i].head # None
               PROVE  /\ Len(binds'[queue[i].ev]) > 0
                      /\ binds'[queue[i].ev][1].cb = queue[i].head
    BY Moments DEF HeadsFirst, IInv, TypeOK
  <2>1. queue[i].ev \in Ev
    BY Moments DEF IInv, TypeOK, Moment
  <2>2. PICK e \in Ev : e = queue[i].ev
    BY <2>1
  <2>3. Len(binds[e]) > 0 /\ binds[e][1].cb = queue[i].head
    BY <2>2, Moments DEF IInv, TypeOK, HeadsFirst
  <2>4. Len(binds[e]) \in Nat /\ Len(binds'[e]) \in Nat
    BY Lists, ListsNext DEF IInv
  <2> QED  BY <2>2, <2>3, <2>4 DEF Grown
<1>3. ASSUME Active, fault # "moment"
      PROVE  /\ running \in Ev /\ Grown(binds[running], binds'[running])
             /\ Len(binds[running]) \in Nat /\ Len(binds'[running]) \in Nat
             /\ DOMAIN binds[running] = 1 .. Len(binds[running])
             /\ DOMAIN binds'[running] = 1 .. Len(binds'[running])
             /\ Len(atStart) \in Nat
  BY <1>3, Lists, ListsNext, LenProperties DEF IInv, Phases, TypeOK
<1>4. Active' = Active /\ (fault' # "moment" => fault # "moment")
  BY DEF Active, IInv, Phases
<1>5. Snapshot'
  <2> SUFFICES ASSUME Active, fault # "moment"
               PROVE  /\ Len(atStart) =< Len(binds'[running])
                      /\ \A i \in DOMAIN binds'[running] :
                            IF i =< Len(atStart)
                            THEN /\ binds'[running][i].cb = atStart[i]
                                 /\ binds'[running][i].normal_bound = TRUE
                            ELSE binds'[running][i].normal_bound = FALSE
    BY <1>4 DEF Snapshot
  <2> QED  BY <1>3 DEF IInv, Snapshot, Grown
<1>6. Progress'
  <2> SUFFICES ASSUME Active, fault # "moment", queue[1].head # None
               PROVE  binding # None => \E p \in DOMAIN binds'[running] : WalkAt(p)'
    BY <1>4 DEF IInv, Progress
  <2> SUFFICES ASSUME binding # None
               PROVE  \E p \in DOMAIN binds'[running] : WalkAt(p)'
    OBVIOUS
  <2>1. PICK p \in DOMAIN binds[running] : WalkAt(p)
    BY DEF IInv, Progress
  <2>2. p \in 1 .. Len(binds[running]) /\ p \in DOMAIN binds'[running]
    BY <1>3 DEF Grown
  <2>3. WalkAt(p)'
    BY <1>3, <2>1, <2>2 DEF WalkAt, Grown
  <2> QED  BY <2>2, <2>3
<1> QED  BY <1>1, <1>2, <1>5, <1>6
------------------------------------------------------------------------------
\* What BindingsMatchApi says of a list, node by node.
Matches(bs, w) ==
    \A cb : cb \in w <=> \E i \in 1 .. Len(bs) : bs[i].cb = cb /\ bs[i].unbound = FALSE
Settled(bs) == \A i \in 1 .. Len(bs) : bs[i].unbound = FALSE

LEMMA MatchList ==
    ASSUME NEW bs \in Seq(Binding), NEW w,
           \A i, j \in DOMAIN bs : bs[i].cb = bs[j].cb => i = j
    PROVE  /\ Range(Callbacks(bs)) \ {b.cb : b \in {x \in Range(bs) : x.unbound}} = w
                <=> Matches(bs, w)
           /\ {b.cb : b \in {x \in Range(bs) : x.unbound}} = {} <=> Settled(bs)
<1> DEFINE out == {b.cb : b \in {x \in Range(bs) : x.unbound}}
           in == Range(Callbacks(bs))
<1>1. /\ DOMAIN bs = 1 .. Len(bs)
      /\ \A i \in 1 .. Len(bs) : bs[i].unbound \in BOOLEAN
  <2>1. DOMAIN bs = 1 .. Len(bs) /\ \A i \in 1 .. Len(bs) : bs[i] \in Binding
    BY LenProperties, ElementOfSeq
  <2> QED  BY <2>1 DEF Binding
<1>2. \A cb : cb \in out <=> \E i \in 1 .. Len(bs) : bs[i].cb = cb /\ bs[i].unbound = TRUE
  <2>1. \A cb : cb \in out <=> \E i \in 1 .. Len(bs) : bs[i].cb = cb /\ bs[i].unbound
    BY <1>1 DEF Range
  <2> QED  BY <1>1, <2>1
<1>3. \A cb : cb \in in <=> \E i \in 1 .. Len(bs) : bs[i].cb = cb
  BY <1>1 DEF Range, Callbacks
<1> HIDE DEF in, out
<1>4. out = {} <=> Settled(bs)
  BY <1>1, <1>2 DEF Settled
<1>5. \A cb : cb \in in \ out <=> \E i \in 1 .. Len(bs) : bs[i].cb = cb /\ bs[i].unbound = FALSE
  BY <1>1, <1>2, <1>3
<1>6. in \ out = w <=> Matches(bs, w)
  BY <1>5 DEF Matches
<1> QED  BY <1>4, <1>6 DEF in, out

LEMMA MatchNow ==
    ASSUME TypeOK, Distinct
    PROVE  BindingsMatchApi <=>
            \A e \in Ev : Matches(binds[e], wanted[e]) /\ (e # running => Settled(binds[e]))
<1>1. ASSUME NEW e \in Ev
      PROVE  /\ Range(Callbacks(binds[e])) \ Unbound(e) = wanted[e] <=> Matches(binds[e], wanted[e])
             /\ Unbound(e) = {} <=> Settled(binds[e])
  BY Lists, MatchList DEF Distinct, Unbound
<1> QED  BY <1>1 DEF BindingsMatchApi

LEMMA MatchNext ==
    ASSUME TypeOK', Distinct',
           \A e \in Ev : Matches(binds'[e], wanted'[e]) /\ (e # running' => Settled(binds'[e]))
    PROVE  BindingsMatchApi'
<1>1. ASSUME NEW e \in Ev
      PROVE  /\ Range(Callbacks(binds'[e])) \ Unbound(e)' = wanted'[e]
             /\ e # running' => Unbound(e)' = {}
  <2>1. binds'[e] \in Seq(Binding)
    BY DEF TypeOK
  <2> QED  BY <2>1, MatchList DEF Distinct, Unbound
<1> QED  BY <1>1 DEF BindingsMatchApi

------------------------------------------------------------------------------
\* A step that leaves lists, queue and walk alone.
LEMMA QuietStep ==
    ASSUME IInv, events' \in SUBSET Ev, destroy_pending' \in BOOLEAN,
           UNCHANGED <<binds, queue, running, pc, binding, fault, called, atStart, wanted>>
    PROVE  IInv'
<1>1. TypeOK'
  BY DEF IInv, TypeOK
<1>2. Distinct' /\ Phases' /\ HeadsFirst' /\ Snapshot'
  BY DEF IInv, Distinct, Phases, HeadsFirst, Snapshot, Active
<1>3. Progress'
  BY DEF IInv, Progress, Active, WalkAt
<1>4. BindingsMatchApi'
  BY DEF IInv, BindingsMatchApi, Unbound
<1> QED  BY <1>1, <1>2, <1>3, <1>4 DEF IInv

\* One list changes, and no node leaves it.
LEMMA OneListGrows ==
    ASSUME IInv, NEW e \in Ev, NEW cs \in Seq(Binding),
           binds' = [binds EXCEPT ![e] = cs],
           Grown(binds[e], cs),
           \A i, j \in 1 .. Len(cs) : cs[i].cb = cs[j].cb => i = j,
           NEW w \in SUBSET Cb, wanted' = [wanted EXCEPT ![e] = w],
           Matches(cs, w), e # running => Settled(cs),
           UNCHANGED <<events, queue, running, pc, binding, destroy_pending, fault,
                       called, atStart>>
    PROVE  IInv'
<1>1. /\ binds' \in [Ev -> Seq(Binding)]
      /\ binds'[e] = cs /\ \A f \in Ev \ {e} : binds'[f] = binds[f]
      /\ wanted'[e] = w /\ \A f \in Ev \ {e} : wanted'[f] = wanted[f]
  BY DEF IInv, TypeOK
<1>2. TypeOK'
  <2>1. wanted' \in [Ev -> SUBSET Cb]
    BY DEF IInv, TypeOK
  <2> QED  BY <1>1, <2>1 DEF IInv, TypeOK
<1>3. \A f \in Ev : Grown(binds[f], binds'[f])
  <2> SUFFICES ASSUME NEW f \in Ev \ {e}
               PROVE  Grown(binds[f], binds[f])
    BY <1>1
  <2> QED  BY Lists DEF Grown, IInv
<1>4. Distinct'
  <2>1. DOMAIN cs = 1 .. Len(cs)
    BY LenProperties
  <2> QED  BY <1>1, <2>1 DEF IInv, Distinct
<1>5. Phases' /\ HeadsFirst' /\ Snapshot' /\ Progress'
  BY <1>1, <1>3, GrowingIsSafe
<1>6. BindingsMatchApi'
  <2>1. \A f \in Ev : Matches(binds[f], wanted[f]) /\ (f # running => Settled(binds[f]))
    BY MatchNow DEF IInv
  <2>2. \A f \in Ev : Matches(binds'[f], wanted'[f]) /\ (f # running' => Settled(binds'[f]))
    BY <1>1, <2>1
  <2> QED  BY <1>2, <1>4, <2>2, MatchNext
<1> QED  BY <1>2, <1>4, <1>5, <1>6 DEF IInv

\* Marking a node bound or unbound.
Mark(bs, p, b) == [bs EXCEPT ![p].unbound = b]

Marked(bs, p, cs) ==
    /\ cs \in Seq(Binding) /\ Len(cs) = Len(bs) /\ Grown(bs, cs)
    /\ \A i, j \in 1 .. Len(cs) : cs[i].cb = cs[j].cb => i = j
    /\ \A i \in 1 .. Len(bs) : cs[i].cb = bs[i].cb
    /\ \A i \in 1 .. Len(bs) : i # p => cs[i].unbound = bs[i].unbound

LEMMA MarkNode ==
    ASSUME NEW bs \in Seq(Binding), NEW p \in 1 .. Len(bs), NEW b \in BOOLEAN,
           NEW cs, cs = Mark(bs, p, b),
           \A i, j \in 1 .. Len(bs) : bs[i].cb = bs[j].cb => i = j
    PROVE  Marked(bs, p, cs) /\ cs[p].unbound = b
<1>1. /\ Len(bs) \in Nat /\ DOMAIN bs = 1 .. Len(bs)
      /\ \A i \in 1 .. Len(bs) : bs[i] \in Binding
  BY LenProperties, ElementOfSeq
<1>2. bs \in [1 .. Len(bs) -> Binding]
  BY <1>1
<1>3. [bs[p] EXCEPT !.unbound = b] \in Binding
  BY <1>1 DEF Binding
<1>4. cs = [bs EXCEPT ![p] = [bs[p] EXCEPT !.unbound = b]]
  BY DEF Mark
<1>5. cs \in [1 .. Len(bs) -> Binding]
  BY <1>2, <1>3, <1>4
<1>6. cs \in Seq(Binding) /\ Len(cs) = Len(bs)
  BY <1>1, <1>5, AsSequence
<1>7. ASSUME NEW i \in 1 .. Len(bs)
      PROVE  /\ cs[i].cb = bs[i].cb /\ cs[i].normal_bound = bs[i].normal_bound
             /\ i # p => cs[i].unbound = bs[i].unbound
             /\ i = p => cs[i].unbound = b
  <2>1. cs[i] = IF i = p THEN [bs[p] EXCEPT !.unbound = b] ELSE bs[i]
    BY <1>2, <1>4
  <2> QED  BY <2>1, <1>1 DEF Binding
<1>8. Grown(bs, cs)
  BY <1>1, <1>6, <1>7 DEF Grown
<1> QED  BY <1>6, <1>7, <1>8 DEF Marked

LEMMA BindStep ==
    ASSUME IInv, NEW e \in Ev, NEW cb \in Cb, Bind(e, cb)
    PROVE  IInv'
<1>1. TypeOK /\ Distinct /\ BindingsMatchApi
  BY DEF IInv
<1>2. PICK bs \in Seq(Binding) : bs = binds[e]
  BY <1>1, Lists
<1>3. /\ Len(bs) \in Nat /\ DOMAIN bs = 1 .. Len(bs)
      /\ \A i \in 1 .. Len(bs) : bs[i] \in Binding
      /\ \A i, j \in 1 .. Len(bs) : bs[i].cb = bs[j].cb => i = j
      /\ Matches(bs, wanted[e]) /\ (e # running => Settled(bs))
  BY <1>1, <1>2, Lists, MatchNow DEF Distinct
<1> DEFINE w == wanted[e] \cup {cb}
<1>4. w \in SUBSET Cb /\ wanted' = [wanted EXCEPT ![e] = w]
  BY <1>1 DEF TypeOK, Bind
<1>5. UNCHANGED <<events, queue, running, pc, binding, destroy_pending, fault, called, atStart>>
  BY DEF Bind
<1>6. CASE IsBound(e, cb)
  <2>1. PICK p \in 1 .. Len(bs) : p = Position(e, cb) /\ bs[p].cb = cb
    BY <1>1, <1>2, <1>6, Bound
  <2> DEFINE cs == [bs EXCEPT ![p].unbound = FALSE]
  <2>2. binds' = [binds EXCEPT ![e] = cs]
    BY <1>2, <1>6, <2>1 DEF Bind
  <2>3. /\ cs \in Seq(Binding) /\ Len(cs) = Len(bs) /\ Grown(bs, cs)
        /\ \A i, j \in 1 .. Len(cs) : cs[i].cb = cs[j].cb => i = j
        /\ \A i \in 1 .. Len(bs) : cs[i].cb = bs[i].cb
        /\ \A i \in 1 .. Len(bs) : i # p => cs[i].unbound = bs[i].unbound
        /\ cs[p].unbound = FALSE
    <3>1. PICK b \in BOOLEAN : b = FALSE
      OBVIOUS
    <3>2. cs = Mark(bs, p, b)
      BY <3>1 DEF Mark
    <3> HIDE DEF cs
    <3>3. Marked(bs, p, cs) /\ cs[p].unbound = b
      BY <1>3, <3>2, MarkNode
    <3> QED  BY <3>1, <3>3 DEF Marked
  <2> HIDE DEF cs
  <2>4. Matches(cs, w)
    <3> SUFFICES ASSUME NEW c
                 PROVE  c \in w <=> \E i \in 1 .. Len(cs) : cs[i].cb = c /\ cs[i].unbound = FALSE
      BY DEF Matches
    <3>1. c \in wanted[e] <=> \E i \in 1 .. Len(bs) : bs[i].cb = c /\ bs[i].unbound = FALSE
      BY <1>3 DEF Matches
    <3>2. CASE c = cb
      BY <3>2, <2>1, <2>3
    <3>3. CASE c # cb
      BY <3>1, <3>3, <2>1, <2>3
    <3> QED  BY <3>2, <3>3
  <2>5. e # running => Settled(cs)
    BY <1>3, <2>3 DEF Settled
  <2> HIDE DEF w
  <2> QED  BY <1>2, <1>4, <1>5, <2>2, <2>3, <2>4, <2>5, OneListGrows
<1>7. CASE ~IsBound(e, cb)
  <2> DEFINE b == [cb |-> cb, unbound |-> FALSE, normal_bound |-> FALSE]
             cs == Append(bs, b)
  <2>1. binds' = [binds EXCEPT ![e] = cs]
    BY <1>2, <1>7 DEF Bind
  <2>2. b \in Binding /\ b.cb = cb /\ b.unbound = FALSE /\ b.normal_bound = FALSE
    BY DEF Binding
  <2> HIDE DEF b
  <2>3. /\ cs \in Seq(Binding) /\ Len(cs) = Len(bs) + 1
        /\ \A i \in 1 .. Len(bs) : cs[i] = bs[i]
        /\ cs[Len(bs) + 1] = b
    BY <2>2, AppendProperties
  <2> HIDE DEF cs
  <2>4. \A i \in 1 .. Len(cs) : i \in 1 .. Len(bs) \/ i = Len(bs) + 1
    BY <1>3, <2>3
  <2>5. \A i \in 1 .. Len(bs) : bs[i].cb # cb
    BY <1>1, <1>2, <1>7, Bound
  <2>6. \A i, j \in 1 .. Len(cs) : cs[i].cb = cs[j].cb => i = j
    <3> SUFFICES ASSUME NEW i \in 1 .. Len(cs), NEW j \in 1 .. Len(cs), cs[i].cb = cs[j].cb
                 PROVE  i = j
      OBVIOUS
    <3>1. CASE i \in 1 .. Len(bs) /\ j \in 1 .. Len(bs)
      BY <3>1, <1>3, <2>3
    <3>2. CASE i \in 1 .. Len(bs) /\ j = Len(bs) + 1
      BY <3>2, <2>2, <2>3, <2>5
    <3>3. CASE i = Len(bs) + 1 /\ j \in 1 .. Len(bs)
      BY <3>3, <2>2, <2>3, <2>5
    <3> QED  BY <2>4, <3>1, <3>2, <3>3
  <2>7. Grown(bs, cs)
    BY <1>3, <2>2, <2>3, <2>4 DEF Grown
  <2>8. Matches(cs, w)
    <3> SUFFICES ASSUME NEW c
                 PROVE  c \in w <=> \E i \in 1 .. Len(cs) : cs[i].cb = c /\ cs[i].unbound = FALSE
      BY DEF Matches
    <3>1. c \in wanted[e] <=> \E i \in 1 .. Len(bs) : bs[i].cb = c /\ bs[i].unbound = FALSE
      BY <1>3 DEF Matches
    <3>2. /\ \A i \in 1 .. Len(bs) : i \in 1 .. Len(cs)
          /\ Len(bs) + 1 \in 1 .. Len(cs)
      BY <1>3, <2>3
    <3>3. CASE c = cb
      BY <3>2, <3>3, <2>2, <2>3
    <3>4. CASE c # cb
      <4>1. c \in w <=> c \in wanted[e]
        BY <3>4
      <4>2. (\E i \in 1 .. Len(cs) : cs[i].cb = c /\ cs[i].unbound = FALSE)
              <=> \E i \in 1 .. Len(bs) : bs[i].cb = c /\ bs[i].unbound = FALSE
        BY <3>2, <3>4, <2>2, <2>3, <2>4
      <4> QED  BY <4>1, <4>2, <3>1
    <3> QED  BY <3>3, <3>4
  <2>9. e # running => Settled(cs)
    BY <1>3, <2>2, <2>3, <2>4 DEF Settled
  <2> HIDE DEF w
  <2> QED  BY <1>2, <1>4, <1>5, <2>1, <2>3, <2>6, <2>7, <2>8, <2>9, OneListGrows
<1> QED  BY <1>6, <1>7

\* What removing nodes does to the lists and to the moments of q.
LEMMA RemovalKeeps ==
    ASSUME TypeOK, Distinct, NEW q \in Seq(Moment), NEW e \in Ev, NEW cbs,
           \A i \in 1 .. Len(q) : q[i].stale = FALSE /\ q[i].head # None =>
                Len(binds[q[i].ev]) > 0 /\ binds[q[i].ev][1].cb = q[i].head,
           binds' = [binds EXCEPT ![e] = Without(@, cbs)],
           queue' = Freed(q, e, cbs)
    PROVE  /\ binds' \in [Ev -> Seq(Binding)] /\ queue' \in Seq(Moment)
           /\ Distinct' /\ HeadsFirst'
<1>1. PICK bs \in Seq(Binding) : bs = binds[e]
  BY Lists
<1>2. PICK w : w = Without(bs, cbs)
  OBVIOUS
<1>3. /\ w \in Seq(Binding)
      /\ (\A i, j \in DOMAIN bs : bs[i].cb = bs[j].cb => i = j)
            => \A i, j \in DOMAIN w : w[i].cb = w[j].cb => i = j
      /\ Len(bs) > 0 /\ bs[1].cb \notin cbs => Len(w) > 0 /\ w[1] = bs[1]
  <2>1. Remains(bs, cbs, w)
    BY <1>2, WithoutFacts
  <2> QED  BY <2>1 DEF Remains
<1>4. binds' = [binds EXCEPT ![e] = w]
  BY <1>1, <1>2
<1>5. binds'[e] = w /\ \A f \in Ev \ {e} : binds'[f] = binds[f]
  BY <1>4 DEF TypeOK
<1>6. binds' \in [Ev -> Seq(Binding)]
  BY <1>3, <1>4 DEF TypeOK
<1>7. Distinct'
  BY <1>1, <1>3, <1>5 DEF Distinct
<1>8. /\ queue' \in Seq(Moment) /\ Len(queue') = Len(q)
      /\ \A i \in 1 .. Len(q) :
            /\ queue'[i].ev = q[i].ev /\ queue'[i].head = q[i].head
            /\ queue'[i].stale = FALSE =>
                q[i].stale = FALSE /\ ~(q[i].ev = e /\ q[i].head \in cbs)
  <2>1. Marks(q, e, cbs, queue')
    BY FreedFacts
  <2> QED  BY <2>1 DEF Marks
<1>9. HeadsFirst'
  <2> SUFFICES ASSUME NEW i \in 1 .. Len(queue'), queue'[i].stale = FALSE, queue'[i].head # None
               PROVE  /\ Len(binds'[queue'[i].ev]) > 0
                      /\ binds'[queue'[i].ev][1].cb = queue'[i].head
    BY <1>8, Moments DEF HeadsFirst
  <2>1. PICK f \in Ev : f = q[i].ev /\ f = queue'[i].ev
    BY <1>8, Moments DEF Moment
  <2>2. Len(binds[f]) > 0 /\ binds[f][1].cb = q[i].head /\ ~(f = e /\ q[i].head \in cbs)
    BY <1>8, <2>1
  <2>3. Len(binds'[f]) > 0 /\ binds'[f][1].cb = q[i].head
    BY <1>1, <1>3, <1>5, <2>2
  <2> QED  BY <1>8, <2>1, <2>3
<1> QED  BY <1>6, <1>7, <1>8, <1>9

LEMMA UnbindStep ==
    ASSUME IInv, NEW e \in Ev, NEW cb \in Cb, Unbind(e, cb)
    PROVE  IInv'
<1>1. TypeOK /\ Distinct /\ BindingsMatchApi /\ Phases /\ HeadsFirst
  BY DEF IInv
<1>2. PICK bs \in Seq(Binding) : bs = binds[e]
  BY <1>1, Lists
<1>3. /\ Len(bs) \in Nat /\ DOMAIN bs = 1 .. Len(bs)
      /\ \A i \in 1 .. Len(bs) : bs[i] \in Binding
      /\ \A i, j \in 1 .. Len(bs) : bs[i].cb = bs[j].cb => i = j
      /\ Matches(bs, wanted[e]) /\ (e # running => Settled(bs))
  BY <1>1, <1>2, Lists, MatchNow DEF Distinct
<1>4. PICK w : w = wanted[e] \ {cb}
  OBVIOUS
<1>5. w \in SUBSET Cb /\ wanted' = [wanted EXCEPT ![e] = w]
  BY <1>1, <1>4 DEF TypeOK, Unbind
<1>6. UNCHANGED <<events, running, pc, binding, destroy_pending, called, atStart>>
  BY DEF Unbind
<1>7. CASE e # running
  <2>1. /\ binds' = [binds EXCEPT ![e] = Without(@, {cb})]
        /\ queue' = Freed(queue, e, {cb}) /\ fault' = fault
    BY <1>7 DEF Unbind
  <2>2. /\ queue \in Seq(Moment) /\ Len(queue) \in Nat /\ DOMAIN queue = 1 .. Len(queue)
        /\ \A i \in 1 .. Len(queue) : queue[i] \in Moment
    BY <1>1, Moments DEF TypeOK
  <2>3. /\ binds' \in [Ev -> Seq(Binding)] /\ queue' \in Seq(Moment)
        /\ Distinct' /\ HeadsFirst'
    BY <1>1, <2>1, <2>2, RemovalKeeps DEF HeadsFirst
  <2>4. wanted' \in [Ev -> SUBSET Cb]
    BY <1>1, <1>5 DEF TypeOK
  <2>5. TypeOK'
    BY <1>1, <1>6, <2>1, <2>3, <2>4 DEF TypeOK
  <2>6. /\ \A f \in Ev \ {e} : binds'[f] = binds[f] /\ wanted'[f] = wanted[f]
        /\ binds'[e] = Without(bs, {cb}) /\ wanted'[e] = w
    BY <1>1, <1>2, <1>5, <2>1 DEF TypeOK
  <2>7. /\ Len(queue') = Len(queue)
        /\ \A i \in 1 .. Len(queue) : queue'[i].ev = queue[i].ev /\ queue'[i].head = queue[i].head
    <3>1. Marks(queue, e, {cb}, queue')
      BY <2>1, <2>2, FreedFacts
    <3> QED  BY <3>1 DEF Marks
  <2>8. queue # <<>> => /\ queue' # <<>> /\ queue'[1].ev = queue[1].ev
                        /\ queue'[1].head = queue[1].head
    BY <2>2, <2>3, <2>7, EmptySeq
  <2>9. Phases'
    BY <1>1, <1>6, <2>1, <2>8 DEF Phases, Active
  <2>10. Active => running \in Ev /\ binds'[running] = binds[running] /\ queue # <<>>
    BY <1>1, <1>7, <2>6 DEF Phases
  <2>11. Snapshot'
    BY <1>6, <2>1, <2>10 DEF IInv, Snapshot, Active
  <2>12. Progress'
    <3>1. \A p : Active => WalkAt(p)' = WalkAt(p)
      BY <1>6, <2>10 DEF WalkAt
    <3> QED  BY <1>6, <2>1, <2>8, <2>10, <3>1 DEF IInv, Progress, Active
  <2>13. Matches(binds'[e], w) /\ Settled(binds'[e])
    <3>1. PICK cs : cs = Without(bs, {cb})
      OBVIOUS
    <3>2. /\ cs \in Seq(Binding)
          /\ \A k \in DOMAIN cs : \E p \in DOMAIN bs : cs[k] = bs[p] /\ bs[p].cb \notin {cb}
          /\ \A p \in DOMAIN bs : bs[p].cb \notin {cb} => \E k \in DOMAIN cs : cs[k] = bs[p]
      <4>1. Remains(bs, {cb}, cs)
        BY <3>1, WithoutFacts
      <4> QED  BY <4>1 DEF Remains
    <3>3. DOMAIN cs = 1 .. Len(cs)
      BY <3>2, LenProperties
    <3>4. Settled(cs)
      BY <1>3, <1>7, <3>2, <3>3 DEF Settled
    <3>5. Matches(cs, w)
      <4> SUFFICES ASSUME NEW c
                   PROVE  c \in w <=> \E i \in 1 .. Len(cs) : cs[i].cb = c /\ cs[i].unbound = FALSE
        BY DEF Matches
      <4>1. c \in wanted[e] <=> \E i \in 1 .. Len(bs) : bs[i].cb = c /\ bs[i].unbound = FALSE
        BY <1>3 DEF Matches
      <4>2. CASE c = cb
        BY <4>2, <1>3, <1>4, <3>2, <3>3
      <4>3. CASE c # cb
        <5>1. c \in w <=> c \in wanted[e]
          BY <4>3, <1>4
        <5>2. ASSUME NEW i \in 1 .. Len(bs), bs[i].cb = c, bs[i].unbound = FALSE
              PROVE  \E k \in 1 .. Len(cs) : cs[k].cb = c /\ cs[k].unbound = FALSE
          <6>1. PICK k \in DOMAIN cs : cs[k] = bs[i]
            BY <4>3, <5>2, <1>3, <3>2
          <6> QED  BY <5>2, <6>1, <3>3
        <5>3. ASSUME NEW k \in 1 .. Len(cs), cs[k].cb = c, cs[k].unbound = FALSE
              PROVE  \E i \in 1 .. Len(bs) : bs[i].cb = c /\ bs[i].unbound = FALSE
          <6>1. PICK i \in DOMAIN bs : cs[k] = bs[i]
            BY <3>2, <3>3
          <6> QED  BY <5>3, <6>1, <1>3
        <5> QED  BY <5>1, <5>2, <5>3, <4>1
      <4> QED  BY <4>2, <4>3
    <3> QED  BY <2>6, <3>1, <3>4, <3>5
  <2>14. BindingsMatchApi'
    <3>1. \A f \in Ev : Matches(binds[f], wanted[f]) /\ (f # running => Settled(binds[f]))
      BY <1>1, MatchNow
    <3>2. \A f \in Ev : Matches(binds'[f], wanted'[f]) /\ (f # running' => Settled(binds'[f]))
      BY <1>6, <2>6, <2>13, <3>1
    <3> QED  BY <2>3, <2>5, <3>2, MatchNext
  <2> QED  BY <2>3, <2>5, <2>9, <2>11, <2>12, <2>14 DEF IInv
<1>8. CASE e = running /\ IsBound(e, cb)
  <2>1. PICK p \in 1 .. Len(bs) : p = Position(e, cb) /\ bs[p].cb = cb
    BY <1>1, <1>2, <1>8, Bound
  <2> DEFINE cs == [bs EXCEPT ![p].unbound = TRUE]
  <2>2. binds' = [binds EXCEPT ![e] = cs] /\ UNCHANGED <<queue, fault>>
    BY <1>2, <1>8, <2>1 DEF Unbind
  <2>3. /\ cs \in Seq(Binding) /\ Len(cs) = Len(bs) /\ Grown(bs, cs)
        /\ \A i, j \in 1 .. Len(cs) : cs[i].cb = cs[j].cb => i = j
        /\ \A i \in 1 .. Len(bs) : cs[i].cb = bs[i].cb
        /\ \A i \in 1 .. Len(bs) : i # p => cs[i].unbound = bs[i].unbound
        /\ cs[p].unbound = TRUE
    <3>1. PICK b \in BOOLEAN : b = TRUE
      OBVIOUS
    <3>2. cs = Mark(bs, p, b)
      BY <3>1 DEF Mark
    <3> HIDE DEF cs
    <3>3. Marked(bs, p, cs) /\ cs[p].unbound = b
      BY <1>3, <3>2, MarkNode
    <3> QED  BY <3>1, <3>3 DEF Marked
  <2> HIDE DEF cs
  <2>4. Matches(cs, w)
    <3> SUFFICES ASSUME NEW c
                 PROVE  c \in w <=> \E i \in 1 .. Len(cs) : cs[i].cb = c /\ cs[i].unbound = FALSE
      BY DEF Matches
    <3>1. c \in wanted[e] <=> \E i \in 1 .. Len(bs) : bs[i].cb = c /\ bs[i].unbound = FALSE
      BY <1>3 DEF Matches
    <3>2. CASE c = cb
      <4>1. \A i \in 1 .. Len(cs) : cs[i].cb = c => i = p
        BY <3>2, <1>3, <2>1, <2>3
      <4> QED  BY <3>2, <4>1, <1>4, <2>3
    <3>3. CASE c # cb
      BY <3>1, <3>3, <1>4, <2>1, <2>3
    <3> QED  BY <3>2, <3>3
  <2> QED  BY <1>2, <1>5, <1>6, <1>8, <2>2, <2>3, <2>4, OneListGrows
<1>9. CASE e = running /\ ~IsBound(e, cb)
  <2>1. fault' = "unbind" /\ UNCHANGED <<binds, queue>> /\ pc \in {"idle", "calling", "result"}
    BY <1>9 DEF Unbind, AppRuns
  <2>2. pc \in {"calling", "result"}
    <3>1. running # None
      BY <1>9, EventingAssumption
    <3> QED  BY <1>1, <2>1, <3>1 DEF Phases, Active
  <2>3. cb \notin wanted[e] /\ w = wanted[e]
    BY <1>1, <1>2, <1>3, <1>4, <1>9, Bound DEF Matches
  <2>4. wanted' = wanted
    BY <1>1, <1>5, <2>3 DEF TypeOK
  <2>5. TypeOK' /\ Distinct' /\ BindingsMatchApi'
    BY <1>1, <1>6, <2>1, <2>4 DEF TypeOK, Distinct, BindingsMatchApi, Unbound
  <2>6. \A f \in Ev : Grown(binds[f], binds[f])
    BY <1>1, Lists DEF Grown
  <2>7. Phases' /\ HeadsFirst' /\ Snapshot' /\ Progress'
    BY <1>1, <1>6, <2>1, <2>2, <2>6, GrowingIsSafe DEF TypeOK
  <2> QED  BY <2>5, <2>7 DEF IInv
<1> QED  BY <1>7, <1>8, <1>9

LEMMA TriggerStep ==
    ASSUME IInv, NEW e \in Ev, Trigger(e)
    PROVE  IInv'
<1>1. TypeOK /\ Phases /\ HeadsFirst
  BY DEF IInv
<1>2. PICK m : m = [ev |-> e, head |-> First(e), stale |-> FALSE]
  OBVIOUS
<1>3. /\ queue' = Append(queue, m)
      /\ pc' = IF running = None THEN "dispatch" ELSE pc
      /\ pc \in {"idle", "calling", "result"} /\ fault = "none"
      /\ UNCHANGED <<events, binds, running, binding, destroy_pending, fault,
                     called, atStart, wanted>>
  BY <1>2 DEF Trigger, AppRuns
<1>4. /\ binds[e] \in Seq(Binding) /\ Len(binds[e]) \in Nat
      /\ \A i \in 1 .. Len(binds[e]) : binds[e][i] \in Binding
  BY <1>1, Lists
<1>5. First(e) # None => First(e) \in Cb /\ Len(binds[e]) > 0 /\ binds[e][1].cb = First(e)
  <2>1. CASE binds[e] = <<>>
    BY <2>1 DEF First
  <2>2. CASE binds[e] # <<>>
    <3>1. Len(binds[e]) > 0
      BY <2>2, <1>4, EmptySeq
    <3>2. 1 \in 1 .. Len(binds[e])
      BY <3>1, <1>4
    <3> QED  BY <2>2, <3>1, <3>2, <1>4 DEF First, Binding
  <2> QED  BY <2>1, <2>2
<1>6. m \in Moment /\ m.ev = e /\ m.head = First(e)
  BY <1>2, <1>5 DEF Moment
<1>7. /\ queue \in Seq(Moment) /\ Len(queue) \in Nat
      /\ queue' \in Seq(Moment) /\ Len(queue') = Len(queue) + 1
      /\ \A i \in 1 .. Len(queue) : queue'[i] = queue[i]
      /\ queue'[Len(queue) + 1] = m
  BY <1>1, <1>3, <1>6, AppendProperties, LenProperties DEF TypeOK
<1>8. DOMAIN queue = 1 .. Len(queue) /\ DOMAIN queue' = 1 .. Len(queue) + 1
  BY <1>7, LenProperties
<1>9. queue # <<>> => queue' # <<>> /\ queue'[1] = queue[1]
  BY <1>7, EmptySeq
<1>10. TypeOK'
  <2>1. pc' \in PC
    BY <1>1, <1>3 DEF TypeOK, PC
  <2> QED  BY <1>1, <1>3, <1>7, <2>1 DEF TypeOK
<1>11. Active' = Active /\ (Active => pc' = pc)
  BY <1>1, <1>3, EventingAssumption DEF Phases, Active
<1>12. Phases'
  BY <1>1, <1>3, <1>9, <1>11 DEF Phases, Active
<1>13. HeadsFirst'
  <2> SUFFICES ASSUME NEW i \in 1 .. Len(queue) + 1, queue'[i].stale = FALSE, queue'[i].head # None
               PROVE  /\ Len(binds[queue'[i].ev]) > 0
                      /\ binds[queue'[i].ev][1].cb = queue'[i].head
    BY <1>3, <1>8 DEF HeadsFirst
  <2>1. CASE i \in 1 .. Len(queue)
    BY <2>1, <1>1, <1>7, <1>8 DEF HeadsFirst
  <2>2. CASE i = Len(queue) + 1
    BY <2>2, <1>5, <1>6, <1>7
  <2> QED  BY <2>1, <2>2, <1>7
<1>14. Snapshot'
  BY <1>3, <1>11 DEF IInv, Snapshot
<1>15. Progress'
  <2>1. \A p : Active => WalkAt(p)' = WalkAt(p)
    BY <1>3, <1>11 DEF WalkAt
  <2>2. Active => queue # <<>>
    BY <1>1 DEF Phases
  <2> QED  BY <1>3, <1>9, <1>11, <2>1, <2>2 DEF IInv, Progress
<1>16. Distinct' /\ BindingsMatchApi'
  BY <1>3 DEF IInv, Distinct, BindingsMatchApi, Unbound
<1> QED  BY <1>10, <1>12, <1>13, <1>14, <1>15, <1>16 DEF IInv

\* Freeing the dispatcher while no moment is handled.
LEMMA FreeStep ==
    ASSUME IInv, FreeDispatcher, ~Active, destroy_pending' \in BOOLEAN,
           UNCHANGED <<running, binding, fault, called, atStart>>
    PROVE  IInv'
<1>1. TypeOK'
  BY EmptySeq DEF IInv, TypeOK, FreeDispatcher, PC
<1>2. \A e \in Ev : binds'[e] = <<>> /\ wanted'[e] = {}
  BY DEF FreeDispatcher
<1>3. queue' = <<>> /\ pc' = "destroyed"
  BY DEF FreeDispatcher
<1>4. Distinct' /\ Phases' /\ HeadsFirst' /\ Snapshot' /\ Progress'
  BY <1>2, <1>3 DEF IInv, Active, Distinct, Phases, HeadsFirst, Snapshot, Progress
<1>5. BindingsMatchApi'
  <2>1. \A e \in Ev : Matches(binds'[e], wanted'[e]) /\ Settled(binds'[e])
    BY <1>2 DEF Matches, Settled
  <2> QED  BY <1>1, <1>4, <2>1, MatchNext
<1> QED  BY <1>1, <1>4, <1>5 DEF IInv

LEMMA DestroyStep ==
    ASSUME IInv, Destroy
    PROVE  IInv'
<1>1. CASE running = None
  <2>1. ~Active
    BY <1>1, EventingAssumption DEF IInv, Phases
  <2> QED  BY <1>1, <2>1, FreeStep DEF Destroy, IInv, TypeOK
<1>2. CASE running # None
  BY <1>2, QuietStep DEF Destroy, IInv, TypeOK
<1> QED  BY <1>1, <1>2

LEMMA EndDispatchStep ==
    ASSUME IInv, EndDispatch
    PROVE  IInv'
<1>1. pc = "dispatch" /\ UNCHANGED <<running, binding, destroy_pending, fault, called, atStart>>
  BY DEF EndDispatch
<1>2. ~Active
  BY <1>1 DEF Active
<1>3. CASE FreeDispatcher
  BY <1>1, <1>2, <1>3, FreeStep DEF IInv, TypeOK
<1>4. CASE pc' = "idle" /\ UNCHANGED <<queue, events, binds, wanted>>
  <2>1. ~Active' /\ TypeOK'
    BY <1>1, <1>4 DEF IInv, TypeOK, PC, Active
  <2>2. Distinct' /\ Phases' /\ HeadsFirst' /\ Snapshot' /\ Progress'
    BY <1>1, <1>2, <1>4, <2>1 DEF IInv, Active, Distinct, Phases, HeadsFirst, Snapshot, Progress
  <2>3. BindingsMatchApi'
    BY <1>1, <1>4 DEF IInv, BindingsMatchApi, Unbound
  <2> QED  BY <2>1, <2>2, <2>3 DEF IInv
<1> QED  BY <1>3, <1>4 DEF EndDispatch

LEMMA ReportResultStep ==
    ASSUME IInv, ReportResult
    PROVE  IInv'
<1>1. /\ pc = "fetch" /\ fault = "none" /\ binding = None /\ pc' = "result"
      /\ UNCHANGED <<events, binds, queue, running, binding, destroy_pending, fault,
                     called, atStart, wanted>>
  BY DEF ReportResult
<1>2. TypeOK' /\ Active /\ Active'
  BY <1>1 DEF IInv, TypeOK, PC, Active
<1>3. Distinct' /\ Phases' /\ HeadsFirst' /\ Snapshot'
  BY <1>1, <1>2 DEF IInv, Active, Distinct, Phases, HeadsFirst, Snapshot
<1>4. Progress'
  BY <1>1, <1>2 DEF IInv, Progress
<1>5. BindingsMatchApi'
  BY <1>1 DEF IInv, BindingsMatchApi, Unbound
<1> QED  BY <1>2, <1>3, <1>4, <1>5 DEF IInv

\* Where the walk goes from node p.
LEMMA NodeAfter ==
    ASSUME TypeOK, Distinct, NEW e \in Ev, NEW p \in 1 .. Len(binds[e])
    PROVE  After(e, binds[e][p].cb) = IF p < Len(binds[e]) THEN binds[e][p + 1].cb ELSE None
<1>1. Len(binds[e]) \in Nat /\ DOMAIN binds[e] = 1 .. Len(binds[e])
  BY Lists
<1>2. Position(e, binds[e][p].cb) = p
  BY <1>1 DEF Position, Distinct
<1> QED  BY <1>1, <1>2 DEF After

\* The walk goes to the next node, with all that was bound at the start and
\* comes before it called.
LEMMA WalkMoves ==
    ASSUME IInv, Active, fault = "none",
           NEW p \in 1 .. Len(binds[running]), binds[running][p].cb = binding,
           queue[1].head # None,
           Len(called) = IF p =< Len(atStart) THEN p ELSE Len(atStart),
           binding' = After(running, binding), pc' = "fetch",
           UNCHANGED <<events, binds, queue, running, destroy_pending, fault,
                       called, atStart, wanted>>
    PROVE  IInv'
<1>1. TypeOK /\ Distinct /\ Phases /\ Snapshot /\ Progress /\ running \in Ev
  BY DEF IInv, Phases
<1>2. /\ Len(binds[running]) \in Nat /\ DOMAIN binds[running] = 1 .. Len(binds[running])
      /\ \A i \in 1 .. Len(binds[running]) : binds[running][i] \in Binding
      /\ Len(atStart) \in Nat /\ Len(called) \in Nat
  BY <1>1, Lists, LenProperties DEF TypeOK
<1>3. binding' = IF p < Len(binds[running]) THEN binds[running][p + 1].cb ELSE None
  BY <1>1, NodeAfter
<1>4. binding' \in Cb \cup {None}
  BY <1>2, <1>3 DEF Binding
<1>5. TypeOK' /\ Active'
  BY <1>1, <1>4 DEF TypeOK, PC, Active
<1>6. Distinct' /\ Phases' /\ HeadsFirst' /\ Snapshot'
  BY <1>5 DEF IInv, Active, Distinct, Phases, HeadsFirst, Snapshot
<1>7. Progress'
  <2>1. /\ Len(called) =< Len(atStart) /\ Len(atStart) =< Len(binds[running])
        /\ \A i \in DOMAIN called : called[i] = atStart[i]
    BY <1>1 DEF Progress, Snapshot
  <2>2. CASE p < Len(binds[running])
    <3>1. /\ p + 1 \in DOMAIN binds[running] /\ binding' = binds[running][p + 1].cb
          /\ binding' # None
      BY <1>2, <1>3, <2>2, EventingAssumption DEF Binding
    <3>2. Len(called) = IF p + 1 =< Len(atStart) THEN (p + 1) - 1 ELSE Len(atStart)
      BY <1>2, <2>1
    <3>3. WalkAt(p + 1)'
      BY <3>1, <3>2 DEF WalkAt
    <3> QED  BY <2>1, <3>1, <3>3 DEF Progress
  <2>3. CASE p = Len(binds[running])
    <3>1. binding' = None /\ Len(called) = Len(atStart)
      BY <1>2, <1>3, <2>1, <2>3
    <3> QED  BY <2>1, <3>1 DEF Progress
  <2> QED  BY <1>2, <2>2, <2>3
<1>8. BindingsMatchApi'
  BY DEF IInv, BindingsMatchApi, Unbound
<1> QED  BY <1>5, <1>6, <1>7, <1>8 DEF IInv

\* The walk is at a node of the list.
LEMMA WalkIsAt ==
    ASSUME IInv, Active, fault # "moment", binding # None
    PROVE  /\ queue[1].head # None
           /\ \E p \in 1 .. Len(binds[running]) : WalkAt(p)
<1>1. running \in Ev /\ DOMAIN binds[running] = 1 .. Len(binds[running])
  BY Lists DEF IInv, Phases
<1> QED  BY <1>1 DEF IInv, Progress

LEMMA CallbackReturnsStep ==
    ASSUME IInv, CallbackReturns
    PROVE  IInv'
<1>1. pc = "calling" /\ fault = "none" /\ Active /\ binding # None
  BY DEF CallbackReturns, Active, IInv, Phases
<1>2. PICK p \in 1 .. Len(binds[running]) : WalkAt(p)
  BY <1>1, WalkIsAt
<1>3. binds[running][p].cb = binding /\ p =< Len(atStart) /\ Len(called) = p
  BY <1>1, <1>2 DEF WalkAt
<1>4. Len(called) = IF p =< Len(atStart) THEN p ELSE Len(atStart)
  BY <1>3
<1> QED  BY <1>1, <1>3, <1>4, WalkIsAt, WalkMoves DEF CallbackReturns

LEMMA FetchStep ==
    ASSUME IInv, Fetch
    PROVE  IInv'
<1>1. /\ pc = "fetch" /\ fault = "none" /\ Active /\ binding # None
      /\ UNCHANGED <<events, binds, queue, running, destroy_pending, fault, atStart, wanted>>
  BY DEF Fetch, Active
<1>2. PICK p \in 1 .. Len(binds[running]) : WalkAt(p)
  BY <1>1, WalkIsAt
<1>3. /\ binds[running][p].cb = binding
      /\ Len(called) = IF p =< Len(atStart) THEN p - 1 ELSE Len(atStart)
  BY <1>1, <1>2 DEF WalkAt
<1>4. /\ TypeOK /\ Distinct /\ Phases /\ Snapshot /\ Progress /\ running \in Ev
      /\ queue[1].head # None
  BY <1>1, WalkIsAt DEF IInv, Phases
<1>5. /\ Len(binds[running]) \in Nat /\ DOMAIN binds[running] = 1 .. Len(binds[running])
      /\ \A i \in 1 .. Len(binds[running]) : binds[running][i] \in Binding
      /\ Len(atStart) \in Nat /\ Len(called) \in Nat
      /\ called \in Seq(Cb) /\ DOMAIN called = 1 .. Len(called)
  BY <1>4, Lists, LenProperties DEF TypeOK
<1>6. Position(running, binding) = p
  BY <1>3, <1>4, <1>5 DEF Position, Distinct
<1>7. CASE p =< Len(atStart)
  <2>1. binds[running][p].normal_bound = TRUE /\ atStart[p] = binding
    BY <1>1, <1>3, <1>4, <1>5, <1>7 DEF Snapshot
  <2>2. pc' = "calling" /\ called' = Append(called, binding) /\ binding' = binding
    BY <1>6, <2>1 DEF Fetch
  <2>3. binding \in Cb
    BY <1>3, <1>5 DEF Binding
  <2>4. /\ called' \in Seq(Cb) /\ Len(called') = Len(called) + 1
        /\ \A i \in 1 .. Len(called) : called'[i] = called[i]
        /\ called'[Len(called) + 1] = binding
    BY <1>5, <2>2, <2>3, AppendProperties
  <2>5. DOMAIN called' = 1 .. Len(called')
    BY <2>4, LenProperties
  <2>6. TypeOK' /\ Active'
    BY <1>1, <1>4, <2>2, <2>4 DEF TypeOK, PC, Active
  <2>7. Distinct' /\ Phases' /\ HeadsFirst' /\ Snapshot'
    BY <1>1, <2>2, <2>6 DEF IInv, Active, Distinct, Phases, HeadsFirst, Snapshot
  <2>8. Progress'
    <3>1. Len(called') = p
      BY <1>3, <1>5, <1>7, <2>4
    <3>2. \A i \in DOMAIN called : called[i] = atStart[i]
      BY <1>1, <1>4 DEF Progress
    <3>3. \A i \in DOMAIN called' : called'[i] = atStart[i]
      <4> SUFFICES ASSUME NEW i \in 1 .. Len(called')
                   PROVE  called'[i] = atStart[i]
        BY <2>5
      <4>1. CASE i \in 1 .. Len(called)
        BY <4>1, <2>4, <3>2, <1>5
      <4>2. CASE i = Len(called) + 1
        BY <4>2, <2>1, <2>4, <3>1, <1>5
      <4> QED  BY <4>1, <4>2, <2>4, <1>5
    <3>4. WalkAt(p)'
      BY <1>1, <1>3, <1>7, <2>2, <3>1 DEF WalkAt
    <3> QED  BY <1>1, <1>4, <1>5, <1>7, <2>2, <3>1, <3>3, <3>4 DEF Progress
  <2>9. BindingsMatchApi'
    BY <1>1 DEF IInv, BindingsMatchApi, Unbound
  <2> QED  BY <2>6, <2>7, <2>8, <2>9 DEF IInv
<1>8. CASE ~(p =< Len(atStart))
  <2>1. binds[running][p].normal_bound = FALSE
    BY <1>1, <1>4, <1>5, <1>8 DEF Snapshot
  <2>2. pc' = pc /\ called' = called /\ binding' = After(running, binding)
    BY <1>6, <2>1 DEF Fetch
  <2>3. Len(called) = IF p =< Len(atStart) THEN p ELSE Len(atStart)
    BY <1>3, <1>8
  <2> QED  BY <1>1, <1>3, <1>4, <2>2, <2>3, WalkMoves
<1> QED  BY <1>7, <1>8

\* Marking all nodes of a list normal_bound.
Normal(bs) == [i \in DOMAIN bs |-> [bs[i] EXCEPT !.normal_bound = TRUE]]

LEMMA MarkAll ==
    ASSUME NEW bs \in Seq(Binding), NEW cs, cs = Normal(bs)
    PROVE  /\ cs \in Seq(Binding) /\ Len(cs) = Len(bs)
           /\ \A i \in 1 .. Len(bs) : /\ cs[i].cb = bs[i].cb /\ cs[i].unbound = bs[i].unbound
                                      /\ cs[i].normal_bound = TRUE
<1>1. /\ Len(bs) \in Nat /\ DOMAIN bs = 1 .. Len(bs)
      /\ \A i \in 1 .. Len(bs) : bs[i] \in Binding
  BY LenProperties, ElementOfSeq
<1> DEFINE F(i) == [bs[i] EXCEPT !.normal_bound = TRUE]
<1>2. ASSUME NEW i \in 1 .. Len(bs)
      PROVE  /\ F(i) \in Binding /\ F(i).cb = bs[i].cb /\ F(i).unbound = bs[i].unbound
             /\ F(i).normal_bound = TRUE
  BY <1>1 DEF Binding
<1>3. cs = [i \in 1 .. Len(bs) |-> F(i)]
  BY <1>1 DEF Normal
<1> HIDE DEF F
<1>4. cs \in [1 .. Len(bs) -> Binding]
  BY <1>2, <1>3
<1>5. cs \in Seq(Binding) /\ Len(cs) = Len(bs)
  BY <1>1, <1>4, AsSequence
<1> QED  BY <1>2, <1>3, <1>5

LEMMA StartMomentStep ==
    ASSUME IInv, StartMoment
    PROVE  IInv'
<1>1. TypeOK /\ Distinct /\ Phases /\ HeadsFirst /\ BindingsMatchApi
  BY DEF IInv
<1>2. /\ queue \in Seq(Moment) /\ Len(queue) \in Nat /\ Len(queue) > 0
      /\ DOMAIN queue = 1 .. Len(queue) /\ Head(queue) = queue[1] /\ queue[1] \in Moment
  <2>1. queue \in Seq(Moment) /\ queue # <<>>
    BY <1>1 DEF StartMoment, TypeOK
  <2>2. Len(queue) \in Nat /\ Len(queue) > 0 /\ DOMAIN queue = 1 .. Len(queue)
    BY <2>1, EmptySeq, LenProperties
  <2> QED  BY <2>1, <2>2, ElementOfSeq
<1>3. PICK e \in Ev : e = queue[1].ev
  BY <1>2 DEF Moment
<1>4. PICK bs \in Seq(Binding) : bs = binds[e]
  BY <1>1, Lists
<1>5. PICK cs : cs = Normal(bs)
  OBVIOUS
<1>6. /\ running' = e /\ binds' = [binds EXCEPT ![e] = cs] /\ binding' = queue[1].head
      /\ fault' = IF queue[1].stale THEN "moment" ELSE "none"
      /\ atStart' = Callbacks(bs) /\ called' = <<>> /\ pc' = "fetch"
      /\ UNCHANGED <<events, queue, destroy_pending, wanted>>
      /\ pc = "dispatch"
  BY <1>2, <1>3, <1>4, <1>5 DEF StartMoment, Normal
<1>7. /\ cs \in Seq(Binding) /\ Len(cs) = Len(bs)
      /\ \A i \in 1 .. Len(bs) : /\ cs[i].cb = bs[i].cb /\ cs[i].unbound = bs[i].unbound
                                 /\ cs[i].normal_bound = TRUE
  BY <1>5, MarkAll
<1>8. /\ Len(bs) \in Nat /\ DOMAIN bs = 1 .. Len(bs) /\ DOMAIN cs = 1 .. Len(bs)
      /\ \A i \in 1 .. Len(bs) : bs[i] \in Binding
  BY <1>7, LenProperties, ElementOfSeq
<1>9. /\ atStart' \in Seq(Cb) /\ Len(atStart') = Len(bs)
      /\ \A i \in 1 .. Len(bs) : atStart'[i] = bs[i].cb
  <2>1. /\ atStart' \in [1 .. Len(bs) -> Cb]
        /\ \A i \in 1 .. Len(bs) : atStart'[i] = bs[i].cb
    BY <1>6, <1>8 DEF Callbacks, Binding
  <2> QED  BY <1>8, <2>1, AsSequence
<1>10. /\ binds' \in [Ev -> Seq(Binding)] /\ binds'[e] = cs
       /\ \A f \in Ev \ {e} : binds'[f] = binds[f]
  BY <1>1, <1>6, <1>7 DEF TypeOK
<1>11. TypeOK'
  <2>1. called' \in Seq(Cb)
    BY <1>6, EmptySeq
  <2>2. fault' \in {"none", "unbind", "moment"} /\ binding' \in Cb \cup {None} /\ pc' \in PC
    BY <1>2, <1>6 DEF Moment, PC
  <2> QED  BY <1>1, <1>6, <1>9, <1>10, <2>1, <2>2 DEF TypeOK
<1>12. Distinct'
  BY <1>1, <1>4, <1>7, <1>8, <1>10 DEF Distinct
<1>13. Active' /\ Phases'
  <2>1. queue # <<>>
    BY DEF StartMoment
  <2> QED  BY <1>3, <1>6, <2>1 DEF Phases, Active
<1>14. HeadsFirst'
  <2> SUFFICES ASSUME NEW i \in 1 .. Len(queue), queue[i].stale = FALSE, queue[i].head # None
               PROVE  /\ Len(binds'[queue[i].ev]) > 0
                      /\ binds'[queue[i].ev][1].cb = queue[i].head
    BY <1>2, <1>6 DEF HeadsFirst
  <2>1. PICK f \in Ev : f = queue[i].ev
    BY <1>2, Moments DEF Moment
  <2>2. Len(binds[f]) > 0 /\ binds[f][1].cb = queue[i].head
    BY <1>1, <1>2, <2>1 DEF HeadsFirst
  <2> QED  BY <1>4, <1>7, <1>8, <1>10, <2>1, <2>2
<1>15. Snapshot'
  <2>1. binds'[running'] = cs /\ Len(cs) = Len(bs) /\ Len(atStart') = Len(bs)
    BY <1>6, <1>7, <1>9, <1>10
  <2>2. \A i \in 1 .. Len(bs) : cs[i].cb = atStart'[i] /\ cs[i].normal_bound = TRUE
    BY <1>7, <1>9
  <2> QED  BY <1>8, <2>1, <2>2 DEF Snapshot
<1>16. Progress'
  <2> SUFFICES ASSUME fault' # "moment", queue[1].head # None
               PROVE  /\ Len(called') =< Len(atStart')
                      /\ \A i \in DOMAIN called' : called'[i] = atStart'[i]
                      /\ binding' # None
                      /\ \E p \in DOMAIN binds'[running'] : WalkAt(p)'
    BY <1>6 DEF Progress
  <2>1. queue[1].stale = FALSE
    BY <1>2, <1>6 DEF Moment
  <2>2. Len(bs) > 0 /\ bs[1].cb = queue[1].head
    BY <1>1, <1>2, <1>3, <1>4, <2>1 DEF HeadsFirst
  <2>3. Len(called') = 0 /\ DOMAIN called' = {}
    BY <1>6
  <2>4. 1 \in DOMAIN binds'[running'] /\ binds'[running'][1].cb = binding'
    BY <1>6, <1>7, <1>8, <1>10, <2>2
  <2>5. WalkAt(1)'
    BY <1>6, <1>8, <1>9, <2>2, <2>3, <2>4 DEF WalkAt
  <2> QED  BY <1>6, <1>8, <1>9, <2>2, <2>3, <2>4, <2>5
<1>17. BindingsMatchApi'
  <2>1. \A f \in Ev : Matches(binds[f], wanted[f]) /\ (f # running => Settled(binds[f]))
    BY <1>1, MatchNow
  <2>2. running = None
    BY <1>1, <1>6 DEF Phases, Active
  <2>3. Matches(cs, wanted[e])
    BY <1>4, <1>7, <2>1 DEF Matches
  <2>4. \A f \in Ev : Matches(binds'[f], wanted'[f]) /\ (f # running' => Settled(binds'[f]))
    BY <1>6, <1>10, <2>1, <2>2, <2>3, EventingAssumption
  <2> QED  BY <1>11, <1>12, <2>4, MatchNext
<1> QED  BY <1>11, <1>12, <1>13, <1>14, <1>15, <1>16, <1>17 DEF IInv

LEMMA EndMomentStep ==
    ASSUME IInv, EndMoment
    PROVE  IInv'
<1>1. TypeOK /\ Distinct /\ Phases /\ HeadsFirst /\ BindingsMatchApi
  BY DEF IInv
<1>2. /\ pc = "result" /\ fault = "none" /\ Active
      /\ running' = None /\ pc' = "dispatch"
      /\ UNCHANGED <<events, binding, destroy_pending, fault, called, atStart, wanted>>
  BY DEF EndMoment, Active
<1>3. PICK e \in Ev : e = running
  BY <1>1, <1>2 DEF Phases
<1>4. PICK cbs : cbs = Unbound(e)
  OBVIOUS
<1>5. binds' = [binds EXCEPT ![e] = Without(@, cbs)] /\ queue' = Freed(Tail(queue), e, cbs)
  BY <1>3, <1>4 DEF EndMoment
<1>6. /\ queue \in Seq(Moment) /\ Len(queue) \in Nat /\ Len(queue) > 0
      /\ DOMAIN queue = 1 .. Len(queue)
      /\ Tail(queue) \in Seq(Moment) /\ Len(Tail(queue)) = Len(queue) - 1
      /\ \A i \in 1 .. Len(queue) - 1 : Tail(queue)[i] = queue[i + 1]
  <2>1. queue \in Seq(Moment) /\ queue # <<>>
    BY <1>1, <1>2 DEF Phases, TypeOK
  <2>2. Len(queue) \in Nat /\ Len(queue) > 0 /\ DOMAIN queue = 1 .. Len(queue)
    BY <2>1, EmptySeq, LenProperties
  <2> QED  BY <2>1, <2>2, HeadTailProperties
<1>7. PICK q \in Seq(Moment) : q = Tail(queue)
  BY <1>6
<1>8. \A i \in 1 .. Len(q) : q[i].stale = FALSE /\ q[i].head # None =>
            Len(binds[q[i].ev]) > 0 /\ binds[q[i].ev][1].cb = q[i].head
  <2> SUFFICES ASSUME NEW i \in 1 .. Len(q), q[i].stale = FALSE, q[i].head # None
               PROVE  Len(binds[q[i].ev]) > 0 /\ binds[q[i].ev][1].cb = q[i].head
    OBVIOUS
  <2>1. i + 1 \in DOMAIN queue /\ q[i] = queue[i + 1]
    BY <1>6, <1>7
  <2> QED  BY <1>1, <2>1 DEF HeadsFirst
<1>9. binds' \in [Ev -> Seq(Binding)] /\ queue' \in Seq(Moment) /\ Distinct' /\ HeadsFirst'
  BY <1>1, <1>5, <1>7, <1>8, RemovalKeeps
<1>10. TypeOK' /\ ~Active'
  BY <1>1, <1>2, <1>9 DEF TypeOK, PC, Active
<1>11. Phases' /\ Snapshot' /\ Progress'
  BY <1>2, <1>10 DEF Phases, Snapshot, Progress
<1>12. BindingsMatchApi'
  <2>1. PICK bs \in Seq(Binding) : bs = binds[e]
    BY <1>1, Lists
  <2>2. PICK cs : cs = Without(bs, cbs)
    OBVIOUS
  <2>3. /\ cs \in Seq(Binding)
        /\ \A k \in DOMAIN cs : \E p \in DOMAIN bs : cs[k] = bs[p] /\ bs[p].cb \notin cbs
        /\ \A p \in DOMAIN bs : bs[p].cb \notin cbs => \E k \in DOMAIN cs : cs[k] = bs[p]
    <3>1. Remains(bs, cbs, cs)
      BY <2>2, WithoutFacts
    <3> QED  BY <3>1 DEF Remains
  <2>4. /\ DOMAIN bs = 1 .. Len(bs) /\ DOMAIN cs = 1 .. Len(cs)
        /\ \A i \in 1 .. Len(bs) : bs[i] \in Binding
    BY <2>3, LenProperties, ElementOfSeq
  <2>5. \A c : c \in cbs <=> \E i \in 1 .. Len(bs) : bs[i].cb = c /\ bs[i].unbound = TRUE
    BY <1>1, <1>4, <2>1, PendingUnbinds
  <2>6. \A i, j \in 1 .. Len(bs) : bs[i].cb = bs[j].cb => i = j
    BY <1>1, <2>1, <2>4 DEF Distinct
  <2>7. \A i \in 1 .. Len(bs) : bs[i].cb \notin cbs <=> bs[i].unbound = FALSE
    BY <2>4, <2>5, <2>6 DEF Binding
  <2>8. \A f \in Ev : Matches(binds[f], wanted[f]) /\ (f # running => Settled(binds[f]))
    BY <1>1, MatchNow
  <2>9. Settled(cs)
    <3> SUFFICES ASSUME NEW k \in 1 .. Len(cs)
                 PROVE  cs[k].unbound = FALSE
      BY DEF Settled
    <3>1. PICK p \in DOMAIN bs : cs[k] = bs[p] /\ bs[p].cb \notin cbs
      BY <2>3, <2>4
    <3> QED  BY <2>4, <2>7, <3>1
  <2>10. Matches(cs, wanted[e])
    <3> SUFFICES ASSUME NEW c
                 PROVE  c \in wanted[e] <=> \E k \in 1 .. Len(cs) : cs[k].cb = c /\ cs[k].unbound = FALSE
      BY DEF Matches
    <3>1. c \in wanted[e] <=> \E i \in 1 .. Len(bs) : bs[i].cb = c /\ bs[i].unbound = FALSE
      BY <2>1, <2>8 DEF Matches
    <3>2. ASSUME NEW i \in 1 .. Len(bs), bs[i].cb = c, bs[i].unbound = FALSE
          PROVE  \E k \in 1 .. Len(cs) : cs[k].cb = c /\ cs[k].unbound = FALSE
      <4>1. PICK k \in DOMAIN cs : cs[k] = bs[i]
        BY <3>2, <2>3, <2>4, <2>7
      <4> QED  BY <3>2, <4>1, <2>4
    <3>3. ASSUME NEW k \in 1 .. Len(cs), cs[k].cb = c, cs[k].unbound = FALSE
          PROVE  \E i \in 1 .. Len(bs) : bs[i].cb = c /\ bs[i].unbound = FALSE
      <4>1. PICK i \in DOMAIN bs : cs[k] = bs[i]
        BY <2>3, <2>4
      <4> QED  BY <3>3, <4>1, <2>4
    <3> QED  BY <3>1, <3>2, <3>3
  <2>11. binds'[e] = cs /\ \A f \in Ev \ {e} : binds'[f] = binds[f]
    BY <1>1, <1>5, <2>1, <2>2 DEF TypeOK
  <2>12. \A f \in Ev : Matches(binds'[f], wanted'[f]) /\ (f # running' => Settled(binds'[f]))
    BY <1>2, <1>3, <2>8, <2>9, <2>10, <2>11
  <2> QED  BY <1>9, <1>10, <2>12, MatchNext
<1> QED  BY <1>9, <1>10, <1>11, <1>12 DEF IInv

LEMMA NextIInv == IInv /\ [Next]_vars => IInv'
<1> SUFFICES ASSUME IInv, [Next]_vars
             PROVE  IInv'
  OBVIOUS
<1>1. ASSUME NEW e \in Ev, CreateEvent(e)
      PROVE  IInv'
  BY <1>1, QuietStep DEF CreateEvent, IInv, TypeOK
<1>2. CASE UNCHANGED vars
  BY <1>2, QuietStep DEF vars, IInv, TypeOK
<1>3. CASE Dispatching
  BY <1>3, StartMomentStep, FetchStep, CallbackReturnsStep, ReportResultStep, EndMomentStep,
     EndDispatchStep DEF Dispatching
<1> QED
  BY <1>1, <1>2, <1>3, TriggerStep, BindStep, UnbindStep, DestroyStep DEF Next

LEMMA Always == Spec => []IInv
  BY InitIInv, NextIInv, PTL DEF Spec

------------------------------------------------------------------------------
\* All variables of the dispatcher keep their types: among them, no node that
\* ls_event_bind makes has an unset field, and the node that is looked at is
\* one of a callback or NULL.
THEOREM TypeCorrect == Spec => []TypeOK
<1>1. IInv => TypeOK
  BY DEF IInv
<1> QED  BY <1>1, Always, PTL

\* Whatever the callbacks bind and unbind, the node _handle_trigger_int is at
\* stays in the list.
THEOREM Walk == Spec => []WalkIsSafe
<1>1. IInv => WalkIsSafe
  <2> SUFFICES ASSUME IInv, pc \in {"fetch", "calling"}, fault = "none", binding # None
               PROVE  IsBound(running, binding)
    BY DEF WalkIsSafe
  <2>1. Active /\ fault # "moment" /\ running \in Ev /\ TypeOK
    BY DEF Active, IInv, Phases
  <2>2. PICK p \in 1 .. Len(binds[running]) : WalkAt(p)
    BY <2>1, WalkIsAt
  <2> QED  BY <2>1, <2>2, Bound DEF WalkAt
<1> QED  BY <1>1, Always, PTL

\* A moment calls the callbacks bound when it began, each once and in order,
\* whatever they do to the lists meanwhile.
THEOREM Calls == Spec => []CallsEachOnce
<1>1. IInv => CallsEachOnce
  <2> SUFFICES ASSUME IInv, pc = "result"
               PROVE  called = IF Head(queue).head = None THEN <<>> ELSE atStart
    BY DEF CallsEachOnce
  <2>1. Active /\ fault # "moment" /\ binding = None /\ queue # <<>>
    BY DEF Active, IInv, Phases
  <2>2. Head(queue) = queue[1]
    BY <2>1, HeadTailProperties DEF IInv, TypeOK
  <2>3. CASE queue[1].head = None
    BY <2>1, <2>2, <2>3 DEF IInv, Progress
  <2>4. CASE queue[1].head # None
    <3>1. called \in Seq(Cb) /\ atStart \in Seq(Cb)
      BY DEF IInv, TypeOK
    <3>2. Len(called) = Len(atStart) /\ \A i \in DOMAIN called : called[i] = atStart[i]
      BY <2>1, <2>4 DEF IInv, Progress
    <3>3. called = atStart
      BY <3>1, <3>2, SeqEqual, LenProperties
    <3> QED  BY <2>2, <2>4, <3>3
  <2> QED  BY <2>3, <2>4
<1> QED  BY <1>1, Always, PTL

\* The lists hold what ls_event_bind and ls_event_unbind asked for, also when
\* an unbind had to wait for the end of the running event.
THEOREM Match == Spec => []BindingsMatchApi
<1>1. IInv => BindingsMatchApi
  BY DEF IInv
<1> QED  BY <1>1, Always, PTL

------------------------------------------------------------------------------
(***************************************************************************)
(* What DestroyHappens rests on: a destroy that had to wait is seen by the *)
(* dispatching that is on the stack, which starts nothing more.            *)
(***************************************************************************)

\* A destroy waits only while a trigger is on the stack; when none is, no
\* moment is left behind.
DestroyIsSeen ==
    /\ destroy_pending => pc # "idle"
    /\ pc = "idle" => queue = <<>>

\* Once a destroy waits, no other event is started and no destroy forgotten.
NothingStarted ==
    [][destroy_pending => destroy_pending' /\ running' \in {running, None}]_vars

LEMMA SeenAlways == Spec => []DestroyIsSeen
<1>1. Init => DestroyIsSeen
  BY DEF Init, DestroyIsSeen
<1>2. IInv /\ DestroyIsSeen /\ [Next]_vars => DestroyIsSeen'
  <2> SUFFICES ASSUME IInv, DestroyIsSeen, [Next]_vars PROVE DestroyIsSeen'
    OBVIOUS
  <2>1. ASSUME UNCHANGED <<destroy_pending, pc, queue>> PROVE DestroyIsSeen'
    BY <2>1 DEF DestroyIsSeen
  <2>2. ASSUME pc' # "idle" PROVE DestroyIsSeen'
    BY <2>2 DEF DestroyIsSeen
  <2>3. ASSUME NEW e \in Ev, CreateEvent(e) \/ \E cb \in Cb : Bind(e, cb)
        PROVE  DestroyIsSeen'
    BY <2>1, <2>3 DEF CreateEvent, Bind
  <2>4. ASSUME NEW e \in Ev, Trigger(e)
        PROVE  DestroyIsSeen'
    BY <2>2, <2>4 DEF Trigger, IInv, Phases, Active
  <2>5. ASSUME NEW e \in Ev, NEW cb \in Cb, Unbind(e, cb)
        PROVE  DestroyIsSeen'
    <3>1. UNCHANGED <<pc, destroy_pending>> /\ (queue' = queue \/ queue' = Freed(queue, e, {cb}))
      BY <2>5 DEF Unbind
    <3>2. CASE pc = "idle"
      <4>1. queue = <<>> /\ DOMAIN queue = {} /\ queue \in Seq(Moment)
        BY <3>2 DEF DestroyIsSeen, IInv, TypeOK
      <4>2. Freed(queue, e, {cb}) = <<>>
        <5>1. PICK r : r = Freed(queue, e, {cb})
          OBVIOUS
        <5>2. Marks(queue, e, {cb}, r)
          BY <4>1, <5>1, FreedFacts
        <5>3. r \in Seq(Moment) /\ Len(r) = 0
          BY <4>1, <5>2 DEF Marks
        <5> QED  BY <5>1, <5>3, EmptySeq
      <4> QED  BY <2>1, <3>1, <4>1, <4>2
    <3> QED  BY <2>2, <3>1, <3>2
  <2>6. CASE Destroy
    BY <2>6 DEF Destroy, FreeDispatcher, DestroyIsSeen, IInv, Phases, Active
  <2>7. CASE StartMoment \/ Fetch \/ CallbackReturns \/ ReportResult \/ EndMoment
    BY <2>2, <2>7 DEF StartMoment, Fetch, CallbackReturns, ReportResult, EndMoment
  <2>8. CASE EndDispatch
    BY <2>8 DEF EndDispatch, FreeDispatcher, DestroyIsSeen
  <2>9. CASE UNCHANGED vars
    BY <2>1, <2>9 DEF vars
  <2> QED  BY <2>3, <2>4, <2>5, <2>6, <2>7, <2>8, <2>9 DEF Next, Dispatching
<1> QED  BY <1>1, <1>2, Always, PTL DEF Spec

\* ls_event_dispatcher_destroy called from a callback is not lost: as long as
\* it waits, _dispatch_trigger is on the stack and has yet to look at
\* destroy_pending, and it starts none of the events that are queued.
THEOREM DestroyIsNotLost == Spec => []DestroyIsSeen /\ NothingStarted
<1>1. IInv /\ [Next]_vars => [destroy_pending => destroy_pending' /\ running' \in {running, None}]_vars
  <2> SUFFICES ASSUME IInv, Next, destroy_pending
               PROVE  destroy_pending' /\ running' \in {running, None}
    OBVIOUS
  <2>1. CASE \E e \in Ev : CreateEvent(e) \/ Trigger(e) \/ \E cb \in Cb : Bind(e, cb) \/ Unbind(e, cb)
    BY <2>1 DEF CreateEvent, Trigger, Bind, Unbind
  <2>2. CASE Destroy
    BY <2>2 DEF Destroy
  <2>3. CASE Dispatching
    BY <2>3 DEF Dispatching, StartMoment, Fetch, CallbackReturns, ReportResult, EndMoment, EndDispatch
  <2> QED  BY <2>1, <2>2, <2>3 DEF Next
<1> QED  BY <1>1, SeenAlways, Always, PTL DEF Spec, NothingStarted

------------------------------------------------------------------------------
(***************************************************************************)
(* What an application has to keep to, so that the two faults that         *)
(* events_unbind and events_stale show cannot happen.                      *)
(***************************************************************************)

\* Of the running event only what is bound is unbound.
UnbindsWhatIsBound ==
    [][\A e \in Ev, cb \in Cb : Unbind(e, cb) /\ e = running => cb \in wanted[e]]_vars

\* A moment that waits starts at a callback the application wants bound.
HeadsAreWanted ==
    \A i \in DOMAIN queue :
        queue[i].head # None /\ (i = 1 => ~Active) => queue[i].head \in wanted[queue[i].ev]

NoneStale == \A i \in 1 .. Len(queue) : queue[i].stale = FALSE

\* An application that unbinds from the running event only what it has bound to
\* it never makes ls_event_unbind walk off the end of the list: until the event
\* is done, every callback that is wanted has its node.
THEOREM UnbindIsSafe == Spec /\ UnbindsWhatIsBound => []UnbindIsHarmless
<1> DEFINE Kept == \A e \in Ev, cb \in Cb : Unbind(e, cb) /\ e = running => cb \in wanted[e]
<1>1. Init => UnbindIsHarmless
  BY DEF Init, UnbindIsHarmless
<1>2. IInv /\ UnbindIsHarmless /\ [Next]_vars /\ [Kept]_vars => UnbindIsHarmless'
  <2> SUFFICES ASSUME IInv, UnbindIsHarmless, [Next]_vars, [Kept]_vars
               PROVE  UnbindIsHarmless'
    OBVIOUS
  <2>1. CASE UNCHANGED vars
    BY <2>1 DEF vars, UnbindIsHarmless
  <2>2. ASSUME NEW e \in Ev, NEW cb \in Cb, Unbind(e, cb)
        PROVE  UnbindIsHarmless'
    <3>1. CASE IsBound(e, cb) \/ e # running
      BY <2>2, <3>1 DEF Unbind, UnbindIsHarmless
    <3>2. CASE ~IsBound(e, cb) /\ e = running
      <4>1. cb \notin wanted[e]
        BY <3>2 DEF IInv, BindingsMatchApi, IsBound
      <4> QED  BY <2>1, <2>2, <3>2, <4>1
    <3> QED  BY <3>1, <3>2
  <2>3. CASE \E e \in Ev : CreateEvent(e) \/ Trigger(e) \/ \E cb \in Cb : Bind(e, cb)
    BY <2>3 DEF CreateEvent, Trigger, Bind, UnbindIsHarmless
  <2>4. CASE Destroy \/ Dispatching
    BY <2>4 DEF Destroy, Dispatching, StartMoment, Fetch, CallbackReturns, ReportResult, EndMoment,
                EndDispatch, UnbindIsHarmless
  <2> QED  BY <2>1, <2>2, <2>3, <2>4 DEF Next
<1> QED  BY <1>1, <1>2, Always, PTL DEF Spec, UnbindsWhatIsBound

\* Freeing nodes spares the moments that start elsewhere.
Spares(q, e, cbs, r) ==
    \A i \in 1 .. Len(q) :
        q[i].stale = FALSE /\ ~(q[i].ev = e /\ q[i].head \in cbs) => r[i].stale = FALSE

LEMMA FreedSpares ==
    ASSUME NEW q \in Seq(Moment), NEW e, NEW cbs, NEW r, r = Freed(q, e, cbs)
    PROVE  Spares(q, e, cbs, r)
<1> SUFFICES ASSUME NEW i \in 1 .. Len(q), q[i].stale = FALSE, ~(q[i].ev = e /\ q[i].head \in cbs)
             PROVE  r[i].stale = FALSE
  BY DEF Spares
<1>1. DOMAIN q = 1 .. Len(q) /\ q[i] \in Moment
  BY Moments
<1>2. r[i] = [q[i] EXCEPT !.stale = @ \/ (q[i].ev = e /\ q[i].head \in cbs)]
  BY <1>1 DEF Freed
<1> QED  BY <1>1, <1>2 DEF Moment

\* No step makes a moment stale, or starts one that is, as long as what the
\* moments start at is wanted.
LEMMA SoundStep ==
    ASSUME IInv, IInv', NoneStale, QueuedMomentsAreSound, HeadsAreWanted, HeadsAreWanted', [Next]_vars
    PROVE  NoneStale' /\ QueuedMomentsAreSound'
<1>1. queue \in Seq(Moment) /\ Len(queue) \in Nat /\ DOMAIN queue = 1 .. Len(queue)
  BY Moments DEF IInv, TypeOK
<1>2. ASSUME queue' = queue, fault' = fault PROVE NoneStale' /\ QueuedMomentsAreSound'
  BY <1>2 DEF NoneStale, QueuedMomentsAreSound
<1>3. ASSUME queue' = <<>>, fault' = fault PROVE NoneStale' /\ QueuedMomentsAreSound'
  <2>1. Len(queue') = 0
    BY <1>3
  <2> QED  BY <1>3, <2>1 DEF NoneStale, QueuedMomentsAreSound
<1>4. ASSUME NEW e \in Ev, CreateEvent(e) \/ \E cb \in Cb : Bind(e, cb)
      PROVE  NoneStale' /\ QueuedMomentsAreSound'
  BY <1>2, <1>4 DEF CreateEvent, Bind
<1>5. ASSUME NEW e \in Ev, Trigger(e)
      PROVE  NoneStale' /\ QueuedMomentsAreSound'
  <2>1. PICK m : m = [ev |-> e, head |-> First(e), stale |-> FALSE]
    OBVIOUS
  <2>2. queue' = Append(queue, m) /\ fault' = fault /\ m.stale = FALSE
    BY <1>5, <2>1 DEF Trigger
  <2>3. PICK q, r : q = queue /\ r = queue'
    OBVIOUS
  <2>4. q \in Seq(Moment) /\ r \in Seq(Moment) /\ r = Append(q, m)
    BY <1>1, <2>2, <2>3 DEF IInv, TypeOK
  <2>5. Len(q) \in Nat /\ Len(r) = Len(q) + 1 /\ r[Len(q) + 1] = m
        /\ \A i \in 1 .. Len(q) : r[i] = q[i]
    BY <2>4, AppendProperties, LenProperties
  <2>6. \A i \in 1 .. Len(r) : i \in 1 .. Len(q) \/ i = Len(q) + 1
    BY <2>5
  <2> QED  BY <2>2, <2>3, <2>5, <2>6 DEF NoneStale, QueuedMomentsAreSound
<1>6. ASSUME NEW e \in Ev, NEW cb \in Cb, Unbind(e, cb)
      PROVE  NoneStale' /\ QueuedMomentsAreSound'
  <2>1. CASE e = running
    BY <1>6, <2>1 DEF Unbind, NoneStale, QueuedMomentsAreSound
  <2>2. CASE e # running
    <3>1. PICK q, r : q = queue /\ r = queue'
      OBVIOUS
    <3>2. r = Freed(q, e, {cb}) /\ fault' = fault /\ wanted' = [wanted EXCEPT ![e] = @ \ {cb}]
          /\ UNCHANGED <<running, pc>>
      BY <1>6, <2>2, <3>1 DEF Unbind
    <3>3. q \in Seq(Moment) /\ Marks(q, e, {cb}, r) /\ Spares(q, e, {cb}, r)
      <4>1. q \in Seq(Moment) /\ r = Freed(q, e, {cb})
        BY <1>1, <3>1, <3>2
      <4> QED  BY ONLY <4>1, FreedFacts, FreedSpares
    <3>4. ASSUME NEW i \in 1 .. Len(q) PROVE ~(q[i].ev = e /\ q[i].head \in {cb})
      <4> SUFFICES ASSUME q[i].ev = e, q[i].head = cb PROVE FALSE
        OBVIOUS
      <4>1. i = 1 => ~Active'
        BY <2>2, <3>1, <3>2 DEF IInv, Phases, Active
      <4>2. i \in DOMAIN queue' /\ queue'[i].head = cb /\ queue'[i].ev = e
        BY <3>1, <3>3, Moments DEF Marks
      <4>3. cb # None
        BY EventingAssumption
      <4>4. cb \in wanted'[e]
        BY <4>1, <4>2, <4>3 DEF HeadsAreWanted
      <4> QED  BY <3>2, <4>4 DEF IInv, TypeOK
    <3>5. ASSUME NEW i \in 1 .. Len(r) PROVE r[i].stale = FALSE
      <4>1. i \in 1 .. Len(q) /\ q[i].stale = FALSE /\ q \in Seq(Moment)
        BY <1>1, <3>1, <3>3 DEF Marks, NoneStale
      <4> QED  BY <3>3, <3>4, <4>1 DEF Spares
    <3> QED  BY <3>1, <3>2, <3>5 DEF NoneStale, QueuedMomentsAreSound
  <2> QED  BY <2>1, <2>2
<1>7. CASE Destroy
  BY <1>2, <1>3, <1>7 DEF Destroy, FreeDispatcher
<1>8. CASE StartMoment
  <2>1. queue # <<>> /\ queue' = queue /\ fault' = IF Head(queue).stale THEN "moment" ELSE "none"
    BY <1>8 DEF StartMoment
  <2>2. Head(queue) = queue[1] /\ 1 \in 1 .. Len(queue)
    BY <1>1, <2>1
  <2>3. Head(queue).stale = FALSE
    BY <2>2 DEF NoneStale
  <2> QED  BY <2>1, <2>3 DEF NoneStale, QueuedMomentsAreSound
<1>9. CASE Fetch \/ CallbackReturns \/ ReportResult
  BY <1>2, <1>9 DEF Fetch, CallbackReturns, ReportResult
<1>10. CASE EndMoment
  <2>1. Active /\ running \in Ev /\ queue # <<>>
    BY <1>10 DEF EndMoment, Active, IInv, Phases
  <2>2. PICK t, u, r : t = Tail(queue) /\ u = Unbound(running) /\ r = queue'
    OBVIOUS
  <2>3. r = Freed(t, running, u) /\ fault' = fault
    BY <1>10, <2>2 DEF EndMoment
  <2>4. /\ t \in Seq(Moment) /\ Len(t) = Len(queue) - 1
        /\ \A i \in 1 .. Len(t) : t[i] = queue[i + 1]
    BY <1>1, <2>1, <2>2
  <2>5. Marks(t, running, u, r) /\ Spares(t, running, u, r) /\ Len(t) \in Nat
    BY <2>3, <2>4, FreedFacts, FreedSpares, LenProperties
  <2>6. ASSUME NEW i \in 1 .. Len(t)
        PROVE  t[i].stale = FALSE /\ ~(t[i].ev = running /\ t[i].head \in u)
    <3>1. i + 1 \in 1 .. Len(queue) /\ i + 1 # 1
      BY <1>1, <2>4, <2>5
    <3>2. t[i] = queue[i + 1]
      BY <2>4
    <3>3. queue[i + 1].stale = FALSE
      BY <3>1 DEF NoneStale
    <3>4. ASSUME queue[i + 1].ev = running, queue[i + 1].head \in u PROVE FALSE
      <4>1. queue[i + 1].head # None
        <5>1. u \subseteq Cb
          <6>1. \A cb : cb \in u <=>
                    \E j \in 1 .. Len(binds[running]) :
                        binds[running][j].cb = cb /\ binds[running][j].unbound = TRUE
            BY <2>1, <2>2, PendingUnbinds DEF IInv
          <6>2. \A j \in 1 .. Len(binds[running]) : binds[running][j].cb \in Cb
            BY <2>1, Lists DEF IInv, Binding
          <6> QED  BY <6>1, <6>2
        <5> QED  BY <3>4, <5>1, EventingAssumption
      <4>2. queue[i + 1].head \in wanted[running]
        BY <1>1, <3>1, <3>4, <4>1 DEF HeadsAreWanted
      <4>3. wanted[running] \cap u = {}
        BY <2>1, <2>2 DEF IInv, BindingsMatchApi
      <4> QED  BY <3>4, <4>2, <4>3
    <3> QED  BY <3>2, <3>3, <3>4
  <2>7. ASSUME NEW i \in 1 .. Len(r) PROVE r[i].stale = FALSE
    <3>1. i \in 1 .. Len(t)
      BY <2>5 DEF Marks
    <3> QED  BY <2>5, <2>6, <3>1 DEF Spares
  <2> QED  BY <2>2, <2>3, <2>7 DEF NoneStale, QueuedMomentsAreSound
<1>11. CASE EndDispatch
  BY <1>2, <1>3, <1>11 DEF EndDispatch, FreeDispatcher
<1>12. CASE UNCHANGED vars
  BY <1>2, <1>12 DEF vars
<1> QED  BY <1>4, <1>5, <1>6, <1>7, <1>8, <1>9, <1>10, <1>11, <1>12 DEF Next, Dispatching

\* An event that waits is fired on bindings that still exist, if the callback
\* that was first in its list when it was triggered stays bound until its turn
\* comes: unbinding any other, or one of an event that does not wait, is safe.
THEOREM WaitingIsSafe == Spec /\ []HeadsAreWanted => []QueuedMomentsAreSound
<1>1. Init => NoneStale /\ QueuedMomentsAreSound
  BY DEF Init, NoneStale, QueuedMomentsAreSound
<1>2. /\ IInv /\ IInv' /\ NoneStale /\ QueuedMomentsAreSound /\ HeadsAreWanted /\ HeadsAreWanted'
      /\ [Next]_vars
      => NoneStale' /\ QueuedMomentsAreSound'
  BY SoundStep
<1> QED  BY <1>1, <1>2, Always, PTL DEF Spec
=============================================================================
