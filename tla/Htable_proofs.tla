---------------------------- MODULE Htable_proofs ----------------------------
(***************************************************************************)
(* Proofs about Htable, for any keys with any spelling and hash, any       *)
(* values, any number of buckets and any bound on the entries: the table   *)
(* holds an entry once and in its bucket, an undisturbed iteration or walk *)
(* reaches every entry, only the callback of a walk can free the node the  *)
(* walk stands on, and what ls_htable_get finds is a map.                  *)
(***************************************************************************)
EXTENDS Htable, Recursion, SequenceTheorems, FiniteSetTheorems, TLAPS

(***************************************************************************)
(* The hash.                                                               *)
(***************************************************************************)

\* ls_strcase_hashcode returns an unsigned int.
LEMMA HashNat == ASSUME NEW s \in Seq(Nat) PROVE HashOf(s) \in Nat
<1> DEFINE n == Len(s)
           Rec(f) == f = [i \in 0 .. n |-> IF i = 0 THEN 0 ELSE (31 * f[i - 1] + s[i]) % UintMod]
           Step(i, v) == IF i \in 1 .. n THEN (31 * v + s[i]) % UintMod ELSE 0
           F == [i \in Nat |-> [v \in Nat |-> Step(i, v)]]
<1>1. n \in Nat /\ (\A i \in 1 .. n : s[i] \in Nat) /\ UintMod \in Nat \ {0}
  BY LenProperties, ElementOfSeq, HtableAssumption
<1>2. \A x \in Nat, m \in Nat \ {0} : x % m \in Nat
  OBVIOUS
<1>3. \A i \in Nat, v \in Nat : Step(i, v) \in Nat
  <2> SUFFICES ASSUME NEW i \in Nat, NEW v \in Nat, i \in 1 .. n
               PROVE  (31 * v + s[i]) % UintMod \in Nat
    OBVIOUS
  <2>1. 31 * v + s[i] \in Nat
    BY <1>1
  <2> QED  BY <1>1, <1>2, <2>1
<1>4. F \in [Nat -> [Nat -> Nat]]
  <2> HIDE DEF Step
  <2> QED  BY <1>3
<1>5. \A i \in Nat, v \in Nat : F[i][v] = Step(i, v)
  <2> HIDE DEF Step
  <2> QED  OBVIOUS
<1> HIDE DEF F
<1>6. PICK f \in [0 .. n -> Nat] : f[0] = 0 /\ \A i \in 1 .. n : f[i] = F[i][f[i - 1]]
  <2>1. \E f : Recursive(f, n, Nat, 0, F)
    <3> HIDE DEF n
    <3> QED  BY <1>1, <1>4, RecursionExists
  <2> QED  BY <2>1 DEF Recursive
<1>7. \A i \in 1 .. n : f[i] = (31 * f[i - 1] + s[i]) % UintMod
  <2> SUFFICES ASSUME NEW i \in 1 .. n
               PROVE  f[i] = (31 * f[i - 1] + s[i]) % UintMod
    OBVIOUS
  <2>1. i \in Nat /\ i - 1 \in 0 .. n /\ f[i - 1] \in Nat
    BY <1>1
  <2>2. f[i] = Step(i, f[i - 1])
    <3> HIDE DEF Step
    <3> QED  BY <2>1, <1>5, <1>6
  <2> QED  BY <2>2
<1>8. Rec(f)
  <2> DEFINE Body(i) == IF i = 0 THEN 0 ELSE (31 * f[i - 1] + s[i]) % UintMod
  <2>1. \A i \in 0 .. n : i = 0 \/ i \in 1 .. n
    BY <1>1
  <2>2. \A i \in 0 .. n : f[i] = Body(i)
    BY <2>1, <1>6, <1>7
  <2> HIDE DEF Body
  <2>3. f = [i \in 0 .. n |-> Body(i)]
    BY <2>2
  <2> QED  BY <2>3 DEF Body
<1> DEFINE g == CHOOSE h : Rec(h)
<1>9. Rec(g)
  <2> HIDE DEF Rec
  <2> QED  BY <1>8
<1> HIDE DEF g
<1>10. g[0] = 0 /\ \A i \in 1 .. n : g[i] = (31 * g[i - 1] + s[i]) % UintMod
  <2>1. \A i \in 1 .. n : i \in 0 .. n /\ i # 0
    BY <1>1
  <2>2. 0 \in 0 .. n
    BY <1>1
  <2> QED  BY <1>9, <2>1, <2>2
<1>11. \A i \in 0 .. n : g[i] \in Nat
  <2>1. ASSUME NEW i \in 1 .. n, g[i - 1] \in Nat
        PROVE  g[i] = F[i][g[i - 1]]
    <3>1. i \in Nat /\ g[i] = Step(i, g[i - 1])
      BY <1>10
    <3> HIDE DEF Step
    <3> QED  BY <3>1, <2>1, <1>5
  <2>2. Obeys(g, n, Nat, 0, F)
    BY <2>1, <1>10 DEF Obeys
  <2> QED  BY <2>2, <1>1, <1>4, RecursionType
<1>12. HashOf(s) = g[n]
  BY DEF HashOf, g
<1> QED  BY <1>1, <1>11, <1>12

\* Folding a key twice is folding it once, and keys that are the same have the
\* same hash.
LEMMA Folds ==
    /\ Hashcode \in [Key -> Nat]
    /\ \A k \in Key : Folded[k] \in Key /\ Folded[Folded[k]] = Folded[k]
    /\ \A j, k \in Key : Folded[j] = Folded[k] => Hashcode[j] = Hashcode[k]
<1>1. \A c \in Nat : ToLower(c) \in Nat /\ ToLower(ToLower(c)) = ToLower(c)
  BY DEF ToLower
<1>2. ASSUME NEW k \in Key
      PROVE  /\ Folded[k] \in Key /\ Folded[k] \in Seq(Nat)
             /\ Folded[Folded[k]] = Folded[k]
  <2>1. Folded[k] \in Key /\ k \in Seq(Nat) /\ Folded[k] \in Seq(Nat)
    BY KeyAssumption, HtableAssumption
  <2>2. Folded[k] = [i \in DOMAIN k |-> ToLower(k[i])]
    BY DEF Folded
  <2>3. Folded[Folded[k]] = [i \in DOMAIN Folded[k] |-> ToLower(Folded[k][i])]
    BY <2>1 DEF Folded
  <2>4. \A i \in DOMAIN k : k[i] \in Nat
    BY <2>1
  <2>5. DOMAIN Folded[k] = DOMAIN k
    BY <2>2
  <2>6. \A i \in DOMAIN k : ToLower(Folded[k][i]) = ToLower(k[i])
    BY <1>1, <2>2, <2>4
  <2> QED  BY <2>1, <2>2, <2>3, <2>5, <2>6
<1>3. Hashcode = [k \in Key |-> HashOf(Folded[k])]
  BY DEF Hashcode
<1>4. \A k \in Key : HashOf(Folded[k]) \in Nat
  BY <1>2, HashNat
<1> QED  BY <1>2, <1>3, <1>4

------------------------------------------------------------------------------
(***************************************************************************)
(* The nodes of a table, in order.                                         *)
(***************************************************************************)
HasChains(t) == t.bcount \in Nat /\ t.buckets \in [0 .. t.bcount - 1 -> Seq(Node)]

\* What is where in z, the sequences x and y put together.
Together(x, y, z) ==
    /\ Len(x) \in Nat /\ Len(y) \in Nat /\ Len(z) = Len(x) + Len(y)
    /\ \A k \in 1 .. Len(x) : z[k] = x[k]
    /\ \A i \in 1 .. Len(y) : z[Len(x) + i] = y[i]

LEMMA Joined ==
    ASSUME NEW S, NEW x \in Seq(S), NEW y \in Seq(S)
    PROVE  Together(x, y, x \o y)
<1> DEFINE m == Len(x)
           n == Len(y)
<1>1. m \in Nat /\ n \in Nat
  BY LenProperties
<1>2. /\ x \o y \in Seq(S) /\ Len(x \o y) = m + n
      /\ \A k \in 1 .. m + n : (x \o y)[k] = IF k =< m THEN x[k] ELSE y[k - m]
  BY ConcatProperties
<1> HIDE DEF m, n
<1>3. ASSUME NEW k \in 1 .. m
      PROVE  (x \o y)[k] = x[k]
  <2>1. k \in 1 .. m + n /\ k =< m
    BY <1>1
  <2> QED  BY <1>2, <2>1
<1>4. ASSUME NEW i \in 1 .. n
      PROVE  (x \o y)[m + i] = y[i]
  <2>1. m + i \in 1 .. m + n /\ ~(m + i =< m) /\ (m + i) - m = i
    BY <1>1
  <2> QED  BY <1>2, <2>1
<1> QED  BY <1>1, <1>2, <1>3, <1>4 DEF Together, m, n

\* The recursive function of Nodes, step by step.
LEMMA NodesSteps ==
    ASSUME NEW t, HasChains(t)
    PROVE  \E f \in [0 .. t.bcount -> Seq(Node)] :
            /\ f[0] = <<>>
            /\ \A i \in 1 .. t.bcount : f[i] = f[i - 1] \o t.buckets[i - 1]
            /\ Nodes(t) = f[t.bcount]
<1> DEFINE n == t.bcount
           bs == t.buckets
           V == Seq(Node)
           Rec(f) == f = [i \in 0 .. n |-> IF i = 0 THEN <<>> ELSE f[i - 1] \o bs[i - 1]]
           Step(i, v) == IF i \in 1 .. n THEN v \o bs[i - 1] ELSE v
           F == [i \in Nat |-> [v \in V |-> Step(i, v)]]
<1>1. n \in Nat /\ bs \in [0 .. n - 1 -> V]
  BY DEF HasChains
<1>12. Nodes(t) = (CHOOSE h : Rec(h))[n]
  BY DEF Nodes
<1> HIDE DEF n, bs
<1>2. <<>> \in V
  BY EmptySeq
<1>3. \A i \in Nat, v \in V : Step(i, v) \in V
  <2> SUFFICES ASSUME NEW i \in 1 .. n, NEW v \in V
               PROVE  v \o bs[i - 1] \in V
    OBVIOUS
  <2>1. bs[i - 1] \in V
    <3>1. i - 1 \in 0 .. n - 1
      BY <1>1
    <3> QED  BY <1>1, <3>1
  <2> QED  BY <2>1, ConcatProperties
<1>4. F \in [Nat -> [V -> V]]
  <2> HIDE DEF Step, V
  <2> QED  BY <1>3
<1>5. \A i \in Nat, v \in V : F[i][v] = Step(i, v)
  <2> HIDE DEF Step, V
  <2> QED  OBVIOUS
<1> HIDE DEF F, V
<1>6. PICK f \in [0 .. n -> V] : f[0] = <<>> /\ \A i \in 1 .. n : f[i] = F[i][f[i - 1]]
  <2>1. \E f : Recursive(f, n, V, <<>>, F)
    BY <1>1, <1>2, <1>4, RecursionExists
  <2> QED  BY <2>1 DEF Recursive
<1>7. \A i \in 1 .. n : f[i] = f[i - 1] \o bs[i - 1]
  <2> SUFFICES ASSUME NEW i \in 1 .. n
               PROVE  f[i] = f[i - 1] \o bs[i - 1]
    OBVIOUS
  <2>1. i \in Nat /\ i - 1 \in 0 .. n /\ f[i - 1] \in V
    BY <1>1
  <2>2. f[i] = Step(i, f[i - 1])
    <3> HIDE DEF Step
    <3> QED  BY <2>1, <1>5, <1>6
  <2> QED  BY <2>2
<1>8. Rec(f)
  <2> DEFINE Body(i) == IF i = 0 THEN <<>> ELSE f[i - 1] \o bs[i - 1]
  <2>1. \A i \in 0 .. n : i = 0 \/ i \in 1 .. n
    BY <1>1
  <2>2. \A i \in 0 .. n : f[i] = Body(i)
    BY <2>1, <1>6, <1>7
  <2> HIDE DEF Body
  <2>3. f = [i \in 0 .. n |-> Body(i)]
    BY <2>2
  <2> QED  BY <2>3 DEF Body
<1> DEFINE g == CHOOSE h : Rec(h)
<1>9. Rec(g)
  <2> HIDE DEF Rec
  <2> QED  BY <1>8
<1>13. Nodes(t) = g[n]
  BY <1>12
<1> HIDE DEF g
<1>10. g[0] = <<>> /\ \A i \in 1 .. n : g[i] = g[i - 1] \o bs[i - 1]
  <2>1. \A i \in 1 .. n : i \in 0 .. n /\ i # 0
    BY <1>1
  <2>2. 0 \in 0 .. n
    BY <1>1
  <2> QED  BY <1>9, <2>1, <2>2
<1>11. g \in [0 .. n -> V]
  <2>1. ASSUME NEW i \in 1 .. n, g[i - 1] \in V
        PROVE  g[i] = F[i][g[i - 1]]
    <3>1. i \in Nat /\ g[i] = g[i - 1] \o bs[i - 1]
      BY <1>1, <1>10
    <3>2. Step(i, g[i - 1]) = g[i - 1] \o bs[i - 1]
      OBVIOUS
    <3> HIDE DEF Step
    <3> QED  BY <3>1, <3>2, <2>1, <1>5
  <2>2. Obeys(g, n, V, <<>>, F)
    BY <2>1, <1>10 DEF Obeys
  <2>3. \A i \in 0 .. n : g[i] \in V
    BY <2>2, <1>1, <1>2, <1>4, RecursionType
  <2>4. g = [i \in 0 .. n |-> g[i]]
    BY <1>9
  <2> QED  BY <2>3, <2>4
<1> QED  BY <1>10, <1>11, <1>13 DEF V, n, bs

\* Where the chains are in Nodes: chain b begins after place off[b].
Layout(t, off) ==
    /\ off \in [0 .. t.bcount -> Nat]
    /\ off[0] = 0
    /\ \A b \in 0 .. t.bcount - 1 : off[b + 1] = off[b] + Len(t.buckets[b])
    /\ Len(Nodes(t)) = off[t.bcount]
    /\ Nodes(t) \in Seq(Node)
    /\ \A b, c \in 0 .. t.bcount : b =< c => off[b] =< off[c]
    /\ \A b \in 0 .. t.bcount - 1 : \A i \in 1 .. Len(t.buckets[b]) :
        Nodes(t)[off[b] + i] = t.buckets[b][i]
    /\ \A k \in 1 .. Len(Nodes(t)) : \E b \in 0 .. t.bcount - 1 :
        k - off[b] \in 1 .. Len(t.buckets[b])

LEMMA LayoutExists ==
    ASSUME NEW t, HasChains(t)
    PROVE  \E off : Layout(t, off)
<1> DEFINE n == t.bcount
           bs == t.buckets
           V == Seq(Node)
<1>1. n \in Nat /\ bs \in [0 .. n - 1 -> V]
  BY DEF HasChains
<1>2. PICK f \in [0 .. n -> V] :
        /\ f[0] = <<>>
        /\ \A i \in 1 .. n : f[i] = f[i - 1] \o bs[i - 1]
        /\ Nodes(t) = f[n]
  BY NodesSteps
<1> DEFINE off == [b \in 0 .. n |-> Len(f[b])]
<1> HIDE DEF n, bs
<1>3. /\ off \in [0 .. n -> Nat] /\ off[0] = 0
      /\ \A b \in 0 .. n : f[b] \in V /\ off[b] = Len(f[b])
  <2>1. \A b \in 0 .. n : f[b] \in V /\ Len(f[b]) \in Nat
    BY <1>2, LenProperties
  <2>2. 0 \in 0 .. n /\ Len(<<>>) = 0
    BY <1>1
  <2> HIDE DEF V
  <2> QED  BY <1>2, <2>1, <2>2
<1>4. ASSUME NEW b \in 0 .. n - 1
      PROVE  /\ bs[b] \in V /\ Len(bs[b]) \in Nat /\ b \in 0 .. n /\ b + 1 \in 0 .. n
             /\ off[b + 1] = off[b] + Len(bs[b])
             /\ \A k \in 1 .. off[b] : f[b + 1][k] = f[b][k]
             /\ \A i \in 1 .. Len(bs[b]) : f[b + 1][off[b] + i] = bs[b][i]
  <2>1. b \in 0 .. n /\ b + 1 \in 0 .. n /\ b + 1 \in 1 .. n /\ (b + 1) - 1 = b
    BY <1>1
  <2>2. bs[b] \in V /\ f[b] \in V
    BY <1>1, <1>3, <2>1
  <2>3. f[b + 1] = f[b] \o bs[b]
    BY <1>2, <2>1
  <2>4. off[b] = Len(f[b]) /\ off[b + 1] = Len(f[b + 1])
    BY <1>3, <2>1
  <2> HIDE DEF off
  <2>5. f[b] \in Seq(Node) /\ bs[b] \in Seq(Node)
    BY <2>2
  <2>6. Together(f[b], bs[b], f[b] \o bs[b])
    BY <2>5, Joined
  <2>7. Together(f[b], bs[b], f[b + 1])
    BY <2>3, <2>6
  <2> HIDE DEF V
  <2> QED  BY <2>1, <2>2, <2>4, <2>7 DEF Together
<1> HIDE DEF off, V
<1> DEFINE Prefix(b, c) == off[b] =< off[c] /\ \A k \in 1 .. off[b] : f[c][k] = f[b][k]
<1>5. ASSUME NEW b \in 0 .. n
      PROVE  \A c \in 0 .. n : b =< c => Prefix(b, c)
  <2> DEFINE T == {c \in Nat : b =< c /\ c =< n => Prefix(b, c)}
  <2>1. 0 \in T
    <3>1. off[b] \in Nat
      BY <1>3
    <3> QED  BY <1>1, <3>1
  <2>2. ASSUME NEW c \in Nat, c \in T
        PROVE  c + 1 \in T
    <3> SUFFICES ASSUME b =< c + 1, c + 1 =< n
                 PROVE  Prefix(b, c + 1)
      OBVIOUS
    <3>0. c \in 0 .. n - 1 /\ c \in 0 .. n /\ c + 1 \in 0 .. n
      BY <1>1
    <3>1. /\ off[b] \in Nat /\ off[c] \in Nat /\ off[c + 1] \in Nat
          /\ off[c] =< off[c + 1] /\ \A k \in 1 .. off[c] : f[c + 1][k] = f[c][k]
      BY <1>3, <1>4, <3>0
    <3>2. CASE b = c + 1
      BY <3>1, <3>2
    <3>3. CASE b =< c
      <4>1. Prefix(b, c)
        BY <2>2, <3>0, <3>3
      <4> QED  BY <3>1, <4>1
    <3> QED  BY <1>1, <3>2, <3>3
  <2> HIDE DEF T
  <2>3. \A c \in Nat : c \in T
    BY <2>1, <2>2, Induction
  <2> QED  BY <1>1, <2>3 DEF T
<1>6. ASSUME NEW b \in 0 .. n - 1, NEW i \in 1 .. Len(bs[b])
      PROVE  Nodes(t)[off[b] + i] = bs[b][i]
  <2>1. /\ off[b] \in Nat /\ b \in 0 .. n /\ b + 1 \in 0 .. n /\ b + 1 =< n /\ n \in 0 .. n
        /\ Len(bs[b]) \in Nat /\ off[b + 1] = off[b] + Len(bs[b])
    BY <1>1, <1>3, <1>4
  <2>2. off[b] + i \in 1 .. off[b + 1]
    BY <2>1
  <2>3. f[n][off[b] + i] = f[b + 1][off[b] + i]
    <3>1. Prefix(b + 1, n)
      BY <1>5, <2>1
    <3> QED  BY <2>2, <3>1
  <2> QED  BY <1>2, <1>4, <2>3
<1>7. ASSUME NEW k \in 1 .. Len(Nodes(t))
      PROVE  \E b \in 0 .. n - 1 : k - off[b] \in 1 .. Len(bs[b])
  <2> DEFINE T == {c \in Nat : c =< n /\ k =< off[c] =>
                                \E b \in 0 .. n - 1 : k - off[b] \in 1 .. Len(bs[b])}
  <2>1. 0 \in T
    BY <1>1, <1>3
  <2>2. ASSUME NEW c \in Nat, c \in T
        PROVE  c + 1 \in T
    <3> SUFFICES ASSUME c + 1 =< n, k =< off[c + 1], ~(k =< off[c])
                 PROVE  \E b \in 0 .. n - 1 : k - off[b] \in 1 .. Len(bs[b])
      BY <1>1, <2>2
    <3>0. c \in 0 .. n - 1 /\ c \in 0 .. n
      BY <1>1
    <3>1. off[c] \in Nat /\ off[c + 1] = off[c] + Len(bs[c]) /\ Len(bs[c]) \in Nat
      BY <1>3, <1>4, <3>0
    <3>2. k - off[c] \in 1 .. Len(bs[c])
      BY <3>1
    <3> QED  BY <3>0, <3>2
  <2> HIDE DEF T
  <2>3. \A c \in Nat : c \in T
    BY <2>1, <2>2, Induction
  <2>4. k =< off[n]
    BY <1>1, <1>2, <1>3
  <2> QED  BY <1>1, <2>3, <2>4 DEF T
<1>8. Nodes(t) \in Seq(Node) /\ Len(Nodes(t)) = off[n]
  BY <1>1, <1>2, <1>3 DEF V
<1>9. \A b, c \in 0 .. n : b =< c => off[b] =< off[c]
  BY <1>5
<1>10. Layout(t, off)
  BY <1>3, <1>4, <1>6, <1>7, <1>8, <1>9 DEF Layout, n, bs
<1> QED  BY <1>10

------------------------------------------------------------------------------
(***************************************************************************)
(* The invariant of the table: every node is in the chain of its hash and  *)
(* knows it, no two nodes of a chain have the same key, and count, which   *)
(* is within the load limit, is the number of keys.                        *)
(***************************************************************************)
Keys(t) == {Folded[n.key] : n \in NodeSet(t)}

AtHome(n, b, m) == n.bucket = b /\ Hashcode[n.key] % m = b

Apart(chain) ==
    \A i, j \in 1 .. Len(chain) : Folded[chain[i].key] = Folded[chain[j].key] => i = j

Chained(t) ==
    /\ HasChains(t)
    /\ \A b \in 0 .. t.bcount - 1 :
        /\ Apart(t.buckets[b])
        /\ \A i \in 1 .. Len(t.buckets[b]) : AtHome(t.buckets[b][i], b, t.bcount)

IsTable(t) == t \in [bcount : Nat, count : Nat, buckets : {t.buckets}]

Tidy(t) ==
    /\ IsTable(t)
    /\ Chained(t)
    /\ t.count = Cardinality(Keys(t))
    /\ t.count =< (3 * t.bcount) \div 4

\* The nodes of a table, by their places.
LEMMA NodeSetIs ==
    ASSUME NEW t, HasChains(t)
    PROVE  /\ \A n : n \in NodeSet(t) <=>
                \E b \in 0 .. t.bcount - 1 : \E i \in 1 .. Len(t.buckets[b]) : n = t.buckets[b][i]
           /\ \A b \in 0 .. t.bcount - 1 :
                /\ t.buckets[b] \in Seq(Node) /\ Len(t.buckets[b]) \in Nat
                /\ DOMAIN t.buckets[b] = 1 .. Len(t.buckets[b])
                /\ \A i \in 1 .. Len(t.buckets[b]) : t.buckets[b][i] \in Node
           /\ \A n \in NodeSet(t) : n \in Node
<1>1. \A b \in 0 .. t.bcount - 1 :
        /\ t.buckets[b] \in Seq(Node) /\ Len(t.buckets[b]) \in Nat
        /\ DOMAIN t.buckets[b] = 1 .. Len(t.buckets[b])
  BY LenProperties DEF HasChains
<1>2. \A b \in 0 .. t.bcount - 1 : \A i \in 1 .. Len(t.buckets[b]) : t.buckets[b][i] \in Node
  BY <1>1, ElementOfSeq
<1>3. \A n : n \in NodeSet(t) <=> \E b \in 0 .. t.bcount - 1 : n \in Range(t.buckets[b])
  BY Zenon DEF NodeSet
<1>4. \A b \in 0 .. t.bcount - 1 : \A n :
        n \in Range(t.buckets[b]) <=> \E i \in 1 .. Len(t.buckets[b]) : n = t.buckets[b][i]
  <2> SUFFICES ASSUME NEW b \in 0 .. t.bcount - 1, NEW n
               PROVE  n \in Range(t.buckets[b]) <=> \E i \in 1 .. Len(t.buckets[b]) : n = t.buckets[b][i]
    OBVIOUS
  <2>1. DOMAIN t.buckets[b] = 1 .. Len(t.buckets[b])
    BY <1>1
  <2> QED  BY <2>1 DEF Range
<1>5. \A n : n \in NodeSet(t) <=>
        \E b \in 0 .. t.bcount - 1 : \E i \in 1 .. Len(t.buckets[b]) : n = t.buckets[b][i]
  <2> SUFFICES ASSUME NEW n
               PROVE  n \in NodeSet(t) <=>
                        \E b \in 0 .. t.bcount - 1 : \E i \in 1 .. Len(t.buckets[b]) : n = t.buckets[b][i]
    OBVIOUS
  <2>1. ASSUME n \in NodeSet(t)
        PROVE  \E b \in 0 .. t.bcount - 1 : \E i \in 1 .. Len(t.buckets[b]) : n = t.buckets[b][i]
    <3>1. PICK b \in 0 .. t.bcount - 1 : n \in Range(t.buckets[b])
      BY <1>3, <2>1
    <3>2. \E i \in 1 .. Len(t.buckets[b]) : n = t.buckets[b][i]
      BY <1>4, <3>1
    <3> QED  BY <3>2, Zenon
  <2>2. ASSUME NEW b \in 0 .. t.bcount - 1, NEW i \in 1 .. Len(t.buckets[b]), n = t.buckets[b][i]
        PROVE  n \in NodeSet(t)
    <3>1. n \in Range(t.buckets[b])
      BY <1>4, <2>2
    <3> QED  BY <1>3, <3>1
  <2> QED  BY <2>1, <2>2
<1>6. ASSUME NEW n \in NodeSet(t)
      PROVE  n \in Node
  <2>1. PICK b \in 0 .. t.bcount - 1 : \E i \in 1 .. Len(t.buckets[b]) : n = t.buckets[b][i]
    BY <1>5, Zenon
  <2>2. PICK i \in 1 .. Len(t.buckets[b]) : n = t.buckets[b][i]
    BY <2>1
  <2> QED  BY <1>2, <2>2
<1> QED  BY ONLY <1>1, <1>2, <1>5, <1>6, Zenon

\* In the sequence of all nodes, too, no two have the same key.
LEMMA AllApart ==
    ASSUME NEW t, Chained(t)
    PROVE  /\ Nodes(t) \in Seq(Node) /\ Len(Nodes(t)) \in Nat
           /\ Apart(Nodes(t))
           /\ \A n : n \in NodeSet(t) <=> \E k \in 1 .. Len(Nodes(t)) : n = Nodes(t)[k]
<1>1. HasChains(t)
  BY DEF Chained
<1>2. PICK off : Layout(t, off)
  BY <1>1, LayoutExists
<1>3. ASSUME NEW k \in 1 .. Len(Nodes(t))
      PROVE  \E b \in 0 .. t.bcount - 1 : \E i \in 1 .. Len(t.buckets[b]) :
                k = off[b] + i /\ Nodes(t)[k] = t.buckets[b][i]
  <2>1. PICK b \in 0 .. t.bcount - 1 : k - off[b] \in 1 .. Len(t.buckets[b])
    BY <1>2 DEF Layout
  <2>2. off[b] \in Nat /\ k = off[b] + (k - off[b])
    <3>1. off[b] \in Nat
      BY <1>1, <1>2 DEF Layout, HasChains
    <3> QED  BY <3>1
  <2> QED  BY <1>2, <2>1, <2>2 DEF Layout
<1>4. Nodes(t) \in Seq(Node) /\ Len(Nodes(t)) \in Nat
  BY <1>2, LenProperties DEF Layout
<1>5. Apart(Nodes(t))
  <2> SUFFICES ASSUME NEW k \in 1 .. Len(Nodes(t)), NEW l \in 1 .. Len(Nodes(t)),
                      Folded[Nodes(t)[k].key] = Folded[Nodes(t)[l].key]
               PROVE  k = l
    BY DEF Apart
  <2>1. PICK b \in 0 .. t.bcount - 1 : \E i \in 1 .. Len(t.buckets[b]) :
                k = off[b] + i /\ Nodes(t)[k] = t.buckets[b][i]
    BY <1>3
  <2>2. PICK i \in 1 .. Len(t.buckets[b]) : k = off[b] + i /\ Nodes(t)[k] = t.buckets[b][i]
    BY <2>1
  <2>3. PICK c \in 0 .. t.bcount - 1 : \E j \in 1 .. Len(t.buckets[c]) :
                l = off[c] + j /\ Nodes(t)[l] = t.buckets[c][j]
    BY <1>3
  <2>4. PICK j \in 1 .. Len(t.buckets[c]) : l = off[c] + j /\ Nodes(t)[l] = t.buckets[c][j]
    BY <2>3
  <2>5. t.buckets[b][i] \in Node /\ t.buckets[c][j] \in Node
    BY <1>1, NodeSetIs
  <2>6. Hashcode[t.buckets[b][i].key] = Hashcode[t.buckets[c][j].key]
    <3>1. \A n \in Node : n.key \in Key
      BY DEF Node
    <3>2. t.buckets[b][i].key \in Key /\ t.buckets[c][j].key \in Key
      BY <2>5, <3>1
    <3> QED  BY <2>2, <2>4, <3>2, Folds
  <2>7. AtHome(t.buckets[b][i], b, t.bcount) /\ AtHome(t.buckets[c][j], c, t.bcount)
    BY DEF Chained
  <2>8. b = c
    BY <2>6, <2>7 DEF AtHome
  <2>9. i = j
    <3>1. Apart(t.buckets[b])
      BY DEF Chained
    <3> QED  BY <2>2, <2>4, <2>8, <3>1 DEF Apart
  <2> QED  BY <2>2, <2>4, <2>8, <2>9
<1>6. ASSUME NEW n
      PROVE  n \in NodeSet(t) <=> \E k \in 1 .. Len(Nodes(t)) : n = Nodes(t)[k]
  <2>1. ASSUME n \in NodeSet(t)
        PROVE  \E k \in 1 .. Len(Nodes(t)) : n = Nodes(t)[k]
    <3>1. PICK b \in 0 .. t.bcount - 1 : \E i \in 1 .. Len(t.buckets[b]) : n = t.buckets[b][i]
      BY <1>1, <2>1, NodeSetIs
    <3>2. PICK i \in 1 .. Len(t.buckets[b]) : n = t.buckets[b][i]
      BY <3>1
    <3>3. /\ b \in 0 .. t.bcount /\ b + 1 \in 0 .. t.bcount /\ t.bcount \in 0 .. t.bcount
          /\ b + 1 =< t.bcount /\ Len(t.buckets[b]) \in Nat
      BY <1>1, NodeSetIs DEF HasChains
    <3>4. /\ off[b] \in Nat /\ off[b + 1] = off[b] + Len(t.buckets[b])
          /\ off[b + 1] =< Len(Nodes(t))
      BY <1>2, <3>3 DEF Layout
    <3>5. off[b] + i \in 1 .. Len(Nodes(t))
      BY <1>4, <3>3, <3>4
    <3>6. Nodes(t)[off[b] + i] = n
      BY <1>2, <3>2 DEF Layout
    <3> QED  BY <3>5, <3>6
  <2>2. ASSUME NEW k \in 1 .. Len(Nodes(t)), n = Nodes(t)[k]
        PROVE  n \in NodeSet(t)
    <3>1. \E b \in 0 .. t.bcount - 1 : \E i \in 1 .. Len(t.buckets[b]) : n = t.buckets[b][i]
      BY <1>3, <2>2
    <3> QED  BY <1>1, <3>1, NodeSetIs
  <2> QED  BY <2>1, <2>2
<1> QED  BY <1>4, <1>5, <1>6

\* There are as many keys as nodes.
LEMMA KeysCounted ==
    ASSUME NEW t, Chained(t)
    PROVE  IsFiniteSet(Keys(t)) /\ Cardinality(Keys(t)) = Len(Nodes(t))
<1> DEFINE D == 1 .. Len(Nodes(t))
           f == [k \in D |-> Folded[Nodes(t)[k].key]]
<1>1. /\ Len(Nodes(t)) \in Nat /\ Apart(Nodes(t))
      /\ \A n : n \in NodeSet(t) <=> \E k \in D : n = Nodes(t)[k]
  BY AllApart
<1>2. IsFiniteSet(D) /\ Cardinality(D) = Len(Nodes(t))
  <2>1. ASSUME NEW n \in Nat
        PROVE  IsFiniteSet(1 .. n) /\ Cardinality(1 .. n) = n
    <3>1. 1 \in Int /\ n \in Int
      OBVIOUS
    <3>2. IsFiniteSet(1 .. n) /\ Cardinality(1 .. n) = IF 1 > n THEN 0 ELSE n - 1 + 1
      BY <3>1, FS_Interval
    <3> QED  BY <3>2
  <2> QED  BY <1>1, <2>1
<1>3. \A x : x \in Keys(t) <=> \E k \in D : x = f[k]
  <2> HIDE DEF D
  <2> QED  BY <1>1 DEF Keys
<1>4. \A k, l \in D : f[k] = f[l] => k = l
  BY <1>1 DEF Apart
<1>5. f \in [D -> Keys(t)]
  <2>1. \A k \in D : f[k] \in Keys(t)
    <3> HIDE DEF f
    <3> QED  BY <1>3
  <2>2. f = [k \in D |-> f[k]]
    OBVIOUS
  <2> HIDE DEF f, D
  <2> QED  BY <2>1, <2>2
<1> HIDE DEF f, D
<1>6. f \in Bijection(D, Keys(t))
  <2>1. DOMAIN f = D
    BY <1>5
  <2>2. IsInjective(f)
    BY <1>4, <2>1 DEF IsInjective
  <2>3. f \in Injection(D, Keys(t))
    BY <1>5, <2>2 DEF Injection
  <2>4. f \in Surjection(D, Keys(t))
    BY <1>3, <1>5 DEF Surjection
  <2> QED  BY <2>3, <2>4 DEF Bijection
<1>7. ExistsBijection(D, Keys(t))
  BY <1>6 DEF ExistsBijection
<1> QED  BY <1>2, <1>7, FS_Bijection

\* Two nodes of a table do not have the same key.
LEMMA Unique ==
    ASSUME NEW t, Chained(t), NEW m \in NodeSet(t), NEW n \in NodeSet(t),
           Folded[m.key] = Folded[n.key]
    PROVE  m = n
<1>1. PICK k \in 1 .. Len(Nodes(t)) : m = Nodes(t)[k]
  BY AllApart
<1>2. PICK l \in 1 .. Len(Nodes(t)) : n = Nodes(t)[l]
  BY AllApart
<1>3. k = l
  BY <1>1, <1>2, AllApart DEF Apart
<1> QED  BY <1>1, <1>2, <1>3

\* A node is in the chain it names.
LEMMA NodeHome ==
    ASSUME NEW t, Chained(t), NEW n \in NodeSet(t)
    PROVE  /\ n \in Node /\ n.key \in Key /\ n.bucket \in 0 .. t.bcount - 1
           /\ AtHome(n, n.bucket, t.bcount)
           /\ \E i \in 1 .. Len(t.buckets[n.bucket]) : n = t.buckets[n.bucket][i]
<1>1. HasChains(t)
  BY DEF Chained
<1>2. PICK b \in 0 .. t.bcount - 1 : \E i \in 1 .. Len(t.buckets[b]) : n = t.buckets[b][i]
  BY <1>1, NodeSetIs
<1>3. PICK i \in 1 .. Len(t.buckets[b]) : n = t.buckets[b][i]
  BY <1>2
<1>4. AtHome(n, b, t.bcount) /\ n.bucket = b
  BY <1>3 DEF Chained, AtHome
<1>5. n \in Node
  BY <1>1, NodeSetIs
<1>6. n.key \in Key
  BY <1>5 DEF Node
<1> QED  BY <1>3, <1>4, <1>5, <1>6

\* Table u is table t with the chain c in place of b's, and with the nodes
\* that follow from that.
WithChain(t, u, b, c) == u.bcount = t.bcount /\ u.buckets = [t.buckets EXCEPT ![b] = c]
Rehoused(t, u, b, c) ==
    \A n : n \in NodeSet(u) <=> \/ n \in NodeSet(t) /\ n.bucket # b
                                \/ \E i \in 1 .. Len(c) : n = c[i]
AllAtHome(c, b, m) == \A i \in 1 .. Len(c) : AtHome(c[i], b, m)

LEMMA ChainChange ==
    ASSUME NEW t, Chained(t), NEW b \in 0 .. t.bcount - 1,
           NEW c \in Seq(Node), Apart(c),
           AllAtHome(c, b, t.bcount), NEW u, WithChain(t, u, b, c)
    PROVE  Chained(u) /\ Rehoused(t, u, b, c)
<1>0. /\ \A i \in 1 .. Len(c) : AtHome(c[i], b, t.bcount)
      /\ u.bcount = t.bcount /\ u.buckets = [t.buckets EXCEPT ![b] = c]
  BY DEF WithChain, AllAtHome
<1>1. HasChains(t) /\ t.bcount \in Nat
  BY DEF Chained, HasChains
<1>2. /\ u.buckets \in [0 .. t.bcount - 1 -> Seq(Node)] /\ u.buckets[b] = c
      /\ \A a \in 0 .. t.bcount - 1 : a # b => u.buckets[a] = t.buckets[a]
  BY <1>0, <1>1 DEF HasChains
<1>3. HasChains(u)
  BY <1>0, <1>1, <1>2 DEF HasChains
<1>4. Chained(u)
  <2> SUFFICES ASSUME NEW a \in 0 .. u.bcount - 1
               PROVE  /\ Apart(u.buckets[a])
                      /\ \A i \in 1 .. Len(u.buckets[a]) : AtHome(u.buckets[a][i], a, u.bcount)
    BY <1>3 DEF Chained
  <2>1. a \in 0 .. t.bcount - 1 /\ u.bcount = t.bcount
    BY <1>0
  <2>2. CASE a = b
    BY <1>0, <1>2, <2>2
  <2>3. CASE a # b
    <3>1. u.buckets[a] = t.buckets[a]
      BY <1>2, <2>1, <2>3
    <3> QED  BY <2>1, <3>1 DEF Chained
  <2> QED  BY <2>2, <2>3
<1>5. ASSUME NEW n, n \in NodeSet(u)
      PROVE  \/ n \in NodeSet(t) /\ n.bucket # b
             \/ \E i \in 1 .. Len(c) : n = c[i]
  <2>1. PICK a \in 0 .. u.bcount - 1 : \E i \in 1 .. Len(u.buckets[a]) : n = u.buckets[a][i]
    <3>1. \A m : m \in NodeSet(u) <=>
            \E a \in 0 .. u.bcount - 1 : \E i \in 1 .. Len(u.buckets[a]) : m = u.buckets[a][i]
      BY <1>3, NodeSetIs
    <3> QED  BY <1>5, <3>1, Zenon
  <2>2. PICK i \in 1 .. Len(u.buckets[a]) : n = u.buckets[a][i]
    BY <2>1
  <2>3. CASE a = b
    BY <1>2, <2>2, <2>3
  <2>4. CASE a # b
    <3>1. a \in 0 .. t.bcount - 1 /\ u.buckets[a] = t.buckets[a]
      BY <1>0, <1>2, <2>4
    <3>2. \E j \in 1 .. Len(t.buckets[a]) : n = t.buckets[a][j]
      BY <2>2, <3>1
    <3>3. n \in NodeSet(t)
      BY <1>1, <3>1, <3>2, NodeSetIs
    <3>4. n.bucket = a
      BY <3>1, <3>2 DEF Chained, AtHome
    <3> QED  BY <2>4, <3>3, <3>4
  <2> QED  BY <2>3, <2>4
<1>6. ASSUME NEW n, n \in NodeSet(t), n.bucket # b
      PROVE  n \in NodeSet(u)
  <2> DEFINE a == n.bucket
  <2>1. a \in 0 .. t.bcount - 1 /\ \E i \in 1 .. Len(t.buckets[a]) : n = t.buckets[a][i]
    BY <1>6, NodeHome
  <2> HIDE DEF a
  <2>2. a # b
    BY <1>6 DEF a
  <2>3. u.buckets[a] = t.buckets[a] /\ a \in 0 .. u.bcount - 1
    BY <1>0, <1>2, <2>1, <2>2
  <2>4. \E i \in 1 .. Len(u.buckets[a]) : n = u.buckets[a][i]
    BY <2>1, <2>3
  <2> QED  BY <1>3, <2>3, <2>4, NodeSetIs
<1>7. ASSUME NEW i \in 1 .. Len(c)
      PROVE  c[i] \in NodeSet(u)
  <2>1. b \in 0 .. u.bcount - 1 /\ \E j \in 1 .. Len(u.buckets[b]) : c[i] = u.buckets[b][j]
    BY <1>0, <1>2
  <2> QED  BY <1>3, <2>1, NodeSetIs
<1> QED  BY <1>4, <1>5, <1>6, <1>7 DEF Rehoused

\* A table with the chain b and the count changed, as a record.
Changed(t, b, c, n) == [t EXCEPT !.buckets[b] = c, !.count = n]

LEMMA ChangedFields ==
    ASSUME NEW t, IsTable(t), NEW b, NEW c, NEW n \in Nat, NEW u, u = Changed(t, b, c, n)
    PROVE  WithChain(t, u, b, c) /\ u.count = n /\ IsTable(u)
<1> DEFINE bs == [t.buckets EXCEPT ![b] = c]
<1>1. Changed(t, b, c, n) = [t EXCEPT !.buckets = bs, !.count = n]
  BY DEF Changed
<1>0. t \in [bcount : Nat, count : Nat, buckets : {t.buckets}]
  BY DEF IsTable
<1> HIDE DEF bs
<1>2. u.bcount = t.bcount /\ u.count = n /\ u.buckets = bs
  BY <1>0, <1>1
<1>3. u \in [bcount : Nat, count : Nat, buckets : {bs}]
  BY <1>0, <1>1
<1> QED  BY <1>2, <1>3 DEF bs, WithChain, IsTable

\* _find_node finds the node of a key if there is one.
LEMMA FindIs ==
    ASSUME NEW t, Chained(t), t.bcount > 0, NEW key \in Key
    PROVE  /\ BucketOf(t, key) \in 0 .. t.bcount - 1
           /\ IsIn(t, key) <=> Folded[key] \in Keys(t)
           /\ IsIn(t, key) => /\ FindNode(t, key) \in NodeSet(t)
                              /\ Folded[FindNode(t, key).key] = Folded[key]
<1> DEFINE b == BucketOf(t, key)
           chain == t.buckets[b]
           F == Found(t, key)
<1>1. HasChains(t) /\ t.bcount \in Nat \ {0}
  BY DEF Chained, HasChains
<1>2. \A h \in Nat, m \in Nat \ {0} : h % m \in 0 .. m - 1
  OBVIOUS
<1>3. b \in 0 .. t.bcount - 1
  <2>1. Hashcode[key] \in Nat
    BY Folds
  <2> QED  BY <1>1, <1>2, <2>1 DEF BucketOf
<1>4. b = Hashcode[key] % t.bcount
  BY DEF BucketOf
<1>5. F = {i \in DOMAIN chain : Matches(chain[i], key)}
  BY DEF Found
<1> HIDE DEF b, F
<1>6. DOMAIN chain = 1 .. Len(chain) /\ Len(chain) \in Nat
  BY <1>1, <1>3, NodeSetIs
<1>7. ASSUME IsIn(t, key)
      PROVE  /\ FindNode(t, key) \in NodeSet(t)
             /\ Folded[FindNode(t, key).key] = Folded[key]
             /\ Folded[key] \in Keys(t)
  <2>1. F # {} /\ F \subseteq Nat
    BY <1>5, <1>6, <1>7 DEF IsIn, F
  <2>2. \E i \in F : \A j \in F : i =< j
    BY <2>1, LeastNumber
  <2>3. Min(F) \in F
    BY <2>2 DEF Min
  <2>4. FindNode(t, key) = chain[Min(F)]
    BY DEF FindNode, b, F
  <2>5. Min(F) \in 1 .. Len(chain) /\ SameKey(chain[Min(F)].key, key)
    BY <1>5, <1>6, <2>3 DEF Matches
  <2>6. chain[Min(F)] \in NodeSet(t)
    BY <1>1, <1>3, <2>5, NodeSetIs
  <2>7. Folded[FindNode(t, key).key] = Folded[key]
    BY <2>4, <2>5 DEF SameKey
  <2> QED  BY <2>4, <2>6, <2>7 DEF Keys
<1>8. ASSUME Folded[key] \in Keys(t)
      PROVE  IsIn(t, key)
  <2>1. PICK n \in NodeSet(t) : Folded[n.key] = Folded[key]
    BY <1>8 DEF Keys
  <2>2. /\ n.key \in Key /\ AtHome(n, n.bucket, t.bcount)
        /\ \E i \in 1 .. Len(t.buckets[n.bucket]) : n = t.buckets[n.bucket][i]
    BY NodeHome
  <2>3. Hashcode[n.key] = Hashcode[key]
    BY <2>1, <2>2, Folds
  <2>4. n.bucket = b
    BY <1>4, <2>2, <2>3 DEF AtHome
  <2>5. PICK i \in 1 .. Len(chain) : n = chain[i]
    BY <2>2, <2>4
  <2>6. i \in F
    BY <1>5, <1>6, <2>1, <2>3, <2>5 DEF Matches, SameKey
  <2> QED  BY <2>6 DEF IsIn, F
<1> QED  BY <1>3, <1>7, <1>8 DEF b

\* A sequence with one more element in front, and without its first.
LEMMA InFront ==
    ASSUME NEW S, NEW s \in Seq(S), NEW e \in S, NEW u, u = <<e>> \o s
    PROVE  /\ u \in Seq(S) /\ Len(u) = Len(s) + 1 /\ Len(s) \in Nat
           /\ u[1] = e /\ \A i \in 1 .. Len(s) : u[i + 1] = s[i]
           /\ \A i \in 1 .. Len(u) : i = 1 \/ (i - 1 \in 1 .. Len(s) /\ u[i] = s[i - 1])
           /\ u # <<>>
<1>1. <<e>> \in Seq(S) /\ Len(<<e>>) = 1 /\ <<e>>[1] = e
  OBVIOUS
<1>2. u \in Seq(S) /\ Len(u) = Len(s) + 1 /\ Len(s) \in Nat
  BY <1>1, ConcatProperties, LenProperties
<1>3. \A i \in 1 .. Len(u) : u[i] = IF i =< 1 THEN <<e>>[i] ELSE s[i - 1]
  BY <1>1, <1>2, ConcatProperties
<1> QED  BY <1>1, <1>2, <1>3

\* A new node in front of its chain.
PushFront(t, x) == Changed(t, x.bucket, <<x>> \o t.buckets[x.bucket], t.count + 1)

\* Tables t and u differ in node x, which is new in front of its chain in u.
Pushed(t, u, x) ==
    /\ Chained(u)
    /\ \A n : n \in NodeSet(u) <=> n \in NodeSet(t) \/ n = x

LEMMA PushChained ==
    ASSUME NEW t, Chained(t), NEW x \in Node, x.bucket \in 0 .. t.bcount - 1,
           AtHome(x, x.bucket, t.bcount), Folded[x.key] \notin Keys(t),
           NEW u, WithChain(t, u, x.bucket, <<x>> \o t.buckets[x.bucket])
    PROVE  Pushed(t, u, x)
<1> DEFINE b == x.bucket
           c == <<x>> \o t.buckets[b]
           old == t.buckets[b]
<1>1. Chained(t) /\ HasChains(t)
  BY DEF Chained
<1>2. old \in Seq(Node) /\ Len(old) \in Nat
  BY <1>1, NodeSetIs
<1>3. /\ c \in Seq(Node) /\ Len(c) = Len(old) + 1
      /\ c[1] = x /\ \A i \in 1 .. Len(old) : c[i + 1] = old[i]
      /\ \A i \in 1 .. Len(c) : i = 1 \/ (i - 1 \in 1 .. Len(old) /\ c[i] = old[i - 1])
  BY <1>2, InFront
<1>8. WithChain(t, u, b, c)
  OBVIOUS
<1> HIDE DEF c
<1>5. \A i \in 1 .. Len(old) : /\ Folded[old[i].key] # Folded[x.key]
                               /\ old[i] \in NodeSet(t) /\ AtHome(old[i], b, t.bcount)
  <2> SUFFICES ASSUME NEW i \in 1 .. Len(old)
               PROVE  /\ Folded[old[i].key] # Folded[x.key]
                      /\ old[i] \in NodeSet(t) /\ AtHome(old[i], b, t.bcount)
    OBVIOUS
  <2>1. old[i] \in NodeSet(t)
    BY <1>1, NodeSetIs
  <2>2. AtHome(old[i], b, t.bcount)
    BY <1>1 DEF Chained
  <2> QED  BY <2>1, <2>2 DEF Keys
<1>6. Apart(c)
  <2> SUFFICES ASSUME NEW i \in 1 .. Len(c), NEW j \in 1 .. Len(c),
                      Folded[c[i].key] = Folded[c[j].key]
               PROVE  i = j
    BY DEF Apart
  <2>1. Apart(old)
    BY <1>1 DEF Chained
  <2> HIDE DEF old
  <2>2. CASE i = 1 /\ j # 1
    <3>1. j - 1 \in 1 .. Len(old) /\ c[j] = old[j - 1] /\ c[i] = x
      BY <1>3, <2>2
    <3> QED  BY <1>5, <3>1
  <2>4. CASE j = 1 /\ i # 1
    <3>1. i - 1 \in 1 .. Len(old) /\ c[i] = old[i - 1] /\ c[j] = x
      BY <1>3, <2>4
    <3> QED  BY <1>5, <3>1
  <2>3. CASE i # 1 /\ j # 1
    <3>1. /\ i - 1 \in 1 .. Len(old) /\ c[i] = old[i - 1]
          /\ j - 1 \in 1 .. Len(old) /\ c[j] = old[j - 1]
      BY <1>3, <2>3
    <3>2. i - 1 = j - 1
      BY <2>1, <3>1 DEF Apart
    <3> QED  BY <3>2
  <2> QED  BY <2>2, <2>3, <2>4
<1>7. AllAtHome(c, b, t.bcount)
  BY <1>3, <1>5 DEF AllAtHome
<1> HIDE DEF b
<1>9. Chained(u) /\ Rehoused(t, u, b, c)
  <2>1. b \in 0 .. t.bcount - 1
    BY DEF b
  <2> QED  BY <1>1, <1>3, <1>6, <1>7, <1>8, <2>1, ChainChange
<1>10. ASSUME NEW n
       PROVE  n \in NodeSet(u) <=> n \in NodeSet(t) \/ n = x
  <2>1. ASSUME n \in NodeSet(u)
        PROVE  n \in NodeSet(t) \/ n = x
    <3>1. ASSUME NEW i \in 1 .. Len(c), n = c[i]
          PROVE  n \in NodeSet(t) \/ n = x
      <4>1. CASE i = 1
        BY <1>3, <3>1, <4>1
      <4>2. CASE i - 1 \in 1 .. Len(old) /\ c[i] = old[i - 1]
        BY <1>5, <3>1, <4>2
      <4> QED  BY <1>3, <4>1, <4>2
    <3> QED  BY <1>9, <2>1, <3>1 DEF Rehoused
  <2>2. ASSUME n = x
        PROVE  n \in NodeSet(u)
    <3>1. 1 \in 1 .. Len(c)
      BY <1>2, <1>3
    <3> QED  BY <1>3, <1>9, <2>2, <3>1 DEF Rehoused
  <2>3. ASSUME n \in NodeSet(t)
        PROVE  n \in NodeSet(u)
    <3>1. CASE n.bucket # b
      BY <1>9, <2>3, <3>1 DEF Rehoused
    <3>2. CASE n.bucket = b
      <4>1. PICK i \in 1 .. Len(old) : n = old[i]
        BY <1>1, <2>3, <3>2, NodeHome
      <4>2. i + 1 \in 1 .. Len(c) /\ n = c[i + 1]
        BY <1>2, <1>3, <4>1
      <4> QED  BY <1>9, <4>2 DEF Rehoused
    <3> QED  BY <3>1, <3>2
  <2> QED  BY <2>1, <2>2, <2>3
<1> QED  BY <1>9, <1>10 DEF Pushed

LEMMA PushTidy ==
    ASSUME NEW t, Tidy(t), NEW x \in Node, x.bucket \in 0 .. t.bcount - 1,
           AtHome(x, x.bucket, t.bcount), Folded[x.key] \notin Keys(t),
           t.count + 1 =< (3 * t.bcount) \div 4, NEW u, u = PushFront(t, x)
    PROVE  /\ Tidy(u) /\ u.bcount = t.bcount
           /\ \A n : n \in NodeSet(u) <=> n \in NodeSet(t) \/ n = x
<1>1. Chained(t) /\ HasChains(t) /\ IsTable(t) /\ t.count \in Nat /\ t.count + 1 \in Nat
  BY DEF Tidy, Chained, IsTable
<1> DEFINE c == <<x>> \o t.buckets[x.bucket]
<1>2. u = Changed(t, x.bucket, c, t.count + 1)
  BY DEF PushFront
<1>3. WithChain(t, u, x.bucket, c) /\ u.count = t.count + 1 /\ IsTable(u)
  <2> HIDE DEF c
  <2> QED  BY <1>1, <1>2, ChangedFields
<1>4. Pushed(t, u, x)
  BY <1>1, <1>3, PushChained
<1>5. Chained(u) /\ \A n : n \in NodeSet(u) <=> n \in NodeSet(t) \/ n = x
  BY <1>4 DEF Pushed
<1>6. Keys(u) = Keys(t) \cup {Folded[x.key]}
  BY <1>5 DEF Keys
<1>7. Cardinality(Keys(u)) = t.count + 1
  <2>1. IsFiniteSet(Keys(t)) /\ Cardinality(Keys(t)) = t.count
    BY <1>1, KeysCounted DEF Tidy
  <2> QED  BY <1>6, <2>1, FS_AddElement
<1> QED  BY <1>3, <1>5, <1>7 DEF Tidy, WithChain

\* Taking one element out of a sequence shifts the later ones down by one place.
LEMMA RemoveAtShifts ==
    ASSUME NEW S, NEW s \in Seq(S), NEW i \in DOMAIN s
    PROVE  /\ RemoveAt(s, i) \in Seq(S)
           /\ Len(RemoveAt(s, i)) = Len(s) - 1
           /\ \A j \in DOMAIN RemoveAt(s, i) :
                LET k == IF j < i THEN j ELSE j + 1 IN
                k \in DOMAIN s /\ RemoveAt(s, i)[j] = s[k]
<1> DEFINE u == SubSeq(s, 1, i - 1)
           v == SubSeq(s, i + 1, Len(s))
<1>1. i \in 1 .. Len(s)
  BY LenProperties
<1>2. u \in Seq(S) /\ Len(u) = i - 1 /\ \A j \in 1 .. i - 1 : u[j] = s[j]
  BY <1>1, SubSeqProperties, LenProperties
<1>3. v \in Seq(S) /\ Len(v) = Len(s) - i
      /\ \A j \in 1 .. Len(s) - i : v[j] = s[j + i]
  BY <1>1, SubSeqProperties, LenProperties
<1> HIDE DEF u, v
<1>4. /\ u \o v \in Seq(S)
      /\ Len(u \o v) = Len(s) - 1
      /\ \A j \in 1 .. Len(s) - 1 :
            (u \o v)[j] = IF j < i THEN s[j] ELSE s[j + 1]
  <2>1. u \o v \in Seq(S) /\ Len(u \o v) = Len(u) + Len(v)
    BY <1>2, <1>3, ConcatProperties
  <2>2. ASSUME NEW j \in 1 .. Len(s) - 1
        PROVE  (u \o v)[j] = IF j < i THEN s[j] ELSE s[j + 1]
    <3>1. (u \o v)[j] = IF j =< Len(u) THEN u[j] ELSE v[j - Len(u)]
      BY <1>1, <1>2, <1>3, ConcatProperties, LenProperties
    <3>2. CASE j < i
      BY <3>1, <3>2, <1>1, <1>2, LenProperties
    <3>3. CASE ~(j < i)
      BY <3>1, <3>3, <1>1, <1>2, <1>3, LenProperties
    <3> QED  BY <3>2, <3>3
  <2>3. Len(u \o v) = Len(s) - 1
    <3>1. Len(s) \in Nat
      BY LenProperties
    <3> QED  BY <3>1, <2>1, <1>1, <1>2, <1>3
  <2> QED  BY ONLY <2>1, <2>2, <2>3
<1>5. RemoveAt(s, i) = u \o v
  BY DEF RemoveAt, u, v
<1>6. DOMAIN RemoveAt(s, i) = 1 .. Len(s) - 1
  BY <1>4, <1>5, LenProperties
<1>7. ASSUME NEW j \in DOMAIN RemoveAt(s, i)
      PROVE  LET k == IF j < i THEN j ELSE j + 1 IN
             k \in DOMAIN s /\ RemoveAt(s, i)[j] = s[k]
  <2>1. j \in 1 .. Len(s) - 1
    BY <1>6
  <2>2. RemoveAt(s, i)[j] = IF j < i THEN s[j] ELSE s[j + 1]
    BY <2>1, <1>4, <1>5
  <2>3. DOMAIN s = 1 .. Len(s) /\ Len(s) \in Nat
    BY LenProperties
  <2> QED  BY <2>1, <2>2, <2>3, <1>1
<1> QED  BY <1>4, <1>5, <1>7

\* Table u is table t with node new in place of old.
LEMMA ReplaceTidy ==
    ASSUME NEW t, Tidy(t), NEW old \in NodeSet(t), NEW new \in Node,
           new.bucket = old.bucket, Folded[new.key] = Folded[old.key],
           NEW u, u = ReplaceIn(t, old, new)
    PROVE  /\ Tidy(u) /\ u.bcount = t.bcount
           /\ \A n : n \in NodeSet(u) <=> (n \in NodeSet(t) /\ n # old) \/ n = new
<1> DEFINE b == old.bucket
           chain == t.buckets[b]
           c == [i \in DOMAIN chain |-> IF chain[i] = old THEN new ELSE chain[i]]
           bs == [t.buckets EXCEPT ![b] = c]
<1>1. Chained(t) /\ HasChains(t) /\ IsTable(t)
  BY DEF Tidy, Chained
<1>2. /\ b \in 0 .. t.bcount - 1 /\ old.key \in Key /\ old \in Node
      /\ AtHome(old, b, t.bcount)
      /\ \E i \in 1 .. Len(chain) : old = chain[i]
  BY <1>1, NodeHome
<1>3. /\ chain \in Seq(Node) /\ Len(chain) \in Nat /\ DOMAIN chain = 1 .. Len(chain)
      /\ \A i \in 1 .. Len(chain) : chain[i] \in Node /\ chain[i] \in NodeSet(t)
  BY <1>1, <1>2, NodeSetIs
<1>4. u = [t EXCEPT !.buckets = bs]
  BY DEF ReplaceIn
<1>5. WithChain(t, u, b, c) /\ u.count = t.count /\ IsTable(u)
  <2> HIDE DEF bs
  <2>1. t \in [bcount : Nat, count : Nat, buckets : {t.buckets}]
    BY <1>1 DEF IsTable
  <2>2. u.bcount = t.bcount /\ u.count = t.count /\ u.buckets = bs
    BY <1>4, <2>1
  <2>3. u \in [bcount : Nat, count : Nat, buckets : {bs}]
    BY <1>4, <2>1
  <2> QED  BY <2>2, <2>3 DEF bs, WithChain, IsTable
<1> HIDE DEF b, chain
<1>6. c \in [1 .. Len(chain) -> Node]
  BY <1>3
<1>7. c \in Seq(Node) /\ Len(c) = Len(chain) /\ DOMAIN c = 1 .. Len(chain)
      /\ \A i \in 1 .. Len(chain) : c[i] = IF chain[i] = old THEN new ELSE chain[i]
  <2>1. \A i \in 1 .. Len(chain) : c[i] = IF chain[i] = old THEN new ELSE chain[i]
    BY <1>3
  <2> HIDE DEF c
  <2>2. c \in Seq(Node) /\ Len(c) = Len(chain)
    BY <1>3, <1>6, IsASeq, LenProperties
  <2> QED  BY <1>6, <2>1, <2>2
<1> HIDE DEF c
<1>8. \A i \in 1 .. Len(chain) : Folded[c[i].key] = Folded[chain[i].key]
  BY <1>7
<1>9. Apart(c)
  <2>1. Apart(chain)
    BY <1>1, <1>2 DEF Chained, chain
  <2> QED  BY <1>7, <1>8, <2>1 DEF Apart
<1>10. AllAtHome(c, b, t.bcount)
  <2> SUFFICES ASSUME NEW i \in 1 .. Len(c)
               PROVE  AtHome(c[i], b, t.bcount)
    BY DEF AllAtHome
  <2>1. AtHome(chain[i], b, t.bcount)
    BY <1>1, <1>2, <1>7 DEF Chained, chain
  <2>2. AtHome(new, b, t.bcount)
    <3>1. new.key \in Key
      BY DEF Node
    <3>2. Hashcode[new.key] = Hashcode[old.key]
      BY <1>2, <3>1, Folds
    <3> QED  BY <1>2, <3>2 DEF AtHome
  <2> QED  BY <1>7, <2>1, <2>2
<1>11. Chained(u) /\ Rehoused(t, u, b, c)
  BY <1>1, <1>2, <1>5, <1>7, <1>9, <1>10, ChainChange
<1>12. ASSUME NEW n, n \in NodeSet(u)
       PROVE  (n \in NodeSet(t) /\ n # old) \/ n = new
  <2>1. CASE n \in NodeSet(t) /\ n.bucket # b
    BY <2>1 DEF b
  <2>2. ASSUME NEW i \in 1 .. Len(c), n = c[i]
        PROVE  (n \in NodeSet(t) /\ n # old) \/ n = new
    BY <1>3, <1>7, <2>2
  <2> QED  BY <1>11, <1>12, <2>1, <2>2 DEF Rehoused
<1>13. new \in NodeSet(u)
  <2>1. PICK i \in 1 .. Len(chain) : old = chain[i]
    BY <1>2 DEF chain, b
  <2>2. i \in 1 .. Len(c) /\ new = c[i]
    BY <1>7, <2>1
  <2> QED  BY <1>11, <2>2 DEF Rehoused
<1>14. ASSUME NEW n, n \in NodeSet(t), n # old
       PROVE  n \in NodeSet(u)
  <2>1. CASE n.bucket # b
    BY <1>11, <1>14, <2>1 DEF Rehoused
  <2>2. CASE n.bucket = b
    <3>1. \E i \in 1 .. Len(t.buckets[n.bucket]) : n = t.buckets[n.bucket][i]
      BY <1>1, <1>14, NodeHome
    <3>2. PICK i \in 1 .. Len(chain) : n = chain[i]
      BY <2>2, <3>1 DEF chain
    <3>3. i \in 1 .. Len(c) /\ n = c[i]
      BY <1>7, <1>14, <3>2
    <3> QED  BY <1>11, <3>3 DEF Rehoused
  <2> QED  BY <2>1, <2>2
<1>15. Keys(u) = Keys(t)
  <2>1. ASSUME NEW x \in Keys(u)
        PROVE  x \in Keys(t)
    <3>1. PICK n \in NodeSet(u) : x = Folded[n.key]
      BY DEF Keys
    <3>2. (n \in NodeSet(t) /\ n # old) \/ n = new
      BY <1>12
    <3> QED  BY <3>1, <3>2 DEF Keys
  <2>2. ASSUME NEW x \in Keys(t)
        PROVE  x \in Keys(u)
    <3>1. PICK n \in NodeSet(t) : x = Folded[n.key]
      BY DEF Keys
    <3>2. CASE n = old
      BY <1>13, <3>1, <3>2 DEF Keys
    <3>3. CASE n # old
      BY <1>14, <3>1, <3>3 DEF Keys
    <3> QED  BY <3>2, <3>3
  <2> QED  BY <2>1, <2>2
<1>16. Tidy(u) /\ u.bcount = t.bcount
  BY <1>5, <1>11, <1>15 DEF Tidy, WithChain
<1> QED  BY <1>12, <1>13, <1>14, <1>16

\* Table u is table t without node n.
LEMMA RemoveTidy ==
    ASSUME NEW t, Tidy(t), NEW n \in NodeSet(t),
           NEW k \in 1 .. Len(t.buckets[n.bucket]), t.buckets[n.bucket][k] = n,
           NEW u, u = Changed(t, n.bucket, RemoveAt(t.buckets[n.bucket], k), t.count - 1)
    PROVE  /\ Tidy(u) /\ u.bcount = t.bcount
           /\ \A x : x \in NodeSet(u) <=> x \in NodeSet(t) /\ x # n
<1> DEFINE b == n.bucket
           chain == t.buckets[b]
           c == RemoveAt(chain, k)
<1>1. Chained(t) /\ HasChains(t) /\ IsTable(t) /\ t.count \in Nat /\ t.bcount \in Nat
  BY DEF Tidy, Chained, IsTable
<1>2. b \in 0 .. t.bcount - 1
  BY <1>1, NodeHome
<1>3. /\ chain \in Seq(Node) /\ Len(chain) \in Nat /\ DOMAIN chain = 1 .. Len(chain)
      /\ \A i \in 1 .. Len(chain) : chain[i] \in Node /\ chain[i] \in NodeSet(t)
      /\ Apart(chain) /\ \A i \in 1 .. Len(chain) : AtHome(chain[i], b, t.bcount)
  BY <1>1, <1>2, NodeSetIs DEF Chained
<1>4. IsFiniteSet(Keys(t)) /\ Cardinality(Keys(t)) = t.count /\ Folded[n.key] \in Keys(t)
  BY <1>1, KeysCounted DEF Tidy, Keys
<1>5. t.count - 1 \in Nat
  <2>1. Keys(t) # {}
    BY <1>4
  <2>2. t.count # 0
    BY <1>4, <2>1, FS_EmptySet
  <2> QED  BY <1>1, <2>2
<1>6. /\ c \in Seq(Node) /\ Len(c) = Len(chain) - 1 /\ DOMAIN c = 1 .. Len(chain) - 1
      /\ \A j \in 1 .. Len(chain) - 1 :
            (IF j < k THEN j ELSE j + 1) \in 1 .. Len(chain) /\ c[j] = chain[IF j < k THEN j ELSE j + 1]
  <2>1. k \in DOMAIN chain
    BY <1>3
  <2> HIDE DEF chain
  <2>2. /\ c \in Seq(Node) /\ Len(c) = Len(chain) - 1
        /\ \A j \in DOMAIN c : LET l == IF j < k THEN j ELSE j + 1 IN
                l \in DOMAIN chain /\ c[j] = chain[l]
    BY <1>3, <2>1, RemoveAtShifts
  <2> HIDE DEF c
  <2>3. DOMAIN c = 1 .. Len(c)
    BY <2>2, LenProperties
  <2> QED  BY <1>3, <2>2, <2>3
<1>7. u = Changed(t, b, c, t.count - 1)
  OBVIOUS
<1>8. chain[k] = n /\ k \in 1 .. Len(chain)
  OBVIOUS
<1> HIDE DEF b, chain, c
<1>9. WithChain(t, u, b, c) /\ u.count = t.count - 1 /\ IsTable(u)
  BY <1>1, <1>5, <1>7, ChangedFields
<1> DEFINE Old(j) == IF j < k THEN j ELSE j + 1
<1>10. \A j \in 1 .. Len(c) : Old(j) \in 1 .. Len(chain) /\ Old(j) # k /\ c[j] = chain[Old(j)]
  BY <1>3, <1>6
<1>11. \A l \in 1 .. Len(chain) : l # k => \E j \in 1 .. Len(c) : Old(j) = l
  <2> SUFFICES ASSUME NEW l \in 1 .. Len(chain), l # k
               PROVE  \E j \in 1 .. Len(c) : Old(j) = l
    OBVIOUS
  <2>1. CASE l < k
    <3>1. Len(chain) \in Nat /\ k =< Len(chain) /\ Len(c) = Len(chain) - 1
      BY <1>3, <1>6, <1>8
    <3>2. l \in 1 .. Len(c) /\ Old(l) = l
      BY <2>1, <3>1
    <3> QED  BY <3>2
  <2>2. CASE l > k
    <3>1. l - 1 \in 1 .. Len(c) /\ Old(l - 1) = l
      BY <1>3, <1>6, <2>2
    <3> QED  BY <3>1
  <2> QED  BY <2>1, <2>2
<1>12. \A i, j \in 1 .. Len(c) : Old(i) = Old(j) => i = j
  <2>1. \A i, j \in Nat : Old(i) = Old(j) => i = j
    OBVIOUS
  <2> HIDE DEF Old
  <2> QED  BY <2>1
<1> HIDE DEF Old
<1>13. Apart(c) /\ AllAtHome(c, b, t.bcount)
  BY <1>3, <1>10, <1>12 DEF Apart, AllAtHome
<1>14. Chained(u) /\ Rehoused(t, u, b, c)
  BY <1>1, <1>2, <1>6, <1>9, <1>13, ChainChange
<1>15. ASSUME NEW x, x \in NodeSet(u)
       PROVE  x \in NodeSet(t) /\ x # n
  <2>1. CASE x \in NodeSet(t) /\ x.bucket # b
    BY <2>1 DEF b
  <2>2. ASSUME NEW i \in 1 .. Len(c), x = c[i]
        PROVE  x \in NodeSet(t) /\ x # n
    <3>1. Old(i) \in 1 .. Len(chain) /\ Old(i) # k /\ x = chain[Old(i)]
      BY <1>10, <2>2
    <3> QED  BY <1>3, <1>8, <3>1 DEF Apart
  <2> QED  BY <1>14, <1>15, <2>1, <2>2 DEF Rehoused
<1>16. ASSUME NEW x, x \in NodeSet(t), x # n
       PROVE  x \in NodeSet(u)
  <2>1. CASE x.bucket # b
    BY <1>14, <1>16, <2>1 DEF Rehoused
  <2>2. CASE x.bucket = b
    <3>1. \E i \in 1 .. Len(t.buckets[x.bucket]) : x = t.buckets[x.bucket][i]
      BY <1>1, <1>16, NodeHome
    <3>2. PICK i \in 1 .. Len(chain) : x = chain[i]
      BY <2>2, <3>1 DEF chain
    <3>3. i # k
      BY <1>8, <1>16, <3>2
    <3>4. PICK j \in 1 .. Len(c) : Old(j) = i
      BY <1>11, <3>3
    <3>5. x = c[j]
      BY <1>10, <3>2, <3>4
    <3> QED  BY <1>14, <3>5 DEF Rehoused
  <2> QED  BY <2>1, <2>2
<1>17. Keys(u) = Keys(t) \ {Folded[n.key]}
  <2>1. ASSUME NEW x \in Keys(u)
        PROVE  x \in Keys(t) /\ x # Folded[n.key]
    <3>1. PICK m \in NodeSet(u) : x = Folded[m.key]
      BY DEF Keys
    <3>2. m \in NodeSet(t) /\ m # n
      BY <1>15
    <3>3. Folded[m.key] # Folded[n.key]
      BY <1>1, <3>2, Unique
    <3> QED  BY <3>1, <3>2, <3>3 DEF Keys
  <2>2. ASSUME NEW x \in Keys(t), x # Folded[n.key]
        PROVE  x \in Keys(u)
    <3>1. PICK m \in NodeSet(t) : x = Folded[m.key]
      BY DEF Keys
    <3>2. m \in NodeSet(u)
      BY <1>16, <2>2, <3>1
    <3> QED  BY <3>1, <3>2 DEF Keys
  <2> QED  BY <2>1, <2>2
<1>18. Cardinality(Keys(u)) = t.count - 1
  BY <1>4, <1>17, FS_RemoveElement
<1>19. t.count - 1 =< (3 * t.bcount) \div 4
  <2>1. t.count =< (3 * t.bcount) \div 4 /\ (3 * t.bcount) \div 4 \in Int
    BY <1>1 DEF Tidy
  <2> QED  BY <1>1, <2>1
<1>20. Tidy(u) /\ u.bcount = t.bcount
  BY <1>9, <1>14, <1>18, <1>19 DEF Tidy, WithChain
<1> QED  BY <1>15, <1>16, <1>20

\* ls_htable_create: no nodes.
LEMMA EmptyTidy ==
    ASSUME NEW n \in Nat
    PROVE  Tidy(Empty(n)) /\ NodeSet(Empty(n)) = {} /\ Empty(n).bcount = n
<1> DEFINE t == Empty(n)
           bs == [b \in 0 .. n - 1 |-> <<>>]
<1>1. t = [bcount |-> n, count |-> 0, buckets |-> bs]
  BY DEF Empty
<1>2. bs \in [0 .. n - 1 -> Seq(Node)]
  BY EmptySeq
<1>3. \A b \in 0 .. n - 1 : bs[b] = <<>> /\ Len(bs[b]) = 0 /\ 1 .. Len(bs[b]) = {}
  OBVIOUS
<1> HIDE DEF bs, t
<1>4. t.bcount = n /\ t.count = 0 /\ t.buckets = bs /\ IsTable(t)
  BY <1>1 DEF IsTable
<1>5. HasChains(t)
  BY <1>2, <1>4 DEF HasChains
<1>6. Chained(t)
  BY <1>3, <1>4, <1>5 DEF Chained, Apart
<1>7. NodeSet(t) = {}
  <2>1. ASSUME NEW x \in NodeSet(t)
        PROVE  FALSE
    <3>1. \E b \in 0 .. t.bcount - 1 : \E i \in 1 .. Len(t.buckets[b]) : x = t.buckets[b][i]
      BY <1>5, NodeSetIs
    <3> QED  BY <1>3, <1>4, <3>1
  <2> QED  BY <2>1
<1>8. Cardinality(Keys(t)) = 0
  BY <1>7, FS_EmptySet DEF Keys
<1>9. 0 =< (3 * n) \div 4
  OBVIOUS
<1>10. Tidy(t)
  BY <1>4, <1>6, <1>8, <1>9 DEF Tidy
<1> QED  BY <1>4, <1>7, <1>10 DEF t
\* A node, moved to a table of n buckets.
LEMMA RehashNode ==
    ASSUME NEW x \in Node, NEW n \in Nat \ {0}
    PROVE  /\ Rehash(x, n) \in Node /\ Rehash(x, n).bucket \in 0 .. n - 1
           /\ AtHome(Rehash(x, n), Rehash(x, n).bucket, n)
           /\ Rehash(x, n).key = x.key /\ Rehash(x, n).value = x.value
<1> DEFINE b == Hashcode[x.key] % n
<1>1. x.key \in Key /\ Hashcode[x.key] \in Nat
  BY Folds DEF Node
<1>2. b \in 0 .. n - 1 /\ b \in Nat
  <2>1. \A h \in Nat, m \in Nat \ {0} : h % m \in 0 .. m - 1
    OBVIOUS
  <2>2. b \in 0 .. n - 1
    BY <1>1, <2>1
  <2> HIDE DEF b
  <2> QED  BY <2>2
<1>3. Rehash(x, n) = [x EXCEPT !.bucket = b]
  BY DEF Rehash
<1> HIDE DEF b
<1>4. /\ Rehash(x, n) \in Node /\ Rehash(x, n).bucket = b
      /\ Rehash(x, n).key = x.key /\ Rehash(x, n).value = x.value
  BY <1>2, <1>3 DEF Node
<1> QED  BY <1>2, <1>4 DEF AtHome, b

------------------------------------------------------------------------------
(***************************************************************************)
(* Rebuilding the table.                                                   *)
(***************************************************************************)
Place(bs, x) == [bs EXCEPT ![x.bucket] = <<x>> \o @]

\* The recursive function of Resize, step by step.
LEMMA ResizeSteps ==
    ASSUME NEW t, Chained(t), NEW n \in Nat \ {0}
    PROVE  \E f \in [0 .. Len(Nodes(t)) -> [0 .. n - 1 -> Seq(Node)]] :
            /\ f[0] = Empty(n).buckets
            /\ \A i \in 1 .. Len(Nodes(t)) : f[i] = Place(f[i - 1], Rehash(Nodes(t)[i], n))
            /\ Resize(t, n) = [t EXCEPT !.bcount = n, !.buckets = f[Len(Nodes(t))]]
<1> DEFINE ns == Nodes(t)
           m == Len(ns)
           a == Empty(n).buckets
           V == [0 .. n - 1 -> Seq(Node)]
           Rec(f) == f = [k \in 0 .. m |-> IF k = 0 THEN a
                            ELSE LET x == Rehash(ns[k], n) IN [f[k - 1] EXCEPT ![x.bucket] = <<x>> \o @]]
           Step(i, v) == IF i \in 1 .. m THEN Place(v, Rehash(ns[i], n)) ELSE v
           F == [i \in Nat |-> [v \in V |-> Step(i, v)]]
           X(i) == Rehash(ns[i], n)
<1>1. m \in Nat /\ \A i \in 1 .. m : ns[i] \in Node
  <2>1. ns \in Seq(Node)
    BY AllApart
  <2> QED  BY <2>1, LenProperties, ElementOfSeq
<1>12. Resize(t, n) = [t EXCEPT !.bcount = n, !.buckets = (CHOOSE h : Rec(h))[m]]
  BY DEF Resize
<1>0. \A f : Rec(f) <=> f = [k \in 0 .. m |-> IF k = 0 THEN a ELSE Place(f[k - 1], X(k))]
  BY DEF Place
<1> HIDE DEF ns, m, Rec
<1>2. a \in V
  <2>1. a = [b \in 0 .. n - 1 |-> <<>>]
    BY DEF Empty
  <2>2. <<>> \in Seq(Node)
    BY EmptySeq
  <2> HIDE DEF a
  <2> QED  BY <2>1, <2>2
<1>3. \A i \in Nat, v \in V : Step(i, v) \in V
  <2> SUFFICES ASSUME NEW i \in 1 .. m, NEW v \in V
               PROVE  Place(v, X(i)) \in V
    OBVIOUS
  <2>1. X(i) \in Node /\ X(i).bucket \in 0 .. n - 1
    BY <1>1, RehashNode
  <2>2. v[X(i).bucket] \in Seq(Node)
    BY <2>1
  <2> HIDE DEF X
  <2>3. <<X(i)>> \o v[X(i).bucket] \in Seq(Node)
    BY <2>1, <2>2, InFront
  <2> QED  BY <2>1, <2>3 DEF Place
<1> HIDE DEF a
<1>4. F \in [Nat -> [V -> V]]
  <2> HIDE DEF Step, V
  <2> QED  BY <1>3
<1>5. \A i \in Nat, v \in V : F[i][v] = Step(i, v)
  <2> HIDE DEF Step, V
  <2> QED  OBVIOUS
<1> HIDE DEF F, V
<1>6. PICK f \in [0 .. m -> V] : f[0] = a /\ \A i \in 1 .. m : f[i] = F[i][f[i - 1]]
  <2>1. \E f : Recursive(f, m, V, a, F)
    BY <1>1, <1>2, <1>4, RecursionExists
  <2> QED  BY <2>1 DEF Recursive
<1>7. \A i \in 1 .. m : f[i] = Place(f[i - 1], X(i))
  <2> SUFFICES ASSUME NEW i \in 1 .. m
               PROVE  f[i] = Place(f[i - 1], X(i))
    OBVIOUS
  <2>1. i \in Nat /\ i - 1 \in 0 .. m /\ f[i - 1] \in V
    BY <1>1
  <2>2. f[i] = Step(i, f[i - 1])
    <3> HIDE DEF Step
    <3> QED  BY <2>1, <1>5, <1>6
  <2> QED  BY <2>2
<1> HIDE DEF X
<1>8. Rec(f)
  <2> DEFINE Body(i) == IF i = 0 THEN a ELSE Place(f[i - 1], X(i))
  <2>1. \A i \in 0 .. m : i = 0 \/ i \in 1 .. m
    BY <1>1
  <2>2. \A i \in 0 .. m : f[i] = Body(i)
    BY <2>1, <1>6, <1>7
  <2> HIDE DEF Body
  <2>3. f = [i \in 0 .. m |-> Body(i)]
    BY <2>2
  <2> QED  BY <1>0, <2>3 DEF Body
<1> DEFINE g == CHOOSE h : Rec(h)
<1>9. Rec(g)
  BY <1>8
<1>13. Resize(t, n) = [t EXCEPT !.bcount = n, !.buckets = g[m]]
  BY <1>12
<1> HIDE DEF g
<1>14. g = [k \in 0 .. m |-> IF k = 0 THEN a ELSE Place(g[k - 1], X(k))]
  BY <1>0, <1>9
<1>10. g[0] = a /\ \A i \in 1 .. m : g[i] = Place(g[i - 1], X(i))
  <2>1. \A i \in 1 .. m : i \in 0 .. m /\ i # 0
    BY <1>1
  <2>2. 0 \in 0 .. m
    BY <1>1
  <2> QED  BY <1>14, <2>1, <2>2
<1>11. g \in [0 .. m -> V]
  <2>1. ASSUME NEW i \in 1 .. m, g[i - 1] \in V
        PROVE  g[i] = F[i][g[i - 1]]
    <3>1. i \in Nat /\ g[i] = Place(g[i - 1], X(i))
      BY <1>1, <1>10
    <3>2. Step(i, g[i - 1]) = Place(g[i - 1], X(i))
      BY DEF X
    <3> HIDE DEF Step
    <3> QED  BY <3>1, <3>2, <2>1, <1>5
  <2>2. Obeys(g, m, V, a, F)
    BY <2>1, <1>10 DEF Obeys
  <2>3. \A i \in 0 .. m : g[i] \in V
    BY <2>2, <1>1, <1>2, <1>4, RecursionType
  <2>4. g = [i \in 0 .. m |-> g[i]]
    BY <1>14
  <2> QED  BY <2>3, <2>4
<1> QED  BY <1>10, <1>11, <1>13 DEF V, X, ns, m, a

\* Table t rebuilt as u, with n buckets.
LEMMA ResizeTidy ==
    ASSUME NEW t, Tidy(t), NEW n \in Nat \ {0}, t.bcount =< n, NEW u, u = Resize(t, n)
    PROVE  /\ Tidy(u) /\ u.bcount = n /\ u.count = t.count /\ Keys(u) = Keys(t)
           /\ \A x : x \in NodeSet(u) <=> \E y \in NodeSet(t) : x = Rehash(y, n)
<1> DEFINE ns == Nodes(t)
           m == Len(ns)
           X(i) == Rehash(ns[i], n)
           V == [0 .. n - 1 -> Seq(Node)]
<1>1. Chained(t) /\ IsTable(t) /\ t.count \in Nat /\ t.bcount \in Nat
  BY DEF Tidy, IsTable
<1>2. /\ m \in Nat /\ Apart(ns)
      /\ \A i \in 1 .. m : ns[i] \in Node
      /\ \A x : x \in NodeSet(t) <=> \E k \in 1 .. m : x = ns[k]
  <2>1. /\ ns \in Seq(Node) /\ m \in Nat /\ Apart(ns)
        /\ \A x : x \in NodeSet(t) <=> \E k \in 1 .. m : x = ns[k]
    BY <1>1, AllApart
  <2> HIDE DEF ns
  <2> QED  BY <2>1, ElementOfSeq
<1>3. PICK f \in [0 .. m -> V] :
            /\ f[0] = Empty(n).buckets
            /\ \A i \in 1 .. m : f[i] = Place(f[i - 1], X(i))
            /\ Resize(t, n) = [t EXCEPT !.bcount = n, !.buckets = f[m]]
  BY <1>1, ResizeSteps
<1>4. \A i \in 1 .. m : /\ X(i) \in Node /\ X(i).bucket \in 0 .. n - 1
                        /\ AtHome(X(i), X(i).bucket, n) /\ X(i).key = ns[i].key
  BY <1>2, RehashNode
<1>5. \A i, j \in 1 .. m : Folded[X(i).key] = Folded[X(j).key] => i = j
  <2> SUFFICES ASSUME NEW i \in 1 .. m, NEW j \in 1 .. m, Folded[X(i).key] = Folded[X(j).key]
               PROVE  i = j
    OBVIOUS
  <2> HIDE DEF X, ns
  <2>1. X(i).key = ns[i].key /\ X(j).key = ns[j].key
    BY ONLY <1>4, i \in 1 .. m, j \in 1 .. m
  <2>2. Folded[ns[i].key] = Folded[ns[j].key]
    BY <2>1
  <2> QED  BY ONLY <1>2, <2>2, i \in 1 .. m, j \in 1 .. m DEF Apart
<1> HIDE DEF ns, m, X
\* The tables in between.
<1> DEFINE At(k) == [bcount |-> n, count |-> 0, buckets |-> f[k]]
           Good(k) == /\ Chained(At(k))
                      /\ \A x : x \in NodeSet(At(k)) <=> \E i \in 1 .. k : x = X(i)
           T == {k \in Nat : k =< m => Good(k)}
<1>6. 0 \in T
  <2>1. Empty(n) = At(0)
    BY <1>3 DEF Empty
  <2>2. Chained(Empty(n)) /\ NodeSet(Empty(n)) = {}
    BY EmptyTidy DEF Tidy
  <2> HIDE DEF At
  <2> QED  BY <2>1, <2>2
<1>7. ASSUME NEW k \in Nat, k \in T
      PROVE  k + 1 \in T
  <2> SUFFICES ASSUME k + 1 =< m
               PROVE  Good(k + 1)
    OBVIOUS
  <2>1. Good(k) /\ k + 1 \in 1 .. m /\ (k + 1) - 1 = k /\ k \in 0 .. m /\ k + 1 \in 0 .. m
    BY <1>2, <1>7
  <2> DEFINE x == X(k + 1)
             v == At(k)
             w == At(k + 1)
  <2>2. x \in Node /\ x.bucket \in 0 .. n - 1 /\ AtHome(x, x.bucket, n)
    BY <1>4, <2>1
  <2>3. f[k + 1] = Place(f[k], x)
    BY <1>3, <2>1
  <2>4. v.bcount = n /\ v.buckets = f[k] /\ w.bcount = n /\ w.buckets = f[k + 1]
    OBVIOUS
  <2>5. Chained(v) /\ \A y : y \in NodeSet(v) <=> \E i \in 1 .. k : y = X(i)
    BY <2>1
  <2>10. Good(k + 1) <=> /\ Chained(w)
                         /\ \A y : y \in NodeSet(w) <=> \E i \in 1 .. k + 1 : y = X(i)
    OBVIOUS
  <2> HIDE DEF v, w, Good
  <2>6. Folded[x.key] \notin Keys(v)
    <3> SUFFICES ASSUME NEW y \in NodeSet(v), Folded[x.key] = Folded[y.key]
                 PROVE  FALSE
      BY DEF Keys
    <3>1. PICK i \in 1 .. k : y = X(i)
      BY <2>5
    <3>2. i \in 1 .. m /\ i # k + 1
      BY <1>2, <2>1
    <3> QED  BY <1>5, <2>1, <3>1, <3>2
  <2>7. WithChain(v, w, x.bucket, <<x>> \o v.buckets[x.bucket])
    BY <2>3, <2>4 DEF WithChain, Place
  <2> HIDE DEF x
  <2>8. Pushed(v, w, x)
    <3>1. x.bucket \in 0 .. v.bcount - 1 /\ AtHome(x, x.bucket, v.bcount)
      BY <2>2, <2>4
    <3> QED  BY <2>2, <2>5, <2>6, <2>7, <3>1, PushChained
  <2>9. ASSUME NEW y
        PROVE  y \in NodeSet(w) <=> \E i \in 1 .. k + 1 : y = X(i)
    <3>1. y \in NodeSet(w) <=> y \in NodeSet(v) \/ y = x
      BY <2>8 DEF Pushed
    <3>2. \A i : i \in 1 .. k + 1 <=> i \in 1 .. k \/ i = k + 1
      OBVIOUS
    <3> QED  BY <2>5, <3>1, <3>2 DEF x
  <2> QED  BY <2>8, <2>9, <2>10 DEF Pushed
<1> HIDE DEF T
<1>8. \A k \in Nat : k \in T
  BY <1>6, <1>7, Induction
<1>9. Good(m)
  BY <1>2, <1>8 DEF T
<1> DEFINE bs == f[m]
<1>10. u.bcount = n /\ u.buckets = bs /\ u.count = t.count /\ IsTable(u)
  <2> HIDE DEF bs
  <2>1. t \in [bcount : Nat, count : Nat, buckets : {t.buckets}]
    BY <1>1 DEF IsTable
  <2>2. u = [t EXCEPT !.bcount = n, !.buckets = bs]
    BY <1>3 DEF bs
  <2>3. u.bcount = n /\ u.buckets = bs /\ u.count = t.count
    BY <2>1, <2>2
  <2>4. u \in [bcount : Nat, count : Nat, buckets : {bs}]
    BY <2>1, <2>2
  <2> QED  BY <2>3, <2>4 DEF IsTable
<1>11. Chained(u) /\ \A x : x \in NodeSet(u) <=> \E i \in 1 .. m : x = X(i)
  <2> DEFINE v == At(m)
  <2>1. v.bcount = n /\ v.buckets = bs
    OBVIOUS
  <2>2. Chained(v) /\ \A x : x \in NodeSet(v) <=> \E i \in 1 .. m : x = X(i)
    BY <1>9
  <2> HIDE DEF v, bs, Good
  <2>3. NodeSet(u) = NodeSet(v)
    BY <1>10, <2>1 DEF NodeSet
  <2>4. Chained(u)
    BY <1>10, <2>1, <2>2 DEF Chained, HasChains
  <2> QED  BY <2>2, <2>3, <2>4
<1> HIDE DEF Good, bs
<1>12. \A x : x \in NodeSet(u) <=> \E y \in NodeSet(t) : x = Rehash(y, n)
  BY <1>2, <1>11 DEF X
<1>13. Keys(u) = Keys(t)
  <2>1. ASSUME NEW x \in Keys(u)
        PROVE  x \in Keys(t)
    <3>1. PICK y \in NodeSet(u) : x = Folded[y.key]
      BY DEF Keys
    <3>2. PICK i \in 1 .. m : y = X(i)
      BY <1>11
    <3>3. ns[i] \in NodeSet(t) /\ y.key = ns[i].key
      BY <1>2, <1>4, <3>2
    <3> QED  BY <3>1, <3>3 DEF Keys
  <2>2. ASSUME NEW x \in Keys(t)
        PROVE  x \in Keys(u)
    <3>1. PICK y \in NodeSet(t) : x = Folded[y.key]
      BY DEF Keys
    <3>2. PICK i \in 1 .. m : y = ns[i]
      BY <1>2
    <3>3. X(i) \in NodeSet(u) /\ X(i).key = y.key
      BY <1>4, <1>11, <3>2
    <3> QED  BY <3>1, <3>3 DEF Keys
  <2> QED  BY <2>1, <2>2
<1>14. t.count =< (3 * n) \div 4
  <2>1. \A x, y \in Nat : x =< y => (3 * x) \div 4 =< (3 * y) \div 4
    OBVIOUS
  <2>2. t.count =< (3 * t.bcount) \div 4
    BY DEF Tidy
  <2>3. (3 * t.bcount) \div 4 \in Int /\ (3 * n) \div 4 \in Int
    BY <1>1
  <2> QED  BY <1>1, <2>1, <2>2, <2>3
<1>15. Tidy(u)
  BY <1>10, <1>11, <1>13, <1>14 DEF Tidy
<1> QED  BY <1>10, <1>12, <1>13, <1>15

------------------------------------------------------------------------------
(***************************************************************************)
(* What the operations do to the table.                                    *)
(***************************************************************************)
Swapped(t, u, old, new) ==
    /\ Tidy(u) /\ u.bcount = t.bcount
    /\ \A n : n \in NodeSet(u) <=> (n \in NodeSet(t) /\ n # old) \/ n = new
Taken(t, u, n) ==
    /\ Tidy(u) /\ u.bcount = t.bcount
    /\ \A x : x \in NodeSet(u) <=> x \in NodeSet(t) /\ x # n
Added(t, u, x) ==
    /\ Tidy(u) /\ u.bcount = t.bcount
    /\ \A n : n \in NodeSet(u) <=> n \in NodeSet(t) \/ n = x
Grown(t, u) ==
    /\ Tidy(u)
    /\ \A x : x \in NodeSet(u) <=> \E y \in NodeSet(t) : x = Rehash(y, u.bcount)
    /\ Keys(u) = Keys(t)

\* ls_htable_put over an entry, and ls_hnode_put_value.
LEMMA ReplaceFound ==
    ASSUME NEW t, Tidy(t), t.bcount > 0, NEW key \in Key, IsIn(t, key),
           NEW old, old = FindNode(t, key), NEW new \in Node, new.bucket = old.bucket,
           Folded[new.key] = Folded[key], NEW u, u = ReplaceIn(t, old, new)
    PROVE  Swapped(t, u, old, new) /\ old \in NodeSet(t) /\ Folded[old.key] = Folded[key]
<1>1. old \in NodeSet(t) /\ Folded[old.key] = Folded[key]
  BY FindIs DEF Tidy
<1>2. Folded[new.key] = Folded[old.key]
  BY <1>1
<1>3. /\ Tidy(u) /\ u.bcount = t.bcount
      /\ \A n : n \in NodeSet(u) <=> (n \in NodeSet(t) /\ n # old) \/ n = new
  BY <1>1, <1>2, ReplaceTidy
<1> QED  BY <1>1, <1>3 DEF Swapped

Places(t, n) == {i \in DOMAIN t.buckets[n.bucket] : t.buckets[n.bucket][i] = n}
Bereft(t, n, k) ==
    [t EXCEPT !.buckets[n.bucket] = RemoveAt(t.buckets[n.bucket], k), !.count = @ - 1]

\* ls_htable_remove finds the node in the chain the node names.
LEMMA RemoveFound ==
    ASSUME NEW t, Tidy(t), t.bcount > 0, NEW key \in Key, IsIn(t, key),
           NEW n, n = FindNode(t, key), NEW at, at = Places(t, n)
    PROVE  /\ n \in NodeSet(t) /\ Folded[n.key] = Folded[key]
           /\ at # {} /\ Min(at) \in 1 .. Len(t.buckets[n.bucket])
           /\ t.buckets[n.bucket][Min(at)] = n
           /\ \A u : u = Bereft(t, n, Min(at)) => Taken(t, u, n)
<1> DEFINE chain == t.buckets[n.bucket]
<1>1. Chained(t) /\ HasChains(t)
  BY DEF Tidy, Chained
<1>2. n \in NodeSet(t) /\ Folded[n.key] = Folded[key]
  BY <1>1, FindIs
<1>3. n.bucket \in 0 .. t.bcount - 1 /\ \E i \in 1 .. Len(chain) : n = chain[i]
  BY <1>1, <1>2, NodeHome
<1>4. DOMAIN chain = 1 .. Len(chain) /\ Len(chain) \in Nat
  BY <1>1, <1>3, NodeSetIs
<1>5. at # {} /\ at \subseteq Nat
  BY <1>3, <1>4 DEF Places
<1>6. \E i \in at : \A j \in at : i =< j
  BY <1>5, LeastNumber
<1>7. Min(at) \in at
  BY <1>6 DEF Min
<1>8. Min(at) \in 1 .. Len(chain) /\ chain[Min(at)] = n
  BY <1>4, <1>7 DEF Places
<1>9. ASSUME NEW u, u = Bereft(t, n, Min(at))
      PROVE  Taken(t, u, n)
  <2> DEFINE k == Min(at)
  <2>1. u = Changed(t, n.bucket, RemoveAt(chain, k), t.count - 1)
    BY <1>9 DEF Changed, Bereft
  <2> HIDE DEF k
  <2>2. k \in 1 .. Len(t.buckets[n.bucket]) /\ t.buckets[n.bucket][k] = n
    BY <1>8 DEF k
  <2>3. /\ Tidy(u) /\ u.bcount = t.bcount
        /\ \A x : x \in NodeSet(u) <=> x \in NodeSet(t) /\ x # n
    BY <1>2, <2>1, <2>2, RemoveTidy
  <2> QED  BY <2>3 DEF Taken
<1> QED  BY <1>2, <1>5, <1>8, <1>9

\* The table ls_htable_put uses for a new key has room for it.
LEMMA Room ==
    ASSUME NEW t, Tidy(t), t.bcount > 0,
           NEW u, u = IF Full(t) THEN Resize(t, 2 * t.bcount + 1) ELSE t
    PROVE  /\ Tidy(u) /\ u.bcount > 0 /\ Keys(u) = Keys(t)
           /\ u.count + 1 =< (3 * u.bcount) \div 4
           /\ Full(t) => Grown(t, u)
           /\ ~Full(t) => u = t
<1>1. t.bcount \in Nat \ {0} /\ t.count \in Nat /\ t.count =< (3 * t.bcount) \div 4
  BY DEF Tidy, IsTable
<1>2. CASE Full(t)
  <2> DEFINE n == 2 * t.bcount + 1
  <2>1. n \in Nat \ {0} /\ t.bcount =< n /\ n > 0
    BY <1>1
  <2>2. u = Resize(t, n)
    BY <1>2
  <2>3. t.count + 1 =< (3 * n) \div 4
    <3>1. \A b, c \in Nat : b > 0 /\ c =< (3 * b) \div 4 => c + 1 =< (3 * (2 * b + 1)) \div 4
      OBVIOUS
    <3> QED  BY <1>1, <3>1
  <2> HIDE DEF n
  <2>4. /\ Tidy(u) /\ u.bcount = n /\ u.count = t.count /\ Keys(u) = Keys(t)
        /\ \A x : x \in NodeSet(u) <=> \E y \in NodeSet(t) : x = Rehash(y, n)
    BY <2>1, <2>2, ResizeTidy
  <2> QED  BY <1>2, <2>1, <2>3, <2>4 DEF Grown
<1>3. CASE ~Full(t)
  <2>1. ~(t.count + 1 > (t.bcount * 3) \div 4)
    BY <1>3 DEF Full
  <2>2. t.bcount * 3 = 3 * t.bcount
    BY <1>1
  <2>3. (3 * t.bcount) \div 4 \in Int /\ ~(t.count + 1 > (3 * t.bcount) \div 4)
    BY <1>1, <2>1, <2>2
  <2>4. t.count + 1 =< (3 * t.bcount) \div 4
    BY <1>1, <2>3
  <2> QED  BY <1>3, <2>4
<1> QED  BY <1>2, <1>3

\* ls_htable_put of a new key adds its node.
NodeFor(t, key, v) == [key |-> key, value |-> v, bucket |-> BucketOf(t, key)]

LEMMA PutAdds ==
    ASSUME NEW t, Tidy(t), t.bcount > 0, NEW key \in Key, NEW v \in Val,
           Folded[key] \notin Keys(t), t.count + 1 =< (3 * t.bcount) \div 4,
           NEW x, x = NodeFor(t, key, v), NEW u, u = PushFront(t, x)
    PROVE  Added(t, u, x) /\ x \in Node /\ x.key = key /\ x.value = v
<1> DEFINE b == BucketOf(t, key)
<1>1. b \in 0 .. t.bcount - 1 /\ t.bcount \in Nat
  BY FindIs DEF Tidy, IsTable
<1>2. x \in Node /\ x.key = key /\ x.value = v /\ x.bucket = b
  BY <1>1 DEF Node, NodeFor
<1>3. AtHome(x, b, t.bcount)
  BY <1>2 DEF AtHome, BucketOf
<1>6. /\ Tidy(u) /\ u.bcount = t.bcount
      /\ \A n : n \in NodeSet(u) <=> n \in NodeSet(t) \/ n = x
  BY <1>1, <1>2, <1>3, PushTidy
<1> QED  BY <1>2, <1>6 DEF Added

------------------------------------------------------------------------------
(***************************************************************************)
(* Invariants of the table.                                                *)
(***************************************************************************)

\* A node with a new key and value, or with a new value.
Rekeyed(n, key, v) == [n EXCEPT !.key = key, !.value = v]
Revalued(n, v) == [n EXCEPT !.value = v]

LEMMA NewFields ==
    ASSUME NEW n \in Node, NEW key \in Key, NEW v \in Val
    PROVE  /\ Rekeyed(n, key, v) \in Node
           /\ Rekeyed(n, key, v).key = key
           /\ Rekeyed(n, key, v).value = v
           /\ Rekeyed(n, key, v).bucket = n.bucket
           /\ Revalued(n, v) \in Node
           /\ Revalued(n, v).key = n.key
           /\ Revalued(n, v).value = v
           /\ Revalued(n, v).bucket = n.bucket
<1> QED  BY DEF Node, Rekeyed, Revalued

\* What the calls do, of a table that is tidy.
LEMMA PutOverDoes ==
    ASSUME Tidy(tab), NEW key \in Key, NEW v \in Val, PutOver(key, v),
           NEW old, old = FindNode(tab, key), NEW new, new = Rekeyed(old, key, v)
    PROVE  /\ Swapped(tab, tab', old, new) /\ old \in NodeSet(tab) /\ old \in Node /\ new \in Node
           /\ Folded[old.key] = Folded[key] /\ new.key = key /\ new.value = v
           /\ new.bucket = old.bucket /\ tab' = ReplaceIn(tab, old, new)
<1>1. tab.bcount > 0 /\ IsIn(tab, key) /\ tab' = ReplaceIn(tab, old, new)
  BY DEF PutOver, InApp, Rekeyed
<1>2. old \in Node
  BY <1>1, FindIs, NodeHome DEF Tidy
<1>3. new \in Node /\ new.key = key /\ new.value = v /\ new.bucket = old.bucket
  BY <1>2, NewFields
<1>4. Folded[new.key] = Folded[key]
  BY <1>3
<1> QED  BY <1>1, <1>2, <1>3, <1>4, ReplaceFound

LEMMA PutValueDoes ==
    ASSUME Tidy(tab), NEW key \in Key, NEW v \in Val, PutValue(key, v),
           NEW old, old = FindNode(tab, key), NEW new, new = Revalued(old, v)
    PROVE  /\ Swapped(tab, tab', old, new) /\ old \in NodeSet(tab) /\ old \in Node /\ new \in Node
           /\ Folded[old.key] = Folded[key] /\ new.key = old.key /\ new.value = v
           /\ new.bucket = old.bucket /\ tab' = ReplaceIn(tab, old, new)
<1>1. tab.bcount > 0 /\ IsIn(tab, key) /\ tab' = ReplaceIn(tab, old, new)
  BY DEF PutValue, InApp, Revalued
<1>2. old \in Node /\ Folded[old.key] = Folded[key]
  BY <1>1, FindIs, NodeHome DEF Tidy
<1>3. new \in Node /\ new.key = old.key /\ new.value = v /\ new.bucket = old.bucket
  BY <1>2, NewFields
<1>4. Folded[new.key] = Folded[key]
  BY <1>2, <1>3
<1> QED  BY <1>1, <1>2, <1>3, <1>4, ReplaceFound

LEMMA RemoveDoes ==
    ASSUME Tidy(tab), NEW key \in Key, HtableRemove(key), NEW n, n = FindNode(tab, key)
    PROVE  /\ Taken(tab, tab', n) /\ n \in NodeSet(tab) /\ Folded[n.key] = Folded[key]
           /\ Clean({n}, {n.key}, tab') /\ Disturb({Folded[key]}, FALSE) /\ UNCHANGED hfault
           /\ \E k \in 1 .. Len(tab.buckets[n.bucket]) :
                /\ tab.buckets[n.bucket][k] = n
                /\ tab' = Changed(tab, n.bucket, RemoveAt(tab.buckets[n.bucket], k), tab.count - 1)
<1> DEFINE at == Places(tab, n)
<1>1. tab.bcount > 0 /\ IsIn(tab, key)
  BY DEF HtableRemove, InApp
<1>2. /\ n \in NodeSet(tab) /\ Folded[n.key] = Folded[key]
      /\ at # {} /\ Min(at) \in 1 .. Len(tab.buckets[n.bucket])
      /\ tab.buckets[n.bucket][Min(at)] = n
      /\ \A u : u = Bereft(tab, n, Min(at)) => Taken(tab, u, n)
  BY <1>1, RemoveFound
<1>3. /\ tab' = Bereft(tab, n, Min(at))
      /\ Clean({n}, {n.key}, tab') /\ Disturb({Folded[key]}, FALSE) /\ UNCHANGED hfault
  BY <1>2 DEF HtableRemove, Bereft, Places
<1>4. tab' = Changed(tab, n.bucket, RemoveAt(tab.buckets[n.bucket], Min(at)), tab.count - 1)
  BY <1>3 DEF Changed, Bereft
<1> HIDE DEF at
<1> QED  BY <1>2, <1>3, <1>4

\* A put of a new key leaves the table as it was, grown, or grown or not with
\* the new entry.
LEMMA PutNewDoes ==
    ASSUME Tidy(tab), NEW key \in Key, NEW v \in Val, PutNew(key, v),
           NEW t, t = IF Full(tab) THEN Resize(tab, 2 * tab.bcount + 1) ELSE tab
    PROVE  /\ Tidy(t) /\ t.bcount > 0 /\ Keys(t) = Keys(tab)
           /\ Full(tab) => Grown(tab, t)
           /\ ~Full(tab) => t = tab
           /\ Folded[key] \notin Keys(t)
           /\ \/ \E x \in Node : /\ x.key = key /\ x.value = v /\ Added(t, tab', x)
                                 /\ tab' = PushFront(t, x)
                                 /\ Clean({}, {}, tab')
              \/ Full(tab) /\ tab' = t /\ UNCHANGED <<cleaned, deadKeys>>
           /\ Disturb({}, Full(tab)) /\ UNCHANGED hfault
<1> DEFINE b == BucketOf(t, key)
           x == [key |-> key, value |-> v, bucket |-> b]
<1>1. /\ tab.bcount > 0 /\ ~IsIn(tab, key) /\ Disturb({}, Full(tab)) /\ UNCHANGED hfault
      /\ \/ /\ tab' = [t EXCEPT !.buckets[b] = <<x>> \o @, !.count = @ + 1]
            /\ Clean({}, {}, tab')
         \/ Full(tab) /\ tab' = t /\ UNCHANGED <<cleaned, deadKeys>>
  BY DEF PutNew, InApp
<1>2. /\ Tidy(t) /\ t.bcount > 0 /\ Keys(t) = Keys(tab)
      /\ t.count + 1 =< (3 * t.bcount) \div 4
      /\ Full(tab) => Grown(tab, t)
      /\ ~Full(tab) => t = tab
  BY <1>1, Room
<1>3. Folded[key] \notin Keys(t)
  <2>1. Folded[key] \notin Keys(tab)
    BY <1>1, FindIs DEF Tidy
  <2> QED  BY <1>2, <2>1
<1>4. ASSUME tab' = [t EXCEPT !.buckets[b] = <<x>> \o @, !.count = @ + 1]
      PROVE  /\ x \in Node /\ x.key = key /\ x.value = v /\ Added(t, tab', x)
             /\ tab' = PushFront(t, x)
  <2>1. tab' = PushFront(t, x)
    <3>1. x.bucket = b
      OBVIOUS
    <3> HIDE DEF x, b
    <3> QED  BY <1>4, <3>1 DEF PushFront, Changed
  <2>2. x = NodeFor(t, key, v)
    BY DEF NodeFor
  <2> HIDE DEF x, b
  <2>3. Added(t, tab', x) /\ x \in Node /\ x.key = key /\ x.value = v
    BY <1>2, <1>3, <2>1, <2>2, PutAdds
  <2> QED  BY <2>1, <2>3
<1> HIDE DEF x, b
<1> QED  BY <1>1, <1>2, <1>3, <1>4

LEMMA ClearDoes ==
    ASSUME Tidy(tab), HtableClear \/ HtableDestroy \/ \E n \in FirstBuckets : HtableCreate(n)
    PROVE  /\ Tidy(tab') /\ NodeSet(tab') = {}
           /\ HtableClear \/ HtableDestroy => Clean(NodeSet(tab), Key, tab')
           /\ (\E n \in FirstBuckets : HtableCreate(n)) => tab.bcount = 0 /\ NodeSet(tab) = {}
<1>1. tab.bcount \in Nat /\ HasChains(tab)
  BY DEF Tidy, Chained, HasChains
<1>2. PICK n \in Nat : tab' = Empty(n)
  BY <1>1, HtableAssumption DEF HtableClear, HtableDestroy, HtableCreate, NoTable
<1>3. Tidy(tab') /\ NodeSet(tab') = {}
  BY <1>2, EmptyTidy
<1>4. ASSUME tab.bcount = 0
      PROVE  NodeSet(tab) = {}
  BY <1>4 DEF NodeSet
<1> QED  BY <1>3, <1>4 DEF HtableClear, HtableDestroy, HtableCreate

\* The table is tidy, and no destroyed key is in it.
TableInv == Tidy(tab) /\ deadKeys = {}

LEMMA TableStep ==
    ASSUME TableInv, [HtableNext]_htableVars
    PROVE  TableInv'
<1>1. Tidy(tab) /\ Chained(tab) /\ deadKeys = {}
  BY DEF TableInv, Tidy
<1>2. ASSUME NEW key \in Key, NEW v \in Val, PutOver(key, v)
      PROVE  TableInv'
  <2> DEFINE old == FindNode(tab, key)
             new == Rekeyed(old, key, v)
  <2>1. /\ Swapped(tab, tab', old, new) /\ old \in NodeSet(tab)
        /\ Folded[old.key] = Folded[key] /\ new.key = key
    <3>1. new = Rekeyed(old, key, v) /\ old = FindNode(tab, key)
      OBVIOUS
    <3> HIDE DEF new, old
    <3> QED  BY <1>1, <1>2, <3>1, PutOverDoes
  <2>2. Clean({old}, {old.key} \ {key}, tab')
    BY <1>2 DEF PutOver
  <2> HIDE DEF old, new
  <2>3. Tidy(tab') /\ Chained(tab') /\ new \in NodeSet(tab')
    BY <2>1 DEF Swapped, Tidy
  <2>4. ASSUME NEW n \in NodeSet(tab'), n.key = old.key
        PROVE  old.key = key
    <3>1. n = new
      BY <2>1, <2>3, <2>4, Unique
    <3> QED  BY <2>1, <2>4, <3>1
  <2>5. deadKeys' = {}
    BY <1>1, <2>2, <2>4 DEF Clean
  <2> QED  BY <2>3, <2>5 DEF TableInv
<1>3. ASSUME NEW key \in Key, NEW v \in Val, PutNew(key, v)
      PROVE  TableInv'
  <2> DEFINE t == IF Full(tab) THEN Resize(tab, 2 * tab.bcount + 1) ELSE tab
  <2>1. /\ Tidy(t)
        /\ \/ \E x \in Node : Added(t, tab', x) /\ Clean({}, {}, tab')
           \/ Full(tab) /\ tab' = t /\ UNCHANGED <<cleaned, deadKeys>>
    BY <1>1, <1>3, PutNewDoes
  <2> HIDE DEF t
  <2> QED  BY <1>1, <2>1 DEF Added, TableInv, Clean
<1>4. ASSUME NEW key \in Key, NEW v \in Val, PutValue(key, v)
      PROVE  TableInv'
  <2> DEFINE old == FindNode(tab, key)
             new == Revalued(old, v)
  <2>1. Swapped(tab, tab', old, new)
    BY <1>1, <1>4, PutValueDoes
  <2>2. Clean({old}, {}, tab')
    BY <1>4 DEF PutValue
  <2> HIDE DEF old, new
  <2> QED  BY <1>1, <2>1, <2>2 DEF Swapped, TableInv, Clean
<1>5. ASSUME NEW key \in Key, HtableRemove(key)
      PROVE  TableInv'
  <2> DEFINE n == FindNode(tab, key)
  <2>1. Taken(tab, tab', n) /\ n \in NodeSet(tab) /\ Clean({n}, {n.key}, tab')
    BY <1>1, <1>5, RemoveDoes
  <2> HIDE DEF n
  <2>2. ASSUME NEW m \in NodeSet(tab'), m.key = n.key
        PROVE  FALSE
    <3>1. m \in NodeSet(tab) /\ m # n
      BY <2>1 DEF Taken
    <3> QED  BY <1>1, <2>1, <2>2, <3>1, Unique
  <2> QED  BY <1>1, <2>1, <2>2 DEF Taken, TableInv, Clean
<1>6. ASSUME HtableClear \/ HtableDestroy
      PROVE  TableInv'
  <2>1. Tidy(tab') /\ NodeSet(tab') = {} /\ Clean(NodeSet(tab), Key, tab')
    BY <1>1, <1>6, ClearDoes
  <2> QED  BY <2>1 DEF TableInv, Clean
<1>7. ASSUME NEW n \in FirstBuckets, HtableCreate(n)
      PROVE  TableInv'
  <2>1. Tidy(tab')
    BY <1>1, <1>7, ClearDoes
  <2> QED  BY <1>1, <1>7, <2>1 DEF TableInv, HtableCreate
<1>8. CASE UNCHANGED <<tab, deadKeys>>
  BY <1>1, <1>8 DEF TableInv
<1>9. ASSUME WalkStart \/ WalkStep \/ WalkReturns \/ (\E go \in BOOLEAN : FuncReturns(go)) \/ UNCHANGED htableVars
      PROVE  UNCHANGED <<tab, deadKeys>>
  BY <1>9 DEF WalkStart, WalkStep, WalkReturns, FuncReturns, htableVars
<1> QED  BY <1>2, <1>3, <1>4, <1>5, <1>6, <1>7, <1>8, <1>9 DEF HtableNext

LEMMA TableAlways == HtableSpec => []TableInv
<1>1. HtableInit => TableInv
  <2>1. Tidy(NoTable)
    BY EmptyTidy DEF NoTable
  <2> QED  BY <2>1 DEF HtableInit, TableInv
<1> QED  BY <1>1, TableStep, PTL DEF HtableSpec

\* ls_htable_put, ls_htable_remove and _resize_hashtable keep every node in the
\* chain of its hash, one node for a key, the count and the load limit.
THEOREM Sorted == HtableSpec => []TableSound
<1>1. ASSUME TableInv
      PROVE  TableSound
  <2>1. Tidy(tab) /\ Chained(tab) /\ HasChains(tab) /\ tab.count =< (3 * tab.bcount) \div 4
        /\ tab.count = Cardinality(Keys(tab))
    BY <1>1 DEF TableInv, Tidy, Chained
  <2>2. ASSUME NEW b \in 0 .. tab.bcount - 1, NEW n \in Range(tab.buckets[b])
        PROVE  n.bucket = b /\ BucketOf(tab, n.key) = b
    <3>1. DOMAIN tab.buckets[b] = 1 .. Len(tab.buckets[b])
      BY <2>1, NodeSetIs
    <3>2. PICK i \in 1 .. Len(tab.buckets[b]) : n = tab.buckets[b][i]
      BY <3>1 DEF Range
    <3>3. AtHome(n, b, tab.bcount)
      BY <2>1, <3>2 DEF Chained
    <3> QED  BY <3>3 DEF AtHome, BucketOf
  <2>3. /\ Apart(Nodes(tab)) /\ DOMAIN Nodes(tab) = 1 .. Len(Nodes(tab))
        /\ tab.count = Len(Nodes(tab))
    <3>1. Nodes(tab) \in Seq(Node) /\ Apart(Nodes(tab)) /\ Cardinality(Keys(tab)) = Len(Nodes(tab))
      BY <2>1, AllApart, KeysCounted
    <3> QED  BY <2>1, <3>1, LenProperties
  <2> QED  BY <2>1, <2>2, <2>3 DEF TableSound, Apart, SameKey
<1> QED  BY <1>1, TableAlways, PTL

\* ls_htable_put, ls_htable_remove and ls_htable_clear hand no key to a cleaner
\* for destruction that a node goes on using.
THEOREM NoKeyDies == HtableSpec => []KeysLive
<1>1. TableInv => KeysLive
  BY DEF TableInv, KeysLive
<1> QED  BY <1>1, TableAlways, PTL

------------------------------------------------------------------------------
(***************************************************************************)
(* ls_htable_walk.                                                         *)
(***************************************************************************)

\* node->next of the node at place k of its chain.
LEMMA NextIs ==
    ASSUME NEW t, Chained(t), NEW b \in 0 .. t.bcount - 1, NEW k \in 1 .. Len(t.buckets[b])
    PROVE  ChainNext(t, t.buckets[b][k]) =
            IF k = Len(t.buckets[b]) THEN <<>> ELSE <<t.buckets[b][k + 1]>>
<1> DEFINE chain == t.buckets[b]
           n == chain[k]
           at == {i \in DOMAIN chain : chain[i].key = n.key /\ i < Len(chain)}
<1>1. Apart(chain) /\ AtHome(n, b, t.bcount)
  BY DEF Chained
<1>2. DOMAIN chain = 1 .. Len(chain) /\ Len(chain) \in Nat
  BY NodeSetIs DEF Chained
<1>3. ChainNext(t, n) = IF at = {} THEN <<>> ELSE <<chain[Min(at) + 1]>>
  BY <1>1 DEF ChainNext, AtHome
<1>4. \A i \in 1 .. Len(chain) : chain[i].key = n.key <=> i = k
  BY <1>1 DEF Apart
<1> HIDE DEF chain, n
<1>5. CASE k = Len(chain)
  <2>1. ASSUME NEW i \in at
        PROVE  FALSE
    <3>1. i \in 1 .. Len(chain) /\ chain[i].key = n.key /\ i < Len(chain)
      BY <1>2
    <3>2. i = Len(chain)
      BY <1>4, <1>5, <3>1
    <3> QED  BY <1>2, <3>1, <3>2
  <2> HIDE DEF at
  <2>2. at = {}
    BY <2>1
  <2> QED  BY <1>3, <1>5, <2>2 DEF chain, n
<1>6. CASE k # Len(chain)
  <2>1. k \in 1 .. Len(chain) /\ k < Len(chain) /\ k \in Nat
    BY <1>2, <1>6 DEF chain
  <2>2. at = {k}
    BY <1>2, <1>4, <2>1
  <2>3. Min({k}) = k
    BY <2>1 DEF Min
  <2> QED  BY <1>3, <1>6, <2>2, <2>3 DEF chain, n
<1> QED  BY <1>5, <1>6

WalkType(w) ==
    w \in [at : {"none", "step", "func", "done"}, i : Nat, cur : Key \cup {<<>>},
           next : Key \cup {<<>>}, stale : BOOLEAN, todo : SUBSET Key, seen : SUBSET Key,
           again : BOOLEAN, foreign : BOOLEAN, resized : BOOLEAN]

\* The node pointer the walk goes on with.
Pointer(w) ==
    IF w.at = "step" THEN w.cur ELSE IF w.at = "func" THEN w.next ELSE <<>>

\* It leads into the table unless the callback took its node away, which was
\* then not the callback's own.
WalkSafe(t, w) ==
    /\ w.stale => w.foreign /\ Pointer(w) # <<>>
    /\ w.at = "func" => w.cur # <<>> /\ (w.next # <<>> => Folded[w.next] # Folded[w.cur])
    /\ Pointer(w) # <<>> /\ ~w.stale => Folded[Pointer(w)] \in Keys(t)

Disturbed(w, removed, resized) ==
    [w EXCEPT !.stale = @ \/ (w.next # <<>> /\ Folded[w.next] \in removed),
              !.todo = @ \ removed,
              !.seen = @ \ removed,
              !.foreign = @ \/ removed \ {Folded[w.cur]} # {},
              !.resized = @ \/ resized]

LEMMA DisturbedFields ==
    ASSUME NEW w, WalkType(w), NEW removed, NEW resized \in BOOLEAN,
           NEW x, x = Disturbed(w, removed, resized)
    PROVE  /\ WalkType(x) /\ x.at = w.at /\ x.i = w.i /\ x.cur = w.cur /\ x.next = w.next
           /\ x.stale <=> w.stale \/ (w.next # <<>> /\ Folded[w.next] \in removed)
           /\ x.todo = w.todo \ removed /\ x.seen = w.seen \ removed
           /\ x.foreign <=> w.foreign \/ removed \ {Folded[w.cur]} # {}
           /\ x.resized <=> w.resized \/ resized
           /\ x.again = w.again
<1> DEFINE st == w.stale \/ (w.next # <<>> /\ Folded[w.next] \in removed)
           td == w.todo \ removed
           sn == w.seen \ removed
           fo == w.foreign \/ removed \ {Folded[w.cur]} # {}
           re == w.resized \/ resized
<1>1. x = [w EXCEPT !.stale = st, !.todo = td, !.seen = sn, !.foreign = fo, !.resized = re]
  BY DEF Disturbed
<1>2. st \in BOOLEAN /\ td \in SUBSET Key /\ sn \in SUBSET Key /\ fo \in BOOLEAN /\ re \in BOOLEAN
  BY DEF WalkType
<1> HIDE DEF st, td, sn, fo, re
<1>3. /\ WalkType(x) /\ x.at = w.at /\ x.i = w.i /\ x.cur = w.cur /\ x.next = w.next
      /\ x.stale = st /\ x.todo = td /\ x.seen = sn /\ x.foreign = fo /\ x.resized = re
      /\ x.again = w.again
  BY <1>1, <1>2 DEF WalkType
<1> QED  BY <1>3 DEF st, td, sn, fo, re

\* A callback removes keys, and maybe adds some.
LEMMA DisturbSafe ==
    ASSUME NEW t, NEW u, NEW w, WalkType(w), WalkSafe(t, w), w.at \in {"none", "func"},
           NEW removed, Keys(t) \subseteq Keys(u) \cup removed, NEW resized \in BOOLEAN,
           NEW x, x = IF w.at # "func" THEN w ELSE Disturbed(w, removed, resized)
    PROVE  WalkType(x) /\ WalkSafe(u, x) /\ x.at = w.at
<1>1. CASE w.at # "func"
  BY <1>1 DEF WalkSafe, Pointer
<1>2. CASE w.at = "func"
  <2>1. x = Disturbed(w, removed, resized)
    BY <1>2
  <2>2. /\ WalkType(x) /\ x.at = w.at /\ x.cur = w.cur /\ x.next = w.next
        /\ x.stale <=> w.stale \/ (w.next # <<>> /\ Folded[w.next] \in removed)
        /\ x.foreign <=> w.foreign \/ removed \ {Folded[w.cur]} # {}
    BY <2>1, DisturbedFields
  <2>3. Pointer(w) = w.next /\ Pointer(x) = w.next
    BY <1>2, <2>2 DEF Pointer
  <2> QED  BY <1>2, <2>2, <2>3 DEF WalkSafe
<1> QED  BY <1>1, <1>2

\* The walk's pointers with key for o.
Respelt(p, o, key) == IF p = o THEN key ELSE p
Renamed(w, o, key) ==
    [w EXCEPT !.cur = IF @ = o THEN key ELSE @, !.next = IF @ = o THEN key ELSE @]

LEMMA RenamedFields ==
    ASSUME NEW w, WalkType(w), NEW o \in Key, NEW key \in Key, NEW x, x = Renamed(w, o, key)
    PROVE  /\ WalkType(x) /\ x.at = w.at /\ x.i = w.i
           /\ x.cur = Respelt(w.cur, o, key) /\ x.next = Respelt(w.next, o, key)
           /\ x.stale = w.stale /\ x.todo = w.todo /\ x.seen = w.seen
           /\ x.foreign = w.foreign /\ x.resized = w.resized /\ x.again = w.again
<1> DEFINE c == Respelt(w.cur, o, key)
           n == Respelt(w.next, o, key)
<1>1. x = [w EXCEPT !.cur = c, !.next = n]
  BY DEF Renamed, Respelt
<1>2. c \in Key \cup {<<>>} /\ n \in Key \cup {<<>>}
  BY DEF WalkType, Respelt
<1> HIDE DEF c, n
<1>3. /\ WalkType(x) /\ x.at = w.at /\ x.i = w.i /\ x.cur = c /\ x.next = n
      /\ x.stale = w.stale /\ x.todo = w.todo /\ x.seen = w.seen
      /\ x.foreign = w.foreign /\ x.resized = w.resized /\ x.again = w.again
  BY <1>1, <1>2 DEF WalkType
<1> QED  BY <1>3 DEF c, n

LEMMA RenameSafe ==
    ASSUME NEW t, NEW u, NEW w, WalkType(w), WalkSafe(t, w),
           NEW o \in Key, NEW key \in Key, Folded[o] = Folded[key], Keys(t) = Keys(u),
           NEW x, x = Renamed(w, o, key)
    PROVE  WalkType(x) /\ WalkSafe(u, x) /\ x.at = w.at
<1>1. /\ WalkType(x) /\ x.at = w.at
      /\ x.cur = Respelt(w.cur, o, key) /\ x.next = Respelt(w.next, o, key)
      /\ x.stale = w.stale /\ x.foreign = w.foreign
  BY RenamedFields
<1>2. o # <<>> /\ key # <<>>
  BY HtableAssumption
<1>3. \A p : /\ Respelt(p, o, key) # <<>> <=> p # <<>>
             /\ Folded[Respelt(p, o, key)] = Folded[p]
  BY <1>2 DEF Respelt
<1>4. /\ Pointer(x) # <<>> <=> Pointer(w) # <<>>
      /\ Pointer(w) # <<>> => Folded[Pointer(x)] = Folded[Pointer(w)]
  BY <1>1, <1>3 DEF Pointer
<1> QED  BY <1>1, <1>3, <1>4 DEF WalkSafe

\* The key of the first node of a chain.
LEMMA HeadIs ==
    ASSUME NEW t, Chained(t), NEW b \in 0 .. t.bcount - 1, NEW h, h = HeadKey(t.buckets[b])
    PROVE  /\ h \in Key \cup {<<>>}
           /\ h = <<>> <=> Len(t.buckets[b]) = 0
           /\ h # <<>> => 1 \in 1 .. Len(t.buckets[b]) /\ h = t.buckets[b][1].key
           /\ h # <<>> => Folded[h] \in Keys(t)
<1> DEFINE chain == t.buckets[b]
<1>1. chain \in Seq(Node) /\ Len(chain) \in Nat
  BY NodeSetIs DEF Chained
<1>2. chain = <<>> <=> Len(chain) = 0
  BY <1>1, EmptySeq
<1>3. CASE chain = <<>>
  BY <1>2, <1>3 DEF HeadKey
<1>4. CASE chain # <<>>
  <2>1. 1 \in 1 .. Len(chain) /\ h = chain[1].key
    BY <1>1, <1>2, <1>4 DEF HeadKey
  <2>2. chain[1] \in NodeSet(t) /\ chain[1] \in Node
    BY <2>1, NodeSetIs DEF Chained
  <2>3. h \in Key
    BY <2>1, <2>2 DEF Node
  <2>4. h # <<>>
    BY <2>3, HtableAssumption
  <2>5. Folded[h] \in Keys(t)
    BY <2>1, <2>2 DEF Keys
  <2> QED  BY <1>2, <1>4, <2>1, <2>3, <2>4, <2>5
<1> QED  BY <1>3, <1>4

\* The node pointer the walk reads before the callback.
NextAt(t, cur, h, b, k) ==
    /\ Folded[t.buckets[b][k].key] = Folded[cur]
    /\ b = Hashcode[cur] % t.bcount
    /\ h \in Key \cup {<<>>}
    /\ h = <<>> <=> k = Len(t.buckets[b])
    /\ h # <<>> => /\ k + 1 \in 1 .. Len(t.buckets[b]) /\ h = t.buckets[b][k + 1].key
                   /\ Folded[h] \in Keys(t) /\ Folded[h] # Folded[cur]

LEMMA NextKeyIs ==
    ASSUME NEW t, Chained(t), NEW cur \in Key, Folded[cur] \in Keys(t),
           NEW h, h = HeadKey(ChainNext(t, FindNode(t, cur)))
    PROVE  \E b \in 0 .. t.bcount - 1 : \E k \in 1 .. Len(t.buckets[b]) :
            NextAt(t, cur, h, b, k)
<1> DEFINE n == FindNode(t, cur)
           b == n.bucket
           chain == t.buckets[b]
<1>1. t.bcount > 0
  <2>1. t.bcount \in Nat
    BY DEF Chained, HasChains
  <2>2. CASE t.bcount = 0
    BY <2>2 DEF Keys, NodeSet
  <2> QED  BY <2>1, <2>2
<1>2. n \in NodeSet(t) /\ Folded[n.key] = Folded[cur]
  BY <1>1, FindIs
<1> HIDE DEF n
<1>3. /\ b \in 0 .. t.bcount - 1 /\ n.key \in Key
      /\ AtHome(n, b, t.bcount)
      /\ \E k \in 1 .. Len(chain) : n = chain[k]
  BY <1>2, NodeHome
<1>4. PICK k \in 1 .. Len(chain) : n = chain[k]
  BY <1>3
<1>5. b = Hashcode[cur] % t.bcount
  <2>1. Hashcode[n.key] = Hashcode[cur]
    BY <1>2, <1>3, Folds
  <2> QED  BY <1>3, <2>1 DEF AtHome
<1>6. HasChains(t) /\ Apart(chain)
  BY <1>3 DEF Chained
<1> HIDE DEF b
<1>7. Len(chain) \in Nat /\ \A i \in 1 .. Len(chain) : chain[i] \in Node /\ chain[i] \in NodeSet(t)
  BY <1>3, <1>6, NodeSetIs
<1>8. ChainNext(t, n) = IF k = Len(chain) THEN <<>> ELSE <<chain[k + 1]>>
  BY <1>3, <1>4, NextIs
<1> HIDE DEF chain
<1>9. h = HeadKey(ChainNext(t, n))
  BY DEF n
<1>10. CASE k = Len(chain)
  <2>1. h = <<>>
    BY <1>8, <1>9, <1>10 DEF HeadKey
  <2> QED  BY <1>2, <1>3, <1>4, <1>5, <1>10, <2>1 DEF chain, NextAt
<1>11. CASE k # Len(chain)
  <2>1. k + 1 \in 1 .. Len(chain) /\ k + 1 # k
    BY <1>7, <1>11
  <2>2. h = chain[k + 1].key
    <3>1. \A x : HeadKey(<<x>>) = x.key
      BY DEF HeadKey
    <3> QED  BY <1>8, <1>9, <1>11, <3>1
  <2>3. h \in Key /\ Folded[h] \in Keys(t)
    BY <1>7, <2>1, <2>2 DEF Keys, Node
  <2>4. Folded[h] # Folded[cur]
    BY <1>2, <1>4, <1>6, <2>1, <2>2 DEF Apart
  <2>5. h # <<>>
    BY <2>3, HtableAssumption
  <2> QED  BY <1>2, <1>3, <1>4, <1>5, <1>11, <2>1, <2>2, <2>3, <2>4, <2>5 DEF chain, NextAt
<1> QED  BY <1>10, <1>11

\* A node in place of another of the same key changes no key.
LEMMA SwappedKeys ==
    ASSUME NEW t, NEW u, NEW old \in NodeSet(t), NEW new, Swapped(t, u, old, new),
           Folded[new.key] = Folded[old.key]
    PROVE  Keys(t) = Keys(u)
<1>1. ASSUME NEW n \in NodeSet(u)
      PROVE  Folded[n.key] \in Keys(t)
  BY DEF Swapped, Keys
<1>2. ASSUME NEW n \in NodeSet(t)
      PROVE  Folded[n.key] \in Keys(u)
  BY DEF Swapped, Keys
<1> QED  BY <1>1, <1>2 DEF Keys

\* The walk's own steps, as records.
Visiting(w, h) ==
    [w EXCEPT !.at = "func", !.todo = @ \ {Folded[w.cur]},
              !.seen = @ \cup ({Folded[w.cur]} \cap w.todo),
              !.again = @ \/ Folded[w.cur] \in w.seen, !.next = h]
Onward(w, h) == [w EXCEPT !.i = @ + 1, !.cur = h]
Finished(w) == [w EXCEPT !.at = "done"]
Resumed(w) == [w EXCEPT !.at = "step", !.cur = w.next, !.next = <<>>]
Begun(h, keys) == [NoWalk EXCEPT !.at = "step", !.cur = h, !.todo = keys]

LEMMA VisitingFields ==
    ASSUME NEW w, WalkType(w), NEW h \in Key \cup {<<>>}, NEW x, x = Visiting(w, h)
    PROVE  /\ WalkType(x) /\ x.at = "func" /\ x.i = w.i /\ x.cur = w.cur /\ x.next = h
           /\ x.stale = w.stale /\ x.foreign = w.foreign /\ x.resized = w.resized
           /\ x.todo = w.todo \ {Folded[w.cur]}
           /\ x.seen = w.seen \cup ({Folded[w.cur]} \cap w.todo)
           /\ x.again <=> w.again \/ Folded[w.cur] \in w.seen
<1> DEFINE td == w.todo \ {Folded[w.cur]}
           sn == w.seen \cup ({Folded[w.cur]} \cap w.todo)
           ag == w.again \/ Folded[w.cur] \in w.seen
<1>1. x = [w EXCEPT !.at = "func", !.todo = td, !.seen = sn, !.again = ag, !.next = h]
  BY DEF Visiting
<1>2. td \in SUBSET Key /\ sn \in SUBSET Key /\ ag \in BOOLEAN
  BY DEF WalkType
<1> HIDE DEF td, sn, ag
<1>3. /\ WalkType(x) /\ x.at = "func" /\ x.i = w.i /\ x.cur = w.cur /\ x.next = h
      /\ x.stale = w.stale /\ x.foreign = w.foreign /\ x.resized = w.resized
      /\ x.todo = td /\ x.seen = sn /\ x.again = ag
  BY <1>1, <1>2 DEF WalkType
<1> QED  BY <1>3 DEF td, sn, ag

LEMMA OnwardFields ==
    ASSUME NEW w, WalkType(w), NEW h \in Key \cup {<<>>}, NEW x, x = Onward(w, h)
    PROVE  /\ WalkType(x) /\ x.at = w.at /\ x.i = w.i + 1 /\ x.cur = h /\ x.next = w.next
           /\ x.stale = w.stale /\ x.foreign = w.foreign /\ x.resized = w.resized
           /\ x.todo = w.todo /\ x.seen = w.seen /\ x.again = w.again
<1>1. w.i + 1 \in Nat
  BY DEF WalkType
<1> QED  BY <1>1 DEF WalkType, Onward

LEMMA FinishedFields ==
    ASSUME NEW w, WalkType(w), NEW x, x = Finished(w)
    PROVE  /\ WalkType(x) /\ x.at = "done" /\ x.stale = w.stale /\ x.foreign = w.foreign
           /\ x.resized = w.resized /\ x.todo = w.todo /\ x.seen = w.seen /\ x.again = w.again
<1> QED  BY DEF WalkType, Finished

LEMMA ResumedFields ==
    ASSUME NEW w, WalkType(w), NEW x, x = Resumed(w)
    PROVE  /\ WalkType(x) /\ x.at = "step" /\ x.i = w.i /\ x.cur = w.next /\ x.next = <<>>
           /\ x.stale = w.stale /\ x.foreign = w.foreign /\ x.resized = w.resized
           /\ x.todo = w.todo /\ x.seen = w.seen /\ x.again = w.again
<1> QED  BY DEF WalkType, Resumed

LEMMA NoWalkFields ==
    /\ WalkType(NoWalk) /\ NoWalk.at = "none" /\ ~NoWalk.stale
    /\ \A h \in Key \cup {<<>>} : \A keys \in SUBSET Key : \A x : x = Begun(h, keys) =>
        /\ WalkType(x) /\ x.at = "step" /\ x.i = 0 /\ x.cur = h /\ x.next = <<>>
        /\ ~x.stale /\ ~x.resized /\ x.todo = keys /\ x.seen = {} /\ ~x.again
<1>1. WalkType(NoWalk) /\ NoWalk.at = "none" /\ ~NoWalk.stale
  BY DEF WalkType, NoWalk
<1>2. ASSUME NEW h \in Key \cup {<<>>}, NEW keys \in SUBSET Key, NEW x, x = Begun(h, keys)
      PROVE  /\ WalkType(x) /\ x.at = "step" /\ x.i = 0 /\ x.cur = h /\ x.next = <<>>
             /\ ~x.stale /\ ~x.resized /\ x.todo = keys /\ x.seen = {} /\ ~x.again
  <2>1. x = [at |-> "step", i |-> 0, cur |-> h, next |-> <<>>, stale |-> FALSE, todo |-> keys,
             seen |-> {}, again |-> FALSE, foreign |-> FALSE, resized |-> FALSE]
    BY <1>2 DEF Begun, NoWalk
  <2> QED  BY <2>1 DEF WalkType
<1> QED  BY <1>1, <1>2

\* The keys of a table, once more.
LEMMA KeysAreKeys == ASSUME NEW t, Chained(t) PROVE Keys(t) \subseteq Key
<1> SUFFICES ASSUME NEW n \in NodeSet(t)
             PROVE  Folded[n.key] \in Key
  BY DEF Keys
<1>1. n.key \in Key
  BY NodeHome
<1> QED  BY <1>1, Folds

\* What the actions of the walk do to it.
LEMMA WalkActions ==
    ASSUME TableInv, WalkType(walk)
    PROVE  /\ WalkStart =>
                \E h : /\ h = HeadKey(tab.buckets[0]) /\ 0 \in 0 .. tab.bcount - 1
                       /\ walk' = Begun(h, Keys(tab)) /\ UNCHANGED <<tab, hfault>>
           /\ WalkStep =>
                /\ walk.at = "step" /\ ~hfault /\ UNCHANGED tab
                /\ \/ walk.cur # <<>> /\ walk.stale /\ hfault' = TRUE /\ UNCHANGED walk
                   \/ /\ walk.cur # <<>> /\ ~walk.stale /\ UNCHANGED hfault
                      /\ walk' = Visiting(walk, HeadKey(ChainNext(tab, FindNode(tab, walk.cur))))
                   \/ /\ walk.cur = <<>> /\ UNCHANGED hfault /\ walk.i + 1 \in 0 .. tab.bcount - 1
                      /\ walk' = Onward(walk, HeadKey(tab.buckets[walk.i + 1]))
                   \/ /\ walk.cur = <<>> /\ UNCHANGED hfault /\ walk.i + 1 >= tab.bcount
                      /\ walk' = Finished(walk)
           /\ \A go \in BOOLEAN : FuncReturns(go) =>
                /\ walk.at = "func" /\ UNCHANGED <<tab, hfault>> /\ ~hfault
                /\ walk' = Resumed(walk) \/ walk' = NoWalk
<1>1. tab.bcount \in Nat /\ walk.i \in Nat
  BY DEF TableInv, Tidy, IsTable, WalkType
<1>2. ASSUME WalkStart
      PROVE  /\ 0 \in 0 .. tab.bcount - 1 /\ UNCHANGED <<tab, hfault>>
             /\ walk' = Begun(HeadKey(tab.buckets[0]), Keys(tab))
  BY <1>1, <1>2 DEF WalkStart, InApp, Begun, Keys
<1>3. ASSUME WalkStep
      PROVE  /\ walk.at = "step" /\ ~hfault /\ UNCHANGED tab
             /\ \/ walk.cur # <<>> /\ walk.stale /\ hfault' = TRUE /\ UNCHANGED walk
                \/ /\ walk.cur # <<>> /\ ~walk.stale /\ UNCHANGED hfault
                   /\ walk' = Visiting(walk, HeadKey(ChainNext(tab, FindNode(tab, walk.cur))))
                \/ /\ walk.cur = <<>> /\ UNCHANGED hfault /\ walk.i + 1 \in 0 .. tab.bcount - 1
                   /\ walk' = Onward(walk, HeadKey(tab.buckets[walk.i + 1]))
                \/ /\ walk.cur = <<>> /\ UNCHANGED hfault /\ walk.i + 1 >= tab.bcount
                   /\ walk' = Finished(walk)
  <2>1. walk.at = "step" /\ ~hfault /\ UNCHANGED tab
    BY <1>3 DEF WalkStep
  <2>2. CASE walk.cur # <<>> /\ walk.stale
    BY <1>3, <2>1, <2>2 DEF WalkStep
  <2>3. CASE walk.cur # <<>> /\ ~walk.stale
    BY <1>3, <2>1, <2>3 DEF WalkStep, Visiting
  <2>4. CASE walk.cur = <<>> /\ walk.i + 1 < tab.bcount
    BY <1>1, <1>3, <2>1, <2>4 DEF WalkStep, Onward
  <2>5. CASE walk.cur = <<>> /\ ~(walk.i + 1 < tab.bcount)
    BY <1>1, <1>3, <2>1, <2>5 DEF WalkStep, Finished
  <2> QED  BY <2>2, <2>3, <2>4, <2>5
<1>4. ASSUME NEW go \in BOOLEAN, FuncReturns(go)
      PROVE  /\ walk.at = "func" /\ UNCHANGED <<tab, hfault>> /\ ~hfault
             /\ walk' = Resumed(walk) \/ walk' = NoWalk
  BY <1>4 DEF FuncReturns, Resumed
<1> QED  BY <1>2, <1>3, <1>4

\* A walk that has followed a freed node stays where it was.
WalkInv ==
    /\ WalkType(walk) /\ WalkSafe(tab, walk)
    /\ hfault \in BOOLEAN
    /\ hfault => walk.at = "step" /\ walk.foreign

LEMMA WalkInvStep ==
    ASSUME TableInv, TableInv', WalkInv, [HtableNext]_htableVars
    PROVE  WalkInv'
<1>1. Tidy(tab) /\ Chained(tab) /\ WalkType(walk) /\ WalkSafe(tab, walk)
  BY DEF TableInv, Tidy, WalkInv
<1>2. hfault => walk.at = "step" /\ walk.foreign
  BY DEF WalkInv
<1>3. ASSUME WalkType(walk'), WalkSafe(tab', walk'), UNCHANGED hfault, ~hfault
      PROVE  WalkInv'
  BY <1>3 DEF WalkInv
<1>4. ASSUME NEW key \in Key, NEW v \in Val, PutOver(key, v)
      PROVE  WalkInv'
  <2> DEFINE old == FindNode(tab, key)
             new == Rekeyed(old, key, v)
  <2>1. /\ Swapped(tab, tab', old, new) /\ old \in NodeSet(tab) /\ old \in Node
        /\ Folded[old.key] = Folded[key] /\ new.key = key
    <3>1. new = Rekeyed(old, key, v) /\ old = FindNode(tab, key)
      OBVIOUS
    <3> HIDE DEF new, old
    <3> QED  BY <1>1, <1>4, <3>1, PutOverDoes
  <2>2. walk' = Renamed(walk, old.key, key) /\ ~hfault /\ UNCHANGED hfault
    BY <1>4 DEF PutOver, InApp, Renamed
  <2> HIDE DEF old, new
  <2>3. Keys(tab) = Keys(tab')
    BY <2>1, SwappedKeys
  <2>4. old.key \in Key
    BY <2>1 DEF Node
  <2>5. WalkType(walk') /\ WalkSafe(tab', walk')
    BY <1>1, <2>1, <2>2, <2>3, <2>4, RenameSafe
  <2> QED  BY <1>3, <2>2, <2>5
<1>5. ASSUME NEW removed, NEW resized \in BOOLEAN, Disturb(removed, resized), UNCHANGED hfault,
             ~hfault, walk.at \in {"none", "func"}, Keys(tab) \subseteq Keys(tab') \cup removed
      PROVE  WalkInv'
  <2>1. walk' = IF walk.at # "func" THEN walk ELSE Disturbed(walk, removed, resized)
    BY <1>5 DEF Disturb, Disturbed
  <2>2. WalkType(walk') /\ WalkSafe(tab', walk')
    BY <1>1, <1>5, <2>1, DisturbSafe
  <2> QED  BY <1>3, <1>5, <2>2
<1>6. ASSUME NEW key \in Key, NEW v \in Val, PutNew(key, v)
      PROVE  WalkInv'
  <2> DEFINE t == IF Full(tab) THEN Resize(tab, 2 * tab.bcount + 1) ELSE tab
  <2>1. /\ Keys(t) = Keys(tab) /\ Disturb({}, Full(tab)) /\ UNCHANGED hfault
        /\ \/ \E x \in Node : Added(t, tab', x)
           \/ tab' = t
    BY <1>1, <1>6, PutNewDoes
  <2> HIDE DEF t
  <2>2. Keys(tab) \subseteq Keys(tab') \cup {}
    BY <2>1 DEF Added, Keys
  <2>3. ~hfault /\ walk.at \in {"none", "func"} /\ Full(tab) \in BOOLEAN
    BY <1>6 DEF PutNew, InApp, Full
  <2> QED  BY <1>5, <2>1, <2>2, <2>3
<1>7. ASSUME NEW key \in Key, NEW v \in Val, PutValue(key, v)
      PROVE  WalkInv'
  <2> DEFINE old == FindNode(tab, key)
             new == Revalued(old, v)
  <2>1. /\ Swapped(tab, tab', old, new) /\ old \in NodeSet(tab)
        /\ new.key = old.key
    BY <1>1, <1>7, PutValueDoes
  <2>2. UNCHANGED <<walk, hfault>> /\ ~hfault
    BY <1>7 DEF PutValue, InApp
  <2> HIDE DEF old, new
  <2>3. Keys(tab) = Keys(tab')
    BY <2>1, SwappedKeys
  <2>4. WalkType(walk') /\ WalkSafe(tab', walk')
    BY <1>1, <2>2, <2>3 DEF WalkSafe
  <2> QED  BY <1>3, <2>2, <2>4
<1>8. ASSUME NEW key \in Key, HtableRemove(key)
      PROVE  WalkInv'
  <2> DEFINE n == FindNode(tab, key)
  <2>1. /\ Taken(tab, tab', n) /\ n \in NodeSet(tab) /\ Folded[n.key] = Folded[key]
        /\ Disturb({Folded[key]}, FALSE) /\ UNCHANGED hfault
    BY <1>1, <1>8, RemoveDoes
  <2> HIDE DEF n
  <2>2. Keys(tab) \subseteq Keys(tab') \cup {Folded[key]}
    BY <2>1 DEF Taken, Keys
  <2>3. ~hfault /\ walk.at \in {"none", "func"}
    BY <1>8 DEF HtableRemove, InApp
  <2> QED  BY <1>5, <2>1, <2>2, <2>3
<1>9. CASE HtableClear
  <2>1. ~hfault /\ UNCHANGED hfault /\ walk.at \in {"none", "func"} /\ Disturb(Keys(tab), FALSE)
    BY <1>9 DEF HtableClear, InApp, Keys
  <2> QED  BY <1>5, <2>1
<1>10. CASE HtableDestroy
  <2>1. ~hfault /\ UNCHANGED <<walk, hfault>> /\ walk.at = "none"
    BY <1>10 DEF HtableDestroy, InApp
  <2>2. WalkType(walk') /\ WalkSafe(tab', walk')
    BY <1>1, <2>1 DEF WalkSafe, Pointer
  <2> QED  BY <1>3, <2>1, <2>2
<1>11. ASSUME NEW n \in FirstBuckets, HtableCreate(n)
       PROVE  WalkInv'
  <2>1. NodeSet(tab') = {} /\ NodeSet(tab) = {}
    BY <1>1, <1>11, ClearDoes
  <2>2. Keys(tab) = Keys(tab') /\ UNCHANGED <<walk, hfault>>
    BY <1>11, <2>1 DEF Keys, HtableCreate
  <2> QED  BY <2>2 DEF WalkInv, WalkSafe
<1>12. CASE WalkStart
  <2>1. PICK h : /\ h = HeadKey(tab.buckets[0]) /\ 0 \in 0 .. tab.bcount - 1
                 /\ walk' = Begun(h, Keys(tab)) /\ UNCHANGED <<tab, hfault>>
    BY <1>1, <1>12, WalkActions
  <2>2. h \in Key \cup {<<>>} /\ (h # <<>> => Folded[h] \in Keys(tab))
    BY <1>1, <2>1, HeadIs
  <2>3. Keys(tab) \in SUBSET Key
    BY <1>1, KeysAreKeys
  <2>4. WalkType(walk') /\ walk'.at = "step" /\ walk'.cur = h /\ ~walk'.stale
    BY <2>1, <2>2, <2>3, NoWalkFields
  <2>5. WalkSafe(tab', walk')
    BY <2>1, <2>2, <2>4 DEF WalkSafe, Pointer
  <2>6. ~hfault
    BY <1>12 DEF WalkStart, InApp
  <2> QED  BY <1>3, <2>1, <2>4, <2>5, <2>6
<1>13. CASE WalkStep
  <2>1. walk.at = "step" /\ ~hfault /\ UNCHANGED tab
    BY <1>1, <1>13, WalkActions
  <2>2. CASE walk.cur # <<>> /\ walk.stale /\ hfault' = TRUE /\ UNCHANGED walk
    BY <1>1, <2>1, <2>2 DEF WalkInv, WalkSafe
  <2>3. CASE /\ walk.cur # <<>> /\ ~walk.stale /\ UNCHANGED hfault
             /\ walk' = Visiting(walk, HeadKey(ChainNext(tab, FindNode(tab, walk.cur))))
    <3> DEFINE h == HeadKey(ChainNext(tab, FindNode(tab, walk.cur)))
    <3>1. walk.cur \in Key /\ Folded[walk.cur] \in Keys(tab)
      BY <1>1, <2>1, <2>3 DEF WalkSafe, Pointer, WalkType
    <3>2. /\ h \in Key \cup {<<>>}
          /\ h # <<>> => Folded[h] \in Keys(tab) /\ Folded[h] # Folded[walk.cur]
      <4> HIDE DEF h
      <4>1. \E b \in 0 .. tab.bcount - 1 : \E k \in 1 .. Len(tab.buckets[b]) :
                NextAt(tab, walk.cur, h, b, k)
        BY <1>1, <3>1, NextKeyIs DEF h
      <4>2. PICK b, k : NextAt(tab, walk.cur, h, b, k)
        BY <4>1
      <4> QED  BY <4>2 DEF NextAt
    <3>3. walk' = Visiting(walk, h)
      BY <2>3
    <3> HIDE DEF h
    <3>4. /\ WalkType(walk') /\ walk'.at = "func" /\ walk'.cur = walk.cur /\ walk'.next = h
          /\ walk'.stale = walk.stale
      BY <1>1, <3>2, <3>3, VisitingFields
    <3>5. WalkSafe(tab', walk')
      BY <2>1, <2>3, <3>2, <3>4 DEF WalkSafe, Pointer
    <3> QED  BY <1>3, <2>1, <2>3, <3>4, <3>5
  <2>4. CASE /\ walk.cur = <<>> /\ UNCHANGED hfault /\ walk.i + 1 \in 0 .. tab.bcount - 1
             /\ walk' = Onward(walk, HeadKey(tab.buckets[walk.i + 1]))
    <3> DEFINE b == walk.i + 1
               h == HeadKey(tab.buckets[b])
    <3>1. h \in Key \cup {<<>>} /\ (h # <<>> => Folded[h] \in Keys(tab))
      <4> HIDE DEF b
      <4> QED  BY <1>1, <2>4, HeadIs DEF b
    <3>2. walk' = Onward(walk, h)
      BY <2>4
    <3> HIDE DEF h
    <3>3. WalkType(walk') /\ walk'.at = "step" /\ walk'.cur = h /\ walk'.stale = walk.stale
      BY <1>1, <2>1, <3>1, <3>2, OnwardFields
    <3>4. ~walk.stale
      BY <1>1, <2>1, <2>4 DEF WalkSafe, Pointer
    <3>5. WalkSafe(tab', walk')
      BY <2>1, <3>1, <3>3, <3>4 DEF WalkSafe, Pointer
    <3> QED  BY <1>3, <2>1, <2>4, <3>3, <3>5
  <2>5. CASE /\ walk.cur = <<>> /\ UNCHANGED hfault /\ walk.i + 1 >= tab.bcount
             /\ walk' = Finished(walk)
    <3>1. WalkType(walk') /\ walk'.at = "done" /\ walk'.stale = walk.stale
      BY <1>1, <2>5, FinishedFields
    <3>2. ~walk.stale
      BY <1>1, <2>1, <2>5 DEF WalkSafe, Pointer
    <3>3. WalkSafe(tab', walk')
      BY <3>1, <3>2 DEF WalkSafe, Pointer
    <3> QED  BY <1>3, <2>1, <2>5, <3>1, <3>3
  <2>6. \/ walk.cur # <<>> /\ walk.stale /\ hfault' = TRUE /\ UNCHANGED walk
        \/ /\ walk.cur # <<>> /\ ~walk.stale /\ UNCHANGED hfault
           /\ walk' = Visiting(walk, HeadKey(ChainNext(tab, FindNode(tab, walk.cur))))
        \/ /\ walk.cur = <<>> /\ UNCHANGED hfault /\ walk.i + 1 \in 0 .. tab.bcount - 1
           /\ walk' = Onward(walk, HeadKey(tab.buckets[walk.i + 1]))
        \/ /\ walk.cur = <<>> /\ UNCHANGED hfault /\ walk.i + 1 >= tab.bcount
           /\ walk' = Finished(walk)
    BY <1>1, <1>13, WalkActions
  <2> QED  BY <2>2, <2>3, <2>4, <2>5, <2>6
<1>14. ASSUME NEW go \in BOOLEAN, FuncReturns(go)
       PROVE  WalkInv'
  <2>1. /\ walk.at = "func" /\ UNCHANGED <<tab, hfault>> /\ ~hfault
        /\ walk' = Resumed(walk) \/ walk' = NoWalk
    BY <1>1, <1>14, WalkActions
  <2>2. CASE walk' = NoWalk
    <3>1. WalkType(walk') /\ WalkSafe(tab', walk')
      BY <2>2, NoWalkFields DEF WalkSafe, Pointer
    <3> QED  BY <1>3, <2>1, <3>1
  <2>3. CASE walk' = Resumed(walk)
    <3>1. /\ WalkType(walk') /\ walk'.at = "step" /\ walk'.cur = walk.next
          /\ walk'.stale = walk.stale /\ walk'.foreign = walk.foreign
      BY <1>1, <2>3, ResumedFields
    <3>2. WalkSafe(tab', walk')
      BY <1>1, <2>1, <3>1 DEF WalkSafe, Pointer
    <3> QED  BY <1>3, <2>1, <3>1, <3>2
  <2> QED  BY <2>1, <2>2, <2>3
<1>15. CASE WalkReturns
  <2>1. walk' = NoWalk /\ UNCHANGED <<tab, hfault>> /\ walk.at = "done"
    BY <1>15 DEF WalkReturns
  <2>2. WalkType(walk') /\ WalkSafe(tab', walk')
    BY <2>1, NoWalkFields DEF WalkSafe, Pointer
  <2> QED  BY <1>2, <1>3, <2>1, <2>2
<1>16. CASE UNCHANGED htableVars
  BY <1>16 DEF htableVars, WalkInv
<1> QED  BY <1>4, <1>6, <1>7, <1>8, <1>9, <1>10, <1>11, <1>12, <1>13, <1>14, <1>15, <1>16
            DEF HtableNext

\* ls_htable_walk, which has read the next node before it calls the callback,
\* follows a freed one only if the callback took away a node not its own.
THEOREM FreedOnlyByOthers == HtableSpec => []WalkFaults
<1>1. HtableInit => WalkInv
  BY NoWalkFields DEF HtableInit, WalkInv, WalkSafe, Pointer
<1>2. TableInv /\ TableInv' /\ WalkInv /\ [HtableNext]_htableVars => WalkInv'
  BY WalkInvStep
<1>3. WalkInv => WalkFaults
  BY DEF WalkInv, WalkFaults
<1> QED  BY <1>1, <1>2, <1>3, TableAlways, PTL DEF HtableSpec

\* The table, the walk and the values released have their types: a cleaner is
\* called only for a value that was put with one.
THEOREM TypesHold == HtableSpec => []HtableTypeOK
<1> DEFINE Inv == WalkInv /\ cleaned \subseteq Owned
<1>1. HtableInit => Inv
  BY NoWalkFields DEF HtableInit, WalkInv, WalkSafe, Pointer
<1>2. ASSUME cleaned \subseteq Owned, [HtableNext]_htableVars
      PROVE  cleaned' \subseteq Owned
  <2>1. CASE UNCHANGED cleaned
    BY <1>2, <2>1
  <2>2. ASSUME NEW ns, NEW keys, NEW kept, Clean(ns, keys, kept)
        PROVE  cleaned' \subseteq Owned
    BY <2>2 DEF Clean
  <2>3. ASSUME NEW key \in Key, NEW v \in Val,
               PutOver(key, v) \/ PutNew(key, v) \/ PutValue(key, v) \/ HtableRemove(key)
        PROVE  cleaned' \subseteq Owned
    <3>1. CASE PutOver(key, v)
      BY <3>1 DEF PutOver, Clean
    <3>2. CASE PutNew(key, v)
      BY <2>1, <3>2 DEF PutNew, Clean
    <3>3. CASE PutValue(key, v)
      BY <3>3 DEF PutValue, Clean
    <3>4. CASE HtableRemove(key)
      BY <2>1, <3>4 DEF HtableRemove, Clean
    <3> QED  BY <2>3, <3>1, <3>2, <3>3, <3>4
  <2>4. CASE HtableClear \/ HtableDestroy
    BY <2>4 DEF HtableClear, HtableDestroy, Clean
  <2>5. ASSUME NEW key \in Key, HtableRemove(key)
        PROVE  cleaned' \subseteq Owned
    BY <2>1, <2>5 DEF HtableRemove, Clean
  <2>6. ASSUME \/ \E n \in FirstBuckets : HtableCreate(n)
               \/ WalkStart \/ WalkStep \/ WalkReturns
               \/ \E go \in BOOLEAN : FuncReturns(go)
               \/ UNCHANGED htableVars
        PROVE  UNCHANGED cleaned
    BY <2>6 DEF HtableCreate, WalkStart, WalkStep, WalkReturns, FuncReturns, htableVars
  <2> QED  BY <1>2, <2>1, <2>3, <2>4, <2>5, <2>6 DEF HtableNext
<1>3. TableInv /\ TableInv' /\ Inv /\ [HtableNext]_htableVars => Inv'
  BY <1>2, WalkInvStep
<1>4. TableInv /\ Inv => HtableTypeOK
  <2> SUFFICES ASSUME TableInv, Inv PROVE HtableTypeOK
    OBVIOUS
  <2>1. /\ tab.bcount \in Nat /\ tab.count \in Nat
        /\ tab.buckets \in [0 .. tab.bcount - 1 -> Seq(Node)]
    BY DEF TableInv, Tidy, IsTable, Chained, HasChains
  <2>2. /\ walk.at \in {"none", "step", "func", "done"}
        /\ walk.cur \in Key \cup {<<>>} /\ walk.next \in Key \cup {<<>>}
    BY DEF WalkInv, WalkType
  <2>3. cleaned \subseteq Owned /\ deadKeys \subseteq Key /\ hfault \in BOOLEAN
    BY DEF TableInv, WalkInv
  <2> QED  BY <2>1, <2>2, <2>3 DEF HtableTypeOK
<1> QED  BY <1>1, <1>3, <1>4, TableAlways, PTL DEF HtableSpec

------------------------------------------------------------------------------
(***************************************************************************)
(* ls_htable_get_first_node and ls_htable_get_next_node.                   *)
(***************************************************************************)

\* Empty chains take no places in Nodes.
LEMMA Gap ==
    ASSUME NEW t, HasChains(t), NEW off, Layout(t, off), NEW a \in 0 .. t.bcount,
           NEW m \in 0 .. t.bcount, a =< m, \A b \in a .. m - 1 : Len(t.buckets[b]) = 0
    PROVE  off[m] = off[a]
<1>0. t.bcount \in Nat
  BY DEF HasChains
<1> DEFINE T == {c \in Nat : a =< c /\ c =< m => off[c] = off[a]}
<1>1. 0 \in T
  BY <1>0
<1>2. ASSUME NEW c \in Nat, c \in T
      PROVE  c + 1 \in T
  <2> SUFFICES ASSUME a =< c + 1, c + 1 =< m
               PROVE  off[c + 1] = off[a]
    OBVIOUS
  <2>1. CASE a = c + 1
    BY <2>1
  <2>2. CASE a =< c
    <3>1. c \in a .. m - 1 /\ c \in 0 .. t.bcount - 1 /\ c \in 0 .. t.bcount
      BY <1>0, <2>2
    <3>2. off[c + 1] = off[c] + Len(t.buckets[c]) /\ off[c] \in Nat /\ off[c] = off[a]
      BY <1>0, <1>2, <2>2, <3>1 DEF Layout
    <3> QED  BY <3>1, <3>2
  <2> QED  BY <1>0, <2>1, <2>2
<1> HIDE DEF T
<1>3. \A c \in Nat : c \in T
  BY <1>1, <1>2, Induction
<1>4. m \in Nat /\ m \in T
  BY <1>0, <1>3
<1> QED  BY <1>0, <1>4 DEF T

\* The first node in the chains from the i-th on.
LEMMA FirstIs ==
    ASSUME NEW t, HasChains(t), NEW off, Layout(t, off), NEW i \in 0 .. t.bcount
    PROVE  FirstFrom(t, i) = IF off[i] = Len(Nodes(t)) THEN <<>> ELSE <<Nodes(t)[off[i] + 1]>>
<1> DEFINE full == {b \in i .. t.bcount - 1 : t.buckets[b] # <<>>}
<1>1. t.bcount \in Nat /\ t.bcount \in 0 .. t.bcount /\ Len(Nodes(t)) = off[t.bcount]
      /\ off[i] \in Nat
  <2>1. t.bcount \in Nat
    BY DEF HasChains
  <2>2. t.bcount \in 0 .. t.bcount
    BY <2>1
  <2>3. off \in [0 .. t.bcount -> Nat] /\ Len(Nodes(t)) = off[t.bcount]
    BY DEF Layout
  <2> QED  BY <2>1, <2>2, <2>3
<1>2. \A b \in i .. t.bcount - 1 :
        /\ b \in 0 .. t.bcount - 1 /\ t.buckets[b] \in Seq(Node) /\ Len(t.buckets[b]) \in Nat
        /\ t.buckets[b] = <<>> <=> Len(t.buckets[b]) = 0
  <2> SUFFICES ASSUME NEW b \in i .. t.bcount - 1
               PROVE  /\ b \in 0 .. t.bcount - 1
                      /\ t.buckets[b] \in Seq(Node) /\ Len(t.buckets[b]) \in Nat
                      /\ t.buckets[b] = <<>> <=> Len(t.buckets[b]) = 0
    OBVIOUS
  <2>1. b \in 0 .. t.bcount - 1
    BY <1>1
  <2>2. t.buckets[b] \in Seq(Node) /\ Len(t.buckets[b]) \in Nat
    BY <2>1, NodeSetIs
  <2> QED  BY <2>1, <2>2, EmptySeq
<1>3. FirstFrom(t, i) = IF full = {} THEN <<>> ELSE <<Head(t.buckets[Min(full)])>>
  BY DEF FirstFrom
<1>4. CASE full = {}
  <2>1. \A b \in i .. t.bcount - 1 : Len(t.buckets[b]) = 0
    BY <1>2, <1>4
  <2>2. off[t.bcount] = off[i]
    BY <1>1, <2>1, Gap
  <2> QED  BY <1>1, <1>3, <1>4, <2>2
<1>5. CASE full # {}
  <2> DEFINE m == Min(full)
  <2>1. full \subseteq Nat
    BY <1>1
  <2>2. \E b \in full : \A c \in full : b =< c
    BY <1>5, <2>1, LeastNumber
  <2>3. m \in full /\ \A c \in full : m =< c
    BY <2>2 DEF Min
  <2> HIDE DEF m
  <2>4. m \in i .. t.bcount - 1 /\ t.buckets[m] # <<>> /\ m \in 0 .. t.bcount - 1
        /\ m \in 0 .. t.bcount /\ m + 1 \in 0 .. t.bcount /\ i =< m /\ m + 1 =< t.bcount
    BY <1>1, <1>2, <2>3
  <2>5. \A b \in i .. m - 1 : Len(t.buckets[b]) = 0
    <3> SUFFICES ASSUME NEW b \in i .. m - 1
                 PROVE  Len(t.buckets[b]) = 0
      OBVIOUS
    <3>1. b \in i .. t.bcount - 1 /\ ~(m =< b)
      BY <1>1, <2>4
    <3>2. b \notin full
      BY <2>3, <3>1
    <3> QED  BY <1>2, <3>1, <3>2
  <2>6. off[m] = off[i]
    BY <2>4, <2>5, Gap
  <2>7. Len(t.buckets[m]) \in Nat /\ 1 \in 1 .. Len(t.buckets[m])
    BY <1>2, <2>4
  <2>8. Head(t.buckets[m]) = t.buckets[m][1]
    BY <1>2, <2>4
  <2>9. Nodes(t)[off[m] + 1] = t.buckets[m][1]
    BY <2>4, <2>7 DEF Layout
  <2>10. off[i] # Len(Nodes(t))
    <3>1. off[m + 1] = off[m] + Len(t.buckets[m]) /\ off[m + 1] =< off[t.bcount]
      BY <1>1, <2>4 DEF Layout
    <3> QED  BY <1>1, <2>6, <2>7, <3>1
  <2>11. FirstFrom(t, i) = <<Head(t.buckets[m])>>
    BY <1>3, <1>5 DEF m
  <2> QED  BY <2>6, <2>8, <2>9, <2>10, <2>11
<1> QED  BY <1>4, <1>5

\* ls_htable_get_first_node and ls_htable_get_next_node lead through all nodes of
\* the table, whatever was put, removed and rebuilt before.
THEOREM IterationComplete == HtableSpec => []IterationCovers
<1>1. ASSUME TableInv
      PROVE  IterationCovers
  <2> DEFINE ns == Nodes(tab)
  <2>1. Chained(tab) /\ HasChains(tab) /\ tab.bcount \in Nat
    BY <1>1 DEF TableInv, Tidy, Chained, HasChains
  <2>2. PICK off : Layout(tab, off)
    BY <2>1, LayoutExists
  <2>3. /\ ns \in Seq(Node) /\ Len(ns) \in Nat /\ DOMAIN ns = 1 .. Len(ns)
        /\ ns = <<>> <=> Len(ns) = 0
    BY <2>2, LenProperties, EmptySeq DEF Layout
  <2>4. FirstFrom(tab, 0) = IF ns = <<>> THEN <<>> ELSE <<ns[1]>>
    <3>1. 0 \in 0 .. tab.bcount /\ off[0] = 0 /\ 0 + 1 = 1
      BY <2>1, <2>2 DEF Layout
    <3>2. FirstFrom(tab, 0) = IF off[0] = Len(ns) THEN <<>> ELSE <<ns[off[0] + 1]>>
      BY <2>1, <2>2, <3>1, FirstIs
    <3> QED  BY <2>3, <3>1, <3>2
  <2>5. ASSUME NEW k \in 1 .. Len(ns)
        PROVE  NextNode(tab, ns[k]) = IF k = Len(ns) THEN <<>> ELSE <<ns[k + 1]>>
    <3>1. PICK b \in 0 .. tab.bcount - 1 : k - off[b] \in 1 .. Len(tab.buckets[b])
      BY <2>2 DEF Layout
    <3> DEFINE chain == tab.buckets[b]
               i == k - off[b]
    <3>2. /\ off[b] \in Nat /\ b \in 0 .. tab.bcount /\ b + 1 \in 0 .. tab.bcount
          /\ b + 1 =< tab.bcount /\ tab.bcount \in 0 .. tab.bcount
      <4>1. /\ b \in 0 .. tab.bcount /\ b + 1 \in 0 .. tab.bcount
            /\ b + 1 =< tab.bcount /\ tab.bcount \in 0 .. tab.bcount
        BY <2>1
      <4>2. off \in [0 .. tab.bcount -> Nat]
        BY <2>2 DEF Layout
      <4> QED  BY <4>1, <4>2
    <3>3. k = off[b] + i /\ i \in 1 .. Len(chain)
      BY <3>1, <3>2
    <3> HIDE DEF i
    <3>4. ns[k] = chain[i]
      BY <2>2, <3>3 DEF Layout
    <3>5. Len(chain) \in Nat
      BY <2>1, NodeSetIs
    <3>6. off[b + 1] = off[b] + Len(chain) /\ off[b + 1] =< Len(ns)
      BY <2>2, <3>2 DEF Layout
    <3>7. ChainNext(tab, ns[k]) = IF i = Len(chain) THEN <<>> ELSE <<chain[i + 1]>>
      BY <2>1, <3>3, <3>4, NextIs
    <3>8. CASE i # Len(chain)
      <4>1. i + 1 \in 1 .. Len(chain) /\ off[b] + (i + 1) = k + 1 /\ k + 1 =< Len(ns)
        <5> HIDE DEF chain, ns
        <5>1. i \in Nat /\ i =< Len(chain) /\ 1 =< i
          BY <3>3, <3>5
        <5>2. i < Len(chain)
          BY <3>5, <3>8, <5>1
        <5> QED  BY <2>3, <3>2, <3>3, <3>5, <3>6, <5>1, <5>2
      <4>2. ns[k + 1] = chain[i + 1]
        <5>1. ns[off[b] + (i + 1)] = chain[i + 1]
          BY <2>2, <4>1 DEF Layout
        <5> QED  BY <4>1, <5>1
      <4>3. k # Len(ns)
        <5>1. \A l \in Nat : k + 1 =< l => k # l
          OBVIOUS
        <5>2. Len(ns) \in Nat /\ k + 1 =< Len(ns)
          BY <2>3, <4>1
        <5> HIDE DEF ns
        <5> QED  BY <5>1, <5>2
      <4>4. ChainNext(tab, ns[k]) = <<ns[k + 1]>>
        BY <3>7, <3>8, <4>2
      <4>5. <<ns[k + 1]>> # <<>>
        OBVIOUS
      <4> HIDE DEF ns
      <4> QED  BY <4>3, <4>4, <4>5 DEF NextNode
    <3>9. CASE i = Len(chain)
      <4>1. off[b + 1] = k
        BY <3>3, <3>6, <3>9
      <4>2. ns[k].bucket = b
        BY <2>1, <3>3, <3>4 DEF Chained, AtHome
      <4>3. ChainNext(tab, ns[k]) = <<>>
        BY <3>7, <3>9
      <4>4. NextNode(tab, ns[k]) = FirstFrom(tab, b + 1)
        BY <4>2, <4>3 DEF NextNode
      <4>5. FirstFrom(tab, b + 1) =
                IF off[b + 1] = Len(ns) THEN <<>> ELSE <<ns[off[b + 1] + 1]>>
        BY <2>1, <2>2, <3>2, FirstIs
      <4> QED  BY <4>1, <4>4, <4>5
    <3> QED  BY <3>8, <3>9
  <2> QED  BY <2>3, <2>4, <2>5 DEF IterationCovers
<1> QED  BY <1>1, TableAlways, PTL

------------------------------------------------------------------------------
(***************************************************************************)
(* What a walk has before it: the keys in the chains behind the i-th, and  *)
(* in the i-th from the node p on.                                         *)
(***************************************************************************)
From(chain, p, j) == p # <<>> /\ \E k \in 1 .. j : Folded[chain[k].key] = Folded[p]

AheadAt(t, i, p, f, b, j) ==
    /\ f = Folded[t.buckets[b][j].key]
    /\ b > i \/ (b = i /\ From(t.buckets[b], p, j))

Ahead(t, i, p, f) ==
    \E b \in 0 .. t.bcount - 1 : \E j \in 1 .. Len(t.buckets[b]) : AheadAt(t, i, p, f, b, j)

\* The same keys at the same places.
Alike(t, u) ==
    /\ u.bcount = t.bcount
    /\ \A b \in 0 .. t.bcount - 1 :
        /\ Len(u.buckets[b]) = Len(t.buckets[b])
        /\ \A j \in 1 .. Len(t.buckets[b]) :
            Folded[u.buckets[b][j].key] = Folded[t.buckets[b][j].key]

LEMMA AlikeAhead ==
    ASSUME NEW t, HasChains(t), NEW u, Alike(t, u), NEW i, NEW p, NEW q,
           p # <<>> <=> q # <<>>, p # <<>> => Folded[p] = Folded[q], NEW f
    PROVE  Ahead(t, i, p, f) <=> Ahead(u, i, q, f)
<1>1. ASSUME NEW b \in 0 .. t.bcount - 1, NEW j \in 1 .. Len(t.buckets[b])
      PROVE  From(t.buckets[b], p, j) <=> From(u.buckets[b], q, j)
  <2>1. Len(t.buckets[b]) \in Nat
    BY NodeSetIs
  <2>2. \A k \in 1 .. j : k \in 1 .. Len(t.buckets[b])
    BY <2>1
  <2>3. \A k \in 1 .. j : Folded[u.buckets[b][k].key] = Folded[t.buckets[b][k].key]
    BY <2>2 DEF Alike
  <2> QED  BY <2>3 DEF From
<1>2. ASSUME NEW b \in 0 .. t.bcount - 1, NEW j \in 1 .. Len(t.buckets[b])
      PROVE  AheadAt(t, i, p, f, b, j) <=> AheadAt(u, i, q, f, b, j)
  BY <1>1 DEF AheadAt, Alike
<1>3. ASSUME Ahead(t, i, p, f)
      PROVE  Ahead(u, i, q, f)
  <2>1. PICK b \in 0 .. t.bcount - 1 : \E j \in 1 .. Len(t.buckets[b]) : AheadAt(t, i, p, f, b, j)
    BY <1>3 DEF Ahead
  <2>2. PICK j \in 1 .. Len(t.buckets[b]) : AheadAt(t, i, p, f, b, j)
    BY <2>1
  <2>3. AheadAt(u, i, q, f, b, j) /\ b \in 0 .. u.bcount - 1 /\ j \in 1 .. Len(u.buckets[b])
    BY <1>2, <2>2 DEF Alike
  <2> QED  BY <2>3 DEF Ahead
<1>4. ASSUME Ahead(u, i, q, f)
      PROVE  Ahead(t, i, p, f)
  <2>1. PICK b \in 0 .. u.bcount - 1 : \E j \in 1 .. Len(u.buckets[b]) : AheadAt(u, i, q, f, b, j)
    BY <1>4 DEF Ahead
  <2>2. PICK j \in 1 .. Len(u.buckets[b]) : AheadAt(u, i, q, f, b, j)
    BY <2>1
  <2>3. b \in 0 .. t.bcount - 1 /\ j \in 1 .. Len(t.buckets[b])
    BY DEF Alike
  <2>4. AheadAt(t, i, p, f, b, j)
    BY <1>2, <2>2, <2>3
  <2> QED  BY <2>3, <2>4 DEF Ahead
<1> QED  BY <1>3, <1>4

\* Table r is table s without the node at place k of chain c, of key g.
Moved(j, k) == IF j < k THEN j ELSE j + 1
Thinned(r, s, c, k, g) ==
    /\ r.bcount = s.bcount
    /\ c \in 0 .. s.bcount - 1
    /\ \A b \in 0 .. s.bcount - 1 : b # c => r.buckets[b] = s.buckets[b]
    /\ k \in 1 .. Len(s.buckets[c])
    /\ Len(r.buckets[c]) = Len(s.buckets[c]) - 1
    /\ \A j \in 1 .. Len(r.buckets[c]) : r.buckets[c][j] = s.buckets[c][Moved(j, k)]
    /\ g = Folded[s.buckets[c][k].key]

\* For the other keys nothing changes.
LEMMA ThinnedAhead ==
    ASSUME NEW s, HasChains(s), NEW r, NEW c, NEW k, NEW g, Thinned(r, s, c, k, g),
           NEW i, NEW p, p # <<>> => Folded[p] # g, NEW f, f # g
    PROVE  Ahead(r, i, p, f) <=> Ahead(s, i, p, f)
<1> DEFINE n == Len(s.buckets[c])
<1>1. n \in Nat /\ k \in 1 .. n /\ Len(r.buckets[c]) = n - 1 /\ c \in 0 .. s.bcount - 1
      /\ c \in 0 .. r.bcount - 1
  BY NodeSetIs DEF Thinned
<1> HIDE DEF n
<1>2. /\ \A j \in 1 .. n - 1 : Moved(j, k) \in 1 .. n
      /\ \A l \in 1 .. n : l # k => \E j \in 1 .. n - 1 : Moved(j, k) = l
      /\ \A j, l \in 1 .. n - 1 : Moved(l, k) =< Moved(j, k) <=> l =< j
  <2>1. \A j \in 1 .. n - 1 : Moved(j, k) \in 1 .. n
    BY <1>1 DEF Moved
  <2>2. ASSUME NEW l \in 1 .. n, l # k
        PROVE  \E j \in 1 .. n - 1 : Moved(j, k) = l
    <3>1. CASE l < k
      <4>1. l \in 1 .. n - 1 /\ Moved(l, k) = l
        BY <1>1, <3>1 DEF Moved
      <4> QED  BY <4>1
    <3>2. CASE l > k
      <4>1. l - 1 \in 1 .. n - 1 /\ Moved(l - 1, k) = l
        BY <1>1, <3>2 DEF Moved
      <4> QED  BY <4>1
    <3> QED  BY <1>1, <2>2, <3>1, <3>2
  <2>3. \A j, l \in 1 .. n - 1 : Moved(l, k) =< Moved(j, k) <=> l =< j
    BY <1>1 DEF Moved
  <2> QED  BY <2>1, <2>2, <2>3
<1>3. \A j \in 1 .. n - 1 : r.buckets[c][j] = s.buckets[c][Moved(j, k)]
  BY <1>1 DEF Thinned
<1>4. ASSUME NEW j \in 1 .. n - 1
      PROVE  From(r.buckets[c], p, j) <=> From(s.buckets[c], p, Moved(j, k))
  <2>1. ASSUME From(r.buckets[c], p, j)
        PROVE  From(s.buckets[c], p, Moved(j, k))
    <3>1. PICK l \in 1 .. j : Folded[r.buckets[c][l].key] = Folded[p]
      BY <2>1 DEF From
    <3>2. l \in 1 .. n - 1 /\ l =< j
      BY <1>1
    <3>3. Moved(l, k) \in 1 .. n /\ Moved(j, k) \in 1 .. n /\ Moved(l, k) =< Moved(j, k)
      BY <1>2, <3>2
    <3>4. Moved(l, k) \in 1 .. Moved(j, k)
      BY <1>1, <3>3
    <3>5. Folded[s.buckets[c][Moved(l, k)].key] = Folded[p]
      BY <1>3, <3>1, <3>2
    <3> QED  BY <2>1, <3>4, <3>5 DEF From
  <2>2. ASSUME From(s.buckets[c], p, Moved(j, k))
        PROVE  From(r.buckets[c], p, j)
    <3>1. PICK m \in 1 .. Moved(j, k) : Folded[s.buckets[c][m].key] = Folded[p]
      BY <2>2 DEF From
    <3>2. m # k
      BY <2>2, <3>1 DEF From, Thinned
    <3>3. m \in 1 .. n
      <4>1. Moved(j, k) \in 1 .. n
        BY <1>2
      <4> QED  BY <1>1, <4>1
    <3>4. PICK l \in 1 .. n - 1 : Moved(l, k) = m
      BY <1>2, <3>2, <3>3
    <3>5. Moved(l, k) =< Moved(j, k)
      <4>1. Moved(j, k) \in 1 .. n
        BY <1>2
      <4> QED  BY <1>1, <3>4, <4>1
    <3>6. l =< j
      BY <1>2, <3>5
    <3>7. l \in 1 .. j
      BY <1>1, <3>6
    <3>8. Folded[r.buckets[c][l].key] = Folded[p]
      BY <1>3, <3>1, <3>4
    <3> QED  BY <2>2, <3>7, <3>8 DEF From
  <2> QED  BY <2>1, <2>2
<1>5. ASSUME NEW j \in 1 .. n - 1
      PROVE  AheadAt(r, i, p, f, c, j) <=> AheadAt(s, i, p, f, c, Moved(j, k))
  BY <1>3, <1>4 DEF AheadAt
<1>6. ASSUME NEW b \in 0 .. s.bcount - 1, b # c, NEW j
      PROVE  AheadAt(r, i, p, f, b, j) <=> AheadAt(s, i, p, f, b, j)
  BY <1>6 DEF AheadAt, Thinned
<1>7. ASSUME Ahead(r, i, p, f)
      PROVE  Ahead(s, i, p, f)
  <2>1. PICK b \in 0 .. r.bcount - 1 : \E j \in 1 .. Len(r.buckets[b]) : AheadAt(r, i, p, f, b, j)
    BY <1>7 DEF Ahead
  <2>2. PICK j \in 1 .. Len(r.buckets[b]) : AheadAt(r, i, p, f, b, j)
    BY <2>1
  <2>3. b \in 0 .. s.bcount - 1
    BY DEF Thinned
  <2>4. CASE b = c
    <3>1. j \in 1 .. n - 1
      BY <1>1, <2>4
    <3>2. AheadAt(s, i, p, f, c, Moved(j, k)) /\ Moved(j, k) \in 1 .. n
      BY <1>2, <1>5, <2>2, <2>4, <3>1
    <3> QED  BY <1>1, <3>2 DEF Ahead, n
  <2>5. CASE b # c
    <3>1. AheadAt(s, i, p, f, b, j)
      BY <1>6, <2>2, <2>3, <2>5
    <3>2. r.buckets[b] = s.buckets[b]
      BY <2>3, <2>5 DEF Thinned
    <3> QED  BY <2>3, <3>1, <3>2 DEF Ahead
  <2> QED  BY <2>4, <2>5
<1>8. ASSUME Ahead(s, i, p, f)
      PROVE  Ahead(r, i, p, f)
  <2>1. PICK b \in 0 .. s.bcount - 1 : \E j \in 1 .. Len(s.buckets[b]) : AheadAt(s, i, p, f, b, j)
    BY <1>8 DEF Ahead
  <2>2. PICK l \in 1 .. Len(s.buckets[b]) : AheadAt(s, i, p, f, b, l)
    BY <2>1
  <2>3. b \in 0 .. r.bcount - 1
    BY DEF Thinned
  <2>4. CASE b = c
    <3>1. l \in 1 .. n /\ AheadAt(s, i, p, f, c, l)
      BY <2>2, <2>4 DEF n
    <3>2. l # k
      BY <3>1 DEF AheadAt, Thinned
    <3>3. PICK j \in 1 .. n - 1 : Moved(j, k) = l
      BY <1>2, <3>1, <3>2
    <3>4. AheadAt(r, i, p, f, c, j)
      BY <1>5, <3>1, <3>3
    <3> QED  BY <1>1, <3>4 DEF Ahead
  <2>5. CASE b # c
    <3>1. AheadAt(r, i, p, f, b, l)
      BY <1>6, <2>2, <2>5
    <3>2. r.buckets[b] = s.buckets[b]
      BY <2>5 DEF Thinned
    <3> QED  BY <2>3, <3>1, <3>2 DEF Ahead
  <2> QED  BY <2>4, <2>5
<1> QED  BY <1>7, <1>8

\* The places of keys after the changes an operation makes.
LEMMA ReplaceAlike ==
    ASSUME NEW t, Tidy(t), NEW old \in NodeSet(t), NEW new, Folded[new.key] = Folded[old.key],
           NEW u, u = ReplaceIn(t, old, new)
    PROVE  Alike(t, u)
<1> DEFINE c == old.bucket
           chain == t.buckets[c]
           d == [i \in DOMAIN chain |-> IF chain[i] = old THEN new ELSE chain[i]]
           bs == [t.buckets EXCEPT ![c] = d]
<1>1. HasChains(t) /\ t \in [bcount : Nat, count : Nat, buckets : {t.buckets}]
  BY DEF Tidy, Chained, IsTable
<1>2. c \in 0 .. t.bcount - 1
  BY NodeHome DEF Tidy
<1>3. u = [t EXCEPT !.buckets = bs]
  BY DEF ReplaceIn
<1>4. u.bcount = t.bcount /\ u.buckets = bs
  <2> HIDE DEF bs
  <2> QED  BY <1>1, <1>3
<1>5. u.buckets[c] = d /\ \A b \in 0 .. t.bcount - 1 : b # c => u.buckets[b] = t.buckets[b]
  <2>1. t.buckets \in [0 .. t.bcount - 1 -> Seq(Node)]
    BY <1>1 DEF HasChains
  <2> HIDE DEF d
  <2> QED  BY <1>2, <1>4, <2>1
<1>6. Len(chain) \in Nat /\ DOMAIN chain = 1 .. Len(chain)
  BY <1>1, <1>2, NodeSetIs
<1> HIDE DEF chain
<1>7. d = [i \in 1 .. Len(chain) |-> IF chain[i] = old THEN new ELSE chain[i]]
  BY <1>6
<1>8. \A i \in 1 .. Len(chain) : Folded[d[i].key] = Folded[chain[i].key]
  BY <1>7
<1>9. Len(d) = Len(chain)
  <2>1. DOMAIN d = 1 .. Len(chain)
    BY <1>7
  <2>2. d \in Seq({d[i] : i \in 1 .. Len(chain)})
    <3>1. d \in [1 .. Len(chain) -> {d[i] : i \in 1 .. Len(chain)}]
      BY <1>7
    <3> HIDE DEF d
    <3> QED  BY <1>6, <3>1, IsASeq
  <2> HIDE DEF d
  <2> QED  BY <1>6, <2>1, <2>2, LenProperties
<1> HIDE DEF d
<1> QED  BY <1>4, <1>5, <1>8, <1>9 DEF Alike, chain

LEMMA PushThinned ==
    ASSUME NEW t, Tidy(t), NEW x \in Node, x.bucket \in 0 .. t.bcount - 1,
           NEW u, u = PushFront(t, x)
    PROVE  Thinned(t, u, x.bucket, 1, Folded[x.key])
<1> DEFINE c == x.bucket
           old == t.buckets[c]
           d == <<x>> \o old
<1>1. HasChains(t) /\ IsTable(t) /\ t.count + 1 \in Nat
  BY DEF Tidy, Chained, IsTable
<1>2. old \in Seq(Node) /\ Len(old) \in Nat
  BY <1>1, NodeSetIs
<1>3. Len(d) = Len(old) + 1 /\ d[1] = x /\ \A i \in 1 .. Len(old) : d[i + 1] = old[i]
  BY <1>2, InFront
<1>4. u = Changed(t, c, d, t.count + 1)
  BY DEF PushFront
<1> HIDE DEF d
<1>5. u.bcount = t.bcount /\ u.buckets = [t.buckets EXCEPT ![c] = d]
  <2>1. WithChain(t, u, c, d)
    BY <1>1, <1>4, ChangedFields
  <2> QED  BY <2>1 DEF WithChain
<1>6. u.buckets[c] = d /\ \A b \in 0 .. t.bcount - 1 : b # c => u.buckets[b] = t.buckets[b]
  <2>1. t.buckets \in [0 .. t.bcount - 1 -> Seq(Node)]
    BY <1>1 DEF HasChains
  <2> QED  BY <1>5, <2>1
<1> HIDE DEF old
<1>7. 1 \in 1 .. Len(d) /\ Len(old) = Len(d) - 1
  BY <1>2, <1>3
<1>8. \A j \in 1 .. Len(old) : Moved(j, 1) = j + 1
  BY <1>2 DEF Moved
<1> QED  BY <1>3, <1>5, <1>6, <1>7, <1>8 DEF Thinned, old

LEMMA RemoveThinned ==
    ASSUME NEW t, Tidy(t), NEW n \in NodeSet(t),
           NEW k \in 1 .. Len(t.buckets[n.bucket]), t.buckets[n.bucket][k] = n,
           NEW u, u = Changed(t, n.bucket, RemoveAt(t.buckets[n.bucket], k), t.count - 1)
    PROVE  Thinned(u, t, n.bucket, k, Folded[n.key])
<1> DEFINE c == n.bucket
           chain == t.buckets[c]
           d == RemoveAt(chain, k)
<1>1. HasChains(t) /\ c \in 0 .. t.bcount - 1
  BY NodeHome DEF Tidy, Chained
<1>2. chain \in Seq(Node) /\ Len(chain) \in Nat /\ DOMAIN chain = 1 .. Len(chain)
  BY <1>1, NodeSetIs
<1>3. u = [t EXCEPT !.buckets = [t.buckets EXCEPT ![c] = d], !.count = t.count - 1]
  BY DEF Changed
<1>4. /\ d \in Seq(Node) /\ Len(d) = Len(chain) - 1
      /\ \A j \in 1 .. Len(d) : d[j] = chain[Moved(j, k)]
  <2>1. k \in DOMAIN chain
    BY <1>2
  <2> HIDE DEF chain
  <2>2. /\ d \in Seq(Node) /\ Len(d) = Len(chain) - 1
        /\ \A j \in DOMAIN d : LET l == IF j < k THEN j ELSE j + 1 IN
                l \in DOMAIN chain /\ d[j] = chain[l]
    BY <1>2, <2>1, RemoveAtShifts
  <2> HIDE DEF d
  <2>3. DOMAIN d = 1 .. Len(d)
    BY <2>2, LenProperties
  <2> QED  BY <2>2, <2>3 DEF Moved
<1> HIDE DEF d
<1>5. u.bcount = t.bcount /\ u.buckets = [t.buckets EXCEPT ![c] = d]
  <2> DEFINE bs == [t.buckets EXCEPT ![c] = d]
  <2>1. t \in [bcount : Nat, count : Nat, buckets : {t.buckets}]
    BY DEF Tidy, IsTable
  <2>2. u = [t EXCEPT !.buckets = bs, !.count = t.count - 1]
    BY <1>3
  <2> HIDE DEF bs
  <2>3. u.bcount = t.bcount /\ u.buckets = bs
    BY <2>1, <2>2
  <2> QED  BY <2>3 DEF bs
<1>6. u.buckets[c] = d /\ \A b \in 0 .. t.bcount - 1 : b # c => u.buckets[b] = t.buckets[b]
  <2>1. t.buckets \in [0 .. t.bcount - 1 -> Seq(Node)]
    BY <1>1 DEF HasChains
  <2> QED  BY <1>1, <1>5, <2>1
<1> QED  BY <1>1, <1>4, <1>5, <1>6 DEF Thinned

\* The walk begins with all keys before it, passes one with every visit, none
\* on its way to the next chain, and ends with none.
LEMMA AheadStart ==
    ASSUME NEW t, Chained(t), NEW f \in Keys(t)
    PROVE  Ahead(t, 0, HeadKey(t.buckets[0]), f)
<1> DEFINE h == HeadKey(t.buckets[0])
<1>1. HasChains(t) /\ t.bcount \in Nat
  BY DEF Chained, HasChains
<1>2. PICK n \in NodeSet(t) : f = Folded[n.key]
  BY DEF Keys
<1>3. PICK b \in 0 .. t.bcount - 1 : \E j \in 1 .. Len(t.buckets[b]) : n = t.buckets[b][j]
  BY <1>1, NodeSetIs
<1>4. PICK j \in 1 .. Len(t.buckets[b]) : n = t.buckets[b][j]
  BY <1>3
<1>5. Len(t.buckets[b]) \in Nat
  BY <1>1, NodeSetIs
<1>6. CASE b > 0
  <2>1. AheadAt(t, 0, h, f, b, j)
    BY <1>2, <1>4, <1>6 DEF AheadAt
  <2> QED  BY <2>1 DEF Ahead
<1>7. CASE b = 0
  <2>1. h # <<>> /\ h = t.buckets[0][1].key
    <3>1. 0 \in 0 .. t.bcount - 1 /\ Len(t.buckets[0]) # 0
      BY <1>5, <1>7
    <3> QED  BY <3>1, HeadIs
  <2>2. 1 \in 1 .. j
    BY <1>5
  <2>3. From(t.buckets[0], h, j)
    BY <2>1, <2>2 DEF From
  <2>4. AheadAt(t, 0, h, f, b, j)
    BY <1>2, <1>4, <1>7, <2>3 DEF AheadAt
  <2> QED  BY <2>4 DEF Ahead
<1> QED  BY <1>1, <1>6, <1>7

LEMMA AheadOnward ==
    ASSUME NEW t, Chained(t), NEW i \in Nat, i + 1 \in 0 .. t.bcount - 1, NEW f
    PROVE  Ahead(t, i, <<>>, f) <=> Ahead(t, i + 1, HeadKey(t.buckets[i + 1]), f)
<1> DEFINE h == HeadKey(t.buckets[i + 1])
<1>1. HasChains(t) /\ t.bcount \in Nat
  BY DEF Chained, HasChains
<1>2. ASSUME NEW b \in 0 .. t.bcount - 1, NEW j \in 1 .. Len(t.buckets[b])
      PROVE  AheadAt(t, i, <<>>, f, b, j) <=> AheadAt(t, i + 1, h, f, b, j)
  <2>1. Len(t.buckets[b]) \in Nat /\ 1 \in 1 .. j
    BY <1>1, NodeSetIs
  <2>2. ~From(t.buckets[b], <<>>, j)
    BY DEF From
  <2>3. b = i + 1 => From(t.buckets[b], h, j)
    <3> SUFFICES ASSUME b = i + 1
                 PROVE  From(t.buckets[b], h, j)
      OBVIOUS
    <3>1. Len(t.buckets[b]) # 0
      BY <2>1
    <3>2. h # <<>> /\ h = t.buckets[b][1].key
      BY <3>1, HeadIs
    <3> QED  BY <2>1, <3>2 DEF From
  <2>4. b > i <=> b > i + 1 \/ b = i + 1
    OBVIOUS
  <2> HIDE DEF h
  <2> QED  BY <2>2, <2>3, <2>4 DEF AheadAt
<1> HIDE DEF h
<1>3. Ahead(t, i, <<>>, f) <=> Ahead(t, i + 1, h, f)
  BY <1>2 DEF Ahead
<1> QED  BY <1>3 DEF h

LEMMA AheadVisit ==
    ASSUME NEW t, Chained(t), NEW cur, NEW h, NEW b \in 0 .. t.bcount - 1,
           NEW k \in 1 .. Len(t.buckets[b]), NextAt(t, cur, h, b, k), cur # <<>>
    PROVE  /\ \A f : Ahead(t, b, cur, f) <=> f = Folded[cur] \/ Ahead(t, b, h, f)
           /\ ~Ahead(t, b, h, Folded[cur])
<1> DEFINE chain == t.buckets[b]
<1>1. HasChains(t) /\ t.bcount \in Nat /\ Apart(chain)
  BY DEF Chained, HasChains
<1>2. Len(chain) \in Nat /\ \A i \in 1 .. Len(chain) : chain[i] \in NodeSet(t)
  BY <1>1, NodeSetIs
<1>3. Folded[chain[k].key] = Folded[cur]
  BY DEF NextAt
<1>4. h # <<>> => k + 1 \in 1 .. Len(chain) /\ Folded[h] = Folded[chain[k + 1].key]
  BY DEF NextAt
<1>5. h = <<>> <=> k = Len(chain)
  BY DEF NextAt
<1>6. ASSUME NEW j \in 1 .. Len(chain)
      PROVE  /\ From(chain, cur, j) <=> k =< j
             /\ From(chain, h, j) <=> k + 1 =< j
  <2>1. \A l \in 1 .. j : l \in 1 .. Len(chain)
    BY <1>2
  <2>2. \A l \in 1 .. j : Folded[chain[l].key] = Folded[cur] <=> l = k
    BY <1>1, <1>3, <2>1 DEF Apart
  <2>3. k \in 1 .. j <=> k =< j
    BY <1>2
  <2>4. From(chain, cur, j) <=> k =< j
    BY <2>2, <2>3 DEF From
  <2>5. CASE h = <<>>
    <3>1. ~(k + 1 =< j)
      BY <1>2, <1>5, <2>5
    <3> QED  BY <2>4, <2>5, <3>1 DEF From
  <2>6. CASE h # <<>>
    <3>1. \A l \in 1 .. j : Folded[chain[l].key] = Folded[h] <=> l = k + 1
      BY <1>1, <1>4, <2>1, <2>6 DEF Apart
    <3>2. k + 1 \in 1 .. j <=> k + 1 =< j
      BY <1>2
    <3> QED  BY <2>4, <2>6, <3>1, <3>2 DEF From
  <2> QED  BY <2>5, <2>6
<1>7. AheadAt(t, b, cur, Folded[cur], b, k)
  <2>1. k =< k
    BY <1>2
  <2> QED  BY <1>3, <1>6, <2>1 DEF AheadAt
<1>8. ASSUME NEW a \in 0 .. t.bcount - 1, NEW j \in 1 .. Len(t.buckets[a]), NEW f
      PROVE  /\ AheadAt(t, b, h, f, a, j) => AheadAt(t, b, cur, f, a, j)
             /\ AheadAt(t, b, cur, f, a, j) => f = Folded[cur] \/ AheadAt(t, b, h, f, a, j)
  <2>1. CASE a # b
    BY <2>1 DEF AheadAt
  <2>2. CASE a = b
    <3>1. j \in 1 .. Len(chain) /\ ~(b > b)
      BY <1>1, <2>2
    <3>2. /\ AheadAt(t, b, cur, f, a, j) <=> f = Folded[chain[j].key] /\ k =< j
          /\ AheadAt(t, b, h, f, a, j) <=> f = Folded[chain[j].key] /\ k + 1 =< j
      BY <1>6, <2>2, <3>1 DEF AheadAt
    <3>3. /\ k + 1 =< j => k =< j
          /\ k =< j => k = j \/ k + 1 =< j
      BY <1>2, <3>1
    <3> QED  BY <1>3, <3>2, <3>3
  <2> QED  BY <2>1, <2>2
<1>9. ~Ahead(t, b, h, Folded[cur])
  <2> SUFFICES ASSUME NEW a \in 0 .. t.bcount - 1, NEW j \in 1 .. Len(t.buckets[a]),
                      AheadAt(t, b, h, Folded[cur], a, j)
               PROVE  FALSE
    BY DEF Ahead
  <2>1. Folded[cur] = Folded[t.buckets[a][j].key] /\ (a > b \/ (a = b /\ From(chain, h, j)))
    BY DEF AheadAt
  <2>2. t.buckets[a][j] \in NodeSet(t) /\ chain[k] \in NodeSet(t)
    BY <1>1, NodeSetIs
  <2>3. t.buckets[a][j] = chain[k]
    BY <1>3, <2>1, <2>2, Unique
  <2>4. a = b
    <3>1. AtHome(t.buckets[a][j], a, t.bcount) /\ AtHome(chain[k], b, t.bcount)
      BY DEF Chained
    <3> QED  BY <2>3, <3>1 DEF AtHome
  <2>5. k = j
    BY <1>1, <1>3, <2>1, <2>4 DEF Apart
  <2>6. k + 1 =< j
    BY <1>1, <1>6, <2>1, <2>4
  <2> QED  BY <1>2, <2>5, <2>6
<1>10. ASSUME NEW f
       PROVE  Ahead(t, b, cur, f) <=> f = Folded[cur] \/ Ahead(t, b, h, f)
  <2>1. ASSUME Ahead(t, b, cur, f)
        PROVE  f = Folded[cur] \/ Ahead(t, b, h, f)
    <3>1. PICK a \in 0 .. t.bcount - 1 : \E j \in 1 .. Len(t.buckets[a]) : AheadAt(t, b, cur, f, a, j)
      BY <2>1 DEF Ahead
    <3>2. PICK j \in 1 .. Len(t.buckets[a]) : AheadAt(t, b, cur, f, a, j)
      BY <3>1
    <3>3. f = Folded[cur] \/ AheadAt(t, b, h, f, a, j)
      BY <1>8, <3>2
    <3> QED  BY <3>3 DEF Ahead
  <2>2. ASSUME Ahead(t, b, h, f)
        PROVE  Ahead(t, b, cur, f)
    <3>1. PICK a \in 0 .. t.bcount - 1 : \E j \in 1 .. Len(t.buckets[a]) : AheadAt(t, b, h, f, a, j)
      BY <2>2 DEF Ahead
    <3>2. PICK j \in 1 .. Len(t.buckets[a]) : AheadAt(t, b, h, f, a, j)
      BY <3>1
    <3>3. AheadAt(t, b, cur, f, a, j)
      BY <1>8, <3>2
    <3> QED  BY <3>3 DEF Ahead
  <2>3. ASSUME f = Folded[cur]
        PROVE  Ahead(t, b, cur, f)
    BY <1>7, <2>3 DEF Ahead
  <2> QED  BY <2>1, <2>2, <2>3
<1> QED  BY <1>9, <1>10

LEMMA AheadEnd ==
    ASSUME NEW t, HasChains(t), NEW i \in Nat, i + 1 >= t.bcount, NEW f
    PROVE  ~Ahead(t, i, <<>>, f)
<1> SUFFICES ASSUME NEW b \in 0 .. t.bcount - 1, NEW j \in 1 .. Len(t.buckets[b]),
                    AheadAt(t, i, <<>>, f, b, j)
             PROVE  FALSE
  BY DEF Ahead
<1>1. b > i
  BY DEF AheadAt, From
<1> QED  BY <1>1 DEF HasChains

\* What is before a walk is in the table.
LEMMA AheadIsKey ==
    ASSUME NEW t, HasChains(t), NEW i, NEW p, NEW f, Ahead(t, i, p, f)
    PROVE  f \in Keys(t)
<1>1. PICK b \in 0 .. t.bcount - 1 : \E j \in 1 .. Len(t.buckets[b]) : AheadAt(t, i, p, f, b, j)
  BY DEF Ahead
<1>2. PICK j \in 1 .. Len(t.buckets[b]) : AheadAt(t, i, p, f, b, j)
  BY <1>1
<1>3. t.buckets[b][j] \in NodeSet(t)
  BY NodeSetIs
<1> QED  BY <1>2, <1>3 DEF AheadAt, Keys

\* Where a walk that can still keep its promise stands.
OnTrack(t, w) ==
    /\ w.i \in 0 .. t.bcount - 1
    /\ Pointer(w) # <<>> => Hashcode[Pointer(w)] % t.bcount = w.i
    /\ \A f \in w.todo : Ahead(t, w.i, Pointer(w), f)
    /\ \A f \in w.seen : f \in Keys(t) /\ ~Ahead(t, w.i, Pointer(w), f)
    /\ ~w.again

WalkGoes(t, w) ==
    /\ w.at \in {"step", "func"} /\ ~w.resized /\ ~w.stale => OnTrack(t, w)
    /\ w.at = "done" /\ ~w.resized => w.todo = {} /\ ~w.again

LEMMA RenameGoes ==
    ASSUME NEW t, HasChains(t), NEW u, Alike(t, u), NEW w, WalkType(w), WalkGoes(t, w),
           NEW o \in Key, NEW key \in Key, Folded[o] = Folded[key], Keys(t) = Keys(u),
           NEW x, x = Renamed(w, o, key)
    PROVE  WalkGoes(u, x)
<1>1. /\ x.at = w.at /\ x.i = w.i
      /\ x.cur = Respelt(w.cur, o, key) /\ x.next = Respelt(w.next, o, key)
      /\ x.stale = w.stale /\ x.todo = w.todo /\ x.seen = w.seen
      /\ x.resized = w.resized /\ x.again = w.again
  BY RenamedFields
<1>2. o # <<>> /\ key # <<>> /\ Hashcode[o] = Hashcode[key]
  BY HtableAssumption, Folds
<1>3. \A p : /\ Respelt(p, o, key) # <<>> <=> p # <<>>
             /\ Folded[Respelt(p, o, key)] = Folded[p]
             /\ Hashcode[Respelt(p, o, key)] = Hashcode[p]
  BY <1>2 DEF Respelt
<1>4. /\ Pointer(x) # <<>> <=> Pointer(w) # <<>>
      /\ Pointer(w) # <<>> => Folded[Pointer(w)] = Folded[Pointer(x)]
      /\ Pointer(w) # <<>> => Hashcode[Pointer(x)] = Hashcode[Pointer(w)]
  BY <1>1, <1>3 DEF Pointer
<1>5. \A f : Ahead(t, w.i, Pointer(w), f) <=> Ahead(u, w.i, Pointer(x), f)
  BY <1>4, AlikeAhead
<1>6. ASSUME OnTrack(t, w)
      PROVE  OnTrack(u, x)
  <2>1. u.bcount = t.bcount
    BY DEF Alike
  <2> QED  BY <1>1, <1>4, <1>5, <1>6, <2>1 DEF OnTrack
<1> QED  BY <1>1, <1>6 DEF WalkGoes

LEMMA DisturbGoes ==
    ASSUME NEW t, NEW u, u.bcount = t.bcount, NEW w, WalkType(w), WalkGoes(t, w),
           w.at = "func", NEW removed, NEW resized \in BOOLEAN,
           NEW x, x = Disturbed(w, removed, resized),
           ~x.stale => \A f \in Keys(t) \ removed : f \in Keys(u),
           ~x.stale => \A f \in (w.todo \cup w.seen) \ removed :
                            Ahead(t, w.i, w.next, f) <=> Ahead(u, w.i, w.next, f)
    PROVE  WalkGoes(u, x)
<1>1. /\ x.at = w.at /\ x.i = w.i /\ x.cur = w.cur /\ x.next = w.next
      /\ x.stale <=> w.stale \/ (w.next # <<>> /\ Folded[w.next] \in removed)
      /\ x.todo = w.todo \ removed /\ x.seen = w.seen \ removed
      /\ x.resized <=> w.resized \/ resized
      /\ x.again = w.again
  BY DisturbedFields
<1>2. Pointer(x) = w.next /\ Pointer(w) = w.next
  BY <1>1 DEF Pointer
<1>3. ASSUME OnTrack(t, w), ~x.stale
      PROVE  OnTrack(u, x)
  BY <1>1, <1>2, <1>3 DEF OnTrack
<1> QED  BY <1>1, <1>3 DEF WalkGoes

WalkGoesInv == WalkGoes(tab, walk)

LEMMA WalkGoesStep ==
    ASSUME TableInv, TableInv', WalkInv, WalkInv', WalkGoesInv, [HtableNext]_htableVars
    PROVE  WalkGoesInv'
<1>1. /\ Tidy(tab) /\ Chained(tab) /\ HasChains(tab) /\ WalkType(walk) /\ WalkSafe(tab, walk)
      /\ WalkGoes(tab, walk) /\ tab.bcount \in Nat
  BY DEF TableInv, Tidy, Chained, HasChains, WalkInv, WalkGoesInv
<1>2. Tidy(tab') /\ Chained(tab') /\ HasChains(tab') /\ WalkType(walk') /\ WalkSafe(tab', walk')
  BY DEF TableInv, Tidy, Chained, WalkInv
<1>3. ASSUME walk'.at = "none"
      PROVE  WalkGoesInv'
  BY <1>3 DEF WalkGoesInv, WalkGoes
<1>4. ASSUME NEW key \in Key, NEW v \in Val, PutOver(key, v)
      PROVE  WalkGoesInv'
  <2> DEFINE old == FindNode(tab, key)
             new == Rekeyed(old, key, v)
  <2>1. /\ Swapped(tab, tab', old, new) /\ old \in NodeSet(tab) /\ old \in Node
        /\ Folded[old.key] = Folded[key] /\ new.key = key /\ tab' = ReplaceIn(tab, old, new)
    <3>1. new = Rekeyed(old, key, v) /\ old = FindNode(tab, key)
      OBVIOUS
    <3> HIDE DEF new, old
    <3> QED  BY <1>1, <1>4, <3>1, PutOverDoes
  <2>2. walk' = Renamed(walk, old.key, key)
    BY <1>4 DEF PutOver, Renamed
  <2> HIDE DEF old, new
  <2>3. Keys(tab) = Keys(tab')
    BY <2>1, SwappedKeys
  <2>4. old.key \in Key
    BY <2>1 DEF Node
  <2>5. Alike(tab, tab')
    BY <1>1, <2>1, ReplaceAlike
  <2>6. WalkGoes(tab', walk')
    BY <1>1, <2>1, <2>2, <2>3, <2>4, <2>5, RenameGoes
  <2> QED  BY <2>6 DEF WalkGoesInv
<1>5. ASSUME NEW key \in Key, NEW v \in Val, PutValue(key, v)
      PROVE  WalkGoesInv'
  <2> DEFINE old == FindNode(tab, key)
             new == Revalued(old, v)
  <2>1. /\ Swapped(tab, tab', old, new) /\ old \in NodeSet(tab)
        /\ new.key = old.key /\ tab' = ReplaceIn(tab, old, new)
    BY <1>1, <1>5, PutValueDoes
  <2>2. UNCHANGED walk
    BY <1>5 DEF PutValue
  <2> HIDE DEF old, new
  <2>3. Keys(tab) = Keys(tab')
    BY <2>1, SwappedKeys
  <2>4. Alike(tab, tab')
    BY <1>1, <2>1, ReplaceAlike
  <2>5. \A f : Ahead(tab, walk.i, Pointer(walk), f) <=> Ahead(tab', walk.i, Pointer(walk), f)
    BY <1>1, <2>4, AlikeAhead
  <2>6. ASSUME OnTrack(tab, walk)
        PROVE  OnTrack(tab', walk)
    BY <2>3, <2>4, <2>5, <2>6 DEF OnTrack, Alike
  <2> QED  BY <1>1, <2>2, <2>6 DEF WalkGoesInv, WalkGoes
<1>6. ASSUME NEW key \in Key, NEW v \in Val, PutNew(key, v)
      PROVE  WalkGoesInv'
  <2> DEFINE t == IF Full(tab) THEN Resize(tab, 2 * tab.bcount + 1) ELSE tab
  <2>1. /\ Tidy(t) /\ Keys(t) = Keys(tab)
        /\ ~Full(tab) => t = tab
        /\ Folded[key] \notin Keys(t)
        /\ \/ \E x \in Node : /\ x.key = key /\ x.value = v /\ Added(t, tab', x)
                              /\ tab' = PushFront(t, x)
           \/ Full(tab) /\ tab' = t
        /\ Disturb({}, Full(tab))
    BY <1>1, <1>6, PutNewDoes
  <2>2. Full(tab) \in BOOLEAN /\ walk.at \in {"none", "func"}
    BY <1>6 DEF Full, PutNew, InApp
  <2> HIDE DEF t
  <2>3. CASE walk.at # "func"
    <3>1. UNCHANGED walk /\ walk.at = "none"
      BY <2>1, <2>2, <2>3 DEF Disturb
    <3> QED  BY <1>3, <3>1
  <2>4. walk.at = "func" => walk' = Disturbed(walk, {}, Full(tab))
    BY <2>1 DEF Disturb, Disturbed
  <2>5. CASE walk.at = "func" /\ Full(tab)
    <3>1. walk'.at = walk.at /\ (walk'.resized <=> walk.resized \/ Full(tab))
      <4>1. ASSUME NEW r \in BOOLEAN, walk' = Disturbed(walk, {}, r)
            PROVE  walk'.at = walk.at /\ (walk'.resized <=> walk.resized \/ r)
        BY <1>1, <4>1, DisturbedFields
      <4> QED  BY <2>2, <2>4, <2>5, <4>1, Zenon
    <3> QED  BY <2>5, <3>1 DEF WalkGoesInv, WalkGoes
  <2>6. CASE walk.at = "func" /\ ~Full(tab)
    <3>1. PICK x \in Node : x.key = key /\ Added(tab, tab', x) /\ tab' = PushFront(tab, x)
      BY <2>1, <2>6
    <3>2. tab'.bcount = tab.bcount /\ x \in NodeSet(tab')
          /\ \A n : n \in NodeSet(tab') <=> n \in NodeSet(tab) \/ n = x
      BY <3>1 DEF Added
    <3>3. x.bucket \in 0 .. tab.bcount - 1
      BY <1>2, <3>2, NodeHome
    <3>4. Thinned(tab, tab', x.bucket, 1, Folded[key])
      <4>1. ASSUME NEW u, u = PushFront(tab, x)
            PROVE  Thinned(tab, u, x.bucket, 1, Folded[x.key])
        BY <1>1, <3>3, <4>1, PushThinned
      <4> QED  BY <3>1, <4>1
    <3>5. Folded[key] \notin Keys(tab)
      BY <2>1, <2>6
    <3>6. \A f \in Keys(tab) \ {} : f \in Keys(tab')
      BY <3>2 DEF Keys
    <3>7. ASSUME ~walk'.stale, ~walk'.resized, NEW f \in (walk.todo \cup walk.seen) \ {}
          PROVE  Ahead(tab, walk.i, walk.next, f) <=> Ahead(tab', walk.i, walk.next, f)
      <4>1. ~walk.stale /\ ~walk.resized
        BY <1>1, <2>2, <2>4, <2>6, <3>7, DisturbedFields
      <4>2. walk.next # <<>> => Folded[walk.next] # Folded[key]
        BY <1>1, <2>6, <3>5, <4>1 DEF WalkSafe, Pointer
      <4>3. OnTrack(tab, walk) /\ Pointer(walk) = walk.next
        BY <1>1, <2>6, <4>1 DEF WalkGoes, Pointer
      <4>4. f \in Keys(tab)
        BY <1>1, <4>3, AheadIsKey DEF OnTrack
      <4>5. f # Folded[key]
        BY <3>5, <4>4
      <4> QED  BY <1>2, <3>4, <4>2, <4>5, ThinnedAhead
    <3>8. CASE walk'.resized
      <4>1. walk'.at = "func"
        BY <1>1, <2>2, <2>4, <2>6, DisturbedFields
      <4> QED  BY <3>8, <4>1 DEF WalkGoesInv, WalkGoes
    <3>9. CASE ~walk'.resized
      <4>1. WalkGoes(tab', walk')
        BY <1>1, <2>2, <2>4, <2>6, <3>2, <3>6, <3>7, <3>9, DisturbGoes
      <4> QED  BY <4>1 DEF WalkGoesInv
    <3> QED  BY <3>8, <3>9
  <2> QED  BY <2>2, <2>3, <2>5, <2>6
<1>7. ASSUME NEW key \in Key, HtableRemove(key)
      PROVE  WalkGoesInv'
  <2> DEFINE n == FindNode(tab, key)
  <2>1. /\ Taken(tab, tab', n) /\ n \in NodeSet(tab) /\ Folded[n.key] = Folded[key]
        /\ Disturb({Folded[key]}, FALSE)
        /\ \E k \in 1 .. Len(tab.buckets[n.bucket]) :
                /\ tab.buckets[n.bucket][k] = n
                /\ tab' = Changed(tab, n.bucket, RemoveAt(tab.buckets[n.bucket], k), tab.count - 1)
    BY <1>1, <1>7, RemoveDoes
  <2>2. walk.at \in {"none", "func"}
    BY <1>7 DEF HtableRemove, InApp
  <2> HIDE DEF n
  <2>3. CASE walk.at # "func"
    <3>1. UNCHANGED walk /\ walk.at = "none"
      BY <2>1, <2>2, <2>3 DEF Disturb
    <3> QED  BY <1>3, <3>1
  <2>4. CASE walk.at = "func"
    <3>1. walk' = Disturbed(walk, {Folded[key]}, FALSE)
      BY <2>1, <2>4 DEF Disturb, Disturbed
    <3>2. PICK k \in 1 .. Len(tab.buckets[n.bucket]) :
                /\ tab.buckets[n.bucket][k] = n
                /\ tab' = Changed(tab, n.bucket, RemoveAt(tab.buckets[n.bucket], k), tab.count - 1)
      BY <2>1
    <3>3. Thinned(tab', tab, n.bucket, k, Folded[key])
      <4>1. ASSUME NEW u, u = Changed(tab, n.bucket, RemoveAt(tab.buckets[n.bucket], k), tab.count - 1)
            PROVE  Thinned(u, tab, n.bucket, k, Folded[n.key])
        BY <1>1, <2>1, <3>2, <4>1, RemoveThinned
      <4> QED  BY <2>1, <3>2, <4>1
    <3>4. tab'.bcount = tab.bcount /\ \A f \in Keys(tab) \ {Folded[key]} : f \in Keys(tab')
      BY <2>1 DEF Taken, Keys
    <3>5. ASSUME ~walk'.stale, NEW f \in (walk.todo \cup walk.seen) \ {Folded[key]}
          PROVE  Ahead(tab, walk.i, walk.next, f) <=> Ahead(tab', walk.i, walk.next, f)
      <4>1. walk.next # <<>> => Folded[walk.next] # Folded[key]
        BY <1>1, <3>1, <3>5, DisturbedFields
      <4>2. f # Folded[key]
        OBVIOUS
      <4> QED  BY <1>1, <3>3, <4>1, <4>2, ThinnedAhead
    <3>6. WalkGoes(tab', walk')
      BY <1>1, <2>4, <3>1, <3>4, <3>5, DisturbGoes
    <3> QED  BY <3>6 DEF WalkGoesInv
  <2> QED  BY <2>3, <2>4
<1>8. CASE HtableClear
  <2>1. Disturb(Keys(tab), FALSE) /\ walk.at \in {"none", "func"} /\ tab' = Empty(tab.bcount)
    BY <1>8 DEF HtableClear, InApp, Keys
  <2>2. CASE walk.at # "func"
    <3>1. UNCHANGED walk /\ walk.at = "none"
      BY <2>1, <2>2 DEF Disturb
    <3> QED  BY <1>3, <3>1
  <2>3. CASE walk.at = "func"
    <3>1. walk' = Disturbed(walk, Keys(tab), FALSE)
      BY <2>1, <2>3 DEF Disturb, Disturbed
    <3>2. /\ walk'.at = "func" /\ walk'.next = walk.next /\ walk'.i = walk.i
          /\ walk'.todo = walk.todo \ Keys(tab) /\ walk'.seen = walk.seen \ Keys(tab)
          /\ walk'.stale <=> walk.stale \/ (walk.next # <<>> /\ Folded[walk.next] \in Keys(tab))
          /\ walk'.resized <=> walk.resized \/ FALSE
          /\ walk'.again = walk.again
      <4>1. ASSUME NEW removed, NEW r \in BOOLEAN, walk' = Disturbed(walk, removed, r)
            PROVE  /\ walk'.at = walk.at /\ walk'.next = walk.next /\ walk'.i = walk.i
                   /\ walk'.todo = walk.todo \ removed /\ walk'.seen = walk.seen \ removed
                   /\ walk'.stale <=> walk.stale \/ (walk.next # <<>> /\ Folded[walk.next] \in removed)
                   /\ walk'.resized <=> walk.resized \/ r
                   /\ walk'.again = walk.again
        BY <1>1, <4>1, DisturbedFields
      <4>2. FALSE \in BOOLEAN
        OBVIOUS
      <4> QED  BY <2>3, <3>1, <4>1, <4>2, Zenon
    <3>3. ASSUME ~walk'.stale, ~walk'.resized
          PROVE  OnTrack(tab', walk')
      <4>1. OnTrack(tab, walk) /\ ~walk.stale
        BY <1>1, <2>3, <3>2, <3>3 DEF WalkGoes
      <4>2. walk.todo \subseteq Keys(tab) /\ walk.seen \subseteq Keys(tab)
        BY <1>1, <4>1, AheadIsKey DEF OnTrack
      <4>3. walk'.todo = {} /\ walk'.seen = {}
        BY <3>2, <4>2
      <4>4. walk.next = <<>>
        BY <1>1, <2>3, <3>2, <3>3, <4>1 DEF WalkSafe, Pointer
      <4>5. tab'.bcount = tab.bcount
        BY <1>1, <2>1, EmptyTidy
      <4> QED  BY <3>2, <4>1, <4>3, <4>4, <4>5 DEF OnTrack, Pointer
    <3> QED  BY <3>2, <3>3 DEF WalkGoesInv, WalkGoes
  <2> QED  BY <2>2, <2>3
<1>9. CASE HtableDestroy
  BY <1>3, <1>9 DEF HtableDestroy
<1>10. ASSUME NEW n \in FirstBuckets, HtableCreate(n)
       PROVE  WalkGoesInv'
  <2>1. tab.bcount = 0 /\ UNCHANGED walk
    BY <1>10 DEF HtableCreate
  <2>2. ~OnTrack(tab, walk)
    BY <2>1 DEF OnTrack
  <2> QED  BY <1>1, <2>1, <2>2 DEF WalkGoesInv, WalkGoes
<1>11. CASE WalkStart
  <2>1. PICK h : /\ h = HeadKey(tab.buckets[0]) /\ 0 \in 0 .. tab.bcount - 1
                 /\ walk' = Begun(h, Keys(tab)) /\ UNCHANGED <<tab, hfault>>
    BY <1>1, <1>11, WalkActions
  <2>2. h \in Key \cup {<<>>} /\ (h # <<>> => 1 \in 1 .. Len(tab.buckets[0]) /\ h = tab.buckets[0][1].key)
    BY <1>1, <2>1, HeadIs
  <2>3. Keys(tab) \in SUBSET Key
    BY <1>1, KeysAreKeys
  <2>4. /\ walk'.at = "step" /\ walk'.i = 0 /\ walk'.cur = h /\ ~walk'.again
        /\ walk'.todo = Keys(tab) /\ walk'.seen = {}
    BY <2>1, <2>2, <2>3, NoWalkFields
  <2>5. Pointer(walk') = h
    BY <2>4 DEF Pointer
  <2>6. h # <<>> => Hashcode[h] % tab.bcount = 0
    BY <1>1, <2>1, <2>2 DEF Chained, AtHome
  <2>7. \A f \in Keys(tab) : Ahead(tab, 0, h, f)
    BY <1>1, <2>1, AheadStart
  <2>8. OnTrack(tab', walk')
    BY <2>1, <2>4, <2>5, <2>6, <2>7 DEF OnTrack
  <2> QED  BY <2>4, <2>8 DEF WalkGoesInv, WalkGoes
<1>12. CASE WalkStep
  <2>1. walk.at = "step" /\ UNCHANGED tab
    BY <1>1, <1>12, WalkActions
  <2>2. CASE walk.cur # <<>> /\ walk.stale /\ hfault' = TRUE /\ UNCHANGED walk
    BY <2>1, <2>2 DEF WalkGoesInv
  <2>3. CASE /\ walk.cur # <<>> /\ ~walk.stale /\ UNCHANGED hfault
             /\ walk' = Visiting(walk, HeadKey(ChainNext(tab, FindNode(tab, walk.cur))))
    <3> DEFINE h == HeadKey(ChainNext(tab, FindNode(tab, walk.cur)))
    <3>1. walk.cur \in Key /\ Folded[walk.cur] \in Keys(tab)
      BY <1>1, <2>1, <2>3 DEF WalkSafe, Pointer, WalkType
    <3>2. PICK b \in 0 .. tab.bcount - 1 : \E k \in 1 .. Len(tab.buckets[b]) :
                NextAt(tab, walk.cur, h, b, k)
      BY <1>1, <3>1, NextKeyIs
    <3>3. walk' = Visiting(walk, h)
      BY <2>3
    <3> HIDE DEF h
    <3>4. PICK k \in 1 .. Len(tab.buckets[b]) : NextAt(tab, walk.cur, h, b, k)
      BY <3>2
    <3>5. /\ h \in Key \cup {<<>>} /\ b = Hashcode[walk.cur] % tab.bcount
          /\ h # <<>> => k + 1 \in 1 .. Len(tab.buckets[b]) /\ h = tab.buckets[b][k + 1].key
      BY <3>4 DEF NextAt
    <3>6. /\ walk'.at = "func" /\ walk'.i = walk.i /\ walk'.next = h
          /\ walk'.stale = walk.stale /\ walk'.resized = walk.resized
          /\ walk'.todo = walk.todo \ {Folded[walk.cur]}
          /\ walk'.seen = walk.seen \cup ({Folded[walk.cur]} \cap walk.todo)
          /\ walk'.again <=> walk.again \/ Folded[walk.cur] \in walk.seen
      BY <1>1, <3>3, <3>5, VisitingFields
    <3>7. h # <<>> => Hashcode[h] % tab.bcount = b
      BY <1>1, <3>5 DEF Chained, AtHome
    <3>8. /\ \A f : Ahead(tab, b, walk.cur, f) <=> f = Folded[walk.cur] \/ Ahead(tab, b, h, f)
          /\ ~Ahead(tab, b, h, Folded[walk.cur])
      BY <1>1, <2>3, <3>4, AheadVisit
    <3>9. ASSUME OnTrack(tab, walk)
          PROVE  OnTrack(tab', walk')
      <4>1. Pointer(walk) = walk.cur /\ Pointer(walk') = h
        BY <2>1, <3>6 DEF Pointer
      <4>2. walk.i = b
        BY <2>3, <3>5, <3>9, <4>1 DEF OnTrack
      <4>3. Folded[walk.cur] \notin walk.seen
        BY <3>8, <3>9, <4>1, <4>2 DEF OnTrack
      <4>4. \A f \in walk'.todo : Ahead(tab, b, h, f)
        BY <3>6, <3>8, <3>9, <4>1, <4>2 DEF OnTrack
      <4>5. \A f \in walk'.seen : f \in Keys(tab) /\ ~Ahead(tab, b, h, f)
        BY <3>1, <3>6, <3>8, <3>9, <4>1, <4>2 DEF OnTrack
      <4>6. ~walk'.again
        BY <3>6, <3>9, <4>3 DEF OnTrack
      <4> QED  BY <2>1, <3>6, <3>7, <4>1, <4>2, <4>4, <4>5, <4>6 DEF OnTrack
    <3> QED  BY <1>1, <2>1, <3>6, <3>9 DEF WalkGoesInv, WalkGoes
  <2>4. CASE /\ walk.cur = <<>> /\ UNCHANGED hfault /\ walk.i + 1 \in 0 .. tab.bcount - 1
             /\ walk' = Onward(walk, HeadKey(tab.buckets[walk.i + 1]))
    <3> DEFINE b == walk.i + 1
               h == HeadKey(tab.buckets[b])
    <3>0. walk.i \in Nat /\ b \in 0 .. tab.bcount - 1
      BY <1>1, <2>4 DEF WalkType
    <3>1. h \in Key \cup {<<>>} /\ (h # <<>> => 1 \in 1 .. Len(tab.buckets[b]) /\ h = tab.buckets[b][1].key)
      <4> HIDE DEF b
      <4> QED  BY <1>1, <3>0, HeadIs
    <3>2. walk' = Onward(walk, h)
      BY <2>4
    <3>3. \A f : Ahead(tab, walk.i, <<>>, f) <=> Ahead(tab, b, h, f)
      BY <1>1, <3>0, AheadOnward
    <3> HIDE DEF h
    <3>4. /\ walk'.at = "step" /\ walk'.i = b /\ walk'.cur = h
          /\ walk'.stale = walk.stale /\ walk'.resized = walk.resized
          /\ walk'.todo = walk.todo /\ walk'.seen = walk.seen /\ walk'.again = walk.again
      BY <1>1, <2>1, <3>1, <3>2, OnwardFields
    <3> HIDE DEF b
    <3>5. h # <<>> => Hashcode[h] % tab.bcount = b
      BY <1>1, <3>0, <3>1 DEF Chained, AtHome
    <3>6. ASSUME OnTrack(tab, walk)
          PROVE  OnTrack(tab', walk')
      <4>1. Pointer(walk) = <<>> /\ Pointer(walk') = h
        BY <2>1, <2>4, <3>4 DEF Pointer
      <4> QED  BY <2>1, <3>0, <3>3, <3>4, <3>5, <3>6, <4>1 DEF OnTrack
    <3> QED  BY <1>1, <2>1, <3>4, <3>6 DEF WalkGoesInv, WalkGoes
  <2>5. CASE /\ walk.cur = <<>> /\ UNCHANGED hfault /\ walk.i + 1 >= tab.bcount
             /\ walk' = Finished(walk)
    <3>1. /\ walk'.at = "done" /\ walk'.resized = walk.resized /\ walk'.todo = walk.todo
          /\ walk'.again = walk.again
      BY <1>1, <2>5, FinishedFields
    <3>2. ~walk.stale /\ Pointer(walk) = <<>>
      BY <1>1, <2>1, <2>5 DEF WalkSafe, Pointer
    <3>3. walk.i \in Nat
      BY <1>1 DEF WalkType
    <3>4. ASSUME ~walk.resized
          PROVE  walk.todo = {} /\ ~walk.again
      <4>1. OnTrack(tab, walk)
        BY <1>1, <2>1, <3>2, <3>4 DEF WalkGoes
      <4>2. \A f : ~Ahead(tab, walk.i, <<>>, f)
        BY <1>1, <2>5, <3>3, AheadEnd
      <4> QED  BY <3>2, <4>1, <4>2 DEF OnTrack
    <3> QED  BY <3>1, <3>4 DEF WalkGoesInv, WalkGoes
  <2>6. \/ walk.cur # <<>> /\ walk.stale /\ hfault' = TRUE /\ UNCHANGED walk
        \/ /\ walk.cur # <<>> /\ ~walk.stale /\ UNCHANGED hfault
           /\ walk' = Visiting(walk, HeadKey(ChainNext(tab, FindNode(tab, walk.cur))))
        \/ /\ walk.cur = <<>> /\ UNCHANGED hfault /\ walk.i + 1 \in 0 .. tab.bcount - 1
           /\ walk' = Onward(walk, HeadKey(tab.buckets[walk.i + 1]))
        \/ /\ walk.cur = <<>> /\ UNCHANGED hfault /\ walk.i + 1 >= tab.bcount
           /\ walk' = Finished(walk)
    BY <1>1, <1>12, WalkActions
  <2> QED  BY <2>2, <2>3, <2>4, <2>5, <2>6
<1>13. ASSUME NEW go \in BOOLEAN, FuncReturns(go)
       PROVE  WalkGoesInv'
  <2>1. /\ walk.at = "func" /\ UNCHANGED tab
        /\ walk' = Resumed(walk) \/ walk' = NoWalk
    BY <1>1, <1>13, WalkActions
  <2>2. CASE walk' = NoWalk
    BY <1>3, <2>2, NoWalkFields
  <2>3. CASE walk' = Resumed(walk)
    <3>1. /\ walk'.at = "step" /\ walk'.i = walk.i /\ walk'.cur = walk.next
          /\ walk'.stale = walk.stale /\ walk'.resized = walk.resized
          /\ walk'.todo = walk.todo /\ walk'.seen = walk.seen /\ walk'.again = walk.again
      BY <1>1, <2>3, ResumedFields
    <3>2. Pointer(walk') = Pointer(walk)
      BY <2>1, <3>1 DEF Pointer
    <3>3. ASSUME OnTrack(tab, walk)
          PROVE  OnTrack(tab', walk')
      BY <2>1, <3>1, <3>2, <3>3 DEF OnTrack
    <3> QED  BY <1>1, <2>1, <3>1, <3>3 DEF WalkGoesInv, WalkGoes
  <2> QED  BY <2>1, <2>2, <2>3
<1>14. CASE WalkReturns
  BY <1>3, <1>14, NoWalkFields DEF WalkReturns
<1>15. CASE UNCHANGED htableVars
  BY <1>15 DEF htableVars, WalkGoesInv
<1> QED  BY <1>4, <1>5, <1>6, <1>7, <1>8, <1>9, <1>10, <1>11, <1>12, <1>13, <1>14, <1>15
            DEF HtableNext

\* A walk during which the table is not rebuilt visits every entry that stays,
\* once, whatever its callback puts and removes.
THEOREM WalkComplete == HtableSpec => []WalkCovers
<1>1. HtableInit => TableInv /\ WalkInv /\ WalkGoesInv
  <2>1. Tidy(NoTable)
    BY EmptyTidy DEF NoTable
  <2> QED  BY <2>1, NoWalkFields
            DEF HtableInit, TableInv, WalkInv, WalkSafe, Pointer, WalkGoesInv, WalkGoes
<1>2. TableInv /\ TableInv' /\ WalkInv /\ [HtableNext]_htableVars => WalkInv'
  BY WalkInvStep
<1>3. TableInv /\ TableInv' /\ WalkInv /\ WalkInv' /\ WalkGoesInv /\ [HtableNext]_htableVars
        => WalkGoesInv'
  BY WalkGoesStep
<1>4. WalkGoesInv => WalkCovers
  BY DEF WalkGoesInv, WalkGoes, WalkCovers
<1> QED  BY <1>1, <1>2, <1>3, <1>4, TableAlways, PTL DEF HtableSpec

------------------------------------------------------------------------------
(***************************************************************************)
(* The table as a map.                                                     *)
(***************************************************************************)

\* Function c is what ls_htable_get finds in table t.
Describes(c, t) ==
    /\ c = [f \in Keys(t) |-> c[f]]
    /\ \A n \in NodeSet(t) : c[Folded[n.key]] = n.value

LEMMA ContentIs ==
    ASSUME NEW t, Tidy(t)
    PROVE  Describes(Content(t), t)
<1> DEFINE D == {Folded[k] : k \in {j \in Key : t.bcount > 0 /\ IsIn(t, j)}}
<1>1. Chained(t) /\ t.bcount \in Nat
  BY DEF Tidy, IsTable
<1>2. t.bcount = 0 => Keys(t) = {}
  BY DEF Keys, NodeSet
<1>3. ASSUME NEW f \in D
      PROVE  f \in Keys(t)
  <2>1. PICK k \in Key : t.bcount > 0 /\ IsIn(t, k) /\ f = Folded[k]
    OBVIOUS
  <2> QED  BY <1>1, <2>1, FindIs
<1>4. ASSUME NEW f \in Keys(t)
      PROVE  f \in D /\ f \in Key /\ t.bcount > 0 /\ IsIn(t, f) /\ Folded[f] = f
  <2>1. PICK n \in NodeSet(t) : f = Folded[n.key]
    BY DEF Keys
  <2>2. n.key \in Key
    BY <1>1, NodeHome
  <2>3. f \in Key /\ Folded[f] = f
    BY <2>1, <2>2, Folds
  <2>4. t.bcount > 0
    BY <1>1, <1>2
  <2>5. IsIn(t, f)
    BY <1>1, <2>3, <2>4, FindIs
  <2> QED  BY <2>3, <2>4, <2>5
<1> HIDE DEF D
<1>5. D = Keys(t)
  BY <1>3, <1>4
<1>6. Content(t) = [f \in Keys(t) |-> FindNode(t, f).value]
  BY <1>5 DEF Content, D
<1>7. ASSUME NEW n \in NodeSet(t)
      PROVE  Content(t)[Folded[n.key]] = n.value
  <2> DEFINE f == Folded[n.key]
  <2>1. f \in Keys(t)
    BY DEF Keys
  <2>2. FindNode(t, f) \in NodeSet(t) /\ Folded[FindNode(t, f).key] = f
    BY <1>1, <1>4, <2>1, FindIs
  <2>3. FindNode(t, f) = n
    BY <1>1, <2>2, Unique
  <2> QED  BY <1>6, <2>1, <2>3
<1> QED  BY <1>6, <1>7 DEF Describes

\* Tables with the same entries have the same content.
Subset(u, t) ==
    \A n \in NodeSet(u) : \E m \in NodeSet(t) : Folded[m.key] = Folded[n.key] /\ m.value = n.value

LEMMA SameContent ==
    ASSUME NEW t, NEW u, NEW c, NEW d, Describes(c, t), Describes(d, u), Keys(u) = Keys(t),
           Subset(u, t)
    PROVE  d = c
<1>1. ASSUME NEW f \in Keys(u)
      PROVE  d[f] = c[f]
  <2>1. PICK n \in NodeSet(u) : f = Folded[n.key]
    BY DEF Keys
  <2>2. PICK m \in NodeSet(t) : Folded[m.key] = Folded[n.key] /\ m.value = n.value
    BY DEF Subset
  <2> QED  BY <2>1, <2>2 DEF Describes
<1> QED  BY <1>1 DEF Describes

\* A put.
LEMMA PutContent ==
    ASSUME NEW t, NEW u, NEW c, NEW d, Describes(c, t), Describes(d, u), NEW x \in NodeSet(u),
           NEW k, k = Folded[x.key], Keys(u) = Keys(t) \cup {k},
           \A n \in NodeSet(u) : n = x \/ (Folded[n.key] # k /\ n \in NodeSet(t))
    PROVE  d = [j \in DOMAIN c \cup {k} |-> IF j = k THEN x.value ELSE c[j]]
<1>1. DOMAIN c = Keys(t)
  BY DEF Describes
<1>2. ASSUME NEW j \in Keys(u)
      PROVE  d[j] = IF j = k THEN x.value ELSE c[j]
  <2>1. PICK n \in NodeSet(u) : j = Folded[n.key]
    BY DEF Keys
  <2>2. CASE j = k
    BY <2>2 DEF Describes
  <2>3. CASE j # k
    <3>1. n \in NodeSet(t)
      BY <2>1, <2>3
    <3> QED  BY <2>1, <2>3, <3>1 DEF Describes
  <2> QED  BY <2>2, <2>3
<1> DEFINE v == x.value
<1> HIDE DEF v
<1>3. d = [j \in Keys(u) |-> IF j = k THEN v ELSE c[j]]
  BY <1>2 DEF Describes, v
<1> QED  BY <1>1, <1>3 DEF v

\* A removal.
Less(c, keys) == [j \in DOMAIN c \ keys |-> c[j]]

LEMMA DropContent ==
    ASSUME NEW t, NEW u, NEW c, NEW d, Describes(c, t), Describes(d, u),
           NEW keys, Keys(u) = Keys(t) \ keys, NodeSet(u) \subseteq NodeSet(t)
    PROVE  d = Less(c, keys)
<1>1. DOMAIN c = Keys(t)
  BY DEF Describes
<1>2. ASSUME NEW j \in Keys(u)
      PROVE  d[j] = c[j]
  <2>1. PICK n \in NodeSet(u) : j = Folded[n.key]
    BY DEF Keys
  <2> QED  BY <2>1 DEF Describes
<1> QED  BY <1>1, <1>2 DEF Describes, Less

\* The values of a table's nodes are those of its content.
LEMMA ContentRange ==
    ASSUME NEW t, NEW c, Describes(c, t)
    PROVE  {n.value : n \in NodeSet(t)} = {c[k] : k \in DOMAIN c \cap DOMAIN c}
<1>1. DOMAIN c = Keys(t)
  BY DEF Describes
<1>2. ASSUME NEW n \in NodeSet(t)
      PROVE  \E k \in Keys(t) : n.value = c[k]
  BY DEF Describes, Keys
<1>3. ASSUME NEW k \in Keys(t)
      PROVE  \E n \in NodeSet(t) : n.value = c[k]
  BY DEF Describes, Keys
<1> QED  BY <1>1, <1>2, <1>3

\* Every step of the table is a step of the map, or none.
LEMMA MapStep ==
    ASSUME TableInv, TableInv', [HtableNext]_htableVars
    PROVE  [Map!Next]_(Map!vars)
<1> DEFINE c == Content(tab)
           d == Content(tab')
           Releases(keys) == cleaned' = {c[k] : k \in keys \cap DOMAIN c} \cap Owned
           Puts(k, v) == d = [j \in DOMAIN c \cup {k} |-> IF j = k THEN v ELSE c[j]] /\ Releases({k})
           Drops(keys) == d = [j \in DOMAIN c \ keys |-> c[j]] /\ Releases(keys)
<1>1. ASSUME NEW key \in Key, NEW v \in Val, Puts(Folded[key], v)
      PROVE  [Map!Next]_(Map!vars)
  <2>1. Map!Put(Folded[key], v)
    BY <1>1 DEF Map!Put, Map!Dropped
  <2>2. Folded[key] \in {Folded[k] : k \in Key}
    OBVIOUS
  <2>3. Map!Next
    BY <2>1, <2>2 DEF Map!Next
  <2> QED  BY <2>3
<1>2. ASSUME NEW k \in DOMAIN c, Drops({k})
      PROVE  [Map!Next]_(Map!vars)
  <2>1. Map!Drop({k})
    BY <1>2 DEF Map!Drop, Map!Dropped, Map!Restrict
  <2>2. Map!Next
    BY <2>1 DEF Map!Next
  <2> QED  BY <2>2
<1>3. ASSUME Drops(DOMAIN c)
      PROVE  [Map!Next]_(Map!vars)
  <2>1. Map!Drop(DOMAIN c)
    BY <1>3 DEF Map!Drop, Map!Dropped, Map!Restrict
  <2>2. Map!Next
    BY <2>1 DEF Map!Next
  <2> QED  BY <2>2
<1>4. ASSUME d = c, UNCHANGED cleaned
      PROVE  [Map!Next]_(Map!vars)
  BY <1>4 DEF Map!vars
<1>5. Tidy(tab) /\ Chained(tab) /\ Tidy(tab') /\ Chained(tab')
  BY DEF TableInv, Tidy
<1>6. Describes(c, tab) /\ Describes(d, tab')
  <2>1. Describes(c, tab)
    BY <1>5, ContentIs
  <2>2. Describes(d, tab')
    BY <1>5, ContentIs
  <2> QED  BY <2>1, <2>2
<1> HIDE DEF c, d
<1>7. DOMAIN c = Keys(tab) /\ \A n \in NodeSet(tab) : c[Folded[n.key]] = n.value
  BY <1>6 DEF Describes
\* A put over an entry, of either kind.
<1>8. ASSUME NEW key \in Key, NEW v \in Val, NEW old \in NodeSet(tab), NEW new,
             Swapped(tab, tab', old, new), Folded[old.key] = Folded[key],
             Folded[new.key] = Folded[key], new.value = v, NEW keys, Clean({old}, keys, tab')
      PROVE  [Map!Next]_(Map!vars)
  <2> DEFINE k == Folded[key]
  <2>1. /\ new \in NodeSet(tab') /\ k \in Keys(tab)
        /\ \A n : n \in NodeSet(tab') <=> (n \in NodeSet(tab) /\ n # old) \/ n = new
    BY <1>8 DEF Swapped, Keys
  <2>2. Keys(tab') = Keys(tab) \cup {k}
    <3>1. Folded[new.key] = Folded[old.key]
      BY <1>8
    <3>2. Keys(tab) = Keys(tab')
      BY <1>8, <3>1, SwappedKeys
    <3> QED  BY <2>1, <3>2
  <2>3. \A n \in NodeSet(tab') : n = new \/ (Folded[n.key] # k /\ n \in NodeSet(tab))
    <3> SUFFICES ASSUME NEW n \in NodeSet(tab'), n # new
                 PROVE  Folded[n.key] # k /\ n \in NodeSet(tab)
      OBVIOUS
    <3>1. n \in NodeSet(tab) /\ n # old
      BY <2>1
    <3>2. Folded[n.key] # Folded[old.key]
      BY <1>5, <3>1, Unique
    <3> QED  BY <1>8, <3>1, <3>2
  <2>4. k = Folded[new.key]
    BY <1>8
  <2> HIDE DEF k
  <2>5. d = [j \in DOMAIN c \cup {k} |-> IF j = k THEN new.value ELSE c[j]]
    BY <1>6, <2>1, <2>2, <2>3, <2>4, PutContent
  <2>6. Releases({k})
    <3>1. {k} \cap DOMAIN c = {k} /\ c[k] = old.value
      BY <1>7, <1>8, <2>1 DEF k
    <3>2. cleaned' = {n.value : n \in {old}} \cap Owned
      BY <1>8 DEF Clean
    <3>3. {n.value : n \in {old}} = {old.value} /\ {c[j] : j \in {k}} = {c[k]}
      OBVIOUS
    <3> QED  BY <3>1, <3>2, <3>3
  <2> QED  BY <1>1, <1>8, <2>5, <2>6 DEF k
<1>9. ASSUME NEW key \in Key, NEW v \in Val, PutOver(key, v)
      PROVE  [Map!Next]_(Map!vars)
  <2> DEFINE old == FindNode(tab, key)
             new == Rekeyed(old, key, v)
  <2>1. /\ Swapped(tab, tab', old, new) /\ old \in NodeSet(tab)
        /\ Folded[old.key] = Folded[key] /\ new.key = key /\ new.value = v
    <3>1. new = Rekeyed(old, key, v) /\ old = FindNode(tab, key)
      OBVIOUS
    <3> HIDE DEF new, old
    <3> QED  BY <1>5, <1>9, <3>1, PutOverDoes
  <2>2. Clean({old}, {old.key} \ {key}, tab')
    BY <1>9 DEF PutOver
  <2> HIDE DEF old, new
  <2> QED  BY <1>8, <2>1, <2>2
<1>10. ASSUME NEW key \in Key, NEW v \in Val, PutValue(key, v)
       PROVE  [Map!Next]_(Map!vars)
  <2> DEFINE old == FindNode(tab, key)
             new == Revalued(old, v)
  <2>1. /\ Swapped(tab, tab', old, new) /\ old \in NodeSet(tab)
        /\ Folded[old.key] = Folded[key] /\ new.key = old.key /\ new.value = v
    BY <1>5, <1>10, PutValueDoes
  <2>2. Clean({old}, {}, tab')
    BY <1>10 DEF PutValue
  <2> HIDE DEF old, new
  <2> QED  BY <1>8, <2>1, <2>2
<1>11. ASSUME NEW key \in Key, NEW v \in Val, PutNew(key, v)
       PROVE  [Map!Next]_(Map!vars)
  <2> DEFINE t == IF Full(tab) THEN Resize(tab, 2 * tab.bcount + 1) ELSE tab
  <2>1. /\ Tidy(t) /\ Keys(t) = Keys(tab)
        /\ Full(tab) => Grown(tab, t)
        /\ ~Full(tab) => t = tab
        /\ Folded[key] \notin Keys(t)
        /\ \/ \E x \in Node : /\ x.key = key /\ x.value = v /\ Added(t, tab', x)
                              /\ Clean({}, {}, tab')
           \/ Full(tab) /\ tab' = t /\ UNCHANGED <<cleaned, deadKeys>>
    BY <1>5, <1>11, PutNewDoes
  <2> HIDE DEF t
  <2> DEFINE e == Content(t)
  <2>2. Describes(e, t)
    BY <2>1, ContentIs
  <2>9. tab' = t => e = d
    BY DEF d
  <2> HIDE DEF e
  <2>3. e = c
    <3>1. CASE ~Full(tab)
      BY <2>1, <3>1 DEF c, e
    <3>2. CASE Full(tab)
      <4>1. Subset(t, tab)
        <5> SUFFICES ASSUME NEW n \in NodeSet(t)
                     PROVE  \E m \in NodeSet(tab) : Folded[m.key] = Folded[n.key] /\ m.value = n.value
          BY DEF Subset
        <5>1. PICK m \in NodeSet(tab) : n = Rehash(m, t.bcount)
          BY <2>1, <3>2 DEF Grown
        <5>2. n.key = m.key /\ n.value = m.value
          <6>1. m \in Node
            BY <1>5, NodeHome
          <6>2. t.bcount \in Nat \ {0}
            <7>1. t.bcount \in Nat /\ n.bucket \in 0 .. t.bcount - 1
              BY <2>1, NodeHome DEF Tidy, IsTable
            <7> QED  BY <7>1
          <6> QED  BY <5>1, <6>1, <6>2, RehashNode
        <5> QED  BY <5>2
      <4> QED  BY <1>6, <2>1, <2>2, <4>1, SameContent
    <3> QED  BY <3>1, <3>2
  <2>4. CASE Full(tab) /\ tab' = t /\ UNCHANGED <<cleaned, deadKeys>>
    BY <1>4, <2>3, <2>4, <2>9
  <2>5. ASSUME NEW x \in Node, x.key = key, x.value = v, Added(t, tab', x), Clean({}, {}, tab')
        PROVE  [Map!Next]_(Map!vars)
    <3> DEFINE k == Folded[key]
    <3>1. x \in NodeSet(tab') /\ \A n : n \in NodeSet(tab') <=> n \in NodeSet(t) \/ n = x
      BY <2>5 DEF Added
    <3>2. Keys(tab') = Keys(t) \cup {k}
      BY <2>5, <3>1 DEF Keys
    <3>3. \A n \in NodeSet(tab') : n = x \/ (Folded[n.key] # k /\ n \in NodeSet(t))
      BY <2>1, <3>1 DEF Keys
    <3>4. k = Folded[x.key]
      BY <2>5
    <3> HIDE DEF k
    <3>5. d = [j \in DOMAIN e \cup {k} |-> IF j = k THEN x.value ELSE e[j]]
      BY <1>6, <2>2, <3>1, <3>2, <3>3, <3>4, PutContent
    <3>6. Releases({k})
      <4>1. {k} \cap DOMAIN c = {}
        BY <1>7, <2>1 DEF k
      <4>2. cleaned' = {n.value : n \in {}} \cap Owned
        BY <2>5 DEF Clean
      <4>3. {n.value : n \in {}} = {} /\ {c[j] : j \in {}} = {}
        OBVIOUS
      <4> QED  BY <4>1, <4>2, <4>3
    <3> QED  BY <1>1, <2>3, <2>5, <3>5, <3>6 DEF k
  <2> QED  BY <2>1, <2>4, <2>5
<1>12. ASSUME NEW key \in Key, HtableRemove(key)
       PROVE  [Map!Next]_(Map!vars)
  <2> DEFINE n == FindNode(tab, key)
             k == Folded[key]
  <2>1. /\ Taken(tab, tab', n) /\ n \in NodeSet(tab) /\ Folded[n.key] = Folded[key]
        /\ Clean({n}, {n.key}, tab')
    BY <1>5, <1>12, RemoveDoes
  <2> HIDE DEF n
  <2>2. \A x : x \in NodeSet(tab') <=> x \in NodeSet(tab) /\ x # n
    BY <2>1 DEF Taken
  <2>3. Keys(tab') = Keys(tab) \ {k}
    <3>1. ASSUME NEW x \in NodeSet(tab')
          PROVE  Folded[x.key] \in Keys(tab) /\ Folded[x.key] # k
      <4>1. x \in NodeSet(tab) /\ x # n
        BY <2>2
      <4>2. Folded[x.key] # Folded[n.key]
        BY <1>5, <2>1, <4>1, Unique
      <4> QED  BY <2>1, <4>1, <4>2 DEF Keys
    <3>2. ASSUME NEW x \in NodeSet(tab), Folded[x.key] # k
          PROVE  Folded[x.key] \in Keys(tab')
      BY <2>1, <2>2, <3>2 DEF Keys
    <3> HIDE DEF k
    <3> QED  BY <3>1, <3>2 DEF Keys
  <2>4. NodeSet(tab') \subseteq NodeSet(tab)
    BY <2>2
  <2>5. k \in DOMAIN c /\ c[k] = n.value
    BY <1>7, <2>1 DEF Keys
  <2> HIDE DEF k
  <2>6. d = Less(c, {k})
    BY <1>6, <2>3, <2>4, DropContent
  <2>7. Releases({k})
    <3>1. {k} \cap DOMAIN c = {k}
      BY <2>5
    <3>2. cleaned' = {x.value : x \in {n}} \cap Owned
      BY <2>1 DEF Clean
    <3>3. {x.value : x \in {n}} = {n.value} /\ {c[j] : j \in {k}} = {c[k]}
      OBVIOUS
    <3> QED  BY <2>5, <3>1, <3>2, <3>3
  <2> QED  BY <1>2, <2>5, <2>6, <2>7 DEF Less
<1>13. ASSUME HtableClear \/ HtableDestroy
       PROVE  [Map!Next]_(Map!vars)
  <2>1. NodeSet(tab') = {} /\ Clean(NodeSet(tab), Key, tab')
    BY <1>5, <1>13, ClearDoes
  <2> DEFINE keys == DOMAIN c
  <2>2. Keys(tab') = Keys(tab) \ keys
    BY <1>7, <2>1 DEF Keys
  <2>3. NodeSet(tab') \subseteq NodeSet(tab)
    BY <2>1
  <2> HIDE DEF keys
  <2>4. d = Less(c, keys)
    BY <1>6, <2>2, <2>3, DropContent
  <2>5. Releases(DOMAIN c)
    <3>1. cleaned' = {n.value : n \in NodeSet(tab)} \cap Owned
      BY <2>1 DEF Clean
    <3>2. {n.value : n \in NodeSet(tab)} = {c[k] : k \in DOMAIN c \cap DOMAIN c}
      BY <1>6, ContentRange
    <3> QED  BY <3>1, <3>2
  <2> QED  BY <1>3, <2>4, <2>5 DEF keys, Less
<1>14. ASSUME NEW n \in FirstBuckets, HtableCreate(n)
       PROVE  [Map!Next]_(Map!vars)
  <2>1. NodeSet(tab') = {} /\ NodeSet(tab) = {} /\ UNCHANGED cleaned
    BY <1>5, <1>14, ClearDoes DEF HtableCreate
  <2>2. Keys(tab') = Keys(tab) /\ Subset(tab', tab)
    BY <2>1 DEF Keys, Subset
  <2>3. d = c
    BY <1>6, <2>2, SameContent
  <2> QED  BY <1>4, <2>1, <2>3
<1>15. ASSUME UNCHANGED <<tab, cleaned>>
       PROVE  [Map!Next]_(Map!vars)
  BY <1>4, <1>15 DEF c, d
<1>16. ASSUME \/ WalkStart \/ WalkStep \/ WalkReturns \/ UNCHANGED htableVars
              \/ \E go \in BOOLEAN : FuncReturns(go)
       PROVE  UNCHANGED <<tab, cleaned>>
  BY <1>16 DEF WalkStart, WalkStep, WalkReturns, FuncReturns, htableVars
<1> QED  BY <1>9, <1>10, <1>11, <1>12, <1>13, <1>14, <1>15, <1>16 DEF HtableNext

\* Under all its chains, rebuilds and failed allocations the table is a map, and
\* calls the cleaner of a value in the very step in which the map loses it.
THEOREM IsMap == HtableSpec => BehavesAsMap
<1>1. HtableInit => Map!Init
  <2>1. Tidy(NoTable) /\ NodeSet(NoTable) = {}
    BY EmptyTidy DEF NoTable
  <2>2. Describes(Content(NoTable), NoTable) /\ Keys(NoTable) = {}
    BY <2>1, ContentIs DEF Keys
  <2>3. Content(NoTable) = <<>>
    BY <2>2 DEF Describes
  <2> QED  BY <2>3 DEF HtableInit, Map!Init
<1>2. TableInv /\ TableInv' /\ [HtableNext]_htableVars => [Map!Next]_(Map!vars)
  BY MapStep
<1> QED  BY <1>1, <1>2, TableAlways, PTL DEF HtableSpec, BehavesAsMap, Map!Spec
=============================================================================
