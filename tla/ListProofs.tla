------------------------------ MODULE ListProofs ------------------------------
(***************************************************************************)
(* The list is well linked in every state, no loop uses a node that it has *)
(* freed, and the commands implement ListContents: for every number of     *)
(* nodes, all values, indices and counts.                                  *)
(***************************************************************************)
EXTENDS List, NaturalFacts, FiniteSetTheorems, SequenceTheorems, TLAPS

(***************************************************************************)
(* Chains: p lists the nodes of S, front first, and the links agree.       *)
(***************************************************************************)
Links(p, n, nd) ==
    \A j \in 1 .. n :
        /\ nd[p[j]].value \in Values
        /\ nd[p[j]].prev = IF j = 1 THEN NULL ELSE p[j - 1]
        /\ nd[p[j]].next = IF j = n THEN NULL ELSE p[j + 1]

Enumerates(p, n, S) ==
    /\ n \in Nat
    /\ p \in [1 .. n -> S]
    /\ \A x \in S : \E j \in 1 .. n : p[j] = x
    /\ \A j, k \in 1 .. n : p[j] = p[k] => j = k

Chain(p, n, h, t, nd, S) ==
    /\ Enumerates(p, n, S)
    /\ S \subseteq Nodes
    /\ h = IF n = 0 THEN NULL ELSE p[1]
    /\ t = IF n = 0 THEN NULL ELSE p[n]
    /\ Links(p, n, nd)

Listed(p) == Chain(p, len, head, tail, node, owned)

(* The values along p. *)
Shown(p, n, nd) == [j \in 1 .. n |-> nd[p[j]].value]

(* Where list_rem is: at element c of those that are left.  The elements it  *)
(* has passed are before's without the ones equal to arg (Gone), and what is *)
(* ahead is as it was.  g says where an element was in before.               *)
Gone(v) == {q \in 1 .. Len(before) : before[q] = arg /\ IF pos >= 0 THEN q < v ELSE q > v}

At(p, c) == IF c \in 1 .. len THEN p[c] ELSE NULL

Increasing(g, n) == \A j, k \in 1 .. n : j < k => g[j] < g[k]

Selects(g, n, G) ==
    /\ g \in [1 .. n -> 1 .. Len(before)]
    /\ Increasing(g, n)
    /\ \A q \in 1 .. Len(before) : q \in G <=> \A j \in 1 .. n : g[j] # q

Keeps(p, g, G) ==
    /\ Selects(g, len, G)
    /\ \A j \in 1 .. len : node[p[j]].value = before[g[j]]

RemForward(p, g, c) ==
    /\ c \in 1 .. len + 1
    /\ \A j \in 1 .. len : j >= c => g[j] = j + i
    /\ Keeps(p, g, Gone(c + i)) /\ Cardinality(Gone(c + i)) = i
    /\ count = pos - i /\ (pos > 0 => i <= pos)

RemBackward(p, g, c) ==
    /\ c \in 0 .. len
    /\ \A j \in 1 .. len : j <= c => g[j] = j
    /\ Keeps(p, g, Gone(c)) /\ Cardinality(Gone(c)) = i
    /\ count = pos + i /\ i <= -pos

Removing(p, g, c) ==
    /\ Listed(p)
    /\ cur = At(p, c)
    /\ Len(before) = len + i
    /\ IF pos >= 0 THEN RemForward(p, g, c) ELSE RemBackward(p, g, c)

(* What list_free has not freed yet begins at cur. *)
Freeing(p) ==
    /\ Enumerates(p, len, owned)
    /\ cur = IF len = 0 THEN NULL ELSE p[1]
    /\ \A j \in 1 .. len : node[p[j]].next = IF j = len THEN NULL ELSE p[j + 1]

Shape ==
    /\ len \in Nat /\ head \in Pointer /\ tail \in Pointer
    /\ node \in [Nodes -> Node] /\ owned \subseteq Nodes
    /\ pc \in {"idle", "rem", "free"}
    /\ cur \in Pointer /\ count \in Int /\ pos \in Int /\ i \in Nat
    /\ arg \in Values \cup {NULL} /\ before \in Seq(Values)
    /\ pc = "idle" => cur = NULL
    /\ pc = "rem" => pos \in Counts /\ arg \in Values

IInv ==
    /\ Shape
    /\ pc = "idle" => \E p : Listed(p)
    /\ pc = "rem" => \E p, g, c : Removing(p, g, c)
    /\ pc = "free" => \E p : Freeing(p)

-----------------------------------------------------------------------------
(***************************************************************************)
(* The walk from the head.                                                 *)
(***************************************************************************)

(* The defining equation of the walk in list_index. *)
IsWalk(f, id) ==
    f = [j \in 0 .. id |-> IF j = 0 THEN head
                           ELSE IF f[j - 1] = NULL THEN NULL ELSE node[f[j - 1]].next]

LEMMA WalkUnique ==
    ASSUME NEW id \in Nat, NEW f, NEW g, IsWalk(f, id), IsWalk(g, id)
    PROVE  f = g
<1> DEFINE S == {n \in Nat : n <= id => f[n] = g[n]}
<1>1. 0 \in S
  BY DEF IsWalk
<1>2. ASSUME NEW n \in Nat, n \in S PROVE n + 1 \in S
  <2> SUFFICES ASSUME n + 1 <= id PROVE f[n + 1] = g[n + 1]
    OBVIOUS
  <2>1. f[n] = g[n]
    BY <1>2
  <2>2. n + 1 \in 0 .. id /\ n + 1 # 0 /\ (n + 1) - 1 = n
    OBVIOUS
  <2>3. /\ f[n + 1] = IF f[n] = NULL THEN NULL ELSE node[f[n]].next
        /\ g[n + 1] = IF g[n] = NULL THEN NULL ELSE node[g[n]].next
    BY <2>2 DEF IsWalk
  <2> QED  BY <2>1, <2>3
<1>3. Nat \subseteq S
  <2> HIDE DEF S
  <2> QED  BY <1>1, <1>2, SetInduction
<1>4. \A n \in 0 .. id : f[n] = g[n]
  BY <1>3
<1> QED  BY <1>4 DEF IsWalk

(* Following next from the head visits the nodes of the chain in order and   *)
(* then stays at NULL.                                                       *)
LEMMA WalkFollowsChain ==
    ASSUME NEW p, Listed(p), NULL \notin Nodes
    PROVE  \A id \in Nat : list_index(id) = IF id < len THEN p[id + 1] ELSE NULL
<1> TAKE id \in Nat
<1> DEFINE f == [j \in 0 .. id |-> IF j < len THEN p[j + 1] ELSE NULL]
           W == CHOOSE w : IsWalk(w, id)
<1>1. IsWalk(f, id)
  <2>1. len \in Nat
    BY DEF Listed, Chain, Enumerates
  <2>2. ASSUME NEW j \in 0 .. id
        PROVE  f[j] = IF j = 0 THEN head
                      ELSE IF f[j - 1] = NULL THEN NULL ELSE node[f[j - 1]].next
    <3>1. CASE j = 0
      BY <2>1, <3>1 DEF Listed, Chain
    <3>2. CASE j # 0 /\ j - 1 < len
      <4>1. j \in 1 .. len /\ j - 1 \in 0 .. id /\ (j - 1) + 1 = j
        BY <2>1, <3>2
      <4>2. f[j - 1] = p[j] /\ p[j] \in Nodes
        BY <3>2, <4>1 DEF Listed, Chain, Enumerates
      <4>3. node[p[j]].next = IF j = len THEN NULL ELSE p[j + 1]
        BY <4>1 DEF Listed, Chain, Links
      <4>4. f[j] = IF j < len THEN p[j + 1] ELSE NULL
        OBVIOUS
      <4>5. j = len \/ j < len
        BY <2>1, <4>1
      <4> HIDE DEF f
      <4> QED  BY <2>1, <3>2, <4>1, <4>2, <4>3, <4>4, <4>5
    <3>3. CASE j # 0 /\ ~ (j - 1 < len)
      <4>1. ~ (j < len) /\ j - 1 \in 0 .. id
        BY <2>1, <3>3
      <4> QED  BY <3>3, <4>1
    <3> QED  BY <3>1, <3>2, <3>3
  <2>3. f = [j \in 0 .. id |-> IF j = 0 THEN head
                ELSE IF f[j - 1] = NULL THEN NULL ELSE node[f[j - 1]].next]
    <3> HIDE DEF f
    <3>1. f = [j \in 0 .. id |-> f[j]]
      BY DEF f
    <3> QED  BY <2>2, <3>1, Zenon
  <2> HIDE DEF f
  <2> QED  BY <2>3 DEF IsWalk
<1>2. IsWalk(W, id)
  <2> HIDE DEF f
  <2> QED  BY <1>1
<1>3. W = f
  <2> HIDE DEF f, W
  <2> QED  BY <1>1, <1>2, WalkUnique
<1>4. list_index(id) = W[id]
  <2>1. ~ (id < 0)
    OBVIOUS
  <2> QED  BY <2>1 DEF list_index, IsWalk
<1>5. f[id] = IF id < len THEN p[id + 1] ELSE NULL
  OBVIOUS
<1> HIDE DEF f, W
<1> QED  BY <1>3, <1>4, <1>5

(* The elements are the values along the chain. *)
LEMMA ElementsAreShown ==
    \A p : Listed(p) /\ NULL \notin Nodes =>
        Elements = Shown(p, len, node) /\ Elements \in Seq(Values) /\ Len(Elements) = len
<1> SUFFICES ASSUME NEW p, Listed(p), NULL \notin Nodes
             PROVE  /\ Elements = Shown(p, len, node)
                    /\ Elements \in Seq(Values) /\ Len(Elements) = len
  OBVIOUS
<1>1. len \in Nat
  BY DEF Listed, Chain, Enumerates
<1>2. ASSUME NEW j \in 1 .. len PROVE list_index(j - 1) = p[j]
  <2>1. j - 1 \in Nat /\ j - 1 < len /\ (j - 1) + 1 = j
    BY <1>1
  <2> QED  BY <2>1, WalkFollowsChain
<1>3. Elements = Shown(p, len, node)
  BY <1>2 DEF Elements, Shown
<1>4. \A j \in 1 .. len : node[p[j]].value \in Values
  BY DEF Listed, Chain, Links
<1> QED  BY <1>1, <1>3, <1>4 DEF Shown

-----------------------------------------------------------------------------
(***************************************************************************)
(* What the operations do to a chain.                                      *)
(***************************************************************************)

(* Facts about the constants. *)
LEMMA ConstantFacts ==
    /\ IsFiniteSet(Nodes) /\ NULL \notin Nodes /\ NULL \notin Values
    /\ Counts \subseteq Int /\ Ids \subseteq Int
BY ListAssumption

(* The nodes of a chain are counted by len. *)
LEMMA ChainCounts ==
    ASSUME NEW p, NEW n, NEW S, Enumerates(p, n, S)
    PROVE  Cardinality(S) = n
<1>1. n \in Nat /\ p \in Bijection(1 .. n, S)
  BY DEF Enumerates, Bijection, Injection, Surjection, IsInjective
<1> QED  BY <1>1, FS_CountingElements DEF ExistsBijection

(* The ends of a chain are nodes, or NULL if there is none. *)
LEMMA ChainEnds ==
    ASSUME NEW p, NEW n, NEW h, NEW t, NEW nd, NEW S, Chain(p, n, h, t, nd, S)
    PROVE  n \in Nat /\ S \subseteq Nodes /\ h \in Nodes \cup {NULL} /\ t \in Nodes \cup {NULL}
<1>1. n \in Nat
  BY DEF Chain, Enumerates
<1>2. CASE n = 0
  BY <1>1, <1>2 DEF Chain
<1>3. CASE n # 0
  <2>1. 1 \in 1 .. n /\ n \in 1 .. n
    BY <1>1, <1>3
  <2> QED  BY <1>1, <1>3, <2>1 DEF Chain, Enumerates
<1> QED  BY <1>2, <1>3

(* x is a new node with the value v in front of h, or at the back after t. *)
InFront(x, v, h, nd, nd2, S) ==
    /\ nd2[x] = [value |-> v, next |-> h, prev |-> NULL]
    /\ \A y \in S : /\ nd2[y].value = nd[y].value /\ nd2[y].next = nd[y].next
                    /\ nd2[y].prev = IF y = h THEN x ELSE nd[y].prev

AtBack(x, v, t, nd, nd2, S) ==
    /\ nd2[x] = [value |-> v, next |-> NULL, prev |-> t]
    /\ \A y \in S : /\ nd2[y].value = nd[y].value /\ nd2[y].prev = nd[y].prev
                    /\ nd2[y].next = IF y = t THEN x ELSE nd[y].next

Prepended(v, s) == <<v>> \o s
Appended(s, v) == s \o <<v>>

Front(x, p, n) == [j \in 1 .. n + 1 |-> IF j = 1 THEN x ELSE p[j - 1]]
Back(x, p, n) == [j \in 1 .. n + 1 |-> IF j = n + 1 THEN x ELSE p[j]]

(* What a chain is turned into: q lists m nodes, those of T. *)
Fronted(p, n, h, t, nd, S, x, v, q, m, t2, nd2, T) ==
    /\ x \in Nodes \ S /\ v \in Values /\ InFront(x, v, h, nd, nd2, S)
    /\ q = Front(x, p, n) /\ m = n + 1 /\ T = S \cup {x}
    /\ t2 = IF n = 0 THEN x ELSE t

Backed(p, n, h, t, nd, S, x, v, q, m, h2, nd2, T) ==
    /\ x \in Nodes \ S /\ v \in Values /\ AtBack(x, v, t, nd, nd2, S)
    /\ q = Back(x, p, n) /\ m = n + 1 /\ T = S \cup {x}
    /\ h2 = IF n = 0 THEN x ELSE h

(* A new node in front. *)
LEMMA FrontKeepsChain ==
    ASSUME NEW p, NEW n, NEW h, NEW t, NEW nd, NEW S, Chain(p, n, h, t, nd, S),
           NEW x, NEW v, NEW q, NEW m, NEW t2, NEW nd2, NEW T,
           Fronted(p, n, h, t, nd, S, x, v, q, m, t2, nd2, T)
    PROVE  Chain(q, m, x, t2, nd2, T) /\ Shown(q, m, nd2) = Prepended(v, Shown(p, n, nd))
<1> USE DEF Fronted, InFront, Front
<1>1. n \in Nat /\ n + 1 \in Nat /\ n + 1 # 0 /\ (n + 1) - 1 = n
  BY DEF Chain, Enumerates
<1>2. q[1] = x /\ \A j \in 1 .. n : j + 1 \in 1 .. n + 1 /\ q[j + 1] = p[j]
  BY <1>1
<1>3. \A j \in 1 .. n + 1 : j = 1 \/ (j - 1 \in 1 .. n /\ j = (j - 1) + 1 /\ q[j] = p[j - 1])
  BY <1>1
<1>4. \A j \in 1 .. n : p[j] \in S /\ p[j] # x /\ p[j] \in Nodes
  BY DEF Chain, Enumerates
<1>5. q \in [1 .. n + 1 -> S \cup {x}]
  BY <1>1, <1>4
<1> HIDE DEF Front
<1>6. Enumerates(q, n + 1, S \cup {x})
  <2>1. ASSUME NEW y \in S \cup {x} PROVE \E j \in 1 .. n + 1 : q[j] = y
    <3>1. CASE y = x
      BY <1>1, <1>2, <3>1
    <3>2. CASE y \in S
      <4>1. PICK j \in 1 .. n : p[j] = y
        BY <3>2 DEF Chain, Enumerates
      <4> QED  BY <1>2, <4>1
    <3> QED  BY <3>1, <3>2
  <2>2. ASSUME NEW j \in 1 .. n + 1, NEW k \in 1 .. n + 1, q[j] = q[k] PROVE j = k
    <3>1. CASE j = 1 \/ k = 1
      BY <1>2, <1>3, <1>4, <2>2, <3>1
    <3>2. CASE j # 1 /\ k # 1
      <4>1. j - 1 \in 1 .. n /\ k - 1 \in 1 .. n /\ p[j - 1] = p[k - 1]
        BY <1>3, <2>2, <3>2
      <4>2. j - 1 = k - 1
        BY <4>1 DEF Chain, Enumerates
      <4> QED  BY <4>2
    <3> QED  BY <3>1, <3>2
  <2> QED  BY <1>1, <1>5, <2>1, <2>2 DEF Enumerates
<1>7. \A j \in 1 .. n : /\ nd[p[j]].value \in Values
                        /\ nd[p[j]].prev = IF j = 1 THEN NULL ELSE p[j - 1]
                        /\ nd[p[j]].next = IF j = n THEN NULL ELSE p[j + 1]
  BY DEF Chain, Links
<1>8. h = IF n = 0 THEN NULL ELSE p[1]
  BY DEF Chain
<1>9. ASSUME NEW j \in 1 .. n + 1
       PROVE  /\ nd2[q[j]].value = IF j = 1 THEN v ELSE nd[p[j - 1]].value
              /\ nd2[q[j]].value \in Values
              /\ nd2[q[j]].prev = IF j = 1 THEN NULL ELSE q[j - 1]
              /\ nd2[q[j]].next = IF j = n + 1 THEN NULL ELSE q[j + 1]
  <2>1. CASE j = 1
    <3>1. nd2[q[j]] = [value |-> v, next |-> h, prev |-> NULL]
      BY <1>2, <2>1
    <3>2. h = IF j = n + 1 THEN NULL ELSE q[j + 1]
      BY <1>1, <1>2, <1>8, <2>1
    <3> QED  BY <2>1, <3>1, <3>2
  <2>2. CASE j # 1
    <3> DEFINE k == j - 1
    <3>1. k \in 1 .. n /\ j = k + 1 /\ q[j] = p[k] /\ p[k] \in S
      BY <1>3, <1>4, <2>2
    <3> HIDE DEF k
    <3>2. nd2[q[j]].value = nd[p[k]].value /\ nd2[q[j]].next = nd[p[k]].next
      BY <3>1
    <3>3. p[k] = h <=> k = 1
      BY <1>1, <1>8, <3>1 DEF Chain, Enumerates
    <3>4. nd2[q[j]].prev = IF k = 1 THEN x ELSE p[k - 1]
      BY <1>7, <3>1, <3>3
    <3>5. q[j - 1] = IF k = 1 THEN x ELSE p[k - 1]
      <4>1. j - 1 = k
        BY <3>1
      <4> QED  BY <1>1, <1>2, <1>3, <3>1, <4>1
    <3>6. nd2[q[j]].next = IF j = n + 1 THEN NULL ELSE q[j + 1]
      BY <1>1, <1>2, <1>7, <3>1, <3>2
    <3> QED  BY <1>7, <2>2, <3>1, <3>2, <3>4, <3>5, <3>6 DEF k
  <2> QED  BY <2>1, <2>2
<1>10. Chain(q, n + 1, x, IF n = 0 THEN x ELSE t, nd2, S \cup {x})
  <2>1. (IF n = 0 THEN x ELSE t) = q[n + 1]
    BY <1>1, <1>2 DEF Chain
  <2> QED  BY <1>1, <1>2, <1>6, <1>9, <2>1 DEF Chain, Links
<1>11. Shown(q, n + 1, nd2) = Prepended(v, Shown(p, n, nd))
  <2> DEFINE a == Shown(q, n + 1, nd2)
             b == Shown(p, n, nd)
  <2>1. a = [j \in 1 .. n + 1 |-> IF j = 1 THEN v ELSE nd[p[j - 1]].value]
    BY <1>9 DEF Shown
  <2>2. b \in Seq(Values) /\ Len(b) = n /\ \A j \in 1 .. n : b[j] = nd[p[j]].value
    BY <1>1, <1>7 DEF Shown
  <2> HIDE DEF b
  <2>3. <<v>> \o b = [j \in 1 .. n + 1 |-> IF j = 1 THEN v ELSE b[j - 1]]
    BY <1>1, <2>2
  <2>4. \A j \in 1 .. n + 1 : j # 1 => b[j - 1] = nd[p[j - 1]].value
    BY <1>1, <2>2
  <2> HIDE DEF a
  <2> QED  BY <2>1, <2>3, <2>4 DEF a, b, Prepended, Appended
<1> QED  BY <1>10, <1>11

(* A new node at the back. *)
LEMMA BackKeepsChain ==
    ASSUME NEW p, NEW n, NEW h, NEW t, NEW nd, NEW S, Chain(p, n, h, t, nd, S),
           NEW x, NEW v, NEW q, NEW m, NEW h2, NEW nd2, NEW T,
           Backed(p, n, h, t, nd, S, x, v, q, m, h2, nd2, T)
    PROVE  Chain(q, m, h2, x, nd2, T) /\ Shown(q, m, nd2) = Appended(Shown(p, n, nd), v)
<1> USE DEF Backed, AtBack, Back
<1>1. n \in Nat /\ n + 1 \in Nat /\ n + 1 # 0
  BY DEF Chain, Enumerates
<1>2. q[n + 1] = x /\ \A j \in 1 .. n : j \in 1 .. n + 1 /\ j # n + 1 /\ q[j] = p[j]
  BY <1>1
<1>3. \A j \in 1 .. n + 1 : j = n + 1 \/ j \in 1 .. n
  BY <1>1
<1>4. \A j \in 1 .. n : p[j] \in S /\ p[j] # x /\ p[j] \in Nodes
  BY DEF Chain, Enumerates
<1>5. q \in [1 .. n + 1 -> S \cup {x}]
  BY <1>1, <1>4
<1> HIDE DEF Back
<1>6. Enumerates(q, n + 1, S \cup {x})
  <2>1. ASSUME NEW y \in S \cup {x} PROVE \E j \in 1 .. n + 1 : q[j] = y
    <3>1. CASE y = x
      BY <1>1, <1>2, <3>1
    <3>2. CASE y \in S
      <4>1. PICK j \in 1 .. n : p[j] = y
        BY <3>2 DEF Chain, Enumerates
      <4> QED  BY <1>2, <4>1
    <3> QED  BY <3>1, <3>2
  <2>2. ASSUME NEW j \in 1 .. n + 1, NEW k \in 1 .. n + 1, q[j] = q[k] PROVE j = k
    BY <1>2, <1>3, <1>4, <2>2 DEF Chain, Enumerates
  <2> QED  BY <1>1, <1>5, <2>1, <2>2 DEF Enumerates
<1>7. \A j \in 1 .. n : /\ nd[p[j]].value \in Values
                        /\ nd[p[j]].prev = IF j = 1 THEN NULL ELSE p[j - 1]
                        /\ nd[p[j]].next = IF j = n THEN NULL ELSE p[j + 1]
  BY DEF Chain, Links
<1>8. t = IF n = 0 THEN NULL ELSE p[n]
  BY DEF Chain
<1>9. ASSUME NEW j \in 1 .. n + 1
      PROVE  /\ nd2[q[j]].value = IF j = n + 1 THEN v ELSE nd[p[j]].value
             /\ nd2[q[j]].value \in Values
             /\ nd2[q[j]].prev = IF j = 1 THEN NULL ELSE q[j - 1]
             /\ nd2[q[j]].next = IF j = n + 1 THEN NULL ELSE q[j + 1]
  <2>1. CASE j = n + 1
    <3>1. nd2[q[j]] = [value |-> v, next |-> NULL, prev |-> t]
      BY <1>2, <2>1
    <3>2. t = IF j = 1 THEN NULL ELSE q[j - 1]
      <4>1. CASE n = 0
        BY <1>8, <2>1, <4>1
      <4>2. CASE n # 0
        <5>1. n \in 1 .. n /\ j - 1 = n /\ j # 1
          BY <1>1, <2>1, <4>2
        <5> QED  BY <1>2, <1>8, <4>2, <5>1
      <4> QED  BY <4>1, <4>2
    <3> QED  BY <2>1, <3>1, <3>2
  <2>2. CASE j # n + 1
    <3>1. j \in 1 .. n /\ q[j] = p[j] /\ p[j] \in S
      BY <1>2, <1>3, <1>4, <2>2
    <3>2. nd2[q[j]].value = nd[p[j]].value /\ nd2[q[j]].prev = nd[p[j]].prev
      BY <3>1
    <3>3. p[j] = t <=> j = n
      BY <1>1, <1>8, <3>1 DEF Chain, Enumerates
    <3>4. nd2[q[j]].next = IF j = n THEN x ELSE p[j + 1]
      BY <1>7, <3>1, <3>3
    <3>5. q[j + 1] = IF j = n THEN x ELSE p[j + 1]
      BY <1>1, <1>2, <3>1
    <3>6. nd2[q[j]].prev = IF j = 1 THEN NULL ELSE q[j - 1]
      <4>1. CASE j = 1
        BY <1>7, <3>1, <3>2, <4>1
      <4>2. CASE j # 1
        <5>1. j - 1 \in 1 .. n
          BY <1>1, <3>1, <4>2
        <5> QED  BY <1>2, <1>7, <3>1, <3>2, <4>2, <5>1
      <4> QED  BY <4>1, <4>2
    <3> QED  BY <1>7, <2>2, <3>1, <3>2, <3>4, <3>5, <3>6
  <2> QED  BY <2>1, <2>2
<1>10. Chain(q, n + 1, IF n = 0 THEN x ELSE h, x, nd2, S \cup {x})
  <2>1. (IF n = 0 THEN x ELSE h) = q[1]
    <3>1. CASE n = 0
      BY <1>2, <3>1
    <3>2. CASE n # 0
      <4>1. 1 \in 1 .. n
        BY <1>1, <3>2
      <4> QED  BY <1>2, <3>2, <4>1 DEF Chain
    <3> QED  BY <3>1, <3>2
  <2> QED  BY <1>1, <1>2, <1>6, <1>9, <2>1 DEF Chain, Links
<1>11. Shown(q, n + 1, nd2) = Appended(Shown(p, n, nd), v)
  <2> DEFINE a == Shown(q, n + 1, nd2)
             b == Shown(p, n, nd)
  <2>1. a = [j \in 1 .. n + 1 |-> IF j = n + 1 THEN v ELSE nd[p[j]].value]
    BY <1>9 DEF Shown
  <2>2. b \in Seq(Values) /\ Len(b) = n /\ \A j \in 1 .. n : b[j] = nd[p[j]].value
    BY <1>1, <1>7 DEF Shown
  <2> HIDE DEF b
  <2>3. b \o <<v>> = [j \in 1 .. n + 1 |-> IF j = n + 1 THEN v ELSE b[j]]
    BY <1>1, <2>2
  <2>4. \A j \in 1 .. n + 1 : j # n + 1 => b[j] = nd[p[j]].value
    BY <1>3, <2>2
  <2> HIDE DEF a
  <2> QED  BY <2>1, <2>3, <2>4 DEF a, b, Prepended, Appended
<1> QED  BY <1>10, <1>11

(* p without its element c. *)
Drop(p, c, n) == [j \in 1 .. n - 1 |-> IF j < c THEN p[j] ELSE p[j + 1]]

(* The node x is taken out of its neighbours' links. *)
Bridged(nd, nd2, S, x) ==
    \A y \in S \ {x} :
        /\ nd2[y].value = nd[y].value
        /\ nd2[y].next = IF y = nd[x].prev THEN nd[x].next ELSE nd[y].next
        /\ nd2[y].prev = IF y = nd[x].next THEN nd[x].prev ELSE nd[y].prev

Dropped(p, n, h, t, nd, S, c, x, q, m, h2, t2, nd2, T) ==
    /\ c \in 1 .. n /\ x = p[c] /\ Bridged(nd, nd2, S, x)
    /\ q = Drop(p, c, n) /\ m = n - 1 /\ T = S \ {x}
    /\ h2 = IF x = h THEN nd[x].next ELSE h
    /\ t2 = IF x = t THEN nd[x].prev ELSE t

(* Taking a node out leaves the chain of the others. *)
LEMMA DropKeepsChain ==
    ASSUME NULL \notin Nodes,
           NEW p, NEW n, NEW h, NEW t, NEW nd, NEW S, Chain(p, n, h, t, nd, S),
           NEW c, NEW x, NEW q, NEW m, NEW h2, NEW t2, NEW nd2, NEW T,
           Dropped(p, n, h, t, nd, S, c, x, q, m, h2, t2, nd2, T)
    PROVE  Chain(q, m, h2, t2, nd2, T) /\ Shown(q, m, nd2) = Drop(Shown(p, n, nd), c, n)
<1>0. /\ c \in 1 .. n /\ x = p[c] /\ q = Drop(p, c, n) /\ m = n - 1 /\ T = S \ {x}
      /\ h2 = IF x = h THEN nd[x].next ELSE h
      /\ t2 = IF x = t THEN nd[x].prev ELSE t
      /\ Bridged(nd, nd2, S, x)
  BY DEF Dropped
<1>1. n \in Nat /\ n - 1 \in Nat /\ n # 0 /\ c \in Nat
  BY <1>0 DEF Chain, Enumerates
<1>2. \A j \in 1 .. n - 1 : /\ j < c => j \in 1 .. n /\ j # c /\ q[j] = p[j]
                            /\ ~ (j < c) => j + 1 \in 1 .. n /\ j + 1 # c /\ q[j] = p[j + 1]
  BY <1>0, <1>1 DEF Drop
<1>3. \A j \in 1 .. n : p[j] \in S /\ p[j] \in Nodes /\ p[j] # NULL
  BY DEF Chain, Enumerates
<1>4. \A j, k \in 1 .. n : p[j] = p[k] <=> j = k
  BY DEF Chain, Enumerates
<1>5. q \in [1 .. n - 1 -> S \ {x}]
  <2>1. \A j \in 1 .. n - 1 : q[j] \in S \ {x}
    BY <1>0, <1>2, <1>3, <1>4
  <2> QED  BY <1>0, <2>1 DEF Drop
<1>6. \A j \in 1 .. n : /\ nd[p[j]].value \in Values
                        /\ nd[p[j]].prev = IF j = 1 THEN NULL ELSE p[j - 1]
                        /\ nd[p[j]].next = IF j = n THEN NULL ELSE p[j + 1]
  BY DEF Chain, Links
<1>7. Enumerates(q, n - 1, S \ {x})
  <2>1. ASSUME NEW y \in S \ {x} PROVE \E j \in 1 .. n - 1 : q[j] = y
    <3>1. PICK k \in 1 .. n : p[k] = y
      BY DEF Chain, Enumerates
    <3>2. k # c
      BY <1>0, <3>1
    <3>3. CASE k < c
      <4>1. k \in 1 .. n - 1
        BY <1>0, <1>1, <3>3
      <4> QED  BY <1>0, <1>2, <3>1, <3>3, <4>1
    <3>4. CASE k > c
      <4>1. k - 1 \in 1 .. n - 1 /\ ~ (k - 1 < c) /\ (k - 1) + 1 = k
        BY <1>0, <1>1, <3>4
      <4> QED  BY <1>0, <1>2, <3>1, <4>1
    <3> QED  BY <1>0, <1>1, <3>2, <3>3, <3>4
  <2>2. ASSUME NEW j \in 1 .. n - 1, NEW k \in 1 .. n - 1, q[j] = q[k] PROVE j = k
    BY <1>0, <1>1, <1>2, <1>4, <2>2
  <2> QED  BY <1>0, <1>1, <1>5, <2>1, <2>2 DEF Enumerates
<1>8. ASSUME NEW j \in 1 .. n, j # c
      PROVE  /\ nd2[p[j]].value = nd[p[j]].value
             /\ nd2[p[j]].next = IF j = c - 1 THEN (IF c = n THEN NULL ELSE p[c + 1])
                                 ELSE nd[p[j]].next
             /\ nd2[p[j]].prev = IF j = c + 1 THEN (IF c = 1 THEN NULL ELSE p[c - 1])
                                 ELSE nd[p[j]].prev
  <2>1. p[j] \in S \ {x}
    BY <1>0, <1>3, <1>4, <1>8
  <2>2. p[j] = nd[x].prev <=> j = c - 1
    <3>1. CASE c = 1
      BY <1>0, <1>1, <1>3, <1>6, <3>1
    <3>2. CASE c # 1
      <4>1. c - 1 \in 1 .. n /\ nd[x].prev = p[c - 1]
        BY <1>0, <1>1, <1>6, <3>2
      <4> QED  BY <1>0, <1>4, <4>1
    <3> QED  BY <3>1, <3>2
  <2>3. p[j] = nd[x].next <=> j = c + 1
    <3>1. CASE c = n
      BY <1>0, <1>1, <1>3, <1>6, <3>1
    <3>2. CASE c # n
      <4>1. c + 1 \in 1 .. n /\ nd[x].next = p[c + 1]
        BY <1>0, <1>1, <1>6, <3>2
      <4> QED  BY <1>0, <1>4, <4>1
    <3> QED  BY <3>1, <3>2
  <2>4. nd[x].next = (IF c = n THEN NULL ELSE p[c + 1]) /\ nd[x].prev = (IF c = 1 THEN NULL ELSE p[c - 1])
    BY <1>0, <1>6
  <2> QED  BY <1>0, <2>1, <2>2, <2>3, <2>4 DEF Bridged
<1>9. ASSUME NEW j \in 1 .. n - 1
      PROVE  /\ nd2[q[j]].value = IF j < c THEN nd[p[j]].value ELSE nd[p[j + 1]].value
             /\ nd2[q[j]].value \in Values
             /\ nd2[q[j]].prev = IF j = 1 THEN NULL ELSE q[j - 1]
             /\ nd2[q[j]].next = IF j = n - 1 THEN NULL ELSE q[j + 1]
  <2>1. j \in Nat /\ j >= 1 /\ j <= n - 1
    BY <1>0, <1>1
  <2>2. CASE j < c
    <3>1. j \in 1 .. n /\ j # c /\ q[j] = p[j] /\ j # c + 1
      BY <1>0, <1>1, <1>2, <2>2
    <3>2. nd2[q[j]].prev = IF j = 1 THEN NULL ELSE q[j - 1]
      <4>1. CASE j = 1
        BY <1>0, <1>6, <1>8, <3>1, <4>1
      <4>2. CASE j # 1
        <5>1. j - 1 \in 1 .. n - 1 /\ j - 1 < c
          BY <1>0, <1>1, <2>1, <2>2, <4>2
        <5> QED  BY <1>0, <1>2, <1>6, <1>8, <3>1, <4>2, <5>1
      <4> QED  BY <4>1, <4>2
    <3>3. nd2[q[j]].next = IF j = n - 1 THEN NULL ELSE q[j + 1]
      <4>1. CASE j = c - 1 /\ c = n
        BY <1>0, <1>1, <1>8, <3>1, <4>1
      <4>2. CASE j = c - 1 /\ c # n
        <5>1. c \in 1 .. n - 1 /\ j + 1 = c /\ j # n - 1
          BY <1>0, <1>1, <4>2
        <5>2. q[c] = p[c + 1]
          BY <1>0, <1>1, <1>2, <5>1
        <5> QED  BY <1>0, <1>8, <3>1, <4>2, <5>1, <5>2
      <4>3. CASE j # c - 1
        <5>1. j + 1 < c /\ j + 1 \in 1 .. n - 1 /\ j # n - 1 /\ j # n
          BY <1>0, <1>1, <2>1, <2>2, <4>3
        <5> QED  BY <1>0, <1>2, <1>6, <1>8, <3>1, <4>3, <5>1
      <4> QED  BY <4>1, <4>2, <4>3
    <3> QED  BY <1>0, <1>6, <1>8, <2>2, <3>1, <3>2, <3>3
  <2>3. CASE ~ (j < c)
    <3> DEFINE k == j + 1
    <3>1. k \in 1 .. n /\ k # c /\ q[j] = p[k] /\ k # c - 1 /\ k - 1 = j /\ k > c /\ k # 1
      BY <1>0, <1>1, <1>2, <2>1, <2>3
    <3>2. nd2[q[j]].prev = IF j = 1 THEN NULL ELSE q[j - 1]
      <4>1. CASE k = c + 1 /\ c = 1
        BY <1>0, <1>1, <1>8, <3>1, <4>1
      <4>2. CASE k = c + 1 /\ c # 1
        <5>1. c - 1 \in 1 .. n - 1 /\ j - 1 = c - 1 /\ c - 1 < c /\ j # 1
          BY <1>0, <1>1, <3>1, <4>2
        <5> QED  BY <1>0, <1>2, <1>8, <3>1, <4>2, <5>1
      <4>3. CASE k # c + 1
        <5>1. j - 1 \in 1 .. n - 1 /\ ~ (j - 1 < c) /\ j # 1 /\ (j - 1) + 1 = k - 1
          BY <1>0, <1>1, <2>1, <2>3, <3>1, <4>3
        <5>2. q[j - 1] = p[k - 1]
          BY <1>0, <1>2, <5>1
        <5> HIDE DEF k
        <5> QED  BY <1>0, <1>6, <1>8, <3>1, <4>3, <5>1, <5>2
      <4> QED  BY <4>1, <4>2, <4>3
    <3>3. nd2[q[j]].next = IF j = n - 1 THEN NULL ELSE q[j + 1]
      <4>1. CASE k = n
        BY <1>0, <1>1, <1>6, <1>8, <3>1, <4>1
      <4>2. CASE k # n
        <5>1. k \in 1 .. n - 1 /\ ~ (k < c) /\ j # n - 1
          BY <1>0, <1>1, <3>1, <4>2
        <5>2. q[k] = p[k + 1]
          BY <1>0, <1>2, <5>1
        <5> QED  BY <1>0, <1>6, <1>8, <3>1, <4>2, <5>1, <5>2
      <4> QED  BY <4>1, <4>2
    <3> QED  BY <1>0, <1>6, <1>8, <2>3, <3>1, <3>2, <3>3
  <2> QED  BY <1>0, <2>2, <2>3
<1>10. Chain(q, n - 1, IF x = h THEN nd[x].next ELSE h, IF x = t THEN nd[x].prev ELSE t,
             nd2, S \ {x})
  <2>1. h = p[1] /\ t = p[n] /\ S \subseteq Nodes
    BY <1>0, <1>1 DEF Chain
  <2>2. (IF x = h THEN nd[x].next ELSE h) = IF n - 1 = 0 THEN NULL ELSE q[1]
    <3>1. CASE c = 1
      <4>1. x = h /\ nd[x].next = IF n = 1 THEN NULL ELSE p[2]
        BY <1>0, <1>1, <1>6, <2>1, <3>1
      <4>2. n # 1 => q[1] = p[2]
        BY <1>0, <1>1, <1>2, <3>1
      <4> QED  BY <1>0, <1>1, <4>1, <4>2
    <3>2. CASE c # 1
      <4>1. 1 \in 1 .. n - 1 /\ 1 < c /\ n - 1 # 0 /\ 1 \in 1 .. n
        BY <1>0, <1>1, <3>2
      <4>2. x # h
        BY <1>0, <1>4, <2>1, <3>2, <4>1
      <4> QED  BY <1>0, <1>2, <2>1, <4>1, <4>2
    <3> QED  BY <3>1, <3>2
  <2>3. (IF x = t THEN nd[x].prev ELSE t) = IF n - 1 = 0 THEN NULL ELSE q[n - 1]
    <3>1. CASE c = n
      <4>1. x = t /\ nd[x].prev = IF n = 1 THEN NULL ELSE p[n - 1]
        BY <1>0, <1>1, <1>6, <2>1, <3>1
      <4>2. n # 1 => q[n - 1] = p[n - 1]
        BY <1>0, <1>1, <1>2, <3>1
      <4> QED  BY <1>0, <1>1, <4>1, <4>2
    <3>2. CASE c # n
      <4>1. n - 1 \in 1 .. n - 1 /\ ~ (n - 1 < c) /\ n - 1 # 0 /\ n \in 1 .. n /\ (n - 1) + 1 = n
        BY <1>0, <1>1, <3>2
      <4>2. x # t
        BY <1>0, <1>4, <2>1, <3>2, <4>1
      <4>3. q[n - 1] = p[n]
        BY <1>0, <1>2, <4>1
      <4> QED  BY <1>0, <2>1, <4>1, <4>2, <4>3
    <3> QED  BY <3>1, <3>2
  <2>4. Links(q, n - 1, nd2)
    BY <1>0, <1>9 DEF Links
  <2> QED  BY <1>0, <1>7, <2>1, <2>2, <2>3, <2>4 DEF Chain
<1>11. Shown(q, n - 1, nd2) = Drop(Shown(p, n, nd), c, n)
  <2> DEFINE b == Shown(p, n, nd)
  <2>1. Shown(q, n - 1, nd2)
            = [j \in 1 .. n - 1 |-> IF j < c THEN nd[p[j]].value ELSE nd[p[j + 1]].value]
    BY <1>0, <1>9 DEF Shown
  <2>2. \A j \in 1 .. n - 1 : j \in 1 .. n /\ j + 1 \in 1 .. n
    BY <1>0, <1>1
  <2>3. \A j \in 1 .. n : b[j] = nd[p[j]].value
    BY DEF Shown
  <2> HIDE DEF b
  <2>4. Drop(b, c, n)
            = [j \in 1 .. n - 1 |-> IF j < c THEN nd[p[j]].value ELSE nd[p[j + 1]].value]
    BY <1>0, <2>2, <2>3 DEF Drop
  <2> QED  BY <1>0, <2>1, <2>4 DEF b
<1> QED  BY <1>0, <1>10, <1>11

(* node_del unlinks its node, in each of its four cases. *)
LEMMA NodeDelBridges ==
    ASSUME NEW p, Listed(p), node \in [Nodes -> Node], NEW c \in 1 .. len, node_del(p[c])
    PROVE  /\ Bridged(node, node', owned, p[c]) /\ node' \in [Nodes -> Node]
           /\ head' = IF p[c] = head THEN node[p[c]].next ELSE head
           /\ tail' = IF p[c] = tail THEN node[p[c]].prev ELSE tail
<1> DEFINE x == p[c]
           a == node[x].prev
           b == node[x].next
<1>1. /\ len \in Nat /\ c \in Nat /\ x \in Nodes /\ x \in owned /\ owned \subseteq Nodes
      /\ NULL \notin Nodes /\ head = p[1] /\ tail = p[len]
      /\ a = IF c = 1 THEN NULL ELSE p[c - 1]
      /\ b = IF c = len THEN NULL ELSE p[c + 1]
  BY ConstantFacts DEF Listed, Chain, Enumerates, Links
<1>2. \A j, k \in 1 .. len : p[j] = p[k] <=> j = k
  BY DEF Listed, Chain, Enumerates
<1>3. \A j \in 1 .. len : p[j] \in Nodes
  BY DEF Listed, Chain, Enumerates
<1>4. /\ x = head <=> c = 1
      /\ x = tail <=> c = len
      /\ c # 1 => a \in Nodes /\ a # x
      /\ c # len => b \in Nodes /\ b # x
  <2>1. 1 \in 1 .. len /\ len \in 1 .. len
    BY <1>1
  <2>2. c # 1 => c - 1 \in 1 .. len /\ c - 1 # c
    BY <1>1
  <2>3. c # len => c + 1 \in 1 .. len /\ c + 1 # c
    BY <1>1
  <2> QED  BY <1>1, <1>2, <1>3, <2>1, <2>2, <2>3
<1>5. \A y \in Nodes : node[y] \in [value : Values \cup {NULL}, next : Pointer, prev : Pointer]
  BY DEF Node
<1>6. a \in Pointer /\ b \in Pointer /\ NULL \in Pointer /\ Freed \in Node
  BY <1>1, <1>5 DEF Pointer, Freed, Node
<1> HIDE DEF x, a, b
<1> USE DEF Node
<1>7. CASE len = 1
  <2>1. head' = NULL /\ tail' = NULL /\ node' = [node EXCEPT ![x] = Freed]
    BY <1>7 DEF node_del, x
  <2>2. c = 1 /\ a = NULL /\ b = NULL
    BY <1>1, <1>7
  <2>3. Bridged(node, node', owned, x)
    <3>1. \A y \in owned : y \in Nodes /\ y # NULL
      BY <1>1
    <3> QED  BY <2>1, <2>2, <3>1 DEF Bridged, a, b
  <2> QED  BY <1>1, <1>4, <1>6, <1>7, <2>1, <2>2, <2>3 DEF x, a, b
<1>8. CASE len # 1 /\ x = head
  <2>1. /\ head' = b /\ tail' = tail
        /\ node' = [node EXCEPT ![b].prev = NULL, ![x] = Freed]
    BY <1>8 DEF node_del, x, b
  <2>2. c = 1 /\ c # len /\ a = NULL /\ b \in Nodes /\ b # x
    BY <1>1, <1>4, <1>8
  <2>3. node' = [node EXCEPT ![b] = [node[b] EXCEPT !.prev = NULL], ![x] = Freed]
    BY <2>1
  <2>4. node' \in [Nodes -> Node]
    BY <1>5, <1>6, <2>2, <2>3
  <2>5. Bridged(node, node', owned, x)
    <3>1. \A y \in owned \ {x} :
              y # a /\ node'[y] = IF y = b THEN [node[y] EXCEPT !.prev = NULL] ELSE node[y]
      BY <1>1, <2>2, <2>3
    <3> QED  BY <1>1, <1>5, <2>2, <3>1 DEF Bridged, a, b
  <2> QED  BY <1>4, <1>8, <2>1, <2>2, <2>4, <2>5 DEF x, b
<1>9. CASE len # 1 /\ x # head /\ x = tail
  <2>1. /\ tail' = a /\ head' = head
        /\ node' = [node EXCEPT ![a].next = NULL, ![x] = Freed]
    BY <1>9 DEF node_del, x, a
  <2>2. c = len /\ c # 1 /\ b = NULL /\ a \in Nodes /\ a # x
    BY <1>1, <1>4, <1>9
  <2>3. node' = [node EXCEPT ![a] = [node[a] EXCEPT !.next = NULL], ![x] = Freed]
    BY <2>1
  <2>4. node' \in [Nodes -> Node]
    BY <1>5, <1>6, <2>2, <2>3
  <2>5. Bridged(node, node', owned, x)
    <3>1. \A y \in owned \ {x} :
              y # b /\ node'[y] = IF y = a THEN [node[y] EXCEPT !.next = NULL] ELSE node[y]
      BY <1>1, <2>2, <2>3
    <3> QED  BY <1>1, <1>5, <2>2, <3>1 DEF Bridged, a, b
  <2> QED  BY <1>4, <1>9, <2>1, <2>2, <2>4, <2>5 DEF x, a
<1>10. CASE len # 1 /\ x \notin {head, tail}
  <2>1. /\ head' = head /\ tail' = tail
        /\ node' = [node EXCEPT ![a].next = b, ![b].prev = a, ![x] = Freed]
    BY <1>10 DEF node_del, x, a, b
  <2>2. c # len /\ c # 1 /\ b \in Nodes /\ b # x /\ a \in Nodes /\ a # x
    BY <1>1, <1>4, <1>10
  <2>3. a # b
    <3>1. a = p[c - 1] /\ b = p[c + 1] /\ c - 1 \in 1 .. len /\ c + 1 \in 1 .. len
      BY <1>1, <2>2
    <3> QED  BY <1>1, <1>2, <3>1
  <2>4. node' = [node EXCEPT ![a] = [node[a] EXCEPT !.next = b],
                             ![b] = [node[b] EXCEPT !.prev = a], ![x] = Freed]
    BY <2>1, <2>2, <2>3
  <2>5. node' \in [Nodes -> Node]
    BY <1>5, <1>6, <2>2, <2>4
  <2>6. Bridged(node, node', owned, x)
    <3>1. \A y \in owned \ {x} :
              node'[y] = IF y = a THEN [node[y] EXCEPT !.next = b]
                         ELSE IF y = b THEN [node[y] EXCEPT !.prev = a] ELSE node[y]
      BY <1>1, <2>2, <2>3, <2>4
    <3> QED  BY <1>1, <1>5, <2>2, <2>3, <3>1 DEF Bridged, a, b
  <2> QED  BY <1>4, <1>10, <2>1, <2>2, <2>5, <2>6 DEF x
<1> QED  BY <1>7, <1>8, <1>9, <1>10 DEF node_del, x

(* So what is left after node_del and the decrement is a chain, of the       *)
(* other elements in their order.                                            *)
LEMMA DeletionKeepsChain ==
    ASSUME NEW p, Listed(p), node \in [Nodes -> Node], NEW c \in 1 .. len, node_del(p[c]),
           len' = len - 1, owned' = owned \ {p[c]},
           NEW q, q = Drop(p, c, len)
    PROVE  /\ Listed(q)'
           /\ Shown(q, len', node') = Drop(Shown(p, len, node), c, len)
           /\ node' \in [Nodes -> Node] /\ len' \in Nat /\ owned' \subseteq Nodes
           /\ head' \in Pointer /\ tail' \in Pointer
<1>1. /\ Bridged(node, node', owned, p[c]) /\ node' \in [Nodes -> Node]
      /\ head' = IF p[c] = head THEN node[p[c]].next ELSE head
      /\ tail' = IF p[c] = tail THEN node[p[c]].prev ELSE tail
  BY NodeDelBridges
<1>2. Chain(p, len, head, tail, node, owned) /\ NULL \notin Nodes
  BY ConstantFacts DEF Listed
<1>0. Dropped(p, len, head, tail, node, owned, c, p[c], q, len', head', tail', node', owned')
  BY <1>1 DEF Dropped
<1>3. Chain(q, len', head', tail', node', owned')
  BY <1>0, <1>2, DropKeepsChain
<1>4. Shown(q, len', node') = Drop(Shown(p, len, node), c, len)
  BY <1>0, <1>2, DropKeepsChain
<1>5. len' \in Nat /\ owned' \subseteq Nodes /\ head' \in Pointer /\ tail' \in Pointer
  BY <1>3, ChainEnds DEF Pointer
<1> QED  BY <1>1, <1>3, <1>4, <1>5 DEF Listed

-----------------------------------------------------------------------------
(***************************************************************************)
(* The calls: each keeps the invariant and is a step of ListContents.      *)
(***************************************************************************)

(* The same as ElementsAreShown, of the next state. *)
LEMMA ElementsAreShownNext ==
    \A p : Listed(p)' /\ NULL \notin Nodes =>
        Elements' = Shown(p, len', node') /\ Elements' \in Seq(Values) /\ Len(Elements') = len'
<1>1. (\A p : Listed(p) /\ NULL \notin Nodes =>
          Elements = Shown(p, len, node) /\ Elements \in Seq(Values) /\ Len(Elements) = len)'
  BY ElementsAreShown, PTL
<1>2. ASSUME NEW p PROVE Shown(p, len, node)' = Shown(p, len', node')
  BY DEF Shown
<1> QED  BY <1>1, <1>2

(* What a call can rely on. *)
LEMMA AtRest ==
    ASSUME IInv, pc = "idle"
    PROVE  \E p : /\ Listed(p) /\ Chain(p, len, head, tail, node, owned)
                  /\ Elements = Shown(p, len, node)
                  /\ Elements \in Seq(Values) /\ Len(Elements) = len
                  /\ len \in Nat /\ node \in [Nodes -> Node] /\ NULL \notin Nodes
                  /\ owned \subseteq Nodes
<1>1. PICK p : Listed(p)
  BY DEF IInv
<1> QED  BY <1>1, ConstantFacts, ElementsAreShown DEF IInv, Shape, Listed

(* A call that leaves a chain leaves the invariant. *)
LEMMA AtRestAgain ==
    ASSUME IInv, pc = "idle", pc' = "idle", UNCHANGED locals,
           NEW q, Chain(q, len', head', tail', node', owned'), node' \in [Nodes -> Node]
    PROVE  IInv' /\ Elements' = Shown(q, len', node') /\ Len(Elements') = len'
<1>1. Listed(q)'
  BY DEF Listed
<1>2. len' \in Nat /\ owned' \subseteq Nodes /\ head' \in Pointer /\ tail' \in Pointer
  BY ChainEnds DEF Pointer
<1>3. Shape'
  BY <1>2 DEF IInv, Shape, locals
<1>4. IInv'
  BY <1>1, <1>3 DEF IInv
<1> QED  BY <1>1, <1>4, ConstantFacts, ElementsAreShownNext

(* LPUSH puts its value in front. *)
LEMMA LPushStep ==
    ASSUME IInv, NEW v \in Values, list_lpush(v)
    PROVE  IInv' /\ Contents!LPush(v)
<1>0. pc = "idle" /\ pc' = "idle" /\ UNCHANGED locals /\ Return("lpush", <<v>>, <<len + 1>>)
  BY DEF list_lpush, Idle
<1>1. PICK p : /\ Listed(p) /\ Chain(p, len, head, tail, node, owned)
               /\ Elements = Shown(p, len, node)
               /\ Elements \in Seq(Values) /\ Len(Elements) = len
               /\ len \in Nat /\ node \in [Nodes -> Node] /\ NULL \notin Nodes
               /\ owned \subseteq Nodes
  BY <1>0, AtRest
<1>2. PICK n \in Nodes \ owned :
        /\ owned' = owned \cup {n}
        /\ head' = n
        /\ IF len > 0
           THEN /\ node' = [node EXCEPT
                        ![n] = [value |-> v, next |-> head, prev |-> NULL],
                        ![head].prev = n]
                /\ UNCHANGED tail
           ELSE /\ node' = [node EXCEPT ![n] = [Freed EXCEPT !.value = v]]
                /\ tail' = n
  BY DEF list_lpush
<1>3. len' = len + 1
  BY DEF list_lpush
<1>4. /\ head \in Nodes \cup {NULL} /\ (len > 0 => head \in owned) /\ (len = 0 => head = NULL)
      /\ (len = 0 => owned = {})
  <2>1. len > 0 => 1 \in 1 .. len
    BY <1>1
  <2>2. len > 0 => head = p[1] /\ p[1] \in owned
    BY <1>1, <2>1 DEF Chain, Enumerates
  <2> QED  BY <1>1, <2>2 DEF Chain, Enumerates
<1> DEFINE new == [value |-> v, next |-> head, prev |-> NULL]
<1>5. node' \in [Nodes -> Node] /\ InFront(n, v, head, node, node', owned)
  <2>1. \A y \in Nodes : node[y] \in Node
    BY <1>1
  <2>2. CASE len > 0
    <3>1. head # n /\ head \in Nodes /\ new \in Node
      BY <1>1, <1>2, <1>4, <2>2 DEF Node, Pointer
    <3>2. node' = [node EXCEPT ![n] = new, ![head] = [node[head] EXCEPT !.prev = n]]
      BY <1>1, <1>2, <2>2, <3>1
    <3>3. [node[head] EXCEPT !.prev = n] \in Node
      BY <1>2, <2>1, <3>1 DEF Node, Pointer
    <3>4. \A y \in owned : y \in Nodes /\ y # n
      BY <1>1, <1>2
    <3> HIDE DEF new
    <3>5. node' \in [Nodes -> Node] /\ node'[n] = new
      BY <1>1, <1>2, <3>1, <3>2, <3>3
    <3>6. \A y \in owned : node'[y] = IF y = head THEN [node[y] EXCEPT !.prev = n] ELSE node[y]
      BY <1>1, <1>2, <3>1, <3>2, <3>4
    <3> QED  BY <2>1, <3>4, <3>5, <3>6 DEF Node, InFront, new
  <2>3. CASE len = 0
    <3>1. new = [Freed EXCEPT !.value = v] /\ new \in Node
      BY <1>4, <2>3 DEF Freed, Node, Pointer
    <3>2. node' = [node EXCEPT ![n] = new]
      BY <1>1, <1>2, <2>3, <3>1
    <3> HIDE DEF new
    <3> QED  BY <1>1, <1>2, <1>4, <2>3, <3>1, <3>2 DEF InFront, new
  <2> QED  BY <1>1, <2>2, <2>3
<1>6. PICK q : q = Front(n, p, len)
  OBVIOUS
<1>7. tail' = IF len = 0 THEN n ELSE tail
  BY <1>1, <1>2
<1>8. /\ Chain(q, len', head', tail', node', owned')
      /\ Shown(q, len', node') = Prepended(v, Elements)
  <2>1. Fronted(p, len, head, tail, node, owned, n, v, q, len', tail', node', owned')
    BY <1>2, <1>3, <1>5, <1>6, <1>7 DEF Fronted
  <2>2. head' = n
    BY <1>2
  <2>3. Chain(p, len, head, tail, node, owned) /\ Elements = Shown(p, len, node)
    BY <1>1
  <2>4. Chain(q, len', n, tail', node', owned')
    BY <2>1, <2>3, FrontKeepsChain
  <2>5. Shown(q, len', node') = Prepended(v, Shown(p, len, node))
    BY <2>1, <2>3, FrontKeepsChain
  <2> QED  BY <2>2, <2>3, <2>4, <2>5
<1>9. IInv' /\ Elements' = Prepended(v, Elements)
  BY <1>0, <1>5, <1>8, AtRestAgain
<1> QED  BY <1>0, <1>1, <1>9 DEF Contents!LPush, Contents!Reply, Return, Prepended

(* RPUSH puts its value at the back. *)
LEMMA RPushStep ==
    ASSUME IInv, NEW v \in Values, list_rpush(v)
    PROVE  IInv' /\ Contents!RPush(v)
<1>0. pc = "idle" /\ pc' = "idle" /\ UNCHANGED locals /\ Return("rpush", <<v>>, <<len + 1>>)
  BY DEF list_rpush, Idle
<1>1. PICK p : /\ Listed(p) /\ Chain(p, len, head, tail, node, owned)
               /\ Elements = Shown(p, len, node)
               /\ Elements \in Seq(Values) /\ Len(Elements) = len
               /\ len \in Nat /\ node \in [Nodes -> Node] /\ NULL \notin Nodes
               /\ owned \subseteq Nodes
  BY <1>0, AtRest
<1>2. PICK n \in Nodes \ owned :
        /\ owned' = owned \cup {n}
        /\ tail' = n
        /\ IF len > 0
           THEN /\ node' = [node EXCEPT
                        ![n] = [value |-> v, next |-> NULL, prev |-> tail],
                        ![tail].next = n]
                /\ UNCHANGED head
           ELSE /\ node' = [node EXCEPT ![n] = [Freed EXCEPT !.value = v]]
                /\ head' = n
  BY DEF list_rpush
<1>3. len' = len + 1
  BY DEF list_rpush
<1>4. /\ tail \in Nodes \cup {NULL} /\ (len > 0 => tail \in owned) /\ (len = 0 => tail = NULL)
      /\ (len = 0 => owned = {})
  <2>1. len > 0 => len \in 1 .. len
    BY <1>1
  <2>2. len > 0 => tail = p[len] /\ p[len] \in owned
    BY <1>1, <2>1 DEF Chain, Enumerates
  <2> QED  BY <1>1, <2>2 DEF Chain, Enumerates
<1> DEFINE new == [value |-> v, next |-> NULL, prev |-> tail]
<1>5. node' \in [Nodes -> Node] /\ AtBack(n, v, tail, node, node', owned)
  <2>1. \A y \in Nodes : node[y] \in Node
    BY <1>1
  <2>2. CASE len > 0
    <3>1. tail # n /\ tail \in Nodes /\ new \in Node
      BY <1>1, <1>2, <1>4, <2>2 DEF Node, Pointer
    <3>2. node' = [node EXCEPT ![n] = new, ![tail] = [node[tail] EXCEPT !.next = n]]
      BY <1>1, <1>2, <2>2, <3>1
    <3>3. [node[tail] EXCEPT !.next = n] \in Node
      BY <1>2, <2>1, <3>1 DEF Node, Pointer
    <3>4. \A y \in owned : y \in Nodes /\ y # n
      BY <1>1, <1>2
    <3> HIDE DEF new
    <3>5. node' \in [Nodes -> Node] /\ node'[n] = new
      BY <1>1, <1>2, <3>1, <3>2, <3>3
    <3>6. \A y \in owned : node'[y] = IF y = tail THEN [node[y] EXCEPT !.next = n] ELSE node[y]
      BY <1>1, <1>2, <3>1, <3>2, <3>4
    <3> QED  BY <2>1, <3>4, <3>5, <3>6 DEF Node, AtBack, new
  <2>3. CASE len = 0
    <3>1. new = [Freed EXCEPT !.value = v] /\ new \in Node
      BY <1>4, <2>3 DEF Freed, Node, Pointer
    <3>2. node' = [node EXCEPT ![n] = new]
      BY <1>1, <1>2, <2>3, <3>1
    <3> HIDE DEF new
    <3> QED  BY <1>1, <1>2, <1>4, <2>3, <3>1, <3>2 DEF AtBack, new
  <2> QED  BY <1>1, <2>2, <2>3
<1>6. PICK q : q = Back(n, p, len)
  OBVIOUS
<1>7. head' = IF len = 0 THEN n ELSE head
  BY <1>1, <1>2
<1>8. /\ Chain(q, len', head', tail', node', owned')
      /\ Shown(q, len', node') = Appended(Elements, v)
  <2>1. Backed(p, len, head, tail, node, owned, n, v, q, len', head', node', owned')
    BY <1>2, <1>3, <1>5, <1>6, <1>7 DEF Backed
  <2>2. tail' = n
    BY <1>2
  <2>3. Chain(p, len, head, tail, node, owned) /\ Elements = Shown(p, len, node)
    BY <1>1
  <2>4. Chain(q, len', head', n, node', owned')
    BY <2>1, <2>3, BackKeepsChain
  <2>5. Shown(q, len', node') = Appended(Shown(p, len, node), v)
    BY <2>1, <2>3, BackKeepsChain
  <2> QED  BY <2>2, <2>3, <2>4, <2>5
<1>9. IInv' /\ Elements' = Appended(Elements, v)
  BY <1>0, <1>5, <1>8, AtRestAgain
<1> QED  BY <1>0, <1>1, <1>9 DEF Contents!RPush, Contents!Reply, Return, Appended

-----------------------------------------------------------------------------
(* What a pop leaves is what node_del leaves. *)
LEMMA PopStep ==
    ASSUME IInv, pc = "idle", pc' = "idle", UNCHANGED locals,
           NEW p, Listed(p), NEW c \in 1 .. len, node_del(p[c]),
           len' = len - 1, owned' = owned \ {p[c]}
    PROVE  IInv' /\ Elements' = Drop(Elements, c, len) /\ Len(Elements') = len - 1
<1>1. PICK q : q = Drop(p, c, len)
  OBVIOUS
<1>2. node \in [Nodes -> Node]
  BY DEF IInv, Shape
<1>3. /\ Listed(q)' /\ node' \in [Nodes -> Node]
      /\ Shown(q, len', node') = Drop(Shown(p, len, node), c, len)
  BY <1>1, <1>2, DeletionKeepsChain
<1>4. Chain(q, len', head', tail', node', owned')
  BY <1>3 DEF Listed
<1>5. IInv' /\ Elements' = Shown(q, len', node') /\ Len(Elements') = len'
  BY <1>3, <1>4, AtRestAgain
<1>6. Elements = Shown(p, len, node)
  BY ConstantFacts, ElementsAreShown
<1> QED  BY <1>3, <1>5, <1>6

(* An empty list stands for a key that is not there. *)
LEMMA PopEmptyStep ==
    ASSUME IInv, NEW op, PopEmpty(op)
    PROVE  /\ IInv' /\ Elements = <<>> /\ UNCHANGED Elements /\ pc = "idle" /\ pc' = "idle"
           /\ Contents!Reply(op, <<>>, <<NULL>>)
<1>1. /\ pc = "idle" /\ pc' = "idle" /\ UNCHANGED locals /\ Return(op, <<>>, <<NULL>>)
      /\ UNCHANGED list /\ len <= 0
  BY DEF PopEmpty, Idle
<1>2. PICK p : /\ Listed(p) /\ Chain(p, len, head, tail, node, owned)
               /\ Elements = Shown(p, len, node)
               /\ Elements \in Seq(Values) /\ Len(Elements) = len
               /\ len \in Nat /\ node \in [Nodes -> Node] /\ NULL \notin Nodes
               /\ owned \subseteq Nodes
  BY <1>1, AtRest
<1>3. Chain(p, len', head', tail', node', owned') /\ node' \in [Nodes -> Node]
  BY <1>1, <1>2 DEF list
<1>4. IInv' /\ Elements' = Shown(p, len', node')
  BY <1>1, <1>3, AtRestAgain
<1>5. Elements = <<>>
  BY <1>1, <1>2
<1>6. Elements' = Elements
  BY <1>1, <1>2, <1>4 DEF list
<1> QED  BY <1>1, <1>4, <1>5, <1>6 DEF Contents!Reply, Return

(* Taking the first or the last element off a sequence. *)
LEMMA DropEnds ==
    ASSUME NEW s \in Seq(Values), s # <<>>
    PROVE  /\ Drop(s, 1, Len(s)) = Tail(s) /\ s[1] = Head(s)
           /\ Drop(s, Len(s), Len(s)) = SubSeq(s, 1, Len(s) - 1)
<1>1. Len(s) \in Nat /\ Len(s) # 0 /\ Len(s) - 1 \in Nat
  OBVIOUS
<1>2. Drop(s, 1, Len(s)) = [j \in 1 .. Len(s) - 1 |-> s[j + 1]]
  BY <1>1 DEF Drop
<1>3. Drop(s, Len(s), Len(s)) = [j \in 1 .. Len(s) - 1 |-> s[j]]
  BY <1>1 DEF Drop
<1>4. SubSeq(s, 1, Len(s) - 1) = [j \in 1 .. Len(s) - 1 |-> s[j]]
  BY <1>1
<1>5. Tail(s) = [j \in 1 .. Len(s) - 1 |-> s[j + 1]]
  <2>1. /\ Tail(s) \in Seq(Values) /\ Len(Tail(s)) = Len(s) - 1
        /\ \A j \in 1 .. Len(Tail(s)) : Tail(s)[j] = s[j + 1]
    BY HeadTailProperties
  <2> DEFINE t == Tail(s)
  <2>2. t = [j \in 1 .. Len(t) |-> t[j]]
    <3>1. t \in Seq(Values)
      BY <2>1
    <3> HIDE DEF t
    <3> QED  BY <3>1
  <2> QED  BY <2>1, <2>2
<1> QED  BY <1>2, <1>3, <1>4, <1>5

(* LPOP takes the first element and answers with it. *)
LEMMA LPopStep ==
    ASSUME IInv, list_lpop
    PROVE  IInv' /\ Contents!LPop
<1>1. CASE PopEmpty("lpop")
  <2>1. /\ IInv' /\ Elements = <<>> /\ UNCHANGED Elements /\ pc = "idle" /\ pc' = "idle"
        /\ Contents!Reply("lpop", <<>>, <<NULL>>)
    BY <1>1, PopEmptyStep
  <2> QED  BY <2>1 DEF Contents!LPop
<1>2. CASE ~ PopEmpty("lpop")
  <2>1. /\ Pop("lpop", head)
        /\ \/ /\ len = 1 /\ head' = NULL /\ tail' = NULL
              /\ node' = [node EXCEPT ![head] = Freed]
           \/ /\ len > 1 /\ head' = node[head].next
              /\ node' = [node EXCEPT ![head'].prev = NULL, ![head] = Freed]
              /\ UNCHANGED tail
    BY <1>2 DEF list_lpop, PopLast
  <2>2. /\ pc = "idle" /\ pc' = "idle" /\ UNCHANGED locals
        /\ Return("lpop", <<>>, <<node[head].value>>)
        /\ len' = len - 1 /\ owned' = owned \ {head}
    BY <2>1 DEF Pop, Idle
  <2>3. PICK p : /\ Listed(p) /\ Chain(p, len, head, tail, node, owned)
                 /\ Elements = Shown(p, len, node)
                 /\ Elements \in Seq(Values) /\ Len(Elements) = len
                 /\ len \in Nat /\ node \in [Nodes -> Node] /\ NULL \notin Nodes
                 /\ owned \subseteq Nodes
    BY <2>2, AtRest
  <2>4. 1 \in 1 .. len /\ head = p[1] /\ Elements # <<>> /\ node_del(head)
    <3>1. len # 0 /\ (len = 1 \/ len # 1) /\ (len > 1 => len # 1)
      BY <2>1, <2>3
    <3>2. node_del(head)
      BY <2>1, <3>1 DEF node_del
    <3>3. 1 \in 1 .. len /\ Elements # <<>>
      BY <2>3, <3>1
    <3> QED  BY <2>3, <3>1, <3>2, <3>3 DEF Chain
  <2>5. IInv' /\ Elements' = Drop(Elements, 1, len)
    BY <2>1, <2>2, <2>3, <2>4, PopStep
  <2>6. node[head].value = Elements[1]
    BY <2>3, <2>4 DEF Shown
  <2>7. Elements' = Tail(Elements) /\ node[head].value = Head(Elements)
    BY <2>3, <2>4, <2>5, <2>6, DropEnds
  <2> QED  BY <2>2, <2>4, <2>5, <2>7 DEF Contents!LPop, Contents!Reply, Return
<1> QED  BY <1>1, <1>2

(* RPOP takes the last element and answers with it. *)
LEMMA RPopStep ==
    ASSUME IInv, list_rpop
    PROVE  IInv' /\ Contents!RPop
<1>1. CASE PopEmpty("rpop")
  <2>1. /\ IInv' /\ Elements = <<>> /\ UNCHANGED Elements /\ pc = "idle" /\ pc' = "idle"
        /\ Contents!Reply("rpop", <<>>, <<NULL>>)
    BY <1>1, PopEmptyStep
  <2> QED  BY <2>1 DEF Contents!RPop
<1>2. CASE ~ PopEmpty("rpop")
  <2>1. /\ Pop("rpop", tail)
        /\ \/ /\ len = 1 /\ head' = NULL /\ tail' = NULL
              /\ node' = [node EXCEPT ![tail] = Freed]
           \/ /\ len > 1 /\ tail' = node[tail].prev
              /\ node' = [node EXCEPT ![tail'].next = NULL, ![tail] = Freed]
              /\ UNCHANGED head
    BY <1>2 DEF list_rpop, PopLast
  <2>2. /\ pc = "idle" /\ pc' = "idle" /\ UNCHANGED locals
        /\ Return("rpop", <<>>, <<node[tail].value>>)
        /\ len' = len - 1 /\ owned' = owned \ {tail}
    BY <2>1 DEF Pop, Idle
  <2>3. PICK p : /\ Listed(p) /\ Chain(p, len, head, tail, node, owned)
                 /\ Elements = Shown(p, len, node)
                 /\ Elements \in Seq(Values) /\ Len(Elements) = len
                 /\ len \in Nat /\ node \in [Nodes -> Node] /\ NULL \notin Nodes
                 /\ owned \subseteq Nodes
    BY <2>2, AtRest
  <2>4. 1 \in 1 .. len /\ len \in 1 .. len /\ head = p[1] /\ tail = p[len] /\ Elements # <<>>
    <3>1. len # 0
      BY <2>1, <2>3
    <3>2. 1 \in 1 .. len /\ len \in 1 .. len /\ Elements # <<>>
      BY <2>3, <3>1
    <3> QED  BY <2>3, <3>1, <3>2 DEF Chain
  <2>5. node_del(tail)
    <3>1. len # 1 => head # tail
      BY <2>3, <2>4 DEF Chain, Enumerates
    <3>2. len > 1 => len # 1
      BY <2>3
    <3> QED  BY <2>1, <3>1, <3>2 DEF node_del
  <2>6. IInv' /\ Elements' = Drop(Elements, len, len)
    BY <2>2, <2>3, <2>4, <2>5, PopStep
  <2>7. node[tail].value = Elements[len]
    BY <2>3, <2>4 DEF Shown
  <2>8. Elements' = SubSeq(Elements, 1, Len(Elements) - 1) /\ node[tail].value = Elements[Len(Elements)]
    BY <2>3, <2>4, <2>6, <2>7, DropEnds
  <2> QED  BY <2>2, <2>4, <2>6, <2>8 DEF Contents!RPop, Contents!Reply, Return
<1> QED  BY <1>1, <1>2

-----------------------------------------------------------------------------
(* A call that changes nothing of the list. *)
LEMMA ReadingStep ==
    ASSUME IInv, NEW op, NEW a, NEW res, Idle(op, a, res), UNCHANGED list
    PROVE  /\ IInv' /\ UNCHANGED Elements /\ pc = "idle" /\ pc' = "idle"
           /\ Contents!Reply(op, a, res)
<1>1. pc = "idle" /\ pc' = "idle" /\ UNCHANGED locals /\ Return(op, a, res)
  BY DEF Idle
<1>2. PICK p : /\ Listed(p) /\ Chain(p, len, head, tail, node, owned)
               /\ Elements = Shown(p, len, node)
               /\ Elements \in Seq(Values) /\ Len(Elements) = len
               /\ len \in Nat /\ node \in [Nodes -> Node] /\ NULL \notin Nodes
               /\ owned \subseteq Nodes
  BY <1>1, AtRest
<1>3. Chain(p, len', head', tail', node', owned') /\ node' \in [Nodes -> Node]
  BY <1>2 DEF list
<1>4. IInv' /\ Elements' = Shown(p, len', node')
  BY <1>1, <1>3, AtRestAgain
<1>5. Elements' = Elements
  BY <1>2, <1>4 DEF list
<1> QED  BY <1>1, <1>4, <1>5 DEF Contents!Reply, Return

(* An index that the code accepts is one of a position of the sequence, and  *)
(* the walk finds its element there.                                         *)
LEMMA IndexFindsPosition ==
    ASSUME NEW p, Listed(p), NEW id \in Int
    PROVE  /\ check_id(id) <=> FromFront(id) + 1 \in 1 .. len
           /\ check_id(id) => /\ list_index(FromFront(id)) = p[FromFront(id) + 1]
                              /\ FromFront(id) \in Nat
           /\ FromFront(id) \in Int
           /\ FromFront(id) + 1 = IF id < 0 THEN len + id + 1 ELSE id + 1
<1>1. len \in Nat
  BY DEF Listed, Chain, Enumerates
<1>2. FromFront(id) \in Int /\ FromFront(id) + 1 = IF id < 0 THEN len + id + 1 ELSE id + 1
  BY <1>1 DEF FromFront
<1>3. check_id(id) <=> FromFront(id) + 1 \in 1 .. len
  BY <1>1, <1>2 DEF check_id
<1>4. check_id(id) => FromFront(id) \in Nat /\ FromFront(id) < len
  BY <1>1, <1>2 DEF check_id
<1>5. check_id(id) => list_index(FromFront(id)) = p[FromFront(id) + 1]
  BY <1>4, WalkFollowsChain, ConstantFacts
<1> QED  BY <1>2, <1>3, <1>4, <1>5

(* LINDEX answers with the element its index stands for. *)
LEMMA LIndexStep ==
    ASSUME IInv, NEW id \in Ids, lindex(id)
    PROVE  IInv' /\ Contents!Index(id)
<1> DEFINE res == Checked(check_id(id), <<node[list_index(FromFront(id))].value>>, <<NULL>>)
<1>1. /\ IInv' /\ UNCHANGED Elements /\ pc = "idle" /\ pc' = "idle"
      /\ Contents!Reply("lindex", <<id>>, res)
  <2>1. Idle("lindex", <<id>>, res) /\ UNCHANGED list
    BY DEF lindex
  <2> HIDE DEF res
  <2> QED  BY <2>1, ReadingStep
<1>2. PICK p : /\ Listed(p) /\ Elements = Shown(p, len, node)
               /\ Elements \in Seq(Values) /\ Len(Elements) = len /\ len \in Nat
  BY <1>1, AtRest
<1> DEFINE k == FromFront(id) + 1
<1>3. /\ id \in Int
      /\ check_id(id) <=> k \in 1 .. len
      /\ check_id(id) => list_index(FromFront(id)) = p[k]
      /\ k = Contents!Position(id)
  BY <1>1, <1>2, ConstantFacts, IndexFindsPosition DEF Contents!Position
<1> HIDE DEF k
<1>4. k \in 1 .. len => node[p[k]].value = Elements[k]
  BY <1>2 DEF Shown
<1>5. DOMAIN Elements = 1 .. len /\ (len = 0 <=> Elements = <<>>)
  BY <1>2
<1>6. res = IF k \in DOMAIN Elements THEN <<Elements[k]>>
            ELSE IF Elements = <<>> THEN <<NULL>> ELSE <<RangeError>>
  BY <1>2, <1>3, <1>4, <1>5 DEF Checked
<1> HIDE DEF res
<1> QED  BY <1>1, <1>3, <1>6 DEF Contents!Index, Contents!Refusal

(* LSET replaces the element its index stands for. *)
LEMMA LSetStep ==
    ASSUME IInv, NEW id \in Ids, NEW v \in Values, lset(id, v)
    PROVE  IInv' /\ Contents!Set(id, v)
<1> DEFINE res == Checked(check_id(id), <<OK>>, <<NULL>>)
           k == FromFront(id) + 1
<1>1. /\ Idle("lset", <<id>>, res) /\ UNCHANGED <<len, head, tail, owned>>
      /\ IF check_id(id) THEN list_set(FromFront(id), v) ELSE UNCHANGED node
  BY DEF lset
<1>2. /\ pc = "idle" /\ pc' = "idle" /\ UNCHANGED locals
      /\ Contents!Reply("lset", <<id>>, res)
  BY <1>1 DEF Idle, Return, Contents!Reply
<1>3. PICK p : /\ Listed(p) /\ Chain(p, len, head, tail, node, owned)
               /\ Elements = Shown(p, len, node)
               /\ Elements \in Seq(Values) /\ Len(Elements) = len
               /\ len \in Nat /\ node \in [Nodes -> Node] /\ NULL \notin Nodes
               /\ owned \subseteq Nodes
  BY <1>2, AtRest
<1>4. /\ id \in Int
      /\ check_id(id) <=> k \in 1 .. len
      /\ check_id(id) => list_index(FromFront(id)) = p[k]
      /\ k = Contents!Position(id)
  BY <1>2, <1>3, ConstantFacts, IndexFindsPosition DEF Contents!Position
<1> HIDE DEF k
<1>5. DOMAIN Elements = 1 .. len /\ (len = 0 <=> Elements = <<>>)
  BY <1>3
<1>6. CASE ~ check_id(id)
  <2>1. Idle("lset", <<id>>, res) /\ UNCHANGED list
    BY <1>1, <1>6 DEF list
  <2>2. res = IF Elements = <<>> THEN <<NULL>> ELSE <<RangeError>>
    BY <1>5, <1>6 DEF Checked
  <2> HIDE DEF res
  <2>3. IInv' /\ UNCHANGED Elements
    BY <2>1, ReadingStep
  <2> QED  BY <1>2, <1>4, <1>5, <1>6, <2>2, <2>3 DEF Contents!Set, Contents!Refusal
<1>7. CASE check_id(id)
  <2>1. k \in 1 .. len /\ p[k] \in Nodes /\ len # 0
    BY <1>3, <1>4, <1>7 DEF Chain, Enumerates
  <2>2. node' = [node EXCEPT ![p[k]] = [node[p[k]] EXCEPT !.value = v]]
    BY <1>1, <1>3, <1>4, <1>7, <2>1 DEF list_set
  <2>3. \A y \in Nodes : node[y] \in Node
    BY <1>3
  <2>4. node' \in [Nodes -> Node]
    BY <1>3, <2>1, <2>2, <2>3 DEF Node
  <2>5. \A j \in 1 .. len : /\ p[j] \in Nodes
                            /\ node'[p[j]].value = IF j = k THEN v ELSE node[p[j]].value
                            /\ node'[p[j]].next = node[p[j]].next
                            /\ node'[p[j]].prev = node[p[j]].prev
    <3>1. \A j \in 1 .. len : p[j] \in Nodes /\ (p[j] = p[k] <=> j = k)
      BY <1>3, <2>1 DEF Chain, Enumerates
    <3>2. \A y \in Nodes : node'[y] = IF y = p[k] THEN [node[y] EXCEPT !.value = v] ELSE node[y]
      BY <1>3, <2>1, <2>2
    <3> QED  BY <2>3, <3>1, <3>2 DEF Node
  <2>6. Links(p, len, node')
    BY <1>3, <2>5 DEF Chain, Links
  <2>7. Chain(p, len', head', tail', node', owned')
    BY <1>1, <1>3, <2>6 DEF Chain
  <2>8. IInv' /\ Elements' = Shown(p, len', node')
    BY <1>2, <2>4, <2>7, AtRestAgain
  <2>9. Elements' = [Elements EXCEPT ![k] = v]
    <3>1. \A j \in 1 .. len : Elements[j] = node[p[j]].value
      BY <1>3 DEF Shown
    <3>2. Elements' = [j \in 1 .. len |-> node'[p[j]].value]
      BY <1>1, <2>8 DEF Shown
    <3>3. Elements' = [j \in 1 .. len |-> IF j = k THEN v ELSE Elements[j]]
      BY <2>5, <3>1, <3>2
    <3>4. [Elements EXCEPT ![k] = v] = [j \in 1 .. len |-> IF j = k THEN v ELSE Elements[j]]
      BY <1>5
    <3> QED  BY <3>3, <3>4
  <2>10. res = <<OK>>
    BY <1>7, <2>1 DEF Checked
  <2> HIDE DEF res
  <2> QED  BY <1>2, <1>4, <1>5, <2>1, <2>8, <2>9, <2>10 DEF Contents!Set
<1> QED  BY <1>6, <1>7

(* LRANGE answers with the elements between its two indices. *)
LEMMA LRangeStep ==
    ASSUME IInv, NEW begin \in Ids, NEW end \in Ids, lrange(begin, end)
    PROVE  IInv' /\ Contents!RangeOf(begin, end)
<1> DEFINE b == FromFront(begin)
           e == FromFront(end)
           res == Checked(check_ids(begin, end), list_range(b, e), <<>>)
<1>1. /\ IInv' /\ UNCHANGED Elements /\ pc = "idle" /\ pc' = "idle"
      /\ Contents!Reply("lrange", <<begin, end>>, res)
  <2>1. Idle("lrange", <<begin, end>>, res) /\ UNCHANGED list
    BY DEF lrange
  <2> HIDE DEF res
  <2> QED  BY <2>1, ReadingStep
<1>2. PICK p : /\ Listed(p) /\ Elements = Shown(p, len, node)
               /\ Elements \in Seq(Values) /\ Len(Elements) = len /\ len \in Nat
  BY <1>1, AtRest
<1>3. /\ b \in Int /\ e \in Int
      /\ check_id(begin) <=> b + 1 \in 1 .. len
      /\ check_id(end) <=> e + 1 \in 1 .. len
      /\ b + 1 = Contents!Position(begin) /\ e + 1 = Contents!Position(end)
  BY <1>1, <1>2, ConstantFacts, IndexFindsPosition DEF Contents!Position
<1>4. check_ids(begin, end) <=> b <= e /\ b + 1 \in 1 .. len /\ e + 1 \in 1 .. len
  BY <1>3 DEF check_ids
<1>5. DOMAIN Elements = 1 .. len /\ (len = 0 <=> Elements = <<>>)
  BY <1>2
<1> HIDE DEF b, e
<1>6. check_ids(begin, end) => list_range(b, e) = SubSeq(Elements, b + 1, e + 1)
  <2> SUFFICES ASSUME check_ids(begin, end) PROVE list_range(b, e) = SubSeq(Elements, b + 1, e + 1)
    OBVIOUS
  <2>1. ASSUME NEW j \in 1 .. e - b + 1
        PROVE  node[list_index(b + j - 1)].value = Elements[b + j]
    <3>1. b + j - 1 \in Nat /\ b + j - 1 < len /\ (b + j - 1) + 1 = b + j /\ b + j \in 1 .. len
      BY <1>2, <1>3, <1>4
    <3>2. list_index(b + j - 1) = p[b + j]
      BY <1>2, <3>1, WalkFollowsChain, ConstantFacts
    <3> QED  BY <1>2, <3>1, <3>2 DEF Shown
  <2>2. list_range(b, e) = [j \in 1 .. e - b + 1 |-> Elements[b + j]]
    BY <2>1 DEF list_range
  <2>3. SubSeq(Elements, b + 1, e + 1) = [j \in 1 .. e - b + 1 |-> Elements[b + j]]
    <3>1. SubSeq(Elements, b + 1, e + 1)
              = [j \in 1 .. (e + 1) - (b + 1) + 1 |-> Elements[(b + 1) + j - 1]]
      BY <1>2, <1>3
    <3>2. (e + 1) - (b + 1) + 1 = e - b + 1
      BY <1>3
    <3>3. \A j \in 1 .. e - b + 1 : (b + 1) + j - 1 = b + j
      BY <1>3
    <3> QED  BY <3>1, <3>2, <3>3
  <2> QED  BY <2>2, <2>3
<1>7. res = IF {b + 1, e + 1} \subseteq DOMAIN Elements /\ b + 1 <= e + 1
            THEN SubSeq(Elements, b + 1, e + 1)
            ELSE IF Elements = <<>> THEN <<>> ELSE <<RangeError>>
  <2>1. b <= e <=> b + 1 <= e + 1
    BY <1>3
  <2>2. {b + 1, e + 1} \subseteq DOMAIN Elements <=> b + 1 \in 1 .. len /\ e + 1 \in 1 .. len
    BY <1>5
  <2>3. check_ids(begin, end) => len # 0
    BY <1>2, <1>4
  <2>4. check_ids(begin, end) <=> {b + 1, e + 1} \subseteq DOMAIN Elements /\ b + 1 <= e + 1
    BY <1>4, <2>1, <2>2
  <2> QED  BY <1>5, <1>6, <2>3, <2>4, Zenon DEF Checked
<1> HIDE DEF res
<1> QED  BY <1>1, <1>3, <1>7 DEF Contents!RangeOf, Contents!Refusal

(* The list has no more nodes than there are. *)
LEMMA ListFits ==
    ASSUME NEW p, Enumerates(p, len, owned), owned \subseteq Nodes
    PROVE  /\ len \in 0 .. Cardinality(Nodes) /\ Cardinality(Nodes) \in Nat
           /\ Cardinality(owned) = len /\ IsFiniteSet(owned)
<1>1. len \in Nat
  BY DEF Enumerates
<1>0. Cardinality(owned) = len
  BY ChainCounts
<1>2. Cardinality(owned) <= Cardinality(Nodes) /\ IsFiniteSet(owned)
  BY ConstantFacts, FS_Subset
<1>3. Cardinality(Nodes) \in Nat
  BY ConstantFacts, FS_CardinalityType
<1> QED  BY <1>0, <1>1, <1>2, <1>3

(* LPOS answers with the first position of the value, from 0, or with -1. *)
LEMMA LPosStep ==
    ASSUME IInv, NEW v \in Values, lpos(v)
    PROVE  IInv' /\ Contents!Pos(v)
<1>1. /\ IInv' /\ UNCHANGED Elements /\ pc = "idle" /\ pc' = "idle"
      /\ Contents!Reply("lpos", <<v>>, <<list_pos(v)>>)
  <2>1. Idle("lpos", <<v>>, <<list_pos(v)>>) /\ UNCHANGED list
    BY DEF lpos
  <2> QED  BY <2>1, ReadingStep
<1>2. PICK p : /\ Listed(p) /\ Chain(p, len, head, tail, node, owned)
               /\ Elements = Shown(p, len, node)
               /\ Elements \in Seq(Values) /\ Len(Elements) = len
               /\ len \in Nat /\ node \in [Nodes -> Node] /\ NULL \notin Nodes
               /\ owned \subseteq Nodes
  BY <1>1, AtRest
<1> DEFINE H == {j \in 0 .. (Cardinality(Nodes) - 1) :
                    list_index(j) # NULL /\ node[list_index(j)].value = v}
           O == {k \in DOMAIN Elements : Elements[k] = v}
           least == CHOOSE j \in H : \A k \in H : j <= k
           first == CHOOSE k \in O : \A l \in O : k <= l
<1>3. len \in 0 .. Cardinality(Nodes) /\ Cardinality(Nodes) \in Nat
  BY <1>2, ListFits DEF Chain
<1>4. \A j \in Nat : list_index(j) = IF j < len THEN p[j + 1] ELSE NULL
  BY <1>2, WalkFollowsChain
<1>5. \A k \in 1 .. len : p[k] # NULL /\ Elements[k] = node[p[k]].value
  BY <1>2 DEF Chain, Enumerates, Shown
<1>6. \A j \in Nat : j \in H <=> j + 1 \in O
  <2> TAKE j \in Nat
  <2>1. CASE j < len
    <3>1. j + 1 \in 1 .. len /\ j \in 0 .. Cardinality(Nodes) - 1 /\ list_index(j) = p[j + 1]
      BY <1>2, <1>3, <1>4, <2>1
    <3>2. p[j + 1] # NULL /\ Elements[j + 1] = node[p[j + 1]].value
      BY <1>5, <3>1
    <3>3. DOMAIN Elements = 1 .. len
      BY <1>2
    <3> QED  BY <3>1, <3>2, <3>3
  <2>2. CASE ~ (j < len)
    <3>1. list_index(j) = NULL /\ j + 1 \notin DOMAIN Elements
      BY <1>2, <1>4, <2>2
    <3> QED  BY <3>1
  <2> QED  BY <2>1, <2>2
<1>7. H \subseteq Nat /\ O \subseteq Nat /\ \A k \in O : k - 1 \in Nat
  BY <1>2
<1>8. /\ list_pos(v) = IF H = {} THEN -1 ELSE least
      /\ Contents!Occurrences(v) = O
  BY <1>1 DEF list_pos, Contents!Occurrences
<1> HIDE DEF H, O
<1>9. list_pos(v) = IF O = {} THEN -1 ELSE first - 1
  <2>1. CASE H = {}
    <3>1. O = {}
      <4>1. SUFFICES ASSUME NEW k \in O PROVE FALSE
        OBVIOUS
      <4>2. k - 1 \in Nat /\ (k - 1) + 1 = k
        BY <1>7
      <4> QED  BY <1>6, <2>1, <4>2
    <3> QED  BY <1>8, <2>1, <3>1
  <2>2. CASE H # {}
    <3>1. PICK m \in H : \A k \in H : m <= k
      BY <1>7, <2>2, LeastNatural
    <3>2. m \in Nat /\ m + 1 \in O
      BY <1>6, <1>7, <3>1
    <3>3. \A k \in O : m + 1 <= k
      <4> TAKE k \in O
      <4>1. k - 1 \in Nat /\ (k - 1) + 1 = k /\ k \in Nat
        BY <1>7
      <4>2. k - 1 \in H
        BY <1>6, <4>1
      <4>3. m <= k - 1
        BY <3>1, <4>2
      <4> QED  BY <3>2, <4>1, <4>3
    <3>4. least = m
      BY <1>7, <3>1, LeastIsChosen
    <3>5. first = m + 1
      BY <1>7, <3>2, <3>3, LeastIsChosen
    <3> HIDE DEF least, first
    <3> QED  BY <1>8, <2>2, <3>2, <3>4, <3>5
  <2> QED  BY <2>1, <2>2
<1> QED  BY <1>1, <1>8, <1>9 DEF Contents!Pos

-----------------------------------------------------------------------------
(* list_rem begins with everything ahead of it and nothing removed.          *)
LEMMA RemBeginStep ==
    ASSUME IInv, NEW c \in Counts, NEW v \in Values, list_rem(c, v)
    PROVE  IInv' /\ UNCHANGED Contents!vars
<1>1. /\ pc = "idle" /\ pc' = "rem" /\ cur' = (IF c >= 0 THEN head ELSE tail)
      /\ count' = c /\ pos' = c /\ arg' = v /\ i' = 0 /\ before' = Elements
      /\ UNCHANGED <<len, head, tail, node, owned, ret>> /\ c \in Int
  BY ConstantFacts DEF list_rem, list
<1>2. PICK p : /\ Listed(p) /\ Chain(p, len, head, tail, node, owned)
               /\ Elements = Shown(p, len, node)
               /\ Elements \in Seq(Values) /\ Len(Elements) = len
               /\ len \in Nat /\ node \in [Nodes -> Node] /\ NULL \notin Nodes
               /\ owned \subseteq Nodes
  BY <1>1, AtRest
<1>3. PICK g : g = [j \in 1 .. len |-> j]
  OBVIOUS
<1>4. PICK m : m = IF c >= 0 THEN 1 ELSE len
  OBVIOUS
<1>5. Listed(p)'
  BY <1>1, <1>2 DEF Listed, Chain, Links
<1>6. cur' = At(p, m)' /\ cur' \in Pointer
  <2>1. head \in Pointer /\ tail \in Pointer
    BY <1>2, ChainEnds DEF Pointer
  <2>2. (1 \in 1 .. len <=> len # 0) /\ (len \in 1 .. len <=> len # 0)
    BY <1>2
  <2> QED  BY <1>1, <1>2, <1>4, <2>1, <2>2 DEF At, Chain
<1>7. Len(before)' = len' + i'
  BY <1>1, <1>2
<1>8. Gone(m)' = {} /\ Cardinality({}) = 0
  <2>1. \A q \in 1 .. len : ~ (IF c >= 0 THEN q < m ELSE q > m)
    BY <1>1, <1>2, <1>4
  <2>2. Gone(m)' = {q \in 1 .. len : Elements[q] = v /\ IF c >= 0 THEN q < m ELSE q > m}
    BY <1>1, <1>2 DEF Gone
  <2> QED  BY <2>1, <2>2, FS_EmptySet
<1>9. Keeps(p, g, Gone(m))'
  <2>1. /\ g \in [1 .. len' -> 1 .. Len(before)'] /\ Increasing(g, len')
        /\ \A j \in 1 .. len' : g[j] = j
    BY <1>1, <1>2, <1>3 DEF Increasing
  <2>2. \A j \in 1 .. len' : node'[p[j]].value = before'[g[j]]
    BY <1>1, <1>2, <2>1 DEF Shown
  <2>3. \A q \in 1 .. Len(before)' : q \in Gone(m)' <=> \A j \in 1 .. len' : g[j] # q
    BY <1>1, <1>2, <1>8, <2>1
  <2> QED  BY <2>1, <2>2, <2>3 DEF Keeps, Selects, Increasing
<1>10. IF pos' >= 0 THEN RemForward(p, g, m)' ELSE RemBackward(p, g, m)'
  <2>1. CASE c >= 0
    <3>1. m + i' = m /\ m \in 1 .. len' + 1
      BY <1>1, <1>2, <1>4, <2>1
    <3>2. Gone(m + i)' = Gone(m)'
      BY <3>1 DEF Gone
    <3>3. Keeps(p, g, Gone(m + i))'
      BY <1>9, <3>2 DEF Keeps, Selects
    <3>4. \A j \in 1 .. len' : j >= m => g[j] = j + i'
      BY <1>1, <1>2, <1>3
    <3> QED  BY <1>1, <1>8, <2>1, <3>1, <3>2, <3>3, <3>4 DEF RemForward
  <2>2. CASE ~ (c >= 0)
    <3>1. m \in 0 .. len' /\ \A j \in 1 .. len' : g[j] = j
      BY <1>1, <1>2, <1>3, <1>4, <2>2
    <3>2. count' = pos' + i' /\ i' <= -pos'
      BY <1>1, <2>2
    <3> QED  BY <1>1, <1>8, <1>9, <2>2, <3>1, <3>2 DEF RemBackward
  <2> QED  BY <2>1, <2>2
<1>11. Removing(p, g, m)'
  BY <1>5, <1>6, <1>7, <1>10 DEF Removing
<1>12. Shape'
  BY <1>1, <1>2, <1>6 DEF IInv, Shape
<1>13. IInv'
  BY <1>1, <1>11, <1>12 DEF IInv
<1> QED  BY <1>1, <1>13 DEF Contents!vars

(* Passing position v, list_rem removes it exactly if it holds arg. *)
LEMMA GoneGrows ==
    ASSUME Shape, NEW v \in 1 .. Len(before)
    PROVE  /\ v \notin Gone(v)
           /\ pos >= 0 => Gone(v + 1) = IF before[v] = arg THEN Gone(v) \cup {v} ELSE Gone(v)
           /\ ~ (pos >= 0) => Gone(v - 1) = IF before[v] = arg THEN Gone(v) \cup {v} ELSE Gone(v)
<1>1. Len(before) \in Nat
  BY DEF Shape
<1>2. \A x \in 1 .. Len(before) : /\ x < v + 1 <=> x < v \/ x = v
                                  /\ x > v - 1 <=> x > v \/ x = v
  BY <1>1
<1>3. v \notin Gone(v)
  BY <1>1 DEF Gone
<1> QED  BY <1>2, <1>3 DEF Gone

(* What it has passed is a finite set. *)
LEMMA GoneIsFinite ==
    ASSUME Shape, NEW v
    PROVE  IsFiniteSet(Gone(v)) /\ Cardinality(Gone(v)) \in Nat
<1>1. Len(before) \in Nat
  BY DEF Shape
<1>2. IsFiniteSet(1 .. Len(before))
  BY <1>1, FS_Interval
<1>3. Gone(v) \subseteq 1 .. Len(before)
  BY DEF Gone
<1> QED  BY <1>2, <1>3, FS_Subset, FS_CardinalityType

(* Where the elements that are left come from, when element c is removed. *)
LEMMA KeepsDrop ==
    ASSUME NEW g, NEW G, Selects(g, len, G), len \in Nat, NEW c \in 1 .. len,
           NEW f, f = Drop(g, c, len)
    PROVE  Selects(f, len - 1, G \cup {g[c]})
<1>1. /\ g \in [1 .. len -> 1 .. Len(before)]
      /\ \A j, k \in 1 .. len : j < k => g[j] < g[k]
      /\ \A x \in 1 .. Len(before) : x \in G <=> \A j \in 1 .. len : g[j] # x
  BY DEF Selects, Increasing
<1>2. \A j \in 1 .. len - 1 :
        /\ j < c => j \in 1 .. len /\ j # c /\ f[j] = g[j]
        /\ ~ (j < c) => j + 1 \in 1 .. len /\ j + 1 # c /\ f[j] = g[j + 1]
  BY DEF Drop
<1>3. f \in [1 .. len - 1 -> 1 .. Len(before)]
  <2>1. \A j \in 1 .. len - 1 : f[j] \in 1 .. Len(before)
    BY <1>1, <1>2
  <2> QED  BY <2>1 DEF Drop
<1>4. Increasing(f, len - 1)
  <2> SUFFICES ASSUME NEW j \in 1 .. len - 1, NEW k \in 1 .. len - 1, j < k
               PROVE  f[j] < f[k]
    BY DEF Increasing
  <2>1. CASE k < c
    <3>1. j < c
      BY <2>1
    <3> QED  BY <1>1, <1>2, <2>1, <3>1
  <2>2. CASE j < c /\ ~ (k < c)
    <3>1. j < k + 1
      OBVIOUS
    <3> QED  BY <1>1, <1>2, <2>2, <3>1
  <2>3. CASE ~ (j < c)
    <3>1. ~ (k < c) /\ j + 1 < k + 1
      BY <2>3
    <3> QED  BY <1>1, <1>2, <2>3, <3>1
  <2> QED  BY <2>1, <2>2, <2>3
<1>5. \A j, k \in 1 .. len : j # k => g[j] # g[k]
  <2> SUFFICES ASSUME NEW j \in 1 .. len, NEW k \in 1 .. len, j # k PROVE g[j] # g[k]
    OBVIOUS
  <2>1. (j < k \/ k < j) /\ g[j] \in 1 .. Len(before) /\ g[k] \in 1 .. Len(before)
    BY <1>1
  <2> QED  BY <1>1, <2>1
<1>6. ASSUME NEW x \in 1 .. Len(before)
      PROVE  x \in G \cup {g[c]} <=> \A j \in 1 .. len - 1 : f[j] # x
  <2>1. CASE \E k \in 1 .. len : k # c /\ g[k] = x
    <3>1. PICK k \in 1 .. len : k # c /\ g[k] = x
      BY <2>1
    <3>2. x \notin G /\ x # g[c]
      BY <1>1, <1>5, <3>1
    <3>3. \E j \in 1 .. len - 1 : f[j] = x
      <4>1. CASE k < c
        <5>1. k \in 1 .. len - 1
          BY <4>1
        <5> QED  BY <1>2, <3>1, <4>1, <5>1
      <4>2. CASE ~ (k < c)
        <5>1. k - 1 \in 1 .. len - 1 /\ ~ (k - 1 < c) /\ (k - 1) + 1 = k
          BY <3>1, <4>2
        <5> QED  BY <1>2, <3>1, <5>1
      <4> QED  BY <4>1, <4>2
    <3> QED  BY <3>2, <3>3
  <2>2. CASE ~ \E k \in 1 .. len : k # c /\ g[k] = x
    <3>1. \A j \in 1 .. len - 1 : f[j] # x
      BY <1>2, <2>2
    <3>2. x # g[c] => x \in G
      BY <1>1, <2>2
    <3> QED  BY <3>1, <3>2
  <2> QED  BY <2>1, <2>2
<1> QED  BY <1>3, <1>4, <1>6 DEF Selects

(* Where list_rem is when it goes on to the element at cur. *)
LEMMA RemAtElement ==
    ASSUME NEW p, NEW g, NEW c, Removing(p, g, c), Shape, cur # NULL
    PROVE  /\ c \in 1 .. len /\ cur = p[c] /\ cur \in Nodes /\ cur \in owned
           /\ g[c] = (IF pos >= 0 THEN c + i ELSE c)
           /\ g[c] \in 1 .. Len(before) /\ before[g[c]] = node[cur].value
           /\ node[cur].next = At(p, c + 1) /\ node[cur].prev = At(p, c - 1)
           /\ len \in Nat /\ i \in Nat /\ NULL \notin Nodes
<1>1. len \in Nat /\ i \in Nat /\ NULL \notin Nodes
  BY ConstantFacts DEF Shape
<1>2. c \in 1 .. len /\ cur = p[c]
  BY DEF Removing, At
<1>3. Listed(p) /\ cur \in owned /\ cur \in Nodes
  BY <1>2 DEF Removing, Listed, Chain, Enumerates
<1>4. Keeps(p, g, IF pos >= 0 THEN Gone(c + i) ELSE Gone(c))
      /\ g[c] = IF pos >= 0 THEN c + i ELSE c
  BY <1>1, <1>2 DEF Removing, RemForward, RemBackward
<1>5. g[c] \in 1 .. Len(before) /\ before[g[c]] = node[cur].value
  BY <1>2, <1>4 DEF Keeps, Selects
<1>6. node[cur].next = At(p, c + 1) /\ node[cur].prev = At(p, c - 1)
  <2>1. /\ node[cur].prev = IF c = 1 THEN NULL ELSE p[c - 1]
        /\ node[cur].next = IF c = len THEN NULL ELSE p[c + 1]
    BY <1>2, <1>3 DEF Listed, Chain, Links
  <2>2. (c + 1 \in 1 .. len <=> c # len) /\ (c - 1 \in 1 .. len <=> c # 1)
    BY <1>1, <1>2
  <2> QED  BY <2>1, <2>2 DEF At
<1> QED  BY <1>1, <1>2, <1>3, <1>4, <1>5, <1>6

(* An iteration of list_rem brings cur nearer to the end it walks to. *)
Proceeds ==
    \E p, g, c, q, f, m :
        /\ Removing(p, g, c) /\ Removing(q, f, m)'
        /\ IF pos >= 0 THEN len' - m = (len - c) - 1 ELSE m = c - 1

(* An element that does not hold arg is passed. *)
LEMMA RemPassStep ==
    ASSUME IInv, RemStep, node[cur].value # arg
    PROVE  IInv' /\ Proceeds
<1>1. /\ pc = "rem" /\ cur # NULL
      /\ UNCHANGED <<len, head, tail, node, owned, i, count, pc, pos, arg, before, ret>>
      /\ cur' = IF pos >= 0 THEN node[cur].next ELSE node[cur].prev
  BY DEF RemStep, RemDone, list
<1>2. PICK p, g, c : Removing(p, g, c)
  BY <1>1 DEF IInv
<1>3. Shape /\ pos \in Int /\ node \in [Nodes -> Node]
  BY DEF IInv, Shape
<1>4. /\ c \in 1 .. len /\ cur = p[c] /\ cur \in Nodes /\ cur \in owned
      /\ g[c] = (IF pos >= 0 THEN c + i ELSE c)
      /\ g[c] \in 1 .. Len(before) /\ before[g[c]] = node[cur].value
      /\ node[cur].next = At(p, c + 1) /\ node[cur].prev = At(p, c - 1)
      /\ len \in Nat /\ i \in Nat /\ NULL \notin Nodes
  BY <1>1, <1>2, <1>3, RemAtElement
<1>5. before[g[c]] # arg
  BY <1>4
<1>6. PICK m : m = IF pos >= 0 THEN c + 1 ELSE c - 1
  OBVIOUS
<1>7. cur' = At(p, m)' /\ cur' \in Pointer
  <2>1. node[cur].next \in Pointer /\ node[cur].prev \in Pointer
    BY <1>3, <1>4 DEF Node
  <2> QED  BY <1>1, <1>4, <1>6, <2>1 DEF At
<1>8. /\ Listed(p)' /\ Len(before)' = len' + i'
  BY <1>1, <1>2 DEF Removing, Listed, Chain, Links
<1>9. ASSUME pos >= 0 PROVE RemForward(p, g, m)'
  <2>1. RemForward(p, g, c)
    BY <1>2, <1>9 DEF Removing
  <2>2. Gone((c + i) + 1) = Gone(c + i)
    BY <1>3, <1>4, <1>5, <1>9, GoneGrows
  <2>3. m + i = (c + i) + 1 /\ m \in 1 .. len + 1
    <3>1. c \in 1 .. len /\ len \in Nat /\ i \in Nat /\ m = c + 1
      BY <1>4, <1>6, <1>9
    <3> QED  BY <3>1
  <2>4. RemForward(p, g, m)
    BY <1>4, <1>6, <1>9, <2>1, <2>2, <2>3 DEF RemForward
  <2>5. RemForward(p, g, m)'
    BY <1>1, <2>4 DEF RemForward, Keeps, Selects, Increasing, Gone
  <2> QED  BY <2>5
<1>10. ASSUME ~ (pos >= 0) PROVE RemBackward(p, g, m)'
  <2>1. RemBackward(p, g, c)
    BY <1>2, <1>10 DEF Removing
  <2>2. Gone(c - 1) = Gone(c)
    BY <1>3, <1>4, <1>5, <1>10, GoneGrows
  <2>3. m = c - 1 /\ m \in 0 .. len
    BY <1>4, <1>6, <1>10
  <2>4. RemBackward(p, g, m)
    BY <1>4, <1>10, <2>1, <2>2, <2>3 DEF RemBackward
  <2>5. RemBackward(p, g, m)'
    BY <1>1, <2>4 DEF RemBackward, Keeps, Selects, Increasing, Gone
  <2> QED  BY <2>5
<1>11. Removing(p, g, m)'
  BY <1>1, <1>7, <1>8, <1>9, <1>10 DEF Removing
<1>12. Shape'
  BY <1>1, <1>3, <1>7 DEF Shape
<1>13. IInv'
  BY <1>1, <1>11, <1>12 DEF IInv
<1>14. IF pos >= 0 THEN len' - m = (len - c) - 1 ELSE m = c - 1
  BY <1>1, <1>4, <1>6
<1>15. Proceeds
  BY <1>2, <1>11, <1>14 DEF Proceeds
<1> QED  BY <1>13, <1>15

(* An element that holds arg is unlinked and freed. *)
LEMMA RemHitStep ==
    ASSUME IInv, RemStep, node[cur].value = arg
    PROVE  IInv' /\ Proceeds
<1>1. /\ pc = "rem" /\ cur # NULL /\ (pos = 0 \/ count # 0)
      /\ node_del(cur) /\ owned' = owned \ {cur} /\ i' = i + 1 /\ len' = len - 1
      /\ count' = IF pos >= 0 THEN count - 1 ELSE count + 1
      /\ UNCHANGED <<pc, pos, arg, before, ret>>
      /\ cur' = IF pos >= 0 THEN node[cur].next ELSE node[cur].prev
  BY DEF RemStep, RemDone
<1>2. PICK p, g, c : Removing(p, g, c)
  BY <1>1 DEF IInv
<1>3. Shape /\ pos \in Int /\ node \in [Nodes -> Node] /\ Listed(p)
  BY <1>2 DEF IInv, Shape, Removing
<1>4. /\ c \in 1 .. len /\ cur = p[c] /\ cur \in Nodes /\ cur \in owned
      /\ g[c] = (IF pos >= 0 THEN c + i ELSE c)
      /\ g[c] \in 1 .. Len(before) /\ before[g[c]] = node[cur].value
      /\ node[cur].next = At(p, c + 1) /\ node[cur].prev = At(p, c - 1)
      /\ len \in Nat /\ i \in Nat /\ NULL \notin Nodes
  BY <1>1, <1>2, <1>3, RemAtElement
<1>5. PICK q : q = Drop(p, c, len)
  OBVIOUS
<1>6. PICK f : f = Drop(g, c, len)
  OBVIOUS
<1>7. PICK m : m = IF pos >= 0 THEN c ELSE c - 1
  OBVIOUS
<1>8. /\ Listed(q)' /\ Shown(q, len', node') = Drop(Shown(p, len, node), c, len)
      /\ node' \in [Nodes -> Node] /\ len' \in Nat /\ owned' \subseteq Nodes
      /\ head' \in Pointer /\ tail' \in Pointer
  BY <1>1, <1>3, <1>4, <1>5, DeletionKeepsChain
<1>9. /\ \A j \in 1 .. len - 1 : j < c => j \in 1 .. len /\ q[j] = p[j] /\ f[j] = g[j]
      /\ \A j \in 1 .. len - 1 : ~ (j < c) =>
             j + 1 \in 1 .. len /\ q[j] = p[j + 1] /\ f[j] = g[j + 1]
  BY <1>4, <1>5, <1>6 DEF Drop
<1>10. cur' = At(q, m)' /\ cur' \in Pointer
  <2>1. node[cur].next \in Pointer /\ node[cur].prev \in Pointer
    BY <1>3, <1>4 DEF Node
  <2>2. CASE pos >= 0
    <3>1. c \in 1 .. len - 1 <=> c + 1 \in 1 .. len
      BY <1>4
    <3>2. c \in 1 .. len - 1 => q[c] = p[c + 1]
      BY <1>4, <1>9
    <3> QED  BY <1>1, <1>4, <1>7, <2>1, <2>2, <3>1, <3>2 DEF At
  <2>3. CASE ~ (pos >= 0)
    <3>1. c - 1 \in 1 .. len - 1 <=> c - 1 \in 1 .. len
      BY <1>4
    <3>2. c - 1 \in 1 .. len - 1 => q[c - 1] = p[c - 1]
      BY <1>4, <1>9
    <3> QED  BY <1>1, <1>4, <1>7, <2>1, <2>3, <3>1, <3>2 DEF At
  <2> QED  BY <2>2, <2>3
<1>11. Len(before)' = len' + i'
  BY <1>1, <1>2, <1>4 DEF Removing
<1>12. ASSUME NEW v, Keeps(p, g, Gone(v)), NEW w, Gone(w)' = Gone(v) \cup {g[c]}
       PROVE  Keeps(q, f, Gone(w))'
  <2>1. Selects(f, len - 1, Gone(v) \cup {g[c]})
    <3>1. Selects(g, len, Gone(v))
      BY <1>12 DEF Keeps
    <3> QED  BY <1>4, <1>6, <3>1, KeepsDrop
  <2>2. ASSUME NEW j \in 1 .. len - 1 PROVE node'[q[j]].value = before[f[j]]
    <3>1. \A k \in 1 .. len : Shown(p, len, node)[k] = before[g[k]]
      BY <1>12 DEF Keeps, Selects, Shown
    <3>2. node'[q[j]].value = Drop(Shown(p, len, node), c, len)[j]
      BY <1>1, <1>8 DEF Shown
    <3>3. Drop(Shown(p, len, node), c, len)[j]
              = IF j < c THEN Shown(p, len, node)[j] ELSE Shown(p, len, node)[j + 1]
      BY DEF Drop
    <3> QED  BY <1>9, <3>1, <3>2, <3>3
  <2>3. Selects(f, len, Gone(w))'
    BY <1>1, <1>12, <2>1 DEF Selects, Increasing
  <2>4. \A j \in 1 .. len' : node'[q[j]].value = before'[f[j]]
    BY <1>1, <2>2
  <2> QED  BY <2>3, <2>4 DEF Keeps
<1>13. ASSUME NEW w PROVE Gone(w)' = Gone(w)
  BY <1>1 DEF Gone
<1>14. ASSUME pos >= 0 PROVE RemForward(q, f, m)'
  <2>1. RemForward(p, g, c)
    BY <1>2, <1>14 DEF Removing
  <2>2. Gone((c + i) + 1) = Gone(c + i) \cup {c + i} /\ c + i \notin Gone(c + i)
    BY <1>1, <1>3, <1>4, <1>14, GoneGrows
  <2>3. PICK w : w = (c + i) + 1
    OBVIOUS
  <2>4. m + i' = w /\ m \in 1 .. len' + 1
    BY <1>1, <1>4, <1>7, <1>14, <2>3
  <2>5. Gone(w)' = Gone(c + i) \cup {g[c]}
    BY <1>4, <1>13, <1>14, <2>2, <2>3
  <2>6. Gone(m + i)' = Gone(w)'
    BY <2>4 DEF Gone
  <2>7. Keeps(q, f, Gone(m + i))'
    <3>1. PICK v : v = c + i
      OBVIOUS
    <3>2. Keeps(p, g, Gone(v))
      BY <2>1, <3>1 DEF RemForward
    <3>3. Keeps(q, f, Gone(w))'
      BY <1>12, <2>5, <3>1, <3>2
    <3> QED  BY <2>6, <3>3 DEF Keeps, Selects
  <2>8. Cardinality(Gone(m + i))' = i'
    <3>1. IsFiniteSet(Gone(c + i)) /\ Cardinality(Gone(c + i)) = i
      BY <1>3, <2>1, GoneIsFinite DEF RemForward
    <3>2. Cardinality(Gone(c + i) \cup {c + i}) = i + 1
      BY <2>2, <3>1, FS_AddElement
    <3> QED  BY <1>1, <1>4, <1>14, <2>5, <2>6, <3>2
  <2>9. \A j \in 1 .. len' : j >= m => f[j] = j + i'
    BY <1>1, <1>4, <1>7, <1>9, <1>14, <2>1 DEF RemForward
  <2>10. count' = pos' - i' /\ (pos' > 0 => i' <= pos')
    BY <1>1, <1>3, <1>4, <1>14, <2>1 DEF RemForward
  <2> QED  BY <2>4, <2>7, <2>8, <2>9, <2>10 DEF RemForward
<1>15. ASSUME ~ (pos >= 0) PROVE RemBackward(q, f, m)'
  <2>1. RemBackward(p, g, c)
    BY <1>2, <1>15 DEF Removing
  <2>2. Gone(c - 1) = Gone(c) \cup {c} /\ c \notin Gone(c)
    BY <1>1, <1>3, <1>4, <1>15, GoneGrows
  <2>3. m = c - 1 /\ m \in 0 .. len'
    BY <1>1, <1>4, <1>7, <1>15
  <2>4. Gone(m)' = Gone(c) \cup {g[c]}
    BY <1>4, <1>13, <1>15, <2>2, <2>3
  <2>5. Keeps(q, f, Gone(m))'
    <3>1. Keeps(p, g, Gone(c))
      BY <2>1 DEF RemBackward
    <3> QED  BY <1>12, <1>13, <2>4, <3>1
  <2>6. Cardinality(Gone(m))' = i'
    <3>1. IsFiniteSet(Gone(c)) /\ Cardinality(Gone(c)) = i
      BY <1>3, <2>1, GoneIsFinite DEF RemBackward
    <3>2. Cardinality(Gone(c) \cup {c}) = i + 1
      BY <2>2, <3>1, FS_AddElement
    <3> QED  BY <1>1, <1>4, <1>15, <2>4, <3>2
  <2>7. \A j \in 1 .. len' : j <= m => f[j] = j
    BY <1>1, <1>4, <1>9, <1>15, <2>1, <2>3 DEF RemBackward
  <2>8. count' = pos' + i' /\ i' <= -pos'
    BY <1>1, <1>3, <1>4, <1>15, <2>1 DEF RemBackward
  <2> QED  BY <2>3, <2>5, <2>6, <2>7, <2>8 DEF RemBackward
<1>16. Removing(q, f, m)'
  BY <1>1, <1>8, <1>10, <1>11, <1>14, <1>15 DEF Removing
<1>17. Shape'
  BY <1>1, <1>3, <1>8, <1>10 DEF Shape
<1>18. IInv'
  BY <1>1, <1>16, <1>17 DEF IInv
<1>19. IF pos >= 0 THEN len' - m = (len - c) - 1 ELSE m = c - 1
  BY <1>1, <1>4, <1>7
<1>20. Proceeds
  BY <1>2, <1>16, <1>19 DEF Proceeds
<1> QED  BY <1>18, <1>20

(* Counting from one end, the first k of O are G: those that come before an  *)
(* element of O (D of it, with itself) stay within G as long as it is in G.  *)
Leads(G, O, D, k) ==
    /\ IsFiniteSet(O) /\ G \subseteq O /\ k \in Nat
    /\ \A x \in O : D[x] \subseteq O /\ x \in D[x]
    /\ \A x \in G : D[x] \subseteq G
    /\ \A x \in O \ G : G \subseteq D[x]
    /\ Cardinality(G) <= k
    /\ G = O \/ Cardinality(G) = k

LEMMA FirstOnes ==
    ASSUME NEW O, NEW G, NEW D, NEW k, Leads(G, O, D, k)
    PROVE  {x \in O : Cardinality(D[x]) <= k} = G
<1> USE DEF Leads
<1>1. IsFiniteSet(G) /\ Cardinality(G) \in Nat
  BY FS_Subset, FS_CardinalityType
<1>2. ASSUME NEW x \in G PROVE Cardinality(D[x]) <= k
  <2>1. D[x] \subseteq G /\ IsFiniteSet(D[x])
    BY <1>1, FS_Subset
  <2>2. Cardinality(D[x]) <= Cardinality(G) /\ Cardinality(D[x]) \in Nat
    BY <1>1, <2>1, FS_Subset, FS_CardinalityType
  <2> QED  BY <1>1, <2>2
<1>3. ASSUME NEW x \in O \ G PROVE ~ (Cardinality(D[x]) <= k)
  <2>1. Cardinality(G) = k
    OBVIOUS
  <2>2. G \cup {x} \subseteq D[x] /\ IsFiniteSet(D[x])
    BY FS_Subset
  <2>3. Cardinality(G \cup {x}) = k + 1
    BY <1>1, <2>1, FS_AddElement
  <2>4. k + 1 <= Cardinality(D[x]) /\ Cardinality(D[x]) \in Nat
    BY <2>2, <2>3, FS_Subset, FS_CardinalityType
  <2> QED  BY <2>4
<1> QED  BY <1>2, <1>3

(* The cardinality that ListContents speaks of. *)
LEMMA SameCardinality == \A S : Contents!Cardinality(S) = Cardinality(S)
BY DEF Contents!Cardinality, Cardinality

(* LREM has removed the count first, or last, occurrences and answers with   *)
(* their number.                                                             *)
LEMMA RemReturnStep ==
    ASSUME IInv, RemReturn
    PROVE  IInv' /\ Contents!Remove(pos, arg)
<1>1. /\ pc = "rem" /\ RemDone /\ pc' = "idle" /\ cur' = NULL /\ count' = 0 /\ pos' = 0
      /\ arg' = NULL /\ i' = 0 /\ before' = <<>>
      /\ ret' = [op |-> "lrem", arg |-> <<pos, arg>>, res |-> <<i>>]
      /\ UNCHANGED <<len, head, tail, node, owned>>
  BY DEF RemReturn, ResetLocals, Return, list
<1>2. PICK p, g, c : Removing(p, g, c)
  BY <1>1 DEF IInv
<1>3. Shape /\ pos \in Int /\ count \in Int /\ i \in Nat /\ len \in Nat /\ before \in Seq(Values)
  BY DEF IInv, Shape
<1>4. Listed(p) /\ Len(before) = len + i /\ cur = At(p, c)
  BY <1>2 DEF Removing
<1>5. IInv'
  <2>1. Listed(p)'
    BY <1>1, <1>4 DEF Listed, Chain, Links
  <2>2. Shape'
    BY <1>1, <1>3 DEF Shape, Pointer
  <2> QED  BY <1>1, <2>1, <2>2 DEF IInv
<1> DEFINE O == {q \in 1 .. Len(before) : before[q] = arg}
           v == IF pos >= 0 THEN c + i ELSE c
           G == Gone(v)
<1>6. G = {q \in O : IF pos >= 0 THEN q < v ELSE q > v}
  BY DEF Gone
<1>7. IsFiniteSet(O) /\ O \subseteq 1 .. Len(before) /\ Len(before) \in Nat
  BY <1>3, FS_Interval, FS_Subset
<1>8. /\ Keeps(p, g, G) /\ Cardinality(G) = i
      /\ IF pos >= 0 THEN c \in 1 .. len + 1 /\ count = pos - i /\ (pos > 0 => i <= pos)
                     ELSE c \in 0 .. len /\ count = pos + i /\ i <= -pos
  BY <1>2 DEF Removing, RemForward, RemBackward
<1>9. v \in Int
  BY <1>3, <1>8
<1> HIDE DEF v, G, O
<1>10. cur = NULL => G = O
  <2>1. ASSUME cur = NULL PROVE ~ (c \in 1 .. len)
    <3>1. \A j \in 1 .. len : p[j] # NULL
      BY <1>4, ConstantFacts DEF Listed, Chain, Enumerates
    <3> QED  BY <1>4, <2>1, <3>1 DEF At
  <2>2. ASSUME cur = NULL, NEW q \in O PROVE IF pos >= 0 THEN q < v ELSE q > v
    <3>1. q \in 1 .. Len(before)
      BY <1>7
    <3>2. IF pos >= 0 THEN c = len + 1 ELSE c = 0
      BY <1>3, <1>8, <2>1, <2>2
    <3> QED  BY <1>3, <1>4, <3>1, <3>2 DEF v
  <2> QED  BY <1>6, <2>2
<1>11. cur = NULL \/ (pos # 0 /\ count = 0)
  BY <1>1 DEF RemDone
<1>12. Contents!Chosen(pos, arg) = G
  <2>1. Contents!Occurrences(arg) = O
    BY <1>1, <1>3 DEF Contents!Occurrences, O
  <2>2. Contents!Chosen(pos, arg)
          = {x \in O : \/ pos = 0
                       \/ pos > 0 /\ Cardinality({j \in O : j <= x}) <= pos
                       \/ pos < 0 /\ Cardinality({j \in O : j >= x}) <= -pos}
    BY <2>1, SameCardinality, Zenon DEF Contents!Chosen
  <2>3. CASE pos = 0
    <3>1. Contents!Chosen(pos, arg) = O
      BY <2>2, <2>3
    <3> QED  BY <1>10, <1>11, <2>3, <3>1
  <2>4. CASE pos > 0
    <3>1. PICK D : D = [x \in O |-> {j \in O : j <= x}]
      OBVIOUS
    <3>2. \A x \in O : x \in Int
      BY <1>7
    <3>3. \A x \in O : D[x] = {j \in O : j <= x}
      BY <3>1
    <3>4. G = {x \in O : x < v}
      BY <1>6, <2>4, <1>3
    <3>5. \A x \in O : D[x] \subseteq O /\ x \in D[x]
      BY <3>2, <3>3
    <3>6. \A x \in G : D[x] \subseteq G
      BY <1>9, <3>2, <3>3, <3>4
    <3>7. \A x \in O \ G : G \subseteq D[x]
      BY <1>9, <3>2, <3>3, <3>4
    <3>8. G \subseteq O /\ pos \in Nat /\ Cardinality(G) <= pos /\ (G = O \/ Cardinality(G) = pos)
      BY <1>3, <1>8, <1>10, <1>11, <2>4, <3>4
    <3>9. PICK k : k = pos
      OBVIOUS
    <3>10. Leads(G, O, D, k)
      BY <1>7, <3>5, <3>6, <3>7, <3>8, <3>9 DEF Leads
    <3>11. {x \in O : Cardinality(D[x]) <= k} = G
      BY <3>10, FirstOnes
    <3>12. pos # 0 /\ pos > 0 /\ ~ (pos < 0)
      BY <1>3, <2>4
    <3>13. Contents!Chosen(pos, arg) = {x \in O : Cardinality(D[x]) <= k}
      BY <2>2, <3>3, <3>9, <3>12, Zenon
    <3> QED  BY <3>11, <3>13
  <2>5. CASE pos < 0
    <3>1. PICK D : D = [x \in O |-> {j \in O : j >= x}]
      OBVIOUS
    <3>2. \A x \in O : x \in Int
      BY <1>7
    <3>3. \A x \in O : D[x] = {j \in O : j >= x}
      BY <3>1
    <3>4. G = {x \in O : x > v}
      BY <1>6, <2>5, <1>3
    <3>5. \A x \in O : D[x] \subseteq O /\ x \in D[x]
      BY <3>2, <3>3
    <3>6. \A x \in G : D[x] \subseteq G
      BY <1>9, <3>2, <3>3, <3>4
    <3>7. \A x \in O \ G : G \subseteq D[x]
      BY <1>9, <3>2, <3>3, <3>4
    <3>8. G \subseteq O /\ -pos \in Nat /\ Cardinality(G) <= -pos /\ (G = O \/ Cardinality(G) = -pos)
      BY <1>3, <1>8, <1>10, <1>11, <2>5, <3>4
    <3>9. PICK k : k = -pos
      OBVIOUS
    <3>10. Leads(G, O, D, k)
      BY <1>7, <3>5, <3>6, <3>7, <3>8, <3>9 DEF Leads
    <3>11. {x \in O : Cardinality(D[x]) <= k} = G
      BY <3>10, FirstOnes
    <3>12. pos # 0 /\ pos < 0 /\ ~ (pos > 0)
      BY <1>3, <2>5
    <3>13. Contents!Chosen(pos, arg) = {x \in O : Cardinality(D[x]) <= k}
      BY <2>2, <3>3, <3>9, <3>12, Zenon
    <3> QED  BY <3>11, <3>13
  <2> QED  BY <1>3, <2>3, <2>4, <2>5
<1>13. Contents!Without(G, Elements')
  <2>1. Elements' = Shown(p, len, node)
    <3>1. Listed(p)' /\ NULL \notin Nodes
      BY <1>1, <1>4, ConstantFacts DEF Listed, Chain, Links
    <3>2. Elements' = Shown(p, len', node')
      BY <3>1, ElementsAreShownNext
    <3> QED  BY <1>1, <3>2
  <2>2. /\ g \in [1 .. len -> 1 .. Len(before)]
        /\ \A j, k \in 1 .. len : j < k => g[j] < g[k]
        /\ \A x \in 1 .. Len(before) : x \in G <=> \A j \in 1 .. len : g[j] # x
        /\ \A j \in 1 .. len : node[p[j]].value = before[g[j]]
    BY <1>8 DEF Keeps, Selects, Increasing
  <2>3. DOMAIN before = 1 .. Len(before) /\ DOMAIN g = 1 .. len
    BY <1>3, <2>2
  <2>4. Len(before) - Cardinality(G) = len
    BY <1>3, <1>4, <1>8
  <2>5. g \in [1 .. Len(before) - Cardinality(G) -> DOMAIN before \ G]
    BY <2>2, <2>3, <2>4
  <2>6. Elements' = [j \in DOMAIN g |-> before[g[j]]]
    BY <2>1, <2>2, <2>3 DEF Shown
  <2>7. \A j, k \in DOMAIN g : j < k => g[j] < g[k]
    BY <2>2, <2>3
  <2>8. pc # "idle"
    BY <1>1
  <2>9. \E f \in [1 .. Len(before) - Cardinality(G) -> DOMAIN before \ G] :
           /\ \A j, k \in DOMAIN f : j < k => f[j] < f[k]
           /\ Elements' = [j \in DOMAIN f |-> before[f[j]]]
    BY <2>5, <2>6, <2>7
  <2> QED  BY <2>8, <2>9, SameCardinality DEF Contents!Without
<1>14. Contents!Remove(pos, arg)
  <2>1. Contents!Cardinality(Contents!Chosen(pos, arg)) = i
    BY <1>8, <1>12, SameCardinality
  <2>2. Contents!Reply("lrem", <<pos, arg>>, <<Contents!Cardinality(Contents!Chosen(pos, arg))>>)
    BY <1>1, <2>1 DEF Contents!Reply
  <2>3. Contents!Without(Contents!Chosen(pos, arg), (IF pc = "idle" THEN Elements ELSE before)')
    BY <1>1, <1>12, <1>13
  <2> QED  BY <2>2, <2>3 DEF Contents!Remove
<1> QED  BY <1>5, <1>14

-----------------------------------------------------------------------------
(* list_free begins with every node ahead of it.                             *)
LEMMA FreeBeginStep ==
    ASSUME IInv, list_free
    PROVE  IInv' /\ UNCHANGED Contents!vars
<1>1. /\ pc = "idle" /\ pc' = "free" /\ cur' = head /\ before' = Elements
      /\ UNCHANGED <<len, head, tail, node, owned, count, pos, arg, i, ret>>
  BY DEF list_free, list
<1>2. PICK p : /\ Listed(p) /\ Chain(p, len, head, tail, node, owned)
               /\ Elements = Shown(p, len, node)
               /\ Elements \in Seq(Values) /\ Len(Elements) = len
               /\ len \in Nat /\ node \in [Nodes -> Node] /\ NULL \notin Nodes
               /\ owned \subseteq Nodes
  BY <1>1, AtRest
<1>3. Freeing(p)'
  BY <1>1, <1>2 DEF Freeing, Chain, Links, Enumerates
<1>4. Shape'
  BY <1>1, <1>2 DEF IInv, Shape
<1> QED  BY <1>1, <1>3, <1>4 DEF IInv, Contents!vars

(* One iteration frees the first node that is left. *)
LEMMA FreeStepStep ==
    ASSUME IInv, FreeStep
    PROVE  IInv' /\ UNCHANGED Contents!vars
<1>1. /\ pc = "free" /\ len # 0 /\ len' = len - 1 /\ cur' = node[cur].next
      /\ node' = [node EXCEPT ![cur] = Freed] /\ owned' = owned \ {cur}
      /\ UNCHANGED <<head, tail, pc, count, pos, arg, i, before, ret>>
  BY DEF FreeStep
<1>2. PICK p : Freeing(p)
  BY <1>1 DEF IInv
<1>3. Shape /\ len \in Nat /\ node \in [Nodes -> Node] /\ owned \subseteq Nodes /\ NULL \notin Nodes
  BY ConstantFacts DEF IInv, Shape
<1>4. /\ p \in [1 .. len -> owned]
      /\ \A x \in owned : \E j \in 1 .. len : p[j] = x
      /\ \A j, k \in 1 .. len : p[j] = p[k] => j = k
      /\ \A j \in 1 .. len : node[p[j]].next = IF j = len THEN NULL ELSE p[j + 1]
  BY <1>2 DEF Freeing, Enumerates
<1>5. 1 \in 1 .. len /\ cur = p[1] /\ cur \in Nodes /\ len - 1 \in Nat
  BY <1>1, <1>2, <1>3, <1>4 DEF Freeing
<1>6. PICK q : q = [j \in 1 .. len - 1 |-> p[j + 1]]
  OBVIOUS
<1>7. \A j \in 1 .. len - 1 : j + 1 \in 1 .. len /\ j + 1 # 1 /\ q[j] = p[j + 1]
  BY <1>3, <1>6
<1>8. Enumerates(q, len - 1, owned \ {cur})
  <2>1. \A j \in 1 .. len - 1 : q[j] \in owned \ {cur}
    BY <1>4, <1>5, <1>7
  <2>2. q \in [1 .. len - 1 -> owned \ {cur}]
    BY <1>6, <2>1
  <2>3. ASSUME NEW x \in owned \ {cur} PROVE \E j \in 1 .. len - 1 : q[j] = x
    <3>1. PICK k \in 1 .. len : p[k] = x
      BY <1>4
    <3>2. k - 1 \in 1 .. len - 1 /\ (k - 1) + 1 = k
      <4>1. k # 1
        BY <1>5, <3>1
      <4> QED  BY <1>3, <4>1
    <3> QED  BY <1>7, <3>1, <3>2
  <2>4. ASSUME NEW j \in 1 .. len - 1, NEW k \in 1 .. len - 1, q[j] = q[k] PROVE j = k
    <3>1. j + 1 = k + 1
      BY <1>4, <1>7, <2>4
    <3> QED  BY <3>1
  <2> QED  BY <1>5, <2>2, <2>3, <2>4 DEF Enumerates
<1>9. node' \in [Nodes -> Node]
  <2>1. Freed \in Node
    BY DEF Freed, Node, Pointer
  <2> QED  BY <1>1, <1>3, <2>1
<1>10. \A j \in 1 .. len - 1 : node'[q[j]].next = IF j = len - 1 THEN NULL ELSE q[j + 1]
  <2> TAKE j \in 1 .. len - 1
  <2>1. q[j] \in Nodes /\ q[j] # cur /\ q[j] = p[j + 1] /\ j + 1 \in 1 .. len
    BY <1>3, <1>4, <1>5, <1>7
  <2>2. node'[q[j]] = node[p[j + 1]]
    BY <1>1, <1>3, <2>1
  <2>3. node[p[j + 1]].next = IF j + 1 = len THEN NULL ELSE p[(j + 1) + 1]
    BY <1>4, <2>1
  <2>4. j # len - 1 => j + 1 \in 1 .. len - 1 /\ j + 1 # len
    BY <1>3
  <2> QED  BY <1>3, <1>7, <2>2, <2>3, <2>4
<1>11. cur' = IF len - 1 = 0 THEN NULL ELSE q[1]
  <2>1. cur' = IF 1 = len THEN NULL ELSE p[1 + 1]
    BY <1>1, <1>4, <1>5
  <2>2. len # 1 => 1 \in 1 .. len - 1
    BY <1>3, <1>5
  <2> QED  BY <1>3, <1>7, <2>1, <2>2
<1>12. Freeing(q)'
  BY <1>1, <1>8, <1>10, <1>11 DEF Freeing, Enumerates
<1>13. cur' \in Pointer
  <2>1. node[cur] \in Node
    BY <1>3, <1>5
  <2> QED  BY <1>1, <2>1 DEF Node
<1>14. Shape'
  BY <1>1, <1>3, <1>5, <1>9, <1>13 DEF Shape
<1> QED  BY <1>1, <1>12, <1>14 DEF IInv, Contents!vars

(* DEL ends with nothing left. *)
LEMMA FreeReturnStep ==
    ASSUME IInv, FreeReturn
    PROVE  IInv' /\ Contents!Delete
<1>1. /\ pc = "free" /\ len = 0 /\ head' = NULL /\ tail' = NULL
      /\ ret' = [op |-> "del", arg |-> <<>>, res |-> <<>>]
      /\ pc' = "idle" /\ cur' = NULL /\ count' = 0 /\ pos' = 0
      /\ arg' = NULL /\ i' = 0 /\ before' = <<>>
      /\ UNCHANGED <<len, node, owned>>
  BY DEF FreeReturn, ResetLocals, Return
<1>2. PICK p : Freeing(p)
  BY <1>1 DEF IInv
<1>3. Shape
  BY DEF IInv
<1>4. Listed(p)'
  <2>1. Enumerates(p, len, owned)' /\ owned \subseteq Nodes
    BY <1>1, <1>2, <1>3 DEF Freeing, Shape, Enumerates
  <2> QED  BY <1>1, <2>1 DEF Listed, Chain, Links
<1>5. Shape'
  BY <1>1, <1>3 DEF Shape, Pointer
<1>6. Elements' = <<>>
  <2>1. Elements' \in Seq(Values) /\ Len(Elements') = len'
    BY <1>4, ConstantFacts, ElementsAreShownNext
  <2> QED  BY <1>1, <2>1
<1> QED  BY <1>1, <1>4, <1>5, <1>6 DEF IInv, Contents!Delete, Contents!Reply

-----------------------------------------------------------------------------
(***************************************************************************)
(* The theorems.                                                           *)
(***************************************************************************)

(* An empty list is linked. *)
LEMMA InitIsShaped ==
    ASSUME Init
    PROVE  IInv /\ Contents!Init
<1>1. /\ len = 0 /\ head = NULL /\ tail = NULL /\ owned = {}
      /\ node = [n \in Nodes |-> Freed] /\ pc = "idle" /\ cur = NULL /\ before = <<>>
      /\ count = 0 /\ pos = 0 /\ arg = NULL /\ i = 0
      /\ ret = [op |-> "none", arg |-> <<>>, res |-> <<>>]
  BY DEF Init
<1>2. PICK p : p = [j \in 1 .. 0 |-> NULL]
  OBVIOUS
<1>3. Listed(p)
  <2>1. p \in [1 .. 0 -> {}]
    BY <1>2
  <2> QED  BY <1>1, <2>1 DEF Listed, Chain, Links, Enumerates
<1>4. Freed \in Node
  BY DEF Freed, Node, Pointer
<1>5. Shape
  BY <1>1, <1>4 DEF Shape, Pointer
<1>6. Elements = <<>>
  <2>1. Elements \in Seq(Values) /\ Len(Elements) = len
    BY <1>3, ConstantFacts, ElementsAreShown
  <2> QED  BY <1>1, <2>1
<1> QED  BY <1>1, <1>3, <1>5, <1>6 DEF IInv, Contents!Init

(* Nothing changes. *)
LEMMA ListStutters ==
    ASSUME IInv, UNCHANGED vars
    PROVE  IInv' /\ UNCHANGED Contents!vars
<1>1. /\ UNCHANGED <<len, head, tail, node, owned>>
      /\ UNCHANGED <<pc, cur, count, pos, arg, i, before, ret>>
  BY DEF vars, list, locals
<1>2. Elements' = Elements
  BY <1>1 DEF Elements, list_index
<1>3. Shape'
  BY <1>1 DEF IInv, Shape
<1>4. ASSUME NEW p, Listed(p) PROVE Listed(p)'
  BY <1>1, <1>4 DEF Listed
<1>5. ASSUME NEW p, Freeing(p) PROVE Freeing(p)'
  BY <1>1, <1>5 DEF Freeing
<1>6. ASSUME NEW p, NEW g, NEW c, Removing(p, g, c) PROVE Removing(p, g, c)'
  <2>1. ASSUME NEW v PROVE Gone(v)' = Gone(v)
    BY <1>1 DEF Gone
  <2>2. ASSUME NEW v, Keeps(p, g, Gone(v)) PROVE Keeps(p, g, Gone(v))'
    BY <1>1, <2>1, <2>2 DEF Keeps, Selects
  <2>3. Gone(c + i)' = Gone(c + i)
    BY <1>1 DEF Gone
  <2>4. RemForward(p, g, c) => RemForward(p, g, c)'
    BY <1>1, <2>3 DEF RemForward, Keeps, Selects
  <2>5. RemBackward(p, g, c) => RemBackward(p, g, c)'
    BY <1>1, <2>1, <2>2 DEF RemBackward
  <2> QED  BY <1>1, <1>4, <1>6, <2>4, <2>5 DEF Removing, At
<1>7. IInv'
  BY <1>1, <1>3, <1>4, <1>5, <1>6 DEF IInv
<1> QED  BY <1>1, <1>2, <1>7 DEF Contents!vars

(* Every step keeps the invariant and is a step of the sequence, or none. *)
LEMMA NextStep ==
    ASSUME IInv, [Next]_vars
    PROVE  IInv' /\ [Contents!Next]_(Contents!vars)
<1>1. ASSUME NEW v \in Values, list_lpush(v) PROVE IInv' /\ [Contents!Next]_(Contents!vars)
  BY <1>1, LPushStep DEF Contents!Next
<1>2. ASSUME NEW v \in Values, list_rpush(v) PROVE IInv' /\ [Contents!Next]_(Contents!vars)
  BY <1>2, RPushStep DEF Contents!Next
<1>3. ASSUME NEW v \in Values, lpos(v) PROVE IInv' /\ [Contents!Next]_(Contents!vars)
  BY <1>3, LPosStep DEF Contents!Next
<1>4. CASE list_lpop
  BY <1>4, LPopStep DEF Contents!Next
<1>5. CASE list_rpop
  BY <1>5, RPopStep DEF Contents!Next
<1>6. ASSUME NEW id \in Ids, lindex(id) PROVE IInv' /\ [Contents!Next]_(Contents!vars)
  BY <1>6, LIndexStep DEF Contents!Next
<1>7. ASSUME NEW id \in Ids, NEW v \in Values, lset(id, v)
      PROVE  IInv' /\ [Contents!Next]_(Contents!vars)
  BY <1>7, LSetStep DEF Contents!Next
<1>8. ASSUME NEW begin \in Ids, NEW end \in Ids, lrange(begin, end)
      PROVE  IInv' /\ [Contents!Next]_(Contents!vars)
  BY <1>8, LRangeStep DEF Contents!Next
<1>9. ASSUME NEW c \in Counts, NEW v \in Values, list_rem(c, v)
      PROVE  IInv' /\ [Contents!Next]_(Contents!vars)
  BY <1>9, RemBeginStep
<1>10. CASE list_free
  BY <1>10, FreeBeginStep
<1>11. CASE RemStep
  <2>1. IInv'
    BY <1>11, RemPassStep, RemHitStep
  <2>2. UNCHANGED Contents!vars
    BY <1>11 DEF RemStep, Contents!vars
  <2> QED  BY <2>1, <2>2
<1>12. CASE RemReturn
  <2>1. pos \in Counts /\ arg \in Values
    BY <1>12 DEF RemReturn, IInv, Shape
  <2> QED  BY <1>12, <2>1, RemReturnStep DEF Contents!Next
<1>13. CASE FreeStep
  BY <1>13, FreeStepStep
<1>14. CASE FreeReturn
  BY <1>14, FreeReturnStep DEF Contents!Next
<1>15. CASE UNCHANGED vars
  BY <1>15, ListStutters
<1> QED  BY <1>1, <1>2, <1>3, <1>4, <1>5, <1>6, <1>7, <1>8, <1>9, <1>10, <1>11, <1>12,
            <1>13, <1>14, <1>15 DEF Next, Loops

(* The invariant implies what the runs check. *)
LEMMA InvariantIsTyped ==
    ASSUME IInv
    PROVE  TypeOK
<1>1. Shape
  BY DEF IInv
<1>2. \E p : Enumerates(p, len, owned)
  BY <1>1 DEF IInv, Shape, Listed, Chain, Removing, Freeing
<1>3. len \in 0 .. Cardinality(Nodes)
  BY <1>1, <1>2, ListFits DEF Shape
<1> QED  BY <1>1, <1>3 DEF Shape, TypeOK

LEMMA InvariantIsLinked ==
    ASSUME IInv
    PROVE  WellLinked
<1> SUFFICES ASSUME pc # "free"
             PROVE  /\ {list_index(j) : j \in 0 .. (len - 1)} = owned
                    /\ list_index(len) = NULL
                    /\ Cardinality(owned) = len
                    /\ len = 0 => tail = NULL
                    /\ len > 0 => node[head].prev = NULL /\ tail = list_index(len - 1)
                    /\ \A n \in owned : node[n].next # NULL => node[node[n].next].prev = n
  BY DEF WellLinked
<1>1. PICK p : Listed(p)
  BY DEF IInv, Shape, Removing
<1>2. /\ Chain(p, len, head, tail, node, owned) /\ len \in Nat /\ NULL \notin Nodes
      /\ owned \subseteq Nodes /\ p \in [1 .. len -> owned]
      /\ \A x \in owned : \E j \in 1 .. len : p[j] = x
      /\ \A j \in 1 .. len : /\ node[p[j]].prev = IF j = 1 THEN NULL ELSE p[j - 1]
                             /\ node[p[j]].next = IF j = len THEN NULL ELSE p[j + 1]
      /\ head = (IF len = 0 THEN NULL ELSE p[1]) /\ tail = (IF len = 0 THEN NULL ELSE p[len])
  BY <1>1, ConstantFacts DEF Listed, Chain, Enumerates, Links
<1>3. \A id \in Nat : list_index(id) = IF id < len THEN p[id + 1] ELSE NULL
  BY <1>1, <1>2, WalkFollowsChain
<1>4. Cardinality(owned) = len
  <2>1. Enumerates(p, len, owned)
    BY <1>2 DEF Chain
  <2> QED  BY <2>1, ChainCounts
<1>5. {list_index(j) : j \in 0 .. (len - 1)} = owned
  <2>1. ASSUME NEW j \in 0 .. (len - 1) PROVE list_index(j) \in owned
    <3>1. j \in Nat /\ j < len /\ j + 1 \in 1 .. len
      BY <1>2
    <3> QED  BY <1>2, <1>3, <3>1
  <2>2. ASSUME NEW x \in owned PROVE \E j \in 0 .. (len - 1) : list_index(j) = x
    <3>1. PICK k \in 1 .. len : p[k] = x
      BY <1>2
    <3>2. k - 1 \in Nat /\ k - 1 < len /\ (k - 1) + 1 = k /\ k - 1 \in 0 .. (len - 1)
      BY <1>2
    <3> QED  BY <1>3, <3>1, <3>2
  <2> QED  BY <2>1, <2>2
<1>6. list_index(len) = NULL
  BY <1>2, <1>3
<1>7. len > 0 => node[head].prev = NULL /\ tail = list_index(len - 1)
  <2> SUFFICES ASSUME len > 0 PROVE node[head].prev = NULL /\ tail = list_index(len - 1)
    OBVIOUS
  <2>1. 1 \in 1 .. len /\ len - 1 \in Nat /\ len - 1 < len /\ (len - 1) + 1 = len /\ len # 0
    BY <1>2
  <2> QED  BY <1>2, <1>3, <2>1
<1>8. ASSUME NEW n \in owned, node[n].next # NULL PROVE node[node[n].next].prev = n
  <2>1. PICK j \in 1 .. len : p[j] = n
    BY <1>2
  <2>2. j # len /\ node[n].next = p[j + 1]
    BY <1>2, <1>8, <2>1
  <2>3. j + 1 \in 1 .. len /\ j + 1 # 1 /\ (j + 1) - 1 = j
    BY <1>2, <2>2
  <2> QED  BY <1>2, <2>1, <2>2, <2>3
<1> QED  BY <1>2, <1>4, <1>5, <1>6, <1>7, <1>8

LEMMA InvariantFreesOnce ==
    ASSUME IInv
    PROVE  NoUseAfterFree
<1>1. Shape /\ len \in Nat /\ NULL \notin Nodes
  BY ConstantFacts DEF IInv, Shape
<1>2. cur # NULL => cur \in owned
  <2>1. CASE pc = "idle"
    BY <1>1, <2>1 DEF Shape
  <2>2. CASE pc = "rem"
    <3>1. PICK p, g, c : Removing(p, g, c)
      BY <2>2 DEF IInv
    <3> QED  BY <1>1, <3>1, RemAtElement
  <2>3. CASE pc = "free"
    <3>1. PICK p : Freeing(p)
      BY <2>3 DEF IInv
    <3>2. len # 0 => 1 \in 1 .. len
      BY <1>1
    <3> QED  BY <3>1, <3>2 DEF Freeing, Enumerates
  <2> QED  BY <1>1, <2>1, <2>2, <2>3 DEF Shape
<1>3. pc = "free" => Cardinality(owned) = len /\ (len > 0 => cur # NULL)
  <2> SUFFICES ASSUME pc = "free" PROVE Cardinality(owned) = len /\ (len > 0 => cur # NULL)
    OBVIOUS
  <2>1. PICK p : Freeing(p)
    BY DEF IInv
  <2>2. Enumerates(p, len, owned)
    BY <2>1 DEF Freeing
  <2>3. Cardinality(owned) = len
    BY <2>2, ChainCounts
  <2>4. len > 0 => cur # NULL
    <3>1. len > 0 => 1 \in 1 .. len /\ len # 0
      BY <1>1
    <3> QED  BY <1>1, <2>1, <3>1 DEF Freeing, Enumerates, Shape
  <2> QED  BY <2>3, <2>4
<1>4. pc = "idle" /\ len = 0 => owned = {}
  <2> SUFFICES ASSUME pc = "idle", len = 0 PROVE owned = {}
    OBVIOUS
  <2>1. PICK p : Listed(p)
    BY DEF IInv
  <2> QED  BY <2>1 DEF Listed, Chain, Enumerates
<1> QED  BY <1>2, <1>3, <1>4 DEF NoUseAfterFree

(* The links, the length and the progress of the two loops that free nodes   *)
(* stay as IInv describes them.                                              *)
THEOREM ListShape == Spec => []IInv
<1>1. Init => IInv
  BY InitIsShaped
<1>2. IInv /\ [Next]_vars => IInv'
  BY NextStep
<1> QED  BY <1>1, <1>2, PTL DEF Spec

(* Every variable keeps its type; the list never has more nodes than malloc  *)
(* gave it.                                                                  *)
THEOREM TypeCorrectness == Spec => []TypeOK
BY ListShape, InvariantIsTyped, PTL

(* Between two iterations of any call of src/list.c, list_rem's too, next    *)
(* leads from head through exactly the list's nodes and prev leads back.     *)
THEOREM ListStaysLinked == Spec => []WellLinked
BY ListShape, InvariantIsLinked, PTL

(* list_rem and list_free of src/list.c read no node they have freed, and    *)
(* list_free frees them all.                                                 *)
THEOREM NothingIsUsedAfterFree == Spec => []NoUseAfterFree
BY ListShape, InvariantFreesOnce, PTL

(* Every list command of src/list.c and src/interpreter.c has the effect and *)
(* the answer of the sequence's operation: one call of list_rem is one       *)
(* Remove, whichever way it walks and wherever its count stops it.           *)
THEOREM CommandsImplementSequence == Spec => RefinesContents
<1>1. Init => Contents!Init
  BY InitIsShaped
<1>2. IInv /\ [Next]_vars => [Contents!Next]_(Contents!vars)
  BY NextStep
<1> QED  BY <1>1, <1>2, ListShape, PTL DEF Spec, RefinesContents, Contents!Spec

-----------------------------------------------------------------------------
(***************************************************************************)
(* How many steps a loop has left at most.                                 *)
(***************************************************************************)
Position(n) == CHOOSE c \in 1 .. len : list_index(c - 1) = n

Left ==
    CASE pc = "idle" -> 0
      [] pc = "free" -> len + 1
      [] pc = "rem"  -> IF cur = NULL THEN 1
                        ELSE IF pos >= 0 THEN len + 2 - Position(cur)
                        ELSE Position(cur) + 1

(* What list_rem has left, in terms of the chain. *)
RemLeft ==
    \A p, g, c :
        pc = "rem" /\ Removing(p, g, c) =>
            /\ c \in 0 .. len + 1 /\ len \in Nat
            /\ Left = IF pos >= 0 THEN len + 2 - c ELSE c + 1
            /\ Left \in 1 .. len + 1

LEMMA RemLeftIs == IInv => RemLeft
<1> SUFFICES ASSUME IInv, NEW p, NEW g, NEW c, pc = "rem", Removing(p, g, c)
             PROVE  /\ c \in 0 .. len + 1 /\ len \in Nat
                    /\ Left = IF pos >= 0 THEN len + 2 - c ELSE c + 1
                    /\ Left \in 1 .. len + 1
  BY DEF RemLeft
<1>1. len \in Nat /\ NULL \notin Nodes /\ Listed(p) /\ cur = At(p, c) /\ pos \in Int
  BY ConstantFacts DEF IInv, Shape, Removing
<1>2. /\ pos >= 0 => c \in 1 .. len + 1
      /\ ~ (pos >= 0) => c \in 0 .. len
  BY DEF Removing, RemForward, RemBackward
<1>3. \A j \in 1 .. len : /\ p[j] \in Nodes
                          /\ list_index(j - 1) = p[j]
                          /\ \A k \in 1 .. len : p[j] = p[k] => j = k
  <2> SUFFICES ASSUME NEW j \in 1 .. len
               PROVE  /\ p[j] \in Nodes
                      /\ list_index(j - 1) = p[j]
                      /\ \A k \in 1 .. len : p[j] = p[k] => j = k
    OBVIOUS
  <2>1. p[j] \in Nodes /\ \A k \in 1 .. len : p[j] = p[k] => j = k
    BY <1>1 DEF Listed, Chain, Enumerates
  <2>2. j - 1 \in Nat /\ j - 1 < len /\ (j - 1) + 1 = j
    BY <1>1
  <2> QED  BY <1>1, <2>1, <2>2, WalkFollowsChain
<1>4. CASE c \in 1 .. len
  <2>1. cur = p[c] /\ cur # NULL
    BY <1>1, <1>3, <1>4 DEF At
  <2>2. \A k \in 1 .. len : list_index(k - 1) = cur <=> k = c
    BY <1>3, <1>4, <2>1
  <2>3. Position(cur) = c
    BY <1>4, <2>2 DEF Position
  <2> QED  BY <1>1, <1>4, <2>1, <2>3 DEF Left
<1>5. CASE c \notin 1 .. len
  <2>1. cur = NULL
    BY <1>1, <1>5 DEF At
  <2>2. c = IF pos >= 0 THEN len + 1 ELSE 0
    BY <1>1, <1>2, <1>5
  <2> QED  BY <1>1, <2>1, <2>2 DEF Left
<1> QED  BY <1>4, <1>5

LEMMA RemLeftIsNext == IInv' => RemLeft'
  BY RemLeftIs, PTL

LEMMA LoopsDescend ==
    ASSUME IInv, IInv', Loops
    PROVE  Left' < Left
<1>1. RemLeft /\ RemLeft' /\ Shape
  BY RemLeftIs, RemLeftIsNext DEF IInv
<1>2. CASE RemStep
  <2>1. PICK p, g, c, q, f, m :
            /\ Removing(p, g, c) /\ Removing(q, f, m)'
            /\ IF pos >= 0 THEN len' - m = (len - c) - 1 ELSE m = c - 1
    BY <1>2, RemPassStep, RemHitStep DEF Proceeds
  <2>2. pc = "rem" /\ pc' = "rem" /\ pos' = pos /\ pos \in Int
    BY <1>1, <1>2 DEF RemStep, Shape
  <2>3. /\ c \in Int /\ len \in Nat
        /\ Left = IF pos >= 0 THEN len + 2 - c ELSE c + 1
    BY <1>1, <2>1, <2>2 DEF RemLeft
  <2>4. /\ m \in Int /\ len' \in Nat
        /\ Left' = IF pos >= 0 THEN len' + 2 - m ELSE m + 1
    BY <1>1, <2>1, <2>2 DEF RemLeft
  <2>5. CASE pos >= 0
    <3>1. /\ Left = len + 2 - c /\ Left' = len' + 2 - m
          /\ len' - m = (len - c) - 1
      BY <2>1, <2>2, <2>3, <2>4, <2>5
    <3>2. len \in Int /\ c \in Int /\ len' \in Int /\ m \in Int
      BY <2>3, <2>4
    <3>3. len + 2 - c = (len - c) + 2 /\ len' + 2 - m = (len' - m) + 2 /\ len - c \in Int
      BY <3>2
    <3> QED  BY <3>1, <3>3
  <2>6. CASE ~ (pos >= 0)
    <3>1. Left = c + 1 /\ Left' = m + 1 /\ m = c - 1
      BY <2>1, <2>2, <2>3, <2>4, <2>6
    <3> QED  BY <2>3, <3>1
  <2> QED  BY <2>5, <2>6
<1>3. CASE RemReturn
  <2>1. pc = "rem" /\ pc' = "idle"
    BY <1>3 DEF RemReturn, ResetLocals
  <2>2. PICK p, g, c : Removing(p, g, c)
    BY <2>1 DEF IInv
  <2>3. Left \in 1 .. len + 1 /\ len \in Nat
    BY <1>1, <2>1, <2>2 DEF RemLeft
  <2>4. Left' = 0
    BY <2>1 DEF Left
  <2> QED  BY <2>3, <2>4
<1>4. CASE FreeStep
  BY <1>1, <1>4 DEF FreeStep, Left, Shape
<1>5. CASE FreeReturn
  BY <1>1, <1>5 DEF FreeReturn, ResetLocals, Left, Shape
<1> QED  BY <1>2, <1>3, <1>4, <1>5 DEF Loops

(* list_rem and list_free loop for ever on no list: an iteration leaves less *)
(* to walk than there was, in either direction and whether or not it frees   *)
(* the node, and a call takes as many iterations as there are nodes at most. *)
THEOREM LoopsAreBounded ==
    Spec => /\ [](Left \in 0 .. len + 1)
            /\ [][Loops => Left' < Left]_vars
<1> DEFINE I == Left \in 0 .. len + 1
           D == Loops => Left' < Left
<1>1. IInv => I
  <2> SUFFICES ASSUME IInv PROVE I
    OBVIOUS
  <2>1. RemLeft /\ len \in Nat /\ pc \in {"idle", "rem", "free"}
    BY RemLeftIs DEF IInv, Shape
  <2>2. CASE pc = "rem"
    <3>1. PICK p, g, c : Removing(p, g, c)
      BY <2>2 DEF IInv
    <3> QED  BY <2>1, <2>2, <3>1 DEF RemLeft
  <2> QED  BY <2>1, <2>2 DEF Left
<1>2. IInv /\ [Next]_vars => [D]_vars
  <2>1. IInv /\ [Next]_vars => IInv'
    BY NextStep
  <2> QED  BY <2>1, LoopsDescend
<1> QED  BY <1>1, <1>2, ListShape, PTL DEF Spec
=============================================================================
