----------------------------- MODULE LiveStoreProofs -----------------------------
(***************************************************************************)
(* The live trie as a tree: what a removal prunes, and that the trie       *)
(* implements LiveStore.  Proofs about MmapTrie, on top of its layout.     *)
(***************************************************************************)
EXTENDS MmapTrieProofs, NaturalsInduction, WellFoundedInduction

(***************************************************************************)
(* The shape of a trie t: no node has two links to it, and a node that     *)
(* leads somewhere is itself led to, or is the root.                       *)
(***************************************************************************)
Free(t, o) == t[o].prop = 0 /\ \A f \in Links : t[o].link[f] = 0
Hung(t, o) == \E q \in DOMAIN t : \E f \in Links : t[q].link[f] = o
OneParent(t) ==
  \A o, q \in DOMAIN t : \A f, g \in Links :
    t[o].link[f] # 0 /\ t[o].link[f] = t[q].link[g] => o = q /\ f = g
Rooted(t) ==
  \A o \in DOMAIN t \ {0} : (\E f \in Links : t[o].link[f] # 0) => Hung(t, o)
Tree(t) == OneParent(t) /\ Rooted(t)

NoDead(t) ==
  \A o \in DOMAIN t : \A f \in Links : t[o].link[f] # 0 => ~Free(t, t[o].link[f])

(***************************************************************************)
(* What prune_trie has settled when its path is p: S holds the nodes that  *)
(* were visited and kept.  They lead only to each other, and none of them  *)
(* to a node that should be gone.                                          *)
(***************************************************************************)
Closed(t, S) ==
  \A o \in S : \A f \in Links :
    t[o].link[f] # 0 => t[o].link[f] \in S /\ ~Free(t, t[o].link[f])
Passed(t, p, S) ==
  \A i \in DOMAIN p : p[i].at \notin S /\ \A j \in 1..3 :
    LET l == t[p[i].at].link[Order[j]] IN
    j < p[i].link /\ l # 0 => l \in S /\ ~Free(t, l)
Behind(t, p, S) ==
  \A o \in S : \E q \in DOMAIN t : \E f \in Links :
    /\ t[q].link[f] = o
    /\ \/ q \in S
       \/ \E i \in DOMAIN p : \E j \in 1..3 : j < p[i].link /\ q = p[i].at /\ f = Order[j]
Settles(t, p, S) ==
  /\ S \subseteq DOMAIN t /\ p[1].at = 0
  /\ Closed(t, S) /\ Passed(t, p, S) /\ Behind(t, p, S)
Settled(t, p) == \E S : Settles(t, p, S)

LEMMA OrderFacts ==
  /\ \A i \in 1..3 : Order[i] \in Links
  /\ \A i, j \in 1..3 : Order[i] = Order[j] => i = j
  /\ \A f \in Links : \E i \in 1..3 : Order[i] = f
<1>1. \A i \in 1..3 : i = 1 \/ i = 2 \/ i = 3
  OBVIOUS
<1>2. Order[1] = "children" /\ Order[2] = "left" /\ Order[3] = "right"
  BY DEF Order
<1>3. 1 \in 1..3 /\ 2 \in 1..3 /\ 3 \in 1..3
  OBVIOUS
<1> QED
  BY <1>1, <1>2, <1>3 DEF Links

-------------------------------------------------------------------------------
(***************************************************************************)
(* A set of numbers has a least element, and a bounded one a greatest.     *)
(***************************************************************************)
LEMMA LeastOf ==
  ASSUME NEW T \in SUBSET Nat, T # {} PROVE \E m \in T : \A y \in T : m <= y
<1>1. PICK m \in T : \A y \in T : ~(<<y, m>> \in OpToRel(<, Nat))
  BY NatLessThanWellFounded, WFMin
<1>2. \A y \in T : ~(y < m)
  BY <1>1 DEF OpToRel
<1> QED
  BY <1>2

LEMMA GreatestOf ==
  ASSUME NEW n \in Nat, NEW T \in SUBSET (0..n), T # {} PROVE \E m \in T : \A y \in T : y <= m
<1> DEFINE U == {n - y : y \in T}
<1>1. U \in SUBSET Nat /\ U # {}
  <2>1. \A y \in T : y \in 0..n
    OBVIOUS
  <2>2. \A y \in 0..n : n - y \in Nat
    OBVIOUS
  <2>3. PICK y \in T : TRUE
    OBVIOUS
  <2>4. n - y \in U
    OBVIOUS
  <2> QED
    BY <2>1, <2>2, <2>4
<1>2. PICK u \in U : \A v \in U : u <= v
  <2> HIDE DEF U
  <2> QED
    BY <1>1, LeastOf
<1>3. PICK m \in T : u = n - m
  OBVIOUS
<1>4. \A y \in T : n - m <= n - y
  BY <1>2, <1>3
<1>5. \A y \in T : y \in 0..n /\ m \in 0..n
  OBVIOUS
<1> QED
  BY <1>4, <1>5

-------------------------------------------------------------------------------
(***************************************************************************)
(* Pruning.                                                                *)
(***************************************************************************)
\* Links lead up, so that what is closed and holds the root holds all that is led from.
LEMMA AllSettled ==
  ASSUME NEW t, DOMAIN t \subseteq Nat, Rooted(t), NEW S, S \subseteq DOMAIN t, 0 \in S, Closed(t, S),
         \A o \in DOMAIN t : \A f \in Links : t[o].link[f] # 0 => o < t[o].link[f]
  PROVE  NoDead(t)
<1> DEFINE Leading == {o \in DOMAIN t \ S : \E f \in Links : t[o].link[f] # 0}
<1>1. Leading = {}
  <2> SUFFICES ASSUME Leading # {} PROVE FALSE
    OBVIOUS
  <2>1. PICK o \in Leading : \A q \in Leading : o <= q
    <3>1. Leading \in SUBSET Nat
      OBVIOUS
    <3> HIDE DEF Leading
    <3> QED
      BY <3>1, LeastOf
  <2>2. o \in DOMAIN t \ {0} /\ o \notin S /\ o \in Nat
    OBVIOUS
  <2>3. PICK q \in DOMAIN t, f \in Links : t[q].link[f] = o
    BY <2>2 DEF Rooted, Hung
  <2>4. q < o /\ q \in Nat
    BY <2>2, <2>3
  <2>5. q \in S
    <3>1. q \notin Leading
      BY <2>1, <2>2, <2>4
    <3> QED
      BY <2>2, <2>3, <3>1
  <2> QED
    BY <2>2, <2>3, <2>5 DEF Closed
<1>2. ASSUME NEW o \in DOMAIN t, NEW f \in Links, t[o].link[f] # 0 PROVE ~Free(t, t[o].link[f])
  <2>1. o \in S
    BY <1>1, <1>2
  <2> QED
    BY <2>1, <1>2 DEF Closed
<1> QED
  BY <1>2 DEF NoDead

\* Frames stand at different nodes.
LEMMA FramesDiffer ==
  ASSUME NEW t, DOMAIN t \subseteq Nat, NEW p, Leads(p, t), Len(p) \in Nat, DOMAIN p = 1..Len(p)
  PROVE  \A i, j \in DOMAIN p : p[i].at = p[j].at => i = j
<1> SUFFICES ASSUME NEW i \in DOMAIN p, NEW j \in DOMAIN p, i < j PROVE p[i].at # p[j].at
  <2>1. \A i, j \in DOMAIN p : i \in Nat /\ j \in Nat
    OBVIOUS
  <2> QED
    BY <2>1
<1>1. p[i].at \in Nat /\ p[j].at \in Nat /\ p[i].at < p[j].at
  BY DEF Leads
<1> QED
  BY <1>1

\* The pass begins at the root, and nothing is settled.
LEMMA SettleStart ==
  ASSUME NEW t PROVE Settled(t, <<[at |-> 0, link |-> 1]>>)
<1> DEFINE p == <<[at |-> 0, link |-> 1]>>
<1>1. Len(p) = 1 /\ DOMAIN p = {1} /\ p[1].at = 0 /\ p[1].link = 1
  OBVIOUS
<1> HIDE DEF p
<1>2. \A j \in 1..3 : ~(j < 1)
  OBVIOUS
<1>3. Settles(t, p, {})
  BY <1>1, <1>2 DEF Settles, Closed, Passed, Behind
<1> QED
  BY <1>3 DEF Settled, p

\* It goes down a link: no settled node is led to by a link still ahead.
LEMMA SettleDown ==
  ASSUME NEW t, DOMAIN t \subseteq Nat, OneParent(t), NEW p, NEW q, NEW k \in Nat, k > 0,
         Len(p) = k, DOMAIN p = 1..k, Leads(p, t), Settled(t, p),
         NEW i \in 1..3, p[k].link \in 1..4, i >= p[k].link, NEW l, l # 0, t[p[k].at].link[Order[i]] = l,
         \A j \in 1..3 : p[k].link <= j /\ j < i => t[p[k].at].link[Order[j]] = 0,
         DOMAIN q = 1..(k + 1), q[k + 1].at = l, q[k + 1].link = 1,
         q[k].at = p[k].at, q[k].link = i, \A j \in 1..(k - 1) : q[j] = p[j]
  PROVE  Settled(t, q)
<1>1. PICK S : Settles(t, p, S)
  BY DEF Settled
<1>2. \A j \in DOMAIN q : j = k + 1 \/ j = k \/ (j \in 1..(k - 1) /\ j \in DOMAIN p)
  OBVIOUS
<1>3. k \in DOMAIN p /\ p[k].at \in DOMAIN t
  BY DEF Leads
<1>4. l \notin S
  <2> SUFFICES ASSUME l \in S PROVE FALSE
    OBVIOUS
  <2>1. PICK o \in DOMAIN t, f \in Links :
          /\ t[o].link[f] = l
          /\ \/ o \in S
             \/ \E h \in DOMAIN p : \E j \in 1..3 : j < p[h].link /\ o = p[h].at /\ f = Order[j]
    BY <1>1 DEF Settles, Behind
  <2>2. o = p[k].at /\ f = Order[i]
    BY <2>1, <1>3, OrderFacts DEF OneParent
  <2>3. o \notin S
    BY <2>2, <1>1, <1>3 DEF Settles, Passed
  <2>4. PICK h \in DOMAIN p, j \in 1..3 : j < p[h].link /\ o = p[h].at /\ f = Order[j]
    BY <2>1, <2>3
  <2>5. \A g, m \in DOMAIN p : p[g].at = p[m].at => g = m
    BY FramesDiffer
  <2>6. h = k /\ j = i
    <3>1. p[h].at = p[k].at
      BY <2>2, <2>4
    <3>2. Order[j] = Order[i]
      BY <2>2, <2>4
    <3> QED
      BY <3>1, <3>2, <2>5, <1>3, OrderFacts
  <2> QED
    BY <2>4, <2>6
<1>5. q[1].at = 0
  <2>1. p[1].at = 0
    BY <1>1 DEF Settles
  <2> QED
    BY <2>1
<1>6. Passed(t, q, S)
  <2> SUFFICES ASSUME NEW h \in DOMAIN q
               PROVE  /\ q[h].at \notin S
                      /\ \A j \in 1..3 : LET m == t[q[h].at].link[Order[j]] IN
                           j < q[h].link /\ m # 0 => m \in S /\ ~Free(t, m)
    BY DEF Passed
  <2>1. CASE h = k + 1
    BY <2>1, <1>4
  <2>2. CASE h = k
    <3>1. p[k].at \notin S
      BY <1>1, <1>3 DEF Settles, Passed
    <3>2. ASSUME NEW j \in 1..3, j < i, t[p[k].at].link[Order[j]] # 0 PROVE j < p[k].link
      BY <3>2
    <3> QED
      BY <2>2, <3>1, <3>2, <1>1, <1>3 DEF Settles, Passed
  <2>3. CASE h \in 1..(k - 1) /\ h \in DOMAIN p
    BY <2>3, <1>1 DEF Settles, Passed
  <2> QED
    BY <2>1, <2>2, <2>3, <1>2
<1>7. Behind(t, q, S)
  <2> SUFFICES ASSUME NEW o \in S
               PROVE  \E m \in DOMAIN t : \E f \in Links :
                        /\ t[m].link[f] = o
                        /\ m \in S \/ \E h \in DOMAIN q : \E j \in 1..3 :
                                         j < q[h].link /\ m = q[h].at /\ f = Order[j]
    BY DEF Behind
  <2>1. PICK m \in DOMAIN t, f \in Links :
          /\ t[m].link[f] = o
          /\ m \in S \/ \E h \in DOMAIN p : \E j \in 1..3 : j < p[h].link /\ m = p[h].at /\ f = Order[j]
    BY <1>1 DEF Settles, Behind
  <2>2. ASSUME NEW h \in DOMAIN p, NEW j \in 1..3, j < p[h].link
        PROVE  h \in DOMAIN q /\ q[h].at = p[h].at /\ j < q[h].link
    <3>1. CASE h = k
      BY <2>2, <3>1
    <3>2. CASE h # k
      <4>1. h \in 1..(k - 1) /\ h \in DOMAIN q
        BY <3>2
      <4> QED
        BY <2>2, <4>1
    <3> QED
      BY <3>1, <3>2
  <2>3. CASE m \in S
    BY <2>1, <2>3
  <2>4. CASE m \notin S
    <3>1. PICK h \in DOMAIN p, j \in 1..3 : j < p[h].link /\ m = p[h].at /\ f = Order[j]
      BY <2>1, <2>4
    <3> QED
      BY <2>1, <2>2, <3>1
  <2> QED
    BY <2>3, <2>4
<1> QED
  BY <1>1, <1>5, <1>6, <1>7 DEF Settles, Settled

\* A node that leads nowhere but to settled nodes is settled itself, and kept when it is
\* needed; the pass goes on with the frame above.
LEMMA SettleUp ==
  ASSUME NEW t, DOMAIN t \subseteq Nat, NEW p, NEW q, NEW k \in Nat, k > 1,
         Len(p) = k, DOMAIN p = 1..k, Leads(p, t), Settled(t, p), ~Free(t, p[k].at), p[k].at # 0,
         \A j \in 1..3 : j < p[k].link \/ t[p[k].at].link[Order[j]] = 0, p[k - 1].link \in 1..3,
         DOMAIN q = 1..(k - 1), q[k - 1].at = p[k - 1].at, q[k - 1].link = p[k - 1].link + 1,
         \A j \in 1..(k - 2) : q[j] = p[j]
  PROVE  Settled(t, q)
<1>1. PICK S : Settles(t, p, S)
  BY DEF Settled
<1>2. PICK o : o = p[k].at
  OBVIOUS
<1>3. k \in DOMAIN p /\ k - 1 \in DOMAIN p /\ o \in DOMAIN t
  BY <1>2 DEF Leads
<1>4. t[p[k - 1].at].link[Order[p[k - 1].link]] = o
  BY <1>2, <1>3 DEF Leads
<1>5. \A i, j \in DOMAIN p : p[i].at = p[j].at => i = j
  BY FramesDiffer
<1>6. \A j \in DOMAIN q : j \in DOMAIN p /\ j # k /\ q[j].at = p[j].at /\ (j = k - 1 \/ q[j].link = p[j].link)
  <2> SUFFICES ASSUME NEW j \in DOMAIN q
               PROVE  j \in DOMAIN p /\ j # k /\ q[j].at = p[j].at /\ (j = k - 1 \/ q[j].link = p[j].link)
    OBVIOUS
  <2>1. j = k - 1 \/ j \in 1..(k - 2)
    OBVIOUS
  <2> QED
    BY <2>1
<1> DEFINE T == S \cup {o}
<1>7. T \subseteq DOMAIN t
  BY <1>1, <1>3 DEF Settles
<1>8. \A f \in Links : t[o].link[f] # 0 => t[o].link[f] \in S /\ ~Free(t, t[o].link[f])
  <2> SUFFICES ASSUME NEW f \in Links, t[o].link[f] # 0
               PROVE  t[o].link[f] \in S /\ ~Free(t, t[o].link[f])
    OBVIOUS
  <2>1. PICK j \in 1..3 : Order[j] = f
    BY OrderFacts
  <2>2. j < p[k].link
    BY <1>2, <2>1
  <2> QED
    BY <2>1, <2>2, <1>1, <1>2, <1>3 DEF Settles, Passed
<1>9. Closed(t, T)
  BY <1>1, <1>8 DEF Settles, Closed
<1>10. Passed(t, q, T)
  <2> SUFFICES ASSUME NEW h \in DOMAIN q
               PROVE  /\ q[h].at \notin T
                      /\ \A j \in 1..3 : LET m == t[q[h].at].link[Order[j]] IN
                           j < q[h].link /\ m # 0 => m \in T /\ ~Free(t, m)
    BY DEF Passed
  <2>1. h \in DOMAIN p /\ q[h].at = p[h].at /\ p[h].at # o /\ p[h].at \notin S
    BY <1>1, <1>2, <1>3, <1>5, <1>6 DEF Settles, Passed
  <2>2. ASSUME NEW j \in 1..3, j < q[h].link, t[q[h].at].link[Order[j]] # 0
        PROVE  t[q[h].at].link[Order[j]] \in T /\ ~Free(t, t[q[h].at].link[Order[j]])
    <3>1. CASE j < p[h].link
      BY <2>1, <2>2, <3>1, <1>1 DEF Settles, Passed
    <3>2. CASE ~(j < p[h].link)
      <4>1. h = k - 1
        BY <1>6, <2>2, <3>2
      <4>2. j = p[k - 1].link
        BY <2>2, <3>2, <4>1
      <4> QED
        BY <2>1, <4>1, <4>2, <1>2, <1>4
    <3> QED
      BY <3>1, <3>2
  <2> QED
    BY <2>1, <2>2
<1>11. Behind(t, q, T)
  <2> SUFFICES ASSUME NEW n \in T
               PROVE  \E m \in DOMAIN t : \E f \in Links :
                        /\ t[m].link[f] = n
                        /\ m \in T \/ \E h \in DOMAIN q : \E j \in 1..3 :
                                         j < q[h].link /\ m = q[h].at /\ f = Order[j]
    BY DEF Behind
  <2>1. CASE n = o
    <3>1. k - 1 \in DOMAIN q /\ p[k - 1].at \in DOMAIN t /\ Order[p[k - 1].link] \in Links
      BY <1>3, OrderFacts DEF Leads
    <3>2. p[k - 1].link < q[k - 1].link
      OBVIOUS
    <3> QED
      BY <2>1, <3>1, <3>2, <1>4
  <2>2. CASE n \in S
    <3>1. PICK m \in DOMAIN t, f \in Links :
            /\ t[m].link[f] = n
            /\ m \in S \/ \E h \in DOMAIN p : \E j \in 1..3 : j < p[h].link /\ m = p[h].at /\ f = Order[j]
      BY <2>2, <1>1 DEF Settles, Behind
    <3>2. CASE m \in S
      BY <3>1, <3>2
    <3>3. CASE m \notin S
      <4>1. PICK h \in DOMAIN p, j \in 1..3 : j < p[h].link /\ m = p[h].at /\ f = Order[j]
        BY <3>1, <3>3
      <4>2. CASE h = k
        BY <3>1, <4>1, <4>2, <1>2
      <4>3. CASE h # k
        <5>1. h \in DOMAIN q /\ q[h].at = p[h].at
          BY <4>3, <1>6
        <5>2. j < q[h].link
          <6>1. CASE h = k - 1
            BY <4>1, <6>1
          <6>2. CASE h # k - 1
            BY <4>1, <5>1, <6>2, <1>6
          <6> QED
            BY <6>1, <6>2
        <5> QED
          BY <3>1, <4>1, <5>1, <5>2
      <4> QED
        BY <4>2, <4>3
    <3> QED
      BY <3>2, <3>3
  <2> QED
    BY <2>1, <2>2
<1>12. q[1].at = 0
  <2>1. 1 \in DOMAIN q /\ p[1].at = 0
    BY <1>1 DEF Settles
  <2> QED
    BY <2>1, <1>6
<1>13. Settles(t, q, T)
  BY <1>7, <1>9, <1>10, <1>11, <1>12 DEF Settles
<1> QED
  BY <1>13 DEF Settled

\* When the pass is back at the root, everything is settled.
LEMMA SettleEnd ==
  ASSUME NEW t, DOMAIN t \subseteq Nat, Rooted(t), NEW p, DOMAIN p = {1}, p[1].at \in DOMAIN t, Settled(t, p),
         \A o \in DOMAIN t : \A f \in Links : t[o].link[f] # 0 => o < t[o].link[f],
         \A j \in 1..3 : j < p[1].link \/ t[p[1].at].link[Order[j]] = 0
  PROVE  NoDead(t)
<1>1. PICK S : Settles(t, p, S)
  BY DEF Settled
<1> DEFINE T == S \cup {0}
<1>2. p[1].at = 0 /\ 0 \in DOMAIN t /\ T \subseteq DOMAIN t
  BY <1>1 DEF Settles
<1>3. ASSUME NEW f \in Links, t[0].link[f] # 0 PROVE t[0].link[f] \in S /\ ~Free(t, t[0].link[f])
  <2>1. PICK j \in 1..3 : Order[j] = f
    BY OrderFacts
  <2>2. j < p[1].link
    BY <1>2, <1>3, <2>1
  <2> QED
    BY <2>1, <2>2, <1>1, <1>2, <1>3 DEF Settles, Passed
<1>4. Closed(t, T)
  BY <1>1, <1>3 DEF Settles, Closed
<1> HIDE DEF T
<1>5. 0 \in T
  BY DEF T
<1> QED
  BY <1>2, <1>4, <1>5, AllSettled

\* Only names differ.
SameLinks(old, new) ==
  DOMAIN new = DOMAIN old /\ \A o \in DOMAIN old : new[o].link = old[o].link /\ new[o].prop = old[o].prop

LEMMA ShapeKept ==
  ASSUME NEW old, NEW new, SameLinks(old, new), \A o \in DOMAIN old : \A f \in Links :
           old[o].link[f] # 0 => old[o].link[f] \in DOMAIN old
  PROVE  /\ Tree(old) => Tree(new)
         /\ NoDead(old) => NoDead(new)
         /\ \A o \in DOMAIN old : Free(old, o) => Free(new, o)
         /\ \A o \in DOMAIN old : Free(new, o) => Free(old, o)
         /\ \A p : (\A i \in DOMAIN p : p[i].at \in DOMAIN old) /\ Settled(old, p) => Settled(new, p)
         /\ \A o : Hung(new, o) => Hung(old, o)
<1>1. \A o \in DOMAIN old : Free(old, o) <=> Free(new, o)
  BY DEF SameLinks, Free
<1>2. \A o : Hung(old, o) <=> Hung(new, o)
  BY DEF SameLinks, Hung
<1>3. Tree(old) => Tree(new)
  BY <1>2 DEF Tree, OneParent, Rooted, SameLinks
<1>4. NoDead(old) => NoDead(new)
  BY <1>1 DEF NoDead, SameLinks
<1>5. ASSUME NEW p, \A i \in DOMAIN p : p[i].at \in DOMAIN old, Settled(old, p) PROVE Settled(new, p)
  <2>1. PICK S : Settles(old, p, S)
    BY <1>5 DEF Settled
  <2>2. S \subseteq DOMAIN old
    BY <2>1 DEF Settles
  <2>3. Closed(new, S)
    BY <2>1, <2>2, <1>1 DEF Settles, Closed, SameLinks
  <2>4. Passed(new, p, S)
    BY <2>1, <2>2, <1>1, <1>5 DEF Settles, Passed, SameLinks
  <2>5. Behind(new, p, S)
    BY <2>1, <2>2, <1>5 DEF Settles, Behind, SameLinks
  <2> QED
    BY <2>1, <2>2, <2>3, <2>4, <2>5 DEF Settles, Settled, SameLinks
<1> QED
  BY <1>1, <1>2, <1>3, <1>4, <1>5

\* The parent of a node that nothing hangs on clears its link: the node is let go.
Unlinks(old, new, q, f) ==
  /\ DOMAIN new = DOMAIN old
  /\ \A o \in DOMAIN old :
       /\ new[o].prop = old[o].prop /\ new[o].name = old[o].name
       /\ \A g \in Links : new[o].link[g] = IF o = q /\ g = f THEN 0 ELSE old[o].link[g]

LEMMA UnlinkTree ==
  ASSUME NEW old, NEW new, Tree(old), NEW q \in DOMAIN old, NEW f \in Links,
         Unlinks(old, new, q, f), Free(old, old[q].link[f])
  PROVE  Tree(new)
<1>1. OneParent(new)
  BY DEF Tree, OneParent, Unlinks
<1>2. ASSUME NEW o \in DOMAIN new \ {0}, NEW g \in Links, new[o].link[g] # 0 PROVE Hung(new, o)
  <2>1. o \in DOMAIN old /\ old[o].link[g] # 0
    BY <1>2 DEF Unlinks
  <2>2. PICK r \in DOMAIN old, h \in Links : old[r].link[h] = o
    BY <2>1, <1>2 DEF Tree, Rooted, Hung
  <2>3. ~(r = q /\ h = f)
    BY <2>1, <2>2 DEF Free
  <2> QED
    BY <2>2, <2>3 DEF Hung, Unlinks
<1> QED
  BY <1>1, <1>2 DEF Tree, Rooted

LEMMA SettleUnlinked ==
  ASSUME NEW old, NEW new, DOMAIN old \subseteq Nat, NEW p, NEW q, NEW k \in Nat, k > 1,
         Len(p) = k, DOMAIN p = 1..k, Leads(p, old), Settled(old, p), Free(old, p[k].at),
         p[k - 1].link \in 1..3, Unlinks(old, new, p[k - 1].at, Order[p[k - 1].link]),
         DOMAIN q = 1..(k - 1), q[k - 1].at = p[k - 1].at, q[k - 1].link = p[k - 1].link + 1,
         \A j \in 1..(k - 2) : q[j] = p[j]
  PROVE  Settled(new, q)
<1>1. PICK S : Settles(old, p, S)
  BY DEF Settled
<1>2. PICK f \in Links : f = Order[p[k - 1].link]
  BY OrderFacts
<1>o. PICK o : o = p[k - 1].at
  OBVIOUS
<1>3. k \in DOMAIN p /\ k - 1 \in DOMAIN p /\ 1 \in DOMAIN p /\ o \in DOMAIN old /\ p[k].at \in DOMAIN old
  BY <1>o DEF Leads
<1>4. \A i, j \in DOMAIN p : p[i].at = p[j].at => i = j
  BY FramesDiffer
<1>5. \A j \in DOMAIN q : j \in DOMAIN p /\ j # k /\ q[j].at = p[j].at /\ (j = k - 1 \/ q[j].link = p[j].link)
  <2> SUFFICES ASSUME NEW j \in DOMAIN q
               PROVE  j \in DOMAIN p /\ j # k /\ q[j].at = p[j].at /\ (j = k - 1 \/ q[j].link = p[j].link)
    OBVIOUS
  <2>1. j = k - 1 \/ j \in 1..(k - 2)
    OBVIOUS
  <2> QED
    BY <2>1
<1>6. S \subseteq DOMAIN old /\ o \notin S /\ 0 \notin S
  BY <1>1, <1>o, <1>3 DEF Settles, Passed
<1>7. \A n \in S : (Free(new, n) <=> Free(old, n)) /\ \A g \in Links : new[n].link[g] = old[n].link[g]
  BY <1>2, <1>o, <1>6 DEF Unlinks, Free
<1>8. Closed(new, S)
  BY <1>1, <1>7 DEF Settles, Closed
<1>9. Passed(new, q, S)
  <2> SUFFICES ASSUME NEW h \in DOMAIN q
               PROVE  /\ q[h].at \notin S
                      /\ \A j \in 1..3 : LET m == new[q[h].at].link[Order[j]] IN
                           j < q[h].link /\ m # 0 => m \in S /\ ~Free(new, m)
    BY DEF Passed
  <2>1. h \in DOMAIN p /\ q[h].at = p[h].at /\ p[h].at \notin S /\ p[h].at \in DOMAIN old
    BY <1>1, <1>5 DEF Settles, Passed, Leads
  <2>2. ASSUME NEW j \in 1..3, j < q[h].link, new[q[h].at].link[Order[j]] # 0
        PROVE  new[q[h].at].link[Order[j]] \in S /\ ~Free(new, new[q[h].at].link[Order[j]])
    <3>1. ~(h = k - 1 /\ j = p[k - 1].link)
      BY <2>1, <2>2, <1>2, <1>o, <1>3 DEF Unlinks
    <3>2. j < p[h].link
      BY <2>2, <3>1, <1>5
    <3>3. Order[j] \in Links /\ new[p[h].at].link[Order[j]] = old[p[h].at].link[Order[j]]
      <4>1. Order[j] \in Links /\ new[p[h].at].link[Order[j]] # 0
        BY <2>1, <2>2, OrderFacts
      <4> QED
        BY <4>1, <2>1 DEF Unlinks
    <3>4. old[p[h].at].link[Order[j]] \in S /\ ~Free(old, old[p[h].at].link[Order[j]])
      BY <2>1, <2>2, <3>2, <3>3, <1>1 DEF Settles, Passed
    <3> QED
      BY <2>1, <3>3, <3>4, <1>7
  <2> QED
    BY <2>1, <2>2
<1>10. Behind(new, q, S)
  <2> SUFFICES ASSUME NEW n \in S
               PROVE  \E m \in DOMAIN new : \E g \in Links :
                        /\ new[m].link[g] = n
                        /\ m \in S \/ \E h \in DOMAIN q : \E j \in 1..3 :
                                         j < q[h].link /\ m = q[h].at /\ g = Order[j]
    BY DEF Behind
  <2>1. PICK m \in DOMAIN old, g \in Links :
          /\ old[m].link[g] = n
          /\ m \in S \/ \E h \in DOMAIN p : \E j \in 1..3 : j < p[h].link /\ m = p[h].at /\ g = Order[j]
    BY <1>1 DEF Settles, Behind
  <2>2. DOMAIN new = DOMAIN old /\ n # 0
    BY <1>6 DEF Unlinks
  <2>3. CASE m \in S
    BY <2>1, <2>2, <2>3, <1>7
  <2>4. CASE m \notin S
    <3>1. PICK h \in DOMAIN p, j \in 1..3 : j < p[h].link /\ m = p[h].at /\ g = Order[j]
      BY <2>1, <2>4
    <3>2. h # k
      BY <2>1, <2>2, <3>1 DEF Free
    <3>3. h \in DOMAIN q /\ q[h].at = p[h].at
      BY <3>2, <1>5
    <3>4. j < q[h].link
      <4>1. CASE h = k - 1
        BY <3>1, <4>1
      <4>2. CASE h # k - 1
        BY <3>1, <3>3, <4>2, <1>5
      <4> QED
        BY <4>1, <4>2
    <3>5. ~(m = o /\ g = f)
      <4> SUFFICES ASSUME m = o, g = f PROVE FALSE
        OBVIOUS
      <4>1. h = k - 1
        BY <3>1, <1>o, <1>3, <1>4
      <4>2. Order[j] = Order[p[k - 1].link]
        BY <3>1, <1>2
      <4>3. j = p[k - 1].link
        BY <4>2, OrderFacts
      <4> QED
        BY <3>1, <4>1, <4>3
    <3>6. new[m].link[g] = n
      BY <2>1, <3>5, <1>2, <1>o DEF Unlinks
    <3> QED
      BY <2>2, <3>1, <3>3, <3>4, <3>6
  <2> QED
    BY <2>3, <2>4
<1>11. q[1].at = 0
  <2>1. 1 \in DOMAIN q /\ p[1].at = 0
    BY <1>1 DEF Settles
  <2> QED
    BY <2>1, <1>5
<1> QED
  BY <1>6, <1>8, <1>9, <1>10, <1>11 DEF Settles, Settled, Unlinks

-------------------------------------------------------------------------------
(***************************************************************************)
(* A call hangs a new node on a link that was null.                        *)
(***************************************************************************)
Extends(old, new, r) ==
  /\ r \notin DOMAIN old /\ DOMAIN new = DOMAIN old \cup {r}
  /\ \A o \in DOMAIN old : new[o] = old[o]
  /\ \A f \in Links : new[r].link[f] = 0

LEMMA ExtendTree ==
  ASSUME NEW old, NEW new, NEW r, Extends(old, new, r), 0 \in DOMAIN old, Tree(old)
  PROVE  Tree(new) /\ \A o : o # 0 => (Hung(new, o) <=> Hung(old, o))
<1>1. \A o : o # 0 => (Hung(new, o) <=> Hung(old, o))
  BY DEF Extends, Hung
<1>2. OneParent(new)
  BY DEF Extends, Tree, OneParent
<1>3. Rooted(new)
  BY <1>1 DEF Extends, Tree, Rooted
<1> QED
  BY <1>1, <1>2, <1>3 DEF Tree

Hangs(old, new, q, f, l) ==
  /\ DOMAIN new = DOMAIN old
  /\ \A o \in DOMAIN old :
       /\ new[o].prop = old[o].prop /\ new[o].name = old[o].name
       /\ \A g \in Links : new[o].link[g] = IF o = q /\ g = f THEN l ELSE old[o].link[g]

LEMMA HangTree ==
  ASSUME NEW old, NEW new, NEW q \in DOMAIN old, NEW f \in Links, NEW l, Hangs(old, new, q, f, l),
         Tree(old), l # 0, ~Hung(old, l), q = 0 \/ Hung(old, q), old[q].link[f] = 0
  PROVE  Tree(new) /\ Hung(new, l) /\ \A o : o # 0 /\ Hung(old, o) => Hung(new, o)
<1>1. Hung(new, l)
  BY DEF Hangs, Hung
<1>2. ASSUME NEW o, o # 0, Hung(old, o) PROVE Hung(new, o)
  <2>1. PICK r \in DOMAIN old, g \in Links : old[r].link[g] = o
    BY <1>2 DEF Hung
  <2>2. ~(r = q /\ g = f)
    BY <1>2, <2>1
  <2> QED
    BY <2>1, <2>2 DEF Hangs, Hung
<1>3. \A o \in DOMAIN old : \A g \in Links : old[o].link[g] # l
  BY DEF Hung
<1>4. OneParent(new)
  BY <1>3 DEF Hangs, Tree, OneParent
<1>5. Rooted(new)
  BY <1>2 DEF Hangs, Tree, Rooted
<1> QED
  BY <1>1, <1>2, <1>4, <1>5 DEF Tree

-------------------------------------------------------------------------------
(***************************************************************************)
(* What a call may rely on about the shape of the trie: x is its record.   *)
(***************************************************************************)
Pruned(x) ==
  /\ x.pc \in {"descend", "sibling", "new_node", "link"} => x.cur = 0 \/ Hung(node, x.cur)
  /\ x.pc \in {"new_node", "link"} => node[x.cur].link[x.way] = 0
  /\ x.pc = "link" => ~Hung(node, x.fresh)
  /\ x.pc \in Pruning => Settled(node, x.path)
  /\ x.pc \in {"prune_header", "prune_unlink"} => Free(node, x.path[Len(x.path)].at)
  /\ x.pc = "done" /\ x.op = "remove" => NoDead(node)

Clean == ret = "removed" => NoDead(node) /\ \A w \in Writers : wr[w] = Idle

Shape == Tree(node) /\ Clean /\ \A w \in Writers : Pruned(wr[w])

LEMMA IdlePruned == Pruned(Idle) /\ Pruned(Idle)'
  BY DEF Pruned, Idle, Pruning

LEMMA Calling ==
  ASSUME Inv, Shape, NEW w \in Writers, wr[w].pc # "idle"
  PROVE  ret # "removed" /\ Tree(node) /\ Pruned(wr[w])
  BY DEF Shape, Clean, Idle

LEMMA ShapeStep ==
  ASSUME Inv, NEW w \in Writers, wr[w].pc # "idle", NEW c, wr' = [wr EXCEPT ![w] = c],
         Tree(node)', Pruned(c)', ret' = "removed" => c = Idle /\ NoDead(node)'
  PROVE  Shape'
<1>1. \A v \in Writers : wr'[v] = IF v = w THEN c ELSE Idle
  BY Alone DEF Inv
<1>2. \A v \in Writers : Pruned(wr[v])'
  <2>1. Pruned(Idle)'
    BY IdlePruned
  <2>2. SUFFICES ASSUME NEW v \in Writers PROVE Pruned(wr[v])'
    OBVIOUS
  <2>3. Pruned(wr[v])' = Pruned(IF v = w THEN c ELSE Idle)'
    BY <1>1 DEF Pruned
  <2> QED
    BY <2>1, <2>3
<1>3. Clean'
  BY <1>1 DEF Clean
<1> QED
  BY <1>2, <1>3 DEF Shape

\* A step of a call that stores nothing in the nodes.
LEMMA ShapeMoves ==
  ASSUME Inv, Shape, NEW w \in Writers, wr[w].pc # "idle", node' = node, NEW c, Become(w, c), Pruned(c)
  PROVE  Shape'
<1>1. Pruned(c)' /\ Tree(node)'
  BY DEF Pruned, Shape
<1>2. ret' # "removed" /\ wr' = [wr EXCEPT ![w] = c]
  BY Calling DEF Become
<1> QED
  BY <1>1, <1>2, ShapeStep

LEMMA ShapeReturns ==
  ASSUME Inv, Shape, NEW w \in Writers, wr[w].pc # "idle", node' = node, NEW is, Return(w, is),
         is = "removed" => NoDead(node)
  PROVE  Shape'
<1>1. Pruned(Idle)' /\ Tree(node)'
  BY IdlePruned DEF Shape
<1> QED
  BY <1>1, ShapeStep DEF Return

LEMMA ShapeRequest ==
  ASSUME Inv, Shape, NEW w \in Writers, Request(w) PROVE Shape'
<1>1. PICK op, key, val : Begin(w, op, key, val)
  BY DEF Request, upsert, remove_with_prune
<1>2. PICK c : c = [Idle EXCEPT !.pc = "descend", !.op = op, !.key = key, !.val = val]
  OBVIOUS
<1>3. c.pc = "descend" /\ c.cur = 0
  BY <1>2 DEF Idle
<1>4. wr' = [wr EXCEPT ![w] = c] /\ node' = node /\ ret' = "pending"
  BY <1>1, <1>2 DEF Begin, area
<1>5. Pruned(c)'
  BY <1>3 DEF Pruned, Pruning
<1>6. ASSUME NEW v \in Writers PROVE Pruned(wr[v])'
  <2>1. CASE v = w
    <3>1. wr'[v] = c
      BY <2>1, <1>4 DEF Inv
    <3> QED
      BY <3>1, <1>5 DEF Pruned
  <2>2. CASE v # w
    <3>1. wr'[v] = wr[v]
      BY <2>2, <1>4
    <3>2. Pruned(wr[v])
      BY DEF Shape
    <3> QED
      BY <3>1, <3>2, <1>4 DEF Pruned
  <2> QED
    BY <2>1, <2>2
<1> QED
  BY <1>4, <1>6 DEF Shape, Clean

\* The walks, and the allocations: they store nothing in the nodes.
LEMMA ShapeWalks ==
  ASSUME Inv, Shape, NEW w \in Writers, Follow(w) \/ Match(w) PROVE Shape'
<1>1. PICK x \in CallRecord : x = wr[w]
  BY DEF Inv, Walker
<1>2. x.pc # "idle" /\ Pruned(x)
  BY <1>1, Calling DEF Follow, Walking, Match
<1>3. CASE Follow(w)
  <2>1. PICK c : c = [x EXCEPT !.pc = "sibling", !.cur = LinkOf(w)]
    OBVIOUS
  <2>2. c.pc = "sibling" /\ c.cur = LinkOf(w)
    BY <2>1 DEF CallRecord
  <2>3. x.cur \in DOMAIN node /\ Way(w) \in Links
    BY <1>1, <1>3, Walks DEF Follow
  <2>4. Hung(node, c.cur)
    BY <2>2, <2>3, <1>1 DEF LinkOf, Hung
  <2>5. Pruned(c)
    BY <2>2, <2>4 DEF Pruned, Pruning
  <2>6. Become(w, c) /\ node' = node
    BY <2>1, <1>1, <1>3 DEF Follow, area
  <2> QED
    BY <2>5, <2>6, <1>1, <1>2, ShapeMoves
<1>4. CASE Match(w)
  <2>1. PICK c : c = [x EXCEPT !.pc = "descend", !.depth = @ + 1]
    OBVIOUS
  <2>2. c.pc = "descend" /\ c.cur = x.cur /\ x.pc = "sibling"
    BY <2>1, <1>1, <1>4 DEF CallRecord, Match
  <2>3. Pruned(c)
    BY <2>2, <1>2 DEF Pruned, Pruning
  <2>4. Become(w, c) /\ node' = node
    BY <2>1, <1>1, <1>4 DEF Match, area
  <2> QED
    BY <2>3, <2>4, <1>1, <1>2, ShapeMoves
<1> QED
  BY <1>3, <1>4

LEMMA ShapeAllocates ==
  ASSUME Inv, Shape, NEW w \in Writers, wr[w].pc # "idle", NEW size, NEW c, Allocate(w, size, c),
         \A room : Pruned([c EXCEPT !.room = room])
  PROVE  Shape'
  BY ShapeMoves, ShapeReturns DEF Allocate, area

LEMMA ShapeAllocations ==
  ASSUME Inv, Shape, NEW w \in Writers, AllocNode(w) \/ AllocInfo(w) \/ AllocLong(w) PROVE Shape'
<1>1. PICK x \in CallRecord : x = wr[w]
  BY DEF Inv, Walker
<1>2. x.pc # "idle" /\ Pruned(x)
  BY <1>1, Calling DEF AllocNode, Walking, AllocInfo, Arrived, AllocLong
<1>3. CASE AllocNode(w)
  <2>1. PICK way : way = Way(w)
    OBVIOUS
  <2>2. PICK c : c = [x EXCEPT !.pc = "new_node", !.way = way]
    OBVIOUS
  <2>3. node[x.cur].link[way] = 0 /\ x.pc \in {"descend", "sibling"}
    BY <2>1, <1>1, <1>3 DEF AllocNode, LinkOf, Walking
  <2>4. ASSUME NEW room PROVE Pruned([c EXCEPT !.room = room])
    <3>1. PICK d : d = [c EXCEPT !.room = room]
      OBVIOUS
    <3>2. d.pc = "new_node" /\ d.cur = x.cur /\ d.way = way
      BY <3>1, <2>2 DEF CallRecord
    <3> QED
      BY <3>1, <3>2, <2>3, <1>2 DEF Pruned, Pruning
  <2>5. Allocate(w, NodeSize(Target(wr[w])), c)
    BY <2>1, <2>2, <1>1, <1>3 DEF AllocNode
  <2> QED
    BY <2>4, <2>5, <1>1, <1>2, ShapeAllocates
<1>4. CASE AllocInfo(w) \/ AllocLong(w)
  <2>p. PICK pc \in {"new_info", "new_long"} : \E size : Allocate(w, size, [x EXCEPT !.pc = pc])
    BY <1>1, <1>4 DEF AllocInfo, AllocLong
  <2>1. PICK size : Allocate(w, size, [x EXCEPT !.pc = pc])
    BY <2>p
  <2>2. PICK c : c = [x EXCEPT !.pc = pc]
    OBVIOUS
  <2>3. ASSUME NEW room PROVE Pruned([c EXCEPT !.room = room])
    <3>1. PICK d : d = [c EXCEPT !.room = room]
      OBVIOUS
    <3>2. d.pc = pc
      BY <3>1, <2>2 DEF CallRecord
    <3> QED
      BY <3>1, <3>2, <2>1 DEF Pruned, Pruning
  <2> QED
    BY <2>1, <2>2, <2>3, <1>1, <1>2, ShapeAllocates
<1> QED
  BY <1>3, <1>4

LEMMA ShapeEnds ==
  ASSUME Inv, Shape, NEW w \in Writers, Miss(w) \/ NoSlot(w) \/ Done(w) \/ Kill(w) PROVE Shape'
<1>1. CASE Miss(w) \/ NoSlot(w) \/ Kill(w)
  <2>1. wr[w].pc # "idle" /\ node' = node
    BY <1>1 DEF Miss, Walking, NoSlot, Arrived, Kill, area
  <2>2. PICK is \in {"absent", "killed"} : Return(w, is)
    BY <1>1 DEF Miss, NoSlot, Kill
  <2> QED
    BY <2>1, <2>2, ShapeReturns
<1>2. CASE Done(w)
  <2>1. wr[w].pc = "done" /\ node' = node
    BY <1>2 DEF Done, area
  <2>2. wr[w] \in CallRecord /\ Stands(wr[w]) /\ Pruned(wr[w])
    BY <2>1, Alone, Calling
  <2>3. wr[w].op # "upsert" => NoDead(node)
    BY <2>1, <2>2 DEF CallRecord, Stands, Pruned
  <2>4. PICK is : is = IF wr[w].op = "upsert" THEN "ok" ELSE "removed"
    OBVIOUS
  <2>5. Return(w, is)
    BY <2>4, <1>2 DEF Done
  <2> QED
    BY <2>1, <2>3, <2>4, <2>5, ShapeReturns
<1> QED
  BY <1>1, <1>2

LEMMA ShapeNewNode ==
  ASSUME Inv, Shape, NEW w \in Writers, new_trie_node(w) PROVE Shape'
<1>1. PICK x \in CallRecord : x = wr[w]
  BY DEF Inv, Walker
<1>2. x.pc = "new_node" /\ Pruned(x) /\ Stands(x) /\ Allocated(x) /\ Tree(node)
  BY <1>1, Calling, Alone DEF new_trie_node
<1>3. PICK r : r = x.room
  OBVIOUS
<1>4. r = bytes_used /\ x.cur \in DOMAIN node
  BY <1>2, <1>3 DEF Allocated, Stands
<1>5. PICK n : n = [ZeroNode EXCEPT !.name = Target(wr[w])]
  OBVIOUS
<1>6. \A f \in Links : n.link[f] = 0
  BY <1>5 DEF ZeroNode, Links
<1>7. node' = Put(node, r, n)
  BY <1>1, <1>3, <1>5 DEF new_trie_node
<1>8. r \notin DOMAIN node /\ r # 0 /\ 0 \in DOMAIN node
  <2>1. \A o \in DOMAIN node : o \in Nat /\ o < r
    BY <1>4, Below DEF Inv
  <2>2. 0 \in DOMAIN node
    BY DEF Inv, AreaType
  <2> QED
    BY <2>1, <2>2
<1>9. PICK old, new : old = node /\ new = node'
  OBVIOUS
<1>10. Extends(old, new, r)
  BY <1>6, <1>7, <1>8, <1>9 DEF Put, Extends
<1>11. Tree(new) /\ \A o : o # 0 => (Hung(new, o) <=> Hung(old, o))
  BY <1>2, <1>8, <1>9, <1>10, ExtendTree
<1>12. ~Hung(old, r)
  BY <1>8, <1>9 DEF Hung, Inv, LinksLead
<1>13. PICK c : c = [x EXCEPT !.pc = "link", !.fresh = r, !.room = 0]
  OBVIOUS
<1>14. c.pc = "link" /\ c.fresh = r /\ c.cur = x.cur /\ c.way = x.way
  BY <1>13 DEF CallRecord
<1>15. new[x.cur] = old[x.cur]
  BY <1>4, <1>9, <1>10 DEF Extends
<1>16. Pruned(c)'
  BY <1>2, <1>8, <1>9, <1>11, <1>12, <1>14, <1>15 DEF Pruned, Pruning
<1>17. wr' = [wr EXCEPT ![w] = c] /\ ret' # "removed"
  BY <1>1, <1>2, <1>3, <1>13, Calling DEF new_trie_node, Become
<1> QED
  BY <1>1, <1>2, <1>9, <1>11, <1>16, <1>17, ShapeStep

LEMMA ShapeLinkNode ==
  ASSUME Inv, Shape, NEW w \in Writers, LinkNode(w) PROVE Shape'
<1>1. PICK x \in CallRecord : x = wr[w]
  BY DEF Inv, Walker
<1>2. x.pc = "link" /\ Pruned(x) /\ Stands(x) /\ Allocated(x) /\ Tree(node)
  BY <1>1, Calling, Alone DEF LinkNode
<1>3. PICK q \in DOMAIN node, f \in Links, l \in DOMAIN node : q = x.cur /\ f = x.way /\ l = x.fresh /\ q < l
  BY <1>2 DEF Stands, Allocated, CallRecord
<1>4. node' = [node EXCEPT ![q].link[f] = l]
  BY <1>1, <1>3 DEF LinkNode
<1>5. PICK old, new : old = node /\ new = node'
  OBVIOUS
<1>6. \A o \in DOMAIN node : node[o] \in Node
  BY Typed DEF Inv
<1>7. Hangs(old, new, q, f, l)
  BY <1>4, <1>5, <1>6 DEF Hangs, Node
<1>8. l # 0
  <2>1. q \in Nat /\ l \in Nat
    BY Typed DEF Inv
  <2> QED
    BY <2>1, <1>3
<1>9. Tree(new) /\ Hung(new, l)
  BY <1>2, <1>3, <1>5, <1>7, <1>8, HangTree DEF Pruned
<1>10. PICK c : c = [x EXCEPT !.pc = "descend", !.cur = x.fresh, !.depth = @ + 1, !.fresh = 0, !.way = "children"]
  OBVIOUS
<1>11. c.pc = "descend" /\ c.cur = l
  BY <1>3, <1>10 DEF CallRecord
<1>12. Pruned(c)'
  BY <1>5, <1>9, <1>11 DEF Pruned, Pruning
<1>13. wr' = [wr EXCEPT ![w] = c] /\ ret' # "removed"
  BY <1>1, <1>2, <1>10, Calling DEF LinkNode, Become
<1> QED
  BY <1>1, <1>2, <1>5, <1>9, <1>12, <1>13, ShapeStep

\* The prop_infos, which the shape does not depend on.
LEMMA ShapeInfo ==
  ASSUME Inv, Shape, NEW w \in Writers,
         update(w) \/ new_prop_info(w) \/ new_prop_info_long(w) \/ Wipe(w)
  PROVE  Shape'
<1>1. PICK x \in CallRecord : x = wr[w]
  BY DEF Inv, Walker
<1>2. x.pc # "idle" /\ node' = node
  BY <1>1 DEF update, Arrived, new_prop_info, new_prop_info_long, Wipe
<1>3. CASE update(w)
  <2>1. CASE Return(w, "too_long")
    BY <2>1, <1>1, <1>2, ShapeReturns
  <2>2. CASE Become(w, [x EXCEPT !.pc = "done"])
    <3>1. PICK c : c = [x EXCEPT !.pc = "done"]
      OBVIOUS
    <3>2. c.pc = "done" /\ c.op = "upsert"
      BY <3>1, <1>1, <1>3 DEF update, CallRecord
    <3>3. Pruned(c)
      BY <3>2 DEF Pruned, Pruning
    <3> QED
      BY <2>2, <3>1, <3>3, <1>1, <1>2, ShapeMoves
  <2> QED
    BY <2>1, <2>2, <1>1, <1>3 DEF update
<1>4. CASE new_prop_info(w)
  <2>1. PICK pc \in {"alloc_long", "publish"} : Become(w, [x EXCEPT !.pc = pc, !.fresh = x.room, !.room = 0])
    BY <1>1, <1>4 DEF new_prop_info
  <2>2. PICK c : c = [x EXCEPT !.pc = pc, !.fresh = x.room, !.room = 0]
    OBVIOUS
  <2>3. c.pc = pc
    BY <2>2 DEF CallRecord
  <2>4. Pruned(c)
    BY <2>3 DEF Pruned, Pruning
  <2> QED
    BY <2>1, <2>2, <2>4, <1>1, <1>2, ShapeMoves
<1>5. CASE new_prop_info_long(w)
  <2>1. PICK c : c = [x EXCEPT !.pc = "publish", !.room = 0]
    OBVIOUS
  <2>2. c.pc = "publish" /\ Become(w, c)
    BY <2>1, <1>1, <1>5 DEF CallRecord, new_prop_info_long
  <2>3. Pruned(c)
    BY <2>2 DEF Pruned, Pruning
  <2> QED
    BY <2>2, <2>3, <1>1, <1>2, ShapeMoves
<1>6. CASE Wipe(w)
  <2>1. PICK p : p = <<[at |-> 0, link |-> 1]>>
    OBVIOUS
  <2>2. PICK c : c = [x EXCEPT !.pc = "prune", !.fresh = 0, !.cur = 0, !.depth = 0, !.path = p]
    OBVIOUS
  <2>3. c.pc = "prune" /\ c.path = p
    BY <2>2 DEF CallRecord
  <2>4. Settled(node, p)
    BY <2>1, SettleStart
  <2>5. Pruned(c)
    BY <2>3, <2>4 DEF Pruned, Pruning
  <2>6. Become(w, c)
    BY <2>1, <2>2, <1>1, <1>6 DEF Wipe
  <2> QED
    BY <2>5, <2>6, <1>1, <1>2, ShapeMoves
<1> QED
  BY <1>3, <1>4, <1>5, <1>6

LEMMA ShapeSetProp ==
  ASSUME Inv, Shape, NEW w \in Writers, Publish(w) \/ Detach(w) PROVE Shape'
<1>1. PICK x \in CallRecord : x = wr[w]
  BY DEF Inv, Walker
<1>2. x.pc # "idle" /\ x.cur \in DOMAIN node /\ Tree(node) /\ ret # "removed"
  <2>1. x.pc # "idle"
    BY <1>1 DEF Publish, Detach, Arrived
  <2> QED
    BY <2>1, <1>1, Alone, Calling DEF Stands
<1>3. PICK p : node' = [node EXCEPT ![x.cur].prop = p]
  BY <1>1 DEF Publish, Detach
<1>p. PICK pc \in {"done", "wipe"} : \E fresh :
        /\ wr' = [wr EXCEPT ![w] = [x EXCEPT !.pc = pc, !.fresh = fresh]] /\ ret' = ret
        /\ pc = "done" => x.op = "upsert"
  <2>1. CASE Publish(w)
    <3>1. [x EXCEPT !.pc = "done", !.fresh = x.fresh] = [x EXCEPT !.pc = "done"]
      BY DEF CallRecord
    <3>2. x.op = "upsert"
      BY <1>1, <1>2, <2>1, Alone DEF Stands, Publish
    <3> QED
      BY <2>1, <3>1, <3>2, <1>1 DEF Publish, Become
  <2>2. CASE Detach(w)
    BY <2>2, <1>1 DEF Detach, Become
  <2> QED
    BY <2>1, <2>2
<1>4. PICK fresh :
        /\ wr' = [wr EXCEPT ![w] = [x EXCEPT !.pc = pc, !.fresh = fresh]] /\ ret' = ret
        /\ pc = "done" => x.op = "upsert"
  BY <1>p
<1>5. PICK c : c = [x EXCEPT !.pc = pc, !.fresh = fresh]
  OBVIOUS
<1>6. c.pc = pc /\ c.op = x.op
  BY <1>5 DEF CallRecord
<1>7. Pruned(c)'
  BY <1>4, <1>6 DEF Pruned, Pruning
<1>8. PICK old, new : old = node /\ new = node'
  OBVIOUS
<1>9. DOMAIN new = DOMAIN old /\ \A o \in DOMAIN old : new[o].link = old[o].link
  <2>1. \A o \in DOMAIN node : node[o] \in Node
    BY Typed DEF Inv
  <2> QED
    BY <2>1, <1>3, <1>8 DEF Node
<1>10. Tree(new)
  BY <1>2, <1>8, <1>9 DEF Tree, OneParent, Rooted, Hung
<1> QED
  BY <1>1, <1>2, <1>4, <1>5, <1>7, <1>8, <1>10, ShapeStep

LEMMA ShapePruneInto ==
  ASSUME Inv, Shape, NEW w \in Writers, PruneInto(w) PROVE Shape'
<1>1. PICK x \in CallRecord : x = wr[w]
  BY DEF Inv, Walker
<1>2. wr[w].pc \in Pruning /\ wr[w].pc = "prune"
  BY DEF PruneInto, Visiting, Pruning
<1>3. PICK p \in Seq(Visit), k \in Nat : p = x.path /\ k = Len(p) /\ k > 0 /\ DOMAIN p = 1..k
  BY <1>1, <1>2, Visits
<1>4. Leads(p, node) /\ Settled(node, p) /\ OneParent(node) /\ Frame(w) = p[k] /\ p[k].link \in 1..4
  <2>1. Frame(w) = p[k] /\ p[k].link \in 1..4
    BY <1>1, <1>2, <1>3, Visits DEF Frame
  <2> QED
    BY <2>1, <1>1, <1>2, <1>3, Visits, Calling DEF Path, Pruned, Tree
<1>5. PICK i \in 1..3 : i = FirstAhead(Frame(w)) /\ i \in Ahead(Frame(w)) /\ \A j \in Ahead(Frame(w)) : i <= j
  BY <1>4, FirstIsAhead DEF PruneInto, Visiting
<1>6. PICK l : l = node[p[k].at].link[Order[i]]
  OBVIOUS
<1>7. l # 0 /\ i >= p[k].link
  BY <1>4, <1>5, <1>6 DEF Ahead
<1>8. l \in Offset
  <2>1. Order[i] \in Links /\ p[k].at \in DOMAIN node
    BY <1>3, <1>4, OrderFacts DEF Leads
  <2> QED
    BY <2>1, <1>6, Typed DEF Inv
<1>9. \A j \in 1..3 : p[k].link <= j /\ j < i => node[p[k].at].link[Order[j]] = 0
  <2> SUFFICES ASSUME NEW j \in 1..3, p[k].link <= j, j < i, node[p[k].at].link[Order[j]] # 0 PROVE FALSE
    OBVIOUS
  <2>1. j \in p[k].link..3
    BY <1>4
  <2>2. j \in Ahead(Frame(w))
    BY <2>1, <1>4 DEF Ahead
  <2> QED
    BY <2>2, <1>5
<1>10. PICK q : q = Down(p, l, i)
  OBVIOUS
<1>11. /\ DOMAIN q = 1..(k + 1) /\ q[k + 1].at = l /\ q[k + 1].link = 1
       /\ q[k].at = p[k].at /\ q[k].link = i /\ \A j \in 1..(k - 1) : q[j] = p[j]
  <2>1. Len(p) > 0
    BY <1>3
  <2>2. IsDown(q, p, l, i)
    BY <2>1, <1>8, <1>10, Deeper
  <2>3. PICK n : n = Len(p)
    OBVIOUS
  <2>4. n = k
    BY <2>3, <1>3
  <2>5. /\ DOMAIN q = 1..(n + 1)
        /\ q[n + 1] = [at |-> l, link |-> 1] /\ q[n] = [at |-> p[n].at, link |-> i]
        /\ \A j \in 1..(n - 1) : q[j] = p[j]
    BY <2>2, <2>3 DEF IsDown
  <2> QED
    BY <2>4, <2>5
<1>12. Settled(node, q)
  <2>1. PICK t : t = node
    OBVIOUS
  <2>2. DOMAIN t \subseteq Nat
    BY <2>1, Typed DEF Inv
  <2>3. OneParent(t) /\ Leads(p, t) /\ Settled(t, p) /\ t[p[k].at].link[Order[i]] = l
    BY <2>1, <1>4, <1>6
  <2>4. \A j \in 1..3 : p[k].link <= j /\ j < i => t[p[k].at].link[Order[j]] = 0
    BY <2>1, <1>9
  <2>5. Len(p) = k /\ DOMAIN p = 1..k /\ k > 0
    BY <1>3
  <2>6. Settled(t, q)
    BY <2>2, <2>3, <2>4, <2>5, <1>4, <1>7, <1>11, SettleDown
  <2> QED
    BY <2>1, <2>6
<1>13. PICK c : c = [x EXCEPT !.path = q]
  OBVIOUS
<1>14. c.pc = "prune" /\ c.path = q
  BY <1>1, <1>2, <1>13 DEF CallRecord
<1>15. Pruned(c)
  BY <1>12, <1>14 DEF Pruned, Pruning
<1>16. Become(w, c) /\ node' = node
  BY <1>1, <1>3, <1>4, <1>5, <1>6, <1>10, <1>13 DEF PruneInto, FirstAhead, Down, area
<1> QED
  BY <1>2, <1>15, <1>16, ShapeMoves

LEMMA ShapePruneKeep ==
  ASSUME Inv, Shape, NEW w \in Writers, PruneKeep(w) PROVE Shape'
<1>1. PICK x \in CallRecord : x = wr[w]
  BY DEF Inv, Walker
<1>2. wr[w].pc \in Pruning /\ wr[w].pc = "prune" /\ node' = node
  BY DEF PruneKeep, Visited, Pruning, area
<1>3. PICK p \in Seq(Visit), k \in Nat : p = x.path /\ k = Len(p) /\ k > 0
  BY <1>1, <1>2, Visits
<1>k. k = 1 \/ k > 1
  <2>1. k > 0
    BY <1>3
  <2> QED
    BY <2>1
<1>d. DOMAIN p = 1..k
  BY <1>1, <1>2, <1>3, Visits
<1>4. /\ Leads(p, node) /\ Settled(node, p) /\ Tree(node)
      /\ Frame(w) = p[k] /\ p[k].link \in 1..4 /\ p[k].at \in DOMAIN node
  <2>1. Frame(w) = p[k] /\ p[k].link \in 1..4 /\ p[k].at \in DOMAIN node
    BY <1>1, <1>2, <1>3, Visits DEF Frame
  <2> QED
    BY <2>1, <1>1, <1>2, <1>3, Visits, Calling DEF Path, Pruned
<1>5. \A j \in 1..3 : j < p[k].link \/ node[p[k].at].link[Order[j]] = 0
  <2> SUFFICES ASSUME NEW j \in 1..3, ~(j < p[k].link), node[p[k].at].link[Order[j]] # 0 PROVE FALSE
    OBVIOUS
  <2>1. j \in p[k].link..3
    BY <1>4
  <2> QED
    BY <2>1, <1>4 DEF Ahead, Visited, PruneKeep
<1>6. ~Free(node, p[k].at)
  BY <1>4 DEF PruneKeep, Redundant, Free
<1>7. PICK t : t = node
  OBVIOUS
<1>8. /\ DOMAIN t \subseteq Nat /\ Rooted(t)
      /\ \A o \in DOMAIN t : \A f \in Links : t[o].link[f] # 0 => o < t[o].link[f]
  BY <1>4, <1>7, Typed DEF Inv, LinksLead, Tree
<1>9. CASE k = 1
  <2>1. NoDead(t)
    <3>1. DOMAIN p = {1}
      BY <1>d, <1>9
    <3> QED
      BY <3>1, <1>4, <1>5, <1>7, <1>8, <1>9, SettleEnd
  <2>2. SubSeq(p, 1, k - 1) = <<>>
    BY <1>3, <1>9, SubSeqEmpty
  <2>3. PICK c : c = [[x EXCEPT !.pc = "done"] EXCEPT !.path = <<>>]
    OBVIOUS
  <2>4. Become(w, c)
    BY <2>2, <2>3, <1>1, <1>3, <1>9 DEF PruneKeep, Back
  <2>5. c.pc = "done"
    BY <2>3 DEF CallRecord
  <2>6. Pruned(c)
    BY <2>1, <2>5, <1>7 DEF Pruned, Pruning
  <2> QED
    BY <2>4, <2>6, <1>1, <1>2, ShapeMoves
<1>10. CASE k > 1
  <2>1. k - 1 \in DOMAIN p /\ k \in DOMAIN p /\ 1 \in DOMAIN p /\ k - 1 < k /\ 1 < k
    BY <1>d, <1>10
  <2>2. p[k - 1].link \in 1..3 /\ p[1].at < p[k].at /\ p[1].at = 0 /\ p[k].at # 0
    <3>1. p[1].at = 0
      BY <1>4 DEF Settled, Settles
    <3>2. p[k - 1].link \in 1..3 /\ p[1].at < p[k].at
      BY <2>1, <1>4 DEF Leads
    <3> QED
      BY <3>1, <3>2
  <2>3. PICK q : q = Up(p)
    OBVIOUS
  <2>4. /\ DOMAIN q = 1..(k - 1) /\ q[k - 1].at = p[k - 1].at /\ q[k - 1].link = p[k - 1].link + 1
        /\ \A j \in 1..(k - 2) : q[j] = p[j]
        /\ SubSeq(p, 1, k - 1) # <<>>
    <3>1. Len(p) > 1 /\ p[Len(p) - 1].link \in 1..3
      BY <2>2, <1>3, <1>10
    <3>2. IsUp(q, p) /\ SubSeq(p, 1, Len(p) - 1) # <<>>
      BY <3>1, <2>3, Shallower
    <3> QED
      BY <3>2, <1>3 DEF IsUp
  <2>5. Settled(t, q)
    <3>1. Len(p) = k
      BY <1>3
    <3>2. Leads(p, t) /\ Settled(t, p) /\ ~Free(t, p[k].at)
      BY <1>4, <1>6, <1>7
    <3>3. \A j \in 1..3 : j < p[k].link \/ t[p[k].at].link[Order[j]] = 0
      BY <1>5, <1>7
    <3> QED
      BY <3>1, <3>2, <3>3, <2>2, <2>4, <1>d, <1>8, <1>10, SettleUp
  <2>6. PICK c : c = [[x EXCEPT !.pc = "prune"] EXCEPT !.path = q]
    OBVIOUS
  <2>7. Become(w, c)
    <3>1. PICK pc : pc = IF Len(wr[w].path) = 1 THEN "done" ELSE "prune"
      OBVIOUS
    <3>2. pc = "prune"
      <4>1. Len(wr[w].path) = k /\ k # 1
        BY <1>1, <1>3, <1>10
      <4> QED
        BY <3>1, <4>1
    <3>3. Back(w, [x EXCEPT !.pc = pc])
      BY <3>1, <1>1 DEF PruneKeep
    <3> QED
      BY <3>2, <3>3, <2>3, <2>4, <2>6, <1>1, <1>3, BackUp
  <2>8. c.pc = "prune" /\ c.path = q
    BY <2>6 DEF CallRecord
  <2>9. Pruned(c)
    BY <2>5, <2>8, <1>7 DEF Pruned, Pruning
  <2> QED
    BY <2>7, <2>9, <1>1, <1>2, ShapeMoves
<1> QED
  BY <1>k, <1>9, <1>10

\* What is wiped leads nowhere: the shape stays.
LEMMA ShapePruneWipeName ==
  ASSUME Inv, Shape, NEW w \in Writers, PruneWipeName(w) PROVE Shape'
<1>1. PICK x \in CallRecord : x = wr[w]
  BY DEF Inv, Walker
<1>2. wr[w].pc \in Pruning /\ wr[w].pc = "prune"
  BY DEF PruneWipeName, Visited, Pruning
<1>3. PICK p \in Seq(Visit), o \in DOMAIN node : p = x.path /\ o = Frame(w).at /\ o = p[Len(p)].at
  BY <1>1, <1>2, Visits DEF Frame
<1>4. Leads(p, node) /\ Settled(node, p) /\ Tree(node) /\ Free(node, o)
  <2>1. Free(node, o)
    BY <1>3 DEF PruneWipeName, Redundant, Free
  <2> QED
    BY <2>1, <1>1, <1>2, <1>3, Visits, Calling DEF Path, Pruned
<1>5. PICK old, new : old = node /\ new = node'
  OBVIOUS
<1>6. SameLinks(old, new)
  <2>1. \A q \in DOMAIN node : node[q] \in Node
    BY Typed DEF Inv
  <2>2. node' = [node EXCEPT ![o].name.text = 0]
    BY <1>3 DEF PruneWipeName
  <2> QED
    BY <2>1, <2>2, <1>5 DEF SameLinks, Node
<1>7. Tree(new) /\ Free(new, o) /\ Settled(new, p)
  <2>1. \A q \in DOMAIN old : \A f \in Links : old[q].link[f] # 0 => old[q].link[f] \in DOMAIN old
    BY <1>5 DEF Inv, LinksLead
  <2>2. \A i \in DOMAIN p : p[i].at \in DOMAIN old
    BY <1>4, <1>5 DEF Leads
  <2> QED
    BY <2>1, <2>2, <1>3, <1>4, <1>5, <1>6, ShapeKept
<1>8. PICK c : c = [x EXCEPT !.pc = "prune_header"]
  OBVIOUS
<1>9. c.pc = "prune_header" /\ c.path = p
  BY <1>3, <1>8 DEF CallRecord
<1>10. Pruned(c)'
  BY <1>3, <1>5, <1>7, <1>9 DEF Pruned, Pruning
<1>11. wr' = [wr EXCEPT ![w] = c] /\ ret' # "removed"
  BY <1>1, <1>2, <1>8, Calling DEF PruneWipeName, Become
<1> QED
  BY <1>2, <1>5, <1>7, <1>10, <1>11, ShapeStep

LEMMA ShapePruneWipeHeader ==
  ASSUME Inv, Shape, NEW w \in Writers, PruneWipeHeader(w) PROVE Shape'
<1>1. PICK x \in CallRecord : x = wr[w]
  BY DEF Inv, Walker
<1>2. wr[w].pc \in Pruning /\ wr[w].pc = "prune_header"
  BY DEF PruneWipeHeader, Pruning
<1>3. PICK p \in Seq(Visit), k \in Nat, o \in DOMAIN node :
        p = x.path /\ k = Len(p) /\ k > 0 /\ o = Frame(w).at /\ o = p[k].at
  BY <1>1, <1>2, Visits DEF Frame
<1>k. k = 1 \/ k > 1
  <2>1. k > 0
    BY <1>3
  <2> QED
    BY <2>1
<1>d. DOMAIN p = 1..k
  BY <1>1, <1>2, <1>3, Visits
<1>4. Leads(p, node) /\ Settled(node, p) /\ Tree(node) /\ Free(node, o)
  BY <1>1, <1>2, <1>3, Visits, Calling DEF Path, Pruned
<1>5. PICK old, new : old = node /\ new = node'
  OBVIOUS
<1>6. SameLinks(old, new)
  <2>1. node[o] \in Node /\ ZeroNode.link = [f \in Links |-> 0] /\ ZeroNode.prop = 0
    BY Typed DEF Inv, ZeroNode
  <2>2. node[o].link = [f \in Links |-> 0]
    BY <2>1, <1>4 DEF Free, Node
  <2>3. node' = [node EXCEPT ![o] = ZeroNode]
    BY <1>3 DEF PruneWipeHeader
  <2> QED
    BY <2>1, <2>2, <2>3, <1>4, <1>5 DEF SameLinks, Free
<1>7. \A q \in DOMAIN old : \A f \in Links : old[q].link[f] # 0 => old[q].link[f] \in DOMAIN old /\ q < old[q].link[f]
  BY <1>5 DEF Inv, LinksLead
<1>8. Tree(new) /\ Free(new, o) /\ Settled(new, p) /\ (NoDead(old) => NoDead(new))
  <2>1. \A i \in DOMAIN p : p[i].at \in DOMAIN old
    BY <1>4, <1>5 DEF Leads
  <2> QED
    BY <2>1, <1>3, <1>4, <1>5, <1>6, <1>7, ShapeKept
<1>9. ret' # "removed"
  BY <1>2, Calling DEF PruneWipeHeader, Become, Back
<1>10. CASE k = 1
  <2>1. NoDead(old)
    <3>1. DOMAIN p = {1}
      BY <1>d, <1>10
    <3>2. DOMAIN old \subseteq Nat /\ Rooted(old)
      BY <1>4, <1>5, Typed DEF Inv, Tree
    <3>3. \A j \in 1..3 : old[p[1].at].link[Order[j]] = 0
      BY <1>3, <1>4, <1>5, <1>10, OrderFacts DEF Free
    <3> QED
      BY <3>1, <3>2, <3>3, <1>3, <1>4, <1>5, <1>7, <1>10, SettleEnd
  <2>2. PICK c : c = [[x EXCEPT !.pc = "done"] EXCEPT !.path = <<>>]
    OBVIOUS
  <2>3. Become(w, c)
    <3>1. Len(wr[w].path) = 1 /\ SubSeq(wr[w].path, 1, Len(wr[w].path) - 1) = <<>>
      BY <1>1, <1>3, <1>10, SubSeqEmpty
    <3>2. Back(w, [wr[w] EXCEPT !.pc = "done"])
      BY <3>1 DEF PruneWipeHeader
    <3> QED
      BY <3>1, <3>2, <2>2, <1>1 DEF Back
  <2>4. c.pc = "done"
    BY <2>2 DEF CallRecord
  <2>5. Pruned(c)'
    BY <2>1, <2>4, <1>5, <1>8 DEF Pruned, Pruning
  <2>6. wr' = [wr EXCEPT ![w] = c]
    BY <2>3 DEF Become
  <2> QED
    BY <2>5, <2>6, <1>2, <1>5, <1>8, <1>9, ShapeStep
<1>11. CASE k > 1
  <2>1. PICK c : c = [x EXCEPT !.pc = "prune_unlink"]
    OBVIOUS
  <2>2. Become(w, c)
    <3>1. Len(wr[w].path) # 1
      BY <1>1, <1>3, <1>11
    <3> QED
      BY <3>1, <2>1, <1>1 DEF PruneWipeHeader
  <2>3. c.pc = "prune_unlink" /\ c.path = p
    BY <2>1, <1>3 DEF CallRecord
  <2>4. Pruned(c)'
    BY <2>3, <1>3, <1>5, <1>8 DEF Pruned, Pruning
  <2>5. wr' = [wr EXCEPT ![w] = c]
    BY <2>2 DEF Become
  <2> QED
    BY <2>4, <2>5, <1>2, <1>5, <1>8, <1>9, ShapeStep
<1> QED
  BY <1>k, <1>10, <1>11

LEMMA ShapePruneUnlink ==
  ASSUME Inv, Shape, NEW w \in Writers, PruneUnlink(w) PROVE Shape'
<1>1. PICK x \in CallRecord : x = wr[w]
  BY DEF Inv, Walker
<1>2. wr[w].pc \in Pruning /\ wr[w].pc = "prune_unlink"
  BY DEF PruneUnlink, Pruning
<1>3. PICK p \in Seq(Visit), k \in Nat : p = x.path /\ k = Len(p)
  BY <1>1, <1>2, Visits
<1>d. DOMAIN p = 1..k
  BY <1>1, <1>2, <1>3, Visits
<1>4. Leads(p, node) /\ Settled(node, p) /\ Tree(node) /\ Free(node, p[k].at) /\ k > 1
  BY <1>1, <1>2, <1>3, Visits, Calling DEF Path, Pruned
<1>5. k - 1 \in DOMAIN p /\ k \in DOMAIN p /\ k - 1 < k
  BY <1>d, <1>4
<1>6. p[k - 1].link \in 1..3 /\ p[k - 1].at \in DOMAIN node
      /\ node[p[k - 1].at].link[Order[p[k - 1].link]] = p[k].at
  BY <1>4, <1>5 DEF Leads
<1>7. PICK o \in DOMAIN node, f \in Links : o = p[k - 1].at /\ f = Order[p[k - 1].link]
  BY <1>6, OrderFacts
<1>8. PICK old, new : old = node /\ new = node'
  OBVIOUS
<1>9. Unlinks(old, new, o, f)
  <2>1. \A q \in DOMAIN node : node[q] \in Node
    BY Typed DEF Inv
  <2>2. node' = [node EXCEPT ![o].link[f] = 0]
    BY <1>1, <1>3, <1>7 DEF PruneUnlink, Above
  <2> QED
    BY <2>1, <2>2, <1>8 DEF Unlinks, Node
<1>10. Tree(new)
  BY <1>4, <1>6, <1>7, <1>8, <1>9, UnlinkTree
<1>11. PICK q : q = Up(p)
  OBVIOUS
<1>12. /\ DOMAIN q = 1..(k - 1) /\ q[k - 1].at = p[k - 1].at /\ q[k - 1].link = p[k - 1].link + 1
       /\ \A j \in 1..(k - 2) : q[j] = p[j]
       /\ SubSeq(p, 1, k - 1) # <<>>
  <2>1. Len(p) > 1 /\ p[Len(p) - 1].link \in 1..3
    BY <1>3, <1>4, <1>6
  <2>2. IsUp(q, p) /\ SubSeq(p, 1, Len(p) - 1) # <<>>
    BY <2>1, <1>11, Shallower
  <2> QED
    BY <2>2, <1>3 DEF IsUp
<1>13. Settled(new, q)
  <2>1. DOMAIN old \subseteq Nat
    BY <1>8, Typed DEF Inv
  <2> QED
    BY <2>1, <1>d, <1>3, <1>4, <1>6, <1>7, <1>8, <1>9, <1>12, SettleUnlinked
<1>14. PICK c : c = [[x EXCEPT !.pc = "prune"] EXCEPT !.path = q]
  OBVIOUS
<1>15. wr' = [wr EXCEPT ![w] = c] /\ ret' # "removed"
  <2>1. Back(w, [x EXCEPT !.pc = "prune"])
    BY <1>1 DEF PruneUnlink
  <2>2. Become(w, c)
    BY <2>1, <1>1, <1>3, <1>11, <1>12, <1>14, BackUp
  <2> QED
    BY <2>2, <1>2, Calling DEF Become
<1>16. c.pc = "prune" /\ c.path = q
  BY <1>14 DEF CallRecord
<1>17. Pruned(c)'
  BY <1>8, <1>13, <1>16 DEF Pruned, Pruning
<1> QED
  BY <1>2, <1>8, <1>10, <1>15, <1>17, ShapeStep

LEMMA ShapeInit == Init => Shape
<1> SUFFICES ASSUME Init PROVE Shape
  OBVIOUS
<1>1. DOMAIN node = {0} /\ node[0] = ZeroNode /\ \A f \in Links : ZeroNode.link[f] = 0
  BY DEF Init, ZeroNode
<1>2. Tree(node)
  BY <1>1 DEF Tree, OneParent, Rooted
<1>3. \A w \in Writers : Pruned(wr[w])
  BY IdlePruned DEF Init
<1> QED
  BY <1>2, <1>3 DEF Init, Shape, Clean

LEMMA ShapeNext ==
  Inv /\ Shape /\ [Next]_vars => Shape'
<1> SUFFICES ASSUME Inv, Shape, [Next]_vars PROVE Shape'
  OBVIOUS
<1>1. ASSUME NEW w \in Writers, Request(w) \/ Call(w) PROVE Shape'
  <2>1. CASE Request(w)
    BY <2>1, ShapeRequest
  <2>2. CASE Follow(w) \/ Match(w) \/ AllocNode(w) \/ AllocInfo(w) \/ AllocLong(w)
    BY <2>2, ShapeWalks, ShapeAllocations
  <2>3. CASE Miss(w) \/ NoSlot(w) \/ Done(w)
    BY <2>3, ShapeEnds
  <2>4. CASE new_trie_node(w) \/ LinkNode(w)
    BY <2>4, ShapeNewNode, ShapeLinkNode
  <2>5. CASE update(w) \/ new_prop_info(w) \/ new_prop_info_long(w) \/ Wipe(w)
    BY <2>5, ShapeInfo
  <2>6. CASE Publish(w) \/ Detach(w)
    BY <2>6, ShapeSetProp
  <2>7. CASE PruneInto(w) \/ PruneKeep(w) \/ PruneWipeName(w) \/ PruneWipeHeader(w) \/ PruneUnlink(w)
    BY <2>7, ShapePruneInto, ShapePruneKeep, ShapePruneWipeName, ShapePruneWipeHeader, ShapePruneUnlink
  <2> QED
    BY <2>1, <2>2, <2>3, <2>4, <2>5, <2>6, <2>7, <1>1 DEF Call
<1>2. ASSUME NEW w \in Writers, Kill(w) PROVE Shape'
  BY <1>2, ShapeEnds
<1>3. CASE UNCHANGED <<node, wr, ret>>
  BY <1>3 DEF Shape, Clean, Pruned
<1> QED
  BY <1>1, <1>2, <1>3 DEF Next, vars, area

\* A remove that returned leaves no node that holds nothing and leads nowhere, not even
\* one that a killed writer or a full area left before (prune_trie).
THEOREM NoDeadNodeLeft == Spec => []RemoveLeavesNoDeadNode
<1>1. Inv /\ Shape => RemoveLeavesNoDeadNode
  BY DEF Shape, Clean, NoDead, Free, RemoveLeavesNoDeadNode, Redundant
<1>2. Inv /\ Shape /\ [Next]_vars => Inv' /\ Shape'
  BY NextInv, ShapeNext
<1> QED
  BY <1>1, <1>2, InitInv, ShapeInit, PTL DEF Spec

-------------------------------------------------------------------------------
(***************************************************************************)
(* The walk of a key down the trie t.  At a stop <<o, e, "descend">> the   *)
(* node o stands for the first e segments, at <<o, e, "sibling">> it is a  *)
(* node of the search tree in which the next one is looked for.            *)
(***************************************************************************)
Grounded(t) ==
  /\ 0 \in DOMAIN t /\ DOMAIN t \subseteq Offset
  /\ \A o \in DOMAIN t : /\ t[o].prop \in Offset
                         /\ \A f \in Links : t[o].link[f] # 0 => t[o].link[f] \in DOMAIN t /\ o < t[o].link[f]

Turn(t, key, o, e) == IF Before(key[e + 1], t[o].name) THEN "left" ELSE "right"

Forth(t, key, V, o, e) ==
  /\ <<o, e, "descend">> \in V /\ e < Len(key) /\ t[o].link["children"] # 0 =>
       <<t[o].link["children"], e, "sibling">> \in V
  /\ <<o, e, "sibling">> \in V /\ t[o].name = key[e + 1] => <<o, e + 1, "descend">> \in V
  /\ <<o, e, "sibling">> \in V /\ t[o].name # key[e + 1] /\ t[o].link[Turn(t, key, o, e)] # 0 =>
       <<t[o].link[Turn(t, key, o, e)], e, "sibling">> \in V
WalkClosed(t, key, V) == <<0, 0, "descend">> \in V /\ \A o, e : Forth(t, key, V, o, e)

On(t, key, o, e, m) == \A V : WalkClosed(t, key, V) => <<o, e, m>> \in V

LEMMA TrailSteps ==
  ASSUME NEW t, NEW key
  PROVE  /\ On(t, key, 0, 0, "descend")
         /\ \A o, e : On(t, key, o, e, "descend") /\ e < Len(key) /\ t[o].link["children"] # 0 =>
              On(t, key, t[o].link["children"], e, "sibling")
         /\ \A o, e : On(t, key, o, e, "sibling") /\ t[o].name = key[e + 1] => On(t, key, o, e + 1, "descend")
         /\ \A o, e : On(t, key, o, e, "sibling") /\ t[o].name # key[e + 1] /\ t[o].link[Turn(t, key, o, e)] # 0 =>
              On(t, key, t[o].link[Turn(t, key, o, e)], e, "sibling")
<1>1. On(t, key, 0, 0, "descend")
  BY DEF On, WalkClosed
<1>2. ASSUME NEW o, NEW e, On(t, key, o, e, "descend"), e < Len(key), t[o].link["children"] # 0
      PROVE  On(t, key, t[o].link["children"], e, "sibling")
  BY <1>2 DEF On, WalkClosed, Forth
<1>3. ASSUME NEW o, NEW e, On(t, key, o, e, "sibling"), t[o].name = key[e + 1]
      PROVE  On(t, key, o, e + 1, "descend")
  BY <1>3 DEF On, WalkClosed, Forth
<1>4. ASSUME NEW o, NEW e, On(t, key, o, e, "sibling"), t[o].name # key[e + 1],
             t[o].link[Turn(t, key, o, e)] # 0
      PROVE  On(t, key, t[o].link[Turn(t, key, o, e)], e, "sibling")
  BY <1>4 DEF On, WalkClosed, Forth
<1> QED
  BY <1>1, <1>2, <1>3, <1>4

\* Where a walk can stop.
Stops(t, key) ==
  {v \in (DOMAIN t) \X (0..Len(key)) \X {"descend", "sibling"} : v[3] = "sibling" => v[2] < Len(key) /\ v[1] # 0}

\* An induction along the walk.
LEMMA TrailInduction ==
  ASSUME NEW t, Grounded(t), NEW key, Len(key) \in Nat, NEW P,
         <<0, 0, "descend">> \in P,
         \A o \in DOMAIN t : \A e \in 0..Len(key) :
           /\ On(t, key, o, e, "descend") /\ <<o, e, "descend">> \in P
              /\ e < Len(key) /\ t[o].link["children"] # 0 => <<t[o].link["children"], e, "sibling">> \in P
           /\ On(t, key, o, e, "sibling") /\ <<o, e, "sibling">> \in P /\ o # 0
              /\ e < Len(key) /\ t[o].name = key[e + 1] => <<o, e + 1, "descend">> \in P
           /\ On(t, key, o, e, "sibling") /\ <<o, e, "sibling">> \in P /\ o # 0
              /\ e < Len(key) /\ t[o].name # key[e + 1] /\ t[o].link[Turn(t, key, o, e)] # 0 =>
                <<t[o].link[Turn(t, key, o, e)], e, "sibling">> \in P
  PROVE  \A o, e, m : On(t, key, o, e, m) =>
           /\ <<o, e, m>> \in P /\ o \in DOMAIN t /\ e \in 0..Len(key) /\ m \in {"descend", "sibling"}
           /\ m = "sibling" => e < Len(key) /\ o # 0
<1> DEFINE V == {v \in Stops(t, key) : v \in P /\ On(t, key, v[1], v[2], v[3])}
<1>1. ASSUME NEW o, NEW e, NEW m
      PROVE  <<o, e, m>> \in V <=>
               /\ <<o, e, m>> \in P /\ On(t, key, o, e, m)
               /\ o \in DOMAIN t /\ e \in 0..Len(key) /\ m \in {"descend", "sibling"}
               /\ m = "sibling" => e < Len(key) /\ o # 0
  BY DEF Stops
<1> HIDE DEF V
<1>2. <<0, 0, "descend">> \in V
  <2>1. 0 \in DOMAIN t /\ 0 \in 0..Len(key)
    BY DEF Grounded
  <2> QED
    BY <2>1, <1>1, TrailSteps
<1>3. ASSUME NEW o, NEW e PROVE Forth(t, key, V, o, e)
  <2>1. \A f \in Links : t[o].link[f] # 0 /\ o \in DOMAIN t => t[o].link[f] \in DOMAIN t
    BY DEF Grounded
  <2>2. "children" \in Links /\ Turn(t, key, o, e) \in Links
    BY DEF Links, Turn
  <2>3. ASSUME <<o, e, "descend">> \in V, e < Len(key), t[o].link["children"] # 0
        PROVE  <<t[o].link["children"], e, "sibling">> \in V
    <3>1. o \in DOMAIN t /\ e \in 0..Len(key) /\ On(t, key, o, e, "descend") /\ <<o, e, "descend">> \in P
      BY <2>3, <1>1
    <3>2. <<t[o].link["children"], e, "sibling">> \in P /\ t[o].link["children"] \in DOMAIN t
      BY <2>1, <2>2, <2>3, <3>1
    <3>3. On(t, key, t[o].link["children"], e, "sibling")
      BY <2>3, <3>1, TrailSteps
    <3> QED
      BY <2>3, <3>1, <3>2, <3>3, <1>1
  <2>4. ASSUME <<o, e, "sibling">> \in V
        PROVE  /\ o \in DOMAIN t /\ e \in 0..Len(key) /\ e < Len(key) /\ o # 0
               /\ On(t, key, o, e, "sibling") /\ <<o, e, "sibling">> \in P
    BY <2>4, <1>1
  <2>5. ASSUME <<o, e, "sibling">> \in V, t[o].name = key[e + 1] PROVE <<o, e + 1, "descend">> \in V
    <3>1. <<o, e + 1, "descend">> \in P /\ On(t, key, o, e + 1, "descend")
      BY <2>4, <2>5, TrailSteps
    <3>2. e + 1 \in 0..Len(key)
      BY <2>4, <2>5
    <3> QED
      BY <2>4, <2>5, <3>1, <3>2, <1>1
  <2>6. ASSUME <<o, e, "sibling">> \in V, t[o].name # key[e + 1], t[o].link[Turn(t, key, o, e)] # 0
        PROVE  <<t[o].link[Turn(t, key, o, e)], e, "sibling">> \in V
    <3>1. /\ <<t[o].link[Turn(t, key, o, e)], e, "sibling">> \in P
          /\ On(t, key, t[o].link[Turn(t, key, o, e)], e, "sibling")
      BY <2>4, <2>6, TrailSteps
    <3> QED
      BY <2>1, <2>2, <2>4, <2>6, <3>1, <1>1
  <2> QED
    BY <2>3, <2>5, <2>6 DEF Forth
<1>4. \A o, e, m : On(t, key, o, e, m) => <<o, e, m>> \in V
  BY <1>2, <1>3 DEF On, WalkClosed
<1> QED
  BY <1>1, <1>4

LEMMA TrailType ==
  ASSUME NEW t, Grounded(t), NEW key, Len(key) \in Nat, NEW o, NEW e, NEW m, On(t, key, o, e, m)
  PROVE  /\ o \in DOMAIN t /\ e \in 0..Len(key) /\ m \in {"descend", "sibling"}
         /\ m = "sibling" => e < Len(key) /\ o # 0
<1> DEFINE P == (DOMAIN t) \X (0..Len(key)) \X {"descend", "sibling"}
<1>1. 0 \in DOMAIN t /\ \A q \in DOMAIN t : \A f \in Links : t[q].link[f] # 0 => t[q].link[f] \in DOMAIN t
  BY DEF Grounded
<1>2. "children" \in Links /\ \A q, d : Turn(t, key, q, d) \in Links
  BY DEF Links, Turn
<1>3. \A q \in DOMAIN t : \A d \in 0..Len(key) : \A n \in {"descend", "sibling"} : <<q, d, n>> \in P
  OBVIOUS
<1> HIDE DEF P
<1>4. 0 \in 0..Len(key) /\ \A d \in 0..Len(key) : d < Len(key) => d + 1 \in 0..Len(key)
  OBVIOUS
<1> QED
  BY <1>1, <1>2, <1>3, <1>4, TrailInduction

\* Where a walk came from: the root, the stop one segment before, or the link it followed.
LEMMA TrailOrigin ==
  ASSUME NEW t, Grounded(t), NEW key, Len(key) \in Nat, NEW o, NEW e, NEW m, On(t, key, o, e, m)
  PROVE  /\ m = "descend" => \/ o = 0 /\ e = 0
                             \/ e > 0 /\ t[o].name = key[e] /\ On(t, key, o, e - 1, "sibling")
         /\ m = "sibling" => \E q \in DOMAIN t : \E f \in Links :
              /\ t[q].link[f] = o
              /\ \/ f = "children" /\ On(t, key, q, e, "descend")
                 \/ f = Turn(t, key, q, e) /\ t[q].name # key[e + 1] /\ On(t, key, q, e, "sibling")
<1> DEFINE Came(v) ==
      /\ v[3] = "descend" => \/ v[1] = 0 /\ v[2] = 0
                             \/ v[2] > 0 /\ t[v[1]].name = key[v[2]] /\ On(t, key, v[1], v[2] - 1, "sibling")
      /\ v[3] = "sibling" => \E q \in DOMAIN t : \E f \in Links :
              /\ t[q].link[f] = v[1]
              /\ \/ f = "children" /\ On(t, key, q, v[2], "descend")
                 \/ f = Turn(t, key, q, v[2]) /\ t[q].name # key[v[2] + 1] /\ On(t, key, q, v[2], "sibling")
      P == {v \in (DOMAIN t) \X (0..Len(key)) \X {"descend", "sibling"} : Came(v)}
<1>1. \A q \in DOMAIN t : \A d \in 0..Len(key) : \A n \in {"descend", "sibling"} :
        <<q, d, n>> \in P <=> Came(<<q, d, n>>)
  OBVIOUS
<1>2. 0 \in DOMAIN t /\ \A q \in DOMAIN t : \A f \in Links : t[q].link[f] # 0 => t[q].link[f] \in DOMAIN t
  BY DEF Grounded
<1>3. "children" \in Links /\ \A q, d : Turn(t, key, q, d) \in Links
  BY DEF Links, Turn
<1>4. 0 \in 0..Len(key) /\ \A d \in 0..Len(key) : d < Len(key) => d + 1 \in 0..Len(key)
  OBVIOUS
<1>5. <<0, 0, "descend">> \in P
  <2>1. Came(<<0, 0, "descend">>)
    OBVIOUS
  <2> HIDE DEF P, Came
  <2> QED
    BY <2>1, <1>1, <1>2, <1>4
<1>6. ASSUME NEW q \in DOMAIN t, NEW d \in 0..Len(key)
      PROVE  /\ On(t, key, q, d, "descend") /\ d < Len(key) /\ t[q].link["children"] # 0 =>
                  <<t[q].link["children"], d, "sibling">> \in P
             /\ On(t, key, q, d, "sibling") /\ d < Len(key) /\ t[q].name = key[d + 1] => <<q, d + 1, "descend">> \in P
             /\ On(t, key, q, d, "sibling") /\ t[q].name # key[d + 1] /\ t[q].link[Turn(t, key, q, d)] # 0 =>
                  <<t[q].link[Turn(t, key, q, d)], d, "sibling">> \in P
  <2>1. ASSUME On(t, key, q, d, "descend"), t[q].link["children"] # 0
        PROVE  <<t[q].link["children"], d, "sibling">> \in P
    <3>1. Came(<<t[q].link["children"], d, "sibling">>)
      BY <2>1, <1>3
    <3> HIDE DEF P, Came
    <3> QED
      BY <2>1, <3>1, <1>1, <1>2, <1>3
  <2>2. ASSUME On(t, key, q, d, "sibling"), d < Len(key), t[q].name = key[d + 1]
        PROVE  <<q, d + 1, "descend">> \in P
    <3>1. (d + 1) - 1 = d /\ d + 1 > 0
      OBVIOUS
    <3>2. Came(<<q, d + 1, "descend">>)
      BY <2>2, <3>1
    <3> HIDE DEF P, Came
    <3> QED
      BY <2>2, <3>2, <1>1, <1>4
  <2>3. ASSUME On(t, key, q, d, "sibling"), t[q].name # key[d + 1], t[q].link[Turn(t, key, q, d)] # 0
        PROVE  <<t[q].link[Turn(t, key, q, d)], d, "sibling">> \in P
    <3>1. Came(<<t[q].link[Turn(t, key, q, d)], d, "sibling">>)
      BY <2>3, <1>3
    <3> HIDE DEF P, Came
    <3> QED
      BY <2>3, <3>1, <1>1, <1>2, <1>3
  <2> QED
    BY <2>1, <2>2, <2>3
<1>7. <<o, e, m>> \in P
  <2> HIDE DEF P
  <2> QED
    BY <1>5, <1>6, TrailInduction
<1>8. Came(<<o, e, m>>)
  BY <1>7
<1> QED
  BY <1>8

\* Two keys that end at the same node are the same: what leads to a node tells its key.
LEMMA SameKey ==
  ASSUME NEW t, Grounded(t), OneParent(t), NEW k1 \in Seq(Segment), NEW k2 \in Seq(Segment), NEW o,
         On(t, k1, o, Len(k1), "descend"), On(t, k2, o, Len(k2), "descend")
  PROVE  k1 = k2
<1> DEFINE Alike(v) == \A d : On(t, k2, v[1], d, v[3]) => d = v[2] /\ \A i \in 1..d : k1[i] = k2[i]
           P == {v \in (DOMAIN t) \X (0..Len(k1)) \X {"descend", "sibling"} : Alike(v)}
<1>1. \A q \in DOMAIN t : \A e \in 0..Len(k1) : \A m \in {"descend", "sibling"} :
        <<q, e, m>> \in P <=> Alike(<<q, e, m>>)
  OBVIOUS
<1>2. 0 \in DOMAIN t /\ \A q \in DOMAIN t : \A f \in Links : t[q].link[f] # 0 => t[q].link[f] \in DOMAIN t
  BY DEF Grounded
<1>3. \A key, q, e : "children" \in Links /\ Turn(t, key, q, e) \in Links /\ Turn(t, key, q, e) # "children"
  BY DEF Links, Turn
<1>4. Len(k1) \in Nat /\ Len(k2) \in Nat
  OBVIOUS
<1>5. 0 \in 0..Len(k1) /\ \A d \in 0..Len(k1) : d < Len(k1) => d + 1 \in 0..Len(k1)
  BY <1>4
<1>6. <<0, 0, "descend">> \in P
  <2>1. ASSUME NEW d, On(t, k2, 0, d, "descend") PROVE d = 0
    <3>1. d = 0 \/ On(t, k2, 0, d - 1, "sibling")
      BY <2>1, <1>4, TrailOrigin
    <3> QED
      BY <3>1, <1>4, TrailType
  <2>2. Alike(<<0, 0, "descend">>)
    BY <2>1
  <2> HIDE DEF P, Alike
  <2> QED
    BY <2>2, <1>1, <1>2, <1>5
<1>7. ASSUME NEW q \in DOMAIN t, NEW e \in 0..Len(k1), On(t, k1, q, e, "descend"), <<q, e, "descend">> \in P,
             t[q].link["children"] # 0
      PROVE  <<t[q].link["children"], e, "sibling">> \in P
  <2>1. ASSUME NEW d, On(t, k2, t[q].link["children"], d, "sibling") PROVE On(t, k2, q, d, "descend")
    <3>1. PICK r \in DOMAIN t, f \in Links :
            /\ t[r].link[f] = t[q].link["children"]
            /\ \/ f = "children" /\ On(t, k2, r, d, "descend")
               \/ f = Turn(t, k2, r, d) /\ t[r].name # k2[d + 1] /\ On(t, k2, r, d, "sibling")
      BY <2>1, <1>4, TrailOrigin
    <3>2. r = q /\ f = "children"
      BY <3>1, <1>3, <1>7 DEF OneParent
    <3> QED
      BY <3>1, <3>2, <1>3
  <2>2. Alike(<<q, e, "descend">>)
    BY <1>7, <1>1
  <2>3. Alike(<<t[q].link["children"], e, "sibling">>)
    BY <2>1, <2>2
  <2> HIDE DEF P, Alike
  <2> QED
    BY <2>3, <1>1, <1>2, <1>3, <1>7
<1>8. ASSUME NEW q \in DOMAIN t, NEW e \in 0..Len(k1), <<q, e, "sibling">> \in P, q # 0,
             e < Len(k1), t[q].name = k1[e + 1]
      PROVE  <<q, e + 1, "descend">> \in P
  <2>1. Alike(<<q, e, "sibling">>)
    BY <1>8, <1>1
  <2>2. ASSUME NEW d, On(t, k2, q, d, "descend") PROVE d = e + 1 /\ \A i \in 1..d : k1[i] = k2[i]
    <3>1. d > 0 /\ t[q].name = k2[d] /\ On(t, k2, q, d - 1, "sibling")
      BY <2>2, <1>4, <1>8, TrailOrigin
    <3>2. d - 1 = e /\ \A i \in 1..(d - 1) : k1[i] = k2[i]
      BY <2>1, <3>1
    <3>3. d \in Nat
      BY <2>2, <1>4, TrailType
    <3>4. d = e + 1
      BY <3>2, <3>3
    <3>5. \A i \in 1..d : i \in 1..(d - 1) \/ i = d
      BY <3>3
    <3> QED
      BY <3>1, <3>2, <3>4, <3>5, <1>8
  <2>3. Alike(<<q, e + 1, "descend">>)
    BY <2>2
  <2> HIDE DEF P, Alike
  <2> QED
    BY <2>3, <1>1, <1>5, <1>8
<1>9. ASSUME NEW q \in DOMAIN t, NEW e \in 0..Len(k1), <<q, e, "sibling">> \in P,
             t[q].link[Turn(t, k1, q, e)] # 0
      PROVE  <<t[q].link[Turn(t, k1, q, e)], e, "sibling">> \in P
  <2>1. ASSUME NEW d, On(t, k2, t[q].link[Turn(t, k1, q, e)], d, "sibling") PROVE On(t, k2, q, d, "sibling")
    <3>1. PICK r \in DOMAIN t, f \in Links :
            /\ t[r].link[f] = t[q].link[Turn(t, k1, q, e)]
            /\ \/ f = "children" /\ On(t, k2, r, d, "descend")
               \/ f = Turn(t, k2, r, d) /\ t[r].name # k2[d + 1] /\ On(t, k2, r, d, "sibling")
      BY <2>1, <1>4, TrailOrigin
    <3>2. r = q /\ f = Turn(t, k1, q, e)
      BY <3>1, <1>3, <1>9 DEF OneParent
    <3> QED
      BY <3>1, <3>2, <1>3
  <2>2. Alike(<<q, e, "sibling">>)
    BY <1>9, <1>1
  <2>3. Alike(<<t[q].link[Turn(t, k1, q, e)], e, "sibling">>)
    BY <2>1, <2>2
  <2> HIDE DEF P, Alike
  <2> QED
    BY <2>3, <1>1, <1>2, <1>3, <1>9
<1>10. <<o, Len(k1), "descend">> \in P
  <2> HIDE DEF P
  <2> QED
    BY <1>4, <1>6, <1>7, <1>8, <1>9, TrailInduction
<1>11. Len(k1) = Len(k2) /\ \A i \in 1..Len(k2) : k1[i] = k2[i]
  BY <1>10
<1> QED
  BY <1>11

-------------------------------------------------------------------------------
(***************************************************************************)
(* What a walk finds.                                                      *)
(***************************************************************************)
Onward(t, key, walk, o, d) ==
  IF t[o].name = key[d]
  THEN IF d = Len(key) THEN t[o].prop
       ELSE IF t[o].link["children"] = 0 THEN 0 ELSE walk[t[o].link["children"]][d + 1]
  ELSE LET l == t[o].link[IF Before(key[d], t[o].name) THEN "left" ELSE "right"]
       IN  IF l = 0 THEN 0 ELSE walk[l][d]
Row(t, key, walk, o) == [d \in 1..Len(key) |-> Onward(t, key, walk, o, d)]
WalkOf(t, key) == CHOOSE walk : walk = [o \in DOMAIN t |-> [d \in 1..Len(key) |-> Onward(t, key, walk, o, d)]]
Found(t, key) == IF t[0].link["children"] = 0 THEN 0 ELSE WalkOf(t, key)[t[0].link["children"]][1]

LEMMA LookupIsFound == \A key : Lookup(key) = Found(node, key) /\ Lookup(key)' = Found(node', key)
  BY DEF Lookup, Found, WalkOf, Onward

\* The walk is defined from the end of the area down, as links lead up.
LEMMA WalkIsDefined ==
  ASSUME NEW t, Grounded(t), NEW key
  PROVE  \A o \in DOMAIN t : WalkOf(t, key)[o] = Row(t, key, WalkOf(t, key), o)
<1> DEFINE Good(f, n) == \A o \in DOMAIN t : o + n >= DataSize + 1 => f[o] = Row(t, key, f, o)
           T == {n \in Nat : ~ \E f : Good(f, n)}
<1>1. DataSize \in Nat /\ \A o \in DOMAIN t : o \in Nat /\ o <= DataSize
  BY DataSizeAssumption DEF Grounded, Offset
<1>2. ASSUME NEW f, NEW g, NEW o \in DOMAIN t, \A q \in DOMAIN t : o < q => f[q] = g[q]
      PROVE  Row(t, key, f, o) = Row(t, key, g, o)
  <2>1. ASSUME NEW l \in Links, t[o].link[l] # 0 PROVE f[t[o].link[l]] = g[t[o].link[l]]
    BY <2>1, <1>2 DEF Grounded
  <2>2. "children" \in Links /\ "left" \in Links /\ "right" \in Links
    BY DEF Links
  <2>3. \A d : Onward(t, key, f, o, d) = Onward(t, key, g, o, d)
    BY <2>1, <2>2 DEF Onward
  <2> QED
    BY <2>3 DEF Row
<1>3. T = {}
  <2> SUFFICES ASSUME T # {} PROVE FALSE
    OBVIOUS
  <2>1. PICK n \in T : \A y \in T : n <= y
    <3>1. T \in SUBSET Nat
      OBVIOUS
    <3> HIDE DEF T
    <3> QED
      BY <3>1, LeastOf
  <2>2. n \in Nat /\ ~ \E f : Good(f, n)
    OBVIOUS
  <2>3. n # 0
    <3> SUFFICES ASSUME n = 0 PROVE FALSE
      OBVIOUS
    <3>1. \A o \in DOMAIN t : ~(o + 0 >= DataSize + 1)
      BY <1>1
    <3>2. Good(0, n)
      BY <3>1
    <3> QED
      BY <2>2, <3>2
  <2>4. PICK m \in Nat : n = m + 1
    <3>1. n - 1 \in Nat /\ n = (n - 1) + 1
      BY <2>2, <2>3
    <3> QED
      BY <3>1
  <2>5. PICK f : Good(f, m)
    <3>1. m \notin T
      <4> HIDE DEF T
      <4> QED
        BY <2>1, <2>4
    <3> QED
      BY <3>1
  <2>6. PICK g : g = [o \in DOMAIN t |-> IF o + m >= DataSize + 1 THEN f[o] ELSE Row(t, key, f, o)]
    OBVIOUS
  <2>7. ASSUME NEW o \in DOMAIN t, o + n >= DataSize + 1 PROVE g[o] = Row(t, key, g, o)
    <3>1. \A q \in DOMAIN t : o < q => q + m >= DataSize + 1
      BY <2>2, <2>4, <2>7, <1>1
    <3>2. \A q \in DOMAIN t : o < q => f[q] = g[q]
      BY <3>1, <2>6
    <3>3. Row(t, key, f, o) = Row(t, key, g, o)
      BY <3>2, <1>2
    <3> QED
      BY <3>3, <2>5, <2>6
  <2> QED
    BY <2>2, <2>7
<1>4. PICK f : Good(f, DataSize + 1)
  <2>1. DataSize + 1 \in Nat /\ DataSize + 1 \notin T
    BY <1>1, <1>3
  <2> QED
    BY <2>1
<1>5. \A o \in DOMAIN t : f[o] = Row(t, key, f, o)
  <2>1. \A o \in DOMAIN t : o + (DataSize + 1) >= DataSize + 1
    BY <1>1
  <2> QED
    BY <2>1, <1>4
<1>6. PICK g : g = [o \in DOMAIN t |-> f[o]]
  OBVIOUS
<1>7. \A o \in DOMAIN t : g[o] = Row(t, key, g, o)
  BY <1>2, <1>5, <1>6
<1>8. g = [o \in DOMAIN t |-> [d \in 1..Len(key) |-> Onward(t, key, g, o, d)]]
  BY <1>6, <1>7 DEF Row
<1>9. WalkOf(t, key) = [o \in DOMAIN t |-> [d \in 1..Len(key) |-> Onward(t, key, WalkOf(t, key), o, d)]]
  BY <1>8 DEF WalkOf
<1> QED
  BY <1>9 DEF Row

\* What the rest of the walk finds is what the whole walk finds.
Rest(t, key, o, e, m) ==
  IF m = "sibling" THEN WalkOf(t, key)[o][e + 1]
  ELSE IF e = Len(key) THEN t[o].prop
  ELSE IF t[o].link["children"] = 0 THEN 0 ELSE WalkOf(t, key)[t[o].link["children"]][e + 1]

LEMMA RestSteps ==
  ASSUME NEW t, Grounded(t), NEW key, Len(key) \in Nat, NEW o \in DOMAIN t, NEW e \in 0..Len(key), e < Len(key)
  PROVE  /\ t[o].link["children"] # 0 =>
              Rest(t, key, t[o].link["children"], e, "sibling") = Rest(t, key, o, e, "descend")
         /\ t[o].name = key[e + 1] => Rest(t, key, o, e + 1, "descend") = Rest(t, key, o, e, "sibling")
         /\ t[o].name # key[e + 1] /\ t[o].link[Turn(t, key, o, e)] # 0 =>
              Rest(t, key, t[o].link[Turn(t, key, o, e)], e, "sibling") = Rest(t, key, o, e, "sibling")
         /\ t[o].name # key[e + 1] /\ t[o].link[Turn(t, key, o, e)] = 0 => Rest(t, key, o, e, "sibling") = 0
<1>1. PICK d \in 1..Len(key) : d = e + 1
  OBVIOUS
<1>2. WalkOf(t, key)[o][d] = Onward(t, key, WalkOf(t, key), o, d)
  <2>1. WalkOf(t, key)[o] = Row(t, key, WalkOf(t, key), o)
    BY WalkIsDefined
  <2> QED
    BY <2>1 DEF Row
<1>3. t[o].link["children"] # 0 =>
        Rest(t, key, t[o].link["children"], e, "sibling") = Rest(t, key, o, e, "descend")
  BY DEF Rest
<1>4. ASSUME t[o].name = key[e + 1] PROVE Rest(t, key, o, e + 1, "descend") = Rest(t, key, o, e, "sibling")
  <2>1. Rest(t, key, o, e, "sibling") = Onward(t, key, WalkOf(t, key), o, d)
    BY <1>1, <1>2 DEF Rest
  <2> QED
    BY <2>1, <1>1, <1>4 DEF Rest, Onward
<1>5. ASSUME t[o].name # key[e + 1]
      PROVE  Rest(t, key, o, e, "sibling") =
               IF t[o].link[Turn(t, key, o, e)] = 0 THEN 0
               ELSE WalkOf(t, key)[t[o].link[Turn(t, key, o, e)]][e + 1]
  BY <1>1, <1>2, <1>5 DEF Rest, Onward, Turn
<1> QED
  BY <1>3, <1>4, <1>5 DEF Rest

LEMMA RestIsFound ==
  ASSUME NEW t, Grounded(t), NEW key, Len(key) \in Nat, Len(key) > 0, NEW o, NEW e, NEW m, On(t, key, o, e, m)
  PROVE  Rest(t, key, o, e, m) = Found(t, key)
<1> DEFINE P == {v \in (DOMAIN t) \X (0..Len(key)) \X {"descend", "sibling"} :
                   Rest(t, key, v[1], v[2], v[3]) = Found(t, key)}
<1>1. \A q \in DOMAIN t : \A d \in 0..Len(key) : \A n \in {"descend", "sibling"} :
        <<q, d, n>> \in P <=> Rest(t, key, q, d, n) = Found(t, key)
  OBVIOUS
<1>2. 0 \in DOMAIN t /\ \A q \in DOMAIN t : \A f \in Links : t[q].link[f] # 0 => t[q].link[f] \in DOMAIN t
  BY DEF Grounded
<1>3. "children" \in Links /\ \A q, d : Turn(t, key, q, d) \in Links
  BY DEF Links, Turn
<1>4. 0 \in 0..Len(key) /\ \A d \in 0..Len(key) : d < Len(key) => d + 1 \in 0..Len(key)
  OBVIOUS
<1>5. Rest(t, key, 0, 0, "descend") = Found(t, key)
  BY DEF Rest, Found
<1>6. \A v : v \in P => Rest(t, key, v[1], v[2], v[3]) = Found(t, key)
  OBVIOUS
<1> HIDE DEF P
<1>7. <<0, 0, "descend">> \in P
  BY <1>1, <1>2, <1>4, <1>5
<1>8. <<o, e, m>> \in P
  <2>1. ASSUME NEW q \in DOMAIN t, NEW d \in 0..Len(key), d < Len(key)
        PROVE  /\ <<q, d, "descend">> \in P /\ t[q].link["children"] # 0 =>
                    <<t[q].link["children"], d, "sibling">> \in P
               /\ <<q, d, "sibling">> \in P /\ t[q].name = key[d + 1] => <<q, d + 1, "descend">> \in P
               /\ <<q, d, "sibling">> \in P /\ t[q].name # key[d + 1] /\ t[q].link[Turn(t, key, q, d)] # 0 =>
                    <<t[q].link[Turn(t, key, q, d)], d, "sibling">> \in P
    BY <2>1, <1>1, <1>2, <1>3, <1>4, RestSteps
  <2> QED
    BY <2>1, <1>7, TrailInduction
<1>9. <<o, e, m>>[1] = o /\ <<o, e, m>>[2] = e /\ <<o, e, m>>[3] = m
  OBVIOUS
<1> QED
  BY <1>6, <1>8, <1>9

\* Where a walk ends: the node of the key, or a link that is null.
Dangles(t, key, o, e, way) ==
  \/ way = "children" /\ e < Len(key) /\ On(t, key, o, e, "descend")
  \/ way # "children" /\ On(t, key, o, e, "sibling") /\ t[o].name # key[e + 1] /\ way = Turn(t, key, o, e)

LEMMA WalkEnds ==
  ASSUME NEW t, Grounded(t), NEW key, Len(key) \in Nat
  PROVE  \/ \E o \in DOMAIN t : On(t, key, o, Len(key), "descend")
         \/ \E o \in DOMAIN t, e \in 0..Len(key), way \in Links : Dangles(t, key, o, e, way) /\ t[o].link[way] = 0
<1> DEFINE Mark(o, m) == IF m = "descend" THEN 2 * o + 1 ELSE 2 * o
           T == {n \in 0..(2 * DataSize + 1) : \E o, e, m : On(t, key, o, e, m) /\ n = Mark(o, m)}
<1>1. DataSize \in Nat /\ \A o \in DOMAIN t : o \in Nat /\ o <= DataSize
  BY DataSizeAssumption DEF Grounded, Offset
<1>2. ASSUME NEW o, NEW e, NEW m, On(t, key, o, e, m) PROVE Mark(o, m) \in T
  <2>1. o \in DOMAIN t
    BY <1>2, TrailType
  <2>2. Mark(o, m) \in 0..(2 * DataSize + 1)
    BY <2>1, <1>1
  <2> QED
    BY <2>2, <1>2
<1>3. PICK n \in T : \A y \in T : y <= n
  <2>1. T # {}
    BY <1>2, TrailSteps
  <2>2. T \in SUBSET (0..(2 * DataSize + 1)) /\ 2 * DataSize + 1 \in Nat
    BY <1>1
  <2> HIDE DEF T
  <2> QED
    BY <2>1, <2>2, GreatestOf
<1>4. PICK o, e, m : On(t, key, o, e, m) /\ n = Mark(o, m)
  OBVIOUS
<1>5. /\ o \in DOMAIN t /\ e \in 0..Len(key) /\ m \in {"descend", "sibling"} /\ (m = "sibling" => e < Len(key))
      /\ o \in Nat
  BY <1>1, <1>4, TrailType
<1>6. \A q, d, k : On(t, key, q, d, k) => Mark(q, k) <= Mark(o, m)
  <2> HIDE DEF T, Mark
  <2> QED
    BY <1>2, <1>3, <1>4
<1>7. \A f \in Links : t[o].link[f] # 0 => t[o].link[f] \in Nat /\ o < t[o].link[f]
  BY <1>1, <1>5 DEF Grounded
<1>8. "children" \in Links /\ Turn(t, key, o, e) \in Links /\ Turn(t, key, o, e) # "children"
  BY DEF Links, Turn
<1>9. CASE m = "descend" /\ e = Len(key)
  BY <1>4, <1>5, <1>9
<1>10. CASE m = "descend" /\ e # Len(key)
  <2>1. e < Len(key)
    BY <1>5, <1>10
  <2>2. t[o].link["children"] = 0
    <3> SUFFICES ASSUME t[o].link["children"] # 0 PROVE FALSE
      OBVIOUS
    <3>1. On(t, key, t[o].link["children"], e, "sibling")
      BY <2>1, <1>4, <1>10, TrailSteps
    <3>2. Mark(t[o].link["children"], "sibling") <= Mark(o, m)
      BY <3>1, <1>6
    <3> QED
      BY <3>2, <1>5, <1>7, <1>8, <1>10
  <2>3. Dangles(t, key, o, e, "children")
    BY <2>1, <1>4, <1>10 DEF Dangles
  <2> QED
    BY <2>2, <2>3, <1>5, <1>8
<1>11. CASE m = "sibling"
  <2>1. t[o].name # key[e + 1]
    <3> SUFFICES ASSUME t[o].name = key[e + 1] PROVE FALSE
      OBVIOUS
    <3>1. On(t, key, o, e + 1, "descend")
      BY <1>4, <1>11, TrailSteps
    <3>2. Mark(o, "descend") <= Mark(o, m)
      BY <3>1, <1>6
    <3> QED
      BY <3>2, <1>5, <1>11
  <2>2. t[o].link[Turn(t, key, o, e)] = 0
    <3> SUFFICES ASSUME t[o].link[Turn(t, key, o, e)] # 0 PROVE FALSE
      OBVIOUS
    <3>1. On(t, key, t[o].link[Turn(t, key, o, e)], e, "sibling")
      BY <2>1, <1>4, <1>11, TrailSteps
    <3>2. Mark(t[o].link[Turn(t, key, o, e)], "sibling") <= Mark(o, m)
      BY <3>1, <1>6
    <3> QED
      BY <3>2, <1>5, <1>7, <1>8, <1>11
  <2>3. Dangles(t, key, o, e, Turn(t, key, o, e))
    BY <2>1, <1>4, <1>8, <1>11 DEF Dangles
  <2> QED
    BY <2>2, <2>3, <1>5, <1>8
<1> QED
  BY <1>5, <1>9, <1>10, <1>11

LEMMA WhatIsFound ==
  ASSUME NEW t, Grounded(t), NEW key, Len(key) \in Nat, Len(key) > 0
  PROVE  /\ \A o : On(t, key, o, Len(key), "descend") => Found(t, key) = t[o].prop
         /\ \A o, e, way : Dangles(t, key, o, e, way) /\ t[o].link[way] = 0 => Found(t, key) = 0
         /\ Found(t, key) = 0 \/ \E o \in DOMAIN t : On(t, key, o, Len(key), "descend") /\ Found(t, key) = t[o].prop
         /\ Found(t, key) \in Offset
<1>1. ASSUME NEW o, On(t, key, o, Len(key), "descend") PROVE Found(t, key) = t[o].prop
  <2>1. Rest(t, key, o, Len(key), "descend") = Found(t, key)
    BY <1>1, RestIsFound
  <2> QED
    BY <2>1 DEF Rest
<1>2. ASSUME NEW o, NEW e, NEW way, Dangles(t, key, o, e, way), t[o].link[way] = 0 PROVE Found(t, key) = 0
  <2>1. CASE way = "children"
    <3>1. e < Len(key) /\ On(t, key, o, e, "descend")
      BY <2>1, <1>2 DEF Dangles
    <3>2. Rest(t, key, o, e, "descend") = Found(t, key) /\ e \in 0..Len(key)
      BY <3>1, RestIsFound, TrailType
    <3> QED
      BY <2>1, <3>1, <3>2, <1>2 DEF Rest
  <2>2. CASE way # "children"
    <3>1. On(t, key, o, e, "sibling") /\ t[o].name # key[e + 1] /\ way = Turn(t, key, o, e)
      BY <2>2, <1>2 DEF Dangles
    <3>2. Rest(t, key, o, e, "sibling") = Found(t, key) /\ o \in DOMAIN t /\ e \in 0..Len(key) /\ e < Len(key)
      BY <3>1, RestIsFound, TrailType
    <3> QED
      BY <3>1, <3>2, <1>2, RestSteps
  <2> QED
    BY <2>1, <2>2
<1>3. Found(t, key) = 0 \/ \E o \in DOMAIN t : On(t, key, o, Len(key), "descend") /\ Found(t, key) = t[o].prop
  BY <1>1, <1>2, WalkEnds
<1>4. Found(t, key) \in Offset
  BY <1>3, DataSizeAssumption DEF Grounded, Offset
<1> QED
  BY <1>1, <1>2, <1>3, <1>4

-------------------------------------------------------------------------------
(***************************************************************************)
(* Tries that differ at x alone: walks keep their way until they are at x. *)
(***************************************************************************)
SameWay(old, new, x) ==
  /\ \A o \in DOMAIN old \ {x} :
       /\ o \in DOMAIN new /\ new[o].name = old[o].name
       /\ \A f \in Links : old[o].link[f] # 0 /\ old[o].link[f] # x => new[o].link[f] = old[o].link[f]
  /\ x \in DOMAIN old => \A f \in Links : old[x].link[f] = 0

LEMMA Within ==
  ASSUME NEW old, NEW new, NEW x, Grounded(old), SameWay(old, new, x), NEW key, Len(key) \in Nat,
         NEW o, NEW e, NEW m, On(old, key, o, e, m), o # x
  PROVE  On(new, key, o, e, m)
<1> DEFINE P == {v \in (DOMAIN old) \X (0..Len(key)) \X {"descend", "sibling"} :
                   v[1] = x \/ On(new, key, v[1], v[2], v[3])}
<1>1. \A q \in DOMAIN old : \A d \in 0..Len(key) : \A n \in {"descend", "sibling"} :
        <<q, d, n>> \in P <=> q = x \/ On(new, key, q, d, n)
  OBVIOUS
<1>2. 0 \in DOMAIN old /\ \A q \in DOMAIN old : \A f \in Links : old[q].link[f] # 0 => old[q].link[f] \in DOMAIN old
  BY DEF Grounded
<1>3. "children" \in Links /\ \A q, d : Turn(old, key, q, d) \in Links
  BY DEF Links, Turn
<1>4. 0 \in 0..Len(key) /\ \A d \in 0..Len(key) : d < Len(key) => d + 1 \in 0..Len(key)
  OBVIOUS
<1>5. \A v : v \in P => v[1] = x \/ On(new, key, v[1], v[2], v[3])
  OBVIOUS
<1>6. \A q, d : q \in DOMAIN old /\ q # x => new[q].name = old[q].name /\ Turn(new, key, q, d) = Turn(old, key, q, d)
  BY DEF SameWay, Turn
<1> HIDE DEF P
<1>7. <<0, 0, "descend">> \in P
  BY <1>1, <1>2, <1>4, TrailSteps
<1>8. ASSUME NEW q \in DOMAIN old, NEW d \in 0..Len(key), d < Len(key)
      PROVE  /\ <<q, d, "descend">> \in P /\ old[q].link["children"] # 0 =>
                  <<old[q].link["children"], d, "sibling">> \in P
             /\ <<q, d, "sibling">> \in P /\ old[q].name = key[d + 1] => <<q, d + 1, "descend">> \in P
             /\ <<q, d, "sibling">> \in P /\ old[q].name # key[d + 1] /\ old[q].link[Turn(old, key, q, d)] # 0 =>
                  <<old[q].link[Turn(old, key, q, d)], d, "sibling">> \in P
  <2>1. CASE q = x
    BY <2>1, <1>1, <1>3, <1>4, <1>8 DEF SameWay
  <2>2. CASE q # x
    <3>1. ASSUME <<q, d, "descend">> \in P, old[q].link["children"] # 0
          PROVE  <<old[q].link["children"], d, "sibling">> \in P
      <4>1. On(new, key, q, d, "descend")
        BY <2>2, <3>1, <1>1
      <4>2. CASE old[q].link["children"] = x
        BY <3>1, <4>2, <1>1, <1>2, <1>3
      <4>3. CASE old[q].link["children"] # x
        <5>1. new[q].link["children"] = old[q].link["children"]
          BY <2>2, <3>1, <4>3, <1>3 DEF SameWay
        <5>2. On(new, key, old[q].link["children"], d, "sibling")
          BY <3>1, <4>1, <5>1, <1>8, TrailSteps
        <5> QED
          BY <3>1, <5>2, <1>1, <1>2, <1>3
      <4> QED
        BY <4>2, <4>3
    <3>2. ASSUME <<q, d, "sibling">> \in P, old[q].name = key[d + 1] PROVE <<q, d + 1, "descend">> \in P
      <4>1. On(new, key, q, d, "sibling") /\ new[q].name = key[d + 1]
        BY <2>2, <3>2, <1>1, <1>6
      <4>2. On(new, key, q, d + 1, "descend")
        BY <4>1, TrailSteps
      <4> QED
        BY <4>2, <1>1, <1>4, <1>8
    <3>3. ASSUME <<q, d, "sibling">> \in P, old[q].name # key[d + 1], old[q].link[Turn(old, key, q, d)] # 0
          PROVE  <<old[q].link[Turn(old, key, q, d)], d, "sibling">> \in P
      <4>1. On(new, key, q, d, "sibling") /\ new[q].name # key[d + 1]
        BY <2>2, <3>3, <1>1, <1>6
      <4>2. CASE old[q].link[Turn(old, key, q, d)] = x
        BY <3>3, <4>2, <1>1, <1>2, <1>3
      <4>3. CASE old[q].link[Turn(old, key, q, d)] # x
        <5>1. new[q].link[Turn(new, key, q, d)] = old[q].link[Turn(old, key, q, d)]
          BY <2>2, <3>3, <4>3, <1>3, <1>6 DEF SameWay
        <5>2. On(new, key, old[q].link[Turn(old, key, q, d)], d, "sibling")
          BY <3>3, <4>1, <5>1, TrailSteps
        <5> QED
          BY <3>3, <5>2, <1>1, <1>2, <1>3
      <4> QED
        BY <4>2, <4>3
    <3> QED
      BY <3>1, <3>2, <3>3
  <2> QED
    BY <2>1, <2>2
<1>9. <<o, e, m>> \in P
  BY <1>7, <1>8, TrailInduction
<1>10. <<o, e, m>>[1] = o /\ <<o, e, m>>[2] = e /\ <<o, e, m>>[3] = m
  OBVIOUS
<1> QED
  BY <1>5, <1>9, <1>10

\* What hangs at x holds nothing: both tries hold the same.
LEMMA FoundKept ==
  ASSUME NEW old, NEW new, NEW x, Grounded(old), Grounded(new), SameWay(old, new, x), SameWay(new, old, x),
         \A o \in DOMAIN old \ {x} : new[o].prop = old[o].prop,
         x \in DOMAIN old => old[x].prop = 0, x \in DOMAIN new => new[x].prop = 0,
         NEW key, Len(key) \in Nat, Len(key) > 0
  PROVE  Found(new, key) = Found(old, key)
<1>1. ASSUME Found(old, key) # 0 PROVE Found(new, key) = Found(old, key)
  <2>1. PICK o \in DOMAIN old : On(old, key, o, Len(key), "descend") /\ Found(old, key) = old[o].prop
    BY <1>1, WhatIsFound
  <2>2. o # x
    BY <1>1, <2>1
  <2>3. On(new, key, o, Len(key), "descend")
    BY <2>1, <2>2, Within
  <2>4. Found(new, key) = new[o].prop
    BY <2>3, WhatIsFound
  <2> QED
    BY <2>1, <2>2, <2>4
<1>2. ASSUME Found(new, key) # 0 PROVE Found(new, key) = Found(old, key)
  <2>1. PICK o \in DOMAIN new : On(new, key, o, Len(key), "descend") /\ Found(new, key) = new[o].prop
    BY <1>2, WhatIsFound
  <2>2. o # x
    BY <1>2, <2>1
  <2>3. On(old, key, o, Len(key), "descend")
    BY <2>1, <2>2, Within
  <2>4. Found(old, key) = old[o].prop /\ o \in DOMAIN old
    BY <2>3, WhatIsFound, TrailType
  <2> QED
    BY <2>1, <2>2, <2>4
<1> QED
  BY <1>1, <1>2

-------------------------------------------------------------------------------
(***************************************************************************)
(* A lookup that has lost its way: nodes were wiped and unlinked under it, *)
(* and it goes on among what is left.  It can no longer find anything, and *)
(* at some moment since it began there was nothing to find.  C[o] holds    *)
(* lengths that no name at o or beside it below reaches: it stands to the  *)
(* left of a wiped node of each of these lengths.                          *)
(***************************************************************************)
\* A wiped node holds nothing and leads no further down.
Zombies(t) ==
  \A o \in DOMAIN t \ {0} : t[o].name.text = 0 => t[o].prop = 0 /\ t[o].link["children"] = 0

Named(t) == \A o \in DOMAIN t : t[o].name.len \in Nat /\ t[o].name.text \in Nat

Heir(t, C, o, f) ==
  IF f = "children" THEN {} ELSE IF f = "right" THEN C[o]
  ELSE C[o] \cup (IF t[o].name.text = 0 THEN {t[o].name.len} ELSE {})
Capped(t, C) ==
  \A o \in DOMAIN t :
    /\ \A c \in C[o] : c \in Nat /\ t[o].name.len < c
    /\ \A f \in Links : t[o].link[f] # 0 => C[t[o].link[f]] = Heir(t, C, o, f)

OnTrack(t, r) ==
  IF r.at = "load" THEN r.way # "children" /\ Dangles(t, r.key, r.cur, r.depth, r.way)
  ELSE On(t, r.key, r.cur, r.depth, r.at)
Wiped(t, o) == o # 0 /\ t[o].name.text = 0
Adrift(t, o) == Wiped(t, o) /\ ~Hung(t, o) /\ \A f \in Links : t[o].link[f] = 0
Lost(t, C, r) ==
  \/ r.at = "descend" /\ Wiped(t, r.cur)
  \/ r.at \in {"sibling", "load"} /\ \E c \in C[r.cur] : c <= Target(r).len
  \/ r.at = "load" /\ r.way = "left" /\ Wiped(t, r.cur) /\ t[r.cur].name.len <= Target(r).len
  \/ r.at \in {"sibling", "load"} /\ Adrift(t, r.cur)

\* What is known of the lookup r, for whose key the trie held all of W since it began.
Guided(t, r, W) ==
  \E C : Capped(t, C) /\ (r.at = "idle" \/ OnTrack(t, r) \/ (0 \in W /\ Lost(t, C, r)))

Key(key) == key \in Seq(Segment) /\ Len(key) > 0 /\ \A i \in DOMAIN key : key[i].text > 0
Reads(t, r) ==
  /\ r.at \in {"idle", "descend", "sibling", "load"} /\ r.cur \in DOMAIN t /\ r.depth \in Nat
  /\ r.at # "idle" => Key(r.key)
  /\ r.at \in {"sibling", "load"} => r.depth < Len(r.key)

LEMMA Targets ==
  ASSUME NEW r, r.depth \in Nat, r.depth < Len(r.key), Key(r.key)
  PROVE  Target(r).len \in Nat /\ Target(r).len > 0 /\ Target(r).text \in Nat /\ Target(r).text > 0
<1>1. r.depth + 1 \in DOMAIN r.key /\ r.key[r.depth + 1] \in Segment
  BY DEF Key
<1> QED
  BY <1>1 DEF Target, Key, Segment

\* A walk that is on its way passes below the caps.
LEMMA TrailCap ==
  ASSUME NEW t, Grounded(t), Named(t), NEW C, Capped(t, C), NEW key, Key(key)
  PROVE  \A o, e : On(t, key, o, e, "sibling") => \A c \in C[o] : key[e + 1].len < c
<1> DEFINE Fits(v) == v[3] = "sibling" => \A c \in C[v[1]] : key[v[2] + 1].len < c
           P == {v \in (DOMAIN t) \X (0..Len(key)) \X {"descend", "sibling"} : Fits(v)}
<1>1. \A q \in DOMAIN t : \A d \in 0..Len(key) : \A n \in {"descend", "sibling"} :
        <<q, d, n>> \in P <=> (n = "sibling" => \A c \in C[q] : key[d + 1].len < c)
  OBVIOUS
<1>2. 0 \in DOMAIN t /\ \A q \in DOMAIN t : \A f \in Links : t[q].link[f] # 0 => t[q].link[f] \in DOMAIN t
  BY DEF Grounded
<1>3. "children" \in Links /\ \A q, d : Turn(t, key, q, d) \in Links /\ Turn(t, key, q, d) # "children"
  BY DEF Links, Turn
<1>4. Len(key) \in Nat /\ 0 \in 0..Len(key) /\ \A d \in 0..Len(key) : d < Len(key) => d + 1 \in 0..Len(key)
  BY DEF Key
<1> HIDE DEF P
<1>5. <<0, 0, "descend">> \in P
  BY <1>1, <1>2, <1>4
<1>6. ASSUME NEW q \in DOMAIN t, NEW d \in 0..Len(key), d < Len(key), t[q].link["children"] # 0
      PROVE  <<t[q].link["children"], d, "sibling">> \in P
  <2>1. C[t[q].link["children"]] = {}
    BY <1>3, <1>6 DEF Capped, Heir
  <2> QED
    BY <2>1, <1>1, <1>2, <1>3, <1>6
<1>7. ASSUME NEW q \in DOMAIN t, NEW d \in 0..Len(key), d < Len(key), t[q].link[Turn(t, key, q, d)] # 0,
             <<q, d, "sibling">> \in P
      PROVE  <<t[q].link[Turn(t, key, q, d)], d, "sibling">> \in P
  <2>1. \A c \in C[q] : key[d + 1].len < c
    BY <1>1, <1>7
  <2>2. C[t[q].link[Turn(t, key, q, d)]] = Heir(t, C, q, Turn(t, key, q, d))
    BY <1>3, <1>7 DEF Capped
  <2>3. ASSUME Turn(t, key, q, d) = "left", t[q].name.text = 0 PROVE key[d + 1].len < t[q].name.len
    <3>1. Before(key[d + 1], t[q].name)
      BY <2>3 DEF Turn
    <3>2. d + 1 \in DOMAIN key /\ key[d + 1] \in Segment
      BY <1>4, <1>7 DEF Key
    <3> QED
      BY <2>3, <3>1, <3>2 DEF Before, Segment
  <2>4. \A c \in Heir(t, C, q, Turn(t, key, q, d)) : key[d + 1].len < c
    BY <2>1, <2>3, <1>3 DEF Heir, Turn
  <2> QED
    BY <2>2, <2>4, <1>1, <1>2, <1>3
<1>8. ASSUME NEW o, NEW e, On(t, key, o, e, "sibling") PROVE \A c \in C[o] : key[e + 1].len < c
  <2>1. <<o, e, "sibling">> \in P /\ o \in DOMAIN t /\ e \in 0..Len(key)
    BY <1>1, <1>4, <1>5, <1>6, <1>7, <1>8, TrailInduction
  <2> QED
    BY <2>1, <1>1
<1> QED
  BY <1>8

\* A walk that comes to a node that holds nothing and leads nowhere finds nothing.
LEMMA NothingThere ==
  ASSUME NEW t, Grounded(t), NEW key, Key(key), NEW o, NEW e, NEW m, On(t, key, o, e, m), Free(t, o)
  PROVE  Found(t, key) = 0
<1>1. Len(key) \in Nat /\ Len(key) > 0
  BY DEF Key
<1>2. "children" \in Links /\ Turn(t, key, o, e) \in Links /\ Turn(t, key, o, e) # "children"
  BY DEF Links, Turn
<1>3. ASSUME NEW d, On(t, key, o, d, "descend") PROVE Found(t, key) = 0
  <2>1. d \in 0..Len(key)
    BY <1>1, <1>3, TrailType
  <2>2. CASE d = Len(key)
    BY <2>2, <1>1, <1>3, WhatIsFound DEF Free
  <2>3. CASE d # Len(key)
    <3>1. Dangles(t, key, o, d, "children")
      BY <2>1, <2>3, <1>3 DEF Dangles
    <3> QED
      BY <3>1, <1>1, <1>2, WhatIsFound DEF Free
  <2> QED
    BY <2>2, <2>3
<1>4. CASE m = "sibling" /\ t[o].name = key[e + 1]
  BY <1>3, <1>4, TrailSteps
<1>5. CASE m = "sibling" /\ t[o].name # key[e + 1]
  <2>1. Dangles(t, key, o, e, Turn(t, key, o, e))
    BY <1>2, <1>5 DEF Dangles
  <2> QED
    BY <2>1, <1>1, <1>2, WhatIsFound DEF Free
<1>6. m = "descend" \/ m = "sibling"
  BY <1>1, TrailType
<1> QED
  BY <1>3, <1>4, <1>5, <1>6

LEMMA OnTrackKept ==
  ASSUME NEW old, NEW new, NEW x, Grounded(old), SameWay(old, new, x), NEW r, Reads(old, r), r.at # "idle",
         r.cur # x, OnTrack(old, r)
  PROVE  OnTrack(new, r)
<1>1. Len(r.key) \in Nat /\ new[r.cur].name = old[r.cur].name
  BY DEF Reads, Key, SameWay
<1>2. \A e, m : On(old, r.key, r.cur, e, m) => On(new, r.key, r.cur, e, m)
  BY <1>1, Within
<1> QED
  BY <1>1, <1>2 DEF OnTrack, Dangles, Turn

-------------------------------------------------------------------------------
(***************************************************************************)
(* The types, with what a lookup has seen.                                 *)
(***************************************************************************)
LEMMA Ground == (Inv => Grounded(node) /\ Named(node)) /\ (Inv' => Grounded(node') /\ Named(node'))
<1>1. ASSUME Inv PROVE Grounded(node) /\ Named(node)
  <2>1. AreaType /\ LinksLead
    BY <1>1 DEF Inv
  <2>2. ASSUME NEW o \in DOMAIN node PROVE node[o].name.len \in Nat /\ node[o].name.text \in Nat
    <3>1. node[o].name \in Name
      BY <2>1 DEF AreaType, Node
    <3> QED
      BY <3>1, DataSizeAssumption DEF Name, Segment
  <2>3. Grounded(node)
    BY <2>1, Typed DEF AreaType, LinksLead, Grounded
  <2> QED
    BY <2>2, <2>3 DEF Named
<1>2. ASSUME Inv' PROVE Grounded(node') /\ Named(node')
  <2>1. AreaType' /\ LinksLead'
    BY <1>2 DEF Inv
  <2>2. ASSUME NEW o \in DOMAIN node'
        PROVE  /\ node'[o].name.len \in Nat /\ node'[o].name.text \in Nat /\ node'[o].prop \in Offset
    <3>1. node'[o].name \in Name /\ node'[o].prop \in Offset
      BY <2>1 DEF AreaType, Node
    <3> QED
      BY <3>1, DataSizeAssumption DEF Name, Segment
  <2>3. Grounded(node')
    BY <2>1, <2>2 DEF AreaType, LinksLead, Grounded
  <2> QED
    BY <2>2, <2>3 DEF Named
<1> QED
  BY <1>1, <1>2

LEMMA KeysAreKeys == \A key \in Keys : Key(key)
  BY KeysAssumption, TextAssumption DEF Key

LEMMA FoundType ==
  ASSUME NEW t, Grounded(t), NEW key, Key(key) PROVE Found(t, key) \in Offset
  BY WhatIsFound DEF Key

\* How a step changes what was seen.
LEMMA Watched ==
  ASSUME Watch
  PROVE  window' = IF rd'.at = "idle" THEN {} ELSE window \cup {Found(node', rd'.key)}
<1>1. Lookup(rd.key)' = Found(node', rd'.key)
  BY DEF Lookup, Found, WalkOf, Onward
<1> QED
  BY <1>1 DEF Watch

LEMMA Watching ==
  ASSUME [Next]_vars
  PROVE  \/ window' = window /\ rd' = rd /\ node' = node
         \/ window' = IF rd'.at = "idle" THEN {} ELSE window \cup {Found(node', rd'.key)}
<1>1. CASE UNCHANGED vars
  BY <1>1 DEF vars
<1> QED
  BY <1>1, Watched DEF Next

\* Offsets stay inside data_[], every object and every record keeps its type, and so
\* does what a lookup may answer.
THEOREM AlwaysTyped == Spec => []TypeOK
<1> DEFINE Seen == window \subseteq Offset
<1>1. Init => Seen
  BY DEF Init
<1>2. ASSUME Inv', Seen, [Next]_vars PROVE Seen'
  <2>1. CASE window' = window
    BY <2>1, <1>2
  <2>2. CASE window' = {}
    BY <2>2
  <2>3. CASE rd'.at # "idle" /\ window' = window \cup {Found(node', rd'.key)}
    <3>1. rd'.key \in Keys
      BY <2>3, <1>2 DEF Inv, Reader
    <3>2. Found(node', rd'.key) \in Offset
      BY <3>1, <1>2, Ground, KeysAreKeys, FoundType
    <3> QED
      BY <2>3, <3>2, <1>2
  <2> QED
    BY <2>1, <2>2, <2>3, <1>2, Watching
<1>3. Inv /\ Seen => TypeOK
  BY DEF Inv, AreaType, Reader, Counted, TypeOK
<1> HIDE DEF Seen
<1>4. Inv /\ Seen /\ [Next]_vars => Inv' /\ Seen'
  BY <1>2, NextInv
<1> QED
  BY <1>1, <1>3, <1>4, InitInv, PTL DEF Spec

-------------------------------------------------------------------------------
(***************************************************************************)
(* What each kind of store does to a lookup r that is under way: for its   *)
(* key the trie held all of W, and V has what it holds now as well.        *)
(***************************************************************************)
LEMMA HeirCap ==
  ASSUME NEW t, Grounded(t), Named(t), NEW C, Capped(t, C), NEW key, Key(key),
         NEW o, NEW e, NEW way, Dangles(t, key, o, e, way)
  PROVE  \A c \in Heir(t, C, o, way) : key[e + 1].len < c
<1>1. CASE way = "children"
  BY <1>1 DEF Heir
<1>2. CASE way # "children"
  <2>1. On(t, key, o, e, "sibling") /\ way = Turn(t, key, o, e)
    BY <1>2 DEF Dangles
  <2>2. o \in DOMAIN t /\ e \in 0..Len(key) /\ e < Len(key) /\ Len(key) \in Nat
    BY <2>1, TrailType DEF Key
  <2>3. \A c \in C[o] : key[e + 1].len < c
    BY <2>1, TrailCap
  <2>4. ASSUME way = "left", t[o].name.text = 0 PROVE key[e + 1].len < t[o].name.len
    <3>1. Before(key[e + 1], t[o].name)
      BY <2>1, <2>4 DEF Turn
    <3>2. e + 1 \in DOMAIN key /\ key[e + 1] \in Segment
      BY <2>2 DEF Key
    <3> QED
      BY <2>4, <3>1, <3>2 DEF Before, Segment
  <2> QED
    BY <1>2, <2>1, <2>3, <2>4 DEF Heir, Turn
<1> QED
  BY <1>1, <1>2

LEMMA LostKept ==
  ASSUME NEW old, NEW new, Named(old), Named(new), NEW C, NEW D, NEW r, Reads(old, r), r.cur \in DOMAIN new,
         Lost(old, C, r), D[r.cur] = C[r.cur], Wiped(old, r.cur) => Wiped(new, r.cur),
         new[r.cur].name.len <= old[r.cur].name.len, Adrift(old, r.cur) => Adrift(new, r.cur)
  PROVE  Lost(new, D, r)
<1>1. CASE r.at = "load" /\ r.way = "left" /\ Wiped(old, r.cur) /\ old[r.cur].name.len <= Target(r).len
  <2>1. Target(r).len \in Nat
    BY <1>1, Targets DEF Reads
  <2>2. new[r.cur].name.len \in Nat /\ old[r.cur].name.len \in Nat
    BY DEF Named, Reads
  <2>3. new[r.cur].name.len <= Target(r).len
    BY <1>1, <2>1, <2>2
  <2> QED
    BY <1>1, <2>3 DEF Lost
<1>2. CASE r.at = "descend" /\ Wiped(old, r.cur)
  BY <1>2 DEF Lost
<1>3. CASE r.at \in {"sibling", "load"} /\ \E c \in C[r.cur] : c <= Target(r).len
  BY <1>3 DEF Lost
<1>4. CASE r.at \in {"sibling", "load"} /\ Adrift(old, r.cur)
  BY <1>4 DEF Lost
<1> QED
  BY <1>1, <1>2, <1>3, <1>4 DEF Lost

LEMMA GuideStays ==
  ASSUME NEW old, NEW new, Grounded(old), Named(old), Named(new), NEW r, Reads(old, r),
         DOMAIN old \subseteq DOMAIN new, NEW C, NEW D, Capped(new, D), NEW W, NEW V, W \subseteq V,
         r.at = "idle" \/ OnTrack(old, r) \/ (0 \in W /\ Lost(old, C, r)),
         r.at # "idle" /\ OnTrack(old, r) => OnTrack(new, r) \/ (0 \in V /\ Lost(new, D, r)),
         D[r.cur] = C[r.cur], Wiped(old, r.cur) => Wiped(new, r.cur),
         new[r.cur].name.len <= old[r.cur].name.len, Adrift(old, r.cur) => Adrift(new, r.cur)
  PROVE  Guided(new, r, V)
<1>1. r.cur \in DOMAIN new
  BY DEF Reads
<1>2. r.at = "idle" \/ OnTrack(new, r) \/ (0 \in V /\ Lost(new, D, r))
  BY <1>1, LostKept
<1> QED
  BY <1>2 DEF Guided

\* A node is written where nothing leads.
LEMMA GuidedExtends ==
  ASSUME NEW old, NEW new, NEW l, Grounded(old), Named(old), Grounded(new), Named(new),
         Extends(old, new, l), new[l].prop = 0, NEW r, Reads(old, r),
         NEW W, NEW V, W \subseteq V, Guided(old, r, W)
  PROVE  Guided(new, r, V) /\ \A key : Key(key) => Found(new, key) = Found(old, key)
<1>1. SameWay(old, new, l) /\ SameWay(new, old, l)
  BY DEF Extends, SameWay
<1>2. \A key : Key(key) => Found(new, key) = Found(old, key)
  <2>1. \A o \in DOMAIN old \ {l} : new[o].prop = old[o].prop
    BY DEF Extends
  <2>2. l \notin DOMAIN old
    BY DEF Extends
  <2> QED
    BY <1>1, <2>1, <2>2, FoundKept DEF Key
<1>3. PICK C : Capped(old, C) /\ (r.at = "idle" \/ OnTrack(old, r) \/ (0 \in W /\ Lost(old, C, r)))
  BY DEF Guided
<1>4. PICK D : D = [o \in DOMAIN new |-> IF o = l THEN {} ELSE C[o]]
  OBVIOUS
<1>5. /\ l \notin DOMAIN old /\ DOMAIN new = DOMAIN old \cup {l} /\ D[l] = {}
      /\ \A o \in DOMAIN old : new[o] = old[o] /\ D[o] = C[o] /\ o # l
      /\ \A f \in Links : new[l].link[f] = 0
  BY <1>4 DEF Extends
<1>6. Capped(new, D)
  <2>1. ASSUME NEW o \in DOMAIN new, o # l
        PROVE  /\ \A c \in D[o] : c \in Nat /\ new[o].name.len < c
               /\ \A f \in Links : new[o].link[f] # 0 => D[new[o].link[f]] = Heir(new, D, o, f)
    <3>1. o \in DOMAIN old /\ new[o] = old[o] /\ D[o] = C[o]
      BY <2>1, <1>5
    <3>2. \A f \in Links : Heir(new, D, o, f) = Heir(old, C, o, f)
      BY <3>1 DEF Heir
    <3>3. \A f \in Links : old[o].link[f] # 0 => D[old[o].link[f]] = C[old[o].link[f]]
      BY <3>1, <1>5 DEF Grounded
    <3> QED
      BY <3>1, <3>2, <3>3, <1>3 DEF Capped
  <2> QED
    BY <2>1, <1>5 DEF Capped
<1>7. r.cur \in DOMAIN old /\ r.cur # l
  BY <1>5 DEF Reads
<1>8. r.at # "idle" /\ OnTrack(old, r) => OnTrack(new, r)
  BY <1>1, <1>7, OnTrackKept
<1>9. Adrift(old, r.cur) => Adrift(new, r.cur)
  BY <1>5, <1>7 DEF Adrift, Wiped, Hung
<1>10. /\ D[r.cur] = C[r.cur] /\ (Wiped(old, r.cur) => Wiped(new, r.cur))
       /\ new[r.cur].name.len <= old[r.cur].name.len
  BY <1>5, <1>7 DEF Wiped, Named
<1>11. DOMAIN old \subseteq DOMAIN new
  BY <1>5
<1> QED
  BY <1>2, <1>3, <1>6, <1>8, <1>9, <1>10, <1>11, GuideStays

\* It is hung where the walk of its key ended.
HangsThere(old, new, q, f, l, key, e) ==
  /\ q \in DOMAIN old /\ f \in Links /\ l \in DOMAIN old /\ l # 0
  /\ Hangs(old, new, q, f, l) /\ ~Hung(old, l) /\ (q = 0 \/ Hung(old, q)) /\ Free(old, l)
  /\ Key(key) /\ Dangles(old, key, q, e, f) /\ old[q].link[f] = 0 /\ old[l].name = key[e + 1]

LEMMA GuidedHangs ==
  ASSUME NEW old, NEW new, Grounded(old), Named(old), Grounded(new), Named(new),
         NEW q, NEW f, NEW l, NEW key, NEW e, HangsThere(old, new, q, f, l, key, e),
         NEW r, Reads(old, r), r.cur # l, NEW W, NEW V, W \subseteq V, Guided(old, r, W)
  PROVE  Guided(new, r, V) /\ \A k : Key(k) => Found(new, k) = Found(old, k)
<1>h. /\ q \in DOMAIN old /\ f \in Links /\ l \in DOMAIN old /\ l # 0
      /\ Hangs(old, new, q, f, l) /\ ~Hung(old, l) /\ (q = 0 \/ Hung(old, q)) /\ Free(old, l)
      /\ Key(key) /\ Dangles(old, key, q, e, f) /\ old[q].link[f] = 0 /\ old[l].name = key[e + 1]
  BY DEF HangsThere
<1> USE <1>h
<1>1. q # l
  BY DEF Free
<1>2. /\ DOMAIN new = DOMAIN old
      /\ \A o \in DOMAIN old : new[o].prop = old[o].prop /\ new[o].name = old[o].name
      /\ \A g \in Links : old[l].link[g] = 0 /\ new[l].link[g] = 0
      /\ \A o \in DOMAIN old : \A g \in Links : old[o].link[g] # l
      /\ \A o \in DOMAIN old : \A g \in Links : new[o].link[g] = IF o = q /\ g = f THEN l ELSE old[o].link[g]
  BY <1>1 DEF Hangs, Free, Hung
<1>3. SameWay(old, new, l) /\ SameWay(new, old, l)
  BY <1>2 DEF SameWay
<1>4. \A k : Key(k) => Found(new, k) = Found(old, k)
  BY <1>2, <1>3, FoundKept DEF Key, Free
<1>5. PICK C : Capped(old, C) /\ (r.at = "idle" \/ OnTrack(old, r) \/ (0 \in W /\ Lost(old, C, r)))
  BY DEF Guided
<1>6. PICK D : D = [o \in DOMAIN new |-> IF o = l THEN Heir(old, C, q, f) ELSE C[o]]
  OBVIOUS
<1>7. D[l] = Heir(old, C, q, f) /\ \A o \in DOMAIN old : o # l => D[o] = C[o]
  BY <1>2, <1>6
<1>8. Capped(new, D)
  <2>1. ASSUME NEW o \in DOMAIN new, o # l
        PROVE  /\ \A c \in D[o] : c \in Nat /\ new[o].name.len < c
               /\ \A g \in Links : new[o].link[g] # 0 => D[new[o].link[g]] = Heir(new, D, o, g)
    <3>1. o \in DOMAIN old /\ D[o] = C[o] /\ new[o].name = old[o].name
      BY <2>1, <1>2, <1>7
    <3>2. \A g \in Links : Heir(new, D, o, g) = Heir(old, C, o, g)
      BY <3>1 DEF Heir
    <3>3. ASSUME NEW g \in Links, new[o].link[g] # 0 PROVE D[new[o].link[g]] = Heir(old, C, o, g)
      <4>1. CASE o = q /\ g = f
        BY <4>1, <3>1, <1>2, <1>7
      <4>2. CASE ~(o = q /\ g = f)
        <5>1. new[o].link[g] = old[o].link[g] /\ old[o].link[g] # l /\ old[o].link[g] \in DOMAIN old
          BY <4>2, <3>1, <3>3, <1>2 DEF Grounded
        <5> QED
          BY <5>1, <3>1, <3>3, <1>5, <1>7 DEF Capped
      <4> QED
        BY <4>1, <4>2
    <3> QED
      BY <3>1, <3>2, <3>3, <1>5 DEF Capped
  <2>2. ASSUME NEW c \in D[l] PROVE c \in Nat /\ new[l].name.len < c
    <3>1. c \in Heir(old, C, q, f)
      BY <1>7
    <3>2. c \in Nat
      <4>1. c \in C[q] \/ c = old[q].name.len
        BY <3>1 DEF Heir
      <4>2. \A b \in C[q] : b \in Nat
        BY <1>5 DEF Capped
      <4> QED
        BY <4>1, <4>2 DEF Named
    <3>3. key[e + 1].len < c
      BY <3>1, <1>5, HeirCap
    <3> QED
      BY <3>2, <3>3, <1>2
  <2> QED
    BY <2>1, <2>2, <1>2 DEF Capped
<1>9. r.at # "idle" /\ OnTrack(old, r) => OnTrack(new, r)
  BY <1>3, OnTrackKept
<1>10. r.cur \in DOMAIN old
  BY DEF Reads
<1>11. Adrift(old, r.cur) => Adrift(new, r.cur)
  <2> SUFFICES ASSUME Adrift(old, r.cur) PROVE Adrift(new, r.cur)
    OBVIOUS
  <2>1. r.cur # q
    BY DEF Adrift, Wiped
  <2>2. ~Hung(new, r.cur)
    BY <1>2 DEF Adrift, Hung
  <2> QED
    BY <2>1, <2>2, <1>2, <1>10 DEF Adrift, Wiped
<1>12. /\ D[r.cur] = C[r.cur] /\ (Wiped(old, r.cur) => Wiped(new, r.cur))
       /\ new[r.cur].name.len <= old[r.cur].name.len
  BY <1>2, <1>7, <1>10 DEF Wiped, Named
<1> QED
  BY <1>2, <1>4, <1>5, <1>8, <1>9, <1>11, <1>12, GuideStays

\* Only the property of one node changes.
Reprops(old, new, q) ==
  /\ DOMAIN new = DOMAIN old
  /\ \A o \in DOMAIN old : /\ new[o].name = old[o].name
                           /\ \A f \in Links : new[o].link[f] = old[o].link[f]
                           /\ o # q => new[o].prop = old[o].prop

LEMMA GuidedReprops ==
  ASSUME NEW old, NEW new, NEW q, Grounded(old), Named(old), Grounded(new), Named(new), Reprops(old, new, q),
         NEW r, Reads(old, r), NEW W, NEW V, W \subseteq V, Guided(old, r, W)
  PROVE  Guided(new, r, V)
<1>1. SameWay(old, new, DataSize + 1)
  <2>1. DataSize + 1 \notin DOMAIN old
    BY DataSizeAssumption DEF Grounded, Offset
  <2> QED
    BY <2>1 DEF SameWay, Reprops
<1>2. PICK C : Capped(old, C) /\ (r.at = "idle" \/ OnTrack(old, r) \/ (0 \in W /\ Lost(old, C, r)))
  BY DEF Guided
<1>3. Capped(new, C)
  <2>1. \A o \in DOMAIN old : \A f \in Links : Heir(new, C, o, f) = Heir(old, C, o, f)
    BY DEF Heir, Reprops
  <2> QED
    BY <2>1, <1>2 DEF Capped, Reprops
<1>4. r.cur \in DOMAIN old /\ r.cur # DataSize + 1
  BY DataSizeAssumption DEF Reads, Grounded, Offset
<1>5. r.at # "idle" /\ OnTrack(old, r) => OnTrack(new, r)
  BY <1>1, <1>4, OnTrackKept
<1>6. Adrift(old, r.cur) => Adrift(new, r.cur)
  BY <1>4 DEF Adrift, Wiped, Hung, Reprops
<1>7. /\ Wiped(old, r.cur) => Wiped(new, r.cur)
      /\ new[r.cur].name.len <= old[r.cur].name.len /\ DOMAIN old \subseteq DOMAIN new
  BY <1>4 DEF Wiped, Named, Reprops
<1> QED
  BY <1>2, <1>3, <1>5, <1>6, <1>7, GuideStays

\* A walk that is at a node which holds nothing when its name is wiped.
Blanks(old, new, o) ==
  /\ SameLinks(old, new) /\ new[o].name.text = 0 /\ new[o].name.len <= old[o].name.len
  /\ \A q \in DOMAIN old \ {o} : new[q].name = old[q].name

LEMMA BlankedUnder ==
  ASSUME NEW old, NEW new, NEW o \in DOMAIN old, Grounded(old), Named(old), Grounded(new), Named(new),
         Blanks(old, new, o), Free(old, o), NEW r, Reads(old, r), r.at # "idle", r.cur = o, OnTrack(old, r),
         NEW C
  PROVE  OnTrack(new, r) \/ Lost(new, C, r)
<1>1. Key(r.key) /\ Len(r.key) \in Nat
  BY DEF Reads, Key
<1>2. SameWay(old, new, o)
  BY DEF SameWay, Blanks, SameLinks, Free
<1>3. CASE r.at = "descend"
  <2>1. CASE o = 0
    <3>1. On(old, r.key, 0, r.depth, "descend")
      BY <1>3, <2>1 DEF OnTrack
    <3>2. ~ On(old, r.key, 0, r.depth - 1, "sibling")
      BY <1>1, TrailType
    <3>3. r.depth = 0
      BY <1>1, <3>1, <3>2, TrailOrigin
    <3> QED
      BY <1>3, <2>1, <3>3, TrailSteps DEF OnTrack
  <2>2. CASE o # 0
    BY <1>3, <2>2 DEF Lost, Wiped, Blanks
  <2> QED
    BY <2>1, <2>2
<1>4. ASSUME NEW e, On(old, r.key, o, e, "sibling") PROVE On(new, r.key, o, e, "sibling") /\ o # 0 /\ e < Len(r.key)
  <2>1. o # 0 /\ e \in 0..Len(r.key) /\ e < Len(r.key)
    BY <1>1, <1>4, TrailType
  <2>2. PICK q \in DOMAIN old, f \in Links :
          /\ old[q].link[f] = o
          /\ \/ f = "children" /\ On(old, r.key, q, e, "descend")
             \/ f = Turn(old, r.key, q, e) /\ old[q].name # r.key[e + 1] /\ On(old, r.key, q, e, "sibling")
    BY <1>1, <1>4, TrailOrigin
  <2>3. q # o
    BY <2>1, <2>2 DEF Free
  <2>4. new[q].name = old[q].name /\ new[q].link[f] = o
    BY <2>2, <2>3 DEF Blanks, SameLinks
  <2>5. CASE f = "children" /\ On(old, r.key, q, e, "descend")
    <3>1. On(new, r.key, q, e, "descend")
      BY <1>1, <1>2, <2>3, <2>5, Within
    <3> QED
      BY <3>1, <2>1, <2>4, <2>5, TrailSteps
  <2>6. CASE f = Turn(old, r.key, q, e) /\ old[q].name # r.key[e + 1] /\ On(old, r.key, q, e, "sibling")
    <3>1. On(new, r.key, q, e, "sibling")
      BY <1>1, <1>2, <2>3, <2>6, Within
    <3>2. f = Turn(new, r.key, q, e) /\ new[q].name # r.key[e + 1]
      BY <2>4, <2>6 DEF Turn
    <3> QED
      BY <3>1, <3>2, <2>1, <2>4, TrailSteps
  <2> QED
    BY <2>1, <2>2, <2>5, <2>6
<1>5. CASE r.at = "sibling"
  BY <1>4, <1>5 DEF OnTrack
<1>6. CASE r.at = "load"
  <2>1. /\ r.way # "children" /\ On(old, r.key, o, r.depth, "sibling") /\ old[o].name # r.key[r.depth + 1]
        /\ r.way = Turn(old, r.key, o, r.depth)
    BY <1>6 DEF OnTrack, Dangles
  <2>2. On(new, r.key, o, r.depth, "sibling") /\ o # 0
    BY <1>4, <2>1
  <2>3. Target(r).len \in Nat /\ Target(r).text \in Nat /\ Target(r).text > 0 /\ Target(r) = r.key[r.depth + 1]
    BY <1>6, Targets DEF Reads, Target
  <2>4. /\ new[o].name.text = 0 /\ new[o].name.len \in Nat /\ old[o].name.len \in Nat /\ old[o].name.text \in Nat
        /\ new[o].name.len <= old[o].name.len
    BY DEF Blanks, Named, SameLinks
  <2>5. new[o].name # Target(r)
    BY <2>3, <2>4
  <2>6. CASE r.way = Turn(new, r.key, o, r.depth)
    BY <1>6, <2>1, <2>2, <2>3, <2>5, <2>6 DEF OnTrack, Dangles
  <2>7. CASE r.way # Turn(new, r.key, o, r.depth)
    <3>1. Before(Target(r), old[o].name) /\ ~Before(Target(r), new[o].name) /\ r.way = "left"
      <4>1. Before(Target(r), new[o].name) => Before(Target(r), old[o].name)
        BY <2>3, <2>4 DEF Before
      <4> QED
        BY <4>1, <2>1, <2>3, <2>7 DEF Turn
    <3>2. new[o].name.len <= Target(r).len
      BY <3>1, <2>3, <2>4 DEF Before
    <3> QED
      BY <3>1, <3>2, <1>6, <2>2, <2>4 DEF Lost, Wiped
  <2> QED
    BY <2>6, <2>7
<1> QED
  BY <1>3, <1>5, <1>6 DEF Reads

LEMMA GuidedBlanks ==
  ASSUME NEW old, NEW new, NEW o \in DOMAIN old, Grounded(old), Named(old), Grounded(new), Named(new),
         Blanks(old, new, o), Free(old, o),
         NEW r, Reads(old, r), NEW W, NEW V, W \subseteq V, r.at # "idle" => Found(new, r.key) \in V, Guided(old, r, W)
  PROVE  Guided(new, r, V) /\ \A k : Key(k) => Found(new, k) = Found(old, k)
<1>1. /\ DOMAIN new = DOMAIN old
      /\ \A q \in DOMAIN old : new[q].link = old[q].link /\ new[q].prop = old[q].prop
      /\ \A q \in DOMAIN old : q # o => new[q].name = old[q].name
      /\ new[o].name.text = 0 /\ new[o].name.len <= old[o].name.len
  BY DEF Blanks, SameLinks
<1>2. SameWay(old, new, o) /\ SameWay(new, old, o)
  BY <1>1 DEF SameWay, Free
<1>3. \A k : Key(k) => Found(new, k) = Found(old, k)
  BY <1>1, <1>2, FoundKept DEF Key, Free
<1>4. PICK C : Capped(old, C) /\ (r.at = "idle" \/ OnTrack(old, r) \/ (0 \in W /\ Lost(old, C, r)))
  BY DEF Guided
<1>5. Capped(new, C)
  <2>1. ASSUME NEW q \in DOMAIN new
        PROVE  /\ \A c \in C[q] : c \in Nat /\ new[q].name.len < c
               /\ \A f \in Links : new[q].link[f] # 0 => C[new[q].link[f]] = Heir(new, C, q, f)
    <3>1. \A c \in C[q] : c \in Nat /\ old[q].name.len < c
      BY <1>1, <1>4 DEF Capped
    <3>2. new[q].name.len \in Nat /\ old[q].name.len \in Nat /\ new[q].name.len <= old[q].name.len
      BY <1>1 DEF Named
    <3>3. \A c \in C[q] : c \in Nat /\ new[q].name.len < c
      BY <3>1, <3>2
    <3>4. ASSUME NEW f \in Links, new[q].link[f] # 0 PROVE C[new[q].link[f]] = Heir(new, C, q, f)
      <4>1. q # o /\ old[q].link[f] = new[q].link[f]
        BY <1>1, <3>4 DEF Free
      <4>2. Heir(new, C, q, f) = Heir(old, C, q, f)
        BY <4>1, <1>1 DEF Heir
      <4> QED
        BY <4>1, <4>2, <1>1, <1>4, <3>4 DEF Capped
    <3> QED
      BY <3>3, <3>4
  <2> QED
    BY <2>1 DEF Capped
<1>6. r.cur \in DOMAIN old
  BY DEF Reads
<1>7. r.at # "idle" /\ OnTrack(old, r) => OnTrack(new, r) \/ (0 \in V /\ Lost(new, C, r))
  <2> SUFFICES ASSUME r.at # "idle", OnTrack(old, r) PROVE OnTrack(new, r) \/ (0 \in V /\ Lost(new, C, r))
    OBVIOUS
  <2>1. CASE r.cur # o
    BY <2>1, <1>2, OnTrackKept
  <2>2. CASE r.cur = o
    <3>1. Key(r.key)
      BY DEF Reads
    <3>2. \E m : On(old, r.key, o, r.depth, m)
      BY <2>2 DEF OnTrack, Dangles
    <3>3. Found(old, r.key) = 0
      BY <3>1, <3>2, NothingThere
    <3>4. 0 \in V
      BY <3>1, <3>3, <1>3
    <3> QED
      BY <2>2, <3>4, BlankedUnder
  <2> QED
    BY <2>1, <2>2
<1>8. Adrift(old, r.cur) => Adrift(new, r.cur)
  BY <1>1, <1>6 DEF Adrift, Wiped, Hung
<1>9. Wiped(old, r.cur) => Wiped(new, r.cur)
  BY <1>1, <1>6 DEF Wiped
<1>10. new[r.cur].name.len <= old[r.cur].name.len
  BY <1>1, <1>6 DEF Named
<1>11. DOMAIN old \subseteq DOMAIN new
  BY <1>1
<1> QED
  BY <1>3, <1>4, <1>5, <1>7, <1>8, <1>9, <1>10, <1>11, GuideStays

\* The parent lets go of a node whose name was wiped.
LEMMA GuidedUnlinks ==
  ASSUME NEW old, NEW new, NEW q \in DOMAIN old, NEW f \in Links, NEW o \in DOMAIN old, o = old[q].link[f], o # 0,
         Grounded(old), Named(old), Grounded(new), Named(new), OneParent(old),
         Unlinks(old, new, q, f), Free(old, o), old[o].name.text = 0,
         NEW r, Reads(old, r), NEW W, NEW V, W \subseteq V, r.at # "idle" => Found(new, r.key) \in V, Guided(old, r, W)
  PROVE  Guided(new, r, V) /\ \A k : Key(k) => Found(new, k) = Found(old, k)
<1>1. /\ DOMAIN new = DOMAIN old
      /\ \A p \in DOMAIN old : new[p].name = old[p].name /\ new[p].prop = old[p].prop
      /\ \A p \in DOMAIN old : \A g \in Links : new[p].link[g] = IF p = q /\ g = f THEN 0 ELSE old[p].link[g]
  BY DEF Unlinks
<1>2. SameWay(old, new, o) /\ SameWay(new, old, o)
  BY <1>1 DEF SameWay, Free
<1>3. \A k : Key(k) => Found(new, k) = Found(old, k)
  BY <1>1, <1>2, FoundKept DEF Key, Free
<1>4. PICK C : Capped(old, C) /\ (r.at = "idle" \/ OnTrack(old, r) \/ (0 \in W /\ Lost(old, C, r)))
  BY DEF Guided
<1>5. Capped(new, C)
  <2>1. \A p \in DOMAIN old : \A g \in Links : Heir(new, C, p, g) = Heir(old, C, p, g)
    BY <1>1 DEF Heir
  <2> QED
    BY <2>1, <1>1, <1>4 DEF Capped
<1>6. r.cur \in DOMAIN old
  BY DEF Reads
<1>7. r.at # "idle" /\ OnTrack(old, r) => OnTrack(new, r) \/ (0 \in V /\ Lost(new, C, r))
  <2> SUFFICES ASSUME r.at # "idle", OnTrack(old, r) PROVE OnTrack(new, r) \/ (0 \in V /\ Lost(new, C, r))
    OBVIOUS
  <2>1. CASE r.cur # o
    BY <2>1, <1>2, OnTrackKept
  <2>2. CASE r.cur = o
    <3>1. Key(r.key)
      BY DEF Reads
    <3>2. \E m : On(old, r.key, o, r.depth, m)
      BY <2>2 DEF OnTrack, Dangles
    <3>3. Found(old, r.key) = 0
      BY <3>1, <3>2, NothingThere
    <3>4. 0 \in V
      BY <3>1, <3>3, <1>3
    <3>5. Wiped(new, o)
      BY <1>1 DEF Wiped
    <3>6. ~Hung(new, o)
      BY <1>1 DEF OneParent, Hung
    <3>7. Adrift(new, o)
      BY <1>1, <3>5, <3>6 DEF Adrift, Free
    <3> QED
      BY <2>2, <3>4, <3>5, <3>7 DEF Lost, Reads
  <2> QED
    BY <2>1, <2>2
<1>8. Adrift(old, r.cur) => Adrift(new, r.cur)
  BY <1>1, <1>6 DEF Adrift, Wiped, Hung
<1>9. /\ Wiped(old, r.cur) => Wiped(new, r.cur)
      /\ new[r.cur].name.len <= old[r.cur].name.len /\ DOMAIN old \subseteq DOMAIN new
  BY <1>1, <1>6 DEF Wiped, Named
<1> QED
  BY <1>3, <1>4, <1>5, <1>7, <1>8, <1>9, GuideStays

-------------------------------------------------------------------------------
(***************************************************************************)
(* The steps of the lookup itself.                                         *)
(***************************************************************************)
LEMMA GuidedDown ==
  ASSUME NEW t, Grounded(t), Named(t), Zombies(t), NEW r, Reads(t, r), NEW W, Guided(t, r, W),
         \/ r.at = "descend" /\ r.depth < Len(r.key) /\ r.way = "children"
         \/ r.at = "load" /\ r.way \in Links \ {"children"},
         t[r.cur].link[r.way] # 0,
         NEW s, s.at = "sibling", s.cur = t[r.cur].link[r.way], s.key = r.key, s.depth = r.depth
  PROVE  Guided(t, s, W)
<1>1. PICK C : Capped(t, C) /\ (OnTrack(t, r) \/ (0 \in W /\ Lost(t, C, r)))
  BY DEF Guided
<1>2. Target(s) = Target(r) /\ r.way \in Links /\ r.cur \in DOMAIN t
  BY DEF Target, Links, Reads
<1>3. ASSUME OnTrack(t, r) PROVE OnTrack(t, s)
  <2>1. CASE r.at = "descend"
    BY <2>1, <1>3, TrailSteps DEF OnTrack
  <2>2. CASE r.at = "load"
    BY <2>2, <1>3, TrailSteps DEF OnTrack, Dangles
  <2> QED
    BY <2>1, <2>2
<1>4. ASSUME Lost(t, C, r) PROVE Lost(t, C, s)
  <2>1. C[s.cur] = Heir(t, C, r.cur, r.way)
    BY <1>1, <1>2 DEF Capped
  <2>2. ~ (r.at = "descend" /\ Wiped(t, r.cur))
    BY <1>2 DEF Wiped, Zombies
  <2>3. ~ Adrift(t, r.cur)
    BY <1>2 DEF Adrift
  <2>4. CASE r.at = "load" /\ \E c \in C[r.cur] : c <= Target(r).len
    <3>1. r.way = "left" \/ r.way = "right"
      BY <2>4 DEF Links
    <3>2. \E c \in C[s.cur] : c <= Target(s).len
      BY <2>1, <2>4, <3>1, <1>2 DEF Heir
    <3> QED
      BY <3>2 DEF Lost
  <2>5. CASE r.at = "load" /\ r.way = "left" /\ Wiped(t, r.cur) /\ t[r.cur].name.len <= Target(r).len
    <3>1. t[r.cur].name.len \in C[s.cur]
      BY <2>1, <2>5 DEF Heir, Wiped
    <3> QED
      BY <3>1, <2>5, <1>2 DEF Lost
  <2> QED
    BY <1>4, <2>2, <2>3, <2>4, <2>5 DEF Lost
<1> QED
  BY <1>1, <1>3, <1>4 DEF Guided

LEMMA GuidedName ==
  ASSUME NEW t, Grounded(t), Named(t), NEW r, Reads(t, r), NEW W, Guided(t, r, W), r.at = "sibling",
         NEW s, s.cur = r.cur, s.key = r.key,
         IF t[r.cur].name = Target(r) THEN s.at = "descend" /\ s.depth = r.depth + 1
         ELSE s.at = "load" /\ s.depth = r.depth /\ s.way = Turn(t, r.key, r.cur, r.depth)
  PROVE  Guided(t, s, W)
<1>1. PICK C : Capped(t, C) /\ (OnTrack(t, r) \/ (0 \in W /\ Lost(t, C, r)))
  BY DEF Guided
<1>2. Target(r) = r.key[r.depth + 1] /\ Target(r).len \in Nat /\ Target(r).text > 0 /\ r.cur \in DOMAIN t
  BY Targets DEF Target, Reads
<1>3. ASSUME OnTrack(t, r) PROVE OnTrack(t, s)
  <2>1. On(t, r.key, r.cur, r.depth, "sibling")
    BY <1>3 DEF OnTrack
  <2>2. CASE t[r.cur].name = Target(r)
    BY <2>1, <2>2, <1>2, TrailSteps DEF OnTrack
  <2>3. CASE t[r.cur].name # Target(r)
    BY <2>1, <2>3, <1>2 DEF OnTrack, Dangles, Turn
  <2> QED
    BY <2>2, <2>3
<1>4. ASSUME Lost(t, C, r) PROVE Lost(t, C, s)
  <2>1. (\E c \in C[r.cur] : c <= Target(r).len) \/ Adrift(t, r.cur)
    BY <1>4 DEF Lost
  <2>2. t[r.cur].name # Target(r)
    <3>1. ASSUME NEW c \in C[r.cur], c <= Target(r).len PROVE t[r.cur].name # Target(r)
      <4>1. t[r.cur].name.len \in Nat /\ c \in Nat /\ t[r.cur].name.len < c
        BY <1>1, <1>2 DEF Capped, Named
      <4> QED
        BY <4>1, <3>1, <1>2
    <3>2. Adrift(t, r.cur) => t[r.cur].name # Target(r)
      BY <1>2 DEF Adrift, Wiped
    <3> QED
      BY <2>1, <3>1, <3>2
  <2>3. Target(s) = Target(r)
    BY <2>2 DEF Target
  <2> QED
    BY <2>1, <2>2, <2>3 DEF Lost
<1> QED
  BY <1>1, <1>3, <1>4 DEF Guided

\* What a lookup returns is among what it may return.
LEMMA GuidedEnd ==
  ASSUME NEW t, Grounded(t), Zombies(t), NEW r, Reads(t, r), NEW W, Guided(t, r, W), Found(t, r.key) \in W,
         NEW p,
         \/ /\ \/ r.at = "descend" /\ r.depth < Len(r.key) /\ r.way = "children"
               \/ r.at = "load" /\ r.way \in Links \ {"children"}
            /\ t[r.cur].link[r.way] = 0 /\ p = 0
         \/ r.at = "descend" /\ r.depth = Len(r.key) /\ p = t[r.cur].prop
  PROVE  p \in W
<1>1. PICK C : OnTrack(t, r) \/ (0 \in W /\ Lost(t, C, r))
  BY DEF Guided
<1>2. Len(r.key) \in Nat /\ Len(r.key) > 0 /\ r.cur \in DOMAIN t
  BY DEF Reads, Key
<1>3. CASE t[r.cur].link[r.way] = 0 /\ p = 0 /\ (r.at = "descend" => r.depth < Len(r.key) /\ r.way = "children")
  <2>1. CASE OnTrack(t, r)
    <3>1. Dangles(t, r.key, r.cur, r.depth, r.way)
      BY <1>3, <2>1 DEF OnTrack, Dangles
    <3> QED
      BY <3>1, <1>2, <1>3, WhatIsFound
  <2> QED
    BY <2>1, <1>1, <1>3
<1>4. CASE r.at = "descend" /\ r.depth = Len(r.key) /\ p = t[r.cur].prop
  <2>1. CASE OnTrack(t, r)
    BY <2>1, <1>2, <1>4, WhatIsFound DEF OnTrack
  <2>2. CASE 0 \in W /\ Lost(t, C, r)
    BY <2>2, <1>2, <1>4 DEF Lost, Wiped, Zombies
  <2> QED
    BY <2>1, <2>2, <1>1
<1> QED
  BY <1>3, <1>4

-------------------------------------------------------------------------------
(***************************************************************************)
(* Where a call and a lookup stand on the trie: x is the record of a call. *)
(***************************************************************************)
Adding == {"new_info", "alloc_long", "new_long", "publish"}
Placed(x) ==
  /\ x.pc \in {"descend", "sibling"} => On(node, x.key, x.cur, x.depth, x.pc)
  /\ x.pc \in {"new_node", "link"} => Dangles(node, x.key, x.cur, x.depth, x.way)
  /\ x.pc = "link" => node[x.fresh] = [ZeroNode EXCEPT !.name = Target(x)] /\ rd.cur # x.fresh
  /\ x.pc \in Adding => On(node, x.key, x.cur, Len(x.key), "descend") /\ node[x.cur].prop = 0
  /\ x.pc \in Adding \ {"new_info"} => \A o \in DOMAIN node : node[o].prop # x.fresh
  /\ x.pc \in {"prune_header", "prune_unlink"} => node[x.path[Len(x.path)].at].name.text = 0

Seeing ==
  /\ rd.at = "idle" => rd.key = <<>> /\ window = {}
  /\ rd.at # "idle" => Found(node, rd.key) \in window /\ rd.got = 0 /\ (rd.at = "load" <=> rd.way # "children")

Guide == Zombies(node) /\ Seeing /\ Guided(node, rd, window) /\ \A w \in Writers : Placed(wr[w])

\* The trie holds the same for every key.
Same == \A key \in Keys : Found(node', key) = Found(node, key)

LEMMA IdlePlaced == Placed(Idle) /\ Placed(Idle)'
  BY DEF Placed, Idle, Adding

LEMMA ReaderReads == Inv => Reads(node, rd)
<1> SUFFICES ASSUME Inv PROVE Reads(node, rd)
  OBVIOUS
<1>1. rd.at \in {"idle", "descend", "sibling", "load"} /\ rd.depth \in Nat
  BY DEF Inv, Reader, LookupRecord
<1>2. rd.at # "idle" => Key(rd.key)
  BY KeysAreKeys DEF Inv, Reader
<1> QED
  BY <1>1, <1>2 DEF Inv, Reader, Reads

\* The record of a call that is somewhere.
LEMMA CallKey ==
  ASSUME Inv, NEW w \in Writers, wr[w].pc # "idle"
  PROVE  wr[w].key \in Keys /\ Key(wr[w].key) /\ Len(wr[w].key) \in Nat /\ wr[w].depth \in Nat /\ wr[w].cur \in DOMAIN node
<1>1. wr[w] \in CallRecord /\ Stands(wr[w])
  BY Alone
<1>2. wr[w].key \in Keys /\ wr[w].depth \in Nat /\ wr[w].cur \in DOMAIN node
  BY <1>1 DEF Stands, CallRecord
<1> QED
  BY <1>2, KeysAreKeys DEF Key

LEMMA SeenOn ==
  ASSUME Inv', Guide, Watch, rd' = rd
  PROVE  Seeing' /\ window \subseteq window' /\ (rd.at # "idle" => Found(node', rd.key) \in window')
<1>1. window' = IF rd.at = "idle" THEN {} ELSE window \cup {Found(node', rd.key)}
  BY Watched
<1> QED
  BY <1>1 DEF Guide, Seeing

LEMMA PlacedStep ==
  ASSUME Inv, NEW w \in Writers, wr[w].pc # "idle", NEW c, wr' = [wr EXCEPT ![w] = c], Placed(c)'
  PROVE  \A v \in Writers : Placed(wr[v])'
<1>1. \A v \in Writers : wr'[v] = IF v = w THEN c ELSE Idle
  BY Alone DEF Inv
<1>2. Placed(Idle)'
  BY IdlePlaced
<1>3. SUFFICES ASSUME NEW v \in Writers PROVE Placed(wr[v])'
  OBVIOUS
<1>4. Placed(wr[v])' = Placed(IF v = w THEN c ELSE Idle)'
  BY <1>1 DEF Placed, Target
<1> QED
  BY <1>2, <1>4

\* A step of a call that stores nothing in the nodes.
LEMMA GuideMoves ==
  ASSUME Inv, Inv', Guide, Watch, rd' = rd, NEW w \in Writers, wr[w].pc # "idle", node' = node,
         NEW c, wr' = [wr EXCEPT ![w] = c], Placed(c)
  PROVE  Guide' /\ Same
<1>1. Placed(c)'
  BY DEF Placed, Target
<1>2. \A v \in Writers : Placed(wr[v])'
  BY <1>1, PlacedStep
<1>3. window' = window
  BY Watched DEF Guide, Seeing
<1>4. Seeing' /\ Guided(node, rd, window)' /\ Zombies(node)'
  BY <1>3 DEF Guide, Seeing
<1> QED
  BY <1>2, <1>4 DEF Guide, Same

\* A step of a call that stores something there.
LEMMA GuideStores ==
  ASSUME Inv, Inv', Guide, Watch, rd' = rd, NEW w \in Writers, wr[w].pc # "idle",
         NEW c, wr' = [wr EXCEPT ![w] = c], Placed(c)', Zombies(node'), Guided(node', rd, window')
  PROVE  Guide'
<1>1. \A v \in Writers : Placed(wr[v])'
  BY PlacedStep
<1>2. Seeing'
  BY SeenOn
<1>3. Guided(node, rd, window)' /\ Zombies(node)'
  OBVIOUS
<1> QED
  BY <1>1, <1>2, <1>3 DEF Guide

LEMMA GuideRequest ==
  ASSUME Inv, Inv', Guide, Watch, rd' = rd, NEW w \in Writers, Request(w) PROVE Guide' /\ Same
<1>1. PICK op, key, val : Begin(w, op, key, val)
  BY DEF Request, upsert, remove_with_prune
<1>2. PICK c : c = [Idle EXCEPT !.pc = "descend", !.op = op, !.key = key, !.val = val]
  OBVIOUS
<1>3. c.pc = "descend" /\ c.cur = 0 /\ c.depth = 0
  BY <1>2 DEF Idle
<1>4. wr' = [wr EXCEPT ![w] = c] /\ node' = node
  BY <1>1, <1>2 DEF Begin, area
<1>5. Placed(c)'
  BY <1>3, TrailSteps DEF Placed, Adding
<1>6. ASSUME NEW v \in Writers PROVE Placed(wr[v])'
  <2>1. CASE v = w
    <3>1. wr'[v] = c
      BY <2>1, <1>4 DEF Inv
    <3> QED
      BY <3>1, <1>5 DEF Placed, Target
  <2>2. CASE v # w
    <3>1. wr'[v] = wr[v] /\ Placed(wr[v])
      BY <2>2, <1>4 DEF Guide
    <3> QED
      BY <3>1, <1>4 DEF Placed, Target
  <2> QED
    BY <2>1, <2>2
<1>7. window' = window
  BY <1>4, Watched DEF Guide, Seeing
<1>8. Seeing' /\ Guided(node, rd, window)' /\ Zombies(node)'
  BY <1>4, <1>7 DEF Guide, Seeing
<1> QED
  BY <1>4, <1>6, <1>8 DEF Guide, Same

LEMMA GuideWalks ==
  ASSUME Inv, Inv', Guide, Watch, rd' = rd, NEW w \in Writers, Follow(w) \/ Match(w) PROVE Guide' /\ Same
<1>1. PICK x \in CallRecord : x = wr[w]
  BY DEF Inv, Walker
<1>2. x.pc # "idle" /\ Placed(x)
  BY <1>1 DEF Follow, Walking, Match, Guide
<1>3. Key(x.key) /\ Len(x.key) \in Nat
  BY <1>1, <1>2, CallKey
<1>4. CASE Follow(w)
  <2>1. PICK c : c = [x EXCEPT !.pc = "sibling", !.cur = LinkOf(w)]
    OBVIOUS
  <2>2. c.pc = "sibling" /\ c.cur = LinkOf(w) /\ c.key = x.key /\ c.depth = x.depth
    BY <2>1 DEF CallRecord
  <2>3. On(node, x.key, LinkOf(w), x.depth, "sibling")
    <3>1. CASE x.pc = "descend"
      <4>1. On(node, x.key, x.cur, x.depth, "descend")
        BY <3>1, <1>2 DEF Placed
      <4>2. x.depth < Len(x.key) /\ LinkOf(w) = node[x.cur].link["children"] /\ LinkOf(w) # 0
        BY <3>1, <1>1, <1>4 DEF Follow, Walking, LinkOf, Way
      <4> QED
        BY <4>1, <4>2, TrailSteps
    <3>2. CASE x.pc = "sibling"
      <4>1. Way(w) = Turn(node, x.key, x.cur, x.depth)
        BY <3>2, <1>1 DEF Way, Branch, Turn, Target
      <4>2. On(node, x.key, x.cur, x.depth, "sibling")
        BY <3>2, <1>2 DEF Placed
      <4>3. node[x.cur].name # x.key[x.depth + 1] /\ LinkOf(w) = node[x.cur].link[Way(w)] /\ LinkOf(w) # 0
        BY <3>2, <1>1, <1>4 DEF Follow, Walking, LinkOf, Target
      <4> QED
        BY <4>1, <4>2, <4>3, TrailSteps
    <3> QED
      BY <3>1, <3>2, <1>1, <1>4 DEF Follow, Walking
  <2>4. Placed(c)
    BY <2>2, <2>3 DEF Placed, Adding
  <2>5. wr' = [wr EXCEPT ![w] = c] /\ node' = node
    BY <2>1, <1>1, <1>4 DEF Follow, Become, area
  <2> QED
    BY <2>4, <2>5, <1>1, <1>2, GuideMoves
<1>5. CASE Match(w)
  <2>1. PICK c : c = [x EXCEPT !.pc = "descend", !.depth = @ + 1]
    OBVIOUS
  <2>2. c.pc = "descend" /\ c.cur = x.cur /\ c.key = x.key /\ c.depth = x.depth + 1 /\ x.pc = "sibling"
    BY <2>1, <1>1, <1>5 DEF CallRecord, Match
  <2>3. On(node, x.key, x.cur, x.depth + 1, "descend")
    BY <2>2, <1>1, <1>2, <1>5, TrailSteps DEF Placed, Match, Target
  <2>4. Placed(c)
    BY <2>2, <2>3 DEF Placed, Adding
  <2>5. wr' = [wr EXCEPT ![w] = c] /\ node' = node
    BY <2>1, <1>1, <1>5 DEF Match, Become, area
  <2> QED
    BY <2>4, <2>5, <1>1, <1>2, GuideMoves
<1> QED
  BY <1>4, <1>5

LEMMA GuideReturns ==
  ASSUME Inv, Inv', Guide, Watch, rd' = rd, NEW w \in Writers, wr[w].pc # "idle", node' = node,
         NEW is, Return(w, is)
  PROVE  Guide' /\ Same
<1>1. wr' = [wr EXCEPT ![w] = Idle]
  BY DEF Return
<1> QED
  BY <1>1, IdlePlaced, GuideMoves

LEMMA GuideAllocates ==
  ASSUME Inv, Inv', Guide, Watch, rd' = rd, NEW w \in Writers, wr[w].pc # "idle", NEW size, NEW c,
         Allocate(w, size, c), \A room : Placed([c EXCEPT !.room = room])
  PROVE  Guide' /\ Same
<1>1. node' = node
  BY DEF Allocate, area
<1>2. CASE Return(w, "full")
  BY <1>1, <1>2, GuideReturns
<1>3. CASE Become(w, [c EXCEPT !.room = bytes_used])
  <2>1. PICK d : d = [c EXCEPT !.room = bytes_used]
    OBVIOUS
  <2>2. wr' = [wr EXCEPT ![w] = d] /\ Placed(d)
    BY <2>1, <1>3 DEF Become
  <2> QED
    BY <2>2, <1>1, GuideMoves
<1> QED
  BY <1>2, <1>3 DEF Allocate

LEMMA GuideAllocations ==
  ASSUME Inv, Inv', Guide, Watch, rd' = rd, NEW w \in Writers, AllocNode(w) \/ AllocInfo(w) \/ AllocLong(w)
  PROVE  Guide' /\ Same
<1>1. PICK x \in CallRecord : x = wr[w]
  BY DEF Inv, Walker
<1>2. x.pc # "idle" /\ Placed(x)
  BY <1>1 DEF AllocNode, Walking, AllocInfo, Arrived, AllocLong, Guide
<1>3. CASE AllocNode(w)
  <2>1. PICK way : way = Way(w)
    OBVIOUS
  <2>2. PICK c : c = [x EXCEPT !.pc = "new_node", !.way = way]
    OBVIOUS
  <2>3. Dangles(node, x.key, x.cur, x.depth, way)
    <3>1. CASE x.pc = "descend"
      <4>1. On(node, x.key, x.cur, x.depth, "descend") /\ x.depth < Len(x.key) /\ way = "children"
        BY <3>1, <2>1, <1>1, <1>2, <1>3 DEF Placed, AllocNode, Walking, Way
      <4> QED
        BY <4>1 DEF Dangles
    <3>2. CASE x.pc = "sibling"
      <4>1. On(node, x.key, x.cur, x.depth, "sibling") /\ node[x.cur].name # x.key[x.depth + 1]
            /\ way = Turn(node, x.key, x.cur, x.depth)
        BY <3>2, <2>1, <1>1, <1>2, <1>3 DEF Placed, AllocNode, Walking, Way, Branch, Turn, Target
      <4> QED
        BY <4>1 DEF Dangles, Turn
    <3> QED
      BY <3>1, <3>2, <1>1, <1>3 DEF AllocNode, Walking
  <2>4. ASSUME NEW room PROVE Placed([c EXCEPT !.room = room])
    <3>1. PICK d : d = [c EXCEPT !.room = room]
      OBVIOUS
    <3>2. d.pc = "new_node" /\ d.cur = x.cur /\ d.way = way /\ d.key = x.key /\ d.depth = x.depth
      BY <3>1, <2>2 DEF CallRecord
    <3> QED
      BY <3>1, <3>2, <2>3 DEF Placed, Adding
  <2>5. Allocate(w, NodeSize(Target(wr[w])), c)
    BY <2>1, <2>2, <1>1, <1>3 DEF AllocNode
  <2> QED
    BY <2>4, <2>5, <1>1, <1>2, GuideAllocates
<1>4. CASE AllocInfo(w) \/ AllocLong(w)
  <2>p. PICK pc \in {"new_info", "new_long"} : \E size :
          /\ Allocate(w, size, [x EXCEPT !.pc = pc])
          /\ On(node, x.key, x.cur, Len(x.key), "descend") /\ node[x.cur].prop = 0
          /\ pc = "new_long" => \A o \in DOMAIN node : node[o].prop # x.fresh
    <3>1. CASE AllocInfo(w)
      <4>1. On(node, x.key, x.cur, Len(x.key), "descend") /\ node[x.cur].prop = 0
        BY <3>1, <1>1, <1>2 DEF AllocInfo, Arrived, Slot, Placed
      <4> QED
        BY <4>1, <3>1, <1>1 DEF AllocInfo
    <3>2. CASE AllocLong(w)
      <4>1. /\ On(node, x.key, x.cur, Len(x.key), "descend") /\ node[x.cur].prop = 0
            /\ \A o \in DOMAIN node : node[o].prop # x.fresh
        BY <3>2, <1>1, <1>2 DEF AllocLong, Placed, Adding
      <4> QED
        BY <4>1, <3>2, <1>1 DEF AllocLong
    <3> QED
      BY <3>1, <3>2, <1>4
  <2>1. PICK size :
          /\ Allocate(w, size, [x EXCEPT !.pc = pc])
          /\ On(node, x.key, x.cur, Len(x.key), "descend") /\ node[x.cur].prop = 0
          /\ pc = "new_long" => \A o \in DOMAIN node : node[o].prop # x.fresh
    BY <2>p
  <2>2. PICK c : c = [x EXCEPT !.pc = pc]
    OBVIOUS
  <2>3. ASSUME NEW room PROVE Placed([c EXCEPT !.room = room])
    <3>1. PICK d : d = [c EXCEPT !.room = room]
      OBVIOUS
    <3>2. d.pc = pc /\ d.key = x.key /\ d.cur = x.cur /\ d.fresh = x.fresh
      BY <3>1, <2>2 DEF CallRecord
    <3> QED
      BY <3>1, <3>2, <2>1 DEF Placed, Adding
  <2> QED
    BY <2>1, <2>2, <2>3, <1>1, <1>2, GuideAllocates
<1> QED
  BY <1>3, <1>4

LEMMA GuideEnds ==
  ASSUME Inv, Inv', Guide, Watch, rd' = rd, NEW w \in Writers, Miss(w) \/ NoSlot(w) \/ Done(w) \/ Kill(w)
  PROVE  Guide' /\ Same
<1>1. wr[w].pc # "idle" /\ node' = node
  BY DEF Miss, Walking, NoSlot, Arrived, Kill, Done, area
<1>2. \E is : Return(w, is)
  BY DEF Miss, NoSlot, Kill, Done
<1> QED
  BY <1>1, <1>2, GuideReturns

LEMMA GuideInfo ==
  ASSUME Inv, Inv', Guide, Watch, rd' = rd, NEW w \in Writers,
         update(w) \/ new_prop_info(w) \/ new_prop_info_long(w) \/ Wipe(w)
  PROVE  Guide' /\ Same
<1>1. PICK x \in CallRecord : x = wr[w]
  BY DEF Inv, Walker
<1>2. x.pc # "idle" /\ node' = node /\ Placed(x)
  BY <1>1 DEF update, Arrived, new_prop_info, new_prop_info_long, Wipe, Guide
<1>3. CASE update(w)
  <2>1. CASE Return(w, "too_long")
    BY <2>1, <1>1, <1>2, GuideReturns
  <2>2. CASE Become(w, [x EXCEPT !.pc = "done"])
    <3>1. PICK c : c = [x EXCEPT !.pc = "done"]
      OBVIOUS
    <3>2. Placed(c) /\ wr' = [wr EXCEPT ![w] = c]
      BY <2>2, <3>1, <1>1 DEF Placed, Adding, CallRecord, Become
    <3> QED
      BY <3>2, <1>1, <1>2, GuideMoves
  <2> QED
    BY <2>1, <2>2, <1>1, <1>3 DEF update
<1>4. CASE new_prop_info(w)
  <2>1. PICK pc \in {"alloc_long", "publish"} : Become(w, [x EXCEPT !.pc = pc, !.fresh = x.room, !.room = 0])
    BY <1>1, <1>4 DEF new_prop_info
  <2>2. PICK c : c = [x EXCEPT !.pc = pc, !.fresh = x.room, !.room = 0]
    OBVIOUS
  <2>3. c.pc = pc /\ c.fresh = x.room /\ c.key = x.key /\ c.cur = x.cur
    BY <2>2 DEF CallRecord
  <2>4. \A o \in DOMAIN node : node[o].prop # x.room
    <3>1. x.pc = "new_info" /\ Allocated(x)
      BY <1>1, <1>2, <1>4, Alone DEF new_prop_info
    <3>2. x.room = bytes_used
      BY <3>1 DEF Allocated
    <3>3. \A p \in DOMAIN info : p \in Nat /\ p < bytes_used
      BY Below DEF Inv
    <3>4. 0 < bytes_used
      BY Below DEF Inv, AreaType
    <3>5. \A o \in DOMAIN node : node[o].prop = 0 \/ node[o].prop \in DOMAIN info
      BY DEF Inv, LinksLead
    <3> QED
      BY <3>2, <3>3, <3>4, <3>5
  <2>5. On(node, x.key, x.cur, Len(x.key), "descend") /\ node[x.cur].prop = 0
    BY <1>1, <1>2, <1>4 DEF Placed, Adding, new_prop_info
  <2>6. Placed(c)
    BY <2>3, <2>4, <2>5 DEF Placed, Adding
  <2>7. wr' = [wr EXCEPT ![w] = c]
    BY <2>1, <2>2 DEF Become
  <2> QED
    BY <2>6, <2>7, <1>1, <1>2, GuideMoves
<1>5. CASE new_prop_info_long(w)
  <2>1. PICK c : c = [x EXCEPT !.pc = "publish", !.room = 0]
    OBVIOUS
  <2>2. c.pc = "publish" /\ c.fresh = x.fresh /\ c.key = x.key /\ c.cur = x.cur /\ wr' = [wr EXCEPT ![w] = c]
    BY <2>1, <1>1, <1>5 DEF CallRecord, new_prop_info_long, Become
  <2>3. /\ On(node, x.key, x.cur, Len(x.key), "descend") /\ node[x.cur].prop = 0
        /\ \A o \in DOMAIN node : node[o].prop # x.fresh
    BY <1>1, <1>2, <1>5 DEF Placed, Adding, new_prop_info_long
  <2>4. Placed(c)
    BY <2>2, <2>3 DEF Placed, Adding
  <2> QED
    BY <2>2, <2>4, <1>1, <1>2, GuideMoves
<1>6. CASE Wipe(w)
  <2>1. PICK c : c = [x EXCEPT !.pc = "prune", !.fresh = 0, !.cur = 0, !.depth = 0, !.path = <<[at |-> 0, link |-> 1]>>]
    OBVIOUS
  <2>2. c.pc = "prune" /\ wr' = [wr EXCEPT ![w] = c]
    BY <2>1, <1>1, <1>6 DEF Wipe, Become, CallRecord
  <2>3. Placed(c)
    BY <2>2 DEF Placed, Adding
  <2> QED
    BY <2>2, <2>3, <1>1, <1>2, GuideMoves
<1> QED
  BY <1>3, <1>4, <1>5, <1>6

\* prune_trie between its stores.
LEMMA BackIs ==
  ASSUME NEW w, NEW call, Back(w, call)
  PROVE  \E path : wr' = [wr EXCEPT ![w] = [call EXCEPT !.path = path]]
  BY DEF Back, Become

LEMMA GuidePruneMoves ==
  ASSUME Inv, Inv', Guide, Watch, rd' = rd, NEW w \in Writers, PruneInto(w) \/ PruneKeep(w)
  PROVE  Guide' /\ Same
<1>1. PICK x \in CallRecord : x = wr[w]
  BY DEF Inv, Walker
<1>2. x.pc = "prune" /\ node' = node
  BY <1>1 DEF PruneInto, Visiting, PruneKeep, Visited, area
<1>p. PICK pc \in {"prune", "done"} : \E path : wr' = [wr EXCEPT ![w] = [[x EXCEPT !.pc = pc] EXCEPT !.path = path]]
  <2>1. CASE PruneInto(w)
    <3>1. PICK path : Become(w, [x EXCEPT !.path = path])
      BY <2>1, <1>1 DEF PruneInto
    <3>2. [x EXCEPT !.path = path] = [[x EXCEPT !.pc = "prune"] EXCEPT !.path = path]
      BY <1>2 DEF CallRecord
    <3> QED
      BY <3>1, <3>2 DEF Become
  <2>2. CASE PruneKeep(w)
    <3>1. PICK pc \in {"prune", "done"} : Back(w, [x EXCEPT !.pc = pc])
      BY <2>2, <1>1 DEF PruneKeep
    <3> QED
      BY <3>1, BackIs
  <2> QED
    BY <2>1, <2>2
<1>3. PICK path : wr' = [wr EXCEPT ![w] = [[x EXCEPT !.pc = pc] EXCEPT !.path = path]]
  BY <1>p
<1>4. PICK c : c = [[x EXCEPT !.pc = pc] EXCEPT !.path = path]
  OBVIOUS
<1>5. c.pc = pc
  BY <1>4 DEF CallRecord
<1>6. Placed(c)
  BY <1>3, <1>5 DEF Placed, Adding
<1> QED
  BY <1>1, <1>2, <1>3, <1>4, <1>6, GuideMoves

LEMMA DanglesKept ==
  ASSUME NEW old, NEW new, NEW x, Grounded(old), SameWay(old, new, x), NEW key, Len(key) \in Nat,
         NEW o \in DOMAIN old, o # x, NEW e, NEW way, Dangles(old, key, o, e, way)
  PROVE  Dangles(new, key, o, e, way)
<1>1. new[o].name = old[o].name
  BY DEF SameWay
<1>2. \A m : On(old, key, o, e, m) => On(new, key, o, e, m)
  BY Within
<1> QED
  BY <1>1, <1>2 DEF Dangles, Turn

LEMMA GuideNewNode ==
  ASSUME Inv, Inv', Shape, Guide, Watch, rd' = rd, NEW w \in Writers, new_trie_node(w) PROVE Guide' /\ Same
<1>1. PICK x \in CallRecord : x = wr[w]
  BY DEF Inv, Walker
<1>2. x.pc = "new_node" /\ Placed(x) /\ Stands(x) /\ Allocated(x)
  BY <1>1, Alone DEF new_trie_node, Guide
<1>3. PICK l : l = x.room
  OBVIOUS
<1>4. l = bytes_used /\ x.cur \in DOMAIN node
  BY <1>2, <1>3 DEF Allocated, Stands
<1>5. PICK n : n = [ZeroNode EXCEPT !.name = Target(x)]
  OBVIOUS
<1>6. n.prop = 0 /\ \A f \in Links : n.link[f] = 0
  BY <1>5 DEF ZeroNode, Links
<1>7. node' = Put(node, l, n)
  BY <1>1, <1>3, <1>5 DEF new_trie_node
<1>8. l \notin DOMAIN node
  BY <1>4, Below DEF Inv
<1>9. PICK old, new : old = node /\ new = node'
  OBVIOUS
<1>10. Extends(old, new, l) /\ new[l] = n
  BY <1>6, <1>7, <1>8, <1>9 DEF Put, Extends
<1>11. Grounded(old) /\ Named(old) /\ Grounded(new) /\ Named(new) /\ Reads(old, rd)
  BY <1>9, Ground, ReaderReads
<1>12. window \subseteq window' /\ Guided(old, rd, window) /\ Zombies(old)
  BY <1>9, SeenOn DEF Guide
<1>13. Guided(new, rd, window') /\ \A key : Key(key) => Found(new, key) = Found(old, key)
  BY <1>6, <1>10, <1>11, <1>12, GuidedExtends
<1>14. Zombies(new)
  <2>1. n.link["children"] = 0
    BY <1>6 DEF Links
  <2> QED
    BY <2>1, <1>6, <1>10, <1>12 DEF Zombies, Extends
<1>15. PICK c : c = [x EXCEPT !.pc = "link", !.fresh = l, !.room = 0]
  OBVIOUS
<1>16. c.pc = "link" /\ c.fresh = l /\ c.cur = x.cur /\ c.way = x.way /\ c.key = x.key /\ c.depth = x.depth
  BY <1>15 DEF CallRecord
<1>17. Dangles(new, x.key, x.cur, x.depth, x.way)
  <2>1. SameWay(old, new, l)
    BY <1>10 DEF SameWay, Extends
  <2>2. Len(x.key) \in Nat
    BY <1>1, <1>2, CallKey
  <2>3. Dangles(old, x.key, x.cur, x.depth, x.way)
    BY <1>2, <1>9 DEF Placed
  <2> QED
    BY <2>1, <2>2, <2>3, <1>4, <1>8, <1>9, <1>11, DanglesKept
<1>18. rd.cur # l
  BY <1>8, <1>9, <1>11 DEF Reads
<1>19. Placed(c)'
  <2>1. Target(c) = Target(x)
    BY <1>16 DEF Target
  <2> QED
    BY <2>1, <1>5, <1>9, <1>10, <1>16, <1>17, <1>18 DEF Placed, Adding, Target
<1>20. wr' = [wr EXCEPT ![w] = c]
  BY <1>1, <1>3, <1>15 DEF new_trie_node, Become
<1>21. Same
  BY <1>9, <1>13, KeysAreKeys DEF Same
<1> QED
  BY <1>1, <1>2, <1>9, <1>13, <1>14, <1>19, <1>20, <1>21, GuideStores

LEMMA GuideLinkNode ==
  ASSUME Inv, Inv', Shape, Guide, Watch, rd' = rd, NEW w \in Writers, LinkNode(w) PROVE Guide' /\ Same
<1>1. PICK x \in CallRecord : x = wr[w]
  BY DEF Inv, Walker
<1>2. x.pc = "link" /\ Placed(x) /\ Stands(x) /\ Allocated(x) /\ Pruned(x) /\ Tree(node)
  BY <1>1, Alone, Calling DEF LinkNode, Guide
<1>3. PICK q \in DOMAIN node, f \in Links, l \in DOMAIN node : q = x.cur /\ f = x.way /\ l = x.fresh /\ q < l
  BY <1>2 DEF Stands, Allocated, CallRecord
<1>4. node' = [node EXCEPT ![q].link[f] = l]
  BY <1>1, <1>3 DEF LinkNode
<1>5. PICK old, new : old = node /\ new = node'
  OBVIOUS
<1>6. Hangs(old, new, q, f, l)
  <2>1. \A o \in DOMAIN node : node[o] \in Node
    BY Typed DEF Inv
  <2> QED
    BY <2>1, <1>4, <1>5 DEF Hangs, Node
<1>7. l # 0 /\ l # q
  <2>1. q \in Nat /\ l \in Nat
    BY Typed DEF Inv
  <2> QED
    BY <2>1, <1>3
<1>8. /\ Key(x.key) /\ Len(x.key) \in Nat /\ Dangles(old, x.key, q, x.depth, f) /\ old[q].link[f] = 0
      /\ ~Hung(old, l) /\ (q = 0 \/ Hung(old, q)) /\ rd.cur # l /\ old[l] = [ZeroNode EXCEPT !.name = Target(x)]
  BY <1>1, <1>2, <1>3, <1>5, CallKey DEF Placed, Pruned
<1>9. Free(old, l) /\ old[l].name = x.key[x.depth + 1]
  BY <1>8 DEF Free, ZeroNode, Links, Target
<1>10. Grounded(old) /\ Named(old) /\ Grounded(new) /\ Named(new) /\ Reads(old, rd)
  BY <1>5, Ground, ReaderReads
<1>11. window \subseteq window' /\ Guided(old, rd, window) /\ Zombies(old)
  BY <1>5, SeenOn DEF Guide
<1>12. Guided(new, rd, window') /\ \A key : Key(key) => Found(new, key) = Found(old, key)
  <2>1. HangsThere(old, new, q, f, l, x.key, x.depth)
    BY <1>3, <1>5, <1>6, <1>7, <1>8, <1>9 DEF HangsThere
  <2> QED
    BY <2>1, <1>8, <1>10, <1>11, GuidedHangs
<1>13. SameWay(old, new, l)
  BY <1>5, <1>6, <1>8, <1>9 DEF SameWay, Hangs, Free
<1>14. new[q].name = old[q].name /\ new[q].link[f] = l /\ new[l].name = x.key[x.depth + 1]
  BY <1>3, <1>5, <1>6, <1>9 DEF Hangs
<1>15. On(new, x.key, l, x.depth, "sibling")
  <2>1. Dangles(new, x.key, q, x.depth, f)
    BY <1>3, <1>5, <1>7, <1>8, <1>10, <1>13, DanglesKept
  <2> QED
    BY <2>1, <1>7, <1>14, TrailSteps DEF Dangles
<1>16. On(new, x.key, l, x.depth + 1, "descend")
  BY <1>14, <1>15, TrailSteps
<1>17. Zombies(new)
  <2>1. ASSUME NEW o \in DOMAIN new \ {0}, new[o].name.text = 0
        PROVE  new[o].prop = 0 /\ new[o].link["children"] = 0
    <3>1. o \in DOMAIN old /\ old[o].name.text = 0 /\ new[o].prop = 0 /\ old[o].link["children"] = 0
      BY <2>1, <1>6, <1>11 DEF Hangs, Zombies
    <3>2. CASE o = q /\ f = "children"
      <4>1. On(old, x.key, q, x.depth, "descend")
        BY <3>2, <1>8 DEF Dangles
      <4>2. x.depth > 0 /\ x.depth \in 0..Len(x.key) /\ old[q].name = x.key[x.depth]
        BY <4>1, <3>2, <2>1, <1>8, <1>10, TrailOrigin, TrailType
      <4> QED
        BY <4>2, <3>1, <3>2, <1>8 DEF Key
    <3>3. CASE ~(o = q /\ f = "children")
      <4>1. "children" \in Links
        BY DEF Links
      <4> QED
        BY <4>1, <3>1, <3>3, <1>6 DEF Hangs
    <3> QED
      BY <3>2, <3>3
  <2> QED
    BY <2>1 DEF Zombies
<1>18. PICK c : c = [x EXCEPT !.pc = "descend", !.cur = x.fresh, !.depth = @ + 1, !.fresh = 0, !.way = "children"]
  OBVIOUS
<1>19. c.pc = "descend" /\ c.cur = l /\ c.depth = x.depth + 1 /\ c.key = x.key
  BY <1>3, <1>18 DEF CallRecord
<1>20. Placed(c)'
  BY <1>5, <1>16, <1>19 DEF Placed, Adding
<1>21. wr' = [wr EXCEPT ![w] = c]
  BY <1>1, <1>18 DEF LinkNode, Become
<1>22. Same
  BY <1>5, <1>12, KeysAreKeys DEF Same
<1> QED
  BY <1>1, <1>2, <1>5, <1>12, <1>17, <1>20, <1>21, <1>22, GuideStores

LEMMA GuideSetProp ==
  ASSUME Inv, Inv', Guide, Watch, rd' = rd, NEW w \in Writers, Publish(w) \/ Detach(w) PROVE Guide'
<1>1. PICK x \in CallRecord : x = wr[w]
  BY DEF Inv, Walker
<1>2. x.pc # "idle" /\ x.cur \in DOMAIN node /\ Placed(x)
  <2>1. x.pc # "idle"
    BY <1>1 DEF Publish, Detach, Arrived
  <2> QED
    BY <2>1, <1>1, Alone DEF Stands, Guide
<1>3. Key(x.key) /\ Len(x.key) \in Nat
  BY <1>1, <1>2, CallKey
<1>4. PICK p : node' = [node EXCEPT ![x.cur].prop = p] /\ (p = 0 \/ x.pc = "publish")
  BY <1>1 DEF Publish, Detach
<1>p. PICK pc \in {"done", "wipe"} : \E fresh : wr' = [wr EXCEPT ![w] = [x EXCEPT !.pc = pc, !.fresh = fresh]]
  <2>1. CASE Publish(w)
    <3>1. [x EXCEPT !.pc = "done", !.fresh = x.fresh] = [x EXCEPT !.pc = "done"]
      BY DEF CallRecord
    <3> QED
      BY <2>1, <3>1, <1>1 DEF Publish, Become
  <2>2. CASE Detach(w)
    BY <2>2, <1>1 DEF Detach, Become
  <2> QED
    BY <2>1, <2>2
<1>5. PICK fresh : wr' = [wr EXCEPT ![w] = [x EXCEPT !.pc = pc, !.fresh = fresh]]
  BY <1>p
<1>6. PICK c : c = [x EXCEPT !.pc = pc, !.fresh = fresh]
  OBVIOUS
<1>7. c.pc = pc
  BY <1>6 DEF CallRecord
<1>8. Placed(c)'
  BY <1>5, <1>7 DEF Placed, Adding
<1>9. PICK old, new : old = node /\ new = node'
  OBVIOUS
<1>10. Reprops(old, new, x.cur) /\ new[x.cur].prop = p
  <2>1. \A o \in DOMAIN node : node[o] \in Node
    BY Typed DEF Inv
  <2> QED
    BY <2>1, <1>2, <1>4, <1>9 DEF Reprops, Node
<1>11. Grounded(old) /\ Named(old) /\ Grounded(new) /\ Named(new) /\ Reads(old, rd)
  BY <1>9, Ground, ReaderReads
<1>12. window \subseteq window' /\ Guided(old, rd, window) /\ Zombies(old)
  BY <1>9, SeenOn DEF Guide
<1>13. Guided(new, rd, window')
  BY <1>10, <1>11, <1>12, GuidedReprops
<1>14. x.pc = "publish" /\ x.cur # 0 => old[x.cur].name.text # 0
  <2> SUFFICES ASSUME x.pc = "publish", x.cur # 0 PROVE old[x.cur].name.text # 0
    OBVIOUS
  <2>1. On(old, x.key, x.cur, Len(x.key), "descend")
    BY <1>2, <1>9 DEF Placed, Adding
  <2>2. Len(x.key) > 0 /\ old[x.cur].name = x.key[Len(x.key)]
    BY <2>1, <1>3, <1>11, TrailOrigin
  <2> QED
    BY <2>2, <1>3 DEF Key
<1>15. Zombies(new)
  <2>1. "children" \in Links
    BY DEF Links
  <2> QED
    BY <2>1, <1>4, <1>10, <1>12, <1>14 DEF Zombies, Reprops
<1> QED
  BY <1>1, <1>2, <1>5, <1>6, <1>8, <1>9, <1>13, <1>15, GuideStores

\* The name of a node, then its header.
LEMMA GuideBlanks ==
  ASSUME Inv, Inv', Guide, Watch, rd' = rd, NEW w \in Writers, wr[w].pc # "idle",
         NEW c, wr' = [wr EXCEPT ![w] = c], Placed(c)',
         NEW o \in DOMAIN node, Blanks(node, node', o), Free(node, o)
  PROVE  Guide' /\ Same
<1>1. PICK old, new : old = node /\ new = node'
  OBVIOUS
<1>2. Grounded(old) /\ Named(old) /\ Grounded(new) /\ Named(new) /\ Reads(old, rd)
  BY <1>1, Ground, ReaderReads
<1>3. /\ window \subseteq window' /\ Guided(old, rd, window) /\ Zombies(old)
      /\ rd.at # "idle" => Found(new, rd.key) \in window'
  BY <1>1, SeenOn DEF Guide
<1>4. Blanks(old, new, o) /\ Free(old, o) /\ o \in DOMAIN old
  BY <1>1
<1>5. Guided(new, rd, window') /\ \A key : Key(key) => Found(new, key) = Found(old, key)
  BY <1>2, <1>3, <1>4, GuidedBlanks
<1>6. Zombies(new)
  <2>1. "children" \in Links
    BY DEF Links
  <2> QED
    BY <2>1, <1>3, <1>4 DEF Zombies, Blanks, SameLinks, Free
<1>7. Same
  BY <1>1, <1>5, KeysAreKeys DEF Same
<1> QED
  BY <1>1, <1>5, <1>6, <1>7, GuideStores

LEMMA GuideWipeName ==
  ASSUME Inv, Inv', Guide, Watch, rd' = rd, NEW w \in Writers, PruneWipeName(w) PROVE Guide' /\ Same
<1>1. PICK x \in CallRecord : x = wr[w]
  BY DEF Inv, Walker
<1>2. wr[w].pc \in Pruning /\ wr[w].pc = "prune"
  BY DEF PruneWipeName, Visited, Pruning
<1>3. PICK o \in DOMAIN node : o = Frame(w).at /\ o = x.path[Len(x.path)].at
  BY <1>1, <1>2, Visits DEF Frame
<1>4. Free(node, o)
  BY <1>3 DEF PruneWipeName, Redundant, Free
<1>5. Blanks(node, node', o) /\ node'[o].name.text = 0
  <2>1. \A q \in DOMAIN node : node[q] \in Node
    BY Typed DEF Inv
  <2>2. node' = [node EXCEPT ![o].name.text = 0]
    BY <1>3 DEF PruneWipeName
  <2>3. SameLinks(node, node')
    BY <2>1, <2>2 DEF SameLinks, Node
  <2>4. node[o].name \in Name /\ node[o].name.len \in Nat
    BY <2>1, Typed DEF Inv, Node
  <2>5. node'[o].name = [node[o].name EXCEPT !.text = 0]
    BY <2>1, <2>2 DEF Node
  <2>6. node'[o].name.text = 0 /\ node'[o].name.len = node[o].name.len
    BY <2>4, <2>5 DEF Name, Segment
  <2>7. \A q \in DOMAIN node \ {o} : node'[q].name = node[q].name
    BY <2>2
  <2> QED
    BY <2>3, <2>4, <2>6, <2>7 DEF Blanks
<1>6. PICK c : c = [x EXCEPT !.pc = "prune_header"]
  OBVIOUS
<1>7. c.pc = "prune_header" /\ c.path = x.path
  BY <1>6 DEF CallRecord
<1>8. Placed(c)'
  BY <1>3, <1>5, <1>7 DEF Placed, Adding
<1>9. wr' = [wr EXCEPT ![w] = c]
  BY <1>1, <1>6 DEF PruneWipeName, Become
<1> QED
  BY <1>2, <1>4, <1>5, <1>8, <1>9, GuideBlanks

LEMMA GuideWipeHeader ==
  ASSUME Inv, Inv', Shape, Guide, Watch, rd' = rd, NEW w \in Writers, PruneWipeHeader(w) PROVE Guide' /\ Same
<1>1. PICK x \in CallRecord : x = wr[w]
  BY DEF Inv, Walker
<1>2. wr[w].pc \in Pruning /\ wr[w].pc = "prune_header"
  BY DEF PruneWipeHeader, Pruning
<1>3. PICK o \in DOMAIN node : o = Frame(w).at /\ o = x.path[Len(x.path)].at
  BY <1>1, <1>2, Visits DEF Frame
<1>4. Free(node, o)
  BY <1>1, <1>2, <1>3, Calling DEF Pruned
<1>5. Blanks(node, node', o) /\ node'[o].name.text = 0
  <2>1. node[o] \in Node /\ node[o].name.len \in Nat
    BY Typed DEF Inv
  <2>2. ZeroNode.link = [f \in Links |-> 0] /\ ZeroNode.prop = 0 /\ ZeroNode.name.len = 0 /\ ZeroNode.name.text = 0
    BY DEF ZeroNode, RootName
  <2>3. node[o].link = [f \in Links |-> 0]
    BY <2>1, <1>4 DEF Free, Node
  <2>4. node' = [node EXCEPT ![o] = ZeroNode]
    BY <1>3 DEF PruneWipeHeader
  <2>5. SameLinks(node, node')
    BY <2>2, <2>3, <2>4, <1>4 DEF SameLinks, Free
  <2> QED
    BY <2>1, <2>2, <2>4, <2>5 DEF Blanks
<1>6. CASE Len(x.path) = 1
  <2>1. Back(w, [x EXCEPT !.pc = "done"])
    BY <1>1, <1>6 DEF PruneWipeHeader
  <2>2. PICK path : wr' = [wr EXCEPT ![w] = [[x EXCEPT !.pc = "done"] EXCEPT !.path = path]]
    BY <2>1, BackIs
  <2>3. PICK c : c = [[x EXCEPT !.pc = "done"] EXCEPT !.path = path]
    OBVIOUS
  <2>4. c.pc = "done"
    BY <2>3 DEF CallRecord
  <2>5. Placed(c)'
    BY <2>4 DEF Placed, Adding
  <2> QED
    BY <2>2, <2>3, <2>5, <1>2, <1>4, <1>5, GuideBlanks
<1>7. CASE Len(x.path) # 1
  <2>1. PICK c : c = [x EXCEPT !.pc = "prune_unlink"]
    OBVIOUS
  <2>2. c.pc = "prune_unlink" /\ c.path = x.path
    BY <2>1 DEF CallRecord
  <2>3. Placed(c)'
    BY <2>2, <1>3, <1>5 DEF Placed, Adding
  <2>4. wr' = [wr EXCEPT ![w] = c]
    BY <2>1, <1>1, <1>7 DEF PruneWipeHeader, Become
  <2> QED
    BY <2>3, <2>4, <1>2, <1>4, <1>5, GuideBlanks
<1> QED
  BY <1>6, <1>7

LEMMA GuideUnlink ==
  ASSUME Inv, Inv', Shape, Guide, Watch, rd' = rd, NEW w \in Writers, PruneUnlink(w) PROVE Guide' /\ Same
<1>1. PICK x \in CallRecord : x = wr[w]
  BY DEF Inv, Walker
<1>2. wr[w].pc \in Pruning /\ wr[w].pc = "prune_unlink" /\ Placed(x)
  BY <1>1 DEF PruneUnlink, Pruning, Guide
<1>3. PICK p \in Seq(Visit), k \in Nat : p = x.path /\ k = Len(p)
  BY <1>1, <1>2, Visits
<1>4. DOMAIN p = 1..k
  BY <1>1, <1>2, <1>3, Visits
<1>5. Leads(p, node) /\ Tree(node) /\ Free(node, p[k].at) /\ k > 1
  BY <1>1, <1>2, <1>3, Visits, Calling DEF Path, Pruned
<1>6. k - 1 \in DOMAIN p /\ k \in DOMAIN p /\ k - 1 < k
  BY <1>4, <1>5
<1>7. p[k - 1].link \in 1..3 /\ p[k - 1].at \in DOMAIN node /\ p[k - 1].at < p[k].at
      /\ node[p[k - 1].at].link[Order[p[k - 1].link]] = p[k].at
  BY <1>5, <1>6 DEF Leads
<1>8. PICK q \in DOMAIN node, f \in Links, o \in DOMAIN node :
        q = p[k - 1].at /\ f = Order[p[k - 1].link] /\ o = p[k].at
  BY <1>5, <1>6, <1>7, OrderFacts DEF Leads
<1>9. PICK old, new : old = node /\ new = node'
  OBVIOUS
<1>10. Unlinks(old, new, q, f)
  <2>1. \A r \in DOMAIN node : node[r] \in Node
    BY Typed DEF Inv
  <2>2. node' = [node EXCEPT ![q].link[f] = 0]
    BY <1>1, <1>3, <1>8 DEF PruneUnlink, Above
  <2> QED
    BY <2>1, <2>2, <1>9 DEF Unlinks, Node
<1>11. o = old[q].link[f] /\ Free(old, o) /\ OneParent(old) /\ old[o].name.text = 0
  <2>1. node[p[k].at].name.text = 0
    BY <1>1, <1>2, <1>3 DEF Placed
  <2> QED
    BY <2>1, <1>5, <1>7, <1>8, <1>9 DEF Tree
<1>12. o # 0
  <2>1. q \in Nat /\ o \in Nat /\ q < o
    BY <1>7, <1>8, Typed DEF Inv
  <2> QED
    BY <2>1
<1>13. Grounded(old) /\ Named(old) /\ Grounded(new) /\ Named(new) /\ Reads(old, rd)
  BY <1>9, Ground, ReaderReads
<1>14. /\ window \subseteq window' /\ Guided(old, rd, window) /\ Zombies(old)
       /\ rd.at # "idle" => Found(new, rd.key) \in window'
  BY <1>9, SeenOn DEF Guide
<1>15. Guided(new, rd, window') /\ \A key : Key(key) => Found(new, key) = Found(old, key)
  <2>1. q \in DOMAIN old /\ o \in DOMAIN old
    BY <1>8, <1>9
  <2> QED
    BY <2>1, <1>10, <1>11, <1>12, <1>13, <1>14, GuidedUnlinks
<1>16. Zombies(new)
  <2>1. "children" \in Links
    BY DEF Links
  <2> QED
    BY <2>1, <1>10, <1>14 DEF Zombies, Unlinks
<1>17. PICK path : wr' = [wr EXCEPT ![w] = [[x EXCEPT !.pc = "prune"] EXCEPT !.path = path]]
  <2>1. Back(w, [x EXCEPT !.pc = "prune"])
    BY <1>1 DEF PruneUnlink
  <2> QED
    BY <2>1, BackIs
<1>18. PICK c : c = [[x EXCEPT !.pc = "prune"] EXCEPT !.path = path]
  OBVIOUS
<1>19. c.pc = "prune"
  BY <1>18 DEF CallRecord
<1>20. Placed(c)'
  BY <1>19 DEF Placed, Adding
<1>21. Same
  BY <1>9, <1>15, KeysAreKeys DEF Same
<1> QED
  BY <1>2, <1>9, <1>15, <1>16, <1>17, <1>18, <1>20, <1>21, GuideStores

LEMMA GuideStoresAll ==
  ASSUME Inv, Inv', Shape, Guide, Watch, rd' = rd, NEW w \in Writers, Request(w) \/ Call(w) \/ Kill(w)
  PROVE  Guide' /\ (Same \/ Publish(w) \/ Detach(w))
<1>1. CASE Request(w)
  BY <1>1, GuideRequest
<1>2. CASE Follow(w) \/ Match(w) \/ AllocNode(w) \/ AllocInfo(w) \/ AllocLong(w)
  BY <1>2, GuideWalks, GuideAllocations
<1>3. CASE Miss(w) \/ NoSlot(w) \/ Done(w) \/ Kill(w)
  BY <1>3, GuideEnds
<1>4. CASE new_trie_node(w) \/ LinkNode(w)
  BY <1>4, GuideNewNode, GuideLinkNode
<1>5. CASE update(w) \/ new_prop_info(w) \/ new_prop_info_long(w) \/ Wipe(w)
  BY <1>5, GuideInfo
<1>6. CASE Publish(w) \/ Detach(w)
  BY <1>6, GuideSetProp
<1>7. CASE PruneInto(w) \/ PruneKeep(w) \/ PruneWipeName(w) \/ PruneWipeHeader(w) \/ PruneUnlink(w)
  BY <1>7, GuidePruneMoves, GuideWipeName, GuideWipeHeader, GuideUnlink
<1> QED
  BY <1>1, <1>2, <1>3, <1>4, <1>5, <1>6, <1>7 DEF Call

\* The lookup moves: nothing is stored.
LEMMA PlacedRead ==
  ASSUME Inv, Shape, Guide, UNCHANGED <<area, wr, ret, kills>>,
         rd'.cur = 0 \/ rd'.cur = rd.cur \/ \E f \in Links : rd'.cur = node[rd.cur].link[f]
  PROVE  \A w \in Writers : Placed(wr[w])'
<1>1. SUFFICES ASSUME NEW w \in Writers PROVE Placed(wr[w])'
  OBVIOUS
<1>2. PICK x : x = wr[w]
  OBVIOUS
<1>3. Placed(x) /\ Pruned(x) /\ Allocated(x) /\ Stands(x) /\ x = wr'[w] /\ node' = node
  BY <1>2 DEF Guide, Shape, Inv, Walker, area
<1>4. x.pc = "link" => rd'.cur # x.fresh
  <2> SUFFICES ASSUME x.pc = "link" PROVE rd'.cur # x.fresh
    OBVIOUS
  <2>1. ~Hung(node, x.fresh) /\ x.fresh \in DOMAIN node /\ x.cur < x.fresh /\ x.cur \in DOMAIN node /\ rd.cur # x.fresh
    BY <1>3 DEF Pruned, Allocated, Stands, Placed
  <2>2. x.fresh # 0
    BY <2>1, Typed DEF Inv
  <2>3. rd.cur \in DOMAIN node
    BY DEF Inv, Reader
  <2> QED
    BY <2>1, <2>2, <2>3 DEF Hung
<1>5. Placed(x)'
  BY <1>3, <1>4 DEF Placed, Target
<1> QED
  BY <1>3, <1>5 DEF Placed, Target

LEMMA GuideRead ==
  ASSUME Inv, Inv', Shape, Guide, Watch, Read, UNCHANGED <<area, wr, ret, kills>>
  PROVE  /\ Guide'
         /\ \/ rd.at = "idle" /\ rd'.at # "idle" /\ rd'.got = 0
            \/ rd.at # "idle" /\ rd'.at # "idle" /\ rd'.key = rd.key /\ rd'.got = rd.got /\ window' = window
            \/ rd.at # "idle" /\ rd'.at = "idle" /\ rd'.got \in window
<1>1. PICK r \in LookupRecord : r = rd
  BY DEF Inv, Reader
<1>t. PICK t : t = node
  OBVIOUS
<1>2. /\ Reads(t, r) /\ Grounded(t) /\ Named(t) /\ Zombies(t) /\ Guided(t, r, window)
      /\ r.at = "idle" => window = {}
      /\ r.at # "idle" => Found(t, r.key) \in window /\ r.got = 0 /\ (r.at = "load" <=> r.way # "children")
      /\ node' = t
  BY <1>1, <1>t, ReaderReads, Ground DEF Guide, Seeing, area
<1>3. window' = IF rd'.at = "idle" THEN {} ELSE window \cup {Found(t, rd'.key)}
  BY <1>2, Watched
<1>4. CASE \E key \in Keys : find(key)
  <2>1. PICK key \in Keys : rd.at = "idle" /\ rd' = [NoLookup EXCEPT !.at = "descend", !.key = key]
    BY <1>4 DEF find
  <2>2. rd'.at = "descend" /\ rd'.key = key /\ rd'.cur = 0 /\ rd'.depth = 0 /\ rd'.way = "children" /\ rd'.got = 0
    BY <2>1 DEF NoLookup
  <2>3. On(t, key, 0, 0, "descend")
    BY TrailSteps
  <2>4. Guided(t, rd', window')
    <3>1. OnTrack(t, rd')
      BY <2>2, <2>3 DEF OnTrack
    <3> QED
      BY <3>1, <1>2 DEF Guided
  <2>5. Seeing'
    BY <2>2, <1>2, <1>3 DEF Seeing
  <2>6. \A w \in Writers : Placed(wr[w])'
    BY <2>2, PlacedRead
  <2> QED
    BY <2>1, <2>2, <2>4, <2>5, <2>6, <1>2 DEF Guide
<1>5. ASSUME NEW p, EndLookup(p), r.at # "idle", p \in window
      PROVE  Guide' /\ rd.at # "idle" /\ rd'.at = "idle" /\ rd'.got \in window
  <2>1. rd'.at = "idle" /\ rd'.key = <<>> /\ rd'.cur = 0 /\ rd'.got = p
    BY <1>5 DEF EndLookup, NoLookup
  <2>2. Guided(t, rd', window') /\ Seeing'
    BY <2>1, <1>2, <1>3 DEF Guided, Seeing
  <2>3. \A w \in Writers : Placed(wr[w])'
    BY <2>1, PlacedRead
  <2> QED
    BY <2>1, <2>2, <2>3, <1>1, <1>t, <1>2, <1>5 DEF Guide
<1>6. ASSUME NEW s, rd' = s, Guided(t, s, window), r.at # "idle", s.at # "idle", s.key = r.key, s.got = r.got,
             s.at = "load" <=> s.way # "children",
             s.cur = r.cur \/ \E f \in Links : s.cur = t[r.cur].link[f]
      PROVE  Guide' /\ rd.at # "idle" /\ rd'.at # "idle" /\ rd'.key = rd.key /\ rd'.got = rd.got /\ window' = window
  <2>1. window' = window
    BY <1>2, <1>3, <1>6
  <2>2. Seeing' /\ Guided(node, rd, window)'
    BY <2>1, <1>2, <1>6 DEF Seeing
  <2>3. \A w \in Writers : Placed(wr[w])'
    BY <1>1, <1>t, <1>6, PlacedRead
  <2> QED
    BY <2>1, <2>2, <2>3, <1>1, <1>t, <1>2, <1>6 DEF Guide
<1>7. CASE ReadLink
  <2>1. PICK o : o = t[r.cur].link[r.way]
    OBVIOUS
  <2>2. \/ r.at = "descend" /\ r.depth < Len(r.key) /\ r.way = "children"
        \/ r.at = "load" /\ r.way \in Links \ {"children"}
    BY <1>1, <1>t, <1>2, <1>7 DEF ReadLink, LookupRecord
  <2>3. CASE o = 0
    <3>1. 0 \in window
      BY <2>1, <2>2, <2>3, <1>2, GuidedEnd
    <3>2. EndLookup(0)
      BY <2>1, <2>3, <1>1, <1>t, <1>7 DEF ReadLink
    <3> QED
      BY <2>2, <3>1, <3>2, <1>5
  <2>4. CASE o # 0
    <3>1. PICK s : s = [r EXCEPT !.at = "sibling", !.cur = o, !.way = "children"]
      OBVIOUS
    <3>2. s.at = "sibling" /\ s.cur = o /\ s.way = "children" /\ s.key = r.key /\ s.depth = r.depth /\ s.got = r.got
      BY <3>1 DEF LookupRecord
    <3>3. rd' = s
      BY <2>1, <2>4, <3>1, <1>1, <1>t, <1>7 DEF ReadLink
    <3>4. Guided(t, s, window)
      BY <2>1, <2>2, <2>4, <3>2, <1>2, GuidedDown
    <3>5. r.way \in Links
      BY DEF LookupRecord
    <3> QED
      BY <2>1, <2>2, <3>2, <3>3, <3>4, <3>5, <1>6
  <2> QED
    BY <2>3, <2>4
<1>8. CASE ReadName
  <2>1. r.at = "sibling" /\ r.way = "children" /\ Target(rd) = Target(r)
    BY <1>1, <1>t, <1>2, <1>8 DEF ReadName
  <2>2. CASE t[r.cur].name = Target(r)
    <3>1. PICK s : s = [r EXCEPT !.at = "descend", !.depth = @ + 1]
      OBVIOUS
    <3>2. s.at = "descend" /\ s.cur = r.cur /\ s.way = r.way /\ s.key = r.key /\ s.depth = r.depth + 1 /\ s.got = r.got
      BY <3>1 DEF LookupRecord
    <3>3. rd' = s
      BY <2>1, <2>2, <3>1, <1>1, <1>t, <1>8 DEF ReadName
    <3>4. Guided(t, s, window)
      BY <2>1, <2>2, <3>2, <1>2, GuidedName
    <3> QED
      BY <2>1, <3>2, <3>3, <3>4, <1>6
  <2>3. CASE t[r.cur].name # Target(r)
    <3>1. PICK way \in {"left", "right"} : way = Branch(rd) /\ way = Turn(t, r.key, r.cur, r.depth)
      BY <1>1, <1>t DEF Branch, Turn, Target
    <3>2. PICK s : s = [r EXCEPT !.at = "load", !.way = way]
      OBVIOUS
    <3>3. s.at = "load" /\ s.cur = r.cur /\ s.way = way /\ s.key = r.key /\ s.depth = r.depth /\ s.got = r.got
      BY <3>2 DEF LookupRecord
    <3>4. rd' = s
      BY <2>1, <2>3, <3>1, <3>2, <1>1, <1>t, <1>8 DEF ReadName
    <3>5. Guided(t, s, window)
      BY <2>1, <2>3, <3>1, <3>3, <1>2, GuidedName
    <3> QED
      BY <2>1, <3>1, <3>3, <3>4, <3>5, <1>6
  <2> QED
    BY <2>2, <2>3
<1>9. CASE ReadProp
  <2>1. r.at = "descend" /\ r.depth = Len(r.key) /\ EndLookup(t[r.cur].prop)
    BY <1>1, <1>t, <1>9 DEF ReadProp
  <2>2. t[r.cur].prop \in window
    BY <2>1, <1>2, GuidedEnd
  <2> QED
    BY <2>1, <2>2, <1>5
<1> QED
  BY <1>4, <1>7, <1>8, <1>9 DEF Read

LEMMA GuideInit == Init => Guide
<1> SUFFICES ASSUME Init PROVE Guide
  OBVIOUS
<1>1. DOMAIN node = {0} /\ node[0] = ZeroNode /\ (\A f \in Links : ZeroNode.link[f] = 0) /\ rd = NoLookup /\ window = {}
  BY DEF Init, ZeroNode
<1>2. Guided(node, rd, window)
  <2>1. PICK C : C = [o \in {0} |-> {}]
    OBVIOUS
  <2>2. Capped(node, C)
    BY <1>1, <2>1 DEF Capped
  <2> QED
    BY <1>1, <2>2 DEF Guided, NoLookup
<1>3. Zombies(node) /\ Seeing
  BY <1>1 DEF Zombies, Seeing, NoLookup
<1>4. \A w \in Writers : Placed(wr[w])
  BY IdlePlaced DEF Init
<1> QED
  BY <1>2, <1>3, <1>4 DEF Guide

LEMMA GuideNext ==
  Inv /\ Inv' /\ Shape /\ Guide /\ [Next]_vars => Guide'
<1> SUFFICES ASSUME Inv, Inv', Shape, Guide, [Next]_vars PROVE Guide'
  OBVIOUS
<1>1. CASE Watch /\ \E w \in Writers : (Request(w) \/ Call(w) \/ Kill(w)) /\ UNCHANGED rd
  BY <1>1, GuideStoresAll
<1>2. CASE Watch /\ Read /\ UNCHANGED <<area, wr, ret, kills>>
  BY <1>2, GuideRead
<1>3. CASE UNCHANGED vars
  <2>1. node' = node /\ rd' = rd /\ window' = window /\ wr' = wr
    BY <1>3 DEF vars
  <2> QED
    BY <2>1 DEF Guide, Seeing, Placed, Target
<1> QED
  BY <1>1, <1>2, <1>3 DEF Next

-------------------------------------------------------------------------------
(***************************************************************************)
(* The trie implements LiveStore.  The effect of a call is in the map when *)
(* its prop_info is linked or detached; every other store leaves the map   *)
(* as it is.                                                               *)
(***************************************************************************)
Phase(x) ==
  IF x.pc = "idle" THEN "idle"
  ELSE IF x.pc \in {"done", "wipe", "prune", "prune_header", "prune_unlink"} THEN "done" ELSE "called"

Holds == [k \in Keys |-> Found(node, k)]

LEMMA TheStore ==
  [k \in Keys |-> Lookup(k)] = Holds /\ [k \in Keys |-> Lookup(k)]' = Holds'
  BY LookupIsFound DEF Holds

LEMMA TheReader == (Inv /\ Guide => (rd.at = "idle" <=> rd.key = <<>>)) /\ (Inv' /\ Guide' => (rd'.at = "idle" <=> rd'.key = <<>>))
<1>1. \A key \in Keys : Len(key) > 0
  BY KeysAreKeys DEF Key
<1>2. Len(<<>>) = 0
  OBVIOUS
<1>3. ASSUME Inv, Guide PROVE rd.at = "idle" <=> rd.key = <<>>
  <2>1. rd.at # "idle" => rd.key \in Keys
    BY <1>3 DEF Inv, Reader
  <2> QED
    BY <2>1, <1>1, <1>2, <1>3 DEF Guide, Seeing
<1>4. ASSUME Inv', Guide' PROVE rd'.at = "idle" <=> rd'.key = <<>>
  <2>1. rd'.at # "idle" => rd'.key \in Keys
    BY <1>4 DEF Inv, Reader
  <2> QED
    BY <2>1, <1>1, <1>2, <1>4 DEF Guide, Seeing
<1> QED
  BY <1>3, <1>4

LEMMA LiveWatch ==
  ASSUME Inv, Inv', Guide, Guide', Watch PROVE Live!Watch
<1>1. window' = IF rd'.at = "idle" THEN {} ELSE window \cup {Found(node', rd'.key)}
  BY Watched
<1>2. (rd.at = "idle" <=> rd.key = <<>>) /\ (rd.at = "idle" => window = {})
  BY TheReader DEF Guide, Seeing
<1>3. rd'.at = "idle" <=> rd'.key = <<>>
  BY TheReader
<1>4. rd'.at # "idle" => rd'.key \in Keys
  BY DEF Inv, Reader
<1>5. rd'.at # "idle" => Holds'[rd'.key] = Found(node', rd'.key)
  BY <1>4 DEF Holds
<1> QED
  BY <1>1, <1>2, <1>3, <1>5, TheStore DEF Live!Watch
\* At most one call is under way, and it is the one LiveStore knows of.
LEMMA TheCall ==
  ASSUME NEW w \in Writers, \A v \in Writers \ {w} : wr[v] = Idle, wr[w].pc = "idle" => wr[w] = Idle
  PROVE  Now = wr[w] /\ Stage = Phase(wr[w])
<1>1. \A v \in Writers : v \in Active <=> wr[v].pc # "idle"
  BY DEF Active
<1>2. Idle.pc = "idle"
  BY DEF Idle
<1>3. CASE wr[w].pc = "idle"
  <2>1. Active = {}
    BY <1>1, <1>2, <1>3 DEF Active
  <2> QED
    BY <2>1, <1>3 DEF Now, Stage, Phase
<1>4. CASE wr[w].pc # "idle"
  <2>1. Active = {w}
    BY <1>1, <1>2, <1>4 DEF Active
  <2>2. (CHOOSE v \in Active : TRUE) = w
    BY <2>1
  <2>3. Now = wr[w]
    BY <2>1, <2>2 DEF Now
  <2> QED
    BY <2>1, <2>3, <1>4 DEF Stage, Phase
<1> QED
  BY <1>3, <1>4

LEMMA TheCallNext ==
  ASSUME NEW w \in Writers, \A v \in Writers \ {w} : wr'[v] = Idle, wr'[w].pc = "idle" => wr'[w] = Idle
  PROVE  Now' = wr'[w] /\ Stage' = Phase(wr'[w])
<1>1. \A v \in Writers : v \in Active' <=> wr'[v].pc # "idle"
  BY DEF Active
<1>2. Idle.pc = "idle"
  BY DEF Idle
<1>3. CASE wr'[w].pc = "idle"
  <2>1. Active' = {}
    BY <1>1, <1>2, <1>3 DEF Active
  <2> QED
    BY <2>1, <1>3 DEF Now, Stage, Phase
<1>4. CASE wr'[w].pc # "idle"
  <2>1. Active' = {w}
    BY <1>1, <1>2, <1>4 DEF Active
  <2>2. (CHOOSE v \in Active : TRUE)' = w
    BY <2>1
  <2>3. Now' = wr'[w]
    BY <2>1, <2>2 DEF Now
  <2> QED
    BY <2>1, <2>3, <1>4 DEF Stage, Phase
<1> QED
  BY <1>3, <1>4

\* A step of a call in terms of the record it leaves.
LEMMA CallMoves ==
  ASSUME Inv, NEW w \in Writers, wr[w].pc # "idle", NEW c, wr' = [wr EXCEPT ![w] = c], c.pc = "idle" => c = Idle
  PROVE  Now = wr[w] /\ Stage = Phase(wr[w]) /\ Now' = c /\ Stage' = Phase(c)
<1>1. \A v \in Writers : wr'[v] = IF v = w THEN c ELSE Idle
  BY Alone DEF Inv
<1>2. Now = wr[w] /\ Stage = Phase(wr[w])
  BY Alone, TheCall
<1>3. Now' = wr'[w] /\ Stage' = Phase(wr'[w])
  BY <1>1, TheCallNext
<1>4. wr'[w] = c
  BY <1>1
<1> QED
  BY <1>2, <1>3, <1>4 DEF Phase

LEMMA SameStore == Same => Holds' = Holds
  BY DEF Same, Holds

\* What the map holds for the key of a call.
LEMMA HeldIs ==
  ASSUME Inv, NEW w \in Writers, wr[w].pc # "idle"
  PROVE  Live!Held = Found(node, wr[w].key)
<1>1. Now = wr[w] /\ wr[w].key \in Keys
  BY Alone, TheCall, CallKey
<1>2. Holds[wr[w].key] = Found(node, wr[w].key)
  BY <1>1 DEF Holds
<1> QED
  BY <1>1, <1>2, TheStore DEF Live!Held

LEMMA HeldWhere ==
  ASSUME Inv, Guide, NEW w \in Writers, wr[w].pc # "idle"
  PROVE  /\ Arrived(w) => Found(node, wr[w].key) = Slot(w)
         /\ Walking(w) /\ LinkOf(w) = 0 => Found(node, wr[w].key) = 0
         /\ wr[w].pc \in Adding => Found(node, wr[w].key) = 0
<1>1. PICK x : x = wr[w]
  OBVIOUS
<1>2. Len(x.key) \in Nat /\ Len(x.key) > 0 /\ Grounded(node) /\ Placed(x)
  BY <1>1, CallKey, Ground DEF Key, Guide
<1>3. ASSUME Arrived(w) PROVE Found(node, x.key) = Slot(w)
  <2>1. On(node, x.key, x.cur, Len(x.key), "descend")
    BY <1>1, <1>2, <1>3 DEF Arrived, Placed
  <2> QED
    BY <2>1, <1>1, <1>2, WhatIsFound DEF Slot
<1>4. ASSUME Walking(w), LinkOf(w) = 0 PROVE Found(node, x.key) = 0
  <2>1. Dangles(node, x.key, x.cur, x.depth, Way(w))
    BY <1>1, <1>2, <1>4 DEF Walking, Way, Branch, Turn, Target, Placed, Dangles
  <2> QED
    BY <2>1, <1>1, <1>2, <1>4, WhatIsFound DEF LinkOf
<1>5. ASSUME x.pc \in Adding PROVE Found(node, x.key) = 0
  <2>1. On(node, x.key, x.cur, Len(x.key), "descend") /\ node[x.cur].prop = 0
    BY <1>2, <1>5 DEF Placed
  <2> QED
    BY <2>1, <1>2, WhatIsFound
<1> QED
  BY <1>1, <1>3, <1>4, <1>5

LEMMA StoreStep ==
  ASSUME Inv, Inv', Guide, Guide', Watch, rd' = rd, Live!Write PROVE Live!SNext
<1>1. Live!Watch
  BY LiveWatch
<1>2. UNCHANGED <<rd.key, rd.got>>
  OBVIOUS
<1> QED
  BY <1>1, <1>2 DEF Live!SNext

\* A step of a call that is none of the map.
LEMMA Stutters ==
  ASSUME Inv, Guide, Guide', Watch, rd' = rd, Same, NEW w \in Writers, wr[w].pc # "idle",
         NEW c, wr' = [wr EXCEPT ![w] = c], c.pc # "idle", Phase(c) = Phase(wr[w]),
         c.op = wr[w].op, c.key = wr[w].key, ret' = ret
  PROVE  UNCHANGED Live!svars
<1>1. Now = wr[w] /\ Stage = Phase(wr[w]) /\ Now' = c /\ Stage' = Phase(c)
  BY CallMoves
<1>2. window' = window
  <2>1. window' = IF rd.at = "idle" THEN {} ELSE window \cup {Found(node', rd.key)}
    BY Watched
  <2>2. CASE rd.at = "idle"
    BY <2>1, <2>2 DEF Guide, Seeing
  <2>3. CASE rd.at # "idle"
    <3>1. Found(node', rd.key) = Found(node, rd.key)
      BY <2>3 DEF Inv, Reader, Same
    <3> QED
      BY <2>1, <2>3, <3>1 DEF Guide, Seeing
  <2> QED
    BY <2>2, <2>3
<1>3. Holds' = Holds
  BY SameStore
<1>4. [k \in Keys |-> Lookup(k)]' = [k \in Keys |-> Lookup(k)]
  BY <1>3, TheStore
<1> QED
  BY <1>1, <1>2, <1>4 DEF Live!svars

\* The end of a call.
LEMMA Replies ==
  ASSUME Inv, Same, NEW w \in Writers, wr[w].pc # "idle", NEW is, Return(w, is)
  PROVE  Live!Reply(is) /\ Stage = Phase(wr[w]) /\ Now = wr[w]
<1>1. wr' = [wr EXCEPT ![w] = Idle] /\ ret' = is
  BY DEF Return
<1>2. Now = wr[w] /\ Stage = Phase(wr[w]) /\ Now' = Idle /\ Stage' = Phase(Idle)
  BY <1>1, CallMoves
<1>3. Phase(Idle) = "idle" /\ Idle.op = "none" /\ Idle.key = <<>>
  BY DEF Phase, Idle
<1>4. [k \in Keys |-> Lookup(k)]' = [k \in Keys |-> Lookup(k)]
  BY SameStore, TheStore
<1> QED
  BY <1>1, <1>2, <1>3, <1>4 DEF Live!Reply, Live!NoCall

\* A step of a call that goes on, with the same request.
Turns(w, phase) ==
  /\ wr[w].pc # "idle" /\ ret' = ret
  /\ \E c : /\ wr' = [wr EXCEPT ![w] = c] /\ c.pc # "idle" /\ Phase(c) = phase
            /\ c.op = wr[w].op /\ c.key = wr[w].key

LEMMA CallTurns ==
  ASSUME Inv, NEW w \in Writers,
         Follow(w) \/ Match(w) \/ new_trie_node(w) \/ LinkNode(w) \/ new_prop_info(w) \/ new_prop_info_long(w)
  PROVE  Turns(w, "called") /\ Phase(wr[w]) = "called"
<1>1. PICK x \in CallRecord : x = wr[w]
  BY DEF Inv, Walker
<1>2. CASE Follow(w)
  <2>1. PICK c : c = [x EXCEPT !.pc = "sibling", !.cur = LinkOf(w)]
    OBVIOUS
  <2>2. wr' = [wr EXCEPT ![w] = c] /\ ret' = ret /\ x.pc \in {"descend", "sibling"}
    BY <2>1, <1>1, <1>2 DEF Follow, Walking, Become
  <2>3. c.pc # "idle" /\ c.op = x.op /\ c.key = x.key /\ Phase(c) = "called"
    BY <2>1, <2>2 DEF CallRecord, Phase
  <2> QED
    BY <2>2, <2>3, <1>1 DEF Turns, Phase
<1>3. CASE Match(w)
  <2>1. PICK c : c = [x EXCEPT !.pc = "descend", !.depth = @ + 1]
    OBVIOUS
  <2>2. wr' = [wr EXCEPT ![w] = c] /\ ret' = ret /\ x.pc = "sibling"
    BY <2>1, <1>1, <1>3 DEF Match, Become
  <2>3. c.pc # "idle" /\ c.op = x.op /\ c.key = x.key /\ Phase(c) = "called"
    BY <2>1, <2>2 DEF CallRecord, Phase
  <2> QED
    BY <2>2, <2>3, <1>1 DEF Turns, Phase
<1>4. CASE new_trie_node(w)
  <2>1. PICK c : c = [x EXCEPT !.pc = "link", !.fresh = x.room, !.room = 0]
    OBVIOUS
  <2>2. wr' = [wr EXCEPT ![w] = c] /\ ret' = ret /\ x.pc = "new_node"
    BY <2>1, <1>1, <1>4 DEF new_trie_node, Become
  <2>3. c.pc # "idle" /\ c.op = x.op /\ c.key = x.key /\ Phase(c) = "called"
    BY <2>1, <2>2 DEF CallRecord, Phase
  <2> QED
    BY <2>2, <2>3, <1>1 DEF Turns, Phase
<1>5. CASE LinkNode(w)
  <2>1. PICK c : c = [x EXCEPT !.pc = "descend", !.cur = x.fresh, !.depth = @ + 1, !.fresh = 0, !.way = "children"]
    OBVIOUS
  <2>2. wr' = [wr EXCEPT ![w] = c] /\ ret' = ret /\ x.pc = "link"
    BY <2>1, <1>1, <1>5 DEF LinkNode, Become
  <2>3. c.pc # "idle" /\ c.op = x.op /\ c.key = x.key /\ Phase(c) = "called"
    BY <2>1, <2>2 DEF CallRecord, Phase
  <2> QED
    BY <2>2, <2>3, <1>1 DEF Turns, Phase
<1>6. CASE new_prop_info(w)
  <2>1. PICK pc \in {"alloc_long", "publish"} : Become(w, [x EXCEPT !.pc = pc, !.fresh = x.room, !.room = 0])
    BY <1>1, <1>6 DEF new_prop_info
  <2>2. PICK c : c = [x EXCEPT !.pc = pc, !.fresh = x.room, !.room = 0]
    OBVIOUS
  <2>3. wr' = [wr EXCEPT ![w] = c] /\ ret' = ret /\ x.pc = "new_info"
    BY <2>1, <2>2, <1>1, <1>6 DEF new_prop_info, Become
  <2>4. c.pc # "idle" /\ c.op = x.op /\ c.key = x.key /\ Phase(c) = "called"
    BY <2>2, <2>3 DEF CallRecord, Phase
  <2> QED
    BY <2>3, <2>4, <1>1 DEF Turns, Phase
<1>7. CASE new_prop_info_long(w)
  <2>1. PICK c : c = [x EXCEPT !.pc = "publish", !.room = 0]
    OBVIOUS
  <2>2. wr' = [wr EXCEPT ![w] = c] /\ ret' = ret /\ x.pc = "new_long"
    BY <2>1, <1>1, <1>7 DEF new_prop_info_long, Become
  <2>3. c.pc # "idle" /\ c.op = x.op /\ c.key = x.key /\ Phase(c) = "called"
    BY <2>1, <2>2 DEF CallRecord, Phase
  <2> QED
    BY <2>2, <2>3, <1>1 DEF Turns, Phase
<1> QED
  BY <1>2, <1>3, <1>4, <1>5, <1>6, <1>7

LEMMA EffectTurns ==
  ASSUME Inv, NEW w \in Writers, Publish(w) \/ Detach(w)
  PROVE  Turns(w, "done") /\ Phase(wr[w]) = "called"
<1>1. PICK x \in CallRecord : x = wr[w]
  BY DEF Inv, Walker
<1>2. CASE Publish(w)
  <2>1. PICK c : c = [x EXCEPT !.pc = "done"]
    OBVIOUS
  <2>2. wr' = [wr EXCEPT ![w] = c] /\ ret' = ret /\ x.pc = "publish"
    BY <2>1, <1>1, <1>2 DEF Publish, Become
  <2>3. c.pc # "idle" /\ c.op = x.op /\ c.key = x.key /\ Phase(c) = "done"
    BY <2>1, <2>2 DEF CallRecord, Phase
  <2> QED
    BY <2>2, <2>3, <1>1 DEF Turns, Phase
<1>3. CASE Detach(w)
  <2>1. PICK c : c = [x EXCEPT !.pc = "wipe", !.fresh = Slot(w)]
    OBVIOUS
  <2>2. wr' = [wr EXCEPT ![w] = c] /\ ret' = ret /\ x.pc = "descend"
    BY <2>1, <1>1, <1>3 DEF Detach, Arrived, Become
  <2>3. c.pc # "idle" /\ c.op = x.op /\ c.key = x.key /\ Phase(c) = "done"
    BY <2>1, <2>2 DEF CallRecord, Phase
  <2> QED
    BY <2>2, <2>3, <1>1 DEF Turns, Phase
<1> QED
  BY <1>2, <1>3

LEMMA PruneTurns ==
  ASSUME Inv, NEW w \in Writers,
         Wipe(w) \/ PruneInto(w) \/ PruneKeep(w) \/ PruneWipeName(w) \/ PruneWipeHeader(w) \/ PruneUnlink(w)
  PROVE  Turns(w, "done") /\ Phase(wr[w]) = "done"
<1>1. PICK x \in CallRecord : x = wr[w]
  BY DEF Inv, Walker
<1>2. ASSUME NEW pc \in {"done", "prune"}, x.pc \in {"prune", "prune_header", "prune_unlink"},
             Back(w, [x EXCEPT !.pc = pc])
      PROVE  Turns(w, "done") /\ Phase(wr[w]) = "done"
  <2>1. PICK path : wr' = [wr EXCEPT ![w] = [[x EXCEPT !.pc = pc] EXCEPT !.path = path]]
    BY <1>2, BackIs
  <2>2. PICK c : c = [[x EXCEPT !.pc = pc] EXCEPT !.path = path]
    OBVIOUS
  <2>3. wr' = [wr EXCEPT ![w] = c] /\ ret' = ret
    BY <2>1, <2>2, <1>2 DEF Back, Become
  <2>4. c.pc # "idle" /\ c.op = x.op /\ c.key = x.key /\ Phase(c) = "done"
    BY <2>2 DEF CallRecord, Phase
  <2> QED
    BY <2>3, <2>4, <1>1, <1>2 DEF Turns, Phase
<1>3. CASE Wipe(w)
  <2>1. PICK path : Become(w, [x EXCEPT !.pc = "prune", !.fresh = 0, !.cur = 0, !.depth = 0, !.path = path])
    BY <1>1, <1>3 DEF Wipe
  <2>2. PICK c : c = [x EXCEPT !.pc = "prune", !.fresh = 0, !.cur = 0, !.depth = 0, !.path = path]
    OBVIOUS
  <2>3. wr' = [wr EXCEPT ![w] = c] /\ ret' = ret /\ x.pc = "wipe"
    BY <2>1, <2>2, <1>1, <1>3 DEF Wipe, Become
  <2>4. c.pc # "idle" /\ c.op = x.op /\ c.key = x.key /\ Phase(c) = "done"
    BY <2>2, <2>3 DEF CallRecord, Phase
  <2> QED
    BY <2>3, <2>4, <1>1 DEF Turns, Phase
<1>4. CASE PruneInto(w)
  <2>1. PICK path : Become(w, [x EXCEPT !.path = path])
    BY <1>1, <1>4 DEF PruneInto
  <2>2. PICK c : c = [x EXCEPT !.path = path]
    OBVIOUS
  <2>3. wr' = [wr EXCEPT ![w] = c] /\ ret' = ret /\ x.pc = "prune"
    BY <2>1, <2>2, <1>1, <1>4 DEF PruneInto, Visiting, Become
  <2>4. c.pc # "idle" /\ c.op = x.op /\ c.key = x.key /\ Phase(c) = "done"
    BY <2>2, <2>3 DEF CallRecord, Phase
  <2> QED
    BY <2>3, <2>4, <1>1 DEF Turns, Phase
<1>5. CASE PruneKeep(w)
  <2>1. x.pc = "prune" /\ \E pc \in {"done", "prune"} : Back(w, [x EXCEPT !.pc = pc])
    BY <1>1, <1>5 DEF PruneKeep, Visited
  <2> QED
    BY <2>1, <1>2
<1>6. CASE PruneWipeName(w)
  <2>1. PICK c : c = [x EXCEPT !.pc = "prune_header"]
    OBVIOUS
  <2>2. wr' = [wr EXCEPT ![w] = c] /\ ret' = ret /\ x.pc = "prune"
    BY <2>1, <1>1, <1>6 DEF PruneWipeName, Visited, Become
  <2>3. c.pc # "idle" /\ c.op = x.op /\ c.key = x.key /\ Phase(c) = "done"
    BY <2>1, <2>2 DEF CallRecord, Phase
  <2> QED
    BY <2>2, <2>3, <1>1 DEF Turns, Phase
<1>7. CASE PruneWipeHeader(w)
  <2>1. x.pc = "prune_header" /\ (Back(w, [x EXCEPT !.pc = "done"]) \/ Become(w, [x EXCEPT !.pc = "prune_unlink"]))
    BY <1>1, <1>7 DEF PruneWipeHeader
  <2>2. PICK c : c = [x EXCEPT !.pc = "prune_unlink"]
    OBVIOUS
  <2>3. c.pc # "idle" /\ c.op = x.op /\ c.key = x.key /\ Phase(c) = "done"
    BY <2>2 DEF CallRecord, Phase
  <2>4. CASE Become(w, c)
    BY <2>1, <2>3, <2>4, <1>1 DEF Become, Turns, Phase
  <2> QED
    BY <2>1, <2>2, <2>4, <1>2
<1>8. CASE PruneUnlink(w)
  <2>1. x.pc = "prune_unlink" /\ Back(w, [x EXCEPT !.pc = "prune"])
    BY <1>1, <1>8 DEF PruneUnlink
  <2> QED
    BY <2>1, <1>2
<1> QED
  BY <1>3, <1>4, <1>5, <1>6, <1>7, <1>8

Carried == Live!SNext \/ UNCHANGED Live!svars

LEMMA StuttersHere ==
  ASSUME Inv, Guide, Guide', Watch, rd' = rd, Same, NEW w \in Writers, NEW phase, Turns(w, phase), Phase(wr[w]) = phase
  PROVE  Carried
<1>1. PICK c : /\ wr' = [wr EXCEPT ![w] = c] /\ c.pc # "idle" /\ Phase(c) = phase
               /\ c.op = wr[w].op /\ c.key = wr[w].key
  BY DEF Turns
<1>2. wr[w].pc # "idle" /\ ret' = ret
  BY DEF Turns
<1> QED
  BY <1>1, <1>2, Stutters DEF Carried

LEMMA LiveRequest ==
  ASSUME Inv, Inv', Guide, Guide', Watch, rd' = rd, Same, NEW w \in Writers, Request(w) PROVE Carried
<1>1. PICK op \in {"upsert", "remove"}, key \in Keys : \E val : Begin(w, op, key, val)
  BY DEF Request, upsert, remove_with_prune
<1>2. PICK val : Begin(w, op, key, val)
  BY <1>1
<1>3. PICK c : c = [Idle EXCEPT !.pc = "descend", !.op = op, !.key = key, !.val = val]
  OBVIOUS
<1>4. c.op = op /\ c.key = key /\ c.pc = "descend"
  BY <1>3 DEF Idle
<1>5. wr' = [wr EXCEPT ![w] = c] /\ ret' = "pending" /\ wr[w].pc = "idle" /\ \A v \in Writers \ {w} : wr[v].pc = "idle"
  BY <1>2, <1>3 DEF Begin, SingleWriter
<1>6. \A v \in Writers : wr[v] = Idle
  BY <1>5 DEF Inv, Walker, Stands
<1>7. \A v \in Writers : wr'[v] = IF v = w THEN c ELSE Idle
  BY <1>5, <1>6 DEF Inv
<1>8. Now = wr[w] /\ Stage = Phase(wr[w]) /\ Now' = wr'[w] /\ Stage' = Phase(wr'[w])
  BY <1>4, <1>6, <1>7, TheCall, TheCallNext
<1>9. Stage = "idle" /\ Stage' = "called" /\ Now'.op = op /\ Now'.key = key
  BY <1>4, <1>5, <1>7, <1>8 DEF Phase
<1>10. [k \in Keys |-> Lookup(k)]' = [k \in Keys |-> Lookup(k)]
  BY SameStore, TheStore
<1>11. Live!Request
  BY <1>5, <1>9, <1>10 DEF Live!Request
<1> QED
  BY <1>11, StoreStep DEF Live!Write, Carried

LEMMA LiveEnds ==
  ASSUME Inv, Inv', Guide, Guide', Watch, rd' = rd, Same, NEW w \in Writers,
         Miss(w) \/ NoSlot(w) \/ Done(w) \/ Kill(w)
  PROVE  Carried
<1>1. wr[w].pc # "idle"
  BY DEF Miss, Walking, NoSlot, Arrived, Kill, Done
<1>2. Live!Held = Found(node, wr[w].key) /\ Now = wr[w] /\ Stage = Phase(wr[w])
  BY <1>1, HeldIs, Alone, TheCall
<1>3. CASE Miss(w) \/ NoSlot(w)
  <2>1. Return(w, "absent") /\ wr[w].op = "remove" /\ wr[w].pc \in {"descend", "sibling"}
    BY <1>3 DEF Miss, NoSlot, Walking, Arrived
  <2>2. Found(node, wr[w].key) = 0
    BY <1>1, <1>3, HeldWhere DEF Miss, NoSlot
  <2>3. Live!Reply("absent")
    BY <2>1, <1>1, Replies
  <2>4. Live!Called("remove")
    BY <2>1, <1>2 DEF Live!Called, Phase
  <2> QED
    BY <2>2, <2>3, <2>4, <1>2, StoreStep DEF Live!Refuse, Live!Write, Carried
<1>4. CASE Done(w)
  <2>1. Return(w, IF wr[w].op = "upsert" THEN "ok" ELSE "removed") /\ wr[w].pc = "done"
    BY <1>4 DEF Done
  <2>2. Live!Reply(IF wr[w].op = "upsert" THEN "ok" ELSE "removed")
    BY <2>1, <1>1, Replies
  <2>3. Live!Finish
    BY <2>1, <2>2, <1>2 DEF Live!Finish, Phase
  <2> QED
    BY <2>3, StoreStep DEF Live!Write, Carried
<1>5. CASE Kill(w)
  <2>1. Live!Reply("killed")
    BY <1>1, <1>5, Replies DEF Kill
  <2>2. Live!Kill
    BY <2>1, <1>1, <1>2 DEF Live!Kill, Phase
  <2> QED
    BY <2>2, StoreStep DEF Live!Write, Carried
<1> QED
  BY <1>3, <1>4, <1>5

LEMMA LiveAllocates ==
  ASSUME Inv, Inv', Guide, Guide', Watch, rd' = rd, Same, NEW w \in Writers,
         AllocNode(w) \/ AllocInfo(w) \/ AllocLong(w)
  PROVE  Carried
<1>1. PICK x \in CallRecord : x = wr[w]
  BY DEF Inv, Walker
<1>2. x.pc \in {"descend", "sibling", "alloc_long"} /\ x.op = "upsert"
  BY <1>1 DEF AllocNode, Walking, AllocInfo, Arrived, AllocLong, Inv, Walker, Stands
<1>3. Phase(x) = "called" /\ x.pc # "idle"
  BY <1>2 DEF Phase
<1>4. Live!Held = Found(node, wr[w].key) /\ Now = wr[w] /\ Stage = Phase(wr[w])
  BY <1>1, <1>3, HeldIs, Alone, TheCall
<1>5. CASE Return(w, "full")
  <2>1. Found(node, wr[w].key) = 0
    BY <1>1, <1>3, HeldWhere DEF AllocNode, AllocInfo, AllocLong, Adding
  <2>2. Live!Reply("full")
    BY <1>1, <1>3, <1>5, Replies
  <2>3. Live!Called("upsert")
    BY <1>1, <1>2, <1>3, <1>4 DEF Live!Called
  <2> QED
    BY <2>1, <2>2, <2>3, <1>4, StoreStep DEF Live!Refuse, Live!Write, Carried
<1>6. ASSUME NEW pc \in {"new_node", "new_info", "new_long"}, NEW way, NEW room,
             Become(w, [[x EXCEPT !.pc = pc, !.way = way] EXCEPT !.room = room])
      PROVE  Carried
  <2>1. PICK c : c = [[x EXCEPT !.pc = pc, !.way = way] EXCEPT !.room = room]
    OBVIOUS
  <2>2. wr' = [wr EXCEPT ![w] = c] /\ ret' = ret
    BY <2>1, <1>6 DEF Become
  <2>3. c.pc # "idle" /\ c.op = x.op /\ c.key = x.key /\ Phase(c) = "called"
    BY <2>1 DEF CallRecord, Phase
  <2>4. Turns(w, "called")
    BY <2>2, <2>3, <1>1, <1>3 DEF Turns
  <2> QED
    BY <2>4, <1>1, <1>3, StuttersHere
<1>7. ASSUME NEW pc \in {"new_info", "new_long"}, Become(w, [[x EXCEPT !.pc = pc] EXCEPT !.room = bytes_used])
      PROVE  Carried
  <2>1. [x EXCEPT !.pc = pc] = [x EXCEPT !.pc = pc, !.way = x.way]
    BY DEF CallRecord
  <2> QED
    BY <2>1, <1>6, <1>7
<1>8. CASE AllocNode(w)
  <2>1. \/ Return(w, "full")
        \/ Become(w, [[x EXCEPT !.pc = "new_node", !.way = Way(w)] EXCEPT !.room = bytes_used])
    BY <1>1, <1>8 DEF AllocNode, Allocate
  <2> QED
    BY <2>1, <1>5, <1>6
<1>9. CASE AllocInfo(w)
  <2>1. Return(w, "full") \/ Become(w, [[x EXCEPT !.pc = "new_info"] EXCEPT !.room = bytes_used])
    BY <1>1, <1>9 DEF AllocInfo, Allocate
  <2> QED
    BY <2>1, <1>5, <1>7
<1>10. CASE AllocLong(w)
  <2>1. Return(w, "full") \/ Become(w, [[x EXCEPT !.pc = "new_long"] EXCEPT !.room = bytes_used])
    BY <1>1, <1>10 DEF AllocLong, Allocate
  <2> QED
    BY <2>1, <1>5, <1>7
<1> QED
  BY <1>8, <1>9, <1>10

LEMMA LiveUpdate ==
  ASSUME Inv, Inv', Guide, Guide', Watch, rd' = rd, Same, NEW w \in Writers, update(w) PROVE Carried
<1>1. PICK x \in CallRecord : x = wr[w]
  BY DEF Inv, Walker
<1>2. x.pc = "descend" /\ x.op = "upsert" /\ Arrived(w) /\ Slot(w) # 0
  BY <1>1 DEF update, Arrived
<1>3. Phase(x) = "called" /\ x.pc # "idle"
  BY <1>2 DEF Phase
<1>4. Live!Held = Found(node, wr[w].key) /\ Now = wr[w] /\ Stage = Phase(wr[w])
  BY <1>1, <1>3, HeldIs, Alone, TheCall
<1>5. Live!Called("upsert") /\ Live!Held # 0
  <2>1. Live!Called("upsert")
    BY <1>1, <1>2, <1>3, <1>4 DEF Live!Called
  <2>2. Found(node, wr[w].key) # 0
    BY <1>1, <1>2, <1>3, HeldWhere
  <2> QED
    BY <2>1, <2>2, <1>4
<1>6. CASE Return(w, "too_long")
  <2>1. Live!Reply("too_long")
    BY <1>1, <1>3, <1>6, Replies
  <2> QED
    BY <2>1, <1>5, StoreStep DEF Live!Refuse, Live!Write, Carried
<1>7. CASE Become(w, [x EXCEPT !.pc = "done"])
  <2>1. PICK c : c = [x EXCEPT !.pc = "done"]
    OBVIOUS
  <2>2. wr' = [wr EXCEPT ![w] = c] /\ ret' = ret
    BY <2>1, <1>7 DEF Become
  <2>3. c.pc # "idle" /\ c.op = x.op /\ c.key = x.key /\ Phase(c) = "done"
    BY <2>1 DEF CallRecord, Phase
  <2>4. Now' = c /\ Stage' = Phase(c)
    BY <2>2, <2>3, <1>1, <1>3, CallMoves
  <2>5. [k \in Keys |-> Lookup(k)]' = [k \in Keys |-> Lookup(k)]
    BY SameStore, TheStore
  <2>6. Live!TakeEffect
    BY <2>2, <2>3, <2>4, <1>1, <1>4 DEF Live!TakeEffect
  <2>7. Live!Update
    BY <2>5, <2>6, <1>5 DEF Live!Update
  <2> QED
    BY <2>7, StoreStep DEF Live!Write, Carried
<1> QED
  BY <1>1, <1>6, <1>7 DEF update

\* Where a prop_info is linked or detached, one key changes what it has.
LEMMA OneKey ==
  ASSUME NEW old, NEW new, NEW q, Grounded(old), Grounded(new), OneParent(old), OneParent(new), Reprops(old, new, q),
         NEW k1, Key(k1), On(old, k1, q, Len(k1), "descend")
  PROVE  /\ Found(new, k1) = new[q].prop
         /\ \A k2 : Key(k2) /\ k2 # k1 => Found(new, k2) = Found(old, k2)
<1>1. DataSize + 1 \notin DOMAIN old /\ DataSize + 1 \notin DOMAIN new
  BY DataSizeAssumption DEF Grounded, Offset
<1>2. SameWay(old, new, DataSize + 1) /\ SameWay(new, old, DataSize + 1)
  BY <1>1 DEF SameWay, Reprops
<1>3. \A key, o, e, m : Len(key) \in Nat => (On(old, key, o, e, m) <=> On(new, key, o, e, m))
  <2>1. SUFFICES ASSUME NEW key, Len(key) \in Nat, NEW o, NEW e, NEW m
                 PROVE  On(old, key, o, e, m) <=> On(new, key, o, e, m)
    OBVIOUS
  <2>2. ASSUME On(old, key, o, e, m) PROVE On(new, key, o, e, m)
    <3>1. o # DataSize + 1
      BY <2>1, <2>2, <1>1, TrailType
    <3> QED
      BY <2>1, <2>2, <3>1, <1>2, Within
  <2>3. ASSUME On(new, key, o, e, m) PROVE On(old, key, o, e, m)
    <3>1. o # DataSize + 1
      BY <2>1, <2>3, <1>1, TrailType
    <3> QED
      BY <2>1, <2>3, <3>1, <1>2, Within
  <2> QED
    BY <2>2, <2>3
<1>4. Found(new, k1) = new[q].prop
  BY <1>3, WhatIsFound DEF Key
<1>5. ASSUME NEW k2, Key(k2), k2 # k1 PROVE Found(new, k2) = Found(old, k2)
  <2>1. Len(k1) \in Nat /\ Len(k2) \in Nat /\ Len(k2) > 0 /\ k1 \in Seq(Segment) /\ k2 \in Seq(Segment)
    BY <1>5 DEF Key
  <2>2. \A o : On(old, k2, o, Len(k2), "descend") => o # q
    BY <2>1, <1>5, SameKey
  <2>3. ASSUME NEW o \in DOMAIN old, On(old, k2, o, Len(k2), "descend") PROVE Found(new, k2) = old[o].prop
    <3>1. On(new, k2, o, Len(k2), "descend") /\ new[o].prop = old[o].prop
      BY <2>1, <2>2, <2>3, <1>3 DEF Reprops
    <3> QED
      BY <3>1, <2>1, WhatIsFound
  <2>4. CASE Found(old, k2) # 0
    <3>1. PICK o \in DOMAIN old : On(old, k2, o, Len(k2), "descend") /\ Found(old, k2) = old[o].prop
      BY <2>1, <2>4, WhatIsFound
    <3> QED
      BY <3>1, <2>3
  <2>5. CASE Found(new, k2) # 0
    <3>1. PICK o \in DOMAIN new : On(new, k2, o, Len(k2), "descend") /\ Found(new, k2) = new[o].prop
      BY <2>1, <2>5, WhatIsFound
    <3>2. On(old, k2, o, Len(k2), "descend") /\ o \in DOMAIN old
      BY <3>1, <2>1, <1>3 DEF Reprops
    <3>3. Found(old, k2) = old[o].prop
      BY <3>2, <2>1, WhatIsFound
    <3> QED
      BY <3>2, <3>3, <2>3
  <2> QED
    BY <2>4, <2>5
<1> QED
  BY <1>4, <1>5

LEMMA PropSet ==
  ASSUME Inv, Inv', Shape, Shape', Guide, NEW w \in Writers, wr[w].pc # "idle", NEW p,
         On(node, wr[w].key, wr[w].cur, Len(wr[w].key), "descend"),
         node' = [node EXCEPT ![wr[w].cur].prop = p]
  PROVE  Holds' = [Holds EXCEPT ![wr[w].key] = p]
<1>1. PICK x \in CallRecord : x = wr[w]
  BY DEF Inv, Walker
<1>2. Key(x.key) /\ x.key \in Keys /\ x.cur \in DOMAIN node
  BY <1>1, CallKey
<1>3. PICK old, new : old = node /\ new = node'
  OBVIOUS
<1>4. Reprops(old, new, x.cur) /\ new[x.cur].prop = p
  <2>1. \A o \in DOMAIN node : node[o] \in Node
    BY Typed DEF Inv
  <2> QED
    BY <2>1, <1>1, <1>2, <1>3 DEF Reprops, Node
<1>5. Grounded(old) /\ Grounded(new) /\ OneParent(old) /\ OneParent(new)
  BY <1>3, Ground DEF Shape, Tree
<1>a. On(old, x.key, x.cur, Len(x.key), "descend")
  BY <1>1, <1>3
<1>b. Found(new, x.key) = new[x.cur].prop /\ \A k : Key(k) /\ k # x.key => Found(new, k) = Found(old, k)
  BY <1>2, <1>4, <1>5, <1>a, OneKey
<1>6. Found(new, x.key) = p /\ \A k \in Keys : k # x.key => Found(new, k) = Found(old, k)
  BY <1>4, <1>b, KeysAreKeys
<1>7. Holds' = [k \in Keys |-> Found(new, k)] /\ Holds = [k \in Keys |-> Found(old, k)]
  BY <1>3 DEF Holds
<1> QED
  BY <1>1, <1>2, <1>6, <1>7

LEMMA LiveEffect ==
  ASSUME Inv, Inv', Shape, Shape', Guide, Guide', Watch, rd' = rd, NEW w \in Writers, Publish(w) \/ Detach(w)
  PROVE  Carried
<1>1. PICK x \in CallRecord : x = wr[w]
  BY DEF Inv, Walker
<1>2. x.pc # "idle" /\ Phase(x) = "called" /\ ret' = ret /\ Turns(w, "done")
  BY <1>1, EffectTurns DEF Turns
<1>3. Live!Held = Found(node, x.key) /\ Now = x /\ Stage = "called"
  BY <1>1, <1>2, HeldIs, Alone, TheCall
<1>4. PICK c : /\ wr' = [wr EXCEPT ![w] = c] /\ c.pc # "idle" /\ Phase(c) = "done"
               /\ c.op = x.op /\ c.key = x.key
  BY <1>1, <1>2 DEF Turns
<1>5. Now' = c /\ Stage' = "done"
  BY <1>1, <1>2, <1>4, CallMoves
<1>6. Live!TakeEffect
  BY <1>2, <1>3, <1>4, <1>5 DEF Live!TakeEffect
<1>7. x.key \in Keys /\ Placed(x) /\ x.cur \in DOMAIN node /\ Len(x.key) \in Nat /\ Len(x.key) > 0 /\ Grounded(node)
  BY <1>1, <1>2, CallKey, Ground DEF Guide, Key
<1>8. PICK s : s = [k \in Keys |-> Lookup(k)]
  OBVIOUS
<1>9. s = Holds /\ s \in [Keys -> Offset] /\ s[x.key] = Found(node, x.key)
  BY <1>7, <1>8, TheStore, KeysAreKeys, FoundType DEF Holds
<1>10. CASE Publish(w)
  <2>1. x.pc = "publish" /\ x.op = "upsert" /\ node' = [node EXCEPT ![x.cur].prop = x.fresh]
    BY <1>1, <1>10 DEF Publish, Inv, Walker, Stands
  <2>2. On(node, x.key, x.cur, Len(x.key), "descend") /\ \A o \in DOMAIN node : node[o].prop # x.fresh
    BY <2>1, <1>7 DEF Placed, Adding
  <2>3. Holds' = [s EXCEPT ![x.key] = x.fresh]
    BY <2>1, <2>2, <1>1, <1>2, <1>9, PropSet
  <2>4. Found(node, x.key) = 0
    BY <2>1, <1>1, <1>2, HeldWhere DEF Adding
  <2>5. x.fresh \in Nat \ {0}
    <3>1. x.fresh \in DOMAIN info /\ x.cur < x.fresh
      BY <2>1, <1>1 DEF Inv, Walker, Allocated
    <3> QED
      BY <3>1, <1>7, Typed DEF Inv
  <2>6. \A k \in Keys : s[k] # x.fresh
    <3>1. SUFFICES ASSUME NEW k \in Keys PROVE Found(node, k) # x.fresh
      BY <1>9 DEF Holds
    <3>2. Len(k) \in Nat /\ Len(k) > 0
      BY KeysAreKeys DEF Key
    <3>3. Found(node, k) = 0 \/ \E o \in DOMAIN node : Found(node, k) = node[o].prop
      BY <3>2, <1>7, WhatIsFound
    <3> QED
      BY <3>3, <2>2, <2>5
  <2>7. PICK s2 : s2 = [k \in Keys |-> Lookup(k)]' /\ s2 = [s EXCEPT ![x.key] = x.fresh]
    BY <2>3, TheStore
  <2>8. s2[x.key] = x.fresh
    BY <2>7, <1>7, <1>9
  <2>9. Live!Called("upsert")
    BY <2>1, <1>3 DEF Live!Called
  <2>10. Live!Held = 0
    BY <2>4, <1>3
  <2>11. Live!Add
    BY <2>5, <2>6, <2>7, <2>8, <2>9, <2>10, <1>3, <1>6, <1>8 DEF Live!Add
  <2> QED
    BY <2>11, StoreStep DEF Live!Write, Carried
<1>11. CASE Detach(w)
  <2>1. x.pc = "descend" /\ x.op = "remove" /\ Slot(w) # 0 /\ Arrived(w) /\ node' = [node EXCEPT ![x.cur].prop = 0]
    BY <1>1, <1>11 DEF Detach, Arrived
  <2>2. On(node, x.key, x.cur, Len(x.key), "descend")
    BY <2>1, <1>1, <1>7 DEF Placed, Arrived
  <2>3. Holds' = [s EXCEPT ![x.key] = 0]
    BY <2>1, <2>2, <1>1, <1>2, <1>9, PropSet
  <2>4. Live!Held # 0
    BY <2>1, <1>1, <1>2, <1>3, HeldWhere
  <2>5. Live!Called("remove")
    BY <2>1, <1>3 DEF Live!Called
  <2>6. [k \in Keys |-> Lookup(k)]' = [s EXCEPT ![x.key] = 0]
    BY <2>3, TheStore
  <2>7. Live!Remove
    BY <2>4, <2>5, <2>6, <1>3, <1>6, <1>8 DEF Live!Remove
  <2> QED
    BY <2>7, StoreStep DEF Live!Write, Carried
<1> QED
  BY <1>10, <1>11

LEMMA LiveStores ==
  ASSUME Inv, Inv', Shape, Shape', Guide, Watch, rd' = rd, NEW w \in Writers, Request(w) \/ Call(w) \/ Kill(w)
  PROVE  Carried
<1>1. Guide' /\ (Same \/ Publish(w) \/ Detach(w))
  BY GuideStoresAll
<1>2. CASE Publish(w) \/ Detach(w)
  BY <1>1, <1>2, LiveEffect
<1>3. CASE Same /\ Request(w)
  BY <1>1, <1>3, LiveRequest
<1>4. CASE Same /\ (Miss(w) \/ NoSlot(w) \/ Done(w) \/ Kill(w))
  BY <1>1, <1>4, LiveEnds
<1>5. CASE Same /\ (AllocNode(w) \/ AllocInfo(w) \/ AllocLong(w))
  BY <1>1, <1>5, LiveAllocates
<1>6. CASE Same /\ update(w)
  BY <1>1, <1>6, LiveUpdate
<1>7. CASE Same /\ (\/ Follow(w) \/ Match(w) \/ new_trie_node(w) \/ LinkNode(w) \/ new_prop_info(w)
                    \/ new_prop_info_long(w))
  BY <1>1, <1>7, CallTurns, StuttersHere
<1>8. CASE Same /\ (\/ Wipe(w) \/ PruneInto(w) \/ PruneKeep(w) \/ PruneWipeName(w) \/ PruneWipeHeader(w)
                    \/ PruneUnlink(w))
  BY <1>1, <1>8, PruneTurns, StuttersHere
<1> QED
  BY <1>1, <1>2, <1>3, <1>4, <1>5, <1>6, <1>7, <1>8 DEF Call

LEMMA LiveQuiet ==
  ASSUME node' = node, wr' = wr
  PROVE  /\ [k \in Keys |-> Lookup(k)]' = [k \in Keys |-> Lookup(k)]
         /\ Now' = Now /\ Stage' = Stage
<1>1. Same
  BY DEF Same
<1>2. Active' = Active
  BY DEF Active
<1> QED
  BY <1>1, <1>2, SameStore, TheStore DEF Now, Stage

LEMMA LiveRead ==
  ASSUME Inv, Inv', Shape, Guide, Watch, Read, UNCHANGED <<area, wr, ret, kills>> PROVE Carried
<1>1. /\ Guide'
      /\ \/ rd.at = "idle" /\ rd'.at # "idle" /\ rd'.got = 0
         \/ rd.at # "idle" /\ rd'.at # "idle" /\ rd'.key = rd.key /\ rd'.got = rd.got /\ window' = window
         \/ rd.at # "idle" /\ rd'.at = "idle" /\ rd'.got \in window
  BY GuideRead
<1>2. (rd.at = "idle" <=> rd.key = <<>>) /\ (rd'.at = "idle" <=> rd'.key = <<>>) /\ (rd'.at # "idle" => rd'.key \in Keys)
  BY <1>1, TheReader DEF Inv, Reader
<1>3. node' = node /\ wr' = wr /\ ret' = ret
  BY DEF area
<1>4. Live!Watch
  BY <1>1, LiveWatch
<1>5. CASE rd.at = "idle" /\ rd'.at # "idle" /\ rd'.got = 0
  <2>1. Live!StartFind
    BY <1>2, <1>5 DEF Live!StartFind
  <2> QED
    BY <2>1, <1>3, <1>4, LiveQuiet DEF Live!SNext, Carried
<1>6. CASE rd.at # "idle" /\ rd'.at = "idle" /\ rd'.got \in window
  <2>1. Live!EndFind
    BY <1>2, <1>6 DEF Live!EndFind
  <2> QED
    BY <2>1, <1>3, <1>4, LiveQuiet DEF Live!SNext, Carried
<1>7. CASE rd'.key = rd.key /\ rd'.got = rd.got /\ window' = window
  BY <1>3, <1>7, LiveQuiet DEF Live!svars, Carried
<1> QED
  BY <1>1, <1>5, <1>6, <1>7

LEMMA LiveInit == Init => Live!SInit
<1> SUFFICES ASSUME Init PROVE Live!SInit
  OBVIOUS
<1>1. node[0] = ZeroNode /\ wr = [w \in Writers |-> Idle] /\ ret = "ok" /\ rd = NoLookup /\ window = {}
  BY DEF Init
<1>2. Active = {}
  BY <1>1 DEF Active, Idle
<1>3. Now = Idle /\ Stage = "idle"
  BY <1>2 DEF Now, Stage
<1>4. node[0].link["children"] = 0
  BY <1>1 DEF ZeroNode, Links
<1>5. Holds = [k \in Keys |-> 0]
  BY <1>4 DEF Holds, Found
<1>6. [k \in Keys |-> Lookup(k)] = [k \in Keys |-> 0]
  BY <1>5, TheStore
<1>7. rd.key = <<>> /\ rd.got = 0 /\ Idle.op = "none" /\ Idle.key = <<>>
  BY <1>1 DEF NoLookup, Idle
<1> QED
  BY <1>1, <1>3, <1>6, <1>7 DEF Live!SInit, Live!NoCall

LEMMA LiveNext == Inv /\ Inv' /\ Shape /\ Shape' /\ Guide /\ [Next]_vars => [Live!SNext]_(Live!svars)
<1> SUFFICES ASSUME Inv, Inv', Shape, Shape', Guide, [Next]_vars PROVE Carried
  BY DEF Carried
<1>1. CASE Watch /\ \E w \in Writers : (Request(w) \/ Call(w) \/ Kill(w)) /\ UNCHANGED rd
  BY <1>1, LiveStores
<1>2. CASE Watch /\ Read /\ UNCHANGED <<area, wr, ret, kills>>
  BY <1>2, LiveRead
<1>3. CASE UNCHANGED vars
  <2>1. node' = node /\ rd' = rd /\ window' = window /\ wr' = wr /\ ret' = ret
    BY <1>3 DEF vars
  <2> QED
    BY <2>1, LiveQuiet DEF Live!svars, Carried
<1> QED
  BY <1>1, <1>2, <1>3 DEF Next

\* Whatever the size of the area, the keys and the number of writers, and whoever is
\* killed where: upsert adds a prop_info and remove_with_prune takes one away in one
\* step for every reader, no other store of theirs changes what any key finds, each call
\* ends with what the map says of its key, and a find that takes no lock answers with
\* something its key had between its beginning and its end.
THEOREM TrieIsLiveStore == Spec => ImplementsLiveStore
<1>1. Inv /\ Shape /\ Guide /\ Inv' /\ [Next]_vars => Inv' /\ Shape' /\ Guide'
  BY ShapeNext, GuideNext
<1>2. Inv /\ Shape /\ Guide /\ [Next]_vars => Inv' /\ Shape' /\ Guide' /\ [Live!SNext]_(Live!svars)
  BY <1>1, NextInv, LiveNext
<1>3. Init => Inv /\ Shape /\ Guide /\ Live!SInit
  BY InitInv, ShapeInit, GuideInit, LiveInit
<1> QED
  BY <1>2, <1>3, PTL DEF Spec, ImplementsLiveStore, Live!SSpec
===============================================================================
