-------------------------- MODULE UndoManagerProofs --------------------------
(***************************************************************************)
(* Proofs about UndoManager: that documents and stacks stay well formed    *)
(* and what an undo or a redo would bring back keeps its content, and that *)
(* undo and redo delete nothing of another origin.                         *)
(*                                                                         *)
(* Every item is in one chain of one slot for ever; a copy that redo makes *)
(* is newer than its original, stands in the same slot and, in the chain   *)
(* of a key, behind it, so that the two searches along copies come to an   *)
(* end.  An item is deleted once, so what two recorded transactions        *)
(* deleted is disjoint: releasing what the one keeps takes nothing from    *)
(* the other.                                                              *)
(***************************************************************************)
EXTENDS UndoManager, TLAPS, FiniteSetTheorems, WellFoundedInduction

(***************************************************************************)
(* Numbers and recursion.                                                  *)
(***************************************************************************)
\* A set of numbers that is not empty has a least element.
LEMMA LeastElement ==
  ASSUME NEW S \in SUBSET Nat, S # {}
  PROVE  \E x \in S : \A y \in S : x <= y
<1> DEFINE W == {ss \in Nat \X Nat : ss[1] < ss[2]}
<1>1. IsWellFoundedOn(W, Nat)
  BY NatLessThanWellFounded DEF OpToRel
<1>2. \A x, y \in Nat : y < x => <<y, x>> \in W
  OBVIOUS
<1> HIDE DEF W
<1>3. PICK x \in S : \A y \in S : ~ (<<y, x>> \in W)
  BY <1>1, WFMin
<1>4. ASSUME NEW y \in S PROVE x <= y
  <2>1. x \in Nat /\ y \in Nat /\ ~ (y < x)
    BY <1>2, <1>3
  <2> QED BY <2>1
<1> QED BY <1>4

\* Induction up to a bound.
LEMMA Upwards ==
  ASSUME NEW N \in Nat, NEW P, 0 \in P, \A n \in 1..N : n - 1 \in P => n \in P
  PROVE  \A n \in 0..N : n \in P
<1> DEFINE S == {n \in 0..N : n \notin P}
<1>1. ASSUME S # {} PROVE FALSE
  <2>1. S \in SUBSET Nat
    OBVIOUS
  <2>2. PICK n \in S : \A k \in S : n <= k
    <3> HIDE DEF S
    <3> QED BY <1>1, <2>1, LeastElement
  <2>3. n \in 1..N /\ n - 1 \in 0..N /\ ~ (n <= n - 1)
    <3>1. n # 0 /\ n \in 0..N
      BY <2>2
    <3> QED BY <3>1
  <2>4. n - 1 \in P
    BY <2>2, <2>3
  <2> QED BY <2>2, <2>3, <2>4
<1> QED BY <1>1

\* Induction down from a bound.
LEMMA Downwards ==
  ASSUME NEW N \in Nat, NEW P,
         \A n \in 1..N : (\A k \in (n + 1)..N : k \in P) => n \in P
  PROVE  \A n \in 1..N : n \in P
<1> DEFINE S == {m \in 0..N : N - m \in 1..N /\ N - m \notin P}
<1>1. ASSUME S # {} PROVE FALSE
  <2>1. S \in SUBSET Nat
    OBVIOUS
  <2>2. PICK m \in S : \A k \in S : m <= k
    <3> HIDE DEF S
    <3> QED BY <1>1, <2>1, LeastElement
  <2>3. m \in 0..N /\ N - m \in 1..N /\ N - m \notin P
    BY <2>2
  <2>4. ASSUME NEW k \in ((N - m) + 1)..N PROVE k \in P
    <3> SUFFICES ASSUME k \notin P PROVE FALSE
      OBVIOUS
    <3>1. N - k \in 0..N /\ N - (N - k) = k /\ k \in 1..N /\ ~ (m <= N - k)
      BY <2>3
    <3>2. N - k \in S
      BY <3>1
    <3> QED BY <2>2, <3>1, <3>2
  <2> QED BY <2>3, <2>4
<1>2. ASSUME NEW n \in 1..N PROVE n \in P
  <2>1. N - n \in 0..N /\ N - (N - n) = n
    OBVIOUS
  <2> QED BY <1>1, <2>1
<1> QED BY <1>2

\* f is iterated from its first value.
Iterates(f, N, first, step) == f[0] = first /\ \A n \in 1..N : f[n] = step[n][f[n - 1]]

\* A function over 0..N may be defined by its first value and the step to the next.
LEMMA Iterated ==
  ASSUME NEW N \in Nat, NEW D, NEW first \in D, NEW step \in [1..N -> [D -> D]]
  PROVE  \E f \in [0..N -> D] : Iterates(f, N, first, step)
<1> DEFINE Up(n, f) == /\ f \in [0..n -> D] /\ f[0] = first
                       /\ \A k \in 1..n : f[k] = step[k][f[k - 1]]
           P == {n \in 0..N : \E f : Up(n, f)}
<1>1. 0 \in P
  <2> DEFINE g == [k \in 0..0 |-> first]
  <2>1. g \in [0..0 -> D] /\ g[0] = first
    OBVIOUS
  <2>2. \A k \in 1..0 : FALSE
    OBVIOUS
  <2> HIDE DEF g
  <2>3. Up(0, g)
    BY <2>1, <2>2
  <2>4. 0 \in 0..N
    OBVIOUS
  <2> HIDE DEF Up
  <2> QED BY <2>3, <2>4
<1>2. ASSUME NEW n \in 1..N, n - 1 \in P PROVE n \in P
  <2>1. PICK f : Up(n - 1, f)
    BY <1>2
  <2> DEFINE x == step[n][f[n - 1]]
             g == [k \in 0..n |-> IF k = n THEN x ELSE f[k]]
  <2>2. n - 1 \in 0..(n - 1)
    OBVIOUS
  <2>3. x \in D
    BY <2>1, <2>2
  <2> HIDE DEF x
  <2>4. g \in [0..n -> D]
    <3>1. \A k \in 0..n : k = n \/ k \in 0..(n - 1)
      OBVIOUS
    <3> QED BY <2>1, <2>3, <3>1
  <2>5. g[0] = first
    <3>1. 0 \in 0..n /\ 0 # n
      OBVIOUS
    <3> QED BY <2>1, <3>1
  <2>6. ASSUME NEW k \in 1..n PROVE g[k] = step[k][g[k - 1]]
    <3>1. k - 1 \in 0..n /\ k - 1 # n /\ k \in 0..n
      OBVIOUS
    <3>2. g[k - 1] = f[k - 1]
      BY <3>1
    <3>3. CASE k = n
      BY <3>1, <3>2, <3>3 DEF x
    <3>4. CASE k # n
      <4>1. k \in 1..(n - 1)
        BY <3>4
      <4>2. g[k] = f[k]
        BY <3>1, <3>4
      <4> QED BY <2>1, <3>2, <4>1, <4>2
    <3> QED BY <3>3, <3>4
  <2>7. Up(n, g)
    <3> HIDE DEF g
    <3> QED BY <2>4, <2>5, <2>6
  <2> HIDE DEF Up
  <2> QED BY <2>7
<1>3. N \in P
  <2>1. \A n \in 1..N : n - 1 \in P => n \in P
    <3> HIDE DEF P
    <3> QED BY <1>2
  <2> HIDE DEF P
  <2>2. \A n \in 0..N : n \in P
    BY <1>1, <2>1, Upwards
  <2> QED BY <2>2
<1> QED BY <1>3 DEF Iterates

\* A search goes from n to next[n] until it stops.
Searches(f, N, stop, next) == f = [n \in 1..N |-> IF n \in stop THEN n ELSE f[next[n]]]

\* A function over 1..N may be defined by a search that goes up from where it does not stop.
LEMMA Searched ==
  ASSUME NEW N \in Nat, NEW stop, NEW next,
         \A n \in 1..N : n \notin stop => next[n] \in (n + 1)..N
  PROVE  \E f : Searches(f, N, stop, next)
<1> DEFINE Down(n, f) == \A k \in n..N : f[k] = IF k \in stop THEN k ELSE f[next[k]]
           P == {n \in 1..(N + 1) : \E f : Down(n, f) /\ f = [k \in n..N |-> f[k]]}
<1>1. N + 1 \in P
  <2>1. Down(N + 1, [k \in (N + 1)..N |-> k])
    OBVIOUS
  <2>2. LET f == [k \in (N + 1)..N |-> k] IN f = [k \in (N + 1)..N |-> f[k]]
    OBVIOUS
  <2> HIDE DEF Down
  <2> QED BY <2>1, <2>2
<1>2. ASSUME NEW n \in 1..N, n + 1 \in P PROVE n \in P
  <2>1. PICK f : Down(n + 1, f)
    BY <1>2
  <2> DEFINE x == IF n \in stop THEN n ELSE f[next[n]]
             g == [k \in n..N |-> IF k = n THEN x ELSE f[k]]
  <2>2. ASSUME NEW k \in n..N PROVE g[k] = IF k \in stop THEN k ELSE g[next[k]]
    <3>1. CASE k \in stop
      <4>1. CASE k = n
        BY <3>1, <4>1
      <4>2. CASE k # n
        <5>1. k \in (n + 1)..N
          BY <4>2
        <5> QED BY <2>1, <3>1, <4>2, <5>1
      <4> QED BY <4>1, <4>2
    <3>2. CASE k \notin stop
      <4>1. k \in 1..N
        OBVIOUS
      <4>2. next[k] \in (k + 1)..N
        BY <3>2, <4>1
      <4>3. next[k] \in n..N /\ next[k] # n
        BY <4>1, <4>2
      <4>4. g[next[k]] = f[next[k]]
        BY <4>3
      <4>5. CASE k = n
        BY <3>2, <4>4, <4>5
      <4>6. CASE k # n
        <5>1. k \in (n + 1)..N
          BY <4>6
        <5> QED BY <2>1, <3>2, <4>4, <4>6, <5>1
      <4> QED BY <4>5, <4>6
    <3> QED BY <3>1, <3>2
  <2>3. Down(n, g)
    <3> HIDE DEF g
    <3> QED BY <2>2
  <2>4. g = [k \in n..N |-> g[k]]
    OBVIOUS
  <2>5. n \in 1..(N + 1)
    OBVIOUS
  <2> HIDE DEF g, Down
  <2> QED BY <2>3, <2>4, <2>5
<1>3. 1 \in P
  <2> DEFINE Q == {n \in 0..N : (N + 1) - n \in P}
  <2>1. 0 \in Q
    <3>1. 0 \in 0..N /\ (N + 1) - 0 = N + 1
      OBVIOUS
    <3> HIDE DEF P
    <3> QED BY <1>1, <3>1
  <2>2. ASSUME NEW n \in 1..N, n - 1 \in Q PROVE n \in Q
    <3>1. /\ (N + 1) - n \in 1..N /\ n \in 0..N
          /\ ((N + 1) - n) + 1 = (N + 1) - (n - 1)
      OBVIOUS
    <3> HIDE DEF P
    <3>2. ((N + 1) - n) + 1 \in P
      BY <2>2, <3>1
    <3>3. (N + 1) - n \in P
      BY <1>2, <3>1, <3>2
    <3> QED BY <3>1, <3>3
  <2>3. N \in Q
    <3> HIDE DEF Q
    <3>1. \A n \in 0..N : n \in Q
      BY <2>1, <2>2, Upwards
    <3> QED BY <3>1
  <2>4. (N + 1) - N = 1
    OBVIOUS
  <2> HIDE DEF P
  <2> QED BY <2>3, <2>4
<1>4. PICK f : Down(1, f) /\ f = [k \in 1..N |-> f[k]]
  BY <1>3
<1> QED BY <1>4 DEF Searches

(***************************************************************************)
(* Documents.                                                              *)
(***************************************************************************)
Docs ==
  [chain : [Slots -> Seq(Nat)], deleted : SUBSET Nat, keep : SUBSET Nat, emptied : SUBSET Nat,
   redone : Seq(Nat), content : Seq(Nat), theirs : SUBSET Nat]

\* every item is in one place of one chain
ChainsSound(d) ==
  /\ \A s \in Slots : \A i \in 1..Len(d.chain[s]) : d.chain[s][i] \in 1..NewestOf(d)
  /\ \A s, t \in Slots : \A i \in 1..Len(d.chain[s]) : \A j \in 1..Len(d.chain[t]) :
       d.chain[s][i] = d.chain[t][j] => s = t /\ i = j
  /\ \A u \in 1..NewestOf(d) : \E s \in Slots : \E i \in 1..Len(d.chain[s]) : d.chain[s][i] = u

\* v is a later copy of u, made by this manager
Copies(d, u, v) ==
  /\ v \in 1..NewestOf(d) /\ u < v /\ v \notin d.theirs
  /\ \A s \in Slots : \A i \in 1..Len(d.chain[s]) : d.chain[s][i] = u =>
       \E j \in 1..Len(d.chain[s]) : d.chain[s][j] = v /\ (s \in Keys => i < j)

\* `redone` leads to copies.
RedoneSound(d) == \A u \in 1..NewestOf(d) : d.redone[u] # None => Copies(d, u, d.redone[u])

\* A document as the manager may find it at any time.
DocSound(d) ==
  /\ d \in Docs /\ Len(d.redone) = NewestOf(d)
  /\ d.deleted \subseteq 1..NewestOf(d) /\ d.keep \subseteq 1..NewestOf(d)
  /\ d.theirs \subseteq 1..NewestOf(d) /\ d.emptied \subseteq d.deleted
  /\ \A u \in 1..NewestOf(d) : d.content[u] \in 1..NewestOf(d)
  /\ ChainsSound(d) /\ RedoneSound(d)

\* The parts of a document's type that the proofs use.
LEMMA DocFacts ==
  ASSUME NEW d, DocSound(d)
  PROVE  /\ NewestOf(d) \in Nat /\ DOMAIN d.redone = 1..NewestOf(d)
         /\ \A u \in 1..NewestOf(d) : d.redone[u] \in Nat
         /\ \A s \in Slots : /\ d.chain[s] \in Seq(Nat) /\ Len(d.chain[s]) \in Nat
                             /\ DOMAIN d.chain[s] = 1..Len(d.chain[s])
<1>1. d \in Docs /\ Len(d.redone) = NewestOf(d)
  BY DEF DocSound
<1>2. d.redone \in Seq(Nat) /\ d.content \in Seq(Nat) /\ d.chain \in [Slots -> Seq(Nat)]
  BY <1>1 DEF Docs
<1>3. Len(d.content) \in Nat
  BY <1>2
<1>4. DOMAIN d.redone = 1..Len(d.redone) /\ \A u \in 1..Len(d.redone) : d.redone[u] \in Nat
  BY <1>2
<1>5. ASSUME NEW s \in Slots
      PROVE  /\ d.chain[s] \in Seq(Nat) /\ Len(d.chain[s]) \in Nat
             /\ DOMAIN d.chain[s] = 1..Len(d.chain[s])
  <2>1. d.chain[s] \in Seq(Nat)
    BY <1>2
  <2> QED BY <2>1
<1> QED BY <1>1, <1>3, <1>4, <1>5 DEF NewestOf

\* A document with the chains of a sound one, and as many items, has each in one place too.
LEMMA ChainsKept ==
  ASSUME NEW d, DocSound(d), NEW e, e.chain = d.chain, NewestOf(e) = NewestOf(d)
  PROVE  ChainsSound(e)
<1>1. /\ \A s \in Slots : \A i \in 1..Len(e.chain[s]) : e.chain[s][i] \in 1..NewestOf(e)
      /\ \A u \in 1..NewestOf(e) : \E s \in Slots : \E i \in 1..Len(e.chain[s]) :
           e.chain[s][i] = u
  BY DEF DocSound, ChainsSound
<1>2. \A s, t \in Slots : \A i \in 1..Len(e.chain[s]) : \A j \in 1..Len(e.chain[t]) :
        e.chain[s][i] = e.chain[t][j] => s = t /\ i = j
  BY DEF DocSound, ChainsSound
<1> QED BY <1>1, <1>2 DEF ChainsSound

\* SlotOf and PosOf find the one place of an item.
LEMMA PlaceFacts ==
  ASSUME NEW d, DocSound(d), NEW u \in 1..NewestOf(d)
  PROVE  /\ SlotOf(d, u) \in Slots
         /\ PosOf(d, u) \in 1..Len(d.chain[SlotOf(d, u)])
         /\ d.chain[SlotOf(d, u)][PosOf(d, u)] = u
         /\ \A s \in Slots : \A i \in 1..Len(d.chain[s]) :
              d.chain[s][i] = u => s = SlotOf(d, u) /\ i = PosOf(d, u)
<1>1. PICK s \in Slots : \E i \in 1..Len(d.chain[s]) : d.chain[s][i] = u
  BY DEF DocSound, ChainsSound
<1>2. PICK i \in 1..Len(d.chain[s]) : d.chain[s][i] = u
  BY <1>1
<1>3. \A t \in Slots : \A j \in 1..Len(d.chain[t]) : d.chain[t][j] = u => t = s /\ j = i
  BY <1>2 DEF DocSound, ChainsSound
<1>4. SlotOf(d, u) = s
  <2>1. \A t \in Slots : Contains(d.chain[t], u) <=> t = s
    BY <1>2, <1>3 DEF Contains
  <2> QED BY <2>1 DEF SlotOf
<1>5. PosOf(d, u) = i
  <2>1. DOMAIN d.chain[s] = 1..Len(d.chain[s])
    BY DocFacts
  <2>2. \A j \in DOMAIN d.chain[s] : d.chain[s][j] = u <=> j = i
    BY <1>2, <1>3, <2>1
  <2>3. PosOf(d, u) = CHOOSE j \in DOMAIN d.chain[s] : d.chain[s][j] = u
    BY <1>4 DEF PosOf
  <2> QED BY <2>1, <2>2, <2>3
<1> QED BY <1>2, <1>3, <1>4, <1>5

\* A copy of a copy.
LEMMA CopyOfCopy ==
  ASSUME NEW d, DocSound(d), NEW u \in 1..NewestOf(d), NEW v, Copies(d, u, v),
         NEW w, Copies(d, v, w)
  PROVE  Copies(d, u, w)
<1>1. v \in 1..NewestOf(d) /\ w \in 1..NewestOf(d) /\ w \notin d.theirs /\ u < v /\ v < w
  BY DEF Copies
<1>2. u < w
  BY <1>1, DocFacts
<1>3. ASSUME NEW s \in Slots, NEW i \in 1..Len(d.chain[s]), d.chain[s][i] = u
      PROVE  \E j \in 1..Len(d.chain[s]) : d.chain[s][j] = w /\ (s \in Keys => i < j)
  <2>1. PICK k \in 1..Len(d.chain[s]) : d.chain[s][k] = v /\ (s \in Keys => i < k)
    BY <1>3 DEF Copies
  <2>2. PICK j \in 1..Len(d.chain[s]) : d.chain[s][j] = w /\ (s \in Keys => k < j)
    BY <2>1 DEF Copies
  <2>3. s \in Keys => i < j
    BY <2>1, <2>2, DocFacts
  <2> QED BY <2>2, <2>3
<1> QED BY <1>1, <1>2, <1>3 DEF Copies

\* follow_redone ends at the last copy of an item, or at the item if there is none.
LEMMA FollowFacts ==
  ASSUME NEW d, DocSound(d), NEW u \in 1..NewestOf(d)
  PROVE  /\ FollowRedone(d, u) \in 1..NewestOf(d)
         /\ \/ d.redone[u] = None /\ FollowRedone(d, u) = u
            \/ Copies(d, u, FollowRedone(d, u))
<1> DEFINE Eq(f) == f = [v \in DOMAIN d.redone |->
                           IF d.redone[v] = None THEN v ELSE f[d.redone[v]]]
           follow == CHOOSE f : Eq(f)
           stop == {v \in 1..NewestOf(d) : d.redone[v] = None}
<1>1. PICK N \in Nat : N = NewestOf(d)
  BY DocFacts
<1>2. DOMAIN d.redone = 1..N /\ \A v \in 1..N : d.redone[v] \in Nat
  BY <1>1, DocFacts
<1>3. ASSUME NEW v \in 1..N, d.redone[v] # None
      PROVE  Copies(d, v, d.redone[v]) /\ d.redone[v] \in (v + 1)..N
  <2>1. Copies(d, v, d.redone[v])
    BY <1>1, <1>3 DEF DocSound, RedoneSound
  <2>2. d.redone[v] \in 1..N /\ v < d.redone[v]
    BY <1>1, <2>1 DEF Copies
  <2> QED BY <2>1, <2>2
<1>4. \E f : Eq(f)
  <2>0. PICK next : next = d.redone
    OBVIOUS
  <2>1. \A v \in 1..N : v \notin stop => next[v] \in (v + 1)..N
    BY <1>1, <1>3, <2>0
  <2>2. PICK f : Searches(f, N, stop, next)
    <3> HIDE DEF stop
    <3> QED BY <2>1, Searched
  <2>3. f = [v \in 1..N |-> IF d.redone[v] = None THEN v ELSE f[d.redone[v]]]
    <3>1. \A v \in 1..N : v \in stop <=> d.redone[v] = None
      BY <1>1
    <3> HIDE DEF stop
    <3> QED BY <2>0, <2>2, <3>1 DEF Searches
  <2> QED BY <1>2, <2>3
<1>5. Eq(follow)
  <2> HIDE DEF Eq
  <2> QED BY <1>4
<1>6. FollowRedone(d, u) = follow[u]
  BY DEF FollowRedone
<1> HIDE DEF follow
<1>7. \A v \in 1..N : follow[v] = IF d.redone[v] = None THEN v ELSE follow[d.redone[v]]
  BY <1>2, <1>5
<1> DEFINE Ends(v) == /\ follow[v] \in 1..N
                      /\ (d.redone[v] = None /\ follow[v] = v) \/ Copies(d, v, follow[v])
           P == {v \in 1..N : Ends(v)}
<1>8. ASSUME NEW v \in 1..N, \A w \in (v + 1)..N : w \in P PROVE v \in P
  <2>1. CASE d.redone[v] = None
    BY <1>7, <2>1
  <2>2. CASE d.redone[v] # None
    <3> DEFINE w == d.redone[v]
    <3>1. Copies(d, v, w) /\ w \in (v + 1)..N
      BY <1>3, <2>2
    <3>2. follow[v] = follow[w]
      BY <1>7, <2>2
    <3>3. Ends(w)
      BY <1>8, <3>1
    <3> HIDE DEF w
    <3>4. Copies(d, v, follow[w])
      BY <1>1, <3>1, <3>3, CopyOfCopy
    <3> QED BY <3>2, <3>3, <3>4
  <2> QED BY <2>1, <2>2
<1>9. \A v \in 1..N : v \in P
  <2> HIDE DEF P
  <2> QED BY <1>8, Downwards
<1> QED BY <1>1, <1>6, <1>9

\* In the chain of a key the last copy of an item is at its place or behind it.
LEMMA FollowPlace ==
  ASSUME NEW d, DocSound(d), NEW s \in Keys, NEW i \in 1..Len(d.chain[s])
  PROVE  LET v == FollowRedone(d, d.chain[s][i]) IN
         /\ v \in 1..NewestOf(d) /\ SlotOf(d, v) = s
         /\ PosOf(d, v) \in i..Len(d.chain[s]) /\ d.chain[s][PosOf(d, v)] = v
<1> DEFINE u == d.chain[s][i]
           v == FollowRedone(d, u)
<1>1. s \in Slots
  BY DEF Slots
<1>2. u \in 1..NewestOf(d)
  BY <1>1 DEF DocSound, ChainsSound
<1>3. v \in 1..NewestOf(d) /\ (v = u \/ Copies(d, u, v))
  BY <1>2, FollowFacts
<1> HIDE DEF v
<1>4. PICK j \in 1..Len(d.chain[s]) : d.chain[s][j] = v /\ (j = i \/ i < j)
  <2>1. CASE v = u
    BY <2>1
  <2>2. CASE Copies(d, u, v)
    BY <1>1, <2>2 DEF Copies
  <2> QED BY <1>3, <2>1, <2>2
<1>5. SlotOf(d, v) = s /\ PosOf(d, v) = j
  BY <1>1, <1>3, <1>4, PlaceFacts
<1>6. j \in i..Len(d.chain[s])
  BY <1>1, <1>4, DocFacts
<1> QED BY <1>3, <1>4, <1>5, <1>6 DEF v

\* What a stack holds as deleted.
Recorded(v) ==
  \/ \E i \in DOMAIN undoStack : v \in undoStack[i].del
  \/ \E i \in DOMAIN redoStack : v \in redoStack[i].del

\* Position p of the slot holds u, or the last copy of an item of the manager.
Replaced(t, u, insertions, slot, p) ==
  LET chain == t.d.chain[slot] IN
  /\ p \in 1..Len(chain)
  /\ \/ chain[p] = u
     \/ \E w \in 1..NewestOf(t.d) :
          /\ chain[p] = FollowRedone(t.d, w)
          /\ t.d.redone[w] # None \/ w \in insertions \/ Recorded(w)

\* The search to the right of a value ends at the value itself, or at the last copy of one
\* that was redone, that the item inserted or that a stack holds as deleted.
LEMMA ReplacedFacts ==
  ASSUME NEW t, DocSound(t.d), NEW u \in 1..NewestOf(t.d), NEW insertions,
         SlotOf(t.d, u) \in Keys
  PROVE  Replaced(t, u, insertions, SlotOf(t.d, u), ReplacedUpTo(t, u, insertions))
<1> DEFINE s == SlotOf(t.d, u)
           chain == t.d.chain[s]
           ours(v) == \/ t.d.redone[v] # None \/ v \in insertions
                      \/ \E i \in DOMAIN undoStack : v \in undoStack[i].del
                      \/ \E i \in DOMAIN redoStack : v \in redoStack[i].del
           Eq(f) == f = [i \in DOMAIN chain |->
                           IF i < Len(chain) /\ ours(chain[i + 1])
                           THEN f[PosOf(t.d, FollowRedone(t.d, chain[i + 1]))] ELSE i]
           reach == CHOOSE f : Eq(f)
<1>1. s \in Keys /\ s \in Slots
  BY DEF Slots
<1>2. PICK L \in Nat : L = Len(chain) /\ DOMAIN chain = 1..L
  BY <1>1, DocFacts
<1>3. ReplacedUpTo(t, u, insertions) = reach[PosOf(t.d, u)]
  BY DEF ReplacedUpTo
<1>4. PosOf(t.d, u) \in 1..L /\ chain[PosOf(t.d, u)] = u
  BY <1>2, PlaceFacts
<1> HIDE DEF reach
<1> DEFINE next == [i \in 1..L |-> PosOf(t.d, FollowRedone(t.d, chain[i + 1]))]
           stop == {i \in 1..L : ~ (i < L /\ ours(chain[i + 1]))}
<1>5. ASSUME NEW i \in 1..L, i < L
      PROVE  /\ next[i] \in (i + 1)..L
             /\ chain[next[i]] = FollowRedone(t.d, chain[i + 1])
             /\ chain[i + 1] \in 1..NewestOf(t.d)
  <2>1. i + 1 \in 1..L
    BY <1>5
  <2>2. chain[i + 1] \in 1..NewestOf(t.d)
    BY <1>1, <1>2, <2>1 DEF DocSound, ChainsSound
  <2>3. i + 1 \in 1..Len(t.d.chain[s])
    BY <1>2, <2>1
  <2> HIDE DEF s
  <2> QED BY <1>1, <1>2, <2>2, <2>3, FollowPlace
<1> HIDE DEF ours
<1>6. \E f : Eq(f)
  <2>1. \A i \in 1..L : i \notin stop => next[i] \in (i + 1)..L
    BY <1>5
  <2>2. PICK f : Searches(f, L, stop, next)
    <3> HIDE DEF stop, next
    <3> QED BY <2>1, Searched
  <2>3. f = [i \in 1..L |-> IF i \in stop THEN i ELSE f[next[i]]]
    <3> HIDE DEF stop, next
    <3> QED BY <2>2 DEF Searches
  <2> HIDE DEF s
  <2>4. f = [i \in 1..L |->
               IF i < L /\ ours(chain[i + 1])
               THEN f[PosOf(t.d, FollowRedone(t.d, chain[i + 1]))] ELSE i]
    <3>1. \A i \in 1..L : /\ i \in stop <=> ~ (i < L /\ ours(chain[i + 1]))
                          /\ next[i] = PosOf(t.d, FollowRedone(t.d, chain[i + 1]))
      OBVIOUS
    <3> HIDE DEF stop, next
    <3> QED BY <2>3, <3>1
  <2> QED BY <1>2, <2>4
<1>7. Eq(reach)
  <2> HIDE DEF Eq
  <2> QED BY <1>6 DEF reach
<1>8. \A i \in 1..L : reach[i] = IF i < L /\ ours(chain[i + 1]) THEN reach[next[i]] ELSE i
  <2> HIDE DEF s
  <2> QED BY <1>2, <1>7
<1> DEFINE Found(v) == \E w \in 1..NewestOf(t.d) : v = FollowRedone(t.d, w) /\ ours(w)
           Ends(i) == reach[i] \in i..L /\ (reach[i] = i \/ Found(chain[reach[i]]))
           P == {i \in 1..L : Ends(i)}
<1>9. ASSUME NEW i \in 1..L, \A k \in (i + 1)..L : k \in P PROVE i \in P
  <2>1. CASE i < L /\ ours(chain[i + 1])
    <3>1. PICK n \in (i + 1)..L : /\ n = next[i] /\ chain[n] = FollowRedone(t.d, chain[i + 1])
                                  /\ chain[i + 1] \in 1..NewestOf(t.d)
      <4> HIDE DEF next, s
      <4> QED BY <1>5, <2>1
    <3>2. reach[i] = reach[n]
      <4> HIDE DEF next, s
      <4> QED BY <1>8, <2>1, <3>1
    <3> HIDE DEF next, s
    <3>3. Found(chain[n])
      BY <2>1, <3>1
    <3> HIDE DEF Found
    <3>4. Ends(n)
      BY <1>9
    <3>5. Found(chain[reach[i]])
      BY <3>2, <3>3, <3>4
    <3>6. reach[i] \in i..L
      BY <3>2, <3>4
    <3> QED BY <3>5, <3>6
  <2>2. CASE ~ (i < L /\ ours(chain[i + 1]))
    <3> HIDE DEF next, s, Found
    <3>1. reach[i] = i
      BY <1>8, <2>2
    <3> QED BY <3>1
  <2> QED BY <2>1, <2>2
<1>10. \A i \in 1..L : i \in P
  <2> HIDE DEF P
  <2> QED BY <1>9, Downwards
<1>11. Ends(PosOf(t.d, u))
  BY <1>4, <1>10
<1> DEFINE p == PosOf(t.d, u)
<1>12. reach[p] \in 1..L /\ (chain[reach[p]] = u \/ Found(chain[reach[p]]))
  <2> HIDE DEF s, Found
  <2> QED BY <1>4, <1>11
<1>13. \A w : ours(w) => t.d.redone[w] # None \/ w \in insertions \/ Recorded(w)
  BY DEF ours, Recorded
<1> HIDE DEF p
<1>14. Found(chain[reach[p]]) =>
         \E w \in 1..NewestOf(t.d) : /\ chain[reach[p]] = FollowRedone(t.d, w)
                                     /\ t.d.redone[w] # None \/ w \in insertions \/ Recorded(w)
  BY <1>13
<1> QED BY <1>2, <1>3, <1>12, <1>14 DEF p, Replaced

(***************************************************************************)
(* Transactions.                                                           *)
(***************************************************************************)
Txs == [d : Docs, ins : SUBSET Nat, del : SUBSET Nat]

\* The items stay what and where they are; what is deleted, kept or emptied may differ.
SameItems(d, e) ==
  e.chain = d.chain /\ e.redone = d.redone /\ e.content = d.content /\ e.theirs = d.theirs

\* If only the marks differ, a document stays sound, and every item in its slot.
LEMMA SameItemsSound ==
  ASSUME NEW d, DocSound(d), NEW e \in Docs, SameItems(d, e),
         e.deleted \subseteq 1..NewestOf(d), e.keep \subseteq 1..NewestOf(d),
         e.emptied \subseteq e.deleted
  PROVE  /\ DocSound(e) /\ NewestOf(e) = NewestOf(d)
         /\ \A u : SlotOf(e, u) = SlotOf(d, u)
         /\ \A units : InScope(e, units) = InScope(d, units)
<1>1. /\ e.chain = d.chain /\ e.redone = d.redone /\ e.content = d.content
      /\ e.theirs = d.theirs /\ NewestOf(e) = NewestOf(d)
  BY DEF SameItems, NewestOf
<1>2. ChainsSound(e)
  BY <1>1, ChainsKept
<1>3. RedoneSound(e)
  BY <1>1 DEF DocSound, RedoneSound, Copies
<1>4. DocSound(e)
  BY <1>1, <1>2, <1>3 DEF DocSound
<1>5. \A u : SlotOf(e, u) = SlotOf(d, u)
  BY <1>1 DEF SlotOf
<1>6. \A units : InScope(e, units) = InScope(d, units)
  BY <1>5 DEF InScope
<1> QED BY <1>1, <1>4, <1>5, <1>6

\* What a transaction made of document d: it adds items and deletes some, records both,
\* and leaves every item where it is.
TxSound(t, d) ==
  /\ t \in Txs /\ DocSound(t.d) /\ NewestOf(d) \in 0..NewestOf(t.d)
  /\ t.d.theirs = d.theirs /\ t.d.emptied = d.emptied
  /\ \A u \in 1..NewestOf(d) : SlotOf(t.d, u) = SlotOf(d, u)
  /\ d.deleted \subseteq t.d.deleted /\ t.del = t.d.deleted \ d.deleted
  /\ d.keep \subseteq t.d.keep
  /\ t.ins \subseteq (NewestOf(d) + 1)..NewestOf(t.d)

\* A transaction that did nothing yet.
LEMMA BeginSound ==
  ASSUME DocSound(doc)
  PROVE  TxSound(Begin, doc) /\ Begin.d = doc
<1>1. Begin.d = doc /\ Begin.ins = {} /\ Begin.del = {}
  BY DEF Begin
<1>2. doc \in Docs
  BY DEF DocSound
<1>3. Begin \in Txs
  BY <1>2 DEF Begin, Txs
<1>4. NewestOf(doc) \in 0..NewestOf(doc)
  BY DocFacts
<1> QED BY <1>1, <1>3, <1>4 DEF TxSound

\* Deleting changes the set of deleted items and nothing else of the document.
LEMMA DeleteItemsFields ==
  ASSUME NEW t \in Txs, NEW units \in SUBSET Nat
  PROVE  LET r == DeleteItems(t, units) IN
         /\ r \in Txs /\ SameItems(t.d, r.d)
         /\ r.d.deleted = t.d.deleted \cup units /\ r.d.keep = t.d.keep
         /\ r.d.emptied = t.d.emptied
         /\ r.ins = t.ins /\ r.del = t.del \cup (units \ t.d.deleted)
<1> DEFINE r == DeleteItems(t, units)
<1>1. t.d \in Docs /\ t.ins \in SUBSET Nat /\ t.del \in SUBSET Nat
  BY DEF Txs
<1>2. r.d = [t.d EXCEPT !.deleted = @ \cup units]
  BY <1>1 DEF DeleteItems, Txs
<1>3. r.ins = t.ins /\ r.del = t.del \cup (units \ t.d.deleted)
  BY <1>1 DEF DeleteItems, Txs
<1>4. /\ r.d \in Docs /\ r.d.chain = t.d.chain /\ r.d.redone = t.d.redone
      /\ r.d.content = t.d.content /\ r.d.theirs = t.d.theirs
      /\ r.d.deleted = t.d.deleted \cup units /\ r.d.keep = t.d.keep
      /\ r.d.emptied = t.d.emptied
  BY <1>1, <1>2 DEF Docs
<1>5. r \in Txs
  BY <1>1, <1>3, <1>4 DEF DeleteItems, Txs
<1> QED BY <1>3, <1>4, <1>5 DEF SameItems

\* A transaction that deletes items of its document stays sound.
LEMMA DeleteItemsSound ==
  ASSUME NEW d, NEW t, TxSound(t, d), NEW units \in SUBSET (1..NewestOf(t.d))
  PROVE  LET r == DeleteItems(t, units) IN
         /\ TxSound(r, d) /\ SameItems(t.d, r.d) /\ NewestOf(r.d) = NewestOf(t.d)
         /\ r.d.deleted = t.d.deleted \cup units
         /\ \A u : SlotOf(r.d, u) = SlotOf(t.d, u)
<1> DEFINE r == DeleteItems(t, units)
<1>1. t \in Txs /\ DocSound(t.d)
  BY DEF TxSound
<1>2. units \in SUBSET Nat
  OBVIOUS
<1>3. /\ r \in Txs /\ SameItems(t.d, r.d)
      /\ r.d.deleted = t.d.deleted \cup units /\ r.d.keep = t.d.keep
      /\ r.d.emptied = t.d.emptied
      /\ r.ins = t.ins /\ r.del = t.del \cup (units \ t.d.deleted)
  BY <1>1, <1>2, DeleteItemsFields
<1> HIDE DEF r
<1>4. r.d \in Docs
  BY <1>3 DEF Txs
<1>5. /\ r.d.deleted \subseteq 1..NewestOf(t.d) /\ r.d.keep \subseteq 1..NewestOf(t.d)
      /\ r.d.emptied \subseteq r.d.deleted
  BY <1>1, <1>3 DEF DocSound
<1>6. /\ DocSound(r.d) /\ NewestOf(r.d) = NewestOf(t.d)
      /\ \A u : SlotOf(r.d, u) = SlotOf(t.d, u)
  BY <1>1, <1>3, <1>4, <1>5, SameItemsSound
<1>7. r.d.theirs = t.d.theirs
  BY <1>3 DEF SameItems
<1>8. TxSound(r, d)
  BY <1>3, <1>6, <1>7 DEF TxSound
<1> QED BY <1>3, <1>6, <1>8 DEF r

(***************************************************************************)
(* Insertion.                                                              *)
(***************************************************************************)
\* M is the list L with x inserted behind position p.
IsInserted(L, p, x, M) ==
  /\ Len(M) = Len(L) + 1 /\ M[p + 1] = x
  /\ \A i \in 1..p : M[i] = L[i]
  /\ \A i \in (p + 1)..Len(L) : M[i + 1] = L[i]

\* The concatenation of two sequences.
LEMMA Joined ==
  ASSUME NEW D, NEW A \in Seq(D), NEW B \in Seq(D)
  PROVE  /\ A \o B \in Seq(D) /\ Len(A \o B) = Len(A) + Len(B)
         /\ \A i \in 1..Len(A) : (A \o B)[i] = A[i]
         /\ \A i \in 1..Len(B) : (A \o B)[Len(A) + i] = B[i]
OBVIOUS

\* That is what InsertAt returns.
LEMMA Inserted ==
  ASSUME NEW D, NEW L \in Seq(D), NEW p \in 0..Len(L), NEW x \in D
  PROVE  /\ InsertAt(L, p + 1, x) \in Seq(D)
         /\ IsInserted(L, p, x, InsertAt(L, p + 1, x))
<1> DEFINE A == SubSeq(L, 1, p)
           B == SubSeq(L, p + 1, Len(L))
           M == InsertAt(L, p + 1, x)
<1>1. /\ A \in Seq(D) /\ Len(A) = p /\ \A i \in 1..p : A[i] = L[i]
  OBVIOUS
<1>2. /\ B \in Seq(D) /\ Len(B) = Len(L) - p
      /\ \A i \in 1..(Len(L) - p) : B[i] = L[p + i]
  OBVIOUS
<1>3. M = (A \o <<x>>) \o B
  <2>1. (p + 1) - 1 = p
    OBVIOUS
  <2> QED BY <2>1 DEF InsertAt
<1> HIDE DEF A, B, M
<1>4. /\ A \o <<x>> \in Seq(D) /\ Len(A \o <<x>>) = p + 1
      /\ (A \o <<x>>)[p + 1] = x
      /\ \A i \in 1..p : (A \o <<x>>)[i] = L[i]
  BY <1>1
<1>5. /\ M \in Seq(D) /\ Len(M) = Len(L) + 1
      /\ \A i \in 1..(p + 1) : M[i] = (A \o <<x>>)[i]
      /\ \A i \in 1..(Len(L) - p) : M[p + 1 + i] = B[i]
  <2>1. PICK C \in Seq(D) : C = A \o <<x>> /\ Len(C) = p + 1
    BY <1>4
  <2>2. PICK E \in Seq(D) : E = B
    BY <1>2
  <2>3. /\ M \in Seq(D) /\ Len(M) = Len(C) + Len(E)
        /\ \A i \in 1..Len(C) : M[i] = C[i]
        /\ \A i \in 1..Len(E) : M[Len(C) + i] = E[i]
    <3>1. M = C \o E
      BY <1>3, <2>1, <2>2
    <3> QED BY <3>1, Joined
  <2>4. p \in Nat /\ Len(L) \in Nat
    OBVIOUS
  <2>5. Len(E) = Len(L) - p
    BY <1>2, <2>2
  <2>6. \A i \in 1..(Len(L) - p) : M[p + 1 + i] = B[i]
    BY <2>1, <2>2, <2>3, <2>5
  <2> QED BY <2>1, <2>3, <2>4, <2>5, <2>6
<1>6. ASSUME NEW i \in (p + 1)..Len(L) PROVE M[i + 1] = L[i]
  <2>1. i - p \in 1..(Len(L) - p)
    OBVIOUS
  <2>2. M[p + 1 + (i - p)] = L[p + (i - p)]
    BY <1>2, <1>5, <2>1
  <2> QED BY <2>2
<1>7. M[p + 1] = x /\ \A i \in 1..p : M[i] = L[i]
  BY <1>4, <1>5
<1>8. IsInserted(L, p, x, M)
  BY <1>5, <1>6, <1>7 DEF IsInserted
<1> QED BY <1>5, <1>8 DEF M

\* Document e is d with one item more, in `slot` behind position p.
Grown(d, e, slot, p) ==
  LET u == NewestOf(d) + 1 IN
  /\ e.chain = [d.chain EXCEPT ![slot] = InsertAt(d.chain[slot], p + 1, u)]
  /\ e.redone = Append(d.redone, None) /\ e.theirs = d.theirs
  /\ \E c \in 1..u : e.content = Append(d.content, c)

\* Where the items of d are in e.
Up(s, i, slot, p) == IF s = slot /\ i > p THEN i + 1 ELSE i
Down(s, k, slot, p) == IF s = slot /\ k > p THEN k - 1 ELSE k

\* What is where after an insertion: the new item at its place, the others moved by one or not
\* at all.
LEMMA GrownPlaces ==
  ASSUME NEW d, DocSound(d), NEW e \in Docs, NEW slot \in Slots,
         NEW p \in 0..Len(d.chain[slot]), Grown(d, e, slot, p)
  PROVE  /\ NewestOf(e) = NewestOf(d) + 1
         /\ Len(e.chain[slot]) = Len(d.chain[slot]) + 1
         /\ e.chain[slot][p + 1] = NewestOf(e)
         /\ \A s \in Slots \ {slot} : e.chain[s] = d.chain[s]
         /\ \A s \in Slots : \A i \in 1..Len(d.chain[s]) :
              /\ Up(s, i, slot, p) \in 1..Len(e.chain[s])
              /\ e.chain[s][Up(s, i, slot, p)] = d.chain[s][i]
         /\ \A s \in Slots : \A k \in 1..Len(e.chain[s]) :
              \/ s = slot /\ k = p + 1
              \/ /\ Down(s, k, slot, p) \in 1..Len(d.chain[s])
                 /\ e.chain[s][k] = d.chain[s][Down(s, k, slot, p)]
<1> DEFINE u == NewestOf(d) + 1
           L == d.chain[slot]
           M == InsertAt(L, p + 1, u)
<1>1. L \in Seq(Nat) /\ Len(L) \in Nat /\ u \in Nat
  BY DocFacts
<1>2. p \in 0..Len(L)
  OBVIOUS
<1>3. M \in Seq(Nat) /\ IsInserted(L, p, u, M)
  <2> HIDE DEF L, u
  <2> QED BY <1>1, <1>2, Inserted
<1>4. d.chain \in [Slots -> Seq(Nat)]
  BY DEF DocSound, Docs
<1>5. e.chain[slot] = M /\ \A s \in Slots \ {slot} : e.chain[s] = d.chain[s]
  BY <1>4 DEF Grown
<1>6. NewestOf(e) = u
  <2>1. d.content \in Seq(Nat)
    BY DEF DocSound, Docs
  <2>2. PICK c \in 1..u : e.content = Append(d.content, c)
    BY DEF Grown
  <2> QED BY <2>1, <2>2 DEF NewestOf
<1> HIDE DEF L, M
<1>7. /\ Len(M) = Len(L) + 1 /\ M[p + 1] = u
      /\ \A i \in 1..p : M[i] = L[i]
      /\ \A i \in (p + 1)..Len(L) : M[i + 1] = L[i]
  BY <1>3 DEF IsInserted
<1> HIDE DEF u
<1>8. ASSUME NEW s \in Slots, NEW i \in 1..Len(d.chain[s])
      PROVE  /\ Up(s, i, slot, p) \in 1..Len(e.chain[s])
             /\ e.chain[s][Up(s, i, slot, p)] = d.chain[s][i]
  <2>1. CASE s = slot
    <3>1. i \in 1..Len(L)
      BY <2>1 DEF L
    <3>2. CASE i > p
      <4>1. i \in (p + 1)..Len(L) /\ i + 1 \in 1..(Len(L) + 1)
        BY <1>1, <3>1, <3>2
      <4> QED BY <1>5, <1>7, <2>1, <3>2, <4>1 DEF Up, L
    <3>3. CASE ~ (i > p)
      <4>1. i \in 1..p /\ i \in 1..(Len(L) + 1)
        BY <1>1, <3>1, <3>3
      <4> QED BY <1>5, <1>7, <2>1, <3>3, <4>1 DEF Up, L
    <3> QED BY <3>2, <3>3
  <2>2. CASE s # slot
    BY <1>5, <2>2 DEF Up
  <2> QED BY <2>1, <2>2
<1>9. ASSUME NEW s \in Slots, NEW k \in 1..Len(e.chain[s]), ~ (s = slot /\ k = p + 1)
      PROVE  /\ Down(s, k, slot, p) \in 1..Len(d.chain[s])
             /\ e.chain[s][k] = d.chain[s][Down(s, k, slot, p)]
  <2>1. CASE s = slot
    <3>1. k \in 1..(Len(L) + 1) /\ k # p + 1
      BY <1>5, <1>7, <1>9, <2>1
    <3>2. CASE k > p
      <4>1. k - 1 \in (p + 1)..Len(L) /\ (k - 1) + 1 = k /\ k - 1 \in 1..Len(L)
        BY <1>1, <3>1, <3>2
      <4>2. M[(k - 1) + 1] = L[k - 1]
        BY <1>7, <4>1
      <4> QED BY <1>5, <2>1, <3>2, <4>1, <4>2 DEF Down, L
    <3>3. CASE ~ (k > p)
      <4>1. k \in 1..p /\ k \in 1..Len(L)
        <5>1. k \in Nat /\ p \in Nat /\ p <= Len(L) /\ k >= 1 /\ k <= p
          BY <1>1, <1>2, <3>1, <3>3
        <5> QED BY <1>1, <5>1
      <4>2. M[k] = L[k]
        BY <1>7, <4>1
      <4> QED BY <1>5, <2>1, <3>3, <4>1, <4>2 DEF Down, L
    <3> QED BY <3>2, <3>3
  <2>2. CASE s # slot
    BY <1>5, <2>2 DEF Down
  <2> QED BY <2>1, <2>2
<1>10. /\ NewestOf(e) = NewestOf(d) + 1
       /\ Len(e.chain[slot]) = Len(d.chain[slot]) + 1
       /\ e.chain[slot][p + 1] = NewestOf(e)
  BY <1>5, <1>6, <1>7 DEF L, u
<1> QED BY <1>5, <1>8, <1>9, <1>10

\* A document with one item more is sound, and the other items keep their slots.
LEMMA GrownSound ==
  ASSUME NEW d, DocSound(d), NEW e \in Docs, NEW slot \in Slots,
         NEW p \in 0..Len(d.chain[slot]), Grown(d, e, slot, p),
         e.deleted \subseteq 1..(NewestOf(d) + 1), e.keep \subseteq 1..(NewestOf(d) + 1),
         e.emptied \subseteq e.deleted
  PROVE  /\ DocSound(e) /\ NewestOf(e) = NewestOf(d) + 1
         /\ \A u \in 1..NewestOf(d) : SlotOf(e, u) = SlotOf(d, u) /\ e.redone[u] = d.redone[u]
         /\ SlotOf(e, NewestOf(e)) = slot /\ e.redone[NewestOf(e)] = None
<1> DEFINE up(s, i) == Up(s, i, slot, p)
           down(s, k) == Down(s, k, slot, p)
           old(s, k) == ~ (s = slot /\ k = p + 1)
<1>1. PICK N \in Nat : N = NewestOf(d)
  BY DocFacts
<1>2. NewestOf(e) = N + 1 /\ e.chain[slot][p + 1] = N + 1
  BY <1>1, GrownPlaces
<1>3. /\ Len(d.chain[slot]) \in Nat /\ Len(e.chain[slot]) = Len(d.chain[slot]) + 1
      /\ p + 1 \in 1..Len(e.chain[slot])
  <2>1. Len(d.chain[slot]) \in Nat
    BY DocFacts
  <2>2. Len(e.chain[slot]) = Len(d.chain[slot]) + 1
    BY GrownPlaces
  <2> QED BY <2>1, <2>2
<1>4. \A s \in Slots : \A i \in 1..Len(d.chain[s]) :
        up(s, i) \in 1..Len(e.chain[s]) /\ e.chain[s][up(s, i)] = d.chain[s][i]
  BY GrownPlaces
<1>5. \A s \in Slots : \A k \in 1..Len(e.chain[s]) : old(s, k) =>
        down(s, k) \in 1..Len(d.chain[s]) /\ e.chain[s][k] = d.chain[s][down(s, k)]
  BY GrownPlaces
<1>6. \A s \in Slots : \A i \in 1..Len(d.chain[s]) : d.chain[s][i] \in 1..N
  BY <1>1 DEF DocSound, ChainsSound
<1>7. ASSUME NEW s \in Slots, NEW k \in 1..Len(e.chain[s]), NEW t \in Slots,
             NEW j \in 1..Len(e.chain[t]), old(s, k), old(t, j), s # t \/ down(s, k) = down(t, j)
      PROVE  s = t => k = j
  BY <1>7 DEF Down
<1> HIDE DEF up, down
<1>8. ASSUME NEW s \in Slots, NEW k \in 1..Len(e.chain[s])
      PROVE  /\ e.chain[s][k] \in 1..(N + 1)
             /\ ~ old(s, k) <=> e.chain[s][k] = N + 1
  <2>1. CASE old(s, k)
    <3>1. e.chain[s][k] \in 1..N
      BY <1>5, <1>6, <2>1
    <3> QED BY <2>1, <3>1
  <2>2. CASE ~ old(s, k)
    BY <1>2, <2>2
  <2> QED BY <2>1, <2>2
<1>9. ChainsSound(e)
  <2>1. ASSUME NEW s \in Slots, NEW k \in 1..Len(e.chain[s]), NEW t \in Slots,
               NEW j \in 1..Len(e.chain[t]), e.chain[s][k] = e.chain[t][j]
        PROVE  s = t /\ k = j
    <3>1. CASE old(s, k)
      <4>1. old(t, j)
        <5> HIDE DEF old
        <5> QED BY <1>8, <2>1, <3>1
      <4>2. /\ down(s, k) \in 1..Len(d.chain[s]) /\ down(t, j) \in 1..Len(d.chain[t])
            /\ d.chain[s][down(s, k)] = d.chain[t][down(t, j)]
        <5> HIDE DEF old
        <5> QED BY <1>5, <2>1, <3>1, <4>1
      <4>3. s = t /\ down(s, k) = down(t, j)
        <5>1. \A a, b \in Slots : \A i \in 1..Len(d.chain[a]) : \A h \in 1..Len(d.chain[b]) :
                d.chain[a][i] = d.chain[b][h] => a = b /\ i = h
          BY DEF DocSound, ChainsSound
        <5>2. PICK i \in 1..Len(d.chain[s]) : i = down(s, k)
          BY <4>2
        <5>3. PICK h \in 1..Len(d.chain[t]) : h = down(t, j)
          BY <4>2
        <5>4. d.chain[s][i] = d.chain[t][h]
          BY <4>2, <5>2, <5>3
        <5>5. s = t /\ i = h
          BY <5>1, <5>4
        <5> QED BY <5>2, <5>3, <5>5
      <4> HIDE DEF old
      <4> QED BY <1>7, <3>1, <4>1, <4>3
    <3>2. CASE ~ old(s, k)
      <4>1. ~ old(t, j)
        <5> HIDE DEF old
        <5> QED BY <1>8, <2>1, <3>2
      <4> QED BY <3>2, <4>1
    <3> QED BY <3>1, <3>2
  <2>2. ASSUME NEW u \in 1..(N + 1)
        PROVE  \E s \in Slots : \E k \in 1..Len(e.chain[s]) : e.chain[s][k] = u
    <3>1. CASE u = N + 1
      BY <1>2, <1>3, <3>1
    <3>2. CASE u # N + 1
      <4>1. u \in 1..NewestOf(d)
        BY <1>1, <3>2
      <4>2. PICK s \in Slots : \E i \in 1..Len(d.chain[s]) : d.chain[s][i] = u
        BY <4>1 DEF DocSound, ChainsSound
      <4>3. PICK i \in 1..Len(d.chain[s]) : d.chain[s][i] = u
        BY <4>2
      <4> QED BY <1>4, <4>3
    <3> QED BY <3>1, <3>2
  <2> HIDE DEF old
  <2>3. \A s \in Slots : \A k \in 1..Len(e.chain[s]) : e.chain[s][k] \in 1..(N + 1)
    BY <1>8
  <2>4. \A s, t \in Slots : \A k \in 1..Len(e.chain[s]) : \A j \in 1..Len(e.chain[t]) :
          e.chain[s][k] = e.chain[t][j] => s = t /\ k = j
    BY <2>1
  <2>5. \A u \in 1..(N + 1) : \E s \in Slots : \E k \in 1..Len(e.chain[s]) :
          e.chain[s][k] = u
    BY <2>2
  <2> QED BY <1>2, <2>3, <2>4, <2>5, Zenon DEF ChainsSound
<1>10. /\ Len(e.redone) = N + 1 /\ e.redone[N + 1] = None
       /\ \A u \in 1..N : e.redone[u] = d.redone[u]
  <2>1. d.redone \in Seq(Nat) /\ Len(d.redone) = N
    BY <1>1 DEF DocSound, Docs
  <2>2. e.redone = Append(d.redone, None)
    BY DEF Grown
  <2> QED BY <2>1, <2>2
<1>11. \A u \in 1..(N + 1) : e.content[u] \in 1..(N + 1)
  <2>1. d.content \in Seq(Nat) /\ Len(d.content) = N /\ \A u \in 1..N : d.content[u] \in 1..N
    BY <1>1 DEF DocSound, Docs, NewestOf
  <2>2. PICK c \in 1..(N + 1) : e.content = Append(d.content, c)
    BY <1>1 DEF Grown
  <2>3. e.content[N + 1] = c /\ \A u \in 1..N : e.content[u] = d.content[u]
    BY <2>1, <2>2
  <2>4. ASSUME NEW u \in 1..(N + 1) PROVE e.content[u] \in 1..(N + 1)
    <3>1. u = N + 1 \/ u \in 1..N
      OBVIOUS
    <3>2. ASSUME u \in 1..N PROVE e.content[u] \in 1..(N + 1)
      <4>1. e.content[u] = d.content[u] /\ d.content[u] \in 1..N
        BY <2>1, <2>3, <3>2
      <4>2. 1..N \subseteq 1..(N + 1)
        BY <1>1
      <4> QED BY <4>1, <4>2
    <3> QED BY <2>3, <3>1, <3>2
  <2> QED BY <2>4
<1>12. e.theirs = d.theirs
  BY DEF Grown
<1>13. RedoneSound(e)
  <2>1. ASSUME NEW u \in 1..(N + 1), e.redone[u] # None PROVE Copies(e, u, e.redone[u])
    <3>1. u \in 1..N
      BY <1>10, <2>1
    <3>2. PICK v : v = e.redone[u]
      OBVIOUS
    <3>3. Copies(d, u, v)
      BY <1>1, <1>10, <2>1, <3>1, <3>2 DEF DocSound, RedoneSound
    <3>4. v \in 1..(N + 1) /\ u < v /\ v \notin e.theirs
      <4>1. v \in 1..N /\ u < v /\ v \notin d.theirs
        BY <1>1, <3>3 DEF Copies
      <4> QED BY <1>12, <4>1
    <3>5. ASSUME NEW s \in Slots, NEW k \in 1..Len(e.chain[s]), e.chain[s][k] = u
          PROVE  \E j \in 1..Len(e.chain[s]) : e.chain[s][j] = v /\ (s \in Keys => k < j)
      <4>1. old(s, k)
        <5> HIDE DEF old
        <5>1. u # N + 1
          BY <3>1
        <5> QED BY <1>8, <3>5, <5>1
      <4>2. down(s, k) \in 1..Len(d.chain[s]) /\ d.chain[s][down(s, k)] = u
        <5> HIDE DEF old
        <5> QED BY <1>5, <3>5, <4>1
      <4>3. PICK j \in 1..Len(d.chain[s]) : d.chain[s][j] = v /\ (s \in Keys => down(s, k) < j)
        BY <3>3, <4>2 DEF Copies
      <4>4. up(s, j) \in 1..Len(e.chain[s]) /\ e.chain[s][up(s, j)] = v
        BY <1>4, <4>3
      <4>5. s \in Keys => k < up(s, j)
        <5>1. k \in Nat /\ j \in Nat /\ p \in Nat
          BY <4>3
        <5> QED BY <4>1, <4>3, <5>1 DEF up, down, Up, Down
      <4> QED BY <4>4, <4>5
    <3> QED BY <1>2, <3>2, <3>4, <3>5 DEF Copies
  <2> QED BY <1>2, <2>1 DEF RedoneSound
<1>14. DocSound(e)
  <2>1. e.theirs \subseteq 1..(N + 1)
    <3>1. d.theirs \subseteq 1..N
      BY <1>1 DEF DocSound
    <3> QED BY <1>12, <3>1
  <2> QED BY <1>1, <1>2, <1>9, <1>10, <1>11, <1>13, <2>1 DEF DocSound
<1>15. ASSUME NEW u \in 1..N PROVE SlotOf(e, u) = SlotOf(d, u)
  <2> DEFINE s == SlotOf(d, u)
             i == PosOf(d, u)
  <2>1. s \in Slots /\ i \in 1..Len(d.chain[s]) /\ d.chain[s][i] = u
    BY <1>1, PlaceFacts
  <2> HIDE DEF s, i
  <2>2. up(s, i) \in 1..Len(e.chain[s]) /\ e.chain[s][up(s, i)] = u
    BY <1>4, <2>1
  <2>3. u \in 1..NewestOf(e)
    BY <1>2
  <2>4. SlotOf(e, u) = s
    BY <1>14, <2>1, <2>2, <2>3, PlaceFacts
  <2> QED BY <2>4 DEF s
<1>16. SlotOf(e, N + 1) = slot
  <2>1. N + 1 \in 1..NewestOf(e)
    BY <1>2
  <2> QED BY <1>2, <1>3, <1>14, <2>1, PlaceFacts
<1> QED BY <1>1, <1>2, <1>10, <1>14, <1>15, <1>16

\* Insert and its fields.
LEMMA InsertFields ==
  ASSUME NEW t \in Txs, DocSound(t.d), NEW slot \in Slots, NEW p \in 0..Len(t.d.chain[slot]),
         NEW original, original = None \/ original \in 1..NewestOf(t.d), NEW keep,
         NEW r, r = Insert(t, slot, p, original, keep), NEW u, u = NewestOf(t.d) + 1
  PROVE  /\ r \in Txs /\ Grown(t.d, r.d, slot, p)
         /\ r.d.deleted = t.d.deleted /\ r.d.emptied = t.d.emptied
         /\ t.d.keep \subseteq r.d.keep /\ r.d.keep \subseteq t.d.keep \cup {u}
         /\ r.ins = t.ins \cup {u} /\ r.del = t.del
<1> DEFINE c == IF original = None THEN u ELSE t.d.content[original]
           M == InsertAt(t.d.chain[slot], p + 1, u)
<1>1. t.d \in Docs /\ t.ins \in SUBSET Nat /\ t.del \in SUBSET Nat
  BY DEF Txs
<1>2. u \in Nat /\ c \in 1..u
  <2>1. NewestOf(t.d) \in Nat
    BY DocFacts
  <2>2. original # None => t.d.content[original] \in 1..NewestOf(t.d)
    BY DEF DocSound
  <2> QED BY <2>1, <2>2
<1>3. M \in Seq(Nat)
  <2>1. t.d.chain[slot] \in Seq(Nat)
    BY DocFacts
  <2> QED BY <1>2, <2>1, Inserted
<1> DEFINE e == [t.d EXCEPT !.chain[slot] = M, !.redone = Append(@, None),
                            !.content = Append(@, c),
                            !.keep = IF keep THEN @ \cup {u} ELSE @]
<1>4. r.d = e /\ r.ins = t.ins \cup {u} /\ r.del = t.del
      /\ r = [d |-> e, ins |-> t.ins \cup {u}, del |-> t.del]
  <2>1. r = [t EXCEPT !.d.chain[slot] = M, !.d.redone = Append(@, None),
                      !.d.content = Append(@, c),
                      !.d.keep = IF keep THEN @ \cup {u} ELSE @, !.ins = @ \cup {u}]
    BY <1>1 DEF Insert, Txs, Docs
  <2> HIDE DEF c, M
  <2> QED BY <1>1, <2>1 DEF Txs, Docs
<1> HIDE DEF M, c
<1>5. /\ e.chain = [t.d.chain EXCEPT ![slot] = M]
      /\ e.redone = Append(t.d.redone, None) /\ e.content = Append(t.d.content, c)
      /\ e.keep = IF keep THEN t.d.keep \cup {u} ELSE t.d.keep
      /\ e.deleted = t.d.deleted /\ e.emptied = t.d.emptied /\ e.theirs = t.d.theirs
  BY <1>1 DEF Docs
<1> HIDE DEF e
<1>6. /\ t.d.chain \in [Slots -> Seq(Nat)] /\ t.d.redone \in Seq(Nat)
      /\ t.d.content \in Seq(Nat)
      /\ t.d.deleted \in SUBSET Nat /\ t.d.keep \in SUBSET Nat
      /\ t.d.emptied \in SUBSET Nat /\ t.d.theirs \in SUBSET Nat
  BY <1>1 DEF Docs
<1>7. e \in Docs
  <2>1. e.chain \in [Slots -> Seq(Nat)]
    BY <1>3, <1>5, <1>6
  <2>2. e.redone \in Seq(Nat)
    BY <1>5, <1>6 DEF None
  <2>3. e.content \in Seq(Nat)
    <3>1. c \in Nat
      BY <1>2
    <3> QED BY <1>5, <1>6, <3>1
  <2>4. e.keep \in SUBSET Nat
    BY <1>2, <1>5, <1>6
  <2>5. PICK a, b, x, y : a = e.chain /\ b = e.redone /\ x = e.content /\ y = e.keep
    OBVIOUS
  <2>6. PICK e1 : e1 = [t.d EXCEPT !.chain = a]
    OBVIOUS
  <2>7. PICK e2 : e2 = [e1 EXCEPT !.redone = b]
    OBVIOUS
  <2>8. PICK e3 : e3 = [e2 EXCEPT !.content = x]
    OBVIOUS
  <2>9. e1 \in Docs
    BY <1>1, <2>1, <2>5, <2>6 DEF Docs
  <2>10. e2 \in Docs
    BY <2>2, <2>5, <2>7, <2>9 DEF Docs
  <2>11. e3 \in Docs
    BY <2>3, <2>5, <2>8, <2>10 DEF Docs
  <2>12. e = [e3 EXCEPT !.keep = y]
    BY <1>1, <1>5, <2>5, <2>6, <2>7, <2>8 DEF e, Docs
  <2> QED BY <2>4, <2>5, <2>11, <2>12 DEF Docs
<1>8. r \in Txs
  BY <1>1, <1>2, <1>4, <1>7 DEF Txs
<1>9. Grown(t.d, e, slot, p)
  BY <1>2, <1>5 DEF Grown, M
<1>10. t.d.keep \subseteq e.keep /\ e.keep \subseteq t.d.keep \cup {u}
  BY <1>5
<1> QED BY <1>4, <1>5, <1>8, <1>9, <1>10

\* What an insertion leaves alone: the older items, their slots and their copies.
Extends(d, e, slot, p) ==
  /\ NewestOf(e) = NewestOf(d) + 1 /\ SlotOf(e, NewestOf(e)) = slot
  /\ e.redone[NewestOf(e)] = None
  /\ e.chain[slot][p + 1] = NewestOf(e) /\ Len(e.chain[slot]) = Len(d.chain[slot]) + 1
  /\ \A u \in 1..NewestOf(d) : SlotOf(e, u) = SlotOf(d, u) /\ e.redone[u] = d.redone[u]

\* Insert makes of a sound transaction a sound one, with one item more in the slot.
LEMMA InsertSound ==
  ASSUME NEW d, NEW t, TxSound(t, d), NewestOf(d) \in Nat, NEW slot \in Slots,
         NEW p \in 0..Len(t.d.chain[slot]),
         NEW original, original = None \/ original \in 1..NewestOf(t.d), NEW keep,
         NEW r, r = Insert(t, slot, p, original, keep)
  PROVE  /\ TxSound(r, d) /\ Grown(t.d, r.d, slot, p) /\ Extends(t.d, r.d, slot, p)
         /\ r.d.deleted = t.d.deleted
<1>1. t \in Txs /\ DocSound(t.d)
  BY DEF TxSound
<1>2. PICK N \in Nat : N = NewestOf(t.d)
  BY <1>1, DocFacts
<1>3. /\ r \in Txs /\ Grown(t.d, r.d, slot, p)
      /\ r.d.deleted = t.d.deleted /\ r.d.emptied = t.d.emptied
      /\ t.d.keep \subseteq r.d.keep /\ r.d.keep \subseteq t.d.keep \cup {N + 1}
      /\ r.ins = t.ins \cup {N + 1} /\ r.del = t.del
  <2>1. PICK u : u = NewestOf(t.d) + 1
    OBVIOUS
  <2>2. /\ r \in Txs /\ Grown(t.d, r.d, slot, p)
        /\ r.d.deleted = t.d.deleted /\ r.d.emptied = t.d.emptied
        /\ t.d.keep \subseteq r.d.keep /\ r.d.keep \subseteq t.d.keep \cup {u}
        /\ r.ins = t.ins \cup {u} /\ r.del = t.del
    BY <1>1, <2>1, InsertFields
  <2> QED BY <1>2, <2>1, <2>2
<1>4. r.d \in Docs
  BY <1>3 DEF Txs
<1>5. /\ r.d.deleted \subseteq 1..(N + 1) /\ r.d.keep \subseteq 1..(N + 1)
      /\ r.d.emptied \subseteq r.d.deleted
  <2>1. /\ t.d.deleted \subseteq 1..N /\ t.d.keep \subseteq 1..N
        /\ t.d.emptied \subseteq t.d.deleted
    BY <1>1, <1>2 DEF DocSound
  <2> QED BY <1>3, <2>1
<1>6. /\ DocSound(r.d) /\ NewestOf(r.d) = N + 1
      /\ \A u \in 1..N : SlotOf(r.d, u) = SlotOf(t.d, u) /\ r.d.redone[u] = t.d.redone[u]
      /\ SlotOf(r.d, NewestOf(r.d)) = slot /\ r.d.redone[NewestOf(r.d)] = None
  BY <1>1, <1>2, <1>3, <1>4, <1>5, GrownSound
<1>7. Extends(t.d, r.d, slot, p)
  <2>1. /\ r.d.chain[slot][p + 1] = NewestOf(r.d)
        /\ Len(r.d.chain[slot]) = Len(t.d.chain[slot]) + 1
    <3>1. PICK e \in Docs : e = r.d
      BY <1>4
    <3>2. Grown(t.d, e, slot, p)
      BY <1>3, <3>1
    <3>3. /\ e.chain[slot][p + 1] = NewestOf(e)
          /\ Len(e.chain[slot]) = Len(t.d.chain[slot]) + 1
      BY <1>1, <3>2, GrownPlaces
    <3> QED BY <3>1, <3>3
  <2> QED BY <1>2, <1>6, <2>1 DEF Extends
<1>8. TxSound(r, d)
  <2>1. PICK B \in Nat : B = NewestOf(d)
    OBVIOUS
  <2>2. /\ B \in 0..N /\ t.ins \subseteq (B + 1)..N
        /\ \A u \in 1..B : SlotOf(t.d, u) = SlotOf(d, u)
        /\ t.d.theirs = d.theirs /\ t.d.emptied = d.emptied
        /\ d.deleted \subseteq t.d.deleted /\ t.del = t.d.deleted \ d.deleted
        /\ d.keep \subseteq t.d.keep
    BY <1>2, <2>1 DEF TxSound
  <2>3. B \in 0..(N + 1) /\ r.ins \subseteq (B + 1)..(N + 1)
    BY <1>3, <2>2
  <2>4. \A u \in 1..B : SlotOf(r.d, u) = SlotOf(d, u)
    <3>1. \A u \in 1..B : u \in 1..N
      BY <2>2
    <3> QED BY <1>6, <2>2, <3>1
  <2>5. r.d.theirs = t.d.theirs
    BY <1>3 DEF Grown
  <2>6. r.d.deleted = t.d.deleted /\ r.d.emptied = t.d.emptied
        /\ d.keep \subseteq r.d.keep /\ r.del = t.del
    BY <1>3, <2>2
  <2> QED BY <1>3, <1>6, <2>1, <2>2, <2>3, <2>4, <2>5, <2>6 DEF TxSound
<1> QED BY <1>3, <1>7, <1>8

\* Deleting items changes none of that.
Deletes(t, r, units) == r.d.deleted = t.d.deleted \cup units

\* Deleting items leaves alone what an insertion leaves alone.
LEMMA DeletedExtends ==
  ASSUME NEW d, NEW t, TxSound(t, d), NEW old, NEW slot, NEW p, NewestOf(old) \in Nat,
         Extends(old, t.d, slot, p),
         NEW units, units \subseteq 1..NewestOf(t.d), NEW r, r = DeleteItems(t, units)
  PROVE  /\ TxSound(r, d) /\ Extends(old, r.d, slot, p)
         /\ Deletes(t, r, units)
<1>1. /\ TxSound(r, d) /\ SameItems(t.d, r.d) /\ NewestOf(r.d) = NewestOf(t.d)
      /\ r.d.deleted = t.d.deleted \cup units
      /\ \A u : SlotOf(r.d, u) = SlotOf(t.d, u)
  BY DeleteItemsSound
<1>2. r.d.redone = t.d.redone /\ r.d.chain = t.d.chain
  BY <1>1 DEF SameItems
<1> QED BY <1>1, <1>2 DEF Extends, Deletes

\* An insertion deletes nothing but the new item and, at the end of the chain of a key, the
\* value before it.
DeletesFew(t, r, slot, p) ==
  \A v \in r.d.deleted :
    \/ v \in t.d.deleted \/ v = NewestOf(t.d) + 1
    \/ /\ slot \in Keys /\ p = Len(t.d.chain[slot]) /\ p > 0
       /\ v = t.d.chain[slot][p]

\* integrate_item makes one item, and deletes that one or the value of the key before it.
LEMMA IntegrateSound ==
  ASSUME NEW d, NEW t, TxSound(t, d), NewestOf(d) \in Nat, NEW slot \in Slots,
         NEW p \in 0..Len(t.d.chain[slot]),
         NEW original, original = None \/ original \in 1..NewestOf(t.d), NEW keep,
         NEW r, r = Integrate(t, slot, p, original, keep)
  PROVE  TxSound(r, d) /\ Extends(t.d, r.d, slot, p) /\ DeletesFew(t, r, slot, p)
<1>1. PICK N \in Nat : N = NewestOf(t.d)
  BY DocFacts DEF TxSound
<1>2. PICK u \in Nat : u = N + 1
  OBVIOUS
<1>3. PICK t1 : t1 = Insert(t, slot, p, original, keep)
  OBVIOUS
<1>4. /\ TxSound(t1, d) /\ Grown(t.d, t1.d, slot, p) /\ Extends(t.d, t1.d, slot, p)
      /\ t1.d.deleted = t.d.deleted
  BY <1>3, InsertSound
<1>5. NewestOf(t1.d) = u
  BY <1>1, <1>2, <1>4 DEF Extends
<1>6. PICK L : L = t1.d.chain[slot]
  OBVIOUS
<1> DEFINE Allowed(v) == \/ v \in t.d.deleted \/ v = u
                         \/ /\ slot \in Keys /\ p = Len(t.d.chain[slot]) /\ p > 0
                            /\ v = t.d.chain[slot][p]
<1>7. /\ L \in Seq(Nat) /\ Len(L) \in Nat /\ Len(L) # 0
      /\ \A i \in 1..Len(L) : L[i] \in 1..u /\ (L[i] = u => i = p + 1)
      /\ Len(L) = Len(t.d.chain[slot]) + 1
      /\ p \in 1..Len(t.d.chain[slot]) => L[p] = t.d.chain[slot][p]
  <2>1. DocSound(t.d) /\ DocSound(t1.d) /\ t1.d \in Docs
    BY <1>4 DEF TxSound, Txs
  <2>2. /\ Len(L) = Len(t.d.chain[slot]) + 1 /\ L[p + 1] = u
        /\ \A i \in 1..Len(t.d.chain[slot]) : L[Up(slot, i, slot, p)] = t.d.chain[slot][i]
    <3>1. PICK e : e = t1.d
      OBVIOUS
    <3>2. e \in Docs /\ Grown(t.d, e, slot, p)
      BY <1>4, <2>1, <3>1
    <3>3. /\ Len(e.chain[slot]) = Len(t.d.chain[slot]) + 1 /\ e.chain[slot][p + 1] = NewestOf(e)
          /\ \A i \in 1..Len(t.d.chain[slot]) :
               e.chain[slot][Up(slot, i, slot, p)] = t.d.chain[slot][i]
      BY <2>1, <3>2, GrownPlaces
    <3> QED BY <1>5, <1>6, <3>1, <3>3
  <2>3. L \in Seq(Nat) /\ Len(L) \in Nat /\ Len(t.d.chain[slot]) \in Nat
    BY <1>6, <2>1, DocFacts
  <2>4. p + 1 \in 1..Len(L)
    BY <2>2, <2>3
  <2>5. ASSUME NEW i \in 1..Len(L) PROVE L[i] \in 1..u /\ (L[i] = u => i = p + 1)
    <3>1. ChainsSound(t1.d)
      BY <2>1 DEF DocSound
    <3>2. L[i] \in 1..u
      BY <1>5, <1>6, <3>1 DEF ChainsSound
    <3>3. L[i] = L[p + 1] => i = p + 1
      BY <1>6, <2>4, <3>1 DEF ChainsSound
    <3> QED BY <2>2, <3>2, <3>3
  <2>6. p \in 1..Len(t.d.chain[slot]) => L[p] = t.d.chain[slot][p]
    <3>1. Up(slot, p, slot, p) = p
      BY DEF Up
    <3> QED BY <2>2, <3>1
  <2>7. Len(L) # 0
    <3>1. PICK n \in Nat : n = Len(t.d.chain[slot])
      BY <2>3
    <3>2. Len(L) = n + 1 /\ n + 1 # 0
      BY <2>2, <3>1
    <3> QED BY <3>2
  <2>8. \A i \in 1..Len(L) : L[i] \in 1..u /\ (L[i] = u => i = p + 1)
    BY <2>5
  <2>9. Len(L) = Len(t.d.chain[slot]) + 1
    BY <2>2
  <2> QED BY <2>3, <2>6, <2>7, <2>8, <2>9
<1>8. PICK t2 : t2 = IF slot \notin Keys \/ Len(L) = 1 THEN t1
                     ELSE IF Last(L) = u THEN DeleteItems(t1, {L[Len(L) - 1]})
                     ELSE DeleteItems(t1, {u})
  OBVIOUS
<1>9. r = IF original \in t.d.emptied THEN DeleteItems(t2, {u}) ELSE t2
  BY <1>1, <1>2, <1>3, <1>6, <1>8 DEF Integrate
<1>10. u \in 1..u
  BY <1>2
<1>11. /\ TxSound(t2, d) /\ Extends(t.d, t2.d, slot, p) /\ NewestOf(t2.d) = u
       /\ \A v \in t2.d.deleted : Allowed(v)
  <2>1. CASE slot \notin Keys \/ Len(L) = 1
    BY <1>4, <1>5, <1>8, <2>1
  <2>2. CASE slot \in Keys /\ Len(L) # 1 /\ Last(L) = u
    <3>1. t2 = DeleteItems(t1, {L[Len(L) - 1]})
      BY <1>8, <2>2
    <3>2. Len(L) \in 1..Len(L) /\ Len(L) - 1 \in 1..Len(L)
      <4>1. PICK n \in Nat : n = Len(L) /\ n # 0 /\ n # 1
        BY <1>7, <2>2
      <4>2. n \in 1..n /\ n - 1 \in 1..n
        BY <4>1
      <4> QED BY <4>1, <4>2
    <3>3. {L[Len(L) - 1]} \subseteq 1..NewestOf(t1.d)
      BY <1>5, <1>7, <3>2
    <3>4. Len(L) = p + 1
      BY <1>7, <2>2, <3>2 DEF Last
    <3>5. p = Len(t.d.chain[slot]) /\ p > 0
      BY <1>7, <2>2, <3>4
    <3>6. L[Len(L) - 1] = t.d.chain[slot][p]
      <4>1. p \in 1..Len(t.d.chain[slot]) /\ Len(L) - 1 = p
        BY <1>7, <3>4, <3>5
      <4> QED BY <1>7, <4>1
    <3>7. /\ TxSound(t2, d) /\ Extends(t.d, t2.d, slot, p)
          /\ t2.d.deleted = t1.d.deleted \cup {L[Len(L) - 1]} /\ NewestOf(t2.d) = u
      <4>1. PICK units : units = {L[Len(L) - 1]}
        OBVIOUS
      <4>2. /\ TxSound(t1, d) /\ Extends(t.d, t1.d, slot, p) /\ NewestOf(t.d) \in Nat
            /\ units \subseteq 1..NewestOf(t1.d) /\ t2 = DeleteItems(t1, units)
        BY <1>1, <1>4, <3>1, <3>3, <4>1
      <4>3. /\ TxSound(t2, d) /\ Extends(t.d, t2.d, slot, p)
            /\ Deletes(t1, t2, units)
        BY <4>2, DeletedExtends
      <4> QED BY <1>1, <1>2, <4>1, <4>3 DEF Deletes, Extends
    <3> QED BY <1>4, <2>2, <3>5, <3>6, <3>7
  <2>3. CASE slot \in Keys /\ Len(L) # 1 /\ Last(L) # u
    <3>1. t2 = DeleteItems(t1, {u})
      BY <1>8, <2>3
    <3>2. {u} \subseteq 1..NewestOf(t1.d)
      BY <1>5, <1>10
    <3>3. /\ TxSound(t2, d) /\ Extends(t.d, t2.d, slot, p)
          /\ t2.d.deleted = t1.d.deleted \cup {u} /\ NewestOf(t2.d) = u
      <4>1. PICK units : units = {u}
        OBVIOUS
      <4>2. /\ TxSound(t1, d) /\ Extends(t.d, t1.d, slot, p) /\ NewestOf(t.d) \in Nat
            /\ units \subseteq 1..NewestOf(t1.d) /\ t2 = DeleteItems(t1, units)
        BY <1>1, <1>4, <3>1, <3>2, <4>1
      <4>3. /\ TxSound(t2, d) /\ Extends(t.d, t2.d, slot, p)
            /\ Deletes(t1, t2, units)
        BY <4>2, DeletedExtends
      <4> QED BY <1>1, <1>2, <4>1, <4>3 DEF Deletes, Extends
    <3> QED BY <1>4, <3>3
  <2> QED BY <2>1, <2>2, <2>3
<1>12. /\ TxSound(r, d) /\ Extends(t.d, r.d, slot, p) /\ \A v \in r.d.deleted : Allowed(v)
  <2>1. CASE original \in t.d.emptied
    <3>1. r = DeleteItems(t2, {u}) /\ {u} \subseteq 1..NewestOf(t2.d)
      BY <1>9, <1>10, <1>11, <2>1
    <3>2. /\ TxSound(r, d) /\ Extends(t.d, r.d, slot, p)
          /\ r.d.deleted = t2.d.deleted \cup {u}
      <4>1. PICK units : units = {u}
        OBVIOUS
      <4>2. /\ TxSound(t2, d) /\ Extends(t.d, t2.d, slot, p) /\ NewestOf(t.d) \in Nat
            /\ units \subseteq 1..NewestOf(t2.d) /\ r = DeleteItems(t2, units)
        BY <1>1, <1>11, <3>1, <4>1
      <4>3. /\ TxSound(r, d) /\ Extends(t.d, r.d, slot, p)
            /\ Deletes(t2, r, units)
        BY <4>2, DeletedExtends
      <4> QED BY <4>1, <4>3 DEF Deletes
    <3> QED BY <1>11, <3>2
  <2>2. CASE original \notin t.d.emptied
    BY <1>9, <1>11, <2>2
  <2> QED BY <2>1, <2>2
<1> QED BY <1>1, <1>2, <1>12 DEF DeletesFew

(***************************************************************************)
(* Redoing items.                                                          *)
(***************************************************************************)
\* Nothing is made or deleted.
SameMarks(t, e) == NewestOf(e.d) = NewestOf(t.d) /\ e.d.deleted = t.d.deleted

\* Item v becomes the copy of u.
LEMMA RedoneSet ==
  ASSUME NEW d, NEW t, TxSound(t, d), NEW u \in 1..NewestOf(t.d), NEW v, Copies(t.d, u, v),
         NEW e, e = [t EXCEPT !.d.redone[u] = v]
  PROVE  TxSound(e, d) /\ SameMarks(t, e)
<1>1. t \in Txs /\ t.d \in Docs /\ DocSound(t.d)
  BY DEF TxSound, Txs
<1>2. PICK N \in Nat : N = NewestOf(t.d)
  BY <1>1, DocFacts
<1>3. v \in Nat
  BY <1>2 DEF Copies
<1>4. t.d.redone \in Seq(Nat) /\ Len(t.d.redone) = N /\ u \in 1..Len(t.d.redone)
  BY <1>1, <1>2 DEF DocSound, Docs
<1>5. PICK R : R = [t.d.redone EXCEPT ![u] = v]
  OBVIOUS
<1>6. /\ R \in Seq(Nat) /\ Len(R) = N
      /\ \A w \in 1..N : R[w] = IF w = u THEN v ELSE t.d.redone[w]
  BY <1>3, <1>4, <1>5
<1>7. PICK f : f = [t.d EXCEPT !.redone = R]
  OBVIOUS
<1>8. e.d = f /\ e.ins = t.ins /\ e.del = t.del /\ e = [t EXCEPT !.d = f]
  BY <1>1, <1>5, <1>7 DEF Txs, Docs
<1>9. f \in Docs
  BY <1>1, <1>6, <1>7 DEF Docs
<1>10. /\ f.chain = t.d.chain /\ f.redone = R /\ f.content = t.d.content
       /\ f.theirs = t.d.theirs /\ f.deleted = t.d.deleted /\ f.keep = t.d.keep
       /\ f.emptied = t.d.emptied
  BY <1>1, <1>7 DEF Docs
<1>11. NewestOf(f) = N
  BY <1>2, <1>10 DEF NewestOf
<1>12. ChainsSound(f)
  BY <1>1, <1>2, <1>10, <1>11, ChainsKept
<1>13. \A a, b : Copies(t.d, a, b) => Copies(f, a, b)
  <2>1. f.chain = t.d.chain /\ NewestOf(f) = NewestOf(t.d) /\ f.theirs = t.d.theirs
    BY <1>2, <1>10, <1>11
  <2> QED BY <2>1 DEF Copies
<1>14. RedoneSound(f)
  <2>1. ASSUME NEW w \in 1..N, f.redone[w] # None PROVE Copies(f, w, f.redone[w])
    <3>1. CASE w = u
      BY <1>6, <1>10, <1>13, <3>1
    <3>2. CASE w # u
      <4>1. f.redone[w] = t.d.redone[w]
        BY <1>6, <1>10, <3>2
      <4>2. Copies(t.d, w, t.d.redone[w])
        BY <1>1, <1>2, <2>1, <4>1 DEF DocSound, RedoneSound
      <4> QED BY <1>13, <4>1, <4>2
    <3> QED BY <3>1, <3>2
  <2> QED BY <1>11, <2>1 DEF RedoneSound
<1>15. DocSound(f)
  BY <1>1, <1>2, <1>6, <1>9, <1>10, <1>11, <1>12, <1>14 DEF DocSound
<1>16. \A w : SlotOf(f, w) = SlotOf(t.d, w)
  BY <1>10 DEF SlotOf
<1>17. e \in Txs
  BY <1>1, <1>8, <1>9 DEF Txs
<1>18. TxSound(e, d)
  BY <1>2, <1>8, <1>10, <1>11, <1>15, <1>16, <1>17 DEF TxSound
<1> QED BY <1>2, <1>8, <1>10, <1>11, <1>18 DEF SameMarks

\* What RedoItem returns.
Redos == [t : Txs, changed : BOOLEAN]

\* What redo may delete of another origin was deleted before.
Spares(t, r, d) == \A v \in r.d.deleted : v \in d.theirs => v \in t.d.deleted

\* What redo passes over to the right of a value is no live item of another origin.
OursOnly(d, insertions) ==
  /\ insertions \cap d.theirs = {}
  /\ \A v : Recorded(v) => v \in d.deleted

\* ItemPtr::redo makes at most one item, a copy of the item it is called for.
LEMMA RedoItemSound ==
  ASSUME NEW d, DocSound(d), NEW r \in Redos, TxSound(r.t, d), NEW u \in 1..NewestOf(d),
         NEW insertions, NEW q, q = RedoItem(r, u, insertions)
  PROVE  /\ q \in Redos /\ TxSound(q.t, d) /\ NewestOf(q.t.d) <= NewestOf(r.t.d) + 1
         /\ u \in d.deleted /\ OursOnly(d, insertions) => Spares(r.t, q.t, d)
<1>1. PICK t : t = r.t
  OBVIOUS
<1>2. /\ TxSound(t, d) /\ t \in Txs /\ DocSound(t.d) /\ t.d \in Docs
      /\ NewestOf(d) \in 0..NewestOf(t.d) /\ t.d.theirs = d.theirs
      /\ d.deleted \subseteq t.d.deleted
  BY <1>1 DEF TxSound, Txs
<1>3. PICK N \in Nat : N = NewestOf(t.d)
  BY <1>2, DocFacts
<1>4. u \in 1..N /\ NewestOf(d) \in Nat
  BY <1>2, <1>3, DocFacts
<1>5. PICK slot \in Slots : slot = SlotOf(t.d, u)
  BY <1>2, <1>3, <1>4, PlaceFacts
<1>6. PICK i \in 1..Len(t.d.chain[slot]) : i = PosOf(t.d, u) /\ t.d.chain[slot][i] = u
  BY <1>2, <1>3, <1>4, <1>5, PlaceFacts
<1>7. PICK L \in Nat : L = Len(t.d.chain[slot])
  BY <1>2, DocFacts
<1>8. PICK p : p = IF slot \in Lists THEN PosOf(t.d, u) - 1 ELSE ReplacedUpTo(t, u, insertions)
  OBVIOUS
<1>9. PICK copied : copied = Integrate(t, slot, p, u, TRUE)
  OBVIOUS
<1>10. q = IF t.d.redone[u] # None THEN [r EXCEPT !.changed = TRUE]
           ELSE IF slot \in Keys /\ p < L THEN r
           ELSE [t |-> [copied EXCEPT !.d.redone[u] = NewestOf(copied.d)], changed |-> TRUE]
  BY <1>1, <1>5, <1>7, <1>8, <1>9 DEF RedoItem
<1>11. CASE t.d.redone[u] # None \/ (slot \in Keys /\ p < L)
  <2>1. q \in Redos /\ q.t = t
    BY <1>1, <1>10, <1>11 DEF Redos
  <2> QED BY <1>1, <1>2, <1>3, <2>1 DEF Spares
<1>12. CASE t.d.redone[u] = None /\ ~ (slot \in Keys /\ p < L)
  <2>1. q = [t |-> [copied EXCEPT !.d.redone[u] = NewestOf(copied.d)], changed |-> TRUE]
    BY <1>10, <1>12
  <2>2. /\ slot \in Lists => p = i - 1 /\ slot \notin Keys
        /\ slot \in Keys => p = ReplacedUpTo(t, u, insertions) /\ slot \notin Lists
    BY <1>6, <1>8, SlotsAssumption
  <2>3. slot \in Keys => /\ p \in 1..L
                         /\ \/ t.d.chain[slot][p] = u
                            \/ \E w \in 1..N :
                                 /\ t.d.chain[slot][p] = FollowRedone(t.d, w)
                                 /\ t.d.redone[w] # None \/ w \in insertions \/ Recorded(w)
    <3>1. slot \in Keys => Replaced(t, u, insertions, slot, p)
      BY <1>2, <1>3, <1>4, <1>5, <2>2, ReplacedFacts
    <3> QED BY <1>3, <1>7, <3>1 DEF Replaced
  <2>4. slot \in Keys => p = L
    BY <1>7, <1>12, <2>3
  <2>5. p \in 0..L
    <3>1. slot \in Lists => p \in 0..L
      BY <1>6, <1>7, <2>2
    <3> QED BY <2>3, <3>1 DEF Slots
  <2>6. TxSound(copied, d) /\ Extends(t.d, copied.d, slot, p) /\ DeletesFew(t, copied, slot, p)
    <3>1. p \in 0..Len(t.d.chain[slot]) /\ (u = None \/ u \in 1..NewestOf(t.d))
      BY <1>3, <1>4, <1>7, <2>5
    <3> QED BY <1>2, <1>4, <1>9, <3>1, IntegrateSound
  <2>7. /\ NewestOf(copied.d) = N + 1 /\ SlotOf(copied.d, N + 1) = slot
        /\ copied.d.chain[slot][p + 1] = N + 1 /\ Len(copied.d.chain[slot]) = L + 1
        /\ SlotOf(copied.d, u) = slot
    BY <1>3, <1>4, <1>5, <1>7, <2>6 DEF Extends
  <2>8. Copies(copied.d, u, N + 1)
    <3>1. DocSound(copied.d) /\ copied.d.theirs = d.theirs
      BY <2>6 DEF TxSound
    <3>2. N + 1 \notin d.theirs
      <4>1. d.theirs \subseteq 1..NewestOf(d)
        BY DEF DocSound
      <4> QED BY <1>2, <1>3, <1>4, <4>1
    <3>3. N + 1 \in 1..(N + 1) /\ u < N + 1 /\ u \in 1..(N + 1)
      BY <1>4
    <3>4. ASSUME NEW s \in Slots, NEW k \in 1..Len(copied.d.chain[s]), copied.d.chain[s][k] = u
          PROVE  \E j \in 1..Len(copied.d.chain[s]) :
                   copied.d.chain[s][j] = N + 1 /\ (s \in Keys => k < j)
      <4>1. s = slot
        BY <2>7, <3>1, <3>3, <3>4, PlaceFacts
      <4>2. k \in 1..(L + 1) /\ p + 1 \in 1..(L + 1) /\ k # p + 1
        BY <1>4, <2>5, <2>7, <3>4, <4>1
      <4>3. s \in Keys => k < p + 1
        BY <2>4, <4>1, <4>2
      <4> QED BY <2>7, <4>1, <4>2, <4>3
    <3> QED BY <2>7, <3>1, <3>2, <3>3, <3>4 DEF Copies
  <2>9. PICK e : e = [copied EXCEPT !.d.redone[u] = N + 1]
    OBVIOUS
  <2>10. TxSound(e, d) /\ NewestOf(e.d) = N + 1 /\ e.d.deleted = copied.d.deleted
    <3>1. u \in 1..NewestOf(copied.d)
      BY <1>4, <2>7
    <3>2. PICK v : v = N + 1
      OBVIOUS
    <3>3. TxSound(copied, d) /\ Copies(copied.d, u, v) /\ e = [copied EXCEPT !.d.redone[u] = v]
      BY <2>6, <2>8, <2>9, <3>2
    <3>4. TxSound(e, d) /\ SameMarks(copied, e)
      BY <3>1, <3>3, RedoneSet, Zenon
    <3> QED BY <2>7, <3>4 DEF SameMarks
  <2>11. q.t = e /\ q \in Redos
    <3>1. e \in Txs
      BY <2>10 DEF TxSound
    <3> QED BY <2>1, <2>7, <2>9, <3>1 DEF Redos
  <2>12. ASSUME u \in d.deleted, OursOnly(d, insertions) PROVE Spares(t, e, d)
    <3>1. ASSUME NEW v \in copied.d.deleted, v \in d.theirs, v \notin t.d.deleted PROVE FALSE
      <4>1. v # N + 1
        BY <2>8, <3>1, <2>6 DEF Copies, TxSound
      <4>2. slot \in Keys /\ v = t.d.chain[slot][p]
        BY <1>3, <2>6, <3>1, <4>1 DEF DeletesFew
      <4>3. v # u
        BY <1>2, <2>12, <3>1
      <4>4. PICK w \in 1..N : /\ v = FollowRedone(t.d, w)
                              /\ t.d.redone[w] # None \/ w \in insertions \/ Recorded(w)
        BY <2>3, <4>2, <4>3
      <4>5. t.d.redone[w] = None /\ v = w
        <5>1. ~ Copies(t.d, w, v)
          BY <1>2, <3>1 DEF Copies
        <5> QED BY <1>2, <1>3, <4>4, <5>1, FollowFacts
      <4> QED BY <1>2, <2>12, <3>1, <4>4, <4>5 DEF OursOnly
    <3> QED BY <2>10, <3>1 DEF Spares
  <2> QED BY <1>1, <1>3, <2>10, <2>11, <2>12
<1> QED BY <1>11, <1>12

\* The items are redone one after the other: each may add one item.
LEMMA RedoneFacts ==
  ASSUME DocSound(doc), NEW item, NEW order \in Seq(1..NewestOf(doc)),
         NEW q, q = Redone(item, order)
  PROVE  /\ q \in Redos /\ TxSound(q.t, doc) /\ NewestOf(q.t.d) <= NewestOf(doc) + Len(order)
         /\ (\A n \in 1..Len(order) : order[n] \in doc.deleted) /\ OursOnly(doc, item.ins)
              => Spares(Begin, q.t, doc)
<1> DEFINE first == [t |-> Begin, changed |-> FALSE]
           Eq(f) == f = [n \in 0..Len(order) |->
                           IF n = 0 THEN first ELSE RedoItem(f[n - 1], order[n], item.ins)]
           redo == CHOOSE f : Eq(f)
           D == {r \in Redos : TxSound(r.t, doc)}
<1>1. PICK N \in Nat : N = Len(order)
  OBVIOUS
<1>2. \A n \in 1..N : order[n] \in 1..NewestOf(doc)
  <2>1. PICK S : S = 1..NewestOf(doc)
    OBVIOUS
  <2>2. order \in Seq(S)
    BY <2>1
  <2>3. \A n \in 1..Len(order) : order[n] \in S
    BY <2>2
  <2> QED BY <1>1, <2>1, <2>3
<1>3. first \in D /\ first.t = Begin
  BY BeginSound DEF Redos, TxSound
<1>4. ASSUME NEW n \in 1..N, NEW r \in D
      PROVE  LET s == RedoItem(r, order[n], item.ins) IN
             /\ s \in D /\ NewestOf(s.t.d) <= NewestOf(r.t.d) + 1
             /\ order[n] \in doc.deleted /\ OursOnly(doc, item.ins) => Spares(r.t, s.t, doc)
  <2>1. PICK u \in 1..NewestOf(doc) : u = order[n]
    BY <1>2
  <2>2. PICK s : s = RedoItem(r, u, item.ins)
    OBVIOUS
  <2>3. r \in Redos /\ TxSound(r.t, doc)
    OBVIOUS
  <2>4. /\ s \in Redos /\ TxSound(s.t, doc) /\ NewestOf(s.t.d) <= NewestOf(r.t.d) + 1
        /\ u \in doc.deleted /\ OursOnly(doc, item.ins) => Spares(r.t, s.t, doc)
    BY <2>2, <2>3, RedoItemSound
  <2> QED BY <2>1, <2>2, <2>4
<1> HIDE DEF first
<1>5. \E f : Eq(f) /\ f \in [0..N -> D]
  <2> DEFINE step == [n \in 1..N |-> [r \in D |-> RedoItem(r, order[n], item.ins)]]
  <2>1. step \in [1..N -> [D -> D]]
    BY <1>4
  <2>2. \A n \in 1..N : \A r \in D : step[n][r] = RedoItem(r, order[n], item.ins)
    OBVIOUS
  <2> HIDE DEF step, D
  <2>3. PICK f \in [0..N -> D] : Iterates(f, N, first, step)
    BY <1>3, <2>1, Iterated
  <2>4. ASSUME NEW n \in 1..N PROVE f[n] = RedoItem(f[n - 1], order[n], item.ins)
    <3>1. n - 1 \in 0..N
      OBVIOUS
    <3> QED BY <2>2, <2>3, <3>1 DEF Iterates
  <2>5. f = [n \in 0..N |-> IF n = 0 THEN first ELSE RedoItem(f[n - 1], order[n], item.ins)]
    <3>1. \A n \in 0..N : n = 0 \/ n \in 1..N
      OBVIOUS
    <3> QED BY <2>3, <2>4, <3>1 DEF Iterates
  <2> QED BY <1>1, <2>5
<1>6. Eq(redo)
  <2> HIDE DEF Eq
  <2> QED BY <1>5
<1>7. q = redo[N]
  BY <1>1 DEF Redone, first
<1> HIDE DEF redo
<1>8. redo[0] = first
      /\ \A n \in 1..N : redo[n] = RedoItem(redo[n - 1], order[n], item.ins)
  <2>1. redo = [n \in 0..N |-> IF n = 0 THEN first ELSE RedoItem(redo[n - 1], order[n], item.ins)]
    BY <1>1, <1>6
  <2>2. 0 \in 0..N /\ \A n \in 1..N : n \in 0..N /\ n # 0
    OBVIOUS
  <2> QED BY <2>1, <2>2
<1> DEFINE Good(n) == /\ redo[n] \in D /\ NewestOf(redo[n].t.d) <= NewestOf(doc) + n
                      /\ (\A k \in 1..N : order[k] \in doc.deleted) /\ OursOnly(doc, item.ins)
                           => Spares(Begin, redo[n].t, doc)
           P == {n \in 0..N : Good(n)}
<1>9. 0 \in P
  <2>1. Begin.d = doc /\ NewestOf(doc) \in Nat
    BY BeginSound, DocFacts
  <2> QED BY <1>3, <1>8, <2>1 DEF Spares
<1>10. ASSUME NEW n \in 1..N, n - 1 \in P PROVE n \in P
  <2>1. PICK r \in D : r = redo[n - 1]
    BY <1>10
  <2>2. PICK s : s = RedoItem(r, order[n], item.ins) /\ s = redo[n]
    BY <1>8, <2>1
  <2>3. /\ s \in D /\ NewestOf(s.t.d) <= NewestOf(r.t.d) + 1
        /\ order[n] \in doc.deleted /\ OursOnly(doc, item.ins) => Spares(r.t, s.t, doc)
    BY <1>4, <2>2
  <2>4. /\ NewestOf(r.t.d) <= NewestOf(doc) + (n - 1)
        /\ (\A k \in 1..N : order[k] \in doc.deleted) /\ OursOnly(doc, item.ins)
             => Spares(Begin, r.t, doc)
    BY <1>10, <2>1
  <2>5. NewestOf(s.t.d) \in Nat /\ NewestOf(r.t.d) \in Nat /\ NewestOf(doc) \in Nat
    BY <2>3, DocFacts DEF TxSound
  <2>6. NewestOf(s.t.d) <= NewestOf(doc) + n
    BY <2>3, <2>4, <2>5
  <2>7. Spares(Begin, r.t, doc) /\ Spares(r.t, s.t, doc) => Spares(Begin, s.t, doc)
    BY DEF Spares
  <2> QED BY <2>2, <2>3, <2>4, <2>6, <2>7
<1>11. \A n \in 1..N : n - 1 \in P => n \in P
  <2> HIDE DEF P
  <2> QED BY <1>10
<1>12. \A n \in 0..N : n \in P
  <2> HIDE DEF P
  <2> QED BY <1>9, <1>11, Upwards
<1>13. Good(N)
  BY <1>12
<1> QED BY <1>1, <1>7, <1>13

\* What a reader sees are contents of items.
LEMMA ViewType ==
  ASSUME NEW d, DocSound(d)
  PROVE  View(d) \in [Slots -> Seq(1..NewestOf(d))]
<1>1. ASSUME NEW s \in Slots PROVE View(d)[s] \in Seq(1..NewestOf(d))
  <2> DEFINE chain == d.chain[s]
             D == Seq(1..NewestOf(d))
             Eq(f) == f = [n \in 0..Len(chain) |->
                             IF n = 0 THEN <<>>
                             ELSE IF chain[n] \in d.deleted THEN f[n - 1]
                             ELSE Append(f[n - 1], d.content[chain[n]])]
             shown == CHOOSE f : Eq(f)
  <2>1. PICK N \in Nat : N = Len(chain)
    BY DocFacts
  <2>2. \A n \in 1..N : d.content[chain[n]] \in 1..NewestOf(d)
    BY <2>1 DEF DocSound, ChainsSound
  <2> HIDE DEF chain
  <2>3. \E f : Eq(f) /\ f \in [0..N -> D]
    <3> DEFINE step == [n \in 1..N |-> [x \in D |->
                          IF chain[n] \in d.deleted THEN x ELSE Append(x, d.content[chain[n]])]]
    <3>1. step \in [1..N -> [D -> D]]
      <4>1. ASSUME NEW n \in 1..N, NEW x \in D
            PROVE  (IF chain[n] \in d.deleted THEN x ELSE Append(x, d.content[chain[n]])) \in D
        <5>1. PICK c \in 1..NewestOf(d) : c = d.content[chain[n]]
          BY <2>2
        <5>2. Append(x, c) \in D /\ x \in D
          OBVIOUS
        <5> HIDE DEF D
        <5> QED BY <5>1, <5>2
      <4> HIDE DEF D
      <4> QED BY <4>1
    <3>2. \A n \in 1..N : \A x \in D :
            step[n][x] = IF chain[n] \in d.deleted THEN x ELSE Append(x, d.content[chain[n]])
      OBVIOUS
    <3>3. <<>> \in D
      OBVIOUS
    <3> HIDE DEF step, D
    <3>4. PICK f \in [0..N -> D] : Iterates(f, N, <<>>, step)
      BY <3>1, <3>3, Iterated
    <3>5. ASSUME NEW n \in 1..N
          PROVE  f[n] = IF chain[n] \in d.deleted THEN f[n - 1]
                        ELSE Append(f[n - 1], d.content[chain[n]])
      <4>1. n - 1 \in 0..N
        OBVIOUS
      <4> QED BY <3>2, <3>4, <4>1 DEF Iterates
    <3>6. f = [n \in 0..N |-> IF n = 0 THEN <<>>
                              ELSE IF chain[n] \in d.deleted THEN f[n - 1]
                              ELSE Append(f[n - 1], d.content[chain[n]])]
      <4>1. \A n \in 0..N : n = 0 \/ n \in 1..N
        OBVIOUS
      <4> QED BY <3>4, <3>5, <4>1 DEF Iterates
    <3> QED BY <2>1, <3>6
  <2>4. Eq(shown)
    <3> HIDE DEF Eq
    <3> QED BY <2>3
  <2>5. View(d)[s] = shown[N]
    BY <2>1 DEF View, chain
  <2> HIDE DEF shown
  <2>6. shown[0] = <<>>
        /\ \A n \in 1..N : shown[n] = IF chain[n] \in d.deleted THEN shown[n - 1]
                                      ELSE Append(shown[n - 1], d.content[chain[n]])
    <3>1. shown = [n \in 0..N |-> IF n = 0 THEN <<>>
                                  ELSE IF chain[n] \in d.deleted THEN shown[n - 1]
                                  ELSE Append(shown[n - 1], d.content[chain[n]])]
      BY <2>1, <2>4
    <3>2. 0 \in 0..N /\ \A n \in 1..N : n \in 0..N /\ n # 0
      OBVIOUS
    <3> QED BY <3>1, <3>2
  <2> DEFINE P == {n \in 0..N : shown[n] \in D}
  <2>7. 0 \in P
    <3>1. <<>> \in D /\ 0 \in 0..N
      OBVIOUS
    <3>2. shown[0] \in D
      BY <2>6, <3>1
    <3> HIDE DEF D
    <3> QED BY <3>1, <3>2
  <2>8. \A n \in 1..N : n - 1 \in P => n \in P
    <3>1. ASSUME NEW n \in 1..N, shown[n - 1] \in D PROVE shown[n] \in D
      <4>1. PICK x \in D : x = shown[n - 1]
        BY <3>1
      <4>2. PICK c \in 1..NewestOf(d) : c = d.content[chain[n]]
        BY <2>2
      <4>3. Append(x, c) \in D
        OBVIOUS
      <4>4. shown[n] = x \/ shown[n] = Append(x, c)
        BY <2>6, <4>1, <4>2
      <4> HIDE DEF D
      <4> QED BY <4>3, <4>4
    <3>2. \A n \in 1..N : n \in 0..N
      OBVIOUS
    <3> HIDE DEF D
    <3> QED BY <3>1, <3>2
  <2>9. \A n \in 0..N : n \in P
    <3> HIDE DEF P
    <3> QED BY <2>7, <2>8, Upwards
  <2> QED BY <2>5, <2>9
<1>2. View(d) = [s \in Slots |-> View(d)[s]]
  BY DEF View
<1> HIDE DEF View
<1> QED BY <1>1, <1>2

(***************************************************************************)
(* The invariant.                                                          *)
(***************************************************************************)
\* A recorded item: what it inserted is nobody else's, what it deleted is deleted and, in
\* scope, is kept and has its content.
ItemSound(d, item) ==
  /\ item \in StackItems
  /\ item.ins \subseteq 1..NewestOf(d) /\ item.ins \cap d.theirs = {}
  /\ item.del \subseteq d.deleted
  /\ InScope(d, item.del) \subseteq d.keep /\ InScope(d, item.del) \cap d.emptied = {}

\* Every recorded item is sound, and an item of the document is in the deletions of one only.
StackSound(d, stack) ==
  /\ stack \in Seq(StackItems)
  /\ \A i \in 1..Len(stack) : ItemSound(d, stack[i])
  /\ \A i, j \in 1..Len(stack) : i # j => stack[i].del \cap stack[j].del = {}

\* No item is in what two recorded transactions deleted.
Apart(S, T) == \A i \in 1..Len(S) : \A j \in 1..Len(T) : S[i].del \cap T[j].del = {}
ApartFrom(S, D) == \A i \in 1..Len(S) : S[i].del \cap D = {}

\* The document, both stacks, and what is popped.
Parts(d, undo, redo, item) ==
  /\ DocSound(d) /\ NewestOf(d) <= MaxUnits
  /\ StackSound(d, undo) /\ StackSound(d, redo) /\ ItemSound(d, item)
  /\ Apart(undo, redo) /\ ApartFrom(undo, item.del) /\ ApartFrom(redo, item.del)

\* The inductive invariant.
IInv ==
  /\ Parts(doc, undoStack, redoStack, held)
  /\ undoing \in BOOLEAN /\ redoing \in BOOLEAN /\ captured \in BOOLEAN /\ quiet \in BOOLEAN
  /\ edits \in 0..MaxEdits /\ foreign \in 0..MaxForeign

\* The elements of a stack.
LEMMA StackFacts ==
  ASSUME NEW S \in Seq(StackItems)
  PROVE  /\ Len(S) \in Nat /\ DOMAIN S = 1..Len(S)
         /\ \A i \in 1..Len(S) : S[i] \in StackItems
OBVIOUS

\* The first elements of a sequence.
LEMMA PrefixFacts ==
  ASSUME NEW D, NEW S \in Seq(D), NEW n \in 0..Len(S)
  PROVE  /\ SubSeq(S, 1, n) \in Seq(D) /\ Len(SubSeq(S, 1, n)) = n
         /\ \A i \in 1..n : SubSeq(S, 1, n)[i] = S[i]
OBVIOUS

\* Stacks with the same insertions and deletions.
Alike(S, T) ==
  /\ T \in Seq(StackItems) /\ Len(T) = Len(S)
  /\ \A i \in 1..Len(S) : T[i].ins = S[i].ins /\ T[i].del = S[i].del

\* What is sound does not depend on the views that are remembered.
LEMMA AlikeSound ==
  ASSUME NEW d, NEW S, NEW T, StackSound(d, S), Alike(S, T)
  PROVE  StackSound(d, T)
<1>1. ASSUME NEW i \in 1..Len(T) PROVE ItemSound(d, T[i])
  <2>1. i \in 1..Len(S) /\ ItemSound(d, S[i])
    BY DEF StackSound, Alike
  <2>2. T[i] \in StackItems
    BY StackFacts DEF Alike
  <2>3. T[i].ins = S[i].ins /\ T[i].del = S[i].del
    BY <2>1 DEF Alike
  <2> QED BY <2>1, <2>2, <2>3 DEF ItemSound
<1>2. ASSUME NEW i \in 1..Len(T), NEW j \in 1..Len(T), i # j PROVE T[i].del \cap T[j].del = {}
  BY <1>2 DEF StackSound, Alike
<1> QED BY <1>1, <1>2 DEF StackSound, Alike

\* Nor does what two stacks have in common,
LEMMA AlikeApart ==
  ASSUME NEW S, NEW T, NEW S2, NEW T2, Apart(S, T), Alike(S, S2), Alike(T, T2)
  PROVE  Apart(S2, T2)
BY DEF Apart, Alike

\* or a stack and a set of items.
LEMMA AlikeApartFrom ==
  ASSUME NEW S, NEW S2, NEW D, ApartFrom(S, D), Alike(S, S2)
  PROVE  ApartFrom(S2, D)
BY DEF ApartFrom, Alike

\* Noted changes nothing but the views that are remembered.
LEMMA NotedAlike ==
  ASSUME NEW S \in Seq(StackItems)
  PROVE  Alike(S, Noted(S))
<1> DEFINE T == [i \in DOMAIN S |-> [S[i] EXCEPT !.before = NoView]]
<1>1. PICK N \in Nat : N = Len(S) /\ DOMAIN S = 1..N /\ \A i \in 1..N : S[i] \in StackItems
  BY StackFacts
<1>2. ASSUME NEW i \in 1..N
      PROVE  T[i] \in StackItems /\ T[i].ins = S[i].ins /\ T[i].del = S[i].del
  <2>1. S[i] \in StackItems /\ T[i] = [S[i] EXCEPT !.before = NoView]
    BY <1>1
  <2>2. NoView \in {NoView} \cup [Slots -> Seq(Units)]
    OBVIOUS
  <2> HIDE DEF T
  <2> QED BY <2>1, <2>2 DEF StackItems
<1>3. T = [i \in 1..N |-> T[i]]
  BY <1>1
<1> HIDE DEF T
<1>4. T \in [1..N -> StackItems]
  BY <1>2, <1>3
<1>5. T \in Seq(StackItems) /\ Len(T) = N
  BY <1>4
<1>6. Alike(S, T)
  BY <1>1, <1>2, <1>5 DEF Alike
<1>7. Alike(S, S)
  BY DEF Alike
<1> QED BY <1>6, <1>7 DEF Noted, T

\* Popping a stack.
LEMMA PopSound ==
  ASSUME NEW d, NEW S, StackSound(d, S), S # <<>>
  PROVE  /\ StackSound(d, Front(S)) /\ ItemSound(d, Last(S))
         /\ ApartFrom(Front(S), Last(S).del)
         /\ \A T : Apart(S, T) => Apart(Front(S), T) /\ ApartFrom(T, Last(S).del)
         /\ \A T : Apart(T, S) => Apart(T, Front(S)) /\ ApartFrom(T, Last(S).del)
         /\ \A D : ApartFrom(S, D) => ApartFrom(Front(S), D) /\ Last(S).del \cap D = {}
<1>1. S \in Seq(StackItems)
  BY DEF StackSound
<1>2. PICK N \in Nat \ {0} : N = Len(S)
  BY <1>1
<1>3. PICK F \in Seq(StackItems) : /\ F = Front(S) /\ Len(F) = N - 1
                                   /\ \A i \in 1..(N - 1) : F[i] = S[i]
  <2>1. PICK n \in 0..Len(S) : n = Len(S) - 1
    BY <1>2
  <2>2. Front(S) = SubSeq(S, 1, n)
    BY <2>1 DEF Front
  <2>3. PICK F \in Seq(StackItems) : F = SubSeq(S, 1, n)
    BY <1>1, PrefixFacts
  <2>4. Len(F) = n /\ \A i \in 1..n : F[i] = S[i]
    BY <1>1, <2>3, PrefixFacts
  <2> QED BY <1>2, <2>1, <2>2, <2>3, <2>4
<1>4. Last(S) = S[N] /\ N \in 1..N
  BY <1>2 DEF Last
<1>5. \A i \in 1..(N - 1) : i \in 1..N /\ i # N
  BY <1>2
<1>6. StackSound(d, F)
  <2>1. \A i \in 1..(N - 1) : ItemSound(d, F[i])
    BY <1>2, <1>3, <1>5 DEF StackSound
  <2>2. \A i, j \in 1..(N - 1) : i # j => F[i].del \cap F[j].del = {}
    <3>1. ASSUME NEW i \in 1..(N - 1), NEW j \in 1..(N - 1), i # j
          PROVE  F[i].del \cap F[j].del = {}
      <4>1. i \in 1..Len(S) /\ j \in 1..Len(S)
        BY <1>2, <1>5
      <4>2. S[i].del \cap S[j].del = {}
        BY <3>1, <4>1 DEF StackSound
      <4> QED BY <1>3, <4>2
    <3> QED BY <3>1
  <2> QED BY <1>3, <2>1, <2>2 DEF StackSound
<1>7. ItemSound(d, S[N])
  BY <1>2, <1>4 DEF StackSound
<1>8. ApartFrom(F, S[N].del)
  BY <1>2, <1>3, <1>4, <1>5 DEF StackSound, ApartFrom
<1>9. \A T : Apart(S, T) => Apart(F, T) /\ ApartFrom(T, S[N].del)
  BY <1>2, <1>3, <1>4, <1>5 DEF Apart, ApartFrom
<1>10. \A T : Apart(T, S) => Apart(T, F) /\ ApartFrom(T, S[N].del)
  BY <1>2, <1>3, <1>4, <1>5 DEF Apart, ApartFrom
<1>11. \A D : ApartFrom(S, D) => ApartFrom(F, D) /\ S[N].del \cap D = {}
  BY <1>2, <1>3, <1>4, <1>5 DEF ApartFrom
<1> QED BY <1>3, <1>4, <1>6, <1>7, <1>8, <1>9, <1>10, <1>11

\* One more transaction is recorded in a stack, in an item of its own or in the last one.
Grows(S, T, D) ==
  /\ T \in Seq(StackItems)
  /\ \E m \in 1..Len(T) :
       /\ \A i \in 1..Len(T) : i # m => i \in 1..Len(S) /\ T[i] = S[i]
       /\ T[m].del = D \cup (IF m \in 1..Len(S) THEN S[m].del ELSE {})

\* A stack stays sound if what the transaction deleted is in no other item of it, and what is
\* apart from the stack and from the transaction is apart from the stack that has grown.
LEMMA GrowsSound ==
  ASSUME NEW d, NEW S, NEW T, NEW D, StackSound(d, S), ApartFrom(S, D), Grows(S, T, D),
         \A i \in 1..Len(T) : (i \in 1..Len(S) /\ T[i] = S[i]) \/ ItemSound(d, T[i])
  PROVE  /\ StackSound(d, T)
         /\ \A R : Apart(S, R) /\ ApartFrom(R, D) => Apart(T, R)
         /\ \A R : Apart(R, S) /\ ApartFrom(R, D) => Apart(R, T)
         /\ \A E : ApartFrom(S, E) /\ D \cap E = {} => ApartFrom(T, E)
<1>1. PICK m \in 1..Len(T) :
        /\ \A i \in 1..Len(T) : i # m => i \in 1..Len(S) /\ T[i] = S[i]
        /\ T[m].del = D \cup (IF m \in 1..Len(S) THEN S[m].del ELSE {})
  BY DEF Grows
<1>2. \A i \in 1..Len(T) : ItemSound(d, T[i])
  BY DEF StackSound
<1>3. ASSUME NEW i \in 1..Len(T), NEW j \in 1..Len(T), i # j PROVE T[i].del \cap T[j].del = {}
  <2>1. CASE i # m /\ j # m
    BY <1>1, <1>3, <2>1 DEF StackSound
  <2>2. CASE i = m
    <3>1. j \in 1..Len(S) /\ T[j] = S[j] /\ S[j].del \cap D = {}
      BY <1>1, <1>3, <2>2 DEF ApartFrom
    <3>2. m \in 1..Len(S) => S[m].del \cap S[j].del = {}
      BY <1>3, <2>2, <3>1 DEF StackSound
    <3> QED BY <1>1, <2>2, <3>1, <3>2
  <2>3. CASE j = m
    <3>1. i \in 1..Len(S) /\ T[i] = S[i] /\ S[i].del \cap D = {}
      BY <1>1, <1>3, <2>3 DEF ApartFrom
    <3>2. m \in 1..Len(S) => S[m].del \cap S[i].del = {}
      BY <1>3, <2>3, <3>1 DEF StackSound
    <3> QED BY <1>1, <2>3, <3>1, <3>2
  <2> QED BY <2>1, <2>2, <2>3
<1>4. StackSound(d, T)
  BY <1>2, <1>3 DEF StackSound, Grows
<1>5. ASSUME NEW E, ApartFrom(S, E), D \cap E = {} PROVE ApartFrom(T, E)
  <2>1. ASSUME NEW i \in 1..Len(T) PROVE T[i].del \cap E = {}
    BY <1>1, <1>5 DEF ApartFrom
  <2> QED BY <2>1 DEF ApartFrom
<1>6. \A R : Apart(S, R) /\ ApartFrom(R, D) => Apart(T, R)
  <2>1. ASSUME NEW R, Apart(S, R), ApartFrom(R, D), NEW j \in 1..Len(R)
        PROVE  ApartFrom(T, R[j].del)
    BY <1>5, <2>1 DEF Apart, ApartFrom
  <2> QED BY <2>1 DEF Apart, ApartFrom
<1>7. \A R : Apart(R, S) /\ ApartFrom(R, D) => Apart(R, T)
  <2>1. ASSUME NEW R, Apart(R, S), ApartFrom(R, D), NEW j \in 1..Len(R)
        PROVE  ApartFrom(T, R[j].del)
    BY <1>5, <2>1 DEF Apart, ApartFrom
  <2> QED BY <2>1 DEF Apart, ApartFrom
<1> QED BY <1>4, <1>5, <1>6, <1>7

(***************************************************************************)
(* The commit.                                                             *)
(***************************************************************************)
LEMMA InScopeUnion ==
  ASSUME NEW d, NEW A, NEW B
  PROVE  InScope(d, A \cup B) = InScope(d, A) \cup InScope(d, B)
BY DEF InScope

\* Document e is what the commit of t makes of t.d: the items of G may be released, what t
\* deleted loses its content where it is not kept.
Committed(t, e, G) ==
  /\ e \in Docs /\ SameItems(t.d, e) /\ e.deleted = t.d.deleted
  /\ e.keep \subseteq 1..NewestOf(t.d)
  /\ t.d.keep \ InScope(t.d, G) \subseteq e.keep
  /\ e.emptied = t.d.emptied \cup (t.del \ e.keep)

\* A commit leaves the document sound, every recorded item of which it releases nothing, and
\* the one that records the transaction if what it deleted is kept.
LEMMA CommittedSound ==
  ASSUME NEW d, DocSound(d), NEW t, TxSound(t, d), NEW e, NEW G, Committed(t, e, G)
  PROVE  /\ DocSound(e) /\ NewestOf(e) = NewestOf(t.d)
         /\ \A X : ItemSound(d, X) /\ X.del \cap G = {} => ItemSound(e, X)
         /\ \A X : X \in StackItems /\ X.ins = t.ins /\ X.del = t.del
                     /\ InScope(t.d, t.del) \subseteq e.keep => ItemSound(e, X)
<1>1. /\ t \in Txs /\ DocSound(t.d) /\ NewestOf(d) \in 0..NewestOf(t.d)
      /\ t.d.theirs = d.theirs /\ t.d.emptied = d.emptied
      /\ \A u \in 1..NewestOf(d) : SlotOf(t.d, u) = SlotOf(d, u)
      /\ d.deleted \subseteq t.d.deleted /\ t.del = t.d.deleted \ d.deleted
      /\ d.keep \subseteq t.d.keep /\ t.ins \subseteq (NewestOf(d) + 1)..NewestOf(t.d)
  BY DEF TxSound
<1>2. PICK N \in Nat : N = NewestOf(t.d)
  BY <1>1, DocFacts
<1>3. PICK B \in 0..N : B = NewestOf(d)
  BY <1>1, <1>2
<1>4. t.d.deleted \subseteq 1..N /\ t.d.emptied \subseteq t.d.deleted
  BY <1>1, <1>2 DEF DocSound
<1>5. /\ d.deleted \subseteq 1..B /\ d.theirs \subseteq 1..B /\ d.emptied \subseteq d.deleted
  BY <1>3 DEF DocSound
<1>6. /\ e \in Docs /\ SameItems(t.d, e) /\ e.deleted = t.d.deleted
      /\ e.keep \subseteq 1..N /\ t.d.keep \ InScope(t.d, G) \subseteq e.keep
      /\ e.emptied = t.d.emptied \cup (t.del \ e.keep)
  BY <1>2 DEF Committed
<1>7. e.deleted \subseteq 1..N /\ e.emptied \subseteq e.deleted
  BY <1>1, <1>4, <1>6
<1>8. /\ DocSound(e) /\ NewestOf(e) = N
      /\ \A units : InScope(e, units) = InScope(t.d, units)
  BY <1>1, <1>2, <1>6, <1>7, SameItemsSound
<1>9. e.theirs = d.theirs
  BY <1>1, <1>6 DEF SameItems
<1>10. ASSUME NEW X, ItemSound(d, X), X.del \cap G = {} PROVE ItemSound(e, X)
  <2>1. /\ X \in StackItems /\ X.ins \subseteq 1..B /\ X.ins \cap d.theirs = {}
        /\ X.del \subseteq d.deleted
        /\ InScope(d, X.del) \subseteq d.keep /\ InScope(d, X.del) \cap d.emptied = {}
    BY <1>3, <1>10 DEF ItemSound
  <2>2. X.ins \subseteq 1..N
    BY <1>3, <2>1
  <2>3. InScope(e, X.del) = InScope(d, X.del)
    <3>1. \A u \in X.del : SlotOf(t.d, u) = SlotOf(d, u)
      BY <1>1, <1>3, <1>5, <2>1
    <3>2. InScope(t.d, X.del) = InScope(d, X.del)
      BY <3>1 DEF InScope
    <3> QED BY <1>8, <3>2
  <2>4. InScope(d, X.del) \cap InScope(t.d, G) = {}
    BY <1>10 DEF InScope
  <2>5. InScope(e, X.del) \subseteq e.keep
    BY <1>1, <1>6, <2>1, <2>3, <2>4
  <2>6. InScope(e, X.del) \cap e.emptied = {}
    BY <1>1, <1>6, <2>1, <2>3, <2>5
  <2>7. X.del \subseteq e.deleted
    BY <1>1, <1>6, <2>1
  <2> QED BY <1>8, <1>9, <2>1, <2>2, <2>5, <2>6, <2>7 DEF ItemSound
<1>11. ASSUME NEW X \in StackItems, X.ins = t.ins, X.del = t.del,
              InScope(t.d, t.del) \subseteq e.keep
       PROVE  ItemSound(e, X)
  <2>1. X.ins \subseteq 1..N
    <3>1. t.ins \subseteq (B + 1)..N
      BY <1>1, <1>2, <1>3
    <3> QED BY <1>3, <1>11, <3>1
  <2>2. X.ins \cap e.theirs = {}
    <3>1. t.ins \subseteq (B + 1)..N /\ e.theirs \subseteq 1..B
      BY <1>1, <1>2, <1>3, <1>5, <1>9
    <3>2. (1..B) \cap ((B + 1)..N) = {}
      BY <1>3
    <3> QED BY <1>11, <3>1, <3>2
  <2>3. X.del \subseteq e.deleted
    BY <1>1, <1>6, <1>11
  <2>4. InScope(e, X.del) \subseteq e.keep
    BY <1>8, <1>11
  <2>5. InScope(e, X.del) \cap e.emptied = {}
    <3>1. InScope(e, X.del) \subseteq t.del
      BY <1>11 DEF InScope
    <3>2. t.del \cap t.d.emptied = {}
      BY <1>1, <1>5
    <3> QED BY <1>6, <2>4, <3>1, <3>2
  <2> QED BY <1>8, <2>1, <2>2, <2>3, <2>4, <2>5 DEF ItemSound
<1> QED BY <1>2, <1>8, <1>10, <1>11

\* What two recorded transactions did together.
LEMMA ItemsJoined ==
  ASSUME NEW d, NEW X, ItemSound(d, X), NEW Y, ItemSound(d, Y),
         NEW Z \in StackItems, Z.ins = X.ins \cup Y.ins, Z.del = X.del \cup Y.del
  PROVE  ItemSound(d, Z)
<1>1. InScope(d, Z.del) = InScope(d, X.del) \cup InScope(d, Y.del)
  BY InScopeUnion
<1> QED BY <1>1 DEF ItemSound

\* The collector and the flag that keeps an item from it.
Collected(d, e, D) ==
  /\ SameItems(d, e) /\ e.deleted = d.deleted /\ e.keep = d.keep
  /\ e.emptied = d.emptied \cup (D \ d.keep)

\* That is what Collect returns.
LEMMA CollectFields ==
  ASSUME NEW d \in Docs, NEW deletions \in SUBSET Nat, NEW e, e = Collect(d, deletions)
  PROVE  e \in Docs /\ Collected(d, e, deletions)
<1>1. PICK E \in SUBSET Nat : E = d.emptied \cup (deletions \ d.keep)
  BY DEF Docs
<1>2. e = [d EXCEPT !.emptied = E]
  BY <1>1 DEF Collect
<1> QED BY <1>1, <1>2 DEF Docs, SameItems, Collected

\* Changing what is kept leaves a document a document.
LEMMA KeepFields ==
  ASSUME NEW d \in Docs, NEW K \in SUBSET Nat, NEW e, e = [d EXCEPT !.keep = K]
  PROVE  /\ e \in Docs /\ SameItems(d, e) /\ e.deleted = d.deleted /\ e.keep = K
         /\ e.emptied = d.emptied
BY DEF Docs, SameItems

\* A transaction that is not recorded releases nothing.
LEMMA SkipCommitted ==
  ASSUME NEW d, NEW t, TxSound(t, d), NEW e, e = Collect(t.d, t.del)
  PROVE  Committed(t, e, {})
<1>1. t.d \in Docs /\ t.del \in SUBSET Nat /\ t.d.keep \subseteq 1..NewestOf(t.d)
  BY DEF TxSound, Txs, DocSound
<1>2. PICK d1 \in Docs, D \in SUBSET Nat : d1 = t.d /\ D = t.del
  BY <1>1
<1>3. e \in Docs /\ Collected(d1, e, D)
  BY <1>2, CollectFields
<1> QED BY <1>1, <1>2, <1>3 DEF Committed, Collected

\* One that is recorded keeps what it deleted in scope; an edit releases what the items of
\* the redo stack deleted.
LEMMA HandleCommitted ==
  ASSUME NEW d, NEW t, TxSound(t, d), NEW G, NEW K, NEW kept, NEW e,
         K = (t.d.keep \ InScope(t.d, G)) \cup InScope(t.d, t.del),
         kept = [t.d EXCEPT !.keep = K], e = Collect(kept, t.del)
  PROVE  Committed(t, e, G) /\ InScope(t.d, t.del) \subseteq e.keep
<1>1. /\ t.d \in Docs /\ t.del \in SUBSET Nat /\ t.d.keep \subseteq 1..NewestOf(t.d)
      /\ t.del \subseteq 1..NewestOf(t.d)
  BY DEF TxSound, Txs, DocSound
<1>2. InScope(t.d, t.del) \subseteq t.del
  BY DEF InScope
<1>3. K \subseteq 1..NewestOf(t.d)
  BY <1>1, <1>2
<1>4. K \in SUBSET Nat
  BY <1>3
<1>5. /\ kept \in Docs /\ SameItems(t.d, kept) /\ kept.deleted = t.d.deleted /\ kept.keep = K
      /\ kept.emptied = t.d.emptied
  BY <1>1, <1>4, KeepFields
<1>6. /\ e \in Docs /\ SameItems(kept, e) /\ e.deleted = kept.deleted /\ e.keep = kept.keep
      /\ e.emptied = kept.emptied \cup (t.del \ kept.keep)
  <2>1. PICK D \in SUBSET Nat : D = t.del
    BY <1>1
  <2>2. e = Collect(kept, D) /\ kept \in Docs
    BY <1>5, <2>1
  <2>3. e \in Docs /\ Collected(kept, e, D)
    BY <2>2, CollectFields
  <2> QED BY <2>1, <2>3 DEF Collected
<1>7. SameItems(t.d, e)
  BY <1>5, <1>6 DEF SameItems
<1> QED BY <1>3, <1>5, <1>6, <1>7 DEF Committed

\* A recorded transaction.
LEMMA RecordType ==
  ASSUME DocSound(doc), NewestOf(doc) <= MaxUnits,
         NEW t, TxSound(t, doc), NewestOf(t.d) <= MaxUnits
  PROVE  /\ Record(t) \in StackItems /\ Record(t).ins = t.ins /\ Record(t).del = t.del
         /\ t.ins \subseteq Units /\ t.del \subseteq Units
<1>1. /\ DocSound(t.d) /\ t.d.deleted \subseteq 1..NewestOf(t.d) /\ t.del \subseteq t.d.deleted
      /\ NewestOf(doc) \in 0..NewestOf(t.d) /\ t.ins \subseteq (NewestOf(doc) + 1)..NewestOf(t.d)
  BY DEF TxSound, DocSound
<1>2. PICK N \in Nat, B \in Nat : N = NewestOf(t.d) /\ B = NewestOf(doc)
  BY <1>1, DocFacts
<1>3. MaxUnits \in Nat
  BY BoundAssumption
<1>4. 1..N \subseteq Units /\ 1..B \subseteq Units /\ (B + 1)..N \subseteq Units
  BY <1>2, <1>3 DEF Units
<1>5. t.ins \subseteq Units /\ t.del \subseteq Units
  BY <1>1, <1>2, <1>4
<1>6. View(doc) \in [Slots -> Seq(Units)]
  <2>1. View(doc) \in [Slots -> Seq(1..B)]
    BY <1>2, ViewType
  <2>2. PICK S : S = 1..B /\ S \subseteq Units
    BY <1>4
  <2>3. \A x \in Seq(S) : x \in Seq(Units)
    BY <2>2
  <2> HIDE DEF View, Units
  <2> QED BY <2>1, <2>2, <2>3
<1>7. (IF quiet' THEN View(doc) ELSE NoView) \in {NoView} \cup [Slots -> Seq(Units)]
  <2> HIDE DEF View
  <2> QED BY <1>6
<1> QED BY <1>5, <1>7 DEF Record, StackItems

\* The two ways to record it.
LEMMA RecordedGrows ==
  ASSUME NEW S \in Seq(StackItems), NEW t, t.ins \subseteq Units, t.del \subseteq Units,
         NEW item \in StackItems, item.ins = t.ins, item.del = t.del,
         NEW T, T = Append(S, item) \/ (S # <<>> /\ T = Extend(S, t)),
         NEW e, ItemSound(e, item), \A i \in 1..Len(S) : ItemSound(e, S[i])
  PROVE  /\ Grows(S, T, t.del)
         /\ \A i \in 1..Len(T) : (i \in 1..Len(S) /\ T[i] = S[i]) \/ ItemSound(e, T[i])
<1>1. PICK N \in Nat : N = Len(S) /\ \A i \in 1..N : S[i] \in StackItems
  BY StackFacts
<1>2. CASE T = Append(S, item)
  <2>1. /\ T \in Seq(StackItems) /\ Len(T) = N + 1 /\ T[N + 1] = item
        /\ \A i \in 1..N : T[i] = S[i]
    BY <1>1, <1>2
  <2>2. \A i \in 1..(N + 1) : i # N + 1 => i \in 1..N
    BY <1>1
  <2>3. N + 1 \in 1..(N + 1) /\ N + 1 \notin 1..N
    BY <1>1
  <2>4. Grows(S, T, t.del)
    BY <1>1, <2>1, <2>2, <2>3 DEF Grows
  <2> QED BY <1>1, <2>1, <2>2, <2>4
<1>3. CASE S # <<>> /\ T = Extend(S, t)
  <2>1. N # 0
    BY <1>1, <1>3
  <2>2. PICK n \in 0..Len(S) : n = N - 1 /\ n + 1 = N
    BY <1>1, <2>1
  <2>3. PICK F \in Seq(StackItems) : F = Front(S) /\ Len(F) = n /\ \A i \in 1..n : F[i] = S[i]
    <3>1. Front(S) = SubSeq(S, 1, n)
      BY <1>1, <2>2 DEF Front
    <3>2. PICK F \in Seq(StackItems) : F = SubSeq(S, 1, n)
      BY PrefixFacts
    <3>3. Len(F) = n /\ \A i \in 1..n : F[i] = S[i]
      BY <3>2, PrefixFacts
    <3> QED BY <3>1, <3>2, <3>3
  <2>4. N \in 1..N /\ Last(S) = S[N] /\ S[N] \in StackItems
    BY <1>1, <2>1 DEF Last
  <2>5. PICK x \in StackItems : /\ x = [Last(S) EXCEPT !.ins = @ \cup t.ins, !.del = @ \cup t.del]
                                /\ x.ins = S[N].ins \cup item.ins
                                /\ x.del = S[N].del \cup item.del
    <3>1. PICK y \in StackItems : y = S[N]
      BY <2>4
    <3>2. y.ins \cup t.ins \in SUBSET Units /\ y.del \cup t.del \in SUBSET Units
      BY DEF StackItems
    <3>3. PICK a, b : a = y.ins \cup t.ins /\ b = y.del \cup t.del
      OBVIOUS
    <3>4. PICK x : x = [y EXCEPT !.ins = a, !.del = b]
      OBVIOUS
    <3>5. x \in StackItems /\ x.ins = a /\ x.del = b
      BY <3>2, <3>3, <3>4 DEF StackItems
    <3>6. x = [Last(S) EXCEPT !.ins = @ \cup t.ins, !.del = @ \cup t.del]
      BY <2>4, <3>1, <3>3, <3>4
    <3> QED BY <3>1, <3>3, <3>5, <3>6
  <2>6. T = Append(F, x)
    BY <1>3, <2>3, <2>5 DEF Extend
  <2>7. /\ T \in Seq(StackItems) /\ Len(T) = N /\ T[N] = x /\ \A i \in 1..n : T[i] = F[i]
    BY <2>2, <2>3, <2>5, <2>6
  <2>8. ItemSound(e, x)
    BY <1>1, <2>4, <2>5, ItemsJoined
  <2>9. \A i \in 1..N : i # N => i \in 1..n /\ T[i] = S[i]
    <3>1. \A i \in 1..N : i # N => i \in 1..n
      BY <1>1, <2>2
    <3> QED BY <2>3, <2>7, <3>1
  <2>10. Grows(S, T, t.del)
    <3>1. T[N].del = t.del \cup (IF N \in 1..Len(S) THEN S[N].del ELSE {})
      BY <1>1, <2>4, <2>5, <2>7
    <3> QED BY <1>1, <2>4, <2>7, <2>9, <3>1 DEF Grows
  <2> QED BY <1>1, <2>7, <2>8, <2>9, <2>10
<1> QED BY <1>2, <1>3

\* Nothing that is recorded was deleted by a transaction that commits only now.
LEMMA NewDeletions ==
  ASSUME NEW d, NEW t, TxSound(t, d)
  PROVE  /\ \A S : StackSound(d, S) => ApartFrom(S, t.del)
         /\ \A X : ItemSound(d, X) => X.del \cap t.del = {}
<1>1. t.del \cap d.deleted = {}
  BY DEF TxSound
<1>2. \A X : ItemSound(d, X) => X.del \subseteq d.deleted
  BY DEF ItemSound
<1> QED BY <1>1, <1>2 DEF StackSound, ApartFrom

\* What a whole stack recorded survives a commit that releases nothing of it.
LEMMA StackSurvives ==
  ASSUME NEW d, DocSound(d), NEW t, TxSound(t, d), NEW e, NEW G, Committed(t, e, G),
         NEW S, StackSound(d, S), ApartFrom(S, G)
  PROVE  StackSound(e, S)
<1>1. \A i \in 1..Len(S) : ItemSound(e, S[i])
  BY CommittedSound DEF StackSound, ApartFrom
<1> QED BY <1>1 DEF StackSound

\* Noted keeps the parts of the invariant.
LEMMA PartsNoted ==
  ASSUME NEW d, NEW U, NEW R, NEW H, Parts(d, U, R, H)
  PROVE  Parts(d, Noted(U), Noted(R), H)
<1>1. Alike(U, Noted(U)) /\ Alike(R, Noted(R))
  BY NotedAlike DEF Parts, StackSound
<1>2. StackSound(d, Noted(U)) /\ StackSound(d, Noted(R))
  BY <1>1, AlikeSound DEF Parts
<1>3. Apart(Noted(U), Noted(R))
  BY <1>1, AlikeApart DEF Parts
<1>4. ApartFrom(Noted(U), H.del) /\ ApartFrom(Noted(R), H.del)
  BY <1>1, AlikeApartFrom DEF Parts
<1> QED BY <1>2, <1>3, <1>4 DEF Parts

\* An empty stack.
LEMMA EmptyStack ==
  ASSUME NEW d
  PROVE  /\ StackSound(d, <<>>) /\ \A D : ApartFrom(<<>>, D)
         /\ \A S : Apart(S, <<>>) /\ Apart(<<>>, S)
<1>1. <<>> \in Seq(StackItems) /\ Len(<<>>) = 0 /\ 1..0 = {}
  OBVIOUS
<1> QED BY <1>1 DEF StackSound, ApartFrom, Apart

\* What a commit leaves to the callers of CommitTracked.
Marks(d, t) == d.deleted = t.d.deleted /\ d.theirs = t.d.theirs

\* The commit of a transaction that changes nothing in scope.
LEMMA SkipParts ==
  ASSUME NEW U, NEW R, NEW H, Parts(doc, U, R, H),
         NEW t, TxSound(t, doc), NewestOf(t.d) <= MaxUnits, Skip(t, U, R)
  PROVE  Parts(doc', undoStack', redoStack', H) /\ Marks(doc', t) /\ captured' = captured
<1>1. /\ undoStack' = Noted(U) /\ redoStack' = Noted(R) /\ captured' = captured
  BY DEF Skip
<1>2. PICK e : e = doc' /\ e = Collect(t.d, t.del)
  BY DEF Skip
<1>3. Committed(t, e, {})
  BY <1>2, SkipCommitted
<1>4. /\ DocSound(doc) /\ StackSound(doc, U) /\ StackSound(doc, R) /\ ItemSound(doc, H)
      /\ Apart(U, R) /\ ApartFrom(U, H.del) /\ ApartFrom(R, H.del)
  BY DEF Parts
<1>5. ApartFrom(U, {}) /\ ApartFrom(R, {}) /\ H.del \cap {} = {}
  BY DEF ApartFrom
<1>6. StackSound(e, U) /\ StackSound(e, R)
  BY <1>3, <1>4, <1>5, StackSurvives
<1>7. DocSound(e) /\ NewestOf(e) = NewestOf(t.d) /\ ItemSound(e, H)
  BY <1>3, <1>4, <1>5, CommittedSound
<1>8. Parts(e, U, R, H)
  BY <1>4, <1>6, <1>7 DEF Parts
<1>9. Marks(e, t)
  BY <1>3 DEF Committed, SameItems, Marks
<1>10. Parts(e, Noted(U), Noted(R), H)
  BY <1>8, PartsNoted
<1> QED BY <1>1, <1>2, <1>9, <1>10

\* The commit of one that does: it goes to the one stack or the other, and an edit drains the
\* redo stack, whose deletions no other recorded item shares.
LEMMA HandleParts ==
  ASSUME NEW U, NEW R, NEW H, Parts(doc, U, R, H),
         NEW t, TxSound(t, doc), NewestOf(t.d) <= MaxUnits,
         NEW recent, HandleAfterTransaction(t, U, R, recent)
  PROVE  /\ Parts(doc', undoStack', redoStack', H) /\ Marks(doc', t)
         /\ captured \in BOOLEAN => captured' \in BOOLEAN
<1>1. PICK edit \in BOOLEAN : edit = (~ undoing /\ ~ redoing)
  OBVIOUS
<1>2. PICK target : target = IF undoing THEN R ELSE U
  OBVIOUS
<1>3. PICK pushed : /\ pushed = Append(target, Record(t)) \/
                         (target # <<>> /\ pushed = Extend(target, t))
                    /\ undoStack' = Noted(IF undoing THEN U ELSE pushed)
                    /\ redoStack' = Noted(IF undoing THEN pushed ELSE IF edit THEN <<>> ELSE R)
  <2> DEFINE extend == edit /\ target # <<>> /\ captured /\ recent
  <2>1. CASE extend
    BY <1>1, <1>2, <2>1 DEF HandleAfterTransaction
  <2>2. CASE ~ extend
    BY <1>1, <1>2, <2>2 DEF HandleAfterTransaction
  <2> QED BY <2>1, <2>2
<1>4. captured \in BOOLEAN => captured' \in BOOLEAN
  BY DEF HandleAfterTransaction
<1>5. PICK G : G = IF edit THEN UNION {R[i].del : i \in DOMAIN R} ELSE {}
  OBVIOUS
<1>6. PICK K : K = (t.d.keep \ InScope(t.d, G)) \cup InScope(t.d, t.del)
  OBVIOUS
<1>7. PICK e : e = doc' /\ e = Collect([t.d EXCEPT !.keep = K], t.del)
  <2>1. t.d \in Docs
    BY DEF TxSound, Txs
  <2>2. PICK released : released = IF edit THEN Release(t.d, R) ELSE t.d
    OBVIOUS
  <2>3. doc' = Collect([released EXCEPT !.keep = @ \cup InScope(t.d, t.del)], t.del)
    BY <1>1, <2>2 DEF HandleAfterTransaction
  <2>4. InScope(t.d, {}) = {}
    BY DEF InScope
  <2>5. released = [t.d EXCEPT !.keep = t.d.keep \ InScope(t.d, G)]
    BY <1>5, <2>1, <2>2, <2>4 DEF Release, Docs
  <2>6. [released EXCEPT !.keep = @ \cup InScope(t.d, t.del)] = [t.d EXCEPT !.keep = K]
    BY <1>6, <2>1, <2>5 DEF Docs
  <2> QED BY <2>3, <2>6
<1>8. Committed(t, e, G) /\ InScope(t.d, t.del) \subseteq e.keep
  BY <1>6, <1>7, HandleCommitted
<1>9. /\ DocSound(doc) /\ StackSound(doc, U) /\ StackSound(doc, R) /\ ItemSound(doc, H)
      /\ Apart(U, R) /\ ApartFrom(U, H.del) /\ ApartFrom(R, H.del)
      /\ NewestOf(doc) <= MaxUnits
  BY DEF Parts
<1>10. ApartFrom(U, G) /\ H.del \cap G = {} /\ (~ edit => ApartFrom(R, G))
  <2>1. DOMAIN R = 1..Len(R)
    BY <1>9, StackFacts DEF StackSound
  <2> QED BY <1>5, <1>9, <2>1 DEF Apart, ApartFrom
<1>11. /\ DocSound(e) /\ NewestOf(e) = NewestOf(t.d) /\ ItemSound(e, H)
       /\ StackSound(e, U) /\ (~ edit => StackSound(e, R))
  BY <1>8, <1>9, <1>10, CommittedSound, StackSurvives
<1>12. PICK item \in StackItems : item = Record(t) /\ item.ins = t.ins /\ item.del = t.del
                                  /\ t.ins \subseteq Units /\ t.del \subseteq Units
  BY <1>9, RecordType
<1>13. ItemSound(e, item)
  BY <1>8, <1>9, <1>12, CommittedSound
<1>14. StackSound(e, target) /\ target \in Seq(StackItems)
  BY <1>1, <1>2, <1>11 DEF StackSound
<1>15. ApartFrom(U, t.del) /\ ApartFrom(R, t.del) /\ H.del \cap t.del = {}
  BY <1>9, NewDeletions
<1>16. /\ Grows(target, pushed, t.del)
       /\ \A i \in 1..Len(pushed) :
            (i \in 1..Len(target) /\ pushed[i] = target[i]) \/ ItemSound(e, pushed[i])
  <2>1. \A i \in 1..Len(target) : ItemSound(e, target[i])
    BY <1>14 DEF StackSound
  <2> QED BY <1>3, <1>12, <1>13, <1>14, <2>1, RecordedGrows
<1>17. /\ StackSound(e, pushed)
       /\ \A S : Apart(target, S) /\ ApartFrom(S, t.del) => Apart(pushed, S)
       /\ \A S : Apart(S, target) /\ ApartFrom(S, t.del) => Apart(S, pushed)
       /\ \A E : ApartFrom(target, E) /\ t.del \cap E = {} => ApartFrom(pushed, E)
  <2>1. ApartFrom(target, t.del)
    BY <1>2, <1>15
  <2>2. PICK D : D = t.del
    OBVIOUS
  <2> QED BY <1>14, <1>16, <2>1, <2>2, GrowsSound
<1>18. PICK U2, R2 : /\ U2 = IF undoing THEN U ELSE pushed
                     /\ R2 = IF undoing THEN pushed ELSE IF edit THEN <<>> ELSE R
  OBVIOUS
<1>19. Parts(e, U2, R2, H)
  <2>1. ApartFrom(pushed, H.del)
    BY <1>2, <1>9, <1>15, <1>17
  <2>2. CASE undoing
    BY <1>1, <1>2, <1>9, <1>11, <1>15, <1>17, <1>18, <2>1, <2>2 DEF Parts
  <2>3. CASE ~ undoing /\ edit
    BY <1>9, <1>11, <1>17, <1>18, <2>1, <2>3, EmptyStack DEF Parts
  <2>4. CASE ~ undoing /\ ~ edit
    BY <1>2, <1>9, <1>11, <1>15, <1>17, <1>18, <2>1, <2>4 DEF Parts
  <2> QED BY <2>2, <2>3, <2>4
<1>20. Parts(e, Noted(U2), Noted(R2), H)
  BY <1>19, PartsNoted
<1>21. Marks(e, t)
  BY <1>8 DEF Committed, SameItems, Marks
<1> QED BY <1>3, <1>4, <1>7, <1>18, <1>20, <1>21

\* A tracked commit keeps the parts of the invariant.
LEMMA CommitParts ==
  ASSUME NEW U, NEW R, NEW H, Parts(doc, U, R, H),
         NEW t, TxSound(t, doc), NewestOf(t.d) <= MaxUnits, CommitTracked(t, U, R)
  PROVE  /\ Parts(doc', undoStack', redoStack', H) /\ Marks(doc', t)
         /\ captured \in BOOLEAN => captured' \in BOOLEAN
<1>1. CASE Relevant(t)
  <2>1. PICK recent \in BOOLEAN : HandleAfterTransaction(t, U, R, recent)
    BY <1>1 DEF CommitTracked
  <2> QED BY <2>1, HandleParts
<1>2. CASE ~ Relevant(t)
  <2>1. Skip(t, U, R)
    BY <1>2 DEF CommitTracked
  <2> QED BY <2>1, SkipParts
<1> QED BY <1>1, <1>2

(***************************************************************************)
(* Edits of this replica and of others.                                    *)
(***************************************************************************)
\* Copies of items are older than the transaction.
OldCopies(t, d) ==
  \A u \in 1..NewestOf(t.d) : t.d.redone[u] # None => t.d.redone[u] \in 1..NewestOf(d)

\* Edits are sound transactions, of this replica and of others.
LEMMA EditSound ==
  ASSUME DocSound(doc), NewestOf(doc) <= MaxUnits, NEW local \in BOOLEAN, NEW t \in Edits(local)
  PROVE  TxSound(t, doc) /\ NewestOf(t.d) <= MaxUnits /\ OldCopies(t, doc)
<1> DEFINE gaps(s) == IF local THEN LocalGaps(s) ELSE 0..Len(doc.chain[s])
<1>1. PICK N \in Nat : N = NewestOf(doc)
  BY DocFacts
<1>2. PICK b : b = Begin /\ TxSound(b, doc) /\ b.d = doc
  BY BeginSound
<1>3. OldCopies(b, doc)
  BY <1>2 DEF OldCopies, DocSound, RedoneSound, Copies
<1>4. ASSUME NEW s \in Slots, NEW p \in gaps(s), t = Integrate(b, s, p, None, FALSE),
             NewestOf(doc) # MaxUnits
      PROVE  TxSound(t, doc) /\ NewestOf(t.d) <= MaxUnits /\ OldCopies(t, doc)
  <2>1. p \in 0..Len(b.d.chain[s])
    <3>1. PICK L \in Nat : L = Len(doc.chain[s])
      BY DocFacts
    <3>2. gaps(s) \subseteq 0..L
      BY <3>1 DEF LocalGaps
    <3> HIDE DEF gaps
    <3> QED BY <1>2, <3>1, <3>2
  <2>2. TxSound(t, doc) /\ Extends(b.d, t.d, s, p)
    BY <1>1, <1>2, <1>4, <2>1, IntegrateSound
  <2>3. /\ NewestOf(t.d) = N + 1 /\ t.d.redone[N + 1] = None
        /\ \A u \in 1..N : t.d.redone[u] = doc.redone[u]
    BY <1>1, <1>2, <2>2 DEF Extends
  <2>4. N + 1 <= MaxUnits
    BY <1>1, <1>4, BoundAssumption
  <2>5. \A u \in 1..(N + 1) : u = N + 1 \/ u \in 1..N
    BY <1>1
  <2>6. \A u \in 1..N : doc.redone[u] # None => doc.redone[u] \in 1..N
    BY <1>1, <1>2, <1>3 DEF OldCopies
  <2>7. OldCopies(t, doc)
    BY <1>1, <2>3, <2>5, <2>6 DEF OldCopies
  <2> QED BY <2>2, <2>3, <2>4, <2>7
<1>5. ASSUME NEW u \in (1..NewestOf(doc)) \ doc.deleted, t = DeleteItems(b, {u})
      PROVE  TxSound(t, doc) /\ NewestOf(t.d) <= MaxUnits /\ OldCopies(t, doc)
  <2>1. PICK units : units = {u} /\ units \in SUBSET (1..NewestOf(b.d))
    <3>1. u \in 1..NewestOf(b.d)
      BY <1>2
    <3> QED BY <3>1
  <2>2. t = DeleteItems(b, units)
    BY <1>5, <2>1
  <2>3. TxSound(t, doc) /\ SameItems(b.d, t.d)
    BY <1>2, <2>1, <2>2, DeleteItemsSound
  <2>4. t.d.redone = doc.redone /\ NewestOf(t.d) = N
    BY <1>1, <1>2, <2>3 DEF SameItems, NewestOf
  <2>5. OldCopies(t, doc)
    BY <1>1, <1>2, <1>3, <2>4 DEF OldCopies
  <2> QED BY <1>1, <2>3, <2>4, <2>5
<1>6. \/ /\ NewestOf(doc) # MaxUnits
         /\ \E s \in Slots : \E p \in gaps(s) : t = Integrate(b, s, p, None, FALSE)
      \/ \E u \in (1..NewestOf(doc)) \ doc.deleted : t = DeleteItems(b, {u})
  BY <1>2 DEF Edits
<1> HIDE DEF gaps
<1> QED BY <1>4, <1>5, <1>6

\* Document f is e with more items of other origins; the copies of e are among the items up
\* to B; d and e have as many items.
TheirsGrown(e, new, f) == f = [e EXCEPT !.theirs = @ \cup new]
CopiesUpTo(e, B) == \A u \in 1..NewestOf(e) : e.redone[u] # None => e.redone[u] \in 1..B
SameNewest(d, e) == NewestOf(e) = NewestOf(d)

\* New items of another origin are in no item of a stack.
LEMMA TheirsAdded ==
  ASSUME NEW B \in Nat, NEW e, DocSound(e), NEW new, new \subseteq (B + 1)..NewestOf(e),
         CopiesUpTo(e, B), NEW f, TheirsGrown(e, new, f)
  PROVE  /\ DocSound(f) /\ SameNewest(e, f)
         /\ \A X : ItemSound(e, X) /\ X.ins \subseteq 1..B => ItemSound(f, X)
<1>1. e \in Docs
  BY DEF DocSound
<1>2. PICK N \in Nat : N = NewestOf(e)
  BY DocFacts
<1>3. new \subseteq 1..N /\ new \cap (1..B) = {}
  <2>1. ASSUME NEW u \in new PROVE u \in 1..N /\ u \notin 1..B
    <3>1. u \in (B + 1)..N
      BY <1>2
    <3> QED BY <3>1
  <2> QED BY <2>1
<1>4. PICK T : T = e.theirs \cup new
  OBVIOUS
<1>5. e.theirs \subseteq 1..N
  BY <1>2 DEF DocSound
<1>6. T \in SUBSET Nat /\ T \subseteq 1..N
  <2>1. new \subseteq 1..N
    BY <1>3
  <2>2. T \subseteq 1..N
    BY <1>4, <1>5, <2>1
  <2>3. 1..N \subseteq Nat
    OBVIOUS
  <2> QED BY <2>2, <2>3
<1>7. f = [e EXCEPT !.theirs = T]
  BY <1>1, <1>4 DEF Docs, TheirsGrown
<1>8. f \in Docs
  BY <1>1, <1>6, <1>7 DEF Docs
<1>9. /\ f.chain = e.chain /\ f.redone = e.redone /\ f.content = e.content
      /\ f.theirs = T /\ f.deleted = e.deleted /\ f.keep = e.keep
      /\ f.emptied = e.emptied
  BY <1>1, <1>7 DEF Docs
<1>10. NewestOf(f) = N
  BY <1>2, <1>9 DEF NewestOf
<1>11. ChainsSound(f)
  BY <1>2, <1>9, <1>10, ChainsKept
<1>12. RedoneSound(f)
  <2>1. ASSUME NEW w \in 1..N, f.redone[w] # None PROVE Copies(f, w, f.redone[w])
    <3>1. PICK v : v = f.redone[w] /\ v = e.redone[w]
      BY <1>9
    <3>2. Copies(e, w, v)
      BY <1>2, <2>1, <3>1 DEF DocSound, RedoneSound
    <3>3. v \notin new
      BY <1>2, <1>3, <2>1, <3>1 DEF CopiesUpTo
    <3>4. v \notin f.theirs
      BY <1>4, <1>9, <3>2, <3>3 DEF Copies
    <3>5. f.chain = e.chain /\ NewestOf(f) = NewestOf(e)
      BY <1>2, <1>9, <1>10
    <3> QED BY <3>1, <3>2, <3>4, <3>5 DEF Copies
  <2> QED BY <1>10, <2>1 DEF RedoneSound
<1>13. DocSound(f)
  BY <1>2, <1>6, <1>8, <1>9, <1>10, <1>11, <1>12 DEF DocSound
<1>14. ASSUME NEW X, ItemSound(e, X), X.ins \subseteq 1..B PROVE ItemSound(f, X)
  <2>1. InScope(f, X.del) = InScope(e, X.del)
    BY <1>9 DEF InScope, SlotOf
  <2>2. X.ins \cap T = {}
    BY <1>3, <1>4, <1>14 DEF ItemSound
  <2> QED BY <1>2, <1>9, <1>10, <1>14, <2>1, <2>2 DEF ItemSound
<1> QED BY <1>2, <1>10, <1>13, <1>14 DEF SameNewest

\* A transaction of another origin keeps the parts of the invariant.
LEMMA ForeignParts ==
  ASSUME NEW H, Parts(doc, undoStack, redoStack, H), NEW t \in Edits(FALSE),
         Skip([t EXCEPT !.d.theirs = @ \cup t.ins], undoStack, redoStack)
  PROVE  Parts(doc', undoStack', redoStack', H) /\ captured' = captured
<1>1. /\ DocSound(doc) /\ StackSound(doc, undoStack) /\ StackSound(doc, redoStack)
      /\ ItemSound(doc, H) /\ NewestOf(doc) <= MaxUnits
      /\ Apart(undoStack, redoStack) /\ ApartFrom(undoStack, H.del)
      /\ ApartFrom(redoStack, H.del)
  BY DEF Parts
<1>2. TxSound(t, doc) /\ NewestOf(t.d) <= MaxUnits /\ OldCopies(t, doc)
  BY <1>1, EditSound
<1>3. t \in Txs /\ t.d \in Docs /\ t.del \in SUBSET Nat
  BY <1>2 DEF TxSound, Txs
<1>4. PICK e : e = Collect(t.d, t.del)
  OBVIOUS
<1>5. Committed(t, e, {})
  BY <1>2, <1>4, SkipCommitted
<1>6. \A X : X.del \cap {} = {}
  OBVIOUS
<1>7. /\ DocSound(e) /\ NewestOf(e) = NewestOf(t.d)
      /\ \A X : ItemSound(doc, X) => ItemSound(e, X)
  BY <1>1, <1>2, <1>5, <1>6, CommittedSound
<1>8. PICK f : f = [e EXCEPT !.theirs = @ \cup t.ins]
  OBVIOUS
<1>9. /\ DocSound(f) /\ NewestOf(f) = NewestOf(e)
      /\ \A X : ItemSound(e, X) /\ X.ins \subseteq 1..NewestOf(doc) => ItemSound(f, X)
  <2>1. PICK new : new = t.ins /\ new \subseteq (NewestOf(doc) + 1)..NewestOf(e)
    BY <1>2, <1>7 DEF TxSound
  <2>2. e.redone = t.d.redone
    BY <1>5 DEF Committed, SameItems
  <2>3. \A u \in 1..NewestOf(e) : e.redone[u] # None => e.redone[u] \in 1..NewestOf(doc)
    BY <1>2, <1>7, <2>2 DEF OldCopies
  <2>4. NewestOf(doc) \in Nat
    BY <1>1, DocFacts
  <2>5. f = [e EXCEPT !.theirs = @ \cup new]
    BY <1>8, <2>1
  <2>6. PICK B \in Nat : B = NewestOf(doc)
    BY <2>4
  <2>7. CopiesUpTo(e, B) /\ TheirsGrown(e, new, f)
    BY <2>3, <2>5, <2>6 DEF CopiesUpTo, TheirsGrown
  <2>8. new \subseteq (B + 1)..NewestOf(e)
    BY <2>1, <2>6
  <2>9. /\ DocSound(f) /\ SameNewest(e, f)
        /\ \A X : ItemSound(e, X) /\ X.ins \subseteq 1..B => ItemSound(f, X)
    BY <1>7, <2>7, <2>8, TheirsAdded
  <2> QED BY <2>6, <2>9 DEF SameNewest
<1>10. doc' = f
  <2>1. PICK s : s = [t EXCEPT !.d.theirs = @ \cup t.ins]
    OBVIOUS
  <2>2. s.d = [t.d EXCEPT !.theirs = @ \cup t.ins] /\ s.del = t.del
    BY <1>3, <2>1 DEF Txs, Docs
  <2>3. doc' = Collect(s.d, s.del)
    BY <2>1 DEF Skip
  <2>4. Collect(s.d, t.del) = [Collect(t.d, t.del) EXCEPT !.theirs = @ \cup t.ins]
    BY <1>3, <2>2 DEF Collect, Docs
  <2> QED BY <1>4, <1>8, <2>2, <2>3, <2>4
<1>11. \A X : ItemSound(doc, X) => ItemSound(f, X)
  BY <1>7, <1>9 DEF ItemSound
<1>12. StackSound(f, undoStack) /\ StackSound(f, redoStack) /\ ItemSound(f, H)
  BY <1>1, <1>11 DEF StackSound
<1>13. Parts(f, undoStack, redoStack, H)
  BY <1>1, <1>2, <1>7, <1>9, <1>12 DEF Parts
<1>14. Parts(f, Noted(undoStack), Noted(redoStack), H)
  BY <1>13, PartsNoted
<1>15. undoStack' = Noted(undoStack) /\ redoStack' = Noted(redoStack) /\ captured' = captured
  BY DEF Skip
<1> QED BY <1>10, <1>14, <1>15

(***************************************************************************)
(* Undo and redo.                                                          *)
(***************************************************************************)
\* A transaction that deletes nothing more of another origin.
SparesTheirs(t, d) == \A v \in t.d.deleted : v \in d.theirs => v \in d.deleted

\* What undo and redo do before they commit is a sound transaction, which creates at most one
\* item for each that is redone, and which spares the items of other origins if all that
\* stacks hold as deleted is deleted.
LEMMA ProcessedSound ==
  ASSUME DocSound(doc), NEW item, ItemSound(doc, item),
         NEW order \in SetToSeqs(InScope(doc, item.del \ item.ins)),
         NEW p, p = Processed(item, order)
  PROVE  /\ TxSound(p.t, doc) /\ p.changed \in BOOLEAN
         /\ NewestOf(p.t.d) <= NewestOf(doc) + Cardinality(InScope(doc, item.del \ item.ins))
         /\ (\A v : Recorded(v) => v \in doc.deleted) => SparesTheirs(p.t, doc)
<1> DEFINE toRedo == InScope(doc, item.del \ item.ins)
           toDelete == InScope(doc, {FollowRedone(doc, u) : u \in item.ins}) \ doc.deleted
<1>1. PICK N \in Nat : N = NewestOf(doc)
  BY DocFacts
<1>2. /\ item.ins \subseteq 1..N /\ item.ins \cap doc.theirs = {}
      /\ item.del \subseteq doc.deleted /\ doc.deleted \subseteq 1..N
  BY <1>1 DEF ItemSound, DocSound
<1>3. toRedo \subseteq doc.deleted /\ toRedo \subseteq 1..N
  BY <1>2 DEF InScope
<1>4. PICK n \in Nat : n = Cardinality(toRedo)
  <2>1. IsFiniteSet(1..N)
    BY <1>1, FS_Interval
  <2>2. IsFiniteSet(toRedo)
    BY <1>3, <2>1, FS_Subset
  <2> QED BY <2>2, FS_CardinalityType
<1> HIDE DEF toRedo
<1>5. order \in [1..n -> toRedo]
  BY <1>4 DEF SetToSeqs, toRedo
<1>6. order \in Seq(1..N) /\ Len(order) = n /\ \A k \in 1..n : order[k] \in doc.deleted
  <2>1. \A k \in 1..n : order[k] \in 1..N /\ order[k] \in doc.deleted
    BY <1>3, <1>5
  <2>2. order \in [1..n -> 1..N]
    BY <1>5, <2>1
  <2>3. PICK S : S = 1..N
    OBVIOUS
  <2>4. order \in Seq(S) /\ Len(order) = n
    BY <2>2, <2>3
  <2> QED BY <2>1, <2>3, <2>4
<1>7. PICK q : q = Redone(item, order)
  OBVIOUS
<1>8. /\ q \in Redos /\ TxSound(q.t, doc) /\ NewestOf(q.t.d) <= N + n
      /\ OursOnly(doc, item.ins) => Spares(Begin, q.t, doc)
  BY <1>1, <1>6, <1>7, RedoneFacts
<1>9. ASSUME NEW v \in toDelete PROVE v \in 1..N /\ v \notin doc.theirs
  <2>1. PICK u \in item.ins : v = FollowRedone(doc, u)
    BY DEF InScope
  <2>2. u \in 1..NewestOf(doc) /\ u \notin doc.theirs
    BY <1>1, <1>2
  <2>3. v \in 1..NewestOf(doc) /\ (v = u \/ Copies(doc, u, v))
    BY <2>1, <2>2, FollowFacts
  <2> QED BY <1>1, <2>2, <2>3 DEF Copies
<1>10. /\ p.t = DeleteItems(q.t, toDelete)
       /\ p.changed = (q.changed \/ toDelete # {})
  BY <1>7 DEF Processed
<1> HIDE DEF toDelete
<1>11. toDelete \in SUBSET (1..NewestOf(q.t.d))
  <2>1. N \in 0..NewestOf(q.t.d)
    BY <1>1, <1>8 DEF TxSound
  <2>2. PICK M \in Nat : M = NewestOf(q.t.d)
    BY <1>8, DocFacts DEF TxSound
  <2>3. 1..N \subseteq 1..M
    BY <2>1, <2>2
  <2>4. toDelete \subseteq 1..M
    BY <1>9, <2>3
  <2> QED BY <2>2, <2>4
<1>12. PICK r, units : r = q.t /\ units = toDelete
  OBVIOUS
<1>13. /\ TxSound(DeleteItems(r, units), doc)
       /\ SameItems(r.d, DeleteItems(r, units).d)
       /\ DeleteItems(r, units).d.deleted = r.d.deleted \cup units
  BY <1>8, <1>11, <1>12, DeleteItemsSound
<1>14. TxSound(p.t, doc) /\ NewestOf(p.t.d) <= N + n
  BY <1>8, <1>10, <1>12, <1>13 DEF SameItems, NewestOf
<1>15. ASSUME \A v : Recorded(v) => v \in doc.deleted PROVE SparesTheirs(p.t, doc)
  <2>1. OursOnly(doc, item.ins)
    BY <1>2, <1>15 DEF OursOnly
  <2>2. Begin.d = doc
    BY BeginSound
  <2> QED BY <1>8, <1>9, <1>10, <1>12, <1>13, <2>1, <2>2 DEF Spares, SparesTheirs
<1>16. p.changed \in BOOLEAN
  BY <1>8, <1>10 DEF Redos
<1> QED BY <1>1, <1>4, <1>14, <1>15, <1>16 DEF toRedo

(***************************************************************************)
(* The steps.                                                              *)
(***************************************************************************)
\* What the collector on demand and a release do to the marks of the items.
LEMMA MarksSound ==
  ASSUME NEW d, DocSound(d), NEW e \in Docs, SameItems(d, e), e.deleted = d.deleted,
         e.keep \subseteq d.keep, e.emptied \subseteq d.deleted
  PROVE  /\ DocSound(e) /\ SameNewest(d, e)
         /\ \A X : ItemSound(d, X) /\ InScope(d, X.del) \subseteq e.keep
                     /\ InScope(d, X.del) \cap e.emptied = {} => ItemSound(e, X)
<1>1. /\ e.deleted \subseteq 1..NewestOf(d) /\ e.keep \subseteq 1..NewestOf(d)
      /\ e.emptied \subseteq e.deleted
  BY DEF DocSound
<1>2. /\ DocSound(e) /\ NewestOf(e) = NewestOf(d)
      /\ \A units : InScope(e, units) = InScope(d, units)
  BY <1>1, SameItemsSound
<1>3. e.theirs = d.theirs
  BY DEF SameItems
<1>4. ASSUME NEW X, ItemSound(d, X), InScope(d, X.del) \subseteq e.keep,
             InScope(d, X.del) \cap e.emptied = {}
      PROVE  ItemSound(e, X)
  BY <1>2, <1>3, <1>4 DEF ItemSound
<1> QED BY <1>2, <1>4 DEF SameNewest

\* The collector on demand keeps the parts of the invariant.
LEMMA CollectParts ==
  ASSUME NEW d, NEW U, NEW R, NEW H, Parts(d, U, R, H), NEW e, e = Collect(d, d.deleted)
  PROVE  Parts(e, U, R, H)
<1>1. /\ DocSound(d) /\ StackSound(d, U) /\ StackSound(d, R) /\ ItemSound(d, H)
      /\ NewestOf(d) <= MaxUnits
  BY DEF Parts
<1>2. d \in Docs
  BY <1>1 DEF DocSound
<1>3. PICK D \in SUBSET Nat : D = d.deleted
  BY <1>2 DEF Docs
<1>4. e \in Docs /\ Collected(d, e, D)
  BY <1>2, <1>3, CollectFields
<1>5. /\ SameItems(d, e) /\ e.deleted = d.deleted /\ e.keep = d.keep
      /\ e.emptied = d.emptied \cup (d.deleted \ d.keep)
  BY <1>3, <1>4 DEF Collected
<1>6. e.keep \subseteq d.keep /\ e.emptied \subseteq d.deleted
  BY <1>1, <1>5 DEF DocSound
<1>7. DocSound(e) /\ SameNewest(d, e)
  BY <1>1, <1>4, <1>5, <1>6, MarksSound
<1>8. ASSUME NEW X, ItemSound(d, X) PROVE ItemSound(e, X)
  <2>1. InScope(d, X.del) \subseteq e.keep /\ InScope(d, X.del) \cap e.emptied = {}
    BY <1>5, <1>8 DEF ItemSound
  <2> QED BY <1>1, <1>4, <1>5, <1>6, <1>8, <2>1, MarksSound
<1> QED BY <1>1, <1>7, <1>8 DEF Parts, StackSound, SameNewest

\* Draining a stack takes nothing from what is apart from it.
LEMMA ReleaseSound ==
  ASSUME NEW d, DocSound(d), NEW S, StackSound(d, S), NEW e, e = Release(d, S)
  PROVE  /\ DocSound(e) /\ SameNewest(d, e)
         /\ \A X : ItemSound(d, X) /\ ApartFrom(S, X.del) => ItemSound(e, X)
<1>1. d \in Docs
  BY DEF DocSound
<1>2. PICK G : G = UNION {S[i].del : i \in DOMAIN S}
  OBVIOUS
<1>3. PICK K \in SUBSET Nat : K = d.keep \ InScope(d, G)
  BY <1>1 DEF Docs
<1>4. e = [d EXCEPT !.keep = K]
  BY <1>1, <1>2, <1>3 DEF Release, Docs
<1>5. /\ e \in Docs /\ SameItems(d, e) /\ e.deleted = d.deleted /\ e.keep = K
      /\ e.emptied = d.emptied
  BY <1>1, <1>4 DEF Docs, SameItems
<1>6. e.keep \subseteq d.keep /\ e.emptied \subseteq d.deleted
  BY <1>3, <1>5 DEF DocSound
<1>7. DocSound(e) /\ SameNewest(d, e)
  BY <1>5, <1>6, MarksSound
<1>8. ASSUME NEW X, ItemSound(d, X), ApartFrom(S, X.del) PROVE ItemSound(e, X)
  <2>1. DOMAIN S = 1..Len(S)
    BY StackFacts DEF StackSound
  <2>2. X.del \cap G = {}
    BY <1>2, <1>8, <2>1 DEF ApartFrom
  <2>3. InScope(d, X.del) \cap InScope(d, G) = {}
    BY <2>2 DEF InScope
  <2>4. InScope(d, X.del) \subseteq e.keep /\ InScope(d, X.del) \cap e.emptied = {}
    BY <1>3, <1>5, <1>8, <2>3 DEF ItemSound
  <2> QED BY <1>5, <1>6, <1>8, <2>4, MarksSound
<1> QED BY <1>7, <1>8

\* Draining a stack keeps the parts of the invariant.
LEMMA ReleaseParts ==
  ASSUME NEW d, NEW U, NEW R, NEW H, Parts(d, U, R, H)
  PROVE  Parts(Release(d, U), <<>>, R, H) /\ Parts(Release(d, R), U, <<>>, H)
<1>1. /\ DocSound(d) /\ StackSound(d, U) /\ StackSound(d, R) /\ ItemSound(d, H)
      /\ NewestOf(d) <= MaxUnits
      /\ Apart(U, R) /\ ApartFrom(U, H.del) /\ ApartFrom(R, H.del)
  BY DEF Parts
<1>2. PICK e : e = Release(d, U)
  OBVIOUS
<1>3. /\ DocSound(e) /\ SameNewest(d, e)
      /\ \A X : ItemSound(d, X) /\ ApartFrom(U, X.del) => ItemSound(e, X)
  BY <1>1, <1>2, ReleaseSound
<1>4. StackSound(e, R)
  <2>1. \A i \in 1..Len(R) : ApartFrom(U, R[i].del)
    BY <1>1 DEF Apart, ApartFrom
  <2> QED BY <1>1, <1>3, <2>1 DEF StackSound
<1>5. Parts(e, <<>>, R, H)
  BY <1>1, <1>3, <1>4, EmptyStack DEF Parts, SameNewest
<1>6. PICK f : f = Release(d, R)
  OBVIOUS
<1>7. /\ DocSound(f) /\ SameNewest(d, f)
      /\ \A X : ItemSound(d, X) /\ ApartFrom(R, X.del) => ItemSound(f, X)
  BY <1>1, <1>6, ReleaseSound
<1>8. StackSound(f, U)
  <2>1. \A i \in 1..Len(U) : ApartFrom(R, U[i].del)
    BY <1>1 DEF Apart, ApartFrom
  <2> QED BY <1>1, <1>7, <2>1 DEF StackSound
<1>9. Parts(f, U, <<>>, H)
  BY <1>1, <1>7, <1>8, EmptyStack DEF Parts, SameNewest
<1> QED BY <1>2, <1>5, <1>6, <1>9

\* No item is popped.
LEMMA NoItemSound ==
  ASSUME NEW d
  PROVE  ItemSound(d, NoItem) /\ \A S : ApartFrom(S, NoItem.del)
<1>1. NoItem.ins = {} /\ NoItem.del = {} /\ NoItem \in StackItems
  BY DEF NoItem, StackItems
<1>2. InScope(d, {}) = {}
  BY DEF InScope
<1> QED BY <1>1, <1>2 DEF ItemSound, ApartFrom

\* What was popped may be dropped.
LEMMA NonePopped ==
  ASSUME NEW d, NEW U, NEW R, NEW H, Parts(d, U, R, H)
  PROVE  Parts(d, U, R, NoItem)
BY NoItemSound DEF Parts

\* The last item of a stack is popped, whatever was popped before.
LEMMA PopParts ==
  ASSUME NEW d, NEW U, NEW R, NEW H, Parts(d, U, R, H)
  PROVE  /\ U # <<>> => Parts(d, Front(U), R, Last(U))
         /\ R # <<>> => Parts(d, U, Front(R), Last(R))
<1>1. /\ DocSound(d) /\ StackSound(d, U) /\ StackSound(d, R) /\ Apart(U, R)
      /\ NewestOf(d) <= MaxUnits
  BY DEF Parts
<1>2. ASSUME U # <<>> PROVE Parts(d, Front(U), R, Last(U))
  BY <1>1, <1>2, PopSound DEF Parts
<1>3. ASSUME R # <<>> PROVE Parts(d, U, Front(R), Last(R))
  BY <1>1, <1>3, PopSound DEF Parts
<1> QED BY <1>2, <1>3

\* An empty document, with nothing recorded, is sound.
LEMMA InitSound ==
  ASSUME Init
  PROVE  IInv
<1>1. PICK e : e = EmptyDoc
  OBVIOUS
<1>2. /\ e.chain = [s \in Slots |-> <<>>] /\ e.deleted = {} /\ e.keep = {} /\ e.emptied = {}
      /\ e.redone = <<>> /\ e.content = <<>> /\ e.theirs = {}
  BY <1>1 DEF EmptyDoc
<1>3. NewestOf(e) = 0 /\ 1..0 = {}
  BY <1>2 DEF NewestOf
<1>4. \A s \in Slots : e.chain[s] = <<>> /\ Len(e.chain[s]) = 0
  BY <1>2
<1>5. e \in Docs
  <2>1. [s \in Slots |-> <<>>] \in [Slots -> Seq(Nat)] /\ <<>> \in Seq(Nat)
    OBVIOUS
  <2> QED BY <1>1, <2>1 DEF EmptyDoc, Docs
<1>6. ChainsSound(e) /\ RedoneSound(e)
  BY <1>3, <1>4 DEF ChainsSound, RedoneSound
<1>7. DocSound(e) /\ NewestOf(e) <= MaxUnits
  BY <1>2, <1>3, <1>5, <1>6, BoundAssumption DEF DocSound, NewestOf
<1>8. Parts(e, <<>>, <<>>, NoItem)
  BY <1>7, EmptyStack, NoItemSound DEF Parts
<1>9. 0 \in 0..MaxEdits /\ 0 \in 0..MaxForeign
  BY BoundAssumption
<1> QED BY <1>1, <1>8, <1>9 DEF Init, IInv

\* What a stack holds as deleted is deleted.
LEMMA RecordedDeleted ==
  ASSUME NEW H, Parts(doc, undoStack, redoStack, H), NEW v, Recorded(v)
  PROVE  v \in doc.deleted
<1>1. StackSound(doc, undoStack) /\ StackSound(doc, redoStack)
  BY DEF Parts
<1>2. DOMAIN undoStack = 1..Len(undoStack) /\ DOMAIN redoStack = 1..Len(redoStack)
  BY <1>1, StackFacts DEF StackSound
<1> QED BY <1>1, <1>2 DEF Recorded, StackSound, ItemSound

\* An undo or a redo whose transaction is granted keeps the invariant and deletes nothing
\* of another origin.
LEMMA TryProcessSound ==
  ASSUME IInv, TryProcess
  PROVE  /\ Parts(doc', undoStack', redoStack', held')
         /\ undoing' \in BOOLEAN /\ redoing' \in BOOLEAN /\ captured' \in BOOLEAN
         /\ doc'.theirs \cap doc'.deleted \subseteq doc.deleted
<1>1. /\ Parts(doc, undoStack, redoStack, held)
      /\ undoing \in BOOLEAN /\ redoing \in BOOLEAN /\ captured \in BOOLEAN
  BY DEF IInv
<1>2. DocSound(doc) /\ ItemSound(doc, held)
  BY <1>1 DEF Parts
<1>3. PICK X : X = InScope(doc, held.del \ held.ins)
  OBVIOUS
<1>4. PICK stack : stack = IF undoing THEN undoStack ELSE redoStack
  OBVIOUS
<1>5. NewestOf(doc) + Cardinality(X) <= MaxUnits
  BY <1>3 DEF TryProcess
<1>6. PICK order \in SetToSeqs(X) :
        LET p == Processed(held, order)
            done == p.changed \/ stack = <<>>
            rest == IF done THEN stack ELSE Front(stack)
        IN /\ CommitTracked(p.t, IF undoing THEN rest ELSE undoStack,
                                 IF undoing THEN redoStack ELSE rest)
           /\ held' = IF done THEN NoItem ELSE Last(stack)
           /\ undoing' = (undoing /\ ~ done) /\ redoing' = (redoing /\ ~ done)
  BY <1>3, <1>4 DEF TryProcess
<1>7. PICK p : p = Processed(held, order)
  OBVIOUS
<1>8. PICK done \in BOOLEAN : done = (p.changed \/ stack = <<>>)
  OBVIOUS
<1>9. /\ CommitTracked(p.t, IF undoing THEN (IF done THEN stack ELSE Front(stack))
                                       ELSE undoStack,
                            IF undoing THEN redoStack
                                       ELSE (IF done THEN stack ELSE Front(stack)))
      /\ held' = IF done THEN NoItem ELSE Last(stack)
      /\ undoing' = (undoing /\ ~ done) /\ redoing' = (redoing /\ ~ done)
  BY <1>6, <1>7, <1>8
<1>10. /\ TxSound(p.t, doc) /\ NewestOf(p.t.d) <= NewestOf(doc) + Cardinality(X)
       /\ (\A v : Recorded(v) => v \in doc.deleted) => SparesTheirs(p.t, doc)
  BY <1>2, <1>3, <1>7, ProcessedSound
<1>11. SparesTheirs(p.t, doc)
  BY <1>1, <1>10, RecordedDeleted
<1>12. PICK t : t = p.t
  OBVIOUS
<1>13. NewestOf(t.d) <= MaxUnits
  <2>1. NewestOf(t.d) \in Nat
    BY <1>10, <1>12, DocFacts DEF TxSound
  <2>2. NewestOf(doc) \in Nat /\ IsFiniteSet(X)
    <3>1. PICK N \in Nat : N = NewestOf(doc)
      BY <1>2, DocFacts
    <3>2. X \subseteq 1..N
      BY <1>2, <1>3, <3>1 DEF ItemSound, InScope, DocSound
    <3>3. IsFiniteSet(1..N)
      BY <3>1, FS_Interval
    <3> QED BY <3>1, <3>2, <3>3, FS_Subset
  <2>3. Cardinality(X) \in Nat
    BY <2>2, FS_CardinalityType
  <2> QED BY <1>5, <1>10, <1>12, <2>1, <2>2, <2>3, BoundAssumption
<1>14. /\ Parts(doc', undoStack', redoStack', held') /\ Marks(doc', t)
       /\ captured' \in BOOLEAN
  <2>1. CASE done
    <3>1. CommitTracked(t, undoStack, redoStack) /\ held' = NoItem
      BY <1>1, <1>4, <1>9, <1>12, <2>1
    <3>2. Parts(doc, undoStack, redoStack, NoItem)
      BY <1>1, NonePopped
    <3> QED BY <1>1, <1>10, <1>12, <1>13, <3>1, <3>2, CommitParts
  <2>2. CASE ~ done /\ undoing
    <3>1. /\ CommitTracked(t, Front(undoStack), redoStack) /\ held' = Last(undoStack)
          /\ undoStack # <<>>
      BY <1>4, <1>8, <1>9, <1>12, <2>2
    <3>2. Parts(doc, Front(undoStack), redoStack, Last(undoStack))
      BY <1>1, <3>1, PopParts
    <3> QED BY <1>1, <1>10, <1>12, <1>13, <3>1, <3>2, CommitParts
  <2>3. CASE ~ done /\ ~ undoing
    <3>1. /\ CommitTracked(t, undoStack, Front(redoStack)) /\ held' = Last(redoStack)
          /\ redoStack # <<>>
      BY <1>4, <1>8, <1>9, <1>12, <2>3
    <3>2. Parts(doc, undoStack, Front(redoStack), Last(redoStack))
      BY <1>1, <3>1, PopParts
    <3> QED BY <1>1, <1>10, <1>12, <1>13, <3>1, <3>2, CommitParts
  <2> QED BY <1>8, <2>1, <2>2, <2>3
<1>15. doc'.theirs \cap doc'.deleted \subseteq doc.deleted
  BY <1>10, <1>11, <1>12, <1>14 DEF Marks, SparesTheirs, TxSound
<1> QED BY <1>1, <1>9, <1>14, <1>15

\* Clearing one stack or both keeps the invariant.
LEMMA ClearSound ==
  ASSUME IInv, NEW undo \in BOOLEAN, NEW redo \in BOOLEAN, Clear(undo, redo)
  PROVE  Parts(doc', undoStack', redoStack', held')
<1>1. Parts(doc, undoStack, redoStack, held) /\ held' = held
  BY DEF IInv, Clear
<1>2. PICK d : d = IF undo THEN Release(doc, undoStack) ELSE doc
  OBVIOUS
<1>3. PICK U : U = IF undo THEN <<>> ELSE undoStack
  OBVIOUS
<1>4. Parts(d, U, redoStack, held)
  BY <1>1, <1>2, <1>3, ReleaseParts
<1>5. /\ doc' = IF redo THEN Release(d, redoStack) ELSE d
      /\ undoStack' = U /\ redoStack' = IF redo THEN <<>> ELSE redoStack
  BY <1>2, <1>3 DEF Clear
<1>6. Parts(Release(d, redoStack), U, <<>>, held)
  BY <1>4, ReleaseParts
<1> QED BY <1>1, <1>4, <1>5, <1>6

\* Every step keeps the invariant.
LEMMA NextSound ==
  ASSUME IInv, [Next]_vars
  PROVE  IInv'
<1>1. /\ Parts(doc, undoStack, redoStack, held)
      /\ undoing \in BOOLEAN /\ redoing \in BOOLEAN /\ captured \in BOOLEAN
      /\ quiet \in BOOLEAN /\ edits \in 0..MaxEdits /\ foreign \in 0..MaxForeign
  BY DEF IInv
<1>2. DocSound(doc) /\ NewestOf(doc) <= MaxUnits
  BY <1>1 DEF Parts
<1>3. CASE Edit
  <2>1. PICK t \in Edits(TRUE) : CommitTracked(t, undoStack, redoStack)
    BY <1>3 DEF Edit
  <2>2. TxSound(t, doc) /\ NewestOf(t.d) <= MaxUnits
    BY <1>2, EditSound
  <2>3. Parts(doc', undoStack', redoStack', held) /\ captured' \in BOOLEAN
    BY <1>1, <2>1, <2>2, CommitParts
  <2>4. edits' \in 0..MaxEdits
    BY <1>1, <1>3, BoundAssumption DEF Edit
  <2>5. quiet' \in BOOLEAN
    BY <1>1, <1>3 DEF Edit
  <2>6. UNCHANGED <<undoing, redoing, held, foreign>>
    BY <1>3 DEF Edit
  <2> QED BY <1>1, <2>3, <2>4, <2>5, <2>6 DEF IInv
<1>4. CASE ForeignEdit
  <2>1. PICK t \in Edits(FALSE) :
          Skip([t EXCEPT !.d.theirs = @ \cup t.ins], undoStack, redoStack)
    BY <1>4 DEF ForeignEdit
  <2>2. Parts(doc', undoStack', redoStack', held) /\ captured' = captured
    BY <1>1, <2>1, ForeignParts
  <2>3. foreign' \in 0..MaxForeign
    BY <1>1, <1>4, BoundAssumption DEF ForeignEdit
  <2>4. quiet' = FALSE /\ UNCHANGED <<undoing, redoing, held, edits>>
    BY <1>4 DEF ForeignEdit
  <2> QED BY <1>1, <2>2, <2>3, <2>4 DEF IInv
<1>5. CASE CollectAll
  <2>1. doc' = Collect(doc, doc.deleted)
    BY <1>5 DEF CollectAll
  <2>2. Parts(doc', undoStack, redoStack, held)
    BY <1>1, <2>1, CollectParts
  <2>3. UNCHANGED <<stacks, flags, held, counts, quiet>>
    BY <1>5 DEF CollectAll
  <2> QED BY <1>1, <2>2, <2>3 DEF IInv, stacks, flags, counts
<1>6. CASE Undo
  <2>1. undoStack # <<>> /\ held' = Last(undoStack) /\ undoStack' = Front(undoStack)
    BY <1>6 DEF Undo
  <2>2. Parts(doc, undoStack', redoStack, held')
    BY <1>1, <2>1, PopParts
  <2>3. /\ undoing' = TRUE /\ redoing' = FALSE
        /\ UNCHANGED <<doc, redoStack, captured, counts, quiet>>
    BY <1>6 DEF Undo
  <2> QED BY <1>1, <2>2, <2>3 DEF IInv, counts
<1>7. CASE Redo
  <2>1. redoStack # <<>> /\ held' = Last(redoStack) /\ redoStack' = Front(redoStack)
    BY <1>7 DEF Redo
  <2>2. Parts(doc, undoStack, redoStack', held')
    BY <1>1, <2>1, PopParts
  <2>3. /\ undoing' = FALSE /\ redoing' = TRUE
        /\ UNCHANGED <<doc, undoStack, captured, counts, quiet>>
    BY <1>7 DEF Redo
  <2> QED BY <1>1, <2>2, <2>3 DEF IInv, counts
<1>8. CASE TryProcess
  <2>1. quiet' = quiet /\ UNCHANGED counts
    BY <1>8 DEF TryProcess
  <2>2. /\ Parts(doc', undoStack', redoStack', held')
        /\ undoing' \in BOOLEAN /\ redoing' \in BOOLEAN /\ captured' \in BOOLEAN
    BY <1>8, TryProcessSound
  <2> QED BY <1>1, <2>1, <2>2 DEF IInv, counts
<1>9. CASE Cancel
  <2>1. /\ held' = NoItem /\ quiet' = FALSE
        /\ undoStack' = Noted(undoStack) /\ redoStack' = Noted(redoStack)
        /\ UNCHANGED <<doc, flags, counts>>
    BY <1>9 DEF Cancel
  <2>2. Parts(doc, undoStack', redoStack', held')
    BY <1>1, <2>1, NonePopped, PartsNoted
  <2> QED BY <1>1, <2>1, <2>2 DEF IInv, flags, counts
<1>10. CASE Reset
  <2>1. captured' = FALSE /\ UNCHANGED <<doc, stacks, undoing, redoing, held, counts, quiet>>
    BY <1>10 DEF Reset
  <2> QED BY <1>1, <2>1 DEF IInv, stacks, counts
<1>11. ASSUME NEW undo \in BOOLEAN, NEW redo \in BOOLEAN, Clear(undo, redo) PROVE IInv'
  <2>1. Parts(doc', undoStack', redoStack', held')
    BY <1>11, ClearSound
  <2>2. UNCHANGED <<flags, counts, quiet>>
    BY <1>11 DEF Clear
  <2> QED BY <1>1, <2>1, <2>2 DEF IInv, flags, counts
<1>12. CASE UNCHANGED vars
  BY <1>1, <1>12 DEF IInv, vars, stacks, flags, counts
<1> QED BY <1>3, <1>4, <1>5, <1>6, <1>7, <1>8, <1>9, <1>10, <1>11, <1>12 DEF Next

(***************************************************************************)
(* The theorems.                                                           *)
(***************************************************************************)
\* A sequence is over the set that holds its elements.
LEMMA Elements ==
  ASSUME NEW D, NEW c \in Seq(Nat), \A i \in 1..Len(c) : c[i] \in D
  PROVE  c \in Seq(D)
OBVIOUS

\* The documents and stacks of the invariant are those of TypeOK, and what it says of every
\* recorded item is what KeptForUndo says of those that undo and redo can still pop.
LEMMA InvSound ==
  ASSUME IInv
  PROVE  StacksSound
<1>1. /\ DocSound(doc) /\ NewestOf(doc) <= MaxUnits
      /\ StackSound(doc, undoStack) /\ StackSound(doc, redoStack) /\ ItemSound(doc, held)
  BY DEF IInv, Parts
<1>2. PICK N \in Nat : N = NewestOf(doc)
  BY <1>1, DocFacts
<1>3. 1..N \subseteq Units /\ 1..N \subseteq 0..MaxUnits
  BY <1>1, <1>2, BoundAssumption DEF Units
<1>4. doc.chain \in [Slots -> Seq(Units)]
  <2>1. doc.chain \in [Slots -> Seq(Nat)]
    BY <1>1 DEF DocSound, Docs
  <2>2. ASSUME NEW s \in Slots PROVE doc.chain[s] \in Seq(Units)
    <3>1. PICK c \in Seq(Nat) : c = doc.chain[s]
      BY <2>1
    <3>2. \A i \in 1..Len(c) : c[i] \in Units
      BY <1>1, <1>2, <1>3, <3>1 DEF DocSound, ChainsSound
    <3>3. c \in Seq(Units)
      BY <3>2, Elements
    <3> QED BY <3>1, <3>3
  <2> QED BY <2>1, <2>2
<1>5. doc.redone \in Seq(0..MaxUnits)
  <2>1. PICK c \in Seq(Nat) : c = doc.redone
    BY <1>1 DEF DocSound, Docs
  <2>2. Len(c) = N
    BY <1>1, <1>2, <2>1 DEF DocSound
  <2>3. ASSUME NEW u \in 1..N PROVE c[u] \in 0..MaxUnits
    <3>1. CASE c[u] = None
      BY <3>1, BoundAssumption DEF None
    <3>2. CASE c[u] # None
      <4>1. Copies(doc, u, c[u])
        BY <1>1, <1>2, <2>1, <3>2 DEF DocSound, RedoneSound
      <4>2. c[u] \in 1..N
        BY <1>2, <4>1 DEF Copies
      <4> QED BY <1>3, <4>2
    <3> QED BY <3>1, <3>2
  <2>4. c \in Seq(0..MaxUnits)
    BY <2>2, <2>3, Elements
  <2> QED BY <2>1, <2>4
<1>6. doc.content \in Seq(Units)
  <2>1. PICK c \in Seq(Nat) : c = doc.content
    BY <1>1 DEF DocSound, Docs
  <2>2. Len(c) = N
    BY <1>2, <2>1 DEF NewestOf
  <2>3. \A u \in 1..N : c[u] \in Units
    BY <1>1, <1>2, <1>3, <2>1 DEF DocSound
  <2>4. c \in Seq(Units)
    BY <2>2, <2>3, Elements
  <2> QED BY <2>1, <2>4
<1>7. /\ doc.deleted \subseteq 1..NewestOf(doc) /\ doc.keep \subseteq 1..NewestOf(doc)
      /\ doc.emptied \subseteq doc.deleted /\ Len(doc.redone) = Len(doc.content)
  BY <1>1 DEF DocSound, NewestOf
<1>8. TypeOK
  <2>1. undoStack \in Seq(StackItems) /\ redoStack \in Seq(StackItems) /\ held \in StackItems
    BY <1>1 DEF StackSound, ItemSound
  <2>2. /\ undoing \in BOOLEAN /\ redoing \in BOOLEAN /\ captured \in BOOLEAN
        /\ quiet \in BOOLEAN /\ edits \in 0..MaxEdits /\ foreign \in 0..MaxForeign
    BY DEF IInv
  <2> QED BY <1>4, <1>5, <1>6, <1>7, <2>1, <2>2 DEF TypeOK
<1>9. ASSUME NEW item, ItemSound(doc, item)
      PROVE  InScope(doc, item.del \ item.ins) \cap doc.emptied = {}
  BY <1>9 DEF ItemSound, InScope
<1>10. ASSUME NEW item \in Range(undoStack) \cup Range(redoStack) \cup {held}
       PROVE  ItemSound(doc, item)
  <2>1. DOMAIN undoStack = 1..Len(undoStack) /\ DOMAIN redoStack = 1..Len(redoStack)
    BY <1>1, StackFacts DEF StackSound
  <2> QED BY <1>1, <2>1 DEF Range, StackSound
<1>11. KeptForUndo
  BY <1>9, <1>10 DEF KeptForUndo
<1> QED BY <1>8, <1>11 DEF StacksSound

\* The inductive invariant: documents are sound, every recorded item is deleted where it says
\* so, kept and not emptied, and no item is in what two of them deleted.
THEOREM Invariance == Spec => []IInv
<1>1. Init => IInv
  BY InitSound
<1>2. IInv /\ [Next]_vars => IInv'
  BY NextSound
<1> QED BY <1>1, <1>2, PTL DEF Spec

\* Whatever is edited, collected, undone, redone, cleared or cancelled, in any order and
\* by whomever: documents and stacks stay well formed, and what an undo or a redo would
\* bring back has kept its content.
THEOREM StacksStaySound == Spec => []StacksSound
<1>1. IInv => StacksSound
  BY InvSound
<1> QED BY <1>1, Invariance, PTL

\* Undo and redo delete only what the manager recorded or copied: an item of another
\* origin that is there stays there.
THEOREM OthersSpared == Spec => SparesOthers
<1>1. ASSUME IInv, [Next]_vars, held # NoItem, held' # held
      PROVE  doc'.theirs \cap doc'.deleted \subseteq doc.deleted
  <2>1. CASE TryProcess
    BY <1>1, <2>1, TryProcessSound
  <2>2. CASE Cancel
    BY <2>2 DEF Cancel
  <2> QED BY <1>1, <2>1, <2>2
       DEF Next, Edit, ForeignEdit, CollectAll, Undo, Redo, Reset, Clear, Idle, vars
<1>2. IInv /\ [Next]_vars
      => [held # NoItem /\ held' # held
          => doc'.theirs \cap doc'.deleted \subseteq doc.deleted]_vars
  BY <1>1
<1> QED BY <1>2, Invariance, PTL DEF Spec, SparesOthers
=============================================================================
