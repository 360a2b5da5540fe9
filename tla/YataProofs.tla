----------------------------- MODULE YataProofs -----------------------------
(***************************************************************************)
(* Proofs about Yata: all replicas order the items of a slot alike, with   *)
(* every item between its origins, whatever arrives where and in whatever  *)
(* order.                                                                  *)
(*                                                                         *)
(* The argument is one order T of all items that were ever created, of     *)
(* which each replica's list is a part.  Four facts about T make it what   *)
(* it is: items are between their origins, the way from an item to its     *)
(* origin is not crossed (Nested), a right origin was no part of what      *)
(* stands right of the origin (RightOuter), and of two items with the same *)
(* origin the one with the larger client comes first only if its right     *)
(* origin comes before the other (ByClient).                               *)
(***************************************************************************)
EXTENDS Yata, FiniteSetTheorems, WellFoundedInduction, TLAPS

\* x comes before y in the order T
Lt(T, x, y) == <<x, y>> \in T
Leq(T, x, y) == x = y \/ Lt(T, x, y)
\* the left end, as an origin, comes before everything; the right end after everything
RightOf(T, x, y) == y # None /\ (x = None \/ Lt(T, x, y))
Transitive(T) == \A x, y, z : Lt(T, x, y) /\ Lt(T, y, z) => Lt(T, x, z)
Extends(T, U) == \A x, y : Lt(T, x, y) => Lt(U, x, y)

(***************************************************************************)
(* The order, of any function `its` from items to what they were created   *)
(* with.                                                                   *)
(***************************************************************************)
SameSlot(its, x, y) == its[x].slot = its[y].slot
SameOrigins(its, x, y) == SameSlot(its, x, y) /\ its[x].origin = its[y].origin

ItemsSound(its) ==
  \A x \in DOMAIN its :
    /\ x # None /\ x.client \in Int
    /\ its[x].origin # None => its[x].origin \in DOMAIN its /\ SameSlot(its, x, its[x].origin)
    /\ its[x].right # None => its[x].right \in DOMAIN its /\ SameSlot(its, x, its[x].right)

Total(its, T) ==
  /\ \A x, y : Lt(T, x, y) => x \in DOMAIN its /\ y \in DOMAIN its /\ SameSlot(its, x, y)
  /\ \A x : ~Lt(T, x, x)
  /\ \A x, y, z : Lt(T, x, y) /\ Lt(T, y, z) => Lt(T, x, z)
  /\ \A x, y \in DOMAIN its : SameSlot(its, x, y) => x = y \/ Lt(T, x, y) \/ Lt(T, y, x)

Between(its, T) ==
  \A x \in DOMAIN its :
    /\ its[x].origin # None => Lt(T, its[x].origin, x)
    /\ its[x].right # None => Lt(T, x, its[x].right)

Nested(its, T) ==
  \A x, y \in DOMAIN its :
    its[x].origin # None /\ Lt(T, its[x].origin, y) /\ Lt(T, y, x) =>
      its[y].origin = its[x].origin \/ Lt(T, its[x].origin, its[y].origin)

RightOuter(its, T) ==
  \A x \in DOMAIN its :
    its[x].right # None => ~RightOf(T, its[x].origin, its[its[x].right].origin)

ByClient(its, T) ==
  \A x, y \in DOMAIN its :
    SameOrigins(its, x, y) /\ Lt(T, x, y) /\ ~(x.client < y.client) =>
      its[x].right # None /\ Leq(T, its[x].right, y)

Explains(its, T) ==
  /\ Total(its, T) /\ Between(its, T) /\ Nested(its, T)
  /\ RightOuter(its, T) /\ ByClient(its, T)

\* A new item finds its place in the order: behind what stands right of its origin and has
\* the same origin and a smaller client, and all that depends on that.
LEMMA OrderExtends ==
  ASSUME NEW its, NEW T, ItemsSound(its), Explains(its, T),
         NEW x, x \notin DOMAIN its, x # None, x.client \in Int,
         NEW s, NEW o, NEW R,
         o # None => o \in DOMAIN its /\ its[o].slot = s,
         R # None => R \in DOMAIN its /\ its[R].slot = s,
         o # None /\ R # None => Lt(T, o, R),
         R # None => ~RightOf(T, o, its[R].origin),
         \A a \in DOMAIN its :
           a.client = x.client /\ its[a].slot = s /\ its[a].origin = o =>
             R # None /\ Leq(T, R, a),
         NEW new, DOMAIN new = DOMAIN its \cup {x},
         new[x].slot = s, new[x].origin = o, new[x].right = R,
         \A i \in DOMAIN its : new[i] = its[i]
  PROVE  \E U : Explains(new, U) /\ Extends(T, U)
<1> DEFINE D == DOMAIN its
           Here(b) == b \in D /\ its[b].slot = s
           Smaller(a) == Here(a) /\ its[a].origin = o /\ a.client < x.client
                         /\ (R = None \/ Lt(T, a, R))
           Stops(b) == Here(b) /\ (o = None \/ Lt(T, o, b)) /\ ~RightOf(T, o, its[b].origin)
                       /\ \A a \in D : Smaller(a) => Lt(T, a, b)
           B == {b \in D : Here(b) /\ \E c \in D : Stops(c) /\ Leq(T, c, b)}
           A == {a \in D : Here(a) /\ a \notin B}
           U == T \cup (A \X {x}) \cup ({x} \X B)
<1>1. /\ DOMAIN new = D \cup {x}
      /\ new[x].slot = s /\ new[x].origin = o /\ new[x].right = R
      /\ \A i \in D : new[i] = its[i]
  OBVIOUS
<1>2. /\ \A a, b : Lt(T, a, b) => a \in D /\ b \in D /\ its[a].slot = its[b].slot
      /\ \A a : ~Lt(T, a, a)
      /\ \A a, b, c : Lt(T, a, b) /\ Lt(T, b, c) => Lt(T, a, c)
      /\ \A a, b \in D : its[a].slot = its[b].slot => a = b \/ Lt(T, a, b) \/ Lt(T, b, a)
  BY DEF Explains, Total, SameSlot
<1>4. /\ \A b \in B : Here(b) /\ \E c \in D : Stops(c) /\ Leq(T, c, b)
      /\ \A a \in A : Here(a) /\ \A c \in D : Stops(c) => ~Leq(T, c, a)
      /\ \A b : Here(b) => b \in A \/ b \in B
      /\ \A b : b \in A => b \notin B
  OBVIOUS
<1> HIDE DEF A, B, Here, Smaller, Stops
<1>3. /\ \A a, b : Lt(U, a, b) => Lt(T, a, b) \/ (a \in A /\ b = x) \/ (a = x /\ b \in B)
      /\ \A a, b : Lt(T, a, b) => Lt(U, a, b)
      /\ \A a \in A : Lt(U, a, x)
      /\ \A b \in B : Lt(U, x, b)
  BY DEF Lt
<1> HIDE DEF U
<1>0. /\ x \notin D /\ x \notin A /\ x \notin B
      /\ \A a \in A : a \in D /\ its[a].slot = s
      /\ \A b \in B : b \in D /\ its[b].slot = s
      /\ \A b \in D : its[b].slot = s => b \in A \/ b \in B
  BY <1>4 DEF Here
<1>5. /\ \A b \in B : \A c : Lt(T, b, c) => c \in B
      /\ \A a \in A : \A c : Lt(T, c, a) => c \in A
      /\ \A a \in A, b \in B : Lt(T, a, b)
  <2>1. ASSUME NEW b \in B, NEW c, Lt(T, b, c) PROVE c \in B
    BY <1>2, <1>4, <2>1 DEF B, Leq, Here
  <2>2. ASSUME NEW a \in A, NEW c, Lt(T, c, a) PROVE c \in A
    <3>1. c \in D /\ its[c].slot = s
      BY <1>0, <1>2, <2>2
    <3>2. c \notin B
      BY <1>4, <2>1, <2>2
    <3> QED BY <1>0, <3>1, <3>2
  <2>3. ASSUME NEW a \in A, NEW b \in B PROVE Lt(T, a, b)
    BY <1>0, <1>2, <1>4, <2>1, <2>3
  <2> QED BY <2>1, <2>2, <2>3
<1>6. Total(new, U)
  <2>1. \A a, b : Lt(U, a, b) => a \in DOMAIN new /\ b \in DOMAIN new /\ SameSlot(new, a, b)
    BY <1>0, <1>1, <1>2, <1>3 DEF SameSlot
  <2>2. \A a : ~Lt(U, a, a)
    BY <1>0, <1>2, <1>3
  <2>3. \A a, b, c : Lt(U, a, b) /\ Lt(U, b, c) => Lt(U, a, c)
    BY <1>0, <1>2, <1>3, <1>5
  <2>4. ASSUME NEW a \in DOMAIN new, NEW b \in DOMAIN new, SameSlot(new, a, b)
        PROVE  a = b \/ Lt(U, a, b) \/ Lt(U, b, a)
    <3>1. CASE a \in D /\ b \in D
      BY <1>1, <1>2, <1>3, <2>4, <3>1 DEF SameSlot
    <3>2. CASE a = x \/ b = x
      BY <1>0, <1>1, <1>3, <2>4, <3>2 DEF SameSlot
    <3> QED BY <1>1, <3>1, <3>2
  <2> QED BY <2>1, <2>2, <2>3, <2>4 DEF Total
<1>7. Between(new, U)
  <2>1. ASSUME o # None PROVE o \in A
    BY <1>0, <1>2, <1>4, <2>1 DEF Leq, Stops
  <2>2. ASSUME R # None PROVE R \in B
    <3>1. Stops(R)
      BY <1>2, <2>2 DEF Stops, Smaller, Here
    <3> QED BY <2>2, <3>1 DEF B, Leq, Stops, Here
  <2>3. \A i \in D : /\ its[i].origin # None => Lt(T, its[i].origin, i)
                     /\ its[i].right # None => Lt(T, i, its[i].right)
    BY DEF Explains, Between
  <2>4. /\ o # None => Lt(U, o, x)
        /\ R # None => Lt(U, x, R)
    BY <1>3, <2>1, <2>2
  <2>5. \A i \in D : /\ its[i].origin # None => Lt(U, its[i].origin, i)
                     /\ its[i].right # None => Lt(U, i, its[i].right)
    BY <1>3, <2>3
  <2> QED BY <1>1, <2>4, <2>5 DEF Between
<1>8. Nested(new, U)
  <2> SUFFICES ASSUME NEW v \in D \cup {x}, NEW y \in D \cup {x},
                      new[v].origin # None, Lt(U, new[v].origin, y), Lt(U, y, v)
               PROVE  new[y].origin = new[v].origin \/ Lt(U, new[v].origin, new[y].origin)
    BY <1>1 DEF Nested
  <2>0. /\ \A i, j \in D : its[i].origin # None /\ Lt(T, its[i].origin, j) /\ Lt(T, j, i) =>
               its[j].origin = its[i].origin \/ Lt(T, its[i].origin, its[j].origin)
        /\ \A i \in D : its[i].origin # None => its[i].origin \in D
                                               /\ its[its[i].origin].slot = its[i].slot
    BY DEF Explains, Nested, ItemsSound, SameSlot
  <2>1. CASE v \in D /\ y \in D
    BY <1>1, <1>2, <1>3, <2>0, <2>1
  <2>2. CASE v = x
    <3>1. y \in A /\ o # None /\ Lt(T, o, y)
      BY <1>0, <1>1, <1>2, <1>3, <2>2
    <3>2. ~Stops(y) /\ Here(y) /\ y \in D
      BY <1>0, <1>4, <3>1 DEF Leq
    <3>3. CASE RightOf(T, o, its[y].origin)
      BY <1>1, <1>3, <2>2, <3>1, <3>2, <3>3 DEF RightOf
    <3>4. CASE ~RightOf(T, o, its[y].origin)
      <4>1. PICK a \in D : Smaller(a) /\ ~Lt(T, a, y)
        BY <3>1, <3>2, <3>4 DEF Stops
      <4>2. a = y \/ Lt(T, y, a)
        BY <1>2, <3>2, <4>1 DEF Smaller, Here
      <4>3. its[y].origin = o \/ Lt(T, o, its[y].origin)
        BY <2>0, <3>1, <3>2, <4>1, <4>2 DEF Smaller, Here
      <4> QED BY <1>1, <1>3, <2>2, <3>2, <4>3
    <3> QED BY <3>3, <3>4
  <2>3. CASE v \in D /\ y = x
    <3> DEFINE q == its[v].origin
    <3>1. q # None /\ q \in A /\ v \in B /\ q \in D
      BY <1>0, <1>1, <1>2, <1>3, <2>0, <2>3
    <3>2. PICK c \in D : Stops(c) /\ Leq(T, c, v)
      BY <1>4, <3>1
    <3>3. c \in B
      BY <3>2 DEF B, Leq, Stops
    <3>4. Lt(T, q, c)
      BY <1>5, <3>1, <3>3
    <3>5. ~ (o = None \/ Lt(T, o, q))
      <4> SUFFICES ASSUME o = None \/ Lt(T, o, q) PROVE FALSE
        OBVIOUS
      <4>1. its[c].origin = q \/ Lt(T, q, its[c].origin)
        <5>1. CASE c = v
          BY <5>1
        <5>2. CASE Lt(T, c, v)
          BY <2>0, <1>0, <3>1, <3>2, <3>4, <5>2
        <5> QED BY <3>2, <5>1, <5>2 DEF Leq
      <4>2. its[c].origin # None
        BY <1>2, <3>1, <4>1, <2>0 DEF ItemsSound
      <4>3. o = None \/ Lt(T, o, its[c].origin)
        BY <1>2, <4>1
      <4> QED BY <3>2, <4>2, <4>3 DEF RightOf, Stops
    <3>6. o # None /\ ~Lt(T, o, q)
      BY <3>5
    <3>7. o \in D /\ q \in D /\ its[o].slot = its[q].slot
      BY <1>0, <3>1, <3>6
    <3>8. q = o \/ Lt(T, q, o)
      BY <1>2, <3>6, <3>7
    <3> QED BY <1>0, <1>1, <1>3, <2>3, <3>8
  <2> QED BY <2>1, <2>2, <2>3
<1>9. RightOuter(new, U)
  <2>0. /\ \A i \in D : its[i].right # None => its[i].right \in D
                          /\ ~RightOf(T, its[i].origin, its[its[i].right].origin)
        /\ \A i \in D : its[i].origin # None => its[i].origin \in D
    BY DEF Explains, RightOuter, ItemsSound
  <2> SUFFICES ASSUME NEW v \in D \cup {x}, new[v].right # None
               PROVE  ~RightOf(U, new[v].origin, new[new[v].right].origin)
    BY <1>1 DEF RightOuter
  <2>1. new[v].right \in D
    BY <1>1, <2>0
  <2>2. ~RightOf(T, new[v].origin, new[new[v].right].origin)
    BY <1>1, <2>0, <2>1
  <2>3. \A a, b \in D : Lt(U, a, b) => Lt(T, a, b)
    BY <1>0, <1>3
  <2>4. /\ new[v].origin # None => new[v].origin \in D
        /\ new[new[v].right].origin # None => new[new[v].right].origin \in D
    BY <1>1, <2>0, <2>1
  <2> QED BY <2>2, <2>3, <2>4 DEF RightOf
<1>10. ByClient(new, U)
  <2> SUFFICES ASSUME NEW v \in D \cup {x}, NEW y \in D \cup {x}, SameOrigins(new, v, y),
                      Lt(U, v, y), ~ (v.client < y.client)
               PROVE  new[v].right # None /\ Leq(U, new[v].right, y)
    BY <1>1 DEF ByClient
  <2>0. /\ \A i, j \in D : its[i].slot = its[j].slot /\ its[i].origin = its[j].origin
             /\ Lt(T, i, j) /\ ~ (i.client < j.client) =>
               its[i].right # None /\ Leq(T, its[i].right, j)
        /\ \A i \in D : i.client \in Int
    BY DEF Explains, ByClient, SameOrigins, SameSlot, ItemsSound
  <2>1. CASE v \in D /\ y \in D
    <3>1. Lt(T, v, y) /\ its[v].slot = its[y].slot /\ its[v].origin = its[y].origin
      BY <1>1, <1>3, <2>1 DEF SameOrigins, SameSlot
    <3>2. its[v].right # None /\ Leq(T, its[v].right, y)
      BY <2>0, <2>1, <3>1
    <3> QED BY <1>1, <1>3, <2>1, <3>2 DEF Leq
  <2>2. CASE v = x
    <3>1. y \in B /\ y \in D /\ its[y].slot = s /\ its[y].origin = o
      BY <1>0, <1>1, <1>2, <1>3, <2>2 DEF SameOrigins, SameSlot
    <3>0. SUFFICES R # None /\ Leq(T, R, y)
      BY <1>1, <1>3, <2>2 DEF Leq
    <3>2. CASE y.client = x.client
      BY <3>1, <3>2
    <3>3. CASE y.client < x.client
      <4>1. ~ (R = None \/ Lt(T, y, R))
        <5> SUFFICES ASSUME R = None \/ Lt(T, y, R) PROVE FALSE
          OBVIOUS
        <5>1. Smaller(y)
          BY <3>1, <3>3 DEF Smaller, Here
        <5>2. PICK c \in D : Stops(c) /\ Leq(T, c, y)
          BY <1>4, <3>1
        <5>3. Lt(T, y, c)
          BY <3>1, <5>1, <5>2 DEF Stops
        <5>4. c = y \/ Lt(T, c, y)
          BY <5>2 DEF Leq
        <5>5. ~Lt(T, y, y) /\ (Lt(T, y, c) /\ Lt(T, c, y) => Lt(T, y, y))
          BY <1>2
        <5> QED BY <5>3, <5>4, <5>5
      <4>2. R \in D /\ its[R].slot = s
        BY <4>1
      <4> QED BY <1>2, <3>1, <4>1, <4>2 DEF Leq
    <3>4. y.client \in Int /\ x.client \in Int
      BY <2>0, <3>1
    <3> QED BY <2>2, <3>2, <3>3, <3>4
  <2>3. CASE v \in D /\ y = x
    <3>1. v \in A /\ its[v].slot = s /\ its[v].origin = o
      BY <1>0, <1>1, <1>2, <1>3, <2>3 DEF SameOrigins, SameSlot
    <3>2. v.client # x.client
      <4> SUFFICES ASSUME v.client = x.client PROVE FALSE
        OBVIOUS
      <4>1. R # None /\ Leq(T, R, v)
        BY <2>3, <3>1
      <4>2. Lt(U, x, R)
        BY <1>1, <1>7, <4>1 DEF Between
      <4>3. R = v \/ Lt(U, R, v)
        BY <1>3, <4>1 DEF Leq
      <4>4. Lt(U, v, x)
        BY <2>3
      <4>5. /\ \A a, b, c : Lt(U, a, b) /\ Lt(U, b, c) => Lt(U, a, c)
            /\ \A a : ~Lt(U, a, a)
        BY <1>6 DEF Total
      <4>6. Lt(U, x, v)
        BY <4>2, <4>3, <4>5
      <4> QED BY <4>4, <4>5, <4>6
    <3>3. x.client < v.client
      BY <2>0, <2>3, <3>2
    <3>4. ~Stops(v)
      BY <1>4, <2>3, <3>1 DEF Leq
    <3>5. o = None \/ Lt(T, o, v)
      BY <2>3, <3>1 DEF Explains, Between
    <3>6. ~RightOf(T, o, its[v].origin)
      BY <1>2, <3>1 DEF RightOf
    <3>7. PICK a \in D : Smaller(a) /\ ~Lt(T, a, v)
      BY <2>3, <3>1, <3>4, <3>5, <3>6 DEF Stops, Here
    <3>8. Lt(T, v, a)
      <4>1. a # v
        BY <2>0, <2>3, <3>3, <3>7 DEF Smaller
      <4> QED BY <1>2, <2>3, <3>1, <3>7, <4>1 DEF Smaller, Here
    <3>9. its[v].right # None /\ Leq(T, its[v].right, a)
      <4>1. ~ (v.client < a.client)
        BY <2>0, <2>3, <3>3, <3>7 DEF Smaller
      <4> QED BY <2>0, <2>3, <3>1, <3>7, <3>8, <4>1 DEF Smaller, Here
    <3>10. a \in A
      <4> SUFFICES ASSUME a \in B PROVE FALSE
        BY <1>4, <3>7 DEF Smaller
      <4>1. PICK c \in D : Stops(c) /\ Leq(T, c, a)
        BY <1>4
      <4>2. Lt(T, a, c)
        BY <3>7, <4>1 DEF Stops
      <4> QED BY <1>2, <4>1, <4>2 DEF Leq
    <3>11. its[v].right \in A
      BY <1>5, <3>9, <3>10 DEF Leq
    <3> QED BY <1>1, <1>3, <2>3, <3>9, <3>11 DEF Leq
  <2>4. ~ (v = x /\ y = x)
    BY <1>6 DEF Total
  <2> QED BY <2>1, <2>2, <2>3, <2>4
<1>11. Extends(T, U)
  BY <1>3 DEF Extends
<1>12. Explains(new, U)
  BY <1>6, <1>7, <1>8, <1>9, <1>10 DEF Explains
<1> QED BY <1>11, <1>12

(***************************************************************************)
(* The scan of resolve_conflict, for an item z over a list L in the order  *)
(* of T: from behind position l, where the origin of z is.                 *)
(***************************************************************************)
IsAt(L, x) == \E j \in 1..Len(L) : L[j] = x

Scene(its, T, L, z, l) ==
  /\ ItemsSound(its) /\ Explains(its, T)
  /\ z \in DOMAIN its /\ L \in Seq(DOMAIN its)
  /\ \A i \in 1..Len(L) :
       /\ SameSlot(its, L[i], z) /\ L[i] # z
       /\ its[L[i]].origin # None => IsAt(L, its[L[i]].origin)
       /\ its[L[i]].right # None => IsAt(L, its[L[i]].right)
  /\ \A i, j \in 1..Len(L) : i < j => Lt(T, L[i], L[j])
  /\ l \in 0..Len(L) /\ its[z].origin = IF l = 0 THEN None ELSE L[l]
  /\ its[z].right # None => IsAt(L, its[z].right)

\* Positions in the list tell the order, and z has a place between two of them.
LEMMA Positions ==
  ASSUME NEW its, NEW T, NEW L, NEW z, NEW l, Scene(its, T, L, z, l)
  PROVE  /\ \A i, j \in 1..Len(L) : Lt(T, L[i], L[j]) => i < j
         /\ \A i, j \in 1..Len(L) : L[i] = L[j] => i = j
         /\ \A i \in 1..Len(L) : Lt(T, L[i], z) \/ Lt(T, z, L[i])
         /\ \A i \in 1..Len(L) : i > l => its[z].origin = None \/ Lt(T, its[z].origin, L[i])
         /\ \A i \in 1..Len(L) : L[i] = its[z].right => Lt(T, z, L[i]) /\ i > l
         /\ \A x, y, w : Lt(T, x, y) /\ Lt(T, y, w) => Lt(T, x, w)
         /\ \A x : ~Lt(T, x, x)
         /\ \A i \in 1..Len(L) : L[i] \in DOMAIN its /\ L[i] # None
<1>1. /\ \A x, y, w : Lt(T, x, y) /\ Lt(T, y, w) => Lt(T, x, w)
      /\ \A x : ~Lt(T, x, x)
      /\ \A x, y \in DOMAIN its : SameSlot(its, x, y) => x = y \/ Lt(T, x, y) \/ Lt(T, y, x)
  BY DEF Scene, Explains, Total
<1>2. /\ \A i, j \in 1..Len(L) : i < j => Lt(T, L[i], L[j])
      /\ z \in DOMAIN its /\ Len(L) \in Nat
      /\ \A i \in 1..Len(L) : L[i] \in DOMAIN its /\ SameSlot(its, L[i], z) /\ L[i] # z
      /\ l \in 0..Len(L) /\ its[z].origin = IF l = 0 THEN None ELSE L[l]
  BY DEF Scene
<1>3. ASSUME NEW i \in 1..Len(L), NEW j \in 1..Len(L), Lt(T, L[i], L[j]) PROVE i < j
  <2>1. i = j \/ j < i \/ i < j
    BY <1>2
  <2> QED BY <1>1, <1>2, <1>3, <2>1
<1>4. ASSUME NEW i \in 1..Len(L), NEW j \in 1..Len(L), L[i] = L[j] PROVE i = j
  <2>1. i = j \/ j < i \/ i < j
    BY <1>2
  <2> QED BY <1>1, <1>2, <1>4, <2>1
<1>5. \A i \in 1..Len(L) : Lt(T, L[i], z) \/ Lt(T, z, L[i])
  BY <1>1, <1>2
<1>6. ASSUME NEW i \in 1..Len(L), i > l PROVE its[z].origin = None \/ Lt(T, its[z].origin, L[i])
  <2>1. l = 0 \/ l \in 1..Len(L)
    BY <1>2
  <2> QED BY <1>2, <1>6, <2>1
<1>7. \A i \in 1..Len(L) : L[i] # None
  BY <1>2 DEF Scene, ItemsSound
<1>8. ASSUME NEW i \in 1..Len(L), L[i] = its[z].right PROVE Lt(T, z, L[i]) /\ i > l
  <2>1. /\ Lt(T, z, L[i])
        /\ its[z].origin # None => Lt(T, its[z].origin, z)
    BY <1>2, <1>7, <1>8 DEF Scene, Explains, Between
  <2>2. CASE l = 0
    BY <2>1, <2>2
  <2>3. CASE l \in 1..Len(L)
    <3>1. its[z].origin = L[l] /\ L[l] # None
      BY <1>2, <1>7, <2>3
    <3>2. Lt(T, L[l], L[i])
      BY <1>1, <2>1, <3>1
    <3> QED BY <1>3, <2>1, <2>3, <3>2
  <2> QED BY <1>2, <2>2, <2>3
<1> QED BY <1>1, <1>2, <1>3, <1>4, <1>5, <1>6, <1>7, <1>8

\* An item with the same origin and a smaller client, met before the right origin, goes
\* before z.
LEMMA SmallerGoesBefore ==
  ASSUME NEW its, NEW T, NEW L, NEW z, NEW l, Scene(its, T, L, z, l),
         NEW n \in 1..Len(L), n > l, \A k \in (l + 1)..n : L[k] # its[z].right,
         its[L[n]].origin = its[z].origin, L[n].client < z.client
  PROVE  Lt(T, L[n], z)
<1> SUFFICES ASSUME Lt(T, z, L[n]) PROVE FALSE
  BY Positions
<1>1. z \in DOMAIN its /\ L[n] \in DOMAIN its /\ SameOrigins(its, z, L[n])
  BY DEF Scene, SameOrigins, SameSlot
<1>2. ~ (z.client < L[n].client)
  BY <1>1 DEF Scene, ItemsSound
<1>3. its[z].right # None /\ Leq(T, its[z].right, L[n])
  BY <1>1, <1>2 DEF Scene, Explains, ByClient
<1>4. PICK j \in 1..Len(L) : L[j] = its[z].right
  BY <1>3 DEF Scene, IsAt
<1>5. j > l /\ (j = n \/ j < n)
  BY <1>3, <1>4, Positions DEF Leq
<1>6. j \in (l + 1)..n
  BY <1>5 DEF Scene
<1> QED BY <1>4, <1>6

\* An item whose origin was passed and goes before z goes before z, too.
LEMMA DependentGoesBefore ==
  ASSUME NEW its, NEW T, NEW L, NEW z, NEW l, Scene(its, T, L, z, l),
         NEW n \in 1..Len(L), NEW k \in 1..Len(L), k > l,
         its[L[n]].origin = L[k], Lt(T, L[k], z)
  PROVE  Lt(T, L[n], z)
<1> SUFFICES ASSUME Lt(T, z, L[n]) PROVE FALSE
  BY Positions
<1>1. z \in DOMAIN its /\ L[n] \in DOMAIN its /\ L[k] # None
  BY Positions DEF Scene
<1>2. its[z].origin = L[k] \/ Lt(T, L[k], its[z].origin)
  BY <1>1 DEF Scene, Explains, Nested
<1>3. its[z].origin # None
  BY <1>1, <1>2 DEF Scene, Explains, Total, ItemsSound
<1>4. Lt(T, its[z].origin, L[k])
  BY <1>3, Positions
<1> QED BY <1>2, <1>4, Positions
\* What the scan has found when it considers position `next`: it has only passed siblings
\* and items that depend on them, and since `left` only those that decide nothing.
Scanned(its, L, z, l, left, next) ==
  /\ next \in (l + 1)..(Len(L) + 1) /\ left \in l..(next - 1)
  /\ \A k \in (l + 1)..(next - 1) :
       /\ L[k] # its[z].right
       /\ its[L[k]].origin = its[z].origin
            \/ \E j \in (l + 1)..(next - 1) : L[j] = its[L[k]].origin
  /\ \A k \in (left + 1)..(next - 1) :
       IF its[L[k]].origin = its[z].origin
       THEN ~ (L[k].client < z.client) /\ its[L[k]].right # its[z].right
       ELSE \E j \in (left + 1)..(next - 1) : L[j] = its[L[k]].origin

\* What makes the scan end at position `next`.
Ends(its, L, z, l, next) ==
  next <= Len(L) =>
    \/ L[next] = its[z].right
    \/ /\ its[L[next]].origin = its[z].origin
       /\ ~ (L[next].client < z.client) /\ its[L[next]].right = its[z].right
    \/ /\ its[L[next]].origin # its[z].origin
       /\ \A j \in (l + 1)..(next - 1) : L[j] # its[L[next]].origin

\* A set of numbers that is not empty has a least element.
LEMMA LeastElement ==
  ASSUME NEW S \in SUBSET Nat, S # {}
  PROVE  \E x \in S : \A y \in S : x <= y
<1> DEFINE W == {ss \in Nat \X Nat : ss[1] < ss[2]}
<1>1. IsWellFoundedOn(W, Nat)
  BY NatLessThanWellFounded DEF OpToRel
<1>2. \A x, y \in Nat : y < x => <<y, x>> \in W
  OBVIOUS
<1> HIDE DEF W
<1>3. PICK x \in S : \A y \in S : ~ (<<y, x>> \in W)
  BY <1>1, WFMin
<1>4. ASSUME NEW y \in S PROVE x <= y
  <2>1. x \in Nat /\ y \in Nat /\ ~ (y < x)
    BY <1>2, <1>3
  <2> QED BY <2>1
<1> QED BY <1>4

\* A set of numbers with a bound that is not empty has a greatest element.
LEMMA GreatestElement ==
  ASSUME NEW b \in Nat, NEW S \in SUBSET (0..b), S # {}
  PROVE  \E x \in S : \A y \in S : y <= x
<1> DEFINE N == {b - x : x \in S}
<1>1. N \in SUBSET Nat /\ N # {}
  <2>1. \A x \in S : b - x \in Nat
    OBVIOUS
  <2> QED BY <2>1
<1>2. PICK n \in N : \A m \in N : n <= m
  <2> HIDE DEF N
  <2> QED BY <1>1, LeastElement
<1>3. PICK x \in S : n = b - x
  OBVIOUS
<1>4. ASSUME NEW y \in S PROVE y <= x
  <2>1. b - y \in N
    OBVIOUS
  <2>2. b - x <= b - y
    BY <1>2, <1>3, <2>1
  <2> QED BY <2>2
<1> QED BY <1>4

\* When the scan ends, z goes before all that stands behind `left`: the siblings passed
\* since have larger clients and end, like their right origins, only behind z.
LEMMA Stopped ==
  ASSUME NEW its, NEW T, NEW L, NEW z, NEW l, Scene(its, T, L, z, l),
         NEW left, NEW next, Scanned(its, L, z, l, left, next), Ends(its, L, z, l, next),
         left < Len(L)
  PROVE  Lt(T, z, L[left + 1])
<1> DEFINE o == its[z].origin
<1>0. /\ l \in Nat /\ left \in Nat /\ next \in Nat /\ Len(L) \in Nat
      /\ l <= left /\ left < next /\ next <= Len(L) + 1
  BY DEF Scene, Scanned
<1>1. z \in DOMAIN its /\ \A i \in 1..Len(L) : L[i] \in DOMAIN its /\ L[i] # None
  BY Positions DEF Scene
<1>2. ASSUME NEW i \in 1..Len(L), its[L[i]].origin # None
      PROVE  \E j \in 1..Len(L) : L[j] = its[L[i]].origin /\ j < i
  <2>1. PICK j \in 1..Len(L) : L[j] = its[L[i]].origin
    BY <1>2 DEF Scene, IsAt
  <2>2. Lt(T, L[j], L[i])
    BY <1>1, <1>2, <2>1 DEF Scene, Explains, Between
  <2> QED BY <2>1, <2>2, Positions
<1>3. ASSUME NEW i \in 1..Len(L), its[L[i]].origin = o, ~ (L[i].client < z.client),
             Lt(T, L[i], z)
      PROVE  its[L[i]].right # None /\ Leq(T, its[L[i]].right, z)
  <2>1. SameOrigins(its, L[i], z)
    BY <1>3 DEF Scene, SameOrigins
  <2> QED BY <1>1, <1>3, <2>1 DEF Scene, Explains, ByClient
<1>4. ASSUME next <= Len(L) PROVE Lt(T, z, L[next])
  <2>0. next \in 1..Len(L) /\ next > l
    BY <1>0, <1>4
  <2> SUFFICES ASSUME Lt(T, L[next], z) PROVE FALSE
    BY <2>0, Positions
  <2>1. L[next] # its[z].right
    BY <2>0, Positions
  <2>2. CASE its[L[next]].origin = o
    <3>1. ~ (L[next].client < z.client) /\ its[L[next]].right = its[z].right
      BY <1>4, <2>1, <2>2 DEF Ends
    <3>2. its[z].right # None /\ Leq(T, its[z].right, z)
      BY <1>3, <2>0, <2>2, <3>1
    <3>3. Lt(T, z, its[z].right)
      BY <1>1, <3>2 DEF Scene, Explains, Between
    <3>4. its[z].right = z \/ Lt(T, its[z].right, z)
      BY <3>2 DEF Leq
    <3>5. /\ ~Lt(T, z, z)
          /\ Lt(T, z, its[z].right) /\ Lt(T, its[z].right, z) => Lt(T, z, z)
      BY Positions
    <3> QED BY <3>3, <3>4, <3>5
  <2>3. CASE its[L[next]].origin # o
    <3>1. \A j \in (l + 1)..(next - 1) : L[j] # its[L[next]].origin
      BY <1>4, <2>1, <2>3 DEF Ends
    <3>2. o = None \/ Lt(T, o, its[L[next]].origin)
      <4> SUFFICES ASSUME o # None PROVE Lt(T, o, its[L[next]].origin)
        OBVIOUS
      <4>1. Lt(T, o, L[next])
        BY <2>0, Positions
      <4> QED BY <1>1, <2>0, <2>3, <4>1 DEF Scene, Explains, Nested
    <3>3. its[L[next]].origin # None
      BY <2>3, <3>2, <1>1, <2>0 DEF Scene, Explains, Total, ItemsSound
    <3>4. PICK j \in 1..Len(L) : L[j] = its[L[next]].origin /\ j < next
      BY <1>2, <2>0, <3>3
    <3>5. j > l
      <4>1. CASE l = 0
        BY <4>1
      <4>2. CASE l > 0
        <5>1. o = L[l] /\ l \in 1..Len(L) /\ o # None
          BY <1>1, <4>2 DEF Scene
        <5> QED BY <3>2, <3>4, <5>1, Positions
      <4> QED BY <1>0, <4>1, <4>2
    <3> QED BY <1>0, <3>1, <3>4, <3>5
  <2> QED BY <2>2, <2>3
<1>5. left + 1 \in 1..Len(L)
  BY <1>0
<1>6. CASE left + 1 = next
  BY <1>4, <1>5, <1>6
<1>7. CASE left + 1 < next
  <2> SUFFICES ASSUME Lt(T, L[left + 1], z) PROVE FALSE
    BY <1>5, Positions
  <2> DEFINE S == {k \in (left + 1)..(next - 1) : its[L[k]].origin = o /\ Lt(T, L[k], z)}
  <2>1. left + 1 \in S
    <3> SUFFICES ASSUME its[L[left + 1]].origin # o PROVE FALSE
      BY <1>0, <1>7
    <3>0. left + 1 \in (left + 1)..(next - 1)
      BY <1>0, <1>7
    <3>1. PICK j \in (left + 1)..(next - 1) : L[j] = its[L[left + 1]].origin
      BY <3>0 DEF Scanned
    <3>2. j \in 1..Len(L)
      BY <1>0, <3>1
    <3>3. PICK i \in 1..Len(L) : L[i] = its[L[left + 1]].origin /\ i < left + 1
      BY <1>1, <1>2, <1>5, <3>1, <3>2
    <3>4. i = j
      BY <3>1, <3>2, <3>3, Positions
    <3> QED BY <1>0, <3>3, <3>4
  <2>2. PICK k \in S : \A m \in S : m <= k
    <3>1. S \in SUBSET (0..Len(L))
      BY <1>0
    <3> QED BY <1>0, <2>1, <3>1, GreatestElement
  <2>3. k \in (left + 1)..(next - 1) /\ k \in 1..Len(L) /\ its[L[k]].origin = o /\ Lt(T, L[k], z)
    BY <1>0, <2>2
  <2> DEFINE R == its[L[k]].right
  <2>4. R # None /\ Leq(T, R, z)
    BY <1>3, <2>3 DEF Scanned
  <2>5. PICK m \in 1..Len(L) : L[m] = R
    BY <2>3, <2>4 DEF Scene, IsAt
  <2>6. Lt(T, L[m], z)
    BY <2>4, <2>5 DEF Scene, Leq
  <2>7. m > k
    <3>1. Lt(T, L[k], L[m])
      BY <1>1, <2>3, <2>4, <2>5 DEF Scene, Explains, Between
    <3> QED BY <2>3, <2>5, <3>1, Positions
  <2>8. m < next
    <3> SUFFICES ASSUME next <= m PROVE FALSE
      BY <1>0
    <3>1. next \in 1..Len(L)
      BY <1>0
    <3>2. Lt(T, z, L[next])
      BY <1>4, <3>1
    <3>3. Lt(T, L[next], L[m]) \/ next = m
      BY <3>1 DEF Scene
    <3> QED BY <2>6, <3>2, <3>3, Positions
  <2>9. m \in (left + 1)..(next - 1)
    BY <1>0, <2>3, <2>7, <2>8
  <2>10. its[L[m]].origin # o
    BY <2>2, <2>6, <2>7, <2>9
  <2>11. PICK j \in (left + 1)..(next - 1) : L[j] = its[L[m]].origin
    BY <2>9, <2>10 DEF Scanned
  <2>12. j \in 1..Len(L) /\ j > l
    BY <1>0, <2>11
  <2>13. RightOf(T, o, its[R].origin)
    BY <1>1, <2>5, <2>11, <2>12, Positions DEF RightOf
  <2>14. ~RightOf(T, o, its[R].origin)
    BY <1>1, <2>3, <2>4 DEF Scene, Explains, RightOuter
  <2> QED BY <2>13, <2>14
<1> QED BY <1>0, <1>6, <1>7

(***************************************************************************)
(* What holds in every reachable state.                                    *)
(***************************************************************************)
\* the clocks of a client are used from 0 on, without a gap
ClocksInUse ==
  \A r \in Replicas : \E n \in Nat :
    {i \in DOMAIN items : i.client = r} = {[client |-> r, clock |-> k] : k \in 0..(n - 1)}

\* a list holds items of its slot, each with its origins
ListsSound ==
  \A r \in Replicas, s \in Slots : LET L == order[r][s] IN
    \A i \in 1..Len(L) :
      /\ items[L[i]].slot = s
      /\ items[L[i]].origin # None => IsAt(L, items[L[i]].origin)
      /\ items[L[i]].right # None => IsAt(L, items[L[i]].right)

\* whoever created an item has it
OwnHere == \A x \in DOMAIN items : IsAt(order[x.client][items[x].slot], x)

\* the integration in progress: its item is not here, its origins are, and it has
\* collected what stands behind the origin
ScanSound ==
  ~Idle =>
    LET z == scan.item
        L == order[scan.replica][items[z].slot]
    IN /\ scan.replica \in Replicas /\ z \in DOMAIN items
       /\ ~IsAt(L, z)
       /\ items[z].right # None => IsAt(L, items[z].right)
       /\ \E l \in 0..Len(L) :
            /\ items[z].origin = IF l = 0 THEN None ELSE L[l]
            /\ Scanned(items, L, z, l, scan.left, scan.next)
            /\ scan.before = {L[k] : k \in (l + 1)..(scan.next - 1)}
            /\ scan.conflicting = {L[k] : k \in (scan.left + 1)..(scan.next - 1)}

StateSound ==
  /\ TypeOK /\ ItemsSound(items) /\ IsFiniteSet(DOMAIN items)
  /\ ClocksInUse /\ ListsSound /\ OwnHere /\ ScanSound

\* every list is in the order T, and what the scan has put before its item is, too
InOrder(T) ==
  /\ \A r \in Replicas, s \in Slots : \A i, j \in 1..Len(order[r][s]) :
       i < j => Lt(T, order[r][s][i], order[r][s][j])
  /\ ~Idle /\ scan.left > 0 =>
       Lt(T, order[scan.replica][items[scan.item].slot][scan.left], scan.item)

Inv == StateSound /\ \E T : Explains(items, T) /\ InOrder(T)

\* The parts of the type that the proofs use.
LEMMA TypeFacts ==
  ASSUME TypeOK
  PROVE  /\ \A r \in Replicas, s \in Slots :
              /\ order[r][s] \in Seq(DOMAIN items) /\ Len(order[r][s]) \in Nat
              /\ \A i \in 1..Len(order[r][s]) : order[r][s][i] \in DOMAIN items
         /\ \A x \in DOMAIN items : x.client \in Replicas /\ x.client \in Int /\ x # None
         /\ \A x \in DOMAIN items : items[x] \in Items /\ items[x].slot \in Slots
<1>1. ASSUME NEW r \in Replicas, NEW s \in Slots
      PROVE  /\ order[r][s] \in Seq(DOMAIN items) /\ Len(order[r][s]) \in Nat
             /\ \A i \in 1..Len(order[r][s]) : order[r][s][i] \in DOMAIN items
  <2>1. order[r][s] \in Seq(DOMAIN items)
    BY DEF TypeOK
  <2> QED BY <2>1
<1>2. ASSUME NEW x \in DOMAIN items PROVE x.client \in Replicas /\ x.client \in Int /\ x # None
  <2>1. x \in Ids
    BY DEF TypeOK
  <2>2. x.client \in Replicas
    BY <2>1 DEF Ids
  <2>3. x.client \in Nat
    BY <2>2, ReplicasAssumption
  <2>4. None.client = -1
    BY DEF None
  <2>5. x.client # None.client
    BY <2>3, <2>4
  <2> QED BY <2>2, <2>3, <2>5
<1>3. \A x \in DOMAIN items : items[x] \in Items
  BY DEF TypeOK
<1>4. \A x \in DOMAIN items : items[x].slot \in Slots
  BY <1>3 DEF Items
<1> QED BY <1>1, <1>2, <1>3, <1>4

\* An item is integrated when it is in the list of its slot.
LEMMA IntegratedIsAt ==
  ASSUME StateSound, NEW r \in Replicas, NEW x \in DOMAIN items
  PROVE  /\ x \in Integrated(r) => IsAt(order[r][items[x].slot], x)
         /\ IsAt(order[r][items[x].slot], x) => x \in Integrated(r)
<1>0. TypeOK /\ ListsSound
  BY DEF StateSound
<1>1. \A s \in Slots : order[r][s] \in Seq(DOMAIN items)
  BY <1>0, TypeFacts
<1>2. ASSUME x \in Integrated(r) PROVE IsAt(order[r][items[x].slot], x)
  <2>1. PICK s \in Slots : x \in Range(order[r][s])
    BY <1>2 DEF Integrated
  <2>2. PICK j \in 1..Len(order[r][s]) : order[r][s][j] = x
    BY <1>1, <2>1 DEF Range
  <2>3. items[x].slot = s
    BY <1>0, <2>2 DEF ListsSound
  <2> QED BY <2>2, <2>3 DEF IsAt
<1>3. ASSUME IsAt(order[r][items[x].slot], x) PROVE x \in Integrated(r)
  <2>1. items[x].slot \in Slots
    BY <1>0, TypeFacts
  <2>2. x \in Range(order[r][items[x].slot])
    BY <1>1, <1>3, <2>1 DEF IsAt, Range
  <2> QED BY <2>1, <2>2 DEF Integrated
<1> QED BY <1>2, <1>3

\* The integration in progress is a scene of the lemmas above.
LEMMA TheScene ==
  ASSUME StateSound, NEW T, Explains(items, T), InOrder(T), ~Idle
  PROVE  LET z == scan.item
             L == order[scan.replica][items[z].slot]
         IN \E l \in 0..Len(L) :
              /\ Scene(items, T, L, z, l) /\ Scanned(items, L, z, l, scan.left, scan.next)
              /\ scan.before = {L[k] : k \in (l + 1)..(scan.next - 1)}
              /\ scan.conflicting = {L[k] : k \in (scan.left + 1)..(scan.next - 1)}
<1> DEFINE z == scan.item
           s == items[z].slot
           L == order[scan.replica][s]
<1>1. /\ scan.replica \in Replicas /\ z \in DOMAIN items /\ ~IsAt(L, z)
      /\ items[z].right # None => IsAt(L, items[z].right)
  BY DEF StateSound, ScanSound
<1>2. PICK l \in 0..Len(L) :
            /\ items[z].origin = IF l = 0 THEN None ELSE L[l]
            /\ Scanned(items, L, z, l, scan.left, scan.next)
            /\ scan.before = {L[k] : k \in (l + 1)..(scan.next - 1)}
            /\ scan.conflicting = {L[k] : k \in (scan.left + 1)..(scan.next - 1)}
  BY DEF StateSound, ScanSound
<1>3. s \in Slots /\ L \in Seq(DOMAIN items)
  BY <1>1, TypeFacts DEF StateSound
<1>4. \A i \in 1..Len(L) :
       /\ SameSlot(items, L[i], z) /\ L[i] # z
       /\ items[L[i]].origin # None => IsAt(L, items[L[i]].origin)
       /\ items[L[i]].right # None => IsAt(L, items[L[i]].right)
  BY <1>1, <1>3 DEF StateSound, ListsSound, SameSlot, IsAt
<1>5. \A i, j \in 1..Len(L) : i < j => Lt(T, L[i], L[j])
  BY <1>1, <1>3 DEF InOrder
<1>6. Scene(items, T, L, z, l)
  BY <1>1, <1>2, <1>3, <1>4, <1>5 DEF Scene, StateSound
<1> QED BY <1>2, <1>6

\* M is the list L with x inserted behind position p.
IsInserted(L, p, x, M) ==
  /\ Len(M) = Len(L) + 1 /\ M[p + 1] = x
  /\ \A i \in 1..p : M[i] = L[i]
  /\ \A i \in (p + 1)..Len(L) : M[i + 1] = L[i]

\* That is what InsertAt returns.
LEMMA Inserted ==
  ASSUME NEW D, NEW L \in Seq(D), NEW p \in 0..Len(L), NEW x \in D
  PROVE  /\ InsertAt(L, p + 1, x) \in Seq(D)
         /\ IsInserted(L, p, x, InsertAt(L, p + 1, x))
<1> DEFINE A == SubSeq(L, 1, p)
           B == SubSeq(L, p + 1, Len(L))
           M == InsertAt(L, p + 1, x)
<1>1. /\ A \in Seq(D) /\ Len(A) = p /\ \A i \in 1..p : A[i] = L[i]
  OBVIOUS
<1>2. /\ B \in Seq(D) /\ Len(B) = Len(L) - p
      /\ \A i \in 1..(Len(L) - p) : B[i] = L[p + i]
  OBVIOUS
<1>3. M = (A \o <<x>>) \o B
  <2>1. (p + 1) - 1 = p
    OBVIOUS
  <2> QED BY <2>1 DEF InsertAt
<1> HIDE DEF A, B, M
<1>4. /\ A \o <<x>> \in Seq(D) /\ Len(A \o <<x>>) = p + 1
      /\ (A \o <<x>>)[p + 1] = x
      /\ \A i \in 1..p : (A \o <<x>>)[i] = L[i]
  BY <1>1
<1>5. /\ M \in Seq(D) /\ Len(M) = Len(L) + 1
      /\ \A i \in 1..(p + 1) : M[i] = (A \o <<x>>)[i]
      /\ \A i \in 1..(Len(L) - p) : M[p + 1 + i] = B[i]
  BY <1>2, <1>3, <1>4
<1>6. ASSUME NEW i \in (p + 1)..Len(L) PROVE M[i + 1] = L[i]
  <2>1. i - p \in 1..(Len(L) - p)
    OBVIOUS
  <2>2. M[p + 1 + (i - p)] = L[p + (i - p)]
    BY <1>2, <1>5, <2>1
  <2> QED BY <2>2
<1>7. M[p + 1] = x /\ \A i \in 1..p : M[i] = L[i]
  BY <1>4, <1>5
<1>8. IsInserted(L, p, x, M)
  BY <1>5, <1>6, <1>7 DEF IsInserted
<1> QED BY <1>5, <1>8 DEF M

\* An insertion where x belongs keeps the list in order.
LEMMA SortedInserted ==
  ASSUME NEW T, Transitive(T),
         NEW D, NEW L \in Seq(D), NEW p \in 0..Len(L), NEW x \in D,
         \A i, j \in 1..Len(L) : i < j => Lt(T, L[i], L[j]),
         p > 0 => Lt(T, L[p], x), p < Len(L) => Lt(T, x, L[p + 1])
  PROVE  LET M == InsertAt(L, p + 1, x)
         IN \A i, j \in 1..Len(M) : i < j => Lt(T, M[i], M[j])
<1> DEFINE M == InsertAt(L, p + 1, x)
<1>1. /\ Len(M) = Len(L) + 1 /\ M[p + 1] = x
      /\ \A i \in 1..p : M[i] = L[i]
      /\ \A i \in (p + 1)..Len(L) : M[i + 1] = L[i]
  <2>1. IsInserted(L, p, x, M)
    BY Inserted, Zenon
  <2> QED BY <2>1 DEF IsInserted
<1>2. Len(L) \in Nat /\ p \in Nat
  OBVIOUS
<1> HIDE DEF M
<1>3. ASSUME NEW i \in 1..p PROVE Lt(T, L[i], x)
  <2>1. i = p \/ Lt(T, L[i], L[p])
    BY <1>2
  <2> QED BY <1>2, <2>1 DEF Transitive
<1>4. ASSUME NEW i \in (p + 1)..Len(L) PROVE Lt(T, x, L[i])
  <2>1. i = p + 1 \/ Lt(T, L[p + 1], L[i])
    BY <1>2
  <2> QED BY <1>2, <2>1 DEF Transitive
<1>5. ASSUME NEW i \in 1..Len(M)
      PROVE  \/ i \in 1..p /\ M[i] = L[i]
             \/ i = p + 1 /\ M[i] = x
             \/ i - 1 \in (p + 1)..Len(L) /\ M[i] = L[i - 1]
  <2>1. i \in 1..p \/ i = p + 1 \/ i - 1 \in (p + 1)..Len(L)
    BY <1>1, <1>2
  <2>2. (i - 1) + 1 = i
    OBVIOUS
  <2> QED BY <1>1, <2>1, <2>2
<1>6. ASSUME NEW i \in 1..Len(M), NEW j \in 1..Len(M), i < j PROVE Lt(T, M[i], M[j])
  <2>1. CASE i \in 1..p /\ M[i] = L[i]
    <3>1. CASE j \in 1..p /\ M[j] = L[j]
      BY <1>2, <1>6, <2>1, <3>1
    <3>2. CASE j = p + 1 /\ M[j] = x
      BY <1>3, <2>1, <3>2
    <3>3. CASE j - 1 \in (p + 1)..Len(L) /\ M[j] = L[j - 1]
      BY <1>3, <1>4, <2>1, <3>3
    <3> QED BY <1>5, <3>1, <3>2, <3>3
  <2>2. CASE i = p + 1 /\ M[i] = x
    <3>1. j - 1 \in (p + 1)..Len(L) /\ M[j] = L[j - 1]
      BY <1>2, <1>5, <1>6, <2>2
    <3> QED BY <1>4, <2>2, <3>1
  <2>3. CASE i - 1 \in (p + 1)..Len(L) /\ M[i] = L[i - 1]
    <3>1. j - 1 \in (p + 1)..Len(L) /\ M[j] = L[j - 1]
      BY <1>2, <1>5, <1>6, <2>3
    <3>2. i - 1 < j - 1 /\ i - 1 \in 1..Len(L) /\ j - 1 \in 1..Len(L)
      BY <1>2, <1>6, <2>3, <3>1
    <3> QED BY <2>3, <3>1, <3>2
  <2> QED BY <1>5, <2>1, <2>2, <2>3
<1> QED BY <1>6 DEF M

\* The lists after x was linked in: only one has changed.
LEMMA PlaceOrder ==
  ASSUME TypeOK, NEW r \in Replicas, NEW s \in Slots, NEW x, NEW p, Place(r, s, x, p)
  PROVE  /\ order'[r][s] = InsertAt(order[r][s], p + 1, x)
         /\ \A q \in Replicas, t \in Slots : q # r \/ t # s => order'[q][t] = order[q][t]
         /\ order' \in [Replicas -> [Slots -> {order'[q][t] : q \in Replicas, t \in Slots}]]
<1>1. order \in [Replicas -> [Slots -> Seq(DOMAIN items)]]
  BY DEF TypeOK
<1>2. order' = [order EXCEPT ![r] = [order[r] EXCEPT ![s] = InsertAt(order[r][s], p + 1, x)]]
  BY DEF Place
<1>3. order[r] \in [Slots -> Seq(DOMAIN items)]
  BY <1>1
<1>4. order'[r] = [order[r] EXCEPT ![s] = InsertAt(order[r][s], p + 1, x)]
  BY <1>1, <1>2
<1>5. \A q \in Replicas : q # r => order'[q] = order[q]
  BY <1>1, <1>2
<1>6. order'[r][s] = InsertAt(order[r][s], p + 1, x)
  BY <1>3, <1>4
<1>7. \A q \in Replicas, t \in Slots : q # r \/ t # s => order'[q][t] = order[q][t]
  BY <1>3, <1>4, <1>5
<1>8. DOMAIN order' = Replicas /\ \A q \in Replicas : DOMAIN order'[q] = Slots
  BY <1>1, <1>2, <1>3, <1>4, <1>5
<1>9. \A q \in Replicas : order'[q] = [t \in Slots |-> order'[q][t]]
  <2>1. order'[r] = [t \in Slots |-> order'[r][t]]
    BY <1>3, <1>4
  <2>2. \A q \in Replicas : order[q] = [t \in Slots |-> order[q][t]]
    BY <1>1
  <2> QED BY <1>5, <2>1, <2>2
<1>10. order' = [q \in Replicas |-> order'[q]]
  BY <1>1, <1>2
<1> QED BY <1>6, <1>7, <1>9, <1>10

\* What a new item changes about the lists, and what it keeps.
LEMMA Placed ==
  ASSUME TypeOK, ListsSound, NEW r \in Replicas, NEW s \in Slots,
         NEW p \in 0..Len(order[r][s]), NEW x, Place(r, s, x, p),
         DOMAIN items \subseteq DOMAIN items', \A i \in DOMAIN items : items'[i] = items[i],
         x \in DOMAIN items', items'[x].slot = s,
         items'[x].origin # None => IsAt(order[r][s], items'[x].origin),
         items'[x].right # None => IsAt(order[r][s], items'[x].right)
  PROVE  /\ order' \in [Replicas -> [Slots -> Seq(DOMAIN items')]]
         /\ deleted' \in [Replicas -> SUBSET DOMAIN items']
         /\ ListsSound'
         /\ \A q \in Replicas, t \in Slots : \A y : IsAt(order[q][t], y) => IsAt(order'[q][t], y)
         /\ IsAt(order'[r][s], x)
<1> DEFINE L == order[r][s]
           M == order'[r][s]
           E == DOMAIN items'
<1>0. \A q \in Replicas, t \in Slots :
        /\ order[q][t] \in Seq(DOMAIN items) /\ Len(order[q][t]) \in Nat
        /\ \A i \in 1..Len(order[q][t]) : order[q][t][i] \in DOMAIN items
  BY TypeFacts
<1>1. \A q \in Replicas, t \in Slots : order[q][t] \in Seq(E)
  BY <1>0
<1>4. p \in Nat /\ Len(L) \in Nat /\ p <= Len(L)
  BY <1>0
<1>2. /\ M \in Seq(E) /\ Len(M) = Len(L) + 1 /\ M[p + 1] = x
      /\ \A i \in 1..p : M[i] = L[i]
      /\ \A i \in (p + 1)..Len(L) : M[i + 1] = L[i]
  <2>1. M = InsertAt(L, p + 1, x)
    BY PlaceOrder
  <2>2. L \in Seq(E)
    BY <1>1
  <2>3. x \in E
    OBVIOUS
  <2> HIDE DEF L, M, E
  <2>4. p \in 0..Len(L)
    BY DEF L
  <2>5. M \in Seq(E) /\ IsInserted(L, p, x, M)
    BY <2>1, <2>2, <2>3, <2>4, Inserted, Zenon
  <2> QED BY <2>5 DEF IsInserted
<1>3. \A q \in Replicas, t \in Slots : q # r \/ t # s => order'[q][t] = order[q][t]
  BY PlaceOrder
<1> HIDE DEF L, M
<1>5. ASSUME NEW i \in 1..Len(M)
      PROVE  M[i] = x \/ \E j \in 1..Len(L) : M[i] = L[j]
  <2>1. CASE i \in 1..p
    BY <1>2, <1>4, <2>1
  <2>2. CASE i = p + 1
    BY <1>2, <2>2
  <2>3. CASE i > p + 1
    <3>1. i - 1 \in (p + 1)..Len(L) /\ (i - 1) + 1 = i /\ i - 1 \in 1..Len(L)
      BY <1>2, <1>4, <2>3
    <3> QED BY <1>2, <3>1
  <2> QED BY <1>2, <1>4, <2>1, <2>2, <2>3
<1>6. ASSUME NEW y, IsAt(L, y) PROVE IsAt(M, y)
  <2>1. PICK j \in 1..Len(L) : L[j] = y
    BY <1>6 DEF IsAt
  <2>2. CASE j \in 1..p
    BY <1>2, <1>4, <2>1, <2>2 DEF IsAt
  <2>3. CASE j \in (p + 1)..Len(L)
    <3>1. j + 1 \in 1..Len(M) /\ M[j + 1] = y
      BY <1>2, <1>4, <2>1, <2>3
    <3> QED BY <3>1 DEF IsAt
  <2> QED BY <1>4, <2>1, <2>2, <2>3
<1>7. IsAt(M, x)
  <2>1. p + 1 \in 1..Len(M)
    BY <1>2, <1>4
  <2> QED BY <1>2, <2>1 DEF IsAt
<1>8. \A q \in Replicas, t \in Slots : \A y : IsAt(order[q][t], y) => IsAt(order'[q][t], y)
  BY <1>3, <1>6 DEF L, M
<1>9. order' \in [Replicas -> [Slots -> Seq(E)]]
  <2>1. \A q \in Replicas, t \in Slots : order'[q][t] \in Seq(E)
    BY <1>1, <1>2, <1>3 DEF M
  <2> HIDE DEF E
  <2> QED BY <2>1, PlaceOrder
<1>10. deleted' \in [Replicas -> SUBSET E]
  <2>1. deleted \in [Replicas -> SUBSET E]
    BY DEF TypeOK
  <2>2. Overwritten(L, x, p) \subseteq E
    <3>1. p > 0 => p \in 1..Len(L)
      BY <1>4
    <3>2. p > 0 => L[p] \in E
      BY <1>0, <3>1 DEF L
    <3> QED BY <3>2 DEF Overwritten
  <2> HIDE DEF E
  <2> QED BY <2>1, <2>2 DEF Place, L
<1>11. ListsSound'
  <2> SUFFICES ASSUME NEW q \in Replicas, NEW t \in Slots, NEW i \in 1..Len(order'[q][t])
               PROVE  LET y == order'[q][t][i]
                      IN /\ items'[y].slot = t
                         /\ items'[y].origin # None => IsAt(order'[q][t], items'[y].origin)
                         /\ items'[y].right # None => IsAt(order'[q][t], items'[y].right)
    BY DEF ListsSound
  <2> DEFINE y == order'[q][t][i]
  <2>1. CASE \E j \in 1..Len(order[q][t]) : y = order[q][t][j]
    <3>1. PICK j \in 1..Len(order[q][t]) : y = order[q][t][j]
      BY <2>1
    <3>2. items'[y] = items[y]
      BY <1>0, <3>1
    <3>3. /\ items[y].slot = t
          /\ items[y].origin # None => IsAt(order[q][t], items[y].origin)
          /\ items[y].right # None => IsAt(order[q][t], items[y].right)
      BY <3>1 DEF ListsSound
    <3> QED BY <1>8, <3>2, <3>3
  <2>2. CASE q = r /\ t = s /\ y = x
    BY <1>6, <2>2 DEF L, M
  <2>3. CASE q # r \/ t # s
    BY <1>3, <2>1, <2>3
  <2> QED BY <1>5, <2>1, <2>2, <2>3 DEF L, M
<1> QED BY <1>7, <1>8, <1>9, <1>10, <1>11 DEF M

\* A replica's next identifier is new, and leaves no gap.
LEMMA NextIdFresh ==
  ASSUME StateSound, NEW r \in Replicas
  PROVE  \E n \in Nat :
           /\ NextId(r) = [client |-> r, clock |-> n]
           /\ NextId(r) \notin DOMAIN items
           /\ {i \in DOMAIN items : i.client = r} = {[client |-> r, clock |-> k] : k \in 0..(n - 1)}
<1> DEFINE Mine == {i \in DOMAIN items : i.client = r}
<1>1. PICK n \in Nat : Mine = {[client |-> r, clock |-> k] : k \in 0..(n - 1)}
  BY DEF StateSound, ClocksInUse
<1>2. Cardinality(Mine) = n
  <2> DEFINE f == [k \in 0..(n - 1) |-> [client |-> r, clock |-> k]]
  <2>1. f \in [0..(n - 1) -> Mine]
    BY <1>1
  <2>2. \A k \in 0..(n - 1) : f[k].clock = k
    OBVIOUS
  <2>3. \A i \in Mine : \E k \in 0..(n - 1) : f[k] = i
    BY <1>1
  <2> HIDE DEF f, Mine
  <2>4. f \in Bijection(0..(n - 1), Mine)
    <3>1. \A a, b \in 0..(n - 1) : f[a] = f[b] => a = b
      BY <2>2
    <3> QED BY <2>1, <2>3, <3>1 DEF Bijection, Injection, Surjection, IsInjective
  <2>5. Cardinality(Mine) = Cardinality(0..(n - 1))
    <3>1. IsFiniteSet(0..(n - 1))
      BY FS_Interval
    <3> QED BY <2>4, <3>1, FS_Bijection DEF ExistsBijection
  <2>6. Cardinality(0..(n - 1)) = n
    BY FS_Interval
  <2> QED BY <2>5, <2>6
<1>3. NextId(r) = [client |-> r, clock |-> n]
  BY <1>2 DEF NextId
<1>4. NextId(r) \notin Mine
  <2> SUFFICES ASSUME NextId(r) \in Mine PROVE FALSE
    OBVIOUS
  <2>1. PICK k \in 0..(n - 1) : NextId(r) = [client |-> r, clock |-> k]
    BY <1>1
  <2>2. NextId(r).clock = n /\ NextId(r).clock = k
    BY <1>3, <2>1
  <2> QED BY <2>2
<1>5. NextId(r) \notin DOMAIN items
  BY <1>3, <1>4
<1> QED BY <1>1, <1>3, <1>5

\* In a list in the order T, what comes later in T stands later.
LEMMA SortedPositions ==
  ASSUME NEW its, NEW T, Total(its, T), NEW L \in Seq(DOMAIN its),
         \A i, j \in 1..Len(L) : i < j => Lt(T, L[i], L[j])
  PROVE  /\ \A i, j \in 1..Len(L) : Lt(T, L[i], L[j]) => i < j
         /\ \A i, j \in 1..Len(L) : L[i] = L[j] => i = j
<1>1. /\ \A x, y, w : Lt(T, x, y) /\ Lt(T, y, w) => Lt(T, x, w)
      /\ \A x : ~Lt(T, x, x)
  BY DEF Total
<1>2. \A i, j \in 1..Len(L) : i = j \/ i < j \/ j < i
  OBVIOUS
<1> QED BY <1>1, <1>2

\* Two neighbours are origins for which the order has a place.
LEMMA NeighboursFit ==
  ASSUME StateSound, NEW T, Explains(items, T), InOrder(T),
         NEW r \in Replicas, NEW s \in Slots, NEW p \in 0..Len(order[r][s]),
         NEW o, o = IF p = 0 THEN None ELSE order[r][s][p],
         NEW R, R = IF p = Len(order[r][s]) THEN None ELSE order[r][s][p + 1]
  PROVE  /\ o # None => o \in DOMAIN items /\ items[o].slot = s /\ IsAt(order[r][s], o)
         /\ R # None => R \in DOMAIN items /\ items[R].slot = s /\ IsAt(order[r][s], R)
         /\ o # None /\ R # None => Lt(T, o, R)
         /\ R # None => ~RightOf(T, o, items[R].origin)
         /\ \A a \in DOMAIN items :
              a.client = r /\ items[a].slot = s /\ items[a].origin = o =>
                R # None /\ Leq(T, R, a)
<1> DEFINE L == order[r][s]
<1>1. /\ L \in Seq(DOMAIN items) /\ Len(L) \in Nat
      /\ \A i \in 1..Len(L) : L[i] \in DOMAIN items /\ L[i] # None
  BY TypeFacts DEF StateSound
<1>2. \A i, j \in 1..Len(L) : i < j => Lt(T, L[i], L[j])
  BY DEF InOrder
<1>3. \A i \in 1..Len(L) :
        /\ items[L[i]].slot = s
        /\ items[L[i]].origin # None => IsAt(L, items[L[i]].origin)
  BY DEF StateSound, ListsSound
<1> HIDE DEF L
<1>4. /\ \A i, j \in 1..Len(L) : Lt(T, L[i], L[j]) => i < j
      /\ \A i, j \in 1..Len(L) : L[i] = L[j] => i = j
  BY <1>1, <1>2, SortedPositions DEF Explains
<1>5. /\ p \in Nat /\ p <= Len(L)
      /\ p = 0 => o = None
      /\ p # 0 => p \in 1..Len(L) /\ o = L[p] /\ o # None
      /\ p = Len(L) => R = None
      /\ p # Len(L) => p + 1 \in 1..Len(L) /\ R = L[p + 1] /\ R # None
  BY <1>1 DEF L
<1>6. o # None => o \in DOMAIN items /\ items[o].slot = s /\ IsAt(L, o)
  BY <1>1, <1>3, <1>5 DEF IsAt
<1>7. R # None => R \in DOMAIN items /\ items[R].slot = s /\ IsAt(L, R)
  BY <1>1, <1>3, <1>5 DEF IsAt
<1>8. o # None /\ R # None => Lt(T, o, R)
  BY <1>2, <1>5
<1>9. ASSUME R # None, RightOf(T, o, items[R].origin) PROVE FALSE
  <2>1. p + 1 \in 1..Len(L) /\ R = L[p + 1]
    BY <1>5, <1>9
  <2>2. items[R].origin # None
    BY <1>9 DEF RightOf
  <2>3. PICK j \in 1..Len(L) : L[j] = items[R].origin
    BY <1>3, <2>1, <2>2 DEF IsAt
  <2>4. Lt(T, L[j], L[p + 1])
    BY <1>7, <1>9, <2>1, <2>2, <2>3 DEF Explains, Between
  <2>5. j < p + 1
    BY <1>4, <2>1, <2>4
  <2>6. p # 0 /\ o # None
    BY <1>5, <2>5
  <2>7. Lt(T, L[p], L[j])
    BY <1>5, <1>9, <2>3, <2>6 DEF RightOf
  <2>8. p < j
    BY <1>4, <1>5, <2>6, <2>7
  <2> QED BY <1>5, <2>5, <2>8
<1>10. ASSUME NEW a \in DOMAIN items, a.client = r, items[a].slot = s, items[a].origin = o
       PROVE  R # None /\ Leq(T, R, a)
  <2>1. PICK j \in 1..Len(L) : L[j] = a
    BY <1>10 DEF StateSound, OwnHere, IsAt, L
  <2>2. p < j
    <3>1. CASE p = 0
      BY <3>1
    <3>2. CASE p # 0
      <4>1. Lt(T, L[p], L[j])
        BY <1>5, <1>10, <2>1, <3>2 DEF Explains, Between
      <4> QED BY <1>4, <1>5, <3>2, <4>1
    <3> QED BY <3>1, <3>2
  <2>3. p # Len(L) /\ (p + 1 = j \/ p + 1 < j)
    BY <1>5, <2>2
  <2> QED BY <1>2, <1>5, <2>1, <2>3 DEF Leq
<1> QED BY <1>6, <1>7, <1>8, <1>9, <1>10 DEF L

\* Linking an item in where the order wants it keeps every list in order.
LEMMA PlacedInOrder ==
  ASSUME TypeOK, NEW r \in Replicas, NEW s \in Slots,
         NEW p \in 0..Len(order[r][s]), NEW x, Place(r, s, x, p),
         NEW T, InOrder(T), NEW U, Extends(T, U), Transitive(U),
         p > 0 => Lt(U, order[r][s][p], x),
         p < Len(order[r][s]) => Lt(U, x, order[r][s][p + 1])
  PROVE  \A q \in Replicas, t \in Slots : \A i, j \in 1..Len(order'[q][t]) :
           i < j => Lt(U, order'[q][t][i], order'[q][t][j])
<1> DEFINE L == order[r][s]
           D == DOMAIN items \cup {x}
<1>1. L \in Seq(D)
  BY TypeFacts
<1>2. \A q \in Replicas, t \in Slots : \A i, j \in 1..Len(order[q][t]) :
        i < j => Lt(U, order[q][t][i], order[q][t][j])
  BY DEF InOrder, Extends
<1>3. order'[r][s] = InsertAt(L, p + 1, x)
  BY PlaceOrder
<1>4. \A i, j \in 1..Len(L) : i < j => Lt(U, L[i], L[j])
  BY <1>2
<1>5. x \in D /\ p \in 0..Len(L)
  OBVIOUS
<1>6. (p > 0 => Lt(U, L[p], x)) /\ (p < Len(L) => Lt(U, x, L[p + 1]))
  OBVIOUS
<1> HIDE DEF D, L
<1>7. \A i, j \in 1..Len(InsertAt(L, p + 1, x)) :
        i < j => Lt(U, InsertAt(L, p + 1, x)[i], InsertAt(L, p + 1, x)[j])
  BY <1>1, <1>4, <1>5, <1>6, SortedInserted, Zenon
<1>8. ASSUME NEW q \in Replicas, NEW t \in Slots
      PROVE  \A i, j \in 1..Len(order'[q][t]) :
               i < j => Lt(U, order'[q][t][i], order'[q][t][j])
  <2>1. CASE q = r /\ t = s
    BY <1>3, <1>7, <2>1
  <2>2. CASE q # r \/ t # s
    <3>1. order'[q][t] = order[q][t]
      BY <2>2, PlaceOrder
    <3> QED BY <1>2, <3>1
  <2> QED BY <2>1, <2>2
<1> QED BY <1>8

\* A local insertion.
LEMMA CreateKeeps ==
  ASSUME Inv, Idle, NEW r \in Replicas, NEW s \in Slots, NEW p \in 0..Len(order[r][s]),
         Create(r, s, p)
  PROVE  Inv'
<1> DEFINE L == order[r][s]
           o == IF p = 0 THEN None ELSE L[p]
           R == IF p = Len(L) THEN None ELSE L[p + 1]
           x == NextId(r)
           item == [slot |-> s, origin |-> o, right |-> R]
           new == [i \in DOMAIN items \cup {x} |-> IF i = x THEN item ELSE items[i]]
<1>0. PICK T : Explains(items, T) /\ InOrder(T)
  BY DEF Inv
<1>1. StateSound /\ TypeOK /\ ItemsSound(items) /\ ListsSound /\ OwnHere
  BY DEF Inv, StateSound
<1>2. /\ x.clock < MaxItems /\ items' = new /\ Place(r, s, x, p)
      /\ scan' = scan /\ removed' = removed
  BY DEF Create
<1>3. PICK n \in Nat :
        /\ x = [client |-> r, clock |-> n] /\ x \notin DOMAIN items
        /\ {i \in DOMAIN items : i.client = r} = {[client |-> r, clock |-> k] : k \in 0..(n - 1)}
  BY <1>1, NextIdFresh
<1>4. /\ o # None => o \in DOMAIN items /\ items[o].slot = s /\ IsAt(L, o)
      /\ R # None => R \in DOMAIN items /\ items[R].slot = s /\ IsAt(L, R)
      /\ o # None /\ R # None => Lt(T, o, R)
      /\ R # None => ~RightOf(T, o, items[R].origin)
      /\ \A a \in DOMAIN items :
           a.client = r /\ items[a].slot = s /\ items[a].origin = o =>
             R # None /\ Leq(T, R, a)
  <2> HIDE DEF o, R
  <2> QED BY <1>0, <1>1, NeighboursFit DEF o, R
<1>5. x \in Ids /\ x.client = r /\ x.client \in Int /\ x # None
  <2>1. n < MaxItems /\ MaxItems \in Nat
    BY <1>2, <1>3, BoundsAssumption
  <2>2. n \in 0..(MaxItems - 1)
    BY <2>1
  <2>3. r \in Nat
    BY ReplicasAssumption
  <2>4. x.client = r
    BY <1>3
  <2>5. x.client # None.client
    <3>1. None.client = -1
      BY DEF None
    <3> QED BY <2>3, <2>4, <3>1
  <2> QED BY <1>3, <2>2, <2>3, <2>4, <2>5 DEF Ids
<1> HIDE DEF x, o, R
<1>6. /\ DOMAIN items' = DOMAIN items \cup {x}
      /\ items'[x] = item /\ \A i \in DOMAIN items : items'[i] = items[i]
  BY <1>2, <1>3
<1>7. item \in Items
  <2>1. o \in Ids \cup {None} /\ R \in Ids \cup {None}
    BY <1>1, <1>4 DEF TypeOK
  <2> QED BY <2>1 DEF Items
<1>8. /\ item.slot = s /\ item.origin = o /\ item.right = R
  OBVIOUS
<1> HIDE DEF item
<1>9. /\ order' \in [Replicas -> [Slots -> Seq(DOMAIN items')]]
      /\ deleted' \in [Replicas -> SUBSET DOMAIN items']
      /\ ListsSound'
      /\ \A q \in Replicas, t \in Slots : \A y : IsAt(order[q][t], y) => IsAt(order'[q][t], y)
      /\ IsAt(order'[r][s], x)
  <2>1. DOMAIN items \subseteq DOMAIN items' /\ x \in DOMAIN items' /\ items'[x].slot = s
    BY <1>6, <1>8
  <2>2. /\ items'[x].origin # None => IsAt(order[r][s], items'[x].origin)
        /\ items'[x].right # None => IsAt(order[r][s], items'[x].right)
    BY <1>4, <1>6, <1>8
  <2> QED BY <1>1, <1>2, <1>6, <2>1, <2>2, Placed
<1>10. TypeOK'
  <2>1. DOMAIN items' \subseteq Ids
    BY <1>1, <1>5, <1>6 DEF TypeOK
  <2>2. items' \in [DOMAIN items' -> Items]
    <3>1. \A i \in DOMAIN items' : items'[i] \in Items
      BY <1>1, <1>6, <1>7 DEF TypeOK
    <3>2. items' = [i \in DOMAIN items' |-> items'[i]]
      BY <1>2
    <3> QED BY <3>1, <3>2
  <2>3. scan' \in Scans \cup {NoScan} /\ removed' \subseteq DOMAIN items'
    BY <1>1, <1>2, <1>6 DEF TypeOK
  <2> QED BY <1>9, <2>1, <2>2, <2>3 DEF TypeOK
<1>11. ItemsSound(items')
  <2> SUFFICES ASSUME NEW y \in DOMAIN items'
               PROVE  /\ y # None /\ y.client \in Int
                      /\ items'[y].origin # None =>
                           items'[y].origin \in DOMAIN items' /\ SameSlot(items', y, items'[y].origin)
                      /\ items'[y].right # None =>
                           items'[y].right \in DOMAIN items' /\ SameSlot(items', y, items'[y].right)
    BY DEF ItemsSound
  <2>1. CASE y = x
    BY <1>4, <1>5, <1>6, <1>8, <2>1 DEF SameSlot
  <2>2. CASE y \in DOMAIN items
    BY <1>1, <1>6, <2>2 DEF ItemsSound, SameSlot
  <2> QED BY <1>6, <2>1, <2>2
<1>12. IsFiniteSet(DOMAIN items')
  BY <1>1, <1>6, FS_AddElement DEF StateSound
<1>13. ClocksInUse'
  <2> SUFFICES ASSUME NEW q \in Replicas
               PROVE  \E m \in Nat : {i \in DOMAIN items' : i.client = q}
                                       = {[client |-> q, clock |-> k] : k \in 0..(m - 1)}
    BY DEF ClocksInUse
  <2>1. CASE q = r
    <3>1. {i \in DOMAIN items' : i.client = r}
            = {[client |-> r, clock |-> k] : k \in 0..(n - 1)} \cup {x}
      BY <1>3, <1>5, <1>6
    <3>2. \A k : k \in 0..((n + 1) - 1) <=> k \in 0..(n - 1) \/ k = n
      OBVIOUS
    <3>3. {[client |-> r, clock |-> k] : k \in 0..((n + 1) - 1)}
            = {[client |-> r, clock |-> k] : k \in 0..(n - 1)} \cup {x}
      BY <1>3, <3>2
    <3>4. n + 1 \in Nat
      OBVIOUS
    <3> WITNESS n + 1 \in Nat
    <3> QED BY <2>1, <3>1, <3>3
  <2>2. CASE q # r
    <3>1. {i \in DOMAIN items' : i.client = q} = {i \in DOMAIN items : i.client = q}
      BY <1>5, <1>6, <2>2
    <3> QED BY <1>1, <3>1 DEF StateSound, ClocksInUse
  <2> QED BY <2>1, <2>2
<1>14. OwnHere'
  <2> SUFFICES ASSUME NEW y \in DOMAIN items'
               PROVE  IsAt(order'[y.client][items'[y].slot], y)
    BY DEF OwnHere
  <2>1. CASE y = x
    BY <1>5, <1>6, <1>8, <1>9, <2>1
  <2>2. CASE y \in DOMAIN items
    <3>1. y.client \in Replicas /\ items[y].slot \in Slots
      BY <1>1, <2>2, TypeFacts
    <3> QED BY <1>1, <1>6, <1>9, <2>2, <3>1 DEF OwnHere
  <2> QED BY <1>6, <2>1, <2>2
<1>15. Idle'
  BY <1>2 DEF Idle
<1>16. PICK U : Explains(items', U) /\ Extends(T, U)
  <2>1. \A a \in DOMAIN items :
          a.client = x.client /\ items[a].slot = s /\ items[a].origin = o =>
            R # None /\ Leq(T, R, a)
    BY <1>4, <1>5
  <2>2. /\ o # None => o \in DOMAIN items /\ items[o].slot = s
        /\ R # None => R \in DOMAIN items /\ items[R].slot = s
    BY <1>4
  <2>3. items'[x].slot = s /\ items'[x].origin = o /\ items'[x].right = R
    BY <1>6, <1>8
  <2> QED BY <1>0, <1>1, <1>3, <1>4, <1>5, <1>6, <2>1, <2>2, <2>3, OrderExtends
<1>17. InOrder(U)'
  <2>1. Transitive(U)
    BY <1>16 DEF Explains, Total, Transitive
  <2>2. p > 0 => Lt(U, L[p], x)
    <3> SUFFICES ASSUME p > 0 PROVE Lt(U, L[p], x)
      OBVIOUS
    <3>1. o = L[p] /\ p \in 1..Len(L)
      BY DEF o
    <3>2. o # None
      <4>1. L[p] \in DOMAIN items
        BY <1>1, <3>1, TypeFacts
      <4> QED BY <1>1, <3>1, <4>1 DEF ItemsSound
    <3> QED BY <1>6, <1>8, <1>16, <3>1, <3>2 DEF Explains, Between
  <2>3. p < Len(L) => Lt(U, x, L[p + 1])
    <3> SUFFICES ASSUME p < Len(L) PROVE Lt(U, x, L[p + 1])
      OBVIOUS
    <3>0. Len(L) \in Nat
      BY <1>1, TypeFacts
    <3>1. R = L[p + 1] /\ p + 1 \in 1..Len(L)
      BY <3>0 DEF R
    <3>2. R # None
      <4>1. L[p + 1] \in DOMAIN items
        BY <1>1, <3>1, TypeFacts
      <4> QED BY <1>1, <3>1, <4>1 DEF ItemsSound
    <3> QED BY <1>6, <1>8, <1>16, <3>1, <3>2 DEF Explains, Between
  <2>4. \A q \in Replicas, t \in Slots : \A i, j \in 1..Len(order'[q][t]) :
          i < j => Lt(U, order'[q][t][i], order'[q][t][j])
    BY <1>0, <1>1, <1>2, <1>16, <2>1, <2>2, <2>3, PlacedInOrder
  <2> QED BY <1>15, <2>4 DEF InOrder
<1>18. StateSound'
  BY <1>9, <1>10, <1>11, <1>12, <1>13, <1>14, <1>15 DEF StateSound, ScanSound
<1> QED BY <1>16, <1>17, <1>18 DEF Inv

\* Nothing but the marks of deletion changes.
LEMMA MarksKeep ==
  ASSUME Inv, UNCHANGED <<items, order, scan>>,
         deleted' \in [Replicas -> SUBSET DOMAIN items], removed' \subseteq DOMAIN items
  PROVE  Inv'
<1>1. PICK T : Explains(items, T) /\ InOrder(T)
  BY DEF Inv
<1>2. TypeOK'
  BY DEF Inv, StateSound, TypeOK
<1>3. StateSound'
  <2>1. /\ ItemsSound(items) /\ IsFiniteSet(DOMAIN items)
        /\ ClocksInUse /\ ListsSound /\ OwnHere /\ ScanSound
    BY DEF Inv, StateSound
  <2>2. ItemsSound(items') /\ IsFiniteSet(DOMAIN items')
    BY <2>1
  <2>3. ClocksInUse'
    BY <2>1 DEF ClocksInUse
  <2>4. ListsSound'
    BY <2>1 DEF ListsSound
  <2>5. OwnHere'
    BY <2>1 DEF OwnHere
  <2>6. ScanSound'
    BY <2>1 DEF ScanSound, Idle
  <2> QED BY <1>2, <2>2, <2>3, <2>4, <2>5, <2>6 DEF StateSound
<1>4. InOrder(T)'
  BY <1>1 DEF InOrder, Idle
<1>5. Explains(items', T)
  BY <1>1
<1> QED BY <1>3, <1>4, <1>5 DEF Inv

\* An integration starts or goes on: only the scan changes.
LEMMA ScanMoves ==
  ASSUME Inv, UNCHANGED <<items, order, deleted, removed>>, scan' \in Scans, ScanSound',
         NEW T, Explains(items, T), InOrder(T),
         scan'.left > 0 =>
           Lt(T, order[scan'.replica][items[scan'.item].slot][scan'.left], scan'.item)
  PROVE  Inv'
<1>1. TypeOK'
  BY DEF Inv, StateSound, TypeOK
<1>2. StateSound'
  <2>1. /\ ItemsSound(items) /\ IsFiniteSet(DOMAIN items)
        /\ ClocksInUse /\ ListsSound /\ OwnHere
    BY DEF Inv, StateSound
  <2>2. ItemsSound(items') /\ IsFiniteSet(DOMAIN items')
    BY <2>1
  <2>3. ClocksInUse'
    BY <2>1 DEF ClocksInUse
  <2>4. ListsSound'
    BY <2>1 DEF ListsSound
  <2>5. OwnHere'
    BY <2>1 DEF OwnHere
  <2> QED BY <1>1, <2>2, <2>3, <2>4, <2>5 DEF StateSound
<1>3. InOrder(T)'
  BY DEF InOrder
<1> QED BY <1>2, <1>3 DEF Inv

\* A user deletes.
LEMMA DeleteKeeps == ASSUME Inv, NEW r \in Replicas, Delete(r) PROVE Inv'
<1>1. PICK s \in DeleteFrom : \E p \in 1..Len(order[r][s]) :
        /\ deleted' = [deleted EXCEPT ![r] = @ \cup {order[r][s][p]}]
        /\ removed' = removed \cup {order[r][s][p]}
  BY DEF Delete
<1>2. PICK p \in 1..Len(order[r][s]) :
        /\ deleted' = [deleted EXCEPT ![r] = @ \cup {order[r][s][p]}]
        /\ removed' = removed \cup {order[r][s][p]}
  BY <1>1
<1>3. order[r][s][p] \in DOMAIN items
  <2>1. s \in Slots
    BY SlotsAssumption DEF Slots
  <2> QED BY <2>1, TypeFacts DEF Inv, StateSound
<1>4. /\ deleted' \in [Replicas -> SUBSET DOMAIN items]
      /\ removed' \subseteq DOMAIN items
  BY <1>2, <1>3 DEF Inv, StateSound, TypeOK
<1> QED BY <1>4, MarksKeep DEF Delete

\* A deletion of another replica arrives.
LEMMA ReceiveDeleteKeeps == ASSUME Inv, NEW r \in Replicas, ReceiveDelete(r) PROVE Inv'
<1>0. PICK q \in Replicas : \E x \in deleted[q] :
        deleted' = [deleted EXCEPT ![r] = @ \cup {x}]
  BY DEF ReceiveDelete
<1>1. PICK x \in deleted[q] : deleted' = [deleted EXCEPT ![r] = @ \cup {x}]
  BY <1>0
<1>2. deleted' \in [Replicas -> SUBSET DOMAIN items] /\ removed' \subseteq DOMAIN items
  BY <1>1 DEF Inv, StateSound, TypeOK, ReceiveDelete
<1> QED BY <1>2, MarksKeep DEF ReceiveDelete

\* A remote item arrives.
LEMMA ReceiveKeeps == ASSUME Inv, NEW r \in Replicas, Receive(r) PROVE Inv'
<1>0. PICK x \in DOMAIN items \ Integrated(r) :
        /\ Present(r, items[x].right)
        /\ \E l \in 0..Len(order[r][items[x].slot]) :
             /\ items[x].origin = IF l = 0 THEN None ELSE order[r][items[x].slot][l]
             /\ scan' = [replica |-> r, item |-> x, left |-> l, next |-> l + 1,
                         before |-> {}, conflicting |-> {}]
  BY DEF Receive
<1>1. PICK l \in 0..Len(order[r][items[x].slot]) :
        /\ Present(r, items[x].right)
        /\ items[x].origin = IF l = 0 THEN None ELSE order[r][items[x].slot][l]
        /\ scan' = [replica |-> r, item |-> x, left |-> l, next |-> l + 1,
                    before |-> {}, conflicting |-> {}]
  BY <1>0
<1> DEFINE L == order[r][items[x].slot]
<1>2. StateSound /\ TypeOK /\ ItemsSound(items)
  BY DEF Inv, StateSound
<1>3. PICK T : Explains(items, T) /\ InOrder(T)
  BY DEF Inv
<1>4. L \in Seq(DOMAIN items) /\ Len(L) \in Nat /\ l \in Nat /\ l <= Len(L)
  BY <1>1, <1>2, TypeFacts
<1>5. ~IsAt(L, x)
  BY <1>1, <1>2, IntegratedIsAt
<1>6. ASSUME items[x].right # None PROVE IsAt(L, items[x].right)
  <2>1. items[x].right \in Integrated(r)
    BY <1>1, <1>6 DEF Present
  <2>2. items[x].right \in DOMAIN items /\ items[items[x].right].slot = items[x].slot
    BY <1>1, <1>2, <1>6 DEF ItemsSound, SameSlot
  <2> QED BY <1>2, <2>1, <2>2, IntegratedIsAt
<1>7. /\ scan'.replica = r /\ scan'.item = x /\ scan'.left = l /\ scan'.next = l + 1
      /\ scan'.before = {} /\ scan'.conflicting = {}
  BY <1>1
<1>8. scan' \in Scans
  <2>1. x \in Ids
    BY <1>1, <1>2 DEF TypeOK
  <2> QED BY <1>1, <1>4, <2>1 DEF Scans
<1>9. UNCHANGED <<items, order, deleted, removed>>
  BY DEF Receive
<1>10. Scanned(items, L, x, l, l, l + 1)
  BY <1>4 DEF Scanned
<1>11. {L[k] : k \in (l + 1)..((l + 1) - 1)} = {}
  BY <1>4
<1>12. ScanSound'
  <2> HIDE DEF L
  <2>1. /\ ~IsAt(L, x) /\ (items[x].right # None => IsAt(L, items[x].right))
        /\ items[x].origin = IF l = 0 THEN None ELSE L[l]
    BY <1>1, <1>5, <1>6 DEF L
  <2>2. \E m \in 0..Len(L) :
           /\ items[x].origin = IF m = 0 THEN None ELSE L[m]
           /\ Scanned(items, L, x, m, l, l + 1)
           /\ {} = {L[k] : k \in (m + 1)..((l + 1) - 1)}
           /\ {} = {L[k] : k \in (l + 1)..((l + 1) - 1)}
    BY <1>4, <1>10, <1>11, <2>1
  <2>3. order'[scan'.replica][items'[scan'.item].slot] = L
    BY <1>7, <1>9 DEF L
  <2> QED BY <1>1, <1>7, <1>9, <2>1, <2>2, <2>3 DEF ScanSound
<1>13. ASSUME l > 0 PROVE Lt(T, L[l], x)
  <2>1. L[l] \in DOMAIN items /\ items[x].origin = L[l] /\ L[l] # None
    BY <1>1, <1>2, <1>4, <1>13 DEF ItemsSound
  <2> QED BY <1>1, <1>3, <2>1 DEF Explains, Between
<1> QED BY <1>3, <1>7, <1>8, <1>9, <1>12, <1>13, ScanMoves

\* The scan goes on: what it reads is a record with the locals of resolve_conflict.
LEMMA ScanFields ==
  ASSUME TypeOK, ~Idle
  PROVE  /\ scan \in Scans
         /\ scan.left \in Nat /\ scan.next \in Nat
         /\ scan.before \in SUBSET Ids /\ scan.conflicting \in SUBSET Ids
<1>1. scan \in Scans
  BY DEF TypeOK, Idle
<1> QED BY <1>1 DEF Scans

\* What makes the next state of the scan sound.
LEMMA ScanSoundNext ==
  ASSUME NEW L, NEW z, NEW l \in 0..Len(L),
         scan'.item = z, order'[scan'.replica][items'[z].slot] = L,
         scan'.replica \in Replicas, z \in DOMAIN items', ~IsAt(L, z),
         items'[z].right # None => IsAt(L, items'[z].right),
         items'[z].origin = IF l = 0 THEN None ELSE L[l],
         Scanned(items', L, z, l, scan'.left, scan'.next),
         scan'.before = {L[k] : k \in (l + 1)..(scan'.next - 1)},
         scan'.conflicting = {L[k] : k \in (scan'.left + 1)..(scan'.next - 1)}
  PROVE  ScanSound'
BY DEF ScanSound

\* The scan goes past an item that goes before: `left` follows.
LEMMA AdoptKeeps == ASSUME Inv, ScanAdopt PROVE Inv'
<1> DEFINE z == scan.item
           n == scan.next
           L == order[scan.replica][items[z].slot]
<1>1. PICK T : Explains(items, T) /\ InOrder(T)
  BY DEF Inv
<1>2. StateSound /\ TypeOK /\ ~Idle
  BY DEF Inv, StateSound, ScanAdopt
<1>3. PICK l \in 0..Len(L) :
        /\ Scene(items, T, L, z, l) /\ Scanned(items, L, z, l, scan.left, n)
        /\ scan.before = {L[k] : k \in (l + 1)..(n - 1)}
        /\ scan.conflicting = {L[k] : k \in (scan.left + 1)..(n - 1)}
  BY <1>1, <1>2, TheScene
<1>4. /\ scan' = [scan EXCEPT !.left = n, !.next = n + 1,
                              !.before = scan.before \cup {L[n]}, !.conflicting = {}]
      /\ UNCHANGED <<items, order, deleted, removed>>
  BY DEF ScanAdopt, Before, Other, List, Self
<1>5. n <= Len(L) /\ L[n] # items[z].right
  BY DEF ScanAdopt, AtRightOrigin, Other, List, Self
<1>6. IF items[L[n]].origin = items[z].origin
      THEN L[n].client < z.client
      ELSE items[L[n]].origin \in (scan.before \cup {L[n]}) \ (scan.conflicting \cup {L[n]})
  BY DEF ScanAdopt, Adopts, SameOrigin, Before, Conflicting, Other, List, Self
<1>7. /\ scan.replica \in Replicas /\ z \in DOMAIN items
      /\ ~IsAt(L, z) /\ (items[z].right # None => IsAt(L, items[z].right))
      /\ items[z].origin = IF l = 0 THEN None ELSE L[l]
  BY <1>2, <1>3 DEF StateSound, ScanSound, Scene
<1>8. scan.left > 0 => Lt(T, L[scan.left], z)
  BY <1>1, <1>2 DEF InOrder
<1>9. /\ scan \in Scans /\ scan.left \in Nat /\ n \in Nat
      /\ scan.before \in SUBSET Ids
  BY <1>2, ScanFields
<1> HIDE DEF z, n, L
<1>10. L \in Seq(DOMAIN items)
  BY <1>3 DEF Scene
<1>11. /\ Len(L) \in Nat /\ l \in Nat /\ scan.left \in Nat /\ n \in Nat
       /\ l <= scan.left /\ scan.left < n /\ n > l /\ n \in 1..Len(L)
  BY <1>3, <1>5, <1>9, <1>10 DEF Scanned
<1>12. \A k \in (l + 1)..n : k \in (l + 1)..(n - 1) \/ k = n
  BY <1>11
<1>13. \A k \in (l + 1)..n : L[k] # items[z].right
  BY <1>3, <1>5, <1>12 DEF Scanned
<1>14. ASSUME items[L[n]].origin # items[z].origin
       PROVE  \E k \in (l + 1)..scan.left : L[k] = items[L[n]].origin
  <2>1. /\ items[L[n]].origin \in scan.before \cup {L[n]} /\ items[L[n]].origin # L[n]
        /\ items[L[n]].origin \notin scan.conflicting
    BY <1>6, <1>14
  <2>2. PICK k \in (l + 1)..(n - 1) : L[k] = items[L[n]].origin
    BY <1>3, <2>1
  <2>3. k \notin (scan.left + 1)..(n - 1)
    BY <1>3, <2>1, <2>2
  <2>4. k \in (l + 1)..scan.left
    BY <1>9, <1>11, <2>3
  <2> QED BY <2>2, <2>4
<1>15. Lt(T, L[n], z)
  <2>1. CASE items[L[n]].origin = items[z].origin
    BY <1>3, <1>6, <1>11, <1>13, <2>1, SmallerGoesBefore
  <2>2. CASE items[L[n]].origin # items[z].origin
    <3>1. PICK k \in (l + 1)..scan.left : L[k] = items[L[n]].origin
      BY <1>14, <2>2
    <3>2. k \in 1..Len(L) /\ k > l /\ (k = scan.left \/ k < scan.left)
      BY <1>9, <1>10, <1>11
    <3>3. scan.left \in 1..Len(L) /\ Lt(T, L[scan.left], z)
      BY <1>8, <1>9, <1>10, <1>11, <3>2
    <3>4. k < scan.left => Lt(T, L[k], L[scan.left])
      BY <1>3, <3>2, <3>3 DEF Scene
    <3>5. Lt(T, L[k], z)
      BY <1>1, <3>2, <3>3, <3>4 DEF Explains, Total
    <3> QED BY <1>3, <1>11, <3>1, <3>2, <3>5, DependentGoesBefore
  <2> QED BY <2>1, <2>2
<1>16. Scanned(items, L, z, l, n, n + 1)
  <2>1. n + 1 \in (l + 1)..(Len(L) + 1) /\ n \in l..((n + 1) - 1) /\ (n + 1) - 1 = n
    BY <1>11
  <2>2. ASSUME NEW k \in (l + 1)..n
        PROVE  items[L[k]].origin = items[z].origin
                 \/ \E j \in (l + 1)..n : L[j] = items[L[k]].origin
    <3>0. /\ \A j \in (l + 1)..scan.left : j \in (l + 1)..n
          /\ \A j \in (l + 1)..(n - 1) : j \in (l + 1)..n
      BY <1>11
    <3>1. CASE k = n
      BY <1>14, <3>0, <3>1
    <3>2. CASE k \in (l + 1)..(n - 1)
      BY <1>3, <3>0, <3>2 DEF Scanned
    <3> QED BY <1>12, <3>1, <3>2
  <2>3. (n + 1)..n = {}
    BY <1>11
  <2> QED BY <1>13, <2>1, <2>2, <2>3 DEF Scanned
<1>17. /\ scan'.replica = scan.replica /\ scan'.item = z /\ scan'.left = n
       /\ scan'.next = n + 1 /\ scan'.before = scan.before \cup {L[n]} /\ scan'.conflicting = {}
       /\ scan' \in Scans
  <2>1. L[n] \in Ids
    BY <1>2, <1>10, <1>11 DEF TypeOK
  <2>2. n + 1 \in Nat /\ scan.before \cup {L[n]} \in SUBSET Ids
    BY <1>9, <1>11, <2>1
  <2>3. scan' \in Scans
    BY <1>4, <1>9, <1>11, <2>1, <2>2 DEF Scans
  <2> QED BY <1>4, <1>9, <2>3 DEF Scans, z
<1>18. /\ scan'.before = {L[k] : k \in (l + 1)..((n + 1) - 1)}
       /\ scan'.conflicting = {L[k] : k \in (n + 1)..((n + 1) - 1)}
  <2>1. \A k : k \in (l + 1)..((n + 1) - 1) <=> k \in (l + 1)..(n - 1) \/ k = n
    BY <1>11
  <2>2. (n + 1)..((n + 1) - 1) = {}
    BY <1>11
  <2> QED BY <1>3, <1>17, <2>1, <2>2
<1>19. order'[scan'.replica][items'[scan'.item].slot] = L
  BY <1>4, <1>17 DEF L
<1>20. ScanSound'
  <2>1. l \in 0..Len(L)
    BY <1>10, <1>11
  <2>2. scan'.replica \in Replicas /\ z \in DOMAIN items' /\ scan'.item = z
    BY <1>4, <1>7, <1>17
  <2>3. /\ items'[z].origin = IF l = 0 THEN None ELSE L[l]
        /\ items'[z].right # None => IsAt(L, items'[z].right)
    BY <1>4, <1>7
  <2>4. Scanned(items', L, z, l, scan'.left, scan'.next)
    BY <1>4, <1>16, <1>17
  <2>5. /\ scan'.before = {L[k] : k \in (l + 1)..(scan'.next - 1)}
        /\ scan'.conflicting = {L[k] : k \in (scan'.left + 1)..(scan'.next - 1)}
    BY <1>17, <1>18
  <2>6. order'[scan'.replica][items'[z].slot] = L
    BY <1>17, <1>19
  <2> QED BY <1>7, <2>1, <2>2, <2>3, <2>4, <2>5, <2>6, ScanSoundNext
<1> QED BY <1>1, <1>4, <1>15, <1>17, <1>19, <1>20, ScanMoves

\* The scan goes past an item that decides nothing yet.
LEMMA PassKeeps == ASSUME Inv, ScanPass PROVE Inv'
<1> DEFINE z == scan.item
           n == scan.next
           L == order[scan.replica][items[z].slot]
<1>1. PICK T : Explains(items, T) /\ InOrder(T)
  BY DEF Inv
<1>2. StateSound /\ TypeOK /\ ~Idle
  BY DEF Inv, StateSound, ScanPass
<1>3. PICK l \in 0..Len(L) :
        /\ Scene(items, T, L, z, l) /\ Scanned(items, L, z, l, scan.left, n)
        /\ scan.before = {L[k] : k \in (l + 1)..(n - 1)}
        /\ scan.conflicting = {L[k] : k \in (scan.left + 1)..(n - 1)}
  BY <1>1, <1>2, TheScene
<1>4. /\ scan' = [scan EXCEPT !.next = n + 1, !.before = scan.before \cup {L[n]},
                              !.conflicting = scan.conflicting \cup {L[n]}]
      /\ UNCHANGED <<items, order, deleted, removed>>
  BY DEF ScanPass, Before, Conflicting, Other, List, Self
<1>5. n <= Len(L) /\ L[n] # items[z].right
  BY DEF ScanPass, AtRightOrigin, Other, List, Self
<1>6. IF items[L[n]].origin = items[z].origin
      THEN L[n].client >= z.client /\ items[L[n]].right # items[z].right
      ELSE items[L[n]].origin \in scan.conflicting \cup {L[n]}
  BY DEF ScanPass, Passes, SameOrigin, Conflicting, Other, List, Self
<1>7. /\ scan.replica \in Replicas /\ z \in DOMAIN items
      /\ ~IsAt(L, z) /\ (items[z].right # None => IsAt(L, items[z].right))
      /\ items[z].origin = IF l = 0 THEN None ELSE L[l]
  BY <1>2, <1>3 DEF StateSound, ScanSound, Scene
<1>8. scan.left > 0 => Lt(T, L[scan.left], z)
  BY <1>1, <1>2 DEF InOrder
<1>9. /\ scan \in Scans /\ scan.left \in Nat /\ n \in Nat
      /\ scan.before \in SUBSET Ids /\ scan.conflicting \in SUBSET Ids
  BY <1>2, ScanFields
<1> HIDE DEF z, n, L
<1>10. L \in Seq(DOMAIN items)
  BY <1>3 DEF Scene
<1>11. /\ Len(L) \in Nat /\ l \in Nat /\ scan.left \in Nat /\ n \in Nat
       /\ l <= scan.left /\ scan.left < n /\ n > l /\ n \in 1..Len(L)
  BY <1>3, <1>5, <1>9, <1>10 DEF Scanned
<1>12. \A k \in (l + 1)..n : k \in (l + 1)..(n - 1) \/ k = n
  BY <1>11
<1>13. \A k \in (l + 1)..n : L[k] # items[z].right
  BY <1>3, <1>5, <1>12 DEF Scanned
<1>14. ASSUME items[L[n]].origin # items[z].origin
       PROVE  \E k \in (scan.left + 1)..n : L[k] = items[L[n]].origin
  <2>1. items[L[n]].origin \in scan.conflicting \cup {L[n]}
    BY <1>6, <1>14
  <2>2. n \in (scan.left + 1)..n
    BY <1>9, <1>11
  <2>3. CASE items[L[n]].origin = L[n]
    BY <2>2, <2>3
  <2>4. CASE items[L[n]].origin \in scan.conflicting
    <3>1. PICK k \in (scan.left + 1)..(n - 1) : L[k] = items[L[n]].origin
      BY <1>3, <2>4
    <3>2. k \in (scan.left + 1)..n
      BY <1>9, <1>11
    <3> QED BY <3>1, <3>2
  <2> QED BY <2>1, <2>3, <2>4
<1>15. ASSUME items[L[n]].origin = items[z].origin
       PROVE  ~ (L[n].client < z.client) /\ items[L[n]].right # items[z].right
  <2>1. L[n].client \in Int /\ z.client \in Int
    BY <1>2, <1>7, <1>10, <1>11, TypeFacts
  <2> QED BY <1>6, <1>15, <2>1
<1>16. Scanned(items, L, z, l, scan.left, n + 1)
  <2>1. /\ n + 1 \in (l + 1)..(Len(L) + 1) /\ scan.left \in l..((n + 1) - 1)
        /\ (n + 1) - 1 = n
    BY <1>9, <1>11
  <2>2. ASSUME NEW k \in (l + 1)..n
        PROVE  items[L[k]].origin = items[z].origin
                 \/ \E j \in (l + 1)..n : L[j] = items[L[k]].origin
    <3>0. \A j \in (scan.left + 1)..n : j \in (l + 1)..n
      BY <1>9, <1>11
    <3>1. CASE k = n
      BY <1>14, <3>0, <3>1
    <3>2. CASE k \in (l + 1)..(n - 1)
      BY <1>3, <1>11, <3>2 DEF Scanned
    <3> QED BY <1>12, <3>1, <3>2
  <2>3. ASSUME NEW k \in (scan.left + 1)..n
        PROVE  IF items[L[k]].origin = items[z].origin
               THEN ~ (L[k].client < z.client) /\ items[L[k]].right # items[z].right
               ELSE \E j \in (scan.left + 1)..n : L[j] = items[L[k]].origin
    <3>1. CASE k = n
      BY <1>14, <1>15, <3>1
    <3>2. CASE k # n
      <4>1. k \in (scan.left + 1)..(n - 1)
        BY <1>9, <1>11, <3>2
      <4>2. \A j \in (scan.left + 1)..(n - 1) : j \in (scan.left + 1)..n
        BY <1>9, <1>11
      <4> QED BY <1>3, <4>1, <4>2 DEF Scanned
    <3> QED BY <3>1, <3>2
  <2> QED BY <1>13, <2>1, <2>2, <2>3 DEF Scanned
<1>17. /\ scan'.replica = scan.replica /\ scan'.item = z /\ scan'.left = scan.left
       /\ scan'.next = n + 1 /\ scan'.before = scan.before \cup {L[n]}
       /\ scan'.conflicting = scan.conflicting \cup {L[n]} /\ scan' \in Scans
  <2>1. L[n] \in Ids
    BY <1>2, <1>10, <1>11 DEF TypeOK
  <2>2. n + 1 \in Nat /\ scan.before \cup {L[n]} \in SUBSET Ids
    BY <1>9, <1>11, <2>1
  <2>3. scan' \in Scans
    BY <1>4, <1>9, <1>11, <2>1, <2>2 DEF Scans
  <2> QED BY <1>4, <1>9, <2>3 DEF Scans, z
<1>18. /\ scan'.before = {L[k] : k \in (l + 1)..((n + 1) - 1)}
       /\ scan'.conflicting = {L[k] : k \in (scan.left + 1)..((n + 1) - 1)}
  <2>1. \A k : k \in (l + 1)..((n + 1) - 1) <=> k \in (l + 1)..(n - 1) \/ k = n
    BY <1>11
  <2>2. \A k : k \in (scan.left + 1)..((n + 1) - 1)
                 <=> k \in (scan.left + 1)..(n - 1) \/ k = n
    BY <1>9, <1>11
  <2> QED BY <1>3, <1>17, <2>1, <2>2
<1>19. order'[scan'.replica][items'[scan'.item].slot] = L
  BY <1>4, <1>17 DEF L
<1>20. ScanSound'
  <2>1. l \in 0..Len(L)
    BY <1>10, <1>11
  <2>2. scan'.replica \in Replicas /\ z \in DOMAIN items' /\ scan'.item = z
    BY <1>4, <1>7, <1>17
  <2>3. /\ items'[z].origin = IF l = 0 THEN None ELSE L[l]
        /\ items'[z].right # None => IsAt(L, items'[z].right)
    BY <1>4, <1>7
  <2>4. Scanned(items', L, z, l, scan'.left, scan'.next)
    BY <1>4, <1>16, <1>17
  <2>5. /\ scan'.before = {L[k] : k \in (l + 1)..(scan'.next - 1)}
        /\ scan'.conflicting = {L[k] : k \in (scan'.left + 1)..(scan'.next - 1)}
    BY <1>17, <1>18
  <2>6. order'[scan'.replica][items'[z].slot] = L
    BY <1>17, <1>19
  <2> QED BY <1>7, <2>1, <2>2, <2>3, <2>4, <2>5, <2>6, ScanSoundNext
<1> QED BY <1>1, <1>4, <1>8, <1>17, <1>19, <1>20, ScanMoves

\* The scan ends, and the item is linked in behind `left`.
LEMMA LinkKeeps == ASSUME Inv, Link PROVE Inv'
<1> DEFINE z == scan.item
           n == scan.next
           p == scan.left
           r == scan.replica
           s == items[z].slot
           L == order[r][s]
<1>1. PICK T : Explains(items, T) /\ InOrder(T)
  BY DEF Inv
<1>2. StateSound /\ TypeOK /\ ItemsSound(items) /\ ListsSound /\ OwnHere /\ ~Idle
  BY DEF Inv, StateSound, Link
<1>3. PICK l \in 0..Len(L) :
        /\ Scene(items, T, L, z, l) /\ Scanned(items, L, z, l, p, n)
        /\ scan.before = {L[k] : k \in (l + 1)..(n - 1)}
        /\ scan.conflicting = {L[k] : k \in (p + 1)..(n - 1)}
  BY <1>1, <1>2, TheScene
<1>4. Place(r, s, z, p) /\ scan' = NoScan /\ items' = items /\ removed' = removed
  BY DEF Link, Self
<1>5. ~ (n <= Len(L) => L[n] = items[z].right) =>
        /\ IF items[L[n]].origin = items[z].origin
           THEN ~ (L[n].client < z.client)
           ELSE items[L[n]].origin \notin (scan.before \cup {L[n]}) \ (scan.conflicting \cup {L[n]})
        /\ IF items[L[n]].origin = items[z].origin
           THEN ~ (L[n].client >= z.client /\ items[L[n]].right # items[z].right)
           ELSE items[L[n]].origin \notin scan.conflicting \cup {L[n]}
  BY DEF Link, AtRightOrigin, Adopts, Passes, SameOrigin, Before, Conflicting, Other, List, Self
<1>6. /\ r \in Replicas /\ z \in DOMAIN items /\ s \in Slots
      /\ items[z].right # None => IsAt(L, items[z].right)
      /\ items[z].origin = IF l = 0 THEN None ELSE L[l]
  BY <1>2, <1>3, TypeFacts DEF StateSound, ScanSound, Scene
<1>7. p > 0 => Lt(T, L[p], z)
  BY <1>1, <1>2 DEF InOrder
<1>8. p \in Nat /\ n \in Nat
  BY <1>2, ScanFields
<1> HIDE DEF z, n, p, r, s, L
<1>9. L \in Seq(DOMAIN items)
  BY <1>3 DEF Scene
<1>10. /\ Len(L) \in Nat /\ l \in Nat /\ l <= p /\ p < n /\ n <= Len(L) + 1
       /\ p \in 0..Len(L)
  BY <1>3, <1>8, <1>9 DEF Scanned
<1>11. Ends(items, L, z, l, n)
  <2> SUFFICES ASSUME n <= Len(L), L[n] # items[z].right
               PROVE  \/ /\ items[L[n]].origin = items[z].origin
                         /\ ~ (L[n].client < z.client) /\ items[L[n]].right = items[z].right
                      \/ /\ items[L[n]].origin # items[z].origin
                         /\ \A j \in (l + 1)..(n - 1) : L[j] # items[L[n]].origin
    BY DEF Ends
  <2>1. CASE items[L[n]].origin = items[z].origin
    <3>1. L[n].client \in Int /\ z.client \in Int
      BY <1>2, <1>6, <1>8, <1>9, <1>10, TypeFacts
    <3> QED BY <1>5, <2>1, <3>1
  <2>2. CASE items[L[n]].origin # items[z].origin
    <3>1. items[L[n]].origin \notin scan.before
      BY <1>5, <2>2
    <3> QED BY <1>3, <2>2, <3>1
  <2> QED BY <2>1, <2>2
<1>12. ASSUME p < Len(L) PROVE Lt(T, z, L[p + 1])
  BY <1>3, <1>11, <1>12, Stopped
<1>13. \A q \in Replicas, t \in Slots : \A i, j \in 1..Len(order'[q][t]) :
         i < j => Lt(T, order'[q][t][i], order'[q][t][j])
  <2>1. Transitive(T) /\ Extends(T, T)
    BY <1>1 DEF Explains, Total, Transitive, Extends
  <2>2. /\ p > 0 => Lt(T, order[r][s][p], z)
        /\ p < Len(order[r][s]) => Lt(T, z, order[r][s][p + 1])
        /\ p \in 0..Len(order[r][s])
    BY <1>7, <1>10, <1>12 DEF L
  <2> QED BY <1>1, <1>2, <1>4, <1>6, <2>1, <2>2, PlacedInOrder
<1>14. /\ order' \in [Replicas -> [Slots -> Seq(DOMAIN items')]]
       /\ deleted' \in [Replicas -> SUBSET DOMAIN items']
       /\ ListsSound'
       /\ \A q \in Replicas, t \in Slots : \A y : IsAt(order[q][t], y) => IsAt(order'[q][t], y)
  <2>1. /\ DOMAIN items \subseteq DOMAIN items' /\ z \in DOMAIN items'
        /\ items'[z].slot = s /\ \A i \in DOMAIN items : items'[i] = items[i]
    BY <1>4, <1>6 DEF s
  <2>2. ASSUME items'[z].origin # None PROVE IsAt(order[r][s], items'[z].origin)
    <3>1. l \in 1..Len(L) /\ L[l] = items'[z].origin
      BY <1>4, <1>6, <1>10, <2>2
    <3> QED BY <3>1 DEF IsAt, L
  <2>3. items'[z].right # None => IsAt(order[r][s], items'[z].right)
    BY <1>4, <1>6 DEF L
  <2>4. p \in 0..Len(order[r][s])
    BY <1>10 DEF L
  <2> QED BY <1>2, <1>4, <1>6, <2>1, <2>2, <2>3, <2>4, Placed
<1>15. TypeOK'
  BY <1>2, <1>4, <1>14 DEF TypeOK
<1>16. OwnHere'
  <2> SUFFICES ASSUME NEW y \in DOMAIN items PROVE IsAt(order'[y.client][items[y].slot], y)
    BY <1>4 DEF OwnHere
  <2>1. y.client \in Replicas /\ items[y].slot \in Slots
    BY <1>2, TypeFacts
  <2> QED BY <1>2, <1>14, <2>1 DEF OwnHere
<1>17. Idle'
  BY <1>4 DEF Idle
<1>18. StateSound'
  BY <1>2, <1>4, <1>14, <1>15, <1>16, <1>17 DEF StateSound, ScanSound, ClocksInUse
<1>19. InOrder(T)'
  BY <1>13, <1>17 DEF InOrder
<1> QED BY <1>1, <1>4, <1>18, <1>19 DEF Inv

\* The first state.
LEMMA InitSound == Init => Inv
<1> SUFFICES ASSUME Init PROVE Inv
  OBVIOUS
<1>1. items = <<>> /\ DOMAIN items = {} /\ scan = NoScan
  BY DEF Init
<1>2. \A r \in Replicas, s \in Slots : order[r][s] = <<>>
  BY DEF Init
<1>3. TypeOK
  <2>1. items \in [DOMAIN items -> Items]
    BY <1>1
  <2>2. order \in [Replicas -> [Slots -> Seq(DOMAIN items)]]
    BY DEF Init
  <2> QED BY <1>1, <2>1, <2>2 DEF TypeOK, Init
<1>4. ItemsSound(items) /\ OwnHere /\ IsFiniteSet(DOMAIN items)
  BY <1>1, FS_EmptySet DEF ItemsSound, OwnHere
<1>5. ClocksInUse
  <2> SUFFICES ASSUME NEW r \in Replicas
               PROVE  \E n \in Nat : {i \in DOMAIN items : i.client = r}
                                       = {[client |-> r, clock |-> k] : k \in 0..(n - 1)}
    BY DEF ClocksInUse
  <2>1. 0..(0 - 1) = {}
    OBVIOUS
  <2> WITNESS 0 \in Nat
  <2> QED BY <1>1, <2>1
<1>6. ListsSound
  BY <1>2 DEF ListsSound
<1>7. ScanSound
  BY <1>1 DEF ScanSound, Idle
<1>8. Explains(items, {}) /\ InOrder({})
  <2>1. \A x, y : ~Lt({}, x, y)
    BY DEF Lt
  <2>2. Explains(items, {})
    BY <1>1, <2>1 DEF Explains, Total, Between, Nested, RightOuter, ByClient
  <2>3. InOrder({})
    BY <1>1, <1>2 DEF InOrder, Idle
  <2> QED BY <2>2, <2>3
<1> QED BY <1>3, <1>4, <1>5, <1>6, <1>7, <1>8 DEF Inv, StateSound

\* Every step keeps the invariant.
LEMMA NextKeeps == Inv /\ [Next]_vars => Inv'
<1> SUFFICES ASSUME Inv, [Next]_vars PROVE Inv'
  OBVIOUS
<1>1. ASSUME NEW r \in Replicas, InsertInList(r) PROVE Inv'
  <2>1. PICK s \in Lists : \E p \in 0..Len(order[r][s]) : Create(r, s, p)
    BY <1>1 DEF InsertInList
  <2>2. s \in Slots /\ Idle
    BY <1>1 DEF Slots, InsertInList
  <2> QED BY <2>1, <2>2, CreateKeeps
<1>2. ASSUME NEW r \in Replicas, InsertInMap(r) PROVE Inv'
  <2>1. PICK s \in Keys : Create(r, s, Len(order[r][s]))
    BY <1>2 DEF InsertInMap
  <2>2. s \in Slots /\ Idle
    BY <1>2 DEF Slots, InsertInMap
  <2>3. Len(order[r][s]) \in 0..Len(order[r][s])
    <3>1. Len(order[r][s]) \in Nat
      BY <2>2, TypeFacts DEF Inv, StateSound
    <3> QED BY <3>1
  <2> QED BY <2>1, <2>2, <2>3, CreateKeeps
<1>3. CASE UNCHANGED vars
  <2>1. /\ deleted' \in [Replicas -> SUBSET DOMAIN items] /\ removed' \subseteq DOMAIN items
        /\ UNCHANGED <<items, order, scan>>
    BY <1>3 DEF Inv, StateSound, TypeOK, vars
  <2> QED BY <2>1, MarksKeep
<1>4. CASE Next
  BY <1>1, <1>2, <1>4, DeleteKeeps, ReceiveDeleteKeeps, ReceiveKeeps, AdoptKeeps, PassKeeps,
     LinkKeeps DEF Next
<1> QED BY <1>3, <1>4

\* In every reachable state one order of all items explains every list: whatever has
\* arrived where, the lists are parts of it, and so is the place that resolve_conflict is
\* about to choose.
THEOREM OneOrderExplains == Spec => []Inv
<1>1. Init => Inv
  BY InitSound
<1>2. Inv /\ [Next]_vars => Inv'
  BY NextKeeps
<1> QED BY <1>1, <1>2, PTL DEF Spec

(***************************************************************************)
(* What the invariant says of the lists.                                   *)
(***************************************************************************)
\* What one replica shows, in terms of the order.
LEMMA ListFacts ==
  ASSUME StateSound, NEW T, Explains(items, T), InOrder(T), NEW r \in Replicas, NEW s \in Slots
  PROVE  LET L == order[r][s]
         IN /\ L \in Seq(DOMAIN items) /\ Len(L) \in Nat
            /\ \A i \in 1..Len(L) : L[i] \in DOMAIN items /\ L[i] # None
            /\ \A i, j \in 1..Len(L) : Lt(T, L[i], L[j]) => i < j
            /\ \A i, j \in 1..Len(L) : L[i] = L[j] => i = j
            /\ \A x, y : Precedes(L, x, y) => Lt(T, x, y)
            /\ \A x, y : IsAt(L, x) /\ IsAt(L, y) /\ Lt(T, x, y) => Precedes(L, x, y)
            /\ \A i \in 1..Len(L) :
                 /\ items[L[i]].slot = s
                 /\ items[L[i]].origin # None => IsAt(L, items[L[i]].origin)
                 /\ items[L[i]].right # None => IsAt(L, items[L[i]].right)
<1> DEFINE L == order[r][s]
<1>1. /\ L \in Seq(DOMAIN items) /\ Len(L) \in Nat
      /\ \A i \in 1..Len(L) : L[i] \in DOMAIN items /\ L[i] # None
  BY TypeFacts DEF StateSound
<1>2. \A i, j \in 1..Len(L) : i < j => Lt(T, L[i], L[j])
  BY DEF InOrder
<1>3. \A i \in 1..Len(L) :
        /\ items[L[i]].slot = s
        /\ items[L[i]].origin # None => IsAt(L, items[L[i]].origin)
        /\ items[L[i]].right # None => IsAt(L, items[L[i]].right)
  BY DEF StateSound, ListsSound
<1> HIDE DEF L
<1>4. /\ \A i, j \in 1..Len(L) : Lt(T, L[i], L[j]) => i < j
      /\ \A i, j \in 1..Len(L) : L[i] = L[j] => i = j
  BY <1>1, <1>2, SortedPositions DEF Explains
<1>5. \A x, y : Precedes(L, x, y) => Lt(T, x, y)
  BY <1>2 DEF Precedes
<1>6. \A x, y : IsAt(L, x) /\ IsAt(L, y) /\ Lt(T, x, y) => Precedes(L, x, y)
  BY <1>4 DEF Precedes, IsAt
<1> QED BY <1>1, <1>3, <1>4, <1>5, <1>6 DEF L

\* A set of created items that is not empty has a first one in the order.
LEMMA FirstItem ==
  ASSUME NEW its, NEW T, Total(its, T), IsFiniteSet(DOMAIN its),
         NEW s, NEW C, C \subseteq {x \in DOMAIN its : its[x].slot = s}, C # {}
  PROVE  \E x \in C : \A y \in C : ~Lt(T, y, x)
<1> DEFINE Below(x) == {y \in C : Lt(T, y, x)}
           Sizes == {Cardinality(Below(x)) : x \in C}
<1>1. \A x : IsFiniteSet(Below(x)) /\ Cardinality(Below(x)) \in Nat
  <2> TAKE x
  <2>1. Below(x) \subseteq DOMAIN its
    OBVIOUS
  <2>2. IsFiniteSet(Below(x))
    BY <2>1, FS_Subset
  <2> QED BY <2>2, FS_CardinalityType
<1>2. Sizes \in SUBSET Nat /\ Sizes # {}
  BY <1>1
<1>3. PICK m \in Sizes : \A k \in Sizes : m <= k
  <2> HIDE DEF Sizes
  <2> QED BY <1>2, LeastElement
<1>4. PICK x \in C : m = Cardinality(Below(x))
  OBVIOUS
<1>5. ASSUME NEW y \in C, Lt(T, y, x) PROVE FALSE
  <2>1. Below(y) \subseteq Below(x) /\ y \in Below(x) /\ y \notin Below(y)
    BY <1>5 DEF Total
  <2>2. Cardinality(Below(y)) < Cardinality(Below(x))
    <3>1. Below(y) # Below(x)
      BY <2>1
    <3> HIDE DEF Below
    <3> QED BY <1>1, <2>1, <3>1, FS_Subset
  <2>3. m <= Cardinality(Below(y))
    BY <1>3
  <2> HIDE DEF Below
  <2>4. PICK a \in Nat : a = Cardinality(Below(x))
    BY <1>1
  <2>5. PICK b \in Nat : b = Cardinality(Below(y))
    BY <1>1
  <2>6. b < a /\ m = a /\ m <= b
    BY <1>4, <2>2, <2>3, <2>4, <2>5
  <2> QED BY <2>6
<1> QED BY <1>5

\* integrate_item puts an item into the list it was created in, once, and between its
\* origins, at whatever replica and whatever was inserted there before it arrived.
THEOREM ItemsWellPlaced == Spec => []WellPlaced
<1>1. Inv => WellPlaced
  <2> SUFFICES ASSUME Inv PROVE WellPlaced
    OBVIOUS
  <2>1. PICK T : Explains(items, T) /\ InOrder(T)
    BY DEF Inv
  <2>2. StateSound
    BY DEF Inv
  <2>3. ASSUME NEW r \in Replicas, NEW s \in Slots, NEW i \in 1..Len(order[r][s])
        PROVE  LET list == order[r][s]
               IN /\ items[list[i]].slot = s
                  /\ \A j \in 1..Len(list) : list[i] = list[j] => i = j
                  /\ items[list[i]].origin # None => Precedes(list, items[list[i]].origin, list[i])
                  /\ items[list[i]].right # None => Precedes(list, list[i], items[list[i]].right)
    <3> DEFINE L == order[r][s]
    <3>1. /\ L[i] \in DOMAIN items
          /\ items[L[i]].slot = s
          /\ \A j \in 1..Len(L) : L[i] = L[j] => i = j
          /\ items[L[i]].origin # None => IsAt(L, items[L[i]].origin)
          /\ items[L[i]].right # None => IsAt(L, items[L[i]].right)
          /\ \A x, y : IsAt(L, x) /\ IsAt(L, y) /\ Lt(T, x, y) => Precedes(L, x, y)
      BY <2>1, <2>2, ListFacts
    <3>2. IsAt(L, L[i])
      BY DEF IsAt
    <3>3. /\ items[L[i]].origin # None => Lt(T, items[L[i]].origin, L[i])
          /\ items[L[i]].right # None => Lt(T, L[i], items[L[i]].right)
      BY <2>1, <3>1 DEF Explains, Between
    <3> QED BY <3>1, <3>2, <3>3
  <2>4. OriginOnLeft
    BY <2>3 DEF OriginOnLeft
  <2>5. RightOriginOnRight
    BY <2>3 DEF RightOriginOnRight
  <2> QED BY <2>2, <2>4, <2>5 DEF WellPlaced, StateSound
<1> QED BY <1>1, OneOrderExplains, PTL

\* resolve_conflict never makes two replicas show two items in opposite orders, nor any
\* number of replicas disagree in a circle, for any number of items and replicas.
THEOREM OneOrderForAll == Spec => []OneOrder
<1>1. Inv => OneOrder
  <2> SUFFICES ASSUME Inv, NEW s \in Slots,
                      NEW C \in SUBSET {x \in DOMAIN items : items[x].slot = s}, C # {}
               PROVE  \E x \in C : \A y \in C, r \in Replicas : ~Precedes(order[r][s], y, x)
    BY DEF OneOrder
  <2>1. PICK T : Explains(items, T) /\ InOrder(T)
    BY DEF Inv
  <2>2. StateSound
    BY DEF Inv
  <2>3. PICK x \in C : \A y \in C : ~Lt(T, y, x)
    BY <2>1, <2>2, FirstItem DEF StateSound, Explains
  <2>4. \A r \in Replicas : \A y : Precedes(order[r][s], y, x) => Lt(T, y, x)
    BY <2>1, <2>2, ListFacts
  <2> QED BY <2>3, <2>4
<1> QED BY <1>1, OneOrderExplains, PTL

\* What stands between an item and its origin was inserted there: runs of items that depend
\* on each other do not interleave.
THEOREM RunsNest == Spec => []NoCrossing
<1>1. Inv => NoCrossing
  <2> SUFFICES ASSUME Inv, NEW r \in Replicas, NEW s \in Slots,
                      NEW i \in 1..Len(order[r][s]), NEW j \in 1..Len(order[r][s]),
                      items[order[r][s][i]].origin # None,
                      Precedes(order[r][s], items[order[r][s][i]].origin, order[r][s][j]),
                      j < i
               PROVE  \/ items[order[r][s][j]].origin = items[order[r][s][i]].origin
                      \/ Precedes(order[r][s], items[order[r][s][i]].origin,
                                  items[order[r][s][j]].origin)
    BY DEF NoCrossing
  <2> DEFINE L == order[r][s]
             o == items[L[i]].origin
             q == items[L[j]].origin
  <2>1. PICK T : Explains(items, T) /\ InOrder(T)
    BY DEF Inv
  <2>2. StateSound /\ ItemsSound(items)
    BY DEF Inv, StateSound
  <2>3. /\ L[i] \in DOMAIN items /\ L[j] \in DOMAIN items
        /\ \A x, y : Precedes(L, x, y) => Lt(T, x, y)
        /\ \A x, y : IsAt(L, x) /\ IsAt(L, y) /\ Lt(T, x, y) => Precedes(L, x, y)
        /\ IsAt(L, o) /\ (q # None => IsAt(L, q))
    BY <2>1, <2>2, ListFacts
  <2>4. Lt(T, o, L[j]) /\ Lt(T, L[j], L[i])
    BY <2>1, <2>3 DEF InOrder
  <2>5. q = o \/ Lt(T, o, q)
    BY <2>1, <2>3, <2>4 DEF Explains, Nested
  <2>6. ASSUME Lt(T, o, q) PROVE q # None
    <3>1. q \in DOMAIN items
      BY <2>1, <2>6 DEF Explains, Total
    <3> QED BY <2>2, <3>1 DEF ItemsSound
  <2> QED BY <2>3, <2>5, <2>6
<1> QED BY <1>1, OneOrderExplains, PTL

(***************************************************************************)
(* The entries of a map key and their deletion.                            *)
(***************************************************************************)
NotLast(L, x) == \E i \in 1..(Len(L) - 1) : L[i] = x

\* What an insertion overwrites is exactly what is no longer, or never becomes, the last
\* entry.
LEMMA OverwrittenNotLast ==
  ASSUME NEW D, NEW L \in Seq(D), NEW p \in 0..Len(L), NEW x, NEW M, IsInserted(L, p, x, M)
  PROVE  /\ \A y : NotLast(L, y) => NotLast(M, y)
         /\ \A y \in Overwritten(L, x, p) : NotLast(M, y)
         /\ \A y : NotLast(M, y) => NotLast(L, y) \/ y \in Overwritten(L, x, p)
<1>1. /\ Len(L) \in Nat /\ p \in Nat /\ p <= Len(L)
      /\ Len(M) = Len(L) + 1 /\ M[p + 1] = x
      /\ \A i \in 1..p : M[i] = L[i]
      /\ \A i \in (p + 1)..Len(L) : M[i + 1] = L[i]
  BY DEF IsInserted
<1>2. ASSUME NEW y, NotLast(L, y) PROVE NotLast(M, y)
  <2>1. PICK i \in 1..(Len(L) - 1) : L[i] = y
    BY <1>2 DEF NotLast
  <2>2. CASE i <= p
    BY <1>1, <2>1, <2>2 DEF NotLast
  <2>3. CASE i > p
    <3>1. i + 1 \in 1..(Len(M) - 1) /\ i \in (p + 1)..Len(L)
      BY <1>1, <2>1, <2>3
    <3>2. M[i + 1] = y
      BY <1>1, <2>1, <3>1
    <3> QED BY <3>1, <3>2 DEF NotLast
  <2> QED BY <1>1, <2>1, <2>2, <2>3
<1>3. ASSUME NEW y \in Overwritten(L, x, p) PROVE NotLast(M, y)
  <2>1. CASE p < Len(L)
    <3>1. y = x /\ p + 1 \in 1..(Len(M) - 1)
      BY <1>1, <2>1 DEF Overwritten
    <3> QED BY <1>1, <3>1 DEF NotLast
  <2>2. CASE p = Len(L)
    <3>1. p > 0 /\ y = L[p] /\ p \in 1..(Len(M) - 1)
      BY <1>1, <2>2 DEF Overwritten
    <3> QED BY <1>1, <3>1 DEF NotLast
  <2> QED BY <1>1, <2>1, <2>2
<1>4. ASSUME NEW y, NotLast(M, y) PROVE NotLast(L, y) \/ y \in Overwritten(L, x, p)
  <2>1. PICK i \in 1..(Len(M) - 1) : M[i] = y
    BY <1>4 DEF NotLast
  <2>2. CASE i <= p
    <3>1. L[i] = y
      BY <1>1, <2>1, <2>2
    <3>2. CASE i < Len(L)
      BY <1>1, <2>1, <3>1, <3>2 DEF NotLast
    <3>3. CASE i = Len(L)
      BY <1>1, <2>1, <2>2, <3>1, <3>3 DEF Overwritten
    <3> QED BY <1>1, <2>1, <2>2, <3>2, <3>3
  <2>3. CASE i = p + 1
    BY <1>1, <2>1, <2>3 DEF Overwritten
  <2>4. CASE i > p + 1
    <3>1. i - 1 \in (p + 1)..Len(L) /\ (i - 1) + 1 = i /\ i - 1 \in 1..(Len(L) - 1)
      BY <1>1, <2>1, <2>4
    <3>2. L[i - 1] = y
      BY <1>1, <2>1, <3>1
    <3> QED BY <3>1, <3>2 DEF NotLast
  <2> QED BY <1>1, <2>1, <2>2, <2>3, <2>4
<1> QED BY <1>2, <1>3, <1>4

\* A step marks the entries O of slot s at r, which it makes or leaves not the last ones.
Marks(r, s, O) ==
  /\ \A q \in Replicas, t \in Slots : \A y : NotLast(order[q][t], y) => NotLast(order'[q][t], y)
  /\ \A y \in O : NotLast(order'[r][s], y)
  /\ \A q \in Replicas, t \in Slots : \A y :
       NotLast(order'[q][t], y) => NotLast(order[q][t], y) \/ (q = r /\ t = s /\ y \in O)
  /\ \A q \in Replicas : deleted[q] \subseteq deleted'[q]
  /\ s \in Keys => O \subseteq deleted'[r]
  /\ \A q \in Replicas : \A y \in deleted'[q] :
       y \in deleted[q] \/ (q = r /\ s \in Keys /\ y \in O)

\* Place does that.
LEMMA PlaceMarks ==
  ASSUME TypeOK, NEW r \in Replicas, NEW s \in Slots, NEW p \in 0..Len(order[r][s]), NEW x,
         Place(r, s, x, p)
  PROVE  Marks(r, s, Overwritten(order[r][s], x, p))
<1> DEFINE L == order[r][s]
           M == order'[r][s]
           E == DOMAIN items \cup {x}
           O == Overwritten(L, x, p)
<1>1. L \in Seq(E) /\ M = InsertAt(L, p + 1, x) /\ p \in 0..Len(L) /\ x \in E
  <2>1. L \in Seq(DOMAIN items)
    BY TypeFacts
  <2>2. L \in Seq(E)
    BY <2>1
  <2>3. M = InsertAt(L, p + 1, x)
    BY PlaceOrder
  <2> QED BY <2>2, <2>3
<1>2. \A q \in Replicas, t \in Slots : q # r \/ t # s => order'[q][t] = order[q][t]
  BY PlaceOrder
<1>3. deleted' = IF s \in Keys THEN [deleted EXCEPT ![r] = deleted[r] \cup O] ELSE deleted
  BY DEF Place
<1>4. deleted \in [Replicas -> SUBSET DOMAIN items]
  BY DEF TypeOK
<1> HIDE DEF L, M, E, O
<1>5. IsInserted(L, p, x, M)
  BY <1>1, Inserted, Zenon
<1>6. /\ \A y : NotLast(L, y) => NotLast(M, y)
      /\ \A y \in O : NotLast(M, y)
      /\ \A y : NotLast(M, y) => NotLast(L, y) \/ y \in O
  BY <1>1, <1>5, OverwrittenNotLast DEF O
<1>7. /\ \A q \in Replicas : deleted[q] \subseteq deleted'[q]
      /\ s \in Keys => O \subseteq deleted'[r]
      /\ \A q \in Replicas : \A y \in deleted'[q] : y \in deleted[q] \/ (q = r /\ s \in Keys /\ y \in O)
  BY <1>3, <1>4
<1>8. \A q \in Replicas, t \in Slots : \A y :
        /\ NotLast(order[q][t], y) => NotLast(order'[q][t], y)
        /\ NotLast(order'[q][t], y) => NotLast(order[q][t], y) \/ (q = r /\ t = s /\ y \in O)
  <2> TAKE q \in Replicas, t \in Slots
  <2> TAKE y
  <2>1. CASE q = r /\ t = s
    BY <1>6, <2>1 DEF L, M
  <2>2. CASE q # r \/ t # s
    <3>1. order'[q][t] = order[q][t]
      BY <1>2, <2>2
    <3> QED BY <3>1
  <2> QED BY <2>1, <2>2
<1>9. Marks(r, s, O)
  BY <1>6, <1>7, <1>8 DEF Marks, M
<1> QED BY <1>9 DEF O, L

\* The same of the two actions that link an item in.
LEMMA StepPlaces ==
  ASSUME Inv, Next,
         ~ \E r \in Replicas : Delete(r) \/ ReceiveDelete(r)
  PROVE  \/ UNCHANGED <<items, order, deleted, removed>>
         \/ \E r \in Replicas, s \in Slots : \E x :
              \E p \in 0..Len(order[r][s]) :
                /\ Place(r, s, x, p) /\ removed' = removed
                /\ x \in DOMAIN items' /\ items'[x].slot = s
                /\ \A i \in DOMAIN items : i \in DOMAIN items' /\ items'[i].slot = items[i].slot
<1>0. TypeOK /\ StateSound
  BY DEF Inv, StateSound
<1>1. ASSUME NEW r \in Replicas, NEW s \in Slots, NEW p \in 0..Len(order[r][s]), Create(r, s, p)
      PROVE  /\ Place(r, s, NextId(r), p) /\ removed' = removed
             /\ NextId(r) \in DOMAIN items' /\ items'[NextId(r)].slot = s
             /\ \A i \in DOMAIN items : i \in DOMAIN items' /\ items'[i].slot = items[i].slot
  <2>1. NextId(r) \notin DOMAIN items
    BY <1>0, NextIdFresh
  <2> QED BY <1>1, <2>1 DEF Create
<1>2. ASSUME NEW r \in Replicas, InsertInList(r) \/ InsertInMap(r)
      PROVE  \E s \in Slots : \E p \in 0..Len(order[r][s]) : Create(r, s, p)
  <2>1. CASE InsertInList(r)
    BY <2>1 DEF InsertInList, Slots
  <2>2. CASE InsertInMap(r)
    <3>1. PICK s \in Keys : Create(r, s, Len(order[r][s]))
      BY <2>2 DEF InsertInMap
    <3>2. s \in Slots
      BY DEF Slots
    <3>3. Len(order[r][s]) \in Nat
      BY <1>0, <3>2, TypeFacts
    <3>4. Len(order[r][s]) \in 0..Len(order[r][s])
      BY <3>3
    <3> QED BY <3>1, <3>2, <3>4
  <2> QED BY <1>2, <2>1, <2>2
<1>3. ASSUME Link
      PROVE  /\ scan.replica \in Replicas /\ Self.slot \in Slots
             /\ scan.left \in 0..Len(order[scan.replica][Self.slot])
             /\ Place(scan.replica, Self.slot, scan.item, scan.left) /\ removed' = removed
             /\ scan.item \in DOMAIN items' /\ items'[scan.item].slot = Self.slot
             /\ items' = items
  <2>1. /\ scan.replica \in Replicas /\ scan.item \in DOMAIN items
        /\ \E l \in 0..Len(order[scan.replica][Self.slot]) :
             Scanned(items, order[scan.replica][Self.slot], scan.item, l, scan.left, scan.next)
    BY <1>0, <1>3 DEF StateSound, ScanSound, Link, Self
  <2>2. Self.slot \in Slots
    BY <1>0, <2>1, TypeFacts DEF Self
  <2>3. Len(order[scan.replica][Self.slot]) \in Nat
    BY <1>0, <2>1, <2>2, TypeFacts
  <2>4. scan.left \in 0..Len(order[scan.replica][Self.slot])
    <3> DEFINE L == order[scan.replica][Self.slot]
    <3>1. PICK l \in 0..Len(L) :
                 scan.next \in (l + 1)..(Len(L) + 1) /\ scan.left \in l..(scan.next - 1)
      BY <2>1 DEF Scanned
    <3>2. PICK n \in Nat : n = Len(L)
      BY <2>3
    <3> HIDE DEF L
    <3>3. scan.left \in 0..n
      BY <3>1, <3>2
    <3> QED BY <3>2, <3>3 DEF L
  <2> QED BY <1>3, <2>1, <2>2, <2>4 DEF Link, Self
<1>4. CASE \E r \in Replicas : InsertInList(r) \/ InsertInMap(r)
  <2>1. PICK r \in Replicas : InsertInList(r) \/ InsertInMap(r)
    BY <1>4
  <2>2. PICK s \in Slots : \E p \in 0..Len(order[r][s]) : Create(r, s, p)
    BY <1>2, <2>1
  <2>3. PICK p \in 0..Len(order[r][s]) : Create(r, s, p)
    BY <2>2
  <2> QED BY <1>1, <2>3
<1>5. CASE Link
  BY <1>3, <1>5
<1>6. CASE \E r \in Replicas : Receive(r)
  BY <1>6 DEF Receive
<1>7. CASE ScanAdopt \/ ScanPass
  BY <1>7 DEF ScanAdopt, ScanPass
<1> QED BY <1>4, <1>5, <1>6, <1>7 DEF Next

\* A map key shows at most one value, at every replica and whatever arrives when: every
\* entry but the last is marked as deleted in the step that makes it one.
THEOREM OneValuePerKey == Spec => []LastEntryWins
<1> DEFINE Marked == \A r \in Replicas, s \in Keys : \A y :
                       NotLast(order[r][s], y) => y \in deleted[r]
<1>1. Marked => LastEntryWins
  BY DEF LastEntryWins, NotLast
<1>2. Init => Marked
  <2> SUFFICES ASSUME Init, NEW r \in Replicas, NEW s \in Keys, NEW y, NotLast(order[r][s], y)
               PROVE  FALSE
    OBVIOUS
  <2>1. order[r][s] = <<>>
    BY DEF Init, Slots
  <2> QED BY <2>1 DEF NotLast
<1>3. Inv /\ Marked /\ [Next]_vars => Marked'
  <2> SUFFICES ASSUME Inv, Marked, [Next]_vars,
                      NEW q \in Replicas, NEW t \in Keys, NEW y, NotLast(order'[q][t], y)
               PROVE  y \in deleted'[q]
    OBVIOUS
  <2>0. TypeOK /\ t \in Slots
    BY DEF Inv, StateSound, Slots
  <2>1. CASE UNCHANGED <<order, deleted>>
    BY <2>1
  <2>2. ASSUME NEW r \in Replicas, Delete(r) \/ ReceiveDelete(r) PROVE y \in deleted'[q]
    <3>1. order' = order /\ \E x : deleted' = [deleted EXCEPT ![r] = deleted[r] \cup {x}]
      BY <2>2 DEF Delete, ReceiveDelete
    <3>2. deleted \in [Replicas -> SUBSET DOMAIN items]
      BY <2>0 DEF TypeOK
    <3>3. deleted[q] \subseteq deleted'[q]
      BY <3>1, <3>2
    <3> QED BY <3>1, <3>3
  <2>3. ASSUME NEW r \in Replicas, NEW s \in Slots, NEW x, NEW p \in 0..Len(order[r][s]),
               Place(r, s, x, p)
        PROVE  y \in deleted'[q]
    <3>1. PICK O : Marks(r, s, O)
      BY <2>0, <2>3, PlaceMarks
    <3>2. NotLast(order[q][t], y) \/ (q = r /\ t = s /\ y \in O)
      BY <2>0, <3>1 DEF Marks
    <3>3. deleted[q] \subseteq deleted'[q] /\ (s \in Keys => O \subseteq deleted'[r])
      BY <3>1 DEF Marks
    <3> QED BY <3>2, <3>3
  <2>4. CASE Next /\ ~ \E r \in Replicas : Delete(r) \/ ReceiveDelete(r)
    <3>1. \/ UNCHANGED <<items, order, deleted, removed>>
          \/ \E r \in Replicas, s \in Slots : \E x :
               \E p \in 0..Len(order[r][s]) : Place(r, s, x, p)
      BY <2>4, StepPlaces
    <3> QED BY <2>1, <2>3, <3>1
  <2> QED BY <2>1, <2>2, <2>4 DEF vars
<1> HIDE DEF Marked
<1> QED BY <1>1, <1>2, <1>3, OneOrderExplains, PTL DEF Spec

\* Nothing is deleted but what a user deleted or what another entry of its map key was
\* linked behind: no integration, in whatever order, and no delete set that is passed on
\* takes a value away without a reason.
THEOREM DeletedForAReason == Spec => []NoPhantomDelete
<1> DEFINE Reason(x) == \E q \in Replicas :
                          items[x].slot \in Keys /\ NotLast(order[q][items[x].slot], x)
           Explained == \A r \in Replicas : \A x \in deleted[r] \ removed : Reason(x)
<1>1. Explained => NoPhantomDelete
  BY DEF NoPhantomDelete, NotLast
<1>2. Init => Explained
  BY DEF Init
<1>3. Inv /\ Explained /\ [Next]_vars => Explained'
  <2> SUFFICES ASSUME Inv, Explained, [Next]_vars,
                      NEW q \in Replicas, NEW y \in deleted'[q], y \notin removed'
               PROVE  Reason(y)'
    OBVIOUS
  <2>0. TypeOK /\ ListsSound
    BY DEF Inv, StateSound
  <2>1. CASE UNCHANGED <<items, order, deleted, removed>>
    BY <2>1
  <2>2. ASSUME NEW r \in Replicas, Delete(r) \/ ReceiveDelete(r) PROVE Reason(y)'
    <3>1. order' = order /\ items' = items
      BY <2>2 DEF Delete, ReceiveDelete
    <3>2. deleted \in [Replicas -> SUBSET DOMAIN items]
      BY <2>0 DEF TypeOK
    <3>3. \E u \in Replicas : y \in deleted[u] \ removed
      <4>1. CASE Delete(r)
        <5>1. \E x : /\ deleted' = [deleted EXCEPT ![r] = deleted[r] \cup {x}]
                     /\ removed' = removed \cup {x}
          BY <4>1 DEF Delete
        <5> QED BY <3>2, <5>1
      <4>2. CASE ReceiveDelete(r)
        <5>1. \E u \in Replicas : \E x \in deleted[u] :
                deleted' = [deleted EXCEPT ![r] = deleted[r] \cup {x}]
          BY <4>2 DEF ReceiveDelete
        <5>2. removed' = removed
          BY <4>2 DEF ReceiveDelete
        <5> QED BY <3>2, <5>1, <5>2
      <4> QED BY <2>2, <4>1, <4>2
    <3>4. Reason(y)
      BY <3>3
    <3> QED BY <3>1, <3>4
  <2>3. ASSUME NEW r \in Replicas, NEW s \in Slots, NEW x, NEW p \in 0..Len(order[r][s]),
               Place(r, s, x, p), removed' = removed, items'[x].slot = s,
               \A i \in DOMAIN items : items'[i].slot = items[i].slot
        PROVE  Reason(y)'
    <3> DEFINE O == Overwritten(order[r][s], x, p)
    <3>5. Marks(r, s, O)
      BY <2>0, <2>3, PlaceMarks
    <3>6. \A w \in O : w = x \/ \E i \in 1..Len(order[r][s]) : w = order[r][s][i]
      BY DEF Overwritten
    <3> HIDE DEF O
    <3>0. \A u \in Replicas, t \in Slots : \A w : NotLast(order[u][t], w) => NotLast(order'[u][t], w)
      BY <3>5 DEF Marks
    <3>3. \A w \in O : NotLast(order'[r][s], w)
      BY <3>5 DEF Marks
    <3>4. y \in deleted[q] \/ (q = r /\ s \in Keys /\ y \in O)
      BY <3>5 DEF Marks
    <3>1. CASE y \in deleted[q]
      <4>1. Reason(y)
        BY <2>3, <3>1
      <4>2. PICK u \in Replicas : items[y].slot \in Keys /\ NotLast(order[u][items[y].slot], y)
        BY <4>1
      <4>3. items'[y].slot = items[y].slot
        BY <2>0, <2>3, <3>1 DEF TypeOK
      <4>4. NotLast(order'[u][items'[y].slot], y)
        BY <3>0, <4>2, <4>3 DEF Slots
      <4> QED BY <4>2, <4>3, <4>4
    <3>2. CASE q = r /\ s \in Keys /\ y \in O
      <4>1. NotLast(order'[r][s], y)
        BY <3>2, <3>3
      <4>2. items'[y].slot = s
        <5>1. CASE y = x
          BY <2>3, <5>1
        <5>2. CASE y # x
          <6>1. PICK i \in 1..Len(order[r][s]) : y = order[r][s][i]
            BY <3>2, <3>6, <5>2
          <6>2. y \in DOMAIN items /\ items[y].slot = s
            BY <2>0, <6>1, TypeFacts DEF ListsSound
          <6> QED BY <2>3, <6>2
        <5> QED BY <5>1, <5>2
      <4> QED BY <3>2, <4>1, <4>2
    <3> QED BY <3>1, <3>2, <3>4
  <2>4. CASE Next /\ ~ \E r \in Replicas : Delete(r) \/ ReceiveDelete(r)
    <3>1. \/ UNCHANGED <<items, order, deleted, removed>>
          \/ \E r \in Replicas, s \in Slots : \E x :
               \E p \in 0..Len(order[r][s]) :
                 /\ Place(r, s, x, p) /\ removed' = removed
                 /\ items'[x].slot = s
                 /\ \A i \in DOMAIN items : items'[i].slot = items[i].slot
      BY <2>4, StepPlaces
    <3> QED BY <2>1, <2>3, <3>1
  <2> QED BY <2>1, <2>2, <2>4 DEF vars
<1> HIDE DEF Explained
<1> QED BY <1>1, <1>2, <1>3, OneOrderExplains, PTL DEF Spec

(***************************************************************************)
(* Convergence.                                                            *)
(***************************************************************************)
\* Two lists of the same items in the same order are equal.
LEMMA SortedAlike ==
  ASSUME NEW T, Transitive(T), \A x : ~Lt(T, x, x),
         NEW D, NEW L \in Seq(D), NEW M \in Seq(D),
         \A i, j \in 1..Len(L) : i < j => Lt(T, L[i], L[j]),
         \A i, j \in 1..Len(M) : i < j => Lt(T, M[i], M[j]),
         \A x : IsAt(L, x) => IsAt(M, x), \A x : IsAt(M, x) => IsAt(L, x)
  PROVE  L = M
<1>0. Len(L) \in Nat /\ Len(M) \in Nat
  OBVIOUS
<1>1. \A x, y, z : Lt(T, x, y) /\ Lt(T, y, z) => Lt(T, x, z)
  BY DEF Transitive
<1> DEFINE Differ == {i \in Nat : /\ i \in 1..Len(L) \/ i \in 1..Len(M)
                                  /\ ~ (i \in 1..Len(L) /\ i \in 1..Len(M) /\ L[i] = M[i])}
<1>2. CASE Differ = {}
  <2>1. \A i \in Nat : i \in 1..Len(L) <=> i \in 1..Len(M)
    BY <1>2
  <2>2. Len(L) = Len(M)
    BY <1>0, <2>1
  <2>3. \A i \in 1..Len(L) : L[i] = M[i]
    BY <1>0, <1>2
  <2> QED BY <2>2, <2>3
<1>3. ASSUME Differ # {} PROVE FALSE
  <2>1. PICK d \in Differ : \A i \in Differ : d <= i
    <3>1. Differ \in SUBSET Nat
      OBVIOUS
    <3> HIDE DEF Differ
    <3> QED BY <1>3, <3>1, LeastElement
  <2>2. ASSUME NEW i \in Nat, i < d, i \in 1..Len(L) \/ i \in 1..Len(M)
        PROVE  i \in 1..Len(L) /\ i \in 1..Len(M) /\ L[i] = M[i]
    BY <2>1, <2>2
  <2>3. ASSUME d \in 1..Len(L) PROVE \E j \in 1..Len(M) : M[j] = L[d] /\ (j = d \/ d < j)
    <3>1. IsAt(L, L[d])
      BY <2>3 DEF IsAt
    <3>2. PICK j \in 1..Len(M) : M[j] = L[d]
      BY <3>1 DEF IsAt
    <3>3. ~ (j < d)
      <4> SUFFICES ASSUME j < d PROVE FALSE
        OBVIOUS
      <4>1. j \in 1..Len(L) /\ L[j] = L[d]
        BY <1>0, <2>2, <3>2
      <4> QED BY <2>3, <4>1
    <3> QED BY <1>0, <2>3, <3>2, <3>3
  <2>4. ASSUME d \in 1..Len(M) PROVE \E j \in 1..Len(L) : L[j] = M[d] /\ (j = d \/ d < j)
    <3>1. IsAt(M, M[d])
      BY <2>4 DEF IsAt
    <3>2. PICK j \in 1..Len(L) : L[j] = M[d]
      BY <3>1 DEF IsAt
    <3>3. ~ (j < d)
      <4> SUFFICES ASSUME j < d PROVE FALSE
        OBVIOUS
      <4>1. j \in 1..Len(M) /\ M[j] = M[d]
        BY <1>0, <2>2, <3>2
      <4> QED BY <2>4, <4>1
    <3> QED BY <1>0, <2>4, <3>2, <3>3
  <2>5. d \in 1..Len(L) /\ d \in 1..Len(M)
    BY <1>0, <2>1, <2>3, <2>4
  <2>6. L[d] # M[d]
    BY <2>1, <2>5
  <2>7. Lt(T, M[d], L[d])
    BY <2>3, <2>5, <2>6
  <2>8. Lt(T, L[d], M[d])
    BY <2>4, <2>5, <2>6
  <2> QED BY <1>1, <2>7, <2>8
<1> QED BY <1>2, <1>3

\* Two replicas that have received the same items of a slot, in whatever order, have the
\* same list: strong eventual convergence of integrate_item.
THEOREM SameItemsSameList ==
  Spec => [](\A r, q \in Replicas, s \in Slots :
               (\A x : IsAt(order[r][s], x) <=> IsAt(order[q][s], x)) => order[r][s] = order[q][s])
<1>1. Inv => \A r, q \in Replicas, s \in Slots :
               (\A x : IsAt(order[r][s], x) <=> IsAt(order[q][s], x)) => order[r][s] = order[q][s]
  <2> SUFFICES ASSUME Inv, NEW r \in Replicas, NEW q \in Replicas, NEW s \in Slots,
                      \A x : IsAt(order[r][s], x) <=> IsAt(order[q][s], x)
               PROVE  order[r][s] = order[q][s]
    OBVIOUS
  <2>1. PICK T : Explains(items, T) /\ InOrder(T)
    BY DEF Inv
  <2>2. Transitive(T) /\ \A x : ~Lt(T, x, x)
    BY <2>1 DEF Explains, Total, Transitive
  <2>3. order[r][s] \in Seq(DOMAIN items) /\ order[q][s] \in Seq(DOMAIN items)
    BY TypeFacts DEF Inv, StateSound
  <2>4. /\ \A i, j \in 1..Len(order[r][s]) : i < j => Lt(T, order[r][s][i], order[r][s][j])
        /\ \A i, j \in 1..Len(order[q][s]) : i < j => Lt(T, order[q][s][i], order[q][s][j])
    BY <2>1 DEF InOrder
  <2> QED BY <2>2, <2>3, <2>4, SortedAlike
<1> QED BY <1>1, OneOrderExplains, PTL
=============================================================================
